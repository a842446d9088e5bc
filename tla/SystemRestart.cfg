SPECIFICATION Spec
CONSTANTS
  Core = {c1, c2}
  IdModulus = 3
  MaxRunning = 2
  MaxPackets = 1
INVARIANTS ListenerCanStart
CHECK_DEADLOCK FALSE
