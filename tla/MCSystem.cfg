SPECIFICATION Spec
CONSTANTS
  Core = {c1, c2, c3}
  IdModulus = 3
  MaxRunning = 2
  MaxPackets = 1
INVARIANTS TypeOK RegisteredIsOpen Listened Watched IdsNotReused DisconnectedAtExit
CHECK_DEADLOCK FALSE
