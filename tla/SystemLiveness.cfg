SPECIFICATION Spec
CONSTANTS
  Core = {c1, c2}
  IdModulus = 3
  MaxRunning = 2
  MaxPackets = 0
PROPERTIES GoneForgotten EndedLeaves DestroyCompletes
CHECK_DEADLOCK FALSE
