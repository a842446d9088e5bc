SPECIFICATION Spec
CONSTANTS
  Addr <- MCAddr
  Byte <- MCByte
  Relative = "rel"
  Keep = Keep
  Original <- MCOriginal
  Module <- MCModule
  Segment <- MCSegment
  RelWidth = 2
  Submitter = {listener}
  Catalogue <- MCUndoOther
  IdLimit = 3
  MaxTime = 1
  MaxStarts = 1
  MaxFaults = 0
INVARIANTS PassStaysInQueue QueueExact
PROPERTIES DestroyCompletes
CHECK_DEADLOCK FALSE
