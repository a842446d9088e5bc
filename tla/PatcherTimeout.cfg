SPECIFICATION Spec
CONSTANTS
  Addr <- MCAddr
  Byte <- MCByte
  Relative = "rel"
  Keep = Keep
  Original <- MCOriginal
  Module <- MCModule
  Segment <- MCSegment
  RelWidth = 2
  Submitter = {listener}
  Catalogue <- MCCatalogue
  IdLimit = 2
  MaxTime = 1
  MaxStarts = 1
  MaxFaults = 0
INVARIANTS TimedOutInTime
CHECK_DEADLOCK FALSE
