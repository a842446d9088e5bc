SPECIFICATION Spec
CONSTANTS
  Addr <- MCAddr
  Byte <- MCByte
  Relative = "rel"
  Keep = Keep
  Original <- MCOriginal
  Module <- MCModule
  Segment <- MCSegment
  RelWidth = 2
  Submitter = {listener}
  Catalogue <- MCCatalogue
  IdLimit = 2
  MaxTime = 1
  MaxStarts = 2
  MaxFaults = 1
INVARIANTS TypeOK QueueExact
PROPERTIES ImplementsService EventuallyDecided
CHECK_DEADLOCK FALSE
