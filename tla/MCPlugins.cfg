SPECIFICATION Spec
CONSTANTS
  Plugin = {p, q}
  Value = {d, v}
  DefaultOf = d
  DefaultEnabled = {q}
  HasCore = {p, q}
  MaxFaults = 1
  MaxCalls = 6
INVARIANTS TypeOK EnabledAreActive EnabledHeard CodeIsLoaded Mirrored
CHECK_DEADLOCK FALSE
