SPECIFICATION Spec
CONSTANTS
  h1 = h1 h2 = h2 inHook = inHook replacing = replacing
  Missing = Missing
  Hook = {h1, h2}
  Pack = {inHook, replacing}
  Source = {s1, s2}
  Replaces = {replacing}
  DefaultEnabled = {replacing}
  HooksUsed <- MCHooksUsed
  MaxFaults = 1
  MaxCalls = 5
  MaxRestarts = 1
SYMMETRY SourceSymmetry
INVARIANTS TypeOK SkipIsSound WrapperIsLoaded NoOrphanGroup NoSilentDivergence
CHECK_DEADLOCK FALSE
