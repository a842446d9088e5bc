SPECIFICATION Spec
CONSTANTS
  PtrBytes = 2
  Throws = Throws
  Nothing = Nothing
  PageSize = 4
  Depth = 3
  Base = 16
  CallOpCode = 14
  IndirectOpCode <- MCIndirect
  Modules <- MCModules
  MappedPages <- MCMappedPages
  Hooks <- MCHooks
  Packs <- MCPacks
  LoadedPlugins <- MCLoadedPlugins
  Memories <- MCMemories
  Wrapper = 100
  MaxRegistered = 2
INVARIANTS ReceivedAsSent FoundIsReference MemoryIsRestored RegisteredApart
CHECK_DEADLOCK FALSE
