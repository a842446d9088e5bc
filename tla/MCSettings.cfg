SPECIFICATION Spec
CONSTANTS
  Name <- MCName
  Value = {"x", "y"}
  DefaultName <- MCDefaultName
  DefaultValue = {"x"}
  Empty = Empty
  Default <- MCDefault
  Other = Other
  ByHand <- MCByHand
  NoFile = NoFile
  Unparsable = Unparsable
INVARIANTS TypeOK NoDeadBranch LastSetIsRead KeptIsRestored
PROPERTIES ExitSparesUnread
