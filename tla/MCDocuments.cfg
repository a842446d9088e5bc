SPECIFICATION Spec
CONSTANTS
  Code <- MCCode
  IntBits = 4
  LargestBits = 8
  Throws = Throws
  TooLarge = TooLarge
  Unbalanced = Unbalanced
  RightMargin = 12
  IndentSize = 1
  Leaves <- MCLeaves
  Names <- MCNames
  Arguments <- MCArguments
  ByHand <- MCByHand
  Numerals <- MCNumerals
  BufferSize = 16
  MaxNodes = 3
INVARIANTS WrittenIsRead CutIsRefused NumbersAreKept ArgumentsAreKept ConvertibleIsConverted
CHECK_DEADLOCK FALSE
