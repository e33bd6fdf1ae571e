SPECIFICATION TablesSpec
CONSTANTS
  MAX = 6
  U16 = 48
  None = None
  TssAddr <- MCTssAddr
  RawSlices <- MCRawSlices
  Vectors = {8, 9, 14, 18, 21, 22, 32, 33, 255}
  Names = {"low", "high"}
  Ranges <- MCRanges
  StackIndices = {0, 6, 7}
  MaxIdtCalls = 3
  MaxBootLen = 3
CHECK_DEADLOCK FALSE
INVARIANTS
  SelectorsNameDescriptors
  PanicsOnlyWhenFull
  TaskStateFound
  SyscallSelectors
  GatesDeliverAsked
  HandlersFitVectors
