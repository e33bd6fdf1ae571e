SPECIFICATION Spec
CONSTANTS
  U64 = 128
  HALF = 16
  PHYS = 64
  PAGE = 2
  ENTRIES = 2
  Counts <- AllWords
  Aligns <- PowersOfTwo
  Kinds <- AllKinds
  Sizes <- MCSizes
  U16_MAX = 3
  USIZE_MAX = 4
  CountMaxes = {0, 1, 3}
  FlushSizes <- MCFlushSizes
  Asids = {0, 1}
  Nasid = 1
  Pcids = {0}
INVARIANTS
  AlwaysCanonical
  StepsAreLinear
  StepsBetweenAgree
  AlignIsNearest
  IndicesNamePages
  YieldsRangeInOrder
  PanicsOnlyAtLast
  LenCountsRest
  FlushesExactlyRange
  RequestsWithinLimits
PROPERTIES
  LoopEnds
  FlushEnds
