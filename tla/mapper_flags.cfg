SPECIFICATION Spec
CONSTANTS
  PRESENT = PRESENT
  WRITABLE = WRITABLE
  USER_ACCESSIBLE = USER_ACCESSIBLE
  HUGE_PAGE = HUGE_PAGE
  bit12 = bit12
  bit21 = bit21
  bit30 = bit30
  bit51 = bit51
  RootBit = RootBit
  NewTables = {t1, t2, t3}
  AddrBits <- MCAddrBits
  FlagBits <- MCFlagBits
  Below2MiB <- MCBelow2MiB
  Below1GiB <- MCBelow1GiB
  ENTRY_COUNT = 2
  TableFrames <- MCTableFrames
  Root <- MCRoot
  Pages <- FlagPages
  DataFrames <- FlagDataFrames
  MapFlags <- FlagMapFlags
  LeafFlags <- FlagLeafFlags
  TableFlags <- FlagTableFlags
  Ranges <- FlagRanges
  GarbageEntry <- MCGarbage
SYMMETRY Symmetry
INVARIANTS
  TypeOK
  NeverPanics
  TranslateAgrees
  AnswersAgree
PROPERTIES
  ImplementsAddressSpace
