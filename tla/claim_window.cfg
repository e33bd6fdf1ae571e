SPECIFICATION RecSpec
CONSTANTS
  PRESENT = PRESENT
  WRITABLE = WRITABLE
  USER_ACCESSIBLE = USER_ACCESSIBLE
  HUGE_PAGE = HUGE_PAGE
  bit12 = bit12
  bit30 = bit30
  bit40 = bit40
  RootBit = RootBit
  NewTables = {t1, t2, t3}
  AddrBits <- MCAddrBits
  FlagBits <- MCFlagBits
  Below2MiB <- MCBelow2MiB
  Below1GiB <- MCBelow1GiB
  ENTRY_COUNT = 2
  TableFrames <- MCTableFrames
  Root <- MCRoot
  Pages <- MCPages
  DataFrames <- MCDataFrames
  MapFlags <- MCMapFlags
  LeafFlags <- MCLeafFlags
  TableFlags <- MCTableFlags
  Ranges <- MCRanges
  GarbageEntry <- MCGarbage
  recursive_index = 1
  MaxRemovals = 1
CHECK_DEADLOCK FALSE
SYMMETRY Symmetry
INVARIANT NewTablesZeroed
