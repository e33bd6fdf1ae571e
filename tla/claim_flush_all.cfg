SPECIFICATION TrustingSpec
CONSTANTS
  kernel = kernel
  user = user
  code = code
  kdata = kdata
  f1 = f1
  f2 = f2
  f3 = f3
  Spaces = {kernel}
  Private = {}
  Shared = {kdata}
  Frames <- MCFrames
  FramesFor <- MCFramesFor
  PcidOf <- MCPcidOf
  PcidEnabled = {FALSE}
  FlagSets <- MCFlagSets
  None = None
  DirtyFrames = FALSE
SYMMETRY FrameSymmetry
INVARIANTS
  NewestMappingUsed
