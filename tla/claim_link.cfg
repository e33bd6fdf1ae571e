SPECIFICATION Spec
CONSTANTS
  kernel = kernel
  user = user
  code = code
  kdata = kdata
  f1 = f1
  f2 = f2
  f3 = f3
  Spaces = {kernel}
  Private = {code, kdata}
  Shared = {}
  Frames <- MCFrames
  FramesFor <- MCFramesFor
  PcidOf <- MCPcidOf
  PcidEnabled = {FALSE}
  FlagSets <- MCFlagSets
  None = None
  DirtyFrames = TRUE
SYMMETRY FrameSymmetry
INVARIANTS
  NewestMappingUsed
