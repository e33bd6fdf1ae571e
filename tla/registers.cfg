SPECIFICATION RegSpec
CONSTANTS
  MaxDepth = 5
  MaxInterrupts = 2
  MaxNmis = 0
  Regs = {"cr0", "cr4", "efer", "xcr0", "dr7", "sfmask", "ucet", "scet", "pat"}
  Calls <- MCCalls
  MaxCalls = 3
CHECK_DEADLOCK FALSE
INVARIANTS
  ReadsTellWrites
  ReservedKept
