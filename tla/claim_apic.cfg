SPECIFICATION RegSpec
CONSTANTS
  MaxDepth = 3
  MaxInterrupts = 1
  MaxNmis = 0
  Regs = {"apic"}
  Calls <- MCCalls
  MaxCalls = 2
CHECK_DEADLOCK FALSE
INVARIANT ReadsTellWrites
