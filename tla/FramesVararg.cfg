CONSTANTS
  Functions <- MCFunctions
  Handlers <- MCHandlers
  Mains <- TailCallsFromVarArg
  Registers <- MCRegisters
  InitialSize = 14
  ExtraStack = 5
  MinStack = 2
  MetaLimit = 2
  MinRuns = {0, 4}
  Rounds = 2
SPECIFICATION Spec
INVARIANT FramesAgree
CHECK_DEADLOCK FALSE
