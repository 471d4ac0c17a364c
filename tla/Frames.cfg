CONSTANTS
  Functions <- MCFunctions
  Handlers <- MCHandlers
  Mains <- MCMains
  Registers <- MCRegisters
  InitialSize = 14
  ExtraStack = 5
  MinStack = 2
  MetaLimit = 2
  MinRuns = {0, 4}
  Rounds = 3
SPECIFICATION Spec
INVARIANTS TypeOK FramesAgree
CHECK_DEADLOCK FALSE
