CONSTANTS
  Width = 5
  Precision = 3
  MaxExponent = 3
  ImmediateWidth = 4
  MaxFloats <- MCMaxFloats
  MaxInts <- MCMaxInts
  Programs <- MCPrograms
  Processors <- MCProcessors
  Buffers <- MCBuffers
  Plans <- MCPlans
SPECIFICATION Spec
INVARIANTS TypeOK KernelAgrees FrameAgrees
