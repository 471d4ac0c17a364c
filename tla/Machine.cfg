SPECIFICATION Spec
CONSTANTS
  ListItemsPerFlush = 2
  Programs <- MCPrograms
  Compiled <- MCCompiled
  Meanings <- MCMeanings
INVARIANTS TypeOK TraceIsMeaning OpenUpvaluesInScope
PROPERTY Ends
CHECK_DEADLOCK FALSE
