CONSTANTS
  Objects = {a, b, c, d}
  Scalar = Scalar
  Modes = {"", "k", "v", "kv"}
  Uses = {"abort"}
  MaxEntries = 1
  MaxWeak = 1
  MaxGC = 3
  Root = a
  Due = b
SPECIFICATION MCSpec
INVARIANTS TypeOK QueuedOrCalledOnce FinalizerThreadEmpty CloseFinalizesAll
PROPERTIES WeakEntriesExact FinalizesUnreachable
SYMMETRY Interchangeable
ACTION_CONSTRAINT OnceInHeap
CHECK_DEADLOCK FALSE
