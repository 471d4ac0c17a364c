SPECIFICATION Spec
CONSTANTS
  Coroutines = {c1}
  Main = main
  Finalizer = fin
  PollPeriod = 2
  JitBudget = 1
  EntryPeriod = 1
  Uses = {}
  MaxNested = 3
  MaxLine = 2
  MaxRequests = 2
INVARIANT TypeOK
INVARIANT EachRaiseWasAsked
PROPERTY NoInterruptLost
PROPERTY NoStaleRaise
