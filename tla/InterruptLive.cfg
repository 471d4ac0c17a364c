SPECIFICATION Spec
CONSTANTS
  Coroutines = {c1}
  Main = main
  Finalizer = fin
  PollPeriod = 1
  JitBudget = 2
  EntryPeriod = 2
  Uses = {"hostResume", "resumeActive", "resumeCollect"}
  MaxNested = 2
  MaxLine = 2
  MaxRequests = 1
PROPERTY InterruptNoticed
