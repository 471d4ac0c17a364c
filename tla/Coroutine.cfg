CONSTANTS
  Main = Main
  Coroutines = {c1}
  Variables = {v1, v2}
  Uses = {"call", "pcall", "plain", "declare", "jump", "return", "error", "yield",
          "resume", "close", "closeSelf"}
  Slack = 20
  MaxPos = 5
  MaxGo = 6
SPECIFICATION Spec
INVARIANTS TypeOK PendingHasCloser UnyieldableCounted ContinuationsReady DeathIsUncaught
           SelfCloseEnds SelfCloseReturns
PROPERTY ClosedOnce
SYMMETRY Interchangeable
