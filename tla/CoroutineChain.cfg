CONSTANTS
  Main = Main
  Coroutines = {c1, c2}
  Variables = {v1}
  Uses = {"meta", "pcall", "callk", "declare", "return", "error", "yield", "resume", "close", "closeSelf"}
  Slack = 20
  MaxPos = 4
  MaxGo = 6
SPECIFICATION Spec
PROPERTY StatusFollowsLifecycle
SYMMETRY Interchangeable
