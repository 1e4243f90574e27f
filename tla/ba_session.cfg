CONSTANTS
  NumTid = 2
  OriTids = {0, 1}
  RecTids = {1}
  OriLen = 2
  RecLen = 2
  ORI_SESSION_MAX_RETRY = 3
  MaxQ = 2
  MaxNet = 1
  Preempt = FALSE
  Trouble = {}
SPECIFICATION Spec
INVARIANTS TableInv WaitIsTimed SessionAgreed
PROPERTIES SetupEnds TimeoutSparesDone
