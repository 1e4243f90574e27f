SPECIFICATION Spec
CONSTANTS
  CI_MAX_LIST_NUM = 3
  MaxInflight = 3
  MaxTasks = 4
  PromptIrq = FALSE
  QuietChange = FALSE
  Keys = {k1}
  IVs = {v1}
  Modes = {m1}
  CAModes <- MCKeyByCA
  NULL = NULL
INVARIANTS TypeOK RingInv
PROPERTY FifoLive
