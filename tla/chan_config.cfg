SPECIFICATION SafeSpec
CONSTANTS
  CI_MAX_LIST_NUM = 2
  MaxInflight = 3
  MaxTasks = 4
  PromptIrq = TRUE
  QuietChange = TRUE
  Keys = {k1, k2}
  IVs = {v1, v2}
  Modes = {m1}
  CAModes <- MCKeyBoth
  NULL = NULL
PROPERTY ProcessedAsAsked
