SPECIFICATION SafeSpec
CONSTANTS
  t1 = t1
  t2 = t2
  t3 = t3
  Threads <- MCThree
  Shared = FALSE
  Keys = {k1, k2}
  Zero = Zero
  None = None
  HI_IR_MAX_BUF = 3
  DEFAULT_BUF_LEN = 3
  BufArgs = {}
  Keyups = {TRUE, FALSE}
  Repkeys = {TRUE}
  MaxRead = 1
  PromptIrq = TRUE
  SlowReader = FALSE
  MaxUnread = 0
INVARIANT ExclusiveOpen
PROPERTY UpFollowsDown
SYMMETRY MCSymmetry
