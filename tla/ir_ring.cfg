SPECIFICATION Spec
CONSTANTS
  t1 = t1
  t2 = t2
  t3 = t3
  Threads <- MCOne
  Shared = FALSE
  Keys = {k1}
  Zero = Zero
  None = None
  HI_IR_MAX_BUF = 3
  DEFAULT_BUF_LEN = 3
  BufArgs = {0, 2, 3, 4}
  Keyups = {TRUE, FALSE}
  Repkeys = {TRUE, FALSE}
  MaxRead = 1
  PromptIrq = FALSE
  SlowReader = FALSE
  MaxUnread = 0
INVARIANTS TypeOK RingInv NoLostWakeup
PROPERTY ReaderWoken
