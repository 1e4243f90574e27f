SPECIFICATION Spec
CONSTANTS
  Threads <- MCThreads
  Files <- MCFiles
  FileOf <- MCOwnFile
  t1 = t1
  t2 = t2
  t3 = t3
  f1 = f1
  f2 = f2
  NULL = NULL
  Lost = Lost
  CIPHER_SOFT_CHAN_NUM = 2
  CI_MAX_LIST_NUM = 2
  Releases = TRUE
  Signals = TRUE
  Timeouts = TRUE
  CopyFaults = TRUE
INVARIANTS SemNeverLost
PROPERTY CallsReturn
