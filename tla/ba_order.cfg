CONSTANTS
  SEQS = 16
  WinSizes <- MCWinSizes
  NumBlk = 2
  Gap = 1
  FirstFrame = 13
  LastFrame = 18
  Preempt = FALSE
SPECIFICATION Spec
INVARIANTS ListInv InOrder NoReadyFrameWaits NothingLost
