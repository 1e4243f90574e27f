----------------------------- MODULE MCWatchdog -----------------------------
(* Margins and parameters for Watchdog.  With Hz = 2 and RegMax = 9 the      *)
(* largest margin is 4 seconds and ~0 is not a whole number of seconds.      *)
EXTENDS Watchdog

CONSTANTS t1, t2

MCOne == {t1}
MCTwo == {t1, t2}
MCAnyDefault == {-1, 0, 1, 5}
MCAnyMargin == {-1, 0, 1, 4, 5}
MCWideDefault == {4}
=============================================================================
