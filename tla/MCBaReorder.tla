---- MODULE MCBaReorder ----
EXTENDS BaReorder

MCWinSizes == {2, 3}
====
