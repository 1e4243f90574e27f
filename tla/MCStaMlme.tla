---- MODULE MCStaMlme ----
EXTENDS StaMlme, TLC
Symmetry == Permutations(Bss)
====
