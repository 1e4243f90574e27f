------------------------------- MODULE MCHiIr -------------------------------
(* Threads for HiIr, and the symmetry of a run without liveness *)
EXTENDS HiIr, TLC

CONSTANTS t1, t2, t3

MCOne == {t1}
MCTwo == {t1, t2}
MCThree == {t1, t2, t3}

(* Nothing tells the threads apart *)
MCSymmetry == Permutations(MCThree)
=============================================================================
