---------------------------- MODULE MCCipherOsr -----------------------------
(* Threads and files for CipherOsr: one thread per file, or two threads that *)
(* share the file of one process.                                            *)
EXTENDS CipherOsr, TLC

CONSTANTS t1, t2, t3, f1, f2

MCThreads == {t1, t2}
MCFiles == {f1, f2}
MCOwnFile == t1 :> f1 @@ t2 :> f2
MCThree == {t1, t2, t3}
MCSharedFile == t1 :> f1 @@ t2 :> f1 @@ t3 :> f2
=============================================================================
