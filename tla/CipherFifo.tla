----------------------------- MODULE CipherFifo -----------------------------
(***************************************************************************)
(* What one multi-packet cipher channel promises to its caller: packets    *)
(* are numbered in the order the driver accepts them, the engine processes *)
(* them in that order, and the driver reports each one exactly once, in    *)
(* that order, and only after the engine has finished it.  No more than    *)
(* Capacity packets are ever accepted and not yet reported.                *)
(*                                                                         *)
(* A packet is its number, so the three counters below name packets: the   *)
(* packet processed last is `processed', the one reported last `notified'. *)
(***************************************************************************)
EXTENDS Naturals

CONSTANT Capacity       \* entries of the hardware list

VARIABLES submitted,    \* the packet accepted last
          processed,    \* the packet the engine finished last
          notified      \* the packet reported last

vars == <<submitted, processed, notified>>

Init == submitted = 0 /\ processed = 0 /\ notified = 0

Submit ==
  /\ submitted - notified < Capacity
  /\ submitted' = submitted + 1
  /\ UNCHANGED <<processed, notified>>

Process ==
  /\ processed < submitted
  /\ processed' = processed + 1
  /\ UNCHANGED <<submitted, notified>>

Notify ==
  /\ notified < processed
  /\ notified' = notified + 1
  /\ UNCHANGED <<submitted, processed>>

Next == Submit \/ Process \/ Notify

(* Safety only, and with the promise that accepted packets are reported.   *)
SafeSpec == Init /\ [][Next]_vars

Spec == SafeSpec /\ WF_vars(Process) /\ WF_vars(Notify)
=============================================================================
