---------------------------- MODULE MCCipherChan ----------------------------
(* Model values for CipherChan; the ring sizes and bounds are in the cfgs. *)
EXTENDS CipherChan

MCKeyByCA == {FALSE}
MCKeyBoth == {FALSE, TRUE}
=============================================================================
