---------------------------- MODULE MCRAWListen ----------------------------
(***************************************************************************)
(* Instances of RAWListen for TLC.                                         *)
(***************************************************************************)
EXTENDS RAWListenProofs
=============================================================================
