---------------------------- MODULE MCProcessor ----------------------------
(***************************************************************************)
(* Instances of Processor for TLC.                                         *)
(***************************************************************************)
EXTENDS ProcessorProofs
=============================================================================
