---------------------------- MODULE MCRecording ----------------------------
(***************************************************************************)
(* An instance of Recording for TLC: two inputs, a filtered message, a     *)
(* response in two of them.                                                *)
(***************************************************************************)
EXTENDS RecordingProofs

MCMethodOf == <<"search", "reflection", "search", "put">>
MCHasResponse == <<FALSE, FALSE, TRUE, FALSE>>
MCArrivals == << <<1, 2, 3>>, <<4>> >>
MCOutputs == <<"grpc", "file">>
MCExclude == {{"reflection"}}
MCInclude == {{"search", "reflection", "put"}}
=============================================================================
