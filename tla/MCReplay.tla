------------------------------ MODULE MCReplay ------------------------------
(***************************************************************************)
(* Instances of Replay for TLC: recordings in order and out of order, one  *)
(* of them with a later record before those read ahead, with none, one and *)
(* as many unreadable records as are read ahead, and with one at the start.*)
(***************************************************************************)
EXTENDS ReplayProofs

MCRecordings == {<<2, 1, 3, 5, 4>>, <<2, 3, 1, 5, 4>>, <<1, 2, Bad, 4, 5>>,
                 <<2, 3, Bad, Bad, 4>>, <<3, Bad, 1>>}
MCTimestampOf == <<10, 12, 12, 14, 16>>
MCMethodOf == <<"search", "reflection", "search", "put", "">>
MCHasResponse == [m \in Messages |-> FALSE]
MCOutputs == <<"grpc">>
MCExclude == {{"reflection"}}
=============================================================================
