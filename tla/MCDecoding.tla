----------------------------- MODULE MCDecoding -----------------------------
(***************************************************************************)
(* Instances of Decoding for TLC: four fields, two of them of one name,    *)
(* for tables of two.                                                      *)
(***************************************************************************)
EXTENDS DecodingProofs

MCNameOf == <<"path", "key", "key", "status">>
MCRequests == {<<1, 2>>, <<3, 1>>}
MCResponses == {<<4>>}
MCTrailers == {<<4>>, <<2>>}
=============================================================================
