---------------------------- MODULE MCHttp2Conn ----------------------------
(***************************************************************************)
(* Instances of Http2Conn for TLC.                                         *)
(***************************************************************************)
EXTENDS Http2ConnProofs

\* The bounds of the run: a GOAWAY is followed through the calls that no
\* cancellation and no race met, a slot that was raced, of which nothing more
\* is promised, up to the second message, and the third call, for which toMsg
\* has an error, comes where none of these has.
Announced == ~ registered \/ \E d \in Dirs : GoAway \in ToSet(queue[d])
Followed == /\ Announced => cancelled = {} /\ raced = {}
            /\ raced # {} => Len(emitted) < 2
            /\ sent["in"][NStreams] > 0 => cancelled = {} /\ raced = {} /\ ~ Announced
=============================================================================
