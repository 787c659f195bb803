----------------------------- MODULE ConnFeeds -----------------------------
(***************************************************************************)
(* What the Http2Conns (http2/http2.go) need from the Processor            *)
(* (http2/processor.go) that feeds them: each is made for one TCP          *)
(* connection, which has no other; those of one pair of addresses are made *)
(* in the order the connections used them; only the newest is given        *)
(* anything, and what it has been given of either direction is at any time *)
(* the beginning of what was sent.                                         *)
(***************************************************************************)
EXTENDS Naturals, Sequences

CONSTANTS Conns,      \* the pairs of addresses
          Incs,       \* the connections that use one of them, in order
          InStream,   \* what a client sends
          OutStream   \* what a server sends

VARIABLES made,    \* the connections that have an Http2Conn, as they got it
          given    \* per Http2Conn and direction, what it has been given

fvars == <<made, given>>

Init == made = <<>> /\ given = <<>>

\* The next connection on c gets its Http2Conn.
Make(c, i) == /\ \A g \in DOMAIN made : made[g].dc = c => made[g].inc < i
              /\ made' = Append(made, [dc |-> c, inc |-> i])
              /\ given' = Append(given, [in |-> <<>>, out |-> <<>>])

Newest(h) == \A g \in DOMAIN made : made[g].dc = made[h].dc => made[g].inc <= made[h].inc

GiveIn(h, n) == /\ Newest(h)
                /\ Len(given[h].in) < n
                /\ given' = [given EXCEPT ![h].in = SubSeq(InStream, 1, n)]
                /\ UNCHANGED made

GiveOut(h, n) == /\ Newest(h)
                 /\ Len(given[h].out) < n
                 /\ given' = [given EXCEPT ![h].out = SubSeq(OutStream, 1, n)]
                 /\ UNCHANGED made

Next == \/ \E c \in Conns, i \in Incs : Make(c, i)
        \/ \E h \in DOMAIN made, n \in DOMAIN InStream : GiveIn(h, n)
        \/ \E h \in DOMAIN made, n \in DOMAIN OutStream : GiveOut(h, n)

Spec == Init /\ [][Next]_fvars
=============================================================================
