---------------------------- MODULE ByteStream ----------------------------
(***************************************************************************)
(* What the two HTTP/2 frame readers of a connection (DealInput and        *)
(* DealOutput of http2/http2.go) need from the reassembly below them: a    *)
(* byte stream.  Bytes become available in stream order, and every read    *)
(* returns the next bytes that were not returned before, none skipped,     *)
(* none twice.  A byte is named by its position in the stream.             *)
(***************************************************************************)
EXTENDS Naturals

VARIABLES avail,    \* number of bytes that have become available
          taken,    \* number of bytes returned so far
          handed    \* the interval of positions the last read returned

svars == <<avail, taken, handed>>

Interval == [pos : Nat, len : Nat]

Init == /\ avail = 0
        /\ taken = 0
        /\ handed = [pos |-> 0, len |-> 0]

\* More of the stream becomes available.
Arrive == /\ avail' \in Nat
          /\ avail' > avail
          /\ UNCHANGED <<taken, handed>>

\* A read returns a non-empty prefix of what is available.
Take == /\ handed' \in Interval
        /\ handed'.pos = taken
        /\ handed'.len > 0
        /\ taken' = taken + handed'.len
        /\ taken' <= avail
        /\ UNCHANGED avail

Next == Arrive \/ Take

Spec == Init /\ [][Next]_svars
=============================================================================
