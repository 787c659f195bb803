---------------------------- MODULE MCTCPBuffer ----------------------------
(***************************************************************************)
(* Instances of TCPBuffer for TLC: a sequence space of 16 that the stream  *)
(* wraps around, a window that rejects the last segments at first, a       *)
(* channel of two payloads.                                                *)
(***************************************************************************)
EXTENDS TCPBufferProofs

Seg(p, l) == [pos |-> p, len |-> l]

\* A stream longer than the sequence space, no boundary of which falls on
\* the sequence number 15.
WrapSegments == {Seg(0, 2), Seg(2, 3), Seg(5, 1), Seg(6, 2), Seg(8, 3),
                 Seg(11, 1), Seg(12, 2), Seg(14, 3), Seg(17, 1)}

TwoSizes == {1, 4}

=============================================================================
