-------------------------- MODULE TCPBufferProofs --------------------------
(***************************************************************************)
(* Proofs about TCPBuffer, for every sequence space, window, channel       *)
(* capacity and set of segments the assumptions admit.                     *)
(***************************************************************************)
EXTENDS TCPBuffer, FoldTheorems

\* No segment boundary falls on the sequence number MaxUint32: there the
\* code's remainder by math.MaxUint32 differs from the wrap-around of uint32,
\* and the segment that starts there is never the one expected.
ASSUME EdgeAssumption == \A s \in Segments : SeqOf(EndOf(s)) # MaxUint32

-----------------------------------------------------------------------------
(* Arithmetic modulo SeqSpace.                                             *)

\* A natural number is a multiple of M plus its remainder.
LEMMA DivMod ==
    ASSUME NEW M \in Nat \ {0}, NEW x \in Nat
    PROVE  \E q \in Nat, r \in 0 .. M - 1 : x = (M * q) + r /\ x % M = r
<1> DEFINE q == x \div M
           r == x % M
<1>1. q \in Nat /\ r \in 0 .. M - 1 /\ x = (M * q) + r
  BY SMT
<1> QED BY <1>1

\* The remainder of M*q + r is r.
LEMMA ModUnique ==
    ASSUME NEW M \in Nat \ {0}, NEW q \in Nat, NEW r \in 0 .. M - 1
    PROVE  ((M * q) + r) % M = r
BY SMT

\* Moving by less than M moves the remainder by as much, give or take M.
LEMMA ModShift ==
    ASSUME NEW M \in Nat \ {0}, NEW x \in Nat, NEW d \in Int,
           -M < d, d < M, x + d >= 0
    PROVE  /\ x % M \in 0 .. M - 1
           /\ (x % M) + d < 0 => (x + d) % M = (x % M) + d + M
           /\ (x % M) + d \in 0 .. M - 1 => (x + d) % M = (x % M) + d
           /\ (x % M) + d >= M => (x + d) % M = (x % M) + d - M
<1>1. PICK q \in Nat, r \in 0 .. M - 1 : x = (M * q) + r /\ x % M = r
  BY DivMod
<1>2. ASSUME r + d \in 0 .. M - 1 PROVE (x + d) % M = r + d
  <2>1. x + d = (M * q) + (r + d)
    BY <1>1
  <2> QED BY <2>1, <1>2, ModUnique
<1>3. ASSUME r + d >= M PROVE (x + d) % M = r + d - M
  <2>1. M * (q + 1) = (M * q) + M
    BY SMT
  <2>2. x + d = (M * (q + 1)) + (r + d - M)
    BY <1>1, <2>1
  <2>3. r + d - M \in 0 .. M - 1 /\ q + 1 \in Nat
    BY <1>3
  <2> QED BY <2>2, <2>3, ModUnique
<1>4. ASSUME r + d < 0 PROVE (x + d) % M = r + d + M
  <2>1. q # 0
    <3>1. q = 0 => M * q = 0
      BY SMT
    <3> QED BY <3>1, <1>1, <1>4
  <2>2. M * q = (M * (q - 1)) + M
    BY SMT
  <2>3. x + d = (M * (q - 1)) + (r + d + M)
    BY <1>1, <2>2
  <2>4. r + d + M \in 0 .. M - 1 /\ q - 1 \in Nat
    BY <1>4, <2>1
  <2> QED BY <2>3, <2>4, ModUnique
<1> QED BY <1>1, <1>2, <1>3, <1>4

\* The sequence numbers of two positions less than SeqSpace apart differ by
\* the distance of the positions, give or take SeqSpace.
LEMMA SeqShift ==
    ASSUME NEW a \in Nat, NEW b \in Nat, a - b < SeqSpace, b - a < SeqSpace
    PROVE  /\ SeqOf(a) \in 0 .. SeqSpace - 1
           /\ SeqOf(b) \in 0 .. SeqSpace - 1
           /\ \/ SeqOf(b) = SeqOf(a) + (b - a)
              \/ SeqOf(b) = SeqOf(a) + (b - a) + SeqSpace
              \/ SeqOf(b) = SeqOf(a) + (b - a) - SeqSpace
<1> DEFINE x == ISN + a
           d == b - a
<1>1. /\ SeqSpace \in Nat \ {0} /\ x \in Nat /\ d \in Int /\ -SeqSpace < d
      /\ d < SeqSpace /\ x + d >= 0
  BY SizesAssumption
<1>2. x + d = ISN + b
  BY SizesAssumption
<1>3. /\ x % SeqSpace \in 0 .. SeqSpace - 1
      /\ (x + d) % SeqSpace \in 0 .. SeqSpace - 1
      /\ \/ (x + d) % SeqSpace = (x % SeqSpace) + d
         \/ (x + d) % SeqSpace = (x % SeqSpace) + d + SeqSpace
         \/ (x + d) % SeqSpace = (x % SeqSpace) + d - SeqSpace
  <2> HIDE DEF x, d
  <2> DEFINE r == x % SeqSpace
  <2>1. /\ r \in 0 .. SeqSpace - 1
        /\ r + d < 0 => (x + d) % SeqSpace = r + d + SeqSpace
        /\ r + d \in 0 .. SeqSpace - 1 => (x + d) % SeqSpace = r + d
        /\ r + d >= SeqSpace => (x + d) % SeqSpace = r + d - SeqSpace
    BY <1>1, ModShift
  <2> HIDE DEF r
  <2>2. /\ (x + d) % SeqSpace \in 0 .. SeqSpace - 1
        /\ \/ (x + d) % SeqSpace = r + d
           \/ (x + d) % SeqSpace = r + d + SeqSpace
           \/ (x + d) % SeqSpace = r + d - SeqSpace
    BY <1>1, <2>1
  <2> QED BY <2>1, <2>2 DEF r
<1> QED BY <1>2, <1>3 DEF SeqOf

\* Positions less than SeqSpace apart have different sequence numbers.
LEMMA SeqDistinct ==
    ASSUME NEW a \in Nat, NEW b \in Nat, a - b < SeqSpace, b - a < SeqSpace,
           SeqOf(a) = SeqOf(b)
    PROVE  a = b
BY SeqShift, SizesAssumption

\* The remainder the code takes is the position's successor's sequence number,
\* away from the edge.
LEMMA NextSeqExact ==
    ASSUME NEW p \in Nat, NEW n \in Nat, n < SeqSpace, SeqOf(p + n) # MaxUint32
    PROVE  NextSeq(SeqOf(p), n) = SeqOf(p + n)
<1> DEFINE a == SeqOf(p)
           b == SeqOf(p + n)
<1>1. /\ a \in 0 .. SeqSpace - 1 /\ b \in 0 .. SeqSpace - 1
      /\ \/ b = a + n
         \/ b = a + n - SeqSpace
  BY SeqShift, SizesAssumption
<1>2. SeqSpace \in Nat /\ SeqSpace > 1 /\ b # SeqSpace - 1
  BY SizesAssumption DEF MaxUint32
<1> HIDE DEF a, b
<1>3. (a + n) % SeqSpace = b
  BY <1>1, <1>2, ModShift
<1>4. b % (SeqSpace - 1) = b
  BY <1>1, <1>2
<1> QED BY <1>3, <1>4 DEF NextSeq, MaxUint32, a, b

\* The right border of the window, wrapped around or not.
LEMMA RightBorder ==
    ASSUME NEW e \in 0 .. SeqSpace - 1
    PROVE  LET right == NextSeq(e, MaxWindowSize)
           IN  \/ e + MaxWindowSize < SeqSpace - 1 /\ right = e + MaxWindowSize
               \/ e + MaxWindowSize = SeqSpace - 1 /\ right = 0
               \/ e + MaxWindowSize >= SeqSpace /\ right = e + MaxWindowSize - SeqSpace
<1>1. SeqSpace \in Nat /\ SeqSpace > 1 /\ MaxWindowSize \in Nat
      /\ MaxWindowSize + 1 < SeqSpace
  BY SizesAssumption
<1>2. e + MaxWindowSize < SeqSpace => (e + MaxWindowSize) % SeqSpace = e + MaxWindowSize
  BY <1>1
<1>3. e + MaxWindowSize >= SeqSpace
         => (e + MaxWindowSize) % SeqSpace = e + MaxWindowSize - SeqSpace
  <2>1. e % SeqSpace = e
    BY <1>1
  <2>2. /\ e \in Nat /\ SeqSpace \in Nat \ {0} /\ MaxWindowSize \in Int
        /\ -SeqSpace < MaxWindowSize /\ MaxWindowSize < SeqSpace
        /\ e + MaxWindowSize >= 0
    BY <1>1
  <2>3. (e % SeqSpace) + MaxWindowSize >= SeqSpace
           => (e + MaxWindowSize) % SeqSpace = (e % SeqSpace) + MaxWindowSize - SeqSpace
    BY <2>2, ModShift
  <2> QED BY <2>1, <2>3
<1>4. \A z \in 0 .. SeqSpace - 2 : z % (SeqSpace - 1) = z
  BY <1>1
<1>5. (SeqSpace - 1) % (SeqSpace - 1) = 0
  BY <1>1
<1> QED BY <1>1, <1>2, <1>3, <1>4, <1>5 DEF NextSeq, MaxUint32

\* The window test of AddTCP, on a segment the network can still deliver,
\* accepts only positions at or after the expected one, and none more than
\* one byte beyond the window; it accepts every position inside the window.
LEMMA WindowTest ==
    ASSUME NEW f \in Nat, NEW p \in Nat, p >= f - Lag, p <= f + Flight
    PROVE  /\ validPackage(SeqOf(f), SeqOf(p)) => p >= f /\ p <= f + MaxWindowSize + 1
           /\ p \in f .. f + MaxWindowSize => validPackage(SeqOf(f), SeqOf(p))
<1> DEFINE e == SeqOf(f)
           y == SeqOf(p)
           right == NextSeq(e, MaxWindowSize)
<1>1. /\ e \in 0 .. SeqSpace - 1 /\ y \in 0 .. SeqSpace - 1
      /\ \/ y = e + (p - f)
         \/ y = e + (p - f) + SeqSpace
         \/ y = e + (p - f) - SeqSpace
  BY SeqShift, SizesAssumption
<1>2. validPackage(e, y) <=> IF right < e THEN y <= right \/ y >= e
                                          ELSE y >= e /\ y <= right
  BY DEF validPackage
<1>3. \/ e + MaxWindowSize < SeqSpace - 1 /\ right = e + MaxWindowSize
      \/ e + MaxWindowSize = SeqSpace - 1 /\ right = 0
      \/ e + MaxWindowSize >= SeqSpace /\ right = e + MaxWindowSize - SeqSpace
  BY <1>1, RightBorder
<1> HIDE DEF e, y, right
<1>4. /\ validPackage(e, y) => p >= f /\ p <= f + MaxWindowSize + 1
      /\ p \in f .. f + MaxWindowSize => validPackage(e, y)
  BY <1>1, <1>2, <1>3, SizesAssumption
<1> QED BY <1>4 DEF e, y
-----------------------------------------------------------------------------
(* The inductive invariant.                                                *)

\* What the reader has, what is in the channel and what AddTCP is sending
\* are consecutive intervals, from the next byte to read to the next byte in
\* order.
LastEnd == IF dataChannel = <<>> THEN EndOf(buffer)
           ELSE EndOf(dataChannel[Len(dataChannel)])

PipeInv == /\ buffer.pos = nread
           /\ \A i \in 1 .. Len(dataChannel) :
                 dataChannel[i].pos = IF i = 1 THEN EndOf(buffer)
                                               ELSE EndOf(dataChannel[i - 1])
           /\ EndOf(buffer) <= front
           /\ \A i \in 1 .. Len(dataChannel) : EndOf(dataChannel[i]) <= front
           /\ IF pushing = NoSegment
              THEN front = LastEnd
              ELSE pushing.pos = LastEnd /\ front = EndOf(pushing)

\* List holds, before the expected byte, exactly the segments the running
\* AddTCP has put in order; all lie within a stretch that sequence numbers
\* tell apart.
ListInv == /\ expectedSeq = SeqOf(front)
           /\ \A s \in List : s.pos < front <=> s \in needRemoveList \cup {pushing}
           /\ pushing # NoSegment => pushing \in List
           /\ pushing = NoSegment => needRemoveList = {}
           /\ \A s \in List : s.pos <= front + MaxWindowSize + 1
           /\ \A s, t \in List : s.pos - t.pos <= MaxWindowSize + 1

IndInv == TypeOK /\ PipeInv /\ ListInv /\ ReadableAgrees /\ NoSegmentLost

-----------------------------------------------------------------------------
\* What the assumptions say of one segment, in the form the steps need.
LEMMA SegmentFacts ==
    ASSUME NEW s \in Segments
    PROVE  /\ s \in Segment /\ s.pos \in Nat /\ s.len \in Nat
           /\ s.len > 0 /\ s.len <= MaxLen /\ s.len < SeqSpace
           /\ EndOf(s) = s.pos + s.len /\ EndOf(s) \in Nat
           /\ s # NoSegment
           /\ \A t \in Segments : t.pos < EndOf(s) /\ s.pos < EndOf(t) => t = s
           /\ NextSeq(SeqOf(s.pos), s.len) = SeqOf(EndOf(s))
<1>1. s \in Segment /\ s.len > 0 /\ s.len <= MaxLen
  BY SegmentsAssumption
<1>2. s.pos \in Nat /\ s.len \in Nat /\ s.len < SeqSpace
  BY <1>1, SizesAssumption DEF Segment
<1>3. s # NoSegment
  BY <1>1 DEF NoSegment
<1>4. NextSeq(SeqOf(s.pos), s.len) = SeqOf(EndOf(s))
  BY <1>2, NextSeqExact, EdgeAssumption DEF EndOf
<1>5. \A t \in Segments : t.pos < EndOf(s) /\ s.pos < EndOf(t) => t = s
  BY SegmentsAssumption DEF Overlap
<1> QED BY <1>1, <1>2, <1>3, <1>4, <1>5 DEF EndOf

\* Sequence numbers are numbers of the sequence space.
LEMMA SeqOfType == \A p \in Nat : SeqOf(p) \in 0 .. SeqSpace - 1
BY SeqShift, SizesAssumption

\* Between two calls of AddTCP, and between two iterations of its loop, the
\* segment List.Get finds under the expected sequence number is the one that
\* continues the stream.
LEMMA GetExpected ==
    ASSUME TypeOK, PipeInv, ListInv, NEW s \in List, SeqOf(s.pos) = SeqOf(front)
    PROVE  s.pos = front
<1>1. s \in Segments /\ front \in Nat
  BY DEF TypeOK
<1>2. s.pos \in Nat /\ s.len \in Nat
  BY <1>1, SegmentFacts
<1>3. CASE s.pos >= front
  <2>1. s.pos <= front + MaxWindowSize + 1
    BY DEF ListInv
  <2> QED BY <2>1, <1>1, <1>2, <1>3, SeqDistinct, SizesAssumption
<1>4. CASE s.pos < front
  <2>1. s \in needRemoveList \cup {pushing}
    BY <1>4 DEF ListInv
  <2>2. pushing # NoSegment /\ pushing \in List
    BY <2>1, <1>1, SegmentFacts DEF ListInv
  <2>3. pushing \in Segments /\ pushing.pos \in Nat /\ pushing.len \in Nat
        /\ pushing.len <= MaxLen
    BY <2>2, SegmentFacts DEF TypeOK
  <2>4. front = pushing.pos + pushing.len
    BY <2>2 DEF PipeInv, EndOf
  <2>5. pushing.pos - s.pos <= MaxWindowSize + 1
    BY <2>2 DEF ListInv
  <2>6. front - s.pos < SeqSpace /\ s.pos - front < SeqSpace
    BY <2>3, <2>4, <2>5, <1>2, <1>4, SizesAssumption
  <2> QED BY <2>6, <1>1, <1>2, SeqDistinct
<1> QED BY <1>1, <1>2, <1>3, <1>4

\* The ends of the intervals in the pipe are numbers.
LEMMA PipeEnds ==
    ASSUME TypeOK
    PROVE  /\ EndOf(buffer) \in Nat
           /\ \A i \in 1 .. Len(dataChannel) : EndOf(dataChannel[i]) \in Nat
<1>1. EndOf(buffer) \in Nat
  BY DEF TypeOK, Segment, EndOf
<1>2. \A i \in 1 .. Len(dataChannel) : dataChannel[i] \in Segments
  BY DEF TypeOK
<1> QED BY <1>1, <1>2, SegmentFacts

\* The invariant holds of a new TCPBuffer.
LEMMA InitInv == Init => IndInv
<1> SUFFICES ASSUME Init PROVE IndInv
  OBVIOUS
<1>1. SeqOf(0) \in 0 .. SeqSpace - 1
  BY SeqOfType
<1>2. TypeOK
  BY <1>1, SizesAssumption DEF Init, TypeOK, Segment, NoSegment
<1>3. PipeInv
  BY DEF Init, PipeInv, LastEnd, EndOf, NoSegment
<1>4. ListInv /\ NoSegmentLost
  BY DEF Init, ListInv, NoSegmentLost
<1>5. ReadableAgrees
  BY DEF Init, ReadableAgrees
<1> QED BY <1>2, <1>3, <1>4, <1>5 DEF IndInv

\* AddTCP with a segment it does not store.
LEMMA DiscardInv ==
    ASSUME IndInv, NEW s \in Segments, Discard(s)
    PROVE  IndInv'
<1> USE DEF IndInv
<1>1. TypeOK'
  BY DEF Discard, NoteCapture, TypeOK, readVars
<1>2. PipeInv'
  BY DEF Discard, PipeInv, LastEnd, readVars
<1>3. ListInv'
  BY DEF Discard, ListInv, readVars
<1>4. s.pos \in front .. front + MaxWindowSize => s \in List
  <2> SUFFICES ASSUME s.pos \in front .. front + MaxWindowSize PROVE s \in List
    OBVIOUS
  <2>1. front \in Nat /\ s.pos \in Nat
    BY SegmentFacts DEF TypeOK
  <2>2. validPackage(expectedSeq, SeqOf(s.pos))
    <3>1. s.pos >= front - Lag /\ s.pos <= front + Flight
      BY DEF Discard, Captured
    <3> QED BY <3>1, <2>1, WindowTest DEF ListInv
  <2>3. PICK t \in List : SeqOf(t.pos) = SeqOf(s.pos)
    BY <2>2 DEF Discard, Accepts, Get
  <2>4. t \in Segments /\ t.pos \in Nat /\ t.pos >= front
        /\ t.pos <= front + MaxWindowSize + 1
    <3>1. t \in Segments /\ t.pos \in Nat /\ t # NoSegment
      BY SegmentFacts DEF TypeOK
    <3>2. ~ (t.pos < front)
      BY <3>1 DEF ListInv, Discard
    <3> QED BY <3>1, <3>2, <2>1 DEF ListInv
  <2>5. t.pos = s.pos
    BY <2>1, <2>3, <2>4, SeqDistinct, SizesAssumption
  <2>6. t = s
    BY <2>4, <2>5, SegmentFacts
  <2> QED BY <2>6
<1>5. NoSegmentLost'
  BY <1>4 DEF Discard, NoSegmentLost, NoteCapture
<1>6. ReadableAgrees'
  BY DEF Discard, ReadableAgrees, readVars
<1> QED BY <1>1, <1>2, <1>3, <1>5, <1>6

\* AddTCP with a segment it stores.
LEMMA AddTCPInv ==
    ASSUME IndInv, NEW s \in Segments, AddTCP(s)
    PROVE  IndInv'
<1> USE DEF IndInv
<1>1. /\ s.pos \in Nat /\ s.len \in Nat /\ s.len > 0 /\ s # NoSegment
      /\ EndOf(s) = s.pos + s.len
      /\ front \in Nat
  BY SegmentFacts DEF TypeOK
<1>2. pushing = NoSegment /\ needRemoveList = {} /\ List' = List \cup {s}
  BY DEF AddTCP, ListInv
<1>3. s.pos >= front /\ s.pos <= front + MaxWindowSize + 1
  <2>1. s.pos >= front - Lag /\ s.pos <= front + Flight
        /\ validPackage(SeqOf(front), SeqOf(s.pos))
    BY DEF AddTCP, Captured, Accepts, ListInv
  <2> QED BY <2>1, <1>1, WindowTest
<1>4. \A t \in List : /\ t \in Segments /\ t.pos \in Nat
                      /\ t.pos > front /\ t.pos <= front + MaxWindowSize + 1
  BY <1>2, SegmentFacts DEF TypeOK, NoSegmentLost, ListInv
<1>5. CASE expectedSeq = SeqOf(s.pos) /\ Advance(s)
  <2>1. s.pos = front
    <3>1. SeqOf(s.pos) = SeqOf(front)
      BY <1>5 DEF ListInv
    <3>2. s.pos - front < SeqSpace /\ front - s.pos < SeqSpace
      BY <1>1, <1>3, SizesAssumption
    <3> QED BY <3>1, <3>2, <1>1, SeqDistinct
  <2>2. /\ pushing' = s /\ front' = EndOf(s)
        /\ expectedSeq' = SeqOf(EndOf(s))
        /\ actualCanReadSize' = actualCanReadSize + s.len
    BY <1>5, SegmentFacts DEF Advance
  <2>3. TypeOK'
    <3>1. /\ EndOf(s) \in Nat /\ SeqOf(EndOf(s)) \in 0 .. SeqSpace - 1
          /\ actualCanReadSize + s.len \in Int /\ size + s.len \in Int
      <4>1. EndOf(s) \in Nat
        BY <1>1
      <4>2. SeqOf(EndOf(s)) \in 0 .. SeqSpace - 1
        BY <4>1, SeqOfType
      <4>3. actualCanReadSize + s.len \in Int /\ size + s.len \in Int
        BY <1>1 DEF TypeOK
      <4> QED BY <4>1, <4>2, <4>3
    <3>2. List \cup {s} \subseteq Segments /\ needRemoveList' \subseteq List \cup {s}
          /\ inWindow' \subseteq Segments
      BY DEF AddTCP, TypeOK, NoteCapture
    <3> QED BY <3>1, <3>2, <1>2, <2>2 DEF AddTCP, TypeOK, readVars
  <2>4. PipeInv'
    <3>1. front <= front' /\ front' \in Nat
      BY <1>1, <2>1, <2>2
    <3>2. UNCHANGED <<buffer, nread, dataChannel>>
      BY DEF AddTCP, readVars
    <3>3. /\ EndOf(buffer) <= front'
          /\ \A i \in 1 .. Len(dataChannel) : EndOf(dataChannel[i]) <= front'
      BY <3>1, <1>1, PipeEnds DEF PipeInv
    <3>4. pushing'.pos = LastEnd'
      BY <1>2, <2>1, <2>2, <3>2 DEF PipeInv, LastEnd
    <3> QED BY <3>2, <3>3, <3>4, <1>1, <2>2 DEF PipeInv
  <2>5. \A t \in List : t.pos >= EndOf(s)
    BY <1>1, <1>4, <2>1, SegmentFacts DEF EndOf
  <2>6. ListInv'
    <3>1. expectedSeq' = SeqOf(front')
      BY <2>2
    <3>2. \A t \in List' : t.pos < front' <=> t \in (needRemoveList \cup {pushing})'
      BY <1>1, <1>2, <1>4, <2>2, <2>5 DEF AddTCP
    <3>3. \A t \in List' : t.pos <= front' + MaxWindowSize + 1
      BY <1>1, <1>2, <1>4, <2>1, <2>2, SizesAssumption
    <3>4. \A t, u \in List' : t.pos - u.pos <= MaxWindowSize + 1
      BY <1>1, <1>2, <1>3, <1>4, SizesAssumption
    <3> QED BY <3>1, <3>2, <3>3, <3>4, <1>1, <1>2, <2>2 DEF ListInv
  <2>7. NoSegmentLost'
    <3>1. \A t \in inWindow \cup {s} : t.pos < front' \/ t \in List'
      <4> SUFFICES ASSUME NEW t \in inWindow, t \notin List
                   PROVE  t.pos < EndOf(s)
        BY <1>2, <2>2
      <4>1. t.pos \in Nat /\ t.pos < front
        BY SegmentFacts DEF TypeOK, NoSegmentLost
      <4> QED BY <4>1, <1>1, <2>1
    <3> QED BY <3>1, <1>1, <2>2 DEF AddTCP, NoSegmentLost, NoteCapture
  <2>8. ReadableAgrees'
    BY <1>1, <2>1, <2>2 DEF AddTCP, TypeOK, ReadableAgrees, readVars
  <2> QED BY <2>3, <2>4, <2>6, <2>7, <2>8
<1>6. CASE /\ expectedSeq # SeqOf(s.pos)
           /\ UNCHANGED <<pushing, actualCanReadSize, expectedSeq, front>>
  <2>1. s.pos # front
    BY <1>6 DEF ListInv
  <2>2. TypeOK'
    BY <1>1, <1>2, <1>6 DEF AddTCP, TypeOK, NoteCapture, readVars
  <2>3. PipeInv'
    BY <1>6 DEF AddTCP, PipeInv, LastEnd, readVars
  <2>4. ListInv'
    <3>1. \A t \in List' : t.pos < front' <=> t \in (needRemoveList \cup {pushing})'
      BY <1>1, <1>2, <1>3, <1>4, <1>6, SegmentFacts DEF AddTCP
    <3>2. \A t \in List' : t.pos <= front' + MaxWindowSize + 1
      BY <1>2, <1>3, <1>4, <1>6
    <3>3. \A t, u \in List' : t.pos - u.pos <= MaxWindowSize + 1
      BY <1>1, <1>2, <1>3, <1>4, SizesAssumption
    <3> QED BY <3>1, <3>2, <3>3, <1>2, <1>6 DEF ListInv, AddTCP
  <2>5. NoSegmentLost'
    BY <1>1, <1>2, <1>3, <1>6, <2>1 DEF AddTCP, NoSegmentLost, NoteCapture
  <2>6. ReadableAgrees'
    BY <1>6 DEF AddTCP, ReadableAgrees, readVars
  <2> QED BY <2>2, <2>3, <2>4, <2>5, <2>6
<1> QED BY <1>5, <1>6 DEF AddTCP

\* The channel send of AddTCP's loop.
LEMMA PushInv ==
    ASSUME IndInv, Push
    PROVE  IndInv'
<1> USE DEF IndInv, Sent
<1>1. /\ pushing \in Segments /\ pushing \in List /\ pushing.pos \in Nat
      /\ pushing.len \in Nat /\ front = EndOf(pushing) /\ front \in Nat
      /\ pushing.pos = LastEnd
  BY SegmentFacts DEF Push, TypeOK, PipeInv, ListInv
<1>2. /\ dataChannel' = Append(dataChannel, pushing)
      /\ dataChannel \in Seq(Segments)
      /\ Len(dataChannel) < ChanCap
      /\ buffer' = buffer /\ nread' = nread /\ handed' = handed
      /\ size' = size /\ inWindow' = inWindow
  BY DEF Push, TypeOK, readVars
<1>3. /\ dataChannel' \in Seq(Segments) /\ Len(dataChannel') = Len(dataChannel) + 1
      /\ Len(dataChannel') <= ChanCap
      /\ LastEnd' = front
  BY <1>1, <1>2, SizesAssumption DEF LastEnd
<1>4. \A i \in 1 .. Len(dataChannel') :
         dataChannel'[i].pos = IF i = 1 THEN EndOf(buffer')
                                        ELSE EndOf(dataChannel'[i - 1])
  <2> SUFFICES ASSUME NEW i \in 1 .. Len(dataChannel) + 1
               PROVE  dataChannel'[i].pos = IF i = 1 THEN EndOf(buffer')
                                                     ELSE EndOf(dataChannel'[i - 1])
    BY <1>3
  <2>1. CASE i = Len(dataChannel) + 1
    BY <2>1, <1>1, <1>2 DEF LastEnd
  <2>2. CASE i \in 1 .. Len(dataChannel)
    BY <2>2, <1>2 DEF PipeInv
  <2> QED BY <2>1, <2>2, <1>2
<1>5. /\ EndOf(buffer') <= front
      /\ \A i \in 1 .. Len(dataChannel') : EndOf(dataChannel'[i]) <= front
      /\ EndOf(buffer') \in Nat
      /\ \A i \in 1 .. Len(dataChannel') : EndOf(dataChannel'[i]) \in Nat
  <2>1. EndOf(buffer') <= front /\ EndOf(buffer') \in Nat
    BY <1>2, PipeEnds DEF PipeInv
  <2>2. ASSUME NEW i \in 1 .. Len(dataChannel') PROVE EndOf(dataChannel'[i]) <= front
                                                    /\ EndOf(dataChannel'[i]) \in Nat
    <3>1. CASE i = Len(dataChannel) + 1
      BY <3>1, <1>1, <1>2
    <3>2. CASE i \in 1 .. Len(dataChannel)
      <4>1. dataChannel'[i] = dataChannel[i]
        BY <3>2, <1>2
      <4> QED BY <4>1, <3>2, PipeEnds DEF PipeInv
    <3> QED BY <3>1, <3>2, <1>2, <1>3
  <2> QED BY <2>1, <2>2
<1>6. ASSUME NEW s \in Follower, Advance(s),
             needRemoveList' = Sent, List' = List
      PROVE  IndInv'
  <2>1. /\ s \in List /\ s \in Segments /\ s.pos \in Nat /\ s.len \in Nat
        /\ s.len > 0 /\ s # NoSegment /\ EndOf(s) = s.pos + s.len
    BY <1>6, SegmentFacts DEF Follower, Get, TypeOK
  <2>2. s.pos = front
    BY <1>6, <2>1, GetExpected DEF Follower, Get, ListInv
  <2>3. /\ pushing' = s /\ front' = EndOf(s)
        /\ expectedSeq' = SeqOf(EndOf(s))
        /\ actualCanReadSize' = actualCanReadSize + s.len
    BY <1>6, <2>1, SegmentFacts DEF Advance
  <2>4. TypeOK'
    <3>1. EndOf(s) \in Nat /\ SeqOf(EndOf(s)) \in 0 .. SeqSpace - 1
          /\ actualCanReadSize + s.len \in Int
      <4>1. EndOf(s) \in Nat
        BY <2>1
      <4>2. SeqOf(EndOf(s)) \in 0 .. SeqSpace - 1
        BY <4>1, SeqOfType
      <4>3. actualCanReadSize + s.len \in Int
        BY <2>1 DEF TypeOK
      <4> QED BY <4>1, <4>2, <4>3
    <3>2. needRemoveList' \subseteq List'
      BY <1>1, <1>6 DEF TypeOK
    <3> QED BY <3>1, <3>2, <1>2, <1>3, <1>6, <2>1, <2>3 DEF TypeOK
  <2>5. PipeInv'
    <3>1. front <= front' /\ front' \in Nat
      BY <1>1, <2>1, <2>2, <2>3
    <3>2. /\ EndOf(buffer') <= front'
          /\ \A i \in 1 .. Len(dataChannel') : EndOf(dataChannel'[i]) <= front'
      BY <3>1, <1>1, <1>5
    <3>3. buffer'.pos = nread'
      BY <1>2 DEF PipeInv
    <3> QED BY <3>2, <3>3, <1>3, <1>4, <2>1, <2>2, <2>3 DEF PipeInv
  <2>6. ListInv'
    <3>1. \A t \in List' : t.pos < front' <=> t \in (needRemoveList \cup {pushing})'
      <4> SUFFICES ASSUME NEW t \in List
                   PROVE  t.pos < EndOf(s) <=> t \in needRemoveList \cup {pushing, s}
        BY <1>6, <2>3
      <4>1. t \in Segments /\ t.pos \in Nat /\ t.len \in Nat /\ t.len > 0
            /\ EndOf(t) = t.pos + t.len
        BY SegmentFacts DEF TypeOK
      <4>2. t.pos < front <=> t \in needRemoveList \cup {pushing}
        BY DEF ListInv
      <4>3. t.pos >= front /\ t.pos < EndOf(s) => t = s
        BY <4>1, <2>1, <2>2, SegmentFacts
      <4> QED BY <4>1, <4>2, <4>3, <2>1, <2>2, <1>1
    <3>2. \A t \in List' : t.pos <= front' + MaxWindowSize + 1
      <4> SUFFICES ASSUME NEW t \in List
                   PROVE  t.pos <= EndOf(s) + MaxWindowSize + 1
        BY <1>6, <2>3
      <4>1. t.pos \in Nat /\ t.pos <= front + MaxWindowSize + 1
        BY SegmentFacts DEF TypeOK, ListInv
      <4> QED BY <4>1, <1>1, <2>1, <2>2, SizesAssumption
    <3> QED BY <3>1, <3>2, <1>6, <2>1, <2>3 DEF ListInv
  <2>7. NoSegmentLost'
    <3>1. ASSUME NEW t \in inWindow, t \notin List PROVE t.pos < front'
      <4>1. t.pos \in Nat /\ t.pos < front
        BY <3>1, SegmentFacts DEF NoSegmentLost, TypeOK
      <4> QED BY <4>1, <1>1, <2>1, <2>2, <2>3
    <3> QED BY <3>1, <1>2, <1>6, <2>1, <2>3 DEF NoSegmentLost
  <2>8. ReadableAgrees'
    <3>1. /\ actualCanReadSize = front - nread /\ nread \in Nat /\ nread' = nread
          /\ front' = front + s.len
      BY <1>2, <2>1, <2>2, <2>3 DEF TypeOK, ReadableAgrees
    <3>2. actualCanReadSize' = actualCanReadSize + s.len
      BY <2>3
    <3> QED BY <1>1, <2>1, <3>1, <3>2 DEF ReadableAgrees
  <2> QED BY <2>4, <2>5, <2>6, <2>7, <2>8
<1>7. ASSUME Follower = {}, pushing' = NoSegment,
             List' = List \ Sent, needRemoveList' = {},
             UNCHANGED <<expectedSeq, actualCanReadSize, front>>
      PROVE  IndInv'
  <2>1. TypeOK'
    BY <1>2, <1>3, <1>7 DEF TypeOK
  <2>2. PipeInv'
    <3>1. buffer'.pos = nread'
      BY <1>2 DEF PipeInv
    <3> QED BY <3>1, <1>3, <1>4, <1>7, <1>5 DEF PipeInv
  <2>3. \A t \in List' : t \in List /\ t \in Segments /\ t.pos \in Nat /\ t.pos > front
                         /\ t # NoSegment
    <3> SUFFICES ASSUME NEW t \in List, t \notin needRemoveList \cup {pushing}
                 PROVE  t \in Segments /\ t.pos \in Nat /\ t.pos > front /\ t # NoSegment
      BY <1>7
    <3>1. t \in Segments /\ t.pos \in Nat /\ t # NoSegment
      BY SegmentFacts DEF TypeOK
    <3>2. t.pos >= front
      BY <3>1, <1>1 DEF ListInv
    <3>3. t.pos # front
      BY <1>7 DEF Follower, Get, ListInv
    <3> QED BY <3>1, <3>2, <3>3, <1>1
  <2>4. ListInv'
    <3>1. \A t \in List' : t.pos < front' <=> t \in (needRemoveList \cup {pushing})'
      BY <1>1, <1>7, <2>3
    <3> QED BY <3>1, <2>3, <1>7 DEF ListInv
  <2>5. NoSegmentLost'
    <3>1. \A t \in inWindow : t.pos < front \/ t \in List'
      BY <1>7 DEF NoSegmentLost, ListInv
    <3> QED BY <3>1, <2>3, <1>2, <1>7 DEF NoSegmentLost
  <2>6. ReadableAgrees'
    BY <1>2, <1>7 DEF ReadableAgrees
  <2> QED BY <2>1, <2>2, <2>4, <2>5, <2>6
<1> QED BY <1>6, <1>7 DEF Push

\* A payload Read takes bytes from starts at the next byte to read, and what
\* is left of it starts at the next byte then.
LEMMA TakeFacts ==
    ASSUME IndInv, NEW n \in ReadSizes, NEW buf \in Segment, buf.len > 0,
           buf.pos = nread, TakeFrom(buf, n)
    PROVE  /\ handed' \in Segment /\ handed'.pos = nread /\ handed'.len > 0
           /\ nread' = nread + handed'.len /\ nread' \in Nat
           /\ buffer' \in Segment /\ buffer'.pos = nread'
           /\ EndOf(buffer') = EndOf(buf) /\ nread' <= EndOf(buf)
           /\ size' \in Int /\ actualCanReadSize' \in Int
           /\ actualCanReadSize' = actualCanReadSize - handed'.len
<1> DEFINE m == IF n < buf.len THEN n ELSE buf.len
<1>1. n \in Nat /\ n > 0 /\ buf.pos \in Nat /\ buf.len \in Nat
      /\ size \in Int /\ actualCanReadSize \in Int
  BY SizesAssumption DEF Segment, IndInv, TypeOK
<1>2. m \in Nat /\ m > 0 /\ m <= buf.len
  BY <1>1
<1>3. /\ handed' = [pos |-> buf.pos, len |-> m]
      /\ buffer' = [pos |-> buf.pos + m, len |-> buf.len - m]
      /\ nread' = nread + m
      /\ size' = size - m
      /\ actualCanReadSize' = actualCanReadSize - m
  BY DEF TakeFrom, updateCounters
<1> HIDE DEF m
<1>4. handed' \in Segment /\ buffer' \in Segment
  BY <1>1, <1>2, <1>3 DEF Segment
<1> QED BY <1>1, <1>2, <1>3, <1>4 DEF EndOf

\* The first payload in the channel starts at the next byte to read once the
\* reader's buffer is used up.
LEMMA HeadFacts ==
    ASSUME IndInv, buffer.len = 0, dataChannel # <<>>
    PROVE  /\ Head(dataChannel) \in Segments
           /\ Head(dataChannel) \in Segment
           /\ Head(dataChannel).len > 0
           /\ Head(dataChannel).pos = nread
<1>1. dataChannel \in Seq(Segments) /\ Len(dataChannel) >= 1
      /\ Head(dataChannel) = dataChannel[1]
  BY DEF IndInv, TypeOK
<1>2. dataChannel[1] \in Segments
  BY <1>1
<1>3. dataChannel[1].pos = EndOf(buffer)
  BY <1>1 DEF IndInv, PipeInv
<1>4. EndOf(buffer) = nread
  BY DEF IndInv, TypeOK, PipeInv, EndOf, Segment
<1> QED BY <1>1, <1>2, <1>3, <1>4, SegmentFacts

\* Read from the rest of the last payload.
LEMMA ReadBufferInv ==
    ASSUME IndInv, NEW n \in ReadSizes, ReadBuffer(n)
    PROVE  IndInv'
<1>1. /\ buffer \in Segment /\ buffer.len > 0 /\ buffer.pos = nread
      /\ TakeFrom(buffer, n)
      /\ UNCHANGED <<procVars, dataChannel>>
  BY DEF IndInv, TypeOK, PipeInv, ReadBuffer
<1>2. /\ handed' \in Segment /\ nread' \in Nat /\ buffer' \in Segment
      /\ buffer'.pos = nread' /\ EndOf(buffer') = EndOf(buffer)
      /\ size' \in Int /\ actualCanReadSize' \in Int
  BY <1>1, TakeFacts
<1>3. TypeOK'
  BY <1>1, <1>2 DEF IndInv, TypeOK, procVars
<1>4. PipeInv'
  BY <1>1, <1>2 DEF IndInv, PipeInv, LastEnd, procVars
<1>5. ListInv' /\ NoSegmentLost'
  BY <1>1 DEF IndInv, ListInv, NoSegmentLost, procVars
<1>6. ReadableAgrees'
  <2>1. /\ handed' \in Segment /\ nread' = nread + handed'.len
        /\ actualCanReadSize' = actualCanReadSize - handed'.len
    BY <1>1, TakeFacts
  <2>2. front \in Nat /\ nread \in Nat /\ handed'.len \in Nat /\ front' = front
    BY <1>1, <2>1 DEF IndInv, TypeOK, Segment, procVars
  <2> QED BY <2>1, <2>2 DEF IndInv, ReadableAgrees
<1> QED BY <1>3, <1>4, <1>5, <1>6 DEF IndInv

\* Read of the next payload in the channel.
LEMMA ReadChannelInv ==
    ASSUME IndInv, NEW n \in ReadSizes, ReadChannel(n)
    PROVE  IndInv'
<1> DEFINE h == Head(dataChannel)
<1>1. /\ buffer.len = 0 /\ dataChannel # <<>>
      /\ TakeFrom(h, n)
      /\ dataChannel' = Tail(dataChannel)
      /\ UNCHANGED procVars
  BY DEF ReadChannel
<1>2. h \in Segments /\ h \in Segment /\ h.len > 0 /\ h.pos = nread
  BY <1>1, HeadFacts
<1>3. /\ handed' \in Segment /\ nread' \in Nat /\ buffer' \in Segment
      /\ buffer'.pos = nread' /\ EndOf(buffer') = EndOf(h)
      /\ size' \in Int /\ actualCanReadSize' \in Int
      /\ nread' = nread + handed'.len
      /\ actualCanReadSize' = actualCanReadSize - handed'.len
  BY <1>1, <1>2, TakeFacts
<1>4. /\ dataChannel \in Seq(Segments) /\ Len(dataChannel) >= 1
      /\ dataChannel' \in Seq(Segments) /\ Len(dataChannel') = Len(dataChannel) - 1
      /\ \A i \in 1 .. Len(dataChannel') : dataChannel'[i] = dataChannel[i + 1]
      /\ h = dataChannel[1]
  BY <1>1 DEF IndInv, TypeOK
<1>5. TypeOK'
  BY <1>1, <1>3, <1>4, SizesAssumption DEF IndInv, TypeOK, procVars
<1>6. PipeInv'
  <2>1. \A i \in 1 .. Len(dataChannel') :
           dataChannel'[i].pos = IF i = 1 THEN EndOf(buffer')
                                          ELSE EndOf(dataChannel'[i - 1])
    <3> SUFFICES ASSUME NEW i \in 1 .. Len(dataChannel')
                 PROVE  dataChannel'[i].pos = IF i = 1 THEN EndOf(buffer')
                                                       ELSE EndOf(dataChannel'[i - 1])
      OBVIOUS
    <3>1. dataChannel[i + 1].pos = EndOf(dataChannel[i])
      BY <1>4 DEF IndInv, PipeInv
    <3>2. i # 1 => dataChannel'[i - 1] = dataChannel[i]
      BY <1>4
    <3> QED BY <3>1, <3>2, <1>3, <1>4
  <2>2. LastEnd' = LastEnd
    <3>1. CASE Len(dataChannel) = 1
      BY <3>1, <1>1, <1>3, <1>4 DEF LastEnd
    <3>2. CASE Len(dataChannel) > 1
      BY <3>2, <1>1, <1>4 DEF LastEnd
    <3> QED BY <3>1, <3>2, <1>4
  <2> QED BY <2>1, <2>2, <1>1, <1>3 DEF IndInv, PipeInv, procVars
<1>7. ListInv' /\ NoSegmentLost'
  BY <1>1 DEF IndInv, ListInv, NoSegmentLost, procVars
<1>8. ReadableAgrees'
  <2>1. front \in Nat /\ nread \in Nat /\ handed'.len \in Nat /\ front' = front
    BY <1>1, <1>3 DEF IndInv, TypeOK, Segment, procVars
  <2> QED BY <2>1, <1>3 DEF IndInv, ReadableAgrees
<1> QED BY <1>5, <1>6, <1>7, <1>8 DEF IndInv

\* Every step of the reassembly keeps the invariant.
LEMMA NextInv == IndInv /\ [Next]_vars => IndInv'
<1> SUFFICES ASSUME IndInv, [Next]_vars PROVE IndInv'
  OBVIOUS
<1>1. ASSUME NEW s \in Segments, Discard(s) PROVE IndInv'
  BY <1>1, DiscardInv
<1>2. ASSUME NEW s \in Segments, AddTCP(s) PROVE IndInv'
  BY <1>2, AddTCPInv
<1>3. CASE Push
  BY <1>3, PushInv
<1>4. CASE Read
  BY <1>4, ReadBufferInv, ReadChannelInv DEF Read
<1>5. CASE UNCHANGED vars
  BY <1>5 DEF vars, procVars, readVars, IndInv, TypeOK, PipeInv, LastEnd, ListInv,
              ReadableAgrees, NoSegmentLost
<1> QED BY <1>1, <1>2, <1>3, <1>4, <1>5 DEF Next

\* The invariant always holds.
THEOREM Invariance == Spec => []IndInv
<1>1. Init => IndInv
  BY InitInv
<1>2. IndInv /\ [Next]_vars => IndInv'
  BY NextInv
<1> QED BY <1>1, <1>2, PTL DEF Spec

\* The variables keep their types; in particular expectedSeq stays within 32
\* bits and AddTCP only removes segments List holds.
THEOREM TypeCorrect == Spec => []TypeOK
<1>1. IndInv => TypeOK
  BY DEF IndInv
<1> QED BY <1>1, Invariance, PTL

\* No segment captured inside the window is lost, whatever the order and the
\* number of times segments are captured.
THEOREM NothingLost == Spec => []NoSegmentLost
<1>1. IndInv => NoSegmentLost
  BY DEF IndInv
<1> QED BY <1>1, Invariance, PTL

\* actualCanReadSize is the number of bytes in order and not yet read.
THEOREM ReadableExact == Spec => []ReadableAgrees
<1>1. IndInv => ReadableAgrees
  BY DEF IndInv
<1> QED BY <1>1, Invariance, PTL
-----------------------------------------------------------------------------
(* The bytes of a set of segments.  BytesOf is a fold, which is a recursive *)
(* function over the subsets of the set; what it adds up does not depend   *)
(* on the order in which it takes them.                                    *)

\* The segment the fold takes next.
Some(T) == CHOOSE s \in T : TRUE

\* The function behind BytesOf(S).
Sums(f, S) == f = [T \in SUBSET S |-> IF T = {} THEN 0
                                      ELSE Some(T).len + f[T \ {Some(T)}]]

\* BytesOf as the recursive function it is defined by.
LEMMA BytesOfDef == ASSUME NEW S PROVE BytesOf(S) = (CHOOSE f : Sums(f, S))[S]
  BY DEF BytesOf, MapThenSumSet, MapThenFoldSet, Some, Sums

\* It is one of them.
LEMMA SomeIn == ASSUME NEW T, T # {} PROVE Some(T) \in T
  BY DEF Some

\* Over a finite set of segments the function exists.
LEMMA SumsExist ==
    ASSUME NEW S \in SUBSET Segments, IsFiniteSet(S)
    PROVE  \E f : Sums(f, S)
<1> DEFINE pick == [T \in SUBSET S |-> Some(T)]
           step == [s \in S |-> [n \in Nat |-> s.len + n]]
<1>1. \A T \in SUBSET S : T # {} => pick[T] \in T
  BY SomeIn
<1>2. \A s \in S, n \in Nat : step[s][n] = s.len + n /\ step[s][n] \in Nat
  BY SegmentFacts
<1>3. PICK f \in [SUBSET S -> Nat] : \A T \in SUBSET S : Folded(f, T, 0, pick, step)
  <2> HIDE DEF pick, step
  <2> QED BY <1>1, <1>2, FoldExists
<1>4. ASSUME NEW T \in SUBSET S
      PROVE  f[T] = IF T = {} THEN 0 ELSE Some(T).len + f[T \ {Some(T)}]
  <2>1. T # {} => Some(T) \in S /\ f[T \ {Some(T)}] \in Nat
    BY SomeIn
  <2>2. pick[T] = Some(T)
    OBVIOUS
  <2> HIDE DEF pick, step
  <2> QED BY <1>2, <1>3, <2>1, <2>2 DEF Folded
<1> QED BY <1>4 DEF Sums

\* For a set in two others it is the same.
LEMMA SumsAgree ==
    ASSUME NEW S, NEW U, NEW f, NEW g, Sums(f, S), Sums(g, U),
           NEW T \in SUBSET S, T \in SUBSET U, IsFiniteSet(T)
    PROVE  f[T] = g[T]
<1> DEFINE P == {n \in Nat : \A V \in SUBSET T : Cardinality(V) = n => f[V] = g[V]}
<1>1. \A V \in SUBSET T : IsFiniteSet(V) /\ Cardinality(V) \in Nat
  BY FS_Subset, FS_CardinalityType
<1>2. \A V \in SUBSET T : /\ f[V] = IF V = {} THEN 0 ELSE Some(V).len + f[V \ {Some(V)}]
                          /\ g[V] = IF V = {} THEN 0 ELSE Some(V).len + g[V \ {Some(V)}]
  BY DEF Sums
<1>3. 0 \in P
  BY <1>1, <1>2, FS_EmptySet
<1>4. ASSUME NEW n \in Nat, n \in P PROVE n + 1 \in P
  <2>1. ASSUME NEW V \in SUBSET T, Cardinality(V) = n + 1 PROVE f[V] = g[V]
    <3>1. V # {}
      BY <2>1, FS_EmptySet
    <3>2. V \ {Some(V)} \in SUBSET T /\ Cardinality(V \ {Some(V)}) = n
      BY <1>1, <2>1, <3>1, SomeIn, OneLess
    <3>3. f[V \ {Some(V)}] = g[V \ {Some(V)}]
      BY <1>4, <3>2
    <3> QED BY <1>2, <3>1, <3>3
  <2> QED BY <2>1
<1>5. \A n \in Nat : n \in P
  <2> HIDE DEF P
  <2> QED BY <1>3, <1>4, AllNumbers
<1> QED BY <1>1, <1>5

\* No segments are no bytes; otherwise the fold adds those of one of them to
\* those of the others.
LEMMA BytesOfSome ==
    ASSUME NEW S \in SUBSET Segments, IsFiniteSet(S)
    PROVE  BytesOf(S) = IF S = {} THEN 0 ELSE Some(S).len + BytesOf(S \ {Some(S)})
<1> DEFINE f == CHOOSE h : Sums(h, S)
<1>1. Sums(f, S) /\ BytesOf(S) = f[S]
  BY SumsExist, BytesOfDef
<1>2. CASE S = {}
  BY <1>1, <1>2 DEF Sums
<1>3. CASE S # {}
  <2> DEFINE T == S \ {Some(S)}
             g == CHOOSE h : Sums(h, T)
  <2>1. /\ IsFiniteSet(T) /\ T \in SUBSET S /\ T \in SUBSET T
        /\ T \in SUBSET Segments
    BY <1>3, SomeIn, OneLess
  <2>2. Sums(g, T) /\ BytesOf(T) = g[T]
    BY <2>1, SumsExist, BytesOfDef
  <2>3. f[T] = g[T]
    <3> HIDE DEF f, g, T
    <3> QED BY <1>1, <2>1, <2>2, SumsAgree
  <2>4. f[S] = Some(S).len + f[T]
    BY <1>1, <1>3 DEF Sums
  <2> QED BY <1>1, <1>3, <2>2, <2>3, <2>4
<1> QED BY <1>2, <1>3

\* They are a number.
LEMMA BytesOfType ==
    ASSUME NEW S \in SUBSET Segments, IsFiniteSet(S)
    PROVE  BytesOf(S) \in Nat
<1> DEFINE P == {n \in Nat : \A T \in SUBSET Segments :
                                IsFiniteSet(T) /\ Cardinality(T) = n => BytesOf(T) \in Nat}
<1>1. 0 \in P
  <2>1. \A T \in SUBSET Segments : IsFiniteSet(T) /\ Cardinality(T) = 0 => T = {}
    BY FS_EmptySet
  <2>2. BytesOf({}) = 0
    BY FS_EmptySet, BytesOfSome
  <2> QED BY <2>1, <2>2
<1>2. ASSUME NEW n \in Nat, n \in P PROVE n + 1 \in P
  <2>1. ASSUME NEW T \in SUBSET Segments, IsFiniteSet(T), Cardinality(T) = n + 1
        PROVE  BytesOf(T) \in Nat
    <3>1. T # {}
      BY <2>1, FS_EmptySet
    <3>2. PICK s \in T : BytesOf(T) = s.len + BytesOf(T \ {s})
      BY <2>1, <3>1, SomeIn, BytesOfSome
    <3>3. /\ T \ {s} \in SUBSET Segments /\ IsFiniteSet(T \ {s})
          /\ Cardinality(T \ {s}) = n
      BY <2>1, OneLess
    <3>4. BytesOf(T \ {s}) \in Nat /\ s.len \in Nat
      BY <1>2, <3>3, SegmentFacts
    <3> QED BY <3>2, <3>4
  <2> QED BY <2>1
<1>3. \A n \in Nat : n \in P
  <2> HIDE DEF P
  <2> QED BY <1>1, <1>2, AllNumbers
<1> QED BY <1>3, FS_CardinalityType

\* The bytes of a finite set of segments are those of any one of them and those
\* of the others.
LEMMA BytesOfOne ==
    ASSUME NEW S \in SUBSET Segments, IsFiniteSet(S), NEW s \in S
    PROVE  BytesOf(S) = s.len + BytesOf(S \ {s})
<1> DEFINE P == {n \in Nat : \A T \in SUBSET Segments : IsFiniteSet(T) /\ Cardinality(T) = n
                                => \A t \in T : BytesOf(T) = t.len + BytesOf(T \ {t})}
<1>1. 0 \in P
  BY FS_EmptySet
<1>2. ASSUME NEW n \in Nat, n \in P PROVE n + 1 \in P
  <2>1. ASSUME NEW T \in SUBSET Segments, IsFiniteSet(T), Cardinality(T) = n + 1, NEW t \in T
        PROVE  BytesOf(T) = t.len + BytesOf(T \ {t})
    <3>1. \A x \in T : /\ T \ {x} \in SUBSET Segments /\ IsFiniteSet(T \ {x})
                       /\ Cardinality(T \ {x}) = n /\ x.len \in Nat
      BY <2>1, OneLess, SegmentFacts
    <3>2. PICK y \in T : BytesOf(T) = y.len + BytesOf(T \ {y})
      BY <2>1, SomeIn, BytesOfSome
    <3>3. CASE y # t
      <4>1. \A x \in T, z \in T : x # z => BytesOf(T \ {x}) = z.len + BytesOf((T \ {x}) \ {z})
        BY <1>2, <3>1
      <4>2. /\ BytesOf(T \ {y}) = t.len + BytesOf((T \ {y}) \ {t})
            /\ BytesOf(T \ {t}) = y.len + BytesOf((T \ {t}) \ {y})
        BY <3>3, <4>1
      <4>3. (T \ {t}) \ {y} = (T \ {y}) \ {t}
        OBVIOUS
      <4>4. BytesOf((T \ {y}) \ {t}) \in Nat /\ y.len \in Nat /\ t.len \in Nat
        <5>1. IsFiniteSet((T \ {y}) \ {t}) /\ (T \ {y}) \ {t} \in SUBSET Segments
          BY <3>1, FS_RemoveElement
        <5> QED BY <3>1, <5>1, BytesOfType
      <4>5. PICK b : b = BytesOf((T \ {y}) \ {t})
        OBVIOUS
      <4> QED BY <3>2, <4>2, <4>3, <4>4, <4>5
    <3> QED BY <3>2, <3>3
  <2> QED BY <2>1
<1>3. \A n \in Nat : n \in P
  <2> HIDE DEF P
  <2> QED BY <1>1, <1>2, AllNumbers
<1> QED BY <1>3, FS_CardinalityType

-----------------------------------------------------------------------------
(* The counters.                                                           *)

\* The segments in List that wait for a gap to close.
Waiting == {s \in List : s.pos >= front}

\* The invariant for the counters.  The code's List is as finite as memory.
CountInv == IndInv /\ IsFiniteSet(List) /\ CountersAgree

\* Those that do not wait are marked for removal or being sent.
LEMMA WaitingIs ==
    IndInv => /\ Waiting = List \ (needRemoveList \cup {pushing})
              /\ Waiting \in SUBSET Segments
<1> SUFFICES ASSUME IndInv
             PROVE  /\ Waiting = List \ (needRemoveList \cup {pushing})
                    /\ Waiting \in SUBSET Segments
  OBVIOUS
<1>1. \A s \in List : s.pos \in Nat /\ s \in Segments
  BY SegmentFacts DEF IndInv, TypeOK
<1>2. front \in Nat /\ \A s \in List : s.pos < front <=> s \in needRemoveList \cup {pushing}
  BY DEF IndInv, TypeOK, ListInv
<1>3. \A s \in List : s.pos >= front <=> s \notin needRemoveList \cup {pushing}
  BY <1>1, <1>2
<1> QED BY <1>1, <1>3 DEF Waiting

\* What a step may do to the segments that wait, W, and to the counters: a Read
\* takes as much from both, AddTCP stores a segment, or puts one in order.
Change(W, V, all, put, newAll, newPut) ==
    \/ \E m \in Int : V = W /\ newAll = all + m /\ newPut = put + m
    \/ \E s \in Segments : s \notin W /\ V = W \cup {s} /\ newAll = all + s.len /\ newPut = put
    \/ \E s \in W : V = W \ {s} /\ newAll = all /\ newPut = put + s.len

LEMMA CountKept ==
    ASSUME NEW W \in SUBSET Segments, IsFiniteSet(W), NEW V, NEW all \in Int, NEW put \in Int,
           all = put + BytesOf(W), NEW newAll, NEW newPut, Change(W, V, all, put, newAll, newPut)
    PROVE  newAll = newPut + BytesOf(V)
<1>1. BytesOf(W) \in Nat
  BY BytesOfType
<1>2. CASE \E m \in Int : V = W /\ newAll = all + m /\ newPut = put + m
  BY <1>1, <1>2
<1>3. ASSUME NEW s \in Segments, s \notin W, V = W \cup {s}, newAll = all + s.len, newPut = put
      PROVE  newAll = newPut + BytesOf(V)
  <2>1. V \in SUBSET Segments /\ IsFiniteSet(V) /\ s \in V /\ V \ {s} = W
    BY <1>3, FS_AddElement
  <2>2. BytesOf(V) = s.len + BytesOf(W)
    BY <2>1, BytesOfOne
  <2> QED BY <1>1, <1>3, <2>2, SegmentFacts
<1>4. ASSUME NEW s \in W, V = W \ {s}, newAll = all, newPut = put + s.len
      PROVE  newAll = newPut + BytesOf(V)
  <2>1. BytesOf(W) = s.len + BytesOf(V)
    BY <1>4, BytesOfOne
  <2>2. BytesOf(V) \in Nat
    <3>1. V \in SUBSET Segments /\ IsFiniteSet(V)
      BY <1>4, FS_RemoveElement
    <3> QED BY <3>1, BytesOfType
  <2> QED BY <1>4, <2>1, <2>2, SegmentFacts
<1> QED BY <1>2, <1>3, <1>4 DEF Change

\* AddTCP stores a segment, and may put it in order.
LEMMA AddTCPCount ==
    ASSUME IndInv, NEW s \in Segments, AddTCP(s), NEW W, W = Waiting, NEW V,
           V = List' \ (needRemoveList' \cup {pushing'})
    PROVE  /\ List' = List \cup {s} /\ s.len \in Int /\ size' = size + s.len
           /\ \/ V = W /\ actualCanReadSize' = actualCanReadSize + s.len
              \/ s \notin W /\ V = W \cup {s} /\ actualCanReadSize' = actualCanReadSize
<1>1. /\ List' = List \cup {s} /\ size' = size + s.len
      /\ needRemoveList' = needRemoveList /\ pushing = NoSegment
  BY DEF AddTCP
<1>2. s \notin List
  BY DEF AddTCP, Accepts, Get
<1>3. needRemoveList = {} /\ W = List \ {pushing}
  BY <1>1, WaitingIs DEF IndInv, ListInv
<1>4. NoSegment \notin List /\ s # NoSegment /\ s.len \in Int
  BY SegmentFacts DEF IndInv, TypeOK
<1>5. W = List
  BY <1>1, <1>3, <1>4
<1>6. CASE pushing' = s /\ actualCanReadSize' = actualCanReadSize + s.len
  BY <1>1, <1>2, <1>3, <1>4, <1>5, <1>6
<1>7. CASE pushing' = pushing /\ actualCanReadSize' = actualCanReadSize
  BY <1>1, <1>2, <1>3, <1>4, <1>5, <1>7
<1> QED BY <1>6, <1>7 DEF AddTCP, Advance

\* The channel send is followed by the next segment in order, or by the removal
\* of those that are.
LEMMA PushCount ==
    ASSUME IndInv, Push, NEW W, W = Waiting, NEW V,
           V = List' \ (needRemoveList' \cup {pushing'})
    PROVE  /\ List' \subseteq List /\ size' = size
           /\ \/ V = W /\ actualCanReadSize' = actualCanReadSize
              \/ \E s \in W : V = W \ {s} /\ actualCanReadSize' = actualCanReadSize + s.len
<1>1. W = List \ Sent /\ size' = size
  BY WaitingIs DEF Sent, Push
<1>2. ASSUME NEW s \in Follower, Advance(s), needRemoveList' = Sent, List' = List
      PROVE  s \in W /\ V = W \ {s} /\ actualCanReadSize' = actualCanReadSize + s.len
  <2>1. s \in List /\ s \in Segments /\ SeqOf(s.pos) = SeqOf(front)
    BY <1>2 DEF Follower, Get, IndInv, ListInv, TypeOK
  <2>2. s.pos = front /\ front \in Nat
    BY <2>1, GetExpected DEF IndInv, TypeOK
  <2>3. s \in Waiting
    BY <2>1, <2>2 DEF Waiting
  <2>4. pushing' = s /\ actualCanReadSize' = actualCanReadSize + s.len
    BY <1>2 DEF Advance
  <2> QED BY <1>1, <1>2, <2>3, <2>4
<1>3. ASSUME pushing' = NoSegment, List' = List \ Sent, needRemoveList' = {}
      PROVE  V = W
  <2>1. NoSegment \notin List
    BY SegmentFacts DEF IndInv, TypeOK
  <2> QED BY <1>1, <1>3, <2>1
<1> QED BY <1>1, <1>2, <1>3 DEF Push

\* A Read takes as much from one counter as from the other.
LEMMA ReadCount ==
    ASSUME IndInv, NEW n \in ReadSizes, ReadBuffer(n) \/ ReadChannel(n)
    PROVE  /\ UNCHANGED <<List, needRemoveList, pushing>>
           /\ \E m \in Int : size' = size + m /\ actualCanReadSize' = actualCanReadSize + m
<1>1. UNCHANGED <<List, needRemoveList, pushing>>
  BY DEF ReadBuffer, ReadChannel, procVars
<1>2. ASSUME NEW buf \in Segment, TakeFrom(buf, n)
      PROVE  \E m \in Int : size' = size + m /\ actualCanReadSize' = actualCanReadSize + m
  <2> DEFINE k == IF n < buf.len THEN n ELSE buf.len
  <2>1. k \in Int
    BY SizesAssumption DEF Segment
  <2>2. size' = size - k /\ actualCanReadSize' = actualCanReadSize - k
    BY <1>2 DEF TakeFrom, updateCounters
  <2> HIDE DEF k
  <2>3. /\ 0 - k \in Int /\ size' = size + (0 - k)
        /\ actualCanReadSize' = actualCanReadSize + (0 - k)
    BY <2>1, <2>2 DEF IndInv, TypeOK
  <2> QED BY <2>3
<1>3. buffer \in Segment
  BY DEF IndInv, TypeOK
<1>4. ReadChannel(n) => Head(dataChannel) \in Segment
  BY HeadFacts DEF ReadChannel
<1> QED BY <1>1, <1>2, <1>3, <1>4 DEF ReadBuffer, ReadChannel

\* Every step keeps the counters right.
LEMMA CountNext == CountInv /\ [Next]_vars => CountInv'
<1> SUFFICES ASSUME CountInv, [Next]_vars PROVE CountInv'
  OBVIOUS
<1>1. IndInv /\ IndInv' /\ IsFiniteSet(List) /\ CountersAgree
  BY NextInv DEF CountInv
<1>2. (IndInv => Waiting = List \ (needRemoveList \cup {pushing}))'
  BY WaitingIs, PTL
<1>3. PICK W, V : W = Waiting /\ V = Waiting'
  OBVIOUS
<1>4. V = List' \ (needRemoveList' \cup {pushing'})
  BY <1>1, <1>2, <1>3
<1>5. W = List \ (needRemoveList \cup {pushing}) /\ W \in SUBSET Segments /\ IsFiniteSet(W)
  <2>1. W = List \ (needRemoveList \cup {pushing}) /\ W \in SUBSET Segments
    BY <1>1, <1>3, WaitingIs
  <2> QED BY <1>1, <2>1, FS_Subset
<1>6. size = actualCanReadSize + BytesOf(W) /\ size \in Int /\ actualCanReadSize \in Int
  BY <1>1, <1>3 DEF CountersAgree, Waiting, IndInv, TypeOK
<1> DEFINE Stays(m) == V = W /\ size' = size + m /\ actualCanReadSize' = actualCanReadSize + m
           Stored == \E s \in Segments : /\ s \notin W /\ V = W \cup {s} /\ size' = size + s.len
                                         /\ actualCanReadSize' = actualCanReadSize
           Ordered == \E s \in W : /\ V = W \ {s} /\ size' = size
                                   /\ actualCanReadSize' = actualCanReadSize + s.len
           Counted == IsFiniteSet(List') /\ ((\E m \in Int : Stays(m)) \/ Stored \/ Ordered)
<1>7. ASSUME UNCHANGED <<List, needRemoveList, pushing, size, actualCanReadSize>> PROVE Counted
  <2>1. Stays(0)
    BY <1>4, <1>5, <1>6, <1>7
  <2> QED BY <1>1, <1>7, <2>1
<1>8. ASSUME NEW s \in Segments, AddTCP(s) PROVE Counted
  <2>1. /\ List' = List \cup {s} /\ s.len \in Int /\ size' = size + s.len
        /\ \/ V = W /\ actualCanReadSize' = actualCanReadSize + s.len
           \/ s \notin W /\ V = W \cup {s} /\ actualCanReadSize' = actualCanReadSize
    BY <1>1, <1>3, <1>4, <1>8, AddTCPCount
  <2>2. IsFiniteSet(List')
    BY <1>1, <2>1, FS_AddElement
  <2> QED BY <2>1, <2>2
<1>9. ASSUME Push PROVE Counted
  <2>1. /\ List' \subseteq List /\ size' = size
        /\ \/ V = W /\ actualCanReadSize' = actualCanReadSize
           \/ \E s \in W : V = W \ {s} /\ actualCanReadSize' = actualCanReadSize + s.len
    BY <1>1, <1>3, <1>4, <1>9, PushCount
  <2>2. IsFiniteSet(List')
    BY <1>1, <2>1, FS_Subset
  <2>3. V = W /\ actualCanReadSize' = actualCanReadSize => Stays(0)
    BY <1>6, <2>1
  <2> QED BY <2>1, <2>2, <2>3
<1>10. ASSUME NEW n \in ReadSizes, ReadBuffer(n) \/ ReadChannel(n) PROVE Counted
  <2>1. /\ UNCHANGED <<List, needRemoveList, pushing>>
        /\ \E m \in Int : size' = size + m /\ actualCanReadSize' = actualCanReadSize + m
    BY <1>1, <1>10, ReadCount
  <2> QED BY <1>1, <1>4, <1>5, <2>1
<1>11. Counted
  <2>1. ASSUME NEW s \in Segments, Discard(s)
        PROVE  UNCHANGED <<List, needRemoveList, pushing, size, actualCanReadSize>>
    BY <2>1 DEF Discard
  <2>2. UNCHANGED vars => UNCHANGED <<List, needRemoveList, pushing, size, actualCanReadSize>>
    BY DEF vars, procVars
  <2> HIDE DEF Counted
  <2> QED BY <1>7, <1>8, <1>9, <1>10, <2>1, <2>2 DEF Next, Read
<1>12. size' = actualCanReadSize' + BytesOf(V)
  <2>1. PICK all, put, newAll, newPut :
           all = size /\ put = actualCanReadSize /\ newAll = size' /\ newPut = actualCanReadSize'
    OBVIOUS
  <2>2. all \in Int /\ put \in Int /\ all = put + BytesOf(W)
    BY <1>6, <2>1
  <2>3. Change(W, V, all, put, newAll, newPut)
    BY <1>11, <2>1 DEF Change
  <2>4. newAll = newPut + BytesOf(V)
    BY <1>5, <2>2, <2>3, CountKept
  <2> QED BY <2>1, <2>4
<1>13. IsFiniteSet(List)' /\ CountersAgree'
  BY <1>1, <1>3, <1>11, <1>12 DEF CountersAgree, Waiting, IndInv
<1> QED BY <1>1, <1>13 DEF CountInv

\* The byte counters say what is in order and unread, and what waits in List, at
\* any time: no byte is counted twice or left in a counter after it is read.
THEOREM Counters == Spec => []CountersAgree
<1>1. Init => CountInv
  <2>1. Init => IsFiniteSet(List) /\ CountersAgree
    <3> SUFFICES ASSUME Init PROVE IsFiniteSet(List) /\ CountersAgree
      OBVIOUS
    <3>1. List = {} /\ size = 0 /\ actualCanReadSize = 0
      BY DEF Init
    <3>2. {s \in List : s.pos >= front} = {}
      BY <3>1
    <3>3. IsFiniteSet({}) /\ BytesOf({}) = 0
      BY FS_EmptySet, BytesOfSome
    <3>4. ReadableAgrees
      BY InitInv DEF IndInv
    <3> QED BY <3>1, <3>2, <3>3, <3>4 DEF CountersAgree
  <2> QED BY <2>1, InitInv DEF CountInv
<1>2. CountInv /\ [Next]_vars => CountInv'
  BY CountNext
<1>3. CountInv => CountersAgree
  BY DEF CountInv
<1> QED BY <1>1, <1>2, <1>3, PTL DEF Spec
-----------------------------------------------------------------------------
(* TCPBuffer implements ByteStream.                                        *)

\* A call of Read is a step Take of the byte stream.
LEMMA ReadTakes ==
    ASSUME IndInv, NEW n \in ReadSizes, ReadBuffer(n) \/ ReadChannel(n)
    PROVE  Stream!Take
<1>1. front' = front /\ front \in Nat
  BY DEF ReadBuffer, ReadChannel, procVars, IndInv, TypeOK
<1>2. PICK buf \in Segment : /\ buf.len > 0 /\ buf.pos = nread /\ TakeFrom(buf, n)
                             /\ EndOf(buf) <= front /\ EndOf(buf) \in Nat
  <2>1. CASE ReadBuffer(n)
    BY <2>1, PipeEnds DEF ReadBuffer, IndInv, TypeOK, PipeInv
  <2>2. CASE ReadChannel(n)
    <3>1. buffer.len = 0 /\ dataChannel # <<>> /\ TakeFrom(Head(dataChannel), n)
      BY <2>2 DEF ReadChannel
    <3>2. Head(dataChannel) = dataChannel[1] /\ 1 \in 1 .. Len(dataChannel)
      BY <3>1 DEF IndInv, TypeOK
    <3>3. EndOf(Head(dataChannel)) <= front /\ EndOf(Head(dataChannel)) \in Nat
      BY <3>2, PipeEnds DEF IndInv, PipeInv
    <3> QED BY <3>1, <3>3, HeadFacts
  <2> QED BY <2>1, <2>2
<1>3. /\ handed' \in Segment /\ handed'.pos = nread /\ handed'.len > 0
      /\ nread' = nread + handed'.len /\ nread' <= EndOf(buf) /\ nread' \in Nat
  BY <1>2, TakeFacts
<1>4. nread' <= front
  BY <1>1, <1>2, <1>3
<1> QED BY <1>1, <1>3, <1>4 DEF Stream!Take, Stream!Interval, Segment

\* Putting a segment in order is a step Arrive of the byte stream.
LEMMA AdvanceArrives ==
    ASSUME TypeOK, NEW s \in Segments, s.pos = front, Advance(s)
    PROVE  front' \in Nat /\ front' > front
BY SegmentFacts DEF Advance, TypeOK

\* Every step of the reassembly is a step of the byte stream or changes
\* nothing of it.
LEMMA StepRefines == IndInv /\ [Next]_vars => [Stream!Next]_(Stream!svars)
<1> SUFFICES ASSUME IndInv, [Next]_vars PROVE [Stream!Next]_(Stream!svars)
  OBVIOUS
<1> USE DEF Stream!Next, Stream!svars, Stream!Arrive
<1>1. ASSUME NEW s \in Segments, Discard(s) PROVE [Stream!Next]_(Stream!svars)
  BY <1>1 DEF Discard, readVars
<1>2. ASSUME NEW s \in Segments, AddTCP(s) PROVE [Stream!Next]_(Stream!svars)
  <2>1. UNCHANGED <<nread, handed>>
    BY <1>2 DEF AddTCP, readVars
  <2>2. CASE expectedSeq = SeqOf(s.pos) /\ Advance(s)
    <3>1. front' = EndOf(s) /\ pushing' = s
      BY <2>2 DEF Advance
    <3>2. IndInv'
      BY <1>2, AddTCPInv
    <3>3. s.pos = front
      <4>1. s \in List' /\ s # NoSegment /\ List' \subseteq Segments
        BY <1>2, SegmentFacts DEF AddTCP, IndInv, TypeOK
      <4>2. pushing'.pos = LastEnd' /\ LastEnd' = LastEnd
        BY <3>1, <3>2, <4>1, <1>2 DEF IndInv, PipeInv, LastEnd, AddTCP, readVars
      <4>3. LastEnd = front
        BY <1>2 DEF AddTCP, IndInv, PipeInv
      <4> QED BY <4>2, <4>3, <3>1
    <3>4. front' \in Nat /\ front' > front
      BY <2>2, <3>3, AdvanceArrives DEF IndInv
    <3> QED BY <2>1, <3>4
  <2>3. CASE UNCHANGED front
    BY <2>1, <2>3
  <2> QED BY <1>2, <2>2, <2>3 DEF AddTCP
<1>3. CASE Push
  <2>1. UNCHANGED <<nread, handed>>
    BY <1>3 DEF Push, readVars
  <2>2. ASSUME NEW s \in Follower, Advance(s)
        PROVE  [Stream!Next]_(Stream!svars)
    <3>1. s \in List /\ s \in Segments /\ SeqOf(s.pos) = SeqOf(front)
      BY <2>2 DEF Follower, Get, IndInv, TypeOK, ListInv
    <3>2. front' \in Nat /\ front' > front
      BY <2>2, <3>1, GetExpected, AdvanceArrives DEF IndInv
    <3> QED BY <2>1, <3>2
  <2>3. CASE UNCHANGED front
    BY <2>1, <2>3
  <2> QED BY <1>3, <2>2, <2>3 DEF Push
<1>4. CASE Read
  BY <1>4, ReadTakes DEF Read
<1>5. CASE UNCHANGED vars
  BY <1>5 DEF vars, procVars, readVars
<1> QED BY <1>1, <1>2, <1>3, <1>4, <1>5 DEF Next

\* Whatever is captured, in whatever order and however often, Read returns
\* the bytes of the stream in order, none twice and none skipped.
THEOREM Refinement == Spec => StreamSpec
<1>1. Init => Stream!Init
  BY DEF Init, Stream!Init, NoSegment
<1>2. IndInv /\ [Next]_vars => [Stream!Next]_(Stream!svars)
  BY StepRefines
<1> QED BY <1>1, <1>2, Invariance, PTL DEF Spec, StreamSpec, Stream!Spec
=============================================================================
