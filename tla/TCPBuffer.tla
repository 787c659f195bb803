----------------------------- MODULE TCPBuffer -----------------------------
(***************************************************************************)
(* TCPBuffer (http2/tcp_buffer.go): the reassembly of one direction of a   *)
(* captured TCP connection.  The processor goroutine calls AddTCP with     *)
(* every captured segment, in whatever order and as often as the capture   *)
(* delivers them; one frame reader goroutine calls Read.  In-order         *)
(* payloads travel through the bounded channel dataChannel.                *)
(*                                                                         *)
(* A segment is the interval [pos, len] of stream positions it carries;    *)
(* SeqOf(pos) is the 32-bit sequence number (modulo SeqSpace) the code     *)
(* sees.  The code never sees a position: positions are how the properties *)
(* tell the bytes apart.                                                   *)
(***************************************************************************)
EXTENDS Integers, Sequences, FiniteSetsExt

CONSTANTS SeqSpace,       \* number of sequence numbers, 2^32
          MaxWindowSize,  \* const MaxWindowSize
          MaxLen,         \* longest payload of a segment
          ChanCap,        \* capacity of dataChannel
          ISN,            \* sequence number of the first byte of the stream
          Segments,       \* the segments the sender cuts the stream into
          Lag,            \* how far behind the expected byte a duplicate may be
          Flight,         \* how far ahead of the expected byte a segment may be
          ReadSizes       \* the sizes of the slices Read is called with

Segment == [pos : Nat, len : Nat]

EndOf(s) == s.pos + s.len

Overlap(s, t) == s.pos < EndOf(t) /\ t.pos < EndOf(s)

SeqOf(p) == (ISN + p) % SeqSpace

MaxUint32 == SeqSpace - 1

\* Sizes: the window, the longest payload and the duplicates' lag are small
\* beside the sequence space (65536, 65535 and the sender's window against
\* 2^32).
ASSUME SizesAssumption ==
    /\ SeqSpace \in Nat /\ MaxWindowSize \in Nat /\ MaxLen \in Nat
    /\ ChanCap \in Nat \ {0} /\ ISN \in Nat /\ Lag \in Nat /\ Flight \in Nat
    /\ ReadSizes \subseteq Nat \ {0}
    /\ ISN < SeqSpace
    /\ Flight < SeqSpace
    /\ Lag + MaxWindowSize + 1 < SeqSpace
    /\ MaxLen + MaxWindowSize + 1 < SeqSpace

\* A retransmission carries the same interval as the original: the sender
\* does not cut the stream anew.
ASSUME SegmentsAssumption ==
    /\ Segments \subseteq Segment
    /\ \A s \in Segments : s.len > 0 /\ s.len <= MaxLen
    /\ \A s, t \in Segments : Overlap(s, t) => s = t

VARIABLES expectedSeq,        \* sequence number of the next byte in order
          List,               \* the skip list: segments stored by AddTCP
          dataChannel,        \* payloads on their way to the reader
          buffer,             \* the reader's rest of the last payload
          size,               \* bytes cached
          actualCanReadSize,  \* bytes of them that are in order
          pushing,            \* AddTCP: the segment of the pending channel send
          needRemoveList      \* AddTCP: segments to remove from List at its end

\* History variables: no step of the code depends on them.
VARIABLES front,     \* stream position of the next byte in order
          inWindow,  \* segments captured while inside the window
          nread,     \* bytes Read has returned
          handed     \* the interval the last Read returned

procVars == <<expectedSeq, List, pushing, needRemoveList, front, inWindow>>
readVars == <<buffer, nread, handed>>
vars == <<procVars, readVars, dataChannel, size, actualCanReadSize>>

NoSegment == [pos |-> 0, len |-> 0]
-----------------------------------------------------------------------------
(* The arithmetic of the code.  uint32 additions wrap at SeqSpace; the     *)
(* remainder by math.MaxUint32 comes on top of that.  An operator that no  *)
(* other definition uses, here and below, is a faulty variant of the one   *)
(* that follows it, for the mutation of the checks.                        *)

NextSeqNoWrap(seq, n) == seq + n

NextSeq(seq, n) == ((seq + n) % SeqSpace) % MaxUint32

AnyPackage(expected, seq) == TRUE

NoWrapCase(expected, seq) ==
    seq >= expected /\ seq <= NextSeq(expected, MaxWindowSize)

validPackage(expected, seq) ==
    LET rightBorder == NextSeq(expected, MaxWindowSize)
    IN  IF rightBorder < expected
        THEN seq <= rightBorder \/ seq >= expected
        ELSE seq >= expected /\ seq <= rightBorder

\* List.Get: the stored segment with that sequence number, if there is one.
Get(seq) == {s \in List : SeqOf(s.pos) = seq}

NoFollower == {}

\* The segment AddTCP's loop goes on with.
Follower == Get(expectedSeq)

NothingSent == {}

\* The segments AddTCP has sent when it ends.
Sent == needRemoveList \cup {pushing}
-----------------------------------------------------------------------------
\* NewTCPBuffer, then SetExpectedSeq: with pkg.Ack of the handshake for the
\* Output buffer; for the Input buffer the value OnEnter sets, pkg.Seq + 1, is
\* one too high and only SetExpectedSeq after the preface makes it exact, so
\* position 0 there is the first byte after the preface.
Init == /\ expectedSeq = SeqOf(0)
        /\ List = {}
        /\ dataChannel = <<>>
        /\ buffer = NoSegment
        /\ size = 0
        /\ actualCanReadSize = 0
        /\ pushing = NoSegment
        /\ needRemoveList = {}
        /\ front = 0
        /\ inWindow = {}
        /\ nread = 0
        /\ handed = NoSegment

\* The network under the capture: what AddTCP may be called with next.
Captured(s) == /\ s.pos >= front - Lag
               /\ s.pos <= front + Flight

NoteCapture(s) == inWindow' = IF s.pos \in front .. front + MaxWindowSize
                              THEN inWindow \cup {s} ELSE inWindow

\* The start of an iteration of AddTCP's loop, up to the channel send.
Advance(s) == /\ pushing' = s
              /\ actualCanReadSize' = actualCanReadSize + s.len
              /\ expectedSeq' = NextSeq(SeqOf(s.pos), s.len)
              /\ front' = EndOf(s)

Accepts(s) == /\ validPackage(expectedSeq, SeqOf(s.pos))
              /\ Get(SeqOf(s.pos)) = {}

\* AddTCP with a segment outside the window or already stored.
Discard(s) == /\ pushing = NoSegment
              /\ Captured(s)
              /\ ~ Accepts(s)
              /\ NoteCapture(s)
              /\ UNCHANGED <<expectedSeq, List, pushing, needRemoveList, front,
                             readVars, dataChannel, size, actualCanReadSize>>

\* AddTCP with a segment it stores, up to the first channel send if the
\* segment is the expected one, to its end otherwise.
AddTCP(s) == /\ pushing = NoSegment
             /\ Captured(s)
             /\ Accepts(s)
             /\ NoteCapture(s)
             /\ List' = List \cup {s}
             /\ size' = size + s.len
             /\ \/ /\ expectedSeq = SeqOf(s.pos)
                   /\ Advance(s)
                \/ /\ expectedSeq # SeqOf(s.pos)
                   /\ UNCHANGED <<pushing, actualCanReadSize, expectedSeq, front>>
             /\ UNCHANGED <<needRemoveList, dataChannel, readVars>>

\* The channel send of AddTCP's loop, which waits for room, and what follows
\* it: the next iteration, or the removal of the segments that were sent.
Push == /\ pushing # NoSegment
        /\ Len(dataChannel) < ChanCap
        /\ dataChannel' = Append(dataChannel, pushing)
        /\ \/ \E s \in Follower :
                /\ Advance(s)
                /\ needRemoveList' = Sent
                /\ UNCHANGED List
           \/ /\ Follower = {}
              /\ pushing' = NoSegment
              /\ List' = List \ Sent
              /\ needRemoveList' = {}
              /\ UNCHANGED <<expectedSeq, actualCanReadSize, front>>
        /\ UNCHANGED <<inWindow, size, readVars>>

OneCounter(m) == /\ actualCanReadSize' = actualCanReadSize - m
                 /\ UNCHANGED size

updateCounters(m) == /\ size' = size - m
                     /\ actualCanReadSize' = actualCanReadSize - m

\* The end of Read: bytes of buf move to the caller's slice of n bytes and
\* leave the counters.
TakeFrom(buf, n) ==
    LET m == IF n < buf.len THEN n ELSE buf.len
    IN  /\ handed' = [pos |-> buf.pos, len |-> m]
        /\ buffer' = [pos |-> buf.pos + m, len |-> buf.len - m]
        /\ nread' = nread + m
        /\ updateCounters(m)

\* Read when the last payload is not used up.
ReadBuffer(n) == /\ buffer.len > 0
                 /\ TakeFrom(buffer, n)
                 /\ UNCHANGED <<procVars, dataChannel>>

\* Read when it is: it waits for the next payload.
ReadChannel(n) == /\ buffer.len = 0
                  /\ dataChannel # <<>>
                  /\ TakeFrom(Head(dataChannel), n)
                  /\ dataChannel' = Tail(dataChannel)
                  /\ UNCHANGED procVars

Read == \E n \in ReadSizes : ReadBuffer(n) \/ ReadChannel(n)

Next == \/ \E s \in Segments : Discard(s) \/ AddTCP(s)
        \/ Push
        \/ Read

Spec == Init /\ [][Next]_vars

\* The processor goroutine goes on when the channel has room, and the frame
\* reader loops over Read.  Nothing is assumed of the capture.
FairSpec == Spec /\ WF_vars(Push) /\ WF_vars(Read)
-----------------------------------------------------------------------------
(* Properties.                                                             *)

\* The type of every variable; the channel keeps to its capacity, and only
\* stored segments are ever marked for removal.
TypeOK == /\ expectedSeq \in 0 .. SeqSpace - 1
          /\ List \subseteq Segments
          /\ dataChannel \in Seq(Segments)
          /\ Len(dataChannel) <= ChanCap
          /\ buffer \in Segment
          /\ size \in Int
          /\ actualCanReadSize \in Int
          /\ pushing \in Segments \cup {NoSegment}
          /\ needRemoveList \subseteq List
          /\ front \in Nat
          /\ inWindow \subseteq Segments
          /\ nread \in Nat
          /\ handed \in Segment

BytesOf(S) == MapThenSumSet(LAMBDA s : s.len, S)

\* actualCanReadSize is the number of bytes put in order and not yet read.
ReadableAgrees == actualCanReadSize = front - nread

\* The two byte counters say what is there: actualCanReadSize the bytes that
\* were put in order and not yet read, size those and the ones that wait in
\* List for a gap to close.
CountersAgree == /\ ReadableAgrees
                 /\ size = actualCanReadSize + BytesOf({s \in List : s.pos >= front})

\* No segment that arrived inside the window is lost or forgotten: it is
\* still stored, or its bytes were put in order; and between two calls of
\* AddTCP the segment that continues the stream is never left in List.
NoSegmentLost == /\ \A s \in inWindow : s.pos < front \/ s \in List
                 /\ pushing = NoSegment => \A s \in List : s.pos > front

Stream == INSTANCE ByteStream WITH avail <- front, taken <- nread

\* Out-of-order and duplicated capture, chunked reads and a full channel
\* notwithstanding, Read returns the stream: the detailed specification
\* implements ByteStream.
StreamSpec == Stream!Spec

CapturedUpTo(n) == \A p \in 0 .. n - 1 :
                      \E s \in inWindow : p \in s.pos .. EndOf(s) - 1

\* Once every byte below an end position was captured inside the window, all
\* of them are eventually read, without any further capture.
CapturedIsRead == \A t \in Segments : CapturedUpTo(EndOf(t)) ~> nread >= EndOf(t)
=============================================================================
