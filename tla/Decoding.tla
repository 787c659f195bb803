------------------------------ MODULE Decoding ------------------------------
(***************************************************************************)
(* What Http2Conn (http2/http2.go) makes of the frames of a call: header   *)
(* blocks in HEADERS and CONTINUATION frames, decoded with one HPACK table *)
(* per direction; messages in DATA frames; SETTINGS.  All calls use the    *)
(* same stream slot, one after the other; responses are recorded.          *)
(*                                                                         *)
(* A direction's frames are handled in order by a goroutine of its own     *)
(* that nothing else reads the table of, so that a frame is sent and       *)
(* handled in one step.  Http2Conn has the steps between the directions.   *)
(*                                                                         *)
(* Every field has the same size here, and sizes are counted in fields.    *)
(***************************************************************************)
EXTENDS Integers, Sequences, SequencesExt, FiniteSets, TLC

CONSTANTS NameOf,         \* field -> its name
          Requests,       \* header blocks, sequences of fields
          Responses,
          Trailers,
          BodyLengths,    \* the lengths of messages
          TableSize,      \* http2initialHeaderTableSize
          Announced,      \* the sizes a peer may announce in SETTINGS
          MayContinue,    \* peers use CONTINUATION frames
          MaxUnusual      \* bound on the blocks and messages in more than one
                          \* frame, and the SETTINGS

Fields == DOMAIN NameOf
Directions == {"in", "out"}
Other(d) == IF d = "in" THEN "out" ELSE "in"

ASSUME DecodingAssumption ==
    /\ Requests \cup Responses \cup Trailers \subseteq Seq(Fields) \ {<<>>}
    /\ BodyLengths \subseteq Nat
    /\ TableSize \in Nat \ {0} /\ MaxUnusual \in Nat
    /\ Announced \subseteq Nat
    /\ MayContinue \in BOOLEAN

VARIABLES enc,       \* per direction, the sender's HPACK table
          owed,      \* the table sizes the sender has yet to tell
          dec,       \* Input.HeaderDecoder and Output.HeaderDecoder
          stage,     \* what the call on the wire sends next, or that the program
                     \* has panicked
          rest,      \* the bytes of the message still to be sent
          item,      \* Request and Response of the slot
          message,   \* the slot as toMsg found it, for the call just ended
          unusual,   \* the number bounded by MaxUnusual
          sent,      \* history: what the call's peers sent
          upset,     \* history: the directions in which the program may have
                     \* lost track of the sender's table
          split,     \* history: the directions of the call in which its
                     \* message came in several frames
          soiled     \* history: something was stored after the call had ended

vars == <<enc, owed, dec, stage, rest, item, message, unusual, sent, upset, split,
          soiled>>
-----------------------------------------------------------------------------
\* HPACK: a table has the newest field first.
Table(fields, max) == [fields |-> fields, max |-> max]
Resize(t, n) == Table(SubSeq(t.fields, 1, IF n < Len(t.fields) THEN n ELSE Len(t.fields)), n)
Insert(t, f) == Resize([t EXCEPT !.fields = <<f>> \o @], t.max)

Rep(kind, arg) == [kind |-> kind, arg |-> arg]
Half == Rep("half", 0)     \* one end of a representation cut in two

\* The sender's encoding of a block: sizes it owes, then the fields.
EncodeField(e, f) ==
    IF \E k \in DOMAIN e.table.fields : e.table.fields[k] = f
    THEN [e EXCEPT !.reps = Append(@, Rep("index", SelectInSeq(e.table.fields,
                                                               LAMBDA g : g = f)))]
    ELSE [table |-> Insert(e.table, f), reps |-> Append(e.reps, Rep("literal", f))]

Encode(t, sizes, block) ==
    FoldLeft(EncodeField,
             [table |-> t, reps |-> [k \in DOMAIN sizes |-> Rep("size", sizes[k])]], block)

\* hpack.Decoder.DecodeFull: an error takes the fields before it along.  (The
\* second half of a representation need not give an error; whatever it gives is
\* wrong.)
Failed(d) == [d EXCEPT !.ok = FALSE, !.fields = <<>>]

DecodeRep(d, r) ==
    CASE ~ d.ok -> d
      [] d.ok /\ r.kind = "size" -> [d EXCEPT !.table = Resize(@, r.arg)]
      [] d.ok /\ r.kind = "literal" -> [d EXCEPT !.table = Insert(@, r.arg),
                                                 !.fields = Append(@, r.arg)]
      [] d.ok /\ r.kind = "index" -> IF r.arg \in DOMAIN d.table.fields
                                     THEN [d EXCEPT !.fields = Append(@, d.table.fields[r.arg])]
                                     ELSE Failed(d)
      [] d.ok /\ r.kind = "half" -> Failed(d)

DecodeFull(t, reps) == FoldLeft(DecodeRep, [table |-> t, fields |-> <<>>, ok |-> TRUE], reps)

\* A block is cut after half a representation, or after a whole one.
Cuts(reps) == IF MayContinue THEN 1 .. 2 * Len(reps) ELSE {2 * Len(reps)}
FirstPart(reps, c) == SubSeq(reps, 1, c \div 2) \o IF c % 2 = 1 THEN <<Half>> ELSE <<>>
SecondPart(reps, c) == (IF c % 2 = 1 THEN <<Half>> ELSE <<>>)
                       \o SubSeq(reps, (c + 1) \div 2 + 1, Len(reps))
-----------------------------------------------------------------------------
EmptyItem == [headers |-> <<>>, body |-> <<>>]
EmptySlot == [d \in Directions |-> EmptyItem]

\* item.Headers, a map by name.
StoreField(headers, f) ==
    [n \in DOMAIN headers \cup {NameOf[f]} |-> IF n = NameOf[f] THEN f ELSE headers[n]]

StoreFields(headers, fields) == FoldLeft(StoreField, headers, fields)

StoredIn(slot, d, fields) == [slot EXCEPT ![d].headers = StoreFields(@, fields)]

Count(isUnusual) == /\ isUnusual => unusual < MaxUnusual
                    /\ unusual' = IF isUnusual THEN unusual + 1 ELSE unusual

Init == /\ enc = [d \in Directions |-> Table(<<>>, TableSize)]
        /\ owed = [d \in Directions |-> <<>>]
        /\ dec = [d \in Directions |-> Table(<<>>, TableSize)]
        /\ stage = <<"headers", "in">>
        /\ rest = <<>>
        /\ item = EmptySlot
        /\ message = EmptySlot
        /\ unusual = 0
        /\ sent = EmptySlot
        /\ upset = {}
        /\ split = {}
        /\ soiled = FALSE

\* Here and below, an operator that no other definition uses is a faulty
\* variant of the one that follows it, for the mutation of the checks.
Ignored(slot, d, fields) == slot

\* processFrameContinuation, on the slot as the HEADERS frame has left it.
Continued(slot, d, fields) == StoredIn(slot, d, fields)

InputOnly(d) == "in"

\* The parser whose HeaderDecoder is used for the frames of direction d.
ParserOf(d) == d

\* A header block: ParseFrameHeader, _processFrameHeader and, for the part cut
\* off, _processFrameContinuation.  The slot is finished and reset already at
\* the HEADERS frame if that ends the stream.
Block(d, block, ends) ==
    LET encoded == Encode(enc[d], owed[d], block)
        reps == encoded.reps
        parser == ParserOf(d)
    IN  \E c \in Cuts(reps) :
          LET whole  == c = 2 * Len(reps)
              first  == DecodeFull(dec[parser], FirstPart(reps, c))
              second == DecodeFull(first.table, SecondPart(reps, c))
              stored == StoredIn(item, d, first.fields)
              left   == IF ends THEN EmptySlot ELSE stored
          IN  /\ Count(~ whole)
              /\ enc' = [enc EXCEPT ![d] = encoded.table]
              /\ owed' = [owed EXCEPT ![d] = <<>>]
              /\ dec' = [dec EXCEPT ![parser] = second.table]
              /\ item' = IF whole THEN left ELSE Continued(left, d, second.fields)
              /\ message' = IF ends THEN stored ELSE EmptySlot
              /\ upset' = IF c % 2 = 1 THEN upset \cup {d} ELSE upset
              /\ soiled' = (soiled \/ (ends /\ ~ whole))

Panicked == <<"panicked", "">>

FivePlus(n) == [k \in 1 .. 5 + n |-> k]     \* a message with its prefix

\* The header block of a request or a response, with a message to follow.
Headers(d, block) ==
    /\ stage = <<"headers", d>>
    /\ Block(d, block, FALSE)
    /\ \E n \in BodyLengths :
          /\ rest' = FivePlus(n)
          /\ sent' = LET before == IF d = "in" THEN EmptySlot ELSE sent
                     IN  [StoredIn(before, d, block) EXCEPT
                             ![d].body = SubSeq(FivePlus(n), 6, 5 + n)]
    /\ stage' = <<"data", d>>
    /\ split' = IF d = "in" THEN {} ELSE split

\* The block that ends the response, and with it the call: after the message,
\* or alone.
EndOfCall(block) ==
    /\ stage \in {<<"headers", "out">>, <<"trailers", "out">>}
    /\ Block("out", block, TRUE)
    /\ sent' = StoredIn(sent, "out", block)
    /\ stage' = <<"headers", "in">>
    /\ UNCHANGED <<rest, split>>

FromFifth(data) == SubSeq(data, 5, Len(data))

\* ParseGRPCMessage.
EncodedMessage(data) == SubSeq(data, 6, Len(data))

\* processFrameData, of a frame with the next k bytes.  A part of a message is
\* not kept if it says that it is compressed, or seems to say so.
Data(d, k) ==
    /\ stage = <<"data", d>>
    /\ LET data == SubSeq(rest, 1, k)
           part == k < Len(rest) \/ d \in split
       IN  /\ Count(k < Len(rest))
           /\ \/ /\ k < 5
                 /\ stage' = Panicked
                 /\ UNCHANGED <<rest, item, split>>
              \/ /\ k >= 5
                 /\ \E kept \in {TRUE, ~ part} :
                      item' = IF kept THEN [item EXCEPT ![d].body = @ \o EncodedMessage(data)]
                                      ELSE item
                 /\ rest' = SubSeq(rest, k + 1, Len(rest))
                 /\ stage' = CASE k < Len(rest) -> stage
                               [] k = Len(rest) /\ d = "in" -> <<"headers", "out">>
                               [] k = Len(rest) /\ d = "out" -> <<"trailers", "out">>
                 /\ split' = IF part THEN split \cup {d} ELSE split
    /\ UNCHANGED <<enc, owed, dec, message, sent, upset, soiled>>

\* The other peer takes up SETTINGS with HEADER_TABLE_SIZE v: its own table is
\* that small from now on.
TakeUp(d, v) ==
    LET n == IF v < TableSize THEN v ELSE TableSize
    IN  /\ enc' = [enc EXCEPT ![d] = Resize(@, n)]
        /\ owed' = [owed EXCEPT ![d] = Append(@, n)]

\* processFrameSetting, of SETTINGS that are sent in direction d.
Settings(d, v) ==
    /\ stage # Panicked
    /\ Count(TRUE)
    /\ TakeUp(Other(d), v)
    /\ dec' = [dec EXCEPT ![ParserOf(d)] = Resize(@, v)]
    /\ upset' = IF v < enc[d].max THEN upset \cup {d} ELSE upset
    /\ UNCHANGED <<stage, rest, item, message, sent, split, soiled>>

Next == \/ \E block \in Requests : Headers("in", block)
        \/ \E block \in Responses : Headers("out", block)
        \/ \E block \in Trailers : EndOfCall(block)
        \/ \E d \in Directions : \E k \in 1 .. Len(rest) : Data(d, k)
        \/ \E d \in Directions, v \in Announced : Settings(d, v)

Spec == Init /\ [][Next]_vars
-----------------------------------------------------------------------------
\* The types; no table is larger than its size, and none of the five bytes
\* before a message that came in one piece gets into a body.
TypeOK ==
    /\ \A d \in Directions :
          /\ ToSet(enc[d].fields) \cup ToSet(dec[d].fields) \subseteq Fields
          /\ Len(enc[d].fields) <= enc[d].max
          /\ Len(dec[d].fields) <= dec[d].max
          /\ Len(owed[d]) <= MaxUnusual
          /\ d \notin split => ToSet(item[d].body) \cap 1 .. 5 = {}
    /\ upset \subseteq Directions /\ split \subseteq Directions
    /\ soiled \in BOOLEAN

\* What the sender has in its table the program has in the same places, through
\* evictions, changes of the size, and header blocks in two frames: unless a
\* representation was cut in two, or the sender itself announced a table for
\* the opposite direction that is smaller than the one it uses.
TablesAgree == \A d \in Directions \ upset : IsPrefix(enc[d].fields, dec[d].fields)

BetweenCalls == stage = <<"headers", "in">>

\* What a call ends with is what its peers sent: of repeated names the last
\* field, and the bytes of the message.  A direction is the worse only for what
\* happened in itself, and the response, too, for trailers in two frames.
AsSent == BetweenCalls =>
    \A d \in Directions \ upset :
       /\ d = "in" \/ ~ soiled => message[d].headers = sent[d].headers
       /\ d \notin split => message[d].body = sent[d].body

\* ARCHITECTURE.md: "rebuild complete gRPC messages from the HTTP/2 stream".
BodyAsSent == BetweenCalls => \A d \in Directions : message[d].body = sent[d].body
=============================================================================
