-------------------------- MODULE Http2ConnProofs --------------------------
(***************************************************************************)
(* Theorems about Http2Conn.  They make no assumption on how the goroutines*)
(* are scheduled: what fails on a raced slot is let through by the         *)
(* properties, and when only requests are recorded there is none           *)
(* (RequestsAlone).                                                        *)
(*                                                                         *)
(* The inductive invariant speaks of each slot that is not raced.  What is *)
(* captured is handled in the order in which it was sent (SentInv,         *)
(* QueueInv), so that calls come to a slot one at a time (SlotInv, OwnInv),*)
(* and it holds parts of that call alone (PartsInv).  Nothing of the call  *)
(* is lost before its end, and nothing is left of it after (CallInv).      *)
(* HandlerInv and EndInv say what a goroutine knows of its slot where it is*)
(* in the handler, TokenInv that a token in done means what it should.     *)
(* MsgInv and EmittedInv draw the conclusion for the messages, CleanInv for*)
(* the slots.                                                              *)
(***************************************************************************)
EXTENDS Http2Conn, TLAPS

\* The two frames of a call in direction d.
First(d, r) == IF d = "in" THEN Frame(r, "headers", FALSE) ELSE Frame(r, "data", FALSE)
Second(d, r) == IF d = "in" THEN Frame(r, "data", TRUE) ELSE Frame(r, "trailers", TRUE)

CallFrames(d) == {First(d, r) : r \in Calls} \cup {Second(d, r) : r \in Calls}
InFrames(d) == CallFrames(d) \cup (IF d = "in" THEN {RST(r) : r \in Calls} ELSE {})

\* The order of a call's frames.
Rank(f) == IF f.kind = "rst" THEN 3
           ELSE IF f.kind = "trailers" \/ f.end THEN 2 ELSE 1

InQ(d, f) == \E i \in DOMAIN queue[d] : queue[d][i] = f

\* The goroutine that finds the calls complete and hands them on.
Finisher == IF RecordResponse THEN "out" ELSE "in"

Clear(s) == s \in Slots /\ s \notin raced
-----------------------------------------------------------------------------
(* The parts of the inductive invariant. *)

Channels == Slots \X (0 .. 2)

\* The types of the goroutines' state: a goroutine that handles no frame is
\* idle, and the channel DealInput puts a token in is of the slot it is at.
HandlerType ==
    /\ TypeOK
    /\ frame \in [Dirs -> CallFrames("in") \cup CallFrames("out") \cup {NoFrame}]
    /\ \A d \in Dirs : /\ frame[d] \in CallFrames(d) \cup {NoFrame}
                       /\ pc[d] = "idle" <=> frame[d] = NoFrame
    /\ ch \in [Dirs -> Channels \cup {NoChan}]
    /\ OutputChan \in Seq(Message)
    /\ emitted \in Seq(Message)
    /\ ~ RecordResponse => pc["out"] = "idle" /\ pc["in"] # "wait"
    /\ pc["in"] = "put" => ch["in"] \in Channels /\ ch["in"][1] = S("in")

\* The types of the queues.
QueuesType == /\ \A d \in Dirs : queue[d] \in Seq(InFrames(d) \cup {GoAway})
              /\ queue \in [Dirs -> Seq(InFrames("in") \cup InFrames("out") \cup {GoAway})]
              /\ ~ RecordResponse => queue["out"] = <<>>

NetType == /\ sent \in [Dirs -> [Calls -> 0 .. 2]]
           /\ cancelled \subseteq Calls

TypeInv == HandlerType /\ QueuesType /\ NetType

Done(r) == Ended("out", r) \/ r \in cancelled

\* A response begins after its request, only a call that was begun is
\* cancelled, and a slot is used again after its earlier calls are over.
SentInv == \A r \in Calls :
    /\ sent["out"][r] > 0 => sent["in"][r] = 2
    /\ r \in cancelled => sent["in"][r] > 0
    /\ \A q \in Calls : q < r /\ SlotOf(q) = SlotOf(r) /\ sent["in"][r] > 0 => Done(q)

WasSent(d, f) == IF f.kind = "rst" THEN f.id \in cancelled ELSE Rank(f) <= sent[d][f.id]

\* What is queued was sent, and comes after the frame of its call at hand.
Behind(d) == \A i \in DOMAIN queue[d] : queue[d][i] # GoAway =>
                 /\ WasSent(d, queue[d][i])
                 /\ frame[d].id = queue[d][i].id => Rank(frame[d]) < Rank(queue[d][i])

\* The frames of a call are queued in the order of their ranks.
Ordered(d) == \A i, j \in DOMAIN queue[d] :
                 queue[d][i] # GoAway /\ i < j /\ queue[d][i].id = queue[d][j].id
                    => Rank(queue[d][i]) < Rank(queue[d][j])

\* A frame f queued before g: of two calls of a slot the earlier one's frames
\* come first, but for what the server still sends of a cancelled call.
Before(d, f, g) == f # GoAway /\ g # GoAway /\ SlotOf(f.id) = SlotOf(g.id) /\ g.id < f.id
                      => d = "out" /\ g.id \in cancelled
InTurn(d) == \A i, j \in DOMAIN queue[d] : i < j => Before(d, queue[d][i], queue[d][j])

\* The frames are handled in the order in which they were sent.
QueueInv == \A d \in Dirs : /\ frame[d] # NoFrame => WasSent(d, frame[d])
                            /\ Behind(d) /\ Ordered(d) /\ InTurn(d)

NoParts(r) == \A s \in Slots, d \in Dirs : \A p \in Streams[s][d].parts : p[1] # r

\* A call has come to its slot: a goroutine has a frame of it, or the slot holds
\* a part of it.
At(d, r) == frame[d].id = r
Present(r) == ~ NoParts(r) \/ \E d \in Dirs : At(d, r)

\* When a call has come to its slot, nothing of an earlier one is in flight there,
\* but for what the server still sends of a cancelled call.
SlotInv == \A q, r \in Calls :
    q < r /\ SlotOf(q) = SlotOf(r) /\ Clear(SlotOf(r)) /\ Present(r) =>
        /\ Handled("in", q)
        /\ q \notin cancelled => Handled("out", q)

\* What a slot holds is of calls that fall on it, and was sent.
PartsInv == \A s \in Slots, d \in Dirs : \A p \in Streams[s][d].parts :
    /\ SlotOf(p[1]) = s
    /\ <<p[1], p[2]>> \in PartsOf(d, p[1])
    /\ WasSent(d, Frame(p[1], p[2], FALSE))

\* A slot has calls one at a time.
OwnInv == \A q, r \in Calls :
    SlotOf(q) = SlotOf(r) /\ Clear(SlotOf(r)) /\ Present(q) /\ Present(r) => q = r

\* A frame was captured, and its content is not lost.
Have(d, r, f) == \/ InQ(d, f)
                 \/ frame[d] = f /\ pc[d] = "store"
                 \/ <<r, f.kind>> \in Streams[SlotOf(r)][d].parts

HaveBoth(r) == Have("in", r, First("in", r)) /\ Have("in", r, Second("in", r))

\* The goroutine has the frame, and the slot is not emptied of it yet.
Holds(d, f) == /\ frame[d] = f /\ pc[d] # "reset"
               /\ pc[d] = "check" => d = Finisher

\* The cancellation of the call was handled.
Gone(r) == r \in cancelled /\ ~ InQ("in", RST(r))

\* While a call is handled, all that was captured of it before is kept.
KeptAt(r) ==
    /\ \A d \in Dirs : (InQ(d, Second(d, r)) /\ ~ Gone(r)) \/ Holds(d, Second(d, r))
          => Have(d, r, First(d, r))
    /\ \A d \in Dirs : Holds(d, Second(d, r)) => Have(d, r, Second(d, r))
    /\ \A f \in {First("out", r), Second("out", r)} :
          (InQ("out", f) /\ ~ Gone(r)) \/ Holds("out", f) => HaveBoth(r)
    /\ ~ Gone(r) =>
         /\ sent["in"][r] = 1 => Have("in", r, First("in", r))
         /\ RecordResponse /\ sent["in"][r] = 2 /\ sent["out"][r] < 2 => HaveBoth(r)
         /\ RecordResponse /\ sent["out"][r] = 1 => Have("out", r, First("out", r))

\* DealInput is past the request: of its frames it has at most the last one at
\* hand, with all that follows its token.
InDone(r) == /\ ~ InQ("in", First("in", r)) /\ ~ InQ("in", Second("in", r))
             /\ frame["in"].id = r => frame["in"] = Second("in", r) /\ pc["in"] = "check"

UsedUp(d, f) == ~ InQ(d, f) /\ frame[d] # f

\* Once the last frame of a call, or its cancellation, is handled, the slots
\* hold nothing of it, and DealInput will put nothing there.
OverAt(r) ==
    /\ r \notin cancelled /\ sent[Finisher][r] = 2 /\ UsedUp(Finisher, Second(Finisher, r)) =>
          NoParts(r) /\ UsedUp(Finisher, First(Finisher, r)) /\ InDone(r)
    /\ Gone(r) => NoParts(r) /\ Handled("in", r) /\ frame["out"].id # r

CallInv == \A r \in Calls : Clear(SlotOf(r)) => KeptAt(r) /\ OverAt(r)

\* The mark END_STREAM of an item is that of the frame at hand, and only the
\* last frame of a call takes a goroutine to FinishStream.  The channel a
\* goroutine holds is its stream's, and when it is past waiting, DealInput is
\* done with the request.
HandlerAt(d) ==
    /\ (pc[d] = "check" => d = Finisher) => Streams[S(d)][d].end = frame[d].end
    /\ pc[d] \in {"wait", "finish", "send", "reset"} => d = Finisher /\ frame[d].end
    /\ pc[d] = "put" => frame[d].end
    /\ pc[d] \in {"put", "wait"} => ch[d] = <<S(d), done[S(d)]>>
    /\ d = "out" /\ pc[d] \in {"finish", "send", "reset"} => InDone(frame[d].id)

HandlerInv == \A d \in Dirs : frame[d] # NoFrame /\ Clear(S(d)) => HandlerAt(d)

\* Only the slot whose last recorded frame is at hand is marked as ended.
EndInv == \A s \in Slots : Clear(s) /\ Streams[s][Finisher].end =>
    frame[Finisher] # NoFrame /\ S(Finisher) = s /\ frame[Finisher].end

\* A token is in the channel of a stream when DealInput is past the request of
\* the call that has come to the slot.
TokenOf(r) == ~ NoParts(r) /\ sent["in"][r] = 2 /\ InDone(r)
TokenInv == \A s \in Slots : RecordResponse /\ Clear(s) /\ <<s, done[s]>> \in tokens =>
    \E r \in Calls : SlotOf(r) = s /\ TokenOf(r)

\* The last frame of the call that is recorded is handled: it is not queued, and
\* the goroutine that has it is past sending the message.
DealtWith(r) == /\ sent[Finisher][r] = 2
                /\ ~ InQ(Finisher, Second(Finisher, r))
                /\ frame[Finisher] = Second(Finisher, r) => pc[Finisher] = "reset"

\* The parts of a message are of calls of one slot.
MsgOf(m, s) == m.in # {} /\ \A p \in m.in : SlotOf(p[1]) = s

\* A message to be sent is the whole of the call at hand, which is not one toMsg
\* has an error for, and the ones that were sent are of different calls, each of
\* them dealt with.
MsgInv == \A d \in Dirs : pc[d] = "send" =>
    /\ MsgOf(msg[d], S(d))
    /\ \E p \in msg[d].in : p[1] \in Calls \ Silent
    /\ Clear(S(d)) => msg[d] = WholeOf(frame[d].id)

EmittedInv == \A i \in DOMAIN emitted : \E s \in Slots :
    /\ MsgOf(emitted[i], s)
    /\ Clear(s) => \E r \in Calls : emitted[i] = WholeOf(r) /\ DealtWith(r)

Soiled(s) == Streams[s] # EmptyStream \/ <<s, done[s]>> \in tokens

\* A slot that is not as new holds a part of a call, unless one is just being
\* stored there.
CleanInv == \A s \in Slots : Clear(s) /\ Soiled(s) =>
    \/ \E d \in Dirs : Streams[s][d].parts # {}
    \/ \E d \in Dirs : pc[d] = "store" /\ S(d) = s

\* When only requests are recorded, no slot is ever raced.
RacedInv == ~ RecordResponse => raced = {}

\* What every reachable state satisfies.
IndInv == /\ TypeInv /\ SentInv /\ QueueInv /\ SlotInv /\ PartsInv /\ OwnInv
          /\ CallInv /\ HandlerInv /\ EndInv /\ TokenInv
          /\ MsgInv /\ EmittedInv /\ AtMostOnce /\ CleanInv /\ RacedInv
(* Frames and calls. *)

\* The two directions, and the one whose goroutine finishes a call.
LEMMA DirFacts == Dirs = {"in", "out"} /\ Finisher \in Dirs /\ "in" # "out"
  BY DEF Dirs, Finisher

\* No call has the stream id of a connection frame, and each falls on a slot.
LEMMA CallFacts == /\ 0 \notin Calls
                   /\ \A r \in Calls : r \in Nat /\ SlotOf(r) \in Slots
  BY ConnAssumption DEF Calls, SlotOf, Slots

\* The fields and the ranks of the frames.
LEMMA FrameFacts ==
  ASSUME NEW d \in Dirs, NEW r
  PROVE  /\ First(d, r).id = r /\ ~ First(d, r).end /\ Rank(First(d, r)) = 1
         /\ First(d, r).kind = IF d = "in" THEN "headers" ELSE "data"
         /\ Second(d, r).id = r /\ Second(d, r).end /\ Rank(Second(d, r)) = 2
         /\ Second(d, r).kind = IF d = "in" THEN "data" ELSE "trailers"
         /\ RST(r).id = r /\ RST(r).kind = "rst" /\ Rank(RST(r)) = 3
         /\ GoAway.id = 0 /\ GoAway.kind = "goaway" /\ NoFrame.id = 0
         /\ NoFrame.kind = "none"
  BY DEF First, Second, RST, GoAway, NoFrame, Frame, Rank, Dirs

\* The frames that belong to no call.
LEMMA NoCall == /\ NoFrame.id = 0 /\ GoAway.id = 0
                /\ \A r \in Calls : NoFrame.id # r /\ GoAway.id # r
  BY CallFacts DEF NoFrame, GoAway, Frame

\* The fields of a call's frames have the types the handlers expect.
LEMMA FrameEnds ==
  ASSUME NEW d \in Dirs, NEW f \in CallFrames(d)
  PROVE  f.end \in BOOLEAN /\ f.kind \in {"headers", "data", "trailers"}
  <1>1. PICK r \in Calls : f = First(d, r) \/ f = Second(d, r)
    BY DEF CallFrames
  <1>2. f.kind \in {"headers", "data", "trailers"}
    BY <1>1, FrameFacts
  <1>3. ASSUME NEW i, NEW k, NEW e \in BOOLEAN PROVE Frame(i, k, e).end \in BOOLEAN
    BY DEF Frame
  <1>4. f.end \in BOOLEAN
    <2>1. /\ Frame(r, "headers", FALSE).end \in BOOLEAN
          /\ Frame(r, "data", FALSE).end \in BOOLEAN
          /\ Frame(r, "data", TRUE).end \in BOOLEAN
          /\ Frame(r, "trailers", TRUE).end \in BOOLEAN
      BY <1>3
    <2> QED BY <1>1, <2>1, Zenon DEF First, Second
  <1> QED BY <1>2, <1>4

\* Everything in a queue but GOAWAY is the first or the second frame of a call,
\* or its RST.
LEMMA FrameCases ==
  ASSUME NEW d \in Dirs, NEW f \in InFrames(d)
  PROVE  /\ f.id \in Calls
         /\ f # GoAway /\ f # NoFrame
         /\ \/ f = First(d, f.id) /\ f \in CallFrames(d)
            \/ f = Second(d, f.id) /\ f \in CallFrames(d)
            \/ d = "in" /\ f = RST(f.id)
  <1>1. \/ \E r \in Calls : f = First(d, r) /\ f \in CallFrames(d)
        \/ \E r \in Calls : f = Second(d, r) /\ f \in CallFrames(d)
        \/ d = "in" /\ \E r \in Calls : f = RST(r)
    BY DEF InFrames, CallFrames
  <1> QED BY <1>1, FrameFacts, CallFacts

\* The frames by direction.
LEMMA FrameSets ==
  ASSUME NEW d \in Dirs
  PROVE  /\ \A r \in Calls : /\ First(d, r) \in CallFrames(d)
                              /\ Second(d, r) \in CallFrames(d)
                              /\ RST(r) \in InFrames("in")
         /\ CallFrames(d) \subseteq InFrames(d)
  BY DEF CallFrames, InFrames

\* A call has two frames in each direction.
LEMMA ScriptFacts ==
  ASSUME NEW d \in Dirs, NEW r
  PROVE  /\ Len(Script(d, r)) = 2
         /\ Script(d, r)[1] = First(d, r) /\ Script(d, r)[2] = Second(d, r)
         /\ DOMAIN Script(d, r) = 1 .. 2
  BY DEF Script, First, Second, Dirs

\* What a slot collects of one call and direction.
LEMMA PartsFacts ==
  ASSUME NEW d \in Dirs, NEW r
  PROVE  PartsOf(d, r) = {<<r, First(d, r).kind>>, <<r, Second(d, r).kind>>}
  <1>1. PartsOf(d, r) = {<<r, Script(d, r)[i].kind>> : i \in 1 .. 2}
    BY ScriptFacts DEF PartsOf
  <1> QED BY <1>1, ScriptFacts

\* One side of a call has ended when both its frames are sent.
LEMMA EndedFacts ==
  ASSUME NEW d \in Dirs, NEW r
  PROVE  Ended(d, r) <=> sent[d][r] = 2
  BY ScriptFacts DEF Ended

-----------------------------------------------------------------------------
(* The queues. *)

\* Handled, by the frames in the queue.
LEMMA HandledFacts ==
  ASSUME NEW d, NEW r
  PROVE  Handled(d, r) <=> (\A f : InQ(d, f) => f.id # r) /\ frame[d].id # r
  BY DEF Handled, InQ

\* The first element of a queue and the rest.
LEMMA HeadTail ==
  ASSUME NEW T, NEW q \in Seq(T), q # <<>>
  PROVE  /\ Head(q) = q[1] /\ q[1] \in T
         /\ DOMAIN q = 1 .. Len(q) /\ Len(q) \in Nat \ {0}
         /\ DOMAIN Tail(q) = 1 .. Len(q) - 1
         /\ \A i \in 1 .. Len(q) - 1 : Tail(q)[i] = q[i + 1]
  OBVIOUS

\* A queue with one more element.
LEMMA AtEnd ==
  ASSUME NEW T, NEW q \in Seq(T), NEW f
  PROVE  /\ DOMAIN q = 1 .. Len(q) /\ Len(q) \in Nat
         /\ DOMAIN Append(q, f) = 1 .. Len(q) + 1
         /\ \A i \in 1 .. Len(q) : Append(q, f)[i] = q[i]
         /\ Append(q, f)[Len(q) + 1] = f
  OBVIOUS

\* A queue holds frames of its own direction.
LEMMA QueueType ==
  ASSUME TypeInv, NEW d \in Dirs
  PROVE  /\ queue[d] \in Seq(InFrames(d) \cup {GoAway})
         /\ DOMAIN queue[d] = 1 .. Len(queue[d])
         /\ \A i \in DOMAIN queue[d] : queue[d][i] \in InFrames(d) \cup {GoAway}
  <1>1. queue[d] \in Seq(InFrames(d) \cup {GoAway})
    BY DEF TypeInv, QueuesType
  <1> QED BY <1>1

\* What is in a queue after a frame has been captured.
LEMMA AppendQ ==
  ASSUME TypeInv, NEW d \in Dirs, NEW f, queue' = [queue EXCEPT ![d] = Append(@, f)]
  PROVE  /\ \A g : InQ(d, g)' <=> InQ(d, g) \/ g = f
         /\ \A e \in Dirs \ {d} : queue'[e] = queue[e]
         /\ Len(queue'[d]) = Len(queue[d]) + 1
         /\ queue'[d][Len(queue[d]) + 1] = f
         /\ \A i \in DOMAIN queue[d] : queue'[d][i] = queue[d][i]
         /\ DOMAIN queue[d] = 1 .. Len(queue[d])
         /\ DOMAIN queue'[d] = 1 .. Len(queue[d]) + 1
         /\ Len(queue[d]) \in Nat
  <1>1. /\ queue'[d] = Append(queue[d], f) /\ queue[d] \in Seq(InFrames(d) \cup {GoAway})
        /\ \A e \in Dirs \ {d} : queue'[e] = queue[e]
    BY DEF TypeInv, QueuesType
  <1>2. DOMAIN queue'[d] = 1 .. Len(queue[d]) + 1
    BY <1>1
  <1>3. Len(queue[d]) \in Nat /\ DOMAIN queue[d] = 1 .. Len(queue[d])
    BY <1>1
  <1>4. /\ queue'[d][Len(queue[d]) + 1] = f
        /\ \A i \in DOMAIN queue[d] : queue'[d][i] = queue[d][i]
    BY <1>1, <1>3
  <1>5. \A g : InQ(d, g)' <=> InQ(d, g) \/ g = f
    BY <1>2, <1>3, <1>4 DEF InQ
  <1> QED BY <1>1, <1>2, <1>3, <1>4, <1>5

\* What is in a queue after a frame has been taken.
LEMMA TailQ ==
  ASSUME TypeInv, NEW d \in Dirs, queue[d] # <<>>,
         queue' = [queue EXCEPT ![d] = Tail(@)]
  PROVE  /\ \A g : InQ(d, g) <=> InQ(d, g)' \/ g = Head(queue[d])
         /\ Head(queue[d]) \in InFrames(d) \cup {GoAway}
         /\ \A e \in Dirs \ {d} : queue'[e] = queue[e]
         /\ Head(queue[d]) = queue[d][1]
         /\ DOMAIN queue[d] = 1 .. Len(queue[d])
         /\ DOMAIN queue'[d] = 1 .. Len(queue[d]) - 1
         /\ \A i \in DOMAIN queue'[d] : queue'[d][i] = queue[d][i + 1]
         /\ Len(queue[d]) \in Nat \ {0}
  <1>1. queue'[d] = Tail(queue[d]) /\ \A e \in Dirs \ {d} : queue'[e] = queue[e]
    BY DEF TypeInv, QueuesType
  <1>2. /\ Head(queue[d]) = queue[d][1] /\ queue[d][1] \in InFrames(d) \cup {GoAway}
        /\ DOMAIN queue[d] = 1 .. Len(queue[d]) /\ Len(queue[d]) \in Nat \ {0}
        /\ DOMAIN queue'[d] = 1 .. Len(queue[d]) - 1
        /\ \A i \in 1 .. Len(queue[d]) - 1 : queue'[d][i] = queue[d][i + 1]
    <2>1. queue[d] \in Seq(InFrames(d) \cup {GoAway})
      BY QueueType
    <2> DEFINE q == queue[d]
    <2>2. q \in Seq(InFrames(d) \cup {GoAway}) /\ q # <<>>
      BY <2>1
    <2> HIDE DEF q
    <2>3. /\ Head(q) = q[1] /\ q[1] \in InFrames(d) \cup {GoAway}
          /\ DOMAIN q = 1 .. Len(q) /\ Len(q) \in Nat \ {0}
          /\ DOMAIN Tail(q) = 1 .. Len(q) - 1
          /\ \A i \in 1 .. Len(q) - 1 : Tail(q)[i] = q[i + 1]
      BY <2>2, HeadTail
    <2> QED BY <1>1, <2>3, Zenon DEF q
  <1>3. ASSUME NEW g PROVE InQ(d, g) <=> InQ(d, g)' \/ g = Head(queue[d])
    <2>1. ASSUME NEW i \in DOMAIN queue'[d], queue'[d][i] = g PROVE InQ(d, g)
      <3>1. i + 1 \in DOMAIN queue[d] /\ queue[d][i + 1] = g
        BY <1>2, <2>1
      <3> QED BY <3>1 DEF InQ
    <2>2. g = Head(queue[d]) => InQ(d, g)
      BY <1>2 DEF InQ
    <2>3. ASSUME NEW i \in DOMAIN queue[d], queue[d][i] = g, i # 1
          PROVE  InQ(d, g)'
      <3>1. i - 1 \in DOMAIN queue'[d] /\ queue'[d][i - 1] = g
        BY <1>2, <2>3
      <3> QED BY <3>1 DEF InQ
    <2> QED BY <2>1, <2>2, <2>3, <1>2 DEF InQ
  <1> QED BY <1>1, <1>2, <1>3

\* A queue that does not change keeps its frames.
LEMMA SameQ ==
  ASSUME NEW d, queue'[d] = queue[d]
  PROVE  \A g : InQ(d, g)' <=> InQ(d, g)
  BY DEF InQ

\* What is in a queue is a frame of its direction.
LEMMA QType ==
  ASSUME TypeInv, NEW d \in Dirs, NEW g, InQ(d, g)
  PROVE  g \in InFrames(d) \cup {GoAway}
  BY QueueType DEF InQ

\* Every queued frame was sent, and comes after the frame being handled and
\* after those of its call before it.
LEMMA QFacts ==
  ASSUME TypeInv, QueueInv, NEW d \in Dirs, NEW g, InQ(d, g), g # GoAway
  PROVE  /\ g \in InFrames(d)
         /\ WasSent(d, g)
         /\ frame[d].id = g.id => Rank(frame[d]) < Rank(g)
  BY QType DEF QueueInv, Behind, InQ

\* The frame that is taken comes before those of its call left behind.
LEMMA HeadFirst ==
  ASSUME TypeInv, QueueInv, NEW d \in Dirs, queue[d] # <<>>,
         queue' = [queue EXCEPT ![d] = Tail(@)], Head(queue[d]) # GoAway,
         NEW g, InQ(d, g)', g.id = Head(queue[d]).id
  PROVE  Rank(Head(queue[d])) < Rank(g)
  <1>1. PICK i \in DOMAIN queue'[d] : queue'[d][i] = g
    BY DEF InQ
  <1>a. /\ DOMAIN queue[d] = 1 .. Len(queue[d])
        /\ DOMAIN queue'[d] = 1 .. Len(queue[d]) - 1
        /\ \A j \in DOMAIN queue'[d] : queue'[d][j] = queue[d][j + 1]
        /\ Len(queue[d]) \in Nat \ {0} /\ Head(queue[d]) = queue[d][1]
    BY TailQ
  <1>2. /\ 1 \in DOMAIN queue[d] /\ i + 1 \in DOMAIN queue[d] /\ 1 < i + 1
        /\ queue[d][1] = Head(queue[d]) /\ queue[d][i + 1] = g
    BY <1>1, <1>a
  <1>3. Rank(queue[d][1]) < Rank(queue[d][i + 1])
    BY <1>2 DEF QueueInv, Ordered
  <1> QED BY <1>2, <1>3
-----------------------------------------------------------------------------
(* The slots. *)

\* Storing a frame adds its part and removes none of another kind.
LEMMA StoredFacts ==
  ASSUME NEW P, NEW f
  PROVE  /\ <<f.id, f.kind>> \in Stored(P, f)
         /\ \A p \in Stored(P, f) : p \in P \/ p = <<f.id, f.kind>>
         /\ \A p \in P : p[2] = "data" \/ p[2] # f.kind => p \in Stored(P, f)
  BY DEF Stored

\* A slot that is as new.
LEMMA EmptyFacts ==
  /\ EmptyStream \in [Dirs -> Item]
  /\ \A d \in Dirs : EmptyStream[d] = EmptyItem
  /\ EmptyItem.parts = {} /\ EmptyItem.end = FALSE
  BY DEF EmptyStream, EmptyItem, Item

\* A reset slot gets a channel that no goroutine holds and no token is in.
LEMMA NewDoneFacts ==
  ASSUME TypeInv, NEW s \in Slots, NewDone(s)
  PROVE  /\ done' \in [Slots -> 0 .. 2]
         /\ \A t \in Slots \ {s} : done'[t] = done[t]
         /\ tokens' \subseteq tokens
         /\ \A t \in tokens : t[1] # s => t \in tokens'
         /\ <<s, done'[s]>> \notin tokens'
  <1> DEFINE Free(n) == \A d \in Dirs : ch[d] # <<s, n>>
  <1>1. \E n \in 0 .. 2 : Free(n)
    <2>1. \/ ch["in"] # <<s, 0>> /\ ch["out"] # <<s, 0>>
          \/ ch["in"] # <<s, 1>> /\ ch["out"] # <<s, 1>>
          \/ ch["in"] # <<s, 2>> /\ ch["out"] # <<s, 2>>
      OBVIOUS
    <2> QED BY <2>1 DEF Dirs
  <1> DEFINE n == CHOOSE k \in 0 .. 2 : Free(k)
  <1>2. n \in 0 .. 2 /\ Free(n)
    BY <1>1
  <1>3. done \in [Slots -> 0 .. 2] /\ done' = [done EXCEPT ![s] = n]
    BY DEF TypeInv, HandlerType, TypeOK, NewDone
  <1>4. tokens' = {t \in tokens : t[1] # s \/ \E d \in Dirs : ch[d] = t}
    BY DEF NewDone
  <1> HIDE DEF n
  <1>5. done' \in [Slots -> 0 .. 2] /\ done'[s] = n
        /\ \A t \in Slots \ {s} : done'[t] = done[t]
    BY <1>2, <1>3
  <1>6. <<s, n>> \notin tokens'
    BY <1>2, <1>4
  <1> QED BY <1>4, <1>5, <1>6

\* Reset touches one slot and gives it a new done channel.
LEMMA ResetFacts ==
  ASSUME TypeInv, NEW s \in Slots, Reset(s)
  PROVE  /\ Streams' \in [Slots -> [Dirs -> Item]]
         /\ Streams'[s] = EmptyStream
         /\ \A d \in Dirs : Streams'[s][d].parts = {} /\ Streams'[s][d].end = FALSE
         /\ \A t \in Slots \ {s} : Streams'[t] = Streams[t]
         /\ NewDone(s)
  BY EmptyFacts DEF TypeInv, HandlerType, TypeOK, Reset

-----------------------------------------------------------------------------
(* What the steps do to the state. *)

\* Take, by the kind of the frame.
TakeFrame(d, f) == /\ Streams' = [Streams EXCEPT ![SlotOf(f.id)][d].end = f.end]
                   /\ frame' = [frame EXCEPT ![d] = f]
                   /\ Goto(d, "store")
                   /\ UNCHANGED <<done, tokens, registered>>
TakeReset(r) == /\ Reset(SlotOf(r))
                /\ UNCHANGED <<frame, pc, registered>>
TakeGoAway == /\ registered' = FALSE
              /\ UNCHANGED <<Streams, done, tokens, frame, pc>>

\* What Take does depends on the kind of the frame, which is one of three.
LEMMA TakeCases ==
  ASSUME TypeInv, NEW d \in Dirs, Take(d)
  PROVE  \/ /\ Head(queue[d]) \in CallFrames(d)
            /\ TakeFrame(d, Head(queue[d]))
         \/ /\ d = "in"
            /\ \E r \in Calls : Head(queue[d]) = RST(r) /\ TakeReset(r)
         \/ /\ Head(queue[d]) = GoAway
            /\ TakeGoAway
  <1> DEFINE f == Head(queue[d])
  <1>1. /\ \/ /\ f.kind \in {"headers", "data", "trailers"}
              /\ TakeFrame(d, f)
           \/ /\ f.kind = "rst"
              /\ TakeReset(f.id)
           \/ /\ f.kind = "goaway"
              /\ TakeGoAway
        /\ queue[d] # <<>>
        /\ queue' = [queue EXCEPT ![d] = Tail(@)]
    BY Zenon DEF Take, TakeFrame, TakeReset, TakeGoAway
  <1>2. f \in InFrames(d) \cup {GoAway}
    BY <1>1, TailQ
  <1> HIDE DEF f
  <1>3. CASE f = GoAway
    BY <1>1, <1>3, FrameFacts DEF f
  <1>4. CASE f \in InFrames(d)
    <2>1. /\ f.id \in Calls
          /\ \/ f = First(d, f.id) /\ f \in CallFrames(d)
             \/ f = Second(d, f.id) /\ f \in CallFrames(d)
             \/ d = "in" /\ f = RST(f.id)
      BY <1>4, FrameCases
    <2>2. f \in CallFrames(d) => f.kind \in {"headers", "data", "trailers"}
      BY DEF CallFrames, First, Second, Frame
    <2>3. CASE f \in CallFrames(d)
      BY <1>1, <2>2, <2>3 DEF f
    <2>4. CASE d = "in" /\ f = RST(f.id)
      <3>1. f.kind = "rst" /\ f.id \in Calls
        BY <2>1, <2>4, FrameFacts
      <3> QED BY <1>1, <3>1, <2>4 DEF f
    <2> QED BY <2>1, <2>3, <2>4
  <1> QED BY <1>2, <1>3, <1>4

\* A captured frame is queued.
LEMMA CaptureFacts ==
  ASSUME TypeInv, NEW d \in Dirs, NEW f, Capture(d, f)
  PROVE  \A e \in Dirs : \A g : InQ(e, g)' <=> InQ(e, g) \/ (e = d /\ g = f)
  <1>1. queue' = [queue EXCEPT ![d] = Append(@, f)]
    BY DEF Capture
  <1>2. /\ \A g : InQ(d, g)' <=> InQ(d, g) \/ g = f
        /\ \A e \in Dirs \ {d} : queue'[e] = queue[e]
    BY <1>1, AppendQ
  <1>3. ASSUME NEW e \in Dirs \ {d} PROVE \A g : InQ(e, g)' <=> InQ(e, g)
    BY <1>2, SameQ
  <1> QED BY <1>2, <1>3

NextIn(r) == IF sent["in"][r] = 0 THEN First("in", r) ELSE Second("in", r)
NextOut(r) == IF sent["out"][r] = 0 THEN First("out", r) ELSE Second("out", r)

\* How many frames were sent.
LEMMA SentType ==
  ASSUME TypeInv
  PROVE  /\ \A d \in Dirs, r \in Calls : sent[d][r] \in 0 .. 2
         /\ sent \in [Dirs -> [Calls -> 0 .. 2]]
  BY DEF TypeInv, NetType

\* The client's next frame.
LEMMA RequestFacts ==
  ASSUME TypeInv, NEW r \in Calls, Request(r)
  PROVE  /\ Capture("in", NextIn(r)) /\ NextIn(r) \in CallFrames("in")
         /\ NextIn(r).id = r /\ Rank(NextIn(r)) = sent["in"][r] + 1
         /\ NextIn(r) # GoAway
         /\ sent["in"][r] \in {0, 1} /\ sent'["in"][r] = sent["in"][r] + 1
         /\ \A q \in Calls \ {r} : sent'["in"][q] = sent["in"][q]
         /\ sent'["out"] = sent["out"]
         /\ sent' \in [Dirs -> [Calls -> 0 .. 2]]
         /\ r \notin cancelled
         /\ sent["in"][r] = 0 => MayStart(r)
         /\ RecordResponse' = RecordResponse /\ code' = code
         /\ cancelled' = cancelled /\ hist' = hist
  <1>1. sent["in"][r] \in {0, 1}
    BY SentType, EndedFacts DEF Request, Dirs
  <1>2. Script("in", r)[sent["in"][r] + 1] = NextIn(r)
    BY <1>1, ScriptFacts DEF NextIn, Dirs
  <1>3. /\ NextIn(r) \in CallFrames("in") /\ NextIn(r).id = r
        /\ Rank(NextIn(r)) = sent["in"][r] + 1
    BY <1>1, FrameFacts, FrameSets DEF NextIn, Dirs
  <1>4. /\ sent'["in"][r] = sent["in"][r] + 1
        /\ \A q \in Calls \ {r} : sent'["in"][q] = sent["in"][q]
        /\ sent'["out"] = sent["out"]
        /\ sent' \in [Dirs -> [Calls -> 0 .. 2]]
    BY <1>1, SentType DEF Request, Dirs
  <1>5. NextIn(r) # GoAway
    BY <1>3, FrameFacts, CallFacts, DirFacts
  <1> QED BY <1>1, <1>2, <1>3, <1>4, <1>5 DEF Request, vars, code, net, hist

\* The server's next frame.
LEMMA RespondFacts ==
  ASSUME TypeInv, NEW r \in Calls, Respond(r)
  PROVE  /\ IF RecordResponse THEN Capture("out", NextOut(r))
                              ELSE queue' = queue
         /\ NextOut(r) \in CallFrames("out")
         /\ NextOut(r).id = r /\ Rank(NextOut(r)) = sent["out"][r] + 1
         /\ NextOut(r) # GoAway
         /\ sent["out"][r] \in {0, 1} /\ sent'["out"][r] = sent["out"][r] + 1
         /\ \A q \in Calls \ {r} : sent'["out"][q] = sent["out"][q]
         /\ sent'["in"] = sent["in"] /\ sent["in"][r] = 2
         /\ sent' \in [Dirs -> [Calls -> 0 .. 2]]
         /\ RecordResponse' = RecordResponse /\ code' = code
         /\ cancelled' = cancelled /\ hist' = hist
  <1>1. sent["out"][r] \in {0, 1} /\ sent["in"][r] = 2
    BY SentType, EndedFacts DEF Respond, Dirs
  <1>2. Script("out", r)[sent["out"][r] + 1] = NextOut(r)
    BY <1>1, ScriptFacts DEF NextOut, Dirs
  <1>3. /\ NextOut(r) \in CallFrames("out") /\ NextOut(r).id = r
        /\ Rank(NextOut(r)) = sent["out"][r] + 1
        /\ sent["out"][r] = 1 => NextOut(r).end
    BY <1>1, FrameFacts, FrameSets DEF NextOut, Dirs
  <1>4. /\ sent'["out"][r] = sent["out"][r] + 1
        /\ \A q \in Calls \ {r} : sent'["out"][q] = sent["out"][q]
        /\ sent'["in"] = sent["in"]
        /\ sent' \in [Dirs -> [Calls -> 0 .. 2]]
    BY <1>1, SentType DEF Respond, Dirs
  <1>5. NextOut(r) # GoAway
    BY <1>3, FrameFacts, CallFacts, DirFacts
  <1> QED BY <1>1, <1>2, <1>3, <1>4, <1>5 DEF Respond, vars, code, net, hist

\* A cancellation.
LEMMA CancelFacts ==
  ASSUME TypeInv, NEW r \in Calls, Cancel(r)
  PROVE  /\ Capture("in", RST(r)) /\ RST(r).id = r
         /\ r \notin cancelled /\ cancelled' = cancelled \cup {r}
         /\ sent["in"][r] > 0
         /\ \A q \in Calls : r < q /\ SlotOf(q) = SlotOf(r) => sent["in"][q] = 0
         /\ RecordResponse' = RecordResponse /\ code' = code
         /\ sent' = sent /\ hist' = hist
  <1>1. \A q \in Calls : r < q => q \in r + 1 .. NStreams
    BY ConnAssumption DEF Calls
  <1> QED BY <1>1, FrameFacts, DirFacts DEF Cancel

-----------------------------------------------------------------------------
(* Types. *)

\* Queues stay sequences of frames.
LEMMA InSeq ==
  ASSUME NEW T, NEW q \in Seq(T)
  PROVE  /\ \A f \in T : Append(q, f) \in Seq(T)
         /\ q # <<>> => Tail(q) \in Seq(T)
  OBVIOUS

\* A captured frame keeps the types of the queues.
LEMMA CaptureType ==
  ASSUME TypeInv, NEW d \in Dirs, NEW f \in InFrames(d) \cup {GoAway}, Capture(d, f),
         RecordResponse' = RecordResponse, ~ RecordResponse => d = "in"
  PROVE  QueuesType'
  <1>1. /\ queue[d] \in Seq(InFrames(d) \cup {GoAway})
        /\ queue \in [Dirs -> Seq(InFrames("in") \cup InFrames("out") \cup {GoAway})]
        /\ queue[d] \in Seq(InFrames("in") \cup InFrames("out") \cup {GoAway})
    BY DEF TypeInv, QueuesType
  <1>2. queue' = [queue EXCEPT ![d] = Append(@, f)]
    BY DEF Capture
  <1>3. f \in InFrames("in") \cup InFrames("out") \cup {GoAway}
    BY DirFacts
  <1>4. /\ Append(queue[d], f) \in Seq(InFrames(d) \cup {GoAway})
        /\ Append(queue[d], f) \in Seq(InFrames("in") \cup InFrames("out") \cup {GoAway})
    BY <1>1, <1>3, InSeq
  <1> QED BY <1>1, <1>2, <1>4, DirFacts DEF TypeInv, QueuesType

\* A frame taken keeps the types of the queues.
LEMMA TakeType ==
  ASSUME TypeInv, NEW d \in Dirs, Take(d)
  PROVE  QueuesType'
  <1>1. /\ queue[d] \in Seq(InFrames(d) \cup {GoAway})
        /\ queue \in [Dirs -> Seq(InFrames("in") \cup InFrames("out") \cup {GoAway})]
        /\ queue[d] \in Seq(InFrames("in") \cup InFrames("out") \cup {GoAway})
    BY DEF TypeInv, QueuesType
  <1>2. queue[d] # <<>> /\ queue' = [queue EXCEPT ![d] = Tail(@)]
    BY DEF Take
  <1>3. /\ Tail(queue[d]) \in Seq(InFrames(d) \cup {GoAway})
        /\ Tail(queue[d]) \in Seq(InFrames("in") \cup InFrames("out") \cup {GoAway})
    BY <1>1, <1>2, InSeq
  <1>5. RecordResponse' = RecordResponse
    BY DEF Take
  <1>6. \A e \in Dirs : queue'[e] \in Seq(InFrames(e) \cup {GoAway})
    BY <1>1, <1>2, <1>3 DEF TypeInv, QueuesType
  <1>7. queue' \in [Dirs -> Seq(InFrames("in") \cup InFrames("out") \cup {GoAway})]
    BY <1>1, <1>2, <1>3
  <1>8. ~ RecordResponse => queue'["out"] = <<>>
    BY <1>1, <1>2, DirFacts DEF TypeInv, QueuesType
  <1> QED BY <1>5, <1>6, <1>7, <1>8 DEF TypeInv, QueuesType

\* A step of the network keeps the types of the goroutines' state.
LEMMA CodeSame ==
  ASSUME HandlerType, code' = code, RecordResponse' = RecordResponse, hist' = hist
  PROVE  HandlerType'
  BY DEF HandlerType, TypeOK, code, hist, S

\* A goroutine that is at a frame is at a slot.
LEMMA SlotFacts ==
  ASSUME HandlerType, NEW d \in Dirs, pc[d] # "idle"
  PROVE  /\ frame[d] \in CallFrames(d) /\ frame[d].id \in Calls /\ S(d) \in Slots
         /\ frame[d].kind \in {"headers", "data", "trailers"}
         /\ frame[d].end \in BOOLEAN
         /\ frame[d] # NoFrame
  <1>1. frame[d] \in CallFrames(d)
    BY DEF HandlerType
  <1>2. frame[d].id \in Calls /\ frame[d] # NoFrame
    BY <1>1, FrameSets, FrameCases, CallFacts
  <1> QED BY <1>1, <1>2, CallFacts, FrameEnds DEF S

\* The steps of the network keep the types.
LEMMA NetSteps ==
  ASSUME TypeInv,
         \/ \E r \in Calls : Request(r) \/ Respond(r) \/ Cancel(r)
         \/ \E d \in Dirs : SayGoAway(d)
  PROVE  TypeInv'
  <1>1. ASSUME NEW r \in Calls, Request(r) PROVE TypeInv'
    <2>1. QueuesType'
      BY <1>1, RequestFacts, FrameSets, CaptureType, DirFacts DEF code
    <2>2. NetType'
      BY <1>1, RequestFacts DEF TypeInv, NetType
    <2> QED BY <1>1, <2>1, <2>2, RequestFacts, CodeSame DEF TypeInv
  <1>2. ASSUME NEW r \in Calls, Respond(r) PROVE TypeInv'
    <2>1. QueuesType'
      <3>1. CASE RecordResponse
        BY <1>2, <3>1, RespondFacts, FrameSets, CaptureType, DirFacts DEF code
      <3>2. CASE ~ RecordResponse
        BY <1>2, <3>2, RespondFacts, CodeSame DEF code, QueuesType, TypeInv
      <3> QED BY <3>1, <3>2
    <2>2. NetType'
      BY <1>2, RespondFacts DEF TypeInv, NetType
    <2> QED BY <1>2, <2>1, <2>2, RespondFacts, CodeSame DEF TypeInv
  <1>3. ASSUME NEW r \in Calls, Cancel(r) PROVE TypeInv'
    <2>1. QueuesType'
      BY <1>3, CancelFacts, FrameSets, CaptureType, DirFacts DEF code
    <2>2. NetType'
      BY <1>3, CancelFacts DEF TypeInv, NetType
    <2> QED BY <1>3, <2>1, <2>2, CancelFacts, CodeSame DEF TypeInv
  <1>4. ASSUME NEW d \in Dirs, SayGoAway(d) PROVE TypeInv'
    <2>1. Capture(d, GoAway) /\ code' = code /\ RecordResponse' = RecordResponse
          /\ hist' = hist /\ sent' = sent /\ cancelled' = cancelled
          /\ (d = "out" => RecordResponse)
      BY <1>4 DEF SayGoAway
    <2>2. QueuesType'
      BY <2>1, CaptureType, DirFacts DEF code
    <2>3. NetType'
      BY <2>1 DEF TypeInv, NetType
    <2> QED BY <2>1, <2>2, <2>3, CodeSame DEF TypeInv
  <1> QED BY <1>1, <1>2, <1>3, <1>4

\* A step of a goroutine that takes no frame keeps the network's types.
LEMMA NetSame ==
  ASSUME TypeInv, queue' = queue, sent' = sent, cancelled' = cancelled,
         RecordResponse' = RecordResponse
  PROVE  QueuesType' /\ NetType'
  BY DEF TypeInv, QueuesType, NetType

Places == {"idle", "store", "signal", "put", "check", "wait", "finish", "send", "reset"}

\* The types of what the handlers work on, and of where they are.
DataType == /\ RecordResponse \in BOOLEAN
            /\ Streams \in [Slots -> [Dirs -> Item]]
            /\ done \in [Slots -> 0 .. 2]
            /\ tokens \subseteq Channels
            /\ ch \in [Dirs -> Channels \cup {NoChan}]
            /\ msg \in [Dirs -> Message]
            /\ OutputChan \in Seq(Message) /\ Len(OutputChan) <= OutputCap
            /\ emitted \in Seq(Message)
            /\ registered \in BOOLEAN
            /\ raced \subseteq Slots

PlaceType == /\ pc \in [Dirs -> Places]
             /\ pc["out"] \notin {"signal", "put"}
             /\ frame \in [Dirs -> CallFrames("in") \cup CallFrames("out") \cup {NoFrame}]
             /\ \A d \in Dirs : /\ frame[d] \in CallFrames(d) \cup {NoFrame}
                                /\ pc[d] = "idle" <=> frame[d] = NoFrame
             /\ ~ RecordResponse => pc["out"] = "idle" /\ pc["in"] # "wait"

PutType == pc["in"] = "put" => ch["in"] \in Channels /\ ch["in"][1] = S("in")

\* The three of them together.
LEMMA TypeParts == HandlerType <=> DataType /\ PlaceType /\ PutType
  BY DEF HandlerType, TypeOK, DataType, PlaceType, PutType, Places, Channels

\* Where a goroutine is after a step, and with which frame.
LEMMA PlaceStep ==
  ASSUME PlaceType, RecordResponse' = RecordResponse, NEW d \in Dirs,
         NEW l \in Places, pc' = [pc EXCEPT ![d] = l],
         NEW f \in CallFrames(d) \cup {NoFrame}, frame' = [frame EXCEPT ![d] = f],
         l = "idle" <=> f = NoFrame,
         d = "out" => l \notin {"signal", "put"} /\ (RecordResponse \/ l = "idle"),
         l = "wait" => RecordResponse
  PROVE  PlaceType'
  <1>1. f \in CallFrames("in") \cup CallFrames("out") \cup {NoFrame}
    BY DirFacts
  <1>2. pc \in [Dirs -> Places] /\ d \in Dirs
    BY DEF PlaceType
  <1>3. /\ pc'[d] = l /\ \A e \in Dirs \ {d} : pc'[e] = pc[e]
        /\ pc' \in [Dirs -> Places]
    BY <1>2
  <1>4. /\ frame'[d] = f /\ \A e \in Dirs \ {d} : frame'[e] = frame[e]
        /\ frame' \in [Dirs -> CallFrames("in") \cup CallFrames("out") \cup {NoFrame}]
    BY <1>1 DEF PlaceType
  <1> QED BY <1>3, <1>4, DirFacts DEF PlaceType

\* A goroutine that keeps its frame.
LEMMA PlaceMove ==
  ASSUME HandlerType, RecordResponse' = RecordResponse, frame' = frame, NEW d \in Dirs,
         pc[d] # "idle", NEW l \in Places \ {"idle"}, Goto(d, l),
         l \in {"signal", "put"} => d = "in", l = "wait" => RecordResponse
  PROVE  PlaceType'
  <1>1. PlaceType /\ frame[d] \in CallFrames(d) /\ frame[d] # NoFrame
    BY TypeParts, SlotFacts
  <1>2. frame' = [frame EXCEPT ![d] = frame[d]] /\ pc' = [pc EXCEPT ![d] = l]
    BY <1>1 DEF PlaceType, Goto
  <1>3. d = "out" => RecordResponse
    BY <1>1 DEF PlaceType
  <1> QED BY <1>1, <1>2, <1>3, PlaceStep

\* A goroutine back in its frame loop.
LEMMA PlaceReturn ==
  ASSUME HandlerType, RecordResponse' = RecordResponse, NEW d \in Dirs, Return(d)
  PROVE  PlaceType'
  <1>1. PlaceType /\ pc' = [pc EXCEPT ![d] = "idle"] /\ frame' = [frame EXCEPT ![d] = NoFrame]
    BY TypeParts DEF Return, Goto
  <1> QED BY <1>1, PlaceStep DEF Places

\* Marking a slot.
LEMMA MarkFacts ==
  ASSUME DataType, NEW s \in Slots, NEW race \in BOOLEAN, Mark(s, race)
  PROVE  raced' \subseteq Slots /\ raced \subseteq raced' /\ (race => s \in raced')
         /\ (~ race => raced' = raced) /\ \A t \in Slots \ {s} : t \in raced' <=> t \in raced
  BY DEF Mark, DataType

\* A change of one item of a slot.
LEMMA ItemFacts ==
  ASSUME TypeInv, NEW s \in Slots, NEW d \in Dirs
  PROVE  /\ Streams \in [Slots -> [Dirs -> Item]]
         /\ Streams[s][d] \in Item
         /\ Streams[s][d].parts \subseteq Parts
  <1>1. Streams \in [Slots -> [Dirs -> Item]]
    BY DEF TypeInv, HandlerType, TypeOK
  <1>2. Streams[s][d] \in Item
    BY <1>1
  <1> QED BY <1>1, <1>2 DEF Item

LEMMA TakeStreams ==
  ASSUME TypeInv, NEW d \in Dirs, NEW f \in CallFrames(d), TakeFrame(d, f)
  PROVE  /\ Streams' \in [Slots -> [Dirs -> Item]] /\ SlotOf(f.id) \in Slots
         /\ \A t \in Slots, e \in Dirs : Streams'[t][e].parts = Streams[t][e].parts
         /\ \A t \in Slots, e \in Dirs : t # SlotOf(f.id) \/ e # d => Streams'[t][e] = Streams[t][e]
         /\ \A t \in Slots : t # SlotOf(f.id) => Streams'[t] = Streams[t]
         /\ Streams'[SlotOf(f.id)][d].end = f.end
  <1> DEFINE s == SlotOf(f.id)
  <1>1. s \in Slots /\ f.end \in BOOLEAN
    BY FrameSets, FrameCases, FrameEnds, CallFacts
  <1>2. Streams' = [Streams EXCEPT ![s][d].end = f.end]
    BY DEF TakeFrame
  <1> HIDE DEF s
  <1>3. Streams \in [Slots -> [Dirs -> Item]] /\ Streams[s][d] \in Item
    BY <1>1, ItemFacts
  <1>4. [Streams[s][d] EXCEPT !.end = f.end] \in Item
    BY <1>1, <1>3 DEF Item
  <1>5. /\ Streams' \in [Slots -> [Dirs -> Item]]
        /\ Streams'[s][d] = [Streams[s][d] EXCEPT !.end = f.end]
        /\ \A t \in Slots, e \in Dirs : t # s \/ e # d => Streams'[t][e] = Streams[t][e]
        /\ \A t \in Slots : t # s => Streams'[t] = Streams[t]
    BY <1>1, <1>2, <1>3, <1>4
  <1>6. Streams'[s][d].parts = Streams[s][d].parts
    BY <1>3, <1>5 DEF Item
  <1>7. Streams'[s][d].end = f.end
    BY <1>3, <1>5 DEF Item
  <1>8. \A t \in Slots, e \in Dirs : Streams'[t][e].parts = Streams[t][e].parts
    BY <1>5, <1>6
  <1> QED BY <1>1, <1>5, <1>7, <1>8 DEF s

\* Storing a frame changes the parts of one item.
LEMMA StoreFacts ==
  ASSUME TypeInv, NEW d \in Dirs, Store(d)
  PROVE  /\ Streams' \in [Slots -> [Dirs -> Item]]
         /\ S(d) \in Slots /\ frame[d] \in CallFrames(d) /\ frame[d].id \in Calls
         /\ \A t \in Slots, e \in Dirs : Streams'[t][e].end = Streams[t][e].end
         /\ \A t \in Slots, e \in Dirs : t # S(d) \/ e # d => Streams'[t][e] = Streams[t][e]
         /\ \A t \in Slots : t # S(d) => Streams'[t] = Streams[t]
         /\ Streams'[S(d)][d].parts = Stored(Streams[S(d)][d].parts, frame[d])
  <1>1. HandlerType /\ pc[d] # "idle"
    BY DEF TypeInv, Store
  <1>2. /\ S(d) \in Slots /\ frame[d] \in CallFrames(d) /\ frame[d].id \in Calls
        /\ frame[d].kind \in {"headers", "data", "trailers"}
    BY <1>1, SlotFacts
  <1> DEFINE s == S(d)
             P == Stored(Streams[s][d].parts, frame[d])
  <1>3. /\ Streams \in [Slots -> [Dirs -> Item]]
        /\ Streams[s][d] \in Item /\ Streams[s][d].parts \subseteq Parts
    BY <1>2, ItemFacts
  <1>4. P \subseteq Parts
    <2>1. <<frame[d].id, frame[d].kind>> \in Parts
      BY <1>2 DEF Parts
    <2> QED BY <1>3, <2>1, StoredFacts
  <1>5. Streams' = [Streams EXCEPT ![s][d].parts = P]
    BY DEF Store
  <1> HIDE DEF P
  <1>6. [Streams[s][d] EXCEPT !.parts = P] \in Item
    BY <1>3, <1>4 DEF Item
  <1>7. /\ Streams' \in [Slots -> [Dirs -> Item]]
        /\ Streams'[s][d] = [Streams[s][d] EXCEPT !.parts = P]
        /\ \A t \in Slots, e \in Dirs : t # s \/ e # d => Streams'[t][e] = Streams[t][e]
        /\ \A t \in Slots : t # s => Streams'[t] = Streams[t]
    BY <1>2, <1>3, <1>5, <1>6
  <1>8. Streams'[s][d].parts = P /\ (Streams'[s][d].end = Streams[s][d].end)
    BY <1>3, <1>7 DEF Item
  <1> QED BY <1>2, <1>7, <1>8 DEF P

\* A cancellation is of a call, and its slot exists.
LEMMA HeadFacts ==
  ASSUME TypeInv, NEW d \in Dirs, Take(d)
  PROVE  /\ queue[d] # <<>> /\ pc[d] = "idle" /\ frame[d] = NoFrame
         /\ queue' = [queue EXCEPT ![d] = Tail(@)]
         /\ Head(queue[d]) \in InFrames(d) \cup {GoAway}
         /\ Head(queue[d]).id \in Nat /\ SlotOf(Head(queue[d]).id) \in Slots
         /\ ~ RecordResponse => d = "in"
  <1>1. /\ queue[d] # <<>> /\ pc[d] = "idle" /\ queue' = [queue EXCEPT ![d] = Tail(@)]
    BY DEF Take
  <1>2. Head(queue[d]) \in InFrames(d) \cup {GoAway}
    BY <1>1, TailQ
  <1>3. Head(queue[d]).id \in Nat
    BY <1>2, FrameCases, CallFacts, FrameFacts
  <1>4. SlotOf(Head(queue[d]).id) \in Slots
    BY <1>3, ConnAssumption DEF SlotOf, Slots
  <1>5. frame[d] = NoFrame
    BY <1>1 DEF TypeInv, HandlerType
  <1>6. ~ RecordResponse => d = "in"
    BY <1>1, DirFacts DEF TypeInv, QueuesType
  <1> QED BY <1>1, <1>2, <1>3, <1>4, <1>5, <1>6

\* What taking a frame marks.
LEMMA TakeMark ==
  ASSUME TypeInv, NEW d \in Dirs, Take(d)
  PROVE  LET f == Head(queue[d])
         IN  /\ raced \subseteq raced' /\ raced' \subseteq Slots
             /\ Overtakes(d, f) \/ CutsIn(d, f) => SlotOf(f.id) \in raced'
             /\ ~ Overtakes(d, f) /\ ~ CutsIn(d, f) => raced' = raced
             /\ \A t \in Slots : t # SlotOf(f.id) => (t \in raced' <=> t \in raced)
  <1> DEFINE f == Head(queue[d])
             race == Overtakes(d, f) \/ CutsIn(d, f)
  <1>1. Mark(SlotOf(f.id), race)
    BY DEF Take
  <1>2. SlotOf(f.id) \in Slots /\ DataType
    BY HeadFacts, TypeParts DEF TypeInv
  <1>3. race \in BOOLEAN
    BY DEF Overtakes, CutsIn
  <1> HIDE DEF f, race
  <1>4. /\ raced' \subseteq Slots /\ raced \subseteq raced' /\ (race => SlotOf(f.id) \in raced')
        /\ (~ race => raced' = raced)
        /\ \A t \in Slots \ {SlotOf(f.id)} : t \in raced' <=> t \in raced
    BY <1>1, <1>2, <1>3, MarkFacts
  <1> QED BY <1>4 DEF f, race

\* Take keeps the types of the goroutines' state.
LEMMA TakeHandlerType ==
  ASSUME TypeInv, NEW d \in Dirs, Take(d)
  PROVE  HandlerType'
  <1>0. PutType'
    <2>1. PutType /\ pc \in [Dirs -> Places] /\ pc[d] = "idle"
          /\ frame \in [Dirs -> CallFrames("in") \cup CallFrames("out") \cup {NoFrame}]
      BY TypeParts, HeadFacts DEF TypeInv, PlaceType
    <2>2. /\ ch' = ch
          /\ \/ pc' = pc /\ frame' = frame
             \/ pc' = [pc EXCEPT ![d] = "store"] /\ \E f : frame' = [frame EXCEPT ![d] = f]
      BY DEF Take, Goto
    <2> QED BY <2>1, <2>2, DirFacts DEF PutType, S
  <1>1. DataType /\ PlaceType /\ HandlerType
    BY TypeParts DEF TypeInv
  <1>2. UNCHANGED <<RecordResponse, ch, msg, OutputChan, emitted>> /\ raced' \subseteq Slots
    BY TakeMark DEF Take
  <1>3. CASE Head(queue[d]) \in CallFrames(d) /\ TakeFrame(d, Head(queue[d]))
    <2> DEFINE f == Head(queue[d])
    <2>1. f \in CallFrames(d) /\ f # NoFrame
      BY <1>3, FrameCases, FrameSets
    <2>2. Streams' \in [Slots -> [Dirs -> Item]]
      BY <1>3, TakeStreams
    <2>3. /\ pc' = [pc EXCEPT ![d] = "store"] /\ frame' = [frame EXCEPT ![d] = f]
          /\ UNCHANGED <<done, tokens, registered>>
      BY <1>3 DEF TakeFrame, Goto
    <2> HIDE DEF f
    <2>4. PlaceType'
      BY <1>1, <1>2, <2>1, <2>3, HeadFacts, PlaceStep, DirFacts DEF Places
    <2>5. DataType'
      BY <1>1, <1>2, <2>2, <2>3 DEF DataType
    <2> QED BY <1>0, <2>4, <2>5 DEF HandlerType, TypeOK, DataType, PlaceType, PutType, Places, Channels
  <1>4. ASSUME NEW r \in Calls, TakeReset(r) PROVE HandlerType'
    <2>1. Reset(SlotOf(r)) /\ SlotOf(r) \in Slots /\ UNCHANGED <<frame, pc, registered>>
      BY <1>4, CallFacts DEF TakeReset
    <2>2. /\ Streams' \in [Slots -> [Dirs -> Item]] /\ done' \in [Slots -> 0 .. 2]
          /\ tokens' \subseteq tokens
      BY <2>1, ResetFacts, NewDoneFacts
    <2>3. DataType'
      BY <1>1, <1>2, <2>1, <2>2 DEF DataType
    <2>4. PlaceType'
      BY <1>1, <1>2, <2>1 DEF PlaceType
    <2> QED BY <1>0, <2>3, <2>4 DEF HandlerType, TypeOK, DataType, PlaceType, PutType, Places, Channels
  <1>5. CASE TakeGoAway
    <2>1. DataType' /\ PlaceType'
      BY <1>1, <1>2, <1>5 DEF TakeGoAway, DataType, PlaceType
    <2> QED BY <1>0, <2>1 DEF HandlerType, TypeOK, DataType, PlaceType, PutType, Places, Channels
  <1> QED BY <1>3, <1>4, <1>5, TakeCases

\* The types in the next state, from their parts.
LEMMA TypeNext ==
  ASSUME TypeInv, DataType', PlaceType', PutType', queue' = queue, sent' = sent, cancelled' = cancelled,
         RecordResponse' = RecordResponse
  PROVE  TypeInv'
  <1>1. HandlerType'
    BY DEF HandlerType, TypeOK, DataType, PlaceType, PutType, Places, Channels
  <1> QED BY <1>1, NetSame DEF TypeInv

\* The handlers' steps on a frame at hand keep the types.
LEMMA HandleType ==
  ASSUME TypeInv, NEW d \in Dirs,
         \/ Store(d) \/ Check(d) \/ Wait(d) \/ Finish(d) \/ Send(d) \/ FinishReset(d)
         \/ (d = "in" /\ (Signal \/ Put))
  PROVE  TypeInv'
  <1>1. DataType /\ PlaceType /\ HandlerType
    BY TypeParts DEF TypeInv
  <1>2. /\ pc[d] # "idle" /\ UNCHANGED <<RecordResponse, queue, sent, cancelled, registered>>
    BY DEF Store, Check, Wait, Finish, Send, FinishReset, Signal, Put, net
  <1>3. /\ S(d) \in Slots /\ done[S(d)] \in 0 .. 2 /\ <<S(d), done[S(d)]>> \in Channels
        /\ frame[d] \in CallFrames(d) /\ frame[d].id \in Calls
    BY <1>1, <1>2, SlotFacts DEF DataType, Channels
  <1>4. NoChan \in {NoChan} /\ ch[d] \in Channels \cup {NoChan}
    BY <1>1 DEF DataType
  <1>13. PutType'
    <2>1. PutType /\ pc \in [Dirs -> Places] /\ ch \in [Dirs -> Channels \cup {NoChan}]
      BY <1>1, TypeParts DEF PlaceType, DataType
    <2>2. CASE d = "in" /\ Signal
      BY <2>1, <2>2, <1>3, DirFacts DEF PutType, Signal, Goto, S
    <2>3. CASE \/ Store(d) \/ Check(d) \/ Wait(d) \/ Finish(d) \/ Send(d) \/ FinishReset(d)
               \/ (d = "in" /\ Put)
      <3>1. \E l \in Places \ {"put"} : Goto(d, l)
        BY <2>3 DEF Store, AfterStore, Check, Return, Wait, Finish, Send, FinishReset, Put, Places
      <3>2. d = "out" => ch'["in"] = ch["in"] /\ frame'["in"] = frame["in"]
        BY <1>1, <2>1, <2>3, DirFacts
           DEF Store, Check, Return, Wait, Finish, Send, FinishReset, PlaceType
      <3> QED BY <3>1, <3>2, <2>1, DirFacts DEF PutType, Goto, S
    <2> QED BY <2>2, <2>3
  <1>5. CASE Store(d)
    <2>1. Streams' \in [Slots -> [Dirs -> Item]]
      BY <1>5, StoreFacts
    <2>2. DataType'
      BY <1>1, <1>2, <1>5, <2>1 DEF Store, DataType, hist
    <2>3. AfterStore(d) \in {"signal", "check"} /\ (AfterStore(d) = "signal" => d = "in")
      BY DEF AfterStore
    <2>4. PlaceType'
      BY <1>1, <1>2, <1>5, <2>3, PlaceMove DEF Store, Places
    <2> QED BY <1>2, <1>13, <2>2, <2>4, TypeNext
  <1>6. CASE Check(d)
    <2>1. UNCHANGED <<Streams, done, tokens, msg, OutputChan, emitted>>
      BY <1>6 DEF Check
    <2>2. raced' \subseteq Slots
      BY <1>1, <1>3, <1>6 DEF Check, Mark, DataType
    <2>3. ch' \in [Dirs -> Channels \cup {NoChan}]
      BY <1>1, <1>3, <1>6 DEF Check, DataType
    <2>4. DataType'
      BY <1>1, <1>2, <2>1, <2>2, <2>3 DEF DataType
    <2>5. \/ Return(d)
          \/ frame' = frame /\ Goto(d, "wait") /\ RecordResponse
          \/ frame' = frame /\ Goto(d, "finish")
      BY <1>6 DEF Check
    <2>6. PlaceType'
      BY <1>1, <1>2, <2>5, PlaceMove, PlaceReturn DEF Places
    <2> QED BY <1>2, <1>13, <2>4, <2>6, TypeNext
  <1>7. CASE Wait(d)
    <2>1. UNCHANGED <<Streams, done, msg, OutputChan, emitted, frame>> /\ Goto(d, "finish")
      BY <1>7 DEF Wait
    <2>2. raced' \subseteq Slots /\ tokens' \subseteq tokens
      BY <1>1, <1>3, <1>7 DEF Wait, Mark, DataType
    <2>3. ch' \in [Dirs -> Channels \cup {NoChan}]
      BY <1>1, <1>3, <1>7 DEF Wait, DataType
    <2>4. DataType'
      BY <1>1, <1>2, <2>1, <2>2, <2>3 DEF DataType
    <2>5. PlaceType'
      BY <1>1, <1>2, <2>1, PlaceMove DEF Places
    <2> QED BY <1>2, <1>13, <2>4, <2>5, TypeNext
  <1>8. CASE Finish(d)
    <2>1. UNCHANGED <<Streams, done, tokens, ch, OutputChan, frame, hist>>
          /\ (Goto(d, "send") \/ Goto(d, "reset"))
      BY <1>8 DEF Finish
    <2>2. [in |-> Streams[S(d)]["in"].parts,
           out |-> IF RecordResponse THEN Streams[S(d)]["out"].parts ELSE {}] \in Message
      BY <1>3, ItemFacts, DirFacts DEF Message
    <2>3. msg' \in [Dirs -> Message]
      BY <1>1, <1>8, <2>2 DEF Finish, DataType
    <2>4. DataType'
      BY <1>1, <1>2, <2>1, <2>3 DEF DataType, hist
    <2>5. PlaceType'
      BY <1>1, <1>2, <2>1, PlaceMove DEF Places
    <2> QED BY <1>2, <1>13, <2>4, <2>5, TypeNext
  <1>9. CASE Send(d)
    <2>1. UNCHANGED <<Streams, done, tokens, ch, frame, raced>> /\ Goto(d, "reset")
      BY <1>9 DEF Send
    <2>2. msg[d] \in Message /\ NoMsg \in Message /\ msg' \in [Dirs -> Message]
      BY <1>1, <1>9 DEF Send, DataType, NoMsg, Message
    <2>3. /\ OutputChan' \in Seq(Message) /\ emitted' \in Seq(Message)
          /\ Len(OutputChan') <= OutputCap
      <3>1. OutputChan \in Seq(Message) /\ emitted \in Seq(Message) /\ Len(OutputChan) < OutputCap
            /\ OutputChan' = Append(OutputChan, msg[d]) /\ emitted' = Append(emitted, msg[d])
        BY <1>1, <1>9 DEF Send, DataType
      <3>2. Len(OutputChan') = Len(OutputChan) + 1 /\ Len(OutputChan) \in Nat
        BY <2>2, <3>1
      <3> QED BY <2>2, <3>1, <3>2, InSeq, ConnAssumption
    <2>4. DataType'
      BY <1>1, <1>2, <2>1, <2>2, <2>3 DEF DataType
    <2>5. PlaceType'
      BY <1>1, <1>2, <2>1, PlaceMove DEF Places
    <2> QED BY <1>2, <1>13, <2>4, <2>5, TypeNext
  <1>10. CASE FinishReset(d)
    <2>1. UNCHANGED <<ch, msg, OutputChan, hist>> /\ Return(d) /\ Reset(S(d))
      BY <1>10 DEF FinishReset
    <2>2. /\ Streams' \in [Slots -> [Dirs -> Item]] /\ done' \in [Slots -> 0 .. 2]
          /\ tokens' \subseteq tokens
      BY <1>3, <2>1, ResetFacts, NewDoneFacts
    <2>3. DataType'
      BY <1>1, <1>2, <2>1, <2>2 DEF DataType, hist
    <2>4. PlaceType'
      BY <1>1, <1>2, <2>1, PlaceReturn
    <2> QED BY <1>2, <1>13, <2>3, <2>4, TypeNext
  <1>11. CASE d = "in" /\ Signal
    <2>1. UNCHANGED <<Streams, done, tokens, msg, OutputChan, frame, hist>>
          /\ (Goto(d, "put") \/ Goto(d, "check"))
      BY <1>11 DEF Signal
    <2>2. ch' \in [Dirs -> Channels \cup {NoChan}]
      BY <1>1, <1>3, <1>11 DEF Signal, DataType
    <2>3. DataType'
      BY <1>1, <1>2, <2>1, <2>2 DEF DataType, hist
    <2>4. PlaceType'
      BY <1>1, <1>2, <1>11, <2>1, PlaceMove DEF Places
    <2> QED BY <1>2, <1>13, <2>3, <2>4, TypeNext
  <1>12. CASE d = "in" /\ Put
    <2>1. UNCHANGED <<Streams, done, msg, OutputChan, frame, hist>> /\ Goto(d, "check")
      BY <1>12 DEF Put
    <2>2. ch' \in [Dirs -> Channels \cup {NoChan}]
      BY <1>1, <1>3, <1>12 DEF Put, DataType
    <2>3. tokens' \subseteq Channels
      <3>1. ch["in"] \in Channels
        BY <1>1, <1>12, TypeParts DEF Put, PutType
      <3> QED BY <3>1, <1>1, <1>12 DEF Put, DataType
    <2>4. DataType'
      BY <1>1, <1>2, <2>1, <2>2, <2>3 DEF DataType, hist
    <2>5. PlaceType'
      BY <1>1, <1>2, <1>12, <2>1, PlaceMove DEF Places
    <2> QED BY <1>2, <1>13, <2>4, <2>5, TypeNext
  <1> QED BY <1>5, <1>6, <1>7, <1>8, <1>9, <1>10, <1>11, <1>12

\* Reading OutputChan keeps the types.
LEMMA ConsumeType ==
  ASSUME TypeInv, Consume
  PROVE  TypeInv'
  <1>1. DataType /\ PlaceType /\ PutType
    BY TypeParts DEF TypeInv
  <1>2. /\ OutputChan # <<>> /\ OutputChan' = Tail(OutputChan)
        /\ UNCHANGED <<RecordResponse, Streams, done, tokens, pc, frame, ch, msg,
                       registered, net, hist>>
    BY DEF Consume
  <1>3. OutputChan' \in Seq(Message) /\ Len(OutputChan') <= OutputCap
    <2>1. OutputChan \in Seq(Message) /\ Len(OutputChan) <= OutputCap
      BY <1>1 DEF DataType
    <2>2. Len(Tail(OutputChan)) = Len(OutputChan) - 1 /\ Len(OutputChan) \in Nat
      BY <1>2, <2>1
    <2> QED BY <1>2, <2>1, <2>2, InSeq, ConnAssumption
  <1>4. DataType' /\ PlaceType' /\ PutType'
    BY <1>1, <1>2, <1>3 DEF DataType, PlaceType, PutType, S, hist
  <1> QED BY <1>2, <1>4, TypeNext DEF net

\* Every step keeps the types.
LEMMA TypeStep ==
  ASSUME TypeInv, [Next]_vars
  PROVE  TypeInv'
  <1>1. ASSUME NEW d \in Dirs, Take(d) PROVE TypeInv'
    <2>1. QueuesType' /\ HandlerType'
      BY <1>1, TakeType, TakeHandlerType
    <2>2. UNCHANGED <<sent, cancelled>>
      BY <1>1 DEF Take
    <2> QED BY <2>1, <2>2 DEF TypeInv, NetType
  <1>2. CASE UNCHANGED vars
    BY <1>2, CodeSame, NetSame DEF vars, net, code, TypeInv
  <1>3. ASSUME NEW d \in Dirs, Deal(d) PROVE TypeInv'
    BY <1>1, <1>3, HandleType DEF Deal
  <1>4. CASE Signal \/ Put
    BY <1>4, HandleType, DirFacts
  <1> QED BY <1>2, <1>3, <1>4, NetSteps, ConsumeType, DirFacts
          DEF Next, DealInput, DealOutput


-----------------------------------------------------------------------------
(* The steps again, for the rest of the invariant. *)

\* A goroutine that has its frame's content stored goes on with it.
MovesOn(d) == (d = "in" /\ (Signal \/ Put)) \/ (Check(d) /\ Complete(S(d))) \/ Wait(d)
              \/ Finish(d) \/ Send(d)

\* A goroutine goes back to its frame loop, as the call is not complete.
GoesBack(d) == Check(d) /\ ~ Complete(S(d))

\* The steps of the program, but for reading OutputChan.
LEMMA Cases ==
  ASSUME [Next]_vars
  PROVE  \/ \E r \in Calls : Request(r) \/ Respond(r) \/ Cancel(r)
         \/ \E d \in Dirs : SayGoAway(d)
         \/ \E d \in Dirs : \/ Take(d) \/ Store(d) \/ MovesOn(d) \/ GoesBack(d)
                            \/ FinishReset(d)
         \/ Consume \/ UNCHANGED vars
  BY DirFacts DEF Next, DealInput, DealOutput, Deal, MovesOn, GoesBack

\* The slots that were raced stay so.
LEMMA RacedGrows ==
  ASSUME [Next]_vars
  PROVE  raced \subseteq raced'
  <1>1. ASSUME NEW d \in Dirs, Take(d) PROVE raced \subseteq raced'
    BY <1>1 DEF Take, Mark
  <1>2. ASSUME NEW d \in Dirs, Store(d) \/ Finish(d) \/ Send(d) \/ FinishReset(d)
        PROVE  raced' = raced
    BY <1>2 DEF Store, Finish, Send, FinishReset, hist
  <1>3. ASSUME NEW d \in Dirs, Check(d) PROVE raced \subseteq raced'
    BY <1>3 DEF Check, Mark
  <1>4. ASSUME NEW d \in Dirs, Wait(d) PROVE raced \subseteq raced'
    BY <1>4 DEF Wait, Mark
  <1>5. ASSUME Signal \/ Put \/ Consume PROVE raced' = raced
    BY <1>5 DEF Signal, Put, Consume, hist
  <1>6. ASSUME NEW r \in Calls, Request(r) \/ Respond(r) \/ Cancel(r) PROVE raced' = raced
    BY <1>6 DEF Request, Respond, Cancel, hist
  <1>7. ASSUME NEW d \in Dirs, SayGoAway(d) PROVE raced' = raced
    BY <1>7 DEF SayGoAway, hist
  <1>8. CASE UNCHANGED vars
    BY <1>8 DEF vars, hist
  <1> QED BY <1>1, <1>2, <1>3, <1>4, <1>5, <1>6, <1>7, <1>8, DirFacts
          DEF Next, DealInput, DealOutput, Deal

\* So a slot that is clear was so before.
LEMMA ClearBefore ==
  ASSUME [Next]_vars, NEW s, Clear(s)'
  PROVE  Clear(s)
  BY RacedGrows DEF Clear

\* The frame at hand is one of the two of its call.
LEMMA AtHand ==
  ASSUME TypeInv, NEW d \in Dirs, frame[d] # NoFrame
  PROVE  /\ frame[d] \in CallFrames(d) /\ frame[d].id \in Calls /\ S(d) \in Slots
         /\ pc[d] # "idle"
         /\ frame[d] = First(d, frame[d].id) \/ frame[d] = Second(d, frame[d].id)
         /\ frame[d].end <=> frame[d] = Second(d, frame[d].id)
         /\ S(d) = SlotOf(frame[d].id)
         /\ frame[d].end \in BOOLEAN
         /\ d = "out" => RecordResponse
  <1>1. frame[d] \in CallFrames(d) /\ pc[d] # "idle" /\ (d = "out" => RecordResponse)
    BY DEF TypeInv, HandlerType
  <1>2. frame[d] \in InFrames(d)
    BY <1>1, FrameSets
  <1>3. frame[d] = First(d, frame[d].id) \/ frame[d] = Second(d, frame[d].id)
    <2>1. \A r \in Calls : RST(r) \notin CallFrames(d)
      BY FrameFacts, FrameEnds
    <2> QED BY <1>1, <1>2, <2>1, FrameCases
  <1>4. frame[d].end <=> frame[d] = Second(d, frame[d].id)
    BY <1>3, FrameFacts
  <1> QED BY <1>1, <1>3, <1>4, SlotFacts DEF TypeInv, S

\* A goroutine that has a frame of a call is not idle.
LEMMA AtCall ==
  ASSUME TypeInv, NEW d \in Dirs, NEW r \in Calls, frame[d].id = r
  PROVE  frame[d] # NoFrame /\ S(d) = SlotOf(r)
  BY NoCall DEF S

\* When the last frame of a call is at hand, none of the two is queued.
LEMMA LastAtHand ==
  ASSUME TypeInv, QueueInv, NEW d \in Dirs, NEW r \in Calls
  PROVE  /\ frame[d] = Second(d, r) => ~ InQ(d, First(d, r)) /\ ~ InQ(d, Second(d, r))
         /\ frame[d] = First(d, r) => ~ InQ(d, First(d, r))
         /\ frame[d] = Second(d, r) => sent[d][r] = 2
  <1>1. /\ First(d, r).id = r /\ Rank(First(d, r)) = 1 /\ First(d, r) # GoAway
        /\ Second(d, r).id = r /\ Rank(Second(d, r)) = 2 /\ Second(d, r) # GoAway
        /\ Second(d, r).kind # "rst" /\ Second(d, r) # NoFrame /\ First(d, r) # Second(d, r)
    BY FrameFacts, NoCall
  <1>2. ASSUME NEW g, InQ(d, g), g # GoAway, frame[d].id = g.id PROVE Rank(frame[d]) < Rank(g)
    BY <1>2, QFacts
  <1>3. ASSUME frame[d] = Second(d, r) PROVE sent[d][r] = 2
    <2>1. WasSent(d, Second(d, r))
      BY <1>1, <1>3 DEF QueueInv
    <2> QED BY <1>1, <2>1, SentType DEF WasSent
  <1> QED BY <1>1, <1>2, <1>3

\* What goes on in the goroutine d changes neither the queues nor the other one.
LEMMA MoveFacts ==
  ASSUME TypeInv, NEW d \in Dirs, MovesOn(d)
  PROVE  /\ UNCHANGED <<RecordResponse, Streams, done, frame, queue, sent, cancelled>>
         /\ frame[d] # NoFrame /\ pc[d] \notin {"idle", "store", "reset"}
         /\ \A e \in Dirs \ {d} : pc'[e] = pc[e] /\ ch'[e] = ch[e] /\ msg'[e] = msg[e]
         /\ \/ pc[d] = "signal" /\ Streams[S(d)][d].end /\ pc'[d] = "put"
            \/ pc[d] \in {"signal", "put"} /\ pc'[d] = "check"
            \/ pc[d] = "check" /\ Complete(S(d)) /\ pc'[d] \in {"wait", "finish"}
            \/ pc[d] = "wait" /\ pc'[d] = "finish"
            \/ pc[d] = "finish" /\ pc'[d] \in {"send", "reset"}
            \/ pc[d] = "send" /\ pc'[d] = "reset"
  <1>1. /\ pc \in [Dirs -> Places] /\ ch \in [Dirs -> Channels \cup {NoChan}]
        /\ msg \in [Dirs -> Message] /\ "in" \in Dirs
    BY TypeParts, DirFacts DEF TypeInv, DataType, PlaceType
  <1>2. UNCHANGED <<RecordResponse, Streams, done, frame, queue, sent, cancelled>>
    BY DEF MovesOn, Signal, Put, Check, Return, Wait, Finish, Send, net
  <1>3. \A e \in Dirs \ {d} : pc'[e] = pc[e] /\ ch'[e] = ch[e] /\ msg'[e] = msg[e]
    BY <1>1 DEF MovesOn, Signal, Put, Check, Wait, Finish, Send, Goto
  <1>4. \/ pc[d] = "signal" /\ Streams[S(d)][d].end /\ pc'[d] = "put"
        \/ pc[d] \in {"signal", "put"} /\ pc'[d] = "check"
        \/ pc[d] = "check" /\ Complete(S(d)) /\ pc'[d] \in {"wait", "finish"}
        \/ pc[d] = "wait" /\ pc'[d] = "finish"
        \/ pc[d] = "finish" /\ pc'[d] \in {"send", "reset"}
        \/ pc[d] = "send" /\ pc'[d] = "reset"
    BY <1>1 DEF MovesOn, Signal, Put, Check, Wait, Finish, Send, Goto
  <1>5. frame[d] # NoFrame
    BY <1>4 DEF TypeInv, HandlerType
  <1> QED BY <1>2, <1>3, <1>4, <1>5

\* Only the Finisher goes on from Check, unless the slot gets raced.
LEMMA CheckFacts ==
  ASSUME TypeInv, NEW d \in Dirs, Check(d), Complete(S(d)), Clear(S(d))'
  PROVE  /\ d = Finisher
         /\ pc'[d] = "wait" => RecordResponse /\ ch'[d] = <<S(d), done[S(d)]>>
         /\ pc'[d] = "finish" => ~ RecordResponse
  <1>1. /\ pc \in [Dirs -> Places] /\ ch \in [Dirs -> Channels \cup {NoChan}] /\ pc[d] # "idle"
    BY TypeParts DEF TypeInv, DataType, PlaceType, Check
  <1>2. S(d)' = S(d)
    BY DEF Check, S
  <1>3. ~ (d = "in" /\ RecordResponse)
    BY <1>2 DEF Check, Mark, Clear
  <1>4. d = "out" => RecordResponse
    BY <1>1 DEF TypeInv, HandlerType
  <1>5. /\ pc'[d] = "wait" => RecordResponse /\ ch'[d] = <<S(d), done[S(d)]>>
        /\ pc'[d] = "finish" => ~ RecordResponse
    BY <1>1 DEF Check, Goto
  <1> QED BY <1>3, <1>4, <1>5, DirFacts DEF Finisher

\* A goroutine goes back to its frame loop and forgets its frame.
LEMMA BackFacts ==
  ASSUME TypeInv, NEW d \in Dirs, GoesBack(d) \/ FinishReset(d)
  PROVE  /\ UNCHANGED <<RecordResponse, queue, sent, cancelled, msg, ch, emitted, raced>>
         /\ frame[d] # NoFrame /\ frame'[d] = NoFrame /\ pc'[d] = "idle"
         /\ \A e \in Dirs \ {d} : pc'[e] = pc[e] /\ frame'[e] = frame[e]
         /\ GoesBack(d) => pc[d] = "check" /\ UNCHANGED <<Streams, done, tokens>>
         /\ FinishReset(d) => pc[d] = "reset" /\ Reset(S(d))
  <1>1. /\ pc \in [Dirs -> Places]
        /\ frame \in [Dirs -> CallFrames("in") \cup CallFrames("out") \cup {NoFrame}]
    BY TypeParts DEF TypeInv, PlaceType
  <1>2. /\ UNCHANGED <<RecordResponse, queue, sent, cancelled, msg, ch, emitted>> /\ Return(d)
        /\ GoesBack(d) => pc[d] = "check" /\ UNCHANGED <<Streams, done, tokens>>
        /\ FinishReset(d) => pc[d] = "reset" /\ Reset(S(d))
    BY DEF GoesBack, FinishReset, Check, net, hist
  <1>3. raced' = raced
    BY DEF GoesBack, FinishReset, Check, hist, Mark
  <1>4. frame[d] # NoFrame
    BY <1>2 DEF TypeInv, HandlerType
  <1> QED BY <1>1, <1>2, <1>3, <1>4 DEF Return, Goto

\* A goroutine stores what its frame holds.
LEMMA StoreStep ==
  ASSUME TypeInv, NEW d \in Dirs, Store(d)
  PROVE  /\ UNCHANGED <<RecordResponse, done, tokens, frame, ch, msg, queue, sent, cancelled,
                        emitted, raced>>
         /\ frame[d] # NoFrame /\ pc[d] = "store"
         /\ pc'[d] = IF d = "in" THEN "signal" ELSE "check"
         /\ \A e \in Dirs \ {d} : pc'[e] = pc[e]
  <1>1. pc \in [Dirs -> Places] /\ pc[d] = "store"
    BY TypeParts DEF TypeInv, PlaceType, Store
  <1>2. frame[d] # NoFrame
    BY <1>1 DEF TypeInv, HandlerType
  <1> QED BY <1>1, <1>2 DEF Store, AfterStore, Goto, net, hist

\* A goroutine takes the head of its queue.
LEMMA TakeFacts ==
  ASSUME TypeInv, QueueInv, NEW d \in Dirs, Take(d), NEW f, f = Head(queue[d])
  PROVE  /\ pc[d] = "idle" /\ frame[d] = NoFrame
         /\ InQ(d, f) /\ f \in InFrames(d) \cup {GoAway}
         /\ \A g : InQ(d, g) <=> InQ(d, g)' \/ g = f
         /\ \A e \in Dirs \ {d} : \A g : InQ(e, g)' <=> InQ(e, g)
         /\ \A e \in Dirs \ {d} : frame'[e] = frame[e] /\ pc'[e] = pc[e]
         /\ f \in CallFrames(d) => frame'[d] = f /\ pc'[d] = "store" /\ TakeFrame(d, f)
         /\ f \notin CallFrames(d) => frame' = frame /\ pc' = pc
         /\ \A r \in Calls : f = RST(r) => d = "in" /\ Reset(SlotOf(r))
         /\ f = GoAway => UNCHANGED <<Streams, done, tokens>>
         /\ f # GoAway => \A g : InQ(d, g)' /\ g.id = f.id => Rank(f) < Rank(g)
         /\ f # GoAway => WasSent(d, f)
         /\ UNCHANGED <<RecordResponse, ch, sent, cancelled, emitted, msg>>
  <1>1. /\ pc[d] = "idle" /\ queue[d] # <<>> /\ queue' = [queue EXCEPT ![d] = Tail(@)]
        /\ UNCHANGED <<RecordResponse, ch, sent, cancelled, emitted, msg>>
    BY DEF Take
  <1>2. /\ \A g : InQ(d, g) <=> InQ(d, g)' \/ g = f
        /\ f \in InFrames(d) \cup {GoAway}
        /\ \A e \in Dirs \ {d} : queue'[e] = queue[e]
    BY <1>1, TailQ
  <1>3. \A e \in Dirs \ {d} : \A g : InQ(e, g)' <=> InQ(e, g)
    BY <1>2, SameQ
  <1>4. f # GoAway => \A g : InQ(d, g)' /\ g.id = f.id => Rank(f) < Rank(g)
    BY <1>1, HeadFirst
  <1>5. frame[d] = NoFrame
    BY <1>1 DEF TypeInv, HandlerType
  <1>6. frame \in [Dirs -> CallFrames("in") \cup CallFrames("out") \cup {NoFrame}]
        /\ pc \in [Dirs -> Places]
    BY TypeParts DEF TypeInv, PlaceType
  <1>7. /\ \A r \in Calls : RST(r) \notin CallFrames(d) /\ RST(r) # GoAway
        /\ GoAway \notin CallFrames(d)
        /\ \A q, r \in Calls : RST(q) = RST(r) => q = r
    BY FrameFacts, FrameEnds
  <1>8. \/ f \in CallFrames(d) /\ TakeFrame(d, f)
        \/ /\ d = "in"
           /\ \E r \in Calls : f = RST(r) /\ TakeReset(r)
        \/ f = GoAway /\ TakeGoAway
    BY TakeCases
  <1>9. /\ f \in CallFrames(d) => TakeFrame(d, f)
        /\ \A r \in Calls : f = RST(r) => d = "in" /\ TakeReset(r)
        /\ f = GoAway => TakeGoAway
        /\ f \notin CallFrames(d) => (\E r \in Calls : TakeReset(r)) \/ TakeGoAway
    BY <1>7, <1>8, Zenon
  <1>10. /\ \A e \in Dirs \ {d} : frame'[e] = frame[e] /\ pc'[e] = pc[e]
         /\ f \in CallFrames(d) => frame'[d] = f /\ pc'[d] = "store"
         /\ f \notin CallFrames(d) => frame' = frame /\ pc' = pc
    BY <1>6, <1>9 DEF TakeFrame, TakeReset, TakeGoAway, Goto
  <1>11. InQ(d, f) /\ (f # GoAway => WasSent(d, f))
    BY <1>2, QFacts
  <1> QED BY <1>1, <1>2, <1>3, <1>4, <1>5, <1>9, <1>10, <1>11 DEF TakeReset, TakeGoAway

\* Taking a frame does not bring two calls together on a slot that stays clear.
LEMMA TakeClear ==
  ASSUME TypeInv, NEW d \in Dirs, Take(d), NEW f, f = Head(queue[d]), f # GoAway,
         Clear(SlotOf(f.id))'
  PROVE  /\ \A q \in Calls : q < f.id /\ SlotOf(q) = SlotOf(f.id) => Handled(Other(d), q)
         /\ f.kind = "rst" => frame["out"].id # f.id
         /\ d = "out" /\ f.id \in cancelled => ~ Handled("in", f.id)
  <1>1. ~ Overtakes(d, f) /\ ~ CutsIn(d, f)
    BY TakeMark DEF Clear
  <1> QED BY <1>1 DEF Overtakes, CutsIn

-----------------------------------------------------------------------------
(* What was sent, and the order of the queues. *)

\* The ranks of the frames of a direction.
LEMMA RankFacts ==
  ASSUME NEW d \in Dirs, NEW g \in InFrames(d)
  PROVE  /\ Rank(g) \in 1 .. 3 /\ g.id \in Calls
         /\ g.kind = "rst" => Rank(g) = 3 /\ d = "in" /\ g = RST(g.id)
         /\ g.kind # "rst" => Rank(g) < 3 /\ g \in CallFrames(d)
         /\ Rank(g) = 1 => g = First(d, g.id)
         /\ Rank(g) = 2 => g = Second(d, g.id)
         /\ Rank(g) = 3 => g = RST(g.id) /\ d = "in" /\ g.kind = "rst"
  <1>1. /\ g.id \in Calls
        /\ \/ g = First(d, g.id) /\ g \in CallFrames(d)
           \/ g = Second(d, g.id) /\ g \in CallFrames(d)
           \/ d = "in" /\ g = RST(g.id)
    BY FrameCases
  <1>2. CASE g = First(d, g.id) /\ g \in CallFrames(d)
    <2>1. Rank(g) = 1 /\ g.kind # "rst"
      BY <1>2, FrameFacts
    <2> QED BY <1>1, <1>2, <2>1
  <1>3. CASE g = Second(d, g.id) /\ g \in CallFrames(d)
    <2>1. Rank(g) = 2 /\ g.kind # "rst"
      BY <1>3, FrameFacts
    <2> QED BY <1>1, <1>3, <2>1
  <1>4. CASE d = "in" /\ g = RST(g.id)
    <2>1. Rank(g) = 3 /\ g.kind = "rst"
      BY <1>4, FrameFacts
    <2> QED BY <1>1, <1>4, <2>1
  <1> QED BY <1>1, <1>2, <1>3, <1>4

\* What every step does to what was sent and cancelled.
LEMMA NetFacts ==
  ASSUME TypeInv, [Next]_vars
  PROVE  /\ RecordResponse' = RecordResponse
         /\ \A d \in Dirs, r \in Calls :
              \/ sent'[d][r] = sent[d][r]
              \/ /\ sent'[d][r] = sent[d][r] + 1
                 /\ d = "in" => Request(r)
                 /\ d = "out" => Respond(r)
         /\ \A r \in cancelled : r \in cancelled'
         /\ \A r \in cancelled' : r \in cancelled \/ (r \in Calls /\ Cancel(r))
  <1>1. ASSUME NEW r \in Calls, Request(r)
        PROVE  /\ sent'["in"][r] = sent["in"][r] + 1 /\ sent'["out"] = sent["out"]
               /\ \A q \in Calls \ {r} : sent'["in"][q] = sent["in"][q]
               /\ cancelled' = cancelled /\ RecordResponse' = RecordResponse
    BY <1>1, RequestFacts, DirFacts
  <1>2. ASSUME NEW r \in Calls, Respond(r)
        PROVE  /\ sent'["out"][r] = sent["out"][r] + 1 /\ sent'["in"] = sent["in"]
               /\ \A q \in Calls \ {r} : sent'["out"][q] = sent["out"][q]
               /\ cancelled' = cancelled /\ RecordResponse' = RecordResponse
    BY <1>2, RespondFacts, DirFacts
  <1>3. ASSUME NEW r \in Calls, Cancel(r)
        PROVE  /\ sent' = sent /\ cancelled' = cancelled \cup {r}
               /\ RecordResponse' = RecordResponse
    BY <1>3, CancelFacts, DirFacts
  <1>4. ASSUME NEW d \in Dirs, SayGoAway(d)
        PROVE  UNCHANGED <<sent, cancelled, RecordResponse>>
    BY <1>4 DEF SayGoAway
  <1>5. ASSUME NEW d \in Dirs, \/ Take(d) \/ Store(d) \/ MovesOn(d) \/ GoesBack(d)
                               \/ FinishReset(d)
        PROVE  UNCHANGED <<sent, cancelled, RecordResponse>>
    <2>1. Take(d) \/ Store(d) => UNCHANGED <<sent, cancelled, RecordResponse>>
      BY DEF Take, Store, net
    <2> QED BY <1>5, <2>1, MoveFacts, BackFacts
  <1>6. CASE Consume \/ UNCHANGED vars
    BY <1>6 DEF Consume, vars, net
  <1>7. CASE UNCHANGED <<sent, cancelled, RecordResponse>>
    BY <1>7
  <1>8. ASSUME NEW r \in Calls, Request(r) \/ Respond(r) \/ Cancel(r)
        PROVE  /\ RecordResponse' = RecordResponse
               /\ \A d \in Dirs, q \in Calls :
                    \/ sent'[d][q] = sent[d][q]
                    \/ /\ sent'[d][q] = sent[d][q] + 1
                       /\ d = "in" => Request(q)
                       /\ d = "out" => Respond(q)
               /\ \A q \in cancelled : q \in cancelled'
               /\ \A q \in cancelled' : q \in cancelled \/ (q \in Calls /\ Cancel(q))
    <2>1. CASE Request(r)
      BY <2>1, <1>1, DirFacts
    <2>2. CASE Respond(r)
      BY <2>2, <1>2, DirFacts
    <2>3. CASE Cancel(r)
      BY <2>3, <1>3, DirFacts
    <2> QED BY <1>8, <2>1, <2>2, <2>3
  <1> QED BY <1>4, <1>5, <1>6, <1>7, <1>8, Cases

\* Every step keeps SentInv.
LEMMA SentStep ==
  ASSUME TypeInv, SentInv, [Next]_vars
  PROVE  SentInv'
  <1>1. ASSUME NEW r \in Calls
        PROVE  /\ sent["out"][r] > 0 => sent["in"][r] = 2
               /\ r \in cancelled => sent["in"][r] > 0
               /\ sent["in"][r] \in 0 .. 2 /\ sent["out"][r] \in 0 .. 2
    BY SentType, DirFacts DEF SentInv
  <1>2. \A r \in Calls : sent'["in"][r] \in 0 .. 2 /\ sent'["out"][r] \in 0 .. 2
    BY TypeStep, DirFacts DEF TypeInv, NetType
  <1>3. ASSUME NEW r \in Calls
        PROVE  /\ sent'["out"][r] > 0 => sent'["in"][r] = 2
               /\ r \in cancelled' => sent'["in"][r] > 0
    <2>1. sent'["in"][r] = sent["in"][r] \/ sent'["in"][r] = sent["in"][r] + 1
      BY NetFacts, DirFacts
    <2>2. \/ sent'["out"][r] = sent["out"][r]
          \/ Respond(r) /\ sent["in"][r] = 2
      BY NetFacts, RespondFacts, DirFacts
    <2>3. \/ r \in cancelled' => r \in cancelled
          \/ Cancel(r) /\ sent["in"][r] > 0
      BY NetFacts, CancelFacts
    <2> QED BY <1>1, <1>2, <2>1, <2>2, <2>3
  <1>4. ASSUME NEW r \in Calls, NEW q \in Calls, q < r, SlotOf(q) = SlotOf(r), sent'["in"][r] > 0
        PROVE  Done(q)'
    <2>1. Done(q)
      <3>1. CASE sent["in"][r] > 0
        BY <1>4, <3>1 DEF SentInv
      <3>2. CASE sent["in"][r] = 0
        <4>1. MayStart(r)
          BY <1>4, <3>2, NetFacts, RequestFacts, DirFacts
        <4>2. q \in 1 .. r - 1
          BY <1>4 DEF Calls
        <4> QED BY <1>4, <4>1, <4>2 DEF MayStart, Done
      <3> QED BY <1>1, <3>1, <3>2
    <2>2. sent["out"][q] = 2 => sent'["out"][q] = 2
      BY <1>1, <1>2, NetFacts, DirFacts
    <2> QED BY <2>1, <2>2, NetFacts, EndedFacts, DirFacts, ScriptFacts DEF Done, Ended
  <1> QED BY <1>3, <1>4 DEF SentInv

\* What was sent stays sent.
LEMMA WasSentStep ==
  ASSUME TypeInv, [Next]_vars, NEW d \in Dirs, NEW f, f.id \in Calls,
         Rank(f) \in 1 .. 3, WasSent(d, f)
  PROVE  WasSent(d, f)'
  <1>2. /\ sent'[d][f.id] \in {sent[d][f.id], sent[d][f.id] + 1}
        /\ sent[d][f.id] \in 0 .. 2
        /\ f.id \in cancelled => f.id \in cancelled'
    BY NetFacts, SentType
  <1> QED BY <1>2 DEF WasSent

\* A call of which the peers have sent anything has begun.
LEMMA WasBegun ==
  ASSUME TypeInv, SentInv, NEW d \in Dirs, NEW f, f.id \in Calls, Rank(f) \in 1 .. 3,
         WasSent(d, f)
  PROVE  sent["in"][f.id] > 0 /\ (d = "out" /\ f.kind # "rst" => sent["in"][f.id] = 2)
  <1>1. sent[d][f.id] \in 0 .. 2
    BY SentType
  <1>2. CASE f.kind = "rst"
    BY <1>2 DEF WasSent, SentInv
  <1>3. CASE f.kind # "rst"
    <2>1. sent[d][f.id] > 0
      BY <1>1, <1>3 DEF WasSent
    <2> QED BY <2>1, <1>3, DirFacts DEF SentInv
  <1> QED BY <1>2, <1>3

\* A captured frame ranks above those of its call sent before, and comes behind
\* no later call of its slot unless it is what the server sends of a cancelled one.
LEMMA CaptureOrder ==
  ASSUME TypeInv, QueueInv, [Next]_vars,
         NEW d \in Dirs, NEW f \in InFrames(d) \cup {GoAway}, Capture(d, f),
         \A g \in InFrames(d) : WasSent(d, g) /\ g.id = f.id => Rank(g) < Rank(f),
         \A g \in InFrames(d) :
            f # GoAway /\ WasSent(d, g) /\ f.id < g.id /\ SlotOf(g.id) = SlotOf(f.id)
               => d = "out" /\ f.id \in cancelled,
         NEW e \in Dirs
  PROVE  /\ Ordered(e)' /\ InTurn(e)'
         /\ e = d /\ frame[e] # NoFrame /\ frame[e].id = f.id => Rank(frame[e]) < Rank(f)
  <1>1. Ordered(e) /\ InTurn(e)
    BY DEF QueueInv
  <1>0. \A q \in cancelled : q \in cancelled'
    BY NetFacts
  <1>2. e = d /\ frame[e] # NoFrame /\ frame[e].id = f.id => Rank(frame[e]) < Rank(f)
    <2>1. frame[e] # NoFrame => frame[e] \in InFrames(e) /\ WasSent(e, frame[e])
      BY FrameSets DEF TypeInv, HandlerType, QueueInv
    <2> QED BY <2>1
  <1>3. CASE e # d
    <2>1. queue'[e] = queue[e]
      BY <1>3 DEF Capture, TypeInv, QueuesType
    <2>2. Ordered(e)'
      BY <1>1, <2>1 DEF Ordered
    <2>3. InTurn(e)'
      BY <1>0, <1>1, <2>1 DEF InTurn, Before
    <2> QED BY <1>2, <2>2, <2>3
  <1>4. CASE e = d
    <2>1. queue' = [queue EXCEPT ![d] = Append(@, f)]
      BY <1>4 DEF Capture
    <2>2. /\ queue'[d][Len(queue[d]) + 1] = f
          /\ \A i \in DOMAIN queue[d] : queue'[d][i] = queue[d][i]
          /\ DOMAIN queue[d] = 1 .. Len(queue[d])
          /\ DOMAIN queue'[d] = 1 .. Len(queue[d]) + 1
          /\ Len(queue[d]) \in Nat
      BY <2>1, AppendQ
    <2>3. ASSUME NEW i \in DOMAIN queue'[d], NEW j \in DOMAIN queue'[d],
                 queue'[d][i] # GoAway, i < j
          PROVE  /\ i \in DOMAIN queue[d] /\ queue'[d][i] = queue[d][i]
                 /\ queue[d][i] \in InFrames(d) /\ WasSent(d, queue[d][i])
                 /\ \/ j \in DOMAIN queue[d] /\ queue'[d][j] = queue[d][j]
                    \/ queue'[d][j] = f
      <3>1. i \in DOMAIN queue[d] /\ queue'[d][i] = queue[d][i]
        BY <2>2, <2>3
      <3>2. InQ(d, queue[d][i]) /\ queue[d][i] # GoAway
        BY <2>3, <3>1 DEF InQ
      <3>3. queue[d][i] \in InFrames(d) /\ WasSent(d, queue[d][i])
        BY <3>2, QFacts
      <3>4. \/ j \in DOMAIN queue[d] /\ queue'[d][j] = queue[d][j]
            \/ queue'[d][j] = f
        BY <2>2, <2>3
      <3> QED BY <3>1, <3>3, <3>4
    <2>4. ASSUME NEW i \in DOMAIN queue'[d], NEW j \in DOMAIN queue'[d],
                 queue'[d][i] # GoAway, i < j, queue'[d][i].id = queue'[d][j].id
          PROVE  Rank(queue'[d][i]) < Rank(queue'[d][j])
      BY <1>1, <1>4, <2>3, <2>4 DEF Ordered
    <2>5. ASSUME NEW i \in DOMAIN queue'[d], NEW j \in DOMAIN queue'[d], i < j
          PROVE  Before(d, queue[d][i], queue[d][j])'
      <3>1. PICK g, h : g = queue'[d][i] /\ h = queue'[d][j]
        OBVIOUS
      <3>2. CASE g # GoAway /\ j \in DOMAIN queue[d] /\ queue'[d][j] = queue[d][j]
        <4>1. Before(d, g, h)
          BY <1>1, <1>4, <2>3, <2>5, <3>1, <3>2 DEF InTurn
        <4> QED BY <1>0, <3>1, <4>1 DEF Before
      <3>3. CASE g # GoAway /\ h = f
        <4>1. g \in InFrames(d) /\ WasSent(d, g)
          BY <2>3, <2>5, <3>1, <3>3
        <4>2. f # GoAway /\ f.id < g.id /\ SlotOf(g.id) = SlotOf(f.id)
                 => d = "out" /\ f.id \in cancelled
          BY <4>1
        <4> QED BY <1>0, <3>1, <3>3, <4>2 DEF Before
      <3>4. CASE g = GoAway
        BY <3>1, <3>4 DEF Before
      <3> QED BY <2>3, <2>5, <3>1, <3>2, <3>3, <3>4
    <2>6. Ordered(e)'
      BY <1>4, <2>4 DEF Ordered
    <2>7. InTurn(e)'
      BY <1>4, <2>5 DEF InTurn
    <2> QED BY <1>2, <2>6, <2>7
  <1> QED BY <1>3, <1>4

\* A captured frame keeps QueueInv.
LEMMA QueueCapture ==
  ASSUME TypeInv, QueueInv, [Next]_vars,
         NEW d \in Dirs, NEW f \in InFrames(d) \cup {GoAway}, Capture(d, f),
         \A g \in InFrames(d) : WasSent(d, g) /\ g.id = f.id => Rank(g) < Rank(f),
         \A g \in InFrames(d) :
            f # GoAway /\ WasSent(d, g) /\ f.id < g.id /\ SlotOf(g.id) = SlotOf(f.id)
               => d = "out" /\ f.id \in cancelled,
         f # GoAway => WasSent(d, f)', frame' = frame
  PROVE  QueueInv'
  <1> SUFFICES ASSUME NEW e \in Dirs
               PROVE  /\ frame[e] # NoFrame => WasSent(e, frame[e])'
                      /\ Behind(e)' /\ Ordered(e)' /\ InTurn(e)'
    BY DEF QueueInv
  <1>1. PICK h : h = frame[e]
    OBVIOUS
  <1>2. h # NoFrame => WasSent(e, h)'
    <2>1. h # NoFrame => h \in InFrames(e) /\ WasSent(e, h)
      BY <1>1, FrameSets DEF TypeInv, HandlerType, QueueInv
    <2> QED BY <2>1, WasSentStep, RankFacts
  <1>3. frame[e] # NoFrame => WasSent(e, frame[e])'
    BY <1>1, <1>2 DEF WasSent
  <1>4. /\ Ordered(e)' /\ InTurn(e)'
        /\ e = d /\ frame[e] # NoFrame /\ frame[e].id = f.id => Rank(frame[e]) < Rank(f)
    BY CaptureOrder
  <1>5. ASSUME NEW g, InQ(e, g)', g # GoAway
        PROVE  /\ WasSent(e, g)'
               /\ frame[e].id = g.id => Rank(frame[e]) < Rank(g)
    <2>1. InQ(e, g) \/ (e = d /\ g = f)
      BY <1>5, CaptureFacts
    <2>2. CASE InQ(e, g)
      BY <1>5, <2>2, QFacts, WasSentStep, RankFacts
    <2>3. CASE e = d /\ g = f
      <3>1. g.id \in Calls
        BY <1>5, <2>3, RankFacts
      <3>2. frame[e].id = g.id => frame[e] # NoFrame
        BY <3>1, NoCall
      <3> QED BY <1>4, <1>5, <2>3, <3>2
    <2> QED BY <2>1, <2>2, <2>3
  <1> QED BY <1>3, <1>4, <1>5 DEF Behind, InQ

\* What is queued before a step is queued or handled after it.
LEMMA QueueKept ==
  ASSUME TypeInv, [Next]_vars, queue' = queue,
         \A d \in Dirs : frame'[d] = frame[d] \/ frame'[d] = NoFrame, QueueInv
  PROVE  QueueInv'
  <1> SUFFICES ASSUME NEW d \in Dirs
               PROVE  /\ frame'[d] # NoFrame => WasSent(d, frame[d])'
                      /\ Behind(d)' /\ Ordered(d)' /\ InTurn(d)'
    BY DEF QueueInv
  <1>1. Ordered(d)' /\ InTurn(d)'
    BY NetFacts DEF QueueInv, Before, Ordered, InTurn
  <1>2. ASSUME NEW g \in InFrames(d), WasSent(d, g) PROVE WasSent(d, g)'
    BY <1>2, WasSentStep, RankFacts
  <1>3. PICK f : f = frame'[d]
    OBVIOUS
  <1>4. f # NoFrame => WasSent(d, f)'
    <2>1. f # NoFrame => f = frame[d] /\ f \in InFrames(d) /\ WasSent(d, f)
      BY <1>3, FrameSets DEF TypeInv, HandlerType, QueueInv
    <2> QED BY <1>2, <2>1
  <1>5. frame'[d] # NoFrame => WasSent(d, frame[d])'
    BY <1>3, <1>4 DEF WasSent
  <1>6. Behind(d)'
    <2>1. ASSUME NEW g, InQ(d, g)', g # GoAway
          PROVE  /\ WasSent(d, g)'
                 /\ frame'[d].id = g.id => Rank(frame'[d]) < Rank(g)
      <3>1. /\ g \in InFrames(d) /\ WasSent(d, g) /\ g.id \in Calls
            /\ frame[d].id = g.id => Rank(frame[d]) < Rank(g)
        BY <2>1, SameQ, QFacts, RankFacts
      <3>2. frame'[d].id = g.id => frame'[d] = frame[d]
        BY <3>1, NoCall
      <3> QED BY <1>2, <3>1, <3>2
    <2> QED BY <2>1 DEF Behind, InQ
  <1> QED BY <1>1, <1>5, <1>6

\* A frame taken keeps QueueInv.
LEMMA QueueTake ==
  ASSUME TypeInv, [Next]_vars, NEW d \in Dirs, Take(d), QueueInv
  PROVE  QueueInv'
  <1> SUFFICES ASSUME NEW e \in Dirs
               PROVE  /\ frame'[e] # NoFrame => WasSent(e, frame[e])'
                      /\ Behind(e)' /\ Ordered(e)' /\ InTurn(e)'
    BY DEF QueueInv
  <1>1. PICK f : f = Head(queue[d])
    OBVIOUS
  <1>2. ASSUME NEW g \in InFrames(e), WasSent(e, g) PROVE WasSent(e, g)'
    BY <1>2, WasSentStep, RankFacts
  <1>3. PICK h : h = frame'[e]
    OBVIOUS
  <1>4. h # NoFrame => h \in InFrames(e) /\ WasSent(e, h)
    <2>1. CASE h = frame[e]
      <3>1. frame[e] \in CallFrames(e) \cup {NoFrame}
        BY DEF TypeInv, HandlerType
      <3>2. frame[e] # NoFrame => WasSent(e, frame[e])
        BY DEF QueueInv
      <3> QED BY <2>1, <3>1, <3>2, FrameSets
    <2>2. CASE e = d /\ f \in CallFrames(d) /\ h = f
      <3>1. f \in InFrames(d) /\ f # GoAway /\ InQ(d, f)
        BY <1>1, <2>2, TakeFacts, FrameSets, FrameCases
      <3> QED BY <2>2, <3>1, QFacts
    <2> QED BY <1>1, <1>3, <2>1, <2>2, TakeFacts
  <1>5. frame'[e] # NoFrame => WasSent(e, frame[e])'
    BY <1>2, <1>3, <1>4 DEF WasSent
  <1>6. ASSUME NEW g, InQ(e, g)', g # GoAway
        PROVE  /\ WasSent(e, g)'
               /\ frame'[e].id = g.id => Rank(frame'[e]) < Rank(g)
    <2>1. InQ(e, g)
      BY <1>1, <1>6, TakeFacts
    <2>2. /\ g \in InFrames(e) /\ WasSent(e, g)
          /\ frame[e].id = g.id => Rank(frame[e]) < Rank(g)
      BY <1>6, <2>1, QFacts
    <2>3. frame'[e].id = g.id => Rank(frame'[e]) < Rank(g)
      <3>1. CASE frame'[e] = frame[e]
        BY <2>2, <3>1
      <3>2. CASE e = d /\ f \in CallFrames(d) /\ frame'[e] = f
        BY <1>1, <1>6, <3>2, TakeFacts, FrameSets, FrameCases
      <3> QED BY <1>1, <3>1, <3>2, TakeFacts
    <2> QED BY <1>2, <2>2, <2>3
  <1>7. Behind(e)'
    BY <1>6 DEF Behind, InQ
  <1>8. Ordered(e)' /\ InTurn(e)'
    <2>1. Ordered(e) /\ InTurn(e) /\ cancelled' = cancelled
      BY TakeFacts DEF QueueInv
    <2>2. queue[d] # <<>> /\ queue' = [queue EXCEPT ![d] = Tail(@)]
      BY DEF Take
    <2>3. CASE e # d
      <3>1. queue'[e] = queue[e]
        BY <2>2, <2>3, TailQ
      <3> QED BY <2>1, <3>1 DEF Ordered, InTurn, Before
    <2>4. CASE e = d
      <3>1. /\ DOMAIN queue[d] = 1 .. Len(queue[d])
            /\ DOMAIN queue'[d] = 1 .. Len(queue[d]) - 1
            /\ \A i \in DOMAIN queue'[d] : queue'[d][i] = queue[d][i + 1]
            /\ Len(queue[d]) \in Nat \ {0}
        BY <2>2, TailQ
      <3>2. ASSUME NEW i \in DOMAIN queue'[d], NEW j \in DOMAIN queue'[d], i < j
            PROVE  /\ i + 1 \in DOMAIN queue[d] /\ j + 1 \in DOMAIN queue[d] /\ i + 1 < j + 1
                   /\ queue'[d][i] = queue[d][i + 1] /\ queue'[d][j] = queue[d][j + 1]
        BY <3>1, <3>2
      <3>3. Ordered(e)'
        BY <2>1, <2>4, <3>2 DEF Ordered
      <3>4. InTurn(e)'
        BY <2>1, <2>4, <3>2 DEF InTurn, Before
      <3> QED BY <3>3, <3>4
    <2> QED BY <2>3, <2>4
  <1> QED BY <1>5, <1>7, <1>8

\* Of a call that was followed by another one on its slot, the server alone
\* sends more, and only if it was cancelled.
LEMMA LaterCall ==
  ASSUME TypeInv, SentInv, NEW q \in Calls, NEW d \in Dirs, NEW g \in InFrames(d),
         WasSent(d, g), q < g.id, SlotOf(g.id) = SlotOf(q)
  PROVE  ~ Request(q) /\ ~ Cancel(q) /\ (Respond(q) => q \in cancelled)
  <1>1. g.id \in Calls /\ Rank(g) \in 1 .. 3
    BY RankFacts
  <1>2. sent["in"][g.id] > 0
    BY <1>1, WasBegun
  <1>3. sent["out"][q] = 2 \/ q \in cancelled
    BY <1>1, <1>2, EndedFacts, DirFacts DEF SentInv, Done
  <1>4. sent["out"][q] > 0 => sent["in"][q] = 2
    BY DEF SentInv
  <1>5. ~ Request(q)
    BY <1>3, <1>4, RequestFacts
  <1>6. ~ Cancel(q)
    BY <1>1, <1>2, SentType, DirFacts, CancelFacts
  <1>7. Respond(q) => q \in cancelled
    BY <1>3, RespondFacts
  <1> QED BY <1>5, <1>6, <1>7

\* Every step keeps QueueInv.
LEMMA QueueStep ==
  ASSUME TypeInv, SentInv, QueueInv, [Next]_vars
  PROVE  QueueInv'
  <1>1. ASSUME NEW r \in Calls, Request(r) PROVE QueueInv'
    <2>1. PICK f : f = NextIn(r)
      OBVIOUS
    <2>2. /\ Capture("in", f) /\ f \in CallFrames("in") /\ f.id = r
          /\ Rank(f) = sent["in"][r] + 1 /\ f # GoAway /\ frame' = frame
          /\ sent'["in"][r] = sent["in"][r] + 1 /\ r \notin cancelled
          /\ sent["in"][r] \in {0, 1}
      BY <1>1, <2>1, RequestFacts DEF code
    <2>3. f \in InFrames("in") /\ f.kind # "rst" /\ "in" \in Dirs
      BY <2>2, FrameSets, FrameEnds, DirFacts
    <2>4. WasSent("in", f)'
      BY <2>2, <2>3, RankFacts DEF WasSent
    <2>5. ASSUME NEW g \in InFrames("in"), WasSent("in", g), g.id = f.id PROVE Rank(g) < Rank(f)
      <3>1. g.kind # "rst"
        BY <2>2, <2>5 DEF WasSent
      <3> QED BY <2>2, <2>3, <2>5, <3>1, RankFacts DEF WasSent
    <2>6. \A g \in InFrames("in") :
             WasSent("in", g) /\ f.id < g.id /\ SlotOf(g.id) = SlotOf(f.id) => FALSE
      BY <1>1, <2>2, <2>3, LaterCall
    <2> QED BY <2>2, <2>3, <2>4, <2>5, <2>6, QueueCapture
  <1>2. ASSUME NEW r \in Calls, Respond(r) PROVE QueueInv'
    <2>1. CASE RecordResponse
      <3>1. PICK f : f = NextOut(r)
        OBVIOUS
      <3>2. /\ Capture("out", f) /\ f \in CallFrames("out") /\ f.id = r
            /\ Rank(f) = sent["out"][r] + 1 /\ f # GoAway /\ frame' = frame
            /\ sent'["out"][r] = sent["out"][r] + 1
            /\ sent["out"][r] \in {0, 1}
        BY <1>2, <2>1, <3>1, RespondFacts DEF code
      <3>3. f \in InFrames("out") /\ f.kind # "rst" /\ "out" \in Dirs
        BY <3>2, FrameSets, FrameEnds, DirFacts
      <3>4. WasSent("out", f)'
        BY <3>2, <3>3, RankFacts DEF WasSent
      <3>5. ASSUME NEW g \in InFrames("out"), WasSent("out", g), g.id = f.id PROVE Rank(g) < Rank(f)
        <4>1. g.kind # "rst"
          BY <3>3, RankFacts, DirFacts
        <4> QED BY <3>2, <3>3, <3>5, <4>1, RankFacts DEF WasSent
      <3>6. \A g \in InFrames("out") :
               WasSent("out", g) /\ f.id < g.id /\ SlotOf(g.id) = SlotOf(f.id) => f.id \in cancelled
        BY <1>2, <3>2, <3>3, LaterCall
      <3> QED BY <3>2, <3>3, <3>4, <3>5, <3>6, QueueCapture
    <2>2. CASE ~ RecordResponse
      <3>1. queue' = queue /\ frame' = frame
        BY <1>2, <2>2, RespondFacts DEF code
      <3> QED BY <3>1, QueueKept
    <2> QED BY <2>1, <2>2
  <1>3. ASSUME NEW r \in Calls, Cancel(r) PROVE QueueInv'
    <2>1. PICK f : f = RST(r)
      OBVIOUS
    <2>2. /\ Capture("in", f) /\ f.id = r /\ f.kind = "rst" /\ Rank(f) = 3
          /\ f \in InFrames("in") /\ frame' = frame /\ "in" \in Dirs
          /\ r \notin cancelled /\ r \in cancelled'
      BY <1>3, <2>1, CancelFacts, FrameFacts, FrameSets, DirFacts DEF code
    <2>4. WasSent("in", f)'
      BY <2>2 DEF WasSent
    <2>5. ASSUME NEW g \in InFrames("in"), WasSent("in", g), g.id = f.id PROVE Rank(g) < Rank(f)
      <3>1. g.kind # "rst"
        BY <2>2, <2>5 DEF WasSent
      <3> QED BY <2>2, <2>5, <3>1, RankFacts DEF WasSent
    <2>6. \A g \in InFrames("in") :
             WasSent("in", g) /\ f.id < g.id /\ SlotOf(g.id) = SlotOf(f.id) => FALSE
      BY <1>3, <2>2, LaterCall
    <2> QED BY <2>2, <2>4, <2>5, <2>6, QueueCapture
  <1>4. ASSUME NEW d \in Dirs, SayGoAway(d) PROVE QueueInv'
    <2>1. Capture(d, GoAway) /\ frame' = frame
      BY <1>4 DEF SayGoAway, code
    <2>2. \A g \in InFrames(d) : g.id # GoAway.id
      BY RankFacts, NoCall
    <2> QED BY <2>1, <2>2, QueueCapture
  <1>5. ASSUME NEW d \in Dirs, Take(d) PROVE QueueInv'
    BY <1>5, QueueTake
  <1>6. ASSUME NEW d \in Dirs, Store(d) \/ MovesOn(d) PROVE QueueInv'
    BY <1>6, QueueKept, StoreStep, MoveFacts
  <1>7. ASSUME NEW d \in Dirs, GoesBack(d) \/ FinishReset(d) PROVE QueueInv'
    <2>1. queue' = queue /\ \A e \in Dirs : frame'[e] = frame[e] \/ frame'[e] = NoFrame
      BY <1>7, BackFacts
    <2> QED BY <2>1, QueueKept
  <1>8. CASE Consume \/ UNCHANGED vars
    <2>1. queue' = queue /\ frame' = frame
      BY <1>8 DEF Consume, vars, net, code
    <2> QED BY <2>1, QueueKept
  <1> QED BY <1>1, <1>2, <1>3, <1>4, <1>5, <1>6, <1>7, <1>8, Cases

-----------------------------------------------------------------------------
(* What a step can change, variable by variable. *)

\* A goroutine works on the frame it has.
Works(d) == Store(d) \/ MovesOn(d) \/ GoesBack(d) \/ FinishReset(d)

\* A frame is captured, or taken from its queue.
Sends(d, g) ==
    \/ d = "in" /\ g.id \in Calls /\ \/ Request(g.id) /\ g = NextIn(g.id)
                                     \/ Cancel(g.id) /\ g = RST(g.id)
    \/ d = "out" /\ g.id \in Calls /\ RecordResponse /\ Respond(g.id) /\ g = NextOut(g.id)
Takes(d, g) == Take(d) /\ g = Head(queue[d])

\* A slot is emptied.
Empties(s) == \/ \E d \in Dirs : FinishReset(d) /\ S(d) = s
              \/ \E r \in Calls : SlotOf(r) = s /\ Takes("in", RST(r))

\* The steps that change no queue.
LEMMA WorkFacts ==
  ASSUME TypeInv, NEW d \in Dirs, Works(d)
  PROVE  /\ UNCHANGED <<RecordResponse, queue, sent, cancelled>>
         /\ \A e \in Dirs : \A g : InQ(e, g)' <=> InQ(e, g)
         /\ frame[d] # NoFrame /\ pc[d] # "idle"
         /\ \A e \in Dirs \ {d} : frame'[e] = frame[e] /\ pc'[e] = pc[e]
  <1>1. /\ UNCHANGED <<RecordResponse, queue, sent, cancelled>>
        /\ frame[d] # NoFrame
        /\ \A e \in Dirs \ {d} : frame'[e] = frame[e] /\ pc'[e] = pc[e]
    BY StoreStep, MoveFacts, BackFacts DEF Works
  <1>2. \A e \in Dirs : \A g : InQ(e, g)' <=> InQ(e, g)
    BY <1>1, SameQ
  <1>3. pc[d] # "idle"
    BY <1>1, AtHand
  <1> QED BY <1>1, <1>2, <1>3

\* What is queued stays so until it is taken.
LEMMA QStep ==
  ASSUME TypeInv, QueueInv, [Next]_vars, NEW d \in Dirs, NEW g, g.id \in Calls
  PROVE  /\ InQ(d, g)' => InQ(d, g) \/ Sends(d, g)
         /\ InQ(d, g) => InQ(d, g)' \/ Takes(d, g)
         /\ Takes(d, g) => InQ(d, g) /\ ~ InQ(d, g)'
         /\ Sends(d, g) => InQ(d, g)'
  <1> DEFINE Same == \A e \in Dirs : \A h : InQ(e, h)' <=> InQ(e, h)
  <1>0. g # GoAway
    BY NoCall
  <1>1. ASSUME NEW r \in Calls, Request(r)
        PROVE  \A e \in Dirs : \A h : InQ(e, h)' <=> InQ(e, h) \/ (e = "in" /\ h = NextIn(r))
    BY <1>1, RequestFacts, CaptureFacts, DirFacts
  <1>2. ASSUME NEW r \in Calls, Respond(r), RecordResponse
        PROVE  \A e \in Dirs : \A h : InQ(e, h)' <=> InQ(e, h) \/ (e = "out" /\ h = NextOut(r))
    BY <1>2, RespondFacts, CaptureFacts, DirFacts
  <1>3. ASSUME NEW r \in Calls, Cancel(r)
        PROVE  \A e \in Dirs : \A h : InQ(e, h)' <=> InQ(e, h) \/ (e = "in" /\ h = RST(r))
    BY <1>3, CancelFacts, CaptureFacts, DirFacts
  <1>4. ASSUME NEW r \in Calls, Request(r) \/ Respond(r) \/ Cancel(r), NEW e \in Dirs
        PROVE  ~ Take(e)
    <2>1. queue[e] # <<>> => Len(queue[e]) \in Nat \ {0} /\ DOMAIN queue[e] = 1 .. Len(queue[e])
      BY QueueType
    <2>2. Take(e) => queue[e] # <<>> /\ queue'[e] = Tail(queue[e])
      BY DEF Take, TypeInv, QueuesType
    <2>3. \A h : InQ(e, h) => InQ(e, h)'
      BY <1>1, <1>2, <1>3, <1>4, RespondFacts, SameQ
    <2>4. Take(e) => Head(queue[e]) \in InFrames(e) \cup {GoAway}
      BY HeadFacts
    <2>5. Take(e) /\ Head(queue[e]) # GoAway => FALSE
      <3>1. ASSUME Take(e), Head(queue[e]) # GoAway PROVE FALSE
        <4>1. PICK h : h = Head(queue[e])
          OBVIOUS
        <4>2. InQ(e, h) /\ h \in InFrames(e)
          BY <3>1, <4>1, TakeFacts
        <4>3. InQ(e, h)'
          BY <2>3, <4>2
        <4>4. Rank(h) < Rank(h)
          BY <3>1, <4>1, <4>3, TakeFacts
        <4> QED BY <4>2, <4>4, RankFacts
      <3> QED BY <3>1
    <2>6. Take(e) /\ Head(queue[e]) = GoAway => FALSE
      <3>1. code' = code
        BY <1>4, RequestFacts, RespondFacts, CancelFacts
      <3>2. Take(e) /\ Head(queue[e]) = GoAway => sent' = sent /\ cancelled' = cancelled
        BY TakeFacts
      <3>3. sent' # sent \/ cancelled' # cancelled
        <4>1. Request(r) => sent'["in"][r] # sent["in"][r]
          BY RequestFacts
        <4>2. Respond(r) => sent'["out"][r] # sent["out"][r]
          BY RespondFacts
        <4>3. Cancel(r) => cancelled' # cancelled
          BY CancelFacts
        <4> QED BY <1>4, <4>1, <4>2, <4>3
      <3> QED BY <3>2, <3>3
    <2> QED BY <2>5, <2>6
  <1>5. CASE \E r \in Calls : Request(r) \/ Respond(r) \/ Cancel(r)
    <2>1. PICK r \in Calls : Request(r) \/ Respond(r) \/ Cancel(r)
      BY <1>5
    <2>2. ~ Takes(d, g)
      BY <1>4, <2>1 DEF Takes
    <2>3. CASE Request(r)
      <3>1. InQ(d, g)' <=> InQ(d, g) \/ (d = "in" /\ g = NextIn(r))
        BY <1>1, <2>3
      <3>2. NextIn(r).id = r
        BY <2>3, RequestFacts
      <3>3. Sends(d, g) => InQ(d, g)'
        BY <1>1, <1>2, <1>3, DirFacts DEF Sends
      <3> QED BY <2>2, <2>3, <3>1, <3>2, <3>3 DEF Sends
    <2>4. CASE Respond(r) /\ RecordResponse
      <3>1. InQ(d, g)' <=> InQ(d, g) \/ (d = "out" /\ g = NextOut(r))
        BY <1>2, <2>4
      <3>2. NextOut(r).id = r
        BY <2>4, RespondFacts
      <3>3. Sends(d, g) => InQ(d, g)'
        BY <1>1, <1>2, <1>3, DirFacts DEF Sends
      <3> QED BY <2>2, <2>4, <3>1, <3>2, <3>3 DEF Sends
    <2>5. CASE Respond(r) /\ ~ RecordResponse
      <3>1. InQ(d, g)' <=> InQ(d, g)
        BY <2>5, RespondFacts, SameQ
      <3>2. Sends(d, g) => InQ(d, g)'
        BY <1>1, <1>3, <2>5, DirFacts DEF Sends
      <3> QED BY <2>2, <3>1, <3>2
    <2>6. CASE Cancel(r)
      <3>1. InQ(d, g)' <=> InQ(d, g) \/ (d = "in" /\ g = RST(r))
        BY <1>3, <2>6
      <3>2. RST(r).id = r
        BY <2>6, CancelFacts
      <3>3. Sends(d, g) => InQ(d, g)'
        BY <1>1, <1>2, <1>3, DirFacts DEF Sends
      <3> QED BY <2>2, <2>6, <3>1, <3>2, <3>3 DEF Sends
    <2> QED BY <2>1, <2>3, <2>4, <2>5, <2>6
  <1>6. CASE ~ \E r \in Calls : Request(r) \/ Respond(r) \/ Cancel(r)
    <2>1. ~ Sends(d, g)
      BY <1>6 DEF Sends
    <2>2. CASE Take(d)
      <3>1. PICK f : f = Head(queue[d])
        OBVIOUS
      <3>2. /\ \A h : InQ(d, h) <=> InQ(d, h)' \/ h = f
            /\ f # GoAway => \A h : InQ(d, h)' /\ h.id = f.id => Rank(f) < Rank(h)
            /\ f \in InFrames(d) \cup {GoAway}
        BY <2>2, <3>1, TakeFacts
      <3>3. g = f => ~ InQ(d, g)'
        <4>1. g = f => Rank(f) \in 1 .. 3
          BY <1>0, <3>2, RankFacts
        <4> QED BY <1>0, <3>2, <4>1
      <3> QED BY <2>1, <2>2, <3>1, <3>2, <3>3 DEF Takes
    <2>3. CASE ~ Take(d)
      <3>1. InQ(d, g)' <=> InQ(d, g)
        <4>1. ASSUME NEW e \in Dirs, Take(e) PROVE InQ(d, g)' <=> InQ(d, g)
          BY <2>3, <4>1, TakeFacts
        <4>2. ASSUME NEW e \in Dirs, SayGoAway(e) PROVE InQ(d, g)' <=> InQ(d, g)
          <5>1. Capture(e, GoAway)
            BY <4>2 DEF SayGoAway
          <5> QED BY <1>0, <5>1, CaptureFacts
        <4>3. ASSUME NEW e \in Dirs, Works(e) PROVE InQ(d, g)' <=> InQ(d, g)
          BY <4>3, WorkFacts
        <4>4. CASE Consume \/ UNCHANGED vars
          <5>1. queue' = queue
            BY <4>4 DEF Consume, vars, net
          <5> QED BY <5>1, SameQ
        <4> QED BY <1>6, <4>1, <4>2, <4>3, <4>4, Cases DEF Works
      <3> QED BY <2>1, <2>3, <3>1 DEF Takes
    <2> QED BY <2>2, <2>3
  <1> QED BY <1>5, <1>6

\* A goroutine keeps its frame until it goes back to its loop.
LEMMA FStep ==
  ASSUME TypeInv, QueueInv, [Next]_vars, NEW d \in Dirs
  PROVE  \/ /\ frame'[d] = frame[d]
            /\ \/ pc'[d] = pc[d] /\ ~ Works(d)
               \/ Store(d) \/ MovesOn(d)
         \/ /\ frame[d] = NoFrame /\ frame'[d] = Head(queue[d]) /\ pc'[d] = "store"
            /\ Take(d) /\ Head(queue[d]) \in CallFrames(d)
         \/ (GoesBack(d) \/ FinishReset(d)) /\ frame'[d] = NoFrame /\ pc'[d] = "idle"
  <1>1. CASE Works(d)
    BY <1>1, StoreStep, MoveFacts, BackFacts DEF Works
  <1>2. CASE ~ Works(d) /\ Take(d)
    <2>1. PICK f : f = Head(queue[d])
      OBVIOUS
    <2> QED BY <1>2, <2>1, TakeFacts
  <1>3. CASE ~ Works(d) /\ ~ Take(d)
    <2>1. frame'[d] = frame[d] /\ pc'[d] = pc[d]
      <3>1. ASSUME NEW r \in Calls, Request(r) \/ Respond(r) \/ Cancel(r)
            PROVE  frame' = frame /\ pc' = pc
        BY <3>1, RequestFacts, RespondFacts, CancelFacts DEF code
      <3>2. ASSUME NEW e \in Dirs, SayGoAway(e) PROVE frame' = frame /\ pc' = pc
        BY <3>2 DEF SayGoAway, code
      <3>3. CASE Consume \/ UNCHANGED vars
        BY <3>3 DEF Consume, vars, code
      <3>4. ASSUME NEW e \in Dirs \ {d}, Take(e) PROVE frame'[d] = frame[d] /\ pc'[d] = pc[d]
        BY <3>4, TakeFacts
      <3>5. ASSUME NEW e \in Dirs \ {d}, Works(e) PROVE frame'[d] = frame[d] /\ pc'[d] = pc[d]
        BY <3>5, WorkFacts
      <3> QED BY <1>3, <3>1, <3>2, <3>3, <3>4, <3>5, Cases DEF Works
    <2> QED BY <1>3, <2>1
  <1> QED BY <1>1, <1>2, <1>3

\* How a slot's items change, in a step that does not empty it.
KeepsSlot(s) == Streams'[s] = Streams[s]
StoresAt(s) == \E d \in Dirs :
    /\ Store(d) /\ S(d) = s
    /\ \A e \in Dirs : Streams'[s][e].end = Streams[s][e].end
    /\ \A e \in Dirs \ {d} : Streams'[s][e] = Streams[s][e]
    /\ Streams'[s][d].parts = Stored(Streams[s][d].parts, frame[d])
TakesAt(s) == \E d \in Dirs :
    /\ Take(d) /\ Head(queue[d]) \in CallFrames(d) /\ SlotOf(Head(queue[d]).id) = s
    /\ \A e \in Dirs : Streams'[s][e].parts = Streams[s][e].parts
    /\ \A e \in Dirs \ {d} : Streams'[s][e] = Streams[s][e]
    /\ Streams'[s][d].end = Head(queue[d]).end
Emptied(s) == Empties(s) /\ Streams'[s] = EmptyStream /\ <<s, done'[s]>> \notin tokens'

\* A step empties a slot, or keeps its channel.
LEMMA SlotStep ==
  ASSUME TypeInv, QueueInv, [Next]_vars, NEW s \in Slots
  PROVE  \/ Emptied(s)
         \/ done'[s] = done[s] /\ (KeepsSlot(s) \/ StoresAt(s) \/ TakesAt(s))
  <1>1. ASSUME NEW r \in Calls, Request(r) \/ Respond(r) \/ Cancel(r)
        PROVE  Streams' = Streams /\ done' = done
    BY <1>1, RequestFacts, RespondFacts, CancelFacts DEF code
  <1>2. ASSUME NEW d \in Dirs, SayGoAway(d) PROVE Streams' = Streams /\ done' = done
    BY <1>2 DEF SayGoAway, code
  <1>3. CASE Consume \/ UNCHANGED vars
    BY <1>3 DEF Consume, vars, code, KeepsSlot
  <1>4. ASSUME NEW d \in Dirs, MovesOn(d) \/ GoesBack(d)
        PROVE  Streams' = Streams /\ done' = done
    BY <1>4, MoveFacts, BackFacts
  <1>5. ASSUME NEW d \in Dirs, Store(d)
        PROVE  done'[s] = done[s] /\ (KeepsSlot(s) \/ StoresAt(s))
    <2>1. done' = done
      BY <1>5, StoreStep
    <2>2. CASE S(d) = s
      BY <1>5, <2>1, <2>2, StoreFacts DEF StoresAt
    <2>3. CASE S(d) # s
      BY <1>5, <2>1, <2>3, StoreFacts DEF KeepsSlot
    <2> QED BY <2>2, <2>3
  <1>6. ASSUME NEW d \in Dirs, FinishReset(d)
        PROVE  Emptied(s) \/ (done'[s] = done[s] /\ KeepsSlot(s))
    <2>1. Reset(S(d)) /\ S(d) \in Slots
      BY <1>6, BackFacts, AtHand
    <2>2. CASE S(d) = s
      BY <1>6, <2>1, <2>2, ResetFacts, NewDoneFacts DEF Emptied, Empties
    <2>3. CASE S(d) # s
      BY <2>1, <2>3, ResetFacts, NewDoneFacts DEF KeepsSlot
    <2> QED BY <2>2, <2>3
  <1>7. ASSUME NEW d \in Dirs, Take(d)
        PROVE  Emptied(s) \/ (done'[s] = done[s] /\ (KeepsSlot(s) \/ TakesAt(s)))
    <2>1. PICK f : f = Head(queue[d])
      OBVIOUS
    <2>2. CASE f \in CallFrames(d)
      <3>1. TakeFrame(d, f) /\ done' = done
        BY <1>7, <2>1, <2>2, TakeFacts DEF TakeFrame
      <3>2. CASE SlotOf(f.id) = s
        BY <1>7, <2>1, <2>2, <3>1, <3>2, TakeStreams DEF TakesAt
      <3>3. CASE SlotOf(f.id) # s
        BY <2>1, <2>2, <3>1, <3>3, TakeStreams DEF KeepsSlot
      <3> QED BY <3>2, <3>3
    <2>3. CASE d = "in" /\ \E r \in Calls : f = RST(r)
      <3>1. PICK r \in Calls : f = RST(r)
        BY <2>3
      <3>2. Reset(SlotOf(r)) /\ SlotOf(r) \in Slots
        BY <1>7, <2>1, <3>1, TakeFacts, CallFacts
      <3>3. CASE SlotOf(r) = s
        BY <1>7, <2>1, <2>3, <3>1, <3>2, <3>3, ResetFacts, NewDoneFacts DEF Emptied, Empties, Takes
      <3>4. CASE SlotOf(r) # s
        BY <3>2, <3>4, ResetFacts, NewDoneFacts DEF KeepsSlot
      <3> QED BY <3>3, <3>4
    <2>4. CASE f = GoAway
      BY <1>7, <2>1, <2>4, TakeFacts DEF KeepsSlot
    <2>5. f \in InFrames(d) \cup {GoAway}
      BY <1>7, <2>1, TakeFacts
    <2> QED BY <2>2, <2>3, <2>4, <2>5, FrameCases
  <1>8. ASSUME Streams' = Streams, done' = done PROVE done'[s] = done[s] /\ KeepsSlot(s)
    BY <1>8 DEF KeepsSlot
  <1> QED BY <1>1, <1>2, <1>3, <1>4, <1>5, <1>6, <1>7, <1>8, Cases DEF vars, code, Consume

\* A step that finishes a call or takes its cancellation empties its slot.
LEMMA EmptiesFacts ==
  ASSUME TypeInv, QueueInv, [Next]_vars, NEW s \in Slots, Empties(s)
  PROVE  Streams'[s] = EmptyStream /\ <<s, done'[s]>> \notin tokens'
  <1>1. Reset(s)
    <2>1. ASSUME NEW d \in Dirs, FinishReset(d), S(d) = s PROVE Reset(s)
      BY <2>1, BackFacts
    <2>2. ASSUME NEW r \in Calls, SlotOf(r) = s, Takes("in", RST(r)) PROVE Reset(s)
      <3>1. PICK f : f = Head(queue["in"])
        OBVIOUS
      <3> QED BY <2>2, <3>1, TakeFacts, DirFacts DEF Takes
    <2> QED BY <2>1, <2>2 DEF Empties
  <1> QED BY <1>1, ResetFacts, NewDoneFacts

\* A slot has parts that it had before, or that are stored now.
LEMMA PartsStep ==
  ASSUME TypeInv, QueueInv, [Next]_vars, NEW s \in Slots, NEW d \in Dirs,
         NEW p \in Streams'[s][d].parts
  PROVE  \/ p \in Streams[s][d].parts
         \/ Store(d) /\ s = S(d) /\ p = <<frame[d].id, frame[d].kind>>
  <1>1. CASE Emptied(s)
    BY <1>1, EmptyFacts DEF Emptied
  <1>2. CASE KeepsSlot(s) \/ TakesAt(s)
    BY <1>2 DEF KeepsSlot, TakesAt
  <1>3. CASE StoresAt(s)
    <2>1. PICK e \in Dirs : /\ Store(e) /\ S(e) = s
                            /\ \A c \in Dirs \ {e} : Streams'[s][c] = Streams[s][c]
                            /\ Streams'[s][e].parts = Stored(Streams[s][e].parts, frame[e])
      BY <1>3 DEF StoresAt
    <2>2. CASE d = e
      <3>1. p \in Stored(Streams[s][e].parts, frame[e])
        BY <2>1, <2>2
      <3>2. p \in Streams[s][e].parts \/ p = <<frame[e].id, frame[e].kind>>
        BY <3>1, StoredFacts
      <3> QED BY <2>1, <2>2, <3>2
    <2>3. CASE d # e
      BY <2>1, <2>3
    <2> QED BY <2>2, <2>3
  <1> QED BY <1>1, <1>2, <1>3, SlotStep

\* A part that is not of the frame's kind survives, when the slot is not emptied.
LEMMA PartsKept ==
  ASSUME TypeInv, QueueInv, [Next]_vars, NEW s \in Slots, NEW d \in Dirs,
         NEW p \in Streams[s][d].parts, ~ Empties(s)
  PROVE  \/ p \in Streams'[s][d].parts
         \/ Store(d) /\ S(d) = s /\ p[1] # frame[d].id
  <1>2. CASE KeepsSlot(s) \/ TakesAt(s)
    BY <1>2 DEF KeepsSlot, TakesAt
  <1>3. CASE StoresAt(s)
    <2>1. PICK e \in Dirs : /\ Store(e) /\ S(e) = s
                            /\ \A c \in Dirs \ {e} : Streams'[s][c] = Streams[s][c]
                            /\ Streams'[s][e].parts = Stored(Streams[s][e].parts, frame[e])
      BY <1>3 DEF StoresAt
    <2>2. CASE d = e
      <3>1. p \in Calls \X {"headers", "data", "trailers"}
        BY ItemFacts DEF Parts
      <3>2. p = <<p[1], p[2]>>
        BY <3>1
      <3>3. p[2] # frame[e].kind => p \in Streams'[s][d].parts
        <4>1. p \in Streams[s][e].parts
          BY <2>2
        <4>2. p[2] # frame[e].kind => p \in Stored(Streams[s][e].parts, frame[e])
          BY <4>1, StoredFacts
        <4> QED BY <2>1, <2>2, <4>2
      <3>4. p[2] = frame[e].kind /\ p[1] = frame[e].id => p \in Streams'[s][d].parts
        BY <2>1, <2>2, <3>2, StoredFacts
      <3> QED BY <2>1, <2>2, <3>3, <3>4
    <2>3. CASE d # e
      BY <2>1, <2>3
    <2> QED BY <2>2, <2>3
  <1> QED BY <1>2, <1>3, SlotStep DEF Emptied

\* The token in a stream's channel was there or is put there now.
LEMMA TokenStep ==
  ASSUME TypeInv, QueueInv, [Next]_vars, NEW s \in Slots, <<s, done'[s]>> \in tokens'
  PROVE  /\ ~ Empties(s) /\ done'[s] = done[s]
         /\ \/ <<s, done[s]>> \in tokens
            \/ Put /\ ch["in"] = <<s, done[s]>>
  <1>1. ~ Empties(s) /\ done'[s] = done[s]
    BY EmptiesFacts, SlotStep DEF Emptied
  <1>2. PICK t : t = <<s, done[s]>>
    OBVIOUS
  <1>3. t \in tokens'
    BY <1>1, <1>2
  <1>4. t \in tokens \/ (Put /\ t = ch["in"])
    <2>1. ASSUME NEW r \in Calls, Request(r) \/ Respond(r) \/ Cancel(r) PROVE tokens' = tokens
      BY <2>1, RequestFacts, RespondFacts, CancelFacts DEF code
    <2>2. ASSUME NEW d \in Dirs, SayGoAway(d) PROVE tokens' = tokens
      BY <2>2 DEF SayGoAway, code
    <2>3. CASE Consume \/ UNCHANGED vars
      BY <1>3, <2>3 DEF Consume, vars, code
    <2>4. ASSUME NEW d \in Dirs, Store(d) \/ Check(d) \/ Finish(d) \/ Send(d) \/ Signal
          PROVE  tokens' = tokens
      BY <2>4 DEF Store, Check, Finish, Send, Signal
    <2>5. ASSUME NEW d \in Dirs, Wait(d) PROVE tokens' \subseteq tokens
      BY <2>5 DEF Wait
    <2>6. Put => tokens' = tokens \cup {ch["in"]}
      BY DEF Put
    <2>7. ASSUME NEW d \in Dirs, FinishReset(d) PROVE tokens' \subseteq tokens
      <3>1. Reset(S(d)) /\ S(d) \in Slots
        BY <2>7, BackFacts, AtHand
      <3> QED BY <3>1, ResetFacts, NewDoneFacts
    <2>8. ASSUME NEW d \in Dirs, Take(d) PROVE tokens' \subseteq tokens
      <3>1. PICK f : f = Head(queue[d])
        OBVIOUS
      <3>2. CASE f \in CallFrames(d)
        BY <2>8, <3>1, <3>2, TakeFacts DEF TakeFrame
      <3>3. ASSUME NEW r \in Calls, f = RST(r) PROVE tokens' \subseteq tokens
        <4>1. Reset(SlotOf(r)) /\ SlotOf(r) \in Slots
          BY <2>8, <3>1, <3>3, TakeFacts, CallFacts
        <4> QED BY <4>1, ResetFacts, NewDoneFacts
      <3>4. CASE f = GoAway
        BY <2>8, <3>1, <3>4, TakeFacts
      <3>5. f \in InFrames(d) \cup {GoAway}
        BY <2>8, <3>1, TakeFacts
      <3> QED BY <3>2, <3>3, <3>4, <3>5, FrameCases
    <2> QED BY <1>3, <2>1, <2>2, <2>3, <2>4, <2>5, <2>6, <2>7, <2>8, Cases
            DEF MovesOn, GoesBack
  <1> QED BY <1>1, <1>2, <1>4

\* The other channels and messages stay, and what was sent to OutputChan.
LEMMA ChStep ==
  ASSUME TypeInv, [Next]_vars, NEW d \in Dirs, ~ MovesOn(d)
  PROVE  ch'[d] = ch[d] /\ msg'[d] = msg[d]
  <1>1. ASSUME NEW r \in Calls, Request(r) \/ Respond(r) \/ Cancel(r) PROVE ch' = ch /\ msg' = msg
    BY <1>1, RequestFacts, RespondFacts, CancelFacts DEF code
  <1>2. ASSUME NEW e \in Dirs, SayGoAway(e) PROVE ch' = ch /\ msg' = msg
    BY <1>2 DEF SayGoAway, code
  <1>3. CASE Consume \/ UNCHANGED vars
    BY <1>3 DEF Consume, vars, code
  <1>4. ASSUME NEW e \in Dirs, Store(e) \/ GoesBack(e) \/ FinishReset(e) \/ Take(e)
        PROVE ch' = ch /\ msg' = msg
    <2>1. Take(e) => ch' = ch /\ msg' = msg
      BY DEF Take
    <2> QED BY <1>4, <2>1, StoreStep, BackFacts
  <1>5. ASSUME NEW e \in Dirs, MovesOn(e) PROVE ch'[d] = ch[d] /\ msg'[d] = msg[d]
    BY <1>5, MoveFacts
  <1> QED BY <1>1, <1>2, <1>3, <1>4, <1>5, Cases

LEMMA EmittedStep ==
  ASSUME TypeInv, [Next]_vars
  PROVE  \/ emitted' = emitted
         \/ \E d \in Dirs : Send(d) /\ emitted' = Append(emitted, msg[d])
  <1>1. ASSUME NEW r \in Calls, Request(r) \/ Respond(r) \/ Cancel(r) PROVE emitted' = emitted
    BY <1>1, RequestFacts, RespondFacts, CancelFacts DEF hist
  <1>2. ASSUME NEW e \in Dirs, SayGoAway(e) PROVE emitted' = emitted
    BY <1>2 DEF SayGoAway, hist
  <1>3. CASE Consume \/ UNCHANGED vars
    BY <1>3 DEF Consume, vars, hist
  <1>4. ASSUME NEW e \in Dirs, Store(e) \/ GoesBack(e) \/ FinishReset(e) \/ Take(e)
        PROVE emitted' = emitted
    <2>1. Take(e) => emitted' = emitted
      BY DEF Take
    <2> QED BY <1>4, <2>1, StoreStep, BackFacts
  <1>5. ASSUME NEW e \in Dirs, Check(e) \/ Wait(e) \/ Finish(e) \/ Signal \/ Put
        PROVE  emitted' = emitted
    BY <1>5 DEF Check, Wait, Finish, Signal, Put, hist
  <1>6. ASSUME NEW e \in Dirs, Send(e) PROVE emitted' = Append(emitted, msg[e])
    BY <1>6 DEF Send
  <1> QED BY <1>1, <1>2, <1>3, <1>4, <1>5, <1>6, Cases DEF MovesOn

-----------------------------------------------------------------------------
(* A slot has calls one at a time. *)

\* A goroutine handles a frame of the call.
Acts(d, a) == \/ Works(d) /\ frame[d].id = a
              \/ Take(d) /\ Head(queue[d]).id = a
Touched(r) == Request(r) \/ Respond(r) \/ Cancel(r) \/ \E d \in Dirs : Acts(d, r)

\* A call that has come to its slot has begun.
LEMMA PresentBegun ==
  ASSUME TypeInv, SentInv, QueueInv, PartsInv, NEW r \in Calls, Present(r)
  PROVE  sent["in"][r] > 0
  <1>1. CASE ~ NoParts(r)
    <2>1. PICK s \in Slots, d \in Dirs : \E p \in Streams[s][d].parts : p[1] = r
      BY <1>1 DEF NoParts
    <2>2. PICK p \in Streams[s][d].parts : p[1] = r
      BY <2>1
    <2>3. p \in Calls \X {"headers", "data", "trailers"}
      BY ItemFacts DEF Parts
    <2>4. PICK f : f = Frame(p[1], p[2], FALSE)
      OBVIOUS
    <2>5. WasSent(d, f) /\ f.id = r /\ Rank(f) \in 1 .. 3
      BY <2>2, <2>3, <2>4 DEF PartsInv, Frame, Rank
    <2> QED BY <2>5, WasBegun
  <1>2. ASSUME NEW d \in Dirs, At(d, r) PROVE sent["in"][r] > 0
    <2>1. frame[d] # NoFrame /\ frame[d] \in InFrames(d)
      BY <1>2, AtCall, AtHand, FrameSets DEF At
    <2>2. PICK f : f = frame[d]
      OBVIOUS
    <2>3. WasSent(d, f) /\ f.id = r /\ Rank(f) \in 1 .. 3
      BY <1>2, <2>1, <2>2, RankFacts DEF QueueInv, At
    <2> QED BY <2>3, WasBegun
  <1> QED BY <1>1, <1>2 DEF Present

\* A call that is over and handled has left nothing in the slots.
LEMMA NothingLeft ==
  ASSUME TypeInv, SentInv, CallInv, NEW q \in Calls, Clear(SlotOf(q)), Done(q),
         Handled("in", q), q \notin cancelled => Handled("out", q)
  PROVE  NoParts(q)
  <1>0. OverAt(q)
    BY DEF CallInv
  <1>1. CASE q \in cancelled
    <2>1. Gone(q)
      BY <1>1, HandledFacts, FrameFacts, DirFacts DEF Gone
    <2> QED BY <1>0, <2>1 DEF OverAt
  <1>2. CASE q \notin cancelled
    <2>1. sent["out"][q] = 2
      BY <1>2, EndedFacts, DirFacts DEF Done
    <2>2. sent["in"][q] = 2
      BY <2>1 DEF SentInv
    <2>3. UsedUp(Finisher, Second(Finisher, q))
      <3>1. Handled(Finisher, q)
        BY <1>2, DirFacts
      <3> QED BY <3>1, HandledFacts, FrameFacts, DirFacts DEF UsedUp
    <2> QED BY <1>0, <1>2, <2>1, <2>2, <2>3, DirFacts DEF OverAt
  <1> QED BY <1>1, <1>2

\* The frame that is taken comes before those of later calls left behind.
LEMMA HeadInTurn ==
  ASSUME TypeInv, QueueInv, NEW d \in Dirs, Take(d), NEW f, f = Head(queue[d]), f # GoAway,
         NEW g, InQ(d, g), g.id \in Calls, SlotOf(g.id) = SlotOf(f.id), g.id < f.id
  PROVE  d = "out" /\ g.id \in cancelled
  <1>1. queue[d] # <<>> /\ queue' = [queue EXCEPT ![d] = Tail(@)]
    BY DEF Take
  <1>2. /\ DOMAIN queue[d] = 1 .. Len(queue[d]) /\ Len(queue[d]) \in Nat \ {0}
        /\ Head(queue[d]) = queue[d][1]
    BY <1>1, TailQ
  <1>3. PICK i \in DOMAIN queue[d] : queue[d][i] = g
    BY DEF InQ
  <1>4. g # GoAway /\ f.id \in Calls
    BY NoCall, TakeFacts, FrameCases
  <1>5. i # 1
    BY <1>2, <1>3, <1>4, CallFacts
  <1>6. Before(d, queue[d][1], queue[d][i])
    BY <1>2, <1>3, <1>5 DEF QueueInv, InTurn
  <1> QED BY <1>2, <1>3, <1>4, <1>6 DEF Before

\* Only the call that a goroutine acts on has come to its slot.
LEMMA Alone ==
  ASSUME TypeInv, SentInv, QueueInv, SlotInv, PartsInv, OwnInv, CallInv, [Next]_vars,
         NEW d \in Dirs, NEW a \in Calls, Acts(d, a), Clear(SlotOf(a))',
         NEW q \in Calls, SlotOf(q) = SlotOf(a), Present(q)
  PROVE  q = a
  <1>0. Clear(SlotOf(a)) /\ Clear(SlotOf(q))
    BY ClearBefore
  <1>1. CASE Works(d) /\ frame[d].id = a
    <2>1. Present(a)
      BY <1>1 DEF Present, At
    <2> QED BY <1>0, <2>1 DEF OwnInv
  <1>2. CASE Take(d) /\ Head(queue[d]).id = a
    <2>1. PICK f : f = Head(queue[d])
      OBVIOUS
    <2>2. /\ f # GoAway /\ f.id = a /\ InQ(d, f) /\ frame[d] = NoFrame /\ f \in InFrames(d)
          /\ WasSent(d, f) /\ Rank(f) \in 1 .. 3
      BY <1>2, <2>1, NoCall, TakeFacts, RankFacts
    <2>3. /\ \A p \in Calls : p < a /\ SlotOf(p) = SlotOf(a) => Handled(Other(d), p)
          /\ d = "out" /\ a \in cancelled => ~ Handled("in", a)
      BY <1>2, <2>1, <2>2, TakeClear
    <2>4. CASE q < a
      <3>1. Handled(Other(d), q)
        BY <2>3, <2>4
      <3>2. sent["in"][a] > 0
        BY <2>2, WasBegun
      <3>3. Done(q)
        BY <2>4, <3>2 DEF SentInv
      <3>4. ASSUME NEW g, InQ(d, g), g.id = q PROVE d = "out" /\ q \in cancelled
        BY <1>2, <2>1, <2>2, <2>4, <3>4, HeadInTurn
      <3>5. (d = "out" /\ q \in cancelled) \/ Handled(d, q)
        BY <2>2, <3>4, HandledFacts, NoCall
      <3>6. Handled("in", q) /\ (q \notin cancelled => Handled("out", q))
        BY <3>1, <3>5, DirFacts DEF Other
      <3>7. NoParts(q)
        BY <1>0, <3>3, <3>6, NothingLeft
      <3>8. ~ At(d, q) /\ ~ At(Other(d), q)
        BY <2>2, <3>1, NoCall, HandledFacts DEF At
      <3> QED BY <3>7, <3>8, DirFacts DEF Present, Other
    <2>5. CASE a < q
      <3>1. Handled("in", a) /\ (a \notin cancelled => Handled("out", a))
        BY <1>0, <2>5 DEF SlotInv
      <3>2. ~ Handled(d, a)
        BY <2>2, HandledFacts
      <3> QED BY <2>3, <3>1, <3>2, DirFacts
    <2> QED BY <2>4, <2>5, CallFacts
  <1> QED BY <1>1, <1>2 DEF Acts

\* A slot is emptied by a goroutine that handles a frame of a call of the slot.
LEMMA EmptiesActs ==
  ASSUME TypeInv, QueueInv, NEW s \in Slots, Empties(s)
  PROVE  \E d \in Dirs, a \in Calls : Acts(d, a) /\ SlotOf(a) = s
  <1>1. ASSUME NEW d \in Dirs, FinishReset(d), S(d) = s
        PROVE  \E e \in Dirs, a \in Calls : Acts(e, a) /\ SlotOf(a) = s
    BY <1>1, BackFacts, AtHand DEF Acts, Works
  <1>2. ASSUME NEW r \in Calls, SlotOf(r) = s, Takes("in", RST(r))
        PROVE  \E e \in Dirs, a \in Calls : Acts(e, a) /\ SlotOf(a) = s
    BY <1>2, FrameFacts, DirFacts DEF Acts, Takes
  <1> QED BY <1>1, <1>2 DEF Empties

\* What a slot holds is in the slot of its call.
LEMMA PartsPlace ==
  ASSUME TypeInv, PartsInv, NEW r \in Calls
  PROVE  /\ NoParts(r) <=> \A d \in Dirs : \A p \in Streams[SlotOf(r)][d].parts : p[1] # r
         /\ SlotOf(r) \in Slots
  BY CallFacts DEF NoParts, PartsInv

\* A step leaves alone a call it does not touch.
LEMMA Untouched ==
  ASSUME TypeInv, SentInv, QueueInv, SlotInv, PartsInv, OwnInv, CallInv, [Next]_vars,
         NEW r \in Calls, Clear(SlotOf(r))', ~ Touched(r)
  PROVE  /\ \A d \in Dirs : \A g : g.id = r => (InQ(d, g)' <=> InQ(d, g))
         /\ \A d \in Dirs : /\ frame'[d].id = r <=> frame[d].id = r
                            /\ frame[d].id = r => frame'[d] = frame[d] /\ pc'[d] = pc[d]
         /\ \A d \in Dirs : \A p : p[1] = r =>
               (p \in Streams'[SlotOf(r)][d].parts <=> p \in Streams[SlotOf(r)][d].parts)
         /\ NoParts(r)' <=> NoParts(r)
         /\ \A d \in Dirs : sent'[d][r] = sent[d][r]
         /\ r \in cancelled' <=> r \in cancelled
         /\ RecordResponse' = RecordResponse
  <1>1. ASSUME NEW d \in Dirs, NEW g, g.id = r PROVE InQ(d, g)' <=> InQ(d, g)
    BY <1>1, QStep DEF Touched, Sends, Takes, Acts
  <1>2. ASSUME NEW d \in Dirs
        PROVE  /\ frame'[d].id = r <=> frame[d].id = r
               /\ frame[d].id = r => frame'[d] = frame[d] /\ pc'[d] = pc[d]
    <2>1. Works(d) => frame[d].id # r
      BY DEF Touched, Acts
    <2>2. Take(d) => Head(queue[d]).id # r
      BY DEF Touched, Acts
    <2> QED BY <2>1, <2>2, FStep, NoCall DEF Works
  <1>3. ASSUME Present(r) PROVE ~ Empties(SlotOf(r))
    <2>1. ASSUME NEW d \in Dirs, NEW a \in Calls, Acts(d, a), SlotOf(a) = SlotOf(r)
          PROVE  FALSE
      BY <1>3, <2>1, Alone DEF Touched
    <2> QED BY <2>1, EmptiesActs, PartsPlace
  <1>4. ASSUME NEW d \in Dirs, NEW p, p[1] = r, p \in Streams[SlotOf(r)][d].parts
        PROVE  p \in Streams'[SlotOf(r)][d].parts
    <2>1. Present(r)
      BY <1>4, PartsPlace DEF Present
    <2>2. ~ Empties(SlotOf(r))
      BY <1>3, <2>1
    <2>3. ASSUME Store(d), S(d) = SlotOf(r), r # frame[d].id PROVE FALSE
      <3>1. PICK a \in Calls : a = frame[d].id
        BY <2>3, StoreStep, AtHand
      <3>2. Acts(d, a) /\ SlotOf(a) = SlotOf(r)
        BY <2>3, <3>1, StoreStep, AtHand DEF Acts, Works
      <3>3. Clear(SlotOf(a))'
        BY <3>2 DEF Clear
      <3> QED BY <2>1, <2>3, <3>1, <3>2, <3>3, Alone
    <2> QED BY <1>4, <2>2, <2>3, PartsKept, PartsPlace
  <1>5. ASSUME NEW d \in Dirs, NEW s \in Slots, NEW p, p[1] = r, p \in Streams'[s][d].parts
        PROVE  p \in Streams[s][d].parts
    <2>1. CASE Store(d) /\ s = S(d) /\ p = <<frame[d].id, frame[d].kind>>
      <3>1. Acts(d, r)
        BY <1>5, <2>1 DEF Acts, Works
      <3> QED BY <3>1 DEF Touched
    <2> QED BY <1>5, <2>1, PartsStep
  <1>6. NoParts(r)' <=> NoParts(r)
    <2>1. NoParts(r) => NoParts(r)'
      BY <1>5 DEF NoParts
    <2>2. ~ NoParts(r) => ~ NoParts(r)'
      BY <1>4, PartsPlace DEF NoParts
    <2> QED BY <2>1, <2>2
  <1>7. \A d \in Dirs : sent'[d][r] = sent[d][r]
    BY NetFacts, DirFacts DEF Touched
  <1>8. r \in cancelled' <=> r \in cancelled
    BY NetFacts DEF Touched
  <1> QED BY <1>1, <1>2, <1>4, <1>5, <1>6, <1>7, <1>8, NetFacts, PartsPlace

\* A call comes to its slot when a frame of it is taken.
LEMMA PresentStep ==
  ASSUME TypeInv, QueueInv, [Next]_vars, NEW r \in Calls, Present(r)'
  PROVE  \/ Present(r)
         \/ \E d \in Dirs : /\ Take(d) /\ Head(queue[d]).id = r
                            /\ Head(queue[d]) \in CallFrames(d) /\ frame'[d] = Head(queue[d])
  <1>1. ASSUME NEW d \in Dirs, frame'[d].id = r
        PROVE  \/ At(d, r)
               \/ /\ Take(d) /\ Head(queue[d]).id = r
                  /\ Head(queue[d]) \in CallFrames(d) /\ frame'[d] = Head(queue[d])
    BY <1>1, FStep, NoCall DEF At
  <1>2. ASSUME NEW d \in Dirs, NEW s \in Slots, NEW p \in Streams'[s][d].parts, p[1] = r
        PROVE  Present(r)
    <2>1. p \in Streams[s][d].parts \/ At(d, r)
      BY <1>2, PartsStep DEF At
    <2> QED BY <1>2, <2>1 DEF Present, NoParts
  <1> QED BY <1>1, <1>2 DEF Present, NoParts, At

\* What is handled stays so until more is captured.
LEMMA HandledStep ==
  ASSUME TypeInv, QueueInv, [Next]_vars, NEW d \in Dirs, NEW q \in Calls, Handled(d, q)
  PROVE  \/ Handled(d, q)'
         \/ d = "in" /\ (Request(q) \/ Cancel(q))
         \/ d = "out" /\ Respond(q)
  <1>1. /\ \A g : InQ(d, g) => g.id # q
        /\ frame[d].id # q
    BY HandledFacts
  <1>2. ASSUME NEW g, InQ(d, g)', g.id = q
        PROVE  \/ d = "in" /\ (Request(q) \/ Cancel(q))
               \/ d = "out" /\ Respond(q)
    BY <1>1, <1>2, QStep DEF Sends
  <1>3. frame'[d].id # q
    <2>1. PICK f : f = Head(queue[d])
      OBVIOUS
    <2>2. Take(d) => InQ(d, f)
      BY <2>1, TakeFacts
    <2> QED BY <1>1, <2>1, <2>2, FStep, NoCall
  <1>4. Handled(d, q)' <=> (\A g : InQ(d, g)' => g.id # q) /\ frame'[d].id # q
    BY DEF Handled, InQ
  <1> QED BY <1>2, <1>3, <1>4

\* Every step keeps SlotInv.
LEMMA SlotInvStep ==
  ASSUME TypeInv, SentInv, QueueInv, SlotInv, PartsInv, OwnInv, CallInv, [Next]_vars
  PROVE  SlotInv'
  <1> SUFFICES ASSUME NEW q \in Calls, NEW r \in Calls, q < r, SlotOf(q) = SlotOf(r),
                      Clear(SlotOf(r))', Present(r)'
               PROVE  /\ Handled("in", q)'
                      /\ q \notin cancelled' => Handled("out", q)'
    BY DEF SlotInv
  <1>0. Clear(SlotOf(r)) /\ "in" \in Dirs /\ "out" \in Dirs
    BY ClearBefore, DirFacts
  <1>1. CASE Present(r)
    <2>1. Handled("in", q) /\ (q \notin cancelled => Handled("out", q))
      BY <1>0, <1>1 DEF SlotInv
    <2>2. sent["in"][r] > 0
      BY <1>1, PresentBegun
    <2>3. sent["out"][q] = 2 \/ q \in cancelled
      BY <2>2, EndedFacts, DirFacts DEF SentInv, Done
    <2>4. sent["out"][q] > 0 => sent["in"][q] = 2
      BY DEF SentInv
    <2>5. ~ Request(q)
      BY <2>3, <2>4, RequestFacts
    <2>6. ~ Cancel(q)
      BY <2>2, SentType, DirFacts, CancelFacts
    <2>7. Respond(q) => q \in cancelled
      BY <2>3, RespondFacts
    <2>8. q \in cancelled => q \in cancelled'
      BY NetFacts
    <2> QED BY <1>0, <2>1, <2>5, <2>6, <2>7, <2>8, HandledStep
  <1>2. ASSUME NEW d \in Dirs, Take(d), Head(queue[d]).id = r, frame'[d] = Head(queue[d])
        PROVE  Handled("in", q)' /\ (q \notin cancelled' => Handled("out", q)')
    <2>1. PICK f : f = Head(queue[d])
      OBVIOUS
    <2>2. /\ f # GoAway /\ f.id = r /\ frame[d] = NoFrame /\ cancelled' = cancelled
          /\ sent' = sent
      BY <1>2, <2>1, NoCall, TakeFacts
    <2>3. Clear(SlotOf(f.id))'
      BY <2>2
    <2>4. Handled(Other(d), q)
      BY <1>2, <2>1, <2>2, TakeClear
    <2>5. ASSUME NEW g, InQ(d, g), g.id = q PROVE d = "out" /\ q \in cancelled
      BY <1>2, <2>1, <2>2, <2>5, HeadInTurn
    <2>6. (d = "out" /\ q \in cancelled) \/ Handled(d, q)
      BY <2>2, <2>5, HandledFacts, NoCall
    <2>7. ~ Request(q) /\ ~ Cancel(q) /\ ~ Respond(q)
      BY <2>2, SentType, RequestFacts, CancelFacts, RespondFacts
    <2> QED BY <1>0, <2>2, <2>4, <2>6, <2>7, HandledStep, DirFacts DEF Other
  <1> QED BY <1>1, <1>2, PresentStep

\* Every step keeps PartsInv.
LEMMA PartsInvStep ==
  ASSUME TypeInv, QueueInv, PartsInv, [Next]_vars
  PROVE  PartsInv'
  <1> SUFFICES ASSUME NEW s \in Slots, NEW d \in Dirs, NEW p \in Streams'[s][d].parts
               PROVE  /\ SlotOf(p[1]) = s
                      /\ <<p[1], p[2]>> \in PartsOf(d, p[1])
                      /\ WasSent(d, Frame(p[1], p[2], FALSE))'
    BY Zenon DEF PartsInv
  <1>1. PICK f : f = Frame(p[1], p[2], FALSE)
    OBVIOUS
  <1>2. CASE p \in Streams[s][d].parts
    <2>1. p \in Calls \X {"headers", "data", "trailers"}
      BY <1>2, ItemFacts DEF Parts
    <2>2. f.id \in Calls /\ Rank(f) \in 1 .. 3 /\ WasSent(d, f)
      BY <1>1, <1>2, <2>1 DEF Frame, Rank, PartsInv
    <2>3. WasSent(d, f)'
      BY <2>2, WasSentStep
    <2> QED BY <1>1, <1>2, <2>3 DEF PartsInv
  <1>3. CASE Store(d) /\ s = S(d) /\ p = <<frame[d].id, frame[d].kind>>
    <2>1. PICK g : g = frame[d]
      OBVIOUS
    <2>2. /\ g \in InFrames(d) /\ g.id \in Calls /\ SlotOf(g.id) = s
          /\ g = First(d, g.id) \/ g = Second(d, g.id)
          /\ WasSent(d, g)
      BY <1>3, <2>1, StoreStep, AtHand, FrameSets DEF QueueInv
    <2>3. /\ f.id = g.id /\ f.kind = g.kind /\ g.kind # "rst" /\ Rank(f) \in 1 .. Rank(g)
          /\ Rank(g) \in 1 .. 2
      <3>1. CASE g = First(d, g.id)
        BY <1>1, <1>3, <2>1, <3>1, FrameFacts, DirFacts DEF Frame, Rank
      <3>2. CASE g = Second(d, g.id)
        BY <1>1, <1>3, <2>1, <3>2, FrameFacts, DirFacts DEF Frame, Rank
      <3> QED BY <2>2, <3>1, <3>2
    <2>4. WasSent(d, f)
      BY <2>2, <2>3, SentType DEF WasSent
    <2>5. WasSent(d, f)'
      BY <2>2, <2>3, <2>4, WasSentStep
    <2>6. <<p[1], p[2]>> \in PartsOf(d, p[1]) /\ SlotOf(p[1]) = s
      BY <1>3, <2>1, <2>2, PartsFacts
    <2> QED BY <1>1, <2>5, <2>6
  <1> QED BY <1>2, <1>3, PartsStep

\* Every step keeps OwnInv.
LEMMA OwnStep ==
  ASSUME TypeInv, SentInv, QueueInv, SlotInv, PartsInv, OwnInv, CallInv, [Next]_vars
  PROVE  OwnInv'
  <1> SUFFICES ASSUME NEW q \in Calls, NEW r \in Calls, SlotOf(q) = SlotOf(r),
                      Clear(SlotOf(r))', Present(q)', Present(r)'
               PROVE  q = r
    BY DEF OwnInv
  <1>0. Clear(SlotOf(r)) /\ Clear(SlotOf(q))'
    BY ClearBefore
  <1>1. CASE Present(q) /\ Present(r)
    BY <1>0, <1>1 DEF OwnInv
  <1>2. ASSUME NEW d \in Dirs, Take(d), Head(queue[d]).id = r PROVE q = r
    <2>1. Acts(d, r)
      BY <1>2 DEF Acts
    <2>2. Present(q) => q = r
      BY <2>1, Alone
    <2>3. ASSUME NEW e \in Dirs, Take(e), Head(queue[e]).id = q, e # d PROVE FALSE
      <3>1. frame'[e] = frame[e] /\ frame[e] = NoFrame
        <4>1. PICK f : f = Head(queue[d])
          OBVIOUS
        <4>2. PICK g : g = Head(queue[e])
          OBVIOUS
        <4> QED BY <1>2, <2>3, <4>1, <4>2, TakeFacts
      <3>2. PICK g : g = Head(queue[e])
        OBVIOUS
      <3>3. PICK f : f = Head(queue[d])
        OBVIOUS
      <3>4. InQ(e, g) /\ g.id \in Calls
        BY <2>3, <3>2, TakeFacts
      <3>5. InQ(e, g)' <=> InQ(e, g)
        BY <1>2, <2>3, <3>3, TakeFacts
      <3>6. ~ InQ(e, g)'
        BY <2>3, <3>2, <3>4, QStep DEF Takes
      <3> QED BY <3>4, <3>5, <3>6
    <2> QED BY <1>2, <2>2, <2>3, PresentStep
  <1>3. ASSUME NEW d \in Dirs, Take(d), Head(queue[d]).id = q PROVE Present(r) => q = r
    <2>1. Acts(d, q)
      BY <1>3 DEF Acts
    <2> QED BY <1>0, <2>1, Alone
  <1> QED BY <1>1, <1>2, <1>3, PresentStep

-----------------------------------------------------------------------------
(* While a call is handled, nothing of it is lost. *)

\* Two frames of a call in a direction.
CallOwn(d, r) == {First(d, r), Second(d, r)}

LEMMA OwnFacts ==
  ASSUME NEW d \in Dirs, NEW r \in Calls, NEW g \in CallOwn(d, r)
  PROVE  /\ g.id = r /\ g # NoFrame /\ g # GoAway /\ g.kind # "rst" /\ g \in CallFrames(d)
         /\ Rank(g) \in 1 .. 2 /\ g # RST(r)
  <1>1. g.id = r /\ g.kind # "rst" /\ g \in CallFrames(d) /\ Rank(g) \in 1 .. 2
    BY FrameFacts, FrameSets DEF CallOwn
  <1> QED BY <1>1, NoCall, FrameFacts

\* What is known of an untouched call does not change.
LEMMA UntouchedCall ==
  ASSUME TypeInv, SentInv, QueueInv, SlotInv, PartsInv, OwnInv, CallInv, [Next]_vars,
         NEW r \in Calls, Clear(SlotOf(r))', ~ Touched(r)
  PROVE  KeptAt(r)' /\ OverAt(r)'
  <1>0. KeptAt(r) /\ OverAt(r)
    BY ClearBefore DEF CallInv
  <1>1. /\ \A d \in Dirs : \A g : g.id = r => (InQ(d, g)' <=> InQ(d, g))
        /\ \A d \in Dirs : /\ frame'[d].id = r <=> frame[d].id = r
                           /\ frame[d].id = r => frame'[d] = frame[d] /\ pc'[d] = pc[d]
        /\ \A d \in Dirs : \A p : p[1] = r =>
              (p \in Streams'[SlotOf(r)][d].parts <=> p \in Streams[SlotOf(r)][d].parts)
        /\ NoParts(r)' <=> NoParts(r)
        /\ \A d \in Dirs : sent'[d][r] = sent[d][r]
        /\ r \in cancelled' <=> r \in cancelled
        /\ RecordResponse' = RecordResponse
    BY Untouched
  <1>2. \A d \in Dirs : \A g : g.id = r => (InQ(d, g)' <=> InQ(d, g))
    BY <1>1
  <1>3. ASSUME NEW d \in Dirs, NEW g \in CallOwn(d, r)
        PROVE  /\ InQ(d, g)' <=> InQ(d, g)
               /\ frame'[d] = g <=> frame[d] = g
               /\ frame[d] = g => pc'[d] = pc[d]
               /\ <<r, g.kind>> \in Streams'[SlotOf(r)][d].parts
                     <=> <<r, g.kind>> \in Streams[SlotOf(r)][d].parts
    <2>1. g.id = r
      BY OwnFacts
    <2>2. frame'[d] = g <=> frame[d] = g
      BY <1>1, <2>1
    <2> QED BY <1>1, <1>2, <2>1, <2>2
  <1>4. Finisher' = Finisher
    BY <1>1 DEF Finisher
  <1>5. Gone(r)' <=> Gone(r)
    BY <1>1, <1>2, FrameFacts, DirFacts DEF Gone
  <1>6. ASSUME NEW d \in Dirs, NEW g \in CallOwn(d, r) PROVE Have(d, r, g)' <=> Have(d, r, g)
    BY <1>3 DEF Have
  <1>7. ASSUME NEW d \in Dirs, NEW g \in CallOwn(d, r)
        PROVE  /\ Holds(d, g)' <=> Holds(d, g)
               /\ UsedUp(d, g)' <=> UsedUp(d, g)
    BY <1>3, <1>4 DEF Holds, UsedUp
  <1>8. \A d \in Dirs : First(d, r) \in CallOwn(d, r) /\ Second(d, r) \in CallOwn(d, r)
    BY DEF CallOwn
  <1>9. HaveBoth(r)' <=> HaveBoth(r)
    BY <1>6, <1>8, DirFacts DEF HaveBoth
  <1>10. KeptAt(r)'
    BY <1>0, <1>1, <1>3, <1>5, <1>6, <1>7, <1>8, <1>9, DirFacts DEF KeptAt
  <1>11. OverAt(r)'
    <2>1. InDone(r)' <=> InDone(r)
      BY <1>1, <1>3, <1>8, DirFacts DEF InDone
    <2>2. Handled("in", r)' <=> Handled("in", r)
      <3>1. Handled("in", r)' <=> (\A g : InQ("in", g)' => g.id # r) /\ frame'["in"].id # r
        BY DEF Handled, InQ
      <3> QED BY <1>1, <1>2, <3>1, HandledFacts, DirFacts
    <2> QED BY <1>0, <1>1, <1>4, <1>5, <1>7, <1>8, <2>1, <2>2, DirFacts DEF OverAt
  <1> QED BY <1>10, <1>11

\* What is known of a call, clause by clause.
LEMMA KeptParts ==
  ASSUME CallInv, NEW r \in Calls, Clear(SlotOf(r))
  PROVE  /\ \A d \in Dirs : /\ InQ(d, Second(d, r)) /\ ~ Gone(r) => Have(d, r, First(d, r))
                            /\ Holds(d, Second(d, r)) => Have(d, r, First(d, r))
                            /\ Holds(d, Second(d, r)) => Have(d, r, Second(d, r))
         /\ \A f \in CallOwn("out", r) :
               /\ InQ("out", f) /\ ~ Gone(r) => HaveBoth(r)
               /\ Holds("out", f) => HaveBoth(r)
         /\ ~ Gone(r) =>
              /\ sent["in"][r] = 1 => Have("in", r, First("in", r))
              /\ RecordResponse /\ sent["in"][r] = 2 /\ sent["out"][r] < 2 => HaveBoth(r)
              /\ RecordResponse /\ sent["out"][r] = 1 => Have("out", r, First("out", r))
         /\ r \notin cancelled /\ sent[Finisher][r] = 2 /\ UsedUp(Finisher, Second(Finisher, r)) =>
              NoParts(r) /\ UsedUp(Finisher, First(Finisher, r)) /\ InDone(r)
         /\ Gone(r) => NoParts(r) /\ Handled("in", r) /\ frame["out"].id # r
  BY DEF CallInv, KeptAt, OverAt, CallOwn

\* A call that is kept, from its clauses in the next state.
LEMMA KeptNext ==
  ASSUME NEW r \in Calls, RecordResponse' = RecordResponse,
         \A d \in Dirs : /\ InQ(d, Second(d, r))' /\ ~ Gone(r)' => Have(d, r, First(d, r))'
                         /\ Holds(d, Second(d, r))' => Have(d, r, First(d, r))'
                         /\ Holds(d, Second(d, r))' => Have(d, r, Second(d, r))',
         \A f \in CallOwn("out", r) : /\ InQ("out", f)' /\ ~ Gone(r)' => HaveBoth(r)'
                                      /\ Holds("out", f)' => HaveBoth(r)',
         ~ Gone(r)' =>
              /\ sent'["in"][r] = 1 => Have("in", r, First("in", r))'
              /\ RecordResponse /\ sent'["in"][r] = 2 /\ sent'["out"][r] < 2 => HaveBoth(r)'
              /\ RecordResponse /\ sent'["out"][r] = 1 => Have("out", r, First("out", r))'
  PROVE  KeptAt(r)'
  BY DEF KeptAt, CallOwn

\* A step that loses nothing of a call keeps what is known of it.
Keeps(r) == /\ \A d \in Dirs : \A g \in CallOwn(d, r) : Have(d, r, g) => Have(d, r, g)'
            /\ Gone(r)' <=> Gone(r)

LEMMA KeepsBoth ==
  ASSUME NEW r \in Calls, Keeps(r), HaveBoth(r)
  PROVE  HaveBoth(r)'
  BY DirFacts DEF Keeps, HaveBoth, CallOwn

\* Without new frames or a goroutine coming to the call, nothing more is asked.
LEMMA KeptSame ==
  ASSUME TypeInv, CallInv, NEW r \in Calls, Clear(SlotOf(r)), Keeps(r),
         \A d \in Dirs : sent'[d][r] = sent[d][r], RecordResponse' = RecordResponse,
         \A d \in Dirs : \A g \in CallOwn(d, r) :
            /\ InQ(d, g)' => InQ(d, g)
            /\ Holds(d, g)' => Holds(d, g) \/ (InQ(d, g) /\ ~ Gone(r) /\ Have(d, r, g)')
  PROVE  KeptAt(r)'
  <1>1. \A d \in Dirs : First(d, r) \in CallOwn(d, r) /\ Second(d, r) \in CallOwn(d, r)
    BY DEF CallOwn
  <1>2. \A d \in Dirs : /\ InQ(d, Second(d, r))' /\ ~ Gone(r)' => Have(d, r, First(d, r))'
                        /\ Holds(d, Second(d, r))' => Have(d, r, First(d, r))'
                        /\ Holds(d, Second(d, r))' => Have(d, r, Second(d, r))'
    BY <1>1, KeptParts DEF Keeps
  <1>3. \A f \in CallOwn("out", r) : /\ InQ("out", f)' /\ ~ Gone(r)' => HaveBoth(r)'
                                     /\ Holds("out", f)' => HaveBoth(r)'
    BY KeptParts, KeepsBoth, DirFacts DEF Keeps
  <1>4. ~ Gone(r)' =>
              /\ sent'["in"][r] = 1 => Have("in", r, First("in", r))'
              /\ RecordResponse /\ sent'["in"][r] = 2 /\ sent'["out"][r] < 2 => HaveBoth(r)'
              /\ RecordResponse /\ sent'["out"][r] = 1 => Have("out", r, First("out", r))'
    BY <1>1, KeptParts, KeepsBoth, DirFacts DEF Keeps
  <1> QED BY <1>2, <1>3, <1>4, KeptNext

\* The client's and the server's frames.
LEMMA KeptNet ==
  ASSUME TypeInv, SentInv, QueueInv, CallInv, [Next]_vars,
         NEW r \in Calls, Clear(SlotOf(r)), Request(r) \/ Respond(r) \/ Cancel(r)
  PROVE  KeptAt(r)'
  <1>1. code' = code /\ RecordResponse' = RecordResponse
    BY RequestFacts, RespondFacts, CancelFacts
  <1>2. \A d \in Dirs : First(d, r) \in CallOwn(d, r) /\ Second(d, r) \in CallOwn(d, r)
    BY DEF CallOwn
  <1>3. ASSUME NEW d \in Dirs, NEW g, g.id = r
        PROVE  /\ InQ(d, g) => InQ(d, g)'
               /\ InQ(d, g)' => InQ(d, g) \/ Sends(d, g)
    <2>1. InQ(d, g)' => InQ(d, g) \/ Sends(d, g)
      BY <1>3, QStep
    <2>2. CASE queue' = queue
      BY <2>1, <2>2, SameQ
    <2>3. ASSUME NEW e \in Dirs, NEW f, Capture(e, f) PROVE InQ(d, g) => InQ(d, g)'
      BY <2>3, CaptureFacts
    <2> QED BY <2>1, <2>2, <2>3, RequestFacts, RespondFacts, CancelFacts, DirFacts
  <1>4. ASSUME NEW d \in Dirs, NEW g \in CallOwn(d, r)
        PROVE  /\ Have(d, r, g) => Have(d, r, g)'
               /\ Holds(d, g)' <=> Holds(d, g)
    <2>1. InQ(d, g) => InQ(d, g)'
      BY <1>3, OwnFacts
    <2> QED BY <1>1, <2>1 DEF Have, Holds, code, Finisher
  <1>5. HaveBoth(r) => HaveBoth(r)'
    BY <1>2, <1>4, DirFacts DEF HaveBoth
  <1>6. r \in cancelled /\ Gone(r)' => Gone(r)
    BY <1>3, FrameFacts, DirFacts DEF Gone
  <1>7. sent["out"][r] > 0 => sent["in"][r] = 2
    BY DEF SentInv
  <1>8. /\ sent["in"][r] \in 0 .. 2 /\ sent["out"][r] \in 0 .. 2
        /\ "in" \in Dirs /\ "out" \in Dirs
    BY SentType, DirFacts
  <1>9. CASE Request(r)
    <2>1. /\ r \notin cancelled /\ cancelled' = cancelled
          /\ sent["in"][r] \in {0, 1} /\ sent'["in"][r] = sent["in"][r] + 1
          /\ sent'["out"][r] = sent["out"][r]
      BY <1>9, RequestFacts
    <2>2. ~ Gone(r)
      BY <2>1 DEF Gone
    <2>3. ~ Respond(r) /\ ~ Cancel(r)
      BY <2>1, RespondFacts, CancelFacts
    <2>4. /\ sent["in"][r] = 0 => NextIn(r) = First("in", r) /\ InQ("in", First("in", r))'
          /\ sent["in"][r] = 1 => NextIn(r) = Second("in", r) /\ InQ("in", Second("in", r))'
      <3>1. PICK f : f = NextIn(r)
        OBVIOUS
      <3>2. f.id = r
        BY <1>9, <3>1, RequestFacts
      <3>3. Sends("in", f)
        BY <1>9, <3>1, <3>2 DEF Sends
      <3>4. InQ("in", f)'
        BY <1>8, <3>2, <3>3, QStep
      <3>5. /\ sent["in"][r] = 0 => f = First("in", r)
            /\ sent["in"][r] = 1 => f = Second("in", r)
        BY <3>1 DEF NextIn
      <3> QED BY <3>1, <3>4, <3>5
    <2>5. ASSUME NEW d \in Dirs, NEW g \in CallOwn(d, r), InQ(d, g)', ~ InQ(d, g)
          PROVE  d = "in" /\ g = NextIn(r)
      BY <1>3, <2>3, <2>5, OwnFacts DEF Sends
    <2>6. \A d \in Dirs : InQ(d, Second(d, r))' /\ ~ Gone(r)' => Have(d, r, First(d, r))'
      <3>1. ASSUME NEW d \in Dirs, InQ(d, Second(d, r))' PROVE Have(d, r, First(d, r))
        <4>1. CASE InQ(d, Second(d, r))
          BY <2>2, <4>1, KeptParts
        <4>2. CASE ~ InQ(d, Second(d, r))
          <5>1. d = "in" /\ Second("in", r) = NextIn(r)
            BY <1>2, <2>5, <3>1, <4>2
          <5>2. sent["in"][r] = 1
            BY <2>1, <2>4, <5>1, FrameFacts, DirFacts
          <5> QED BY <2>2, <5>1, <5>2, KeptParts
        <4> QED BY <4>1, <4>2
      <3> QED BY <1>2, <1>4, <3>1
    <2>7. \A f \in CallOwn("out", r) : InQ("out", f)' /\ ~ Gone(r)' => HaveBoth(r)'
      BY <1>5, <1>8, <2>2, <2>5, KeptParts, DirFacts
    <2>8. ~ Gone(r)' =>
              /\ sent'["in"][r] = 1 => Have("in", r, First("in", r))'
              /\ RecordResponse /\ sent'["in"][r] = 2 /\ sent'["out"][r] < 2 => HaveBoth(r)'
              /\ RecordResponse /\ sent'["out"][r] = 1 => Have("out", r, First("out", r))'
      <3>1. sent'["in"][r] = 1 => Have("in", r, First("in", r))'
        BY <2>1, <2>4 DEF Have
      <3>2. sent'["in"][r] = 2 => HaveBoth(r)'
        <4>1. ASSUME sent'["in"][r] = 2 PROVE HaveBoth(r)'
          <5>1. Have("in", r, First("in", r)) /\ InQ("in", Second("in", r))'
            BY <2>1, <2>2, <2>4, <4>1, KeptParts
          <5>2. Have("in", r, First("in", r))'
            BY <1>2, <1>4, <1>8, <5>1
          <5> QED BY <5>1, <5>2 DEF HaveBoth, Have
        <4> QED BY <4>1
      <3>3. sent'["out"][r] # 1
        BY <1>7, <2>1
      <3> QED BY <3>1, <3>2, <3>3
    <2> QED BY <1>1, <1>2, <1>4, <1>5, <1>8, <2>6, <2>7, <2>8, KeptParts, KeptNext
  <1>10. CASE Respond(r)
    <2>1. /\ sent["out"][r] \in {0, 1} /\ sent'["out"][r] = sent["out"][r] + 1
          /\ sent'["in"][r] = sent["in"][r] /\ sent["in"][r] = 2
          /\ cancelled' = cancelled
      BY <1>10, RespondFacts
    <2>2. Gone(r)' => Gone(r)
      BY <1>6, <2>1 DEF Gone
    <2>3. ~ Request(r)
      BY <2>1, RequestFacts
    <2>4. ~ Cancel(r)
      BY <2>1, CancelFacts
    <2>5. ASSUME NEW d \in Dirs, NEW g \in CallOwn(d, r), InQ(d, g)', ~ InQ(d, g)
          PROVE  d = "out" /\ g = NextOut(r) /\ RecordResponse
      BY <1>3, <2>3, <2>4, <2>5, OwnFacts DEF Sends
    <2>6. /\ sent["out"][r] = 0 => NextOut(r) = First("out", r)
          /\ sent["out"][r] = 1 => NextOut(r) = Second("out", r)
          /\ sent["out"][r] = 0 /\ RecordResponse => InQ("out", First("out", r))'
      <3>1. PICK f : f = NextOut(r)
        OBVIOUS
      <3>2. f.id = r
        BY <1>10, <3>1, RespondFacts
      <3>3. RecordResponse => Sends("out", f)
        BY <1>10, <3>1, <3>2 DEF Sends
      <3>4. RecordResponse => InQ("out", f)'
        BY <1>8, <3>2, <3>3, QStep
      <3>5. /\ sent["out"][r] = 0 => f = First("out", r)
            /\ sent["out"][r] = 1 => f = Second("out", r)
        BY <3>1 DEF NextOut
      <3> QED BY <3>1, <3>4, <3>5
    <2>60. Gone(r) => Gone(r)'
      <3>1. RST(r).id = r /\ (InQ("in", RST(r))' => InQ("in", RST(r)))
        BY <1>3, <1>8, <2>3, <2>4, FrameFacts, DirFacts DEF Sends
      <3> QED BY <2>1, <3>1 DEF Gone
    <2>7. \A d \in Dirs : InQ(d, Second(d, r))' /\ ~ Gone(r)' => Have(d, r, First(d, r))'
      <3>1. ASSUME NEW d \in Dirs, InQ(d, Second(d, r))', ~ Gone(r)'
            PROVE Have(d, r, First(d, r))
        <4>1. CASE InQ(d, Second(d, r))
          BY <2>60, <3>1, <4>1, KeptParts
        <4>2. CASE ~ InQ(d, Second(d, r))
          <5>1. d = "out" /\ Second("out", r) = NextOut(r) /\ RecordResponse
            BY <1>2, <2>5, <3>1, <4>2
          <5>2. sent["out"][r] = 1
            BY <2>1, <2>6, <5>1, FrameFacts, DirFacts
          <5> QED BY <2>60, <3>1, <5>1, <5>2, KeptParts
        <4> QED BY <4>1, <4>2
      <3> QED BY <1>2, <1>4, <3>1
    <2>8. \A f \in CallOwn("out", r) : InQ("out", f)' /\ ~ Gone(r)' => HaveBoth(r)'
      <3>1. RecordResponse /\ ~ Gone(r) => HaveBoth(r)
        BY <2>1, KeptParts
      <3> QED BY <1>5, <1>8, <2>5, <2>60, <3>1, KeptParts
    <2>9. ~ Gone(r)' =>
              /\ sent'["in"][r] = 1 => Have("in", r, First("in", r))'
              /\ RecordResponse /\ sent'["in"][r] = 2 /\ sent'["out"][r] < 2 => HaveBoth(r)'
              /\ RecordResponse /\ sent'["out"][r] = 1 => Have("out", r, First("out", r))'
      <3>1. RecordResponse /\ ~ Gone(r)' /\ sent'["out"][r] < 2 => HaveBoth(r)'
        BY <1>5, <2>1, <2>60, KeptParts
      <3>2. RecordResponse /\ sent'["out"][r] = 1 => Have("out", r, First("out", r))'
        BY <2>1, <2>6 DEF Have
      <3> QED BY <2>1, <3>1, <3>2
    <2> QED BY <1>1, <1>2, <1>4, <1>5, <1>8, <2>7, <2>8, <2>9, KeptParts, KeptNext
  <1>11. CASE Cancel(r)
    <2>1. ~ Gone(r) /\ sent' = sent
      BY <1>11, CancelFacts DEF Gone
    <2>2. ~ Gone(r)'
      <3>1. Sends("in", RST(r))
        BY <1>11, FrameFacts, DirFacts DEF Sends
      <3>2. InQ("in", RST(r))'
        BY <3>1, QStep, FrameFacts, DirFacts
      <3> QED BY <3>2 DEF Gone
    <2>3. ~ Request(r) /\ ~ Respond(r)
      BY <1>11, RequestFacts, RespondFacts, CancelFacts
    <2>4. \A d \in Dirs : \A g \in CallOwn(d, r) : InQ(d, g)' => InQ(d, g)
      BY <1>3, <2>3, OwnFacts, DirFacts DEF Sends
    <2>5. Keeps(r)
      BY <1>4, <2>1, <2>2 DEF Keeps
    <2>6. \A d \in Dirs : sent'[d][r] = sent[d][r]
      BY <2>1
    <2>7. \A d \in Dirs : \A g \in CallOwn(d, r) : Holds(d, g)' => Holds(d, g)
      BY <1>4
    <2> QED BY <1>1, <2>4, <2>5, <2>6, <2>7, KeptSame
  <1> QED BY <1>9, <1>10, <1>11

\* A cancellation that was handled leaves the goroutines no frame of the call.
LEMMA GoneIdle ==
  ASSUME TypeInv, SentInv, QueueInv, CallInv, [Next]_vars, NEW r \in Calls, Clear(SlotOf(r))',
         NEW d \in Dirs, Acts(d, r)
  PROVE  ~ Gone(r)
  <1>0. Clear(SlotOf(r))
    BY ClearBefore
  <1>1. Gone(r) => r \in cancelled /\ Handled("in", r) /\ frame["out"].id # r
    BY <1>0, KeptParts DEF Gone
  <1>2. CASE Works(d) /\ frame[d].id = r
    BY <1>1, <1>2, HandledFacts, DirFacts
  <1>3. CASE Take(d) /\ Head(queue[d]).id = r
    <2>1. PICK f : f = Head(queue[d])
      OBVIOUS
    <2>2. InQ(d, f) /\ f # GoAway /\ f.id = r
      BY <1>3, <2>1, TakeFacts, NoCall
    <2>3. Clear(SlotOf(f.id))'
      BY <2>2
    <2>4. d = "out" /\ r \in cancelled => ~ Handled("in", r)
      BY <1>3, <2>1, <2>2, <2>3, TakeClear
    <2> QED BY <1>1, <2>2, <2>4, HandledFacts, DirFacts
  <1> QED BY <1>2, <1>3 DEF Acts

\* A frame that is taken is at hand, and a cancellation empties the slot.
LEMMA KeptTake ==
  ASSUME TypeInv, SentInv, QueueInv, CallInv, [Next]_vars, NEW r \in Calls, Clear(SlotOf(r))',
         NEW d \in Dirs, Take(d), Head(queue[d]).id = r
  PROVE  KeptAt(r)'
  <1>0. Clear(SlotOf(r)) /\ Acts(d, r) /\ ~ Gone(r)
    BY ClearBefore, GoneIdle DEF Acts
  <1>1. PICK f : f = Head(queue[d])
    OBVIOUS
  <1>2. /\ frame[d] = NoFrame /\ InQ(d, f) /\ f.id = r /\ f # GoAway /\ f \in InFrames(d)
        /\ \A g : InQ(d, g) <=> InQ(d, g)' \/ g = f
        /\ \A e \in Dirs \ {d} : \A g : InQ(e, g)' <=> InQ(e, g)
        /\ \A e \in Dirs \ {d} : frame'[e] = frame[e] /\ pc'[e] = pc[e]
        /\ UNCHANGED <<RecordResponse, sent, cancelled>>
    BY <1>1, TakeFacts, NoCall
  <1>3. CASE f \in CallFrames(d)
    <2>1. frame'[d] = f /\ pc'[d] = "store" /\ TakeFrame(d, f)
      BY <1>1, <1>3, TakeFacts
    <2>2. \A e \in Dirs : Streams'[SlotOf(r)][e].parts = Streams[SlotOf(r)][e].parts
      BY <1>3, <2>1, TakeStreams, CallFacts
    <2>3. ASSUME NEW e \in Dirs, NEW g \in CallOwn(e, r), Have(e, r, g) PROVE Have(e, r, g)'
      <3>0. g # NoFrame
        BY OwnFacts
      <3>1. CASE InQ(e, g)
        BY <1>2, <2>1, <3>1 DEF Have
      <3>2. CASE frame[e] = g /\ pc[e] = "store"
        BY <1>2, <3>0, <3>2 DEF Have
      <3>3. CASE <<r, g.kind>> \in Streams[SlotOf(r)][e].parts
        BY <2>2, <3>3 DEF Have
      <3> QED BY <2>3, <3>1, <3>2, <3>3 DEF Have
    <2>4. Gone(r)' <=> Gone(r)
      <3>1. \A c \in Dirs : RST(r) \notin CallFrames(c)
        BY FrameFacts, FrameEnds
      <3>2. InQ("in", RST(r))' <=> InQ("in", RST(r))
        BY <1>2, <1>3, <3>1, DirFacts
      <3> QED BY <1>2, <3>2 DEF Gone
    <2>5. ASSUME NEW e \in Dirs, NEW g \in CallOwn(e, r)
          PROVE  /\ InQ(e, g)' => InQ(e, g)
                 /\ Holds(e, g)' => Holds(e, g) \/ (InQ(e, g) /\ ~ Gone(r) /\ Have(e, r, g)')
      <3>1. InQ(e, g)' => InQ(e, g)
        BY <1>2
      <3>2. e # d => (Holds(e, g)' => Holds(e, g))
        BY <1>2 DEF Holds, Finisher
      <3>3. e = d => (Holds(e, g)' => InQ(e, g) /\ ~ Gone(r) /\ Have(e, r, g)')
        BY <1>0, <1>2, <2>1 DEF Holds, Have
      <3> QED BY <3>1, <3>2, <3>3
    <2>6. Keeps(r)
      BY <2>3, <2>4 DEF Keeps
    <2> QED BY <1>0, <1>2, <2>5, <2>6, KeptSame
  <1>4. CASE f \notin CallFrames(d)
    <2>1. d = "in" /\ f = RST(r) /\ frame' = frame /\ f.kind = "rst"
      BY <1>1, <1>2, <1>4, FrameCases, TakeFacts, FrameFacts
    <2>2. Clear(SlotOf(f.id))'
      BY <1>2
    <2>3. frame["out"].id # r
      BY <1>1, <1>2, <2>1, <2>2, TakeClear
    <2>4. Gone(r)'
      <3>1. r \in cancelled
        BY <1>1, <1>2, <2>1, TakeFacts DEF WasSent
      <3>2. Takes("in", RST(r))
        BY <1>1, <2>1 DEF Takes
      <3>3. ~ InQ("in", RST(r))'
        BY <3>2, QStep, FrameFacts, DirFacts
      <3> QED BY <1>2, <3>1, <3>3 DEF Gone
    <2>5. ASSUME NEW e \in Dirs, NEW g \in CallOwn(e, r) PROVE ~ Holds(e, g)'
      <3>1. g.id = r
        BY OwnFacts
      <3>2. frame[e].id # r
        BY <1>2, <2>1, <2>3, NoCall, DirFacts
      <3> QED BY <2>1, <3>1, <3>2 DEF Holds
    <2>6. \A e \in Dirs : First(e, r) \in CallOwn(e, r) /\ Second(e, r) \in CallOwn(e, r)
      BY DEF CallOwn
    <2> QED BY <1>2, <2>4, <2>5, <2>6, KeptNext, DirFacts
  <1> QED BY <1>3, <1>4

\* When a goroutine is about to reset the stream of a call, all of the call is
\* handled but what DealInput has after its token.
LEMMA AtReset ==
  ASSUME TypeInv, SentInv, QueueInv, HandlerInv, NEW d \in Dirs, frame[d] # NoFrame,
         Clear(S(d)), pc[d] \in {"finish", "send", "reset"}, NEW r, r = frame[d].id
  PROVE  /\ d = Finisher /\ frame[d] = Second(d, r) /\ r \in Calls
         /\ sent["in"][r] = 2 /\ sent[Finisher][r] = 2
         /\ ~ InQ(d, First(d, r)) /\ ~ InQ(d, Second(d, r))
         /\ InDone(r) \/ ~ RecordResponse
  <1>1. /\ pc[d] \in {"wait", "finish", "send", "reset"} => d = Finisher /\ frame[d].end
        /\ d = "out" /\ pc[d] \in {"finish", "send", "reset"} => InDone(frame[d].id)
    BY DEF HandlerInv, HandlerAt
  <1>2. d = Finisher /\ frame[d] = Second(d, r) /\ r \in Calls
    BY <1>1, AtHand
  <1>3. ~ InQ(d, First(d, r)) /\ ~ InQ(d, Second(d, r)) /\ sent[d][r] = 2
    BY <1>2, LastAtHand
  <1>4. sent["in"][r] = 2
    BY <1>2, <1>3, DirFacts DEF SentInv
  <1> QED BY <1>1, <1>2, <1>3, <1>4, DirFacts DEF Finisher

\* What a goroutine does with the frame at hand.
LEMMA KeptWork ==
  ASSUME TypeInv, SentInv, QueueInv, CallInv, HandlerInv, [Next]_vars, NEW r \in Calls,
         Clear(SlotOf(r))', NEW d \in Dirs, Works(d), frame[d].id = r
  PROVE  KeptAt(r)'
  <1>0. Clear(SlotOf(r)) /\ S(d) = SlotOf(r) /\ frame[d] # NoFrame /\ SlotOf(r) \in Slots
    BY ClearBefore, AtCall, CallFacts
  <1>1. /\ UNCHANGED <<RecordResponse, queue, sent, cancelled>>
        /\ \A e \in Dirs : \A g : InQ(e, g)' <=> InQ(e, g)
        /\ \A e \in Dirs \ {d} : frame'[e] = frame[e] /\ pc'[e] = pc[e]
    BY WorkFacts
  <1>2. Gone(r)' <=> Gone(r)
    BY <1>1, DirFacts DEF Gone
  <1>3. ASSUME \A e \in Dirs : \A g \in CallOwn(e, r) : Have(e, r, g) => Have(e, r, g)',
               \A g \in CallOwn(d, r) : Holds(d, g)' => Holds(d, g)
        PROVE  KeptAt(r)'
    <2>1. Keeps(r)
      BY <1>2, <1>3 DEF Keeps
    <2>2. ASSUME NEW e \in Dirs, NEW g \in CallOwn(e, r), Holds(e, g)' PROVE Holds(e, g)
      <3>1. CASE e = d
        BY <1>3, <2>2, <3>1
      <3>2. CASE e # d
        BY <1>1, <2>2, <3>2 DEF Holds, Finisher
      <3> QED BY <3>1, <3>2
    <2> QED BY <1>0, <1>1, <2>1, <2>2, KeptSame
  <1>4. CASE Store(d)
    <2>1. /\ frame' = frame /\ pc[d] = "store"
          /\ pc'[d] = IF d = "in" THEN "signal" ELSE "check"
      BY <1>4, StoreStep
    <2>2. /\ \A e \in Dirs \ {d} : Streams'[SlotOf(r)][e] = Streams[SlotOf(r)][e]
          /\ Streams'[SlotOf(r)][d].parts = Stored(Streams[SlotOf(r)][d].parts, frame[d])
      BY <1>0, <1>4, StoreFacts
    <2>3. ASSUME NEW e \in Dirs, NEW g \in CallOwn(e, r), Have(e, r, g) PROVE Have(e, r, g)'
      <3>1. CASE InQ(e, g)
        BY <1>1, <3>1 DEF Have
      <3>2. CASE frame[e] = g /\ pc[e] = "store" /\ e # d
        BY <1>1, <3>2 DEF Have
      <3>3. CASE frame[e] = g /\ e = d
        BY <2>2, <3>3, StoredFacts DEF Have
      <3>4. CASE <<r, g.kind>> \in Streams[SlotOf(r)][e].parts /\ e # d
        BY <2>2, <3>4 DEF Have
      <3>5. CASE <<r, g.kind>> \in Streams[SlotOf(r)][e].parts /\ e = d
        <4>1. g.kind = frame[d].kind => <<r, g.kind>> \in Streams'[SlotOf(r)][d].parts
          BY <2>2, StoredFacts
        <4>2. PICK p : p = <<r, g.kind>>
          OBVIOUS
        <4>3. p[2] # frame[d].kind => p \in Streams'[SlotOf(r)][d].parts
          <5>0. p \in Streams[SlotOf(r)][d].parts
            BY <3>5, <4>2
          <5>1. p[2] # frame[d].kind => p \in Stored(Streams[SlotOf(r)][d].parts, frame[d])
            BY <5>0, StoredFacts
          <5> QED BY <2>2, <5>1
        <4> QED BY <3>5, <4>1, <4>2, <4>3 DEF Have
      <3> QED BY <2>3, <3>1, <3>2, <3>3, <3>4, <3>5 DEF Have
    <2>4. \A g \in CallOwn(d, r) : Holds(d, g)' => Holds(d, g)
      BY <2>1 DEF Holds
    <2> QED BY <1>3, <2>3, <2>4
  <1>5. CASE MovesOn(d)
    <2>1. /\ UNCHANGED <<Streams, frame>> /\ pc[d] \notin {"idle", "store", "reset"}
          /\ pc[d] = "check" => Check(d) /\ Complete(S(d))
      <3>1. pc[d] = "check" => Check(d) /\ Complete(S(d))
        BY <1>5 DEF MovesOn, Signal, Put, Wait, Finish, Send
      <3> QED BY <1>5, <3>1, MoveFacts
    <2>2. pc[d] = "check" => d = Finisher
      <3>1. S(d)' = S(d)
        BY <2>1 DEF S
      <3>2. Clear(S(d))'
        BY <1>0, <3>1 DEF Clear
      <3> QED BY <2>1, <3>2, CheckFacts
    <2>3. \A e \in Dirs : \A g \in CallOwn(e, r) : Have(e, r, g) => Have(e, r, g)'
      BY <1>1, <2>1 DEF Have
    <2>4. \A g \in CallOwn(d, r) : Holds(d, g)' => Holds(d, g)
      BY <1>1, <2>1, <2>2 DEF Holds, Finisher
    <2> QED BY <1>3, <2>3, <2>4
  <1>6. CASE GoesBack(d)
    <2>1. frame'[d] = NoFrame /\ pc[d] = "check" /\ Streams' = Streams
      BY <1>6, BackFacts
    <2>2. \A e \in Dirs : \A g \in CallOwn(e, r) : Have(e, r, g) => Have(e, r, g)'
      BY <1>1, <2>1 DEF Have
    <2>3. \A g \in CallOwn(d, r) : Holds(d, g)' => Holds(d, g)
      BY <2>1, OwnFacts DEF Holds
    <2> QED BY <1>3, <2>2, <2>3
  <1>7. CASE FinishReset(d)
    <2>1. frame'[d] = NoFrame /\ pc[d] = "reset"
      BY <1>7, BackFacts
    <2>2. /\ d = Finisher /\ frame[d] = Second(d, r)
          /\ sent["in"][r] = 2 /\ sent[Finisher][r] = 2
          /\ ~ InQ(d, First(d, r)) /\ ~ InQ(d, Second(d, r))
          /\ InDone(r) \/ ~ RecordResponse
      BY <1>0, <2>1, AtReset
    <2>3. ~ RecordResponse => ~ InQ("out", First("out", r)) /\ ~ InQ("out", Second("out", r))
                              /\ frame["out"] = NoFrame
      BY DirFacts DEF TypeInv, QueuesType, HandlerType, InQ
    <2>4. ASSUME NEW e \in Dirs, NEW g \in CallOwn(e, r) PROVE ~ InQ(e, g)' /\ ~ Holds(e, g)'
      <3>1. CASE e = d
        BY <1>1, <2>1, <2>2, <3>1, OwnFacts DEF Holds, CallOwn
      <3>2. CASE e # d /\ RecordResponse
        <4>1. e = "in" /\ d = "out" /\ Finisher' = "out"
          BY <1>1, <2>2, <3>2, DirFacts DEF Finisher
        <4>2. ~ InQ("in", g) /\ (frame["in"].id = r => pc["in"] = "check")
          BY <2>2, <3>2, <4>1 DEF InDone, CallOwn
        <4>3. frame["in"] = g => frame["in"].id = r
          BY <4>1, OwnFacts
        <4> QED BY <1>1, <3>2, <4>1, <4>2, <4>3 DEF Holds
      <3>3. CASE e # d /\ ~ RecordResponse
        <4>1. e = "out"
          BY <2>2, <3>3, DirFacts DEF Finisher
        <4> QED BY <1>1, <2>3, <3>3, <4>1, OwnFacts DEF Holds, CallOwn
      <3> QED BY <3>1, <3>2, <3>3
    <2>5. RecordResponse => sent["out"][r] = 2
      BY <2>2 DEF Finisher
    <2>6. \A e \in Dirs : First(e, r) \in CallOwn(e, r) /\ Second(e, r) \in CallOwn(e, r)
      BY DEF CallOwn
    <2> QED BY <1>1, <2>2, <2>4, <2>5, <2>6, KeptNext, DirFacts
  <1> QED BY <1>4, <1>5, <1>6, <1>7 DEF Works

\* Nothing is known to be over of a call that has more to come.
LEMMA OverNext ==
  ASSUME NEW r \in Calls, RecordResponse' = RecordResponse,
         r \notin cancelled' /\ sent'[Finisher][r] = 2 /\ UsedUp(Finisher, Second(Finisher, r))' =>
              NoParts(r)' /\ UsedUp(Finisher, First(Finisher, r))' /\ InDone(r)',
         Gone(r)' => NoParts(r)' /\ Handled("in", r)' /\ frame'["out"].id # r
  PROVE  OverAt(r)'
  <1>1. Finisher' = Finisher
    BY DEF Finisher
  <1>2. PICK c \in Dirs : c = Finisher
    BY DirFacts
  <1>3. UsedUp(Finisher, Second(Finisher, r))' <=> UsedUp(c, Second(c, r))'
    BY <1>1, <1>2 DEF UsedUp, InQ
  <1>4. UsedUp(Finisher, First(Finisher, r))' <=> UsedUp(c, First(c, r))'
    BY <1>1, <1>2 DEF UsedUp, InQ
  <1> QED BY <1>1, <1>2, <1>3, <1>4 DEF OverAt

\* A frame that is in use stays so but for the goroutine that leaves it.
LEMMA UsedUpStep ==
  ASSUME TypeInv, QueueInv, [Next]_vars, NEW d \in Dirs, NEW r \in Calls,
         NEW g \in CallOwn(d, r)
  PROVE  /\ UsedUp(d, g)' => UsedUp(d, g) \/ ((GoesBack(d) \/ FinishReset(d)) /\ frame[d] = g)
         /\ UsedUp(d, g) => UsedUp(d, g)' \/ Sends(d, g)
  <1>1. g.id = r /\ g # NoFrame /\ g # GoAway /\ g \in CallFrames(d)
    BY OwnFacts
  <1>2. /\ InQ(d, g)' => InQ(d, g) \/ Sends(d, g)
        /\ InQ(d, g) => InQ(d, g)' \/ Takes(d, g)
    BY <1>1, QStep
  <1>3. Takes(d, g) => frame'[d] = g
    <2>1. PICK f : f = Head(queue[d])
      OBVIOUS
    <2> QED BY <1>1, <2>1, TakeFacts DEF Takes
  <1>4. Take(d) => InQ(d, Head(queue[d]))
    <2>1. PICK f : f = Head(queue[d])
      OBVIOUS
    <2> QED BY <2>1, TakeFacts
  <1>5. frame'[d] = g => frame[d] = g \/ InQ(d, g)
    BY <1>1, <1>4, FStep
  <1>6. frame[d] = g => frame'[d] = g \/ GoesBack(d) \/ FinishReset(d)
    BY <1>1, FStep
  <1> QED BY <1>2, <1>3, <1>5, <1>6 DEF UsedUp

\* The peers send more of a call only before it is over.
LEMMA OverNet ==
  ASSUME TypeInv, SentInv, QueueInv, CallInv, [Next]_vars,
         NEW r \in Calls, Clear(SlotOf(r)), Request(r) \/ Respond(r) \/ Cancel(r)
  PROVE  OverAt(r)'
  <1>1. code' = code /\ RecordResponse' = RecordResponse
    BY RequestFacts, RespondFacts, CancelFacts
  <1>2. /\ NoParts(r)' <=> NoParts(r)
        /\ \A d \in Dirs : frame'[d] = frame[d] /\ pc'[d] = pc[d]
    BY <1>1 DEF NoParts, code
  <1>3. /\ sent["in"][r] \in 0 .. 2 /\ sent["out"][r] \in 0 .. 2
        /\ "in" \in Dirs /\ "out" \in Dirs
        /\ sent["out"][r] > 0 => sent["in"][r] = 2
    BY SentType, DirFacts DEF SentInv
  <1>4. \A d \in Dirs : First(d, r) \in CallOwn(d, r) /\ Second(d, r) \in CallOwn(d, r)
    BY DEF CallOwn
  <1>5. CASE Request(r)
    <2>1. /\ r \notin cancelled' /\ sent["in"][r] \in {0, 1}
          /\ sent'["in"][r] = sent["in"][r] + 1 /\ sent'["out"][r] = sent["out"][r]
      BY <1>5, RequestFacts
    <2>2. ~ Gone(r)'
      BY <2>1 DEF Gone
    <2>3. RecordResponse => sent'[Finisher][r] # 2
      BY <1>3, <2>1 DEF Finisher
    <2>4. ~ RecordResponse /\ sent'[Finisher][r] = 2 => ~ UsedUp(Finisher, Second(Finisher, r))'
      <3>1. ASSUME sent'["in"][r] = 2 PROVE InQ("in", Second("in", r))'
        <4>1. PICK g : g = Second("in", r)
          OBVIOUS
        <4>2. g.id = r
          BY <4>1, FrameFacts, DirFacts
        <4>3. Sends("in", g)
          BY <1>5, <2>1, <3>1, <4>1, <4>2 DEF Sends, NextIn
        <4> QED BY <1>3, <4>1, <4>2, <4>3, QStep
      <3>2. ASSUME ~ RecordResponse, sent'[Finisher][r] = 2
            PROVE  ~ UsedUp(Finisher, Second(Finisher, r))'
        <4>1. Finisher = "in" /\ Finisher' = "in"
          BY <1>1, <3>2 DEF Finisher
        <4> QED BY <3>1, <3>2, <4>1 DEF UsedUp, InQ
      <3> QED BY <3>2
    <2> QED BY <1>1, <2>2, <2>3, <2>4, OverNext
  <1>6. CASE Respond(r)
    <2>1. /\ sent["out"][r] \in {0, 1} /\ sent'["out"][r] = sent["out"][r] + 1
          /\ sent'["in"][r] = sent["in"][r] /\ cancelled' = cancelled
          /\ sent["in"][r] = 2
      BY <1>6, RespondFacts
    <2>2. ~ Request(r) /\ ~ Cancel(r)
      <3>1. ~ Request(r)
        BY <2>1, RequestFacts
      <3>2. ~ Cancel(r)
        BY <2>1, CancelFacts
      <3> QED BY <3>1, <3>2
    <2>3. ASSUME NEW g, g.id = r PROVE InQ("in", g)' <=> InQ("in", g)
      <3>1. ~ Takes("in", g)
        BY <1>2, <1>3, <2>3, <1>6, <2>1, TakeFacts DEF Takes
      <3> QED BY <1>3, <2>2, <2>3, <3>1, QStep DEF Sends
    <2>4. Gone(r)' => NoParts(r)' /\ Handled("in", r)' /\ frame'["out"].id # r
      <3>1. Gone(r)' => Gone(r)
        BY <2>1, <2>3, FrameFacts, DirFacts DEF Gone
      <3>2. Handled("in", r) => Handled("in", r)'
        BY <1>3, <2>2, HandledStep
      <3> QED BY <1>2, <1>3, <3>1, <3>2, KeptParts
    <2>5. CASE RecordResponse
      <3>1. sent'[Finisher][r] = 2 => ~ UsedUp(Finisher, Second(Finisher, r))'
        <4>1. ASSUME sent'["out"][r] = 2 PROVE InQ("out", Second("out", r))'
          <5>1. PICK g : g = Second("out", r)
            OBVIOUS
          <5>2. g.id = r
            BY <5>1, FrameFacts, DirFacts
          <5>3. Sends("out", g)
            BY <1>6, <2>1, <2>5, <4>1, <5>1, <5>2 DEF Sends, NextOut
          <5> QED BY <1>3, <5>1, <5>2, <5>3, QStep
        <4>2. Finisher = "out" /\ Finisher' = "out"
          BY <1>1, <2>5 DEF Finisher
        <4> QED BY <4>1, <4>2 DEF UsedUp, InQ
      <3> QED BY <1>1, <2>4, <3>1, OverNext
    <2>6. CASE ~ RecordResponse
      <3>1. Finisher = "in" /\ Finisher' = "in"
        BY <1>1, <2>6 DEF Finisher
      <3>2. ASSUME NEW g \in CallOwn("in", r)
            PROVE  /\ UsedUp("in", g)' <=> UsedUp("in", g)
                   /\ InQ("in", g)' <=> InQ("in", g)
        BY <1>2, <1>3, <2>3, OwnFacts DEF UsedUp
      <3>3. InDone(r)' <=> InDone(r)
        BY <1>2, <1>3, <1>4, <3>2 DEF InDone
      <3>4. r \notin cancelled' /\ sent'["in"][r] = 2 /\ UsedUp("in", Second("in", r))' =>
              NoParts(r)' /\ UsedUp("in", First("in", r))' /\ InDone(r)'
        BY <1>2, <1>3, <1>4, <2>1, <3>1, <3>2, <3>3, KeptParts
      <3>5. /\ UsedUp(Finisher, Second(Finisher, r))' <=> UsedUp("in", Second("in", r))'
            /\ UsedUp(Finisher, First(Finisher, r))' <=> UsedUp("in", First("in", r))'
        BY <3>1 DEF UsedUp, InQ
      <3> QED BY <1>1, <2>4, <3>1, <3>4, <3>5, OverNext
    <2> QED BY <2>5, <2>6
  <1>7. CASE Cancel(r)
    <2>1. r \in cancelled'
      BY <1>7, CancelFacts
    <2>2. ~ Gone(r)'
      <3>1. Sends("in", RST(r))
        BY <1>7, FrameFacts, DirFacts DEF Sends
      <3>2. InQ("in", RST(r))'
        BY <3>1, QStep, FrameFacts, DirFacts
      <3> QED BY <3>2 DEF Gone
    <2> QED BY <1>1, <2>1, <2>2, OverNext
  <1> QED BY <1>5, <1>6, <1>7

\* A slot that is emptied holds nothing of its calls.
LEMMA NothingAfter ==
  ASSUME TypeInv, QueueInv, PartsInv, [Next]_vars, NEW r \in Calls, Empties(SlotOf(r))
  PROVE  NoParts(r)'
  <1>1. PICK s \in Slots : s = SlotOf(r)
    BY CallFacts
  <1>2. Streams'[s] = EmptyStream
    BY <1>1, EmptiesFacts
  <1>3. \A t \in Slots, d \in Dirs : \A p \in Streams'[t][d].parts : SlotOf(p[1]) = t
    BY PartsInvStep DEF PartsInv
  <1> QED BY <1>1, <1>2, <1>3, EmptyFacts DEF NoParts

\* A taken frame says that its call is not over, unless it is a cancellation.
LEMMA OverTake ==
  ASSUME TypeInv, SentInv, QueueInv, PartsInv, CallInv, [Next]_vars, NEW r \in Calls,
         Clear(SlotOf(r))', NEW d \in Dirs, Take(d), Head(queue[d]).id = r
  PROVE  OverAt(r)'
  <1>0. Clear(SlotOf(r)) /\ Acts(d, r) /\ ~ Gone(r)
    BY ClearBefore, GoneIdle DEF Acts
  <1>1. PICK f : f = Head(queue[d])
    OBVIOUS
  <1>2. /\ frame[d] = NoFrame /\ InQ(d, f) /\ f.id = r /\ f # GoAway /\ f \in InFrames(d)
        /\ \A g : InQ(d, g) <=> InQ(d, g)' \/ g = f
        /\ \A e \in Dirs \ {d} : \A g : InQ(e, g)' <=> InQ(e, g)
        /\ \A e \in Dirs \ {d} : frame'[e] = frame[e] /\ pc'[e] = pc[e]
        /\ UNCHANGED <<RecordResponse, sent, cancelled>>
        /\ \A g : InQ(d, g)' /\ g.id = r => Rank(f) < Rank(g)
    BY <1>1, TakeFacts, NoCall
  <1>3. CASE f \in CallFrames(d)
    <2>1. \A c \in Dirs : RST(r) \notin CallFrames(c)
      BY FrameFacts, FrameEnds
    <2>2. InQ("in", RST(r))' <=> InQ("in", RST(r))
      BY <1>2, <1>3, <2>1, DirFacts
    <2>3. ~ Gone(r)'
      BY <1>0, <1>2, <2>2 DEF Gone
    <2>4. PICK c \in Dirs : c = Finisher
      BY DirFacts
    <2>5. UsedUp(c, Second(c, r))' => UsedUp(c, Second(c, r))
      <3>1. Second(c, r) \in CallOwn(c, r)
        BY DEF CallOwn
      <3>2. ~ GoesBack(c) /\ ~ FinishReset(c)
        <4>1. CASE c = d
          BY <1>2, <4>1, BackFacts
        <4>2. CASE c # d
          BY <1>2, <4>2, BackFacts
        <4> QED BY <4>1, <4>2
      <3> QED BY <3>1, <3>2, UsedUpStep
    <2>6. r \notin cancelled /\ sent[c][r] = 2 => ~ UsedUp(c, Second(c, r))
      <3>1. ASSUME r \notin cancelled, sent[c][r] = 2, UsedUp(c, Second(c, r)) PROVE FALSE
        <4>1. UsedUp(c, First(c, r)) /\ InDone(r)
          BY <1>0, <2>4, <3>1, KeptParts
        <4>2. f = First(d, r) \/ f = Second(d, r)
          BY <1>2, <1>3, FrameCases, FrameFacts, <2>1
        <4>3. d = "out" => c = "out"
          BY <1>1, <2>4, HeadFacts DEF Finisher
        <4> QED BY <1>2, <3>1, <4>1, <4>2, <4>3, DirFacts DEF InDone, UsedUp
      <3> QED BY <3>1
    <2>7. ~ (r \notin cancelled' /\ sent'[Finisher][r] = 2
                /\ UsedUp(Finisher, Second(Finisher, r))')
      <3>1. Finisher' = Finisher
        BY <1>2 DEF Finisher
      <3>2. UsedUp(Finisher, Second(Finisher, r))' <=> UsedUp(c, Second(c, r))'
        BY <2>4, <3>1 DEF UsedUp, InQ
      <3> QED BY <1>2, <2>4, <2>5, <2>6, <3>1, <3>2
    <2> QED BY <1>2, <2>3, <2>7, OverNext
  <1>4. CASE f \notin CallFrames(d)
    <2>1. d = "in" /\ f = RST(r) /\ frame' = frame /\ f.kind = "rst"
      BY <1>1, <1>2, <1>4, FrameCases, TakeFacts, FrameFacts
    <2>2. Clear(SlotOf(f.id))'
      BY <1>2
    <2>3. frame'["out"].id # r
      BY <1>1, <1>2, <2>1, <2>2, TakeClear
    <2>4. r \in cancelled'
      BY <1>1, <1>2, <2>1, TakeFacts DEF WasSent
    <2>5. NoParts(r)'
      <3>1. Empties(SlotOf(r))
        BY <1>1, <2>1 DEF Empties, Takes
      <3> QED BY <3>1, NothingAfter
    <2>6. Handled("in", r)'
      <3>1. Handled("in", r)' <=> (\A g : InQ("in", g)' => g.id # r) /\ frame'["in"].id # r
        BY DEF Handled, InQ
      <3>2. frame'["in"].id # r
        BY <1>2, <2>1, NoCall
      <3>3. ASSUME NEW g, InQ("in", g)', g.id = r PROVE FALSE
        <4>1. Rank(f) = 3 /\ Rank(f) < Rank(g)
          BY <1>2, <2>1, <3>3, FrameFacts, DirFacts
        <4>2. g \in InFrames("in")
          BY <1>2, <2>1, <3>3, QType, NoCall
        <4> QED BY <4>1, <4>2, RankFacts, DirFacts
      <3> QED BY <3>1, <3>2, <3>3
    <2> QED BY <1>2, <2>3, <2>4, <2>5, <2>6, OverNext
  <1> QED BY <1>3, <1>4

\* A goroutine that leaves the last frame of a call has emptied the slot.
LEMMA OverWork ==
  ASSUME TypeInv, SentInv, QueueInv, PartsInv, CallInv, HandlerInv, [Next]_vars,
         NEW r \in Calls, Clear(SlotOf(r))', NEW d \in Dirs, Works(d), frame[d].id = r
  PROVE  OverAt(r)'
  <1>0. Clear(SlotOf(r)) /\ S(d) = SlotOf(r) /\ frame[d] # NoFrame /\ ~ Gone(r)
    BY ClearBefore, AtCall, GoneIdle DEF Acts
  <1>1. /\ UNCHANGED <<RecordResponse, queue, sent, cancelled>>
        /\ \A e \in Dirs : \A g : InQ(e, g)' <=> InQ(e, g)
        /\ \A e \in Dirs \ {d} : frame'[e] = frame[e] /\ pc'[e] = pc[e]
    BY WorkFacts
  <1>2. ~ Gone(r)'
    BY <1>0, <1>1, DirFacts DEF Gone
  <1>3. PICK c \in Dirs : c = Finisher
    BY DirFacts
  <1>4. /\ Finisher' = Finisher
        /\ UsedUp(Finisher, Second(Finisher, r))' <=> UsedUp(c, Second(c, r))'
        /\ UsedUp(Finisher, First(Finisher, r))' <=> UsedUp(c, First(c, r))'
    BY <1>1, <1>3 DEF Finisher, UsedUp, InQ
  <1>5. frame[d] = First(d, r) \/ frame[d] = Second(d, r)
    BY <1>0, AtHand
  <1>6. CASE r \notin cancelled /\ sent[c][r] = 2 /\ UsedUp(c, Second(c, r))
    <2>1. NoParts(r) /\ UsedUp(c, First(c, r)) /\ InDone(r)
      BY <1>0, <1>3, <1>6, KeptParts
    <2>2. d # c
      BY <1>5, <1>6, <2>1 DEF UsedUp
    <2>3. d = "in" /\ c = "out"
      <3>1. d = "out" => RecordResponse
        BY <1>0, AtHand
      <3> QED BY <1>3, <2>2, <3>1, DirFacts DEF Finisher
    <2>4. pc[d] = "check"
      BY <1>0, <2>1, <2>3 DEF InDone
    <2>5. ~ Store(d) /\ ~ FinishReset(d)
      BY <2>4, StoreStep, BackFacts
    <2>6. ~ MovesOn(d)
      <3>1. ASSUME MovesOn(d) PROVE FALSE
        <4>1. Check(d) /\ Complete(S(d)) /\ frame' = frame
          BY <2>4, <3>1, MoveFacts DEF MovesOn, Signal, Put, Wait, Finish, Send
        <4>2. S(d)' = S(d)
          BY <4>1 DEF S
        <4>3. Clear(S(d))'
          BY <1>0, <4>2 DEF Clear
        <4> QED BY <1>3, <2>2, <4>1, <4>3, CheckFacts
      <3> QED BY <3>1
    <2>7. GoesBack(d)
      BY <2>5, <2>6 DEF Works
    <2>8. Streams' = Streams /\ frame'["in"] = NoFrame /\ frame'["out"] = frame["out"]
      BY <1>1, <2>3, <2>7, BackFacts, DirFacts
    <2>9. NoParts(r)'
      BY <2>1, <2>8 DEF NoParts
    <2>10. UsedUp(c, First(c, r))'
      BY <1>1, <2>1, <2>3, <2>8, DirFacts DEF UsedUp
    <2>11. InDone(r)'
      BY <1>1, <2>1, <2>8, NoCall, DirFacts DEF InDone
    <2> QED BY <1>1, <1>2, <1>4, <2>9, <2>10, <2>11, OverNext
  <1>7. CASE ~ (r \notin cancelled /\ sent[c][r] = 2 /\ UsedUp(c, Second(c, r)))
    <2>1. ASSUME r \notin cancelled', sent'[Finisher][r] = 2,
                 UsedUp(Finisher, Second(Finisher, r))'
          PROVE  NoParts(r)' /\ UsedUp(Finisher, First(Finisher, r))' /\ InDone(r)'
      <3>1. (GoesBack(c) \/ FinishReset(c)) /\ frame[c] = Second(c, r)
        <4>1. Second(c, r) \in CallOwn(c, r)
          BY DEF CallOwn
        <4> QED BY <1>1, <1>3, <1>4, <1>7, <2>1, <4>1, UsedUpStep
      <3>2. c = d
        BY <1>1, <3>1, BackFacts
      <3>3. ~ GoesBack(d)
        <4>1. ASSUME GoesBack(d) PROVE FALSE
          <5>1. pc[d] = "check"
            BY <4>1, BackFacts
          <5>2. Streams[S(d)][d].end = frame[d].end
            BY <1>0, <1>3, <3>2, <5>1 DEF HandlerInv, HandlerAt
          <5>3. ~ Streams[S(d)][d].end
            BY <1>3, <3>2, <4>1 DEF GoesBack, Complete, Finisher
          <5>4. frame[d].end
            BY <3>1, <3>2, FrameFacts
          <5> QED BY <5>2, <5>3, <5>4
        <4> QED BY <4>1
      <3>4. FinishReset(d) /\ pc[d] = "reset" /\ frame'[d] = NoFrame
        BY <3>1, <3>2, <3>3, BackFacts
      <3>5. /\ sent["in"][r] = 2
            /\ ~ InQ(d, First(d, r)) /\ ~ InQ(d, Second(d, r))
            /\ InDone(r) \/ ~ RecordResponse
        BY <1>0, <3>4, AtReset
      <3>6. NoParts(r)'
        <4>1. Empties(SlotOf(r))
          BY <1>0, <3>4 DEF Empties
        <4> QED BY <4>1, NothingAfter
      <3>7. UsedUp(d, First(d, r))'
        <4>1. First(d, r) # NoFrame
          BY OwnFacts DEF CallOwn
        <4> QED BY <1>1, <3>4, <3>5, <4>1 DEF UsedUp
      <3>8. InDone(r)'
        <4>1. CASE RecordResponse
          <5>1. d = "out"
            BY <1>3, <3>2, <4>1 DEF Finisher
          <5>2. frame'["in"] = frame["in"] /\ pc'["in"] = pc["in"]
            BY <1>1, <5>1, DirFacts
          <5> QED BY <1>1, <3>5, <4>1, <5>2, DirFacts DEF InDone
        <4>2. CASE ~ RecordResponse
          <5>1. d = "in"
            BY <1>3, <3>2, <4>2 DEF Finisher
          <5> QED BY <1>1, <3>4, <3>5, <5>1, NoCall, DirFacts DEF InDone
        <4> QED BY <4>1, <4>2
      <3> QED BY <1>4, <3>2, <3>6, <3>7, <3>8
    <2> QED BY <1>1, <1>2, <2>1, OverNext
  <1> QED BY <1>6, <1>7

\* Every step keeps CallInv.
LEMMA CallStep ==
  ASSUME TypeInv, SentInv, QueueInv, SlotInv, PartsInv, OwnInv, CallInv, HandlerInv,
         [Next]_vars
  PROVE  CallInv'
  <1>1. ASSUME NEW r \in Calls, Clear(SlotOf(r))' PROVE KeptAt(r)' /\ OverAt(r)'
    <2>0. Clear(SlotOf(r))
      BY <1>1, ClearBefore
    <2>1. CASE ~ Touched(r)
      BY <1>1, <2>1, UntouchedCall
    <2>2. CASE Request(r) \/ Respond(r) \/ Cancel(r)
      BY <2>0, <2>2, KeptNet, OverNet
    <2>3. ASSUME NEW d \in Dirs, Works(d), frame[d].id = r PROVE KeptAt(r)' /\ OverAt(r)'
      BY <1>1, <2>3, KeptWork, OverWork
    <2>4. ASSUME NEW d \in Dirs, Take(d), Head(queue[d]).id = r
          PROVE  KeptAt(r)' /\ OverAt(r)'
      BY <1>1, <2>4, KeptTake, OverTake
    <2> QED BY <2>1, <2>2, <2>3, <2>4 DEF Touched, Acts
  <1>2. \A r \in Calls : Clear(SlotOf(r))' => KeptAt(r)' /\ OverAt(r)'
    BY <1>1
  <1> QED BY <1>2 DEF CallInv, Clear

-----------------------------------------------------------------------------
(* What the goroutines know of the slot they are at. *)

\* A request that DealInput is past stays so.
LEMMA InDoneStep ==
  ASSUME TypeInv, QueueInv, [Next]_vars, NEW r \in Calls, Clear(SlotOf(r))',
         RecordResponse, sent["in"][r] = 2, InDone(r)
  PROVE  InDone(r)'
  <1>1. \A g \in CallOwn("in", r) : ~ InQ("in", g)
    BY DEF InDone, CallOwn
  <1>2. \A g \in CallOwn("in", r) : ~ InQ("in", g)'
    <2>1. ASSUME NEW g \in CallOwn("in", r), InQ("in", g)' PROVE FALSE
      <3>1. g.id = r /\ g # RST(r)
        BY OwnFacts, DirFacts
      <3>2. Sends("in", g)
        BY <1>1, <2>1, <3>1, QStep, DirFacts
      <3>3. Request(r)
        BY <3>1, <3>2, DirFacts DEF Sends
      <3>4. sent["in"][r] \in {0, 1}
        BY <3>3, RequestFacts
      <3> QED BY <3>4
    <2> QED BY <2>1
  <1>3. ASSUME frame'["in"].id = r
        PROVE  frame'["in"] = Second("in", r) /\ pc'["in"] = "check"
    <2>1. CASE frame'["in"] = frame["in"]
      <3>1. frame["in"] = Second("in", r) /\ pc["in"] = "check" /\ frame["in"].id = r
        BY <1>3, <2>1 DEF InDone
      <3>2. ~ Store("in") /\ ~ GoesBack("in") /\ ~ FinishReset("in") /\ ~ Take("in")
        BY <2>1, <3>1, StoreStep, BackFacts, HeadFacts, DirFacts
      <3>3. ~ MovesOn("in")
        <4>1. ASSUME MovesOn("in") PROVE FALSE
          <5>1. Check("in") /\ Complete(S("in"))
            BY <3>1, <4>1 DEF MovesOn, Signal, Put, Wait, Finish, Send
          <5>2. S("in") = SlotOf(r) /\ S("in")' = SlotOf(r)
            BY <1>3, <3>1 DEF S
          <5>3. Clear(S("in"))'
            BY <5>2 DEF Clear
          <5> QED BY <5>1, <5>3, CheckFacts, DirFacts DEF Finisher
        <4> QED BY <4>1
      <3>4. pc'["in"] = pc["in"]
        BY <3>1, <3>2, <3>3, FStep, NoCall, DirFacts
      <3> QED BY <2>1, <3>1, <3>4
    <2>2. CASE Take("in") /\ frame'["in"] = Head(queue["in"])
      <3>1. PICK f : f = Head(queue["in"])
        OBVIOUS
      <3>2. InQ("in", f) /\ f.id = r
        BY <1>3, <2>2, <3>1, TakeFacts, DirFacts
      <3>3. f \in CallFrames("in")
        <4>1. frame'["in"] # NoFrame
          BY <1>3, NoCall
        <4>2. f \notin CallFrames("in") => frame'["in"] = NoFrame
          BY <2>2, <3>1, TakeFacts, DirFacts
        <4> QED BY <4>1, <4>2
      <3>4. f \in CallOwn("in", r)
        BY <3>2, <3>3, FrameCases, FrameEnds, FrameFacts, FrameSets, DirFacts DEF CallOwn
      <3> QED BY <1>1, <3>2, <3>4
    <2>3. frame'["in"] # NoFrame
      BY <1>3, NoCall
    <2> QED BY <2>1, <2>2, <2>3, FStep, DirFacts
  <1> QED BY <1>2, <1>3 DEF InDone, CallOwn

\* A frame that is taken is marked in its item.
LEMMA AtTake ==
  ASSUME TypeInv, QueueInv, NEW d \in Dirs, Take(d), frame'[d] # NoFrame
  PROVE  HandlerAt(d)'
  <1>1. PICK f : f = Head(queue[d])
    OBVIOUS
  <1>2. f \in CallFrames(d) /\ TakeFrame(d, f) /\ frame'[d] = f /\ pc'[d] = "store"
    BY <1>1, TakeFacts
  <1>3. Streams'[SlotOf(f.id)][d].end = f.end
    BY <1>2, TakeStreams
  <1>4. S(d)' = SlotOf(f.id)
    BY <1>2 DEF S
  <1> QED BY <1>2, <1>3, <1>4 DEF HandlerAt

\* A goroutine that stores its frame leaves the marks.
LEMMA AtStore ==
  ASSUME TypeInv, NEW d \in Dirs, Store(d), HandlerAt(d)
  PROVE  HandlerAt(d)'
  <1>1. frame' = frame /\ pc[d] = "store" /\ pc'[d] = IF d = "in" THEN "signal" ELSE "check"
    BY StoreStep
  <1>2. S(d)' = S(d) /\ Streams'[S(d)][d].end = Streams[S(d)][d].end
    BY <1>1, StoreFacts DEF S
  <1> QED BY <1>1, <1>2 DEF HandlerAt

\* DealOutput is past waiting when DealInput is done with the request.
LEMMA WaitedOut ==
  ASSUME TypeInv, OwnInv, TokenInv, [Next]_vars, Wait("out"), HandlerAt("out"),
         NEW r \in Calls, frame["out"].id = r, Clear(SlotOf(r))'
  PROVE  InDone(r)
  <1>0. Clear(SlotOf(r)) /\ S("out") = SlotOf(r) /\ frame["out"] # NoFrame
    BY ClearBefore, AtCall, DirFacts
  <1>1. RecordResponse
    BY <1>0, AtHand, DirFacts
  <1>2. ch["out"] = <<S("out"), done[S("out")]>>
    BY DEF Wait, HandlerAt
  <1>3. CASE ch["out"] \in tokens
    <2>1. PICK q \in Calls : SlotOf(q) = SlotOf(r) /\ TokenOf(q)
      BY <1>0, <1>1, <1>2, <1>3 DEF TokenInv, Clear
    <2>2. Present(q) /\ Present(r)
      BY <2>1, DirFacts DEF Present, At, TokenOf
    <2>3. q = r
      BY <1>0, <2>1, <2>2 DEF OwnInv
    <2> QED BY <2>1, <2>3 DEF TokenOf
  <1>4. CASE ch["out"] \notin tokens
    <2>1. Mark(S("out"), ~ Handled("in", frame["out"].id))
      BY <1>4 DEF Wait
    <2>2. SlotOf(r) \notin raced'
      BY DEF Clear
    <2>3. Handled("in", r)
      BY <1>0, <2>1, <2>2 DEF Mark
    <2> QED BY <2>3, HandledFacts, FrameFacts, DirFacts DEF InDone
  <1> QED BY <1>3, <1>4

\* A goroutine goes on knowing what HandlerAt says.
LEMMA AtMove ==
  ASSUME TypeInv, OwnInv, TokenInv, [Next]_vars, NEW d \in Dirs, MovesOn(d), HandlerAt(d),
         NEW r \in Calls, frame[d].id = r, Clear(SlotOf(r))'
  PROVE  HandlerAt(d)'
  <1>0. Clear(SlotOf(r)) /\ S(d) = SlotOf(r) /\ frame[d] # NoFrame
    BY ClearBefore, AtCall
  <1>1. /\ UNCHANGED <<RecordResponse, Streams, done, frame, queue, sent, cancelled>>
        /\ pc[d] \notin {"idle", "store", "reset"}
        /\ \A e \in Dirs \ {d} : pc'[e] = pc[e] /\ ch'[e] = ch[e] /\ msg'[e] = msg[e]
        /\ \/ pc[d] = "signal" /\ Streams[S(d)][d].end /\ pc'[d] = "put"
           \/ pc[d] \in {"signal", "put"} /\ pc'[d] = "check"
           \/ pc[d] = "check" /\ Complete(S(d)) /\ pc'[d] \in {"wait", "finish"}
           \/ pc[d] = "wait" /\ pc'[d] = "finish"
           \/ pc[d] = "finish" /\ pc'[d] \in {"send", "reset"}
           \/ pc[d] = "send" /\ pc'[d] = "reset"
    BY MoveFacts
  <1>2. S(d)' = S(d) /\ Finisher' = Finisher
    BY <1>1 DEF S, Finisher
  <1>3. Clear(S(d))'
    BY <1>0, <1>2 DEF Clear
  <1>4. pc[d] = "check" => Check(d) /\ Complete(S(d))
    BY DEF MovesOn, Signal, Put, Wait, Finish, Send
  <1>5. pc[d] = "check" => d = Finisher /\ frame[d].end
    <2>1. pc[d] = "check" => d = Finisher
      BY <1>3, <1>4, CheckFacts
    <2>2. Complete(S(d)) <=> Streams[S(d)][Finisher].end
      BY DEF Complete, Finisher
    <2> QED BY <1>4, <2>1, <2>2 DEF HandlerAt
  <1>6. ((pc[d] = "check" => d = Finisher) => Streams[S(d)][d].end = frame[d].end)'
    BY <1>1, <1>2, <1>5 DEF HandlerAt
  <1>7. pc'[d] \in {"wait", "finish", "send", "reset"} => d = Finisher /\ frame[d].end
    BY <1>1, <1>5 DEF HandlerAt
  <1>8. pc'[d] = "put" => frame[d].end
    BY <1>1 DEF HandlerAt
  <1>9. pc'[d] \in {"put", "wait"} => ch'[d] = <<S(d), done[S(d)]>>
    <2>1. pc'[d] = "wait" => ch'[d] = <<S(d), done[S(d)]>>
      BY <1>1, <1>3, <1>4, CheckFacts
    <2>2. ASSUME pc'[d] = "put" PROVE ch'[d] = <<S(d), done[S(d)]>>
      <3>1. pc[d] = "signal" /\ d = "in"
        BY <1>1, <2>2, DirFacts DEF TypeInv, HandlerType, TypeOK
      <3>2. Signal
        BY <3>1 DEF MovesOn, Signal, Put, Check, Wait, Finish, Send
      <3>3. Streams[S("in")]["in"].end
        BY <1>1, <2>2, <3>1
      <3>4. ch \in [Dirs -> Channels \cup {NoChan}]
        BY DEF TypeInv, HandlerType
      <3>5. ch' = [ch EXCEPT !["in"] = <<S("in"), done[S("in")]>>]
        BY <3>2, <3>3 DEF Signal
      <3> QED BY <3>1, <3>4, <3>5, DirFacts
    <2> QED BY <2>1, <2>2
  <1>10. d = "out" /\ pc'[d] \in {"finish", "send", "reset"} => InDone(r)'
    <2>1. ASSUME d = "out", pc'[d] \in {"finish", "send", "reset"} PROVE InDone(r)
      <3>1. CASE pc[d] = "wait"
        <4>1. Wait("out")
          BY <2>1, <3>1 DEF MovesOn, Signal, Put, Check, Wait, Finish, Send
        <4> QED BY <2>1, <4>1, WaitedOut
      <3>2. CASE pc[d] = "check"
        <4>1. RecordResponse
          BY <1>0, <2>1, AtHand
        <4> QED BY <1>1, <1>3, <1>4, <2>1, <3>2, <4>1, CheckFacts
      <3>3. CASE pc[d] \in {"finish", "send"}
        BY <2>1, <3>3 DEF HandlerAt
      <3> QED BY <1>1, <2>1, <3>1, <3>2, <3>3
    <2>2. ASSUME d = "out", InDone(r) PROVE InDone(r)'
      <3>1. pc'["in"] = pc["in"] /\ frame' = frame /\ queue' = queue
        BY <1>1, <2>2, DirFacts
      <3> QED BY <2>2, <3>1 DEF InDone, InQ
    <2> QED BY <2>1, <2>2
  <1>11. frame' = frame /\ frame[d].id = r
    BY <1>1
  <1> QED BY <1>1, <1>2, <1>6, <1>7, <1>8, <1>9, <1>10, <1>11 DEF HandlerAt

\* Another actor's step leaves a goroutine what it knows of its slot.
LEMMA AtOther ==
  ASSUME TypeInv, SentInv, QueueInv, SlotInv, PartsInv, OwnInv, CallInv, HandlerInv,
         [Next]_vars, NEW d \in Dirs, HandlerAt(d), frame'[d] = frame[d], pc'[d] = pc[d],
         ~ Works(d), NEW r \in Calls, frame[d].id = r, Clear(SlotOf(r))'
  PROVE  HandlerAt(d)'
  <1>0. Clear(SlotOf(r)) /\ S(d) = SlotOf(r) /\ frame[d] # NoFrame /\ SlotOf(r) \in Slots
    BY ClearBefore, AtCall, CallFacts
  <1>1. /\ RecordResponse' = RecordResponse /\ Finisher' = Finisher /\ S(d)' = S(d)
        /\ ch'[d] = ch[d]
    BY NetFacts, ChStep DEF Finisher, S, Works
  <1>2. Present(r)
    BY DEF Present, At
  <1>3. d = "out" => RecordResponse
    BY <1>0, AtHand
  <1>4. ASSUME d = "out", InDone(r) PROVE InDone(r)'
    <2>1. WasSent(d, frame[d]) /\ frame[d] \in CallFrames(d)
      BY <1>0, AtHand DEF QueueInv
    <2>2. frame[d] \in InFrames(d)
      BY <2>1, FrameSets
    <2>3. Rank(frame[d]) \in 1 .. 3 /\ frame[d].kind # "rst"
      BY <2>1, <2>2, RankFacts, FrameEnds
    <2>4. sent["in"][r] = 2
      BY <1>4, <2>1, <2>3, WasBegun
    <2> QED BY <1>3, <1>4, <2>4, InDoneStep
  <1>5. CASE Empties(SlotOf(r))
    <2>1. ASSUME NEW e \in Dirs, NEW a \in Calls, Acts(e, a), SlotOf(a) = SlotOf(r)
          PROVE  a = r
      <3>1. Clear(SlotOf(a))'
        BY <2>1
      <3> QED BY <1>2, <2>1, <3>1, Alone
    <2>2. ~ \E q \in Calls : SlotOf(q) = SlotOf(r) /\ Takes("in", RST(q))
      <3>1. ASSUME NEW q \in Calls, SlotOf(q) = SlotOf(r), Takes("in", RST(q)) PROVE FALSE
        <4>1. PICK f : f = Head(queue["in"])
          OBVIOUS
        <4>2. f = RST(q) /\ f.id = q /\ f.kind = "rst" /\ Take("in")
          BY <3>1, <4>1, FrameFacts, DirFacts DEF Takes
        <4>3. Acts("in", q)
          BY <4>1, <4>2 DEF Acts
        <4>4. q = r
          BY <2>1, <3>1, <4>3, DirFacts
        <4>5. Clear(SlotOf(f.id))'
          BY <4>2, <4>4
        <4>6. f # GoAway
          BY <4>2, NoCall
        <4>7. frame["out"].id # r
          BY <4>1, <4>2, <4>4, <4>5, <4>6, TakeClear, DirFacts
        <4>8. frame["in"] = NoFrame
          BY <4>2, HeadFacts, DirFacts
        <4> QED BY <4>7, <4>8, NoCall, DirFacts
      <3> QED BY <3>1
    <2>3. PICK e \in Dirs : FinishReset(e) /\ S(e) = SlotOf(r)
      BY <1>5, <2>2 DEF Empties
    <2>4. e # d
      BY <2>3 DEF Works
    <2>5. frame[e] # NoFrame /\ pc[e] = "reset"
      BY <2>3, BackFacts
    <2>6. frame[e].id = r
      <3>1. frame[e].id \in Calls /\ S(e) = SlotOf(frame[e].id)
        BY <2>5, AtHand
      <3>2. Acts(e, frame[e].id)
        BY <2>3 DEF Acts, Works
      <3> QED BY <2>1, <2>3, <3>1, <3>2
    <2>7. HandlerAt(e)
      BY <1>0, <2>3, <2>5 DEF HandlerInv
    <2>8. e = Finisher
      BY <2>5, <2>7 DEF HandlerAt
    <2>9. d = "in" /\ e = "out"
      <3>1. e = "out" => RecordResponse
        BY <2>5, AtHand
      <3> QED BY <1>3, <2>4, <2>8, DirFacts DEF Finisher
    <2>10. pc[d] = "check" /\ d # Finisher
      <3>1. InDone(r)
        BY <2>5, <2>6, <2>7, <2>9 DEF HandlerAt
      <3> QED BY <2>4, <2>8, <2>9, <3>1 DEF InDone
    <2> QED BY <1>1, <2>9, <2>10 DEF HandlerAt
  <1>6. CASE ~ Empties(SlotOf(r))
    <2>1. PICK s : s = SlotOf(r)
      OBVIOUS
    <2>2. done'[s] = done[s] /\ (KeepsSlot(s) \/ StoresAt(s) \/ TakesAt(s))
      BY <1>0, <1>6, <2>1, SlotStep DEF Emptied
    <2>3. Streams'[s][d].end = Streams[s][d].end
      <3>1. CASE KeepsSlot(s)
        BY <3>1 DEF KeepsSlot
      <3>2. CASE StoresAt(s)
        BY <3>2 DEF StoresAt
      <3>3. CASE TakesAt(s)
        <4>1. PICK e \in Dirs : Take(e) /\ \A c \in Dirs \ {e} : Streams'[s][c] = Streams[s][c]
          BY <3>3 DEF TakesAt
        <4>2. e # d
          BY <1>0, <4>1, HeadFacts
        <4> QED BY <4>1, <4>2
      <3> QED BY <2>2, <3>1, <3>2, <3>3
    <2>4. S(d) = s /\ S(d)' = s
      BY <1>0, <1>1, <2>1
    <2>5. d = "out" /\ InDone(frame[d].id) => InDone(frame[d].id)'
      BY <1>4
    <2> QED BY <1>1, <2>2, <2>3, <2>4, <2>5 DEF HandlerAt
  <1> QED BY <1>5, <1>6

\* Every step keeps HandlerInv.
LEMMA HandlerStep ==
  ASSUME TypeInv, SentInv, QueueInv, SlotInv, PartsInv, OwnInv, CallInv, HandlerInv,
         TokenInv, [Next]_vars
  PROVE  HandlerInv'
  <1>1. ASSUME NEW d \in Dirs, frame'[d] # NoFrame, Clear(S(d))' PROVE HandlerAt(d)'
    <2>1. CASE frame'[d] = frame[d]
      <3>1. PICK r \in Calls : r = frame[d].id
        BY <1>1, <2>1, AtHand
      <3>2. S(d)' = SlotOf(r)
        BY <2>1, <3>1 DEF S
      <3>3. Clear(SlotOf(r))'
        BY <1>1, <3>2 DEF Clear
      <3>4. HandlerAt(d)
        <4>1. Clear(SlotOf(r)) /\ S(d) = SlotOf(r)
          BY <1>1, <2>1, <3>1, <3>3, ClearBefore, AtCall
        <4> QED BY <1>1, <2>1, <4>1 DEF HandlerInv
      <3>5. CASE Store(d)
        BY <3>4, <3>5, AtStore
      <3>6. CASE MovesOn(d)
        BY <3>1, <3>3, <3>4, <3>6, AtMove
      <3>7. CASE pc'[d] = pc[d] /\ ~ Works(d)
        BY <2>1, <3>1, <3>3, <3>4, <3>7, AtOther
      <3>8. ~ Take(d) /\ ~ GoesBack(d) /\ ~ FinishReset(d)
        <4>1. frame[d] # NoFrame /\ frame'[d] # NoFrame
          BY <1>1, <2>1
        <4> QED BY <4>1, HeadFacts, BackFacts
      <3> QED BY <2>1, <3>5, <3>6, <3>7, <3>8, FStep
    <2>2. CASE Take(d)
      BY <1>1, <2>2, AtTake
    <2> QED BY <1>1, <2>1, <2>2, FStep
  <1>2. \A d \in Dirs : frame'[d] # NoFrame /\ Clear(S(d))' => HandlerAt(d)'
    BY <1>1
  <1> QED BY <1>2 DEF HandlerInv, Clear, S

\* Every step keeps EndInv.
LEMMA EndStep ==
  ASSUME TypeInv, QueueInv, EndInv, [Next]_vars
  PROVE  EndInv'
  <1>0. Finisher' = Finisher
    BY NetFacts DEF Finisher
  <1>1. PICK c \in Dirs : c = Finisher
    BY DirFacts
  <1>2. ASSUME NEW s \in Slots, Clear(s)', Streams'[s][c].end
        PROVE  frame'[c] # NoFrame /\ SlotOf(frame'[c].id) = s /\ frame'[c].end
    <2>0. Clear(s)
      BY <1>2, ClearBefore
    <2>1. ~ Emptied(s)
      BY <1>2, EmptyFacts DEF Emptied
    <2>2. ASSUME Streams[s][c].end
          PROVE  frame'[c] # NoFrame /\ SlotOf(frame'[c].id) = s /\ frame'[c].end
      <3>1. frame[c] # NoFrame /\ S(c) = s /\ frame[c].end
        BY <1>1, <2>0, <2>2 DEF EndInv
      <3>2. ~ GoesBack(c)
        BY <1>1, <2>2, <3>1 DEF GoesBack, Complete, Finisher
      <3>3. ~ FinishReset(c)
        <4>1. ASSUME FinishReset(c) PROVE FALSE
          <5>1. Empties(s)
            BY <3>1, <4>1 DEF Empties
          <5>2. Streams'[s] = EmptyStream
            BY <5>1, EmptiesFacts
          <5> QED BY <1>2, <5>2, EmptyFacts
        <4> QED BY <4>1
      <3>4. frame'[c] = frame[c]
        BY <3>1, <3>2, <3>3, FStep
      <3> QED BY <3>1, <3>4 DEF S
    <2>3. CASE KeepsSlot(s)
      BY <1>2, <2>2, <2>3 DEF KeepsSlot
    <2>4. CASE StoresAt(s)
      BY <1>2, <2>2, <2>4 DEF StoresAt
    <2>5. CASE TakesAt(s)
      <3>1. PICK e \in Dirs :
               /\ Take(e) /\ Head(queue[e]) \in CallFrames(e) /\ SlotOf(Head(queue[e]).id) = s
               /\ \A a \in Dirs \ {e} : Streams'[s][a] = Streams[s][a]
               /\ Streams'[s][e].end = Head(queue[e]).end
        BY <2>5 DEF TakesAt
      <3>2. CASE e = c
        <4>1. PICK f : f = Head(queue[c])
          OBVIOUS
        <4>2. frame'[c] = f /\ f \in CallFrames(c)
          BY <3>1, <3>2, <4>1, TakeFacts
        <4>3. f # NoFrame
          <5>1. f \in InFrames(c)
            BY <4>2, FrameSets
          <5> QED BY <5>1, FrameCases
        <4> QED BY <1>2, <3>1, <3>2, <4>1, <4>2, <4>3
      <3>3. CASE e # c
        BY <1>2, <2>2, <3>1, <3>3
      <3> QED BY <3>2, <3>3
    <2> QED BY <2>1, <2>3, <2>4, <2>5, SlotStep
  <1>3. \A s \in Slots : Clear(s)' /\ Streams'[s][c].end =>
           frame'[c] # NoFrame /\ SlotOf(frame'[c].id) = s /\ frame'[c].end
    BY <1>2
  <1>4. EndInv' <=> \A s \in Slots : Clear(s)' /\ Streams'[s][Finisher'].end =>
           /\ frame'[Finisher'] # NoFrame /\ SlotOf(frame'[Finisher'].id) = s
           /\ frame'[Finisher'].end
    BY Zenon DEF EndInv, Clear, S
  <1> QED BY <1>0, <1>1, <1>3, <1>4

\* The token that DealInput puts is of the request at hand.
LEMMA PutToken ==
  ASSUME TypeInv, QueueInv, CallInv, HandlerInv, [Next]_vars, Put,
         NEW s \in Slots, Clear(s)', ch["in"] = <<s, done[s]>>
  PROVE  \E r \in Calls : SlotOf(r) = s /\ TokenOf(r)'
  <1>0. "in" \in Dirs /\ Clear(s)
    BY DirFacts, ClearBefore
  <1>1. pc["in"] = "put" /\ frame["in"] # NoFrame /\ S("in") = s
    <2>1. pc["in"] = "put" /\ frame["in"] # NoFrame
      BY <1>0 DEF Put, TypeInv, HandlerType
    <2>2. ch["in"][1] = S("in")
      BY <2>1 DEF TypeInv, HandlerType
    <2> QED BY <2>1, <2>2
  <1>2. PICK r \in Calls : r = frame["in"].id
    BY <1>0, <1>1, AtHand
  <1>3. SlotOf(r) = s /\ frame["in"] = Second("in", r)
    <2>1. HandlerAt("in")
      BY <1>0, <1>1 DEF HandlerInv
    <2>2. frame["in"].end
      BY <1>1, <2>1 DEF HandlerAt
    <2> QED BY <1>0, <1>1, <1>2, <2>2, AtHand
  <1>4. ~ InQ("in", First("in", r)) /\ ~ InQ("in", Second("in", r)) /\ sent["in"][r] = 2
    BY <1>0, <1>3, LastAtHand
  <1>5. MovesOn("in")
    BY DEF MovesOn
  <1>6. UNCHANGED <<Streams, frame, queue, sent>> /\ pc'["in"] = "check"
    BY <1>0, <1>1, <1>5, MoveFacts
  <1>7. Have("in", r, Second("in", r))
    <2>1. Holds("in", Second("in", r))
      BY <1>1, <1>3 DEF Holds
    <2> QED BY <1>0, <1>3, <2>1, KeptParts
  <1>8. <<r, Second("in", r).kind>> \in Streams[s]["in"].parts
    BY <1>1, <1>3, <1>4, <1>7 DEF Have
  <1>9. ~ NoParts(r)'
    <2>1. PICK p \in Streams'[s]["in"].parts : p[1] = r
      BY <1>6, <1>8
    <2> QED BY <1>0, <2>1 DEF NoParts
  <1>10. InDone(r)'
    BY <1>3, <1>4, <1>6 DEF InDone, InQ
  <1>11. sent'["in"][r] = 2
    BY <1>4, <1>6
  <1> QED BY <1>3, <1>9, <1>10, <1>11 DEF TokenOf

\* Every step keeps TokenInv.
LEMMA TokenInvStep ==
  ASSUME TypeInv, SentInv, QueueInv, SlotInv, PartsInv, OwnInv, CallInv, HandlerInv,
         TokenInv, [Next]_vars
  PROVE  TokenInv'
  <1>0. RecordResponse' = RecordResponse
    BY NetFacts
  <1>1. ASSUME NEW s \in Slots, RecordResponse, Clear(s)', <<s, done'[s]>> \in tokens'
        PROVE  \E r \in Calls : SlotOf(r) = s /\ TokenOf(r)'
    <2>0. Clear(s)
      BY <1>1, ClearBefore
    <2>1. ~ Empties(s) /\ (<<s, done[s]>> \in tokens \/ (Put /\ ch["in"] = <<s, done[s]>>))
      BY <1>1, TokenStep
    <2>2. CASE Put /\ ch["in"] = <<s, done[s]>>
      BY <1>1, <2>2, PutToken
    <2>3. CASE <<s, done[s]>> \in tokens
      <3>1. PICK r \in Calls : SlotOf(r) = s /\ TokenOf(r)
        BY <1>1, <2>0, <2>3 DEF TokenInv
      <3>2. Clear(SlotOf(r))' /\ Present(r) /\ sent["in"][r] = 2 /\ InDone(r)
        BY <1>1, <3>1 DEF TokenOf, Present
      <3>3. PICK d \in Dirs : \E p \in Streams[s][d].parts : p[1] = r
        BY <3>1, PartsPlace DEF TokenOf
      <3>4. PICK p \in Streams[s][d].parts : p[1] = r
        BY <3>3
      <3>5. ~ (Store(d) /\ S(d) = s /\ p[1] # frame[d].id)
        <4>1. ASSUME Store(d), S(d) = s, p[1] # frame[d].id PROVE FALSE
          <5>1. frame[d] # NoFrame
            BY <4>1, StoreStep
          <5>2. PICK a \in Calls : a = frame[d].id /\ SlotOf(a) = s
            BY <4>1, <5>1, AtHand
          <5>3. Acts(d, a) /\ Clear(SlotOf(a))'
            BY <1>1, <4>1, <5>2 DEF Acts, Works
          <5>4. r = a
            BY <3>1, <3>2, <5>2, <5>3, Alone
          <5> QED BY <3>4, <4>1, <5>2, <5>4
        <4> QED BY <4>1
      <3>6. p \in Streams'[s][d].parts
        BY <2>1, <3>4, <3>5, PartsKept
      <3>7. ~ NoParts(r)'
        BY <3>4, <3>6 DEF NoParts
      <3>8. sent'["in"][r] = 2
        <4>1. ~ Request(r)
          BY <3>2, RequestFacts
        <4> QED BY <3>2, <4>1, NetFacts, DirFacts
      <3>9. InDone(r)'
        BY <1>1, <3>2, InDoneStep
      <3> QED BY <3>1, <3>7, <3>8, <3>9 DEF TokenOf
    <2> QED BY <2>1, <2>2, <2>3
  <1>2. \A s \in Slots : RecordResponse /\ Clear(s)' /\ <<s, done'[s]>> \in tokens' =>
           \E r \in Calls : SlotOf(r) = s /\ TokenOf(r)'
    BY <1>1
  <1> QED BY <1>0, <1>2 DEF TokenInv, Clear

-----------------------------------------------------------------------------
(* The messages. *)

\* The part of a call is its own.
LEMMA PartOwner ==
  ASSUME NEW d \in Dirs, NEW r, NEW p \in PartsOf(d, r)
  PROVE  p[1] = r
  BY PartsFacts

\* The messages of two calls have no part in common.
LEMMA WholeFacts ==
  ASSUME NEW r \in Calls
  PROVE  /\ WholeOf(r).in = PartsOf("in", r)
         /\ \A p \in WholeOf(r).in : p[1] = r
         /\ \E p \in WholeOf(r).in : p[1] = r
  <1>1. WholeOf(r).in = PartsOf("in", r)
    BY DEF WholeOf
  <1>2. <<r, First("in", r).kind>> \in PartsOf("in", r)
    BY PartsFacts, DirFacts
  <1> QED BY <1>1, <1>2, PartOwner, DirFacts

\* At the end of a call its slot holds all of it, and nothing else.
LEMMA SlotWhole ==
  ASSUME TypeInv, SentInv, QueueInv, PartsInv, OwnInv, CallInv, HandlerInv,
         NEW d \in Dirs, pc[d] = "finish", Clear(S(d)), NEW e \in Dirs,
         e = "out" => RecordResponse
  PROVE  Streams[S(d)][e].parts = PartsOf(e, frame[d].id)
  <1>0. frame[d] # NoFrame
    BY DEF TypeInv, HandlerType
  <1>1. PICK r \in Calls : r = frame[d].id /\ S(d) = SlotOf(r)
    BY <1>0, AtHand
  <1>2. /\ d = Finisher /\ frame[d] = Second(d, r)
        /\ ~ InQ(d, First(d, r)) /\ ~ InQ(d, Second(d, r))
        /\ InDone(r) \/ ~ RecordResponse
    BY <1>0, <1>1, AtReset
  <1>3. ASSUME NEW p \in Streams[SlotOf(r)][e].parts PROVE p \in PartsOf(e, r)
    <2>0. SlotOf(r) \in Slots
      BY CallFacts
    <2>1. SlotOf(p[1]) = SlotOf(r) /\ <<p[1], p[2]>> \in PartsOf(e, p[1])
      BY <2>0 DEF PartsInv
    <2>2. p[1] \in Calls /\ p = <<p[1], p[2]>>
      BY <2>0, ItemFacts DEF Parts
    <2>3. Present(p[1]) /\ Present(r)
      BY <1>1, <2>0 DEF Present, At, NoParts
    <2>4. p[1] = r
      BY <1>1, <2>1, <2>2, <2>3 DEF OwnInv
    <2> QED BY <2>1, <2>2, <2>4
  <1>4. ASSUME NEW f \in CallOwn(e, r) PROVE <<r, f.kind>> \in Streams[SlotOf(r)][e].parts
    <2>0. Holds(d, Second(d, r)) /\ Clear(SlotOf(r))
      BY <1>1, <1>2 DEF Holds
    <2>1. CASE e = d
      <3>1. Have(d, r, f)
        BY <1>4, <2>0, <2>1, KeptParts DEF CallOwn
      <3> QED BY <1>2, <1>4, <2>1, <3>1 DEF Have, CallOwn
    <2>2. CASE e # d
      <3>1. e = "in" /\ d = "out" /\ RecordResponse
        BY <1>2, <2>2, DirFacts DEF Finisher
      <3>2. HaveBoth(r)
        BY <2>0, <3>1, KeptParts DEF CallOwn
      <3>3. Have("in", r, f)
        BY <1>4, <3>1, <3>2 DEF HaveBoth, CallOwn
      <3>4. ~ InQ("in", f) /\ (frame["in"].id = r => pc["in"] = "check")
        BY <1>2, <1>4, <3>1 DEF InDone, CallOwn
      <3>5. f.id = r
        BY OwnFacts
      <3> QED BY <3>1, <3>3, <3>4, <3>5 DEF Have
    <2> QED BY <2>1, <2>2
  <1>5. PartsOf(e, r) = {<<r, First(e, r).kind>>, <<r, Second(e, r).kind>>}
    BY PartsFacts
  <1>6. First(e, r) \in CallOwn(e, r) /\ Second(e, r) \in CallOwn(e, r)
    BY DEF CallOwn
  <1>7. \A p \in PartsOf(e, r) : p \in Streams[SlotOf(r)][e].parts
    BY <1>4, <1>5, <1>6
  <1>8. Streams[SlotOf(r)][e].parts = PartsOf(e, r)
    BY <1>3, <1>7
  <1> QED BY <1>1, <1>8

\* What toMsg returns is of the calls of the slot, and of one that is not silent.
LEMMA FinishMsg ==
  ASSUME TypeInv, SentInv, QueueInv, PartsInv, OwnInv, CallInv, HandlerInv, [Next]_vars,
         NEW d \in Dirs, Finish(d), pc'[d] = "send"
  PROVE  /\ MsgOf(msg'[d], S(d))
         /\ \E p \in msg'[d].in : p[1] \in Calls \ Silent
         /\ Clear(S(d)) => msg'[d] = WholeOf(frame[d].id)
  <1>1. pc[d] = "finish" /\ S(d) \in Slots
    <2>1. pc[d] = "finish"
      BY DEF Finish
    <2> QED BY <2>1, SlotFacts DEF TypeInv
  <1>2. HasMsg(S(d))
    BY <1>1 DEF Finish, Goto, TypeInv, HandlerType, TypeOK
  <1>3. msg'[d] = [in |-> Streams[S(d)]["in"].parts,
                   out |-> IF RecordResponse THEN Streams[S(d)]["out"].parts ELSE {}]
    BY <1>2 DEF Finish, TypeInv, HandlerType, TypeOK
  <1>4. msg'[d].in = Streams[S(d)]["in"].parts
    BY <1>3
  <1>5. PICK p \in Streams[S(d)]["in"].parts : p[2] = "headers" /\ p[1] \notin Silent
    BY <1>2 DEF HasMsg
  <1>6. p[1] \in Calls
    BY <1>1, <1>5, ItemFacts, DirFacts DEF Parts
  <1>7. \A q \in Streams[S(d)]["in"].parts : SlotOf(q[1]) = S(d)
    BY <1>1, DirFacts DEF PartsInv
  <1>8. MsgOf(msg'[d], S(d))
    BY <1>4, <1>5, <1>7 DEF MsgOf
  <1>9. ASSUME Clear(S(d)) PROVE msg'[d] = WholeOf(frame[d].id)
    <2>1. /\ Streams[S(d)]["in"].parts = PartsOf("in", frame[d].id)
          /\ RecordResponse => Streams[S(d)]["out"].parts = PartsOf("out", frame[d].id)
      BY <1>1, <1>9, SlotWhole, DirFacts
    <2> QED BY <1>3, <2>1 DEF WholeOf
  <1> QED BY <1>4, <1>5, <1>6, <1>8, <1>9

\* The message of a call in the next state is the same.
LEMMA WholeNext ==
  ASSUME TypeInv, [Next]_vars
  PROVE  \A r : WholeOf(r)' = WholeOf(r)
  BY NetFacts DEF WholeOf

\* Every step keeps MsgInv.
LEMMA MsgStep ==
  ASSUME TypeInv, SentInv, QueueInv, PartsInv, OwnInv, CallInv, HandlerInv, MsgInv,
         [Next]_vars
  PROVE  MsgInv'
  <1>1. ASSUME NEW d \in Dirs, pc'[d] = "send"
        PROVE  /\ MsgOf(msg'[d], S(d)')
               /\ \E p \in msg'[d].in : p[1] \in Calls \ Silent
               /\ Clear(S(d))' => msg'[d] = WholeOf(frame'[d].id)
    <2>0. frame'[d] = frame[d] => S(d)' = S(d)
      BY DEF S
    <2>1. CASE MovesOn(d)
      <3>1. pc[d] = "finish" /\ frame' = frame
        BY <1>1, <2>1, MoveFacts
      <3>2. Finish(d)
        BY <2>1, <3>1 DEF MovesOn, Signal, Put, Check, Wait, Send
      <3>3. Clear(S(d))' => Clear(S(d))
        <4>1. PICK s : s = S(d)
          OBVIOUS
        <4>2. Clear(S(d))' <=> Clear(s)'
          BY <2>0, <3>1, <4>1 DEF Clear
        <4> QED BY <4>1, <4>2, ClearBefore
      <3> QED BY <1>1, <2>0, <3>1, <3>2, <3>3, FinishMsg
    <2>2. CASE ~ MovesOn(d)
      <3>1. msg'[d] = msg[d]
        BY <2>2, ChStep
      <3>2. frame'[d] = frame[d] /\ pc[d] = "send"
        <4>1. Store(d) => pc'[d] # "send"
          BY StoreStep
        <4> QED BY <1>1, <2>2, <4>1, FStep
      <3>3. Clear(S(d))' => Clear(S(d))
        <4>1. PICK s : s = S(d)
          OBVIOUS
        <4>2. Clear(S(d))' <=> Clear(s)'
          BY <2>0, <3>2, <4>1 DEF Clear
        <4> QED BY <4>1, <4>2, ClearBefore
      <3> QED BY <2>0, <3>1, <3>2, <3>3 DEF MsgInv
    <2> QED BY <2>1, <2>2
  <1>2. \A d \in Dirs : pc'[d] = "send" =>
           /\ MsgOf(msg'[d], S(d)')
           /\ \E p \in msg'[d].in : p[1] \in Calls \ Silent
           /\ Clear(S(d))' => msg'[d] = WholeOf(frame[d].id)'
    <2>1. \A d \in Dirs : WholeOf(frame'[d].id) = WholeOf(frame[d].id)'
      BY NetFacts DEF WholeOf
    <2> QED BY <1>1, <2>1
  <1> QED BY <1>2, Zenon DEF MsgInv, MsgOf, Clear, S

\* A call that was dealt with remains so.
LEMMA DealtStep ==
  ASSUME TypeInv, QueueInv, [Next]_vars, NEW r \in Calls, DealtWith(r)
  PROVE  DealtWith(r)'
  <1>1. PICK c \in Dirs : c = Finisher
    BY DirFacts
  <1>2. PICK f : f = Second(c, r)
    OBVIOUS
  <1>3. /\ f.id = r /\ f # NoFrame /\ f # GoAway /\ f # RST(r)
    BY <1>2, OwnFacts DEF CallOwn
  <1>4. sent[c][r] = 2 /\ ~ InQ(c, f) /\ (frame[c] = f => pc[c] = "reset")
    BY <1>1, <1>2 DEF DealtWith
  <1>5. ~ (c = "in" /\ Request(r)) /\ ~ (c = "out" /\ Respond(r))
    BY <1>4, RequestFacts, RespondFacts
  <1>6. sent'[c][r] = 2
    BY <1>4, <1>5, NetFacts, DirFacts
  <1>7. ~ InQ(c, f)'
    BY <1>3, <1>4, <1>5, QStep DEF Sends
  <1>8. frame'[c] = f => pc'[c] = "reset"
    <2>1. ~ (Take(c) /\ f = Head(queue[c]))
      BY <1>4, TakeFacts
    <2>2. pc[c] = "reset" => ~ Store(c) /\ ~ MovesOn(c)
      BY StoreStep, MoveFacts
    <2> QED BY <1>3, <1>4, <2>1, <2>2, FStep
  <1>9. Finisher' = c
    BY <1>1, NetFacts DEF Finisher
  <1>10. DealtWith(r)' <=> sent'[c][r] = 2 /\ ~ InQ(c, f)' /\ (frame'[c] = f => pc'[c] = "reset")
    BY <1>2, <1>9 DEF DealtWith, InQ, Second
  <1> QED BY <1>6, <1>7, <1>8, <1>10

\* The call at hand is dealt with when its message is sent, and not before.
LEMMA SendFacts ==
  ASSUME TypeInv, SentInv, QueueInv, HandlerInv, MsgInv, NEW d \in Dirs, Send(d), Clear(S(d))
  PROVE  \E r \in Calls : /\ msg[d] = WholeOf(r) /\ SlotOf(r) = S(d)
                          /\ sent[Finisher][r] = 2
                          /\ ~ DealtWith(r) /\ DealtWith(r)'
  <1>1. pc[d] = "send" /\ frame[d] # NoFrame
    BY DEF Send, TypeInv, HandlerType
  <1>2. PICK r \in Calls : r = frame[d].id /\ S(d) = SlotOf(r)
    BY <1>1, AtHand
  <1>3. d = Finisher /\ frame[d] = Second(d, r) /\ sent[Finisher][r] = 2
        /\ ~ InQ(d, Second(d, r))
    BY <1>1, <1>2, AtReset
  <1>4. msg[d] = WholeOf(r)
    BY <1>1, <1>2 DEF MsgInv
  <1>5. ~ DealtWith(r)
    BY <1>1, <1>3 DEF DealtWith
  <1>6. MovesOn(d)
    BY DEF MovesOn
  <1>7. /\ UNCHANGED <<RecordResponse, queue, sent>> /\ pc'[d] = "reset"
    BY <1>1, <1>6, MoveFacts
  <1>8. DealtWith(r)'
    <2>1. Finisher' = d
      BY <1>3, <1>7 DEF Finisher
    <2> QED BY <1>3, <1>7, <2>1 DEF DealtWith, InQ
  <1> QED BY <1>2, <1>3, <1>4, <1>5, <1>8

\* Every step keeps EmittedInv.
LEMMA EmittedInvStep ==
  ASSUME TypeInv, SentInv, QueueInv, HandlerInv, MsgInv, EmittedInv, [Next]_vars
  PROVE  EmittedInv'
  <1>0. emitted \in Seq(Message) /\ DOMAIN emitted = 1 .. Len(emitted)
    BY DEF TypeInv, HandlerType
  <1>1. ASSUME NEW i \in DOMAIN emitted
        PROVE  \E s \in Slots :
                  /\ MsgOf(emitted[i], s)
                  /\ Clear(s)' => \E r \in Calls : emitted[i] = WholeOf(r)' /\ DealtWith(r)'
    <2>1. PICK s \in Slots :
             /\ MsgOf(emitted[i], s)
             /\ Clear(s) => \E r \in Calls : emitted[i] = WholeOf(r) /\ DealtWith(r)
      BY DEF EmittedInv
    <2>2. ASSUME Clear(s)'
          PROVE  \E r \in Calls : emitted[i] = WholeOf(r)' /\ DealtWith(r)'
      <3>1. PICK r \in Calls : emitted[i] = WholeOf(r) /\ DealtWith(r)
        BY <2>1, <2>2, ClearBefore
      <3> QED BY <3>1, WholeNext, DealtStep
    <2> QED BY <2>1, <2>2
  <1>2. ASSUME NEW d \in Dirs, Send(d)
        PROVE  \E s \in Slots :
                  /\ MsgOf(msg[d], s)
                  /\ Clear(s)' => \E r \in Calls : msg[d] = WholeOf(r)' /\ DealtWith(r)'
    <2>1. pc[d] = "send"
      BY <1>2 DEF Send
    <2>2. PICK s \in Slots : s = S(d)
      BY <2>1, SlotFacts DEF TypeInv
    <2>3. MsgOf(msg[d], s)
      BY <2>1, <2>2 DEF MsgInv
    <2>4. ASSUME Clear(s)'
          PROVE  \E r \in Calls : msg[d] = WholeOf(r)' /\ DealtWith(r)'
      BY <1>2, <2>2, <2>4, ClearBefore, SendFacts, WholeNext
    <2> QED BY <2>3, <2>4
  <1>3. ASSUME NEW i \in DOMAIN emitted'
        PROVE  \E s \in Slots :
                  /\ MsgOf(emitted'[i], s)
                  /\ Clear(s)' => \E r \in Calls : emitted'[i] = WholeOf(r)' /\ DealtWith(r)'
    <2>1. CASE emitted' = emitted
      BY <1>1, <2>1
    <2>2. ASSUME NEW d \in Dirs, Send(d), emitted' = Append(emitted, msg[d])
          PROVE  \E s \in Slots :
                  /\ MsgOf(emitted'[i], s)
                  /\ Clear(s)' => \E r \in Calls : emitted'[i] = WholeOf(r)' /\ DealtWith(r)'
      <3>1. \/ i \in DOMAIN emitted /\ emitted'[i] = emitted[i]
            \/ emitted'[i] = msg[d]
        BY <1>0, <2>2, AtEnd
      <3> QED BY <1>1, <1>2, <2>2, <3>1
    <2> QED BY <2>1, <2>2, EmittedStep
  <1> QED BY <1>3, Zenon DEF EmittedInv, MsgOf, Clear

\* Every step keeps AtMostOnce.
LEMMA OnceStep ==
  ASSUME TypeInv, SentInv, QueueInv, HandlerInv, MsgInv, EmittedInv, AtMostOnce, [Next]_vars
  PROVE  AtMostOnce'
  <1>0. emitted \in Seq(Message) /\ DOMAIN emitted = 1 .. Len(emitted) /\ Len(emitted) \in Nat
    BY DEF TypeInv, HandlerType
  <1>1. raced \subseteq raced'
    BY RacedGrows
  <1>2. CASE emitted' = emitted
    BY <1>1, <1>2 DEF AtMostOnce
  <1>3. ASSUME NEW d \in Dirs, Send(d), emitted' = Append(emitted, msg[d])
        PROVE  AtMostOnce'
    <2>1. raced' = raced /\ pc[d] = "send"
      BY <1>3 DEF Send
    <2>2. ASSUME NEW j \in DOMAIN emitted, NEW p \in msg[d].in, p \in emitted[j].in
          PROVE  SlotOf(p[1]) \in raced'
      <3>1. SlotOf(p[1]) = S(d) /\ S(d) \in Slots
        BY <2>1, SlotFacts DEF MsgInv, MsgOf, TypeInv
      <3>2. ASSUME S(d) \notin raced PROVE FALSE
        <4>1. Clear(S(d))
          BY <3>1, <3>2 DEF Clear
        <4>2. PICK r \in Calls : msg[d] = WholeOf(r) /\ ~ DealtWith(r)
          BY <1>3, <4>1, SendFacts
        <4>3. PICK s \in Slots :
                 /\ MsgOf(emitted[j], s)
                 /\ Clear(s) => \E q \in Calls : emitted[j] = WholeOf(q) /\ DealtWith(q)
          BY DEF EmittedInv
        <4>4. s = S(d)
          BY <2>2, <3>1, <4>3 DEF MsgOf
        <4>5. PICK q \in Calls : emitted[j] = WholeOf(q) /\ DealtWith(q)
          BY <4>1, <4>3, <4>4
        <4>6. p[1] = r /\ p[1] = q
          BY <2>2, <4>2, <4>5, WholeFacts
        <4> QED BY <4>2, <4>5, <4>6
      <3> QED BY <2>1, <3>1, <3>2
    <2>3. \A i \in DOMAIN emitted' : \/ i \in DOMAIN emitted /\ emitted'[i] = emitted[i]
                                     \/ i = Len(emitted) + 1 /\ emitted'[i] = msg[d]
      BY <1>0, <1>3, AtEnd
    <2>4. \A i, j \in DOMAIN emitted : i # j =>
             \A p \in emitted[i].in \cap emitted[j].in : SlotOf(p[1]) \in raced'
      BY <1>1 DEF AtMostOnce
    <2> SUFFICES ASSUME NEW i \in DOMAIN emitted', NEW j \in DOMAIN emitted', i # j,
                        NEW p \in emitted'[i].in \cap emitted'[j].in
                 PROVE  SlotOf(p[1]) \in raced'
      BY DEF AtMostOnce
    <2>5. CASE i \in DOMAIN emitted /\ j \in DOMAIN emitted
               /\ emitted'[i] = emitted[i] /\ emitted'[j] = emitted[j]
      BY <2>4, <2>5
    <2> QED BY <2>2, <2>3, <2>5
  <1> QED BY <1>2, <1>3, EmittedStep

-----------------------------------------------------------------------------
(* What is left in the slots, and which of them are raced. *)

\* Every step keeps CleanInv.
LEMMA CleanStep ==
  ASSUME TypeInv, SentInv, QueueInv, PartsInv, CallInv, HandlerInv, CleanInv, [Next]_vars
  PROVE  CleanInv'
  <1>1. ASSUME NEW s \in Slots, Clear(s)', Streams'[s] # EmptyStream \/ <<s, done'[s]>> \in tokens'
        PROVE  \/ \E d \in Dirs : Streams'[s][d].parts # {}
               \/ \E d \in Dirs : pc'[d] = "store" /\ SlotOf(frame'[d].id) = s
    <2>0. Clear(s)
      BY <1>1, ClearBefore
    <2>1. ~ Emptied(s)
      BY <1>1 DEF Emptied
    <2>2. ASSUME StoresAt(s) PROVE \E d \in Dirs : Streams'[s][d].parts # {}
      <3>1. PICK d \in Dirs : Streams'[s][d].parts = Stored(Streams[s][d].parts, frame[d])
        BY <2>2 DEF StoresAt
      <3>2. <<frame[d].id, frame[d].kind>> \in Stored(Streams[s][d].parts, frame[d])
        BY StoredFacts
      <3> QED BY <3>1, <3>2
    <2>3. CASE TakesAt(s)
      <3>1. PICK d \in Dirs : /\ Take(d) /\ Head(queue[d]) \in CallFrames(d)
                              /\ SlotOf(Head(queue[d]).id) = s
        BY <2>3 DEF TakesAt
      <3>2. PICK f : f = Head(queue[d])
        OBVIOUS
      <3>3. frame'[d] = f /\ pc'[d] = "store"
        BY <3>1, <3>2, TakeFacts
      <3> QED BY <3>1, <3>2, <3>3
    <2>4. CASE KeepsSlot(s) /\ done'[s] = done[s]
      <3>1. Streams'[s] = Streams[s]
        BY <2>4 DEF KeepsSlot
      <3>2. CASE Put /\ ch["in"] = <<s, done[s]>>
        <4>1. PICK r \in Calls : SlotOf(r) = s /\ TokenOf(r)'
          BY <1>1, <3>2, PutToken
        <4>2. PICK t \in Slots, d \in Dirs : \E p \in Streams'[t][d].parts : p[1] = r
          BY <4>1 DEF TokenOf, NoParts
        <4>3. t = s
          BY <4>1, <4>2, PartsInvStep DEF PartsInv
        <4> QED BY <4>2, <4>3
      <3>3. CASE ~ (Put /\ ch["in"] = <<s, done[s]>>)
        <4>1. Soiled(s)
          BY <1>1, <2>4, <3>1, <3>3, TokenStep DEF Soiled
        <4>2. CASE \E d \in Dirs : Streams[s][d].parts # {}
          BY <3>1, <4>2
        <4>3. ASSUME NEW d \in Dirs, pc[d] = "store", S(d) = s
              PROVE  \/ \E e \in Dirs : Streams'[s][e].parts # {}
                     \/ pc'[d] = "store" /\ SlotOf(frame'[d].id) = s
          <5>1. CASE Store(d)
            <6>1. Streams'[s][d].parts = Stored(Streams[s][d].parts, frame[d])
              BY <4>3, <5>1, StoreFacts
            <6>2. <<frame[d].id, frame[d].kind>> \in Stored(Streams[s][d].parts, frame[d])
              BY StoredFacts
            <6> QED BY <6>1, <6>2
          <5>2. CASE ~ Store(d)
            <6>1. ~ MovesOn(d) /\ ~ Take(d) /\ ~ GoesBack(d) /\ ~ FinishReset(d)
              BY <4>3, MoveFacts, HeadFacts, BackFacts
            <6>2. frame'[d] = frame[d] /\ pc'[d] = pc[d]
              BY <5>2, <6>1, FStep
            <6> QED BY <4>3, <6>2 DEF S
          <5> QED BY <5>1, <5>2
        <4> QED BY <2>0, <4>1, <4>2, <4>3 DEF CleanInv
      <3> QED BY <3>2, <3>3
    <2> QED BY <2>1, <2>2, <2>3, <2>4, SlotStep
  <1> QED BY <1>1, Zenon DEF CleanInv, Soiled, Clear, S

\* Only when responses are recorded can the goroutines be at odds.
LEMMA RacedStep ==
  ASSUME TypeInv, QueueInv, RacedInv, [Next]_vars
  PROVE  RacedInv'
  <1>0. RecordResponse' = RecordResponse
    BY NetFacts
  <1>1. ASSUME ~ RecordResponse PROVE raced' = raced
    <2>0. /\ \A g : ~ InQ("out", g)
          /\ frame["out"] = NoFrame /\ pc["out"] = "idle" /\ pc["in"] # "wait"
      <3>1. queue["out"] = <<>>
        BY <1>1 DEF TypeInv, QueuesType
      <3> QED BY <1>1, <3>1, DirFacts DEF InQ, TypeInv, HandlerType
    <2>1. ASSUME NEW d \in Dirs, Take(d) PROVE raced' = raced
      <3>1. PICK f : f = Head(queue[d])
        OBVIOUS
      <3>2. d = "in"
        BY <1>1, <2>1, HeadFacts
      <3>3. ~ Overtakes(d, f)
        <4>1. ASSUME NEW q \in Calls PROVE Handled("out", q)
          BY <2>0, HandledFacts, NoCall
        <4> QED BY <3>2, <4>1 DEF Overtakes, Other
      <3>4. ~ CutsIn(d, f)
        <4>1. f.kind = "rst" => f.id \in Calls
          BY <2>1, <3>1, HeadFacts, FrameCases, FrameFacts, DirFacts
        <4> QED BY <2>0, <3>2, <4>1, NoCall, DirFacts DEF CutsIn
      <3> QED BY <2>1, <3>1, <3>3, <3>4, TakeMark
    <2>2. ASSUME NEW d \in Dirs, Check(d) PROVE raced' = raced
      BY <1>1, <2>2 DEF Check, Mark
    <2>3. ASSUME NEW d \in Dirs PROVE ~ Wait(d)
      BY <2>0, DirFacts DEF Wait
    <2>4. ASSUME NEW d \in Dirs, Store(d) \/ Finish(d) \/ Send(d) \/ FinishReset(d)
          PROVE  raced' = raced
      BY <2>4 DEF Store, Finish, Send, FinishReset, hist
    <2>5. CASE Signal \/ Put \/ Consume
      BY <2>5 DEF Signal, Put, Consume, hist
    <2>6. CASE \E r \in Calls : Request(r) \/ Respond(r) \/ Cancel(r)
      BY <2>6 DEF Request, Respond, Cancel, hist
    <2>7. CASE \E d \in Dirs : SayGoAway(d)
      BY <2>7 DEF SayGoAway, hist
    <2>8. CASE UNCHANGED vars
      BY <2>8 DEF vars, hist
    <2> QED BY <2>1, <2>2, <2>3, <2>4, <2>5, <2>6, <2>7, <2>8, Cases DEF MovesOn, GoesBack
  <1> QED BY <1>0, <1>1 DEF RacedInv
-----------------------------------------------------------------------------
(* The invariant. *)

\* The initial state.
LEMMA InitFacts ==
  ASSUME Init
  PROVE  /\ TypeInv
         /\ \A d \in Dirs : \A f : ~ InQ(d, f)
         /\ \A d \in Dirs : DOMAIN queue[d] = {} /\ frame[d] = NoFrame /\ pc[d] = "idle"
         /\ \A d \in Dirs, r \in Calls : sent[d][r] = 0
         /\ \A s \in Slots : Streams[s] = EmptyStream
         /\ cancelled = {} /\ tokens = {} /\ DOMAIN emitted = {} /\ raced = {}
  <1>1. /\ \A d \in Dirs : queue[d] = <<>> /\ frame[d] = NoFrame /\ pc[d] = "idle"
        /\ \A d \in Dirs, r \in Calls : sent[d][r] = 0
        /\ \A s \in Slots : Streams[s] = EmptyStream
        /\ cancelled = {} /\ tokens = {} /\ emitted = <<>> /\ raced = {}
    BY DEF Init
  <1>2. DOMAIN emitted = {} /\ \A d \in Dirs : DOMAIN queue[d] = {}
    BY <1>1
  <1>3. \A d \in Dirs : \A f : ~ InQ(d, f)
    BY <1>2 DEF InQ
  <1>4. HandlerType
    <2>1. TypeOK
      <3>1. Streams \in [Slots -> [Dirs -> Item]] /\ done \in [Slots -> 0 .. 2]
        BY EmptyFacts DEF Init
      <3>2. NoMsg \in Message
        BY DEF NoMsg, Message
      <3>3. msg \in [Dirs -> Message]
        BY <3>2 DEF Init
      <3>4. /\ pc \in [Dirs -> {"idle", "store", "signal", "put", "check", "wait",
                                "finish", "send", "reset"}]
            /\ pc["out"] = "idle"
        BY DirFacts DEF Init
      <3>5. Len(OutputChan) <= OutputCap
        BY ConnAssumption DEF Init
      <3> QED BY <1>1, <3>1, <3>3, <3>4, <3>5 DEF TypeOK, Init
    <2>2. ch \in [Dirs -> Channels \cup {NoChan}]
      BY DEF Init
    <2>3. OutputChan \in Seq(Message) /\ emitted \in Seq(Message)
      BY DEF Init
    <2> QED BY <1>1, <2>1, <2>2, <2>3, DirFacts DEF HandlerType, Init
  <1>5. QueuesType
    <2>1. ASSUME NEW d \in Dirs PROVE queue[d] \in Seq(InFrames(d) \cup {GoAway})
      <3>1. ASSUME NEW T PROVE <<>> \in Seq(T)
        OBVIOUS
      <3> QED BY <1>1, <3>1
    <2>2. queue \in [Dirs -> Seq(InFrames("in") \cup InFrames("out") \cup {GoAway})]
      BY DEF Init
    <2> QED BY <1>1, <2>1, <2>2, DirFacts DEF QueuesType
  <1>6. NetType
    BY DEF NetType, Init
  <1> QED BY <1>1, <1>2, <1>3, <1>4, <1>5, <1>6 DEF TypeInv

\* The initial state satisfies the invariant.
LEMMA InitInv ==
  ASSUME Init
  PROVE  IndInv
  <1>0. /\ TypeInv
        /\ \A d \in Dirs : \A f : ~ InQ(d, f)
        /\ \A d \in Dirs : DOMAIN queue[d] = {} /\ frame[d] = NoFrame /\ pc[d] = "idle"
        /\ \A d \in Dirs, r \in Calls : sent[d][r] = 0
        /\ \A s \in Slots : Streams[s] = EmptyStream
        /\ cancelled = {} /\ tokens = {} /\ DOMAIN emitted = {} /\ raced = {}
    BY InitFacts
  <1>1. SentInv
    BY <1>0, DirFacts DEF SentInv
  <1>2. QueueInv
    BY <1>0 DEF QueueInv, Behind, Ordered, InTurn
  <1>3. \A s \in Slots, d \in Dirs : Streams[s][d].parts = {} /\ ~ Streams[s][d].end
    BY <1>0, EmptyFacts
  <1>4. \A r \in Calls : ~ Present(r)
    BY <1>0, <1>3, NoCall DEF Present, At, NoParts
  <1>5. SlotInv /\ PartsInv /\ OwnInv
    BY <1>3, <1>4 DEF SlotInv, PartsInv, OwnInv
  <1>6. CallInv
    <2>1. ASSUME NEW d \in Dirs, NEW r \in Calls, NEW f \in CallOwn(d, r)
          PROVE  ~ InQ(d, f) /\ ~ Holds(d, f)
      BY <1>0, OwnFacts DEF Holds
    <2>2. \A d \in Dirs, r \in Calls : First(d, r) \in CallOwn(d, r) /\ Second(d, r) \in CallOwn(d, r)
      BY DEF CallOwn
    <2>3. \A r \in Calls : ~ Gone(r)
      BY <1>0 DEF Gone
    <2>4. \A r \in Calls : KeptAt(r)
      BY <1>0, <2>1, <2>2, DirFacts DEF KeptAt
    <2>5. \A r \in Calls : OverAt(r)
      BY <1>0, <2>3, DirFacts DEF OverAt
    <2> QED BY <2>4, <2>5 DEF CallInv
  <1>7. HandlerInv /\ EndInv /\ TokenInv
    BY <1>0, <1>3, DirFacts DEF HandlerInv, EndInv, TokenInv
  <1>8. MsgInv /\ EmittedInv /\ AtMostOnce
    BY <1>0 DEF MsgInv, EmittedInv, AtMostOnce
  <1>9. CleanInv /\ RacedInv
    BY <1>0 DEF CleanInv, Soiled, RacedInv
  <1> QED BY <1>0, <1>1, <1>2, <1>5, <1>6, <1>7, <1>8, <1>9 DEF IndInv

\* Every step keeps the invariant.
LEMMA NextInv ==
  ASSUME IndInv, [Next]_vars
  PROVE  IndInv'
  <1>1. /\ TypeInv /\ SentInv /\ QueueInv /\ SlotInv /\ PartsInv /\ OwnInv
        /\ CallInv /\ HandlerInv /\ EndInv /\ TokenInv
        /\ MsgInv /\ EmittedInv /\ AtMostOnce /\ CleanInv /\ RacedInv
    BY DEF IndInv
  <1>2. TypeInv' /\ SentInv' /\ QueueInv' /\ SlotInv' /\ PartsInv' /\ OwnInv'
    BY <1>1, TypeStep, SentStep, QueueStep, SlotInvStep, PartsInvStep, OwnStep
  <1>3. CallInv' /\ HandlerInv' /\ EndInv' /\ TokenInv'
    BY <1>1, CallStep, HandlerStep, EndStep, TokenInvStep
  <1>4. MsgInv' /\ EmittedInv' /\ AtMostOnce' /\ CleanInv' /\ RacedInv'
    BY <1>1, MsgStep, EmittedInvStep, OnceStep, CleanStep, RacedStep
  <1> QED BY <1>2, <1>3, <1>4 DEF IndInv

\* Every variable keeps its type, whatever the goroutines do to each other.
THEOREM TypeCorrect == Spec => []TypeOK
  <1>1. Init => TypeInv
    BY InitFacts
  <1>2. TypeInv /\ [Next]_vars => TypeInv'
    BY TypeStep
  <1>3. TypeInv => TypeOK
    BY DEF TypeInv, HandlerType
  <1> QED BY <1>1, <1>2, <1>3, PTL DEF Spec

\* The inductive invariant, for every number of calls and of slots and every
\* behaviour of the peers and of the timer: it says of each slot that was not
\* raced what the goroutines have in it.
THEOREM Inductive == Spec => []IndInv
  <1>1. Init => IndInv
    BY InitInv
  <1>2. IndInv /\ [Next]_vars => IndInv'
    BY NextInv
  <1> QED BY <1>1, <1>2, PTL DEF Spec

\* Every message handed on is one call, whole, or of a raced slot.
THEOREM WholeMessages == Spec => []EmittedWhole
  <1>1. ASSUME IndInv PROVE EmittedWhole
    <2>1. ASSUME NEW i \in DOMAIN emitted
          PROVE  (\E r \in Calls : emitted[i] = WholeOf(r)) \/ OfRacedSlot(emitted[i])
      <3>1. PICK s \in Slots : /\ MsgOf(emitted[i], s)
                               /\ Clear(s) => \E r \in Calls : emitted[i] = WholeOf(r)
        BY <1>1 DEF IndInv, EmittedInv
      <3>2. s \in raced => OfRacedSlot(emitted[i])
        BY <3>1 DEF MsgOf, OfRacedSlot
      <3> QED BY <3>1, <3>2 DEF Clear
    <2> QED BY <2>1 DEF EmittedWhole
  <1> QED BY <1>1, Inductive, PTL

\* When only requests are recorded, the default, every message handed on is one
\* call, whole, and no call is handed on twice: nothing is excused.
THEOREM RequestsAlone ==
  Spec => [](~ RecordResponse => EveryMessageWhole /\ raced = {})
  <1>1. ASSUME IndInv, ~ RecordResponse PROVE EveryMessageWhole /\ raced = {}
    <2>1. raced = {}
      BY <1>1 DEF IndInv, RacedInv
    <2>2. ASSUME NEW i \in DOMAIN emitted PROVE \E r \in Calls : emitted[i] = WholeOf(r)
      BY <1>1, <2>1 DEF IndInv, EmittedInv, Clear
    <2> QED BY <2>1, <2>2 DEF EveryMessageWhole
  <1>2. IndInv => (~ RecordResponse => EveryMessageWhole /\ raced = {})
    BY <1>1
  <1> QED BY <1>2, Inductive, PTL

\* No call is handed on twice, unless its slot was raced.
THEOREM NoMessageTwice == Spec => []AtMostOnce
  <1>1. IndInv => AtMostOnce
    BY DEF IndInv
  <1> QED BY <1>1, Inductive, PTL

\* When all is handled and every call is over, the slots that were not raced are
\* as new.
THEOREM SlotsLeftClean == Spec => []SlotsClean
  <1>1. ASSUME IndInv PROVE SlotsClean
    <2> SUFFICES ASSUME Quiet, \A r \in Calls : Over(r), NEW s \in Slots \ raced
                 PROVE  Streams[s] = EmptyStream /\ <<s, done[s]>> \notin tokens
      BY DEF SlotsClean
    <2>0. /\ TypeInv /\ SentInv /\ QueueInv /\ PartsInv /\ CallInv /\ CleanInv
          /\ Clear(s)
      BY <1>1 DEF IndInv, Clear
    <2>1. ASSUME NEW d \in Dirs
          PROVE  pc[d] = "idle" /\ frame[d] = NoFrame /\ \A f : ~ InQ(d, f)
      <3>1. pc[d] = "idle" /\ queue[d] = <<>>
        BY DEF Quiet
      <3> QED BY <2>0, <3>1 DEF InQ, TypeInv, HandlerType
    <2>2. ASSUME NEW r \in Calls, SlotOf(r) = s PROVE NoParts(r)
      <3>1. CASE sent["in"][r] = 0
        <4>1. ~ Present(r)
          BY <2>0, <3>1, PresentBegun
        <4> QED BY <4>1 DEF Present
      <3>2. CASE r \in cancelled
        <4>1. Gone(r)
          BY <2>1, <3>2, DirFacts DEF Gone
        <4> QED BY <2>0, <2>2, <4>1, KeptParts
      <3>3. CASE Ended("in", r) /\ Ended("out", r) /\ r \notin cancelled
        <4>1. PICK c \in Dirs : c = Finisher
          BY DirFacts
        <4>2. sent[c][r] = 2
          BY <3>3, EndedFacts, DirFacts
        <4>3. UsedUp(c, Second(c, r))
          <5>1. Second(c, r) # NoFrame
            BY OwnFacts DEF CallOwn
          <5> QED BY <2>1, <5>1 DEF UsedUp
        <4> QED BY <2>0, <2>2, <3>3, <4>1, <4>2, <4>3, KeptParts
      <3> QED BY <3>1, <3>2, <3>3 DEF Over
    <2>3. \A d \in Dirs : Streams[s][d].parts = {}
      <3>1. ASSUME NEW d \in Dirs, NEW p \in Streams[s][d].parts PROVE FALSE
        <4>1. p[1] \in Calls
          BY ItemFacts, <2>0 DEF Parts
        <4>2. SlotOf(p[1]) = s
          BY <2>0 DEF PartsInv
        <4> QED BY <2>2, <4>1, <4>2 DEF NoParts
      <3> QED BY <3>1
    <2>4. ~ Soiled(s)
      BY <2>0, <2>1, <2>3 DEF CleanInv
    <2> QED BY <2>4 DEF Soiled
  <1> QED BY <1>1, Inductive, PTL

-----------------------------------------------------------------------------
(* The connection is a log of calls. *)

\* The call of a message, if it is of one.
LEMMA CallOfWhole ==
  /\ \A r \in Calls : CallOf(WholeOf(r)) = r
  /\ \A m : CallOf(m) = 0 \/ \E r \in Calls : m = WholeOf(r) /\ CallOf(m) = r
  <1>1. ASSUME NEW r \in Calls PROVE CallOf(WholeOf(r)) = r
    <2>1. WholeOf(r).in = PartsOf("in", r)
      BY DEF WholeOf
    <2>2. ASSUME NEW q \in Calls, PartsOf("in", r) = PartsOf("in", q) PROVE q = r
      BY <2>2, WholeFacts
    <2>3. CallOf(WholeOf(r)) = CHOOSE q \in Calls : PartsOf("in", r) = PartsOf("in", q)
      BY <2>1 DEF CallOf
    <2> QED BY <2>2, <2>3
  <1>2. ASSUME NEW m PROVE CallOf(m) = 0 \/ \E r \in Calls : m = WholeOf(r) /\ CallOf(m) = r
    <2>1. CASE \E r \in Calls : m = WholeOf(r)
      BY <1>1, <2>1
    <2>2. CASE ~ \E r \in Calls : m = WholeOf(r)
      BY <2>2 DEF CallOf
    <2> QED BY <2>1, <2>2
  <1> QED BY <1>1, <1>2

\* Append and Tail, as functions.
LEMMA AppendTail ==
  ASSUME NEW T, NEW q \in Seq(T), NEW f
  PROVE  /\ Append(q, f) = [i \in 1 .. Len(q) + 1 |-> IF i = Len(q) + 1 THEN f ELSE q[i]]
         /\ q # <<>> => Tail(q) = [i \in 1 .. Len(q) - 1 |-> q[i + 1]]
  <1>1. ASSUME NEW U, NEW s \in Seq(U) PROVE s = [i \in 1 .. Len(s) |-> s[i]]
    OBVIOUS
  <1>2. q \in Seq(T \cup {f}) /\ Len(q) \in Nat
    OBVIOUS
  <1>3. Append(q, f) \in Seq(T \cup {f}) /\ Len(Append(q, f)) = Len(q) + 1
    BY <1>2
  <1>4. Append(q, f) = [i \in 1 .. Len(q) + 1 |-> Append(q, f)[i]]
    BY <1>1, <1>3
  <1>5. ASSUME NEW i \in 1 .. Len(q) + 1
        PROVE  Append(q, f)[i] = IF i = Len(q) + 1 THEN f ELSE q[i]
    BY <1>2, AtEnd
  <1>6. ASSUME q # <<>> PROVE Tail(q) = [i \in 1 .. Len(q) - 1 |-> q[i + 1]]
    <2>1. Tail(q) \in Seq(T) /\ Len(Tail(q)) = Len(q) - 1
      BY <1>6
    <2>2. Tail(q) = [i \in 1 .. Len(q) - 1 |-> Tail(q)[i]]
      BY <1>1, <2>1
    <2>3. \A i \in 1 .. Len(q) - 1 : Tail(q)[i] = q[i + 1]
      BY <1>6, HeadTail
    <2> QED BY <2>2, <2>3
  <1> QED BY <1>4, <1>5, <1>6

\* The calls of a queue of messages, as the queue grows and shrinks.
LEMMA CallsFacts ==
  ASSUME NEW T, NEW q \in Seq(T)
  PROVE  /\ CallsOf(<<>>) = <<>>
         /\ DOMAIN CallsOf(q) = DOMAIN q /\ Len(CallsOf(q)) = Len(q)
         /\ \A i \in DOMAIN q : CallsOf(q)[i] = CallOf(q[i])
         /\ \A m : CallsOf(Append(q, m)) = Append(CallsOf(q), CallOf(m))
         /\ q # <<>> => CallsOf(q) # <<>> /\ CallsOf(Tail(q)) = Tail(CallsOf(q))
  <1>1. DOMAIN q = 1 .. Len(q) /\ Len(q) \in Nat
    OBVIOUS
  <1>2. /\ DOMAIN CallsOf(q) = 1 .. Len(q)
        /\ \A i \in 1 .. Len(q) : CallsOf(q)[i] = CallOf(q[i])
    BY <1>1 DEF CallsOf
  <1>3. PICK U : CallsOf(q) \in Seq(U) /\ Len(CallsOf(q)) = Len(q)
    <2>1. PICK U : U = {CallOf(q[i]) : i \in 1 .. Len(q)}
      OBVIOUS
    <2>2. CallsOf(q) = [i \in 1 .. Len(q) |-> CallOf(q[i])]
      BY <1>1 DEF CallsOf
    <2>3. \A i \in 1 .. Len(q) : CallOf(q[i]) \in U
      BY <2>1
    <2>4. CallsOf(q) \in [1 .. Len(q) -> U]
      BY <2>2, <2>3
    <2>5. CallsOf(q) \in Seq(U) /\ Len(CallsOf(q)) = Len(q)
      BY <1>1, <2>4
    <2> QED BY <2>5
  <1>4. CallsOf(<<>>) = <<>>
    BY DEF CallsOf
  <1>5. ASSUME NEW m PROVE CallsOf(Append(q, m)) = Append(CallsOf(q), CallOf(m))
    <2>1. CallsOf(Append(q, m)) = [i \in 1 .. Len(q) + 1 |-> CallOf(Append(q, m)[i])]
      BY AtEnd DEF CallsOf
    <2>2. Append(CallsOf(q), CallOf(m))
            = [i \in 1 .. Len(q) + 1 |-> IF i = Len(q) + 1 THEN CallOf(m) ELSE CallsOf(q)[i]]
      BY <1>3, AppendTail
    <2>3. ASSUME NEW i \in 1 .. Len(q) + 1
          PROVE  CallOf(Append(q, m)[i])
                   = IF i = Len(q) + 1 THEN CallOf(m) ELSE CallsOf(q)[i]
      BY <1>1, <1>2, AtEnd
    <2> QED BY <2>1, <2>2, <2>3
  <1>6. ASSUME q # <<>> PROVE CallsOf(q) # <<>> /\ CallsOf(Tail(q)) = Tail(CallsOf(q))
    <2>1. CallsOf(q) # <<>>
      BY <1>3, <1>6
    <2>2. CallsOf(Tail(q)) = [i \in 1 .. Len(q) - 1 |-> CallOf(q[i + 1])]
      BY <1>6, HeadTail DEF CallsOf
    <2>3. Tail(CallsOf(q)) = [i \in 1 .. Len(q) - 1 |-> CallsOf(q)[i + 1]]
      BY <1>3, <2>1, AppendTail
    <2>4. ASSUME NEW i \in 1 .. Len(q) - 1 PROVE CallsOf(q)[i + 1] = CallOf(q[i + 1])
      BY <1>1, <1>2
    <2> QED BY <2>1, <2>2, <2>3, <2>4
  <1> QED BY <1>1, <1>2, <1>3, <1>4, <1>5, <1>6

\* The messages of the next state are of the same calls.
LEMMA CallsNext ==
  ASSUME RecordResponse' = RecordResponse
  PROVE  /\ CallsOf(emitted)' = CallsOf(emitted')
         /\ CallsOf(OutputChan)' = CallsOf(OutputChan')
  BY DEF CallsOf, CallOf, WholeOf

\* The calls of which all that is recorded was exchanged.
LEMMA ExchangedFacts ==
  /\ Exchanged = {r \in Calls \ Silent : sent[Finisher][r] = 2}
  /\ RecordResponse' = RecordResponse =>
        Exchanged' = {r \in Calls \ Silent : sent'[Finisher][r] = 2}
  <1>1. Exchanged = {r \in Calls \ Silent : sent[Finisher][r] = 2}
    BY EndedFacts, DirFacts DEF Exchanged, Finisher
  <1>2. ASSUME RecordResponse' = RecordResponse
        PROVE  Exchanged' = {r \in Calls \ Silent : sent'[Finisher][r] = 2}
    <2>1. Exchanged' = {r \in Calls \ Silent : sent'[Finisher][r] = Len(Script(Finisher, r))}
      BY <1>2 DEF Exchanged, Finisher, Ended
    <2> QED BY <2>1, ScriptFacts, DirFacts
  <1> QED BY <1>1, <1>2

\* The calls of which nothing is promised.
Spoilt == {r \in Calls \ Silent : SlotOf(r) \in raced}

LEMMA SpoiltSame ==
  ASSUME raced' = raced
  PROVE  Spoilt' = Spoilt
  BY DEF Spoilt

\* A step that hands nothing on and reads nothing at most spoils a call.
LEMMA SpoilRefines ==
  ASSUME UNCHANGED <<RecordResponse, emitted, OutputChan, sent>>, raced \subseteq raced'
  PROVE  Log!Next
  <1>1. /\ CallsOf(emitted)' = CallsOf(emitted) /\ CallsOf(OutputChan)' = CallsOf(OutputChan)
        /\ Exchanged' = Exchanged
    BY CallsNext, ExchangedFacts
  <1>2. Spoilt' \in SUBSET (Calls \ Silent) /\ Spoilt' = Spoilt \cup Spoilt'
    BY DEF Spoilt
  <1> QED BY <1>1, <1>2 DEF Log!Next, Log!Spoil, Spoilt

\* The peers send a frame: the step ends a call or is none of the log's.
LEMMA PeersRefine ==
  ASSUME TypeInv, NEW r \in Calls, Request(r) \/ Respond(r)
  PROVE  [Log!Next]_(Log!lvars)
  <1>1. /\ RecordResponse' = RecordResponse
        /\ UNCHANGED <<emitted, OutputChan, raced>>
        /\ \A q \in Calls \ {r} : sent'[Finisher][q] = sent[Finisher][q]
        /\ sent'[Finisher][r] = sent[Finisher][r] \/ sent[Finisher][r] # 2
    BY RequestFacts, RespondFacts, DirFacts DEF code, hist
  <1>2. UNCHANGED <<CallsOf(emitted), CallsOf(OutputChan), Spoilt>>
    BY <1>1, CallsNext, SpoiltSame
  <1>3. /\ Exchanged = {q \in Calls \ Silent : sent[Finisher][q] = 2}
        /\ Exchanged' = {q \in Calls \ Silent : sent'[Finisher][q] = 2}
    BY <1>1, ExchangedFacts
  <1>4. \/ Exchanged' = Exchanged
        \/ r \in Calls \ Silent /\ r \notin Exchanged /\ Exchanged' = Exchanged \cup {r}
    BY <1>1, <1>3
  <1> QED BY <1>2, <1>4 DEF Log!Next, Log!End, Log!lvars, Spoilt

\* FinishStream hands a call on, or something of a raced slot.
LEMMA SendRefines ==
  ASSUME IndInv, NEW d \in Dirs, Send(d)
  PROVE  Log!Next
  <1>0. /\ TypeInv /\ SentInv /\ QueueInv /\ HandlerInv /\ MsgInv /\ EmittedInv
        /\ pc[d] = "send" /\ S(d) \in Slots
    <2>1. pc[d] = "send"
      BY DEF Send
    <2> QED BY <2>1, SlotFacts DEF IndInv, TypeInv
  <1>1. /\ Len(OutputChan) < OutputCap /\ OutputChan' = Append(OutputChan, msg[d])
        /\ emitted' = Append(emitted, msg[d])
        /\ sent' = sent /\ RecordResponse' = RecordResponse /\ raced' = raced
    BY DEF Send, net
  <1>2. emitted \in Seq(Message) /\ OutputChan \in Seq(Message)
    BY <1>0 DEF TypeInv, HandlerType
  <1>3. Exchanged' = Exchanged /\ Spoilt' = Spoilt
    BY <1>1, ExchangedFacts, SpoiltSame
  <1>4. PICK x : x = CallOf(msg[d])
    OBVIOUS
  <1>5. /\ Len(CallsOf(OutputChan)) < OutputCap
        /\ CallsOf(emitted)' = Append(CallsOf(emitted), x)
        /\ CallsOf(OutputChan)' = Append(CallsOf(OutputChan), x)
    BY <1>1, <1>2, <1>4, CallsFacts, CallsNext
  <1>6. CASE Clear(S(d))
    <2>1. PICK r \in Calls : /\ msg[d] = WholeOf(r) /\ SlotOf(r) = S(d)
                             /\ sent[Finisher][r] = 2 /\ ~ DealtWith(r)
      BY <1>0, <1>6, SendFacts
    <2>2. x = r
      BY <1>4, <2>1, CallOfWhole
    <2>3. r \notin Silent
      BY <1>0, <2>1, WholeFacts DEF MsgInv
    <2>4. r \in Exchanged
      BY <2>1, <2>3, ExchangedFacts
    <2>5. ASSUME NEW i \in DOMAIN CallsOf(emitted) PROVE CallsOf(emitted)[i] # r
      <3>1. i \in DOMAIN emitted /\ CallsOf(emitted)[i] = CallOf(emitted[i])
        BY <1>2, CallsFacts
      <3>2. PICK s \in Slots :
               /\ MsgOf(emitted[i], s)
               /\ Clear(s) => \E q \in Calls : emitted[i] = WholeOf(q) /\ DealtWith(q)
        BY <1>0, <3>1 DEF EmittedInv
      <3>3. ASSUME emitted[i] = WholeOf(r) PROVE FALSE
        <4>1. s = S(d)
          BY <2>1, <3>2, <3>3, WholeFacts DEF MsgOf
        <4>2. PICK q \in Calls : emitted[i] = WholeOf(q) /\ DealtWith(q)
          BY <1>6, <3>2, <4>1
        <4>3. q = r
          BY <3>3, <4>2, WholeFacts
        <4> QED BY <2>1, <4>2, <4>3
      <3>4. r # 0
        BY CallFacts
      <3> QED BY <3>1, <3>3, <3>4, CallOfWhole
    <2> QED BY <1>3, <1>5, <2>2, <2>3, <2>4, <2>5 DEF Log!Next, Log!HandOn, Log!Enter, Spoilt
  <1>7. CASE ~ Clear(S(d))
    <2>1. S(d) \in raced
      BY <1>0, <1>7 DEF Clear
    <2>2. PICK p \in msg[d].in : p[1] \in Calls \ Silent /\ SlotOf(p[1]) = S(d)
      BY <1>0 DEF MsgInv, MsgOf
    <2>3. p[1] \in Spoilt
      BY <2>1, <2>2 DEF Spoilt
    <2>4. x \in Spoilt \cup {0}
      <3>1. ASSUME NEW r \in Calls, msg[d] = WholeOf(r) PROVE r \in Spoilt
        BY <2>2, <2>3, <3>1, WholeFacts
      <3> QED BY <1>4, <3>1, CallOfWhole
    <2> QED BY <1>3, <1>5, <2>3, <2>4 DEF Log!Next, Log!HandOnSpoilt, Log!Enter, Spoilt
  <1> QED BY <1>6, <1>7

\* The reader of OutputChan takes a call.
LEMMA ConsumeRefines ==
  ASSUME TypeInv, Consume
  PROVE  Log!Next
  <1>1. /\ OutputChan # <<>> /\ OutputChan' = Tail(OutputChan) /\ OutputChan \in Seq(Message)
        /\ UNCHANGED <<RecordResponse, emitted, sent, raced>>
    BY DEF Consume, net, hist, TypeInv, HandlerType
  <1>2. /\ CallsOf(OutputChan) # <<>>
        /\ CallsOf(OutputChan)' = Tail(CallsOf(OutputChan))
    BY <1>1, CallsFacts, CallsNext
  <1>3. CallsOf(emitted)' = CallsOf(emitted) /\ Exchanged' = Exchanged /\ Spoilt' = Spoilt
    BY <1>1, CallsNext, ExchangedFacts, SpoiltSame
  <1> QED BY <1>2, <1>3 DEF Log!Next, Log!Read, Spoilt

\* Every step of the connection is a step of the log or changes nothing of it.
LEMMA StepRefines ==
  ASSUME IndInv, [Next]_vars
  PROVE  [Log!Next]_(Log!lvars)
  <1>0. TypeInv /\ raced \subseteq raced'
    BY RacedGrows DEF IndInv
  <1>1. ASSUME UNCHANGED <<RecordResponse, emitted, OutputChan, sent>>
        PROVE  [Log!Next]_(Log!lvars)
    BY <1>0, <1>1, SpoilRefines
  <1>2. ASSUME NEW r \in Calls, Request(r) \/ Respond(r) PROVE [Log!Next]_(Log!lvars)
    BY <1>0, <1>2, PeersRefine
  <1>3. ASSUME NEW r \in Calls, Cancel(r) PROVE [Log!Next]_(Log!lvars)
    BY <1>1, <1>3 DEF Cancel, code, hist
  <1>4. ASSUME NEW d \in Dirs, SayGoAway(d) PROVE [Log!Next]_(Log!lvars)
    BY <1>1, <1>4 DEF SayGoAway, code, hist
  <1>5. CASE Consume
    BY <1>0, <1>5, ConsumeRefines
  <1>6. ASSUME NEW d \in Dirs, Deal(d) PROVE [Log!Next]_(Log!lvars)
    <2>1. CASE Send(d)
      BY <2>1, SendRefines
    <2>2. CASE Take(d) \/ Store(d) \/ Check(d) \/ Wait(d) \/ Finish(d) \/ FinishReset(d)
      BY <1>1, <2>2 DEF Take, Store, Check, Wait, Finish, FinishReset, net, hist
    <2> QED BY <1>6, <2>1, <2>2 DEF Deal
  <1>7. CASE Signal \/ Put
    BY <1>1, <1>7 DEF Signal, Put, net, hist
  <1>8. CASE UNCHANGED vars
    BY <1>1, <1>8 DEF vars, code, net, hist
  <1> QED BY <1>2, <1>3, <1>4, <1>5, <1>6, <1>7, <1>8, DirFacts DEF Next, DealInput, DealOutput

\* The connection implements CallLog, for every number of calls and of slots and
\* every capacity of OutputChan, whatever the peers cancel and the timer does:
\* the calls of a slot that was not raced are handed on after they ended, once
\* and whole, and the reader gets all in the order they were handed on.
THEOREM ImplementsCallLog == Spec => CallLogSpec
  <1>1. ASSUME Init PROVE Log!Init
    <2>1. emitted = <<>> /\ OutputChan = <<>> /\ <<>> \in Seq({}) /\ raced = {}
      BY <1>1 DEF Init
    <2>2. CallsOf(emitted) = <<>> /\ CallsOf(OutputChan) = <<>>
      BY <2>1, CallsFacts
    <2>3. Exchanged = {}
      BY <1>1, ExchangedFacts, InitFacts, DirFacts
    <2> QED BY <2>1, <2>2, <2>3 DEF Log!Init
  <1>2. IndInv /\ [Next]_vars => [Log!Next]_(Log!lvars)
    BY StepRefines
  <1> QED BY <1>1, <1>2, Inductive, PTL DEF Spec, CallLogSpec, Log!Spec
=============================================================================
