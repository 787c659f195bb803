----------------------------- MODULE Http2Conn -----------------------------
(***************************************************************************)
(* Http2Conn (http2/http2.go): one HTTP/2 connection.  DealInput reads the *)
(* frames of the client and, when responses are recorded, DealOutput those *)
(* of the server; both work on the same stream slots.  A call that is      *)
(* complete is turned into a message and sent to Processor.OutputChan.     *)
(*                                                                         *)
(* The two frame queues are what TCPBuffer delivers (module ByteStream):   *)
(* every captured frame, once, in the order it was sent.                   *)
(*                                                                         *)
(* A frame is [id, kind, end]; what a slot has collected of a request or a *)
(* response is the set of the <<id, kind>> it stored.                      *)
(***************************************************************************)
EXTENDS Integers, Sequences, FiniteSets, SequencesExt

CONSTANTS NStreams,      \* the calls of the connection are 1 .. NStreams
          NSlots,        \* StreamArraySize, in calls (client ids are odd)
          OutputCap,     \* capacity of Processor.OutputChan
          Silent,        \* calls toMsg has an error for (reflection, unknown)
          Cancellable,   \* calls the client may cancel
          GoAways,       \* the directions that may send GOAWAY
          MayTimeOut     \* WaitTimeout's duration may pass before the token

Calls == 1 .. NStreams
Dirs == {"in", "out"}
SlotOf(id) == id % NSlots
Slots == 0 .. NSlots - 1

ASSUME ConnAssumption ==
    /\ NStreams \in Nat \ {0} /\ NSlots \in Nat \ {0} /\ OutputCap \in Nat \ {0}
    /\ Silent \subseteq Calls /\ Cancellable \subseteq Calls
    /\ GoAways \subseteq Dirs /\ MayTimeOut \in BOOLEAN

VARIABLES RecordResponse,  \* set once, from the command line
          Streams,         \* per slot, Request ("in") and Response ("out")
          done,            \* per slot, the number of the channel in Stream.done
          tokens,          \* the done channels that hold a token
          pc,              \* per goroutine, where it is in the handler
          frame,           \* the frame it handles
          ch,              \* the done channel it sends to or waits on
          msg,             \* the message toMsg returned to it
          OutputChan,
          registered       \* the connection is in Processor.ConnRepository

\* The network and the reader of OutputChan.
VARIABLES queue,      \* per direction, the captured frames not handled yet
          sent,       \* per direction and call, frames sent
          cancelled,  \* calls the client has cancelled
          emitted     \* history: the messages sent to OutputChan, in order

\* Stream.done is all that keeps DealInput and DealOutput apart on a slot, and
\* it does not always.  A slot is raced from the step in which it fails on:
\*   - DealInput itself finds the response's end, and is to finish the call
\*     as DealOutput is (Check);
\*   - DealOutput goes on by the timer while DealInput still has frames of
\*     the request to handle (Wait);
\*   - a frame of a call is taken while the other goroutine has one of an
\*     earlier call of the slot to handle (Overtakes);
\*   - a call is cancelled under DealOutput's hands, or DealOutput goes on
\*     with a call after its cancellation (CutsIn).
\* It restrains no step: what a raced slot does is modelled as any other.
VARIABLE raced

code == <<Streams, done, tokens, pc, frame, ch, msg, OutputChan, registered>>
net == <<queue, sent, cancelled>>
hist == <<emitted, raced>>
vars == <<RecordResponse, code, net, hist>>
-----------------------------------------------------------------------------
Frame(id, kind, end) == [id |-> id, kind |-> kind, end |-> end]

\* The frames of a unary call, in each direction.
Script(d, id) == IF d = "in"
                 THEN <<Frame(id, "headers", FALSE), Frame(id, "data", TRUE)>>
                 ELSE <<Frame(id, "data", FALSE), Frame(id, "trailers", TRUE)>>

PartsOf(d, id) == {<<id, Script(d, id)[i].kind>> : i \in DOMAIN Script(d, id)}

RST(id) == Frame(id, "rst", FALSE)
GoAway == Frame(0, "goaway", FALSE)

NoFrame == Frame(0, "none", FALSE)
NoMsg == [in |-> {}, out |-> {}]
NoChan == <<NSlots, 0>>

EmptyItem == [end |-> FALSE, parts |-> {}]
EmptyStream == [d \in Dirs |-> EmptyItem]

\* NewHttp2Conn, called by the processor on entering ESTABLISHED.
Init == /\ RecordResponse \in BOOLEAN
        /\ Streams = [s \in Slots |-> EmptyStream]
        /\ done = [s \in Slots |-> 0]
        /\ tokens = {}
        /\ pc = [d \in Dirs |-> "idle"]
        /\ frame = [d \in Dirs |-> NoFrame]
        /\ ch = [d \in Dirs |-> NoChan]
        /\ msg = [d \in Dirs |-> NoMsg]
        /\ OutputChan = <<>>
        /\ registered = TRUE
        /\ queue = [d \in Dirs |-> <<>>]
        /\ sent = [d \in Dirs |-> [r \in Calls |-> 0]]
        /\ cancelled = {}
        /\ emitted = <<>>
        /\ raced = {}
-----------------------------------------------------------------------------
(* The network.  Only what is captured while the processor finds the      *)
(* connection in ConnRepository reaches it, and of the server only when    *)
(* responses are recorded.  What the peers send afterwards is not followed.*)

Capture(d, f) == /\ registered
                 /\ queue' = [queue EXCEPT ![d] = Append(@, f)]

Ended(d, r) == sent[d][r] = Len(Script(d, r))

\* Everything of a call was handled: nothing is queued and no goroutine is
\* at it.
Handled(d, r) == /\ \A i \in DOMAIN queue[d] : queue[d][i].id # r
                 /\ frame[d].id # r

\* A stream id is used after all smaller ones and, at a slot's second use,
\* when the earlier call is over.
MayStart(r) == /\ r > 1 => sent["in"][r - 1] > 0
               /\ \A q \in 1 .. r - 1 : SlotOf(q) = SlotOf(r) =>
                    Ended("out", q) \/ q \in cancelled

\* The client sends the next frame of a request.
Request(r) == /\ ~ Ended("in", r)
              /\ r \notin cancelled
              /\ sent["in"][r] = 0 => MayStart(r)
              /\ Capture("in", Script("in", r)[sent["in"][r] + 1])
              /\ sent' = [sent EXCEPT !["in"][r] = @ + 1]
              /\ UNCHANGED <<RecordResponse, code, cancelled, hist>>

\* The server sends the next frame of a response; it may not have heard yet of
\* a cancellation.
Respond(r) == /\ Ended("in", r)
              /\ ~ Ended("out", r)
              /\ IF RecordResponse
                 THEN Capture("out", Script("out", r)[sent["out"][r] + 1])
                 ELSE registered /\ UNCHANGED queue
              /\ sent' = [sent EXCEPT !["out"][r] = @ + 1]
              /\ UNCHANGED <<RecordResponse, code, cancelled, hist>>

\* The client cancels a call, even one whose response is on its way.
Cancel(r) == /\ r \in Cancellable \ cancelled
             /\ sent["in"][r] > 0
             /\ \A q \in r + 1 .. NStreams : SlotOf(q) = SlotOf(r) => sent["in"][q] = 0
             /\ Capture("in", RST(r))
             /\ cancelled' = cancelled \cup {r}
             /\ UNCHANGED <<RecordResponse, code, sent, hist>>

\* One side announces that it will close the connection.
SayGoAway(d) == /\ d \in GoAways
                /\ d = "out" => RecordResponse
                /\ \A i \in DOMAIN queue[d] : queue[d][i] # GoAway
                /\ frame[d] # GoAway
                /\ Capture(d, GoAway)
                /\ UNCHANGED <<RecordResponse, code, sent, cancelled, hist>>

\* The reader of OutputChan (plugin/input_raw.go).
Consume == /\ OutputChan # <<>>
           /\ OutputChan' = Tail(OutputChan)
           /\ UNCHANGED <<RecordResponse, Streams, done, tokens, pc, frame, ch, msg,
                          registered, net, hist>>
-----------------------------------------------------------------------------
(* The handlers.  DealInput and DealOutput run the same code, ProcessFrame,*)
(* on the streams they share.                                              *)

S(d) == SlotOf(frame[d].id)

Goto(d, l) == pc' = [pc EXCEPT ![d] = l]

\* Back in the frame loop.
Return(d) == /\ Goto(d, "idle")
             /\ frame' = [frame EXCEPT ![d] = NoFrame]

\* A new channel takes a number that no goroutine holds, and a token in a
\* channel that nothing refers to any more is gone.
NewDone(s) == /\ done' = [done EXCEPT ![s] = CHOOSE n \in 0 .. 2 : \A d \in Dirs : ch[d] # <<s, n>>]
              /\ tokens' = {t \in tokens : t[1] # s \/ \E d \in Dirs : ch[d] = t}

\* Here and below, an operator that no other definition uses is a faulty
\* variant of the one that follows it, for the mutation of the checks.
KeepDone(s) == /\ Streams' = [Streams EXCEPT ![s] = EmptyStream]
               /\ UNCHANGED <<done, tokens>>

KeepItems(s) == NewDone(s) /\ UNCHANGED Streams

\* Stream.Reset: both items are emptied and done is a new channel.
Reset(s) == /\ Streams' = [Streams EXCEPT ![s] = EmptyStream]
            /\ NewDone(s)

StoredAlone(P, f) == {<<f.id, f.kind>>}

\* What _processFrameHeader and _processFrameData store: header fields
\* replace those of the same name, data is appended.
Stored(P, f) == {p \in P : p[2] = "data" \/ p[2] # f.kind} \cup {<<f.id, f.kind>>}

Other(d) == IF d = "in" THEN "out" ELSE "in"

\* The slot of the frame is not clear yet of an earlier call.
Overtakes(d, f) == \E q \in Calls : /\ q < f.id /\ SlotOf(q) = SlotOf(f.id)
                                    /\ ~ Handled(Other(d), q)

\* A cancellation and a response meet.
CutsIn(d, f) == \/ f.kind = "rst" /\ frame["out"].id = f.id
                \/ d = "out" /\ f.id \in cancelled /\ Handled("in", f.id)

Mark(s, race) == raced' = IF race THEN raced \cup {s} ELSE raced

\* ReadFull of the next frame, and the first statements of its handler.
Take(d) == /\ pc[d] = "idle"
           /\ queue[d] # <<>>
           /\ LET f == Head(queue[d])
                  s == SlotOf(f.id)
              IN  \/ /\ f.kind \in {"headers", "data", "trailers"}
                     /\ Streams' = [Streams EXCEPT ![s][d].end = f.end]
                     /\ frame' = [frame EXCEPT ![d] = f]
                     /\ Goto(d, "store")
                     /\ UNCHANGED <<done, tokens, registered>>
                  \/ /\ f.kind = "rst"
                     /\ Reset(s)
                     /\ UNCHANGED <<frame, pc, registered>>
                  \/ /\ f.kind = "goaway"
                     /\ registered' = FALSE
                     /\ UNCHANGED <<Streams, done, tokens, frame, pc>>
           /\ LET f == Head(queue[d])
              IN  Mark(SlotOf(f.id), Overtakes(d, f) \/ CutsIn(d, f))
           /\ queue' = [queue EXCEPT ![d] = Tail(@)]
           /\ UNCHANGED <<RecordResponse, ch, msg, OutputChan, sent, cancelled,
                          emitted>>

SignalAlways(d) == "signal"

\* Only the end of a request is signalled.
AfterStore(d) == IF d = "in" THEN "signal" ELSE "check"

\* The content of the frame is decoded and stored.
Store(d) == /\ pc[d] = "store"
            /\ Streams' = [Streams EXCEPT ![S(d)][d].parts = Stored(@, frame[d])]
            /\ Goto(d, AfterStore(d))
            /\ UNCHANGED <<RecordResponse, done, tokens, frame, ch, msg, OutputChan,
                           registered, net, hist>>

\* DealInput: if the request has ended, stream.done is to get a token.
Signal == /\ pc["in"] = "signal"
          /\ IF Streams[S("in")]["in"].end
             THEN /\ ch' = [ch EXCEPT !["in"] = <<S("in"), done[S("in")]>>]
                  /\ Goto("in", "put")
             ELSE /\ Goto("in", "check")
                  /\ UNCHANGED ch
          /\ UNCHANGED <<RecordResponse, Streams, done, tokens, frame, msg, OutputChan,
                         registered, net, hist>>

\* stream.done <- struct{}{}, which waits while the channel is full.
Put == /\ pc["in"] = "put"
       /\ ch["in"] \notin tokens
       /\ tokens' = tokens \cup {ch["in"]}
       /\ ch' = [ch EXCEPT !["in"] = NoChan]
       /\ Goto("in", "check")
       /\ UNCHANGED <<RecordResponse, Streams, done, frame, msg, OutputChan,
                      registered, net, hist>>

FinishOnRequest(s) == Streams[s]["in"].end

\* The call is complete as far as this configuration records it.
Complete(s) == Streams[s][IF RecordResponse THEN "out" ELSE "in"].end

Check(d) == /\ pc[d] = "check"
            /\ IF ~ Complete(S(d))
               THEN Return(d) /\ UNCHANGED ch
               ELSE /\ IF RecordResponse
                       THEN /\ Goto(d, "wait")
                            /\ ch' = [ch EXCEPT ![d] = <<S(d), done[S(d)]>>]
                       ELSE Goto(d, "finish") /\ UNCHANGED ch
                    /\ UNCHANGED frame
            /\ Mark(S(d), d = "in" /\ RecordResponse /\ Complete(S(d)))
            /\ UNCHANGED <<RecordResponse, Streams, done, tokens, msg, OutputChan,
                           registered, net, emitted>>

\* WaitTimeout: the token, or, if none comes, the timeout.
Wait(d) == /\ pc[d] = "wait"
           /\ \/ /\ ch[d] \in tokens
                 /\ tokens' = tokens \ {ch[d]}
                 /\ UNCHANGED raced
              \/ /\ MayTimeOut
                 /\ Mark(S(d), ~ Handled("in", frame[d].id))
                 /\ UNCHANGED tokens
           /\ ch' = [ch EXCEPT ![d] = NoChan]
           /\ Goto(d, "finish")
           /\ UNCHANGED <<RecordResponse, Streams, done, frame, msg, OutputChan,
                          registered, net, emitted>>

MethodOfResponse(s) == \E p \in Streams[s]["out"].parts : p[2] = "headers"

MethodOfRequest(s) == \E p \in Streams[s]["in"].parts : p[2] = "headers"

\* toMsg has an error without a method, and for the silent calls.
HasMsg(s) == \E p \in Streams[s]["in"].parts : p[2] = "headers" /\ p[1] \notin Silent

\* FinishStream, toMsg.
Finish(d) == /\ pc[d] = "finish"
             /\ IF HasMsg(S(d))
                THEN /\ msg' = [msg EXCEPT ![d] =
                                  [in |-> Streams[S(d)]["in"].parts,
                                   out |-> IF RecordResponse
                                           THEN Streams[S(d)]["out"].parts ELSE {}]]
                     /\ Goto(d, "send")
                ELSE /\ Goto(d, "reset")
                     /\ UNCHANGED msg
             /\ UNCHANGED <<RecordResponse, Streams, done, tokens, frame, ch, OutputChan,
                            registered, net, hist>>

\* FinishStream, OutputChan <- pMsg.
Send(d) == /\ pc[d] = "send"
           /\ Len(OutputChan) < OutputCap
           /\ OutputChan' = Append(OutputChan, msg[d])
           /\ emitted' = Append(emitted, msg[d])
           /\ msg' = [msg EXCEPT ![d] = NoMsg]
           /\ Goto(d, "reset")
           /\ UNCHANGED <<RecordResponse, Streams, done, tokens, frame, ch,
                          registered, net, raced>>

\* FinishStream, stream.Reset.
FinishReset(d) == /\ pc[d] = "reset"
                  /\ Reset(S(d))
                  /\ Return(d)
                  /\ UNCHANGED <<RecordResponse, ch, msg, OutputChan, registered,
                                 net, hist>>

Deal(d) == Take(d) \/ Store(d) \/ Check(d) \/ Wait(d) \/ Finish(d) \/ Send(d)
           \/ FinishReset(d)

DealInput == Deal("in") \/ Signal \/ Put
DealOutput == Deal("out")

Next == \/ \E r \in Calls : Request(r) \/ Respond(r) \/ Cancel(r)
        \/ \E d \in Dirs : SayGoAway(d)
        \/ Consume
        \/ DealInput
        \/ DealOutput

Spec == Init /\ [][Next]_vars

\* The goroutines are scheduled and the reader of OutputChan keeps reading;
\* nothing is assumed of the peers.
FairSpec == /\ Spec
            /\ WF_vars(DealInput)
            /\ WF_vars(DealOutput)
            /\ WF_vars(Consume)
-----------------------------------------------------------------------------
Parts == Calls \X {"headers", "data", "trailers"}
Item == [end : BOOLEAN, parts : SUBSET Parts]
Message == [in : SUBSET Parts, out : SUBSET Parts]

\* The type of every variable; the output goroutine is never at the end of a
\* request, which only DealInput signals, and the channel keeps to its
\* capacity.
TypeOK == /\ RecordResponse \in BOOLEAN
          /\ Streams \in [Slots -> [Dirs -> Item]]
          /\ done \in [Slots -> 0 .. 2]
          /\ tokens \subseteq Slots \X (0 .. 2)
          /\ pc \in [Dirs -> {"idle", "store", "signal", "put", "check", "wait",
                              "finish", "send", "reset"}]
          /\ pc["out"] \notin {"signal", "put"}
          /\ msg \in [Dirs -> Message]
          /\ Len(OutputChan) <= OutputCap
          /\ registered \in BOOLEAN
          /\ raced \subseteq Slots

\* The message of a call, complete.
WholeOf(r) == [in |-> PartsOf("in", r),
               out |-> IF RecordResponse THEN PartsOf("out", r) ELSE {}]

\* Every message handed on is one call, with its whole request and, when
\* responses are recorded, its whole response, and nothing of another call.
EveryMessageWhole == \A i \in DOMAIN emitted : \E r \in Calls : emitted[i] = WholeOf(r)

OfRacedSlot(m) == \E p \in m.in : SlotOf(p[1]) \in raced

\* Every message handed on is one call, whole, as long as the goroutines were
\* not at odds over its slot: they may work on a call at the same time, in any
\* order, and the one that finishes it finds all of it.
EmittedWhole == \A i \in DOMAIN emitted : \/ \E r \in Calls : emitted[i] = WholeOf(r)
                                          \/ OfRacedSlot(emitted[i])

\* Nothing is handed on twice, unless its slot was raced.
AtMostOnce == \A i, j \in DOMAIN emitted :
                 i # j => \A p \in emitted[i].in \cap emitted[j].in : SlotOf(p[1]) \in raced

\* The call a message is the whole of, 0 if it is of none.
CallOf(m) == IF \E r \in Calls : m = WholeOf(r)
             THEN CHOOSE r \in Calls : m.in = PartsOf("in", r)
             ELSE 0
CallsOf(q) == [i \in DOMAIN q |-> CallOf(q[i])]

Exchanged == {r \in Calls \ Silent : Ended(IF RecordResponse THEN "out" ELSE "in", r)}

Log == INSTANCE CallLog WITH Calls <- Calls \ Silent, Cap <- OutputCap,
                             over <- Exchanged,
                             spoilt <- {r \in Calls \ Silent : SlotOf(r) \in raced},
                             log <- CallsOf(emitted),
                             unread <- CallsOf(OutputChan)

\* To the reader of OutputChan the connection is a log of calls (module
\* CallLog): FinishStream hands on a call that toMsg has a message for, after
\* its last recorded frame and at most once, unless its slot was raced, and
\* the reader gets the calls in the order they were handed on.
CallLogSpec == Log!Spec

\* Nothing is being handled, and nothing waits to be.
Quiet == \A d \in Dirs : pc[d] = "idle" /\ queue[d] = <<>>
Over(r) == \/ sent["in"][r] = 0
           \/ r \in cancelled
           \/ Ended("in", r) /\ Ended("out", r)

\* When all that was captured is handled and every call is over, each slot that
\* was not raced is as new: nothing collected, no token in its done channel.  A
\* later call that falls on the slot starts clean.
SlotsClean == Quiet /\ (\A r \in Calls : Over(r)) =>
                 \A s \in Slots \ raced : /\ Streams[s] = EmptyStream
                                          /\ <<s, done[s]>> \notin tokens

Captured(r) == /\ r \notin cancelled \cup Silent
               /\ Ended("in", r)
               /\ RecordResponse => Ended("out", r)

\* A call all of whose frames were captured is handed on, however long the
\* reader of OutputChan takes, unless a slot was raced: the other calls of the
\* connection suffer too when DealInput is left waiting for a token to go.
CapturedIsEmitted ==
    \A r \in Calls :
        Captured(r) ~> \/ \E i \in DOMAIN emitted : <<r, "headers">> \in emitted[i].in
                       \/ raced # {}
=============================================================================
