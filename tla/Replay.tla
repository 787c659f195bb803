------------------------------- MODULE Replay -------------------------------
(***************************************************************************)
(* A replay: the messages of a directory go from FileDirInput through the  *)
(* Emitter to the workers of GRPCOutput, which call a server.              *)
(***************************************************************************)
EXTENDS FileDirInput, Emitter, GRPCOutput

CONSTANT Input    \* the FileDirInput, as an input of the Emitter

ASSUME ReplayAssumption == Inputs = {Input} /\ Outputs = <<"grpc">>

VARIABLE prompt    \* chosen once: the program and the server are so fast
                   \* that no time passes while they have something to do

vars == <<inputVars, emitterVars, grpcVars, prompt>>

Init == /\ InputInit
        /\ EmitterInit
        /\ GRPCInit
        /\ prompt \in BOOLEAN

FileInput == /\ ReadAhead \/ Schedule
             /\ UNCHANGED <<emitterVars, grpcVars, prompt>>

Timer(w) == /\ Callback(w)
            /\ UNCHANGED <<emitterVars, grpcVars, prompt>>

CopyMulty == /\ \/ /\ ReadMsg
                   /\ Copy(Input, Head(msgChan))
                   /\ UNCHANGED grpcVars
                \/ /\ Writing(Input, "grpc")
                   /\ Send(loop[Input].msg)
                   /\ Written(Input)
                   /\ UNCHANGED inputVars
             /\ UNCHANGED prompt

Work(w) == /\ StartCall(w) \/ EndCall(w)
           /\ UNCHANGED <<inputVars, emitterVars, prompt>>

Settled == AtRest /\ loop[Input] = Reading /\ msgChannel = <<>>

Time == /\ prompt => Settled
        /\ Tick
        /\ UNCHANGED <<emitterVars, grpcVars, prompt>>

Next == \/ FileInput
        \/ \E w \in TimerWorkers : Timer(w)
        \/ CopyMulty
        \/ \E w \in Workers : Work(w)
        \/ Time

Spec == Init /\ [][Next]_vars

\* The goroutines are scheduled, and time goes on.
FairSpec == /\ Spec
            /\ WF_vars(FileInput)
            /\ \A w \in TimerWorkers : WF_vars(Timer(w))
            /\ WF_vars(CopyMulty)
            /\ \A w \in Workers : WF_vars(Work(w))
            /\ WF_vars(Time)
-----------------------------------------------------------------------------
\* The types; channels keep to their capacities, and a worker of the timer has
\* a message unless it has just handed one on.
TypeOK ==
    /\ entries \in Recordings
    /\ status \in {"start", "running", "exited"}
    /\ pos \in 0 .. Len(entries)
    /\ benchmark \in Int
    /\ batch \in Seq(Messages)
    /\ timer \in Seq([msg : Messages, left : Nat])
    /\ hand \in [TimerWorkers -> [do : {"wait", "read"}, msg : {NoMessage}]
                                 \cup [do : {"send", "add"}, msg : Messages]]
    /\ msgChan \in Seq(Messages) /\ Len(msgChan) <= MsgCap
    /\ elapsed \in 0 .. Horizon
    /\ loop \in [Inputs -> [msg : Messages, at : {1}] \cup {Reading}]
    /\ msgChannel \in Seq(Messages) /\ Len(msgChannel) <= ChannelCap
    /\ calling \in [Workers -> Messages \cup {NoMessage}]
    /\ calls \in [Messages -> Nat]
    /\ prompt \in BOOLEAN

\* No record is replayed twice, however the workers of the timer overlap.
CalledOnce == \A m \in Messages : calls[m] <= 1

\* No message leaves the timer before its turn, counted from the earliest
\* record of the first ReadDepth and divided by the speed.
Turn(m) == LET first == {TimestampOf[entries[k]] :
                           k \in {j \in DOMAIN entries : j <= ReadDepth}}
           IN  {(TimestampOf[m] - t) \div Speed : t \in first}

NotEarly == /\ \A w \in TimerWorkers : hand[w].do = "send" =>
                  \A d \in Turn(hand[w].msg) : elapsed >= d
            /\ \A j \in DOMAIN msgChan : \A d \in Turn(msgChan[j]) : elapsed >= d

IndexOf(m) == CHOOSE k \in DOMAIN entries : entries[k] = m

\* When nothing is slow, messages are delivered in the order of their
\* timestamps as far as the reader has looked ahead: a message goes before
\* every later one that is behind it in the recording, and one of the first
\* ReadDepth goes before every later one.
OrderKept == prompt =>
    \A j, k \in DOMAIN delivered :
       LET a == delivered[j]
           b == delivered[k]
       IN  /\ Offset(a) < Offset(b)
           /\ IndexOf(a) < IndexOf(b) \/ IndexOf(a) <= ReadDepth
           => j < k

BadAmong(n) == Cardinality({k \in 1 .. n : entries[k] = Bad})
Busy == {w \in TimerWorkers : hand[w] # Free}

\* While there is something to read, ReadDepth tasks are under way, less one
\* for every record that could not be read.
TasksKept == status = "running" /\ pos < Len(entries) =>
    Len(batch) + Len(timer) + Cardinality(Busy) = ReadDepth - BadAmong(pos)

\* Every record that can be read is replayed, unless as many records as are
\* read ahead cannot be read: each of them costs a task.
AllReplayed ==
    \A m \in Messages :
       /\ status = "running"
       /\ m \in ToSet(entries)
       /\ MethodOf[m] # NoMethod
       /\ BadAmong(Len(entries)) < ReadDepth
       /\ Cardinality(Unanswered) < Cardinality(Workers)
       ~> m \in stopped \/ calls[m] = 1

\* README.md: "replay at multiple speeds".  When nothing is slow and every record
\* can be read, each message is delivered at its turn.
OnTime == prompt /\ status = "running" /\ BadAmong(Len(entries)) = 0 =>
    \A m \in ToSet(entries) : Offset(m) < elapsed => m \in ToSet(delivered)
=============================================================================
