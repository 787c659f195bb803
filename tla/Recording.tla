----------------------------- MODULE Recording -----------------------------
(***************************************************************************)
(* A recording: messages of several inputs go through the Emitter to a     *)
(* server and into the files of a directory.  Writes may fail, and the     *)
(* process may be killed at any point and started again (main.go exits     *)
(* without closing anything).                                              *)
(***************************************************************************)
EXTENDS Emitter, GRPCOutput, FileDirOutput

CONSTANTS Arrivals,    \* per input, the messages it will have, in order
          MaxFaults    \* bound on failed writes and kills

\* Messages are told apart even when they say the same, and there are one
\* GRPCOutput and one FileDirOutput.
ASSUME RecordingAssumption ==
    /\ Arrivals \in [Inputs -> Seq(Messages)]
    /\ \A i, j \in Inputs : \A k \in DOMAIN Arrivals[i], n \in DOMAIN Arrivals[j] :
          Arrivals[i][k] = Arrivals[j][n] => i = j /\ k = n
    /\ Outputs \in Seq(STRING)
    /\ \A out \in {"grpc", "file"} :
          \E k \in DOMAIN Outputs : \A n \in DOMAIN Outputs : Outputs[n] = out <=> n = k
    /\ MaxFaults \in Nat

VARIABLES todo,        \* per input, the messages still to come
          faults,      \* failed writes and kills so far
          accepted     \* history: the messages put into msgChannel, in order

vars == <<emitterVars, grpcVars, fileVars, todo, faults, accepted>>

Init == /\ EmitterInit
        /\ GRPCInit
        /\ FileInit
        /\ todo = Arrivals
        /\ faults = 0
        /\ accepted = <<>>

\* RAWInput.Read (and RocketMQInput.Read) return the next message.
Read(i) == /\ todo[i] # <<>>
           /\ Copy(i, Head(todo[i]))
           /\ todo' = [todo EXCEPT ![i] = Tail(@)]
           /\ UNCHANGED <<grpcVars, fileVars, faults, accepted>>

ToServer(i) == /\ Writing(i, "grpc")
               /\ Send(loop[i].msg)
               /\ accepted' = accepted \o SubSeq(msgChannel', Len(msgChannel) + 1,
                                                Len(msgChannel'))
               /\ Written(i)
               /\ UNCHANGED <<fileVars, todo, faults>>

ToFile(i) == /\ Writing(i, "file")
             /\ i \notin open
             /\ WriteRecord(i, loop[i].msg)
             /\ UNCHANGED <<emitterVars, grpcVars, todo, faults, accepted>>

EndOfRecord(i) == /\ Writing(i, "file")
                  /\ i \in open
                  /\ WriteEnd(i, loop[i].msg)
                  /\ Written(i)
                  /\ UNCHANGED <<grpcVars, todo, faults, accepted>>

\* The disk is full, say.
FileFails(i) == /\ Writing(i, "file")
                /\ faults < MaxFaults
                /\ faults' = faults + 1
                /\ WriteFails(i)
                /\ Written(i)
                /\ UNCHANGED <<grpcVars, todo, accepted>>

Work(w) == /\ StartCall(w) \/ EndCall(w)
           /\ UNCHANGED <<emitterVars, fileVars, todo, faults, accepted>>

\* A signal, or --exit-after: os.Exit, and the program is started again.
Kill == /\ faults < MaxFaults
        /\ faults' = faults + 1
        /\ EmitterRestart /\ GRPCRestart /\ FileRestart
        /\ UNCHANGED <<todo, accepted>>

CopyMulty(i) == Read(i) \/ ToServer(i) \/ ToFile(i) \/ EndOfRecord(i)

Next == \/ \E i \in Inputs : CopyMulty(i) \/ FileFails(i)
        \/ \E w \in Workers : Work(w)
        \/ Kill

Spec == Init /\ [][Next]_vars

\* The copy loops and the workers are scheduled; a call ends unless the server
\* leaves it unanswered.
FairSpec == /\ Spec
            /\ \A i \in Inputs : WF_vars(CopyMulty(i))
            /\ \A w \in Workers : WF_vars(Work(w))
-----------------------------------------------------------------------------
Pieces == [kind : {"meta", "method", "request", "response", "newline"},
           of : Messages \cup {NoMessage}]

\* The types, the capacity of the channel, and: a loop is within a record only
\* while it writes to the file.
TypeOK ==
    /\ loop \in [Inputs -> [msg : Messages, at : 1 .. Len(Outputs)] \cup {Reading}]
    /\ passed \in [Inputs -> Seq(Messages)]
    /\ todo \in [Inputs -> Seq(Messages)]
    /\ faults \in 0 .. MaxFaults
    /\ accepted \in Seq(Messages)
    /\ recorded \in Seq(Messages)
    /\ msgChannel \in Seq(Messages) /\ Len(msgChannel) <= ChannelCap
    /\ calling \in [Workers -> Messages \cup {NoMessage}]
    /\ files \in Seq(Seq(Pieces)) /\ files # <<>>
    /\ open \subseteq Inputs /\ \A i \in open : Writing(i, "file")

\* What reading the directory is to give for a message.
ReadResult(m) == IF m \in glued THEN Failed ELSE MessageOf(m)

\* Reading the files back gives, in order, the messages recorded, whole and
\* unmixed, whatever was killed or failed in between: only a record that
\* follows an unfinished one is lost with it, and neither stops the reader.
\* (Not so when the log rotated, or another input wrote, between the two
\* writes of a record.)
ReadsBack == ~ tangled => ReadAll(files) = [k \in DOMAIN recorded |-> ReadResult(recorded[k])]

\* What s has of p it has once, and in the order of p.
InOrder(s, p) == \A j, k \in DOMAIN s : \A a, b \in DOMAIN p :
    j < k /\ p[a] = s[j] /\ p[b] = s[k] => a < b

\* Each output gets what a copy loop has passed on at most once and in the order
\* of the input, whatever the other loops write in between, and whatever fails
\* or is killed; and it gets all of it as long as nothing has failed.
SameToAll == \A i \in Inputs : \A s \in {accepted, recorded} :
    /\ InOrder(s, passed[i])
    /\ faults = 0 /\ loop[i] = Reading => ToSet(passed[i]) \subseteq ToSet(s)

\* A server that leaves some calls unanswered does not keep the others from
\* being made while there are more workers than that.
AllCalled == Cardinality(Unanswered) < Cardinality(Workers) =>
    \A m \in Messages : (\E i \in Inputs : m \in ToSet(passed[i]))
                           ~> (calls[m] = 1 \/ faults > 0)
=============================================================================
