----------------------------- MODULE GRPCOutput -----------------------------
(***************************************************************************)
(* GRPCOutput (plugin/output_grpc.go): Write puts a message into a         *)
(* channel, several workers take them out and call the server.  A call has *)
(* no deadline.                                                            *)
(***************************************************************************)
EXTENDS Message, Sequences, FiniteSets

CONSTANTS Workers,       \* the GrpcWorkers
          ChannelCap,    \* capacity of msgChannel
          Unanswered     \* the calls the server never answers

ASSUME GRPCAssumption == /\ Workers # {}
                         /\ ChannelCap \in Nat \ {0}
                         /\ Unanswered \subseteq Messages

VARIABLES msgChannel,
          calling,     \* per worker, the message it is calling the server with
          calls        \* history: per message, the calls attempted

grpcVars == <<msgChannel, calling, calls>>

NotCalling == [w \in Workers |-> NoMessage]

GRPCInit == /\ msgChannel = <<>>
            /\ calling = NotCalling
            /\ calls = [m \in Messages |-> 0]

\* Here and below, an operator that no other definition uses is a faulty
\* variant of the one that follows it, for the mutation of the checks.
SendOrDrop(m) == /\ msgChannel' = IF Len(msgChannel) < ChannelCap
                                  THEN Append(msgChannel, m) ELSE msgChannel
                 /\ UNCHANGED <<calling, calls>>

\* GRPCOutput.Write.
Send(m) == /\ Len(msgChannel) < ChannelCap
           /\ msgChannel' = Append(msgChannel, m)
           /\ UNCHANGED <<calling, calls>>

\* GrpcWorker.execute and the first half of Call: the RPC is sent, unless the
\* message names no method.
StartCall(w) ==
    /\ calling[w] = NoMessage
    /\ msgChannel # <<>>
    /\ LET m == Head(msgChannel)
       IN  IF MethodOf[m] = NoMethod
           THEN UNCHANGED <<calling, calls>>
           ELSE /\ calling' = [calling EXCEPT ![w] = m]
                /\ calls' = [calls EXCEPT ![m] = @ + 1]
    /\ msgChannel' = Tail(msgChannel)

LastCall(w) == /\ calling[w] \notin Unanswered \cup {NoMessage}
               /\ calling' = [calling EXCEPT ![w] = -1]
               /\ UNCHANGED <<msgChannel, calls>>

\* Call returns, with an answer or an error, and execute goes on.
EndCall(w) == /\ calling[w] # NoMessage
              /\ calling[w] \notin Unanswered
              /\ calling' = [calling EXCEPT ![w] = NoMessage]
              /\ UNCHANGED <<msgChannel, calls>>

\* A new process.
GRPCRestart == /\ msgChannel' = <<>>
               /\ calling' = NotCalling
               /\ UNCHANGED calls
=============================================================================
