-------------------------- MODULE RAWListenProofs --------------------------
(***************************************************************************)
(* Proofs about RAWListen, for any number of connections, incarnations and *)
(* packets and any size of the capture's buffer.                           *)
(***************************************************************************)
EXTENDS RAWListen, TLAPS

\* No client connects between listAllConns and OpenLive: such a connection is
\* neither listed nor captured from its SYN.
ASSUME NoGapAssumption == GapOpens = FALSE

\* The connections from before the capture that their clients still have.
Live == {c \in Conns : /\ client[c] # 0
                       /\ capture = "on" => <<c, client[c]>> \in before}

\* What makes the listener remove a connection that is in connSet.
Removal(p) == p.dir = "in" /\ RemovesOn(p)

\* Until the capture is on, nothing is captured and no client connects.
StartInv == /\ pc \in {"list", "start"} => capture = "off"
            /\ capture # "on" => /\ queue = <<>>
                                 /\ before = {}
                                 /\ \A c \in Conns : server[c] # 0 => c \in Old

\* Remove is waited for with the packet that caused it at the queue's head.
WaitInv == waiting # "none" => queue # <<>> /\ Removal(queue[1])

\* Listen works on connections of Old only.
OldInv == connSet \subseteq Old /\ result \subseteq Old

\* Only earlier incarnations are in before.
BeforeInv == \A b \in before : /\ b = <<b[1], b[2]>>
                                /\ b[1] \in Conns /\ b[2] \in 1 .. opened[b[1]]

\* Listen keeps its hold of every live connection, in each of its variables,
\* and no packet that is still in the queue makes the listener drop one.
LiveInv == /\ pc # "list" => Live \subseteq connSet
           /\ pc \in {"intersection", "nested"} => Live \subseteq listed
           /\ pc \in {"unlock", "assign"} => Live \subseteq result
           /\ pc = "done" => connSet = {}
           /\ \A i \in 1 .. Len(queue) : Removal(queue[i]) => queue[i].conn \notin Live

IndInv == /\ TypeOK
          /\ StartInv
          /\ WaitInv
          /\ OldInv
          /\ FreshFollowed
          /\ BeforeInv
          /\ LiveInv
-----------------------------------------------------------------------------
(* The queue.                                                              *)

\* Capturing appends packets or loses them; what is in the queue stays.
LEMMA Captured ==
    ASSUME TypeOK, StartInv, NEW ps \in Seq(Packet), Capture(ps)
    PROVE  /\ queue' \in Seq(Packet) /\ Len(queue') <= QueueCap
           /\ queue # <<>> => queue' # <<>> /\ queue'[1] = queue[1]
           /\ \A i \in 1 .. Len(queue') :
                 \/ i \in 1 .. Len(queue) /\ queue'[i] = queue[i]
                 \/ \E j \in 1 .. Len(ps) : queue'[i] = ps[j]
           /\ capture # "on" => queue' = <<>>
<1> queue \in Seq(Packet) /\ Len(queue) <= QueueCap
  BY DEF TypeOK
<1>1. CASE queue' = queue
  BY <1>1 DEF StartInv
<1>2. CASE /\ queue' = queue \o ps
           /\ capture = "on" /\ Len(queue) + Len(ps) <= QueueCap
  <2>1. Len(queue') = Len(queue) + Len(ps) /\ queue' \in Seq(Packet)
    BY <1>2
  <2>2. ASSUME NEW i \in 1 .. Len(queue')
        PROVE  \/ i \in 1 .. Len(queue) /\ queue'[i] = queue[i]
               \/ \E j \in 1 .. Len(ps) : queue'[i] = ps[j]
    <3>1. CASE i <= Len(queue)
      BY <1>2, <3>1
    <3>2. CASE i > Len(queue)
      <4>1. i - Len(queue) \in 1 .. Len(ps) /\ queue'[i] = ps[i - Len(queue)]
        BY <1>2, <2>1, <3>2
      <4> QED BY <4>1
    <3> QED BY <3>1, <3>2
  <2>3. queue # <<>> => queue' # <<>> /\ queue'[1] = queue[1]
    BY <1>2, <2>1
  <2> QED BY <1>2, <2>1, <2>2, <2>3
<1> QED BY <1>1, <1>2 DEF Capture

\* The listener takes the packet at the head.
LEMMA Taken ==
    ASSUME TypeOK, queue # <<>>, queue' = Tail(queue)
    PROVE  /\ queue' \in Seq(Packet) /\ Len(queue') <= QueueCap
           /\ \A i \in 1 .. Len(queue') : i + 1 \in 1 .. Len(queue) /\ queue'[i] = queue[i + 1]
<1> queue \in Seq(Packet) /\ Len(queue) <= QueueCap
  BY DEF TypeOK
<1>1. queue' \in Seq(Packet) /\ Len(queue') = Len(queue) - 1
  BY SMT
<1>2. \A i \in 1 .. Len(queue') : i + 1 \in 1 .. Len(queue) /\ queue'[i] = queue[i + 1]
  BY <1>1
<1>3. Len(queue') <= QueueCap
  BY <1>1, RAWAssumption
<1> QED BY <1>1, <1>2, <1>3

\* The head of a queue that is not empty is a packet.
LEMMA HeadPacket ==
    ASSUME TypeOK, queue # <<>>
    PROVE  Head(queue) = queue[1] /\ queue[1] \in Packet /\ 1 \in 1 .. Len(queue)
BY DEF TypeOK

\* The packets the model makes are packets.
LEMMA Packets ==
    ASSUME NEW c \in Conns, NEW n \in 0 .. MaxInc
    PROVE  /\ SYN(c, n) \in Packet /\ ACK(c, n) \in Packet /\ FIN(c, n) \in Packet
           /\ RST(c, n) \in Packet /\ Probe(c) \in Packet
           /\ In(c, 0, {"RST", "ACK"}) \in Packet
           /\ ~ Removal(ACK(c, n)) /\ ~ Removal(FIN(c, n)) /\ ~ Removal(RST(c, n))
           /\ ~ Removal(Probe(c)) /\ ~ Removal(In(c, 0, {"RST", "ACK"}))
           /\ SYN(c, n).conn = c
<1> 0 \in 0 .. MaxInc
  BY RAWAssumption
<1> QED BY DEF Packet, SYN, ACK, FIN, RST, Probe, In, Removal, RemovesOn
-----------------------------------------------------------------------------
(* Clients and kernel.                                                     *)

\* What a step of the hosts has to satisfy to preserve the invariant.
LEMMA HostStep ==
    ASSUME IndInv, NEW ps \in Seq(Packet), Capture(ps),
           UNCHANGED <<listenVars, connSet, capture, waiting, history>>,
           client' \in [Conns -> 0 .. MaxInc],
           server' \in [Conns -> 0 .. MaxInc],
           \A c \in Conns : client'[c] \in {0, server'[c]} /\ server'[c] <= opened'[c],
           opened' \in [Conns -> 0 .. MaxInc],
           budget' \in [Conns -> 0 .. MaxData],
           \A c \in Conns : opened[c] <= opened'[c],
           capture # "on" => \A c \in Conns : server'[c] # 0 => c \in Old,
           Live' \subseteq Live,
           \A j \in 1 .. Len(ps) : Removal(ps[j]) => ps[j].conn \notin Live
    PROVE  IndInv'
<1> USE DEF IndInv
<1>1. /\ queue' \in Seq(Packet) /\ Len(queue') <= QueueCap
      /\ queue # <<>> => queue' # <<>> /\ queue'[1] = queue[1]
      /\ \A i \in 1 .. Len(queue') :
            \/ i \in 1 .. Len(queue) /\ queue'[i] = queue[i]
            \/ \E j \in 1 .. Len(ps) : queue'[i] = ps[j]
      /\ capture # "on" => queue' = <<>>
  BY Captured
<1>2. WaitInv'
  BY <1>1 DEF WaitInv, Removal, RemovesOn
<1>3. TypeOK'
  <2>1. waiting' # "none" => "SYN" \in Head(queue').flags
    BY <1>1, <1>2 DEF WaitInv, Removal, RemovesOn
  <2> QED BY <1>1, <2>1 DEF TypeOK, listenVars
<1>4. StartInv'
  BY <1>1 DEF StartInv, listenVars, history
<1>5. OldInv' /\ FreshFollowed'
  BY DEF OldInv, FreshFollowed, listenVars, history
<1>6. BeforeInv'
  BY RAWAssumption DEF BeforeInv, TypeOK, history
<1>7. LiveInv'
  <2>1. \A i \in 1 .. Len(queue') : Removal(queue'[i]) => queue'[i].conn \notin Live
    BY <1>1 DEF LiveInv
  <2>2. \A i \in 1 .. Len(queue') : Removal(queue[i])' => queue'[i].conn \notin Live'
    BY <2>1 DEF Removal, RemovesOn
  <2> QED BY <2>2 DEF LiveInv, listenVars
<1> QED BY <1>2, <1>3, <1>4, <1>5, <1>6, <1>7

\* The types of the hosts' variables, as the steps need them.
LEMMA HostTypes ==
    ASSUME TypeOK
    PROVE  /\ client \in [Conns -> 0 .. MaxInc] /\ server \in [Conns -> 0 .. MaxInc]
           /\ opened \in [Conns -> 0 .. MaxInc] /\ budget \in [Conns -> 0 .. MaxData]
           /\ \A c \in Conns : client[c] \in {0, server[c]} /\ server[c] <= opened[c]
           /\ MaxInc \in Nat /\ MaxInc > 0 /\ MaxData \in Nat
BY RAWAssumption DEF TypeOK

\* A client that connects has no connection from before the capture, and the
\* one it gets is not from before it.
LEMMA ConnectStep == ASSUME IndInv, NEW c \in Conns, Connect(c) PROVE IndInv'
<1> DEFINE n == opened[c] + 1
<1> USE HostTypes DEF IndInv
<1>1. /\ client[c] = 0 /\ opened[c] < MaxInc /\ capture = "on"
      /\ UNCHANGED <<budget, listenVars, connSet, capture, waiting, history>>
  BY NoGapAssumption DEF Connect
<1>2. c \notin Live /\ n \in 1 .. MaxInc /\ <<c, n>> \notin before
  BY <1>1 DEF Live, BeforeInv
<1>3. SYN(c, n) \in Packet /\ ACK(c, n) \in Packet /\ RST(c, n) \in Packet
      /\ ~ Removal(ACK(c, n)) /\ ~ Removal(RST(c, n)) /\ SYN(c, n).conn = c
  BY <1>2, Packets
<1>4. CASE /\ server[c] = 0
           /\ opened' = [opened EXCEPT ![c] = n]
           /\ client' = [client EXCEPT ![c] = n]
           /\ server' = [server EXCEPT ![c] = n]
           /\ Capture(<<SYN(c, n), ACK(c, n)>>)
  <2> DEFINE ps == <<SYN(c, n), ACK(c, n)>>
  <2>1. ps \in Seq(Packet) /\ \A j \in 1 .. Len(ps) : Removal(ps[j]) => ps[j].conn \notin Live
    BY <1>2, <1>3
  <2>2. Live' \subseteq Live
    BY <1>1, <1>2, <1>4 DEF Live, history
  <2>3. /\ client' \in [Conns -> 0 .. MaxInc] /\ server' \in [Conns -> 0 .. MaxInc]
        /\ opened' \in [Conns -> 0 .. MaxInc] /\ budget' \in [Conns -> 0 .. MaxData]
        /\ \A d \in Conns : client'[d] \in {0, server'[d]} /\ server'[d] <= opened'[d]
        /\ \A d \in Conns : opened[d] <= opened'[d]
    BY <1>1, <1>2, <1>4
  <2> HIDE DEF ps
  <2> QED BY <1>1, <1>4, <2>1, <2>2, <2>3, HostStep DEF ps
<1>5. CASE /\ server[c] # 0
           /\ server' = [server EXCEPT ![c] = 0]
           /\ Capture(<<SYN(c, n), RST(c, n)>>)
           /\ UNCHANGED <<client, opened>>
  <2> DEFINE ps == <<SYN(c, n), RST(c, n)>>
  <2>1. ps \in Seq(Packet) /\ \A j \in 1 .. Len(ps) : Removal(ps[j]) => ps[j].conn \notin Live
    BY <1>2, <1>3
  <2>2. Live' \subseteq Live
    BY <1>1, <1>5 DEF Live, history
  <2>3. /\ client' \in [Conns -> 0 .. MaxInc] /\ server' \in [Conns -> 0 .. MaxInc]
        /\ opened' \in [Conns -> 0 .. MaxInc] /\ budget' \in [Conns -> 0 .. MaxData]
        /\ \A d \in Conns : client'[d] \in {0, server'[d]} /\ server'[d] <= opened'[d]
        /\ \A d \in Conns : opened[d] <= opened'[d]
    BY <1>1, <1>5
  <2> HIDE DEF ps
  <2> QED BY <1>1, <1>5, <2>1, <2>2, <2>3, HostStep DEF ps
<1> QED BY <1>4, <1>5 DEF Connect

\* Data is no cause of a removal.
LEMMA SendDataStep == ASSUME IndInv, NEW c \in Conns, SendData(c) PROVE IndInv'
<1> DEFINE ps == <<ACK(c, client[c])>>
<1> USE HostTypes DEF IndInv
<1>1. ps \in Seq(Packet) /\ \A j \in 1 .. Len(ps) : ~ Removal(ps[j])
  <2>1. ACK(c, client[c]) \in Packet /\ ~ Removal(ACK(c, client[c]))
    BY Packets
  <2> QED BY <2>1
<1>2. /\ UNCHANGED <<client, server, opened, listenVars, connSet, capture, waiting, history>>
      /\ Capture(ps) /\ budget' \in [Conns -> 0 .. MaxData]
  BY DEF SendData
<1>3. Live' \subseteq Live
  BY <1>2 DEF Live, history
<1>4. /\ \A d \in Conns : client'[d] \in {0, server'[d]} /\ server'[d] <= opened'[d]
      /\ \A d \in Conns : opened[d] <= opened'[d]
      /\ capture # "on" => \A d \in Conns : server'[d] # 0 => d \in Old
  BY <1>2 DEF StartInv
<1> HIDE DEF ps
<1> QED BY <1>1, <1>2, <1>3, <1>4, HostStep

\* Nor is a FIN; the connection is no longer live.
LEMMA DisconnectStep == ASSUME IndInv, NEW c \in Conns, Disconnect(c) PROVE IndInv'
<1> DEFINE ps == <<FIN(c, client[c])>>
<1> USE HostTypes DEF IndInv
<1>1. ps \in Seq(Packet) /\ \A j \in 1 .. Len(ps) : ~ Removal(ps[j])
  <2>1. FIN(c, client[c]) \in Packet /\ ~ Removal(FIN(c, client[c]))
    BY Packets
  <2> QED BY <2>1
<1>2. /\ client' = [client EXCEPT ![c] = 0] /\ server' = [server EXCEPT ![c] = 0]
      /\ UNCHANGED <<opened, budget, listenVars, connSet, capture, waiting, history>>
      /\ Capture(ps)
  BY DEF Disconnect
<1>3. Live' \subseteq Live
  BY <1>2 DEF Live, history
<1>4. /\ client' \in [Conns -> 0 .. MaxInc] /\ server' \in [Conns -> 0 .. MaxInc]
      /\ \A d \in Conns : client'[d] \in {0, server'[d]} /\ server'[d] <= opened'[d]
      /\ \A d \in Conns : opened[d] <= opened'[d]
      /\ capture # "on" => \A d \in Conns : server'[d] # 0 => d \in Old
  BY <1>2 DEF StartInv
<1> HIDE DEF ps
<1> QED BY <1>1, <1>2, <1>3, <1>4, HostStep

\* What the server's kernel notices is over at the client's side already.
LEMMA NoticeStep == ASSUME IndInv, NEW c \in Conns, Notice(c) PROVE IndInv'
<1> DEFINE ps == <<RST(c, server[c])>>
<1> USE HostTypes DEF IndInv
<1>1. ps \in Seq(Packet) /\ \A j \in 1 .. Len(ps) : ~ Removal(ps[j])
  <2>1. RST(c, server[c]) \in Packet /\ ~ Removal(RST(c, server[c]))
    BY Packets
  <2> QED BY <2>1
<1>2. /\ server' = [server EXCEPT ![c] = 0] /\ client[c] = 0
      /\ UNCHANGED <<client, opened, budget, listenVars, connSet, capture, waiting, history>>
      /\ Capture(ps)
  BY DEF Notice
<1>3. Live' \subseteq Live
  BY <1>2 DEF Live, history
<1>4. /\ server' \in [Conns -> 0 .. MaxInc]
      /\ \A d \in Conns : client'[d] \in {0, server'[d]} /\ server'[d] <= opened'[d]
      /\ \A d \in Conns : opened[d] <= opened'[d]
      /\ capture # "on" => \A d \in Conns : server'[d] # 0 => d \in Old
  BY <1>2 DEF StartInv
<1> HIDE DEF ps
<1> QED BY <1>1, <1>2, <1>3, <1>4, HostStep
-----------------------------------------------------------------------------
(* Listen.                                                                 *)

\* The live connections are among those the kernel lists.
LEMMA LiveListed == ASSUME TypeOK PROVE Live \subseteq Established /\ Established \subseteq Conns
BY HostTypes DEF Live, Established

\* A step of Listen that captures nothing: what is left to show is the part of
\* the invariant about Listen's own variables.
LEMMA QuietStep ==
    ASSUME IndInv, UNCHANGED <<waiting, hostVars, queue, history>>,
           TypeOK', OldInv', capture' = capture \/ (pc = "start" /\ capture' = "starting"),
           pc' \in {"list", "start"} => pc' = "start" /\ pc = "list" /\ capture' = capture,
           pc' # "list" => Live \subseteq connSet',
           pc' \in {"intersection", "nested"} => Live \subseteq listed',
           pc' \in {"unlock", "assign"} => Live \subseteq result',
           pc' = "done" => connSet' = {}
    PROVE  IndInv'
<1> USE DEF IndInv
<1>1. Live' = Live
  BY DEF Live, hostVars, history, StartInv
<1>2. StartInv'
  BY DEF StartInv, hostVars, history
<1>3. WaitInv'
  BY DEF WaitInv, Removal, RemovesOn
<1>4. FreshFollowed' /\ BeforeInv'
  BY DEF FreshFollowed, BeforeInv, hostVars, history
<1>5. LiveInv'
  BY <1>1 DEF LiveInv, Removal, RemovesOn
<1> QED BY <1>2, <1>3, <1>4, <1>5

\* Each step of Listen that captures nothing.
LEMMA ListenQuiet ==
    ASSUME IndInv,
           \/ ListHistory \/ StartListener \/ Size \/ ListAgain \/ IntersectionLock
           \/ IntersectionCollect \/ IntersectionReturn \/ ToArray
    PROVE  IndInv'
<1> USE LiveListed DEF IndInv
<1>1. CASE ListHistory
  <2> USE <1>1 DEF ListHistory
  <2>1. TypeOK'
    BY DEF TypeOK, AddAll, hostVars
  <2>2. OldInv'
    BY DEF OldInv, StartInv, Established, AddAll
  <2> QED BY <2>1, <2>2, QuietStep DEF AddAll
<1>2. CASE StartListener
  <2> USE <1>2 DEF StartListener
  <2>1. TypeOK'
    BY DEF TypeOK, hostVars
  <2>2. OldInv'
    BY DEF OldInv
  <2> QED BY <2>1, <2>2, QuietStep DEF LiveInv
<1>3. CASE Size
  <2> USE <1>3 DEF Size
  <2>1. TypeOK'
    BY DEF TypeOK, hostVars
  <2>2. OldInv'
    BY DEF OldInv
  <2> QED BY <2>1, <2>2, QuietStep DEF LiveInv
<1>4. CASE ListAgain
  <2> USE <1>4 DEF ListAgain, AddAll
  <2>1. TypeOK'
    BY DEF TypeOK, hostVars
  <2>2. OldInv'
    BY DEF OldInv
  <2> QED BY <2>1, <2>2, QuietStep DEF LiveInv
<1>5. CASE IntersectionLock
  <2> USE <1>5 DEF IntersectionLock
  <2>1. TypeOK'
    BY DEF TypeOK, hostVars
  <2>2. OldInv'
    BY DEF OldInv
  <2> QED BY <2>1, <2>2, QuietStep DEF LiveInv
<1>6. CASE IntersectionCollect
  <2> USE <1>6 DEF IntersectionCollect, Intersection
  <2>1. TypeOK'
    BY DEF TypeOK, hostVars
  <2>2. OldInv'
    BY DEF OldInv
  <2> QED BY <2>1, <2>2, QuietStep DEF LiveInv
<1>7. CASE IntersectionReturn
  <2> USE <1>7 DEF IntersectionReturn
  <2>1. TypeOK'
    BY DEF TypeOK, hostVars
  <2>2. OldInv'
    BY DEF OldInv
  <2> QED BY <2>1, <2>2, QuietStep DEF LiveInv
<1>8. CASE ToArray
  <2> USE <1>8 DEF ToArray
  <2>1. TypeOK'
    BY DEF TypeOK, hostVars
  <2>2. OldInv'
    BY DEF OldInv
  <2> QED BY <2>1, <2>2, QuietStep DEF LiveInv
<1> QED BY <1>1, <1>2, <1>3, <1>4, <1>5, <1>6, <1>7, <1>8

\* The new set holds every live connection, as the one it replaces did.  A
\* removal that waits for the lock of the old set goes on waiting.
LEMMA AssignStep == ASSUME IndInv, Assign PROVE IndInv'
<1> USE DEF IndInv, Assign
<1>1. TypeOK'
  BY DEF TypeOK, hostVars
<1>2. Live' = Live
  BY DEF Live, hostVars, history
<1>3. StartInv' /\ OldInv'
  BY DEF StartInv, OldInv, hostVars, history
<1>4. WaitInv'
  BY DEF WaitInv, Removal, RemovesOn
<1>5. FreshFollowed' /\ BeforeInv'
  BY DEF FreshFollowed, BeforeInv, hostVars, history
<1>6. LiveInv'
  BY <1>2 DEF LiveInv, Removal, RemovesOn
<1> QED BY <1>1, <1>3, <1>4, <1>5, <1>6

\* A probe and its answer are no cause of a removal.
LEMMA SendSYNStep == ASSUME IndInv, SendSYN PROVE IndInv'
<1> USE HostTypes DEF IndInv
<1>1. CASE \E c \in todo : /\ todo' = todo \ {c}
                           /\ Capture(<<Probe(c), Answer(c)>>)
                           /\ UNCHANGED pc
  <2>1. PICK c \in todo : todo' = todo \ {c} /\ Capture(<<Probe(c), Answer(c)>>)
    BY <1>1
  <2> DEFINE ps == <<Probe(c), Answer(c)>>
  <2>2. c \in Conns
    BY DEF TypeOK
  <2>3. ps \in Seq(Packet) /\ \A j \in 1 .. Len(ps) : ~ Removal(ps[j])
    <3>1. Probe(c) \in Packet /\ Answer(c) \in Packet
          /\ ~ Removal(Probe(c)) /\ ~ Removal(Answer(c))
      BY <2>2, Packets DEF Answer
    <3> QED BY <3>1
  <2>4. Capture(ps) /\ todo' \subseteq todo
        /\ UNCHANGED <<pc, listed, result, connSet, capture, waiting, hostVars, history>>
    BY <1>1, <2>1 DEF SendSYN
  <2> HIDE DEF ps
  <2>5. /\ queue' \in Seq(Packet) /\ Len(queue') <= QueueCap
        /\ queue # <<>> => queue' # <<>> /\ queue'[1] = queue[1]
        /\ \A i \in 1 .. Len(queue') :
              \/ i \in 1 .. Len(queue) /\ queue'[i] = queue[i]
              \/ \E j \in 1 .. Len(ps) : queue'[i] = ps[j]
        /\ capture # "on" => queue' = <<>>
    BY <2>3, <2>4, Captured
  <2>6. WaitInv'
    BY <2>4, <2>5 DEF WaitInv, Removal, RemovesOn
  <2>7. TypeOK'
    <3>1. waiting' # "none" => "SYN" \in Head(queue').flags
      BY <2>5, <2>6 DEF WaitInv, Removal, RemovesOn
    <3> QED BY <2>4, <2>5, <3>1 DEF TypeOK, hostVars
  <2>8. Live' = Live
    BY <2>4 DEF Live, hostVars, history
  <2>9. StartInv' /\ OldInv' /\ FreshFollowed' /\ BeforeInv'
    BY <2>4, <2>5 DEF StartInv, OldInv, FreshFollowed, BeforeInv, hostVars, history
  <2>10. LiveInv'
    <3>1. \A i \in 1 .. Len(queue') : Removal(queue'[i]) => queue'[i].conn \notin Live'
      BY <2>3, <2>5, <2>8 DEF LiveInv
    <3> QED BY <2>4, <2>8, <3>1 DEF LiveInv, Removal, RemovesOn
  <2> QED BY <2>6, <2>7, <2>9, <2>10
<1>2. CASE todo = {} /\ pc' = "size" /\ UNCHANGED <<todo, queue>>
  <2> USE <1>2 DEF SendSYN
  <2>1. TypeOK'
    BY DEF TypeOK, hostVars
  <2>2. OldInv'
    BY DEF OldInv
  <2> QED BY <2>1, <2>2, QuietStep DEF LiveInv
<1> QED BY <1>1, <1>2 DEF SendSYN
-----------------------------------------------------------------------------
(* The device listener.                                                    *)

\* When the capture goes on, what is in before is exactly what is live.
LEMMA OpenLiveStep == ASSUME IndInv, OpenLive PROVE IndInv'
<1> USE HostTypes DEF IndInv, OpenLive
<1>1. TypeOK'
  BY DEF TypeOK, listenVars, hostVars
<1>2. Live' = Live
  BY DEF Live, hostVars
<1>3. StartInv' /\ OldInv' /\ FreshFollowed'
  BY DEF StartInv, OldInv, FreshFollowed, listenVars, hostVars
<1>4. WaitInv'
  BY DEF WaitInv, Removal, RemovesOn
<1>5. BeforeInv'
  <2>1. ASSUME NEW c \in Conns, client[c] # 0
        PROVE  client[c] \in 1 .. opened'[c]
    BY <2>1 DEF hostVars
  <2>2. ASSUME NEW b \in before'
        PROVE  \E c \in Conns : client[c] # 0 /\ b = <<c, client[c]>>
    OBVIOUS
  <2>3. ASSUME NEW b \in before'
        PROVE  /\ b = <<b[1], b[2]>>
               /\ b[1] \in Conns /\ b[2] \in 1 .. opened'[b[1]]
    BY <2>1, <2>2
  <2> QED BY <2>3 DEF BeforeInv
<1>6. LiveInv'
  BY <1>2 DEF LiveInv, Removal, RemovesOn, listenVars
<1> QED BY <1>1, <1>3, <1>4, <1>5, <1>6

\* Handling a packet ends a connection, withholds one of Old, or starts a
\* removal, which by LiveInv is not of a live connection.
LEMMA HandlePacketStep == ASSUME IndInv, HandlePacket PROVE IndInv'
<1> DEFINE p == Head(queue)
<1> USE HostTypes DEF IndInv
<1>1. /\ capture = "on" /\ waiting = "none" /\ queue # <<>>
      /\ UNCHANGED <<server, opened, budget, listenVars, connSet, capture, before>>
  BY DEF HandlePacket
<1>2. p = queue[1] /\ p \in Packet /\ p.conn \in Conns /\ 1 \in 1 .. Len(queue)
  BY <1>1, HeadPacket DEF Packet
<1>3. /\ \/ queue' = Tail(queue) /\ waiting' = "none"
         \/ queue' = queue /\ waiting' = "cur" /\ Removal(p)
      /\ \/ client' = client
         \/ client' = [client EXCEPT ![p.conn] = IF @ = p.inc THEN 0 ELSE @]
      /\ withheld' \subseteq withheld \cup {c \in Conns : c \in connSet}
  <2>1. CASE p.dir = "in" /\ Has(connSet, p.conn)
    <3>1. Withhold(p)
      BY <2>1 DEF HandlePacket
    <3> QED BY <1>1, <1>2, <2>1, <3>1 DEF Withhold, SendRST, Removal, Has
  <2>2. CASE ~ (p.dir = "in" /\ Has(connSet, p.conn))
    <3>1. HandOn(p)
      BY <2>2 DEF HandlePacket
    <3> QED BY <1>1, <3>1 DEF HandOn
  <2> QED BY <2>1, <2>2
<1> HIDE DEF p
<1>4. /\ client' \in [Conns -> 0 .. MaxInc]
      /\ \A c \in Conns : client'[c] \in {0, client[c]}
  <2>1. CASE client' = client
    BY <2>1
  <2>2. CASE client' = [client EXCEPT ![p.conn] = IF @ = p.inc THEN 0 ELSE @]
    BY <1>2, <2>2
  <2> QED BY <1>3, <2>1, <2>2
<1>5. /\ queue' \in Seq(Packet) /\ Len(queue') <= QueueCap
      /\ \A i \in 1 .. Len(queue') : \E k \in 1 .. Len(queue) : queue'[i] = queue[k]
  <2>1. CASE queue' = Tail(queue)
    BY <1>1, <2>1, Taken
  <2>2. CASE queue' = queue
    BY <2>2 DEF TypeOK
  <2> QED BY <1>3, <2>1, <2>2
<1>6. WaitInv'
  BY <1>1, <1>2, <1>3 DEF WaitInv, Removal, RemovesOn
<1>7. TypeOK'
  <2>1. waiting' # "none" => "SYN" \in Head(queue').flags
    BY <1>1, <1>3 DEF Removal, RemovesOn, p
  <2>2. \A c \in Conns : client'[c] \in {0, server'[c]} /\ server'[c] <= opened'[c]
    BY <1>1, <1>4
  <2> QED BY <1>1, <1>3, <1>4, <1>5, <2>1, <2>2 DEF TypeOK, listenVars
<1>8. Live' \subseteq Live
  BY <1>1, <1>4 DEF Live
<1>9. StartInv' /\ OldInv' /\ BeforeInv'
  BY <1>1 DEF StartInv, OldInv, BeforeInv, listenVars
<1>10. FreshFollowed'
  BY <1>1, <1>3 DEF FreshFollowed, OldInv
<1>11. LiveInv'
  <2>1. \A i \in 1 .. Len(queue') : Removal(queue'[i]) => queue'[i].conn \notin Live'
    BY <1>5, <1>8 DEF LiveInv
  <2> QED BY <1>1, <1>8, <2>1 DEF LiveInv, Removal, RemovesOn, listenVars
<1> QED BY <1>6, <1>7, <1>9, <1>10, <1>11

\* A removal takes no live connection out of connSet.
LEMMA RemoveStep == ASSUME IndInv, Remove PROVE IndInv'
<1> USE HostTypes DEF IndInv
<1>1. /\ waiting # "none" /\ waiting' = "none" /\ queue # <<>> /\ queue' = Tail(queue)
      /\ UNCHANGED <<listenVars, capture, hostVars, history>>
  BY DEF Remove, WaitInv
<1>2. Head(queue) = queue[1] /\ Removal(queue[1]) /\ 1 \in 1 .. Len(queue)
  BY <1>1, HeadPacket DEF WaitInv
<1>3. connSet' \subseteq connSet /\ connSet \ {queue[1].conn} \subseteq connSet'
  BY <1>2 DEF Remove
<1>4. /\ queue' \in Seq(Packet) /\ Len(queue') <= QueueCap
      /\ \A i \in 1 .. Len(queue') : i + 1 \in 1 .. Len(queue) /\ queue'[i] = queue[i + 1]
  BY <1>1, Taken
<1>5. TypeOK'
  BY <1>1, <1>3, <1>4 DEF TypeOK, listenVars, hostVars
<1>6. StartInv' /\ WaitInv' /\ OldInv' /\ FreshFollowed' /\ BeforeInv'
  BY <1>1, <1>3 DEF StartInv, WaitInv, OldInv, FreshFollowed, BeforeInv, listenVars,
                    hostVars, history
<1>7. Live' = Live
  BY <1>1 DEF Live, hostVars, history
<1>8. queue[1].conn \notin Live
  BY <1>2 DEF LiveInv
<1>9. LiveInv'
  <2>1. \A i \in 1 .. Len(queue') : Removal(queue'[i]) => queue'[i].conn \notin Live'
    BY <1>4, <1>7 DEF LiveInv
  <2>2. pc' # "list" => Live' \subseteq connSet'
    BY <1>1, <1>3, <1>7, <1>8 DEF LiveInv, listenVars
  <2> QED BY <1>1, <1>3, <1>7, <2>1, <2>2 DEF LiveInv, Removal, RemovesOn, listenVars
<1> QED BY <1>5, <1>6, <1>9
-----------------------------------------------------------------------------
(* The theorems.                                                           *)

\* The invariant holds initially.
LEMMA InitInv == ASSUME Init PROVE IndInv
<1> USE RAWAssumption DEF Init
<1>1. client \in [Conns -> 0 .. MaxInc] /\ \A c \in Conns : client[c] # 0 => c \in Old
  OBVIOUS
<1>2. TypeOK
  BY <1>1 DEF TypeOK
<1>3. StartInv /\ WaitInv /\ OldInv /\ FreshFollowed /\ BeforeInv
  BY <1>1 DEF StartInv, WaitInv, OldInv, FreshFollowed, BeforeInv
<1>4. LiveInv
  BY DEF LiveInv
<1> QED BY <1>2, <1>3, <1>4 DEF IndInv

\* And is preserved by every step.
LEMMA NextInv == ASSUME IndInv, [Next]_vars PROVE IndInv'
<1>1. ASSUME NEW c \in Conns, Connect(c) \/ SendData(c) \/ Disconnect(c) \/ Notice(c)
      PROVE  IndInv'
  BY <1>1, ConnectStep, SendDataStep, DisconnectStep, NoticeStep
<1>2. CASE Listen
  BY <1>2, ListenQuiet, AssignStep, SendSYNStep DEF Listen
<1>3. CASE Device
  BY <1>3, OpenLiveStep, HandlePacketStep, RemoveStep DEF Device
<1>4. CASE UNCHANGED vars
  BY <1>4 DEF vars, listenVars, hostVars, history, IndInv, TypeOK, StartInv, WaitInv,
              OldInv, FreshFollowed, BeforeInv, LiveInv, Live, Removal, RemovesOn
<1> QED BY <1>1, <1>2, <1>3, <1>4 DEF Next

\* The inductive invariant of the capture's start.
THEOREM Invariant == Spec => []IndInv
<1>1. Init => IndInv
  BY InitInv
<1>2. IndInv /\ [Next]_vars => IndInv'
  BY NextInv
<1> QED BY <1>1, <1>2, PTL DEF Spec

\* Every variable keeps its type, and Remove is only waited for with its SYN at
\* the head of the queue (input_raw.go:95-97).
THEOREM ListenTypes == Spec => []TypeOK
<1>1. IndInv => TypeOK
  BY DEF IndInv
<1> QED BY <1>1, Invariant, PTL

\* No packet of a connection that is not a history connection is withheld,
\* whatever Listen lists, intersects and replaces meanwhile (input_raw.go:73).
THEOREM FreshConnections == Spec => []FreshFollowed
<1>1. IndInv => FreshFollowed
  BY DEF IndInv
<1> QED BY <1>1, Invariant, PTL

\* When Listen reports that all history connections have exited, they have
\* (input_raw.go:239): none is dropped from connSet while its client has it.
THEOREM HistoryGone == Spec => []DoneMeansGone
<1>1. ASSUME IndInv, pc = "done", NEW b \in before PROVE client[b[1]] # b[2]
  <2>1. b[1] \in Conns /\ b[2] # 0 /\ b = <<b[1], b[2]>>
    BY <1>1, HostTypes DEF IndInv, BeforeInv
  <2>2. b[1] \notin Live
    BY <1>1 DEF IndInv, LiveInv
  <2> QED BY <1>1, <2>1, <2>2 DEF Live
<1>2. IndInv => DoneMeansGone
  BY <1>1 DEF DoneMeansGone
<1> QED BY <1>2, Invariant, PTL
=============================================================================
