----------------------------- MODULE RAWListen -----------------------------
(***************************************************************************)
(* RAWInput (plugin/input_raw.go): the connections that exist when the     *)
(* capture starts cannot be decoded, since their HPACK tables are unknown. *)
(* Listen lists them into connSet (http2/conn_set.go) and, every three     *)
(* seconds, provokes a packet of each; the device listener answers their   *)
(* packets with RST and hands the packets of all others to the processor.  *)
(* The two goroutines share the pointer connSet and the lock of the set.   *)
(*                                                                         *)
(* A connection is known by its addresses; the incarnations 1, 2, ... of   *)
(* the same addresses are told apart by the properties only.               *)
(***************************************************************************)
EXTENDS Integers, Sequences

CONSTANTS Conns,      \* the DirectConns, client to server
          Old,        \* those connected before the program starts
          MaxInc,     \* incarnations of each
          MaxData,    \* packets a client sends, per DirectConn
          QueueCap,   \* capacity of the capture's buffer
          Reuse,      \* a client may come back with addresses of Old
          GapOpens    \* clients connect before the capture is on

ASSUME RAWAssumption ==
    /\ Old \subseteq Conns
    /\ MaxInc \in Nat \ {0} /\ MaxData \in Nat
    /\ QueueCap \in Nat /\ QueueCap >= 2
    /\ Reuse \in BOOLEAN /\ GapOpens \in BOOLEAN

\* The two goroutines and what they share.
VARIABLES pc,        \* Listen, where it is
          listed,    \* Listen, newSet
          result,    \* Listen, what Intersection is about to return
          todo,      \* Listen, connections still to be probed
          connSet,   \* the content of the set the pointer connSet refers to
          capture,   \* the device listener: "off", "starting" or "on"
          waiting    \* its Remove: "none", or waiting for the lock of the
                     \* set that is connSet ("cur") or no longer is ("stale")

\* The clients, the server's kernel and the capture.
VARIABLES client,    \* DirectConn -> incarnation the client has open, 0 for none
          server,    \* DirectConn -> incarnation ESTABLISHED at the server
          opened,    \* DirectConn -> incarnations so far
          budget,    \* DirectConn -> data packets its client may still send
          queue      \* packets captured and not handled yet

\* History variables.
VARIABLES before,    \* the connections open when the capture went on
          followed,  \* the <<DirectConn, incarnation>> the processor got the SYN of
          withheld   \* DirectConns of incoming packets it did not get

listenVars == <<pc, listed, result, todo>>
hostVars == <<client, server, opened, budget>>
history == <<before, followed, withheld>>
vars == <<listenVars, connSet, capture, waiting, hostVars, queue, history>>
-----------------------------------------------------------------------------
(* Packets, with the flags the listener looks at.                          *)

In(c, n, flags) == [dir |-> "in", conn |-> c, inc |-> n, flags |-> flags]
SYN(c, n) == In(c, n, {"SYN"})
ACK(c, n) == In(c, n, {"ACK"})
FIN(c, n) == In(c, n, {"FIN", "ACK"})
RST(c, n) == In(c, n, {"RST"})

\* SendSYN's packet, as it is captured, and the client's answer: a challenge
\* ACK or, from a client without the connection, a reset.
Probe(c) == [dir |-> "out", conn |-> c, inc |-> 0, flags |-> {"SYN"}]
Answer(c) == IF client[c] # 0 THEN ACK(c, client[c]) ELSE In(c, 0, {"RST", "ACK"})

\* The capture loses what does not fit into its buffer.
Capture(ps) == queue' = IF capture = "on" /\ Len(queue) + Len(ps) <= QueueCap
                        THEN queue \o ps ELSE queue

\* Not so the packets clients send of their own accord.
Room == capture = "on" => Len(queue) + 2 <= QueueCap

Init == /\ pc = "list"
        /\ listed = {} /\ result = {} /\ todo = {}
        /\ connSet = {}
        /\ capture = "off"
        /\ waiting = "none"
        /\ client = [c \in Conns |-> IF c \in Old THEN 1 ELSE 0]
        /\ server = client
        /\ opened = client
        /\ budget = [c \in Conns |-> MaxData]
        /\ queue = <<>>
        /\ before = {} /\ followed = {} /\ withheld = {}
-----------------------------------------------------------------------------
(* Clients and kernel.                                                     *)

\* A client connects.  Where the server's kernel still has the earlier
\* connection, the SYN only makes it find out, and the client has to try again.
Connect(c) == /\ client[c] = 0
              /\ opened[c] < MaxInc
              /\ capture # "on" => GapOpens
              /\ c \in Old => Reuse
              /\ Room
              /\ LET n == opened[c] + 1
                 IN  \/ /\ server[c] = 0
                        /\ opened' = [opened EXCEPT ![c] = n]
                        /\ client' = [client EXCEPT ![c] = n]
                        /\ server' = [server EXCEPT ![c] = n]
                        /\ Capture(<<SYN(c, n), ACK(c, n)>>)
                     \/ /\ server[c] # 0
                        /\ server' = [server EXCEPT ![c] = 0]
                        /\ Capture(<<SYN(c, n), RST(c, n)>>)
                        /\ UNCHANGED <<client, opened>>
              /\ UNCHANGED <<budget, listenVars, connSet, capture, waiting, history>>

\* The client sends data.
SendData(c) == /\ client[c] # 0
               /\ budget[c] > 0
               /\ Room
               /\ budget' = [budget EXCEPT ![c] = @ - 1]
               /\ Capture(<<ACK(c, client[c])>>)
               /\ UNCHANGED <<client, server, opened, listenVars, connSet, capture,
                              waiting, history>>

\* The connection is closed by its ends.
Disconnect(c) == /\ client[c] # 0
                 /\ Room
                 /\ client' = [client EXCEPT ![c] = 0]
                 /\ server' = [server EXCEPT ![c] = 0]
                 /\ Capture(<<FIN(c, client[c])>>)
                 /\ UNCHANGED <<opened, budget, listenVars, connSet, capture, waiting,
                                history>>

\* Keepalive, or the next data it sends, tells the server's kernel that the
\* client has no such connection any more.
Notice(c) == /\ server[c] # 0
             /\ client[c] = 0
             /\ server' = [server EXCEPT ![c] = 0]
             /\ Capture(<<RST(c, server[c])>>)
             /\ UNCHANGED <<client, opened, budget, listenVars, connSet, capture,
                            waiting, history>>
-----------------------------------------------------------------------------
(* RAWInput.Listen.                                                        *)

Established == {c \in Conns : server[c] # 0}

AddAll(set, cons) == set \cup cons

Has(set, c) == c \in set

\* listAllConns, connSet.AddAll.
ListHistory == /\ pc = "list"
               /\ connSet' = AddAll(connSet, Established)
               /\ pc' = "start"
               /\ UNCHANGED <<listed, result, todo, capture, waiting, hostVars, queue,
                              history>>

\* go listenerRun(listener).
StartListener == /\ pc = "start"
                 /\ capture' = "starting"
                 /\ pc' = "size"
                 /\ UNCHANGED <<listed, result, todo, connSet, waiting, hostVars, queue,
                                history>>

\* sync.RWMutex: a read lock is not given while a writer waits.
MayRLock == waiting # "cur"

\* for i.connSet.Size() > 0.
Size == /\ pc = "size"
        /\ MayRLock
        /\ pc' = IF connSet = {} THEN "done" ELSE "sleep"
        /\ UNCHANGED <<listed, result, todo, connSet, capture, waiting, hostVars, queue,
                       history>>

\* After three seconds: listAllConns, newSet.AddAll.
ListAgain == /\ pc = "sleep"
             /\ listed' = AddAll({}, Established)
             /\ pc' = "intersection"
             /\ UNCHANGED <<result, todo, connSet, capture, waiting, hostVars, queue,
                            history>>

\* ConnSet.Intersection takes the read lock ...
IntersectionLock == /\ pc = "intersection"
                    /\ MayRLock
                    /\ pc' = "nested"
                    /\ UNCHANGED <<listed, result, todo, connSet, capture, waiting,
                                   hostVars, queue, history>>

NewSetOnly(set, set2) == set2

Intersection(set, set2) == set \cap set2

\* ... and again in set.Size, before it collects the members of both ...
IntersectionCollect == /\ pc = "nested"
                       /\ MayRLock
                       /\ result' = Intersection(connSet, listed)
                       /\ listed' = {}
                       /\ pc' = "unlock"
                       /\ UNCHANGED <<todo, connSet, capture, waiting, hostVars,
                                      queue, history>>

\* ... and releases it when it returns.
IntersectionReturn == /\ pc = "unlock"
                      /\ pc' = "assign"
                      /\ UNCHANGED <<listed, result, todo, connSet, capture, waiting,
                                     hostVars, queue, history>>

ReadLocked == pc \in {"nested", "unlock"}

\* i.connSet = the result.
Assign == /\ pc = "assign"
          /\ connSet' = result
          /\ result' = {}
          /\ waiting' = IF waiting = "cur" THEN "stale" ELSE waiting
          /\ pc' = "array"
          /\ UNCHANGED <<listed, todo, capture, hostVars, queue, history>>

\* i.connSet.ToArray().
ToArray == /\ pc = "array"
           /\ MayRLock
           /\ todo' = connSet
           /\ pc' = "probe"
           /\ UNCHANGED <<listed, result, connSet, capture, waiting, hostVars, queue,
                          history>>

\* SendSYN for the next connection, or back to the loop's condition.
SendSYN == /\ pc = "probe"
           /\ \/ \E c \in todo : /\ todo' = todo \ {c}
                                 /\ Capture(<<Probe(c), Answer(c)>>)
                                 /\ UNCHANGED pc
              \/ /\ todo = {}
                 /\ pc' = "size"
                 /\ UNCHANGED <<todo, queue>>
           /\ UNCHANGED <<listed, result, connSet, capture, waiting, hostVars, history>>

Listen == \/ ListHistory \/ StartListener \/ Size \/ ListAgain
          \/ IntersectionLock \/ IntersectionCollect \/ IntersectionReturn
          \/ Assign \/ ToArray \/ SendSYN
-----------------------------------------------------------------------------
(* DeviceListener.listen.                                                  *)

\* pcap.OpenLive, SetBPFFilter.
OpenLive == /\ capture = "starting"
            /\ capture' = "on"
            /\ before' = {<<c, client[c]>> : c \in {d \in Conns : client[d] # 0}}
            /\ UNCHANGED <<listenVars, connSet, waiting, hostVars, queue, followed,
                           withheld>>

\* Here and above, an operator that no other definition uses is a faulty
\* variant of the one that follows it, for the mutation of the checks.
IgnoreACK(p) == /\ "ACK" \in p.flags
                /\ queue' = Tail(queue)
                /\ UNCHANGED <<client, waiting>>

\* RSTNum resets, for windows further and further on, one of which makes the
\* client drop the connection, if it still is the one of the packet.
SendRST(p) == /\ "ACK" \in p.flags
              /\ client' = [client EXCEPT ![p.conn] = IF @ = p.inc THEN 0 ELSE @]
              /\ queue' = Tail(queue)
              /\ UNCHANGED waiting

RemovesOnAny(p) == TRUE

\* Only a SYN says that a history connection is over.
RemovesOn(p) == "ACK" \notin p.flags /\ "SYN" \in p.flags

Withhold(p) == /\ \/ SendRST(p)
                  \/ /\ RemovesOn(p)
                     /\ waiting' = "cur"
                     /\ UNCHANGED <<client, queue>>
                  \/ /\ "ACK" \notin p.flags
                     /\ ~ RemovesOn(p)
                     /\ queue' = Tail(queue)
                     /\ UNCHANGED <<client, waiting>>
               /\ withheld' = withheld \cup {p.conn}
               /\ UNCHANGED followed

\* outputChan <- netPkg.
HandOn(p) == /\ queue' = Tail(queue)
             /\ followed' = IF p.dir = "in" /\ "SYN" \in p.flags
                           THEN followed \cup {<<p.conn, p.inc>>} ELSE followed
             /\ UNCHANGED <<client, waiting, withheld>>

\* The next packet.  connSet.Has takes a read lock, for which the only writer
\* would be this goroutine itself.
HandlePacket == /\ capture = "on"
                /\ waiting = "none"
                /\ queue # <<>>
                /\ LET p == Head(queue)
                   IN  IF p.dir = "in" /\ Has(connSet, p.conn) THEN Withhold(p) ELSE HandOn(p)
                /\ UNCHANGED <<server, opened, budget, listenVars, connSet, capture, before>>

\* connSet.Remove, once no reader holds the lock of that set.
Remove == /\ \/ /\ waiting = "cur"
                /\ ~ ReadLocked
                /\ connSet' = connSet \ {Head(queue).conn}
             \/ /\ waiting = "stale"
                /\ UNCHANGED connSet
          /\ waiting' = "none"
          /\ queue' = Tail(queue)
          /\ UNCHANGED <<listenVars, capture, hostVars, history>>

Device == OpenLive \/ HandlePacket \/ Remove

Next == \/ \E c \in Conns : Connect(c) \/ SendData(c) \/ Disconnect(c) \/ Notice(c)
        \/ Listen
        \/ Device

Spec == Init /\ [][Next]_vars

\* The goroutines are scheduled and keepalive goes on; nothing is assumed of
\* the clients.
FairSpec == /\ Spec
            /\ WF_vars(Listen)
            /\ WF_vars(Device)
            /\ \A c \in Conns : WF_vars(Notice(c))
-----------------------------------------------------------------------------
Packet == [dir : {"in", "out"}, conn : Conns, inc : 0 .. MaxInc,
           flags : SUBSET {"SYN", "ACK", "FIN", "RST"}]

\* The type of every variable; a client never has a connection open that the
\* server's kernel does not know, and Remove is waited for only with its SYN
\* at the head of the queue.
TypeOK == /\ pc \in {"list", "start", "size", "sleep", "intersection", "nested",
                     "unlock", "assign", "array", "probe", "done"}
          /\ connSet \cup listed \cup result \cup todo \subseteq Conns
          /\ capture \in {"off", "starting", "on"}
          /\ waiting \in {"none", "cur", "stale"}
          /\ client \in [Conns -> 0 .. MaxInc]
          /\ server \in [Conns -> 0 .. MaxInc]
          /\ opened \in [Conns -> 0 .. MaxInc]
          /\ budget \in [Conns -> 0 .. MaxData]
          /\ \A c \in Conns : client[c] \in {0, server[c]} /\ server[c] <= opened[c]
          /\ queue \in Seq(Packet) /\ Len(queue) <= QueueCap
          /\ waiting # "none" => "SYN" \in Head(queue).flags

\* A connection from addresses that were not in use at the start is followed
\* whole: none of its packets is withheld, whatever happens to the others.
FreshFollowed == withheld \subseteq Old

\* When Listen reports that all history connections have exited, no client
\* still uses a connection it opened before the capture was on.
DoneMeansGone == pc = "done" => \A b \in before : client[b[1]] # b[2]

NoneComesBack == \A i \in DOMAIN queue : LET p == queue[i] IN
                    ~ (p.dir = "in" /\ "SYN" \in p.flags /\ p.conn \in Old)

\* Every history connection is got rid of: Listen comes to its end, if no
\* client comes back with the addresses of one.
HistoryEnds == []NoneComesBack => <>(pc = "done")

\* The device listener gets the lock for a removal, and goes on.
RemoveEnds == (waiting # "none") ~> (waiting = "none")
=============================================================================
