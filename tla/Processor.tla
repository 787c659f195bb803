----------------------------- MODULE Processor -----------------------------
(***************************************************************************)
(* Processor (http2/processor.go) with its TCP state machine               *)
(* (http2/state_machine.go): one goroutine takes the captured packets one  *)
(* by one, follows the state of every TCP connection from the server's     *)
(* side, creates an Http2Conn when one is established, feeds it the        *)
(* payloads, and forgets it when it is closed.                             *)
(*                                                                         *)
(* The connections are known by their addresses only (DirectConn).  The    *)
(* same addresses are used again by later connections, the incarnations    *)
(* 1, 2, ... of the DirectConn.  A packet says which incarnation sent it   *)
(* so that properties can tell; the code cannot see it, except that        *)
(* sequence numbers of different incarnations are taken to be unrelated.   *)
(*                                                                         *)
(* A TCPBuffer is represented by stream positions instead of sequence      *)
(* numbers and delivers at once; module TCPBuffer has the details.         *)
(***************************************************************************)
EXTENDS Integers, Sequences, SequencesExt, FiniteSets

CONSTANTS Conns,          \* the DirectConns, client to server
          MaxInc,         \* incarnations of each
          MaxDups,        \* packets captured twice, per incarnation
          MaxWindowSize,
          Closings,       \* how connections may end, see Closing
          PrefaceAlone,   \* the preface is captured once, before other data
          GoAwayInTime    \* a GOAWAY is handled before the addresses of its
                          \* connection are used again

ASSUME ProcessorAssumption ==
    /\ MaxInc \in Nat /\ MaxDups \in Nat /\ MaxWindowSize \in Nat
    /\ Closings \subseteq {"client", "clientFast", "clientReset", "server", "serverReset"}
    /\ PrefaceAlone \in BOOLEAN /\ GoAwayInTime \in BOOLEAN

VARIABLES RecordResponse,  \* set once, from the command line
          ConnStates,      \* DirectConn -> TCP state, "none" without an entry
          ConnRepository,  \* DirectConn -> index in conns, 0 without an entry
          conns            \* every Http2Conn created so far

\* The network.
VARIABLES inc,     \* the incarnation of each DirectConn
          plan,    \* its packets still to be captured: bursts, in order,
                   \* each a set captured in any order
          seen,    \* its packets captured so far
          dups     \* how many were captured again

code == <<RecordResponse, ConnStates, ConnRepository, conns>>
net == <<inc, plan, seen, dups>>
vars == <<code, net>>
-----------------------------------------------------------------------------
(* Packets.  Position 0 of a direction is the first byte after the SYN.    *)

Packet(dir, flags, pos, len) ==
    [dir |-> dir, flags |-> flags, pos |-> pos, len |-> len, preface |-> FALSE]

Preface == [dir |-> "in", flags |-> {"ACK"}, pos |-> 0, len |-> 2, preface |-> TRUE]

InData == <<Packet("in", {"ACK"}, 2, 1), Packet("in", {"ACK"}, 3, 1)>>
OutData == <<Packet("out", {"ACK"}, 0, 1), Packet("out", {"ACK"}, 1, 1)>>

Control(dir, flags) == {Packet(dir, flags, 0, 0)}

Handshake == <<Control("in", {"SYN"}), Control("out", {"SYN", "ACK"}),
               Control("in", {"ACK"})>>

Data == LET d == ToSet(InData) \cup ToSet(OutData)
        IN  IF PrefaceAlone THEN <<{Preface}, d>> ELSE <<{Preface} \cup d>>

\* The ends of a TCP connection: the client closes first, with the server's
\* ACK of its own or together with its FIN, or resets the connection; or the
\* server does.
Closing(c) ==
    CASE c = "client" -> <<Control("in", {"FIN", "ACK"}), Control("out", {"ACK"}),
                           Control("out", {"FIN", "ACK"}), Control("in", {"ACK"})>>
      [] c = "clientFast" -> <<Control("in", {"FIN", "ACK"}),
                               Control("out", {"FIN", "ACK"}), Control("in", {"ACK"})>>
      [] c = "clientReset" -> <<Control("in", {"RST"})>>
      [] c = "server" -> <<Control("out", {"FIN", "ACK"}), Control("in", {"ACK"}),
                           Control("in", {"FIN", "ACK"}), Control("out", {"ACK"})>>
      [] c = "serverReset" -> <<Control("out", {"RST", "ACK"})>>
-----------------------------------------------------------------------------
(* The TCP state machine, seen from the server: InitTCPFSM.                *)

States == {"LISTEN", "SYN-RECEIVED-1", "SYN-RECEIVED-2", "ESTABLISHED",
           "CLOSE_WAIT", "LAST_ACK", "CLOSED"}

Transitions == {
    <<"LISTEN",         "RECEIVE_SYN",  "SYN-RECEIVED-1">>,
    <<"SYN-RECEIVED-1", "SEND_SYN_ACK", "SYN-RECEIVED-2">>,
    <<"SYN-RECEIVED-2", "RECEIVE_ACK",  "ESTABLISHED">>,
    <<"ESTABLISHED",    "RECEIVE_ACK",  "ESTABLISHED">>,
    <<"ESTABLISHED",    "SEND_ACK",     "ESTABLISHED">>,
    <<"SYN-RECEIVED-1", "RECEIVE_SYN",  "SYN-RECEIVED-1">>,
    <<"SYN-RECEIVED-2", "SEND_SYN_ACK", "SYN-RECEIVED-2">>,
    <<"LISTEN",         "SEND_ACK",     "LISTEN">>,
    <<"ESTABLISHED",    "RECEIVE_FIN",  "CLOSE_WAIT">>,
    <<"CLOSE_WAIT",     "SEND_ACK",     "CLOSE_WAIT">>,
    <<"CLOSE_WAIT",     "SEND_FIN",     "LAST_ACK">>,
    <<"LAST_ACK",       "RECEIVE_ACK",  "CLOSED">>,
    <<"ESTABLISHED",    "RECEIVE_RST",  "CLOSED">>,
    <<"LISTEN",         "RECEIVE_RST",  "CLOSED">>}

\* handleConnectionState: a packet with a payload is no event.
EventOf(p) ==
    IF p.len > 0 THEN "NONE"
    ELSE IF p.dir = "in"
    THEN IF "SYN" \in p.flags THEN "RECEIVE_SYN"
         ELSE IF "FIN" \in p.flags THEN "RECEIVE_FIN"
         ELSE IF "RST" \in p.flags THEN "RECEIVE_RST"
         ELSE IF "ACK" \in p.flags THEN "RECEIVE_ACK" ELSE "NONE"
    ELSE IF {"SYN", "ACK"} \subseteq p.flags THEN "SEND_SYN_ACK"
         ELSE IF "FIN" \in p.flags THEN "SEND_FIN"
         ELSE IF "ACK" \in p.flags THEN "SEND_ACK" ELSE "NONE"

\* StateMachine.Trigger: without a transition there is an error, which is
\* logged, and the state stays.
TriggerFrom(T, state, event) ==
    LET to == {t[3] : t \in {u \in T : u[1] = state /\ u[2] = event}}
    IN  IF to = {} THEN state ELSE CHOOSE x \in to : TRUE

\* Here and below, an operator that no other definition uses is a faulty
\* variant of the one that follows it, for the mutation of the checks.
TriggerNoReset(state, event) ==
    TriggerFrom({t \in Transitions : t[2] # "RECEIVE_RST"}, state, event)

TriggerNoLastAck(state, event) ==
    TriggerFrom({t \in Transitions : t[1] # "LAST_ACK"}, state, event)

TriggerMidway(state, event) ==
    TriggerFrom(Transitions \cup {<<"LISTEN", "RECEIVE_ACK", "ESTABLISHED">>}, state, event)

Trigger(state, event) == TriggerFrom(Transitions, state, event)
-----------------------------------------------------------------------------
(* The reassembly, on positions.                                           *)

Buffer(i, pos) == [inc |-> i, expected |-> pos, list |-> {}, got |-> <<>>]

SetExpectedSeq(b, i, pos) == [b EXCEPT !.inc = i, !.expected = pos]

\* The stored segments that continue the stream without a gap.
Run(b, list) == {p \in list : \A x \in b.expected .. p.pos :
                                 \E q \in list : x \in q.pos .. q.pos + q.len - 1}

DrainAlways(b, p) == Run(b, b.list \cup {p})

\* AddTCP drains the list only when the segment is the expected one.
Drained(b, p) == IF p.pos = b.expected THEN Run(b, b.list \cup {p}) ELSE {}

InOrder(ps) == CHOOSE s \in [1 .. Cardinality(ps) -> ps] :
                  \A m, n \in DOMAIN s : m < n => s[m].pos < s[n].pos

AcceptDuplicates(b, i, p) == TRUE

Accepts(b, i, p) == /\ i = b.inc
                    /\ p.pos \in b.expected .. b.expected + MaxWindowSize
                    /\ p \notin b.list

AddTCP(b, i, p) ==
    IF ~ Accepts(b, i, p) THEN b
    ELSE LET run == Drained(b, p)
             last == InOrder(run)[Cardinality(run)]
         IN  [b EXCEPT !.list = (@ \cup {p}) \ run,
                       !.got = @ \o [n \in 1 .. Cardinality(run) |->
                                        [inc |-> i, pkt |-> InOrder(run)[n]]],
                       !.expected = IF run = {} THEN @ ELSE last.pos + last.len]
-----------------------------------------------------------------------------
Init == /\ RecordResponse \in BOOLEAN
        /\ ConnStates = [c \in Conns |-> "none"]
        /\ ConnRepository = [c \in Conns |-> 0]
        /\ conns = <<>>
        /\ inc = [c \in Conns |-> 0]
        /\ plan = [c \in Conns |-> <<>>]
        /\ seen = [c \in Conns |-> {}]
        /\ dups = [c \in Conns |-> 0]

\* OnEnter ESTABLISHED, on the packet p that completed the handshake.
NewHttp2Conn(c, p) == [dc |-> c, inc |-> inc[c],
                       in |-> Buffer(inc[c], p.pos + 1),
                       out |-> Buffer(inc[c], 0),
                       left |-> FALSE]

PrefaceLengthForgotten(b, i, p) == IF p.preface THEN SetExpectedSeq(b, i, p.pos)
                                   ELSE AddTCP(b, i, p)

\* ProcessIncomingTCPPkg on the buffer of the connection.
ProcessIncoming(b, i, p) == IF p.preface THEN SetExpectedSeq(b, i, p.pos + p.len)
                            ELSE AddTCP(b, i, p)

KeepState(c) == ConnStates' = [ConnStates EXCEPT ![c] = "CLOSED"]

\* delete(p.ConnStates, ts.dc)
DropState(c) == ConnStates' = [ConnStates EXCEPT ![c] = "none"]

KeepConnection(c) == UNCHANGED ConnRepository

\* delete(p.ConnRepository, ts.dc)
DropConnection(c) == ConnRepository' = [ConnRepository EXCEPT ![c] = 0]

\* ProcessTCPPkg, the packet p without a payload.
ProcessControl(c, p) ==
    LET from == IF ConnStates[c] = "none" THEN "LISTEN" ELSE ConnStates[c]
        to == Trigger(from, EventOf(p))
    IN  \/ /\ to = "ESTABLISHED" /\ from # to
           /\ ConnStates' = [ConnStates EXCEPT ![c] = to]
           /\ conns' = Append(conns, NewHttp2Conn(c, p))
           /\ ConnRepository' = [ConnRepository EXCEPT ![c] = Len(conns) + 1]
        \/ /\ to = "CLOSED"
           /\ DropState(c)
           /\ DropConnection(c)
           /\ UNCHANGED conns
        \/ /\ to # "CLOSED"
           /\ to = "ESTABLISHED" => from = to
           /\ ConnStates' = [ConnStates EXCEPT ![c] = to]
           /\ UNCHANGED <<conns, ConnRepository>>

\* ProcessTCPPkg, the packet p with a payload.
ProcessData(c, p) ==
    LET h == ConnRepository[c]
    IN  /\ ConnStates' = [ConnStates EXCEPT ![c] = IF @ = "none" THEN "LISTEN" ELSE @]
        /\ IF ConnStates[c] = "ESTABLISHED" /\ h # 0
           THEN \/ /\ p.dir = "in"
                   /\ conns' = [conns EXCEPT ![h].in = ProcessIncoming(@, inc[c], p)]
                \/ /\ p.dir = "out"
                   /\ conns' = IF RecordResponse
                               THEN [conns EXCEPT ![h].out = AddTCP(@, inc[c], p)]
                               ELSE conns
           ELSE UNCHANGED conns
        /\ UNCHANGED ConnRepository

ProcessTCPPkg(c, p) == /\ \/ p.len = 0 /\ ProcessControl(c, p)
                          \/ p.len > 0 /\ ProcessData(c, p)
                       /\ UNCHANGED RecordResponse

\* processFrameGoAway, in the goroutine DealInput or DealOutput of an Http2Conn:
\* any data that was delivered, of either side, may have held a GOAWAY, which is
\* read at any time after.
GoAway(h) == /\ conns[h].in.got # <<>> \/ conns[h].out.got # <<>>
             /\ GoAwayInTime => conns[h].inc = inc[conns[h].dc]
             /\ conns' = [conns EXCEPT ![h].left = TRUE]
             /\ DropConnection(conns[h].dc)
             /\ UNCHANGED <<RecordResponse, ConnStates, net>>

\* A client opens a connection from the addresses c; how it will end is
\* settled here.
Open(c) == /\ plan[c] = <<>>
           /\ inc[c] < MaxInc
           /\ inc' = [inc EXCEPT ![c] = @ + 1]
           /\ \E how \in Closings : plan' = [plan EXCEPT ![c] = Handshake \o Data \o Closing(how)]
           /\ seen' = [seen EXCEPT ![c] = {}]
           /\ dups' = [dups EXCEPT ![c] = 0]
           /\ UNCHANGED code

\* The next packet is captured and processed.
Captured(c) == /\ plan[c] # <<>>
               /\ \E p \in Head(plan[c]) :
                    /\ plan' = [plan EXCEPT ![c] = IF Head(@) = {p} THEN Tail(@)
                                                   ELSE <<Head(@) \ {p}>> \o Tail(@)]
                    /\ seen' = [seen EXCEPT ![c] = @ \cup {p}]
                    /\ ProcessTCPPkg(c, p)
               /\ UNCHANGED <<inc, dups>>

\* A packet of the connection is captured again, maybe after its end.
Recaptured(c) == /\ dups[c] < MaxDups
                 /\ dups' = [dups EXCEPT ![c] = @ + 1]
                 /\ \E p \in seen[c] : /\ PrefaceAlone => ~ p.preface
                                       /\ ProcessTCPPkg(c, p)
                 /\ UNCHANGED <<inc, plan, seen>>

Next == \/ \E c \in Conns : Open(c) \/ Captured(c) \/ Recaptured(c)
        \/ \E h \in DOMAIN conns : GoAway(h)

Spec == Init /\ [][Next]_vars
-----------------------------------------------------------------------------
BufferOK(b) == /\ b.inc \in 1 .. MaxInc
               /\ b.expected \in Nat
               /\ \A p \in b.list : p.len > 0
               /\ b.got \in Seq([inc : 1 .. MaxInc, pkt : {Preface} \cup ToSet(InData \o OutData)])

\* The type of every variable: a state that is CLOSED is never kept, every
\* entry of ConnRepository is an Http2Conn that was created, and no TCPBuffer
\* stores a packet without a payload.
TypeOK == /\ ConnStates \in [Conns -> (States \ {"CLOSED"}) \cup {"none"}]
          /\ ConnRepository \in [Conns -> 0 .. Len(conns)]
          /\ \A h \in DOMAIN conns : /\ conns[h].dc \in Conns
                                     /\ conns[h].inc \in 1 .. MaxInc
                                     /\ BufferOK(conns[h].in)
                                     /\ BufferOK(conns[h].out)
                                     /\ conns[h].left \in BOOLEAN

\* An Http2Conn only ever gets bytes of the connection it was created for:
\* its HPACK tables, streams and sequence numbers are of no use for another.
OwnBytes == \A h \in DOMAIN conns :
               \A g \in Range(conns[h].in.got \o conns[h].out.got) : g.inc = conns[h].inc

\* The next packets of c are its data.
CarriesData(c) == plan[c] # <<>> /\ Head(plan[c]) \in SUBSET Range(<<Preface>> \o InData \o OutData)

\* While a connection carries data the processor holds it established, with
\* an Http2Conn of its own, unless one side has said GOAWAY on it.
NewConnTracked == \A c \in Conns : CarriesData(c) =>
    /\ ConnStates[c] = "ESTABLISHED"
    /\ \E h \in DOMAIN conns : /\ conns[h].dc = c /\ conns[h].inc = inc[c]
                               /\ ConnRepository[c] = IF conns[h].left THEN 0 ELSE h

\* Of a connection that has ended nothing is left in the processor's maps,
\* except, when a packet came again, a state that a new handshake leaves.
ClosedIsForgotten == \A c \in Conns : inc[c] > 0 /\ plan[c] = <<>> =>
                        /\ ConnRepository[c] = 0
                        /\ dups[c] = 0 => ConnStates[c] = "none"
                        /\ ConnStates[c] # "ESTABLISHED"

Pkts(got) == [n \in DOMAIN got |-> got[n].pkt]

\* What an Http2Conn has been given is a prefix of what its peers sent, and all
\* of it once every data packet was captured, unless one of them said GOAWAY: what
\* was not delivered by then never is.
Reassembled == \A h \in DOMAIN conns : LET cn == conns[h] IN
                  /\ IsPrefix(Pkts(cn.in.got), InData)
                  /\ IsPrefix(Pkts(cn.out.got), OutData)
                  /\ /\ cn.inc = inc[cn.dc] /\ ~ cn.left
                     /\ Range(<<Preface>> \o InData \o OutData) \subseteq seen[cn.dc]
                     => /\ Pkts(cn.in.got) = InData
                        /\ RecordResponse => Pkts(cn.out.got) = OutData

\* Of every Http2Conn, whose it is and what it was given.
MadeFor == [h \in DOMAIN conns |-> [dc |-> conns[h].dc, inc |-> conns[h].inc]]
GivenTo == [h \in DOMAIN conns |-> [in |-> Pkts(conns[h].in.got), out |-> Pkts(conns[h].out.got)]]

Feeds == INSTANCE ConnFeeds WITH Incs <- 1 .. MaxInc, InStream <- InData, OutStream <- OutData,
                                 made <- MadeFor, given <- GivenTo

\* To its Http2Conns the processor is the feeder of module ConnFeeds: OnEnter makes
\* one for each connection, in their order, and ProcessTCPPkg gives the newest of
\* its addresses, and no other, the next of what was sent.
FeedsSpec == Feeds!Spec
=============================================================================
