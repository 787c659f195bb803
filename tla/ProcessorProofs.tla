--------------------------- MODULE ProcessorProofs ---------------------------
(***************************************************************************)
(* Proofs about Processor, for every set of addresses, every number of     *)
(* connections that use them one after the other, and every window: a      *)
(* connection is followed from its handshake, gets its own bytes, all of   *)
(* them, and is forgotten.                                                 *)
(*                                                                         *)
(* The argument follows a DirectConn through the life of the connection    *)
(* that uses it now.  Each stage says what the network has still to send   *)
(* (plan), what ConnStates and ConnRepository hold, and what the TCPBuffers*)
(* of the connection's Http2Conn were given, as a function of the packets  *)
(* seen (Held).  StageInv says that every DirectConn is in a stage; what is*)
(* proved of a packet is that it leads from a stage to a stage, and the    *)
(* other connections' stages are not disturbed (StageFrame).               *)
(***************************************************************************)
EXTENDS Processor, FiniteSetTheorems, SequenceTheorems, TLAPS

(***************************************************************************)
(* What is assumed of the network.  The client closes: after a server that *)
(* closes first the code follows no connection on the addresses            *)
(* (NewConnTracked fails).  The preface comes alone and once, and a GOAWAY *)
(* is handled before the addresses are used again.  At most two packets of *)
(* a connection come again: a third could complete a handshake after the   *)
(* end, and the code would create the connection once more.                *)
(***************************************************************************)
InScope == /\ MaxDups <= 2
           /\ Closings \subseteq {"client", "clientFast", "clientReset"}
           /\ PrefaceAlone
           /\ GoAwayInTime
-----------------------------------------------------------------------------
(* The packets. *)

In1 == Packet("in", {"ACK"}, 2, 1)
In2 == Packet("in", {"ACK"}, 3, 1)
Out1 == Packet("out", {"ACK"}, 0, 1)
Out2 == Packet("out", {"ACK"}, 1, 1)
Syn == Packet("in", {"SYN"}, 0, 0)
SynAck == Packet("out", {"SYN", "ACK"}, 0, 0)
AckIn == Packet("in", {"ACK"}, 0, 0)
AckOut == Packet("out", {"ACK"}, 0, 0)
FinIn == Packet("in", {"FIN", "ACK"}, 0, 0)
FinOut == Packet("out", {"FIN", "ACK"}, 0, 0)
RstIn == Packet("in", {"RST"}, 0, 0)
AllData == {In1, In2, Out1, Out2}
Controls == {Syn, SynAck, AckIn, AckOut, FinIn, FinOut, RstIn}
Packets == {Preface} \cup AllData \cup Controls

\* The buffer, of incarnation i, that s, some of two packets a and b, was given to.
Held(a, b, i, s) ==
    [inc |-> i,
     expected |-> IF a \notin s THEN a.pos ELSE IF b \notin s THEN a.pos + 1 ELSE a.pos + 2,
     list |-> IF a \notin s /\ b \in s THEN {b} ELSE {},
     got |-> IF a \notin s THEN <<>>
             ELSE IF b \notin s THEN <<[inc |-> i, pkt |-> a]>>
             ELSE <<[inc |-> i, pkt |-> a], [inc |-> i, pkt |-> b]>>]

\* The two packets follow each other.
Two(a, b) == /\ a.pos \in Nat /\ b.pos = a.pos + 1 /\ a.len = 1 /\ b.len = 1

\* The stored segments in order: of none.
LEMMA InOrderNone == InOrder({}) = <<>> /\ Cardinality({}) = 0
<1>1. Cardinality({}) = 0
  BY FS_EmptySet
<1>2. \A s \in [1 .. 0 -> {}] : s = <<>>
  OBVIOUS
<1>3. <<>> \in [1 .. 0 -> {}]
  OBVIOUS
<1>4. \A m, n \in DOMAIN <<>> : m < n => <<>>[m].pos < <<>>[n].pos
  OBVIOUS
<1> QED BY <1>1, <1>2, <1>3, <1>4 DEF InOrder

\* The same of one segment.
LEMMA InOrderOne ==
  ASSUME NEW a
  PROVE  InOrder({a}) = <<a>> /\ Cardinality({a}) = 1
<1>1. Cardinality({a}) = 1
  BY FS_Singleton
<1>2. \A s \in [1 .. 1 -> {a}] : s = <<a>>
  OBVIOUS
<1>3. <<a>> \in [1 .. 1 -> {a}]
  OBVIOUS
<1>4. \A m, n \in DOMAIN <<a>> : m < n => <<a>>[m].pos < <<a>>[n].pos
  OBVIOUS
<1> QED BY <1>1, <1>2, <1>3, <1>4 DEF InOrder

\* The same of two.
LEMMA InOrderTwo ==
  ASSUME NEW a, NEW b, a.pos \in Nat, b.pos \in Nat, a.pos < b.pos
  PROVE  InOrder({a, b}) = <<a, b>> /\ Cardinality({a, b}) = 2
<1>0. a # b
  OBVIOUS
<1>1. Cardinality({a, b}) = 2
  <2>1. Cardinality({a}) = 1 /\ IsFiniteSet({a})
    BY FS_Singleton
  <2>2. Cardinality({a} \cup {b}) = 2
    <3>1. b \notin {a}
      BY <1>0
    <3>2. Cardinality({a} \cup {b}) = IF b \in {a} THEN Cardinality({a}) ELSE Cardinality({a}) + 1
      BY <2>1, FS_AddElement
    <3> QED BY <3>1, <3>2, <2>1
  <2>3. {a} \cup {b} = {a, b}
    OBVIOUS
  <2> QED BY <2>2, <2>3
<1> DEFINE P(s) == \A m, n \in DOMAIN s : m < n => s[m].pos < s[n].pos
<1>2. ASSUME NEW s \in [1 .. 2 -> {a, b}], P(s) PROVE s = <<a, b>>
  <2>1. DOMAIN s = 1 .. 2 /\ s[1] \in {a, b} /\ s[2] \in {a, b}
    OBVIOUS
  <2>2. s[1].pos < s[2].pos
    BY <2>1, <1>2
  <2>3. s[1] = a /\ s[2] = b
    BY <2>1, <2>2
  <2> QED BY <2>1, <2>3
<1>3. <<a, b>> \in [1 .. 2 -> {a, b}]
  OBVIOUS
<1>4. P(<<a, b>>)
  <2> SUFFICES ASSUME NEW m \in 1 .. 2, NEW n \in 1 .. 2, m < n
               PROVE <<a, b>>[m].pos < <<a, b>>[n].pos
    OBVIOUS
  <2>1. m = 1 /\ n = 2
    OBVIOUS
  <2> QED BY <2>1
<1>5. InOrder({a, b}) = CHOOSE s \in [1 .. 2 -> {a, b}] : P(s)
  BY <1>1 DEF InOrder
<1> HIDE DEF P
<1>6. (CHOOSE s \in [1 .. 2 -> {a, b}] : P(s)) = <<a, b>>
  BY <1>2, <1>3, <1>4
<1> QED BY <1>1, <1>5, <1>6

\* What AddTCP writes to a buffer, as a record.
LEMMA Updated ==
  ASSUME NEW h, NEW i, NEW e, NEW l, NEW gs, NEW e2, NEW l2, NEW gs2,
         h = [inc |-> i, expected |-> e, list |-> l, got |-> gs]
  PROVE  [h EXCEPT !.list = l2, !.got = gs2, !.expected = e2]
            = [inc |-> i, expected |-> e2, list |-> l2, got |-> gs2]
<1>1. [h EXCEPT !.list = l2] = [inc |-> i, expected |-> e, list |-> l2, got |-> gs]
  OBVIOUS
<1>2. [[inc |-> i, expected |-> e, list |-> l2, got |-> gs] EXCEPT !.got = gs2]
        = [inc |-> i, expected |-> e, list |-> l2, got |-> gs2]
  OBVIOUS
<1>3. [[inc |-> i, expected |-> e, list |-> l2, got |-> gs2] EXCEPT !.expected = e2]
        = [inc |-> i, expected |-> e2, list |-> l2, got |-> gs2]
  OBVIOUS
<1> QED BY <1>1, <1>2, <1>3

\* Concatenations of short sequences.
LEMMA Joined ==
  ASSUME NEW f, NEW g
  PROVE  /\ <<>> \o <<f>> = <<f>>
         /\ <<f>> \o <<g>> = <<f, g>>
         /\ <<>> \o <<f, g>> = <<f, g>>
         /\ <<>> \o <<>> = <<>>
<1> DEFINE S == {f, g}
<1>1. /\ <<>> \in Seq(S) /\ <<f>> \in Seq(S) /\ <<g>> \in Seq(S) /\ <<f, g>> \in Seq(S)
  OBVIOUS
<1>2. \A s \in Seq(S) : <<>> \o s = s
  BY EmptySeq, ConcatEmptySeq
<1>3. <<f>> \o <<g>> = <<f, g>>
  <2>1. <<f>> \o <<g>> \in Seq(S) /\ Len(<<f>> \o <<g>>) = 2
    BY <1>1
  <2>2. (<<f>> \o <<g>>)[1] = f /\ (<<f>> \o <<g>>)[2] = g
    BY <1>1
  <2>3. Len(<<f, g>>) = 2 /\ <<f, g>>[1] = f /\ <<f, g>>[2] = g
    OBVIOUS
  <2>4. \A n \in 1 .. 2 : (<<f>> \o <<g>>)[n] = <<f, g>>[n]
    BY <2>2, <2>3
  <2> HIDE DEF S
  <2> QED BY <1>1, <2>1, <2>3, <2>4, SeqEqual
<1> QED BY <1>1, <1>2, <1>3

\* p is one of the packets a and b, of which s came before.
OneOf(a, b, s, p) == Two(a, b) /\ s \subseteq {a, b} /\ p \in {a, b}

\* p is added to the packets given, unless the window refuses it.
Delivers(a, b, i, s, p) ==
    \E s2 \in {s, s \cup {p}} :
        /\ AddTCP(Held(a, b, i, s), i, p) = Held(a, b, i, s2)
        /\ MaxWindowSize >= 1 => s2 = s \cup {p}

\* AddTCP on a buffer that was given some of the two packets: the third and
\* later copies change nothing, and a packet is refused only by the window.
LEMMA DeliveredEither ==
  ASSUME NEW a, NEW b, NEW i, NEW s, NEW p, OneOf(a, b, s, p)
  PROVE  /\ \/ AddTCP(Held(a, b, i, s), i, p) = Held(a, b, i, s)
            \/ AddTCP(Held(a, b, i, s), i, p) = Held(a, b, i, s \cup {p})
         /\ MaxWindowSize >= 1 => AddTCP(Held(a, b, i, s), i, p) = Held(a, b, i, s \cup {p})
<1>w. Two(a, b) /\ s \in SUBSET {a, b} /\ p \in {a, b} /\ MaxWindowSize \in Nat
  BY ProcessorAssumption DEF OneOf
<1> DEFINE h == Held(a, b, i, s)
           A == AddTCP(h, i, p)
           f == [inc |-> i, pkt |-> a]
           g == [inc |-> i, pkt |-> b]
<1>0. /\ a.pos \in Nat /\ b.pos = a.pos + 1 /\ a.len = 1 /\ b.len = 1 /\ a # b
      /\ s \in SUBSET {a, b} /\ p \in {a, b} /\ MaxWindowSize \in Nat
  BY <1>w DEF Two
<1>n. ASSUME ~ Accepts(h, i, p) PROVE A = h
  BY <1>n DEF AddTCP
<1>1. CASE s = {}
  <2>1. h = [inc |-> i, expected |-> a.pos, list |-> {}, got |-> <<>>]
    BY <1>1, <1>0 DEF Held
  <2>2. CASE p = a
    <3>1. Accepts(h, i, p)
      BY <2>1, <2>2, <1>0 DEF Accepts
    <3>2. Drained(h, p) = {a}
      BY <2>1, <2>2, <1>0 DEF Drained, Run
    <3>3. A = [inc |-> i, expected |-> a.pos + 1, list |-> {}, got |-> <<f>>]
      <4>1. <<f>> = [n \in 1 .. 1 |-> [inc |-> i, pkt |-> <<a>>[n]]]
        OBVIOUS
      <4>2. <<f>> = <<>> \o [n \in 1 .. 1 |-> [inc |-> i, pkt |-> <<a>>[n]]]
        BY <4>1, Joined
      <4>3. a.pos + 1 = IF {a} = {} THEN a.pos ELSE <<a>>[1].pos + <<a>>[1].len
        BY <1>0
      <4>4. {} = ({} \cup {p}) \ {a}
        BY <2>2, <1>0
      <4>5. InOrder({a}) = <<a>> /\ Cardinality({a}) = 1
        BY <1>0, InOrderOne
      <4>6. /\ h.expected = a.pos /\ h.list = {} /\ h.got = <<>>
        BY <2>1
      <4> HIDE DEF h, f, g
      <4>7. A = [h EXCEPT !.list = (h.list \cup {p}) \ {a},
                          !.got = h.got \o [n \in 1 .. 1 |-> [inc |-> i, pkt |-> <<a>>[n]]],
                          !.expected = IF {a} = {} THEN h.expected ELSE <<a>>[1].pos + <<a>>[1].len]
        BY <3>1, <3>2, <4>5, Zenon DEF AddTCP
      <4>8. A = [h EXCEPT !.list = {}, !.got = <<f>>, !.expected = a.pos + 1]
        BY <4>2, <4>3, <4>4, <4>6, <4>7, Zenon
      <4> QED BY <2>1, <4>8, Updated, Zenon
    <3>4. Held(a, b, i, s \cup {p}) = [inc |-> i, expected |-> a.pos + 1, list |-> {}, got |-> <<f>>]
      BY <2>2, <1>1, <1>0 DEF Held
    <3> QED BY <3>3, <3>4, <1>1
  <2>3. CASE p = b
    <3>1. Held(a, b, i, s \cup {p}) = [inc |-> i, expected |-> a.pos, list |-> {b}, got |-> <<>>]
      BY <2>3, <1>1, <1>0 DEF Held
    <3>2. MaxWindowSize >= 1 => Accepts(h, i, p)
      BY <2>1, <2>3, <1>0 DEF Accepts
    <3>3. Drained(h, p) = {}
      BY <2>1, <2>3, <1>0 DEF Drained
    <3>4. ASSUME Accepts(h, i, p)
          PROVE  A = [inc |-> i, expected |-> a.pos, list |-> {b}, got |-> <<>>]
      <4>1. <<>> = [n \in 1 .. 0 |-> [inc |-> i, pkt |-> <<>>[n]]]
        OBVIOUS
      <4>2. <<>> = <<>> \o [n \in 1 .. 0 |-> [inc |-> i, pkt |-> <<>>[n]]]
        BY <4>1, Joined
      <4>3. a.pos = IF {} = {} THEN a.pos ELSE <<>>[0].pos + <<>>[0].len
        BY <1>0
      <4>4. {b} = ({} \cup {p}) \ {}
        BY <2>3, <1>0
      <4>5. InOrder({}) = <<>> /\ Cardinality({}) = 0
        BY <1>0, InOrderNone
      <4>6. /\ h.expected = a.pos /\ h.list = {} /\ h.got = <<>>
        BY <2>1
      <4> HIDE DEF h, f, g
      <4>7. A = [h EXCEPT !.list = (h.list \cup {p}) \ {},
                          !.got = h.got \o [n \in 1 .. 0 |-> [inc |-> i, pkt |-> <<>>[n]]],
                          !.expected = IF {} = {} THEN h.expected ELSE <<>>[0].pos + <<>>[0].len]
        BY <3>4, <3>3, <4>5, Zenon DEF AddTCP
      <4>8. A = [h EXCEPT !.list = {b}, !.got = <<>>, !.expected = a.pos]
        BY <4>2, <4>3, <4>4, <4>6, <4>7, Zenon
      <4> QED BY <2>1, <4>8, Updated, Zenon
    <3> QED BY <3>1, <3>2, <3>4, <1>n, <1>1
  <2> QED BY <2>2, <2>3, <1>0
<1>2. CASE s = {b}
  <2>1. h = [inc |-> i, expected |-> a.pos, list |-> {b}, got |-> <<>>]
    BY <1>2, <1>0 DEF Held
  <2>2. CASE p = a
    <3>1. Accepts(h, i, p)
      BY <2>1, <2>2, <1>0 DEF Accepts
    <3>2. Drained(h, p) = {a, b}
      BY <2>1, <2>2, <1>0 DEF Drained, Run
    <3>3. A = [inc |-> i, expected |-> b.pos + 1, list |-> {}, got |-> <<f, g>>]
      <4>1. <<f, g>> = [n \in 1 .. 2 |-> [inc |-> i, pkt |-> <<a, b>>[n]]]
        OBVIOUS
      <4>2. <<f, g>> = <<>> \o [n \in 1 .. 2 |-> [inc |-> i, pkt |-> <<a, b>>[n]]]
        BY <4>1, Joined
      <4>3. b.pos + 1 = IF {a, b} = {} THEN a.pos ELSE <<a, b>>[2].pos + <<a, b>>[2].len
        BY <1>0
      <4>4. {} = ({b} \cup {p}) \ {a, b}
        BY <2>2, <1>0
      <4>5. InOrder({a, b}) = <<a, b>> /\ Cardinality({a, b}) = 2
        BY <1>0, InOrderTwo
      <4>6. /\ h.expected = a.pos /\ h.list = {b} /\ h.got = <<>>
        BY <2>1
      <4> HIDE DEF h, f, g
      <4>7. A = [h EXCEPT !.list = (h.list \cup {p}) \ {a, b},
                          !.got = h.got \o [n \in 1 .. 2 |-> [inc |-> i, pkt |-> <<a, b>>[n]]],
                          !.expected = IF {a, b} = {} THEN h.expected ELSE <<a, b>>[2].pos + <<a, b>>[2].len]
        BY <3>1, <3>2, <4>5, Zenon DEF AddTCP
      <4>8. A = [h EXCEPT !.list = {}, !.got = <<f, g>>, !.expected = b.pos + 1]
        BY <4>2, <4>3, <4>4, <4>6, <4>7, Zenon
      <4> QED BY <2>1, <4>8, Updated, Zenon
    <3>4. Held(a, b, i, s \cup {p}) = [inc |-> i, expected |-> a.pos + 2, list |-> {}, got |-> <<f, g>>]
      BY <2>2, <1>2, <1>0 DEF Held
    <3>5. a.pos + 2 = b.pos + 1
      BY <1>0
    <3> QED BY <3>3, <3>4, <3>5, <1>2, <2>2
  <2>3. CASE p = b
    <3>1. ~ Accepts(h, i, p)
      BY <2>1, <2>3 DEF Accepts
    <3>2. s \cup {p} = s
      BY <2>3, <1>2
    <3> QED BY <3>1, <3>2, <1>n
  <2> QED BY <2>2, <2>3, <1>0
<1>3. CASE s = {a}
  <2>1. h = [inc |-> i, expected |-> a.pos + 1, list |-> {}, got |-> <<f>>]
    BY <1>3, <1>0 DEF Held
  <2>2. CASE p = a
    <3>1. ~ Accepts(h, i, p)
      BY <2>1, <2>2, <1>0 DEF Accepts
    <3>2. s \cup {p} = s
      BY <2>2, <1>3
    <3> QED BY <3>1, <3>2, <1>n
  <2>3. CASE p = b
    <3>1. Accepts(h, i, p)
      BY <2>1, <2>3, <1>0 DEF Accepts
    <3>2. Drained(h, p) = {b}
      BY <2>1, <2>3, <1>0 DEF Drained, Run
    <3>3. A = [inc |-> i, expected |-> b.pos + 1, list |-> {}, got |-> <<f, g>>]
      <4>1. <<g>> = [n \in 1 .. 1 |-> [inc |-> i, pkt |-> <<b>>[n]]]
        OBVIOUS
      <4>2. <<f, g>> = <<f>> \o [n \in 1 .. 1 |-> [inc |-> i, pkt |-> <<b>>[n]]]
        BY <4>1, Joined
      <4>3. b.pos + 1 = IF {b} = {} THEN a.pos + 1 ELSE <<b>>[1].pos + <<b>>[1].len
        BY <1>0
      <4>4. {} = ({} \cup {p}) \ {b}
        BY <2>3, <1>0
      <4>5. InOrder({b}) = <<b>> /\ Cardinality({b}) = 1
        BY <1>0, InOrderOne
      <4>6. /\ h.expected = a.pos + 1 /\ h.list = {} /\ h.got = <<f>>
        BY <2>1
      <4> HIDE DEF h, f, g
      <4>7. A = [h EXCEPT !.list = (h.list \cup {p}) \ {b},
                          !.got = h.got \o [n \in 1 .. 1 |-> [inc |-> i, pkt |-> <<b>>[n]]],
                          !.expected = IF {b} = {} THEN h.expected ELSE <<b>>[1].pos + <<b>>[1].len]
        BY <3>1, <3>2, <4>5, Zenon DEF AddTCP
      <4>8. A = [h EXCEPT !.list = {}, !.got = <<f, g>>, !.expected = b.pos + 1]
        BY <4>2, <4>3, <4>4, <4>6, <4>7, Zenon
      <4> QED BY <2>1, <4>8, Updated, Zenon
    <3>4. Held(a, b, i, s \cup {p}) = [inc |-> i, expected |-> a.pos + 2, list |-> {}, got |-> <<f, g>>]
      BY <2>3, <1>3, <1>0 DEF Held
    <3>5. a.pos + 2 = b.pos + 1
      BY <1>0
    <3> QED BY <3>3, <3>4, <3>5, <1>3, <2>3
  <2> QED BY <2>2, <2>3, <1>0
<1>4. CASE s = {a, b}
  <2>1. h.expected = a.pos + 2
    BY <1>4, <1>0 DEF Held
  <2>2. ~ Accepts(h, i, p)
    BY <2>1, <1>0 DEF Accepts
  <2>3. s \cup {p} = s
    BY <1>4, <1>0
  <2> QED BY <2>2, <2>3, <1>n
<1>5. s = {} \/ s = {b} \/ s = {a} \/ s = {a, b}
  BY <1>0
<1> QED BY <1>1, <1>2, <1>3, <1>4, <1>5

\* The same, as Delivers.
LEMMA Delivered ==
  ASSUME NEW a, NEW b, NEW i, NEW s, NEW p, OneOf(a, b, s, p)
  PROVE  Delivers(a, b, i, s, p)
<1> DEFINE A == AddTCP(Held(a, b, i, s), i, p)
           H(x) == Held(a, b, i, x)
           Q == MaxWindowSize >= 1
<1>1. (A = H(s) \/ A = H(s \cup {p})) /\ (Q => A = H(s \cup {p}))
  BY DeliveredEither
<1>2. Delivers(a, b, i, s, p) <=> \E s2 \in {s, s \cup {p}} : A = H(s2) /\ (Q => s2 = s \cup {p})
  BY DEF Delivers
<1> HIDE DEF A, H, Q
<1>3. CASE A = H(s \cup {p})
  BY <1>3, <1>2
<1>4. CASE ~ Q /\ A = H(s)
  BY <1>4, <1>2
<1> QED BY <1>1, <1>3, <1>4

\* A plan that begins with the burst x.
LEMMA ConsHead ==
  ASSUME NEW S, NEW x \in S, NEW s \in Seq(S)
  PROVE  /\ <<x>> \o s \in Seq(S)
         /\ <<x>> \o s # <<>>
         /\ Head(<<x>> \o s) = x
         /\ Tail(<<x>> \o s) = s
<1>1. <<x>> \o s \in Seq(S) /\ Len(<<x>> \o s) = Len(s) + 1
  OBVIOUS
<1>2. \A k \in 1 .. Len(s) + 1 : (<<x>> \o s)[k] = IF k = 1 THEN x ELSE s[k - 1]
  OBVIOUS
<1>3. <<x>> \o s # <<>> /\ Head(<<x>> \o s) = x
  BY <1>1, <1>2
<1>4. Tail(<<x>> \o s) = s
  <2>1. Tail(<<x>> \o s) \in Seq(S) /\ Len(Tail(<<x>> \o s)) = Len(s)
    BY <1>1, <1>3
  <2>2. \A k \in 1 .. Len(s) : Tail(<<x>> \o s)[k] = s[k]
    BY <1>1, <1>2, <1>3
  <2> QED BY <2>1, <2>2, SeqEqual
<1> QED BY <1>1, <1>3, <1>4

-----------------------------------------------------------------------------
(* The inductive invariant: what is left of a plan. *)

FinalAck == <<{AckIn}>> \o <<>>
ServerFin == <<{FinOut}>> \o FinalAck
ServerAck == <<{AckOut}>> \o ServerFin
Endings == {<<{FinIn}>> \o ServerAck, <<{FinIn}>> \o ServerFin, <<{RstIn}>> \o <<>>}
Feeding(e) == <<AllData>> \o e
Prefaced(e) == <<{Preface}>> \o Feeding(e)
Third(e) == <<{AckIn}>> \o Prefaced(e)
Second(e) == <<{SynAck}>> \o Third(e)
Whole(e) == <<{Syn}>> \o Second(e)

\* The states of no connection, or of one that is not established yet.
Quiet == {"none", "LISTEN", "SYN-RECEIVED-1", "SYN-RECEIVED-2"}

\* What the TCPBuffers of the Http2Conns can be.
Buffers(a, b) == {Held(a, b, i, s) : i \in 1 .. MaxInc, s \in SUBSET {a, b}}

\* The Http2Conns and their buffers: as created, or with some packets.
ConnType == [dc : Conns, inc : 1 .. MaxInc,
             in : Buffers(In1, In2) \cup {Buffer(i, 1) : i \in 1 .. MaxInc},
             out : Buffers(Out1, Out2), left : BOOLEAN]

\* What ConnStates can hold; none is no entry.
KeptStates == (States \ {"CLOSED"}) \cup {"none"}

\* The types of the variables.
VarsInv ==
    /\ RecordResponse \in BOOLEAN
    /\ ConnStates \in [Conns -> KeptStates]
    /\ ConnRepository \in [Conns -> Nat]
    /\ inc \in [Conns -> 0 .. MaxInc]
    /\ plan \in [Conns -> Seq(SUBSET Packets)]
    /\ seen \in [Conns -> SUBSET Packets]
    /\ dups \in [Conns -> 0 .. MaxDups]
    /\ conns \in Seq(ConnType)

\* An Http2Conn and its buffers are of one incarnation, that has begun.
ConnsInv ==
    \A h \in DOMAIN conns :
        /\ conns[h].inc <= inc[conns[h].dc]
        /\ conns[h].in.inc = conns[h].inc
        /\ conns[h].out.inc = conns[h].inc

\* The connection that uses c has no Http2Conn yet.
NoneYet(c) == \A h \in DOMAIN conns : conns[h].dc = c => conns[h].inc # inc[c]

\* h is its Http2Conn, the only one.
Its(c, h) == /\ h \in DOMAIN conns
             /\ \A g \in DOMAIN conns : conns[g].dc = c /\ conns[g].inc = inc[c] <=> g = h

\* The buffers of h were given what was captured, all of it if the window never
\* refuses and until a GOAWAY; the server's packets only when they are recorded.
Fed(c, h) ==
    \E s \in SUBSET {In1, In2}, t \in SUBSET {Out1, Out2} :
        /\ conns[h].in = Held(In1, In2, inc[c], s)
        /\ conns[h].out = Held(Out1, Out2, inc[c], t)
        /\ MaxWindowSize >= 1 /\ ~ conns[h].left => s = seen[c] \cap {In1, In2}
        /\ MaxWindowSize >= 1 /\ RecordResponse /\ ~ conns[h].left => t = seen[c] \cap {Out1, Out2}

\* ConnRepository has h, until a GOAWAY.
Mapped(c, h) == ConnRepository[c] = IF conns[h].left THEN 0 ELSE h

\* The stages.  No connection has used the addresses c yet.
Unused(c) == /\ plan[c] = <<>> /\ inc[c] = 0 /\ seen[c] = {}
             /\ ConnStates[c] = "none" /\ ConnRepository[c] = 0

\* The client is about to send the SYN.
Opening(c) == /\ \E e \in Endings : plan[c] = Whole(e)
              /\ inc[c] > 0 /\ seen[c] = {}
              /\ ConnStates[c] \in Quiet /\ ConnRepository[c] = 0
              /\ NoneYet(c)

\* The SYN was captured.
Received(c) == /\ \E e \in Endings : plan[c] = Second(e)
               /\ inc[c] > 0 /\ seen[c] = {Syn}
               /\ ConnStates[c] \in {"SYN-RECEIVED-1", "SYN-RECEIVED-2"}
               /\ ConnRepository[c] = 0
               /\ NoneYet(c)

\* The server's answer was captured.
Answered(c) == /\ \E e \in Endings : plan[c] = Third(e)
               /\ inc[c] > 0 /\ seen[c] = {Syn, SynAck}
               /\ ConnStates[c] = "SYN-RECEIVED-2" /\ ConnRepository[c] = 0
               /\ NoneYet(c)

\* The Http2Conn was created and waits for the preface.
Established(c) == /\ \E e \in Endings : plan[c] = Prefaced(e)
                  /\ inc[c] > 0 /\ seen[c] = {Syn, SynAck, AckIn}
                  /\ ConnStates[c] = "ESTABLISHED"
                  /\ \E h \in DOMAIN conns :
                        /\ Its(c, h) /\ ConnRepository[c] = h /\ conns[h].left = FALSE
                        /\ conns[h].in = Buffer(inc[c], 1)
                        /\ conns[h].out = Held(Out1, Out2, inc[c], {})

\* The connection carries data, or will be closed next.
Transfer(c) == /\ \E e \in Endings : \/ plan[c] = e
                                     \/ \E d \in SUBSET AllData : d # {} /\ plan[c] = <<d>> \o e
               /\ inc[c] > 0
               /\ seen[c] \subseteq {Syn, SynAck, AckIn, Preface} \cup AllData
               /\ ConnStates[c] = "ESTABLISHED"
               /\ \E h \in DOMAIN conns : Its(c, h) /\ Fed(c, h) /\ Mapped(c, h)

\* The client has closed, the server has not.
Closes(c) == /\ plan[c] \in {ServerAck, ServerFin}
             /\ inc[c] > 0
             /\ seen[c] \subseteq {Syn, SynAck, AckIn, Preface, FinIn, AckOut} \cup AllData
             /\ ConnStates[c] = "CLOSE_WAIT"
             /\ \E h \in DOMAIN conns : Its(c, h) /\ Fed(c, h) /\ Mapped(c, h)

\* Both have closed; the last ACK is missing.
LastAck(c) == /\ plan[c] = FinalAck
              /\ inc[c] > 0
              /\ ConnStates[c] = "LAST_ACK"
              /\ \E h \in DOMAIN conns : Its(c, h) /\ Fed(c, h) /\ Mapped(c, h)

\* Another ACK, captured again, was taken for the last one.
Early(c) == /\ plan[c] = FinalAck
            /\ inc[c] > 0
            /\ ConnRepository[c] = 0
            /\ dups[c] >= 1
            /\ ConnStates[c] \in {"none", "LISTEN", "SYN-RECEIVED-1"}
            /\ ConnStates[c] = "SYN-RECEIVED-1" => dups[c] >= 2
            /\ \E h \in DOMAIN conns : Its(c, h) /\ Fed(c, h)

\* The connection is over.
Ended(c) == /\ plan[c] = <<>>
            /\ inc[c] > 0
            /\ ConnRepository[c] = 0
            /\ ConnStates[c] \in Quiet
            /\ dups[c] = 0 => ConnStates[c] = "none"
            /\ ConnStates[c] = "SYN-RECEIVED-2" => dups[c] >= 2
            /\ \E h \in DOMAIN conns : Its(c, h) /\ Fed(c, h)

\* Every DirectConn is in a stage.
Stage(c) == \/ Unused(c) \/ Opening(c) \/ Received(c) \/ Answered(c) \/ Established(c)
            \/ Transfer(c) \/ Closes(c) \/ LastAck(c) \/ Early(c) \/ Ended(c)

\* Whatever stage its own packets and those of its predecessors brought it to.
StageInv == \A c \in Conns : Stage(c)

\* The inductive invariant.  It holds of every reachable state within InScope, and
\* says of a state all that the handling of the next packet can depend on.
IndInv == VarsInv /\ ConnsInv /\ StageInv

-----------------------------------------------------------------------------
(* The state machine and the packets. *)

\* What Trigger does from each state, for every event.
LEMMA TriggerTable ==
  ASSUME NEW e
  PROVE  /\ Trigger("LISTEN", e) = IF e = "RECEIVE_SYN" THEN "SYN-RECEIVED-1"
                                   ELSE IF e = "RECEIVE_RST" THEN "CLOSED" ELSE "LISTEN"
         /\ Trigger("SYN-RECEIVED-1", e) = IF e = "SEND_SYN_ACK" THEN "SYN-RECEIVED-2"
                                           ELSE "SYN-RECEIVED-1"
         /\ Trigger("SYN-RECEIVED-2", e) = IF e = "RECEIVE_ACK" THEN "ESTABLISHED"
                                           ELSE "SYN-RECEIVED-2"
         /\ Trigger("ESTABLISHED", e) = IF e = "RECEIVE_FIN" THEN "CLOSE_WAIT"
                                        ELSE IF e = "RECEIVE_RST" THEN "CLOSED" ELSE "ESTABLISHED"
         /\ Trigger("CLOSE_WAIT", e) = IF e = "SEND_FIN" THEN "LAST_ACK" ELSE "CLOSE_WAIT"
         /\ Trigger("LAST_ACK", e) = IF e = "RECEIVE_ACK" THEN "CLOSED" ELSE "LAST_ACK"
<1> DEFINE To(s) == {u[3] : u \in {t \in Transitions : t[1] = s /\ t[2] = e}}
<1>1. \A s : Trigger(s, e) = IF To(s) = {} THEN s ELSE CHOOSE x \in To(s) : TRUE
  BY DEF Trigger, TriggerFrom
<1>2. ASSUME NEW s, To(s) = {} PROVE Trigger(s, e) = s
  BY <1>1, <1>2
<1>3. ASSUME NEW s, NEW t, To(s) = {t} PROVE Trigger(s, e) = t
  BY <1>1, <1>3
<1>4. \A s, t : t \in To(s) <=> <<s, e, t>> \in Transitions
  <2>1. \A u \in Transitions : u = <<u[1], u[2], u[3]>>
    BY DEF Transitions
  <2> QED BY <2>1
<1>5. \A s, t : t \in To(s) <=>
         \/ s = "LISTEN" /\ e = "RECEIVE_SYN" /\ t = "SYN-RECEIVED-1"
         \/ s = "SYN-RECEIVED-1" /\ e = "SEND_SYN_ACK" /\ t = "SYN-RECEIVED-2"
         \/ s = "SYN-RECEIVED-2" /\ e = "RECEIVE_ACK" /\ t = "ESTABLISHED"
         \/ s = "ESTABLISHED" /\ e = "RECEIVE_ACK" /\ t = "ESTABLISHED"
         \/ s = "ESTABLISHED" /\ e = "SEND_ACK" /\ t = "ESTABLISHED"
         \/ s = "SYN-RECEIVED-1" /\ e = "RECEIVE_SYN" /\ t = "SYN-RECEIVED-1"
         \/ s = "SYN-RECEIVED-2" /\ e = "SEND_SYN_ACK" /\ t = "SYN-RECEIVED-2"
         \/ s = "LISTEN" /\ e = "SEND_ACK" /\ t = "LISTEN"
         \/ s = "ESTABLISHED" /\ e = "RECEIVE_FIN" /\ t = "CLOSE_WAIT"
         \/ s = "CLOSE_WAIT" /\ e = "SEND_ACK" /\ t = "CLOSE_WAIT"
         \/ s = "CLOSE_WAIT" /\ e = "SEND_FIN" /\ t = "LAST_ACK"
         \/ s = "LAST_ACK" /\ e = "RECEIVE_ACK" /\ t = "CLOSED"
         \/ s = "ESTABLISHED" /\ e = "RECEIVE_RST" /\ t = "CLOSED"
         \/ s = "LISTEN" /\ e = "RECEIVE_RST" /\ t = "CLOSED"
  BY <1>4 DEF Transitions
<1> HIDE DEF To
<1>10. Trigger("LISTEN", e) = IF e = "RECEIVE_SYN" THEN "SYN-RECEIVED-1"
                              ELSE IF e = "RECEIVE_RST" THEN "CLOSED" ELSE "LISTEN"
  <2>1. e = "RECEIVE_SYN" => To("LISTEN") = {"SYN-RECEIVED-1"}
    BY <1>5
  <2>2. e = "RECEIVE_RST" => To("LISTEN") = {"CLOSED"}
    BY <1>5
  <2>3. e = "SEND_ACK" => To("LISTEN") = {"LISTEN"}
    BY <1>5
  <2>4. e \notin {"RECEIVE_SYN", "RECEIVE_RST", "SEND_ACK"} => To("LISTEN") = {}
    BY <1>5
  <2> QED BY <1>2, <1>3, <2>1, <2>2, <2>3, <2>4
<1>11. Trigger("SYN-RECEIVED-1", e) = IF e = "SEND_SYN_ACK" THEN "SYN-RECEIVED-2"
                                      ELSE "SYN-RECEIVED-1"
  <2>1. e = "SEND_SYN_ACK" => To("SYN-RECEIVED-1") = {"SYN-RECEIVED-2"}
    BY <1>5
  <2>2. e = "RECEIVE_SYN" => To("SYN-RECEIVED-1") = {"SYN-RECEIVED-1"}
    BY <1>5
  <2>3. e \notin {"SEND_SYN_ACK", "RECEIVE_SYN"} => To("SYN-RECEIVED-1") = {}
    BY <1>5
  <2> QED BY <1>2, <1>3, <2>1, <2>2, <2>3
<1>12. Trigger("SYN-RECEIVED-2", e) = IF e = "RECEIVE_ACK" THEN "ESTABLISHED"
                                      ELSE "SYN-RECEIVED-2"
  <2>1. e = "RECEIVE_ACK" => To("SYN-RECEIVED-2") = {"ESTABLISHED"}
    BY <1>5
  <2>2. e = "SEND_SYN_ACK" => To("SYN-RECEIVED-2") = {"SYN-RECEIVED-2"}
    BY <1>5
  <2>3. e \notin {"RECEIVE_ACK", "SEND_SYN_ACK"} => To("SYN-RECEIVED-2") = {}
    BY <1>5
  <2> QED BY <1>2, <1>3, <2>1, <2>2, <2>3
<1>13. Trigger("ESTABLISHED", e) = IF e = "RECEIVE_FIN" THEN "CLOSE_WAIT"
                                   ELSE IF e = "RECEIVE_RST" THEN "CLOSED" ELSE "ESTABLISHED"
  <2>1. e = "RECEIVE_FIN" => To("ESTABLISHED") = {"CLOSE_WAIT"}
    BY <1>5
  <2>2. e = "RECEIVE_RST" => To("ESTABLISHED") = {"CLOSED"}
    BY <1>5
  <2>3. e = "RECEIVE_ACK" => To("ESTABLISHED") = {"ESTABLISHED"}
    BY <1>5
  <2>4. e = "SEND_ACK" => To("ESTABLISHED") = {"ESTABLISHED"}
    BY <1>5
  <2>5. e \notin {"RECEIVE_FIN", "RECEIVE_RST", "RECEIVE_ACK", "SEND_ACK"} => To("ESTABLISHED") = {}
    BY <1>5
  <2> QED BY <1>2, <1>3, <2>1, <2>2, <2>3, <2>4, <2>5
<1>14. Trigger("CLOSE_WAIT", e) = IF e = "SEND_FIN" THEN "LAST_ACK" ELSE "CLOSE_WAIT"
  <2>1. e = "SEND_FIN" => To("CLOSE_WAIT") = {"LAST_ACK"}
    BY <1>5
  <2>2. e = "SEND_ACK" => To("CLOSE_WAIT") = {"CLOSE_WAIT"}
    BY <1>5
  <2>3. e \notin {"SEND_FIN", "SEND_ACK"} => To("CLOSE_WAIT") = {}
    BY <1>5
  <2> QED BY <1>2, <1>3, <2>1, <2>2, <2>3
<1>15. Trigger("LAST_ACK", e) = IF e = "RECEIVE_ACK" THEN "CLOSED" ELSE "LAST_ACK"
  <2>1. e = "RECEIVE_ACK" => To("LAST_ACK") = {"CLOSED"}
    BY <1>5
  <2>2. e \notin {"RECEIVE_ACK"} => To("LAST_ACK") = {}
    BY <1>5
  <2> QED BY <1>2, <1>3, <2>1, <2>2
<1> QED BY <1>10, <1>11, <1>12, <1>13, <1>14, <1>15

\* The event of each control packet.
LEMMA Events ==
  /\ EventOf(Syn) = "RECEIVE_SYN" /\ EventOf(SynAck) = "SEND_SYN_ACK"
  /\ EventOf(AckIn) = "RECEIVE_ACK" /\ EventOf(AckOut) = "SEND_ACK"
  /\ EventOf(FinIn) = "RECEIVE_FIN" /\ EventOf(FinOut) = "SEND_FIN"
  /\ EventOf(RstIn) = "RECEIVE_RST"
<1>1. EventOf(Syn) = "RECEIVE_SYN"
  BY DEF EventOf, Syn, Packet
<1>2. EventOf(SynAck) = "SEND_SYN_ACK"
  BY DEF EventOf, SynAck, Packet
<1>3. EventOf(AckIn) = "RECEIVE_ACK"
  BY DEF EventOf, AckIn, Packet
<1>4. EventOf(AckOut) = "SEND_ACK"
  BY DEF EventOf, AckOut, Packet
<1>5. EventOf(FinIn) = "RECEIVE_FIN"
  BY DEF EventOf, FinIn, Packet
<1>6. EventOf(FinOut) = "SEND_FIN"
  BY DEF EventOf, FinOut, Packet
<1>7. EventOf(RstIn) = "RECEIVE_RST"
  BY DEF EventOf, RstIn, Packet
<1> QED BY <1>1, <1>2, <1>3, <1>4, <1>5, <1>6, <1>7

\* What the packets look like.
LEMMA Kinds ==
  /\ \A p \in Controls : p.len = 0 /\ p.pos = 0
  /\ \A p \in AllData : p.len = 1 /\ p.preface = FALSE
  /\ In1.dir = "in" /\ In2.dir = "in" /\ Out1.dir = "out" /\ Out2.dir = "out"
  /\ Preface.len = 2 /\ Preface.pos = 0 /\ Preface.preface = TRUE /\ Preface.dir = "in"
  /\ Two(In1, In2) /\ Two(Out1, Out2)
  /\ In1.pos = 2 /\ Out1.pos = 0
<1>1. \A p \in Controls : p.len = 0 /\ p.pos = 0
  BY DEF Controls, Syn, SynAck, AckIn, AckOut, FinIn, FinOut, RstIn, Packet
<1>2. \A p \in AllData : p.len = 1 /\ p.preface = FALSE
  BY DEF AllData, In1, In2, Out1, Out2, Packet
<1>3. In1.dir = "in" /\ In2.dir = "in" /\ Out1.dir = "out" /\ Out2.dir = "out"
  BY DEF In1, In2, Out1, Out2, Packet
<1>4. Preface.len = 2 /\ Preface.pos = 0 /\ Preface.preface = TRUE /\ Preface.dir = "in"
  BY DEF Preface
<1>5. Two(In1, In2) /\ Two(Out1, Out2) /\ In1.pos = 2 /\ Out1.pos = 0
  BY DEF Two, In1, In2, Out1, Out2, Packet
<1> QED BY <1>1, <1>2, <1>3, <1>4, <1>5

\* The packets are different.
LEMMA Distinct ==
  /\ In1 # In2 /\ Out1 # Out2
  /\ {In1, In2} \cap {Out1, Out2} = {}
  /\ Preface \notin AllData \cup Controls
  /\ Controls \cap AllData = {}
  /\ \A p \in Packets : p = Preface <=> p.preface
<1>1. In1 # In2 /\ Out1 # Out2
  BY DEF In1, In2, Out1, Out2, Packet
<1>2. {In1, In2} \cap {Out1, Out2} = {}
  BY Kinds
<1>3. Preface \notin AllData \cup Controls
  BY Kinds
<1>4. Controls \cap AllData = {}
  BY Kinds
<1>5. \A p \in Controls : p.preface = FALSE
  BY DEF Controls, Syn, SynAck, AckIn, AckOut, FinIn, FinOut, RstIn, Packet
<1> QED BY <1>1, <1>2, <1>3, <1>4, <1>5, Kinds DEF Packets

-----------------------------------------------------------------------------
(* ProcessTCPPkg. *)

\* ProcessTCPPkg on a packet without a payload, by the state it leads to.
LEMMA ControlStep ==
  ASSUME NEW c \in Conns, NEW p \in Controls, ProcessTCPPkg(c, p),
         NEW from, from = IF ConnStates[c] = "none" THEN "LISTEN" ELSE ConnStates[c],
         NEW to, to = Trigger(from, EventOf(p))
  PROVE  /\ RecordResponse' = RecordResponse
         /\ to = "CLOSED" =>
               /\ ConnStates' = [ConnStates EXCEPT ![c] = "none"]
               /\ ConnRepository' = [ConnRepository EXCEPT ![c] = 0]
               /\ conns' = conns
         /\ to = "ESTABLISHED" /\ from # to =>
               /\ ConnStates' = [ConnStates EXCEPT ![c] = to]
               /\ ConnRepository' = [ConnRepository EXCEPT ![c] = Len(conns) + 1]
               /\ conns' = Append(conns, NewHttp2Conn(c, p))
         /\ to # "CLOSED" /\ (to = "ESTABLISHED" => from = to) =>
               /\ ConnStates' = [ConnStates EXCEPT ![c] = to]
               /\ ConnRepository' = ConnRepository
               /\ conns' = conns
<1>1. ProcessControl(c, p) /\ RecordResponse' = RecordResponse
  BY Kinds DEF ProcessTCPPkg
<1>2. \/ /\ to = "ESTABLISHED" /\ from # to
         /\ ConnStates' = [ConnStates EXCEPT ![c] = to]
         /\ conns' = Append(conns, NewHttp2Conn(c, p))
         /\ ConnRepository' = [ConnRepository EXCEPT ![c] = Len(conns) + 1]
      \/ /\ to = "CLOSED"
         /\ ConnStates' = [ConnStates EXCEPT ![c] = "none"]
         /\ ConnRepository' = [ConnRepository EXCEPT ![c] = 0]
         /\ conns' = conns
      \/ /\ to # "CLOSED"
         /\ to = "ESTABLISHED" => from = to
         /\ ConnStates' = [ConnStates EXCEPT ![c] = to]
         /\ conns' = conns /\ ConnRepository' = ConnRepository
  BY <1>1, Zenon DEF ProcessControl, DropState, DropConnection
<1> QED BY <1>1, <1>2, Zenon

\* One buffer of the Http2Conn h changes.
SetsIn(h, b) == conns' = [conns EXCEPT ![h].in = b]
SetsOut(h, b) == conns' = [conns EXCEPT ![h].out = b]

\* A packet with a payload.
LEMMA DataStep ==
  ASSUME NEW c \in Conns, NEW p \in {Preface} \cup AllData, ProcessTCPPkg(c, p),
         NEW h, h = ConnRepository[c]
  PROVE  /\ RecordResponse' = RecordResponse
         /\ ConnRepository' = ConnRepository
         /\ ConnStates' = [ConnStates EXCEPT ![c] = IF ConnStates[c] = "none" THEN "LISTEN"
                                                    ELSE ConnStates[c]]
         /\ ConnStates[c] = "ESTABLISHED" /\ h # 0 =>
               /\ p.dir = "in" =>
                    SetsIn(h, ProcessIncoming(conns[h].in, inc[c], p))
               /\ p.dir = "out" /\ RecordResponse =>
                    SetsOut(h, AddTCP(conns[h].out, inc[c], p))
               /\ p.dir = "out" /\ ~ RecordResponse => conns' = conns
         /\ ~ (ConnStates[c] = "ESTABLISHED" /\ h # 0) => conns' = conns
<1>1. ProcessData(c, p) /\ RecordResponse' = RecordResponse
  BY Kinds DEF ProcessTCPPkg
<1> QED BY <1>1 DEF ProcessData, SetsIn, SetsOut

\* Whatever the packet, the maps stay well formed.
LEMMA MapsStep ==
  ASSUME VarsInv, NEW c \in Conns, NEW p \in Packets, ProcessTCPPkg(c, p)
  PROVE  /\ RecordResponse' = RecordResponse
         /\ ConnStates' \in [Conns -> KeptStates]
         /\ ConnRepository' \in [Conns -> Nat]
         /\ \A d \in Conns \ {c} : /\ ConnStates'[d] = ConnStates[d]
                                   /\ ConnRepository'[d] = ConnRepository[d]
<1>1. /\ ConnStates \in [Conns -> KeptStates] /\ ConnRepository \in [Conns -> Nat]
      /\ Len(conns) \in Nat
  BY DEF VarsInv, KeptStates
<1>2. CASE p \in Controls
  <2> DEFINE from == IF ConnStates[c] = "none" THEN "LISTEN" ELSE ConnStates[c]
             to == Trigger(from, EventOf(p))
  <2>1. from \in {"LISTEN", "SYN-RECEIVED-1", "SYN-RECEIVED-2", "ESTABLISHED", "CLOSE_WAIT",
                  "LAST_ACK"}
    BY <1>1 DEF States, KeptStates
  <2>2. to \in States
    BY <2>1, TriggerTable DEF States
  <2> HIDE DEF from, to
  <2>3. /\ RecordResponse' = RecordResponse
        /\ \/ /\ ConnStates' = [ConnStates EXCEPT ![c] = "none"]
              /\ ConnRepository' = [ConnRepository EXCEPT ![c] = 0]
           \/ /\ to # "CLOSED"
              /\ ConnStates' = [ConnStates EXCEPT ![c] = to]
              /\ ConnRepository' \in {ConnRepository, [ConnRepository EXCEPT ![c] = Len(conns) + 1]}
    BY <1>2, ControlStep DEF from, to
  <2>4. "none" \in KeptStates /\ (to # "CLOSED" => to \in KeptStates)
    BY <2>2 DEF KeptStates
  <2> QED BY <1>1, <2>3, <2>4
<1>3. CASE p \in {Preface} \cup AllData
  <2>1. (IF ConnStates[c] = "none" THEN "LISTEN" ELSE ConnStates[c]) \in KeptStates
    BY <1>1 DEF States, KeptStates
  <2>2. /\ RecordResponse' = RecordResponse
        /\ ConnRepository' = ConnRepository
        /\ ConnStates' = [ConnStates EXCEPT ![c] = IF ConnStates[c] = "none" THEN "LISTEN"
                                                    ELSE ConnStates[c]]
    BY <1>3, DataStep
  <2> QED BY <1>1, <2>1, <2>2
<1> QED BY <1>2, <1>3 DEF Packets

\* What a step about c leaves alone
OthersKept(c) ==
    /\ \A h \in DOMAIN conns : /\ h \in DOMAIN conns'
                               /\ conns'[h].dc = conns[h].dc
                               /\ conns'[h].inc = conns[h].inc
                               /\ conns[h].dc # c => conns'[h] = conns[h]
    /\ \A h \in DOMAIN conns' : h \notin DOMAIN conns => conns'[h].dc = c

\* The stage of a connection that the step is not about stays.
LEMMA StageFrame ==
  ASSUME NEW c, NEW d, c # d, Stage(d), OthersKept(c),
         RecordResponse' = RecordResponse,
         ConnStates'[d] = ConnStates[d], ConnRepository'[d] = ConnRepository[d],
         inc'[d] = inc[d], plan'[d] = plan[d], seen'[d] = seen[d], dups'[d] = dups[d]
  PROVE  Stage(d)'
<1>1. \A h \in DOMAIN conns' : conns'[h].dc = d => h \in DOMAIN conns /\ conns'[h] = conns[h]
  BY DEF OthersKept
<1>2. \A h \in DOMAIN conns : h \in DOMAIN conns' /\ conns'[h].dc = conns[h].dc
                              /\ conns'[h].inc = conns[h].inc
                              /\ (conns[h].dc = d => conns'[h] = conns[h])
  BY DEF OthersKept
<1>3. NoneYet(d) => NoneYet(d)'
  BY <1>1 DEF NoneYet
<1>4. ASSUME NEW h, Its(d, h) PROVE Its(d, h)' /\ conns'[h] = conns[h] /\ conns[h].dc = d
                                    /\ h \in DOMAIN conns /\ h \in DOMAIN conns'
  <2>1. h \in DOMAIN conns /\ conns[h].dc = d /\ conns[h].inc = inc[d]
    BY <1>4 DEF Its
  <2>2. ASSUME NEW g \in DOMAIN conns', conns'[g].dc = d, conns'[g].inc = inc'[d] PROVE g = h
    BY <1>1, <1>4, <2>2 DEF Its
  <2> QED BY <2>1, <2>2, <1>2 DEF Its
<1>5. ASSUME NEW h, Its(d, h), Fed(d, h) PROVE Fed(d, h)'
  BY <1>4, <1>5 DEF Fed
<1>6. ASSUME NEW h, Its(d, h), Mapped(d, h) PROVE Mapped(d, h)'
  BY <1>4, <1>6 DEF Mapped
<1>10. CASE Unused(d)
  BY <1>10 DEF Unused, Stage
<1>11. CASE Opening(d)
  BY <1>11, <1>3 DEF Opening, Stage
<1>12. CASE Received(d)
  BY <1>12, <1>3 DEF Received, Stage
<1>13. CASE Answered(d)
  BY <1>13, <1>3 DEF Answered, Stage
<1>14. CASE Established(d)
  BY <1>14, <1>4 DEF Established, Stage
<1>15. CASE Transfer(d)
  BY <1>15, <1>4, <1>5, <1>6 DEF Transfer, Stage
<1>16. CASE Closes(d)
  BY <1>16, <1>4, <1>5, <1>6 DEF Closes, Stage
<1>17. CASE LastAck(d)
  BY <1>17, <1>4, <1>5, <1>6 DEF LastAck, Stage
<1>18. CASE Early(d)
  BY <1>18, <1>4, <1>5 DEF Early, Stage
<1>19. CASE Ended(d)
  BY <1>19, <1>4, <1>5 DEF Ended, Stage
<1> QED BY <1>10, <1>11, <1>12, <1>13, <1>14, <1>15, <1>16, <1>17, <1>18, <1>19 DEF Stage

\* Every plan is a sequence of bursts of packets.
LEMMA Plans ==
  LET P == Seq(SUBSET Packets)
  IN  /\ FinalAck \in P /\ ServerFin \in P /\ ServerAck \in P
      /\ Endings \subseteq P
      /\ \A e \in Endings : /\ Feeding(e) \in P /\ Prefaced(e) \in P /\ Third(e) \in P
                            /\ Second(e) \in P /\ Whole(e) \in P
      /\ SUBSET AllData \subseteq SUBSET Packets
<1> DEFINE P == Seq(SUBSET Packets)
<1>0. /\ {FinIn} \in SUBSET Packets /\ {RstIn} \in SUBSET Packets /\ {AckOut} \in SUBSET Packets
      /\ {FinOut} \in SUBSET Packets /\ {AckIn} \in SUBSET Packets /\ {SynAck} \in SUBSET Packets
      /\ {Syn} \in SUBSET Packets /\ {Preface} \in SUBSET Packets /\ AllData \in SUBSET Packets
  BY DEF Packets, Controls
<1>a. ASSUME NEW x \in SUBSET Packets, NEW s \in P PROVE <<x>> \o s \in P
  BY ConsHead
<1>b. <<>> \in P
  BY EmptySeq
<1> HIDE DEF P
<1>1. FinalAck \in P
  BY <1>0, <1>a, <1>b DEF FinalAck
<1>2. ServerFin \in P
  BY <1>0, <1>a, <1>1 DEF ServerFin
<1>3. ServerAck \in P
  BY <1>0, <1>a, <1>2 DEF ServerAck
<1>4. Endings \subseteq P
  BY <1>0, <1>a, <1>b, <1>2, <1>3 DEF Endings
<1>5. ASSUME NEW e \in Endings
      PROVE  Feeding(e) \in P /\ Prefaced(e) \in P /\ Third(e) \in P /\ Second(e) \in P /\ Whole(e) \in P
  <2>1. Feeding(e) \in P
    BY <1>0, <1>a, <1>4 DEF Feeding
  <2>2. Prefaced(e) \in P
    BY <1>0, <1>a, <2>1 DEF Prefaced
  <2>3. Third(e) \in P
    BY <1>0, <1>a, <2>2 DEF Third
  <2>4. Second(e) \in P
    BY <1>0, <1>a, <2>3 DEF Second
  <2>5. Whole(e) \in P
    BY <1>0, <1>a, <2>4 DEF Whole
  <2> QED BY <2>1, <2>2, <2>3, <2>4, <2>5
<1>6. SUBSET AllData \subseteq SUBSET Packets
  BY DEF Packets
<1> QED BY <1>1, <1>2, <1>3, <1>4, <1>5, <1>6 DEF P

\* Capturing a packet of the burst d.
LEMMA CapturedFrom ==
  ASSUME VarsInv, NEW c \in Conns, Captured(c),
         NEW d \in SUBSET Packets, NEW r \in Seq(SUBSET Packets), plan[c] = <<d>> \o r
  PROVE  \E p \in d : /\ ProcessTCPPkg(c, p)
                      /\ plan'[c] = IF d = {p} THEN r ELSE <<d \ {p}>> \o r
                      /\ seen'[c] = seen[c] \cup {p}
<1>1. Head(plan[c]) = d /\ Tail(plan[c]) = r
  BY ConsHead
<1>2. PICK p \in d : /\ plan' = [plan EXCEPT ![c] = IF Head(plan[c]) = {p} THEN Tail(plan[c])
                                                    ELSE <<Head(plan[c]) \ {p}>> \o Tail(plan[c])]
                     /\ seen' = [seen EXCEPT ![c] = seen[c] \cup {p}]
                     /\ ProcessTCPPkg(c, p)
  BY <1>1, Zenon DEF Captured
<1>3. plan \in [Conns -> Seq(SUBSET Packets)] /\ seen \in [Conns -> SUBSET Packets]
  BY DEF VarsInv
<1>4. plan'[c] = IF d = {p} THEN r ELSE <<d \ {p}>> \o r
  BY <1>1, <1>2, <1>3
<1>7. seen'[c] = seen[c] \cup {p}
  BY <1>2, <1>3
<1> QED BY <1>2, <1>4, <1>7

\* Capturing the packet of a burst of one.
LEMMA CapturedOne ==
  ASSUME VarsInv, NEW c \in Conns, Captured(c),
         NEW p \in Packets, NEW r \in Seq(SUBSET Packets), plan[c] = <<{p}>> \o r
  PROVE  ProcessTCPPkg(c, p) /\ plan'[c] = r /\ seen'[c] = seen[c] \cup {p}
<1>1. {p} \in SUBSET Packets
  OBVIOUS
<1>2. PICK q \in {p} : /\ ProcessTCPPkg(c, q)
                       /\ plan'[c] = IF {p} = {q} THEN r ELSE <<{p} \ {q}>> \o r
                       /\ seen'[c] = seen[c] \cup {q}
  BY <1>1, CapturedFrom
<1> QED BY <1>2

\* What Captured does to the network, and to which connection.
LEMMA CapturedFrame ==
  ASSUME VarsInv, NEW c \in Conns, Captured(c)
  PROVE  /\ plan[c] # <<>> /\ inc' = inc /\ dups' = dups
         /\ plan' \in [Conns -> Seq(SUBSET Packets)] /\ seen' \in [Conns -> SUBSET Packets]
         /\ \A d \in Conns \ {c} : plan'[d] = plan[d] /\ seen'[d] = seen[d]
         /\ \E p \in Packets : ProcessTCPPkg(c, p)
<1>1. PICK p \in Head(plan[c]) :
                     /\ plan' = [plan EXCEPT ![c] = IF Head(plan[c]) = {p} THEN Tail(plan[c])
                                                    ELSE <<Head(plan[c]) \ {p}>> \o Tail(plan[c])]
                     /\ seen' = [seen EXCEPT ![c] = seen[c] \cup {p}]
                     /\ ProcessTCPPkg(c, p)
  BY Zenon DEF Captured
<1>2. plan[c] # <<>> /\ inc' = inc /\ dups' = dups
  BY DEF Captured
<1>3. plan \in [Conns -> Seq(SUBSET Packets)] /\ seen \in [Conns -> SUBSET Packets]
  BY DEF VarsInv
<1>4. p \in Packets
  BY <1>2, <1>3
<1>5. Tail(plan[c]) \in Seq(SUBSET Packets)
  BY <1>2, <1>3
<1>6. <<Head(plan[c]) \ {p}>> \o Tail(plan[c]) \in Seq(SUBSET Packets)
  <2>1. Head(plan[c]) \ {p} \in SUBSET Packets
    BY <1>2, <1>3
  <2> QED BY <2>1, <1>5, ConsHead
<1> QED BY <1>1, <1>2, <1>3, <1>4, <1>5, <1>6

\* What Recaptured does to the network, and to which connection.
LEMMA RecapturedFrame ==
  ASSUME VarsInv, InScope, NEW c \in Conns, Recaptured(c)
  PROVE  /\ inc' = inc /\ plan' = plan /\ seen' = seen
         /\ dups[c] < MaxDups /\ dups' = [dups EXCEPT ![c] = dups[c] + 1]
         /\ dups'[c] = dups[c] + 1
         /\ dups' \in [Conns -> 0 .. MaxDups]
         /\ \E p \in seen[c] : p # Preface /\ p \in Packets /\ ProcessTCPPkg(c, p)
<1>1. /\ inc' = inc /\ plan' = plan /\ seen' = seen
      /\ dups[c] < MaxDups /\ dups' = [dups EXCEPT ![c] = dups[c] + 1]
  BY DEF Recaptured
<1>2. dups \in [Conns -> 0 .. MaxDups] /\ seen[c] \in SUBSET Packets /\ MaxDups \in Nat
  BY ProcessorAssumption DEF VarsInv
<1>3. PICK p \in seen[c] : (PrefaceAlone => ~ p.preface) /\ ProcessTCPPkg(c, p)
  BY DEF Recaptured
<1>4. p # Preface
  BY <1>3, Kinds DEF InScope
<1> QED BY <1>1, <1>2, <1>3, <1>4

ConnsOK == conns \in Seq(ConnType) /\ ConnsInv

\* A step that leaves every Http2Conn alone.
LEMMA SameConns ==
  ASSUME VarsInv, ConnsInv, NEW c \in Conns, conns' = conns, inc' = inc,
         RecordResponse' = RecordResponse
  PROVE  /\ OthersKept(c) /\ ConnsOK'
         /\ NoneYet(c) => NoneYet(c)'
         /\ \A h : /\ Its(c, h) => Its(c, h)'
                   /\ Fed(c, h) /\ seen'[c] \cap AllData = seen[c] \cap AllData => Fed(c, h)'
                   /\ Mapped(c, h) /\ ConnRepository'[c] = ConnRepository[c] => Mapped(c, h)'
<1>1. OthersKept(c)
  BY DEF OthersKept
<1>2. ConnsOK'
  BY DEF ConnsOK, ConnsInv, VarsInv
<1>3. NoneYet(c) => NoneYet(c)'
  BY DEF NoneYet
<1>4. ASSUME NEW h, Its(c, h) PROVE Its(c, h)'
  BY <1>4 DEF Its
<1>5. ASSUME NEW h, Fed(c, h), seen'[c] \cap AllData = seen[c] \cap AllData PROVE Fed(c, h)'
  <2>1. /\ seen'[c] \cap {In1, In2} = seen[c] \cap {In1, In2}
        /\ seen'[c] \cap {Out1, Out2} = seen[c] \cap {Out1, Out2}
    BY <1>5 DEF AllData
  <2> QED BY <1>5, <2>1 DEF Fed
<1>6. ASSUME NEW h, Mapped(c, h), ConnRepository'[c] = ConnRepository[c] PROVE Mapped(c, h)'
  BY <1>6 DEF Mapped
<1> QED BY <1>1, <1>2, <1>3, <1>4, <1>5, <1>6

-----------------------------------------------------------------------------
(* Captured, stage by stage. *)

\* The SYN is captured.
LEMMA OpeningCaptured ==
  ASSUME VarsInv, ConnsInv, NEW c \in Conns, Opening(c), Captured(c)
  PROVE  Stage(c)' /\ OthersKept(c) /\ ConnsOK'
<1>1. PICK e \in Endings : plan[c] = Whole(e)
  BY DEF Opening
<1>2. /\ ProcessTCPPkg(c, Syn) /\ plan'[c] = Second(e) /\ seen'[c] = {Syn}
      /\ inc' = inc
  <2>1. Syn \in Packets /\ plan[c] = <<{Syn}>> \o Second(e) /\ seen[c] = {}
    BY <1>1 DEF Opening, Whole, Packets, Controls
  <2>2. ProcessTCPPkg(c, Syn) /\ plan'[c] = Second(e) /\ seen'[c] = seen[c] \cup {Syn}
    BY <2>1, CapturedOne, Plans
  <2> QED BY <2>1, <2>2, CapturedFrame
<1>3. /\ ConnStates[c] \in Quiet /\ ConnRepository[c] = 0 /\ inc[c] > 0 /\ NoneYet(c)
      /\ ConnStates \in [Conns -> KeptStates]
  BY DEF Opening, VarsInv
<1>4. /\ ConnStates'[c] \in {"SYN-RECEIVED-1", "SYN-RECEIVED-2"}
      /\ ConnRepository' = ConnRepository /\ conns' = conns /\ RecordResponse' = RecordResponse
  <2> DEFINE from == IF ConnStates[c] = "none" THEN "LISTEN" ELSE ConnStates[c]
             to == Trigger(from, EventOf(Syn))
  <2>1. Syn \in Controls
    BY DEF Controls
  <2>2. to \in {"SYN-RECEIVED-1", "SYN-RECEIVED-2"}
    BY <1>3, Events, TriggerTable DEF Quiet
  <2> HIDE DEF from, to
  <2>3. /\ RecordResponse' = RecordResponse /\ ConnStates' = [ConnStates EXCEPT ![c] = to]
        /\ ConnRepository' = ConnRepository /\ conns' = conns
    BY <1>2, <2>1, <2>2, ControlStep DEF from, to
  <2> QED BY <1>3, <2>2, <2>3
<1>5. OthersKept(c) /\ ConnsOK' /\ NoneYet(c)'
  BY <1>2, <1>3, <1>4, SameConns
<1>6. Received(c)'
  BY <1>2, <1>3, <1>4, <1>5 DEF Received
<1> QED BY <1>5, <1>6 DEF Stage

\* The server's SYN and ACK are captured.
LEMMA ReceivedCaptured ==
  ASSUME VarsInv, ConnsInv, NEW c \in Conns, Received(c), Captured(c)
  PROVE  Stage(c)' /\ OthersKept(c) /\ ConnsOK'
<1>1. PICK e \in Endings : plan[c] = Second(e)
  BY DEF Received
<1>2. /\ ProcessTCPPkg(c, SynAck) /\ plan'[c] = Third(e) /\ seen'[c] = {Syn, SynAck}
      /\ inc' = inc
  <2>1. SynAck \in Packets /\ plan[c] = <<{SynAck}>> \o Third(e) /\ seen[c] = {Syn}
    BY <1>1 DEF Received, Second, Packets, Controls
  <2>2. ProcessTCPPkg(c, SynAck) /\ plan'[c] = Third(e) /\ seen'[c] = seen[c] \cup {SynAck}
    BY <2>1, CapturedOne, Plans
  <2> QED BY <2>1, <2>2, CapturedFrame
<1>3. /\ ConnStates[c] \in {"SYN-RECEIVED-1", "SYN-RECEIVED-2"}
      /\ ConnRepository[c] = 0 /\ inc[c] > 0 /\ NoneYet(c)
      /\ ConnStates \in [Conns -> KeptStates]
  BY DEF Received, VarsInv
<1>4. /\ ConnStates'[c] = "SYN-RECEIVED-2"
      /\ ConnRepository' = ConnRepository /\ conns' = conns /\ RecordResponse' = RecordResponse
  <2>1. SynAck \in Controls
    BY DEF Controls
  <2>2. Trigger(ConnStates[c], EventOf(SynAck)) = "SYN-RECEIVED-2"
    BY <1>3, Events, TriggerTable
  <2>3. /\ RecordResponse' = RecordResponse
        /\ ConnStates' = [ConnStates EXCEPT ![c] = "SYN-RECEIVED-2"]
        /\ ConnRepository' = ConnRepository /\ conns' = conns
    BY <1>2, <1>3, <2>1, <2>2, ControlStep
  <2> QED BY <1>3, <2>3
<1>5. OthersKept(c) /\ ConnsOK' /\ NoneYet(c)'
  BY <1>2, <1>3, <1>4, SameConns
<1>6. Answered(c)'
  BY <1>2, <1>3, <1>4, <1>5 DEF Answered
<1> QED BY <1>5, <1>6 DEF Stage

\* The handshake is complete: the Http2Conn is created.
LEMMA AnsweredCaptured ==
  ASSUME VarsInv, ConnsInv, NEW c \in Conns, Answered(c), Captured(c)
  PROVE  Stage(c)' /\ OthersKept(c) /\ ConnsOK'
<1>1. PICK e \in Endings : plan[c] = Third(e)
  BY DEF Answered
<1>2. /\ ProcessTCPPkg(c, AckIn) /\ plan'[c] = Prefaced(e) /\ seen'[c] = {Syn, SynAck, AckIn}
      /\ inc' = inc
  <2>1. AckIn \in Packets /\ plan[c] = <<{AckIn}>> \o Prefaced(e) /\ seen[c] = {Syn, SynAck}
    BY <1>1 DEF Answered, Third, Packets, Controls
  <2>2. ProcessTCPPkg(c, AckIn) /\ plan'[c] = Prefaced(e) /\ seen'[c] = seen[c] \cup {AckIn}
    BY <2>1, CapturedOne, Plans
  <2> QED BY <2>1, <2>2, CapturedFrame
<1>3. /\ ConnStates[c] = "SYN-RECEIVED-2" /\ inc[c] > 0 /\ NoneYet(c)
      /\ ConnStates \in [Conns -> KeptStates] /\ ConnRepository \in [Conns -> Nat]
      /\ inc \in [Conns -> 0 .. MaxInc] /\ conns \in Seq(ConnType)
  BY DEF Answered, VarsInv
<1>n. PICK n : n = Len(conns) + 1
  OBVIOUS
<1> DEFINE new == [dc |-> c, inc |-> inc[c], in |-> Buffer(inc[c], 1),
                   out |-> Held(Out1, Out2, inc[c], {}), left |-> FALSE]
<1>4. /\ ConnStates' = [ConnStates EXCEPT ![c] = "ESTABLISHED"]
      /\ ConnRepository' = [ConnRepository EXCEPT ![c] = n]
      /\ conns' = Append(conns, new) /\ RecordResponse' = RecordResponse
  <2>1. AckIn \in Controls
    BY DEF Controls
  <2>2. Trigger(ConnStates[c], EventOf(AckIn)) = "ESTABLISHED"
    BY <1>3, Events, TriggerTable
  <2>3. /\ RecordResponse' = RecordResponse
        /\ ConnStates' = [ConnStates EXCEPT ![c] = "ESTABLISHED"]
        /\ ConnRepository' = [ConnRepository EXCEPT ![c] = n]
        /\ conns' = Append(conns, NewHttp2Conn(c, AckIn))
    BY <1>2, <1>3, <1>n, <2>1, <2>2, ControlStep
  <2>4. NewHttp2Conn(c, AckIn) = new
    <3>1. AckIn.pos + 1 = 1
      BY <2>1, Kinds
    <3>2. Buffer(inc[c], 0) = Held(Out1, Out2, inc[c], {})
      BY Kinds DEF Buffer, Held
    <3> QED BY <3>1, <3>2 DEF NewHttp2Conn
  <2> QED BY <2>3, <2>4
<1>5. new \in ConnType
  <2>1. inc[c] \in 1 .. MaxInc
    BY <1>3
  <2>2. Buffer(inc[c], 1) \in {Buffer(i, 1) : i \in 1 .. MaxInc}
    BY <2>1
  <2>3. Held(Out1, Out2, inc[c], {}) \in Buffers(Out1, Out2)
    BY <2>1 DEF Buffers
  <2> QED BY <2>1, <2>2, <2>3 DEF ConnType
<1> HIDE DEF new
<1>6. /\ conns' \in Seq(ConnType) /\ DOMAIN conns' = 1 .. n /\ DOMAIN conns = 1 .. Len(conns)
      /\ \A h \in DOMAIN conns : conns'[h] = conns[h]
      /\ conns'[n] = new /\ n \in Nat /\ n \in DOMAIN conns' /\ n \notin DOMAIN conns
      /\ \A h \in DOMAIN conns' : h = n \/ h \in DOMAIN conns
  BY <1>3, <1>4, <1>5, <1>n
<1>7. /\ new.dc = c /\ new.inc = inc[c] /\ new.in = Buffer(inc[c], 1) /\ new.left = FALSE
      /\ new.out = Held(Out1, Out2, inc[c], {})
      /\ new.in.inc = inc[c] /\ new.out.inc = inc[c]
  BY DEF new, Buffer, Held
<1>8. OthersKept(c)
  BY <1>6, <1>7 DEF OthersKept
<1>9. ConnsOK'
  <2>1. \A h \in DOMAIN conns' : /\ conns'[h].inc <= inc'[conns'[h].dc]
                                 /\ conns'[h].in.inc = conns'[h].inc
                                 /\ conns'[h].out.inc = conns'[h].inc
    <3>1. inc[c] <= inc[c]
      BY <1>3
    <3> QED BY <1>2, <1>6, <1>7, <3>1 DEF ConnsInv
  <2> QED BY <2>1, <1>6 DEF ConnsOK, ConnsInv
<1>10. Its(c, n)'
  <2>2. \A g \in DOMAIN conns' : conns'[g].dc = c /\ conns'[g].inc = inc[c] <=> g = n
    BY <1>3, <1>6, <1>7 DEF NoneYet
  <2> QED BY <2>2, <1>2, <1>6 DEF Its
<1>11. Established(c)'
  <2>1. ConnStates'[c] = "ESTABLISHED" /\ ConnRepository'[c] = n
    BY <1>3, <1>4
  <2> QED BY <1>2, <1>3, <2>1, <1>6, <1>7, <1>10 DEF Established
<1> QED BY <1>8, <1>9, <1>11 DEF Stage

\* The Http2Conn of c is replaced.
LEMMA UpdateConn ==
  ASSUME VarsInv, ConnsInv, NEW c \in Conns, NEW h, Its(c, h), inc' = inc,
         NEW new \in ConnType, new.dc = c, new.inc = inc[c], new.in.inc = inc[c],
         new.out.inc = inc[c], conns' = [conns EXCEPT ![h] = new]
  PROVE  OthersKept(c) /\ ConnsOK' /\ Its(c, h)' /\ conns'[h] = new
<1>1. /\ h \in DOMAIN conns /\ conns[h].dc = c /\ conns[h].inc = inc[c]
      /\ conns \in Seq(ConnType) /\ inc \in [Conns -> 0 .. MaxInc]
  BY DEF Its, VarsInv
<1>2. /\ conns' \in Seq(ConnType) /\ DOMAIN conns' = DOMAIN conns /\ conns'[h] = new
      /\ \A g \in DOMAIN conns : g # h => conns'[g] = conns[g]
  BY <1>1
<1>3. OthersKept(c)
  BY <1>1, <1>2 DEF OthersKept
<1>4. ConnsOK'
  <2>1. \A g \in DOMAIN conns' : /\ conns'[g].inc <= inc'[conns'[g].dc]
                                 /\ conns'[g].in.inc = conns'[g].inc
                                 /\ conns'[g].out.inc = conns'[g].inc
    <3>1. inc[c] <= inc[c]
      BY <1>1
    <3> QED BY <1>1, <1>2, <3>1 DEF ConnsInv
  <2> QED BY <2>1, <1>2 DEF ConnsOK, ConnsInv
<1>5. Its(c, h)'
  BY <1>1, <1>2 DEF Its
<1> QED BY <1>2, <1>3, <1>4, <1>5

\* The type of a buffer.
LEMMA HeldTyped ==
  ASSUME NEW a, NEW b, NEW i \in 1 .. MaxInc, NEW s \in SUBSET {a, b}
  PROVE  Held(a, b, i, s) \in Buffers(a, b) /\ Held(a, b, i, s).inc = i
<1>1. Held(a, b, i, s) \in Buffers(a, b)
  BY DEF Buffers
<1>2. Held(a, b, i, s).inc = i
  BY DEF Held
<1> QED BY <1>1, <1>2

\* The buffers of the Http2Conn of c are replaced.
LEMMA UpdateIn ==
  ASSUME VarsInv, ConnsInv, NEW c \in Conns, NEW h, Its(c, h), inc' = inc, inc[c] > 0,
         NEW s \in SUBSET {In1, In2},
         SetsIn(h, Held(In1, In2, inc[c], s))
  PROVE  /\ OthersKept(c) /\ ConnsOK' /\ Its(c, h)'
         /\ conns'[h].in = Held(In1, In2, inc[c], s)
         /\ conns'[h].out = conns[h].out /\ conns'[h].left = conns[h].left
<1> DEFINE b == Held(In1, In2, inc[c], s)
           new == [conns[h] EXCEPT !.in = b]
<1>1. /\ h \in DOMAIN conns /\ conns[h].dc = c /\ conns[h].inc = inc[c]
      /\ conns \in Seq(ConnType) /\ inc[c] \in 1 .. MaxInc
  BY DEF Its, VarsInv
<1>2. b \in Buffers(In1, In2) /\ b.inc = inc[c]
  <2>1. inc[c] \in 1 .. MaxInc
    BY <1>1
  <2> QED BY <2>1, HeldTyped
<1>3. conns[h] \in ConnType /\ conns[h].out.inc = inc[c]
  BY <1>1 DEF ConnsInv
<1> HIDE DEF b
<1>4. /\ new \in ConnType /\ new.dc = c /\ new.inc = inc[c] /\ new.in = b
      /\ new.out = conns[h].out /\ new.left = conns[h].left
  BY <1>1, <1>2, <1>3 DEF ConnType
<1>5. conns' = [conns EXCEPT ![h] = new]
  BY DEF b, SetsIn
<1> HIDE DEF new
<1>6. new.in.inc = inc[c] /\ new.out.inc = inc[c]
  BY <1>2, <1>3, <1>4
<1>7. OthersKept(c) /\ ConnsOK' /\ Its(c, h)' /\ conns'[h] = new
  <2>1. new \in ConnType /\ new.dc = c /\ new.inc = inc[c]
    BY <1>4
  <2> QED BY <2>1, <1>5, <1>6, UpdateConn
<1> QED BY <1>4, <1>7 DEF b

\* The same of the server's packets.
LEMMA UpdateOut ==
  ASSUME VarsInv, ConnsInv, NEW c \in Conns, NEW h, Its(c, h), inc' = inc, inc[c] > 0,
         NEW t \in SUBSET {Out1, Out2},
         SetsOut(h, Held(Out1, Out2, inc[c], t))
  PROVE  /\ OthersKept(c) /\ ConnsOK' /\ Its(c, h)'
         /\ conns'[h].out = Held(Out1, Out2, inc[c], t)
         /\ conns'[h].in = conns[h].in /\ conns'[h].left = conns[h].left
<1> DEFINE b == Held(Out1, Out2, inc[c], t)
           new == [conns[h] EXCEPT !.out = b]
<1>1. /\ h \in DOMAIN conns /\ conns[h].dc = c /\ conns[h].inc = inc[c]
      /\ conns \in Seq(ConnType) /\ inc[c] \in 1 .. MaxInc
  BY DEF Its, VarsInv
<1>2. b \in Buffers(Out1, Out2) /\ b.inc = inc[c]
  <2>1. inc[c] \in 1 .. MaxInc
    BY <1>1
  <2> QED BY <2>1, HeldTyped
<1>3. conns[h] \in ConnType /\ conns[h].in.inc = inc[c]
  BY <1>1 DEF ConnsInv
<1> HIDE DEF b
<1>4. /\ new \in ConnType /\ new.dc = c /\ new.inc = inc[c] /\ new.out = b
      /\ new.in = conns[h].in /\ new.left = conns[h].left
  BY <1>1, <1>2, <1>3 DEF ConnType
<1>5. conns' = [conns EXCEPT ![h] = new]
  BY DEF b, SetsOut
<1> HIDE DEF new
<1>6. new.in.inc = inc[c] /\ new.out.inc = inc[c]
  BY <1>2, <1>3, <1>4
<1>7. OthersKept(c) /\ ConnsOK' /\ Its(c, h)' /\ conns'[h] = new
  <2>1. new \in ConnType /\ new.dc = c /\ new.inc = inc[c]
    BY <1>4
  <2> QED BY <2>1, <1>5, <1>6, UpdateConn
<1> QED BY <1>4, <1>7 DEF b

Buf(i, e, l, gs) == [inc |-> i, expected |-> e, list |-> l, got |-> gs]

\* SetExpectedSeq on a buffer, as a record.
LEMMA Expects ==
  ASSUME NEW i, NEW e, NEW l, NEW gs, NEW e2
  PROVE  SetExpectedSeq(Buf(i, e, l, gs), i, e2) = Buf(i, e2, l, gs)
<1>1. [[inc |-> i, expected |-> e, list |-> l, got |-> gs] EXCEPT !.inc = i]
        = [inc |-> i, expected |-> e, list |-> l, got |-> gs]
  OBVIOUS
<1>2. [[inc |-> i, expected |-> e, list |-> l, got |-> gs] EXCEPT !.expected = e2]
        = [inc |-> i, expected |-> e2, list |-> l, got |-> gs]
  OBVIOUS
<1> QED BY <1>1, <1>2 DEF SetExpectedSeq, Buf

\* The preface sets the position of the first data packet.
LEMMA PrefaceSets ==
  ASSUME NEW i
  PROVE  ProcessIncoming(Buffer(i, 1), i, Preface) = Held(In1, In2, i, {})
<1>1. SetExpectedSeq(Buf(i, 1, {}, <<>>), i, 2) = Buf(i, 2, {}, <<>>)
  BY Expects
<1>2. Buffer(i, 1) = Buf(i, 1, {}, <<>>)
  BY DEF Buffer, Buf
<1>3. Held(In1, In2, i, {}) = Buf(i, 2, {}, <<>>)
  BY Kinds DEF Held, Buf
<1>4. ProcessIncoming(Buffer(i, 1), i, Preface) = SetExpectedSeq(Buffer(i, 1), i, 2)
  <2>1. Preface.pos + Preface.len = 2 /\ Preface.preface
    BY Kinds
  <2> QED BY <2>1 DEF ProcessIncoming
<1> QED BY <1>1, <1>2, <1>3, <1>4

\* The preface is captured: the Http2Conn is ready for the first data packet.
LEMMA EstablishedCaptured ==
  ASSUME InScope, VarsInv, ConnsInv, NEW c \in Conns, Established(c), Captured(c)
  PROVE  Stage(c)' /\ OthersKept(c) /\ ConnsOK'
<1>1. PICK e \in Endings : plan[c] = Prefaced(e)
  BY DEF Established
<1>2. PICK h \in DOMAIN conns : /\ Its(c, h) /\ ConnRepository[c] = h /\ conns[h].left = FALSE
                                /\ conns[h].in = Buffer(inc[c], 1)
                                /\ conns[h].out = Held(Out1, Out2, inc[c], {})
  BY DEF Established
<1>3. /\ ProcessTCPPkg(c, Preface) /\ plan'[c] = Feeding(e)
      /\ seen'[c] = {Syn, SynAck, AckIn, Preface} /\ inc' = inc
  <2>1. Preface \in Packets /\ plan[c] = <<{Preface}>> \o Feeding(e) /\ seen[c] = {Syn, SynAck, AckIn}
    BY <1>1 DEF Established, Prefaced, Packets
  <2>2. ProcessTCPPkg(c, Preface) /\ plan'[c] = Feeding(e) /\ seen'[c] = seen[c] \cup {Preface}
    BY <2>1, CapturedOne, Plans
  <2> QED BY <2>1, <2>2, CapturedFrame
<1>4. /\ ConnStates[c] = "ESTABLISHED" /\ inc[c] > 0 /\ h # 0
      /\ ConnStates \in [Conns -> KeptStates] /\ conns \in Seq(ConnType)
  BY DEF Established, VarsInv
<1>5. /\ ConnStates'[c] = "ESTABLISHED"
      /\ ConnRepository' = ConnRepository /\ RecordResponse' = RecordResponse
      /\ SetsIn(h, Held(In1, In2, inc[c], {}))
  <2>1. ProcessIncoming(conns[h].in, inc[c], Preface) = Held(In1, In2, inc[c], {})
    BY <1>2, PrefaceSets
  <2>2. /\ RecordResponse' = RecordResponse /\ ConnRepository' = ConnRepository
        /\ ConnStates' = [ConnStates EXCEPT ![c] = IF ConnStates[c] = "none" THEN "LISTEN"
                                                    ELSE ConnStates[c]]
        /\ ConnStates[c] = "ESTABLISHED" /\ h # 0 => (Preface.dir = "in" =>
             SetsIn(h, ProcessIncoming(conns[h].in, inc[c], Preface)))
    BY <1>2, <1>3, DataStep
  <2> QED BY <1>4, <2>1, <2>2, Kinds
<1>6. /\ OthersKept(c) /\ ConnsOK' /\ Its(c, h)'
      /\ conns'[h].in = Held(In1, In2, inc[c], {})
      /\ conns'[h].out = Held(Out1, Out2, inc[c], {}) /\ conns'[h].left = FALSE
  <2>1. {} \in SUBSET {In1, In2}
    OBVIOUS
  <2> QED BY <2>1, <1>2, <1>3, <1>4, <1>5, UpdateIn
<1>7. Fed(c, h)'
  <2>1. /\ {} = seen'[c] \cap {In1, In2}
        /\ {} = seen'[c] \cap {Out1, Out2}
    <3>1. {Syn, SynAck, AckIn} \subseteq Controls
      BY DEF Controls
    <3> QED BY <1>3, <3>1, Distinct DEF AllData
  <2>2. {} \in SUBSET {In1, In2} /\ {} \in SUBSET {Out1, Out2}
    OBVIOUS
  <2> QED BY <2>1, <2>2, <1>3, <1>6 DEF Fed
<1>8. Mapped(c, h)' /\ h \in DOMAIN conns'
  BY <1>2, <1>5, <1>6 DEF Mapped, Its
<1>9. Transfer(c)'
  <2>1. AllData \in SUBSET AllData /\ AllData # {} /\ plan'[c] = <<AllData>> \o e
    BY <1>3 DEF Feeding, AllData
  <2>2. seen'[c] \subseteq {Syn, SynAck, AckIn, Preface} \cup AllData
    BY <1>3
  <2> QED BY <2>1, <2>2, <1>3, <1>4, <1>5, <1>6, <1>7, <1>8 DEF Transfer
<1> QED BY <1>6, <1>9 DEF Stage

\* A data packet of an established connection, captured first or again.
LEMMA DataFed ==
  ASSUME VarsInv, ConnsInv, NEW c \in Conns, NEW p \in AllData, ProcessTCPPkg(c, p),
         ConnStates[c] = "ESTABLISHED", inc[c] > 0, inc' = inc,
         seen'[c] = seen[c] \cup {p},
         NEW h, Its(c, h), Fed(c, h), Mapped(c, h)
  PROVE  /\ OthersKept(c) /\ ConnsOK' /\ Its(c, h)' /\ Fed(c, h)' /\ Mapped(c, h)'
         /\ ConnStates'[c] = "ESTABLISHED"
<1>1. PICK s \in SUBSET {In1, In2}, t \in SUBSET {Out1, Out2} :
        /\ conns[h].in = Held(In1, In2, inc[c], s)
        /\ conns[h].out = Held(Out1, Out2, inc[c], t)
        /\ MaxWindowSize >= 1 /\ ~ conns[h].left => s = seen[c] \cap {In1, In2}
        /\ MaxWindowSize >= 1 /\ RecordResponse /\ ~ conns[h].left => t = seen[c] \cap {Out1, Out2}
  BY DEF Fed
<1>2. /\ ConnStates \in [Conns -> KeptStates] /\ conns \in Seq(ConnType)
      /\ h \in DOMAIN conns /\ h # 0 /\ MaxWindowSize \in Nat /\ conns[h].left \in BOOLEAN
  <2>1. conns \in Seq(ConnType) /\ h \in DOMAIN conns
    BY DEF VarsInv, Its
  <2>2. conns[h] \in ConnType /\ h # 0
    BY <2>1
  <2> QED BY <2>1, <2>2, ProcessorAssumption DEF VarsInv, ConnType
<1>3. /\ RecordResponse' = RecordResponse /\ ConnRepository' = ConnRepository
      /\ ConnStates'[c] = "ESTABLISHED"
  BY <1>2, DataStep
<1>4. p.preface = FALSE
  BY Kinds
<1>5. CASE conns[h].left
  <2>1. conns' = conns
    BY <1>5, DataStep DEF Mapped
  <2>2. OthersKept(c) /\ ConnsOK' /\ Its(c, h)' /\ Mapped(c, h)'
    BY <2>1, <1>3, SameConns
  <2>4. Fed(c, h)'
    BY <1>1, <1>5, <2>1 DEF Fed
  <2> QED BY <1>3, <2>2, <2>4
<1>6. CASE ~ conns[h].left /\ p \in {In1, In2}
  <2>1. ConnRepository[c] = h
    BY <1>6 DEF Mapped
  <2>2. PICK s2 \in {s, s \cup {p}} :
          /\ AddTCP(Held(In1, In2, inc[c], s), inc[c], p) = Held(In1, In2, inc[c], s2)
          /\ MaxWindowSize >= 1 => s2 = s \cup {p}
    <3>1. OneOf(In1, In2, s, p)
      BY <1>6, Kinds DEF OneOf
    <3>2. Delivers(In1, In2, inc[c], s, p)
      BY <3>1, Delivered
    <3> QED BY <3>2 DEF Delivers
  <2>3. SetsIn(h, Held(In1, In2, inc[c], s2))
    <3>1. p.dir = "in"
      BY <1>6, Kinds
    <3>2. ProcessIncoming(conns[h].in, inc[c], p) = Held(In1, In2, inc[c], s2)
      BY <1>1, <1>4, <2>2 DEF ProcessIncoming
    <3> QED BY <3>1, <3>2, <1>2, <2>1, DataStep
  <2>4. s2 \in SUBSET {In1, In2}
    BY <1>6
  <2>5. /\ OthersKept(c) /\ ConnsOK' /\ Its(c, h)'
        /\ conns'[h].in = Held(In1, In2, inc[c], s2)
        /\ conns'[h].out = conns[h].out /\ conns'[h].left = conns[h].left
    BY <2>3, <2>4, UpdateIn
  <2>6. Mapped(c, h)'
    BY <1>3, <2>5 DEF Mapped
  <2>7. /\ MaxWindowSize >= 1 /\ ~ conns[h].left => s2 = seen'[c] \cap {In1, In2}
        /\ seen'[c] \cap {Out1, Out2} = seen[c] \cap {Out1, Out2}
    BY <1>1, <1>6, <2>2, Distinct
  <2>8. Fed(c, h)'
    BY <1>1, <1>3, <1>6, <2>4, <2>5, <2>7 DEF Fed
  <2> QED BY <1>3, <2>5, <2>6, <2>8
<1>7. CASE ~ conns[h].left /\ p \in {Out1, Out2} /\ RecordResponse
  <2>1. ConnRepository[c] = h
    BY <1>7 DEF Mapped
  <2>2. PICK t2 \in {t, t \cup {p}} :
          /\ AddTCP(Held(Out1, Out2, inc[c], t), inc[c], p) = Held(Out1, Out2, inc[c], t2)
          /\ MaxWindowSize >= 1 => t2 = t \cup {p}
    <3>1. OneOf(Out1, Out2, t, p)
      BY <1>7, Kinds DEF OneOf
    <3>2. Delivers(Out1, Out2, inc[c], t, p)
      BY <3>1, Delivered
    <3> QED BY <3>2 DEF Delivers
  <2>3. SetsOut(h, Held(Out1, Out2, inc[c], t2))
    <3>1. p.dir = "out"
      BY <1>7, Kinds
    <3>2. AddTCP(conns[h].out, inc[c], p) = Held(Out1, Out2, inc[c], t2)
      BY <1>1, <2>2
    <3>3. h = ConnRepository[c] /\ h # 0 /\ RecordResponse
      BY <1>2, <1>7, <2>1
    <3>4. SetsOut(h, AddTCP(conns[h].out, inc[c], p))
      BY <3>1, <3>3, DataStep
    <3> QED BY <3>2, <3>4
  <2>4. t2 \in SUBSET {Out1, Out2}
    BY <1>7
  <2>5. /\ OthersKept(c) /\ ConnsOK' /\ Its(c, h)'
        /\ conns'[h].out = Held(Out1, Out2, inc[c], t2)
        /\ conns'[h].in = conns[h].in /\ conns'[h].left = conns[h].left
    BY <2>3, <2>4, UpdateOut
  <2>6. Mapped(c, h)'
    BY <1>3, <2>5 DEF Mapped
  <2>7. /\ MaxWindowSize >= 1 /\ RecordResponse /\ ~ conns[h].left
             => t2 = seen'[c] \cap {Out1, Out2}
        /\ seen'[c] \cap {In1, In2} = seen[c] \cap {In1, In2}
    BY <1>1, <1>7, <2>2, Distinct
  <2>8. Fed(c, h)'
    BY <1>1, <1>3, <1>7, <2>4, <2>5, <2>7 DEF Fed
  <2> QED BY <1>3, <2>5, <2>6, <2>8
<1>8. CASE ~ conns[h].left /\ p \in {Out1, Out2} /\ ~ RecordResponse
  <2>1. conns' = conns
    <3>1. p.dir = "out" /\ ConnRepository[c] = h
      BY <1>8, Kinds DEF Mapped
    <3> QED BY <3>1, <1>2, <1>8, DataStep
  <2>2. OthersKept(c) /\ ConnsOK' /\ Its(c, h)' /\ Mapped(c, h)'
    BY <2>1, <1>3, SameConns
  <2>3. seen'[c] \cap {In1, In2} = seen[c] \cap {In1, In2}
    BY <1>8, Distinct
  <2>4. Fed(c, h)'
    BY <1>1, <1>3, <1>8, <2>1, <2>3 DEF Fed
  <2> QED BY <1>3, <2>2, <2>4
<1> QED BY <1>5, <1>6, <1>7, <1>8 DEF AllData

\* A packet without a payload that opens no connection.
LEMMA ControlKept ==
  ASSUME VarsInv, ConnsInv, NEW c \in Conns, NEW p \in Controls, ProcessTCPPkg(c, p), inc' = inc,
         NEW from, from = IF ConnStates[c] = "none" THEN "LISTEN" ELSE ConnStates[c],
         NEW to, to = Trigger(from, EventOf(p)), to = "ESTABLISHED" => from = "ESTABLISHED"
  PROVE  /\ RecordResponse' = RecordResponse /\ conns' = conns
         /\ ConnStates'[c] = IF to = "CLOSED" THEN "none" ELSE to
         /\ ConnRepository'[c] = IF to = "CLOSED" THEN 0 ELSE ConnRepository[c]
         /\ OthersKept(c) /\ ConnsOK'
<1>1. /\ ConnStates \in [Conns -> KeptStates] /\ ConnRepository \in [Conns -> Nat]
  BY DEF VarsInv
<1>2. /\ RecordResponse' = RecordResponse /\ conns' = conns
      /\ \/ /\ to = "CLOSED"
            /\ ConnStates' = [ConnStates EXCEPT ![c] = "none"]
            /\ ConnRepository' = [ConnRepository EXCEPT ![c] = 0]
         \/ /\ to # "CLOSED"
            /\ ConnStates' = [ConnStates EXCEPT ![c] = to]
            /\ ConnRepository' = ConnRepository
  BY ControlStep
<1>3. OthersKept(c) /\ ConnsOK'
  BY <1>2, SameConns
<1> QED BY <1>1, <1>2, <1>3

\* A packet with a payload of a connection that is not established.
LEMMA DataKept ==
  ASSUME VarsInv, ConnsInv, NEW c \in Conns, NEW p \in AllData, ProcessTCPPkg(c, p), inc' = inc,
         ConnStates[c] # "ESTABLISHED"
  PROVE  /\ RecordResponse' = RecordResponse /\ conns' = conns
         /\ ConnStates'[c] = IF ConnStates[c] = "none" THEN "LISTEN" ELSE ConnStates[c]
         /\ ConnRepository'[c] = ConnRepository[c]
         /\ OthersKept(c) /\ ConnsOK'
<1>1. ConnStates \in [Conns -> KeptStates]
  BY DEF VarsInv
<1>2. /\ RecordResponse' = RecordResponse /\ conns' = conns
      /\ ConnStates' = [ConnStates EXCEPT ![c] = IF ConnStates[c] = "none" THEN "LISTEN"
                                                 ELSE ConnStates[c]]
      /\ ConnRepository' = ConnRepository
  BY DataStep
<1>3. OthersKept(c) /\ ConnsOK'
  BY <1>2, SameConns
<1> QED BY <1>1, <1>2, <1>3

\* The Http2Conn of c is as it was.
LEMMA FedKept ==
  ASSUME NEW c, NEW h, Its(c, h), Fed(c, h), conns' = conns, inc' = inc,
         RecordResponse' = RecordResponse,
         \/ seen'[c] = seen[c]
         \/ \E p \in Controls : seen'[c] = seen[c] \cup {p}
  PROVE  Its(c, h)' /\ Fed(c, h)' /\ h \in DOMAIN conns'
<1>1. /\ seen'[c] \cap {In1, In2} = seen[c] \cap {In1, In2}
      /\ seen'[c] \cap {Out1, Out2} = seen[c] \cap {Out1, Out2}
  BY Distinct DEF AllData
<1>2. Its(c, h)' /\ h \in DOMAIN conns'
  BY DEF Its
<1>3. Fed(c, h)'
  BY <1>1 DEF Fed
<1> QED BY <1>2, <1>3

\* A data packet is captured for the first time.
LEMMA BurstCaptured ==
  ASSUME VarsInv, ConnsInv, NEW c \in Conns, Transfer(c), Captured(c),
         NEW e \in Endings, NEW d \in SUBSET AllData, d # {}, plan[c] = <<d>> \o e
  PROVE  Stage(c)' /\ OthersKept(c) /\ ConnsOK'
<1>1. PICK p \in d : /\ ProcessTCPPkg(c, p)
                     /\ plan'[c] = IF d = {p} THEN e ELSE <<d \ {p}>> \o e
                     /\ seen'[c] = seen[c] \cup {p}
  <2>1. d \in SUBSET Packets /\ e \in Seq(SUBSET Packets)
    BY Plans
  <2> QED BY <2>1, CapturedFrom
<1>2. PICK h \in DOMAIN conns : Its(c, h) /\ Fed(c, h) /\ Mapped(c, h)
  BY DEF Transfer
<1>3. /\ ConnStates[c] = "ESTABLISHED" /\ inc[c] > 0
      /\ seen[c] \subseteq {Syn, SynAck, AckIn, Preface} \cup AllData
  BY DEF Transfer
<1>4. inc' = inc
  BY CapturedFrame
<1>5. /\ OthersKept(c) /\ ConnsOK' /\ Its(c, h)' /\ Fed(c, h)' /\ Mapped(c, h)'
      /\ ConnStates'[c] = "ESTABLISHED"
  <2>1. p \in AllData
    OBVIOUS
  <2> QED BY <2>1, <1>1, <1>2, <1>3, <1>4, DataFed
<1>6. \/ plan'[c] = e
      \/ \E f \in SUBSET AllData : f # {} /\ plan'[c] = <<f>> \o e
  <2>1. CASE d = {p}
    BY <1>1, <2>1
  <2>2. CASE d # {p}
    <3>1. d \ {p} # {} /\ d \ {p} \in SUBSET AllData
      BY <2>2
    <3>2. plan'[c] = <<d \ {p}>> \o e
      BY <1>1, <2>2
    <3> QED BY <3>1, <3>2
  <2> QED BY <2>1, <2>2
<1>7. seen'[c] \subseteq {Syn, SynAck, AckIn, Preface} \cup AllData
  BY <1>1, <1>3
<1>8. h \in DOMAIN conns' /\ inc'[c] > 0
  BY <1>3, <1>4, <1>5 DEF Its
<1>9. Transfer(c)'
  BY <1>5, <1>6, <1>7, <1>8 DEF Transfer
<1> QED BY <1>5, <1>9 DEF Stage

\* The client closes.
LEMMA FinCaptured ==
  ASSUME VarsInv, ConnsInv, NEW c \in Conns, Transfer(c), Captured(c),
         NEW r \in {ServerAck, ServerFin}, plan[c] = <<{FinIn}>> \o r
  PROVE  Stage(c)' /\ OthersKept(c) /\ ConnsOK'
<1>1. FinIn \in Controls /\ FinIn \in Packets
  BY DEF Controls, Packets
<1>2. /\ ProcessTCPPkg(c, FinIn) /\ plan'[c] = r /\ seen'[c] = seen[c] \cup {FinIn} /\ inc' = inc
  <2>1. r \in Seq(SUBSET Packets)
    BY Plans
  <2>2. ProcessTCPPkg(c, FinIn) /\ plan'[c] = r /\ seen'[c] = seen[c] \cup {FinIn}
    BY <2>1, <1>1, CapturedOne
  <2>3. inc' = inc
    BY CapturedFrame
  <2> QED BY <2>2, <2>3
<1>3. PICK h \in DOMAIN conns : Its(c, h) /\ Fed(c, h) /\ Mapped(c, h)
  BY DEF Transfer
<1>4. /\ ConnStates[c] = "ESTABLISHED" /\ inc[c] > 0
      /\ seen[c] \subseteq {Syn, SynAck, AckIn, Preface} \cup AllData
  BY DEF Transfer
<1>5. /\ RecordResponse' = RecordResponse /\ conns' = conns /\ ConnStates'[c] = "CLOSE_WAIT"
      /\ ConnRepository'[c] = ConnRepository[c] /\ OthersKept(c) /\ ConnsOK'
  <2>1. Trigger("ESTABLISHED", EventOf(FinIn)) = "CLOSE_WAIT"
    BY Events, TriggerTable
  <2> QED BY <2>1, <1>1, <1>2, <1>4, ControlKept
<1>6. Its(c, h)' /\ Fed(c, h)' /\ h \in DOMAIN conns'
  BY <1>1, <1>2, <1>3, <1>5, FedKept
<1>7. Mapped(c, h)'
  BY <1>3, <1>5 DEF Mapped
<1>8. Closes(c)'
  BY <1>2, <1>4, <1>5, <1>6, <1>7 DEF Closes
<1> QED BY <1>5, <1>8 DEF Stage

\* The client resets the connection: it is forgotten.
LEMMA RstCaptured ==
  ASSUME VarsInv, ConnsInv, NEW c \in Conns, Transfer(c), Captured(c),
         plan[c] = <<{RstIn}>> \o <<>>
  PROVE  Stage(c)' /\ OthersKept(c) /\ ConnsOK'
<1>1. RstIn \in Controls /\ RstIn \in Packets
  BY DEF Controls, Packets
<1>2. /\ ProcessTCPPkg(c, RstIn) /\ plan'[c] = <<>> /\ seen'[c] = seen[c] \cup {RstIn} /\ inc' = inc
  <2>1. <<>> \in Seq(SUBSET Packets)
    BY EmptySeq
  <2>2. ProcessTCPPkg(c, RstIn) /\ plan'[c] = <<>> /\ seen'[c] = seen[c] \cup {RstIn}
    BY <2>1, <1>1, CapturedOne
  <2>3. inc' = inc
    BY CapturedFrame
  <2> QED BY <2>2, <2>3
<1>3. PICK h \in DOMAIN conns : Its(c, h) /\ Fed(c, h)
  BY DEF Transfer
<1>4. /\ ConnStates[c] = "ESTABLISHED" /\ inc[c] > 0
  BY DEF Transfer
<1>5. /\ RecordResponse' = RecordResponse /\ conns' = conns /\ ConnStates'[c] = "none"
      /\ ConnRepository'[c] = 0 /\ OthersKept(c) /\ ConnsOK'
  <2>1. Trigger("ESTABLISHED", EventOf(RstIn)) = "CLOSED"
    BY Events, TriggerTable
  <2> QED BY <2>1, <1>1, <1>2, <1>4, ControlKept
<1>6. Its(c, h)' /\ Fed(c, h)' /\ h \in DOMAIN conns'
  BY <1>1, <1>2, <1>3, <1>5, FedKept
<1>7. Ended(c)'
  BY <1>2, <1>4, <1>5, <1>6 DEF Ended, Quiet
<1> QED BY <1>5, <1>7 DEF Stage

\* Whatever comes next while the connection carries data.
LEMMA TransferCaptured ==
  ASSUME VarsInv, ConnsInv, NEW c \in Conns, Transfer(c), Captured(c)
  PROVE  Stage(c)' /\ OthersKept(c) /\ ConnsOK'
<1>1. PICK e \in Endings : \/ plan[c] = e
                           \/ \E d \in SUBSET AllData : d # {} /\ plan[c] = <<d>> \o e
  BY DEF Transfer
<1>2. CASE plan[c] = e
  <2>1. \/ \E r \in {ServerAck, ServerFin} : plan[c] = <<{FinIn}>> \o r
        \/ plan[c] = <<{RstIn}>> \o <<>>
    BY <1>2 DEF Endings
  <2> QED BY <2>1, FinCaptured, RstCaptured
<1>3. CASE \E d \in SUBSET AllData : d # {} /\ plan[c] = <<d>> \o e
  BY <1>3, BurstCaptured
<1> QED BY <1>1, <1>2, <1>3

\* The server's ACK or FIN after the client's FIN.
LEMMA ClosesCaptured ==
  ASSUME VarsInv, ConnsInv, NEW c \in Conns, Closes(c), Captured(c)
  PROVE  Stage(c)' /\ OthersKept(c) /\ ConnsOK'
<1>0. AckOut \in Controls /\ AckOut \in Packets /\ FinOut \in Controls /\ FinOut \in Packets
  BY DEF Controls, Packets
<1>3. PICK h \in DOMAIN conns : Its(c, h) /\ Fed(c, h) /\ Mapped(c, h)
  BY DEF Closes
<1>4. /\ ConnStates[c] = "CLOSE_WAIT" /\ inc[c] > 0
      /\ seen[c] \subseteq {Syn, SynAck, AckIn, Preface, FinIn, AckOut} \cup AllData
      /\ inc' = inc
  BY CapturedFrame DEF Closes
<1>5. CASE plan[c] = ServerAck
  <2>1. ProcessTCPPkg(c, AckOut) /\ plan'[c] = ServerFin /\ seen'[c] = seen[c] \cup {AckOut}
    <3>1. plan[c] = <<{AckOut}>> \o ServerFin
      BY <1>5 DEF ServerAck
    <3> QED BY <3>1, <1>0, CapturedOne, Plans
  <2>2. /\ RecordResponse' = RecordResponse /\ conns' = conns /\ ConnStates'[c] = "CLOSE_WAIT"
        /\ ConnRepository'[c] = ConnRepository[c] /\ OthersKept(c) /\ ConnsOK'
    <3>1. Trigger("CLOSE_WAIT", EventOf(AckOut)) = "CLOSE_WAIT"
      BY Events, TriggerTable
    <3> QED BY <3>1, <1>0, <2>1, <1>4, ControlKept
  <2>3. Its(c, h)' /\ Fed(c, h)' /\ h \in DOMAIN conns'
    BY <1>0, <2>1, <1>3, <1>4, <2>2, FedKept
  <2>4. Mapped(c, h)'
    BY <1>3, <2>2 DEF Mapped
  <2>5. Closes(c)'
    BY <2>1, <2>2, <2>3, <2>4, <1>4 DEF Closes
  <2> QED BY <2>2, <2>5 DEF Stage
<1>6. CASE plan[c] = ServerFin
  <2>1. ProcessTCPPkg(c, FinOut) /\ plan'[c] = FinalAck /\ seen'[c] = seen[c] \cup {FinOut}
    <3>1. plan[c] = <<{FinOut}>> \o FinalAck
      BY <1>6 DEF ServerFin
    <3> QED BY <3>1, <1>0, CapturedOne, Plans
  <2>2. /\ RecordResponse' = RecordResponse /\ conns' = conns /\ ConnStates'[c] = "LAST_ACK"
        /\ ConnRepository'[c] = ConnRepository[c] /\ OthersKept(c) /\ ConnsOK'
    <3>1. Trigger("CLOSE_WAIT", EventOf(FinOut)) = "LAST_ACK"
      BY Events, TriggerTable
    <3> QED BY <3>1, <1>0, <2>1, <1>4, ControlKept
  <2>3. Its(c, h)' /\ Fed(c, h)' /\ h \in DOMAIN conns'
    BY <1>0, <2>1, <1>3, <1>4, <2>2, FedKept
  <2>4. Mapped(c, h)'
    BY <1>3, <2>2 DEF Mapped
  <2>5. LastAck(c)'
    BY <2>1, <2>2, <2>3, <2>4, <1>4 DEF LastAck
  <2> QED BY <2>2, <2>5 DEF Stage
<1> QED BY <1>5, <1>6 DEF Closes

\* The client's last ACK.
LEMMA FinalCaptured ==
  ASSUME VarsInv, NEW c \in Conns, Captured(c), plan[c] = FinalAck
  PROVE  ProcessTCPPkg(c, AckIn) /\ plan'[c] = <<>> /\ seen'[c] = seen[c] \cup {AckIn}
<1>1. AckIn \in Packets
  BY DEF Controls, Packets
<1>2. plan[c] = <<{AckIn}>> \o <<>> /\ <<>> \in Seq(SUBSET Packets)
  BY EmptySeq DEF FinalAck
<1> QED BY <1>1, <1>2, CapturedOne

\* The client's last ACK: the connection is forgotten.
LEMMA LastAckCaptured ==
  ASSUME VarsInv, ConnsInv, NEW c \in Conns, LastAck(c), Captured(c)
  PROVE  Stage(c)' /\ OthersKept(c) /\ ConnsOK'
<1>0. AckIn \in Controls
  BY DEF Controls
<1>1. /\ ConnStates[c] = "LAST_ACK" /\ inc[c] > 0 /\ inc' = inc /\ plan[c] = FinalAck
  BY CapturedFrame DEF LastAck
<1>2. ProcessTCPPkg(c, AckIn) /\ plan'[c] = <<>> /\ seen'[c] = seen[c] \cup {AckIn}
  BY <1>1, FinalCaptured
<1>3. PICK h \in DOMAIN conns : Its(c, h) /\ Fed(c, h)
  BY DEF LastAck
<1>5. /\ RecordResponse' = RecordResponse /\ conns' = conns /\ ConnStates'[c] = "none"
      /\ ConnRepository'[c] = 0 /\ OthersKept(c) /\ ConnsOK'
  <2>1. Trigger("LAST_ACK", EventOf(AckIn)) = "CLOSED"
    BY Events, TriggerTable
  <2> QED BY <2>1, <1>0, <1>1, <1>2, ControlKept
<1>6. Its(c, h)' /\ Fed(c, h)' /\ h \in DOMAIN conns'
  BY <1>0, <1>1, <1>2, <1>3, <1>5, FedKept
<1>7. Ended(c)'
  BY <1>1, <1>2, <1>5, <1>6 DEF Ended, Quiet
<1> QED BY <1>5, <1>7 DEF Stage

\* The client's last ACK after another ACK was taken for it.
LEMMA EarlyCaptured ==
  ASSUME VarsInv, ConnsInv, NEW c \in Conns, Early(c), Captured(c)
  PROVE  Stage(c)' /\ OthersKept(c) /\ ConnsOK'
<1>0. AckIn \in Controls
  BY DEF Controls
<1>1. /\ ConnStates[c] \in {"none", "LISTEN", "SYN-RECEIVED-1"} /\ inc[c] > 0 /\ inc' = inc
      /\ plan[c] = FinalAck /\ ConnRepository[c] = 0 /\ dups[c] >= 1 /\ dups' = dups
  BY CapturedFrame DEF Early
<1>2. ProcessTCPPkg(c, AckIn) /\ plan'[c] = <<>> /\ seen'[c] = seen[c] \cup {AckIn}
  BY <1>1, FinalCaptured
<1>3. PICK h \in DOMAIN conns : Its(c, h) /\ Fed(c, h)
  BY DEF Early
<1>5. /\ RecordResponse' = RecordResponse /\ conns' = conns
      /\ ConnStates'[c] \in {"LISTEN", "SYN-RECEIVED-1"}
      /\ ConnRepository'[c] = 0 /\ OthersKept(c) /\ ConnsOK'
  <2>0. PICK from : from = IF ConnStates[c] = "none" THEN "LISTEN" ELSE ConnStates[c]
    OBVIOUS
  <2>1. from \in {"LISTEN", "SYN-RECEIVED-1"}
    BY <1>1, <2>0
  <2>2. Trigger(from, EventOf(AckIn)) = from
    BY <2>1, Events, TriggerTable
  <2>3. /\ RecordResponse' = RecordResponse /\ conns' = conns
        /\ ConnStates'[c] = from /\ ConnRepository'[c] = ConnRepository[c]
        /\ OthersKept(c) /\ ConnsOK'
    BY <2>0, <2>1, <2>2, <1>0, <1>1, <1>2, ControlKept
  <2> QED BY <2>1, <2>3, <1>1
<1>6. Its(c, h)' /\ Fed(c, h)' /\ h \in DOMAIN conns'
  BY <1>0, <1>1, <1>2, <1>3, <1>5, FedKept
<1>7. Ended(c)'
  <2>1. dups'[c] # 0
    BY <1>1, ProcessorAssumption DEF VarsInv
  <2> QED BY <2>1, <1>1, <1>2, <1>5, <1>6 DEF Ended, Quiet
<1> QED BY <1>5, <1>7 DEF Stage

\* Capturing a packet of c leads from a stage of c to a stage of c.
LEMMA StageCaptured ==
  ASSUME InScope, VarsInv, ConnsInv, NEW c \in Conns, Stage(c), Captured(c)
  PROVE  Stage(c)' /\ OthersKept(c) /\ ConnsOK'
<1>1. plan[c] # <<>>
  BY DEF Captured
<1>2. ~ Unused(c) /\ ~ Ended(c)
  BY <1>1 DEF Unused, Ended
<1> QED BY <1>2, OpeningCaptured, ReceivedCaptured, AnsweredCaptured, EstablishedCaptured,
           TransferCaptured, ClosesCaptured, LastAckCaptured, EarlyCaptured DEF Stage

-----------------------------------------------------------------------------
(* Recaptured, stage by stage. *)

\* The packet captured again is a control packet or a data packet seen before.
Again(c, p) == /\ p \in seen[c] /\ p \in Controls \cup AllData
               /\ ProcessTCPPkg(c, p)
               /\ inc' = inc /\ plan' = plan /\ seen' = seen
               /\ dups[c] \in Nat /\ MaxDups \in Nat
               /\ dups[c] < MaxDups /\ dups'[c] = dups[c] + 1

\* Recaptured handles a packet that was seen before and is not the preface.
LEMMA RecapturedPacket ==
  ASSUME InScope, VarsInv, NEW c \in Conns, Recaptured(c)
  PROVE  \E p \in Controls \cup AllData : Again(c, p)
<1>1. PICK p \in seen[c] : p # Preface /\ p \in Packets /\ ProcessTCPPkg(c, p)
  BY RecapturedFrame
<1>2. p \in Controls \cup AllData
  BY <1>1 DEF Packets
<1>3. dups[c] \in Nat /\ MaxDups \in Nat
  BY ProcessorAssumption DEF VarsInv
<1>4. /\ inc' = inc /\ plan' = plan /\ seen' = seen
      /\ dups[c] < MaxDups /\ dups'[c] = dups[c] + 1
  BY RecapturedFrame
<1> QED BY <1>1, <1>2, <1>3, <1>4 DEF Again

\* The handshake again, before the connection is established.
LEMMA HandshakeAgain ==
  ASSUME VarsInv, ConnsInv, NEW c \in Conns, Received(c) \/ Answered(c),
         NEW p, Again(c, p)
  PROVE  Stage(c)' /\ OthersKept(c) /\ ConnsOK'
<1>1. /\ inc' = inc /\ plan' = plan /\ seen' = seen /\ ProcessTCPPkg(c, p)
  BY DEF Again
<1>2. /\ p = Syn \/ (p = SynAck /\ ConnStates[c] = "SYN-RECEIVED-2")
      /\ ConnStates[c] \in {"SYN-RECEIVED-1", "SYN-RECEIVED-2"} /\ NoneYet(c)
      /\ p \in Controls
  BY DEF Again, Received, Answered, Controls
<1>3. EventOf(p) \in {"RECEIVE_SYN", "SEND_SYN_ACK"}
      /\ (EventOf(p) = "SEND_SYN_ACK" => ConnStates[c] = "SYN-RECEIVED-2")
  BY <1>2, Events
<1>4. Trigger(ConnStates[c], EventOf(p)) = ConnStates[c]
  BY <1>2, <1>3, TriggerTable
<1>5. /\ RecordResponse' = RecordResponse /\ conns' = conns
      /\ ConnStates'[c] = ConnStates[c] /\ ConnRepository'[c] = ConnRepository[c]
      /\ OthersKept(c) /\ ConnsOK'
  BY <1>1, <1>2, <1>4, ControlKept
<1>6. NoneYet(c)'
  BY <1>1, <1>2, <1>5 DEF NoneYet
<1>7. Received(c)' \/ Answered(c)'
  BY <1>1, <1>5, <1>6 DEF Received, Answered
<1> QED BY <1>5, <1>7 DEF Stage

\* A packet of the handshake again, while the connection is established.
LEMMA EstablishedAgain ==
  ASSUME VarsInv, ConnsInv, NEW c \in Conns, ConnStates[c] = "ESTABLISHED",
         NEW p \in {Syn, SynAck, AckIn}, Again(c, p)
  PROVE  /\ RecordResponse' = RecordResponse /\ conns' = conns
         /\ ConnStates'[c] = "ESTABLISHED" /\ ConnRepository'[c] = ConnRepository[c]
         /\ OthersKept(c) /\ ConnsOK'
<1>1. inc' = inc /\ ProcessTCPPkg(c, p) /\ p \in Controls
  BY DEF Again, Controls
<1>2. Trigger("ESTABLISHED", EventOf(p)) = "ESTABLISHED"
  BY Events, TriggerTable
<1> QED BY <1>1, <1>2, ControlKept

\* A packet comes again before the preface.
LEMMA EstablishedRecaptured ==
  ASSUME VarsInv, ConnsInv, NEW c \in Conns, Established(c), NEW p, Again(c, p)
  PROVE  Stage(c)' /\ OthersKept(c) /\ ConnsOK'
<1>1. p \in {Syn, SynAck, AckIn} /\ ConnStates[c] = "ESTABLISHED"
  BY DEF Again, Established
<1>2. inc' = inc /\ plan' = plan /\ seen' = seen
  BY DEF Again
<1>3. /\ RecordResponse' = RecordResponse /\ conns' = conns
      /\ ConnStates'[c] = "ESTABLISHED" /\ ConnRepository'[c] = ConnRepository[c]
      /\ OthersKept(c) /\ ConnsOK'
  BY <1>1, EstablishedAgain
<1>4. \A h : Its(c, h) => Its(c, h)'
  BY <1>2, <1>3 DEF Its
<1>5. Established(c)'
  BY <1>2, <1>3, <1>4 DEF Established
<1> QED BY <1>3, <1>5 DEF Stage

\* A packet comes again while the connection carries data.
LEMMA TransferRecaptured ==
  ASSUME VarsInv, ConnsInv, NEW c \in Conns, Transfer(c), NEW p, Again(c, p)
  PROVE  Stage(c)' /\ OthersKept(c) /\ ConnsOK'
<1>1. /\ inc' = inc /\ plan' = plan /\ seen' = seen /\ ProcessTCPPkg(c, p)
      /\ p \in seen[c] /\ p \in Controls \cup AllData
  BY DEF Again
<1>2. /\ ConnStates[c] = "ESTABLISHED" /\ inc[c] > 0
      /\ p \in {Syn, SynAck, AckIn} \cup AllData
  BY <1>1, Distinct DEF Transfer
<1>3. PICK h \in DOMAIN conns : Its(c, h) /\ Fed(c, h) /\ Mapped(c, h)
  BY DEF Transfer
<1>4. /\ OthersKept(c) /\ ConnsOK' /\ Its(c, h)' /\ Fed(c, h)' /\ Mapped(c, h)'
      /\ ConnStates'[c] = "ESTABLISHED"
  <2>1. CASE p \in AllData
    <3>1. seen'[c] = seen[c] \cup {p}
      BY <1>1
    <3> QED BY <2>1, <3>1, <1>1, <1>2, <1>3, DataFed
  <2>2. CASE p \in {Syn, SynAck, AckIn}
    <3>1. /\ RecordResponse' = RecordResponse /\ conns' = conns
          /\ ConnStates'[c] = "ESTABLISHED" /\ ConnRepository'[c] = ConnRepository[c]
          /\ OthersKept(c) /\ ConnsOK'
      BY <2>2, <1>2, EstablishedAgain
    <3>2. Its(c, h)' /\ Fed(c, h)'
      BY <1>1, <1>3, <3>1, FedKept
    <3>3. Mapped(c, h)'
      BY <1>3, <3>1 DEF Mapped
    <3> QED BY <3>1, <3>2, <3>3
  <2> QED BY <1>2, <2>1, <2>2
<1>5. h \in DOMAIN conns'
  BY <1>4 DEF Its
<1>6. Transfer(c)'
  BY <1>1, <1>4, <1>5 DEF Transfer
<1> QED BY <1>4, <1>6 DEF Stage

\* A packet comes again while the server has still to close.
LEMMA ClosesRecaptured ==
  ASSUME VarsInv, ConnsInv, NEW c \in Conns, Closes(c), NEW p, Again(c, p)
  PROVE  Stage(c)' /\ OthersKept(c) /\ ConnsOK'
<1>1. /\ inc' = inc /\ plan' = plan /\ seen' = seen /\ ProcessTCPPkg(c, p)
      /\ p \in seen[c] /\ p \in Controls \cup AllData
  BY DEF Again
<1>2. /\ ConnStates[c] = "CLOSE_WAIT" /\ inc[c] > 0
      /\ p \in {Syn, SynAck, AckIn, FinIn, AckOut} \cup AllData
  BY <1>1, Distinct DEF Closes
<1>3. PICK h \in DOMAIN conns : Its(c, h) /\ Fed(c, h) /\ Mapped(c, h)
  BY DEF Closes
<1>4. /\ RecordResponse' = RecordResponse /\ conns' = conns
      /\ ConnStates'[c] = "CLOSE_WAIT" /\ ConnRepository'[c] = ConnRepository[c]
      /\ OthersKept(c) /\ ConnsOK'
  <2>1. CASE p \in AllData
    BY <2>1, <1>1, <1>2, DataKept
  <2>2. CASE p \in {Syn, SynAck, AckIn, FinIn, AckOut}
    <3>1. Trigger("CLOSE_WAIT", EventOf(p)) = "CLOSE_WAIT"
      BY <2>2, Events, TriggerTable
    <3>2. p \in Controls
      BY <2>2 DEF Controls
    <3> QED BY <3>1, <3>2, <1>1, <1>2, ControlKept
  <2> QED BY <1>2, <2>1, <2>2
<1>5. Its(c, h)' /\ Fed(c, h)' /\ h \in DOMAIN conns'
  BY <1>1, <1>3, <1>4, FedKept
<1>6. Mapped(c, h)'
  BY <1>3, <1>4 DEF Mapped
<1>7. Closes(c)'
  BY <1>1, <1>4, <1>5, <1>6 DEF Closes
<1> QED BY <1>4, <1>7 DEF Stage

\* An ACK that comes again is taken for the last one.
LEMMA LastAckRecaptured ==
  ASSUME VarsInv, ConnsInv, NEW c \in Conns, LastAck(c), NEW p, Again(c, p)
  PROVE  Stage(c)' /\ OthersKept(c) /\ ConnsOK'
<1>1. /\ inc' = inc /\ plan' = plan /\ seen' = seen /\ ProcessTCPPkg(c, p)
      /\ p \in seen[c] /\ p \in Controls \cup AllData
      /\ dups'[c] >= 1
  BY DEF Again
<1>2. ConnStates[c] = "LAST_ACK" /\ inc[c] > 0 /\ plan[c] = FinalAck
  BY DEF LastAck
<1>3. PICK h \in DOMAIN conns : Its(c, h) /\ Fed(c, h) /\ Mapped(c, h)
  BY DEF LastAck
<1>4. /\ RecordResponse' = RecordResponse /\ conns' = conns /\ OthersKept(c) /\ ConnsOK'
      /\ \/ ConnStates'[c] = "LAST_ACK" /\ ConnRepository'[c] = ConnRepository[c]
         \/ ConnStates'[c] = "none" /\ ConnRepository'[c] = 0
  <2>1. CASE p \in AllData
    BY <2>1, <1>1, <1>2, DataKept
  <2>2. CASE p \in Controls
    <3>1. PICK to : to = Trigger("LAST_ACK", EventOf(p))
      OBVIOUS
    <3>2. to \in {"LAST_ACK", "CLOSED"}
      BY <3>1, TriggerTable
    <3>3. /\ RecordResponse' = RecordResponse /\ conns' = conns /\ OthersKept(c) /\ ConnsOK'
          /\ ConnStates'[c] = IF to = "CLOSED" THEN "none" ELSE to
          /\ ConnRepository'[c] = IF to = "CLOSED" THEN 0 ELSE ConnRepository[c]
      BY <2>2, <3>1, <3>2, <1>1, <1>2, ControlKept
    <3> QED BY <3>2, <3>3
  <2> QED BY <1>1, <2>1, <2>2
<1>5. Its(c, h)' /\ Fed(c, h)' /\ h \in DOMAIN conns'
  BY <1>1, <1>3, <1>4, FedKept
<1>6. CASE ConnStates'[c] = "LAST_ACK" /\ ConnRepository'[c] = ConnRepository[c]
  <2>1. Mapped(c, h)'
    BY <1>3, <1>4, <1>6 DEF Mapped
  <2>2. LastAck(c)'
    BY <1>1, <1>2, <1>5, <1>6, <2>1 DEF LastAck
  <2> QED BY <1>4, <2>2 DEF Stage
<1>7. CASE ConnStates'[c] = "none" /\ ConnRepository'[c] = 0
  <2>1. Early(c)'
    BY <1>1, <1>2, <1>5, <1>7 DEF Early
  <2> QED BY <1>4, <2>1 DEF Stage
<1> QED BY <1>4, <1>6, <1>7

\* After the end: two packets captured again do not make a handshake.
LEMMA QuietAgain ==
  ASSUME InScope, VarsInv, ConnsInv, NEW c \in Conns, Early(c) \/ Ended(c), NEW p, Again(c, p)
  PROVE  /\ RecordResponse' = RecordResponse /\ conns' = conns /\ OthersKept(c) /\ ConnsOK'
         /\ ConnRepository'[c] = 0
         /\ ConnStates'[c] \in Quiet
         /\ ConnStates'[c] = "SYN-RECEIVED-2" => ConnStates[c] = "SYN-RECEIVED-1"
         /\ ConnStates'[c] = "SYN-RECEIVED-2" => dups'[c] >= 2
<1>1. /\ inc' = inc /\ ProcessTCPPkg(c, p) /\ p \in Controls \cup AllData
      /\ dups[c] \in Nat /\ MaxDups \in Nat /\ MaxDups <= 2
      /\ dups[c] < MaxDups /\ dups'[c] = dups[c] + 1
  BY DEF Again, InScope
<1>2. /\ ConnStates[c] \in {"none", "LISTEN", "SYN-RECEIVED-1"} /\ ConnRepository[c] = 0
      /\ ConnStates[c] = "SYN-RECEIVED-1" => dups[c] >= 1
  BY <1>1 DEF Early, Ended, Quiet
<1>3. CASE p \in AllData
  <2>1. /\ RecordResponse' = RecordResponse /\ conns' = conns
        /\ ConnStates'[c] = IF ConnStates[c] = "none" THEN "LISTEN" ELSE ConnStates[c]
        /\ ConnRepository'[c] = ConnRepository[c]
        /\ OthersKept(c) /\ ConnsOK'
    BY <1>1, <1>2, <1>3, DataKept
  <2> QED BY <2>1, <1>2 DEF Quiet
<1>4. CASE p \in Controls
  <2>1. PICK from : from = IF ConnStates[c] = "none" THEN "LISTEN" ELSE ConnStates[c]
    OBVIOUS
  <2>2. PICK to : to = Trigger(from, EventOf(p))
    OBVIOUS
  <2>3. /\ from \in {"LISTEN", "SYN-RECEIVED-1"}
        /\ from = "SYN-RECEIVED-1" => ConnStates[c] = "SYN-RECEIVED-1"
    BY <1>2, <2>1
  <2>4. /\ to \in {"LISTEN", "CLOSED", "SYN-RECEIVED-1", "SYN-RECEIVED-2"}
        /\ to = "SYN-RECEIVED-2" => from = "SYN-RECEIVED-1"
    BY <2>2, <2>3, TriggerTable
  <2>5. /\ RecordResponse' = RecordResponse /\ conns' = conns /\ OthersKept(c) /\ ConnsOK'
        /\ ConnStates'[c] = IF to = "CLOSED" THEN "none" ELSE to
        /\ ConnRepository'[c] = IF to = "CLOSED" THEN 0 ELSE ConnRepository[c]
    BY <1>1, <1>4, <2>1, <2>2, <2>4, ControlKept
  <2>6. /\ ConnRepository'[c] = 0 /\ ConnStates'[c] \in Quiet
        /\ ConnStates'[c] = "SYN-RECEIVED-2" => ConnStates[c] = "SYN-RECEIVED-1"
    BY <1>2, <2>3, <2>4, <2>5 DEF Quiet
  <2>7. ConnStates'[c] = "SYN-RECEIVED-2" => dups'[c] >= 2
    BY <1>1, <1>2, <2>6
  <2> QED BY <2>5, <2>6, <2>7
<1> QED BY <1>1, <1>3, <1>4

\* A packet comes again before the last ACK.
LEMMA EarlyRecaptured ==
  ASSUME InScope, VarsInv, ConnsInv, NEW c \in Conns, Early(c), NEW p, Again(c, p)
  PROVE  Stage(c)' /\ OthersKept(c) /\ ConnsOK'
<1>1. /\ inc' = inc /\ plan' = plan /\ seen' = seen
      /\ dups[c] \in Nat /\ MaxDups \in Nat /\ MaxDups <= 2
      /\ dups[c] < MaxDups /\ dups'[c] = dups[c] + 1
  BY DEF Again, InScope
<1>2. /\ dups[c] >= 1 /\ inc[c] > 0 /\ plan[c] = FinalAck
      /\ ConnStates[c] = "SYN-RECEIVED-1" => dups[c] >= 2
  BY DEF Early
<1>3. PICK h \in DOMAIN conns : Its(c, h) /\ Fed(c, h)
  BY DEF Early
<1>4. /\ RecordResponse' = RecordResponse /\ conns' = conns /\ OthersKept(c) /\ ConnsOK'
      /\ ConnRepository'[c] = 0
      /\ ConnStates'[c] \in Quiet
      /\ ConnStates'[c] = "SYN-RECEIVED-2" => ConnStates[c] = "SYN-RECEIVED-1"
  BY QuietAgain
<1>5. dups'[c] >= 2 /\ dups'[c] >= 1 /\ ConnStates[c] # "SYN-RECEIVED-1"
  BY <1>1, <1>2
<1>6. ConnStates'[c] \in {"none", "LISTEN", "SYN-RECEIVED-1"}
  BY <1>4, <1>5 DEF Quiet
<1>7. Its(c, h)' /\ Fed(c, h)' /\ h \in DOMAIN conns'
  BY <1>1, <1>3, <1>4, FedKept
<1>8. Early(c)'
  BY <1>1, <1>2, <1>4, <1>5, <1>6, <1>7 DEF Early
<1> QED BY <1>4, <1>8 DEF Stage

\* A packet comes again after the end.
LEMMA EndedRecaptured ==
  ASSUME InScope, VarsInv, ConnsInv, NEW c \in Conns, Ended(c), NEW p, Again(c, p)
  PROVE  Stage(c)' /\ OthersKept(c) /\ ConnsOK'
<1>1. /\ inc' = inc /\ plan' = plan /\ seen' = seen /\ dups'[c] # 0
  BY DEF Again
<1>2. inc[c] > 0 /\ plan[c] = <<>>
  BY DEF Ended
<1>3. PICK h \in DOMAIN conns : Its(c, h) /\ Fed(c, h)
  BY DEF Ended
<1>4. /\ RecordResponse' = RecordResponse /\ conns' = conns /\ OthersKept(c) /\ ConnsOK'
      /\ ConnRepository'[c] = 0
      /\ ConnStates'[c] \in Quiet
      /\ ConnStates'[c] = "SYN-RECEIVED-2" => dups'[c] >= 2
  BY QuietAgain
<1>5. Its(c, h)' /\ Fed(c, h)' /\ h \in DOMAIN conns'
  BY <1>1, <1>3, <1>4, FedKept
<1>6. Ended(c)'
  BY <1>1, <1>2, <1>4, <1>5 DEF Ended
<1> QED BY <1>4, <1>6 DEF Stage

\* Capturing a packet of c again leads from a stage of c to a stage of c.
LEMMA StageRecaptured ==
  ASSUME InScope, VarsInv, ConnsInv, NEW c \in Conns, Stage(c), Recaptured(c)
  PROVE  Stage(c)' /\ OthersKept(c) /\ ConnsOK'
<1>1. PICK p \in Controls \cup AllData : Again(c, p)
  BY RecapturedPacket
<1>2. ~ Unused(c) /\ ~ Opening(c)
  BY <1>1 DEF Again, Unused, Opening
<1> QED BY <1>1, <1>2, HandshakeAgain, EstablishedRecaptured, TransferRecaptured,
           ClosesRecaptured, LastAckRecaptured, EarlyRecaptured, EndedRecaptured DEF Stage

-----------------------------------------------------------------------------
(* GoAway and Open. *)

\* A peer of the Http2Conn h has said GOAWAY.
SetsLeft(h) == conns' = [conns EXCEPT ![h].left = TRUE]

\* A GOAWAY of the Http2Conn h of c.
LEMMA UpdateLeft ==
  ASSUME VarsInv, ConnsInv, NEW c \in Conns, NEW h, Its(c, h), inc' = inc, SetsLeft(h)
  PROVE  /\ OthersKept(c) /\ ConnsOK' /\ Its(c, h)'
         /\ conns'[h].in = conns[h].in /\ conns'[h].out = conns[h].out /\ conns'[h].left = TRUE
<1> DEFINE new == [conns[h] EXCEPT !.left = TRUE]
<1>1. /\ h \in DOMAIN conns /\ conns[h].dc = c /\ conns[h].inc = inc[c]
      /\ conns \in Seq(ConnType)
  BY DEF Its, VarsInv
<1>3. conns[h] \in ConnType /\ conns[h].in.inc = inc[c] /\ conns[h].out.inc = inc[c]
  BY <1>1 DEF ConnsInv
<1>4. /\ new \in ConnType /\ new.dc = c /\ new.inc = inc[c] /\ new.in = conns[h].in
      /\ new.out = conns[h].out /\ new.left = TRUE
  BY <1>1, <1>3 DEF ConnType
<1>5. conns' = [conns EXCEPT ![h] = new]
  BY DEF SetsLeft
<1> HIDE DEF new
<1>6. new.in.inc = inc[c] /\ new.out.inc = inc[c]
  BY <1>3, <1>4
<1>7. OthersKept(c) /\ ConnsOK' /\ Its(c, h)' /\ conns'[h] = new
  <2>1. new \in ConnType /\ new.dc = c /\ new.inc = inc[c]
    BY <1>4
  <2> QED BY <2>1, <1>5, <1>6, UpdateConn
<1> QED BY <1>4, <1>7

\* The maps after a GOAWAY.
LEMMA GoAwayMaps ==
  ASSUME InScope, VarsInv, NEW h \in DOMAIN conns, GoAway(h), NEW c, c = conns[h].dc
  PROVE  /\ c \in Conns /\ conns[h].inc = inc[c] /\ inc[c] \in 1 .. MaxInc
         /\ conns[h].in.got # <<>> \/ conns[h].out.got # <<>>
         /\ SetsLeft(h)
         /\ RecordResponse' = RecordResponse /\ ConnStates' = ConnStates
         /\ inc' = inc /\ plan' = plan /\ seen' = seen /\ dups' = dups
         /\ ConnRepository' \in [Conns -> Nat] /\ ConnRepository'[c] = 0
         /\ \A d \in Conns \ {c} : ConnRepository'[d] = ConnRepository[d]
<1>1. /\ ConnRepository \in [Conns -> Nat] /\ conns \in Seq(ConnType)
  BY DEF VarsInv
<1>2. conns[h] \in ConnType
  BY <1>1
<1>3. c \in Conns /\ conns[h].inc \in 1 .. MaxInc
  BY <1>2 DEF ConnType
<1>4. /\ conns[h].in.got # <<>> \/ conns[h].out.got # <<>>
      /\ GoAwayInTime => conns[h].inc = inc[c]
      /\ SetsLeft(h)
      /\ ConnRepository' = [ConnRepository EXCEPT ![c] = 0]
      /\ RecordResponse' = RecordResponse /\ ConnStates' = ConnStates
      /\ inc' = inc /\ plan' = plan /\ seen' = seen /\ dups' = dups
  BY DEF GoAway, DropConnection, net, SetsLeft
<1>6. GoAwayInTime
  BY DEF InScope
<1>7. conns[h].inc = inc[c]
  BY <1>4, <1>6
<1>8. inc[c] \in 1 .. MaxInc
  BY <1>3, <1>7
<1> QED BY <1>1, <1>3, <1>4, <1>7, <1>8

\* A GOAWAY can be read only where some data was delivered.
LEMMA StageGoAway ==
  ASSUME InScope, VarsInv, ConnsInv, NEW h \in DOMAIN conns, GoAway(h),
         NEW c, c = conns[h].dc, Stage(c)
  PROVE  Stage(c)' /\ OthersKept(c) /\ ConnsOK'
<1>1. /\ c \in Conns /\ conns[h].inc = inc[c] /\ inc[c] \in 1 .. MaxInc
      /\ conns[h].in.got # <<>> \/ conns[h].out.got # <<>>
      /\ SetsLeft(h)
      /\ RecordResponse' = RecordResponse /\ ConnStates' = ConnStates
      /\ inc' = inc /\ plan' = plan /\ seen' = seen /\ dups' = dups
      /\ ConnRepository'[c] = 0
  BY GoAwayMaps
<1>2. ~ NoneYet(c) /\ inc[c] # 0
  BY <1>1 DEF NoneYet
<1>3. ~ Established(c)
  <2>1. SUFFICES ASSUME NEW g \in DOMAIN conns, Its(c, g), conns[g].in = Buffer(inc[c], 1),
                        conns[g].out = Held(Out1, Out2, inc[c], {})
                 PROVE  FALSE
    BY DEF Established
  <2>2. g = h
    BY <1>1, <2>1 DEF Its
  <2>3. Buffer(inc[c], 1).got = <<>> /\ Held(Out1, Out2, inc[c], {}).got = <<>>
    BY DEF Buffer, Held
  <2>4. conns[h].in.got = <<>> /\ conns[h].out.got = <<>>
    BY <2>1, <2>2, <2>3, Zenon
  <2> QED BY <2>4, <1>1
<1>4. ~ Unused(c) /\ ~ Opening(c) /\ ~ Received(c) /\ ~ Answered(c)
  BY <1>2 DEF Unused, Opening, Received, Answered
<1>5. \E g \in DOMAIN conns : Its(c, g) /\ Fed(c, g)
  BY <1>3, <1>4 DEF Stage, Transfer, Closes, LastAck, Early, Ended
<1>6. Its(c, h) /\ Fed(c, h)
  BY <1>1, <1>5 DEF Its
<1>7. /\ OthersKept(c) /\ ConnsOK' /\ Its(c, h)'
      /\ conns'[h].in = conns[h].in /\ conns'[h].out = conns[h].out /\ conns'[h].left = TRUE
  BY <1>1, <1>6, UpdateLeft
<1>8. Fed(c, h)'
  <2>1. PICK s \in SUBSET {In1, In2}, t \in SUBSET {Out1, Out2} :
           /\ conns[h].in = Held(In1, In2, inc[c], s)
           /\ conns[h].out = Held(Out1, Out2, inc[c], t)
    BY <1>6 DEF Fed
  <2> QED BY <1>1, <1>7, <2>1 DEF Fed
<1>9. Mapped(c, h)' /\ h \in DOMAIN conns'
  BY <1>1, <1>7 DEF Mapped, Its
<1>10. CASE Transfer(c)
  <2>1. Transfer(c)'
    BY <1>1, <1>7, <1>8, <1>9, <1>10 DEF Transfer
  <2> QED BY <1>7, <2>1 DEF Stage
<1>11. CASE Closes(c)
  <2>1. Closes(c)'
    BY <1>1, <1>7, <1>8, <1>9, <1>11 DEF Closes
  <2> QED BY <1>7, <2>1 DEF Stage
<1>12. CASE LastAck(c)
  <2>1. LastAck(c)'
    BY <1>1, <1>7, <1>8, <1>9, <1>12 DEF LastAck
  <2> QED BY <1>7, <2>1 DEF Stage
<1>13. CASE Early(c)
  <2>1. Early(c)'
    BY <1>1, <1>7, <1>8, <1>9, <1>13 DEF Early
  <2> QED BY <1>7, <2>1 DEF Stage
<1>14. CASE Ended(c)
  <2>1. Ended(c)'
    BY <1>1, <1>7, <1>8, <1>9, <1>14 DEF Ended
  <2> QED BY <1>7, <2>1 DEF Stage
<1> QED BY <1>3, <1>4, <1>10, <1>11, <1>12, <1>13, <1>14 DEF Stage

(* The plan of a new connection. *)

\* Short sequences as concatenations.
LEMMA Tuples ==
  ASSUME NEW a, NEW b, NEW d
  PROVE  /\ <<a>> \o <<b>> = <<a, b>>
         /\ <<a>> \o <<b, d>> = <<a, b, d>>
<1> DEFINE S == {a, b, d}
           Same(s, t) == /\ s \in Seq(S) /\ t \in Seq(S) /\ Len(s) = Len(t)
                         /\ \A k \in 1 .. Len(s) : s[k] = t[k]
<1>1. \A s, t : Same(s, t) => s = t
  BY SeqEqual
<1>2. Same(<<a>> \o <<b>>, <<a, b>>)
  OBVIOUS
<1>3. Same(<<a>> \o <<b, d>>, <<a, b, d>>)
  OBVIOUS
<1> HIDE DEF Same
<1> QED BY <1>1, <1>2, <1>3

\* The same of four.
LEMMA Tuple4 ==
  ASSUME NEW a, NEW b, NEW d, NEW e
  PROVE  <<a>> \o <<b, d, e>> = <<a, b, d, e>>
<1> DEFINE S == {a, b, d, e}
           Same(s, t) == /\ s \in Seq(S) /\ t \in Seq(S) /\ Len(s) = Len(t)
                         /\ \A k \in 1 .. Len(s) : s[k] = t[k]
<1>1. \A s, t : Same(s, t) => s = t
  BY SeqEqual
<1>2. Same(<<a>> \o <<b, d, e>>, <<a, b, d, e>>)
  OBVIOUS
<1> HIDE DEF Same
<1> QED BY <1>1, <1>2

\* Each way for the client to close is one of the endings of the plans.
LEMMA ClosingEnds ==
  ASSUME NEW how \in {"client", "clientFast", "clientReset"}
  PROVE  Closing(how) \in Endings
<1> DEFINE S == SUBSET Packets
<1>0. {FinIn} \in S /\ {AckOut} \in S /\ {FinOut} \in S /\ {AckIn} \in S /\ {RstIn} \in S
  BY DEF Packets, Controls
<1>1. <<{AckIn}>> \o <<>> = <<{AckIn}>> /\ <<{RstIn}>> \o <<>> = <<{RstIn}>>
  BY Joined, <1>0, ConcatEmptySeq
<1>2. FinalAck = <<{AckIn}>>
  BY <1>1 DEF FinalAck
<1>3. ServerFin = <<{FinOut}, {AckIn}>>
  BY <1>2, Tuples DEF ServerFin
<1>4. ServerAck = <<{AckOut}, {FinOut}, {AckIn}>>
  BY <1>3, Tuples DEF ServerAck
<1>5. <<{FinIn}>> \o ServerAck = <<{FinIn}, {AckOut}, {FinOut}, {AckIn}>>
  <2>1. <<{FinIn}>> \o <<{AckOut}, {FinOut}, {AckIn}>> = <<{FinIn}, {AckOut}, {FinOut}, {AckIn}>>
    BY Tuple4
  <2> QED BY <2>1, <1>4, Zenon
<1>6. <<{FinIn}>> \o ServerFin = <<{FinIn}, {FinOut}, {AckIn}>>
  BY <1>3, Tuples
<1>7. /\ Control("in", {"FIN", "ACK"}) = {FinIn} /\ Control("out", {"ACK"}) = {AckOut}
      /\ Control("out", {"FIN", "ACK"}) = {FinOut} /\ Control("in", {"ACK"}) = {AckIn}
      /\ Control("in", {"RST"}) = {RstIn}
  BY DEF Control, FinIn, AckOut, FinOut, AckIn, RstIn
<1>8. Closing("client") = <<{FinIn}>> \o ServerAck
  <2>1. Closing("client") = <<{FinIn}, {AckOut}, {FinOut}, {AckIn}>>
    BY <1>7, Zenon DEF Closing
  <2> QED BY <2>1, <1>5
<1>9. Closing("clientFast") = <<{FinIn}>> \o ServerFin
  <2>1. Closing("clientFast") = <<{FinIn}, {FinOut}, {AckIn}>>
    BY <1>7, Zenon DEF Closing
  <2> QED BY <2>1, <1>6
<1>10. Closing("clientReset") = <<{RstIn}>> \o <<>>
  <2>1. Closing("clientReset") = <<{RstIn}>>
    BY <1>7, Zenon DEF Closing
  <2> QED BY <2>1, <1>1
<1> QED BY <1>8, <1>9, <1>10 DEF Endings

Closed(P) == \A x, y \in P : x \o y \in P
Regroups(x, y, z) == (x \o y) \o z = x \o (y \o z)
Associates(P) == \A x, y, z \in P : Regroups(x, y, z)

\* Concatenations grouped to the right.
LEMMA Regrouped ==
  ASSUME NEW P, Closed(P), Associates(P),
         NEW a \in P, NEW b \in P, NEW d \in P, NEW p \in P, NEW q \in P, NEW e \in P
  PROVE  ((a \o (b \o d)) \o (p \o q)) \o e = a \o (b \o (d \o (p \o (q \o e))))
<1>1. PICK bd \in P, pq \in P, qe \in P : bd = b \o d /\ pq = p \o q /\ qe = q \o e
  BY DEF Closed
<1>2. PICK abd \in P, pqe \in P : abd = a \o bd /\ pqe = p \o qe
  BY DEF Closed
<1>r. /\ Regroups(abd, pq, e) /\ Regroups(p, q, e) /\ Regroups(a, bd, pqe)
      /\ Regroups(b, d, pqe)
  BY DEF Associates
<1>3. /\ (abd \o pq) \o e = abd \o (pq \o e)
      /\ (p \o q) \o e = p \o (q \o e)
      /\ (a \o bd) \o pqe = a \o (bd \o pqe)
      /\ (b \o d) \o pqe = b \o (d \o pqe)
  BY <1>r, Zenon DEF Regroups
<1>4. pq \o e = pqe
  BY <1>3, <1>1, <1>2, Zenon
<1>5. abd \o pqe = a \o (bd \o pqe)
  BY <1>3, <1>2, Zenon
<1>6. bd \o pqe = b \o (d \o pqe)
  BY <1>3, <1>1, Zenon
<1>7. (abd \o pq) \o e = a \o (b \o (d \o pqe))
  BY <1>3, <1>4, <1>5, <1>6, Zenon
<1> QED BY <1>1, <1>2, <1>7, Zenon

\* The plan of a new connection.
LEMMA WholePlan ==
  ASSUME PrefaceAlone, NEW e \in Endings
  PROVE  Handshake \o Data \o e = Whole(e)
<1> DEFINE S == SUBSET Packets
<1>1. /\ {Syn} \in S /\ {SynAck} \in S /\ {AckIn} \in S /\ {Preface} \in S /\ AllData \in S
      /\ e \in Seq(S)
  <2>1. e \in Seq(S)
    BY Plans
  <2> QED BY <2>1 DEF Packets, Controls
<1>2. /\ <<{Syn}>> \in Seq(S) /\ <<{SynAck}>> \in Seq(S) /\ <<{AckIn}>> \in Seq(S)
      /\ <<{Preface}>> \in Seq(S) /\ <<AllData>> \in Seq(S)
  BY <1>1
<1>3. Handshake = <<{Syn}>> \o (<<{SynAck}>> \o <<{AckIn}>>)
  <2>1. Handshake = <<{Syn}, {SynAck}, {AckIn}>>
    BY DEF Handshake, Control, Syn, SynAck, AckIn
  <2>2. <<{SynAck}>> \o <<{AckIn}>> = <<{SynAck}, {AckIn}>>
    BY Tuples
  <2>3. <<{Syn}>> \o <<{SynAck}, {AckIn}>> = <<{Syn}, {SynAck}, {AckIn}>>
    BY Tuples
  <2> QED BY <2>1, <2>2, <2>3, Zenon
<1>4. Data = <<{Preface}>> \o <<AllData>>
  <2>1. ToSet(InData) \cup ToSet(OutData) = AllData
    BY DEF ToSet, InData, OutData, AllData, In1, In2, Out1, Out2
  <2>2. Data = <<{Preface}, AllData>>
    BY <2>1 DEF Data
  <2>3. <<{Preface}>> \o <<AllData>> = <<{Preface}, AllData>>
    BY Tuples
  <2> QED BY <2>2, <2>3, Zenon
<1>6. Closed(Seq(S))
  BY ConcatProperties DEF Closed
<1>7. Associates(Seq(S))
  BY ConcatAssociative DEF Associates, Regroups
<1> HIDE DEF S
<1>5. (Handshake \o Data) \o e = <<{Syn}>> \o (<<{SynAck}>> \o (<<{AckIn}>> \o
                                    (<<{Preface}>> \o (<<AllData>> \o e))))
  BY <1>1, <1>2, <1>3, <1>4, <1>6, <1>7, Regrouped
<1> QED BY <1>5 DEF Whole, Second, Third, Prefaced, Feeding

\* Every other variable of a connection that is opened.
LEMMA OpenMaps ==
  ASSUME InScope, VarsInv, NEW c \in Conns, Open(c)
  PROVE  /\ plan[c] = <<>> /\ inc'[c] = inc[c] + 1 /\ seen'[c] = {}
         /\ inc' \in [Conns -> 0 .. MaxInc] /\ plan' \in [Conns -> Seq(SUBSET Packets)]
         /\ seen' \in [Conns -> SUBSET Packets] /\ dups' \in [Conns -> 0 .. MaxDups]
         /\ \E e \in Endings : plan'[c] = Whole(e)
         /\ \A d \in Conns \ {c} : /\ inc'[d] = inc[d] /\ plan'[d] = plan[d]
                                   /\ seen'[d] = seen[d] /\ dups'[d] = dups[d]
         /\ RecordResponse' = RecordResponse /\ ConnStates' = ConnStates
         /\ ConnRepository' = ConnRepository /\ conns' = conns
<1>1. /\ inc \in [Conns -> 0 .. MaxInc] /\ plan \in [Conns -> Seq(SUBSET Packets)]
      /\ seen \in [Conns -> SUBSET Packets] /\ dups \in [Conns -> 0 .. MaxDups]
      /\ MaxInc \in Nat /\ MaxDups \in Nat
  BY ProcessorAssumption DEF VarsInv
<1>2. PICK how \in Closings : plan' = [plan EXCEPT ![c] = Handshake \o Data \o Closing(how)]
  BY DEF Open
<1>3. PICK e \in Endings : plan' = [plan EXCEPT ![c] = Whole(e)]
  <2>1. how \in {"client", "clientFast", "clientReset"} /\ PrefaceAlone
    BY DEF InScope
  <2>2. PICK e \in Endings : e = Closing(how)
    BY <2>1, ClosingEnds
  <2>3. Handshake \o Data \o e = Whole(e)
    BY <2>1, WholePlan
  <2> QED BY <1>2, <2>2, <2>3, Zenon
<1>4. Whole(e) \in Seq(SUBSET Packets)
  BY Plans
<1>5. /\ plan[c] = <<>> /\ inc[c] < MaxInc /\ inc' = [inc EXCEPT ![c] = inc[c] + 1]
      /\ seen' = [seen EXCEPT ![c] = {}] /\ dups' = [dups EXCEPT ![c] = 0]
      /\ RecordResponse' = RecordResponse /\ ConnStates' = ConnStates
      /\ ConnRepository' = ConnRepository /\ conns' = conns
  BY DEF Open, code
<1>6. /\ plan'[c] = Whole(e) /\ plan' \in [Conns -> Seq(SUBSET Packets)]
      /\ \A d \in Conns \ {c} : plan'[d] = plan[d]
  BY <1>1, <1>3, <1>4
<1>7. /\ inc'[c] = inc[c] + 1 /\ inc' \in [Conns -> 0 .. MaxInc]
      /\ \A d \in Conns \ {c} : inc'[d] = inc[d]
  BY <1>1, <1>5
<1>8. /\ seen'[c] = {} /\ seen' \in [Conns -> SUBSET Packets]
      /\ \A d \in Conns \ {c} : seen'[d] = seen[d]
  BY <1>1, <1>5
<1>9. /\ dups' \in [Conns -> 0 .. MaxDups]
      /\ \A d \in Conns \ {c} : dups'[d] = dups[d]
  BY <1>1, <1>5
<1> QED BY <1>5, <1>6, <1>7, <1>8, <1>9

\* What has a plan is not over.
LEMMA OverPlans ==
  ASSUME NEW c, Stage(c), plan[c] = <<>>
  PROVE  Unused(c) \/ Ended(c)
<1>0. \A x \in SUBSET Packets, r \in Seq(SUBSET Packets) : <<x>> \o r # <<>>
  BY ConsHead
<1>a. /\ {Syn} \in SUBSET Packets /\ {SynAck} \in SUBSET Packets /\ {AckIn} \in SUBSET Packets
      /\ {Preface} \in SUBSET Packets /\ AllData \in SUBSET Packets /\ {FinIn} \in SUBSET Packets
      /\ {AckOut} \in SUBSET Packets /\ {FinOut} \in SUBSET Packets /\ {RstIn} \in SUBSET Packets
      /\ <<>> \in Seq(SUBSET Packets)
  BY EmptySeq DEF Packets, Controls
<1>1. \A e \in Endings : /\ Whole(e) # <<>> /\ Second(e) # <<>> /\ Third(e) # <<>>
                         /\ Prefaced(e) # <<>>
  BY <1>0, <1>a, Plans DEF Whole, Second, Third, Prefaced
<1>2. FinalAck # <<>> /\ ServerFin # <<>> /\ ServerAck # <<>>
  BY <1>0, <1>a, Plans DEF FinalAck, ServerFin, ServerAck
<1>3. \A e \in Endings : e # <<>>
  BY <1>0, <1>a, Plans DEF Endings
<1>4. \A e \in Endings, d \in SUBSET AllData : <<d>> \o e # <<>>
  BY <1>0, Plans
<1>5. ~ Opening(c) /\ ~ Received(c) /\ ~ Answered(c) /\ ~ Established(c)
  BY <1>1 DEF Opening, Received, Answered, Established
<1>6. ~ Transfer(c)
  BY <1>3, <1>4 DEF Transfer
<1>7. ~ Closes(c) /\ ~ LastAck(c) /\ ~ Early(c)
  BY <1>2 DEF Closes, LastAck, Early
<1> QED BY <1>5, <1>6, <1>7 DEF Stage

\* A connection is opened when the one before it is over; what that one left
\* in ConnStates is quiet, so the new handshake is followed.
LEMMA StageOpen ==
  ASSUME InScope, VarsInv, ConnsInv, NEW c \in Conns, Stage(c), Open(c)
  PROVE  Stage(c)' /\ OthersKept(c) /\ ConnsOK'
<1>1. /\ plan[c] = <<>> /\ inc'[c] = inc[c] + 1 /\ seen'[c] = {}
      /\ \E e \in Endings : plan'[c] = Whole(e)
      /\ \A d \in Conns \ {c} : inc'[d] = inc[d]
      /\ RecordResponse' = RecordResponse /\ ConnStates' = ConnStates
      /\ ConnRepository' = ConnRepository /\ conns' = conns
  BY OpenMaps
<1>2. Unused(c) \/ Ended(c)
  BY <1>1, OverPlans
<1>3. ConnStates[c] \in Quiet /\ ConnRepository[c] = 0
  BY <1>2 DEF Unused, Ended, Quiet
<1>4. inc \in [Conns -> Nat] /\ conns \in Seq(ConnType) /\ inc'[c] > 0
  BY <1>1 DEF VarsInv
<1>5. OthersKept(c)
  BY <1>1 DEF OthersKept
<1>6. \A h \in DOMAIN conns : conns[h].dc \in Conns /\ conns[h].inc \in Nat
  <2> SUFFICES ASSUME NEW h \in DOMAIN conns PROVE conns[h].dc \in Conns /\ conns[h].inc \in Nat
    OBVIOUS
  <2>1. conns[h] \in ConnType
    BY <1>4
  <2> QED BY <2>1 DEF ConnType
<1>7. ASSUME NEW h \in DOMAIN conns PROVE conns[h].inc <= inc'[conns[h].dc]
  <2>1. conns[h].inc <= inc[conns[h].dc] /\ inc[conns[h].dc] \in Nat /\ conns[h].inc \in Nat
    BY <1>4, <1>6 DEF ConnsInv
  <2>2. inc'[conns[h].dc] = inc[conns[h].dc] \/ inc'[conns[h].dc] = inc[conns[h].dc] + 1
    BY <1>1, <1>6
  <2> QED BY <2>1, <2>2
<1>8. ConnsOK'
  <2>1. ConnsInv'
    BY <1>1, <1>7 DEF ConnsInv
  <2> QED BY <2>1, <1>1, <1>4 DEF ConnsOK
<1>9. NoneYet(c)'
  <2> SUFFICES ASSUME NEW h \in DOMAIN conns, conns[h].dc = c PROVE conns[h].inc # inc'[c]
    BY <1>1 DEF NoneYet
  <2>1. conns[h].inc <= inc[c] /\ inc[c] \in Nat /\ conns[h].inc \in Nat
    BY <1>4, <1>6 DEF ConnsInv
  <2> QED BY <1>1, <2>1
<1>10. Opening(c)'
  BY <1>1, <1>3, <1>4, <1>9 DEF Opening
<1> QED BY <1>5, <1>8, <1>10 DEF Stage

-----------------------------------------------------------------------------
(* The induction. *)

\* The invariant holds initially.
LEMMA InitInv == Init => IndInv
<1> SUFFICES ASSUME Init PROVE IndInv
  OBVIOUS
<1>1. VarsInv
  BY ProcessorAssumption, EmptySeq DEF Init, VarsInv, KeptStates
<1>2. ConnsInv
  BY DEF Init, ConnsInv
<1>3. StageInv
  BY DEF Init, StageInv, Stage, Unused
<1> QED BY <1>1, <1>2, <1>3 DEF IndInv

\* From what a step does for its connection to the whole invariant.
LEMMA Assembled ==
  ASSUME StageInv, NEW c \in Conns, Stage(c)', OthersKept(c), ConnsOK',
         RecordResponse \in BOOLEAN, RecordResponse' = RecordResponse,
         ConnStates' \in [Conns -> KeptStates], ConnRepository' \in [Conns -> Nat],
         inc' \in [Conns -> 0 .. MaxInc], plan' \in [Conns -> Seq(SUBSET Packets)],
         seen' \in [Conns -> SUBSET Packets], dups' \in [Conns -> 0 .. MaxDups],
         \A d \in Conns \ {c} : /\ ConnStates'[d] = ConnStates[d]
                                /\ ConnRepository'[d] = ConnRepository[d]
                                /\ inc'[d] = inc[d] /\ plan'[d] = plan[d]
                                /\ seen'[d] = seen[d] /\ dups'[d] = dups[d]
  PROVE  IndInv'
<1>1. VarsInv' /\ ConnsInv'
  BY DEF VarsInv, ConnsOK
<1>2. ASSUME NEW d \in Conns, d # c PROVE Stage(d)'
  <2>1. Stage(d)
    BY DEF StageInv
  <2> QED BY <1>2, <2>1, StageFrame
<1>3. StageInv'
  BY <1>2 DEF StageInv
<1> QED BY <1>1, <1>3 DEF IndInv

\* Open preserves the invariant.
LEMMA OpenInv ==
  ASSUME InScope, IndInv, NEW c \in Conns, Open(c)
  PROVE  IndInv'
<1>1. VarsInv /\ ConnsInv /\ StageInv /\ Stage(c)
  BY DEF IndInv, StageInv
<1>2. Stage(c)' /\ OthersKept(c) /\ ConnsOK'
  BY <1>1, StageOpen
<1>3. /\ RecordResponse \in BOOLEAN /\ ConnStates \in [Conns -> KeptStates]
      /\ ConnRepository \in [Conns -> Nat]
  BY <1>1 DEF VarsInv
<1> QED BY <1>1, <1>2, <1>3, OpenMaps, Assembled

\* Captured preserves the invariant.
LEMMA CapturedInv ==
  ASSUME InScope, IndInv, NEW c \in Conns, Captured(c)
  PROVE  IndInv'
<1>1. VarsInv /\ ConnsInv /\ StageInv /\ Stage(c)
  BY DEF IndInv, StageInv
<1>2. Stage(c)' /\ OthersKept(c) /\ ConnsOK'
  BY <1>1, StageCaptured
<1>3. /\ RecordResponse \in BOOLEAN /\ inc \in [Conns -> 0 .. MaxInc]
      /\ dups \in [Conns -> 0 .. MaxDups]
  BY <1>1 DEF VarsInv
<1>4. PICK p \in Packets : ProcessTCPPkg(c, p)
  BY <1>1, CapturedFrame
<1>5. /\ RecordResponse' = RecordResponse
      /\ ConnStates' \in [Conns -> KeptStates]
      /\ ConnRepository' \in [Conns -> Nat]
      /\ \A d \in Conns \ {c} : /\ ConnStates'[d] = ConnStates[d]
                                /\ ConnRepository'[d] = ConnRepository[d]
  BY <1>1, <1>4, MapsStep
<1>6. /\ inc' = inc /\ dups' = dups
      /\ plan' \in [Conns -> Seq(SUBSET Packets)] /\ seen' \in [Conns -> SUBSET Packets]
      /\ \A d \in Conns \ {c} : plan'[d] = plan[d] /\ seen'[d] = seen[d]
  BY <1>1, CapturedFrame
<1> QED BY <1>1, <1>2, <1>3, <1>5, <1>6, Assembled

\* Recaptured preserves the invariant.
LEMMA RecapturedInv ==
  ASSUME InScope, IndInv, NEW c \in Conns, Recaptured(c)
  PROVE  IndInv'
<1>1. VarsInv /\ ConnsInv /\ StageInv /\ Stage(c)
  BY DEF IndInv, StageInv
<1>2. Stage(c)' /\ OthersKept(c) /\ ConnsOK'
  BY <1>1, StageRecaptured
<1>3. /\ RecordResponse \in BOOLEAN /\ inc \in [Conns -> 0 .. MaxInc]
      /\ plan \in [Conns -> Seq(SUBSET Packets)] /\ seen \in [Conns -> SUBSET Packets]
      /\ dups \in [Conns -> 0 .. MaxDups]
  BY <1>1 DEF VarsInv
<1>4. PICK p \in Packets : ProcessTCPPkg(c, p)
  BY <1>1, RecapturedFrame
<1>5. /\ RecordResponse' = RecordResponse
      /\ ConnStates' \in [Conns -> KeptStates]
      /\ ConnRepository' \in [Conns -> Nat]
      /\ \A d \in Conns \ {c} : /\ ConnStates'[d] = ConnStates[d]
                                /\ ConnRepository'[d] = ConnRepository[d]
  BY <1>1, <1>4, MapsStep
<1>6. /\ inc' = inc /\ plan' = plan /\ seen' = seen
      /\ dups' \in [Conns -> 0 .. MaxDups]
      /\ \A d \in Conns \ {c} : dups'[d] = dups[d]
  <2>1. /\ inc' = inc /\ plan' = plan /\ seen' = seen
        /\ dups' = [dups EXCEPT ![c] = dups[c] + 1] /\ dups' \in [Conns -> 0 .. MaxDups]
    BY <1>1, RecapturedFrame
  <2> QED BY <2>1, <1>3
<1> QED BY <1>1, <1>2, <1>3, <1>5, <1>6, Assembled

\* GoAway preserves the invariant.
LEMMA GoAwayInv ==
  ASSUME InScope, IndInv, NEW h \in DOMAIN conns, GoAway(h)
  PROVE  IndInv'
<1>0. PICK c : c = conns[h].dc
  OBVIOUS
<1>1. VarsInv /\ ConnsInv /\ StageInv
  BY DEF IndInv
<1>2. /\ c \in Conns
      /\ RecordResponse' = RecordResponse /\ ConnStates' = ConnStates
      /\ inc' = inc /\ plan' = plan /\ seen' = seen /\ dups' = dups
      /\ ConnRepository' \in [Conns -> Nat]
      /\ \A d \in Conns \ {c} : ConnRepository'[d] = ConnRepository[d]
  BY <1>0, <1>1, GoAwayMaps
<1>3. Stage(c)' /\ OthersKept(c) /\ ConnsOK'
  <2>1. Stage(c)
    BY <1>1, <1>2 DEF StageInv
  <2> QED BY <2>1, <1>0, <1>1, StageGoAway
<1>4. /\ RecordResponse \in BOOLEAN /\ ConnStates \in [Conns -> KeptStates]
      /\ inc \in [Conns -> 0 .. MaxInc] /\ plan \in [Conns -> Seq(SUBSET Packets)]
      /\ seen \in [Conns -> SUBSET Packets] /\ dups \in [Conns -> 0 .. MaxDups]
  BY <1>1 DEF VarsInv
<1> QED BY <1>1, <1>2, <1>3, <1>4, Assembled

\* A step of something else preserves the invariant.
LEMMA StutterInv ==
  ASSUME IndInv, UNCHANGED vars
  PROVE  IndInv'
<1>1. /\ RecordResponse' = RecordResponse /\ ConnStates' = ConnStates
      /\ ConnRepository' = ConnRepository /\ conns' = conns
      /\ inc' = inc /\ plan' = plan /\ seen' = seen /\ dups' = dups
  BY DEF vars, code, net
<1>2. VarsInv' /\ ConnsInv'
  BY <1>1 DEF IndInv, VarsInv, ConnsInv
<1>3. ASSUME NEW c \in Conns PROVE Stage(c)'
  <2>1. Stage(c)
    BY DEF IndInv, StageInv
  <2>2. PICK other \in {0, 1} : other # c
    OBVIOUS
  <2>3. OthersKept(other)
    BY <1>1 DEF OthersKept
  <2> QED BY <1>1, <2>1, <2>2, <2>3, StageFrame
<1> QED BY <1>2, <1>3 DEF IndInv, StageInv

\* IndInv is an invariant of Processor, for every number of connections and of
\* incarnations and every window: each DirectConn is in one of the stages, and
\* ProcessTCPPkg, GoAway and the network lead from stage to stage.
THEOREM Inductive == ASSUME InScope PROVE Spec => []IndInv
<1>1. Init => IndInv
  BY InitInv
<1>2. IndInv /\ [Next]_vars => IndInv'
  <2> SUFFICES ASSUME IndInv, [Next]_vars PROVE IndInv'
    OBVIOUS
  <2>1. ASSUME NEW c \in Conns, Open(c) PROVE IndInv'
    BY <2>1, OpenInv
  <2>2. ASSUME NEW c \in Conns, Captured(c) PROVE IndInv'
    BY <2>2, CapturedInv
  <2>3. ASSUME NEW c \in Conns, Recaptured(c) PROVE IndInv'
    BY <2>3, RecapturedInv
  <2>4. ASSUME NEW h \in DOMAIN conns, GoAway(h) PROVE IndInv'
    BY <2>4, GoAwayInv
  <2>5. CASE UNCHANGED vars
    BY <2>5, StutterInv
  <2> QED BY <2>1, <2>2, <2>3, <2>4, <2>5 DEF Next
<1> QED BY <1>1, <1>2, PTL DEF Spec

-----------------------------------------------------------------------------
(* From the invariant to the properties. *)

\* The data packets as sequences.
LEMMA Pairs ==
  ASSUME NEW a, NEW b, NEW d, NEW e
  PROVE  <<a, b>> \o <<d, e>> = <<a, b, d, e>>
<1> DEFINE S == {a, b, d, e}
           Same(s, t) == /\ s \in Seq(S) /\ t \in Seq(S) /\ Len(s) = Len(t)
                         /\ \A k \in 1 .. Len(s) : s[k] = t[k]
<1>1. \A s, t : Same(s, t) => s = t
  BY SeqEqual
<1>2. Same(<<a, b>> \o <<d, e>>, <<a, b, d, e>>)
  OBVIOUS
<1> HIDE DEF Same
<1> QED BY <1>1, <1>2

\* The same of five.
LEMMA Fives ==
  ASSUME NEW a, NEW b, NEW d, NEW e, NEW f
  PROVE  (<<f>> \o <<a, b>>) \o <<d, e>> = <<f, a, b, d, e>>
<1> DEFINE S == {a, b, d, e, f}
           Same(s, t) == /\ s \in Seq(S) /\ t \in Seq(S) /\ Len(s) = Len(t)
                         /\ \A k \in 1 .. Len(s) : s[k] = t[k]
<1>1. \A s, t : Same(s, t) => s = t
  BY SeqEqual
<1>2. <<f>> \o <<a, b>> = <<f, a, b>>
  BY Tuples
<1>3. Same(<<f, a, b>> \o <<d, e>>, <<f, a, b, d, e>>)
  OBVIOUS
<1> HIDE DEF Same
<1> QED BY <1>1, <1>2, <1>3

\* The data packets, direction by direction and together.
LEMMA DataTuples ==
  /\ InData = <<In1, In2>> /\ OutData = <<Out1, Out2>>
  /\ InData \o OutData = <<In1, In2, Out1, Out2>>
  /\ <<Preface>> \o InData \o OutData = <<Preface, In1, In2, Out1, Out2>>
<1>1. InData = <<In1, In2>> /\ OutData = <<Out1, Out2>>
  BY DEF InData, OutData, In1, In2, Out1, Out2
<1>2. <<In1, In2>> \o <<Out1, Out2>> = <<In1, In2, Out1, Out2>>
  BY Pairs
<1>3. (<<Preface>> \o <<In1, In2>>) \o <<Out1, Out2>> = <<Preface, In1, In2, Out1, Out2>>
  BY Fives
<1> QED BY <1>1, <1>2, <1>3, Zenon

\* A buffer of those that IndInv allows.
LEMMA HeldOK ==
  ASSUME NEW a \in AllData, NEW b \in AllData, Two(a, b), NEW i \in 1 .. MaxInc, NEW s \in SUBSET {a, b}
  PROVE  BufferOK(Held(a, b, i, s))
<1> DEFINE H == Held(a, b, i, s)
           Got == [inc : 1 .. MaxInc, pkt : {Preface} \cup ToSet(InData \o OutData)]
<1>1. /\ H.inc = i
      /\ H.expected = IF a \notin s THEN a.pos ELSE IF b \notin s THEN a.pos + 1 ELSE a.pos + 2
      /\ H.list = IF a \notin s /\ b \in s THEN {b} ELSE {}
      /\ H.got = IF a \notin s THEN <<>>
                 ELSE IF b \notin s THEN <<[inc |-> i, pkt |-> a]>>
                 ELSE <<[inc |-> i, pkt |-> a], [inc |-> i, pkt |-> b]>>
  BY DEF Held
<1>2. a.pos \in Nat /\ b.len = 1
  BY DEF Two
<1>3. /\ a \in ToSet(InData \o OutData) /\ b \in ToSet(InData \o OutData)
  <2>1. InData \o OutData = <<In1, In2, Out1, Out2>>
    BY DataTuples
  <2>2. ToSet(<<In1, In2, Out1, Out2>>) = AllData
    BY DEF ToSet, AllData
  <2> QED BY <2>1, <2>2
<1>4. [inc |-> i, pkt |-> a] \in Got /\ [inc |-> i, pkt |-> b] \in Got
  BY <1>3
<1> HIDE DEF Got
<1>5. H.got \in Seq(Got)
  BY <1>1, <1>4
<1>6. H.expected \in Nat
  BY <1>1, <1>2
<1>7. \A p \in H.list : p.len > 0
  BY <1>1, <1>2
<1>8. H.inc \in 1 .. MaxInc
  BY <1>1
<1> HIDE DEF H
<1> QED BY <1>5, <1>6, <1>7, <1>8 DEF BufferOK, H, Got

\* The buffers of an Http2Conn have their type.
LEMMA BuffersOK ==
  ASSUME NEW cn \in ConnType
  PROVE  BufferOK(cn.in) /\ BufferOK(cn.out)
<1>1. /\ cn.in \in Buffers(In1, In2) \cup {Buffer(i, 1) : i \in 1 .. MaxInc}
      /\ cn.out \in Buffers(Out1, Out2)
  BY DEF ConnType
<1>2. \A x \in Buffers(In1, In2) \cup Buffers(Out1, Out2) : BufferOK(x)
  BY HeldOK, Kinds DEF Buffers, AllData
<1>3. ASSUME NEW i \in 1 .. MaxInc PROVE BufferOK(Buffer(i, 1))
  BY DEF BufferOK, Buffer
<1> QED BY <1>1, <1>2, <1>3

\* The invariant implies the type invariant.
LEMMA TypeOKInv == IndInv => TypeOK
<1> SUFFICES ASSUME IndInv PROVE TypeOK
  OBVIOUS
<1>1. /\ ConnStates \in [Conns -> KeptStates] /\ ConnRepository \in [Conns -> Nat]
      /\ conns \in Seq(ConnType)
  BY DEF IndInv, VarsInv
<1>2. ASSUME NEW c \in Conns PROVE ConnRepository[c] \in 0 .. Len(conns)
  <2>1. Stage(c)
    BY DEF IndInv, StageInv
  <2>2. ConnRepository[c] = 0 \/ ConnRepository[c] \in DOMAIN conns
    BY <2>1 DEF Stage, Unused, Opening, Received, Answered, Established, Transfer, Closes, LastAck,
                Early, Ended, Mapped
  <2> QED BY <1>1, <2>2
<1>3. ASSUME NEW h \in DOMAIN conns
      PROVE  /\ conns[h].dc \in Conns
             /\ conns[h].inc \in 1 .. MaxInc
             /\ BufferOK(conns[h].in)
             /\ BufferOK(conns[h].out)
             /\ conns[h].left \in BOOLEAN
  <2>1. conns[h] \in ConnType
    BY <1>1
  <2>2. BufferOK(conns[h].in) /\ BufferOK(conns[h].out)
    BY <2>1, BuffersOK
  <2> QED BY <2>1, <2>2 DEF ConnType
<1>4. ConnRepository \in [Conns -> 0 .. Len(conns)]
  BY <1>1, <1>2
<1> QED BY <1>1, <1>3, <1>4 DEF TypeOK, KeptStates

\* The preface and the data packets, as NewConnTracked and Reassembled name them.
LEMMA AllDataRange == Range(<<Preface>> \o InData \o OutData) = {Preface} \cup AllData
<1>1. Range(<<Preface, In1, In2, Out1, Out2>>) = {Preface} \cup AllData
  BY DEF Range, AllData
<1> QED BY <1>1, DataTuples, Zenon

(* Every byte of the incarnation. *)

BytesOf(i) == [inc : {i}, pkt : Packets]

\* The bytes of a buffer are of its incarnation.
LEMMA HeldOwn ==
  ASSUME NEW a \in AllData, NEW b \in AllData, NEW i, NEW s \in SUBSET {a, b}
  PROVE  Held(a, b, i, s).inc = i /\ Held(a, b, i, s).got \in Seq(BytesOf(i))
<1>1. /\ Held(a, b, i, s).inc = i
      /\ Held(a, b, i, s).got = IF a \notin s THEN <<>>
                                ELSE IF b \notin s THEN <<[inc |-> i, pkt |-> a]>>
                                ELSE <<[inc |-> i, pkt |-> a], [inc |-> i, pkt |-> b]>>
  BY DEF Held
<1>2. [inc |-> i, pkt |-> a] \in BytesOf(i) /\ [inc |-> i, pkt |-> b] \in BytesOf(i)
  BY DEF BytesOf, Packets
<1> QED BY <1>1, <1>2

\* So are those of an Http2Conn, in both directions.
LEMMA BuffersOwn ==
  ASSUME NEW cn \in ConnType
  PROVE  /\ cn.in.got \in Seq(BytesOf(cn.in.inc))
         /\ cn.out.got \in Seq(BytesOf(cn.out.inc))
<1>1. /\ cn.in \in Buffers(In1, In2) \cup {Buffer(i, 1) : i \in 1 .. MaxInc}
      /\ cn.out \in Buffers(Out1, Out2)
  BY DEF ConnType
<1>2. ASSUME NEW x \in Buffers(In1, In2) \cup Buffers(Out1, Out2)
      PROVE  x.got \in Seq(BytesOf(x.inc))
  <2>1. PICK a \in AllData, b \in AllData : x \in Buffers(a, b)
    BY DEF AllData
  <2>2. PICK i \in 1 .. MaxInc, s \in SUBSET {a, b} : x = Held(a, b, i, s)
    BY <2>1 DEF Buffers
  <2>3. x.inc = i /\ x.got \in Seq(BytesOf(i))
    BY <2>2, HeldOwn
  <2> QED BY <2>3
<1>3. ASSUME NEW i \in 1 .. MaxInc
      PROVE  Buffer(i, 1).got \in Seq(BytesOf(Buffer(i, 1).inc))
  BY DEF Buffer
<1> QED BY <1>1, <1>2, <1>3

\* The invariant implies OwnBytes.
LEMMA OwnBytesInv == IndInv => OwnBytes
<1> SUFFICES ASSUME IndInv, NEW h \in DOMAIN conns,
                    NEW g \in Range(conns[h].in.got \o conns[h].out.got)
             PROVE  g.inc = conns[h].inc
  BY DEF OwnBytes
<1>1. conns[h] \in ConnType /\ conns[h].in.inc = conns[h].inc /\ conns[h].out.inc = conns[h].inc
  BY DEF IndInv, VarsInv, ConnsInv
<1>2. PICK i : i = conns[h].inc
  OBVIOUS
<1>3. conns[h].in.got \in Seq(BytesOf(i)) /\ conns[h].out.got \in Seq(BytesOf(i))
  <2>1. /\ conns[h].in.got \in Seq(BytesOf(conns[h].in.inc))
        /\ conns[h].out.got \in Seq(BytesOf(conns[h].out.inc))
    BY <1>1, BuffersOwn
  <2>2. conns[h].in.inc = i /\ conns[h].out.inc = i
    BY <1>1, <1>2
  <2> QED BY <2>1, <2>2, Zenon
<1>4. PICK s : s = conns[h].in.got \o conns[h].out.got
  OBVIOUS
<1>5. s \in Seq(BytesOf(i))
  BY <1>3, <1>4, ConcatProperties
<1>6. g \in Range(s)
  BY <1>4
<1>7. g \in BytesOf(i)
  BY <1>5, <1>6 DEF Range
<1>8. g.inc = i
  BY <1>7 DEF BytesOf
<1> QED BY <1>2, <1>8

(* The connection that carries data. *)

\* The first burst of a plan.
LEMMA Heads ==
  ASSUME NEW x \in SUBSET Packets, NEW r \in Seq(SUBSET Packets)
  PROVE  Head(<<x>> \o r) = x
  BY ConsHead

\* A control packet carries no data.
LEMMA NotData ==
  ASSUME NEW p \in Controls
  PROVE  /\ {p} \in SUBSET Packets
         /\ {p} \notin SUBSET ({Preface} \cup AllData)
  BY Distinct DEF Packets

\* The invariant implies NewConnTracked: only Established and Transfer have a
\* plan that begins with data.
LEMMA NewConnTrackedInv == IndInv => NewConnTracked
<1> SUFFICES ASSUME IndInv, NEW c \in Conns, CarriesData(c)
             PROVE  /\ ConnStates[c] = "ESTABLISHED"
                    /\ \E h \in DOMAIN conns : /\ conns[h].dc = c /\ conns[h].inc = inc[c]
                                               /\ ConnRepository[c] = IF conns[h].left THEN 0 ELSE h
  BY DEF NewConnTracked
<1>1. plan[c] # <<>> /\ Head(plan[c]) \in SUBSET ({Preface} \cup AllData)
  BY AllDataRange DEF CarriesData
<1>2. Stage(c)
  BY DEF IndInv, StageInv
<1>3. ASSUME NEW p \in Controls, NEW r \in Seq(SUBSET Packets), plan[c] = <<{p}>> \o r PROVE FALSE
  <2>1. Head(plan[c]) = {p}
    BY <1>3, NotData, Heads
  <2> QED BY <1>1, <2>1, NotData
<1>4. /\ Syn \in Controls /\ SynAck \in Controls /\ AckIn \in Controls /\ AckOut \in Controls
      /\ FinIn \in Controls /\ FinOut \in Controls /\ RstIn \in Controls
      /\ <<>> \in Seq(SUBSET Packets)
  BY EmptySeq DEF Controls
<1>5. ~ Unused(c) /\ ~ Ended(c)
  BY <1>1 DEF Unused, Ended
<1>6. ~ Opening(c) /\ ~ Received(c) /\ ~ Answered(c)
  BY <1>3, <1>4, Plans DEF Opening, Received, Answered, Whole, Second, Third
<1>7. ~ Closes(c) /\ ~ LastAck(c) /\ ~ Early(c)
  BY <1>3, <1>4, Plans DEF Closes, LastAck, Early, ServerAck, ServerFin, FinalAck
<1>8. CASE Established(c)
  <2>1. PICK h \in DOMAIN conns : Its(c, h) /\ ConnRepository[c] = h /\ conns[h].left = FALSE
    BY <1>8 DEF Established
  <2> QED BY <2>1, <1>8 DEF Its, Established
<1>9. CASE Transfer(c)
  <2>1. PICK h \in DOMAIN conns : Its(c, h) /\ Mapped(c, h)
    BY <1>9 DEF Transfer
  <2> QED BY <2>1, <1>9 DEF Its, Mapped, Transfer
<1> QED BY <1>2, <1>5, <1>6, <1>7, <1>8, <1>9 DEF Stage

\* The invariant implies ClosedIsForgotten.
LEMMA ClosedInv == IndInv => ClosedIsForgotten
<1> SUFFICES ASSUME IndInv, NEW c \in Conns, inc[c] > 0, plan[c] = <<>>
             PROVE  /\ ConnRepository[c] = 0
                    /\ dups[c] = 0 => ConnStates[c] = "none"
                    /\ ConnStates[c] # "ESTABLISHED"
  BY DEF ClosedIsForgotten
<1>1. Stage(c)
  BY DEF IndInv, StageInv
<1>2. Unused(c) \/ Ended(c)
  BY <1>1, OverPlans
<1> QED BY <1>2 DEF Unused, Ended, Quiet

\* Prefixes of a sequence, and of a pair.
LEMMA PrefixOf ==
  ASSUME NEW S, NEW s \in Seq(S), NEW t \in Seq(S), Len(s) <= Len(t),
         \A k \in 1 .. Len(s) : s[k] = t[k]
  PROVE  IsPrefix(s, t)
<1>1. Len(s) \in 0 .. Len(s) /\ Len(s) \in 0 .. Len(t) /\ 1 \in 1 .. Len(s) + 1 /\ 1 \in 1 .. Len(t) + 1
  OBVIOUS
<1>2. /\ SubSeq(s, 1, Len(s)) \in Seq(S) /\ Len(SubSeq(s, 1, Len(s))) = Len(s)
      /\ \A k \in 1 .. Len(s) : SubSeq(s, 1, Len(s))[k] = s[k]
  BY <1>1
<1>3. /\ SubSeq(t, 1, Len(s)) \in Seq(S) /\ Len(SubSeq(t, 1, Len(s))) = Len(s)
      /\ \A k \in 1 .. Len(s) : SubSeq(t, 1, Len(s))[k] = t[k]
  BY <1>1
<1>4. SubSeq(s, 1, Len(s)) = SubSeq(t, 1, Len(s))
  BY <1>2, <1>3, SeqEqual
<1> QED BY <1>4 DEF IsPrefix

\* The prefixes of a pair.
LEMMA PairPrefixes ==
  ASSUME NEW a, NEW b
  PROVE  IsPrefix(<<>>, <<a, b>>) /\ IsPrefix(<<a>>, <<a, b>>) /\ IsPrefix(<<a, b>>, <<a, b>>)
<1> DEFINE S == {a, b}
           Begins(s, t) == /\ s \in Seq(S) /\ t \in Seq(S) /\ Len(s) <= Len(t)
                           /\ \A k \in 1 .. Len(s) : s[k] = t[k]
<1>1. \A s, t : Begins(s, t) => IsPrefix(s, t)
  BY PrefixOf
<1>2. Begins(<<>>, <<a, b>>) /\ Begins(<<a>>, <<a, b>>) /\ Begins(<<a, b>>, <<a, b>>)
  OBVIOUS
<1> HIDE DEF Begins
<1> QED BY <1>1, <1>2

\* The packets an Http2Conn was given.
LEMMA HeldPkts ==
  ASSUME NEW a, NEW b, NEW i, NEW s \in SUBSET {a, b}
  PROVE  /\ IsPrefix(Pkts(Held(a, b, i, s).got), <<a, b>>)
         /\ s = {a, b} => Pkts(Held(a, b, i, s).got) = <<a, b>>
<1>1. Held(a, b, i, s).got = IF a \notin s THEN <<>>
                             ELSE IF b \notin s THEN <<[inc |-> i, pkt |-> a]>>
                             ELSE <<[inc |-> i, pkt |-> a], [inc |-> i, pkt |-> b]>>
  BY DEF Held
<1>2. /\ Pkts(<<>>) = <<>>
      /\ Pkts(<<[inc |-> i, pkt |-> a]>>) = <<a>>
      /\ Pkts(<<[inc |-> i, pkt |-> a], [inc |-> i, pkt |-> b]>>) = <<a, b>>
  BY DEF Pkts
<1>3. Pkts(Held(a, b, i, s).got) = IF a \notin s THEN <<>> ELSE IF b \notin s THEN <<a>> ELSE <<a, b>>
  BY <1>1, <1>2
<1> QED BY <1>3, PairPrefixes

\* The invariant implies Reassembled: of a buffer that refuses no packet, what
\* was given is what was seen.
LEMMA ReassembledInv == MaxWindowSize >= 1 /\ IndInv => Reassembled
<1> SUFFICES ASSUME MaxWindowSize >= 1, IndInv, NEW h \in DOMAIN conns
             PROVE  /\ IsPrefix(Pkts(conns[h].in.got), InData)
                    /\ IsPrefix(Pkts(conns[h].out.got), OutData)
                    /\ /\ conns[h].inc = inc[conns[h].dc] /\ ~ conns[h].left
                       /\ Range(<<Preface>> \o InData \o OutData) \subseteq seen[conns[h].dc]
                       => /\ Pkts(conns[h].in.got) = InData
                          /\ RecordResponse => Pkts(conns[h].out.got) = OutData
  BY Zenon DEF Reassembled
<1>1. InData = <<In1, In2>> /\ OutData = <<Out1, Out2>>
  BY DataTuples
<1>2. conns[h] \in ConnType
  BY DEF IndInv, VarsInv
<1>3. IsPrefix(Pkts(conns[h].in.got), InData)
  <2>1. CASE conns[h].in \in Buffers(In1, In2)
    <3>1. PICK i \in 1 .. MaxInc, s \in SUBSET {In1, In2} : conns[h].in = Held(In1, In2, i, s)
      BY <2>1 DEF Buffers
    <3> QED BY <3>1, <1>1, HeldPkts
  <2>2. CASE \E i \in 1 .. MaxInc : conns[h].in = Buffer(i, 1)
    <3>1. conns[h].in.got = <<>>
      BY <2>2 DEF Buffer
    <3>2. Pkts(<<>>) = <<>>
      BY DEF Pkts
    <3>3. Pkts(conns[h].in.got) = <<>>
      BY <3>1, <3>2, Zenon
    <3>4. IsPrefix(<<>>, <<In1, In2>>)
      BY PairPrefixes
    <3> QED BY <3>3, <3>4, <1>1, Zenon
  <2> QED BY <1>2, <2>1, <2>2 DEF ConnType
<1>4. IsPrefix(Pkts(conns[h].out.got), OutData)
  <2>1. PICK i \in 1 .. MaxInc, t \in SUBSET {Out1, Out2} : conns[h].out = Held(Out1, Out2, i, t)
    BY <1>2 DEF Buffers, ConnType
  <2> QED BY <2>1, <1>1, HeldPkts
<1>5. ASSUME conns[h].inc = inc[conns[h].dc], ~ conns[h].left,
             Range(<<Preface>> \o InData \o OutData) \subseteq seen[conns[h].dc]
      PROVE  /\ Pkts(conns[h].in.got) = InData
             /\ RecordResponse => Pkts(conns[h].out.got) = OutData
  <2>1. PICK c \in Conns : c = conns[h].dc
    BY <1>2 DEF ConnType
  <2>2. AllData \subseteq seen[c] /\ Preface \in seen[c]
    BY <1>5, <2>1, AllDataRange
  <2>3. Stage(c)
    BY DEF IndInv, StageInv
  <2>4. ~ NoneYet(c)
    BY <1>5, <2>1 DEF NoneYet
  <2>5. Preface \notin {Syn, SynAck, AckIn}
    BY Distinct DEF Controls
  <2>6. ~ Unused(c) /\ ~ Opening(c) /\ ~ Received(c) /\ ~ Answered(c) /\ ~ Established(c)
    BY <2>2, <2>4, <2>5 DEF Unused, Opening, Received, Answered, Established
  <2>7. PICK g \in DOMAIN conns : Its(c, g) /\ Fed(c, g)
    BY <2>3, <2>6 DEF Stage, Transfer, Closes, LastAck, Early, Ended
  <2>8. g = h
    BY <1>5, <2>1, <2>7 DEF Its
  <2>9. PICK s \in SUBSET {In1, In2}, t \in SUBSET {Out1, Out2} :
          /\ conns[h].in = Held(In1, In2, inc[c], s)
          /\ conns[h].out = Held(Out1, Out2, inc[c], t)
          /\ MaxWindowSize >= 1 /\ ~ conns[h].left => s = seen[c] \cap {In1, In2}
          /\ MaxWindowSize >= 1 /\ RecordResponse /\ ~ conns[h].left => t = seen[c] \cap {Out1, Out2}
    BY <2>7, <2>8 DEF Fed
  <2>10. /\ s = {In1, In2}
         /\ RecordResponse => t = {Out1, Out2}
    BY <1>5, <2>2, <2>9 DEF AllData
  <2>11. Pkts(conns[h].in.got) = InData
    BY <2>9, <2>10, <1>1, HeldPkts
  <2>12. RecordResponse => Pkts(conns[h].out.got) = OutData
    BY <2>9, <2>10, <1>1, HeldPkts
  <2> QED BY <2>11, <2>12
<1> QED BY <1>3, <1>4, <1>5
-----------------------------------------------------------------------------
(* The processor feeds its Http2Conns. *)

\* A connection has one Http2Conn at most.
OnlyOne(c) == \A g, h \in DOMAIN conns :
                 conns[g].dc = c /\ conns[g].inc = inc[c] /\ conns[h].dc = c /\ conns[h].inc = inc[c]
                   => g = h

EachOnlyOne == VarsInv /\ StageInv => \A c \in Conns : OnlyOne(c)

LEMMA OneEach == EachOnlyOne
<1> SUFFICES ASSUME VarsInv, StageInv, NEW c \in Conns PROVE OnlyOne(c)
  BY DEF EachOnlyOne
<1> SUFFICES ASSUME NEW g \in DOMAIN conns, NEW h \in DOMAIN conns,
                    conns[g].dc = c, conns[h].dc = c, conns[g].inc = inc[c], conns[h].inc = inc[c]
             PROVE  g = h
  BY DEF OnlyOne
<1>1. conns[g] \in ConnType
  BY DEF VarsInv
<1>2. inc[c] # 0
  BY <1>1 DEF ConnType
<1>3. ~ NoneYet(c) /\ ~ Unused(c)
  BY <1>2 DEF NoneYet, Unused
<1>4. Stage(c)
  BY DEF StageInv
<1>5. PICK k \in DOMAIN conns : Its(c, k)
  BY <1>3, <1>4 DEF Stage, Opening, Received, Answered, Established, Transfer, Closes, LastAck,
                    Early, Ended
<1> QED BY <1>5 DEF Its

\* A sequence with one more element, by its elements.
LEMMA OneMore ==
  ASSUME NEW n \in Nat, NEW f, NEW g, f = [k \in 1 .. n |-> f[k]], g = [k \in 1 .. n + 1 |-> g[k]],
         \A k \in 1 .. n : g[k] = f[k]
  PROVE  g = Append(f, g[n + 1])
<1>1. PICK S : S = {g[k] : k \in 1 .. n + 1}
  OBVIOUS
<1>2. \A k \in 1 .. n + 1 : g[k] \in S
  BY <1>1
<1>3. n + 1 \in Nat /\ \A k \in 1 .. n : k \in 1 .. n + 1
  OBVIOUS
<1>4. g \in [1 .. n + 1 -> S] /\ f \in [1 .. n -> S]
  BY <1>2, <1>3
<1>5. g \in Seq(S) /\ Len(g) = n + 1
  BY <1>3, <1>4
<1>6. f \in Seq(S) /\ Len(f) = n
  BY <1>4
<1>7. g[n + 1] \in S
  BY <1>2
<1>8. /\ Append(f, g[n + 1]) \in Seq(S) /\ Len(Append(f, g[n + 1])) = n + 1
      /\ \A k \in 1 .. n : Append(f, g[n + 1])[k] = f[k]
      /\ Append(f, g[n + 1])[n + 1] = g[n + 1]
  BY <1>6, <1>7, AppendProperties
<1>9. ASSUME NEW k \in 1 .. n + 1 PROVE Append(f, g[n + 1])[k] = g[k]
  <2>1. k \in 1 .. n \/ k = n + 1
    OBVIOUS
  <2> QED BY <1>8, <2>1, Zenon
<1> QED BY <1>5, <1>8, <1>9, SeqEqual

\* What MadeFor and GivenTo say of an Http2Conn.
LEMMA FeedFacts ==
  /\ DOMAIN MadeFor = DOMAIN conns /\ DOMAIN GivenTo = DOMAIN conns
  /\ MadeFor = [k \in DOMAIN conns |-> MadeFor[k]]
  /\ GivenTo = [k \in DOMAIN conns |-> GivenTo[k]]
  /\ \A k \in DOMAIN conns : /\ MadeFor[k] = [dc |-> conns[k].dc, inc |-> conns[k].inc]
                             /\ GivenTo[k] = [in |-> Pkts(conns[k].in.got), out |-> Pkts(conns[k].out.got)]
BY DEF MadeFor, GivenTo

\* The same after a step.
LEMMA FeedFactsNext ==
  /\ DOMAIN MadeFor' = DOMAIN conns' /\ DOMAIN GivenTo' = DOMAIN conns'
  /\ MadeFor' = [k \in DOMAIN conns' |-> MadeFor'[k]]
  /\ GivenTo' = [k \in DOMAIN conns' |-> GivenTo'[k]]
  /\ \A k \in DOMAIN conns' : /\ MadeFor'[k] = [dc |-> conns'[k].dc, inc |-> conns'[k].inc]
                              /\ GivenTo'[k] = [in |-> Pkts(conns'[k].in.got), out |-> Pkts(conns'[k].out.got)]
BY DEF MadeFor, GivenTo, Pkts

\* A step that leaves every Http2Conn alone.
LEMMA NoneFed ==
  ASSUME conns' = conns
  PROVE  [Feeds!Next]_(Feeds!fvars)
<1>1. MadeFor' = MadeFor
  BY DEF MadeFor
<1>2. GivenTo' = GivenTo
  BY DEF GivenTo, Pkts
<1> QED BY <1>1, <1>2 DEF Feeds!fvars

\* The Http2Conn of the connection that uses c now is the newest of c.
LEMMA ItsNewest ==
  ASSUME VarsInv, ConnsInv, NEW c \in Conns, NEW h, Its(c, h)
  PROVE  h \in DOMAIN MadeFor /\ Feeds!Newest(h)
<1>1. h \in DOMAIN conns /\ conns[h].dc = c /\ conns[h].inc = inc[c]
  BY DEF Its
<1>2. \A g \in DOMAIN conns : conns[g].dc = c => conns[g].inc <= inc[c]
  BY DEF ConnsInv
<1> QED BY <1>1, <1>2 DEF MadeFor, Feeds!Newest

\* The last step of a handshake makes the Http2Conn of a connection that has none.
LEMMA MakeFeeds ==
  ASSUME IndInv, IndInv', NEW c \in Conns, NEW p, inc' = inc, conns' = Append(conns, NewHttp2Conn(c, p))
  PROVE  Feeds!Next
<1>1. /\ VarsInv /\ ConnsInv /\ VarsInv' /\ StageInv'
      /\ conns \in Seq(ConnType) /\ conns' \in Seq(ConnType)
  BY DEF IndInv, VarsInv
<1>2. PICK n \in Nat : n = Len(conns)
  BY <1>1
<1>3. /\ DOMAIN conns = 1 .. n /\ DOMAIN conns' = 1 .. n + 1
      /\ \A g \in 1 .. n : conns'[g] = conns[g]
      /\ conns'[n + 1] = NewHttp2Conn(c, p)
  BY <1>1, <1>2
<1>4. /\ conns'[n + 1].dc = c /\ conns'[n + 1].inc = inc[c]
      /\ conns'[n + 1].in.got = <<>> /\ conns'[n + 1].out.got = <<>>
  BY <1>3 DEF NewHttp2Conn, Buffer
<1>5. inc[c] \in 1 .. MaxInc
  <2>1. conns'[n + 1] \in ConnType
    BY <1>1, <1>3
  <2> QED BY <1>4, <2>1 DEF ConnType
<1>6. ASSUME NEW g \in DOMAIN conns, conns[g].dc = c PROVE conns[g].inc < inc[c]
  <2>1. conns[g].inc <= inc[c] /\ conns[g] \in ConnType
    BY <1>1, <1>6 DEF ConnsInv
  <2>2. conns[g].inc \in Nat
    BY <2>1 DEF ConnType
  <2>3. ASSUME conns[g].inc = inc[c] PROVE FALSE
    <3>1. /\ g \in DOMAIN conns' /\ n + 1 \in DOMAIN conns' /\ g # n + 1
          /\ conns'[g].dc = c /\ conns'[g].inc = inc'[c] /\ conns'[n + 1].inc = inc'[c]
      BY <1>3, <1>4, <1>6, <2>3
    <3>2. EachOnlyOne'
      BY OneEach, PTL
    <3>3. OnlyOne(c)'
      BY <1>1, <3>2 DEF EachOnlyOne
    <3> QED BY <1>4, <3>1, <3>3 DEF OnlyOne
  <2> QED BY <1>5, <2>1, <2>2, <2>3
<1>7. MadeFor' = Append(MadeFor, [dc |-> c, inc |-> inc[c]])
  <2>1. /\ MadeFor = [k \in 1 .. n |-> MadeFor[k]]
        /\ MadeFor' = [k \in 1 .. n + 1 |-> MadeFor'[k]]
    BY <1>3, FeedFacts, FeedFactsNext
  <2>2. \A k \in 1 .. n : MadeFor'[k] = MadeFor[k]
    BY <1>3, FeedFacts, FeedFactsNext
  <2>3. MadeFor'[n + 1] = [dc |-> c, inc |-> inc[c]]
    BY <1>3, <1>4, FeedFactsNext
  <2> QED BY <2>1, <2>2, <2>3, OneMore
<1>8. GivenTo' = Append(GivenTo, [in |-> <<>>, out |-> <<>>])
  <2>1. Pkts(<<>>) = <<>>
    BY DEF Pkts
  <2>2. /\ GivenTo = [k \in 1 .. n |-> GivenTo[k]]
        /\ GivenTo' = [k \in 1 .. n + 1 |-> GivenTo'[k]]
    BY <1>3, FeedFacts, FeedFactsNext
  <2>3. \A k \in 1 .. n : GivenTo'[k] = GivenTo[k]
    BY <1>3, FeedFacts, FeedFactsNext
  <2>4. GivenTo'[n + 1] = [in |-> <<>>, out |-> <<>>]
    BY <1>3, <1>4, <2>1, FeedFactsNext
  <2> QED BY <2>2, <2>3, <2>4, OneMore
<1>9. \A g \in DOMAIN MadeFor : MadeFor[g].dc = c => MadeFor[g].inc < inc[c]
  BY <1>6, FeedFacts
<1> QED BY <1>5, <1>7, <1>8, <1>9 DEF Feeds!Next, Feeds!Make

\* How many packets of a and b, of which s came, were delivered.
Begun(a, b, s) == IF a \notin s THEN 0 ELSE IF b \notin s THEN 1 ELSE 2

\* What a buffer delivered, as the beginning of the two packets.
LEMMA HeldBegins ==
  ASSUME NEW a, NEW b, NEW i, NEW s \in SUBSET {a, b}
  PROVE  /\ Pkts(Held(a, b, i, s).got) = SubSeq(<<a, b>>, 1, Begun(a, b, s))
         /\ Len(Pkts(Held(a, b, i, s).got)) = Begun(a, b, s)
<1>1. Held(a, b, i, s).got = IF a \notin s THEN <<>>
                             ELSE IF b \notin s THEN <<[inc |-> i, pkt |-> a]>>
                             ELSE <<[inc |-> i, pkt |-> a], [inc |-> i, pkt |-> b]>>
  BY DEF Held
<1>2. /\ Pkts(<<>>) = <<>>
      /\ Pkts(<<[inc |-> i, pkt |-> a]>>) = <<a>>
      /\ Pkts(<<[inc |-> i, pkt |-> a], [inc |-> i, pkt |-> b]>>) = <<a, b>>
  BY DEF Pkts
<1>3. Pkts(Held(a, b, i, s).got) = IF a \notin s THEN <<>> ELSE IF b \notin s THEN <<a>> ELSE <<a, b>>
  BY <1>1, <1>2
<1>4. /\ <<>> = SubSeq(<<a, b>>, 1, 0) /\ <<a>> = SubSeq(<<a, b>>, 1, 1)
      /\ <<a, b>> = SubSeq(<<a, b>>, 1, 2)
  OBVIOUS
<1>5. Len(<<>>) = 0 /\ Len(<<a>>) = 1 /\ Len(<<a, b>>) = 2
  OBVIOUS
<1>6. CASE a \notin s
  <2>1. Pkts(Held(a, b, i, s).got) = <<>> /\ Begun(a, b, s) = 0
    BY <1>3, <1>6 DEF Begun
  <2> QED BY <2>1, <1>4, <1>5, Zenon
<1>7. CASE a \in s /\ b \notin s
  <2>1. Pkts(Held(a, b, i, s).got) = <<a>> /\ Begun(a, b, s) = 1
    BY <1>3, <1>7 DEF Begun
  <2> QED BY <2>1, <1>4, <1>5, Zenon
<1>8. CASE a \in s /\ b \in s
  <2>1. Pkts(Held(a, b, i, s).got) = <<a, b>> /\ Begun(a, b, s) = 2
    BY <1>3, <1>8 DEF Begun
  <2> QED BY <2>1, <1>4, <1>5, Zenon
<1> QED BY <1>6, <1>7, <1>8

\* The Http2Conn of c is given more of what the client sends, or nothing new.
LEMMA InFeeds ==
  ASSUME VarsInv, ConnsInv, NEW c \in Conns, NEW h, Its(c, h),
         NEW s \in SUBSET {In1, In2}, NEW t \in SUBSET {In1, In2}, s \subseteq t,
         Pkts(conns[h].in.got) = Pkts(Held(In1, In2, inc[c], s).got),
         SetsIn(h, Held(In1, In2, inc[c], t))
  PROVE  [Feeds!Next]_(Feeds!fvars)
<1>1. h \in DOMAIN conns /\ conns \in Seq(ConnType)
  BY DEF Its, VarsInv
<1>2. PICK b : b = Held(In1, In2, inc[c], t)
  OBVIOUS
<1>3. conns[h] \in ConnType /\ conns' = [conns EXCEPT ![h].in = b]
  BY <1>1, <1>2 DEF SetsIn
<1>4. /\ DOMAIN conns' = DOMAIN conns
      /\ \A g \in DOMAIN conns : g # h => conns'[g] = conns[g]
      /\ conns'[h].dc = conns[h].dc /\ conns'[h].inc = conns[h].inc
      /\ conns'[h].in = b /\ conns'[h].out = conns[h].out
  BY <1>1, <1>3 DEF ConnType
<1>5. MadeFor' = MadeFor
  <2>1. ASSUME NEW g \in DOMAIN conns PROVE MadeFor'[g] = MadeFor[g]
    <3>1. MadeFor[g] = [dc |-> conns[g].dc, inc |-> conns[g].inc]
      BY FeedFacts, Zenon
    <3>2. MadeFor'[g] = [dc |-> conns'[g].dc, inc |-> conns'[g].inc]
      BY <1>4, FeedFactsNext, Zenon
    <3>3. conns'[g].dc = conns[g].dc /\ conns'[g].inc = conns[g].inc
      BY <1>4
    <3> QED BY <3>1, <3>2, <3>3, Zenon
  <2>2. /\ MadeFor = [k \in DOMAIN conns |-> MadeFor[k]]
        /\ MadeFor' = [k \in DOMAIN conns |-> MadeFor'[k]]
    BY <1>4, FeedFacts, FeedFactsNext, Zenon
  <2> QED BY <2>1, <2>2
<1>6. GivenTo' = [GivenTo EXCEPT ![h].in = Pkts(b.got)]
  <2>1. \A g \in DOMAIN conns : g # h => GivenTo'[g] = GivenTo[g]
    BY <1>4, FeedFacts, FeedFactsNext
  <2>2. GivenTo'[h] = [GivenTo[h] EXCEPT !.in = Pkts(b.got)]
    <3>1. GivenTo[h] = [in |-> Pkts(conns[h].in.got), out |-> Pkts(conns[h].out.got)]
      BY <1>1, FeedFacts
    <3>2. GivenTo'[h] = [in |-> Pkts(b.got), out |-> Pkts(conns[h].out.got)]
      BY <1>1, <1>4, FeedFactsNext
    <3> QED BY <3>1, <3>2
  <2>3. /\ GivenTo = [k \in DOMAIN conns |-> GivenTo[k]]
        /\ GivenTo' = [k \in DOMAIN conns |-> GivenTo'[k]]
    BY <1>4, FeedFacts, FeedFactsNext
  <2> QED BY <1>1, <2>1, <2>2, <2>3
<1>7. GivenTo[h].in = Pkts(conns[h].in.got)
  BY <1>1, FeedFacts
<1>8. PICK m, n : m = Begun(In1, In2, s) /\ n = Begun(In1, In2, t)
  OBVIOUS
<1>9. m \in 0 .. 2 /\ n \in 0 .. 2 /\ m <= n
  BY <1>8 DEF Begun
<1>10. /\ Pkts(b.got) = SubSeq(<<In1, In2>>, 1, n)
       /\ GivenTo[h].in = SubSeq(<<In1, In2>>, 1, m) /\ Len(GivenTo[h].in) = m
  BY <1>2, <1>7, <1>8, HeldBegins
<1>11. CASE m = n
  <2>1. GivenTo[h] = [in |-> Pkts(conns[h].in.got), out |-> Pkts(conns[h].out.got)]
    BY <1>1, FeedFacts
  <2>2. [GivenTo[h] EXCEPT !.in = Pkts(b.got)] = GivenTo[h]
    BY <2>1, <1>7, <1>10, <1>11
  <2>3. GivenTo = [k \in DOMAIN conns |-> GivenTo[k]]
    BY FeedFacts
  <2>4. GivenTo' = GivenTo
    BY <2>2, <2>3, <1>6
  <2> QED BY <1>5, <2>4 DEF Feeds!fvars
<1>12. CASE m # n
  <2>1. n \in DOMAIN InData /\ InData = <<In1, In2>>
    BY <1>9, <1>12, DataTuples
  <2>2. h \in DOMAIN MadeFor /\ Feeds!Newest(h)
    BY ItsNewest
  <2>3. Len(GivenTo[h].in) < n /\ GivenTo' = [GivenTo EXCEPT ![h].in = SubSeq(InData, 1, n)]
    BY <1>6, <1>9, <1>10, <1>12, <2>1
  <2>4. Feeds!GiveIn(h, n)
    BY <1>5, <2>2, <2>3 DEF Feeds!GiveIn
  <2> QED BY <2>1, <2>2, <2>4 DEF Feeds!Next
<1> QED BY <1>11, <1>12

\* The same of what the server sends.
LEMMA OutFeeds ==
  ASSUME VarsInv, ConnsInv, NEW c \in Conns, NEW h, Its(c, h),
         NEW s \in SUBSET {Out1, Out2}, NEW t \in SUBSET {Out1, Out2}, s \subseteq t,
         Pkts(conns[h].out.got) = Pkts(Held(Out1, Out2, inc[c], s).got),
         SetsOut(h, Held(Out1, Out2, inc[c], t))
  PROVE  [Feeds!Next]_(Feeds!fvars)
<1>1. h \in DOMAIN conns /\ conns \in Seq(ConnType)
  BY DEF Its, VarsInv
<1>2. PICK b : b = Held(Out1, Out2, inc[c], t)
  OBVIOUS
<1>3. conns[h] \in ConnType /\ conns' = [conns EXCEPT ![h].out = b]
  BY <1>1, <1>2 DEF SetsOut
<1>4. /\ DOMAIN conns' = DOMAIN conns
      /\ \A g \in DOMAIN conns : g # h => conns'[g] = conns[g]
      /\ conns'[h].dc = conns[h].dc /\ conns'[h].inc = conns[h].inc
      /\ conns'[h].out = b /\ conns'[h].in = conns[h].in
  BY <1>1, <1>3 DEF ConnType
<1>5. MadeFor' = MadeFor
  <2>1. ASSUME NEW g \in DOMAIN conns PROVE MadeFor'[g] = MadeFor[g]
    <3>1. MadeFor[g] = [dc |-> conns[g].dc, inc |-> conns[g].inc]
      BY FeedFacts, Zenon
    <3>2. MadeFor'[g] = [dc |-> conns'[g].dc, inc |-> conns'[g].inc]
      BY <1>4, FeedFactsNext, Zenon
    <3>3. conns'[g].dc = conns[g].dc /\ conns'[g].inc = conns[g].inc
      BY <1>4
    <3> QED BY <3>1, <3>2, <3>3, Zenon
  <2>2. /\ MadeFor = [k \in DOMAIN conns |-> MadeFor[k]]
        /\ MadeFor' = [k \in DOMAIN conns |-> MadeFor'[k]]
    BY <1>4, FeedFacts, FeedFactsNext, Zenon
  <2> QED BY <2>1, <2>2
<1>6. GivenTo' = [GivenTo EXCEPT ![h].out = Pkts(b.got)]
  <2>1. \A g \in DOMAIN conns : g # h => GivenTo'[g] = GivenTo[g]
    BY <1>4, FeedFacts, FeedFactsNext
  <2>2. GivenTo'[h] = [GivenTo[h] EXCEPT !.out = Pkts(b.got)]
    <3>1. GivenTo[h] = [in |-> Pkts(conns[h].in.got), out |-> Pkts(conns[h].out.got)]
      BY <1>1, FeedFacts
    <3>2. GivenTo'[h] = [in |-> Pkts(conns[h].in.got), out |-> Pkts(b.got)]
      BY <1>1, <1>4, FeedFactsNext
    <3> QED BY <3>1, <3>2
  <2>3. /\ GivenTo = [k \in DOMAIN conns |-> GivenTo[k]]
        /\ GivenTo' = [k \in DOMAIN conns |-> GivenTo'[k]]
    BY <1>4, FeedFacts, FeedFactsNext
  <2> QED BY <1>1, <2>1, <2>2, <2>3
<1>7. GivenTo[h].out = Pkts(conns[h].out.got)
  BY <1>1, FeedFacts
<1>8. PICK m, n : m = Begun(Out1, Out2, s) /\ n = Begun(Out1, Out2, t)
  OBVIOUS
<1>9. m \in 0 .. 2 /\ n \in 0 .. 2 /\ m <= n
  BY <1>8 DEF Begun
<1>10. /\ Pkts(b.got) = SubSeq(<<Out1, Out2>>, 1, n)
       /\ GivenTo[h].out = SubSeq(<<Out1, Out2>>, 1, m) /\ Len(GivenTo[h].out) = m
  BY <1>2, <1>7, <1>8, HeldBegins
<1>11. CASE m = n
  <2>1. GivenTo[h] = [in |-> Pkts(conns[h].in.got), out |-> Pkts(conns[h].out.got)]
    BY <1>1, FeedFacts
  <2>2. [GivenTo[h] EXCEPT !.out = Pkts(b.got)] = GivenTo[h]
    BY <2>1, <1>7, <1>10, <1>11
  <2>3. GivenTo = [k \in DOMAIN conns |-> GivenTo[k]]
    BY FeedFacts
  <2>4. GivenTo' = GivenTo
    BY <2>2, <2>3, <1>6
  <2> QED BY <1>5, <2>4 DEF Feeds!fvars
<1>12. CASE m # n
  <2>1. n \in DOMAIN OutData /\ OutData = <<Out1, Out2>>
    BY <1>9, <1>12, DataTuples
  <2>2. h \in DOMAIN MadeFor /\ Feeds!Newest(h)
    BY ItsNewest
  <2>3. Len(GivenTo[h].out) < n /\ GivenTo' = [GivenTo EXCEPT ![h].out = SubSeq(OutData, 1, n)]
    BY <1>6, <1>9, <1>10, <1>12, <2>1
  <2>4. Feeds!GiveOut(h, n)
    BY <1>5, <2>2, <2>3 DEF Feeds!GiveOut
  <2> QED BY <2>1, <2>2, <2>4 DEF Feeds!Next
<1> QED BY <1>11, <1>12

\* A packet without a payload makes an Http2Conn or gives nothing.
LEMMA ControlFeeds ==
  ASSUME IndInv, IndInv', NEW c \in Conns, NEW p \in Controls, ProcessTCPPkg(c, p), inc' = inc
  PROVE  [Feeds!Next]_(Feeds!fvars)
<1>1. PICK from : from = IF ConnStates[c] = "none" THEN "LISTEN" ELSE ConnStates[c]
  OBVIOUS
<1>2. PICK to : to = Trigger(from, EventOf(p))
  OBVIOUS
<1>3. conns' = conns \/ conns' = Append(conns, NewHttp2Conn(c, p))
  BY <1>1, <1>2, ControlStep
<1> QED BY <1>3, NoneFed, MakeFeeds

\* A data packet, captured first or again, gives the Http2Conn of its addresses
\* the next of its stream, or nothing.
LEMMA DataFeeds ==
  ASSUME VarsInv, ConnsInv, NEW c \in Conns, NEW p \in AllData, ProcessTCPPkg(c, p),
         ConnStates[c] = "ESTABLISHED", NEW h, Its(c, h), Fed(c, h), Mapped(c, h)
  PROVE  [Feeds!Next]_(Feeds!fvars)
<1>1. PICK s \in SUBSET {In1, In2}, t \in SUBSET {Out1, Out2} :
        /\ conns[h].in = Held(In1, In2, inc[c], s)
        /\ conns[h].out = Held(Out1, Out2, inc[c], t)
  BY DEF Fed
<1>2. h # 0 /\ conns[h].left \in BOOLEAN /\ p.preface = FALSE
  <2>1. conns \in Seq(ConnType) /\ h \in DOMAIN conns
    BY DEF VarsInv, Its
  <2>2. conns[h] \in ConnType /\ h # 0
    BY <2>1
  <2> QED BY <2>2, Kinds DEF ConnType
<1>3. CASE conns[h].left
  BY <1>3, DataStep, NoneFed DEF Mapped
<1>4. CASE ~ conns[h].left /\ p \in {In1, In2}
  <2>1. PICK s2 \in {s, s \cup {p}} :
          AddTCP(Held(In1, In2, inc[c], s), inc[c], p) = Held(In1, In2, inc[c], s2)
    <3>1. OneOf(In1, In2, s, p)
      BY <1>4, Kinds DEF OneOf
    <3> QED BY <3>1, Delivered DEF Delivers
  <2>2. SetsIn(h, Held(In1, In2, inc[c], s2))
    <3>1. p.dir = "in" /\ ConnRepository[c] = h
      BY <1>4, Kinds DEF Mapped
    <3>2. ProcessIncoming(conns[h].in, inc[c], p) = Held(In1, In2, inc[c], s2)
      BY <1>1, <1>2, <2>1 DEF ProcessIncoming
    <3> QED BY <3>1, <3>2, <1>2, DataStep
  <2>3. s2 \in SUBSET {In1, In2} /\ s \subseteq s2
    BY <1>4
  <2> QED BY <1>1, <2>2, <2>3, InFeeds
<1>5. CASE ~ conns[h].left /\ p \in {Out1, Out2} /\ RecordResponse
  <2>1. PICK t2 \in {t, t \cup {p}} :
          AddTCP(Held(Out1, Out2, inc[c], t), inc[c], p) = Held(Out1, Out2, inc[c], t2)
    <3>1. OneOf(Out1, Out2, t, p)
      BY <1>5, Kinds DEF OneOf
    <3> QED BY <3>1, Delivered DEF Delivers
  <2>2. SetsOut(h, Held(Out1, Out2, inc[c], t2))
    <3>1. p.dir = "out" /\ ConnRepository[c] = h
      BY <1>5, Kinds DEF Mapped
    <3>2. AddTCP(conns[h].out, inc[c], p) = Held(Out1, Out2, inc[c], t2)
      BY <1>1, <2>1
    <3>3. SetsOut(h, AddTCP(conns[h].out, inc[c], p))
      BY <3>1, <1>2, <1>5, DataStep
    <3> QED BY <3>2, <3>3
  <2>3. t2 \in SUBSET {Out1, Out2} /\ t \subseteq t2
    BY <1>5
  <2> QED BY <1>1, <2>2, <2>3, OutFeeds
<1>6. CASE ~ conns[h].left /\ p \in {Out1, Out2} /\ ~ RecordResponse
  <2>1. p.dir = "out" /\ ConnRepository[c] = h
    BY <1>6, Kinds DEF Mapped
  <2> QED BY <2>1, <1>2, <1>6, DataStep, NoneFed
<1> QED BY <1>3, <1>4, <1>5, <1>6 DEF AllData

\* The preface gives nothing: it says where the stream of the client begins.
LEMMA PrefaceFeeds ==
  ASSUME VarsInv, ConnsInv, NEW c \in Conns, Established(c), ProcessTCPPkg(c, Preface)
  PROVE  [Feeds!Next]_(Feeds!fvars)
<1>1. PICK h \in DOMAIN conns : /\ Its(c, h) /\ ConnRepository[c] = h
                                /\ conns[h].in = Buffer(inc[c], 1)
  BY DEF Established
<1>2. ConnStates[c] = "ESTABLISHED" /\ h # 0
  BY DEF Established, VarsInv
<1>3. SetsIn(h, Held(In1, In2, inc[c], {}))
  <2>1. ProcessIncoming(conns[h].in, inc[c], Preface) = Held(In1, In2, inc[c], {})
    BY <1>1, PrefaceSets
  <2>2. SetsIn(h, ProcessIncoming(conns[h].in, inc[c], Preface))
    BY <1>1, <1>2, DataStep, Kinds
  <2> QED BY <2>1, <2>2
<1>4. Pkts(conns[h].in.got) = Pkts(Held(In1, In2, inc[c], {}).got)
  <2>1. conns[h].in.got = <<>> /\ Held(In1, In2, inc[c], {}).got = <<>>
    BY <1>1 DEF Buffer, Held
  <2> QED BY <2>1, Zenon
<1>5. {} \in SUBSET {In1, In2} /\ {} \subseteq {}
  OBVIOUS
<1> QED BY <1>1, <1>3, <1>4, <1>5, InFeeds

\* A packet in a state other than ESTABLISHED gives nothing.
LEMMA IdleFeeds ==
  ASSUME IndInv, IndInv', NEW c \in Conns, NEW p \in Packets, ProcessTCPPkg(c, p), inc' = inc,
         ConnStates[c] # "ESTABLISHED"
  PROVE  [Feeds!Next]_(Feeds!fvars)
<1>1. CASE p \in Controls
  BY <1>1, ControlFeeds
<1>2. CASE p \in {Preface} \cup AllData
  <2>1. conns' = conns
    BY <1>2, DataStep
  <2> QED BY <2>1, NoneFed
<1> QED BY <1>1, <1>2 DEF Packets

\* Two stages have a connection established.
LEMMA StagesEstablished ==
  ASSUME NEW c, Stage(c), ConnStates[c] = "ESTABLISHED"
  PROVE  Established(c) \/ Transfer(c)
BY DEF Stage, Unused, Opening, Received, Answered, Closes, LastAck, Early, Ended, Quiet

\* A packet is captured for the first time.
LEMMA CapturedFeeds ==
  ASSUME IndInv, IndInv', NEW c \in Conns, Captured(c)
  PROVE  [Feeds!Next]_(Feeds!fvars)
<1>1. VarsInv /\ ConnsInv /\ Stage(c)
  BY DEF IndInv, StageInv
<1>2. inc' = inc
  BY <1>1, CapturedFrame
<1>3. CASE ConnStates[c] # "ESTABLISHED"
  BY <1>1, <1>2, <1>3, CapturedFrame, IdleFeeds
<1>4. CASE Established(c)
  <2>1. PICK e \in Endings : plan[c] = Prefaced(e)
    BY <1>4 DEF Established
  <2>2. Preface \in Packets /\ plan[c] = <<{Preface}>> \o Feeding(e) /\ Feeding(e) \in Seq(SUBSET Packets)
    BY <2>1, Plans DEF Prefaced, Packets
  <2>3. ProcessTCPPkg(c, Preface)
    BY <1>1, <2>2, CapturedOne
  <2> QED BY <1>1, <1>4, <2>3, PrefaceFeeds
<1>5. CASE Transfer(c)
  <2>1. PICK h \in DOMAIN conns : Its(c, h) /\ Fed(c, h) /\ Mapped(c, h)
    BY <1>5 DEF Transfer
  <2>2. ConnStates[c] = "ESTABLISHED"
    BY <1>5 DEF Transfer
  <2>3. PICK e \in Endings : \/ plan[c] = e
                             \/ \E d \in SUBSET AllData : d # {} /\ plan[c] = <<d>> \o e
    BY <1>5 DEF Transfer
  <2>4. CASE plan[c] = e
    <3>1. PICK q \in {FinIn, RstIn}, r \in Seq(SUBSET Packets) : e = <<{q}>> \o r
      BY EmptySeq, Plans DEF Endings
    <3>2. q \in Controls /\ q \in Packets
      BY DEF Controls, Packets
    <3>3. ProcessTCPPkg(c, q)
      BY <1>1, <2>4, <3>1, <3>2, CapturedOne
    <3> QED BY <1>2, <3>2, <3>3, ControlFeeds
  <2>5. ASSUME NEW d \in SUBSET AllData, plan[c] = <<d>> \o e PROVE [Feeds!Next]_(Feeds!fvars)
    <3>1. d \in SUBSET Packets /\ e \in Seq(SUBSET Packets)
      BY Plans
    <3>2. PICK p \in d : ProcessTCPPkg(c, p)
      BY <1>1, <2>5, <3>1, CapturedFrom
    <3>3. p \in AllData
      OBVIOUS
    <3> QED BY <1>1, <2>1, <2>2, <3>2, <3>3, DataFeeds
  <2> QED BY <2>3, <2>4, <2>5
<1> QED BY <1>1, <1>3, <1>4, <1>5, StagesEstablished

\* A packet is captured again.
LEMMA RecapturedFeeds ==
  ASSUME InScope, IndInv, IndInv', NEW c \in Conns, Recaptured(c)
  PROVE  [Feeds!Next]_(Feeds!fvars)
<1>1. VarsInv /\ ConnsInv /\ Stage(c)
  BY DEF IndInv, StageInv
<1>2. PICK p \in Controls \cup AllData : Again(c, p)
  BY <1>1, RecapturedPacket
<1>3. inc' = inc /\ ProcessTCPPkg(c, p) /\ p \in seen[c]
  BY <1>2 DEF Again
<1>4. CASE p \in Controls
  BY <1>3, <1>4, ControlFeeds
<1>5. CASE p \in AllData /\ ConnStates[c] # "ESTABLISHED"
  <2>1. p \in Packets
    BY <1>5 DEF Packets
  <2> QED BY <2>1, <1>3, <1>5, IdleFeeds
<1>6. CASE p \in AllData /\ ConnStates[c] = "ESTABLISHED"
  <2>1. ~ Established(c)
    <3>1. p \notin {Syn, SynAck, AckIn}
      BY <1>6, Distinct DEF Controls
    <3> QED BY <3>1, <1>3 DEF Established
  <2>2. Transfer(c)
    BY <1>1, <1>6, <2>1, StagesEstablished
  <2>3. PICK h \in DOMAIN conns : Its(c, h) /\ Fed(c, h) /\ Mapped(c, h)
    BY <2>2 DEF Transfer
  <2> QED BY <1>1, <1>3, <1>6, <2>3, DataFeeds
<1> QED BY <1>4, <1>5, <1>6

\* A GOAWAY gives nothing.
LEMMA GoAwayFeeds ==
  ASSUME VarsInv, NEW h \in DOMAIN conns, GoAway(h)
  PROVE  [Feeds!Next]_(Feeds!fvars)
<1>1. conns \in Seq(ConnType) /\ conns[h] \in ConnType
  BY DEF VarsInv
<1>2. conns' = [conns EXCEPT ![h].left = TRUE]
  BY DEF GoAway
<1>3. /\ DOMAIN conns' = DOMAIN conns
      /\ \A g \in DOMAIN conns : /\ conns'[g].dc = conns[g].dc /\ conns'[g].inc = conns[g].inc
                                 /\ conns'[g].in = conns[g].in /\ conns'[g].out = conns[g].out
  BY <1>1, <1>2 DEF ConnType
<1>4. ASSUME NEW g \in DOMAIN conns PROVE MadeFor'[g] = MadeFor[g] /\ GivenTo'[g] = GivenTo[g]
  <2>1. /\ MadeFor[g] = [dc |-> conns[g].dc, inc |-> conns[g].inc]
        /\ GivenTo[g] = [in |-> Pkts(conns[g].in.got), out |-> Pkts(conns[g].out.got)]
    BY FeedFacts, Zenon
  <2>2. /\ MadeFor'[g] = [dc |-> conns'[g].dc, inc |-> conns'[g].inc]
        /\ GivenTo'[g] = [in |-> Pkts(conns'[g].in.got), out |-> Pkts(conns'[g].out.got)]
    BY <1>3, FeedFactsNext, Zenon
  <2> QED BY <2>1, <2>2, <1>3
<1>5. MadeFor' = MadeFor /\ GivenTo' = GivenTo
  <2>1. /\ MadeFor = [k \in DOMAIN conns |-> MadeFor[k]]
        /\ MadeFor' = [k \in DOMAIN conns |-> MadeFor'[k]]
        /\ GivenTo = [k \in DOMAIN conns |-> GivenTo[k]]
        /\ GivenTo' = [k \in DOMAIN conns |-> GivenTo'[k]]
    BY <1>3, FeedFacts, FeedFactsNext, Zenon
  <2> QED BY <1>4, <2>1
<1> QED BY <1>5 DEF Feeds!fvars

\* Every step of the processor is a step of the feeder or changes nothing of it.
LEMMA StepFeeds ==
  ASSUME InScope, IndInv, IndInv', [Next]_vars
  PROVE  [Feeds!Next]_(Feeds!fvars)
<1>1. ASSUME NEW c \in Conns, Open(c) PROVE [Feeds!Next]_(Feeds!fvars)
  BY <1>1, NoneFed DEF Open, code
<1>2. ASSUME NEW c \in Conns, Captured(c) PROVE [Feeds!Next]_(Feeds!fvars)
  BY <1>2, CapturedFeeds
<1>3. ASSUME NEW c \in Conns, Recaptured(c) PROVE [Feeds!Next]_(Feeds!fvars)
  BY <1>3, RecapturedFeeds
<1>4. ASSUME NEW h \in DOMAIN conns, GoAway(h) PROVE [Feeds!Next]_(Feeds!fvars)
  BY <1>4, GoAwayFeeds DEF IndInv
<1>5. CASE UNCHANGED vars
  BY <1>5, NoneFed DEF vars, code
<1> QED BY <1>1, <1>2, <1>3, <1>4, <1>5 DEF Next

\* The processor implements ConnFeeds, for every number of connections and of
\* incarnations and every window: ProcessTCPPkg makes one Http2Conn for each
\* connection, in their order, and gives only the newest of its addresses anything,
\* always the next of what was sent.
THEOREM ImplementsFeeds == ASSUME InScope PROVE Spec => FeedsSpec
<1>1. ASSUME Init PROVE Feeds!Init
  <2>1. DOMAIN conns = {} /\ conns = <<>>
    BY <1>1 DEF Init
  <2>2. MadeFor = <<>> /\ GivenTo = <<>>
    BY <2>1 DEF MadeFor, GivenTo
  <2> QED BY <2>2 DEF Feeds!Init
<1>2. IndInv /\ IndInv' /\ [Next]_vars => [Feeds!Next]_(Feeds!fvars)
  BY StepFeeds
<1> QED BY <1>1, <1>2, Inductive, PTL DEF Spec, FeedsSpec, Feeds!Spec


\* The processor keeps no CLOSED state, no entry of ConnRepository without its
\* Http2Conn, and no packet without a payload in a TCPBuffer.
THEOREM TypeCorrect == ASSUME InScope PROVE Spec => []TypeOK
BY Inductive, TypeOKInv, PTL

\* An Http2Conn never gets a byte of an earlier or later connection on its
\* addresses, whatever packets come again in ProcessTCPPkg.
THEOREM BytesOwned == ASSUME InScope PROVE Spec => []OwnBytes
BY Inductive, OwnBytesInv, PTL

\* While a connection carries data ProcessTCPPkg finds it established, with its
\* own Http2Conn, however the connections before it on the addresses ended.
THEOREM Tracked == ASSUME InScope PROVE Spec => []NewConnTracked
BY Inductive, NewConnTrackedInv, PTL

\* OnEnter CLOSED deletes both entries of a connection, and no packet that comes
\* again brings its Http2Conn back.
THEOREM Forgotten == ASSUME InScope PROVE Spec => []ClosedIsForgotten
BY Inductive, ClosedInv, PTL

\* What the TCPBuffers of an Http2Conn deliver is what the peers sent, in order,
\* without a gap or a repetition, and in the end all of it, if the window leaves
\* room for the one packet that can come before its turn and neither peer has said
\* GOAWAY, which processFrameGoAway makes the end of what is delivered.
THEOREM StreamsWhole == ASSUME InScope, MaxWindowSize >= 1 PROVE Spec => []Reassembled
BY Inductive, ReassembledInv, PTL
=============================================================================
