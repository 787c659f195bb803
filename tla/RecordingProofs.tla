-------------------------- MODULE RecordingProofs --------------------------
(***************************************************************************)
(* The proofs that a recording keeps to its types, that every output gets  *)
(* what the copy loops pass on, each message once and in order, and that   *)
(* reading the files of the log gives the messages recorded.               *)
(***************************************************************************)
EXTENDS Recording, FoldTheorems

\* What an output has of the messages p that a copy loop has passed on: each
\* once and in order, none of them the one it is still due, and all of the
\* others when nothing has failed.
Sent(s, p, due, whole) ==
    /\ InOrder(s, p)
    /\ due => p # <<>> /\ p[Len(p)] \notin ToSet(s)
    /\ whole => \A a \in DOMAIN p : (due /\ a = Len(p)) \/ p[a] \in ToSet(s)

\* The loop of input i has yet to write its message to out.
Due(i, out) == loop[i] # Reading /\ \E k \in DOMAIN Outputs : loop[i].at <= k /\ Outputs[k] = out

\* Of the messages all of an input, those to come are the last, and those passed
\* on, p, are among the others, each once.
Origin(all, come, p) ==
    LET n == Len(all) - Len(come)
    IN  /\ n \in Nat
        /\ \A k \in DOMAIN come : come[k] = all[n + k]
        /\ \A k \in DOMAIN p : \E l \in 1 .. n : p[k] = all[l]
        /\ \A j, k \in DOMAIN p : p[j] = p[k] => j = k

\* The message a loop writes is the last it has passed on.
AtHand(i) == loop[i] # Reading => passed[i] # <<>> /\ loop[i].msg = passed[i][Len(passed[i])]

\* What an output has was passed on by some loop.
Passed(s) == \A m \in ToSet(s) : \E i \in Inputs : m \in ToSet(passed[i])

\* What the outputs have and are due.
OutputsInv ==
    /\ TypeOK
    /\ \A i \in Inputs : Origin(Arrivals[i], todo[i], passed[i]) /\ AtHand(i)
    /\ Passed(accepted) /\ Passed(recorded)
    /\ \A i \in Inputs : /\ Sent(accepted, passed[i], Due(i, "grpc"), faults = 0)
                         /\ Sent(recorded, passed[i], Due(i, "file"), faults = 0)

\* The complete lines of a record of m, and the piece after them.
Heading(m) == <<<<Piece("meta", m)>>, <<Piece("method", m)>>>>
              \o IF HasResponse[m] THEN <<<<Piece("request", m)>>>> ELSE <<>>
LastPiece(m) == Piece(IF HasResponse[m] THEN "response" ELSE "request", m)

\* The reader has read the record of m, up to its end.
Within(r, m) == r.lines = Heading(m) /\ r.text = <<LastPiece(m)>>

\* These lines, and whatever comes after them, are no record: a line is not what
\* the first one says.
Spoiled(lines) ==
    /\ lines # <<>> /\ IsMeta(lines[1]) /\ lines[1][1].of \in Messages
    /\ LET n == IF HasResponse[lines[1][1].of] THEN 4 ELSE 3
       IN  n <= Len(lines) /\ ~ IsItem(lines[n])

\* So it is with these once another record follows.
Cut(lines) == Spoiled(lines) \/ \E m \in Messages : lines = Heading(m)

\* What the reader makes of the log: it has all records that have an end, and at
\* the end of the log it is within the record being written, if there is one.
LogInv == ~ tangled =>
    LET r == ReadLog(files)
    IN  /\ r.results = [k \in DOMAIN recorded |-> ReadResult(recorded[k])]
        /\ IF Unterminated THEN r.text # <<>> /\ Cut(r.lines) ELSE r.lines = <<>> /\ r.text = <<>>
        /\ \A i \in open : /\ open = {i} /\ Unterminated
                          /\ IF loop[i].msg \in glued THEN Spoiled(r.lines)
                                                       ELSE Within(r, loop[i].msg)

\* Messages are glued when they are written, not before.
GluedInv == /\ \A m \in glued : \E i \in Inputs : m \in ToSet(passed[i])
            /\ \A i \in Inputs : Due(i, "file") /\ i \notin open => loop[i].msg \notin glued

IndInv == OutputsInv /\ GluedInv /\ LogInv

-----------------------------------------------------------------------------
(* Sequences.                                                              *)

\* One more at the end.
LEMMA Appended ==
  ASSUME NEW S, NEW s \in Seq(S), NEW m \in S
  PROVE  /\ Append(s, m) \in Seq(S) /\ Append(s, m) # <<>>
         /\ Len(s) \in Nat /\ Len(Append(s, m)) = Len(s) + 1
         /\ DOMAIN s = 1 .. Len(s) /\ DOMAIN Append(s, m) = 1 .. Len(s) + 1
         /\ \A k \in 1 .. Len(s) + 1 : Append(s, m)[k] = IF k = Len(s) + 1 THEN m ELSE s[k]
         /\ ToSet(Append(s, m)) = ToSet(s) \cup {m}
<1>1. /\ Append(s, m) \in Seq(S) /\ Append(s, m) # <<>>
      /\ Len(s) \in Nat /\ Len(Append(s, m)) = Len(s) + 1
      /\ DOMAIN s = 1 .. Len(s) /\ DOMAIN Append(s, m) = 1 .. Len(s) + 1
      /\ \A k \in 1 .. Len(s) + 1 : Append(s, m)[k] = IF k = Len(s) + 1 THEN m ELSE s[k]
  OBVIOUS
<1>2. ToSet(Append(s, m)) = ToSet(s) \cup {m}
  BY <1>1 DEF ToSet
<1> QED BY <1>1, <1>2

\* The elements of a sequence.
LEMMA Elements ==
  ASSUME NEW S, NEW s \in Seq(S)
  PROVE  /\ Len(s) \in Nat /\ DOMAIN s = 1 .. Len(s)
         /\ \A k \in DOMAIN s : s[k] \in S /\ s[k] \in ToSet(s)
         /\ \A x \in ToSet(s) : x \in S /\ \E k \in DOMAIN s : s[k] = x
         /\ s # <<>> => Len(s) \in DOMAIN s
  BY DEF ToSet

\* The part by which a sequence has grown.
LEMMA AppendedPart ==
  ASSUME NEW S, NEW s \in Seq(S), NEW m \in S
  PROVE  /\ SubSeq(Append(s, m), Len(s) + 1, Len(Append(s, m))) = <<m>>
         /\ s \o <<m>> = Append(s, m)
<1>1. Append(s, m) \in Seq(S) /\ Len(s) \in Nat /\ Len(Append(s, m)) = Len(s) + 1
      /\ Append(s, m)[Len(s) + 1] = m
  BY Appended
<1>2. PICK t : t = Append(s, m)
  OBVIOUS
<1>3. SubSeq(t, Len(s) + 1, Len(s) + 1) = <<m>>
  <2>1. PICK n : n = Len(s) + 1 /\ n \in 1 .. Len(t)
    BY <1>1, <1>2
  <2>2. SubSeq(t, n, n) = [k \in 1 .. 1 |-> t[n + k - 1]]
    BY <1>1, <1>2, <2>1
  <2>3. \A k \in 1 .. 1 : t[n + k - 1] = m
    BY <1>1, <1>2, <2>1
  <2>4. SubSeq(t, n, n) = [k \in 1 .. 1 |-> m]
    BY <2>2, <2>3
  <2>5. <<m>> = [k \in 1 .. 1 |-> m]
    OBVIOUS
  <2> QED BY <1>1, <1>2, <2>1, <2>4, <2>5, Zenon
<1> QED BY <1>1, <1>2, <1>3

\* A loop passes on a message the output does not have.
LEMMA SentNext ==
  ASSUME NEW S, NEW s \in Seq(S), NEW p \in Seq(S), NEW m \in S, NEW whole \in BOOLEAN,
         Sent(s, p, FALSE, whole), m \notin ToSet(s)
  PROVE  Sent(s, Append(p, m), TRUE, whole)
<1> DEFINE q == Append(p, m)
<1>1. /\ q # <<>> /\ Len(q) = Len(p) + 1 /\ DOMAIN p = 1 .. Len(p) /\ DOMAIN q = 1 .. Len(q)
      /\ Len(p) \in Nat
      /\ \A k \in DOMAIN q : q[k] = IF k = Len(q) THEN m ELSE p[k]
  BY Appended
<1> HIDE DEF q
<1>2. \A k \in DOMAIN s : s[k] # m
  BY Elements
<1>3. InOrder(s, q)
  BY <1>1, <1>2 DEF InOrder, Sent
<1> QED BY <1>1, <1>3 DEF Sent, q

\* The output gets the message it is due.
LEMMA SentDue ==
  ASSUME NEW S, NEW s \in Seq(S), NEW p \in Seq(S), NEW whole \in BOOLEAN,
         Sent(s, p, TRUE, whole), \A j, k \in DOMAIN p : p[j] = p[k] => j = k
  PROVE  Sent(Append(s, p[Len(p)]), p, FALSE, whole)
<1> DEFINE m == p[Len(p)]
           t == Append(s, m)
<1>1. /\ p # <<>> /\ m \notin ToSet(s) /\ Len(p) \in Nat /\ DOMAIN p = 1 .. Len(p)
      /\ Len(p) \in DOMAIN p /\ m \in S
  BY Elements DEF Sent
<1>2. /\ Len(t) = Len(s) + 1 /\ DOMAIN s = 1 .. Len(s) /\ DOMAIN t = 1 .. Len(t)
      /\ Len(s) \in Nat /\ ToSet(t) = ToSet(s) \cup {m}
      /\ \A k \in DOMAIN t : t[k] = IF k = Len(t) THEN m ELSE s[k]
  <2> HIDE DEF m
  <2> QED BY <1>1, Appended
<1>3. \A k \in DOMAIN s : s[k] # m
  BY <1>1, Elements
<1>4. \A a \in DOMAIN p : p[a] = m <=> a = Len(p)
  BY <1>1
<1> HIDE DEF m, t
<1>5. InOrder(t, p)
  BY <1>1, <1>2, <1>3, <1>4 DEF InOrder, Sent
<1>6. \A a \in DOMAIN p : a = Len(p) \/ p[a] \in ToSet(s) => p[a] \in ToSet(t)
  BY <1>2, <1>4
<1>7. Sent(t, p, FALSE, whole)
  BY <1>5, <1>6 DEF Sent
<1> QED BY <1>7 DEF m, t

\* The output gets a message of another loop.
LEMMA SentOther ==
  ASSUME NEW S, NEW s \in Seq(S), NEW p \in Seq(S), NEW m \in S, NEW due \in BOOLEAN,
         NEW whole \in BOOLEAN, Sent(s, p, due, whole), m \notin ToSet(p)
  PROVE  Sent(Append(s, m), p, due, whole)
<1> DEFINE t == Append(s, m)
<1>1. /\ Len(t) = Len(s) + 1 /\ DOMAIN s = 1 .. Len(s) /\ DOMAIN t = 1 .. Len(t)
      /\ Len(s) \in Nat /\ ToSet(t) = ToSet(s) \cup {m}
      /\ \A k \in DOMAIN t : t[k] = IF k = Len(t) THEN m ELSE s[k]
  BY Appended
<1> HIDE DEF t
<1>2. \A a \in DOMAIN p : p[a] # m
  BY Elements
<1>3. InOrder(t, p)
  BY <1>1, <1>2 DEF InOrder, Sent
<1>4. due => p[Len(p)] # m
  BY <1>2, Elements DEF Sent
<1>5. Sent(t, p, due, whole)
  BY <1>1, <1>3, <1>4 DEF Sent
<1> QED BY <1>5 DEF t

\* A message is given up after something has failed.
LEMMA SentLess ==
  ASSUME NEW s, NEW p, NEW due \in BOOLEAN, NEW whole \in BOOLEAN, NEW less \in BOOLEAN,
         Sent(s, p, due, whole), less => due
  PROVE  Sent(s, p, less, FALSE)
  BY DEF Sent

-----------------------------------------------------------------------------
(* Where the messages come from.                                           *)

\* A message that was passed on is one of those before the ones to come.
LEMMA OriginOf ==
  ASSUME NEW S, NEW all \in Seq(S), NEW come \in Seq(S), NEW p \in Seq(S),
         Origin(all, come, p), NEW m \in ToSet(p)
  PROVE  \E n \in DOMAIN all : m = all[n] /\ n <= Len(all) - Len(come)
<1>1. PICK k \in DOMAIN p : p[k] = m
  BY Elements
<1>2. PICK l \in 1 .. Len(all) - Len(come) : m = all[l]
  BY <1>1 DEF Origin
<1>3. Len(come) \in Nat /\ Len(all) \in Nat /\ DOMAIN all = 1 .. Len(all)
  BY Elements
<1>4. l \in Nat /\ 1 <= l /\ l <= Len(all) - Len(come)
  BY <1>2, <1>3
<1>5. l \in DOMAIN all
  BY <1>3, <1>4
<1> QED BY <1>2, <1>4, <1>5

\* One more comes, and is dropped or passed on.
LEMMA OriginNext ==
  ASSUME NEW S, NEW all \in Seq(S), NEW come \in Seq(S), NEW p \in Seq(S),
         Origin(all, come, p), come # <<>>
  PROVE  /\ Head(come) \in S /\ Tail(come) \in Seq(S)
         /\ \E n \in DOMAIN all : Head(come) = all[n] /\ n = Len(all) - Len(come) + 1
         /\ Origin(all, Tail(come), p)
         /\ Head(come) \notin ToSet(p) => Origin(all, Tail(come), Append(p, Head(come)))
<1> DEFINE n == Len(all) - Len(come)
           m == Head(come)
           q == Append(p, m)
<1>1. /\ Len(all) \in Nat /\ Len(come) \in Nat /\ n \in Nat /\ Len(come) >= 1
      /\ DOMAIN all = 1 .. Len(all) /\ DOMAIN come = 1 .. Len(come)
      /\ m = come[1] /\ m \in S
      /\ \A k \in DOMAIN come : come[k] = all[n + k]
      /\ \A k \in DOMAIN p : \E l \in 1 .. n : p[k] = all[l]
      /\ \A j, k \in DOMAIN p : p[j] = p[k] => j = k
  BY DEF Origin
<1>2. m = all[n + 1] /\ n + 1 \in DOMAIN all
  BY <1>1
<1>3. PICK t : t = Tail(come)
  OBVIOUS
<1>4. /\ t \in Seq(S) /\ Len(t) = Len(come) - 1 /\ DOMAIN t = 1 .. Len(come) - 1
      /\ \A k \in DOMAIN t : t[k] = come[k + 1]
  BY <1>1, <1>3
<1>5. Len(all) - Len(t) = n + 1 /\ \A k \in DOMAIN t : t[k] = all[n + 1 + k]
  <2>1. Len(all) - Len(t) = n + 1
    BY <1>1, <1>4
  <2> HIDE DEF n
  <2>2. ASSUME NEW k \in DOMAIN t PROVE t[k] = all[n + 1 + k]
    <3>1. k \in Nat /\ k + 1 \in DOMAIN come /\ n + (k + 1) = n + 1 + k
      BY <1>1, <1>4
    <3> QED BY <1>1, <1>4, <3>1
  <2> QED BY <2>1, <2>2
<1>6. \A k \in DOMAIN p : \E l \in 1 .. n + 1 : p[k] = all[l]
  BY <1>1
<1> HIDE DEF n, m
<1>7. Origin(all, t, p)
  BY <1>1, <1>5, <1>6 DEF Origin
<1>8. ASSUME m \notin ToSet(p) PROVE Origin(all, t, q)
  <2>1. /\ DOMAIN p = 1 .. Len(p) /\ DOMAIN q = 1 .. Len(p) + 1 /\ Len(p) \in Nat
        /\ \A k \in DOMAIN q : q[k] = IF k = Len(p) + 1 THEN m ELSE p[k]
    BY <1>1, Appended
  <2>2. \A k \in DOMAIN p : p[k] # m
    BY <1>8, Elements
  <2> HIDE DEF q
  <2>3. \A k \in DOMAIN q : \E l \in 1 .. n + 1 : q[k] = all[l]
    BY <1>1, <1>2, <1>6, <2>1
  <2>4. \A j, k \in DOMAIN q : q[j] = q[k] => j = k
    BY <1>1, <2>1, <2>2
  <2>5. n + 1 \in Nat
    BY <1>1
  <2> QED BY <1>5, <2>3, <2>4, <2>5 DEF Origin
<1> QED BY <1>1, <1>2, <1>3, <1>4, <1>7, <1>8 DEF n, m

-----------------------------------------------------------------------------
(* The types.                                                              *)

\* What is written of a record is pieces.
LEMMA WrittenPieces ==
  ASSUME NEW m \in Messages
  PROVE  Marshal(m) \in Seq(Pieces) /\ Separator \in Seq(Pieces)
<1>1. /\ Piece("meta", m) \in Pieces /\ Piece("method", m) \in Pieces
      /\ Piece("request", m) \in Pieces /\ Piece("response", m) \in Pieces /\ NL \in Pieces
  BY DEF NL, Piece, Pieces
<1> HIDE DEF Pieces, Piece, NL
<1>2. /\ <<Piece("meta", m), NL, Piece("method", m), NL, Piece("request", m)>> \in Seq(Pieces)
      /\ <<NL, Piece("response", m)>> \in Seq(Pieces) /\ <<>> \in Seq(Pieces)
      /\ <<NL, NL>> \in Seq(Pieces)
  BY <1>1
<1> QED BY <1>2 DEF Marshal, Separator

\* The log stays one.
LEMMA LogTypes ==
  ASSUME files \in Seq(Seq(Pieces)), files # <<>>, NEW data \in Seq(Pieces), NEW rotate \in BOOLEAN,
         Log(data, rotate)
  PROVE  files' \in Seq(Seq(Pieces)) /\ files' # <<>>
<1> HIDE DEF Pieces
<1>1. CASE rotate
  BY <1>1, Appended DEF Log
<1>2. CASE ~ rotate
  <2>1. /\ Len(files) \in DOMAIN files /\ files[Len(files)] \o data \in Seq(Pieces)
        /\ files' = [files EXCEPT ![Len(files)] = @ \o data]
    BY <1>2, Elements DEF Log
  <2>2. \A x \in Seq(Pieces) : [files EXCEPT ![Len(files)] = x] \in Seq(Seq(Pieces))
    BY <2>1
  <2> QED BY <2>1, <2>2
<1> QED BY <1>1, <1>2

\* Where a copy loop is.
LEMMA LoopTypes ==
  ASSUME TypeOK, NEW i \in Inputs, loop[i] # Reading
  PROVE  /\ loop[i] \in [msg : Messages, at : 1 .. Len(Outputs)]
         /\ loop[i].msg \in Messages /\ loop[i].at \in 1 .. Len(Outputs)
         /\ loop[i] = [msg |-> loop[i].msg, at |-> loop[i].at]
  BY DEF TypeOK

\* There is one place among the outputs for each of the two.
LEMMA Places ==
  /\ Len(Outputs) \in Nat /\ Len(Outputs) >= 1 /\ DOMAIN Outputs = 1 .. Len(Outputs)
  /\ \A out \in {"grpc", "file"} : \E k \in 1 .. Len(Outputs) :
        \A n \in 1 .. Len(Outputs) : Outputs[n] = out <=> n = k
<1>1. Outputs \in Seq(STRING) /\ Outputs # <<>>
  BY RecordingAssumption, EmitterAssumption
<1>2. Len(Outputs) \in Nat /\ Len(Outputs) >= 1 /\ DOMAIN Outputs = 1 .. Len(Outputs)
  BY <1>1
<1>3. ASSUME NEW out \in {"grpc", "file"}
      PROVE  \E k \in 1 .. Len(Outputs) : \A n \in 1 .. Len(Outputs) : Outputs[n] = out <=> n = k
  <2>1. PICK k \in DOMAIN Outputs : \A n \in DOMAIN Outputs : Outputs[n] = out <=> n = k
    BY RecordingAssumption
  <2> WITNESS k \in 1 .. Len(Outputs)
  <2> QED BY <1>2, <2>1
<1> QED BY <1>2, <1>3

\* A loop goes on to the next output, or to the next message.
LEMMA LoopWritten ==
  ASSUME TypeOK, NEW i \in Inputs, loop[i] # Reading, Written(i)
  PROVE  /\ loop' \in [Inputs -> [msg : Messages, at : 1 .. Len(Outputs)] \cup {Reading}]
         /\ \A j \in Inputs \ {i} : loop'[j] = loop[j]
         /\ IF loop[i].at < Len(Outputs)
            THEN /\ loop'[i].msg = loop[i].msg /\ loop'[i].at = loop[i].at + 1
                 /\ loop'[i] # Reading
            ELSE loop'[i] = Reading
<1> DEFINE Loops == [msg : Messages, at : 1 .. Len(Outputs)]
<1>1. /\ loop[i] \in Loops /\ loop[i].at \in 1 .. Len(Outputs) /\ loop[i].msg \in Messages
      /\ loop \in [Inputs -> Loops \cup {Reading}]
  BY LoopTypes DEF TypeOK
<1>2. PICK l : l = IF loop[i].at < Len(Outputs)
                     THEN [msg |-> loop[i].msg, at |-> loop[i].at + 1] ELSE Reading
  OBVIOUS
<1>3. l \in Loops \cup {Reading}
  BY <1>1, <1>2, Places
<1>4. IF loop[i].at < Len(Outputs)
      THEN l.msg = loop[i].msg /\ l.at = loop[i].at + 1 /\ l # Reading
      ELSE l = Reading
  BY <1>1, <1>2, Places DEF Reading
<1>5. loop' = [loop EXCEPT ![i] = l]
  BY <1>2 DEF Written
<1> HIDE DEF Loops
<1>6. /\ loop' \in [Inputs -> Loops \cup {Reading}] /\ loop'[i] = l
      /\ \A j \in Inputs \ {i} : loop'[j] = loop[j]
  BY <1>1, <1>3, <1>5
<1> QED BY <1>4, <1>6 DEF Loops

\* A loop that is within a record stays there while others go on.
LEMMA OpenKept ==
  ASSUME TypeOK, NEW i \in Inputs, i \notin open', open' \subseteq open,
         \A j \in Inputs \ {i} : loop'[j] = loop[j]
  PROVE  open' \subseteq Inputs /\ \A j \in open' : Writing(j, "file")'
  BY DEF TypeOK, Writing

\* At the start.
LEMMA TypesInit == Init => TypeOK
<1> SUFFICES ASSUME Init PROVE TypeOK
  OBVIOUS
<1>1. files \in Seq(Seq(Pieces)) /\ files # <<>>
  BY DEF Init, FileInit
<1> QED BY <1>1, RecordingAssumption, GRPCAssumption
        DEF Init, EmitterInit, GRPCInit, FileInit, TypeOK, NotCalling

\* A loop that reads is not within a record.
LEMMA ReadTypes ==
  ASSUME TypeOK, NEW i \in Inputs, Read(i)
  PROVE  TypeOK'
<1>1. PICK m : m = Head(todo[i])
  OBVIOUS
<1>2. todo[i] \in Seq(Messages) /\ todo[i] # <<>> /\ m \in Messages /\ Tail(todo[i]) \in Seq(Messages)
  BY <1>1 DEF TypeOK, Read
<1>3. todo' \in [Inputs -> Seq(Messages)]
  BY <1>2 DEF TypeOK, Read
<1>4. /\ loop[i] = Reading
      /\ \/ loop' = [loop EXCEPT ![i] = [msg |-> m, at |-> 1]] /\ passed' = [passed EXCEPT ![i] = Append(@, m)]
         \/ UNCHANGED <<loop, passed>>
  BY <1>1 DEF Read, Copy
<1>5. [msg |-> m, at |-> 1] \in [msg : Messages, at : 1 .. Len(Outputs)]
  BY <1>2, Places
<1>6. loop' \in [Inputs -> [msg : Messages, at : 1 .. Len(Outputs)] \cup {Reading}]
  BY <1>4, <1>5 DEF TypeOK
<1>7. passed' \in [Inputs -> Seq(Messages)]
  <2>1. passed \in [Inputs -> Seq(Messages)] /\ Append(passed[i], m) \in Seq(Messages)
    BY <1>2 DEF TypeOK
  <2> QED BY <1>4, <2>1
<1>8. open' \subseteq Inputs /\ \A j \in open' : Writing(j, "file")'
  <2>1. i \notin open /\ open' = open
    BY <1>4 DEF TypeOK, Writing, Read, fileVars
  <2>2. \A j \in Inputs \ {i} : loop'[j] = loop[j]
    BY <1>4 DEF TypeOK
  <2> QED BY <2>1, <2>2, OpenKept
<1> QED BY <1>3, <1>6, <1>7, <1>8 DEF TypeOK, Read, grpcVars, fileVars

\* What the channel has more is what is sent.
LEMMA ServerTypes ==
  ASSUME TypeOK, NEW i \in Inputs, ToServer(i)
  PROVE  TypeOK' /\ accepted' = Append(accepted, loop[i].msg)
<1>1. PICK m : m = loop[i].msg
  OBVIOUS
<1>2. m \in Messages /\ loop[i] # Reading
  BY <1>1, LoopTypes DEF ToServer, Writing
<1>3. msgChannel' = Append(msgChannel, m) /\ Len(msgChannel) < ChannelCap /\ UNCHANGED calling
  BY <1>1 DEF ToServer, Send
<1>4. msgChannel \in Seq(Messages)
  BY DEF TypeOK
<1>5. SubSeq(msgChannel', Len(msgChannel) + 1, Len(msgChannel')) = <<m>>
  BY <1>2, <1>3, <1>4, AppendedPart
<1>6. accepted' = Append(accepted, m) /\ accepted \in Seq(Messages)
  BY <1>2, <1>5, AppendedPart DEF ToServer, TypeOK
<1>7. msgChannel' \in Seq(Messages) /\ Len(msgChannel') <= ChannelCap
  BY <1>2, <1>3, <1>4, GRPCAssumption
<1>8. open' \subseteq Inputs /\ \A j \in open' : Writing(j, "file")'
  <2>1. i \notin open /\ open' = open
    BY DEF TypeOK, Writing, ToServer, fileVars
  <2> QED BY <1>2, <2>1, LoopWritten, OpenKept DEF ToServer
<1>9. accepted' \in Seq(Messages)
  BY <1>2, <1>6
<1> QED BY <1>1, <1>2, <1>3, <1>6, <1>7, <1>8, <1>9, LoopWritten DEF TypeOK, ToServer, Written, fileVars

\* A record begins.
LEMMA FileTypes ==
  ASSUME TypeOK, NEW i \in Inputs, ToFile(i)
  PROVE  TypeOK'
<1>1. loop[i].msg \in Messages
  BY LoopTypes DEF ToFile, Writing
<1>2. files' \in Seq(Seq(Pieces)) /\ files' # <<>>
  <2> HIDE DEF Pieces
  <2>1. PICK rotate \in Rotations : Log(Marshal(loop[i].msg), rotate)
    BY DEF ToFile, WriteRecord
  <2>2. rotate \in BOOLEAN
    BY DEF Rotations
  <2>3. Marshal(loop[i].msg) \in Seq(Pieces)
    BY <1>1, WrittenPieces
  <2> QED BY <2>1, <2>2, <2>3, LogTypes DEF TypeOK
<1>3. /\ open' = open \cup {i} /\ UNCHANGED <<emitterVars, grpcVars, todo, faults, accepted, recorded>>
      /\ Writing(i, "file")
  BY DEF ToFile, WriteRecord
<1>4. open' \subseteq Inputs /\ \A j \in open' : Writing(j, "file")'
  BY <1>3 DEF TypeOK, Writing, emitterVars
<1> QED BY <1>2, <1>3, <1>4 DEF TypeOK, emitterVars, grpcVars

\* A record ends.
LEMMA EndTypes ==
  ASSUME TypeOK, NEW i \in Inputs, EndOfRecord(i)
  PROVE  TypeOK'
<1>1. loop[i].msg \in Messages /\ loop[i] # Reading
  BY LoopTypes DEF EndOfRecord, Writing
<1>2. files' \in Seq(Seq(Pieces)) /\ files' # <<>>
  <2> HIDE DEF Pieces
  <2>1. PICK rotate \in Rotations : Log(Separator, rotate)
    BY DEF EndOfRecord, WriteEnd
  <2>2. rotate \in BOOLEAN
    BY DEF Rotations
  <2>3. Separator \in Seq(Pieces)
    BY <1>1, WrittenPieces
  <2> QED BY <2>1, <2>2, <2>3, LogTypes DEF TypeOK
<1>3. recorded' \in Seq(Messages)
  BY <1>1 DEF TypeOK, EndOfRecord, WriteEnd
<1>4. open' \subseteq Inputs /\ \A j \in open' : Writing(j, "file")'
  BY <1>1, LoopWritten, OpenKept DEF EndOfRecord, WriteEnd
<1> QED BY <1>1, <1>2, <1>3, <1>4, LoopWritten DEF TypeOK, EndOfRecord, Written, grpcVars

\* A write fails.
LEMMA FailTypes ==
  ASSUME TypeOK, NEW i \in Inputs, FileFails(i)
  PROVE  TypeOK'
<1>1. loop[i].msg \in Messages /\ loop[i] # Reading
  BY LoopTypes DEF FileFails, Writing
<1>2. open' \subseteq Inputs /\ \A j \in open' : Writing(j, "file")'
  BY <1>1, LoopWritten, OpenKept DEF FileFails, WriteFails
<1>3. faults' \in 0 .. MaxFaults
  BY RecordingAssumption DEF TypeOK, FileFails
<1> QED BY <1>1, <1>2, <1>3, LoopWritten DEF TypeOK, FileFails, WriteFails, Written, grpcVars

\* A caller takes a message, or is done with it.
LEMMA WorkTypes ==
  ASSUME TypeOK, NEW w \in Workers, Work(w)
  PROVE  TypeOK'
<1>1. UNCHANGED <<emitterVars, fileVars, todo, faults, accepted>>
  BY DEF Work
<1>2. /\ msgChannel' \in Seq(Messages) /\ Len(msgChannel') <= ChannelCap
      /\ calling' \in [Workers -> Messages \cup {NoMessage}]
  <2>0. /\ msgChannel \in Seq(Messages) /\ Len(msgChannel) <= ChannelCap
        /\ calling \in [Workers -> Messages \cup {NoMessage}]
    BY DEF TypeOK
  <2>1. CASE StartCall(w)
    <3>1. PICK m : m = Head(msgChannel)
      OBVIOUS
    <3>2. /\ msgChannel # <<>> /\ msgChannel' = Tail(msgChannel)
          /\ calling' = calling \/ calling' = [calling EXCEPT ![w] = m]
      BY <2>1, <3>1 DEF StartCall
    <3>3. m \in Messages /\ msgChannel' \in Seq(Messages) /\ Len(msgChannel') = Len(msgChannel) - 1
      BY <2>0, <3>1, <3>2
    <3>4. Len(msgChannel) \in Nat
      BY <2>0
    <3> QED BY <2>0, <3>2, <3>3, <3>4, GRPCAssumption
  <2>2. CASE EndCall(w)
    BY <2>0, <2>2 DEF EndCall
  <2> QED BY <2>1, <2>2 DEF Work
<1> QED BY <1>1, <1>2 DEF TypeOK, Writing, emitterVars, fileVars

\* The process is killed.
LEMMA KillTypes ==
  ASSUME TypeOK, Kill
  PROVE  TypeOK'
<1>1. /\ loop' = [i \in Inputs |-> Reading] /\ open' = {} /\ msgChannel' = <<>> /\ calling' = NotCalling
      /\ UNCHANGED <<passed, files, recorded, todo, accepted>>
      /\ faults < MaxFaults /\ faults' = faults + 1
  BY DEF Kill, EmitterRestart, GRPCRestart, FileRestart
<1>2. faults' \in 0 .. MaxFaults
  BY <1>1, RecordingAssumption DEF TypeOK
<1> QED BY <1>1, <1>2, GRPCAssumption DEF TypeOK, NotCalling

\* Every step.
LEMMA TypesNext == TypeOK /\ [Next]_vars => TypeOK'
<1> SUFFICES ASSUME TypeOK, [Next]_vars PROVE TypeOK'
  OBVIOUS
<1>1. ASSUME NEW i \in Inputs, CopyMulty(i) \/ FileFails(i) PROVE TypeOK'
  BY <1>1, ReadTypes, ServerTypes, FileTypes, EndTypes, FailTypes DEF CopyMulty
<1>2. ASSUME NEW w \in Workers, Work(w) PROVE TypeOK'
  BY <1>2, WorkTypes
<1>3. CASE Kill
  BY <1>3, KillTypes
<1>4. CASE UNCHANGED vars
  BY <1>4 DEF TypeOK, Writing, vars, emitterVars, grpcVars, fileVars
<1> QED BY <1>1, <1>2, <1>3, <1>4 DEF Next

\* The types, for any number of inputs, messages, callers and faults: a copy loop
\* is within a record only while it writes to the file, the channel keeps to its
\* capacity, and the log is never without a file.
THEOREM RecordingTypes == Spec => []TypeOK
  BY TypesInit, TypesNext, PTL DEF Spec

-----------------------------------------------------------------------------
(* What the outputs get.                                                   *)

\* Both are truth values.
LEMMA Boolean ==
  /\ \A i, out : Due(i, out) \in BOOLEAN
  /\ (faults = 0) \in BOOLEAN
  BY DEF Due

\* The loop at an output is due to write to it, and once it has, to the others
\* as before.
LEMMA DueWritten ==
  ASSUME TypeOK, NEW i \in Inputs, NEW out \in {"grpc", "file"}, Writing(i, out), Written(i)
  PROVE  /\ Due(i, out) /\ ~ Due(i, out)'
         /\ \A other \in {"grpc", "file"} \ {out} : Due(i, other)' = Due(i, other)
<1>1. /\ loop[i] # Reading /\ Outputs[loop[i].at] = out /\ loop[i].at \in 1 .. Len(Outputs)
      /\ IF loop[i].at < Len(Outputs)
         THEN loop'[i].at = loop[i].at + 1 /\ loop'[i] # Reading
         ELSE loop'[i] = Reading
  BY LoopTypes, LoopWritten DEF Writing
<1>2. Due(i, out)
  BY <1>1, Places DEF Due
<1>3. \A k \in 1 .. Len(Outputs) : Outputs[k] = out => k = loop[i].at
  BY <1>1, Places
<1>4. ~ Due(i, out)'
  BY <1>1, <1>3, Places DEF Due
<1>5. ASSUME NEW other \in {"grpc", "file"} \ {out}
      PROVE  Due(i, other)' = Due(i, other)
  <2>1. \A k \in 1 .. Len(Outputs) : Outputs[k] = other => k # loop[i].at
    BY <1>1
  <2> QED BY <1>1, <2>1, Places DEF Due
<1> QED BY <1>2, <1>4, <1>5

\* What another loop is due.
LEMMA DueKept ==
  ASSUME NEW j, loop'[j] = loop[j], NEW out
  PROVE  Due(j, out)' = Due(j, out)
  BY DEF Due

\* A message arrives once.
LEMMA EachOnce ==
  ASSUME NEW i \in Inputs, NEW j \in Inputs, NEW k \in DOMAIN Arrivals[i], NEW n \in DOMAIN Arrivals[j],
         Arrivals[i][k] = Arrivals[j][n]
  PROVE  i = j /\ k = n
  BY RecordingAssumption

\* No two loops pass on the same message.
LEMMA Disjoint ==
  ASSUME TypeOK, \A i \in Inputs : Origin(Arrivals[i], todo[i], passed[i]),
         NEW i \in Inputs, NEW j \in Inputs, i # j, NEW m \in ToSet(passed[i])
  PROVE  m \notin ToSet(passed[j])
<1>1. \A l \in Inputs : \A x \in ToSet(passed[l]) : \E n \in DOMAIN Arrivals[l] : x = Arrivals[l][n]
  BY OriginOf, RecordingAssumption DEF TypeOK
<1>2. PICK k \in DOMAIN Arrivals[i] : m = Arrivals[i][k]
  BY <1>1
<1>3. ASSUME m \in ToSet(passed[j]) PROVE FALSE
  <2>1. PICK n \in DOMAIN Arrivals[j] : m = Arrivals[j][n]
    BY <1>1, <1>3
  <2> QED BY <1>2, <2>1, EachOnce
<1> QED BY <1>3

\* The next message is new.
LEMMA NextIsNew ==
  ASSUME TypeOK, \A i \in Inputs : Origin(Arrivals[i], todo[i], passed[i]),
         NEW i \in Inputs, todo[i] # <<>>, NEW j \in Inputs
  PROVE  Head(todo[i]) \notin ToSet(passed[j])
<1>1. /\ Arrivals[i] \in Seq(Messages) /\ todo[i] \in Seq(Messages) /\ passed[i] \in Seq(Messages)
      /\ Arrivals[j] \in Seq(Messages) /\ todo[j] \in Seq(Messages) /\ passed[j] \in Seq(Messages)
      /\ Origin(Arrivals[i], todo[i], passed[i]) /\ Origin(Arrivals[j], todo[j], passed[j])
  BY RecordingAssumption DEF TypeOK
<1>2. PICK n \in DOMAIN Arrivals[i] : /\ Head(todo[i]) = Arrivals[i][n]
                                     /\ n = Len(Arrivals[i]) - Len(todo[i]) + 1
  BY <1>1, OriginNext
<1>3. ASSUME Head(todo[i]) \in ToSet(passed[j]) PROVE FALSE
  <2>1. PICK k \in DOMAIN Arrivals[j] : /\ Head(todo[i]) = Arrivals[j][k]
                                       /\ k <= Len(Arrivals[j]) - Len(todo[j])
    BY <1>1, <1>3, OriginOf
  <2>2. Arrivals[i][n] = Arrivals[j][k]
    BY <1>2, <2>1
  <2>3. i = j /\ k = n
    BY <2>2, EachOnce
  <2>4. Len(Arrivals[i]) \in Nat /\ Len(todo[i]) \in Nat
    BY <1>1
  <2> QED BY <1>2, <2>1, <2>3, <2>4
<1> QED BY <1>3

-----------------------------------------------------------------------------
(* The steps.                                                              *)

\* A step that passes nothing on and in which no output gets anything.
LEMMA NothingPassed ==
  ASSUME OutputsInv, TypeOK', UNCHANGED <<todo, passed, accepted, recorded>>,
         \A i \in Inputs : loop'[i] = Reading \/ (loop[i] # Reading /\ loop'[i].msg = loop[i].msg),
         \A i \in Inputs, out \in {"grpc", "file"} :
            (Due(i, out)' => Due(i, out)) /\ (faults' = 0 => faults = 0 /\ Due(i, out)' = Due(i, out))
  PROVE  OutputsInv'
<1>1. \A i \in Inputs : AtHand(i)'
  BY DEF OutputsInv, AtHand
<1>2. Passed(accepted)' /\ Passed(recorded)'
  BY DEF OutputsInv, Passed
<1>3. ASSUME NEW i \in Inputs
      PROVE  /\ Sent(accepted, passed[i], Due(i, "grpc"), faults = 0)'
             /\ Sent(recorded, passed[i], Due(i, "file"), faults = 0)'
  BY DEF OutputsInv, Sent
<1> QED BY <1>1, <1>2, <1>3 DEF OutputsInv

\* A message is read: dropped, or passed on.
LEMMA ReadInv ==
  ASSUME OutputsInv, NEW i \in Inputs, Read(i)
  PROVE  OutputsInv'
<1>t. TypeOK /\ TypeOK' /\ \A j \in Inputs : Origin(Arrivals[j], todo[j], passed[j]) /\ AtHand(j)
  BY ReadTypes DEF OutputsInv
<1>1. /\ todo[i] # <<>> /\ todo[i] \in Seq(Messages) /\ passed[i] \in Seq(Messages)
      /\ Arrivals[i] \in Seq(Messages)
      /\ todo' = [todo EXCEPT ![i] = Tail(@)] /\ loop[i] = Reading
      /\ UNCHANGED <<accepted, recorded, faults>>
      /\ accepted \in Seq(Messages) /\ recorded \in Seq(Messages)
  BY <1>t, RecordingAssumption DEF TypeOK, Read, Copy, fileVars
<1>m. PICK m : m = Head(todo[i])
  OBVIOUS
<1>2. m \in Messages /\ \A j \in Inputs : m \notin ToSet(passed[j])
  BY <1>t, <1>m, <1>1, NextIsNew, OriginNext
<1>3. todo'[i] = Tail(todo[i]) /\ \A j \in Inputs \ {i} : todo'[j] = todo[j]
  BY <1>t, <1>1 DEF TypeOK
<1>4. /\ Origin(Arrivals[i], todo'[i], passed[i])
      /\ Origin(Arrivals[i], todo'[i], Append(passed[i], m))
  BY <1>t, <1>m, <1>1, <1>2, <1>3, OriginNext
<1>5. CASE UNCHANGED <<loop, passed>>
  <2>1. \A j \in Inputs : Origin(Arrivals[j], todo'[j], passed'[j]) /\ AtHand(j)'
    BY <1>t, <1>3, <1>4, <1>5 DEF AtHand
  <2>2. \A j \in Inputs, out \in {"grpc", "file"} : Due(j, out)' = Due(j, out)
    BY <1>5, DueKept
  <2>3. Passed(accepted)' /\ Passed(recorded)'
    BY <1>1, <1>5 DEF OutputsInv, Passed
  <2>4. \A j \in Inputs : /\ Sent(accepted, passed[j], Due(j, "grpc"), faults = 0)'
                          /\ Sent(recorded, passed[j], Due(j, "file"), faults = 0)'
    BY <1>1, <1>5, <2>2 DEF OutputsInv
  <2> QED BY <1>t, <2>1, <2>3, <2>4 DEF OutputsInv
<1>6. CASE /\ loop' = [loop EXCEPT ![i] = [msg |-> m, at |-> 1]]
           /\ passed' = [passed EXCEPT ![i] = Append(@, m)]
  <2>1. /\ loop'[i] = [msg |-> m, at |-> 1] /\ passed'[i] = Append(passed[i], m)
        /\ \A j \in Inputs \ {i} : loop'[j] = loop[j] /\ passed'[j] = passed[j]
    BY <1>t, <1>6 DEF TypeOK
  <2>2. loop'[i] # Reading /\ loop'[i].msg = m /\ loop'[i].at = 1
    BY <2>1 DEF Reading
  <2>3. /\ passed'[i] # <<>> /\ passed'[i][Len(passed'[i])] = m
        /\ ToSet(passed'[i]) = ToSet(passed[i]) \cup {m}
    <3>1. PICK p : p = passed[i]
      OBVIOUS
    <3>2. /\ Append(p, m) # <<>> /\ ToSet(Append(p, m)) = ToSet(p) \cup {m}
          /\ Append(p, m)[Len(Append(p, m))] = m
      BY <1>1, <1>2, <3>1, Appended
    <3> QED BY <2>1, <3>1, <3>2
  <2>4. \A j \in Inputs : Origin(Arrivals[j], todo'[j], passed'[j]) /\ AtHand(j)'
    BY <1>t, <1>3, <1>4, <2>1, <2>2, <2>3 DEF AtHand
  <2>5. \A out \in {"grpc", "file"} : Due(i, out) = FALSE /\ Due(i, out)' = TRUE
    <3> SUFFICES ASSUME NEW out \in {"grpc", "file"} PROVE ~ Due(i, out) /\ Due(i, out)'
      BY Boolean DEF Due
    <3>1. PICK k \in DOMAIN Outputs : Outputs[k] = out /\ 1 <= k
      BY Places
    <3> QED BY <1>1, <2>2, <3>1 DEF Due
  <2>6. /\ Passed(accepted)' /\ Passed(recorded)'
        /\ m \notin ToSet(accepted) /\ m \notin ToSet(recorded)
    <3>1. \A j \in Inputs : ToSet(passed[j]) \subseteq ToSet(passed'[j])
      BY <2>1, <2>3
    <3> QED BY <1>1, <1>2, <3>1 DEF OutputsInv, Passed
  <2>7. /\ Sent(accepted, passed[i], Due(i, "grpc"), faults = 0)'
        /\ Sent(recorded, passed[i], Due(i, "file"), faults = 0)'
    <3>1. PICK p, a, r, whole : p = passed[i] /\ a = accepted /\ r = recorded /\ whole = (faults = 0)
      OBVIOUS
    <3>2. Sent(a, p, FALSE, whole) /\ Sent(r, p, FALSE, whole)
      BY <2>5, <3>1 DEF OutputsInv
    <3>3. Sent(a, Append(p, m), TRUE, whole) /\ Sent(r, Append(p, m), TRUE, whole)
      BY <1>1, <1>2, <2>6, <3>1, <3>2, SentNext, Boolean
    <3> QED BY <1>1, <2>1, <2>5, <3>1, <3>3
  <2>8. ASSUME NEW j \in Inputs, j # i
        PROVE  /\ Sent(accepted, passed[j], Due(j, "grpc"), faults = 0)'
               /\ Sent(recorded, passed[j], Due(j, "file"), faults = 0)'
    BY <1>1, <2>1, <2>8, DueKept DEF OutputsInv
  <2> QED BY <1>t, <2>4, <2>6, <2>7, <2>8 DEF OutputsInv
<1> QED BY <1>m, <1>5, <1>6 DEF Read, Copy

\* An output, with the history s, gets the message it is due from loop i, and
\* the loop goes on.
LEMMA GotOne ==
  ASSUME OutputsInv, NEW i \in Inputs, NEW out \in {"grpc", "file"}, Writing(i, out), Written(i),
         NEW s \in Seq(Messages), Passed(s), faults' = faults,
         \A j \in Inputs : Sent(s, passed[j], Due(j, out), faults = 0),
         NEW m, m = loop[i].msg
  PROVE  /\ \A x \in ToSet(Append(s, m)) : \E j \in Inputs : x \in ToSet(passed[j])
         /\ \A j \in Inputs : Sent(Append(s, m), passed'[j], Due(j, out)', faults' = 0)
<1>1. /\ m \in Messages /\ passed[i] \in Seq(Messages) /\ passed[i] # <<>>
      /\ m = passed[i][Len(passed[i])] /\ m \in ToSet(passed[i])
      /\ \A j, k \in DOMAIN passed[i] : passed[i][j] = passed[i][k] => j = k
      /\ passed' = passed
  <2>1. m \in Messages /\ loop[i] # Reading
    BY LoopTypes DEF OutputsInv, Writing
  <2>2. passed[i] \in Seq(Messages) /\ passed[i] # <<>> /\ m = passed[i][Len(passed[i])]
    BY <2>1 DEF OutputsInv, AtHand, TypeOK
  <2>3. m \in ToSet(passed[i])
    BY <2>2, Elements
  <2> QED BY <2>1, <2>2, <2>3 DEF OutputsInv, Origin, Written
<1>2. \A j \in Inputs \ {i} : m \notin ToSet(passed[j])
  BY <1>1, Disjoint DEF OutputsInv
<1>3. ToSet(Append(s, m)) = ToSet(s) \cup {m}
  BY <1>1, Appended
<1>4. PICK whole \in BOOLEAN : whole = (faults = 0)
  BY Boolean
<1>5. Sent(Append(s, m), passed'[i], Due(i, out)', faults' = 0)
  <2>1. PICK p : p = passed[i]
    OBVIOUS
  <2>2. Due(i, out) = TRUE /\ Due(i, out)' = FALSE
    BY DueWritten, Boolean DEF OutputsInv, Due
  <2>3. Sent(s, p, TRUE, whole)
    BY <1>4, <2>1, <2>2
  <2>4. Sent(Append(s, p[Len(p)]), p, FALSE, whole)
    BY <1>1, <2>1, <2>3, SentDue
  <2> QED BY <1>1, <1>4, <2>1, <2>2, <2>4
<1>6. ASSUME NEW j \in Inputs \ {i}
      PROVE  Sent(Append(s, m), passed'[j], Due(j, out)', faults' = 0)
  <2>1. PICK p : p = passed[j]
    OBVIOUS
  <2>2. PICK due \in BOOLEAN : due = Due(j, out)
    BY Boolean
  <2>3. Due(j, out)' = due
    <3>1. loop'[j] = loop[j]
      BY DEF Written, OutputsInv, TypeOK
    <3> QED BY <2>2, <3>1, DueKept
  <2>4. Sent(s, p, due, whole) /\ p \in Seq(Messages) /\ m \notin ToSet(p)
    BY <1>2, <1>4, <2>1, <2>2 DEF OutputsInv, TypeOK
  <2>5. Sent(Append(s, m), p, due, whole)
    BY <1>1, <2>4, SentOther
  <2> QED BY <1>1, <1>4, <2>1, <2>3, <2>5
<1> QED BY <1>1, <1>3, <1>5, <1>6 DEF Passed

\* What an output that loop i does not write to is due stays the same.
LEMMA OtherDue ==
  ASSUME TypeOK, NEW i \in Inputs, NEW out \in {"grpc", "file"}, Writing(i, out), Written(i),
         NEW other \in {"grpc", "file"} \ {out}, NEW j \in Inputs
  PROVE  Due(j, other)' = Due(j, other)
<1>1. CASE j = i
  BY <1>1, DueWritten
<1>2. CASE j # i
  <2>1. loop'[j] = loop[j]
    BY <1>2 DEF Written, TypeOK
  <2> QED BY <2>1, DueKept
<1> QED BY <1>1, <1>2

\* The loop that has written has its message still at hand, if any.
LEMMA WrittenAtHand ==
  ASSUME TypeOK, \A j \in Inputs : AtHand(j), NEW i \in Inputs, loop[i] # Reading, Written(i)
  PROVE  \A j \in Inputs : AtHand(j)'
  BY LoopWritten DEF AtHand, Written

\* The server gets a message.
LEMMA ServerInv ==
  ASSUME OutputsInv, NEW i \in Inputs, ToServer(i)
  PROVE  OutputsInv'
<1>1. /\ TypeOK /\ TypeOK' /\ accepted' = Append(accepted, loop[i].msg)
      /\ Writing(i, "grpc") /\ Written(i) /\ loop[i] # Reading
      /\ UNCHANGED <<recorded, todo, faults, passed>>
  BY ServerTypes DEF OutputsInv, ToServer, fileVars, Writing, Written
<1>2. PICK s, m : s = accepted /\ m = loop[i].msg
  OBVIOUS
<1>3. /\ \A x \in ToSet(Append(s, m)) : \E j \in Inputs : x \in ToSet(passed[j])
      /\ \A j \in Inputs : Sent(Append(s, m), passed'[j], Due(j, "grpc")', faults' = 0)
  <2>1. /\ s \in Seq(Messages) /\ Passed(s)
        /\ \A j \in Inputs : Sent(s, passed[j], Due(j, "grpc"), faults = 0)
    BY <1>2 DEF OutputsInv, TypeOK
  <2> QED BY <1>1, <1>2, <2>1, GotOne
<1>4. \A j \in Inputs : Due(j, "file")' = Due(j, "file")
  BY <1>1, OtherDue
<1>5. Passed(accepted)' /\ Passed(recorded)'
  BY <1>1, <1>2, <1>3 DEF OutputsInv, Passed
<1>6. \A j \in Inputs : /\ Sent(accepted, passed[j], Due(j, "grpc"), faults = 0)'
                        /\ Sent(recorded, passed[j], Due(j, "file"), faults = 0)'
  BY <1>1, <1>2, <1>3, <1>4 DEF OutputsInv
<1>7. \A j \in Inputs : AtHand(j)'
  BY <1>1, WrittenAtHand DEF OutputsInv
<1> QED BY <1>1, <1>5, <1>6, <1>7 DEF OutputsInv

\* The files have got a message.
LEMMA EndInv ==
  ASSUME OutputsInv, NEW i \in Inputs, EndOfRecord(i)
  PROVE  OutputsInv'
<1>1. /\ TypeOK /\ TypeOK' /\ recorded' = Append(recorded, loop[i].msg)
      /\ Writing(i, "file") /\ Written(i) /\ loop[i] # Reading
      /\ UNCHANGED <<accepted, todo, faults, passed>>
  BY EndTypes DEF OutputsInv, EndOfRecord, WriteEnd, Writing, Written
<1>2. PICK s, m : s = recorded /\ m = loop[i].msg
  OBVIOUS
<1>3. /\ \A x \in ToSet(Append(s, m)) : \E j \in Inputs : x \in ToSet(passed[j])
      /\ \A j \in Inputs : Sent(Append(s, m), passed'[j], Due(j, "file")', faults' = 0)
  <2>1. /\ s \in Seq(Messages) /\ Passed(s)
        /\ \A j \in Inputs : Sent(s, passed[j], Due(j, "file"), faults = 0)
    BY <1>2 DEF OutputsInv, TypeOK
  <2> QED BY <1>1, <1>2, <2>1, GotOne
<1>4. \A j \in Inputs : Due(j, "grpc")' = Due(j, "grpc")
  BY <1>1, OtherDue
<1>5. Passed(accepted)' /\ Passed(recorded)'
  BY <1>1, <1>2, <1>3 DEF OutputsInv, Passed
<1>6. \A j \in Inputs : /\ Sent(accepted, passed[j], Due(j, "grpc"), faults = 0)'
                        /\ Sent(recorded, passed[j], Due(j, "file"), faults = 0)'
  BY <1>1, <1>2, <1>3, <1>4 DEF OutputsInv
<1>7. \A j \in Inputs : AtHand(j)'
  BY <1>1, WrittenAtHand DEF OutputsInv
<1> QED BY <1>1, <1>5, <1>6, <1>7 DEF OutputsInv

\* A failed write costs the message.
LEMMA FailInv ==
  ASSUME OutputsInv, NEW i \in Inputs, FileFails(i)
  PROVE  OutputsInv'
<1>t. faults \in Nat
  BY DEF OutputsInv, TypeOK
<1>1. /\ TypeOK /\ TypeOK' /\ Writing(i, "file") /\ Written(i) /\ loop[i] # Reading
      /\ UNCHANGED <<todo, passed, accepted, recorded>> /\ faults' = faults + 1
  BY FailTypes DEF OutputsInv, FileFails, WriteFails, Writing, Written
<1>2. \A j \in Inputs : loop'[j] = Reading \/ (loop[j] # Reading /\ loop'[j].msg = loop[j].msg)
  BY <1>1, LoopWritten
<1>3. \A j \in Inputs, out \in {"grpc", "file"} : Due(j, out)' => Due(j, out)
  <2> SUFFICES ASSUME NEW j \in Inputs, NEW out \in {"grpc", "file"}, Due(j, out)' PROVE Due(j, out)
    OBVIOUS
  <2>1. CASE j = i /\ out = "file"
    BY <1>1, <2>1, DueWritten
  <2>2. CASE j # i /\ out = "file"
    <3>1. loop'[j] = loop[j]
      BY <1>1, <2>2 DEF Written, TypeOK
    <3> QED BY <3>1, DueKept
  <2>3. CASE out = "grpc"
    BY <1>1, <2>3, OtherDue
  <2> QED BY <2>1, <2>2, <2>3
<1>4. faults' # 0
  BY <1>t, <1>1
<1> QED BY <1>1, <1>2, <1>3, <1>4, NothingPassed

\* A kill costs what is at hand.
LEMMA KillInv ==
  ASSUME OutputsInv, Kill
  PROVE  OutputsInv'
<1>1. /\ TypeOK' /\ loop' = [i \in Inputs |-> Reading]
      /\ UNCHANGED <<todo, passed, accepted, recorded>> /\ faults' = faults + 1 /\ faults \in Nat
  BY KillTypes DEF OutputsInv, TypeOK, Kill, EmitterRestart, FileRestart
<1>2. \A i \in Inputs, out \in {"grpc", "file"} : ~ Due(i, out)'
  BY <1>1 DEF Due
<1>3. faults' # 0
  BY <1>1
<1> QED BY <1>1, <1>2, <1>3, NothingPassed

\* A step that the histories do not depend on.
LEMMA UnchangedInv ==
  ASSUME OutputsInv, TypeOK', UNCHANGED <<loop, passed, todo, faults, accepted, recorded>>
  PROVE  OutputsInv'
<1>1. \A i \in Inputs : loop'[i] = Reading \/ (loop[i] # Reading /\ loop'[i].msg = loop[i].msg)
  OBVIOUS
<1>2. \A i \in Inputs, out \in {"grpc", "file"} : Due(i, out)' = Due(i, out)
  BY DueKept
<1> QED BY <1>1, <1>2, NothingPassed

\* At the start nothing was passed on.
LEMMA InvInit == Init => OutputsInv
<1> SUFFICES ASSUME Init PROVE OutputsInv
  OBVIOUS
<1>1. /\ TypeOK /\ loop = [i \in Inputs |-> Reading] /\ passed = [i \in Inputs |-> <<>>]
      /\ todo = Arrivals /\ accepted = <<>> /\ recorded = <<>>
  BY TypesInit DEF Init, EmitterInit, FileInit
<1>2. ToSet(<<>>) = {} /\ DOMAIN <<>> = {}
  BY DEF ToSet
<1>3. \A i \in Inputs : Origin(Arrivals[i], todo[i], passed[i]) /\ AtHand(i)
  <2> SUFFICES ASSUME NEW i \in Inputs PROVE Origin(Arrivals[i], todo[i], passed[i]) /\ AtHand(i)
    OBVIOUS
  <2>1. PICK all : all = Arrivals[i] /\ all \in Seq(Messages)
    BY RecordingAssumption
  <2>2. Len(all) \in Nat /\ Len(all) - Len(all) = 0 /\ \A k \in DOMAIN all : 0 + k = k
    BY <2>1
  <2>3. Origin(all, all, <<>>)
    BY <1>2, <2>2 DEF Origin
  <2> QED BY <1>1, <2>1, <2>3 DEF AtHand
<1>4. Passed(accepted) /\ Passed(recorded)
  BY <1>1, <1>2 DEF Passed
<1>5. \A i \in Inputs : /\ Sent(accepted, passed[i], Due(i, "grpc"), faults = 0)
                        /\ Sent(recorded, passed[i], Due(i, "file"), faults = 0)
  BY <1>1, <1>2 DEF Sent, InOrder, Due
<1> QED BY <1>1, <1>3, <1>4, <1>5 DEF OutputsInv

\* Every step.
LEMMA InvNext == OutputsInv /\ [Next]_vars => OutputsInv'
<1> SUFFICES ASSUME OutputsInv, [Next]_vars PROVE OutputsInv'
  OBVIOUS
<1>t. TypeOK'
  BY TypesNext DEF OutputsInv
<1>1. ASSUME NEW i \in Inputs, ToFile(i) PROVE OutputsInv'
  BY <1>t, <1>1, UnchangedInv DEF ToFile, WriteRecord, emitterVars
<1>2. ASSUME NEW i \in Inputs, CopyMulty(i) \/ FileFails(i) PROVE OutputsInv'
  BY <1>1, <1>2, ReadInv, ServerInv, EndInv, FailInv DEF CopyMulty
<1>3. ASSUME NEW w \in Workers, Work(w) PROVE OutputsInv'
  BY <1>t, <1>3, UnchangedInv DEF Work, emitterVars, fileVars
<1>4. CASE Kill
  BY <1>4, KillInv
<1>5. CASE UNCHANGED vars
  BY <1>t, <1>5, UnchangedInv DEF vars, emitterVars, fileVars
<1> QED BY <1>2, <1>3, <1>4, <1>5 DEF Next

-----------------------------------------------------------------------------
(* The reader, piece by piece.                                             *)

\* The states of a reader.
Readers == [results : Seq(SUBSET Pieces), lines : Seq(Seq(Pieces)), text : Seq(Pieces)]

\* Of pieces, Unmarshal makes a set of pieces.
LEMMA UnmarshalType ==
  ASSUME NEW lines \in Seq(Seq(Pieces))
  PROVE  Unmarshal(lines) \in SUBSET Pieces
<1> DEFINE m == lines[1][1].of
           n == IF HasResponse[m] /\ Len(lines) >= 4 THEN 4 ELSE 3
<1>1. Panic \in SUBSET Pieces /\ Failed \in SUBSET Pieces
  BY DEF Panic, Failed, NL, Piece, Pieces
<1>2. ASSUME Len(lines) >= 3 PROVE UNION {ToSet(lines[k]) : k \in 1 .. n} \in SUBSET Pieces
  <2>1. \A k \in 1 .. n : lines[k] \in Seq(Pieces)
    BY <1>2
  <2>2. \A k \in 1 .. n : ToSet(lines[k]) \in SUBSET Pieces
    BY <2>1 DEF ToSet
  <2> QED BY <2>2
<1> HIDE DEF n
<1>3. CASE lines = <<>>
  BY <1>1, <1>3 DEF Unmarshal
<1>4. CASE lines # <<>> /\ ~ IsMeta(lines[1])
  BY <1>1, <1>4 DEF Unmarshal
<1>5. CASE lines # <<>> /\ IsMeta(lines[1]) /\ Len(lines) < 3
  BY <1>1, <1>5 DEF Unmarshal
<1>6. CASE lines # <<>> /\ IsMeta(lines[1]) /\ ~ (Len(lines) < 3)
  <2>1. Unmarshal(lines) = IF \A k \in 3 .. n : IsItem(lines[k])
                           THEN UNION {ToSet(lines[k]) : k \in 1 .. n} ELSE Failed
    BY <1>6 DEF Unmarshal, n
  <2>2. Len(lines) >= 3
    BY <1>6
  <2> QED BY <1>1, <1>2, <2>1, <2>2
<1> QED BY <1>3, <1>4, <1>5, <1>6

\* A piece leaves the reader a reader.
LEMMA ReadPieceType ==
  ASSUME NEW r \in Readers, NEW p \in Pieces
  PROVE  ReadPiece(r, p) \in Readers
<1>1. /\ r.results \in Seq(SUBSET Pieces) /\ r.lines \in Seq(Seq(Pieces)) /\ r.text \in Seq(Pieces)
      /\ r = [results |-> r.results, lines |-> r.lines, text |-> r.text]
  BY DEF Readers
<1>2. Unmarshal(r.lines) \in SUBSET Pieces
  BY <1>1, UnmarshalType
<1>3. PICK e : e = <<>>
  OBVIOUS
<1>7. e \in Seq(Pieces) /\ e \in Seq(Seq(Pieces))
  BY <1>3
<1> HIDE DEF Pieces
<1>4. CASE p = NL /\ r.text = <<>>
  <2>1. Append(r.results, Unmarshal(r.lines)) \in Seq(SUBSET Pieces)
    BY <1>1, <1>2
  <2>2. [results |-> Append(r.results, Unmarshal(r.lines)), lines |-> e, text |-> e] \in Readers
    BY <1>7, <2>1 DEF Readers
  <2> QED BY <1>3, <1>4, <2>2 DEF ReadPiece, ReadLine
<1>5. CASE p = NL /\ r.text # <<>>
  <2>1. Append(r.lines, r.text) \in Seq(Seq(Pieces))
    BY <1>1
  <2>2. [results |-> r.results, lines |-> Append(r.lines, r.text), text |-> e] \in Readers
    BY <1>1, <1>7, <2>1 DEF Readers
  <2> QED BY <1>3, <1>5, <2>2 DEF ReadPiece, ReadLine
<1>6. CASE p # NL
  <2>1. Append(r.text, p) \in Seq(Pieces)
    BY <1>1
  <2> QED BY <1>1, <1>6, <2>1 DEF ReadPiece, Readers
<1> QED BY <1>4, <1>5, <1>6

\* The reader on its way through n pieces of s.
PieceByPiece(a, n, r, s) == a[0] = r /\ \A k \in 1 .. n : a[k] = ReadPiece(a[k - 1], s[k])

\* There is such a way, and it ends where the fold does.
LEMMA PiecesTrace ==
  ASSUME NEW r \in Readers, NEW s \in Seq(Pieces)
  PROVE  \E a \in [0 .. Len(s) -> Readers] :
            PieceByPiece(a, Len(s), r, s) /\ a[Len(s)] = ReadPieces(r, s)
<1> DEFINE n == Len(s)
           pick == [T \in SUBSET (1 .. n) |-> Greatest(T)]
           step == [k \in 1 .. n |-> [q \in Readers |-> ReadPiece(q, s[k])]]
           Is(f) == f = [T \in SUBSET (DOMAIN s) |->
                            IF T = {} THEN r
                            ELSE ReadPiece(f[T \ {Greatest(T)}], s[Greatest(T)])]
           g == CHOOSE f : Is(f)
<1>1. n \in Nat /\ DOMAIN s = 1 .. n /\ \A k \in 1 .. n : s[k] \in Pieces
  OBVIOUS
<1>3. \A k \in 1 .. n, q \in Readers : step[k][q] = ReadPiece(q, s[k]) /\ step[k][q] \in Readers
  BY <1>1, ReadPieceType
<1>4. ReadPieces(r, s) = g[DOMAIN s]
  BY Zenon DEF ReadPieces, FoldLeft, MapThenFoldSet, Max, Greatest
<1>5. \A T \in SUBSET (1 .. n) : T # {} => pick[T] = Greatest(T) /\ pick[T] \in T
  BY <1>1, ChainFacts
<1> HIDE DEF pick, step
<1>6. Is(g)
  <2>1. PICK f \in [SUBSET (1 .. n) -> Readers] :
           \A T \in SUBSET (1 .. n) : Folded(f, T, r, pick, step)
    <3>1. \A k \in 1 .. n, q \in Readers : step[k][q] \in Readers
      BY <1>3
    <3>2. \A T \in SUBSET (1 .. n) : T # {} => pick[T] \in T
      BY <1>5
    <3>3. IsFiniteSet(1 .. n)
      BY <1>1, ChainFacts
    <3> HIDE DEF n
    <3> QED BY <3>1, <3>2, <3>3, FoldExists
  <2>2. ASSUME NEW T \in SUBSET (1 .. n)
        PROVE  f[T] = IF T = {} THEN r
                      ELSE ReadPiece(f[T \ {Greatest(T)}], s[Greatest(T)])
    <3>1. T # {} => Greatest(T) \in 1 .. n /\ f[T \ {Greatest(T)}] \in Readers
      BY <1>5, <2>1
    <3> QED BY <1>3, <1>5, <2>1, <3>1 DEF Folded
  <2>3. Is(f)
    BY <1>1, <2>1, <2>2
  <2> HIDE DEF Is
  <2> QED BY <2>3
<1>7. g[{}] = r
  BY <1>6
<1>8. ASSUME NEW k \in 1 .. n, g[1 .. k - 1] \in Readers
      PROVE  g[1 .. k] = step[k][g[1 .. k - 1]]
  <2>1. g[1 .. k] = ReadPiece(g[1 .. k - 1], s[k])
    <3>1. /\ 1 .. k \in SUBSET (DOMAIN s) /\ 1 .. k # {}
          /\ Greatest(1 .. k) = k /\ (1 .. k) \ {k} = 1 .. k - 1
      BY <1>1, ChainFacts
    <3> HIDE DEF g
    <3> QED BY <1>6, <3>1
  <2> QED BY <1>3, <1>8, <2>1
<1> HIDE DEF g
<1>9. PICK a \in [0 .. n -> Readers] : Chain(a, n, r, step, g[1 .. n])
  <2>1. \A k \in 1 .. n, q \in Readers : step[k][q] \in Readers
    BY <1>3
  <2>2. Climbs(g, n, Readers, r, step)
    BY <1>7, <1>8 DEF Climbs
  <2>3. n \in Nat
    BY <1>1
  <2> HIDE DEF n, Is
  <2> QED BY <2>1, <2>2, <2>3, Trace
<1>10. \A k \in 1 .. n : a[k] = ReadPiece(a[k - 1], s[k])
  <2>1. \A k \in 1 .. n : k - 1 \in 0 .. n
    BY <1>1
  <2> QED BY <1>3, <1>9, <2>1 DEF Chain
<1> QED BY <1>1, <1>4, <1>9, <1>10 DEF PieceByPiece, Chain

\* There is one way to go.
LEMMA PiecesOnly ==
  ASSUME NEW r \in Readers, NEW s \in Seq(Pieces), NEW b, PieceByPiece(b, Len(s), r, s)
  PROVE  ReadPieces(r, s) = b[Len(s)] /\ ReadPieces(r, s) \in Readers
<1>1. PICK a \in [0 .. Len(s) -> Readers] :
         PieceByPiece(a, Len(s), r, s) /\ a[Len(s)] = ReadPieces(r, s)
  BY PiecesTrace
<1>2. PICK n \in Nat : n = Len(s)
  OBVIOUS
<1> DEFINE P == {k \in Nat : a[k] = b[k]}
<1>3. 0 \in P
  BY <1>1 DEF PieceByPiece
<1>4. ASSUME NEW k \in Nat, k < n, k \in P PROVE k + 1 \in P
  <2>1. k + 1 \in 1 .. n /\ (k + 1) - 1 = k
    BY <1>4
  <2> QED BY <1>1, <1>2, <1>4, <2>1 DEF PieceByPiece
<1>5. \A k \in 0 .. n : k \in P
  <2> HIDE DEF P
  <2> QED BY <1>3, <1>4, NumbersUpto
<1>6. n \in P
  <2> HIDE DEF P
  <2> QED BY <1>5
<1> QED BY <1>1, <1>2, <1>6

\* One sequence after another.
LEMMA Joined ==
  ASSUME NEW S, NEW s \in Seq(S), NEW t \in Seq(S), NEW n \in Nat, n = Len(s)
  PROVE  /\ s \o t \in Seq(S) /\ Len(s \o t) = n + Len(t)
         /\ \A k \in 1 .. n : (s \o t)[k] = s[k]
         /\ \A k \in 1 .. Len(t) : (s \o t)[n + k] = t[k]
  OBVIOUS

\* One piece of text after another.
LEMMA ReadOn ==
  ASSUME NEW r \in Readers, NEW s \in Seq(Pieces), NEW t \in Seq(Pieces)
  PROVE  ReadPieces(r, s \o t) = ReadPieces(ReadPieces(r, s), t)
<1>1. PICK n \in Nat, m \in Nat : n = Len(s) /\ m = Len(t)
  OBVIOUS
<1>2. PICK a \in [0 .. n -> Readers] : PieceByPiece(a, n, r, s) /\ a[n] = ReadPieces(r, s)
  BY <1>1, PiecesTrace
<1>3. PICK b \in [0 .. m -> Readers] : PieceByPiece(b, m, a[n], t) /\ b[m] = ReadPieces(a[n], t)
  <2>1. a[n] \in Readers
    BY <1>2
  <2> QED BY <1>1, <2>1, PiecesTrace
<1>4. PICK u : u = s \o t
  OBVIOUS
<1>5. /\ u \in Seq(Pieces) /\ Len(u) = n + m
      /\ \A k \in 1 .. n : u[k] = s[k]
      /\ \A k \in 1 .. m : u[n + k] = t[k]
  BY <1>1, <1>4
<1> DEFINE c == [k \in 0 .. n + m |-> IF k <= n THEN a[k] ELSE b[k - n]]
<1>6. /\ \A k \in 0 .. n : c[k] = a[k]
      /\ \A k \in 0 .. m : c[n + k] = b[k]
  <2>1. \A k \in 0 .. n : k \in 0 .. n + m /\ k <= n
    OBVIOUS
  <2>2. ASSUME NEW k \in 0 .. m
        PROVE  /\ n + k \in 0 .. n + m /\ (n + k) - n = k /\ (n + k <= n => k = 0)
               /\ n + 0 = n
    OBVIOUS
  <2>3. b[0] = a[n]
    BY <1>3 DEF PieceByPiece
  <2> QED BY <2>1, <2>2, <2>3
<1> HIDE DEF c
<1>7. ASSUME NEW k \in 1 .. n + m PROVE c[k] = ReadPiece(c[k - 1], u[k])
  <2>1. CASE k <= n
    <3>1. k \in 1 .. n /\ k \in 0 .. n /\ k - 1 \in 0 .. n
      BY <2>1
    <3>2. c[k] = a[k] /\ c[k - 1] = a[k - 1] /\ u[k] = s[k]
      BY <1>5, <1>6, <3>1
    <3>3. a[k] = ReadPiece(a[k - 1], s[k])
      BY <1>2, <3>1 DEF PieceByPiece
    <3> QED BY <3>2, <3>3
  <2>2. CASE k > n
    <3>1. PICK j \in 1 .. m : k = n + j
      <4>1. k - n \in 1 .. m /\ k = n + (k - n)
        BY <2>2
      <4> QED BY <4>1
    <3>2. j \in 0 .. m /\ j - 1 \in 0 .. m /\ k - 1 = n + (j - 1)
      BY <3>1
    <3>3. c[k] = b[j] /\ c[k - 1] = b[j - 1] /\ u[k] = t[j]
      BY <1>5, <1>6, <3>1, <3>2
    <3>4. b[j] = ReadPiece(b[j - 1], t[j])
      BY <1>3, <3>1 DEF PieceByPiece
    <3> QED BY <3>3, <3>4
  <2> QED BY <2>1, <2>2
<1>8. PieceByPiece(c, Len(u), r, u)
  <2>1. c[0] = r
    BY <1>2, <1>6 DEF PieceByPiece
  <2> QED BY <1>5, <1>7, <2>1 DEF PieceByPiece
<1>9. ReadPieces(r, u) = c[Len(u)]
  BY <1>5, <1>8, PiecesOnly
<1>10. c[n + m] = b[m] /\ Len(u) = n + m
  BY <1>5, <1>6
<1> QED BY <1>2, <1>3, <1>4, <1>9, <1>10
-----------------------------------------------------------------------------
(* The reader, file by file.                                               *)

\* Pieces leave the reader a reader,
LEMMA PiecesType ==
  ASSUME NEW r \in Readers, NEW s \in Seq(Pieces)
  PROVE  ReadPieces(r, s) \in Readers
<1>1. PICK a \in [0 .. Len(s) -> Readers] : a[Len(s)] = ReadPieces(r, s)
  BY PiecesTrace
<1>2. Len(s) \in 0 .. Len(s)
  OBVIOUS
<1> QED BY <1>1, <1>2

\* and so do files.
LEMMA FileType ==
  ASSUME NEW r \in Readers, NEW file \in Seq(Pieces)
  PROVE  NextFile(r) \in Readers /\ ReadFile(r, file) \in Readers
<1>1. PICK e : e = <<>>
  OBVIOUS
<1>2. e \in Seq(Pieces)
  BY <1>1
<1>3. NextFile(r) \in Readers
  BY <1>1, <1>2 DEF NextFile, Readers
<1> QED BY <1>3, PiecesType DEF ReadFile

\* It begins as one.
LEMMA StartType == StartOfLog \in Readers
<1>1. PICK e : e = <<>>
  OBVIOUS
<1>2. e \in Seq(Pieces) /\ e \in Seq(Seq(Pieces)) /\ e \in Seq(SUBSET Pieces)
  BY <1>1
<1>3. [results |-> e, lines |-> e, text |-> e] \in Readers
  BY <1>2 DEF Readers
<1> QED BY <1>1, <1>3 DEF StartOfLog

\* A file may be empty.
LEMMA EmptyFile == <<>> \in Seq(Pieces)
<1> HIDE DEF Pieces
<1> QED OBVIOUS

\* The reader on its way through n files of log.
FileByFile(a, n, log) == a[0] = StartOfLog /\ \A k \in 1 .. n : a[k] = ReadFile(a[k - 1], log[k])

\* There is such a way, and it ends where the fold does.
LEMMA FilesTrace ==
  ASSUME NEW log \in Seq(Seq(Pieces))
  PROVE  \E a \in [0 .. Len(log) -> Readers] :
            FileByFile(a, Len(log), log) /\ a[Len(log)] = ReadLog(log)
<1> DEFINE n == Len(log)
           pick == [T \in SUBSET (1 .. n) |-> Greatest(T)]
           step == [k \in 1 .. n |-> [q \in Readers |-> ReadFile(q, log[k])]]
           Is(f) == f = [T \in SUBSET (DOMAIN log) |->
                            IF T = {} THEN StartOfLog
                            ELSE ReadFile(f[T \ {Greatest(T)}], log[Greatest(T)])]
           g == CHOOSE f : Is(f)
<1>1. n \in Nat /\ DOMAIN log = 1 .. n /\ \A k \in 1 .. n : log[k] \in Seq(Pieces)
  OBVIOUS
<1>2. StartOfLog \in Readers
  BY StartType
<1>3. \A k \in 1 .. n, q \in Readers : step[k][q] = ReadFile(q, log[k]) /\ step[k][q] \in Readers
  BY <1>1, FileType
<1>4. ReadLog(log) = g[DOMAIN log]
  BY Zenon DEF ReadLog, FoldLeft, MapThenFoldSet, Max, Greatest
<1>5. \A T \in SUBSET (1 .. n) : T # {} => pick[T] = Greatest(T) /\ pick[T] \in T
  BY <1>1, ChainFacts
<1> HIDE DEF pick, step
<1>6. Is(g)
  <2>1. PICK f \in [SUBSET (1 .. n) -> Readers] :
           \A T \in SUBSET (1 .. n) : Folded(f, T, StartOfLog, pick, step)
    <3>1. \A k \in 1 .. n, q \in Readers : step[k][q] \in Readers
      BY <1>3
    <3>2. \A T \in SUBSET (1 .. n) : T # {} => pick[T] \in T
      BY <1>5
    <3>3. IsFiniteSet(1 .. n)
      BY <1>1, ChainFacts
    <3> HIDE DEF n
    <3> QED BY <1>2, <3>1, <3>2, <3>3, FoldExists
  <2>2. ASSUME NEW T \in SUBSET (1 .. n)
        PROVE  f[T] = IF T = {} THEN StartOfLog
                      ELSE ReadFile(f[T \ {Greatest(T)}], log[Greatest(T)])
    <3>1. T # {} => Greatest(T) \in 1 .. n /\ f[T \ {Greatest(T)}] \in Readers
      BY <1>5, <2>1
    <3> QED BY <1>3, <1>5, <2>1, <3>1 DEF Folded
  <2>3. Is(f)
    BY <1>1, <2>1, <2>2
  <2> HIDE DEF Is
  <2> QED BY <2>3
<1>7. g[{}] = StartOfLog
  BY <1>6
<1>8. ASSUME NEW k \in 1 .. n, g[1 .. k - 1] \in Readers
      PROVE  g[1 .. k] = step[k][g[1 .. k - 1]]
  <2>1. g[1 .. k] = ReadFile(g[1 .. k - 1], log[k])
    <3>1. /\ 1 .. k \in SUBSET (DOMAIN log) /\ 1 .. k # {}
          /\ Greatest(1 .. k) = k /\ (1 .. k) \ {k} = 1 .. k - 1
      BY <1>1, ChainFacts
    <3> HIDE DEF g
    <3> QED BY <1>6, <3>1
  <2> QED BY <1>3, <1>8, <2>1
<1> HIDE DEF g
<1>9. PICK a \in [0 .. n -> Readers] : Chain(a, n, StartOfLog, step, g[1 .. n])
  <2>1. \A k \in 1 .. n, q \in Readers : step[k][q] \in Readers
    BY <1>3
  <2>2. Climbs(g, n, Readers, StartOfLog, step)
    BY <1>7, <1>8 DEF Climbs
  <2>3. n \in Nat
    BY <1>1
  <2> HIDE DEF n, Is
  <2> QED BY <1>2, <2>1, <2>2, <2>3, Trace
<1>10. \A k \in 1 .. n : a[k] = ReadFile(a[k - 1], log[k])
  <2>1. \A k \in 1 .. n : k - 1 \in 0 .. n
    BY <1>1
  <2> QED BY <1>3, <1>9, <2>1 DEF Chain
<1> QED BY <1>1, <1>4, <1>9, <1>10 DEF FileByFile, Chain

\* And one way to go.
LEMMA FilesOnly ==
  ASSUME NEW log \in Seq(Seq(Pieces)), NEW b, FileByFile(b, Len(log), log)
  PROVE  ReadLog(log) = b[Len(log)] /\ ReadLog(log) \in Readers
<1>1. PICK a \in [0 .. Len(log) -> Readers] :
         FileByFile(a, Len(log), log) /\ a[Len(log)] = ReadLog(log)
  BY FilesTrace
<1>2. PICK n \in Nat : n = Len(log)
  OBVIOUS
<1> DEFINE P == {k \in Nat : a[k] = b[k]}
<1>3. 0 \in P
  BY <1>1 DEF FileByFile
<1>4. ASSUME NEW k \in Nat, k < n, k \in P PROVE k + 1 \in P
  <2>1. k + 1 \in 1 .. n /\ (k + 1) - 1 = k
    BY <1>4
  <2> QED BY <1>1, <1>2, <1>4, <2>1 DEF FileByFile
<1>5. \A k \in 0 .. n : k \in P
  <2> HIDE DEF P
  <2> QED BY <1>3, <1>4, NumbersUpto
<1>6. n \in P
  <2> HIDE DEF P
  <2> QED BY <1>5
<1> QED BY <1>1, <1>2, <1>6

\* A new file is read after the others,
LEMMA NewFile ==
  ASSUME NEW log \in Seq(Seq(Pieces)), NEW data \in Seq(Pieces)
  PROVE  ReadLog(Append(log, data)) = ReadFile(ReadLog(log), data)
<1>1. PICK n \in Nat : n = Len(log)
  OBVIOUS
<1>2. PICK a \in [0 .. n -> Readers] : FileByFile(a, n, log) /\ a[n] = ReadLog(log)
  BY <1>1, FilesTrace
<1>3. PICK more : more = Append(log, data)
  OBVIOUS
<1>4. /\ more \in Seq(Seq(Pieces)) /\ Len(more) = n + 1 /\ more[n + 1] = data
      /\ \A k \in 1 .. n : more[k] = log[k]
  BY <1>1, <1>3
<1>5. PICK c : c = [k \in 0 .. n + 1 |-> IF k <= n THEN a[k] ELSE ReadFile(a[n], data)]
  OBVIOUS
<1>6. (\A k \in 0 .. n : c[k] = a[k]) /\ c[n + 1] = ReadFile(a[n], data)
  BY <1>5
<1>7. ASSUME NEW k \in 1 .. n + 1 PROVE c[k] = ReadFile(c[k - 1], more[k])
  <2>1. CASE k <= n
    <3>1. k \in 1 .. n /\ k \in 0 .. n /\ k - 1 \in 0 .. n
      BY <2>1
    <3>2. c[k] = a[k] /\ c[k - 1] = a[k - 1] /\ more[k] = log[k]
      BY <1>4, <1>6, <3>1
    <3>3. a[k] = ReadFile(a[k - 1], log[k])
      BY <1>2, <3>1 DEF FileByFile
    <3> QED BY <3>2, <3>3
  <2>2. CASE k > n
    <3>1. k = n + 1 /\ k - 1 = n /\ n \in 0 .. n
      BY <2>2
    <3> QED BY <1>4, <1>6, <3>1
  <2> QED BY <2>1, <2>2
<1>8. c[0] = StartOfLog
  BY <1>2, <1>6 DEF FileByFile
<1>9. FileByFile(c, Len(more), more)
  BY <1>4, <1>7, <1>8 DEF FileByFile
<1>10. ReadLog(more) = c[n + 1]
  BY <1>4, <1>9, FilesOnly
<1> QED BY <1>2, <1>3, <1>6, <1>10

\* and what a file has more after what it had.
LEMMA LongerFile ==
  ASSUME NEW log \in Seq(Seq(Pieces)), NEW data \in Seq(Pieces), log # <<>>
  PROVE  ReadLog([log EXCEPT ![Len(log)] = @ \o data]) = ReadPieces(ReadLog(log), data)
<1>1. PICK n \in Nat : n = Len(log) /\ n >= 1
  OBVIOUS
<1>2. PICK a \in [0 .. n -> Readers] : FileByFile(a, n, log) /\ a[n] = ReadLog(log)
  BY <1>1, FilesTrace
<1>3. PICK more : more = [log EXCEPT ![n] = @ \o data]
  OBVIOUS
<1>4. /\ more \in Seq(Seq(Pieces)) /\ Len(more) = n /\ more[n] = log[n] \o data
      /\ \A k \in 1 .. n : k # n => more[k] = log[k]
      /\ log[n] \in Seq(Pieces)
  <2>1. DOMAIN log = 1 .. n /\ n \in 1 .. n /\ log[n] \in Seq(Pieces) /\ log[n] \o data \in Seq(Pieces)
    BY <1>1
  <2>2. \A x \in Seq(Pieces) : /\ [log EXCEPT ![n] = x] \in Seq(Seq(Pieces))
                              /\ Len([log EXCEPT ![n] = x]) = n
    BY <1>1, <2>1
  <2> QED BY <1>3, <2>1, <2>2
<1>5. PICK c : c = [k \in 0 .. n |-> IF k < n THEN a[k] ELSE ReadPieces(a[n], data)]
  OBVIOUS
<1>6. (\A k \in 0 .. n : k < n => c[k] = a[k]) /\ c[n] = ReadPieces(a[n], data)
  BY <1>5
<1>7. ASSUME NEW k \in 1 .. n PROVE c[k] = ReadFile(c[k - 1], more[k])
  <2>1. /\ k \in 0 .. n /\ k - 1 \in 0 .. n /\ k - 1 < n /\ c[k - 1] = a[k - 1]
        /\ a[k] = ReadFile(a[k - 1], log[k])
    <3>1. k \in 0 .. n /\ k - 1 \in 0 .. n /\ k - 1 < n
      OBVIOUS
    <3> QED BY <1>2, <1>6, <3>1 DEF FileByFile
  <2>2. CASE k < n
    <3>1. k # n
      BY <2>2
    <3>2. c[k] = a[k] /\ more[k] = log[k]
      BY <1>4, <1>6, <2>1, <2>2, <3>1
    <3> QED BY <2>1, <3>2
  <2>3. CASE k = n
    <3>1. a[k - 1] \in Readers
      BY <2>1
    <3>2. NextFile(a[k - 1]) \in Readers
      BY <3>1, <1>4, FileType
    <3>3. ReadPieces(NextFile(a[k - 1]), log[n] \o data)
             = ReadPieces(ReadPieces(NextFile(a[k - 1]), log[n]), data)
      BY <1>4, <3>2, ReadOn
    <3> QED BY <1>4, <1>6, <2>1, <2>3, <3>3 DEF ReadFile
  <2> QED BY <2>2, <2>3
<1>8. c[0] = StartOfLog
  BY <1>1, <1>2, <1>6 DEF FileByFile
<1>9. FileByFile(c, Len(more), more)
  BY <1>4, <1>7, <1>8 DEF FileByFile
<1>10. ReadLog(more) = c[n]
  BY <1>4, <1>9, FilesOnly
<1> QED BY <1>1, <1>2, <1>3, <1>6, <1>10

-----------------------------------------------------------------------------
(* What the reader makes of a record, and of its end.                      *)

\* Pieces are told apart by what they are.
LEMMA Kinds ==
  ASSUME NEW m
  PROVE  /\ Piece("meta", m) # NL /\ Piece("method", m) # NL /\ Piece("request", m) # NL
         /\ Piece("response", m) # NL
         /\ Piece("meta", m).kind = "meta" /\ Piece("meta", m).of = m
         /\ Piece("request", m).kind = "request" /\ Piece("response", m).kind = "response"
  BY DEF Piece, NL

\* A text, and the newline that ends it.
LEMMA ReadTextLine ==
  ASSUME NEW r \in Readers, NEW p \in Pieces, p # NL
  PROVE  /\ ReadPiece(r, p) = [r EXCEPT !.text = Append(@, p)]
         /\ ReadPiece(ReadPiece(r, p), NL)
               = [results |-> r.results, lines |-> Append(r.lines, Append(r.text, p)), text |-> <<>>]
<1>1. /\ r = [results |-> r.results, lines |-> r.lines, text |-> r.text] /\ r.text \in Seq(Pieces)
  BY DEF Readers
<1>2. PICK t : t = Append(r.text, p)
  OBVIOUS
<1>3. t # <<>>
  <2> HIDE DEF Pieces
  <2> QED BY <1>1, <1>2
<1>4. ReadPiece(r, p) = [results |-> r.results, lines |-> r.lines, text |-> t]
  BY <1>1, <1>2 DEF ReadPiece
<1> QED BY <1>2, <1>3, <1>4 DEF ReadPiece, ReadLine

\* The line is one more of the record.
LEMMA LineRead ==
  ASSUME NEW r \in Readers, NEW p \in Pieces, p # NL,
         NEW q, q = ReadPiece(ReadPiece(r, p), NL)
  PROVE  /\ q \in Readers /\ q.results = r.results
         /\ q.lines = Append(r.lines, Append(r.text, p)) /\ q.text = <<>>
<1>1. NL \in Pieces
  BY DEF Pieces, NL, Piece
<1>2. ReadPiece(r, p) \in Readers
  BY ReadPieceType
<1>3. q \in Readers
  BY <1>1, <1>2, ReadPieceType
<1>4. q = [results |-> r.results, lines |-> Append(r.lines, Append(r.text, p)), text |-> <<>>]
  BY ReadTextLine
<1> QED BY <1>3, <1>4

\* What was read before a record of m is added to its first line; the record has
\* its last line still open.
LEMMA RecordRead ==
  ASSUME NEW r \in Readers, NEW m \in Messages
  PROVE  LET first == Append(r.text, Piece("meta", m))
             lines == Append(Append(r.lines, first), <<Piece("method", m)>>)
         IN  ReadPieces(r, Marshal(m))
               = [results |-> r.results,
                  lines |-> IF HasResponse[m] THEN Append(lines, <<Piece("request", m)>>) ELSE lines,
                  text |-> <<LastPiece(m)>>]
<1> DEFINE first == Append(r.text, Piece("meta", m))
           lines == Append(Append(r.lines, first), <<Piece("method", m)>>)
<1>1. PICK a, b, c, d : /\ a = Piece("meta", m) /\ b = Piece("method", m)
                        /\ c = Piece("request", m) /\ d = Piece("response", m)
  OBVIOUS
<1>2. /\ a \in Pieces /\ b \in Pieces /\ c \in Pieces /\ d \in Pieces /\ NL \in Pieces
      /\ a # NL /\ b # NL /\ c # NL /\ d # NL
  BY <1>1, Kinds DEF Piece, Pieces, NL
<1>3. PICK r2 : r2 = ReadPiece(ReadPiece(r, a), NL)
  OBVIOUS
<1>4. r2 \in Readers /\ r2.results = r.results /\ r2.lines = Append(r.lines, Append(r.text, a)) /\ r2.text = <<>>
  BY <1>2, <1>3, LineRead
<1>5. PICK r4 : r4 = ReadPiece(ReadPiece(r2, b), NL)
  OBVIOUS
<1>6. r4 \in Readers /\ r4.results = r.results /\ r4.lines = Append(r2.lines, <<b>>) /\ r4.text = <<>>
  <2>1. r4 \in Readers /\ r4.results = r.results /\ r4.lines = Append(r2.lines, Append(r2.text, b)) /\ r4.text = <<>>
    BY <1>2, <1>4, <1>5, LineRead
  <2>2. Append(<<>>, b) = <<b>>
    OBVIOUS
  <2> QED BY <1>4, <2>1, <2>2
<1>7. PICK r5 : r5 = ReadPiece(r4, c)
  OBVIOUS
<1>8. /\ r5 \in Readers
      /\ r5 = [results |-> r.results, lines |-> r4.lines, text |-> <<c>>]
  <2>1. r4 = [results |-> r.results, lines |-> r4.lines, text |-> <<>>]
    BY <1>6 DEF Readers
  <2>2. Append(<<>>, c) = <<c>>
    OBVIOUS
  <2>3. r5 \in Readers /\ r5 = [r4 EXCEPT !.text = Append(@, c)]
    BY <1>2, <1>6, <1>7, ReadPieceType, ReadTextLine
  <2> QED BY <2>1, <2>2, <2>3
<1>9. CASE ~ HasResponse[m]
  <2>1. PICK s : s = <<a, NL, b, NL, c>>
    OBVIOUS
  <2>2. s = Marshal(m) /\ s \in Seq(Pieces) /\ Len(s) = 5
    <3> HIDE DEF Pieces
    <3>1. <<a, NL, b, NL, c>> \o <<>> = <<a, NL, b, NL, c>>
      OBVIOUS
    <3> QED BY <1>1, <1>2, <1>9, <2>1, <3>1 DEF Marshal
  <2>3. PICK t \in [0 .. 5 -> Readers] : PieceByPiece(t, 5, r, s) /\ t[5] = ReadPieces(r, s)
    BY <2>2, PiecesTrace
  <2>4. /\ t[0] = r /\ t[1] = ReadPiece(t[0], s[1]) /\ t[2] = ReadPiece(t[1], s[2])
        /\ t[3] = ReadPiece(t[2], s[3]) /\ t[4] = ReadPiece(t[3], s[4])
        /\ t[5] = ReadPiece(t[4], s[5])
    BY <2>3 DEF PieceByPiece
  <2>5. s[1] = a /\ s[2] = NL /\ s[3] = b /\ s[4] = NL /\ s[5] = c
    BY <2>1
  <2>6. t[5] = r5
    BY <1>3, <1>5, <1>7, <2>4, <2>5
  <2> QED BY <1>1, <1>4, <1>6, <1>8, <1>9, <2>2, <2>3, <2>6 DEF LastPiece
<1>10. CASE HasResponse[m]
  <2>1. PICK u, v : u = <<a, NL, b, NL, c>> /\ v = <<NL, d>>
    OBVIOUS
  <2>2. PICK s : s = u \o v
    OBVIOUS
  <2>0. /\ s = Marshal(m) /\ s \in Seq(Pieces) /\ Len(s) = 7
        /\ s[1] = a /\ s[2] = NL /\ s[3] = b /\ s[4] = NL /\ s[5] = c /\ s[6] = NL /\ s[7] = d
    <3> HIDE DEF Pieces
    <3>1. s = Marshal(m)
      BY <1>1, <1>10, <2>1, <2>2 DEF Marshal
    <3>2. /\ u \in Seq(Pieces) /\ v \in Seq(Pieces) /\ Len(u) = 5 /\ Len(v) = 2
          /\ u[1] = a /\ u[2] = NL /\ u[3] = b /\ u[4] = NL /\ u[5] = c /\ v[1] = NL /\ v[2] = d
      BY <1>2, <2>1
    <3>3. PICK n \in Nat : n = Len(u)
      BY <3>2
    <3>5. /\ s \in Seq(Pieces) /\ Len(s) = n + Len(v)
          /\ \A k \in 1 .. n : s[k] = u[k]
          /\ \A k \in 1 .. Len(v) : s[n + k] = v[k]
      <4>1. u \in Seq(Pieces) /\ v \in Seq(Pieces) /\ n = Len(u)
        BY <3>2, <3>3
      <4>2. /\ u \o v \in Seq(Pieces) /\ Len(u \o v) = n + Len(v)
            /\ \A k \in 1 .. n : (u \o v)[k] = u[k]
            /\ \A k \in 1 .. Len(v) : (u \o v)[n + k] = v[k]
        BY <4>1, Joined
      <4> QED BY <2>2, <4>2, Zenon
    <3>6. n = 5
      BY <3>2, <3>3
    <3>7. 1 \in 1 .. Len(v) /\ 2 \in 1 .. Len(v)
      BY <3>2
    <3>4. s[5 + 1] = v[1] /\ s[5 + 2] = v[2] /\ Len(s) = 7
      BY <3>2, <3>5, <3>6, <3>7
    <3> QED BY <3>1, <3>2, <3>4, <3>5, <3>6
  <2>3. PICK t \in [0 .. 7 -> Readers] : PieceByPiece(t, 7, r, s) /\ t[7] = ReadPieces(r, s)
    BY <2>0, PiecesTrace
  <2>4. /\ t[0] = r /\ t[1] = ReadPiece(t[0], s[1]) /\ t[2] = ReadPiece(t[1], s[2])
        /\ t[3] = ReadPiece(t[2], s[3]) /\ t[4] = ReadPiece(t[3], s[4])
        /\ t[5] = ReadPiece(t[4], s[5]) /\ t[6] = ReadPiece(t[5], s[6])
        /\ t[7] = ReadPiece(t[6], s[7])
    BY <2>3 DEF PieceByPiece
  <2>6. PICK r6 : r6 = ReadPiece(r5, NL)
    OBVIOUS
  <2>7. /\ r6 \in Readers
        /\ r6 = [results |-> r.results, lines |-> Append(r4.lines, <<c>>), text |-> <<>>]
    <3>1. r6 \in Readers
      BY <1>2, <1>8, <2>6, ReadPieceType
    <3>2. <<c>> # <<>>
      OBVIOUS
    <3> QED BY <1>8, <2>6, <3>1, <3>2 DEF ReadPiece, ReadLine
  <2>8. t[7] = [results |-> r.results, lines |-> Append(r4.lines, <<c>>), text |-> <<d>>]
    <3>1. t[7] = ReadPiece(r6, d)
      BY <1>3, <1>5, <1>7, <2>0, <2>4, <2>6
    <3>2. Append(<<>>, d) = <<d>>
      OBVIOUS
    <3> QED BY <1>2, <2>7, <3>1, <3>2 DEF ReadPiece
  <2> QED BY <1>1, <1>4, <1>6, <1>10, <2>0, <2>3, <2>8 DEF LastPiece
<1> QED BY <1>9, <1>10

\* The end of a record: what has been gathered of it is taken for a message.
LEMMA EndRead ==
  ASSUME NEW r \in Readers, r.text # <<>>
  PROVE  ReadPieces(r, Separator)
           = [results |-> Append(r.results, Unmarshal(Append(r.lines, r.text))),
              lines |-> <<>>, text |-> <<>>]
<1>1. PICK s : s = <<NL, NL>>
  OBVIOUS
<1>2. s = Separator /\ s \in Seq(Pieces) /\ Len(s) = 2 /\ s[1] = NL /\ s[2] = NL
  <2>1. NL \in Pieces
    BY DEF Pieces, NL, Piece
  <2> HIDE DEF Pieces
  <2> QED BY <1>1, <2>1 DEF Separator
<1>3. PICK t \in [0 .. 2 -> Readers] : PieceByPiece(t, 2, r, s) /\ t[2] = ReadPieces(r, s)
  BY <1>2, PiecesTrace
<1>4. t[0] = r /\ t[1] = ReadPiece(t[0], s[1]) /\ t[2] = ReadPiece(t[1], s[2])
  BY <1>3 DEF PieceByPiece
<1>5. t[2] = ReadPiece(ReadPiece(r, NL), NL)
  BY <1>2, <1>4
<1>6. ReadPiece(r, NL) = [results |-> r.results, lines |-> Append(r.lines, r.text), text |-> <<>>]
  BY DEF ReadPiece, ReadLine
<1>7. t[2] = [results |-> Append(r.results, Unmarshal(Append(r.lines, r.text))),
              lines |-> <<>>, text |-> <<>>]
  BY <1>5, <1>6 DEF ReadPiece, ReadLine
<1> QED BY <1>2, <1>3, <1>7

\* The log ends within a record when what was written last ended within one, and
\* is read as what was there before and what was written.
LEMMA LogRead ==
  ASSUME files \in Seq(Seq(Pieces)), files # <<>>, NEW data \in Seq(Pieces), data # <<>>,
         NEW rotate \in BOOLEAN, Log(data, rotate)
  PROVE  LET r == ReadLog(files)
         IN  /\ r \in Readers
             /\ ReadLog(files') = ReadPieces(IF rotate THEN NextFile(r) ELSE r, data)
             /\ Unterminated' <=> data[Len(data)] # NL
<1>1. ReadLog(files) \in Readers
  <2>1. PICK a \in [0 .. Len(files) -> Readers] : a[Len(files)] = ReadLog(files)
    BY FilesTrace
  <2>2. Len(files) \in 0 .. Len(files)
    OBVIOUS
  <2> QED BY <2>1, <2>2
<1>2. CASE rotate
  <2>1. files' = Append(files, data)
    BY <1>2 DEF Log
  <2>2. ReadLog(files') = ReadPieces(NextFile(ReadLog(files)), data)
    BY <2>1, NewFile DEF ReadFile
  <2>3. files'[Len(files')] = data
    <3> HIDE DEF Pieces
    <3> QED BY <2>1
  <2> QED BY <1>1, <1>2, <2>2, <2>3 DEF Unterminated, Last
<1>3. CASE ~ rotate
  <2>1. files' = [files EXCEPT ![Len(files)] = @ \o data]
    BY <1>3 DEF Log
  <2>2. ReadLog(files') = ReadPieces(ReadLog(files), data)
    BY <2>1, LongerFile
  <2>3. PICK n \in Nat, old \in Seq(Pieces) : n = Len(files) /\ n \in DOMAIN files /\ old = files[n]
    <3>1. Len(files) \in DOMAIN files /\ Len(files) \in Nat /\ files[Len(files)] \in Seq(Pieces)
      <4> HIDE DEF Pieces
      <4> QED OBVIOUS
    <3> QED BY <3>1
  <2>4. files'[Len(files')] = old \o data
    <3>1. \A x \in Seq(Pieces) : Len([files EXCEPT ![n] = x]) = n
      <4> HIDE DEF Pieces
      <4> QED BY <2>3
    <3>2. old \o data \in Seq(Pieces)
      OBVIOUS
    <3> QED BY <2>1, <2>3, <3>1, <3>2
  <2>5. old \o data # <<>> /\ (old \o data)[Len(old \o data)] = data[Len(data)]
    <3>1. PICK l \in Nat : l = Len(old)
      OBVIOUS
    <3>2. /\ old \o data \in Seq(Pieces) /\ Len(old \o data) = l + Len(data)
          /\ \A k \in 1 .. Len(data) : (old \o data)[l + k] = data[k]
      BY <3>1, Joined
    <3>3. Len(data) \in 1 .. Len(data) /\ Len(data) \in Nat /\ Len(data) # 0
      <4> HIDE DEF Pieces
      <4> QED OBVIOUS
    <3>4. Len(<<>>) = 0 /\ l + Len(data) # 0
      BY <3>3
    <3> QED BY <3>2, <3>3, <3>4
  <2> QED BY <1>1, <1>3, <2>2, <2>4, <2>5 DEF Unterminated, Last
<1> QED BY <1>2, <1>3

\* The last of what is written.
LEMMA LastWritten ==
  ASSUME NEW m \in Messages
  PROVE  /\ Marshal(m) # <<>> /\ Marshal(m)[Len(Marshal(m))] # NL
         /\ Separator # <<>> /\ Separator[Len(Separator)] = NL
<1>1. PICK a, b, c, d : /\ a = Piece("meta", m) /\ b = Piece("method", m)
                        /\ c = Piece("request", m) /\ d = Piece("response", m)
  OBVIOUS
<1>2. c # NL /\ d # NL
  BY <1>1, Kinds
<1> DEFINE X == {a, b, c, d, NL}
<1>3. PICK u \in Seq(X) : u = <<a, NL, b, NL, c>> /\ Len(u) = 5 /\ u[5] = c
  <2>1. <<a, NL, b, NL, c>> \in Seq(X)
    OBVIOUS
  <2> QED BY <2>1
<1>4. Marshal(m) # <<>> /\ Marshal(m)[Len(Marshal(m))] # NL
  <2>1. CASE HasResponse[m]
    <3>1. PICK v \in Seq(X) : v = <<NL, d>> /\ Len(v) = 2 /\ v[2] = d
      <4>1. <<NL, d>> \in Seq(X)
        OBVIOUS
      <4> QED BY <4>1
    <3>2. Marshal(m) = u \o v
      BY <1>1, <1>3, <2>1, <3>1 DEF Marshal
    <3> HIDE DEF X
    <3>3. PICK n \in Nat : n = Len(u)
      BY <1>3
    <3>4. /\ u \o v \in Seq(X) /\ Len(u \o v) = n + Len(v)
          /\ \A k \in 1 .. Len(v) : (u \o v)[n + k] = v[k]
      BY <3>3, Joined
    <3>5. Len(v) = 2 /\ 2 \in 1 .. Len(v) /\ n = 5 /\ n + 2 # 0 /\ Len(<<>>) = 0
      BY <1>3, <3>1, <3>3
    <3> QED BY <1>2, <3>1, <3>2, <3>4, <3>5
  <2>2. CASE ~ HasResponse[m]
    <3>1. Marshal(m) = u \o <<>>
      BY <1>1, <1>3, <2>2 DEF Marshal
    <3> HIDE DEF X
    <3>2. u \o <<>> = u
      BY <1>3
    <3>3. u # <<>>
      BY <1>3
    <3> QED BY <1>2, <1>3, <3>1, <3>2, <3>3
  <2> QED BY <2>1, <2>2
<1>5. Separator # <<>> /\ Separator[Len(Separator)] = NL
  BY DEF Separator
<1> QED BY <1>4, <1>5

\* The lines of a record, as a sequence.
LEMMA HeadingLines ==
  ASSUME NEW m \in Messages
  PROVE  /\ Heading(m) \in Seq(Seq(Pieces)) /\ Heading(m) # <<>>
         /\ Len(Heading(m)) = IF HasResponse[m] THEN 3 ELSE 2
         /\ Heading(m)[1] = <<Piece("meta", m)>> /\ Heading(m)[2] = <<Piece("method", m)>>
         /\ HasResponse[m] => Heading(m)[3] = <<Piece("request", m)>>
<1>1. PICK a, b, c : /\ a = <<Piece("meta", m)>> /\ b = <<Piece("method", m)>>
                     /\ c = <<Piece("request", m)>>
  OBVIOUS
<1>2. a \in Seq(Pieces) /\ b \in Seq(Pieces) /\ c \in Seq(Pieces)
  <2>1. Piece("meta", m) \in Pieces /\ Piece("method", m) \in Pieces /\ Piece("request", m) \in Pieces
    BY DEF Piece, Pieces
  <2> HIDE DEF Pieces
  <2> QED BY <1>1, <2>1
<1> DEFINE L == Seq(Pieces)
<1>3. PICK u : u = <<a, b>>
  OBVIOUS
<1> HIDE DEF L
<1>4. u \in Seq(L) /\ Len(u) = 2 /\ u[1] = a /\ u[2] = b /\ u # <<>>
  BY <1>2, <1>3 DEF L
<1>5. CASE HasResponse[m]
  <2>1. Heading(m) = u \o <<c>>
    BY <1>1, <1>3, <1>5 DEF Heading
  <2>2. u \o <<c>> = Append(u, c)
    <3>1. c \in L
      BY <1>2 DEF L
    <3> QED BY <1>4, <3>1, AppendedPart
  <2>3. /\ Append(u, c) \in Seq(L) /\ Len(Append(u, c)) = 3 /\ Append(u, c) # <<>>
        /\ Append(u, c)[1] = a /\ Append(u, c)[2] = b /\ Append(u, c)[3] = c
    <3>1. c \in L
      BY <1>2 DEF L
    <3>2. PICK n \in Nat : n = Len(u)
      BY <1>4
    <3>3. /\ Append(u, c) \in Seq(L) /\ Append(u, c) # <<>> /\ Len(Append(u, c)) = n + 1
          /\ \A k \in 1 .. n + 1 : Append(u, c)[k] = IF k = n + 1 THEN c ELSE u[k]
      BY <1>4, <3>1, <3>2, Appended
    <3>4. n = 2
      BY <1>4, <3>2
    <3> QED BY <1>4, <3>3, <3>4
  <2> QED BY <1>1, <1>5, <2>1, <2>2, <2>3 DEF L
<1>6. CASE ~ HasResponse[m]
  <2>1. Heading(m) = u \o <<>>
    BY <1>1, <1>3, <1>6 DEF Heading
  <2>2. u \o <<>> = u
    BY <1>4
  <2> QED BY <1>1, <1>4, <1>6, <2>1, <2>2 DEF L
<1> QED BY <1>5, <1>6
\* What two sequences have.
LEMMA JoinedSet ==
  ASSUME NEW S, NEW s \in Seq(S), NEW t \in Seq(S)
  PROVE  ToSet(s \o t) = ToSet(s) \cup ToSet(t)
<1>1. PICK n \in Nat, l \in Nat : n = Len(s) /\ l = Len(t)
  OBVIOUS
<1>2. PICK u : u = s \o t
  OBVIOUS
<1>3. /\ u \in Seq(S) /\ Len(u) = n + l
      /\ \A k \in 1 .. n : u[k] = s[k]
      /\ \A k \in 1 .. l : u[n + k] = t[k]
  BY <1>1, <1>2, Joined
<1>4. DOMAIN s = 1 .. n /\ DOMAIN t = 1 .. l /\ DOMAIN u = 1 .. n + l
  BY <1>1, <1>3
<1>5. \A k \in 1 .. n + l : k \in 1 .. n \/ \E j \in 1 .. l : k = n + j
  <2> SUFFICES ASSUME NEW k \in 1 .. n + l, k > n PROVE \E j \in 1 .. l : k = n + j
    OBVIOUS
  <2>1. k - n \in 1 .. l /\ k = n + (k - n)
    OBVIOUS
  <2> QED BY <2>1
<1>6. (\A k \in 1 .. n : k \in 1 .. n + l) /\ \A k \in 1 .. l : n + k \in 1 .. n + l
  OBVIOUS
<1>7. ASSUME NEW x \in ToSet(u) PROVE x \in ToSet(s) \cup ToSet(t)
  <2>1. PICK k \in 1 .. n + l : x = u[k]
    BY <1>4, <1>7 DEF ToSet
  <2>2. CASE k \in 1 .. n
    BY <1>3, <1>4, <2>1, <2>2 DEF ToSet
  <2>3. CASE \E j \in 1 .. l : k = n + j
    BY <1>3, <1>4, <2>1, <2>3 DEF ToSet
  <2> QED BY <1>5, <2>2, <2>3
<1>8. ASSUME NEW x \in ToSet(s) PROVE x \in ToSet(u)
  <2>1. PICK k \in 1 .. n : x = s[k]
    BY <1>4, <1>8 DEF ToSet
  <2>2. x = u[k] /\ k \in DOMAIN u
    BY <1>3, <1>4, <1>6, <2>1
  <2> QED BY <2>2 DEF ToSet
<1>9. ASSUME NEW x \in ToSet(t) PROVE x \in ToSet(u)
  <2>1. PICK k \in 1 .. l : x = t[k]
    BY <1>4, <1>9 DEF ToSet
  <2>2. x = u[n + k] /\ n + k \in DOMAIN u
    BY <1>3, <1>4, <1>6, <2>1
  <2> QED BY <2>2 DEF ToSet
<1> QED BY <1>2, <1>7, <1>8, <1>9

\* Lines that are no record are none with one line more.
LEMMA SpoiledMore ==
  ASSUME NEW lines \in Seq(Seq(Pieces)), Spoiled(lines), NEW line \in Seq(Pieces)
  PROVE  /\ Append(lines, line) \in Seq(Seq(Pieces)) /\ Spoiled(Append(lines, line))
         /\ Unmarshal(Append(lines, line)) = Failed
<1>1. PICK more : more = Append(lines, line)
  OBVIOUS
<1>2. PICK l \in Nat : l = Len(lines)
  OBVIOUS
<1> DEFINE L == Seq(Pieces)
<1> HIDE DEF L
<1>3. /\ more \in Seq(L) /\ more # <<>> /\ Len(more) = l + 1
      /\ \A k \in 1 .. l + 1 : more[k] = IF k = l + 1 THEN line ELSE lines[k]
  <2>1. lines \in Seq(L) /\ line \in L
    BY DEF L
  <2> QED BY <1>1, <1>2, <2>1, Appended
<1>4. PICK n \in Nat : n = IF HasResponse[lines[1][1].of] THEN 4 ELSE 3
  OBVIOUS
<1>5. n <= l /\ ~ IsItem(lines[n]) /\ IsMeta(lines[1]) /\ lines[1][1].of \in Messages
  BY <1>2, <1>4 DEF Spoiled
<1>6. n \in 1 .. l + 1 /\ n # l + 1 /\ 1 \in 1 .. l + 1 /\ 1 # l + 1 /\ n \in 3 .. 4 /\ n <= l + 1
  BY <1>4, <1>5
<1>7. more[1] = lines[1] /\ more[n] = lines[n]
  BY <1>3, <1>6
<1>8. Spoiled(more)
  BY <1>3, <1>4, <1>5, <1>6, <1>7 DEF Spoiled
<1>9. Unmarshal(more) = Failed
  <2>1. PICK e \in Nat : e = IF HasResponse[more[1][1].of] /\ Len(more) >= 4 THEN 4 ELSE 3
    OBVIOUS
  <2>2. e = n
    BY <1>3, <1>4, <1>5, <1>7, <2>1
  <2>3. n \in 3 .. e /\ ~ IsItem(more[n])
    BY <1>5, <1>6, <1>7, <2>2
  <2>4. ~ (\A k \in 3 .. e : IsItem(more[k]))
    BY <2>3
  <2>5. more # <<>> /\ IsMeta(more[1]) /\ ~ (Len(more) < 3)
    BY <1>3, <1>5, <1>6, <1>7
  <2> QED BY <2>1, <2>4, <2>5 DEF Unmarshal
<1> QED BY <1>1, <1>3, <1>8, <1>9 DEF L

\* A record and its last line are the message.
LEMMA Whole ==
  ASSUME NEW m \in Messages
  PROVE  Unmarshal(Append(Heading(m), <<LastPiece(m)>>)) = MessageOf(m)
<1>1. PICK a, b, c, d : /\ a = Piece("meta", m) /\ b = Piece("method", m)
                        /\ c = Piece("request", m) /\ d = Piece("response", m)
  OBVIOUS
<1> DEFINE lines == Append(Heading(m), <<LastPiece(m)>>)
           L == Seq(Pieces)
<1>2. a \in Pieces /\ b \in Pieces /\ c \in Pieces /\ d \in Pieces /\ NL \in Pieces
      /\ a # NL /\ b # NL /\ c # NL /\ d # NL
  BY <1>1, Kinds DEF Piece, Pieces, NL
<1>3. PICK h \in Nat : h = IF HasResponse[m] THEN 3 ELSE 2
  OBVIOUS
<1>4. /\ lines # <<>> /\ Len(lines) = h + 1
      /\ \A k \in 1 .. h + 1 : lines[k] = IF k = h + 1 THEN <<LastPiece(m)>> ELSE Heading(m)[k]
  <2>1. <<LastPiece(m)>> \in L
    <3>1. LastPiece(m) \in Pieces
      BY <1>1, <1>2 DEF LastPiece
    <3> HIDE DEF Pieces
    <3> QED BY <3>1
  <2>2. Heading(m) \in Seq(L) /\ Len(Heading(m)) = h
    BY <1>3, HeadingLines
  <2> HIDE DEF L
  <2> QED BY <2>1, <2>2, Appended
<1> HIDE DEF lines
<1>5. lines[1] = <<a>> /\ lines[2] = <<b>> /\ lines[3] = <<c>>
  BY <1>1, <1>3, <1>4, HeadingLines DEF LastPiece
<1>6. HasResponse[m] => lines[4] = <<d>>
  BY <1>1, <1>3, <1>4 DEF LastPiece
<1>7. /\ IsMeta(<<a>>) /\ <<a>>[1].of = m /\ IsItem(<<c>>) /\ IsItem(<<d>>)
      /\ \A x : ToSet(<<x>>) = {x}
  BY <1>1, Kinds DEF IsMeta, IsItem, ToSet
<1>8. Unmarshal(lines) = UNION {ToSet(lines[k]) : k \in 1 .. h + 1}
  <2>1. PICK e \in Nat : e = IF HasResponse[lines[1][1].of] /\ Len(lines) >= 4 THEN 4 ELSE 3
    OBVIOUS
  <2>2. e = h + 1 /\ e \in 3 .. 4 /\ (e = 4 => HasResponse[m])
    BY <1>3, <1>4, <1>5, <1>7, <2>1
  <2>3. \A k \in 3 .. e : IsItem(lines[k])
    <3>1. \A k \in 3 .. e : k = 3 \/ (k = 4 /\ e = 4)
      BY <2>2
    <3> QED BY <1>5, <1>6, <1>7, <2>2, <3>1
  <2>4. lines # <<>> /\ IsMeta(lines[1]) /\ ~ (Len(lines) < 3)
    BY <1>4, <1>5, <1>7, <2>2
  <2>5. Unmarshal(lines) = UNION {ToSet(lines[k]) : k \in 1 .. e}
    BY <2>1, <2>3, <2>4 DEF Unmarshal
  <2> QED BY <2>2, <2>5
<1>9. CASE HasResponse[m]
  <2>1. 1 .. h + 1 = {1, 2, 3, 4}
    BY <1>3, <1>9
  <2>2. UNION {ToSet(lines[k]) : k \in {1, 2, 3, 4}} = {a, b, c, d}
    BY <1>5, <1>6, <1>7, <1>9
  <2>3. MessageOf(m) = {a, b, c, d}
    <3>1. PICK u, v : u = <<a, NL, b, NL, c>> /\ v = <<NL, d>>
      OBVIOUS
    <3>2. /\ u \in Seq(Pieces) /\ v \in Seq(Pieces) /\ ToSet(u) = {a, b, c, NL} /\ ToSet(v) = {d, NL}
      <4> HIDE DEF Pieces
      <4> QED BY <1>2, <3>1 DEF ToSet
    <3>3. ToSet(u \o v) = ToSet(u) \cup ToSet(v)
      BY <3>2, JoinedSet
    <3>4. Marshal(m) = u \o v
      BY <1>1, <1>9, <3>1 DEF Marshal
    <3> QED BY <1>2, <3>2, <3>3, <3>4 DEF MessageOf
  <2> QED BY <1>8, <2>1, <2>2, <2>3 DEF lines
<1>10. CASE ~ HasResponse[m]
  <2>1. 1 .. h + 1 = {1, 2, 3}
    BY <1>3, <1>10
  <2>2. UNION {ToSet(lines[k]) : k \in {1, 2, 3}} = {a, b, c}
    BY <1>5, <1>7
  <2>3. MessageOf(m) = {a, b, c}
    <3>1. PICK u : u = <<a, NL, b, NL, c>>
      OBVIOUS
    <3>2. u \in Seq(Pieces) /\ ToSet(u) = {a, b, c, NL}
      <4> HIDE DEF Pieces
      <4> QED BY <1>2, <3>1 DEF ToSet
    <3>3. u \o <<>> = u
      <4> HIDE DEF Pieces
      <4> QED BY <3>2
    <3>4. Marshal(m) = u \o <<>>
      BY <1>1, <1>10, <3>1 DEF Marshal
    <3> QED BY <1>2, <3>2, <3>3, <3>4 DEF MessageOf
  <2> QED BY <1>8, <2>1, <2>2, <2>3 DEF lines
<1> QED BY <1>9, <1>10
\* A record where none was begun.
LEMMA FreshRecord ==
  ASSUME NEW r \in Readers, NEW m \in Messages, r.lines = <<>>, r.text = <<>>
  PROVE  LET q == ReadPieces(r, Marshal(m))
         IN  q.results = r.results /\ Within(q, m)
<1>1. PICK a, b, c : /\ a = <<Piece("meta", m)>> /\ b = <<Piece("method", m)>>
                     /\ c = <<Piece("request", m)>>
  OBVIOUS
<1>2. Append(r.text, Piece("meta", m)) = a
  BY <1>1
<1>3. /\ Append(r.lines, a) = <<a>> /\ Append(<<a>>, b) = <<a, b>>
      /\ Append(<<a, b>>, c) = <<a, b>> \o <<c>> /\ <<a, b>> \o <<>> = <<a, b>>
  <2>1. PICK X : X = {a, b, c}
    OBVIOUS
  <2>2. <<a>> \in Seq(X) /\ <<a, b>> \in Seq(X) /\ c \in X
    BY <2>1
  <2>3. Append(<<a, b>>, c) = <<a, b>> \o <<c>>
    BY <2>2, AppendedPart
  <2>4. Append(<<>>, a) = <<a>>
    OBVIOUS
  <2>6. Append(<<a>>, b) = <<a, b>>
    <3>1. PICK s \in Seq(X) : s = <<a>> /\ Len(s) = 1 /\ s[1] = a
      BY <2>2
    <3>2. Append(s, b) = [k \in 1 .. 2 |-> IF k = 2 THEN b ELSE a]
      BY <2>1, <3>1
    <3>3. <<a, b>> = [k \in 1 .. 2 |-> IF k = 2 THEN b ELSE a]
      OBVIOUS
    <3> QED BY <3>1, <3>2, <3>3
  <2>5. <<a, b>> \o <<>> = <<a, b>>
    BY <2>2
  <2> QED BY <2>3, <2>4, <2>5, <2>6
<1>4. ReadPieces(r, Marshal(m))
         = [results |-> r.results,
            lines |-> IF HasResponse[m] THEN Append(<<a, b>>, c) ELSE <<a, b>>,
            text |-> <<LastPiece(m)>>]
  BY <1>1, <1>2, <1>3, RecordRead
<1>5. Heading(m) = IF HasResponse[m] THEN Append(<<a, b>>, c) ELSE <<a, b>>
  BY <1>1, <1>3 DEF Heading
<1> QED BY <1>4, <1>5 DEF Within

\* A record after an unfinished one.
LEMMA GluedRecord ==
  ASSUME NEW r \in Readers, NEW m \in Messages, Cut(r.lines)
  PROVE  LET q == ReadPieces(r, Marshal(m))
         IN  q.results = r.results /\ Spoiled(q.lines) /\ q.text # <<>>
<1> DEFINE first == Append(r.text, Piece("meta", m))
           two == Append(Append(r.lines, first), <<Piece("method", m)>>)
           q == ReadPieces(r, Marshal(m))
<1>1. /\ q.results = r.results /\ q.text = <<LastPiece(m)>>
      /\ q.lines = IF HasResponse[m] THEN Append(two, <<Piece("request", m)>>) ELSE two
  <2>1. q = [results |-> r.results,
             lines |-> IF HasResponse[m] THEN Append(two, <<Piece("request", m)>>) ELSE two,
             text |-> <<LastPiece(m)>>]
    BY RecordRead
  <2> HIDE DEF q, two
  <2> QED BY <2>1
<1>2. /\ r.lines \in Seq(Seq(Pieces)) /\ first \in Seq(Pieces)
      /\ <<Piece("method", m)>> \in Seq(Pieces) /\ <<Piece("request", m)>> \in Seq(Pieces)
  <2>1. Piece("meta", m) \in Pieces /\ Piece("method", m) \in Pieces /\ Piece("request", m) \in Pieces
    BY DEF Piece, Pieces
  <2>2. r.lines \in Seq(Seq(Pieces)) /\ r.text \in Seq(Pieces)
    BY DEF Readers
  <2> HIDE DEF Pieces
  <2> QED BY <2>1, <2>2
<1>3. ~ IsItem(first)
  <2>1. r.text \in Seq(Pieces)
    BY DEF Readers
  <2>2. Len(first) = 1 => first[1] = Piece("meta", m)
    <3> HIDE DEF Pieces
    <3> QED BY <2>1
  <2> QED BY <2>2, Kinds DEF IsItem
<1> HIDE DEF first
<1>4. Append(r.lines, first) \in Seq(Seq(Pieces)) /\ Spoiled(Append(r.lines, first))
  <2>1. CASE Spoiled(r.lines)
    BY <1>2, <2>1, SpoiledMore
  <2>2. CASE \E x \in Messages : r.lines = Heading(x)
    <3>1. PICK x \in Messages : r.lines = Heading(x)
      BY <2>2
    <3>2. PICK h \in Nat : h = IF HasResponse[x] THEN 3 ELSE 2
      OBVIOUS
    <3>3. PICK L : L = Seq(Pieces)
      OBVIOUS
    <3>4. PICK more : more = Append(r.lines, first)
      OBVIOUS
    <3>5. r.lines \in Seq(L) /\ Len(r.lines) = h /\ r.lines[1] = <<Piece("meta", x)>> /\ first \in L
      BY <1>2, <3>1, <3>2, <3>3, HeadingLines
    <3>6. /\ more \in Seq(L) /\ more # <<>> /\ Len(more) = h + 1
          /\ \A k \in 1 .. h + 1 : more[k] = IF k = h + 1 THEN first ELSE r.lines[k]
      BY <3>4, <3>5, Appended
    <3>7. more[1] = <<Piece("meta", x)>> /\ more[h + 1] = first
      BY <3>2, <3>5, <3>6
    <3>8. IsMeta(more[1]) /\ more[1][1].of = x
      BY <3>7, Kinds DEF IsMeta
    <3>9. h + 1 = IF HasResponse[x] THEN 4 ELSE 3
      BY <3>2
    <3> QED BY <1>3, <3>3, <3>4, <3>6, <3>7, <3>8, <3>9 DEF Spoiled
  <2> QED BY <2>1, <2>2 DEF Cut
<1>5. two \in Seq(Seq(Pieces)) /\ Spoiled(two)
  BY <1>2, <1>4, SpoiledMore
<1> HIDE DEF two
<1>6. Spoiled(Append(two, <<Piece("request", m)>>))
  BY <1>2, <1>5, SpoiledMore
<1>7. Spoiled(q.lines) /\ q.text # <<>>
  BY <1>1, <1>5, <1>6
<1> QED BY <1>1, <1>7

-----------------------------------------------------------------------------
(* What the log holds.                                                     *)

\* The message a loop has at hand is no other loop's.
LEMMA OwnMessage ==
  ASSUME OutputsInv, NEW i \in Inputs, loop[i] # Reading
  PROVE  /\ loop[i].msg \in Messages /\ loop[i].msg \in ToSet(passed[i])
         /\ loop[i].msg = passed[i][Len(passed[i])]
         /\ \A j \in Inputs \ {i} : loop[i].msg \notin ToSet(passed[j])
<1>1. loop[i].msg \in Messages
  BY LoopTypes DEF OutputsInv
<1>2. /\ passed[i] \in Seq(Messages) /\ passed[i] # <<>>
      /\ loop[i].msg = passed[i][Len(passed[i])]
  BY DEF OutputsInv, AtHand, TypeOK
<1>3. loop[i].msg \in ToSet(passed[i])
  BY <1>2, Elements
<1>4. \A j \in Inputs \ {i} : loop[i].msg \notin ToSet(passed[j])
  BY <1>3, Disjoint DEF OutputsInv
<1> QED BY <1>1, <1>2, <1>3, <1>4

\* One more is recorded.
LEMMA AppendedResults ==
  ASSUME NEW S, NEW s \in Seq(S), NEW m \in S, NEW result
  PROVE  Append([k \in DOMAIN s |-> result[s[k]]], result[m])
            = [k \in DOMAIN Append(s, m) |-> result[Append(s, m)[k]]]
<1>1. PICK n \in Nat : n = Len(s)
  OBVIOUS
<1>2. PICK t : t = Append(s, m)
  OBVIOUS
<1>3. /\ DOMAIN s = 1 .. n /\ DOMAIN t = 1 .. n + 1
      /\ \A k \in 1 .. n + 1 : t[k] = IF k = n + 1 THEN m ELSE s[k]
  BY <1>1, <1>2, Appended
<1>4. PICK u : u = [k \in 1 .. n |-> result[s[k]]]
  OBVIOUS
<1>5. PICK R : R = {result[s[k]] : k \in 1 .. n} \cup {result[m]}
  OBVIOUS
<1>6. u \in Seq(R) /\ Len(u) = n /\ result[m] \in R
  BY <1>4, <1>5
<1>7. /\ DOMAIN Append(u, result[m]) = 1 .. n + 1
      /\ Append(u, result[m]) \in Seq(R)
      /\ \A k \in 1 .. n + 1 : Append(u, result[m])[k] = IF k = n + 1 THEN result[m] ELSE u[k]
  BY <1>6, Appended
<1>8. ASSUME NEW k \in 1 .. n + 1 PROVE Append(u, result[m])[k] = result[t[k]]
  <2>1. CASE k = n + 1
    BY <1>3, <1>7, <2>1
  <2>2. CASE k # n + 1
    <3>1. k \in 1 .. n
      BY <2>2
    <3> QED BY <1>3, <1>4, <1>7, <2>2, <3>1
  <2> QED BY <2>1, <2>2
<1>9. Append(u, result[m]) = [k \in 1 .. n + 1 |-> Append(u, result[m])[k]]
  BY <1>7
<1>10. Append(u, result[m]) = [k \in 1 .. n + 1 |-> result[t[k]]]
  <2>1. [k \in 1 .. n + 1 |-> Append(u, result[m])[k]] = [k \in 1 .. n + 1 |-> result[t[k]]]
    BY <1>8, Zenon
  <2> QED BY <1>9, <2>1, Zenon
<1> QED BY <1>2, <1>3, <1>4, <1>10

\* A step that writes nothing, and leaves the loops that are within a record.
LEMMA LogKept ==
  ASSUME LogInv, UNCHANGED <<files, recorded, glued, tangled>>, open' \subseteq open,
         \A i \in open' : loop'[i] = loop[i]
  PROVE  LogInv'
<1> DEFINE r == ReadLog(files)
<1>1. Unterminated' = Unterminated /\ r' = r
  BY DEF Unterminated
<1> HIDE DEF r
<1>2. \A k : ReadResult(recorded[k])' = ReadResult(recorded[k])
  BY DEF ReadResult
<1>3. SUFFICES ASSUME ~ tangled
      PROVE /\ r'.results = [k \in DOMAIN recorded' |-> ReadResult(recorded[k])']
            /\ IF Unterminated' THEN r'.text # <<>> /\ Cut(r'.lines)
                                ELSE r'.lines = <<>> /\ r'.text = <<>>
            /\ \A i \in open' : /\ open' = {i} /\ Unterminated'
                                /\ IF loop'[i].msg \in glued' THEN Spoiled(r'.lines)
                                                              ELSE Within(r', loop'[i].msg)
  BY DEF LogInv, r
<1>4. /\ r.results = [k \in DOMAIN recorded |-> ReadResult(recorded[k])]
      /\ IF Unterminated THEN r.text # <<>> /\ Cut(r.lines) ELSE r.lines = <<>> /\ r.text = <<>>
      /\ \A i \in open : /\ open = {i} /\ Unterminated
                         /\ IF loop[i].msg \in glued THEN Spoiled(r.lines)
                                                     ELSE Within(r, loop[i].msg)
  BY <1>3 DEF LogInv, r
<1>5. r'.results = [k \in DOMAIN recorded' |-> ReadResult(recorded[k])']
  BY <1>1, <1>2, <1>4
<1>6. \A i \in open' : i \in open /\ open' = {i}
  BY <1>4
<1> QED BY <1>1, <1>4, <1>5, <1>6

\* A step that passes on at most more, and after which no other record is due.
LEMMA GluedKept ==
  ASSUME GluedInv, glued' = glued, \A i \in Inputs : ToSet(passed[i]) \subseteq ToSet(passed'[i]),
         \A i \in Inputs : Due(i, "file")' /\ i \notin open'
            => Due(i, "file") /\ i \notin open /\ loop'[i].msg = loop[i].msg
  PROVE  GluedInv'
<1>1. \A m \in glued' : \E i \in Inputs : m \in ToSet(passed'[i])
  BY DEF GluedInv
<1>2. \A i \in Inputs : Due(i, "file")' /\ i \notin open' => loop'[i].msg \notin glued'
  BY DEF GluedInv
<1> QED BY <1>1, <1>2 DEF GluedInv

\* The record of a message is written.
LEMMA FileLog ==
  ASSUME OutputsInv, GluedInv, LogInv, NEW i \in Inputs, ToFile(i)
  PROVE  GluedInv' /\ LogInv'
<1>1. PICK m \in Messages, rotate \in BOOLEAN :
        /\ m = loop[i].msg /\ Log(Marshal(m), rotate)
        /\ open' = open \cup {i}
        /\ glued' = IF Unterminated THEN glued \cup {m} ELSE glued
        /\ tangled' = (tangled \/ open # {})
        /\ recorded' = recorded
        /\ i \notin open /\ Writing(i, "file") /\ loop[i] # Reading
        /\ UNCHANGED <<loop, passed, faults>>
  <2>1. loop[i].msg \in Messages
    BY OwnMessage DEF ToFile, Writing
  <2>2. PICK rotate \in Rotations :
           /\ Log(Marshal(loop[i].msg), rotate)
           /\ open' = open \cup {i}
           /\ glued' = IF Unterminated THEN glued \cup {loop[i].msg} ELSE glued
           /\ tangled' = (tangled \/ open # {})
           /\ recorded' = recorded
    BY Zenon DEF ToFile, WriteRecord
  <2>3. rotate \in BOOLEAN
    BY DEF Rotations
  <2>4. /\ i \notin open /\ Writing(i, "file") /\ loop[i] # Reading
        /\ UNCHANGED <<loop, passed, faults>>
    BY DEF ToFile, Writing, emitterVars
  <2> QED BY <2>1, <2>2, <2>3, <2>4, Zenon
<1>2. m \in ToSet(passed[i]) /\ \A j \in Inputs \ {i} : m \notin ToSet(passed[j])
  BY <1>1, OwnMessage
<1>3. Due(i, "file") /\ \A j \in Inputs : Due(j, "file")' = Due(j, "file")
  <2>1. loop[i].at \in DOMAIN Outputs /\ loop[i].at <= loop[i].at /\ Outputs[loop[i].at] = "file"
    <3>1. loop[i].at \in 1 .. Len(Outputs) /\ DOMAIN Outputs = 1 .. Len(Outputs)
      BY <1>1, LoopTypes, Places DEF OutputsInv
    <3>2. Outputs[loop[i].at] = "file"
      BY <1>1 DEF Writing
    <3> QED BY <3>1, <3>2
  <2> QED BY <1>1, <2>1, DueKept DEF Due
<1>4. m \notin glued /\ m \notin ToSet(recorded)
  <2>1. m \notin glued
    BY <1>1, <1>3 DEF GluedInv
  <2>2. passed[i][Len(passed[i])] \notin ToSet(recorded)
    BY <1>3 DEF OutputsInv, Sent
  <2> QED BY <1>1, <2>1, <2>2, OwnMessage
<1>5. GluedInv'
  <2>1. \A x \in glued' : \E j \in Inputs : x \in ToSet(passed'[j])
    BY <1>1, <1>2 DEF GluedInv
  <2>2. ASSUME NEW j \in Inputs, Due(j, "file")', j \notin open' PROVE loop'[j].msg \notin glued'
    <3>1. j # i /\ loop[j] # Reading /\ Due(j, "file") /\ j \notin open
      BY <1>1, <1>3, <2>2 DEF Due
    <3>2. loop[j].msg # m /\ loop[j].msg \notin glued
      BY <1>2, <3>1, OwnMessage DEF GluedInv
    <3> QED BY <1>1, <3>2
  <2> QED BY <2>1, <2>2 DEF GluedInv
<1>6. ASSUME ~ tangled'
      PROVE  LogInv'
  <2>1. open' = {i} /\ ~ tangled
    BY <1>1, <1>6
  <2>2. PICK r : r = ReadLog(files)
    OBVIOUS
  <2>3. PICK s : s = IF rotate THEN NextFile(r) ELSE r
    OBVIOUS
  <2>4. PICK q : q = ReadPieces(s, Marshal(m))
    OBVIOUS
  <2>5. r \in Readers /\ ReadLog(files') = q /\ Unterminated'
    <3>1. files \in Seq(Seq(Pieces)) /\ files # <<>>
      BY DEF OutputsInv, TypeOK
    <3>2. Marshal(m) \in Seq(Pieces) /\ Marshal(m) # <<>> /\ Marshal(m)[Len(Marshal(m))] # NL
      BY WrittenPieces, LastWritten
    <3> QED BY <1>1, <2>2, <2>3, <2>4, <3>1, <3>2, LogRead
  <2>6. s \in Readers /\ s.results = r.results /\ s.lines = r.lines /\ (r.text = <<>> => s.text = <<>>)
    <3>1. NextFile(r) \in Readers
      BY <2>5, FileType, EmptyFile
    <3>2. r = [results |-> r.results, lines |-> r.lines, text |-> r.text]
      BY <2>5 DEF Readers
    <3> QED BY <2>3, <2>5, <3>1, <3>2 DEF NextFile
  <2>7. /\ r.results = [k \in DOMAIN recorded |-> ReadResult(recorded[k])]
        /\ IF Unterminated THEN r.text # <<>> /\ Cut(r.lines) ELSE r.lines = <<>> /\ r.text = <<>>
    BY <2>1, <2>2 DEF LogInv
  <2>8. q.results = [k \in DOMAIN recorded' |-> ReadResult(recorded[k])']
    <3>1. q.results = r.results
      BY <2>4, <2>6, <2>7, FreshRecord, GluedRecord
    <3>2. ASSUME NEW k \in DOMAIN recorded PROVE ReadResult(recorded[k])' = ReadResult(recorded[k])
      <4>1. recorded[k] # m
        BY <1>4, Elements DEF OutputsInv, TypeOK
      <4>2. recorded[k] \in glued' <=> recorded[k] \in glued
        BY <1>1, <4>1
      <4> QED BY <1>1, <4>2 DEF ReadResult
    <3> QED BY <1>1, <2>7, <3>1, <3>2
  <2>9. /\ q.text # <<>> /\ Cut(q.lines)
        /\ IF m \in glued' THEN Spoiled(q.lines) ELSE Within(q, m)
    <3>1. CASE Unterminated
      <4>1. Spoiled(q.lines) /\ q.text # <<>>
        BY <2>4, <2>6, <2>7, <3>1, GluedRecord
      <4> QED BY <1>1, <3>1, <4>1 DEF Cut
    <3>2. CASE ~ Unterminated
      <4>1. Within(q, m)
        BY <2>4, <2>6, <2>7, <3>2, FreshRecord
      <4>2. q.lines = Heading(m) /\ q.text # <<>>
        BY <4>1 DEF Within
      <4> QED BY <1>1, <1>4, <3>2, <4>1, <4>2 DEF Cut
    <3> QED BY <3>1, <3>2
  <2>10. loop'[i].msg = m
    BY <1>1
  <2> QED BY <2>1, <2>5, <2>8, <2>9, <2>10 DEF LogInv
<1>7. LogInv'
  BY <1>6 DEF LogInv
<1> QED BY <1>5, <1>7

\* And its end.
LEMMA EndLog ==
  ASSUME OutputsInv, GluedInv, LogInv, NEW i \in Inputs, EndOfRecord(i)
  PROVE  GluedInv' /\ LogInv'
<1>1. PICK m \in Messages, rotate \in BOOLEAN :
        /\ m = loop[i].msg /\ Log(Separator, rotate)
        /\ open' = open \ {i} /\ glued' = glued /\ recorded' = Append(recorded, m)
        /\ tangled' = (tangled \/ rotate)
        /\ i \in open /\ Writing(i, "file") /\ Written(i) /\ loop[i] # Reading /\ passed' = passed
  <2>1. loop[i].msg \in Messages
    BY OwnMessage DEF EndOfRecord, Writing
  <2>2. PICK rotate \in Rotations :
           /\ Log(Separator, rotate)
           /\ open' = open \ {i} /\ glued' = glued /\ recorded' = Append(recorded, loop[i].msg)
           /\ tangled' = (tangled \/ rotate)
    BY DEF EndOfRecord, WriteEnd
  <2>3. rotate \in BOOLEAN
    BY DEF Rotations
  <2> QED BY <2>1, <2>2, <2>3 DEF EndOfRecord, Writing, Written
<1>2. GluedInv'
  <2>1. ASSUME NEW j \in Inputs, Due(j, "file")', j \notin open'
        PROVE  Due(j, "file") /\ j \notin open /\ loop'[j].msg = loop[j].msg
    <3>1. j # i
      BY <1>1, <2>1, DueWritten DEF OutputsInv
    <3>2. loop'[j] = loop[j]
      BY <1>1, <3>1, LoopWritten DEF OutputsInv
    <3> QED BY <1>1, <2>1, <3>1, <3>2, DueKept
  <2> QED BY <1>1, <2>1, GluedKept
<1>3. ASSUME ~ tangled'
      PROVE  LogInv'
  <2>1. ~ rotate /\ ~ tangled
    BY <1>1, <1>3
  <2>2. PICK r : r = ReadLog(files)
    OBVIOUS
  <2>3. PICK q : q = ReadPieces(r, Separator)
    OBVIOUS
  <2>4. r \in Readers /\ ReadLog(files') = q /\ ~ Unterminated'
    <3>1. files \in Seq(Seq(Pieces)) /\ files # <<>>
      BY DEF OutputsInv, TypeOK
    <3>2. Separator \in Seq(Pieces) /\ Separator # <<>> /\ Separator[Len(Separator)] = NL
      BY WrittenPieces, LastWritten
    <3> QED BY <1>1, <2>1, <2>2, <2>3, <3>1, <3>2, LogRead
  <2>5. /\ r.results = [k \in DOMAIN recorded |-> ReadResult(recorded[k])]
        /\ open = {i} /\ r.text # <<>>
        /\ IF m \in glued THEN Spoiled(r.lines) ELSE Within(r, m)
    BY <1>1, <2>1, <2>2 DEF LogInv
  <2>6. q = [results |-> Append(r.results, Unmarshal(Append(r.lines, r.text))),
             lines |-> <<>>, text |-> <<>>]
    BY <2>3, <2>4, <2>5, EndRead
  <2>7. Unmarshal(Append(r.lines, r.text)) = ReadResult(m)
    <3>1. CASE m \in glued
      <4>1. r.lines \in Seq(Seq(Pieces)) /\ r.text \in Seq(Pieces)
        BY <2>4 DEF Readers
      <4> QED BY <2>5, <3>1, <4>1, SpoiledMore DEF ReadResult
    <3>2. CASE m \notin glued
      BY <2>5, <3>2, Whole DEF ReadResult, Within
    <3> QED BY <3>1, <3>2
  <2>8. q.results = [k \in DOMAIN recorded' |-> ReadResult(recorded[k])']
    <3>1. \A x : ReadResult(x)' = ReadResult(x)
      BY <1>1 DEF ReadResult
    <3>2. recorded \in Seq(Messages)
      BY DEF OutputsInv, TypeOK
    <3> HIDE DEF ReadResult
    <3>3. PICK f : f = [x \in Messages |-> ReadResult(x)]
      OBVIOUS
    <3>4. r.results = [k \in DOMAIN recorded |-> f[recorded[k]]]
      <4>1. \A k \in DOMAIN recorded : f[recorded[k]] = ReadResult(recorded[k])
        BY <3>2, <3>3
      <4> QED BY <2>5, <4>1
    <3>5. q.results = [k \in DOMAIN recorded' |-> f[recorded'[k]]]
      <4>1. q.results = Append(r.results, f[m])
        BY <2>6, <2>7, <3>3
      <4> QED BY <1>1, <3>2, <3>4, <4>1, AppendedResults
    <3>6. \A k \in DOMAIN recorded' : f[recorded'[k]] = ReadResult(recorded[k])'
      <4>1. recorded' \in Seq(Messages)
        BY <1>1, <3>2
      <4> QED BY <3>1, <3>3, <4>1
    <3> QED BY <3>5, <3>6
  <2>9. open' = {} /\ q.lines = <<>> /\ q.text = <<>>
    BY <1>1, <2>5, <2>6
  <2> QED BY <2>4, <2>8, <2>9 DEF LogInv
<1>4. LogInv'
  BY <1>3 DEF LogInv
<1> QED BY <1>2, <1>4
\* Every step.
LEMMA LogNext == IndInv /\ [Next]_vars => IndInv'
<1> SUFFICES ASSUME IndInv, [Next]_vars PROVE GluedInv' /\ LogInv'
  BY InvNext DEF IndInv
<1>t. OutputsInv /\ GluedInv /\ LogInv /\ TypeOK
  BY DEF IndInv, OutputsInv
<1>1. ASSUME NEW i \in Inputs, Read(i) PROVE GluedInv' /\ LogInv'
  <2>1. PICK m : m = Head(todo[i])
    OBVIOUS
  <2>2. /\ UNCHANGED <<files, open, recorded, glued, tangled>> /\ loop[i] = Reading /\ todo[i] # <<>>
        /\ todo[i] \in Seq(Messages) /\ m \in Messages
        /\ \/ /\ loop' = [loop EXCEPT ![i] = [msg |-> m, at |-> 1]]
              /\ passed' = [passed EXCEPT ![i] = Append(@, m)]
           \/ UNCHANGED <<loop, passed>>
    BY <1>t, <1>1, <2>1 DEF Read, Copy, fileVars, TypeOK
  <2>3. \A j \in Inputs : m \notin ToSet(passed[j])
    BY <1>t, <2>1, <2>2, NextIsNew DEF OutputsInv
  <2>4. \A j \in Inputs \ {i} : loop'[j] = loop[j]
    BY <1>t, <2>2 DEF TypeOK
  <2>5. i \notin open
    BY <1>t, <2>2 DEF TypeOK, Writing
  <2>6. LogInv'
    <3>1. \A j \in open' : loop'[j] = loop[j]
      BY <1>t, <2>2, <2>4, <2>5 DEF TypeOK
    <3> QED BY <1>t, <2>2, <3>1, LogKept
  <2>7. \A j \in Inputs : ToSet(passed[j]) \subseteq ToSet(passed'[j])
    <3>1. \A j \in Inputs : passed[j] \in Seq(Messages)
      BY <1>t DEF TypeOK
    <3>2. ASSUME NEW j \in Inputs
          PROVE  passed'[j] = passed[j] \/ passed'[j] = Append(passed[j], m)
      BY <1>t, <2>2 DEF TypeOK
    <3>3. \A j \in Inputs : ToSet(Append(passed[j], m)) = ToSet(passed[j]) \cup {m}
      BY <2>2, <3>1, Appended
    <3> QED BY <3>2, <3>3
  <2>8. m \notin glued
    BY <1>t, <2>3 DEF GluedInv
  <2>9. \A x \in glued' : \E j \in Inputs : x \in ToSet(passed'[j])
    BY <1>t, <2>2, <2>7 DEF GluedInv
  <2>10. ASSUME NEW j \in Inputs, Due(j, "file")', j \notin open' PROVE loop'[j].msg \notin glued'
    <3>1. CASE loop'[j] = loop[j]
      <4>1. Due(j, "file") /\ j \notin open
        BY <2>2, <2>10, <3>1, DueKept
      <4> QED BY <1>t, <2>2, <3>1, <4>1 DEF GluedInv
    <3>2. CASE loop'[j] # loop[j]
      <4>1. loop'[j] = [msg |-> m, at |-> 1]
        BY <1>t, <2>2, <2>4, <3>2 DEF TypeOK
      <4> QED BY <2>2, <2>8, <4>1
    <3> QED BY <3>1, <3>2
  <2> QED BY <2>6, <2>9, <2>10 DEF GluedInv
<1>2. ASSUME NEW i \in Inputs, ToServer(i) PROVE GluedInv' /\ LogInv'
  <2>1. /\ UNCHANGED <<files, open, recorded, glued, tangled, passed>>
        /\ Writing(i, "grpc") /\ Written(i) /\ loop[i] # Reading
    BY <1>2 DEF ToServer, fileVars, Writing, Written
  <2>2. i \notin open /\ \A j \in Inputs \ {i} : loop'[j] = loop[j]
    BY <1>t, <2>1, LoopWritten DEF TypeOK, Writing
  <2>3. LogInv'
    <3>1. \A j \in open' : loop'[j] = loop[j]
      BY <1>t, <2>1, <2>2 DEF TypeOK
    <3> QED BY <1>t, <2>1, <3>1, LogKept
  <2>4. ASSUME NEW j \in Inputs, Due(j, "file")', j \notin open'
        PROVE  Due(j, "file") /\ j \notin open /\ loop'[j].msg = loop[j].msg
    <3>1. Due(j, "file")
      BY <1>t, <2>1, <2>4, OtherDue
    <3>2. loop'[j] # Reading
      BY <2>4 DEF Due
    <3>3. loop'[j].msg = loop[j].msg
      BY <1>t, <2>1, <2>2, <3>2, LoopWritten
    <3> QED BY <2>1, <2>4, <3>1, <3>3
  <2>5. GluedInv'
    BY <1>t, <2>1, <2>4, GluedKept
  <2> QED BY <2>3, <2>5
<1>3. ASSUME NEW i \in Inputs, FileFails(i) PROVE GluedInv' /\ LogInv'
  <2>1. /\ UNCHANGED <<files, recorded, glued, tangled, passed>> /\ open' = open \ {i}
        /\ Writing(i, "file") /\ Written(i) /\ loop[i] # Reading
    BY <1>3 DEF FileFails, WriteFails, Writing, Written
  <2>2. \A j \in Inputs \ {i} : loop'[j] = loop[j]
    BY <1>t, <2>1, LoopWritten
  <2>3. LogInv'
    <3>1. open' \subseteq open /\ \A j \in open' : loop'[j] = loop[j]
      BY <1>t, <2>1, <2>2 DEF TypeOK
    <3> QED BY <1>t, <2>1, <3>1, LogKept
  <2>4. ASSUME NEW j \in Inputs, Due(j, "file")', j \notin open'
        PROVE  Due(j, "file") /\ j \notin open /\ loop'[j].msg = loop[j].msg
    <3>1. j # i
      BY <1>t, <2>1, <2>4, DueWritten
    <3> QED BY <2>1, <2>2, <2>4, <3>1, DueKept
  <2>5. GluedInv'
    BY <1>t, <2>1, <2>4, GluedKept
  <2> QED BY <2>3, <2>5
<1>4. CASE Kill
  <2>1. /\ UNCHANGED <<files, recorded, glued, tangled, passed>> /\ open' = {}
        /\ loop' = [i \in Inputs |-> Reading]
    BY <1>4 DEF Kill, EmitterRestart, FileRestart
  <2>2. \A j \in Inputs : ~ Due(j, "file")'
    BY <2>1 DEF Due
  <2>3. LogInv'
    BY <1>t, <2>1, LogKept
  <2>4. GluedInv'
    BY <1>t, <2>1, <2>2, GluedKept
  <2> QED BY <2>3, <2>4
<1>5. ASSUME UNCHANGED <<files, open, recorded, glued, tangled, passed, loop>>
      PROVE  GluedInv' /\ LogInv'
  <2>1. \A j \in Inputs : Due(j, "file")' = Due(j, "file")
    BY <1>5, DueKept
  <2> QED BY <1>t, <1>5, <2>1, LogKept, GluedKept
<1>6. ASSUME NEW w \in Workers, Work(w) PROVE GluedInv' /\ LogInv'
  BY <1>5, <1>6 DEF Work, emitterVars, fileVars
<1>7. CASE UNCHANGED vars
  <2>1. UNCHANGED <<files, open, recorded, glued, tangled, passed, loop>>
    BY <1>7 DEF vars, emitterVars, fileVars
  <2> QED BY <1>5, <2>1
<1>8. ASSUME NEW i \in Inputs, CopyMulty(i) PROVE GluedInv' /\ LogInv'
  BY <1>t, <1>1, <1>2, <1>8, FileLog, EndLog DEF CopyMulty
<1> QED BY <1>3, <1>4, <1>6, <1>7, <1>8 DEF Next

\* The log begins empty.
LEMMA LogInit == Init => IndInv
<1> SUFFICES ASSUME Init PROVE IndInv
  OBVIOUS
<1>1. /\ files = << <<>> >> /\ open = {} /\ recorded = <<>> /\ glued = {}
      /\ loop = [i \in Inputs |-> Reading]
  BY DEF Init, FileInit, EmitterInit
<1>2. GluedInv
  BY <1>1 DEF GluedInv, Due
<1>3. LogInv
  <2>1. PICK log \in Seq(Seq(Pieces)) : log = << <<>> >> /\ Len(log) = 1 /\ log[1] = <<>>
    <3>1. PICK L : L = Seq(Pieces)
      OBVIOUS
    <3>2. <<>> \in L
      BY <3>1, EmptyFile
    <3>3. << <<>> >> \in Seq(L)
      BY <3>2
    <3> QED BY <3>1, <3>3
  <2>2. PICK a \in [0 .. 1 -> Readers] : FileByFile(a, 1, log) /\ a[1] = ReadLog(log)
    BY <2>1, FilesTrace
  <2>3. ReadLog(log) = ReadPieces(NextFile(StartOfLog), <<>>)
    BY <2>1, <2>2 DEF FileByFile, ReadFile
  <2>4. NextFile(StartOfLog) \in Readers
    BY StartType, FileType, EmptyFile
  <2>5. PICK b \in [0 .. 0 -> Readers] : b[0] = NextFile(StartOfLog) /\ b[0] = ReadPieces(NextFile(StartOfLog), <<>>)
    <3>1. Len(<<>>) = 0
      OBVIOUS
    <3> QED BY <2>4, <3>1, EmptyFile, PiecesTrace DEF PieceByPiece
  <2>6. ReadLog(log) = StartOfLog
    BY <2>3, <2>5 DEF NextFile, StartOfLog
  <2>7. StartOfLog.results = [k \in DOMAIN recorded |-> ReadResult(recorded[k])]
    <3>1. DOMAIN <<>> = {}
      OBVIOUS
    <3>2. [k \in {} |-> ReadResult(<<>>[k])] = <<>>
      OBVIOUS
    <3> QED BY <1>1, <3>1, <3>2 DEF StartOfLog
  <2>8. ~ Unterminated
    BY <1>1 DEF Unterminated, Last
  <2> QED BY <1>1, <2>1, <2>6, <2>7, <2>8 DEF LogInv, StartOfLog
<1> QED BY <1>2, <1>3, InvInit DEF IndInv

\* The invariant: what each output has and is due, which records follow an
\* unfinished one, and how far into the last record the log goes.
THEOREM Inductive == Spec => []IndInv
  BY LogInit, LogNext, PTL DEF Spec

\* Each output gets what a copy loop has passed on at most once and in the order
\* of the input, whatever fails or is killed, and all of it when nothing does, for
\* any number of inputs, filters, callers, and places in the channel.
THEOREM EveryOutput == Spec => []SameToAll
<1>1. OutputsInv => SameToAll
  <2> SUFFICES ASSUME OutputsInv, NEW i \in Inputs
               PROVE  \A s \in {accepted, recorded} :
                         /\ InOrder(s, passed[i])
                         /\ faults = 0 /\ loop[i] = Reading => ToSet(passed[i]) \subseteq ToSet(s)
    BY DEF SameToAll
  <2>1. \E b \in BOOLEAN, c \in BOOLEAN :
           /\ Sent(accepted, passed[i], b, faults = 0) /\ Sent(recorded, passed[i], c, faults = 0)
           /\ loop[i] = Reading => ~ b /\ ~ c
    <3>1. loop[i] = Reading => ~ Due(i, "grpc") /\ ~ Due(i, "file")
      BY DEF Due
    <3> QED BY <3>1, Boolean DEF OutputsInv
  <2>2. \A x \in ToSet(passed[i]) : \E a \in DOMAIN passed[i] : passed[i][a] = x
    BY Elements DEF OutputsInv, TypeOK
  <2> QED BY <2>1, <2>2 DEF Sent
<1>2. IndInv => OutputsInv
  BY DEF IndInv
<1> QED BY <1>1, <1>2, Inductive, PTL

\* Reading the files back gives the messages recorded, whole, in order and each
\* once, except that an unfinished record takes the next one with it, whatever
\* fails or is killed, for any number of inputs, outputs and files; as long as
\* nothing comes between the two writes of a record.
THEOREM LogReadsBack == Spec => []ReadsBack
<1>1. IndInv => ReadsBack
  BY DEF IndInv, LogInv, ReadsBack, ReadAll
<1> QED BY <1>1, Inductive, PTL
=============================================================================
