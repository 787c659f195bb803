---------------------------- MODULE ReplayProofs ----------------------------
(***************************************************************************)
(* Proofs about Replay, for every recording, speed, reading depth, and     *)
(* number of workers and messages: its types and that no message is early, *)
(* that none is called twice, and that tasks and the order of messages are *)
(* kept.                                                                   *)
(***************************************************************************)
EXTENDS Replay, FiniteSetTheorems, TLAPS

LEMMA Constants ==
    /\ Messages \subseteq Nat \ {0} /\ DOMAIN MethodOf = Messages
    /\ Bad = 0 /\ NoMessage = 0
    /\ Recordings \subseteq Seq(Messages \cup {0})
    /\ TimestampOf \in [Messages -> Int]
    /\ Speed \in Nat \ {0} /\ ReadDepth \in Nat \ {0} /\ MsgCap \in Nat \ {0}
    /\ Horizon \in Nat
    /\ Inputs = {Input} /\ Outputs = <<"grpc">>
    /\ ChannelCap \in Nat \ {0}
BY MessageAssumption, InputAssumption, ReplayAssumption, GRPCAssumption
   DEF MessageAssumption, InputAssumption, ReplayAssumption, GRPCAssumption, Bad, NoMessage

\* Division by a positive number is monotone.
LEMMA DivMonotone ==
    ASSUME NEW a \in Int, NEW b \in Int, NEW s \in Nat \ {0}, a <= b
    PROVE  /\ a \div s \in Int
           /\ a \div s <= b \div s
           /\ a >= 0 => a \div s \in Nat
           /\ a <= 0 => a \div s <= 0
BY SMT

LEMMA Concatenation ==
    ASSUME NEW S, NEW a \in Seq(S), NEW b \in Seq(S)
    PROVE  /\ a \o b \in Seq(S)
           /\ Len(a \o b) = Len(a) + Len(b)
           /\ \A j \in 1 .. Len(a) + Len(b) :
                 (a \o b)[j] = IF j <= Len(a) THEN a[j] ELSE b[j - Len(a)]
OBVIOUS

\* InsertAt moves the elements behind the new one by one place.
LEMMA Insertion ==
    ASSUME NEW S, NEW s \in Seq(S), NEW i \in 1 .. Len(s) + 1, NEW e \in S,
           NEW longer, longer = InsertAt(s, i, e)
    PROVE  /\ longer \in Seq(S)
           /\ Len(longer) = Len(s) + 1
           /\ \A j \in 1 .. Len(s) + 1 :
                 longer[j] = IF j < i THEN s[j] ELSE IF j = i THEN e ELSE s[j - 1]
<1> DEFINE front == SubSeq(s, 1, i - 1)
           back == SubSeq(s, i, Len(s))
           mid == front \o <<e>>
           all == mid \o back
<1>1. /\ front \in Seq(S) /\ Len(front) = i - 1
      /\ \A j \in 1 .. i - 1 : front[j] = s[j]
  OBVIOUS
<1>2. /\ back \in Seq(S) /\ Len(back) = Len(s) - (i - 1)
      /\ \A j \in 1 .. Len(s) - (i - 1) : back[j] = s[(i - 1) + j]
  OBVIOUS
<1>3. /\ mid \in Seq(S) /\ Len(mid) = i
      /\ \A j \in 1 .. i : mid[j] = IF j < i THEN s[j] ELSE e
  BY <1>1
<1>4. longer = all
  BY DEF InsertAt
<1> HIDE DEF mid, back
<1>5. /\ all \in Seq(S) /\ Len(all) = Len(s) + 1
      /\ \A j \in 1 .. Len(s) + 1 :
            all[j] = IF j <= i THEN mid[j] ELSE back[j - i]
  <2>1. /\ all \in Seq(S) /\ Len(all) = Len(mid) + Len(back)
        /\ \A j \in 1 .. Len(mid) + Len(back) :
              all[j] = IF j <= Len(mid) THEN mid[j] ELSE back[j - Len(mid)]
    <3>1. mid \in Seq(S) /\ back \in Seq(S)
      BY <1>2, <1>3
    <3> QED BY <3>1, Concatenation
  <2>2. Len(mid) = i /\ Len(mid) + Len(back) = Len(s) + 1
    BY <1>2, <1>3
  <2> QED BY <2>1, <2>2
<1> HIDE DEF all
<1>6. ASSUME NEW j \in 1 .. Len(s) + 1
      PROVE  all[j] = IF j < i THEN s[j] ELSE IF j = i THEN e ELSE s[j - 1]
  <2>1. CASE j <= i
    <3>1. j \in 1 .. i
      BY <2>1
    <3> QED BY <3>1, <2>1, <1>3, <1>5
  <2>2. CASE ~ j <= i
    <3>1. /\ ~ j < i /\ j # i
          /\ j - i \in 1 .. Len(s) - (i - 1) /\ (i - 1) + (j - i) = j - 1
      BY <2>2
    <3>2. all[j] = back[j - i]
      BY <2>2, <1>5
    <3>3. back[j - i] = s[j - 1]
      BY <3>1, <1>2
    <3> QED BY <3>1, <3>2, <3>3
  <2> QED BY <2>1, <2>2
<1> QED BY <1>4, <1>5, <1>6

LEMMA OffsetType ==
    ASSUME benchmark \in Int, NEW m \in Messages
    PROVE  Offset(m) \in Nat
<1>1. TimestampOf[m] \in Int /\ Speed \in Nat \ {0}
  BY Constants
<1>2. CASE TimestampOf[m] <= benchmark
  BY <1>2 DEF Offset
<1>3. CASE ~ TimestampOf[m] <= benchmark
  <2>1. /\ TimestampOf[m] - benchmark \in Int
        /\ TimestampOf[m] - benchmark >= 0
        /\ TimestampOf[m] - benchmark <= TimestampOf[m] - benchmark
    BY <1>1, <1>3
  <2> QED BY <2>1, <1>1, <1>3, DivMonotone DEF Offset
<1> QED BY <1>2, <1>3

LEMMA FirstMessages ==
    ASSUME entries \in Seq(Messages \cup {0}), NEW n \in 0 .. Len(entries),
           \A k \in 1 .. n : entries[k] # Bad
    PROVE  /\ FirstEntries(n) \in Seq(Messages) /\ Len(FirstEntries(n)) = n
           /\ \A k \in 1 .. n : FirstEntries(n)[k] = entries[k]
<1>1. \A k \in 1 .. n : entries[k] \in Messages
  BY Constants
<1> QED BY <1>1 DEF FirstEntries

-----------------------------------------------------------------------------
(* Types.                                                                  *)

Tasks == [msg : Messages, left : Nat]

\* Before the first records are read, and when one of them was bad or there is
\* none, nothing is under way; once they are read, the benchmark is a timestamp
\* and not above any of theirs.
Started ==
    /\ status = "start" => pos = 0
    /\ status # "running" \/ entries = <<>> =>
          /\ batch = <<>> /\ timer = <<>> /\ msgChan = <<>>
          /\ \A w \in TimerWorkers : hand[w] = Free
    /\ status = "running" /\ entries # <<>> => \E m \in Messages : benchmark = TimestampOf[m]
    /\ status = "running" =>
          \A k \in 1 .. Len(entries) : k <= ReadDepth =>
             entries[k] \in Messages /\ benchmark <= TimestampOf[entries[k]]

Inv == TypeOK /\ Started

\* A task is put into the timer behind those due no later than it, and before
\* those due no earlier.
LEMMA AddTaskInserts ==
    ASSUME TypeOK, NEW m \in Messages, AddTask(m)
    PROVE  /\ timer' \in Seq(Tasks)
           /\ Len(timer') = Len(timer) + 1
           /\ \E i \in 1 .. Len(timer) + 1 :
                /\ \A j \in 1 .. Len(timer) + 1 :
                      timer'[j] = IF j < i THEN timer[j]
                                  ELSE IF j = i THEN Task(m, Offset(m)) ELSE timer[j - 1]
                /\ \A j \in 1 .. i - 1 : timer[j].left <= Offset(m)
                /\ \A j \in i .. Len(timer) : timer[j].left >= Offset(m)
<1> DEFINE e == Task(m, Offset(m))
<1>1. e \in Tasks /\ timer \in Seq(Tasks)
  BY OffsetType DEF Task, Tasks, TypeOK
<1>2. PICK k \in 0 .. Len(timer) :
         /\ timer' = InsertAt(timer, k + 1, e)
         /\ \A j \in 1 .. k : timer[j].left <= Offset(m)
         /\ \A j \in k + 1 .. Len(timer) : timer[j].left >= Offset(m)
  BY DEF AddTask
<1> HIDE DEF e
<1> DEFINE i == k + 1
<1>3. /\ i \in 1 .. Len(timer) + 1 /\ timer' = InsertAt(timer, i, e)
      /\ \A j \in 1 .. i - 1 : timer[j].left <= Offset(m)
      /\ \A j \in i .. Len(timer) : timer[j].left >= Offset(m)
  BY <1>1, <1>2
<1> HIDE DEF i
<1>4. /\ timer' \in Seq(Tasks)
      /\ Len(timer') = Len(timer) + 1
      /\ \A j \in 1 .. Len(timer) + 1 :
            timer'[j] = IF j < i THEN timer[j] ELSE IF j = i THEN e ELSE timer[j - 1]
  <2>1. /\ timer \in Seq(Tasks) /\ e \in Tasks
        /\ i \in 1 .. Len(timer) + 1 /\ timer' = InsertAt(timer, i, e)
    BY <1>1, <1>3
  <2> QED BY <2>1, Insertion, SMTT(60)
<1> QED BY <1>3, <1>4 DEF e

LEMMA InvInit == Init => Inv
<1> SUFFICES ASSUME Init
             PROVE  Inv
  OBVIOUS
<1>1. entries \in Seq(Messages \cup {0})
  BY Constants DEF Init, InputInit
<1>2. TypeOK
  BY <1>1, Constants DEF Init, InputInit, EmitterInit, GRPCInit, TypeOK, Free, Hand, Reading,
                         NotCalling
<1>3. Started
  BY DEF Init, InputInit, Started
<1> QED BY <1>2, <1>3 DEF Inv

LEMMA ReadAheadInv ==
    ASSUME Inv, ReadAhead, UNCHANGED <<emitterVars, grpcVars, prompt>>
    PROVE  Inv'
<1> USE DEF Inv
<1>0. entries \in Seq(Messages \cup {0})
  BY Constants DEF TypeOK
<1> DEFINE n == IF Len(entries) < ReadDepth THEN Len(entries) ELSE ReadDepth
<1>1. n \in 0 .. Len(entries) /\ \A k \in 1 .. Len(entries) : k <= ReadDepth => k \in 1 .. n
  BY <1>0, Constants
<1>2. CASE \E k \in 1 .. n : entries[k] = Bad
  <2>1. status' = "exited" /\ UNCHANGED <<pos, benchmark, batch>>
    BY <1>2 DEF ReadAhead
  <2>2. TypeOK'
    BY <2>1 DEF ReadAhead, TypeOK, emitterVars, grpcVars
  <2>3. Started'
    BY <2>1 DEF ReadAhead, Started
  <2> QED BY <2>2, <2>3
<1>3. CASE \A k \in 1 .. n : entries[k] # Bad
  <2>1. /\ status' = "running" /\ pos' = n
        /\ benchmark' \in Smallest(n)
        /\ batch' = FirstEntries(n)
    BY <1>3 DEF ReadAhead
  <2>2. batch' \in Seq(Messages)
    BY <1>0, <1>1, <1>3, <2>1, FirstMessages
  <2>3. \A k \in 1 .. n : entries[k] \in Messages
    BY <1>0, <1>1, <1>3, Constants
  <2>4. benchmark' \in Int /\ \A k \in 1 .. n : benchmark' <= TimestampOf[entries[k]]
    <3>1. CASE n = 0
      BY <3>1, <2>1 DEF Smallest
    <3>2. CASE n # 0
      BY <3>2, <2>1, <2>3, Constants DEF Smallest, Stamps
    <3> QED BY <3>1, <3>2
  <2>7. entries # <<>> => \E m \in Messages : benchmark' = TimestampOf[m]
    <3>1. entries # <<>> => n # 0
      BY <1>0, Constants
    <3>2. n # 0 => benchmark' \in Stamps(n)
      BY <2>1 DEF Smallest
    <3> QED BY <3>1, <3>2, <2>3 DEF Stamps
  <2>8. entries = <<>> => batch' = <<>>
    <3>1. entries = <<>> => n = 0
      BY <1>0, Constants
    <3> QED BY <3>1, <2>1, <1>0 DEF FirstEntries
  <2> HIDE DEF n
  <2>5. TypeOK'
    BY <1>1, <2>1, <2>2, <2>4 DEF ReadAhead, TypeOK, emitterVars, grpcVars
  <2>6. Started'
    BY <1>1, <2>1, <2>3, <2>4, <2>7, <2>8 DEF ReadAhead, Started
  <2> QED BY <2>5, <2>6
<1> QED BY <1>2, <1>3

LEMMA ScheduleInv ==
    ASSUME Inv, Schedule, UNCHANGED <<emitterVars, grpcVars, prompt>>
    PROVE  Inv'
<1> USE DEF Inv
<1>1. Head(batch) \in Messages /\ Tail(batch) \in Seq(Messages)
  BY DEF Schedule, TypeOK
<1>2. timer' \in Seq(Tasks)
  BY <1>1, AddTaskInserts DEF Schedule
<1>3. TypeOK'
  BY <1>1, <1>2 DEF Schedule, TypeOK, Tasks, emitterVars, grpcVars
<1>4. Started'
  BY DEF Schedule, Started
<1> QED BY <1>3, <1>4

LEMMA FireInv ==
    ASSUME Inv, NEW w \in TimerWorkers, Fire(w), UNCHANGED <<emitterVars, grpcVars, prompt>>
    PROVE  Inv'
<1> USE DEF Inv
<1>1. Head(timer).msg \in Messages /\ Tail(timer) \in Seq(Tasks)
  <2>1. timer \in Seq(Tasks) /\ timer # <<>>
    BY DEF Fire, TypeOK, Tasks
  <2>2. Head(timer) \in Tasks /\ Tail(timer) \in Seq(Tasks)
    BY <2>1
  <2> QED BY <2>2 DEF Tasks
<1>2. TypeOK'
  BY <1>1 DEF Fire, TypeOK, Tasks, Hand, emitterVars, grpcVars
<1>3. Started'
  BY DEF Fire, Started
<1> QED BY <1>2, <1>3

LEMMA DeliverInv ==
    ASSUME Inv, NEW w \in TimerWorkers, Deliver(w), UNCHANGED <<emitterVars, grpcVars, prompt>>
    PROVE  Inv'
<1> USE DEF Inv
<1>1. hand[w].msg \in Messages
  BY DEF Deliver, TypeOK
<1>2. TypeOK'
  BY <1>1, Constants DEF Deliver, TypeOK, Hand, emitterVars, grpcVars
<1>3. Started'
  BY DEF Deliver, Started, Free, Hand
<1> QED BY <1>2, <1>3

LEMMA ReadNextInv ==
    ASSUME Inv, NEW w \in TimerWorkers, ReadNext(w), UNCHANGED <<emitterVars, grpcVars, prompt>>
    PROVE  Inv'
<1> USE DEF Inv
<1>0. entries \in Seq(Messages \cup {0})
  BY Constants DEF TypeOK
<1>1. /\ pos' \in 0 .. Len(entries)
      /\ \/ hand' = [hand EXCEPT ![w] = Free]
         \/ \E m \in Messages : hand' = [hand EXCEPT ![w] = Hand("add", m)]
  <2>1. CASE pos = Len(entries)
    BY <2>1 DEF ReadNext, TypeOK
  <2>2. CASE pos # Len(entries)
    <3>1. pos + 1 \in 1 .. Len(entries)
      BY <2>2, <1>0 DEF TypeOK
    <3>2. entries[pos + 1] \in Messages \cup {0}
      BY <1>0, <3>1
    <3>3. pos' = pos + 1
      BY <2>2 DEF ReadNext, Skip, Got
    <3>4. CASE entries[pos + 1] = Bad
      <4>1. hand' = [hand EXCEPT ![w] = Free]
        BY <2>2, <3>4 DEF ReadNext, Skip
      <4> QED BY <3>1, <3>3, <4>1 DEF TypeOK
    <3>5. CASE entries[pos + 1] # Bad
      <4>1. hand' = [hand EXCEPT ![w] = Hand("add", entries[pos + 1])]
        BY <2>2, <3>5 DEF ReadNext, Got
      <4>2. entries[pos + 1] \in Messages
        BY <3>2, <3>5, Constants
      <4>3. pos' \in 0 .. Len(entries)
        BY <3>1, <3>3 DEF TypeOK
      <4> QED BY <4>1, <4>2, <4>3
    <3> QED BY <3>4, <3>5
  <2> QED BY <2>1, <2>2
<1>2. hand' \in [TimerWorkers -> [do : {"wait", "read"}, msg : {NoMessage}]
                                 \cup [do : {"send", "add"}, msg : Messages]]
  <2>1. \A m \in Messages : Hand("add", m) \in [do : {"send", "add"}, msg : Messages]
    BY DEF Hand
  <2>2. Free \in [do : {"wait", "read"}, msg : {NoMessage}]
    BY DEF Hand, Free
  <2>3. hand \in [TimerWorkers -> [do : {"wait", "read"}, msg : {NoMessage}]
                                  \cup [do : {"send", "add"}, msg : Messages]]
    BY DEF TypeOK
  <2> QED BY <1>1, <2>1, <2>2, <2>3, SMTT(60)
<1>3. TypeOK'
  BY <1>1, <1>2 DEF ReadNext, TypeOK, emitterVars, grpcVars
<1>4. Started'
  BY DEF ReadNext, Started, Free, Hand
<1> QED BY <1>3, <1>4

LEMMA AddNextInv ==
    ASSUME Inv, NEW w \in TimerWorkers, AddNext(w), UNCHANGED <<emitterVars, grpcVars, prompt>>
    PROVE  Inv'
<1> USE DEF Inv
<1>1. hand[w].msg \in Messages
  BY DEF AddNext, TypeOK
<1>2. timer' \in Seq(Tasks)
  BY <1>1, AddTaskInserts DEF AddNext
<1>3. TypeOK'
  BY <1>1, <1>2 DEF AddNext, TypeOK, Tasks, Hand, Free, emitterVars, grpcVars
<1>4. Started'
  BY DEF AddNext, Started, Free, Hand
<1> QED BY <1>3, <1>4

LEMMA TickInv ==
    ASSUME Inv, Tick, UNCHANGED <<emitterVars, grpcVars, prompt>>
    PROVE  Inv'
<1> USE DEF Inv
<1>1. timer' \in Seq(Tasks)
  <2>1. timer \in Seq(Tasks)
    BY DEF TypeOK, Tasks
  <2>2. \A k \in 1 .. Len(timer) : timer[k] \in Tasks
    BY <2>1
  <2>3. \A k \in 1 .. Len(timer) :
           (IF timer[k].left = 0 THEN timer[k] ELSE [timer[k] EXCEPT !.left = @ - 1]) \in Tasks
    BY <2>2 DEF Tasks
  <2>4. DOMAIN timer = 1 .. Len(timer) /\ Len(timer) \in Nat
    BY <2>1
  <2>5. timer' \in [1 .. Len(timer) -> Tasks]
    BY <2>3, <2>4 DEF Tick
  <2> QED BY <2>4, <2>5
<1>2. elapsed' \in 0 .. Horizon
  BY Constants DEF Tick, TypeOK
<1>3. TypeOK'
  BY <1>1, <1>2 DEF Tick, TypeOK, Tasks, emitterVars, grpcVars
<1>4. Started'
  BY DEF Tick, Started
<1> QED BY <1>3, <1>4

LEMMA CopyMultyInv ==
    ASSUME Inv, CopyMulty
    PROVE  Inv'
<1> USE DEF Inv
<1>1. CASE ReadMsg /\ Copy(Input, Head(msgChan)) /\ UNCHANGED <<grpcVars, prompt>>
  <2>1. Head(msgChan) \in Messages /\ Tail(msgChan) \in Seq(Messages)
        /\ Len(Tail(msgChan)) <= MsgCap
    BY <1>1, Constants DEF ReadMsg, TypeOK
  <2>2. loop' \in [Inputs -> [msg : Messages, at : {1}] \cup {Reading}]
    BY <1>1, <2>1, Constants DEF Copy, TypeOK
  <2>3. TypeOK'
    BY <1>1, <2>1, <2>2 DEF ReadMsg, TypeOK, grpcVars
  <2>4. Started'
    BY <1>1 DEF ReadMsg, Started
  <2> QED BY <2>3, <2>4
<1>2. CASE Writing(Input, "grpc") /\ Send(loop[Input].msg) /\ Written(Input)
           /\ UNCHANGED <<inputVars, prompt>>
  <2>1. loop[Input].msg \in Messages
    BY <1>2, Constants DEF Writing, TypeOK
  <2>2. loop' \in [Inputs -> [msg : Messages, at : {1}] \cup {Reading}]
    BY <1>2, Constants DEF Written, Writing, TypeOK, Reading
  <2>3. msgChannel' \in Seq(Messages) /\ Len(msgChannel') <= ChannelCap
    BY <1>2, <2>1, Constants DEF Send, TypeOK
  <2>4. TypeOK'
    BY <1>2, <2>2, <2>3 DEF Send, TypeOK, inputVars
  <2>5. Started'
    BY <1>2 DEF inputVars, Started
  <2> QED BY <2>4, <2>5
<1> QED BY <1>1, <1>2 DEF CopyMulty

LEMMA WorkInv ==
    ASSUME Inv, NEW w \in Workers, Work(w)
    PROVE  Inv'
<1> USE DEF Inv
<1>1. CASE StartCall(w)
  <2>1. Head(msgChannel) \in Messages /\ Tail(msgChannel) \in Seq(Messages)
        /\ Len(Tail(msgChannel)) <= ChannelCap
    BY <1>1, Constants DEF StartCall, TypeOK
  <2>2. /\ calling' \in [Workers -> Messages \cup {NoMessage}]
        /\ calls' \in [Messages -> Nat]
    <3> DEFINE m == Head(msgChannel)
    <3>1. CASE MethodOf[m] = NoMethod
      BY <1>1, <3>1 DEF StartCall, TypeOK
    <3>2. CASE MethodOf[m] # NoMethod
      <4>1. /\ calling' = [calling EXCEPT ![w] = m]
            /\ calls' = [calls EXCEPT ![m] = @ + 1]
        BY <1>1, <3>2 DEF StartCall
      <4> QED BY <2>1, <4>1 DEF TypeOK
    <3> QED BY <3>1, <3>2
  <2> QED BY <1>1, <2>1, <2>2 DEF StartCall, Work, TypeOK, Started, inputVars, emitterVars
<1>2. CASE EndCall(w)
  BY <1>2 DEF EndCall, Work, TypeOK, Started, inputVars, emitterVars
<1> QED BY <1>1, <1>2 DEF Work

LEMMA InvNext == Inv /\ [Next]_vars => Inv'
<1> SUFFICES ASSUME Inv, [Next]_vars
             PROVE  Inv'
  OBVIOUS
<1>1. CASE FileInput
  BY <1>1, ReadAheadInv, ScheduleInv DEF FileInput
<1>2. ASSUME NEW w \in TimerWorkers, Timer(w)
      PROVE  Inv'
  BY <1>2, FireInv, DeliverInv, ReadNextInv, AddNextInv DEF Timer, Callback
<1>3. CASE CopyMulty
  BY <1>3, CopyMultyInv
<1>4. ASSUME NEW w \in Workers, Work(w)
      PROVE  Inv'
  BY <1>4, WorkInv
<1>5. CASE Time
  BY <1>5, TickInv DEF Time
<1>6. CASE UNCHANGED vars
  BY <1>6 DEF Inv, TypeOK, Started, vars, inputVars, emitterVars, grpcVars
<1> QED BY <1>1, <1>2, <1>3, <1>4, <1>5, <1>6 DEF Next

\* The types of Replay, and the capacities of its channels.
THEOREM ReplayTypes == Spec => []TypeOK
<1>1. Inv => TypeOK
  BY DEF Inv
<1> QED BY <1>1, InvInit, InvNext, PTL DEF Spec

-----------------------------------------------------------------------------
(* No message early.                                                       *)

\* The time a task has left reaches at least to its message's turn; a message
\* that has been handed on had its turn.
Due == /\ \A j \in DOMAIN timer : timer[j].left + elapsed >= Offset(timer[j].msg)
       /\ \A w \in TimerWorkers : hand[w].do = "send" => elapsed >= Offset(hand[w].msg)
       /\ \A j \in DOMAIN msgChan : elapsed >= Offset(msgChan[j])

LEMMA OffsetBounds ==
    ASSUME Inv, status = "running", entries # <<>>, NEW m \in Messages
    PROVE  /\ Offset(m) \in 0 .. Horizon
           /\ \A d \in Turn(m) : d \in Int /\ d <= Offset(m)
<1>1. PICK n \in Messages : benchmark = TimestampOf[n]
  BY DEF Inv, Started
<1>2. /\ benchmark \in Int /\ TimestampOf[m] \in Int /\ Speed \in Nat \ {0}
      /\ Horizon \in Nat /\ Offset(m) \in Nat
  BY Constants, OffsetType DEF Inv, TypeOK
<1>3. Offset(m) <= Horizon
  <2>1. (TimestampOf[m] - TimestampOf[n]) \div Speed <= Horizon
    BY InputAssumption DEF InputAssumption
  <2> QED BY <1>1, <1>2, <2>1 DEF Offset
<1>4. ASSUME NEW k \in DOMAIN entries, k <= ReadDepth
      PROVE  /\ (TimestampOf[m] - TimestampOf[entries[k]]) \div Speed \in Int
             /\ (TimestampOf[m] - TimestampOf[entries[k]]) \div Speed <= Offset(m)
  <2> DEFINE t == TimestampOf[entries[k]]
  <2>1. t \in Int /\ benchmark <= t
    <3>1. k \in 1 .. Len(entries)
      BY Constants DEF Inv, TypeOK
    <3>2. entries[k] \in Messages /\ benchmark <= TimestampOf[entries[k]]
      BY <3>1, <1>4 DEF Inv, Started
    <3> QED BY <3>2, Constants
  <2> HIDE DEF t
  <2>2. /\ TimestampOf[m] - t \in Int /\ TimestampOf[m] - benchmark \in Int
        /\ TimestampOf[m] - t <= TimestampOf[m] - benchmark
    BY <1>2, <2>1
  <2>3. /\ (TimestampOf[m] - t) \div Speed \in Int
        /\ (TimestampOf[m] - t) \div Speed <= (TimestampOf[m] - benchmark) \div Speed
    BY <1>2, <2>2, DivMonotone
  <2>4. TimestampOf[m] <= benchmark => (TimestampOf[m] - t) \div Speed <= 0
    <3>1. TimestampOf[m] <= benchmark => TimestampOf[m] - t <= 0
      BY <1>2, <2>1
    <3> QED BY <3>1, <1>2, <2>2, DivMonotone
  <2> QED BY <2>3, <2>4 DEF Offset, t
<1> QED BY <1>2, <1>3, <1>4 DEF Turn

LEMMA DueEarly == Inv /\ Due => NotEarly
<1> SUFFICES ASSUME Inv, Due
             PROVE  NotEarly
  OBVIOUS
<1>1. ASSUME NEW w \in TimerWorkers, hand[w].do = "send", NEW d \in Turn(hand[w].msg)
      PROVE  elapsed >= d
  <2>1. status = "running" /\ entries # <<>> /\ hand[w].msg \in Messages
    BY <1>1 DEF Inv, Started, TypeOK, Free, Hand
  <2>2. d \in Int /\ d <= Offset(hand[w].msg) /\ Offset(hand[w].msg) \in Nat
    BY <1>1, <2>1, OffsetBounds
  <2>3. elapsed \in Int
    BY Constants DEF Inv, TypeOK
  <2> QED BY <1>1, <2>2, <2>3 DEF Due
<1>2. ASSUME NEW j \in DOMAIN msgChan, NEW d \in Turn(msgChan[j])
      PROVE  elapsed >= d
  <2>1. status = "running" /\ entries # <<>> /\ msgChan[j] \in Messages
    BY <1>2 DEF Inv, Started, TypeOK
  <2>2. d \in Int /\ d <= Offset(msgChan[j]) /\ Offset(msgChan[j]) \in Nat
    BY <1>2, <2>1, OffsetBounds
  <2>3. elapsed \in Int
    BY Constants DEF Inv, TypeOK
  <2> QED BY <1>2, <2>2, <2>3 DEF Due
<1> QED BY <1>1, <1>2 DEF NotEarly

LEMMA DueInit == Init => Due
BY DEF Init, InputInit, Due, Free, Hand

\* A task that is put into the timer is due at its turn or later.
LEMMA DueAdded ==
    ASSUME Inv, Due, NEW m \in Messages, AddTask(m), UNCHANGED <<benchmark, elapsed>>
    PROVE  \A j \in DOMAIN timer' : timer'[j].left + elapsed' >= Offset(timer'[j].msg)
<1>1. PICK i \in 1 .. Len(timer) + 1 : \A j \in 1 .. Len(timer) + 1 :
         timer'[j] = IF j < i THEN timer[j] ELSE IF j = i THEN Task(m, Offset(m)) ELSE timer[j - 1]
  BY AddTaskInserts DEF Inv
<1>2. timer' \in Seq(Tasks) /\ Len(timer') = Len(timer) + 1
  BY AddTaskInserts DEF Inv
<1>3. timer \in Seq(Tasks) /\ elapsed \in Nat /\ Offset(m) \in Nat
  BY OffsetType, Constants DEF Inv, TypeOK, Tasks
<1>4. ASSUME NEW j \in DOMAIN timer'
      PROVE  timer'[j].left + elapsed >= Offset(timer'[j].msg)
  <2>1. j \in 1 .. Len(timer) + 1
    BY <1>2
  <2>2. CASE j < i
    <3>1. j \in DOMAIN timer /\ timer'[j] = timer[j]
      BY <1>1, <1>3, <2>1, <2>2
    <3> QED BY <3>1 DEF Due
  <2>3. CASE j = i
    <3>1. timer'[j] = Task(m, Offset(m))
      BY <1>1, <2>3
    <3> QED BY <3>1, <1>3 DEF Task
  <2>4. CASE j > i
    <3>1. j - 1 \in DOMAIN timer /\ timer'[j] = timer[j - 1]
      BY <1>1, <1>3, <2>1, <2>4
    <3> QED BY <3>1 DEF Due
  <2> QED BY <2>1, <2>2, <2>3, <2>4
<1> QED BY <1>4

LEMMA DueNext == Inv /\ Due /\ [Next]_vars => Due'
<1> SUFFICES ASSUME Inv, Due, [Next]_vars
             PROVE  Due'
  OBVIOUS
<1>0. /\ timer \in Seq(Tasks) /\ msgChan \in Seq(Messages) /\ elapsed \in Nat
      /\ \A m \in Messages : Offset(m) \in Nat
  BY OffsetType, Constants DEF Inv, TypeOK, Tasks
<1>1. CASE ReadAhead
  <2>1. timer' = <<>> /\ msgChan' = <<>> /\ \A w \in TimerWorkers : hand'[w] = Free
    BY <1>1 DEF ReadAhead, Inv, Started
  <2> QED BY <2>1 DEF Due, Free, Hand
<1>2. ASSUME UNCHANGED <<benchmark, timer, hand, msgChan, elapsed>>
      PROVE  Due'
  BY <1>2 DEF Due, Offset
<1>3. CASE Schedule
  <2>1. Head(batch) \in Messages
    BY <1>3 DEF Schedule, Inv, TypeOK
  <2>2. \A j \in DOMAIN timer' : timer'[j].left + elapsed' >= Offset(timer'[j].msg)
    BY <1>3, <2>1, DueAdded DEF Schedule
  <2> QED BY <1>3, <2>2 DEF Schedule, Due, Offset
<1>4. ASSUME NEW w \in TimerWorkers, Fire(w)
      PROVE  Due'
  <2>1. /\ timer # <<>> /\ Head(timer) = timer[1] /\ timer[1].left = 0 /\ 1 \in DOMAIN timer
        /\ Len(timer') = Len(timer) - 1 /\ timer' \in Seq(Tasks)
        /\ \A j \in 1 .. Len(timer) - 1 : timer'[j] = timer[j + 1] /\ j + 1 \in DOMAIN timer
    BY <1>0, <1>4 DEF Fire
  <2>2. timer[1].msg \in Messages /\ elapsed >= Offset(timer[1].msg)
    <3>1. timer[1].msg \in Messages
      <4>1. 1 \in 1 .. Len(timer)
        BY <1>0, <2>1
      <4>2. timer[1] \in Tasks
        BY <1>0, <4>1
      <4> QED BY <4>2 DEF Tasks
    <3>2. timer[1].left + elapsed >= Offset(timer[1].msg)
      BY <2>1 DEF Due
    <3> DEFINE o == Offset(timer[1].msg)
    <3>3. o \in Nat /\ timer[1].left + elapsed >= o
      BY <1>0, <3>1, <3>2
    <3> HIDE DEF o
    <3>4. elapsed >= o
      BY <1>0, <2>1, <3>3
    <3> QED BY <3>1, <3>4 DEF o
  <2>3. \A j \in DOMAIN timer' : timer'[j].left + elapsed >= Offset(timer'[j].msg)
    BY <2>1 DEF Due
  <2>4. \A v \in TimerWorkers : hand'[v].do = "send" => elapsed >= Offset(hand'[v].msg)
    BY <1>4, <2>1, <2>2 DEF Fire, Due, Hand, Inv, TypeOK
  <2> QED BY <1>4, <2>3, <2>4 DEF Fire, Due, Offset
<1>5. ASSUME NEW w \in TimerWorkers, Deliver(w)
      PROVE  Due'
  <2>1. hand[w].msg \in Messages /\ elapsed >= Offset(hand[w].msg)
    BY <1>5 DEF Deliver, Due, Inv, TypeOK
  <2>2. \A j \in DOMAIN msgChan' : elapsed >= Offset(msgChan'[j])
    BY <1>0, <1>5, <2>1 DEF Deliver, Due
  <2>3. \A v \in TimerWorkers : hand'[v].do = "send" => elapsed >= Offset(hand'[v].msg)
    BY <1>5 DEF Deliver, Due, Hand, Inv, TypeOK
  <2> QED BY <1>5, <2>2, <2>3 DEF Deliver, Due, Offset
<1>6. ASSUME NEW w \in TimerWorkers, ReadNext(w)
      PROVE  Due'
  <2>1. \A v \in TimerWorkers : hand'[v].do = "send" => hand'[v] = hand[v]
    BY <1>6 DEF ReadNext, Skip, Got, Hand, Free, Inv, TypeOK
  <2> QED BY <1>6, <2>1 DEF ReadNext, Due, Offset
<1>7. ASSUME NEW w \in TimerWorkers, AddNext(w)
      PROVE  Due'
  <2>1. hand[w].msg \in Messages
    BY <1>7 DEF AddNext, Inv, TypeOK
  <2>2. \A j \in DOMAIN timer' : timer'[j].left + elapsed' >= Offset(timer'[j].msg)
    BY <1>7, <2>1, DueAdded DEF AddNext
  <2>3. \A v \in TimerWorkers : hand'[v].do = "send" => hand'[v] = hand[v]
    BY <1>7 DEF AddNext, Hand, Free, Inv, TypeOK
  <2> QED BY <1>7, <2>2, <2>3 DEF AddNext, Due, Offset
<1>8. CASE ReadMsg
  <2>1. \A j \in DOMAIN msgChan' : \E i \in DOMAIN msgChan : msgChan'[j] = msgChan[i]
    <3>1. ASSUME NEW j \in DOMAIN msgChan'
          PROVE  j + 1 \in DOMAIN msgChan /\ msgChan'[j] = msgChan[j + 1]
      BY <1>0, <1>8, <3>1 DEF ReadMsg
    <3> QED BY <3>1
  <2> QED BY <1>8, <2>1 DEF ReadMsg, Due, Offset
<1>9. CASE Tick
  <2>1. \A j \in DOMAIN timer' : /\ j \in DOMAIN timer
                                 /\ timer'[j].msg = timer[j].msg
                                 /\ timer'[j].left = IF timer[j].left = 0 THEN 0
                                                     ELSE timer[j].left - 1
    BY <1>0, <1>9 DEF Tick, Tasks
  <2>2. ASSUME NEW j \in DOMAIN timer'
        PROVE  timer'[j].left + elapsed' >= Offset(timer'[j].msg)
    <3>1. j \in DOMAIN timer /\ timer[j] \in Tasks
      BY <1>0, <2>1
    <3>2. timer[j].left + elapsed >= Offset(timer[j].msg) /\ timer[j].msg \in Messages
          /\ timer[j].left \in Nat
      BY <3>1 DEF Due, Tasks
    <3>3. CASE elapsed < Horizon
      BY <1>0, <1>9, <2>1, <3>1, <3>2, <3>3 DEF Tick
    <3>4. CASE ~ elapsed < Horizon
      <4>1. elapsed' = elapsed /\ elapsed = Horizon
        BY <1>9, <3>4, Constants DEF Tick, Inv, TypeOK
      <4>2. status = "running" /\ entries # <<>>
        BY <1>0, <1>9, <3>1 DEF Tick, Inv, Started
      <4>3. Offset(timer[j].msg) <= Horizon /\ Offset(timer[j].msg) \in Nat
        BY <3>2, <4>2, Constants, OffsetBounds
      <4>4. timer'[j].left \in Nat
        BY <2>1, <3>2
      <4> QED BY <2>1, <4>1, <4>3, <4>4, Constants
    <3> QED BY <3>3, <3>4
  <2>3. elapsed' \in Nat /\ elapsed' >= elapsed
    BY <1>0, <1>9, Constants DEF Tick
  <2>4. /\ \A w \in TimerWorkers : hand[w].do = "send" => hand[w].msg \in Messages
        /\ \A j \in DOMAIN msgChan : msgChan[j] \in Messages
    <3>1. ASSUME NEW w \in TimerWorkers, hand[w].do = "send"
          PROVE  hand[w].msg \in Messages
      BY <3>1 DEF Inv, TypeOK
    <3>2. \A j \in DOMAIN msgChan : msgChan[j] \in Messages
      BY <1>0
    <3> QED BY <3>1, <3>2
  <2>5. /\ \A w \in TimerWorkers : hand[w].do = "send" => elapsed' >= Offset(hand[w].msg)
        /\ \A j \in DOMAIN msgChan : elapsed' >= Offset(msgChan[j])
    BY <1>0, <2>3, <2>4 DEF Due
  <2> QED BY <1>9, <2>2, <2>5 DEF Tick, Due, Offset
<1> QED
  <2>1. CASE FileInput
    BY <2>1, <1>1, <1>3 DEF FileInput
  <2>2. ASSUME NEW w \in TimerWorkers, Timer(w)
        PROVE  Due'
    BY <2>2, <1>4, <1>5, <1>6, <1>7 DEF Timer, Callback
  <2>3. CASE CopyMulty
    BY <2>3, <1>8, <1>2 DEF CopyMulty, inputVars
  <2>4. ASSUME NEW w \in Workers, Work(w)
        PROVE  Due'
    BY <2>4, <1>2 DEF Work, inputVars
  <2>5. CASE Time
    BY <2>5, <1>9 DEF Time
  <2>6. CASE UNCHANGED vars
    BY <2>6, <1>2 DEF vars, inputVars
  <2> QED BY <2>1, <2>2, <2>3, <2>4, <2>5, <2>6 DEF Next

\* No message leaves the timer before its turn.
THEOREM NoneEarly == Spec => []NotEarly
<1>1. Inv /\ Due => NotEarly
  BY DueEarly
<1> QED BY <1>1, InvInit, InvNext, DueInit, DueNext, PTL DEF Spec

-----------------------------------------------------------------------------
(* No message is called twice.  A message that is still to be called is at *)
(* one place: unread, scheduled, in the hand of a worker of the timer, in  *)
(* a channel, or in the copy loop.  Every step takes what is at a place    *)
(* afterwards from a place of its own before.                              *)

\* The places message x is at: the kind, and where.
At(x, kind, i) ==
    \/ kind = "unread" /\ i \in pos + 1 .. Len(entries) /\ entries[i] = x
    \/ kind = "batch" /\ i \in DOMAIN batch /\ batch[i] = x
    \/ kind = "timer" /\ i \in DOMAIN timer /\ timer[i].msg = x
    \/ kind = "hand" /\ i \in TimerWorkers /\ hand[i].msg = x
    \/ kind = "msgChan" /\ i \in DOMAIN msgChan /\ msgChan[i] = x
    \/ kind = "loop" /\ i = Input /\ loop[i].msg = x
    \/ kind = "msgChannel" /\ i \in DOMAIN msgChannel /\ msgChannel[i] = x
    \/ kind = "called" /\ i = 1 /\ calls[x] >= 1

Single(x) == \A k1, i1, k2, i2 : At(x, k1, i1) /\ At(x, k2, i2) => k1 = k2 /\ i1 = i2

Once == \A x \in Messages : calls[x] <= 1 /\ Single(x)

-----------------------------------------------------------------------------
LEMMA HeadTail ==
    ASSUME NEW S, NEW s \in Seq(S), s # <<>>
    PROVE  /\ Head(s) = s[1] /\ 1 \in DOMAIN s
           /\ DOMAIN s = 1 .. Len(s) /\ Len(s) \in Nat \ {0}
           /\ DOMAIN Tail(s) = 1 .. Len(s) - 1
           /\ \A j \in 1 .. Len(s) - 1 : Tail(s)[j] = s[j + 1]
OBVIOUS

LEMMA AtEnd ==
    ASSUME NEW S, NEW s \in Seq(S), NEW e \in S
    PROVE  /\ DOMAIN s = 1 .. Len(s) /\ Len(s) \in Nat
           /\ DOMAIN Append(s, e) = 1 .. Len(s) + 1
           /\ \A j \in 1 .. Len(s) : Append(s, e)[j] = s[j]
           /\ Append(s, e)[Len(s) + 1] = e
OBVIOUS

LEMMA OnceInit == Init => Once
<1> SUFFICES ASSUME Init
             PROVE  Once
  OBVIOUS
<1>1. /\ entries \in Recordings /\ pos = 0 /\ batch = <<>> /\ timer = <<>> /\ msgChan = <<>>
      /\ msgChannel = <<>>
      /\ \A w \in TimerWorkers : hand[w].msg = NoMessage
      /\ loop[Input].msg = NoMessage
      /\ \A x \in Messages : calls[x] = 0
  <2>1. /\ entries \in Recordings /\ pos = 0 /\ batch = <<>> /\ timer = <<>> /\ msgChan = <<>>
        /\ hand = [w \in TimerWorkers |-> Free]
    BY DEF Init, InputInit
  <2>2. loop = [i \in Inputs |-> Reading]
    BY DEF Init, EmitterInit
  <2>3. msgChannel = <<>> /\ calls = [m \in Messages |-> 0]
    BY DEF Init, GRPCInit
  <2>4. Input \in Inputs
    BY Constants
  <2> QED BY <2>1, <2>2, <2>3, <2>4 DEF Free, Hand, Reading
<1>2. entries \in Seq(Messages \cup {0})
  BY <1>1, Constants
<1>3. \A j, k \in 1 .. Len(entries) : j # k /\ entries[j] # Bad => entries[j] # entries[k]
  BY <1>1, InputAssumption DEF InputAssumption
<1>4. ASSUME NEW x \in Messages, NEW k, NEW i, At(x, k, i)
      PROVE  k = "unread" /\ i \in 1 .. Len(entries) /\ entries[i] = x
  <2>1. x # NoMessage
    BY Constants
  <2>2. k = "unread" /\ i \in pos + 1 .. Len(entries) /\ entries[i] = x
    BY <1>1, <1>4, <2>1 DEF At
  <2> QED BY <1>1, <1>2, <2>2
<1>5. ASSUME NEW x \in Messages
      PROVE  Single(x)
  <2>1. x # Bad
    BY Constants
  <2> QED BY <1>3, <1>4, <2>1 DEF Single
<1>6. \A x \in Messages : calls[x] <= 1
  BY DEF Init, GRPCInit
<1> QED BY <1>5, <1>6 DEF Once

LEMMA ReadAheadOnce ==
    ASSUME Inv, Once, ReadAhead, UNCHANGED <<emitterVars, grpcVars, prompt>>
    PROVE  Once'
<1> DEFINE K(k) == IF k = "batch" THEN "unread" ELSE k
           n == IF Len(entries) < ReadDepth THEN Len(entries) ELSE ReadDepth
<1>0. /\ entries \in Seq(Messages \cup {0}) /\ entries' = entries
      /\ batch = <<>> /\ pos = 0 /\ n \in 0 .. Len(entries)
  BY Constants DEF Inv, TypeOK, Started, ReadAhead
<1>t. \/ pos' = 0 /\ DOMAIN batch' = {}
      \/ /\ pos' = n
         /\ DOMAIN batch' = 1 .. n
         /\ \A j \in 1 .. n : batch'[j] = entries[j]
  <2>1. CASE \E k \in 1 .. n : entries[k] = Bad
    <3>1. pos' = pos /\ batch' = batch
      BY <2>1 DEF ReadAhead
    <3>2. DOMAIN batch = {}
      BY <1>0
    <3> QED BY <1>0, <3>1, <3>2
  <2>2. CASE \A k \in 1 .. n : entries[k] # Bad
    <3> DEFINE f == FirstEntries(n)
    <3>1. pos' = n /\ batch' = f
      BY <2>2 DEF ReadAhead
    <3>2. n \in 0 .. Len(entries)
      BY <1>0
    <3> HIDE DEF n
    <3>3. /\ f \in Seq(Messages) /\ Len(f) = n
          /\ \A j \in 1 .. n : f[j] = entries[j]
      BY <1>0, <2>2, <3>2, FirstMessages
    <3> HIDE DEF f
    <3>4. DOMAIN f = 1 .. n
      BY <3>3
    <3> QED BY <3>1, <3>3, <3>4
  <2> QED BY <2>1, <2>2
<1> HIDE DEF n
<1>1. ASSUME NEW x \in Messages, NEW k, NEW i, At(x, k, i)'
      PROVE  At(x, K(k), i)
  <2>1. CASE k = "batch"
    <3>1. i \in DOMAIN batch' /\ batch'[i] = x
      BY <1>1, <2>1 DEF At
    <3>2. i \in 1 .. n /\ entries[i] = x
      BY <1>t, <3>1
    <3>3. i \in pos + 1 .. Len(entries)
      BY <1>0, <3>2
    <3> QED BY <2>1, <3>2, <3>3 DEF At
  <2>2. CASE k = "unread"
    <3>1. i \in pos' + 1 .. Len(entries) /\ entries[i] = x
      BY <1>0, <1>1, <2>2 DEF At
    <3>2. i \in pos + 1 .. Len(entries)
      BY <1>0, <1>t, <3>1
    <3> QED BY <2>2, <3>1, <3>2 DEF At
  <2>3. CASE k \notin {"batch", "unread"}
    <3>1. UNCHANGED <<timer, hand, msgChan, loop, msgChannel, calls>>
      BY DEF ReadAhead, emitterVars, grpcVars
    <3> QED BY <1>1, <2>3, <3>1 DEF At
  <2> QED BY <2>1, <2>2, <2>3
<1>2. ASSUME NEW x \in Messages, NEW k1, NEW i1, NEW k2, NEW i2,
             At(x, k1, i1)', At(x, k2, i2)', K(k1) = K(k2), i1 = i2
      PROVE  k1 = k2
  <2>1. \A k, i : At(x, k, i)' /\ k = "batch" => i \in 1 .. n /\ pos' = n
    BY <1>t DEF At
  <2>2. \A k, i : At(x, k, i)' /\ k = "unread" => i \in pos' + 1 .. Len(entries)
    BY <1>0 DEF At
  <2>3. \A i : ~ (i \in 1 .. n /\ i \in n + 1 .. Len(entries))
    BY <1>0
  <2> QED BY <1>2, <2>1, <2>2, <2>3
<1>3. \A x \in Messages : calls'[x] <= 1
  BY DEF Once, grpcVars
<1> HIDE DEF K
<1> QED BY <1>1, <1>2, <1>3 DEF Once, Single


\* Where the messages in the timer come from when m is added.
LEMMA TimerPlaces ==
    ASSUME Inv, NEW m \in Messages, AddTask(m)
    PROVE  /\ DOMAIN timer = 1 .. Len(timer) /\ Len(timer) \in Nat
           /\ DOMAIN timer' = 1 .. Len(timer) + 1
           /\ \E p \in 1 .. Len(timer) + 1 : \A j \in 1 .. Len(timer) + 1 :
                 timer'[j].msg = IF j < p THEN timer[j].msg
                                 ELSE IF j = p THEN m ELSE timer[j - 1].msg
<1>1. /\ timer \in Seq(Tasks) /\ timer' \in Seq(Tasks) /\ Len(timer') = Len(timer) + 1
  BY AddTaskInserts DEF Inv, TypeOK, Tasks
<1>2. PICK p \in 1 .. Len(timer) + 1 : \A j \in 1 .. Len(timer) + 1 :
         timer'[j] = IF j < p THEN timer[j]
                     ELSE IF j = p THEN Task(m, Offset(m)) ELSE timer[j - 1]
  BY AddTaskInserts DEF Inv
<1>3. Task(m, Offset(m)).msg = m
  BY DEF Task
<1>4. \A j \in 1 .. Len(timer) + 1 :
         timer'[j].msg = IF j < p THEN timer[j].msg
                         ELSE IF j = p THEN m ELSE timer[j - 1].msg
  BY <1>2, <1>3
<1>5. /\ DOMAIN timer = 1 .. Len(timer) /\ Len(timer) \in Nat
      /\ DOMAIN timer' = 1 .. Len(timer) + 1
  BY <1>1
<1> QED BY <1>4, <1>5

LEMMA ScheduleOnce ==
    ASSUME Inv, Once, Schedule, UNCHANGED <<emitterVars, grpcVars, prompt>>
    PROVE  Once'
<1>0. /\ batch \in Seq(Messages) /\ batch # <<>>
  BY DEF Schedule, Inv, TypeOK
<1>b. /\ Head(batch) = batch[1] /\ batch[1] \in Messages /\ 1 \in DOMAIN batch
      /\ DOMAIN batch = 1 .. Len(batch) /\ Len(batch) \in Nat \ {0}
      /\ DOMAIN batch' = 1 .. Len(batch) - 1
      /\ \A j \in 1 .. Len(batch) - 1 : batch'[j] = batch[j + 1]
  BY <1>0, HeadTail DEF Schedule
<1>t. /\ DOMAIN timer = 1 .. Len(timer) /\ Len(timer) \in Nat
      /\ DOMAIN timer' = 1 .. Len(timer) + 1
      /\ \E p \in 1 .. Len(timer) + 1 : \A j \in 1 .. Len(timer) + 1 :
            timer'[j].msg = IF j < p THEN timer[j].msg
                            ELSE IF j = p THEN batch[1] ELSE timer[j - 1].msg
  BY <1>b, TimerPlaces DEF Schedule
<1>p. PICK p \in 1 .. Len(timer) + 1 : \A j \in 1 .. Len(timer) + 1 :
         timer'[j].msg = IF j < p THEN timer[j].msg
                         ELSE IF j = p THEN batch[1] ELSE timer[j - 1].msg
  BY <1>t
<1> DEFINE K(k, i) == IF k = "timer" /\ i = p THEN "batch" ELSE k
           I(k, i) == IF k = "timer" THEN IF i < p THEN i ELSE IF i = p THEN 1 ELSE i - 1
                      ELSE IF k = "batch" THEN i + 1 ELSE i
<1>1. ASSUME NEW x \in Messages, NEW k, NEW i, At(x, k, i)'
      PROVE  At(x, K(k, i), I(k, i))
  <2>1. CASE k = "timer"
    <3>1. i \in 1 .. Len(timer) + 1 /\ timer'[i].msg = x
      BY <1>1, <1>t, <2>1 DEF At
    <3>2. CASE i < p
      BY <1>t, <1>p, <2>1, <3>1, <3>2 DEF At
    <3>3. CASE i = p
      BY <1>b, <1>p, <2>1, <3>1, <3>3 DEF At
    <3>4. CASE i > p
      <4>1. i - 1 \in 1 .. Len(timer) /\ timer[i - 1].msg = x
        BY <1>t, <1>p, <3>1, <3>4
      <4>2. K(k, i) = "timer" /\ I(k, i) = i - 1
        BY <1>p, <2>1, <3>1, <3>4
      <4> QED BY <1>t, <4>1, <4>2 DEF At
    <3> QED BY <1>t, <1>p, <3>1, <3>2, <3>3, <3>4
  <2>2. CASE k = "batch"
    <3>1. i \in 1 .. Len(batch) - 1 /\ batch'[i] = x
      BY <1>1, <1>b, <2>2 DEF At
    <3>2. i + 1 \in DOMAIN batch /\ batch[i + 1] = x
      BY <1>b, <3>1
    <3> QED BY <2>2, <3>2 DEF At
  <2>3. CASE k \notin {"timer", "batch"}
    <3>1. UNCHANGED <<entries, pos, hand, msgChan, loop, msgChannel, calls>>
      BY DEF Schedule, emitterVars, grpcVars
    <3> QED BY <1>1, <2>3, <3>1 DEF At
  <2> QED BY <2>1, <2>2, <2>3
<1>2. ASSUME NEW x \in Messages, NEW k1, NEW i1, NEW k2, NEW i2,
             At(x, k1, i1)', At(x, k2, i2)',
             K(k1, i1) = K(k2, i2), I(k1, i1) = I(k2, i2)
      PROVE  k1 = k2 /\ i1 = i2
  <2>1. /\ k1 \in {"timer", "batch"} => i1 \in Nat \ {0}
        /\ k2 \in {"timer", "batch"} => i2 \in Nat \ {0}
    BY <1>2, <1>t, <1>b DEF At
  <2>2. p \in Nat \ {0}
    BY <1>t
  <2> QED BY <1>2, <2>1, <2>2
<1>3. \A x \in Messages : calls'[x] <= 1
  BY DEF Once, grpcVars
<1> HIDE DEF K, I
<1> QED BY <1>1, <1>2, <1>3 DEF Once, Single

LEMMA FireOnce ==
    ASSUME Inv, Once, NEW w \in TimerWorkers, Fire(w),
           UNCHANGED <<emitterVars, grpcVars, prompt>>
    PROVE  Once'
<1> DEFINE K(k, i) == IF k = "hand" /\ i = w THEN "timer" ELSE k
           I(k, i) == IF k = "hand" /\ i = w THEN 1 ELSE IF k = "timer" THEN i + 1 ELSE i
<1>0. timer \in Seq(Tasks) /\ timer # <<>> /\ hand' = [hand EXCEPT ![w] = Hand("send", Head(timer).msg)]
      /\ DOMAIN hand = TimerWorkers
  BY DEF Inv, TypeOK, Fire, Tasks
<1>t. /\ Head(timer) = timer[1] /\ 1 \in DOMAIN timer
      /\ DOMAIN timer = 1 .. Len(timer) /\ Len(timer) \in Nat \ {0}
      /\ DOMAIN timer' = 1 .. Len(timer) - 1
      /\ \A j \in 1 .. Len(timer) - 1 : timer'[j] = timer[j + 1]
  BY <1>0, HeadTail DEF Fire
<1>1. ASSUME NEW x \in Messages, NEW k, NEW i, At(x, k, i)'
      PROVE  At(x, K(k, i), I(k, i))
  <2>1. CASE k = "timer"
    BY <1>1, <1>t, <2>1 DEF At
  <2>2. CASE k = "hand"
    <3>1. i \in TimerWorkers /\ hand'[i].msg = x
      BY <1>1, <2>2 DEF At
    <3>2. CASE i = w
      BY <1>0, <1>t, <2>2, <3>1, <3>2 DEF At, Hand
    <3>3. CASE i # w
      BY <1>0, <2>2, <3>1, <3>3 DEF At
    <3> QED BY <3>2, <3>3
  <2>3. CASE k \notin {"timer", "hand"}
    <3>1. UNCHANGED <<entries, pos, batch, msgChan, loop, msgChannel, calls>>
      BY DEF Fire, emitterVars, grpcVars
    <3> QED BY <1>1, <2>3, <3>1 DEF At
  <2> QED BY <2>1, <2>2, <2>3
<1>2. ASSUME NEW x \in Messages, NEW k1, NEW i1, NEW k2, NEW i2,
             At(x, k1, i1)', At(x, k2, i2)',
             K(k1, i1) = K(k2, i2), I(k1, i1) = I(k2, i2)
      PROVE  k1 = k2 /\ i1 = i2
  <2>1. /\ k1 = "timer" => i1 \in Nat \ {0}
        /\ k2 = "timer" => i2 \in Nat \ {0}
    BY <1>2, <1>t DEF At
  <2> QED BY <1>2, <2>1
<1>3. \A x \in Messages : calls'[x] <= 1
  BY DEF Once, grpcVars
<1> HIDE DEF K, I
<1> QED BY <1>1, <1>2, <1>3 DEF Once, Single

LEMMA DeliverOnce ==
    ASSUME Inv, Once, NEW w \in TimerWorkers, Deliver(w),
           UNCHANGED <<emitterVars, grpcVars, prompt>>
    PROVE  Once'
<1> DEFINE last == Len(msgChan) + 1
           K(k, i) == IF k = "msgChan" /\ i = last THEN "hand" ELSE k
           I(k, i) == IF k = "msgChan" /\ i = last THEN w ELSE i
<1>0. /\ msgChan \in Seq(Messages) /\ hand[w].msg \in Messages
      /\ hand' = [hand EXCEPT ![w] = Hand("read", NoMessage)] /\ DOMAIN hand = TimerWorkers
  BY DEF Inv, TypeOK, Deliver
<1>c. /\ DOMAIN msgChan = 1 .. Len(msgChan) /\ Len(msgChan) \in Nat
      /\ DOMAIN msgChan' = 1 .. last
      /\ \A j \in 1 .. Len(msgChan) : msgChan'[j] = msgChan[j]
      /\ msgChan'[last] = hand[w].msg
  BY <1>0, AtEnd DEF Deliver
<1>1. ASSUME NEW x \in Messages, NEW k, NEW i, At(x, k, i)'
      PROVE  At(x, K(k, i), I(k, i)) /\ (k = "hand" => i # w)
  <2>1. CASE k = "msgChan"
    <3>1. i \in 1 .. last /\ msgChan'[i] = x
      BY <1>1, <1>c, <2>1 DEF At
    <3> QED BY <1>c, <2>1, <3>1 DEF At
  <2>2. CASE k = "hand"
    <3>1. i \in TimerWorkers /\ hand'[i].msg = x /\ x # NoMessage
      BY <1>1, <2>2, Constants DEF At
    <3>2. i # w
      BY <1>0, <3>1 DEF Hand
    <3> QED BY <1>0, <2>2, <3>1, <3>2 DEF At
  <2>3. CASE k \notin {"msgChan", "hand"}
    <3>1. UNCHANGED <<entries, pos, batch, timer, loop, msgChannel, calls>>
      BY DEF Deliver, emitterVars, grpcVars
    <3> QED BY <1>1, <2>3, <3>1 DEF At
  <2> QED BY <2>1, <2>2, <2>3
<1>2. ASSUME NEW x \in Messages, NEW k1, NEW i1, NEW k2, NEW i2,
             At(x, k1, i1)', At(x, k2, i2)',
             K(k1, i1) = K(k2, i2), I(k1, i1) = I(k2, i2)
      PROVE  k1 = k2 /\ i1 = i2
  <2> HIDE DEF last
  <2>1. (k1 = "hand" => i1 # w) /\ (k2 = "hand" => i2 # w)
    BY <1>1, <1>2
  <2> QED BY <1>2, <2>1
<1>3. \A x \in Messages : calls'[x] <= 1
  BY DEF Once, grpcVars
<1> HIDE DEF K, I
<1> QED BY <1>1, <1>2, <1>3 DEF Once, Single

LEMMA ReadNextOnce ==
    ASSUME Inv, Once, NEW w \in TimerWorkers, ReadNext(w),
           UNCHANGED <<emitterVars, grpcVars, prompt>>
    PROVE  Once'
<1> DEFINE K(k, i) == IF k = "hand" /\ i = w THEN "unread" ELSE k
           I(k, i) == IF k = "hand" /\ i = w THEN pos + 1 ELSE i
<1>0. /\ entries \in Seq(Messages \cup {0}) /\ pos \in 0 .. Len(entries) /\ entries' = entries
      /\ DOMAIN hand = TimerWorkers
  BY Constants DEF Inv, TypeOK, ReadNext
<1>h. \/ hand' = [hand EXCEPT ![w] = Free] /\ pos' \in {pos, pos + 1}
      \/ /\ pos + 1 \in 1 .. Len(entries) /\ pos' = pos + 1
         /\ hand' = [hand EXCEPT ![w] = Hand("add", entries[pos + 1])]
  BY <1>0 DEF ReadNext, Skip, Got
<1>1. ASSUME NEW x \in Messages, NEW k, NEW i, At(x, k, i)'
      PROVE  /\ At(x, K(k, i), I(k, i))
             /\ k = "unread" => i # pos + 1 \/ pos' = pos
             /\ k = "hand" /\ i = w => pos' = pos + 1
  <2>0. x # NoMessage
    BY Constants
  <2>1. CASE k = "unread"
    <3>1. i \in pos' + 1 .. Len(entries) /\ entries[i] = x
      BY <1>0, <1>1, <2>1 DEF At
    <3>2. i \in pos + 1 .. Len(entries) /\ (i # pos + 1 \/ pos' = pos)
      BY <1>0, <1>h, <3>1
    <3> QED BY <2>1, <3>1, <3>2 DEF At
  <2>2. CASE k = "hand"
    <3>1. i \in TimerWorkers /\ hand'[i].msg = x
      BY <1>1, <2>2 DEF At
    <3>2. CASE i = w
      <4>1. /\ pos + 1 \in 1 .. Len(entries) /\ pos' = pos + 1 /\ entries[pos + 1] = x
        BY <1>0, <1>h, <2>0, <3>1, <3>2 DEF Hand, Free
      <4>2. pos + 1 \in pos + 1 .. Len(entries)
        BY <1>0, <4>1
      <4> QED BY <2>2, <3>2, <4>1, <4>2 DEF At
    <3>3. CASE i # w
      BY <1>0, <1>h, <2>2, <3>1, <3>3 DEF At
    <3> QED BY <3>2, <3>3
  <2>3. CASE k \notin {"unread", "hand"}
    <3>1. UNCHANGED <<batch, timer, msgChan, loop, msgChannel, calls>>
      BY DEF ReadNext, emitterVars, grpcVars
    <3> QED BY <1>1, <2>3, <3>1 DEF At
  <2> QED BY <2>1, <2>2, <2>3
<1>2. ASSUME NEW x \in Messages, NEW k1, NEW i1, NEW k2, NEW i2,
             At(x, k1, i1)', At(x, k2, i2)',
             K(k1, i1) = K(k2, i2), I(k1, i1) = I(k2, i2)
      PROVE  k1 = k2 /\ i1 = i2
  <2>1. /\ k1 = "unread" => i1 # pos + 1 \/ pos' = pos
        /\ k2 = "unread" => i2 # pos + 1 \/ pos' = pos
        /\ k1 = "hand" /\ i1 = w => pos' = pos + 1
        /\ k2 = "hand" /\ i2 = w => pos' = pos + 1
    BY <1>1, <1>2
  <2>2. pos + 1 # pos
    BY <1>0
  <2> QED BY <1>2, <2>1, <2>2
<1>3. \A x \in Messages : calls'[x] <= 1
  BY DEF Once, grpcVars
<1> HIDE DEF K, I
<1> QED BY <1>1, <1>2, <1>3 DEF Once, Single

LEMMA AddNextOnce ==
    ASSUME Inv, Once, NEW w \in TimerWorkers, AddNext(w),
           UNCHANGED <<emitterVars, grpcVars, prompt>>
    PROVE  Once'
<1>0. /\ hand[w].msg \in Messages /\ hand' = [hand EXCEPT ![w] = Free] /\ DOMAIN hand = TimerWorkers
  BY DEF AddNext, Inv, TypeOK
<1>t. /\ DOMAIN timer = 1 .. Len(timer) /\ Len(timer) \in Nat
      /\ DOMAIN timer' = 1 .. Len(timer) + 1
      /\ \E p \in 1 .. Len(timer) + 1 : \A j \in 1 .. Len(timer) + 1 :
            timer'[j].msg = IF j < p THEN timer[j].msg
                            ELSE IF j = p THEN hand[w].msg ELSE timer[j - 1].msg
  BY <1>0, TimerPlaces DEF AddNext
<1>p. PICK p \in 1 .. Len(timer) + 1 : \A j \in 1 .. Len(timer) + 1 :
         timer'[j].msg = IF j < p THEN timer[j].msg
                         ELSE IF j = p THEN hand[w].msg ELSE timer[j - 1].msg
  BY <1>t
<1> DEFINE K(k, i) == IF k = "timer" /\ i = p THEN "hand" ELSE k
           I(k, i) == IF k = "timer" THEN IF i < p THEN i ELSE IF i = p THEN w ELSE i - 1
                      ELSE i
<1>1. ASSUME NEW x \in Messages, NEW k, NEW i, At(x, k, i)'
      PROVE  At(x, K(k, i), I(k, i)) /\ (k = "hand" => i # w)
  <2>1. CASE k = "timer"
    <3>1. i \in 1 .. Len(timer) + 1 /\ timer'[i].msg = x
      BY <1>1, <1>t, <2>1 DEF At
    <3>2. CASE i < p
      BY <1>t, <1>p, <2>1, <3>1, <3>2 DEF At
    <3>3. CASE i = p
      BY <1>t, <1>p, <2>1, <3>1, <3>3 DEF At
    <3>4. CASE i > p
      <4>1. i - 1 \in 1 .. Len(timer) /\ timer[i - 1].msg = x
        BY <1>t, <1>p, <3>1, <3>4
      <4>2. K(k, i) = "timer" /\ I(k, i) = i - 1
        <5>1. ~ i < p /\ i # p
          BY <1>t, <1>p, <3>1, <3>4
        <5> QED BY <2>1, <5>1
      <4> QED BY <1>t, <2>1, <4>1, <4>2 DEF At
    <3> QED BY <1>t, <1>p, <2>1, <3>1, <3>2, <3>3, <3>4
  <2>2. CASE k = "hand"
    <3>1. i \in TimerWorkers /\ hand'[i].msg = x /\ x # NoMessage
      BY <1>1, <2>2, Constants DEF At
    <3>2. i # w
      BY <1>0, <3>1 DEF Hand, Free
    <3> QED BY <1>0, <2>2, <3>1, <3>2 DEF At
  <2>3. CASE k \notin {"timer", "hand"}
    <3>1. UNCHANGED <<entries, pos, batch, msgChan, loop, msgChannel, calls>>
      BY DEF AddNext, emitterVars, grpcVars
    <3> QED BY <1>1, <2>3, <3>1 DEF At
  <2> QED BY <2>1, <2>2, <2>3
<1>2. ASSUME NEW x \in Messages, NEW k1, NEW i1, NEW k2, NEW i2,
             At(x, k1, i1)', At(x, k2, i2)',
             K(k1, i1) = K(k2, i2), I(k1, i1) = I(k2, i2)
      PROVE  k1 = k2 /\ i1 = i2
  <2>1. /\ k1 = "timer" => i1 \in Nat \ {0}
        /\ k2 = "timer" => i2 \in Nat \ {0}
    BY <1>2, <1>t DEF At
  <2>2. (k1 = "hand" => i1 # w) /\ (k2 = "hand" => i2 # w)
    BY <1>1, <1>2
  <2>3. p \in Nat \ {0}
    BY <1>t
  <2> QED BY <1>2, <2>1, <2>2, <2>3
<1>3. \A x \in Messages : calls'[x] <= 1
  BY DEF Once, grpcVars
<1> HIDE DEF K, I
<1> QED BY <1>1, <1>2, <1>3 DEF Once, Single

LEMMA ReadMsgOnce ==
    ASSUME Inv, Once, ReadMsg, Copy(Input, Head(msgChan)), UNCHANGED <<grpcVars, prompt>>
    PROVE  Once'
<1> DEFINE K(k) == IF k = "loop" THEN "msgChan" ELSE k
           I(k, i) == IF k = "loop" THEN 1 ELSE IF k = "msgChan" THEN i + 1 ELSE i
<1>0. msgChan \in Seq(Messages) /\ msgChan # <<>> /\ DOMAIN loop = {Input}
  BY Constants DEF Inv, TypeOK, ReadMsg
<1>c. /\ Head(msgChan) = msgChan[1] /\ 1 \in DOMAIN msgChan
      /\ DOMAIN msgChan = 1 .. Len(msgChan) /\ Len(msgChan) \in Nat \ {0}
      /\ DOMAIN msgChan' = 1 .. Len(msgChan) - 1
      /\ \A j \in 1 .. Len(msgChan) - 1 : msgChan'[j] = msgChan[j + 1]
  BY <1>0, HeadTail DEF ReadMsg
<1>l. loop'[Input].msg \in {msgChan[1], NoMessage}
  <2>1. loop[Input].msg = NoMessage
    BY DEF Copy, Reading
  <2>2. \/ loop' = loop
        \/ loop' = [loop EXCEPT ![Input] = [msg |-> msgChan[1], at |-> 1]]
    BY <1>c DEF Copy
  <2> QED BY <1>0, <2>1, <2>2
<1>1. ASSUME NEW x \in Messages, NEW k, NEW i, At(x, k, i)'
      PROVE  At(x, K(k), I(k, i))
  <2>0. x # NoMessage
    BY Constants
  <2>1. CASE k = "msgChan"
    <3>1. i \in 1 .. Len(msgChan) - 1 /\ msgChan'[i] = x
      BY <1>1, <1>c, <2>1 DEF At
    <3>2. i + 1 \in DOMAIN msgChan /\ msgChan[i + 1] = x
      BY <1>c, <3>1
    <3> QED BY <2>1, <3>2 DEF At
  <2>2. CASE k = "loop"
    <3>1. i = Input /\ loop'[i].msg = x
      BY <1>1, <2>2 DEF At
    <3>2. msgChan[1] = x
      BY <1>l, <2>0, <3>1
    <3> QED BY <1>c, <2>2, <3>2 DEF At
  <2>3. CASE k \notin {"msgChan", "loop"}
    <3>1. UNCHANGED <<entries, pos, batch, timer, hand, msgChannel, calls>>
      BY DEF ReadMsg, grpcVars
    <3> QED BY <1>1, <2>3, <3>1 DEF At
  <2> QED BY <2>1, <2>2, <2>3
<1>2. ASSUME NEW x \in Messages, NEW k1, NEW i1, NEW k2, NEW i2,
             At(x, k1, i1)', At(x, k2, i2)',
             K(k1) = K(k2), I(k1, i1) = I(k2, i2)
      PROVE  k1 = k2 /\ i1 = i2
  <2>1. /\ k1 = "msgChan" => i1 \in Nat \ {0}
        /\ k2 = "msgChan" => i2 \in Nat \ {0}
    BY <1>2, <1>c DEF At
  <2>2. (k1 = "loop" => i1 = Input) /\ (k2 = "loop" => i2 = Input)
    BY <1>2 DEF At
  <2> QED BY <1>2, <2>1, <2>2
<1>3. \A x \in Messages : calls'[x] <= 1
  BY DEF Once, grpcVars
<1> HIDE DEF K, I
<1> QED BY <1>1, <1>2, <1>3 DEF Once, Single

LEMMA SendOnce ==
    ASSUME Inv, Once, Writing(Input, "grpc"), Send(loop[Input].msg), Written(Input),
           UNCHANGED <<inputVars, prompt>>
    PROVE  Once'
<1> DEFINE last == Len(msgChannel) + 1
           K(k, i) == IF k = "msgChannel" /\ i = last THEN "loop" ELSE k
           I(k, i) == IF k = "msgChannel" /\ i = last THEN Input ELSE i
<1>0. /\ msgChannel \in Seq(Messages) /\ loop[Input] \in [msg : Messages, at : {1}]
      /\ DOMAIN loop = {Input}
  BY Constants DEF Inv, TypeOK, Writing
<1>l. loop'[Input].msg = NoMessage
  <2>1. ~ loop[Input].at < Len(Outputs)
    BY <1>0, Constants
  <2>2. loop' = [loop EXCEPT ![Input] = Reading]
    BY <1>0, <2>1 DEF Written
  <2> QED BY <1>0, <2>2 DEF Reading
<1>c. /\ DOMAIN msgChannel = 1 .. Len(msgChannel) /\ Len(msgChannel) \in Nat
      /\ DOMAIN msgChannel' = 1 .. last
      /\ \A j \in 1 .. Len(msgChannel) : msgChannel'[j] = msgChannel[j]
      /\ msgChannel'[last] = loop[Input].msg
  <2>1. loop[Input].msg \in Messages
    BY <1>0
  <2> QED BY <1>0, <2>1, AtEnd DEF Send
<1>1. ASSUME NEW x \in Messages, NEW k, NEW i, At(x, k, i)'
      PROVE  At(x, K(k, i), I(k, i)) /\ k # "loop"
  <2>0. x # NoMessage
    BY Constants
  <2>1. CASE k = "msgChannel"
    <3>1. i \in 1 .. last /\ msgChannel'[i] = x
      BY <1>1, <1>c, <2>1 DEF At
    <3>2. CASE i = last
      BY <1>c, <2>1, <3>1, <3>2 DEF At
    <3>3. CASE i # last
      <4>1. i \in 1 .. Len(msgChannel)
        BY <1>c, <3>1, <3>3
      <4>2. msgChannel[i] = x
        BY <1>c, <3>1, <4>1
      <4> QED BY <1>c, <2>1, <3>3, <4>1, <4>2 DEF At
    <3> QED BY <3>2, <3>3
  <2>2. k # "loop"
    BY <1>1, <1>l, <2>0 DEF At
  <2>3. CASE k \notin {"msgChannel", "loop"}
    <3>1. UNCHANGED <<entries, pos, batch, timer, hand, msgChan, calls>>
      BY DEF Send, inputVars
    <3> QED BY <1>1, <2>3, <3>1 DEF At
  <2> QED BY <2>1, <2>2, <2>3
<1>2. ASSUME NEW x \in Messages, NEW k1, NEW i1, NEW k2, NEW i2,
             At(x, k1, i1)', At(x, k2, i2)',
             K(k1, i1) = K(k2, i2), I(k1, i1) = I(k2, i2)
      PROVE  k1 = k2 /\ i1 = i2
  <2>1. k1 # "loop" /\ k2 # "loop"
    BY <1>1, <1>2
  <2> HIDE DEF last
  <2> QED BY <1>2, <2>1
<1>3. \A x \in Messages : calls'[x] <= 1
  BY DEF Once, Send
<1> HIDE DEF K, I
<1> QED BY <1>1, <1>2, <1>3 DEF Once, Single

LEMMA StartCallOnce ==
    ASSUME Inv, Once, NEW w \in Workers, StartCall(w),
           UNCHANGED <<inputVars, emitterVars, prompt>>
    PROVE  Once'
<1> DEFINE m == msgChannel[1]
           K(x, k) == IF k = "called" /\ calls[x] = 0 THEN "msgChannel" ELSE k
           I(k, i) == IF k = "msgChannel" THEN i + 1 ELSE i
<1>0. msgChannel \in Seq(Messages) /\ msgChannel # <<>> /\ calls \in [Messages -> Nat]
  BY DEF Inv, TypeOK, StartCall
<1>c. /\ Head(msgChannel) = m /\ 1 \in DOMAIN msgChannel /\ m \in Messages
      /\ DOMAIN msgChannel = 1 .. Len(msgChannel) /\ Len(msgChannel) \in Nat \ {0}
      /\ DOMAIN msgChannel' = 1 .. Len(msgChannel) - 1
      /\ \A j \in 1 .. Len(msgChannel) - 1 : msgChannel'[j] = msgChannel[j + 1]
  BY <1>0, HeadTail DEF StartCall
<1>m. calls[m] = 0
  <2>1. At(m, "msgChannel", 1)
    BY <1>c DEF At
  <2>2. calls[m] >= 1 => At(m, "called", 1)
    BY DEF At
  <2>3. ~ At(m, "called", 1)
    BY <1>c, <2>1 DEF Once, Single
  <2> QED BY <1>0, <1>c, <2>2, <2>3
<1>d. \A x \in Messages : calls'[x] = calls[x] \/ (x = m /\ calls'[x] = 1)
  <2>1. \/ calls' = calls
        \/ calls' = [calls EXCEPT ![m] = calls[m] + 1]
    BY <1>c DEF StartCall
  <2> QED BY <1>0, <1>c, <1>m, <2>1
<1> HIDE DEF m
<1>1. ASSUME NEW x \in Messages, NEW k, NEW i, At(x, k, i)'
      PROVE  At(x, K(x, k), I(k, i))
  <2>1. CASE k = "msgChannel"
    <3>1. i \in 1 .. Len(msgChannel) - 1 /\ msgChannel'[i] = x
      BY <1>1, <1>c, <2>1 DEF At
    <3>2. i + 1 \in DOMAIN msgChannel /\ msgChannel[i + 1] = x
      BY <1>c, <3>1
    <3> QED BY <2>1, <3>2 DEF At
  <2>2. CASE k = "called"
    <3>1. i = 1 /\ calls'[x] >= 1
      BY <1>1, <2>2 DEF At
    <3>2. CASE calls[x] = 0
      <4>1. msgChannel[1] = x
        BY <1>d, <3>1, <3>2 DEF m
      <4> QED BY <1>c, <2>2, <3>1, <3>2, <4>1 DEF At
    <3>3. CASE calls[x] # 0
      <4>1. calls[x] >= 1
        BY <1>0, <3>3
      <4> QED BY <2>2, <3>1, <3>3, <4>1 DEF At
    <3> QED BY <3>2, <3>3
  <2>3. CASE k \notin {"msgChannel", "called"}
    <3>1. UNCHANGED <<entries, pos, batch, timer, hand, msgChan, loop>>
      BY DEF inputVars, emitterVars
    <3> QED BY <1>1, <2>3, <3>1 DEF At
  <2> QED BY <2>1, <2>2, <2>3
<1>2. ASSUME NEW x \in Messages, NEW k1, NEW i1, NEW k2, NEW i2,
             At(x, k1, i1)', At(x, k2, i2)',
             K(x, k1) = K(x, k2), I(k1, i1) = I(k2, i2)
      PROVE  k1 = k2 /\ i1 = i2
  <2>1. /\ k1 = "msgChannel" => i1 \in Nat \ {0}
        /\ k2 = "msgChannel" => i2 \in Nat \ {0}
        /\ k1 = "called" => i1 = 1
        /\ k2 = "called" => i2 = 1
    BY <1>2, <1>c DEF At
  <2> QED BY <1>2, <2>1
<1>3. \A x \in Messages : calls'[x] <= 1
  BY <1>d DEF Once
<1> HIDE DEF K, I
<1> QED BY <1>1, <1>2, <1>3 DEF Once, Single

LEMMA TickOnce ==
    ASSUME Inv, Once, Tick, UNCHANGED <<emitterVars, grpcVars, prompt>>
    PROVE  Once'
<1>1. \A j : j \in DOMAIN timer' => j \in DOMAIN timer /\ timer'[j].msg = timer[j].msg
  <2>1. timer \in Seq(Tasks)
    BY DEF Inv, TypeOK, Tasks
  <2>2. \A j \in DOMAIN timer : timer[j] \in Tasks
    <3> HIDE DEF Tasks
    <3> QED BY <2>1
  <2>3. DOMAIN timer' = DOMAIN timer
    BY DEF Tick
  <2>4. \A j \in DOMAIN timer : timer'[j].msg = timer[j].msg
    <3>1. SUFFICES ASSUME NEW j \in DOMAIN timer
                   PROVE  timer'[j].msg = timer[j].msg
      OBVIOUS
    <3>2. timer'[j] = IF timer[j].left = 0 THEN timer[j]
                                           ELSE [timer[j] EXCEPT !.left = @ - 1]
      BY DEF Tick
    <3> QED BY <2>2, <3>2 DEF Tasks
  <2> QED BY <2>3, <2>4
<1>2. UNCHANGED <<entries, pos, batch, hand, msgChan, loop, msgChannel, calls>>
  BY DEF Tick, emitterVars, grpcVars
<1>3. \A x, k, i : At(x, k, i)' => At(x, k, i)
  BY <1>1, <1>2 DEF At
<1> QED BY <1>2, <1>3 DEF Once, Single

LEMMA OnceNext == Inv /\ Once /\ [Next]_vars => Once'
<1> SUFFICES ASSUME Inv, Once, [Next]_vars
             PROVE  Once'
  OBVIOUS
<1>1. ASSUME UNCHANGED <<entries, pos, batch, timer, hand, msgChan, loop, msgChannel, calls>>
      PROVE  Once'
  <2>1. \A x, k, i : At(x, k, i)' => At(x, k, i)
    BY <1>1 DEF At
  <2> QED BY <1>1, <2>1 DEF Once, Single
<1>2. CASE FileInput
  BY <1>2, ReadAheadOnce, ScheduleOnce DEF FileInput
<1>3. ASSUME NEW w \in TimerWorkers, Timer(w)
      PROVE  Once'
  BY <1>3, FireOnce, DeliverOnce, ReadNextOnce, AddNextOnce DEF Timer, Callback
<1>4. CASE CopyMulty
  BY <1>4, ReadMsgOnce, SendOnce DEF CopyMulty
<1>5. ASSUME NEW w \in Workers, Work(w)
      PROVE  Once'
  <2>1. CASE StartCall(w)
    BY <1>5, <2>1, StartCallOnce DEF Work
  <2>2. CASE EndCall(w)
    BY <1>1, <1>5, <2>2 DEF Work, EndCall, inputVars, emitterVars
  <2> QED BY <1>5, <2>1, <2>2 DEF Work
<1>6. CASE Time
  BY <1>6, TickOnce DEF Time
<1>7. CASE UNCHANGED vars
  BY <1>1, <1>7 DEF vars, inputVars, emitterVars, grpcVars
<1> QED BY <1>2, <1>3, <1>4, <1>5, <1>6, <1>7 DEF Next

\* No record is replayed twice, however the workers of the timer, the copy loop
\* and the workers of GRPCOutput overlap.
THEOREM AtMostOneCall == Spec => []CalledOnce
<1>1. Once => CalledOnce
  BY DEF Once, CalledOnce
<1> QED BY <1>1, InvInit, InvNext, OnceInit, OnceNext, PTL DEF Spec

-----------------------------------------------------------------------------
(* A replay keeps its tasks and the order of its messages.                 *)
(*                                                                         *)
(* Nothing is said of when a message is due: while nothing is slow, two    *)
(* messages of which one goes before the other are told apart by the ticks *)
(* their tasks have left.  The one read later has more left from the start,*)
(* both count down together, and time does not pass the first one's turn   *)
(* before it is delivered.                                                 *)

-----------------------------------------------------------------------------
(* The timer and the hands of its workers.                                 *)

\* The timer is a sequence of tasks, whose places are counted from one.
LEMMA TimerDomain ==
  ASSUME TypeOK
  PROVE  /\ DOMAIN timer = 1 .. Len(timer) /\ Len(timer) \in Nat
         /\ timer \in Seq(Tasks)
         /\ \A j \in DOMAIN timer : timer[j].msg \in Messages /\ timer[j].left \in Nat
<1>1. timer \in Seq(Tasks)
  BY DEF TypeOK, Tasks
<1>2. DOMAIN timer = 1 .. Len(timer) /\ Len(timer) \in Nat
  BY <1>1
<1>3. \A j \in DOMAIN timer : timer[j] \in Tasks
  <2> HIDE DEF Tasks
  <2> QED BY <1>1
<1> QED BY <1>1, <1>2, <1>3 DEF Tasks

\* Two hands that are the same do the same with the same message.
LEMMA HandEqual ==
  ASSUME NEW d1, NEW m1, NEW d2, NEW m2, Hand(d1, m1) = Hand(d2, m2)
  PROVE  d1 = d2 /\ m1 = m2
  BY DEF Hand

-----------------------------------------------------------------------------
(* The tasks.                                                              *)

\* As many tasks are under way as are read ahead, less the unreadable records.
Tasked == IsFiniteSet(Busy) /\ TasksKept

\* What is under way.
UnderWay == Len(batch) + Len(timer) + Cardinality(Busy)

\* One record more, readable or not.
LEMMA BadNext ==
  ASSUME NEW n \in Nat
  PROVE  /\ BadAmong(n) \in Nat
         /\ BadAmong(n + 1) = BadAmong(n) + (IF entries[n + 1] = Bad THEN 1 ELSE 0)
<1> DEFINE B(k) == {j \in 1 .. k : entries[j] = Bad}
<1>1. IsFiniteSet(B(n)) /\ Cardinality(B(n)) \in Nat
  <2>1. IsFiniteSet(1 .. n)
    BY FS_Interval
  <2>2. B(n) \subseteq 1 .. n
    OBVIOUS
  <2>3. IsFiniteSet(B(n))
    BY <2>1, <2>2, FS_Subset
  <2> QED BY <2>3, FS_CardinalityType
<1>2. CASE entries[n + 1] = Bad
  <2>1. B(n + 1) = B(n) \cup {n + 1} /\ n + 1 \notin B(n)
    BY <1>2
  <2> HIDE DEF B
  <2>2. Cardinality(B(n + 1)) = Cardinality(B(n)) + 1
    BY <1>1, <2>1, FS_AddElement
  <2> USE DEF B
  <2> QED BY <1>1, <1>2, <2>2 DEF BadAmong
<1>3. CASE entries[n + 1] # Bad
  <2>1. B(n + 1) = B(n)
    BY <1>3
  <2> QED BY <1>1, <1>3, <2>1 DEF BadAmong
<1> QED BY <1>2, <1>3

\* Among readable records none is bad.
LEMMA NoneBad ==
  ASSUME NEW n \in Nat, \A k \in 1 .. n : entries[k] # Bad
  PROVE  BadAmong(n) = 0
<1>1. {k \in 1 .. n : entries[k] = Bad} = {}
  OBVIOUS
<1>2. Cardinality({}) = 0
  BY FS_EmptySet
<1> QED BY <1>1, <1>2 DEF BadAmong

\* A worker of the timer begins, goes on, or ends.
LEMMA BusyChanged ==
  ASSUME TypeOK, IsFiniteSet(Busy), NEW w \in TimerWorkers, NEW h, hand' = [hand EXCEPT ![w] = h]
  PROVE  /\ IsFiniteSet(Busy') /\ Cardinality(Busy) \in Nat /\ Cardinality(Busy') \in Nat
         /\ hand[w] = Free /\ h # Free => Cardinality(Busy') = Cardinality(Busy) + 1
         /\ hand[w] # Free /\ h # Free => Cardinality(Busy') = Cardinality(Busy)
         /\ hand[w] # Free /\ h = Free => Cardinality(Busy') = Cardinality(Busy) - 1
         /\ hand[w] = Free /\ h = Free => Cardinality(Busy') = Cardinality(Busy)
<1>1. \A v \in TimerWorkers : hand'[v] = IF v = w THEN h ELSE hand[v]
  BY DEF TypeOK
<1>2. Busy' = IF h = Free THEN Busy \ {w} ELSE Busy \cup {w}
  BY <1>1 DEF Busy
<1>3. w \in Busy <=> hand[w] # Free
  BY DEF Busy
<1>4. /\ IsFiniteSet(Busy \cup {w}) /\ IsFiniteSet(Busy \ {w})
      /\ Cardinality(Busy \cup {w}) = IF w \in Busy THEN Cardinality(Busy) ELSE Cardinality(Busy) + 1
      /\ Cardinality(Busy \ {w}) = IF w \in Busy THEN Cardinality(Busy) - 1 ELSE Cardinality(Busy)
  BY FS_AddElement, FS_RemoveElement
<1>5. Cardinality(Busy) \in Nat /\ Cardinality(Busy') \in Nat
  BY <1>2, <1>4, FS_CardinalityType
<1> QED BY <1>2, <1>3, <1>4, <1>5

\* Nothing is under way that was not, while the reader stands still.
LEMMA TaskedKept ==
  ASSUME Tasked, entries' = entries, status' = status, pos' = pos,
         IsFiniteSet(Busy'), UnderWay' = UnderWay
  PROVE  Tasked'
<1>1. BadAmong(pos)' = BadAmong(pos)
  BY DEF BadAmong
<1> QED BY <1>1 DEF Tasked, TasksKept, UnderWay

\* Before init reads ahead the worker is not running.
LEMMA TaskedInit == Init => Tasked
<1> SUFFICES ASSUME Init PROVE Tasked
  OBVIOUS
<1>1. Busy = {} /\ status = "start"
  BY DEF Init, InputInit, Busy
<1>2. IsFiniteSet(Busy)
  BY <1>1, FS_EmptySet
<1> QED BY <1>1, <1>2 DEF Tasked, TasksKept

\* init reads ReadDepth records into the batch, or gives up.
LEMMA ReadAheadTasked ==
  ASSUME Inv, Tasked, ReadAhead
  PROVE  Tasked'
<1> DEFINE n == IF Len(entries) < ReadDepth THEN Len(entries) ELSE ReadDepth
<1>0. /\ entries \in Seq(Messages \cup {0}) /\ Len(entries) \in Nat
      /\ n \in 0 .. Len(entries) /\ (n < Len(entries) => n = ReadDepth)
      /\ timer = <<>> /\ \A w \in TimerWorkers : hand[w] = Free
      /\ timer' = timer /\ hand' = hand /\ entries' = entries
  BY Constants DEF Inv, TypeOK, Started, ReadAhead
<1>1. Busy' = {} /\ IsFiniteSet(Busy') /\ Cardinality(Busy') = 0
  <2>1. Busy' = {}
    BY <1>0 DEF Busy
  <2> QED BY <2>1, FS_EmptySet
<1>2. CASE \E k \in 1 .. n : entries[k] = Bad
  <2>1. status' = "exited"
    BY <1>2 DEF ReadAhead
  <2> QED BY <1>1, <2>1 DEF Tasked, TasksKept
<1>3. CASE \A k \in 1 .. n : entries[k] # Bad
  <2>1. pos' = n /\ batch' = FirstEntries(n)
    BY <1>3 DEF ReadAhead
  <2> HIDE DEF n
  <2>2. Len(batch') = n
    BY <1>0, <1>3, <2>1, FirstMessages
  <2>3. BadAmong(n) = 0
    BY <1>0, <1>3, NoneBad
  <2>4. BadAmong(pos)' = 0
    BY <1>0, <2>1, <2>3 DEF BadAmong
  <2>5. Len(timer') = 0
    BY <1>0
  <2> QED BY <1>0, <1>1, <2>1, <2>2, <2>4, <2>5, Constants DEF Tasked, TasksKept
<1> QED BY <1>2, <1>3

\* A task of the batch becomes one of the timer.
LEMMA ScheduleTasked ==
  ASSUME Inv, Tasked, Schedule
  PROVE  Tasked'
<1>1. batch \in Seq(Messages) /\ batch # <<>> /\ batch' = Tail(batch) /\ hand' = hand
  BY DEF Inv, TypeOK, Schedule
<1>2. Head(batch) \in Messages /\ Len(batch') = Len(batch) - 1 /\ Len(batch) \in Nat
  BY <1>1
<1>3. Len(timer') = Len(timer) + 1 /\ Len(timer) \in Nat
  BY <1>2, AddTaskInserts, TimerDomain DEF Inv, Schedule
<1>4. Busy' = Busy /\ Cardinality(Busy) \in Nat
  BY <1>1, FS_CardinalityType DEF Busy, Tasked
<1>5. UnderWay' = UnderWay
  BY <1>2, <1>3, <1>4 DEF UnderWay
<1> QED BY <1>4, <1>5, TaskedKept DEF Schedule, Tasked

\* A task of the timer becomes a busy worker.
LEMMA FireTasked ==
  ASSUME Inv, Tasked, NEW w \in TimerWorkers, Fire(w)
  PROVE  Tasked'
<1>1. timer \in Seq(Tasks) /\ timer # <<>> /\ timer' = Tail(timer) /\ batch' = batch
      /\ Len(batch) \in Nat
  BY TimerDomain DEF Inv, TypeOK, Fire
<1>2. Len(timer') = Len(timer) - 1 /\ Len(timer) \in Nat
  <2> HIDE DEF Tasks
  <2> QED BY <1>1
<1>3. /\ hand[w] = Free /\ hand' = [hand EXCEPT ![w] = Hand("send", Head(timer).msg)]
      /\ Hand("send", Head(timer).msg) # Free
  BY HandEqual DEF Fire, Free
<1>4. IsFiniteSet(Busy') /\ Cardinality(Busy') = Cardinality(Busy) + 1 /\ Cardinality(Busy) \in Nat
  BY <1>3, BusyChanged DEF Inv, Tasked
<1>5. UnderWay' = UnderWay
  BY <1>1, <1>2, <1>4 DEF UnderWay
<1> QED BY <1>4, <1>5, TaskedKept DEF Fire

\* The busy worker goes on to read.
LEMMA DeliverTasked ==
  ASSUME Inv, Tasked, NEW w \in TimerWorkers, Deliver(w)
  PROVE  Tasked'
<1>1. /\ hand[w] # Free /\ hand' = [hand EXCEPT ![w] = Hand("read", NoMessage)]
      /\ Hand("read", NoMessage) # Free
  BY DEF Deliver, Free, Hand
<1>2. IsFiniteSet(Busy') /\ Cardinality(Busy') = Cardinality(Busy)
  BY <1>1, BusyChanged DEF Inv, Tasked
<1>3. UnderWay' = UnderWay
  BY <1>2 DEF Deliver, UnderWay
<1> QED BY <1>2, <1>3, TaskedKept DEF Deliver

\* The worker reads a record and stays busy, unless it is unreadable or the last.
LEMMA ReadNextTasked ==
  ASSUME Inv, Tasked, NEW w \in TimerWorkers, ReadNext(w)
  PROVE  Tasked'
<1>0. /\ pos \in Nat /\ Len(entries) \in Nat /\ pos <= Len(entries)
      /\ entries' = entries /\ status' = status /\ batch' = batch /\ timer' = timer
      /\ Len(batch) \in Nat /\ Len(timer) \in Nat
      /\ hand[w] # Free
  <2>1. entries \in Seq(Messages \cup {0}) /\ pos \in 0 .. Len(entries)
    BY Constants DEF Inv, TypeOK
  <2> QED BY <2>1, TimerDomain DEF Inv, TypeOK, ReadNext, Free, Hand
<1>1. CASE pos = Len(entries)
  <2>1. hand' = [hand EXCEPT ![w] = Free] /\ pos' = pos
    BY <1>1 DEF ReadNext
  <2>2. IsFiniteSet(Busy')
    BY <2>1, BusyChanged DEF Inv, Tasked
  <2> QED BY <1>0, <1>1, <2>1, <2>2 DEF Tasked, TasksKept
<1>2. CASE pos < Len(entries)
  <2>p. pos' = pos + 1
    BY <1>0, <1>2 DEF ReadNext, Skip, Got
  <2>b. /\ BadAmong(pos) \in Nat
        /\ BadAmong(pos)' = BadAmong(pos) + (IF entries[pos + 1] = Bad THEN 1 ELSE 0)
    <3>1. BadAmong(pos)' = BadAmong(pos + 1)
      BY <1>0, <2>p DEF BadAmong
    <3> QED BY <1>0, <3>1, BadNext
  <2>t. TasksKept' <=> (status = "running" /\ pos + 1 < Len(entries) =>
                          Len(batch) + Len(timer) + Cardinality(Busy') = ReadDepth - BadAmong(pos)')
    BY <1>0, <2>p DEF TasksKept
  <2>k. ASSUME IsFiniteSet(Busy'),
               status = "running" /\ pos + 1 < Len(entries) =>
                  Cardinality(Busy') = IF entries[pos + 1] = Bad THEN Cardinality(Busy) - 1
                                                            ELSE Cardinality(Busy),
               Cardinality(Busy) \in Nat
        PROVE  Tasked'
    <3> SUFFICES ASSUME status = "running", pos + 1 < Len(entries)
                 PROVE  Len(batch) + Len(timer) + Cardinality(Busy') = ReadDepth - BadAmong(pos)'
      BY <2>t, <2>k DEF Tasked
    <3>1. Len(batch) + Len(timer) + Cardinality(Busy) = ReadDepth - BadAmong(pos)
      BY <1>2 DEF Tasked, TasksKept
    <3>2. Cardinality(Busy') = IF entries[pos + 1] = Bad THEN Cardinality(Busy) - 1
                                                         ELSE Cardinality(Busy)
      BY <2>k
    <3>3. ReadDepth \in Nat
      BY Constants
    <3> QED BY <1>0, <2>b, <2>k, <3>1, <3>2, <3>3
  <2>1. CASE entries[pos + 1] = Bad
    <3>1. hand' = [hand EXCEPT ![w] = Free]
      BY <1>0, <1>2, <2>1 DEF ReadNext, Skip
    <3>2. IsFiniteSet(Busy') /\ Cardinality(Busy') = Cardinality(Busy) - 1 /\ Cardinality(Busy) \in Nat
      BY <1>0, <3>1, BusyChanged DEF Inv, Tasked
    <3> QED BY <2>1, <2>k, <3>2
  <2>2. CASE entries[pos + 1] # Bad
    <3>1. hand' = [hand EXCEPT ![w] = Hand("add", entries[pos + 1])]
      BY <1>0, <1>2, <2>2 DEF ReadNext, Got
    <3>2. Hand("add", entries[pos + 1]) # Free
      BY HandEqual DEF Free
    <3>3. IsFiniteSet(Busy') /\ Cardinality(Busy') = Cardinality(Busy) /\ Cardinality(Busy) \in Nat
      BY <1>0, <3>1, <3>2, BusyChanged DEF Inv, Tasked
    <3> QED BY <2>2, <2>k, <3>3
  <2> QED BY <2>1, <2>2
<1> QED BY <1>0, <1>1, <1>2

\* The busy worker becomes a task of the timer.
LEMMA AddNextTasked ==
  ASSUME Inv, Tasked, NEW w \in TimerWorkers, AddNext(w)
  PROVE  Tasked'
<1>1. /\ hand[w] # Free /\ hand' = [hand EXCEPT ![w] = Free] /\ hand[w].msg \in Messages
      /\ batch' = batch /\ Len(batch) \in Nat
  BY DEF Inv, TypeOK, AddNext, Free, Hand
<1>2. IsFiniteSet(Busy') /\ Cardinality(Busy') = Cardinality(Busy) - 1 /\ Cardinality(Busy) \in Nat
  BY <1>1, BusyChanged DEF Inv, Tasked
<1>3. Len(timer') = Len(timer) + 1 /\ Len(timer) \in Nat
  BY <1>1, AddTaskInserts, TimerDomain DEF Inv, AddNext
<1>4. UnderWay' = UnderWay
  BY <1>1, <1>2, <1>3 DEF UnderWay
<1> QED BY <1>2, <1>4, TaskedKept DEF AddNext

\* Time changes what the tasks have left and not how many they are.
LEMMA TimeTasked ==
  ASSUME Inv, Tasked, Time
  PROVE  Tasked'
<1>1. /\ batch' = batch /\ hand' = hand
      /\ timer' = [k \in DOMAIN timer |-> IF timer[k].left = 0 THEN timer[k]
                                          ELSE [timer[k] EXCEPT !.left = @ - 1]]
  BY DEF Time, Tick
<1>2. Len(timer') = Len(timer)
  <2>1. DOMAIN timer = 1 .. Len(timer) /\ Len(timer) \in Nat
    BY TimerDomain DEF Inv
  <2>2. timer' \in Seq(Tasks)
    BY TickInv, TimerDomain DEF Time, Inv, TypeOK, Tasks
  <2>3. DOMAIN timer' = 1 .. Len(timer)
    BY <1>1, <2>1
  <2> HIDE DEF Tasks
  <2> QED BY <2>1, <2>2, <2>3
<1>3. Busy' = Busy
  BY <1>1 DEF Busy
<1>4. UnderWay' = UnderWay
  BY <1>1, <1>2, <1>3 DEF UnderWay
<1> QED BY <1>3, <1>4, TaskedKept DEF Time, Tick, Tasked

\* A step of the emitter or of a gRPC worker.
LEMMA TaskedUnchanged ==
  ASSUME Tasked, UNCHANGED <<entries, status, pos, batch, timer, hand>>
  PROVE  Tasked'
<1>1. Busy' = Busy
  BY DEF Busy
<1> QED BY <1>1, TaskedKept DEF Tasked, UnderWay

\* Every step.
LEMMA TaskedNext == Inv /\ Tasked /\ [Next]_vars => Tasked'
<1> SUFFICES ASSUME Inv, Tasked, [Next]_vars
             PROVE  Tasked'
  OBVIOUS
<1>1. CASE FileInput
  BY <1>1, ReadAheadTasked, ScheduleTasked DEF FileInput
<1>2. ASSUME NEW w \in TimerWorkers, Timer(w)
      PROVE  Tasked'
  BY <1>2, FireTasked, DeliverTasked, ReadNextTasked, AddNextTasked DEF Timer, Callback
<1>3. CASE CopyMulty
  BY <1>3, TaskedUnchanged DEF CopyMulty, ReadMsg, inputVars
<1>4. ASSUME NEW w \in Workers, Work(w)
      PROVE  Tasked'
  BY <1>4, TaskedUnchanged DEF Work, inputVars
<1>5. CASE Time
  BY <1>5, TimeTasked
<1>6. CASE UNCHANGED vars
  BY <1>6, TaskedUnchanged DEF vars, inputVars
<1> QED BY <1>1, <1>2, <1>3, <1>4, <1>5, <1>6 DEF Next

\* While there is something to read, ReadDepth tasks are under way, less one for
\* every record that could not be read: the chain of tasks never breaks and never
\* forks, however many callbacks run at a time.
THEOREM ChainKept == Spec => []TasksKept
<1>1. Tasked => TasksKept
  BY DEF Tasked
<1> QED BY <1>1, InvInit, InvNext, TaskedInit, TaskedNext, PTL DEF Spec

-----------------------------------------------------------------------------
(* The order: the invariant.                                               *)

\* The messages of the recording.
Listed == {x \in Messages : \E k \in 1 .. Len(entries) : entries[k] = x}

\* OrderKept is about these pairs of messages.
Before(a, b) == /\ Offset(a) < Offset(b)
                /\ IndexOf(a) < IndexOf(b) \/ IndexOf(a) <= ReadDepth

\* Where a message may be on its way.
InBatch(x) == \E j \in DOMAIN batch : batch[j] = x
InTimer(x) == \E j \in DOMAIN timer : timer[j].msg = x
Handed(x, do) == \E w \in TimerWorkers : hand[w] = Hand(do, x)
Delivered(x) == \E j \in DOMAIN delivered : delivered[j] = x

\* A message on its way was read.
ReadInv ==
    /\ status = "running" => \A k \in 1 .. Len(entries) : k <= ReadDepth => k <= pos
    /\ delivered \in Seq(Messages)
    /\ \A x \in Messages :
          InBatch(x) \/ InTimer(x) \/ Handed(x, "send") \/ Handed(x, "add") \/ Delivered(x)
          => \E k \in 1 .. pos : entries[k] = x

\* The task that is due first is first, and none has more left than it was
\* given.
TimerInv == /\ \A j, k \in DOMAIN timer : j < k => timer[j].left <= timer[k].left
            /\ \A j \in DOMAIN timer : timer[j].left <= Offset(timer[j].msg)

\* While b's task is in the timer it has more left than a's, or than a's is
\* going to get, and is not due before a is delivered.
Later(a, b) == \A k \in DOMAIN timer : timer[k].msg = b =>
    /\ \A j \in DOMAIN timer : timer[j].msg = a => timer[j].left < timer[k].left
    /\ InBatch(a) \/ Handed(a, "add") => Offset(a) < timer[k].left
    /\ Handed(a, "send") => 0 < timer[k].left

\* When b is due nothing is left to be done for a.
Gone(a) == ~ InBatch(a) /\ ~ InTimer(a) /\ ~ Handed(a, "send") /\ ~ Handed(a, "add")

\* Every pair of messages is told apart by one of the three.
PairInv == prompt => \A a, b \in Listed : Before(a, b) =>
    /\ Later(a, b)
    /\ Handed(b, "send") \/ Delivered(b) => Gone(a)
    /\ \A j, k \in DOMAIN delivered : delivered[j] = a /\ delivered[k] = b => j < k

\* What a replay keeps of the order of its messages.
OrderInv == ReadInv /\ TimerInv /\ PairInv

-----------------------------------------------------------------------------
(* The operators.                                                          *)

\* Some task of x has l ticks left.
Left(x, l) == \E j \in DOMAIN timer : timer[j].msg = x /\ timer[j].left = l

\* Later in terms of the ticks that are left.
LEMMA LaterLeft ==
  ASSUME NEW a, NEW b
  PROVE  /\ Later(a, b) <=> \A l : Left(b, l) =>
              /\ \A k : Left(a, k) => k < l
              /\ InBatch(a) \/ Handed(a, "add") => Offset(a) < l
              /\ Handed(a, "send") => 0 < l
         /\ InTimer(a) <=> \E l : Left(a, l)
  BY DEF Later, Left, InTimer

\* A message is found at its place in the recording.
LEMMA IndexOfEntry ==
  ASSUME TypeOK, NEW k \in 1 .. Len(entries), entries[k] # Bad
  PROVE  IndexOf(entries[k]) = k
<1>1. entries \in Seq(Messages \cup {0}) /\ entries \in Recordings
  BY Constants DEF TypeOK
<1>2. \A i, j \in 1 .. Len(entries) : i # j /\ entries[i] # Bad => entries[i] # entries[j]
  BY <1>1, InputAssumption DEF InputAssumption
<1>3. DOMAIN entries = 1 .. Len(entries)
  BY <1>1
<1>4. \A i \in DOMAIN entries : entries[i] = entries[k] <=> i = k
  BY <1>2, <1>3
<1> QED BY <1>3, <1>4 DEF IndexOf

\* What AddTask(m) makes of the timer, in the terms of the invariant.
LEMMA AddTaskLeft ==
  ASSUME TypeOK, TimerInv, benchmark' = benchmark, NEW m \in Messages, AddTask(m)
  PROVE  /\ TimerInv'
         /\ \A x, l : Left(x, l)' => Left(x, l) \/ (x = m /\ l = Offset(m))
<1> DEFINE n == Len(timer)
<1>1. /\ n \in Nat /\ DOMAIN timer = 1 .. n /\ DOMAIN timer' = 1 .. n + 1
      /\ Offset(m) \in Nat
      /\ \A j \in 1 .. n : timer[j].left \in Nat
  <2>1. /\ timer \in Seq(Tasks) /\ timer' \in Seq(Tasks) /\ Len(timer') = n + 1
        /\ Offset(m) \in Nat
    BY TimerDomain, AddTaskInserts, OffsetType DEF TypeOK
  <2>2. n \in Nat /\ DOMAIN timer = 1 .. n /\ DOMAIN timer' = 1 .. n + 1
    <3> HIDE DEF Tasks
    <3> QED BY <2>1
  <2> QED BY <2>1, <2>2, TimerDomain
<1>2. PICK i \in 1 .. n + 1 :
              /\ \A j \in 1 .. n + 1 :
                    timer'[j] = IF j < i THEN timer[j]
                                ELSE IF j = i THEN Task(m, Offset(m)) ELSE timer[j - 1]
              /\ \A j \in 1 .. i - 1 : timer[j].left <= Offset(m)
              /\ \A j \in i .. n : timer[j].left >= Offset(m)
  BY AddTaskInserts
<1> HIDE DEF n
<1>3. Task(m, Offset(m)).msg = m /\ Task(m, Offset(m)).left = Offset(m)
  BY DEF Task
<1>4. /\ \A j, k \in 1 .. n : j < k => timer[j].left <= timer[k].left
      /\ \A j \in 1 .. n : timer[j].left <= Offset(timer[j].msg)
  BY <1>1 DEF TimerInv
<1>5. ASSUME NEW j \in 1 .. n + 1
      PROVE  \/ j < i /\ j \in 1 .. n /\ j \in 1 .. i - 1 /\ timer'[j] = timer[j]
             \/ j = i /\ timer'[j] = Task(m, Offset(m))
             \/ j > i /\ j - 1 \in 1 .. n /\ j - 1 \in i .. n /\ timer'[j] = timer[j - 1]
  BY <1>1, <1>2
<1>6. \A j, k \in 1 .. n + 1 : j < k => timer'[j].left <= timer'[k].left
  <2> SUFFICES ASSUME NEW j \in 1 .. n + 1, NEW k \in 1 .. n + 1, j < k
               PROVE  timer'[j].left <= timer'[k].left
    OBVIOUS
  <2>1. CASE j < i
    <3>1. j \in 1 .. n /\ j \in 1 .. i - 1 /\ timer'[j] = timer[j]
      BY <1>1, <1>2, <1>5, <2>1
    <3>2. CASE k < i
      BY <1>1, <1>2, <1>4, <1>5, <3>1, <3>2
    <3>3. CASE k = i
      BY <1>1, <1>2, <1>3, <1>5, <3>1, <3>3
    <3>4. CASE k > i
      <4>1. k - 1 \in 1 .. n /\ j < k - 1 /\ timer'[k] = timer[k - 1]
        BY <1>1, <1>2, <1>5, <2>1, <3>4
      <4> QED BY <3>1, <4>1, <1>4
    <3> QED BY <1>1, <1>2, <3>2, <3>3, <3>4
  <2>2. CASE j = i
    <3>1. k - 1 \in i .. n /\ timer'[k] = timer[k - 1]
      BY <1>1, <1>2, <1>5, <2>2
    <3>2. timer'[j].left = Offset(m)
      BY <1>2, <1>3, <2>2
    <3> QED BY <1>2, <3>1, <3>2
  <2>3. CASE j > i
    <3>1. /\ j - 1 \in 1 .. n /\ timer'[j] = timer[j - 1]
          /\ k - 1 \in 1 .. n /\ timer'[k] = timer[k - 1]
          /\ j - 1 < k - 1
      BY <1>1, <1>2, <1>5, <2>3
    <3> QED BY <3>1, <1>4
  <2> QED BY <1>1, <1>2, <2>1, <2>2, <2>3
<1>7. ASSUME NEW j \in 1 .. n + 1
      PROVE  \/ \E k \in 1 .. n : timer'[j] = timer[k]
             \/ timer'[j] = Task(m, Offset(m))
  <2>1. CASE j \in 1 .. n /\ timer'[j] = timer[j]
    BY <2>1
  <2>2. CASE timer'[j] = Task(m, Offset(m))
    BY <2>2
  <2>3. CASE j - 1 \in 1 .. n /\ timer'[j] = timer[j - 1]
    BY <2>3
  <2> QED BY <1>5, <2>1, <2>2, <2>3
<1>8. \A x : Offset(x)' = Offset(x)
  BY DEF Offset
<1>9. \A j \in 1 .. n + 1 : timer'[j].left <= Offset(timer[j].msg)'
  BY <1>1, <1>3, <1>4, <1>7, <1>8
<1>10. TimerInv'
  BY <1>1, <1>6, <1>9 DEF TimerInv
<1>11. ASSUME NEW x, NEW l, Left(x, l)'
       PROVE  Left(x, l) \/ (x = m /\ l = Offset(m))
  <2>1. PICK j \in 1 .. n + 1 : timer'[j].msg = x /\ timer'[j].left = l
    BY <1>1, <1>11 DEF Left
  <2>2. CASE \E k \in 1 .. n : timer'[j] = timer[k]
    BY <1>1, <2>1, <2>2 DEF Left
  <2>3. CASE timer'[j] = Task(m, Offset(m))
    BY <1>3, <2>1, <2>3
  <2> QED BY <1>7, <2>2, <2>3
<1> QED BY <1>10, <1>11

-----------------------------------------------------------------------------
(* The steps, for the order.                                               *)

\* What the order does not depend on is left alone.
Fixed == UNCHANGED <<entries, benchmark, prompt>>

\* What it leaves alone with them.
LEMMA FixedOps ==
  ASSUME Fixed
  PROVE  /\ Listed' = Listed
         /\ \A a, b : Before(a, b)' <=> Before(a, b)
         /\ \A x : Offset(x)' = Offset(x)
<1>1. \A x : Offset(x)' = Offset(x) /\ IndexOf(x)' = IndexOf(x)
  BY DEF Fixed, Offset, IndexOf
<1>2. Listed' = Listed
  BY DEF Fixed, Listed
<1> QED BY <1>1, <1>2 DEF Before

\* To preserve PairInv it is enough to look at one pair.
Pair(a, b) == /\ Later(a, b)
              /\ Handed(b, "send") \/ Delivered(b) => Gone(a)
              /\ \A j, k \in DOMAIN delivered : delivered[j] = a /\ delivered[k] = b => j < k

\* Offsets of two messages, the first before the second.
LEMMA BeforeOffsets ==
  ASSUME TypeOK, NEW a \in Listed, NEW b \in Listed, Before(a, b)
  PROVE  /\ Offset(a) \in Nat /\ Offset(b) \in Nat /\ Offset(a) < Offset(b)
         /\ a # b /\ a \in Messages /\ b \in Messages
  BY OffsetType DEF TypeOK, Before, Listed

\* A message is taken out of the batch, or a worker's hand, and put into the
\* timer.
LEMMA PutInPair ==
  ASSUME TypeOK, TimerInv, Fixed, delivered' = delivered,
         NEW m \in Messages, InBatch(m) \/ Handed(m, "add"),
         \A x : InBatch(x)' => InBatch(x),
         \A x : Handed(x, "add")' => Handed(x, "add"),
         \A x : Handed(x, "send")' => Handed(x, "send"),
         \A x, l : Left(x, l)' => Left(x, l) \/ (x = m /\ l = Offset(m)),
         NEW a \in Listed, NEW b \in Listed, Before(a, b), Pair(a, b)
  PROVE  Pair(a, b)'
<1>1. /\ Offset(a) \in Nat /\ Offset(b) \in Nat /\ Offset(a) < Offset(b) /\ a # b
  BY BeforeOffsets
<1>2. \A k : Left(a, k) => k \in Nat /\ k <= Offset(a)
  BY TimerDomain DEF Left, TimerInv
<1>3. \A l : Left(b, l) =>
              /\ \A k : Left(a, k) => k < l
              /\ InBatch(a) \/ Handed(a, "add") => Offset(a) < l
              /\ Handed(a, "send") => 0 < l
  BY LaterLeft DEF Pair
<1>4. Offset(a)' = Offset(a) /\ Offset(b)' = Offset(b)
  BY FixedOps
<1>5. ASSUME NEW l, Left(b, l)'
      PROVE  /\ \A k : Left(a, k)' => k < l
             /\ (InBatch(a) \/ Handed(a, "add"))' => Offset(a) < l
             /\ Handed(a, "send")' => 0 < l
  <2>1. CASE Left(b, l)
    <3>1. \A k : Left(a, k)' => k < l
      BY <1>3, <2>1
    <3> QED BY <3>1, <1>3, <2>1
  <2>2. CASE b = m /\ l = Offset(b)
    <3>1. \A k : Left(a, k)' => Left(a, k)
      BY <1>1, <2>2
    <3>2. \A k : Left(a, k) => k < l
      BY <1>1, <1>2, <2>2
    <3> QED BY <3>1, <3>2, <1>1, <2>2
  <2> QED BY <1>5, <2>1, <2>2
<1>6. Later(a, b)'
  <2>1. Later(a, b)' <=> \A l : Left(b, l)' =>
              /\ \A k : Left(a, k)' => k < l
              /\ (InBatch(a) \/ Handed(a, "add"))' => Offset(a)' < l
              /\ Handed(a, "send")' => 0 < l
    BY DEF Later, Left
  <2> QED BY <2>1, <1>4, <1>5
<1>7. (Handed(b, "send") \/ Delivered(b))' => Gone(a)'
  <2>1. Delivered(b)' <=> Delivered(b)
    BY DEF Delivered
  <2>2. Gone(a) => a # m
    BY DEF Gone
  <2>3. InTimer(a)' <=> \E l : Left(a, l)'
    BY DEF InTimer, Left
  <2>4. InTimer(a) <=> \E l : Left(a, l)
    BY LaterLeft
  <2>5. Gone(a) => Gone(a)'
    BY <2>2, <2>3, <2>4 DEF Gone
  <2> QED BY <2>1, <2>5 DEF Pair
<1> QED BY <1>6, <1>7 DEF Pair

\* A task is due and taken out of the timer.
LEMMA FirePair ==
  ASSUME TypeOK, Fixed, delivered' = delivered,
         NEW m, Left(m, 0),
         \A x : InBatch(x)' => InBatch(x),
         \A x : Handed(x, "add")' => Handed(x, "add"),
         \A x : Handed(x, "send")' => Handed(x, "send") \/ x = m,
         \A x, l : Left(x, l)' => Left(x, l),
         NEW a \in Listed, NEW b \in Listed, Before(a, b), Pair(a, b)
  PROVE  Pair(a, b)'
<1>1. /\ Offset(a) \in Nat /\ Offset(b) \in Nat /\ Offset(a) < Offset(b) /\ a # b
  BY BeforeOffsets
<1>2. \A k : Left(a, k) => k \in Nat
  BY TimerDomain DEF Left
<1>3. \A l : Left(b, l) =>
              /\ \A k : Left(a, k) => k < l
              /\ InBatch(a) \/ Handed(a, "add") => Offset(a) < l
              /\ Handed(a, "send") => 0 < l
  BY LaterLeft DEF Pair
<1>4. Offset(a)' = Offset(a)
  BY FixedOps
<1>5. \A l : Left(b, l)' =>
             /\ \A k : Left(a, k)' => k < l
             /\ (InBatch(a) \/ Handed(a, "add"))' => Offset(a) < l
             /\ Handed(a, "send")' => 0 < l
  BY <1>3
<1>6. Later(a, b)'
  <2>1. Later(a, b)' <=> \A l : Left(b, l)' =>
              /\ \A k : Left(a, k)' => k < l
              /\ (InBatch(a) \/ Handed(a, "add"))' => Offset(a)' < l
              /\ Handed(a, "send")' => 0 < l
    BY DEF Later, Left
  <2> QED BY <2>1, <1>4, <1>5
<1>7. (Handed(b, "send") \/ Delivered(b))' => Gone(a)'
  <2>1. Delivered(b)' <=> Delivered(b)
    BY DEF Delivered
  <2>3. InTimer(a)' <=> \E l : Left(a, l)'
    BY DEF InTimer, Left
  <2>4. InTimer(a) <=> \E l : Left(a, l)
    BY LaterLeft
  <2>5. Gone(a) => a # m
    BY <2>4 DEF Gone
  <2>6. Gone(a) => Gone(a)'
    BY <2>3, <2>4, <2>5 DEF Gone
  <2>7. ASSUME b = m PROVE Gone(a)
    <3>1. ~ InTimer(a)
      BY <1>2, <1>3, <2>4, <2>7
    <3>2. ~ InBatch(a) /\ ~ Handed(a, "add") /\ ~ Handed(a, "send")
      BY <1>1, <1>3, <2>7
    <3> QED BY <3>1, <3>2 DEF Gone
  <2> QED BY <2>1, <2>6, <2>7 DEF Pair
<1> QED BY <1>6, <1>7 DEF Pair

\* A message is delivered.
LEMMA DeliverPair ==
  ASSUME TypeOK, Fixed, delivered \in Seq(Messages),
         NEW m \in Messages, Handed(m, "send"), delivered' = Append(delivered, m),
         \A x : InBatch(x)' => InBatch(x),
         \A x : Handed(x, "add")' => Handed(x, "add"),
         \A x : Handed(x, "send")' => Handed(x, "send"),
         \A x, l : Left(x, l)' => Left(x, l),
         NEW a \in Listed, NEW b \in Listed, Before(a, b), Pair(a, b)
  PROVE  Pair(a, b)'
<1>3. \A l : Left(b, l) =>
              /\ \A k : Left(a, k) => k < l
              /\ InBatch(a) \/ Handed(a, "add") => Offset(a) < l
              /\ Handed(a, "send") => 0 < l
  BY LaterLeft DEF Pair
<1>4. Offset(a)' = Offset(a) /\ a # b
  BY FixedOps, BeforeOffsets
<1>6. Later(a, b)'
  <2>1. Later(a, b)' <=> \A l : Left(b, l)' =>
              /\ \A k : Left(a, k)' => k < l
              /\ (InBatch(a) \/ Handed(a, "add"))' => Offset(a)' < l
              /\ Handed(a, "send")' => 0 < l
    BY DEF Later, Left
  <2> QED BY <2>1, <1>3, <1>4
<1>5. /\ DOMAIN delivered = 1 .. Len(delivered) /\ Len(delivered) \in Nat
      /\ DOMAIN delivered' = 1 .. Len(delivered) + 1
      /\ \A j \in 1 .. Len(delivered) : delivered'[j] = delivered[j]
      /\ delivered'[Len(delivered) + 1] = m
  OBVIOUS
<1>7. (Handed(b, "send") \/ Delivered(b))' => Gone(a)'
  <2>1. Delivered(b)' => Delivered(b) \/ b = m
    BY <1>5 DEF Delivered
  <2>3. InTimer(a)' <=> \E l : Left(a, l)'
    BY DEF InTimer, Left
  <2>4. InTimer(a) <=> \E l : Left(a, l)
    BY LaterLeft
  <2>6. Gone(a) => Gone(a)'
    BY <2>3, <2>4 DEF Gone
  <2> QED BY <2>1, <2>6 DEF Pair
<1>8. ASSUME NEW j \in DOMAIN delivered', NEW k \in DOMAIN delivered',
             delivered'[j] = a, delivered'[k] = b
      PROVE  j < k
  <2>1. CASE j \in 1 .. Len(delivered) /\ k \in 1 .. Len(delivered)
    BY <1>5, <1>8, <2>1 DEF Pair
  <2>2. CASE j = Len(delivered) + 1 /\ k \in 1 .. Len(delivered)
    <3>1. a = m /\ delivered[k] = b
      BY <1>5, <1>8, <2>2
    <3>2. Delivered(b)
      BY <1>5, <2>2, <3>1 DEF Delivered
    <3> QED BY <3>1, <3>2 DEF Pair, Gone
  <2>3. CASE k = Len(delivered) + 1
    BY <1>4, <1>5, <1>8, <2>3
  <2> QED BY <1>5, <1>8, <2>1, <2>2, <2>3
<1> QED BY <1>6, <1>7, <1>8 DEF Pair

\* A record is read, and its message is not before any that was read earlier.
LEMMA ReadPair ==
  ASSUME TypeOK, ReadInv, status = "running", Fixed, delivered' = delivered,
         pos < Len(entries), entries[pos + 1] # Bad,
         \A x : InBatch(x)' => InBatch(x),
         \A x : Handed(x, "add")' => Handed(x, "add") \/ x = entries[pos + 1],
         \A x : Handed(x, "send")' => Handed(x, "send"),
         \A x, l : Left(x, l)' => Left(x, l),
         NEW a \in Listed, NEW b \in Listed, Before(a, b), Pair(a, b)
  PROVE  Pair(a, b)'
<1>0. /\ entries \in Seq(Messages \cup {0}) /\ Len(entries) \in Nat /\ pos \in Nat
      /\ pos + 1 \in 1 .. Len(entries)
      /\ a # b /\ a \in Messages /\ b \in Messages
  BY Constants, BeforeOffsets DEF TypeOK
<1>1. ASSUME a = entries[pos + 1]
      PROVE  ~ InTimer(b) /\ ~ Handed(b, "send") /\ ~ Delivered(b)
  <2>1. SUFFICES ASSUME NEW k \in 1 .. pos, entries[k] = b PROVE FALSE
    BY <1>0 DEF ReadInv
  <2>2. IndexOf(a) = pos + 1
    BY <1>0, <1>1, IndexOfEntry
  <2>3. IndexOf(b) = k
    <3>1. k \in 1 .. Len(entries) /\ entries[k] # Bad
      BY <1>0, <2>1, Constants
    <3> QED BY <3>1, <2>1, IndexOfEntry
  <2>4. pos + 1 <= ReadDepth
    BY <1>0, <2>2, <2>3, Constants DEF Before
  <2> QED BY <1>0, <2>4 DEF ReadInv
<1>3. \A l : Left(b, l) =>
              /\ \A k : Left(a, k) => k < l
              /\ InBatch(a) \/ Handed(a, "add") => Offset(a) < l
              /\ Handed(a, "send") => 0 < l
  BY LaterLeft DEF Pair
<1>4. Offset(a)' = Offset(a)
  BY FixedOps
<1>t. /\ InTimer(a) <=> \E l : Left(a, l)
      /\ InTimer(b) <=> \E l : Left(b, l)
      /\ InTimer(a)' <=> \E l : Left(a, l)'
  BY DEF InTimer, Left
<1>6. Later(a, b)'
  <2>1. Later(a, b)' <=> \A l : Left(b, l)' =>
              /\ \A k : Left(a, k)' => k < l
              /\ (InBatch(a) \/ Handed(a, "add"))' => Offset(a)' < l
              /\ Handed(a, "send")' => 0 < l
    BY DEF Later, Left
  <2> QED BY <2>1, <1>1, <1>3, <1>4, <1>t
<1>7. (Handed(b, "send") \/ Delivered(b))' => Gone(a)'
  <2>1. Delivered(b)' <=> Delivered(b)
    BY DEF Delivered
  <2>2. ASSUME Handed(b, "send") \/ Delivered(b), Gone(a) PROVE Gone(a)'
    BY <1>1, <1>t, <2>2 DEF Gone
  <2> QED BY <2>1, <2>2 DEF Pair
<1> QED BY <1>6, <1>7 DEF Pair

\* Time passes.
LEMMA TickPair ==
  ASSUME TypeOK, Fixed, delivered' = delivered,
         \A x : ~ InBatch(x)' /\ ~ Handed(x, "add")' /\ ~ Handed(x, "send")',
         \A x, l : Left(x, l)' => l + 1 \in Nat /\ l \in Nat /\ Left(x, l + 1),
         NEW a \in Listed, NEW b \in Listed, Before(a, b), Pair(a, b)
  PROVE  Pair(a, b)'
<1>3. \A l : Left(b, l) => \A k : Left(a, k) => k < l
  BY LaterLeft DEF Pair
<1>6. Later(a, b)'
  <2>1. Later(a, b)' <=> \A l : Left(b, l)' =>
              /\ \A k : Left(a, k)' => k < l
              /\ (InBatch(a) \/ Handed(a, "add"))' => Offset(a)' < l
              /\ Handed(a, "send")' => 0 < l
    BY DEF Later, Left
  <2>2. ASSUME NEW l, NEW k, Left(b, l)', Left(a, k)' PROVE k < l
    <3>1. /\ k \in Nat /\ l \in Nat /\ Left(b, l + 1) /\ Left(a, k + 1)
      BY <2>2
    <3>2. k + 1 < l + 1
      BY <3>1, <1>3
    <3> QED BY <3>1, <3>2
  <2> QED BY <2>1, <2>2
<1>7. (Handed(b, "send") \/ Delivered(b))' => Gone(a)'
  <2>1. Delivered(b)' <=> Delivered(b)
    BY DEF Delivered
  <2>2. InTimer(a)' => InTimer(a)
    BY DEF InTimer, Left
  <2> QED BY <2>1, <2>2 DEF Pair, Gone
<1> QED BY <1>6, <1>7 DEF Pair

-----------------------------------------------------------------------------
(* The actions, for the order.                                             *)

\* What a worker of the timer has in its hand changes.
LEMMA HandChanged ==
  ASSUME TypeOK, NEW w \in TimerWorkers, NEW d, NEW m,
         hand' = [hand EXCEPT ![w] = Hand(d, m)]
  PROVE  \A x, do : Handed(x, do)' => Handed(x, do) \/ (do = d /\ x = m)
<1> SUFFICES ASSUME NEW x, NEW do, NEW v \in TimerWorkers, hand'[v] = Hand(do, x), ~ Handed(x, do)
             PROVE  do = d /\ x = m
  BY DEF Handed
<1>1. v = w
  BY DEF TypeOK, Handed
<1>2. Hand(do, x) = Hand(d, m)
  BY <1>1 DEF TypeOK
<1> QED BY <1>2, HandEqual, Zenon

\* A worker's hand becomes free.
LEMMA HandFreed ==
  ASSUME TypeOK, NEW w \in TimerWorkers, hand' = [hand EXCEPT ![w] = Free]
  PROVE  \A x, do : Handed(x, do)' => Handed(x, do) \/ do = "wait"
  BY HandChanged DEF Free

\* All messages that are on their way.
OnItsWay(x) == InBatch(x) \/ InTimer(x) \/ Handed(x, "send") \/ Handed(x, "add") \/ Delivered(x)

\* What is on its way was before, or is the record read.
LEMMA ReadInvKept ==
  ASSUME TypeOK, ReadInv, entries' = entries, status' = status, pos' \in Nat, pos <= pos',
         delivered' \in Seq(Messages),
         \A x \in Messages : OnItsWay(x)' => OnItsWay(x) \/ \E k \in 1 .. pos' : entries[k] = x
  PROVE  ReadInv'
<1>1. pos \in Nat /\ pos' \in Nat
  BY DEF TypeOK
<1>2. \A x \in Messages : OnItsWay(x)' => \E k \in 1 .. pos' : entries'[k] = x
  <2> SUFFICES ASSUME NEW x \in Messages, OnItsWay(x) PROVE \E k \in 1 .. pos' : entries[k] = x
    OBVIOUS
  <2>1. \E k \in 1 .. pos : entries[k] = x
    BY DEF ReadInv, OnItsWay
  <2> QED BY <1>1, <2>1
<1>3. status' = "running" => \A k \in 1 .. Len(entries') : k <= ReadDepth => k <= pos'
  <2> SUFFICES ASSUME status = "running", NEW k \in 1 .. Len(entries), k <= ReadDepth
               PROVE  k <= pos'
    OBVIOUS
  <2>1. k \in Int /\ k <= pos
    BY DEF ReadInv
  <2> QED BY <1>1, <2>1
<1> QED BY <1>2, <1>3 DEF ReadInv, OnItsWay

\* PairInv, pair by pair.
LEMMA PairInvPairs == PairInv <=> (prompt => \A a, b \in Listed : Before(a, b) => Pair(a, b))
  BY DEF PairInv, Pair

\* PairInv is kept when it is kept pair by pair.
LEMMA PairInvKept ==
  ASSUME Fixed, PairInv,
         prompt => \A a, b \in Listed : Before(a, b) /\ Pair(a, b) => Pair(a, b)'
  PROVE  PairInv'
<1>1. PairInv' <=> (prompt' => \A a, b \in Listed' : Before(a, b)' => Pair(a, b)')
  BY DEF PairInv, Pair
<1>2. prompt' = prompt
  BY DEF Fixed
<1> QED BY <1>1, <1>2, FixedOps, PairInvPairs

\* init puts the first message of the batch into the timer.
LEMMA ScheduleOrder ==
  ASSUME Inv, OrderInv, Schedule, UNCHANGED <<emitterVars, grpcVars, prompt>>
  PROVE  OrderInv'
<1> DEFINE m == Head(batch)
<1>0. TypeOK /\ TimerInv /\ PairInv /\ ReadInv /\ Fixed /\ delivered' = delivered
      /\ hand' = hand /\ status' = status /\ pos' = pos /\ pos \in Nat
      /\ benchmark' = benchmark
  BY DEF Inv, OrderInv, Schedule, Fixed, TypeOK
<1>1. m \in Messages /\ InBatch(m) /\ \A x : InBatch(x)' => InBatch(x)
  <2>1. batch \in Seq(Messages) /\ batch # <<>> /\ batch' = Tail(batch)
    BY <1>0 DEF Schedule, TypeOK
  <2>2. /\ Len(batch) \in Nat /\ 1 \in DOMAIN batch /\ m = batch[1]
        /\ \A j \in DOMAIN Tail(batch) : j + 1 \in DOMAIN batch /\ Tail(batch)[j] = batch[j + 1]
    BY <2>1
  <2>3. m \in Messages
    BY <2>1
  <2> HIDE DEF m
  <2> QED BY <2>1, <2>2, <2>3 DEF InBatch
<1>2. AddTask(m)
  BY DEF Schedule
<1> HIDE DEF m
<1>3. TimerInv' /\ \A x, l : Left(x, l)' => Left(x, l) \/ (x = m /\ l = Offset(m))
  BY <1>0, <1>1, <1>2, AddTaskLeft
<1>4. \A x, do : Handed(x, do)' <=> Handed(x, do)
  BY <1>0 DEF Handed
<1>5. \A a, b \in Listed : Before(a, b) /\ Pair(a, b) => Pair(a, b)'
  BY <1>0, <1>1, <1>3, <1>4, PutInPair
<1>6. ReadInv'
  <2>1. \A x : InTimer(x)' => InTimer(x) \/ InBatch(x)
    BY <1>1, <1>3 DEF InTimer, Left
  <2>2. \A x : Delivered(x)' => Delivered(x)
    BY <1>0 DEF Delivered
  <2>3. \A x : OnItsWay(x)' => OnItsWay(x)
    BY <1>1, <1>4, <2>1, <2>2 DEF OnItsWay
  <2> QED BY <1>0, <2>3, ReadInvKept DEF Fixed, ReadInv
<1> QED BY <1>0, <1>3, <1>5, <1>6, PairInvKept DEF OrderInv

\* A callback puts the message it has read into the timer.
LEMMA AddNextOrder ==
  ASSUME Inv, OrderInv, NEW w \in TimerWorkers, AddNext(w),
         UNCHANGED <<emitterVars, grpcVars, prompt>>
  PROVE  OrderInv'
<1> DEFINE m == hand[w].msg
<1>0. TypeOK /\ TimerInv /\ PairInv /\ ReadInv /\ Fixed /\ delivered' = delivered
      /\ batch' = batch /\ status' = status /\ pos' = pos /\ pos \in Nat
      /\ benchmark' = benchmark
  BY DEF Inv, OrderInv, AddNext, Fixed, TypeOK
<1>1. m \in Messages /\ Handed(m, "add")
  <2>1. hand[w].do = "add" /\ hand[w] \in [do : {"wait", "read"}, msg : {NoMessage}]
                                 \cup [do : {"send", "add"}, msg : Messages]
    BY <1>0 DEF AddNext, TypeOK
  <2>2. hand[w] = Hand("add", m) /\ m \in Messages
    BY <2>1 DEF Hand
  <2> QED BY <2>2 DEF Handed
<1>2. AddTask(m) /\ hand' = [hand EXCEPT ![w] = Free]
  BY DEF AddNext
<1> HIDE DEF m
<1>3. TimerInv' /\ \A x, l : Left(x, l)' => Left(x, l) \/ (x = m /\ l = Offset(m))
  BY <1>0, <1>1, <1>2, AddTaskLeft
<1>4. \A x : (Handed(x, "add")' => Handed(x, "add")) /\ (Handed(x, "send")' => Handed(x, "send"))
  <2>1. \A x, do : Handed(x, do)' => Handed(x, do) \/ do = "wait"
    BY <1>0, <1>2, HandFreed
  <2> QED BY <2>1
<1>t. \A x : InBatch(x)' => InBatch(x)
  BY <1>0 DEF InBatch
<1>5. \A a, b \in Listed : Before(a, b) /\ Pair(a, b) => Pair(a, b)'
  BY <1>0, <1>1, <1>3, <1>4, <1>t, PutInPair
<1>6. ReadInv'
  <2>1. \A x : InTimer(x)' => InTimer(x) \/ Handed(x, "add")
    BY <1>1, <1>3 DEF InTimer, Left
  <2>2. \A x : Delivered(x)' => Delivered(x)
    BY <1>0 DEF Delivered
  <2>3. \A x : OnItsWay(x)' => OnItsWay(x)
    BY <1>4, <1>t, <2>1, <2>2 DEF OnItsWay
  <2> QED BY <1>0, <2>3, ReadInvKept DEF Fixed, ReadInv
<1> QED BY <1>0, <1>3, <1>5, <1>6, PairInvKept DEF OrderInv

\* A worker takes the first task, which is due.
LEMMA FireOrder ==
  ASSUME Inv, OrderInv, NEW w \in TimerWorkers, Fire(w),
         UNCHANGED <<emitterVars, grpcVars, prompt>>
  PROVE  OrderInv'
<1>m. PICK m : m = Head(timer).msg
  OBVIOUS
<1>0. TypeOK /\ TimerInv /\ PairInv /\ ReadInv /\ Fixed /\ delivered' = delivered
      /\ batch' = batch /\ status' = status /\ pos' = pos /\ pos \in Nat
      /\ benchmark' = benchmark
  BY DEF Inv, OrderInv, Fire, Fixed, TypeOK
<1>1. /\ Len(timer) \in Nat /\ DOMAIN timer = 1 .. Len(timer) /\ 1 \in DOMAIN timer
      /\ Head(timer) = timer[1]
      /\ DOMAIN timer' = 1 .. Len(timer) - 1
      /\ \A j \in DOMAIN timer' : j + 1 \in DOMAIN timer /\ timer'[j] = timer[j + 1]
  <2>1. timer \in Seq(Tasks) /\ timer # <<>> /\ timer' = Tail(timer)
    BY <1>0, TimerDomain DEF Fire
  <2> HIDE DEF Tasks
  <2> QED BY <2>1
<1>2. timer[1].msg = m /\ timer[1].left = 0
  BY <1>1, <1>m DEF Fire
<1>h. hand' = [hand EXCEPT ![w] = Hand("send", m)]
  BY <1>m DEF Fire
<1>3. Left(m, 0) /\ \A x, l : Left(x, l)' => Left(x, l)
  BY <1>1, <1>2 DEF Left
<1>4. \A x : (Handed(x, "add")' => Handed(x, "add")) /\ (Handed(x, "send")' => Handed(x, "send") \/ x = m)
  <2>1. \A x, do : Handed(x, do)' => Handed(x, do) \/ (do = "send" /\ x = m)
    BY <1>0, <1>h, HandChanged
  <2> QED BY <2>1
<1>t. \A x : InBatch(x)' => InBatch(x)
  BY <1>0 DEF InBatch
<1>5. \A a, b \in Listed : Before(a, b) /\ Pair(a, b) => Pair(a, b)'
  BY <1>0, <1>3, <1>4, <1>t, FirePair
<1>6. ReadInv'
  <2>1. InTimer(m) /\ \A x : InTimer(x)' => InTimer(x)
    BY <1>3 DEF InTimer, Left
  <2>2. \A x : Delivered(x)' => Delivered(x)
    BY <1>0 DEF Delivered
  <2>3. \A x : OnItsWay(x)' => OnItsWay(x)
    BY <1>4, <1>t, <2>1, <2>2 DEF OnItsWay
  <2> QED BY <1>0, <2>3, ReadInvKept DEF Fixed, ReadInv
<1>7. TimerInv'
  <2>1. \A x : Offset(x)' = Offset(x)
    BY <1>0, FixedOps
  <2>2. \A j, k \in DOMAIN timer' : j < k => timer'[j].left <= timer'[k].left
    <3> SUFFICES ASSUME NEW j \in DOMAIN timer', NEW k \in DOMAIN timer', j < k
                 PROVE  timer'[j].left <= timer'[k].left
      OBVIOUS
    <3>1. j + 1 \in DOMAIN timer /\ k + 1 \in DOMAIN timer /\ j + 1 < k + 1
      BY <1>1
    <3> QED BY <1>0, <1>1, <3>1 DEF TimerInv
  <2>3. \A j \in DOMAIN timer' : timer'[j].left <= Offset(timer[j].msg)'
    BY <1>0, <1>1, <2>1 DEF TimerInv
  <2> QED BY <2>2, <2>3 DEF TimerInv
<1> QED BY <1>0, <1>5, <1>6, <1>7, PairInvKept DEF OrderInv

\* A callback sends its message.
LEMMA DeliverOrder ==
  ASSUME Inv, OrderInv, NEW w \in TimerWorkers, Deliver(w),
         UNCHANGED <<emitterVars, grpcVars, prompt>>
  PROVE  OrderInv'
<1> DEFINE m == hand[w].msg
<1>0. TypeOK /\ TimerInv /\ PairInv /\ ReadInv /\ Fixed /\ timer' = timer
      /\ batch' = batch /\ status' = status /\ pos' = pos /\ pos \in Nat
      /\ benchmark' = benchmark /\ delivered \in Seq(Messages)
  BY DEF Inv, OrderInv, Deliver, Fixed, TypeOK, ReadInv
<1>1. m \in Messages /\ Handed(m, "send")
  <2>1. hand[w].do = "send" /\ hand[w] \in [do : {"wait", "read"}, msg : {NoMessage}]
                                 \cup [do : {"send", "add"}, msg : Messages]
    BY <1>0 DEF Deliver, TypeOK
  <2>2. hand[w] = Hand("send", m) /\ m \in Messages
    BY <2>1 DEF Hand
  <2> QED BY <2>2 DEF Handed
<1>2. delivered' = Append(delivered, m) /\ hand' = [hand EXCEPT ![w] = Hand("read", NoMessage)]
  BY DEF Deliver
<1> HIDE DEF m
<1>3. \A x, l : Left(x, l)' => Left(x, l)
  BY <1>0 DEF Left
<1>4. \A x : (Handed(x, "add")' => Handed(x, "add")) /\ (Handed(x, "send")' => Handed(x, "send"))
  <2>1. \A x, do : Handed(x, do)' => Handed(x, do) \/ do = "read"
    BY <1>0, <1>2, HandChanged
  <2> QED BY <2>1
<1>t. \A x : InBatch(x)' => InBatch(x)
  BY <1>0 DEF InBatch
<1>5. \A a, b \in Listed : Before(a, b) /\ Pair(a, b) => Pair(a, b)'
  BY <1>0, <1>1, <1>2, <1>3, <1>4, <1>t, DeliverPair
<1>6. ReadInv'
  <2>1. \A x : InTimer(x)' => InTimer(x)
    BY <1>0 DEF InTimer
  <2>2. \A x : Delivered(x)' => Delivered(x) \/ x = m
    BY <1>0, <1>1, <1>2 DEF Delivered
  <2>3. \A x : OnItsWay(x)' => OnItsWay(x)
    BY <1>1, <1>4, <1>t, <2>1, <2>2 DEF OnItsWay
  <2>4. delivered' \in Seq(Messages)
    BY <1>0, <1>1, <1>2
  <2> QED BY <1>0, <2>3, <2>4, ReadInvKept DEF Fixed
<1>7. TimerInv'
  BY <1>0, FixedOps DEF TimerInv
<1> QED BY <1>0, <1>5, <1>6, <1>7, PairInvKept DEF OrderInv

\* A callback reads the next record.
LEMMA ReadNextOrder ==
  ASSUME Inv, OrderInv, NEW w \in TimerWorkers, ReadNext(w),
         UNCHANGED <<emitterVars, grpcVars, prompt>>
  PROVE  OrderInv'
<1>m. PICK m : m = entries[pos + 1]
  OBVIOUS
<1>0. TypeOK /\ TimerInv /\ PairInv /\ ReadInv /\ Fixed /\ timer' = timer
      /\ batch' = batch /\ status' = status /\ delivered' = delivered
      /\ benchmark' = benchmark /\ delivered \in Seq(Messages)
  BY DEF Inv, OrderInv, ReadNext, Fixed, TypeOK, ReadInv
<1>1. /\ entries \in Seq(Messages \cup {0}) /\ Len(entries) \in Nat
      /\ pos \in Nat /\ pos <= Len(entries)
  BY <1>0, Constants DEF TypeOK
<1>2. status = "running"
  BY DEF ReadNext, Inv, Started, Free, Hand
<1>3. \A x, l : Left(x, l)' => Left(x, l)
  BY <1>0 DEF Left
<1>t. \A x : InBatch(x)' => InBatch(x)
  BY <1>0 DEF InBatch
<1>5. /\ \A x : InTimer(x)' => InTimer(x)
      /\ \A x : Delivered(x)' => Delivered(x)
  BY <1>0 DEF InTimer, Delivered
<1>7. TimerInv'
  BY <1>0, FixedOps DEF TimerInv
<1>8. CASE hand' = [hand EXCEPT ![w] = Free] /\ pos' \in {pos, pos + 1}
  <2>1. \A x : (Handed(x, "add")' => Handed(x, "add")) /\ (Handed(x, "send")' => Handed(x, "send"))
    <3>1. \A x, do : Handed(x, do)' => Handed(x, do) \/ do = "wait"
      BY <1>0, <1>8, HandFreed
    <3> QED BY <3>1
  <2>2. \A a, b \in Listed : Before(a, b) /\ Pair(a, b) => Pair(a, b)'
    <3> SUFFICES ASSUME NEW a \in Listed, NEW b \in Listed, Before(a, b), Pair(a, b)
                 PROVE  Pair(a, b)'
      OBVIOUS
    <3>1. Later(a, b)'
      <4>1. Offset(a)' = Offset(a)
        BY <1>0, FixedOps
      <4>2. Later(a, b)
        BY DEF Pair
      <4> QED BY <4>1, <4>2, <2>1, <1>t, <1>0 DEF Later
    <3>2. Gone(a) => Gone(a)'
      BY <2>1, <1>t, <1>5 DEF Gone
    <3> QED BY <3>1, <3>2, <2>1, <1>0, <1>5 DEF Pair
  <2>3. \A x : OnItsWay(x)' => OnItsWay(x)
    BY <2>1, <1>t, <1>5 DEF OnItsWay
  <2>4. ReadInv'
    BY <1>0, <1>1, <1>8, <2>3, ReadInvKept DEF Fixed
  <2> QED BY <1>0, <1>7, <2>2, <2>4, PairInvKept DEF OrderInv
<1>9. CASE hand' = [hand EXCEPT ![w] = Hand("add", m)] /\ pos' = pos + 1 /\ m # Bad /\ pos < Len(entries)
  <2>1. \A x : (Handed(x, "add")' => Handed(x, "add") \/ x = m) /\ (Handed(x, "send")' => Handed(x, "send"))
    <3>1. \A x, do : Handed(x, do)' => Handed(x, do) \/ (do = "add" /\ x = m)
      BY <1>0, <1>9, HandChanged
    <3> QED BY <3>1
  <2>2. \A a, b \in Listed : Before(a, b) /\ Pair(a, b) => Pair(a, b)'
    BY <1>0, <1>2, <1>3, <1>9, <1>m, <1>t, <2>1, ReadPair
  <2>3. \A x \in Messages : OnItsWay(x)' => OnItsWay(x) \/ x = m
    BY <2>1, <1>t, <1>5 DEF OnItsWay
  <2>4. pos' \in 1 .. pos' /\ pos' \in Nat /\ pos <= pos' /\ entries[pos'] = m
    BY <1>1, <1>9, <1>m
  <2>5. ReadInv'
    BY <1>0, <2>3, <2>4, ReadInvKept DEF Fixed
  <2> QED BY <1>0, <1>7, <2>2, <2>5, PairInvKept DEF OrderInv
<1>10. CASE pos = Len(entries)
  BY <1>8, <1>10 DEF ReadNext
<1>11. CASE pos # Len(entries) /\ m = Bad
  BY <1>8, <1>11, <1>m DEF ReadNext, Skip
<1>12. CASE pos # Len(entries) /\ m # Bad
  <2>1. pos < Len(entries)
    BY <1>1, <1>12
  <2> QED BY <1>9, <1>12, <1>m, <2>1 DEF ReadNext, Got
<1> QED BY <1>10, <1>11, <1>12

\* init reads the first records, before anything is in the timer.
LEMMA ReadAheadOrder ==
  ASSUME Inv, OrderInv, ReadAhead, UNCHANGED <<emitterVars, grpcVars, prompt>>
  PROVE  OrderInv'
<1> DEFINE n == IF Len(entries) < ReadDepth THEN Len(entries) ELSE ReadDepth
<1>0. /\ entries \in Seq(Messages \cup {0}) /\ Len(entries) \in Nat /\ n \in 0 .. Len(entries)
      /\ TypeOK /\ pos = 0 /\ batch = <<>> /\ timer = <<>>
      /\ \A w \in TimerWorkers : hand[w] = Free
      /\ timer' = timer /\ hand' = hand /\ delivered' = delivered /\ entries' = entries
      /\ delivered \in Seq(Messages)
  BY Constants DEF Inv, OrderInv, ReadInv, TypeOK, Started, ReadAhead
<1>1. \A x, do : do \in {"send", "add"} => ~ Handed(x, do)'
  BY <1>0, HandEqual DEF Handed, Free
<1>2. DOMAIN timer' = {}
  BY <1>0
<1>3. DOMAIN delivered' = {}
  <2>1. \A x \in Messages : ~ Delivered(x)
    BY <1>0 DEF OrderInv, ReadInv
  <2>2. \A j \in DOMAIN delivered : delivered[j] \in Messages
    BY <1>0
  <2> QED BY <1>0, <2>1, <2>2 DEF Delivered
<1>4. TimerInv'
  BY <1>2 DEF TimerInv
<1>5. PairInv'
  <2>1. \A a, b : Later(a, b)'
    BY <1>2 DEF Later
  <2>2. \A b : ~ Delivered(b)'
    BY <1>3 DEF Delivered
  <2> QED BY <1>1, <1>3, <2>1, <2>2 DEF PairInv
<1>6. ReadInv'
  <2>0. \A x : OnItsWay(x)' => InBatch(x)'
    BY <1>1, <1>2, <1>3 DEF OnItsWay, InTimer, Delivered
  <2>1. CASE \E k \in 1 .. n : entries[k] = Bad
    <3>1. status' = "exited" /\ batch' = <<>>
      BY <1>0, <2>1 DEF ReadAhead
    <3>2. \A x : ~ InBatch(x)'
      BY <3>1 DEF InBatch
    <3> QED BY <1>0, <2>0, <3>1, <3>2 DEF ReadInv, OnItsWay
  <2>2. CASE \A k \in 1 .. n : entries[k] # Bad
    <3>1. pos' = n /\ batch' = FirstEntries(n)
      BY <2>2 DEF ReadAhead
    <3>2. \A k \in 1 .. Len(entries) : k <= ReadDepth => k <= n
      BY <1>0, Constants
    <3> HIDE DEF n
    <3>3. /\ batch' \in Seq(Messages) /\ Len(batch') = n
          /\ \A k \in 1 .. n : batch'[k] = entries[k]
      BY <1>0, <2>2, <3>1, FirstMessages
    <3>4. \A x : InBatch(x)' => \E k \in 1 .. pos' : entries'[k] = x
      BY <1>0, <3>1, <3>3 DEF InBatch
    <3>5. \A k \in 1 .. Len(entries') : k <= ReadDepth => k <= pos'
      BY <1>0, <3>1, <3>2
    <3>6. \A x : OnItsWay(x)' => \E k \in 1 .. pos' : entries'[k] = x
      BY <2>0, <3>4
    <3> QED BY <1>0, <3>5, <3>6 DEF ReadInv, OnItsWay
  <2> QED BY <2>1, <2>2
<1> QED BY <1>4, <1>5, <1>6 DEF OrderInv

\* Time passes, and with it the promise of promptness may end.
LEMMA TimeOrder ==
  ASSUME Inv, OrderInv, Time
  PROVE  OrderInv'
<1>0. TypeOK /\ TimerInv /\ PairInv /\ ReadInv /\ Fixed /\ hand' = hand
      /\ batch' = batch /\ status' = status /\ delivered' = delivered /\ pos' = pos
      /\ benchmark' = benchmark /\ delivered \in Seq(Messages) /\ pos \in Nat
  BY DEF Inv, OrderInv, Time, Tick, Fixed, TypeOK, ReadInv
<1>1. /\ DOMAIN timer' = DOMAIN timer
      /\ DOMAIN timer = 1 .. Len(timer)
      /\ \A j \in DOMAIN timer : timer[j].left \in Nat
      /\ \A j \in DOMAIN timer : timer'[j].msg = timer[j].msg
      /\ \A j \in DOMAIN timer : timer'[j].left = IF timer[j].left = 0 THEN 0 ELSE timer[j].left - 1
  <2>1. \A j \in DOMAIN timer : timer[j] \in [msg : Messages, left : Nat]
    <3>1. timer \in Seq(Tasks)
      BY <1>0, TimerDomain
    <3> HIDE DEF Tasks
    <3>2. \A j \in DOMAIN timer : timer[j] \in Tasks
      BY <3>1
    <3> QED BY <3>2 DEF Tasks
  <2>2. timer' = [k \in DOMAIN timer |-> IF timer[k].left = 0 THEN timer[k]
                                            ELSE [timer[k] EXCEPT !.left = @ - 1]]
    BY DEF Time, Tick
  <2>3. DOMAIN timer' = DOMAIN timer
    BY <2>2
  <2>4. ASSUME NEW j \in DOMAIN timer
        PROVE  /\ timer[j].left \in Nat /\ timer'[j].msg = timer[j].msg
               /\ timer'[j].left = IF timer[j].left = 0 THEN 0 ELSE timer[j].left - 1
    <3>1. timer'[j] = IF timer[j].left = 0 THEN timer[j] ELSE [timer[j] EXCEPT !.left = @ - 1]
      BY <2>2
    <3> QED BY <2>1, <3>1
  <2> QED BY <1>0, <2>3, <2>4, TimerDomain
<1>2. \A x, do : Handed(x, do)' => Handed(x, do)
  BY <1>0 DEF Handed
<1>3. \A x : /\ InBatch(x)' => InBatch(x)
             /\ InTimer(x)' => InTimer(x)
             /\ Delivered(x)' => Delivered(x)
  BY <1>0, <1>1 DEF InBatch, InTimer, Delivered
<1>4. TimerInv'
  <2>1. \A x : Offset(x)' = Offset(x)
    BY <1>0, FixedOps
  <2>2. \A j, k \in DOMAIN timer : j < k => timer'[j].left <= timer'[k].left
    <3> SUFFICES ASSUME NEW j \in DOMAIN timer, NEW k \in DOMAIN timer, j < k
                 PROVE  timer'[j].left <= timer'[k].left
      OBVIOUS
    <3>1. timer[j].left <= timer[k].left
      BY <1>0 DEF TimerInv
    <3> QED BY <1>1, <3>1
  <2>3. \A j \in DOMAIN timer : timer'[j].left <= Offset(timer'[j].msg)
    <3> SUFFICES ASSUME NEW j \in DOMAIN timer
                 PROVE  timer'[j].left <= Offset(timer[j].msg)
      BY <1>1
    <3>1. timer[j].left <= Offset(timer[j].msg) /\ timer[j].msg \in Messages
      BY <1>0, TimerDomain DEF TimerInv
    <3>2. Offset(timer[j].msg) \in Nat
      BY <1>0, <3>1, OffsetType DEF TypeOK
    <3> QED BY <1>1, <3>1, <3>2
  <2> QED BY <1>1, <2>1, <2>2, <2>3 DEF TimerInv
<1>5. ReadInv'
  <2>1. \A x : OnItsWay(x)' => OnItsWay(x)
    BY <1>2, <1>3 DEF OnItsWay
  <2> QED BY <1>0, <2>1, ReadInvKept DEF Fixed
<1>6. ASSUME prompt
      PROVE  \A a, b \in Listed : Before(a, b) /\ Pair(a, b) => Pair(a, b)'
  <2>1. /\ batch = <<>> /\ \A w \in TimerWorkers : hand[w] = Free
        /\ timer # <<>> => Head(timer).left > 0
    BY <1>6 DEF Time, Settled, AtRest
  <2>2. \A x : ~ InBatch(x)' /\ ~ Handed(x, "add")' /\ ~ Handed(x, "send")'
    BY <1>0, <2>1, HandEqual DEF InBatch, Handed, Free
  <2>3. \A j \in DOMAIN timer : timer[j].left > 0
    <3> SUFFICES ASSUME NEW j \in DOMAIN timer PROVE timer[j].left > 0
      OBVIOUS
    <3>1. 1 \in DOMAIN timer /\ timer # <<>> /\ Head(timer) = timer[1]
      BY <1>1
    <3>2. CASE j = 1
      BY <2>1, <3>1, <3>2
    <3>3. CASE j # 1
      <4>1. 1 < j /\ timer[1].left <= timer[j].left
        BY <1>0, <1>1, <3>1, <3>3 DEF TimerInv
      <4> QED BY <1>1, <2>1, <3>1, <4>1
    <3> QED BY <3>2, <3>3
  <2>4. ASSUME NEW x, NEW l, Left(x, l)' PROVE l + 1 \in Nat /\ l \in Nat /\ Left(x, l + 1)
    <3>1. PICK j \in DOMAIN timer' : timer'[j].msg = x /\ timer'[j].left = l
      BY <2>4 DEF Left
    <3>2. timer[j].left = l + 1 /\ l \in Nat /\ timer[j].msg = x
      BY <1>1, <2>3, <3>1
    <3> QED BY <1>1, <3>1, <3>2 DEF Left
  <2> QED BY <1>0, <2>2, <2>4, TickPair
<1>7. PairInv'
  BY <1>0, <1>6, PairInvKept
<1> QED BY <1>4, <1>5, <1>7 DEF OrderInv

\* A step that none of it depends on.
LEMMA OrderUnchanged ==
  ASSUME OrderInv,
         UNCHANGED <<entries, status, pos, benchmark, batch, timer, hand, delivered, prompt>>
  PROVE  OrderInv'
<1>1. /\ \A x : InBatch(x)' <=> InBatch(x)
      /\ \A x : InTimer(x)' <=> InTimer(x)
      /\ \A x, do : Handed(x, do)' <=> Handed(x, do)
      /\ \A x : Delivered(x)' <=> Delivered(x)
      /\ \A x : Offset(x)' = Offset(x)
  BY DEF InBatch, InTimer, Handed, Delivered, Offset
<1>2. ReadInv'
  BY <1>1 DEF OrderInv, ReadInv
<1>3. TimerInv'
  BY <1>1 DEF OrderInv, TimerInv
<1>4. Fixed
  BY DEF Fixed
<1>5. \A a, b : Pair(a, b) => Pair(a, b)'
  <2>1. \A a, b : Later(a, b) => Later(a, b)'
    BY <1>1 DEF Later
  <2>2. \A a : Gone(a) => Gone(a)'
    BY <1>1 DEF Gone
  <2> QED BY <1>1, <2>1, <2>2 DEF Pair
<1> QED BY <1>2, <1>3, <1>4, <1>5, PairInvKept DEF OrderInv

\* At the start nothing is on its way.
LEMMA OrderInit == Init => OrderInv
<1> SUFFICES ASSUME Init PROVE OrderInv
  OBVIOUS
<1>1. /\ status = "start" /\ batch = <<>> /\ timer = <<>> /\ delivered = <<>>
      /\ \A w \in TimerWorkers : hand[w] = Free
  BY DEF Init, InputInit
<1>2. \A x : ~ InBatch(x) /\ ~ InTimer(x) /\ ~ Handed(x, "add") /\ ~ Handed(x, "send")
             /\ ~ Delivered(x)
  BY <1>1, HandEqual DEF InBatch, InTimer, Handed, Delivered, Free
<1>3. \A a, b : Later(a, b)
  BY <1>1 DEF Later
<1> QED BY <1>1, <1>2, <1>3 DEF OrderInv, ReadInv, TimerInv, PairInv

\* Every step.
LEMMA OrderNext == Inv /\ OrderInv /\ [Next]_vars => OrderInv'
<1> SUFFICES ASSUME Inv, OrderInv, [Next]_vars
             PROVE  OrderInv'
  OBVIOUS
<1>1. CASE FileInput
  BY <1>1, ReadAheadOrder, ScheduleOrder DEF FileInput
<1>2. ASSUME NEW w \in TimerWorkers, Timer(w)
      PROVE  OrderInv'
  BY <1>2, FireOrder, DeliverOrder, ReadNextOrder, AddNextOrder DEF Timer, Callback
<1>3. CASE CopyMulty
  BY <1>3, OrderUnchanged DEF CopyMulty, ReadMsg, inputVars
<1>4. ASSUME NEW w \in Workers, Work(w)
      PROVE  OrderInv'
  BY <1>4, OrderUnchanged DEF Work, inputVars
<1>5. CASE Time
  BY <1>5, TimeOrder
<1>6. CASE UNCHANGED vars
  BY <1>6, OrderUnchanged DEF vars, inputVars
<1> QED BY <1>1, <1>2, <1>3, <1>4, <1>5, <1>6 DEF Next

\* The timer is sorted, its tasks are of messages that were read, and of two
\* messages in order the later one waits for the earlier.
THEOREM OrderInvariant == Spec => []OrderInv
  BY InvInit, InvNext, OrderInit, OrderNext, PTL DEF Spec

\* When nothing is slow, messages are delivered in the order of their
\* timestamps, as far as the reader looks ahead, however the callbacks of the
\* timer's workers overlap with each other and with init.
THEOREM InOrderOfTime == Spec => []OrderKept
<1>1. Inv /\ OrderInv => OrderKept
  <2> SUFFICES ASSUME Inv, OrderInv, prompt,
                      NEW j \in DOMAIN delivered, NEW k \in DOMAIN delivered,
                      Before(delivered[j], delivered[k])
               PROVE  j < k
    BY DEF OrderKept, Before
  <2>1. \A i \in DOMAIN delivered : delivered[i] \in Listed
    <3> SUFFICES ASSUME NEW i \in DOMAIN delivered PROVE delivered[i] \in Listed
      OBVIOUS
    <3>1. delivered[i] \in Messages
      BY DEF OrderInv, ReadInv
    <3>2. Delivered(delivered[i])
      BY DEF Delivered
    <3>3. \E n \in 1 .. pos : entries[n] = delivered[i]
      BY <3>1, <3>2 DEF OrderInv, ReadInv
    <3>4. \A n \in 1 .. pos : n \in 1 .. Len(entries)
      <4>1. entries \in Seq(Messages \cup {0}) /\ pos \in 0 .. Len(entries)
        BY Constants DEF Inv, TypeOK
      <4> QED BY <4>1
    <3> QED BY <3>1, <3>3, <3>4 DEF Listed
  <2> QED BY <2>1 DEF OrderInv, PairInv
<1> QED BY <1>1, InvInit, InvNext, OrderInit, OrderNext, PTL DEF Spec
=============================================================================
