---------------------------- MODULE FileDirInput ----------------------------
(***************************************************************************)
(* FileDirInput (plugin/input_file_dir.go): records are read readDepth     *)
(* ahead and put into a timer, each due when its turn in the replay has    *)
(* come.  The timer's workers hand a message on when it is due, read the   *)
(* next record and put that into the timer.                                *)
(*                                                                         *)
(* Time is counted in ticks; a task in the timer has the ticks that are    *)
(* left until it is due, 0 also when it is overdue.                        *)
(***************************************************************************)
EXTENDS Message, Sequences, SequencesExt

CONSTANTS Recordings,    \* what successive calls of ReadMessage may return
                         \* (RecordFile!ReadAll), Bad for an error
          TimestampOf,   \* message -> Meta.Timestamp
          Speed,         \* replaySpeed
          ReadDepth,     \* readDepth
          TimerWorkers,  \* the goroutines of gtimer.SuperTimer
          MsgCap,        \* capacity of msgChan
          Horizon        \* the clock stops here, when every message is due

Bad == NoMessage

ASSUME InputAssumption ==
    /\ Recordings \subseteq Seq(Messages \cup {Bad})
    /\ \A r \in Recordings : \A j, k \in 1 .. Len(r) :
          j # k /\ r[j] # Bad => r[j] # r[k]
    /\ TimestampOf \in [Messages -> Int]
    /\ Speed \in Nat \ {0} /\ ReadDepth \in Nat \ {0} /\ MsgCap \in Nat \ {0}
    /\ Horizon \in Nat
    /\ \A m, n \in Messages : (TimestampOf[m] - TimestampOf[n]) \div Speed <= Horizon

VARIABLES entries,     \* the recording
          status,      \* "start", "running", or "exited" by slog.Fatal
          pos,         \* entries ReadMessage has returned so far
          benchmark,   \* benchmarkTimestamp
          batch,       \* init, the messages still to be put into the timer
          timer,       \* the tasks in the timer, those due first at the front
          hand,        \* per timer worker, what it is doing, with which message
          msgChan,
          elapsed,     \* ticks since the start
          delivered    \* history: the messages put into msgChan, in order

inputVars == <<entries, status, pos, benchmark, batch, timer, hand, msgChan, elapsed,
               delivered>>

Task(m, left) == [msg |-> m, left |-> left]
Hand(do, m) == [do |-> do, msg |-> m]
Free == Hand("wait", NoMessage)

InputInit == /\ entries \in Recordings
             /\ status = "start"
             /\ pos = 0
             /\ benchmark = 0
             /\ batch = <<>>
             /\ timer = <<>>
             /\ hand = [w \in TimerWorkers |-> Free]
             /\ msgChan = <<>>
             /\ elapsed = 0
             /\ delivered = <<>>

\* Here and below, an operator that no other definition uses is a faulty
\* variant of the one that follows it, for the mutation of the checks.
Stamps(n) == {TimestampOf[entries[k]] : k \in 1 .. n}

OfFirst(n) == {IF n = 0 THEN 0 ELSE TimestampOf[entries[1]]}

\* benchmarkTimestamp, after n records: the smallest of their timestamps.
Smallest(n) == IF n = 0 THEN {0} ELSE {t \in Stamps(n) : \A s \in Stamps(n) : t <= s}

FromSecond(n) == SubSeq(entries, 2, n)

FirstEntries(n) == SubSeq(entries, 1, n)

\* init: an error among the first records ends the program.
ReadAhead ==
    /\ status = "start"
    /\ LET n == IF Len(entries) < ReadDepth THEN Len(entries) ELSE ReadDepth
       IN  IF \E k \in 1 .. n : entries[k] = Bad
           THEN /\ status' = "exited"
                /\ UNCHANGED <<pos, benchmark, batch>>
           ELSE /\ status' = "running"
                /\ pos' = n
                /\ benchmark' \in Smallest(n)
                /\ batch' = FirstEntries(n)
    /\ UNCHANGED <<entries, timer, hand, msgChan, elapsed, delivered>>

\* The ticks from the start of the replay to message m's turn.
Offset(m) == IF TimestampOf[m] <= benchmark THEN 0
             ELSE (TimestampOf[m] - benchmark) \div Speed

LastInLine(m) == timer' = Append(timer, Task(m, Offset(m)))

\* addTaskToTimer.  The timer is a priority queue by the time a task is due,
\* which is Offset(m) from now, from whenever the task is put in.
AddTask(m) ==
    \E k \in 0 .. Len(timer) :
       /\ \A j \in 1 .. k : timer[j].left <= Offset(m)
       /\ \A j \in k + 1 .. Len(timer) : timer[j].left >= Offset(m)
       /\ timer' = InsertAt(timer, k + 1, Task(m, Offset(m)))

\* init goes on, while the timer is already running.
Schedule == /\ batch # <<>>
            /\ AddTask(Head(batch))
            /\ batch' = Tail(batch)
            /\ UNCHANGED <<entries, status, pos, benchmark, hand, msgChan, elapsed,
                           delivered>>

\* A worker of the timer takes the first task when it is due.
Fire(w) == /\ hand[w] = Free
           /\ timer # <<>>
           /\ Head(timer).left = 0
           /\ hand' = [hand EXCEPT ![w] = Hand("send", Head(timer).msg)]
           /\ timer' = Tail(timer)
           /\ UNCHANGED <<entries, status, pos, benchmark, batch, msgChan, elapsed,
                          delivered>>

\* The callback: in.msgChan <- message.
Deliver(w) == /\ hand[w].do = "send"
              /\ Len(msgChan) < MsgCap
              /\ msgChan' = Append(msgChan, hand[w].msg)
              /\ delivered' = Append(delivered, hand[w].msg)
              /\ hand' = [hand EXCEPT ![w] = Hand("read", NoMessage)]
              /\ UNCHANGED <<entries, status, pos, benchmark, batch, timer, elapsed>>

AsMessage(w) == /\ hand' = [hand EXCEPT ![w] = Hand("add", entries[pos + 1])]
                /\ pos' = pos + 1

GiveUp(w) == /\ hand' = [hand EXCEPT ![w] = Free]
             /\ pos' = Len(entries)

\* ReadMessage with an error: the callback returns, and adds no task.
Skip(w) == /\ hand' = [hand EXCEPT ![w] = Free]
           /\ pos' = pos + 1

NotAdvanced(w) == /\ hand' = [hand EXCEPT ![w] = Hand("add", entries[pos + 1])]
                  /\ pos' \in {pos, pos + 1}

Got(w) == /\ hand' = [hand EXCEPT ![w] = Hand("add", entries[pos + 1])]
          /\ pos' = pos + 1

\* in.reader.ReadMessage(), under the reader's lock.
ReadNext(w) == /\ hand[w].do = "read"
               /\ IF pos = Len(entries)
                  THEN /\ hand' = [hand EXCEPT ![w] = Free]
                       /\ UNCHANGED pos
                  ELSE IF entries[pos + 1] = Bad THEN Skip(w) ELSE Got(w)
               /\ UNCHANGED <<entries, status, benchmark, batch, timer, msgChan, elapsed,
                              delivered>>

\* in.addTaskToTimer(newMessage).
AddNext(w) == /\ hand[w].do = "add"
              /\ AddTask(hand[w].msg)
              /\ hand' = [hand EXCEPT ![w] = Free]
              /\ UNCHANGED <<entries, status, pos, benchmark, batch, msgChan, elapsed,
                             delivered>>

Callback(w) == Fire(w) \/ Deliver(w) \/ ReadNext(w) \/ AddNext(w)

\* FileDirInput.Read, once the plugins are made and the Emitter is started.
ReadMsg == /\ status = "running" /\ batch = <<>>
           /\ msgChan # <<>>
           /\ msgChan' = Tail(msgChan)
           /\ UNCHANGED <<entries, status, pos, benchmark, batch, timer, hand, elapsed,
                          delivered>>

\* Time passes.
Tick == /\ status = "running"
        /\ elapsed' = IF elapsed < Horizon THEN elapsed + 1 ELSE elapsed
        /\ timer' = [k \in DOMAIN timer |->
                       IF timer[k].left = 0 THEN timer[k]
                                            ELSE [timer[k] EXCEPT !.left = @ - 1]]
        /\ UNCHANGED <<entries, status, pos, benchmark, batch, hand, msgChan, delivered>>

\* Nothing is to be done before time passes.
AtRest == /\ batch = <<>>
          /\ \A w \in TimerWorkers : hand[w] = Free
          /\ timer # <<>> => Head(timer).left > 0
          /\ msgChan = <<>>
=============================================================================
