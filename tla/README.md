# Verification of grpcreplay

grpcreplay captures the gRPC traffic of a server from the network, rebuilds the calls, and
prints, stores or replays them. This directory holds TLA+ models of the whole way of a call:
from the packets to a rebuilt message, from there to the files and servers it is written to, and
from the files back through the timer of a replay to the server called. TLC configurations
check them on small instances; TLAPS checks proofs about the TCP reassembly, the tracking of
connections, the rebuilding of calls, the start of a capture, the recording, and the replay.

    tlc -workers 2 -config MCTCPBuffer.cfg MCTCPBuffer      # one run
    tlapm TCPBufferProofs.tla                                # the proofs

`PROJECT.json` lists the runs, the source lines each definition translates, the faulty variants
each property was tried against, the hazards of the code and the findings.

## 1. The system

    network -> DeviceListener -> Processor -> TCPBuffer -> DealInput  \
               (one per card)    (1 gorout.)  (2 per       DealOutput  > Stream slots
                    ^                          Http2Conn)  (per conn.)/      |
                    |                                                        v
               RAWInput.Listen                          Processor.OutputChan
               (resets history connections)                     |
                                                                 v
               FileDirInput, RocketMQInput  ------> Emitter (filter, limiter) -> outputs

| component | state | operations | hard behaviour | what makes it correct |
|---|---|---|---|---|
| TCPBuffer (`http2/tcp_buffer.go`) | expectedSeq, skip list, bounded channel, reader's buffer, two byte counters | AddTCP (processor goroutine), Read (frame reader) | reordering, duplicates, wrap-around of sequence numbers, a channel that is full in the middle of AddTCP | Read returns the stream; nothing captured in the window is lost; counters agree |
| Http2Conn (`http2/http2.go`) | 10000 stream slots (request, response, done), HPACK tables | DealInput, DealOutput: frames of both directions; FinishStream | two goroutines on one slot, a token with a timeout, slot reuse, cancellation, a full OutputChan | a call is handed on whole, once, and leaves the slot clean |
| Processor (`http2/processor.go`) | ConnStates, ConnRepository | ProcessTCPPkg | duplicated and late packets, the same addresses used again, the preface | each connection has an Http2Conn of its own and gives it exactly its bytes |
| TCP state machine (`http2/state_machine.go`) | state per connection | Trigger, OnEnter | closings in different orders | an established connection is tracked, an ended one forgotten |
| RAWInput, DeviceListener (`plugin/input_raw.go`) | connSet, device handles | listen (per card), Listen, Read | listing, resetting and capturing run concurrently | every history connection is reset, every new one followed from its SYN |
| ConnSet (`http2/conn_set.go`) | a map, a read-write lock | Has, Remove, Intersection, String, ... | read locks taken twice | it is the set it says; nobody waits for ever |
| Emitter (`biz/emitter.go`, `filter/`, `biz/ratelimit.go`) | one copy goroutine per input | Start, CopyMulty, filters, limiter | loops share outputs; an output blocks; the process ends without Close | each message that passes goes to each output, once, in the order of its input |
| FileDirOutput (`plugin/output_file_dir.go`) | a rotating log | Write | a record and its end are two writes: failures, kills, rotation, another loop in between | what was written reads back as what was recorded |
| FileDirInput (`plugin/input_file_dir.go`) | reader over files, timer, channel, benchmark | init, timer callbacks, Read | callbacks run concurrently, records out of order, records that cannot be parsed | each record once, at its turn, in order, none forgotten |
| GRPCOutput (`plugin/output_grpc.go`) | channel, workers | Write, execute, Call | a full channel, calls that never return | every message is called, once |
| Codecs (`protocol/`) | - | Marshal, Unmarshal | broken records | Unmarshal gives what was marshalled |
| PBFinder (`http2/pb_finder.go`) | cache | Get | the cached messages are shared on a miss | the caller's message is its own |
| RocketMQ, StdOutput, settings, utilities | - | - | none of their own | - |

The packets reach the Processor through one channel. It calls AddTCP itself, so a frame reader
that stands still eventually holds up the processor, and with it every connection. DealInput
and DealOutput share the stream slots; Stream.done carries one token from the end of the
request to the end of the response. OutputChan is read by the Emitter's copy loop.
The decoders of a connection are one per direction, and only the goroutine of that direction
uses them. All copy loops write to the same outputs; GRPCOutput hands its messages to workers,
FileDirOutput writes at once. A replay's FileDirInput fills its channel from the timer's
goroutines.

## 2. Modules

| module | models | runs |
|---|---|---|
| `ByteStream` | what the frame readers need from below: a stream of bytes, read in order, once | refined by `TCPBuffer` |
| `TCPBuffer` | `http2/tcp_buffer.go` | `MCTCPBuffer.cfg` |
| `TCPBufferProofs` | theorems about `TCPBuffer` | extended by `MCTCPBuffer` |
| `CallLog` | what the reader of OutputChan needs of a connection: a log of calls, each whole, at most once, after its end | refined by `Http2Conn` |
| `Http2Conn` | `http2/http2.go` | `MCHttp2Conn.cfg`, `MCHttp2ConnLate.cfg` |
| `Http2ConnProofs` | theorems about `Http2Conn` | extended by `MCHttp2Conn` |
| `Decoding` | `http2/http2.go`: header blocks, HPACK tables, gRPC framing, SETTINGS | `MCDecoding.cfg`, `MCDecodingSplit.cfg` |
| `DecodingProofs` | theorems about `Decoding` | extended by `MCDecoding` |
| `ConnFeeds` | what the Http2Conns need of the processor: one each, made in order, the newest given what was sent | refined by `Processor` |
| `Processor` | `http2/processor.go`, `http2/state_machine.go` | `MCProcessor*.cfg` |
| `ProcessorProofs` | theorems about `Processor` | extended by `MCProcessor` |
| `RAWListen` | `plugin/input_raw.go`, `http2/conn_set.go`, `plugin/tcp_kill.go` | `MCRAWListen*.cfg` |
| `RAWListenProofs` | theorems about `RAWListen` | extended by `MCRAWListen` |
| `Message` | what the inputs hand to the outputs (`protocol/protocol.go`) | - |
| `RecordFile` | `protocol/codec_simple.go`, the reader of `plugin/input_file_dir.go` | in `MCRecording` |
| `Emitter` | `biz/emitter.go`, `filter/`, `biz/ratelimit.go` | in `MCRecording`, `MCReplay` |
| `GRPCOutput` | `plugin/output_grpc.go` | in `MCRecording`, `MCReplay` |
| `FileDirOutput` | `plugin/output_file_dir.go` | in `MCRecording` |
| `Recording` | `Emitter`, `GRPCOutput` and `FileDirOutput` together | `MCRecording.cfg` |
| `RecordingProofs` | theorems about `Recording` | extended by `MCRecording` |
| `FileDirInput` | `plugin/input_file_dir.go` | in `MCReplay` |
| `Replay` | `FileDirInput`, `Emitter` and `GRPCOutput` together | `MCReplay.cfg`, `MCReplayPace.cfg` |
| `ReplayProofs` | theorems about `Replay` | extended by `MCReplay` |
| `FoldTheorems` | lemmas on folds and induction | extended by `TCPBufferProofs`, `DecodingProofs`, `RecordingProofs` |

### TCPBuffer

The variables have the names of the code's fields. A segment is the interval of stream
positions it carries; the code sees only `SeqOf(pos)`, the sequence number modulo `SeqSpace`
(2^32). The remainder by `math.MaxUint32` that the code takes on top of the wrap-around is
kept (`NextSeq`). `AddTCP(s)` is the code from its start to the first channel send, or to its
end when the segment is not the expected one; `Push` is one channel send and what follows it up
to the next one, or the removal from List at the end; `Discard(s)` is the two early returns.
`Read` is atomic: it is one select, and touches only the reader's own buffer besides.
`pushing` and `needRemoveList` are AddTCP's locals; `front`, `inWindow`, `nread` and `handed` are
history.

What is assumed of the network is in the guards of `Captured` and in two assumptions. A
segment captured lies at most `Lag` behind and `Flight` ahead of the expected byte
(`SizesAssumption`: together with the window small beside the sequence space; otherwise no
receiver could tell an old segment from a new one). `SegmentsAssumption`: a retransmission
carries the same interval as the original. Within these bounds every order and every number of
repetitions is explored.

### Http2Conn

The handlers are cut where the other goroutine can see the difference: `Take` reads a frame and
stores EndStream, `Store` stores its content, `Signal` and `Put` are the token of the request's
end, `Check`, `Wait`, `Finish`, `Send` and `FinishReset` the end of the handler. DealInput and
DealOutput run the same actions on their own `pc`. A slot's done channel is the number `done`, and
a new channel takes one that no goroutine holds (`NewDone`), so that a token put into a channel that
was replaced meanwhile is recognisable. Headers and payloads are represented by the set of frames whose content was
stored. A cancelled call (RST_STREAM) and GOAWAY are included, as is the mode without responses
(`RecordResponse` is chosen at the start).

Nothing is assumed of the schedule: DealInput, DealOutput, the timer, the peers and the reader of
OutputChan take their steps in any order, and the peers send whatever they may, a cancellation in
the middle of a response included. What they may do is what HTTP/2 says: a response ends after its
request, ids ascend, and here a slot comes to its second call when the first has ended or was
cancelled at the client. After a GOAWAY was handled nothing more is captured, so nothing that the
peers still send is followed.

The code's only coupling of the two directions is `done`, and it is not sufficient
(`http2_conn_late`, finding 1). The history variable `raced` has the slots over which the goroutines
were at odds, from the step in which it happened. There are four such steps:

* DealInput itself finds the response's mark EndStream set, and finishes the call as DealOutput does
  (`Check`, `http2.go:295`);
* DealOutput goes on by the timer while frames of the request are still to be handled (`Wait`);
* a frame is taken for a slot while the other goroutine has frames of an earlier call on it still to
  handle (`Overtakes`);
* a cancellation is handled while DealOutput is at the call, or DealOutput goes on with a call
  whose cancellation was handled (`CutsIn`).

Each is something the code does not prevent, and after each of them half a message, one twice, or a
dirty slot is possible; what happens then is in the model like everything else, and only the properties
let it through. `raced` is written and never read by a guard. Everything else has to hold: the
two directions work on a call at the same time, the response may be captured, and its first frames
stored, before the request is; the last frame waits for the token; a timer may fire when
the request is there but its token is not taken; and a slot is reset and used again. When only
requests are recorded, `raced` stays empty.

`CallLog` is what is left of this for plugin/input_raw.go: calls that end, are handed on and are
read. The mapping takes a message to the call it is the whole of, and to no call when it is of
none, so that half a response or two calls mixed in one message are no step of the log; a call is
over there when the last of its frames that is recorded was sent, and the calls toMsg has an error
for are none of the log's. The calls of a raced slot are `spoilt` there: of them, and of half
messages once there is one, the log keeps only the order and the capacity. Request and Respond are
steps `End` or nothing, `Send` is `HandOn` or `HandOnSpoilt`, `Consume` is `Read`, a step that races a
slot is `Spoil`, and whatever else the goroutines do changes nothing of the log.

### Processor

Packets carry the incarnation of their connection and a stream position; `Transitions` is
InitTCPFSM's table, `EventOf` the choice of handleConnectionState, `ProcessControl` the state
machine with OnEnter, `ProcessData` the two Process...TCPPkg functions. The network plays a script
per connection (handshake, preface and data, closing), bursts of which are captured in any order,
and captures any earlier packet of the connection again, up to `MaxDups` times, also after the
connection has ended. The TCPBuffer is represented by positions and delivers at once; sequence
numbers of different incarnations are taken to be unrelated, which is why a segment is accepted
only by a buffer whose expected number comes from the same incarnation. `PrefaceAlone` says that
the preface is captured once, and before the data after it. `GoAway` is the one change of
ConnRepository that another goroutine makes: DealInput or DealOutput of any Http2Conn that was given
any data, of either side, in the middle of it or at any time after, and more than once. What
comes for the connection afterwards is dropped (`left`), the client's data included;
`GoAwayInTime` says that it comes before the addresses are used again. The deletion is one step: that Go's maps bear no concurrent access, and may
stop the process for it, is not modelled.

`ConnFeeds` is what the frame readers see of it: Http2Conns, each made for one connection, that are
given the two streams. The mapping (`MadeFor`, `GivenTo`) keeps of every Http2Conn whose it is and
which packets its buffers have put in order. The ACK that completes a handshake is a step `Make`, which
is allowed only for a connection newer than all that have one on its addresses: a second Http2Conn for
the same connection, which an ACK captured again might make, is no step of it. A packet that is
put in order, with those that waited behind it, is one step `GiveIn` or `GiveOut`, of the newest
Http2Conn of its addresses; every other packet gives nothing.

### RAWListen

Two goroutines of the program and the hosts around them. `Listen` is cut at every access to
what it shares with the listener: listing (`ListHistory`, `ListAgain`), the loop's condition
(`Size`), `Intersection` in three steps (read lock; the second read lock, in Size, with the
collection; return), the assignment of the pointer `connSet`, `ToArray`, and one `SendSYN` per
connection. The listener takes one packet at a time (`HandlePacket`): reset, start of a removal,
or handing on. A removal is two steps, since `ConnSet.Remove` may have to wait for the lock.

The lock is modelled by what can be seen of it. Only `Intersection` holds the read lock over
more than one step (`ReadLocked`), only the listener writes. `waiting = "cur"` is a writer
that waits: no read lock is given meanwhile (`MayRLock`), as in sync.RWMutex. When Listen
replaces the pointer, the writer is left with the lock of a set nobody reads any more
(`"stale"`). `String`, called for the log, is left out: its read locks are as nested as
Intersection's and are only taken at log level debug.

The hosts: a client has an incarnation of its addresses open or none, the server's kernel
believes one to be ESTABLISHED or none. `SendRST` ends the client's side only, which is why the
probe is answered by a reset next time, and why `Notice` (keepalive, or the client's next data)
is needed before the connection leaves the list. The capture loses answers to probes when its
buffer is full, but not what clients send of their own accord (`Room`). `Reuse` lets a client come
back with the addresses of a history connection, `GapOpens` lets clients connect between
listAllConns and OpenLive.

### Decoding

Http2Conn is about when the two directions act; Decoding is about what a frame's content turns
into. Each direction's frames are handled in order by one goroutine, and neither the decoder nor
the item of the direction is touched by the other before the call ends, so a frame is sent and
handled in one step. The sender's HPACK table (`enc`) and the program's (`dec`) are sequences of
fields with a limit; `Encode` refers to the table wherever it can, `DecodeFull` is the hpack
library as the code uses it. `Block` is ParseFrameHeader with `_processFrameHeader` and, when the
block is cut, the CONTINUATION that follows: the cut may lie between two representations or within
one. As in the code, a HEADERS frame with END_STREAM ends the call before its CONTINUATION is
stored. `Data` takes the bytes of a message, five of prefix and the payload, in frames of any
length; `Settings` resizes the decoder of the direction the frame came in, while the peer that
takes it up encodes the other direction (`TakeUp`).

Three history variables record where the code does not follow the protocol, so that the properties
can say that nothing else goes wrong, in whatever combination: `upset` (a representation cut in
two, or a table announced smaller than the one in use in the same direction), `split` (a message
in several frames), `soiled` (trailers in two frames, which are stored into the slot after it was
reset).

### Recording

`Copy` is an iteration of CopyMulty up to the first output: Read returns, FilterChain.Filter and
the limiter decide, and the message is dropped or goes to output 1. Each output's Write is a step
or two of its own, since the loops of several inputs share the outputs: `Send` waits for room in
msgChannel; `WriteRecord` and `WriteEnd` are the two writes to the log, with the lock of the log
between them free. Any of them may be the first of a new file. `WriteFails` is an error of either
write, after which Write returns. `Kill` is the end of the process (main calls os.Exit and closes
nothing) and its restart: it may fall between any two steps, and the log is what it left.

`RecordFile` is what the files mean: CodecSimple's record is three or four lines, the reader takes
lines up to an empty one and keeps what it has when a file ends. The reader is a fold over the
pieces of a file (`ReadPiece`: a text is added to the line, a newline ends it, an empty line ends
the record), and over the files (`NextFile`: only the unfinished line is lost). A text is one piece,
a record that was read is the set of its pieces. The index panics of ReadMessage and Unmarshal on records
too short are outcomes of their own, so that ReadsBack says that they do not occur.

SameToAll holds with faults, too: an output may then lack a message (a write that failed, a loop that
was killed before it came to this output), but never has one twice or out of order. Only while
nothing has failed does it have them all.

### Replay

A recording is a sequence of messages and errors, as ReadMessage would return them. `ReadAhead` is
the first loop of init, `Schedule` the second one, which runs while the timer is already on.
`Fire`, `Deliver`, `ReadNext` and `AddNext` are the timer's worker and the callback, cut at the
channel, the reader's lock and the timer. The timer is kept in the order in which tasks are due;
where two are due together either goes first. `benchmark` is benchmarkTimestamp, `Offset` the
division by the speed. A message that is due does not know when: overdue tasks have 0 ticks left.

Time (`Tick`) may pass between any two steps; the program has no bound on how slow it is. For the
two properties about pace the initial state chooses, in `prompt`, whether nothing takes time while
there is something to do, which is the best case.

## 3. Runs

| run | instance | what it checks |
|---|---|---|
| `tcp_buffer` | 9 segments of 1 to 3 bytes, 18 bytes in a sequence space of 16, ISN 11, window 6, channel of 2, reads of 1 and 4 bytes | TypeOK; IndInv (the invariant of the proofs); CountersAgree; NoSegmentLost; StreamSpec (refinement of ByteStream); CapturedIsRead (liveness) |
| `http2_conn` | 3 calls on 1 slot, OutputChan of 1, call 3 silent, call 1 cancellable, GOAWAY of the client, a timer that may fire at any time; constraint `Followed` | TypeOK; IndInv (the invariant of the proofs); EmittedWhole, AtMostOnce, SlotsClean; CallLogSpec (refinement of CallLog); CapturedIsEmitted (liveness) |
| `http2_conn_late` | 1 call, no timeout | EveryMessageWhole is violated (finding 1) |
| `processor` | 1 pair of addresses, 3 incarnations, 2 repeated packets each, window 3, three ways for the client to end, GOAWAY of either side handled at any time between the first data and the next incarnation | TypeOK; IndInv (the invariant of the proofs); OwnBytes, NewConnTracked, ClosedIsForgotten, Reassembled; FeedsSpec (refinement of ConnFeeds) |
| `processor_server_close` | 2 incarnations, the server closes | NewConnTracked is violated (finding 2) |
| `raw_listen` | 1 history connection, 1 fresh one, 2 incarnations and 1 data packet each, capture buffer of 4, Reuse, no GapOpens | TypeOK, FreshFollowed, DoneMeansGone; HistoryEnds (liveness) |
| `raw_listen_lock` | the same | RemoveEnds is violated (finding 3) |
| `recording` | 2 inputs with 3 and 1 messages, one filtered, one with a response; server and log as outputs; 2 workers, channel of 1, 1 call unanswered; 2 files, 2 faults | TypeOK; IndInv (the invariant of the proofs); ReadsBack, SameToAll; AllCalled (liveness) |
| `replay` | 5 recordings of up to 5 records, in and out of order, with 0, 1 or 2 that cannot be read; 2 read ahead, speed 2, 2 timer workers, channels of 1, limiter, 2 callers, 1 call unanswered | CalledOnce, NotEarly, OrderKept, TasksKept; OrderInv (the invariant of the proof of OrderKept); AllReplayed (liveness) |
| `replay_pace` | the same | OnTime is violated (finding 4) |
| `decoding` | 4 fields, tables of 2, 2 kinds of requests, responses with trailers or without; announced sizes 1 and 3; up to 3 cut blocks, split messages or SETTINGS | TypeOK; IndInv (the invariant of the proofs); TablesAgree, AsSent |
| `decoding_split` | 1 split message, no SETTINGS, no CONTINUATION | BodyAsSent is violated (finding 5) |

Why the bounds are enough. For TCPBuffer the stream is longer than the sequence space, so the
expected number, the window and stored segments all lie across the wrap-around at some time; the
window is smaller than the flight, so segments are rejected at first; the channel is shorter than
the runs AddTCP releases, so it fills within one call. For Http2Conn all calls fall on one
slot, and the second comes to it after each way the first can end, handed on or cancelled, raced or
not; both need OutputChan emptied. Three events that are independent of each other are not
multiplied (`Followed` in MCHttp2Conn): a GOAWAY is followed where nothing was cancelled and raced,
a raced slot, of which nothing is promised, up to the second message, and the third call, which is
silent, where none of these happened; what any of them leaves to another is in the proofs, which
have no such bound. For CapturedIsEmitted the constraint cuts off nothing that matters: what it ends
are steps of the peers, which need not take them, and behaviours in which the slot is raced. For the Processor the third incarnation meets what the first
two left, with repeated packets in every phase; connections with different addresses share no
state but the maps' keys. For RAWListen the fresh connection may be listed by ListAgain (and must
not enter connSet by it), the buffer is too small for a probe's answer beside a handshake, so
probes are lost and repeated, and the second incarnation of the history connection meets every
step of Listen. For the recording two faults are a record broken off and then another one broken
off or lost in the same way, with each loop between its two writes; a second file is enough for a
rotation at every point. For the replay the recordings go on after the records read ahead and
refill the timer; none, one and as many records as are read ahead (one more than can be borne)
cannot be read; one message is filtered, one has no method, two have the same timestamp, and one
read later is earlier than those read ahead; `Horizon` is when the last of them is due. For
Decoding the four fields in use do not fit into the table of two, so fields are evicted and sent
anew all the time; a call can have its block cut, its message split and a SETTINGS, and calls
follow each other for ever.

In `http2_conn` and the Processor runs deadlock is not checked: the peers stop when their calls or
scripts are over. Nor is it in the RAWListen runs, where Listen ends and the clients stop; the
deadlock of its two goroutines is the subject of RemoveEnds, since clients may go on meanwhile.
The recording and the replay end when their inputs do, and Decoding stops when the program has
panicked. In `tcp_buffer` it is checked.

Fairness. `TCPBuffer!FairSpec` has weak fairness of `Push` and `Read`: the processor goroutine
goes on when the channel has room, and the frame reader loops over Read. `Http2Conn!FairSpec` has
weak fairness of the two goroutines and of the reader of OutputChan, which is the Emitter's copy
loop. Nothing is assumed of the network or of the peers, so the liveness properties are
conditional on what was captured. `RAWListen!FairSpec` has weak fairness of the two goroutines and
of Notice, since kernels do repeat keepalive probes and retransmissions until they are answered;
nothing is assumed of the clients. HistoryEnds holds only while no client comes back with the
addresses of a history connection: if one does, its SYN may lead to finding 3.
`Recording!FairSpec` and `Replay!FairSpec` have weak fairness of every copy loop, of the workers,
the timer's goroutines and of time; that an EndCall is fair means that a call ends, which is
assumed of all but the calls in `Unanswered`. Nothing is assumed of faults. AllCalled and
AllReplayed hold while fewer calls stay unanswered than there are workers; with as many,
msgChannel fills and the copy loop stands still, since a call has no deadline. AllReplayed is
conditional, too, on fewer unreadable records than are read ahead.

## 4. Proofs

`TCPBufferProofs` proves, for every sequence space, window, channel capacity, ISN and set of
segments:

* `TypeCorrect`: `Spec => []TypeOK`
* `NothingLost`: `Spec => []NoSegmentLost`
* `ReadableExact`: `Spec => []ReadableAgrees` (the first half of CountersAgree)
* `Counters`: `Spec => []CountersAgree`
* `Refinement`: `Spec => StreamSpec`, i.e. TCPBuffer implements ByteStream.

Assumptions: `SizesAssumption`, `SegmentsAssumption` (both in `TCPBuffer`) and
`EdgeAssumption`: no segment ends just before sequence number MaxUint32. The last one is
necessary: after such a segment the code expects number 0, where the next one has MaxUint32.

The inductive invariant is `IndInv == TypeOK /\ PipeInv /\ ListInv /\ ReadableAgrees /\
NoSegmentLost`. None of the properties is inductive alone. `PipeInv` says that the reader's
buffer, the payloads in the channel and the segment being sent lie end to end from `nread` to
`front`; it is what makes a Read the next bytes. `ListInv` says that `expectedSeq` is the
sequence number of `front`, that List holds behind `front` exactly what the running AddTCP has
already sent, and that all of List lies within a stretch shorter than the sequence space; it is
needed since the code compares sequence numbers only, and equality of numbers has to mean
equality of positions (`GetExpected`). The arithmetic below it is in `SeqShift`,
`SeqDistinct` and `WindowTest`: the window test accepts exactly the positions of the window, or
one more when its right border falls on the remainder by MaxUint32. TLC checks `IndInv` too.

`Counters` needs the bytes of a set of segments, which is a fold over the set (`BytesOf`), and so a
recursive function. `FoldTheorems` has what that takes: induction over the numbers, from the
well-foundedness of their order, and over the sizes of sets that the function of a fold exists
(`FoldExists`), both in first-order form. `SumsAgree` says that it has the same value for a set wherever
the recursion started; `BytesOfOne` that it does not matter which element comes first. The rest is that the segments that
wait are those in List that are neither sent nor being sent (`WaitingIs`): AddTCP adds one of them or
puts it in order, the removal at AddTCP's end takes none of them away.

`Http2ConnProofs` proves, for any number of calls, slots, parts of a call and places in OutputChan,
with and without responses, with calls cancelled or silent, GOAWAY and a timer that fires whenever
it can:

* `TypeCorrect`: `Spec => []TypeOK`
* `Inductive`: `Spec => []IndInv`
* `WholeMessages`: `Spec => []EmittedWhole`
* `RequestsAlone`: `Spec => [](~ RecordResponse => EveryMessageWhole /\ raced = {})`
* `NoMessageTwice`: `Spec => []AtMostOnce`
* `SlotsLeftClean`: `Spec => []SlotsClean`
* `ImplementsCallLog`: `Spec => CallLogSpec`, i.e. Http2Conn implements CallLog.

Assumptions: the ASSUME of `Http2Conn`, which has the types of the constants, and nothing of the
schedule. The properties excuse the slots in `raced`; without that they are false, as the run
`http2_conn_late` shows with one call. RequestsAlone excuses nothing: when responses are not recorded,
which is the program's default, every message is whole.

The invariant is `IndInv`, a conjunction of parts that build on each other, each about the slots not
raced. `SentInv` and `QueueInv` relate what the network has sent of a call to the frames not yet
taken, and say that these are in the order of the calls and of each call's frames; the exception are
frames of the response of a cancelled call, which a server that has not heard of it may send after
the next call's on the slot. `SlotInv` says that when a call has come to its slot nothing of an
earlier one is still to be handled there, and `OwnInv` that two calls are never at one. `CallInv` has
the two halves of a call's life. `KeptAt` is the reason EmittedWhole holds: whatever was captured of a
call before the frame now queued or at hand is queued, at hand or stored, however the handlers are
interleaved. `OverAt` says that after the last recorded frame, or a cancellation, nothing of the call
is left, and that DealInput is past the request then, so that it stores nothing of it any more: the token is
what tells DealOutput so. `HandlerInv` is what each `pc` implies of its frame, of EndStream and of the
channel held, `EndInv` that a mark EndStream is that of the last frame at hand, `TokenInv` that a
token in a slot's channel means that DealInput is past the request of the call that is there.
`MsgInv`, `EmittedInv` and `CleanInv` are the properties with what they need of the steps before (a
message about to be sent is whole; a call handed on is dealt with; a slot that is not as new has a part
of a call). None of them is preserved without the others: a slot is reset by the handler of one
direction and filled by that of the other. Every lemma about a step asks whether it raced the slot
first, and then has nothing to show; that the four steps of `raced` are enough is what is proved.

`ProcessorProofs` proves, for any set of addresses, any number of connections that use them one after
the other, any window, and GOAWAY of either side handled at any time before the addresses are used
again:

* `TypeCorrect`: `Spec => []TypeOK`
* `BytesOwned`: `Spec => []OwnBytes`
* `Tracked`: `Spec => []NewConnTracked`
* `Forgotten`: `Spec => []ClosedIsForgotten`
* `StreamsWhole`: `Spec => []Reassembled`, for a window of at least one position
* `ImplementsFeeds`: `Spec => FeedsSpec`, i.e. Processor implements ConnFeeds
* `Inductive`: `Spec => []IndInv`

Assumptions: `ProcessorAssumption`, and `InScope`, a hypothesis of each: the client closes first or
resets (the run `processor_server_close` shows that otherwise NewConnTracked is false), the preface is
captured alone and a GOAWAY handled in time, and at most two packets of a connection come again.
Three packets could be a whole handshake, in order, after the connection has ended: the code then
creates it anew, and ClosedIsForgotten is false. With a window of 0 the second of two packets is
refused when it comes first and nobody sends it again, so that Reassembled needs a window of 1 at
least; the code's is far larger. `ImplementsFeeds` needs no such window. It uses `IndInv` before a
step, because the entry of ConnRepository is then the newest Http2Conn of its addresses, and after it,
because the connection whose handshake ends then has only one (`OneEach`) and so had none before.

What the processor does with a packet depends on the state the packets before it led to, those of
earlier connections included. `StageInv` therefore enumerates the stages of a DirectConn: never used
(`Unused`), SYN to be captured (`Opening`, in whatever state of the handshake the last connection's
repeated packets have left the machine), each step of the handshake (`Received`, `Answered`,
`Established`), data under way (`Transfer`), and the ways to close (`Closes`, `LastAck`, `Early`,
`Ended`). A stage fixes what the network has yet to send, both map entries, and by `Fed` what the
connection's buffers were given. `Held` gives a TCPBuffer's state as a function of the set of packets it
has accepted, which makes the order and the repetitions irrelevant: `DeliveredEither` is the lemma
that AddTCP adds the packet to that set or leaves the buffer as it was. `ConnsInv` keeps the
incarnations of old Http2Conns apart from the new one's, and `StageFrame` is the lemma by which a
packet of one connection leaves all other stages alone.

`RAWListenProofs` proves, for any number of connections, incarnations and packets and any capacity
of the capture's buffer:

* `ListenTypes`: `Spec => []TypeOK`
* `FreshConnections`: `Spec => []FreshFollowed`
* `HistoryGone`: `Spec => []DoneMeansGone`

Assumptions: `RAWAssumption` and `NoGapAssumption` (`GapOpens` is FALSE); without the latter a
connection opened between listAllConns and OpenLive is a counterexample to DoneMeansGone. The
invariant is again called `IndInv`. Its centre is `LiveInv`: `Live`, the connections from before
the capture that their clients still have, is contained in whichever variable Listen relies on at
its `pc` (connSet always, listed and result while Intersection runs), and no SYN in the queue is
of a live connection, so that a removal takes none out. The second half is what DoneMeansGone
needs of the packets under way: a SYN is sent only by a client without a connection, but handled
much later. `OldInv` gives FreshFollowed: Intersection can only take connections away, and before
the capture is on there are no others to be listed.

`ReplayProofs` proves, for every recording, timestamps, speed, number of
records read ahead, and any number of timer workers, callers and places in the channels:

* `ReplayTypes`: `Spec => []TypeOK`
* `NoneEarly`: `Spec => []NotEarly`
* `AtMostOneCall`: `Spec => []CalledOnce`
* `InOrderOfTime`: `Spec => []OrderKept`
* `OrderInvariant`: `Spec => []OrderInv`
* `ChainKept`: `Spec => []TasksKept`

Assumptions: the ASSUMEs of `Message`, `FileDirInput`, `Emitter`, `GRPCOutput` and `Replay`: types
and sizes, that the records of a recording are distinct messages, and that `Horizon` lies behind
the last one. For the first two the invariant is `Inv == TypeOK /\ Started` and `Inv /\ Due`.
`Started` says that nothing is under way before the first records were read, and that the
benchmark then is a timestamp of the recording not above any of those read ahead. `Due` says of
every task that the ticks it has left and those elapsed are together at least its message's
Offset, and the same of those in a worker's hand or the channel with none left; it is preserved
although tasks are put in at any later time, since a task's distance is counted from then. That is
the same reason why OnTime does not hold. NotEarly then follows because the benchmark is not above
the timestamps `Turn` starts from, and division is monotone (`DivMonotone`).

For CalledOnce, `At(x, kind, i)` enumerates the places a message can be at: unread, in init's
batch, in the timer, in a worker's hand, in a channel, in the copy loop, or called. `Once` says
that a message is at one place only. Each action's lemma maps the places after the step to places
before it, the same message at both, two of them never to one; so two places after would be two
places before. It starts from the assumption that the records of a recording are distinct.

OrderKept says nothing of when a message is due, and its proof need not either. `PairInv` compares two
messages, of which the first goes before the second, by the ticks their tasks have left: while both are
in the timer the second has more; while the first is still in init's batch or with the callback that
read it, the second has more than the first is going to get (`Later`); and once the second has left
the timer nothing is left to be done for the first (`Gone`). Both count down together. What makes it
inductive is `prompt`: time does not pass while a task is due, a callback runs or init schedules. The
second message cannot have been put in and counted down before the first was read, since a message
is read before all those behind it (`ReadInv`) or is one of the first ReadDepth. `TimerInv` says that
the timer is sorted, which `AddTaskInserts` gives, and that no task has more left than its Offset. For
TasksKept the invariant is `Tasked`, TasksKept and that the workers busy are finitely many; each
action moves a task between the batch, the timer and a worker, and only an unreadable record takes
one away.

`RecordingProofs` proves, for any number of inputs, messages, callers, places in msgChannel, files and
faults, with any filters and the limiter on or off:

* `RecordingTypes`: `Spec => []TypeOK`
* `Inductive`: `Spec => []IndInv`
* `EveryOutput`: `Spec => []SameToAll`
* `LogReadsBack`: `Spec => []ReadsBack`

Assumptions: the ASSUMEs of `Message`, `Emitter`, `GRPCOutput`, `FileDirOutput` and `Recording`: among
them that the messages to come are told apart, and that there are one GRPCOutput and one FileDirOutput.
`Origin` says that the messages an input has yet to give are the last ones, and that those passed on
are among the others, each once. So the next one is new to every output. `Due(i, out)` says that the
loop of input i still has to write to this output what it has read (`AtHand`: the last message passed
on), and `Sent` that the output has what was passed on in order, not yet the message it is due, and
all others as long as nothing has failed. A write makes it no longer due; a fault may do so without
a write, which is why only the order survives. The messages of other inputs, written in between, are
none of this input's, which takes `Origin` of both. That is `OutputsInv`, the first part of IndInv.

For ReadsBack the reader has to be followed without reading the log again from its start at every
step. `PiecesTrace` and `FilesTrace` turn its two folds into the sequence of its states, from which
`NewFile` and `LongerFile` say what a write does to the reader at the end of the log: it goes on from
where it was, with its unfinished line lost if the log rotated (`LogRead`). So the second part,
`LogInv`, is about that reader: its results are those of the messages recorded; it is between two
records, or within the one record that is being written (`Within`: its complete lines are the
`Heading`, and the last line lacks its newline), or within one that was never finished. What makes it
inductive is what an unfinished record does to the next: its lines are `Cut`, so that with the first
line of another record after them they are `Spoiled`, no message whatever follows (a line is not the
item the first line announces), and Unmarshal fails on them (`SpoiledMore`) and does not panic; a
record that is `Within` its message is that message (`Whole`). The third part, `GluedInv`, says that a
message is not glued before it is written, so that writing it changes nothing for those recorded.

`DecodingProofs` proves, for any header fields and their names, any set of blocks, any lengths of
messages, sizes of tables and announced sizes, with and without CONTINUATION, and any number of cut
blocks, split messages and SETTINGS:

* `Inductive`: `Spec => []IndInv`
* `DecodingTypes`: `Spec => []TypeOK`
* `TablesFollow`: `Spec => []TablesAgree`
* `CallsAsSent`: `Spec => []AsSent`

Assumptions: `DecodingAssumption`. Encoding a block, decoding it and storing its fields are folds; the
lemmas of `FoldTheorems` (`FoldExists`, `Trace`) turn each into the sequence of its intermediate
results, one element after the other, and what is to be shown is then carried from each to the next.
`Coded` relates one representation to the sender's table before and after it, and `Encodes` a
whole block. The lemma that matters is `DecodePart`: a table that is in step with the sender's (`InStep`)
decodes any part of an encoding to the fields of that part, and is in step with what the sender had
there. `BlockParts` uses it twice, for the HEADERS frame and for the rest in CONTINUATION, and
`StoreParts` says that the fields stored in two lots give the headers of the whole block.
The invariant has three parts beside the types. `TablesInv`: the sender's table is the beginning of
the program's (`Follows`), and the sizes it still owes are none of them smaller than what it has in it,
the last one its own (`Owes`), so that resizing by them takes nothing away that it may refer to;
without that the program's table is not in step at the next block. `HeadersInv` and `BodiesInv` say,
stage by stage, which part of what was sent is in the slot; the former depends on TablesInv, the
latter on DATA frames only. What upset the tables, split a message or soiled a slot is let through as
in the properties.

Only model-checked: all liveness, which is out of the prover's reach. The runs with an expected
violation have nothing to prove.

## 5. Findings

1. EndStream is stored before the content it belongs to; DealInput may hand on a response without
   its last frame (`http2.go:295`). EveryMessageWhole is violated.
2. When the server closes first, the state machine stays in CLOSE_WAIT and later connections from
   the same address and port are not captured (`state_machine.go:112`).
3. Intersection takes its read lock twice; a Remove in between leaves Listen and the listener
   waiting for each other (`conn_set.go:82`).
4. The time of a record in a replay is counted from when it is scheduled; records behind those
   read ahead are late by the time that has passed by then (`input_file_dir.go:82`).
5. Five bytes are taken from every DATA frame; of a message in two frames the second part loses
   bytes, and a frame shorter than that is an index out of range (`http2.go:813`).

Known limits, which the code has by its design and the models assume away where named:

* A segment boundary on sequence number MaxUint32 stops a direction for good (`tcp_buffer.go:112`,
  and `processor.go:79` after the preface): `EdgeAssumption`.
* A preface that is captured after later data, or again, moves the expected sequence number
  whatever was captured before (`processor.go:79`): `PrefaceAlone`.
* The SYN of a connection that comes back with the addresses of a history connection is used up
  for the removal and not handed on: the connection is neither reset nor followed
  (`input_raw.go:97`). It is in the model; the properties speak of the other connections.
* Three packets of a handshake that come again after the end of their connection create it once
  more (`state_machine.go:112`): `MaxDups` in `InScope`.
* GOAWAY of either side takes the connection out of ConnRepository at once, though the peers carry
  on with the calls under way: their later packets are dropped, the client's as well as the server's
  (`http2.go:443`). Processor has them (`left`), and Reassembled promises no more than a prefix then;
  in Http2Conn nothing is captured any more. And it is deleted by address, in a goroutine that may lag behind: when the addresses are used again by then, the entry is the new
  connection's (`GoAwayInTime`; without it NewConnTracked is violated).
* The goroutines of a connection may be at odds over a slot in the four ways of `raced`
  (`http2.go:295`, `http2.go:446`, `http2.go:856`): half a message, a call handed on twice, a slot
  that is not reset, or DealInput left waiting for room in `done` may come of it. They are in the
  model, and let through by the properties.
* A connection opened between listAllConns and OpenLive (`input_raw.go:198`): `GapOpens`.
* A record or a rotation between the two writes of another record (`output_file_dir.go:67`): the
  reader then takes two records for one, or meets an empty one and panics. It is in the model, and
  `tangled` lets it through.
* As many records that cannot be parsed as are read ahead stop a replay (`input_file_dir.go:93`).
  It is in the model; AllReplayed is conditional on fewer.
* A HEADERS frame with END_STREAM whose block goes on in CONTINUATION, a representation cut in
  two, and SETTINGS applied to the decoder of the wrong direction (`http2.go:403`,
  `http2.go:475`). They are in the model: `soiled`, `upset`.

## 6. Not modelled

* Emitter.Close, whose only call in main is commented out (`main.go:187`), and with it Close of
  every input and output; `TCPBuffer.Close`, which nothing calls (the frame readers of an ended
  connection wait for ever).
* Compression: of messages (gRPC's compressed flag is taken as set or not, the content as kept or
  not), of rotated log files, and the deletion of old ones (MaxBackups, MaxAge).
* The JSON codec, which puts a record on one line; RocketMQ and standard output, which are
  adapters; settings and the construction of the plugins, which have no state after the start.
* PBFinder's cache and the conversion from protobuf to JSON: a lookup that fails is `Silent` in
  Http2Conn. The objects Get returns on a miss are the cached ones; the race on them is in memory,
  not in control.
* Retransmissions with other boundaries (`SegmentsAssumption`), and the blocking of the processor
  by one connection's full channel (`tcp_buffer.go:115`), which follows from two modelled facts,
  but has no composed model.
* The second half of an HPACK representation is taken as an error when decoded; the library may
  also take it for other fields. Padding and priority of frames.
* A write to the log that fails leaves nothing behind: a short write, which leaves a part of the
  record or of the separator in the file, is not modelled.
* A peer that raises its HPACK table above the 4096 of the start: `TakeUp` caps the sender's table at
  that, as the library's encoder does unless told otherwise.
* The two Adds of `TCPBuffer.updateCounters` are one step: each counter is atomic by itself, and
  only the log reads them.
* In Http2Conn, the loads of EndStream in `Signal` and `Check` are one step with the choice of the
  channel and with the branch that follows; the difference can only show on a slot that is raced.
  RST_STREAM sent by the server, and calls other than unary ones.
* Packets other than TCP over IP; several network cards and a full outputChan; resets of history
  connections over IPv6 (the code lists and resets IPv4 only).

## 7. Plan

Done: `TCPBuffer`, `Http2Conn`, `Decoding`, `Processor`, `RAWListen`, `Recording` and `Replay` with
their proofs. Next:

1. `Capture`: Processor composed with TCPBuffers that block; run: one connection whose reader
   stands still holds up the others.
2. Abstract specifications: a replay as a bag of calls refined by `Replay`.
3. A small model of PBFinder's cache and its users.
