# TLA+ models of tcp-server-simulator

The simulator sends the rows of a delimited file over TCP or UDP, as a server or
as a client, or receives records over the same transports and writes them to a
rotating file.  A tkinter GUI gives commands to one `SimulatorController`, which
owns an asyncio loop in a thread of its own.  Everything below that loop is
cooperative: the only interleavings are those at an `await`, and they are what
these models are about.

Files: one module per component (`SinkWriter.tla`, `Controller.tla`, ...), an
`MC*.tla` module with the small instances TLC checks and one `.cfg` per run, and the
`*Proofs.tla` modules, whose theorems TLAPS checks.  `PROJECT.json` lists the
components, the runs, the mutants that show each property can fail, the source
lines of every definition, the hazards and the theorems.  Source paths below are
relative to `src/src/tcp_sim/`; documents are `src/README.md` and `src/docs/`.

## 1. Inventory

### Receiver role

**SinkWriter** (`engine/sink_writer.py`).  *State:* an unbounded queue of records
and sentinels, the count of payload bytes in it, a backpressure flag with two
watermarks, the drain task, an open file with its cached size, a mailbox of one
pending configuration.  *Operations:* `submit` (never waits), `configure`
(waits for the drain), `start`, `stop`, the drain `_run`.  *Hard:* failures of the
file system inside the drain, two callers sharing the mailbox, watermarks changed
under queued bytes, rotation half done.  *Correct if* the byte count is that of the
queue, a pause is always lifted by a living drain, the backups are the newest
records in order, and no generation outgrows its cap.

**ReceiverEngine** (`engine/receiver.py`) connects a transport to the sink: records
go down through `_handle_record`, the sink's watermark events come back up as
`set_paused` in the middle of the delivery that crossed the mark.

**TcpServerReceiver** (`transport/tcp_server_receiver.py`).  One handler per peer:
gate, `read`, framer, deliveries.  *Hard:* the gate is tested before the read, so a
handler already in `read` brings one more chunk after the pause.  *Correct if*
nobody is left at the gate, and the overshoot is bounded.

**Framer** (`engine/framer.py`).  Cuts a byte stream into records by LF, CRLF or
chunk, with a cap on a record.  *Correct if* the records do not depend on how the
stream was cut into reads.

**TcpClientReceiver** (`transport/tcp_client_receiver.py`).  One run task: connect, read
until the connection ends, sleep, connect again.  **UdpServerReceiver,
UdpClientReceiver**: datagrams taken as records.

### Sender role

**TcpServerSender** with **ConnectionManager** (`transport/tcp_server_sender.py`,
`transport/connection_manager.py`).  *State:* a bounded queue of payloads per client,
blocked flags, ready set and event, a reader and a writer task per client, the
monitor of slow clients.  *Operations:* connect, `broadcast`, `_disconnect_client`
(from five places), `stop`.  *Hard:* several coroutines disconnect one client at
once, each joining tasks that may be in a disconnect themselves; cancellation
inside `wait_closed`.  *Correct if* a client's stream is a header and consecutive
messages, the ready event follows the ready set, and no client is left in a table.

**SendScheduler** and **SimulatorEngine** (`engine/scheduler.py`,
`engine/simulator.py`).  A cursor over the selected lines of a file, a swap that
waits for the next step, an automatic run.  *Correct if* nothing is skipped while
nobody is connected, the header comes first, and a swap takes effect.

**TcpClientSender** (`transport/tcp_client_sender.py`).  *State:* an unbounded queue of
payloads, a run task, a connection and its event.  *Operations:* `start`, `send`,
`stop`, the loop `_run`.  *Hard:* `stop` meets the run task at any of its awaits, a
payload is written before it is known to arrive, timeouts are `OSError`s on some
versions of Python only.  *Correct if* payloads arrive in order and once, a started
transport connects again as long as the server is there, `stop` leaves nothing.

**UdpServerSender** (`transport/udp_server_sender.py`) with the hellos of
**UdpClientReceiver** (`transport/udp_client_receiver.py`).  *State:* a cache of the
addresses heard, in that order, with a cap and a time to live; at the other end a task
that says hello from time to time.  *Operations:* `register_sender`,
`cleanup_expired`, `send`, `start` and `stop` of both ends.  *Hard:* datagrams are lost,
either end restarts without the other knowing, and nothing relates the interval of the
hellos to the time to live.  *Correct if* a message goes to whoever was heard lately and
nobody else, a receiver that says hello often enough does not expire, and whatever took
it out of the cache it gets back in.  **UdpClientSender**: plain datagrams.

**FileReader** (`engine/file_reader.py`).  *State:* header and number of columns, shared
by a background scan, a preview and the generator of the rows to send; published
counts.  *Hard:* the fields are reset under whoever reads; lines and rows are read by
two opens of a file that may grow; a row may span several lines.  *Correct if* all
three agree on every row, totals published as complete are final, and what is sent is
the rows of the window, each with its own text.

### Control

**SimulatorController** (`gui/controller.py`).  Every command of the GUI thread is a
coroutine; fields name the active transport, engine, receiver and statistics
tasks.  *Hard:* commands are not serialised, every `await` separates the test of a
field from its change; each step of a start may fail.  *Correct if* nothing runs
that no field names, a start is all or nothing, a shutdown leaves nothing.

**Configuration, JSON logging, timestamps, preflight, GUI panels**: pure functions
and presentation.

### How they interact

    GUI thread --run_coroutine_threadsafe--> SimulatorController
        sender:   SimulatorEngine.run_auto -> step() -> _send_scheduled_message
                  -> TcpServerSender.broadcast -> queues -> writer tasks -> sockets
                  FileReader.iter_valid_raw_rows -> the records of the scheduler
        receiver: sockets -> peer handlers -> Framer -> ReceiverEngine
                  -> SinkWriter.submit -> queue -> drain -> file
                  SinkWriter watermark event -> ReceiverEngine -> set_paused

## 2. The modules

| Module | Models | Built on |
|---|---|---|
| `SinkQueue` | what the sink's byte queue promises: a cap, and a pause with hysteresis | |
| `SinkWriter` | the writer itself; implements `SinkQueue` (run `sink_files`) | `INSTANCE SinkQueue` |
| `SinkWriterProofs` | that it does, and that its bytes, files and pauses are right | `EXTENDS SinkWriter` |
| `ReceiverEngine` | peers, gate, deliveries and the abstract queue, composed | `EXTENDS SinkQueue` |
| `ReceiverEngineProofs` | its inductive invariant and theorems | `EXTENDS ReceiverEngine` |
| `Framer` | `feed` and `flush` against a reference on the whole stream | |
| `ClientStream` | what a client of a TCP server is promised: a header, then consecutive messages | |
| `ServerSender` | the TCP server sender with its connection manager; implements `ClientStream` (run `server_sender`) | `INSTANCE ClientStream` |
| `ServerSenderProofs` | that it does, for every instance, and what its tables and tasks keep to | `EXTENDS ServerSender` |
| `Streaming` | scheduler, engine and the controller's sending half over an abstract transport; implements `ClientStream` (run `streaming`) | `INSTANCE ClientStream` |
| `StreamingProofs` | that it does, for every instance; window and headers | `EXTENDS Streaming` |
| `FileReader` | scan, preview and generator of one file reader | |
| `DataPathProofs` | what the data goes through: rows out of a file, messages to a client, records out of a stream | `EXTENDS FileReader, ClientStream, Framer` |
| `Controller` | start, apply, stop, role switch and shutdown | |
| `ControllerProofs` | that no residue, half start or half shutdown is left | `EXTENDS Controller` |
| `ClientLink` | the two TCP client transports | |
| `ClientLinkProofs` | that `stop` leaves nothing, payloads keep their order, types | `EXTENDS ClientLink` |
| `UdpReply` | the UDP server sender and a receiver that says hello, over a lossy network | |
| `UdpReplyProofs` | that hellos outlive losses, and who is sent a message | `EXTENDS UdpReply` |

The receiver is modelled twice on purpose.  `SinkWriter` has the queue with its
records, files and configurations; `ReceiverEngine` needs only what the byte count
and the flag do, so it uses the abstract `SinkQueue`.  That the writer keeps to it
is the property `ImplementsSinkQueue`, with the two variables of the same name as
refinement mapping; when a configuration changes the marks or the cap,
`FollowsMarksInForce` says the same of each step with those in force.

The sending side is modelled twice too: `Streaming` sees of `ServerSender` a set of
ready clients and a broadcast that may be held up by a disconnect.  Both implement
`ClientStream`, whose variables are the number of the newest message, the clients open
for broadcasts, those that message is still due to, and what each client was given.
In `ServerSender` (`ImplementsClientStream`) a client was given what was written to its
socket and what its queue holds, and the message is due to the ones the suspended
broadcast has still to visit; in `Streaming` (`StreamFollowsSchedule`) messages are
named by the order in which they were drawn from the scheduler, so that the same
promise also says that no record drawn is passed over.

### What an action stands for

An action is what a coroutine does between two suspension points.  Where the code
does not suspend, neither does the model:

* `SinkWriter`: `Queue.get()` on a non-empty queue does not suspend, so with
  `task = "running"` no other coroutine takes a step (`Yielded`).  `fate` is a
  history variable: what became of each record.
* `ReceiverEngine`: a handler feeds all records of a chunk without suspending
  (`LoopFree`); `left` is the payload the running chunk can still complete.
* `ServerSender`: `pc[a]` names the `await` where coroutine `a` is; the coroutines
  are the reader and the writer of every client, the monitor, the sender of the
  broadcast and the caller of `stop`.  `cancelled` holds tasks whose
  `CancelledError` is still to be delivered.
* `Streaming`: the actors are the automatic run and the step button; `hand` is the
  message an actor has drawn and not finished sending.  `got`, `aired`, `headed`
  and `midSwap` are history.
* `Controller`: `todo[j]` is the list of steps a command has still to take; `cpu`
  is the coroutine that goes on without waiting.  A nested call is a list put in
  front; an exception replaces the list by the handler's.  `window` is the GUI thread in
  `shutdown`: after `LoopStops` no coroutine takes a step.
* `FileReader`: a step is one turn of a loop over the rows of a file, for the scan thread
  at any time, for the caller's preview or generator one at a time; a row is its
  number of fields and of physical lines, its text the lines it was cut from.  The text
  of the generator comes from the lines an earlier open had read, `size` rows of them.
* `UdpReply`: time passes in ticks (`Tick`); of `time.monotonic()` the server keeps the
  age of each address.  `recency` and `met` are history: who was heard in which order
  since the start, and whether a hello arrived since both ends are up.
* `ClientLink`: `pc` is the await of the run task, `stopper` that of the caller of
  `stop`.  `kind`, fixed in the initial state, says which of the two transports the
  behaviour is of; they share the attempts, the backoff and the cancellation, and differ
  in the connected loop and in how they close.  `Undisturbed` steps end an await no
  cancellation has reached, `Finished` ones a `wait_for` that may drop it.

### Abstractions

A payload counts as one byte in `ServerSender`, a record is a number or a byte
count elsewhere; bytes occur only in `Framer`.  Text formats, the event log, counters
shown in the GUI, TLS and port numbers are left out.  A file in `SinkWriter` is
the sequence of entries in each generation; what an exception inside a rotation
leaves is any prefix of its renames (`HalfRotated`).  In `Controller` an engine has
the number of the transport it was started with, and the transport is a TCP server,
whose `start` can fail; the connect loop of the client transports cannot.
Timeouts are nondeterministic: the slow-client timeout may be over for any blocked
client, `wait_for` on a stop may end it.

## 3. What is checked

State counts are distinct states.

| Run | Question | Bounds | States |
|---|---|---|---|
| `sink_files` | bytes accounted for, backups newest and in order, rotation cap, refinement of `SinkQueue` | 4 records, 2 paths with 2 and 1 backups, 2 callers, 2 configurations, every fault | 654 218 |
| `sink_live` | marks in force followed, records settled, `configure` answered | 3 records, watermarks swapped, 2 callers | 68 591 |
| `receiver_engine` | gate follows the sink, overshoot bounded, nothing dropped, peers resume | 3 peers, chunks of 2 bytes, marks 1 and 3, cap 8 | 1 864 |
| `framer` | records independent of the cuts | every stream of 6 bytes over 3 values, reads of up to 3 | 48 990 |
| `server_sender` | refinement of `ClientStream`, ready event, nothing left behind | 2 clients, 2 broadcasts, queues of 1 | 1 739 501 |
| `server_live` | lost and slow clients leave, `stop` leaves nobody, broadcasts end | 2 clients, one of which hangs, 1 broadcast, queues of 1, `stop` | 168 667 |
| `streaming` | refinement of `ClientStream`, window, header, swap, nothing drawn is lost | 2 clients, 3 files, 4 messages, 2 edits | 253 151 |
| `controller` | no residue, starts all or nothing, shutdown complete | 2 coroutines, 3 transports, every fault | 308 762 |
| `client_link` | stop complete, payloads in order and once, connects again | both transports, 3 payloads, 2 starts, 2 faults | 21 404 |
| `file_reader` | jobs agree on rows, totals final, window with its own text | files of up to 3 rows of 3 kinds, 3 jobs, 4 windows | 870 249 |
| `udp_reply` | served are those heard lately, hellos outlive losses, a receiver gets back in | 3 addresses, 2 entries, time to live 7, interval 2, woken 1 late, 1 under way, 1 loss in a row | 576 471 |
| `controller_overlap` | violated: a listening transport with no owner | 2 coroutines, no faults | |

Modules with more than a few variables have a type invariant.  `TypeOK` is checked in
`sink_files`, where wrong accounting breaks it; theorems state it for `SinkWriter`,
`ReceiverEngine`, `ClientLink` and `Controller`.  Elsewhere it is there for the reader.

### Why the bounds are enough

* `sink_files`: three records fill the queue exactly, so the cap, both watermarks and
  the drop occur; the first two fit one generation and the next two rotate, so "log"
  shifts a backup and "alt", with one, loses its oldest.  `sink_live` keeps the
  watermarks in three pairs, with the new low mark below, at and above the bytes
  queued.
* `receiver_engine`: with three peers one can be feeding, one in `read` and one at
  the gate; the cap 8 is exactly the one the theorem asks for (3 - 1 + 2 * 3).
* `framer`: the cap is 2, so records below, at and above it, and separators cut in
  two at the cap, all occur within 6 bytes.  In raw mode each read is a record by
  definition; only the cap on a record is checked there.
* `server_sender`: a queue of one overflows at the second message, the header
  included, and two clients are what it takes for one to hold up the other.  Two are
  too few for what section 5 says of a broadcast that raises on an old Python: it takes
  a third to be passed over.  The proof found that case; the theorems cover any number.
  `SwallowCancel` is TRUE here: before Python 3.12 `wait_for` may drop a cancellation
  that meets its result, and the project supports 3.10.
  The engine, whose run task awaits the broadcast, may be stopped in the first broadcast and is not in the
  second (`StopMeets`), so the stream goes on after one that raised.
* `server_live`: the header is enough to block a client and one broadcast to overflow
  it.  The second client hangs: the monitor and the broadcast get stuck at it, and the first one
  connects, recovers, is lost or overflows meanwhile.  It also connects while `stop` disconnects the other;
  a stop comes before the broadcast (`StopMeets = {}`), which keeps the run within
  minutes; the clients it ends were sent a header at most.
* `streaming`: the files have two, no and one record; the empty one is a swap target
  from which the next swap must still take effect.
* `file_reader`: three rows are a header, a row and one to disagree with it, or a row that
  is appended after the lines were read; a row of two lines makes row and line numbers
  differ, a blank one is a row of no fields, and the windows have a start, an end and
  a count, one of them invalid.
* `udp_reply`: two entries for three addresses evict.  An interval of 2, a sleep that ends 1 late, a
  loss and a hello that takes 1 come to (1 + 1) * (2 + 1) + 1 = 7, the time to live, at which
  `now - last_seen > ttl` (`udp_server_sender.py:132`) does not expire yet.  Ages saturate one tick past the time to live,
  so the behaviours do not end.
* `client_link`: two starts show what a second one inherits from the first (queued
  payloads, an event, a dead task); two faults are an outage and a loss, in any order.
* `controller`: two coroutines are two stops at once, or a shutdown that overtakes
  one (`Closing` is the one shutdown waits for); three transports are a start, its
  replacement and a role switch.

Deadlock is not checked: a peer may never send, a user may never click, and every
one of these systems may come to rest.

### Fairness

Safety runs assume none.  The others assume what the loop and the sockets give:

* asyncio runs every ready task, so each coroutine step that needs nobody else is
  weakly fair: the drain, the steps of a disconnect, the end of a chunk, a run that waited
  for a client (`Resume`).  In `Streaming` the resumption of a broadcast that a disconnect holds up
  (`Continue`) is not: `wait_closed` has no timeout (`tcp_server_sender.py:270`).
* a socket whose peer reads is flushed (`Flush`), and a `drain` that does not get
  through runs into its send timeout (`WriterFails`); a reset is noticed by the reader.
* the monitor's `sleep` ends (`MonitorScan`).
* the sleep between two attempts and the timeouts end (`RunTask`, weakly fair); a server
  that stays up accepts one of infinitely many attempts (`OpenConnection`, strongly
  fair: without it every attempt may time out).
* the sleep of the hello loop ends, a hello that is under way arrives or is lost, and time
  passes (`HelloWakes`, `HelloArrives \/ HelloLost`, `Tick`, weakly fair); a network
  that is asked again and again delivers in the end (`HelloArrives`, strongly fair).
  `asyncio.sleep` never ends early but may end late, and a datagram takes time: `Tick` lets up to
  `Late` ticks pass over a hello that is due and `Transit` over one under way.
* peers, callers and clicks are not fair: nobody has to connect, read, send or stop.

In `ServerSender` the coroutines need no fairness among each other: the loop runs one of those that
can go on (`Runs`), whichever it is.  In `server_live` one peer hangs (`Stalled`): it neither reads
nor closes, so its connection neither empties nor breaks, and what waits for it in `wait_closed` waits
for ever.  The properties say where that counts: `LostClientLeaves` is of the other clients, a
slow client that hangs is only cut off the broadcasts, and a broadcast or a stop may be `Stuck` at it.
The run takes cancellations that arrive (`SwallowCancel = FALSE`, Python 3.12 and later): if one is dropped by a drain
that then fails (`DeliverCancel`), the writer disconnects its client itself and may join the
reader that joins it.

### What the properties exclude, and why

`ChunkingIrrelevant` leaves out CRLF records at the cap, `HeaderOnceFirst` clients
that connect in the middle of a swap, `StreamFollowsSchedule` and `DrawnIsAired` are
checked while the step button does not overtake the automatic run (`MayOverlap =
FALSE`), `LostClientLeaves` and `SlowClientLeaves` a client whose `wait_closed` was cancelled
and a client that hangs, `BroadcastReturns` and `StopLeavesNobody` a broadcast and a stop that are stuck at such
a client, `StopLeavesNobody` also a `stop` that interrupts a disconnect, `NothingOutlivesClient` a writer in `drain` when cancellations may be
dropped, `NoResidue` the socket of a stop that was cancelled, `SwapTakesEffect` a run that
is paused, waits for a client or is in a broadcast,
`QueuedBytesAccounted` a drain that died of a failed open, and the passing `controller`
run starts nothing while another command is under way; `client_link` takes
Python 3.11 or later (`TimeoutIsOSError`), and nobody starts a client transport
while another coroutine stops it, as the controller never does.  `server_sender` runs
without `stop` of the server (`MayStop = FALSE`), which `server_live` has; the theorems have both.
`ImplementsClientStream` takes steps of `ClientStream` or of `Raises`: a broadcast that is
cancelled, or that waits for a future another coroutine's cancellation ended, raises, and
whoever it had still to visit does not get its message; everyone's stream stays a header and a run,
with a gap after that message.
`VerdictsAgree` and `SentRowsAreTheWindow` speak of jobs nobody else reset the
shared fields under (`alone`), and `udp_reply` of intervals that fit the time to live,
late wake-ups and the time of a hello included (`IntervalAssumption`), which nothing in the code enforces.  In each case the code does
otherwise in the excluded case; section 5 lists these.

## 4. What is proved

The theorems hold for all constants that satisfy the named assumptions, which TLC evaluates in
the runs.  Most come from the constructors of the code; `ThresholdAssumption` of `ServerSender`
is of the defaults the controller uses (no constructor compares the three limits), and
`IntervalAssumption` of `UdpReply` is what an operator has to heed.  A theorem that needs
more says so in its `ASSUME`.

### The receiver

`ReceiverEngineProofs` proves, for every finite set of peers, every chunk size and
every choice of watermarks and cap that `SinkConfig` accepts:

* `TypeCorrect`, `FlagCorrect`, `GateCorrect`, `BoundedOvershoot`: `Spec` implies the
  invariants `TypeOK`, `FlagMatchesBytes`, `GateFollowsSink` and `OvershootBounded`;
* `NoLoss`: if moreover `CapForPeers` holds, that is `queue_max_bytes` is at least the
  high mark less one plus one chunk per peer, no record that came over TCP is dropped.

*Argument.* Inductive (`IInv`): types, the flag agrees with the count, the gate
follows the flag, and while paused

    queuedBytes + left + Yield * |handlers in read| =< High - 1 + Yield * |peers|.

"Nothing dropped" is not inductive: whether the next record fits depends on how much
may still come.  The bound above counts all of it: what is queued, what the running
chunk has left, and one chunk for every handler that has passed the gate.  It is
established when the flag rises, because the handler that raised it is itself
not in `read` and leaves room for its own chunk, and every step afterwards moves
bytes from one term into another or takes some away.  `NextInductive` has one step per
action of `Next`.  `NoLoss` follows with the invariant extended by `~dropped`.

*Assumptions:* `WatermarkAssumption` and `SizeAssumption` (`SinkQueue`, from
`SinkConfig.__post_init__`) and `PeerAssumption` (a finite set of peers, a natural
chunk size).  TLC evaluates them in every run of a module that extends these.

`SinkWriterProofs` proves, for every sequence of record sizes, every set of
configurations, callers and paths, and every failure of the file system:

* `SinkTyped`, `BytesAccounted`, `NoPauseWhenIdle`, `OldestLostFirst`: `TypeOK`,
  `QueuedBytesAccounted`, `IdleMeansUnpaused` and `OnlyOldestLost`, with no further
  hypothesis;
* `MarksInForceRule`: `FollowsMarksInForce`, with no further hypothesis: whatever is
  swapped in, every step is one of `SinkQueue` with the marks and the cap of the current
  configuration, so the flag may lag behind a swap until the next `submit` or drained
  record, and no step decides by marks that are gone;
* `WriterIsSinkQueue`: `ImplementsSinkQueue`, if no configuration moves the watermarks
  or the cap (`MarksFixed`), which follows from it.  The constants of `SinkQueue` are
  those of the first configuration, so it says nothing once they are swapped;
* `RotationCapKept`: `RotationCapHolds`, if no configuration changes the rotation cap
  (`CapFixed`) and no entry is empty (`EntriesWeigh`).  Raw mode adds no separator, and
  after an empty record the file has size 0 although it has an entry, so that a
  record larger than the cap is written behind it;
* `NewestKept`: `NewestRecordsKept`, if all configurations of a path give it the same number
  of backups (`BackupsFixed`): fewer backups than before leave old generations behind,
  beyond the last one that the rotation shifts.

*Argument.* `SinkInv` is inductive alone: the queue, with its byte count and a pause only
while bytes are queued (`QueueInv`), the task with its handle and its mailbox (`ControlInv`), the
files (`FilesInv`).  `CapInv` adds that the size the test goes by is that of the open
file and that every generation of two or more entries is within the cap.  For the rotation the
`for` loop of renames is unfolded once: `Pushed` gives the generations after the
renames down to `k`, and `Carried` says that what is left is the old generations, each
moved as a whole, in the same order, with nothing but the oldest backup gone.
`NewestInv` says that what is in the queue is younger than what was written, and
that the generations of each path are ordered and have no hole among the records written to it;
both survive `Carried`.  Byte counts and renames are folds.  What a fold
computes is proved without an induction theorem, by the least prefix at which the
claim would fail (`LeastNat`).

### The clients' transports

`ClientLinkProofs` proves `StopComplete`: `Spec` implies `StopLeavesNothing`, for any
number of payloads, starts and faults and on every version of Python, the ones that
drop cancellations or do not take a timeout for an `OSError` included.  The invariant
`StopInv` says that the task is there while the transport runs or is being stopped,
that `stop` closes only after it has joined it, and that a receiver outside its
connected loop has closed its connection itself: its `stop` does not clear
`connected_event`.  The sender's needs no such clause, because its `stop` closes what
the cancelled task may have left.  The bounds are constants of the module, so the
theorem has no assumption.

`SendOrderKept` is `SentInOrderOnce` for the same instances.  The invariant speaks of the
whole way of a payload: what the server has, what is on the wire and what is queued are,
one behind the other, in the order of `send` (`Rising`, `Precedes`).  A payload leaves
one part only for the next or for good, and while no fault, timeout or stop has happened the lengths of the
three add up to the number of sends: a rising sequence of that many numbers up to it is all of them.  `LinkTyped` is the type
invariant.

### The TCP server's stream

`DataPathProofs` proves `HeardContiguously`: `StreamSpec` implies `Contiguous`, for any
set of clients, with no assumption.  `Contiguous` is not inductive, because a client may
miss the message that is being broadcast.  `StreamInv` says by how much: a client that
is due message `sent` has heard `sent - 1` last, every other open one `sent` itself,
and a header or nothing counts as either.  The one lemma about sequences
(`RunGrows`) is that a message appended after its predecessor prolongs the run.

`ServerSenderProofs` proves, for any clients, marks, limits and number of messages:

* `ReadyEventExact` and `NothingLeft`: `ReadyEventFollowsClients` and
  `NothingOutlivesClient`, with `stop` or without, on every version of Python;
* `ServerIsStream`: `ImplementsClientStream`, under the same conditions;
* `UndisturbedStream`: while neither the engine nor the server is stopped and with cancellations that arrive (`~MayStop`,
  `StopMeets = {}`, `~SwallowCancel`; Python 3.12 and later) `Spec` implies `StreamSpec` itself, without `Raises`.

*Argument.* A coroutine that tears down a client is past certain tables, and each step
of `_disconnect_client` is known by where its coroutine stands: `TearInv` says which
tables have already lost the client there, `TasksInv` that a task at its work is in its
table or has a cancellation to come, `TablesInv` that tables hold registered clients.
None of it depends on how many coroutines tear down one client, which is why
overtaking does no harm.  `DataInv` adds that a client before its connection has
been given nothing.  Each action is then shown to have one of a few
effects on the control state, and each effect to keep the invariant.
In terms of `ClientStream`, connecting is `Join`, the first part of a broadcast `Publish`, each
later part `Resume` or nothing, taking a client out of the ready set `Leave`, the
last step of its disconnect `Forget`; a writer moves a payload from the queue to the
socket, which are both part of what the client was given.  `CalmInv` says that only reader and
writer tasks are ever cancelled, each before it is past its own disconnect, and that
nobody waits for a task that was not told to end; it makes `Raises` impossible.

`StreamingProofs` proves `StreamingImplements`: if no message is drawn while another
is in hand (`~MayOverlap`), `Spec` implies `StreamFollowsSchedule`, for any clients,
step buttons, files, windows and bounds.  The invariant `StreamingInv` says that at most one
coroutine is not idle; that the message it holds is the newest one drawn, and the
newest one broadcast or the next; and that only a coroutine in a broadcast has clients to visit.
Each action is then a step of `ClientStream` or leaves it alone: drawing with a client
there, or resuming with the message held, is `Publish`, going on after a disconnect is
`Resume`, or nothing if all who were due it are gone.  Together with `HeardContiguously`
this gives: what the controller sends each client is a run of consecutive draws.

`WindowRight` is `WindowSelects`, with no hypothesis at all: however step and run overtake each other,
what the scheduler offers is the lines selected of the file under way.  `SourceInv`
says more, as it must: the scheduler is positioned as the controls in force say, a swap
that waits is of the newest file, and at most one is waiting.  The window of a file is a sequence of
consecutive numbers (`From`), so that selecting by start, count and end is arithmetic.
`HeaderPrecedes` is `HeaderOnceFirst` under `~MayOverlap`.  `HeaderInv` says for each
client what it was sent so far, that the header of the file under way was announced to
it, and that a message a coroutine still holds for it is a fitting one to
send next (`Proper`).

### The controller

`ControllerProofs` proves, for any number of coroutines and transports and any steps that fail:

* `NothingLeftBehind`, `StartsAreWhole` and `ShutdownIsComplete`: `NoResidue`,
  `AllOrNothing` and `ShutdownLeavesNothing`, if a start or an apply is given only while
  no other command is under way (`~MayOverlap`; stops may run side by side, one may be
  cancelled, and a shutdown may overtake them and end the loop under them);
* `ControllerTyped`: `TypeOK`, with no hypothesis.

The hypothesis cannot be dropped: `controller_overlap` (section 5) is the counterexample.  What
the three say is what holds: that a socket a cancelled stop left listening belongs to
somebody, and that nothing is left when the loop ends, is false (section 5).

*Argument.* The three properties speak of moments at which no command is under way, so
the invariant has to say who will see to what.  `ProgramInv`: what a coroutine has still
to do is one of the remainders of its command's program, with nested programs in front and their
continuation behind.  `ObjectsInv` gives every object its kind and state.  `SenderInv` and
`ReceiverInv` say, each for its role, what a coroutine may rely on before each step (a
start before `sending` holds the transport that the field names), and, for every object that is not at rest,
which field names it or which coroutine is before the very step that will stop or clear it
(`Pending`).  With no command under way nothing is pending, and the first two properties
follow.  A transport that is `cut` is pending nowhere and may be named or not.  The third is of a moment at which other
commands may be half way through, so it has an invariant of its own: `ClosingInv` says, for each remainder of the
program of `shutdown`, which fields are clear by then and stay so, since stops set none.  A step of one role leaves the other's half alone
(`SenderRests`, `ReceiverRests`); this is proved once per role and not once per pair
of steps.

### The UDP server

`UdpReplyProofs` proves `HelloOutlivesLosses`: `Spec` implies `HelloKeepsFresh`, whatever
the cache, its cap and the other senders do.  Time since the last hello that arrived
is cut into slots of one interval and one late wake-up each (`Period`); after `lost` losses the age of
the receiver and what is left of its sleep are within `lost + 1` slots, a hello under way
counts as the end of one more, and it has not been under way for longer than `Transit` (`HelloInv`).
`IntervalAssumption` says that `MaxLost + 1` slots and the way of the last hello fit the
time to live; nothing in the code enforces that, and TLC evaluates it in `udp_reply`.
The argument is nonlinear in period and losses only in `SlotsFit`.

`RepliesToTheDue` is `SentToTheDue`, for every cap, time to live and number of addresses.  The
reason is one the code never states: the cache is always the end of the order in which
addresses were heard (`CacheEnds`).  Ages fall along that order, so a sweep takes away
a part of the front although it looks at every entry; eviction does too; and an address
heard again leaves its place in both orders and goes to the end.  What the cache lacks of
the order is past its time to live or has a whole cache of later ones behind it.

### Rows and records

`DataPathProofs` also proves what two pure loops compute, for inputs of any length.  `FileReader`
and `Framer` are written with recursive functions over sequences, which is what the loops over
rows and bytes are; the first part of the module says that such a function exists and what it
does at each place (`Unrolls`).  Induction needs no operator as a parameter if it goes
through a set: `{s \in Seq(S) : P(s)}` holds `<<>>` and is closed under `Append`, so it
is `Seq(S)` (`SeqUp`, by a least counterexample: `LeastNat`).

*The file reader.* For every file, also one that grows, and every limit and window:

* `OneVerdict` is `VerdictsAgree`, `CompleteMeansFinal` is `TotalsFinal` and `WindowIsSent`
  is `SentRowsAreTheWindow`; `ReaderSafe` is the invariant they follow from.

*Argument.* None of the three is inductive, because the verdict on the next row comes out of
two fields that every job shares.  `ReaderInv` says what they hold while a job is
undisturbed: that no other job reads, that the header is set once the first row is taken, and
that the expected columns are those of the first row of the file (`Undisturbed`).  A job that starts
disturbs whoever reads at that moment, for good, so a second undisturbed one cannot be
there.  For the window, `Amount` counts how many of the valid rows taken so far are to be
sent; a valid row more makes it one more exactly when the row is selected and the
generator goes on (`AmountSkips`, `AmountStops`), and when the generator has broken off it
stays what it is whatever follows (`WindowFills`).  The text of a row is cut out of lines by
two line numbers; `TextIs` says that these lines are that row's, however many lines the rows before it span, and
none when the row was appended after the lines were read.

*The framer.* For every set of bytes with the two separators' in it, every cap, chunk and stream:

* `ChunksDoNotMatter` is `ChunkingIrrelevant`, `NoRecordTwice` is `OneRecordPerLine`, and
  `FramerSafe` is the invariant.

*Argument.* The buffer is what `feed` remembers of the stream; the invariant says what it stands
for.  Normally it is the unterminated tail (`InStep`).  After a record was cut at the cap the buffer
was emptied in the middle of it, so there is a prefix of the stream, ending there, whose
records are all out, with its tail as the last, and the buffer is everything since
(`PastTheCap`).  What a read adds follows from `GoesOn`: the parts of `s \o t` are those
of `s` and then those of its tail with `t` behind it.  Past the cap only the buffer is searched for
separators and not the tail with it: in LF mode that gives the same records but for the
beginning of the first, which is beyond the cap (`LfPrefix`, `ClampLong`); in CRLF mode
it may miss a separator that the emptied buffer cuts in two (`SuffixLines`), which is why
`ChunkingIrrelevant` excludes records at the cap there and `OneRecordPerLine` does not.
After `flush` the two properties are themselves the invariant, since nothing happens any more.

*Assumptions:* `FileAssumption` and `FramerAssumption`, which TLC evaluates in the runs `file_reader`
and `framer`; `max_record_bytes` is positive by `Framer.__init__`.

### Only model-checked

Every invariant a run checks is proved, and every property that needs no fairness.  What is left to TLC is everything temporal
that needs fairness, because `ENABLED` is out of the prover's reach: what the runs `sink_live`,
`server_live` and the liveness properties of the others show they show for their instances.  The
disagreement of `controller_overlap` is a counterexample, and needs no proof.

## 5. Where code and documents disagree

One run is expected to find a violation; `PROJECT.json` quotes the text it refutes.

* `controller_overlap`: a stop that arrives while a start waits for its port finds a
  transport that does not run yet, clears the field and reports success; the
  transport then comes up.  Calling `start_transmission` and `stop_transport` in a row
  on a real controller shows it at once.

Further behaviours the models contain and no property denies:

* A cancelled stop leaks the listening socket ("no residual tasks or leaked sockets",
  `docs/implementation-plan.md:361`; `cut` in `Controller`).  `stop` of the server sender cancels the monitor, and in
  `wait_closed` (`tcp_server_sender.py:270`) the monitor is waiting for a future that every
  `wait_closed` of that client shares.  When `stop` comes to disconnect the same client it
  awaits the cancelled future and ends in `CancelledError`, before it has closed the listening
  socket but after `_running` was cleared.  The next stop finds a transport that does not run, and the
  controller forgets it.  A `shutdown` that ends so raises out of `_on_close` (`app.py:206`), and
  the window stays open.
* A shutdown ends the loop under a stop that it overtook (NFR-06,
  `docs/design-and-requirements.md:282`): `shutdown` waits for its own coroutine only.  While another stop
  is under way that coroutine finds a transport that does not run any more and returns, and the loop
  is stopped (`controller.py:654`) with connections of the first stop still open.
* TM-INT-03 (`docs/design-and-requirements.md:629`) has slow clients disconnected within a time; one whose peer
  reads nothing is cut off the broadcasts, but `wait_closed` waits without a limit
  for bytes nobody takes, so it is never unregistered, and the monitor that
  disconnects it looks after no other client any more.
* `gui/controller.py:130` says that the fields of the two roles are mutually exclusive, and
  FR-70 (`docs/design-and-requirements.md:268`) wants the receiver stopped on a role switch;
  starting a transmission (line 173) never looks at the receiver's fields, so both roles
  can run.
* A preview started on a reader under its background scan resets the fields of the scan,
  which may then take a data row for the header and count it out, although it
  publishes its totals as complete (FR-12b, `docs/design-and-requirements.md:163`).  The
  application uses separate readers and does not start the scan.
* A client that connects after the header of a swap was drawn with nobody there gets that header
  twice, once on connect and once as the message (FR-20f, `HeaderOnceFirst` counts the latter).
* A client that connects between a swap and the next step of the run gets the header of the new
  file and then records of the old one (`controller.py:456`).
* In CRLF mode a record at the cap whose separator a read cuts in two comes out differently
  from one read whole (`framer.py:112`): the framer takes it for oversized, and the record behind it
  is swallowed with its rest.
* A row that is half written when the generator reads the lines is yielded, if it is whole
  by the time the second open reads it, with the half as its text (`file_reader.py:88`).
* A `stop` of the receiver that is given up after five seconds (`controller.py:726`) leaves its
  drain alive, and if the transport's `stop` was the part that hung, the handlers of its peers (`Remains`).
* Before Python 3.12 a writer whose `drain` fails in the moment its cancellation is dropped disconnects its
  client itself (`tcp_server_sender.py:239`) while the reader that cancelled it joins it: it joins the
  reader in turn, and the two wait for each other.
* A file whose first line is blank has rows of no fields: every other row is invalid.
* The hello interval is 0 by default, and then only the first hello is sent: the
  receiver drops out of the server's cache after one time to live.
* With `filter_remote_peer` a UDP client receiver compares the address of a datagram with
  the configured host as written (`udp_client_receiver.py:129`): a host given by name
  filters everything out.
* `src/README.md:142` promises "no data loss" from pausing TCP peers; `SinkConfig`
  accepts caps below the bound of `NoLoss`, and then chunks already in `read` are dropped.
* `src/README.md:181` recommends `configure_sink` for an unwritable path; a failed
  open ends the drain, and every later `configure` waits for ever.
* `docs/design-and-requirements.md:184` forbids interleaved records of an old and a new
  file.  The step button draws from the scheduler while the automatic run may have a
  message in hand (`MayOverlap`): after a swap in between, the old message follows the
  new ones.
* FR-31 (`docs/design-and-requirements.md:206`) wants a client that reconnects.  On Python
  3.10, which `pyproject.toml:10` admits, a connect or a `drain` that times out ends the
  sender's run task with `_running` still set, so a later `start` does nothing either:
  `LinkReconnects` fails with `TimeoutIsOSError = FALSE`.  The receiver catches
  `TimeoutError` by name and is not affected.
* `docs/design-and-requirements.md:474` has the transmission pause while the client is
  disconnected.  `TcpClientSender.send` queues without a limit and without waiting, so the
  run goes on and its counters count what is only queued (`Send`).
* `docs/design-and-requirements.md:466` wants no client delayed by a slow one;
  `broadcast` waits for the disconnect of a client that overflows, and
  `wait_closed` has no timeout.
* A reception whose transport cannot bind leaves the drain of its sink running:
  `ReceiverEngine.stop` returns at once unless the start had finished (`Listening`,
  `Detach`); `NoResidue` speaks of transports and run tasks only for this reason.
* Before Python 3.12 `wait_for` may drop the cancellation of a writer task.  Let the reader
  of client B join such a writer (`tcp_server_sender.py:261`), which goes on, fails to send and comes to
  the `wait_closed` (line 270) of a disconnect of its own.  The monitor, disconnecting B too, cancels the
  reader, `gather` passes it on to the writer, and that cancels the future which all
  disconnects of B wait for.  If a broadcast that was held up by client A
  has come to B by then, it raises `CancelledError`, and a client C, connected and ready all the
  time, never gets the message, although nobody called `stop`.
* Two `configure` calls at once: the first caller is never answered.
* A client transport started while its `stop` still waits: `stop` then clears
  `_run_task`, which is the new task, and closes the new connection.

## 6. What is not modelled

The UDP client sender and server receiver have no state but their socket; multicast
sends do not look at the recipient cache; what a UDP receiver does with a datagram (a
filter on the peer, truncation, `submit`) is planned (section 7), and so are
timestamps and configuration.  GUI panels, the status queue, JSON logging,
preflight and TLS set-up are presentation or the standard library's.  Of the modelled
components: rate changes, statistics, the length of a client's backoff, an error in the middle of a file
(of the csv module, the decoder or the disk), a second caller of `stop` of a client sender, and
the reuse of a client's address while its old connection is still being unregistered.

## 7. Plan

The most important behaviour came first: the lossless path of a record
(`SinkQueue`, `SinkWriter`, `ReceiverEngine`), then what many coroutines do to one
connection (`ServerSender`), then the composition over them (`Streaming`,
`Controller`), then the client transports (`ClientLink`), the UDP server with its
receivers (`UdpReply`), the file reader, and the abstract stream both senders implement
(`ClientStream`).  What is left, in this order:

1. UDP reception with drop-on-full over `SinkQueue`, beside the TCP peers.
2. The start and stop of `ReceiverEngine` in `Controller`, with the sink configured at
   runtime and the drain that a failed start leaves behind; the step button across a stop.
3. A client of `ServerSender` that comes back under its old address while its old
   connection is being unregistered; `ClientStream` already admits it.
4. `ConfigMigration` and timestamp rewriting as functions against a reference.

No invariant or step property of the runs is left without a theorem.
