----------------------------- MODULE ClientLink -----------------------------
(***************************************************************************)
(* The TCP transports that connect to a server and connect again when the  *)
(* connection is lost: TcpClientSender and TcpClientReceiver               *)
(* (src/tcp_sim/transport/tcp_client_sender.py, tcp_client_receiver.py).   *)
(* Each has one run task; pc is the await at which it is.                  *)
(*                                                                         *)
(* A payload is its number in the order of the calls of send().  How long  *)
(* the run task sleeps between attempts, and the records the receiver cuts *)
(* out of what it reads, are left out: Framer and ReceiverEngine have those. *)
(***************************************************************************)
EXTENDS Integers, Sequences

CONSTANTS
    TimeoutIsOSError,  \* asyncio.TimeoutError is an OSError: Python 3.11 and later
    SwallowCancel,     \* wait_for() may drop a cancellation: before Python 3.12
    MaxPayloads,       \* bound: calls of send()
    MaxStarts,         \* bound: calls of start() that start the run task
    MaxFaults          \* bound: connections lost and outages of the server

ASSUME ClientAssumption ==
    /\ TimeoutIsOSError \in BOOLEAN /\ SwallowCancel \in BOOLEAN
    /\ MaxPayloads \in Nat /\ MaxStarts \in Nat /\ MaxFaults \in Nat

VARIABLES
    kind,       \* which of the two transports this is
    running,    \* _running
    pc,         \* where the run task is, "none" when _run_task is None
    cancelled,  \* a CancelledError waits to be delivered to the run task
    out,        \* what leaves the connected loop: "go" on, or "leave" the task
    conn,       \* _writer: none, open, or of a connection the peer has ended
    connected,  \* connected_event
    stopper,    \* where the caller of stop() is
    paused,     \* the receiver's gate is closed
    outbound,   \* _outbound
    wire,       \* written to the connection and not yet received
    got,        \* received by the server
    clean,      \* history: nothing has happened yet that may cost a payload
    up,         \* the server accepts connections
    puts, starts, faults

link == <<pc, out, conn, connected>>
data == <<outbound, wire, got>>
bounds == <<puts, starts, faults>>
vars == <<kind, running, cancelled, stopper, paused, clean, up, link, data, bounds>>

Init ==
    /\ kind \in {"sender", "receiver"}
    /\ running = FALSE /\ pc = "none" /\ cancelled = FALSE /\ out = "go"
    /\ conn = "none" /\ connected = FALSE /\ stopper = "idle" /\ paused = FALSE
    /\ outbound = <<>> /\ wire = <<>> /\ got = <<>>
    /\ clean = TRUE /\ up \in BOOLEAN
    /\ puts = 0 /\ starts = 0 /\ faults = 0

-----------------------------------------------------------------------------
(* How the run task moves.                                                 *)

\* A step at an await that cannot have ended when the cancellation arrived.
Undisturbed == ~cancelled /\ UNCHANGED cancelled

\* A step at the end of a wait_for(): the awaited call has a result, and the
\* cancellation that meets it there is lost.
Finished == (cancelled => SwallowCancel) /\ cancelled' = FALSE

\* The end of an iteration of _run(), once no exception is left to propagate.
NextTry(how) == pc' = IF how = "go" /\ running THEN "backoff" ELSE "done"

\* The finally of _run() in the sender, when there is no connection to close.
CloseNothing(how) ==
    /\ connected' = FALSE
    /\ NextTry(how)
    /\ UNCHANGED <<out, conn>>

\* The finally of the receiver's connected loop, which closes without waiting.
CloseReceiver(how) ==
    /\ conn' = "none" /\ connected' = FALSE
    /\ NextTry(how)
    /\ UNCHANGED out

\* The head of the sender's connected loop: the watch of the reader has ended,
\* or the next payload is awaited.  The finally then joins the watch.
SenderHead(c) ==
    IF running /\ c # "broken"
    THEN pc' = "waiting" /\ UNCHANGED out
    ELSE pc' = "unwatching" /\ out' = "go"

\* The head of the receiver's: the gate, then the read.
ReceiverHead ==
    IF running
    THEN pc' = (IF paused THEN "gated" ELSE "reading") /\ UNCHANGED <<out, conn, connected>>
    ELSE CloseReceiver("go")

OnlyReceiverCatches ==  \* mutant: the sender takes no timeout for a lost connection
    IF kind = "receiver" THEN "go" ELSE "leave"

\* An exception of wait_for() that is a timeout ends the sender's run task when
\* it is not caught as an OSError; the receiver names TimeoutError.
AfterTimeout == IF TimeoutIsOSError \/ kind = "receiver" THEN "go" ELSE "leave"

\* Whatever is left of the transport's buffer is flushed or not on closing.
CloseWire ==
    /\ \E n \in 0..Len(wire) : got' = got \o SubSeq(wire, 1, n)
    /\ wire' = <<>> /\ UNCHANGED outbound

-----------------------------------------------------------------------------
(* The run task, from attempt to attempt.                                  *)

OpenConnection ==
    /\ pc = "connecting" /\ up /\ Finished
    /\ IF kind = "sender"
       THEN conn' = "open" /\ connected' = TRUE /\ SenderHead("open")
       ELSE IF running
            THEN /\ conn' = "open" /\ connected' = TRUE /\ UNCHANGED out
                 /\ pc' = IF paused THEN "gated" ELSE "reading"
            ELSE CloseReceiver("go")
    /\ UNCHANGED <<data, clean>>

\* The connection is refused, or connect_timeout_seconds pass.
ConnectFails ==
    /\ pc = "connecting" /\ Undisturbed
    /\ \E how \in (IF up THEN {} ELSE {"go"}) \cup {AfterTimeout} :
          IF kind = "sender" THEN CloseNothing(how)
          ELSE pc' = "backoff" /\ UNCHANGED <<out, conn, connected>>
    /\ UNCHANGED <<data, clean>>

\* sleep() ends and _run() tests _running.
Wake ==
    /\ pc = "backoff" /\ Undisturbed
    /\ pc' = IF running THEN "connecting" ELSE "done"
    /\ UNCHANGED <<out, conn, connected, data, clean>>

\* The sender waits for a payload for at most a tenth of a second ...
IdleTimeout ==
    /\ pc = "waiting" /\ Undisturbed
    /\ SenderHead(conn)
    /\ UNCHANGED <<conn, connected, data, clean>>

\* ... takes one and writes it, to a peer that may be gone by then ...
TakePayload ==
    /\ pc = "waiting" /\ outbound # <<>> /\ Finished
    /\ outbound' = Tail(outbound)
    /\ wire' = IF conn = "open" THEN Append(wire, Head(outbound)) ELSE wire
    /\ pc' = "draining"
    /\ UNCHANGED <<out, conn, connected, got, clean>>

\* ... and waits until the transport's buffer has room.
Drained ==
    /\ pc = "draining" /\ Finished
    /\ SenderHead(conn)
    /\ UNCHANGED <<conn, connected, data, clean>>

DrainFailsRequeued ==  \* mutant: a payload whose drain() failed is sent again
    /\ pc = "draining" /\ Undisturbed
    /\ out' \in (IF conn = "broken" THEN {"go"} ELSE {}) \cup {AfterTimeout}
    /\ pc' = "unwatching" /\ clean' = FALSE
    /\ outbound' = IF wire # <<>> THEN <<wire[Len(wire)]>> \o outbound ELSE outbound
    /\ UNCHANGED <<conn, connected, wire, got>>

\* The connection is reset, or send_timeout_seconds pass with a full buffer.
DrainFails ==
    /\ pc = "draining" /\ Undisturbed
    /\ out' \in (IF conn = "broken" THEN {"go"} ELSE {}) \cup {AfterTimeout}
    /\ pc' = "unwatching" /\ clean' = FALSE
    /\ UNCHANGED <<conn, connected, data>>

\* The watch of the reader is cancelled and joined; _close_connection() closes
\* the writer and waits for a second at most.
WatchJoined ==
    /\ pc = "unwatching" /\ Undisturbed
    /\ pc' = "closing"
    /\ UNCHANGED <<out, conn, connected, data, clean>>

Closed ==
    /\ pc = "closing" /\ Finished
    /\ conn' = "none" /\ connected' = FALSE /\ CloseWire
    /\ NextTry(out)
    /\ UNCHANGED <<out, clean>>

\* The receiver's read() returns a chunk, all of whose records are delivered ...
ReadChunk ==
    /\ pc = "reading" /\ Undisturbed
    /\ ReceiverHead
    /\ UNCHANGED <<data, clean>>

\* ... or it finds that the peer has ended the connection.
ReadEnds ==
    /\ pc = "reading" /\ conn = "broken" /\ Undisturbed
    /\ CloseReceiver("go")
    /\ UNCHANGED <<data, clean>>

\* A CancelledError is delivered.  In the sender's connected loop the finally
\* clauses still run; inside _close_connection() it leaves the writer as it is.
Cancelled ==
    /\ cancelled /\ cancelled' = FALSE
    /\ \/ /\ pc \in {"waiting", "draining", "unwatching"}
          /\ out' = "leave" /\ UNCHANGED <<conn, connected>>
          /\ pc' = IF pc = "unwatching" THEN "closing" ELSE "unwatching"
       \/ /\ pc = "closing"
          /\ pc' = "done" /\ UNCHANGED <<out, conn, connected>>
       \/ /\ pc \in {"gated", "reading"}
          /\ CloseReceiver("leave")
       \/ /\ pc \in {"connecting", "backoff"}
          /\ CloseNothing("leave")
    /\ clean' = FALSE
    /\ UNCHANGED data

RunTask ==
    /\ \/ OpenConnection \/ ConnectFails \/ Wake
       \/ IdleTimeout \/ TakePayload \/ Drained \/ DrainFails \/ WatchJoined \/ Closed
       \/ ReadChunk \/ ReadEnds \/ Cancelled
    /\ UNCHANGED <<kind, running, stopper, paused, up, bounds>>

-----------------------------------------------------------------------------
(* The callers, and the peer.                                              *)

\* start(): a transport that is running, though its task may have died, is
\* left as it is.  Nobody starts one while another stops it.
Start ==
    /\ starts < MaxStarts /\ ~running /\ stopper = "idle"
    /\ running' = TRUE /\ pc' = "connecting" /\ starts' = starts + 1
    /\ UNCHANGED <<kind, cancelled, out, conn, connected, stopper, paused, clean, up,
                   data, puts, faults>>

\* send() queues a payload whatever the state of the connection.
Send ==
    /\ kind = "sender" /\ puts < MaxPayloads
    /\ puts' = puts + 1 /\ outbound' = Append(outbound, puts + 1)
    /\ UNCHANGED <<kind, running, cancelled, link, stopper, paused, clean, up,
                   wire, got, starts, faults>>

\* stop() cancels the run task and joins it.
\* One caller of stop(): the controller's. The sender's has no test of _running, so a
\* second one would cancel and join the same task.
Stop ==
    /\ running /\ stopper = "idle"
    /\ running' = FALSE /\ stopper' = "joining"
    /\ cancelled' = (pc # "done") /\ clean' = FALSE
    /\ UNCHANGED <<kind, link, paused, up, data, bounds>>

\* After two seconds the sender's stop() cancels it once more, and still joins it.
StopOverdue ==
    /\ kind = "sender" /\ stopper = "joining" /\ pc # "done"
    /\ stopper' = "overdue" /\ cancelled' = TRUE
    /\ UNCHANGED <<kind, running, link, paused, clean, up, data, bounds>>

StopJoinedOnly ==  \* mutant: stop() relies on the run task to close the connection
    /\ stopper \in {"joining", "overdue"} /\ pc = "done"
    /\ pc' = "none" /\ stopper' = "idle"
    /\ UNCHANGED <<kind, running, conn, connected, cancelled, out, paused, clean, up,
                   data, bounds>>

\* Then it closes the connection the run task may have left.
StopJoined ==
    /\ stopper \in {"joining", "overdue"} /\ pc = "done"
    /\ pc' = "none"
    /\ IF kind = "sender" /\ conn # "none"
       THEN stopper' = "closing" /\ UNCHANGED <<conn, connected>>
       ELSE stopper' = "idle" /\ conn' = "none"
            /\ connected' = (connected /\ kind = "receiver")
    /\ UNCHANGED <<kind, running, cancelled, out, paused, clean, up, data, bounds>>

StopCloses ==
    /\ stopper = "closing"
    /\ stopper' = "idle" /\ conn' = "none" /\ connected' = FALSE /\ CloseWire
    /\ UNCHANGED <<kind, running, pc, cancelled, out, paused, clean, up, bounds>>

\* set_paused(): opening the gate lets the run task through to the read.
SetPaused ==
    /\ kind = "receiver" /\ paused' = ~paused
    /\ pc' = IF paused /\ pc = "gated" /\ ~cancelled THEN "reading" ELSE pc
    /\ UNCHANGED <<kind, running, cancelled, out, conn, connected, stopper, clean, up,
                   data, bounds>>

Receive ==
    /\ wire # <<>> /\ conn = "open"
    /\ got' = Append(got, Head(wire)) /\ wire' = Tail(wire)
    /\ UNCHANGED <<kind, running, cancelled, link, stopper, paused, clean, up,
                   outbound, bounds>>

\* The peer ends the connection: what it has not received is lost.
Lose ==
    /\ faults < MaxFaults /\ conn = "open"
    /\ conn' = "broken" /\ wire' = <<>> /\ clean' = FALSE /\ faults' = faults + 1
    /\ UNCHANGED <<kind, running, pc, cancelled, out, connected, stopper, paused, up,
                   outbound, got, puts, starts>>

ServerChanges ==
    /\ up' = ~up /\ (up => faults < MaxFaults)
    /\ faults' = IF up THEN faults + 1 ELSE faults
    /\ UNCHANGED <<kind, running, cancelled, link, stopper, paused, clean, data,
                   puts, starts>>

Next ==
    \/ RunTask
    \/ Start \/ Send \/ Stop \/ StopOverdue \/ StopJoined \/ StopCloses \/ SetPaused
    \/ Receive \/ Lose \/ ServerChanges

Spec == Init /\ [][Next]_vars

\* The loop runs the task whenever it can go on, sleeps and timeouts end, and a
\* server that keeps accepting connections accepts one of the attempts.
Fairness == WF_vars(RunTask) /\ SF_vars(RunTask /\ pc = "connecting" /\ conn' = "open")

LiveSpec == Spec /\ Fairness

-----------------------------------------------------------------------------
\* The variables have their types; what is on the wire belongs to a connection,
\* and only a connection that was made has a connected_event.
TypeOK ==
    /\ kind \in {"sender", "receiver"} /\ {running, cancelled, connected} \subseteq BOOLEAN
    /\ {paused, clean, up} \subseteq BOOLEAN
    /\ pc \in {"none", "connecting", "backoff", "done"} \cup
              (IF kind = "sender" THEN {"waiting", "draining", "unwatching", "closing"}
                                  ELSE {"gated", "reading"})
    /\ out \in {"go", "leave"} /\ conn \in {"none", "open", "broken"}
    /\ stopper \in {"idle", "joining", "overdue", "closing"}
    /\ connected => conn # "none"
    /\ wire # <<>> => conn = "open"
    /\ \A s \in {outbound, wire, got} : s \in Seq(1..MaxPayloads)
    /\ puts \in 0..MaxPayloads /\ starts \in 0..MaxStarts /\ faults \in 0..MaxFaults

\* When stop() has returned no task, no connection and no connected_event are
\* left, wherever the run task was when it was cancelled, in the middle of
\* closing included, and whether or not wait_for() dropped the cancellation.
StopLeavesNothing ==
    ~running /\ stopper = "idle" => pc = "none" /\ conn = "none" /\ ~connected

\* Across connections the server receives payloads in the order of send() and
\* none twice, what is queued or on its way follows what it has, and as long as
\* no connection was lost, no timeout passed and nobody stopped the transport,
\* nothing is missing.
SentInOrderOnce ==
    LET all == got \o wire \o outbound IN
    /\ \A i, j \in DOMAIN all : i < j => all[i] < all[j]
    /\ clean => Len(all) = puts

\* A transport that stays started connects again and again while the server
\* stays up, after every loss, timeout and outage (FR-31 and FR-57): the run
\* task never ends by itself.  A receiver held at its gate does not notice a
\* loss before the gate is opened.
LinkReconnects ==
    <>[](running /\ up /\ ~paused) => []<>(conn = "open" /\ connected)

=============================================================================
