---------------------------- MODULE ServerSender ----------------------------
(***************************************************************************)
(* TcpServerSender with its ConnectionManager                              *)
(* (src/tcp_sim/transport/tcp_server_sender.py, connection_manager.py):    *)
(* broadcast into per-client queues, a writer and a reader task per        *)
(* client, a monitor for slow clients, and _disconnect_client, which any   *)
(* of them may run, on the same client at the same time, and which cancels *)
(* and joins the client's tasks and then waits for the socket to close.    *)
(*                                                                         *)
(* A payload counts as one byte.  An action is what a coroutine does       *)
(* between two awaits.                                                     *)
(***************************************************************************)
EXTENDS Integers, SequencesExt

CONSTANTS
    Clients,       \* connections; each is made once
    NoClient,
    SendHeader,    \* send_header_on_connect with a header payload
    HighMark, LowMark, HardCap,  \* QueueThresholds
    BufferLimit,   \* payloads the socket transport buffers before drain() waits
    SwallowCancel, \* wait_for() loses a cancellation that meets its result (Python < 3.12)
    Stalled,       \* clients whose peer hangs: it neither reads nor closes
    MayStop,       \* bound: whether stop() is called
    StopMeets,     \* bound: the broadcasts that a stop of the engine or server may meet
    MaxMessages    \* bound: broadcast() calls

\* The marks are in order, and the cap is at least a payload.  No constructor demands
\* it; the controller leaves QueueThresholds at defaults that do.
ASSUME ThresholdAssumption ==
    0 =< LowMark /\ LowMark < HighMark /\ HighMark =< HardCap

Monitor == <<"monitor", NoClient>>
Sender == <<"sender", NoClient>>
Stopper == <<"stopper", NoClient>>
W(c) == <<"writer", c>>
R(c) == <<"reader", c>>
Actors == {Monitor, Sender, Stopper} \cup {W(c) : c \in Clients} \cup {R(c) : c \in Clients}

VARIABLES
    running,     \* _running
    registered,  \* the keys of ConnectionManager._clients
    queue,       \* queued_payloads per client; 0 is the header
    blocked,     \* the clients marked blocked
    ready,       \* _broadcast_ready_clients
    readyEvent,  \* _broadcast_ready_event
    writerRef, readerRef,  \* the keys of _writer_tasks and _reader_tasks
    pc,          \* where each coroutine is suspended
    target,      \* the client that the monitor, the sender or stop() disconnects
    cancelled,   \* tasks with a cancellation to be delivered
    left,        \* clients still to be visited by a broadcast, scan or stop
    stopPhase,   \* how far stop() is
    messages,    \* broadcasts begun
    written,     \* payloads handed to the transport of each client
    buffered,    \* how many of them the transport still holds
    socket,      \* new, open, closing (close() called), closed
    unwaitable   \* the clients whose future of wait_closed() was cancelled

netVars == <<written, buffered, socket, unwaitable>>
queueVars == <<registered, queue, blocked>>
taskVars == <<ready, readyEvent, writerRef, readerRef, pc, target, cancelled>>
vars == <<running, queueVars, taskVars, left, stopPhase, messages, netVars>>

Servants == {Monitor, Sender, Stopper}

\* The client coroutine a disconnects, and its change.
ClientOf(a) == IF a \in Servants THEN target[a] ELSE a[2]
Aims(a, c) == IF a \in Servants THEN [target EXCEPT ![a] = c] ELSE target

Live(a) == pc[a] \notin {"none", "done"}
At(a, where) == pc[a] = where /\ a \notin cancelled

-----------------------------------------------------------------------------
(* ConnectionManager                                                       *)

\* enqueue_payload: room under the hard cap.
Accepts(c) == c \in registered /\ Len(queue[c]) + 1 =< HardCap

\* _update_blocked_state of the clients in `changed`, whose queues are new.
UpdateBlocked(changed, new) ==
    blocked' = {c \in Clients : IF c \in changed
                   THEN Len(new[c]) >= HighMark \/ (c \in blocked /\ Len(new[c]) > LowMark)
                   ELSE c \in blocked}

Enqueue(cs, m) ==
    /\ queue' = [c \in Clients |-> IF c \in cs THEN Append(queue[c], m) ELSE queue[c]]
    /\ UpdateBlocked(cs, queue')
    /\ UNCHANGED registered

PopNext(c) ==
    /\ c \in registered /\ queue[c] # <<>>
    /\ queue' = [queue EXCEPT ![c] = Tail(@)]
    /\ UpdateBlocked({c}, queue')
    /\ UNCHANGED registered

\* A client is registered with `first` already queued for it.
Register(c, first) ==
    /\ registered' = registered \cup {c}
    /\ queue' = [queue EXCEPT ![c] = first]
    /\ UpdateBlocked({c}, queue')

Unregister(c) ==
    /\ registered' = registered \ {c}
    /\ queue' = [queue EXCEPT ![c] = <<>>]
    /\ blocked' = blocked \ {c}

-----------------------------------------------------------------------------
(* _disconnect_client, run by coroutine a on client c                      *)

\* close() the writer, then wait_closed().
CloseSocket(a, c) ==
    /\ socket' = [socket EXCEPT ![c] = IF @ = "open" THEN "closing" ELSE @]
    /\ pc' = [pc EXCEPT ![a] = "waitClosed"]

\* Mutant: the task is joined without being cancelled.
JoinOnly(a, t, where, cancels) ==
    /\ cancelled' = cancels
    /\ pc' = [pc EXCEPT ![a] = where]

\* Cancel task t of those already to be cancelled, and join it.
CancelAndJoin(a, t, where, cancels) ==
    /\ cancelled' = IF Live(t) THEN cancels \cup {t} ELSE cancels
    /\ pc' = [pc EXCEPT ![a] = where]

\* Mutant: the reader task is neither dropped nor cancelled.
KeepReader(a, c, cancels) ==
    CloseSocket(a, c) /\ cancelled' = cancels /\ UNCHANGED readerRef

\* The reader task leaves the table; it is cancelled and joined if not a itself.
DropReader(a, c, cancels) ==
    /\ readerRef' = readerRef \ {c}
    /\ IF c \in readerRef /\ a # R(c)
       THEN CancelAndJoin(a, R(c), "joinReader", cancels) /\ UNCHANGED socket
       ELSE CloseSocket(a, c) /\ cancelled' = cancels

\* Mutant: the event is not cleared with the last ready client.
DisconnectUnheard(a, c, cancels) ==
    /\ target' = Aims(a, c)
    /\ ready' = ready \ {c}
    /\ writerRef' = writerRef \ {c}
    /\ IF c \in writerRef /\ a # W(c)
       THEN /\ CancelAndJoin(a, W(c), "joinWriter", cancels)
            /\ UNCHANGED <<readyEvent, readerRef, socket>>
       ELSE DropReader(a, c, cancels) /\ UNCHANGED readyEvent

\* From the entry, with the client registered, to the first await.
Disconnect(a, c, cancels) ==
    /\ target' = Aims(a, c)
    /\ ready' = ready \ {c}
    /\ readyEvent' = (readyEvent /\ ready' # {})
    /\ writerRef' = writerRef \ {c}
    /\ IF c \in writerRef /\ a # W(c)
       THEN /\ CancelAndJoin(a, W(c), "joinWriter", cancels)
            /\ UNCHANGED <<readerRef, socket>>
       ELSE DropReader(a, c, cancels)

\* A task ends; broadcast() and stop() return to their callers.
After(a) == IF a \in {Sender, Stopper} THEN "idle" ELSE "done"

EndTask(a, cancels) ==
    /\ pc' = [pc EXCEPT ![a] = After(a)]
    /\ cancelled' = cancels
    /\ target' = Aims(a, NoClient)
    /\ UNCHANGED <<ready, readyEvent, writerRef, readerRef, socket>>

\* A client's own task disconnects it, if that has not been done, and ends.
DisconnectSelf(a, c, cancels) ==
    IF c \in registered THEN Disconnect(a, c, cancels) ELSE EndTask(a, cancels)

\* What no step of a disconnect but its last one changes.
KeepManager == UNCHANGED <<running, queueVars, left, stopPhase, messages, written, buffered,
                           unwaitable>>
KeepTables == UNCHANGED <<ready, readyEvent, writerRef, readerRef, target>>

JoinedWriter(a) ==
    /\ At(a, "joinWriter") /\ pc[W(ClientOf(a))] = "done"
    /\ DropReader(a, ClientOf(a), cancelled)
    /\ UNCHANGED <<ready, readyEvent, writerRef, target>> /\ KeepManager

JoinedReader(a) ==
    /\ At(a, "joinReader") /\ pc[R(ClientOf(a))] = "done"
    /\ CloseSocket(a, ClientOf(a))
    /\ UNCHANGED cancelled /\ KeepTables /\ KeepManager

\* Mutant: the client is not unregistered.
DisconnectedOnly(a) ==
    /\ At(a, "waitClosed") /\ socket[ClientOf(a)] = "closed" /\ ClientOf(a) \notin unwaitable
    /\ pc' = [pc EXCEPT ![a] = IF a \in Servants THEN "idle" ELSE "done"]
    /\ target' = Aims(a, NoClient)
    /\ UNCHANGED <<running, queueVars, ready, readyEvent, writerRef, readerRef, cancelled, left,
                   stopPhase, messages, netVars>>

\* wait_closed() returned: the client is unregistered, the coroutine goes on.
Disconnected(a) ==
    LET c == ClientOf(a) IN
    /\ At(a, "waitClosed") /\ socket[c] = "closed" /\ c \notin unwaitable
    /\ Unregister(c) /\ written' = [written EXCEPT ![c] = <<>>]
    /\ pc' = [pc EXCEPT ![a] = IF a \in Servants THEN "idle" ELSE "done"]
    /\ target' = Aims(a, NoClient)
    /\ UNCHANGED <<running, ready, readyEvent, writerRef, readerRef, cancelled, left,
                   stopPhase, messages, buffered, socket, unwaitable>>

\* CancelledError leaves a wait of _disconnect_client, in a coroutine that was
\* cancelled in a join, once that is over, or in any one that waits for a
\* future that another was cancelled in: all of a connection share one.  It
\* ends a task, the monitor too, the broadcast, or stop().
WaitFails(a) ==
    LET c == ClientOf(a) IN
    /\ \/ At(a, "failWriter") /\ pc[W(c)] = "done"
       \/ At(a, "failReader") /\ pc[R(c)] = "done"
       \/ At(a, "waitClosed") /\ c \in unwaitable
    /\ pc' = [pc EXCEPT ![a] = After(a)]
    /\ target' = Aims(a, NoClient)
    /\ left' = IF a \in Servants THEN [left EXCEPT ![a] = {}] ELSE left
    /\ stopPhase' = IF a = Stopper THEN "failed" ELSE stopPhase
    /\ UNCHANGED <<running, queueVars, ready, readyEvent, writerRef, readerRef, cancelled,
                   messages, netVars>>

\* A cancelled join passes the cancellation on to the task joined.
PassOn(a, t, where, cancels) ==
    /\ KeepTables /\ UNCHANGED <<socket, unwaitable>>
    /\ cancelled' = cancels \cup {t}
    /\ pc' = [pc EXCEPT ![a] = where]

\* A cancellation reaches task a: in a join it is passed on; in wait_closed()
\* it cancels the future; the `finally` of a reader at its read runs a
\* disconnect of its own; a drain() that has returned or raised by then makes
\* the wait_for() of old Pythons drop the cancellation, and the writer goes on or
\* disconnects the client itself; elsewhere it ends the task.  Two tasks that
\* join each other pass it back and forth for ever.
DeliverCancel(a) ==
    LET c == ClientOf(a)
        cancels == cancelled \ {a}
    IN /\ a \in cancelled
       /\ \/ /\ pc[a] \in {"joinWriter", "failWriter"} /\ Live(W(c))
             /\ PassOn(a, W(c), "failWriter", cancels)
          \/ /\ pc[a] \in {"joinReader", "failReader"} /\ Live(R(c))
             /\ PassOn(a, R(c), "failReader", cancels)
          \/ /\ pc[a] = "waitClosed" /\ EndTask(a, cancels)
             /\ unwaitable' = unwaitable \cup (IF socket[c] = "closed" THEN {} ELSE {c})
          \/ /\ pc[a] = "reading"
             /\ DisconnectSelf(a, c, cancels) /\ UNCHANGED unwaitable
          \/ /\ pc[a] = "draining" /\ SwallowCancel /\ buffered[c] =< BufferLimit
             /\ pc' = [pc EXCEPT ![a] = "loop"] /\ cancelled' = cancels
             /\ KeepTables /\ UNCHANGED <<socket, unwaitable>>
          \/ /\ pc[a] = "draining" /\ SwallowCancel /\ socket[c] = "closed"
             /\ DisconnectSelf(a, c, cancels) /\ UNCHANGED unwaitable
          \/ /\ \/ pc[a] \in {"idle", "start", "loop", "draining"}
                \/ pc[a] \in {"joinWriter", "failWriter"} /\ ~Live(W(c))
                \/ pc[a] \in {"joinReader", "failReader"} /\ ~Live(R(c))
             /\ EndTask(a, cancels) /\ UNCHANGED unwaitable
       /\ left' = IF a = Sender /\ pc'[a] = "idle" THEN [left EXCEPT ![a] = {}] ELSE left
       /\ UNCHANGED <<running, queueVars, stopPhase, messages, written, buffered>>

-----------------------------------------------------------------------------
(* Connections                                                             *)

\* start(): the server listens and the monitor runs.
Start ==
    /\ stopPhase = "new"
    /\ running' = TRUE /\ stopPhase' = "no"
    /\ pc' = [pc EXCEPT ![Monitor] = "idle"]
    /\ UNCHANGED <<queueVars, ready, readyEvent, writerRef, readerRef, target, cancelled,
                   left, messages, netVars>>

Listening == stopPhase \in {"no", "monitor", "clients", "failed"}

\* _on_client_connected up to its await of the reader task: the header is
\* queued before the client is made ready for broadcasts.
Connect(c) ==
    /\ Listening /\ socket[c] = "new"
    /\ socket' = [socket EXCEPT ![c] = "open"]
    /\ Register(c, IF SendHeader THEN <<0>> ELSE <<>>)
    /\ ready' = ready \cup {c} /\ readyEvent' = TRUE
    /\ writerRef' = writerRef \cup {c} /\ readerRef' = readerRef \cup {c}
    /\ pc' = [pc EXCEPT ![W(c)] = "loop", ![R(c)] = "start"]
    /\ UNCHANGED <<running, target, cancelled, left, stopPhase, messages, written, buffered,
                   unwaitable>>

\* _on_client_connected with a header longer than the hard cap: the handler
\* disconnects the client it has just registered, whose only task is the writer.
\* R(c) stands for it, there being no reader.
ConnectRejected(c) ==
    /\ Listening /\ socket[c] = "new" /\ SendHeader
    /\ socket' = [socket EXCEPT ![c] = "open"]
    /\ Register(c, <<>>)
    /\ readyEvent' = (readyEvent /\ ready # {})
    /\ pc' = [pc EXCEPT ![W(c)] = "loop", ![R(c)] = "joinWriter"]
    /\ cancelled' = cancelled \cup {W(c)}
    /\ UNCHANGED <<running, ready, writerRef, readerRef, target, left, stopPhase, messages,
                   written, buffered, unwaitable>>

\* Mutant: the reader is entered whether or not the server is running.
ReaderStartAlways(c) ==
    /\ At(R(c), "start")
    /\ pc' = [pc EXCEPT ![R(c)] = "reading"]
    /\ UNCHANGED <<cancelled, socket>> /\ KeepTables /\ KeepManager

\* Mutant: a reader that loses its peer ends without disconnecting the client.
ReaderExitOnly(c) ==
    At(R(c), "reading") /\ EndTask(R(c), cancelled) /\ KeepManager

\* _reader_loop: entered while running, left at EOF, on an error, or on
\* anything the peer sends once the server stops.
ReaderStart(c) ==
    /\ At(R(c), "start")
    /\ IF running
       THEN /\ pc' = [pc EXCEPT ![R(c)] = "reading"]
            /\ KeepTables /\ UNCHANGED <<cancelled, socket>>
       ELSE DisconnectSelf(R(c), c, cancelled)
    /\ KeepManager

ReaderExit(c) ==
    /\ At(R(c), "reading")
    /\ c \in Stalled => socket[c] # "open"
    /\ DisconnectSelf(R(c), c, cancelled)
    /\ KeepManager

\* _writer_loop: the next payload goes to the transport, or the task ends.
WriterSend(c) ==
    /\ At(W(c), "loop") /\ running
    /\ PopNext(c)
    /\ pc' = [pc EXCEPT ![W(c)] = "draining"]
    /\ written' = [written EXCEPT ![c] = Append(@, Head(queue[c]))]
    /\ buffered' = [buffered EXCEPT ![c] = IF socket[c] = "closed" THEN 0 ELSE @ + 1]
    /\ UNCHANGED <<running, ready, readyEvent, writerRef, readerRef, target, cancelled,
                   left, stopPhase, messages, socket, unwaitable>>

WriterEnd(c) ==
    /\ At(W(c), "loop") /\ (~running \/ c \notin registered)
    /\ EndTask(W(c), cancelled)
    /\ KeepManager

WriterDrained(c) ==
    /\ At(W(c), "draining") /\ socket[c] # "closed" /\ buffered[c] =< BufferLimit
    /\ pc' = [pc EXCEPT ![W(c)] = "loop"]
    /\ KeepTables /\ UNCHANGED <<cancelled, socket>> /\ KeepManager

\* drain() raised, or send_timeout_seconds ran out.
WriterFails(c) ==
    /\ At(W(c), "draining") /\ (socket[c] = "closed" \/ buffered[c] > BufferLimit)
    /\ DisconnectSelf(W(c), c, cancelled)
    /\ KeepManager

\* The network: the peer reads, or resets; a closing socket closes when empty.
Flush(c) ==
    /\ buffered[c] > 0 /\ c \notin Stalled
    /\ buffered' = [buffered EXCEPT ![c] = @ - 1]
    /\ UNCHANGED <<running, queueVars, taskVars, left, stopPhase, messages, written, socket,
                   unwaitable>>

SocketCloses(c) ==
    /\ socket[c] = "closing" /\ buffered[c] = 0
    /\ socket' = [socket EXCEPT ![c] = "closed"]
    /\ UNCHANGED <<running, queueVars, taskVars, left, stopPhase, messages, written, buffered,
                   unwaitable>>

PeerResets(c) ==
    /\ socket[c] \in {"open", "closing"} /\ c \notin Stalled
    /\ socket' = [socket EXCEPT ![c] = "closed"]
    /\ buffered' = [buffered EXCEPT ![c] = 0]
    /\ UNCHANGED <<running, queueVars, taskVars, left, stopPhase, messages, written, unwaitable>>

-----------------------------------------------------------------------------
(* broadcast(), the monitor and stop()                                     *)

\* Mutant: after a disconnect the broadcast starts over.
BroadcastAgain(rest, m) ==
    LET full == {c \in rest \cap registered : ~Accepts(c)}
    IN \/ /\ full = {}
          /\ Enqueue(rest \cap registered, m)
          /\ left' = [left EXCEPT ![Sender] = {}]
          /\ UNCHANGED <<taskVars, socket>>
       \/ \E c \in full, served \in SUBSET (rest \ full) :
             /\ Enqueue(served \cap registered, m)
             /\ left' = [left EXCEPT ![Sender] = rest \ {c}]
             /\ Disconnect(Sender, c, cancelled)

\* Payload m goes to the clients in `rest`, in any order, up to one whose
\* queue is at the cap, which is disconnected before the others are served.
BroadcastTo(rest, m) ==
    LET full == {c \in rest \cap registered : ~Accepts(c)}
    IN \/ /\ full = {}
          /\ Enqueue(rest \cap registered, m)
          /\ left' = [left EXCEPT ![Sender] = {}]
          /\ UNCHANGED <<taskVars, socket>>
       \/ \E c \in full, served \in SUBSET (rest \ full) :
             /\ Enqueue(served \cap registered, m)
             /\ left' = [left EXCEPT ![Sender] = rest \ (served \cup {c})]
             /\ Disconnect(Sender, c, cancelled)

Broadcast ==
    /\ At(Sender, "idle")
    /\ \/ /\ left[Sender] = {} /\ ready # {} /\ messages < MaxMessages
          /\ stopPhase = "no" \/ messages + 1 \in StopMeets
          /\ messages' = messages + 1
          /\ BroadcastTo(ready, messages')
       \/ /\ left[Sender] # {}
          /\ BroadcastTo(left[Sender], messages)
          /\ UNCHANGED messages
    /\ UNCHANGED <<running, stopPhase, written, buffered, unwaitable>>

\* The engine is stopped: it cancels the run loop, which awaits a broadcast.
SenderCancelled ==
    /\ stopPhase = "no" /\ messages \in StopMeets
    /\ At(Sender, "joinWriter") \/ At(Sender, "joinReader") \/ At(Sender, "waitClosed")
    /\ cancelled' = cancelled \cup {Sender}
    /\ UNCHANGED <<running, queueVars, ready, readyEvent, writerRef, readerRef, pc, target, left,
                   stopPhase, messages, netVars>>

\* A list of clients, computed once, is disconnected one after the other.
DisconnectNext(a) ==
    \E c \in left[a] :
       /\ left' = [left EXCEPT ![a] = @ \ {c}]
       /\ IF c \in registered
          THEN Disconnect(a, c, cancelled)
          ELSE UNCHANGED <<taskVars, socket>>
       /\ UNCHANGED <<running, queueVars, stopPhase, messages, written, buffered, unwaitable>>

\* _monitor_slow_clients: a round over the clients `overdue`, those among the
\* blocked that have been so for slow_client_timeout_seconds.
MonitorScan(overdue) ==
    /\ At(Monitor, "idle") /\ left[Monitor] = {} /\ overdue # {}
    /\ left' = [left EXCEPT ![Monitor] = overdue]
    /\ UNCHANGED <<running, queueVars, taskVars, stopPhase, messages, netVars>>

MonitorNext == At(Monitor, "idle") /\ DisconnectNext(Monitor)

\* stop() cancels the monitor, disconnects the clients it finds, one by one,
\* and closes the listening socket.
StopBegin ==
    /\ stopPhase = "no" /\ MayStop /\ messages \in {0} \cup StopMeets
    /\ running' = FALSE /\ stopPhase' = "monitor"
    /\ cancelled' = cancelled \cup {Monitor}
    /\ UNCHANGED <<queueVars, ready, readyEvent, writerRef, readerRef, pc, target, left,
                   messages, netVars>>

StopClients ==
    /\ stopPhase = "monitor" /\ pc[Monitor] = "done"
    /\ stopPhase' = "clients"
    /\ left' = [left EXCEPT ![Stopper] = registered]
    /\ UNCHANGED <<running, queueVars, taskVars, messages, netVars>>

StopNext == At(Stopper, "idle") /\ stopPhase = "clients" /\ DisconnectNext(Stopper)

StopEnd ==
    /\ At(Stopper, "idle") /\ stopPhase = "clients" /\ left[Stopper] = {}
    /\ stopPhase' = "stopped" /\ readyEvent' = FALSE
    /\ UNCHANGED <<running, queueVars, ready, writerRef, readerRef, pc, target, cancelled,
                   left, messages, netVars>>

-----------------------------------------------------------------------------
Init ==
    /\ running = FALSE /\ stopPhase = "new"
    /\ registered = {} /\ queue = [c \in Clients |-> <<>>] /\ blocked = {}
    /\ ready = {} /\ readyEvent = FALSE /\ writerRef = {} /\ readerRef = {}
    /\ pc = [a \in Actors |-> IF a \in {Sender, Stopper} THEN "idle" ELSE "none"]
    /\ target = [a \in Servants |-> NoClient]
    /\ cancelled = {}
    /\ left = [a \in Servants |-> {}]
    /\ messages = 0
    /\ written = [c \in Clients |-> <<>>] /\ buffered = [c \in Clients |-> 0]
    /\ socket = [c \in Clients |-> "new"] /\ unwaitable = {}

\* What the loop runs of its own accord ...
LoopStep ==
    \/ \E a \in Actors :
          \/ JoinedWriter(a) \/ JoinedReader(a) \/ Disconnected(a)
          \/ WaitFails(a) \/ DeliverCancel(a)
    \/ \E c \in Clients :
          ReaderStart(c) \/ WriterSend(c) \/ WriterEnd(c) \/ WriterDrained(c)
    \/ left[Sender] # {} /\ Broadcast
    \/ MonitorNext
    \/ StopClients \/ StopNext \/ StopEnd

\* ... and what depends on callers, peers and clocks.
Next ==
    \/ LoopStep
    \/ Start \/ StopBegin \/ SenderCancelled
    \/ \E overdue \in SUBSET blocked : MonitorScan(overdue)
    \/ left[Sender] = {} /\ Broadcast
    \/ \E c \in Clients :
          \/ Connect(c) \/ ConnectRejected(c) \/ ReaderExit(c) \/ WriterFails(c)
          \/ Flush(c) \/ SocketCloses(c) \/ PeerResets(c)

Spec == Init /\ [][Next]_vars

\* What coroutine a does when it is its turn.
Runs(a) ==
    \/ JoinedWriter(a) \/ JoinedReader(a) \/ Disconnected(a)
    \/ WaitFails(a) \/ DeliverCancel(a)
    \/ \E c \in Clients :
          \/ a = R(c) /\ (ReaderStart(c) \/ (socket[c] = "closed" /\ ReaderExit(c)))
          \/ a = W(c) /\ (WriterSend(c) \/ WriterEnd(c) \/ WriterDrained(c) \/ WriterFails(c))
    \/ a = Sender /\ left[Sender] # {} /\ Broadcast
    \/ a = Monitor /\ MonitorNext
    \/ a = Stopper /\ (StopClients \/ StopNext \/ StopEnd)

\* The loop runs a coroutine that can go on while there is one; the sockets whose
\* peers read empty, and one that is closed and empty ends; the timeout of a send
\* runs out; a reset is noticed by the reader; rounds of the monitor come.
Fairness ==
    /\ WF_vars(\E a \in Actors : Runs(a))
    /\ WF_vars(\E c \in Clients : SocketCloses(c) \/ Flush(c))
    /\ WF_vars(\E overdue \in SUBSET blocked : MonitorScan(overdue))

FairSpec == Spec /\ Fairness

-----------------------------------------------------------------------------
TypeOK ==
    /\ running \in BOOLEAN /\ readyEvent \in BOOLEAN
    /\ registered \subseteq Clients /\ ready \subseteq Clients
    /\ blocked \subseteq Clients
    /\ writerRef \subseteq Clients /\ readerRef \subseteq Clients
    /\ \A c \in Clients : Len(queue[c]) =< HardCap /\ buffered[c] \in 0..(MaxMessages + 1)
    /\ \A a \in Actors :
          /\ pc[a] \in {"none", "idle", "start", "reading", "loop", "draining",
                        "joinWriter", "joinReader", "failWriter", "failReader", "waitClosed", "done"}
          /\ ClientOf(a) \in Clients \cup {NoClient}
    /\ cancelled \subseteq Actors
    /\ stopPhase \in {"new", "no", "monitor", "clients", "stopped", "failed"}
    /\ socket \in [Clients -> {"new", "open", "closing", "closed"}]

Stream == INSTANCE ClientStream WITH
    WithHeader <- SendHeader,
    sent <- messages,
    open <- ready,
    due <- left[Sender] \cap registered,
    heard <- [c \in Clients |-> written[c] \o queue[c]]

\* broadcast() raises CancelledError: the engine cancelled it, or it waits for a
\* future that another disconnect of the same client was cancelled in.  Who was
\* still to be given its message is not given it.
Raises ==
    /\ \/ Sender \in cancelled \/ pc[Sender] \in {"failWriter", "failReader"}
       \/ target[Sender] \in unwaitable
    /\ left'[Sender] = {}
    /\ UNCHANGED <<messages, ready, registered, queue, written>>

\* What a client was sent or is still to be sent is the header, if headers are
\* sent, and then a run of consecutive broadcasts: no gap, repetition or
\* reordering, whoever is connecting, failing or being disconnected meanwhile,
\* and nobody is passed over who is not cut off, unless broadcast() raises.
ImplementsClientStream ==
    Stream!StreamInit /\ [][Stream!StreamNext \/ Raises]_(Stream!streamVars)

\* The engine's wait_for_broadcast_clients() neither sleeps while a client is
\* ready nor returns with none: the event follows the set, and the set never
\* holds a client whose state is gone.
ReadyEventFollowsClients ==
    /\ ready \subseteq registered
    /\ stopPhase # "stopped" => (readyEvent <=> ready # {})

\* A client that was unregistered, possibly by the second of two disconnects
\* that overtook the first, has left every table, and a task of it still at a
\* read or a send is about to be cancelled (a send that dropped its
\* cancellation finds its connection closed).
NothingOutlivesClient ==
    \A c \in Clients :
       socket[c] # "new" /\ c \notin registered =>
          /\ c \notin writerRef \cup readerRef \cup ready
          /\ ~At(W(c), "draining") \/ SwallowCancel
          /\ ~At(R(c), "start") /\ ~At(R(c), "reading")

\* TM-INT-01, "No leaked active client sessions": while the server runs, a
\* client whose connection is gone is unregistered, although up to four
\* coroutines may be tearing it down, unless one of them is itself cancelled
\* in wait_closed(), which only stopping the engine or the server does.  A client
\* that hangs (Stalled) is never lost.
LostClientLeaves ==
    \A c \in Clients \ Stalled :
       (socket[c] = "closed" /\ c \in registered)
          ~> (c \notin registered \/ ~running \/ c \in unwaitable)

\* TM-INT-03, "Slow clients enter blocked state and disconnect while healthy clients
\* continue": while the server runs, a blocked client recovers or is unregistered, with
\* the same exception, whatever another client that hangs (Stalled) holds up.  One
\* that hangs itself is only cut off from broadcasts: its wait_closed() has no timeout.
SlowClientLeaves ==
    \A c \in Clients :
       c \in blocked
          ~> \/ c \notin blocked \/ ~running \/ c \in unwaitable
             \/ c \in Stalled /\ c \notin ready

\* Coroutine a disconnects a client whose peer hangs and has not taken all it was
\* sent: it never comes back from wait_closed().
Stuck(a) == target[a] \in Stalled /\ buffered[target[a]] > 0

\* Nobody is left after stop(), also of those that connected while it was
\* disconnecting others, unless it gets stuck at a client that hangs, if it was
\* called when no disconnect of the monitor or of a broadcast was under way that it,
\* or the engine before it, cancels.
StopLeavesNobody ==
    (stopPhase = "monitor" /\ pc[Monitor] = "idle" /\ cancelled = {Monitor} /\ unwaitable = {})
       ~> ((stopPhase = "stopped" /\ registered = {}) \/ Stuck(Stopper))

\* A broadcast under way reaches its end, or that of the cancelled caller, however
\* the tasks it joins join each other, unless it gets stuck at a client that hangs:
\* it waits for the socket of a client it disconnects, without a timeout.
BroadcastReturns ==
    (left[Sender] # {} \/ pc[Sender] # "idle")
       ~> ((left[Sender] = {} /\ pc[Sender] = "idle") \/ Stuck(Sender))

=============================================================================
