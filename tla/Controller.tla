----------------------------- MODULE Controller -----------------------------
(***************************************************************************)
(* The lifecycle of the two pipelines SimulatorController owns             *)
(* (src/tcp_sim/gui/controller.py): the sender's transport and             *)
(* SimulatorEngine, and the ReceiverEngine with its transport and sink.    *)
(*                                                                         *)
(* Each command of the GUI thread is a coroutine on the one event loop.    *)
(* It is the list of the steps it has still to take; a step that waits     *)
(* gives up the loop, and the fields of the controller may be others when  *)
(* the next one runs.  Transports are numbered as they are built; the      *)
(* engine and the sink that belong to one have its number.                 *)
(***************************************************************************)
EXTENDS Integers, Sequences

CONSTANTS
    Jobs,        \* the coroutines; each runs one command
    NoJob,
    Closing,     \* the coroutine shutdown() waits for
    Commands,    \* the commands the user may give
    Faults,      \* the steps that may fail
    MaxBuilds,   \* bound: transports built
    MayOverlap   \* bound: whether a start or an apply meets another command

None == 0
Numbers == 1..MaxBuilds

Starts == {"transmit", "apply", "receive"}
Stops == {"stopTransport", "stopReception", "shutdown"}

ASSUME ControllerAssumption ==
    /\ NoJob \notin Jobs /\ Closing \in Jobs
    /\ Commands \subseteq Starts \cup Stops
    /\ Faults \subseteq {"load", "build", "bind", "controls", "stop", "cancel"}
    /\ MaxBuilds \in Nat

VARIABLES
    active,     \* _active_transport
    engine,     \* _engine
    stats,      \* _stats_task is not None
    receiver,   \* _receiver_engine (and _receiver_transport)
    rxStats,    \* _receiver_stats_task is not None
    role,       \* _active_role
    kind,       \* per number: not built yet, of a sender, of a receiver
    link,       \* the transport: new, starting, up, stopping, down; cut when its
                \* stop() was cancelled and it listens on without running;
                \* lingering when only its listening socket was closed
    work,       \* whether the run task, or the drain of the sink, is alive
    started,    \* ReceiverEngine._state.started and not stopping
    todo,       \* per coroutine: the steps it has still to take
    held,       \* per coroutine: the object its awaited call is about
    cpu,        \* the coroutine that has the loop
    last,       \* the command given last
    window      \* open; closing while the GUI thread is in shutdown(); closed

txVars == <<active, engine, stats>>
rxVars == <<receiver, rxStats, role>>
objVars == <<kind, link, work, started>>
gui == <<last, window>>
vars == <<txVars, rxVars, objVars, todo, held, cpu, gui>>

StopTransport ==
    <<"stats", "statsJoined", "engine", "engineJoined", "transport", "transportStopped">>

StopReception == <<"rxStats", "rxStatsJoined", "detach", "rxStopped", "rxRole">>

ShutdownSenderOnly == StopTransport  \* mutant: the receiver is left running

StopEverything == StopReception \o StopTransport

Body(c) ==
    CASE c = "transmit" -> <<"load", "clear", "buildTx", "bound", "sending">>
      [] c = "apply" -> <<"clear", "buildTx", "applied">>
      [] c = "receive" -> <<"clearTx", "clearRx", "buildRx", "listening">>
      [] c = "stopTransport" -> StopTransport
      [] c = "stopReception" -> StopReception
      [] c = "shutdown" -> StopEverything

-----------------------------------------------------------------------------
(* Coroutines                                                              *)

\* Coroutine j has the loop, or can have it, and is before step s.
At(j, s) == todo[j] # <<>> /\ Head(todo[j]) = s /\ cpu \in {NoJob, j}

Rest(j) == Tail(todo[j])

\* The step goes on to `steps` without waiting, or ends the coroutine.
GoOn(j, steps) ==
    /\ todo' = [todo EXCEPT ![j] = steps]
    /\ cpu' = IF steps = <<>> THEN NoJob ELSE j

\* The step waits for something about object n before `steps`.
Await(j, n, steps) ==
    /\ todo' = [todo EXCEPT ![j] = steps]
    /\ held' = [held EXCEPT ![j] = n]
    /\ cpu' = NoJob

May(f) == f \in Faults

\* The number of the next object built.
New(n) == kind[n] = "none" /\ \A m \in 1..(n - 1) : kind[m] # "none"

-----------------------------------------------------------------------------
(* _stop_transport_async                                                   *)

Stats(j) ==
    /\ At(j, "stats")
    /\ IF stats THEN Await(j, None, Rest(j)) ELSE GoOn(j, Tail(Rest(j))) /\ UNCHANGED held
    /\ UNCHANGED <<txVars, rxVars, objVars, gui>>

StatsJoined(j) ==
    /\ At(j, "statsJoined")
    /\ stats' = FALSE
    /\ GoOn(j, Rest(j))
    /\ UNCHANGED <<active, engine, rxVars, objVars, held, gui>>

\* SimulatorEngine.stop() cancels the run task and joins it; an engine that
\* never ran is only forgotten.
EngineStop(j) ==
    /\ At(j, "engine")
    /\ \/ engine # None /\ work[engine] /\ Await(j, engine, Rest(j)) /\ UNCHANGED engine
       \/ /\ engine # None => ~work[engine]
          /\ engine' = None
          /\ GoOn(j, Tail(Rest(j))) /\ UNCHANGED held
    /\ UNCHANGED <<active, stats, rxVars, objVars, gui>>

EngineJoined(j) ==
    /\ At(j, "engineJoined")
    /\ work' = [work EXCEPT ![held[j]] = FALSE]
    /\ engine' = None
    /\ GoOn(j, Rest(j))
    /\ UNCHANGED <<active, stats, rxVars, kind, link, started, held, gui>>

\* stop() of a transport that does not run returns without waiting.
TransportStop(j) ==
    /\ At(j, "transport")
    /\ IF active # None /\ link[active] = "up"
       THEN /\ link' = [link EXCEPT ![active] = "stopping"]
            /\ Await(j, active, Rest(j))
            /\ UNCHANGED active
       ELSE /\ active' = None
            /\ GoOn(j, Tail(Rest(j)))
            /\ UNCHANGED <<link, held>>
    /\ UNCHANGED <<engine, stats, rxVars, kind, work, started, gui>>

\* A disconnect that stop() of the TCP sender interrupted while it waited for
\* its socket lets the CancelledError through (tcp_server_sender.py:145-151,
\* 270): server.close() is not reached, `_running` is False already, and no
\* handler of the controller catches the error, nor does shutdown(), which
\* then leaves the window open.
StopCancelled(j) ==
    /\ link' = [link EXCEPT ![held[j]] = "cut"]
    /\ GoOn(j, <<>>)
    /\ window' = IF j = Closing THEN "open" ELSE window
    /\ UNCHANGED active

TransportStopped(j) ==
    /\ At(j, "transportStopped")
    /\ \/ /\ link' = [link EXCEPT ![held[j]] = "down"]
          /\ active' = None
          /\ GoOn(j, Rest(j)) /\ UNCHANGED window
       \/ May("cancel") /\ StopCancelled(j)
    /\ UNCHANGED <<engine, stats, rxVars, kind, work, started, held, last>>

-----------------------------------------------------------------------------
(* _stop_reception_async                                                   *)

RxStats(j) ==
    /\ At(j, "rxStats")
    /\ IF rxStats THEN Await(j, None, Rest(j)) ELSE GoOn(j, Tail(Rest(j))) /\ UNCHANGED held
    /\ UNCHANGED <<txVars, rxVars, objVars, gui>>

RxStatsJoined(j) ==
    /\ At(j, "rxStatsJoined")
    /\ rxStats' = FALSE
    /\ GoOn(j, Rest(j))
    /\ UNCHANGED <<txVars, receiver, role, objVars, held, gui>>

\* The fields are cleared, then ReceiverEngine.stop() is waited for, which
\* does nothing unless the engine has started.
Detach(j) ==
    /\ At(j, "detach")
    /\ receiver' = None
    /\ IF receiver = None
       THEN GoOn(j, Tail(Rest(j))) /\ UNCHANGED <<link, started, held>>
       ELSE /\ Await(j, receiver, Rest(j))
            /\ link' = [link EXCEPT ![receiver] = IF started[receiver] THEN "stopping" ELSE @]
            /\ started' = [started EXCEPT ![receiver] = FALSE]
    /\ UNCHANGED <<txVars, rxStats, role, kind, work, gui>>

\* What stop() leaves of transport and drain: nothing; or, when its five
\* seconds are over and it is cancelled, the drain, and if it had not got past
\* the transport the connections of the peers.
Remains == {<<"down", FALSE>>} \cup
    IF May("stop") THEN {<<"down", TRUE>>, <<"lingering", TRUE>>} ELSE {}

RxStopped(j) ==
    /\ At(j, "rxStopped")
    /\ LET n == held[j] IN
          IF link[n] = "stopping"
          THEN \E left \in Remains :
                  /\ link' = [link EXCEPT ![n] = left[1]]
                  /\ work' = [work EXCEPT ![n] = left[2]]
          ELSE UNCHANGED <<link, work>>
    /\ GoOn(j, Rest(j))
    /\ UNCHANGED <<txVars, rxVars, kind, started, held, gui>>

RxRole(j) ==
    /\ At(j, "rxRole")
    /\ role' = "sender"
    /\ GoOn(j, Rest(j))
    /\ UNCHANGED <<txVars, receiver, rxStats, objVars, held, gui>>

-----------------------------------------------------------------------------
(* _start_transmission_async and _apply_settings_async                     *)

\* An exception of a start reaches its handler, that of an apply nobody.
Handler(j) == IF Rest(j) = <<"applied">> THEN <<>> ELSE StopTransport

Load(j) ==
    /\ At(j, "load")
    /\ GoOn(j, Rest(j)) \/ (May("load") /\ GoOn(j, StopTransport))
    /\ UNCHANGED <<txVars, rxVars, objVars, held, gui>>

NeverClear(j) ==  \* mutant: the transport there is is replaced, not stopped
    /\ At(j, "clear")
    /\ GoOn(j, Rest(j))
    /\ UNCHANGED <<txVars, rxVars, objVars, held, gui>>

Clear(j) ==
    /\ At(j, "clear")
    /\ GoOn(j, IF active # None THEN StopTransport \o Rest(j) ELSE Rest(j))
    /\ UNCHANGED <<txVars, rxVars, objVars, held, gui>>

BuildTx(j) ==
    /\ At(j, "buildTx")
    /\ \/ \E n \in Numbers :
             /\ New(n)
             /\ kind' = [kind EXCEPT ![n] = "sender"]
             /\ link' = [link EXCEPT ![n] = "starting"]
             /\ active' = n
             /\ Await(j, n, Rest(j))
       \/ /\ May("build")
          /\ GoOn(j, Handler(j))
          /\ UNCHANGED <<kind, link, active, held>>
    /\ UNCHANGED <<engine, stats, rxVars, work, started, gui>>

\* mutant: line controls the engine rejects leave the transport running.
RejectUnhandled(j) ==
    /\ engine' = held[j] /\ UNCHANGED work
    /\ GoOn(j, <<>>) /\ UNCHANGED held

\* The engine is set before it rejects the line controls remembered.
Reject(j) ==
    /\ engine' = held[j] /\ UNCHANGED work
    /\ GoOn(j, StopTransport) /\ UNCHANGED held

Run(j) ==
    /\ engine' = held[j]
    /\ work' = [work EXCEPT ![held[j]] = TRUE]
    /\ Await(j, held[j], Rest(j))

\* The transport's start() returned, and the engine is made and started.
Bound(j) ==
    /\ At(j, "bound")
    /\ \/ /\ link' = [link EXCEPT ![held[j]] = "up"]
          /\ Run(j) \/ (May("controls") /\ Reject(j))
       \/ /\ May("bind")
          /\ link' = [link EXCEPT ![held[j]] = "down"]
          /\ GoOn(j, StopTransport)
          /\ UNCHANGED <<engine, work, held>>
    /\ UNCHANGED <<active, stats, rxVars, kind, started, gui>>

Sending(j) ==
    /\ At(j, "sending")
    /\ stats' = TRUE
    /\ GoOn(j, <<>>)
    /\ UNCHANGED <<active, engine, rxVars, objVars, held, gui>>

Applied(j) ==
    /\ At(j, "applied")
    /\ \E l \in IF May("bind") THEN {"up", "down"} ELSE {"up"} :
          link' = [link EXCEPT ![held[j]] = l]
    /\ GoOn(j, <<>>)
    /\ UNCHANGED <<txVars, rxVars, kind, work, started, held, gui>>

-----------------------------------------------------------------------------
(* _start_reception_async                                                  *)

ClearTx(j) ==
    /\ At(j, "clearTx")
    /\ GoOn(j, IF active # None \/ engine # None THEN StopTransport \o Rest(j) ELSE Rest(j))
    /\ UNCHANGED <<txVars, rxVars, objVars, held, gui>>

ClearRx(j) ==
    /\ At(j, "clearRx")
    /\ GoOn(j, IF receiver # None THEN StopReception \o Rest(j) ELSE Rest(j))
    /\ UNCHANGED <<txVars, rxVars, objVars, held, gui>>

\* The fields name the engine before it is started.
NewReceiver(n) ==
    /\ New(n)
    /\ kind' = [kind EXCEPT ![n] = "receiver"]
    /\ receiver' = n
    /\ role' = "receiver"

\* ReceiverEngine.start() starts the sink and waits for the transport.
StartEngine(j, n) ==
    /\ work' = [work EXCEPT ![n] = TRUE]
    /\ link' = [link EXCEPT ![n] = "starting"]
    /\ Await(j, n, Rest(j))

BuildRx(j) ==
    /\ At(j, "buildRx")
    /\ \/ \E n \in Numbers : NewReceiver(n) /\ StartEngine(j, n)
       \/ /\ May("build")
          /\ GoOn(j, StopReception)
          /\ UNCHANGED <<kind, link, work, receiver, role, held>>
    /\ UNCHANGED <<txVars, rxStats, started, gui>>

Listening(j) ==
    /\ At(j, "listening")
    /\ \/ /\ link' = [link EXCEPT ![held[j]] = "up"]
          /\ started' = [started EXCEPT ![held[j]] = TRUE]
          /\ rxStats' = TRUE
          /\ GoOn(j, <<>>)
       \/ /\ May("bind")
          /\ link' = [link EXCEPT ![held[j]] = "down"]
          /\ GoOn(j, StopReception)
          /\ UNCHANGED <<started, rxStats>>
    /\ UNCHANGED <<txVars, receiver, role, kind, work, held, gui>>

-----------------------------------------------------------------------------
Init ==
    /\ active = None /\ engine = None /\ stats = FALSE
    /\ receiver = None /\ rxStats = FALSE /\ role = "sender"
    /\ kind = [n \in Numbers |-> "none"]
    /\ link = [n \in Numbers |-> "new"]
    /\ work = [n \in Numbers |-> FALSE]
    /\ started = [n \in Numbers |-> FALSE]
    /\ todo = [j \in Jobs |-> <<>>]
    /\ held = [j \in Jobs |-> None]
    /\ cpu = NoJob
    /\ last = "none" /\ window = "open"

Quiet == \A j \in Jobs : todo[j] = <<>>

\* The GUI thread hands a command to the loop; in shutdown() it gives no more.
Give(j, c) ==
    /\ window = "open" /\ todo[j] = <<>>
    /\ c = "shutdown" => j = Closing
    /\ \/ MayOverlap \/ Quiet
       \/ c \in Stops /\ last \in Stops
    /\ c \in Starts => \E n \in Numbers : kind[n] = "none"
    /\ todo' = [todo EXCEPT ![j] = Body(c)]
    /\ last' = c
    /\ window' = IF c = "shutdown" THEN "closing" ELSE window
    /\ UNCHANGED <<txVars, rxVars, objVars, held, cpu>>

\* shutdown() stops the loop when its own coroutine has returned, or five
\* seconds are over, whatever the others have still to do.
LoopStops ==
    /\ window = "closing" /\ cpu = NoJob
    /\ todo[Closing] = <<>> \/ May("stop")
    /\ window' = "closed"
    /\ UNCHANGED <<txVars, rxVars, objVars, todo, held, cpu, last>>

StopTransportStep(j) ==
    Stats(j) \/ StatsJoined(j) \/ EngineStop(j) \/ EngineJoined(j)
    \/ TransportStop(j) \/ TransportStopped(j)

StopReceptionStep(j) ==
    RxStats(j) \/ RxStatsJoined(j) \/ Detach(j) \/ RxStopped(j) \/ RxRole(j)

StartStep(j) ==
    Load(j) \/ Clear(j) \/ BuildTx(j) \/ Bound(j) \/ Sending(j) \/ Applied(j)
    \/ ClearTx(j) \/ ClearRx(j) \/ BuildRx(j) \/ Listening(j)

Step(j) ==
    /\ window # "closed"
    /\ StopTransportStep(j) \/ StopReceptionStep(j) \/ StartStep(j)

Next == LoopStops \/ \E j \in Jobs : Step(j) \/ \E c \in Commands : Give(j, c)

Spec == Init /\ [][Next]_vars

-----------------------------------------------------------------------------
TypeOK ==
    /\ {active, engine, receiver} \subseteq Numbers \cup {None}
    /\ stats \in BOOLEAN /\ rxStats \in BOOLEAN /\ role \in {"sender", "receiver"}
    /\ kind \in [Numbers -> {"none", "sender", "receiver"}]
    /\ link \in [Numbers -> {"new", "starting", "up", "stopping", "down", "cut", "lingering"}]
    /\ work \in [Numbers -> BOOLEAN] /\ started \in [Numbers -> BOOLEAN]
    /\ held \in [Jobs -> Numbers \cup {None}]
    /\ cpu # NoJob => todo[cpu] # <<>>
    /\ last \in {"none"} \cup Commands
    /\ window \in {"open", "closing", "closed"}

\* A transport that runs, and a run task, belong to a field of the controller
\* by which the next command will stop them ("no residual tasks or leaked
\* sockets", implementation-plan.md:361), whichever steps of a start fail, and
\* with two stops at once. Not covered: the socket of a stop() that ended in
\* CancelledError (link "cut"), and what a stop() of the
\* receiver given up after five seconds leaves: its drain, and its peers
\* ("lingering").
NoResidue ==
    Quiet => \A n \in Numbers :
        /\ link[n] = "up" => n \in {active, receiver}
        /\ link[n] \notin {"starting", "stopping"}
        /\ kind[n] = "sender" /\ work[n] => n = engine

\* A start is all or nothing: after a failure at any of its steps no half
\* built pipeline is left in the fields for the next command to run into. A
\* transmission whose clearing ended in CancelledError leaves the transport
\* before it, cut, in its field, and no engine.
AllOrNothing ==
    Quiet =>
      /\ engine # None => engine = active /\ link[active] = "up" /\ work[engine]
      /\ last = "transmit" =>
            engine = active \/ (active # None /\ link[active] = "cut")
      /\ receiver # None => link[receiver] = "up" /\ started[receiver] /\ work[receiver]
      /\ role = (IF receiver = None THEN "sender" ELSE "receiver")

\* A shutdown() whose coroutine returned within its five seconds leaves no
\* field that names anything, no run task, and no transport but those whose
\* stop() is not its own: one it overtook, which the loop stops before it has
\* ended, and those an earlier stop left cut or lingering (NFR-06).
ShutdownLeavesNothing ==
    window = "closed" /\ todo[Closing] = <<>> =>
        /\ active = None /\ engine = None /\ receiver = None
        /\ ~stats /\ ~rxStats
        /\ \A n \in Numbers :
              /\ \/ link[n] \in {"new", "down", "cut", "lingering"}
                 \/ link[n] = "stopping" /\ \E j \in Jobs : todo[j] # <<>> /\ held[j] = n
              /\ kind[n] = "sender" => ~work[n]

=============================================================================
