------------------------------ MODULE Streaming ------------------------------
(***************************************************************************)
(* The sending side of the controller in TCP server mode: the records of a *)
(* file drawn one by one by SendScheduler (src/tcp_sim/engine/scheduler.py),*)
(* by the automatic run of SimulatorEngine and by the step button, while   *)
(* the file, the lines selected and the position are changed and clients   *)
(* come and go (src/tcp_sim/gui/controller.py).                            *)
(*                                                                         *)
(* Files are numbered in the order in which they are loaded; record 0 of a *)
(* file is its header.  Of the transport only what the sending coroutines  *)
(* see is here: the set of ready clients, a client lost at any time, and   *)
(* one that overflows in the middle of a broadcast, which then waits for   *)
(* its disconnect.  ServerSender has the rest.                             *)
(***************************************************************************)
EXTENDS Integers, SequencesExt

CONSTANTS
    Clients,       \* connections; each is made once
    Records,       \* Records[f]: how many valid records file f has
    Loop,          \* StreamSettings.loop
    Controls,      \* the line controls the user may set
    AutoRun, Steppers,  \* the run loop, and the coroutines of step_once()
    MaxDraws,      \* bound: messages drawn from the scheduler
    MayOverlap,    \* bound: whether a message is drawn while another is in hand
    MaxEdits       \* bound: uses of the file, line, jump and pause controls

None == 0  \* no file, no limit

\* set_line_controls() raises on anything else.
ValidControls(k) ==
    /\ k.start \in Nat /\ k.end \in Nat /\ k.first \in Nat
    /\ k.start = None \/ k.end = None \/ k.start =< k.end

AllLines == [start |-> None, end |-> None, first |-> None]

ASSUME StreamingAssumption ==
    /\ Records \in Seq(Nat) /\ Records # <<>>
    /\ \A k \in Controls : ValidControls(k)
    /\ AutoRun \notin Steppers

Files == DOMAIN Records
Actors == {AutoRun} \cup Steppers

VARIABLES
    controls,     \* _start_line, _end_line, _first_n
    sched,        \* source, records selected of it, cursor, and pending header
    pendingSwap,  \* _pending_swap
    paused,       \* _paused
    loaded,       \* the number of the file loaded last
    onConnect,    \* the file whose header a new client is sent, or None
    at,           \* per coroutine: idle, waiting for clients, or in a broadcast
    hand,         \* the message it has drawn
    rest,         \* the clients its broadcast has still to visit
    ready,        \* the clients ready for broadcasts
    got,          \* what was queued for each client
    drawn, aired, \* messages drawn, and those of which a broadcast began
    edits,        \* uses of these controls so far
    headed,       \* the files that were loaded with a header to send
    midSwap       \* clients that connected between a swap and its last old message

schedVars == <<controls, sched, pendingSwap, paused, loaded>>
sendVars == <<at, hand, rest, ready, got, aired>>
history == <<headed, midSwap>>
vars == <<schedVars, onConnect, sendVars, drawn, edits, history>>

NoSwap == [file |-> None, header |-> FALSE]
NoMessage == [file |-> None, record |-> None, draw |-> 0]

-----------------------------------------------------------------------------
(* SendScheduler                                                           *)

\* _rebuild_active_records: records[start-1 : end][:first_n].
WindowOffByOne(f, k) ==  \* mutant: end_line is exclusive
    LET last == IF k.end = None \/ k.end > Records[f] THEN Records[f] ELSE k.end - 1
        sliced == SubSeq([i \in 1..Records[f] |-> i], IF k.start = None THEN 1 ELSE k.start, last)
    IN IF k.first = None \/ k.first > Len(sliced) THEN sliced ELSE SubSeq(sliced, 1, k.first)

Window(f, k) ==
    LET last == IF k.end = None \/ k.end > Records[f] THEN Records[f] ELSE k.end
        sliced == SubSeq([i \in 1..Records[f] |-> i], IF k.start = None THEN 1 ELSE k.start, last)
    IN IF k.first = None \/ k.first > Len(sliced) THEN sliced ELSE SubSeq(sliced, 1, k.first)

Rebuilt(f, k, header) == [source |-> f, window |-> Window(f, k), cursor |-> 0, header |-> header]

SwappedHeaderless ==  \* mutant: the header of the new file is not pending
    IF pendingSwap = NoSwap THEN sched ELSE Rebuilt(pendingSwap.file, controls, FALSE)

\* _apply_pending_swap_if_any, the first thing step() does.
Swapped ==
    IF pendingSwap = NoSwap THEN sched
    ELSE Rebuilt(pendingSwap.file, controls, pendingSwap.header)

HasNext(s) == s.window # <<>> /\ (Loop \/ s.cursor < Len(s.window))

\* step() returns the pending header or the record under the cursor ...
Drawable == Swapped.header \/ HasNext(Swapped)

Position == IF Swapped.cursor < Len(Swapped.window) THEN Swapped.cursor + 1 ELSE 1

Drawn ==
    [file |-> Swapped.source, draw |-> drawn + 1,
     record |-> IF Swapped.header THEN 0 ELSE Swapped.window[Position]]

Draw ==
    /\ Drawable /\ drawn < MaxDraws
    /\ drawn' = drawn + 1 /\ pendingSwap' = NoSwap
    /\ sched' = IF Swapped.header THEN [Swapped EXCEPT !.header = FALSE]
                ELSE [Swapped EXCEPT !.cursor = Position]

DrawNothingKeepingSwap ==  \* mutant: the end of the file is tested before the swap
    /\ ~HasNext(sched)
    /\ UNCHANGED <<sched, pendingSwap, drawn>>

\* ... or None, having switched files all the same.
DrawNothing ==
    /\ ~Drawable
    /\ sched' = Swapped /\ pendingSwap' = NoSwap
    /\ UNCHANGED drawn

-----------------------------------------------------------------------------
(* SimulatorController._send_scheduled_message and broadcast()             *)

Queued(cs, m) == [c \in Clients |-> IF c \in cs THEN Append(got[c], m) ELSE got[c]]

\* Coroutine a visits `left`, in any order: to the end, or up to a client that
\* overflows and whose disconnect it waits for.
VisitSkipping(a, m, left) ==  \* mutant: the clients after an overflow are not visited
    /\ at' = [at EXCEPT ![a] = "idle"] /\ rest' = [rest EXCEPT ![a] = {}]
    /\ hand' = [hand EXCEPT ![a] = NoMessage]
    /\ \/ got' = Queued(left \cap ready, m) /\ UNCHANGED ready
       \/ \E c \in left \cap ready : \E served \in SUBSET (left \ {c}) :
             got' = Queued(served \cap ready, m) /\ ready' = ready \ {c}

Visit(a, m, left) ==
    \/ /\ got' = Queued(left \cap ready, m)
       /\ at' = [at EXCEPT ![a] = "idle"]
       /\ hand' = [hand EXCEPT ![a] = NoMessage]
       /\ rest' = [rest EXCEPT ![a] = {}]
       /\ UNCHANGED ready
    \/ \E c \in left \cap ready : \E served \in SUBSET (left \ {c}) :
          /\ got' = Queued(served \cap ready, m)
          /\ at' = [at EXCEPT ![a] = "sending"]
          /\ hand' = [hand EXCEPT ![a] = m]
          /\ rest' = [rest EXCEPT ![a] = left \ (served \cup {c})]
          /\ ready' = ready \ {c}

Air(a, m) == aired' = Append(aired, m) /\ Visit(a, m, ready)

\* The automatic run outlives the step button, so that a message without
\* clients waits.
Send(a, m) ==
    \/ ready # {} /\ Air(a, m)
    \/ /\ ready = {}
       /\ at' = [at EXCEPT ![a] = "waiting"]
       /\ hand' = [hand EXCEPT ![a] = m]
       /\ UNCHANGED <<rest, ready, got, aired>>

\* A coroutine draws from the scheduler and sends what it got, if anything.
Advance(a) ==
    /\ at[a] = "idle"
    /\ MayOverlap \/ \A b \in Actors : at[b] = "idle"
    /\ \/ Draw /\ Send(a, Drawn)
       \/ DrawNothing /\ UNCHANGED sendVars
    /\ UNCHANGED <<controls, paused, loaded, onConnect, edits, history>>

\* One round of run_auto after its sleep.
RunRound == ~paused /\ Advance(AutoRun)

\* One use of the step button, while the run is paused or not.
StepOnce(a) == a \in Steppers /\ Advance(a)

\* mutant: a fresh message is drawn when a client is back.
ResumeWithNext(a) ==
    /\ at[a] = "waiting" /\ ready # {}
    /\ Draw /\ Air(a, Drawn)
    /\ UNCHANGED <<controls, paused, loaded, onConnect, edits, history>>

\* wait_for_broadcast_clients() returned and there is still a client.
Resume(a) ==
    /\ at[a] = "waiting" /\ ready # {}
    /\ Air(a, hand[a])
    /\ UNCHANGED <<schedVars, onConnect, drawn, edits, history>>

\* The disconnect is over: the broadcast goes on.
Continue(a) ==
    /\ at[a] = "sending"
    /\ Visit(a, hand[a], rest[a])
    /\ UNCHANGED <<schedVars, onConnect, aired, drawn, edits, history>>

-----------------------------------------------------------------------------
(* Clients and the user                                                    *)

Connected == {c \in Clients : c \in ready \/ got[c] # <<>>}

SwapUnderWay ==
    pendingSwap # NoSwap \/ \E a \in Actors : hand[a].file \notin {None, loaded}

Connect(c) ==
    /\ c \notin Connected
    /\ midSwap' = IF SwapUnderWay THEN midSwap \cup {c} ELSE midSwap \ {c}
    /\ ready' = ready \cup {c}
    /\ got' = IF onConnect = None THEN got
              ELSE [got EXCEPT ![c] = <<[file |-> onConnect, record |-> 0, draw |-> 0]>>]
    /\ UNCHANGED <<schedVars, onConnect, at, hand, rest, drawn, aired, edits, headed>>

Lose(c) ==
    /\ c \in ready
    /\ ready' = ready \ {c}
    /\ UNCHANGED <<schedVars, onConnect, at, hand, rest, got, drawn, aired, edits, history>>

\* SendScheduler.request_file_swap: a swap that is pending is replaced.
RequestSwap(f, header) == pendingSwap' = [file |-> f, header |-> header]

\* TcpServerSender.update_header_payload.
UpdateHeader(f, header) == onConnect' = IF header THEN f ELSE None

\* _swap_file: the records wait for the next step(), the header of new
\* clients changes now.
SwapFile(header) ==
    /\ edits < MaxEdits /\ edits' = edits + 1
    /\ loaded + 1 \in Files
    /\ loaded' = loaded + 1
    /\ RequestSwap(loaded', header)
    /\ UpdateHeader(loaded', header)
    /\ headed' = IF header THEN headed \cup {loaded'} ELSE headed
    /\ UNCHANGED <<controls, sched, paused, sendVars, drawn, midSwap>>

SetLineControls(k) ==
    /\ edits < MaxEdits /\ edits' = edits + 1
    /\ controls' = k
    /\ sched' = Rebuilt(sched.source, k, sched.header)
    /\ UNCHANGED <<pendingSwap, paused, loaded, onConnect, sendVars, drawn, history>>

\* SendScheduler.jump_to, which accepts the lines of the window only.
Jumped(line) ==
    /\ line \in DOMAIN sched.window
    /\ sched' = [sched EXCEPT !.cursor = line - 1]

JumpTo(line) ==
    /\ edits < MaxEdits /\ edits' = edits + 1
    /\ Jumped(line)
    /\ UNCHANGED <<controls, pendingSwap, paused, loaded, onConnect, sendVars, drawn, history>>

\* SendScheduler.pause or resume: a message in hand is not held back.
SwitchPause == paused' = ~paused

TogglePause ==
    /\ edits < MaxEdits /\ edits' = edits + 1
    /\ SwitchPause
    /\ UNCHANGED <<controls, sched, pendingSwap, loaded, onConnect, sendVars, drawn, history>>

\* start_transmission() of the first file, with or without its header.
Init ==
    /\ controls \in Controls /\ loaded = 1
    /\ sched = Rebuilt(1, controls, FALSE)
    /\ pendingSwap = NoSwap /\ paused = FALSE
    /\ onConnect \in {None, 1}
    /\ at = [a \in Actors |-> "idle"]
    /\ hand = [a \in Actors |-> NoMessage]
    /\ rest = [a \in Actors |-> {}]
    /\ ready = {} /\ got = [c \in Clients |-> <<>>]
    /\ drawn = 0 /\ aired = <<>> /\ edits = 0
    /\ headed = {onConnect} \ {None} /\ midSwap = {}

Next ==
    \/ RunRound \/ \E a \in Actors : StepOnce(a) \/ Resume(a) \/ Continue(a)
    \/ \E c \in Clients : Connect(c) \/ Lose(c)
    \/ \E header \in BOOLEAN : SwapFile(header)
    \/ \E k \in Controls : SetLineControls(k)
    \/ \E line \in DOMAIN sched.window : JumpTo(line)
    \/ TogglePause

Spec == Init /\ [][Next]_vars

\* The event loop runs every coroutine that can go on.  Continue is not one: it waits
\* for a disconnect, whose wait_closed() has no timeout and lasts for as long as the
\* client does not read (tcp_server_sender.py:270).
Fairness == \A a \in Actors : WF_vars(Resume(a))
FairSpec == Spec /\ Fairness /\ WF_vars(RunRound)

-----------------------------------------------------------------------------
Messages == [file : Files, record : Nat, draw : 0..MaxDraws]

TypeOK ==
    /\ controls \in Controls /\ loaded \in Files
    /\ sched.source \in Files /\ sched.header \in BOOLEAN
    /\ sched.cursor \in 0..Len(sched.window)
    /\ pendingSwap \in {NoSwap} \cup [file : Files, header : BOOLEAN]
    /\ paused \in BOOLEAN /\ onConnect \in Files \cup {None}
    /\ at \in [Actors -> {"idle", "waiting", "sending"}]
    /\ hand \in [Actors -> {NoMessage} \cup Messages]
    /\ rest \in [Actors -> SUBSET Clients] /\ ready \subseteq Clients
    /\ \A c \in Clients : \A n \in DOMAIN got[c] : got[c][n] \in Messages
    /\ drawn \in 0..MaxDraws /\ Len(aired) =< drawn
    /\ headed \subseteq Files /\ midSwap \subseteq Clients

\* FR-22: the lines offered are those the user selected in the file that is
\* being sent, in order, also when the selection changed while a swap was pending.
WindowSelects ==
    LET k == controls
        inRange == {i \in 1..Records[sched.source] :
                      (k.start = None \/ i >= k.start) /\ (k.end = None \/ i =< k.end)}
        selected == {i \in inRange :
                      k.first = None \/ Cardinality({j \in inRange : j =< i}) =< k.first}
    IN /\ Range(sched.window) = selected
       /\ \A i, j \in DOMAIN sched.window : i < j => sched.window[i] < sched.window[j]

Stream == INSTANCE ClientStream WITH
    WithHeader <- FALSE,
    sent <- IF aired = <<>> THEN 0 ELSE Last(aired).draw,
    open <- ready,
    due <- ready \cap UNION {rest[a] : a \in Actors},
    heard <- [c \in Clients |-> [n \in DOMAIN got[c] |-> got[c][n].draw]]

\* FR-20b and design-and-requirements.md:417: no line is passed over while
\* nobody is connected, and a client that stays misses none.  The message
\* broadcast next is always the one drawn next, and each client has a run of
\* consecutive ones after its header, if the step button is not used while the
\* automatic run has a message in hand (MayOverlap).
StreamFollowsSchedule == Stream!StreamSpec

\* FR-08 and FR-20f: a client that was not connecting in the middle of a swap
\* has the header of a file, if it is to be sent, before the first record of
\* that file, and gets the one that announces a swap only once.
HeaderOnceFirst ==
    \A c \in Clients \ midSwap : \A n \in DOMAIN got[c] :
       LET m == got[c][n]
           headers == {k \in 1..n : got[c][k].file = m.file /\ got[c][k].record = 0}
       IN /\ m.record # 0 /\ m.file \in headed => headers # {}
          /\ Cardinality({k \in headers : got[c][k].draw # 0}) =< 1

\* FR-20d: a swap takes effect whether or not lines are left of the old file
\* or the new one has any, unless the run is paused or a message in hand stays there
\* for ever: nobody connects, or the broadcast waits for the disconnect of a client
\* that never reads, which nothing limits.  A hold-up that ends is no excuse.
SwapTakesEffect ==
    [](pendingSwap # NoSwap
         => <>(pendingSwap = NoSwap \/ paused \/ drawn = MaxDraws
                 \/ [](\E a \in Actors : at[a] \in {"waiting", "sending"})))

\* FR-20a, the run "shall pause when zero clients are connected and resume when
\* at least one client reconnects": a message drawn is broadcast when there
\* is somebody to send it to, although the disconnect of a slow client may
\* hold up another one.
DrawnIsAired ==
    \A n \in 1..MaxDraws :
       (drawn >= n /\ ready # {}) ~> (Len(aired) >= n \/ ready = {})

=============================================================================
