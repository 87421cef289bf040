------------------------- MODULE ServerSenderProofs -------------------------
(***************************************************************************)
(* For any clients, marks, limits and number of messages, with or without  *)
(* stop(), on every version of Python: the ready event follows the ready   *)
(* clients, what outlives a client is about to end, and ServerSender       *)
(* implements ClientStream, as long as broadcast() does not raise.         *)
(***************************************************************************)
EXTENDS ServerSender, SequenceTheorems, TLAPS

WritersEnd == {"joinReader", "failReader", "waitClosed"}
TearDown == {"joinWriter", "failWriter"} \cup WritersEnd

\* Coroutine a is tearing down its client; and it is past the client's writer.
Tearing(a) == pc[a] \in TearDown
PastWriter(a) == pc[a] \in WritersEnd

TypeInv ==
    /\ registered \subseteq Clients /\ ready \subseteq Clients
    /\ writerRef \subseteq Clients /\ readerRef \subseteq Clients
    /\ readyEvent \in BOOLEAN
    /\ pc \in [Actors -> {"none", "idle", "start", "reading", "loop", "draining", "done"}
                            \cup TearDown]
    /\ target \in [Servants -> Clients \cup {NoClient}]
    /\ cancelled \subseteq Actors
    /\ socket \in [Clients -> {"new", "open", "closing", "closed"}]
    /\ \A a \in Servants : pc[a] \in {"none", "idle", "done"} \cup TearDown
    /\ \A c \in Clients : /\ pc[W(c)] \notin {"idle", "start", "reading"}
                          /\ pc[R(c)] \notin {"idle", "loop", "draining"}

\* The tables hold registered clients, and these have a connection.
TablesInv ==
    /\ ready \cup writerRef \cup readerRef \subseteq registered
    /\ \A c \in registered : socket[c] # "new"
    /\ stopPhase # "stopped" => (readyEvent <=> ready # {})
    /\ stopPhase = "stopped" => pc[Stopper] = "idle"

\* A client being torn down is out of the tables that its coroutine has passed.
TearInv ==
    \A a \in Actors :
       LET c == ClientOf(a) IN
       Tearing(a) =>
          /\ c \in Clients /\ socket[c] # "new" /\ c \notin ready /\ c \notin writerRef
          /\ PastWriter(a) => c \notin readerRef

\* A task at its work is in its table, or has a cancellation to come.
TasksInv ==
    \A c \in Clients :
       /\ pc[W(c)] \in {"loop", "draining"} =>
             c \in writerRef \/ W(c) \in cancelled \/ SwallowCancel
       /\ pc[R(c)] \in {"start", "reading"} => c \in readerRef \/ R(c) \in cancelled

ControlInv == TypeInv /\ TablesInv /\ TearInv /\ TasksInv

\* Queues and what was written, and a client before its connection.
DataInv ==
    /\ messages \in Nat
    /\ queue \in [Clients -> Seq(Nat)] /\ written \in [Clients -> Seq(Nat)]
    /\ left \in [Servants -> SUBSET Clients]
    /\ \A c \in Clients : socket[c] = "new" =>
          queue[c] = <<>> /\ written[c] = <<>> /\ c \notin left[Sender]

ServerInv == ControlInv /\ DataInv

-----------------------------------------------------------------------------
(* Names of coroutines                                                     *)

LEMMA ServantsDiffer ==
    /\ Monitor # Sender /\ Monitor # Stopper /\ Sender # Stopper
    /\ Servants = {Monitor, Sender, Stopper} /\ Servants \subseteq Actors
  BY DEF Monitor, Sender, Stopper, Servants, Actors

LEMMA TasksDiffer ==
    \A c, d : /\ W(c) = W(d) => c = d
              /\ R(c) = R(d) => c = d
              /\ W(c) # R(d)
              /\ W(c)[2] = c /\ R(c)[2] = c
              /\ W(c) \notin Servants /\ R(c) \notin Servants
  BY DEF W, R, Monitor, Sender, Stopper, Servants

LEMMA TasksAct == \A c \in Clients : W(c) \in Actors /\ R(c) \in Actors
  BY DEF Actors

LEMMA ActorCases ==
    \A a \in Actors : a \in Servants \/ \E c \in Clients : a = W(c) \/ a = R(c)
  BY DEF Actors, Servants

\* Whom a coroutine works for.
LEMMA ClientOfTask == \A c : ClientOf(W(c)) = c /\ ClientOf(R(c)) = c
  BY TasksDiffer DEF ClientOf

LEMMA ClientOfServant == \A a \in Servants : ClientOf(a) = target[a]
  BY DEF ClientOf

LEMMA ActorFacts ==
    /\ Monitor # Sender /\ Monitor # Stopper /\ Sender # Stopper
    /\ Servants = {Monitor, Sender, Stopper} /\ Servants \subseteq Actors
    /\ \A c, d \in Clients : /\ W(c) = W(d) => c = d
                             /\ R(c) = R(d) => c = d
                             /\ W(c) # R(d)
    /\ \A c \in Clients : /\ W(c) \in Actors /\ R(c) \in Actors
                          /\ W(c) \notin Servants /\ R(c) \notin Servants
                          /\ ClientOf(W(c)) = c /\ ClientOf(R(c)) = c
    /\ \A a \in Actors : a \in Servants \/ \E c \in Clients : a = W(c) \/ a = R(c)
    /\ \A a \in Servants : ClientOf(a) = target[a]
  BY ServantsDiffer, TasksDiffer, TasksAct, ActorCases, ClientOfTask, ClientOfServant

-----------------------------------------------------------------------------
(* What the steps of a coroutine do to the control state                   *)

\* Coroutine a moves, alone, and at most its own cancellation is taken.
Steps(a) ==
    /\ pc' \in [Actors -> {"none", "idle", "start", "reading", "loop", "draining", "done"}
                             \cup TearDown]
    /\ target' \in [Servants -> Clients \cup {NoClient}]
    /\ \A b \in Actors \ {a} : pc'[b] = pc[b] /\ ClientOf(b)' = ClientOf(b)
    /\ cancelled \ {a} \subseteq cancelled' /\ cancelled' \subseteq Actors
    /\ socket' \in [Clients -> {"new", "open", "closing", "closed"}]
    /\ \A c \in Clients : socket'[c] = "new" <=> socket[c] = "new"
    /\ registered' = registered
    /\ a = Stopper /\ stopPhase' = "stopped" => pc'[a] = "idle"

\* a goes on with tearing down client c: it drops it from the tables, up to the
\* task it will join, and the tasks dropped are ended, cancelled, or a itself.
Torn(a, c) ==
    /\ Steps(a) /\ ClientOf(a)' = c /\ socket[c] # "new"
    /\ pc'[a] \in {"joinWriter", "joinReader", "waitClosed"}
    /\ ready' = ready \ {c} /\ writerRef' = writerRef \ {c}
    /\ readerRef' \in {readerRef, readerRef \ {c}}
    /\ PastWriter(a)' => c \notin readerRef'
    /\ readyEvent' \in BOOLEAN /\ stopPhase' = stopPhase
    /\ (readyEvent <=> ready # {}) => (readyEvent' <=> ready' # {})
    /\ c \in writerRef /\ a # W(c) /\ Live(W(c)) => W(c) \in cancelled'
    /\ c \in readerRef \ readerRef' /\ a # R(c) /\ Live(R(c)) => R(c) \in cancelled'

\* What may become of a program counter, short of a further step of a tear-down.
Goes(a) ==
    /\ a \in Servants => pc'[a] \in {"none", "idle", "done"} \cup TearDown
    /\ Tearing(a)' => Tearing(a) /\ ClientOf(a)' = ClientOf(a)
    /\ PastWriter(a)' => PastWriter(a)
    /\ \A c \in Clients :
          /\ a = W(c) => /\ pc'[a] \notin {"idle", "start", "reading"}
                         /\ pc'[a] \in {"loop", "draining"} =>
                               /\ pc[a] \in {"loop", "draining"}
                               /\ a \in cancelled => a \in cancelled' \/ SwallowCancel
          /\ a = R(c) => /\ pc'[a] \notin {"idle", "loop", "draining"}
                         /\ pc'[a] \in {"start", "reading"} =>
                               /\ pc[a] \in {"start", "reading"}
                               /\ a \in cancelled => a \in cancelled'

\* a moves, and leaves the tables alone.
Moved(a) ==
    /\ Steps(a) /\ Goes(a)
    /\ UNCHANGED <<ready, writerRef, readerRef>>
    /\ readyEvent' \in BOOLEAN
    /\ stopPhase' # "stopped" => stopPhase # "stopped" /\ readyEvent' = readyEvent
    /\ stopPhase' = "stopped" => stopPhase = "stopped" \/ pc'[Stopper] = "idle"

LEMMA TornKeeps ==
    ASSUME ControlInv, NEW a \in Actors, NEW c \in Clients, Torn(a, c)
    PROVE  ControlInv'
  <1> USE DEF ControlInv
  <1>1. TypeInv'
    BY ActorFacts DEF TypeInv, Torn, Steps, TearDown
  <1>2. TablesInv'
    <2>1. stopPhase' = "stopped" => pc'[Stopper] = "idle"
      BY ActorFacts DEF TablesInv, Torn, Steps
    <2> QED  BY <2>1 DEF TypeInv, TablesInv, Torn, Steps
  <1>3. TearInv'
    <2> SUFFICES ASSUME NEW b \in Actors, Tearing(b)'
                 PROVE  /\ ClientOf(b)' \in Clients /\ socket'[ClientOf(b)'] # "new"
                        /\ ClientOf(b)' \notin ready' /\ ClientOf(b)' \notin writerRef'
                        /\ PastWriter(b)' => ClientOf(b)' \notin readerRef'
      BY DEF TearInv
    <2>1. CASE b = a
      BY <2>1 DEF Torn, Steps
    <2>2. CASE b # a
      <3>1. ClientOf(b)' = ClientOf(b) /\ pc'[b] = pc[b]  BY <2>2 DEF Torn, Steps
      <3>2. Tearing(b) /\ (PastWriter(b)' <=> PastWriter(b))  BY <3>1 DEF Tearing, PastWriter
      <3>3. /\ ClientOf(b) \in Clients /\ socket[ClientOf(b)] # "new"
            /\ ClientOf(b) \notin ready /\ ClientOf(b) \notin writerRef
            /\ PastWriter(b) => ClientOf(b) \notin readerRef
        BY <3>2 DEF TearInv
      <3> QED  BY <3>1, <3>2, <3>3 DEF Torn, Steps
    <2> QED  BY <2>1, <2>2
  <1>4. TasksInv'
    <2> SUFFICES ASSUME NEW d \in Clients
                 PROVE  /\ pc'[W(d)] \in {"loop", "draining"} =>
                              d \in writerRef' \/ W(d) \in cancelled' \/ SwallowCancel
                        /\ pc'[R(d)] \in {"start", "reading"} =>
                              d \in readerRef' \/ R(d) \in cancelled'
      BY DEF TasksInv
    <2>1. ASSUME pc'[W(d)] \in {"loop", "draining"}
          PROVE  d \in writerRef' \/ W(d) \in cancelled' \/ SwallowCancel
      <3>1. W(d) # a /\ W(d) \in Actors  BY <2>1, ActorFacts DEF Torn
      <3>2. pc[W(d)] = pc'[W(d)] /\ Live(W(d))  BY <2>1, <3>1 DEF Torn, Steps, Live
      <3>3. d \in writerRef \/ W(d) \in cancelled \/ SwallowCancel
        BY <2>1, <3>2 DEF TasksInv
      <3> QED  BY <3>1, <3>2, <3>3 DEF Torn, Steps
    <2>2. ASSUME pc'[R(d)] \in {"start", "reading"}
          PROVE  d \in readerRef' \/ R(d) \in cancelled'
      <3>1. R(d) # a /\ R(d) \in Actors  BY <2>2, ActorFacts DEF Torn
      <3>2. pc[R(d)] = pc'[R(d)] /\ Live(R(d))  BY <2>2, <3>1 DEF Torn, Steps, Live
      <3>3. d \in readerRef \/ R(d) \in cancelled
        BY <2>2, <3>2 DEF TasksInv
      <3> QED  BY <3>1, <3>2, <3>3 DEF Torn, Steps
    <2> QED  BY <2>1, <2>2
  <1> QED  BY <1>1, <1>2, <1>3, <1>4

LEMMA MovedKeeps ==
    ASSUME ControlInv, NEW a \in Actors, Moved(a)
    PROVE  ControlInv'
  <1> USE DEF ControlInv
  <1>1. TypeInv'
    BY ActorFacts DEF TypeInv, Moved, Steps, Goes
  <1>2. TablesInv'
    <2>1. stopPhase' = "stopped" => pc'[Stopper] = "idle"
      BY ActorFacts DEF TablesInv, Moved, Steps
    <2> QED  BY <2>1 DEF TypeInv, TablesInv, Moved, Steps
  <1>3. TearInv'
    <2> SUFFICES ASSUME NEW b \in Actors, Tearing(b)'
                 PROVE  /\ ClientOf(b)' \in Clients /\ socket'[ClientOf(b)'] # "new"
                        /\ ClientOf(b)' \notin ready' /\ ClientOf(b)' \notin writerRef'
                        /\ PastWriter(b)' => ClientOf(b)' \notin readerRef'
      BY DEF TearInv
    <2>1. /\ Tearing(b) /\ ClientOf(b)' = ClientOf(b)
          /\ PastWriter(b)' => PastWriter(b)
      BY DEF Moved, Steps, Goes, Tearing, PastWriter
    <2> QED  BY <2>1 DEF TearInv, Moved, Steps
  <1>4. TasksInv'
    BY ActorFacts DEF TasksInv, Moved, Steps, Goes
  <1> QED  BY <1>1, <1>2, <1>3, <1>4

-----------------------------------------------------------------------------
(* The parts of _disconnect_client                                         *)

\* The change of whom a coroutine disconnects concerns no other.
LEMMA AimsAtOne ==
    ASSUME TypeInv, NEW a \in Actors, NEW c \in Clients \cup {NoClient},
           target' = Aims(a, c)
    PROVE  /\ target' \in [Servants -> Clients \cup {NoClient}]
           /\ \A b \in Actors \ {a} : ClientOf(b)' = ClientOf(b)
           /\ ClientOf(a)' = IF a \in Servants THEN c ELSE ClientOf(a)
  BY DEF TypeInv, Aims, ClientOf

LEMMA AimKept ==
    ASSUME TypeInv, target' = target
    PROVE  /\ target' \in [Servants -> Clients \cup {NoClient}]
           /\ \A b \in Actors : ClientOf(b)' = ClientOf(b)
  BY DEF TypeInv, ClientOf

\* The socket is closed, if it was open.
LEMMA CloseSocketCloses ==
    ASSUME TypeInv, NEW a \in Actors, NEW c \in Clients, CloseSocket(a, c)
    PROVE  /\ socket' \in [Clients -> {"new", "open", "closing", "closed"}]
           /\ \A d \in Clients : socket'[d] = "new" <=> socket[d] = "new"
           /\ pc' = [pc EXCEPT ![a] = "waitClosed"]
  BY DEF TypeInv, CloseSocket

\* The reader task is dropped from its table, and ended, cancelled, or a itself.
LEMMA DropReaderDrops ==
    ASSUME TypeInv, NEW a \in Actors, NEW c \in Clients, NEW cancels,
           cancelled \ {a} \subseteq cancels, cancels \subseteq cancelled,
           DropReader(a, c, cancels)
    PROVE  /\ socket' \in [Clients -> {"new", "open", "closing", "closed"}]
           /\ \A d \in Clients : socket'[d] = "new" <=> socket[d] = "new"
           /\ \E where \in {"joinReader", "waitClosed"} : pc' = [pc EXCEPT ![a] = where]
           /\ readerRef' = readerRef \ {c}
           /\ cancelled \ {a} \subseteq cancelled' /\ cancelled' \subseteq Actors
           /\ c \in readerRef /\ a # R(c) /\ Live(R(c)) => R(c) \in cancelled'
  <1>1. R(c) \in Actors /\ cancelled \subseteq Actors  BY ActorFacts DEF TypeInv
  <1>2. CASE c \in readerRef /\ a # R(c)
    <2>1. CancelAndJoin(a, R(c), "joinReader", cancels) /\ socket' = socket
          /\ readerRef' = readerRef \ {c}
      BY <1>2 DEF DropReader
    <2> QED  BY <1>1, <2>1 DEF CancelAndJoin, TypeInv
  <1>3. CASE ~(c \in readerRef /\ a # R(c))
    <2>1. CloseSocket(a, c) /\ cancelled' = cancels /\ readerRef' = readerRef \ {c}
      BY <1>3 DEF DropReader
    <2> QED  BY <1>1, <1>3, <2>1, CloseSocketCloses
  <1> QED  BY <1>2, <1>3

\* A disconnect, up to its first await, is a step of a tear-down.
LEMMA DisconnectTears ==
    ASSUME ControlInv, NEW a \in Actors, NEW c \in registered, NEW cancels,
           cancelled \ {a} \subseteq cancels, cancels \subseteq cancelled,
           a \in Servants \/ c = ClientOf(a), a = Stopper => stopPhase # "stopped",
           Disconnect(a, c, cancels), UNCHANGED <<registered, stopPhase>>
    PROVE  Torn(a, c)
  <1>1. c \in Clients /\ socket[c] # "new"
    BY DEF ControlInv, TypeInv, TablesInv
  <1>2. /\ target' \in [Servants -> Clients \cup {NoClient}]
        /\ \A b \in Actors \ {a} : ClientOf(b)' = ClientOf(b)
        /\ ClientOf(a)' = c
    <2>1. target' = Aims(a, c)  BY DEF Disconnect
    <2> QED  BY <1>1, <2>1, AimsAtOne DEF ControlInv
  <1>3. /\ ready' = ready \ {c} /\ writerRef' = writerRef \ {c}
        /\ readyEvent' = (readyEvent /\ ready' # {})
    BY DEF Disconnect
  <1>4. /\ readyEvent' \in BOOLEAN
        /\ (readyEvent <=> ready # {}) => (readyEvent' <=> ready' # {})
    BY <1>3 DEF ControlInv, TypeInv
  <1>5. W(c) \in Actors /\ cancelled \subseteq Actors  BY <1>1, ActorFacts DEF ControlInv, TypeInv
  <1>6. CASE c \in writerRef /\ a # W(c)
    <2>1. CancelAndJoin(a, W(c), "joinWriter", cancels) /\ UNCHANGED <<readerRef, socket>>
      BY <1>6 DEF Disconnect
    <2>2. /\ cancelled \ {a} \subseteq cancelled' /\ cancelled' \subseteq Actors
          /\ Live(W(c)) => W(c) \in cancelled'
      BY <1>5, <2>1 DEF CancelAndJoin
    <2>3. pc' = [pc EXCEPT ![a] = "joinWriter"]  BY <2>1 DEF CancelAndJoin
    <2>4. Steps(a)
      BY <1>2, <2>1, <2>2, <2>3 DEF Steps, ControlInv, TypeInv, TearDown
    <2>5. pc'[a] = "joinWriter"  BY <2>3 DEF ControlInv, TypeInv
    <2> QED
      BY <1>1, <1>2, <1>3, <1>4, <2>1, <2>2, <2>4, <2>5 DEF Torn, PastWriter, WritersEnd
  <1>7. CASE ~(c \in writerRef /\ a # W(c))
    <2>1. DropReader(a, c, cancels)  BY <1>7 DEF Disconnect
    <2>2. /\ socket' \in [Clients -> {"new", "open", "closing", "closed"}]
          /\ \A d \in Clients : socket'[d] = "new" <=> socket[d] = "new"
          /\ \E where \in {"joinReader", "waitClosed"} : pc' = [pc EXCEPT ![a] = where]
          /\ readerRef' = readerRef \ {c}
          /\ cancelled \ {a} \subseteq cancelled' /\ cancelled' \subseteq Actors
          /\ c \in readerRef /\ a # R(c) /\ Live(R(c)) => R(c) \in cancelled'
      BY <1>1, <2>1, DropReaderDrops DEF ControlInv
    <2>3. Steps(a)
      BY <1>2, <2>2 DEF Steps, ControlInv, TypeInv, TearDown, WritersEnd
    <2>4. pc'[a] \in {"joinReader", "waitClosed"}  BY <2>2 DEF ControlInv, TypeInv
    <2> QED
      BY <1>1, <1>2, <1>3, <1>4, <1>7, <2>2, <2>3, <2>4 DEF Torn
  <1> QED  BY <1>6, <1>7

\* A task, a broadcast or stop() that ends leaves the tables as they are.
LEMMA EndTaskMoves ==
    ASSUME ControlInv, NEW a \in Actors, NEW cancels,
           cancelled \ {a} \subseteq cancels, cancels \subseteq cancelled,
           EndTask(a, cancels), UNCHANGED <<registered, stopPhase>>
    PROVE  Moved(a)
  <1>1. /\ target' \in [Servants -> Clients \cup {NoClient}]
        /\ \A b \in Actors \ {a} : ClientOf(b)' = ClientOf(b)
    <2>1. target' = Aims(a, NoClient) /\ NoClient \in Clients \cup {NoClient}  BY DEF EndTask
    <2> QED  BY <2>1, AimsAtOne DEF ControlInv
  <1>2. /\ pc' = [pc EXCEPT ![a] = After(a)] /\ cancelled' = cancels
        /\ UNCHANGED <<ready, readyEvent, writerRef, readerRef, socket>>
    BY DEF EndTask
  <1>3. /\ After(a) \in {"idle", "done"}
        /\ a = Stopper => After(a) = "idle"
        /\ a \notin Servants => After(a) = "done"
    BY ActorFacts DEF After
  <1>4. pc'[a] = After(a)  BY <1>2 DEF ControlInv, TypeInv
  <1>5. Steps(a)
    BY <1>1, <1>2, <1>3, <1>4 DEF Steps, ControlInv, TypeInv
  <1>6. Goes(a)
    BY <1>3, <1>4, ActorFacts DEF Goes, Tearing, PastWriter, TearDown, WritersEnd
  <1> QED  BY <1>2, <1>5, <1>6 DEF Moved, ControlInv, TypeInv

LEMMA DisconnectSelfKeeps ==
    ASSUME ControlInv, NEW a \in Actors, NEW c \in Clients, a \in {W(c), R(c)}, NEW cancels,
           cancelled \ {a} \subseteq cancels, cancels \subseteq cancelled,
           DisconnectSelf(a, c, cancels), UNCHANGED <<registered, stopPhase>>
    PROVE  ControlInv'
  <1>1. a \notin Servants /\ ClientOf(a) = c /\ a # Stopper  BY ActorFacts
  <1>2. CASE c \in registered
    <2>1. Disconnect(a, c, cancels)  BY <1>2 DEF DisconnectSelf
    <2>2. Torn(a, c)  BY <1>1, <1>2, <2>1, DisconnectTears
    <2> QED  BY <2>2, TornKeeps
  <1>3. CASE c \notin registered
    <2>1. EndTask(a, cancels)  BY <1>3 DEF DisconnectSelf
    <2> QED  BY <2>1, EndTaskMoves, MovedKeeps
  <1> QED  BY <1>2, <1>3

LEMMA JoinedWriterKeeps ==
    ASSUME ControlInv, NEW a \in Actors, JoinedWriter(a) PROVE ControlInv'
  <1> DEFINE c == ClientOf(a)
  <1>1. /\ At(a, "joinWriter") /\ DropReader(a, c, cancelled)
        /\ UNCHANGED <<ready, readyEvent, writerRef, target>>
        /\ UNCHANGED <<registered, stopPhase>>
    BY DEF JoinedWriter, KeepManager, queueVars
  <1>2. Tearing(a) /\ pc[a] = "joinWriter"  BY <1>1 DEF At, Tearing, TearDown
  <1>3. c \in Clients /\ socket[c] # "new" /\ c \notin ready /\ c \notin writerRef
    BY <1>2 DEF ControlInv, TearInv
  <1>4. /\ target' \in [Servants -> Clients \cup {NoClient}]
        /\ \A b \in Actors : ClientOf(b)' = ClientOf(b)
    BY <1>1, AimKept DEF ControlInv
  <1>5. c' = c  BY <1>4
  <1> HIDE DEF c
  <1>6. /\ socket' \in [Clients -> {"new", "open", "closing", "closed"}]
        /\ \A d \in Clients : socket'[d] = "new" <=> socket[d] = "new"
        /\ \E where \in {"joinReader", "waitClosed"} : pc' = [pc EXCEPT ![a] = where]
        /\ readerRef' = readerRef \ {c}
        /\ cancelled \ {a} \subseteq cancelled' /\ cancelled' \subseteq Actors
        /\ c \in readerRef /\ a # R(c) /\ Live(R(c)) => R(c) \in cancelled'
    <2>1. cancelled \ {a} \subseteq cancelled  OBVIOUS
    <2> QED  BY <1>1, <1>3, <2>1, DropReaderDrops DEF ControlInv
  <1>7. pc'[a] \in {"joinReader", "waitClosed"}  BY <1>6 DEF ControlInv, TypeInv
  <1>8. a = Stopper => stopPhase # "stopped"  BY <1>2 DEF ControlInv, TablesInv
  <1>9. Steps(a)
    BY <1>1, <1>4, <1>6, <1>8 DEF Steps, ControlInv, TypeInv, TearDown, WritersEnd
  <1>10. Torn(a, c)
    <2>1. ClientOf(a)' = c  BY <1>4 DEF c
    <2>2. readyEvent' \in BOOLEAN  BY <1>1 DEF ControlInv, TypeInv
    <2>3. ready' = ready \ {c} /\ writerRef' = writerRef \ {c}  BY <1>1, <1>3
    <2>4. c \notin writerRef  BY <1>3
    <2>5. (readyEvent <=> ready # {}) => (readyEvent' <=> ready' # {})  BY <1>1
    <2> QED  BY <1>1, <1>3, <1>6, <1>7, <1>9, <2>1, <2>2, <2>3, <2>4, <2>5 DEF Torn
  <1> QED  BY <1>3, <1>10, TornKeeps

LEMMA JoinedReaderKeeps ==
    ASSUME ControlInv, NEW a \in Actors, JoinedReader(a) PROVE ControlInv'
  <1>1. /\ At(a, "joinReader") /\ CloseSocket(a, ClientOf(a)) /\ UNCHANGED cancelled
        /\ UNCHANGED <<ready, readyEvent, writerRef, readerRef, target>>
        /\ UNCHANGED <<registered, stopPhase>>
    BY DEF JoinedReader, KeepTables, KeepManager, queueVars
  <1>2. Tearing(a) /\ PastWriter(a) /\ pc[a] = "joinReader"
    BY <1>1 DEF At, Tearing, PastWriter, TearDown, WritersEnd
  <1>3. /\ ClientOf(a) \in Clients /\ socket[ClientOf(a)] # "new"
        /\ ClientOf(a) \notin ready \cup writerRef \cup readerRef
    BY <1>2 DEF ControlInv, TearInv
  <1>4. /\ target' \in [Servants -> Clients \cup {NoClient}]
        /\ \A b \in Actors : ClientOf(b)' = ClientOf(b)
    BY <1>1, AimKept DEF ControlInv
  <1>5. /\ socket' \in [Clients -> {"new", "open", "closing", "closed"}]
        /\ \A d \in Clients : socket'[d] = "new" <=> socket[d] = "new"
        /\ pc' = [pc EXCEPT ![a] = "waitClosed"]
    BY <1>1, <1>3, CloseSocketCloses DEF ControlInv
  <1>6. pc'[a] = "waitClosed"  BY <1>5 DEF ControlInv, TypeInv
  <1>7. a = Stopper => stopPhase # "stopped"  BY <1>2 DEF ControlInv, TablesInv
  <1>8. Steps(a)
    BY <1>1, <1>4, <1>5, <1>7 DEF Steps, ControlInv, TypeInv, TearDown, WritersEnd
  <1>9. Goes(a)
    BY <1>2, <1>4, <1>6, ActorFacts DEF Goes, Tearing, TearDown, WritersEnd, ControlInv, TypeInv
  <1> QED  BY <1>1, <1>8, <1>9, MovedKeeps DEF Moved, ControlInv, TypeInv

\* The end of a disconnect: the client leaves the manager, as it has the tables.
LEMMA DisconnectedKeeps ==
    ASSUME ControlInv, NEW a \in Actors, Disconnected(a) PROVE ControlInv'
  <1> DEFINE c == ClientOf(a)
  <1>1. /\ At(a, "waitClosed") /\ registered' = registered \ {c}
        /\ pc' = [pc EXCEPT ![a] = IF a \in Servants THEN "idle" ELSE "done"]
        /\ target' = Aims(a, NoClient)
        /\ UNCHANGED <<ready, readyEvent, writerRef, readerRef, cancelled, stopPhase, socket>>
    BY DEF Disconnected, Unregister
  <1>2. Tearing(a) /\ PastWriter(a) /\ pc[a] = "waitClosed"
    BY <1>1 DEF At, Tearing, PastWriter, TearDown, WritersEnd
  <1>3. c \in Clients /\ c \notin ready \cup writerRef \cup readerRef
    BY <1>2 DEF ControlInv, TearInv
  <1> HIDE DEF c
  <1>4. /\ target' \in [Servants -> Clients \cup {NoClient}]
        /\ \A b \in Actors \ {a} : ClientOf(b)' = ClientOf(b)
    <2>1. NoClient \in Clients \cup {NoClient}  OBVIOUS
    <2> QED  BY <1>1, <2>1, AimsAtOne DEF ControlInv
  <1>5. /\ pc'[a] \in {"idle", "done"} /\ (a \notin Servants => pc'[a] = "done")
        /\ a \in Servants => pc'[a] = "idle"
        /\ \A b \in Actors \ {a} : pc'[b] = pc[b]
        /\ pc' \in [Actors -> {"none", "idle", "start", "reading", "loop", "draining", "done"}
                                  \cup TearDown]
    BY <1>1 DEF ControlInv, TypeInv
  <1>6. TypeInv'
    <2>1. \A b \in Servants : pc'[b] \in {"none", "idle", "done"} \cup TearDown
      BY <1>5, ActorFacts DEF ControlInv, TypeInv
    <2>2. \A d \in Clients : /\ pc'[W(d)] \notin {"idle", "start", "reading"}
                             /\ pc'[R(d)] \notin {"idle", "loop", "draining"}
      BY <1>5, ActorFacts DEF ControlInv, TypeInv
    <2> QED  BY <1>1, <1>4, <1>5, <2>1, <2>2 DEF ControlInv, TypeInv
  <1>7. TablesInv'
    <2>1. stopPhase' = "stopped" => pc'[Stopper] = "idle"
      BY <1>1, <1>2, <1>5, ActorFacts DEF ControlInv, TablesInv
    <2> QED  BY <1>1, <1>3, <2>1 DEF ControlInv, TypeInv, TablesInv
  <1>8. TearInv'
    <2> SUFFICES ASSUME NEW b \in Actors, Tearing(b)'
                 PROVE  /\ ClientOf(b)' \in Clients /\ socket'[ClientOf(b)'] # "new"
                        /\ ClientOf(b)' \notin ready' /\ ClientOf(b)' \notin writerRef'
                        /\ PastWriter(b)' => ClientOf(b)' \notin readerRef'
      BY DEF TearInv
    <2>1. b # a  BY <1>5 DEF Tearing, TearDown, WritersEnd
    <2>2. ClientOf(b)' = ClientOf(b) /\ pc'[b] = pc[b]  BY <1>4, <1>5, <2>1
    <2>3. Tearing(b) /\ (PastWriter(b)' <=> PastWriter(b))  BY <2>2 DEF Tearing, PastWriter
    <2> QED  BY <1>1, <2>2, <2>3 DEF ControlInv, TearInv
  <1>9. TasksInv'
    BY <1>1, <1>5, ActorFacts DEF ControlInv, TasksInv
  <1> QED  BY <1>6, <1>7, <1>8, <1>9 DEF ControlInv

LEMMA WaitFailsKeeps ==
    ASSUME ControlInv, NEW a \in Actors, WaitFails(a) PROVE ControlInv'
  <1>1. /\ pc' = [pc EXCEPT ![a] = After(a)] /\ target' = Aims(a, NoClient)
        /\ stopPhase' = IF a = Stopper THEN "failed" ELSE stopPhase
        /\ UNCHANGED <<registered, ready, readyEvent, writerRef, readerRef, cancelled, socket>>
    BY DEF WaitFails, queueVars, netVars
  <1>2. Tearing(a)
    BY DEF WaitFails, At, Tearing, TearDown, WritersEnd
  <1>3. /\ target' \in [Servants -> Clients \cup {NoClient}]
        /\ \A b \in Actors \ {a} : ClientOf(b)' = ClientOf(b)
    <2>1. NoClient \in Clients \cup {NoClient}  OBVIOUS
    <2> QED  BY <1>1, <2>1, AimsAtOne DEF ControlInv
  <1>4. /\ After(a) \in {"idle", "done"} /\ (a = Stopper => After(a) = "idle")
        /\ a \notin Servants => After(a) = "done"
    BY ActorFacts DEF After
  <1>5. pc'[a] = After(a)  BY <1>1 DEF ControlInv, TypeInv
  <1>6. Steps(a)
    BY <1>1, <1>3, <1>4, <1>5 DEF Steps, ControlInv, TypeInv
  <1>7. Goes(a)
    BY <1>4, <1>5, ActorFacts DEF Goes, Tearing, PastWriter, TearDown, WritersEnd
  <1>8. a = Stopper => stopPhase # "stopped"
    BY <1>2, ActorFacts DEF ControlInv, TablesInv, Tearing, TearDown, WritersEnd
  <1>9. Moved(a)
    BY <1>1, <1>6, <1>7, <1>8 DEF Moved, ControlInv, TypeInv
  <1> QED  BY <1>9, MovedKeeps

\* A cancellation that is passed on leaves its coroutine in a join, of the same task.
LEMMA PassOnKeeps ==
    ASSUME ControlInv, NEW a \in Actors, NEW t \in Actors, NEW where,
           \/ pc[a] \in {"joinWriter", "failWriter"} /\ where = "failWriter"
           \/ pc[a] \in {"joinReader", "failReader"} /\ where = "failReader",
           PassOn(a, t, where, cancelled \ {a}), UNCHANGED <<registered, stopPhase>>
    PROVE  ControlInv'
  <1>1. /\ pc' = [pc EXCEPT ![a] = where] /\ cancelled' = (cancelled \ {a}) \cup {t}
        /\ UNCHANGED <<ready, readyEvent, writerRef, readerRef, target, socket>>
    BY DEF PassOn, KeepTables
  <1>2. Tearing(a)  BY DEF Tearing, TearDown, WritersEnd
  <1>3. /\ target' \in [Servants -> Clients \cup {NoClient}]
        /\ \A b \in Actors : ClientOf(b)' = ClientOf(b)
    BY <1>1, AimKept DEF ControlInv
  <1>4. pc'[a] = where  BY <1>1 DEF ControlInv, TypeInv
  <1>5. where = "failReader" => PastWriter(a)  BY DEF PastWriter, WritersEnd
  <1>6. a = Stopper => stopPhase # "stopped"
    BY ActorFacts DEF ControlInv, TablesInv
  <1>7. where \in {"failWriter", "failReader"}  OBVIOUS
  <1>8. Steps(a)
    BY <1>1, <1>3, <1>6, <1>7 DEF Steps, ControlInv, TypeInv, TearDown, WritersEnd
  <1>9. Goes(a)
    <2>1. pc'[a] \in TearDown /\ pc'[a] \notin {"idle", "start", "reading", "loop", "draining"}
      BY <1>4, <1>7 DEF TearDown, WritersEnd
    <2>2. PastWriter(a)' => PastWriter(a)
      BY <1>4, <1>5, <1>7 DEF PastWriter, WritersEnd
    <2> QED  BY <1>2, <1>3, <2>1, <2>2 DEF Goes
  <1>10. Moved(a)
    BY <1>1, <1>8, <1>9 DEF Moved, ControlInv, TypeInv
  <1> QED  BY <1>10, MovedKeeps

\* A cancellation reaches a coroutine.
LEMMA DeliverCancelKeeps ==
    ASSUME ControlInv, NEW a \in Actors, DeliverCancel(a) PROVE ControlInv'
  <1> DEFINE c == ClientOf(a)
             cancels == cancelled \ {a}
  <1>1. UNCHANGED <<registered, stopPhase>>  BY DEF DeliverCancel, queueVars
  <1>2. cancelled \ {a} \subseteq cancels /\ cancels \subseteq cancelled  OBVIOUS
  <1>3. Tearing(a) => c \in Clients /\ W(c) \in Actors /\ R(c) \in Actors
    BY ActorFacts DEF ControlInv, TearInv
  <1>4. /\ a \in cancelled
        /\ \/ /\ pc[a] \in {"joinWriter", "failWriter"}
              /\ PassOn(a, W(c), "failWriter", cancels)
           \/ /\ pc[a] \in {"joinReader", "failReader"}
              /\ PassOn(a, R(c), "failReader", cancels)
           \/ EndTask(a, cancels)
           \/ pc[a] \in {"reading", "draining"} /\ DisconnectSelf(a, c, cancels)
           \/ /\ pc[a] = "draining" /\ SwallowCancel
              /\ pc' = [pc EXCEPT ![a] = "loop"] /\ cancelled' = cancels
              /\ KeepTables /\ UNCHANGED socket
    BY DEF DeliverCancel
  <1>5. CASE EndTask(a, cancels)
    BY <1>1, <1>2, <1>5, EndTaskMoves, MovedKeeps
  <1>6. CASE pc[a] \in {"joinWriter", "failWriter"} /\ PassOn(a, W(c), "failWriter", cancels)
    <2>1. Tearing(a)  BY <1>6 DEF Tearing, TearDown
    <2> QED  BY <1>1, <1>3, <1>6, <2>1, PassOnKeeps
  <1>7. CASE pc[a] \in {"joinReader", "failReader"} /\ PassOn(a, R(c), "failReader", cancels)
    <2>1. Tearing(a)  BY <1>7 DEF Tearing, TearDown, WritersEnd
    <2> QED  BY <1>1, <1>3, <1>7, <2>1, PassOnKeeps
  <1>8. CASE pc[a] \in {"reading", "draining"} /\ DisconnectSelf(a, c, cancels)
    <2>1. PICK d \in Clients : a = R(d) \/ a = W(d)
      BY <1>8, ActorFacts DEF ControlInv, TypeInv, TearDown, WritersEnd
    <2>2. c = d  BY <2>1, ActorFacts
    <2>3. c \in Clients /\ a \in {W(c), R(c)} /\ DisconnectSelf(a, c, cancels)
      BY <1>8, <2>1, <2>2
    <2> HIDE DEF c, cancels
    <2> QED  BY <1>1, <1>2, <2>3, DisconnectSelfKeeps
  <1>9. CASE /\ pc[a] = "draining" /\ SwallowCancel
             /\ pc' = [pc EXCEPT ![a] = "loop"] /\ cancelled' = cancels
             /\ KeepTables /\ UNCHANGED socket
    <2>1. PICK d \in Clients : a = W(d)
      BY <1>9, ActorFacts DEF ControlInv, TypeInv, TearDown, WritersEnd
    <2>2. UNCHANGED <<ready, readyEvent, writerRef, readerRef, target>>  BY <1>9 DEF KeepTables
    <2>3. /\ target' \in [Servants -> Clients \cup {NoClient}]
          /\ \A b \in Actors : ClientOf(b)' = ClientOf(b)
      BY <2>2, AimKept DEF ControlInv
    <2>4. pc'[a] = "loop" /\ a # Stopper /\ a \notin Servants
      BY <1>9, <2>1, ActorFacts DEF ControlInv, TypeInv
    <2>5. Steps(a)
      BY <1>1, <1>9, <2>3, <2>4 DEF Steps, ControlInv, TypeInv
    <2>6. Goes(a)
      <3>1. pc'[a] \notin TearDown /\ pc'[a] \notin WritersEnd
        BY <2>4 DEF TearDown, WritersEnd
      <3>2. ~Tearing(a)' /\ ~PastWriter(a)'  BY <3>1 DEF Tearing, PastWriter
      <3>3. \A e \in Clients : a # R(e)  BY <2>1, ActorFacts
      <3> QED  BY <1>9, <2>4, <3>2, <3>3 DEF Goes
    <2>7. Moved(a)  BY <1>1, <2>2, <2>5, <2>6 DEF Moved, ControlInv, TypeInv
    <2> QED  BY <2>7, MovedKeeps
  <1> QED  BY <1>4, <1>5, <1>6, <1>7, <1>8, <1>9

-----------------------------------------------------------------------------
(* The other steps                                                         *)

\* No coroutine moves.
LEMMA StillKeeps ==
    ASSUME ControlInv, UNCHANGED <<pc, target, registered, ready, writerRef, readerRef>>,
           cancelled \subseteq cancelled', cancelled' \subseteq Actors,
           socket' \in [Clients -> {"new", "open", "closing", "closed"}],
           \A c \in Clients : socket'[c] = "new" <=> socket[c] = "new",
           readyEvent' \in BOOLEAN,
           stopPhase' # "stopped" => stopPhase # "stopped" /\ readyEvent' = readyEvent,
           stopPhase' = "stopped" => stopPhase = "stopped" \/ pc[Stopper] = "idle"
    PROVE  ControlInv'
  <1>1. Monitor \in Actors /\ Monitor \in Servants /\ Monitor # Stopper  BY ActorFacts
  <1>2. /\ target' \in [Servants -> Clients \cup {NoClient}]
        /\ \A b \in Actors : ClientOf(b)' = ClientOf(b)
    BY AimKept DEF ControlInv
  <1>3. Steps(Monitor)  BY <1>1, <1>2 DEF Steps, ControlInv, TypeInv
  <1>4. Goes(Monitor)
    <2>1. pc'[Monitor] = pc[Monitor]  OBVIOUS
    <2>2. /\ Tearing(Monitor)' <=> Tearing(Monitor)
          /\ PastWriter(Monitor)' <=> PastWriter(Monitor)
      BY <2>1 DEF Tearing, PastWriter
    <2>3. \A c \in Clients : Monitor # W(c) /\ Monitor # R(c)  BY ActorFacts
    <2> QED  BY <1>1, <1>2, <2>1, <2>2, <2>3 DEF Goes, ControlInv, TypeInv
  <1>5. Moved(Monitor)  BY <1>3, <1>4 DEF Moved
  <1> QED  BY <1>1, <1>5, MovedKeeps

\* Nothing of the control state changes but what may be cancelled.
LEMMA SameKeeps ==
    ASSUME ControlInv,
           UNCHANGED <<pc, target, registered, ready, readyEvent, writerRef, readerRef, socket>>,
           cancelled \subseteq cancelled', cancelled' \subseteq Actors,
           stopPhase' # "stopped", stopPhase # "stopped"
    PROVE  ControlInv'
  BY StillKeeps DEF ControlInv, TypeInv

LEMMA StartKeeps == ASSUME ControlInv, Start PROVE ControlInv'
  <1>1. /\ stopPhase = "new" /\ stopPhase' = "no" /\ pc' = [pc EXCEPT ![Monitor] = "idle"]
        /\ UNCHANGED <<registered, ready, readyEvent, writerRef, readerRef, target,
                       cancelled, socket>>
    BY DEF Start, queueVars, netVars
  <1>2. Monitor \in Actors /\ Monitor \in Servants /\ Monitor # Stopper  BY ActorFacts
  <1>3. /\ target' \in [Servants -> Clients \cup {NoClient}]
        /\ \A b \in Actors : ClientOf(b)' = ClientOf(b)
    BY <1>1, AimKept DEF ControlInv
  <1>4. pc'[Monitor] = "idle"  BY <1>1, <1>2 DEF ControlInv, TypeInv
  <1>5. Steps(Monitor)  BY <1>1, <1>2, <1>3 DEF Steps, ControlInv, TypeInv
  <1>6. Goes(Monitor)
    <2>1. ~Tearing(Monitor)' /\ ~PastWriter(Monitor)'
      BY <1>4 DEF Tearing, PastWriter, TearDown, WritersEnd
    <2>2. \A c \in Clients : Monitor # W(c) /\ Monitor # R(c)  BY ActorFacts
    <2> QED  BY <1>4, <2>1, <2>2 DEF Goes
  <1>7. Moved(Monitor)  BY <1>1, <1>5, <1>6 DEF Moved, ControlInv, TypeInv
  <1> QED  BY <1>2, <1>7, MovedKeeps

\* A client connects; it is made known to the manager and in every table.
LEMMA ConnectKeeps ==
    ASSUME ControlInv, NEW c \in Clients, Connect(c) PROVE ControlInv'
  <1>1. /\ stopPhase # "stopped" /\ socket[c] = "new"
        /\ socket' = [socket EXCEPT ![c] = "open"]
        /\ registered' = registered \cup {c}
        /\ ready' = ready \cup {c} /\ readyEvent' = TRUE
        /\ writerRef' = writerRef \cup {c} /\ readerRef' = readerRef \cup {c}
        /\ pc' = [pc EXCEPT ![W(c)] = "loop", ![R(c)] = "start"]
        /\ UNCHANGED <<target, cancelled, stopPhase>>
    BY DEF Connect, Listening, Register
  <1>2. /\ pc' \in [Actors -> {"none", "idle", "start", "reading", "loop", "draining", "done"}
                                \cup TearDown]
        /\ pc'[W(c)] = "loop" /\ pc'[R(c)] = "start"
        /\ \A a \in Actors \ {W(c), R(c)} : pc'[a] = pc[a]
    BY <1>1, ActorFacts DEF ControlInv, TypeInv
  <1>3. \A b \in Actors : ClientOf(b)' = ClientOf(b)
    BY <1>1, AimKept DEF ControlInv
  <1>4. TypeInv'
    <2>1. \A a \in Servants : pc'[a] \in {"none", "idle", "done"} \cup TearDown
      BY <1>2, ActorFacts DEF ControlInv, TypeInv
    <2>2. \A d \in Clients : /\ pc'[W(d)] \notin {"idle", "start", "reading"}
                             /\ pc'[R(d)] \notin {"idle", "loop", "draining"}
      BY <1>2, ActorFacts DEF ControlInv, TypeInv
    <2> QED  BY <1>1, <1>2, <2>1, <2>2 DEF ControlInv, TypeInv
  <1>5. TablesInv'
    BY <1>1 DEF ControlInv, TypeInv, TablesInv
  <1>6. TearInv'
    <2> SUFFICES ASSUME NEW b \in Actors, Tearing(b)'
                 PROVE  /\ ClientOf(b)' \in Clients /\ socket'[ClientOf(b)'] # "new"
                        /\ ClientOf(b)' \notin ready' /\ ClientOf(b)' \notin writerRef'
                        /\ PastWriter(b)' => ClientOf(b)' \notin readerRef'
      BY DEF TearInv
    <2>1. b # W(c) /\ b # R(c)  BY <1>2 DEF Tearing, TearDown, WritersEnd
    <2>2. pc'[b] = pc[b] /\ ClientOf(b)' = ClientOf(b)  BY <1>2, <1>3, <2>1
    <2>3. Tearing(b) /\ (PastWriter(b)' <=> PastWriter(b))  BY <2>2 DEF Tearing, PastWriter
    <2>4. ClientOf(b) # c  BY <1>1, <2>3 DEF ControlInv, TearInv
    <2> QED  BY <1>1, <2>2, <2>3, <2>4 DEF ControlInv, TypeInv, TearInv
  <1>7. TasksInv'
    <2> SUFFICES ASSUME NEW d \in Clients
                 PROVE  /\ pc'[W(d)] \in {"loop", "draining"} =>
                              d \in writerRef' \/ W(d) \in cancelled' \/ SwallowCancel
                        /\ pc'[R(d)] \in {"start", "reading"} =>
                              d \in readerRef' \/ R(d) \in cancelled'
      BY DEF TasksInv
    <2>1. CASE d = c  BY <1>1, <2>1
    <2>2. CASE d # c
      <3>1. pc'[W(d)] = pc[W(d)] /\ pc'[R(d)] = pc[R(d)]  BY <1>2, <2>2, ActorFacts
      <3> QED  BY <1>1, <3>1 DEF ControlInv, TasksInv
    <2> QED  BY <2>1, <2>2
  <1> QED  BY <1>4, <1>5, <1>6, <1>7 DEF ControlInv

\* A client is turned away: it is made known to the manager, and is in no table.
LEMMA ConnectRejectedKeeps ==
    ASSUME ControlInv, NEW c \in Clients, ConnectRejected(c) PROVE ControlInv'
  <1>1. /\ stopPhase # "stopped" /\ socket[c] = "new"
        /\ socket' = [socket EXCEPT ![c] = "open"]
        /\ registered' = registered \cup {c}
        /\ readyEvent' = (readyEvent /\ ready # {})
        /\ pc' = [pc EXCEPT ![W(c)] = "loop", ![R(c)] = "joinWriter"]
        /\ cancelled' = cancelled \cup {W(c)}
        /\ UNCHANGED <<ready, writerRef, readerRef, target, stopPhase>>
    BY DEF ConnectRejected, Listening, Register
  <1>2. /\ pc' \in [Actors -> {"none", "idle", "start", "reading", "loop", "draining", "done"}
                                \cup TearDown]
        /\ pc'[W(c)] = "loop" /\ pc'[R(c)] = "joinWriter"
        /\ \A a \in Actors \ {W(c), R(c)} : pc'[a] = pc[a]
    <2>1. "joinWriter" \in TearDown  BY DEF TearDown
    <2> QED  BY <1>1, <2>1, ActorFacts DEF ControlInv, TypeInv
  <1>3. \A b \in Actors : ClientOf(b)' = ClientOf(b)
    BY <1>1, AimKept DEF ControlInv
  <1>4. TypeInv'
    <2>1. \A a \in Servants : pc'[a] \in {"none", "idle", "done"} \cup TearDown
      BY <1>2, ActorFacts DEF ControlInv, TypeInv
    <2>2. \A d \in Clients : /\ pc'[W(d)] \notin {"idle", "start", "reading"}
                             /\ pc'[R(d)] \notin {"idle", "loop", "draining"}
      BY <1>2, ActorFacts DEF ControlInv, TypeInv
    <2>3. cancelled' \subseteq Actors  BY <1>1, ActorFacts DEF ControlInv, TypeInv
    <2> QED  BY <1>1, <1>2, <2>1, <2>2, <2>3 DEF ControlInv, TypeInv
  <1>5. TablesInv'
    <2>1. stopPhase' # "stopped" => (readyEvent' <=> ready' # {})
      BY <1>1 DEF ControlInv, TypeInv, TablesInv
    <2>2. stopPhase' = "stopped" => pc'[Stopper] = "idle"  BY <1>1
    <2> QED  BY <1>1, <2>1, <2>2 DEF ControlInv, TypeInv, TablesInv
  <1>6. TearInv'
    <2> SUFFICES ASSUME NEW b \in Actors, Tearing(b)'
                 PROVE  /\ ClientOf(b)' \in Clients /\ socket'[ClientOf(b)'] # "new"
                        /\ ClientOf(b)' \notin ready' /\ ClientOf(b)' \notin writerRef'
                        /\ PastWriter(b)' => ClientOf(b)' \notin readerRef'
      BY DEF TearInv
    <2>1. b # W(c)  BY <1>2 DEF Tearing, TearDown, WritersEnd
    <2>2. CASE b = R(c)
      <3>1. ClientOf(b)' = c  BY <1>3, <2>2, ActorFacts
      <3>2. ~PastWriter(b)'  BY <1>2, <2>2 DEF PastWriter, WritersEnd
      <3>3. c \notin ready \cup writerRef \cup readerRef
        BY <1>1 DEF ControlInv, TypeInv, TablesInv
      <3> QED  BY <1>1, <3>1, <3>2, <3>3 DEF ControlInv, TypeInv
    <2>3. CASE b # R(c)
      <3>1. pc'[b] = pc[b] /\ ClientOf(b)' = ClientOf(b)  BY <1>2, <1>3, <2>1, <2>3
      <3>2. Tearing(b) /\ (PastWriter(b)' <=> PastWriter(b))
        BY <3>1 DEF Tearing, PastWriter
      <3> QED  BY <1>1, <3>1, <3>2 DEF ControlInv, TypeInv, TearInv
    <2> QED  BY <2>2, <2>3
  <1>7. TasksInv'
    <2> SUFFICES ASSUME NEW d \in Clients
                 PROVE  /\ pc'[W(d)] \in {"loop", "draining"} =>
                              d \in writerRef' \/ W(d) \in cancelled' \/ SwallowCancel
                        /\ pc'[R(d)] \in {"start", "reading"} =>
                              d \in readerRef' \/ R(d) \in cancelled'
      BY DEF TasksInv
    <2>1. CASE d = c  BY <1>1, <1>2, <2>1
    <2>2. CASE d # c
      <3>1. pc'[W(d)] = pc[W(d)] /\ pc'[R(d)] = pc[R(d)]  BY <1>2, <2>2, ActorFacts
      <3> QED  BY <1>1, <3>1 DEF ControlInv, TasksInv
    <2> QED  BY <2>1, <2>2
  <1> QED  BY <1>4, <1>5, <1>6, <1>7 DEF ControlInv

\* A task goes from one place of its work to another.
LEMMA WorkKeeps ==
    ASSUME ControlInv, NEW c \in Clients, NEW a \in {W(c), R(c)}, NEW where, a \notin cancelled,
           \/ a = W(c) /\ where \in {"loop", "draining"} /\ pc[a] \in {"loop", "draining"}
           \/ a = R(c) /\ where = "reading" /\ pc[a] = "start",
           pc' = [pc EXCEPT ![a] = where],
           UNCHANGED <<registered, ready, readyEvent, writerRef, readerRef, target, cancelled,
                       socket, stopPhase>>
    PROVE  ControlInv'
  <1>1. a \in Actors /\ a \notin Servants /\ a # Stopper  BY ActorFacts
  <1>2. /\ target' \in [Servants -> Clients \cup {NoClient}]
        /\ \A b \in Actors : ClientOf(b)' = ClientOf(b)
    BY AimKept DEF ControlInv
  <1>3. pc'[a] = where  BY <1>1 DEF ControlInv, TypeInv
  <1>4. Steps(a)  BY <1>1, <1>2 DEF Steps, ControlInv, TypeInv
  <1>5. Goes(a)
    <2>1. ~Tearing(a)' /\ ~PastWriter(a)'
      BY <1>3 DEF Tearing, PastWriter, TearDown, WritersEnd
    <2>2. ASSUME NEW d \in Clients
          PROVE  /\ a = W(d) => /\ pc'[a] \notin {"idle", "start", "reading"}
                                /\ pc'[a] \in {"loop", "draining"} =>
                                      /\ pc[a] \in {"loop", "draining"}
                                      /\ a \in cancelled => a \in cancelled' \/ SwallowCancel
                 /\ a = R(d) => /\ pc'[a] \notin {"idle", "loop", "draining"}
                                /\ pc'[a] \in {"start", "reading"} =>
                                      /\ pc[a] \in {"start", "reading"}
                                      /\ a \in cancelled => a \in cancelled'
      <3>1. W(c) # R(d) /\ R(c) # W(d)  BY ActorFacts
      <3> QED  BY <1>3, <3>1
    <2> QED  BY <1>1, <2>1, <2>2 DEF Goes
  <1>6. Moved(a)  BY <1>4, <1>5 DEF Moved, ControlInv, TypeInv
  <1> QED  BY <1>1, <1>6, MovedKeeps

LEMMA ReaderStartKeeps ==
    ASSUME ControlInv, NEW c \in Clients, ReaderStart(c) PROVE ControlInv'
  <1>1. At(R(c), "start") /\ UNCHANGED <<registered, stopPhase>>
    BY DEF ReaderStart, KeepManager, queueVars
  <1>2. R(c) \in Actors /\ R(c) \in {W(c), R(c)}  BY ActorFacts
  <1>3. CASE running
    <2>1. /\ pc' = [pc EXCEPT ![R(c)] = "reading"]
          /\ UNCHANGED <<ready, readyEvent, writerRef, readerRef, target, cancelled, socket>>
      BY <1>3 DEF ReaderStart, KeepTables
    <2>2. pc[R(c)] = "start" /\ R(c) \notin cancelled  BY <1>1 DEF At
    <2> QED  BY <1>1, <1>2, <2>1, <2>2, WorkKeeps
  <1>4. CASE ~running
    <2>1. DisconnectSelf(R(c), c, cancelled)  BY <1>4 DEF ReaderStart
    <2>2. cancelled \ {R(c)} \subseteq cancelled  OBVIOUS
    <2> QED  BY <1>1, <1>2, <2>1, <2>2, DisconnectSelfKeeps
  <1> QED  BY <1>3, <1>4

LEMMA TaskEndsKeep ==
    ASSUME ControlInv, NEW c \in Clients, ReaderExit(c) \/ WriterFails(c) \/ WriterEnd(c)
    PROVE  ControlInv'
  <1>1. R(c) \in Actors /\ W(c) \in Actors  BY ActorFacts
  <1>2. cancelled \ {R(c)} \subseteq cancelled /\ cancelled \ {W(c)} \subseteq cancelled
    OBVIOUS
  <1>3. UNCHANGED <<registered, stopPhase>>
    BY DEF ReaderExit, WriterFails, WriterEnd, KeepManager, queueVars
  <1>4. CASE ReaderExit(c)
    <2>1. DisconnectSelf(R(c), c, cancelled)  BY <1>4 DEF ReaderExit
    <2> QED  BY <1>1, <1>2, <1>3, <2>1, DisconnectSelfKeeps
  <1>5. CASE WriterFails(c)
    <2>1. DisconnectSelf(W(c), c, cancelled)  BY <1>5 DEF WriterFails
    <2> QED  BY <1>1, <1>2, <1>3, <2>1, DisconnectSelfKeeps
  <1>6. CASE WriterEnd(c)
    <2>1. EndTask(W(c), cancelled)  BY <1>6 DEF WriterEnd
    <2> QED  BY <1>1, <1>2, <1>3, <2>1, EndTaskMoves, MovedKeeps
  <1> QED  BY <1>4, <1>5, <1>6

LEMMA WritesKeep ==
    ASSUME ControlInv, NEW c \in Clients, WriterSend(c) \/ WriterDrained(c)
    PROVE  ControlInv'
  <1>1. /\ UNCHANGED <<registered, ready, readyEvent, writerRef, readerRef, target, cancelled,
                       socket, stopPhase>>
        /\ \E where \in {"loop", "draining"} : pc' = [pc EXCEPT ![W(c)] = where]
    BY DEF WriterSend, WriterDrained, PopNext, KeepTables, KeepManager, queueVars
  <1>2. PICK where \in {"loop", "draining"} : pc' = [pc EXCEPT ![W(c)] = where]
    BY <1>1
  <1>3. pc[W(c)] \in {"loop", "draining"} /\ W(c) \notin cancelled
    BY DEF WriterSend, WriterDrained, At
  <1>4. W(c) \in {W(c), R(c)}  OBVIOUS
  <1> QED  BY <1>1, <1>2, <1>3, <1>4, WorkKeeps

\* The network changes sockets, none of which becomes, or was, new.
LEMMA NetworkKeeps ==
    ASSUME ControlInv, NEW c \in Clients, Flush(c) \/ SocketCloses(c) \/ PeerResets(c)
    PROVE  ControlInv'
  <1>1. /\ UNCHANGED <<pc, target, registered, ready, readyEvent, writerRef, readerRef,
                       cancelled, stopPhase>>
        /\ \/ socket' = socket
           \/ socket[c] # "new" /\ socket' = [socket EXCEPT ![c] = "closed"]
    BY DEF Flush, SocketCloses, PeerResets, taskVars, queueVars
  <1>2. /\ socket' \in [Clients -> {"new", "open", "closing", "closed"}]
        /\ \A d \in Clients : socket'[d] = "new" <=> socket[d] = "new"
    BY <1>1 DEF ControlInv, TypeInv
  <1>3. cancelled \subseteq Actors /\ readyEvent \in BOOLEAN  BY DEF ControlInv, TypeInv
  <1> QED  BY <1>1, <1>2, <1>3, StillKeeps

LEMMA BroadcastKeeps == ASSUME ControlInv, Broadcast PROVE ControlInv'
  <1>1. PICK rest, m : BroadcastTo(rest, m)
    BY DEF Broadcast
  <1>2. UNCHANGED <<registered, stopPhase>>
    BY <1>1 DEF Broadcast, BroadcastTo, Enqueue
  <1>3. CASE UNCHANGED <<taskVars, socket>>
    <2>1. UNCHANGED <<pc, target, ready, readyEvent, writerRef, readerRef, cancelled>>
      BY <1>3 DEF taskVars
    <2>2. cancelled \subseteq Actors /\ readyEvent \in BOOLEAN
          /\ socket \in [Clients -> {"new", "open", "closing", "closed"}]
      BY DEF ControlInv, TypeInv
    <2> QED  BY <1>2, <1>3, <2>1, <2>2, StillKeeps
  <1>4. ASSUME NEW c \in registered, Disconnect(Sender, c, cancelled) PROVE ControlInv'
    <2>1. Sender \in Actors /\ Sender \in Servants /\ Sender # Stopper  BY ActorFacts
    <2>2. cancelled \ {Sender} \subseteq cancelled  OBVIOUS
    <2>3. Torn(Sender, c)  BY <1>2, <1>4, <2>1, <2>2, DisconnectTears
    <2>4. c \in Clients  BY DEF ControlInv, TypeInv
    <2> QED  BY <2>1, <2>3, <2>4, TornKeeps
  <1> QED  BY <1>1, <1>3, <1>4 DEF BroadcastTo

LEMMA DisconnectNextKeeps ==
    ASSUME ControlInv, NEW a \in {Monitor, Stopper}, a = Stopper => stopPhase # "stopped",
           DisconnectNext(a)
    PROVE  ControlInv'
  <1>1. UNCHANGED <<registered, stopPhase>>  BY DEF DisconnectNext, queueVars
  <1>2. CASE UNCHANGED <<taskVars, socket>>
    <2>1. UNCHANGED <<pc, target, ready, readyEvent, writerRef, readerRef, cancelled>>
      BY <1>2 DEF taskVars
    <2>2. cancelled \subseteq Actors /\ readyEvent \in BOOLEAN
          /\ socket \in [Clients -> {"new", "open", "closing", "closed"}]
      BY DEF ControlInv, TypeInv
    <2> QED  BY <1>1, <1>2, <2>1, <2>2, StillKeeps
  <1>3. ASSUME NEW c \in registered, Disconnect(a, c, cancelled) PROVE ControlInv'
    <2>1. a \in Actors /\ a \in Servants  BY ActorFacts
    <2>2. cancelled \ {a} \subseteq cancelled  OBVIOUS
    <2>3. Torn(a, c)  BY <1>1, <1>3, <2>1, <2>2, DisconnectTears
    <2>4. c \in Clients  BY DEF ControlInv, TypeInv
    <2> QED  BY <2>1, <2>3, <2>4, TornKeeps
  <1> QED  BY <1>2, <1>3 DEF DisconnectNext

\* The steps of the monitor, of stop() and of the engine's stop.
LEMMA StopKeeps ==
    ASSUME ControlInv,
           \/ SenderCancelled \/ MonitorNext \/ StopBegin \/ StopClients \/ StopNext \/ StopEnd
           \/ \E overdue \in SUBSET blocked : MonitorScan(overdue)
    PROVE  ControlInv'
  <1>1. Monitor \in Actors /\ Sender \in Actors /\ Monitor # Stopper  BY ActorFacts
  <1>2. cancelled \subseteq Actors  BY DEF ControlInv, TypeInv
  <1>3. CASE SenderCancelled \/ StopBegin
    <2>1. /\ UNCHANGED <<pc, target, registered, ready, readyEvent, writerRef, readerRef, socket>>
          /\ \E a \in {Monitor, Sender} : cancelled' = cancelled \cup {a}
          /\ stopPhase' # "stopped" /\ stopPhase # "stopped"
      BY <1>3 DEF SenderCancelled, StopBegin, queueVars, netVars
    <2> QED  BY <1>1, <1>2, <2>1, SameKeeps
  <1>4. CASE StopClients \/ \E overdue \in SUBSET blocked : MonitorScan(overdue)
    <2>1. /\ UNCHANGED <<pc, target, registered, ready, readyEvent, writerRef, readerRef, socket,
                         cancelled>>
          /\ stopPhase' = stopPhase \/ (stopPhase' = "clients" /\ stopPhase = "monitor")
      BY <1>4 DEF StopClients, MonitorScan, queueVars, taskVars, netVars
    <2> QED  BY <1>2, <2>1, StillKeeps DEF ControlInv, TypeInv
  <1>5. CASE MonitorNext
    BY <1>1, <1>5, DisconnectNextKeeps DEF MonitorNext
  <1>6. CASE StopNext
    BY <1>6, DisconnectNextKeeps DEF StopNext
  <1>7. CASE StopEnd
    <2>1. /\ UNCHANGED <<pc, target, registered, ready, writerRef, readerRef, socket, cancelled>>
          /\ readyEvent' = FALSE /\ stopPhase' = "stopped" /\ pc[Stopper] = "idle"
      BY <1>7 DEF StopEnd, At, queueVars, netVars
    <2> QED  BY <1>2, <2>1, StillKeeps DEF ControlInv, TypeInv
  <1> QED  BY <1>3, <1>4, <1>5, <1>6, <1>7

LEMMA InitControl == Init => ControlInv
  <1> SUFFICES ASSUME Init PROVE ControlInv  OBVIOUS
  <1>1. \A a \in Actors : pc[a] \in {"none", "idle"} /\ (a \notin Servants => pc[a] = "none")
    BY ActorFacts DEF Init
  <1>2. TypeInv
    BY <1>1, ActorFacts DEF Init, TypeInv
  <1>3. TablesInv  BY ActorFacts DEF Init, TablesInv
  <1>4. TearInv  BY <1>1 DEF TearInv, Tearing, TearDown, WritersEnd
  <1>5. TasksInv  BY <1>1, ActorFacts DEF TasksInv
  <1> QED  BY <1>2, <1>3, <1>4, <1>5 DEF ControlInv

LEMMA NextControl == ControlInv /\ [Next]_vars => ControlInv'
  <1> SUFFICES ASSUME ControlInv, [Next]_vars PROVE ControlInv'  OBVIOUS
  <1>1. ASSUME NEW a \in Actors,
               \/ JoinedWriter(a) \/ JoinedReader(a) \/ Disconnected(a)
               \/ WaitFails(a) \/ DeliverCancel(a)
        PROVE  ControlInv'
    BY <1>1, JoinedWriterKeeps, JoinedReaderKeeps, DisconnectedKeeps, WaitFailsKeeps,
       DeliverCancelKeeps
  <1>2. ASSUME NEW c \in Clients,
               \/ ReaderStart(c) \/ WriterSend(c) \/ WriterEnd(c) \/ WriterDrained(c)
               \/ Connect(c) \/ ConnectRejected(c) \/ ReaderExit(c) \/ WriterFails(c)
               \/ Flush(c) \/ SocketCloses(c) \/ PeerResets(c)
        PROVE  ControlInv'
    BY <1>2, ReaderStartKeeps, TaskEndsKeep, WritesKeep, ConnectKeeps, ConnectRejectedKeeps,
       NetworkKeeps
  <1>3. CASE Broadcast  BY <1>3, BroadcastKeeps
  <1>4. CASE \/ SenderCancelled \/ MonitorNext \/ StopBegin \/ StopClients \/ StopNext \/ StopEnd
             \/ \E overdue \in SUBSET blocked : MonitorScan(overdue)
    BY <1>4, StopKeeps
  <1>5. CASE Start  BY <1>5, StartKeeps
  <1>6. CASE UNCHANGED vars
    <2>1. UNCHANGED <<pc, target, registered, ready, readyEvent, writerRef, readerRef, socket,
                      cancelled, stopPhase>>
      BY <1>6 DEF vars, queueVars, taskVars, netVars
    <2> QED  BY <2>1, StillKeeps DEF ControlInv, TypeInv
  <1> QED  BY <1>1, <1>2, <1>3, <1>4, <1>5, <1>6 DEF Next, LoopStep

\* wait_for_broadcast_clients() neither sleeps while a client is ready nor wakes with
\* none, whoever connects, disconnects and overtakes a disconnect.
THEOREM ReadyEventExact == Spec => []ReadyEventFollowsClients
  <1>1. ControlInv => ReadyEventFollowsClients
    BY DEF ControlInv, TablesInv, ReadyEventFollowsClients
  <1> QED  BY <1>1, InitControl, NextControl, PTL DEF Spec

\* However disconnects of a client overtake each other: once it is unregistered it is in
\* no table, and a task of it at its work has its cancellation to come.
THEOREM NothingLeft == Spec => []NothingOutlivesClient
  <1>1. ControlInv => NothingOutlivesClient
    <2> SUFFICES ASSUME ControlInv, NEW c \in Clients, c \notin registered
                 PROVE  /\ c \notin writerRef \cup readerRef \cup ready
                        /\ ~At(W(c), "draining") \/ SwallowCancel
                        /\ ~At(R(c), "start") /\ ~At(R(c), "reading")
      BY DEF NothingOutlivesClient
    <2> QED  BY DEF ControlInv, TablesInv, TasksInv, At
  <1> QED  BY <1>1, InitControl, NextControl, PTL DEF Spec

-----------------------------------------------------------------------------
(* Every step is one that ClientStream allows                              *)

\* What ClientStream knows of the server.
Given == [c \in Clients |-> written[c] \o queue[c]]
Due == left[Sender] \cap registered

StreamStep == [Stream!StreamNext \/ Raises]_(Stream!streamVars)

\* No connection is unmade.
NoneNew == \A c \in Clients : socket'[c] = "new" => socket[c] = "new"

\* What most steps leave alone.
StreamKept == UNCHANGED <<messages, registered, queue, written>>
LeftKept == left' \in [Servants -> SUBSET Clients] /\ left'[Sender] = left[Sender]

LEMMA StreamVarsAre ==
    /\ Stream!streamVars = <<messages, ready, Due, Given>>
    /\ Stream!streamVars' = <<messages', ready', Due', Given'>>
  BY DEF Stream!streamVars, Due, Given

LEMMA SilentStep ==
    ASSUME DataInv, StreamKept, LeftKept, NoneNew, ready' = ready
    PROVE  DataInv' /\ StreamStep
  <1>1. Due' = Due /\ Given' = Given  BY DEF StreamKept, LeftKept, Due, Given
  <1>2. StreamStep
    BY <1>1, StreamVarsAre DEF StreamStep, StreamKept
  <1>3. DataInv'  BY DEF DataInv, StreamKept, LeftKept, NoneNew
  <1> QED  BY <1>2, <1>3

\* A disconnect takes the client out of the ready ones.
LEMMA LeaveStep ==
    ASSUME DataInv, NEW c \in Clients, StreamKept, LeftKept, NoneNew, ready' = ready \ {c}
    PROVE  DataInv' /\ StreamStep
  <1>1. Due' = Due /\ Given' = Given  BY DEF StreamKept, LeftKept, Due, Given
  <1>2. Stream!Leave(c)
    BY <1>1 DEF Stream!Leave, StreamKept, Due, Given
  <1>3. StreamStep  BY <1>2 DEF StreamStep, Stream!StreamNext
  <1>4. DataInv'  BY DEF DataInv, StreamKept, LeftKept, NoneNew
  <1> QED  BY <1>3, <1>4

\* A broadcast that raises leaves nobody to be served.
LEMMA RaiseStep ==
    ASSUME DataInv, StreamKept, NoneNew, ready' = ready,
           left' \in [Servants -> SUBSET Clients], left'[Sender] = {},
           \/ Sender \in cancelled \/ pc[Sender] \in {"failWriter", "failReader"}
           \/ target[Sender] \in unwaitable
    PROVE  DataInv' /\ StreamStep
  <1>1. Raises  BY DEF Raises, StreamKept
  <1>2. DataInv'  BY DEF DataInv, StreamKept, NoneNew
  <1> QED  BY <1>1, <1>2 DEF StreamStep

\* What a disconnect changes of all this.
LEMMA DropReaderNoneNew ==
    ASSUME TypeInv, NEW a \in Actors, NEW c \in Clients, NEW cancels, DropReader(a, c, cancels)
    PROVE  NoneNew
  <1>1. CASE socket' = socket  BY <1>1 DEF NoneNew
  <1>2. CASE CloseSocket(a, c)  BY <1>2, CloseSocketCloses DEF NoneNew
  <1> QED  BY <1>1, <1>2 DEF DropReader

LEMMA DisconnectNoneNew ==
    ASSUME TypeInv, NEW a \in Actors, NEW c \in Clients, NEW cancels, Disconnect(a, c, cancels)
    PROVE  NoneNew /\ ready' = ready \ {c}
  <1>1. CASE socket' = socket  BY <1>1 DEF NoneNew, Disconnect
  <1>2. CASE DropReader(a, c, cancels)  BY <1>2, DropReaderNoneNew DEF Disconnect
  <1> QED  BY <1>1, <1>2 DEF Disconnect

LEMMA EndTaskNoneNew ==
    ASSUME NEW a, NEW cancels, EndTask(a, cancels) PROVE NoneNew /\ ready' = ready
  BY DEF EndTask, NoneNew

LEMMA DisconnectSelfStep ==
    ASSUME ServerInv, NEW a \in Actors, NEW c \in Clients, NEW cancels,
           DisconnectSelf(a, c, cancels), StreamKept, LeftKept
    PROVE  DataInv' /\ StreamStep
  <1>1. CASE Disconnect(a, c, cancels)
    BY <1>1, DisconnectNoneNew, LeaveStep DEF ServerInv, ControlInv
  <1>2. CASE EndTask(a, cancels)
    BY <1>2, EndTaskNoneNew, SilentStep DEF ServerInv
  <1> QED  BY <1>1, <1>2 DEF DisconnectSelf

LEMMA JoinedStep ==
    ASSUME ServerInv, NEW a \in Actors, JoinedWriter(a) \/ JoinedReader(a)
    PROVE  DataInv' /\ StreamStep
  <1>1. /\ StreamKept /\ UNCHANGED <<left, ready>>
    BY DEF JoinedWriter, JoinedReader, KeepManager, KeepTables, queueVars, StreamKept
  <1>2. LeftKept  BY <1>1 DEF LeftKept, ServerInv, DataInv
  <1>3. Tearing(a)  BY DEF JoinedWriter, JoinedReader, At, Tearing, TearDown, WritersEnd
  <1>4. ClientOf(a) \in Clients  BY <1>3 DEF ServerInv, ControlInv, TearInv
  <1>5. NoneNew
    <2>1. CASE JoinedWriter(a)
      BY <1>4, <2>1, DropReaderNoneNew DEF JoinedWriter, ServerInv, ControlInv
    <2>2. CASE JoinedReader(a)
      BY <1>4, <2>2, CloseSocketCloses DEF JoinedReader, NoneNew, ServerInv, ControlInv
    <2> QED  BY <2>1, <2>2
  <1> QED  BY <1>1, <1>2, <1>5, SilentStep DEF ServerInv

\* The client is forgotten, and what it was given.
LEMMA DisconnectedStep ==
    ASSUME ServerInv, NEW a \in Actors, Disconnected(a) PROVE DataInv' /\ StreamStep
  <1>1. Tearing(a)  BY DEF Disconnected, At, Tearing, TearDown, WritersEnd
  <1>2. PICK c \in Clients : c = ClientOf(a)  BY <1>1 DEF ServerInv, ControlInv, TearInv
  <1>3. c \notin ready  BY <1>1, <1>2 DEF ServerInv, ControlInv, TearInv
  <1>4. /\ registered' = registered \ {c}
        /\ queue' = [queue EXCEPT ![c] = <<>>] /\ written' = [written EXCEPT ![c] = <<>>]
        /\ UNCHANGED <<ready, left, messages, socket>>
    BY <1>2 DEF Disconnected, Unregister
  <1>5. /\ queue \in [Clients -> Seq(Nat)] /\ written \in [Clients -> Seq(Nat)]
    BY DEF ServerInv, DataInv
  <1>6. <<>> \in Seq(Nat) /\ <<>> \o <<>> = <<>>  BY EmptySeq, ConcatEmptySeq
  <1>7. Given' = [Given EXCEPT ![c] = <<>>]  BY <1>4, <1>5, <1>6 DEF Given
  <1>8. Due' = Due \ {c}  BY <1>4 DEF Due
  <1>9. Stream!Forget(c)
    BY <1>3, <1>4, <1>7, <1>8 DEF Stream!Forget, Due, Given
  <1>10. DataInv'  BY <1>4, <1>5, <1>6 DEF ServerInv, DataInv
  <1> QED  BY <1>9, <1>10 DEF StreamStep, Stream!StreamNext

\* CancelledError leaves a wait; if broadcast() waited, it raises.
LEMMA WaitFailsStep ==
    ASSUME ServerInv, NEW a \in Actors, WaitFails(a) PROVE DataInv' /\ StreamStep
  <1>1. /\ StreamKept /\ NoneNew /\ ready' = ready
        /\ left' = IF a \in Servants THEN [left EXCEPT ![a] = {}] ELSE left
    BY DEF WaitFails, queueVars, netVars, StreamKept, NoneNew
  <1>2. left' \in [Servants -> SUBSET Clients]
    BY <1>1 DEF ServerInv, DataInv
  <1>3. CASE a = Sender
    <2>1. left'[Sender] = {}  BY <1>1, <1>3, ActorFacts DEF ServerInv, DataInv
    <2>2. \/ pc[Sender] \in {"failWriter", "failReader"}
          \/ target[Sender] \in unwaitable
      BY <1>3, ActorFacts DEF WaitFails, At
    <2> QED  BY <1>1, <1>2, <2>1, <2>2, RaiseStep DEF ServerInv
  <1>4. CASE a # Sender
    <2>1. left'[Sender] = left[Sender]  BY <1>1, <1>4, ActorFacts DEF ServerInv, DataInv
    <2> QED  BY <1>1, <1>2, <2>1, SilentStep DEF ServerInv, LeftKept
  <1> QED  BY <1>3, <1>4

LEMMA DeliverCancelStep ==
    ASSUME ServerInv, NEW a \in Actors, DeliverCancel(a) PROVE DataInv' /\ StreamStep
  <1> DEFINE c == ClientOf(a)
             cancels == cancelled \ {a}
  <1>1. /\ StreamKept /\ a \in cancelled
        /\ left' = IF a = Sender /\ pc'[a] = "idle" THEN [left EXCEPT ![a] = {}] ELSE left
        /\ \/ \E t, where : PassOn(a, t, where, cancels)
           \/ EndTask(a, cancels)
           \/ pc[a] \in {"reading", "draining"} /\ DisconnectSelf(a, c, cancels)
           \/ KeepTables /\ UNCHANGED socket
    BY DEF DeliverCancel, queueVars, StreamKept
  <1>2. left' \in [Servants -> SUBSET Clients]  BY <1>1 DEF ServerInv, DataInv
  <1>3. CASE pc[a] \in {"reading", "draining"} /\ DisconnectSelf(a, c, cancels)
    <2>1. PICK d \in Clients : a = R(d) \/ a = W(d)
      BY <1>3, ActorFacts DEF ServerInv, ControlInv, TypeInv, TearDown, WritersEnd
    <2>2. c \in Clients /\ a # Sender  BY <2>1, ActorFacts
    <2>3. LeftKept  BY <1>1, <1>2, <2>2 DEF LeftKept
    <2>4. DisconnectSelf(a, c, cancels)  BY <1>3
    <2> HIDE DEF c, cancels
    <2> QED  BY <1>1, <2>2, <2>3, <2>4, DisconnectSelfStep
  <1>4. CASE \/ \E t, where : PassOn(a, t, where, cancels)
             \/ EndTask(a, cancels)
             \/ KeepTables /\ UNCHANGED socket
    <2>1. NoneNew /\ ready' = ready
      BY <1>4 DEF PassOn, EndTask, KeepTables, NoneNew
    <2>2. CASE left' = left
      BY <1>1, <1>2, <2>1, <2>2, SilentStep DEF ServerInv, LeftKept
    <2>3. CASE a = Sender /\ left' = [left EXCEPT ![a] = {}]
      <3>1. left'[Sender] = {}  BY <2>3, ActorFacts DEF ServerInv, DataInv
      <3> QED  BY <1>1, <1>2, <2>1, <2>3, <3>1, RaiseStep DEF ServerInv
    <2> QED  BY <1>1, <2>2, <2>3
  <1> QED  BY <1>1, <1>3, <1>4

-----------------------------------------------------------------------------
(* Sequences                                                               *)

LEMMA ConcatRegroups ==
    ASSUME NEW s \in Seq(Nat), NEW t \in Seq(Nat), NEW u \in Seq(Nat)
    PROVE  (s \o t) \o u = s \o (t \o u)
  BY SMTT(60)

LEMMA ConcatOfAppend ==
    ASSUME NEW s \in Seq(Nat), NEW t \in Seq(Nat), NEW n \in Nat
    PROVE  s \o Append(t, n) = Append(s \o t, n)
  <1>1. << n >> \in Seq(Nat) /\ s \o t \in Seq(Nat)  BY ConcatProperties
  <1>2. Append(t, n) = t \o << n >>  BY AppendIsConcat
  <1>3. Append(s \o t, n) = (s \o t) \o << n >>  BY <1>1, AppendIsConcat
  <1>4. (s \o t) \o << n >> = s \o (t \o << n >>)  BY <1>1, ConcatRegroups, Zenon
  <1> QED  BY <1>2, <1>3, <1>4

\* What moves from the head of the queue to the end of what was written stays in place.
LEMMA ConcatOfTail ==
    ASSUME NEW s \in Seq(Nat), NEW t \in Seq(Nat), t # <<>>
    PROVE  /\ Append(s, Head(t)) \in Seq(Nat) /\ Tail(t) \in Seq(Nat)
           /\ Append(s, Head(t)) \o Tail(t) = s \o t
  <1>1. PICK h \in Nat : h = Head(t)  BY HeadTailProperties
  <1>2. PICK u \in Seq(Nat) : u = Tail(t)  BY HeadTailProperties
  <1>3. Len(u) = Len(t) - 1 /\ \A i \in 1..Len(u) : u[i] = t[i + 1]
    BY <1>2, HeadTailProperties
  <1>4. h = t[1] /\ Len(t) \in Nat /\ Len(t) > 0  BY <1>1, EmptySeq, LenProperties
  <1>5. PICK g \in Seq(Nat) : g = << h >>
    <2>1. << h >> \in Seq(Nat)  OBVIOUS
    <2> QED  BY <2>1
  <1>6. Len(g) = 1 /\ g[1] = h  BY <1>5
  <1>7. Append(s, h) = s \o g /\ Append(s, h) \in Seq(Nat)
    BY <1>5, AppendIsConcat, AppendProperties
  <1>8. PICK v \in Seq(Nat) : v = g \o u  BY ConcatProperties
  <1>9. Len(v) = Len(g) + Len(u) /\ \A i \in 1..Len(g) + Len(u) : v[i] =
           IF i <= Len(g) THEN g[i] ELSE u[i - Len(g)]
    BY <1>8, ConcatProperties
  <1>10. Append(s, h) \o u = s \o v
    <2>1. (s \o g) \o u = s \o (g \o u)  BY <1>2, <1>5, SMTT(60)
    <2> QED  BY <1>7, <1>8, <2>1, Zenon
  <1>11. Len(v) = Len(t)  BY <1>3, <1>4, <1>6, <1>9
  <1>12. ASSUME NEW i \in 1..Len(t) PROVE v[i] = t[i]
    <2>1. i \in Int /\ i >= 1 /\ i \in 1..Len(g) + Len(u)  BY <1>3, <1>4, <1>6
    <2>2. CASE i = 1  BY <1>4, <1>6, <1>9, <2>1, <2>2
    <2>3. CASE i > 1
      <3>1. v[i] = u[i - 1]  BY <1>6, <1>9, <2>1, <2>3
      <3>2. i - 1 \in 1..Len(u) /\ (i - 1) + 1 = i  BY <1>3, <1>4, <2>3
      <3>3. u[i - 1] = t[(i - 1) + 1]  BY <1>3, <3>2
      <3> QED  BY <3>1, <3>2, <3>3
    <2> QED  BY <2>1, <2>2, <2>3
  <1>13. v = t  BY <1>11, <1>12, SeqEqual
  <1> QED  BY <1>1, <1>2, <1>7, <1>10, <1>13

-----------------------------------------------------------------------------
(* Connections, writers and broadcasts                                     *)

\* A client joins, with the header if one is sent, before any broadcast reaches it.
LEMMA ConnectStep ==
    ASSUME ServerInv, NEW c \in Clients, Connect(c) PROVE DataInv' /\ StreamStep
  <1> DEFINE greeting == IF SendHeader THEN << 0 >> ELSE <<>>
  <1>1. /\ socket[c] = "new" /\ socket' = [socket EXCEPT ![c] = "open"]
        /\ registered' = registered \cup {c} /\ queue' = [queue EXCEPT ![c] = greeting]
        /\ ready' = ready \cup {c}
        /\ UNCHANGED <<left, messages, written>>
    BY DEF Connect, Register
  <1>2. /\ queue \in [Clients -> Seq(Nat)] /\ written \in [Clients -> Seq(Nat)]
        /\ queue[c] = <<>> /\ written[c] = <<>> /\ c \notin left[Sender]
    BY <1>1 DEF ServerInv, DataInv
  <1>3. c \notin ready
    BY <1>1 DEF ServerInv, ControlInv, TablesInv
  <1>4. << 0 >> \in Seq(Nat) /\ <<>> \in Seq(Nat) /\ greeting \in Seq(Nat)
    <2>1. 0 \in Nat  OBVIOUS
    <2>2. << 0 >> \in Seq(Nat)  BY <2>1
    <2> QED  BY <2>2, EmptySeq
  <1>5. <<>> \o greeting = greeting /\ <<>> \o <<>> = <<>>  BY <1>4, ConcatEmptySeq
  <1>6. SendHeader => greeting = << 0 >>  OBVIOUS
  <1>7. ~SendHeader => greeting = <<>>  OBVIOUS
  <1> HIDE DEF greeting
  <1>8. Given[c] = <<>>  BY <1>2, <1>5 DEF Given
  <1>9. Given' = [Given EXCEPT ![c] = greeting]
    <2>1. written'[c] \o queue'[c] = greeting  BY <1>1, <1>2, <1>5
    <2>2. \A d \in Clients \ {c} : written'[d] \o queue'[d] = written[d] \o queue[d]
      BY <1>1, <1>2
    <2> QED  BY <2>1, <2>2 DEF Given
  <1>10. ~SendHeader => Given' = Given
    <2>1. Given = [Given EXCEPT ![c] = Given[c]]  BY DEF Given
    <2> QED  BY <1>7, <1>8, <1>9, <2>1
  <1>11. Due' = Due  BY <1>1, <1>2 DEF Due
  <1>12. Stream!Join(c)
    BY <1>1, <1>3, <1>6, <1>8, <1>9, <1>10, <1>11 DEF Stream!Join, Given, Due
  <1>13. DataInv'  BY <1>1, <1>2, <1>4 DEF ServerInv, DataInv, ControlInv, TypeInv
  <1> QED  BY <1>12, <1>13 DEF StreamStep, Stream!StreamNext

\* A client that is turned away was given nothing, and is not ready for a broadcast.
LEMMA ConnectRejectedStep ==
    ASSUME ServerInv, NEW c \in Clients, ConnectRejected(c) PROVE DataInv' /\ StreamStep
  <1>1. /\ socket[c] = "new" /\ socket' = [socket EXCEPT ![c] = "open"]
        /\ registered' = registered \cup {c} /\ queue' = [queue EXCEPT ![c] = <<>>]
        /\ UNCHANGED <<ready, left, messages, written>>
    BY DEF ConnectRejected, Register
  <1>2. /\ queue \in [Clients -> Seq(Nat)] /\ queue[c] = <<>> /\ c \notin left[Sender]
    BY <1>1 DEF ServerInv, DataInv
  <1>3. queue' = queue  BY <1>1, <1>2
  <1>4. Due' = Due /\ Given' = Given  BY <1>1, <1>2, <1>3 DEF Due, Given
  <1>5. StreamStep  BY <1>1, <1>4, StreamVarsAre DEF StreamStep
  <1>6. DataInv'  BY <1>1, <1>2, <1>3 DEF ServerInv, DataInv, ControlInv, TypeInv
  <1> QED  BY <1>5, <1>6

\* A payload goes from the queue to the transport.
LEMMA WriterSendStep ==
    ASSUME ServerInv, NEW c \in Clients, WriterSend(c) PROVE DataInv' /\ StreamStep
  <1>1. /\ c \in registered /\ queue[c] # <<>>
        /\ queue' = [queue EXCEPT ![c] = Tail(queue[c])]
        /\ written' = [written EXCEPT ![c] = Append(written[c], Head(queue[c]))]
        /\ UNCHANGED <<registered, ready, left, messages, socket>>
    BY DEF WriterSend, PopNext
  <1>2. /\ queue \in [Clients -> Seq(Nat)] /\ written \in [Clients -> Seq(Nat)]
        /\ socket[c] # "new"
    BY <1>1 DEF ServerInv, DataInv, ControlInv, TablesInv
  <1>3. /\ Append(written[c], Head(queue[c])) \in Seq(Nat) /\ Tail(queue[c]) \in Seq(Nat)
        /\ Append(written[c], Head(queue[c])) \o Tail(queue[c]) = written[c] \o queue[c]
    BY <1>1, <1>2, ConcatOfTail
  <1>4. Given' = Given
    <2>1. written'[c] \o queue'[c] = written[c] \o queue[c]  BY <1>1, <1>2, <1>3
    <2>2. \A d \in Clients \ {c} : written'[d] \o queue'[d] = written[d] \o queue[d]
      BY <1>1, <1>2
    <2> QED  BY <2>1, <2>2 DEF Given
  <1>5. Due' = Due  BY <1>1 DEF Due
  <1>6. StreamStep  BY <1>1, <1>4, <1>5, StreamVarsAre DEF StreamStep
  <1>7. DataInv'  BY <1>1, <1>2, <1>3 DEF ServerInv, DataInv
  <1> QED  BY <1>6, <1>7

\* ClientStream's Deliver, with the clients that are served.
Gives(to, n, served) ==
    /\ Given' = [c \in Clients |-> IF c \in served THEN Append(Given[c], n) ELSE Given[c]]
    /\ Due' \subseteq to \ served
    /\ ready' \subseteq ready
    /\ to \cap ready' \subseteq served \cup Due'

Offered(to, n) == \E served \in SUBSET to : Gives(to, n, served)

\* The clients of `rest` that a broadcast gets to are given its message; of the others
\* it loses none that stays.
LEMMA DeliverStep ==
    ASSUME ServerInv, NEW rest \in SUBSET Clients, NEW m \in Nat, NEW served \in SUBSET rest,
           Enqueue(served \cap registered, m), written' = written,
           ready' \subseteq ready, left'[Sender] \subseteq rest \ served,
           (rest \cap registered) \cap ready' \subseteq served \cup left'[Sender]
    PROVE  Offered(rest \cap registered, m) /\ queue' \in [Clients -> Seq(Nat)]
  <1> DEFINE got == served \cap registered
  <1>1. /\ queue' = [c \in Clients |-> IF c \in got THEN Append(queue[c], m) ELSE queue[c]]
        /\ registered' = registered
    BY DEF Enqueue
  <1>2. queue \in [Clients -> Seq(Nat)] /\ written \in [Clients -> Seq(Nat)]
    BY DEF ServerInv, DataInv
  <1>3. got \subseteq rest \cap registered  OBVIOUS
  <1>4. /\ Due' \subseteq (rest \cap registered) \ got
        /\ (rest \cap registered) \cap ready' \subseteq got \cup Due'
    BY <1>1 DEF Due
  <1> HIDE DEF got
  <1>5. queue' \in [Clients -> Seq(Nat)]
    <2>1. \A c \in Clients : Append(queue[c], m) \in Seq(Nat)  BY <1>2, AppendProperties
    <2> QED  BY <1>1, <1>2, <2>1
  <1>6. Given' = [c \in Clients |-> IF c \in got THEN Append(Given[c], m) ELSE Given[c]]
    <2>1. ASSUME NEW c \in Clients
          PROVE  written'[c] \o queue'[c]
                   = IF c \in got THEN Append(written[c] \o queue[c], m)
                                  ELSE written[c] \o queue[c]
      <3>1. written[c] \o Append(queue[c], m) = Append(written[c] \o queue[c], m)
        BY <1>2, ConcatOfAppend
      <3> QED  BY <1>1, <3>1
    <2> QED  BY <2>1 DEF Given
  <1>7. Offered(rest \cap registered, m)
    BY <1>3, <1>4, <1>6 DEF Offered, Gives
  <1> QED  BY <1>5, <1>7

\* A part of a broadcast, to those of `rest` up to one that is disconnected.
LEMMA BroadcastToStep ==
    ASSUME ServerInv, NEW rest \in SUBSET Clients, NEW m \in Nat, BroadcastTo(rest, m),
           written' = written, messages' \in Nat,
           \A c \in rest : socket[c] # "new"
    PROVE  /\ Offered(rest \cap registered, m) /\ DataInv'
           /\ rest \cap registered = {} => ready' = ready /\ Due' = {} /\ Given' = Given
  <1>1. left \in [Servants -> SUBSET Clients] /\ Sender \in Servants /\ Sender \in Actors
    BY ActorFacts DEF ServerInv, DataInv
  <1>2. ASSUME NEW served \in SUBSET rest, Enqueue(served \cap registered, m), NoneNew,
               ready' \subseteq ready, left'[Sender] \subseteq rest \ served,
               left' \in [Servants -> SUBSET Clients],
               (rest \cap registered) \cap ready' \subseteq served \cup left'[Sender]
        PROVE  Offered(rest \cap registered, m) /\ DataInv'
    <2>1. Offered(rest \cap registered, m) /\ queue' \in [Clients -> Seq(Nat)]
      BY <1>2, DeliverStep
    <2>2. ASSUME NEW d \in Clients, socket'[d] = "new"
          PROVE  queue'[d] = <<>> /\ written'[d] = <<>> /\ d \notin left'[Sender]
      <3>1. socket[d] = "new"  BY <1>2, <2>2 DEF NoneNew
      <3>2. d \notin registered  BY <3>1 DEF ServerInv, ControlInv, TablesInv
      <3>3. queue'[d] = queue[d]  BY <1>2, <3>2 DEF Enqueue
      <3>4. d \notin rest  BY <3>1
      <3> QED  BY <1>2, <3>1, <3>3, <3>4 DEF ServerInv, DataInv
    <2> QED  BY <1>2, <2>1, <2>2 DEF ServerInv, DataInv
  <1>3. CASE /\ Enqueue(rest \cap registered, m) /\ left' = [left EXCEPT ![Sender] = {}]
             /\ UNCHANGED <<taskVars, socket>>
    <2>1. NoneNew /\ ready' = ready  BY <1>3 DEF NoneNew, taskVars
    <2>2. left'[Sender] = {} /\ left' \in [Servants -> SUBSET Clients]  BY <1>1, <1>3
    <2>3. Offered(rest \cap registered, m) /\ DataInv'
      BY <1>2, <1>3, <2>1, <2>2
    <2>4. ASSUME rest \cap registered = {} PROVE Given' = Given
      <3>1. queue' = [c \in Clients |-> queue[c]]  BY <1>3, <2>4 DEF Enqueue
      <3>2. \A c \in Clients : queue'[c] = queue[c]  BY <3>1
      <3> QED  BY <3>2 DEF Given
    <2> QED  BY <2>1, <2>2, <2>3, <2>4 DEF Due
  <1>4. ASSUME NEW c \in rest \cap registered, NEW served \in SUBSET (rest \ {c}),
               Enqueue(served \cap registered, m),
               left' = [left EXCEPT ![Sender] = rest \ (served \cup {c})],
               Disconnect(Sender, c, cancelled)
        PROVE  Offered(rest \cap registered, m) /\ DataInv'
    <2>1. NoneNew /\ ready' = ready \ {c}
      BY <1>1, <1>4, DisconnectNoneNew DEF ServerInv, ControlInv
    <2>2. /\ left'[Sender] = rest \ (served \cup {c})
          /\ left' \in [Servants -> SUBSET Clients]
      BY <1>1, <1>4
    <2> QED  BY <1>2, <1>4, <2>1, <2>2
  <1>5. \/ /\ Enqueue(rest \cap registered, m) /\ left' = [left EXCEPT ![Sender] = {}]
           /\ UNCHANGED <<taskVars, socket>>
        \/ \E c \in rest \cap registered : \E served \in SUBSET (rest \ {c}) :
              /\ Enqueue(served \cap registered, m)
              /\ left' = [left EXCEPT ![Sender] = rest \ (served \cup {c})]
              /\ Disconnect(Sender, c, cancelled)
    <2> DEFINE full == {c \in rest \cap registered : ~Accepts(c)}
    <2>1. ASSUME NEW c \in full, NEW served \in SUBSET (rest \ full),
                 Enqueue(served \cap registered, m),
                 left' = [left EXCEPT ![Sender] = rest \ (served \cup {c})],
                 Disconnect(Sender, c, cancelled)
          PROVE  \E d \in rest \cap registered : \E s \in SUBSET (rest \ {d}) :
                    /\ Enqueue(s \cap registered, m)
                    /\ left' = [left EXCEPT ![Sender] = rest \ (s \cup {d})]
                    /\ Disconnect(Sender, d, cancelled)
      <3>1. c \in rest \cap registered /\ served \in SUBSET (rest \ {c})  OBVIOUS
      <3> QED  BY <2>1, <3>1
    <2> QED  BY <2>1 DEF BroadcastTo
  <1>6. CASE \E c \in rest \cap registered : \E served \in SUBSET (rest \ {c}) :
                /\ Enqueue(served \cap registered, m)
                /\ left' = [left EXCEPT ![Sender] = rest \ (served \cup {c})]
                /\ Disconnect(Sender, c, cancelled)
    BY <1>4, <1>6
  <1> QED  BY <1>3, <1>5, <1>6

LEMMA BroadcastStep == ASSUME ServerInv, Broadcast PROVE DataInv' /\ StreamStep
  <1>1. /\ ready \subseteq registered /\ registered \subseteq Clients
        /\ \A c \in registered : socket[c] # "new"
    BY DEF ServerInv, ControlInv, TypeInv, TablesInv
  <1>2. messages \in Nat /\ left[Sender] \subseteq Clients /\ written' = written
        /\ \A c \in left[Sender] : socket[c] # "new"
    BY ActorFacts DEF ServerInv, DataInv, Broadcast
  <1>3. CASE left[Sender] = {} /\ messages' = messages + 1 /\ BroadcastTo(ready, messages')
    <2>1. PICK m \in Nat : m = messages + 1  BY <1>2
    <2>2. messages' = m /\ BroadcastTo(ready, m)  BY <1>3, <2>1
    <2>3. ready \in SUBSET Clients /\ \A c \in ready : socket[c] # "new"  BY <1>1
    <2>4. Offered(ready \cap registered, m) /\ DataInv'
      BY <1>2, <2>2, <2>3, BroadcastToStep
    <2>5. ready \cap registered = ready  BY <1>1
    <2>6. Offered(ready, m)  BY <2>4, <2>5
    <2>7. PICK served \in SUBSET ready : Gives(ready, m, served)  BY <2>6 DEF Offered
    <2>8. Stream!Publish
      <3>1. Gives(ready, messages', served)  BY <2>2, <2>7 DEF Gives
      <3>2. Due = {}  BY <1>3 DEF Due
      <3> QED  BY <1>3, <3>1, <3>2 DEF Gives, Stream!Publish, Stream!Deliver, Given, Due
    <2> QED  BY <2>4, <2>8 DEF StreamStep, Stream!StreamNext
  <1>4. CASE left[Sender] # {} /\ messages' = messages /\ BroadcastTo(left[Sender], messages)
    <2>1. PICK rest \in SUBSET Clients : rest = left[Sender]  BY <1>2
    <2>2. PICK m \in Nat : m = messages  BY <1>2
    <2>3. BroadcastTo(rest, m) /\ messages' \in Nat /\ \A c \in rest : socket[c] # "new"
      BY <1>2, <1>4, <2>1, <2>2
    <2>4. /\ Offered(rest \cap registered, m) /\ DataInv'
          /\ rest \cap registered = {} => ready' = ready /\ Due' = {} /\ Given' = Given
      BY <1>2, <2>3, BroadcastToStep
    <2>5. rest \cap registered = Due  BY <2>1 DEF Due
    <2>6. CASE Due = {}
      BY <1>4, <2>4, <2>5, <2>6, StreamVarsAre DEF StreamStep
    <2>7. CASE Due # {}
      <3>1. PICK served \in SUBSET Due : Gives(Due, messages, served)
        BY <2>2, <2>4, <2>5, SMTT(30) DEF Offered, Gives
      <3>2. Stream!Resume
        BY <1>4, <2>7, <3>1 DEF Gives, Stream!Resume, Stream!Deliver, Given, Due
      <3> QED  BY <2>4, <3>2 DEF StreamStep, Stream!StreamNext
    <2> QED  BY <2>6, <2>7
  <1> QED  BY <1>3, <1>4 DEF Broadcast

-----------------------------------------------------------------------------
(* The refinement                                                          *)

\* Steps of the tasks of client c, and of the network, that give nobody anything.
LEMMA TaskStep ==
    ASSUME ServerInv, NEW c \in Clients,
           ReaderStart(c) \/ ReaderExit(c) \/ WriterFails(c) \/ WriterEnd(c) \/ WriterDrained(c)
    PROVE  DataInv' /\ StreamStep
  <1>1. StreamKept /\ LeftKept
    BY DEF ReaderStart, ReaderExit, WriterFails, WriterEnd, WriterDrained, KeepManager,
           queueVars, StreamKept, LeftKept, ServerInv, DataInv
  <1>2. R(c) \in Actors /\ W(c) \in Actors  BY ActorFacts
  <1>3. CASE DisconnectSelf(R(c), c, cancelled)
    BY <1>1, <1>2, <1>3, DisconnectSelfStep
  <1>4. CASE DisconnectSelf(W(c), c, cancelled)
    BY <1>1, <1>2, <1>4, DisconnectSelfStep
  <1>5. CASE EndTask(W(c), cancelled)
    BY <1>1, <1>5, EndTaskNoneNew, SilentStep DEF ServerInv
  <1>6. CASE KeepTables /\ UNCHANGED socket
    BY <1>1, <1>6, SilentStep DEF ServerInv, KeepTables, NoneNew
  <1> QED
    BY <1>3, <1>4, <1>5, <1>6
    DEF ReaderStart, ReaderExit, WriterFails, WriterEnd, WriterDrained

LEMMA NetworkStep ==
    ASSUME ServerInv, NEW c \in Clients, Flush(c) \/ SocketCloses(c) \/ PeerResets(c)
    PROVE  DataInv' /\ StreamStep
  <1>1. /\ StreamKept /\ UNCHANGED <<left, ready>>
        /\ \/ socket' = socket
           \/ socket[c] # "new" /\ socket' = [socket EXCEPT ![c] = "closed"]
    BY DEF Flush, SocketCloses, PeerResets, queueVars, taskVars, StreamKept
  <1>2. LeftKept  BY <1>1 DEF LeftKept, ServerInv, DataInv
  <1>3. NoneNew  BY <1>1 DEF NoneNew, ServerInv, ControlInv, TypeInv
  <1> QED  BY <1>1, <1>2, <1>3, SilentStep DEF ServerInv

\* The monitor and stop() disconnect the next client of their lists.
LEMMA DisconnectNextStep ==
    ASSUME ServerInv, NEW a \in {Monitor, Stopper}, DisconnectNext(a)
    PROVE  DataInv' /\ StreamStep
  <1>1. a \in Servants /\ a # Sender /\ a \in Actors  BY ActorFacts
  <1>2. StreamKept /\ LeftKept
    BY <1>1, ActorFacts
    DEF DisconnectNext, queueVars, StreamKept, LeftKept, ServerInv, DataInv
  <1>3. CASE UNCHANGED <<taskVars, socket>>
    BY <1>2, <1>3, SilentStep DEF ServerInv, taskVars, NoneNew
  <1>4. ASSUME NEW c \in registered, Disconnect(a, c, cancelled)
        PROVE  DataInv' /\ StreamStep
    <2>1. c \in Clients  BY DEF ServerInv, ControlInv, TypeInv
    <2>2. NoneNew /\ ready' = ready \ {c}
      BY <1>1, <1>4, <2>1, DisconnectNoneNew DEF ServerInv, ControlInv
    <2> QED  BY <1>2, <2>1, <2>2, LeaveStep DEF ServerInv
  <1> QED  BY <1>3, <1>4 DEF DisconnectNext

LEMMA StopStep ==
    ASSUME ServerInv,
           \/ Start \/ SenderCancelled \/ StopBegin \/ StopClients \/ StopEnd
           \/ \E overdue \in SUBSET blocked : MonitorScan(overdue)
           \/ UNCHANGED vars,
           blocked \subseteq Clients
    PROVE  DataInv' /\ StreamStep
  <1>1. /\ StreamKept /\ NoneNew /\ ready' = ready
        /\ \/ left' = left
           \/ left' = [left EXCEPT ![Stopper] = registered]
           \/ \E overdue \in SUBSET blocked : left' = [left EXCEPT ![Monitor] = overdue]
    BY DEF Start, SenderCancelled, StopBegin, StopClients, StopEnd, MonitorScan, vars,
           queueVars, taskVars, netVars, StreamKept, NoneNew
  <1>2. registered \subseteq Clients  BY DEF ServerInv, ControlInv, TypeInv
  <1>3. LeftKept
    BY <1>1, <1>2, ActorFacts DEF LeftKept, ServerInv, DataInv
  <1> QED  BY <1>1, <1>3, SilentStep DEF ServerInv

\* Blocked clients are clients; all steps but those of the queues keep them.
BlockedOK == blocked \subseteq Clients

FullInv == ServerInv /\ BlockedOK

LEMMA NextBlocked == BlockedOK /\ [Next]_vars => BlockedOK'
  <1>1. ASSUME NEW cs, NEW new, UpdateBlocked(cs, new) PROVE BlockedOK'
    BY <1>1 DEF UpdateBlocked, BlockedOK
  <1>2. ASSUME BlockedOK, [Next]_vars PROVE BlockedOK'
    <2>1. CASE UNCHANGED blocked  BY <1>2, <2>1 DEF BlockedOK
    <2>2. CASE blocked' \subseteq blocked  BY <1>2, <2>2, SMTT(30) DEF BlockedOK
    <2>3. \/ UNCHANGED blocked \/ blocked' \subseteq blocked
          \/ \E cs, new : UpdateBlocked(cs, new)
      BY <1>2
      DEF Next, LoopStep, JoinedWriter, JoinedReader, Disconnected, Unregister, WaitFails,
          DeliverCancel, ReaderStart, ReaderExit, WriterSend, PopNext, WriterEnd, WriterDrained,
          WriterFails, Broadcast, BroadcastTo, Enqueue, MonitorNext, MonitorScan, StopClients,
          StopNext, StopEnd, DisconnectNext, Start, StopBegin, SenderCancelled, Connect,
          ConnectRejected, Register, Flush, SocketCloses, PeerResets, KeepManager, queueVars, vars
    <2> QED  BY <1>1, <2>1, <2>2, <2>3
  <1> QED  BY <1>2

LEMMA InitServer == Init => FullInv /\ Stream!StreamInit
  <1> SUFFICES ASSUME Init PROVE FullInv /\ Stream!StreamInit  OBVIOUS
  <1>1. <<>> \in Seq(Nat) /\ <<>> \o <<>> = <<>>  BY EmptySeq, ConcatEmptySeq
  <1>2. DataInv  BY <1>1, ActorFacts DEF Init, DataInv
  <1>3. Due = {} /\ Given = [c \in Clients |-> <<>>]
    BY <1>1, ActorFacts DEF Init, Due, Given
  <1>4. Stream!StreamInit
    BY <1>3 DEF Init, Stream!StreamInit, Due, Given
  <1> QED  BY <1>2, <1>4, InitControl DEF Init, FullInv, ServerInv, BlockedOK

LEMMA NextServer == FullInv /\ [Next]_vars => FullInv' /\ StreamStep
  <1> SUFFICES ASSUME FullInv, [Next]_vars PROVE DataInv' /\ StreamStep
    BY NextBlocked, NextControl DEF FullInv, ServerInv
  <1>1. ServerInv  BY DEF FullInv
  <1>2. CASE Broadcast  BY <1>1, <1>2, BroadcastStep
  <1>3. ASSUME NEW a \in Actors,
               \/ JoinedWriter(a) \/ JoinedReader(a) \/ Disconnected(a)
               \/ WaitFails(a) \/ DeliverCancel(a)
        PROVE  DataInv' /\ StreamStep
    BY <1>1, <1>3, JoinedStep, DisconnectedStep, WaitFailsStep, DeliverCancelStep
  <1>4. ASSUME NEW c \in Clients,
               \/ ReaderStart(c) \/ WriterSend(c) \/ WriterEnd(c) \/ WriterDrained(c)
               \/ Connect(c) \/ ConnectRejected(c) \/ ReaderExit(c) \/ WriterFails(c)
               \/ Flush(c) \/ SocketCloses(c) \/ PeerResets(c)
        PROVE  DataInv' /\ StreamStep
    BY <1>1, <1>4, TaskStep, WriterSendStep, ConnectStep, ConnectRejectedStep, NetworkStep
  <1>5. CASE MonitorNext  BY <1>1, <1>5, DisconnectNextStep DEF MonitorNext
  <1>6. CASE StopNext  BY <1>1, <1>6, DisconnectNextStep DEF StopNext
  <1>7. CASE \/ Start \/ SenderCancelled \/ StopBegin \/ StopClients \/ StopEnd
             \/ \E overdue \in SUBSET blocked : MonitorScan(overdue)
             \/ UNCHANGED vars
    BY <1>1, <1>7, StopStep DEF FullInv, BlockedOK
  <1> QED  BY <1>2, <1>3, <1>4, <1>5, <1>6, <1>7 DEF Next, LoopStep

\* Whatever connects, fails, stalls or is stopped: what clients are given is what
\* ClientStream promises them, up to broadcasts that raise.
THEOREM ServerIsStream == Spec => ImplementsClientStream
  <1>1. FullInv /\ [Next]_vars => FullInv' /\ [Stream!StreamNext \/ Raises]_(Stream!streamVars)
    BY NextServer DEF StreamStep
  <1> QED  BY <1>1, InitServer, PTL DEF Spec, ImplementsClientStream


-----------------------------------------------------------------------------
(* Without stop(), and with cancellations that arrive, broadcast() does not *)
(* raise                                                                   *)

\* Only tasks are cancelled, each at most once, before it is past its own disconnect.
CalmInv ==
    /\ unwaitable = {}
    /\ \A a \in Servants : a \notin cancelled /\ pc[a] # "failWriter"
    /\ \A a \in Actors :
          /\ pc[a] # "failReader"
          /\ pc[a] \in {"joinWriter", "failWriter"} =>
                W(ClientOf(a)) \in cancelled \/ ~Live(W(ClientOf(a)))
    /\ \A c \in Clients :
          /\ W(c) \in cancelled => pc[W(c)] \in {"loop", "draining"}
          /\ R(c) \in cancelled => pc[R(c)] \in {"start", "reading", "joinWriter", "failWriter"}
          /\ pc[W(c)] \notin {"joinWriter", "failWriter"} /\ pc[R(c)] # "joinReader"

\* a moves; the tasks in T are newly cancelled, at their work.
CalmMove(a, T) ==
    /\ unwaitable' = {}
    /\ \A b \in Actors \ {a} : pc'[b] = pc[b] /\ ClientOf(b)' = ClientOf(b)
    /\ cancelled \ {a} \subseteq cancelled' /\ cancelled' \subseteq (cancelled \ {a}) \cup T
    /\ T \cap (Servants \cup {a}) = {}
    /\ \A c \in Clients :
          /\ W(c) \in T => pc[W(c)] \in {"loop", "draining"}
          /\ R(c) \in T => pc[R(c)] \in {"start", "reading", "joinWriter", "failWriter"}
          /\ a = W(c) => /\ pc'[a] \notin {"joinWriter", "failWriter"}
                         /\ a \in cancelled \/ ~Live(a) => ~Live(a)'
          /\ a = R(c) => pc'[a] # "joinReader"
    /\ pc'[a] # "failReader" /\ (a \in Servants => pc'[a] # "failWriter")
    /\ pc'[a] \in {"joinWriter", "failWriter"} =>
          W(ClientOf(a)') \in cancelled' \/ ~Live(W(ClientOf(a)'))
    /\ pc'[a] \in {"joinWriter", "failWriter"} => ClientOf(a)' \in Clients

LEMMA CalmMoveKeeps ==
    ASSUME ControlInv, CalmInv, NEW a \in Actors, NEW T, CalmMove(a, T)
    PROVE  CalmInv'
  <1>1. \A b \in Actors \ {a} : /\ pc'[b] = pc[b] /\ ClientOf(b)' = ClientOf(b)
                                /\ Live(b)' <=> Live(b)
    BY DEF CalmMove, Live
  <1>2. \A b \in Servants : b \notin cancelled' /\ pc'[b] # "failWriter"
    BY ActorFacts DEF CalmMove, CalmInv
  <1>3. \A b \in Actors : pc'[b] # "failReader"
    BY DEF CalmMove, CalmInv
  <1>4. \A c \in Clients :
          /\ W(c) \in cancelled' => pc'[W(c)] \in {"loop", "draining"}
          /\ R(c) \in cancelled' => pc'[R(c)] \in {"start", "reading", "joinWriter", "failWriter"}
          /\ pc'[W(c)] \notin {"joinWriter", "failWriter"} /\ pc'[R(c)] # "joinReader"
    BY ActorFacts DEF CalmMove, CalmInv
  <1>5. ASSUME NEW b \in Actors, pc'[b] \in {"joinWriter", "failWriter"}
        PROVE  W(ClientOf(b)') \in cancelled' \/ ~Live(W(ClientOf(b)))'
    <2>1. PICK c \in Clients : c = ClientOf(b)'
      <3>1. CASE b = a  BY <1>5, <3>1 DEF CalmMove
      <3>2. CASE b # a
        <4>1. Tearing(b)  BY <1>1, <1>5, <3>2 DEF Tearing, TearDown
        <4> QED  BY <1>1, <3>2, <4>1 DEF ControlInv, TearInv
      <3> QED  BY <3>1, <3>2
    <2>2. W(c) \in Actors  BY ActorFacts
    <2>3. W(c) \in cancelled' \/ ~Live(W(c))'
      <3>1. CASE b = a
        <4>1. W(c) \in cancelled' \/ ~Live(W(c))  BY <1>5, <2>1, <3>1 DEF CalmMove
        <4>2. W(c) # a  BY <1>5, <3>1 DEF CalmMove
        <4> QED  BY <1>1, <2>2, <4>1, <4>2
      <3>2. CASE b # a
        <4>1. c = ClientOf(b) /\ pc[b] \in {"joinWriter", "failWriter"}
          BY <1>1, <1>5, <2>1, <3>2
        <4>2. W(c) \in cancelled \/ ~Live(W(c))  BY <4>1 DEF CalmInv
        <4>3. CASE W(c) = a  BY <4>2, <4>3 DEF CalmMove
        <4>4. CASE W(c) # a  BY <1>1, <2>2, <4>2, <4>4 DEF CalmMove
        <4> QED  BY <4>3, <4>4
      <3> QED  BY <3>1, <3>2
    <2> QED  BY <2>1, <2>3
  <1>6. unwaitable' = {}  BY DEF CalmMove
  <1>7. \A b \in Actors : pc'[b] \in {"joinWriter", "failWriter"} =>
                             W(ClientOf(b)') \in cancelled' \/ ~Live(W(ClientOf(b)))'
    BY <1>5
  <1> QED  BY <1>2, <1>3, <1>4, <1>6, <1>7 DEF CalmInv

\* a goes to a place that is no join of a writer, and cancels nothing.
LEMMA CalmGoKeeps ==
    ASSUME ControlInv, CalmInv, NEW a \in Actors, NEW where,
           pc' = [pc EXCEPT ![a] = where], cancelled' = cancelled \ {a}, unwaitable' = unwaitable,
           \A b \in Actors \ {a} : ClientOf(b)' = ClientOf(b),
           where \notin {"joinWriter", "failWriter", "joinReader", "failReader"},
           a \in cancelled \/ ~Live(a) => a \in Servants \/ where \in {"none", "done"}
                                             \/ \E c \in Clients : a = R(c)
    PROVE  CalmInv'
  <1>1. pc'[a] = where /\ \A b \in Actors \ {a} : pc'[b] = pc[b]
    BY DEF ControlInv, TypeInv
  <1>2. ASSUME NEW c \in Clients, a = W(c), a \in cancelled \/ ~Live(a) PROVE ~Live(a)'
    BY <1>1, <1>2, ActorFacts DEF Live
  <1>3. CalmMove(a, {})
    BY <1>1, <1>2 DEF CalmMove, CalmInv
  <1> QED  BY <1>3, CalmMoveKeeps

\* a drops the reader of c, at the latest now past its writer.
LEMMA DropReaderCalm ==
    ASSUME ControlInv, CalmInv, NEW a \in Actors, NEW c \in Clients,
           DropReader(a, c, cancelled \ {a}), unwaitable' = unwaitable,
           \A b \in Actors \ {a} : ClientOf(b)' = ClientOf(b),
           a \in cancelled \/ ~Live(a) => a \in Servants \/ \E d \in Clients : a = R(d),
           \A d \in Clients : a = R(d) => d = c
    PROVE  CalmInv'
  <1>1. R(c) \in Actors /\ R(c) \notin Servants /\ ClientOf(R(c)) = c  BY ActorFacts
  <1>2. CASE c \in readerRef /\ a # R(c)
    <2>1. /\ cancelled' = IF Live(R(c)) THEN (cancelled \ {a}) \cup {R(c)} ELSE cancelled \ {a}
          /\ pc' = [pc EXCEPT ![a] = "joinReader"]
      BY <1>2 DEF DropReader, CancelAndJoin
    <2>2. pc'[a] = "joinReader" /\ \A b \in Actors \ {a} : pc'[b] = pc[b]
      BY <2>1 DEF ControlInv, TypeInv
    <2>3. Live(R(c)) => pc[R(c)] \in {"start", "reading", "joinWriter", "failWriter"}
      <3>1. ~PastWriter(R(c))
        <4>1. PastWriter(R(c)) => Tearing(R(c))  BY DEF PastWriter, Tearing, TearDown
        <4> QED  BY <1>1, <1>2, <4>1 DEF ControlInv, TearInv
      <3> QED  BY <1>1, <3>1 DEF ControlInv, TypeInv, PastWriter, TearDown, Live
    <2>4. \A d \in Clients : R(c) # W(d) /\ (a = R(d) => d = c) /\ (R(d) = R(c) => d = c)
      BY ActorFacts
    <2>5. ASSUME NEW d \in Clients, a = W(d), a \in cancelled \/ ~Live(a) PROVE FALSE
      BY <2>5, ActorFacts
    <2>6. PICK T : T = IF Live(R(c)) THEN {R(c)} ELSE {}  OBVIOUS
    <2>7. /\ T \cap (Servants \cup {a}) = {}
          /\ \A d \in Clients :
                /\ W(d) \notin T
                /\ R(d) \in T => pc[R(d)] \in {"start", "reading", "joinWriter", "failWriter"}
          /\ cancelled' = (cancelled \ {a}) \cup T
      BY <1>1, <1>2, <2>1, <2>3, <2>4, <2>6
    <2>8. \A d \in Clients : a # R(d)  BY <1>2, <2>4
    <2>9. CalmMove(a, T)
      BY <2>2, <2>5, <2>7, <2>8 DEF CalmMove, CalmInv
    <2> QED  BY <2>9, CalmMoveKeeps
  <1>3. CASE ~(c \in readerRef /\ a # R(c))
    <2>1. cancelled' = cancelled \ {a} /\ pc' = [pc EXCEPT ![a] = "waitClosed"]
      BY <1>3 DEF DropReader, CloseSocket
    <2>2. a \in cancelled \/ ~Live(a) => a \in Servants \/ \E d \in Clients : a = R(d)
      OBVIOUS
    <2> QED  BY <2>1, <2>2, CalmGoKeeps
  <1> QED  BY <1>2, <1>3

LEMMA DisconnectCalm ==
    ASSUME ControlInv, CalmInv, NEW a \in Actors, NEW c \in registered,
           Disconnect(a, c, cancelled \ {a}), unwaitable' = unwaitable,
           a \in Servants \/ c = ClientOf(a),
           a \in cancelled \/ ~Live(a) => a \in Servants \/ \E d \in Clients : a = R(d)
    PROVE  CalmInv'
  <1>1. c \in Clients /\ target' = Aims(a, c)  BY DEF ControlInv, TypeInv, Disconnect
  <1>2. /\ \A b \in Actors \ {a} : ClientOf(b)' = ClientOf(b)
        /\ ClientOf(a)' = c
    BY <1>1, AimsAtOne DEF ControlInv
  <1>3. \A d \in Clients : a \in {W(d), R(d)} => d = c  BY ActorFacts
  <1>4. CASE DropReader(a, c, cancelled \ {a})
    BY <1>1, <1>2, <1>3, <1>4, DropReaderCalm
  <1>5. CASE c \in writerRef /\ a # W(c)
    <2>1. /\ cancelled' = IF Live(W(c)) THEN (cancelled \ {a}) \cup {W(c)} ELSE cancelled \ {a}
          /\ pc' = [pc EXCEPT ![a] = "joinWriter"]
      BY <1>5 DEF Disconnect, CancelAndJoin
    <2>2. W(c) \in Actors /\ ClientOf(W(c)) = c /\ W(c) \notin Servants  BY <1>1, ActorFacts
    <2>3. pc'[a] = "joinWriter" /\ \A b \in Actors \ {a} : pc'[b] = pc[b]
      BY <2>1 DEF ControlInv, TypeInv
    <2>4. Live(W(c)) => pc[W(c)] \in {"loop", "draining"}
      <3>1. ~Tearing(W(c))  BY <1>5, <2>2 DEF ControlInv, TearInv
      <3> QED  BY <1>1, <2>2, <3>1 DEF ControlInv, TypeInv, Tearing, Live
    <2>5. \A d \in Clients : /\ a # W(d) /\ W(c) # R(d)
                             /\ W(d) = W(c) => d = c
      BY <1>1, <1>3, <1>5, ActorFacts
    <2>6. PICK T : T = IF Live(W(c)) THEN {W(c)} ELSE {}  OBVIOUS
    <2>7. /\ T \cap (Servants \cup {a}) = {}
          /\ \A d \in Clients :
                /\ R(d) \notin T
                /\ W(d) \in T => pc[W(d)] \in {"loop", "draining"}
          /\ cancelled' = (cancelled \ {a}) \cup T
          /\ W(c) \in cancelled' \/ ~Live(W(c))
      BY <1>5, <2>1, <2>2, <2>4, <2>5, <2>6
    <2>8. W(ClientOf(a)') \in cancelled' \/ ~Live(W(ClientOf(a)'))
      BY <1>2, <2>7
    <2>9. CalmMove(a, T)
      BY <1>1, <1>2, <2>3, <2>5, <2>7, <2>8 DEF CalmMove, CalmInv
    <2> QED  BY <2>9, CalmMoveKeeps
  <1> QED  BY <1>4, <1>5 DEF Disconnect

LEMMA DisconnectSelfCalm ==
    ASSUME ControlInv, CalmInv, NEW c \in Clients, NEW a \in {W(c), R(c)},
           DisconnectSelf(a, c, cancelled \ {a}), unwaitable' = unwaitable,
           a = W(c) => a \notin cancelled /\ Live(a)
    PROVE  CalmInv'
  <1>1. a \in Actors /\ a \notin Servants /\ ClientOf(a) = c  BY ActorFacts
  <1>2. a \in cancelled \/ ~Live(a) => \E d \in Clients : a = R(d)  OBVIOUS
  <1>3. CASE c \in registered
    <2>1. Disconnect(a, c, cancelled \ {a})  BY <1>3 DEF DisconnectSelf
    <2> QED  BY <1>1, <1>2, <1>3, <2>1, DisconnectCalm
  <1>4. CASE c \notin registered
    <2>1. /\ pc' = [pc EXCEPT ![a] = "done"] /\ cancelled' = cancelled \ {a}
          /\ target' = Aims(a, NoClient)
      BY <1>1, <1>4, ActorFacts DEF DisconnectSelf, EndTask, After
    <2>2. NoClient \in Clients \cup {NoClient}  OBVIOUS
    <2>3. \A b \in Actors \ {a} : ClientOf(b)' = ClientOf(b)
      BY <1>1, <2>1, <2>2, AimsAtOne DEF ControlInv
    <2> QED  BY <1>1, <1>2, <2>1, <2>3, CalmGoKeeps
  <1> QED  BY <1>3, <1>4

\* A step that neither moves nor cancels a coroutine.
LEMMA CalmStillKeeps ==
    ASSUME ControlInv, CalmInv, UNCHANGED <<pc, target, cancelled, unwaitable>>
    PROVE  CalmInv'
  <1>1. \A b \in Actors : ClientOf(b)' = ClientOf(b)
    BY AimKept DEF ControlInv
  <1>2. \A b \in Actors : W(ClientOf(b)') = W(ClientOf(b))  BY <1>1
  <1> QED  BY <1>1, <1>2 DEF CalmInv, Live

LEMMA TearCalm ==
    ASSUME ControlInv, CalmInv, NEW a \in Actors,
           JoinedWriter(a) \/ JoinedReader(a) \/ Disconnected(a) \/ WaitFails(a)
    PROVE  CalmInv'
  <1>1. /\ Tearing(a) /\ a \notin cancelled
        /\ unwaitable' = unwaitable
    BY DEF JoinedWriter, JoinedReader, Disconnected, WaitFails, At, KeepManager, netVars,
           Tearing, TearDown, WritersEnd
  <1>2. Live(a) /\ cancelled = cancelled \ {a}
    BY <1>1 DEF Tearing, TearDown, WritersEnd, Live
  <1>3. PICK c \in Clients : c = ClientOf(a)  BY <1>1 DEF ControlInv, TearInv
  <1>4. \A d \in Clients : a = R(d) => d = c  BY <1>3, ActorFacts
  <1>5. CASE JoinedWriter(a)
    <2>1. DropReader(a, c, cancelled \ {a}) /\ target' = target
      BY <1>2, <1>3, <1>5 DEF JoinedWriter
    <2>2. \A b \in Actors \ {a} : ClientOf(b)' = ClientOf(b)
      BY <2>1, AimKept DEF ControlInv
    <2> QED  BY <1>1, <1>2, <1>4, <2>1, <2>2, DropReaderCalm
  <1>6. CASE JoinedReader(a)
    <2>1. pc' = [pc EXCEPT ![a] = "waitClosed"] /\ cancelled' = cancelled \ {a}
          /\ target' = target
      BY <1>2, <1>6 DEF JoinedReader, CloseSocket, KeepTables
    <2>2. \A b \in Actors \ {a} : ClientOf(b)' = ClientOf(b)
      BY <2>1, AimKept DEF ControlInv
    <2> QED  BY <1>1, <1>2, <2>1, <2>2, CalmGoKeeps
  <1>7. CASE Disconnected(a) \/ WaitFails(a)
    <2>1. /\ \E where \in {"idle", "done"} : pc' = [pc EXCEPT ![a] = where]
          /\ target' = Aims(a, NoClient) /\ cancelled' = cancelled \ {a}
      BY <1>2, <1>7 DEF Disconnected, WaitFails, After
    <2>2. PICK where \in {"idle", "done"} : pc' = [pc EXCEPT ![a] = where]  BY <2>1
    <2>3. NoClient \in Clients \cup {NoClient}  OBVIOUS
    <2>4. \A b \in Actors \ {a} : ClientOf(b)' = ClientOf(b)
      BY <2>1, <2>3, AimsAtOne DEF ControlInv
    <2> QED  BY <1>1, <1>2, <2>1, <2>2, <2>4, CalmGoKeeps
  <1> QED  BY <1>5, <1>6, <1>7

LEMMA DeliverCancelCalm ==
    ASSUME ControlInv, CalmInv, ~SwallowCancel, NEW a \in Actors, DeliverCancel(a)
    PROVE  CalmInv'
  <1>1. a \in cancelled  BY DEF DeliverCancel
  <1>2. PICK c \in Clients : a = W(c) \/ a = R(c)
    BY <1>1, ActorFacts DEF CalmInv
  <1>3. ClientOf(a) = c /\ a \notin Servants  BY <1>2, ActorFacts
  <1>4. pc[a] \in {"start", "reading", "joinWriter", "failWriter", "loop", "draining"}
    BY <1>1, <1>2 DEF CalmInv
  <1>5. \/ /\ pc[a] \in {"joinWriter", "failWriter"} /\ Live(W(c))
           /\ PassOn(a, W(c), "failWriter", cancelled \ {a})
        \/ pc[a] = "reading" /\ DisconnectSelf(a, c, cancelled \ {a})
           /\ unwaitable' = unwaitable
        \/ EndTask(a, cancelled \ {a}) /\ unwaitable' = unwaitable
    BY <1>3, <1>4 DEF DeliverCancel
  <1>6. CASE /\ pc[a] \in {"joinWriter", "failWriter"} /\ Live(W(c))
             /\ PassOn(a, W(c), "failWriter", cancelled \ {a})
    <2>1. /\ pc' = [pc EXCEPT ![a] = "failWriter"]
          /\ cancelled' = (cancelled \ {a}) \cup {W(c)}
          /\ target' = target /\ unwaitable' = unwaitable
      BY <1>6 DEF PassOn, KeepTables
    <2>2. W(c) \in cancelled  BY <1>3, <1>6 DEF CalmInv
    <2>3. a = R(c) /\ \A d \in Clients : a # W(d) /\ a \notin Servants
      <3>1. a # W(c)  BY <1>6 DEF CalmInv
      <3> QED  BY <1>2, <3>1, ActorFacts
    <2>4. cancelled' = cancelled \ {a}  BY <2>1, <2>2, <2>3
    <2>5. pc'[a] = "failWriter" /\ \A b \in Actors \ {a} : pc'[b] = pc[b]
      BY <2>1 DEF ControlInv, TypeInv
    <2>6. \A b \in Actors : ClientOf(b)' = ClientOf(b)
      BY <2>1, AimKept DEF ControlInv
    <2>7. ClientOf(a)' = c  BY <1>3, <2>6
    <2>8. W(ClientOf(a)') \in cancelled'  BY <2>1, <2>7
    <2>9. CalmMove(a, {})
      BY <2>1, <2>3, <2>4, <2>5, <2>6, <2>7, <2>8 DEF CalmMove, CalmInv
    <2> QED  BY <2>9, CalmMoveKeeps
  <1>7. CASE pc[a] = "reading" /\ DisconnectSelf(a, c, cancelled \ {a})
             /\ unwaitable' = unwaitable
    <2>1. a # W(c)  BY <1>7 DEF ControlInv, TypeInv
    <2>2. a \in {W(c), R(c)}  BY <1>2
    <2> QED  BY <1>7, <2>1, <2>2, DisconnectSelfCalm
  <1>8. CASE EndTask(a, cancelled \ {a}) /\ unwaitable' = unwaitable
    <2>1. /\ pc' = [pc EXCEPT ![a] = "done"] /\ cancelled' = cancelled \ {a}
          /\ target' = Aims(a, NoClient)
      BY <1>3, <1>8, ActorFacts DEF EndTask, After
    <2>2. NoClient \in Clients \cup {NoClient}  OBVIOUS
    <2>3. \A b \in Actors \ {a} : ClientOf(b)' = ClientOf(b)
      BY <2>1, <2>2, AimsAtOne DEF ControlInv
    <2> QED  BY <1>8, <2>1, <2>3, CalmGoKeeps
  <1> QED  BY <1>5, <1>6, <1>7, <1>8

LEMMA TaskCalm ==
    ASSUME ControlInv, CalmInv, NEW c \in Clients,
           \/ ReaderStart(c) \/ WriterSend(c) \/ WriterEnd(c) \/ WriterDrained(c)
           \/ ReaderExit(c) \/ WriterFails(c)
    PROVE  CalmInv'
  <1>1. PICK a \in {W(c), R(c)} :
          /\ a \notin cancelled /\ Live(a)
          /\ unwaitable' = unwaitable
          /\ \/ DisconnectSelf(a, c, cancelled)
             \/ EndTask(a, cancelled)
             \/ /\ \E where \in {"reading", "loop", "draining"} : pc' = [pc EXCEPT ![a] = where]
                /\ UNCHANGED <<target, cancelled>>
    <2>1. CASE ReaderStart(c) \/ ReaderExit(c)
      BY <2>1 DEF ReaderStart, ReaderExit, At, Live, KeepManager, KeepTables, netVars
    <2>2. CASE WriterSend(c) \/ WriterEnd(c) \/ WriterDrained(c) \/ WriterFails(c)
      BY <2>2 DEF WriterSend, WriterEnd, WriterDrained, WriterFails, At, Live, KeepManager,
                  KeepTables, netVars
    <2> QED  BY <2>1, <2>2
  <1>2. cancelled = cancelled \ {a} /\ a \in Actors /\ a \notin Servants
    BY <1>1, ActorFacts
  <1>3. CASE DisconnectSelf(a, c, cancelled)
    <2>1. DisconnectSelf(a, c, cancelled \ {a})  BY <1>2, <1>3
    <2> QED  BY <1>1, <2>1, DisconnectSelfCalm
  <1>4. CASE EndTask(a, cancelled)
    <2>1. /\ pc' = [pc EXCEPT ![a] = "done"] /\ cancelled' = cancelled \ {a}
          /\ target' = Aims(a, NoClient)
      BY <1>2, <1>4, ActorFacts DEF EndTask, After
    <2>2. NoClient \in Clients \cup {NoClient}  OBVIOUS
    <2>3. \A b \in Actors \ {a} : ClientOf(b)' = ClientOf(b)
      BY <1>2, <2>1, <2>2, AimsAtOne DEF ControlInv
    <2> QED  BY <1>1, <1>2, <2>1, <2>3, CalmGoKeeps
  <1>5. CASE /\ \E where \in {"reading", "loop", "draining"} : pc' = [pc EXCEPT ![a] = where]
             /\ UNCHANGED <<target, cancelled>>
    <2>1. PICK where \in {"reading", "loop", "draining"} : pc' = [pc EXCEPT ![a] = where]
      BY <1>5
    <2>2. \A b \in Actors \ {a} : ClientOf(b)' = ClientOf(b)
      BY <1>5, AimKept DEF ControlInv
    <2>3. cancelled' = cancelled \ {a}  BY <1>2, <1>5
    <2> QED  BY <1>1, <1>2, <2>1, <2>2, <2>3, CalmGoKeeps
  <1> QED  BY <1>1, <1>3, <1>4, <1>5

LEMMA ConnectCalm ==
    ASSUME ControlInv, CalmInv, NEW c \in Clients, Connect(c) PROVE CalmInv'
  <1>1. /\ socket[c] = "new" /\ pc' = [pc EXCEPT ![W(c)] = "loop", ![R(c)] = "start"]
        /\ UNCHANGED <<target, cancelled, unwaitable>>
    BY DEF Connect
  <1>2. /\ pc'[W(c)] = "loop" /\ pc'[R(c)] = "start"
        /\ \A b \in Actors \ {W(c), R(c)} : pc'[b] = pc[b]
    BY <1>1, ActorFacts DEF ControlInv, TypeInv
  <1>3. \A b \in Actors : ClientOf(b)' = ClientOf(b)
    BY <1>1, AimKept DEF ControlInv
  <1>4. ASSUME NEW b \in Actors, pc'[b] \in {"joinWriter", "failWriter"}
        PROVE  W(ClientOf(b)') \in cancelled' \/ ~Live(W(ClientOf(b)))'
    <2>1. b \notin {W(c), R(c)} /\ pc[b] \in {"joinWriter", "failWriter"}
      BY <1>2, <1>4
    <2>2. PICK d \in Clients : d = ClientOf(b) /\ socket[d] # "new"
      BY <2>1 DEF ControlInv, TearInv, Tearing, TearDown
    <2>3. W(d) \in cancelled \/ ~Live(W(d))  BY <2>1, <2>2 DEF CalmInv
    <2>4. W(d) \in Actors \ {W(c), R(c)}  BY <1>1, <2>2, ActorFacts
    <2>5. W(d) \in cancelled' \/ ~Live(W(d))'  BY <1>1, <1>2, <2>3, <2>4 DEF Live
    <2> QED  BY <1>3, <2>2, <2>5
  <1>5. \A b \in Actors : pc'[b] # "failReader"  BY <1>2 DEF CalmInv
  <1>6. \A b \in Servants : b \notin cancelled' /\ pc'[b] # "failWriter"
    BY <1>1, <1>2, ActorFacts DEF CalmInv
  <1>7. \A d \in Clients :
          /\ W(d) \in cancelled' => pc'[W(d)] \in {"loop", "draining"}
          /\ R(d) \in cancelled' => pc'[R(d)] \in {"start", "reading", "joinWriter", "failWriter"}
          /\ pc'[W(d)] \notin {"joinWriter", "failWriter"} /\ pc'[R(d)] # "joinReader"
    BY <1>1, <1>2, ActorFacts DEF CalmInv
  <1>8. unwaitable' = {}  BY <1>1 DEF CalmInv
  <1> QED  BY <1>4, <1>5, <1>6, <1>7, <1>8 DEF CalmInv

\* The handler that turns a client away joins a writer that it has cancelled.
LEMMA ConnectRejectedCalm ==
    ASSUME ControlInv, CalmInv, NEW c \in Clients, ConnectRejected(c) PROVE CalmInv'
  <1>1. /\ socket[c] = "new" /\ pc' = [pc EXCEPT ![W(c)] = "loop", ![R(c)] = "joinWriter"]
        /\ cancelled' = cancelled \cup {W(c)}
        /\ UNCHANGED <<target, unwaitable>>
    BY DEF ConnectRejected
  <1>2. /\ pc'[W(c)] = "loop" /\ pc'[R(c)] = "joinWriter"
        /\ \A b \in Actors \ {W(c), R(c)} : pc'[b] = pc[b]
    BY <1>1, ActorFacts DEF ControlInv, TypeInv
  <1>3. \A b \in Actors : ClientOf(b)' = ClientOf(b)
    BY <1>1, AimKept DEF ControlInv
  <1>4. ASSUME NEW b \in Actors, pc'[b] \in {"joinWriter", "failWriter"}
        PROVE  W(ClientOf(b)') \in cancelled' \/ ~Live(W(ClientOf(b)))'
    <2>1. CASE b = R(c)
      <3>1. ClientOf(b)' = c  BY <1>3, <2>1, ActorFacts
      <3> QED  BY <1>1, <3>1
    <2>2. CASE b # R(c)
      <3>1. b \notin {W(c), R(c)} /\ pc[b] \in {"joinWriter", "failWriter"}
        BY <1>2, <1>4, <2>2
      <3>2. PICK d \in Clients : d = ClientOf(b) /\ socket[d] # "new"
        BY <3>1 DEF ControlInv, TearInv, Tearing, TearDown
      <3>3. W(d) \in cancelled \/ ~Live(W(d))  BY <3>1, <3>2 DEF CalmInv
      <3>4. W(d) \in Actors \ {W(c), R(c)}  BY <1>1, <3>2, ActorFacts
      <3>5. W(d) \in cancelled' \/ ~Live(W(d))'  BY <1>1, <1>2, <3>3, <3>4 DEF Live
      <3> QED  BY <1>3, <3>2, <3>5
    <2> QED  BY <2>1, <2>2
  <1>5. \A b \in Actors : pc'[b] # "failReader"  BY <1>2 DEF CalmInv
  <1>6. \A b \in Servants : b \notin cancelled' /\ pc'[b] # "failWriter"
    BY <1>1, <1>2, ActorFacts DEF CalmInv
  <1>7. \A d \in Clients :
          /\ W(d) \in cancelled' => pc'[W(d)] \in {"loop", "draining"}
          /\ R(d) \in cancelled' => pc'[R(d)] \in {"start", "reading", "joinWriter", "failWriter"}
          /\ pc'[W(d)] \notin {"joinWriter", "failWriter"} /\ pc'[R(d)] # "joinReader"
    BY <1>1, <1>2, ActorFacts DEF CalmInv
  <1>8. unwaitable' = {}  BY <1>1 DEF CalmInv
  <1> QED  BY <1>4, <1>5, <1>6, <1>7, <1>8 DEF CalmInv

\* The sender or the monitor disconnects a client, or nobody does.
LEMMA ServantCalm ==
    ASSUME ControlInv, CalmInv, NEW a \in Servants, unwaitable' = unwaitable,
           UNCHANGED taskVars \/ \E c \in registered : Disconnect(a, c, cancelled)
    PROVE  CalmInv'
  <1>1. a \in Actors /\ cancelled = cancelled \ {a}  BY ActorFacts DEF CalmInv
  <1>2. CASE UNCHANGED taskVars
    BY <1>2, CalmStillKeeps DEF taskVars
  <1>3. ASSUME NEW c \in registered, Disconnect(a, c, cancelled) PROVE CalmInv'
    <2>1. Disconnect(a, c, cancelled \ {a})  BY <1>1, <1>3
    <2> QED  BY <1>1, <2>1, DisconnectCalm
  <1> QED  BY <1>2, <1>3

LEMMA StartCalm == ASSUME ControlInv, CalmInv, Start PROVE CalmInv'
  <1>1. /\ pc' = [pc EXCEPT ![Monitor] = "idle"]
        /\ UNCHANGED <<target, cancelled, unwaitable>>
    BY DEF Start, netVars
  <1>2. Monitor \in Actors /\ Monitor \in Servants  BY ActorFacts
  <1>3. cancelled' = cancelled \ {Monitor}  BY <1>1, <1>2 DEF CalmInv
  <1>4. \A b \in Actors \ {Monitor} : ClientOf(b)' = ClientOf(b)
    BY <1>1, AimKept DEF ControlInv
  <1> QED  BY <1>1, <1>2, <1>3, <1>4, CalmGoKeeps

LEMMA NextCalm ==
    ASSUME ~MayStop, StopMeets = {}, ~SwallowCancel, ControlInv, CalmInv, [Next]_vars PROVE CalmInv'
  <1>1. ASSUME NEW a \in Actors,
               \/ JoinedWriter(a) \/ JoinedReader(a) \/ Disconnected(a)
               \/ WaitFails(a) \/ DeliverCancel(a)
        PROVE  CalmInv'
    BY <1>1, TearCalm, DeliverCancelCalm
  <1>2. ASSUME NEW c \in Clients,
               \/ ReaderStart(c) \/ WriterSend(c) \/ WriterEnd(c) \/ WriterDrained(c)
               \/ Connect(c) \/ ConnectRejected(c) \/ ReaderExit(c) \/ WriterFails(c)
        PROVE  CalmInv'
    BY <1>2, TaskCalm, ConnectCalm, ConnectRejectedCalm
  <1>3. CASE Broadcast
    <2>1. /\ unwaitable' = unwaitable /\ Sender \in Servants
          /\ UNCHANGED taskVars \/ \E c \in registered : Disconnect(Sender, c, cancelled)
      BY <1>3, ActorFacts DEF Broadcast, BroadcastTo
    <2> QED  BY <2>1, ServantCalm
  <1>4. ASSUME NEW a \in {Monitor, Stopper}, DisconnectNext(a) PROVE CalmInv'
    <2>1. /\ unwaitable' = unwaitable /\ a \in Servants
          /\ UNCHANGED taskVars \/ \E c \in registered : Disconnect(a, c, cancelled)
      BY <1>4, ActorFacts DEF DisconnectNext
    <2> QED  BY <2>1, ServantCalm
  <1>5. CASE Start  BY <1>5, StartCalm
  <1>6. CASE UNCHANGED <<pc, target, cancelled, unwaitable>>
    BY <1>6, CalmStillKeeps
  <1>7. ASSUME NEW c \in Clients, Flush(c) \/ SocketCloses(c) \/ PeerResets(c)
        PROVE  UNCHANGED <<pc, target, cancelled, unwaitable>>
    BY <1>7 DEF Flush, SocketCloses, PeerResets, taskVars
  <1>8. ASSUME \/ StopClients \/ StopEnd \/ UNCHANGED vars
               \/ \E overdue \in SUBSET blocked : MonitorScan(overdue)
        PROVE  UNCHANGED <<pc, target, cancelled, unwaitable>>
    BY <1>8 DEF StopClients, StopEnd, MonitorScan, vars, taskVars, netVars
  <1>9. ~StopBegin /\ ~SenderCancelled  BY DEF StopBegin, SenderCancelled
  <1> QED
    BY <1>1, <1>2, <1>3, <1>4, <1>5, <1>6, <1>7, <1>8, <1>9
    DEF Next, LoopStep, MonitorNext, StopNext

\* On Python 3.12 and later, and while nobody stops the engine or the server, broadcast() does not
\* raise, whatever disconnects overtake each other: ClientStream's promise is kept as it is.
THEOREM UndisturbedStream ==
    ASSUME ~MayStop, StopMeets = {}, ~SwallowCancel PROVE Spec => Stream!StreamSpec
  <1>1. Init => CalmInv
    <2> SUFFICES ASSUME Init PROVE CalmInv  OBVIOUS
    <2>1. \A a \in Actors : pc[a] \in {"none", "idle"}  BY DEF Init
    <2> QED  BY <2>1, ActorFacts DEF Init, CalmInv
  <1>2. FullInv /\ CalmInv /\ [Next]_vars => CalmInv'
    BY NextCalm DEF FullInv, ServerInv
  <1>3. CalmInv => ~Raises
    <2>1. target[Sender] \notin {}  OBVIOUS
    <2> QED  BY <2>1, ActorFacts DEF CalmInv, Raises
  <1>4. FullInv /\ CalmInv /\ [Next]_vars => [Stream!StreamNext]_(Stream!streamVars)
    BY <1>3, NextServer DEF StreamStep
  <1>5. FullInv /\ [Next]_vars => FullInv'  BY NextServer
  <1> QED  BY <1>1, <1>2, <1>4, <1>5, InitServer, PTL DEF Spec, Stream!StreamSpec

=============================================================================
