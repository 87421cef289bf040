-------------------------- MODULE ControllerProofs --------------------------
(***************************************************************************)
(* For any number of coroutines, transports and faults: if a start or an   *)
(* apply runs alone, while stops may run side by side, the controller      *)
(* leaves nothing behind that none of its fields names, and a shutdown     *)
(* leaves nothing at all.                                                  *)
(***************************************************************************)
EXTENDS Controller, SequenceTheorems, TLAPS

-----------------------------------------------------------------------------
(* What a coroutine has still to do                                        *)

\* The steps there are.
Steps == {"stats", "statsJoined", "engine", "engineJoined", "transport", "transportStopped",
          "rxStats", "rxStatsJoined", "detach", "rxStopped", "rxRole",
          "load", "clear", "buildTx", "bound", "sending", "applied",
          "clearTx", "clearRx", "buildRx", "listening"}

\* The step a coroutine is before, and whether s is among those it will take.
Ahead(t) == IF t = <<>> THEN "end" ELSE Head(t)
Will(t, s) == \E i \in DOMAIN t : t[i] = s

Line(s, t) == <<s>> \o t

\* The ends of _stop_transport_async and _stop_reception_async, and r after them.
T1(r) == Line("transportStopped", r)
T2(r) == Line("transport", T1(r))
T3(r) == Line("engineJoined", T2(r))
T4(r) == Line("engine", T3(r))
T5(r) == Line("statsJoined", T4(r))
T6(r) == Line("stats", T5(r))
R1(r) == Line("rxRole", r)
R2(r) == Line("rxStopped", R1(r))
R3(r) == Line("detach", R2(r))
R4(r) == Line("rxStatsJoined", R3(r))
R5(r) == Line("rxStats", R4(r))

Sent == Line("sending", << >>)
Built == Line("bound", Sent)
Transmit == Line("buildTx", Built)
Changed == Line("applied", << >>)
Apply == Line("buildTx", Changed)
Opened == Line("listening", << >>)
Receive == Line("buildRx", Opened)

\* What follows a stop of the sender, one of the receiver, and what is neither, per
\* command.
AfterTx(c) ==
    CASE c = "transmit" -> {<< >>, Transmit}
      [] c = "apply" -> {Apply}
      [] c = "receive" -> {Line("clearRx", Receive)}
      [] c \in Stops -> {<< >>}
      [] OTHER -> {}

AfterRx(c) ==
    CASE c = "receive" -> {<< >>, Receive}
      [] c \in Stops -> {<< >>, T6(<< >>)}
      [] OTHER -> {}

Plain(c) ==
    CASE c = "transmit" -> {Line("load", Line("clear", Transmit)), Line("clear", Transmit),
                            Transmit, Built, Sent}
      [] c = "apply" -> {Line("clear", Apply), Apply, Changed}
      [] c = "receive" -> {Line("clearTx", Line("clearRx", Receive)),
                           Line("clearRx", Receive), Receive, Opened}
      [] OTHER -> {}

Shaped(t, c) ==
    \/ t = <<>> \/ t \in Plain(c)
    \/ \E r \in AfterTx(c) : t \in {T1(r), T2(r), T3(r), T4(r), T5(r), T6(r)}
    \/ \E r \in AfterRx(c) : t \in {R1(r), R2(r), R3(r), R4(r), R5(r)}

\* Starts run alone; stops may run side by side.
ProgramInv ==
    /\ last \in {"none"} \cup Starts \cup Stops
    /\ todo = [j \in Jobs |-> todo[j]] /\ \A j \in Jobs : Shaped(todo[j], last)
    /\ last \in Starts =>
          \A i, j \in Jobs : todo[i] # <<>> /\ todo[j] # <<>> => i = j

-----------------------------------------------------------------------------
(* The objects and the fields                                              *)

ObjectsInv ==
    /\ {active, engine, receiver} \subseteq Numbers \cup {None}
    /\ kind = [n \in Numbers |-> kind[n]] /\ link = [n \in Numbers |-> link[n]]
    /\ work = [n \in Numbers |-> work[n]] /\ started = [n \in Numbers |-> started[n]]
    /\ held = [j \in Jobs |-> held[j]]
    /\ stats \in BOOLEAN /\ rxStats \in BOOLEAN /\ role \in {"sender", "receiver"}
    /\ \A n \in Numbers :
          /\ kind[n] \in {"none", "sender", "receiver"}
          /\ link[n] \in {"new", "starting", "up", "stopping", "down", "cut", "lingering"}
          /\ work[n] \in BOOLEAN /\ started[n] \in BOOLEAN
          /\ kind[n] = "none" => link[n] = "new" /\ ~work[n]

\* What a coroutine before a step of the sender's relies on.
SenderJob(j) ==
    LET h == Ahead(todo[j]) n == held[j] IN
    /\ h \in {"transport", "transportStopped"} => engine = None
    /\ h = "transportStopped" =>
          n \in Numbers /\ kind[n] = "sender" /\ active \in {None, n} /\ link[n] # "starting"
    /\ h = "engineJoined" => n \in Numbers /\ kind[n] = "sender" /\ engine \in {None, n}
    /\ h = "buildTx" => active = None /\ engine = None
    /\ h \in {"bound", "applied"} =>
          n = active /\ active # None /\ engine = None /\ link[active] = "starting"
    /\ h = "sending" => engine = active

\* A transport of the sender's that is not at rest is somebody's business.
SenderObject(n) ==
    kind[n] = "sender" =>
       /\ work[n] => n = engine
       /\ link[n] = "up" => n = active
       /\ link[n] = "starting" =>
             \E j \in Jobs : Ahead(todo[j]) \in {"bound", "applied"} /\ held[j] = n
       /\ link[n] = "stopping" =>
             \E j \in Jobs : Ahead(todo[j]) = "transportStopped" /\ held[j] = n

\* What is still to be done about the step s.
Pending(s) == \E j \in Jobs : Will(todo[j], s)

SenderFields ==
    /\ active # None => kind[active] = "sender"
    /\ engine # None =>
          /\ engine = active /\ link[active] = "up"
          /\ work[engine] \/ Pending("engineJoined")
    /\ last = "transmit" =>
          engine = active \/ ~Quiet \/ (active # None /\ link[active] = "cut")

SenderInv ==
    /\ SenderFields
    /\ \A j \in Jobs : SenderJob(j)
    /\ \A n \in Numbers : SenderObject(n)

ReceiverJob(j) ==
    LET h == Ahead(todo[j]) n == held[j] IN
    /\ h \in {"rxStopped", "rxRole", "buildRx"} => receiver = None
    /\ h = "rxStopped" => n \in Numbers /\ kind[n] = "receiver"
    /\ h = "listening" =>
          n = receiver /\ receiver # None /\ link[receiver] = "starting" /\ work[receiver]

ReceiverObject(n) ==
    /\ started[n] => n = receiver /\ link[n] = "up" /\ work[n]
    /\ kind[n] = "receiver" =>
          /\ link[n] = "up" => n = receiver /\ started[n]
          /\ link[n] = "starting" =>
                \E j \in Jobs : Ahead(todo[j]) = "listening" /\ held[j] = n
          /\ link[n] = "stopping" =>
                \E j \in Jobs : Ahead(todo[j]) = "rxStopped" /\ held[j] = n

ReceiverFields ==
    /\ receiver # None =>
          /\ kind[receiver] = "receiver" /\ role = "receiver"
          /\ \/ started[receiver] \/ Pending("detach")
             \/ \E j \in Jobs : Ahead(todo[j]) = "listening"
    /\ receiver = None /\ role = "receiver" => Pending("rxRole")

ReceiverInv ==
    /\ ReceiverFields
    /\ \A j \in Jobs : ReceiverJob(j)
    /\ \A n \in Numbers : ReceiverObject(n)

ControllerInv == ProgramInv /\ ObjectsInv /\ SenderInv /\ ReceiverInv

-----------------------------------------------------------------------------
(* Programs                                                                *)

LEMMA StepNames ==
    /\ "stats" \in Steps /\ "statsJoined" \in Steps /\ "engine" \in Steps
    /\ "engineJoined" \in Steps /\ "transport" \in Steps /\ "transportStopped" \in Steps
    /\ "rxStats" \in Steps /\ "rxStatsJoined" \in Steps /\ "detach" \in Steps
    /\ "rxStopped" \in Steps /\ "rxRole" \in Steps /\ "load" \in Steps
    /\ "clear" \in Steps /\ "buildTx" \in Steps /\ "bound" \in Steps
    /\ "sending" \in Steps /\ "applied" \in Steps /\ "clearTx" \in Steps
    /\ "clearRx" \in Steps /\ "buildRx" \in Steps /\ "listening" \in Steps
  BY DEF Steps

LEMMA LineIs ==
    ASSUME NEW x \in Steps, NEW r \in Seq(Steps)
    PROVE  /\ Line(x, r) \in Seq(Steps) /\ Line(x, r) # <<>>
           /\ Ahead(Line(x, r)) = x /\ Head(Line(x, r)) = x /\ Tail(Line(x, r)) = r
           /\ \A s : Will(Line(x, r), s) <=> s = x \/ Will(r, s)
  <1>1. PICK t : t = Line(x, r)  OBVIOUS
  <1>2. t \in Seq(Steps) /\ Len(t) = Len(r) + 1 /\ t[1] = x
        /\ \A i \in 1..Len(r) : t[i + 1] = r[i]
    <2>1. <<x>> \in Seq(Steps) /\ Len(<<x>>) = 1 /\ <<x>>[1] = x  OBVIOUS
    <2>2. t \in Seq(Steps) /\ Len(t) = 1 + Len(r) /\ Len(r) \in Nat
      BY <1>1, <2>1, ConcatProperties DEF Line
    <2>3. \A i \in 1..1 + Len(r) : t[i] = IF i <= 1 THEN <<x>>[i] ELSE r[i - 1]
      BY <1>1, <2>1, ConcatProperties DEF Line
    <2>4. t[1] = x  BY <2>1, <2>2, <2>3
    <2>5. ASSUME NEW i \in 1..Len(r) PROVE t[i + 1] = r[i]
      <3>1. i + 1 \in 1..1 + Len(r) /\ ~(i + 1 <= 1) /\ (i + 1) - 1 = i  BY <2>2
      <3> QED  BY <3>1, <2>3
    <2> QED  BY <2>2, <2>4, <2>5
  <1>3. t # <<>> /\ Head(t) = x  BY <1>2
  <1>4. Tail(t) = r
    <2>1. Tail(t) \in Seq(Steps) /\ Len(Tail(t)) = Len(r)  BY <1>2, <1>3, HeadTailProperties
    <2>2. \A i \in 1..Len(r) : Tail(t)[i] = t[i + 1]  BY <2>1, <1>2, <1>3
    <2> QED  BY <2>1, <2>2, <1>2, SeqEqual
  <1>5. ASSUME NEW s PROVE Will(t, s) <=> s = x \/ Will(r, s)
    <2>1. DOMAIN t = 1..(Len(r) + 1) /\ DOMAIN r = 1..Len(r) /\ Len(r) \in Nat  BY <1>2
    <2>2. ASSUME Will(t, s) PROVE s = x \/ Will(r, s)
      <3>1. PICK i \in DOMAIN t : t[i] = s  BY <2>2 DEF Will
      <3>2. CASE i = 1  BY <3>1, <3>2, <1>2
      <3>3. CASE i # 1
        <4>1. i - 1 \in 1..Len(r) /\ (i - 1) + 1 = i  BY <3>3, <2>1
        <4>2. r[i - 1] = s  BY <4>1, <3>1, <1>2
        <4> QED  BY <4>1, <4>2, <2>1 DEF Will
      <3> QED  BY <3>2, <3>3
    <2>3. ASSUME s = x PROVE Will(t, s)
      <3>1. 1 \in DOMAIN t  BY <2>1
      <3> QED  BY <3>1, <2>3, <1>2 DEF Will
    <2>4. ASSUME Will(r, s) PROVE Will(t, s)
      <3>1. PICK i \in DOMAIN r : r[i] = s  BY <2>4 DEF Will
      <3>2. i + 1 \in DOMAIN t /\ t[i + 1] = s  BY <3>1, <2>1, <1>2
      <3> QED  BY <3>2 DEF Will
    <2> QED  BY <2>2, <2>3, <2>4
  <1>6. Ahead(t) = x  BY <1>3 DEF Ahead
  <1> QED  BY <1>1, <1>2, <1>3, <1>4, <1>5, <1>6

\* What it takes of a sequence u to be the step x before t.
Begins(u, x, t) == Len(u) = Len(t) + 1 /\ u[1] = x /\ \A i \in 1..Len(t) : u[i + 1] = t[i]

LEMMA LineOf ==
    ASSUME NEW x \in Steps, NEW t \in Seq(Steps), NEW u \in Seq(Steps), Begins(u, x, t)
    PROVE  u = Line(x, t)
  <1>1. PICK v \in Seq(Steps) : v = Line(x, t)  BY LineIs
  <1>2. <<x>> \in Seq(Steps) /\ Len(<<x>>) = 1 /\ <<x>>[1] = x /\ Len(t) \in Nat
        /\ Len(u) = Len(t) + 1 /\ u[1] = x /\ \A i \in 1..Len(t) : u[i + 1] = t[i]
    BY DEF Begins
  <1>3. Len(v) = 1 + Len(t)
        /\ \A i \in 1..1 + Len(t) : v[i] = IF i <= 1 THEN <<x>>[i] ELSE t[i - 1]
    BY <1>1, <1>2, ConcatProperties DEF Line
  <1>4. ASSUME NEW i \in 1..Len(u) PROVE u[i] = v[i]
    <2>1. CASE i = 1  BY <2>1, <1>2, <1>3
    <2>2. CASE i # 1
      <3>1. i - 1 \in 1..Len(t) /\ (i - 1) + 1 = i /\ ~(i <= 1)  BY <2>2, <1>2
      <3>2. u[i] = t[i - 1]  BY <3>1, <1>2
      <3> QED  BY <3>1, <3>2, <1>2, <1>3
    <2> QED  BY <2>1, <2>2
  <1> QED  BY <1>1, <1>2, <1>3, <1>4, SeqEqual

Then(r, s) == r \o s

LEMMA LineThen ==
    ASSUME NEW x \in Steps, NEW r \in Seq(Steps), NEW s \in Seq(Steps)
    PROVE  Then(Line(x, r), s) = Line(x, Then(r, s))
  BY ConcatAssociative DEF Line, Then

LEMMA NothingAhead == Ahead(<< >>) = "end" /\ \A s : ~Will(<< >>, s)
  BY DEF Ahead, Will

\* A program that is not empty, from its next step on.
LEMMA Onward ==
    ASSUME NEW t \in Seq(Steps), t # <<>>
    PROVE  /\ Tail(t) \in Seq(Steps)
           /\ \A s : Will(t, s) /\ s # Head(t) => Will(Tail(t), s)
  <1>1. Tail(t) \in Seq(Steps) /\ Len(Tail(t)) = Len(t) - 1 /\ Len(t) \in Nat
    BY HeadTailProperties
  <1>2. ASSUME NEW s, Will(t, s), s # Head(t) PROVE Will(Tail(t), s)
    <2>1. PICK i \in 1..Len(t) : t[i] = s  BY <1>2 DEF Will
    <2>2. i # 1  BY <2>1, <1>2
    <2>3. PICK u \in Seq(Steps) : u = Tail(t)  BY <1>1
    <2>4. i - 1 \in 1..Len(u) /\ (i - 1) + 1 = i  BY <2>2, <2>3, <1>1
    <2>5. u[i - 1] = s  BY <2>1, <2>3, <2>4, HeadTailProperties
    <2>6. Will(u, s)  BY <2>4, <2>5 DEF Will
    <2> QED  BY <2>3, <2>6
  <1> QED  BY <1>1, <1>2

LEMMA TxStages ==
    ASSUME NEW r \in Seq(Steps)
    PROVE  /\ {T1(r), T2(r), T3(r), T4(r), T5(r), T6(r)} \subseteq Seq(Steps) \ {<< >>}
           /\ Ahead(T1(r)) = "transportStopped" /\ Tail(T1(r)) = r
           /\ Ahead(T2(r)) = "transport" /\ Tail(T2(r)) = T1(r)
           /\ Ahead(T3(r)) = "engineJoined" /\ Tail(T3(r)) = T2(r)
           /\ Ahead(T4(r)) = "engine" /\ Tail(T4(r)) = T3(r)
           /\ Ahead(T5(r)) = "statsJoined" /\ Tail(T5(r)) = T4(r)
           /\ Ahead(T6(r)) = "stats" /\ Tail(T6(r)) = T5(r)
  <1>1. T1(r) \in Seq(Steps)  BY LineIs, StepNames DEF T1
  <1>2. T2(r) \in Seq(Steps)  BY <1>1, LineIs, StepNames DEF T2
  <1>3. T3(r) \in Seq(Steps)  BY <1>2, LineIs, StepNames DEF T3
  <1>4. T4(r) \in Seq(Steps)  BY <1>3, LineIs, StepNames DEF T4
  <1>5. T5(r) \in Seq(Steps)  BY <1>4, LineIs, StepNames DEF T5
  <1>6. T6(r) \in Seq(Steps)  BY <1>5, LineIs, StepNames DEF T6
  <1>7. T1(r) # <<>> /\ Ahead(T1(r)) = "transportStopped" /\ Tail(T1(r)) = r
    BY LineIs, StepNames DEF T1
  <1>8. T2(r) # <<>> /\ Ahead(T2(r)) = "transport" /\ Tail(T2(r)) = T1(r)
    BY <1>1, LineIs, StepNames DEF T2
  <1>9. T3(r) # <<>> /\ Ahead(T3(r)) = "engineJoined" /\ Tail(T3(r)) = T2(r)
    BY <1>2, LineIs, StepNames DEF T3
  <1>10. T4(r) # <<>> /\ Ahead(T4(r)) = "engine" /\ Tail(T4(r)) = T3(r)
    BY <1>3, LineIs, StepNames DEF T4
  <1>11. T5(r) # <<>> /\ Ahead(T5(r)) = "statsJoined" /\ Tail(T5(r)) = T4(r)
    BY <1>4, LineIs, StepNames DEF T5
  <1>12. T6(r) # <<>> /\ Ahead(T6(r)) = "stats" /\ Tail(T6(r)) = T5(r)
    BY <1>5, LineIs, StepNames DEF T6
  <1> QED
    BY <1>1, <1>2, <1>3, <1>4, <1>5, <1>6, <1>7, <1>8, <1>9, <1>10, <1>11, <1>12

LEMMA RxStages ==
    ASSUME NEW r \in Seq(Steps)
    PROVE  /\ {R1(r), R2(r), R3(r), R4(r), R5(r)} \subseteq Seq(Steps) \ {<< >>}
           /\ Ahead(R1(r)) = "rxRole" /\ Tail(R1(r)) = r
           /\ Ahead(R2(r)) = "rxStopped" /\ Tail(R2(r)) = R1(r)
           /\ Ahead(R3(r)) = "detach" /\ Tail(R3(r)) = R2(r)
           /\ Ahead(R4(r)) = "rxStatsJoined" /\ Tail(R4(r)) = R3(r)
           /\ Ahead(R5(r)) = "rxStats" /\ Tail(R5(r)) = R4(r)
  <1>1. R1(r) \in Seq(Steps)  BY LineIs, StepNames DEF R1
  <1>2. R2(r) \in Seq(Steps)  BY <1>1, LineIs, StepNames DEF R2
  <1>3. R3(r) \in Seq(Steps)  BY <1>2, LineIs, StepNames DEF R3
  <1>4. R4(r) \in Seq(Steps)  BY <1>3, LineIs, StepNames DEF R4
  <1>5. R5(r) \in Seq(Steps)  BY <1>4, LineIs, StepNames DEF R5
  <1>6. R1(r) # <<>> /\ Ahead(R1(r)) = "rxRole" /\ Tail(R1(r)) = r  BY LineIs, StepNames DEF R1
  <1>7. R2(r) # <<>> /\ Ahead(R2(r)) = "rxStopped" /\ Tail(R2(r)) = R1(r)
    BY <1>1, LineIs, StepNames DEF R2
  <1>8. R3(r) # <<>> /\ Ahead(R3(r)) = "detach" /\ Tail(R3(r)) = R2(r)
    BY <1>2, LineIs, StepNames DEF R3
  <1>9. R4(r) # <<>> /\ Ahead(R4(r)) = "rxStatsJoined" /\ Tail(R4(r)) = R3(r)
    BY <1>3, LineIs, StepNames DEF R4
  <1>10. R5(r) # <<>> /\ Ahead(R5(r)) = "rxStats" /\ Tail(R5(r)) = R4(r)
    BY <1>4, LineIs, StepNames DEF R5
  <1> QED  BY <1>1, <1>2, <1>3, <1>4, <1>5, <1>6, <1>7, <1>8, <1>9, <1>10

\* A whole stop of the sender has every one of its steps ahead, and keeps what follows.
LEMMA StopTransportIs ==
    /\ StopTransport = T6(<< >>) /\ StopTransport \in Seq(Steps) /\ StopTransport # <<>>
    /\ Ahead(StopTransport) = "stats"
    /\ \A s \in {"statsJoined", "engineJoined", "transportStopped"} : Will(StopTransport, s)
    /\ \A r \in Seq(Steps) : Then(StopTransport, r) = T6(r)
    /\ \A r \in Seq(Steps), s \in Steps : Will(r, s) => Will(T6(r), s)
  <1>1. StopTransport = T6(<< >>)
    <2>1. T1(<< >>) = <<"transportStopped">>
      <3>1. PICK u, t : /\ u = <<"transportStopped">>
                        /\ t = << >>  OBVIOUS
      <3>2. u \in Seq(Steps) /\ t \in Seq(Steps)  BY <3>1, StepNames
      <3>3. Begins(u, "transportStopped", t)  BY <3>1 DEF Begins
      <3>4. u = Line("transportStopped", t)  BY <3>2, <3>3, LineOf, StepNames
      <3> QED  BY <3>1, <3>4 DEF T1
    <2>2. T2(<< >>) = <<"transport", "transportStopped">>
      <3>1. PICK u, t : /\ u = <<"transport", "transportStopped">>
                        /\ t = <<"transportStopped">>  OBVIOUS
      <3>2. u \in Seq(Steps) /\ t \in Seq(Steps)  BY <3>1, StepNames
      <3>3. Begins(u, "transport", t)  BY <3>1 DEF Begins
      <3>4. u = Line("transport", t)  BY <3>2, <3>3, LineOf, StepNames
      <3> QED  BY <2>1, <3>1, <3>4 DEF T2
    <2>3. T3(<< >>) = <<"engineJoined", "transport", "transportStopped">>
      <3>1. PICK u, t : /\ u = <<"engineJoined", "transport", "transportStopped">>
                        /\ t = <<"transport", "transportStopped">>  OBVIOUS
      <3>2. u \in Seq(Steps) /\ t \in Seq(Steps)  BY <3>1, StepNames
      <3>3. Begins(u, "engineJoined", t)  BY <3>1 DEF Begins
      <3>4. u = Line("engineJoined", t)  BY <3>2, <3>3, LineOf, StepNames
      <3> QED  BY <2>2, <3>1, <3>4 DEF T3
    <2>4. T4(<< >>) = <<"engine", "engineJoined", "transport", "transportStopped">>
      <3>1. PICK u, t : /\ u = <<"engine", "engineJoined", "transport",
                               "transportStopped">>
                        /\ t = <<"engineJoined", "transport", "transportStopped">>  OBVIOUS
      <3>2. u \in Seq(Steps) /\ t \in Seq(Steps)  BY <3>1, StepNames
      <3>3. Begins(u, "engine", t)  BY <3>1 DEF Begins
      <3>4. u = Line("engine", t)  BY <3>2, <3>3, LineOf, StepNames
      <3> QED  BY <2>3, <3>1, <3>4 DEF T4
    <2>5. T5(<< >>) = <<"statsJoined", "engine", "engineJoined",
                      "transport", "transportStopped">>
      <3>1. PICK u, t : /\ u = <<"statsJoined", "engine", "engineJoined",
                               "transport", "transportStopped">>
                        /\ t = <<"engine", "engineJoined", "transport",
                               "transportStopped">>  OBVIOUS
      <3>2. u \in Seq(Steps) /\ t \in Seq(Steps)  BY <3>1, StepNames
      <3>3. Begins(u, "statsJoined", t)  BY <3>1 DEF Begins
      <3>4. u = Line("statsJoined", t)  BY <3>2, <3>3, LineOf, StepNames
      <3> QED  BY <2>4, <3>1, <3>4 DEF T5
    <2>6. T6(<< >>) = <<"stats", "statsJoined", "engine",
                      "engineJoined", "transport", "transportStopped">>
      <3>1. PICK u, t : /\ u = <<"stats", "statsJoined", "engine",
                               "engineJoined", "transport", "transportStopped">>
                        /\ t = <<"statsJoined", "engine", "engineJoined",
                               "transport", "transportStopped">>  OBVIOUS
      <3>2. u \in Seq(Steps) /\ t \in Seq(Steps)  BY <3>1, StepNames
      <3>3. Begins(u, "stats", t)  BY <3>1 DEF Begins
      <3>4. u = Line("stats", t)  BY <3>2, <3>3, LineOf, StepNames
      <3> QED  BY <2>5, <3>1, <3>4 DEF T6
    <2> QED  BY <2>6 DEF StopTransport
  <1>2. StopTransport \in Seq(Steps) /\ StopTransport # <<>>
    BY StepNames DEF StopTransport
  <1>3. Ahead(StopTransport) = "stats"  BY <1>2 DEF Ahead, StopTransport
  <1>4. ASSUME NEW s \in {"statsJoined", "engineJoined", "transportStopped"}
        PROVE  Will(StopTransport, s)
    <2>1. DOMAIN StopTransport = 1..6 /\ StopTransport[2] = "statsJoined"
          /\ StopTransport[4] = "engineJoined" /\ StopTransport[6] = "transportStopped"
      BY DEF StopTransport
    <2> QED  BY <2>1 DEF Will
  <1>5. ASSUME NEW r \in Seq(Steps) PROVE Then(StopTransport, r) = T6(r)
    <2>8. << >> \in Seq(Steps)  OBVIOUS
    <2>1. PICK e \in Seq(Steps) : e = << >>  BY <2>8, Zenon
    <2>0. Then(e, r) = r  BY <2>1, ConcatEmptySeq DEF Then
    <2>2. Then(T1(e), r) = T1(r)  BY <2>0, LineThen, StepNames DEF T1
    <2>3. Then(T2(e), r) = T2(r)  BY <2>2, LineThen, StepNames, TxStages DEF T2
    <2>4. Then(T3(e), r) = T3(r)  BY <2>3, LineThen, StepNames, TxStages DEF T3
    <2>5. Then(T4(e), r) = T4(r)  BY <2>4, LineThen, StepNames, TxStages DEF T4
    <2>6. Then(T5(e), r) = T5(r)  BY <2>5, LineThen, StepNames, TxStages DEF T5
    <2>7. Then(T6(e), r) = T6(r)  BY <2>6, LineThen, StepNames, TxStages DEF T6
    <2> QED  BY <2>1, <2>7, <1>1
  <1>6. ASSUME NEW r \in Seq(Steps), NEW s \in Steps, Will(r, s) PROVE Will(T6(r), s)
    <2>1. Will(T1(r), s)  BY <1>6, LineIs, StepNames DEF T1
    <2>2. Will(T2(r), s)  BY <2>1, LineIs, StepNames, TxStages DEF T2
    <2>3. Will(T3(r), s)  BY <2>2, LineIs, StepNames, TxStages DEF T3
    <2>4. Will(T4(r), s)  BY <2>3, LineIs, StepNames, TxStages DEF T4
    <2>5. Will(T5(r), s)  BY <2>4, LineIs, StepNames, TxStages DEF T5
    <2> QED  BY <2>5, LineIs, StepNames, TxStages DEF T6
  <1> QED  BY <1>1, <1>2, <1>3, <1>4, <1>5, <1>6

LEMMA StopReceptionIs ==
    /\ StopReception = R5(<< >>) /\ StopReception \in Seq(Steps) /\ StopReception # <<>>
    /\ Ahead(StopReception) = "rxStats"
    /\ \A s \in {"rxStatsJoined", "detach", "rxRole"} :
          Will(StopReception, s) /\ \A r \in Seq(Steps) : Will(R5(r), s)
    /\ \A r \in Seq(Steps) : Then(StopReception, r) = R5(r)
    /\ \A r \in Seq(Steps), s \in Steps : Will(r, s) => Will(R5(r), s)
  <1>1. StopReception = R5(<< >>)
    <2>1. R1(<< >>) = <<"rxRole">>
      <3>1. PICK u, t : /\ u = <<"rxRole">>
                        /\ t = << >>  OBVIOUS
      <3>2. u \in Seq(Steps) /\ t \in Seq(Steps)  BY <3>1, StepNames
      <3>3. Begins(u, "rxRole", t)  BY <3>1 DEF Begins
      <3>4. u = Line("rxRole", t)  BY <3>2, <3>3, LineOf, StepNames
      <3> QED  BY <3>1, <3>4 DEF R1
    <2>2. R2(<< >>) = <<"rxStopped", "rxRole">>
      <3>1. PICK u, t : /\ u = <<"rxStopped", "rxRole">>
                        /\ t = <<"rxRole">>  OBVIOUS
      <3>2. u \in Seq(Steps) /\ t \in Seq(Steps)  BY <3>1, StepNames
      <3>3. Begins(u, "rxStopped", t)  BY <3>1 DEF Begins
      <3>4. u = Line("rxStopped", t)  BY <3>2, <3>3, LineOf, StepNames
      <3> QED  BY <2>1, <3>1, <3>4 DEF R2
    <2>3. R3(<< >>) = <<"detach", "rxStopped", "rxRole">>
      <3>1. PICK u, t : /\ u = <<"detach", "rxStopped", "rxRole">>
                        /\ t = <<"rxStopped", "rxRole">>  OBVIOUS
      <3>2. u \in Seq(Steps) /\ t \in Seq(Steps)  BY <3>1, StepNames
      <3>3. Begins(u, "detach", t)  BY <3>1 DEF Begins
      <3>4. u = Line("detach", t)  BY <3>2, <3>3, LineOf, StepNames
      <3> QED  BY <2>2, <3>1, <3>4 DEF R3
    <2>4. R4(<< >>) = <<"rxStatsJoined", "detach", "rxStopped", "rxRole">>
      <3>1. PICK u, t : /\ u = <<"rxStatsJoined", "detach", "rxStopped", "rxRole">>
                        /\ t = <<"detach", "rxStopped", "rxRole">>  OBVIOUS
      <3>2. u \in Seq(Steps) /\ t \in Seq(Steps)  BY <3>1, StepNames
      <3>3. Begins(u, "rxStatsJoined", t)  BY <3>1 DEF Begins
      <3>4. u = Line("rxStatsJoined", t)  BY <3>2, <3>3, LineOf, StepNames
      <3> QED  BY <2>3, <3>1, <3>4 DEF R4
    <2>5. R5(<< >>) = <<"rxStats", "rxStatsJoined", "detach", "rxStopped", "rxRole">>
      <3>1. PICK u, t : /\ u = <<"rxStats", "rxStatsJoined", "detach",
                               "rxStopped", "rxRole">>
                        /\ t = <<"rxStatsJoined", "detach", "rxStopped", "rxRole">>  OBVIOUS
      <3>2. u \in Seq(Steps) /\ t \in Seq(Steps)  BY <3>1, StepNames
      <3>3. Begins(u, "rxStats", t)  BY <3>1 DEF Begins
      <3>4. u = Line("rxStats", t)  BY <3>2, <3>3, LineOf, StepNames
      <3> QED  BY <2>4, <3>1, <3>4 DEF R5
    <2> QED  BY <2>5 DEF StopReception
  <1>2. StopReception \in Seq(Steps) /\ StopReception # <<>>
    BY StepNames DEF StopReception
  <1>3. Ahead(StopReception) = "rxStats"  BY <1>2 DEF Ahead, StopReception
  <1>4. ASSUME NEW r \in Seq(Steps), NEW s \in {"rxStatsJoined", "detach", "rxRole"}
        PROVE  Will(R5(r), s)
    <2>1. s = "rxRole" => Will(R1(r), s)  BY LineIs, StepNames DEF R1
    <2>2. s = "rxRole" => Will(R2(r), s)  BY <2>1, LineIs, StepNames, RxStages DEF R2
    <2>3. s # "rxStatsJoined" => Will(R3(r), s)
      BY <2>2, LineIs, StepNames, RxStages, SMTT(30) DEF R3
    <2>4. Will(R4(r), s)  BY <2>3, LineIs, StepNames, RxStages, SMTT(30) DEF R4
    <2> QED  BY <2>4, LineIs, StepNames, RxStages DEF R5
  <1>5. ASSUME NEW r \in Seq(Steps) PROVE Then(StopReception, r) = R5(r)
    <2>8. << >> \in Seq(Steps)  OBVIOUS
    <2>1. PICK e \in Seq(Steps) : e = << >>  BY <2>8, Zenon
    <2>0. Then(e, r) = r  BY <2>1, ConcatEmptySeq DEF Then
    <2>2. Then(R1(e), r) = R1(r)  BY <2>0, LineThen, StepNames DEF R1
    <2>3. Then(R2(e), r) = R2(r)  BY <2>2, LineThen, StepNames, RxStages DEF R2
    <2>4. Then(R3(e), r) = R3(r)  BY <2>3, LineThen, StepNames, RxStages DEF R3
    <2>5. Then(R4(e), r) = R4(r)  BY <2>4, LineThen, StepNames, RxStages DEF R4
    <2>6. Then(R5(e), r) = R5(r)  BY <2>5, LineThen, StepNames, RxStages DEF R5
    <2> QED  BY <2>1, <2>6, <1>1
  <1>6. ASSUME NEW r \in Seq(Steps), NEW s \in Steps, Will(r, s) PROVE Will(R5(r), s)
    <2>1. Will(R1(r), s)  BY <1>6, LineIs, StepNames DEF R1
    <2>2. Will(R2(r), s)  BY <2>1, LineIs, StepNames, RxStages DEF R2
    <2>3. Will(R3(r), s)  BY <2>2, LineIs, StepNames, RxStages DEF R3
    <2>4. Will(R4(r), s)  BY <2>3, LineIs, StepNames, RxStages DEF R4
    <2> QED  BY <2>4, LineIs, StepNames, RxStages DEF R5
  <1>7. ASSUME NEW s \in {"rxStatsJoined", "detach", "rxRole"} PROVE Will(StopReception, s)
    <2>1. << >> \in Seq(Steps)  OBVIOUS
    <2>2. Will(R5(<< >>), s)  BY <2>1, <1>4, Zenon
    <2> QED  BY <2>2, <1>1
  <1> QED  BY <1>1, <1>2, <1>3, <1>4, <1>5, <1>6, <1>7

\* The marks a stop leaves in a program: the steps that clear a field.
Marks == {"statsJoined", "engineJoined", "transportStopped",
          "rxStatsJoined", "detach", "rxRole"}

LEMMA StopEverythingIs ==
    /\ StopEverything = R5(T6(<< >>)) /\ StopEverything # <<>>
    /\ Ahead(StopEverything) = "rxStats"
    /\ \A s \in Marks : Will(StopEverything, s)
  <1>1. StopEverything = R5(T6(<< >>))
    <2>1. StopEverything = Then(StopReception, StopTransport)
      BY DEF StopEverything, Then
    <2> QED  BY <2>1, StopTransportIs, StopReceptionIs
  <1>2. StopEverything # <<>> /\ Ahead(StopEverything) = "rxStats"
    BY <1>1, StopTransportIs, RxStages
  <1>3. ASSUME NEW s \in Marks PROVE Will(StopEverything, s)
    <2>1. CASE s \in {"rxStatsJoined", "detach", "rxRole"}
      BY <2>1, <1>1, StopTransportIs, StopReceptionIs
    <2>2. CASE s \in {"statsJoined", "engineJoined", "transportStopped"}
      BY <2>2, <1>1, StopTransportIs, StopReceptionIs, StepNames
    <2> QED  BY <2>1, <2>2 DEF Marks
  <1> QED  BY <1>1, <1>2, <1>3

\* The plain programs, from their last step backwards.
LEMMA PlainIs ==
    /\ {Sent, Built, Transmit, Changed, Apply, Opened, Receive} \subseteq Seq(Steps)
    /\ Sent = <<"sending">> /\ Changed = <<"applied">> /\ Opened = <<"listening">>
    /\ Built = <<"bound", "sending">>
    /\ Transmit = <<"buildTx", "bound", "sending">>
    /\ Apply = <<"buildTx", "applied">> /\ Receive = <<"buildRx", "listening">>
  <1>1. Sent = <<"sending">> /\ Sent \in Seq(Steps)
    <2>1. PICK u, t : u = <<"sending">> /\ t = << >>  OBVIOUS
    <2>2. u \in Seq(Steps) /\ t \in Seq(Steps)  BY <2>1, StepNames
    <2>3. Begins(u, "sending", t)  BY <2>1 DEF Begins
    <2>4. u = Line("sending", t)  BY <2>2, <2>3, LineOf, StepNames
    <2> QED  BY <2>1, <2>2, <2>4 DEF Sent
  <1>2. Built = <<"bound", "sending">> /\ Built \in Seq(Steps)
    <2>1. PICK u, t : u = <<"bound", "sending">> /\ t = <<"sending">>  OBVIOUS
    <2>2. u \in Seq(Steps) /\ t \in Seq(Steps)  BY <2>1, StepNames
    <2>3. Begins(u, "bound", t)  BY <2>1 DEF Begins
    <2>4. u = Line("bound", t)  BY <2>2, <2>3, LineOf, StepNames
    <2> QED  BY <1>1, <2>1, <2>2, <2>4 DEF Built
  <1>3. Transmit = <<"buildTx", "bound", "sending">> /\ Transmit \in Seq(Steps)
    <2>1. PICK u, t : u = <<"buildTx", "bound", "sending">> /\ t = <<"bound", "sending">>  OBVIOUS
    <2>2. u \in Seq(Steps) /\ t \in Seq(Steps)  BY <2>1, StepNames
    <2>3. Begins(u, "buildTx", t)  BY <2>1 DEF Begins
    <2>4. u = Line("buildTx", t)  BY <2>2, <2>3, LineOf, StepNames
    <2> QED  BY <1>2, <2>1, <2>2, <2>4 DEF Transmit
  <1>4. Changed = <<"applied">> /\ Changed \in Seq(Steps)
    <2>1. PICK u, t : u = <<"applied">> /\ t = << >>  OBVIOUS
    <2>2. u \in Seq(Steps) /\ t \in Seq(Steps)  BY <2>1, StepNames
    <2>3. Begins(u, "applied", t)  BY <2>1 DEF Begins
    <2>4. u = Line("applied", t)  BY <2>2, <2>3, LineOf, StepNames
    <2> QED  BY <2>1, <2>2, <2>4 DEF Changed
  <1>5. Apply = <<"buildTx", "applied">> /\ Apply \in Seq(Steps)
    <2>1. PICK u, t : u = <<"buildTx", "applied">> /\ t = <<"applied">>  OBVIOUS
    <2>2. u \in Seq(Steps) /\ t \in Seq(Steps)  BY <2>1, StepNames
    <2>3. Begins(u, "buildTx", t)  BY <2>1 DEF Begins
    <2>4. u = Line("buildTx", t)  BY <2>2, <2>3, LineOf, StepNames
    <2> QED  BY <1>4, <2>1, <2>2, <2>4 DEF Apply
  <1>6. Opened = <<"listening">> /\ Opened \in Seq(Steps)
    <2>1. PICK u, t : u = <<"listening">> /\ t = << >>  OBVIOUS
    <2>2. u \in Seq(Steps) /\ t \in Seq(Steps)  BY <2>1, StepNames
    <2>3. Begins(u, "listening", t)  BY <2>1 DEF Begins
    <2>4. u = Line("listening", t)  BY <2>2, <2>3, LineOf, StepNames
    <2> QED  BY <2>1, <2>2, <2>4 DEF Opened
  <1>7. Receive = <<"buildRx", "listening">> /\ Receive \in Seq(Steps)
    <2>1. PICK u, t : u = <<"buildRx", "listening">> /\ t = <<"listening">>  OBVIOUS
    <2>2. u \in Seq(Steps) /\ t \in Seq(Steps)  BY <2>1, StepNames
    <2>3. Begins(u, "buildRx", t)  BY <2>1 DEF Begins
    <2>4. u = Line("buildRx", t)  BY <2>2, <2>3, LineOf, StepNames
    <2> QED  BY <1>6, <2>1, <2>2, <2>4 DEF Receive
  <1> QED  BY <1>1, <1>2, <1>3, <1>4, <1>5, <1>6, <1>7

\* The start of a transmission and of a reception, with what clears the way for them.
LEMMA ClearLines ==
    /\ Line("clear", Transmit) \in Seq(Steps)
    /\ Line("clearRx", Receive) \in Seq(Steps)
  <1>1. Transmit \in Seq(Steps) /\ Receive \in Seq(Steps)  BY PlainIs, Zenon
  <1>2. "clear" \in Steps /\ "clearRx" \in Steps  BY StepNames, Zenon
  <1> QED  BY <1>1, <1>2, LineIs, Zenon

LEMMA BodyIs ==
    /\ Body("transmit") = Line("load", Line("clear", Transmit))
    /\ Body("apply") = Line("clear", Apply)
    /\ Body("receive") = Line("clearTx", Line("clearRx", Receive))
  <1>1. Line("clear", Transmit) = <<"clear", "buildTx", "bound", "sending">>
    <2>1. PICK u, t : /\ u = <<"clear", "buildTx", "bound", "sending">>
                      /\ t = <<"buildTx", "bound", "sending">>  OBVIOUS
    <2>2. u \in Seq(Steps) /\ t \in Seq(Steps)  BY <2>1, StepNames
    <2>3. Begins(u, "clear", t)  BY <2>1 DEF Begins
    <2>4. u = Line("clear", t)  BY <2>2, <2>3, LineOf, StepNames
    <2> QED  BY PlainIs, <2>1, <2>4 
  <1>2. Body("transmit") = Line("load", Line("clear", Transmit))
    <2>1. PICK u, t : /\ u = <<"load", "clear", "buildTx", "bound", "sending">>
                      /\ t = <<"clear", "buildTx", "bound", "sending">>  OBVIOUS
    <2>2. u \in Seq(Steps) /\ t \in Seq(Steps)  BY <2>1, StepNames
    <2>3. Begins(u, "load", t)  BY <2>1 DEF Begins
    <2>4. u = Line("load", t)  BY <2>2, <2>3, LineOf, StepNames
    <2> QED  BY <1>1, <2>1, <2>4 DEF Body
  <1>3. Body("apply") = Line("clear", Apply)
    <2>1. PICK u, t : /\ u = <<"clear", "buildTx", "applied">>
                      /\ t = <<"buildTx", "applied">>  OBVIOUS
    <2>2. u \in Seq(Steps) /\ t \in Seq(Steps)  BY <2>1, StepNames
    <2>3. Begins(u, "clear", t)  BY <2>1 DEF Begins
    <2>4. u = Line("clear", t)  BY <2>2, <2>3, LineOf, StepNames
    <2> QED  BY PlainIs, <2>1, <2>4 DEF Body
  <1>4. Line("clearRx", Receive) = <<"clearRx", "buildRx", "listening">>
    <2>1. PICK u, t : /\ u = <<"clearRx", "buildRx", "listening">>
                      /\ t = <<"buildRx", "listening">>  OBVIOUS
    <2>2. u \in Seq(Steps) /\ t \in Seq(Steps)  BY <2>1, StepNames
    <2>3. Begins(u, "clearRx", t)  BY <2>1 DEF Begins
    <2>4. u = Line("clearRx", t)  BY <2>2, <2>3, LineOf, StepNames
    <2> QED  BY PlainIs, <2>1, <2>4 
  <1>5. Body("receive") = Line("clearTx", Line("clearRx", Receive))
    <2>1. PICK u, t : /\ u = <<"clearTx", "clearRx", "buildRx", "listening">>
                      /\ t = <<"clearRx", "buildRx", "listening">>  OBVIOUS
    <2>2. u \in Seq(Steps) /\ t \in Seq(Steps)  BY <2>1, StepNames
    <2>3. Begins(u, "clearTx", t)  BY <2>1 DEF Begins
    <2>4. u = Line("clearTx", t)  BY <2>2, <2>3, LineOf, StepNames
    <2> QED  BY <1>4, <2>1, <2>4 DEF Body
  <1> QED  BY <1>2, <1>3, <1>5

LEMMA PlainStages ==
    /\ Ahead(Sent) = "sending" /\ Tail(Sent) = << >>
    /\ Ahead(Built) = "bound" /\ Tail(Built) = Sent
    /\ Ahead(Transmit) = "buildTx" /\ Tail(Transmit) = Built
    /\ Ahead(Changed) = "applied" /\ Tail(Changed) = << >>
    /\ Ahead(Apply) = "buildTx" /\ Tail(Apply) = Changed
    /\ Ahead(Opened) = "listening" /\ Tail(Opened) = << >>
    /\ Ahead(Receive) = "buildRx" /\ Tail(Receive) = Opened
  <1>1. Ahead(Sent) = "sending" /\ Tail(Sent) = << >>
    <2>1. << >> \in Seq(Steps)  OBVIOUS
    <2>2. PICK e \in Seq(Steps) : e = << >>  BY <2>1, Zenon
    <2>3. Sent = Line("sending", e)  BY <2>2 DEF Sent
    <2>4. Ahead(Sent) = "sending" /\ Tail(Sent) = e  BY <2>3, LineIs, StepNames
    <2> QED  BY <2>2, <2>4
  <1>2. Ahead(Built) = "bound" /\ Tail(Built) = Sent
    BY LineIs, StepNames, PlainIs DEF Built
  <1>3. Ahead(Transmit) = "buildTx" /\ Tail(Transmit) = Built
    BY LineIs, StepNames, PlainIs DEF Transmit
  <1>4. Ahead(Changed) = "applied" /\ Tail(Changed) = << >>
    <2>1. << >> \in Seq(Steps)  OBVIOUS
    <2>2. PICK e \in Seq(Steps) : e = << >>  BY <2>1, Zenon
    <2>3. Changed = Line("applied", e)  BY <2>2 DEF Changed
    <2>4. Ahead(Changed) = "applied" /\ Tail(Changed) = e  BY <2>3, LineIs, StepNames
    <2> QED  BY <2>2, <2>4
  <1>5. Ahead(Apply) = "buildTx" /\ Tail(Apply) = Changed
    BY LineIs, StepNames, PlainIs DEF Apply
  <1>6. Ahead(Opened) = "listening" /\ Tail(Opened) = << >>
    <2>1. << >> \in Seq(Steps)  OBVIOUS
    <2>2. PICK e \in Seq(Steps) : e = << >>  BY <2>1, Zenon
    <2>3. Opened = Line("listening", e)  BY <2>2 DEF Opened
    <2>4. Ahead(Opened) = "listening" /\ Tail(Opened) = e  BY <2>3, LineIs, StepNames
    <2> QED  BY <2>2, <2>4
  <1>7. Ahead(Receive) = "buildRx" /\ Tail(Receive) = Opened
    BY LineIs, StepNames, PlainIs DEF Receive
  <1> QED  BY <1>1, <1>2, <1>3, <1>4, <1>5, <1>6, <1>7

\* What follows a stop is a program of the same command.
LEMMA AfterIs ==
    ASSUME NEW c \in {"none"} \cup Starts \cup Stops
    PROVE  /\ \A r \in AfterTx(c) :
                 /\ r \in Seq(Steps) /\ Shaped(r, c)
                 /\ Ahead(r) \in {"end", "buildTx", "clearRx"}
           /\ \A r \in AfterRx(c) :
                 /\ r \in Seq(Steps) /\ Shaped(r, c)
                 /\ Ahead(r) \in {"end", "buildRx", "stats"} /\ c \notin {"transmit", "apply"}
  <1>1. << >> \in Seq(Steps) /\ Shaped(<< >>, c) /\ Ahead(<< >>) = "end"
    BY NothingAhead DEF Shaped
  <1>2. Line("clearRx", Receive) \in Seq(Steps) /\ Ahead(Line("clearRx", Receive)) = "clearRx"
    BY PlainIs, LineIs, StepNames
  <1>3. T6(<< >>) \in Seq(Steps) /\ Ahead(T6(<< >>)) = "stats"  BY StopTransportIs
  <1>4. c = "transmit" => Shaped(Transmit, c)  BY DEF Shaped, Plain
  <1>5. c = "apply" => Shaped(Apply, c)  BY DEF Shaped, Plain
  <1>6. c = "receive" => Shaped(Receive, c) /\ Shaped(Line("clearRx", Receive), c)
    BY DEF Shaped, Plain
  <1>7. c \in Stops => Shaped(T6(<< >>), c)
    <2>1. c \in Stops => << >> \in AfterTx(c)  BY DEF AfterTx, Stops
    <2> QED  BY <2>1 DEF Shaped
  <1>8. ASSUME NEW r \in AfterTx(c)
        PROVE  /\ r \in Seq(Steps) /\ Shaped(r, c)
               /\ Ahead(r) \in {"end", "buildTx", "clearRx"}
    <2>1. \/ r = << >>
          \/ c = "transmit" /\ r = Transmit
          \/ c = "apply" /\ r = Apply
          \/ c = "receive" /\ r = Line("clearRx", Receive)
      BY DEF AfterTx, Starts, Stops
    <2>2. CASE r = << >>
      <3>1. r \in Seq(Steps) /\ Shaped(r, c) /\ Ahead(r) = "end"  BY <2>2, <1>1, Zenon
      <3> QED  BY <3>1
    <2>3. CASE c = "transmit" /\ r = Transmit  BY <2>3, <1>4, PlainIs, PlainStages
    <2>4. CASE c = "apply" /\ r = Apply  BY <2>4, <1>5, PlainIs, PlainStages
    <2>5. CASE c = "receive" /\ r = Line("clearRx", Receive)  BY <2>5, <1>2, <1>6
    <2> QED  BY <2>1, <2>2, <2>3, <2>4, <2>5
  <1>9. ASSUME NEW r \in AfterRx(c)
        PROVE  /\ r \in Seq(Steps) /\ Shaped(r, c)
               /\ Ahead(r) \in {"end", "buildRx", "stats"} /\ c \notin {"transmit", "apply"}
    <2>1. c \notin {"transmit", "apply"}  BY DEF AfterRx, Starts, Stops
    <2>2. \/ r = << >>
          \/ c = "receive" /\ r = Receive
          \/ c \in Stops /\ r = T6(<< >>)
      BY DEF AfterRx, Starts, Stops
    <2>3. CASE r = << >>
      <3>1. r \in Seq(Steps) /\ Shaped(r, c) /\ Ahead(r) = "end"  BY <2>3, <1>1, Zenon
      <3> QED  BY <3>1, <2>1
    <2>4. CASE c = "receive" /\ r = Receive  BY <2>4, <1>6, PlainIs, PlainStages
    <2>5. CASE c \in Stops /\ r = T6(<< >>)  BY <2>1, <2>5, <1>3, <1>7
    <2> QED  BY <2>2, <2>3, <2>4, <2>5
  <1> QED  BY <1>8, <1>9

\* The plain programs by their next step.
PlainAt(t, c) ==
    /\ t \in Seq(Steps) /\ t # <<>>
    /\ Ahead(t) \in {"load", "clear", "buildTx", "bound", "sending", "applied",
                     "clearTx", "clearRx", "buildRx", "listening"}
    /\ Ahead(t) = "load" => c = "transmit" /\ t = Line("load", Line("clear", Transmit))
    /\ Ahead(t) = "clear" =>
          \/ c = "transmit" /\ t = Line("clear", Transmit)
          \/ c = "apply" /\ t = Line("clear", Apply)
    /\ Ahead(t) = "buildTx" =>
          \/ c = "transmit" /\ t = Transmit
          \/ c = "apply" /\ t = Apply
    /\ Ahead(t) = "bound" => c = "transmit" /\ t = Built
    /\ Ahead(t) = "sending" => c = "transmit" /\ t = Sent
    /\ Ahead(t) = "applied" => c = "apply" /\ t = Changed
    /\ Ahead(t) = "clearTx" =>
          c = "receive" /\ t = Line("clearTx", Line("clearRx", Receive))
    /\ Ahead(t) = "clearRx" => c = "receive" /\ t = Line("clearRx", Receive)
    /\ Ahead(t) = "buildRx" => c = "receive" /\ t = Receive
    /\ Ahead(t) = "listening" => c = "receive" /\ t = Opened

LEMMA PlainShape ==
    ASSUME NEW c \in {"none"} \cup Starts \cup Stops, NEW t \in Plain(c)
    PROVE  PlainAt(t, c)
  <1>1. \/ /\ c = "transmit"
           /\ \/ t = Line("load", Line("clear", Transmit)) \/ t = Line("clear", Transmit)
              \/ t = Transmit \/ t = Built \/ t = Sent
        \/ /\ c = "apply"
           /\ t = Line("clear", Apply) \/ t = Apply \/ t = Changed
        \/ /\ c = "receive"
           /\ \/ t = Line("clearTx", Line("clearRx", Receive))
              \/ t = Line("clearRx", Receive) \/ t = Receive \/ t = Opened
    BY DEF Plain, Starts, Stops
  <1>2. Line("clear", Transmit) \in Seq(Steps) /\ Line("clearRx", Receive) \in Seq(Steps)
    BY ClearLines
  <1>3. CASE c = "transmit" /\ t = Line("load", Line("clear", Transmit))
    <2>1. t \in Seq(Steps) /\ t # <<>> /\ Ahead(t) = "load"
      BY <1>3, <1>2, PlainIs, LineIs, StepNames
    <2> QED  BY <2>1, <1>3 DEF PlainAt
  <1>4. CASE c = "transmit" /\ t = Line("clear", Transmit)
    <2>1. t \in Seq(Steps) /\ t # <<>> /\ Ahead(t) = "clear"
      <3>1. t = Line("clear", Transmit) /\ Transmit \in Seq(Steps)  BY <1>4, PlainIs
      <3> QED  BY <3>1, LineIs, StepNames
    <2> QED  BY <2>1, <1>4 DEF PlainAt
  <1>5. CASE c = "transmit" /\ t = Transmit
    <2>1. t \in Seq(Steps) /\ t # <<>> /\ Ahead(t) = "buildTx"
      BY <1>5, PlainIs, PlainStages
    <2> QED  BY <2>1, <1>5 DEF PlainAt
  <1>6. CASE c = "transmit" /\ t = Built
    <2>1. t \in Seq(Steps) /\ t # <<>> /\ Ahead(t) = "bound"
      BY <1>6, PlainIs, PlainStages
    <2> QED  BY <2>1, <1>6 DEF PlainAt
  <1>7. CASE c = "transmit" /\ t = Sent
    <2>1. t \in Seq(Steps) /\ t # <<>> /\ Ahead(t) = "sending"
      BY <1>7, PlainIs, PlainStages
    <2> QED  BY <2>1, <1>7 DEF PlainAt
  <1>8. CASE c = "apply" /\ t = Line("clear", Apply)
    <2>1. t \in Seq(Steps) /\ t # <<>> /\ Ahead(t) = "clear"
      BY <1>8, <1>2, PlainIs, LineIs, StepNames
    <2> QED  BY <2>1, <1>8 DEF PlainAt
  <1>9. CASE c = "apply" /\ t = Apply
    <2>1. t \in Seq(Steps) /\ t # <<>> /\ Ahead(t) = "buildTx"
      BY <1>9, PlainIs, PlainStages
    <2> QED  BY <2>1, <1>9 DEF PlainAt
  <1>10. CASE c = "apply" /\ t = Changed
    <2>1. t \in Seq(Steps) /\ t # <<>> /\ Ahead(t) = "applied"
      BY <1>10, PlainIs, PlainStages
    <2> QED  BY <2>1, <1>10 DEF PlainAt
  <1>11. CASE c = "receive" /\ t = Line("clearTx", Line("clearRx", Receive))
    <2>1. t \in Seq(Steps) /\ t # <<>> /\ Ahead(t) = "clearTx"
      BY <1>11, <1>2, PlainIs, LineIs, StepNames
    <2> QED  BY <2>1, <1>11 DEF PlainAt
  <1>12. CASE c = "receive" /\ t = Line("clearRx", Receive)
    <2>1. t \in Seq(Steps) /\ t # <<>> /\ Ahead(t) = "clearRx"
      BY <1>12, <1>2, PlainIs, LineIs, StepNames
    <2> QED  BY <2>1, <1>12 DEF PlainAt
  <1>13. CASE c = "receive" /\ t = Receive
    <2>1. t \in Seq(Steps) /\ t # <<>> /\ Ahead(t) = "buildRx"
      BY <1>13, PlainIs, PlainStages
    <2> QED  BY <2>1, <1>13 DEF PlainAt
  <1>14. CASE c = "receive" /\ t = Opened
    <2>1. t \in Seq(Steps) /\ t # <<>> /\ Ahead(t) = "listening"
      BY <1>14, PlainIs, PlainStages
    <2> QED  BY <2>1, <1>14 DEF PlainAt
  <1> QED  BY <1>1, <1>3, <1>4, <1>5, <1>6, <1>7, <1>8, <1>9, <1>10, <1>11, <1>12, <1>13, <1>14

\* The programs within a stop by their next step.
StageAt(t, c) ==
    /\ t \in Seq(Steps) /\ t # <<>>
    /\ Ahead(t) \in {"stats", "statsJoined", "engine", "engineJoined",
                     "transport", "transportStopped",
                     "rxStats", "rxStatsJoined", "detach", "rxStopped", "rxRole"}
    /\ Ahead(t) = "stats" => \E r \in AfterTx(c) : t = T6(r)
    /\ Ahead(t) = "statsJoined" => \E r \in AfterTx(c) : t = T5(r)
    /\ Ahead(t) = "engine" => \E r \in AfterTx(c) : t = T4(r)
    /\ Ahead(t) = "engineJoined" => \E r \in AfterTx(c) : t = T3(r)
    /\ Ahead(t) = "transport" => \E r \in AfterTx(c) : t = T2(r)
    /\ Ahead(t) = "transportStopped" => \E r \in AfterTx(c) : t = T1(r)
    /\ Ahead(t) = "rxStats" => \E r \in AfterRx(c) : t = R5(r)
    /\ Ahead(t) = "rxStatsJoined" => \E r \in AfterRx(c) : t = R4(r)
    /\ Ahead(t) = "detach" => \E r \in AfterRx(c) : t = R3(r)
    /\ Ahead(t) = "rxStopped" => \E r \in AfterRx(c) : t = R2(r)
    /\ Ahead(t) = "rxRole" => \E r \in AfterRx(c) : t = R1(r)

LEMMA StageShape ==
    ASSUME NEW c \in {"none"} \cup Starts \cup Stops, NEW t,
           \/ \E r \in AfterTx(c) : t \in {T1(r), T2(r), T3(r), T4(r), T5(r), T6(r)}
           \/ \E r \in AfterRx(c) : t \in {R1(r), R2(r), R3(r), R4(r), R5(r)}
    PROVE  StageAt(t, c)
  <1>1. CASE \E r \in AfterTx(c) : t \in {T1(r), T2(r), T3(r), T4(r), T5(r), T6(r)}
    <2>1. PICK r \in AfterTx(c) : t \in {T1(r), T2(r), T3(r), T4(r), T5(r), T6(r)}
      BY <1>1
    <2>2. r \in Seq(Steps)  BY AfterIs
    <2>3. t \in Seq(Steps) /\ t # <<>>  BY <2>1, <2>2, TxStages
    <2>4. CASE t = T1(r)  BY <2>2, <2>3, <2>4, TxStages DEF StageAt
    <2>5. CASE t = T2(r)  BY <2>2, <2>3, <2>5, TxStages DEF StageAt
    <2>6. CASE t = T3(r)  BY <2>2, <2>3, <2>6, TxStages DEF StageAt
    <2>7. CASE t = T4(r)  BY <2>2, <2>3, <2>7, TxStages DEF StageAt
    <2>8. CASE t = T5(r)  BY <2>2, <2>3, <2>8, TxStages DEF StageAt
    <2>9. CASE t = T6(r)  BY <2>2, <2>3, <2>9, TxStages DEF StageAt
    <2> QED  BY <2>1, <2>4, <2>5, <2>6, <2>7, <2>8, <2>9
  <1>2. CASE \E r \in AfterRx(c) : t \in {R1(r), R2(r), R3(r), R4(r), R5(r)}
    <2>1. PICK r \in AfterRx(c) : t \in {R1(r), R2(r), R3(r), R4(r), R5(r)}
      BY <1>2
    <2>2. r \in Seq(Steps)  BY AfterIs
    <2>3. t \in Seq(Steps) /\ t # <<>>  BY <2>1, <2>2, RxStages
    <2>4. CASE t = R1(r)  BY <2>2, <2>3, <2>4, RxStages DEF StageAt
    <2>5. CASE t = R2(r)  BY <2>2, <2>3, <2>5, RxStages DEF StageAt
    <2>6. CASE t = R3(r)  BY <2>2, <2>3, <2>6, RxStages DEF StageAt
    <2>7. CASE t = R4(r)  BY <2>2, <2>3, <2>7, RxStages DEF StageAt
    <2>8. CASE t = R5(r)  BY <2>2, <2>3, <2>8, RxStages DEF StageAt
    <2> QED  BY <2>1, <2>4, <2>5, <2>6, <2>7, <2>8
  <1> QED  BY <1>1, <1>2

LEMMA ShapeIs ==
    ASSUME NEW c \in {"none"} \cup Starts \cup Stops, NEW t, Shaped(t, c), t # <<>>
    PROVE  PlainAt(t, c) \/ StageAt(t, c)
  BY PlainShape, StageShape DEF Shaped

-----------------------------------------------------------------------------
(* Where a step leads                                                      *)

\* The program t may follow that of j: its next step, and the marks that are lost.
Leads(j, t, next, done) ==
    /\ Shaped(t, last) /\ Ahead(t) \in next
    /\ \A s \in Marks \ done : Will(todo[j], s) => Will(t, s)

LEMMA ShapeKnown ==
    ASSUME ProgramInv, NEW j \in Jobs, todo[j] # <<>>
    PROVE  /\ PlainAt(todo[j], last) \/ StageAt(todo[j], last)
           /\ todo[j] \in Seq(Steps) /\ Ahead(todo[j]) = Head(todo[j])
  <1>1. last \in {"none"} \cup Starts \cup Stops /\ Shaped(todo[j], last)
    BY DEF ProgramInv
  <1>0. PICK t : t = todo[j]  OBVIOUS
  <1>2. PICK c \in {"none"} \cup Starts \cup Stops : c = last /\ t = todo[j]
    BY <1>1, <1>0
  <1>3. PlainAt(t, c) \/ StageAt(t, c)  BY <1>1, <1>2, ShapeIs
  <1>4. t \in Seq(Steps) /\ t # <<>>  BY <1>3 DEF PlainAt, StageAt
  <1> QED  BY <1>2, <1>3, <1>4 DEF Ahead

LEMMA TxLeads ==
    ASSUME ProgramInv, NEW j \in Jobs, NEW s \in Steps, At(j, s)
    PROVE  /\ s = "stats" =>
                 /\ Leads(j, Rest(j), {"statsJoined"}, {})
                 /\ Leads(j, Tail(Rest(j)), {"engine"}, {"statsJoined"})
           /\ s = "statsJoined" =>
                 Leads(j, Rest(j), {"engine"}, {"statsJoined"})
           /\ s = "engine" =>
                 /\ Leads(j, Rest(j), {"engineJoined"}, {})
                 /\ Leads(j, Tail(Rest(j)), {"transport"}, {"engineJoined"})
           /\ s = "engineJoined" =>
                 Leads(j, Rest(j), {"transport"}, {"engineJoined"})
           /\ s = "transport" =>
                 /\ Leads(j, Rest(j), {"transportStopped"}, {})
                 /\ Leads(j, Tail(Rest(j)), {"end", "buildTx", "clearRx"}, {"transportStopped"})
           /\ s = "transportStopped" =>
                 Leads(j, Rest(j), {"end", "buildTx", "clearRx"}, {"transportStopped"})
  <1>0. PICK t : t = todo[j]  OBVIOUS
  <1>1. PICK c \in {"none"} \cup Starts \cup Stops : c = last /\ t = todo[j]
    BY <1>0 DEF ProgramInv
  <1>2. /\ t # <<>> /\ t \in Seq(Steps) /\ Ahead(t) = s /\ Head(t) = s
        /\ PlainAt(t, c) \/ StageAt(t, c)
    BY <1>1, ShapeKnown DEF At
  <1>3. \A m : Will(t, m) /\ m # s => Will(Tail(t), m)  BY <1>2, Onward
  <1>4. ASSUME s = "stats"
        PROVE  /\ Leads(j, Rest(j), {"statsJoined"}, {})
               /\ Leads(j, Tail(Rest(j)), {"engine"}, {"statsJoined"})
    <2>1. PICK r \in AfterTx(c) : t = T6(r)
      BY <1>2, <1>4 DEF PlainAt, StageAt
    <2>2. r \in Seq(Steps)  BY AfterIs
    <2>3. Tail(t) = T5(r) /\ Ahead(T5(r)) \in {"statsJoined"}
      BY <2>1, <2>2, TxStages
    <2>4. Shaped(T5(r), c)  BY DEF Shaped
    <2>5. Leads(j, Rest(j), {"statsJoined"}, {})
      BY <1>1, <1>3, <1>4, <2>3, <2>4 DEF Leads, Rest, Marks
    <2>6. Tail(T5(r)) = T4(r) /\ Ahead(T4(r)) \in {"engine"}
      BY <2>2, TxStages
    <2>7. Shaped(T4(r), c)  BY DEF Shaped
    <2>8. T5(r) \in Seq(Steps) /\ T5(r) # <<>> /\ Ahead(T5(r)) = "statsJoined"
      BY <2>2, TxStages
    <2>9. \A m : Will(T5(r), m) /\ m # "statsJoined" => Will(T4(r), m)
      BY <2>6, <2>8, Onward DEF Ahead
    <2>10. Leads(j, Tail(Rest(j)), {"engine"}, {"statsJoined"})
      BY <1>1, <1>3, <1>4, <2>3, <2>6, <2>7, <2>9 DEF Leads, Rest, Marks
    <2> QED  BY <2>5, <2>10
  <1>5. ASSUME s = "statsJoined"
        PROVE  Leads(j, Rest(j), {"engine"}, {"statsJoined"})
    <2>1. PICK r \in AfterTx(c) : t = T5(r)
      BY <1>2, <1>5 DEF PlainAt, StageAt
    <2>2. r \in Seq(Steps)  BY AfterIs
    <2>3. Tail(t) = T4(r) /\ Ahead(T4(r)) \in {"engine"}
      BY <2>1, <2>2, TxStages
    <2>4. Shaped(T4(r), c)  BY DEF Shaped
    <2>5. Leads(j, Rest(j), {"engine"}, {"statsJoined"})
      BY <1>1, <1>3, <1>5, <2>3, <2>4 DEF Leads, Rest, Marks
    <2> QED  BY <2>5
  <1>6. ASSUME s = "engine"
        PROVE  /\ Leads(j, Rest(j), {"engineJoined"}, {})
               /\ Leads(j, Tail(Rest(j)), {"transport"}, {"engineJoined"})
    <2>1. PICK r \in AfterTx(c) : t = T4(r)
      BY <1>2, <1>6 DEF PlainAt, StageAt
    <2>2. r \in Seq(Steps)  BY AfterIs
    <2>3. Tail(t) = T3(r) /\ Ahead(T3(r)) \in {"engineJoined"}
      BY <2>1, <2>2, TxStages
    <2>4. Shaped(T3(r), c)  BY DEF Shaped
    <2>5. Leads(j, Rest(j), {"engineJoined"}, {})
      BY <1>1, <1>3, <1>6, <2>3, <2>4 DEF Leads, Rest, Marks
    <2>6. Tail(T3(r)) = T2(r) /\ Ahead(T2(r)) \in {"transport"}
      BY <2>2, TxStages
    <2>7. Shaped(T2(r), c)  BY DEF Shaped
    <2>8. T3(r) \in Seq(Steps) /\ T3(r) # <<>> /\ Ahead(T3(r)) = "engineJoined"
      BY <2>2, TxStages
    <2>9. \A m : Will(T3(r), m) /\ m # "engineJoined" => Will(T2(r), m)
      BY <2>6, <2>8, Onward DEF Ahead
    <2>10. Leads(j, Tail(Rest(j)), {"transport"}, {"engineJoined"})
      BY <1>1, <1>3, <1>6, <2>3, <2>6, <2>7, <2>9 DEF Leads, Rest, Marks
    <2> QED  BY <2>5, <2>10
  <1>7. ASSUME s = "engineJoined"
        PROVE  Leads(j, Rest(j), {"transport"}, {"engineJoined"})
    <2>1. PICK r \in AfterTx(c) : t = T3(r)
      BY <1>2, <1>7 DEF PlainAt, StageAt
    <2>2. r \in Seq(Steps)  BY AfterIs
    <2>3. Tail(t) = T2(r) /\ Ahead(T2(r)) \in {"transport"}
      BY <2>1, <2>2, TxStages
    <2>4. Shaped(T2(r), c)  BY DEF Shaped
    <2>5. Leads(j, Rest(j), {"transport"}, {"engineJoined"})
      BY <1>1, <1>3, <1>7, <2>3, <2>4 DEF Leads, Rest, Marks
    <2> QED  BY <2>5
  <1>8. ASSUME s = "transport"
        PROVE  /\ Leads(j, Rest(j), {"transportStopped"}, {})
               /\ Leads(j, Tail(Rest(j)), {"end", "buildTx", "clearRx"}, {"transportStopped"})
    <2>1. PICK r \in AfterTx(c) : t = T2(r)
      BY <1>2, <1>8 DEF PlainAt, StageAt
    <2>2. r \in Seq(Steps)  BY AfterIs
    <2>3. Tail(t) = T1(r) /\ Ahead(T1(r)) \in {"transportStopped"}
      BY <2>1, <2>2, TxStages
    <2>4. Shaped(T1(r), c)  BY DEF Shaped
    <2>5. Leads(j, Rest(j), {"transportStopped"}, {})
      BY <1>1, <1>3, <1>8, <2>3, <2>4 DEF Leads, Rest, Marks
    <2>6. Tail(T1(r)) = r /\ Ahead(r) \in {"end", "buildTx", "clearRx"}
      BY <2>2, TxStages, AfterIs
    <2>7. Shaped(r, c)  BY AfterIs
    <2>8. T1(r) \in Seq(Steps) /\ T1(r) # <<>> /\ Ahead(T1(r)) = "transportStopped"
      BY <2>2, TxStages
    <2>9. \A m : Will(T1(r), m) /\ m # "transportStopped" => Will(r, m)
      BY <2>6, <2>8, Onward DEF Ahead
    <2>10. Leads(j, Tail(Rest(j)), {"end", "buildTx", "clearRx"}, {"transportStopped"})
      BY <1>1, <1>3, <1>8, <2>3, <2>6, <2>7, <2>9 DEF Leads, Rest, Marks
    <2> QED  BY <2>5, <2>10
  <1>9. ASSUME s = "transportStopped"
        PROVE  Leads(j, Rest(j), {"end", "buildTx", "clearRx"}, {"transportStopped"})
    <2>1. PICK r \in AfterTx(c) : t = T1(r)
      BY <1>2, <1>9 DEF PlainAt, StageAt
    <2>2. r \in Seq(Steps)  BY AfterIs
    <2>3. Tail(t) = r /\ Ahead(r) \in {"end", "buildTx", "clearRx"}
      BY <2>1, <2>2, TxStages, AfterIs
    <2>4. Shaped(r, c)  BY AfterIs
    <2>5. Leads(j, Rest(j), {"end", "buildTx", "clearRx"}, {"transportStopped"})
      BY <1>1, <1>3, <1>9, <2>3, <2>4 DEF Leads, Rest, Marks
    <2> QED  BY <2>5
  <1> QED  BY <1>4, <1>5, <1>6, <1>7, <1>8, <1>9

LEMMA RxLeads ==
    ASSUME ProgramInv, NEW j \in Jobs, NEW s \in Steps, At(j, s)
    PROVE  /\ s = "rxStats" =>
                 /\ Leads(j, Rest(j), {"rxStatsJoined"}, {})
                 /\ Leads(j, Tail(Rest(j)), {"detach"}, {"rxStatsJoined"})
           /\ s = "rxStatsJoined" =>
                 Leads(j, Rest(j), {"detach"}, {"rxStatsJoined"})
           /\ s = "detach" =>
                 /\ Leads(j, Rest(j), {"rxStopped"}, {"detach"})
                 /\ Leads(j, Tail(Rest(j)), {"rxRole"}, {"detach"})
           /\ s = "rxStopped" =>
                 Leads(j, Rest(j), {"rxRole"}, {})
           /\ s = "rxRole" =>
                 Leads(j, Rest(j), {"end", "buildRx", "stats"}, {"rxRole"})
           /\ s \in {"rxStats", "rxStatsJoined", "detach", "rxStopped", "rxRole"} =>
                 last \notin {"transmit", "apply"}
  <1>0. PICK t : t = todo[j]  OBVIOUS
  <1>1. PICK c \in {"none"} \cup Starts \cup Stops : c = last /\ t = todo[j]
    BY <1>0 DEF ProgramInv
  <1>2. /\ t # <<>> /\ t \in Seq(Steps) /\ Ahead(t) = s /\ Head(t) = s
        /\ PlainAt(t, c) \/ StageAt(t, c)
    BY <1>1, ShapeKnown DEF At
  <1>3. \A m : Will(t, m) /\ m # s => Will(Tail(t), m)  BY <1>2, Onward
  <1>4. ASSUME s = "rxStats"
        PROVE  /\ Leads(j, Rest(j), {"rxStatsJoined"}, {})
               /\ Leads(j, Tail(Rest(j)), {"detach"}, {"rxStatsJoined"})
    <2>1. PICK r \in AfterRx(c) : t = R5(r)
      BY <1>2, <1>4 DEF PlainAt, StageAt
    <2>2. r \in Seq(Steps)  BY AfterIs
    <2>3. Tail(t) = R4(r) /\ Ahead(R4(r)) \in {"rxStatsJoined"}
      BY <2>1, <2>2, RxStages
    <2>4. Shaped(R4(r), c)  BY DEF Shaped
    <2>5. Leads(j, Rest(j), {"rxStatsJoined"}, {})
      BY <1>1, <1>3, <1>4, <2>3, <2>4 DEF Leads, Rest, Marks
    <2>6. Tail(R4(r)) = R3(r) /\ Ahead(R3(r)) \in {"detach"}
      BY <2>2, RxStages
    <2>7. Shaped(R3(r), c)  BY DEF Shaped
    <2>8. R4(r) \in Seq(Steps) /\ R4(r) # <<>> /\ Ahead(R4(r)) = "rxStatsJoined"
      BY <2>2, RxStages
    <2>9. \A m : Will(R4(r), m) /\ m # "rxStatsJoined" => Will(R3(r), m)
      BY <2>6, <2>8, Onward DEF Ahead
    <2>10. Leads(j, Tail(Rest(j)), {"detach"}, {"rxStatsJoined"})
      BY <1>1, <1>3, <1>4, <2>3, <2>6, <2>7, <2>9 DEF Leads, Rest, Marks
    <2> QED  BY <2>5, <2>10
  <1>5. ASSUME s = "rxStatsJoined"
        PROVE  Leads(j, Rest(j), {"detach"}, {"rxStatsJoined"})
    <2>1. PICK r \in AfterRx(c) : t = R4(r)
      BY <1>2, <1>5 DEF PlainAt, StageAt
    <2>2. r \in Seq(Steps)  BY AfterIs
    <2>3. Tail(t) = R3(r) /\ Ahead(R3(r)) \in {"detach"}
      BY <2>1, <2>2, RxStages
    <2>4. Shaped(R3(r), c)  BY DEF Shaped
    <2>5. Leads(j, Rest(j), {"detach"}, {"rxStatsJoined"})
      BY <1>1, <1>3, <1>5, <2>3, <2>4 DEF Leads, Rest, Marks
    <2> QED  BY <2>5
  <1>6. ASSUME s = "detach"
        PROVE  /\ Leads(j, Rest(j), {"rxStopped"}, {"detach"})
               /\ Leads(j, Tail(Rest(j)), {"rxRole"}, {"detach"})
    <2>1. PICK r \in AfterRx(c) : t = R3(r)
      BY <1>2, <1>6 DEF PlainAt, StageAt
    <2>2. r \in Seq(Steps)  BY AfterIs
    <2>3. Tail(t) = R2(r) /\ Ahead(R2(r)) \in {"rxStopped"}
      BY <2>1, <2>2, RxStages
    <2>4. Shaped(R2(r), c)  BY DEF Shaped
    <2>5. Leads(j, Rest(j), {"rxStopped"}, {"detach"})
      BY <1>1, <1>3, <1>6, <2>3, <2>4 DEF Leads, Rest, Marks
    <2>6. Tail(R2(r)) = R1(r) /\ Ahead(R1(r)) \in {"rxRole"}
      BY <2>2, RxStages
    <2>7. Shaped(R1(r), c)  BY DEF Shaped
    <2>8. R2(r) \in Seq(Steps) /\ R2(r) # <<>> /\ Ahead(R2(r)) = "rxStopped"
      BY <2>2, RxStages
    <2>9. \A m : Will(R2(r), m) /\ m # "rxStopped" => Will(R1(r), m)
      BY <2>6, <2>8, Onward DEF Ahead
    <2>10. Leads(j, Tail(Rest(j)), {"rxRole"}, {"detach"})
      BY <1>1, <1>3, <1>6, <2>3, <2>6, <2>7, <2>9 DEF Leads, Rest, Marks
    <2> QED  BY <2>5, <2>10
  <1>7. ASSUME s = "rxStopped"
        PROVE  Leads(j, Rest(j), {"rxRole"}, {})
    <2>1. PICK r \in AfterRx(c) : t = R2(r)
      BY <1>2, <1>7 DEF PlainAt, StageAt
    <2>2. r \in Seq(Steps)  BY AfterIs
    <2>3. Tail(t) = R1(r) /\ Ahead(R1(r)) \in {"rxRole"}
      BY <2>1, <2>2, RxStages
    <2>4. Shaped(R1(r), c)  BY DEF Shaped
    <2>5. Leads(j, Rest(j), {"rxRole"}, {})
      BY <1>1, <1>3, <1>7, <2>3, <2>4 DEF Leads, Rest, Marks
    <2> QED  BY <2>5
  <1>8. ASSUME s = "rxRole"
        PROVE  Leads(j, Rest(j), {"end", "buildRx", "stats"}, {"rxRole"})
    <2>1. PICK r \in AfterRx(c) : t = R1(r)
      BY <1>2, <1>8 DEF PlainAt, StageAt
    <2>2. r \in Seq(Steps)  BY AfterIs
    <2>3. Tail(t) = r /\ Ahead(r) \in {"end", "buildRx", "stats"}
      BY <2>1, <2>2, RxStages, AfterIs
    <2>4. Shaped(r, c)  BY AfterIs
    <2>5. Leads(j, Rest(j), {"end", "buildRx", "stats"}, {"rxRole"})
      BY <1>1, <1>3, <1>8, <2>3, <2>4 DEF Leads, Rest, Marks
    <2> QED  BY <2>5
  <1>9. ASSUME s \in {"rxStats", "rxStatsJoined", "detach", "rxStopped", "rxRole"}
        PROVE  last \notin {"transmit", "apply"}
    <2>1. StageAt(t, c)  BY <1>2, <1>9 DEF PlainAt
    <2>2. \E r \in AfterRx(c) : t \in {R1(r), R2(r), R3(r), R4(r), R5(r)}
      BY <2>1, <1>2, <1>9 DEF StageAt
    <2>3. PICK r \in AfterRx(c) : TRUE  BY <2>2
    <2> QED  BY <2>3, <1>1, AfterIs
  <1> QED  BY <1>4, <1>5, <1>6, <1>7, <1>8, <1>9

LEMMA ProgramsOf ==
    /\ Plain("transmit") = {Line("load", Line("clear", Transmit)), Line("clear", Transmit),
                            Transmit, Built, Sent}
    /\ Plain("apply") = {Line("clear", Apply), Apply, Changed}
    /\ Plain("receive") = {Line("clearTx", Line("clearRx", Receive)),
                           Line("clearRx", Receive), Receive, Opened}
    /\ AfterTx("transmit") = {<< >>, Transmit} /\ AfterTx("apply") = {Apply}
    /\ AfterTx("receive") = {Line("clearRx", Receive)}
    /\ AfterRx("receive") = {<< >>, Receive}
  <1>1. ~("transmit" \in Stops) /\ ~("apply" \in Stops) /\ ~("receive" \in Stops)
    BY DEF Stops
  <1>2. /\ Plain("transmit") = {Line("load", Line("clear", Transmit)),
                                Line("clear", Transmit), Transmit, Built, Sent}
        /\ Plain("apply") = {Line("clear", Apply), Apply, Changed}
    BY DEF Plain
  <1>3. Plain("receive") = {Line("clearTx", Line("clearRx", Receive)),
                            Line("clearRx", Receive), Receive, Opened}
    BY DEF Plain
  <1>4. AfterTx("transmit") = {<< >>, Transmit} /\ AfterTx("apply") = {Apply}
    BY <1>1 DEF AfterTx
  <1>5. AfterTx("receive") = {Line("clearRx", Receive)}  BY <1>1 DEF AfterTx
  <1>6. AfterRx("receive") = {<< >>, Receive}  BY <1>1 DEF AfterRx
  <1> QED  BY <1>2, <1>3, <1>4, <1>5, <1>6

\* No plain program holds a mark of a stop.
LEMMA PlainUnmarked ==
    ASSUME NEW c \in {"none"} \cup Starts \cup Stops, NEW t \in Plain(c), NEW s \in Marks
    PROVE  ~Will(t, s)
  <1>0. ASSUME NEW x \in {"load", "clear", "buildTx", "bound", "sending", "applied",
                          "clearTx", "clearRx", "buildRx", "listening"},
               NEW r \in Seq(Steps), ~Will(r, s)
        PROVE  ~Will(Line(x, r), s)
    <2>1. x \in Steps /\ x # s  BY DEF Steps, Marks
    <2> QED  BY <2>1, <1>0, LineIs
  <1>1. ~Will(<< >>, s)  BY NothingAhead
  <1>2. PICK e \in Seq(Steps) : e = << >>
    <2>1. << >> \in Seq(Steps)  OBVIOUS
    <2> QED  BY <2>1, Zenon
  <1>3. ~Will(Sent, s) /\ ~Will(Changed, s) /\ ~Will(Opened, s)
    <2>1. Sent = Line("sending", e) /\ Changed = Line("applied", e)
          /\ Opened = Line("listening", e)
      BY <1>2 DEF Sent, Changed, Opened
    <2>2. ~Will(e, s)  BY <1>1, <1>2
    <2> QED  BY <2>1, <2>2, LineIs, StepNames DEF Marks
  <1>4. ~Will(Built, s) /\ ~Will(Apply, s) /\ ~Will(Receive, s)
    BY <1>0, <1>3, PlainIs DEF Built, Apply, Receive
  <1>5. ~Will(Transmit, s)  BY <1>0, <1>4, PlainIs DEF Transmit
  <1>6. /\ ~Will(Line("clear", Transmit), s) /\ ~Will(Line("clear", Apply), s)
        /\ ~Will(Line("clearRx", Receive), s)
    BY <1>0, <1>4, <1>5, PlainIs
  <1>7. Line("clear", Transmit) \in Seq(Steps) /\ Line("clearRx", Receive) \in Seq(Steps)
    BY ClearLines
  <1>8. /\ ~Will(Line("load", Line("clear", Transmit)), s)
        /\ ~Will(Line("clearTx", Line("clearRx", Receive)), s)
    BY <1>0, <1>6, <1>7
  <1>9. t \in {Line("load", Line("clear", Transmit)), Line("clear", Transmit),
               Transmit, Built, Sent, Line("clear", Apply), Apply, Changed,
               Line("clearTx", Line("clearRx", Receive)), Line("clearRx", Receive),
               Receive, Opened}
    BY DEF Plain, Starts, Stops
  <1> QED  BY <1>3, <1>4, <1>5, <1>6, <1>8, <1>9

LEMMA StartLeads ==
    ASSUME ProgramInv, NEW j \in Jobs, NEW s \in Steps, At(j, s)
    PROVE  /\ s = "load" =>
                 /\ last = "transmit" /\ Leads(j, Rest(j), {"clear"}, {})
                 /\ Leads(j, StopTransport, {"stats"}, {})
           /\ s = "clear" =>
                 /\ last \in {"transmit", "apply"} /\ Leads(j, Rest(j), {"buildTx"}, {})
                 /\ Leads(j, StopTransport \o Rest(j), {"stats"}, {})
           /\ s = "buildTx" =>
                 /\ last = "transmit" => Leads(j, Handler(j), {"stats"}, {})
                 /\ last = "apply" => Leads(j, Handler(j), {"end"}, {})
                 /\ last \in {"transmit", "apply"}
                 /\ Leads(j, Rest(j), {"bound", "applied"}, {})
           /\ s = "bound" =>
                 /\ last = "transmit" /\ Leads(j, Rest(j), {"sending"}, {})
                 /\ Leads(j, StopTransport, {"stats"}, {})
           /\ s = "sending" => last = "transmit" /\ Leads(j, << >>, {"end"}, {})
           /\ s = "applied" => last = "apply" /\ Leads(j, << >>, {"end"}, {})
           /\ s = "clearTx" =>
                 /\ last = "receive" /\ Leads(j, Rest(j), {"clearRx"}, {})
                 /\ Leads(j, StopTransport \o Rest(j), {"stats"}, {})
           /\ s = "clearRx" =>
                 /\ last = "receive" /\ Leads(j, Rest(j), {"buildRx"}, {})
                 /\ Leads(j, StopReception \o Rest(j), {"rxStats"}, {})
           /\ s = "buildRx" =>
                 /\ last = "receive" /\ Leads(j, Rest(j), {"listening"}, {})
                 /\ Leads(j, StopReception, {"rxStats"}, {})
           /\ s = "listening" =>
                 /\ last = "receive" /\ Leads(j, << >>, {"end"}, {})
                 /\ Leads(j, StopReception, {"rxStats"}, {})
  <1>0. PICK t : t = todo[j]  OBVIOUS
  <1>1. PICK c \in {"none"} \cup Starts \cup Stops : c = last /\ t = todo[j]
    BY <1>0 DEF ProgramInv
  <1>2. /\ t # <<>> /\ t \in Seq(Steps) /\ Ahead(t) = s /\ Head(t) = s
        /\ PlainAt(t, c) \/ StageAt(t, c)
    BY <1>1, ShapeKnown DEF At
  <1>3. \A m : Will(t, m) /\ m # s => Will(Tail(t), m)  BY <1>2, Onward
  <1>4. ASSUME NEW x, NEW u, t = Line(s, u), u \in Seq(Steps), Shaped(u, c), s \notin Marks,
               Ahead(u) = x
        PROVE  Rest(j) = u /\ Leads(j, Rest(j), {x}, {})
    <2>1. Rest(j) = u  BY <1>1, <1>4, LineIs DEF Rest
    <2> QED  BY <2>1, <1>1, <1>3, <1>4 DEF Leads, Rest
  <1>5. ASSUME NEW x, NEW u, t \in Plain(c), Shaped(u, c), Ahead(u) = x
        PROVE  Leads(j, u, {x}, {})
    BY <1>1, <1>5, PlainUnmarked DEF Leads
  <1>6. Shaped(<< >>, c) /\ Ahead(<< >>) = "end"  BY NothingAhead DEF Shaped
  <1>7. Ahead(StopTransport) = "stats" /\ Ahead(StopReception) = "rxStats"
    BY StopTransportIs, StopReceptionIs
  <1>8. /\ c = "transmit" => Shaped(StopTransport, c)
        /\ c = "receive" => Shaped(StopReception, c)
    <2>1. c = "transmit" => << >> \in AfterTx(c)  BY DEF AfterTx
    <2>2. c = "receive" => << >> \in AfterRx(c)  BY DEF AfterRx
    <2> QED  BY <2>1, <2>2, StopTransportIs, StopReceptionIs DEF Shaped
  <1>9. ASSUME NEW r \in AfterTx(c)
        PROVE  Shaped(StopTransport \o r, c) /\ Ahead(StopTransport \o r) = "stats"
    <2>1. r \in Seq(Steps)  BY AfterIs
    <2>2. Then(StopTransport, r) = T6(r)  BY <2>1, StopTransportIs
    <2>3. StopTransport \o r = T6(r)  BY <2>2 DEF Then
    <2> QED  BY <2>1, <2>3, TxStages DEF Shaped
  <1>10. ASSUME NEW r \in AfterRx(c)
        PROVE  Shaped(StopReception \o r, c) /\ Ahead(StopReception \o r) = "rxStats"
    <2>1. r \in Seq(Steps)  BY AfterIs
    <2>2. Then(StopReception, r) = R5(r)  BY <2>1, StopReceptionIs
    <2>3. StopReception \o r = R5(r)  BY <2>2 DEF Then
    <2> QED  BY <2>1, <2>3, RxStages DEF Shaped
  <1>11. ASSUME s = "load"
        PROVE  /\ last = "transmit" /\ Leads(j, Rest(j), {"clear"}, {})
               /\ Leads(j, StopTransport, {"stats"}, {})
    <2>1. c = "transmit" /\ t = Line("load", Line("clear", Transmit))
      BY <1>11, <1>2 DEF PlainAt, StageAt
    <2>2. PICK u : u = Line("clear", Transmit)  OBVIOUS
    <2>3. u \in Seq(Steps) /\ Ahead(u) = "clear"
      <3>1. Transmit \in Seq(Steps)  BY PlainIs
      <3> QED  BY <3>1, <2>2, LineIs, StepNames
    <2>4. t \in Plain(c) /\ u \in Plain(c)  BY <2>1, <2>2, ProgramsOf
    <2>5. Leads(j, Rest(j), {"clear"}, {})
      BY <1>11, <2>1, <2>2, <2>3, <2>4, <1>4 DEF Shaped, Marks
    <2>6. Leads(j, StopTransport, {"stats"}, {})  BY <2>1, <2>4, <1>5, <1>7, <1>8
    <2> QED  BY <2>1, <2>5, <2>6, <1>1
  <1>12. ASSUME s = "clear"
        PROVE  /\ last \in {"transmit", "apply"} /\ Leads(j, Rest(j), {"buildTx"}, {})
               /\ Leads(j, StopTransport \o Rest(j), {"stats"}, {})
    <2>1. PICK u : /\ t = Line("clear", u)
                   /\ \/ c = "transmit" /\ u = Transmit
                      \/ c = "apply" /\ u = Apply
      BY <1>12, <1>2 DEF PlainAt, StageAt
    <2>2. u \in Seq(Steps) /\ Ahead(u) = "buildTx"  BY <2>1, PlainIs, PlainStages
    <2>3. t \in Plain(c) /\ u \in Plain(c) /\ u \in AfterTx(c)  BY <2>1, ProgramsOf
    <2>4. Rest(j) = u /\ Leads(j, Rest(j), {"buildTx"}, {})
      BY <1>12, <2>1, <2>2, <2>3, <1>4 DEF Shaped, Marks
    <2>5. PICK w : w = StopTransport \o u  OBVIOUS
    <2>6. Shaped(w, c) /\ Ahead(w) = "stats"  BY <2>3, <2>5, <1>9
    <2>7. Leads(j, w, {"stats"}, {})  BY <2>3, <2>6, <1>5
    <2> QED  BY <2>1, <2>4, <2>5, <2>7, <1>1
  <1>13. ASSUME s = "buildTx"
        PROVE  /\ last = "transmit" => Leads(j, Handler(j), {"stats"}, {})
               /\ last = "apply" => Leads(j, Handler(j), {"end"}, {})
               /\ last \in {"transmit", "apply"}
               /\ Leads(j, Rest(j), {"bound", "applied"}, {})
    <2>1. \/ c = "transmit" /\ t = Transmit
          \/ c = "apply" /\ t = Apply
      BY <1>13, <1>2 DEF PlainAt, StageAt
    <2>2. CASE c = "transmit" /\ t = Transmit
      <3>1. t \in Plain(c) /\ Built \in Plain(c)  BY <2>2 DEF Plain
      <3>2. Rest(j) = Built /\ Leads(j, Rest(j), {"bound"}, {})
        BY <1>13, <2>2, <3>1, PlainIs, PlainStages, <1>4 DEF Shaped, Marks, Transmit
      <3>3. Built # <<"applied">>  BY PlainIs, PlainStages
      <3>4. Handler(j) = StopTransport  BY <3>2, <3>3 DEF Handler
      <3>5. Leads(j, StopTransport, {"stats"}, {})  BY <2>2, <3>1, <1>5, <1>7, <1>8
      <3> QED  BY <2>2, <3>2, <3>4, <3>5, <1>1 DEF Leads
    <2>3. CASE c = "apply" /\ t = Apply
      <3>1. t \in Plain(c) /\ Changed \in Plain(c)  BY <2>3 DEF Plain
      <3>2. Rest(j) = Changed /\ Leads(j, Rest(j), {"applied"}, {})
        BY <1>13, <2>3, <3>1, PlainIs, PlainStages, <1>4 DEF Shaped, Marks, Apply
      <3>3. Handler(j) = << >>  BY <3>2, PlainIs DEF Handler
      <3>4. Leads(j, << >>, {"end"}, {})  BY <3>1, <1>5, <1>6, Zenon
      <3> QED  BY <2>3, <3>2, <3>3, <3>4, <1>1 DEF Leads
    <2> QED  BY <2>1, <2>2, <2>3
  <1>14. ASSUME s = "bound"
        PROVE  /\ last = "transmit" /\ Leads(j, Rest(j), {"sending"}, {})
               /\ Leads(j, StopTransport, {"stats"}, {})
    <2>1. c = "transmit" /\ t = Built  BY <1>14, <1>2 DEF PlainAt, StageAt
    <2>2. t \in Plain(c) /\ Sent \in Plain(c)  BY <2>1 DEF Plain
    <2>3. Leads(j, Rest(j), {"sending"}, {})
      BY <1>14, <2>1, <2>2, PlainIs, PlainStages, <1>4 DEF Shaped, Marks, Built
    <2>4. Leads(j, StopTransport, {"stats"}, {})  BY <2>1, <2>2, <1>5, <1>7, <1>8
    <2> QED  BY <2>1, <2>3, <2>4, <1>1
  <1>15. ASSUME s = "sending"
        PROVE  last = "transmit" /\ Leads(j, << >>, {"end"}, {})
    <2>1. c = "transmit" /\ t = Sent  BY <1>15, <1>2 DEF PlainAt, StageAt
    <2>2. t \in Plain(c)  BY <2>1 DEF Plain
    <2>3. Leads(j, << >>, {"end"}, {})  BY <2>2, <1>5, <1>6, Zenon
    <2> QED  BY <2>1, <2>3, <1>1
  <1>16. ASSUME s = "applied"
        PROVE  last = "apply" /\ Leads(j, << >>, {"end"}, {})
    <2>1. c = "apply" /\ t = Changed  BY <1>16, <1>2 DEF PlainAt, StageAt
    <2>2. t \in Plain(c)  BY <2>1 DEF Plain
    <2>3. Leads(j, << >>, {"end"}, {})  BY <2>2, <1>5, <1>6, Zenon
    <2> QED  BY <2>1, <2>3, <1>1
  <1>17. ASSUME s = "clearTx"
        PROVE  /\ last = "receive" /\ Leads(j, Rest(j), {"clearRx"}, {})
               /\ Leads(j, StopTransport \o Rest(j), {"stats"}, {})
    <2>1. c = "receive" /\ t = Line("clearTx", Line("clearRx", Receive))
      BY <1>17, <1>2 DEF PlainAt, StageAt
    <2>2. PICK u : u = Line("clearRx", Receive)  OBVIOUS
    <2>3. u \in Seq(Steps) /\ Ahead(u) = "clearRx"  BY <2>2, PlainIs, LineIs, StepNames
    <2>4. t \in Plain(c) /\ u \in Plain(c) /\ u \in AfterTx(c)
      BY <2>1, <2>2, ProgramsOf
    <2>5. Rest(j) = u /\ Leads(j, Rest(j), {"clearRx"}, {})
      BY <1>17, <2>1, <2>2, <2>3, <2>4, <1>4 DEF Shaped, Marks
    <2>6. PICK w : w = StopTransport \o u  OBVIOUS
    <2>7. Shaped(w, c) /\ Ahead(w) = "stats"  BY <2>4, <2>6, <1>9
    <2>8. Leads(j, w, {"stats"}, {})  BY <2>4, <2>7, <1>5
    <2> QED  BY <2>1, <2>5, <2>6, <2>8, <1>1
  <1>18. ASSUME s = "clearRx"
        PROVE  /\ last = "receive" /\ Leads(j, Rest(j), {"buildRx"}, {})
               /\ Leads(j, StopReception \o Rest(j), {"rxStats"}, {})
    <2>1. c = "receive" /\ t = Line("clearRx", Receive)
      BY <1>18, <1>2 DEF PlainAt, StageAt
    <2>2. PICK u : u = Receive  OBVIOUS
    <2>3. u \in Seq(Steps) /\ Ahead(u) = "buildRx"  BY <2>2, PlainIs, PlainStages
    <2>4. t \in Plain(c) /\ u \in Plain(c) /\ u \in AfterRx(c)
      BY <2>1, <2>2, ProgramsOf
    <2>5. Rest(j) = u /\ Leads(j, Rest(j), {"buildRx"}, {})
      BY <1>18, <2>1, <2>2, <2>3, <2>4, <1>4 DEF Shaped, Marks
    <2>6. PICK w : w = StopReception \o u  OBVIOUS
    <2>7. Shaped(w, c) /\ Ahead(w) = "rxStats"  BY <2>4, <2>6, <1>10
    <2>8. Leads(j, w, {"rxStats"}, {})  BY <2>4, <2>7, <1>5
    <2> QED  BY <2>1, <2>5, <2>6, <2>8, <1>1
  <1>19. ASSUME s = "buildRx"
        PROVE  /\ last = "receive" /\ Leads(j, Rest(j), {"listening"}, {})
               /\ Leads(j, StopReception, {"rxStats"}, {})
    <2>1. c = "receive" /\ t = Receive  BY <1>19, <1>2 DEF PlainAt, StageAt
    <2>2. t \in Plain(c) /\ Opened \in Plain(c)  BY <2>1 DEF Plain
    <2>3. Leads(j, Rest(j), {"listening"}, {})
      BY <1>19, <2>1, <2>2, PlainIs, PlainStages, <1>4 DEF Shaped, Marks, Receive
    <2>4. Leads(j, StopReception, {"rxStats"}, {})  BY <2>1, <2>2, <1>5, <1>7, <1>8
    <2> QED  BY <2>1, <2>3, <2>4, <1>1
  <1>20. ASSUME s = "listening"
        PROVE  /\ last = "receive" /\ Leads(j, << >>, {"end"}, {})
               /\ Leads(j, StopReception, {"rxStats"}, {})
    <2>1. c = "receive" /\ t = Opened  BY <1>20, <1>2 DEF PlainAt, StageAt
    <2>2. t \in Plain(c)  BY <2>1 DEF Plain
    <2>3. Leads(j, << >>, {"end"}, {})  BY <2>2, <1>5, <1>6, Zenon
    <2>4. Leads(j, StopReception, {"rxStats"}, {})  BY <2>1, <2>2, <1>5, <1>7, <1>8
    <2> QED  BY <2>1, <2>3, <2>4, <1>1
  <1> QED
    BY <1>11, <1>12, <1>13, <1>14, <1>15, <1>16, <1>17, <1>18, <1>19, <1>20

-----------------------------------------------------------------------------
(* A step of one coroutine                                                 *)

LEMMA ProgramKept ==
    ASSUME ProgramInv, NEW j \in Jobs, NEW t, NEW next, NEW done,
           Leads(j, t, next, done), todo[j] # <<>>,
           todo' = [todo EXCEPT ![j] = t], last' = last
    PROVE  /\ ProgramInv'
           /\ todo'[j] = t /\ \A i \in Jobs : i # j => todo'[i] = todo[i]
           /\ \A s \in Marks \ done : Pending(s) => Pending(s)'
  <1>1. todo'[j] = t /\ \A i \in Jobs : i # j => todo'[i] = todo[i]  BY DEF ProgramInv
  <1>2. Shaped(t, last)  BY DEF Leads
  <1>3. \A i \in Jobs : Shaped(todo'[i], last')  BY <1>1, <1>2 DEF ProgramInv
  <1>4. todo' = [i \in Jobs |-> todo'[i]]  BY DEF ProgramInv
  <1>5. ASSUME last' \in Starts, NEW i \in Jobs, NEW k \in Jobs,
               todo'[i] # <<>>, todo'[k] # <<>>
        PROVE  i = k
    <2>1. \A m \in Jobs : todo[m] # <<>> => m = j  BY <1>5 DEF ProgramInv
    <2> QED  BY <2>1, <1>1, <1>5
  <1>6. ProgramInv'  BY <1>3, <1>4, <1>5 DEF ProgramInv
  <1>7. ASSUME NEW s \in Marks \ done, Pending(s) PROVE Pending(s)'
    <2>1. PICK i \in Jobs : Will(todo[i], s)  BY <1>7 DEF Pending
    <2>2. Will(todo'[i], s)
      <3>1. CASE i = j  BY <3>1, <2>1, <1>1 DEF Leads
      <3>2. CASE i # j  BY <3>2, <2>1, <1>1
      <3> QED  BY <3>1, <3>2
    <2> QED  BY <2>2 DEF Pending
  <1> QED  BY <1>1, <1>6, <1>7

\* A start is alone: no other coroutine is before a step.
StartHeads == {"load", "clear", "buildTx", "bound", "sending", "applied",
               "clearTx", "clearRx", "buildRx", "listening"}

LEMMA Solo ==
    ASSUME ProgramInv, NEW i \in Jobs, Ahead(todo[i]) \in StartHeads
    PROVE  \A j \in Jobs : todo[j] # <<>> => j = i
  <1>1. todo[i] # <<>>  BY NothingAhead DEF StartHeads
  <1>2. PlainAt(todo[i], last)
    <2>1. PlainAt(todo[i], last) \/ StageAt(todo[i], last)  BY <1>1, ShapeKnown
    <2> QED  BY <2>1 DEF StageAt, StartHeads
  <1>3. last \in Starts
    <2>1. last \in {"transmit", "apply", "receive"}  BY <1>2 DEF PlainAt
    <2> QED  BY <2>1 DEF Starts
  <1> QED  BY <1>1, <1>3 DEF ProgramInv

SenderHeads == {"transport", "transportStopped", "engineJoined", "buildTx",
                "bound", "applied", "sending"}

\* What a step of j does not do to the sender, whichever step it is.
SenderRests(j, next, done) ==
    /\ Ahead(todo[j]) \notin {"bound", "applied", "transportStopped"}
    /\ \/ \A s \in next : s \in SenderHeads => s = "buildTx" /\ active = None /\ engine = None
       \/ SenderJob(j)'
    /\ "engineJoined" \notin done
    /\ last = "transmit" => engine = active \/ "end" \notin next
    /\ active' = active /\ engine' = engine /\ last' = last
    /\ \A i \in Jobs : i # j => held'[i] = held[i]
    /\ \A n \in Numbers :
          /\ kind'[n] = "sender" <=> kind[n] = "sender"
          /\ kind[n] = "sender" => link'[n] = link[n] /\ work'[n] = work[n]

LEMMA SenderUntouched ==
    ASSUME ProgramInv, ObjectsInv, SenderInv, NEW j \in Jobs, NEW t, NEW next, NEW done,
           Leads(j, t, next, done), todo[j] # <<>>,
           todo' = [todo EXCEPT ![j] = t], SenderRests(j, next, done)
    PROVE  SenderInv'
  <1>1. todo'[j] = t /\ \A i \in Jobs : i # j => todo'[i] = todo[i] /\ held'[i] = held[i]
    BY ProgramKept DEF SenderRests
  <1>2. \A s \in Marks \ done : Pending(s) => Pending(s)'  BY ProgramKept DEF SenderRests
  <1>3. \A i \in Jobs : Ahead(todo[i]) \in {"bound", "applied", "transportStopped"} =>
            todo'[i] = todo[i] /\ held'[i] = held[i]
    BY <1>1 DEF SenderRests
  <1>4. active # None => active \in Numbers /\ kind[active] = "sender"
    BY DEF SenderInv, SenderFields, ObjectsInv
  <1>5. engine # None => engine = active  BY DEF SenderInv, SenderFields
  <1>6. ASSUME NEW i \in Jobs PROVE SenderJob(i)'
    <2>1. CASE i = j
      <3>1. Ahead(t) \in next  BY DEF Leads
      <3>2. \/ Ahead(t) \in SenderHeads =>
               Ahead(t) = "buildTx" /\ active' = None /\ engine' = None
            \/ SenderJob(j)'
        BY <3>1 DEF SenderRests
      <3>3. CASE SenderJob(j)'  BY <2>1, <3>3
      <3>4. CASE ~SenderJob(j)'
        BY <2>1, <3>2, <3>4, <1>1 DEF SenderJob, SenderHeads
      <3> QED  BY <3>3, <3>4
    <2>2. CASE i # j
      <3>1. SenderJob(i) /\ todo'[i] = todo[i] /\ held'[i] = held[i]
        BY <2>2, <1>1 DEF SenderInv
      <3>2. active' = active /\ engine' = engine  BY DEF SenderRests
      <3>3. \A n \in Numbers : kind[n] = "sender" =>
               kind'[n] = "sender" /\ link'[n] = link[n]
        BY DEF SenderRests
      <3> QED  BY <3>1, <3>2, <3>3, <1>4 DEF SenderJob
    <2> QED  BY <2>1, <2>2
  <1>7. ASSUME NEW n \in Numbers PROVE SenderObject(n)'
    <2>1. SUFFICES ASSUME kind'[n] = "sender" PROVE SenderObject(n)'
      BY DEF SenderObject
    <2>2. kind[n] = "sender" /\ link'[n] = link[n] /\ work'[n] = work[n]
      BY <2>1 DEF SenderRests
    <2>3. SenderObject(n) /\ active' = active /\ engine' = engine
      BY DEF SenderInv, SenderRests
    <2>4. (\E i \in Jobs : Ahead(todo[i]) \in {"bound", "applied"} /\ held[i] = n) =>
             \E i \in Jobs : Ahead(todo'[i]) \in {"bound", "applied"} /\ held'[i] = n
      BY <1>3
    <2>5. (\E i \in Jobs : Ahead(todo[i]) = "transportStopped" /\ held[i] = n) =>
             \E i \in Jobs : Ahead(todo'[i]) = "transportStopped" /\ held'[i] = n
      BY <1>3
    <2> QED  BY <2>2, <2>3, <2>4, <2>5 DEF SenderObject
  <1>8. SenderFields'
    <2>1. SenderFields /\ active' = active /\ engine' = engine /\ last' = last
      BY DEF SenderInv, SenderRests
    <2>2. active' # None => kind'[active'] = "sender"  BY <2>1, <1>4 DEF SenderRests
    <2>3. engine # None => link'[engine] = link[engine] /\ work'[engine] = work[engine]
      BY <1>4, <1>5 DEF SenderRests
    <2>4. Pending("engineJoined") => Pending("engineJoined")'
      BY <1>2 DEF SenderRests, Marks
    <2>6. engine' # None =>
            /\ engine' = active' /\ link'[active'] = "up"
            /\ work'[engine'] \/ Pending("engineJoined")'
      BY <2>1, <2>3, <2>4 DEF SenderFields
    <2>7. last = "transmit" => engine = active \/ ~Quiet'
      <3>1. "end" \notin next => t # <<>>  BY NothingAhead DEF Leads
      <3> QED  BY <3>1, <1>1 DEF SenderRests, Quiet
    <2> QED  BY <2>1, <2>2, <2>6, <2>7 DEF SenderFields
  <1> QED  BY <1>6, <1>7, <1>8 DEF SenderInv

ReceiverHeads == {"rxStopped", "rxRole", "buildRx", "listening"}

\* What a step of j does not do to the receiver, whichever step it is.
ReceiverRests(j, next, done) ==
    /\ Ahead(todo[j]) \notin {"listening", "rxStopped"}
    /\ \A s \in next : s \in ReceiverHeads => s = "buildRx" /\ receiver = None
    /\ "detach" \notin done /\ "rxRole" \notin done
    /\ receiver' = receiver /\ role' = role /\ last' = last
    /\ \A i \in Jobs : i # j => held'[i] = held[i]
    /\ \A n \in Numbers :
          /\ kind'[n] = "receiver" <=> kind[n] = "receiver"
          /\ kind[n] = "receiver" => link'[n] = link[n] /\ work'[n] = work[n]
          /\ started'[n] = started[n]

LEMMA ReceiverUntouched ==
    ASSUME ProgramInv, ObjectsInv, ReceiverInv, NEW j \in Jobs, NEW t, NEW next, NEW done,
           Leads(j, t, next, done), todo[j] # <<>>,
           todo' = [todo EXCEPT ![j] = t], ReceiverRests(j, next, done)
    PROVE  ReceiverInv'
  <1>0. last' = last /\ \A i \in Jobs : i # j => held'[i] = held[i]  BY DEF ReceiverRests
  <1>1. todo'[j] = t /\ \A i \in Jobs : i # j => todo'[i] = todo[i] /\ held'[i] = held[i]
    BY <1>0, ProgramKept
  <1>2. \A s \in Marks \ done : Pending(s) => Pending(s)'  BY <1>0, ProgramKept
  <1>3. \A i \in Jobs : Ahead(todo[i]) \in {"listening", "rxStopped"} =>
            todo'[i] = todo[i] /\ held'[i] = held[i]
    BY <1>1 DEF ReceiverRests
  <1>4. receiver # None => receiver \in Numbers /\ kind[receiver] = "receiver"
    BY DEF ReceiverInv, ReceiverFields, ObjectsInv
  <1>5. \A n \in Numbers : started[n] => kind[n] = "receiver"
    <2>1. \A n \in Numbers : started[n] => n = receiver  BY DEF ReceiverInv, ReceiverObject
    <2>2. \A n \in Numbers : n # None  BY DEF Numbers, None
    <2> QED  BY <2>1, <2>2, <1>4
  <1>6. ASSUME NEW i \in Jobs PROVE ReceiverJob(i)'
    <2>1. CASE i = j
      <3>1. Ahead(t) \in next  BY DEF Leads
      <3>2. Ahead(t) \in ReceiverHeads => Ahead(t) = "buildRx" /\ receiver' = None
        BY <3>1 DEF ReceiverRests
      <3> QED  BY <2>1, <3>2, <1>1 DEF ReceiverJob, ReceiverHeads
    <2>2. CASE i # j
      <3>1. ReceiverJob(i) /\ todo'[i] = todo[i] /\ held'[i] = held[i]
        BY <2>2, <1>1 DEF ReceiverInv
      <3>2. receiver' = receiver  BY DEF ReceiverRests
      <3>3. \A n \in Numbers : kind[n] = "receiver" =>
               kind'[n] = "receiver" /\ link'[n] = link[n] /\ work'[n] = work[n]
        BY DEF ReceiverRests
      <3> QED  BY <3>1, <3>2, <3>3, <1>4 DEF ReceiverJob
    <2> QED  BY <2>1, <2>2
  <1>7. ASSUME NEW n \in Numbers PROVE ReceiverObject(n)'
    <2>1. ReceiverObject(n) /\ receiver' = receiver /\ started'[n] = started[n]
      BY DEF ReceiverInv, ReceiverRests
    <2>2. kind'[n] = "receiver" <=> kind[n] = "receiver"  BY DEF ReceiverRests
    <2>3. kind[n] = "receiver" => link'[n] = link[n] /\ work'[n] = work[n]
      BY DEF ReceiverRests
    <2>4. (\E i \in Jobs : Ahead(todo[i]) = "listening" /\ held[i] = n) =>
             \E i \in Jobs : Ahead(todo'[i]) = "listening" /\ held'[i] = n
      BY <1>3
    <2>5. (\E i \in Jobs : Ahead(todo[i]) = "rxStopped" /\ held[i] = n) =>
             \E i \in Jobs : Ahead(todo'[i]) = "rxStopped" /\ held'[i] = n
      BY <1>3
    <2> QED  BY <2>1, <2>2, <2>3, <2>4, <2>5, <1>5 DEF ReceiverObject
  <1>8. ReceiverFields'
    <2>1. ReceiverFields /\ receiver' = receiver /\ role' = role
      BY DEF ReceiverInv, ReceiverRests
    <2>2. receiver # None => kind'[receiver] = "receiver" /\ started'[receiver] = started[receiver]
      BY <1>4 DEF ReceiverRests
    <2>3. Pending("detach") => Pending("detach")'  BY <1>2 DEF ReceiverRests, Marks
    <2>4. Pending("rxRole") => Pending("rxRole")'  BY <1>2 DEF ReceiverRests, Marks
    <2>5. (\E i \in Jobs : Ahead(todo[i]) = "listening") =>
             \E i \in Jobs : Ahead(todo'[i]) = "listening"
      BY <1>3
    <2> QED  BY <2>1, <2>2, <2>3, <2>4, <2>5 DEF ReceiverFields
  <1> QED  BY <1>6, <1>7, <1>8 DEF ReceiverInv

\* A step that neither half of the controller notices.
LEMMA BothUntouched ==
    ASSUME ControllerInv, ObjectsInv', NEW j \in Jobs, NEW t, NEW next, NEW done,
           Leads(j, t, next, done), todo[j] # <<>>, todo' = [todo EXCEPT ![j] = t],
           SenderRests(j, next, done), ReceiverRests(j, next, done)
    PROVE  ControllerInv'
  <1>1. last' = last  BY DEF SenderRests
  <1>2. ProgramInv'  BY <1>1, ProgramKept DEF ControllerInv
  <1>3. SenderInv'  BY SenderUntouched DEF ControllerInv
  <1>4. ReceiverInv'  BY ReceiverUntouched DEF ControllerInv
  <1> QED  BY <1>2, <1>3, <1>4 DEF ControllerInv

LEMMA AtIs ==
    ASSUME NEW j, NEW s, At(j, s)
    PROVE  todo[j] # <<>> /\ Ahead(todo[j]) = s
  BY DEF At, Ahead

LEMMA SameObjects ==
    ASSUME ObjectsInv, UNCHANGED <<active, engine, receiver, role, objVars>>,
           stats' \in BOOLEAN, rxStats' \in BOOLEAN,
           held' = held \/ \E i \in Jobs : \E n : held' = [held EXCEPT ![i] = n]
    PROVE  ObjectsInv'
  <1>1. held' = [i \in Jobs |-> held'[i]]  BY DEF ObjectsInv
  <1> QED  BY <1>1 DEF ObjectsInv, objVars

LEMMA StatsKeeps ==
    ASSUME ControllerInv, NEW j \in Jobs, Stats(j)
    PROVE  ControllerInv'
  <1>0. DOMAIN held = Jobs  BY DEF ControllerInv, ObjectsInv
  <1>1. At(j, "stats") /\ todo[j] # <<>> /\ Ahead(todo[j]) = "stats"  BY AtIs DEF Stats, gui
  <1>2. ObjectsInv'
    <2>1. stats' \in BOOLEAN /\ rxStats' \in BOOLEAN
      BY DEF Stats, ControllerInv, ObjectsInv, txVars, rxVars, gui
    <2> QED  BY <2>1, SameObjects DEF Stats, ControllerInv, txVars, rxVars, objVars, Await, GoOn, gui
  <1>3. CASE stats
    <2>1. PICK t : t = Rest(j)  OBVIOUS
    <2>2. todo' = [todo EXCEPT ![j] = t]  BY <1>3, <2>1 DEF Stats, Await, GoOn, gui
    <2>3. Leads(j, t, {"statsJoined"}, {})
      BY <1>1, <2>1, TxLeads, StepNames DEF ControllerInv
    <2>4. SenderRests(j, {"statsJoined"}, {})
      BY <1>0, <1>1, <1>3 DEF Stats, SenderRests, SenderHeads, txVars, rxVars, objVars, Await, GoOn, gui
    <2>5. ReceiverRests(j, {"statsJoined"}, {})
      BY <1>0, <1>1, <1>3 DEF Stats, ReceiverRests, ReceiverHeads, txVars, rxVars, objVars,
                         Await, GoOn, gui
    <2> QED  BY <1>1, <1>2, <2>2, <2>3, <2>4, <2>5, BothUntouched
  <1>4. CASE ~stats
    <2>1. PICK t : t = Tail(Rest(j))  OBVIOUS
    <2>2. todo' = [todo EXCEPT ![j] = t]  BY <1>4, <2>1 DEF Stats, Await, GoOn, gui
    <2>3. Leads(j, t, {"engine"}, {"statsJoined"})
      BY <1>1, <2>1, TxLeads, StepNames DEF ControllerInv
    <2>4. SenderRests(j, {"engine"}, {"statsJoined"})
      BY <1>1, <1>4 DEF Stats, SenderRests, SenderHeads, txVars, rxVars, objVars, Await, GoOn, gui
    <2>5. ReceiverRests(j, {"engine"}, {"statsJoined"})
      BY <1>1, <1>4 DEF Stats, ReceiverRests, ReceiverHeads, txVars, rxVars, objVars,
                         Await, GoOn, gui
    <2> QED  BY <1>1, <1>2, <2>2, <2>3, <2>4, <2>5, BothUntouched
  <1> QED  BY <1>3, <1>4 DEF Stats, gui

LEMMA StatsJoinedKeeps ==
    ASSUME ControllerInv, NEW j \in Jobs, StatsJoined(j)
    PROVE  ControllerInv'
  <1>1. At(j, "statsJoined") /\ todo[j] # <<>> /\ Ahead(todo[j]) = "statsJoined"  BY AtIs DEF StatsJoined, gui
  <1>2. ObjectsInv'
    <2>1. stats' \in BOOLEAN /\ rxStats' \in BOOLEAN
      BY DEF StatsJoined, ControllerInv, ObjectsInv, txVars, rxVars, gui
    <2> QED  BY <2>1, SameObjects DEF StatsJoined, ControllerInv, txVars, rxVars, objVars, Await, GoOn, gui
  <1>3. CASE TRUE
    <2>1. PICK t : t = Rest(j)  OBVIOUS
    <2>2. todo' = [todo EXCEPT ![j] = t]  BY <1>3, <2>1 DEF StatsJoined, Await, GoOn, gui
    <2>3. Leads(j, t, {"engine"}, {"statsJoined"})
      BY <1>1, <2>1, TxLeads, StepNames DEF ControllerInv
    <2>4. SenderRests(j, {"engine"}, {"statsJoined"})
      BY <1>1, <1>3 DEF StatsJoined, SenderRests, SenderHeads, txVars, rxVars, objVars, Await, GoOn, gui
    <2>5. ReceiverRests(j, {"engine"}, {"statsJoined"})
      BY <1>1, <1>3 DEF StatsJoined, ReceiverRests, ReceiverHeads, txVars, rxVars, objVars,
                         Await, GoOn, gui
    <2> QED  BY <1>1, <1>2, <2>2, <2>3, <2>4, <2>5, BothUntouched
  <1> QED  BY <1>3 DEF StatsJoined, gui

LEMMA RxStatsKeeps ==
    ASSUME ControllerInv, NEW j \in Jobs, RxStats(j)
    PROVE  ControllerInv'
  <1>0. DOMAIN held = Jobs  BY DEF ControllerInv, ObjectsInv
  <1>1. At(j, "rxStats") /\ todo[j] # <<>> /\ Ahead(todo[j]) = "rxStats"  BY AtIs DEF RxStats, gui
  <1>2. ObjectsInv'
    <2>1. stats' \in BOOLEAN /\ rxStats' \in BOOLEAN
      BY DEF RxStats, ControllerInv, ObjectsInv, txVars, rxVars, gui
    <2> QED  BY <2>1, SameObjects DEF RxStats, ControllerInv, txVars, rxVars, objVars, Await, GoOn, gui
  <1>3. CASE rxStats
    <2>1. PICK t : t = Rest(j)  OBVIOUS
    <2>2. todo' = [todo EXCEPT ![j] = t]  BY <1>3, <2>1 DEF RxStats, Await, GoOn, gui
    <2>3. Leads(j, t, {"rxStatsJoined"}, {})
      BY <1>1, <2>1, RxLeads, StepNames DEF ControllerInv
    <2>4. SenderRests(j, {"rxStatsJoined"}, {})
      BY <1>0, <1>1, <1>3 DEF RxStats, SenderRests, SenderHeads, txVars, rxVars, objVars, Await, GoOn, gui
    <2>5. ReceiverRests(j, {"rxStatsJoined"}, {})
      BY <1>0, <1>1, <1>3 DEF RxStats, ReceiverRests, ReceiverHeads, txVars, rxVars, objVars,
                         Await, GoOn, gui
    <2> QED  BY <1>1, <1>2, <2>2, <2>3, <2>4, <2>5, BothUntouched
  <1>4. CASE ~rxStats
    <2>1. PICK t : t = Tail(Rest(j))  OBVIOUS
    <2>2. todo' = [todo EXCEPT ![j] = t]  BY <1>4, <2>1 DEF RxStats, Await, GoOn, gui
    <2>3. Leads(j, t, {"detach"}, {"rxStatsJoined"})
      BY <1>1, <2>1, RxLeads, StepNames DEF ControllerInv
    <2>4. SenderRests(j, {"detach"}, {"rxStatsJoined"})
      BY <1>1, <1>4 DEF RxStats, SenderRests, SenderHeads, txVars, rxVars, objVars, Await, GoOn, gui
    <2>5. ReceiverRests(j, {"detach"}, {"rxStatsJoined"})
      BY <1>1, <1>4 DEF RxStats, ReceiverRests, ReceiverHeads, txVars, rxVars, objVars,
                         Await, GoOn, gui
    <2> QED  BY <1>1, <1>2, <2>2, <2>3, <2>4, <2>5, BothUntouched
  <1> QED  BY <1>3, <1>4 DEF RxStats, gui

LEMMA RxStatsJoinedKeeps ==
    ASSUME ControllerInv, NEW j \in Jobs, RxStatsJoined(j)
    PROVE  ControllerInv'
  <1>1. At(j, "rxStatsJoined") /\ todo[j] # <<>> /\ Ahead(todo[j]) = "rxStatsJoined"  BY AtIs DEF RxStatsJoined, gui
  <1>2. ObjectsInv'
    <2>1. stats' \in BOOLEAN /\ rxStats' \in BOOLEAN
      BY DEF RxStatsJoined, ControllerInv, ObjectsInv, txVars, rxVars, gui
    <2> QED  BY <2>1, SameObjects DEF RxStatsJoined, ControllerInv, txVars, rxVars, objVars, Await, GoOn, gui
  <1>3. CASE TRUE
    <2>1. PICK t : t = Rest(j)  OBVIOUS
    <2>2. todo' = [todo EXCEPT ![j] = t]  BY <1>3, <2>1 DEF RxStatsJoined, Await, GoOn, gui
    <2>3. Leads(j, t, {"detach"}, {"rxStatsJoined"})
      BY <1>1, <2>1, RxLeads, StepNames DEF ControllerInv
    <2>4. SenderRests(j, {"detach"}, {"rxStatsJoined"})
      BY <1>1, <1>3 DEF RxStatsJoined, SenderRests, SenderHeads, txVars, rxVars, objVars, Await, GoOn, gui
    <2>5. ReceiverRests(j, {"detach"}, {"rxStatsJoined"})
      BY <1>1, <1>3 DEF RxStatsJoined, ReceiverRests, ReceiverHeads, txVars, rxVars, objVars,
                         Await, GoOn, gui
    <2> QED  BY <1>1, <1>2, <2>2, <2>3, <2>4, <2>5, BothUntouched
  <1> QED  BY <1>3 DEF RxStatsJoined, gui

LEMMA LoadKeeps ==
    ASSUME ControllerInv, NEW j \in Jobs, Load(j)
    PROVE  ControllerInv'
  <1>1. At(j, "load") /\ todo[j] # <<>> /\ Ahead(todo[j]) = "load"  BY AtIs DEF Load, gui
  <1>2. ObjectsInv'
    <2>1. stats' \in BOOLEAN /\ rxStats' \in BOOLEAN
      BY DEF Load, ControllerInv, ObjectsInv, txVars, rxVars, gui
    <2> QED  BY <2>1, SameObjects DEF Load, ControllerInv, txVars, rxVars, objVars, Await, GoOn, gui
  <1>3. CASE GoOn(j, Rest(j))
    <2>1. PICK t : t = Rest(j)  OBVIOUS
    <2>2. todo' = [todo EXCEPT ![j] = t]  BY <1>3, <2>1 DEF Load, Await, GoOn, gui
    <2>3. Leads(j, t, {"clear"}, {})
      BY <1>1, <2>1, StartLeads, StepNames DEF ControllerInv
    <2>4. SenderRests(j, {"clear"}, {})
      BY <1>1, <1>3 DEF Load, SenderRests, SenderHeads, txVars, rxVars, objVars, Await, GoOn, gui
    <2>5. ReceiverRests(j, {"clear"}, {})
      BY <1>1, <1>3 DEF Load, ReceiverRests, ReceiverHeads, txVars, rxVars, objVars,
                         Await, GoOn, gui
    <2> QED  BY <1>1, <1>2, <2>2, <2>3, <2>4, <2>5, BothUntouched
  <1>4. CASE GoOn(j, StopTransport)
    <2>1. PICK t : t = StopTransport  OBVIOUS
    <2>2. todo' = [todo EXCEPT ![j] = t]  BY <1>4, <2>1 DEF Load, Await, GoOn, gui
    <2>3. Leads(j, t, {"stats"}, {})
      BY <1>1, <2>1, StartLeads, StepNames DEF ControllerInv
    <2>4. SenderRests(j, {"stats"}, {})
      BY <1>1, <1>4 DEF Load, SenderRests, SenderHeads, txVars, rxVars, objVars, Await, GoOn, gui
    <2>5. ReceiverRests(j, {"stats"}, {})
      BY <1>1, <1>4 DEF Load, ReceiverRests, ReceiverHeads, txVars, rxVars, objVars,
                         Await, GoOn, gui
    <2> QED  BY <1>1, <1>2, <2>2, <2>3, <2>4, <2>5, BothUntouched
  <1> QED  BY <1>3, <1>4 DEF Load, GoOn, gui

LEMMA ClearKeeps ==
    ASSUME ControllerInv, NEW j \in Jobs, Clear(j)
    PROVE  ControllerInv'
  <1>1. At(j, "clear") /\ todo[j] # <<>> /\ Ahead(todo[j]) = "clear"  BY AtIs DEF Clear, gui
  <1>2. ObjectsInv'
    <2>1. stats' \in BOOLEAN /\ rxStats' \in BOOLEAN
      BY DEF Clear, ControllerInv, ObjectsInv, txVars, rxVars, gui
    <2> QED  BY <2>1, SameObjects DEF Clear, ControllerInv, txVars, rxVars, objVars, Await, GoOn, gui
  <1>3. active = None => engine = None
    BY DEF ControllerInv, SenderInv, SenderFields
  <1>4. CASE active # None
    <2>1. PICK t : t = StopTransport \o Rest(j)  OBVIOUS
    <2>2. todo' = [todo EXCEPT ![j] = t]  BY <1>4, <2>1 DEF Clear, Await, GoOn, gui
    <2>3. Leads(j, t, {"stats"}, {})
      BY <1>1, <2>1, StartLeads, StepNames DEF ControllerInv
    <2>4. SenderRests(j, {"stats"}, {})
      BY <1>1, <1>4, <1>3 DEF Clear, SenderRests, SenderHeads, txVars, rxVars, objVars, Await, GoOn, gui
    <2>5. ReceiverRests(j, {"stats"}, {})
      BY <1>1, <1>4, <1>3 DEF Clear, ReceiverRests, ReceiverHeads, txVars, rxVars, objVars,
                         Await, GoOn, gui
    <2> QED  BY <1>1, <1>2, <2>2, <2>3, <2>4, <2>5, BothUntouched
  <1>5. CASE active = None
    <2>1. PICK t : t = Rest(j)  OBVIOUS
    <2>2. todo' = [todo EXCEPT ![j] = t]  BY <1>5, <2>1 DEF Clear, Await, GoOn, gui
    <2>3. Leads(j, t, {"buildTx"}, {})
      BY <1>1, <2>1, StartLeads, StepNames DEF ControllerInv
    <2>4. SenderRests(j, {"buildTx"}, {})
      BY <1>1, <1>5, <1>3 DEF Clear, SenderRests, SenderHeads, txVars, rxVars, objVars, Await, GoOn, gui
    <2>5. ReceiverRests(j, {"buildTx"}, {})
      BY <1>1, <1>5, <1>3 DEF Clear, ReceiverRests, ReceiverHeads, txVars, rxVars, objVars,
                         Await, GoOn, gui
    <2> QED  BY <1>1, <1>2, <2>2, <2>3, <2>4, <2>5, BothUntouched
  <1> QED  BY <1>4, <1>5 DEF Clear, gui

LEMMA ClearTxKeeps ==
    ASSUME ControllerInv, NEW j \in Jobs, ClearTx(j)
    PROVE  ControllerInv'
  <1>1. At(j, "clearTx") /\ todo[j] # <<>> /\ Ahead(todo[j]) = "clearTx"  BY AtIs DEF ClearTx, gui
  <1>2. ObjectsInv'
    <2>1. stats' \in BOOLEAN /\ rxStats' \in BOOLEAN
      BY DEF ClearTx, ControllerInv, ObjectsInv, txVars, rxVars, gui
    <2> QED  BY <2>1, SameObjects DEF ClearTx, ControllerInv, txVars, rxVars, objVars, Await, GoOn, gui
  <1>3. CASE active # None \/ engine # None
    <2>1. PICK t : t = StopTransport \o Rest(j)  OBVIOUS
    <2>2. todo' = [todo EXCEPT ![j] = t]  BY <1>3, <2>1 DEF ClearTx, Await, GoOn, gui
    <2>3. Leads(j, t, {"stats"}, {})
      BY <1>1, <2>1, StartLeads, StepNames DEF ControllerInv
    <2>4. SenderRests(j, {"stats"}, {})
      BY <1>1, <1>3 DEF ClearTx, SenderRests, SenderHeads, txVars, rxVars, objVars, Await, GoOn, gui
    <2>5. ReceiverRests(j, {"stats"}, {})
      BY <1>1, <1>3 DEF ClearTx, ReceiverRests, ReceiverHeads, txVars, rxVars, objVars,
                         Await, GoOn, gui
    <2> QED  BY <1>1, <1>2, <2>2, <2>3, <2>4, <2>5, BothUntouched
  <1>4. CASE ~(active # None \/ engine # None)
    <2>1. PICK t : t = Rest(j)  OBVIOUS
    <2>2. todo' = [todo EXCEPT ![j] = t]  BY <1>4, <2>1 DEF ClearTx, Await, GoOn, gui
    <2>3. Leads(j, t, {"clearRx"}, {})
      BY <1>1, <2>1, StartLeads, StepNames DEF ControllerInv
    <2>4. SenderRests(j, {"clearRx"}, {})
      BY <1>1, <1>4 DEF ClearTx, SenderRests, SenderHeads, txVars, rxVars, objVars, Await, GoOn, gui
    <2>5. ReceiverRests(j, {"clearRx"}, {})
      BY <1>1, <1>4 DEF ClearTx, ReceiverRests, ReceiverHeads, txVars, rxVars, objVars,
                         Await, GoOn, gui
    <2> QED  BY <1>1, <1>2, <2>2, <2>3, <2>4, <2>5, BothUntouched
  <1> QED  BY <1>3, <1>4 DEF ClearTx, gui

LEMMA ClearRxKeeps ==
    ASSUME ControllerInv, NEW j \in Jobs, ClearRx(j)
    PROVE  ControllerInv'
  <1>1. At(j, "clearRx") /\ todo[j] # <<>> /\ Ahead(todo[j]) = "clearRx"  BY AtIs DEF ClearRx, gui
  <1>2. ObjectsInv'
    <2>1. stats' \in BOOLEAN /\ rxStats' \in BOOLEAN
      BY DEF ClearRx, ControllerInv, ObjectsInv, txVars, rxVars, gui
    <2> QED  BY <2>1, SameObjects DEF ClearRx, ControllerInv, txVars, rxVars, objVars, Await, GoOn, gui
  <1>3. CASE receiver # None
    <2>1. PICK t : t = StopReception \o Rest(j)  OBVIOUS
    <2>2. todo' = [todo EXCEPT ![j] = t]  BY <1>3, <2>1 DEF ClearRx, Await, GoOn, gui
    <2>3. Leads(j, t, {"rxStats"}, {})
      BY <1>1, <2>1, StartLeads, StepNames DEF ControllerInv
    <2>4. SenderRests(j, {"rxStats"}, {})
      BY <1>1, <1>3 DEF ClearRx, SenderRests, SenderHeads, txVars, rxVars, objVars, Await, GoOn, gui
    <2>5. ReceiverRests(j, {"rxStats"}, {})
      BY <1>1, <1>3 DEF ClearRx, ReceiverRests, ReceiverHeads, txVars, rxVars, objVars,
                         Await, GoOn, gui
    <2> QED  BY <1>1, <1>2, <2>2, <2>3, <2>4, <2>5, BothUntouched
  <1>4. CASE receiver = None
    <2>1. PICK t : t = Rest(j)  OBVIOUS
    <2>2. todo' = [todo EXCEPT ![j] = t]  BY <1>4, <2>1 DEF ClearRx, Await, GoOn, gui
    <2>3. Leads(j, t, {"buildRx"}, {})
      BY <1>1, <2>1, StartLeads, StepNames DEF ControllerInv
    <2>4. SenderRests(j, {"buildRx"}, {})
      BY <1>1, <1>4 DEF ClearRx, SenderRests, SenderHeads, txVars, rxVars, objVars, Await, GoOn, gui
    <2>5. ReceiverRests(j, {"buildRx"}, {})
      BY <1>1, <1>4 DEF ClearRx, ReceiverRests, ReceiverHeads, txVars, rxVars, objVars,
                         Await, GoOn, gui
    <2> QED  BY <1>1, <1>2, <2>2, <2>3, <2>4, <2>5, BothUntouched
  <1> QED  BY <1>3, <1>4 DEF ClearRx, gui

LEMMA SendingKeeps ==
    ASSUME ControllerInv, NEW j \in Jobs, Sending(j)
    PROVE  ControllerInv'
  <1>1. At(j, "sending") /\ todo[j] # <<>> /\ Ahead(todo[j]) = "sending"  BY AtIs DEF Sending, gui
  <1>2. ObjectsInv'
    <2>1. stats' \in BOOLEAN /\ rxStats' \in BOOLEAN
      BY DEF Sending, ControllerInv, ObjectsInv, txVars, rxVars, gui
    <2> QED  BY <2>1, SameObjects DEF Sending, ControllerInv, txVars, rxVars, objVars, Await, GoOn, gui
  <1>3. engine = active
    <2>1. SenderJob(j)  BY DEF ControllerInv, SenderInv
    <2> QED  BY <1>1, <2>1 DEF SenderJob
  <1>4. CASE TRUE
    <2>1. PICK t : t = << >>  OBVIOUS
    <2>2. todo' = [todo EXCEPT ![j] = t]  BY <1>4, <2>1 DEF Sending, Await, GoOn, gui
    <2>3. Leads(j, t, {"end"}, {})
      BY <1>1, <2>1, StartLeads, StepNames DEF ControllerInv
    <2>4. SenderRests(j, {"end"}, {})
      BY <1>1, <1>4, <1>3 DEF Sending, SenderRests, SenderHeads, txVars, rxVars, objVars, Await, GoOn, gui
    <2>5. ReceiverRests(j, {"end"}, {})
      BY <1>1, <1>4, <1>3 DEF Sending, ReceiverRests, ReceiverHeads, txVars, rxVars, objVars,
                         Await, GoOn, gui
    <2> QED  BY <1>1, <1>2, <2>2, <2>3, <2>4, <2>5, BothUntouched
  <1> QED  BY <1>4 DEF Sending, gui

\* A step that changes the sender and that the receiver does not notice.
LEMMA SenderHalf ==
    ASSUME ControllerInv, ObjectsInv', NEW j \in Jobs, NEW t, NEW next, NEW done,
           Leads(j, t, next, done), todo[j] # <<>>, todo' = [todo EXCEPT ![j] = t],
           SenderInv', ReceiverRests(j, next, done)
    PROVE  ControllerInv'
  <1>1. last' = last  BY DEF ReceiverRests
  <1>2. ProgramInv'  BY <1>1, ProgramKept DEF ControllerInv
  <1>3. ReceiverInv'  BY ReceiverUntouched DEF ControllerInv
  <1> QED  BY <1>2, <1>3 DEF ControllerInv

\* While a stop is before a step nobody is before one of a start.
LEMMA OnlyStops ==
    ASSUME ProgramInv, NEW j \in Jobs, todo[j] # <<>>, Ahead(todo[j]) \notin StartHeads
    PROVE  \A i \in Jobs : Ahead(todo[i]) \notin StartHeads
  BY Solo

\* The sender's objects and fields, as every step of the sender needs them.
LEMMA SenderKnown ==
    ASSUME ControllerInv
    PROVE  /\ active # None => active \in Numbers /\ kind[active] = "sender"
           /\ engine # None => engine = active
           /\ \A n \in Numbers : n # None
           /\ DOMAIN held = Jobs /\ DOMAIN kind = Numbers /\ DOMAIN link = Numbers
           /\ DOMAIN work = Numbers /\ DOMAIN started = Numbers
  BY DEF ControllerInv, SenderInv, SenderFields, ObjectsInv, Numbers, None

\* The engine is gone, as one that never ran or when its run task is joined.
EngineGoes(j) ==
    /\ Ahead(todo[j]) \in {"engine", "engineJoined"}
    /\ engine' = None /\ active' = active /\ last' = last
    /\ stats' = stats /\ held' = held
    /\ \A n \in Numbers :
          /\ kind'[n] = kind[n] /\ link'[n] = link[n]
          /\ kind[n] = "sender" => ~work'[n]

LEMMA EngineGone ==
    ASSUME ControllerInv, NEW j \in Jobs, NEW t,
           Leads(j, t, {"transport"}, {"engineJoined"}), todo[j] # <<>>,
           todo' = [todo EXCEPT ![j] = t], EngineGoes(j)
    PROVE  SenderInv'
  <1>0. last' = last  BY DEF EngineGoes
  <1>1. todo'[j] = t /\ \A i \in Jobs : i # j => todo'[i] = todo[i]
    BY <1>0, ProgramKept DEF ControllerInv
  <1>3. \A i \in Jobs : Ahead(todo[i]) \notin StartHeads
    BY OnlyStops DEF ControllerInv, EngineGoes, StartHeads
  <1>4. Ahead(t) = "transport" /\ t # <<>>  BY NothingAhead DEF Leads
  <1>5. /\ engine' = None /\ active' = active /\ stats' = stats /\ held' = held
        /\ \A n \in Numbers : kind'[n] = kind[n] /\ link'[n] = link[n]
      BY DEF EngineGoes
  <1>6. ASSUME NEW i \in Jobs PROVE SenderJob(i)'
    <2>1. CASE i = j  BY <2>1, <1>1, <1>4, <1>5 DEF SenderJob
    <2>2. CASE i # j
      <3>1. SenderJob(i) /\ todo'[i] = todo[i]
        BY <2>2, <1>1 DEF ControllerInv, SenderInv
      <3> QED  BY <3>1, <1>3, <1>5 DEF SenderJob, StartHeads
    <2> QED  BY <2>1, <2>2
  <1>7. ASSUME NEW n \in Numbers PROVE SenderObject(n)'
    <2>1. SenderObject(n)  BY DEF ControllerInv, SenderInv
    <2>2. \A i \in Jobs : Ahead(todo[i]) = "transportStopped" => todo'[i] = todo[i]
      BY <1>1 DEF EngineGoes
    <2>3. kind[n] = "sender" => link[n] # "starting"
      BY <2>1, <1>3 DEF SenderObject, StartHeads
    <2>4. kind[n] = "sender" => ~work'[n]  BY DEF EngineGoes
    <2> QED  BY <2>1, <2>2, <2>3, <2>4, <1>5 DEF SenderObject
  <1>8. SenderFields'
    <2>1. SenderFields /\ (active # None => active \in Numbers)
      BY SenderKnown DEF ControllerInv, SenderInv
    <2>2. ~Quiet'  BY <1>1, <1>4 DEF Quiet
    <2> QED  BY <2>1, <2>2, <1>0, <1>5 DEF SenderFields
  <1> QED  BY <1>6, <1>7, <1>8 DEF SenderInv

LEMMA EngineStopKeeps ==
    ASSUME ControllerInv, NEW j \in Jobs, EngineStop(j)
    PROVE  ControllerInv'
  <1>1. At(j, "engine") /\ todo[j] # <<>> /\ Ahead(todo[j]) = "engine"
    BY AtIs DEF EngineStop, gui
  <1>2. \/ engine # None /\ work[engine] /\ Await(j, engine, Rest(j)) /\ UNCHANGED engine
        \/ /\ engine # None => ~work[engine]
           /\ engine' = None
           /\ GoOn(j, Tail(Rest(j))) /\ UNCHANGED held
    BY DEF EngineStop, gui
  <1>3. /\ active' = active /\ stats' = stats /\ last' = last /\ receiver' = receiver
        /\ rxStats' = rxStats /\ role' = role
        /\ kind' = kind /\ link' = link /\ work' = work /\ started' = started
    BY DEF EngineStop, rxVars, objVars, gui
  <1>4. ObjectsInv'
    <2>1. held' = [i \in Jobs |-> held'[i]]
      BY <1>2 DEF ControllerInv, ObjectsInv, Await
    <2>2. engine' \in Numbers \cup {None}  BY <1>2 DEF ControllerInv, ObjectsInv
    <2> QED  BY <2>1, <2>2, <1>3 DEF ControllerInv, ObjectsInv
  <1>5. CASE engine # None /\ work[engine] /\ Await(j, engine, Rest(j)) /\ UNCHANGED engine
    <2>1. PICK t : t = Rest(j)  OBVIOUS
    <2>2. todo' = [todo EXCEPT ![j] = t] /\ held' = [held EXCEPT ![j] = engine]
      BY <1>5, <2>1 DEF Await
    <2>3. Leads(j, t, {"engineJoined"}, {})
      BY <1>1, <2>1, TxLeads, StepNames DEF ControllerInv
    <2>4. SenderJob(j)'
      <3>1. todo'[j] = t  BY <1>1, <1>3, <2>2, <2>3, ProgramKept DEF ControllerInv
      <3>2. Ahead(todo'[j]) = "engineJoined"  BY <2>3, <3>1 DEF Leads
      <3>3. held'[j] = engine  BY <2>2, SenderKnown
      <3> QED  BY <3>2, <3>3, <1>3, <1>5, SenderKnown DEF SenderJob
    <2>5. SenderRests(j, {"engineJoined"}, {})
      BY <1>1, <1>3, <1>5, <2>2, <2>4, SenderKnown DEF SenderRests
    <2>6. ReceiverRests(j, {"engineJoined"}, {})
      BY <1>1, <1>3, <1>5, <2>2, SenderKnown DEF ReceiverRests, ReceiverHeads
    <2> QED  BY <1>1, <1>4, <2>2, <2>3, <2>5, <2>6, BothUntouched
  <1>6. CASE /\ engine # None => ~work[engine]
             /\ engine' = None
             /\ GoOn(j, Tail(Rest(j))) /\ UNCHANGED held
    <2>1. PICK t : t = Tail(Rest(j))  OBVIOUS
    <2>2. todo' = [todo EXCEPT ![j] = t]  BY <1>6, <2>1 DEF GoOn
    <2>3. Leads(j, t, {"transport"}, {"engineJoined"})
      BY <1>1, <2>1, TxLeads, StepNames DEF ControllerInv
    <2>4. ASSUME NEW n \in Numbers, kind[n] = "sender", work[n] PROVE FALSE
      <3>1. n = engine  BY <2>4 DEF ControllerInv, SenderInv, SenderObject
      <3>2. engine # None  BY <3>1, SenderKnown
      <3> QED  BY <3>1, <3>2, <2>4, <1>6
    <2>5. EngineGoes(j)  BY <1>1, <1>3, <1>6, <2>4 DEF EngineGoes
    <2>6. SenderInv'  BY <1>1, <2>2, <2>3, <2>5, EngineGone
    <2>7. ReceiverRests(j, {"transport"}, {"engineJoined"})
      BY <1>1, <1>3, <1>6 DEF ReceiverRests, ReceiverHeads
    <2> QED  BY <1>1, <1>4, <2>2, <2>3, <2>6, <2>7, SenderHalf
  <1> QED  BY <1>2, <1>5, <1>6

LEMMA EngineJoinedKeeps ==
    ASSUME ControllerInv, NEW j \in Jobs, EngineJoined(j)
    PROVE  ControllerInv'
  <1>1. At(j, "engineJoined") /\ todo[j] # <<>> /\ Ahead(todo[j]) = "engineJoined"
    BY AtIs DEF EngineJoined, gui
  <1>2. PICK n : n = held[j]  OBVIOUS
  <1>3. n \in Numbers /\ kind[n] = "sender" /\ engine \in {None, n}
    BY <1>1, <1>2 DEF ControllerInv, SenderInv, SenderJob
  <1>4. PICK no : no = FALSE  OBVIOUS
  <1>5. /\ active' = active /\ stats' = stats /\ last' = last /\ receiver' = receiver
        /\ rxStats' = rxStats /\ role' = role /\ held' = held
        /\ kind' = kind /\ link' = link /\ started' = started
        /\ engine' = None /\ work' = [work EXCEPT ![n] = no]
    BY <1>2, <1>4 DEF EngineJoined, rxVars, gui
  <1>6. ObjectsInv'
    <2>1. \A m \in Numbers : work'[m] \in BOOLEAN /\ (work'[m] => work[m])
      BY <1>4, <1>5, SenderKnown DEF ControllerInv, ObjectsInv
    <2>2. work' = [m \in Numbers |-> work'[m]]
      BY <1>5 DEF ControllerInv, ObjectsInv
    <2> QED  BY <2>1, <2>2, <1>5 DEF ControllerInv, ObjectsInv
  <1>7. PICK t : t = Rest(j)  OBVIOUS
  <1>8. todo' = [todo EXCEPT ![j] = t]  BY <1>7 DEF EngineJoined, GoOn, gui
  <1>9. Leads(j, t, {"transport"}, {"engineJoined"})
    BY <1>1, <1>7, TxLeads, StepNames DEF ControllerInv
  <1>10. \A m \in Numbers : kind[m] = "sender" => ~work'[m]
    <2>1. \A m \in Numbers : kind[m] = "sender" /\ work[m] => m = n
      BY <1>3, SenderKnown DEF ControllerInv, SenderInv, SenderObject
    <2> QED  BY <2>1, <1>3, <1>4, <1>5, SenderKnown
  <1>11. EngineGoes(j)  BY <1>1, <1>5, <1>10 DEF EngineGoes
  <1>12. SenderInv'  BY <1>1, <1>8, <1>9, <1>11, EngineGone
  <1>13. ReceiverRests(j, {"transport"}, {"engineJoined"})
    <2>1. \A m \in Numbers : kind[m] = "receiver" => work'[m] = work[m]
      BY <1>3, <1>5, SenderKnown
    <2> QED  BY <2>1, <1>1, <1>5 DEF ReceiverRests, ReceiverHeads
  <1> QED  BY <1>1, <1>6, <1>8, <1>9, <1>12, <1>13, SenderHalf

\* The transport is gone, as one that does not run or when it has been stopped; or its
\* stop was cancelled, which ends the coroutine and leaves it cut.
TransportGoes(j, t) ==
    /\ Ahead(todo[j]) \in {"transport", "transportStopped"}
    /\ \/ active' = None
       \/ /\ Ahead(t) = "end" /\ active' = active
          /\ active # None => link'[active] = "cut"
    /\ engine' = None /\ engine = None /\ last' = last
    /\ stats' = stats /\ held' = held
    /\ \A n \in Numbers :
          /\ kind'[n] = kind[n] /\ work'[n] = work[n]
          /\ kind[n] = "sender" =>
                /\ link'[n] # "up" /\ link'[n] \in {link[n], "down", "cut"}
                /\ Ahead(todo[j]) = "transportStopped" /\ held[j] = n =>
                      link'[n] # "stopping"

LEMMA TransportGone ==
    ASSUME ControllerInv, NEW j \in Jobs, NEW t,
           Leads(j, t, {"end", "buildTx", "clearRx"}, {"transportStopped"}), todo[j] # <<>>,
           todo' = [todo EXCEPT ![j] = t], TransportGoes(j, t)
    PROVE  SenderInv'
  <1>0. last' = last  BY DEF TransportGoes
  <1>1. todo'[j] = t /\ \A i \in Jobs : i # j => todo'[i] = todo[i]
    BY <1>0, ProgramKept DEF ControllerInv
  <1>3. \A i \in Jobs : Ahead(todo[i]) \notin StartHeads
    BY OnlyStops DEF ControllerInv, TransportGoes, StartHeads
  <1>4. Ahead(t) \in {"end", "buildTx", "clearRx"}  BY DEF Leads
  <1>5. /\ engine' = None /\ engine = None /\ active' \in {None, active}
        /\ Ahead(t) # "end" => active' = None
        /\ stats' = stats /\ held' = held
        /\ \A n \in Numbers : kind'[n] = kind[n] /\ work'[n] = work[n]
    BY DEF TransportGoes
  <1>6. ASSUME NEW i \in Jobs PROVE SenderJob(i)'
    <2>1. CASE i = j  BY <2>1, <1>1, <1>4, <1>5 DEF SenderJob
    <2>2. CASE i # j
      <3>1. SenderJob(i) /\ todo'[i] = todo[i]
        BY <2>2, <1>1 DEF ControllerInv, SenderInv
      <3>2. \A n \in Numbers : kind[n] = "sender" => link'[n] \in {link[n], "down", "cut"}
        BY DEF TransportGoes
      <3> QED  BY <3>1, <3>2, <1>3, <1>5 DEF SenderJob, StartHeads
    <2> QED  BY <2>1, <2>2
  <1>7. ASSUME NEW n \in Numbers PROVE SenderObject(n)'
    <2>1. SUFFICES ASSUME kind[n] = "sender" PROVE SenderObject(n)'
      BY <1>5 DEF SenderObject
    <2>2. SenderObject(n)  BY DEF ControllerInv, SenderInv
    <2>3. /\ link'[n] # "up" /\ link'[n] \in {link[n], "down", "cut"}
          /\ Ahead(todo[j]) = "transportStopped" /\ held[j] = n => link'[n] # "stopping"
      BY <2>1 DEF TransportGoes
    <2>4. link'[n] # "starting"  BY <2>1, <2>2, <2>3, <1>3 DEF SenderObject, StartHeads
    <2>5. ASSUME link'[n] = "stopping"
          PROVE  \E i \in Jobs : Ahead(todo'[i]) = "transportStopped" /\ held'[i] = n
      <3>1. link[n] = "stopping"  BY <2>3, <2>5
      <3>2. PICK i \in Jobs : Ahead(todo[i]) = "transportStopped" /\ held[i] = n
        BY <2>1, <2>2, <3>1 DEF SenderObject
      <3>3. i # j  BY <3>2, <2>3, <2>5
      <3> QED  BY <3>2, <3>3, <1>1, <1>5
    <2> QED  BY <2>1, <2>2, <2>3, <2>4, <2>5, <1>5 DEF SenderObject
  <1>8. SenderFields'
    <2>1. active # None => active \in Numbers /\ kind[active] = "sender"  BY SenderKnown
    <2>2. active' # None => link'[active'] = "cut"  BY DEF TransportGoes
    <2> QED  BY <2>1, <2>2, <1>5 DEF SenderFields
  <1> QED  BY <1>6, <1>7, <1>8 DEF SenderInv

\* The transport that runs is stopped: j waits for it.
TransportHalts(j) ==
    /\ Ahead(todo[j]) = "transport" /\ engine = None /\ engine' = None
    /\ active # None /\ link[active] = "up"
    /\ active' = active /\ stats' = stats /\ last' = last
    /\ held' = [held EXCEPT ![j] = active] /\ link' = [link EXCEPT ![active] = "stopping"]
    /\ kind' = kind /\ work' = work

LEMMA TransportHalted ==
    ASSUME ControllerInv, NEW j \in Jobs, NEW t,
           Leads(j, t, {"transportStopped"}, {}), todo[j] # <<>>,
           todo' = [todo EXCEPT ![j] = t], TransportHalts(j)
    PROVE  SenderInv'
  <1>0. last' = last  BY DEF TransportHalts
  <1>1. todo'[j] = t /\ \A i \in Jobs : i # j => todo'[i] = todo[i]
    BY <1>0, ProgramKept DEF ControllerInv
  <1>3. \A i \in Jobs : Ahead(todo[i]) \notin StartHeads
    BY OnlyStops DEF ControllerInv, TransportHalts, StartHeads
  <1>4. Ahead(t) = "transportStopped" /\ t # <<>>  BY NothingAhead DEF Leads
  <1>5. PICK a \in Numbers : a = active /\ kind[a] = "sender" /\ a # None
    BY SenderKnown DEF TransportHalts
  <1>6. /\ engine' = None /\ engine = None /\ active' = a /\ active = a /\ stats' = stats
        /\ kind' = kind /\ work' = work /\ link[a] = "up"
        /\ held'[j] = a /\ \A i \in Jobs : i # j => held'[i] = held[i]
        /\ link'[a] = "stopping" /\ \A n \in Numbers : n # a => link'[n] = link[n]
    BY <1>5, SenderKnown DEF TransportHalts
  <1>7. ASSUME NEW i \in Jobs PROVE SenderJob(i)'
    <2>1. CASE i = j  BY <2>1, <1>1, <1>4, <1>5, <1>6 DEF SenderJob
    <2>2. CASE i # j
      <3>1. SenderJob(i) /\ todo'[i] = todo[i] /\ held'[i] = held[i]
        BY <2>2, <1>1, <1>6 DEF ControllerInv, SenderInv
      <3>2. \A n \in Numbers : link[n] # "starting" => link'[n] # "starting"  BY <1>6
      <3> QED  BY <3>1, <3>2, <1>3, <1>6 DEF SenderJob, StartHeads
    <2> QED  BY <2>1, <2>2
  <1>8. ASSUME NEW n \in Numbers PROVE SenderObject(n)'
    <2>1. SenderObject(n)  BY DEF ControllerInv, SenderInv
    <2>2. CASE n = a  BY <2>1, <2>2, <1>1, <1>4, <1>6 DEF SenderObject
    <2>3. CASE n # a
      <3>1. \A i \in Jobs : Ahead(todo[i]) = "transportStopped" =>
               todo'[i] = todo[i] /\ held'[i] = held[i]
        BY <1>1, <1>6 DEF TransportHalts
      <3>2. kind[n] = "sender" => link[n] # "starting"
        BY <2>1, <1>3 DEF SenderObject, StartHeads
      <3> QED  BY <2>1, <2>3, <3>1, <3>2, <1>6 DEF SenderObject
    <2> QED  BY <2>2, <2>3
  <1>9. SenderFields'
    <2>1. ~Quiet'  BY <1>1, <1>4 DEF Quiet
    <2> QED  BY <2>1, <1>5, <1>6 DEF SenderFields
  <1> QED  BY <1>7, <1>8, <1>9 DEF SenderInv

LEMMA TransportStopKeeps ==
    ASSUME ControllerInv, NEW j \in Jobs, TransportStop(j)
    PROVE  ControllerInv'
  <1>1. At(j, "transport") /\ todo[j] # <<>> /\ Ahead(todo[j]) = "transport"
    BY AtIs DEF TransportStop, gui
  <1>2. /\ engine' = engine /\ stats' = stats /\ last' = last /\ receiver' = receiver
        /\ rxStats' = rxStats /\ role' = role
        /\ kind' = kind /\ work' = work /\ started' = started
    BY DEF TransportStop, rxVars, gui
  <1>3. engine = None  BY <1>1 DEF ControllerInv, SenderInv, SenderJob
  <1>4. CASE active # None /\ link[active] = "up"
    <2>1. PICK t : t = Rest(j)  OBVIOUS
    <2>2. /\ todo' = [todo EXCEPT ![j] = t] /\ held' = [held EXCEPT ![j] = active]
          /\ link' = [link EXCEPT ![active] = "stopping"] /\ active' = active
      BY <1>4, <2>1 DEF TransportStop, Await, gui
    <2>3. Leads(j, t, {"transportStopped"}, {})
      BY <1>1, <2>1, TxLeads, StepNames DEF ControllerInv
    <2>4. PICK a \in Numbers : a = active /\ kind[a] = "sender"
      BY <1>4, SenderKnown
    <2>5. ObjectsInv'
      <3>1. /\ held' = [i \in Jobs |-> held'[i]] /\ link' = [n \in Numbers |-> link'[n]]
        BY <2>2 DEF ControllerInv, ObjectsInv
      <3>2. \A n \in Numbers : link'[n] = IF n = a THEN "stopping" ELSE link[n]
        BY <2>2, <2>4, SenderKnown
      <3> QED  BY <2>2, <2>4, <3>1, <3>2, <1>2 DEF ControllerInv, ObjectsInv
    <2>6. TransportHalts(j)  BY <1>1, <1>2, <1>3, <1>4, <2>2 DEF TransportHalts
    <2>7. SenderInv'  BY <1>1, <2>2, <2>3, <2>6, TransportHalted
    <2>8. ReceiverRests(j, {"transportStopped"}, {})
      <3>1. \A n \in Numbers : kind[n] = "receiver" => link'[n] = link[n]
        BY <2>2, <2>4, SenderKnown
      <3> QED  BY <3>1, <1>1, <1>2, <2>2, SenderKnown DEF ReceiverRests, ReceiverHeads
    <2> QED  BY <1>1, <2>2, <2>3, <2>5, <2>7, <2>8, SenderHalf
  <1>5. CASE ~(active # None /\ link[active] = "up")
    <2>1. PICK t : t = Tail(Rest(j))  OBVIOUS
    <2>2. todo' = [todo EXCEPT ![j] = t] /\ held' = held /\ link' = link /\ active' = None
      BY <1>5, <2>1 DEF TransportStop, GoOn, gui
    <2>3. Leads(j, t, {"end", "buildTx", "clearRx"}, {"transportStopped"})
      BY <1>1, <2>1, TxLeads, StepNames DEF ControllerInv
    <2>4. ObjectsInv'  BY <2>2, <1>2 DEF ControllerInv, ObjectsInv
    <2>5. ASSUME NEW n \in Numbers, kind[n] = "sender" PROVE link[n] # "up"
      <3>1. link[n] = "up" => n = active
        BY <2>5 DEF ControllerInv, SenderInv, SenderObject
      <3> QED  BY <3>1, <1>5, SenderKnown
    <2>6. TransportGoes(j, t)  BY <1>1, <1>2, <1>3, <2>2, <2>5 DEF TransportGoes
    <2>7. SenderInv'  BY <1>1, <2>2, <2>3, <2>6, TransportGone
    <2>8. ReceiverRests(j, {"end", "buildTx", "clearRx"}, {"transportStopped"})
      BY <1>1, <1>2, <2>2 DEF ReceiverRests, ReceiverHeads
    <2> QED  BY <1>1, <2>2, <2>3, <2>4, <2>7, <2>8, SenderHalf
  <1> QED  BY <1>4, <1>5

\* What follows a stop of the sender holds no mark that its end could lose.
LEMMA CutLeads ==
    ASSUME ProgramInv, NEW j \in Jobs, At(j, "transportStopped")
    PROVE  Leads(j, << >>, {"end", "buildTx", "clearRx"}, {"transportStopped"})
  <1>0. PICK t : t = todo[j]  OBVIOUS
  <1>1. PICK c \in {"none"} \cup Starts \cup Stops : c = last /\ t = todo[j]
    BY <1>0 DEF ProgramInv
  <1>2. /\ t # <<>> /\ Ahead(t) = "transportStopped"
        /\ PlainAt(t, c) \/ StageAt(t, c)
    BY <1>1, ShapeKnown DEF At
  <1>3. PICK r \in AfterTx(c) : t = T1(r)  BY <1>2 DEF PlainAt, StageAt
  <1>4. r \in Seq(Steps)  BY AfterIs
  <1>5. r = << >> \/ r \in Plain(c)  BY DEF AfterTx, Plain, Starts, Stops
  <1>6. \A s \in Marks : ~Will(r, s)  BY <1>5, NothingAhead, PlainUnmarked
  <1>7. \A s \in Marks \ {"transportStopped"} : ~Will(T1(r), s)
    BY <1>4, <1>6, LineIs, StepNames DEF T1
  <1>8. Shaped(<< >>, c) /\ Ahead(<< >>) = "end"  BY NothingAhead DEF Shaped
  <1> QED  BY <1>1, <1>3, <1>7, <1>8 DEF Leads

LEMMA TransportStoppedKeeps ==
    ASSUME ControllerInv, NEW j \in Jobs, TransportStopped(j)
    PROVE  ControllerInv'
  <1>1. At(j, "transportStopped") /\ todo[j] # <<>> /\ Ahead(todo[j]) = "transportStopped"
    BY AtIs DEF TransportStopped
  <1>2. PICK a : a = held[j]  OBVIOUS
  <1>3. a \in Numbers /\ kind[a] = "sender" /\ active \in {None, a} /\ engine = None
    BY <1>1, <1>2 DEF ControllerInv, SenderInv, SenderJob
  <1>4. /\ engine' = engine /\ stats' = stats /\ last' = last /\ receiver' = receiver
        /\ rxStats' = rxStats /\ role' = role /\ held' = held
        /\ kind' = kind /\ work' = work /\ started' = started
    BY DEF TransportStopped, rxVars
  <1>5. PICK t, l : /\ todo' = [todo EXCEPT ![j] = t] /\ link' = [link EXCEPT ![a] = l]
                    /\ \/ t = Rest(j) /\ l = "down" /\ active' = None
                       \/ t = << >> /\ l = "cut" /\ active' = active
    <2>1. CASE link' = [link EXCEPT ![a] = "down"] /\ active' = None /\ GoOn(j, Rest(j))
      BY <2>1 DEF GoOn
    <2>2. CASE StopCancelled(j)
      BY <2>2, <1>2 DEF StopCancelled, GoOn
    <2> QED  BY <2>1, <2>2, <1>2 DEF TransportStopped
  <1>6. \A n \in Numbers : link'[n] = IF n = a THEN l ELSE link[n]
    BY <1>5, SenderKnown
  <1>7. ObjectsInv'
    <2>1. link' = [n \in Numbers |-> link'[n]]  BY <1>5 DEF ControllerInv, ObjectsInv
    <2> QED  BY <2>1, <1>3, <1>4, <1>5, <1>6 DEF ControllerInv, ObjectsInv
  <1>8. Leads(j, t, {"end", "buildTx", "clearRx"}, {"transportStopped"})
    BY <1>1, <1>5, TxLeads, CutLeads, StepNames DEF ControllerInv
  <1>9. ASSUME NEW n \in Numbers, kind[n] = "sender" PROVE link'[n] # "up"
    <2>1. link[n] = "up" => n = active
      BY <1>9 DEF ControllerInv, SenderInv, SenderObject
    <2> QED  BY <2>1, <1>3, <1>5, <1>6, SenderKnown
  <1>10. TransportGoes(j, t)
    BY <1>1, <1>2, <1>3, <1>4, <1>5, <1>6, <1>9, NothingAhead DEF TransportGoes
  <1>11. SenderInv'  BY <1>1, <1>5, <1>8, <1>10, TransportGone
  <1>12. ReceiverRests(j, {"end", "buildTx", "clearRx"}, {"transportStopped"})
    <2>1. \A n \in Numbers : kind[n] = "receiver" => link'[n] = link[n]  BY <1>3, <1>6
    <2> QED  BY <2>1, <1>1, <1>4 DEF ReceiverRests, ReceiverHeads
  <1> QED  BY <1>1, <1>5, <1>7, <1>8, <1>11, <1>12, SenderHalf

\* A start of the sender is the only coroutine, and only its transport is not at rest.
LEMMA LoneSender ==
    ASSUME ControllerInv, NEW j \in Jobs,
           Ahead(todo[j]) \in {"buildTx", "bound", "applied"}
    PROVE  /\ \A i \in Jobs : i # j => Ahead(todo[i]) = "end"
           /\ engine = None /\ \A n \in Numbers : kind[n] = "sender" => ~work[n]
           /\ \A n \in Numbers : kind[n] = "sender" =>
                 /\ link[n] # "stopping"
                 /\ link[n] = "up" => n = active
                 /\ link[n] = "starting" =>
                       Ahead(todo[j]) \in {"bound", "applied"} /\ held[j] = n
  <1>1. ASSUME NEW i \in Jobs, i # j PROVE Ahead(todo[i]) = "end"
    <2>1. \A k \in Jobs : todo[k] # <<>> => k = j
      BY Solo DEF ControllerInv, StartHeads
    <2>2. todo[i] = << >>  BY <1>1, <2>1
    <2> QED  BY <2>2 DEF Ahead
  <1>2. engine = None  BY DEF ControllerInv, SenderInv, SenderJob
  <1>3. ASSUME NEW n \in Numbers, kind[n] = "sender"
        PROVE  /\ ~work[n] /\ link[n] # "stopping"
               /\ link[n] = "up" => n = active
               /\ link[n] = "starting" =>
                     Ahead(todo[j]) \in {"bound", "applied"} /\ held[j] = n
    <2>1. SenderObject(n)  BY DEF ControllerInv, SenderInv
    <2>2. ~work[n]  BY <2>1, <1>2, <1>3, SenderKnown DEF SenderObject
    <2>3. link[n] # "stopping"  BY <2>1, <1>1, <1>3 DEF SenderObject
    <2>4. link[n] = "starting" => Ahead(todo[j]) \in {"bound", "applied"} /\ held[j] = n
      BY <2>1, <1>1, <1>3 DEF SenderObject
    <2> QED  BY <2>1, <2>2, <2>3, <2>4, <1>3 DEF SenderObject
  <1> QED  BY <1>1, <1>2, <1>3

\* The transport n is made and is starting.
TransportMade(j, n) ==
    /\ Ahead(todo[j]) = "buildTx" /\ last \in {"transmit", "apply"} /\ last' = last
    /\ kind[n] = "none" /\ kind'[n] = "sender" /\ link'[n] = "starting" /\ active' = n
    /\ \A m \in Numbers : m # n => kind'[m] = kind[m] /\ link'[m] = link[m]
    /\ held'[j] = n
    /\ engine' = engine /\ work' = work

LEMMA TransportIsMade ==
    ASSUME ControllerInv, NEW j \in Jobs, NEW t, NEW n \in Numbers,
           Leads(j, t, {"bound", "applied"}, {}), todo[j] # <<>>,
           todo' = [todo EXCEPT ![j] = t], TransportMade(j, n)
    PROVE  SenderInv'
  <1>0. last' = last  BY DEF TransportMade
  <1>1. todo'[j] = t /\ \A i \in Jobs : i # j => todo'[i] = todo[i]
    BY <1>0, ProgramKept DEF ControllerInv
  <1>2. /\ \A i \in Jobs : i # j => Ahead(todo[i]) = "end"
        /\ engine = None /\ active = None /\ \A m \in Numbers : m # None
    BY LoneSender, SenderKnown DEF TransportMade, ControllerInv, SenderInv, SenderJob
  <1>3. Ahead(t) \in {"bound", "applied"} /\ t # <<>>  BY NothingAhead DEF Leads
  <1>4. /\ kind[n] = "none" /\ kind'[n] = "sender" /\ link'[n] = "starting" /\ active' = n
        /\ \A m \in Numbers : m # n => kind'[m] = kind[m] /\ link'[m] = link[m]
        /\ held'[j] = n /\ engine' = None /\ work' = work
    BY <1>2 DEF TransportMade
  <1>5. ASSUME NEW i \in Jobs PROVE SenderJob(i)'
    <2>1. CASE i = j  BY <2>1, <1>1, <1>2, <1>3, <1>4 DEF SenderJob
    <2>2. CASE i # j
      <3>1. Ahead(todo'[i]) = "end"  BY <2>2, <1>1, <1>2
      <3> QED  BY <3>1 DEF SenderJob
    <2> QED  BY <2>1, <2>2
  <1>6. ASSUME NEW m \in Numbers PROVE SenderObject(m)'
    <2>1. CASE m = n
      <3>1. ~work[n]  BY <1>4 DEF ControllerInv, ObjectsInv
      <3> QED  BY <2>1, <3>1, <1>1, <1>3, <1>4 DEF SenderObject
    <2>2. CASE m # n
      <3>1. kind[m] = "sender" =>
               ~work[m] /\ link[m] \notin {"stopping", "starting", "up"}
        BY LoneSender, <1>2 DEF TransportMade
      <3> QED  BY <2>2, <3>1, <1>4 DEF SenderObject
    <2> QED  BY <2>1, <2>2
  <1>7. SenderFields'
    <2>1. ~Quiet'  BY <1>1, <1>3 DEF Quiet
    <2> QED  BY <2>1, <1>0, <1>4 DEF SenderFields, TransportMade
  <1> QED  BY <1>5, <1>6, <1>7 DEF SenderInv

\* The transport has started or has failed to, and its engine runs, waits to be
\* stopped, or is not there.
TransportSettles(j, n, t) ==
    /\ Ahead(todo[j]) \in {"bound", "applied"} /\ held[j] = n
    /\ last \in {"transmit", "apply"} /\ last' = last /\ active' = active
    /\ Ahead(t) \in {"sending", "stats", "end"}
    /\ link'[n] \in {"up", "down"} /\ engine' \in {None, n}
    /\ engine' = n =>
          link'[n] = "up" /\ (work'[n] \/ Will(t, "engineJoined"))
    /\ work'[n] => engine' = n
    /\ Ahead(t) = "sending" => engine' = n
    /\ last = "transmit" => t # <<>>
    /\ kind' = kind
    /\ \A m \in Numbers : m # n => link'[m] = link[m] /\ work'[m] = work[m]

LEMMA TransportSettled ==
    ASSUME ControllerInv, NEW j \in Jobs, NEW t, NEW n, NEW next,
           Leads(j, t, next, {}), todo[j] # <<>>,
           todo' = [todo EXCEPT ![j] = t], TransportSettles(j, n, t)
    PROVE  SenderInv'
  <1>0. last' = last  BY DEF TransportSettles
  <1>1. todo'[j] = t /\ \A i \in Jobs : i # j => todo'[i] = todo[i]
    BY <1>0, ProgramKept DEF ControllerInv
  <1>2. \A i \in Jobs : i # j => Ahead(todo[i]) = "end"
    BY LoneSender DEF TransportSettles
  <1>3. n = active /\ n \in Numbers /\ kind[n] = "sender" /\ active' = n /\ kind' = kind
        /\ n # None
    <2>1. n = active /\ active # None
      BY DEF TransportSettles, ControllerInv, SenderInv, SenderJob
    <2> QED  BY <2>1, SenderKnown DEF TransportSettles
  <1>4. ASSUME NEW i \in Jobs PROVE SenderJob(i)'
    <2>1. CASE i = j  BY <2>1, <1>1, <1>3 DEF SenderJob, TransportSettles
    <2>2. CASE i # j
      <3>1. Ahead(todo'[i]) = "end"  BY <2>2, <1>1, <1>2
      <3> QED  BY <3>1 DEF SenderJob
    <2> QED  BY <2>1, <2>2
  <1>5. ASSUME NEW m \in Numbers PROVE SenderObject(m)'
    <2>1. CASE m = n
      <3>1. link'[n] \in {"up", "down"} /\ (work'[n] => engine' = n)
        BY DEF TransportSettles
      <3> QED  BY <2>1, <3>1, <1>3 DEF SenderObject
    <2>2. CASE m # n
      <3>1. kind[m] = "sender" =>
               ~work[m] /\ link[m] \notin {"stopping", "starting", "up"}
        BY <2>2, <1>3, LoneSender DEF TransportSettles
      <3>2. link'[m] = link[m] /\ work'[m] = work[m]  BY <2>2 DEF TransportSettles
      <3> QED  BY <3>1, <3>2, <1>3 DEF SenderObject
    <2> QED  BY <2>1, <2>2
  <1>6. SenderFields'
    <2>1. last = "transmit" => ~Quiet'  BY <1>1 DEF Quiet, TransportSettles
    <2>2. Will(t, "engineJoined") => Pending("engineJoined")'  BY <1>1 DEF Pending
    <2>3. engine' # None =>
             /\ engine' = active' /\ link'[active'] = "up"
             /\ work'[engine'] \/ Pending("engineJoined")'
      BY <2>2, <1>3 DEF TransportSettles
    <2>4. active' # None => kind'[active'] = "sender"  BY <1>3
    <2> QED  BY <2>1, <2>3, <2>4, <1>0 DEF SenderFields, TransportSettles
  <1> QED  BY <1>4, <1>5, <1>6 DEF SenderInv

LEMMA BuildTxKeeps ==
    ASSUME ControllerInv, NEW j \in Jobs, BuildTx(j)
    PROVE  ControllerInv'
  <1>1. At(j, "buildTx") /\ todo[j] # <<>> /\ Ahead(todo[j]) = "buildTx"
    BY AtIs DEF BuildTx, gui
  <1>2. /\ engine' = engine /\ stats' = stats /\ last' = last /\ receiver' = receiver
        /\ rxStats' = rxStats /\ role' = role /\ work' = work /\ started' = started
    BY DEF BuildTx, rxVars, gui
  <1>3. last \in {"transmit", "apply"} /\ Leads(j, Rest(j), {"bound", "applied"}, {})
    BY <1>1, StartLeads, StepNames DEF ControllerInv
  <1>4. ASSUME NEW n \in Numbers, New(n), kind' = [kind EXCEPT ![n] = "sender"],
               link' = [link EXCEPT ![n] = "starting"], active' = n, Await(j, n, Rest(j))
        PROVE  ControllerInv'
    <2>1. PICK t : t = Rest(j)  OBVIOUS
    <2>2. todo' = [todo EXCEPT ![j] = t] /\ held' = [held EXCEPT ![j] = n]
      BY <1>4, <2>1 DEF Await
    <2>3. Leads(j, t, {"bound", "applied"}, {})  BY <1>3, <2>1
    <2>4. /\ kind[n] = "none" /\ kind'[n] = "sender" /\ link'[n] = "starting"
          /\ \A m \in Numbers : m # n => kind'[m] = kind[m] /\ link'[m] = link[m]
          /\ held'[j] = n /\ \A i \in Jobs : i # j => held'[i] = held[i]
      BY <1>4, <2>2, SenderKnown DEF New
    <2>5. ObjectsInv'
      <3>1. /\ held' = [i \in Jobs |-> held'[i]] /\ link' = [m \in Numbers |-> link'[m]]
            /\ kind' = [m \in Numbers |-> kind'[m]]
        BY <1>4, <2>2 DEF ControllerInv, ObjectsInv
      <3>2. ASSUME NEW m \in Numbers
            PROVE  /\ kind'[m] \in {"none", "sender", "receiver"}
                   /\ link'[m] \in {"new", "starting", "up", "stopping", "down", "cut", "lingering"}
                   /\ work'[m] \in BOOLEAN /\ started'[m] \in BOOLEAN
                   /\ kind'[m] = "none" => link'[m] = "new" /\ ~work'[m]
        BY <2>4, <1>2 DEF ControllerInv, ObjectsInv
      <3> QED  BY <3>1, <3>2, <1>2, <1>4 DEF ControllerInv, ObjectsInv
    <2>6. TransportMade(j, n)  BY <1>1, <1>2, <1>3, <1>4, <2>4 DEF TransportMade
    <2>7. SenderInv'  BY <1>1, <2>2, <2>3, <2>6, TransportIsMade
    <2>8. ReceiverRests(j, {"bound", "applied"}, {})
      BY <1>1, <1>2, <2>4 DEF ReceiverRests, ReceiverHeads
    <2> QED  BY <1>1, <2>2, <2>3, <2>5, <2>7, <2>8, SenderHalf
  <1>5. ASSUME GoOn(j, Handler(j)), UNCHANGED <<kind, link, active, held>>
        PROVE  ControllerInv'
    <2>1. PICK t : t = Handler(j)  OBVIOUS
    <2>2. todo' = [todo EXCEPT ![j] = t]  BY <1>5, <2>1 DEF GoOn
    <2>3. ObjectsInv'  BY <1>2, <1>5 DEF ControllerInv, ObjectsInv
    <2>4. CASE last = "transmit"
      <3>1. Leads(j, t, {"stats"}, {})
        BY <1>1, <2>1, <2>4, StartLeads, StepNames DEF ControllerInv
      <3>2. SenderRests(j, {"stats"}, {})
        BY <1>1, <1>2, <1>5 DEF SenderRests, SenderHeads
      <3>3. ReceiverRests(j, {"stats"}, {})
        BY <1>1, <1>2, <1>5 DEF ReceiverRests, ReceiverHeads
      <3> QED  BY <1>1, <2>2, <2>3, <3>1, <3>2, <3>3, BothUntouched
    <2>5. CASE last = "apply"
      <3>1. Leads(j, t, {"end"}, {})
        BY <1>1, <2>1, <2>5, StartLeads, StepNames DEF ControllerInv
      <3>2. SenderRests(j, {"end"}, {})
        BY <1>1, <1>2, <1>5, <2>5 DEF SenderRests, SenderHeads
      <3>3. ReceiverRests(j, {"end"}, {})
        BY <1>1, <1>2, <1>5 DEF ReceiverRests, ReceiverHeads
      <3> QED  BY <1>1, <2>2, <2>3, <3>1, <3>2, <3>3, BothUntouched
    <2> QED  BY <1>3, <2>4, <2>5
  <1> QED  BY <1>4, <1>5 DEF BuildTx, gui

\* The object a start of the sender is about.
LEMMA HeldTransport ==
    ASSUME ControllerInv, NEW j \in Jobs, Ahead(todo[j]) \in {"bound", "applied"}
    PROVE  /\ held[j] = active /\ active \in Numbers /\ kind[active] = "sender"
           /\ engine = None /\ ~work[active]
  <1>1. held[j] = active /\ active # None
    BY DEF ControllerInv, SenderInv, SenderJob
  <1> QED  BY <1>1, SenderKnown, LoneSender

LEMMA BoundKeeps ==
    ASSUME ControllerInv, NEW j \in Jobs, Bound(j)
    PROVE  ControllerInv'
  <1>1. At(j, "bound") /\ todo[j] # <<>> /\ Ahead(todo[j]) = "bound"
    BY AtIs DEF Bound, gui
  <1>2. /\ active' = active /\ stats' = stats /\ last' = last /\ receiver' = receiver
        /\ rxStats' = rxStats /\ role' = role /\ kind' = kind /\ started' = started
    BY DEF Bound, rxVars, gui
  <1>3. /\ last = "transmit" /\ Leads(j, Rest(j), {"sending"}, {})
        /\ Leads(j, StopTransport, {"stats"}, {})
    BY <1>1, StartLeads, StepNames DEF ControllerInv
  <1>4. PICK n \in Numbers : /\ n = held[j] /\ n = active /\ kind[n] = "sender"
                             /\ engine = None /\ ~work[n]
    BY <1>1, HeldTransport
  <1>5. ASSUME NEW t, NEW next, Leads(j, t, next, {}), todo' = [todo EXCEPT ![j] = t],
               next \cap ReceiverHeads = {}, TransportSettles(j, n, t),
               held' = held \/ held' = [held EXCEPT ![j] = n],
               DOMAIN link' = Numbers, DOMAIN work' = Numbers, work'[n] \in BOOLEAN,
               link' = [m \in Numbers |-> link'[m]], work' = [m \in Numbers |-> work'[m]]
        PROVE  ControllerInv'
    <2>1. /\ link'[n] \in {"up", "down"} /\ engine' \in {None, n}
          /\ \A m \in Numbers : m # n => link'[m] = link[m] /\ work'[m] = work[m]
      BY <1>5 DEF TransportSettles
    <2>2. held' = [i \in Jobs |-> held'[i]] /\ \A i \in Jobs : i # j => held'[i] = held[i]
      BY <1>5, SenderKnown DEF ControllerInv, ObjectsInv
    <2>3. ObjectsInv'
      <3>1. ASSUME NEW m \in Numbers
            PROVE  /\ kind'[m] \in {"none", "sender", "receiver"}
                   /\ link'[m] \in {"new", "starting", "up", "stopping", "down", "cut", "lingering"}
                   /\ work'[m] \in BOOLEAN /\ started'[m] \in BOOLEAN
                   /\ kind'[m] = "none" => link'[m] = "new" /\ ~work'[m]
        BY <2>1, <1>2, <1>4, <1>5 DEF ControllerInv, ObjectsInv
      <3> QED  BY <3>1, <2>1, <2>2, <1>2, <1>5 DEF ControllerInv, ObjectsInv
    <2>4. SenderInv'  BY <1>1, <1>5, TransportSettled
    <2>5. ReceiverRests(j, next, {})
      BY <1>1, <1>2, <1>4, <1>5, <2>1, <2>2 DEF ReceiverRests
    <2> QED  BY <1>1, <1>5, <2>3, <2>4, <2>5, SenderHalf
  <1>6. \/ link' = [link EXCEPT ![n] = "up"] /\ Run(j)
        \/ link' = [link EXCEPT ![n] = "up"] /\ Reject(j)
        \/ /\ link' = [link EXCEPT ![n] = "down"] /\ GoOn(j, StopTransport)
           /\ UNCHANGED <<engine, work, held>>
    BY <1>4 DEF Bound, gui
  <1>7. /\ \A l : link' = [link EXCEPT ![n] = l] =>
              /\ link'[n] = l /\ \A m \in Numbers : m # n => link'[m] = link[m]
              /\ DOMAIN link' = Numbers /\ link' = [m \in Numbers |-> link'[m]]
        /\ DOMAIN work = Numbers /\ work = [m \in Numbers |-> work[m]]
        /\ work[n] \in BOOLEAN
    BY SenderKnown DEF ControllerInv, ObjectsInv
  <1>8. CASE link' = [link EXCEPT ![n] = "up"] /\ Run(j)
    <2>1. PICK t, yes : t = Rest(j) /\ yes = TRUE  OBVIOUS
    <2>2. /\ todo' = [todo EXCEPT ![j] = t] /\ held' = [held EXCEPT ![j] = n]
          /\ engine' = n /\ work' = [work EXCEPT ![n] = yes]
      BY <1>4, <1>8, <2>1 DEF Run, Await
    <2>3. /\ work'[n] /\ work'[n] \in BOOLEAN /\ DOMAIN work' = Numbers
          /\ work' = [m \in Numbers |-> work'[m]]
          /\ \A m \in Numbers : m # n => work'[m] = work[m]
      BY <1>7, <2>1, <2>2
    <2>4. Leads(j, t, {"sending"}, {})  BY <1>3, <2>1
    <2>5. Ahead(t) = "sending" /\ t # <<>>  BY <2>4, NothingAhead DEF Leads
    <2>6. TransportSettles(j, n, t)
      BY <1>1, <1>2, <1>3, <1>4, <1>7, <1>8, <2>2, <2>3, <2>5 DEF TransportSettles
    <2> QED  BY <1>5, <1>7, <1>8, <2>2, <2>3, <2>4, <2>6 DEF ReceiverHeads
  <1>9. CASE link' = [link EXCEPT ![n] = "up"] /\ Reject(j)
    <2>1. PICK t : t = StopTransport  OBVIOUS
    <2>2. /\ todo' = [todo EXCEPT ![j] = t] /\ held' = held
          /\ engine' = n /\ work' = work
      BY <1>4, <1>9, <2>1 DEF Reject, GoOn
    <2>3. Leads(j, t, {"stats"}, {}) /\ Ahead(t) = "stats" /\ t # <<>>
          /\ Will(t, "engineJoined")
      BY <1>3, <2>1, StopTransportIs
    <2>4. TransportSettles(j, n, t)
      BY <1>1, <1>2, <1>3, <1>4, <1>7, <1>9, <2>2, <2>3 DEF TransportSettles
    <2>5. /\ DOMAIN work' = Numbers /\ work'[n] \in BOOLEAN
          /\ work' = [m \in Numbers |-> work'[m]]
          /\ DOMAIN link' = Numbers /\ link' = [m \in Numbers |-> link'[m]]
      BY <1>7, <1>9, <2>2
    <2>6. {"stats"} \cap ReceiverHeads = {}  BY DEF ReceiverHeads
    <2>7. PICK next : next = {"stats"}  OBVIOUS
    <2>8. Leads(j, t, next, {}) /\ next \cap ReceiverHeads = {}  BY <2>3, <2>6, <2>7
    <2> QED  BY <1>5, <2>2, <2>4, <2>5, <2>8
  <1>10. CASE /\ link' = [link EXCEPT ![n] = "down"] /\ GoOn(j, StopTransport)
              /\ UNCHANGED <<engine, work, held>>
    <2>1. PICK t : t = StopTransport  OBVIOUS
    <2>2. todo' = [todo EXCEPT ![j] = t]  BY <1>10, <2>1 DEF GoOn
    <2>3. Leads(j, t, {"stats"}, {}) /\ Ahead(t) = "stats" /\ t # <<>>
      BY <1>3, <2>1, StopTransportIs
    <2>4. TransportSettles(j, n, t)
      BY <1>1, <1>2, <1>3, <1>4, <1>7, <1>10, <2>3, SenderKnown DEF TransportSettles
    <2>5. /\ DOMAIN work' = Numbers /\ work'[n] \in BOOLEAN /\ held' = held
          /\ work' = [m \in Numbers |-> work'[m]]
          /\ DOMAIN link' = Numbers /\ link' = [m \in Numbers |-> link'[m]]
      BY <1>7, <1>10
    <2>6. {"stats"} \cap ReceiverHeads = {}  BY DEF ReceiverHeads
    <2>7. PICK next : next = {"stats"}  OBVIOUS
    <2>8. Leads(j, t, next, {}) /\ next \cap ReceiverHeads = {}  BY <2>3, <2>6, <2>7
    <2> QED  BY <1>5, <2>2, <2>4, <2>5, <2>8
  <1> QED  BY <1>6, <1>8, <1>9, <1>10

LEMMA AppliedKeeps ==
    ASSUME ControllerInv, NEW j \in Jobs, Applied(j)
    PROVE  ControllerInv'
  <1>1. At(j, "applied") /\ todo[j] # <<>> /\ Ahead(todo[j]) = "applied"
    BY AtIs DEF Applied, gui
  <1>2. /\ active' = active /\ engine' = engine /\ stats' = stats /\ last' = last
        /\ receiver' = receiver /\ rxStats' = rxStats /\ role' = role
        /\ kind' = kind /\ work' = work /\ started' = started /\ held' = held
    BY DEF Applied, txVars, rxVars, gui
  <1>3. last = "apply" /\ Leads(j, << >>, {"end"}, {})
    BY <1>1, StartLeads, StepNames DEF ControllerInv
  <1>4. PICK n \in Numbers : /\ n = held[j] /\ n = active /\ kind[n] = "sender"
                             /\ engine = None /\ ~work[n]
    BY <1>1, HeldTransport
  <1>5. PICK l \in {"up", "down"} : link' = [link EXCEPT ![n] = l]  BY <1>4 DEF Applied, gui
  <1>6. /\ link'[n] = l /\ \A m \in Numbers : m # n => link'[m] = link[m]
        /\ link' = [m \in Numbers |-> link'[m]]
    BY <1>5, SenderKnown DEF ControllerInv, ObjectsInv
  <1>7. PICK t : t = << >>  OBVIOUS
  <1>8. todo' = [todo EXCEPT ![j] = t]  BY <1>7 DEF Applied, GoOn, gui
  <1>9. Leads(j, t, {"end"}, {}) /\ Ahead(t) = "end"  BY <1>3, <1>7, NothingAhead
  <1>10. ObjectsInv'
    <2>1. ASSUME NEW m \in Numbers
          PROVE  /\ link'[m] \in {"new", "starting", "up", "stopping", "down", "cut", "lingering"}
                 /\ kind'[m] = "none" => link'[m] = "new"
      BY <1>2, <1>4, <1>6 DEF ControllerInv, ObjectsInv
    <2> QED  BY <2>1, <1>2, <1>6 DEF ControllerInv, ObjectsInv
  <1>11. TransportSettles(j, n, t)
    BY <1>1, <1>2, <1>3, <1>4, <1>6, <1>9, SenderKnown DEF TransportSettles
  <1>12. SenderInv'  BY <1>1, <1>8, <1>9, <1>11, TransportSettled
  <1>13. ReceiverRests(j, {"end"}, {})
    BY <1>1, <1>2, <1>4, <1>6 DEF ReceiverRests, ReceiverHeads
  <1> QED  BY <1>1, <1>8, <1>9, <1>10, <1>12, <1>13, SenderHalf

-----------------------------------------------------------------------------
(* The steps of the receiver                                               *)

\* A step that changes the receiver and that the sender does not notice.
LEMMA ReceiverHalf ==
    ASSUME ControllerInv, ObjectsInv', NEW j \in Jobs, NEW t, NEW next, NEW done,
           Leads(j, t, next, done), todo[j] # << >>, todo' = [todo EXCEPT ![j] = t],
           ReceiverInv', SenderRests(j, next, done)
    PROVE  ControllerInv'
  <1>1. last' = last  BY DEF SenderRests
  <1>2. ProgramInv'  BY <1>1, ProgramKept DEF ControllerInv
  <1>3. SenderInv'  BY SenderUntouched DEF ControllerInv
  <1> QED  BY <1>2, <1>3 DEF ControllerInv

\* The receiver's objects and fields, as every step of the receiver needs them.
LEMMA ReceiverKnown ==
    ASSUME ControllerInv
    PROVE  /\ receiver # None => receiver \in Numbers /\ kind[receiver] = "receiver"
           /\ \A n \in Numbers : started[n] => n = receiver /\ link[n] = "up" /\ work[n]
           /\ \A n \in Numbers : kind[n] = "receiver" /\ link[n] = "up" =>
                                    n = receiver /\ started[n]
  BY DEF ControllerInv, ReceiverInv, ReceiverFields, ReceiverObject, ObjectsInv

\* A start of the receiver is the only coroutine, and only its transport is not at rest.
LEMMA LoneReceiver ==
    ASSUME ControllerInv, NEW j \in Jobs, Ahead(todo[j]) \in {"buildRx", "listening"}
    PROVE  /\ \A i \in Jobs : i # j => Ahead(todo[i]) = "end"
           /\ \A n \in Numbers : kind[n] = "receiver" =>
                 /\ link[n] # "stopping"
                 /\ link[n] = "starting" => Ahead(todo[j]) = "listening" /\ held[j] = n
  <1>1. ASSUME NEW i \in Jobs, i # j PROVE Ahead(todo[i]) = "end"
    <2>1. \A k \in Jobs : todo[k] # << >> => k = j
      BY Solo DEF ControllerInv, StartHeads
    <2>2. todo[i] = << >>  BY <1>1, <2>1
    <2> QED  BY <2>2 DEF Ahead
  <1>2. ASSUME NEW n \in Numbers, kind[n] = "receiver"
        PROVE  /\ link[n] # "stopping"
               /\ link[n] = "starting" => Ahead(todo[j]) = "listening" /\ held[j] = n
    <2>1. ReceiverObject(n)  BY DEF ControllerInv, ReceiverInv
    <2>2. link[n] # "stopping"  BY <2>1, <1>1, <1>2 DEF ReceiverObject
    <2>3. link[n] = "starting" => Ahead(todo[j]) = "listening" /\ held[j] = n
      BY <2>1, <1>1, <1>2 DEF ReceiverObject
    <2> QED  BY <2>2, <2>3
  <1> QED  BY <1>1, <1>2

\* Who is before the step that detaches the receiver will also give the role back.
LEMMA DetachMarks ==
    ASSUME ProgramInv, NEW j \in Jobs, todo[j] # << >>, Ahead(todo[j]) = "detach"
    PROVE  Will(todo[j], "rxRole")
  <1>1. PICK c \in {"none"} \cup Starts \cup Stops : c = last  BY DEF ProgramInv
  <1>2. PICK t : t = todo[j]  OBVIOUS
  <1>3. PlainAt(t, c) \/ StageAt(t, c)  BY <1>1, <1>2, ShapeKnown
  <1>4. PICK r \in AfterRx(c) : t = R3(r)  BY <1>2, <1>3 DEF PlainAt, StageAt
  <1>5. r \in Seq(Steps)  BY AfterIs
  <1>6. R1(r) \in Seq(Steps) /\ R2(r) \in Seq(Steps)  BY <1>5, RxStages
  <1>7. Will(R1(r), "rxRole")  BY <1>5, LineIs, StepNames DEF R1
  <1>8. Will(R2(r), "rxRole")  BY <1>6, <1>7, LineIs, StepNames DEF R2
  <1>9. Will(R3(r), "rxRole")  BY <1>6, <1>8, LineIs, StepNames DEF R3
  <1> QED  BY <1>2, <1>4, <1>9

\* The fields name no receiver any more; j waits for its stop, or there was none.
Detaches(j, t) ==
    /\ Ahead(todo[j]) = "detach" /\ receiver' = None /\ last' = last
    /\ rxStats' = rxStats /\ role' = role /\ kind' = kind /\ work' = work
    /\ \A i \in Jobs : i # j => held'[i] = held[i]
    /\ \A n \in Numbers : ~started'[n] /\ (n # receiver => link'[n] = link[n])
    /\ receiver = None => Ahead(t) = "rxRole"
    /\ receiver # None =>
          /\ Ahead(t) = "rxStopped" /\ held'[j] = receiver
          /\ link'[receiver] = (IF started[receiver] THEN "stopping" ELSE link[receiver])

LEMMA Detached ==
    ASSUME ControllerInv, NEW j \in Jobs, NEW t, NEW next,
           Leads(j, t, next, {"detach"}), todo[j] # << >>,
           todo' = [todo EXCEPT ![j] = t], Detaches(j, t)
    PROVE  ReceiverInv'
  <1>0. last' = last  BY DEF Detaches
  <1>1. todo'[j] = t /\ \A i \in Jobs : i # j => todo'[i] = todo[i]
    BY <1>0, ProgramKept DEF ControllerInv
  <1>2. \A s \in Marks \ {"detach"} : Pending(s) => Pending(s)'
    BY <1>0, ProgramKept DEF ControllerInv
  <1>3. \A i \in Jobs : Ahead(todo[i]) \notin StartHeads
    BY OnlyStops DEF ControllerInv, Detaches, StartHeads
  <1>4. Ahead(todo[j]) = "detach"  BY DEF Detaches
  <1>5. ASSUME NEW i \in Jobs PROVE ReceiverJob(i)'
    <2>1. CASE i = j
      <3>1. CASE receiver = None  BY <2>1, <3>1, <1>1 DEF ReceiverJob, Detaches
      <3>2. CASE receiver # None
        BY <2>1, <3>2, <1>1, ReceiverKnown DEF ReceiverJob, Detaches
      <3> QED  BY <3>1, <3>2
    <2>2. CASE i # j
      <3>1. ReceiverJob(i) /\ todo'[i] = todo[i]
        BY <2>2, <1>1 DEF ControllerInv, ReceiverInv
      <3>2. held'[i] = held[i] /\ receiver' = None /\ kind' = kind  BY <2>2 DEF Detaches
      <3> QED  BY <3>1, <3>2, <1>3 DEF ReceiverJob, StartHeads
    <2> QED  BY <2>1, <2>2
  <1>6. ASSUME NEW n \in Numbers PROVE ReceiverObject(n)'
    <2>1. ReceiverObject(n) /\ ~started'[n] /\ kind' = kind
      BY DEF ControllerInv, ReceiverInv, Detaches
    <2>2. kind[n] = "receiver" => link[n] # "starting"
      BY <2>1, <1>3 DEF ReceiverObject, StartHeads
    <2>3. \A i \in Jobs : Ahead(todo[i]) = "rxStopped" =>
             todo'[i] = todo[i] /\ held'[i] = held[i]
      BY <1>1, <1>4 DEF Detaches
    <2>4. CASE n = receiver
      <3>1. /\ Ahead(t) = "rxStopped" /\ held'[j] = n
            /\ link'[n] = (IF started[n] THEN "stopping" ELSE link[n])
        BY <2>4 DEF Detaches, Numbers, None
      <3> QED  BY <2>1, <2>2, <2>3, <3>1, <1>1 DEF ReceiverObject
    <2>5. CASE n # receiver
      <3>1. link'[n] = link[n]  BY <2>5 DEF Detaches
      <3> QED  BY <2>1, <2>2, <2>3, <2>5, <3>1 DEF ReceiverObject
    <2> QED  BY <2>4, <2>5
  <1>7. ReceiverFields'
    <2>2. Pending("rxRole")
      <3>1. Will(todo[j], "rxRole")  BY <1>4, DetachMarks DEF ControllerInv
      <3> QED  BY <3>1 DEF Pending
    <2>3. Pending("rxRole")'  BY <2>2, <1>2 DEF Marks
    <2> QED  BY <2>3 DEF ReceiverFields, Detaches
  <1> QED  BY <1>5, <1>6, <1>7 DEF ReceiverInv

LEMMA DetachKeeps ==
    ASSUME ControllerInv, NEW j \in Jobs, Detach(j)
    PROVE  ControllerInv'
  <1>1. At(j, "detach") /\ todo[j] # << >> /\ Ahead(todo[j]) = "detach"
    BY AtIs DEF Detach, gui
  <1>2. /\ active' = active /\ engine' = engine /\ stats' = stats /\ last' = last
        /\ receiver' = None /\ rxStats' = rxStats /\ role' = role
        /\ kind' = kind /\ work' = work
    BY DEF Detach, txVars, gui
  <1>3. last \notin {"transmit", "apply"}
    BY <1>1, RxLeads, StepNames DEF ControllerInv
  <1>4. CASE receiver = None
    <2>1. PICK t : t = Tail(Rest(j))  OBVIOUS
    <2>2. /\ todo' = [todo EXCEPT ![j] = t] /\ held' = held
          /\ link' = link /\ started' = started
      BY <1>4, <2>1 DEF Detach, GoOn, gui
    <2>3. Leads(j, t, {"rxRole"}, {"detach"})
      BY <1>1, <2>1, RxLeads, StepNames DEF ControllerInv
    <2>4. ObjectsInv'  BY <2>2, <1>2 DEF ControllerInv, ObjectsInv
    <2>5. \A n \in Numbers : ~started[n]  BY <1>4, ReceiverKnown, SenderKnown
    <2>6. Ahead(t) = "rxRole"  BY <2>3 DEF Leads
    <2>7. Detaches(j, t)  BY <1>1, <1>2, <1>4, <2>2, <2>5, <2>6 DEF Detaches
    <2>8. ReceiverInv'  BY <1>1, <2>2, <2>3, <2>7, Detached
    <2>9. SenderRests(j, {"rxRole"}, {"detach"})
      BY <1>1, <1>2, <1>3, <2>2 DEF SenderRests, SenderHeads
    <2> QED  BY <1>1, <2>2, <2>3, <2>4, <2>8, <2>9, ReceiverHalf
  <1>5. CASE receiver # None
    <2>1. PICK t, n, no, l : /\ t = Rest(j) /\ n = receiver /\ no = FALSE
                             /\ l = (IF started[n] THEN "stopping" ELSE link[n])
      OBVIOUS
    <2>2. n \in Numbers /\ kind[n] = "receiver"  BY <1>5, <2>1, ReceiverKnown
    <2>3. /\ todo' = [todo EXCEPT ![j] = t] /\ held' = [held EXCEPT ![j] = n]
          /\ link' = [link EXCEPT ![n] = l] /\ started' = [started EXCEPT ![n] = no]
      BY <1>5, <2>1 DEF Detach, Await, gui
    <2>4. Leads(j, t, {"rxStopped"}, {"detach"})
      BY <1>1, <2>1, RxLeads, StepNames DEF ControllerInv
    <2>5. /\ link'[n] = l /\ ~started'[n] /\ held'[j] = n
          /\ \A m \in Numbers : m # n => link'[m] = link[m] /\ started'[m] = started[m]
          /\ \A i \in Jobs : i # j => held'[i] = held[i]
      BY <2>1, <2>2, <2>3, SenderKnown
    <2>6. ObjectsInv'
      <3>1. /\ held' = [i \in Jobs |-> held'[i]] /\ link' = [m \in Numbers |-> link'[m]]
            /\ started' = [m \in Numbers |-> started'[m]]
        BY <2>3 DEF ControllerInv, ObjectsInv
      <3>2. ASSUME NEW m \in Numbers
            PROVE  /\ kind'[m] \in {"none", "sender", "receiver"}
                   /\ link'[m] \in {"new", "starting", "up", "stopping", "down", "cut", "lingering"}
                   /\ work'[m] \in BOOLEAN /\ started'[m] \in BOOLEAN
                   /\ kind'[m] = "none" => link'[m] = "new" /\ ~work'[m]
        <4>1. CASE m = n
          <5>1. started'[m] = no  BY <4>1, <2>2, <2>3, SenderKnown
          <5> QED  BY <4>1, <5>1, <2>1, <2>2, <2>5, <1>2 DEF ControllerInv, ObjectsInv
        <4>2. CASE m # n  BY <4>2, <2>5, <1>2 DEF ControllerInv, ObjectsInv
        <4> QED  BY <4>1, <4>2
      <3> QED  BY <3>1, <3>2, <1>2 DEF ControllerInv, ObjectsInv
    <2>7. \A m \in Numbers : ~started'[m]  BY <2>1, <2>5, ReceiverKnown
    <2>8. Ahead(t) = "rxStopped"  BY <2>4 DEF Leads
    <2>9. Detaches(j, t)  BY <1>1, <1>2, <1>5, <2>1, <2>5, <2>7, <2>8 DEF Detaches
    <2>10. ReceiverInv'  BY <1>1, <2>3, <2>4, <2>9, Detached
    <2>11. SenderRests(j, {"rxStopped"}, {"detach"})
      BY <1>1, <1>2, <1>3, <2>2, <2>5 DEF SenderRests, SenderHeads
    <2> QED  BY <1>1, <2>3, <2>4, <2>6, <2>10, <2>11, ReceiverHalf
  <1> QED  BY <1>4, <1>5

\* The engine of the receiver has been stopped, as far as five seconds allowed, or the
\* role is given back.
Winds(j, t) ==
    /\ Ahead(todo[j]) \in {"rxStopped", "rxRole"} /\ last' = last
    /\ Ahead(todo[j]) = "rxStopped" => Ahead(t) = "rxRole" /\ role' = role
    /\ Ahead(todo[j]) = "rxRole" =>
          role' = "sender" /\ Ahead(t) \in {"end", "buildRx", "stats"}
    /\ receiver' = receiver /\ rxStats' = rxStats /\ kind' = kind
    /\ started' = started /\ held' = held
    /\ \A n \in Numbers :
          /\ link'[n] \in {link[n], "down", "lingering"}
          /\ link[n] = "up" => link'[n] = "up"
          /\ Ahead(todo[j]) = "rxStopped" /\ held[j] = n => link'[n] # "stopping"

LEMMA Wound ==
    ASSUME ControllerInv, NEW j \in Jobs, NEW t, NEW next, NEW done,
           done \in {{}, {"rxRole"}}, Ahead(todo[j]) = "rxStopped" => done = {},
           Leads(j, t, next, done), todo[j] # << >>,
           todo' = [todo EXCEPT ![j] = t], Winds(j, t)
    PROVE  ReceiverInv'
  <1>0. last' = last  BY DEF Winds
  <1>1. todo'[j] = t /\ \A i \in Jobs : i # j => todo'[i] = todo[i]
    BY <1>0, ProgramKept DEF ControllerInv
  <1>2. \A s \in Marks \ done : Pending(s) => Pending(s)'
    BY <1>0, ProgramKept DEF ControllerInv
  <1>3. \A i \in Jobs : Ahead(todo[i]) \notin StartHeads
    BY OnlyStops DEF ControllerInv, Winds, StartHeads
  <1>4. receiver = None  BY DEF ControllerInv, ReceiverInv, ReceiverJob, Winds
  <1>5. /\ receiver' = None /\ rxStats' = rxStats /\ kind' = kind
        /\ started' = started /\ held' = held
    BY <1>4 DEF Winds
  <1>6. \A n \in Numbers :
           /\ ~started[n]
           /\ kind[n] = "receiver" => link[n] # "up" /\ link[n] # "starting"
    <2>1. \A n \in Numbers : ReceiverObject(n)  BY DEF ControllerInv, ReceiverInv
    <2> QED  BY <2>1, <1>3, <1>4, SenderKnown DEF ReceiverObject, StartHeads
  <1>7. ASSUME NEW i \in Jobs PROVE ReceiverJob(i)'
    <2>1. CASE i = j
      <3>1. Ahead(t) \in {"rxRole", "end", "buildRx", "stats"}  BY DEF Winds
      <3> QED  BY <2>1, <3>1, <1>1, <1>5 DEF ReceiverJob
    <2>2. CASE i # j
      <3>1. ReceiverJob(i) /\ todo'[i] = todo[i]
        BY <2>2, <1>1 DEF ControllerInv, ReceiverInv
      <3> QED  BY <3>1, <1>3, <1>5 DEF ReceiverJob, StartHeads
    <2> QED  BY <2>1, <2>2
  <1>8. ASSUME NEW n \in Numbers PROVE ReceiverObject(n)'
    <2>1. ReceiverObject(n)  BY DEF ControllerInv, ReceiverInv
    <2>2. /\ link'[n] \in {link[n], "down", "lingering"}
          /\ Ahead(todo[j]) = "rxStopped" /\ held[j] = n => link'[n] # "stopping"
      BY DEF Winds
    <2>3. ASSUME kind[n] = "receiver", link'[n] = "stopping"
          PROVE  \E i \in Jobs : Ahead(todo'[i]) = "rxStopped" /\ held'[i] = n
      <3>1. link[n] = "stopping"  BY <2>2, <2>3
      <3>2. PICK i \in Jobs : Ahead(todo[i]) = "rxStopped" /\ held[i] = n
        BY <2>1, <2>3, <3>1 DEF ReceiverObject
      <3>3. i # j  BY <3>2, <2>2, <2>3
      <3> QED  BY <3>2, <3>3, <1>1, <1>5
    <2> QED  BY <2>2, <2>3, <1>5, <1>6 DEF ReceiverObject
  <1>9. ReceiverFields'
    <2>1. ReceiverFields  BY DEF ControllerInv, ReceiverInv
    <2>3. CASE Ahead(todo[j]) = "rxStopped"
      <3>1. role' = role  BY <2>3 DEF Winds
      <3>2. Pending("rxRole") => Pending("rxRole")'  BY <2>3, <1>2 DEF Marks
      <3> QED  BY <2>1, <3>1, <3>2, <1>4, <1>5 DEF ReceiverFields
    <2>4. CASE Ahead(todo[j]) = "rxRole"
      <3>1. role' = "sender"  BY <2>4 DEF Winds
      <3> QED  BY <3>1, <1>5 DEF ReceiverFields
    <2> QED  BY <2>3, <2>4 DEF Winds
  <1> QED  BY <1>7, <1>8, <1>9 DEF ReceiverInv

\* A stop of the receiver that is awaited leaves its transport closed or lingering.
LEMMA WhatRemains ==
    ASSUME NEW j \in Jobs, RxStopped(j), link[held[j]] = "stopping"
    PROVE  \E live \in BOOLEAN, l \in {"down", "lingering"} :
              /\ work' = [work EXCEPT ![held[j]] = live]
              /\ link' = [link EXCEPT ![held[j]] = l]
  <1>1. PICK left \in Remains :
           /\ link' = [link EXCEPT ![held[j]] = left[1]]
           /\ work' = [work EXCEPT ![held[j]] = left[2]]
    BY DEF RxStopped
  <1>2. PICK l, live : l = left[1] /\ live = left[2]  OBVIOUS
  <1>3. left \in {<<"down", FALSE>>, <<"down", TRUE>>, <<"lingering", TRUE>>}
    BY DEF Remains
  <1>4. l \in {"down", "lingering"} /\ (live = FALSE \/ live = TRUE)
    <2>1. CASE left = <<"down", FALSE>>  BY <1>2, <2>1
    <2>2. CASE left = <<"down", TRUE>>  BY <1>2, <2>2
    <2>3. CASE left = <<"lingering", TRUE>>  BY <1>2, <2>3
    <2> QED  BY <1>3, <2>1, <2>2, <2>3
  <1>5. live \in BOOLEAN  BY <1>4
  <1> QED  BY <1>1, <1>2, <1>4, <1>5

LEMMA RxStoppedKeeps ==
    ASSUME ControllerInv, NEW j \in Jobs, RxStopped(j)
    PROVE  ControllerInv'
  <1>1. At(j, "rxStopped") /\ todo[j] # << >> /\ Ahead(todo[j]) = "rxStopped"
    BY AtIs DEF RxStopped, gui
  <1>2. /\ active' = active /\ engine' = engine /\ stats' = stats /\ last' = last
        /\ receiver' = receiver /\ rxStats' = rxStats /\ role' = role
        /\ kind' = kind /\ started' = started /\ held' = held
    BY DEF RxStopped, txVars, rxVars, gui
  <1>3. last \notin {"transmit", "apply"}
    BY <1>1, RxLeads, StepNames DEF ControllerInv
  <1>4. PICK n : n = held[j]  OBVIOUS
  <1>5. n \in Numbers /\ kind[n] = "receiver"
    BY <1>1, <1>4 DEF ControllerInv, ReceiverInv, ReceiverJob
  <1>6. PICK t : t = Rest(j)  OBVIOUS
  <1>7. todo' = [todo EXCEPT ![j] = t]  BY <1>6 DEF RxStopped, GoOn, gui
  <1>8. Leads(j, t, {"rxRole"}, {})
    BY <1>1, <1>6, RxLeads, StepNames DEF ControllerInv
  <1>9. /\ link'[n] # "stopping" /\ link'[n] \in {link[n], "down", "lingering"}
        /\ link[n] = "up" => link'[n] = "up"
        /\ work'[n] \in BOOLEAN
        /\ \A m \in Numbers : m # n => link'[m] = link[m] /\ work'[m] = work[m]
        /\ link' = [m \in Numbers |-> link'[m]] /\ work' = [m \in Numbers |-> work'[m]]
    <2>1. CASE link[n] = "stopping"
      <3>1. PICK live \in BOOLEAN, l \in {"down", "lingering"} :
               work' = [work EXCEPT ![n] = live] /\ link' = [link EXCEPT ![n] = l]
        BY <2>1, <1>4, WhatRemains
      <3>2. link' = [link EXCEPT ![n] = l]  BY <3>1
      <3>3. link'[n] = l /\ \A m \in Numbers : m # n => link'[m] = link[m]
        BY <3>2, <1>5, SenderKnown
      <3>4. work'[n] = live /\ \A m \in Numbers : m # n => work'[m] = work[m]
        BY <3>1, <1>5, SenderKnown
      <3>5. link' = [m \in Numbers |-> link'[m]] /\ work' = [m \in Numbers |-> work'[m]]
        BY <3>1, <3>2 DEF ControllerInv, ObjectsInv
      <3> QED  BY <2>1, <3>3, <3>4, <3>5
    <2>2. CASE link[n] # "stopping"
      <3>1. link' = link /\ work' = work  BY <2>2, <1>4 DEF RxStopped, gui
      <3> QED  BY <2>2, <3>1, <1>5 DEF ControllerInv, ObjectsInv
    <2> QED  BY <2>1, <2>2
  <1>10. ObjectsInv'
    <2>1. ASSUME NEW m \in Numbers
          PROVE  /\ kind'[m] \in {"none", "sender", "receiver"}
                 /\ link'[m] \in {"new", "starting", "up", "stopping", "down", "cut", "lingering"}
                 /\ work'[m] \in BOOLEAN /\ started'[m] \in BOOLEAN
                 /\ kind'[m] = "none" => link'[m] = "new" /\ ~work'[m]
      BY <1>2, <1>5, <1>9 DEF ControllerInv, ObjectsInv
    <2> QED  BY <2>1, <1>2, <1>9 DEF ControllerInv, ObjectsInv
  <1>11. Ahead(t) = "rxRole"  BY <1>8 DEF Leads
  <1>12. Winds(j, t)
    <2>1. ASSUME NEW m \in Numbers
          PROVE  /\ link'[m] \in {link[m], "down", "lingering"}
                 /\ link[m] = "up" => link'[m] = "up"
                 /\ Ahead(todo[j]) = "rxStopped" /\ held[j] = m => link'[m] # "stopping"
      BY <1>4, <1>9
    <2> QED  BY <2>1, <1>1, <1>2, <1>11 DEF Winds
  <1>13. ReceiverInv'  BY <1>1, <1>7, <1>8, <1>12, Wound
  <1>14. SenderRests(j, {"rxRole"}, {})
    BY <1>1, <1>2, <1>3, <1>5, <1>9 DEF SenderRests, SenderHeads
  <1> QED  BY <1>1, <1>7, <1>8, <1>10, <1>13, <1>14, ReceiverHalf

LEMMA RxRoleKeeps ==
    ASSUME ControllerInv, NEW j \in Jobs, RxRole(j)
    PROVE  ControllerInv'
  <1>1. At(j, "rxRole") /\ todo[j] # << >> /\ Ahead(todo[j]) = "rxRole"
    BY AtIs DEF RxRole, gui
  <1>2. /\ active' = active /\ engine' = engine /\ stats' = stats /\ last' = last
        /\ receiver' = receiver /\ rxStats' = rxStats /\ role' = "sender"
        /\ kind' = kind /\ link' = link /\ work' = work /\ started' = started /\ held' = held
    BY DEF RxRole, txVars, objVars, gui
  <1>3. last \notin {"transmit", "apply"}
    BY <1>1, RxLeads, StepNames DEF ControllerInv
  <1>4. PICK t : t = Rest(j)  OBVIOUS
  <1>5. todo' = [todo EXCEPT ![j] = t]  BY <1>4 DEF RxRole, GoOn, gui
  <1>6. Leads(j, t, {"end", "buildRx", "stats"}, {"rxRole"})
    BY <1>1, <1>4, RxLeads, StepNames DEF ControllerInv
  <1>7. ObjectsInv'  BY <1>2 DEF ControllerInv, ObjectsInv
  <1>8. Ahead(t) \in {"end", "buildRx", "stats"}  BY <1>6 DEF Leads
  <1>9. Winds(j, t)  BY <1>1, <1>2, <1>8 DEF Winds
  <1>10. ReceiverInv'  BY <1>1, <1>5, <1>6, <1>9, Wound
  <1>11. SenderRests(j, {"end", "buildRx", "stats"}, {"rxRole"})
    BY <1>1, <1>2, <1>3 DEF SenderRests, SenderHeads
  <1> QED  BY <1>1, <1>5, <1>6, <1>7, <1>10, <1>11, ReceiverHalf

\* The receiver n is made, named by the fields, and is starting.
ReceiverMade(j, n) ==
    /\ Ahead(todo[j]) = "buildRx" /\ last = "receive" /\ last' = last
    /\ kind[n] = "none" /\ kind'[n] = "receiver" /\ link'[n] = "starting" /\ work'[n]
    /\ receiver' = n /\ role' = "receiver" /\ started' = started
    /\ \A m \in Numbers : m # n => kind'[m] = kind[m] /\ link'[m] = link[m]
    /\ held'[j] = n

LEMMA ReceiverIsMade ==
    ASSUME ControllerInv, NEW j \in Jobs, NEW t, NEW n \in Numbers,
           Leads(j, t, {"listening"}, {}), todo[j] # << >>,
           todo' = [todo EXCEPT ![j] = t], ReceiverMade(j, n)
    PROVE  ReceiverInv'
  <1>0. last' = last  BY DEF ReceiverMade
  <1>1. todo'[j] = t /\ \A i \in Jobs : i # j => todo'[i] = todo[i]
    BY <1>0, ProgramKept DEF ControllerInv
  <1>2. /\ \A i \in Jobs : i # j => Ahead(todo[i]) = "end"
        /\ receiver = None /\ \A m \in Numbers : m # None /\ ~started[m]
    <2>1. receiver = None  BY DEF ControllerInv, ReceiverInv, ReceiverJob, ReceiverMade
    <2> QED  BY <2>1, LoneReceiver, ReceiverKnown, SenderKnown DEF ReceiverMade
  <1>3. Ahead(t) = "listening"  BY DEF Leads
  <1>4. /\ kind[n] = "none" /\ kind'[n] = "receiver" /\ link'[n] = "starting" /\ work'[n]
        /\ receiver' = n /\ role' = "receiver" /\ started' = started /\ held'[j] = n
        /\ \A m \in Numbers : m # n => kind'[m] = kind[m] /\ link'[m] = link[m]
    BY DEF ReceiverMade
  <1>5. ASSUME NEW i \in Jobs PROVE ReceiverJob(i)'
    <2>1. CASE i = j  BY <2>1, <1>1, <1>2, <1>3, <1>4 DEF ReceiverJob
    <2>2. CASE i # j
      <3>1. Ahead(todo'[i]) = "end"  BY <2>2, <1>1, <1>2
      <3> QED  BY <3>1 DEF ReceiverJob
    <2> QED  BY <2>1, <2>2
  <1>6. ASSUME NEW m \in Numbers PROVE ReceiverObject(m)'
    <2>1. CASE m = n  BY <2>1, <1>1, <1>2, <1>3, <1>4 DEF ReceiverObject
    <2>2. CASE m # n
      <3>1. kind[m] = "receiver" => link[m] \notin {"stopping", "starting", "up"}
        BY LoneReceiver, ReceiverKnown, <1>2 DEF ReceiverMade
      <3> QED  BY <2>2, <3>1, <1>2, <1>4 DEF ReceiverObject
    <2> QED  BY <2>1, <2>2
  <1>7. ReceiverFields'
    <2>1. \E i \in Jobs : Ahead(todo'[i]) = "listening"  BY <1>1, <1>3
    <2> QED  BY <2>1, <1>0, <1>2, <1>4 DEF ReceiverFields, ReceiverMade
  <1> QED  BY <1>5, <1>6, <1>7 DEF ReceiverInv

LEMMA BuildRxKeeps ==
    ASSUME ControllerInv, NEW j \in Jobs, BuildRx(j)
    PROVE  ControllerInv'
  <1>1. At(j, "buildRx") /\ todo[j] # << >> /\ Ahead(todo[j]) = "buildRx"
    BY AtIs DEF BuildRx, gui
  <1>2. /\ active' = active /\ engine' = engine /\ stats' = stats /\ last' = last
        /\ rxStats' = rxStats /\ started' = started
    BY DEF BuildRx, txVars, gui
  <1>3. last = "receive" /\ Leads(j, Rest(j), {"listening"}, {})
        /\ Leads(j, StopReception, {"rxStats"}, {})
    BY <1>1, StartLeads, StepNames DEF ControllerInv
  <1>4. ASSUME NEW n \in Numbers, NewReceiver(n), StartEngine(j, n)
        PROVE  ControllerInv'
    <2>1. PICK t, yes : t = Rest(j) /\ yes = TRUE  OBVIOUS
    <2>2. /\ todo' = [todo EXCEPT ![j] = t] /\ held' = [held EXCEPT ![j] = n]
          /\ kind' = [kind EXCEPT ![n] = "receiver"] /\ link' = [link EXCEPT ![n] = "starting"]
          /\ work' = [work EXCEPT ![n] = yes] /\ receiver' = n /\ role' = "receiver"
      BY <1>4, <2>1 DEF NewReceiver, StartEngine, Await
    <2>3. Leads(j, t, {"listening"}, {})  BY <1>3, <2>1
    <2>4. /\ kind[n] = "none" /\ kind'[n] = "receiver" /\ link'[n] = "starting"
          /\ work'[n] /\ work'[n] \in BOOLEAN
          /\ \A m \in Numbers : m # n =>
                kind'[m] = kind[m] /\ link'[m] = link[m] /\ work'[m] = work[m]
          /\ held'[j] = n /\ \A i \in Jobs : i # j => held'[i] = held[i]
      <3>1. kind[n] = "none"  BY <1>4 DEF NewReceiver, New
      <3>2. work'[n] = yes  BY <2>2, SenderKnown
      <3> QED  BY <3>1, <3>2, <2>1, <2>2, SenderKnown
    <2>5. ObjectsInv'
      <3>1. /\ held' = [i \in Jobs |-> held'[i]] /\ link' = [m \in Numbers |-> link'[m]]
            /\ kind' = [m \in Numbers |-> kind'[m]] /\ work' = [m \in Numbers |-> work'[m]]
        BY <2>2 DEF ControllerInv, ObjectsInv
      <3>2. ASSUME NEW m \in Numbers
            PROVE  /\ kind'[m] \in {"none", "sender", "receiver"}
                   /\ link'[m] \in {"new", "starting", "up", "stopping", "down", "cut", "lingering"}
                   /\ work'[m] \in BOOLEAN /\ started'[m] \in BOOLEAN
                   /\ kind'[m] = "none" => link'[m] = "new" /\ ~work'[m]
        BY <2>4, <1>2 DEF ControllerInv, ObjectsInv
      <3> QED  BY <3>1, <3>2, <2>2, <1>2 DEF ControllerInv, ObjectsInv
    <2>6. ReceiverMade(j, n)  BY <1>1, <1>2, <1>3, <2>2, <2>4 DEF ReceiverMade
    <2>7. ReceiverInv'  BY <1>1, <2>2, <2>3, <2>6, ReceiverIsMade
    <2>8. SenderRests(j, {"listening"}, {})
      BY <1>1, <1>2, <1>3, <2>4 DEF SenderRests, SenderHeads
    <2> QED  BY <1>1, <2>2, <2>3, <2>5, <2>7, <2>8, ReceiverHalf
  <1>5. ASSUME GoOn(j, StopReception), UNCHANGED <<kind, link, work, receiver, role, held>>
        PROVE  ControllerInv'
    <2>1. PICK t : t = StopReception  OBVIOUS
    <2>2. todo' = [todo EXCEPT ![j] = t]  BY <1>5, <2>1 DEF GoOn
    <2>3. Leads(j, t, {"rxStats"}, {})  BY <1>3, <2>1
    <2>4. ObjectsInv'  BY <1>2, <1>5 DEF ControllerInv, ObjectsInv
    <2>5. SenderRests(j, {"rxStats"}, {})
      BY <1>1, <1>2, <1>3, <1>5 DEF SenderRests, SenderHeads
    <2>6. ReceiverRests(j, {"rxStats"}, {})
      BY <1>1, <1>2, <1>5 DEF ReceiverRests, ReceiverHeads
    <2> QED  BY <1>1, <2>2, <2>3, <2>4, <2>5, <2>6, BothUntouched
  <1> QED  BY <1>4, <1>5 DEF BuildRx, gui

\* The receiver listens and is started, or has failed to and waits to be stopped.
ReceiverSettles(j, n, t) ==
    /\ Ahead(todo[j]) = "listening" /\ held[j] = n
    /\ last = "receive" /\ last' = last /\ receiver' = receiver /\ role' = role
    /\ kind' = kind /\ work' = work
    /\ \A m \in Numbers : m # n => link'[m] = link[m] /\ started'[m] = started[m]
    /\ Ahead(t) \in {"end", "rxStats"}
    /\ \/ link'[n] = "up" /\ started'[n]
       \/ link'[n] = "down" /\ started'[n] = started[n] /\ Will(t, "detach")

LEMMA ReceiverSettled ==
    ASSUME ControllerInv, NEW j \in Jobs, NEW t, NEW n, NEW next,
           Leads(j, t, next, {}), todo[j] # << >>,
           todo' = [todo EXCEPT ![j] = t], ReceiverSettles(j, n, t)
    PROVE  ReceiverInv'
  <1>0. last' = last  BY DEF ReceiverSettles
  <1>1. todo'[j] = t /\ \A i \in Jobs : i # j => todo'[i] = todo[i]
    BY <1>0, ProgramKept DEF ControllerInv
  <1>2. \A i \in Jobs : i # j => Ahead(todo[i]) = "end"
    BY LoneReceiver DEF ReceiverSettles
  <1>3. /\ n = receiver /\ n \in Numbers /\ kind[n] = "receiver" /\ work[n]
        /\ link[n] = "starting" /\ ~started[n]
    <2>1. n = receiver /\ receiver # None /\ link[receiver] = "starting" /\ work[receiver]
      BY DEF ReceiverSettles, ControllerInv, ReceiverInv, ReceiverJob
    <2> QED  BY <2>1, ReceiverKnown
  <1>4. /\ receiver' = n /\ role' = role /\ kind' = kind /\ work' = work
        /\ \A m \in Numbers : m # n => link'[m] = link[m] /\ started'[m] = started[m]
        /\ \/ link'[n] = "up" /\ started'[n]
           \/ link'[n] = "down" /\ ~started'[n] /\ Will(t, "detach")
    BY <1>3 DEF ReceiverSettles
  <1>5. ASSUME NEW i \in Jobs PROVE ReceiverJob(i)'
    <2>1. CASE i = j  BY <2>1, <1>1 DEF ReceiverJob, ReceiverSettles
    <2>2. CASE i # j
      <3>1. Ahead(todo'[i]) = "end"  BY <2>2, <1>1, <1>2
      <3> QED  BY <3>1 DEF ReceiverJob
    <2> QED  BY <2>1, <2>2
  <1>6. ASSUME NEW m \in Numbers PROVE ReceiverObject(m)'
    <2>1. CASE m = n  BY <2>1, <1>3, <1>4 DEF ReceiverObject
    <2>2. CASE m # n
      <3>1. ~started[m]  BY <2>2, <1>3, ReceiverKnown
      <3>2. kind[m] = "receiver" => link[m] \notin {"stopping", "starting", "up"}
        BY <2>2, <1>3, LoneReceiver, ReceiverKnown DEF ReceiverSettles
      <3> QED  BY <2>2, <3>1, <3>2, <1>4 DEF ReceiverObject
    <2> QED  BY <2>1, <2>2
  <1>7. ReceiverFields'
    <2>1. Will(t, "detach") => Pending("detach")'  BY <1>1 DEF Pending
    <2>2. role = "receiver"
      BY <1>3, SenderKnown DEF ControllerInv, ReceiverInv, ReceiverFields
    <2>3. n # None  BY <1>3, SenderKnown
    <2> QED  BY <2>1, <2>2, <2>3, <1>0, <1>3, <1>4 DEF ReceiverFields, ReceiverSettles
  <1> QED  BY <1>5, <1>6, <1>7 DEF ReceiverInv

LEMMA ListeningKeeps ==
    ASSUME ControllerInv, NEW j \in Jobs, Listening(j)
    PROVE  ControllerInv'
  <1>1. At(j, "listening") /\ todo[j] # << >> /\ Ahead(todo[j]) = "listening"
    BY AtIs DEF Listening, gui
  <1>2. /\ active' = active /\ engine' = engine /\ stats' = stats /\ last' = last
        /\ receiver' = receiver /\ role' = role /\ kind' = kind /\ work' = work /\ held' = held
    BY DEF Listening, txVars, gui
  <1>3. last = "receive" /\ Leads(j, << >>, {"end"}, {})
        /\ Leads(j, StopReception, {"rxStats"}, {})
    BY <1>1, StartLeads, StepNames DEF ControllerInv
  <1>4. PICK n : n = held[j]  OBVIOUS
  <1>5. n \in Numbers /\ kind[n] = "receiver"
    <2>1. n = receiver /\ receiver # None
      BY <1>1, <1>4 DEF ControllerInv, ReceiverInv, ReceiverJob
    <2> QED  BY <2>1, ReceiverKnown
  <1>6. ASSUME NEW t, NEW next, NEW l \in {"up", "down"}, next \in {{"end"}, {"rxStats"}},
               Leads(j, t, next, {}), todo' = [todo EXCEPT ![j] = t],
               link' = [link EXCEPT ![n] = l], rxStats' \in BOOLEAN,
               DOMAIN started' = Numbers, started'[n] \in BOOLEAN,
               started' = [m \in Numbers |-> started'[m]],
               \A m \in Numbers : m # n => started'[m] = started[m],
               \/ l = "up" /\ started'[n]
               \/ l = "down" /\ started'[n] = started[n] /\ Will(t, "detach")
        PROVE  ControllerInv'
    <2>1. /\ link'[n] = l /\ \A m \in Numbers : m # n => link'[m] = link[m]
          /\ link' = [m \in Numbers |-> link'[m]]
      <3>1. link' = [link EXCEPT ![n] = l]  BY <1>6
      <3>2. DOMAIN link' = Numbers /\ link' = [m \in Numbers |-> link'[m]]
        BY <3>1 DEF ControllerInv, ObjectsInv
      <3> QED  BY <3>1, <3>2, <1>5, SenderKnown
    <2>2. ObjectsInv'
      <3>1. ASSUME NEW m \in Numbers
            PROVE  /\ kind'[m] \in {"none", "sender", "receiver"}
                   /\ link'[m] \in {"new", "starting", "up", "stopping", "down", "cut", "lingering"}
                   /\ work'[m] \in BOOLEAN /\ started'[m] \in BOOLEAN
                   /\ kind'[m] = "none" => link'[m] = "new" /\ ~work'[m]
        BY <2>1, <1>2, <1>5, <1>6 DEF ControllerInv, ObjectsInv
      <3> QED  BY <3>1, <2>1, <1>2, <1>6 DEF ControllerInv, ObjectsInv
    <2>3. Ahead(t) \in {"end", "rxStats"}  BY <1>6 DEF Leads
    <2>4. ReceiverSettles(j, n, t)
      BY <1>1, <1>2, <1>3, <1>4, <1>6, <2>1, <2>3 DEF ReceiverSettles
    <2>5. ReceiverInv'  BY <1>1, <1>6, <2>4, ReceiverSettled
    <2>6. SenderRests(j, next, {})
      BY <1>1, <1>2, <1>3, <1>5, <1>6, <2>1 DEF SenderRests, SenderHeads
    <2> QED  BY <1>1, <1>6, <2>2, <2>5, <2>6, ReceiverHalf
  <1>7. CASE /\ link' = [link EXCEPT ![n] = "up"] /\ started' = [started EXCEPT ![n] = TRUE]
             /\ rxStats' = TRUE /\ GoOn(j, << >>)
    <2>1. PICK t, yes, next, l : t = << >> /\ yes = TRUE /\ next = {"end"} /\ l = "up"
      OBVIOUS
    <2>2. todo' = [todo EXCEPT ![j] = t]  BY <1>7, <2>1 DEF GoOn
    <2>3. Leads(j, t, next, {})  BY <1>3, <2>1
    <2>4. started' = [started EXCEPT ![n] = yes] /\ rxStats' \in BOOLEAN
          /\ link' = [link EXCEPT ![n] = l] /\ l \in {"up", "down"}
          /\ next \in {{"end"}, {"rxStats"}}
      BY <1>7, <2>1
    <2>5. /\ started'[n] /\ started'[n] \in BOOLEAN /\ DOMAIN started' = Numbers
          /\ \A m \in Numbers : m # n => started'[m] = started[m]
          /\ started' = [m \in Numbers |-> started'[m]]
      BY <1>5, <2>1, <2>4, SenderKnown DEF ControllerInv, ObjectsInv
    <2> QED  BY <1>6, <2>1, <2>2, <2>3, <2>4, <2>5
  <1>8. CASE /\ link' = [link EXCEPT ![n] = "down"] /\ GoOn(j, StopReception)
             /\ UNCHANGED <<started, rxStats>>
    <2>1. PICK t, next, l : t = StopReception /\ next = {"rxStats"} /\ l = "down"
      OBVIOUS
    <2>2. todo' = [todo EXCEPT ![j] = t]  BY <1>8, <2>1 DEF GoOn
    <2>3. Leads(j, t, next, {}) /\ Will(t, "detach")  BY <1>3, <2>1, StopReceptionIs
    <2>4. rxStats' \in BOOLEAN /\ started' = started
          /\ link' = [link EXCEPT ![n] = l] /\ l \in {"up", "down"}
          /\ next \in {{"end"}, {"rxStats"}}
      BY <1>8, <2>1 DEF ControllerInv, ObjectsInv
    <2>5. /\ started'[n] = started[n] /\ started'[n] \in BOOLEAN /\ DOMAIN started' = Numbers
          /\ \A m \in Numbers : m # n => started'[m] = started[m]
          /\ started' = [m \in Numbers |-> started'[m]]
      BY <1>5, <2>4 DEF ControllerInv, ObjectsInv
    <2> QED  BY <1>6, <2>1, <2>2, <2>3, <2>4, <2>5
  <1> QED  BY <1>4, <1>7, <1>8 DEF Listening, gui

-----------------------------------------------------------------------------
(* A command is given                                                      *)

\* The commands that only stop have the same programs.
LEMMA StopsAlike ==
    ASSUME NEW c \in Stops
    PROVE  Plain(c) = {} /\ AfterTx(c) = {<< >>} /\ AfterRx(c) = {<< >>, T6(<< >>)}
  <1>1. c # "transmit" /\ c # "apply" /\ c # "receive"  BY DEF Stops
  <1> QED  BY <1>1 DEF Plain, AfterTx, AfterRx

LEMMA BodyShaped ==
    ASSUME NEW c \in Starts \cup Stops
    PROVE  /\ Shaped(Body(c), c) /\ Body(c) # << >>
           /\ Ahead(Body(c)) \in {"load", "clear", "clearTx", "stats", "rxStats"}
           /\ c = "shutdown" => \A s \in Marks : Will(Body(c), s)
  <1>1. CASE c = "transmit"
    <2>1. Body(c) \in Plain(c)  BY <1>1, BodyIs, ProgramsOf
    <2>2. Line("clear", Transmit) \in Seq(Steps)  BY ClearLines
    <2>3. Body(c) # << >> /\ Ahead(Body(c)) = "load"  BY <1>1, <2>2, BodyIs, LineIs, StepNames
    <2> QED  BY <1>1, <2>1, <2>3 DEF Shaped
  <1>2. CASE c = "apply"
    <2>1. Body(c) \in Plain(c)  BY <1>2, BodyIs, ProgramsOf
    <2>2. Apply \in Seq(Steps)  BY PlainIs
    <2>3. Body(c) # << >> /\ Ahead(Body(c)) = "clear"  BY <1>2, <2>2, BodyIs, LineIs, StepNames
    <2> QED  BY <1>2, <2>1, <2>3 DEF Shaped
  <1>3. CASE c = "receive"
    <2>1. Body(c) \in Plain(c)  BY <1>3, BodyIs, ProgramsOf
    <2>2. Line("clearRx", Receive) \in Seq(Steps)  BY LineIs, StepNames, PlainIs
    <2>3. Body(c) # << >> /\ Ahead(Body(c)) = "clearTx"
      BY <1>3, <2>2, BodyIs, LineIs, StepNames
    <2> QED  BY <1>3, <2>1, <2>3 DEF Shaped
  <1>4. CASE c = "stopTransport"
    <2>1. c \in Stops  BY <1>4 DEF Stops
    <2>2. PICK e \in AfterTx(c) : e = << >>  BY <2>1, StopsAlike
    <2>3. Body(c) = T6(e)  BY <1>4, <2>2, StopTransportIs DEF Body
    <2>4. Shaped(Body(c), c)  BY <2>3 DEF Shaped
    <2>5. Body(c) # << >> /\ Ahead(Body(c)) = "stats"  BY <1>4, StopTransportIs DEF Body
    <2> QED  BY <1>4, <2>4, <2>5
  <1>5. CASE c = "stopReception"
    <2>1. c \in Stops  BY <1>5 DEF Stops
    <2>2. PICK e \in AfterRx(c) : e = << >>  BY <2>1, StopsAlike
    <2>3. Body(c) = R5(e)  BY <1>5, <2>2, StopReceptionIs DEF Body
    <2>4. Shaped(Body(c), c)  BY <2>3 DEF Shaped
    <2>5. Body(c) # << >> /\ Ahead(Body(c)) = "rxStats"  BY <1>5, StopReceptionIs DEF Body
    <2> QED  BY <1>5, <2>4, <2>5
  <1>6. CASE c = "shutdown"
    <2>1. c \in Stops  BY <1>6 DEF Stops
    <2>2. PICK e \in AfterRx(c) : e = T6(<< >>)  BY <2>1, StopsAlike
    <2>3. Body(c) = R5(e)  BY <1>6, <2>2, StopEverythingIs DEF Body
    <2>4. Shaped(Body(c), c)  BY <2>3 DEF Shaped
    <2>5. /\ Body(c) # << >> /\ Ahead(Body(c)) = "rxStats"
          /\ \A s \in Marks : Will(Body(c), s)
      BY <1>6, StopEverythingIs DEF Body
    <2> QED  BY <2>4, <2>5
  <1> QED  BY <1>1, <1>2, <1>3, <1>4, <1>5, <1>6 DEF Starts, Stops

LEMMA GiveKeeps ==
    ASSUME ControllerInv, ~MayOverlap, NEW j \in Jobs, NEW c \in Commands, Give(j, c)
    PROVE  ControllerInv'
  <1>1. c \in Starts \cup Stops  BY ControllerAssumption
  <1>2. PICK t : t = Body(c)  OBVIOUS
  <1>3. /\ Shaped(t, c) /\ t # << >>
        /\ Ahead(t) \in {"load", "clear", "clearTx", "stats", "rxStats"}
    BY <1>1, <1>2, BodyShaped
  <1>4. /\ todo[j] = << >> /\ (Quiet \/ (c \in Stops /\ last \in Stops))
        /\ todo' = [todo EXCEPT ![j] = t] /\ last' = c
        /\ active' = active /\ engine' = engine /\ stats' = stats /\ receiver' = receiver
        /\ rxStats' = rxStats /\ role' = role /\ kind' = kind /\ link' = link
        /\ work' = work /\ started' = started /\ held' = held
    BY <1>2 DEF Give, txVars, rxVars, objVars
  <1>5. todo'[j] = t /\ \A i \in Jobs : i # j => todo'[i] = todo[i]
    BY <1>4 DEF ControllerInv, ProgramInv
  <1>6. ProgramInv'
    <2>1. todo' = [i \in Jobs |-> todo'[i]]  BY <1>4 DEF ControllerInv, ProgramInv
    <2>2. ASSUME NEW i \in Jobs PROVE Shaped(todo'[i], c)
      <3>1. CASE i = j  BY <3>1, <1>3, <1>5
      <3>2. CASE i # j /\ Quiet
        <4>1. todo'[i] = << >>  BY <3>2, <1>5 DEF Quiet
        <4> QED  BY <4>1 DEF Shaped
      <3>3. CASE i # j /\ c \in Stops /\ last \in Stops
        <4>1. PICK u, d : u = todo[i] /\ d = last  OBVIOUS
        <4>2. Shaped(u, d)  BY <4>1 DEF ControllerInv, ProgramInv
        <4>3. d \in Stops /\ c \in Stops  BY <3>3, <4>1
        <4>4. Plain(d) = Plain(c) /\ AfterTx(d) = AfterTx(c) /\ AfterRx(d) = AfterRx(c)
          BY <4>3, StopsAlike
        <4>5. Shaped(u, c)  BY <4>2, <4>4 DEF Shaped
        <4> QED  BY <4>1, <4>5, <3>3, <1>5
      <3> QED  BY <3>1, <3>2, <3>3, <1>4
    <2>3. ASSUME c \in Starts, NEW i \in Jobs, todo'[i] # << >> PROVE i = j
      <3>1. Quiet  BY <2>3, <1>4 DEF Starts, Stops
      <3> QED  BY <3>1, <2>3, <1>5 DEF Quiet
    <2> QED  BY <2>1, <2>2, <2>3, <1>1, <1>4 DEF ProgramInv
  <1>7. ObjectsInv'  BY <1>4 DEF ControllerInv, ObjectsInv
  <1>8. Ahead(todo[j]) = "end" /\ \A s : ~Will(todo[j], s)  BY <1>4, NothingAhead
  <1>9. ASSUME NEW s, Pending(s) PROVE Pending(s)'
    <2>1. PICK i \in Jobs : Will(todo[i], s)  BY <1>9 DEF Pending
    <2>2. i # j  BY <2>1, <1>8
    <2> QED  BY <2>1, <2>2, <1>5 DEF Pending
  <1>10. \A i \in Jobs : Ahead(todo[i]) # "end" => todo'[i] = todo[i]  BY <1>5, <1>8
  <1>11. SenderInv'
    <2>1. ASSUME NEW i \in Jobs PROVE SenderJob(i)'
      <3>1. CASE i = j  BY <3>1, <1>3, <1>5 DEF SenderJob
      <3>2. CASE i # j
        <4>1. SenderJob(i) /\ todo'[i] = todo[i]
          BY <3>2, <1>5 DEF ControllerInv, SenderInv
        <4> QED  BY <4>1, <1>4 DEF SenderJob
      <3> QED  BY <3>1, <3>2
    <2>2. ASSUME NEW n \in Numbers PROVE SenderObject(n)'
      <3>1. SenderObject(n)  BY DEF ControllerInv, SenderInv
      <3>2. (\E i \in Jobs : Ahead(todo[i]) \in {"bound", "applied"} /\ held[i] = n) =>
               \E i \in Jobs : Ahead(todo'[i]) \in {"bound", "applied"} /\ held'[i] = n
        BY <1>4, <1>10
      <3>3. (\E i \in Jobs : Ahead(todo[i]) = "transportStopped" /\ held[i] = n) =>
               \E i \in Jobs : Ahead(todo'[i]) = "transportStopped" /\ held'[i] = n
        BY <1>4, <1>10
      <3> QED  BY <3>1, <3>2, <3>3, <1>4 DEF SenderObject
    <2>3. SenderFields'
      <3>1. SenderFields  BY DEF ControllerInv, SenderInv
      <3>2. ~Quiet'  BY <1>3, <1>5 DEF Quiet
      <3>3. Pending("engineJoined") => Pending("engineJoined")'  BY <1>9
      <3> QED  BY <3>1, <3>2, <3>3, <1>4 DEF SenderFields
    <2> QED  BY <2>1, <2>2, <2>3 DEF SenderInv
  <1>12. ReceiverInv'
    <2>1. ASSUME NEW i \in Jobs PROVE ReceiverJob(i)'
      <3>1. CASE i = j  BY <3>1, <1>3, <1>5 DEF ReceiverJob
      <3>2. CASE i # j
        <4>1. ReceiverJob(i) /\ todo'[i] = todo[i]
          BY <3>2, <1>5 DEF ControllerInv, ReceiverInv
        <4> QED  BY <4>1, <1>4 DEF ReceiverJob
      <3> QED  BY <3>1, <3>2
    <2>2. ASSUME NEW n \in Numbers PROVE ReceiverObject(n)'
      <3>1. ReceiverObject(n)  BY DEF ControllerInv, ReceiverInv
      <3>2. (\E i \in Jobs : Ahead(todo[i]) = "listening" /\ held[i] = n) =>
               \E i \in Jobs : Ahead(todo'[i]) = "listening" /\ held'[i] = n
        BY <1>4, <1>10
      <3>3. (\E i \in Jobs : Ahead(todo[i]) = "rxStopped" /\ held[i] = n) =>
               \E i \in Jobs : Ahead(todo'[i]) = "rxStopped" /\ held'[i] = n
        BY <1>4, <1>10
      <3> QED  BY <3>1, <3>2, <3>3, <1>4 DEF ReceiverObject
    <2>3. ReceiverFields'
      <3>1. ReceiverFields  BY DEF ControllerInv, ReceiverInv
      <3>2. (\E i \in Jobs : Ahead(todo[i]) = "listening") =>
               \E i \in Jobs : Ahead(todo'[i]) = "listening"
        BY <1>10
      <3>3. /\ Pending("detach") => Pending("detach")'
            /\ Pending("rxRole") => Pending("rxRole")'
        BY <1>9
      <3> QED  BY <3>1, <3>2, <3>3, <1>4 DEF ReceiverFields
    <2> QED  BY <2>1, <2>2, <2>3 DEF ReceiverInv
  <1> QED  BY <1>6, <1>7, <1>11, <1>12 DEF ControllerInv

-----------------------------------------------------------------------------
(* The invariant                                                           *)

LEMMA ControllerInit == Init => ControllerInv
  <1> SUFFICES ASSUME Init PROVE ControllerInv  OBVIOUS
  <1>1. /\ \A j \in Jobs : todo[j] = << >>
        /\ \A n \in Numbers : kind[n] = "none" /\ link[n] = "new" /\ ~work[n] /\ ~started[n]
    BY DEF Init
  <1>2. \A j \in Jobs : Ahead(todo[j]) = "end"  BY <1>1, NothingAhead
  <1>3. ProgramInv
    <2>1. \A j \in Jobs : Shaped(todo[j], last)  BY <1>1 DEF Shaped
    <2>2. last = "none" /\ last \notin Starts  BY DEF Init, Starts
    <2>3. todo = [j \in Jobs |-> todo[j]]  BY DEF Init
    <2> QED  BY <2>1, <2>2, <2>3 DEF ProgramInv
  <1>4. ObjectsInv  BY <1>1 DEF Init, ObjectsInv
  <1>5. SenderInv
    <2>1. \A j \in Jobs : SenderJob(j)  BY <1>2 DEF SenderJob
    <2>2. \A n \in Numbers : SenderObject(n)  BY <1>1 DEF SenderObject
    <2> QED  BY <2>1, <2>2 DEF Init, SenderFields, SenderInv
  <1>6. ReceiverInv
    <2>1. \A j \in Jobs : ReceiverJob(j)  BY <1>2 DEF ReceiverJob
    <2>2. \A n \in Numbers : ReceiverObject(n)  BY <1>1 DEF ReceiverObject
    <2> QED  BY <2>1, <2>2 DEF Init, ReceiverFields, ReceiverInv
  <1> QED  BY <1>3, <1>4, <1>5, <1>6 DEF ControllerInv

\* A step that only the window notices, or nobody.
LEMMA ControllerStutters ==
    ASSUME ControllerInv, UNCHANGED <<txVars, rxVars, objVars, todo, held, last>>
    PROVE  ControllerInv'
  <1>1. /\ active' = active /\ engine' = engine /\ stats' = stats /\ receiver' = receiver
        /\ rxStats' = rxStats /\ role' = role /\ kind' = kind /\ link' = link
        /\ work' = work /\ started' = started /\ todo' = todo /\ held' = held /\ last' = last
    BY DEF txVars, rxVars, objVars
  <1>2. ProgramInv'  BY <1>1 DEF ControllerInv, ProgramInv
  <1>3. ObjectsInv'  BY <1>1 DEF ControllerInv, ObjectsInv
  <1>4. SenderInv'
    <2>1. \A j \in Jobs : SenderJob(j)'  BY <1>1 DEF ControllerInv, SenderInv, SenderJob
    <2>2. \A n \in Numbers : SenderObject(n)'
      BY <1>1 DEF ControllerInv, SenderInv, SenderObject
    <2>3. SenderFields'
      BY <1>1 DEF ControllerInv, SenderInv, SenderFields, Pending, Quiet
    <2> QED  BY <2>1, <2>2, <2>3 DEF SenderInv
  <1>5. ReceiverInv'
    <2>1. \A j \in Jobs : ReceiverJob(j)'
      BY <1>1 DEF ControllerInv, ReceiverInv, ReceiverJob
    <2>2. \A n \in Numbers : ReceiverObject(n)'
      BY <1>1 DEF ControllerInv, ReceiverInv, ReceiverObject
    <2>3. ReceiverFields'
      BY <1>1 DEF ControllerInv, ReceiverInv, ReceiverFields, Pending
    <2> QED  BY <2>1, <2>2, <2>3 DEF ReceiverInv
  <1> QED  BY <1>2, <1>3, <1>4, <1>5 DEF ControllerInv

LEMMA StepKeeps ==
    ASSUME ControllerInv, NEW j \in Jobs, Step(j)
    PROVE  ControllerInv'
  <1>1. CASE StopTransportStep(j)
    BY <1>1, StatsKeeps, StatsJoinedKeeps, EngineStopKeeps, EngineJoinedKeeps,
       TransportStopKeeps, TransportStoppedKeeps DEF StopTransportStep
  <1>2. CASE StopReceptionStep(j)
    BY <1>2, RxStatsKeeps, RxStatsJoinedKeeps, DetachKeeps, RxStoppedKeeps, RxRoleKeeps
    DEF StopReceptionStep
  <1>3. CASE StartStep(j)
    BY <1>3, LoadKeeps, ClearKeeps, BuildTxKeeps, BoundKeeps, SendingKeeps, AppliedKeeps,
       ClearTxKeeps, ClearRxKeeps, BuildRxKeeps, ListeningKeeps DEF StartStep
  <1> QED  BY <1>1, <1>2, <1>3 DEF Step

LEMMA ControllerKept ==
    ASSUME ~MayOverlap
    PROVE  Spec => []ControllerInv
  <1>1. LoopStops \/ UNCHANGED vars => UNCHANGED <<txVars, rxVars, objVars, todo, held, last>>
    BY DEF LoopStops, vars, gui
  <1>2. ControllerInv /\ [Next]_vars => ControllerInv'
    BY <1>1, StepKeeps, GiveKeeps, ControllerStutters DEF Next
  <1> QED  BY <1>2, ControllerInit, PTL DEF Spec

-----------------------------------------------------------------------------
(* Closing the window                                                      *)

\* The coroutine of shutdown() has the step s ahead, and a field waits for that step.
Closes(s) == Will(todo[Closing], s)

Named(s) ==
    \/ s = "statsJoined" /\ stats
    \/ s = "engineJoined" /\ engine # None
    \/ s = "transportStopped" /\ active # None
    \/ s = "rxStatsJoined" /\ rxStats
    \/ s = "detach" /\ receiver # None

\* While the window closes, what its own coroutine has still to do is what there is left
\* to clear, whoever else is stopping.
ClosingInv ==
    window # "open" => last = "shutdown" /\ \A s \in Marks : Named(s) => Closes(s)

LEMMA ClosingKept ==
    ASSUME ProgramInv, ClosingInv, NEW j \in Jobs, NEW t, NEW next, NEW done,
           Leads(j, t, next, done), todo' = [todo EXCEPT ![j] = t],
           last' = last, window' = window,
           \A s \in Marks : Named(s)' => Named(s) /\ s \notin done
    PROVE  ClosingInv'
  <1>1. SUFFICES ASSUME window # "open", NEW s \in Marks, Named(s)'
                 PROVE  Will(todo'[Closing], s)
    BY DEF ClosingInv, Closes
  <1>2. Will(todo[Closing], s) /\ s \notin done  BY <1>1 DEF ClosingInv, Closes
  <1>3. Will(todo[j], s) => Will(t, s)  BY <1>2 DEF Leads
  <1>4. \A i \in Jobs : todo'[i] = IF i = j THEN t ELSE todo[i]  BY DEF ProgramInv
  <1> QED  BY <1>2, <1>3, <1>4, ControllerAssumption

LEMMA SenderStopCloses ==
    ASSUME ControllerInv, ClosingInv, NEW j \in Jobs, window # "closed",
           StopTransportStep(j)
    PROVE  ClosingInv'
  <1>0. ProgramInv  BY DEF ControllerInv
  <1>1. CASE Stats(j)
    <2>1. At(j, "stats") /\ UNCHANGED <<active, engine, stats, receiver, rxStats, last, window>>
      BY <1>1 DEF Stats, txVars, rxVars, gui
    <2>2. PICK t, done : /\ todo' = [todo EXCEPT ![j] = t]
                         /\ \/ t = Rest(j) /\ done = {}
                            \/ t = Tail(Rest(j)) /\ done = {"statsJoined"} /\ ~stats
      BY <1>1 DEF Stats, Await, GoOn
    <2>3. \E next : Leads(j, t, next, done)  BY <1>0, <2>1, <2>2, TxLeads, StepNames
    <2>4. \A s \in Marks : Named(s)' => Named(s) /\ s \notin done  BY <2>1, <2>2 DEF Named
    <2> QED  BY <1>0, <2>1, <2>2, <2>3, <2>4, ClosingKept
  <1>2. CASE StatsJoined(j)
    <2>1. At(j, "statsJoined") /\ UNCHANGED <<active, engine, receiver, rxStats, last, window>>
          /\ ~stats'
      BY <1>2 DEF StatsJoined, rxVars, gui
    <2>2. PICK t, done : t = Rest(j) /\ todo' = [todo EXCEPT ![j] = t] /\ done = {"statsJoined"}
      BY <1>2 DEF StatsJoined, GoOn
    <2>3. \E next : Leads(j, t, next, done)  BY <1>0, <2>1, <2>2, TxLeads, StepNames
    <2>4. \A s \in Marks : Named(s)' => Named(s) /\ s \notin done  BY <2>1, <2>2 DEF Named
    <2> QED  BY <1>0, <2>1, <2>2, <2>3, <2>4, ClosingKept
  <1>3. CASE EngineStop(j)
    <2>1. At(j, "engine") /\ UNCHANGED <<active, stats, receiver, rxStats, last, window>>
          /\ engine' \in {engine, None}
      BY <1>3 DEF EngineStop, rxVars, gui
    <2>2. PICK t, done : /\ todo' = [todo EXCEPT ![j] = t]
                         /\ \/ t = Rest(j) /\ done = {}
                            \/ t = Tail(Rest(j)) /\ done = {"engineJoined"} /\ engine' = None
      BY <1>3 DEF EngineStop, Await, GoOn
    <2>3. \E next : Leads(j, t, next, done)  BY <1>0, <2>1, <2>2, TxLeads, StepNames
    <2>4. \A s \in Marks : Named(s)' => Named(s) /\ s \notin done  BY <2>1, <2>2 DEF Named
    <2> QED  BY <1>0, <2>1, <2>2, <2>3, <2>4, ClosingKept
  <1>4. CASE EngineJoined(j)
    <2>1. At(j, "engineJoined") /\ UNCHANGED <<active, stats, receiver, rxStats, last, window>>
          /\ engine' = None
      BY <1>4 DEF EngineJoined, rxVars, gui
    <2>2. PICK t, done : t = Rest(j) /\ todo' = [todo EXCEPT ![j] = t] /\ done = {"engineJoined"}
      BY <1>4 DEF EngineJoined, GoOn
    <2>3. \E next : Leads(j, t, next, done)  BY <1>0, <2>1, <2>2, TxLeads, StepNames
    <2>4. \A s \in Marks : Named(s)' => Named(s) /\ s \notin done  BY <2>1, <2>2 DEF Named
    <2> QED  BY <1>0, <2>1, <2>2, <2>3, <2>4, ClosingKept
  <1>5. CASE TransportStop(j)
    <2>1. At(j, "transport") /\ UNCHANGED <<engine, stats, receiver, rxStats, last, window>>
          /\ active' \in {active, None}
      BY <1>5 DEF TransportStop, rxVars, gui
    <2>2. PICK t, done : /\ todo' = [todo EXCEPT ![j] = t]
                         /\ \/ t = Rest(j) /\ done = {}
                            \/ t = Tail(Rest(j)) /\ done = {"transportStopped"} /\ active' = None
      BY <1>5 DEF TransportStop, Await, GoOn
    <2>3. \E next : Leads(j, t, next, done)  BY <1>0, <2>1, <2>2, TxLeads, StepNames
    <2>4. \A s \in Marks : Named(s)' => Named(s) /\ s \notin done  BY <2>1, <2>2 DEF Named
    <2> QED  BY <1>0, <2>1, <2>2, <2>3, <2>4, ClosingKept
  <1>6. CASE TransportStopped(j)
    <2>1. At(j, "transportStopped") /\ UNCHANGED <<engine, stats, receiver, rxStats, last>>
      BY <1>6 DEF TransportStopped, rxVars
    <2>2. CASE active' = None /\ GoOn(j, Rest(j)) /\ UNCHANGED window
      <3>1. PICK t, done : /\ t = Rest(j) /\ todo' = [todo EXCEPT ![j] = t]
                           /\ done = {"transportStopped"}
        BY <2>2 DEF GoOn
      <3>2. \E next : Leads(j, t, next, done)  BY <1>0, <2>1, <3>1, TxLeads, StepNames
      <3>3. \A s \in Marks : Named(s)' => Named(s) /\ s \notin done
        BY <2>1, <2>2, <3>1 DEF Named
      <3> QED  BY <1>0, <2>1, <2>2, <3>1, <3>2, <3>3, ClosingKept
    <2>3. CASE StopCancelled(j) /\ j = Closing
      <3>1. window' = "open"  BY <2>3 DEF StopCancelled
      <3> QED  BY <3>1 DEF ClosingInv
    <2>4. CASE StopCancelled(j) /\ j # Closing
      <3>1. window' = window /\ active' = active /\ todo'[Closing] = todo[Closing]
        BY <1>0, <2>4, ControllerAssumption DEF StopCancelled, GoOn, ProgramInv
      <3>2. \A s \in Marks : Named(s)' <=> Named(s)  BY <2>1, <3>1 DEF Named
      <3> QED  BY <2>1, <3>1, <3>2 DEF ClosingInv, Closes
    <2> QED  BY <1>6, <2>2, <2>3, <2>4 DEF TransportStopped
  <1> QED  BY <1>1, <1>2, <1>3, <1>4, <1>5, <1>6 DEF StopTransportStep

LEMMA ReceiverStopCloses ==
    ASSUME ControllerInv, ClosingInv, NEW j \in Jobs, StopReceptionStep(j)
    PROVE  ClosingInv'
  <1>0. ProgramInv  BY DEF ControllerInv
  <1>1. CASE RxStats(j)
    <2>1. At(j, "rxStats")
          /\ UNCHANGED <<active, engine, stats, receiver, rxStats, last, window>>
      BY <1>1 DEF RxStats, txVars, rxVars, gui
    <2>2. PICK t, done : /\ todo' = [todo EXCEPT ![j] = t]
                         /\ \/ t = Rest(j) /\ done = {}
                            \/ t = Tail(Rest(j)) /\ done = {"rxStatsJoined"} /\ ~rxStats
      BY <1>1 DEF RxStats, Await, GoOn
    <2>3. \E next : Leads(j, t, next, done)  BY <1>0, <2>1, <2>2, RxLeads, StepNames
    <2>4. \A s \in Marks : Named(s)' => Named(s) /\ s \notin done  BY <2>1, <2>2 DEF Named
    <2> QED  BY <1>0, <2>1, <2>2, <2>3, <2>4, ClosingKept
  <1>2. CASE RxStatsJoined(j)
    <2>1. At(j, "rxStatsJoined") /\ UNCHANGED <<active, engine, stats, receiver, last, window>>
          /\ ~rxStats'
      BY <1>2 DEF RxStatsJoined, txVars, gui
    <2>2. PICK t, done : t = Rest(j) /\ todo' = [todo EXCEPT ![j] = t] /\ done = {"rxStatsJoined"}
      BY <1>2 DEF RxStatsJoined, GoOn
    <2>3. \E next : Leads(j, t, next, done)  BY <1>0, <2>1, <2>2, RxLeads, StepNames
    <2>4. \A s \in Marks : Named(s)' => Named(s) /\ s \notin done  BY <2>1, <2>2 DEF Named
    <2> QED  BY <1>0, <2>1, <2>2, <2>3, <2>4, ClosingKept
  <1>3. CASE Detach(j)
    <2>1. At(j, "detach") /\ UNCHANGED <<active, engine, stats, rxStats, last, window>>
          /\ receiver' = None
      BY <1>3 DEF Detach, txVars, gui
    <2>2. PICK t, done : /\ todo' = [todo EXCEPT ![j] = t] /\ done = {"detach"}
                         /\ t = Rest(j) \/ t = Tail(Rest(j))
      BY <1>3 DEF Detach, Await, GoOn
    <2>3. \E next : Leads(j, t, next, done)  BY <1>0, <2>1, <2>2, RxLeads, StepNames
    <2>4. \A s \in Marks : Named(s)' => Named(s) /\ s \notin done  BY <2>1, <2>2 DEF Named
    <2> QED  BY <1>0, <2>1, <2>2, <2>3, <2>4, ClosingKept
  <1>4. CASE RxStopped(j) \/ RxRole(j)
    <2>1. /\ At(j, "rxStopped") \/ At(j, "rxRole")
          /\ UNCHANGED <<active, engine, stats, receiver, rxStats, last, window>>
      BY <1>4 DEF RxStopped, RxRole, txVars, rxVars, gui
    <2>2. PICK t : t = Rest(j) /\ todo' = [todo EXCEPT ![j] = t]
      BY <1>4 DEF RxStopped, RxRole, GoOn
    <2>3. \E next, done : Leads(j, t, next, done) /\ done \in {{}, {"rxRole"}}
      BY <1>0, <2>1, <2>2, RxLeads, StepNames
    <2>4. \A s \in Marks : Named(s)' => Named(s) /\ s # "rxRole"  BY <2>1 DEF Named
    <2> QED  BY <1>0, <2>1, <2>2, <2>3, <2>4, ClosingKept
  <1> QED  BY <1>1, <1>2, <1>3, <1>4 DEF StopReceptionStep

\* No start is under way when the window closes.
LEMMA StartCloses ==
    ASSUME ControllerInv, ClosingInv, NEW j \in Jobs, StartStep(j)
    PROVE  ClosingInv'
  <1>1. PICK s \in StartHeads : At(j, s)
    BY DEF StartStep, StartHeads, Load, Clear, BuildTx, Bound, Sending, Applied, ClearTx,
           ClearRx, BuildRx, Listening
  <1>2. last # "shutdown"
    BY <1>1, StartLeads, StepNames DEF ControllerInv, StartHeads
  <1>3. window' = window
    BY DEF StartStep, Load, Clear, BuildTx, Bound, Sending, Applied, ClearTx, ClearRx,
           BuildRx, Listening, gui
  <1> QED  BY <1>2, <1>3 DEF ClosingInv

LEMMA GiveCloses ==
    ASSUME ControllerInv, NEW j \in Jobs, NEW c \in Commands, Give(j, c)
    PROVE  ClosingInv'
  <1>1. CASE c = "shutdown"
    <2>1. PICK t : t = Body(c)  OBVIOUS
    <2>2. /\ todo' = [todo EXCEPT ![j] = t] /\ last' = "shutdown" /\ j = Closing
      BY <1>1, <2>1 DEF Give
    <2>3. todo'[Closing] = t  BY <2>2 DEF ControllerInv, ProgramInv
    <2>4. \A s \in Marks : Will(t, s)  BY <1>1, <2>1, BodyShaped, ControllerAssumption
    <2> QED  BY <2>2, <2>3, <2>4 DEF ClosingInv, Closes
  <1>2. CASE c # "shutdown"
    <2>1. window' = "open"  BY <1>2 DEF Give
    <2> QED  BY <2>1 DEF ClosingInv
  <1> QED  BY <1>1, <1>2

LEMMA ClosingStands ==
    ASSUME ~MayOverlap
    PROVE  Spec => []ClosingInv
  <1>1. Init => ClosingInv  BY DEF Init, ClosingInv
  <1>2. ASSUME ControllerInv, ClosingInv, [Next]_vars PROVE ClosingInv'
    <2>1. ASSUME NEW j \in Jobs, Step(j) PROVE ClosingInv'
      BY <1>2, <2>1, SenderStopCloses, ReceiverStopCloses, StartCloses DEF Step
    <2>2. ASSUME NEW j \in Jobs, NEW c \in Commands, Give(j, c) PROVE ClosingInv'
      BY <1>2, <2>2, GiveCloses
    <2>3. CASE LoopStops \/ UNCHANGED vars
      <3>1. /\ UNCHANGED <<active, engine, stats, receiver, rxStats, todo, last>>
            /\ window' # "open" => window # "open"
        BY <2>3 DEF LoopStops, vars, txVars, rxVars, gui
      <3>2. \A s \in Marks : Named(s)' <=> Named(s)  BY <3>1 DEF Named
      <3> QED  BY <1>2, <3>1, <3>2 DEF ClosingInv, Closes
    <2> QED  BY <1>2, <2>1, <2>2, <2>3 DEF Next
  <1> QED  BY <1>1, <1>2, ControllerKept, PTL DEF Spec

-----------------------------------------------------------------------------
(* What it is for                                                          *)

\* When no coroutine has a step left, nothing is pending and nobody holds an object.
LEMMA AtQuiet ==
    ASSUME Quiet
    PROVE  \A j \in Jobs, s \in Steps : Ahead(todo[j]) # s /\ ~Pending(s)
  <1>1. \A j \in Jobs : todo[j] = << >>  BY DEF Quiet
  <1>2. \A j \in Jobs : Ahead(todo[j]) = "end"  BY <1>1, NothingAhead
  <1>3. \A s : ~Pending(s)  BY <1>1, NothingAhead DEF Pending
  <1> QED  BY <1>2, <1>3 DEF Steps

LEMMA ObjectsAtQuiet ==
    ASSUME ControllerInv, Quiet, NEW n \in Numbers
    PROVE  /\ link[n] = "up" => n \in {active, receiver}
           /\ link[n] \notin {"starting", "stopping"}
           /\ kind[n] = "sender" /\ work[n] => n = engine
  <1>1. SenderObject(n) /\ ReceiverObject(n)
    BY DEF ControllerInv, SenderInv, ReceiverInv
  <1>2. \A j \in Jobs :
           Ahead(todo[j]) \notin {"bound", "applied", "transportStopped", "listening", "rxStopped"}
    BY AtQuiet, StepNames
  <1>3. kind[n] \in {"none", "sender", "receiver"} /\ (kind[n] = "none" => link[n] = "new")
    BY DEF ControllerInv, ObjectsInv
  <1> QED  BY <1>1, <1>2, <1>3 DEF SenderObject, ReceiverObject

LEMMA FieldsAtQuiet ==
    ASSUME ControllerInv, Quiet
    PROVE  /\ engine # None => engine = active /\ link[active] = "up" /\ work[engine]
           /\ last = "transmit" =>
                 engine = active \/ (active # None /\ link[active] = "cut")
           /\ receiver # None =>
                 /\ link[receiver] = "up" /\ started[receiver] /\ work[receiver]
                 /\ role = "receiver"
           /\ receiver = None => role = "sender"
  <1>1. SenderFields /\ ReceiverFields  BY DEF ControllerInv, SenderInv, ReceiverInv
  <1>2. \A j \in Jobs : Ahead(todo[j]) # "listening"  BY AtQuiet, StepNames
  <1>3. \A s \in Steps : ~Pending(s)
    <2>1. \A j \in Jobs : todo[j] = << >>  BY DEF Quiet
    <2> QED  BY <2>1, NothingAhead DEF Pending
  <1>4. ~Pending("engineJoined") /\ ~Pending("detach") /\ ~Pending("rxRole")
    BY <1>3, StepNames
  <1>5. receiver # None => receiver \in Numbers /\ started[receiver]
    BY <1>1, <1>2, <1>4, ReceiverKnown DEF ReceiverFields
  <1>6. role \in {"sender", "receiver"}  BY DEF ControllerInv, ObjectsInv
  <1> QED
    BY <1>1, <1>4, <1>5, <1>6, ReceiverKnown DEF SenderFields, ReceiverFields

\* Whichever steps of the starts fail, and with any number of stops at once, a transport
\* that runs and a run task belong to a field by which the next command stops them. The
\* socket of a stop that was cancelled, and what a stop of the receiver given up after
\* five seconds leaves, are not among them.
THEOREM NothingLeftBehind ==
    ASSUME ~MayOverlap
    PROVE  Spec => []NoResidue
  <1>1. ControllerInv => NoResidue  BY ObjectsAtQuiet DEF NoResidue
  <1> QED  BY <1>1, ControllerKept, PTL

\* A start or an apply that failed at any of its steps leaves no half of a pipeline in
\* the fields: what they name runs, and the role says which of the two it is. A
\* transmission whose clearing was cancelled leaves the cut transport before it.
THEOREM StartsAreWhole ==
    ASSUME ~MayOverlap
    PROVE  Spec => []AllOrNothing
  <1>1. ControllerInv => AllOrNothing  BY FieldsAtQuiet DEF AllOrNothing
  <1> QED  BY <1>1, ControllerKept, PTL

\* When the loop stops because shutdown()'s own coroutine has returned, no field names
\* anything, no run task is alive, and every transport was closed, or is being closed by
\* a stop that it overtook, or was given up by an earlier one; whichever steps failed.
THEOREM ShutdownIsComplete ==
    ASSUME ~MayOverlap
    PROVE  Spec => []ShutdownLeavesNothing
  <1>1. ASSUME ControllerInv, ClosingInv, window = "closed", todo[Closing] = << >>
        PROVE  /\ active = None /\ engine = None /\ receiver = None
               /\ ~stats /\ ~rxStats
               /\ \A n \in Numbers :
                     /\ \/ link[n] \in {"new", "down", "cut", "lingering"}
                        \/ link[n] = "stopping" /\ \E j \in Jobs : todo[j] # << >> /\ held[j] = n
                     /\ kind[n] = "sender" => ~work[n]
    <2>1. \A s \in Marks : ~Named(s)
      BY <1>1, NothingAhead DEF ClosingInv, Closes
    <2>2. active = None /\ engine = None /\ receiver = None /\ ~stats /\ ~rxStats
      BY <2>1, <1>1 DEF Named, Marks, ControllerInv, ObjectsInv
    <2>3. \A j \in Jobs : Ahead(todo[j]) \notin StartHeads
      <3>1. last = "shutdown" /\ ProgramInv  BY <1>1 DEF ClosingInv, ControllerInv
      <3>2. ASSUME NEW j \in Jobs, Ahead(todo[j]) \in StartHeads PROVE FALSE
        <4>1. todo[j] # << >>  BY <3>2, NothingAhead DEF StartHeads
        <4>2. PlainAt(todo[j], last) \/ StageAt(todo[j], last)  BY <3>1, <4>1, ShapeKnown
        <4> QED  BY <3>1, <3>2, <4>2 DEF PlainAt, StageAt, StartHeads
      <3> QED  BY <3>2
    <2>4. \A j \in Jobs :
             Ahead(todo[j]) \in {"transportStopped", "rxStopped"} => todo[j] # << >>
      BY NothingAhead
    <2>5. ASSUME NEW n \in Numbers
          PROVE  /\ \/ link[n] \in {"new", "down", "cut", "lingering"}
                    \/ link[n] = "stopping" /\ \E j \in Jobs : todo[j] # << >> /\ held[j] = n
                 /\ kind[n] = "sender" => ~work[n]
      <3>1. /\ n # None /\ SenderObject(n) /\ ReceiverObject(n)
        BY <1>1, SenderKnown DEF ControllerInv, SenderInv, ReceiverInv
      <3>2. /\ kind[n] \in {"none", "sender", "receiver"}
            /\ link[n] \in {"new", "starting", "up", "stopping", "down", "cut", "lingering"}
            /\ kind[n] = "none" => link[n] = "new"
        BY <1>1 DEF ControllerInv, ObjectsInv
      <3>3. CASE kind[n] = "sender"
        BY <2>2, <2>3, <2>4, <3>1, <3>2, <3>3 DEF SenderObject, StartHeads
      <3>4. CASE kind[n] = "receiver"
        BY <2>2, <2>3, <2>4, <3>1, <3>2, <3>4 DEF ReceiverObject, StartHeads
      <3> QED  BY <3>2, <3>3, <3>4
    <2> QED  BY <2>2, <2>5
  <1>2. ControllerInv /\ ClosingInv => ShutdownLeavesNothing
    BY <1>1 DEF ShutdownLeavesNothing
  <1> QED  BY <1>2, ControllerKept, ClosingStands, PTL

-----------------------------------------------------------------------------
(* Types                                                                   *)

\* Who has the loop has a step to take.
LoopInv ==
    /\ todo = [j \in Jobs |-> todo[j]] /\ cpu \in Jobs \cup {NoJob}
    /\ cpu # NoJob => todo[cpu] # << >>

FieldTypes ==
    /\ {active, engine, receiver} \subseteq Numbers \cup {None}
    /\ stats \in BOOLEAN /\ rxStats \in BOOLEAN /\ role \in {"sender", "receiver"}

ObjectTypes ==
    /\ kind \in [Numbers -> {"none", "sender", "receiver"}]
    /\ link \in [Numbers -> {"new", "starting", "up", "stopping", "down", "cut", "lingering"}]
    /\ work \in [Numbers -> BOOLEAN] /\ started \in [Numbers -> BOOLEAN]
    /\ held \in [Jobs -> Numbers \cup {None}]

LEMMA LoopGoesOn ==
    ASSUME LoopInv, NEW j \in Jobs, NEW t,
           todo' = [todo EXCEPT ![j] = t],
           cpu' = NoJob \/ (cpu' = j /\ t # << >>)
    PROVE  LoopInv'
  <1>1. todo'[j] = t  BY DEF LoopInv
  <1>2. todo' = [i \in Jobs |-> todo'[i]]  BY DEF LoopInv
  <1> QED  BY <1>1, <1>2 DEF LoopInv

LEMMA LoopKept ==
    ASSUME LoopInv, NEW j \in Jobs, NEW t, GoOn(j, t) \/ \E n : Await(j, n, t)
    PROVE  LoopInv'
  BY LoopGoesOn DEF GoOn, Await

\* Each step of a coroutine goes on or waits.
LEMMA StepLoops ==
    ASSUME LoopInv, NEW j \in Jobs, Step(j)
    PROVE  LoopInv'
  <1>1. \E t : GoOn(j, t) \/ \E n : Await(j, n, t)
    <2>1. CASE StopTransportStep(j)
      BY <2>1 DEF StopTransportStep, Stats, StatsJoined, EngineStop, EngineJoined,
                  TransportStop, TransportStopped, StopCancelled
    <2>2. CASE StopReceptionStep(j)
      BY <2>2 DEF StopReceptionStep, RxStats, RxStatsJoined, Detach, RxStopped, RxRole, gui
    <2>3. CASE StartStep(j)
      BY <2>3 DEF StartStep, Load, Clear, BuildTx, Bound, Reject, Run, Sending, Applied,
                  ClearTx, ClearRx, BuildRx, StartEngine, Listening, gui
    <2> QED  BY <2>1, <2>2, <2>3 DEF Step
  <1> QED  BY <1>1, LoopKept

LEMMA GiveLoops ==
    ASSUME LoopInv, NEW j \in Jobs, NEW c \in Commands, Give(j, c)
    PROVE  LoopInv'
  <1>1. PICK t : t = Body(c)  OBVIOUS
  <1>2. todo' = [todo EXCEPT ![j] = t] /\ cpu' = cpu /\ todo[j] = << >>
    BY <1>1 DEF Give
  <1>3. \A i \in Jobs : i # j => todo'[i] = todo[i]  BY <1>2 DEF LoopInv
  <1>4. todo' = [i \in Jobs |-> todo'[i]]  BY <1>2 DEF LoopInv
  <1> QED  BY <1>2, <1>3, <1>4 DEF LoopInv

LEMMA StepTypes ==
    ASSUME FieldTypes, ObjectTypes, NEW j \in Jobs, Step(j)
    PROVE  /\ FieldTypes' /\ ObjectTypes' /\ last' = last
           /\ window' \in {"open", window}
  <1>1. CASE StopTransportStep(j)
    <2>1. CASE Stats(j) \/ StatsJoined(j)
      BY <2>1 DEF Stats, StatsJoined, GoOn, Await, txVars, rxVars, objVars,
                  FieldTypes, ObjectTypes, gui
    <2>2. CASE EngineStop(j)
      BY <2>2 DEF EngineStop, GoOn, Await, rxVars, objVars, FieldTypes, ObjectTypes, gui
    <2>3. CASE EngineJoined(j)
      <3>1. PICK no, n : no = FALSE /\ n = held[j]  OBVIOUS
      <3>2. work' = [work EXCEPT ![n] = no]  BY <2>3, <3>1 DEF EngineJoined, gui
      <3>3. no \in BOOLEAN  BY <3>1
      <3>4. work' \in [Numbers -> BOOLEAN]  BY <3>2, <3>3 DEF ObjectTypes
      <3> QED  BY <2>3, <3>4 DEF EngineJoined, rxVars, FieldTypes, ObjectTypes, gui
    <2>4. CASE TransportStop(j)
      BY <2>4 DEF TransportStop, GoOn, Await, rxVars, FieldTypes, ObjectTypes, gui
    <2>5. CASE TransportStopped(j)
      <3>1. link' = [link EXCEPT ![held[j]] = "down"] \/ link' = [link EXCEPT ![held[j]] = "cut"]
        BY <2>5 DEF TransportStopped, StopCancelled
      <3>2. active' \in {active, None} /\ window' \in {"open", window}
        BY <2>5 DEF TransportStopped, StopCancelled
      <3> QED  BY <2>5, <3>1, <3>2 DEF TransportStopped, rxVars, FieldTypes, ObjectTypes
    <2> QED  BY <1>1, <2>1, <2>2, <2>3, <2>4, <2>5 DEF StopTransportStep
  <1>2. CASE StopReceptionStep(j)
    <2>1. CASE RxStats(j) \/ RxStatsJoined(j) \/ RxRole(j)
      BY <2>1 DEF RxStats, RxStatsJoined, RxRole, GoOn, Await, txVars, rxVars, objVars,
                  FieldTypes, ObjectTypes, gui
    <2>2. CASE Detach(j)
      <3>1. PICK no, n, l : /\ no = FALSE /\ n = receiver
                            /\ l = (IF started[n] THEN "stopping" ELSE link[n])
        OBVIOUS
      <3>2. \/ link' = link /\ started' = started /\ held' = held
            \/ /\ receiver # None
               /\ link' = [link EXCEPT ![n] = l] /\ started' = [started EXCEPT ![n] = no]
               /\ held' = [held EXCEPT ![j] = n]
        BY <2>2, <3>1 DEF Detach, Await, gui
      <3>3. no \in BOOLEAN /\ n \in Numbers \cup {None}
        BY <3>1 DEF FieldTypes
      <3>4. n \in Numbers => l \in {"new", "starting", "up", "stopping", "down", "cut", "lingering"}
        BY <3>1 DEF ObjectTypes
      <3>5. /\ link' \in [Numbers -> {"new", "starting", "up", "stopping", "down", "cut", "lingering"}]
            /\ started' \in [Numbers -> BOOLEAN] /\ held' \in [Jobs -> Numbers \cup {None}]
        BY <3>1, <3>2, <3>3, <3>4 DEF ObjectTypes
      <3> QED  BY <2>2, <3>5 DEF Detach, txVars, FieldTypes, ObjectTypes, gui
    <2>3. CASE RxStopped(j)
      <3>1. PICK n : n = held[j]  OBVIOUS
      <3>2. \/ link' = link /\ work' = work
            \/ \E l \in {"down", "lingering"}, live \in BOOLEAN :
                  /\ link' = [link EXCEPT ![n] = l]
                  /\ work' = [work EXCEPT ![n] = live]
        BY <2>3, <3>1, WhatRemains DEF RxStopped
      <3> QED  BY <2>3, <3>2 DEF RxStopped, txVars, rxVars, FieldTypes, ObjectTypes, gui
    <2> QED  BY <1>2, <2>1, <2>2, <2>3 DEF StopReceptionStep
  <1>3. CASE StartStep(j)
    <2>1. CASE Load(j) \/ Clear(j) \/ ClearTx(j) \/ ClearRx(j) \/ Sending(j)
      BY <2>1 DEF Load, Clear, ClearTx, ClearRx, Sending, GoOn, txVars, rxVars, objVars,
                  FieldTypes, ObjectTypes, gui
    <2>2. CASE BuildTx(j)
      BY <2>2 DEF BuildTx, GoOn, Await, rxVars, FieldTypes, ObjectTypes, gui
    <2>3. CASE Bound(j)
      <3>1. PICK n, yes : n = held[j] /\ yes = TRUE  OBVIOUS
      <3>2. /\ link' = [link EXCEPT ![n] = "up"] \/ link' = [link EXCEPT ![n] = "down"]
            /\ engine' \in {engine, n}
            /\ work' = work \/ work' = [work EXCEPT ![n] = yes]
            /\ held' = held \/ held' = [held EXCEPT ![j] = n]
        BY <2>3, <3>1 DEF Bound, Run, Reject, Await, gui
      <3>3. n \in Numbers \cup {None} /\ yes \in BOOLEAN  BY <3>1 DEF ObjectTypes
      <3>4. /\ link' \in [Numbers -> {"new", "starting", "up", "stopping", "down", "cut", "lingering"}]
            /\ work' \in [Numbers -> BOOLEAN] /\ held' \in [Jobs -> Numbers \cup {None}]
        BY <3>2, <3>3 DEF ObjectTypes
      <3> QED  BY <2>3, <3>2, <3>3, <3>4 DEF Bound, rxVars, FieldTypes, ObjectTypes, gui
    <2>4. CASE Applied(j)
      <3>1. PICK l \in {"up", "down"} : link' = [link EXCEPT ![held[j]] = l]
        BY <2>4 DEF Applied, gui
      <3> QED  BY <2>4, <3>1 DEF Applied, txVars, rxVars, FieldTypes, ObjectTypes, gui
    <2>5. CASE BuildRx(j)
      <3>1. PICK yes : yes = TRUE  OBVIOUS
      <3>2. \/ /\ kind' = kind /\ link' = link /\ work' = work /\ receiver' = receiver
               /\ role' = role /\ held' = held
            \/ \E n \in Numbers :
                  /\ kind' = [kind EXCEPT ![n] = "receiver"] /\ receiver' = n
                  /\ role' = "receiver" /\ work' = [work EXCEPT ![n] = yes]
                  /\ link' = [link EXCEPT ![n] = "starting"]
                  /\ held' = [held EXCEPT ![j] = n]
        BY <2>5, <3>1 DEF BuildRx, NewReceiver, StartEngine, Await, gui
      <3>3. yes \in BOOLEAN  BY <3>1
      <3> QED  BY <2>5, <3>2, <3>3 DEF BuildRx, txVars, FieldTypes, ObjectTypes, gui
    <2>6. CASE Listening(j)
      <3>1. PICK n, yes : n = held[j] /\ yes = TRUE  OBVIOUS
      <3>2. /\ link' = [link EXCEPT ![n] = "up"] \/ link' = [link EXCEPT ![n] = "down"]
            /\ \/ started' = started /\ rxStats' = rxStats
               \/ started' = [started EXCEPT ![n] = yes] /\ rxStats' = TRUE
        BY <2>6, <3>1 DEF Listening, gui
      <3>3. yes \in BOOLEAN  BY <3>1
      <3>4. /\ link' \in [Numbers -> {"new", "starting", "up", "stopping", "down", "cut", "lingering"}]
            /\ started' \in [Numbers -> BOOLEAN] /\ rxStats' \in BOOLEAN
        BY <3>2, <3>3 DEF FieldTypes, ObjectTypes
      <3> QED  BY <2>6, <3>4 DEF Listening, txVars, FieldTypes, ObjectTypes, gui
    <2> QED  BY <1>3, <2>1, <2>2, <2>3, <2>4, <2>5, <2>6 DEF StartStep
  <1>4. last' = last /\ window' \in {"open", window}
    BY DEF Step, StopTransportStep, StopReceptionStep, StartStep, Stats, StatsJoined,
           EngineStop, EngineJoined, TransportStop, TransportStopped, StopCancelled, RxStats, RxStatsJoined,
           Detach, RxStopped, RxRole, Load, Clear, BuildTx, Bound, Sending, Applied, ClearTx,
           ClearRx, BuildRx, Listening, gui
  <1> QED  BY <1>1, <1>2, <1>3, <1>4 DEF Step

\* The fields name objects that can exist, and the coroutine that has the loop has a
\* step to take, whichever commands overlap.
THEOREM ControllerTyped == Spec => []TypeOK
  <1> DEFINE Typed == /\ LoopInv /\ FieldTypes /\ ObjectTypes
                      /\ last \in {"none"} \cup Commands
                      /\ window \in {"open", "closing", "closed"}
  <1>1. Init => Typed
    BY DEF Init, LoopInv, FieldTypes, ObjectTypes
  <1>2. Typed /\ [Next]_vars => Typed'
    <2> SUFFICES ASSUME Typed, [Next]_vars PROVE Typed'  OBVIOUS
    <2>1. ASSUME NEW j \in Jobs, Step(j) PROVE Typed'
      BY <2>1, StepLoops, StepTypes
    <2>2. ASSUME NEW j \in Jobs, NEW c \in Commands, Give(j, c) PROVE Typed'
      <3>1. LoopInv'  BY <2>2, GiveLoops
      <3>2. /\ FieldTypes' /\ ObjectTypes' /\ last' \in Commands
            /\ window' \in {"open", "closing", "closed"}
        BY <2>2 DEF Give, txVars, rxVars, objVars, FieldTypes, ObjectTypes
      <3> QED  BY <3>1, <3>2
    <2>3. CASE LoopStops
      BY <2>3 DEF LoopStops, txVars, rxVars, objVars, LoopInv, FieldTypes, ObjectTypes
    <2>4. CASE UNCHANGED vars
      BY <2>4 DEF vars, txVars, rxVars, objVars, gui, LoopInv, FieldTypes, ObjectTypes
    <2> QED  BY <2>1, <2>2, <2>3, <2>4 DEF Next
  <1>3. Typed => TypeOK  BY DEF LoopInv, FieldTypes, ObjectTypes, TypeOK
  <1> QED  BY <1>1, <1>2, <1>3, PTL DEF Spec

=============================================================================
