-------------------------- MODULE ClientLinkProofs --------------------------
(***************************************************************************)
(* Whatever the number of payloads, starts and faults, and whether or not  *)
(* timeouts are OSErrors and cancellations may be dropped: stop() of both  *)
(* client transports leaves nothing behind, and the server receives what   *)
(* was sent in order, nothing twice, and nothing missing while no fault,   *)
(* timeout or stop has happened.                                           *)
(***************************************************************************)
EXTENDS ClientLink, SequenceTheorems, TLAPS

\* The awaits of the sender's connected loop and of its closing.
SenderAwaits == {"waiting", "draining", "unwatching", "closing"}

\* A transport is running or being stopped, or it has neither task nor
\* connection; stop() closes only after it has joined the task.  A receiver
\* that is in no connection has none open: its stop() does not clear the event.
StopInv ==
    /\ kind \in {"sender", "receiver"}
    /\ running \in BOOLEAN /\ connected \in BOOLEAN
    /\ running => stopper = "idle"
    /\ stopper = "closing" => pc = "none"
    /\ pc = "none" => ~running
    /\ kind = "receiver" /\ pc \in {"none", "connecting", "backoff", "done"}
          => conn = "none" /\ ~connected
    /\ pc \in SenderAwaits => kind = "sender"
    /\ StopLeavesNothing

-----------------------------------------------------------------------------
\* The transport starts with nothing.
LEMMA InitStop == Init => StopInv
  BY DEF Init, StopInv, SenderAwaits, StopLeavesNothing

\* The run task is at work only while the transport runs or is being stopped,
\* and it never takes itself away.
LEMMA RunTaskStop ==
    ASSUME StopInv, RunTask
    PROVE  StopInv'
  <1>1. UNCHANGED <<kind, running, stopper>>  BY DEF RunTask
  <1>2. pc \notin {"none"} /\ (running \/ stopper # "idle") /\ stopper # "closing"
    <2>1. pc # "none"
      BY DEF RunTask, OpenConnection, ConnectFails, Wake, IdleTimeout, TakePayload,
             Drained, DrainFails, WatchJoined, Closed, ReadChunk, ReadEnds, Cancelled
    <2> QED  BY <2>1 DEF StopInv, SenderAwaits, StopLeavesNothing
  <1>3. SUFFICES /\ connected' \in BOOLEAN /\ pc' # "none"
                 /\ kind = "receiver" /\ pc' \in {"connecting", "backoff", "done"}
                       => conn' = "none" /\ ~connected'
                 /\ pc' \in SenderAwaits => kind = "sender"
    BY <1>1, <1>2 DEF StopInv, SenderAwaits, StopLeavesNothing
  <1> USE DEF StopInv, SenderAwaits
  <1>4. CASE OpenConnection
    BY <1>4 DEF OpenConnection, SenderHead, CloseReceiver, NextTry
  <1>5. CASE ConnectFails
    BY <1>5 DEF ConnectFails, CloseNothing, NextTry
  <1>6. CASE Wake  BY <1>6 DEF Wake
  <1>7. CASE ReadChunk
    BY <1>7 DEF ReadChunk, ReceiverHead, CloseReceiver, NextTry
  <1>8. CASE ReadEnds
    BY <1>8 DEF ReadEnds, CloseReceiver, NextTry
  <1>9. CASE Cancelled
    BY <1>9 DEF Cancelled, CloseReceiver, CloseNothing, NextTry
  <1>10. CASE IdleTimeout \/ TakePayload \/ Drained \/ DrainFails \/ WatchJoined \/ Closed
    BY <1>10 DEF IdleTimeout, TakePayload, Drained, DrainFails, WatchJoined, Closed,
                 SenderHead, NextTry
  <1> QED
    BY <1>4, <1>5, <1>6, <1>7, <1>8, <1>9, <1>10 DEF RunTask

\* No step of a caller, of the peer or of the run task breaks it.
LEMMA NextStop == StopInv /\ [Next]_vars => StopInv'
  <1> SUFFICES ASSUME StopInv, [Next]_vars PROVE StopInv'  OBVIOUS
  <1>1. CASE RunTask  BY <1>1, RunTaskStop
  <1>2. CASE Start
    BY <1>2 DEF Start, StopInv, SenderAwaits, StopLeavesNothing
  <1>3. CASE Stop
    BY <1>3 DEF Stop, StopInv, SenderAwaits, StopLeavesNothing, link
  <1>4. CASE StopOverdue
    BY <1>4 DEF StopOverdue, StopInv, SenderAwaits, StopLeavesNothing, link
  <1>5. CASE StopJoined
    <2>1. CASE kind = "sender" /\ conn # "none"
      BY <1>5, <2>1 DEF StopJoined, StopInv, SenderAwaits, StopLeavesNothing
    <2>2. CASE ~(kind = "sender" /\ conn # "none")
      BY <1>5, <2>2 DEF StopJoined, StopInv, SenderAwaits, StopLeavesNothing
    <2> QED  BY <2>1, <2>2
  <1>6. CASE StopCloses
    BY <1>6 DEF StopCloses, StopInv, SenderAwaits, StopLeavesNothing
  <1>7. CASE SetPaused
    BY <1>7 DEF SetPaused, StopInv, SenderAwaits, StopLeavesNothing
  <1>8. CASE Lose
    BY <1>8 DEF Lose, StopInv, SenderAwaits, StopLeavesNothing
  <1>9. CASE Send \/ Receive \/ ServerChanges \/ UNCHANGED vars
    BY <1>9 DEF Send, Receive, ServerChanges, vars, link, StopInv, SenderAwaits, StopLeavesNothing
  <1> QED
    BY <1>1, <1>2, <1>3, <1>4, <1>5, <1>6, <1>7, <1>8, <1>9 DEF Next

\* When stop() has returned no task, connection or connected_event is left.
THEOREM StopComplete == Spec => []StopLeavesNothing
  <1>1. StopInv => StopLeavesNothing  BY DEF StopInv
  <1> QED  BY <1>1, InitStop, NextStop, PTL DEF Spec

-----------------------------------------------------------------------------
(* The order of the payloads.                                              *)

Payloads == 1..MaxPayloads

\* The numbers of a sequence grow, those of s are below those of t, none is above n.
Rising(s) == \A i, j \in 1..Len(s) : i < j => s[i] < s[j]
Precedes(s, t) == \A i \in 1..Len(s), j \in 1..Len(t) : s[i] < t[j]
UpTo(s, n) == \A i \in 1..Len(s) : s[i] =< n

\* Received, on the way, queued: three runs of numbers, one after the other,
\* none of a call of send() that has not been made.
OrderInv ==
    /\ Rising(got) /\ Rising(wire) /\ Rising(outbound)
    /\ Precedes(got, wire) /\ Precedes(got, outbound) /\ Precedes(wire, outbound)
    /\ UpTo(got, puts) /\ UpTo(wire, puts) /\ UpTo(outbound, puts)
    /\ clean => Len(got) + Len(wire) + Len(outbound) = puts

\* TypeOK without the three sequences.
ControlOK ==
    /\ kind \in {"sender", "receiver"} /\ {running, cancelled, connected} \subseteq BOOLEAN
    /\ {paused, clean, up} \subseteq BOOLEAN
    /\ pc \in {"none", "connecting", "backoff", "done"} \cup
              (IF kind = "sender" THEN SenderAwaits ELSE {"gated", "reading"})
    /\ out \in {"go", "leave"} /\ conn \in {"none", "open", "broken"}
    /\ stopper \in {"idle", "joining", "overdue", "closing"}
    /\ connected => conn # "none"
    /\ wire # <<>> => conn = "open"
    /\ puts \in 0..MaxPayloads /\ starts \in 0..MaxStarts /\ faults \in 0..MaxFaults

\* A receiver sends nothing, the sender's connected loop has a connection, and
\* while nothing can have been lost it is open and nobody is closing it.
QuietInv ==
    /\ kind = "receiver" => outbound = <<>> /\ wire = <<>>
    /\ pc \in SenderAwaits => conn # "none"
    /\ clean => /\ conn # "broken" /\ stopper = "idle"
                /\ pc \notin {"unwatching", "closing"}
                /\ pc # "none" => running

DataOK == got \in Seq(Payloads) /\ wire \in Seq(Payloads) /\ outbound \in Seq(Payloads)

LinkInv == ControlOK /\ DataOK /\ StopInv /\ QuietInv /\ OrderInv

\* The transports start with nothing queued.
LEMMA InitLink == Init => LinkInv
  <1> SUFFICES ASSUME Init PROVE LinkInv  OBVIOUS
  <1>1. StopInv  BY InitStop
  <1>2. <<>> \in Seq(Payloads)  BY EmptySeq
  <1>3. ControlOK
    <2>1. /\ puts \in 0..MaxPayloads /\ starts \in 0..MaxStarts /\ faults \in 0..MaxFaults
          /\ up \in BOOLEAN
      BY ClientAssumption DEF Init
    <2> QED  BY <2>1 DEF Init, ControlOK
  <1>6. QuietInv
    BY DEF Init, QuietInv, SenderAwaits
  <1>4. DataOK  BY <1>2 DEF Init, DataOK
  <1>5. OrderInv
    BY DEF Init, OrderInv, Rising, Precedes, UpTo
  <1> QED  BY <1>1, <1>3, <1>4, <1>5, <1>6 DEF LinkInv

\* No step takes a control variable out of its type, leaves a connected_event
\* without a connection or payloads on a connection that is not open.
LEMMA NextControl ==
    ASSUME ControlOK, StopInv, QuietInv, [Next]_vars
    PROVE  ControlOK'
  <1> USE ClientAssumption DEF ControlOK, StopInv, QuietInv, SenderAwaits
  <1>1. CASE RunTask
    <2> USE DEF RunTask, bounds
    <2>1. CASE OpenConnection
      <3>1. CASE kind = "sender"
        BY <1>1, <2>1, <3>1 DEF OpenConnection, SenderHead, Finished, data
      <3>2. CASE kind # "sender"
        BY <1>1, <2>1, <3>2 DEF OpenConnection, CloseReceiver, NextTry, Finished, data
      <3> QED  BY <3>1, <3>2
    <2>2. CASE ConnectFails
      BY <1>1, <2>2 DEF ConnectFails, CloseNothing, NextTry, Undisturbed, AfterTimeout, data
    <2>3. CASE Wake  BY <1>1, <2>3 DEF Wake, Undisturbed, data
    <2>4. CASE IdleTimeout  BY <1>1, <2>4 DEF IdleTimeout, SenderHead, Undisturbed, data
    <2>5. CASE TakePayload  BY <1>1, <2>5 DEF TakePayload, Finished
    <2>6. CASE Drained  BY <1>1, <2>6 DEF Drained, SenderHead, Finished, data
    <2>7. CASE DrainFails  BY <1>1, <2>7 DEF DrainFails, Undisturbed, AfterTimeout, data
    <2>8. CASE WatchJoined  BY <1>1, <2>8 DEF WatchJoined, Undisturbed, data
    <2>9. CASE Closed  BY <1>1, <2>9 DEF Closed, Finished, NextTry, CloseWire
    <2>10. CASE ReadChunk
      BY <1>1, <2>10 DEF ReadChunk, ReceiverHead, CloseReceiver, NextTry, Undisturbed, data
    <2>11. CASE ReadEnds
      BY <1>1, <2>11 DEF ReadEnds, CloseReceiver, NextTry, Undisturbed, data
    <2>12. CASE Cancelled
      BY <1>1, <2>12 DEF Cancelled, CloseReceiver, CloseNothing, NextTry, data
    <2> QED
      BY <1>1, <2>1, <2>2, <2>3, <2>4, <2>5, <2>6, <2>7, <2>8, <2>9, <2>10, <2>11, <2>12
  <1>2. CASE Start  BY <1>2 DEF Start, data
  <1>3. CASE Stop  BY <1>3 DEF Stop, link, data, bounds
  <1>4. CASE StopOverdue  BY <1>4 DEF StopOverdue, link, data, bounds
  <1>5. CASE StopJoined
    <2>1. CASE kind = "sender" /\ conn # "none"
      BY <1>5, <2>1 DEF StopJoined, data, bounds
    <2>2. CASE ~(kind = "sender" /\ conn # "none")
      BY <1>5, <2>2 DEF StopJoined, data, bounds
    <2> QED  BY <2>1, <2>2
  <1>6. CASE StopCloses  BY <1>6 DEF StopCloses, CloseWire, bounds
  <1>7. CASE SetPaused  BY <1>7 DEF SetPaused, data, bounds
  <1>8. CASE Lose
    <2>1. UNCHANGED <<kind, running, pc, cancelled, out, connected, stopper, paused, up,
                      puts, starts>>  BY <1>8 DEF Lose
    <2>2. conn = "open" /\ conn' = "broken" /\ wire' = <<>> /\ clean' = FALSE
      BY <1>8 DEF Lose
    <2>3. faults' \in 0..MaxFaults  BY <1>8 DEF Lose
    <2> QED  BY <2>1, <2>2, <2>3
  <1>9. CASE Send  BY <1>9 DEF Send, link
  <1>10. CASE Receive  BY <1>10 DEF Receive, link, bounds
  <1>11. CASE ServerChanges  BY <1>11 DEF ServerChanges, link, data
  <1>12. CASE UNCHANGED vars  BY <1>12 DEF vars, link, data, bounds
  <1> QED
    BY <1>1, <1>2, <1>3, <1>4, <1>5, <1>6, <1>7, <1>8, <1>9, <1>10, <1>11, <1>12 DEF Next

\* As long as nothing has been cancelled or lost no step starts a closing.
LEMMA NextQuiet ==
    ASSUME ControlOK, StopInv, QuietInv, [Next]_vars
    PROVE  QuietInv'
  <1> USE DEF ControlOK, StopInv, QuietInv, SenderAwaits
  <1>1. CASE RunTask
    <2> USE DEF RunTask, bounds
    <2>1. CASE OpenConnection
      <3>1. CASE kind = "sender"
        BY <1>1, <2>1, <3>1 DEF OpenConnection, SenderHead, Finished, data
      <3>2. CASE kind # "sender"
        BY <1>1, <2>1, <3>2 DEF OpenConnection, CloseReceiver, NextTry, Finished, data
      <3> QED  BY <3>1, <3>2
    <2>2. CASE ConnectFails
      BY <1>1, <2>2 DEF ConnectFails, CloseNothing, NextTry, Undisturbed, AfterTimeout, data
    <2>3. CASE Wake  BY <1>1, <2>3 DEF Wake, Undisturbed, data
    <2>4. CASE IdleTimeout  BY <1>1, <2>4 DEF IdleTimeout, SenderHead, Undisturbed, data
    <2>5. CASE TakePayload  BY <1>1, <2>5 DEF TakePayload, Finished
    <2>6. CASE Drained  BY <1>1, <2>6 DEF Drained, SenderHead, Finished, data
    <2>7. CASE DrainFails  BY <1>1, <2>7 DEF DrainFails, Undisturbed, AfterTimeout, data
    <2>8. CASE WatchJoined  BY <1>1, <2>8 DEF WatchJoined, Undisturbed, data
    <2>9. CASE Closed  BY <1>1, <2>9 DEF Closed, Finished, NextTry, CloseWire
    <2>10. CASE ReadChunk
      BY <1>1, <2>10 DEF ReadChunk, ReceiverHead, CloseReceiver, NextTry, Undisturbed, data
    <2>11. CASE ReadEnds
      BY <1>1, <2>11 DEF ReadEnds, CloseReceiver, NextTry, Undisturbed, data
    <2>12. CASE Cancelled
      BY <1>1, <2>12 DEF Cancelled, CloseReceiver, CloseNothing, NextTry, data
    <2> QED
      BY <1>1, <2>1, <2>2, <2>3, <2>4, <2>5, <2>6, <2>7, <2>8, <2>9, <2>10, <2>11, <2>12
  <1>2. CASE Start  BY <1>2 DEF Start, data
  <1>3. CASE Stop  BY <1>3 DEF Stop, link, data, bounds
  <1>4. CASE StopOverdue  BY <1>4 DEF StopOverdue, link, data, bounds
  <1>5. CASE StopJoined  BY <1>5 DEF StopJoined, data, bounds
  <1>6. CASE StopCloses  BY <1>6 DEF StopCloses, CloseWire, bounds
  <1>7. CASE SetPaused  BY <1>7 DEF SetPaused, data, bounds
  <1>8. CASE Lose  BY <1>8 DEF Lose
  <1>9. CASE Send  BY <1>9 DEF Send, link
  <1>10. CASE Receive  BY <1>10 DEF Receive, link, bounds
  <1>11. CASE ServerChanges  BY <1>11 DEF ServerChanges, link, data
  <1>12. CASE UNCHANGED vars  BY <1>12 DEF vars, link, data, bounds
  <1> QED
    BY <1>1, <1>2, <1>3, <1>4, <1>5, <1>6, <1>7, <1>8, <1>9, <1>10, <1>11, <1>12 DEF Next

-----------------------------------------------------------------------------
\* The payloads are where they were: a step that touches none of them keeps the order.
LEMMA KeepOrder ==
    ASSUME DataOK, OrderInv, UNCHANGED <<data, puts>>, clean' => clean
    PROVE  DataOK' /\ OrderInv'
  BY DEF DataOK, OrderInv, data, Rising, Precedes, UpTo

\* The three sequences hold numbers.
LEMMA Numbers ==
    ASSUME DataOK
    PROVE  /\ Len(got) \in Nat /\ \A i \in 1..Len(got) : got[i] \in Payloads /\ got[i] \in Int
           /\ Len(wire) \in Nat /\ \A i \in 1..Len(wire) : wire[i] \in Payloads /\ wire[i] \in Int
           /\ Len(outbound) \in Nat
           /\ \A i \in 1..Len(outbound) : outbound[i] \in Payloads /\ outbound[i] \in Int
  <1>1. Len(got) \in Nat /\ Len(wire) \in Nat /\ Len(outbound) \in Nat
    BY LenProperties DEF DataOK
  <1>2. /\ \A i \in 1..Len(got) : got[i] \in Payloads
        /\ \A i \in 1..Len(wire) : wire[i] \in Payloads
        /\ \A i \in 1..Len(outbound) : outbound[i] \in Payloads
    BY ElementOfSeq DEF DataOK
  <1>3. \A n \in Payloads : n \in Int  BY DEF Payloads
  <1> QED  BY <1>1, <1>2, <1>3

\* send() puts the next number behind all others.
LEMMA SendOrder ==
    ASSUME ControlOK, DataOK, OrderInv, Send
    PROVE  DataOK' /\ OrderInv'
  <1>1. /\ puts + 1 \in Payloads /\ puts \in Nat /\ puts' = puts + 1
        /\ outbound' = Append(outbound, puts + 1) /\ UNCHANGED <<wire, got, clean>>
    BY ClientAssumption DEF Send, ControlOK, Payloads
  <1>2. /\ outbound' \in Seq(Payloads) /\ Len(outbound') = Len(outbound) + 1
        /\ Len(outbound) \in Nat
        /\ \A i \in 1..Len(outbound) : outbound'[i] = outbound[i]
        /\ outbound'[Len(outbound) + 1] = puts + 1
    BY <1>1, AppendProperties, LenProperties DEF DataOK
  <1>3. /\ \A i \in 1..Len(got) : got[i] \in Int /\ got[i] =< puts
        /\ \A i \in 1..Len(wire) : wire[i] \in Int /\ wire[i] =< puts
        /\ \A i \in 1..Len(outbound) : outbound[i] \in Int /\ outbound[i] =< puts
    BY Numbers DEF OrderInv, UpTo
  <1>4. Rising(outbound')
    BY <1>1, <1>2, <1>3, SMTT(30) DEF OrderInv, Rising
  <1>5. Precedes(got, outbound') /\ Precedes(wire, outbound')
    BY <1>1, <1>2, <1>3, SMTT(30) DEF OrderInv, Precedes
  <1>6. UpTo(got, puts') /\ UpTo(wire, puts') /\ UpTo(outbound', puts')
    BY <1>1, <1>2, <1>3 DEF UpTo
  <1>7. Len(got) \in Nat /\ Len(wire) \in Nat
    BY Numbers
  <1>8. clean' => Len(got') + Len(wire') + Len(outbound') = puts'
    <2>1. clean => Len(got) + Len(wire) + Len(outbound) = puts  BY DEF OrderInv
    <2> QED  BY <1>1, <1>2, <1>7, <2>1
  <1>9. DataOK'  BY <1>1, <1>2 DEF DataOK
  <1>10. got' = got /\ wire' = wire  BY <1>1
  <1>11. Rising(got) /\ Rising(wire) /\ Precedes(got, wire)  BY DEF OrderInv
  <1>12. OrderInv'
    BY <1>4, <1>5, <1>6, <1>8, <1>10, <1>11 DEF OrderInv
  <1> QED  BY <1>9, <1>12

\* The first of s goes behind those of t: s was queued and t is on the wire, or
\* s is on the wire and t has been received.
LEMMA MoveHead ==
    ASSUME NEW s \in Seq(Payloads), NEW t \in Seq(Payloads), s # <<>>,
           Rising(s), Rising(t), Precedes(t, s)
    PROVE  /\ Tail(s) \in Seq(Payloads) /\ Append(t, Head(s)) \in Seq(Payloads)
           /\ Len(s) \in Nat /\ Len(t) \in Nat
           /\ Len(Tail(s)) = Len(s) - 1 /\ Len(Append(t, Head(s))) = Len(t) + 1
           /\ \A i \in 1..Len(Tail(s)) : Tail(s)[i] = s[i + 1]
           /\ \A i \in 1..Len(Append(t, Head(s))) :
                 Append(t, Head(s))[i] = IF i = Len(t) + 1 THEN s[1] ELSE t[i]
           /\ Rising(Tail(s)) /\ Rising(Append(t, Head(s)))
           /\ Precedes(Append(t, Head(s)), Tail(s)) /\ Precedes(t, Tail(s))
           /\ \A n \in Int : UpTo(s, n) => UpTo(Tail(s), n)
           /\ \A n \in Int : UpTo(s, n) /\ UpTo(t, n) => UpTo(Append(t, Head(s)), n)
  <1>1. /\ Len(s) \in Nat \ {0} /\ Len(t) \in Nat
        /\ \A i \in 1..Len(s) : s[i] \in Payloads
        /\ \A i \in 1..Len(t) : t[i] \in Payloads
    BY LenProperties, ElementOfSeq, EmptySeq
  <1>2. \A n \in Payloads : n \in Int  BY DEF Payloads
  <1>3. /\ Head(s) = s[1] /\ s[1] \in Payloads
        /\ Tail(s) \in Seq(Payloads) /\ Len(Tail(s)) = Len(s) - 1
        /\ \A i \in 1..Len(Tail(s)) : Tail(s)[i] = s[i + 1]
    BY <1>1, HeadTailProperties
  <1>4. /\ Append(t, Head(s)) \in Seq(Payloads) /\ Len(Append(t, Head(s))) = Len(t) + 1
        /\ \A i \in 1..Len(t) : Append(t, Head(s))[i] = t[i]
        /\ Append(t, Head(s))[Len(t) + 1] = s[1]
    BY <1>3, AppendProperties
  <1> DEFINE q == Tail(s)
             r == Append(t, Head(s))
  <1>5. /\ \A i \in 1..Len(q) : q[i] = s[i + 1] /\ i + 1 \in 1..Len(s)
        /\ \A i \in 1..Len(r) : r[i] = IF i = Len(t) + 1 THEN s[1] ELSE t[i]
        /\ \A i \in 1..Len(r) : i # Len(t) + 1 => i \in 1..Len(t)
        /\ 1 \in 1..Len(s)
    BY <1>1, <1>3, <1>4
  <1>6. Len(q) = Len(s) - 1 /\ Len(r) = Len(t) + 1  BY <1>3, <1>4
  <1> HIDE DEF q, r
  <1>7. Rising(q)
    <2> SUFFICES ASSUME NEW i \in 1..Len(q), NEW j \in 1..Len(q), i < j PROVE q[i] < q[j]
      BY DEF Rising
    <2>1. i + 1 \in 1..Len(s) /\ j + 1 \in 1..Len(s) /\ i + 1 < j + 1  BY <1>1, <1>6
    <2>2. s[i + 1] < s[j + 1]  BY <2>1 DEF Rising
    <2> QED  BY <1>5, <2>2
  <1>8. Rising(r)
    <2> SUFFICES ASSUME NEW i \in 1..Len(r), NEW j \in 1..Len(r), i < j PROVE r[i] < r[j]
      BY DEF Rising
    <2>1. i \in 1..Len(t) /\ r[i] = t[i]  BY <1>1, <1>5, <1>6
    <2>2. CASE j = Len(t) + 1  BY <1>5, <2>1, <2>2 DEF Precedes
    <2>3. CASE j # Len(t) + 1  BY <1>5, <2>1, <2>3 DEF Rising
    <2> QED  BY <2>2, <2>3
  <1>9. Precedes(r, q)
    <2> SUFFICES ASSUME NEW i \in 1..Len(r), NEW j \in 1..Len(q) PROVE r[i] < q[j]
      BY DEF Precedes
    <2>1. j + 1 \in 1..Len(s) /\ 1 < j + 1 /\ q[j] = s[j + 1]  BY <1>1, <1>5, <1>6
    <2>2. CASE i = Len(t) + 1  BY <1>5, <2>1, <2>2 DEF Rising
    <2>3. CASE i # Len(t) + 1  BY <1>5, <2>1, <2>3 DEF Precedes
    <2> QED  BY <2>2, <2>3
  <1>10. Precedes(t, q)  BY <1>1, <1>2, <1>5, <1>6 DEF Precedes
  <1>11. \A n \in Int : UpTo(s, n) => UpTo(q, n)  BY <1>1, <1>5, <1>6 DEF UpTo
  <1>12. \A n \in Int : UpTo(s, n) /\ UpTo(t, n) => UpTo(r, n)  BY <1>1, <1>5, <1>6 DEF UpTo
  <1> QED
    BY <1>1, <1>3, <1>4, <1>5, <1>7, <1>8, <1>9, <1>10, <1>11, <1>12 DEF q, r

\* The server receives the first of what is on the wire.
LEMMA ReceiveOrder ==
    ASSUME ControlOK, DataOK, OrderInv, Receive
    PROVE  DataOK' /\ OrderInv'
  <1>1. /\ wire # <<>> /\ got' = Append(got, Head(wire)) /\ wire' = Tail(wire)
        /\ UNCHANGED <<outbound, clean, puts>>
    BY DEF Receive, bounds
  <1>2. /\ wire' \in Seq(Payloads) /\ got' \in Seq(Payloads)
        /\ Len(wire') = Len(wire) - 1 /\ Len(got') = Len(got) + 1
        /\ \A i \in 1..Len(wire') : wire'[i] = wire[i + 1]
        /\ \A i \in 1..Len(got') : got'[i] = IF i = Len(got) + 1 THEN wire[1] ELSE got[i]
        /\ Rising(wire') /\ Rising(got') /\ Precedes(got', wire')
        /\ \A n \in Int : UpTo(wire, n) => UpTo(wire', n)
        /\ \A n \in Int : UpTo(wire, n) /\ UpTo(got, n) => UpTo(got', n)
    <2>1. wire \in Seq(Payloads) /\ got \in Seq(Payloads)  BY DEF DataOK
    <2>2. Rising(wire) /\ Rising(got) /\ Precedes(got, wire)  BY DEF OrderInv
    <2>3. wire # <<>>  BY <1>1
    <2> DEFINE q == Tail(wire)
               r == Append(got, Head(wire))
    <2>4. /\ q \in Seq(Payloads) /\ r \in Seq(Payloads)
          /\ Len(q) = Len(wire) - 1 /\ Len(r) = Len(got) + 1
          /\ \A i \in 1..Len(q) : q[i] = wire[i + 1]
          /\ \A i \in 1..Len(r) : r[i] = IF i = Len(got) + 1 THEN wire[1] ELSE got[i]
          /\ Rising(q) /\ Rising(r) /\ Precedes(r, q)
          /\ \A n \in Int : UpTo(wire, n) => UpTo(q, n)
          /\ \A n \in Int : UpTo(wire, n) /\ UpTo(got, n) => UpTo(r, n)
      BY <2>1, <2>2, <2>3, MoveHead
    <2>5. wire' = q /\ got' = r  BY <1>1
    <2> QED  BY <2>4, <2>5
  <1>3. Len(wire) \in Nat \ {0} /\ Len(got) \in Nat /\ Len(outbound) \in Nat /\ puts \in Int
    BY <1>1, Numbers, EmptySeq DEF DataOK, ControlOK
  <1>4. Precedes(wire', outbound) /\ Precedes(got', outbound)
    <2>1. \A i \in 1..Len(wire') : i + 1 \in 1..Len(wire) /\ wire'[i] = wire[i + 1]
      BY <1>2, <1>3
    <2>2. \A i \in 1..Len(got') :
             \/ i \in 1..Len(got) /\ got'[i] = got[i]
             \/ 1 \in 1..Len(wire) /\ got'[i] = wire[1]
      BY <1>2, <1>3
    <2>3. Precedes(wire, outbound) /\ Precedes(got, outbound)  BY DEF OrderInv
    <2> QED  BY <2>1, <2>2, <2>3 DEF Precedes
  <1>5. UpTo(wire', puts) /\ UpTo(got', puts)
    BY <1>2, <1>3 DEF OrderInv
  <1>6. clean => Len(got') + Len(wire') + Len(outbound) = puts
    <2>1. clean => Len(got) + Len(wire) + Len(outbound) = puts  BY DEF OrderInv
    <2>2. Len(wire') = Len(wire) - 1 /\ Len(got') = Len(got) + 1  BY <1>2
    <2> QED  BY <1>3, <2>1, <2>2
  <1>7. outbound' = outbound /\ puts' = puts /\ (clean' <=> clean)  BY <1>1
  <1>8. Rising(outbound) /\ UpTo(outbound, puts)  BY DEF OrderInv
  <1> QED  BY <1>2, <1>4, <1>5, <1>6, <1>7, <1>8 DEF OrderInv, DataOK

\* The run task takes the first payload of the queue: to the open connection, or
\* to one that the peer has ended, where it is lost.
LEMMA TakeOrder ==
    ASSUME ControlOK, QuietInv, DataOK, OrderInv, TakePayload, puts' = puts
    PROVE  DataOK' /\ OrderInv'
  <1>1. /\ outbound # <<>> /\ outbound' = Tail(outbound)
        /\ wire' = IF conn = "open" THEN Append(wire, Head(outbound)) ELSE wire
        /\ UNCHANGED <<got, clean>>
    BY DEF TakePayload
  <1>2. clean => conn = "open"
    BY DEF TakePayload, QuietInv, ControlOK, SenderAwaits
  <1>3. outbound \in Seq(Payloads) /\ wire \in Seq(Payloads)  BY DEF DataOK
  <1>4. Rising(outbound) /\ Rising(wire) /\ Precedes(wire, outbound)  BY DEF OrderInv
  <1> DEFINE q == Tail(outbound)
             r == Append(wire, Head(outbound))
  <1>5. /\ q \in Seq(Payloads) /\ r \in Seq(Payloads)
        /\ Len(outbound) \in Nat /\ Len(wire) \in Nat
        /\ Len(q) = Len(outbound) - 1 /\ Len(r) = Len(wire) + 1
        /\ \A i \in 1..Len(q) : q[i] = outbound[i + 1]
        /\ \A i \in 1..Len(r) : r[i] = IF i = Len(wire) + 1 THEN outbound[1] ELSE wire[i]
        /\ Rising(q) /\ Rising(r) /\ Precedes(r, q) /\ Precedes(wire, q)
        /\ \A n \in Int : UpTo(outbound, n) => UpTo(q, n)
        /\ \A n \in Int : UpTo(outbound, n) /\ UpTo(wire, n) => UpTo(r, n)
    BY <1>1, <1>3, <1>4, MoveHead
  <1>6. outbound' = q /\ wire' = IF conn = "open" THEN r ELSE wire  BY <1>1
  <1> HIDE DEF q, r
  <1>7. /\ Len(outbound) \in Nat \ {0} /\ Len(wire) \in Nat /\ Len(got) \in Nat /\ puts \in Int
    BY <1>1, Numbers, EmptySeq DEF DataOK, ControlOK
  <1>8. Precedes(got, q) /\ Precedes(got, r)
    <2>1. \A i \in 1..Len(q) : i + 1 \in 1..Len(outbound) /\ q[i] = outbound[i + 1]
      BY <1>5, <1>7
    <2>2. \A i \in 1..Len(r) :
             \/ i \in 1..Len(wire) /\ r[i] = wire[i]
             \/ 1 \in 1..Len(outbound) /\ r[i] = outbound[1]
      BY <1>5, <1>7
    <2>3. Precedes(got, wire) /\ Precedes(got, outbound)  BY DEF OrderInv
    <2> QED  BY <2>1, <2>2, <2>3 DEF Precedes
  <1>9. UpTo(got, puts) /\ UpTo(wire, puts) /\ UpTo(q, puts) /\ UpTo(r, puts)
    BY <1>5, <1>7 DEF OrderInv
  <1>10. clean => Len(got) + Len(r) + Len(q) = puts
    <2>1. clean => Len(got) + Len(wire) + Len(outbound) = puts  BY DEF OrderInv
    <2>2. Len(q) = Len(outbound) - 1 /\ Len(r) = Len(wire) + 1  BY <1>5
    <2> QED  BY <1>7, <2>1, <2>2
  <1>11. got' = got /\ puts' = puts /\ clean' = clean  BY <1>1
  <1>12. Rising(got) /\ Precedes(got, wire) /\ got \in Seq(Payloads)  BY DEF OrderInv, DataOK
  <1>13. CASE conn = "open"
    <2>1. wire' = r  BY <1>6, <1>13
    <2>2. OrderInv'  BY <1>5, <1>6, <1>8, <1>9, <1>10, <1>11, <1>12, <2>1 DEF OrderInv
    <2> QED  BY <1>5, <1>6, <1>11, <1>12, <2>1, <2>2 DEF DataOK
  <1>14. CASE conn # "open"
    <2>1. wire' = wire /\ ~clean  BY <1>2, <1>6, <1>14
    <2>2. OrderInv'
      BY <1>4, <1>5, <1>6, <1>8, <1>9, <1>11, <1>12, <2>1 DEF OrderInv
    <2> QED  BY <1>3, <1>5, <1>6, <1>11, <1>12, <2>1, <2>2 DEF DataOK
  <1> QED  BY <1>13, <1>14

\* Closing flushes a part of what is on the wire; the rest is lost.
LEMMA CloseOrder ==
    ASSUME ControlOK, DataOK, OrderInv, CloseWire, puts' = puts, ~clean'
    PROVE  DataOK' /\ OrderInv'
  <1>1. PICK n \in 0..Len(wire) : got' = got \o SubSeq(wire, 1, n)
    BY DEF CloseWire
  <1>2. wire' = <<>> /\ outbound' = outbound  BY DEF CloseWire
  <1>3. got \in Seq(Payloads) /\ wire \in Seq(Payloads) /\ outbound \in Seq(Payloads)
    BY DEF DataOK
  <1> DEFINE w == SubSeq(wire, 1, n)
  <1>4. Len(wire) \in Nat /\ Len(got) \in Nat /\ n \in Int /\ \A i \in 1..n : wire[i] \in Payloads
    BY Numbers
  <1>5. w \in Seq(Payloads) /\ Len(w) = n /\ \A i \in 1..n : w[i] = wire[i]
    <2>1. /\ w \in Seq(Payloads) /\ Len(w) = IF 1 <= n THEN n - 1 + 1 ELSE 0
          /\ \A i \in 1..(n - 1 + 1) : w[i] = wire[1 + i - 1]
      BY <1>4, SubSeqProperties
    <2>2. n - 1 + 1 = n /\ \A i \in 1..n : 1 + i - 1 = i  BY <1>4
    <2> QED  BY <1>4, <2>1, <2>2
  <1> HIDE DEF w
  <1>6. /\ got' \in Seq(Payloads) /\ Len(got') = Len(got) + n
        /\ \A i \in 1..(Len(got) + n) : got'[i] = IF i <= Len(got) THEN got[i] ELSE w[i - Len(got)]
    BY <1>1, <1>3, <1>5, ConcatProperties DEF w
  <1>7. \A i \in 1..Len(got') :
           \/ i \in 1..Len(got) /\ got'[i] = got[i]
           \/ i > Len(got) /\ i - Len(got) \in 1..Len(wire) /\ got'[i] = wire[i - Len(got)]
    BY <1>1, <1>4, <1>5, <1>6
  <1>8. Rising(got')
    <2> SUFFICES ASSUME NEW i \in 1..Len(got'), NEW j \in 1..Len(got'), i < j
                 PROVE  got'[i] < got'[j]
      BY DEF Rising
    <2>1. Rising(got) /\ Rising(wire) /\ Precedes(got, wire)  BY DEF OrderInv
    <2>2. CASE j \in 1..Len(got)
      <3>1. i \in 1..Len(got)  BY <1>4, <2>2
      <3> QED  BY <1>4, <1>7, <2>1, <2>2, <3>1 DEF Rising
    <2>3. CASE j \notin 1..Len(got) /\ i \in 1..Len(got)
      BY <1>4, <1>7, <2>1, <2>3, SMTT(30) DEF Precedes
    <2>4. CASE j \notin 1..Len(got) /\ i \notin 1..Len(got)
      <3>1. /\ i - Len(got) \in 1..Len(wire) /\ got'[i] = wire[i - Len(got)]
            /\ j - Len(got) \in 1..Len(wire) /\ got'[j] = wire[j - Len(got)]
        BY <1>7, <2>4
      <3>2. i - Len(got) < j - Len(got)  BY <1>4
      <3> QED  BY <2>1, <3>1, <3>2 DEF Rising
    <2> QED  BY <2>2, <2>3, <2>4
  <1>9. Precedes(got', outbound)
    <2>1. Precedes(got, outbound) /\ Precedes(wire, outbound)  BY DEF OrderInv
    <2> QED  BY <1>7, <2>1 DEF Precedes
  <1>10. UpTo(got', puts)
    <2>1. UpTo(got, puts) /\ UpTo(wire, puts)  BY DEF OrderInv
    <2> QED  BY <1>7, <2>1 DEF UpTo
  <1>11. /\ Rising(wire') /\ Precedes(got', wire') /\ Precedes(wire', outbound)
         /\ UpTo(wire', puts) /\ wire' \in Seq(Payloads)
    BY <1>2, EmptySeq DEF Rising, Precedes, UpTo
  <1>12. Rising(outbound) /\ UpTo(outbound, puts)  BY DEF OrderInv
  <1>13. OrderInv'
    BY <1>2, <1>8, <1>9, <1>10, <1>11, <1>12 DEF OrderInv
  <1> QED  BY <1>2, <1>3, <1>6, <1>11, <1>13 DEF DataOK

\* What the peer has not received when it ends the connection is lost.
LEMMA LoseOrder ==
    ASSUME ControlOK, DataOK, OrderInv, Lose
    PROVE  DataOK' /\ OrderInv'
  <1>1. wire' = <<>> /\ ~clean' /\ UNCHANGED <<got, outbound, puts>>  BY DEF Lose
  <1>2. /\ Rising(wire') /\ Precedes(got, wire') /\ Precedes(wire', outbound)
        /\ UpTo(wire', puts) /\ wire' \in Seq(Payloads)
    BY <1>1, EmptySeq DEF Rising, Precedes, UpTo
  <1>3. /\ Rising(got) /\ Rising(outbound) /\ Precedes(got, outbound)
        /\ UpTo(got, puts) /\ UpTo(outbound, puts)
    BY DEF OrderInv
  <1>4. OrderInv'  BY <1>1, <1>2, <1>3 DEF OrderInv
  <1> QED  BY <1>1, <1>2, <1>4 DEF DataOK

\* No step brings the payloads out of order or gives up one without a reason.
LEMMA NextOrder ==
    ASSUME LinkInv, [Next]_vars
    PROVE  DataOK' /\ OrderInv'
  <1> USE DEF LinkInv
  <1>1. CASE RunTask
    <2>1. puts' = puts  BY <1>1 DEF RunTask, bounds
    <2>2. CASE TakePayload  BY <2>1, <2>2, TakeOrder
    <2>3. CASE Closed
      <3>1. CloseWire /\ ~clean'  BY <2>3 DEF Closed, QuietInv
      <3> QED  BY <2>1, <3>1, CloseOrder
    <2>4. CASE ~TakePayload /\ ~Closed
      <3>1. UNCHANGED data /\ (clean' => clean)
        BY <1>1, <2>4 DEF RunTask, OpenConnection, ConnectFails, Wake, IdleTimeout, Drained,
                          DrainFails, WatchJoined, ReadChunk, ReadEnds, Cancelled
      <3> QED  BY <2>1, <3>1, KeepOrder DEF data
    <2> QED  BY <2>2, <2>3, <2>4
  <1>2. CASE StopCloses
    <2>1. CloseWire /\ ~clean' /\ puts' = puts  BY <1>2 DEF StopCloses, QuietInv, bounds
    <2> QED  BY <2>1, CloseOrder
  <1>3. CASE Send  BY <1>3, SendOrder
  <1>4. CASE Receive  BY <1>4, ReceiveOrder
  <1>5. CASE Lose  BY <1>5, LoseOrder
  <1>6. CASE \/ Start \/ Stop \/ StopOverdue \/ StopJoined \/ SetPaused \/ ServerChanges
             \/ UNCHANGED vars
    <2>1. UNCHANGED <<data, puts>> /\ (clean' => clean)
      BY <1>6 DEF Start, Stop, StopOverdue, StopJoined, SetPaused, ServerChanges, vars, data,
                  bounds
    <2> QED  BY <2>1, KeepOrder
  <1> QED  BY <1>1, <1>2, <1>3, <1>4, <1>5, <1>6 DEF Next

LEMMA NextLink == LinkInv /\ [Next]_vars => LinkInv'
  BY NextControl, NextStop, NextQuiet, NextOrder DEF LinkInv

\* Three runs in order, one after the other, are one.
LEMMA OneOrder ==
    ASSUME LinkInv
    PROVE  SentInOrderOnce
  <1> DEFINE front == got \o wire
             all == front \o outbound
  <1>1. got \in Seq(Payloads) /\ wire \in Seq(Payloads) /\ outbound \in Seq(Payloads)
    BY DEF LinkInv, DataOK
  <1>2. /\ front \in Seq(Payloads) /\ Len(front) = Len(got) + Len(wire)
        /\ \A i \in 1..(Len(got) + Len(wire)) :
              front[i] = IF i <= Len(got) THEN got[i] ELSE wire[i - Len(got)]
    BY <1>1, ConcatProperties
  <1>3. /\ all \in Seq(Payloads) /\ Len(all) = Len(front) + Len(outbound)
        /\ \A i \in 1..(Len(front) + Len(outbound)) :
              all[i] = IF i <= Len(front) THEN front[i] ELSE outbound[i - Len(front)]
    <2>1. front \in Seq(Payloads) /\ outbound \in Seq(Payloads)  BY <1>1, <1>2
    <2> HIDE DEF front
    <2>2. /\ front \o outbound \in Seq(Payloads)
          /\ Len(front \o outbound) = Len(front) + Len(outbound)
          /\ \A i \in 1..(Len(front) + Len(outbound)) :
                (front \o outbound)[i] = IF i <= Len(front) THEN front[i]
                                         ELSE outbound[i - Len(front)]
      BY <2>1, ConcatProperties
    <2> QED  BY <2>2
  <1>4. DOMAIN all = 1..Len(all)  BY <1>3, LenProperties
  <1> HIDE DEF front, all
  <1>5. Len(got) \in Nat /\ Len(wire) \in Nat /\ Len(outbound) \in Nat  BY Numbers DEF LinkInv
  <1>6. \A i \in 1..Len(all) :
           \/ i \in 1..Len(got) /\ all[i] = got[i]
           \/ /\ i > Len(got) /\ i =< Len(front)
              /\ i - Len(got) \in 1..Len(wire) /\ all[i] = wire[i - Len(got)]
           \/ /\ i > Len(front) /\ i - Len(front) \in 1..Len(outbound)
              /\ all[i] = outbound[i - Len(front)]
    BY <1>2, <1>3, <1>5, SMTT(30)
  <1>7. /\ Rising(got) /\ Rising(wire) /\ Rising(outbound)
        /\ Precedes(got, wire) /\ Precedes(got, outbound) /\ Precedes(wire, outbound)
    BY DEF LinkInv, OrderInv
  <1>8. ASSUME NEW i \in 1..Len(all), NEW j \in 1..Len(all), i < j
        PROVE  all[i] < all[j]
    <2>1. CASE i \in 1..Len(got) /\ all[i] = got[i]
      BY <1>2, <1>5, <1>6, <1>7, <1>8, <2>1 DEF Rising, Precedes
    <2>2. CASE /\ i > Len(got) /\ i =< Len(front)
               /\ i - Len(got) \in 1..Len(wire) /\ all[i] = wire[i - Len(got)]
      <3>1. j > Len(got)  BY <1>2, <1>5, <1>8, <2>2
      <3>2. CASE /\ j > Len(got) /\ j =< Len(front)
                 /\ j - Len(got) \in 1..Len(wire) /\ all[j] = wire[j - Len(got)]
        <4>1. i - Len(got) < j - Len(got)  BY <1>5, <1>8
        <4> QED  BY <1>7, <2>2, <3>2, <4>1 DEF Rising
      <3>3. CASE /\ j > Len(front) /\ j - Len(front) \in 1..Len(outbound)
                 /\ all[j] = outbound[j - Len(front)]
        BY <1>7, <2>2, <3>3 DEF Precedes
      <3> QED  BY <1>5, <1>6, <3>1, <3>2, <3>3
    <2>3. CASE /\ i > Len(front) /\ i - Len(front) \in 1..Len(outbound)
               /\ all[i] = outbound[i - Len(front)]
      <3>1. /\ j > Len(front) /\ j - Len(front) \in 1..Len(outbound)
            /\ all[j] = outbound[j - Len(front)]
        <4>1. j > Len(front) /\ ~(j \in 1..Len(got)) /\ ~(j =< Len(front))
          BY <1>2, <1>5, <1>8, <2>3
        <4> QED  BY <1>6, <4>1
      <3>2. i - Len(front) < j - Len(front)  BY <1>2, <1>5, <1>8
      <3> QED  BY <1>7, <2>3, <3>1, <3>2 DEF Rising
    <2> QED  BY <1>6, <2>1, <2>2, <2>3
  <1>9. clean => Len(all) = puts
    <2>1. clean => Len(got) + Len(wire) + Len(outbound) = puts  BY DEF LinkInv, OrderInv
    <2>2. Len(all) = Len(got) + Len(wire) + Len(outbound)  BY <1>2, <1>3
    <2> QED  BY <2>1, <2>2
  <1> QED  BY <1>4, <1>8, <1>9 DEF SentInOrderOnce, all, front

\* The server receives the payloads in the order of send() and none twice, across
\* connections, closings and stops, and misses none while nothing went wrong.
THEOREM SendOrderKept == Spec => []SentInOrderOnce
  <1> QED  BY InitLink, NextLink, OneOrder, PTL DEF Spec

\* The variables keep their types, and payloads are on the wire only of a
\* connection that is open.
THEOREM LinkTyped == Spec => []TypeOK
  <1>1. LinkInv => TypeOK
    <2> SUFFICES ASSUME LinkInv PROVE TypeOK  OBVIOUS
    <2>1. \A s \in {outbound, wire, got} : s \in Seq(1..MaxPayloads)
      BY DEF LinkInv, DataOK, Payloads
    <2>2. ControlOK  BY DEF LinkInv
    <2> QED  BY <2>1, <2>2 DEF ControlOK, TypeOK, SenderAwaits
  <1> QED  BY <1>1, InitLink, NextLink, PTL DEF Spec

=============================================================================
