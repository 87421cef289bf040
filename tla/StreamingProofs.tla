-------------------------- MODULE StreamingProofs --------------------------
(***************************************************************************)
(* For any number of clients and step buttons, any files, selections,      *)
(* swaps, jumps and pauses: if no message is drawn while another is in     *)
(* hand, what the controller sends is what ClientStream promises.          *)
(***************************************************************************)
EXTENDS Streaming, SequenceTheorems, FiniteSetTheorems, TLAPS

IsSeq(s) == \E S : s \in Seq(S)

\* The numbers of the messages in s, that of the newest one broadcast, and what
\* Stream sees of clients and broadcasts.
Draws(s) == [n \in DOMAIN s |-> s[n].draw]
Sent == IF aired = <<>> THEN 0 ELSE Last(aired).draw
Heard == [c \in Clients |-> Draws(got[c])]
DueNow == ready \cap UNION {rest[a] : a \in Actors}

SeqsOK ==
    /\ IsSeq(aired)
    /\ got = [c \in Clients |-> got[c]] /\ \A c \in Clients : IsSeq(got[c])
    /\ ready \subseteq Clients

\* A coroutine has a message in hand from its drawing to the end of its broadcast,
\* and it is the newest one drawn.
HandOK ==
    /\ drawn \in Nat /\ Sent \in Nat
    /\ at = [a \in Actors |-> at[a]] /\ hand = [a \in Actors |-> hand[a]]
    /\ rest = [a \in Actors |-> rest[a]]
    /\ \A a \in Actors :
          /\ at[a] \in {"idle", "waiting", "sending"}
          /\ at[a] # "sending" => rest[a] = {}
          /\ at[a] = "waiting" => hand[a].draw = drawn /\ Sent + 1 = drawn
          /\ at[a] = "sending" => hand[a].draw = drawn /\ Sent = drawn /\ drawn > 0
    /\ \A a, b \in Actors : at[a] # "idle" /\ at[b] # "idle" => a = b
    /\ (\A a \in Actors : at[a] = "idle") => Sent = drawn

StreamingInv == SeqsOK /\ HandOK

-----------------------------------------------------------------------------
\* The numbers from one on tell where they end.
LEMMA SameEnd ==
    ASSUME NEW a \in Nat, NEW b \in Nat, 1..a = 1..b
    PROVE  a = b
  <1>1. \A m, n \in Nat : m < n => n \in 1..n /\ n \notin 1..m  OBVIOUS
  <1>2. ~(a < b) /\ ~(b < a)  BY <1>1, Zenon
  <1> QED  BY <1>2

\* One more message is one more number.
LEMMA AppendDraws ==
    ASSUME NEW s, IsSeq(s), NEW m
    PROVE  /\ IsSeq(Append(s, m)) /\ Append(s, m) # <<>> /\ Last(Append(s, m)) = m
           /\ Draws(Append(s, m)) = Append(Draws(s), m.draw)
  <1>1. PICK S : s \in Seq(S)  BY DEF IsSeq
  <1> DEFINE T == S \cup {m}
             D == {x.draw : x \in T}
             t == Append(s, m)
  <1>2. s \in Seq(T)
    <2>1. Len(s) \in Nat /\ s \in [1..Len(s) -> S]  BY <1>1, LenProperties
    <2>2. s \in [1..Len(s) -> T]  BY <2>1
    <2> QED  BY <2>1, <2>2, SeqDef
  <1>3. /\ t \in Seq(T) /\ t # <<>> /\ Len(t) = Len(s) + 1 /\ t[Len(s) + 1] = m
        /\ \A i \in 1..Len(s) : t[i] = s[i]
    BY <1>2, AppendProperties
  <1>4. /\ Len(s) \in Nat /\ DOMAIN s = 1..Len(s) /\ \A i \in 1..Len(s) : s[i] \in T
        /\ DOMAIN t = 1..(Len(s) + 1)
    <2>1. Len(s) \in Nat /\ DOMAIN s = 1..Len(s)  BY <1>2, LenProperties
    <2>2. \A i \in 1..Len(s) : s[i] \in T  BY <1>2, ElementOfSeq
    <2>3. DOMAIN t = 1..Len(t)  BY <1>3, LenProperties
    <2> QED  BY <2>1, <2>2, <2>3, <1>3
  <1>5. Draws(s) \in Seq(D) /\ Len(Draws(s)) = Len(s)
    <2>1. Draws(s) \in [1..Len(s) -> D]  BY <1>4 DEF Draws
    <2>2. Draws(s) \in Seq(D)  BY <2>1, <1>4, SeqDef
    <2>3. DOMAIN Draws(s) = 1..Len(Draws(s)) /\ Len(Draws(s)) \in Nat  BY <2>2, LenProperties
    <2>4. DOMAIN Draws(s) = 1..Len(s)  BY <2>1
    <2>5. 1..Len(Draws(s)) = 1..Len(s)  BY <2>3, <2>4, Zenon
    <2>6. Len(Draws(s)) = Len(s)  BY <1>4, <2>3, <2>5, SameEnd, Zenon
    <2> QED  BY <2>2, <2>6, Zenon
  <1> DEFINE u == Append(Draws(s), m.draw)
  <1>6. m.draw \in D
    <2>1. m \in T  OBVIOUS
    <2> QED  BY <2>1
  <1>7. /\ u \in Seq(D) /\ Len(u) = Len(s) + 1 /\ u[Len(s) + 1] = m.draw
        /\ \A i \in 1..Len(s) : u[i] = Draws(s)[i]
    BY <1>5, <1>6, AppendProperties
  <1>8. u \in [1..(Len(s) + 1) -> D]  BY <1>7, LenProperties
  <1>9. Draws(t) = [i \in 1..(Len(s) + 1) |-> t[i].draw]  BY <1>4 DEF Draws
  <1>10. \A i \in 1..(Len(s) + 1) : t[i].draw = u[i]
    <2> TAKE i \in 1..(Len(s) + 1)
    <2>1. CASE i \in 1..Len(s)
      <3>1. Draws(s)[i] = s[i].draw  BY <2>1, <1>4 DEF Draws
      <3> QED  BY <2>1, <3>1, <1>3, <1>7
    <2>2. CASE i = Len(s) + 1  BY <2>2, <1>3, <1>7
    <2>3. i \in 1..Len(s) \/ i = Len(s) + 1  BY <1>4
    <2> QED  BY <2>1, <2>2, <2>3
  <1> HIDE DEF u, t, D, T
  <1>11. Draws(t) = u  BY <1>8, <1>9, <1>10
  <1>12. IsSeq(t)  BY <1>3 DEF IsSeq
  <1>13. Last(t) = m  BY <1>3 DEF Last
  <1> QED  BY <1>3, <1>11, <1>12, <1>13 DEF t, u

\* A client that was sent nothing has heard nothing, and after its header a 0.
LEMMA FirstDraws ==
    /\ IsSeq(<<>>) /\ Draws(<<>>) = <<>>
    /\ \A m : IsSeq(<<m>>) /\ Draws(<<m>>) = <<m.draw>>
  <1>1. IsSeq(<<>>)
    <2>1. <<>> \in Seq({})  BY EmptySeq
    <2> QED  BY <2>1 DEF IsSeq
  <1>2. Draws(<<>>) = <<>>  BY DEF Draws
  <1>3. ASSUME NEW m PROVE IsSeq(<<m>>) /\ Draws(<<m>>) = <<m.draw>>
    <2>1. <<m>> = Append(<<>>, m) /\ <<m.draw>> = Append(<<>>, m.draw)  OBVIOUS
    <2> QED  BY <2>1, <1>1, <1>2, AppendDraws
  <1> QED  BY <1>1, <1>2, <1>3

-----------------------------------------------------------------------------
\* The clients a coroutine visits in one go are served together, and the others
\* stay due or are cut off.
LEMMA VisitDelivers ==
    ASSUME SeqsOK, rest = [b \in Actors |-> rest[b]],
           NEW a \in Actors, NEW m, NEW left,
           \A b \in Actors \ {a} : rest[b] = {},
           Visit(a, m, left)
    PROVE  /\ Stream!Deliver(left \cap ready, m.draw)
           /\ got' = [c \in Clients |-> got'[c]] /\ \A c \in Clients : IsSeq(got'[c])
           /\ ready' \subseteq Clients
           /\ left \cap ready = {} => Heard' = Heard /\ ready' = ready /\ DueNow' = {}
  <1> DEFINE Served(served, later) ==
               /\ got' = Queued(served, m) /\ rest' = [rest EXCEPT ![a] = later]
               /\ served \subseteq left \cap ready /\ later \subseteq left \ served
               /\ ready' \subseteq ready
               /\ left \cap ready \cap ready' \subseteq served \cup later
               /\ left \cap ready = {} => ready' = ready /\ later = {}
  <1>1. PICK served, later : Served(served, later)
    <2>1. CASE /\ got' = Queued(left \cap ready, m) /\ rest' = [rest EXCEPT ![a] = {}]
               /\ UNCHANGED ready
      <3>1. Served(left \cap ready, {})  BY <2>1
      <3> QED  BY <3>1
    <2>2. ASSUME NEW c \in left \cap ready, NEW those \in SUBSET (left \ {c}),
                 got' = Queued(those \cap ready, m),
                 rest' = [rest EXCEPT ![a] = left \ (those \cup {c})],
                 ready' = ready \ {c}
          PROVE  Served(those \cap ready, left \ (those \cup {c}))
      BY <2>2
    <2> HIDE DEF Served
    <2> QED  BY <2>1, <2>2 DEF Visit
  <1>2. UNION {rest'[b] : b \in Actors} = later
    <2>1. rest'[a] = later /\ \A b \in Actors \ {a} : rest'[b] = {}  BY <1>1
    <2> QED  BY <2>1
  <1>3. DueNow' = ready' \cap later  BY <1>2 DEF DueNow
  <1>4. /\ got' = [c \in Clients |-> IF c \in served THEN Append(got[c], m) ELSE got[c]]
        /\ \A c \in Clients : IsSeq(got[c])
    BY <1>1 DEF Queued, SeqsOK
  <1>5. ASSUME NEW c \in Clients
        PROVE  /\ IsSeq(got'[c])
               /\ Draws(got'[c]) = IF c \in served THEN Append(Draws(got[c]), m.draw)
                                   ELSE Draws(got[c])
    <2>1. CASE c \in served
      <3>1. got'[c] = Append(got[c], m) /\ IsSeq(got[c])  BY <1>4, <2>1
      <3>2. /\ IsSeq(Append(got[c], m))
            /\ Draws(Append(got[c], m)) = Append(Draws(got[c]), m.draw)
        BY <3>1, AppendDraws, Zenon
      <3> QED  BY <2>1, <3>1, <3>2, Zenon
    <2>2. CASE c \notin served
      <3>1. got'[c] = got[c] /\ IsSeq(got[c])  BY <1>4, <2>2
      <3> QED  BY <2>2, <3>1
    <2> QED  BY <2>1, <2>2
  <1>6. Heard' = [c \in Clients |-> IF c \in served THEN Append(Heard[c], m.draw) ELSE Heard[c]]
    <2>1. Heard' = [c \in Clients |-> Draws(got'[c])]  BY DEF Heard
    <2>2. \A c \in Clients : Heard[c] = Draws(got[c])  BY DEF Heard
    <2> QED  BY <2>1, <2>2, <1>5
  <1>7. Stream!Deliver(left \cap ready, m.draw)
    <2>1. served \in SUBSET (left \cap ready)  BY <1>1
    <2>2. DueNow' \subseteq (left \cap ready) \ served  BY <1>1, <1>3
    <2>3. left \cap ready \cap ready' \subseteq served \cup DueNow'  BY <1>1, <1>3
    <2> QED  BY <1>1, <1>6, <2>1, <2>2, <2>3 DEF Stream!Deliver, Heard, DueNow, Draws
  <1>8. left \cap ready = {} => Heard' = Heard /\ ready' = ready /\ DueNow' = {}
    <2> SUFFICES ASSUME left \cap ready = {} PROVE Heard' = Heard /\ ready' = ready /\ DueNow' = {}
      OBVIOUS
    <2>1. served = {} /\ later = {} /\ ready' = ready  BY <1>1
    <2>2. Heard' = [c \in Clients |-> Heard[c]]  BY <1>6, <2>1
    <2>3. Heard = [c \in Clients |-> Heard[c]]  BY DEF Heard
    <2> QED  BY <2>1, <2>2, <2>3, <1>3
  <1>9. got' = [c \in Clients |-> got'[c]]  BY <1>4
  <1>10. ready' \subseteq Clients  BY <1>1 DEF SeqsOK
  <1> QED  BY <1>5, <1>7, <1>8, <1>9, <1>10

\* A broadcast of the newest message, by the only coroutine at work.
LEMMA VisitKeepsHand ==
    ASSUME at = [b \in Actors |-> at[b]], hand = [b \in Actors |-> hand[b]],
           rest = [b \in Actors |-> rest[b]],
           NEW a \in Actors, NEW m, NEW left,
           \A b \in Actors \ {a} : at[b] = "idle" /\ rest[b] = {},
           Visit(a, m, left),
           drawn' \in Nat, drawn' > 0, m.draw = drawn', Sent' = drawn'
    PROVE  HandOK'
  <1>1. \/ at' = [at EXCEPT ![a] = "idle"] /\ rest' = [rest EXCEPT ![a] = {}]
           /\ hand' = [hand EXCEPT ![a] = NoMessage]
        \/ /\ at' = [at EXCEPT ![a] = "sending"] /\ hand' = [hand EXCEPT ![a] = m]
           /\ \E later : rest' = [rest EXCEPT ![a] = later]
    BY DEF Visit
  <1>2. \A b \in Actors \ {a} : at'[b] = "idle" /\ rest'[b] = {}  BY <1>1
  <1>3. \/ at'[a] = "idle" /\ rest'[a] = {}
        \/ at'[a] = "sending" /\ hand'[a].draw = drawn'
    BY <1>1
  <1>4. /\ at' = [b \in Actors |-> at'[b]] /\ hand' = [b \in Actors |-> hand'[b]]
        /\ rest' = [b \in Actors |-> rest'[b]]
    BY <1>1
  <1> QED  BY <1>2, <1>3, <1>4 DEF HandOK

\* The first part of a broadcast publishes the next message of the stream.
LEMMA AirPublishes ==
    ASSUME StreamingInv, NEW a \in Actors, NEW m,
           \A b \in Actors \ {a} : at[b] = "idle", at[a] # "sending",
           Air(a, m), m.draw = Sent + 1, drawn' = m.draw, Sent \in Nat
    PROVE  Stream!Publish /\ StreamingInv'
  <1>1. \A b \in Actors : rest[b] = {}  BY DEF StreamingInv, HandOK
  <1>2. aired' = Append(aired, m) /\ Visit(a, m, ready) /\ IsSeq(aired)
    BY DEF Air, StreamingInv, SeqsOK
  <1>3. IsSeq(aired') /\ Sent' = m.draw  BY <1>2, AppendDraws DEF Sent
  <1>4. SeqsOK /\ HandOK /\ rest = [b \in Actors |-> rest[b]]
    BY DEF StreamingInv, HandOK
  <1>5. \A b \in Actors \ {a} : rest[b] = {}  BY <1>1
  <1>6. /\ Stream!Deliver(ready \cap ready, m.draw)
        /\ got' = [c \in Clients |-> got'[c]] /\ \A c \in Clients : IsSeq(got'[c])
        /\ ready' \subseteq Clients
    <2>1. PICK left : left = ready  OBVIOUS
    <2>2. Visit(a, m, left)  BY <1>2, <2>1 DEF Visit
    <2>3. /\ Stream!Deliver(left \cap ready, m.draw)
          /\ got' = [c \in Clients |-> got'[c]] /\ \A c \in Clients : IsSeq(got'[c])
          /\ ready' \subseteq Clients
      BY <2>2, <1>4, <1>5, VisitDelivers
    <2> QED  BY <2>1, <2>3 DEF Stream!Deliver
  <1>7. DueNow = {} /\ ready \cap ready = ready  BY <1>1 DEF DueNow
  <1>8. Sent' = Sent + 1  BY <1>3
  <1>9. Stream!Publish
    <2>1. PICK served \in SUBSET ready :
            /\ Heard' = [c \in Clients |-> IF c \in served THEN Append(Heard[c], m.draw)
                                         ELSE Heard[c]]
            /\ DueNow' \subseteq ready \ served /\ ready' \subseteq ready
            /\ ready \cap ready' \subseteq served \cup DueNow'
      BY <1>6, <1>7 DEF Stream!Deliver, Heard, DueNow, Draws
    <2>2. Heard' = [c \in Clients |-> IF c \in served THEN Append(Heard[c], Sent')
                                      ELSE Heard[c]]
      BY <2>1, <1>3
    <2> QED  BY <2>1, <2>2, <1>7, <1>8
             DEF Stream!Publish, Stream!Deliver, Heard, Sent, DueNow, Draws
  <1>10. HandOK'  BY <1>1, <1>2, <1>3, <1>4, VisitKeepsHand DEF HandOK
  <1> QED  BY <1>3, <1>6, <1>9, <1>10 DEF StreamingInv, SeqsOK

-----------------------------------------------------------------------------
LEMMA InitStreaming == Init => StreamingInv /\ Stream!StreamInit
  <1> SUFFICES ASSUME Init PROVE StreamingInv /\ Stream!StreamInit  OBVIOUS
  <1>1. /\ aired = <<>> /\ drawn = 0 /\ ready = {} /\ got = [c \in Clients |-> <<>>]
        /\ at = [a \in Actors |-> "idle"] /\ hand = [a \in Actors |-> NoMessage]
        /\ rest = [a \in Actors |-> {}]
    BY DEF Init
  <1>2. SeqsOK  BY <1>1, FirstDraws DEF SeqsOK
  <1>3. HandOK  BY <1>1 DEF HandOK, Sent
  <1>4. Draws(<<>>) = <<>>  BY FirstDraws
  <1>5. Heard = [c \in Clients |-> <<>>]  BY <1>1, <1>4 DEF Heard
  <1>6. Stream!StreamInit  BY <1>1, <1>5 DEF Stream!StreamInit, Heard, Draws
  <1> QED  BY <1>2, <1>3, <1>6 DEF StreamingInv

\* What the stream is made of, and what the invariant is about.
LEMMA Stutter ==
    /\ UNCHANGED <<ready, rest, got, aired>> => UNCHANGED Stream!streamVars
    /\ StreamingInv /\ UNCHANGED <<sendVars, drawn>> => StreamingInv'
  <1>1. UNCHANGED <<ready, rest, got, aired>> => UNCHANGED Stream!streamVars
    BY DEF Stream!streamVars
  <1>2. ASSUME StreamingInv, UNCHANGED <<sendVars, drawn>> PROVE StreamingInv'
    <2>1. /\ at' = at /\ hand' = hand /\ rest' = rest /\ ready' = ready /\ got' = got
          /\ aired' = aired /\ drawn' = drawn
      BY <1>2 DEF sendVars
    <2> QED  BY <1>2, <2>1 DEF StreamingInv, SeqsOK, HandOK, Sent
  <1> QED  BY <1>1, <1>2

\* A coroutine draws when nobody has a message in hand: the message drawn is the
\* next one of the stream, now or when there is a client.
LEMMA AdvanceStreams ==
    ASSUME ~MayOverlap, StreamingInv, NEW a \in Actors, Advance(a)
    PROVE  [Stream!StreamNext]_Stream!streamVars /\ StreamingInv'
  <1>1. /\ \A b \in Actors : at[b] = "idle"
        /\ (Draw /\ Send(a, Drawn)) \/ (DrawNothing /\ UNCHANGED sendVars)
    BY DEF Advance
  <1>2. Sent = drawn /\ drawn \in Nat /\ \A b \in Actors : rest[b] = {}
    BY <1>1 DEF StreamingInv, HandOK
  <1>3. CASE DrawNothing /\ UNCHANGED sendVars
    BY <1>3, Stutter DEF DrawNothing, sendVars
  <1>4. CASE Draw /\ ready # {} /\ Air(a, Drawn)
    <2>1. PICK m : m = Drawn  OBVIOUS
    <2>2. m.draw = Sent + 1 /\ drawn' = m.draw  BY <1>2, <1>4, <2>1 DEF Draw, Drawn
    <2>3. Air(a, m)  BY <1>4, <2>1 DEF Air, Visit
    <2>4. Stream!Publish /\ StreamingInv'
      BY <1>1, <1>2, <2>2, <2>3, AirPublishes
    <2> QED  BY <2>4 DEF Stream!StreamNext
  <1>5. CASE /\ Draw /\ at' = [at EXCEPT ![a] = "waiting"]
             /\ hand' = [hand EXCEPT ![a] = Drawn] /\ UNCHANGED <<rest, ready, got, aired>>
    <2>1. drawn' = drawn + 1 /\ Drawn.draw = drawn + 1  BY <1>5 DEF Draw, Drawn
    <2>2. /\ at'[a] = "waiting" /\ hand'[a].draw = drawn + 1
          /\ \A b \in Actors \ {a} : at'[b] = "idle"
          /\ at' = [b \in Actors |-> at'[b]] /\ hand' = [b \in Actors |-> hand'[b]]
      BY <1>1, <1>5, <2>1 DEF StreamingInv, HandOK
    <2>3. Sent' = Sent  BY <1>5 DEF Sent
    <2>4. HandOK'
      BY <1>2, <1>5, <2>1, <2>2, <2>3 DEF StreamingInv, HandOK
    <2>5. SeqsOK'  BY <1>5 DEF StreamingInv, SeqsOK
    <2> QED  BY <1>5, <2>4, <2>5, Stutter DEF StreamingInv
  <1> QED  BY <1>1, <1>3, <1>4, <1>5 DEF Send

\* The message in hand goes out when there is a client.
LEMMA ResumeStreams ==
    ASSUME StreamingInv, NEW a \in Actors, Resume(a)
    PROVE  Stream!StreamNext /\ StreamingInv'
  <1>1. at[a] = "waiting" /\ Air(a, hand[a]) /\ drawn' = drawn  BY DEF Resume
  <1>2. /\ \A b \in Actors \ {a} : at[b] = "idle"
        /\ hand[a].draw = drawn /\ Sent + 1 = drawn /\ Sent \in Nat
    BY <1>1 DEF StreamingInv, HandOK
  <1>3. PICK m : m = hand[a]  OBVIOUS
  <1>4. Air(a, m)  BY <1>1, <1>3 DEF Air, Visit
  <1> QED
    <2>1. m.draw = Sent + 1 /\ drawn' = m.draw /\ at[a] # "sending"  BY <1>1, <1>2, <1>3
    <2>2. Stream!Publish /\ StreamingInv'  BY <1>2, <1>4, <2>1, AirPublishes
    <2> QED  BY <2>2 DEF Stream!StreamNext

\* The broadcast goes on with the clients that are still due the message; if all
\* of them are gone, nothing is heard.
LEMMA ContinueStreams ==
    ASSUME StreamingInv, NEW a \in Actors, Continue(a)
    PROVE  [Stream!StreamNext]_Stream!streamVars /\ StreamingInv'
  <1>1. /\ at[a] = "sending" /\ Visit(a, hand[a], rest[a])
        /\ drawn' = drawn /\ aired' = aired /\ Sent' = Sent
    BY DEF Continue, Sent
  <1>2. /\ \A b \in Actors \ {a} : at[b] = "idle" /\ rest[b] = {}
        /\ hand[a].draw = drawn /\ Sent = drawn /\ drawn > 0 /\ drawn \in Nat
        /\ SeqsOK /\ rest = [b \in Actors |-> rest[b]]
        /\ at = [b \in Actors |-> at[b]] /\ hand = [b \in Actors |-> hand[b]]
    BY <1>1 DEF StreamingInv, HandOK
  <1>3. PICK m : m = hand[a]  OBVIOUS
  <1>4. PICK left : left = rest[a]  OBVIOUS
  <1>5. Visit(a, m, left) /\ m.draw = drawn  BY <1>1, <1>2, <1>3, <1>4 DEF Visit
  <1>6. /\ Stream!Deliver(left \cap ready, m.draw)
        /\ got' = [c \in Clients |-> got'[c]] /\ \A c \in Clients : IsSeq(got'[c])
        /\ ready' \subseteq Clients
        /\ left \cap ready = {} => Heard' = Heard /\ ready' = ready /\ DueNow' = {}
    BY <1>2, <1>5, VisitDelivers
  <1>7. DueNow = left \cap ready
    <2>1. UNION {rest[b] : b \in Actors} = left  BY <1>2, <1>4
    <2> QED  BY <2>1 DEF DueNow
  <1>8. HandOK'  BY <1>1, <1>2, <1>5, VisitKeepsHand
  <1>9. StreamingInv'
    <2>1. IsSeq(aired')  BY <1>1, <1>2 DEF SeqsOK
    <2> QED  BY <2>1, <1>6, <1>8 DEF StreamingInv, SeqsOK
  <1>10. CASE DueNow = {}
    <2>1. Heard' = Heard /\ ready' = ready /\ DueNow' = DueNow /\ Sent' = Sent
      BY <1>1, <1>6, <1>7, <1>10
    <2> QED  BY <2>1, <1>9 DEF Stream!streamVars, Heard, Sent, DueNow, Draws
  <1>11. CASE DueNow # {}
    <2>1. PICK served \in SUBSET DueNow :
            /\ Heard' = [c \in Clients |-> IF c \in served THEN Append(Heard[c], m.draw)
                                         ELSE Heard[c]]
            /\ DueNow' \subseteq DueNow \ served /\ ready' \subseteq ready
            /\ DueNow \cap ready' \subseteq served \cup DueNow'
      BY <1>6, <1>7 DEF Stream!Deliver, Heard, DueNow, Draws
    <2>2. Heard' = [c \in Clients |-> IF c \in served THEN Append(Heard[c], Sent)
                                      ELSE Heard[c]]
      BY <2>1, <1>2, <1>5
    <2>3. Sent' = Sent  BY <1>1
    <2>4. Stream!Resume
      BY <2>1, <2>2, <2>3, <1>11
         DEF Stream!Resume, Stream!Deliver, Heard, Sent, DueNow, Draws
    <2> QED  BY <2>4, <1>9 DEF Stream!StreamNext
  <1> QED  BY <1>10, <1>11

\* A new client is due the message under way only if there is one.
LEMMA ConnectStreams ==
    ASSUME StreamingInv, NEW c \in Clients, Connect(c)
    PROVE  Stream!StreamNext /\ StreamingInv'
  <1> DEFINE greeting == [file |-> onConnect, record |-> 0, draw |-> 0]
  <1>1. /\ c \notin ready /\ got[c] = <<>> /\ ready' = ready \cup {c}
        /\ got' = got \/ got' = [got EXCEPT ![c] = <<greeting>>]
        /\ UNCHANGED <<at, hand, rest, drawn, aired>>
    BY DEF Connect, Connected
  <1>2. Draws(<<>>) = <<>> /\ IsSeq(<<greeting>>) /\ Draws(<<greeting>>) = <<0>>
    <2>1. Draws(<<greeting>>) = <<greeting.draw>> /\ IsSeq(<<greeting>>)  BY FirstDraws
    <2>2. greeting.draw = 0  OBVIOUS
    <2> QED  BY <2>1, <2>2, FirstDraws
  <1> HIDE DEF greeting
  <1>3. /\ IsSeq(aired) /\ got = [d \in Clients |-> got[d]] /\ ready \subseteq Clients
        /\ \A d \in Clients : IsSeq(got[d])
    BY DEF StreamingInv, SeqsOK
  <1>4. Heard[c] = <<>> /\ (Heard' = Heard \/ Heard' = [Heard EXCEPT ![c] = <<0>>])
    <2>1. CASE got' = got  BY <1>1, <1>2, <2>1 DEF Heard
    <2>2. CASE got' = [got EXCEPT ![c] = <<greeting>>]
      <3>1. got'[c] = <<greeting>> /\ \A d \in Clients \ {c} : got'[d] = got[d]
        BY <1>3, <2>2
      <3>2. Heard'[c] = <<0>> /\ \A d \in Clients \ {c} : Heard'[d] = Heard[d]
        BY <1>2, <3>1 DEF Heard
      <3>3. Heard' = [d \in Clients |-> Heard'[d]] /\ Heard = [d \in Clients |-> Heard[d]]
        BY DEF Heard
      <3>4. Heard[c] = <<>>  BY <1>1, <1>2 DEF Heard
      <3> QED  BY <3>2, <3>3, <3>4
    <2> QED  BY <1>1, <2>1, <2>2
  <1>5. DueNow' = DueNow \/ (Sent > 0 /\ DueNow' = DueNow \cup {c})
    <2>1. CASE c \in UNION {rest[a] : a \in Actors}
      <3>1. PICK a \in Actors : c \in rest[a]  BY <2>1
      <3>2. Sent > 0  BY <3>1 DEF StreamingInv, HandOK
      <3>3. rest' = rest  BY <1>1
      <3> QED  BY <1>1, <2>1, <3>2, <3>3 DEF DueNow
    <2>2. CASE c \notin UNION {rest[a] : a \in Actors}  BY <1>1, <2>2 DEF DueNow
    <2> QED  BY <2>1, <2>2
  <1>6. Sent' = Sent  BY <1>1 DEF Sent
  <1>7. Stream!Join(c)
    BY <1>1, <1>4, <1>5, <1>6 DEF Stream!Join, Heard, Sent, DueNow, Draws
  <1>8. HandOK'  BY <1>1, <1>6 DEF StreamingInv, HandOK
  <1>9. SeqsOK'
    <2>1. got' = [d \in Clients |-> got'[d]] /\ \A d \in Clients : IsSeq(got'[d])
      <3>1. CASE got' = got  BY <1>3, <3>1
      <3>2. CASE got' = [got EXCEPT ![c] = <<greeting>>]
        <4>1. got'[c] = <<greeting>> /\ \A d \in Clients \ {c} : got'[d] = got[d]
          BY <1>3, <3>2
        <4>2. got' = [d \in Clients |-> got'[d]]  BY <1>3, <3>2
        <4> QED  BY <4>1, <4>2, <1>2, <1>3
      <3> QED  BY <1>1, <3>1, <3>2
    <2> QED  BY <1>1, <1>3, <2>1 DEF SeqsOK
  <1> QED  BY <1>7, <1>8, <1>9 DEF Stream!StreamNext, StreamingInv

\* A client that is lost is due nothing any more.
LEMMA LoseStreams ==
    ASSUME StreamingInv, NEW c \in Clients, Lose(c)
    PROVE  Stream!StreamNext /\ StreamingInv'
  <1>1. ready' = ready \ {c} /\ UNCHANGED <<at, hand, rest, got, drawn, aired>>
    BY DEF Lose
  <1>2. Sent' = Sent /\ Heard' = Heard /\ DueNow' = DueNow \ {c}
    BY <1>1 DEF Sent, Heard, DueNow
  <1>3. Stream!Leave(c)
    BY <1>1, <1>2 DEF Stream!Leave, Sent, Heard, DueNow, Draws
  <1>4. StreamingInv'  BY <1>1, <1>2 DEF StreamingInv, SeqsOK, HandOK
  <1> QED  BY <1>3, <1>4 DEF Stream!StreamNext

\* Every step of the controller is one of the stream, or leaves it alone.
LEMMA NextStreams ==
    ASSUME ~MayOverlap
    PROVE  StreamingInv /\ [Next]_vars => [Stream!StreamNext]_Stream!streamVars /\ StreamingInv'
  <1> SUFFICES ASSUME StreamingInv, [Next]_vars
               PROVE  [Stream!StreamNext]_Stream!streamVars /\ StreamingInv'
    OBVIOUS
  <1>1. CASE RunRound  BY <1>1, AdvanceStreams DEF RunRound, Actors
  <1>2. ASSUME NEW a \in Actors, StepOnce(a)
        PROVE  [Stream!StreamNext]_Stream!streamVars /\ StreamingInv'
    BY <1>2, AdvanceStreams DEF StepOnce
  <1>3. ASSUME NEW a \in Actors, Resume(a)
        PROVE  [Stream!StreamNext]_Stream!streamVars /\ StreamingInv'
    BY <1>3, ResumeStreams
  <1>4. ASSUME NEW a \in Actors, Continue(a)
        PROVE  [Stream!StreamNext]_Stream!streamVars /\ StreamingInv'
    BY <1>4, ContinueStreams
  <1>5. ASSUME NEW c \in Clients, Connect(c)
        PROVE  [Stream!StreamNext]_Stream!streamVars /\ StreamingInv'
    BY <1>5, ConnectStreams
  <1>6. ASSUME NEW c \in Clients, Lose(c)
        PROVE  [Stream!StreamNext]_Stream!streamVars /\ StreamingInv'
    BY <1>6, LoseStreams
  <1>7. ASSUME UNCHANGED <<sendVars, drawn>>
        PROVE  [Stream!StreamNext]_Stream!streamVars /\ StreamingInv'
    <2>1. UNCHANGED <<ready, rest, got, aired>>  BY <1>7 DEF sendVars
    <2> QED  BY <1>7, <2>1, Stutter
  <1>8. ASSUME NEW header \in BOOLEAN, SwapFile(header) PROVE UNCHANGED <<sendVars, drawn>>
    BY <1>8 DEF SwapFile
  <1>9. ASSUME NEW k \in Controls, SetLineControls(k) PROVE UNCHANGED <<sendVars, drawn>>
    BY <1>9 DEF SetLineControls
  <1>10. ASSUME NEW line, JumpTo(line) PROVE UNCHANGED <<sendVars, drawn>>
    BY <1>10 DEF JumpTo
  <1>11. CASE TogglePause
    <2>1. UNCHANGED <<sendVars, drawn>>  BY <1>11 DEF TogglePause
    <2> QED  BY <2>1, <1>7
  <1>12. CASE UNCHANGED vars
    <2>1. UNCHANGED <<sendVars, drawn>>  BY <1>12 DEF vars
    <2> QED  BY <2>1, <1>7
  <1> QED  BY <1>1, <1>2, <1>3, <1>4, <1>5, <1>6, <1>7, <1>8, <1>9, <1>10, <1>11, <1>12
           DEF Next

\* While no message is drawn with another in hand, each client is sent a run of the
\* messages drawn, and none is passed over while nobody is connected.
THEOREM StreamingImplements ==
    ASSUME ~MayOverlap
    PROVE  Spec => StreamFollowsSchedule
  <1>1. Init => StreamingInv /\ Stream!StreamInit  BY InitStreaming
  <1>2. StreamingInv /\ [Next]_vars => [Stream!StreamNext]_Stream!streamVars /\ StreamingInv'
    BY NextStreams
  <1> QED  BY <1>1, <1>2, PTL DEF Spec, StreamFollowsSchedule, Stream!StreamSpec

-----------------------------------------------------------------------------
\* What the scheduler is to draw from: the window of the file it is at, with the
\* newest selection, and after it at most one file, the one loaded last.  A header
\* is never left pending: the step that takes a swap draws it.
Positioned(f, k, cursor) ==
    [source |-> f, window |-> Window(f, k), cursor |-> cursor, header |-> FALSE]

SourceInv ==
    /\ controls \in Controls /\ loaded \in Files /\ headed \subseteq 1..loaded
    /\ sched.source \in Files /\ sched.source =< loaded
    /\ sched = Positioned(sched.source, controls, sched.cursor)
    /\ sched.cursor \in Nat
    /\ IF pendingSwap = NoSwap THEN sched.source = loaded
       ELSE /\ pendingSwap = [file |-> loaded, header |-> loaded \in headed]
            /\ sched.source < loaded
    /\ onConnect = IF loaded \in headed THEN loaded ELSE None

\* m is a header of file f, and s has one.
IsHeader(m, f) == m.file = f /\ m.record = 0
Has(s, f) == \E n \in DOMAIN s : IsHeader(s[n], f)

\* What client c was sent so far.
PastOK(c) ==
    /\ \A n \in DOMAIN got[c] :
          /\ got[c][n].file \in 1..loaded
          /\ got[c][n].draw # 0 => got[c][n].file =< sched.source
    /\ \A n, k \in DOMAIN got[c] :
          /\ IsHeader(got[c][n], got[c][k].file) /\ got[c][k].record = 0
          /\ got[c][n].draw # 0 /\ got[c][k].draw # 0
          => n = k
    /\ c \notin midSwap =>
          \A n \in DOMAIN got[c] :
             got[c][n].record # 0 /\ got[c][n].file \in headed
             => \E k \in DOMAIN got[c] : k =< n /\ IsHeader(got[c][k], got[c][n].file)

\* Coroutine a has a message in hand that c may still be sent.
Awaits(a, c) == at[a] = "waiting" \/ (at[a] = "sending" /\ c \in rest[a])

\* Message m may be sent to c while file `source` is under way: it does not repeat
\* a header, nor lack one.
Proper(c, m, source) ==
    /\ m.file \in 1..loaded /\ m.file =< source /\ m.draw # 0
    /\ m.record = 0 =>
          \A n \in DOMAIN got[c] : ~(IsHeader(got[c][n], m.file) /\ got[c][n].draw # 0)
    /\ c \in ready \ midSwap /\ m.record # 0 /\ m.file \in headed => Has(got[c], m.file)

\* The header of the file under way was sent to c, or is on the way to it.
Announced(c) ==
    c \in ready \ midSwap /\ sched.source \in headed =>
       \/ Has(got[c], sched.source)
       \/ \E a \in Actors : Awaits(a, c) /\ IsHeader(hand[a], sched.source)

ClientOK(c) ==
    /\ PastOK(c) /\ Announced(c)
    /\ \A a \in Actors : Awaits(a, c) => Proper(c, hand[a], sched.source)

HeaderInv == SourceInv /\ \A c \in Clients : ClientOK(c)

-----------------------------------------------------------------------------
\* The n numbers from lo on, as a sequence.
From(lo, n) == [i \in 1..n |-> lo + i - 1]

LEMMA FromIsSeq ==
    ASSUME NEW lo \in Nat \ {0}, NEW n \in Nat
    PROVE  /\ From(lo, n) \in Seq(Nat) /\ Len(From(lo, n)) = n
           /\ From(lo, n) = <<>> <=> n = 0
  <1> DEFINE s == From(lo, n)
  <1>1. s \in [1..n -> Nat]  BY DEF From
  <1>2. s \in Seq(Nat)  BY <1>1, SeqDef
  <1>3. Len(s) \in Nat /\ DOMAIN s = 1..Len(s)  BY <1>2, LenProperties
  <1>4. 1..n = 1..Len(s)  BY <1>1, <1>3
  <1> HIDE DEF s
  <1>5. Len(s) = n  BY <1>3, <1>4, SameEnd, Zenon
  <1>6. s = <<>> <=> Len(s) = 0  BY <1>2, EmptySeq
  <1> QED  BY <1>2, <1>5, <1>6 DEF s

\* A part of the numbers from one on, and the first of the numbers from lo on.
Part(s, i, j) == SubSeq(s, i, j)

LEMMA Slices ==
    ASSUME NEW R \in Nat, NEW lo \in Nat \ {0}, NEW last \in Nat, NEW len \in Nat,
           NEW n \in Nat,
           last =< R, len = IF last < lo THEN 0 ELSE last - lo + 1, n =< len
    PROVE  /\ Part(From(1, R), lo, last) = From(lo, len)
           /\ Part(From(lo, len), 1, n) = From(lo, n)
  <1>1. Part(From(1, R), lo, last) = [i \in 1..(1 + last - lo) |-> From(1, R)[i + lo - 1]]
    BY DEF SubSeq, Part
  <1>2. 1..(1 + last - lo) = 1..len  OBVIOUS
  <1>3. \A i \in 1..len : i + lo - 1 \in 1..R /\ 1 + (i + lo - 1) - 1 = lo + i - 1  OBVIOUS
  <1>4. \A i \in 1..len : From(1, R)[i + lo - 1] = lo + i - 1  BY <1>3 DEF From
  <1>5. Part(From(1, R), lo, last) = From(lo, len)
    BY <1>1, <1>2, <1>4 DEF From
  <1>6. Part(From(lo, len), 1, n) = [i \in 1..(1 + n - 1) |-> From(lo, len)[i + 1 - 1]]
    BY DEF SubSeq, Part
  <1>7. 1..(1 + n - 1) = 1..n  OBVIOUS
  <1>8. \A i \in 1..n : i + 1 - 1 = i /\ i \in 1..len  OBVIOUS
  <1>9. \A i \in 1..n : From(lo, len)[i + 1 - 1] = lo + i - 1  BY <1>8 DEF From
  <1>10. Part(From(lo, len), 1, n) = From(lo, n)  BY <1>6, <1>7, <1>9 DEF From
  <1> QED  BY <1>5, <1>10

\* The lines FR-22 selects.
InRange(f, k) ==
    {i \in 1..Records[f] : (k.start = None \/ i >= k.start) /\ (k.end = None \/ i =< k.end)}
Selected(f, k) ==
    {i \in InRange(f, k) :
       k.first = None \/ Cardinality({j \in InRange(f, k) : j =< i}) =< k.first}

\* Slice by slice, the window is the lines selected.
LEMMA WindowRuns ==
    ASSUME NEW f \in Files, NEW k \in Controls
    PROVE  \E lo \in Nat \ {0} : \E n \in Nat :
              /\ Window(f, k) = From(lo, n)
              /\ Selected(f, k) = lo..(lo + n - 1)
  <1>1. /\ k.start \in Nat /\ k.end \in Nat /\ k.first \in Nat
        /\ k.start = 0 \/ k.end = 0 \/ k.start =< k.end
    BY StreamingAssumption DEF ValidControls, None
  <1>2. Records[f] \in Nat
    <2>1. Records \in Seq(Nat) /\ f \in DOMAIN Records  BY StreamingAssumption DEF Files
    <2>2. DOMAIN Records = 1..Len(Records)  BY <2>1, LenProperties
    <2> QED  BY <2>1, <2>2, ElementOfSeq
  <1> DEFINE R == Records[f]
             last == IF k.end = 0 \/ k.end > R THEN R ELSE k.end
             lo == IF k.start = 0 THEN 1 ELSE k.start
             len == IF last < lo THEN 0 ELSE last - lo + 1
             n == IF k.first = 0 \/ k.first > len THEN len ELSE k.first
             sliced == SubSeq([i \in 1..R |-> i], lo, last)
  <1>3. lo \in Nat \ {0} /\ last \in Nat /\ last =< R /\ len \in Nat /\ n \in Nat /\ n =< len
    BY <1>1, <1>2
  <1>4. sliced = From(lo, len) /\ SubSeq(From(lo, len), 1, n) = From(lo, n)
    <2>1. len = IF last < lo THEN 0 ELSE last - lo + 1  OBVIOUS
    <2>2. R \in Nat  BY <1>2
    <2>3. [i \in 1..R |-> i] = From(1, R)
      <3>1. \A i \in 1..R : 1 + i - 1 = i  OBVIOUS
      <3> QED  BY <3>1 DEF From
    <2>4. sliced = Part(From(1, R), lo, last)  BY <2>3 DEF Part
    <2> HIDE DEF R, lo, last, len, n, sliced
    <2>5. Part(From(1, R), lo, last) = From(lo, len) /\ Part(From(lo, len), 1, n) = From(lo, n)
      BY <1>3, <2>1, <2>2, Slices
    <2> QED  BY <2>4, <2>5 DEF Part
  <1>5. Len(sliced) = len  BY <1>3, <1>4, FromIsSeq
  <1>6. Window(f, k) = From(lo, n)
    <2>1. Window(f, k) = IF k.first = 0 \/ k.first > len THEN sliced ELSE SubSeq(sliced, 1, k.first)
      BY <1>5 DEF Window, None
    <2>2. CASE k.first = 0 \/ k.first > len  BY <2>1, <2>2, <1>4
    <2>3. CASE ~(k.first = 0 \/ k.first > len)  BY <2>1, <2>3, <1>4
    <2> QED  BY <2>2, <2>3
  <1>7. InRange(f, k) = lo..last  BY <1>1, <1>2 DEF InRange, None
  <1>8. \A i \in lo..last : Cardinality({j \in lo..last : j =< i}) = i - lo + 1
    <2> SUFFICES ASSUME NEW i \in lo..last
                 PROVE  Cardinality({j \in lo..last : j =< i}) = i - lo + 1
      OBVIOUS
    <2>1. {j \in lo..last : j =< i} = lo..i  BY <1>3
    <2>2. i \in Int /\ lo \in Int /\ ~(lo > i)  BY <1>3
    <2> HIDE DEF lo, last
    <2>3. Cardinality(lo..i) = i - lo + 1  BY <2>2, FS_Interval
    <2> QED  BY <2>1, <2>3
  <1>9. Selected(f, k) = lo..(lo + n - 1)
    <2>1. Selected(f, k) = {i \in lo..last : k.first = 0 \/ i - lo + 1 =< k.first}
      BY <1>7, <1>8 DEF Selected, None
    <2>2. \A i : i \in lo..(lo + n - 1)
                 <=> i \in lo..last /\ (k.first = 0 \/ i - lo + 1 =< k.first)
      BY <1>1, <1>3
    <2> QED  BY <2>1, <2>2
  <1> HIDE DEF lo, n
  <1> QED  BY <1>3, <1>6, <1>9

LEMMA PositionedFields ==
    ASSUME NEW f, NEW k, NEW cursor
    PROVE  /\ Positioned(f, k, cursor).source = f
           /\ Positioned(f, k, cursor).window = Window(f, k)
           /\ Positioned(f, k, cursor).cursor = cursor
  BY DEF Positioned

\* The lines offered are those selected, and their places count from one.
LEMMA SourceSelects ==
    ASSUME SourceInv
    PROVE  /\ WindowSelects
           /\ DOMAIN sched.window \in SUBSET (Nat \ {0})
  <1>1. PICK f \in Files, k \in Controls : f = sched.source /\ k = controls
    BY DEF SourceInv
  <1>2. sched.window = Window(f, k)
    <2>1. PICK s, cursor : s = sched /\ cursor = sched.cursor  OBVIOUS
    <2>2. s = Positioned(f, k, cursor)  BY <1>1, <2>1 DEF SourceInv
    <2> QED  BY <2>1, <2>2, PositionedFields
  <1>3. PICK lo \in Nat \ {0}, n \in Nat :
          Window(f, k) = From(lo, n) /\ Selected(f, k) = lo..(lo + n - 1)
    BY WindowRuns
  <1>4. sched.window = [i \in 1..n |-> lo + i - 1]  BY <1>2, <1>3 DEF From
  <1>5. Range(sched.window) = Selected(f, k)
    <2>1. Range(sched.window) = {lo + i - 1 : i \in 1..n}
      BY <1>4 DEF Range
    <2>2. \A j \in lo..(lo + n - 1) : j - lo + 1 \in 1..n /\ j = lo + (j - lo + 1) - 1
      OBVIOUS
    <2>3. \A i \in 1..n : lo + i - 1 \in lo..(lo + n - 1)  OBVIOUS
    <2>4. {lo + i - 1 : i \in 1..n} = lo..(lo + n - 1)  BY <2>2, <2>3
    <2> QED  BY <2>1, <2>4, <1>3
  <1>6. \A i, j \in DOMAIN sched.window : i < j => sched.window[i] < sched.window[j]
    BY <1>4
  <1>7. WindowSelects  BY <1>1, <1>5, <1>6 DEF WindowSelects, Selected, InRange
  <1> QED  BY <1>4, <1>7

LEMMA FilesAreNumbers == Files \in SUBSET (Nat \ {0}) /\ Files = 1..Len(Records)
  <1>1. Records \in Seq(Nat)  BY StreamingAssumption
  <1>2. DOMAIN Records = 1..Len(Records) /\ Len(Records) \in Nat  BY <1>1, LenProperties
  <1> QED  BY <1>2 DEF Files

\* A step of the scheduler is at the file loaded last from then on.
LEMMA SwapMade ==
    ASSUME SourceInv
    PROVE  /\ Swapped = [source |-> loaded, window |-> Window(loaded, controls),
                         cursor |-> Swapped.cursor, header |-> Swapped.header]
           /\ Swapped.cursor \in Nat
           /\ Swapped.header \in BOOLEAN
           /\ Swapped.header <=> sched.source < loaded /\ loaded \in headed
           /\ sched.source =< loaded /\ sched.source \in Nat /\ loaded \in Nat
  <1>1. loaded \in Nat \ {0} /\ sched.source \in Nat  BY FilesAreNumbers DEF SourceInv
  <1>2. CASE pendingSwap = NoSwap
    <2>1. Swapped = sched /\ sched.source = loaded  BY <1>2 DEF Swapped, SourceInv
    <2>2. sched.header = FALSE  BY DEF SourceInv, Positioned
    <2>3. ~(sched.source < loaded)  BY <2>1, <1>1
    <2>4. Swapped.header = FALSE  BY <2>1, <2>2
    <2>5. Swapped = [source |-> loaded, window |-> Window(loaded, controls),
                     cursor |-> Swapped.cursor, header |-> Swapped.header]
      BY <2>1, <2>4 DEF SourceInv, Positioned
    <2>6. Swapped.cursor \in Nat  BY <2>1 DEF SourceInv
    <2>7. Swapped.header \in BOOLEAN /\ ~Swapped.header  BY <2>4
    <2>8. sched.source =< loaded  BY <2>1, <1>1
    <2> QED  BY <2>3, <2>5, <2>6, <2>7, <2>8, <1>1
  <1>3. CASE pendingSwap # NoSwap
    <2>1. /\ pendingSwap = [file |-> loaded, header |-> loaded \in headed]
          /\ sched.source < loaded
      BY <1>3 DEF SourceInv
    <2>2. Swapped = [source |-> loaded, window |-> Window(loaded, controls), cursor |-> 0,
                     header |-> loaded \in headed]
      BY <1>3, <2>1 DEF Swapped, Rebuilt
    <2>3. /\ Swapped.source = loaded /\ Swapped.window = Window(loaded, controls)
          /\ Swapped.cursor = 0 /\ Swapped.header = (loaded \in headed)
      BY <2>2
    <2>4. Swapped.header \in BOOLEAN /\ (Swapped.header <=> loaded \in headed)
      <3>1. (loaded \in headed) \in BOOLEAN  OBVIOUS
      <3> QED  BY <3>1, <2>3, Zenon
    <2>5. Swapped = [source |-> loaded, window |-> Window(loaded, controls),
                     cursor |-> Swapped.cursor, header |-> Swapped.header]
      BY <2>2, <2>3
    <2> QED  BY <2>1, <2>3, <2>4, <2>5, <1>1
  <1> QED  BY <1>2, <1>3

\* What is drawn is a record of that file, or its header just after the swap.
LEMMA DrawKeepsSource ==
    ASSUME SourceInv, Draw, UNCHANGED <<controls, loaded, onConnect, headed>>
    PROVE  /\ SourceInv' /\ sched'.source = loaded
           /\ Drawn.file = loaded /\ Drawn.draw = drawn + 1
           /\ \/ Drawn.record # 0 /\ (sched.source = loaded \/ loaded \notin headed)
              \/ Drawn.record = 0 /\ sched.source < loaded
  <1>1. /\ Swapped = [source |-> loaded, window |-> Window(loaded, controls),
                      cursor |-> Swapped.cursor, header |-> Swapped.header]
        /\ Swapped.cursor \in Nat
        /\ Swapped.header \in BOOLEAN
        /\ Swapped.header <=> sched.source < loaded /\ loaded \in headed
        /\ sched.source =< loaded /\ sched.source \in Nat /\ loaded \in Nat
    BY SwapMade
  <1>2. /\ Swapped.header \/ HasNext(Swapped)
        /\ pendingSwap' = NoSwap
        /\ sched' = IF Swapped.header THEN [Swapped EXCEPT !.header = FALSE]
                    ELSE [Swapped EXCEPT !.cursor = Position]
    BY DEF Draw, Drawable
  <1>3. loaded \in Files /\ loaded \in Nat  BY FilesAreNumbers DEF SourceInv
  <1>4. Swapped.source = loaded  BY <1>1
  <1>5. Drawn.file = loaded /\ Drawn.draw = drawn + 1  BY <1>4 DEF Drawn
  <1>6. ASSUME sched'.source = loaded, sched'.cursor \in Nat,
               sched' = Positioned(loaded, controls, sched'.cursor)
        PROVE  SourceInv'
    BY <1>6, <1>2, <1>3 DEF SourceInv
  <1>7. CASE Swapped.header
    <2>1. sched' = Positioned(loaded, controls, Swapped.cursor)
      <3>1. PICK s, cursor, header : s = Swapped /\ cursor = s.cursor /\ header = s.header
        OBVIOUS
      <3>2. s = [source |-> loaded, window |-> Window(loaded, controls),
                 cursor |-> cursor, header |-> header]
        BY <3>1, <1>1
      <3>3. sched' = [s EXCEPT !.header = FALSE]  BY <3>1, <1>2, <1>7
      <3>4. sched' = Positioned(loaded, controls, cursor)  BY <3>2, <3>3 DEF Positioned
      <3> QED  BY <3>1, <3>4
    <2>2. Drawn.record = 0  BY <1>7 DEF Drawn
    <2>3. PICK s, k, cursor : s = sched' /\ k = controls /\ cursor = Swapped.cursor  OBVIOUS
    <2>4. s = Positioned(loaded, k, cursor)  BY <2>1, <2>3
    <2>5. s.source = loaded /\ s.cursor = cursor  BY <2>4, PositionedFields
    <2>6. SourceInv' /\ sched'.source = loaded  BY <2>1, <2>3, <2>5, <1>1, <1>6
    <2> QED  BY <2>2, <2>6, <1>1, <1>5, <1>7
  <1>8. CASE ~Swapped.header
    <2>1. Position \in Nat  BY <1>1 DEF Position
    <2>2. sched' = Positioned(loaded, controls, Position)
      <3>1. PICK s, cursor : s = Swapped /\ cursor = s.cursor  OBVIOUS
      <3>2. s = [source |-> loaded, window |-> Window(loaded, controls),
                 cursor |-> cursor, header |-> FALSE]
        BY <3>1, <1>1, <1>8
      <3>3. sched' = [s EXCEPT !.cursor = Position]  BY <3>1, <1>2, <1>8
      <3> QED  BY <3>2, <3>3 DEF Positioned
    <2>3. PICK s, k, cursor : s = sched' /\ k = controls /\ cursor = Position  OBVIOUS
    <2>4. s = Positioned(loaded, k, cursor)  BY <2>2, <2>3
    <2>6. s.source = loaded /\ s.cursor = cursor  BY <2>4, PositionedFields
    <2>7. SourceInv' /\ sched'.source = loaded  BY <2>1, <2>2, <2>3, <2>6, <1>6
    <2>5. Drawn.record # 0
      <3>1. PICK ctl \in Controls : ctl = controls  BY DEF SourceInv
      <3>2. PICK lo \in Nat \ {0}, n \in Nat : Window(loaded, ctl) = From(lo, n)
        <4>1. PICK f \in Files : f = loaded  BY <1>3
        <4> QED  BY <4>1, WindowRuns
      <3>3. Swapped.window = From(lo, n)  BY <1>1, <3>1, <3>2
      <3>4. n # 0 /\ Len(Swapped.window) = n
        BY <1>2, <1>8, <3>3, FromIsSeq DEF HasNext
      <3>5. Position \in 1..n  BY <1>1, <3>4 DEF Position
      <3>6. Swapped.window[Position] = lo + Position - 1  BY <3>3, <3>5 DEF From
      <3>7. Drawn.record = Swapped.window[Position]  BY <1>8 DEF Drawn
      <3> QED  BY <3>5, <3>6, <3>7
    <2> QED  BY <2>7, <2>5, <1>1, <1>5, <1>8
  <1> QED  BY <1>7, <1>8

LEMMA DrawNothingKeepsSource ==
    ASSUME SourceInv, DrawNothing, UNCHANGED <<controls, loaded, onConnect, headed>>
    PROVE  /\ SourceInv' /\ sched'.source = loaded
           /\ sched.source = loaded \/ loaded \notin headed
  <1>1. /\ Swapped = [source |-> loaded, window |-> Window(loaded, controls),
                      cursor |-> Swapped.cursor, header |-> Swapped.header]
        /\ Swapped.cursor \in Nat
        /\ Swapped.header \in BOOLEAN
        /\ Swapped.header <=> sched.source < loaded /\ loaded \in headed
        /\ sched.source =< loaded /\ sched.source \in Nat /\ loaded \in Nat
    BY SwapMade
  <1>2. ~Swapped.header /\ sched' = Swapped /\ pendingSwap' = NoSwap
    BY DEF DrawNothing, Drawable
  <1>3. loaded \in Files  BY DEF SourceInv
  <1>4. Swapped.header = FALSE  BY <1>1, <1>2
  <1>5. sched.source = loaded \/ loaded \notin headed  BY <1>1, <1>2
  <1>6. /\ sched' = Positioned(sched'.source, controls, sched'.cursor)
        /\ sched'.source = loaded /\ sched'.cursor \in Nat
    <2>1. PICK s, k, f, cursor : s = Swapped /\ k = controls /\ f = loaded /\ cursor = s.cursor
      OBVIOUS
    <2>2. s = Positioned(f, k, cursor) /\ cursor \in Nat  BY <2>1, <1>1, <1>4 DEF Positioned
    <2>3. s.source = f /\ s = Positioned(s.source, k, s.cursor)  BY <2>2, PositionedFields
    <2>4. sched' = s  BY <2>1, <1>2
    <2> QED  BY <2>1, <2>2, <2>3, <2>4
  <1> QED  BY <1>2, <1>3, <1>5, <1>6, <1>1 DEF SourceInv

LEMMA InitSource == Init => SourceInv
  <1> SUFFICES ASSUME Init PROVE SourceInv  OBVIOUS
  <1>1. 1 \in Files
    <2>1. Records \in Seq(Nat) /\ Records # <<>>  BY StreamingAssumption
    <2>2. Len(Records) \in Nat /\ Len(Records) # 0  BY <2>1, LenProperties, EmptySeq
    <2> QED  BY <2>2, FilesAreNumbers
  <1>2. /\ controls \in Controls /\ loaded = 1 /\ pendingSwap = NoSwap
        /\ sched = Positioned(1, controls, 0)
        /\ onConnect \in {0, 1} /\ headed = {onConnect} \ {0}
    BY DEF Init, Rebuilt, None, Positioned
  <1>3. /\ sched.source = 1 /\ sched.cursor = 0
        /\ sched = Positioned(sched.source, controls, sched.cursor)
    <2>1. PICK k \in Controls : k = controls  BY <1>2
    <2> QED  BY <1>2, <2>1, PositionedFields
  <1>4. headed \subseteq 1..1 /\ onConnect = IF 1 \in headed THEN 1 ELSE None
    BY <1>2 DEF None
  <1> QED  BY <1>1, <1>2, <1>3, <1>4 DEF SourceInv

\* The scheduler is at a file that was loaded, whatever the user does.
LEMMA NextKeepsSource == SourceInv /\ [Next]_vars => SourceInv'
  <1> SUFFICES ASSUME SourceInv, [Next]_vars PROVE SourceInv'  OBVIOUS
  <1> USE FilesAreNumbers
  <1>1. ASSUME NEW a, Advance(a) PROVE SourceInv'
    <2>1. UNCHANGED <<controls, loaded, onConnect, headed>> /\ (Draw \/ DrawNothing)
      BY <1>1 DEF Advance, history
    <2> QED  BY <2>1, DrawKeepsSource, DrawNothingKeepsSource
  <1>2. ASSUME UNCHANGED <<schedVars, onConnect, headed>> PROVE SourceInv'
    BY <1>2 DEF schedVars, SourceInv
  <1>3. ASSUME NEW a, Resume(a) \/ Continue(a) PROVE UNCHANGED <<schedVars, onConnect, headed>>
    BY <1>3 DEF Resume, Continue, history
  <1>4. ASSUME NEW c, Connect(c) \/ Lose(c) PROVE UNCHANGED <<schedVars, onConnect, headed>>
    BY <1>4 DEF Connect, Lose, history
  <1>5. ASSUME NEW header \in BOOLEAN, SwapFile(header) PROVE SourceInv'
    <2>1. /\ loaded' = loaded + 1 /\ loaded' \in Files /\ UNCHANGED <<controls, sched>>
          /\ pendingSwap' = [file |-> loaded', header |-> header]
          /\ onConnect' = IF header THEN loaded' ELSE None
          /\ headed' = IF header THEN headed \cup {loaded'} ELSE headed
      BY <1>5 DEF SwapFile, RequestSwap, UpdateHeader
    <2>2. headed \subseteq 1..loaded /\ loaded \in Nat /\ sched.source \in Nat
      BY DEF SourceInv
    <2>3. loaded' \notin headed  BY <2>1, <2>2
    <2>4. headed' \subseteq 1..loaded' /\ (loaded' \in headed') = header
      BY <2>1, <2>2, <2>3
    <2>5. pendingSwap' # NoSwap
      <3>1. pendingSwap'.file # NoSwap.file  BY <2>1, <2>2 DEF NoSwap, None
      <3> QED  BY <3>1
    <2> QED  BY <2>1, <2>2, <2>4, <2>5 DEF SourceInv
  <1>6. ASSUME NEW k \in Controls, SetLineControls(k) PROVE SourceInv'
    <2>1. /\ controls' = k /\ UNCHANGED <<pendingSwap, loaded, onConnect, headed>>
          /\ sched' = [source |-> sched.source, window |-> Window(sched.source, k),
                       cursor |-> 0, header |-> sched.header]
      BY <1>6 DEF SetLineControls, Rebuilt, history
    <2>2. sched.header = FALSE  BY DEF SourceInv, Positioned
    <2>3. PICK s, f : s = sched' /\ f = sched.source  OBVIOUS
    <2>4. s = Positioned(f, k, 0)  BY <2>1, <2>2, <2>3 DEF Positioned
    <2>5. s.source = f /\ s.cursor = 0 /\ s = Positioned(s.source, k, s.cursor)
      BY <2>4, PositionedFields
    <2> QED  BY <2>1, <2>3, <2>5 DEF SourceInv
  <1>7. ASSUME NEW line, JumpTo(line) PROVE SourceInv'
    <2>1. /\ line \in DOMAIN sched.window /\ sched' = [sched EXCEPT !.cursor = line - 1]
          /\ UNCHANGED <<controls, pendingSwap, loaded, onConnect, headed>>
      BY <1>7 DEF JumpTo, Jumped, history
    <2>2. line - 1 \in Nat  BY <2>1, SourceSelects
    <2>3. PICK s, f, k, cursor :
            s = sched /\ f = sched.source /\ k = controls /\ cursor = sched.cursor
      OBVIOUS
    <2>4. s = Positioned(f, k, cursor)  BY <2>3 DEF SourceInv
    <2>5. PICK t : t = sched'  OBVIOUS
    <2>6. t = Positioned(f, k, line - 1)
      <3>1. PICK no, w : no = FALSE /\ w = Window(f, k)  OBVIOUS
      <3>2. s = [source |-> f, window |-> w, cursor |-> cursor, header |-> no]
        BY <2>4, <3>1 DEF Positioned
      <3>3. t = [s EXCEPT !.cursor = line - 1]  BY <2>1, <2>3, <2>5
      <3>4. t = [source |-> f, window |-> w, cursor |-> line - 1, header |-> no]
        BY <3>2, <3>3
      <3> QED  BY <3>1, <3>4 DEF Positioned
    <2>7. t.source = f /\ t.cursor = line - 1 /\ t = Positioned(t.source, k, t.cursor)
      BY <2>6, PositionedFields
    <2> QED  BY <2>1, <2>2, <2>3, <2>5, <2>7 DEF SourceInv
  <1>8. CASE TogglePause
    BY <1>8 DEF TogglePause, SourceInv, history
  <1>9. CASE UNCHANGED vars  BY <1>9, <1>2 DEF vars, history
  <1> QED  BY <1>1, <1>2, <1>3, <1>4, <1>5, <1>6, <1>7, <1>8, <1>9
           DEF Next, RunRound, StepOnce

\* FR-22, for every file and every sequence of selections, swaps and jumps: what the
\* scheduler offers is the lines selected of the file under way.
THEOREM WindowRight == Spec => []WindowSelects
  <1>1. Init => SourceInv  BY InitSource
  <1>2. SourceInv /\ [Next]_vars => SourceInv'  BY NextKeepsSource
  <1>3. SourceInv => WindowSelects  BY SourceSelects
  <1> QED  BY <1>1, <1>2, <1>3, PTL DEF Spec

-----------------------------------------------------------------------------
\* Appending keeps what was there.
LEMMA AppendKeeps ==
    ASSUME NEW s, IsSeq(s), NEW m
    PROVE  /\ DOMAIN s = 1..Len(s) /\ Len(s) \in Nat
           /\ DOMAIN Append(s, m) = 1..(Len(s) + 1) /\ Append(s, m)[Len(s) + 1] = m
           /\ \A i \in 1..Len(s) : Append(s, m)[i] = s[i]
  <1>1. PICK S : s \in Seq(S)  BY DEF IsSeq
  <1> DEFINE T == S \cup {m}
             t == Append(s, m)
  <1>2. s \in Seq(T)
    <2>1. Len(s) \in Nat /\ s \in [1..Len(s) -> S]  BY <1>1, LenProperties
    <2>2. s \in [1..Len(s) -> T]  BY <2>1
    <2> QED  BY <2>1, <2>2, SeqDef
  <1>3. /\ t \in Seq(T) /\ Len(t) = Len(s) + 1 /\ t[Len(s) + 1] = m
        /\ \A i \in 1..Len(s) : t[i] = s[i]
    BY <1>2, AppendProperties
  <1>4. Len(s) \in Nat /\ DOMAIN s = 1..Len(s)  BY <1>2, LenProperties
  <1>5. DOMAIN t = 1..Len(t)  BY <1>3, LenProperties
  <1> QED  BY <1>3, <1>4, <1>5

\* What client c was sent, files, headers and joining times being the same.
SameHistory(c) == got'[c] = got[c] /\ (c \in midSwap') = (c \in midSwap)

\* Files may be loaded: they are none of those that messages come from.
SameFiles ==
    /\ loaded \in Nat /\ loaded' \in Nat /\ loaded =< loaded'
    /\ \A f \in 1..loaded : (f \in headed') = (f \in headed)

\* Nothing but the loss of clients and the loading of a file concerns client c.
LEMMA StillOK ==
    ASSUME SameFiles, sched'.source = sched.source, sched.source \in 1..loaded,
           UNCHANGED <<at, hand, rest>>,
           NEW c \in Clients, SameHistory(c), c \in ready' => c \in ready, ClientOK(c)
    PROVE  ClientOK(c)'
  <1>1. loaded \in Nat /\ loaded' \in Nat /\ loaded =< loaded'  BY DEF SameFiles
  <1>2. \A f \in 1..loaded : f \in 1..loaded' /\ (f \in headed' <=> f \in headed)
    BY <1>1 DEF SameFiles
  <1>3. got'[c] = got[c] /\ (c \in midSwap' <=> c \in midSwap)  BY DEF SameHistory
  <1>4. PastOK(c)'
    <2>1. PastOK(c)  BY DEF ClientOK
    <2>2. \A n \in DOMAIN got'[c] :
             /\ got'[c][n].file \in 1..loaded'
             /\ got'[c][n].draw # 0 => got'[c][n].file =< sched'.source
      BY <2>1, <1>2, <1>3 DEF PastOK
    <2>3. ASSUME c \notin midSwap', NEW n \in DOMAIN got'[c],
                 got'[c][n].record # 0, got'[c][n].file \in headed'
          PROVE  \E k \in DOMAIN got'[c] : k =< n /\ IsHeader(got'[c][k], got'[c][n].file)
      <3>1. got[c][n].file \in 1..loaded  BY <2>1, <1>3 DEF PastOK
      <3>2. got[c][n].file \in headed /\ c \notin midSwap  BY <2>3, <3>1, <1>2, <1>3
      <3> QED  BY <2>1, <2>3, <3>2, <1>3 DEF PastOK
    <2> QED  BY <2>1, <2>2, <2>3, <1>3 DEF PastOK
  <1>5. Announced(c)'
    <2>1. Announced(c)  BY DEF ClientOK
    <2>2. \A a : Awaits(a, c)' <=> Awaits(a, c)  BY DEF Awaits
    <2>3. sched.source \in headed' <=> sched.source \in headed  BY <1>2
    <2>4. Has(got[c], sched.source) => Has(got'[c], sched'.source)  BY <1>3 DEF Has
    <2> QED  BY <2>1, <2>2, <2>3, <2>4, <1>3 DEF Announced
  <1>6. ASSUME NEW a \in Actors, Awaits(a, c)' PROVE Proper(c, hand[a], sched.source)'
    <2>1. Awaits(a, c)  BY <1>6 DEF Awaits
    <2>2. Proper(c, hand[a], sched.source)  BY <2>1 DEF ClientOK
    <2>3. PICK m : m = hand[a]  OBVIOUS
    <2>4. m.file \in 1..loaded /\ hand'[a] = m  BY <2>2, <2>3 DEF Proper
    <2>5. m.file \in 1..loaded' /\ (m.file \in headed' <=> m.file \in headed)
      BY <2>4, <1>2
    <2> QED  BY <2>2, <2>3, <2>4, <2>5, <1>3 DEF Proper, Has
  <1> QED  BY <1>4, <1>5, <1>6 DEF ClientOK

\* To each client left, the message goes now, or later, or the client is gone.
LEMMA VisitOutcome ==
    ASSUME SeqsOK, at = [b \in Actors |-> at[b]], hand = [b \in Actors |-> hand[b]],
           rest = [b \in Actors |-> rest[b]],
           NEW a \in Actors, \A b \in Actors \ {a} : at[b] = "idle",
           NEW m, NEW left, Visit(a, m, left), NEW c \in Clients
    PROVE  /\ c \in ready' => c \in ready
           /\ \A b \in Actors : Awaits(b, c)' => b = a /\ c \in left /\ hand'[b] = m
           /\ \/ /\ c \in left \cap ready /\ got'[c] = Append(got[c], m)
                 /\ \A b \in Actors : ~Awaits(b, c)'
              \/ /\ got'[c] = got[c]
                 /\ c \in left /\ c \in ready' => Awaits(a, c)' /\ hand'[a] = m
  <1>1. \A b \in Actors \ {a} : at'[b] = "idle"  BY DEF Visit
  <1>2. CASE /\ got' = Queued(left \cap ready, m) /\ at' = [at EXCEPT ![a] = "idle"]
             /\ UNCHANGED ready
    <2>1. \A b \in Actors : ~Awaits(b, c)'  BY <1>1, <1>2 DEF Awaits
    <2>2. got'[c] = IF c \in left \cap ready THEN Append(got[c], m) ELSE got[c]
      BY <1>2 DEF Queued
    <2> QED  BY <1>2, <2>1, <2>2
  <1>3. ASSUME NEW d \in left \cap ready, NEW served \in SUBSET (left \ {d}),
               got' = Queued(served \cap ready, m), at' = [at EXCEPT ![a] = "sending"],
               hand' = [hand EXCEPT ![a] = m],
               rest' = [rest EXCEPT ![a] = left \ (served \cup {d})], ready' = ready \ {d}
        PROVE  /\ c \in ready' => c \in ready
               /\ \A b \in Actors : Awaits(b, c)' => b = a /\ c \in left /\ hand'[b] = m
               /\ \/ /\ c \in left \cap ready /\ got'[c] = Append(got[c], m)
                     /\ \A b \in Actors : ~Awaits(b, c)'
                  \/ /\ got'[c] = got[c]
                     /\ c \in left /\ c \in ready' => Awaits(a, c)' /\ hand'[a] = m
    <2>1. at'[a] = "sending" /\ hand'[a] = m /\ rest'[a] = left \ (served \cup {d})
      BY <1>3
    <2>2. got'[c] = IF c \in served \cap ready THEN Append(got[c], m) ELSE got[c]
      BY <1>3 DEF Queued
    <2>3. \A b \in Actors : Awaits(b, c)' <=> b = a /\ c \in left \ (served \cup {d})
      BY <1>1, <2>1 DEF Awaits
    <2> QED  BY <1>3, <2>1, <2>2, <2>3
  <1> QED  BY <1>2, <1>3 DEF Visit

\* A message that may be sent to c leaves it well served, and so does one that is
\* still to be sent.
LEMMA AppendOK ==
    ASSUME NEW c \in Clients, NEW m, IsSeq(got[c]), got'[c] = Append(got[c], m),
           UNCHANGED <<loaded, headed, midSwap>>, c \in ready,
           sched.source \in Nat, sched'.source \in Nat, sched.source =< sched'.source,
           loaded \in Nat, PastOK(c), Proper(c, m, sched'.source)
    PROVE  /\ PastOK(c)'
           /\ Has(got'[c], m.file) <=> Has(got[c], m.file) \/ m.record = 0
           /\ \A f : Has(got[c], f) => Has(got'[c], f)
  <1> DEFINE L == Len(got[c])
  <1>1. /\ DOMAIN got[c] = 1..L /\ L \in Nat /\ DOMAIN got'[c] = 1..(L + 1)
        /\ got'[c][L + 1] = m /\ \A i \in 1..L : got'[c][i] = got[c][i]
    BY AppendKeeps
  <1> HIDE DEF L
  <1>2. PICK source \in Nat : source = sched'.source  OBVIOUS
  <1>3. Proper(c, m, source) /\ sched.source =< source  BY <1>2
  <1>4. ASSUME NEW n \in 1..(L + 1)
        PROVE  /\ got'[c][n].file \in 1..loaded
               /\ got'[c][n].draw # 0 => got'[c][n].file =< source
    <2>1. CASE n \in 1..L
      <3>1. /\ got[c][n].file \in 1..loaded
            /\ got[c][n].draw # 0 => got[c][n].file =< sched.source
        BY <2>1, <1>1 DEF PastOK
      <3>2. got'[c][n] = got[c][n]  BY <2>1, <1>1
      <3> QED  BY <3>1, <3>2, <1>3
    <2>2. CASE n = L + 1  BY <2>2, <1>1, <1>3 DEF Proper
    <2> QED  BY <2>1, <2>2, <1>1
  <1>5. ASSUME NEW n \in 1..(L + 1), NEW k \in 1..(L + 1),
               IsHeader(got'[c][n], got'[c][k].file), got'[c][k].record = 0,
               got'[c][n].draw # 0, got'[c][k].draw # 0
        PROVE  n = k
    <2>1. CASE n \in 1..L /\ k \in 1..L  BY <2>1, <1>1, <1>5 DEF PastOK
    <2>2. CASE n = L + 1 /\ k \in 1..L
      <3>1. m.record = 0 /\ IsHeader(got[c][k], m.file) /\ got[c][k].draw # 0
        BY <2>2, <1>1, <1>5 DEF IsHeader
      <3> QED  BY <3>1, <2>2, <1>1, <1>3 DEF Proper
    <2>3. CASE n \in 1..L /\ k = L + 1
      <3>1. m.record = 0 /\ IsHeader(got[c][n], m.file) /\ got[c][n].draw # 0
        BY <2>3, <1>1, <1>5 DEF IsHeader
      <3> QED  BY <3>1, <2>3, <1>1, <1>3 DEF Proper
    <2> QED  BY <2>1, <2>2, <2>3, <1>1
  <1>6. ASSUME c \notin midSwap, NEW n \in 1..(L + 1),
               got'[c][n].record # 0, got'[c][n].file \in headed
        PROVE  \E k \in 1..(L + 1) : k =< n /\ IsHeader(got'[c][k], got'[c][n].file)
    <2>1. CASE n \in 1..L
      <3>1. \E k \in 1..L : k =< n /\ IsHeader(got[c][k], got[c][n].file)
        BY <2>1, <1>1, <1>6 DEF PastOK
      <3>2. PICK k \in 1..L : k =< n /\ IsHeader(got[c][k], got[c][n].file)  BY <3>1
      <3>3. k \in 1..(L + 1) /\ got'[c][k] = got[c][k] /\ got'[c][n] = got[c][n]
        BY <2>1, <1>1
      <3> QED  BY <3>2, <3>3
    <2>2. CASE n = L + 1
      <3>1. Has(got[c], m.file)  BY <2>2, <1>1, <1>3, <1>6 DEF Proper
      <3>2. PICK k \in 1..L : IsHeader(got[c][k], m.file)  BY <3>1, <1>1 DEF Has
      <3>3. k \in 1..(L + 1) /\ k =< n /\ got'[c][k] = got[c][k] /\ got'[c][n] = m
        BY <2>2, <1>1
      <3> QED  BY <3>2, <3>3
    <2> QED  BY <2>1, <2>2, <1>1
  <1>7. PastOK(c)'  BY <1>1, <1>2, <1>4, <1>5, <1>6 DEF PastOK
  <1>8. \A f : Has(got[c], f) => Has(got'[c], f)  BY <1>1 DEF Has
  <1>9. Has(got'[c], m.file) <=> Has(got[c], m.file) \/ m.record = 0
    <2>1. m.record = 0 => Has(got'[c], m.file)  BY <1>1 DEF Has, IsHeader
    <2>2. Has(got'[c], m.file) => Has(got[c], m.file) \/ m.record = 0
      <3>1. SUFFICES ASSUME NEW n \in 1..(L + 1), IsHeader(got'[c][n], m.file)
                     PROVE  Has(got[c], m.file) \/ m.record = 0
        BY <1>1 DEF Has
      <3>2. CASE n \in 1..L  BY <3>1, <3>2, <1>1 DEF Has
      <3>3. CASE n = L + 1  BY <3>1, <3>3, <1>1 DEF IsHeader
      <3> QED  BY <3>2, <3>3, <1>1
    <2> QED  BY <2>1, <2>2, <1>8
  <1> QED  BY <1>7, <1>8, <1>9

LEMMA ServeKeeps ==
    ASSUME SeqsOK, at = [b \in Actors |-> at[b]], hand = [b \in Actors |-> hand[b]],
           rest = [b \in Actors |-> rest[b]],
           NEW a \in Actors, \A b \in Actors \ {a} : at[b] = "idle",
           NEW m, NEW left, Visit(a, m, left), NEW c \in Clients,
           UNCHANGED <<loaded, headed, midSwap>>, loaded \in Nat,
           sched.source \in Nat, sched'.source \in Nat, sched.source =< sched'.source,
           PastOK(c), c \in left => Proper(c, m, sched'.source),
           c \in ready \ midSwap /\ sched'.source \in headed =>
              Has(got[c], sched'.source) \/ (c \in left /\ IsHeader(m, sched'.source))
    PROVE  ClientOK(c)'
  <1>1. /\ c \in ready' => c \in ready
        /\ \A b \in Actors : Awaits(b, c)' => b = a /\ c \in left /\ hand'[b] = m
        /\ \/ /\ c \in left \cap ready /\ got'[c] = Append(got[c], m)
              /\ \A b \in Actors : ~Awaits(b, c)'
           \/ /\ got'[c] = got[c]
              /\ c \in left /\ c \in ready' => Awaits(a, c)' /\ hand'[a] = m
    BY VisitOutcome
  <1>2. CASE /\ c \in left \cap ready /\ got'[c] = Append(got[c], m)
             /\ \A b \in Actors : ~Awaits(b, c)'
    <2>1. IsSeq(got[c]) /\ Proper(c, m, sched'.source)  BY <1>2 DEF SeqsOK
    <2>2. /\ PastOK(c)'
          /\ Has(got'[c], m.file) <=> Has(got[c], m.file) \/ m.record = 0
          /\ \A f : Has(got[c], f) => Has(got'[c], f)
      BY <1>2, <2>1, AppendOK
    <2>3. Announced(c)'
      <3>1. CASE Has(got[c], sched'.source)  BY <3>1, <2>2 DEF Announced
      <3>2. CASE IsHeader(m, sched'.source)
        <4>1. m.file = sched'.source /\ m.record = 0  BY <3>2 DEF IsHeader
        <4> QED  BY <4>1, <2>2 DEF Announced
      <3> QED  BY <3>1, <3>2, <1>2 DEF Announced
    <2> QED  BY <1>2, <2>2, <2>3 DEF ClientOK
  <1>3. CASE /\ got'[c] = got[c]
             /\ c \in left /\ c \in ready' => Awaits(a, c)' /\ hand'[a] = m
    <2>1. PICK source \in Nat : source = sched'.source  OBVIOUS
    <2>2. PastOK(c)'
      <3>1. \A n \in DOMAIN got[c] : got[c][n].file \in Nat  BY DEF PastOK
      <3>2. \A n \in DOMAIN got[c] : got[c][n].draw # 0 => got[c][n].file =< sched'.source
        BY <3>1 DEF PastOK
      <3> QED  BY <3>2, <1>3 DEF PastOK
    <2>3. Announced(c)'
      <3>1. SUFFICES ASSUME c \in ready' \ midSwap', sched'.source \in headed'
                     PROVE  \/ Has(got'[c], sched'.source)
                            \/ \E b \in Actors : Awaits(b, c)' /\ IsHeader(hand'[b], sched'.source)
        BY DEF Announced
      <3>2. Has(got[c], sched'.source) \/ (c \in left /\ IsHeader(m, sched'.source))
        BY <3>1, <1>1
      <3> QED  BY <3>1, <3>2, <1>3
    <2>4. ASSUME NEW b \in Actors, Awaits(b, c)' PROVE Proper(c, hand[b], sched.source)'
      <3>1. c \in left /\ hand'[b] = m  BY <2>4, <1>1
      <3>2. Proper(c, m, source)  BY <3>1, <2>1
      <3> QED  BY <3>1, <3>2, <2>1, <1>1, <1>3 DEF Proper, Has
    <2> QED  BY <2>2, <2>3, <2>4 DEF ClientOK
  <1> QED  BY <1>1, <1>2, <1>3

\* With nobody at work, what is drawn may be sent to every client, and leaves none
\* without the header of the file it is from.
LEMMA DrawnProper ==
    ASSUME StreamingInv, HeaderInv, \A a \in Actors : at[a] = "idle",
           Draw, UNCHANGED <<controls, loaded, onConnect, headed>>, NEW c \in Clients
    PROVE  /\ Proper(c, Drawn, sched'.source)
           /\ c \in ready \ midSwap /\ sched'.source \in headed =>
                 Has(got[c], sched'.source) \/ IsHeader(Drawn, sched'.source)
  <1>1. /\ sched'.source = loaded /\ Drawn.file = loaded /\ Drawn.draw = drawn + 1
        /\ \/ Drawn.record # 0 /\ (sched.source = loaded \/ loaded \notin headed)
           \/ Drawn.record = 0 /\ sched.source < loaded
    BY DrawKeepsSource DEF HeaderInv
  <1>2. loaded \in Nat \ {0} /\ sched.source \in Nat /\ drawn \in Nat
    BY FilesAreNumbers DEF HeaderInv, SourceInv, StreamingInv, HandOK
  <1>3. PICK m : m = Drawn  OBVIOUS
  <1>4. PastOK(c) /\ Announced(c)  BY DEF HeaderInv, ClientOK
  <1>5. c \in ready \ midSwap /\ sched.source \in headed => Has(got[c], sched.source)
    BY <1>4 DEF Announced, Awaits
  <1>6. m.file = loaded /\ m.draw # 0  BY <1>1, <1>2, <1>3
  <1>7. CASE m.record # 0 /\ (sched.source = loaded \/ loaded \notin headed)
    <2>1. c \in ready \ midSwap /\ loaded \in headed => Has(got[c], loaded)  BY <1>5, <1>7
    <2>2. Proper(c, m, loaded)  BY <2>1, <1>2, <1>6, <1>7 DEF Proper
    <2> QED  BY <2>1, <2>2, <1>1, <1>3
  <1>8. CASE m.record = 0 /\ sched.source < loaded
    <2>1. ASSUME NEW n \in DOMAIN got[c], IsHeader(got[c][n], m.file), got[c][n].draw # 0
          PROVE  FALSE
      <3>1. got[c][n].file = loaded /\ got[c][n].file =< sched.source
        BY <2>1, <1>4, <1>6 DEF PastOK, IsHeader
      <3> QED  BY <3>1, <1>2, <1>8
    <2>2. Proper(c, m, loaded)  BY <2>1, <1>2, <1>6, <1>8 DEF Proper
    <2>3. IsHeader(m, loaded)  BY <1>6, <1>8 DEF IsHeader
    <2> QED  BY <2>2, <2>3, <1>1, <1>3
  <1> QED  BY <1>1, <1>3, <1>7, <1>8

LEMMA AdvanceHeaders ==
    ASSUME ~MayOverlap, StreamingInv, HeaderInv, NEW a \in Actors, Advance(a),
           NEW c \in Clients
    PROVE  ClientOK(c)'
  <1>1. /\ \A b \in Actors : at[b] = "idle"
        /\ (Draw /\ Send(a, Drawn)) \/ (DrawNothing /\ UNCHANGED sendVars)
        /\ UNCHANGED <<controls, loaded, onConnect, headed, midSwap>>
    BY DEF Advance, history
  <1>2. /\ SeqsOK /\ at = [b \in Actors |-> at[b]] /\ hand = [b \in Actors |-> hand[b]]
        /\ rest = [b \in Actors |-> rest[b]]
    BY DEF StreamingInv, HandOK
  <1>3. /\ SourceInv /\ PastOK(c) /\ Announced(c) /\ loaded \in Nat /\ sched.source \in Nat
        /\ sched.source =< loaded
    BY FilesAreNumbers DEF HeaderInv, ClientOK, SourceInv
  <1>4. ASSUME got' = got, sched'.source = loaded PROVE PastOK(c)'
    <2>1. \A n \in DOMAIN got[c] : got[c][n].file \in Nat  BY <1>3 DEF PastOK
    <2>2. \A n \in DOMAIN got[c] : got[c][n].draw # 0 => got[c][n].file =< loaded
      BY <2>1, <1>3 DEF PastOK
    <2> QED  BY <2>2, <1>1, <1>3, <1>4 DEF PastOK
  <1>5. CASE DrawNothing /\ UNCHANGED sendVars
    <2>1. sched'.source = loaded /\ (sched.source = loaded \/ loaded \notin headed)
      BY <1>1, <1>3, <1>5, DrawNothingKeepsSource
    <2>2. \A b \in Actors : ~Awaits(b, c) /\ ~Awaits(b, c)'
      BY <1>1, <1>5 DEF Awaits, sendVars
    <2>3. Announced(c)'
      BY <2>1, <2>2, <1>1, <1>3, <1>5 DEF Announced, sendVars, Has
    <2>4. got' = got  BY <1>5 DEF sendVars
    <2> QED  BY <2>1, <2>2, <2>3, <2>4, <1>4 DEF ClientOK
  <1>6. CASE Draw /\ Send(a, Drawn)
    <2>1. PICK m : m = Drawn  OBVIOUS
    <2>2. /\ Proper(c, m, sched'.source)
          /\ c \in ready \ midSwap /\ sched'.source \in headed =>
                Has(got[c], sched'.source) \/ IsHeader(m, sched'.source)
      BY <2>1, <1>1, <1>6, DrawnProper
    <2>3. sched'.source = loaded
      BY <1>1, <1>3, <1>6, DrawKeepsSource
    <2>4. CASE ready # {} /\ Air(a, Drawn)
      <3>1. PICK left : left = ready  OBVIOUS
      <3>2. Visit(a, m, left)  BY <2>1, <2>4, <3>1 DEF Air, Visit
      <3>3. \A b \in Actors \ {a} : at[b] = "idle"  BY <1>1
      <3>4. c \in ready \ midSwap /\ sched'.source \in headed =>
               Has(got[c], sched'.source) \/ (c \in left /\ IsHeader(m, sched'.source))
        BY <2>2, <3>1
      <3> QED  BY <3>2, <3>3, <3>4, <2>2, <2>3, <1>1, <1>2, <1>3, ServeKeeps
    <2>5. CASE /\ ready = {} /\ at' = [at EXCEPT ![a] = "waiting"]
               /\ hand' = [hand EXCEPT ![a] = Drawn] /\ UNCHANGED <<rest, ready, got, aired>>
      <3>1. \A b \in Actors : Awaits(b, c)' => b = a  BY <1>1, <2>5 DEF Awaits
      <3>2. hand'[a] = m  BY <2>1, <2>5, <1>2
      <3>3. PICK source : source = sched'.source  OBVIOUS
      <3>4. Proper(c, m, source)  BY <2>2, <3>3
      <3>5. Proper(c, hand[a], sched.source)'
        BY <3>2, <3>3, <3>4, <2>5, <1>1 DEF Proper, Has
      <3>6. Announced(c)'  BY <2>5 DEF Announced
      <3> QED  BY <3>1, <3>5, <3>6, <2>3, <2>5, <1>4 DEF ClientOK
    <2> QED  BY <2>4, <2>5, <1>6 DEF Send
  <1> QED  BY <1>1, <1>5, <1>6

LEMMA BroadcastHeaders ==
    ASSUME StreamingInv, HeaderInv, NEW a \in Actors, Resume(a) \/ Continue(a),
           NEW c \in Clients
    PROVE  ClientOK(c)'
  <1>1. /\ SeqsOK /\ at = [b \in Actors |-> at[b]] /\ hand = [b \in Actors |-> hand[b]]
        /\ rest = [b \in Actors |-> rest[b]] /\ at[a] # "idle"
        /\ \A b \in Actors \ {a} : at[b] = "idle"
    BY DEF StreamingInv, HandOK, Resume, Continue
  <1>2. UNCHANGED <<loaded, headed, midSwap, sched>>
    BY DEF Resume, Continue, schedVars, history
  <1>3. /\ PastOK(c) /\ Announced(c) /\ loaded \in Nat /\ sched.source \in Nat
        /\ Awaits(a, c) => Proper(c, hand[a], sched.source)
    BY FilesAreNumbers DEF HeaderInv, ClientOK, SourceInv
  <1>4. PICK m : m = hand[a]  OBVIOUS
  <1>5. PICK left : /\ left = IF at[a] = "waiting" THEN ready ELSE rest[a]
                    /\ Visit(a, m, left)
    BY <1>4 DEF Resume, Continue, Air, Visit
  <1>6. /\ c \in left => Awaits(a, c)
        /\ Awaits(a, c) /\ c \in ready => c \in left
    BY <1>5 DEF Awaits, Resume, Continue
  <1>7. PICK source \in Nat : source = sched.source  BY <1>3
  <1>8. sched'.source = source  BY <1>2, <1>7
  <1>9. c \in left => Proper(c, m, source)  BY <1>3, <1>4, <1>6, <1>7
  <1>10. c \in ready \ midSwap /\ source \in headed =>
            Has(got[c], source) \/ (c \in left /\ IsHeader(m, source))
    <2>1. \A b \in Actors : Awaits(b, c) => b = a  BY <1>1 DEF Awaits
    <2> QED  BY <2>1, <1>3, <1>4, <1>6, <1>7 DEF Announced
  <1>11. /\ c \in left => Proper(c, m, sched'.source)
         /\ c \in ready \ midSwap /\ sched'.source \in headed =>
               Has(got[c], sched'.source) \/ (c \in left /\ IsHeader(m, sched'.source))
         /\ sched.source =< sched'.source /\ sched'.source \in Nat
    BY <1>7, <1>8, <1>9, <1>10
  <1> QED  BY <1>1, <1>2, <1>3, <1>5, <1>11, ServeKeeps

\* A client that does not connect in the middle of a swap gets the header of the
\* one file messages still come from.
LEMMA ConnectHeaders ==
    ASSUME StreamingInv, HeaderInv, NEW c \in Clients, Connect(c), NEW d \in Clients
    PROVE  ClientOK(d)'
  <1>1. /\ got[c] = <<>> /\ UNCHANGED <<sched, loaded, headed, at, hand, rest>>
        /\ ready' = ready \cup {c}
        /\ midSwap' = IF SwapUnderWay THEN midSwap \cup {c} ELSE midSwap \ {c}
        /\ got' = IF onConnect = None THEN got
                  ELSE [got EXCEPT ![c] = <<[file |-> onConnect, record |-> 0, draw |-> 0]>>]
    BY DEF Connect, Connected, schedVars
  <1>2. got = [e \in Clients |-> got[e]]  BY DEF StreamingInv, SeqsOK
  <1>3. /\ SourceInv /\ ClientOK(d) /\ ClientOK(c) /\ loaded \in Nat \ {0}
        /\ sched.source \in 1..loaded
    BY FilesAreNumbers DEF HeaderInv, SourceInv
  <1>4. CASE d # c
    <2>1. got'[d] = got[d] /\ (d \in midSwap' <=> d \in midSwap) /\ (d \in ready' <=> d \in ready)
      BY <1>1, <1>2, <1>4
    <2>2. SameHistory(d) /\ SameFiles
      <3>1. (d \in midSwap)' \in BOOLEAN /\ (d \in midSwap) \in BOOLEAN  OBVIOUS
      <3> QED  BY <2>1, <3>1, <1>1, <1>3 DEF SameHistory, SameFiles
    <2> QED  BY <2>1, <2>2, <1>1, <1>3, StillOK
  <1>5. CASE d = c
    <2> DEFINE greeting == [file |-> onConnect, record |-> 0, draw |-> 0]
    <2>1. greeting.file = onConnect /\ greeting.record = 0 /\ greeting.draw = 0  OBVIOUS
    <2> HIDE DEF greeting
    <2>2. /\ \A n \in DOMAIN got'[c] : n = 1 /\ got'[c][n] = greeting
          /\ onConnect # None => 1 \in DOMAIN got'[c]
      <3>1. CASE onConnect = None
        <4>1. got'[c] = <<>>  BY <1>1, <3>1
        <4>2. DOMAIN <<>> = {}  OBVIOUS
        <4> QED  BY <4>1, <4>2, <3>1
      <3>2. CASE onConnect # None
        <4>1. got' = [got EXCEPT ![c] = <<greeting>>]  BY <1>1, <3>2 DEF greeting
        <4>2. got'[c] = <<greeting>>  BY <4>1, <1>2
        <4> QED  BY <4>2
      <3> QED  BY <3>1, <3>2
    <2>3. onConnect # None => onConnect = loaded /\ loaded \in headed
      BY <1>3 DEF SourceInv
    <2>4. loaded \in headed => Has(got'[c], loaded)
      <3>1. loaded \in headed => onConnect = loaded /\ onConnect # None
        BY <1>3 DEF SourceInv, None
      <3> QED  BY <2>1, <2>2, <3>1 DEF Has, IsHeader
    <2>5. PastOK(c)'
      <3>1. ASSUME NEW n \in DOMAIN got'[c]
            PROVE  /\ got'[c][n].file \in 1..loaded /\ got'[c][n].draw = 0
                   /\ got'[c][n].record = 0 /\ n = 1
        <4>1. n = 1 /\ got'[c][n] = greeting /\ got'[c] # <<>>  BY <3>1, <2>2
        <4>2. onConnect # None  BY <4>1, <1>1
        <4>3. onConnect \in 1..loaded  BY <4>2, <2>3, <1>3
        <4> QED  BY <4>1, <4>3, <2>1
      <3>2. loaded' = loaded  BY <1>1
      <3> QED  BY <3>1, <3>2 DEF PastOK
    <2>6. c \notin midSwap' => ~SwapUnderWay  BY <1>1
    <2>7. ~SwapUnderWay => /\ sched.source = loaded
                           /\ \A a \in Actors : hand[a].file \in {None, loaded}
      BY <1>3 DEF SwapUnderWay, SourceInv
    <2>8. Announced(c)'
      <3>1. c \notin midSwap' => sched'.source = loaded  BY <2>6, <2>7, <1>1
      <3> QED  BY <3>1, <2>4, <1>1 DEF Announced
    <2>9. ASSUME NEW a \in Actors, Awaits(a, c)' PROVE Proper(c, hand[a], sched.source)'
      <3>1. Awaits(a, c)  BY <2>9, <1>1 DEF Awaits
      <3>2. PICK m : m = hand[a]  OBVIOUS
      <3>3. m.file \in 1..loaded /\ m.file =< sched.source /\ m.draw # 0
        BY <3>1, <3>2, <1>3 DEF ClientOK, Proper
      <3>4. \A n \in DOMAIN got'[c] : ~(got'[c][n].draw # 0)  BY <2>1, <2>2
      <3>5. c \notin midSwap' /\ m.file \in headed => Has(got'[c], m.file)
        BY <2>4, <2>6, <2>7, <3>2, <3>3 DEF None
      <3> QED  BY <3>2, <3>3, <3>4, <3>5, <1>1 DEF Proper
    <2>10. ClientOK(c)'  BY <2>5, <2>8, <2>9 DEF ClientOK
    <2> QED  BY <2>10, <1>5
  <1> QED  BY <1>4, <1>5

\* The other steps send nobody anything.
LEMMA OtherHeaders ==
    ASSUME HeaderInv, UNCHANGED <<at, hand, rest, got, midSwap>>, ready' \subseteq ready,
           sched'.source = sched.source, SameFiles
    PROVE  \A c \in Clients : ClientOK(c)'
  <1> TAKE c \in Clients
  <1>1. sched.source \in 1..loaded /\ ClientOK(c)
    BY FilesAreNumbers DEF HeaderInv, SourceInv
  <1>2. SameHistory(c)
    <2>1. midSwap' = midSwap /\ got' = got  OBVIOUS
    <2> QED  BY <2>1 DEF SameHistory
  <1> QED  BY <1>1, <1>2, StillOK

LEMMA InitHeaders == Init => HeaderInv
  <1> SUFFICES ASSUME Init PROVE HeaderInv  OBVIOUS
  <1>1. SourceInv  BY InitSource
  <1>2. /\ got = [c \in Clients |-> <<>>] /\ ready = {}
        /\ \A a \in Actors : at[a] = "idle"
    BY DEF Init
  <1>3. ASSUME NEW c \in Clients PROVE ClientOK(c)
    <2>1. DOMAIN got[c] = {}
      <3>1. got[c] = <<>>  BY <1>2
      <3> QED  BY <3>1
    <2>2. PastOK(c) /\ Announced(c)  BY <1>2, <2>1 DEF PastOK, Announced
    <2>3. \A a \in Actors : ~Awaits(a, c)  BY <1>2 DEF Awaits
    <2> QED  BY <2>2, <2>3 DEF ClientOK
  <1> QED  BY <1>1, <1>3 DEF HeaderInv

LEMMA NextHeaders ==
    ASSUME ~MayOverlap
    PROVE  StreamingInv /\ HeaderInv /\ [Next]_vars => HeaderInv'
  <1> SUFFICES ASSUME StreamingInv, HeaderInv, [Next]_vars PROVE HeaderInv'
    OBVIOUS
  <1>1. SourceInv'  BY NextKeepsSource DEF HeaderInv
  <1>2. SUFFICES \A c \in Clients : ClientOK(c)'  BY <1>1 DEF HeaderInv
  <1>3. CASE RunRound  BY <1>3, AdvanceHeaders DEF RunRound, Actors
  <1>4. ASSUME NEW a \in Actors, StepOnce(a) PROVE \A c \in Clients : ClientOK(c)'
    BY <1>4, AdvanceHeaders DEF StepOnce
  <1>5. ASSUME NEW a \in Actors, Resume(a) \/ Continue(a)
        PROVE  \A c \in Clients : ClientOK(c)'
    BY <1>5, BroadcastHeaders
  <1>6. ASSUME NEW c \in Clients, Connect(c) PROVE \A d \in Clients : ClientOK(d)'
    BY <1>6, ConnectHeaders
  <1>7. loaded \in Nat /\ headed \subseteq 1..loaded
    BY FilesAreNumbers DEF HeaderInv, SourceInv
  <1>8. ASSUME UNCHANGED <<loaded, headed>> PROVE SameFiles
    <2>1. loaded' = loaded /\ headed' = headed  BY <1>8
    <2> QED  BY <2>1, <1>7 DEF SameFiles
  <1>9. ASSUME NEW c \in Clients, Lose(c) PROVE \A d \in Clients : ClientOK(d)'
    BY <1>9, <1>8, OtherHeaders DEF Lose, schedVars, history
  <1>10. ASSUME NEW header \in BOOLEAN, SwapFile(header)
         PROVE  \A d \in Clients : ClientOK(d)'
    <2>1. /\ loaded' = loaded + 1 /\ UNCHANGED <<sched, sendVars, midSwap>>
          /\ headed' = headed \/ headed' = headed \cup {loaded'}
      BY <1>10 DEF SwapFile
    <2>2. SameFiles  BY <2>1, <1>7 DEF SameFiles
    <2> QED  BY <2>1, <2>2, OtherHeaders DEF sendVars
  <1>11. ASSUME NEW k \in Controls, SetLineControls(k)
         PROVE  \A d \in Clients : ClientOK(d)'
    <2>1. sched'.source = sched.source  BY <1>11 DEF SetLineControls, Rebuilt
    <2> QED  BY <2>1, <1>8, <1>11, OtherHeaders DEF SetLineControls, sendVars, history
  <1>12. ASSUME NEW line, JumpTo(line) PROVE \A d \in Clients : ClientOK(d)'
    <2>1. sched'.source = sched.source
      <3>1. sched' = [sched EXCEPT !.cursor = line - 1]  BY <1>12 DEF JumpTo, Jumped
      <3>2. PICK s, f, w, cursor, no :
              /\ s = sched /\ f = sched.source /\ w = Window(sched.source, controls)
              /\ cursor = sched.cursor /\ no = FALSE
        OBVIOUS
      <3>3. s = [source |-> f, window |-> w, cursor |-> cursor, header |-> no]
        BY <3>2 DEF HeaderInv, SourceInv, Positioned
      <3>4. [s EXCEPT !.cursor = line - 1].source = f  BY <3>3
      <3> QED  BY <3>1, <3>2, <3>4
    <2> QED  BY <2>1, <1>8, <1>12, OtherHeaders DEF JumpTo, sendVars, history
  <1>13. CASE TogglePause
    BY <1>13, <1>8, OtherHeaders DEF TogglePause, sendVars, history
  <1>14. CASE UNCHANGED vars
    BY <1>14, <1>8, OtherHeaders DEF vars, schedVars, sendVars, history
  <1> QED  BY <1>3, <1>4, <1>5, <1>6, <1>9, <1>10, <1>11, <1>12, <1>13, <1>14 DEF Next

\* At most one element, at most one.
LEMMA AtMostOne ==
    ASSUME NEW S, \A x, y \in S : x = y
    PROVE  Cardinality(S) =< 1
  <1>1. CASE S = {}  BY <1>1, FS_EmptySet
  <1>2. CASE S # {}
    <2>1. PICK x : S = {x}  BY <1>2
    <2> QED  BY <2>1, FS_Singleton
  <1> QED  BY <1>1, <1>2

LEMMA HeadersFollow == StreamingInv /\ HeaderInv => HeaderOnceFirst
  <1> SUFFICES ASSUME StreamingInv, HeaderInv,
                      NEW c \in Clients \ midSwap, NEW n \in DOMAIN got[c]
               PROVE  LET m == got[c][n]
                          headers == {k \in 1..n : got[c][k].file = m.file /\ got[c][k].record = 0}
                      IN /\ m.record # 0 /\ m.file \in headed => headers # {}
                         /\ Cardinality({k \in headers : got[c][k].draw # 0}) =< 1
    BY DEF HeaderOnceFirst
  <1> DEFINE m == got[c][n]
             headers == {k \in 1..n : got[c][k].file = m.file /\ got[c][k].record = 0}
             drawnOnes == {k \in headers : got[c][k].draw # 0}
  <1>1. PastOK(c)  BY DEF HeaderInv, ClientOK
  <1>2. DOMAIN got[c] = 1..Len(got[c]) /\ Len(got[c]) \in Nat
    <2>1. IsSeq(got[c])  BY DEF StreamingInv, SeqsOK
    <2> QED  BY <2>1, AppendKeeps
  <1>3. m.record # 0 /\ m.file \in headed => headers # {}
    <2> SUFFICES ASSUME m.record # 0, m.file \in headed PROVE headers # {}  OBVIOUS
    <2>1. PICK k \in DOMAIN got[c] : k =< n /\ IsHeader(got[c][k], m.file)
      BY <1>1 DEF PastOK
    <2>2. k \in 1..n  BY <2>1, <1>2
    <2> QED  BY <2>1, <2>2 DEF IsHeader
  <1>4. \A x, y \in drawnOnes : x = y
    <2> SUFFICES ASSUME NEW x \in drawnOnes, NEW y \in drawnOnes PROVE x = y  OBVIOUS
    <2>1. x \in DOMAIN got[c] /\ y \in DOMAIN got[c]  BY <1>2
    <2>2. IsHeader(got[c][x], got[c][y].file) /\ got[c][y].record = 0
      BY DEF IsHeader
    <2> QED  BY <2>1, <2>2, <1>1 DEF PastOK
  <1> HIDE DEF drawnOnes
  <1>5. Cardinality(drawnOnes) =< 1  BY <1>4, AtMostOne
  <1> QED  BY <1>3, <1>5 DEF drawnOnes

\* FR-08 and FR-20f for any number of clients, files and swaps: as long as no message
\* is drawn with another in hand, records do not come before the header of their file,
\* and a swap is announced once.
THEOREM HeaderPrecedes ==
    ASSUME ~MayOverlap
    PROVE  Spec => []HeaderOnceFirst
  <1>1. Init => StreamingInv /\ HeaderInv  BY InitStreaming, InitHeaders
  <1>2. StreamingInv /\ HeaderInv /\ [Next]_vars => StreamingInv' /\ HeaderInv'
    BY NextStreams, NextHeaders
  <1>3. StreamingInv /\ HeaderInv => HeaderOnceFirst  BY HeadersFollow
  <1> QED  BY <1>1, <1>2, <1>3, PTL DEF Spec

=============================================================================
