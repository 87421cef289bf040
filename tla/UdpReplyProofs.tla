--------------------------- MODULE UdpReplyProofs ---------------------------
(***************************************************************************)
(* For every time to live, hello interval, delay of a wake-up, time of a   *)
(* hello on its way and number of hellos lost in a row that                *)
(* IntervalAssumption admits, and whatever the cache, its cap and the      *)
(* other senders do: a receiver that has been heard does not expire while  *)
(* it and the server stay up.                                              *)
(***************************************************************************)
EXTENDS UdpReply, SequenceTheorems, WellFoundedInduction, TLAPS

\* A hello goes out at most this long after the one before.
Period == Hello + Late

\* How long after the last hello that arrived the next one is to be sent, when
\* n were lost.
Slot(n) == (n + 1) * Period

\* The age of the receiver is what has passed of the periods used up, each counted
\* from the hello that ends it, and of the period going on.  A hello under way has
\* not been so for longer than Transit.
HelloInv ==
    /\ age \in [Addresses -> Nat] /\ helloIn \in (-Late)..Hello
    /\ lost \in 0..MaxLost /\ hello \in BOOLEAN /\ met \in BOOLEAN
    /\ app = "up" /\ hello => Hello - helloIn =< Transit
    /\ met => /\ app = "up"
              /\ age[App] + helloIn + Late =< Slot(lost) + (IF hello THEN Period ELSE 0)

-----------------------------------------------------------------------------
\* IntervalAssumption in the form the steps need.
LEMMA ConstantTypes ==
    /\ Ttl \in Nat /\ Hello \in Nat /\ Hello > 0 /\ MaxLost \in Nat
    /\ Late \in Nat /\ Transit \in Nat /\ Period \in Nat /\ Period = Hello + Late
  BY IntervalAssumption DEF Period

\* Each slot is a Period longer than the one before, and the first is one Period.
LEMMA SlotGrows ==
    /\ Slot(0) = Period
    /\ \A n \in Nat : Slot(n) \in Nat /\ Slot(n + 1) = Slot(n) + Period
  <1>1. Period \in Nat  BY ConstantTypes
  <1>2. \A n \in Nat : (n + 1) * Period \in Nat /\ (n + 1 + 1) * Period = (n + 1) * Period + Period
    BY <1>1
  <1> QED  BY <1>1, <1>2 DEF Slot

\* No number of losses up to MaxLost, and no way of the hello after them, leads past
\* the time to live.
LEMMA SlotsFit == \A n \in 0..MaxLost : Slot(n) + Transit =< Ttl
  <1> SUFFICES ASSUME NEW n \in 0..MaxLost PROVE (n + 1) * Period + Transit =< Ttl
    BY DEF Slot
  <1>1. PICK d \in Nat : MaxLost = n + d
    <2>1. MaxLost - n \in Nat /\ MaxLost = n + (MaxLost - n)  BY ConstantTypes
    <2> QED  BY <2>1
  <1>2. (n + d + 1) * Period = (n + 1) * Period + d * Period  BY ConstantTypes
  <1>3. d * Period \in Nat /\ (n + 1) * Period \in Nat  BY ConstantTypes
  <1>4. (n + d + 1) * Period + Transit =< Ttl  BY <1>1, IntervalAssumption DEF Period
  <1> QED  BY <1>2, <1>3, <1>4, ConstantTypes

\* Nothing has been heard yet.
LEMMA InitHello == Init => HelloInv
  <1> SUFFICES ASSUME Init PROVE HelloInv  OBVIOUS
  <1>1. age \in [Addresses -> Nat]  BY ConstantTypes DEF Init
  <1>2. met = FALSE /\ hello = FALSE  BY DEF Init
  <1>3. helloIn \in (-Late)..Hello /\ lost \in 0..MaxLost  BY ConstantTypes DEF Init
  <1> QED  BY <1>1, <1>2, <1>3 DEF HelloInv

\* Every step keeps the age of the receiver within its slots.
LEMMA NextHello == HelloInv /\ [Next]_vars => HelloInv'
  <1> SUFFICES ASSUME HelloInv, [Next]_vars PROVE HelloInv'  OBVIOUS
  <1> USE DEF HelloInv
  <1>1. CASE ServerStart \/ ServerStop \/ Cleanup \/ Send
    BY <1>1 DEF ServerStart, ServerStop, Cleanup, Send, appVars
  <1>2. CASE ServerStopped
    <2>1. age' \in [Addresses -> Nat]  BY <1>2, ConstantTypes DEF ServerStopped
    <2>2. met' = FALSE  BY <1>2 DEF ServerStopped
    <2>3. UNCHANGED <<app, helloIn, hello, lost>>  BY <1>2 DEF ServerStopped
    <2> QED  BY <2>1, <2>2, <2>3
  <1>3. ASSUME NEW a \in Senders, Heard(a) PROVE HelloInv'
    <2>1. age' = [age EXCEPT ![a] = 0] /\ UNCHANGED appVars
      BY <1>3 DEF Heard, RegisterSender
    <2>2. App \in Addresses  BY DEF Addresses
    <2>3. age'[App] \in Nat /\ age'[App] =< age[App]  BY <2>1, <2>2
    <2>4. age' \in [Addresses -> Nat]  BY <2>1
    <2>5. Slot(lost) \in Nat /\ age[App] \in Nat  BY <2>2, SlotGrows
    <2>6. UNCHANGED <<app, helloIn, hello, lost, met>>  BY <2>1 DEF appVars
    <2>7. met => age'[App] + helloIn + Late =< Slot(lost) + (IF hello THEN Period ELSE 0)
      BY <2>3, <2>5, ConstantTypes
    <2> QED  BY <2>4, <2>6, <2>7
  <1>4. CASE AppStart \/ AppStop \/ AppStopped
    <2>1. met' = FALSE
      <3>1. CASE AppStop  BY <3>1 DEF AppStop
      <3>2. CASE AppStart \/ AppStopped
        <4>1. met' = met /\ app # "up"  BY <3>2 DEF AppStart, AppStopped
        <4> QED  BY <4>1
      <3> QED  BY <1>4, <3>1, <3>2
    <2>2. UNCHANGED age  BY <1>4 DEF AppStart, AppStop, AppStopped, serverVars
    <2>3. helloIn' \in (-Late)..Hello /\ lost' \in 0..MaxLost
      BY <1>4, ConstantTypes DEF AppStart, AppStop, AppStopped
    <2>4. hello' \in BOOLEAN  BY <1>4 DEF AppStart, AppStop, AppStopped
    <2>5. app' = "up" => helloIn' = Hello  BY <1>4 DEF AppStart, AppStop, AppStopped
    <2>6. app' = "up" /\ hello' => Hello - helloIn' =< Transit
      BY <2>5, ConstantTypes
    <2> QED  BY <2>1, <2>2, <2>3, <2>4, <2>6
  <1>5. CASE HelloWakes
    <2>1. /\ app = "up" /\ helloIn =< 0 /\ ~hello /\ hello' /\ helloIn' = Hello
          /\ UNCHANGED <<age, app, lost, met>>
      BY <1>5 DEF HelloWakes, serverVars
    <2>2. age[App] \in Nat /\ Slot(lost) \in Nat  BY SlotGrows DEF Addresses
    <2>3. hello' = TRUE  BY <1>5 DEF HelloWakes
    <2>4. met => age[App] + Hello + Late =< Slot(lost) + Period
      <3> SUFFICES ASSUME met PROVE age[App] + Hello + Late =< Slot(lost) + Period
        OBVIOUS
      <3>1. age[App] + helloIn + Late =< Slot(lost)  BY <2>1, <2>2
      <3> QED  BY <2>1, <2>2, <3>1, ConstantTypes
    <2> QED  BY <2>1, <2>3, <2>4, ConstantTypes
  <1>6. CASE HelloArrives
    <2>1. App \in Addresses  BY DEF Addresses
    <2>2. age' \in [Addresses -> Nat] /\ age'[App] = 0
      BY <1>6, <2>1 DEF HelloArrives, RegisterSender
    <2>3. hello' = FALSE /\ lost' = 0 /\ UNCHANGED <<app, helloIn>>
      BY <1>6 DEF HelloArrives
    <2>4. met' \in BOOLEAN /\ (met' => app = "up")  BY <1>6 DEF HelloArrives
    <2>5. age'[App] + helloIn' + Late =< Slot(lost')
      BY <2>2, <2>3, SlotGrows, ConstantTypes
    <2>6. lost' \in 0..MaxLost  BY <2>3, ConstantTypes
    <2>7. Slot(lost') + 0 = Slot(lost')  BY <2>3, SlotGrows, ConstantTypes
    <2> QED  BY <2>2, <2>3, <2>4, <2>5, <2>6, <2>7
  <1>7. CASE HelloLost
    <2>1. UNCHANGED <<age, app, helloIn, met>> /\ hello /\ hello' = FALSE
      BY <1>7 DEF HelloLost, serverVars
    <2>2. CASE ~met /\ UNCHANGED lost  BY <2>1, <2>2
    <2>3. CASE met /\ lost < MaxLost /\ lost' = lost + 1
      <3>1. Slot(lost') = Slot(lost) + Period /\ Slot(lost) \in Nat
        BY <2>3, SlotGrows
      <3>2. age[App] \in Nat  BY DEF Addresses
      <3>3. age'[App] + helloIn' + Late =< Slot(lost') + 0
        BY <2>1, <2>3, <3>1, <3>2, ConstantTypes
      <3>4. lost' \in 0..MaxLost  BY <2>3, ConstantTypes
      <3> QED  BY <2>1, <2>3, <3>3, <3>4
    <2> QED  BY <1>7, <2>2, <2>3 DEF HelloLost
  <1>8. CASE Tick
    <2>1. App \in Addresses  BY DEF Addresses
    <2>2. age' \in [Addresses -> Nat] /\ age'[App] =< age[App] + 1
      BY <1>8, <2>1, ConstantTypes DEF Tick
    <2>3. UNCHANGED <<app, hello, lost, met>>  BY <1>8 DEF Tick
    <2>4. CASE app = "up"
      <3>1. helloIn > -Late /\ (hello => Hello - helloIn < Transit) /\ helloIn' = helloIn - 1
        BY <1>8, <2>4 DEF Tick
      <3>2. helloIn' \in (-Late)..Hello /\ (hello => Hello - helloIn' =< Transit)
        BY <3>1, ConstantTypes
      <3>3. age[App] \in Nat /\ age'[App] \in Nat /\ Slot(lost) \in Nat
        BY <2>1, <2>2, SlotGrows
      <3>4. age'[App] + helloIn' + Late =< age[App] + helloIn + Late
        BY <2>2, <3>1, <3>3, ConstantTypes
      <3> DEFINE s == Slot(lost) + (IF hello THEN Period ELSE 0)
      <3>5. s \in Nat  BY <3>3, ConstantTypes
      <3>6. met => age[App] + helloIn + Late =< s  OBVIOUS
      <3> HIDE DEF s
      <3>7. met => age'[App] + helloIn' + Late =< s
        BY <3>1, <3>3, <3>4, <3>5, <3>6, ConstantTypes
      <3> QED  BY <2>2, <2>3, <2>4, <3>2, <3>7 DEF s
    <2>5. CASE app # "up"
      <3>1. helloIn' = helloIn  BY <1>8, <2>5 DEF Tick
      <3> QED  BY <2>2, <2>3, <2>5, <3>1
    <2> QED  BY <2>4, <2>5
  <1>9. CASE UNCHANGED vars  BY <1>9 DEF vars
  <1> QED
    BY <1>1, <1>2, <1>3, <1>4, <1>5, <1>6, <1>7, <1>8, <1>9 DEF Next

\* A receiver with a hello loop is never past its time to live, however late its sleeps
\* end and however long its hellos travel, within the bounds of IntervalAssumption.
THEOREM HelloOutlivesLosses == Spec => []HelloKeepsFresh
  <1>1. HelloInv => HelloKeepsFresh
    <2> SUFFICES ASSUME HelloInv, met PROVE age[App] =< Ttl  BY DEF HelloKeepsFresh
    <2>1. /\ age[App] \in Nat /\ Slot(lost) \in Nat /\ helloIn \in Int
          /\ helloIn >= -Late /\ app = "up" /\ hello \in BOOLEAN
          /\ age[App] + helloIn + Late =< Slot(lost) + (IF hello THEN Period ELSE 0)
          /\ hello => Hello - helloIn =< Transit
      BY SlotGrows, ConstantTypes DEF HelloInv, Addresses
    <2>2. age[App] =< Slot(lost) + Transit
      <3>1. CASE hello
        <4>1. age[App] + helloIn + Late =< Slot(lost) + Period  BY <2>1, <3>1
        <4>2. Hello - helloIn =< Transit  BY <2>1, <3>1
        <4> QED  BY <2>1, <4>1, <4>2, ConstantTypes
      <3>2. CASE ~hello
        <4>1. age[App] + helloIn + Late =< Slot(lost)  BY <2>1, <3>2
        <4> QED  BY <2>1, <4>1, ConstantTypes
      <3> QED  BY <3>1, <3>2
    <2>3. Slot(lost) + Transit =< Ttl  BY SlotsFit DEF HelloInv
    <2> QED  BY <2>1, <2>2, <2>3, ConstantTypes
  <1> QED  BY <1>1, InitHello, NextHello, PTL DEF Spec

-----------------------------------------------------------------------------
(* What Only leaves of a sequence.                                          *)

\* A set of numbers that is not empty has a least one.
LEMMA LeastNat ==
    ASSUME NEW T \in SUBSET Nat, T # {}
    PROVE  \E n \in T : \A m \in T : n =< m
  <1>1. PICK n \in T : \A m \in T : ~ (<<m, n>> \in OpToRel(<, Nat))
    BY NatLessThanWellFounded, WFMin, Zenon
  <1>2. \A m \in T : ~ (m < n)
    BY <1>1 DEF OpToRel
  <1> QED  BY <1>2

\* What is true of 0, and of each next number up to n, is true of n.
LEMMA UpTo ==
    ASSUME NEW n \in Nat, NEW T, 0 \in T, \A k \in 1..n : k - 1 \in T => k \in T
    PROVE  n \in T
  <1> DEFINE Bad == {k \in 0..n : k \notin T}
  <1>1. SUFFICES ASSUME Bad # {} PROVE FALSE  OBVIOUS
  <1>2. PICK k \in Bad : \A m \in Bad : k =< m
    <2>1. Bad \in SUBSET Nat  OBVIOUS
    <2> HIDE DEF Bad
    <2> QED  BY <1>1, <2>1, LeastNat
  <1>3. k \in 1..n  BY <1>2
  <1>4. k - 1 \in 0..n /\ k - 1 \notin Bad
    <2> HIDE DEF Bad
    <2> QED  BY <1>2, <1>3
  <1> QED  BY <1>2, <1>3, <1>4

\* f takes the members of s that are in K one after the other.
Takes(f, s, K) ==
    /\ f[0] = << >>
    /\ \A n \in 1..Len(s) :
          f[n] = IF s[n] \in K THEN Append(f[n - 1], s[n]) ELSE f[n - 1]

LEMMA OnlyTakes ==
    ASSUME NEW S, NEW s \in Seq(S), NEW K
    PROVE  \E f : Takes(f, s, K) /\ Only(s, K) = f[Len(s)]
  <1> DEFINE Turn(f, n) == IF n = 0 THEN << >>
                           ELSE IF s[n] \in K THEN Append(f[n - 1], s[n]) ELSE f[n - 1]
             T == {k \in Nat : \E f : f = [n \in 0..k |-> Turn(f, n)]}
             only[n \in 0..Len(s)] ==
                IF n = 0 THEN << >>
                ELSE IF s[n] \in K THEN Append(only[n - 1], s[n]) ELSE only[n - 1]
  <1>1. Len(s) \in Nat  BY LenProperties
  <1>2. 0 \in T
    <2> DEFINE f == [n \in 0..0 |-> << >>]
    <2>1. f = [n \in 0..0 |-> Turn(f, n)]  OBVIOUS
    <2> QED  BY <2>1
  <1>3. ASSUME NEW k \in 1..Len(s), k - 1 \in T PROVE k \in T
    <2>1. PICK h : h = [n \in 0..(k - 1) |-> Turn(h, n)]  BY <1>3
    <2> DEFINE g == [n \in 0..k |-> IF n < k THEN h[n] ELSE Turn(h, k)]
    <2>2. k \in Nat /\ k > 0  BY <1>1
    <2>3. ASSUME NEW n \in 0..k PROVE g[n] = Turn(g, n)
      <3>1. CASE n < k
        <4>1. n \in 0..(k - 1)  BY <2>2, <3>1
        <4>2. g[n] = Turn(h, n)  BY <2>1, <3>1, <4>1
        <4>3. n # 0 => n - 1 \in 0..k /\ g[n - 1] = h[n - 1]  BY <2>2, <3>1
        <4> QED  BY <4>2, <4>3
      <3>2. CASE n = k
        <4>1. k - 1 \in 0..k /\ g[k - 1] = h[k - 1]  BY <2>2
        <4> QED  BY <2>2, <3>2, <4>1
      <3> QED  BY <2>2, <3>1, <3>2
    <2>4. g = [n \in 0..k |-> Turn(g, n)]
      <3>1. g = [n \in 0..k |-> g[n]]  OBVIOUS
      <3> HIDE DEF g
      <3> QED  BY <2>3, <3>1, Zenon
    <2> HIDE DEF g
    <2> QED  BY <2>2, <2>4
  <1>4. PICK g : g = [n \in 0..Len(s) |-> Turn(g, n)]
    <2> HIDE DEF T
    <2>1. Len(s) \in T  BY <1>1, <1>2, <1>3, UpTo
    <2> QED  BY <2>1 DEF T
  <1>5. only = [n \in 0..Len(s) |->
                   IF n = 0 THEN << >>
                   ELSE IF s[n] \in K THEN Append(only[n - 1], s[n]) ELSE only[n - 1]]
    BY <1>4, Zenon
  <1>6. Only(s, K) = only[Len(s)]  BY DEF Only
  <1>7. Takes(only, s, K)
    <2> HIDE DEF only
    <2>1. only[0] = << >>
      <3>1. 0 \in 0..Len(s)  BY <1>1
      <3> QED  BY <1>5, <3>1
    <2>2. ASSUME NEW n \in 1..Len(s)
          PROVE  only[n] = IF s[n] \in K THEN Append(only[n - 1], s[n]) ELSE only[n - 1]
      <3>1. n \in 0..Len(s) /\ n # 0  BY <1>1
      <3> QED  BY <1>5, <3>1
    <2> QED  BY <2>1, <2>2 DEF Takes
  <1> HIDE DEF only
  <1> QED  BY <1>6, <1>7

\* What is not in K are the d members from position p on ...
Spares(s, K, p, d) ==
    /\ p \in Nat \ {0} /\ d \in Nat /\ p + d =< Len(s) + 1
    /\ \A n \in 1..Len(s) : s[n] \in K <=> n < p \/ n >= p + d

\* ... and Only cuts them out.
LEMMA OnlyCuts ==
    ASSUME NEW S, NEW s \in Seq(S), NEW K, NEW p, NEW d, Spares(s, K, p, d)
    PROVE  /\ Only(s, K) \in Seq(S) /\ Len(Only(s, K)) = Len(s) - d
           /\ \A n \in 1..(Len(s) - d) : Only(s, K)[n] = s[IF n < p THEN n ELSE n + d]
  <1>1. /\ Len(s) \in Nat /\ \A n \in 1..Len(s) : s[n] \in S
        /\ p \in Nat \ {0} /\ d \in Nat /\ p + d =< Len(s) + 1
        /\ \A n \in 1..Len(s) : s[n] \in K <=> n < p \/ n >= p + d
    BY LenProperties, ElementOfSeq DEF Spares
  <1>2. PICK f : Takes(f, s, K) /\ Only(s, K) = f[Len(s)]  BY OnlyTakes
  <1> DEFINE Left(k) == IF k < p THEN k ELSE IF k < p + d THEN p - 1 ELSE k - d
             Good(k) == /\ f[k] \in Seq(S) /\ Len(f[k]) = Left(k)
                        /\ \A n \in 1..Left(k) : f[k][n] = s[IF n < p THEN n ELSE n + d]
             T == {k \in 0..Len(s) : Good(k)}
  <1>3. 0 \in T
    <2>1. f[0] = << >>  BY <1>2 DEF Takes
    <2>2. << >> \in Seq(S) /\ Len(<< >>) = 0  BY EmptySeq
    <2>3. Left(0) = 0  BY <1>1
    <2>4. f[0] \in Seq(S) /\ Len(f[0]) = Left(0)  BY <2>1, <2>2, <2>3
    <2>5. \A n \in 1..Left(0) : f[0][n] = s[IF n < p THEN n ELSE n + d]  BY <2>3
    <2> QED  BY <1>1, <2>4, <2>5
  <1>4. ASSUME NEW k \in 1..Len(s), k - 1 \in T PROVE k \in T
    <2> DEFINE g == f[k - 1]
    <2>1. g \in Seq(S) /\ Len(g) = Left(k - 1)
          /\ \A n \in 1..Left(k - 1) : g[n] = s[IF n < p THEN n ELSE n + d]
      BY <1>4
    <2>2. f[k] = IF s[k] \in K THEN Append(g, s[k]) ELSE g  BY <1>2 DEF Takes
    <2> HIDE DEF g
    <2>3. CASE k >= p /\ k < p + d
      <3>1. s[k] \notin K  BY <1>1, <2>3
      <3>2. f[k] = g  BY <2>2, <3>1
      <3>3. Left(k) = Left(k - 1)  BY <1>1, <2>3
      <3> QED  BY <1>1, <2>1, <3>2, <3>3
    <2>4. CASE k < p \/ k >= p + d
      <3>1. s[k] \in K /\ s[k] \in S  BY <1>1, <2>4
      <3>2. f[k] = Append(g, s[k])  BY <2>2, <3>1
      <3>3. Left(k) = Left(k - 1) + 1 /\ Left(k - 1) \in Nat
            /\ k = IF Left(k) < p THEN Left(k) ELSE Left(k) + d
        BY <1>1, <2>4
      <3>4. /\ f[k] \in Seq(S) /\ Len(f[k]) = Len(g) + 1
            /\ \A n \in 1..Len(g) : f[k][n] = g[n]
            /\ f[k][Len(g) + 1] = s[k]
        <4>1. g \in Seq(S) /\ s[k] \in S  BY <2>1, <3>1
        <4> HIDE DEF T
        <4>2. /\ Append(g, s[k]) \in Seq(S) /\ Len(Append(g, s[k])) = Len(g) + 1
              /\ \A n \in 1..Len(g) : Append(g, s[k])[n] = g[n]
              /\ Append(g, s[k])[Len(g) + 1] = s[k]
          BY <4>1, AppendProperties
        <4> QED  BY <3>2, <4>2
      <3> DEFINE l == Left(k - 1)
      <3>5. l \in Nat /\ Left(k) = l + 1 /\ k = (IF l + 1 < p THEN l + 1 ELSE l + 1 + d)
            /\ Len(g) = l
        BY <2>1, <3>3
      <3>6. \A n \in 1..l : g[n] = s[IF n < p THEN n ELSE n + d]  BY <2>1
      <3> HIDE DEF l
      <3>7. ASSUME NEW n \in 1..(l + 1) PROVE f[k][n] = s[IF n < p THEN n ELSE n + d]
        <4>1. CASE n \in 1..l  BY <3>4, <3>5, <3>6, <4>1
        <4>2. CASE n = l + 1  BY <3>4, <3>5, <4>2
        <4> QED  BY <3>5, <4>1, <4>2
      <3>8. f[k] \in Seq(S) /\ Len(f[k]) = Left(k)  BY <3>4, <3>5
      <3>9. \A n \in 1..Left(k) : f[k][n] = s[IF n < p THEN n ELSE n + d]
        <4> HIDE DEF Left
        <4> QED  BY <3>5, <3>7
      <3>10. k \in 0..Len(s)  BY <1>1
      <3> QED  BY <3>8, <3>9, <3>10
    <2> QED  BY <1>1, <2>3, <2>4
  <1>5. Len(s) \in T
    <2> HIDE DEF T
    <2> QED  BY <1>1, <1>3, <1>4, UpTo
  <1>6. Left(Len(s)) = Len(s) - d  BY <1>1
  <1> QED  BY <1>2, <1>5, <1>6

-----------------------------------------------------------------------------
(* The cache and the order in which addresses were heard.                   *)

\* c is the end of r, of at most MaxEntries; what r has beyond it is too long ago or
\* past its time to live.  r is in the order of the ages, each address once.
CacheEnds(c, r, ages) ==
    /\ c \in Seq(Addresses) /\ r \in Seq(Addresses) /\ ages \in [Addresses -> 0..(Ttl + 1)]
    /\ Len(c) =< Len(r) /\ Len(c) =< MaxEntries
    /\ \A n \in 1..Len(c) : c[n] = r[Len(r) - Len(c) + n]
    /\ \A n \in 1..(Len(r) - Len(c)) : n =< Len(r) - MaxEntries \/ ages[r[n]] > Ttl
    /\ \A m, n \in 1..Len(r) : m < n => r[m] # r[n] /\ ages[r[m]] >= ages[r[n]]

CacheInv == CacheEnds(cache, recency, age)

\* Members p to p + d - 1 of s, at most one, are a.
Cut(s, a, p, d) ==
    /\ p \in Nat \ {0} /\ d \in {0, 1} /\ p + d =< Len(s) + 1
    /\ \A n \in 1..Len(s) : s[n] = a <=> n >= p /\ n < p + d

LEMMA ToEndCuts ==
    ASSUME NEW s \in Seq(Addresses), NEW a \in Addresses, NEW p, NEW d, Cut(s, a, p, d)
    PROVE  /\ ToEnd(s, a) \in Seq(Addresses) /\ Len(ToEnd(s, a)) = Len(s) - d + 1
           /\ \A n \in 1..(Len(s) - d) : ToEnd(s, a)[n] = s[IF n < p THEN n ELSE n + d]
           /\ ToEnd(s, a)[Len(s) - d + 1] = a
  <1> DEFINE K == Addresses \ {a}
             o == Only(s, K)
  <1>1. Len(s) \in Nat /\ \A n \in 1..Len(s) : s[n] \in Addresses
    BY LenProperties, ElementOfSeq
  <1>2. p \in Nat \ {0} /\ d \in Nat /\ p + d =< Len(s) + 1  BY DEF Cut
  <1>3. \A n \in 1..Len(s) : s[n] \in K <=> n < p \/ n >= p + d
    <2> SUFFICES ASSUME NEW n \in 1..Len(s) PROVE s[n] \in K <=> n < p \/ n >= p + d
      OBVIOUS
    <2>1. s[n] = a <=> n >= p /\ n < p + d  BY DEF Cut
    <2>2. (n >= p /\ n < p + d) <=> ~(n < p \/ n >= p + d)  BY <1>1, <1>2
    <2> QED  BY <1>1, <2>1, <2>2
  <1> HIDE DEF K
  <1>4. /\ o \in Seq(Addresses) /\ Len(o) = Len(s) - d
        /\ \A n \in 1..(Len(s) - d) : o[n] = s[IF n < p THEN n ELSE n + d]
    <2>1. Spares(s, K, p, d)  BY <1>2, <1>3 DEF Spares
    <2> QED  BY <2>1, OnlyCuts
  <1>5. ToEnd(s, a) = Append(o, a)  BY DEF ToEnd, K
  <1> HIDE DEF o
  <1>6. /\ Append(o, a) \in Seq(Addresses) /\ Len(Append(o, a)) = Len(o) + 1
        /\ \A n \in 1..Len(o) : Append(o, a)[n] = o[n]
        /\ Append(o, a)[Len(o) + 1] = a
    BY <1>4, AppendProperties
  <1> QED  BY <1>4, <1>5, <1>6

\* The members of a part of a sequence, by their places.
LEMMA PartOf ==
    ASSUME NEW s, NEW m \in Int, NEW n \in Int, \A i \in m..n : s[i] \in Addresses
    PROVE  /\ SubSeq(s, m, n) \in Seq(Addresses)
           /\ Len(SubSeq(s, m, n)) = IF m =< n THEN n - m + 1 ELSE 0
           /\ \A i \in 1..(n - m + 1) : SubSeq(s, m, n)[i] = s[m + i - 1]
  BY SubSeqProperties

\* Newest leaves out the members in front, if there are too many.
LEMMA NewestCuts ==
    ASSUME NEW s \in Seq(Addresses), NEW g \in Nat,
           g = IF Len(s) > MaxEntries THEN Len(s) - MaxEntries ELSE 0
    PROVE  /\ Newest(s) \in Seq(Addresses) /\ Len(Newest(s)) = Len(s) - g
           /\ \A n \in 1..(Len(s) - g) : Newest(s)[n] = s[g + n]
  <1>1. Len(s) \in Nat /\ MaxEntries \in Nat /\ g =< Len(s)
    BY LenProperties, IntervalAssumption
  <1>2. Newest(s) = SubSeq(s, g + 1, Len(s))
    <2>1. (IF Len(s) > MaxEntries THEN Len(s) - MaxEntries + 1 ELSE 1) = g + 1  BY <1>1
    <2> QED  BY <2>1 DEF Newest
  <1>3. g + 1 \in Int /\ Len(s) \in Int  BY <1>1
  <1>4. \A i \in (g + 1)..Len(s) : s[i] \in Addresses
    <2>1. \A i \in (g + 1)..Len(s) : i \in 1..Len(s)  BY <1>1
    <2> QED  BY <2>1, ElementOfSeq
  <1>5. /\ SubSeq(s, g + 1, Len(s)) \in Seq(Addresses)
        /\ Len(SubSeq(s, g + 1, Len(s))) = Len(s) - g
        /\ \A n \in 1..(Len(s) - g) : SubSeq(s, g + 1, Len(s))[n] = s[g + 1 + n - 1]
    <2> DEFINE m == g + 1
    <2> DEFINE l == Len(s)
    <2> DEFINE t == SubSeq(s, m, l)
    <2>0. m \in Int /\ l \in Int /\ \A i \in m..l : s[i] \in Addresses  BY <1>3, <1>4
    <2> HIDE DEF m, l
    <2>1. /\ t \in Seq(Addresses)
          /\ Len(t) = IF m =< l THEN l - m + 1 ELSE 0
          /\ \A n \in 1..(l - m + 1) : t[n] = s[m + n - 1]
      BY <2>0, PartOf
    <2> HIDE DEF t
    <2> USE DEF m, l
    <2>2. Len(s) - (g + 1) + 1 = Len(s) - g  BY <1>1
    <2>3. Len(t) = Len(s) - g
      <3>1. CASE g + 1 =< Len(s)  BY <2>1, <2>2, <3>1
      <3>2. CASE ~(g + 1 =< Len(s))
        <4>1. Len(s) - g = 0  BY <1>1, <3>2
        <4> QED  BY <2>1, <3>2, <4>1
      <3> QED  BY <3>1, <3>2
    <2> QED  BY <2>1, <2>2, <2>3 DEF t
  <1>6. \A n \in 1..(Len(s) - g) : g + 1 + n - 1 = g + n  BY <1>1
  <1> QED  BY <1>2, <1>5, <1>6

\* What CacheEnds says of lengths and members.
LEMMA CacheFacts ==
    ASSUME NEW c, NEW r, NEW ages, CacheEnds(c, r, ages)
    PROVE  /\ c \in Seq(Addresses) /\ r \in Seq(Addresses)
           /\ Len(c) \in Nat /\ Len(r) \in Nat /\ Ttl \in Nat /\ MaxEntries \in Nat
           /\ \A n \in 1..Len(c) : c[n] \in Addresses
           /\ \A n \in 1..Len(r) : r[n] \in Addresses /\ ages[r[n]] \in Nat
           /\ \A a \in Addresses : ages[a] \in Nat
  <1>1. c \in Seq(Addresses) /\ r \in Seq(Addresses) /\ ages \in [Addresses -> 0..(Ttl + 1)]
    BY DEF CacheEnds
  <1>2. Len(c) \in Nat /\ Len(r) \in Nat  BY <1>1, LenProperties
  <1>3. \A n \in 1..Len(c) : c[n] \in Addresses  BY <1>1, ElementOfSeq
  <1>4. \A n \in 1..Len(r) : r[n] \in Addresses  BY <1>1, ElementOfSeq
  <1> QED  BY <1>1, <1>2, <1>3, <1>4, IntervalAssumption

\* An address that is heard is the newest of both, and evicts from the front.
LEMMA RegisterKeeps ==
    ASSUME NEW c, NEW r, NEW ages, CacheEnds(c, r, ages), NEW a \in Addresses
    PROVE  CacheEnds(Newest(ToEnd(c, a)), ToEnd(r, a), [ages EXCEPT ![a] = 0])
  <1> DEFINE l == Len(r)
             m == Len(c)
             k == l - m
             R == ToEnd(r, a)
             E == ToEnd(c, a)
             C == Newest(E)
             now == [ages EXCEPT ![a] = 0]
  <1>1. /\ c \in Seq(Addresses) /\ r \in Seq(Addresses)
        /\ l \in Nat /\ m \in Nat /\ Ttl \in Nat /\ MaxEntries \in Nat
        /\ \A n \in 1..l : r[n] \in Addresses /\ ages[r[n]] \in Nat
    BY CacheFacts
  <1>2. /\ m =< l /\ m =< MaxEntries /\ k \in Nat
        /\ \A n \in 1..m : c[n] = r[k + n]
        /\ \A n \in 1..k : n =< l - MaxEntries \/ ages[r[n]] > Ttl
        /\ \A i, j \in 1..l : i < j => r[i] # r[j] /\ ages[r[i]] >= ages[r[j]]
    BY <1>1 DEF CacheEnds
  <1>3. now \in [Addresses -> 0..(Ttl + 1)] /\ now[a] = 0
        /\ \A b \in Addresses : b # a => now[b] = ages[b]
    BY <1>1 DEF CacheEnds
  <1>4. PICK p, d : Cut(r, a, p, d)
    <2>1. CASE \E n \in 1..l : r[n] = a
      <3>1. PICK n \in 1..l : r[n] = a  BY <2>1
      <3>2. \A i \in 1..l : r[i] = a <=> i >= n /\ i < n + 1
        <4> SUFFICES ASSUME NEW i \in 1..l PROVE r[i] = a <=> i >= n /\ i < n + 1
          OBVIOUS
        <4>1. i < n \/ i = n \/ n < i  BY <1>1
        <4> QED  BY <1>1, <1>2, <3>1, <4>1
      <3>3. Cut(r, a, n, 1)  BY <1>1, <3>2 DEF Cut
      <3> QED  BY <3>3
    <2>2. CASE \A n \in 1..l : r[n] # a
      <3>1. Cut(r, a, 1, 0)  BY <1>1, <2>2 DEF Cut
      <3> QED  BY <3>1
    <2> QED  BY <2>1, <2>2
  <1>5. /\ p \in Nat \ {0} /\ d \in {0, 1} /\ p + d =< l + 1
        /\ \A n \in 1..l : r[n] = a <=> n >= p /\ n < p + d
    BY <1>4 DEF Cut
  <1>6. /\ R \in Seq(Addresses) /\ Len(R) = l - d + 1
        /\ \A n \in 1..(l - d) : R[n] = r[IF n < p THEN n ELSE n + d]
        /\ R[l - d + 1] = a
    BY <1>1, <1>4, ToEndCuts
  <1> DEFINE e == IF d = 1 /\ p > k THEN 1 ELSE 0
             q == IF d = 1 /\ p > k THEN p - k ELSE 1
  <1>7. Cut(c, a, q, e)
    <2>1. q \in Nat \ {0} /\ e \in {0, 1} /\ q + e =< m + 1  BY <1>1, <1>2, <1>5
    <2>2. ASSUME NEW n \in 1..m PROVE c[n] = a <=> n >= q /\ n < q + e
      <3>1. k + n \in 1..l /\ c[n] = r[k + n]  BY <1>1, <1>2
      <3>2. c[n] = a <=> k + n >= p /\ k + n < p + d  BY <1>5, <3>1
      <3> QED  BY <1>1, <1>2, <1>5, <3>2
    <2> QED  BY <2>1, <2>2 DEF Cut
  <1>8. /\ E \in Seq(Addresses) /\ Len(E) = m - e + 1
        /\ \A n \in 1..(m - e) : E[n] = c[IF n < q THEN n ELSE n + e]
        /\ E[m - e + 1] = a
    <2> HIDE DEF e, q
    <2> QED  BY <1>1, <1>7, ToEndCuts
  <1> HIDE DEF R, E, now
  <1> DEFINE k0 == Len(R) - Len(E)
  <1>9. /\ k = l - m /\ k \in Nat /\ m =< l
         /\ \/ d = 0 /\ e = 0 /\ q = 1
            \/ d = 1 /\ p > k /\ e = 1 /\ q = p - k
            \/ d = 1 /\ ~(p > k) /\ e = 0 /\ q = 1
    BY <1>1, <1>2, <1>5
  <1> HIDE DEF k, e, q
  <1>10. /\ k0 \in Nat /\ k0 =< l - d /\ Len(E) =< MaxEntries + 1
        /\ Len(R) \in Nat /\ Len(E) \in Nat /\ k0 = Len(R) - Len(E)
    <2>1. l - d + 1 \in Nat /\ m - e + 1 \in Nat /\ (l - d + 1) - (m - e + 1) = k - d + e
      BY <1>1, <1>5, <1>9
    <2>2. k - d + e \in Nat /\ k - d + e =< l - d /\ m - e + 1 =< MaxEntries + 1
      BY <1>1, <1>2, <1>5, <1>9, SMTT(30)
    <2> QED  BY <1>6, <1>8, <2>1, <2>2
  <1>11. k0 = k - d + e
    BY <1>1, <1>5, <1>6, <1>8, <1>9, SMTT(30)
  <1> HIDE DEF k0
  <1>12. ASSUME NEW n \in 1..Len(E) PROVE E[n] = R[k0 + n]
    <2>1. CASE n = m - e + 1
      <3>1. k0 + n = l - d + 1
        <4>1. k0 + n = (k - d + e) + (m - e + 1)  BY <1>11, <2>1
        <4>2. e \in {0, 1} /\ d \in {0, 1}  BY <1>9
        <4> QED  BY <1>1, <1>9, <4>1, <4>2
      <3> QED  BY <1>6, <1>8, <2>1, <3>1
    <2>2. CASE n # m - e + 1
      <3> DEFINE i == IF n < q THEN n ELSE n + e
                 j == IF k0 + n < p THEN k0 + n ELSE k0 + n + d
      <3>1. /\ n \in 1..(m - e) /\ k0 + n \in 1..(l - d) /\ i \in 1..m
            /\ k + i = j
        <4>1. n \in Nat /\ n > 0 /\ n =< m - e  BY <1>1, <1>8, <1>9, <2>2
        <4>2. p \in Nat \ {0}  BY <1>5
        <4>3. CASE d = 0 /\ e = 0 /\ q = 1  BY <1>1, <1>9, <1>11, <4>1, <4>2, <4>3
        <4>4. CASE d = 1 /\ p > k /\ e = 1 /\ q = p - k
          BY <1>1, <1>9, <1>11, <4>1, <4>2, <4>4
        <4>5. CASE d = 1 /\ ~(p > k) /\ e = 0 /\ q = 1
          BY <1>1, <1>9, <1>11, <4>1, <4>2, <4>5
        <4> QED  BY <1>9, <4>3, <4>4, <4>5
      <3>2. k + i = j  BY <3>1
      <3>3. E[n] = c[i] /\ R[k0 + n] = r[j]  BY <1>6, <1>8, <3>1
      <3>4. c[i] = r[k + i]  BY <1>2, <3>1
      <3> QED  BY <3>2, <3>3, <3>4
    <2> QED  BY <2>1, <2>2
  <1>13. ASSUME NEW n \in 1..k0 PROVE n =< Len(R) - MaxEntries \/ now[R[n]] > Ttl
    <2> DEFINE j == IF n < p THEN n ELSE n + d
    <2>1. n \in 1..(l - d) /\ j \in 1..k /\ j \in 1..l /\ n =< j
      <3>1. n \in Nat /\ n > 0 /\ n =< k0 /\ n =< l - d  BY <1>1, <1>5, <1>10
      <3>2. p \in Nat \ {0} /\ k =< l  BY <1>1, <1>5, <1>9
      <3>3. CASE d = 0 /\ e = 0 /\ q = 1  BY <1>1, <1>9, <1>11, <3>1, <3>2, <3>3
      <3>4. CASE d = 1 /\ p > k /\ e = 1 /\ q = p - k
        BY <1>1, <1>9, <1>11, <3>1, <3>2, <3>4
      <3>5. CASE d = 1 /\ ~(p > k) /\ e = 0 /\ q = 1
        BY <1>1, <1>9, <1>11, <3>1, <3>2, <3>5
      <3> QED  BY <1>9, <3>3, <3>4, <3>5
    <2>2. R[n] = r[j]  BY <1>6, <2>1
    <2>3. r[j] # a  BY <1>1, <1>5, <2>1
    <2>4. now[R[n]] = ages[r[j]]  BY <1>1, <1>3, <2>1, <2>2, <2>3
    <2>5. j =< l - MaxEntries \/ ages[r[j]] > Ttl  BY <1>2, <2>1
    <2>6. j =< l - MaxEntries => n =< Len(R) - MaxEntries
      BY <1>1, <1>5, <1>6, <2>1
    <2> QED  BY <2>4, <2>5, <2>6
  <1>14. ASSUME NEW x \in 1..Len(R), NEW y \in 1..Len(R), x < y
         PROVE  R[x] # R[y] /\ now[R[x]] >= now[R[y]]
    <2> DEFINE i == IF x < p THEN x ELSE x + d
               j == IF y < p THEN y ELSE y + d
    <2>1. x \in 1..(l - d) /\ i \in 1..l  BY <1>1, <1>5, <1>6, <1>14
    <2>2. R[x] = r[i] /\ r[i] # a  BY <1>1, <1>5, <1>6, <2>1
    <2>3. now[R[x]] = ages[r[i]] /\ ages[r[i]] \in Nat  BY <1>1, <1>3, <2>1, <2>2
    <2>4. CASE y = l - d + 1
      <3>1. R[y] = a  BY <1>6, <2>4
      <3> QED  BY <1>3, <2>2, <2>3, <3>1
    <2>5. CASE y # l - d + 1
      <3>1. y \in 1..(l - d) /\ j \in 1..l /\ i < j  BY <1>1, <1>5, <1>6, <1>14, <2>1, <2>5
      <3>2. R[y] = r[j] /\ r[j] # a  BY <1>1, <1>5, <1>6, <3>1
      <3>3. now[R[y]] = ages[r[j]]  BY <1>1, <1>3, <3>1, <3>2
      <3>4. r[i] # r[j] /\ ages[r[i]] >= ages[r[j]]  BY <1>2, <2>1, <3>1
      <3> QED  BY <2>2, <2>3, <3>2, <3>3, <3>4
    <2> QED  BY <2>4, <2>5
  <1> DEFINE g == IF Len(E) > MaxEntries THEN Len(E) - MaxEntries ELSE 0
  <1>15. /\ C \in Seq(Addresses) /\ Len(C) = Len(E) - g
         /\ \A n \in 1..(Len(E) - g) : C[n] = E[g + n]
    <2>1. g \in Nat  BY <1>1, <1>10
    <2> QED  BY <1>8, <2>1, NewestCuts
  <1> HIDE DEF C
  <1>16. /\ g \in Nat /\ g =< Len(E) /\ Len(C) = Len(E) - g
         /\ \/ g = 0 /\ Len(E) =< MaxEntries
            \/ g = Len(E) - MaxEntries /\ Len(E) > MaxEntries
    BY <1>1, <1>10, <1>15
  <1> HIDE DEF g
  <1>17. Len(C) =< Len(R) /\ Len(C) =< MaxEntries  BY <1>1, <1>10, <1>16
  <1>18. ASSUME NEW n \in 1..Len(C) PROVE C[n] = R[Len(R) - Len(C) + n]
    <2>1. g + n \in 1..Len(E) /\ Len(R) - Len(C) + n = k0 + (g + n)
      BY <1>1, <1>10, <1>16
    <2>2. C[n] = E[g + n]  BY <1>15, <1>16
    <2>3. E[g + n] = R[k0 + (g + n)]  BY <1>12, <2>1
    <2> QED  BY <2>1, <2>2, <2>3
  <1>19. ASSUME NEW n \in 1..(Len(R) - Len(C))
         PROVE  n =< Len(R) - MaxEntries \/ now[R[n]] > Ttl
    <2>1. CASE Len(E) > MaxEntries
      BY <1>1, <1>10, <1>16, <2>1
    <2>2. CASE ~(Len(E) > MaxEntries)
      <3>1. n \in 1..k0  BY <1>1, <1>10, <1>16, <2>2
      <3> QED  BY <1>13, <3>1
    <2> QED  BY <2>1, <2>2
  <1>20. CacheEnds(C, R, now)
    BY <1>3, <1>6, <1>14, <1>15, <1>17, <1>18, <1>19 DEF CacheEnds
  <1> QED  BY <1>20 DEF C, E, R, now

\* A sweep takes away what is past its time to live, and what it leaves is what of the
\* newest entries is not.
LEMMA SweepKeeps ==
    ASSUME CacheInv
    PROVE  CacheEnds(Unexpired, recency, age) /\ ToSet(Unexpired) = Due
  <1> DEFINE l == Len(recency)
             m == Len(cache)
             k == l - m
             U == Unexpired
             Fresh == {n \in 1..m : age[cache[n]] =< Ttl}
  <1>1. /\ cache \in Seq(Addresses) /\ recency \in Seq(Addresses)
        /\ l \in Nat /\ m \in Nat /\ Ttl \in Nat /\ MaxEntries \in Nat
        /\ \A n \in 1..m : cache[n] \in Addresses
        /\ \A n \in 1..l : recency[n] \in Addresses /\ age[recency[n]] \in Nat
    BY CacheFacts DEF CacheInv
  <1>2. /\ m =< l /\ m =< MaxEntries /\ k \in Nat
        /\ \A n \in 1..m : cache[n] = recency[k + n] /\ k + n \in 1..l
        /\ \A n \in 1..k : n =< l - MaxEntries \/ age[recency[n]] > Ttl
        /\ \A i, j \in 1..l : i < j => recency[i] # recency[j]
                                       /\ age[recency[i]] >= age[recency[j]]
    BY <1>1, SMTT(30) DEF CacheInv, CacheEnds
  <1>3. PICK d \in 0..m : \A n \in 1..m : age[cache[n]] =< Ttl <=> n > d
    <2>1. CASE Fresh = {}
      <3>1. \A n \in 1..m : ~(age[cache[n]] =< Ttl) /\ ~(n > m)  BY <1>1, <2>1
      <3>2. m \in 0..m  BY <1>1
      <3> QED  BY <3>1, <3>2
    <2>2. CASE Fresh # {}
      <3>1. PICK f \in Fresh : \A n \in Fresh : f =< n
        <4>1. Fresh \in SUBSET Nat  OBVIOUS
        <4> HIDE DEF Fresh
        <4> QED  BY <2>2, <4>1, LeastNat
      <3>2. f - 1 \in 0..m /\ f \in 1..m  BY <1>1
      <3>3. ASSUME NEW n \in 1..m PROVE age[cache[n]] =< Ttl <=> n > f - 1
        <4>1. CASE n < f
          <5>1. n \notin Fresh  BY <1>1, <3>1, <4>1
          <5> QED  BY <1>1, <3>2, <4>1, <5>1
        <4>2. CASE n = f  BY <1>1, <3>2, <4>2
        <4>3. CASE n > f
          <5>1. k + f < k + n  BY <1>1, <1>2, <3>2, <4>3
          <5>2. age[cache[f]] >= age[cache[n]]  BY <1>2, <3>2, <5>1
          <5>3. age[cache[f]] \in Nat /\ age[cache[n]] \in Nat
            BY <1>1, <1>2, <3>2
          <5>4. age[cache[f]] =< Ttl  OBVIOUS
          <5> QED  BY <1>1, <3>2, <4>3, <5>2, <5>3, <5>4
        <4> QED  BY <1>1, <3>2, <4>1, <4>2, <4>3
      <3> QED  BY <3>2, <3>3
    <2> QED  BY <2>1, <2>2
  <1> HIDE DEF Fresh
  <1>4. U \in Seq(Addresses) /\ Len(U) = m - d /\ \A n \in 1..(m - d) : U[n] = cache[n + d]
    <2> DEFINE K == {a \in Addresses : age[a] =< Ttl}
    <2>1. \A n \in 1..m : cache[n] \in K <=> n < 1 \/ n >= 1 + d
      <3> SUFFICES ASSUME NEW n \in 1..m PROVE cache[n] \in K <=> n < 1 \/ n >= 1 + d
        OBVIOUS
      <3>1. cache[n] \in K <=> n > d  BY <1>1, <1>3
      <3>2. n > d <=> n < 1 \/ n >= 1 + d  BY <1>1, <1>3
      <3> QED  BY <3>1, <3>2
    <2>2. Spares(cache, K, 1, d)  BY <1>1, <1>3, <2>1 DEF Spares
    <2>3. U = Only(cache, K)  BY DEF Unexpired
    <2> HIDE DEF K, U
    <2>4. /\ U \in Seq(Addresses) /\ Len(U) = m - d
          /\ \A n \in 1..(m - d) : U[n] = cache[IF n < 1 THEN n ELSE n + d]
      BY <1>1, <2>2, <2>3, OnlyCuts
    <2> QED  BY <1>1, <2>4
  <1> HIDE DEF U
  <1>5. Len(U) =< l /\ Len(U) =< MaxEntries  BY <1>1, <1>2, <1>4
  <1>6. ASSUME NEW n \in 1..Len(U) PROVE U[n] = recency[l - Len(U) + n]
    <2>1. n \in 1..(m - d) /\ n + d \in 1..m /\ k + (n + d) = l - Len(U) + n
      BY <1>1, <1>2, <1>3, <1>4
    <2>2. U[n] = cache[n + d]  BY <1>4, <2>1
    <2>3. cache[n + d] = recency[k + (n + d)]  BY <1>2, <2>1
    <2> QED  BY <2>1, <2>2, <2>3
  <1>7. ASSUME NEW n \in 1..(l - Len(U))
        PROVE  n =< l - MaxEntries \/ age[recency[n]] > Ttl
    <2>1. CASE n =< k
      <3>1. n \in 1..k  BY <1>1, <1>2, <2>1
      <3> QED  BY <1>2, <3>1
    <2>2. CASE ~(n =< k)
      <3>1. n - k \in 1..m /\ ~(n - k > d) /\ k + (n - k) = n /\ n \in 1..l
        BY <1>1, <1>2, <1>3, <1>4, <2>2
      <3>2. ~(age[cache[n - k]] =< Ttl) /\ cache[n - k] = recency[n]
        BY <1>2, <1>3, <3>1
      <3> QED  BY <1>1, <3>1, <3>2
    <2> QED  BY <2>1, <2>2
  <1>8. CacheEnds(U, recency, age)
    <2>1. age \in [Addresses -> 0..(Ttl + 1)]  BY DEF CacheInv, CacheEnds
    <2> QED  BY <1>1, <1>2, <1>4, <1>5, <1>6, <1>7, <2>1 DEF CacheEnds
  <1> DEFINE g == IF l > MaxEntries THEN l - MaxEntries ELSE 0
             N == Newest(recency)
  <1>9. /\ g \in Nat /\ Len(N) = l - g /\ N \in Seq(Addresses)
        /\ \A n \in 1..(l - g) : N[n] = recency[g + n]
    <2>1. g \in Nat  BY <1>1
    <2> QED  BY <1>1, <2>1, NewestCuts
  <1> HIDE DEF N
  <1>10. DOMAIN N = 1..(l - g) /\ DOMAIN U = 1..(m - d)
    BY <1>4, <1>9, LenProperties
  <1>11. ASSUME NEW a \in ToSet(U) PROVE a \in Due
    <2>1. PICK n \in 1..(m - d) : a = U[n]  BY <1>10 DEF ToSet
    <2>2. n + d \in 1..m /\ n + d > d  BY <1>1, <1>3, <2>1
    <2>3. a = recency[k + (n + d)] /\ age[a] =< Ttl
      BY <1>2, <1>3, <1>4, <2>1, <2>2
    <2>4. k + (n + d) - g \in 1..(l - g) /\ g + (k + (n + d) - g) = k + (n + d)
      BY <1>1, <1>2, <1>3, <2>2
    <2>5. a = N[k + (n + d) - g]  BY <1>9, <2>3, <2>4
    <2>6. a \in ToSet(N)  BY <1>10, <2>4, <2>5 DEF ToSet
    <2> QED  BY <2>3, <2>6 DEF Due, N
  <1>12. ASSUME NEW a \in Due PROVE a \in ToSet(U)
    <2>1. PICK n \in 1..(l - g) : a = N[n]  BY <1>10 DEF Due, ToSet, N
    <2>2. a = recency[g + n] /\ age[a] =< Ttl  BY <1>9, <2>1 DEF Due
    <2>3. g + n \in 1..l /\ ~(g + n =< l - MaxEntries)  BY <1>1, <1>9, <2>1
    <2>4. age[recency[g + n]] \in Nat  BY <1>1, <2>3
    <2>5. g + n \notin 1..(l - Len(U))  BY <1>1, <1>7, <2>2, <2>3, <2>4, SMTT(30)
    <2>6. PICK i \in 1..Len(U) : l - Len(U) + i = g + n
      <3> DEFINE x == g + n
                 u == Len(U)
      <3>1. l \in Nat /\ u \in Nat /\ u =< l  BY <1>1, <1>2, <1>3, <1>4
      <3>2. x \in Nat /\ x > l - u /\ x =< l  BY <1>1, <2>3, <2>5, <3>1
      <3> HIDE DEF x, u
      <3>3. x - (l - u) \in 1..u /\ l - u + (x - (l - u)) = x  BY <3>1, <3>2
      <3>4. \E i \in 1..u : l - u + i = x  BY <3>3
      <3> QED  BY <3>4 DEF x, u
    <2>7. a = U[i]  BY <1>6, <2>2, <2>6
    <2>8. i \in 1..(m - d)  BY <1>4, <2>6
    <2> QED  BY <1>10, <2>7, <2>8 DEF ToSet
  <1> QED  BY <1>8, <1>11, <1>12 DEF U

-----------------------------------------------------------------------------
LEMMA NoneCached == CacheEnds(<< >>, << >>, [a \in Addresses |-> Ttl + 1])
  <1>1. << >> \in Seq(Addresses) /\ Len(<< >>) = 0  BY EmptySeq
  <1>2. Ttl + 1 \in 0..(Ttl + 1) /\ 0 =< MaxEntries  BY IntervalAssumption
  <1> QED  BY <1>1, <1>2 DEF CacheEnds

LEMMA InitCache == Init => CacheInv
  BY NoneCached DEF Init, CacheInv

\* Time makes all addresses older and none younger than one heard before it.
LEMMA TickKeeps == CacheInv /\ Tick => CacheInv'
  <1> SUFFICES ASSUME CacheInv, Tick PROVE CacheEnds(cache, recency, age')
    BY DEF CacheInv, Tick
  <1>1. age' = [a \in Addresses |-> IF age[a] > Ttl THEN age[a] ELSE age[a] + 1]
    BY DEF Tick
  <1>2. Ttl \in Nat /\ Len(recency) \in Nat /\ Len(cache) \in Nat
        /\ \A n \in 1..Len(recency) : recency[n] \in Addresses
    BY CacheFacts DEF CacheInv
  <1>3. \A a \in Addresses : age[a] \in 0..(Ttl + 1)  BY DEF CacheInv, CacheEnds
  <1>4. age' \in [Addresses -> 0..(Ttl + 1)]
    <2>1. \A a \in Addresses :
             (IF age[a] > Ttl THEN age[a] ELSE age[a] + 1) \in 0..(Ttl + 1)
      BY <1>2, <1>3
    <2> QED  BY <1>1, <2>1
  <1>5. \A a, b \in Addresses : age[a] >= age[b] => age'[a] >= age'[b]
    BY <1>1, <1>2, <1>3
  <1>6. \A a \in Addresses : age[a] > Ttl => age'[a] > Ttl  BY <1>1
  <1>7. \A n \in 1..(Len(recency) - Len(cache)) : n \in 1..Len(recency)
    BY <1>2 DEF CacheInv, CacheEnds
  <1> QED  BY <1>2, <1>4, <1>5, <1>6, <1>7 DEF CacheInv, CacheEnds

LEMMA NextCache == CacheInv /\ [Next]_vars => CacheInv'
  <1> SUFFICES ASSUME CacheInv, [Next]_vars PROVE CacheInv'  OBVIOUS
  <1>1. ASSUME NEW a \in Addresses, RegisterSender(a) PROVE CacheInv'
    BY <1>1, RegisterKeeps DEF RegisterSender, CacheInv
  <1>2. CASE HelloArrives  BY <1>1, <1>2 DEF HelloArrives, Addresses
  <1>3. ASSUME NEW a \in Senders, Heard(a) PROVE CacheInv'
    BY <1>1, <1>3 DEF Heard, Addresses
  <1>4. CASE Cleanup \/ Send
    <2>1. cache' = Unexpired /\ UNCHANGED <<recency, age>>  BY <1>4 DEF Cleanup, Send
    <2> QED  BY <2>1, SweepKeeps DEF CacheInv
  <1>5. CASE ServerStopped
    BY <1>5, NoneCached DEF ServerStopped, CacheInv
  <1>6. CASE Tick  BY <1>6, TickKeeps
  <1>7. CASE \/ ServerStart \/ ServerStop \/ AppStart \/ AppStop \/ AppStopped
             \/ HelloWakes \/ HelloLost \/ UNCHANGED vars
    <2>1. UNCHANGED <<cache, recency, age>>
      BY <1>7 DEF ServerStart, ServerStop, AppStart, AppStop, AppStopped, HelloWakes,
                  HelloLost, vars, serverVars
    <2> QED  BY <2>1 DEF CacheInv
  <1> QED  BY <1>2, <1>3, <1>4, <1>5, <1>6, <1>7 DEF Next

\* A message goes to the MaxEntries addresses heard last, without those past their time
\* to live, for every cap, time to live and number of addresses, and through any mixture
\* of sweeps, evictions, addresses heard again and restarts.
THEOREM RepliesToTheDue == Spec => SentToTheDue
  <1>1. CacheInv /\ [Next]_vars => [Send => to' = Due]_vars
    <2> SUFFICES ASSUME CacheInv, Send PROVE to' = Due  OBVIOUS
    <2>1. to' = ToSet(Unexpired)  BY DEF Send
    <2> QED  BY <2>1, SweepKeeps
  <1> QED  BY <1>1, InitCache, NextCache, PTL DEF Spec, SentToTheDue

=============================================================================
