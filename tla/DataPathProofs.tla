--------------------------- MODULE DataPathProofs ---------------------------
(***************************************************************************)
(* What the data goes through, for inputs of any length: the rows that the *)
(* reader takes from a file, the messages that a client hears, the records *)
(* that a receiver cuts out of a stream.                                   *)
(* FileReader and Framer compute with recursive functions over sequences.  *)
(* The induction goes through a set: T == {s \in Seq(S) : P(s)} holds <<>> *)
(* and is closed under Append, so it is all of Seq(S) (SeqUp).             *)
(***************************************************************************)
EXTENDS FileReader, ClientStream, Framer, SequenceTheorems, WellFoundedInduction, TLAPS

-----------------------------------------------------------------------------
(* Numbers, sequences and recursive functions.                              *)

\* A set of numbers that is not empty has a least one.
LEMMA LeastNat ==
    ASSUME NEW T \in SUBSET Nat, T # {}
    PROVE  \E n \in T : \A m \in T : n =< m
  <1>1. PICK n \in T : \A m \in T : ~ (<<m, n>> \in OpToRel(<, Nat))
    BY NatLessThanWellFounded, WFMin, Zenon
  <1>2. \A m \in T : ~ (m < n)
    BY <1>1 DEF OpToRel
  <1> QED  BY <1>2

\* What is true of 0, and of each next number up to n, is true of n.
LEMMA UpTo ==
    ASSUME NEW n \in Nat, NEW T, 0 \in T, \A k \in 1..n : k - 1 \in T => k \in T
    PROVE  n \in T
  <1> DEFINE Bad == {k \in 0..n : k \notin T}
  <1>1. SUFFICES ASSUME Bad # {} PROVE FALSE  OBVIOUS
  <1>2. PICK k \in Bad : \A m \in Bad : k =< m
    <2>1. Bad \in SUBSET Nat  OBVIOUS
    <2> HIDE DEF Bad
    <2> QED  BY <1>1, <2>1, LeastNat
  <1>3. k \in 1..n  BY <1>2
  <1>4. k - 1 \in 0..n /\ k - 1 \notin Bad
    <2> HIDE DEF Bad
    <2> QED  BY <1>2, <1>3
  <1> QED  BY <1>2, <1>3, <1>4

\* What is true of the empty sequence, and of each one with one member more, is
\* true of every sequence.
LEMMA SeqUp ==
    ASSUME NEW S, NEW T, <<>> \in T,
           \A s \in Seq(S) : \A x \in S : s \in T => Append(s, x) \in T
    PROVE  \A s \in Seq(S) : s \in T
  <1> DEFINE U == {n \in Nat : \A s \in Seq(S) : Len(s) = n => s \in T}
  <1>1. 0 \in U
    <2>1. \A s \in Seq(S) : Len(s) = 0 => s = <<>>  BY EmptySeq
    <2> QED  BY <2>1
  <1>2. ASSUME NEW n \in Nat, n - 1 \in U, n # 0 PROVE n \in U
    <2>1. SUFFICES ASSUME NEW s \in Seq(S), Len(s) = n PROVE s \in T  OBVIOUS
    <2>2. s # <<>>  BY <1>2, <2>1, EmptySeq
    <2>3. PICK t \in Seq(S), x \in S : s = Append(t, x)
      BY <2>2, SequenceEmptyOrAppend
    <2>4. Len(t) \in Nat /\ Len(t) + 1 = Len(s)
      BY <2>3, AppendProperties, LenProperties
    <2>5. t \in T  BY <1>2, <2>1, <2>4
    <2> QED  BY <2>3, <2>5
  <1> HIDE DEF U
  <1>3. ASSUME NEW s \in Seq(S) PROVE Len(s) \in U
    <2>1. Len(s) \in Nat  BY LenProperties
    <2>2. \A k \in 1..Len(s) : k - 1 \in U => k \in U  BY <1>2, <2>1
    <2> QED  BY <1>1, <2>1, <2>2, UpTo
  <1> QED  BY <1>3 DEF U

\* f is what a loop over 1..m goes through from base, F[k] being its turn k.
Loop(f, m, V, base, F) ==
    /\ f \in [0..m -> V] /\ f[0] = base
    /\ \A k \in 1..m : f[k] = F[k][f[k - 1]]

\* A loop that takes a value of V to one of V gets to its end.
LEMMA Unrolls ==
    ASSUME NEW n \in Nat, NEW V, NEW base \in V, NEW F \in [1..n -> [V -> V]]
    PROVE  \E f : Loop(f, n, V, base, F)
  <1> USE DEF Loop
  <1> DEFINE Goes(f, m) == Loop(f, m, V, base, F)
             T == {m \in 0..n : \E f : Goes(f, m)}
  <1>1. 0 \in T
    <2>1. PICK f : f = [k \in 0..0 |-> base]  OBVIOUS
    <2>2. f \in [0..0 -> V] /\ f[0] = base  BY <2>1
    <2>3. Goes(f, 0)  BY <2>2
    <2> HIDE DEF Goes
    <2> QED  BY <2>3
  <1>2. ASSUME NEW m \in 1..n, m - 1 \in T PROVE m \in T
    <2>1. PICK f : Goes(f, m - 1)  BY <1>2
    <2> HIDE DEF T
    <2>2. m \in Nat /\ m - 1 \in 0..(m - 1) /\ m \in 0..n  OBVIOUS
    <2>3. f[m - 1] \in V  BY <2>1, <2>2
    <2> DEFINE v == F[m][f[m - 1]]
    <2>4. v \in V  BY <2>3
    <2> HIDE DEF v
    <2> DEFINE g == [k \in 0..m |-> IF k < m THEN f[k] ELSE v]
    <2>5. /\ f \in [0..(m - 1) -> V] /\ f[0] = base
          /\ \A k \in 1..(m - 1) : f[k] = F[k][f[k - 1]]
      BY <2>1
    <2> HIDE DEF Goes
    <2>6. \A k \in 0..m : k < m => k \in 0..(m - 1)  BY <2>2
    <2>7. g \in [0..m -> V]  BY <2>4, <2>5, <2>6
    <2>8. g[0] = base  BY <2>2, <2>5
    <2>9. ASSUME NEW k \in 1..m PROVE g[k] = F[k][g[k - 1]]
      <3>1. k - 1 \in 0..m /\ k - 1 < m /\ k \in 0..m  BY <2>2
      <3>2. g[k - 1] = f[k - 1]  BY <3>1
      <3>3. CASE k < m
        <4>1. k \in 1..(m - 1) /\ g[k] = f[k]  BY <2>2, <3>1, <3>3
        <4> QED  BY <2>5, <3>2, <4>1
      <3>4. CASE k = m
        <4>1. g[k] = v  BY <3>1, <3>4
        <4> QED  BY <3>2, <3>4, <4>1 DEF v
      <3> QED  BY <2>2, <3>3, <3>4
    <2> HIDE DEF g
    <2>10. Goes(g, m)  BY <2>7, <2>8, <2>9 DEF Goes
    <2> QED  BY <2>2, <2>10 DEF T
  <1> HIDE DEF T
  <1>3. n \in T  BY <1>1, <1>2, UpTo
  <1> HIDE DEF Loop
  <1> QED  BY <1>3 DEF T

\* Only one: two loops that begin and go on in the same way end in the same way.
LEMMA RunsAgree ==
    ASSUME NEW n \in Nat, NEW f, NEW g, f[0] = g[0],
           \A k \in 1..n : f[k - 1] = g[k - 1] => f[k] = g[k]
    PROVE  f[n] = g[n]
  <1> DEFINE T == {k \in 0..n : f[k] = g[k]}
  <1>1. 0 \in T  OBVIOUS
  <1>2. \A k \in 1..n : k - 1 \in T => k \in T  OBVIOUS
  <1> HIDE DEF T
  <1>3. n \in T  BY <1>1, <1>2, UpTo
  <1> QED  BY <1>3 DEF T

-----------------------------------------------------------------------------
(* What the operators of FileReader compute.                                *)

\* f takes the members of s that are in K one after the other.
Takes(f, s, K) ==
    /\ f[0] = <<>>
    /\ \A n \in 1..Len(s) :
          f[n] = IF s[n] \in K THEN Append(f[n - 1], s[n]) ELSE f[n - 1]

\* Only(s, K) is the last value of such a function.
LEMMA OnlyTakes ==
    ASSUME NEW S, NEW s \in Seq(S), NEW K
    PROVE  \E f \in [0..Len(s) -> Seq(S)] : Takes(f, s, K) /\ Only(s, K) = f[Len(s)]
  <1> DEFINE l == Len(s)
             F == [n \in 1..l |-> [v \in Seq(S) |-> IF s[n] \in K THEN Append(v, s[n]) ELSE v]]
             only[n \in 0..Len(s)] ==
                IF n = 0 THEN <<>>
                ELSE IF s[n] \in K THEN Append(only[n - 1], s[n]) ELSE only[n - 1]
  <1>1. l \in Nat /\ \A n \in 1..l : s[n] \in S  BY LenProperties, ElementOfSeq
  <1> HIDE DEF l
  <1>2. F \in [1..l -> [Seq(S) -> Seq(S)]]
    <2>1. \A n \in 1..l : \A v \in Seq(S) : Append(v, s[n]) \in Seq(S)
      BY <1>1, AppendProperties
    <2> QED  BY <2>1
  <1>3. <<>> \in Seq(S)  BY EmptySeq
  <1>4. PICK f : /\ f \in [0..l -> Seq(S)] /\ f[0] = <<>>
                 /\ \A k \in 1..l : f[k] = F[k][f[k - 1]]
    <2> HIDE DEF F, only
    <2>1. PICK f : Loop(f, l, Seq(S), <<>>, F)  BY <1>1, <1>2, <1>3, Unrolls, Zenon
    <2> QED  BY <2>1 DEF Loop
  <1>5. ASSUME NEW k \in 1..l
        PROVE  f[k] = IF s[k] \in K THEN Append(f[k - 1], s[k]) ELSE f[k - 1]
    <2>1. k - 1 \in 0..l  BY <1>1
    <2>2. f[k - 1] \in Seq(S)  BY <1>4, <2>1
    <2> QED  BY <1>4, <2>2
  <1>6. f = [n \in 0..l |-> IF n = 0 THEN <<>>
                            ELSE IF s[n] \in K THEN Append(f[n - 1], s[n]) ELSE f[n - 1]]
    <2>1. ASSUME NEW n \in 0..l
          PROVE  f[n] = IF n = 0 THEN <<>>
                        ELSE IF s[n] \in K THEN Append(f[n - 1], s[n]) ELSE f[n - 1]
      <3>1. CASE n = 0  BY <1>4, <3>1
      <3>2. CASE n # 0
        <4>1. n \in 1..l  BY <1>1, <3>2
        <4> QED  BY <1>5, <3>2, <4>1
      <3> QED  BY <3>1, <3>2
    <2>2. f = [n \in 0..l |-> f[n]]  BY <1>4, Zenon
    <2> QED  BY <2>1, <2>2, Zenon
  <1>7. only = [n \in 0..Len(s) |->
                   IF n = 0 THEN <<>>
                   ELSE IF s[n] \in K THEN Append(only[n - 1], s[n]) ELSE only[n - 1]]
    BY <1>6, Zenon DEF l
  <1>8. Only(s, K) = only[l]  BY DEF Only, l
  <1> HIDE DEF only
  <1>9. ASSUME NEW k \in 1..l
        PROVE  only[k] = IF s[k] \in K THEN Append(only[k - 1], s[k]) ELSE only[k - 1]
    <2>1. k \in 0..Len(s) /\ k # 0  BY <1>1 DEF l
    <2> QED  BY <1>7, <2>1
  <1>10. only[0] = <<>>
    <2>1. 0 \in 0..Len(s)  BY <1>1 DEF l
    <2> QED  BY <1>7, <2>1
  <1>11. only[l] = f[l]
    <2>1. \A k \in 1..l : only[k - 1] = f[k - 1] => only[k] = f[k]  BY <1>5, <1>9
    <2>2. only[0] = f[0]  BY <1>4, <1>10
    <2> HIDE DEF F
    <2> QED  BY <1>1, <2>1, <2>2, RunsAgree
  <1>12. Takes(f, s, K)  BY <1>4, <1>5 DEF Takes, l
  <1> QED  BY <1>4, <1>8, <1>11, <1>12 DEF l

\* Of no members none are taken.
LEMMA OnlyEmpty ==
    ASSUME NEW K
    PROVE  Only(<<>>, K) = <<>>
  <1>1. <<>> \in Seq({}) /\ Len(<<>>) = 0  BY EmptySeq
  <1>2. PICK f : Takes(f, <<>>, K) /\ Only(<<>>, K) = f[0]  BY <1>1, OnlyTakes
  <1> QED  BY <1>2 DEF Takes

\* One member more.
LEMMA OnlyAppend ==
    ASSUME NEW S, NEW s \in Seq(S), NEW x \in S, NEW K
    PROVE  /\ Only(s, K) \in Seq(S)
           /\ Only(Append(s, x), K) = IF x \in K THEN Append(Only(s, K), x) ELSE Only(s, K)
  <1> DEFINE t == Append(s, x)
             l == Len(s)
  <1>1. /\ t \in Seq(S) /\ Len(t) = l + 1 /\ t[l + 1] = x /\ l \in Nat
        /\ \A i \in 1..l : t[i] = s[i]
    BY AppendProperties, LenProperties
  <1>2. PICK f \in [0..l -> Seq(S)] : Takes(f, s, K) /\ Only(s, K) = f[l]  BY OnlyTakes
  <1> HIDE DEF t
  <1>3. PICK g : Takes(g, t, K) /\ Only(t, K) = g[Len(t)]  BY <1>1, OnlyTakes
  <1>4. /\ f[0] = <<>>
        /\ \A n \in 1..l : f[n] = IF s[n] \in K THEN Append(f[n - 1], s[n]) ELSE f[n - 1]
    BY <1>2 DEF Takes
  <1>5. /\ g[0] = <<>>
        /\ \A n \in 1..(l + 1) :
              g[n] = IF t[n] \in K THEN Append(g[n - 1], t[n]) ELSE g[n - 1]
    BY <1>1, <1>3 DEF Takes
  <1> HIDE DEF l
  <1>6. \A n \in 1..l : g[n - 1] = f[n - 1] => g[n] = f[n]
    <2> SUFFICES ASSUME NEW n \in 1..l, g[n - 1] = f[n - 1] PROVE g[n] = f[n]  OBVIOUS
    <2>1. n \in 1..(l + 1) /\ t[n] = s[n]  BY <1>1
    <2> QED  BY <1>4, <1>5, <2>1
  <1>7. g[l] = f[l]
    <2>1. l \in Nat /\ g[0] = f[0]  BY <1>1, <1>4, <1>5
    <2> QED  BY <1>6, <2>1, RunsAgree, Zenon
  <1>8. l + 1 \in 1..(l + 1) /\ l + 1 - 1 = l /\ l \in 0..l  BY <1>1
  <1>9. g[l + 1] = IF x \in K THEN Append(g[l], x) ELSE g[l]  BY <1>1, <1>5, <1>8
  <1> QED  BY <1>1, <1>2, <1>3, <1>7, <1>8, <1>9 DEF t

\* Only asks of each member whether it is in the set, and nothing else.
LEMMA OnlySame ==
    ASSUME NEW S, NEW s \in Seq(S), NEW K, NEW M, \A n \in 1..Len(s) : s[n] \in K <=> s[n] \in M
    PROVE  Only(s, K) = Only(s, M)
  <1>1. Len(s) \in Nat  BY LenProperties
  <1>2. PICK f : Takes(f, s, K) /\ Only(s, K) = f[Len(s)]  BY OnlyTakes
  <1>3. PICK g : Takes(g, s, M) /\ Only(s, M) = g[Len(s)]  BY OnlyTakes
  <1>4. f[0] = g[0] /\ \A n \in 1..Len(s) : f[n - 1] = g[n - 1] => f[n] = g[n]
    BY <1>2, <1>3 DEF Takes
  <1>5. f[Len(s)] = g[Len(s)]  BY <1>1, <1>4, RunsAgree, Zenon
  <1> QED  BY <1>2, <1>3, <1>5

\* The text of row i.
Block(i) == [l \in 1..file[i].span |-> i]

\* It is as many lines as the row spans.
LEMMA BlockIs ==
    ASSUME file \in Seq(Rows), NEW i \in 1..Len(file)
    PROVE  Block(i) \in Seq(Nat) /\ Len(Block(i)) = file[i].span /\ file[i].span \in Nat
  <1>1. file[i] \in Rows  BY ElementOfSeq
  <1>2. file[i].span \in Nat  BY <1>1, FileAssumption
  <1>3. i \in Nat /\ Len(file) \in Nat  BY LenProperties
  <1> DEFINE s == file[i].span
  <1>4. s \in Nat  BY <1>2
  <1> HIDE DEF s
  <1>5. [l \in 1..s |-> i] \in [1..s -> Nat]  BY <1>3
  <1>6. [l \in 1..s |-> i] \in Seq(Nat) /\ Len([l \in 1..s |-> i]) = s  BY <1>4, <1>5
  <1> QED  BY <1>4, <1>6 DEF Block, s

\* The lines of one row more.
LEMMA LinesStep ==
    ASSUME file \in Seq(Rows), NEW n \in 0..Len(file)
    PROVE  /\ Lines(0) = <<>> /\ Lines(n) \in Seq(Nat)
           /\ n > 0 => Lines(n) = Lines(n - 1) \o Block(n) /\ Lines(n - 1) \in Seq(Nat)
  <1> DEFINE Goes(f, m) == /\ f[0] = <<>>
                           /\ \A k \in 1..m : f[k] = f[k - 1] \o Block(k)
  <1>1. Len(file) \in Nat /\ n \in Nat /\ n =< Len(file)  BY LenProperties
  <1>2. ASSUME NEW m \in 0..n
        PROVE  \E f : f \in [0..m -> Seq(Nat)] /\ Goes(f, m) /\ Lines(m) = f[m]
    <2> DEFINE F == [k \in 1..m |-> [v \in Seq(Nat) |-> v \o Block(k)]]
               lines[i \in 0..m] ==
                  IF i = 0 THEN <<>> ELSE lines[i - 1] \o [l \in 1..file[i].span |-> i]
    <2>1. m \in Nat /\ \A k \in 1..m : Block(k) \in Seq(Nat)
      <3>1. m \in Nat /\ \A k \in 1..m : k \in 1..Len(file)  BY <1>1
      <3> QED  BY <3>1, BlockIs
    <2>2. F \in [1..m -> [Seq(Nat) -> Seq(Nat)]]
      <3>1. \A k \in 1..m : \A v \in Seq(Nat) : v \o Block(k) \in Seq(Nat)
        BY <2>1, ConcatProperties
      <3> QED  BY <3>1
    <2>3. <<>> \in Seq(Nat)  BY EmptySeq
    <2>4. PICK f : /\ f \in [0..m -> Seq(Nat)] /\ f[0] = <<>>
                   /\ \A k \in 1..m : f[k] = F[k][f[k - 1]]
      <3> HIDE DEF F, lines
      <3>1. PICK f : Loop(f, m, Seq(Nat), <<>>, F)  BY <2>1, <2>2, <2>3, Unrolls, Zenon
      <3> QED  BY <3>1 DEF Loop
    <2>5. ASSUME NEW k \in 1..m PROVE f[k] = f[k - 1] \o Block(k)
      <3>1. k - 1 \in 0..m  BY <2>1
      <3>2. f[k - 1] \in Seq(Nat)  BY <2>4, <3>1
      <3> QED  BY <2>4, <3>2
    <2>6. f = [i \in 0..m |-> IF i = 0 THEN <<>>
                              ELSE f[i - 1] \o [l \in 1..file[i].span |-> i]]
      <3>1. ASSUME NEW i \in 0..m
            PROVE  f[i] = IF i = 0 THEN <<>> ELSE f[i - 1] \o [l \in 1..file[i].span |-> i]
        <4>1. CASE i = 0  BY <2>4, <4>1
        <4>2. CASE i # 0
          <5>1. i \in 1..m  BY <2>1, <4>2
          <5> QED  BY <2>5, <4>2, <5>1 DEF Block
        <4> QED  BY <4>1, <4>2
      <3>2. f = [i \in 0..m |-> f[i]]  BY <2>4, Zenon
      <3> QED  BY <3>1, <3>2, Zenon
    <2>7. lines = [i \in 0..m |-> IF i = 0 THEN <<>>
                                  ELSE lines[i - 1] \o [l \in 1..file[i].span |-> i]]
      BY <2>6, Zenon
    <2>8. Lines(m) = lines[m]  BY DEF Lines
    <2> HIDE DEF lines
    <2>9. ASSUME NEW k \in 1..m PROVE lines[k] = lines[k - 1] \o Block(k)
      <3>1. k \in 0..m /\ k # 0  BY <2>1
      <3> QED  BY <2>7, <3>1 DEF Block
    <2>10. lines[0] = <<>>
      <3>1. 0 \in 0..m  BY <2>1
      <3> QED  BY <2>7, <3>1
    <2>11. lines[m] = f[m]
      <3>1. \A k \in 1..m : lines[k - 1] = f[k - 1] => lines[k] = f[k]  BY <2>5, <2>9
      <3>2. lines[0] = f[0]  BY <2>4, <2>10
      <3> QED  BY <2>1, <3>1, <3>2, RunsAgree, Zenon
    <2> QED  BY <2>4, <2>5, <2>8, <2>11
  <1>3. Lines(0) = <<>>
    <2>1. 0 \in 0..n  BY <1>1
    <2> QED  BY <1>2, <2>1
  <1>4. PICK f : f \in [0..n -> Seq(Nat)] /\ Goes(f, n) /\ Lines(n) = f[n]
    <2>1. n \in 0..n  BY <1>1
    <2> QED  BY <1>2, <2>1
  <1>5. Lines(n) \in Seq(Nat)
    <2>1. n \in 0..n  BY <1>1
    <2> QED  BY <1>4, <2>1
  <1>6. CASE n > 0
    <2>1. n - 1 \in 0..n /\ n \in 1..n  BY <1>1, <1>6
    <2>2. PICK g : g \in [0..(n - 1) -> Seq(Nat)] /\ Goes(g, n - 1) /\ Lines(n - 1) = g[n - 1]
      BY <1>2, <2>1
    <2>3. f[n - 1] = g[n - 1]
      <3>1. n - 1 \in Nat /\ \A k \in 1..(n - 1) : k \in 1..n  BY <1>1, <1>6
      <3>2. f[0] = g[0] /\ \A k \in 1..(n - 1) : f[k - 1] = g[k - 1] => f[k] = g[k]
        BY <1>4, <2>2, <3>1
      <3> QED  BY <3>1, <3>2, RunsAgree, Zenon
    <2>4. f[n - 1] \in Seq(Nat) /\ f[n] = f[n - 1] \o Block(n)  BY <1>4, <2>1
    <2> QED  BY <1>3, <1>4, <1>5, <2>2, <2>3, <2>4
  <1> QED  BY <1>3, <1>5, <1>6

\* The lines of the first rows are the first lines.
LEMMA LinesBegin ==
    ASSUME file \in Seq(Rows), NEW m \in 0..Len(file), NEW n \in m..Len(file)
    PROVE  /\ Lines(m) \in Seq(Nat) /\ Lines(n) \in Seq(Nat)
           /\ Len(Lines(m)) =< Len(Lines(n))
           /\ \A i \in 1..Len(Lines(m)) : Lines(n)[i] = Lines(m)[i]
  <1> DEFINE Begins(k) == /\ Len(Lines(m)) =< Len(Lines(k))
                          /\ \A i \in 1..Len(Lines(m)) : Lines(k)[i] = Lines(m)[i]
             T == {d \in 0..(n - m) : Begins(m + d)}
  <1>1. /\ Len(file) \in Nat /\ m \in Nat /\ n \in Nat /\ m =< n /\ n =< Len(file)
        /\ n - m \in Nat /\ n \in 0..Len(file)
    BY LenProperties
  <1>2. \A k \in 0..Len(file) : Lines(k) \in Seq(Nat) /\ Len(Lines(k)) \in Nat
    BY LinesStep, LenProperties
  <1>3. 0 \in T
    <2>1. m + 0 = m  BY <1>1
    <2>2. Begins(m)  BY <1>2
    <2> QED  BY <1>1, <2>1, <2>2
  <1>4. ASSUME NEW d \in 1..(n - m), d - 1 \in T PROVE d \in T
    <2>1. PICK k : k = m + d  OBVIOUS
    <2>2. k \in 0..Len(file) /\ k > 0 /\ k - 1 = m + (d - 1) /\ k - 1 \in 0..Len(file)
      BY <1>1, <2>1
    <2>3. Begins(k - 1)  BY <1>4, <2>2
    <2>4. Lines(k) = Lines(k - 1) \o Block(k) /\ Lines(k - 1) \in Seq(Nat)
      BY <2>2, LinesStep
    <2>5. Block(k) \in Seq(Nat)
      <3>1. k \in 1..Len(file)  BY <2>2
      <3> QED  BY <3>1, BlockIs
    <2>6. /\ Len(Lines(k)) = Len(Lines(k - 1)) + Len(Block(k)) /\ Len(Block(k)) \in Nat
          /\ \A i \in 1..(Len(Lines(k - 1)) + Len(Block(k))) :
                i =< Len(Lines(k - 1)) => Lines(k)[i] = Lines(k - 1)[i]
      <3>1. Len(Block(k)) \in Nat  BY <2>5, LenProperties
      <3> QED  BY <2>4, <2>5, <3>1, ConcatProperties
    <2>7. Begins(k)
      <3> DEFINE a == Len(Lines(m))
                 b == Len(Lines(k - 1))
                 c == Len(Block(k))
      <3>1. a \in Nat /\ b \in Nat /\ c \in Nat /\ a =< b  BY <1>2, <2>2, <2>3, <2>6
      <3>2. \A i \in 1..a : Lines(k - 1)[i] = Lines(m)[i]  BY <2>3
      <3>3. \A i \in 1..(b + c) : i =< b => Lines(k)[i] = Lines(k - 1)[i]  BY <2>6
      <3>4. Len(Lines(k)) = b + c  BY <2>6
      <3> HIDE DEF a, b, c
      <3>5. \A i \in 1..a : i \in 1..(b + c) /\ i =< b  BY <3>1
      <3>6. \A i \in 1..a : Lines(k)[i] = Lines(m)[i]  BY <3>2, <3>3, <3>5
      <3>7. a =< Len(Lines(k))  BY <3>1, <3>4
      <3> QED  BY <3>6, <3>7 DEF a
    <2> HIDE DEF Begins
    <2>8. d \in 0..(n - m)  BY <1>1
    <2> QED  BY <2>1, <2>7, <2>8
  <1> HIDE DEF Begins
  <1>5. n - m \in T
    <2> HIDE DEF T
    <2> QED  BY <1>1, <1>3, <1>4, UpTo
  <1>6. m + (n - m) = n  BY <1>1
  <1>7. Begins(n)  BY <1>5, <1>6
  <1> QED  BY <1>1, <1>2, <1>7 DEF Begins

\* The text of a row that was there when the lines were read is its own, that of a
\* later one is empty.
LEMMA TextIs ==
    ASSUME file \in Seq(Rows), NEW size \in 0..Len(file), NEW i \in 1..Len(file)
    PROVE  RawText(i, size) = IF i =< size THEN Block(i) ELSE <<>>
  <1>1. Len(file) \in Nat /\ i \in Nat /\ i > 0 /\ size \in Nat /\ i - 1 \in 0..Len(file)
        /\ i \in 0..Len(file) /\ size \in 0..Len(file)
    BY LenProperties
  <1> DEFINE a == Len(Lines(i - 1))
             e == Len(Lines(i))
             z == Len(Lines(size))
  <1>2. a \in Nat /\ e \in Nat /\ z \in Nat /\ Lines(size) \in Seq(Nat)
    BY <1>1, LinesStep, LenProperties
  <1>3. CASE i =< size
    <2>1. RawText(i, size) = SubSeq(Lines(size), a + 1, e)  BY <1>3 DEF RawText
    <2>2. Lines(i) = Lines(i - 1) \o Block(i) /\ Lines(i - 1) \in Seq(Nat)
      BY <1>1, LinesStep
    <2>3. Block(i) \in Seq(Nat) /\ Len(Block(i)) \in Nat  BY BlockIs, LenProperties
    <2>4. /\ e = a + Len(Block(i))
          /\ \A k \in 1..(a + Len(Block(i))) :
                Lines(i)[k] = IF k <= a THEN Lines(i - 1)[k] ELSE Block(i)[k - a]
      BY <2>2, <2>3, ConcatProperties
    <2>5. e =< z /\ \A k \in 1..e : Lines(size)[k] = Lines(i)[k]
      <3>1. size \in i..Len(file)  BY <1>1, <1>3
      <3> QED  BY <1>1, <3>1, LinesBegin
    <2> HIDE DEF a, e, z
    <2> DEFINE c == Len(Block(i))
    <2>6. c \in Nat /\ e = a + c  BY <2>3, <2>4
    <2>7. \A k \in 1..c : Lines(size)[a + k] = Block(i)[k]
      <3> SUFFICES ASSUME NEW k \in 1..c PROVE Lines(size)[a + k] = Block(i)[k]  OBVIOUS
      <3>1. a + k \in 1..(a + c) /\ a + k \in 1..e /\ ~(a + k <= a) /\ a + k - a = k
        BY <1>2, <2>6
      <3>2. Lines(size)[a + k] = Lines(i)[a + k]  BY <2>5, <3>1
      <3>3. PICK j : j = a + k  OBVIOUS
      <3>4. j \in 1..(a + Len(Block(i))) /\ ~(j <= a)  BY <3>1, <3>3 DEF c
      <3>5. Lines(i)[j] = Block(i)[j - a]  BY <2>4, <3>4
      <3>6. j - a = k  BY <1>2, <2>6, <3>3
      <3> QED  BY <3>2, <3>3, <3>5, <3>6
    <2> HIDE DEF c
    <2> DEFINE t == SubSeq(Lines(size), a + 1, e)
    <2>8. t \in Seq(Nat) /\ Len(t) = c /\ \A k \in 1..c : t[k] = Lines(size)[a + k]
      <3>1. PICK m, l : m = a + 1 /\ l = Lines(size)  OBVIOUS
      <3>2. m \in Int /\ e \in Int /\ \A k \in m..e : l[k] \in Nat
        <4>1. \A k \in m..e : k \in 1..Len(l)  BY <1>2, <2>5, <3>1 DEF z
        <4>2. \A k \in 1..Len(l) : l[k] \in Nat  BY <1>2, <3>1, ElementOfSeq
        <4> QED  BY <1>2, <3>1, <4>1, <4>2
      <3>3. /\ SubSeq(l, m, e) \in Seq(Nat)
            /\ Len(SubSeq(l, m, e)) = IF m <= e THEN e - m + 1 ELSE 0
            /\ \A k \in 1..(e - m + 1) : SubSeq(l, m, e)[k] = l[m + k - 1]
        BY <3>2, SubSeqProperties
      <3>4. e - m + 1 = c /\ (IF m <= e THEN e - m + 1 ELSE 0) = c
        BY <1>2, <2>6, <3>1
      <3>5. \A k \in 1..c : m + k - 1 = a + k  BY <1>2, <2>6, <3>1
      <3> QED  BY <3>1, <3>3, <3>4, <3>5
    <2> HIDE DEF t
    <2>9. t = Block(i)
      <3>1. Len(t) = Len(Block(i))  BY <2>8 DEF c
      <3>2. \A k \in 1..Len(t) : t[k] = Block(i)[k]  BY <2>7, <2>8
      <3> QED  BY <2>3, <2>8, <3>1, <3>2, SeqEqual
    <2> QED  BY <1>3, <2>1, <2>9 DEF t
  <1>4. CASE ~(i =< size)
    <2>1. RawText(i, size) = SubSeq(Lines(size), a + 1, z)  BY <1>4 DEF RawText
    <2>2. z =< a
      <3>1. i - 1 \in size..Len(file)  BY <1>1, <1>4
      <3> QED  BY <1>1, <3>1, LinesBegin
    <2> HIDE DEF a, z
    <2>3. a + 1 \in Int /\ z \in Int /\ z < a + 1  BY <1>2, <2>2
    <2>4. SubSeq(Lines(size), a + 1, z) = <<>>  BY <2>3, SubSeqEmpty
    <2> QED  BY <1>4, <2>1, <2>4
  <1> QED  BY <1>3, <1>4
-----------------------------------------------------------------------------
(* The reader's invariant.                                                  *)

Good(n) == {i \in 1..n : Verdict(i)}
Valid(n) == Only(DataRows(n), Good(n))
Marks(n) == [k \in DOMAIN DataRows(n) |-> Verdict(DataRows(n)[k])]

\* How many of N valid rows are sent, counting from the first of the window.
FirstLine(w) == IF w.start > 0 THEN w.start ELSE 1
LastLine(w, N) == IF w.end > 0 /\ w.end < N THEN w.end ELSE N
LastSent(w, N) == IF w.first > 0 /\ FirstLine(w) + w.first - 1 < LastLine(w, N)
              THEN FirstLine(w) + w.first - 1 ELSE LastLine(w, N)
Amount(w, N) == IF LastSent(w, N) < FirstLine(w) THEN 0 ELSE LastSent(w, N) - FirstLine(w) + 1

\* Row i of the file, sent as valid row n.
AsSent(size, n, i) == [line |-> n, row |-> i, text |-> IF i =< size THEN Block(i) ELSE <<>>]

SentRow == [line : Nat, row : Nat, text : Seq(Nat)]
Window == [start : Nat, end : Nat, first : Nat]
JobState == [at : {"new", "reading", "done"}, pos : Nat, size : Nat, limit : Int, window : Window,
             marks : Seq(BOOLEAN), out : Seq(SentRow), end : Nat, alone : BOOLEAN]

ReaderTypeOK ==
    /\ file \in Seq(Rows) /\ hasHeader \in BOOLEAN
    /\ headed \in BOOLEAN /\ expected \in Int
    /\ snap \in [total : Nat, data : Nat, valid : Nat, completed : BOOLEAN]
    /\ job \in [Jobs -> JobState]

\* A job has taken rows of those there were, and its lines are of those there are.
WithinFile(s) == s.pos =< s.end /\ s.end =< Len(file) /\ s.size =< Len(file)

Judged(s) == s.alone => s.marks = Marks(s.pos)

\* The rows sent are those of the window among the valid ones taken, and, when the
\* generator broke off, among all there were.
WindowFills(s) ==
    LET valid == Valid(s.pos) IN
    s.alone =>
        /\ Len(s.out) = Amount(s.window, Len(valid))
        /\ \A k \in 1..Len(s.out) :
              LET n == FirstLine(s.window) + k - 1
              IN n \in 1..Len(valid) /\ s.out[k] = AsSent(s.size, n, valid[n])
        /\ s.at = "done" => Len(s.out) = Amount(s.window, Len(Valid(s.end)))

\* While a job reads undisturbed, no other does and the shared fields are its own.
Undisturbed(j) ==
    LET s == job[j] IN
    s.alone /\ Reading(j) =>
        /\ \A k \in Jobs : Reading(k) => k = j
        /\ headed = (hasHeader /\ s.pos > 0)
        /\ expected = IF s.pos = 0 THEN Unset ELSE file[1].width

PreviewStops ==
    LET s == job["preview"] IN
    Len(s.marks) =< s.limit /\ (Reading("preview") => Len(s.marks) < s.limit)

ScanCounts ==
    snap.completed =>
        LET s == job["scan"] IN
        /\ s.at = "done" /\ snap.total = s.pos /\ s.pos = s.end
        /\ snap.data = Len(s.marks) /\ snap.valid = ValidCount(s.marks)

ReaderInv ==
    /\ ReaderTypeOK
    /\ \A j \in Jobs : WithinFile(job[j]) /\ Judged(job[j]) /\ Undisturbed(j)
    /\ WindowFills(job["rows"]) /\ PreviewStops /\ ScanCounts

-----------------------------------------------------------------------------
(* One row more.                                                            *)

\* Row n + 1 is the header or the next data row.
LEMMA DataStep ==
    ASSUME NEW n \in Nat
    PROVE  /\ DataRows(n) \in Seq(1..n) /\ DataRows(0) = <<>>
           /\ hasHeader /\ n = 0 => DataRows(n + 1) = DataRows(n)
           /\ ~(hasHeader /\ n = 0) => DataRows(n + 1) = Append(DataRows(n), n + 1)
  <1> DEFINE l(m) == IF hasHeader /\ m > 0 THEN m - 1 ELSE m
  <1>1. ASSUME NEW m \in Nat
        PROVE  /\ DataRows(m) \in Seq(1..m) /\ Len(DataRows(m)) = l(m) /\ l(m) \in Nat
               /\ \A k \in 1..l(m) : DataRows(m)[k] = IF hasHeader THEN k + 1 ELSE k
    <2>1. l(m) \in Nat /\ \A k \in 1..l(m) : (IF hasHeader THEN k + 1 ELSE k) \in 1..m
      OBVIOUS
    <2>2. DataRows(m) = [k \in 1..l(m) |-> IF hasHeader THEN k + 1 ELSE k]  BY DEF DataRows
    <2>3. DataRows(m) \in [1..l(m) -> 1..m]  BY <2>1, <2>2
    <2>4. DataRows(m) \in Seq(1..m) /\ Len(DataRows(m)) = l(m)  BY <2>1, <2>3
    <2> QED  BY <2>1, <2>2, <2>4
  <1>2. DataRows(0) = <<>>
    <2>1. Len(DataRows(0)) = 0 /\ DataRows(0) \in Seq(1..0)  BY <1>1
    <2> QED  BY <2>1, EmptySeq
  <1>3. CASE hasHeader /\ n = 0
    <2>1. Len(DataRows(1)) = 0 /\ DataRows(1) \in Seq(1..1)  BY <1>1, <1>3
    <2>2. DataRows(1) = <<>>  BY <2>1, EmptySeq
    <2> QED  BY <1>1, <1>2, <1>3, <2>2
  <1>4. CASE ~(hasHeader /\ n = 0)
    <2> DEFINE t == Append(DataRows(n), n + 1)
    <2>1. /\ DataRows(n) \in Seq(Nat) /\ DataRows(n + 1) \in Seq(Nat)
          /\ Len(DataRows(n)) = l(n) /\ Len(DataRows(n + 1)) = l(n + 1)
          /\ l(n) \in Nat /\ l(n + 1) = l(n) + 1 /\ l(n + 1) = IF hasHeader THEN n ELSE n + 1
      <3>1. \A s \in Seq(1..n) : s \in Seq(Nat)  OBVIOUS
      <3>2. \A s \in Seq(1..(n + 1)) : s \in Seq(Nat)  OBVIOUS
      <3>3. n + 1 \in Nat  OBVIOUS
      <3>4. l(n + 1) = l(n) + 1 /\ l(n + 1) = IF hasHeader THEN n ELSE n + 1  BY <1>4
      <3> HIDE DEF l
      <3> QED  BY <1>1, <3>1, <3>2, <3>3, <3>4
    <2>2. /\ t \in Seq(Nat) /\ Len(t) = l(n) + 1 /\ t[l(n) + 1] = n + 1
          /\ \A k \in 1..l(n) : t[k] = DataRows(n)[k]
      BY <2>1, AppendProperties
    <2>3. /\ \A k \in 1..l(n) : DataRows(n)[k] = IF hasHeader THEN k + 1 ELSE k
          /\ \A k \in 1..l(n + 1) : DataRows(n + 1)[k] = IF hasHeader THEN k + 1 ELSE k
      <3>1. n + 1 \in Nat  OBVIOUS
      <3> HIDE DEF l
      <3> QED  BY <1>1, <3>1
    <2> HIDE DEF t
    <2> DEFINE a == l(n)
               b == l(n + 1)
    <2>4. a \in Nat /\ b = a + 1 /\ b = IF hasHeader THEN n ELSE n + 1  BY <2>1
    <2>5. \A k \in 1..b : t[k] = DataRows(n + 1)[k]
      <3>1. /\ t[a + 1] = n + 1 /\ \A k \in 1..a : t[k] = DataRows(n)[k]
            /\ \A k \in 1..a : DataRows(n)[k] = IF hasHeader THEN k + 1 ELSE k
            /\ \A k \in 1..b : DataRows(n + 1)[k] = IF hasHeader THEN k + 1 ELSE k
        BY <2>2, <2>3
      <3> HIDE DEF a, b
      <3> SUFFICES ASSUME NEW k \in 1..b PROVE t[k] = DataRows(n + 1)[k]  OBVIOUS
      <3>2. CASE k \in 1..a  BY <3>1, <3>2
      <3>3. CASE k = a + 1
        <4>1. n + 1 = IF hasHeader THEN k + 1 ELSE k  BY <2>4, <3>3
        <4> QED  BY <3>1, <3>3, <4>1
      <3> QED  BY <2>4, <3>2, <3>3
    <2>6. Len(t) = b /\ Len(DataRows(n + 1)) = b  BY <2>1, <2>2
    <2> HIDE DEF a, b
    <2>7. t = DataRows(n + 1)  BY <2>1, <2>2, <2>5, <2>6, SeqEqual
    <2> QED  BY <1>1, <1>2, <1>4, <2>7 DEF t
  <1> QED  BY <1>1, <1>2, <1>3, <1>4

\* A valid row more, or none.
LEMMA ValidStep ==
    ASSUME NEW n \in Nat
    PROVE  /\ Valid(n) \in Seq(1..n) /\ Valid(0) = <<>>
           /\ (hasHeader /\ n = 0) \/ ~Verdict(n + 1) => Valid(n + 1) = Valid(n)
           /\ ~(hasHeader /\ n = 0) /\ Verdict(n + 1) => Valid(n + 1) = Append(Valid(n), n + 1)
  <1>1. /\ DataRows(n) \in Seq(1..n) /\ DataRows(0) = <<>>
        /\ hasHeader /\ n = 0 => DataRows(n + 1) = DataRows(n)
        /\ ~(hasHeader /\ n = 0) => DataRows(n + 1) = Append(DataRows(n), n + 1)
    BY DataStep
  <1>2. DataRows(n) \in Seq(1..(n + 1)) /\ n + 1 \in 1..(n + 1)
    <2>1. \A s \in Seq(1..n) : s \in Seq(1..(n + 1))  OBVIOUS
    <2> QED  BY <1>1, <2>1
  <1>3. Valid(n) \in Seq(1..n)
    <2>1. CASE n = 0
      <3>1. Valid(n) = <<>>  BY <1>1, <2>1, OnlyEmpty DEF Valid
      <3> QED  BY <3>1, EmptySeq
    <2>2. CASE n # 0
      <3>1. n \in 1..n  BY <2>2
      <3> QED  BY <1>1, <3>1, OnlyAppend DEF Valid
    <2> QED  BY <2>1, <2>2
  <1>4. Valid(0) = <<>>  BY <1>1, OnlyEmpty DEF Valid
  <1>5. Only(DataRows(n), Good(n + 1)) = Valid(n)
    <2>1. ASSUME NEW k \in 1..Len(DataRows(n))
          PROVE  DataRows(n)[k] \in Good(n + 1) <=> DataRows(n)[k] \in Good(n)
      <3>1. DataRows(n)[k] \in 1..n  BY <1>1, ElementOfSeq
      <3>2. \A i \in 1..n : i \in 1..(n + 1)  OBVIOUS
      <3> QED  BY <3>1, <3>2 DEF Good
    <2> QED  BY <1>1, <2>1, OnlySame, Zenon DEF Valid
  <1>6. CASE hasHeader /\ n = 0
    <2>1. Valid(n + 1) = Valid(n)  BY <1>1, <1>5, <1>6 DEF Valid
    <2> QED  BY <1>3, <1>4, <1>6, <2>1
  <1>7. CASE ~(hasHeader /\ n = 0)
    <2>1. Valid(n + 1) = IF n + 1 \in Good(n + 1) THEN Append(Valid(n), n + 1) ELSE Valid(n)
      <3>1. Valid(n + 1) = Only(Append(DataRows(n), n + 1), Good(n + 1))
        BY <1>1, <1>7 DEF Valid
      <3>2. Only(Append(DataRows(n), n + 1), Good(n + 1))
              = IF n + 1 \in Good(n + 1)
                THEN Append(Only(DataRows(n), Good(n + 1)), n + 1)
                ELSE Only(DataRows(n), Good(n + 1))
        <4> DEFINE s == DataRows(n)
                   S == 1..(n + 1)
                   x == n + 1
                   K == Good(n + 1)
        <4>1. s \in Seq(S) /\ x \in S  BY <1>2
        <4> HIDE DEF s, S, x, K
        <4>2. Only(Append(s, x), K) = IF x \in K THEN Append(Only(s, K), x) ELSE Only(s, K)
          BY <4>1, OnlyAppend
        <4> QED  BY <4>2 DEF s, x, K
      <3> QED  BY <1>5, <3>1, <3>2
    <2>2. n + 1 \in Good(n + 1) <=> Verdict(n + 1)  BY <1>2 DEF Good
    <2> QED  BY <1>3, <1>4, <1>7, <2>1, <2>2
  <1> QED  BY <1>6, <1>7

\* A mark more, and as many true ones as valid rows.
LEMMA MarksStep ==
    ASSUME NEW n \in Nat
    PROVE  /\ Marks(n) \in Seq(BOOLEAN) /\ Marks(0) = <<>> /\ Len(Marks(n)) = Len(DataRows(n))
           /\ hasHeader /\ n = 0 => Marks(n + 1) = Marks(n)
           /\ ~(hasHeader /\ n = 0) => Marks(n + 1) = Append(Marks(n), Verdict(n + 1))
  <1>1. /\ DataRows(n) \in Seq(1..n) /\ DataRows(0) = <<>>
        /\ hasHeader /\ n = 0 => DataRows(n + 1) = DataRows(n)
        /\ ~(hasHeader /\ n = 0) => DataRows(n + 1) = Append(DataRows(n), n + 1)
    BY DataStep
  <1>2. ASSUME NEW S, NEW s \in Seq(S)
        PROVE  /\ [k \in DOMAIN s |-> Verdict(s[k])] \in Seq(BOOLEAN)
               /\ Len([k \in DOMAIN s |-> Verdict(s[k])]) = Len(s)
    <2>1. DOMAIN s = 1..Len(s) /\ Len(s) \in Nat  BY LenProperties
    <2>2. \A k \in 1..Len(s) : Verdict(s[k]) \in BOOLEAN  BY DEF Verdict
    <2>3. [k \in DOMAIN s |-> Verdict(s[k])] \in [1..Len(s) -> BOOLEAN]  BY <2>1, <2>2, Zenon
    <2> QED  BY <2>1, <2>3
  <1>3. Marks(n) \in Seq(BOOLEAN) /\ Len(Marks(n)) = Len(DataRows(n))
    BY <1>1, <1>2, Zenon DEF Marks
  <1>4. Marks(0) = <<>>
    <2>1. Marks(0) \in Seq(BOOLEAN) /\ Len(Marks(0)) = 0
      <3>1. <<>> \in Seq({}) /\ Len(<<>>) = 0  BY EmptySeq
      <3>2. /\ [k \in DOMAIN <<>> |-> Verdict(<<>>[k])] \in Seq(BOOLEAN)
            /\ Len([k \in DOMAIN <<>> |-> Verdict(<<>>[k])]) = 0
        BY <1>2, <3>1, Zenon
      <3>3. Marks(0) = [k \in DOMAIN <<>> |-> Verdict(<<>>[k])]  BY <1>1, Zenon DEF Marks
      <3> QED  BY <3>2, <3>3
    <2> QED  BY <2>1, EmptySeq
  <1>5. CASE hasHeader /\ n = 0
    <2>1. Marks(n + 1) = Marks(n)  BY <1>1, <1>5, Zenon DEF Marks
    <2> QED  BY <1>3, <1>4, <1>5, <2>1
  <1>6. CASE ~(hasHeader /\ n = 0)
    <2> DEFINE s == DataRows(n)
               t == Append(s, n + 1)
               v == Verdict(n + 1)
               m == Append(Marks(n), v)
    <2>1. s \in Seq(Nat) /\ n + 1 \in Nat
      <3>1. \A r \in Seq(1..n) : r \in Seq(Nat)  OBVIOUS
      <3> QED  BY <1>1, <3>1
    <2>2. v \in BOOLEAN  BY DEF Verdict
    <2>3. /\ t \in Seq(Nat) /\ Len(t) = Len(s) + 1 /\ t[Len(s) + 1] = n + 1
          /\ Len(s) \in Nat /\ \A k \in 1..Len(s) : t[k] = s[k]
      BY <2>1, AppendProperties, LenProperties
    <2> HIDE DEF v
    <2>4. /\ m \in Seq(BOOLEAN) /\ Len(m) = Len(s) + 1 /\ m[Len(s) + 1] = v
          /\ \A k \in 1..Len(s) : m[k] = Marks(n)[k]
      BY <1>3, <2>2, AppendProperties
    <2>5. Marks(n + 1) = [k \in DOMAIN t |-> Verdict(t[k])]  BY <1>1, <1>6, Zenon DEF Marks
    <2> HIDE DEF t, s, m
    <2>6. Marks(n + 1) \in Seq(BOOLEAN) /\ Len(Marks(n + 1)) = Len(t)
      BY <1>2, <2>3, <2>5, Zenon
    <2>7. DOMAIN t = 1..(Len(s) + 1) /\ DOMAIN s = 1..Len(s)
      <3>1. DOMAIN t = 1..Len(t)  BY <2>3, LenProperties
      <3>2. DOMAIN s = 1..Len(s)  BY <2>1, LenProperties
      <3> QED  BY <2>3, <3>1, <3>2
    <2>8. \A k \in 1..Len(m) : m[k] = Marks(n + 1)[k]
      <3> SUFFICES ASSUME NEW k \in 1..(Len(s) + 1) PROVE m[k] = Marks(n + 1)[k]
        BY <2>4
      <3>1. Marks(n + 1)[k] = Verdict(t[k])  BY <2>5, <2>7, Zenon
      <3>2. CASE k \in 1..Len(s)
        <4>1. Marks(n)[k] = Verdict(s[k])  BY <2>7, <3>2, Zenon DEF Marks, s
        <4>2. m[k] = Marks(n)[k] /\ t[k] = s[k]  BY <2>3, <2>4, <3>2
        <4> QED  BY <3>1, <4>1, <4>2, Zenon
      <3>3. CASE k = Len(s) + 1
        <4>1. m[k] = v /\ t[k] = n + 1  BY <2>3, <2>4, <3>3
        <4> QED  BY <3>1, <4>1, Zenon DEF v
      <3>4. k \in 1..Len(s) \/ k = Len(s) + 1  BY <2>3
      <3> QED  BY <3>2, <3>3, <3>4
    <2>9. Len(m) = Len(Marks(n + 1))  BY <2>3, <2>4, <2>6
    <2>10. m = Marks(n + 1)  BY <2>4, <2>6, <2>8, <2>9, SeqEqual, Zenon
    <2> QED  BY <1>3, <1>4, <1>6, <2>10, Zenon DEF m, v
  <1> QED  BY <1>5, <1>6, Zenon

\* As many rows are marked valid as there are valid rows.
LEMMA CountIs ==
    ASSUME NEW n \in Nat
    PROVE  ValidCount(Marks(n)) = Len(Valid(n))
  <1> DEFINE T == {k \in 0..n : ValidCount(Marks(k)) = Len(Valid(k))}
  <1>1. 0 \in T
    <2>1. Marks(0) = <<>> /\ Valid(0) = <<>>  BY MarksStep, ValidStep
    <2>2. ValidCount(<<>>) = 0  BY OnlyEmpty, EmptySeq DEF ValidCount
    <2>3. Len(<<>>) = 0  BY EmptySeq
    <2> QED  BY <2>1, <2>2, <2>3
  <1>2. ASSUME NEW k \in 1..n, k - 1 \in T PROVE k \in T
    <2>1. PICK p : p = k - 1  OBVIOUS
    <2>2. p \in Nat /\ p + 1 = k /\ k \in 0..n  BY <2>1
    <2>3. ValidCount(Marks(p)) = Len(Valid(p))  BY <1>2, <2>1
    <2>4. CASE hasHeader /\ p = 0
      <3>1. Marks(p + 1) = Marks(p) /\ Valid(p + 1) = Valid(p)
        BY <2>2, <2>4, MarksStep, ValidStep
      <3> QED  BY <2>2, <2>3, <3>1
    <2>5. CASE ~(hasHeader /\ p = 0)
      <3>1. Marks(p) \in Seq(BOOLEAN) /\ Marks(p + 1) = Append(Marks(p), Verdict(p + 1))
        BY <2>2, <2>5, MarksStep, Zenon
      <3>2. Verdict(p + 1) \in BOOLEAN  BY DEF Verdict
      <3>3. /\ Only(Marks(p), {TRUE}) \in Seq(BOOLEAN)
            /\ Only(Marks(p + 1), {TRUE})
                 = IF Verdict(p + 1) \in {TRUE}
                   THEN Append(Only(Marks(p), {TRUE}), Verdict(p + 1))
                   ELSE Only(Marks(p), {TRUE})
        <4> DEFINE v == Verdict(p + 1)
        <4>1. v \in BOOLEAN /\ Marks(p + 1) = Append(Marks(p), v)  BY <3>1, <3>2
        <4> HIDE DEF v
        <4>2. /\ Only(Marks(p), {TRUE}) \in Seq(BOOLEAN)
              /\ Only(Append(Marks(p), v), {TRUE})
                   = IF v \in {TRUE} THEN Append(Only(Marks(p), {TRUE}), v)
                     ELSE Only(Marks(p), {TRUE})
          <5> DEFINE s == Marks(p)
                     K == {TRUE}
                     B == BOOLEAN
          <5>1. s \in Seq(B) /\ v \in B  BY <3>1, <4>1
          <5> HIDE DEF s, K, B
          <5>2. /\ Only(s, K) \in Seq(B)
                /\ Only(Append(s, v), K) = IF v \in K THEN Append(Only(s, K), v) ELSE Only(s, K)
            BY <5>1, OnlyAppend
          <5> QED  BY <5>2 DEF s, K, B
        <4> QED  BY <4>1, <4>2, Zenon DEF v
      <3>4. Valid(p) \in Seq(1..p)  BY <2>2, ValidStep
      <3>5. CASE Verdict(p + 1)
        <4>1. Valid(p + 1) = Append(Valid(p), p + 1)  BY <2>2, <2>5, <3>5, ValidStep
        <4>2. Only(Marks(p + 1), {TRUE}) = Append(Only(Marks(p), {TRUE}), TRUE)
          <5>1. Verdict(p + 1) = TRUE  BY <3>5, Zenon
          <5>2. Verdict(p + 1) \in {TRUE}  BY <5>1, Zenon
          <5> QED  BY <3>3, <5>1, <5>2, Zenon
        <4>3. Len(Append(Only(Marks(p), {TRUE}), TRUE)) = Len(Only(Marks(p), {TRUE})) + 1
          <5>1. TRUE \in BOOLEAN  OBVIOUS
          <5> QED  BY <3>3, <5>1, AppendProperties, Zenon
        <4>4. Len(Append(Valid(p), p + 1)) = Len(Valid(p)) + 1
          <5>1. p + 1 \in Nat /\ Valid(p) \in Seq(Nat)
            <6>1. \A r \in Seq(1..p) : r \in Seq(Nat)  BY <2>2
            <6> QED  BY <2>2, <3>4, <6>1
          <5> QED  BY <5>1, AppendProperties
        <4>5. ValidCount(Marks(k)) = Len(Valid(k))
          BY <2>2, <2>3, <4>1, <4>2, <4>3, <4>4 DEF ValidCount
        <4> QED  BY <2>2, <4>5
      <3>6. CASE ~Verdict(p + 1)
        <4>1. Valid(p + 1) = Valid(p)  BY <2>2, <3>6, ValidStep
        <4>2. Only(Marks(p + 1), {TRUE}) = Only(Marks(p), {TRUE})
          <5>1. ~(Verdict(p + 1) \in {TRUE})  BY <3>6, Zenon
          <5> QED  BY <3>3, <5>1, Zenon
        <4>3. ValidCount(Marks(k)) = Len(Valid(k))
          BY <2>2, <2>3, <4>1, <4>2 DEF ValidCount
        <4> QED  BY <2>2, <4>3
      <3> QED  BY <3>5, <3>6
    <2> QED  BY <2>4, <2>5
  <1> HIDE DEF T
  <1>3. n \in T  BY <1>1, <1>2, UpTo
  <1> QED  BY <1>3 DEF T

\* The valid rows of fewer rows are the first of them.
LEMMA ValidBegins ==
    ASSUME NEW m \in Nat, NEW n \in Nat, m =< n
    PROVE  /\ Len(Valid(m)) \in Nat /\ Len(Valid(n)) \in Nat /\ Len(Valid(m)) =< Len(Valid(n))
           /\ \A i \in 1..Len(Valid(m)) : Valid(n)[i] = Valid(m)[i] /\ Valid(m)[i] \in 1..m
  <1> DEFINE Begins(k) == /\ Len(Valid(m)) =< Len(Valid(k))
                          /\ \A i \in 1..Len(Valid(m)) : Valid(k)[i] = Valid(m)[i]
             T == {d \in 0..(n - m) : Begins(m + d)}
  <1>1. \A k \in Nat : Len(Valid(k)) \in Nat /\ \A i \in 1..Len(Valid(k)) : Valid(k)[i] \in 1..k
    <2> SUFFICES ASSUME NEW k \in Nat
                 PROVE  Len(Valid(k)) \in Nat /\ \A i \in 1..Len(Valid(k)) : Valid(k)[i] \in 1..k
      OBVIOUS
    <2>1. Valid(k) \in Seq(1..k)  BY ValidStep
    <2> QED  BY <2>1, LenProperties, ElementOfSeq
  <1>2. 0 \in T
    <2>1. m + 0 = m /\ 0 \in 0..(n - m)  OBVIOUS
    <2>2. Begins(m)  BY <1>1
    <2> QED  BY <2>1, <2>2
  <1>3. ASSUME NEW d \in 1..(n - m), d - 1 \in T PROVE d \in T
    <2>1. PICK p : p = m + (d - 1)  OBVIOUS
    <2>2. p \in Nat /\ p + 1 = m + d /\ d \in 0..(n - m)  BY <2>1
    <2>3. Begins(p)  BY <1>3, <2>1
    <2>4. CASE Valid(p + 1) = Valid(p)
      <3>1. Begins(p + 1)  BY <2>3, <2>4
      <3> QED  BY <2>2, <3>1
    <2>5. CASE Valid(p + 1) = Append(Valid(p), p + 1)
      <3>1. Valid(p) \in Seq(Nat) /\ p + 1 \in Nat
        <4>1. \A r \in Seq(1..p) : r \in Seq(Nat)  BY <2>2
        <4> QED  BY <2>2, <4>1, ValidStep
      <3>2. /\ Len(Valid(p + 1)) = Len(Valid(p)) + 1
            /\ \A i \in 1..Len(Valid(p)) : Valid(p + 1)[i] = Valid(p)[i]
        BY <2>5, <3>1, AppendProperties
      <3>3. Len(Valid(p)) \in Nat /\ Len(Valid(m)) \in Nat  BY <1>1, <2>2
      <3>4. Begins(p + 1)
        <4> DEFINE a == Len(Valid(m))
                   b == Len(Valid(p))
        <4>1. a \in Nat /\ b \in Nat /\ a =< b /\ a =< b + 1  BY <2>3, <3>3
        <4>2. \A i \in 1..a : Valid(p)[i] = Valid(m)[i]  BY <2>3
        <4>3. \A i \in 1..b : Valid(p + 1)[i] = Valid(p)[i]  BY <3>2
        <4>4. Len(Valid(p + 1)) = b + 1  BY <3>2
        <4> HIDE DEF a, b
        <4>5. \A i \in 1..a : i \in 1..b  BY <4>1
        <4>6. \A i \in 1..a : Valid(p + 1)[i] = Valid(m)[i]  BY <4>2, <4>3, <4>5
        <4> QED  BY <4>1, <4>4, <4>6 DEF a
      <3> QED  BY <2>2, <3>4
    <2> QED
      <3>1. Valid(p + 1) = Valid(p) \/ Valid(p + 1) = Append(Valid(p), p + 1)
        BY <2>2, ValidStep
      <3> QED  BY <2>4, <2>5, <3>1
  <1> HIDE DEF Begins
  <1>4. n - m \in Nat /\ m + (n - m) = n  OBVIOUS
  <1>5. n - m \in T
    <2> HIDE DEF T
    <2> QED  BY <1>2, <1>3, <1>4, UpTo
  <1>6. Begins(n)  BY <1>4, <1>5
  <1> QED  BY <1>1, <1>6 DEF Begins

-----------------------------------------------------------------------------
(* The window of lines to be sent.                                          *)

\* More valid rows, not fewer sent.
LEMMA AmountGrows ==
    ASSUME NEW w \in Window, NEW m \in Nat, NEW n \in Nat, m =< n
    PROVE  Amount(w, m) \in Nat /\ Amount(w, m) =< Amount(w, n) /\ Amount(w, 0) = 0
  <1>1. w.start \in Nat /\ w.end \in Nat /\ w.first \in Nat  BY DEF Window
  <1> QED  BY <1>1 DEF Amount, LastSent, LastLine, FirstLine

\* A line inside the window is the next one to be sent.
LEMMA AmountStep ==
    ASSUME NEW w \in Window, NEW n \in Nat, LineIsSelected(n + 1, w),
           ~(w.end > 0 /\ n + 1 > w.end), ~(w.first > 0 /\ Amount(w, n) >= w.first)
    PROVE  Amount(w, n + 1) = Amount(w, n) + 1 /\ FirstLine(w) + Amount(w, n) = n + 1
  <1>1. w.start \in Nat /\ w.end \in Nat /\ w.first \in Nat  BY DEF Window
  <1> QED  BY <1>1 DEF LineIsSelected, Amount, LastSent, LastLine, FirstLine

\* One before the window adds nothing.
LEMMA AmountSkips ==
    ASSUME NEW w \in Window, NEW n \in Nat, ~LineIsSelected(n + 1, w),
           ~(w.end > 0 /\ n + 1 > w.end)
    PROVE  Amount(w, n + 1) = Amount(w, n)
  <1>1. w.start \in Nat /\ w.end \in Nat /\ w.first \in Nat  BY DEF Window
  <1> QED  BY <1>1 DEF LineIsSelected, Amount, LastSent, LastLine, FirstLine

\* When the generator breaks off, no valid row to come would have been sent.
LEMMA AmountStops ==
    ASSUME NEW w \in Window, NEW n \in Nat, NEW N \in Nat, N >= n + 1,
           \/ w.end > 0 /\ n + 1 > w.end
           \/ LineIsSelected(n + 1, w) /\ w.first > 0 /\ Amount(w, n) >= w.first
    PROVE  Amount(w, N) = Amount(w, n)
  <1>1. w.start \in Nat /\ w.end \in Nat /\ w.first \in Nat  BY DEF Window
  <1> QED  BY <1>1 DEF LineIsSelected, Amount, LastSent, LastLine, FirstLine

-----------------------------------------------------------------------------
(* The steps of the reader.                                                 *)

\* A file that was appended to, at most, has the same valid rows up to where a job
\* has got.
LEMMA FileKept ==
    ASSUME hasHeader' = hasHeader, Len(file) \in Nat,
           \A i \in 1..Len(file) : file'[i] = file[i], NEW n \in 0..Len(file)
    PROVE  Valid(n)' = Valid(n) /\ Marks(n)' = Marks(n)
  <1>1. \A i \in 1..n : Verdict(i)' = Verdict(i)
    <2> SUFFICES ASSUME NEW i \in 1..n PROVE Verdict(i)' = Verdict(i)  OBVIOUS
    <2>1. 1 \in 1..Len(file) /\ i \in 1..Len(file)  OBVIOUS
    <2>2. file'[i] = file[i] /\ file'[1] = file[1]  BY <2>1
    <2> QED  BY <2>2, Zenon DEF Verdict
  <1>2. DataRows(n)' = DataRows(n)  BY DEF DataRows
  <1>3. Good(n)' = Good(n)  BY <1>1 DEF Good
  <1>4. Valid(n)' = Valid(n)  BY <1>2, <1>3 DEF Valid, Only
  <1>5. \A k \in DOMAIN DataRows(n) : DataRows(n)[k] \in 1..n
    <2>1. DataRows(n) \in Seq(1..n) /\ DOMAIN DataRows(n) = 1..Len(DataRows(n))
      BY DataStep, LenProperties
    <2> QED  BY <2>1, ElementOfSeq
  <1>6. Marks(n)' = Marks(n)  BY <1>1, <1>2, <1>5, Zenon DEF Marks
  <1> QED  BY <1>4, <1>6

\* What was done with the rows before stays right.
LEMMA StateKept ==
    ASSUME hasHeader' = hasHeader, Len(file) \in Nat, Len(file') \in Nat,
           Len(file) =< Len(file'), \A i \in 1..Len(file) : file'[i] = file[i],
           NEW s \in JobState, WithinFile(s), Judged(s), WindowFills(s)
    PROVE  WithinFile(s)' /\ Judged(s)' /\ WindowFills(s)'
  <1>1. /\ s.pos \in 0..Len(file) /\ s.end \in 0..Len(file) /\ s.pos \in Nat /\ s.end \in Nat
        /\ s.size \in Nat
    BY DEF WithinFile, JobState
  <1>2. WithinFile(s)'
    <2>1. s.pos =< s.end /\ s.end =< Len(file) /\ s.size =< Len(file)  BY DEF WithinFile
    <2>2. s.pos =< s.end /\ s.end =< Len(file') /\ s.size =< Len(file')  BY <1>1, <2>1
    <2> QED  BY <2>2 DEF WithinFile
  <1>3. /\ Valid(s.pos)' = Valid(s.pos) /\ Valid(s.end)' = Valid(s.end)
        /\ Marks(s.pos)' = Marks(s.pos)
    BY <1>1, FileKept
  <1>4. Judged(s)'  BY <1>3 DEF Judged
  <1>5. ASSUME NEW n \in 1..Len(Valid(s.pos))
        PROVE  AsSent(s.size, n, Valid(s.pos)[n])' = AsSent(s.size, n, Valid(s.pos)[n])
    <2>1. Valid(s.pos) \in Seq(1..s.pos)  BY <1>1, ValidStep
    <2>2. PICK i : i = Valid(s.pos)[n]  OBVIOUS
    <2>3. i \in 1..s.pos  BY <2>1, <2>2, ElementOfSeq
    <2>4. i \in 1..Len(file)  BY <1>1, <2>3
    <2>5. Block(i)' = Block(i)  BY <2>4 DEF Block
    <2> QED  BY <1>3, <2>2, <2>5 DEF AsSent
  <1>6. ASSUME s.alone PROVE WindowFills(s)'
    <2>1. /\ Len(s.out) = Amount(s.window, Len(Valid(s.pos)))
          /\ \A k \in 1..Len(s.out) :
                /\ FirstLine(s.window) + k - 1 \in 1..Len(Valid(s.pos))
                /\ s.out[k] = AsSent(s.size, FirstLine(s.window) + k - 1,
                                     Valid(s.pos)[FirstLine(s.window) + k - 1])
          /\ s.at = "done" => Len(s.out) = Amount(s.window, Len(Valid(s.end)))
      BY <1>6 DEF WindowFills
    <2>2. /\ Len(s.out) = Amount(s.window, Len(Valid(s.pos)'))
          /\ s.at = "done" => Len(s.out) = Amount(s.window, Len(Valid(s.end)'))
      BY <1>3, <2>1
    <2>3. ASSUME NEW k \in 1..Len(s.out)
          PROVE  /\ FirstLine(s.window) + k - 1 \in 1..Len(Valid(s.pos)')
                 /\ s.out[k] = AsSent(s.size, FirstLine(s.window) + k - 1,
                                      Valid(s.pos)[FirstLine(s.window) + k - 1])'
      <3>1. PICK n : n = FirstLine(s.window) + k - 1  OBVIOUS
      <3>2. n \in 1..Len(Valid(s.pos)) /\ s.out[k] = AsSent(s.size, n, Valid(s.pos)[n])
        BY <2>1, <3>1
      <3>3. AsSent(s.size, n, Valid(s.pos)[n])' = AsSent(s.size, n, Valid(s.pos)[n])
        BY <1>5, <3>2
      <3> QED  BY <1>3, <3>1, <3>2, <3>3
    <2> QED  BY <1>3, <2>2, <2>3 DEF WindowFills
  <1>7. WindowFills(s)'  BY <1>6 DEF WindowFills
  <1> QED  BY <1>2, <1>4, <1>7

\* A job that begins has done nothing wrong.
LEMMA NewIsRight ==
    ASSUME NEW s \in JobState, Len(file) \in Nat, s.pos = 0, s.end = 0, s.size =< Len(file),
           s.marks = <<>>, s.out = <<>>
    PROVE  WithinFile(s) /\ Judged(s) /\ WindowFills(s)
  <1>1. WithinFile(s)  BY DEF WithinFile
  <1>2. Marks(0) = <<>> /\ Valid(0) = <<>> /\ Len(Valid(0)) = 0
    BY MarksStep, ValidStep, EmptySeq
  <1>3. Judged(s)  BY <1>2 DEF Judged
  <1>4. s.window \in Window /\ Len(s.out) = 0  BY EmptySeq DEF JobState
  <1>5. Amount(s.window, 0) = 0  BY <1>4, AmountGrows
  <1>6. WindowFills(s)  BY <1>2, <1>4, <1>5 DEF WindowFills
  <1> QED  BY <1>1, <1>3, <1>6

\* A job that has not begun has taken nothing and sent nothing.
LEMMA NewJobTyped ==
    NewJob \in JobState /\ NewJob.pos = 0 /\ NewJob.end = 0 /\ NewJob.size = 0
    /\ NewJob.marks = <<>> /\ NewJob.out = <<>> /\ NewJob.at = "new" /\ NewJob.limit = 1
  <1>1. <<>> \in Seq(BOOLEAN) /\ <<>> \in Seq(SentRow)  BY EmptySeq
  <1>2. NoWindow \in Window  BY DEF NoWindow, Window
  <1> HIDE DEF NoWindow
  <1> QED  BY <1>1, <1>2 DEF NewJob, JobState

\* A new reader has no header, no column count, no totals and no job.
LEMMA ReaderStarts ==
    ASSUME Init
    PROVE  ReaderInv
  <1>1. file \in Seq(Rows) /\ hasHeader \in BOOLEAN /\ Len(file) \in Nat
    <2>1. file \in BoundedSeq(Rows, MaxRows) /\ hasHeader \in BOOLEAN  BY DEF Init
    <2>2. file \in Seq(Rows)
      <3>1. PICK n \in 0..MaxRows : file \in [1..n -> Rows]
        BY <2>1, Zenon DEF BoundedSeq, SeqOf
      <3>2. n \in Nat  BY FileAssumption, <3>1
      <3> QED  BY <3>1, <3>2
    <2> QED  BY <2>1, <2>2, LenProperties
  <1>2. /\ headed = FALSE /\ expected = Unset /\ snap = NoSnapshot
        /\ job = [j \in Jobs |-> NewJob]
    BY DEF Init
  <1>3. \A j \in Jobs : job[j] = NewJob  BY <1>2
  <1>4. ReaderTypeOK
    <2>1. job \in [Jobs -> JobState]  BY <1>2, NewJobTyped, Zenon
    <2>2. snap \in [total : Nat, data : Nat, valid : Nat, completed : BOOLEAN]
      BY <1>2 DEF NoSnapshot
    <2>3. headed \in BOOLEAN  BY <1>2, Zenon
    <2>4. expected \in Int  BY <1>2 DEF Unset
    <2> QED  BY <1>1, <2>1, <2>2, <2>3, <2>4 DEF ReaderTypeOK
  <1>5. WithinFile(NewJob) /\ Judged(NewJob) /\ WindowFills(NewJob)
    BY <1>1, NewJobTyped, NewIsRight
  <1>6. \A j \in Jobs : Undisturbed(j)  BY <1>3, NewJobTyped DEF Undisturbed, Reading
  <1>7. "rows" \in Jobs /\ "preview" \in Jobs  BY DEF Jobs
  <1>8. PreviewStops
    <2>1. Len(NewJob.marks) = 0  BY NewJobTyped, EmptySeq
    <2> QED  BY <1>3, <1>7, <2>1, NewJobTyped DEF PreviewStops, Reading
  <1>9. ScanCounts  BY <1>2 DEF ScanCounts, NoSnapshot
  <1>10. WindowFills(job["rows"])  BY <1>3, <1>5, <1>7
  <1>11. \A j \in Jobs : WithinFile(job[j]) /\ Judged(job[j])  BY <1>3, <1>5
  <1> QED  BY <1>4, <1>6, <1>8, <1>9, <1>10, <1>11 DEF ReaderInv

\* A job begins: the shared fields are reset, and every other job that was reading is
\* disturbed for good.
LEMMA StartKeeps ==
    ASSUME ReaderInv, NEW j \in Jobs, NEW limit \in Int,
           NEW w \in [start : Int, end : Int, first : Int], Start(j, limit, w)
    PROVE  ReaderInv'
  <1> DEFINE others == {k \in Jobs \ {j} : Reading(k)}
             new == [NewJob EXCEPT !.at = "reading", !.size = Len(file), !.limit = limit,
                                   !.window = w, !.alone = others = {}]
             cut(k) == [job[k] EXCEPT !.alone = FALSE]
  <1>1. /\ ReaderTypeOK /\ PreviewStops
        /\ \A k \in Jobs : WithinFile(job[k]) /\ Judged(job[k]) /\ Undisturbed(k)
        /\ WindowFills(job["rows"])
    BY DEF ReaderInv
  <1>2. file \in Seq(Rows) /\ Len(file) \in Nat /\ job \in [Jobs -> JobState]
    BY <1>1, LenProperties DEF ReaderTypeOK
  <1>3. /\ ~Reading(j) /\ limit > 0 /\ w.start >= 0 /\ w.end >= 0 /\ w.first >= 0
        /\ headed' = FALSE /\ expected' = Unset /\ snap' = NoSnapshot
        /\ job' = [k \in Jobs |->
                     CASE k = j -> new [] k \in others -> cut(k) [] OTHER -> NewJob]
        /\ file' = file /\ hasHeader' = hasHeader
    BY DEF Start, ValidateLineControls, ResetScanState
  <1>4. w \in Window
    <2>1. w.start >= 0 /\ w.end >= 0 /\ w.first >= 0  BY <1>3, Zenon
    <2>2. w.start \in Int /\ w.end \in Int /\ w.first \in Int  OBVIOUS
    <2>3. w.start \in Nat /\ w.end \in Nat /\ w.first \in Nat  BY <2>1, <2>2
    <2>4. w = [start |-> w.start, end |-> w.end, first |-> w.first]  OBVIOUS
    <2> QED  BY <2>3, <2>4 DEF Window
  <1>5. /\ new \in JobState /\ new.pos = 0 /\ new.end = 0 /\ new.size = Len(file)
        /\ new.marks = <<>> /\ new.out = <<>> /\ new.limit = limit /\ new.alone = (others = {})
    <2>1. (others = {}) \in BOOLEAN  OBVIOUS
    <2> HIDE DEF others
    <2>2. NewJob \in JobState /\ NewJob.pos = 0 /\ NewJob.end = 0
          /\ NewJob.marks = <<>> /\ NewJob.out = <<>>
      BY NewJobTyped
    <2> HIDE DEF NewJob
    <2> QED  BY <1>2, <1>4, <2>1, <2>2 DEF JobState
  <1> HIDE DEF new
  <1>6. \A k \in Jobs : \/ k = j /\ job'[k] = new
                        \/ k \in others /\ k # j /\ job'[k] = cut(k)
                        \/ k \notin others /\ k # j /\ job'[k] = NewJob
    <2> SUFFICES ASSUME NEW k \in Jobs
                 PROVE  \/ k = j /\ job'[k] = new
                        \/ k \in others /\ k # j /\ job'[k] = cut(k)
                        \/ k \notin others /\ k # j /\ job'[k] = NewJob
      OBVIOUS
    <2>1. j \notin others  OBVIOUS
    <2> DEFINE c == cut(k)
    <2>2. job'[k] = CASE k = j -> new [] k \in others -> c [] OTHER -> NewJob  BY <1>3, Zenon
    <2> HIDE DEF others, c, NewJob
    <2> QED  BY <2>1, <2>2 DEF c
  <1>7. ASSUME NEW k \in others
        PROVE  /\ cut(k) \in JobState /\ cut(k).alone = FALSE /\ cut(k).at = job[k].at
               /\ cut(k).pos = job[k].pos /\ cut(k).end = job[k].end
               /\ cut(k).size = job[k].size /\ cut(k).marks = job[k].marks
               /\ cut(k).limit = job[k].limit
    <2>1. job[k] \in JobState  BY <1>2, <1>7
    <2> QED  BY <2>1 DEF JobState
  <1>8. \A k \in Jobs : k \notin others /\ k # j => ~Reading(k)  OBVIOUS
  <1> HIDE DEF cut, others
  <1>9. ReaderTypeOK'
    <2>1. \A k \in Jobs : job'[k] \in JobState  BY <1>5, <1>6, <1>7, NewJobTyped
    <2> DEFINE c(k) == CASE k = j -> new [] k \in others -> cut(k) [] OTHER -> NewJob
    <2>2. job' = [k \in Jobs |-> c(k)]  BY <1>3, Zenon
    <2> HIDE DEF c
    <2>3. job' \in [Jobs -> JobState]  BY <2>1, <2>2
    <2>4. snap' \in [total : Nat, data : Nat, valid : Nat, completed : BOOLEAN]
      BY <1>3 DEF NoSnapshot
    <2>5. headed' \in BOOLEAN  BY <1>3, Zenon
    <2>6. expected' \in Int  BY <1>3 DEF Unset
    <2> QED  BY <1>1, <1>3, <2>3, <2>4, <2>5, <2>6 DEF ReaderTypeOK
  <1>10. ASSUME NEW k \in Jobs
         PROVE  WithinFile(job[k])' /\ Judged(job[k])' /\ (k = "rows" => WindowFills(job[k])')
    <2>1. PICK s : s = job'[k]  OBVIOUS
    <2>2. CASE job'[k] \in {new, NewJob}
      <3>1. s \in JobState /\ s.pos = 0 /\ s.end = 0 /\ s.size =< Len(file)
            /\ s.marks = <<>> /\ s.out = <<>>
        BY <1>2, <1>5, <2>1, <2>2, NewJobTyped
      <3>2. WithinFile(s) /\ Judged(s) /\ WindowFills(s)  BY <1>2, <3>1, NewIsRight
      <3>3. WithinFile(s)' /\ Judged(s)' /\ WindowFills(s)'
        BY <1>2, <1>3, <3>1, <3>2, StateKept
      <3> QED  BY <2>1, <3>3
    <2>3. CASE k \in others /\ job'[k] = cut(k)
      <3>1. s.alone = FALSE /\ s.pos = job[k].pos /\ s.end = job[k].end /\ s.size = job[k].size
        BY <1>7, <2>1, <2>3
      <3>2. WithinFile(s)'
        <4>1. WithinFile(job[k])  BY <1>1
        <4> QED  BY <1>3, <3>1, <4>1 DEF WithinFile
      <3>3. Judged(s)' /\ WindowFills(s)'  BY <3>1 DEF Judged, WindowFills
      <3> QED  BY <2>1, <3>2, <3>3
    <2> QED  BY <1>6, <2>2, <2>3
  <1>11. ASSUME NEW k \in Jobs PROVE Undisturbed(k)'
    <2>1. CASE k = j /\ job'[k] = new
      <3>1. ASSUME others = {} PROVE \A i \in Jobs : Reading(i)' => i = j
        <4> SUFFICES ASSUME NEW i \in Jobs, i # j PROVE ~Reading(i)'  OBVIOUS
        <4>1. job'[i] = NewJob  BY <1>6, <3>1
        <4> QED  BY <4>1, NewJobTyped DEF Reading
      <3>2. headed' = (hasHeader' /\ new.pos > 0)
        <4>1. ~(new.pos > 0)  BY <1>5
        <4> QED  BY <1>3, <4>1, Zenon
      <3> QED  BY <1>3, <1>5, <2>1, <3>1, <3>2 DEF Undisturbed
    <2>2. CASE k \in others /\ job'[k] = cut(k)  BY <1>7, <2>2 DEF Undisturbed
    <2>3. CASE job'[k] = NewJob  BY <2>3, NewJobTyped DEF Undisturbed, Reading
    <2> QED  BY <1>6, <2>1, <2>2, <2>3
  <1>12. PreviewStops'
    <2>1. "preview" \in Jobs /\ Len(<<>>) = 0  BY EmptySeq DEF Jobs
    <2>2. CASE job'["preview"] = new
      <3>1. Len(new.marks) = 0 /\ new.limit > 0 /\ new.limit \in Int  BY <1>3, <1>5, <2>1
      <3> QED  BY <2>2, <3>1 DEF PreviewStops
    <2>3. CASE job'["preview"] = NewJob
      <3>1. Len(NewJob.marks) = 0 /\ NewJob.limit = 1  BY <2>1, NewJobTyped
      <3> QED  BY <2>3, <3>1 DEF PreviewStops
    <2>4. CASE "preview" \in others /\ job'["preview"] = cut("preview")
      BY <1>1, <1>7, <2>4 DEF PreviewStops, Reading
    <2> QED  BY <1>6, <2>1, <2>2, <2>3, <2>4
  <1>13. ScanCounts'  BY <1>3 DEF ScanCounts, NoSnapshot
  <1>14. WindowFills(job["rows"])'
    <2>1. "rows" \in Jobs  BY DEF Jobs
    <2> QED  BY <1>10, <2>1
  <1> QED  BY <1>9, <1>10, <1>11, <1>12, <1>13, <1>14 DEF ReaderInv

\* A row is appended to the file by another program: what was read of it is as before.
LEMMA GrowKeeps ==
    ASSUME ReaderInv, NEW row \in Rows, Grow(row)
    PROVE  ReaderInv'
  <1>1. /\ ReaderTypeOK /\ PreviewStops /\ ScanCounts
        /\ \A k \in Jobs : WithinFile(job[k]) /\ Judged(job[k]) /\ Undisturbed(k)
        /\ WindowFills(job["rows"])
    BY DEF ReaderInv
  <1>2. file \in Seq(Rows) /\ Len(file) \in Nat /\ job \in [Jobs -> JobState]
    BY <1>1, LenProperties DEF ReaderTypeOK
  <1>3. /\ file' = Append(file, row) /\ hasHeader' = hasHeader /\ headed' = headed
        /\ expected' = expected /\ snap' = snap /\ job' = job
    BY DEF Grow
  <1>4. /\ file' \in Seq(Rows) /\ Len(file') \in Nat /\ Len(file) =< Len(file')
        /\ \A i \in 1..Len(file) : file'[i] = file[i]
    <2>1. /\ file' \in Seq(Rows) /\ Len(file') = Len(file) + 1
          /\ \A i \in 1..Len(file) : file'[i] = file[i]
      BY <1>2, <1>3, AppendProperties
    <2> QED  BY <1>2, <2>1
  <1>5. ReaderTypeOK'  BY <1>1, <1>3, <1>4 DEF ReaderTypeOK
  <1>6. ASSUME NEW k \in Jobs
        PROVE  WithinFile(job[k])' /\ Judged(job[k])' /\ (k = "rows" => WindowFills(job[k])')
    <2>1. PICK s : s = job[k]  OBVIOUS
    <2>2. s \in JobState /\ WithinFile(s) /\ Judged(s)  BY <1>1, <1>2, <2>1
    <2>3. CASE k = "rows"
      <3>1. WindowFills(s)  BY <1>1, <2>1, <2>3
      <3>2. WithinFile(s)' /\ Judged(s)' /\ WindowFills(s)'
        BY <1>2, <1>3, <1>4, <2>2, <3>1, StateKept
      <3> QED  BY <1>3, <2>1, <3>2
    <2>4. CASE k # "rows"
      <3>1. s.end \in Nat /\ s.size \in Nat /\ s.pos \in 0..Len(file)
        BY <1>2, <2>2 DEF WithinFile, JobState
      <3>2. Marks(s.pos)' = Marks(s.pos)  BY <1>2, <1>3, <1>4, <3>1, FileKept
      <3>3. Judged(s)'  BY <2>2, <3>2 DEF Judged
      <3>4. WithinFile(s)'
        <4>1. s.pos =< s.end /\ s.end =< Len(file) /\ s.size =< Len(file)
          BY <2>2 DEF WithinFile
        <4>2. s.end =< Len(file') /\ s.size =< Len(file')  BY <1>2, <1>4, <3>1, <4>1
        <4> QED  BY <4>1, <4>2 DEF WithinFile
      <3> QED  BY <1>3, <2>1, <2>4, <3>3, <3>4
    <2> QED  BY <2>3, <2>4
  <1>7. ASSUME NEW k \in Jobs PROVE Undisturbed(k)'
    <2>1. Undisturbed(k) /\ WithinFile(job[k]) /\ job[k] \in JobState  BY <1>1, <1>2
    <2>2. job[k].pos # 0 => file'[1] = file[1]
      <3>1. job[k].pos \in Nat /\ job[k].end \in Nat  BY <2>1 DEF JobState
      <3>2. job[k].pos # 0 => 1 \in 1..Len(file)  BY <1>2, <2>1, <3>1 DEF WithinFile
      <3> QED  BY <1>4, <3>2
    <2> QED  BY <1>3, <2>1, <2>2 DEF Undisturbed, Reading
  <1>8. PreviewStops' /\ ScanCounts'
    BY <1>1, <1>3 DEF PreviewStops, ScanCounts, Reading, ValidCount, Only
  <1>9. WindowFills(job["rows"])'
    <2>1. "rows" \in Jobs  BY DEF Jobs
    <2> QED  BY <1>6, <2>1
  <1> QED  BY <1>5, <1>6, <1>7, <1>8, <1>9 DEF ReaderInv

\* A count is a number.
LEMMA CountTyped ==
    ASSUME NEW m \in Seq(BOOLEAN)
    PROVE  ValidCount(m) \in Nat
  <1> DEFINE B == BOOLEAN
             K == {TRUE}
  <1>1. m \in Seq(B) /\ TRUE \in B  OBVIOUS
  <1> HIDE DEF B, K
  <1>2. Only(m, K) \in Seq(B)  BY <1>1, OnlyAppend
  <1> QED  BY <1>2, LenProperties DEF ValidCount, K

\* The same rows sent of the same valid ones.
LEMMA FillsOn ==
    ASSUME NEW s \in JobState, NEW t \in JobState, WindowFills(s), t.at = "reading",
           t.alone = s.alone, t.out = s.out, t.window = s.window, t.size = s.size,
           t.alone => Valid(t.pos) = Valid(s.pos)
    PROVE  WindowFills(t)
  BY DEF WindowFills

\* A job that takes valid row i, from s to t, yields what is due.
LEMMA YieldFills ==
    ASSUME file \in Seq(Rows), NEW i \in 1..Len(file), NEW s \in JobState, NEW t \in JobState,
           WindowFills(s), s.pos = i - 1, t.pos = i, t.end = Len(file), t.at = "reading",
           t.out = s.out, t.window = s.window, t.size = s.size, t.size =< Len(file),
           t.alone = s.alone,
           t.alone => t.marks = Marks(i) /\ Verdict(i) /\ ~(hasHeader /\ s.pos = 0)
    PROVE  LET u == Yield(t, i) IN
           /\ u \in JobState /\ u.at \in {"reading", "done"} /\ u.alone = t.alone
           /\ u.pos = t.pos /\ u.end = t.end /\ u.size = t.size /\ u.marks = t.marks
           /\ WindowFills(u)
  <1> DEFINE n == ValidCount(t.marks)
             r == [line |-> n, row |-> i, text |-> RawText(i, t.size)]
             stopped == [t EXCEPT !.at = "done"]
             longer == [t EXCEPT !.out = Append(@, r)]
  <1>1. /\ t.marks \in Seq(BOOLEAN) /\ t.out \in Seq(SentRow) /\ t.window \in Window
        /\ t.size \in Nat /\ Len(file) \in Nat /\ t.size \in 0..Len(file) /\ i \in Nat
    BY LenProperties DEF JobState
  <1>2. n \in Nat  BY <1>1, CountTyped
  <1>3. RawText(i, t.size) = IF i =< t.size THEN Block(i) ELSE <<>>  BY <1>1, TextIs
  <1>4. r = AsSent(t.size, n, i)  BY <1>3 DEF AsSent
  <1>5. r \in SentRow
    <2>1. RawText(i, t.size) \in Seq(Nat)  BY <1>3, BlockIs, EmptySeq
    <2> QED  BY <1>1, <1>2, <2>1 DEF SentRow
  <1> HIDE DEF n, r
  <1>6. /\ Exhausted(t, n) => Yield(t, i) = stopped
        /\ ~Exhausted(t, n) /\ LineIsSelected(n, t.window) => Yield(t, i) = longer
        /\ ~Exhausted(t, n) /\ ~LineIsSelected(n, t.window) => Yield(t, i) = t
    <2> DEFINE e == Exhausted(t, n)
               l == LineIsSelected(n, t.window)
    <2>1. Yield(t, i) = CASE e -> stopped [] ~e /\ l -> longer [] OTHER -> t
      BY Zenon DEF Yield, n, r
    <2> HIDE DEF e, l, stopped, longer
    <2>2. e => Yield(t, i) = stopped  BY <2>1
    <2>3. ~e /\ l => Yield(t, i) = longer  BY <2>1
    <2>4. ~e /\ ~l => Yield(t, i) = t  BY <2>1
    <2> QED  BY <2>2, <2>3, <2>4 DEF e, l
  <1>7. /\ stopped \in JobState /\ stopped.at = "done" /\ stopped.alone = t.alone
        /\ stopped.pos = t.pos /\ stopped.end = t.end /\ stopped.size = t.size
        /\ stopped.marks = t.marks /\ stopped.out = t.out /\ stopped.window = t.window
    BY DEF JobState
  <1>8. /\ longer \in JobState /\ longer.at = "reading" /\ longer.alone = t.alone
        /\ longer.pos = t.pos /\ longer.end = t.end /\ longer.size = t.size
        /\ longer.marks = t.marks /\ longer.out = Append(t.out, r) /\ longer.window = t.window
    <2>1. Append(t.out, r) \in Seq(SentRow)  BY <1>1, <1>5, AppendProperties
    <2> QED  BY <2>1 DEF JobState
  <1> HIDE DEF stopped, longer
  <1>9. ASSUME t.alone
        PROVE  WindowFills(Yield(t, i))
    <2> DEFINE w == t.window
               before == Valid(i - 1)
               m == Len(before)
    <2>1. /\ Valid(i) = Append(before, i) /\ before \in Seq(1..(i - 1)) /\ n = Len(Valid(i))
          /\ Valid(Len(file)) \in Seq(1..Len(file))
      <3>1. PICK p : p = i - 1  OBVIOUS
      <3>2. p \in Nat /\ p + 1 = i  BY <1>1, <3>1
      <3>3. Valid(p) \in Seq(1..p) /\ Valid(p + 1) = Append(Valid(p), p + 1)
        BY <1>9, <3>1, <3>2, ValidStep
      <3>4. n = Len(Valid(i))  BY <1>1, <1>9, CountIs DEF n
      <3> QED  BY <1>1, <3>1, <3>2, <3>3, <3>4, ValidStep
    <2>2. /\ Len(Valid(i)) = m + 1 /\ Valid(i)[m + 1] = i /\ m \in Nat
          /\ \A k \in 1..m : Valid(i)[k] = before[k]
      <3>1. before \in Seq(Nat) /\ i \in Nat
        <4>1. \A q \in Seq(1..(i - 1)) : q \in Seq(Nat)  BY <1>1
        <4> QED  BY <1>1, <2>1, <4>1
      <3> HIDE DEF before
      <3> QED  BY <2>1, <3>1, AppendProperties, LenProperties
    <2>3. /\ Len(t.out) = Amount(w, m)
          /\ \A k \in 1..Len(t.out) :
                /\ FirstLine(w) + k - 1 \in 1..m
                /\ t.out[k] = AsSent(t.size, FirstLine(w) + k - 1,
                                     before[FirstLine(w) + k - 1])
      BY <1>9 DEF WindowFills
    <2> HIDE DEF before, m, w
    <2>4. /\ \A k \in 1..Len(t.out) :
                /\ FirstLine(w) + k - 1 \in 1..(m + 1)
                /\ t.out[k] = AsSent(t.size, FirstLine(w) + k - 1,
                                     Valid(i)[FirstLine(w) + k - 1])
      <3> SUFFICES ASSUME NEW k \in 1..Len(t.out)
                   PROVE  /\ FirstLine(w) + k - 1 \in 1..(m + 1)
                          /\ t.out[k] = AsSent(t.size, FirstLine(w) + k - 1,
                                               Valid(i)[FirstLine(w) + k - 1])
        OBVIOUS
      <3>1. PICK x : x = FirstLine(w) + k - 1  OBVIOUS
      <3>2. x \in 1..m /\ t.out[k] = AsSent(t.size, x, before[x])  BY <2>3, <3>1
      <3>3. x \in 1..(m + 1) /\ Valid(i)[x] = before[x]  BY <2>2, <3>2
      <3> QED  BY <3>1, <3>2, <3>3
    <2>5. n = m + 1 /\ w \in Window  BY <1>1, <2>1, <2>2 DEF w
    <2>6. CASE Exhausted(t, n)
      <3>1. \/ w.end > 0 /\ m + 1 > w.end
            \/ LineIsSelected(m + 1, w) /\ w.first > 0 /\ Amount(w, m) >= w.first
        BY <2>3, <2>5, <2>6 DEF Exhausted, w
      <3>2. Len(Valid(Len(file))) \in Nat /\ Len(Valid(Len(file))) >= m + 1
        BY <1>1, <2>2, ValidBegins
      <3>3. Amount(w, Len(Valid(Len(file)))) = Amount(w, m) /\ Amount(w, m + 1) = Amount(w, m)
        <4>1. m + 1 \in Nat /\ m + 1 >= m + 1  BY <2>2
        <4> QED  BY <2>2, <2>5, <3>1, <3>2, <4>1, AmountStops
      <3>4. Yield(t, i) = stopped  BY <1>6, <2>6
      <3>5. WindowFills(stopped)
        BY <1>7, <2>2, <2>3, <2>4, <3>3 DEF WindowFills, w
      <3> QED  BY <3>4, <3>5
    <2>7. CASE ~Exhausted(t, n)
      <3>1. ~(w.end > 0 /\ m + 1 > w.end)  BY <2>5, <2>7 DEF Exhausted, w
      <3>2. CASE LineIsSelected(n, t.window)
        <4>1. ~(w.first > 0 /\ Amount(w, m) >= w.first)
          BY <2>3, <2>7, <3>2 DEF Exhausted, w
        <4>2. LineIsSelected(m + 1, w)  BY <2>5, <3>2 DEF w
        <4>3. Amount(w, m + 1) = Amount(w, m) + 1 /\ FirstLine(w) + Amount(w, m) = m + 1
          BY <2>2, <2>5, <3>1, <4>1, <4>2, AmountStep
        <4>4. /\ Len(longer.out) = Len(t.out) + 1 /\ longer.out[Len(t.out) + 1] = r
              /\ \A k \in 1..Len(t.out) : longer.out[k] = t.out[k]
          BY <1>1, <1>5, <1>8, AppendProperties
        <4>5. ASSUME NEW k \in 1..Len(longer.out)
              PROVE  /\ FirstLine(w) + k - 1 \in 1..(m + 1)
                     /\ longer.out[k] = AsSent(t.size, FirstLine(w) + k - 1,
                                               Valid(i)[FirstLine(w) + k - 1])
          <5>1. Len(t.out) \in Nat  BY <1>1, LenProperties
          <5>2. CASE k \in 1..Len(t.out)  BY <2>4, <4>4, <5>2
          <5>3. CASE k = Len(t.out) + 1
            <6>1. FirstLine(w) \in Nat  BY <2>5 DEF FirstLine, Window
            <6>2. FirstLine(w) + k - 1 = m + 1  BY <2>2, <2>3, <4>3, <5>1, <5>3, <6>1
            <6>3. longer.out[k] = AsSent(t.size, m + 1, i)  BY <1>4, <2>5, <4>4, <5>3
            <6>4. m + 1 \in 1..(m + 1)  BY <2>2
            <6> QED  BY <2>2, <6>2, <6>3, <6>4
          <5>4. k \in 1..Len(t.out) \/ k = Len(t.out) + 1  BY <4>4, <5>1
          <5> QED  BY <5>2, <5>3, <5>4
        <4>6. Len(longer.out) = Amount(w, m + 1)  BY <2>3, <4>3, <4>4
        <4>7. WindowFills(longer)
          BY <1>8, <2>2, <4>5, <4>6 DEF WindowFills, w
        <4> QED  BY <1>6, <2>7, <3>2, <4>7
      <3>3. CASE ~LineIsSelected(n, t.window)
        <4>1. Amount(w, m + 1) = Amount(w, m)
          <5>1. ~LineIsSelected(m + 1, w)  BY <2>5, <3>3 DEF w
          <5> QED  BY <2>2, <2>5, <3>1, <5>1, AmountSkips
        <4>2. WindowFills(t)  BY <2>2, <2>3, <2>4, <4>1 DEF WindowFills, w
        <4> QED  BY <1>6, <2>7, <3>3, <4>2
      <3> QED  BY <3>2, <3>3
    <2> QED  BY <2>6, <2>7
  <1>10. Yield(t, i) \in {stopped, longer, t}  BY <1>6
  <1>11. /\ Yield(t, i) \in JobState /\ Yield(t, i).at \in {"reading", "done"}
         /\ Yield(t, i).alone = t.alone /\ Yield(t, i).pos = t.pos /\ Yield(t, i).end = t.end
         /\ Yield(t, i).size = t.size /\ Yield(t, i).marks = t.marks
    BY <1>7, <1>8, <1>10
  <1>12. WindowFills(Yield(t, i))
    <2>1. CASE ~t.alone  BY <1>11, <2>1 DEF WindowFills
    <2> QED  BY <1>9, <2>1
  <1> QED  BY <1>11, <1>12

\* A job at the end of the file is done, and of the scan the totals are published.
LEMMA FinishKeeps ==
    ASSUME ReaderInv, NEW j \in Jobs, Finish(j)
    PROVE  ReaderInv'
  <1>1. /\ ReaderTypeOK /\ PreviewStops /\ ScanCounts
        /\ \A k \in Jobs : WithinFile(job[k]) /\ Judged(job[k]) /\ Undisturbed(k)
        /\ WindowFills(job["rows"])
    BY DEF ReaderInv
  <1>2. file \in Seq(Rows) /\ Len(file) \in Nat /\ job \in [Jobs -> JobState]
    BY <1>1, LenProperties DEF ReaderTypeOK
  <1>3. PICK s : s = job[j]  OBVIOUS
  <1>4. PICK t : t = [s EXCEPT !.at = "done", !.end = Len(file)]  OBVIOUS
  <1>5. /\ Reading(j) /\ s.pos = Len(file) /\ job' = [job EXCEPT ![j] = t]
        /\ file' = file /\ hasHeader' = hasHeader /\ headed' = headed /\ expected' = expected
        /\ PublishSnapshot(j, TRUE)
    BY <1>2, <1>3, <1>4 DEF Finish
  <1>6. s \in JobState /\ WithinFile(s) /\ Judged(s)  BY <1>1, <1>2, <1>3
  <1>7. /\ t \in JobState /\ t.at = "done" /\ t.pos = s.pos /\ t.end = Len(file)
        /\ t.size = s.size /\ t.marks = s.marks /\ t.alone = s.alone /\ t.out = s.out
        /\ t.window = s.window /\ t.limit = s.limit
    BY <1>2, <1>4, <1>6 DEF JobState
  <1>8. job'[j] = t /\ \A k \in Jobs : k # j => job'[k] = job[k]  BY <1>2, <1>5
  <1>9. WithinFile(t) /\ Judged(t)
    <2>1. WithinFile(t)  BY <1>2, <1>5, <1>6, <1>7 DEF WithinFile
    <2> QED  BY <1>6, <1>7, <2>1 DEF Judged
  <1>10. j = "rows" => WindowFills(t)
    <2>1. WindowFills(s) => WindowFills(t)  BY <1>5, <1>7 DEF WindowFills
    <2> QED  BY <1>1, <1>3, <2>1
  <1>11. ReaderTypeOK'
    <2>1. job' \in [Jobs -> JobState]  BY <1>2, <1>5, <1>7
    <2>2. snap' \in [total : Nat, data : Nat, valid : Nat, completed : BOOLEAN]
      <3>1. CASE j = "scan"
        <4>1. snap' = [total |-> t.pos, data |-> Len(t.marks), valid |-> ValidCount(t.marks),
                       completed |-> TRUE]
          BY <1>5, <1>8, <3>1 DEF PublishSnapshot
        <4>2. t.marks \in Seq(BOOLEAN) /\ t.pos \in Nat  BY <1>7 DEF JobState
        <4>3. Len(t.marks) \in Nat /\ ValidCount(t.marks) \in Nat
          BY <4>2, CountTyped, LenProperties
        <4> QED  BY <4>1, <4>2, <4>3
      <3>2. CASE j # "scan"  BY <1>1, <1>5, <3>2 DEF PublishSnapshot, ReaderTypeOK
      <3> QED  BY <3>1, <3>2
    <2> QED  BY <1>1, <1>5, <2>1, <2>2 DEF ReaderTypeOK
  <1>12. ASSUME NEW k \in Jobs
         PROVE  WithinFile(job[k])' /\ Judged(job[k])' /\ (k = "rows" => WindowFills(job[k])')
    <2>1. PICK u : u = job'[k]  OBVIOUS
    <2>2. u \in JobState /\ WithinFile(u) /\ Judged(u) /\ (k = "rows" => WindowFills(u))
      <3>1. CASE k = j  BY <1>7, <1>8, <1>9, <1>10, <2>1, <3>1
      <3>2. CASE k # j  BY <1>1, <1>2, <1>8, <2>1, <3>2
      <3> QED  BY <3>1, <3>2
    <2>3. WithinFile(u)'  BY <1>5, <2>2 DEF WithinFile
    <2>4. Judged(u)' /\ (k = "rows" => WindowFills(u)')
      <3>1. \A n : Valid(n)' = Valid(n) /\ Marks(n)' = Marks(n) /\ Block(n)' = Block(n)
        BY <1>5 DEF Valid, Marks, DataRows, Good, Verdict, Block, Only
      <3>2. \A z, n, i : AsSent(z, n, i)' = AsSent(z, n, i)  BY <3>1 DEF AsSent
      <3> QED  BY <2>2, <3>1, <3>2 DEF Judged, WindowFills
    <2> QED  BY <2>1, <2>3, <2>4
  <1>13. ASSUME NEW k \in Jobs PROVE Undisturbed(k)'
    <2>1. CASE k = j  BY <1>7, <1>8, <2>1 DEF Undisturbed, Reading
    <2>2. CASE k # j  BY <1>1, <1>5, <1>8, <2>2 DEF Undisturbed, Reading
    <2> QED  BY <2>1, <2>2
  <1>14. PreviewStops'
    <2>1. "preview" \in Jobs  BY DEF Jobs
    <2>2. CASE j = "preview"
      BY <1>1, <1>3, <1>7, <1>8, <2>2 DEF PreviewStops, Reading
    <2>3. CASE j # "preview"
      <3>1. job'["preview"] = job["preview"]  BY <1>8, <2>1, <2>3
      <3> QED  BY <1>1, <3>1 DEF PreviewStops, Reading
    <2> QED  BY <2>2, <2>3
  <1>15. ScanCounts'
    <2>1. "scan" \in Jobs  BY DEF Jobs
    <2>2. CASE j = "scan"
      <3>1. snap' = [total |-> t.pos, data |-> Len(t.marks), valid |-> ValidCount(t.marks),
                     completed |-> TRUE]
        BY <1>5, <1>8, <2>2 DEF PublishSnapshot
      <3> DEFINE c == ValidCount(t.marks)
      <3>2. /\ snap'.total = t.pos /\ snap'.data = Len(t.marks)
            /\ snap'.valid = ValidCount(t.marks)
        <4> HIDE DEF c
        <4> QED  BY <3>1 DEF c
      <3>3. \A m : ValidCount(m)' = ValidCount(m)  BY DEF ValidCount, Only
      <3> QED  BY <1>5, <1>7, <1>8, <2>2, <3>2, <3>3 DEF ScanCounts
    <2>3. CASE j # "scan"
      <3>1. job'["scan"] = job["scan"] /\ snap' = snap
        BY <1>5, <1>8, <2>1, <2>3 DEF PublishSnapshot
      <3>2. \A m : ValidCount(m)' = ValidCount(m)  BY DEF ValidCount, Only
      <3> QED  BY <1>1, <3>1, <3>2 DEF ScanCounts
    <2> QED  BY <2>2, <2>3
  <1>16. WindowFills(job["rows"])'
    <2>1. "rows" \in Jobs  BY DEF Jobs
    <2> QED  BY <1>12, <2>1
  <1> QED  BY <1>11, <1>12, <1>13, <1>14, <1>15, <1>16 DEF ReaderInv

\* A job that reads takes a row, from s to u: the others are not concerned.
LEMMA OneJobMoves ==
    ASSUME ReaderInv, NEW j \in Jobs, Reading(j), NEW u \in JobState,
           job' = [job EXCEPT ![j] = u], file' = file, hasHeader' = hasHeader,
           headed' \in BOOLEAN, expected' \in Int, PublishSnapshot(j, FALSE),
           WithinFile(u), Judged(u), j = "rows" => WindowFills(u), u.alone = job[j].alone,
           u.alone => /\ headed' = (hasHeader /\ u.pos > 0)
                      /\ expected' = IF u.pos = 0 THEN Unset ELSE file[1].width,
           j = "preview" => /\ Len(u.marks) =< u.limit
                            /\ u.at = "reading" => Len(u.marks) < u.limit
    PROVE  ReaderInv'
  <1>1. /\ ReaderTypeOK /\ PreviewStops /\ ScanCounts
        /\ \A k \in Jobs : WithinFile(job[k]) /\ Judged(job[k]) /\ Undisturbed(k)
        /\ WindowFills(job["rows"])
    BY DEF ReaderInv
  <1>2. file \in Seq(Rows) /\ Len(file) \in Nat /\ job \in [Jobs -> JobState]
    BY <1>1, LenProperties DEF ReaderTypeOK
  <1>3. job'[j] = u /\ \A k \in Jobs : k # j => job'[k] = job[k]  BY <1>2
  <1>4. ReaderTypeOK'
    <2>1. job' \in [Jobs -> JobState]  BY <1>2
    <2>2. snap' \in [total : Nat, data : Nat, valid : Nat, completed : BOOLEAN]
      <3>1. CASE j = "scan"
        <4>1. snap' = [total |-> u.pos, data |-> Len(u.marks), valid |-> ValidCount(u.marks),
                       completed |-> FALSE]
          BY <1>3, <3>1 DEF PublishSnapshot
        <4>2. u.marks \in Seq(BOOLEAN) /\ u.pos \in Nat  BY DEF JobState
        <4>3. Len(u.marks) \in Nat /\ ValidCount(u.marks) \in Nat
          BY <4>2, CountTyped, LenProperties
        <4> QED  BY <4>1, <4>2, <4>3
      <3>2. CASE j # "scan"  BY <1>1, <3>2 DEF PublishSnapshot, ReaderTypeOK
      <3> QED  BY <3>1, <3>2
    <2> QED  BY <1>1, <2>1, <2>2 DEF ReaderTypeOK
  <1>5. ASSUME NEW k \in Jobs
        PROVE  WithinFile(job[k])' /\ Judged(job[k])' /\ (k = "rows" => WindowFills(job[k])')
    <2>1. PICK v : v = job'[k]  OBVIOUS
    <2>2. v \in JobState /\ WithinFile(v) /\ Judged(v) /\ (k = "rows" => WindowFills(v))
      <3>1. CASE k = j  BY <1>3, <2>1, <3>1
      <3>2. CASE k # j  BY <1>1, <1>2, <1>3, <2>1, <3>2
      <3> QED  BY <3>1, <3>2
    <2>3. WithinFile(v)'  BY <2>2 DEF WithinFile
    <2>4. Judged(v)' /\ (k = "rows" => WindowFills(v)')
      <3>1. \A n : Valid(n)' = Valid(n) /\ Marks(n)' = Marks(n) /\ Block(n)' = Block(n)
        BY DEF Valid, Marks, DataRows, Good, Verdict, Block, Only
      <3>2. \A z, n, i : AsSent(z, n, i)' = AsSent(z, n, i)  BY <3>1 DEF AsSent
      <3> QED  BY <2>2, <3>1, <3>2 DEF Judged, WindowFills
    <2> QED  BY <2>1, <2>3, <2>4
  <1>6. ASSUME NEW k \in Jobs PROVE Undisturbed(k)'
    <2>1. CASE k = j
      <3> SUFFICES ASSUME u.alone PROVE Undisturbed(k)'
        BY <1>3, <2>1 DEF Undisturbed
      <3>1. \A i \in Jobs : Reading(i) => i = j  BY <1>1 DEF Undisturbed
      <3>2. \A i \in Jobs : Reading(i)' => i = j  BY <1>3, <3>1 DEF Reading
      <3>3. headed' = (hasHeader' /\ u.pos > 0)  OBVIOUS
      <3> QED  BY <1>3, <2>1, <3>2, <3>3 DEF Undisturbed
    <2>2. CASE k # j  BY <1>1, <1>3, <2>2 DEF Undisturbed, Reading
    <2> QED  BY <2>1, <2>2
  <1>7. PreviewStops'
    <2>1. "preview" \in Jobs  BY DEF Jobs
    <2>2. CASE j = "preview"  BY <1>3, <2>2 DEF PreviewStops, Reading
    <2>3. CASE j # "preview"
      <3>1. job'["preview"] = job["preview"]  BY <1>3, <2>1, <2>3
      <3> QED  BY <1>1, <3>1 DEF PreviewStops, Reading
    <2> QED  BY <2>2, <2>3
  <1>8. ScanCounts'
    <2>1. "scan" \in Jobs  BY DEF Jobs
    <2>2. CASE j = "scan"
      <3>1. snap'.completed = FALSE  BY <2>2 DEF PublishSnapshot
      <3> QED  BY <3>1 DEF ScanCounts
    <2>3. CASE j # "scan"
      <3>1. job'["scan"] = job["scan"] /\ snap' = snap
        BY <1>3, <2>1, <2>3 DEF PublishSnapshot
      <3>2. \A m : ValidCount(m)' = ValidCount(m)  BY DEF ValidCount, Only
      <3> QED  BY <1>1, <3>1, <3>2 DEF ScanCounts
    <2> QED  BY <2>2, <2>3
  <1>9. WindowFills(job["rows"])'
    <2>1. "rows" \in Jobs  BY DEF Jobs
    <2> QED  BY <1>5, <2>1
  <1> QED  BY <1>4, <1>5, <1>6, <1>7, <1>8, <1>9 DEF ReaderInv

\* A job takes a row: header or data row, valid or not, in the window or not.
LEMMA NextRowKeeps ==
    ASSUME ReaderInv, NEW j \in Jobs, NextRow(j)
    PROVE  ReaderInv'
  <1>1. /\ ReaderTypeOK /\ PreviewStops
        /\ \A k \in Jobs : WithinFile(job[k]) /\ Judged(job[k]) /\ Undisturbed(k)
        /\ WindowFills(job["rows"])
    BY DEF ReaderInv
  <1>2. file \in Seq(Rows) /\ Len(file) \in Nat /\ job \in [Jobs -> JobState]
        /\ headed \in BOOLEAN /\ expected \in Int
    BY <1>1, LenProperties DEF ReaderTypeOK
  <1>3. PICK o : o = job[j]  OBVIOUS
  <1>4. PICK i : i = o.pos + 1  OBVIOUS
  <1>5. PICK s : s = [o EXCEPT !.pos = i, !.end = Len(file)]  OBVIOUS
  <1>6. /\ Reading(j) /\ o.pos < Len(file) /\ TakeRow(j, s, i) /\ PublishSnapshot(j, FALSE)
        /\ file' = file /\ hasHeader' = hasHeader
    BY <1>3, <1>4, <1>5 DEF NextRow
  <1>7. /\ o \in JobState /\ WithinFile(o) /\ Judged(o) /\ Undisturbed(j) /\ o.at = "reading"
        /\ j = "rows" => WindowFills(o)
    BY <1>1, <1>2, <1>3, <1>6 DEF Reading
  <1>8. o.pos \in Nat /\ i \in 1..Len(file) /\ i - 1 = o.pos /\ i \in Nat /\ i > 0 /\ i # 0
        /\ 1 \in 1..Len(file) /\ o.size =< Len(file)
    <2>1. o.pos \in Nat  BY <1>7 DEF JobState
    <2>2. o.size =< Len(file)  BY <1>7 DEF WithinFile
    <2>3. o.pos < Len(file)  BY <1>6
    <2> QED  BY <1>2, <1>4, <2>1, <2>2, <2>3
  <1>9. /\ s \in JobState /\ s.pos = i /\ s.end = Len(file) /\ s.at = "reading"
        /\ s.size = o.size /\ s.marks = o.marks /\ s.alone = o.alone /\ s.out = o.out
        /\ s.window = o.window /\ s.limit = o.limit
    BY <1>2, <1>5, <1>7, <1>8 DEF JobState
  <1>10. file[i].width \in Nat /\ file[1].width \in Nat
    <2>1. file[i] \in Rows /\ file[1] \in Rows  BY <1>2, <1>8, ElementOfSeq
    <2> QED  BY <2>1, FileAssumption
  <1>11. o.alone => /\ headed = (hasHeader /\ o.pos > 0)
                    /\ expected = IF o.pos = 0 THEN Unset ELSE file[1].width
    BY <1>3, <1>6, <1>7 DEF Undisturbed
  <1>12. o.alone => (hasHeader /\ ~headed <=> hasHeader /\ o.pos = 0)
    <2>1. o.pos > 0 <=> o.pos # 0  BY <1>8
    <2> QED  BY <1>11, <2>1, Zenon
  <1>13. WithinFile(s)
    <2>1. s.pos =< s.end /\ s.end =< Len(file) /\ s.size =< Len(file)  BY <1>2, <1>8, <1>9
    <2> QED  BY <2>1 DEF WithinFile
  <1>14. CASE hasHeader /\ ~headed
    <2>1. headed' = TRUE /\ expected' = file[i].width /\ job' = [job EXCEPT ![j] = s]
      BY <1>6, <1>14 DEF TakeRow
    <2>2. s.alone => i = 1 /\ hasHeader /\ Marks(i) = Marks(o.pos) /\ Valid(i) = Valid(o.pos)
      <3> SUFFICES ASSUME s.alone
                   PROVE  i = 1 /\ hasHeader /\ Marks(i) = Marks(o.pos) /\ Valid(i) = Valid(o.pos)
        OBVIOUS
      <3>1. hasHeader /\ o.pos = 0  BY <1>9, <1>12, <1>14
      <3>2. Marks(o.pos + 1) = Marks(o.pos) /\ Valid(o.pos + 1) = Valid(o.pos)
        BY <1>8, <3>1, MarksStep, ValidStep
      <3> QED  BY <1>4, <3>1, <3>2
    <2>3. Judged(s)  BY <1>7, <1>9, <2>2 DEF Judged
    <2>4. j = "rows" => WindowFills(s)  BY <1>7, <1>9, <2>2, FillsOn
    <2>5. s.alone => /\ headed' = (hasHeader /\ s.pos > 0)
                     /\ expected' = IF s.pos = 0 THEN Unset ELSE file[1].width
      <3> SUFFICES ASSUME s.alone
                   PROVE  /\ headed' = (hasHeader /\ s.pos > 0)
                          /\ expected' = IF s.pos = 0 THEN Unset ELSE file[1].width
        OBVIOUS
      <3>1. s.pos > 0 /\ s.pos # 0  BY <1>8, <1>9
      <3>2. headed' = (hasHeader /\ s.pos > 0)  BY <2>1, <2>2, <3>1, Zenon
      <3>3. expected' = file[1].width  BY <2>1, <2>2
      <3> QED  BY <3>1, <3>2, <3>3
    <2>6. j = "preview" => Len(s.marks) =< s.limit /\ Len(s.marks) < s.limit
      BY <1>1, <1>3, <1>6, <1>9 DEF PreviewStops
    <2>7. headed' \in BOOLEAN  BY <2>1, Zenon
    <2>8. expected' \in Int  BY <1>10, <2>1
    <2>9. s.alone = job[j].alone  BY <1>3, <1>9
    <2> QED
      BY <1>6, <1>9, <1>13, <2>1, <2>3, <2>4, <2>5, <2>6, <2>7, <2>8, <2>9, OneJobMoves
  <1>15. CASE ~(hasHeader /\ ~headed)
    <2> DEFINE ok == expected \in {Unset, file[i].width}
    <2>1. PICK t : t = [s EXCEPT !.marks = Append(@, ok)]  OBVIOUS
    <2> DEFINE full == j = "preview" /\ Len(t.marks) >= t.limit
               u == IF j = "rows" /\ ok THEN Yield(t, i)
                    ELSE IF full THEN [t EXCEPT !.at = "done"] ELSE t
    <2>2. /\ expected' = ColumnsAfter(i) /\ headed' = headed
          /\ job' = [job EXCEPT ![j] = u]
      BY <1>6, <1>15, <2>1, Zenon DEF TakeRow
    <2>3. /\ t \in JobState /\ t.pos = i /\ t.end = Len(file) /\ t.at = "reading"
          /\ t.size = o.size /\ t.alone = o.alone /\ t.out = o.out
          /\ t.window = o.window /\ t.limit = o.limit
          /\ t.marks = Append(o.marks, ok)
      <3>1. Append(s.marks, ok) \in Seq(BOOLEAN)
        <4> DEFINE B == BOOLEAN
        <4>1. ok \in B /\ s.marks \in Seq(B)  BY <1>9 DEF JobState
        <4> HIDE DEF ok, B
        <4>2. Append(s.marks, ok) \in Seq(B)  BY <4>1, AppendProperties
        <4> QED  BY <4>2 DEF B
      <3> HIDE DEF ok
      <3> QED  BY <1>9, <2>1, <3>1 DEF JobState
    <2>4. t.alone => /\ ~(hasHeader /\ o.pos = 0) /\ ok = Verdict(i)
                     /\ ColumnsAfter(i) = file[1].width
      <3> SUFFICES ASSUME t.alone
                   PROVE  /\ ~(hasHeader /\ o.pos = 0) /\ ok = Verdict(i)
                          /\ ColumnsAfter(i) = file[1].width
        OBVIOUS
      <3>1. ~(hasHeader /\ o.pos = 0)  BY <1>12, <1>15, <2>3, Zenon
      <3>2. expected = IF o.pos = 0 THEN Unset ELSE file[1].width  BY <1>11, <2>3
      <3>3. file[1].width # Unset  BY <1>10 DEF Unset
      <3>4. CASE o.pos = 0
        <4>1. expected = Unset /\ i = 1  BY <1>4, <3>2, <3>4
        <4>2. ok /\ Verdict(i)  BY <4>1 DEF Verdict
        <4>3. ok = Verdict(i)  BY <4>2, Zenon DEF Verdict
        <4> QED  BY <3>1, <4>1, <4>3 DEF ColumnsAfter
      <3>5. CASE o.pos # 0
        <4>1. expected = file[1].width  BY <3>2, <3>5
        <4>2. ok <=> Verdict(i)  BY <3>3, <4>1 DEF Verdict
        <4>3. ok = Verdict(i)
          <5>1. PICK a \in BOOLEAN : a = ok
            <6>1. ok \in BOOLEAN  OBVIOUS
            <6> HIDE DEF ok
            <6> QED  BY <6>1
          <5>2. PICK b \in BOOLEAN : b = Verdict(i)  BY DEF Verdict
          <5> HIDE DEF ok
          <5>3. a <=> b  BY <4>2, <5>1, <5>2
          <5> QED  BY <5>1, <5>2, <5>3
        <4> QED  BY <3>1, <3>3, <4>1, <4>3 DEF ColumnsAfter
      <3> QED  BY <3>4, <3>5
    <2>5. t.alone => t.marks = Marks(i)
      <3> SUFFICES ASSUME t.alone PROVE t.marks = Marks(i)  OBVIOUS
      <3>1. Marks(o.pos + 1) = Append(Marks(o.pos), Verdict(o.pos + 1))
        BY <1>8, <2>4, MarksStep, Zenon
      <3>2. o.marks = Marks(o.pos)  BY <1>7, <2>3 DEF Judged
      <3>3. ok = Verdict(i) /\ t.marks = Append(o.marks, ok) /\ i = o.pos + 1
        BY <1>4, <2>3, <2>4, Zenon
      <3> HIDE DEF ok
      <3> QED  BY <3>1, <3>2, <3>3, Zenon
    <2>6. Judged(t) /\ WithinFile(t)
      <3>1. t.pos =< t.end /\ t.end =< Len(file) /\ t.size =< Len(file)  BY <1>2, <1>8, <2>3
      <3> QED  BY <2>3, <2>5, <3>1 DEF Judged, WithinFile
    <2>7. /\ u \in JobState /\ u.pos = i /\ u.end = t.end /\ u.size = t.size
          /\ u.marks = t.marks /\ u.alone = t.alone
          /\ j = "rows" => WindowFills(u)
          /\ j = "preview" => u.limit = t.limit /\ (u.at = "reading" => ~full)
      <3> HIDE DEF ok
      <3>1. CASE j = "rows" /\ ok
        <4>1. u = Yield(t, i)  BY <3>1
        <4>2. t.alone => t.marks = Marks(i) /\ Verdict(i) /\ ~(hasHeader /\ o.pos = 0)
          BY <2>4, <2>5, <3>1, Zenon
        <4>3. WindowFills(o) /\ o.pos = i - 1 /\ t.size =< Len(file)
          BY <1>7, <1>8, <2>3, <3>1
        <4>4. /\ Yield(t, i) \in JobState /\ Yield(t, i).pos = t.pos
              /\ Yield(t, i).end = t.end /\ Yield(t, i).size = t.size
              /\ Yield(t, i).marks = t.marks /\ Yield(t, i).alone = t.alone
              /\ WindowFills(Yield(t, i))
          <5>1. /\ file \in Seq(Rows) /\ i \in 1..Len(file) /\ o \in JobState /\ t \in JobState
                /\ t.pos = i /\ t.end = Len(file) /\ t.at = "reading" /\ t.out = o.out
                /\ t.window = o.window /\ t.size = o.size /\ t.alone = o.alone
            BY <1>2, <1>7, <1>8, <2>3
          <5> HIDE DEF u, full
          <5> QED  BY <4>2, <4>3, <5>1, YieldFills
        <4> QED  BY <2>3, <3>1, <4>1, <4>4
      <3>2. CASE ~(j = "rows" /\ ok) /\ full
        <4>1. u = [t EXCEPT !.at = "done"]  BY <3>2
        <4> HIDE DEF u
        <4> QED  BY <2>3, <3>2, <4>1 DEF JobState
      <3>3. CASE ~(j = "rows" /\ ok) /\ ~full
        <4>1. u = t  BY <3>3
        <4>2. j = "rows" => WindowFills(t)
          <5> SUFFICES ASSUME j = "rows" PROVE WindowFills(t)  OBVIOUS
          <5>1. t.alone => Valid(i) = Valid(o.pos)
            <6> SUFFICES ASSUME t.alone PROVE Valid(i) = Valid(o.pos)  OBVIOUS
            <6>1. ~Verdict(i)  BY <2>4, <3>3, Zenon
            <6>2. Verdict(o.pos + 1) \/ Valid(o.pos + 1) = Valid(o.pos)
              BY <1>8, ValidStep, Zenon
            <6> QED  BY <1>4, <6>1, <6>2
          <5> QED  BY <1>7, <2>3, <5>1, FillsOn
        <4> HIDE DEF u
        <4> QED  BY <2>3, <3>3, <4>1, <4>2
      <3> QED  BY <3>1, <3>2, <3>3
    <2> HIDE DEF u
    <2>8. Judged(u) /\ WithinFile(u)  BY <2>3, <2>6, <2>7 DEF Judged, WithinFile
    <2>9. u.alone => /\ headed' = (hasHeader /\ u.pos > 0)
                     /\ expected' = IF u.pos = 0 THEN Unset ELSE file[1].width
      <3> SUFFICES ASSUME u.alone
                   PROVE  /\ headed' = (hasHeader /\ u.pos > 0)
                          /\ expected' = IF u.pos = 0 THEN Unset ELSE file[1].width
        OBVIOUS
      <3>1. u.pos > 0 /\ u.pos # 0 /\ o.alone /\ t.alone  BY <1>8, <2>3, <2>7
      <3>2. hasHeader => o.pos > 0  BY <1>8, <2>4, <3>1
      <3>3. headed = (hasHeader /\ o.pos > 0)  BY <1>11, <3>1
      <3>4. headed' = (hasHeader /\ u.pos > 0)  BY <2>2, <3>1, <3>2, <3>3, Zenon
      <3>5. expected' = file[1].width  BY <2>2, <2>4, <3>1
      <3> QED  BY <3>1, <3>4, <3>5
    <2>10. j = "preview" => /\ Len(u.marks) =< u.limit
                            /\ u.at = "reading" => Len(u.marks) < u.limit
      <3> SUFFICES ASSUME j = "preview"
                   PROVE  Len(u.marks) =< u.limit /\ (u.at = "reading" => Len(u.marks) < u.limit)
        OBVIOUS
      <3>1. Len(o.marks) < o.limit  BY <1>1, <1>3, <1>6 DEF PreviewStops
      <3>2. Len(t.marks) = Len(o.marks) + 1 /\ Len(o.marks) \in Nat
        <4> DEFINE B == BOOLEAN
        <4>1. ok \in B /\ o.marks \in Seq(B)  BY <1>7 DEF JobState
        <4> HIDE DEF ok, B
        <4> QED  BY <2>3, <4>1, AppendProperties, LenProperties
      <3>3. o.limit \in Int  BY <1>7 DEF JobState
      <3>4. u.limit = o.limit /\ u.marks = t.marks  BY <2>3, <2>7
      <3>5. u.at = "reading" => ~(Len(t.marks) >= o.limit)  BY <2>3, <2>7
      <3> QED  BY <3>1, <3>2, <3>3, <3>4, <3>5
    <2>11. expected' \in Int  BY <1>2, <1>10, <2>2 DEF ColumnsAfter
    <2>12. headed' \in BOOLEAN /\ u.alone = job[j].alone  BY <1>2, <1>3, <2>2, <2>3, <2>7
    <2> QED
      BY <1>6, <2>2, <2>7, <2>8, <2>9, <2>10, <2>11, <2>12, OneJobMoves
  <1> QED  BY <1>14, <1>15

-----------------------------------------------------------------------------
\* Every step of a job or of the file keeps the invariant.
LEMMA ReaderStep ==
    ASSUME ReaderInv, [Next]_vars
    PROVE  ReaderInv'
  <1>1. /\ "scan" \in Jobs /\ "preview" \in Jobs /\ "rows" \in Jobs
        /\ 1 \in Int /\ NoWindow \in [start : Int, end : Int, first : Int]
    BY DEF Jobs, NoWindow
  <1>2. CASE Start("scan", 1, NoWindow)  BY <1>1, <1>2, StartKeeps
  <1>3. CASE \E limit \in Limits : Start("preview", limit, NoWindow)
    <2>1. PICK limit \in Limits : Start("preview", limit, NoWindow)  BY <1>3
    <2>2. limit \in Int  BY FileAssumption
    <2> QED  BY <1>1, <2>1, <2>2, StartKeeps
  <1>4. CASE \E w \in Windows : Start("rows", 1, w)
    <2>1. PICK w \in Windows : Start("rows", 1, w)  BY <1>4
    <2>2. w \in [start : Int, end : Int, first : Int]  BY FileAssumption
    <2> QED  BY <1>1, <2>1, <2>2, StartKeeps
  <1>5. CASE \E j \in Jobs : NextRow(j) \/ Finish(j)  BY <1>5, NextRowKeeps, FinishKeeps
  <1>6. CASE \E row \in Rows : Grow(row)  BY <1>6, GrowKeeps
  <1>7. CASE UNCHANGED vars
    <2>1. /\ file' = file /\ hasHeader' = hasHeader /\ headed' = headed
          /\ expected' = expected /\ snap' = snap /\ job' = job
      BY <1>7 DEF vars
    <2>2. \A n : Valid(n)' = Valid(n) /\ Marks(n)' = Marks(n) /\ Block(n)' = Block(n)
      BY <2>1 DEF Valid, Marks, DataRows, Good, Verdict, Block, Only
    <2>3. \A z, n, i : AsSent(z, n, i)' = AsSent(z, n, i)  BY <2>2 DEF AsSent
    <2>4. \A s : (WithinFile(s) => WithinFile(s)') /\ (Judged(s) => Judged(s)')
      BY <2>1, <2>2 DEF WithinFile, Judged
    <2>5. \A s : WindowFills(s) => WindowFills(s)'  BY <2>2, <2>3 DEF WindowFills
    <2>6. \A j \in Jobs : Undisturbed(j) => Undisturbed(j)'
      BY <2>1 DEF Undisturbed, Reading
    <2>7. \A m : ValidCount(m)' = ValidCount(m)  BY DEF ValidCount, Only
    <2>8. (PreviewStops => PreviewStops') /\ (ScanCounts => ScanCounts')
      BY <2>1, <2>7 DEF PreviewStops, ScanCounts, Reading
    <2>9. ReaderTypeOK => ReaderTypeOK'  BY <2>1 DEF ReaderTypeOK
    <2> QED  BY <2>1, <2>4, <2>5, <2>6, <2>8, <2>9 DEF ReaderInv
  <1> QED  BY <1>2, <1>3, <1>4, <1>5, <1>6, <1>7 DEF Next

\* The reader's invariant, for any file, windows and limits.
THEOREM ReaderSafe == Spec => []ReaderInv
  <1>1. Init => ReaderInv  BY ReaderStarts
  <1>2. ReaderInv /\ [Next]_vars => ReaderInv'  BY ReaderStep
  <1> QED  BY <1>1, <1>2, PTL DEF Spec

\* Scan, preview and transmission give each row the same verdict: that of its number of
\* columns against the first row's, in every job that had the reader to itself, whatever
\* ran on it before (_is_valid_data_row over the fields _reset_scan_state resets).
THEOREM OneVerdict == Spec => []VerdictsAgree
  <1>1. ASSUME ReaderInv PROVE VerdictsAgree
    <2> SUFFICES ASSUME NEW j \in Jobs, job[j].alone
                 PROVE  /\ job[j].marks = Marks(job[j].pos)
                        /\ j = "preview" => Len(DataRows(job[j].pos)) =< job[j].limit
      BY DEF VerdictsAgree, Marks
    <2>1. job[j].marks = Marks(job[j].pos)  BY <1>1 DEF ReaderInv, Judged
    <2>2. job[j].pos \in Nat  BY <1>1 DEF ReaderInv, ReaderTypeOK, JobState
    <2>3. Len(Marks(job[j].pos)) = Len(DataRows(job[j].pos))  BY <2>2, MarksStep
    <2> QED  BY <1>1, <2>1, <2>3 DEF ReaderInv, PreviewStops
  <1> QED  BY <1>1, ReaderSafe, PTL

\* Once _publish_snapshot has called a scan complete its totals are those of the whole
\* file as it was when the scan met its end.
THEOREM CompleteMeansFinal == Spec => []TotalsFinal
  <1>1. ASSUME ReaderInv PROVE TotalsFinal
    <2> DEFINE s == job["scan"]
    <2> SUFFICES ASSUME snap.completed
                 PROVE  /\ s.at = "done" /\ snap.total = s.pos /\ s.pos = s.end
                        /\ s.alone => /\ snap.data = Len(DataRows(s.pos))
                                      /\ snap.valid = ValidCount([k \in 1..snap.data |->
                                                                    Verdict(DataRows(s.pos)[k])])
      BY DEF TotalsFinal
    <2>1. /\ s.at = "done" /\ snap.total = s.pos /\ s.pos = s.end
          /\ snap.data = Len(s.marks) /\ snap.valid = ValidCount(s.marks)
      BY <1>1 DEF ReaderInv, ScanCounts
    <2>2. s.pos \in Nat /\ (s.alone => s.marks = Marks(s.pos))
      <3>1. "scan" \in Jobs  BY DEF Jobs
      <3> QED  BY <1>1, <3>1 DEF ReaderInv, ReaderTypeOK, JobState, Judged
    <2>3. Len(Marks(s.pos)) = Len(DataRows(s.pos))  BY <2>2, MarksStep
    <2>4. DOMAIN DataRows(s.pos) = 1..Len(DataRows(s.pos))
      <3>1. DataRows(s.pos) \in Seq(1..s.pos)  BY <2>2, DataStep
      <3> QED  BY <3>1, LenProperties
    <2>5. ASSUME s.alone
          PROVE  /\ snap.data = Len(DataRows(s.pos))
                 /\ s.marks = [k \in 1..snap.data |-> Verdict(DataRows(s.pos)[k])]
      <3>1. s.marks = Marks(s.pos)  BY <2>2, <2>5
      <3>2. snap.data = Len(DataRows(s.pos))  BY <2>1, <2>3, <3>1
      <3>3. Marks(s.pos) = [k \in 1..snap.data |-> Verdict(DataRows(s.pos)[k])]
        BY <2>4, <3>2, Zenon DEF Marks
      <3> QED  BY <3>1, <3>2, <3>3
    <2> QED  BY <2>1, <2>5
  <1> QED  BY <1>1, ReaderSafe, PTL

\* iter_valid_raw_rows yields the valid rows of the window, in order, numbered, each
\* with its own text or with none, and when it ends it has yielded all of them.
THEOREM WindowIsSent == Spec => []SentRowsAreTheWindow
  <1>1. ASSUME ReaderInv PROVE SentRowsAreTheWindow
    <2> DEFINE s == job["rows"]
               w == s.window
               valid == Valid(s.end)
               m == Len(valid)
               a == Amount(w, m)
               numbers == [k \in 1..a |-> FirstLine(w) + k - 1]
               Due(n) == [line |-> n, row |-> valid[n],
                          text |-> IF valid[n] =< s.size
                                   THEN [l \in 1..file[valid[n]].span |-> valid[n]] ELSE <<>>]
               rows == [k \in DOMAIN numbers |-> Due(numbers[k])]
    <2>1. SentRowsAreTheWindow <=>
            (s.alone => IsPrefix(s.out, rows) /\ (s.at = "done" => s.out = rows))
      BY ZenonT(60) DEF SentRowsAreTheWindow, Valid, Good, Amount, LastSent, LastLine, FirstLine
    <2> SUFFICES ASSUME s.alone PROVE IsPrefix(s.out, rows) /\ (s.at = "done" => s.out = rows)
      BY <2>1, Zenon
    <2>2. /\ s \in JobState /\ WithinFile(s) /\ WindowFills(s)
      <3>1. "rows" \in Jobs  BY DEF Jobs
      <3> QED  BY <1>1, <3>1 DEF ReaderInv, ReaderTypeOK
    <2>3. s.pos \in Nat /\ s.end \in Nat /\ s.pos =< s.end /\ w \in Window /\ s.out \in Seq(SentRow)
      BY <2>2 DEF JobState, WithinFile
    <2>4. /\ Len(s.out) = Amount(w, Len(Valid(s.pos)))
          /\ \A k \in 1..Len(s.out) :
                /\ FirstLine(w) + k - 1 \in 1..Len(Valid(s.pos))
                /\ s.out[k] = AsSent(s.size, FirstLine(w) + k - 1,
                                     Valid(s.pos)[FirstLine(w) + k - 1])
          /\ s.at = "done" => Len(s.out) = a
      BY <2>2 DEF WindowFills
    <2>5. /\ Len(Valid(s.pos)) \in Nat /\ m \in Nat /\ Len(Valid(s.pos)) =< m
          /\ \A i \in 1..Len(Valid(s.pos)) : valid[i] = Valid(s.pos)[i]
      BY <2>3, ValidBegins
    <2>6. a \in Nat /\ Len(s.out) =< a /\ Len(s.out) \in Nat
      BY <2>3, <2>4, <2>5, AmountGrows, LenProperties
    <2> HIDE DEF m, a, valid, w
    <2>7. \A k \in 1..a : rows[k] = Due(FirstLine(w) + k - 1)
      <3> HIDE DEF Due
      <3> QED  OBVIOUS
    <2>8. ASSUME NEW k \in 1..Len(s.out) PROVE s.out[k] = rows[k]
      <3>1. PICK n : n = FirstLine(w) + k - 1  OBVIOUS
      <3>2. s.out[k] = AsSent(s.size, n, valid[n])  BY <2>4, <2>5, <3>1
      <3>3. rows[k] = Due(n)
        <4>1. k \in 1..a  BY <2>6
        <4> QED  BY <2>7, <3>1, <4>1
      <3>4. AsSent(s.size, n, valid[n]) = Due(n)  BY DEF AsSent, Block
      <3> QED  BY <3>2, <3>3, <3>4
    <2> HIDE DEF Due, s
    <2>9. Len(rows) = a /\ DOMAIN rows = 1..a
      <3>1. DOMAIN rows = 1..a  OBVIOUS
      <3>2. rows \in [1..a -> {rows[k] : k \in 1..a}]  OBVIOUS
      <3> HIDE DEF rows
      <3>3. rows \in Seq({rows[k] : k \in 1..a})  BY <2>6, <3>2
      <3> QED  BY <2>6, <3>1, <3>2, <3>3
    <2> DEFINE S == SentRow \cup {rows[k] : k \in 1..a}
               l == Len(s.out)
    <2>10. s.out \in Seq(S) /\ rows \in Seq(S)
      <3>1. \A q \in Seq(SentRow) : q \in Seq(S)  OBVIOUS
      <3>2. rows \in [1..a -> S]
        <4>1. rows = [k \in 1..a |-> rows[k]]  BY <2>9
        <4> HIDE DEF rows
        <4> QED  BY <4>1
      <3> HIDE DEF rows, S
      <3>3. rows \in Seq(S)  BY <2>6, <3>2
      <3> QED  BY <2>3, <3>1, <3>3
    <2> HIDE DEF rows, S
    <2>11. /\ SubSeq(s.out, 1, l) \in Seq(S) /\ Len(SubSeq(s.out, 1, l)) = l
           /\ SubSeq(rows, 1, l) \in Seq(S) /\ Len(SubSeq(rows, 1, l)) = l
           /\ \A k \in 1..l : SubSeq(s.out, 1, l)[k] = s.out[k] /\ SubSeq(rows, 1, l)[k] = rows[k]
      <3>1. \A k \in 1..l : k \in 1..Len(rows)  BY <2>6, <2>9
      <3>2. \A k \in 1..l : s.out[k] \in S /\ rows[k] \in S  BY <2>10, <3>1, ElementOfSeq
      <3>3. l \in Nat  BY <2>6
      <3> HIDE DEF l
      <3>4. ASSUME NEW q \in Seq(S), \A k \in 1..l : q[k] \in S
            PROVE  /\ SubSeq(q, 1, l) \in Seq(S) /\ Len(SubSeq(q, 1, l)) = l
                   /\ \A k \in 1..l : SubSeq(q, 1, l)[k] = q[k]
        <4>1. /\ SubSeq(q, 1, l) \in Seq(S)
              /\ Len(SubSeq(q, 1, l)) = IF 1 <= l THEN l - 1 + 1 ELSE 0
              /\ \A k \in 1..(l - 1 + 1) : SubSeq(q, 1, l)[k] = q[1 + k - 1]
          BY <3>3, <3>4, SubSeqProperties
        <4>2. l - 1 + 1 = l /\ \A k \in 1..l : 1 + k - 1 = k  BY <3>3
        <4> QED  BY <3>3, <4>1, <4>2
      <3> QED  BY <2>10, <3>2, <3>4
    <2>12. SubSeq(s.out, 1, l) = SubSeq(rows, 1, l)  BY <2>8, <2>11, SeqEqual
    <2>13. IsPrefix(s.out, rows)  BY <2>6, <2>9, <2>12 DEF IsPrefix
    <2>14. ASSUME s.at = "done" PROVE s.out = rows
      <3>1. Len(s.out) = a
        <4>1. Len(s.out) = Amount(job["rows"].window, Len(Valid(job["rows"].end)))
          BY <2>2, <2>4, <2>14 DEF a, m, w, valid, s
        <4> QED  BY <4>1 DEF a, m, w, valid, s
      <3> QED  BY <2>8, <2>9, <2>10, <3>1, SeqEqual
    <2> QED  BY <2>13, <2>14
  <1> QED  BY <1>1, ReaderSafe, PTL
-----------------------------------------------------------------------------
(* What the operators of Framer compute.                                    *)

\* A framed mode, and a record without its separator.
Framed == {"lf", "crlf"}
Chop(m, r) == SubSeq(r, 1, Len(r) + 1 - Len(Separator(m)))

\* What has been made of a stream so far.
Parts == [lines : Seq(Seq(Bytes)), rest : Seq(Bytes)]
NoParts == [lines |-> <<>>, rest |-> <<>>]

\* Byte n of s taken, when the ones before it were made v.
Turn(m, s, n, v) ==
    IF Ends(m, s, n) THEN [lines |-> Append(v.lines, Chop(m, v.rest)), rest |-> <<>>]
    ELSE [lines |-> v.lines, rest |-> Append(v.rest, s[n])]

EndsInCR(s) == s # <<>> /\ s[Len(s)] = CR

\* Byte b after s ends a separator.
Cuts(m, s, b) == b = LF /\ (m = "lf" \/ EndsInCR(s))

\* Where a separator ends, byte by byte.
LEMMA EndsIs ==
    ASSUME NEW m \in Framed, NEW s, NEW n \in Nat, n > 0
    PROVE  Ends(m, s, n) <=> /\ s[n] = LF
                             /\ m = "lf" \/ (n > 1 /\ s[n - 1] = CR)
  <1>1. CASE m = "lf"
    <2>1. Separator(m) = <<LF>>  BY <1>1 DEF Separator
    <2>2. Len(<<LF>>) = 1 /\ <<LF>>[1] = LF  OBVIOUS
    <2>3. Ends(m, s, n) <=> n >= 1 /\ \A k \in 1..1 : s[n - 1 + k] = <<LF>>[k]
      BY <2>1, <2>2 DEF Ends
    <2>4. n - 1 + 1 = n /\ 1 \in 1..1 /\ \A k \in 1..1 : k = 1  OBVIOUS
    <2> QED  BY <1>1, <2>2, <2>3, <2>4
  <1>2. CASE m = "crlf"
    <2>1. Separator(m) = <<CR, LF>>  BY <1>2 DEF Separator
    <2>2. Len(<<CR, LF>>) = 2 /\ <<CR, LF>>[1] = CR /\ <<CR, LF>>[2] = LF  OBVIOUS
    <2>3. Ends(m, s, n) <=> n >= 2 /\ \A k \in 1..2 : s[n - 2 + k] = <<CR, LF>>[k]
      BY <2>1, <2>2 DEF Ends
    <2>4. n - 2 + 1 = n - 1 /\ n - 2 + 2 = n /\ 1 \in 1..2 /\ 2 \in 1..2
          /\ \A k \in 1..2 : k = 1 \/ k = 2
      OBVIOUS
    <2>5. (\A k \in 1..2 : s[n - 2 + k] = <<CR, LF>>[k]) <=> s[n - 1] = CR /\ s[n] = LF
      BY <2>2, <2>4
    <2>6. n >= 2 <=> n > 1  OBVIOUS
    <2>7. m # "lf"  BY <1>2
    <2> QED  BY <2>3, <2>5, <2>6, <2>7
  <1> QED  BY <1>1, <1>2 DEF Framed

\* What precedes a separator is a record, at most a byte shorter than what was read of it.
LEMMA ChopIs ==
    ASSUME NEW m \in Framed, NEW r \in Seq(Bytes)
    PROVE  /\ Chop(m, r) \in Seq(Bytes) /\ (m = "lf" => Chop(m, r) = r)
           /\ Len(Chop(m, r)) =< Len(r) /\ Len(r) =< Len(Chop(m, r)) + 1
  <1> DEFINE c == Len(Separator(m))
             l == Len(r)
             e == l + 1 - c
  <1>1. c \in {1, 2} /\ (m = "lf" => c = 1)  BY DEF Framed, Separator
  <1>2. l \in Nat /\ \A k \in 1..l : r[k] \in Bytes  BY LenProperties, ElementOfSeq
  <1> HIDE DEF c, l
  <1>3. e \in Int /\ e =< l /\ e >= l - 1  BY <1>1, <1>2
  <1>4. Chop(m, r) = SubSeq(r, 1, e)  BY DEF Chop, c, l
  <1>5. \A k \in 1..e : r[k] \in Bytes  BY <1>2, <1>3
  <1> HIDE DEF e
  <1>6. /\ SubSeq(r, 1, e) \in Seq(Bytes)
        /\ Len(SubSeq(r, 1, e)) = IF 1 <= e THEN e - 1 + 1 ELSE 0
        /\ \A k \in 1..(e - 1 + 1) : SubSeq(r, 1, e)[k] = r[1 + k - 1]
    BY <1>3, <1>5, SubSeqProperties
  <1>7. ASSUME m = "lf" PROVE Chop(m, r) = r
    <2>1. e = l  BY <1>1, <1>2, <1>7 DEF e
    <2>2. Len(SubSeq(r, 1, e)) = l  BY <1>2, <1>6, <2>1
    <2>3. \A k \in 1..l : SubSeq(r, 1, e)[k] = r[k]
      <3>1. e - 1 + 1 = l /\ \A k \in 1..l : 1 + k - 1 = k  BY <1>2, <2>1
      <3> QED  BY <1>6, <3>1
    <2> QED  BY <1>4, <1>6, <2>2, <2>3, SeqEqual DEF l
  <1>8. Len(SubSeq(r, 1, e)) =< l /\ l =< Len(SubSeq(r, 1, e)) + 1  BY <1>2, <1>3, <1>6
  <1> QED  BY <1>4, <1>6, <1>7, <1>8 DEF l

\* A turn of the loop makes parts of parts.
LEMMA TurnTyped ==
    ASSUME NEW m \in Framed, NEW s \in Seq(Bytes), NEW n \in 1..Len(s), NEW v \in Parts
    PROVE  Turn(m, s, n, v) \in Parts
  <1>1. v.lines \in Seq(Seq(Bytes)) /\ v.rest \in Seq(Bytes) /\ s[n] \in Bytes
    BY ElementOfSeq DEF Parts
  <1>2. Chop(m, v.rest) \in Seq(Bytes)  BY <1>1, ChopIs
  <1> DEFINE S == Seq(Bytes)
  <1>3. Append(v.rest, s[n]) \in S  BY <1>1, AppendProperties
  <1>4. Append(v.lines, Chop(m, v.rest)) \in Seq(S)
    <2>1. v.lines \in Seq(S) /\ Chop(m, v.rest) \in S  BY <1>1, <1>2
    <2> HIDE DEF S
    <2> QED  BY <2>1, AppendProperties
  <1>5. <<>> \in S  BY EmptySeq
  <1> QED  BY <1>1, <1>3, <1>4, <1>5 DEF Turn, Parts

\* f takes the bytes of s one after the other.
TakesBytes(f, m, s) ==
    /\ f \in [0..Len(s) -> Parts] /\ f[0] = NoParts
    /\ \A n \in 1..Len(s) : f[n] = Turn(m, s, n, f[n - 1])

\* Split(m, s) is the last value of such a function.
LEMMA SplitTakes ==
    ASSUME NEW m \in Framed, NEW s \in Seq(Bytes)
    PROVE  \E f : TakesBytes(f, m, s) /\ Split(m, s) = f[Len(s)]
  <1> DEFINE l == Len(s)
             F == [n \in 1..l |-> [v \in Parts |-> Turn(m, s, n, v)]]
             at[n \in 0..Len(s)] ==
                IF n = 0 THEN [lines |-> <<>>, rest |-> <<>>]
                ELSE LET before == at[n - 1].rest IN
                     IF Ends(m, s, n)
                     THEN [lines |-> Append(at[n - 1].lines,
                                            SubSeq(before, 1, Len(before) + 1 - Len(Separator(m)))),
                           rest |-> <<>>]
                     ELSE [lines |-> at[n - 1].lines, rest |-> Append(before, s[n])]
  <1>1. l \in Nat  BY LenProperties
  <1>2. F \in [1..l -> [Parts -> Parts]]
    <2>1. \A n \in 1..l : \A v \in Parts : Turn(m, s, n, v) \in Parts  BY TurnTyped
    <2> HIDE DEF l
    <2> QED  BY <2>1
  <1>3. NoParts \in Parts
    <2>1. <<>> \in Seq(Seq(Bytes)) /\ <<>> \in Seq(Bytes)  BY EmptySeq
    <2> QED  BY <2>1 DEF NoParts, Parts
  <1> HIDE DEF l
  <1>4. PICK f : /\ f \in [0..l -> Parts] /\ f[0] = NoParts
                 /\ \A k \in 1..l : f[k] = F[k][f[k - 1]]
    <2> HIDE DEF F, at
    <2>1. PICK f : Loop(f, l, Parts, NoParts, F)  BY <1>1, <1>2, <1>3, Unrolls, Zenon
    <2> QED  BY <2>1 DEF Loop
  <1>5. ASSUME NEW k \in 1..l PROVE f[k] = Turn(m, s, k, f[k - 1])
    <2>1. k - 1 \in 0..l  BY <1>1
    <2>2. f[k - 1] \in Parts  BY <1>4, <2>1
    <2> QED  BY <1>4, <2>2
  <1>6. f = [n \in 0..l |-> IF n = 0 THEN NoParts ELSE Turn(m, s, n, f[n - 1])]
    <2>1. ASSUME NEW n \in 0..l
          PROVE  f[n] = IF n = 0 THEN NoParts ELSE Turn(m, s, n, f[n - 1])
      <3>1. CASE n = 0  BY <1>4, <3>1
      <3>2. CASE n # 0
        <4>1. n \in 1..l  BY <1>1, <3>2
        <4> QED  BY <1>5, <3>2, <4>1
      <3> QED  BY <3>1, <3>2
    <2>2. f = [n \in 0..l |-> f[n]]  BY <1>4, Zenon
    <2> QED  BY <2>1, <2>2, Zenon
  <1>7. at = [n \in 0..Len(s) |-> IF n = 0 THEN NoParts ELSE Turn(m, s, n, at[n - 1])]
    BY <1>6, Zenon DEF l, Turn, Chop, NoParts
  <1>8. Split(m, s) = at[l]  BY DEF Split, l
  <1> HIDE DEF at
  <1>9. ASSUME NEW k \in 1..l PROVE at[k] = Turn(m, s, k, at[k - 1])
    <2>1. k \in 0..Len(s) /\ k # 0  BY <1>1 DEF l
    <2> QED  BY <1>7, <2>1, Zenon
  <1>10. at[0] = NoParts
    <2>1. 0 \in 0..Len(s)  BY <1>1 DEF l
    <2> QED  BY <1>7, <2>1, Zenon
  <1>11. at[l] = f[l]
    <2>1. \A k \in 1..l : at[k - 1] = f[k - 1] => at[k] = f[k]  BY <1>5, <1>9, Zenon
    <2>2. at[0] = f[0]  BY <1>4, <1>10
    <2> HIDE DEF F
    <2> QED  BY <1>1, <2>1, <2>2, RunsAgree, Zenon
  <1>12. TakesBytes(f, m, s)  BY <1>4, <1>5 DEF TakesBytes, l
  <1> QED  BY <1>8, <1>11, <1>12 DEF l

\* One byte more.
LEMMA SplitStep ==
    ASSUME NEW m \in Framed, NEW s \in Seq(Bytes), NEW b \in Bytes
    PROVE  /\ Split(m, s) \in Parts
           /\ Split(m, Append(s, b)) =
                IF Cuts(m, s, b)
                THEN [lines |-> Append(Split(m, s).lines, Chop(m, Split(m, s).rest)), rest |-> <<>>]
                ELSE [lines |-> Split(m, s).lines, rest |-> Append(Split(m, s).rest, b)]
  <1> DEFINE t == Append(s, b)
             l == Len(s)
  <1>1. /\ t \in Seq(Bytes) /\ Len(t) = l + 1 /\ t[l + 1] = b /\ l \in Nat
        /\ \A i \in 1..l : t[i] = s[i]
        /\ (s # <<>> <=> l > 0)
    BY AppendProperties, LenProperties, EmptySeq
  <1>2. PICK f : TakesBytes(f, m, s) /\ Split(m, s) = f[l]  BY SplitTakes
  <1> HIDE DEF t
  <1>3. PICK g : TakesBytes(g, m, t) /\ Split(m, t) = g[Len(t)]  BY <1>1, SplitTakes
  <1>4. /\ f \in [0..l -> Parts] /\ f[0] = NoParts
        /\ \A n \in 1..l : f[n] = Turn(m, s, n, f[n - 1])
    BY <1>2 DEF TakesBytes
  <1>5. g[0] = NoParts /\ \A n \in 1..(l + 1) : g[n] = Turn(m, t, n, g[n - 1])
    BY <1>1, <1>3 DEF TakesBytes
  <1>6. EndsInCR(s) <=> l > 0 /\ s[l] = CR  BY <1>1 DEF EndsInCR, l
  <1> HIDE DEF l
  <1>7. ASSUME NEW n \in 1..l, g[n - 1] = f[n - 1] PROVE g[n] = f[n]
    <2>1. n \in 1..(l + 1) /\ n \in Nat /\ n > 0 /\ (n > 1 => n - 1 \in 1..l)  BY <1>1
    <2>2. Ends(m, t, n) <=> Ends(m, s, n)  BY <1>1, <2>1, EndsIs
    <2>3. t[n] = s[n]  BY <1>1
    <2>4. Turn(m, t, n, g[n - 1]) = Turn(m, s, n, f[n - 1])  BY <1>7, <2>2, <2>3 DEF Turn
    <2> QED  BY <1>4, <1>5, <2>1, <2>4
  <1>8. g[l] = f[l]
    <2>1. l \in Nat /\ g[0] = f[0] /\ \A n \in 1..l : g[n - 1] = f[n - 1] => g[n] = f[n]
      BY <1>1, <1>4, <1>5, <1>7
    <2> QED  BY <2>1, RunsAgree, Zenon
  <1>9. l + 1 \in 1..(l + 1) /\ l + 1 - 1 = l /\ l \in 0..l /\ l + 1 \in Nat /\ l + 1 > 0
        /\ (l > 0 => l \in 1..l) /\ (l + 1 > 1 <=> l > 0)
    BY <1>1
  <1>10. g[l + 1] = Turn(m, t, l + 1, f[l])
    <2>1. PICK p : p = l + 1  OBVIOUS
    <2>2. p \in 1..(l + 1) /\ p - 1 = l  BY <1>1, <2>1
    <2>3. g[p] = Turn(m, t, p, g[p - 1])  BY <1>5, <2>2
    <2> QED  BY <1>8, <2>1, <2>2, <2>3
  <1>11. Ends(m, t, l + 1) <=> Cuts(m, s, b)
    <2>1. Ends(m, t, l + 1) <=> t[l + 1] = LF /\ (m = "lf" \/ (l > 0 /\ t[l] = CR))
      BY <1>9, EndsIs
    <2>2. l > 0 => t[l] = s[l]  BY <1>1, <1>9
    <2> QED  BY <1>1, <1>6, <2>1, <2>2 DEF Cuts
  <1>12. Split(m, t) = Turn(m, t, l + 1, Split(m, s))  BY <1>1, <1>2, <1>3, <1>10
  <1>13. Split(m, s) \in Parts  BY <1>2, <1>4, <1>9
  <1> QED  BY <1>1, <1>11, <1>12, <1>13 DEF Turn, t

\* No bytes, no records and no tail.
LEMMA SplitEmpty ==
    ASSUME NEW m \in Framed
    PROVE  Split(m, <<>>) = NoParts
  <1>1. <<>> \in Seq(Bytes) /\ Len(<<>>) = 0  BY EmptySeq
  <1>2. PICK f : TakesBytes(f, m, <<>>) /\ Split(m, <<>>) = f[0]  BY <1>1, SplitTakes
  <1> QED  BY <1>2 DEF TakesBytes

\* To concatenate a longer sequence is to append later.
LEMMA AppendLater ==
    ASSUME NEW S, NEW s \in Seq(S), NEW t \in Seq(S), NEW x \in S
    PROVE  s \o Append(t, x) = Append(s \o t, x) /\ s \o t \in Seq(S)
  <1>1. Append(t, x) = t \o <<x>>  BY AppendIsConcat
  <1>2. <<x>> \in Seq(S)  OBVIOUS
  <1>3. s \o t \in Seq(S)  BY ConcatProperties
  <1>4. Append(s \o t, x) = (s \o t) \o <<x>>  BY <1>3, AppendIsConcat
  <1>5. (s \o t) \o <<x>> = s \o (t \o <<x>>)  BY <1>2, ConcatAssociative
  <1> QED  BY <1>1, <1>3, <1>4, <1>5

\* What follows of a byte more, for the parts one by one.
LEMMA LineStep ==
    ASSUME NEW m \in Framed, NEW s \in Seq(Bytes), NEW b \in Bytes
    PROVE  /\ Split(m, s).lines \in Seq(Seq(Bytes)) /\ Split(m, s).rest \in Seq(Bytes)
           /\ Len(Split(m, s).lines) \in Nat /\ Len(Split(m, s).rest) \in Nat
           /\ Cuts(m, s, b) =>
                 /\ Split(m, Append(s, b)).rest = <<>>
                 /\ Split(m, Append(s, b)).lines
                      = Append(Split(m, s).lines, Chop(m, Split(m, s).rest))
           /\ ~Cuts(m, s, b) =>
                 /\ Split(m, Append(s, b)).rest = Append(Split(m, s).rest, b)
                 /\ Split(m, Append(s, b)).lines = Split(m, s).lines
  <1>1. Split(m, s).lines \in Seq(Seq(Bytes)) /\ Split(m, s).rest \in Seq(Bytes)
    BY SplitStep DEF Parts
  <1>2. Len(Split(m, s).lines) \in Nat /\ Len(Split(m, s).rest) \in Nat
    BY <1>1, LenProperties
  <1> DEFINE c == Cuts(m, s, b)
             l == Append(Split(m, s).lines, Chop(m, Split(m, s).rest))
             r == Append(Split(m, s).rest, b)
  <1>3. Split(m, Append(s, b)) = IF c THEN [lines |-> l, rest |-> <<>>]
                                 ELSE [lines |-> Split(m, s).lines, rest |-> r]
    BY SplitStep
  <1> HIDE DEF c, l, r
  <1> QED  BY <1>1, <1>2, <1>3 DEF c, l, r

\* The last byte of a sequence a byte was appended to.
LEMMA LastOf ==
    ASSUME NEW s \in Seq(Bytes), NEW b \in Bytes
    PROVE  Append(s, b) \in Seq(Bytes) /\ Append(s, b) # <<>> /\ (EndsInCR(Append(s, b)) <=> b = CR)
           /\ ~EndsInCR(<<>>)
  BY AppendProperties, EmptySeq DEF EndsInCR

\* The tail alone has no separator, and what the next byte makes of it it makes of
\* the stream.
LEMMA TailAlone ==
    ASSUME NEW m \in Framed, NEW s \in Seq(Bytes)
    PROVE  /\ Split(m, Split(m, s).rest) = [lines |-> <<>>, rest |-> Split(m, s).rest]
           /\ EndsInCR(Split(m, s).rest) <=> EndsInCR(s)
  <1> DEFINE P(u) == /\ Split(m, Split(m, u).rest) = [lines |-> <<>>, rest |-> Split(m, u).rest]
                     /\ EndsInCR(Split(m, u).rest) <=> EndsInCR(u)
             T == {u \in Seq(Bytes) : P(u)}
  <1>1. <<>> \in T
    <2>1. Split(m, <<>>) = NoParts /\ <<>> \in Seq(Bytes)  BY SplitEmpty, EmptySeq
    <2>2. Split(m, <<>>).rest = <<>>  BY <2>1 DEF NoParts
    <2> QED  BY <2>1, <2>2 DEF NoParts
  <1>2. ASSUME NEW u \in Seq(Bytes), NEW b \in Bytes, u \in T PROVE Append(u, b) \in T
    <2>1. PICK v : v = Append(u, b)  OBVIOUS
    <2>2. v \in Seq(Bytes) /\ (EndsInCR(v) <=> b = CR)  BY <2>1, LastOf
    <2>3. P(u)  BY <1>2
    <2>4. PICK r : r = Split(m, u).rest  OBVIOUS
    <2>5. r \in Seq(Bytes)  BY <2>4, LineStep
    <2>6. P(v)
      <3>1. CASE Cuts(m, u, b)
        <4>1. Split(m, v).rest = <<>> /\ b # CR
          BY <2>1, <3>1, FramerAssumption, LineStep DEF Cuts
        <4>2. ~EndsInCR(<<>>)  BY LastOf
        <4>3. Split(m, <<>>) = [lines |-> <<>>, rest |-> <<>>]  BY SplitEmpty DEF NoParts
        <4> QED  BY <2>2, <4>1, <4>2, <4>3
      <3>2. CASE ~Cuts(m, u, b)
        <4>1. Split(m, v).rest = Append(r, b)  BY <2>1, <2>4, <3>2, LineStep
        <4>2. ~Cuts(m, r, b)  BY <2>3, <2>4, <3>2 DEF Cuts
        <4>3. Split(m, r) = [lines |-> <<>>, rest |-> r]  BY <2>3, <2>4
        <4>4. Split(m, Append(r, b)) = [lines |-> <<>>, rest |-> Append(r, b)]
          <5>1. Split(m, Append(r, b))
                  = [lines |-> Split(m, r).lines, rest |-> Append(Split(m, r).rest, b)]
            BY <2>5, <4>2, SplitStep
          <5> QED  BY <4>3, <5>1
        <4>5. EndsInCR(Append(r, b)) <=> b = CR  BY <2>5, LastOf
        <4> QED  BY <2>2, <4>1, <4>4, <4>5
      <3> QED  BY <3>1, <3>2
    <2> HIDE DEF P
    <2> QED  BY <2>1, <2>2, <2>6
  <1> HIDE DEF P, T
  <1>3. s \in T  BY <1>1, <1>2, SeqUp
  <1> QED  BY <1>3 DEF P, T

\* Going on with the tail is going on with the stream.
LEMMA GoesOn ==
    ASSUME NEW m \in Framed, NEW s \in Seq(Bytes), NEW t \in Seq(Bytes)
    PROVE  LET r == Split(m, s).rest IN
           /\ Split(m, s \o t).lines = Split(m, s).lines \o Split(m, r \o t).lines
           /\ Split(m, s \o t).rest = Split(m, r \o t).rest
  <1> DEFINE L == Split(m, s).lines
             r == Split(m, s).rest
             P(u) == /\ Split(m, s \o u).lines = L \o Split(m, r \o u).lines
                     /\ Split(m, s \o u).rest = Split(m, r \o u).rest
             T == {u \in Seq(Bytes) : P(u)}
  <1>1. L \in Seq(Seq(Bytes)) /\ r \in Seq(Bytes)
    <2>1. LF \in Bytes  BY FramerAssumption
    <2> QED  BY <2>1, LineStep
  <1>2. Split(m, r) = [lines |-> <<>>, rest |-> r] /\ (EndsInCR(r) <=> EndsInCR(s))
    BY TailAlone
  <1> HIDE DEF L, r
  <1>3. <<>> \in T
    <2>1. s \o <<>> = s /\ r \o <<>> = r /\ L \o <<>> = L /\ <<>> \in Seq(Bytes)
      BY <1>1, ConcatEmptySeq, EmptySeq
    <2>2. Split(m, r \o <<>>).lines = <<>> /\ Split(m, r \o <<>>).rest = r  BY <1>2, <2>1
    <2> QED  BY <2>1, <2>2 DEF L, r
  <1>4. ASSUME NEW u \in Seq(Bytes), NEW b \in Bytes, u \in T PROVE Append(u, b) \in T
    <2>1. PICK x, y : x = s \o u /\ y = r \o u  OBVIOUS
    <2>2. /\ x \in Seq(Bytes) /\ y \in Seq(Bytes)
          /\ s \o Append(u, b) = Append(x, b) /\ r \o Append(u, b) = Append(y, b)
          /\ Append(u, b) \in Seq(Bytes)
      BY <1>1, <2>1, AppendLater, AppendProperties, SMTT(40)
    <2>3. P(u)  BY <1>4
    <2>4. EndsInCR(x) <=> EndsInCR(y)
      <3>1. CASE u = <<>>
        <4>1. x = s /\ y = r  BY <1>1, <2>1, <3>1, ConcatEmptySeq
        <4> QED  BY <1>2, <4>1
      <3>2. CASE u # <<>>
        <4>1. PICK w \in Seq(Bytes), c \in Bytes : u = Append(w, c)
          BY <3>2, SequenceEmptyOrAppend
        <4>2. /\ x = Append(s \o w, c) /\ s \o w \in Seq(Bytes)
              /\ y = Append(r \o w, c) /\ r \o w \in Seq(Bytes)
          <5>1. s \o Append(w, c) = Append(s \o w, c) /\ s \o w \in Seq(Bytes)
            BY <4>1, AppendLater
          <5>2. r \o Append(w, c) = Append(r \o w, c) /\ r \o w \in Seq(Bytes)
            BY <1>1, <4>1, AppendLater
          <5> QED  BY <2>1, <4>1, <5>1, <5>2
        <4>3. (EndsInCR(x) <=> c = CR) /\ (EndsInCR(y) <=> c = CR)  BY <4>2, LastOf
        <4> QED  BY <4>3
      <3> QED  BY <3>1, <3>2
    <2>5. PICK ly, ry : ly = Split(m, y).lines /\ ry = Split(m, y).rest  OBVIOUS
    <2>6. /\ ly \in Seq(Seq(Bytes)) /\ ry \in Seq(Bytes)
          /\ Split(m, x).lines = L \o ly /\ Split(m, x).rest = ry
      BY <2>1, <2>2, <2>3, <2>5, LineStep
    <2>7. /\ Split(m, Append(x, b)).lines = L \o Split(m, Append(y, b)).lines
          /\ Split(m, Append(x, b)).rest = Split(m, Append(y, b)).rest
      <3>1. CASE Cuts(m, x, b)
        <4>1. Cuts(m, y, b)  BY <2>4, <3>1 DEF Cuts
        <4>2. /\ Split(m, Append(x, b)).lines = Append(L \o ly, Chop(m, ry))
              /\ Split(m, Append(y, b)).lines = Append(ly, Chop(m, ry))
              /\ Split(m, Append(x, b)).rest = <<>> /\ Split(m, Append(y, b)).rest = <<>>
          <5>1. /\ Split(m, Append(x, b)).rest = <<>>
                /\ Split(m, Append(x, b)).lines = Append(Split(m, x).lines, Chop(m, Split(m, x).rest))
            BY <2>2, <3>1, LineStep
          <5>2. /\ Split(m, Append(y, b)).rest = <<>>
                /\ Split(m, Append(y, b)).lines = Append(Split(m, y).lines, Chop(m, Split(m, y).rest))
            BY <2>2, <4>1, LineStep
          <5> QED  BY <2>5, <2>6, <5>1, <5>2
        <4>3. L \o Append(ly, Chop(m, ry)) = Append(L \o ly, Chop(m, ry))
          <5> DEFINE S == Seq(Bytes)
                     z == Chop(m, ry)
          <5>1. L \in Seq(S) /\ ly \in Seq(S) /\ z \in S  BY <1>1, <2>6, ChopIs
          <5> HIDE DEF S, z
          <5>2. L \o Append(ly, z) = Append(L \o ly, z)  BY <5>1, AppendLater
          <5> QED  BY <5>2 DEF z
        <4> QED  BY <4>2, <4>3
      <3>2. CASE ~Cuts(m, x, b)
        <4>1. ~Cuts(m, y, b)  BY <2>4, <3>2 DEF Cuts
        <4>2. /\ Split(m, Append(x, b)).rest = Append(Split(m, x).rest, b)
              /\ Split(m, Append(x, b)).lines = Split(m, x).lines
          BY <2>2, <3>2, LineStep
        <4>3. /\ Split(m, Append(y, b)).rest = Append(Split(m, y).rest, b)
              /\ Split(m, Append(y, b)).lines = Split(m, y).lines
          BY <2>2, <4>1, LineStep
        <4> QED  BY <2>5, <2>6, <4>2, <4>3
      <3> QED  BY <3>1, <3>2
    <2>8. P(Append(u, b))  BY <2>2, <2>7
    <2> QED  BY <2>2, <2>8
  <1> HIDE DEF P, T
  <1>5. t \in T  BY <1>3, <1>4, SeqUp
  <1> QED  BY <1>5 DEF P, T, L, r

\* What comes before a stream takes none of its lines from it, and leaves it its tail
\* once it has a line.
LEMMA SuffixLines ==
    ASSUME NEW m \in Framed, NEW r \in Seq(Bytes), NEW t \in Seq(Bytes)
    PROVE  /\ Len(Split(m, r \o t).lines) >= Len(Split(m, t).lines)
           /\ Split(m, t).lines # <<>> => Split(m, r \o t).rest = Split(m, t).rest
  <1> DEFINE P(u) == /\ Len(Split(m, r \o u).lines) >= Len(Split(m, u).lines)
                     /\ Split(m, u).lines # <<>> => Split(m, r \o u).rest = Split(m, u).rest
             T == {u \in Seq(Bytes) : P(u)}
  <1>1. Split(m, <<>>).lines = <<>> /\ Len(<<>>) = 0 /\ <<>> \in Seq(Bytes)
    BY SplitEmpty, EmptySeq DEF NoParts
  <1>2. <<>> \in T
    <2>1. Len(Split(m, r).lines) \in Nat /\ r \o <<>> = r
      <3>1. LF \in Bytes  BY FramerAssumption
      <3> QED  BY <3>1, LineStep, ConcatEmptySeq
    <2> QED  BY <1>1, <2>1
  <1>3. ASSUME NEW u \in Seq(Bytes), NEW b \in Bytes, u \in T PROVE Append(u, b) \in T
    <2>1. PICK x : x = r \o u  OBVIOUS
    <2>2. x \in Seq(Bytes) /\ r \o Append(u, b) = Append(x, b) /\ Append(u, b) \in Seq(Bytes)
      BY <2>1, AppendLater, AppendProperties
    <2>3. P(u)  BY <1>3
    <2>4. u # <<>> => (EndsInCR(x) <=> EndsInCR(u))
      <3> SUFFICES ASSUME u # <<>> PROVE EndsInCR(x) <=> EndsInCR(u)  OBVIOUS
      <3>1. PICK w \in Seq(Bytes), c \in Bytes : u = Append(w, c)
        BY SequenceEmptyOrAppend
      <3>2. x = Append(r \o w, c) /\ r \o w \in Seq(Bytes)  BY <2>1, <3>1, AppendLater
      <3>3. EndsInCR(x) <=> c = CR  BY <3>2, LastOf
      <3> QED  BY <3>1, <3>3, LastOf
    <2>5. /\ Split(m, x).lines \in Seq(Seq(Bytes)) /\ Split(m, x).rest \in Seq(Bytes)
          /\ Cuts(m, x, b) =>
                /\ Split(m, Append(x, b)).rest = <<>>
                /\ Split(m, Append(x, b)).lines
                     = Append(Split(m, x).lines, Chop(m, Split(m, x).rest))
          /\ ~Cuts(m, x, b) =>
                /\ Split(m, Append(x, b)).rest = Append(Split(m, x).rest, b)
                /\ Split(m, Append(x, b)).lines = Split(m, x).lines
      BY <2>2, LineStep
    <2>6. /\ Split(m, u).lines \in Seq(Seq(Bytes)) /\ Split(m, u).rest \in Seq(Bytes)
          /\ Cuts(m, u, b) =>
                /\ Split(m, Append(u, b)).rest = <<>>
                /\ Split(m, Append(u, b)).lines
                     = Append(Split(m, u).lines, Chop(m, Split(m, u).rest))
          /\ ~Cuts(m, u, b) =>
                /\ Split(m, Append(u, b)).rest = Append(Split(m, u).rest, b)
                /\ Split(m, Append(u, b)).lines = Split(m, u).lines
      BY LineStep
    <2>7. /\ Len(Append(Split(m, x).lines, Chop(m, Split(m, x).rest))) = Len(Split(m, x).lines) + 1
          /\ Len(Append(Split(m, u).lines, Chop(m, Split(m, u).rest))) = Len(Split(m, u).lines) + 1
          /\ Len(Split(m, x).lines) \in Nat /\ Len(Split(m, u).lines) \in Nat
      <3> DEFINE S == Seq(Bytes)
      <3>1. ASSUME NEW l \in Seq(S), NEW z \in S PROVE Len(Append(l, z)) = Len(l) + 1 /\ Len(l) \in Nat
        <4> HIDE DEF S
        <4> QED  BY <3>1, AppendProperties, LenProperties
      <3>2. Chop(m, Split(m, x).rest) \in S /\ Chop(m, Split(m, u).rest) \in S
        BY <2>5, <2>6, ChopIs
      <3> QED  BY <2>5, <2>6, <3>1, <3>2
    <2>8. P(Append(u, b))
      <3>1. CASE Cuts(m, u, b)
        <4>1. Cuts(m, x, b)
          <5>1. EndsInCR(u) => EndsInCR(x)
            <6>1. ~EndsInCR(<<>>)  BY DEF EndsInCR
            <6> QED  BY <2>4, <6>1
          <5> QED  BY <3>1, <5>1 DEF Cuts
        <4>2. /\ Len(Split(m, Append(x, b)).lines) = Len(Split(m, x).lines) + 1
              /\ Len(Split(m, Append(u, b)).lines) = Len(Split(m, u).lines) + 1
              /\ Split(m, Append(x, b)).rest = <<>> /\ Split(m, Append(u, b)).rest = <<>>
          BY <2>5, <2>6, <2>7, <3>1, <4>1
        <4>3. Len(Split(m, x).lines) >= Len(Split(m, u).lines)  BY <2>1, <2>3
        <4>4. Len(Split(m, Append(x, b)).lines) >= Len(Split(m, Append(u, b)).lines)
          BY <2>7, <4>2, <4>3
        <4> QED  BY <2>2, <4>2, <4>4
      <3>2. CASE ~Cuts(m, u, b) /\ Cuts(m, x, b)
        <4>1. u = <<>>  BY <2>4, <3>2 DEF Cuts
        <4>2. Split(m, Append(u, b)).lines = <<>>  BY <1>1, <2>6, <3>2, <4>1
        <4>3. Len(Split(m, Append(x, b)).lines) >= 0  BY <2>5, <2>7, <3>2
        <4> QED  BY <1>1, <2>2, <4>2, <4>3
      <3>3. CASE ~Cuts(m, u, b) /\ ~Cuts(m, x, b)
        BY <2>1, <2>2, <2>3, <2>5, <2>6, <3>3
      <3> QED  BY <3>1, <3>2, <3>3
    <2> QED  BY <2>2, <2>8
  <1> HIDE DEF P, T
  <1>4. t \in T  BY <1>2, <1>3, SeqUp
  <1> QED  BY <1>4 DEF P, T

\* In LF mode what comes before, if it has no separator, lengthens the first line or
\* the tail, and nothing else.
LEMMA LfPrefix ==
    ASSUME NEW r \in Seq(Bytes), Split("lf", r).lines = <<>>, Split("lf", r).rest = r,
           NEW t \in Seq(Bytes)
    PROVE  LET all == Split("lf", r \o t)
               own == Split("lf", t)
           IN /\ Len(all.lines) = Len(own.lines)
              /\ own.lines = <<>> => all.rest = r \o own.rest
              /\ own.lines # <<>> => all.lines[1] = r \o own.lines[1] /\ all.rest = own.rest
              /\ \A k \in 2..Len(own.lines) : all.lines[k] = own.lines[k]
  <1> DEFINE A(u) == Split("lf", r \o u)
             O(u) == Split("lf", u)
             P(u) == /\ Len(A(u).lines) = Len(O(u).lines)
                     /\ O(u).lines = <<>> => A(u).rest = r \o O(u).rest
                     /\ O(u).lines # <<>> => /\ A(u).lines[1] = r \o O(u).lines[1]
                                             /\ A(u).rest = O(u).rest
                     /\ \A k \in 2..Len(O(u).lines) : A(u).lines[k] = O(u).lines[k]
             T == {u \in Seq(Bytes) : P(u)}
             S == Seq(Bytes)
  <1>1. "lf" \in Framed  BY DEF Framed
  <1>2. <<>> \in T
    <2>1. r \o <<>> = r /\ <<>> \in Seq(Bytes) /\ Len(<<>>) = 0  BY ConcatEmptySeq, EmptySeq
    <2>2. O(<<>>).lines = <<>> /\ O(<<>>).rest = <<>>  BY <1>1, SplitEmpty DEF NoParts
    <2>3. A(<<>>).lines = <<>> /\ A(<<>>).rest = r  BY <2>1
    <2> HIDE DEF A, O
    <2>4. P(<<>>)  BY <2>1, <2>2, <2>3
    <2> QED  BY <2>1, <2>4
  <1>3. ASSUME NEW u \in Seq(Bytes), NEW b \in Bytes, u \in T PROVE Append(u, b) \in T
    <2>1. PICK x : x = r \o u  OBVIOUS
    <2>2. x \in Seq(Bytes) /\ r \o Append(u, b) = Append(x, b) /\ Append(u, b) \in Seq(Bytes)
      BY <2>1, AppendLater, AppendProperties
    <2>3. PICK v : v = Append(u, b)  OBVIOUS
    <2>4. /\ A(u).lines \in Seq(S) /\ A(u).rest \in S
          /\ b = LF => A(v).rest = <<>> /\ A(v).lines = Append(A(u).lines, A(u).rest)
          /\ b # LF => A(v).rest = Append(A(u).rest, b) /\ A(v).lines = A(u).lines
      <3>1. Chop("lf", Split("lf", x).rest) = Split("lf", x).rest
        BY <1>1, <2>2, ChopIs, LineStep
      <3>2. Cuts("lf", x, b) <=> b = LF  BY DEF Cuts
      <3>3. /\ Split("lf", x).lines \in Seq(S) /\ Split("lf", x).rest \in S
            /\ Cuts("lf", x, b) =>
                  /\ Split("lf", Append(x, b)).rest = <<>>
                  /\ Split("lf", Append(x, b)).lines
                       = Append(Split("lf", x).lines, Chop("lf", Split("lf", x).rest))
            /\ ~Cuts("lf", x, b) =>
                  /\ Split("lf", Append(x, b)).rest = Append(Split("lf", x).rest, b)
                  /\ Split("lf", Append(x, b)).lines = Split("lf", x).lines
        BY <1>1, <2>2, LineStep
      <3> QED  BY <2>1, <2>2, <2>3, <3>1, <3>2, <3>3
    <2>5. /\ O(u).lines \in Seq(S) /\ O(u).rest \in S
          /\ b = LF => O(v).rest = <<>> /\ O(v).lines = Append(O(u).lines, O(u).rest)
          /\ b # LF => O(v).rest = Append(O(u).rest, b) /\ O(v).lines = O(u).lines
      <3>1. Chop("lf", Split("lf", u).rest) = Split("lf", u).rest
        BY <1>1, ChopIs, LineStep
      <3>2. Cuts("lf", u, b) <=> b = LF  BY DEF Cuts
      <3>3. /\ Split("lf", u).lines \in Seq(S) /\ Split("lf", u).rest \in S
            /\ Cuts("lf", u, b) =>
                  /\ Split("lf", Append(u, b)).rest = <<>>
                  /\ Split("lf", Append(u, b)).lines
                       = Append(Split("lf", u).lines, Chop("lf", Split("lf", u).rest))
            /\ ~Cuts("lf", u, b) =>
                  /\ Split("lf", Append(u, b)).rest = Append(Split("lf", u).rest, b)
                  /\ Split("lf", Append(u, b)).lines = Split("lf", u).lines
        BY <1>1, LineStep
      <3> QED  BY <2>3, <3>1, <3>2, <3>3
    <2>6. P(u)  BY <1>3
    <2> HIDE DEF A, O
    <2> DEFINE L == A(u).lines
               M == O(u).lines
               n == Len(M)
    <2>7. L \in Seq(S) /\ M \in Seq(S) /\ Len(L) = n /\ n \in Nat /\ (M = <<>> <=> n = 0)
      BY <2>4, <2>5, <2>6, LenProperties, EmptySeq
    <2>8. CASE b = LF
      <3>1. /\ Len(A(v).lines) = n + 1 /\ Len(O(v).lines) = n + 1 /\ O(v).lines # <<>>
            /\ \A k \in 1..n : A(v).lines[k] = L[k] /\ O(v).lines[k] = M[k]
            /\ A(v).lines[n + 1] = A(u).rest /\ O(v).lines[n + 1] = O(u).rest
            /\ A(v).rest = <<>> /\ O(v).rest = <<>>
        <4>1. A(v).lines = Append(L, A(u).rest) /\ O(v).lines = Append(M, O(u).rest)
          BY <2>4, <2>5, <2>8
        <4>2. A(u).rest \in S /\ O(u).rest \in S  BY <2>4, <2>5
        <4>3. A(v).rest = <<>> /\ O(v).rest = <<>>  BY <2>4, <2>5, <2>8
        <4> HIDE DEF L, M, S
        <4>4. /\ Len(A(v).lines) = n + 1 /\ \A k \in 1..n : A(v).lines[k] = L[k]
              /\ A(v).lines[n + 1] = A(u).rest
          BY <2>7, <4>1, <4>2, AppendProperties
        <4>5. /\ Len(O(v).lines) = n + 1 /\ \A k \in 1..n : O(v).lines[k] = M[k]
              /\ O(v).lines[n + 1] = O(u).rest /\ O(v).lines # <<>>
          BY <2>7, <4>1, <4>2, AppendProperties
        <4> QED  BY <4>3, <4>4, <4>5
      <3>2. CASE n = 0
        <4>1. A(v).lines[1] = r \o O(v).lines[1]
          <5>1. A(u).rest = r \o O(u).rest  BY <2>6, <2>7, <3>2
          <5>2. n + 1 = 1  BY <3>2
          <5> QED  BY <3>1, <5>1, <5>2
        <4>2. \A k \in 2..(n + 1) : FALSE  BY <3>2
        <4>3. P(v)  BY <3>1, <4>1, <4>2
        <4> QED  BY <2>2, <2>3, <4>3
      <3>3. CASE n # 0
        <4>1. M # <<>> /\ 1 \in 1..n  BY <2>7, <3>3
        <4>2. /\ L[1] = r \o M[1] /\ A(u).rest = O(u).rest
              /\ \A k \in 2..n : L[k] = M[k]
          BY <2>6, <4>1
        <4> HIDE DEF L, M, n
        <4>3. A(v).lines[1] = r \o O(v).lines[1]  BY <3>1, <4>1, <4>2
        <4>4. \A k \in 2..(n + 1) : A(v).lines[k] = O(v).lines[k]
          <5> SUFFICES ASSUME NEW k \in 2..(n + 1) PROVE A(v).lines[k] = O(v).lines[k]  OBVIOUS
          <5>1. CASE k \in 2..n
            <6>1. k \in 1..n  BY <2>7, <5>1
            <6> QED  BY <3>1, <4>2, <5>1, <6>1
          <5>2. CASE k = n + 1  BY <3>1, <4>2, <5>2
          <5> QED  BY <2>7, <5>1, <5>2
        <4>5. P(v)  BY <3>1, <4>3, <4>4
        <4> QED  BY <2>2, <2>3, <4>5
      <3> QED  BY <3>2, <3>3
    <2>9. CASE b # LF
      <3>1. /\ A(v).lines = L /\ O(v).lines = M
            /\ A(v).rest = Append(A(u).rest, b) /\ O(v).rest = Append(O(u).rest, b)
        BY <2>4, <2>5, <2>9
      <3>2. r \o Append(O(u).rest, b) = Append(r \o O(u).rest, b)  BY <2>5, AppendLater, SMTT(40)
      <3>3. P(v)  BY <2>6, <3>1, <3>2
      <3> QED  BY <2>2, <2>3, <3>3
    <2> QED  BY <2>8, <2>9
  <1> HIDE DEF P, T
  <1>4. t \in T  BY <1>2, <1>3, SeqUp
  <1> QED  BY <1>4 DEF P, T

-----------------------------------------------------------------------------
(* The framer's invariant.                                                  *)

\* A stream whose records are below the cap, its tail not above it.
Small(s) ==
    /\ \A k \in 1..Len(Split(mode, s).lines) : Len(Split(mode, s).lines[k]) < MaxRecord
    /\ Len(Split(mode, s).rest) =< MaxRecord

\* A record for each line of s, and n more.
LinesOut(s, n) ==
    /\ Len(out) = Len(Split(mode, s).lines) + n
    /\ \A k \in 1..Len(Split(mode, s).lines) : out[k] = Clamp(Split(mode, s).lines[k])

Record == [payload : Seq(Bytes), truncated : BOOLEAN]

FramerTyped ==
    /\ mode \in Modes /\ overflow \in BOOLEAN /\ closed \in BOOLEAN
    /\ buf \in Seq(Bytes) /\ stream \in Seq(Bytes) /\ out \in Seq(Record)
    /\ \A k \in 1..Len(out) : Len(out[k].payload) =< MaxRecord

\* The buffer is the tail of the stream.
InStep ==
    LET whole == Split(mode, stream) IN
    /\ buf = whole.rest /\ Len(buf) =< MaxRecord
    /\ Len(out) =< Len(whole.lines)
    /\ mode = "lf" \/ Small(stream) => LinesOut(stream, 0)

\* After x the stream was in the middle of a record that was emitted, and buf is
\* what came of it since.
PastTheCap(x) ==
    LET before == Split(mode, x) IN
    /\ stream = x \o buf /\ Split(mode, buf).lines = <<>>
    /\ Len(out) =< Len(before.lines) + 1
    /\ mode = "crlf" => ~Small(stream)
    /\ mode = "lf" => /\ LinesOut(x, 1) /\ out[Len(out)] = Clamp(before.rest)
                      /\ Len(before.rest) > MaxRecord

FramerInv ==
    /\ FramerTyped
    /\ mode # "raw" /\ ~closed /\ ~overflow => InStep
    /\ mode # "raw" /\ ~closed /\ overflow => \E x \in Seq(Bytes) : PastTheCap(x)
    /\ mode # "raw" /\ closed => /\ ChunkingIrrelevant
                                 /\ Len(out) =< Len(Split(mode, stream).lines) + 1

\* Without a separator all of it is tail.
LEMMA NoLineYet ==
    ASSUME NEW m \in Framed, NEW s \in Seq(Bytes), Split(m, s).lines = <<>>
    PROVE  Split(m, s).rest = s
  <1> DEFINE P(u) == Split(m, u).lines = <<>> => Split(m, u).rest = u
             T == {u \in Seq(Bytes) : P(u)}
  <1>1. <<>> \in T  BY SplitEmpty, EmptySeq DEF NoParts
  <1>2. ASSUME NEW u \in Seq(Bytes), NEW b \in Bytes, u \in T PROVE Append(u, b) \in T
    <2>1. P(u) /\ Append(u, b) \in Seq(Bytes)  BY <1>2, AppendProperties
    <2>2. CASE Cuts(m, u, b)
      <3> DEFINE S == Seq(Bytes)
                 l == Split(m, u).lines
                 z == Chop(m, Split(m, u).rest)
      <3>1. l \in Seq(S) /\ z \in S /\ Split(m, Append(u, b)).lines = Append(l, z)
        BY <2>2, LineStep, ChopIs
      <3> HIDE DEF S, l, z
      <3>2. Append(l, z) # <<>>  BY <3>1, AppendProperties
      <3> QED  BY <2>1, <3>1, <3>2
    <2>3. CASE ~Cuts(m, u, b)  BY <2>1, <2>3, LineStep, SMTT(40)
    <2> QED  BY <2>2, <2>3
  <1> HIDE DEF P, T
  <1>3. s \in T  BY <1>1, <1>2, SeqUp
  <1> QED  BY <1>3 DEF P, T

\* A stream that stays below the cap was below it before.
LEMMA SmallBefore ==
    ASSUME mode \in Framed, NEW s \in Seq(Bytes), NEW t \in Seq(Bytes), Small(s \o t)
    PROVE  Small(s)
  <1> DEFINE P(u) == Small(s \o u) => Small(s)
             T == {u \in Seq(Bytes) : P(u)}
  <1>1. <<>> \in T  BY ConcatEmptySeq, EmptySeq
  <1>2. ASSUME NEW u \in Seq(Bytes), NEW b \in Bytes, u \in T PROVE Append(u, b) \in T
    <2>1. PICK x : x = s \o u  OBVIOUS
    <2>2. /\ x \in Seq(Bytes) /\ s \o Append(u, b) = Append(x, b)
          /\ Append(u, b) \in Seq(Bytes)
      BY <2>1, AppendLater, AppendProperties
    <2>3. P(u)  BY <1>2
    <2>4. ASSUME Small(Append(x, b)) PROVE Small(x)
      <3> DEFINE S == Seq(Bytes)
                 l == Split(mode, x).lines
                 r == Split(mode, x).rest
                 z == Chop(mode, r)
      <3>1. /\ l \in Seq(S) /\ r \in S /\ z \in S /\ Len(l) \in Nat /\ Len(r) \in Nat
            /\ Len(z) \in Nat /\ Len(r) =< Len(z) + 1
        BY <2>2, LineStep, ChopIs, LenProperties
      <3>2. MaxRecord \in Nat  BY FramerAssumption
      <3>3. CASE Cuts(mode, x, b)
        <4>1. Split(mode, Append(x, b)).lines = Append(l, z)  BY <2>2, <3>3, LineStep
        <4> HIDE DEF l, r, z, S
        <4>2. /\ Len(Append(l, z)) = Len(l) + 1 /\ Append(l, z)[Len(l) + 1] = z
              /\ \A k \in 1..Len(l) : Append(l, z)[k] = l[k]
          BY <3>1, AppendProperties
        <4>3. \A k \in 1..(Len(l) + 1) : Len(Append(l, z)[k]) < MaxRecord
          BY <2>4, <4>1, <4>2 DEF Small
        <4>4. \A k \in 1..Len(l) : Len(l[k]) < MaxRecord
          <5>1. \A k \in 1..Len(l) : k \in 1..(Len(l) + 1)  BY <3>1
          <5> QED  BY <4>2, <4>3, <5>1
        <4>5. Len(z) < MaxRecord
          <5>1. Len(l) + 1 \in 1..(Len(l) + 1)  BY <3>1
          <5> QED  BY <4>2, <4>3, <5>1
        <4>6. Len(r) =< MaxRecord  BY <3>1, <3>2, <4>5
        <4> QED  BY <4>4, <4>6 DEF Small, l, r
      <3>4. CASE ~Cuts(mode, x, b)
        <4>1. /\ Split(mode, Append(x, b)).lines = l
              /\ Split(mode, Append(x, b)).rest = Append(r, b)
          BY <2>2, <3>4, LineStep
        <4>2. Len(Append(r, b)) = Len(r) + 1  BY <3>1, AppendProperties
        <4>3. Len(Append(r, b)) =< MaxRecord /\ \A k \in 1..Len(l) : Len(l[k]) < MaxRecord
          BY <2>4, <4>1 DEF Small
        <4>4. Len(r) =< MaxRecord  BY <3>1, <3>2, <4>2, <4>3
        <4> QED  BY <4>3, <4>4 DEF Small
      <3> QED  BY <3>3, <3>4
    <2>5. P(Append(u, b))  BY <2>1, <2>2, <2>3, <2>4
    <2> QED  BY <2>2, <2>5
  <1> HIDE DEF P, T
  <1>3. t \in T  BY <1>1, <1>2, SeqUp
  <1> QED  BY <1>3 DEF P, T

\* _clamp makes a record that is not over the cap.
LEMMA ClampIs ==
    ASSUME NEW r \in Seq(Bytes)
    PROVE  Clamp(r) \in Record /\ Len(Clamp(r).payload) =< MaxRecord
  <1>1. MaxRecord \in Nat /\ MaxRecord > 0 /\ Len(r) \in Nat  BY FramerAssumption, LenProperties
  <1>2. CASE Len(r) > MaxRecord
    <2>1. \A k \in 1..MaxRecord : r[k] \in Bytes
      <3>1. \A k \in 1..MaxRecord : k \in 1..Len(r)  BY <1>1, <1>2
      <3> QED  BY <3>1, ElementOfSeq
    <2>2. SubSeq(r, 1, MaxRecord) \in Seq(Bytes) /\ Len(SubSeq(r, 1, MaxRecord)) = MaxRecord
      <3>1. 1 \in Int /\ MaxRecord \in Int  BY <1>1
      <3>2. /\ SubSeq(r, 1, MaxRecord) \in Seq(Bytes)
            /\ Len(SubSeq(r, 1, MaxRecord)) = IF 1 <= MaxRecord THEN MaxRecord - 1 + 1 ELSE 0
        BY <2>1, <3>1, SubSeqProperties
      <3> QED  BY <1>1, <3>2
    <2> QED  BY <1>1, <1>2, <2>2 DEF Clamp, Record
  <1>3. CASE ~(Len(r) > MaxRecord)  BY <1>1, <1>3 DEF Clamp, Record
  <1> QED  BY <1>2, <1>3

\* What comes after the cap makes no difference.
LEMMA ClampLong ==
    ASSUME NEW r \in Seq(Bytes), NEW t \in Seq(Bytes), Len(r) > MaxRecord
    PROVE  Clamp(r \o t) = Clamp(r) /\ Len(r \o t) > MaxRecord
  <1>1. /\ MaxRecord \in Nat /\ MaxRecord > 0 /\ Len(r) \in Nat /\ Len(t) \in Nat
        /\ r \o t \in Seq(Bytes) /\ Len(r \o t) = Len(r) + Len(t)
        /\ \A k \in 1..(Len(r) + Len(t)) : k <= Len(r) => (r \o t)[k] = r[k]
    BY FramerAssumption, LenProperties, ConcatProperties
  <1>2. Len(r \o t) > MaxRecord  BY <1>1
  <1>3. \A k \in 1..MaxRecord : (r \o t)[k] = r[k] /\ r[k] \in Bytes
    <2>1. \A k \in 1..MaxRecord : k \in 1..Len(r) /\ k \in 1..(Len(r) + Len(t)) /\ k <= Len(r)
      BY <1>1
    <2> QED  BY <1>1, <2>1, ElementOfSeq
  <1>4. SubSeq(r \o t, 1, MaxRecord) = SubSeq(r, 1, MaxRecord)
    <2>1. ASSUME NEW q, \A k \in 1..MaxRecord : q[k] = r[k]
          PROVE  /\ SubSeq(q, 1, MaxRecord) \in Seq(Bytes)
                 /\ Len(SubSeq(q, 1, MaxRecord)) = MaxRecord
                 /\ \A k \in 1..MaxRecord : SubSeq(q, 1, MaxRecord)[k] = r[k]
      <3>1. 1 \in Int /\ MaxRecord \in Int /\ \A k \in 1..MaxRecord : q[k] \in Bytes
        BY <1>1, <1>3, <2>1
      <3>2. /\ SubSeq(q, 1, MaxRecord) \in Seq(Bytes)
            /\ Len(SubSeq(q, 1, MaxRecord)) = IF 1 <= MaxRecord THEN MaxRecord - 1 + 1 ELSE 0
            /\ \A k \in 1..(MaxRecord - 1 + 1) : SubSeq(q, 1, MaxRecord)[k] = q[1 + k - 1]
        BY <3>1, SubSeqProperties
      <3>3. MaxRecord - 1 + 1 = MaxRecord /\ \A k \in 1..MaxRecord : 1 + k - 1 = k  BY <1>1
      <3> QED  BY <1>1, <2>1, <3>2, <3>3
    <2>2. /\ SubSeq(r \o t, 1, MaxRecord) \in Seq(Bytes)
          /\ Len(SubSeq(r \o t, 1, MaxRecord)) = MaxRecord
          /\ \A k \in 1..MaxRecord : SubSeq(r \o t, 1, MaxRecord)[k] = r[k]
      BY <1>3, <2>1
    <2>3. /\ SubSeq(r, 1, MaxRecord) \in Seq(Bytes)
          /\ Len(SubSeq(r, 1, MaxRecord)) = MaxRecord
          /\ \A k \in 1..MaxRecord : SubSeq(r, 1, MaxRecord)[k] = r[k]
      BY <2>1
    <2> QED  BY <2>2, <2>3, SeqEqual
  <1> QED  BY <1>2, <1>4 DEF Clamp

\* _clamp of each of several records.
LEMMA ClampedIs ==
    ASSUME NEW l \in Seq(Seq(Bytes))
    PROVE  /\ Clamped(l) \in Seq(Record) /\ Len(Clamped(l)) = Len(l)
           /\ \A k \in 1..Len(l) : /\ Clamped(l)[k] = Clamp(l[k])
                                   /\ Len(Clamped(l)[k].payload) =< MaxRecord
  <1> DEFINE n == Len(l)
             S == Seq(Bytes)
  <1>1. n \in Nat /\ DOMAIN l = 1..n /\ \A k \in 1..n : l[k] \in S
    <2>1. l \in Seq(S)  OBVIOUS
    <2> HIDE DEF S
    <2> QED  BY <2>1, LenProperties, ElementOfSeq
  <1>2. \A k \in 1..n : Clamp(l[k]) \in Record /\ Len(Clamp(l[k]).payload) =< MaxRecord
    BY <1>1, ClampIs
  <1>3. Clamped(l) = [k \in 1..n |-> Clamp(l[k])]  BY <1>1 DEF Clamped
  <1> HIDE DEF n, S
  <1>4. Clamped(l) \in [1..n -> Record]  BY <1>2, <1>3
  <1>5. Clamped(l) \in Seq(Record) /\ Len(Clamped(l)) = n  BY <1>1, <1>4
  <1> QED  BY <1>2, <1>3, <1>5 DEF n

\* What a call adds to the output.
LEMMA OutGrows ==
    ASSUME out \in Seq(Record), \A k \in 1..Len(out) : Len(out[k].payload) =< MaxRecord,
           NEW l \in Seq(Seq(Bytes)), NEW more \in Seq(Seq(Bytes)),
           out' = out \o Clamped(l) \o Clamped(more)
    PROVE  /\ out' \in Seq(Record) /\ Len(out') = Len(out) + Len(l) + Len(more)
           /\ Len(out) \in Nat /\ Len(l) \in Nat /\ Len(more) \in Nat
           /\ \A k \in 1..Len(out) : out'[k] = out[k]
           /\ \A k \in 1..Len(l) : out'[Len(out) + k] = Clamp(l[k])
           /\ \A k \in 1..Len(more) : out'[Len(out) + Len(l) + k] = Clamp(more[k])
           /\ \A k \in 1..Len(out') : Len(out'[k].payload) =< MaxRecord
  <1> DEFINE a == Len(out)
             b == Len(l)
             c == Len(more)
             x == Clamped(l)
             y == Clamped(more)
             z == out \o x
  <1>1. /\ a \in Nat /\ b \in Nat /\ c \in Nat
        /\ x \in Seq(Record) /\ Len(x) = b /\ y \in Seq(Record) /\ Len(y) = c
        /\ \A k \in 1..b : x[k] = Clamp(l[k]) /\ Len(x[k].payload) =< MaxRecord
        /\ \A k \in 1..c : y[k] = Clamp(more[k]) /\ Len(y[k].payload) =< MaxRecord
    BY ClampedIs, LenProperties
  <1> HIDE DEF x, y
  <1>2. /\ z \in Seq(Record) /\ Len(z) = a + b
        /\ \A k \in 1..(a + b) : z[k] = IF k <= a THEN out[k] ELSE x[k - a]
    <2>1. /\ z \in Seq(Record) /\ Len(z) = Len(out) + Len(x)
          /\ \A k \in 1..Len(out) + Len(x) :
                z[k] = IF k <= Len(out) THEN out[k] ELSE x[k - Len(out)]
      <3> HIDE DEF a, b, c
      <3> QED  BY <1>1, ConcatProperties
    <2> HIDE DEF z
    <2> QED  BY <1>1, <2>1
  <1>3. out' = z \o y  BY DEF x, y
  <1> HIDE DEF z
  <1>4. /\ out' \in Seq(Record) /\ Len(out') = a + b + c
        /\ \A k \in 1..(a + b + c) : out'[k] = IF k <= a + b THEN z[k] ELSE y[k - (a + b)]
    <2>1. /\ z \o y \in Seq(Record) /\ Len(z \o y) = Len(z) + Len(y)
          /\ \A k \in 1..Len(z) + Len(y) :
                (z \o y)[k] = IF k <= Len(z) THEN z[k] ELSE y[k - Len(z)]
      <3> HIDE DEF a, b, c
      <3> QED  BY <1>1, <1>2, ConcatProperties, ZenonT(60)
    <2> QED  BY <1>1, <1>2, <1>3, <2>1
  <1>5. ASSUME NEW k \in 1..a PROVE out'[k] = out[k]
    <2>1. k \in 1..(a + b) /\ k \in 1..(a + b + c) /\ k <= a /\ k <= a + b  BY <1>1
    <2> QED  BY <1>2, <1>4, <2>1
  <1>6. ASSUME NEW k \in 1..b PROVE out'[a + k] = x[k]
    <2>1. PICK j : j = a + k  OBVIOUS
    <2>2. j \in 1..(a + b) /\ j \in 1..(a + b + c) /\ ~(j <= a) /\ j <= a + b /\ j - a = k
      BY <1>1, <2>1
    <2> QED  BY <1>2, <1>4, <2>1, <2>2
  <1>7. ASSUME NEW k \in 1..c PROVE out'[a + b + k] = y[k]
    <2>1. PICK j : j = a + b + k  OBVIOUS
    <2>2. j \in 1..(a + b + c) /\ ~(j <= a + b) /\ j - (a + b) = k  BY <1>1, <2>1
    <2> QED  BY <1>4, <2>1, <2>2
  <1>8. ASSUME NEW k \in 1..(a + b + c) PROVE Len(out'[k].payload) =< MaxRecord
    <2>1. CASE k \in 1..a  BY <1>5, <2>1
    <2>2. CASE k \notin 1..a /\ k =< a + b
      <3>1. PICK j : j = k - a  OBVIOUS
      <3>2. j \in 1..b /\ k = a + j  BY <1>1, <2>2, <3>1
      <3> QED  BY <1>1, <1>6, <3>2
    <2>3. CASE k > a + b
      <3>1. PICK j : j = k - (a + b)  OBVIOUS
      <3>2. j \in 1..c /\ k = a + b + j  BY <1>1, <2>3, <3>1
      <3> QED  BY <1>1, <1>7, <3>2
    <2>4. k \in 1..a \/ (k \notin 1..a /\ k =< a + b) \/ k > a + b
      <3> HIDE DEF a, b, c
      <3> QED  BY <1>1
    <2> QED  BY <2>1, <2>2, <2>3, <2>4
  <1> QED  BY <1>1, <1>4, <1>5, <1>6, <1>7, <1>8

-----------------------------------------------------------------------------
(* The steps of the framer.                                                 *)

\* A new framer has an empty buffer, and the stream no bytes.
LEMMA FramerStarts ==
    ASSUME FramerInit
    PROVE  FramerInv
  <1>1. /\ mode \in Modes /\ buf = <<>> /\ overflow = FALSE /\ out = <<>> /\ stream = <<>>
        /\ closed = FALSE /\ <<>> \in Seq(Bytes) /\ <<>> \in Seq(Record) /\ Len(<<>>) = 0
    BY EmptySeq DEF FramerInit
  <1>2. FramerTyped
    <2>1. overflow \in BOOLEAN /\ closed \in BOOLEAN  BY <1>1, Zenon
    <2>2. \A k \in 1..Len(out) : FALSE  BY <1>1
    <2> QED  BY <1>1, <2>1, <2>2 DEF FramerTyped
  <1>3. mode # "raw" => InStep
    <2> SUFFICES ASSUME mode # "raw" PROVE InStep  OBVIOUS
    <2>1. mode \in Framed  BY <1>1, FramerAssumption DEF Framed
    <2>2. Split(mode, stream).lines = <<>> /\ Split(mode, stream).rest = <<>>
      BY <1>1, <2>1, SplitEmpty DEF NoParts
    <2>3. LinesOut(stream, 0)  BY <1>1, <2>2 DEF LinesOut
    <2>4. Len(buf) =< MaxRecord /\ Len(out) =< Len(Split(mode, stream).lines)
      BY <1>1, <2>2, FramerAssumption
    <2> QED  BY <1>1, <2>2, <2>3, <2>4 DEF InStep
  <1> QED  BY <1>1, <1>2, <1>3 DEF FramerInv

\* _clamp of none or one.
LEMMA ClampedFew ==
    Clamped(<<>>) = <<>> /\ \A r : Clamped(<<r>>) = <<Clamp(r)>>
  BY DEF Clamped

\* What feed() does with the bytes that it has not yet emitted.
LEMMA FeedIs ==
    ASSUME FramerTyped, NEW chunk \in Seq(Bytes), Feed(chunk)
    PROVE  LET all == buf \o chunk
               lines == Split(mode, all).lines
               tail == Split(mode, all).rest
               kept == IF overflow /\ lines # <<>> THEN Tail(lines) ELSE lines
               blown == ~(overflow /\ lines = <<>>) /\ Len(tail) > MaxRecord
               more == IF blown THEN <<tail>> ELSE <<>>
           IN /\ mode \in Framed /\ mode # "raw" /\ closed = FALSE
              /\ all \in Seq(Bytes) /\ lines \in Seq(Seq(Bytes)) /\ tail \in Seq(Bytes)
              /\ kept \in Seq(Seq(Bytes)) /\ more \in Seq(Seq(Bytes))
              /\ Len(more) = IF blown THEN 1 ELSE 0
              /\ out' = out \o Clamped(kept) \o Clamped(more)
              /\ buf' = IF blown THEN <<>> ELSE tail
              /\ overflow' = ((overflow /\ lines = <<>>) \/ blown)
              /\ stream' = stream \o chunk /\ stream' \in Seq(Bytes)
              /\ mode' = mode /\ closed' = FALSE
              /\ FramerTyped'
  <1> DEFINE all == buf \o chunk
             lines == Split(mode, all).lines
             tail == Split(mode, all).rest
             skipping == overflow /\ lines = <<>>
             blown == ~skipping /\ Len(tail) > MaxRecord
             kept == IF overflow /\ lines # <<>> THEN Tail(lines) ELSE lines
             more == IF blown THEN <<tail>> ELSE <<>>
  <1>1. /\ mode \in Modes /\ overflow \in BOOLEAN /\ closed \in BOOLEAN
        /\ buf \in Seq(Bytes) /\ stream \in Seq(Bytes) /\ out \in Seq(Record)
        /\ \A k \in 1..Len(out) : Len(out[k].payload) =< MaxRecord
    BY DEF FramerTyped
  <1>2. mode # "raw" /\ closed = FALSE /\ mode \in Framed
    BY <1>1, FramerAssumption DEF Feed, Framed
  <1>3. all \in Seq(Bytes) /\ stream \o chunk \in Seq(Bytes)  BY <1>1, ConcatProperties
  <1>4. lines \in Seq(Seq(Bytes)) /\ tail \in Seq(Bytes)
    <2>1. LF \in Bytes  BY FramerAssumption
    <2> QED  BY <1>2, <1>3, <2>1, LineStep
  <1>5. kept \in Seq(Seq(Bytes))
    <2> DEFINE S == Seq(Bytes)
    <2>1. lines \in Seq(S)  BY <1>4
    <2> HIDE DEF S, lines
    <2>2. lines # <<>> => Tail(lines) \in Seq(S)  BY <2>1, HeadTailProperties
    <2>3. kept \in Seq(S)  BY <2>1, <2>2
    <2> QED  BY <2>3 DEF S
  <1>6. /\ out' = out \o Clamped(kept) \o (IF blown THEN <<Clamp(tail)>> ELSE <<>>)
        /\ buf' = IF blown THEN <<>> ELSE tail
        /\ overflow' = (skipping \/ blown)
        /\ stream' = stream \o chunk /\ mode' = mode /\ closed' = closed
    BY Zenon DEF Feed, KeptLines, Skipping
  <1> HIDE DEF all, lines, tail, kept
  <1>7. (IF blown THEN <<Clamp(tail)>> ELSE <<>>) = Clamped(more)
    <2> HIDE DEF blown
    <2> QED  BY ClampedFew
  <1>8. more \in Seq(Seq(Bytes)) /\ Len(more) = IF blown THEN 1 ELSE 0
    <2> DEFINE S == Seq(Bytes)
    <2>1. tail \in S  BY <1>4
    <2> HIDE DEF S, blown
    <2>2. <<tail>> \in Seq(S) /\ Len(<<tail>>) = 1  BY <2>1
    <2>3. <<>> \in Seq(S) /\ Len(<<>>) = 0  BY EmptySeq
    <2>4. more \in Seq(S) /\ Len(more) = IF blown THEN 1 ELSE 0  BY <2>2, <2>3
    <2> QED  BY <2>4 DEF S
  <1>9. out' = out \o Clamped(kept) \o Clamped(more)  BY <1>6, <1>7
  <1> HIDE DEF more
  <1>10. out' \in Seq(Record) /\ \A k \in 1..Len(out') : Len(out'[k].payload) =< MaxRecord
    BY <1>1, <1>5, <1>8, <1>9, OutGrows
  <1>11. overflow' \in BOOLEAN
    <2>1. (skipping \/ blown) \in BOOLEAN  OBVIOUS
    <2> QED  BY <1>6, <2>1, Zenon
  <1>12. buf' \in Seq(Bytes)
    <2> HIDE DEF blown
    <2> QED  BY <1>4, <1>6, EmptySeq
  <1>13. FramerTyped'  BY <1>1, <1>3, <1>6, <1>10, <1>11, <1>12 DEF FramerTyped
  <1> QED
    <2> HIDE DEF blown
    <2>1. overflow' = (skipping \/ blown)  BY <1>6
    <2> QED
      BY <1>2, <1>3, <1>4, <1>5, <1>6, <1>8, <1>9, <1>13, <2>1, Zenon
         DEF all, lines, tail, kept, more, blown

\* Feeding goes on where the buffer is the tail of the stream.
LEMMA FeedInStep ==
    ASSUME FramerTyped, InStep, ~overflow, NEW chunk \in Seq(Bytes), Feed(chunk)
    PROVE  /\ ~overflow' => InStep'
           /\ overflow' => \E x \in Seq(Bytes) : PastTheCap(x)'
  <1> DEFINE S == Seq(Bytes)
  <1>1. PICK all, whole : all = buf \o chunk /\ whole = stream \o chunk  OBVIOUS
  <1>2. PICK lines, tail, old :
           /\ lines = Split(mode, all).lines /\ tail = Split(mode, all).rest
           /\ old = Split(mode, stream).lines
    OBVIOUS
  <1>3. PICK more : more = IF Len(tail) > MaxRecord THEN <<tail>> ELSE <<>>  OBVIOUS
  <1>4. /\ mode \in Framed /\ all \in S /\ lines \in Seq(S) /\ tail \in S /\ more \in Seq(S)
        /\ Len(more) = IF Len(tail) > MaxRecord THEN 1 ELSE 0
        /\ out' = out \o Clamped(lines) \o Clamped(more)
        /\ buf' = IF Len(tail) > MaxRecord THEN <<>> ELSE tail
        /\ (overflow' <=> Len(tail) > MaxRecord)
        /\ stream' = whole /\ whole \in S /\ mode' = mode
    <2>1. LET kept == IF overflow /\ lines # <<>> THEN Tail(lines) ELSE lines
              blown == ~(overflow /\ lines = <<>>) /\ Len(tail) > MaxRecord
              m == IF blown THEN <<tail>> ELSE <<>>
          IN /\ mode \in Framed /\ all \in S /\ lines \in Seq(S) /\ tail \in S
             /\ m \in Seq(S) /\ Len(m) = IF blown THEN 1 ELSE 0
             /\ out' = out \o Clamped(kept) \o Clamped(m)
             /\ buf' = IF blown THEN <<>> ELSE tail
             /\ overflow' = ((overflow /\ lines = <<>>) \/ blown)
             /\ stream' = whole /\ whole \in S /\ mode' = mode
      BY <1>1, <1>2, FeedIs, Zenon
    <2>2. overflow = FALSE  BY DEF FramerTyped
    <2> HIDE DEF S
    <2>3. overflow' <=> Len(tail) > MaxRecord  BY <2>1, <2>2
    <2> QED  BY <1>3, <2>1, <2>2, <2>3
  <1>5. /\ out \in Seq(Record) /\ stream \in S /\ buf \in S
        /\ \A k \in 1..Len(out) : Len(out[k].payload) =< MaxRecord
    BY DEF FramerTyped
  <1>6. /\ buf = Split(mode, stream).rest /\ Len(out) =< Len(old)
        /\ mode = "lf" \/ Small(stream) => LinesOut(stream, 0)
    BY <1>2 DEF InStep
  <1>7. old \in Seq(S) /\ Len(old) \in Nat
    <2>1. LF \in Bytes  BY FramerAssumption
    <2> QED  BY <1>2, <1>4, <1>5, <2>1, LineStep
  <1>8. Split(mode, whole).lines = old \o lines /\ Split(mode, whole).rest = tail
    <2>1. /\ Split(mode, stream \o chunk).lines
               = Split(mode, stream).lines \o Split(mode, Split(mode, stream).rest \o chunk).lines
          /\ Split(mode, stream \o chunk).rest
               = Split(mode, Split(mode, stream).rest \o chunk).rest
      BY <1>4, <1>5, GoesOn, Zenon
    <2> QED  BY <1>1, <1>2, <1>6, <2>1
  <1>9. /\ Len(out') = Len(out) + Len(lines) + Len(more)
        /\ Len(out) \in Nat /\ Len(lines) \in Nat /\ Len(more) \in Nat
        /\ \A k \in 1..Len(out) : out'[k] = out[k]
        /\ \A k \in 1..Len(lines) : out'[Len(out) + k] = Clamp(lines[k])
        /\ \A k \in 1..Len(more) : out'[Len(out) + Len(lines) + k] = Clamp(more[k])
    BY <1>4, <1>5, OutGrows
  <1> HIDE DEF S
  <1>10. /\ Len(old \o lines) = Len(old) + Len(lines)
         /\ \A k \in 1..Len(old) + Len(lines) :
               (old \o lines)[k] = IF k <= Len(old) THEN old[k] ELSE lines[k - Len(old)]
    BY <1>4, <1>7, ConcatProperties
  <1>11. Len(out') =< Len(old \o lines) + Len(more)  BY <1>6, <1>7, <1>9, <1>10
  <1>12. ASSUME mode = "lf" \/ Small(whole)
         PROVE  /\ Len(out') = Len(old \o lines) + Len(more)
                /\ \A k \in 1..Len(old \o lines) : out'[k] = Clamp((old \o lines)[k])
    <2>1. mode = "lf" \/ Small(stream)
      <3>1. Small(whole) => Small(stream)
        <4>1. chunk \in S  BY DEF S
        <4> QED  BY <1>1, <1>4, <1>5, <4>1, SmallBefore DEF S
      <3> QED  BY <1>12, <3>1
    <2>2. Len(out) = Len(old) /\ \A k \in 1..Len(old) : out[k] = Clamp(old[k])
      BY <1>2, <1>6, <1>7, <2>1 DEF LinesOut
    <2>3. ASSUME NEW k \in 1..Len(old) + Len(lines) PROVE out'[k] = Clamp((old \o lines)[k])
      <3>1. CASE k <= Len(old)
        <4>1. k \in 1..Len(old)  BY <1>7, <3>1
        <4>2. out'[k] = out[k]  BY <1>9, <2>2, <4>1
        <4> QED  BY <1>10, <2>2, <3>1, <4>1, <4>2
      <3>2. CASE ~(k <= Len(old))
        <4>1. PICK j : j = k - Len(old)  OBVIOUS
        <4>2. j \in 1..Len(lines) /\ k = Len(old) + j  BY <1>7, <1>9, <3>2, <4>1
        <4>3. out'[k] = Clamp(lines[j])  BY <1>9, <2>2, <4>2
        <4> QED  BY <1>10, <3>2, <4>1, <4>3
      <3> QED  BY <3>1, <3>2
    <2> QED  BY <1>9, <1>10, <2>2, <2>3
  <1>13. ASSUME ~overflow' PROVE InStep'
    <2>1. ~(Len(tail) > MaxRecord) /\ Len(more) = 0 /\ buf' = tail
      <3>1. ~(Len(tail) > MaxRecord)  BY <1>4, <1>13, Zenon
      <3> QED  BY <1>4, <3>1
    <2>2. Len(tail) =< MaxRecord
      <3>1. Len(tail) \in Nat  BY <1>4, LenProperties DEF S
      <3> QED  BY <2>1, <3>1, FramerAssumption
    <2>3. mode = "lf" \/ Small(whole) =>
            /\ Len(out') = Len(old \o lines) + 0
            /\ \A k \in 1..Len(old \o lines) : out'[k] = Clamp((old \o lines)[k])
      BY <1>12, <2>1
    <2>4. Len(out') =< Len(old \o lines)  BY <1>7, <1>9, <1>10, <1>11, <2>1
    <2>5. Small(stream)' <=> Small(whole)  BY <1>4 DEF Small
    <2>6. mode' = "lf" \/ Small(stream)' => LinesOut(stream, 0)'
      BY <1>4, <1>8, <2>3, <2>5 DEF LinesOut
    <2> QED  BY <1>4, <1>8, <2>1, <2>2, <2>4, <2>6 DEF InStep
  <1>14. ASSUME overflow' PROVE PastTheCap(whole)'
    <2>1. Len(tail) > MaxRecord /\ Len(more) = 1 /\ buf' = <<>> /\ more = <<tail>>
      <3>1. Len(tail) > MaxRecord  BY <1>4, <1>14, Zenon
      <3> QED  BY <1>3, <1>4, <3>1
    <2>2. whole \o <<>> = whole  BY <1>4, ConcatEmptySeq DEF S
    <2>3. Split(mode, <<>>).lines = <<>>  BY <1>4, SplitEmpty DEF NoParts
    <2>4. Len(out') =< Len(old \o lines) + 1  BY <1>11, <2>1
    <2>5. ~Small(whole)
      <3>1. Len(tail) \in Nat  BY <1>4, LenProperties DEF S
      <3>2. ~(Len(tail) =< MaxRecord)  BY <2>1, <3>1, FramerAssumption
      <3> QED  BY <1>8, <3>2 DEF Small
    <2>6. ASSUME mode = "lf"
          PROVE  /\ LinesOut(whole, 1)' /\ out'[Len(out')] = Clamp(tail)
      <3>1. LinesOut(whole, 1)'  BY <1>4, <1>8, <1>12, <2>1, <2>6 DEF LinesOut
      <3>2. out'[Len(out')] = Clamp(tail)
        <4>1. 1 \in 1..Len(more) /\ more[1] = tail  BY <2>1
        <4>2. out'[Len(out) + Len(lines) + 1] = Clamp(more[1])  BY <1>9, <4>1
        <4> QED  BY <1>9, <2>1, <4>1, <4>2
      <3> QED  BY <3>1, <3>2
    <2>7. Small(stream)' <=> Small(whole)  BY <1>4 DEF Small
    <2> QED  BY <1>4, <1>8, <2>1, <2>2, <2>3, <2>4, <2>5, <2>6, <2>7 DEF PastTheCap
  <1> QED  BY <1>4, <1>13, <1>14 DEF S

\* Feeding past the cap, up to the separator that ends the record emitted already.
LEMMA FeedPastTheCap ==
    ASSUME FramerTyped, overflow, NEW x \in Seq(Bytes), PastTheCap(x),
           NEW chunk \in Seq(Bytes), Feed(chunk)
    PROVE  /\ ~overflow' => InStep'
           /\ overflow' => \E y \in Seq(Bytes) : PastTheCap(y)'
  <1> DEFINE S == Seq(Bytes)
  <1>1. PICK all, whole : all = buf \o chunk /\ whole = stream \o chunk  OBVIOUS
  <1>2. PICK lines, tail, old, r :
           /\ lines = Split(mode, all).lines /\ tail = Split(mode, all).rest
           /\ old = Split(mode, x).lines /\ r = Split(mode, x).rest
    OBVIOUS
  <1>3. PICK kept, more :
           /\ kept = IF lines # <<>> THEN Tail(lines) ELSE lines
           /\ more = IF lines # <<>> /\ Len(tail) > MaxRecord THEN <<tail>> ELSE <<>>
    OBVIOUS
  <1>4. /\ mode \in Framed /\ all \in S /\ lines \in Seq(S) /\ tail \in S
        /\ kept \in Seq(S) /\ more \in Seq(S)
        /\ Len(more) = IF lines # <<>> /\ Len(tail) > MaxRecord THEN 1 ELSE 0
        /\ out' = out \o Clamped(kept) \o Clamped(more)
        /\ buf' = IF lines # <<>> /\ Len(tail) > MaxRecord THEN <<>> ELSE tail
        /\ (overflow' <=> lines = <<>> \/ Len(tail) > MaxRecord)
        /\ stream' = whole /\ whole \in S /\ mode' = mode
    <2>1. LET kp == IF overflow /\ lines # <<>> THEN Tail(lines) ELSE lines
              blown == ~(overflow /\ lines = <<>>) /\ Len(tail) > MaxRecord
              m == IF blown THEN <<tail>> ELSE <<>>
          IN /\ mode \in Framed /\ all \in S /\ lines \in Seq(S) /\ tail \in S
             /\ kp \in Seq(S) /\ m \in Seq(S) /\ Len(m) = IF blown THEN 1 ELSE 0
             /\ out' = out \o Clamped(kp) \o Clamped(m)
             /\ buf' = IF blown THEN <<>> ELSE tail
             /\ overflow' = ((overflow /\ lines = <<>>) \/ blown)
             /\ stream' = whole /\ whole \in S /\ mode' = mode
      BY <1>1, <1>2, FeedIs, Zenon
    <2> HIDE DEF S
    <2>2. overflow' <=> lines = <<>> \/ Len(tail) > MaxRecord  BY <2>1
    <2> QED  BY <1>3, <2>1, <2>2
  <1>5. /\ out \in Seq(Record) /\ stream \in S /\ buf \in S
        /\ \A k \in 1..Len(out) : Len(out[k].payload) =< MaxRecord
    BY DEF FramerTyped
  <1>6. /\ stream = x \o buf /\ Split(mode, buf).lines = <<>>
        /\ Len(out) =< Len(old) + 1 /\ (mode = "crlf" => ~Small(stream))
        /\ mode = "lf" => /\ Len(out) = Len(old) + 1
                          /\ \A k \in 1..Len(old) : out[k] = Clamp(old[k])
                          /\ out[Len(out)] = Clamp(r) /\ Len(r) > MaxRecord
    BY <1>2 DEF PastTheCap, LinesOut
  <1>7. old \in Seq(S) /\ Len(old) \in Nat /\ r \in S /\ Len(r) \in Nat
    <2>1. LF \in Bytes  BY FramerAssumption
    <2> QED  BY <1>2, <1>4, <2>1, LineStep
  <1>8. whole = x \o all  BY <1>1, <1>5, <1>6, ConcatAssociative, SMTT(40)
  <1>9. PICK new : new = Split(mode, r \o all).lines  OBVIOUS
  <1>10. /\ Split(mode, whole).lines = old \o new /\ new \in Seq(S) /\ Len(new) >= Len(lines)
         /\ Len(new) \in Nat /\ Len(lines) \in Nat
         /\ lines # <<>> => Split(mode, whole).rest = tail
         /\ Split(mode, whole).rest = Split(mode, r \o all).rest
    <2>1. /\ Split(mode, x \o all).lines
               = Split(mode, x).lines \o Split(mode, Split(mode, x).rest \o all).lines
          /\ Split(mode, x \o all).rest = Split(mode, Split(mode, x).rest \o all).rest
      BY <1>4, GoesOn, Zenon
    <2>2. /\ Len(Split(mode, r \o all).lines) >= Len(Split(mode, all).lines)
          /\ Split(mode, all).lines # <<>> => Split(mode, r \o all).rest = Split(mode, all).rest
      BY <1>4, <1>7, SuffixLines, Zenon
    <2>3. r \o all \in S  BY <1>4, <1>7, ConcatProperties
    <2>4. new \in Seq(S)
      <3>1. LF \in Bytes  BY FramerAssumption
      <3> QED  BY <1>4, <1>9, <2>3, <3>1, LineStep
    <2>5. Len(new) \in Nat /\ Len(lines) \in Nat  BY <1>4, <2>4, LenProperties
    <2> QED  BY <1>2, <1>8, <1>9, <2>1, <2>2, <2>4, <2>5
  <1>11. /\ Len(out') = Len(out) + Len(kept) + Len(more)
         /\ Len(out) \in Nat /\ Len(kept) \in Nat /\ Len(more) \in Nat
         /\ \A k \in 1..Len(out) : out'[k] = out[k]
         /\ \A k \in 1..Len(kept) : out'[Len(out) + k] = Clamp(kept[k])
         /\ \A k \in 1..Len(more) : out'[Len(out) + Len(kept) + k] = Clamp(more[k])
    BY <1>4, <1>5, OutGrows
  <1>12. mode = "crlf" => ~Small(whole)
    <2>1. ASSUME Small(whole) PROVE Small(stream)  BY <1>1, <1>4, <1>5, <2>1, SmallBefore
    <2> QED  BY <1>6, <2>1
  <1>13. Small(stream)' <=> Small(whole)  BY <1>4 DEF Small
  <1>14. mode = "lf" =>
           /\ Len(new) = Len(lines)
           /\ lines # <<>> => new[1] = r \o lines[1]
           /\ \A k \in 2..Len(lines) : new[k] = lines[k]
    <2> SUFFICES ASSUME mode = "lf"
                 PROVE  /\ Len(new) = Len(lines)
                        /\ lines # <<>> => new[1] = r \o lines[1]
                        /\ \A k \in 2..Len(lines) : new[k] = lines[k]
      OBVIOUS
    <2>1. Split("lf", r) = [lines |-> <<>>, rest |-> r]  BY <1>2, <1>4, TailAlone
    <2>2. Split("lf", r).lines = <<>> /\ Split("lf", r).rest = r  BY <2>1
    <2>3. /\ Len(Split("lf", r \o all).lines) = Len(Split("lf", all).lines)
          /\ Split("lf", all).lines # <<>> =>
                Split("lf", r \o all).lines[1] = r \o Split("lf", all).lines[1]
          /\ \A k \in 2..Len(Split("lf", all).lines) :
                Split("lf", r \o all).lines[k] = Split("lf", all).lines[k]
      BY <1>4, <1>7, <2>2, LfPrefix, Zenon
    <2> QED  BY <1>2, <1>9, <2>3
  <1> HIDE DEF S
  <1>15. /\ Len(old \o new) = Len(old) + Len(new)
         /\ \A k \in 1..Len(old) + Len(new) :
               (old \o new)[k] = IF k <= Len(old) THEN old[k] ELSE new[k - Len(old)]
    BY <1>7, <1>10, ConcatProperties
  <1>16. CASE lines = <<>>
    <2>1. kept = <<>> /\ more = <<>> /\ buf' = tail /\ overflow'  BY <1>3, <1>4, <1>16
    <2>2. out' = out
      <3>1. Clamped(<<>>) = <<>>  BY ClampedFew
      <3> QED  BY <1>4, <1>5, <2>1, <3>1, ConcatEmptySeq
    <2>3. tail = all  BY <1>2, <1>4, <1>16, NoLineYet DEF S
    <2>4. PastTheCap(x)'
      <3>1. mode' = "lf" => LinesOut(x, 1)'
        BY <1>2, <1>4, <1>6, <2>2 DEF LinesOut
      <3> QED
        BY <1>2, <1>4, <1>6, <1>8, <1>12, <1>13, <1>16, <2>1, <2>2, <2>3, <3>1 DEF PastTheCap
    <2> QED  BY <2>1, <2>4
  <1>17. CASE lines # <<>>
    <2>1. /\ kept = Tail(lines) /\ Len(kept) = Len(lines) - 1 /\ Len(lines) > 0
          /\ \A k \in 1..Len(kept) : kept[k] = lines[k + 1]
      <3>1. kept = Tail(lines)  BY <1>3, <1>17
      <3>2. Len(Tail(lines)) = Len(lines) - 1
            /\ \A k \in 1..Len(Tail(lines)) : Tail(lines)[k] = lines[k + 1]
        BY <1>4, <1>17, HeadTailProperties
      <3>3. Len(lines) > 0
        <4>1. Len(Tail(lines)) \in Nat  BY <1>11, <3>1
        <4>2. Len(Tail(lines)) = Len(lines) - 1  BY <3>2
        <4>3. PICK a, b : a = Len(Tail(lines)) /\ b = Len(lines)  OBVIOUS
        <4>4. a \in Nat /\ a = b - 1 /\ b \in Nat  BY <1>10, <4>1, <4>2, <4>3, Zenon
        <4> QED  BY <4>3, <4>4
      <3> QED  BY <3>1, <3>2, <3>3
    <2>2. Len(out') =< Len(old \o new) + Len(more)
      BY <1>6, <1>7, <1>10, <1>11, <1>15, <2>1
    <2>3. ASSUME mode = "lf"
          PROVE  /\ Len(out') = Len(old \o new) + Len(more)
                 /\ \A k \in 1..Len(old \o new) : out'[k] = Clamp((old \o new)[k])
      <3>1. /\ Len(out) = Len(old) + 1 /\ \A k \in 1..Len(old) : out[k] = Clamp(old[k])
            /\ out[Len(old) + 1] = Clamp(r) /\ Len(r) > MaxRecord
            /\ Len(new) = Len(lines) /\ new[1] = r \o lines[1]
            /\ \A k \in 2..Len(lines) : new[k] = lines[k]
        BY <1>6, <1>14, <1>17, <2>3
      <3>2. Clamp(new[1]) = Clamp(r)
        <4>1. lines[1] \in Seq(Bytes)
          <5>1. 1 \in 1..Len(lines)  BY <1>10, <2>1
          <5> QED  BY <1>4, <5>1, ElementOfSeq DEF S
        <4> QED  BY <1>7, <3>1, <4>1, ClampLong DEF S
      <3>3. ASSUME NEW k \in 1..Len(old) + Len(new) PROVE out'[k] = Clamp((old \o new)[k])
        <4>1. CASE k <= Len(old)
          <5>1. k \in 1..Len(old) /\ k \in 1..Len(out)  BY <1>7, <3>1, <4>1
          <5> QED  BY <1>11, <1>15, <3>1, <4>1, <5>1
        <4>2. CASE k = Len(old) + 1
          <5>1. k \in 1..Len(out) /\ ~(k <= Len(old)) /\ k - Len(old) = 1
            BY <1>7, <3>1, <4>2
          <5>2. out'[k] = Clamp(r)  BY <1>11, <3>1, <4>2, <5>1
          <5>3. (old \o new)[k] = new[1]  BY <1>15, <5>1
          <5> QED  BY <3>2, <5>2, <5>3
        <4>3. CASE k > Len(old) + 1
          <5>1. PICK j : j = k - Len(out)  OBVIOUS
          <5>2. /\ j \in 1..Len(kept) /\ k = Len(out) + j /\ ~(k <= Len(old))
                /\ k - Len(old) = j + 1 /\ j + 1 \in 2..Len(lines)
            BY <1>7, <1>10, <1>11, <2>1, <3>1, <4>3, <5>1
          <5>3. out'[k] = Clamp(lines[j + 1])  BY <1>11, <2>1, <5>2
          <5>4. (old \o new)[k] = lines[j + 1]
            <6>1. (old \o new)[k] = new[k - Len(old)]  BY <1>15, <5>2
            <6> QED  BY <3>1, <5>2, <6>1
          <5> QED  BY <5>3, <5>4
        <4> QED  BY <1>7, <4>1, <4>2, <4>3
      <3>4. Len(out') = Len(old \o new) + Len(more)
        <4>1. /\ Len(out') = Len(out) + Len(kept) + Len(more) /\ Len(out) = Len(old) + 1
              /\ Len(kept) = Len(lines) - 1 /\ Len(new) = Len(lines)
              /\ Len(old \o new) = Len(old) + Len(new)
          BY <1>11, <1>15, <2>1, <3>1, Zenon
        <4> HIDE DEF S
        <4> QED  BY <1>7, <1>10, <1>11, <4>1
      <3>5. \A k \in 1..Len(old \o new) : out'[k] = Clamp((old \o new)[k])
        BY <1>15, <3>3, Zenon
      <3> QED  BY <3>4, <3>5
    <2>4. ASSUME ~overflow' PROVE InStep'
      <3>1. ~(Len(tail) > MaxRecord) /\ Len(more) = 0 /\ buf' = tail
        <4>1. ~(Len(tail) > MaxRecord)  BY <1>4, <2>4, Zenon
        <4> QED  BY <1>4, <4>1
      <3>2. Len(tail) =< MaxRecord
        <4>1. Len(tail) \in Nat  BY <1>4, LenProperties DEF S
        <4> QED  BY <3>1, <4>1, FramerAssumption
      <3>3. mode = "lf" =>
              /\ Len(out') = Len(old \o new) + 0
              /\ \A k \in 1..Len(old \o new) : out'[k] = Clamp((old \o new)[k])
        BY <2>3, <3>1
      <3>4. Len(out') =< Len(old \o new)  BY <1>7, <1>10, <1>11, <1>15, <2>2, <3>1
      <3>5. mode' = "lf" \/ Small(stream)' => LinesOut(stream, 0)'
        <4>1. mode = "lf" \/ mode = "crlf"  BY <1>4 DEF Framed
        <4> QED  BY <1>4, <1>10, <1>12, <1>13, <3>3, <4>1 DEF LinesOut
      <3> QED  BY <1>4, <1>10, <1>17, <3>1, <3>2, <3>4, <3>5 DEF InStep
    <2>5. ASSUME overflow' PROVE PastTheCap(whole)'
      <3>1. Len(tail) > MaxRecord /\ Len(more) = 1 /\ buf' = <<>> /\ more = <<tail>>
        <4>1. Len(tail) > MaxRecord  BY <1>4, <1>17, <2>5, Zenon
        <4> QED  BY <1>3, <1>4, <1>17, <4>1
      <3>2. whole \o <<>> = whole  BY <1>4, ConcatEmptySeq DEF S
      <3>3. Split(mode, <<>>).lines = <<>>  BY <1>4, SplitEmpty DEF NoParts
      <3>4. Len(out') =< Len(old \o new) + 1  BY <2>2, <3>1
      <3>5. ASSUME mode = "lf"
            PROVE  LinesOut(whole, 1)' /\ out'[Len(out')] = Clamp(tail)
        <4>1. LinesOut(whole, 1)'  BY <1>4, <1>10, <2>3, <3>1, <3>5 DEF LinesOut
        <4>2. 1 \in 1..Len(more) /\ more[1] = tail  BY <3>1
        <4>3. out'[Len(out) + Len(kept) + 1] = Clamp(more[1])  BY <1>11, <4>2
        <4> QED  BY <1>11, <3>1, <4>1, <4>2, <4>3
      <3> QED
        BY <1>4, <1>10, <1>12, <1>13, <1>17, <3>1, <3>2, <3>3, <3>4, <3>5 DEF PastTheCap
    <2> QED  BY <1>4, <2>4, <2>5 DEF S
  <1> QED  BY <1>16, <1>17

\* What the invariant says where the buffer is the tail of the stream.
LEMMA InStepMeans ==
    ASSUME FramerTyped, mode \in Framed, InStep
    PROVE  /\ Len(Split(mode, stream).rest) =< MaxRecord
           /\ mode = "lf" \/ LineShorter(MaxRecord) => out = Clamped(Split(mode, stream).lines)
  <1> DEFINE S == Seq(Bytes)
  <1>1. PICK lines, tail : /\ lines = Split(mode, stream).lines
                           /\ tail = Split(mode, stream).rest
    OBVIOUS
  <1>2. /\ buf = tail /\ Len(buf) =< MaxRecord /\ Len(out) =< Len(lines)
        /\ mode = "lf" \/ Small(stream) => LinesOut(stream, 0)
    BY <1>1 DEF InStep
  <1>3. out \in Seq(Record) /\ stream \in S  BY DEF FramerTyped
  <1>4. /\ lines \in Seq(S) /\ tail \in S /\ Len(lines) \in Nat /\ Len(tail) \in Nat
        /\ Len(out) \in Nat /\ MaxRecord \in Nat
    <2>1. LF \in Bytes /\ MaxRecord \in Nat  BY FramerAssumption
    <2> QED  BY <1>1, <1>3, <2>1, LineStep, LenProperties
  <1>5. ASSUME LineShorter(MaxRecord) PROVE Small(stream)
    <2>1. /\ \A k \in DOMAIN lines : Len(lines[k]) < MaxRecord
          /\ Len(tail) < MaxRecord
      BY <1>1, <1>5 DEF LineShorter
    <2> HIDE DEF S
    <2>2. DOMAIN lines = 1..Len(lines)  BY <1>4, LenProperties
    <2>3. \A k \in 1..Len(lines) : Len(lines[k]) < MaxRecord  BY <2>1, <2>2, Zenon
    <2>4. Len(tail) =< MaxRecord  BY <1>4, <2>1
    <2> QED  BY <1>1, <2>3, <2>4, Zenon DEF Small
  <1>6. ASSUME mode = "lf" \/ LineShorter(MaxRecord) PROVE out = Clamped(lines)
    <2>1. Len(out) = Len(lines) /\ \A k \in 1..Len(lines) : out[k] = Clamp(lines[k])
      BY <1>1, <1>2, <1>4, <1>5, <1>6 DEF LinesOut
    <2>2. /\ Clamped(lines) \in Seq(Record) /\ Len(Clamped(lines)) = Len(lines)
          /\ \A k \in 1..Len(lines) : Clamped(lines)[k] = Clamp(lines[k])
      BY <1>4, ClampedIs
    <2> QED  BY <1>3, <2>1, <2>2, SeqEqual
  <1> QED  BY <1>1, <1>2, <1>6

\* What it says past the cap: the tail of the stream is over the cap, and what was
\* emitted of it is the last record.
LEMMA PastTheCapMeans ==
    ASSUME FramerTyped, mode \in Framed, NEW x \in Seq(Bytes), PastTheCap(x)
    PROVE  LET whole == Split(mode, stream) IN
           /\ Len(out) =< Len(whole.lines) + 1
           /\ mode = "lf" => /\ Len(whole.rest) > MaxRecord
                             /\ out = Clamped(whole.lines) \o <<Clamp(whole.rest)>>
           /\ mode = "crlf" => ~LineShorter(MaxRecord)
  <1> DEFINE S == Seq(Bytes)
  <1>1. PICK lines, tail, old, r :
           /\ lines = Split(mode, stream).lines /\ tail = Split(mode, stream).rest
           /\ old = Split(mode, x).lines /\ r = Split(mode, x).rest
    OBVIOUS
  <1>3. out \in Seq(Record) /\ stream \in S /\ buf \in S  BY DEF FramerTyped
  <1>4. /\ stream = x \o buf /\ Split(mode, buf).lines = <<>>
        /\ Len(out) =< Len(old) + 1 /\ (mode = "crlf" => ~Small(stream))
        /\ mode = "lf" => /\ Len(out) = Len(old) + 1
                          /\ \A k \in 1..Len(old) : out[k] = Clamp(old[k])
                          /\ out[Len(out)] = Clamp(r) /\ Len(r) > MaxRecord
    BY <1>1 DEF PastTheCap, LinesOut
  <1>5. /\ lines \in Seq(S) /\ tail \in S /\ Len(lines) \in Nat /\ Len(tail) \in Nat
        /\ old \in Seq(S) /\ Len(old) \in Nat /\ r \in S /\ Len(r) \in Nat
        /\ Len(out) \in Nat /\ MaxRecord \in Nat
    <2>1. LF \in Bytes /\ MaxRecord \in Nat  BY FramerAssumption
    <2> QED  BY <1>1, <1>3, <2>1, LineStep, LenProperties
  <1>6. PICK new : new = Split(mode, r \o buf).lines  OBVIOUS
  <1>7. new \in Seq(S) /\ Len(new) \in Nat
    <2>1. r \o buf \in S  BY <1>3, <1>5, ConcatProperties
    <2>2. LF \in Bytes  BY FramerAssumption
    <2> QED  BY <1>6, <2>1, <2>2, LineStep
  <1>8. lines = old \o new /\ tail = Split(mode, r \o buf).rest
    <2>1. /\ Split(mode, x \o buf).lines
               = Split(mode, x).lines \o Split(mode, Split(mode, x).rest \o buf).lines
          /\ Split(mode, x \o buf).rest = Split(mode, Split(mode, x).rest \o buf).rest
      BY <1>3, GoesOn, Zenon
    <2> QED  BY <1>1, <1>4, <1>6, <2>1, Zenon
  <1>9. Len(lines) = Len(old) + Len(new)
    <2> HIDE DEF S
    <2> QED  BY <1>5, <1>7, <1>8, ConcatProperties
  <1>10. Len(out) =< Len(lines) + 1
    <2> HIDE DEF S
    <2> QED  BY <1>4, <1>5, <1>7, <1>9
  <1>11. ASSUME mode = "lf"
         PROVE  Len(tail) > MaxRecord /\ out = Clamped(lines) \o <<Clamp(tail)>>
    <2>1. Split("lf", r) = [lines |-> <<>>, rest |-> r]  BY <1>1, <1>11, TailAlone
    <2>2. Split("lf", r).lines = <<>> /\ Split("lf", r).rest = r  BY <2>1
    <2>3. /\ Len(Split("lf", r \o buf).lines) = Len(Split("lf", buf).lines)
          /\ Split("lf", buf).lines = <<>> =>
                Split("lf", r \o buf).rest = r \o Split("lf", buf).rest
      BY <1>3, <1>5, <2>2, LfPrefix, Zenon
    <2>4. Split("lf", buf).rest = buf  BY <1>3, <1>4, <1>11, NoLineYet
    <2>5. tail = r \o buf  BY <1>4, <1>8, <1>11, <2>3, <2>4
    <2>6. new = <<>>
      <3>1. Len(new) = 0
        <4>1. Len(<<>>) = 0  OBVIOUS
        <4> QED  BY <1>4, <1>6, <1>11, <2>3, <4>1, Zenon
      <3> HIDE DEF S
      <3> QED  BY <1>7, <3>1, EmptySeq
    <2>7. lines = old
      <3> HIDE DEF S
      <3> QED  BY <1>5, <1>8, <2>6, ConcatEmptySeq
    <2>8. Clamp(tail) = Clamp(r) /\ Len(tail) > MaxRecord
      BY <1>3, <1>4, <1>5, <1>11, <2>5, ClampLong
    <2>10. /\ Clamped(lines) \in Seq(Record) /\ Len(Clamped(lines)) = Len(lines)
           /\ \A k \in 1..Len(lines) : Clamped(lines)[k] = Clamp(lines[k])
      BY <1>5, ClampedIs
    <2>11. Clamp(r) \in Record  BY <1>5, ClampIs
    <2>12. PICK c, d : c = Clamped(lines) /\ d = Append(c, Clamp(r))  OBVIOUS
    <2>13. /\ d \in Seq(Record) /\ Len(d) = Len(old) + 1
           /\ \A k \in 1..Len(old) : d[k] = Clamp(old[k])
           /\ d[Len(old) + 1] = Clamp(r)
      <3>1. c \in Seq(Record) /\ Len(c) = Len(old) /\ \A k \in 1..Len(old) : c[k] = Clamp(old[k])
        BY <2>7, <2>10, <2>12
      <3>2. /\ d \in Seq(Record) /\ Len(d) = Len(c) + 1 /\ d[Len(c) + 1] = Clamp(r)
            /\ \A k \in 1..Len(c) : d[k] = c[k]
        BY <2>11, <2>12, <3>1, AppendProperties
      <3> QED  BY <3>1, <3>2
    <2>14. \A k \in 1..Len(out) : out[k] = d[k]
      <3>1. ASSUME NEW k \in 1..Len(out) PROVE k \in 1..Len(old) \/ k = Len(old) + 1
        <4> HIDE DEF S
        <4> QED  BY <1>4, <1>5, <1>11
      <3> QED  BY <1>4, <1>11, <2>13, <3>1, Zenon
    <2>15. out = d
      <3>1. Len(out) = Len(d)  BY <1>4, <1>11, <2>13
      <3> QED  BY <1>3, <2>13, <2>14, <3>1, SeqEqual
    <2>16. d = c \o <<Clamp(r)>>  BY <2>10, <2>11, <2>12, AppendIsConcat
    <2> QED  BY <2>8, <2>12, <2>15, <2>16, Zenon
  <1>12. ASSUME mode = "crlf", LineShorter(MaxRecord) PROVE FALSE
    <2>2. /\ \A k \in DOMAIN lines : Len(lines[k]) < MaxRecord
          /\ Len(tail) < MaxRecord
      BY <1>1, <1>12 DEF LineShorter
    <2>3. DOMAIN lines = 1..Len(lines)
      <3> HIDE DEF S
      <3> QED  BY <1>5, LenProperties
    <2>4. Len(tail) =< MaxRecord
      <3> HIDE DEF S
      <3> QED  BY <1>5, <2>2
    <2>5. Small(stream)  BY <1>1, <2>2, <2>3, <2>4, Zenon DEF Small
    <2> QED  BY <1>4, <1>12, <2>5
  <1> QED  BY <1>1, <1>10, <1>11, <1>12, Zenon

\* What the framer promises, of every state the invariant allows.
LEMMA WhatWasEmitted ==
    ASSUME FramerInv, mode # "raw"
    PROVE  ChunkingIrrelevant /\ Len(out) =< Len(Split(mode, stream).lines) + 1
  <1>1. mode \in Framed  BY FramerAssumption DEF FramerInv, FramerTyped, Framed
  <1>2. FramerTyped  BY DEF FramerInv
  <1>3. Len(out) \in Nat /\ Len(Split(mode, stream).lines) \in Nat
    <2>1. out \in Seq(Record) /\ stream \in Seq(Bytes)  BY <1>2 DEF FramerTyped
    <2>2. LF \in Bytes  BY FramerAssumption
    <2> QED  BY <1>1, <2>1, <2>2, LineStep, LenProperties
  <1>4. CASE closed  BY <1>4 DEF FramerInv
  <1>5. CASE ~closed /\ ~overflow
    <2>1. InStep  BY <1>5 DEF FramerInv
    <2>2. /\ Len(Split(mode, stream).rest) =< MaxRecord
          /\ mode = "lf" \/ LineShorter(MaxRecord) => out = Clamped(Split(mode, stream).lines)
      BY <1>1, <1>2, <2>1, InStepMeans
    <2>3. ~(Len(Split(mode, stream).rest) > MaxRecord)
      <3>1. Len(Split(mode, stream).rest) \in Nat /\ MaxRecord \in Nat
        <4>1. LF \in Bytes /\ MaxRecord \in Nat /\ stream \in Seq(Bytes)
          BY <1>2, FramerAssumption DEF FramerTyped
        <4> QED  BY <1>1, <4>1, LineStep
      <3> QED  BY <2>2, <3>1
    <2>4. Reference = Clamped(Split(mode, stream).lines) \o <<>>
      BY <1>5, <2>3, Zenon DEF Reference
    <2>5. Clamped(Split(mode, stream).lines) \o <<>> = Clamped(Split(mode, stream).lines)
      <3>1. Split(mode, stream).lines \in Seq(Seq(Bytes))
        <4>1. LF \in Bytes /\ stream \in Seq(Bytes)
          BY <1>2, FramerAssumption DEF FramerTyped
        <4> QED  BY <1>1, <4>1, LineStep
      <3>2. Clamped(Split(mode, stream).lines) \in Seq(Record)  BY <3>1, ClampedIs
      <3> QED  BY <3>2, ConcatEmptySeq
    <2>6. ChunkingIrrelevant  BY <2>2, <2>4, <2>5, Zenon DEF ChunkingIrrelevant
    <2>7. Len(out) =< Len(Split(mode, stream).lines)  BY <2>1 DEF InStep
    <2>8. Len(out) =< Len(Split(mode, stream).lines) + 1  BY <1>3, <2>7
    <2> QED  BY <2>6, <2>8
  <1>6. CASE ~closed /\ overflow
    <2>1. PICK x \in Seq(Bytes) : PastTheCap(x)  BY <1>6 DEF FramerInv
    <2>2. /\ Len(out) =< Len(Split(mode, stream).lines) + 1
          /\ mode = "lf" =>
                /\ Len(Split(mode, stream).rest) > MaxRecord
                /\ out = Clamped(Split(mode, stream).lines) \o <<Clamp(Split(mode, stream).rest)>>
          /\ mode = "crlf" => ~LineShorter(MaxRecord)
      BY <1>1, <1>2, <2>1, PastTheCapMeans, Zenon
    <2>3. mode = "lf" => out = Reference  BY <2>2, Zenon DEF Reference
    <2> QED  BY <2>2, <2>3, Zenon DEF ChunkingIrrelevant
  <1> QED  BY <1>4, <1>5, <1>6

\* flush() emits a tail below the cap, and nothing of one whose record was emitted
\* already.
LEMMA FlushKeeps ==
    ASSUME FramerInv, Flush
    PROVE  FramerInv'
  <1>1. /\ mode \in Modes /\ buf \in Seq(Bytes) /\ stream \in Seq(Bytes) /\ out \in Seq(Record)
        /\ \A k \in 1..Len(out) : Len(out[k].payload) =< MaxRecord
    BY DEF FramerInv, FramerTyped
  <1>2. /\ ~closed /\ closed' = TRUE /\ buf' = <<>> /\ overflow' = FALSE
        /\ mode' = mode /\ stream' = stream
        /\ out' = IF mode = "raw" \/ overflow \/ buf = <<>>
                  THEN out ELSE Append(out, Clamp(buf))
    BY DEF Flush
  <1>3. PICK a, c : a = Append(out, c) /\ c = Clamp(buf)  OBVIOUS
  <1>4. /\ Len(a) = Len(out) + 1 /\ a \in Seq(Record) /\ Len(out) \in Nat
        /\ c \in Record /\ Len(c.payload) =< MaxRecord
        /\ a[Len(out) + 1] = c /\ \A k \in 1..Len(out) : a[k] = out[k]
    BY <1>1, <1>3, ClampIs, AppendProperties, LenProperties
  <1>5. \A k \in 1..Len(a) : Len(a[k].payload) =< MaxRecord
    <2>1. ASSUME NEW k \in 1..Len(a) PROVE k \in 1..Len(out) \/ k = Len(out) + 1
      BY <1>4
    <2> QED  BY <1>1, <1>4, <2>1, Zenon
  <1>6. FramerTyped'
    <2>1. out' = out \/ out' = a  BY <1>2, <1>3, Zenon
    <2>2. out' \in Seq(Record) /\ \A k \in 1..Len(out') : Len(out'[k].payload) =< MaxRecord
      BY <1>1, <1>4, <1>5, <2>1, Zenon
    <2>3. buf' \in Seq(Bytes) /\ overflow' \in BOOLEAN /\ closed' \in BOOLEAN
      BY <1>2, EmptySeq
    <2> QED  BY <1>1, <1>2, <2>2, <2>3 DEF FramerTyped
  <1>7. ASSUME mode # "raw"
        PROVE  ChunkingIrrelevant' /\ Len(out') =< Len(Split(mode, stream).lines) + 1
    <2> DEFINE lines == Split(mode, stream).lines
               tail == Split(mode, stream).rest
    <2>1. mode \in Framed  BY <1>1, <1>7, FramerAssumption DEF Framed
    <2>2. /\ lines \in Seq(Seq(Bytes)) /\ tail \in Seq(Bytes) /\ Len(lines) \in Nat
          /\ Len(tail) \in Nat /\ MaxRecord \in Nat
      <3>1. LF \in Bytes /\ MaxRecord \in Nat  BY FramerAssumption
      <3> QED  BY <1>1, <2>1, <3>1, LineStep
    <2>3. LineShorter(MaxRecord)' <=> LineShorter(MaxRecord)
      BY <1>2, Zenon DEF LineShorter
    <2>4. Reference' = Clamped(lines) \o (IF Len(tail) > MaxRecord \/ tail # <<>>
                                          THEN <<Clamp(tail)>> ELSE <<>>)
      BY <1>2, Zenon DEF Reference
    <2>5. CASE overflow
      <3>1. PICK x \in Seq(Bytes) : PastTheCap(x)  BY <1>2, <1>7, <2>5 DEF FramerInv
      <3>2. FramerTyped  BY DEF FramerInv
      <3>3. /\ Len(out) =< Len(lines) + 1
            /\ mode = "lf" => /\ Len(tail) > MaxRecord
                              /\ out = Clamped(lines) \o <<Clamp(tail)>>
            /\ mode = "crlf" => ~LineShorter(MaxRecord)
        BY <2>1, <3>1, <3>2, PastTheCapMeans, Zenon
      <3>4. out' = out  BY <1>2, <2>5
      <3>5. mode = "lf" => out' = Reference'  BY <2>4, <3>3, <3>4, Zenon
      <3> HIDE DEF lines, tail
      <3>6. ChunkingIrrelevant'  BY <1>2, <2>3, <3>3, <3>5, Zenon DEF ChunkingIrrelevant
      <3>7. Len(out') =< Len(lines) + 1  BY <3>3, <3>4
      <3> QED  BY <3>6, <3>7 DEF lines
    <2>6. CASE ~overflow
      <3>1. InStep /\ FramerTyped  BY <1>2, <1>7, <2>6 DEF FramerInv
      <3>2. /\ Len(tail) =< MaxRecord
            /\ mode = "lf" \/ LineShorter(MaxRecord) => out = Clamped(lines)
        BY <2>1, <3>1, InStepMeans, Zenon
      <3>3. buf = tail /\ Len(out) =< Len(lines)  BY <3>1, Zenon DEF InStep
      <3>4. out' = IF tail = <<>> THEN out ELSE a
        BY <1>2, <1>3, <1>7, <2>6, <3>3, Zenon
      <3>5. a = out \o <<Clamp(tail)>> /\ out \o <<>> = out
        BY <1>1, <1>3, <1>4, <3>3, AppendIsConcat, ConcatEmptySeq
      <3> HIDE DEF lines, tail
      <3>6. Len(out') =< Len(lines) + 1  BY <1>4, <2>2, <3>3, <3>4
      <3>7. ~(Len(tail) > MaxRecord)  BY <2>2, <3>2
      <3>8. out = Clamped(lines) => out' = Reference'
        BY <2>4, <3>4, <3>5, <3>7, Zenon
      <3>9. ChunkingIrrelevant'  BY <1>2, <2>3, <3>2, <3>8, Zenon DEF ChunkingIrrelevant
      <3> QED  BY <3>6, <3>9 DEF lines
    <2> QED  BY <2>5, <2>6
  <1> QED  BY <1>2, <1>6, <1>7, Zenon DEF FramerInv

\* In raw mode a record is a chunk, clamped.
LEMMA FeedRawKeeps ==
    ASSUME FramerInv, NEW chunk \in Seq(Bytes), FeedRaw(chunk)
    PROVE  FramerInv'
  <1>1. /\ mode \in Modes /\ overflow \in BOOLEAN /\ closed \in BOOLEAN
        /\ buf \in Seq(Bytes) /\ stream \in Seq(Bytes) /\ out \in Seq(Record)
        /\ \A k \in 1..Len(out) : Len(out[k].payload) =< MaxRecord
    BY DEF FramerInv, FramerTyped
  <1>2. /\ mode = "raw" /\ mode' = mode /\ buf' = buf /\ overflow' = overflow
        /\ closed' = closed /\ stream' = stream \o chunk /\ out' = Append(out, Clamp(chunk))
    BY DEF FeedRaw
  <1>3. PICK c : c = Clamp(chunk)  OBVIOUS
  <1>4. c \in Record /\ Len(c.payload) =< MaxRecord  BY <1>3, ClampIs
  <1>5. /\ out' \in Seq(Record) /\ Len(out') = Len(out) + 1 /\ Len(out) \in Nat
        /\ out'[Len(out) + 1] = c /\ \A k \in 1..Len(out) : out'[k] = out[k]
    BY <1>1, <1>2, <1>3, <1>4, AppendProperties, LenProperties
  <1>6. \A k \in 1..Len(out') : Len(out'[k].payload) =< MaxRecord
    <2>1. ASSUME NEW k \in 1..Len(out') PROVE k \in 1..Len(out) \/ k = Len(out) + 1
      BY <1>5
    <2> QED  BY <1>1, <1>4, <1>5, <2>1, Zenon
  <1>7. stream' \in Seq(Bytes)  BY <1>1, <1>2, ConcatProperties
  <1>8. FramerTyped'  BY <1>1, <1>2, <1>5, <1>6, <1>7 DEF FramerTyped
  <1> QED  BY <1>2, <1>8 DEF FramerInv

\* feed(), before and after the cap.
LEMMA FeedKeeps ==
    ASSUME FramerInv, NEW chunk \in Seq(Bytes), Feed(chunk)
    PROVE  FramerInv'
  <1>1. FramerTyped  BY DEF FramerInv
  <1>2. FramerTyped' /\ mode' = mode /\ mode # "raw" /\ closed = FALSE /\ closed' = FALSE
    BY <1>1, FeedIs, Zenon
  <1>3. CASE overflow
    <2>1. PICK x \in Seq(Bytes) : PastTheCap(x)  BY <1>2, <1>3 DEF FramerInv
    <2>2. /\ ~overflow' => InStep'
          /\ overflow' => \E y \in Seq(Bytes) : PastTheCap(y)'
      BY <1>1, <1>3, <2>1, FeedPastTheCap, Zenon
    <2> QED  BY <1>2, <2>2, Zenon DEF FramerInv
  <1>4. CASE ~overflow
    <2>1. InStep  BY <1>2, <1>4 DEF FramerInv
    <2>2. /\ ~overflow' => InStep'
          /\ overflow' => \E y \in Seq(Bytes) : PastTheCap(y)'
      BY <1>1, <1>4, <2>1, FeedInStep, Zenon
    <2> QED  BY <1>2, <2>2, Zenon DEF FramerInv
  <1> QED  BY <1>3, <1>4

\* Every call of the framer keeps its invariant.
LEMMA FramerStep ==
    ASSUME FramerInv, [FramerNext]_framerVars
    PROVE  FramerInv'
  <1>1. ASSUME NEW chunk \in Chunks PROVE chunk \in Seq(Bytes)
    BY <1>1 DEF Chunks
  <1>2. CASE \E chunk \in Chunks : Feed(chunk)  BY <1>1, <1>2, FeedKeeps
  <1>3. CASE \E chunk \in Chunks : FeedRaw(chunk)  BY <1>1, <1>3, FeedRawKeeps
  <1>4. CASE Flush  BY <1>4, FlushKeeps
  <1>5. CASE UNCHANGED framerVars
    BY <1>5 DEF framerVars, FramerInv, FramerTyped, InStep, PastTheCap, LinesOut, Small,
                ChunkingIrrelevant, Reference, LineShorter
  <1> QED  BY <1>2, <1>3, <1>4, <1>5, Zenon DEF FramerNext

\* Type correctness of the framer with what its buffer and its overflow flag stand
\* for: between the reads the buffer is the unterminated tail of the stream, and after
\* a record that was cut at the cap it is what has come of that record's rest.
THEOREM FramerSafe == FramerSpec => []FramerInv
  <1>1. FramerInit => FramerInv  BY FramerStarts
  <1>2. FramerInv /\ [FramerNext]_framerVars => FramerInv'  BY FramerStep
  <1> QED  BY <1>1, <1>2, PTL DEF FramerSpec

\* However a peer's bytes are cut into reads, feed() and flush() emit the records of
\* the whole stream: always with LF, and with CRLF as long as its records are below
\* the cap.
THEOREM ChunksDoNotMatter == FramerSpec => []ChunkingIrrelevant
  <1>1. FramerInv => ChunkingIrrelevant
    <2>1. mode = "raw" => ChunkingIrrelevant  BY DEF ChunkingIrrelevant
    <2> QED  BY <2>1, WhatWasEmitted
  <1> QED  BY <1>1, FramerSafe, PTL

\* Of one line the framer emits one record, truncated or not, whichever call it came
\* out of, and none is longer than the cap.
THEOREM NoRecordTwice == FramerSpec => []OneRecordPerLine
  <1>1. ASSUME FramerInv PROVE OneRecordPerLine
    <2>1. mode # "raw" => Len(out) =< Len(Split(mode, stream).lines) + 1
      BY <1>1, WhatWasEmitted
    <2>2. out \in Seq(Record) /\ \A k \in 1..Len(out) : Len(out[k].payload) =< MaxRecord
      BY <1>1 DEF FramerInv, FramerTyped
    <2>3. DOMAIN out = 1..Len(out)  BY <2>2, LenProperties
    <2> QED  BY <2>1, <2>2, <2>3, Zenon DEF OneRecordPerLine
  <1> QED  BY <1>1, FramerSafe, PTL

-----------------------------------------------------------------------------
(* The stream of messages.  ServerSender and Streaming implement ClientStream, *)
(* which TLC checks on small instances; what is proved here is what they       *)
(* inherit, for any set of clients and any number of messages.                *)

\* A header first, if every client is sent one, then consecutive messages.
Run(s) ==
    /\ WithHeader /\ s # <<>> => s[1] = 0
    /\ \A n \in 2..Len(s) : s[n] = s[n - 1] + 1 \/ (s[n - 1] = 0 /\ s[n] > 0)

\* The next message of a client that is due it follows its last one.
EndsIn(s, n) == s # <<>> => s[Len(s)] \in {0, n}

StreamTypeOK ==
    /\ sent \in Nat /\ open \subseteq Clients /\ due \subseteq Clients
    /\ heard \in [Clients -> Seq(Nat)]

StreamInv ==
    /\ StreamTypeOK
    /\ due # {} => sent > 0
    /\ \A c \in Clients :
          /\ Run(heard[c])
          /\ c \in open \ due => EndsIn(heard[c], sent)
          /\ c \in due => EndsIn(heard[c], sent - 1)
          /\ WithHeader /\ c \in open \cup due => heard[c] # <<>>

-----------------------------------------------------------------------------
\* A message after its predecessor, or after a header, prolongs the run.
LEMMA RunGrows ==
    ASSUME NEW s \in Seq(Nat), NEW n \in Nat, n > 0, Run(s), EndsIn(s, n - 1),
           WithHeader => s # <<>>
    PROVE  /\ Append(s, n) \in Seq(Nat) /\ Append(s, n) # <<>>
           /\ Run(Append(s, n)) /\ EndsIn(Append(s, n), n)
  <1> DEFINE t == Append(s, n)
  <1>1. /\ t \in Seq(Nat) /\ Len(t) = Len(s) + 1 /\ t # <<>> /\ t[Len(s) + 1] = n
        /\ \A i \in 1..Len(s) : t[i] = s[i] /\ s[i] \in Nat
        /\ Len(s) \in Nat /\ (s # <<>> <=> Len(s) >= 1)
    <2>1. t \in Seq(Nat) /\ Len(t) = Len(s) + 1 /\ t # <<>> /\ t[Len(s) + 1] = n
      BY AppendProperties
    <2>2. \A i \in 1..Len(s) : t[i] = s[i]  BY AppendProperties
    <2>3. \A i \in 1..Len(s) : s[i] \in Nat  BY ElementOfSeq
    <2>4. Len(s) \in Nat /\ (s # <<>> <=> Len(s) >= 1)  BY EmptySeq, LenProperties
    <2> QED  BY <2>1, <2>2, <2>3, <2>4
  <1> HIDE DEF t
  <1>2. ASSUME NEW i \in 2..Len(t) PROVE t[i] = t[i - 1] + 1 \/ (t[i - 1] = 0 /\ t[i] > 0)
    <2>1. CASE i \in 2..Len(s)
      <3>1. i - 1 \in 1..Len(s) /\ i \in 1..Len(s)  BY <2>1, <1>1
      <3>2. s[i] = s[i - 1] + 1 \/ (s[i - 1] = 0 /\ s[i] > 0)  BY <2>1 DEF Run
      <3> QED  BY <1>1, <3>1, <3>2
    <2>2. CASE i = Len(s) + 1
      <3>1. Len(s) \in 1..Len(s) /\ s # <<>> /\ i - 1 = Len(s)  BY <1>1, <2>2
      <3>2. s[Len(s)] \in {0, n - 1}  BY <3>1 DEF EndsIn
      <3>3. t[i] = n /\ t[i - 1] = s[Len(s)]  BY <1>1, <2>2, <3>1
      <3> QED  BY <3>2, <3>3
    <2> QED  BY <1>1, <2>1, <2>2
  <1>3. WithHeader => t[1] = 0
    BY <1>1 DEF Run
  <1>4. EndsIn(t, n)  BY <1>1 DEF EndsIn
  <1> QED  BY <1>1, <1>2, <1>3, <1>4 DEF Run, t

\* What a client is given on connecting is a run that any message may follow.
LEMMA Greetings ==
    /\ <<0>> # <<>>
    /\ \A s \in {<<>>, <<0>>} :
          /\ s \in Seq(Nat) /\ Run(s)
          /\ \A n : EndsIn(s, n)
  <1>1. <<0>> # <<>> /\ Len(<<0>>) = 1 /\ <<0>>[1] = 0  OBVIOUS
  <1>2. Len(<<>>) = 0  BY EmptySeq
  <1>3. <<>> \in Seq(Nat)  BY EmptySeq
  <1>4. <<0>> \in Seq(Nat)  OBVIOUS
  <1>5. ASSUME NEW s \in {<<>>, << 0 >>} PROVE Run(s) /\ \A n : EndsIn(s, n)
    <2>1. CASE s = <<>>  BY <2>1, <1>2 DEF Run, EndsIn
    <2>2. CASE s = <<0>>  BY <2>2, <1>1 DEF Run, EndsIn
    <2> QED  BY <2>1, <2>2
  <1> QED  BY <1>1, <1>3, <1>4, <1>5

\* Nobody has heard anything yet.
LEMMA InitStream == StreamInit => StreamInv
  BY Greetings DEF StreamInit, StreamInv, StreamTypeOK

\* A broadcast of message n to `to`, whose clients are due it, in one step of it.
LEMMA DeliverKeeps ==
    ASSUME StreamInv, NEW to \in SUBSET Clients, NEW n \in Nat, n > 0, Deliver(to, n),
           sent' = n,
           \A c \in to : EndsIn(heard[c], n - 1) /\ (WithHeader => heard[c] # <<>>),
           \A c \in open \ to : EndsIn(heard[c], n)
    PROVE  StreamInv'
  <1>1. PICK served \in SUBSET to :
          /\ heard' = [c \in Clients |->
                         IF c \in served THEN Append(heard[c], n) ELSE heard[c]]
          /\ due' \subseteq to \ served /\ open' \subseteq open
          /\ to \cap open' \subseteq served \cup due'
    BY DEF Deliver
  <1>2. ASSUME NEW c \in served
        PROVE  /\ heard'[c] \in Seq(Nat) /\ heard'[c] # <<>>
               /\ Run(heard'[c]) /\ EndsIn(heard'[c], n)
    <2>1. heard[c] \in Seq(Nat) /\ Run(heard[c])  BY DEF StreamInv, StreamTypeOK
    <2>2. heard'[c] = Append(heard[c], n)  BY <1>1
    <2>3. EndsIn(heard[c], n - 1) /\ (WithHeader => heard[c] # <<>>)  BY <1>1
    <2> QED  BY <2>1, <2>2, <2>3, RunGrows
  <1>3. ASSUME NEW c \in Clients \ served PROVE heard'[c] = heard[c]
    BY <1>1
  <1>4. StreamTypeOK'
    <2>1. \A c \in Clients : heard'[c] \in Seq(Nat)
      BY <1>2, <1>3 DEF StreamInv, StreamTypeOK
    <2>2. heard' \in [Clients -> Seq(Nat)]  BY <1>1, <2>1
    <2> QED  BY <1>1, <2>2 DEF StreamInv, StreamTypeOK
  <1>5. ASSUME NEW c \in Clients
        PROVE  /\ Run(heard'[c])
               /\ c \in open' \ due' => EndsIn(heard'[c], n)
               /\ c \in due' => EndsIn(heard'[c], n - 1)
               /\ WithHeader /\ c \in open' \cup due' => heard'[c] # <<>>
    <2>1. CASE c \in served  BY <1>1, <1>2, <2>1
    <2>2. CASE c \notin served
      <3>1. heard'[c] = heard[c] /\ Run(heard[c])  BY <1>3, <2>2 DEF StreamInv
      <3>2. c \in due' => c \in to  BY <1>1
      <3>3. c \in open' \ due' => c \in open \ to  BY <1>1, <2>2
      <3>4. WithHeader /\ c \in open => heard[c] # <<>>  BY DEF StreamInv
      <3> QED  BY <3>1, <3>2, <3>3, <3>4, <1>1
    <2> QED  BY <2>1, <2>2
  <1> QED  BY <1>4, <1>5 DEF StreamInv

\* Every step keeps each client at most one message behind, and only while it is due.
LEMMA NextStream == StreamInv /\ [StreamNext]_streamVars => StreamInv'
  <1> SUFFICES ASSUME StreamInv, [StreamNext]_streamVars PROVE StreamInv'  OBVIOUS
  <1>1. CASE Publish
    <2>1. sent + 1 \in Nat /\ sent + 1 > 0 /\ sent' = sent + 1 /\ Deliver(open, sent + 1)
      BY <1>1 DEF Publish, StreamInv, StreamTypeOK
    <2>2. open \in SUBSET Clients /\ (sent + 1) - 1 = sent  BY DEF StreamInv, StreamTypeOK
    <2>3. \A c \in open : /\ EndsIn(heard[c], (sent + 1) - 1)
                          /\ WithHeader => heard[c] # <<>>
      BY <1>1, <2>2 DEF Publish, StreamInv
    <2>4. \A c \in open \ open : EndsIn(heard[c], sent + 1)  OBVIOUS
    <2> QED  BY <2>1, <2>2, <2>3, <2>4, DeliverKeeps
  <1>2. CASE Resume
    <2>1. sent \in Nat /\ sent > 0 /\ sent' = sent /\ Deliver(due, sent)
      BY <1>2 DEF Resume, StreamInv, StreamTypeOK
    <2>2. due \in SUBSET Clients /\ open \subseteq Clients  BY DEF StreamInv, StreamTypeOK
    <2>3. \A c \in due : EndsIn(heard[c], sent - 1) /\ (WithHeader => heard[c] # <<>>)
      BY <2>2 DEF StreamInv
    <2>4. \A c \in open \ due : EndsIn(heard[c], sent)  BY <2>2 DEF StreamInv
    <2> QED  BY <2>1, <2>2, <2>3, <2>4, DeliverKeeps
  <1>3. ASSUME NEW c \in Clients, Join(c) PROVE StreamInv'
    <2>1. /\ open' = open \cup {c} /\ sent' = sent /\ heard[c] = <<>>
          /\ heard' = [heard EXCEPT ![c] = <<0>>] \/ (~WithHeader /\ heard' = heard)
          /\ due' = due \/ (sent > 0 /\ due' = due \cup {c})
      BY <1>3 DEF Join
    <2>2. /\ heard'[c] \in {<<>>, <<0>>} /\ (WithHeader => heard'[c] = <<0>>)
          /\ \A d \in Clients \ {c} : heard'[d] = heard[d]
      BY <2>1 DEF StreamInv, StreamTypeOK
    <2>3. /\ heard'[c] \in Seq(Nat) /\ Run(heard'[c])
          /\ EndsIn(heard'[c], sent) /\ EndsIn(heard'[c], sent - 1)
          /\ WithHeader => heard'[c] # <<>>
      BY <2>2, Greetings
    <2>4. StreamTypeOK'
      <3>1. heard' \in [Clients -> Seq(Nat)]
        BY <2>1, Greetings DEF StreamInv, StreamTypeOK
      <3> QED  BY <2>1, <3>1 DEF StreamInv, StreamTypeOK
    <2>5. due' # {} => sent' > 0  BY <2>1 DEF StreamInv
    <2>6. ASSUME NEW d \in Clients \ {c}
          PROVE  /\ Run(heard'[d])
                 /\ d \in open' \ due' => EndsIn(heard'[d], sent')
                 /\ d \in due' => EndsIn(heard'[d], sent' - 1)
                 /\ WithHeader /\ d \in open' \cup due' => heard'[d] # <<>>
      BY <2>1, <2>2 DEF StreamInv
    <2> QED  BY <2>1, <2>3, <2>4, <2>5, <2>6 DEF StreamInv
  <1>4. ASSUME NEW c \in Clients, Leave(c) PROVE StreamInv'
    <2>1. /\ open' = open \ {c} /\ sent' = sent /\ heard' = heard
          /\ due' = due \/ due' = due \ {c}
      BY <1>4 DEF Leave
    <2> QED  BY <2>1 DEF StreamInv, StreamTypeOK
  <1>5. ASSUME NEW c \in Clients, Forget(c) PROVE StreamInv'
    <2>1. /\ open' = open /\ sent' = sent /\ due' = due \ {c} /\ c \notin open
          /\ heard' = [heard EXCEPT ![c] = <<>>]
      BY <1>5 DEF Forget
    <2>2. heard'[c] = <<>> /\ \A d \in Clients \ {c} : heard'[d] = heard[d]
      BY <2>1 DEF StreamInv, StreamTypeOK
    <2>3. Run(heard'[c])  BY <2>2, Greetings
    <2>4. StreamTypeOK'
      <3>1. heard' \in [Clients -> Seq(Nat)]  BY <2>1, Greetings DEF StreamInv, StreamTypeOK
      <3> QED  BY <2>1, <3>1 DEF StreamInv, StreamTypeOK
    <2> QED  BY <2>1, <2>2, <2>3, <2>4 DEF StreamInv
  <1>6. CASE UNCHANGED streamVars
    BY <1>6 DEF streamVars, StreamInv, StreamTypeOK
  <1> QED  BY <1>1, <1>2, <1>3, <1>4, <1>5, <1>6 DEF StreamNext

\* What a client of the server hears has no gap, repetition or reordering, and lacks
\* at most the message being broadcast.
THEOREM HeardContiguously == StreamSpec => []Contiguous
  <1>1. StreamInv => Contiguous  BY DEF StreamInv, Contiguous, Run, EndsIn
  <1> QED  BY <1>1, InitStream, NextStream, PTL DEF StreamSpec

=============================================================================
