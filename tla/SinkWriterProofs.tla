-------------------------- MODULE SinkWriterProofs --------------------------
(***************************************************************************)
(* The receiver's file writer, whatever the records, the configurations,   *)
(* the callers and the faults: its byte count, its pause signal and its    *)
(* rotated files.                                                          *)
(*                                                                         *)
(* The byte counts and the renames of _rotate are folds.  What a fold      *)
(* computes is proved by a least counterexample (LeastNat): first that the *)
(* recursive function behind FoldLeft exists, then along its prefixes.     *)
(***************************************************************************)
EXTENDS SinkWriter, SequenceTheorems, FiniteSetTheorems, WellFoundedInduction, TLAPS

-----------------------------------------------------------------------------
(* Folds.                                                                  *)

\* A set of numbers that is not empty has a least one.
LEMMA LeastNat ==
    ASSUME NEW T \in SUBSET Nat, T # {}
    PROVE  \E n \in T : \A m \in T : n =< m
  <1>1. PICK n \in T : \A m \in T : ~ (<<m, n>> \in OpToRel(<, Nat))
    BY NatLessThanWellFounded, WFMin, Zenon
  <1>2. \A m \in T : ~ (m < n)
    BY <1>1 DEF OpToRel
  <1> QED  BY <1>2

\* Max, with which FoldLeft takes the last position, is what it is called.
LEMMA LargestOf ==
    ASSUME NEW k \in Nat, NEW s \in SUBSET (1..k), s # {}
    PROVE  Max(s) \in s /\ \A x \in s : Max(s) >= x
  <1> DEFINE T == {n \in Nat : \A x \in s : n >= x}
  <1>1. k \in T  OBVIOUS
  <1>2. PICK n \in T : \A m \in T : n =< m  BY <1>1, LeastNat
  <1>3. n \in s
    <2>1. SUFFICES ASSUME n \notin s PROVE FALSE  OBVIOUS
    <2>2. n - 1 \in Nat /\ \A x \in s : n - 1 >= x
      <3>1. PICK x \in s : TRUE  OBVIOUS
      <3>2. n >= x /\ x \in Nat /\ x > 0  BY <3>1
      <3> QED  BY <2>1, <3>2
    <2> QED  BY <1>2, <2>2
  <1> QED  BY <1>3 DEF Max

LEMMA LastOf ==
    ASSUME NEW k \in Nat \ {0}
    PROVE  Max(1..k) = k /\ (1..k) \ {k} = 1..(k - 1)
  <1>1. 1..k \in SUBSET (1..k) /\ k \in 1..k  OBVIOUS
  <1>2. Max(1..k) \in 1..k /\ \A x \in 1..k : Max(1..k) >= x
    BY <1>1, LargestOf
  <1>3. Max(1..k) >= k  BY <1>1, <1>2
  <1>4. Max(1..k) = k  BY <1>2, <1>3
  <1> QED  BY <1>4

\* g folds F over the subsets of 1..n, the largest number last.
FoldsBy(g, n, base, F) ==
    \A s \in SUBSET (1..n) :
        g[s] = IF s = {} THEN base ELSE F[<<Max(s), g[s \ {Max(s)}]>>]

\* Along 1..n that is one step after the other.
StepsBy(g, n, base, F) ==
    g[1..0] = base /\ \A k \in 1..n : g[1..k] = F[<<k, g[1..(k - 1)]>>]

\* The subsets of 1..n have a function that takes them apart from the last on.
LEMMA FoldExists ==
    ASSUME NEW n \in Nat, NEW V, NEW base \in V, NEW F \in [(1..n) \X V -> V]
    PROVE  \E g \in [SUBSET (1..n) -> V] : FoldsBy(g, n, base, F)
  <1> USE DEF FoldsBy
  <1> DEFINE Good(k, g) == FoldsBy(g, k, base, F)
             Bad == {k \in 0..n : ~ \E g \in [SUBSET (1..k) -> V] : Good(k, g)}
  <1>1. SUFFICES ASSUME Bad # {} PROVE FALSE
    <2>1. n \in 0..n  OBVIOUS
    <2>2. Bad = {} => \E g \in [SUBSET (1..n) -> V] : Good(n, g)  BY <2>1
    <2> QED  BY <2>2
  <1>2. PICK k \in Bad : \A m \in Bad : k =< m
    <2>1. Bad \in SUBSET Nat  OBVIOUS
    <2> HIDE DEF Bad
    <2> QED  BY <1>1, <2>1, LeastNat
  <1>3. CASE k = 0
    <2> DEFINE g == [s \in SUBSET (1..0) |-> base]
    <2>1. SUBSET (1..0) = {{}}  OBVIOUS
    <2>2. g \in [SUBSET (1..0) -> V] /\ Good(0, g)  BY <2>1
    <2> QED  BY <1>2, <1>3, <2>2
  <1>4. CASE k # 0
    <2>1. k \in Nat \ {0} /\ k =< n /\ k - 1 \in 0..n /\ k - 1 \notin Bad
      <3>1. k \in 0..n  BY <1>2
      <3> HIDE DEF Bad
      <3> QED  BY <1>2, <1>4, <3>1
    <2>2. PICK h \in [SUBSET (1..(k - 1)) -> V] : Good(k - 1, h)  BY <2>1
    <2> DEFINE g == [s \in SUBSET (1..k) |->
                       IF s = {} THEN base ELSE F[<<Max(s), h[s \ {Max(s)}]>>]]
    <2>3. ASSUME NEW s \in SUBSET (1..k), s # {}
          PROVE  Max(s) \in 1..n /\ s \ {Max(s)} \in SUBSET (1..(k - 1))
      <3>1. Max(s) \in s /\ \A x \in s : Max(s) >= x  BY <2>1, <2>3, LargestOf
      <3> DEFINE m == Max(s)
      <3>2. m \in s /\ \A x \in s : m >= x  BY <3>1
      <3> HIDE DEF m
      <3>3. \A x \in s \ {m} : x \in 1..(k - 1)  BY <2>1, <3>2
      <3>4. m \in 1..n /\ s \ {m} \in SUBSET (1..(k - 1))  BY <2>1, <3>2, <3>3
      <3> QED  BY <3>4 DEF m
    <2>4. ASSUME NEW s \in SUBSET (1..k)
          PROVE  (IF s = {} THEN base ELSE F[<<Max(s), h[s \ {Max(s)}]>>]) \in V
      BY <2>2, <2>3
    <2>5. g \in [SUBSET (1..k) -> V]  BY <2>4
    <2>6. \A s \in SUBSET (1..(k - 1)) : s \in SUBSET (1..k) /\ g[s] = h[s]
      BY <2>1, <2>2, SMTT(30)
    <2>7. Good(k, g)  BY <2>3, <2>6
    <2> QED  BY <1>2, <2>5, <2>7
  <1> QED  BY <1>3, <1>4

LEMMA FoldSteps ==
    ASSUME NEW n \in Nat, NEW V, NEW base \in V, NEW F \in [(1..n) \X V -> V],
           NEW g \in [SUBSET (1..n) -> V], FoldsBy(g, n, base, F)
    PROVE  StepsBy(g, n, base, F)
  <1> USE DEF FoldsBy, StepsBy
  <1>1. g[1..0] = base
    <2>1. 1..0 = {} /\ {} \in SUBSET (1..n)  OBVIOUS
    <2> QED  BY <2>1
  <1>2. ASSUME NEW k \in 1..n PROVE g[1..k] = F[<<k, g[1..(k - 1)]>>]
    <2>1. 1..k \in SUBSET (1..n) /\ 1..k # {} /\ k \in Nat \ {0}  OBVIOUS
    <2>2. Max(1..k) = k /\ (1..k) \ {k} = 1..(k - 1)  BY <2>1, LastOf
    <2> QED  BY <2>1, <2>2
  <1> QED  BY <1>1, <1>2

\* Two sequences of 0..n begin alike and go on alike ...
GoAlike(a, b, n) == a[0] = b[0] /\ \A k \in 1..n : a[k - 1] = b[k - 1] => a[k] = b[k]

\* ... and so end alike.
LEMMA SameSteps ==
    ASSUME NEW n \in Nat, NEW a, NEW b, GoAlike(a, b, n)
    PROVE  a[n] = b[n]
  <1> USE DEF GoAlike
  <1> DEFINE Bad == {k \in 0..n : a[k] # b[k]}
  <1>1. SUFFICES ASSUME Bad # {} PROVE FALSE  OBVIOUS
  <1>2. PICK k \in Bad : \A m \in Bad : k =< m
    <2>1. Bad \in SUBSET Nat  OBVIOUS
    <2> HIDE DEF Bad
    <2> QED  BY <1>1, <2>1, LeastNat
  <1>3. k \in 1..n  BY <1>2
  <1>4. k - 1 \notin Bad /\ k - 1 \in 0..n
    <2> HIDE DEF Bad
    <2> QED  BY <1>2, <1>3
  <1> QED  BY <1>2, <1>3, <1>4

-----------------------------------------------------------------------------
(* Sums.                                                                   *)

\* p adds up the numbers of q.
AddsUp(p, q) ==
    /\ p \in [0..Len(q) -> Nat] /\ p[0] = 0
    /\ \A k \in 1..Len(q) : p[k] = p[k - 1] + q[k]

\* The total of a sequence is the last of the sums along it.
LEMMA TotalAddsUp ==
    ASSUME NEW q \in Seq(Nat)
    PROVE  \E p : AddsUp(p, q) /\ Total(q) = p[Len(q)]
  <1> DEFINE n == Len(q)
             F == [x \in (1..n) \X Nat |-> x[2] + q[x[1]]]
             iter[s \in SUBSET (DOMAIN q)] ==
                IF s = {} THEN 0 ELSE LET x == Max(s) IN iter[s \ {x}] + q[x]
  <1>1. n \in Nat /\ DOMAIN q = 1..n /\ \A k \in 1..n : q[k] \in Nat
    BY LenProperties, ElementOfSeq
  <1>2. F \in [(1..n) \X Nat -> Nat]
    <2> SUFFICES ASSUME NEW x \in (1..n) \X Nat PROVE x[2] + q[x[1]] \in Nat
      OBVIOUS
    <2>1. x[1] \in 1..n /\ x[2] \in Nat  OBVIOUS
    <2>2. q[x[1]] \in Nat  BY <1>1, <2>1
    <2> QED  BY <2>1, <2>2
  <1>3. PICK g \in [SUBSET (1..n) -> Nat] : FoldsBy(g, n, 0, F)
    <2> HIDE DEF F
    <2> QED  BY <1>1, <1>2, FoldExists
  <1>4. ASSUME NEW s \in SUBSET (1..n), s # {}
        PROVE  F[<<Max(s), g[s \ {Max(s)}]>>] = g[s \ {Max(s)}] + q[Max(s)]
    <2>1. Max(s) \in 1..n  BY <1>1, <1>4, LargestOf
    <2>2. g[s \ {Max(s)}] \in Nat  BY <1>3
    <2> QED  BY <2>1, <2>2
  <1>5. g = [s \in SUBSET (DOMAIN q) |->
               IF s = {} THEN 0 ELSE LET x == Max(s) IN g[s \ {x}] + q[x]]
    BY <1>1, <1>3, <1>4 DEF FoldsBy
  <1>6. iter = [s \in SUBSET (DOMAIN q) |->
                  IF s = {} THEN 0 ELSE LET x == Max(s) IN iter[s \ {x}] + q[x]]
    BY <1>5
  <1>7. Total(q) = iter[DOMAIN q]
    BY DEF Total, FoldLeft, MapThenFoldSet
  <1> DEFINE p == [k \in 0..n |-> g[1..k]]
  <1>8. g[1..0] = 0 /\ \A k \in 1..n : g[1..k] = F[<<k, g[1..(k - 1)]>>]
    <2>1. StepsBy(g, n, 0, F)
      <3> HIDE DEF F
      <3> QED  BY <1>1, <1>2, <1>3, FoldSteps
    <2> QED  BY <2>1 DEF StepsBy
  <1>9. \A k \in 0..n : 1..k \in SUBSET (1..n) /\ g[1..k] \in Nat
    <2> HIDE DEF F, iter
    <2>1. \A k \in 0..n : 1..k \in SUBSET (1..n)  BY <1>1
    <2> QED  BY <1>3, <2>1
  <1>10. p \in [0..n -> Nat]  BY <1>9
  <1>11. \A k \in 1..n : p[k] = p[k - 1] + q[k]
    <2> SUFFICES ASSUME NEW k \in 1..n PROVE p[k] = p[k - 1] + q[k]  OBVIOUS
    <2>1. k - 1 \in 0..n /\ k \in 0..n  BY <1>1
    <2>2. g[1..k] = F[<<k, g[1..(k - 1)]>>]  BY <1>8
    <2>3. g[1..(k - 1)] \in Nat  BY <1>9, <2>1
    <2> QED  BY <2>1, <2>2, <2>3
  <1>12. p[0] = 0 /\ Total(q) = p[n]
    <2> DEFINE a == [k \in 0..n |-> iter[1..k]]
    <2>1. iter[{}] = 0
      <3>1. {} \in SUBSET (DOMAIN q)  OBVIOUS
      <3> HIDE DEF iter
      <3> QED  BY <1>6, <3>1
    <2>2. ASSUME NEW k \in 1..n PROVE iter[1..k] = iter[1..(k - 1)] + q[k]
      <3>1. 1..k \in SUBSET (DOMAIN q) /\ 1..k # {}  BY <1>1
      <3>2. Max(1..k) = k /\ (1..k) \ {k} = 1..(k - 1)  BY <1>1, LastOf
      <3> HIDE DEF iter
      <3> QED  BY <1>6, <3>1, <3>2
    <2> HIDE DEF iter
    <2>3. a[0] = p[0] /\ p[0] = 0
      <3>1. 1..0 = {} /\ 0 \in 0..n  BY <1>1
      <3> QED  BY <1>8, <2>1, <3>1
    <2>4. ASSUME NEW k \in 1..n, a[k - 1] = p[k - 1] PROVE a[k] = p[k]
      <3>1. k \in 0..n /\ k - 1 \in 0..n  BY <1>1
      <3>2. a[k] = a[k - 1] + q[k]  BY <2>2, <3>1
      <3> QED  BY <1>11, <2>4, <3>2
    <2>5. a[n] = p[n]
      <3> HIDE DEF a, p
      <3>1. GoAlike(a, p, n)  BY <2>3, <2>4 DEF GoAlike
      <3> QED  BY <1>1, <3>1, SameSteps
    <2>6. a[n] = iter[1..n]  BY <1>1
    <2> QED  BY <1>1, <1>7, <2>3, <2>5, <2>6
  <1> QED  BY <1>10, <1>11, <1>12 DEF AddsUp

\* Totals are what they are because of the numbers: none, one more at the end,
\* the first one taken away.
LEMMA TotalEmpty == Total(<<>>) = 0
  <1>1. <<>> \in Seq(Nat) /\ Len(<<>>) = 0  BY EmptySeq
  <1>2. PICK p : AddsUp(p, <<>>) /\ Total(<<>>) = p[Len(<<>>)]  BY <1>1, TotalAddsUp
  <1>3. p[0] = 0  BY <1>2 DEF AddsUp
  <1> QED  BY <1>1, <1>2, <1>3

LEMMA TotalAppend ==
    ASSUME NEW q \in Seq(Nat), NEW x \in Nat
    PROVE  Total(Append(q, x)) = Total(q) + x
  <1> DEFINE r == Append(q, x)
             n == Len(q)
  <1>1. /\ n \in Nat /\ r \in Seq(Nat) /\ Len(r) = n + 1
        /\ \A k \in 1..n : r[k] = q[k] /\ q[k] \in Nat
        /\ r[n + 1] = x
    BY LenProperties, ElementOfSeq, AppendProperties
  <1> HIDE DEF r, n
  <1>2. PICK p : AddsUp(p, q) /\ Total(q) = p[Len(q)]  BY TotalAddsUp
  <1>3. PICK u : AddsUp(u, r) /\ Total(r) = u[Len(r)]  BY <1>1, TotalAddsUp
  <1>4. GoAlike(u, p, n)
    BY <1>1, <1>2, <1>3 DEF AddsUp, GoAlike, n
  <1>5. u[n] = p[n]  BY <1>1, <1>4, SameSteps
  <1>6. u[n + 1] = u[n] + r[n + 1]
    <2>1. PICK m \in 1..Len(r) : m = n + 1 /\ m - 1 = n  BY <1>1
    <2>2. u[m] = u[m - 1] + r[m]  BY <1>3, <2>1 DEF AddsUp
    <2> QED  BY <2>1, <2>2
  <1>7. Total(r) = Total(q) + x  BY <1>1, <1>2, <1>3, <1>5, <1>6 DEF n
  <1> QED  BY <1>7 DEF r

LEMMA TotalTail ==
    ASSUME NEW q \in Seq(Nat), q # <<>>
    PROVE  Total(q) \in Nat /\ Total(Tail(q)) \in Nat /\ Total(q) = q[1] + Total(Tail(q))
  <1> DEFINE r == Tail(q)
             n == Len(r)
  <1>1. /\ Len(q) = n + 1 /\ n \in Nat /\ r \in Seq(Nat) /\ q[1] \in Nat
        /\ \A k \in 1..n : r[k] = q[k + 1] /\ r[k] \in Nat
    BY LenProperties, ElementOfSeq, EmptySeq, HeadTailProperties
  <1> HIDE DEF r, n
  <1>2. PICK p : AddsUp(p, q) /\ Total(q) = p[Len(q)]  BY TotalAddsUp
  <1>3. PICK u : AddsUp(u, r) /\ Total(r) = u[Len(r)]  BY <1>1, TotalAddsUp
  <1>4. /\ p \in [0..(n + 1) -> Nat] /\ p[0] = 0 /\ \A k \in 1..(n + 1) : p[k] = p[k - 1] + q[k]
        /\ u \in [0..n -> Nat] /\ u[0] = 0 /\ \A k \in 1..n : u[k] = u[k - 1] + r[k]
    BY <1>1, <1>2, <1>3 DEF AddsUp, n
  <1> DEFINE a == [k \in 0..n |-> p[k + 1]]
             b == [k \in 0..n |-> q[1] + u[k]]
  <1>5. a[0] = b[0]
    <2>1. p[1] = p[0] + q[1] /\ u[0] = 0  BY <1>1, <1>4
    <2> QED  BY <1>1, <1>4, <2>1
  <1>6. ASSUME NEW k \in 1..n, a[k - 1] = b[k - 1] PROVE a[k] = b[k]
    <2>1. k - 1 \in 0..n /\ k \in 0..n /\ k + 1 \in 1..(n + 1) /\ k + 1 - 1 = k /\ k - 1 + 1 = k
      BY <1>1
    <2>2. p[k + 1] = p[k] + q[k + 1] /\ u[k] = u[k - 1] + r[k]  BY <1>4, <2>1
    <2>3. a[k - 1] = p[k] /\ b[k - 1] = q[1] + u[k - 1] /\ a[k] = p[k + 1] /\ b[k] = q[1] + u[k]
      BY <2>1
    <2>4. r[k] = q[k + 1] /\ r[k] \in Nat /\ u[k - 1] \in Nat /\ q[1] \in Nat
      BY <1>1, <1>4, <2>1
    <2> QED  BY <1>6, <2>2, <2>3, <2>4
  <1>7. a[n] = b[n]
    <2> HIDE DEF a, b
    <2>1. GoAlike(a, b, n)  BY <1>5, <1>6 DEF GoAlike
    <2> QED  BY <1>1, <2>1, SameSteps
  <1>8. p[n + 1] = q[1] + u[n]
    <2>1. n \in 0..n  BY <1>1
    <2> QED  BY <1>7, <2>1
  <1>9. Total(q) = q[1] + Total(r)  BY <1>1, <1>2, <1>3, <1>8 DEF n
  <1>10. Total(r) \in Nat
    <2>1. u[n] \in Nat  BY <1>1, <1>4
    <2> QED  BY <1>3, <2>1 DEF n
  <1> QED  BY <1>1, <1>9, <1>10 DEF r

LEMMA TotalType == \A q \in Seq(Nat) : Total(q) \in Nat
  <1> SUFFICES ASSUME NEW q \in Seq(Nat) PROVE Total(q) \in Nat  OBVIOUS
  <1>1. PICK p : AddsUp(p, q) /\ Total(q) = p[Len(q)]  BY TotalAddsUp
  <1>2. Len(q) \in 0..Len(q)  BY LenProperties
  <1> QED  BY <1>1, <1>2 DEF AddsUp

-----------------------------------------------------------------------------
(* The payload of a queue and the bytes of a file.                         *)

Items == {Wake, Stop} \cup {Rec(i) : i \in Records}
Entries == [id : Records, len : Nat]

LEMMA SizeType ==
    /\ \A i \in Records : RecordSize[i] \in Nat
    /\ \A item \in Items : Size(item) \in Nat
  <1>1. \A i \in Records : RecordSize[i] \in Nat
    BY ConstantAssumption, LenProperties, ElementOfSeq DEF Records
  <1> QED  BY <1>1 DEF Items, Size, Wake, Stop, Rec

Weights(q) == [n \in DOMAIN q |-> Size(q[n])]

LEMMA WeightsType ==
    ASSUME NEW q \in Seq(Items)
    PROVE  /\ Weights(q) \in Seq(Nat) /\ Len(Weights(q)) = Len(q)
           /\ \A n \in 1..Len(q) : Weights(q)[n] = Size(q[n])
           /\ PayloadBytes(q) = Total(Weights(q))
  <1>1. Len(q) \in Nat /\ DOMAIN q = 1..Len(q) /\ \A n \in 1..Len(q) : q[n] \in Items
    BY LenProperties, ElementOfSeq
  <1>2. Weights(q) = [n \in 1..Len(q) |-> Size(q[n])]  BY <1>1 DEF Weights
  <1>3. \A n \in 1..Len(q) : Size(q[n]) \in Nat  BY <1>1, SizeType
  <1>4. PayloadBytes(q) = Total(Weights(q))  BY DEF PayloadBytes, Weights
  <1> QED  BY <1>1, <1>2, <1>3, <1>4

LEMMA PayloadEmpty == PayloadBytes(<<>>) = 0
  <1>1. <<>> \in Seq(Items)  BY EmptySeq
  <1>2. Weights(<<>>) \in Seq(Nat) /\ Len(Weights(<<>>)) = 0 /\ PayloadBytes(<<>>) = Total(Weights(<<>>))
    BY <1>1, EmptySeq, WeightsType
  <1>3. Weights(<<>>) = <<>>  BY <1>2, EmptySeq
  <1> QED  BY <1>2, <1>3, TotalEmpty

\* An item put into the queue adds its payload.
LEMMA PayloadAppend ==
    ASSUME NEW q \in Seq(Items), NEW item \in Items
    PROVE  PayloadBytes(Append(q, item)) = PayloadBytes(q) + Size(item)
  <1> DEFINE r == Append(q, item)
             w == Append(Weights(q), Size(item))
  <1>1. /\ r \in Seq(Items) /\ Len(r) = Len(q) + 1 /\ Len(q) \in Nat
        /\ \A n \in 1..Len(q) : r[n] = q[n]
        /\ r[Len(q) + 1] = item
    BY AppendProperties, LenProperties
  <1>2. /\ Weights(q) \in Seq(Nat) /\ Len(Weights(q)) = Len(q)
        /\ \A n \in 1..Len(q) : Weights(q)[n] = Size(q[n])
        /\ PayloadBytes(q) = Total(Weights(q)) /\ Size(item) \in Nat
    BY WeightsType, SizeType
  <1>3. /\ w \in Seq(Nat) /\ Len(w) = Len(q) + 1
        /\ \A n \in 1..Len(q) : w[n] = Weights(q)[n]
        /\ w[Len(q) + 1] = Size(item)
    BY <1>2, AppendProperties
  <1> HIDE DEF r, w
  <1>4. /\ Weights(r) \in Seq(Nat) /\ Len(Weights(r)) = Len(r)
        /\ \A n \in 1..Len(r) : Weights(r)[n] = Size(r[n])
        /\ PayloadBytes(r) = Total(Weights(r))
    BY <1>1, WeightsType
  <1>5. \A n \in 1..Len(w) : Weights(r)[n] = w[n]
    <2> SUFFICES ASSUME NEW n \in 1..Len(w) PROVE Weights(r)[n] = w[n]  OBVIOUS
    <2>1. n \in 1..Len(r) /\ Weights(r)[n] = Size(r[n])  BY <1>1, <1>3, <1>4
    <2>2. CASE n \in 1..Len(q)  BY <1>1, <1>2, <1>3, <2>1, <2>2
    <2>3. CASE n = Len(q) + 1  BY <1>1, <1>3, <2>1, <2>3
    <2> QED  BY <1>1, <1>3, <2>2, <2>3
  <1>6. Weights(r) = w  BY <1>1, <1>3, <1>4, <1>5, SeqEqual
  <1>7. Total(w) = Total(Weights(q)) + Size(item)  BY <1>2, TotalAppend DEF w
  <1> QED  BY <1>2, <1>4, <1>6, <1>7 DEF r

\* The item taken from the head was counted.
LEMMA PayloadTail ==
    ASSUME NEW q \in Seq(Items), q # <<>>
    PROVE  /\ Head(q) \in Items /\ Size(Head(q)) \in Nat
           /\ PayloadBytes(q) \in Nat /\ PayloadBytes(Tail(q)) \in Nat
           /\ PayloadBytes(q) = Size(Head(q)) + PayloadBytes(Tail(q))
  <1> DEFINE r == Tail(q)
  <1>1. /\ r \in Seq(Items) /\ Len(r) = Len(q) - 1 /\ Len(q) \in Nat \ {0}
        /\ \A n \in 1..Len(r) : r[n] = q[n + 1]
        /\ Head(q) = q[1] /\ Head(q) \in Items
    BY HeadTailProperties, EmptySeq
  <1>2. /\ Weights(q) \in Seq(Nat) /\ Len(Weights(q)) = Len(q)
        /\ \A n \in 1..Len(q) : Weights(q)[n] = Size(q[n])
        /\ PayloadBytes(q) = Total(Weights(q))
    BY WeightsType
  <1>3. Weights(q) # <<>> /\ Size(Head(q)) \in Nat  BY <1>1, <1>2, EmptySeq, SizeType
  <1> DEFINE w == Tail(Weights(q))
  <1>4. /\ w \in Seq(Nat) /\ Len(w) = Len(q) - 1
        /\ \A n \in 1..Len(w) : w[n] = Weights(q)[n + 1]
    BY <1>2, <1>3, HeadTailProperties
  <1> HIDE DEF r, w
  <1>5. /\ Weights(r) \in Seq(Nat) /\ Len(Weights(r)) = Len(r)
        /\ \A n \in 1..Len(r) : Weights(r)[n] = Size(r[n])
        /\ PayloadBytes(r) = Total(Weights(r))
    BY <1>1, WeightsType
  <1>6. \A n \in 1..Len(w) : Weights(r)[n] = w[n]
    <2> SUFFICES ASSUME NEW n \in 1..Len(w) PROVE Weights(r)[n] = w[n]  OBVIOUS
    <2>1. n \in 1..Len(r) /\ n + 1 \in 1..Len(q)  BY <1>1, <1>4
    <2>2. Weights(r)[n] = Size(r[n]) /\ r[n] = q[n + 1]  BY <1>1, <1>5, <2>1
    <2>3. w[n] = Weights(q)[n + 1] /\ Weights(q)[n + 1] = Size(q[n + 1])  BY <1>2, <1>4, <2>1
    <2> QED  BY <2>2, <2>3
  <1>7. Weights(r) = w  BY <1>1, <1>4, <1>5, <1>6, SeqEqual
  <1>8. /\ Total(Weights(q)) \in Nat /\ Total(w) \in Nat
        /\ Total(Weights(q)) = Weights(q)[1] + Total(w)
    BY <1>2, <1>3, TotalTail DEF w
  <1>9. Weights(q)[1] = Size(Head(q))  BY <1>1, <1>2
  <1> QED  BY <1>1, <1>2, <1>3, <1>5, <1>7, <1>8, <1>9 DEF r

\* An entry written to a file adds its length.
LEMMA BytesOfFile ==
    ASSUME NEW gen \in Seq(Entries)
    PROVE  /\ Bytes(gen) \in Nat /\ Bytes(<<>>) = 0
           /\ \A e \in Entries : Bytes(Append(gen, e)) = Bytes(gen) + e.len
  <1> DEFINE Lengths(s) == [n \in DOMAIN s |-> s[n].len]
  <1>1. ASSUME NEW s \in Seq(Entries)
        PROVE  /\ Lengths(s) \in Seq(Nat) /\ Len(Lengths(s)) = Len(s)
               /\ \A n \in 1..Len(s) : Lengths(s)[n] = s[n].len
               /\ Bytes(s) = Total(Lengths(s))
    <2>1. Len(s) \in Nat /\ DOMAIN s = 1..Len(s) /\ \A n \in 1..Len(s) : s[n] \in Entries
      BY LenProperties, ElementOfSeq
    <2>2. \A n \in 1..Len(s) : s[n].len \in Nat  BY <2>1 DEF Entries
    <2>3. Lengths(s) \in [1..Len(s) -> Nat]  BY <2>1, <2>2
    <2>4. Bytes(s) = Total(Lengths(s))  BY DEF Bytes
    <2>5. \A n \in 1..Len(s) : Lengths(s)[n] = s[n].len  BY <2>1
    <2> HIDE DEF Lengths
    <2> QED  BY <2>1, <2>3, <2>4, <2>5
  <1> HIDE DEF Lengths
  <1>2. Bytes(gen) \in Nat  BY <1>1, TotalType
  <1>3. Bytes(<<>>) = 0
    <2>1. <<>> \in Seq(Entries) /\ Len(<<>>) = 0  BY EmptySeq
    <2>2. Lengths(<<>>) = <<>> /\ Bytes(<<>>) = Total(Lengths(<<>>))  BY <1>1, <2>1, EmptySeq
    <2> QED  BY <2>2, TotalEmpty
  <1>4. ASSUME NEW e \in Entries PROVE Bytes(Append(gen, e)) = Bytes(gen) + e.len
    <2> DEFINE r == Append(gen, e)
               w == Append(Lengths(gen), e.len)
    <2>1. /\ r \in Seq(Entries) /\ Len(r) = Len(gen) + 1 /\ Len(gen) \in Nat
          /\ \A n \in 1..Len(gen) : r[n] = gen[n]
          /\ r[Len(gen) + 1] = e /\ e.len \in Nat
      BY AppendProperties, LenProperties DEF Entries
    <2>2. /\ w \in Seq(Nat) /\ Len(w) = Len(gen) + 1
          /\ \A n \in 1..Len(gen) : w[n] = Lengths(gen)[n]
          /\ w[Len(gen) + 1] = e.len
      BY <1>1, <2>1, AppendProperties
    <2> HIDE DEF r, w
    <2>3. \A n \in 1..Len(w) : Lengths(r)[n] = w[n]
      <3> SUFFICES ASSUME NEW n \in 1..Len(w) PROVE Lengths(r)[n] = w[n]  OBVIOUS
      <3>1. n \in 1..Len(r) /\ Lengths(r)[n] = r[n].len  BY <1>1, <2>1, <2>2
      <3>2. CASE n \in 1..Len(gen)
        <4>1. Lengths(gen)[n] = gen[n].len  BY <1>1, <3>2
        <4> QED  BY <2>1, <2>2, <3>1, <3>2, <4>1
      <3>3. CASE n = Len(gen) + 1  BY <2>1, <2>2, <3>1, <3>3
      <3> QED  BY <2>1, <2>2, <3>2, <3>3
    <2>4. Lengths(r) = w  BY <1>1, <2>1, <2>2, <2>3, SeqEqual
    <2>5. Total(w) = Total(Lengths(gen)) + e.len  BY <1>1, <2>1, TotalAppend DEF w
    <2> QED  BY <1>1, <2>1, <2>4, <2>5 DEF r
  <1> QED  BY <1>2, <1>3, <1>4

-----------------------------------------------------------------------------
(* The renames of _rotate.                                                 *)

Gens == [0..MaxBackups -> Seq(Entries)]

\* Each generation from k on has moved up by one and replaced the last; one
\* that has no file replaces nothing.
Pushed(gens, b, k) ==
    [g \in 0..MaxBackups |->
        IF g > b \/ g < k THEN gens[g]
        ELSE IF g = b THEN (IF k = b \/ gens[b - 1] = <<>> THEN gens[b] ELSE gens[b - 1])
        ELSE IF g = k THEN <<>>
        ELSE gens[g - 1]]

LEMMA ShiftType ==
    ASSUME NEW gens \in Gens, NEW i \in 0..(MaxBackups - 1)
    PROVE  Shift(gens, i) \in Gens
  <1>1. i \in 0..MaxBackups /\ i + 1 \in 0..MaxBackups  BY ConstantAssumption
  <1>2. <<>> \in Seq(Entries)  BY EmptySeq
  <1> QED  BY <1>1, <1>2 DEF Shift, Gens

\* One rename.
LEMMA ShiftPushes ==
    ASSUME NEW gens \in Gens, NEW b \in 0..MaxBackups, NEW k \in 0..(b - 1)
    PROVE  Shift(Pushed(gens, b, k + 1), k) = Pushed(gens, b, k)
  <1> DEFINE old == Pushed(gens, b, k + 1)
             new == Pushed(gens, b, k)
  <1>1. /\ b \in Nat /\ k \in Nat /\ k < b /\ k \in 0..MaxBackups /\ k + 1 \in 0..MaxBackups
        /\ MaxBackups \in Nat
    BY ConstantAssumption
  <1>2. old[k] = gens[k]  BY <1>1 DEF Pushed
  <1>3. new[k] = <<>> /\ new[k + 1] = IF k + 1 = b /\ gens[k] = <<>> THEN gens[b] ELSE gens[k]
    BY <1>1 DEF Pushed
  <1>4. old[k + 1] = IF k + 1 = b THEN gens[b] ELSE <<>>
    BY <1>1 DEF Pushed
  <1>5. \A g \in 0..MaxBackups : g # k /\ g # k + 1 => new[g] = old[g]
    <2> SUFFICES ASSUME NEW g \in 0..MaxBackups, g # k, g # k + 1 PROVE new[g] = old[g]
      OBVIOUS
    <2>1. CASE g < k \/ g > b  BY <1>1, <2>1 DEF Pushed
    <2>2. CASE g > k + 1 /\ g =< b  BY <1>1, <2>2 DEF Pushed
    <2> QED  BY <1>1, <2>1, <2>2
  <1>6. /\ old = [g \in 0..MaxBackups |-> old[g]] /\ new = [g \in 0..MaxBackups |-> new[g]]
    BY DEF Pushed
  <1> HIDE DEF old, new
  <1>7. Shift(old, k) = new
    <2>1. CASE old[k] = <<>>
      <3>1. \A g \in 0..MaxBackups : new[g] = old[g]
        BY <1>1, <1>2, <1>3, <1>4, <1>5, <2>1
      <3>2. old = new  BY <1>6, <3>1
      <3> QED  BY <2>1, <3>2 DEF Shift
    <2>2. CASE old[k] # <<>>
      <3>1. Shift(old, k) = [g \in 0..MaxBackups |->
                               IF g = k THEN <<>> ELSE IF g = k + 1 THEN old[k] ELSE old[g]]
        BY <1>1, <1>6, <2>2 DEF Shift
      <3>2. new[k] = <<>> /\ new[k + 1] = old[k]  BY <1>2, <1>3, <2>2
      <3>3. \A g \in 0..MaxBackups :
               new[g] = IF g = k THEN <<>> ELSE IF g = k + 1 THEN old[k] ELSE old[g]
        BY <1>5, <3>2
      <3> QED  BY <1>6, <3>1, <3>3
    <2> QED  BY <2>1, <2>2
  <1> QED  BY <1>7 DEF old, new

\* All of them, from the oldest on.
LEMMA RenamesPush ==
    ASSUME NEW gens \in Gens, NEW b \in 0..MaxBackups, NEW k \in 0..b
    PROVE  ShiftedDownTo(gens, b, k) = Pushed(gens, b, k)
  <1> DEFINE n == b - k
             seq == [j \in 1..n |-> b - j]
             F == [x \in (1..n) \X Gens |-> Shift(x[2], b - x[1])]
             iter[s \in SUBSET (DOMAIN seq)] ==
                IF s = {} THEN gens ELSE LET x == Max(s) IN Shift(iter[s \ {x}], seq[x])
  <1>1. n \in Nat /\ b \in Nat /\ k \in Nat /\ k =< b /\ b =< MaxBackups /\ MaxBackups \in Nat
    BY ConstantAssumption
  <1>2. F \in [(1..n) \X Gens -> Gens]
    <2> SUFFICES ASSUME NEW x \in (1..n) \X Gens PROVE Shift(x[2], b - x[1]) \in Gens
      OBVIOUS
    <2>1. x[1] \in 1..n /\ x[2] \in Gens /\ b - x[1] \in 0..(MaxBackups - 1)  BY <1>1
    <2> QED  BY <2>1, ShiftType
  <1>3. PICK f \in [SUBSET (1..n) -> Gens] : FoldsBy(f, n, gens, F)
    <2> HIDE DEF F, n
    <2> QED  BY <1>1, <1>2, FoldExists
  <1>4. ASSUME NEW s \in SUBSET (1..n), s # {}
        PROVE  F[<<Max(s), f[s \ {Max(s)}]>>] = Shift(f[s \ {Max(s)}], seq[Max(s)])
    <2>1. Max(s) \in 1..n  BY <1>1, <1>4, LargestOf
    <2>2. f[s \ {Max(s)}] \in Gens  BY <1>3
    <2> QED  BY <2>1, <2>2
  <1>5. f = [s \in SUBSET (DOMAIN seq) |->
               IF s = {} THEN gens ELSE LET x == Max(s) IN Shift(f[s \ {x}], seq[x])]
    <2>1. DOMAIN seq = 1..n  OBVIOUS
    <2> HIDE DEF seq, F
    <2> QED  BY <1>3, <1>4, <2>1 DEF FoldsBy
  <1>6. iter = [s \in SUBSET (DOMAIN seq) |->
                  IF s = {} THEN gens ELSE LET x == Max(s) IN Shift(iter[s \ {x}], seq[x])]
    <2> HIDE DEF seq
    <2> QED  BY <1>5
  <1>7. ShiftedDownTo(gens, b, k) = iter[DOMAIN seq]
    BY DEF ShiftedDownTo, FoldLeft, MapThenFoldSet
  <1> DEFINE u == [j \in 0..n |-> iter[1..j]]
             v == [j \in 0..n |-> Pushed(gens, b, b - j)]
  <1>8. u[0] = v[0]
    <2>1. 1..0 = {} /\ {} \in SUBSET (DOMAIN seq) /\ 0 \in 0..n  BY <1>1
    <2>2. iter[{}] = gens
      <3> HIDE DEF iter, seq
      <3> QED  BY <1>6, <2>1
    <2>3. Pushed(gens, b, b) = gens
      BY <1>1 DEF Pushed, Gens
    <2> HIDE DEF iter
    <2> QED  BY <1>1, <2>1, <2>2, <2>3
  <1>9. ASSUME NEW j \in 1..n, u[j - 1] = v[j - 1] PROVE u[j] = v[j]
    <2>1. j \in 0..n /\ j - 1 \in 0..n /\ 1..j \in SUBSET (DOMAIN seq) /\ 1..j # {} /\ seq[j] = b - j
      BY <1>1
    <2>2. Max(1..j) = j /\ (1..j) \ {j} = 1..(j - 1)  BY <1>1, LastOf
    <2>3. iter[1..j] = Shift(iter[1..(j - 1)], b - j)
      <3> HIDE DEF iter, seq
      <3> QED  BY <1>6, <2>1, <2>2
    <2> HIDE DEF iter, seq
    <2>4. iter[1..(j - 1)] = Pushed(gens, b, b - (j - 1))  BY <1>9, <2>1
    <2>5. b - (j - 1) = (b - j) + 1 /\ b - j \in 0..(b - 1)  BY <1>1
    <2>6. Shift(Pushed(gens, b, (b - j) + 1), b - j) = Pushed(gens, b, b - j)
      BY <2>5, ShiftPushes
    <2> QED  BY <2>1, <2>3, <2>4, <2>5, <2>6
  <1>10. u[n] = v[n]
    <2> HIDE DEF u, v, n
    <2>1. GoAlike(u, v, n)  BY <1>8, <1>9 DEF GoAlike
    <2> QED  BY <1>1, <2>1, SameSteps
  <1>11. u[n] = iter[1..n] /\ v[n] = Pushed(gens, b, k)
    <2> HIDE DEF iter
    <2> QED  BY <1>1
  <1>12. DOMAIN seq = 1..n  OBVIOUS
  <1> QED  BY <1>7, <1>10, <1>11, <1>12

-----------------------------------------------------------------------------
(* The invariant.                                                          *)

\* The count is right until the drain dies of an open, and a paused receiver has
\* bytes in the queue that will be settled: every configuration pauses above
\* zero and resumes at zero.
QueueInv ==
    /\ queue \in Seq(Items) /\ queuedBytes \in Nat /\ backpressured \in BOOLEAN
    /\ QueuedBytesAccounted
    /\ backpressured => queuedBytes > 0

ControlInv ==
    /\ cfg \in Configs
    /\ task \in {"none", "new", "parked", "running", "returned", "raised"}
    /\ fh \in Paths \cup {NoPath}
    /\ pending.caller \in Callers \cup {NoCaller} /\ pending.cfg \in Configs
    /\ callers \in [Callers -> {"idle", "waiting"}]
    /\ stopping \in BOOLEAN
    /\ fate \in [Records -> Unwritten \cup Paths]
    /\ configures \in 0..MaxConfigures

FilesInv == files \in [Paths -> Gens] /\ currentSize \in Nat

SinkInv == QueueInv /\ ControlInv /\ FilesInv

LEMMA ConfigType ==
    \A c \in Configs :
        /\ c.enabled \in BOOLEAN /\ c.path \in Paths \cup {NoPath} /\ c.overhead \in Nat
        /\ c.rotationMax \in Nat \ {0} /\ c.backups \in 0..MaxBackups /\ c.backups \in Nat
        /\ c.low \in Nat /\ c.high \in Nat /\ c.max \in Nat /\ c.low < c.high /\ c.high =< c.max
  BY ConfigAssumption, ConstantAssumption DEF ValidConfig

LEMMA InitSink == Init => SinkInv
  <1> SUFFICES ASSUME Init PROVE SinkInv  OBVIOUS
  <1>1. <<>> \in Seq(Items) /\ <<>> \in Seq(Entries)  BY EmptySeq
  <1>2. QueueInv  BY <1>1, PayloadEmpty DEF Init, QueueInv, QueuedBytesAccounted
  <1>3. ControlInv
    <2>1. pending.caller = NoCaller /\ pending.cfg = InitialConfig  BY DEF Init, NoPending
    <2>2. InitialConfig \in Configs /\ 0 \in 0..MaxConfigures
      BY ConfigAssumption, ConstantAssumption
    <2> QED  BY <2>1, <2>2 DEF Init, ControlInv, Unwritten
  <1>4. FilesInv  BY <1>1 DEF Init, FilesInv, Gens
  <1> QED  BY <1>2, <1>3, <1>4 DEF SinkInv

-----------------------------------------------------------------------------
(* The queue and its count.                                                *)

\* A step that leaves the queue and its count alone, and does not revive the drain.
LEMMA QueueKept ==
    ASSUME QueueInv, UNCHANGED <<queue, queuedBytes, backpressured>>,
           task' # "raised" => task # "raised"
    PROVE  QueueInv'
  BY DEF QueueInv, QueuedBytesAccounted

\* A wake-up or the stop sentinel has no payload.
LEMMA QueueSentinel ==
    ASSUME QueueInv, NEW item \in {Wake, Stop}, queue' = Append(queue, item),
           UNCHANGED <<queuedBytes, backpressured, task>>
    PROVE  QueueInv'
  <1>1. item \in Items /\ Size(item) = 0  BY DEF Items, Size, Wake, Stop
  <1>2. queue' \in Seq(Items) /\ PayloadBytes(queue') = PayloadBytes(queue) + 0
    BY <1>1, PayloadAppend, AppendProperties DEF QueueInv
  <1>3. PayloadBytes(queue) = queuedBytes => PayloadBytes(queue') = queuedBytes
    BY <1>2 DEF QueueInv
  <1> QED  BY <1>2, <1>3 DEF QueueInv, QueuedBytesAccounted

\* The flag is only ever set at a count above zero.
LEMMA FlagAboveZero ==
    ASSUME NEW bp \in BOOLEAN, NEW q \in Nat, NEW c \in Configs
    PROVE  /\ Queue!Hysteresis(bp, q, c.high, c.low) \in BOOLEAN
           /\ Queue!Hysteresis(bp, q, c.high, c.low) => q > 0
  <1>1. c.low \in Nat /\ c.high \in Nat /\ c.low < c.high  BY ConfigType
  <1>2. CASE bp
    <2>1. Queue!Hysteresis(bp, q, c.high, c.low) = (q > c.low)  BY <1>2 DEF Queue!Hysteresis
    <2>2. (q > c.low) \in BOOLEAN /\ (q > c.low => q > 0)  BY <1>1
    <2> QED  BY <2>1, <2>2, Zenon
  <1>3. CASE ~bp
    <2>1. Queue!Hysteresis(bp, q, c.high, c.low) = (q >= c.high)  BY <1>3 DEF Queue!Hysteresis
    <2>2. (q >= c.high) \in BOOLEAN /\ (q >= c.high => q > 0)  BY <1>1
    <2> QED  BY <2>1, <2>2, Zenon
  <1> QED  BY <1>2, <1>3

LEMMA QueueSubmit ==
    ASSUME QueueInv, ControlInv, NEW i \in Records, Submit(i)
    PROVE  QueueInv'
  <1>1. task' = task  BY DEF Submit
  <1>2. CASE UNCHANGED <<queue, queuedBytes, backpressured>>  BY <1>1, <1>2, QueueKept
  <1>3. CASE /\ queue' = Append(queue, Rec(i))
             /\ queuedBytes' = queuedBytes + RecordSize[i]
             /\ UpdateBackpressure(queuedBytes')
    <2>1. Rec(i) \in Items /\ Size(Rec(i)) = RecordSize[i] /\ RecordSize[i] \in Nat
      BY SizeType DEF Items, Size, Rec
    <2>2. /\ queue' \in Seq(Items)
          /\ PayloadBytes(queue') = PayloadBytes(queue) + RecordSize[i]
      BY <1>3, <2>1, PayloadAppend, AppendProperties DEF QueueInv
    <2>3. queuedBytes' \in Nat  BY <1>3, <2>1 DEF QueueInv
    <2>4. backpressured' \in BOOLEAN /\ (backpressured' => queuedBytes' > 0)
      BY <1>3, <2>3, FlagAboveZero DEF QueueInv, ControlInv, UpdateBackpressure
    <2>5. QueuedBytesAccounted'
      BY <1>1, <1>3, <2>2 DEF QueueInv, QueuedBytesAccounted
    <2> QED  BY <2>2, <2>3, <2>4, <2>5 DEF QueueInv
  <1> QED  BY <1>2, <1>3 DEF Submit

\* A record settled leaves the queue and the count.
LEMMA QueueSettle ==
    ASSUME QueueInv, ControlInv, NEW f, SettleRecord(f)
    PROVE  /\ QueueInv' /\ queuedBytes = PayloadBytes(queue)
           /\ Head(queue).id \in Records /\ Head(queue) = Rec(Head(queue).id)
           /\ Size(Head(queue)) = RecordSize[Head(queue).id]
           /\ Size(Head(queue)) \in Nat /\ Size(Head(queue)) =< queuedBytes
  <1>1. /\ task = "running" /\ task' = task /\ queue # <<>> /\ queue' = Tail(queue)
        /\ Head(queue).kind = "record"
        /\ queuedBytes' = queuedBytes - Size(Head(queue))
        /\ UpdateBackpressure(queuedBytes')
    BY DEF SettleRecord, NextIs
  <1>2. /\ Head(queue) \in Items /\ Size(Head(queue)) \in Nat
        /\ PayloadBytes(queue) \in Nat /\ PayloadBytes(queue') \in Nat
        /\ PayloadBytes(queue) = Size(Head(queue)) + PayloadBytes(queue')
        /\ queue' \in Seq(Items)
    BY <1>1, PayloadTail, HeadTailProperties DEF QueueInv
  <1>3. queuedBytes = PayloadBytes(queue)  BY <1>1 DEF QueueInv, QueuedBytesAccounted
  <1>4. queuedBytes' = PayloadBytes(queue') /\ queuedBytes' \in Nat  BY <1>1, <1>2, <1>3
  <1>5. backpressured' \in BOOLEAN /\ (backpressured' => queuedBytes' > 0)
    BY <1>1, <1>4, FlagAboveZero DEF QueueInv, ControlInv, UpdateBackpressure
  <1>6. /\ Head(queue).id \in Records /\ Head(queue) = Rec(Head(queue).id)
        /\ Size(Head(queue)) = RecordSize[Head(queue).id]
    BY <1>1, <1>2 DEF Items, Rec, Wake, Stop, Size
  <1> QED  BY <1>2, <1>3, <1>4, <1>5, <1>6 DEF QueueInv, QueuedBytesAccounted

\* A sentinel taken from the head had no payload.
LEMMA QueueTake ==
    ASSUME QueueInv, queue # <<>>, queue' = Tail(queue), Size(Head(queue)) = 0,
           task = "running", UNCHANGED <<queuedBytes, backpressured>>
    PROVE  QueueInv'
  <1>1. queue' \in Seq(Items) /\ PayloadBytes(queue') = PayloadBytes(queue)
    <2>1. /\ PayloadBytes(queue) \in Nat /\ PayloadBytes(queue') \in Nat
          /\ PayloadBytes(queue) = 0 + PayloadBytes(queue') /\ queue' \in Seq(Items)
      BY PayloadTail, HeadTailProperties DEF QueueInv
    <2> QED  BY <2>1
  <1> QED  BY <1>1 DEF QueueInv, QueuedBytesAccounted

LEMMA QueueApply ==
    ASSUME QueueInv, ApplyPending
    PROVE  QueueInv'
  <1>1. /\ UNCHANGED <<queuedBytes, backpressured>> /\ task = "running" /\ queue # <<>>
        /\ IF task' = "raised" THEN queue' = Tail(queue) ELSE queue' = queue
    BY DEF ApplyPending
  <1>2. CASE task' = "raised"
    BY <1>1, <1>2, HeadTailProperties DEF QueueInv, QueuedBytesAccounted
  <1>3. CASE task' # "raised"
    BY <1>1, <1>3, QueueKept
  <1> QED  BY <1>2, <1>3

LEMMA NextQueue ==
    ASSUME QueueInv, ControlInv, [Next]_vars
    PROVE  QueueInv'
  <1>1. CASE \E i \in Records : Submit(i)  BY <1>1, QueueSubmit
  <1>2. CASE \E c \in Callers, k \in Configs : Configure(c, k)
    BY <1>2, QueueSentinel DEF Configure
  <1>3. CASE StopCall  BY <1>3, QueueSentinel DEF StopCall
  <1>4. CASE TakeStop \/ TakeWake
    <2>1. /\ queue # <<>> /\ queue' = Tail(queue) /\ Size(Head(queue)) = 0
          /\ task = "running" /\ UNCHANGED <<queuedBytes, backpressured>>
      BY <1>4 DEF TakeStop, TakeWake, NextIs, Size
    <2> QED  BY <2>1, QueueTake
  <1>5. CASE Discard \/ Write \/ RotateFails \/ WriteFails
    BY <1>5, QueueSettle DEF Discard, Write, RotateFails, WriteFails
  <1>6. CASE ApplyPending  BY <1>6, QueueApply
  <1>7. CASE Start \/ StopReturn \/ DrainStart \/ Park \/ Unpark
    BY <1>7, QueueKept DEF Start, StopReturn, DrainStart, Open, Park, Unpark
  <1>8. CASE UNCHANGED vars \/ \E k \in Configs : ConfigureIdle(k)
    BY <1>8, QueueKept DEF vars, ConfigureIdle
  <1> QED
    BY <1>1, <1>2, <1>3, <1>4, <1>5, <1>6, <1>7, <1>8 DEF Next, Drain

-----------------------------------------------------------------------------
(* Control.                                                                *)

LEMMA NextControl ==
    ASSUME QueueInv, ControlInv, [Next]_vars
    PROVE  ControlInv'
  <1> USE DEF ControlInv, Unwritten
  <1>0. MaxConfigures \in Nat  BY ConstantAssumption
  <1>1. CASE \E i \in Records : Submit(i)  BY <1>1 DEF Submit, fileVars, driverVars
  <1>2. ASSUME NEW c \in Callers, NEW k \in Configs, Configure(c, k) PROVE ControlInv'
    <2>1. pending'.caller = c /\ pending'.cfg = k  BY <1>2 DEF Configure
    <2>2. callers' \in [Callers -> {"idle", "waiting"}]  BY <1>2 DEF Configure
    <2>3. configures' \in 0..MaxConfigures  BY <1>0, <1>2 DEF Configure
    <2> QED  BY <1>2, <2>1, <2>2, <2>3 DEF Configure, fileVars
  <1>3. CASE StopCall  BY <1>3 DEF StopCall, fileVars, driverVars
  <1>4. CASE TakeStop \/ TakeWake
    BY <1>4 DEF TakeStop, TakeWake, NextIs, fileVars, driverVars
  <1>5. ASSUME NEW f \in {"discarded"} \cup Paths, SettleRecord(f), fh' \in {fh, NoPath}
        PROVE  ControlInv'
    <2>1. Head(queue).id \in Records  BY <1>5, QueueSettle
    <2> QED  BY <1>5, <2>1 DEF SettleRecord, NextIs, driverVars
  <1>6. CASE Discard \/ Write \/ RotateFails \/ WriteFails
    <2>1. CASE Discard  BY <1>5, <2>1 DEF Discard, fileVars
    <2>2. CASE Write  BY <1>5, <2>2 DEF Write
    <2>3. CASE RotateFails  BY <1>5, <2>3 DEF RotateFails
    <2>4. CASE WriteFails  BY <1>5, <2>4 DEF WriteFails
    <2> QED  BY <1>6, <2>1, <2>2, <2>3, <2>4
  <1>7. CASE ApplyPending
    <2>1. /\ cfg' = pending.cfg /\ pending' = NoPending /\ pending.caller \in Callers
          /\ stopping' = stopping /\ configures' = configures
      BY <1>7 DEF ApplyPending
    <2>2. pending'.caller = NoCaller /\ pending'.cfg = InitialConfig /\ InitialConfig \in Configs
      BY <2>1, ConfigAssumption DEF NoPending
    <2>3. fh' \in Paths \cup {NoPath} /\ task' \in {"running", "raised"}
      <3>1. pending.cfg.path \in Paths \cup {NoPath}  BY ConfigType
      <3> QED  BY <1>7, <3>1 DEF ApplyPending, Open
    <2>4. callers' \in [Callers -> {"idle", "waiting"}]
      BY <1>7, <2>1 DEF ApplyPending
    <2>5. fate' \in [Records -> Unwritten \cup Paths]
      <3>1. Head(queue).kind = "record" /\ queue # <<>> => Head(queue).id \in Records
        BY PayloadTail DEF QueueInv, Items, Rec, Wake, Stop
      <3> QED  BY <1>7, <3>1 DEF ApplyPending
    <2> QED  BY <2>1, <2>2, <2>3, <2>4, <2>5
  <1>8. CASE DrainStart
    <2>1. cfg.path \in Paths \cup {NoPath}  BY ConfigType
    <2> QED  BY <1>8, <2>1 DEF DrainStart, Open, driverVars
  <1>9. CASE Start \/ StopReturn \/ Park \/ Unpark \/ UNCHANGED vars
    BY <1>9 DEF Start, StopReturn, Park, Unpark, vars, fileVars, driverVars
  <1>10. ASSUME NEW k \in Configs, ConfigureIdle(k) PROVE ControlInv'
    <2>1. configures' \in 0..MaxConfigures  BY <1>0, <1>10 DEF ConfigureIdle
    <2> QED  BY <1>10, <2>1 DEF ConfigureIdle, fileVars
  <1> QED
    BY <1>1, <1>2, <1>3, <1>4, <1>6, <1>7, <1>8, <1>9, <1>10 DEF Next, Drain

-----------------------------------------------------------------------------
(* Files.                                                                  *)

\* What a rotation does to the generations, the whole of it or a part.
LEMMA RotatedForm ==
    ASSUME NEW gens \in Gens, NEW b \in 0..MaxBackups
    PROVE  /\ Rotated(gens, b) = IF b = 0 THEN [gens EXCEPT ![0] = <<>>] ELSE Pushed(gens, b, 0)
           /\ Rotated(gens, b) \in Gens /\ Rotated(gens, b)[0] = <<>>
           /\ \A half \in HalfRotated(gens, b) :
                 /\ half \in Gens
                 /\ \/ \E k \in 0..b : half = Pushed(gens, b, k)
                    \/ half = [gens EXCEPT ![b] = <<>>] /\ (b > 0 => gens[b - 1] # <<>>)
  <1>1. b \in Nat /\ MaxBackups \in Nat /\ 0 \in 0..b /\ 0 \in 0..MaxBackups /\ b =< MaxBackups
    BY ConstantAssumption
  <1>2. <<>> \in Seq(Entries)  BY EmptySeq
  <1>3. \A k \in 0..b : Pushed(gens, b, k) \in Gens
    <2> SUFFICES ASSUME NEW k \in 0..b, NEW g \in 0..MaxBackups
                 PROVE  Pushed(gens, b, k)[g] \in Seq(Entries)
      BY DEF Pushed, Gens
    <2> QED  BY <1>1, <1>2 DEF Pushed, Gens
  <1>4. \A g \in 0..MaxBackups : [gens EXCEPT ![g] = <<>>] \in Gens
    BY <1>2 DEF Gens
  <1>5. Rotated(gens, b) = IF b = 0 THEN [gens EXCEPT ![0] = <<>>] ELSE Pushed(gens, b, 0)
    BY <1>1, RenamesPush DEF Rotated
  <1>6. [gens EXCEPT ![0] = <<>>][0] = <<>>  BY <1>1 DEF Gens
  <1>7. b # 0 => Pushed(gens, b, 0)[0] = <<>>  BY <1>1 DEF Pushed
  <1>8. Rotated(gens, b) \in Gens /\ Rotated(gens, b)[0] = <<>>
    BY <1>1, <1>3, <1>4, <1>5, <1>6, <1>7
  <1>9. ASSUME NEW half \in HalfRotated(gens, b)
        PROVE  /\ half \in Gens
               /\ \/ \E k \in 0..b : half = Pushed(gens, b, k)
                  \/ half = [gens EXCEPT ![b] = <<>>] /\ (b > 0 => gens[b - 1] # <<>>)
    <2>1. CASE \E k \in 0..b : half = ShiftedDownTo(gens, b, k)
      <3>1. PICK k \in 0..b : half = ShiftedDownTo(gens, b, k)  BY <2>1
      <3>2. half = Pushed(gens, b, k)  BY <3>1, RenamesPush
      <3> QED  BY <1>3, <3>2
    <2>2. CASE half = [gens EXCEPT ![b] = <<>>] /\ ~(b > 0 /\ gens[b - 1] = <<>>)
      BY <1>1, <1>4, <2>2
    <2> QED  BY <2>1, <2>2 DEF HalfRotated
  <1> QED  BY <1>5, <1>8, <1>9

\* The record written, as it stands in the file.
WrittenEntry == [id |-> Head(queue).id, len |-> EncodedSize(Head(queue))]

\* The generations the record is written to, or would be.
ReadyGens ==
    IF MustRotate(EncodedSize(Head(queue)))
    THEN Rotated(files[fh], cfg.backups) ELSE files[fh]

LEMMA SettleForm ==
    ASSUME SinkInv, NEW f, SettleRecord(f), fh # NoPath
    PROVE  /\ fh \in Paths /\ cfg.backups \in 0..MaxBackups /\ files[fh] \in Gens
           /\ WrittenEntry \in Entries /\ EncodedSize(Head(queue)) \in Nat
           /\ ReadyGens \in Gens /\ 0 \in 0..MaxBackups
           /\ \A half \in HalfRotated(files[fh], cfg.backups) : half \in Gens
  <1>1. fh \in Paths /\ cfg \in Configs  BY DEF SinkInv, ControlInv
  <1>2. cfg.backups \in 0..MaxBackups /\ cfg.overhead \in Nat  BY <1>1, ConfigType
  <1>3. files[fh] \in Gens  BY <1>1 DEF SinkInv, FilesInv
  <1>4. Head(queue).id \in Records /\ Size(Head(queue)) \in Nat  BY QueueSettle DEF SinkInv
  <1>5. EncodedSize(Head(queue)) \in Nat  BY <1>2, <1>4 DEF EncodedSize
  <1>6. WrittenEntry \in Entries  BY <1>4, <1>5 DEF WrittenEntry, Entries
  <1>7. ReadyGens \in Gens  BY <1>2, <1>3, RotatedForm DEF ReadyGens
  <1>8. \A half \in HalfRotated(files[fh], cfg.backups) : half \in Gens
    BY <1>2, <1>3, RotatedForm
  <1>9. 0 \in 0..MaxBackups  BY ConstantAssumption
  <1> QED  BY <1>1, <1>2, <1>3, <1>5, <1>6, <1>7, <1>8, <1>9

LEMMA NextFiles ==
    ASSUME SinkInv, [Next]_vars
    PROVE  FilesInv'
  <1> USE DEF FilesInv
  <1>0. files \in [Paths -> Gens] /\ currentSize \in Nat  BY DEF SinkInv
  <1>1. ASSUME NEW c \in Configs, Open(c), UNCHANGED files PROVE FilesInv'
    <2>1. CASE c.path \in Paths
      <3>1. files[c.path][0] \in Seq(Entries)  BY <1>0, <2>1, ConstantAssumption DEF Gens
      <3> QED  BY <1>0, <1>1, <3>1, BytesOfFile DEF Open
    <2>2. CASE c.path = NoPath  BY <1>0, <1>1, <2>2 DEF Open
    <2> QED  BY <2>1, <2>2, ConfigType
  <1>2. CASE ApplyPending
    <2>1. pending.cfg \in Configs  BY DEF SinkInv, ControlInv
    <2> QED  BY <1>0, <1>1, <1>2, <2>1 DEF ApplyPending
  <1>3. CASE DrainStart
    <2>1. cfg \in Configs  BY DEF SinkInv, ControlInv
    <2> QED  BY <1>1, <1>3, <2>1 DEF DrainStart
  <1>4. CASE Write
    <2>1. SettleRecord(fh) /\ fh # NoPath  BY <1>4 DEF Write
    <2>2. /\ files' = [files EXCEPT ![fh] = [ReadyGens EXCEPT ![0] = Append(@, WrittenEntry)]]
          /\ currentSize' = (IF MustRotate(EncodedSize(Head(queue))) THEN 0 ELSE currentSize)
                               + EncodedSize(Head(queue))
      BY <1>4 DEF Write, ReadyGens, WrittenEntry
    <2>3. [ReadyGens EXCEPT ![0] = Append(@, WrittenEntry)] \in Gens
      <3>1. /\ ReadyGens \in [0..MaxBackups -> Seq(Entries)] /\ 0 \in 0..MaxBackups
            /\ WrittenEntry \in Entries
        BY <2>1, SettleForm DEF Gens
      <3>2. Append(ReadyGens[0], WrittenEntry) \in Seq(Entries)  BY <3>1, AppendProperties
      <3> QED  BY <3>1, <3>2 DEF Gens
    <2>4. currentSize' \in Nat  BY <1>0, <2>1, <2>2, SettleForm
    <2> QED  BY <1>0, <2>2, <2>3, <2>4
  <1>5. CASE RotateFails
    <2>1. SettleRecord("discarded") /\ fh # NoPath  BY <1>5 DEF RotateFails
    <2> QED  BY <1>0, <1>5, <2>1, SettleForm DEF RotateFails
  <1>6. CASE WriteFails
    <2>1. SettleRecord("discarded") /\ fh # NoPath  BY <1>6 DEF WriteFails
    <2>2. /\ files' = [files EXCEPT ![fh] = ReadyGens] \/ UNCHANGED files
          /\ currentSize' \in {0, currentSize}
      BY <1>6 DEF WriteFails, ReadyGens
    <2> QED  BY <1>0, <2>1, <2>2, SettleForm
  <1>7. CASE UNCHANGED <<files, currentSize>>  BY <1>0, <1>7
  <1> QED
    <2>1. ASSUME NEW i \in Records, Submit(i) PROVE UNCHANGED <<files, currentSize>>
      BY <2>1 DEF Submit, fileVars
    <2>2. ASSUME NEW c \in Callers, NEW k \in Configs, Configure(c, k)
          PROVE  UNCHANGED <<files, currentSize>>
      BY <2>2 DEF Configure, fileVars
    <2>3. ASSUME NEW k \in Configs, ConfigureIdle(k) PROVE UNCHANGED <<files, currentSize>>
      BY <2>3 DEF ConfigureIdle, fileVars
    <2>4. ASSUME Start \/ StopCall \/ StopReturn \/ UNCHANGED vars
          PROVE  UNCHANGED <<files, currentSize>>
      BY <2>4 DEF Start, StopCall, StopReturn, vars, fileVars
    <2>5. ASSUME Park \/ Unpark \/ TakeStop \/ TakeWake \/ Discard
          PROVE  UNCHANGED <<files, currentSize>>
      BY <2>5 DEF Park, Unpark, TakeStop, TakeWake, Discard, fileVars
    <2> QED
      BY <1>2, <1>3, <1>4, <1>5, <1>6, <1>7, <2>1, <2>2, <2>3, <2>4, <2>5 DEF Next, Drain

LEMMA NextSink ==
    ASSUME SinkInv, [Next]_vars
    PROVE  SinkInv'
  BY NextQueue, NextControl, NextFiles DEF SinkInv

LEMMA SinkAlways == Spec => []SinkInv
  BY InitSink, NextSink, PTL DEF Spec

-----------------------------------------------------------------------------
(* What the writer promises for every configuration.                       *)

LEMMA SinkType == SinkInv => TypeOK
  <1> SUFFICES ASSUME SinkInv PROVE TypeOK  OBVIOUS
  <1> USE DEF SinkInv, QueueInv, ControlInv, FilesInv
  <1>1. \A n \in DOMAIN queue : queue[n] \in {Wake, Stop} \cup {Rec(i) : i \in Records}
    BY ElementOfSeq, LenProperties DEF Items
  <1>2. ASSUME NEW p \in Paths, NEW g \in 0..MaxBackups, NEW n \in DOMAIN files[p][g]
        PROVE  files[p][g][n].id \in Records
    <2>1. files[p][g] \in Seq(Entries)  BY DEF Gens
    <2>2. files[p][g][n] \in Entries  BY <2>1, ElementOfSeq, LenProperties
    <2> QED  BY <2>2 DEF Entries
  <1> QED  BY <1>1, <1>2 DEF TypeOK

\* Every variable keeps its type, for every set of records, configurations,
\* callers, paths and failures.
THEOREM SinkTyped == Spec => []TypeOK
  BY SinkAlways, SinkType, PTL

\* The byte count is the payload in the queue for every sequence of record
\* sizes and every set of configurations.
THEOREM BytesAccounted == Spec => []QueuedBytesAccounted
  <1>1. SinkInv => QueuedBytesAccounted  BY DEF SinkInv, QueueInv
  <1> QED  BY <1>1, SinkAlways, PTL

\* A drain that waits on an empty queue has released the peers, whatever
\* watermarks were swapped in while records were queued.
THEOREM NoPauseWhenIdle == Spec => []IdleMeansUnpaused
  <1>1. SinkInv => IdleMeansUnpaused
    BY PayloadEmpty DEF SinkInv, QueueInv, QueuedBytesAccounted, IdleMeansUnpaused
  <1> QED  BY <1>1, SinkAlways, PTL

-----------------------------------------------------------------------------
(* The abstract queue.                                                     *)

\* No configuration that is swapped in moves the watermarks or the cap.
MarksFixed ==
    \A c \in Configs : c.high = InitialConfig.high /\ c.low = InitialConfig.low
                       /\ c.max = InitialConfig.max

\* A record accepted, or settled, is so under the configuration in force.
LEMMA SubmitIsSubmit ==
    ASSUME SinkInv, NEW k \in Configs, cfg = k, NEW i \in Records, Submit(i)
    PROVE  [QueueOf(k)!QueueNext]_<<queuedBytes, backpressured>>
  <1>1. CASE UNCHANGED <<queue, queuedBytes, backpressured>>  BY <1>1
  <1>2. CASE /\ queuedBytes + RecordSize[i] =< cfg.max
             /\ queuedBytes' = queuedBytes + RecordSize[i]
             /\ UpdateBackpressure(queuedBytes')
    <2>1. RecordSize[i] \in Range(RecordSize)  BY DEF Records, Range
    <2>2. QueueOf(k)!Submit(RecordSize[i])
      BY <1>2 DEF QueueOf!Submit, QueueOf!Fits, QueueOf!Hysteresis, Queue!Hysteresis,
                  UpdateBackpressure
    <2> QED  BY <2>1, <2>2 DEF QueueOf!QueueNext
  <1> QED  BY <1>1, <1>2 DEF Submit

\* Also one that is discarded or that the file refuses.
LEMMA SettleIsSettle ==
    ASSUME SinkInv, NEW k \in Configs, cfg = k, NEW f, SettleRecord(f)
    PROVE  [QueueOf(k)!QueueNext]_<<queuedBytes, backpressured>>
  <1> DEFINE n == Size(Head(queue))
  <1>1. n \in Range(RecordSize) /\ n =< queuedBytes
    <2>1. /\ Head(queue).id \in Records /\ n = RecordSize[Head(queue).id] /\ n =< queuedBytes
      BY QueueSettle DEF SinkInv
    <2> QED  BY <2>1 DEF Records, Range
  <1>2. queuedBytes' = queuedBytes - n /\ UpdateBackpressure(queuedBytes')
    BY DEF SettleRecord
  <1>3. QueueOf(k)!Settle(n)
    BY <1>1, <1>2 DEF QueueOf!Settle, QueueOf!Hysteresis, Queue!Hysteresis, UpdateBackpressure
  <1> QED  BY <1>1, <1>3 DEF QueueOf!QueueNext

\* No other step touches the count or the flag.
LEMMA StepFollowsMarks ==
    ASSUME SinkInv, NEW k \in Configs, cfg = k, [Next]_vars
    PROVE  [QueueOf(k)!QueueNext]_<<queuedBytes, backpressured>>
  <1>1. CASE \E i \in Records : Submit(i)  BY <1>1, SubmitIsSubmit
  <1>2. CASE Discard \/ Write \/ RotateFails \/ WriteFails
    BY <1>2, SettleIsSettle DEF Discard, Write, RotateFails, WriteFails
  <1>3. CASE UNCHANGED <<queuedBytes, backpressured>>  BY <1>3
  <1> QED
    <2>1. ASSUME NEW c \in Callers, NEW d \in Configs, Configure(c, d)
          PROVE  UNCHANGED <<queuedBytes, backpressured>>
      BY <2>1 DEF Configure
    <2>2. ASSUME NEW d \in Configs, ConfigureIdle(d) PROVE UNCHANGED <<queuedBytes, backpressured>>
      BY <2>2 DEF ConfigureIdle
    <2>3. ASSUME Start \/ StopCall \/ StopReturn \/ UNCHANGED vars
          PROVE  UNCHANGED <<queuedBytes, backpressured>>
      BY <2>3 DEF Start, StopCall, StopReturn, vars
    <2>4. ASSUME DrainStart \/ Park \/ Unpark \/ ApplyPending \/ TakeStop \/ TakeWake
          PROVE  UNCHANGED <<queuedBytes, backpressured>>
      BY <2>4 DEF DrainStart, Park, Unpark, ApplyPending, TakeStop, TakeWake
    <2> QED  BY <1>1, <1>2, <1>3, <2>1, <2>2, <2>3, <2>4 DEF Next, Drain

\* Whatever configurations are swapped in, under queued records or not, every step of the
\* writer is one of the queue with the marks and the cap in force.
THEOREM MarksInForceRule == Spec => FollowsMarksInForce
  <1>1. SinkInv /\ [Next]_vars =>
          [\A k \in Configs :
             cfg = k => [QueueOf(k)!QueueNext]_<<queuedBytes, backpressured>>]_vars
    BY StepFollowsMarks
  <1> QED  BY <1>1, SinkAlways, PTL DEF Spec, FollowsMarksInForce

\* With the marks of the first configuration in all of them, this is the same queue.
LEMMA StepIsQueueStep ==
    ASSUME SinkInv, MarksFixed, [Next]_vars
    PROVE  [Queue!QueueNext]_Queue!queueVars
  <1>1. PICK k \in Configs : cfg = k  BY DEF SinkInv, ControlInv
  <1>2. k.high = InitialConfig.high /\ k.low = InitialConfig.low /\ k.max = InitialConfig.max
    BY DEF MarksFixed
  <1>3. [QueueOf(k)!QueueNext]_<<queuedBytes, backpressured>>  BY <1>1, StepFollowsMarks
  <1>4. ASSUME NEW n \in Range(RecordSize)
        PROVE  /\ QueueOf(k)!Submit(n) => Queue!Submit(n)
               /\ QueueOf(k)!Settle(n) => Queue!Settle(n)
    BY <1>2 DEF QueueOf!Submit, QueueOf!Fits, QueueOf!Settle, QueueOf!Hysteresis,
                Queue!Submit, Queue!Fits, Queue!Settle, Queue!Hysteresis
  <1> QED  BY <1>3, <1>4 DEF QueueOf!QueueNext, Queue!QueueNext, Queue!queueVars

\* While the watermarks stay those of the first configuration the writer is a
\* SinkQueue, whatever the files, the failures and the callers do.
THEOREM WriterIsSinkQueue ==
    ASSUME MarksFixed
    PROVE  Spec => ImplementsSinkQueue
  <1>1. Init => Queue!QueueInit  BY DEF Init, Queue!QueueInit
  <1>2. SinkInv /\ [Next]_vars => [Queue!QueueNext]_Queue!queueVars  BY StepIsQueueStep
  <1> QED  BY <1>1, <1>2, SinkAlways, PTL DEF Spec, ImplementsSinkQueue, Queue!QueueSpec

-----------------------------------------------------------------------------
(* The size cap of a generation.                                           *)

\* No entry is empty: the separator of the format, or the record, has a byte.
EntriesWeigh == \A c \in Configs, i \in Records : RecordSize[i] + c.overhead > 0

CapFixed == \A c \in Configs : c.rotationMax = InitialConfig.rotationMax

\* The files that never outgrew the cap but by a single entry.
Capped ==
    {s \in Seq(Entries) :
        /\ \A n \in 1..Len(s) : s[n].len > 0
        /\ Len(s) > 1 => Bytes(s) =< InitialConfig.rotationMax}

CapInv ==
    /\ files \in [Paths -> [0..MaxBackups -> Capped]]
    /\ fh # NoPath => currentSize = Bytes(files[fh][0])

LEMMA EmptyIsCapped == <<>> \in Capped
  <1>1. <<>> \in Seq(Entries) /\ Len(<<>>) = 0  BY EmptySeq
  <1> QED  BY <1>1 DEF Capped

\* A set of files that holds the empty one is kept by every rotation.
LEMMA RotationKeeps ==
    ASSUME NEW G \in SUBSET Seq(Entries), << >> \in G,
           NEW gens \in [0..MaxBackups -> G], NEW b \in 0..MaxBackups
    PROVE  /\ Rotated(gens, b) \in [0..MaxBackups -> G]
           /\ \A half \in HalfRotated(gens, b) : half \in [0..MaxBackups -> G]
  <1>1. gens \in Gens  BY DEF Gens
  <1>2. \A g \in 0..MaxBackups : [gens EXCEPT ![g] = <<>>] \in [0..MaxBackups -> G]
    OBVIOUS
  <1>3. ASSUME NEW k \in 0..b PROVE Pushed(gens, b, k) \in [0..MaxBackups -> G]
    <2> SUFFICES ASSUME NEW g \in 0..MaxBackups PROVE Pushed(gens, b, k)[g] \in G
      BY DEF Pushed
    <2> QED  BY ConstantAssumption DEF Pushed
  <1>4. 0 \in 0..b /\ 0 \in 0..MaxBackups  BY ConstantAssumption
  <1>5. Rotated(gens, b) \in [0..MaxBackups -> G]
    <2>1. Rotated(gens, b) = IF b = 0 THEN [gens EXCEPT ![0] = <<>>] ELSE Pushed(gens, b, 0)
      BY <1>1, RotatedForm
    <2> QED  BY <1>2, <1>3, <1>4, <2>1
  <1>6. ASSUME NEW half \in HalfRotated(gens, b) PROVE half \in [0..MaxBackups -> G]
    <2>1. (\E k \in 0..b : half = Pushed(gens, b, k)) \/ half = [gens EXCEPT ![b] = <<>>]
      BY <1>1, <1>6, RotatedForm
    <2> QED  BY <1>2, <1>3, <2>1
  <1> QED  BY <1>5, <1>6

\* A file of no bytes is empty.
LEMMA NoBytesNoEntry ==
    ASSUME NEW s \in Capped, Bytes(s) = 0
    PROVE  s = <<>>
  <1>1. SUFFICES ASSUME s # <<>> PROVE FALSE  OBVIOUS
  <1>2. s \in Seq(Entries) /\ \A n \in 1..Len(s) : s[n].len > 0  BY DEF Capped
  <1>3. PICK r \in Seq(Entries), e \in Entries : s = Append(r, e)
    BY <1>1, <1>2, SequenceEmptyOrAppend
  <1>4. Bytes(r) \in Nat /\ Bytes(s) = Bytes(r) + e.len  BY <1>3, BytesOfFile
  <1>5. Len(s) = Len(r) + 1 /\ Len(r) \in Nat /\ s[Len(r) + 1] = e
    BY <1>3, AppendProperties, LenProperties
  <1>6. Len(r) + 1 \in 1..Len(s)  BY <1>5
  <1>7. s[Len(r) + 1].len > 0  BY <1>2, <1>6
  <1>8. e.len > 0 /\ e.len \in Nat  BY <1>5, <1>7 DEF Entries
  <1> QED  BY <1>1, <1>4, <1>8

LEMMA CapWrite ==
    ASSUME SinkInv, CapInv, EntriesWeigh, CapFixed, Write
    PROVE  CapInv'
  <1> USE DEF CapInv
  <1> DEFINE len == EncodedSize(Head(queue))
  <1>1. /\ SettleRecord(fh) /\ fh # NoPath /\ fh' = fh
        /\ files' = [files EXCEPT ![fh] = [ReadyGens EXCEPT ![0] = Append(@, WrittenEntry)]]
        /\ currentSize' = (IF MustRotate(len) THEN 0 ELSE currentSize) + len
    BY DEF Write, ReadyGens, WrittenEntry
  <1>2. /\ fh \in Paths /\ cfg.backups \in 0..MaxBackups /\ 0 \in 0..MaxBackups /\ files[fh] \in Gens
        /\ WrittenEntry \in Entries /\ WrittenEntry.len = len /\ len \in Nat
    BY <1>1, SettleForm DEF WrittenEntry
  <1>3. len > 0 /\ cfg.rotationMax = InitialConfig.rotationMax /\ InitialConfig.rotationMax \in Nat
    <2>1. cfg \in Configs  BY DEF SinkInv, ControlInv
    <2>2. Head(queue).id \in Records /\ Size(Head(queue)) = RecordSize[Head(queue).id]
      BY <1>1, QueueSettle DEF SinkInv
    <2>3. InitialConfig.rotationMax \in Nat  BY ConfigAssumption, ConfigType
    <2> QED  BY <2>1, <2>2, <2>3 DEF EncodedSize, EntriesWeigh, CapFixed
  <1>4. ReadyGens \in [0..MaxBackups -> Capped]
    <2>1. files[fh] \in [0..MaxBackups -> Capped]  BY <1>2
    <2>2. Capped \in SUBSET Seq(Entries)  BY DEF Capped
    <2> QED  BY <1>2, <2>1, <2>2, EmptyIsCapped, RotationKeeps DEF ReadyGens
  <1> DEFINE old == ReadyGens[0]
             new == Append(old, WrittenEntry)
  <1>5. old \in Capped /\ old \in Seq(Entries)  BY <1>2, <1>4 DEF Capped
  <1>6. /\ Bytes(old) = IF MustRotate(len) THEN 0 ELSE currentSize
        /\ MustRotate(len) => old = <<>>
    <2>1. CASE MustRotate(len)
      <3>1. old = <<>>  BY <1>2, <2>1, RotatedForm DEF ReadyGens
      <3> QED  BY <1>5, <2>1, <3>1, BytesOfFile
    <2>2. CASE ~MustRotate(len)
      <3>1. old = files[fh][0]  BY <2>2 DEF ReadyGens
      <3> QED  BY <1>1, <2>2, <3>1
    <2> QED  BY <2>1, <2>2
  <1>7. Bytes(new) = Bytes(old) + len  BY <1>2, <1>5, BytesOfFile
  <1>8. old = <<>> \/ Bytes(old) + len =< InitialConfig.rotationMax
    <2>1. CASE MustRotate(len)  BY <1>6, <2>1
    <2>2. CASE ~MustRotate(len)
      <3>1. currentSize = Bytes(old) /\ currentSize \in Nat
        BY <1>6, <2>2 DEF SinkInv, FilesInv
      <3>2. CASE currentSize = 0  BY <1>5, <3>1, <3>2, NoBytesNoEntry
      <3>3. CASE currentSize > 0  BY <1>2, <1>3, <2>2, <3>1, <3>3 DEF MustRotate
      <3> QED  BY <3>1, <3>2, <3>3
    <2> QED  BY <2>1, <2>2
  <1>9. new \in Capped
    <2>1. /\ new \in Seq(Entries) /\ Len(new) = Len(old) + 1 /\ Len(old) \in Nat
          /\ \A n \in 1..Len(old) : new[n] = old[n]
          /\ new[Len(old) + 1] = WrittenEntry
      BY <1>2, <1>5, AppendProperties, LenProperties
    <2>2. \A n \in 1..Len(old) : old[n].len > 0  BY <1>5 DEF Capped
    <2>3. ASSUME NEW n \in 1..Len(new) PROVE new[n].len > 0
      <3>1. CASE n \in 1..Len(old)  BY <2>1, <2>2, <3>1
      <3>2. CASE n = Len(old) + 1  BY <1>2, <1>3, <2>1, <3>2
      <3> QED  BY <2>1, <3>1, <3>2
    <2>4. Len(new) > 1 => Bytes(new) =< InitialConfig.rotationMax
      <3>1. old = <<>> => Len(old) = 0  BY EmptySeq
      <3> QED  BY <1>7, <1>8, <2>1, <3>1
    <2> QED  BY <2>1, <2>3, <2>4 DEF Capped
  <1>10. files' = [files EXCEPT ![fh] = [ReadyGens EXCEPT ![0] = new]]  BY <1>1
  <1>11. files' \in [Paths -> [0..MaxBackups -> Capped]]
    <2> HIDE DEF new
    <2> QED  BY <1>2, <1>4, <1>9, <1>10
  <1>12. files'[fh][0] = new
    <2> HIDE DEF new
    <2>1. files'[fh] = [ReadyGens EXCEPT ![0] = new]  BY <1>2, <1>10
    <2> QED  BY <1>2, <1>4, <2>1
  <1>13. currentSize' = Bytes(files'[fh'][0])
    <2> HIDE DEF new, old, len
    <2> QED  BY <1>1, <1>6, <1>7, <1>12
  <1> QED  BY <1>11, <1>13

LEMMA CapNext ==
    ASSUME SinkInv, CapInv, EntriesWeigh, CapFixed, [Next]_vars
    PROVE  CapInv'
  <1> USE DEF CapInv
  <1>1. Capped \in SUBSET Seq(Entries)  BY DEF Capped
  <1>2. ASSUME NEW c, Open(c), UNCHANGED files PROVE CapInv'  BY <1>2 DEF Open
  <1>3. CASE DrainStart  BY <1>2, <1>3 DEF DrainStart
  <1>4. CASE ApplyPending  BY <1>2, <1>4 DEF ApplyPending
  <1>5. CASE Write  BY <1>5, CapWrite
  <1>6. CASE RotateFails
    <2>1. SettleRecord("discarded") /\ fh # NoPath  BY <1>6 DEF RotateFails
    <2>2. fh \in Paths /\ cfg.backups \in 0..MaxBackups  BY <2>1, SettleForm
    <2>3. files[fh] \in [0..MaxBackups -> Capped]  BY <2>2
    <2>4. \A half \in HalfRotated(files[fh], cfg.backups) : half \in [0..MaxBackups -> Capped]
      BY <1>1, <2>2, <2>3, EmptyIsCapped, RotationKeeps
    <2> QED  BY <1>6, <2>2, <2>4 DEF RotateFails
  <1>7. CASE WriteFails
    <2>1. SettleRecord("discarded") /\ fh # NoPath /\ fh' = fh  BY <1>7 DEF WriteFails
    <2>2. fh \in Paths /\ cfg.backups \in 0..MaxBackups /\ files[fh] \in Gens  BY <2>1, SettleForm
    <2>3. files[fh] \in [0..MaxBackups -> Capped]  BY <2>2
    <2>4. CASE UNCHANGED <<files, currentSize>>  BY <2>1, <2>4
    <2>5. CASE files' = [files EXCEPT ![fh] = Rotated(files[fh], cfg.backups)] /\ currentSize' = 0
      <3>1. Rotated(files[fh], cfg.backups) \in [0..MaxBackups -> Capped]
        BY <1>1, <2>2, <2>3, EmptyIsCapped, RotationKeeps
      <3>2. Rotated(files[fh], cfg.backups)[0] = <<>>  BY <2>2, RotatedForm
      <3>3. Bytes(<<>>) = 0  BY EmptyIsCapped, <1>1, BytesOfFile
      <3> QED  BY <2>1, <2>2, <2>5, <3>1, <3>2, <3>3
    <2> QED  BY <1>7, <2>4, <2>5 DEF WriteFails
  <1>8. CASE UNCHANGED <<files, currentSize>> /\ fh' \in {fh, NoPath}  BY <1>8
  <1> QED
    <2>1. ASSUME NEW i \in Records, Submit(i) PROVE UNCHANGED <<fh, files, currentSize>>
      BY <2>1 DEF Submit, fileVars
    <2>2. ASSUME NEW c \in Callers, NEW k \in Configs, Configure(c, k)
          PROVE  UNCHANGED <<fh, files, currentSize>>
      BY <2>2 DEF Configure, fileVars
    <2>3. ASSUME NEW k \in Configs, ConfigureIdle(k) PROVE UNCHANGED <<fh, files, currentSize>>
      BY <2>3 DEF ConfigureIdle, fileVars
    <2>4. ASSUME Start \/ StopCall \/ StopReturn \/ UNCHANGED vars
          PROVE  UNCHANGED <<fh, files, currentSize>>
      BY <2>4 DEF Start, StopCall, StopReturn, vars, fileVars
    <2>5. ASSUME Park \/ Unpark \/ TakeStop \/ TakeWake \/ Discard
          PROVE  UNCHANGED <<files, currentSize>> /\ fh' \in {fh, NoPath}
      BY <2>5 DEF Park, Unpark, TakeStop, TakeWake, Discard, fileVars
    <2> QED
      BY <1>3, <1>4, <1>5, <1>6, <1>7, <1>8, <2>1, <2>2, <2>3, <2>4, <2>5 DEF Next, Drain

\* No generation outgrows the cap by more than one entry, and the size the test
\* goes by is that of the open file, while the cap stays the same and no entry is
\* empty: an empty record without a separator would leave a file of size 0, to
\* which a record larger than the cap is then added.
THEOREM RotationCapKept ==
    ASSUME EntriesWeigh, CapFixed
    PROVE  Spec => []RotationCapHolds
  <1>1. Init => CapInv
    BY EmptyIsCapped DEF Init, CapInv
  <1>2. SinkInv /\ CapInv /\ [Next]_vars => CapInv'  BY CapNext
  <1>3. CapInv => RotationCapHolds
    <2> SUFFICES ASSUME CapInv, NEW p \in Paths, NEW g \in 0..MaxBackups, Len(files[p][g]) > 1
                 PROVE  Bytes(files[p][g]) =< InitialConfig.rotationMax
      BY DEF RotationCapHolds, CapInv
    <2>1. files[p][g] \in Capped  BY DEF CapInv
    <2> QED  BY <2>1 DEF Capped
  <1> QED  BY <1>1, <1>2, <1>3, SinkAlways, PTL DEF Spec

-----------------------------------------------------------------------------
(* What the renames do to the records on the disk.                         *)

Ids(gen) == {e.id : e \in Range(gen)}
IdsOf(gens) == UNION {Ids(gens[g]) : g \in 0..MaxBackups}

LEMMA KeptIdsOf == \A p : KeptIds(p) = IdsOf(files[p])
  BY DEF KeptIds, IdsOf, Ids

LEMMA IdsMembers ==
    ASSUME NEW gen \in Seq(Entries)
    PROVE  /\ \A i : i \in Ids(gen) <=> \E n \in 1..Len(gen) : gen[n].id = i
           /\ \A e \in Entries : Ids(Append(gen, e)) = Ids(gen) \cup {e.id}
           /\ Ids(gen) \subseteq Records
  <1>1. ASSUME NEW s \in Seq(Entries), NEW i
        PROVE  i \in Ids(s) <=> \E n \in 1..Len(s) : s[n].id = i
    <2>1. DOMAIN s = 1..Len(s)  BY LenProperties
    <2> QED  BY <2>1 DEF Ids, Range
  <1>2. ASSUME NEW e \in Entries PROVE Ids(Append(gen, e)) = Ids(gen) \cup {e.id}
    <2> DEFINE r == Append(gen, e)
    <2>1. /\ r \in Seq(Entries) /\ Len(r) = Len(gen) + 1 /\ Len(gen) \in Nat
          /\ \A n \in 1..Len(gen) : r[n] = gen[n]
          /\ r[Len(gen) + 1] = e
      BY AppendProperties, LenProperties
    <2> HIDE DEF r
    <2>2. ASSUME NEW i \in Ids(r) PROVE i \in Ids(gen) \cup {e.id}
      <3>1. PICK n \in 1..Len(r) : r[n].id = i  BY <1>1, <2>1
      <3>2. CASE n \in 1..Len(gen)  BY <1>1, <2>1, <3>1, <3>2
      <3>3. CASE n = Len(gen) + 1  BY <2>1, <3>1, <3>3
      <3> QED  BY <2>1, <3>2, <3>3
    <2>3. ASSUME NEW i \in Ids(gen) PROVE i \in Ids(r)
      <3>1. PICK n \in 1..Len(gen) : gen[n].id = i  BY <1>1
      <3>2. n \in 1..Len(r) /\ r[n].id = i  BY <2>1, <3>1
      <3> QED  BY <1>1, <2>1, <3>2
    <2>4. e.id \in Ids(r)
      <3>1. Len(gen) + 1 \in 1..Len(r) /\ r[Len(gen) + 1].id = e.id  BY <2>1
      <3> QED  BY <1>1, <2>1, <3>1
    <2> QED  BY <2>2, <2>3, <2>4 DEF r
  <1>3. Ids(gen) \subseteq Records
    <2> SUFFICES ASSUME NEW i \in Ids(gen) PROVE i \in Records  OBVIOUS
    <2>1. PICK n \in 1..Len(gen) : gen[n].id = i  BY <1>1
    <2>2. gen[n] \in Entries  BY ElementOfSeq
    <2> QED  BY <2>1, <2>2 DEF Entries
  <1> QED  BY <1>1, <1>2, <1>3

\* The generations new are generations of old, moved up without changing
\* places; only generation b may be gone, replaced by one that had content.
Carried(new, old, b, from) ==
    /\ from \in [0..MaxBackups -> 0..MaxBackups]
    /\ \A g \in 0..MaxBackups : new[g] # <<>> => new[g] = old[from[g]]
    /\ \A g, h \in 0..MaxBackups :
          g > h /\ new[g] # <<>> /\ new[h] # <<>> => from[g] > from[h]
    /\ \A g \in 0..MaxBackups :
          g # b /\ old[g] # <<>> => \E h \in 0..MaxBackups : new[h] = old[g]
    /\ \A g \in 0..MaxBackups : g > b => new[g] = old[g]
    /\ \/ new[b] = old[b]
       \/ /\ b > 0 => old[b - 1] # <<>>
          /\ \A g \in 0..MaxBackups : new[g] # <<>> => from[g] # b

LEMMA PushedCarries ==
    ASSUME NEW gens \in Gens, NEW b \in 0..MaxBackups, NEW k \in 0..b
    PROVE  \E from : Carried(Pushed(gens, b, k), gens, b, from)
  <1> DEFINE new == Pushed(gens, b, k)
             stays == k = b \/ gens[b - 1] = <<>>
             from == [g \in 0..MaxBackups |->
                        IF g > b \/ g =< k \/ (g = b /\ stays) THEN g ELSE g - 1]
  <1>1. MaxBackups \in Nat /\ b \in Nat /\ k \in Nat /\ k =< b /\ b =< MaxBackups
    BY ConstantAssumption
  <1>2. from \in [0..MaxBackups -> 0..MaxBackups]
    <2> SUFFICES ASSUME NEW g \in 0..MaxBackups
                 PROVE  (IF g > b \/ g =< k \/ (g = b /\ stays) THEN g ELSE g - 1) \in 0..MaxBackups
      OBVIOUS
    <2> HIDE DEF stays
    <2> QED  BY <1>1
  <1>3. ASSUME NEW g \in 0..MaxBackups
        PROVE  /\ new[g] = IF g > b \/ g < k \/ (g = b /\ stays) THEN gens[g]
                           ELSE IF g = b THEN gens[b - 1]
                           ELSE IF g = k THEN <<>> ELSE gens[g - 1]
               /\ from[g] = IF g > b \/ g =< k \/ (g = b /\ stays) THEN g ELSE g - 1
    BY <1>1 DEF Pushed
  <1> HIDE DEF new, from
  <1>4. ASSUME NEW g \in 0..MaxBackups, new[g] # <<>> PROVE new[g] = gens[from[g]]
    <2>1. k = b => stays  OBVIOUS
    <2> HIDE DEF stays
    <2> QED  BY <1>1, <1>3, <1>4, <2>1
  <1>5. ASSUME NEW g \in 0..MaxBackups, NEW h \in 0..MaxBackups,
               g > h, new[g] # <<>>, new[h] # <<>>
        PROVE  from[g] > from[h]
    <2>1. k = b => stays  OBVIOUS
    <2> HIDE DEF stays
    <2> QED  BY <1>1, <1>3, <1>5, <2>1
  <1>6. ASSUME NEW g \in 0..MaxBackups, g # b, gens[g] # <<>>
        PROVE  \E h \in 0..MaxBackups : new[h] = gens[g]
    <2>1. CASE g > b \/ g < k  BY <1>3, <2>1
    <2>2. CASE k =< g /\ g < b
      <3>1. g + 1 \in 0..MaxBackups /\ g + 1 =< b /\ g + 1 > k /\ g + 1 - 1 = g  BY <1>1, <2>2
      <3>2. g + 1 = b => b - 1 = g /\ ~stays  BY <1>1, <1>6, <2>2
      <3> HIDE DEF stays
      <3>3. new[g + 1] = gens[g]  BY <1>1, <1>3, <3>1, <3>2
      <3> QED  BY <3>1, <3>3
    <2> QED  BY <1>1, <1>6, <2>1, <2>2
  <1>7. \A g \in 0..MaxBackups : g > b => new[g] = gens[g]  BY <1>3
  <1>8. \/ new[b] = gens[b]
        \/ /\ b > 0 => gens[b - 1] # <<>>
           /\ \A g \in 0..MaxBackups : new[g] # <<>> => from[g] # b
    <2>1. CASE stays  BY <1>3, <2>1
    <2>2. CASE ~stays
      <3>1. gens[b - 1] # <<>> /\ k # b  BY <2>2
      <3> HIDE DEF stays
      <3>2. \A g \in 0..MaxBackups : from[g] # b  BY <1>1, <1>3, <2>2, <3>1
      <3> QED  BY <3>1, <3>2
    <2> QED  BY <2>1, <2>2
  <1>9. Carried(new, gens, b, from)
    BY <1>2, <1>4, <1>5, <1>6, <1>7, <1>8 DEF Carried
  <1> QED  BY <1>9 DEF new

LEMMA EmptiedCarries ==
    ASSUME NEW gens \in Gens, NEW b \in 0..MaxBackups, b > 0 => gens[b - 1] # <<>>
    PROVE  \E from : Carried([gens EXCEPT ![b] = <<>>], gens, b, from)
  <1> DEFINE new == [gens EXCEPT ![b] = <<>>]
             from == [g \in 0..MaxBackups |-> g]
  <1>1. \A g \in 0..MaxBackups : new[g] = IF g = b THEN <<>> ELSE gens[g]  BY DEF Gens
  <1>2. from \in [0..MaxBackups -> 0..MaxBackups] /\ \A g \in 0..MaxBackups : from[g] = g
    OBVIOUS
  <1> HIDE DEF new, from
  <1>3. Carried(new, gens, b, from)  BY <1>1, <1>2 DEF Carried
  <1> QED  BY <1>3 DEF new

\* A rotation, whole or half.
LEMMA RotationCarries ==
    ASSUME NEW gens \in Gens, NEW b \in 0..MaxBackups,
           NEW new \in {Rotated(gens, b)} \cup HalfRotated(gens, b)
    PROVE  new \in Gens /\ \E from : Carried(new, gens, b, from)
  <1>1. new \in Gens  BY RotatedForm
  <1>2. \/ \E k \in 0..b : new = Pushed(gens, b, k)
        \/ new = [gens EXCEPT ![b] = <<>>] /\ (b > 0 => gens[b - 1] # <<>>)
    <2>1. CASE new = Rotated(gens, b)
      <3>1. new = IF b = 0 THEN [gens EXCEPT ![0] = <<>>] ELSE Pushed(gens, b, 0)
        BY <2>1, RotatedForm
      <3>2. 0 \in 0..b /\ b \in Nat  BY ConstantAssumption
      <3>3. CASE b = 0  BY <3>1, <3>3
      <3>4. CASE b # 0
        <4>1. new = Pushed(gens, b, 0)  BY <3>1, <3>4
        <4> QED  BY <3>2, <4>1
      <3> QED  BY <3>3, <3>4
    <2>2. CASE new \in HalfRotated(gens, b)  BY <2>2, RotatedForm
    <2> QED  BY <2>1, <2>2
  <1> QED  BY <1>1, <1>2, PushedCarries, EmptiedCarries

\* The record that is written is not lost, and takes the place of no other.
LEMMA AppendAdds ==
    ASSUME NEW gens \in Gens, NEW e \in Entries
    PROVE  IdsOf([gens EXCEPT ![0] = Append(@, e)]) = IdsOf(gens) \cup {e.id}
  <1> DEFINE new == [gens EXCEPT ![0] = Append(@, e)]
  <1>1. 0 \in 0..MaxBackups /\ gens[0] \in Seq(Entries)  BY ConstantAssumption DEF Gens
  <1>2. \A g \in 0..MaxBackups : new[g] = IF g = 0 THEN Append(gens[0], e) ELSE gens[g]
    BY DEF Gens
  <1> HIDE DEF new
  <1>3. Ids(Append(gens[0], e)) = Ids(gens[0]) \cup {e.id}  BY <1>1, IdsMembers
  <1>4. \A g \in 0..MaxBackups :
           Ids(new[g]) = IF g = 0 THEN Ids(gens[0]) \cup {e.id} ELSE Ids(gens[g])
    BY <1>2, <1>3
  <1>5. IdsOf(new) = IdsOf(gens) \cup {e.id}  BY <1>1, <1>4 DEF IdsOf
  <1> QED  BY <1>5 DEF new

\* What a rotation loses was in the oldest backup, pushed out by the one before.
OldestLost(new, gens, b) ==
    \/ IdsOf(gens) \subseteq IdsOf(new)
    \/ /\ b > 0 => gens[b - 1] # <<>>
       /\ IdsOf(gens) \ IdsOf(new) \subseteq Ids(gens[b])

LEMMA CarriedLoses ==
    ASSUME NEW gens \in Gens, NEW b \in 0..MaxBackups, NEW new, NEW from,
           Carried(new, gens, b, from)
    PROVE  OldestLost(new, gens, b)
  <1>1. ASSUME NEW g \in 0..MaxBackups, NEW i \in Ids(gens[g]), g # b
        PROVE  i \in IdsOf(new)
    <2>1. gens[g] # <<>>
      <3>1. gens[g] \in Seq(Entries)  BY DEF Gens
      <3>2. PICK n \in 1..Len(gens[g]) : gens[g][n].id = i  BY <3>1, IdsMembers
      <3>3. SUFFICES ASSUME gens[g] = <<>> PROVE FALSE  OBVIOUS
      <3>4. Len(gens[g]) = 0  BY <3>3
      <3> QED  BY <3>2, <3>4
    <2>2. PICK h \in 0..MaxBackups : new[h] = gens[g]  BY <1>1, <2>1 DEF Carried
    <2> QED  BY <2>2 DEF IdsOf
  <1>2. IdsOf(gens) \ IdsOf(new) \subseteq Ids(gens[b])  BY <1>1 DEF IdsOf
  <1>3. new[b] = gens[b] => IdsOf(gens) \subseteq IdsOf(new)  BY <1>1 DEF IdsOf
  <1>4. new[b] = gens[b] \/ (b > 0 => gens[b - 1] # <<>>)  BY DEF Carried
  <1> QED  BY <1>2, <1>3, <1>4 DEF OldestLost

\* What a step does to the disk: nothing, or something to the open file's path.
LEMMA DiskStep ==
    ASSUME SinkInv, [Next]_vars
    PROVE  \/ UNCHANGED files /\ ~Write
           \/ /\ Write /\ fh # NoPath /\ SettleRecord(fh)
              /\ files' = [files EXCEPT ![fh] = [ReadyGens EXCEPT ![0] = Append(@, WrittenEntry)]]
           \/ /\ ~Write /\ fh # NoPath /\ SettleRecord("discarded")
              /\ \E new \in {Rotated(files[fh], cfg.backups)} \cup HalfRotated(files[fh], cfg.backups) :
                    files' = [files EXCEPT ![fh] = new]
  <1>1. CASE Write  BY <1>1 DEF Write, ReadyGens, WrittenEntry
  <1>2. CASE RotateFails /\ ~Write  BY <1>2 DEF RotateFails
  <1>3. CASE WriteFails /\ ~Write  BY <1>3 DEF WriteFails
  <1>4. CASE UNCHANGED files  BY <1>1, <1>4
  <1> QED
    <2>1. ASSUME NEW i \in Records, Submit(i) PROVE UNCHANGED files
      BY <2>1 DEF Submit, fileVars
    <2>2. ASSUME NEW c \in Callers, NEW k \in Configs, Configure(c, k) PROVE UNCHANGED files
      BY <2>2 DEF Configure, fileVars
    <2>3. ASSUME NEW k \in Configs, ConfigureIdle(k) PROVE UNCHANGED files
      BY <2>3 DEF ConfigureIdle, fileVars
    <2>4. ASSUME Start \/ StopCall \/ StopReturn \/ UNCHANGED vars PROVE UNCHANGED files
      BY <2>4 DEF Start, StopCall, StopReturn, vars, fileVars
    <2>5. ASSUME Park \/ Unpark \/ TakeStop \/ TakeWake \/ Discard \/ ApplyPending \/ DrainStart
          PROVE  UNCHANGED files
      BY <2>5 DEF Park, Unpark, TakeStop, TakeWake, Discard, ApplyPending, DrainStart, fileVars
    <2> QED
      BY <1>1, <1>2, <1>3, <1>4, <2>1, <2>2, <2>3, <2>4, <2>5 DEF Next, Drain

LEMMA LossStep ==
    ASSUME SinkInv, [Next]_vars, NEW p \in Paths
    PROVE  OldestLost(files'[p], files[p], cfg.backups)
  <1>1. files \in [Paths -> Gens]  BY DEF SinkInv, FilesInv
  <1>2. CASE files'[p] = files[p]  BY <1>2 DEF OldestLost
  <1>3. ASSUME Write, fh # NoPath, SettleRecord(fh), p = fh,
               files' = [files EXCEPT ![fh] = [ReadyGens EXCEPT ![0] = Append(@, WrittenEntry)]]
        PROVE  OldestLost(files'[p], files[p], cfg.backups)
    <2>1. /\ cfg.backups \in 0..MaxBackups /\ files[p] \in Gens /\ WrittenEntry \in Entries
          /\ ReadyGens \in Gens
      BY <1>3, SettleForm
    <2>2. files'[p] = [ReadyGens EXCEPT ![0] = Append(@, WrittenEntry)]  BY <1>1, <1>3
    <2>3. IdsOf(files'[p]) = IdsOf(ReadyGens) \cup {WrittenEntry.id}  BY <2>1, <2>2, AppendAdds
    <2>4. OldestLost(ReadyGens, files[p], cfg.backups)
      <3>1. CASE ReadyGens = Rotated(files[p], cfg.backups)
        <4>1. PICK from : Carried(ReadyGens, files[p], cfg.backups, from)
          BY <2>1, <3>1, RotationCarries
        <4> QED  BY <2>1, <4>1, CarriedLoses
      <3>2. CASE ReadyGens = files[p]  BY <3>2 DEF OldestLost
      <3> QED  BY <1>3, <3>1, <3>2 DEF ReadyGens
    <2> QED  BY <2>3, <2>4 DEF OldestLost
  <1>4. ASSUME fh # NoPath, SettleRecord("discarded"), p = fh,
               NEW new \in {Rotated(files[fh], cfg.backups)} \cup HalfRotated(files[fh], cfg.backups),
               files' = [files EXCEPT ![fh] = new]
        PROVE  OldestLost(files'[p], files[p], cfg.backups)
    <2>1. cfg.backups \in 0..MaxBackups /\ files[p] \in Gens  BY <1>4, SettleForm
    <2>2. files'[p] = new  BY <1>1, <1>4
    <2>3. PICK from : Carried(new, files[p], cfg.backups, from)
      BY <1>4, <2>1, RotationCarries
    <2> QED  BY <2>1, <2>2, <2>3, CarriedLoses
  <1>5. CASE p # fh
    <2>1. files' = files \/ \E new : files' = [files EXCEPT ![fh] = new]  BY DiskStep
    <2> QED  BY <1>1, <1>2, <1>5, <2>1
  <1>6. CASE p = fh  BY <1>2, <1>3, <1>4, <1>6, DiskStep
  <1> QED  BY <1>5, <1>6

\* A record is only ever pushed off the disk from the oldest backup, by the one
\* before it, whatever the number of backups and wherever a rotation fails.
THEOREM OldestLostFirst == Spec => OnlyOldestLost
  <1> DEFINE Loss == \A p \in Paths : LET b == cfg.backups IN
                KeptIds(p) \subseteq KeptIds(p)'
                \/ /\ b > 0 => files[p][b - 1] # <<>>
                   /\ KeptIds(p) \ KeptIds(p)' \subseteq {e.id : e \in Range(files[p][b])}
  <1>1. SinkInv /\ [Next]_vars => [Loss]_files
    <2> SUFFICES ASSUME SinkInv, [Next]_vars, NEW p \in Paths
                 PROVE  \/ KeptIds(p) \subseteq KeptIds(p)'
                        \/ /\ cfg.backups > 0 => files[p][cfg.backups - 1] # <<>>
                           /\ KeptIds(p) \ KeptIds(p)'
                                 \subseteq {e.id : e \in Range(files[p][cfg.backups])}
      OBVIOUS
    <2>1. KeptIds(p) = IdsOf(files[p]) /\ KeptIds(p)' = IdsOf(files'[p])
      BY DEF KeptIds, IdsOf, Ids
    <2>2. OldestLost(files'[p], files[p], cfg.backups)  BY LossStep
    <2> QED  BY <2>1, <2>2 DEF OldestLost, Ids
  <1> QED  BY <1>1, SinkAlways, PTL DEF Spec, OnlyOldestLost

-----------------------------------------------------------------------------
(* The records kept are the newest ones.                                   *)

\* Two configurations of one path keep as many backups.  With fewer, the oldest
\* files are left lying beyond the last backup while newer ones are replaced.
BackupsFixed == \A c, d \in Configs : c.path = d.path => c.backups = d.backups

IsRecord(n) == queue[n].kind = "record"

\* The queue holds records in the order of submission, all newer than any that
\* was written; those to come are newer still.
RecordsInv ==
    /\ \A n \in 1..Len(queue) : IsRecord(n) =>
          /\ fate[queue[n].id] = "queued"
          /\ \A i \in Records : fate[i] \in Paths => i < queue[n].id
    /\ \A m, n \in 1..Len(queue) : m < n /\ IsRecord(m) /\ IsRecord(n) => queue[m].id < queue[n].id
    /\ \A i, j \in Records : i < j /\ fate[j] # "unsent" => fate[i] # "unsent"

\* An open file is the one of the configuration.
HandleInv == fh # NoPath => fh = cfg.path /\ task \in {"parked", "running"}

\* Nothing lies beyond the last backup.
LeftInv ==
    \A c \in Configs : c.path \in Paths =>
        \A g \in 0..MaxBackups : g > c.backups => files[c.path][g] = <<>>

\* The generations are in the order of submission, oldest first.
Ordered(gens) ==
    \A g, h \in 0..MaxBackups :
        \A m \in DOMAIN gens[g], n \in DOMAIN gens[h] :
            g > h \/ (g = h /\ m < n) => gens[g][m].id < gens[h][n].id

\* They hold the newest of the records whose fate was the path.
Coherent(gens, f, p) ==
    /\ Ordered(gens)
    /\ \A i \in IdsOf(gens) : f[i] = p
    /\ \A i \in Records : f[i] = p /\ i \notin IdsOf(gens) => \A j \in IdsOf(gens) : i < j

NewestInv ==
    /\ RecordsInv /\ HandleInv /\ LeftInv
    /\ \A p \in Paths : Coherent(files[p], fate, p)

\* Order and membership follow the generations that are carried.
LEMMA CoherentCarried ==
    ASSUME NEW gens \in Gens, NEW new \in Gens, NEW b \in 0..MaxBackups, NEW from,
           NEW f, NEW p, Carried(new, gens, b, from),
           \A g \in 0..MaxBackups : g > b => gens[g] = <<>>,
           Coherent(gens, f, p)
    PROVE  Coherent(new, f, p)
  <1>1. \A g \in 0..MaxBackups : gens[g] \in Seq(Entries) /\ new[g] \in Seq(Entries)
    BY DEF Gens
  <1>2. ASSUME NEW g \in 0..MaxBackups, NEW i \in Ids(new[g])
        PROVE  /\ new[g] # <<>> /\ new[g] = gens[from[g]] /\ from[g] \in 0..MaxBackups
               /\ i \in Ids(gens[from[g]])
    <2>1. new[g] # <<>>
      <3>1. PICK n \in 1..Len(new[g]) : new[g][n].id = i  BY <1>1, <1>2, IdsMembers
      <3>2. SUFFICES ASSUME new[g] = <<>> PROVE FALSE  OBVIOUS
      <3>3. Len(new[g]) = 0  BY <3>2
      <3> QED  BY <3>1, <3>3
    <2>2. new[g] = gens[from[g]] /\ from[g] \in 0..MaxBackups  BY <2>1 DEF Carried
    <2> QED  BY <1>2, <2>1, <2>2
  <1>3. IdsOf(new) \subseteq IdsOf(gens)
    <2> SUFFICES ASSUME NEW i \in IdsOf(new) PROVE i \in IdsOf(gens)  OBVIOUS
    <2>1. PICK g \in 0..MaxBackups : i \in Ids(new[g])  BY DEF IdsOf
    <2>2. i \in Ids(gens[from[g]]) /\ from[g] \in 0..MaxBackups  BY <1>2, <2>1
    <2> QED  BY <2>2 DEF IdsOf
  <1>4. Ordered(new)
    <2> SUFFICES ASSUME NEW g \in 0..MaxBackups, NEW h \in 0..MaxBackups,
                        NEW m \in DOMAIN new[g], NEW n \in DOMAIN new[h],
                        g > h \/ (g = h /\ m < n)
                 PROVE  new[g][m].id < new[h][n].id
      BY DEF Ordered
    <2>1. DOMAIN new[g] = 1..Len(new[g]) /\ DOMAIN new[h] = 1..Len(new[h])
      BY <1>1, LenProperties
    <2>2. new[g] # <<>> /\ new[h] # <<>>
      <3>1. new[g] = <<>> => Len(new[g]) = 0  OBVIOUS
      <3>2. new[h] = <<>> => Len(new[h]) = 0  OBVIOUS
      <3> QED  BY <2>1, <3>1, <3>2
    <2>3. /\ new[g] = gens[from[g]] /\ from[g] \in 0..MaxBackups
          /\ new[h] = gens[from[h]] /\ from[h] \in 0..MaxBackups
          /\ g > h => from[g] > from[h]
      BY <2>2 DEF Carried
    <2>4. from[g] > from[h] \/ (from[g] = from[h] /\ m < n)  BY <2>3
    <2>5. Ordered(gens)  BY DEF Coherent
    <2> QED  BY <2>3, <2>4, <2>5 DEF Ordered
  <1>5. ASSUME NEW i \in Records, f[i] = p, i \notin IdsOf(new), NEW j \in IdsOf(new)
        PROVE  i < j
    <2>1. CASE i \notin IdsOf(gens)  BY <1>3, <1>5, <2>1 DEF Coherent
    <2>2. CASE i \in IdsOf(gens)
      <3>1. PICK g \in 0..MaxBackups : i \in Ids(gens[g])  BY <2>2 DEF IdsOf
      <3>2. gens[g] # <<>>
        <4>1. PICK n \in 1..Len(gens[g]) : gens[g][n].id = i  BY <1>1, <3>1, IdsMembers
        <4>2. SUFFICES ASSUME gens[g] = <<>> PROVE FALSE  OBVIOUS
        <4>3. Len(gens[g]) = 0  BY <4>2
        <4> QED  BY <4>1, <4>3
      <3>3. g = b
        <4>1. SUFFICES ASSUME g # b PROVE FALSE  OBVIOUS
        <4>2. PICK h \in 0..MaxBackups : new[h] = gens[g]  BY <3>2, <4>1 DEF Carried
        <4> QED  BY <1>5, <3>1, <4>2 DEF IdsOf
      <3>4. new[b] # gens[b]  BY <1>5, <3>1, <3>3 DEF IdsOf
      <3>5. PICK h \in 0..MaxBackups : j \in Ids(new[h])  BY <1>5 DEF IdsOf
      <3> DEFINE k == from[h]
      <3>6. k \in 0..MaxBackups /\ j \in Ids(gens[k]) /\ k # b
        BY <1>2, <3>4, <3>5 DEF Carried
      <3> HIDE DEF k
      <3>7. PICK n \in 1..Len(gens[k]) : gens[k][n].id = j  BY <1>1, <3>6, IdsMembers
      <3>8. k < b
        <4>1. SUFFICES ASSUME k > b PROVE FALSE  BY <3>6, ConstantAssumption
        <4>2. gens[k] = <<>>  BY <3>6, <4>1
        <4>3. Len(gens[k]) = 0  BY <4>2
        <4> QED  BY <3>7, <4>3
      <3>9. PICK m \in 1..Len(gens[b]) : gens[b][m].id = i  BY <1>1, <3>1, <3>3, IdsMembers
      <3>10. m \in DOMAIN gens[b] /\ n \in DOMAIN gens[k]  BY <1>1, <3>6, LenProperties
      <3>11. Ordered(gens)  BY DEF Coherent
      <3>12. gens[b][m].id < gens[k][n].id
        BY <3>6, <3>8, <3>10, <3>11 DEF Ordered
      <3> QED  BY <3>7, <3>9, <3>12
    <2> QED  BY <2>1, <2>2
  <1>6. \A i \in IdsOf(new) : f[i] = p  BY <1>3 DEF Coherent
  <1> QED  BY <1>4, <1>5, <1>6 DEF Coherent

\* The newest record of all goes to the end of the live file.
LEMMA CoherentAppend ==
    ASSUME NEW gens \in Gens, NEW e \in Entries, NEW f \in [Records -> Unwritten \cup Paths],
           NEW p \in Paths, Coherent(gens, f, p), f[e.id] # p,
           \A i \in Records : f[i] = p => i < e.id
    PROVE  Coherent([gens EXCEPT ![0] = Append(@, e)], [f EXCEPT ![e.id] = p], p)
  <1> DEFINE new == [gens EXCEPT ![0] = Append(@, e)]
             live == Append(gens[0], e)
             then == [f EXCEPT ![e.id] = p]
  <1>1. /\ MaxBackups \in Nat /\ 0 \in 0..MaxBackups /\ e.id \in Records
        /\ \A g \in 0..MaxBackups : gens[g] \in Seq(Entries)
    <2>1. \A g \in 0..MaxBackups : gens[g] \in Seq(Entries)  BY DEF Gens
    <2>2. e.id \in Records  BY DEF Entries
    <2> QED  BY <2>1, <2>2, ConstantAssumption
  <1>2. \A g \in 0..MaxBackups : new[g] = IF g = 0 THEN live ELSE gens[g]  BY DEF Gens
  <1>3. /\ live \in Seq(Entries) /\ Len(live) = Len(gens[0]) + 1 /\ Len(gens[0]) \in Nat
        /\ \A n \in 1..Len(gens[0]) : live[n] = gens[0][n]
        /\ live[Len(gens[0]) + 1] = e
    BY <1>1, AppendProperties, LenProperties
  <1>4. IdsOf(new) = IdsOf(gens) \cup {e.id}  BY AppendAdds
  <1>5. \A i \in Records : then[i] = IF i = e.id THEN p ELSE f[i]  OBVIOUS
  <1>6. /\ Ordered(gens) /\ \A i \in IdsOf(gens) : f[i] = p
        /\ \A i \in Records : f[i] = p /\ i \notin IdsOf(gens) => \A j \in IdsOf(gens) : i < j
    BY DEF Coherent
  <1>7. IdsOf(gens) \subseteq Records  BY <1>1, IdsMembers DEF IdsOf
  <1> HIDE DEF new, live, then
  <1>8. ASSUME NEW g \in 0..MaxBackups, NEW n \in DOMAIN gens[g]
        PROVE  gens[g][n].id < e.id
    <2>1. n \in 1..Len(gens[g])  BY <1>1, <1>8, LenProperties
    <2>2. gens[g][n].id \in IdsOf(gens)  BY <1>1, <2>1, IdsMembers DEF IdsOf
    <2> QED  BY <1>6, <1>7, <2>2
  <1>9. Ordered(new)
    <2> SUFFICES ASSUME NEW g \in 0..MaxBackups, NEW h \in 0..MaxBackups,
                        NEW m \in DOMAIN new[g], NEW n \in DOMAIN new[h],
                        g > h \/ (g = h /\ m < n)
                 PROVE  new[g][m].id < new[h][n].id
      BY DEF Ordered
    <2>1. DOMAIN live = 1..Len(live) /\ DOMAIN gens[0] = 1..Len(gens[0])
      BY <1>1, <1>3, LenProperties
    <2>2. m \in DOMAIN gens[g] /\ new[g][m] = gens[g][m]
      <3>1. CASE g # 0  BY <1>2, <3>1
      <3>2. CASE g = 0
        <4>1. h = 0 /\ m < n  BY <3>2
        <4>2. m \in 1..Len(live) /\ n \in 1..Len(live)  BY <1>2, <2>1, <3>2, <4>1
        <4>3. m \in 1..Len(gens[0])  BY <1>3, <4>1, <4>2
        <4> QED  BY <1>2, <1>3, <2>1, <3>2, <4>3
      <3> QED  BY <3>1, <3>2
    <2>3. CASE h # 0 \/ n \in DOMAIN gens[0]
      <3>1. n \in DOMAIN gens[h] /\ new[h][n] = gens[h][n]
        BY <1>2, <1>3, <2>1, <2>3
      <3> QED  BY <1>6, <2>2, <3>1 DEF Ordered
    <2>4. CASE h = 0 /\ n \notin DOMAIN gens[0]
      <3>1. n \in 1..Len(live) /\ n \notin 1..Len(gens[0])  BY <1>2, <2>1, <2>4
      <3>2. n = Len(gens[0]) + 1  BY <1>3, <3>1
      <3>3. new[h][n] = e  BY <1>2, <1>3, <2>4, <3>2
      <3> QED  BY <1>8, <2>2, <3>3
    <2> QED  BY <2>3, <2>4
  <1>10. \A i \in IdsOf(new) : then[i] = p  BY <1>1, <1>4, <1>5, <1>6, <1>7
  <1>11. ASSUME NEW i \in Records, then[i] = p, i \notin IdsOf(new), NEW j \in IdsOf(new)
         PROVE  i < j
    <2>1. i # e.id /\ f[i] = p /\ i \notin IdsOf(gens)  BY <1>4, <1>5, <1>11
    <2>2. CASE j = e.id  BY <2>1, <2>2
    <2>3. CASE j # e.id  BY <1>4, <1>6, <1>11, <2>1, <2>3
    <2> QED  BY <2>2, <2>3
  <1>12. Coherent(new, then, p)  BY <1>9, <1>10, <1>11 DEF Coherent
  <1> QED  BY <1>12 DEF new, then

\* A fate that is not a path, or another path, does not concern this one.
LEMMA CoherentFate ==
    ASSUME NEW gens \in Gens, NEW f, NEW f2, NEW p, Coherent(gens, f, p),
           \A i \in Records : f2[i] = p <=> f[i] = p
    PROVE  Coherent(gens, f2, p)
  <1>1. IdsOf(gens) \subseteq Records
    <2>1. \A g \in 0..MaxBackups : gens[g] \in Seq(Entries)  BY DEF Gens
    <2> QED  BY <2>1, IdsMembers DEF IdsOf
  <1> QED  BY <1>1 DEF Coherent

\* The fates that change are those of records that had none yet or that waited,
\* and only a write makes one a path.
LEMMA FateStep ==
    ASSUME SinkInv, RecordsInv, [Next]_vars
    PROVE  \/ /\ Write /\ Head(queue).id \in Records /\ fate[Head(queue).id] = "queued"
              /\ fate' = [fate EXCEPT ![Head(queue).id] = fh]
           \/ ~Write /\ \A i \in Records : \/ fate'[i] = fate[i]
                                           \/ fate[i] \in Unwritten /\ fate'[i] \in Unwritten
  <1> USE DEF Unwritten
  <1>1. fate \in [Records -> Unwritten \cup Paths] /\ queue \in Seq(Items)
    BY DEF SinkInv, ControlInv, QueueInv
  <1>2. ASSUME queue # <<>>, Head(queue).kind = "record"
        PROVE  Head(queue).id \in Records /\ fate[Head(queue).id] = "queued"
    <2>1. Head(queue) \in Items /\ Head(queue) = queue[1] /\ 1 \in 1..Len(queue)
      BY <1>1, <1>2, HeadTailProperties, EmptySeq
    <2>2. Head(queue).id \in Records  BY <1>2, <2>1 DEF Items, Rec, Wake, Stop
    <2>3. fate[queue[1].id] = "queued"  BY <1>2, <2>1 DEF RecordsInv, IsRecord
    <2> QED  BY <2>1, <2>2, <2>3
  <1>3. CASE Write  BY <1>2, <1>3 DEF Write, SettleRecord, NextIs
  <1>4. ASSUME SettleRecord("discarded")
        PROVE  \A i \in Records : fate'[i] = fate[i] \/ (fate[i] \in Unwritten /\ fate'[i] \in Unwritten)
    <2>1. /\ Head(queue).id \in Records /\ fate[Head(queue).id] = "queued"
          /\ fate' = [fate EXCEPT ![Head(queue).id] = "discarded"]
      BY <1>2, <1>4 DEF SettleRecord, NextIs
    <2> QED  BY <1>1, <2>1
  <1>5. CASE (Discard \/ RotateFails \/ WriteFails) /\ ~Write
    BY <1>4, <1>5 DEF Discard, RotateFails, WriteFails
  <1>6. CASE ApplyPending /\ ~Write
    <2>1. CASE fate' = fate  BY <1>6, <2>1
    <2>2. CASE /\ queue # <<>> /\ Head(queue).kind = "record"
               /\ fate' = [fate EXCEPT ![Head(queue).id] = "discarded"]
      BY <1>1, <1>2, <1>6, <2>2
    <2> QED  BY <1>6, <2>1, <2>2 DEF ApplyPending
  <1>7. ASSUME NEW j \in Records, Submit(j), ~Write
        PROVE  \A i \in Records : fate'[i] = fate[i] \/ (fate[i] \in Unwritten /\ fate'[i] \in Unwritten)
    <2>1. /\ fate[j] = "unsent"
          /\ \E f \in Unwritten : fate' = [fate EXCEPT ![j] = f]
      BY <1>7 DEF Submit
    <2> QED  BY <1>1, <2>1
  <1>8. CASE fate' = fate /\ ~Write  BY <1>8
  <1> QED
    <2>1. ASSUME NEW c \in Callers, NEW k \in Configs, Configure(c, k) PROVE fate' = fate
      BY <2>1 DEF Configure
    <2>2. ASSUME NEW k \in Configs, ConfigureIdle(k) PROVE fate' = fate
      BY <2>2 DEF ConfigureIdle
    <2>3. ASSUME Start \/ StopCall \/ StopReturn \/ UNCHANGED vars PROVE fate' = fate
      BY <2>3 DEF Start, StopCall, StopReturn, vars
    <2>4. ASSUME Park \/ Unpark \/ TakeStop \/ TakeWake \/ DrainStart PROVE fate' = fate
      BY <2>4 DEF Park, Unpark, TakeStop, TakeWake, DrainStart
    <2> QED
      BY <1>3, <1>5, <1>6, <1>7, <1>8, <2>1, <2>2, <2>3, <2>4 DEF Next, Drain

LEMMA CoherentNext ==
    ASSUME SinkInv, NewestInv, BackupsFixed, [Next]_vars, NEW p \in Paths
    PROVE  Coherent(files'[p], fate', p)
  <1>1. files \in [Paths -> Gens] /\ fate \in [Records -> Unwritten \cup Paths]
    BY DEF SinkInv, FilesInv, ControlInv
  <1>2. RecordsInv /\ HandleInv /\ LeftInv /\ Coherent(files[p], fate, p)  BY DEF NewestInv
  <1>3. p \notin Unwritten  BY ConstantAssumption
  <1>4. ASSUME fh # NoPath, NEW f, SettleRecord(f)
        PROVE  /\ fh \in Paths /\ cfg.backups \in 0..MaxBackups /\ fh = cfg.path
               /\ \A g \in 0..MaxBackups : g > cfg.backups => files[fh][g] = <<>>
    <2>1. fh \in Paths /\ cfg.backups \in 0..MaxBackups /\ fh = cfg.path
      BY <1>2, <1>4, SettleForm DEF HandleInv
    <2>2. cfg \in Configs  BY DEF SinkInv, ControlInv
    <2> QED  BY <1>2, <2>1, <2>2 DEF LeftInv
  <1>5. CASE ~Write
    <2>1. \A i \in Records : fate'[i] = p <=> fate[i] = p  BY <1>2, <1>3, <1>5, FateStep
    <2>2. CASE files'[p] = files[p]  BY <1>1, <1>2, <2>1, <2>2, CoherentFate
    <2>3. ASSUME fh # NoPath, SettleRecord("discarded"), p = fh,
                 NEW new \in {Rotated(files[fh], cfg.backups)} \cup HalfRotated(files[fh], cfg.backups),
                 files' = [files EXCEPT ![fh] = new]
          PROVE  Coherent(files'[p], fate', p)
      <3>1. files'[p] = new /\ files[p] \in Gens  BY <1>1, <2>3
      <3>2. PICK from : Carried(new, files[p], cfg.backups, from)
        BY <1>4, <2>3, <3>1, RotationCarries
      <3>3. new \in Gens  BY <1>4, <2>3, <3>1, RotationCarries
      <3>4. Coherent(new, fate, p)  BY <1>2, <1>4, <2>3, <3>1, <3>2, <3>3, CoherentCarried
      <3> QED  BY <2>1, <3>1, <3>3, <3>4, CoherentFate
    <2>4. CASE p # fh
      <3>1. files' = files \/ \E new : files' = [files EXCEPT ![fh] = new]  BY DiskStep
      <3> QED  BY <1>1, <2>2, <2>4, <3>1
    <2>5. CASE p = fh  BY <1>5, <2>2, <2>3, <2>5, DiskStep
    <2> QED  BY <2>4, <2>5
  <1>6. CASE Write
    <2> DEFINE i == Head(queue).id
    <2>1. i \in Records /\ fate[i] = "queued" /\ fate' = [fate EXCEPT ![i] = fh]
      BY <1>2, <1>6, FateStep
    <2>2. /\ fh # NoPath /\ SettleRecord(fh)
          /\ files' = [files EXCEPT ![fh] = [ReadyGens EXCEPT ![0] = Append(@, WrittenEntry)]]
      BY <1>6 DEF Write, ReadyGens, WrittenEntry
    <2>3. CASE p # fh
      <3>1. files'[p] = files[p]  BY <1>1, <2>2, <2>3
      <3>2. \A j \in Records : fate'[j] = p <=> fate[j] = p
        BY <1>1, <1>3, <2>1, <2>3 DEF Unwritten
      <3> QED  BY <1>1, <1>2, <3>1, <3>2, CoherentFate
    <2>4. CASE p = fh
      <3>1. /\ ReadyGens \in Gens /\ WrittenEntry \in Entries /\ WrittenEntry.id = i
            /\ files[p] \in Gens
        BY <2>2, <2>4, SettleForm DEF WrittenEntry
      <3>2. Coherent(ReadyGens, fate, p)
        <4>1. CASE ReadyGens = Rotated(files[p], cfg.backups)
          <5>1. PICK from : Carried(ReadyGens, files[p], cfg.backups, from)
            BY <1>4, <2>2, <3>1, <4>1, RotationCarries
          <5> QED  BY <1>2, <1>4, <2>2, <2>4, <3>1, <5>1, CoherentCarried
        <4>2. CASE ReadyGens = files[p]  BY <1>2, <4>2
        <4> QED  BY <2>4, <4>1, <4>2 DEF ReadyGens
      <3>3. fate[i] # p  BY <1>3, <2>1 DEF Unwritten
      <3>4. \A j \in Records : fate[j] = p => j < i
        <4>1. queue # <<>> /\ Head(queue).kind = "record"  BY <2>2 DEF SettleRecord, NextIs
        <4>2. queue \in Seq(Items)  BY DEF SinkInv, QueueInv
        <4>3. Head(queue) = queue[1] /\ 1 \in 1..Len(queue)
          BY <4>1, <4>2, HeadTailProperties, EmptySeq
        <4> QED  BY <1>2, <4>1, <4>3 DEF RecordsInv, IsRecord
      <3>5. Coherent([ReadyGens EXCEPT ![0] = Append(@, WrittenEntry)],
                     [fate EXCEPT ![WrittenEntry.id] = p], p)
        <4> HIDE DEF i
        <4> QED  BY <1>1, <3>1, <3>2, <3>3, <3>4, CoherentAppend
      <3>6. files'[p] = [ReadyGens EXCEPT ![0] = Append(@, WrittenEntry)]
        BY <1>1, <2>2, <2>4
      <3> QED  BY <2>1, <2>4, <3>1, <3>5, <3>6
    <2> QED  BY <2>3, <2>4
  <1> QED  BY <1>5, <1>6

LEMMA LeftNext ==
    ASSUME SinkInv, NewestInv, BackupsFixed, [Next]_vars
    PROVE  LeftInv'
  <1>1. files \in [Paths -> Gens] /\ cfg \in Configs /\ LeftInv /\ HandleInv
    BY DEF SinkInv, FilesInv, ControlInv, NewestInv
  <1> SUFFICES ASSUME NEW c \in Configs, c.path \in Paths,
                      NEW g \in 0..MaxBackups, g > c.backups
               PROVE  files'[c.path][g] = <<>>
    BY DEF LeftInv
  <1>2. files[c.path][g] = <<>>  BY <1>1 DEF LeftInv
  <1>3. ASSUME fh # NoPath, NEW f, SettleRecord(f), c.path = fh
        PROVE  /\ c.backups = cfg.backups /\ cfg.backups \in 0..MaxBackups
               /\ files[fh] \in Gens /\ g # 0
               /\ \A new \in {Rotated(files[fh], cfg.backups)} \cup HalfRotated(files[fh], cfg.backups) :
                     new[g] = <<>>
    <2>1. /\ c.backups = cfg.backups /\ cfg.backups \in 0..MaxBackups /\ files[fh] \in Gens
      BY <1>1, <1>3, SettleForm DEF HandleInv, BackupsFixed
    <2>2. ASSUME NEW new \in {Rotated(files[fh], cfg.backups)} \cup HalfRotated(files[fh], cfg.backups)
          PROVE  new[g] = <<>>
      <3>1. PICK from : Carried(new, files[fh], cfg.backups, from)  BY <2>1, RotationCarries
      <3> QED  BY <1>2, <1>3, <2>1, <3>1 DEF Carried
    <2>3. g # 0
      <3>1. g \in Nat /\ cfg.backups \in Nat  BY <2>1, ConstantAssumption
      <3> QED  BY <2>1, <3>1
    <2> QED  BY <2>1, <2>2, <2>3
  <1>4. CASE c.path # fh
    <2>1. files' = files \/ \E new : files' = [files EXCEPT ![fh] = new]  BY DiskStep
    <2> QED  BY <1>1, <1>2, <1>4, <2>1
  <1>5. ASSUME c.path = fh, fh # NoPath, SettleRecord(fh),
               files' = [files EXCEPT ![fh] = [ReadyGens EXCEPT ![0] = Append(@, WrittenEntry)]]
        PROVE  files'[c.path][g] = <<>>
    <2>1. ReadyGens \in Gens  BY <1>5, SettleForm
    <2>2. files'[fh] = [ReadyGens EXCEPT ![0] = Append(@, WrittenEntry)]  BY <1>1, <1>5
    <2>3. files'[fh][g] = ReadyGens[g]  BY <1>3, <1>5, <2>1, <2>2 DEF Gens
    <2>4. ReadyGens[g] = <<>>  BY <1>2, <1>3, <1>5 DEF ReadyGens
    <2> QED  BY <1>5, <2>3, <2>4
  <1>6. ASSUME c.path = fh, fh # NoPath, SettleRecord("discarded"),
               NEW new \in {Rotated(files[fh], cfg.backups)} \cup HalfRotated(files[fh], cfg.backups),
               files' = [files EXCEPT ![fh] = new]
        PROVE  files'[c.path][g] = <<>>
    BY <1>1, <1>3, <1>6
  <1>7. CASE c.path = fh  BY <1>2, <1>5, <1>6, <1>7, DiskStep
  <1> QED  BY <1>4, <1>7

LEMMA HandleNext ==
    ASSUME SinkInv, HandleInv, [Next]_vars
    PROVE  HandleInv'
  <1> USE DEF HandleInv
  <1>1. CASE \E i \in Records : Submit(i)  BY <1>1 DEF Submit, fileVars
  <1>2. CASE \E c \in Callers, k \in Configs : Configure(c, k)  BY <1>2 DEF Configure, fileVars
  <1>3. CASE \E k \in Configs : ConfigureIdle(k)  BY <1>3 DEF ConfigureIdle, fileVars
  <1>4. CASE Start \/ StopCall \/ StopReturn \/ UNCHANGED vars
    BY <1>4 DEF Start, StopCall, StopReturn, vars, fileVars
  <1>5. CASE Park \/ Unpark \/ TakeStop \/ TakeWake
    BY <1>5 DEF Park, Unpark, TakeStop, TakeWake, NextIs, fileVars
  <1>6. CASE Discard \/ Write \/ RotateFails \/ WriteFails
    BY <1>6 DEF Discard, Write, RotateFails, WriteFails, SettleRecord, NextIs, fileVars
  <1>7. CASE DrainStart  BY <1>7 DEF DrainStart, Open
  <1>8. CASE ApplyPending  BY <1>8 DEF ApplyPending, Open
  <1> QED  BY <1>1, <1>2, <1>3, <1>4, <1>5, <1>6, <1>7, <1>8 DEF Next, Drain

\* The head leaves, with or without an outcome.
LEMMA RecordsTail ==
    ASSUME SinkInv, RecordsInv, queue # <<>>, queue' = Tail(queue),
           \/ fate' = fate
           \/ /\ Head(queue).kind = "record"
              /\ \E f \in (Unwritten \ {"unsent"}) \cup Paths :
                    fate' = [fate EXCEPT ![Head(queue).id] = f]
    PROVE  RecordsInv'
  <1>1. queue \in Seq(Items) /\ fate \in [Records -> Unwritten \cup Paths]
    BY DEF SinkInv, QueueInv, ControlInv
  <1>2. /\ queue' \in Seq(Items) /\ Len(queue') = Len(queue) - 1 /\ Len(queue) \in Nat \ {0}
        /\ \A n \in 1..Len(queue') : queue'[n] = queue[n + 1]
        /\ Head(queue) = queue[1]
    BY <1>1, HeadTailProperties, EmptySeq
  <1>3. "unsent" \in Unwritten /\ "unsent" \notin Paths
    BY ConstantAssumption DEF Unwritten
  <1>4. ASSUME NEW n \in 1..Len(queue), queue[n].kind = "record"
        PROVE  queue[n].id \in Records
    <2>1. queue[n] \in Items  BY <1>1, <1>4, ElementOfSeq
    <2> QED  BY <1>4, <2>1 DEF Items, Rec, Wake, Stop
  <1>5. \A i \in Records : \/ fate'[i] = fate[i]
                           \/ queue[1].kind = "record" /\ i = queue[1].id /\ fate'[i] # "unsent"
    BY <1>1, <1>2, <1>3
  <1>6. ASSUME NEW n \in 1..Len(queue'), queue'[n].kind = "record"
        PROVE  /\ fate'[queue'[n].id] = "queued"
               /\ \A i \in Records : fate'[i] \in Paths => i < queue'[n].id
    <2>1. n + 1 \in 1..Len(queue) /\ 1 \in 1..Len(queue) /\ 1 < n + 1 /\ queue'[n] = queue[n + 1]
      BY <1>2
    <2> DEFINE k == n + 1
    <2>2. k \in 1..Len(queue) /\ 1 < k /\ queue[k].kind = "record" /\ queue'[n] = queue[k]
      BY <1>6, <2>1
    <2> HIDE DEF k
    <2>3. queue[k].id \in Records  BY <1>4, <2>2
    <2>4. fate[queue[k].id] = "queued" /\ \A i \in Records : fate[i] \in Paths => i < queue[k].id
      BY <2>2 DEF RecordsInv, IsRecord
    <2>5. queue[1].kind = "record" => queue[1].id < queue[k].id /\ queue[1].id \in Records
      BY <1>4, <2>1, <2>2 DEF RecordsInv, IsRecord
    <2>6. queue[1].kind = "record" => queue[1].id # queue[k].id
      <3>1. \A i \in Records : ~ (i < i)  BY ConstantAssumption, LenProperties DEF Records
      <3> QED  BY <2>3, <2>5, <3>1
    <2>7. fate'[queue[k].id] = "queued"  BY <1>5, <2>3, <2>4, <2>6
    <2>8. \A i \in Records : fate'[i] \in Paths => i < queue[k].id  BY <1>5, <2>4, <2>5
    <2> QED  BY <2>2, <2>7, <2>8
  <1>7. ASSUME NEW m \in 1..Len(queue'), NEW n \in 1..Len(queue'), m < n,
               queue'[m].kind = "record", queue'[n].kind = "record"
        PROVE  queue'[m].id < queue'[n].id
    <2> DEFINE j == m + 1
               k == n + 1
    <2>1. /\ j \in 1..Len(queue) /\ k \in 1..Len(queue) /\ j < k
          /\ queue'[m] = queue[j] /\ queue'[n] = queue[k]
      BY <1>2, <1>7
    <2> HIDE DEF j, k
    <2> QED  BY <1>7, <2>1 DEF RecordsInv, IsRecord
  <1>8. \A i, j \in Records : i < j /\ fate'[j] # "unsent" => fate'[i] # "unsent"
    <2> SUFFICES ASSUME NEW i \in Records, NEW j \in Records, i < j, fate'[j] # "unsent"
                 PROVE  fate'[i] # "unsent"
      OBVIOUS
    <2>1. fate[j] # "unsent"
      <3>1. fate'[j] = fate[j] \/ (queue[1].kind = "record" /\ j = queue[1].id)  BY <1>5
      <3>2. queue[1].kind = "record" => fate[queue[1].id] = "queued"
        BY <1>2 DEF RecordsInv, IsRecord
      <3> QED  BY <3>1, <3>2
    <2>2. fate[i] # "unsent"  BY <2>1 DEF RecordsInv
    <2> QED  BY <1>5, <2>2
  <1> QED  BY <1>6, <1>7, <1>8 DEF RecordsInv, IsRecord

\* A sentinel is put behind the records.
LEMMA RecordsSentinel ==
    ASSUME SinkInv, RecordsInv, NEW item \in {Wake, Stop}, queue' = Append(queue, item),
           fate' = fate
    PROVE  RecordsInv'
  <1>1. queue \in Seq(Items) /\ item \in Items  BY DEF SinkInv, QueueInv, Items
  <1>2. /\ Len(queue') = Len(queue) + 1 /\ Len(queue) \in Nat
        /\ \A n \in 1..Len(queue) : queue'[n] = queue[n]
        /\ queue'[Len(queue) + 1] = item
    BY <1>1, AppendProperties, LenProperties
  <1>3. item.kind # "record"  BY DEF Wake, Stop
  <1>4. \A n \in 1..Len(queue') : queue'[n].kind = "record" =>
           n \in 1..Len(queue) /\ queue'[n] = queue[n]
    BY <1>2, <1>3
  <1> QED  BY <1>4 DEF RecordsInv, IsRecord

LEMMA RecordsSubmit ==
    ASSUME SinkInv, RecordsInv, NEW i \in Records, Submit(i)
    PROVE  RecordsInv'
  <1>1. queue \in Seq(Items) /\ fate \in [Records -> Unwritten \cup Paths]
    BY DEF SinkInv, QueueInv, ControlInv
  <1>2. /\ fate[i] = "unsent" /\ \A j \in 1..(i - 1) : fate[j] # "unsent"
        /\ \E f \in Unwritten \ {"unsent"} : fate' = [fate EXCEPT ![i] = f]
    BY DEF Submit, Unwritten
  <1>3. /\ \A j \in Records : j # i => fate'[j] = fate[j]
        /\ fate'[i] # "unsent" /\ fate'[i] \notin Paths
    BY <1>1, <1>2, ConstantAssumption
  <1>4. Records \subseteq Nat \ {0} /\ \A j \in Records : j < i => j \in 1..(i - 1)
    BY ConstantAssumption, LenProperties DEF Records
  <1>5. \A j, k \in Records : j < k /\ fate'[k] # "unsent" => fate'[j] # "unsent"
    <2> SUFFICES ASSUME NEW j \in Records, NEW k \in Records, j < k, fate'[k] # "unsent"
                 PROVE  fate'[j] # "unsent"
      OBVIOUS
    <2>1. CASE k = i
      <3>1. j \in 1..(i - 1) /\ j # i  BY <1>4, <2>1
      <3> QED  BY <1>2, <1>3, <3>1
    <2>2. CASE k # i  BY <1>3, <2>2 DEF RecordsInv
    <2> QED  BY <2>1, <2>2
  <1>6. ASSUME NEW n \in 1..Len(queue), queue[n].kind = "record"
        PROVE  /\ queue[n].id \in Records /\ fate'[queue[n].id] = "queued"
               /\ queue[n].id < i
               /\ \A j \in Records : fate'[j] \in Paths => j < queue[n].id
    <2>1. queue[n].id \in Records
      <3>1. queue[n] \in Items  BY <1>1, <1>6, ElementOfSeq
      <3> QED  BY <1>6, <3>1 DEF Items, Rec, Wake, Stop
    <2>2. fate[queue[n].id] = "queued" /\ \A j \in Records : fate[j] \in Paths => j < queue[n].id
      BY <1>6 DEF RecordsInv, IsRecord
    <2>3. queue[n].id # i /\ ~(i < queue[n].id)  BY <1>2, <2>1, <2>2 DEF RecordsInv
    <2>4. queue[n].id < i  BY <1>4, <2>1, <2>3
    <2> QED  BY <1>3, <2>1, <2>2, <2>3, <2>4
  <1>7. \A j \in Records : fate'[j] \in Paths => j < i
    <2> SUFFICES ASSUME NEW j \in Records, fate'[j] \in Paths PROVE j < i  OBVIOUS
    <2>1. j # i /\ fate[j] # "unsent"  BY <1>3, ConstantAssumption DEF Unwritten
    <2>2. ~(i < j)  BY <1>2, <2>1 DEF RecordsInv
    <2> QED  BY <1>4, <2>1, <2>2
  <1>8. CASE queue' = queue
    <2>1. \A m, n \in 1..Len(queue) : m < n /\ IsRecord(m) /\ IsRecord(n) => queue[m].id < queue[n].id
      BY DEF RecordsInv
    <2> QED  BY <1>5, <1>6, <1>8, <2>1 DEF RecordsInv, IsRecord
  <1>9. CASE queue' = Append(queue, Rec(i)) /\ fate' = [fate EXCEPT ![i] = "queued"]
    <2>1. Rec(i) \in Items /\ Rec(i).id = i  BY DEF Items, Rec
    <2>2. /\ Len(queue') = Len(queue) + 1 /\ Len(queue) \in Nat
          /\ \A n \in 1..Len(queue) : queue'[n] = queue[n]
          /\ queue'[Len(queue) + 1] = Rec(i)
      BY <1>1, <1>9, <2>1, AppendProperties, LenProperties
    <2>3. \A n \in 1..Len(queue') : \/ n \in 1..Len(queue) /\ queue'[n] = queue[n]
                                    \/ n = Len(queue) + 1 /\ queue'[n] = Rec(i)
      BY <2>2
    <2>4. fate'[i] = "queued"  BY <1>1, <1>9
    <2>5. ASSUME NEW n \in 1..Len(queue'), queue'[n].kind = "record"
          PROVE  /\ fate'[queue'[n].id] = "queued"
                 /\ \A j \in Records : fate'[j] \in Paths => j < queue'[n].id
      BY <1>6, <1>7, <2>1, <2>3, <2>4, <2>5
    <2>6. ASSUME NEW m \in 1..Len(queue'), NEW n \in 1..Len(queue'), m < n,
                 queue'[m].kind = "record", queue'[n].kind = "record"
          PROVE  queue'[m].id < queue'[n].id
      <3>1. m \in 1..Len(queue) /\ queue'[m] = queue[m]  BY <2>2, <2>6
      <3>2. CASE n \in 1..Len(queue)
        <4>1. queue'[n] = queue[n]  BY <2>2, <3>2
        <4> QED  BY <2>6, <3>1, <3>2, <4>1 DEF RecordsInv, IsRecord
      <3>3. CASE n = Len(queue) + 1
        <4>1. queue'[n].id = i  BY <2>1, <2>2, <3>3
        <4>2. queue[m].id < i  BY <1>6, <2>6, <3>1
        <4> QED  BY <3>1, <4>1, <4>2
      <3> QED  BY <2>3, <3>2, <3>3
    <2> QED  BY <1>5, <2>5, <2>6 DEF RecordsInv, IsRecord
  <1> QED  BY <1>8, <1>9 DEF Submit

LEMMA RecordsNext ==
    ASSUME SinkInv, RecordsInv, [Next]_vars
    PROVE  RecordsInv'
  <1>1. CASE \E i \in Records : Submit(i)  BY <1>1, RecordsSubmit
  <1>2. CASE \E c \in Callers, k \in Configs : Configure(c, k)
    BY <1>2, RecordsSentinel DEF Configure
  <1>3. CASE StopCall  BY <1>3, RecordsSentinel DEF StopCall
  <1>4. CASE TakeStop \/ TakeWake
    <2>1. queue # <<>> /\ queue' = Tail(queue) /\ fate' = fate
      BY <1>4 DEF TakeStop, TakeWake, NextIs
    <2> QED  BY <2>1, RecordsTail
  <1>5. ASSUME NEW f \in (Unwritten \ {"unsent"}) \cup Paths, SettleRecord(f)
        PROVE  RecordsInv'
    BY <1>5, RecordsTail DEF SettleRecord, NextIs
  <1>6. CASE Discard \/ RotateFails \/ WriteFails
    <2>1. SettleRecord("discarded")  BY <1>6 DEF Discard, RotateFails, WriteFails
    <2>2. "discarded" \in (Unwritten \ {"unsent"}) \cup Paths  BY DEF Unwritten
    <2> QED  BY <1>5, <2>1, <2>2
  <1>7. CASE Write
    <2>1. SettleRecord(fh) /\ fh \in Paths  BY <1>7 DEF Write, SinkInv, ControlInv
    <2> QED  BY <1>5, <2>1
  <1>8. CASE ApplyPending
    <2>1. CASE queue' = queue /\ fate' = fate  BY <2>1 DEF RecordsInv, IsRecord
    <2>2. CASE task' = "raised"
      <3>1. /\ queue # <<>> /\ queue' = Tail(queue)
            /\ fate' = IF Head(queue).kind = "record"
                       THEN [fate EXCEPT ![Head(queue).id] = "discarded"] ELSE fate
        BY <1>8, <2>2 DEF ApplyPending
      <3>2. "discarded" \in (Unwritten \ {"unsent"}) \cup Paths  BY DEF Unwritten
      <3> QED  BY <3>1, <3>2, RecordsTail
    <2> QED  BY <1>8, <2>1, <2>2 DEF ApplyPending
  <1>9. CASE UNCHANGED <<queue, fate>>  BY <1>9 DEF RecordsInv, IsRecord
  <1> QED
    <2>1. ASSUME NEW k \in Configs, ConfigureIdle(k) PROVE UNCHANGED <<queue, fate>>
      BY <2>1 DEF ConfigureIdle
    <2>2. ASSUME Start \/ StopReturn \/ UNCHANGED vars \/ Park \/ Unpark \/ DrainStart
          PROVE  UNCHANGED <<queue, fate>>
      BY <2>2 DEF Start, StopReturn, vars, Park, Unpark, DrainStart
    <2> QED
      BY <1>1, <1>2, <1>3, <1>4, <1>6, <1>7, <1>8, <1>9, <2>1, <2>2 DEF Next, Drain

LEMMA NewestInit == Init => NewestInv
  <1> SUFFICES ASSUME Init PROVE NewestInv  OBVIOUS
  <1>1. /\ queue = <<>> /\ Len(queue) = 0
        /\ \A i \in Records : fate[i] = "unsent"
        /\ \A p \in Paths, g \in 0..MaxBackups : files[p][g] = <<>>
    BY DEF Init
  <1>2. RecordsInv  BY <1>1, ConstantAssumption DEF RecordsInv, Unwritten
  <1>3. HandleInv /\ LeftInv  BY <1>1 DEF Init, HandleInv, LeftInv
  <1>4. ASSUME NEW p \in Paths PROVE Coherent(files[p], fate, p)
    <2>1. <<>> \in Seq(Entries) /\ Len(<<>>) = 0 /\ DOMAIN <<>> = {}  BY EmptySeq
    <2>2. Ids(<<>>) = {}  BY <2>1 DEF Ids, Range
    <2>3. IdsOf(files[p]) = {}  BY <1>1, <2>2 DEF IdsOf
    <2>4. Ordered(files[p])  BY <1>1, <2>1 DEF Ordered
    <2>5. p # "unsent"  BY ConstantAssumption DEF Unwritten
    <2> QED  BY <1>1, <2>3, <2>4, <2>5 DEF Coherent
  <1> QED  BY <1>2, <1>3, <1>4 DEF NewestInv

\* The generations of a path hold the newest records written to it, each once
\* and in order, while the number of backups of that path stays the same.
THEOREM NewestKept ==
    ASSUME BackupsFixed
    PROVE  Spec => []NewestRecordsKept
  <1>1. SinkInv /\ NewestInv /\ [Next]_vars => NewestInv'
    <2> SUFFICES ASSUME SinkInv, NewestInv, [Next]_vars PROVE NewestInv'  OBVIOUS
    <2>1. RecordsInv /\ HandleInv  BY DEF NewestInv
    <2>2. RecordsInv'  BY <2>1, RecordsNext
    <2>3. HandleInv'  BY <2>1, HandleNext
    <2>4. LeftInv'  BY LeftNext
    <2>5. \A p \in Paths : Coherent(files'[p], fate', p)  BY CoherentNext
    <2> QED  BY <2>2, <2>3, <2>4, <2>5 DEF NewestInv
  <1>2. NewestInv => NewestRecordsKept
    <2> SUFFICES ASSUME NewestInv, NEW p \in Paths
                 PROVE  /\ \A g, h \in 0..MaxBackups :
                              \A m \in DOMAIN files[p][g], n \in DOMAIN files[p][h] :
                                 g > h \/ (g = h /\ m < n) => files[p][g][m].id < files[p][h][n].id
                        /\ \A i \in Records :
                              /\ i \in KeptIds(p) => fate[i] = p
                              /\ fate[i] = p /\ i \notin KeptIds(p) => \A j \in KeptIds(p) : i < j
      BY DEF NewestRecordsKept
    <2>1. Coherent(files[p], fate, p)  BY DEF NewestInv
    <2>2. KeptIds(p) = IdsOf(files[p])  BY KeptIdsOf
    <2>3. Ordered(files[p])  BY <2>1 DEF Coherent
    <2> QED  BY <2>1, <2>2, <2>3 DEF Coherent, Ordered
  <1> QED  BY <1>1, <1>2, NewestInit, SinkAlways, PTL DEF Spec

=============================================================================
