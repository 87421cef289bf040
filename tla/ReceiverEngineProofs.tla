------------------------ MODULE ReceiverEngineProofs ------------------------
(***************************************************************************)
(* For every set of peers, every chunk size and every choice of watermarks *)
(* the TCP backpressure loop loses nothing, provided the cap of the queue  *)
(* leaves room for one chunk per peer above the high mark (CapForPeers).   *)
(***************************************************************************)
EXTENDS ReceiverEngine, FiniteSetTheorems, TLAPS

\* The inductive invariant: the types, a clear flag leaves the queue below
\* the high mark, a set one bounds what is still to come, and a handler at
\* work is not counted among those in read() (its phase is another one).
IInv ==
    /\ TypeOK
    /\ FlagMatchesBytes
    /\ GateFollowsSink
    /\ OvershootBounded

-----------------------------------------------------------------------------
\* How many handlers are in one phase is a number, at most that of the peers.
LEMMA PhaseCount ==
    ASSUME NEW ph
    PROVE  /\ IsFiniteSet(In(ph)) /\ IsFiniteSet(Peers)
           /\ Cardinality(In(ph)) \in Nat
           /\ Cardinality(Peers) \in Nat
           /\ Cardinality(In(ph)) =< Cardinality(Peers)
  <1>1. IsFiniteSet(Peers)  BY PeerAssumption
  <1>2. In(ph) \subseteq Peers  BY DEF In
  <1> QED  BY <1>1, <1>2, FS_Subset, FS_CardinalityType

\* A peer in another phase leaves at least one place free.
LEMMA OthersCount ==
    ASSUME NEW ph, NEW p \in Peers, phase[p] # ph
    PROVE  Cardinality(In(ph)) =< Cardinality(Peers) - 1
  <1>1. IsFiniteSet(Peers)  BY PeerAssumption
  <1>2. In(ph) \subseteq Peers \ {p}  BY DEF In
  <1>3. IsFiniteSet(Peers \ {p}) /\ Cardinality(Peers \ {p}) = Cardinality(Peers) - 1
    BY <1>1, FS_RemoveElement
  <1> QED  BY <1>2, <1>3, FS_Subset

\* Multiplication by the chunk size respects the order of the counts.
LEMMA YieldMonotone ==
    ASSUME NEW m \in Nat, NEW n \in Nat, m =< n
    PROVE  Yield * m =< Yield * n /\ Yield * m \in Nat /\ Yield * n \in Nat
  <1>1. Yield \in Nat  BY PeerAssumption
  <1>2. PICK d \in Nat : n = m + d
    <2>1. n - m \in Nat /\ n = m + (n - m)  OBVIOUS
    <2> QED  BY <2>1
  <1>3. Yield * n = Yield * m + Yield * d  BY <1>1, <1>2
  <1>4. Yield * d \in Nat /\ Yield * m \in Nat  BY <1>1, <1>2
  <1> QED  BY <1>2, <1>3, <1>4

\* The flag computed from a count is a truth value, and it agrees with that
\* count whatever the flag was before.
LEMMA HysteresisAgrees ==
    ASSUME NEW bp \in BOOLEAN, NEW q \in Int
    PROVE  /\ Hysteresis(bp, q, High, Low) \in BOOLEAN
           /\ Hysteresis(bp, q, High, Low) => q > Low
           /\ ~Hysteresis(bp, q, High, Low) => q < High
  <1>1. (q > Low) \in BOOLEAN /\ (q >= High) \in BOOLEAN
    BY WatermarkAssumption
  <1>2. CASE bp = TRUE
    <2>1. Hysteresis(bp, q, High, Low) = (q > Low)  BY <1>2 DEF Hysteresis
    <2>2. q > Low \/ q < High  BY WatermarkAssumption
    <2> QED  BY <2>1, <2>2, <1>1
  <1>3. CASE bp = FALSE
    <2>1. Hysteresis(bp, q, High, Low) = (q >= High)  BY <1>3 DEF Hysteresis
    <2>2. q >= High => q > Low  BY WatermarkAssumption
    <2>3. ~(q >= High) => q < High  BY WatermarkAssumption
    <2> QED  BY <2>1, <2>2, <2>3, <1>1
  <1> QED  BY <1>2, <1>3

\* A step of the queue keeps its cap and leaves the flag and the count in
\* agreement.
LEMMA QueueStepSafe ==
    ASSUME QueueTypeOK, NEW n \in Sizes, Submit(n) \/ Settle(n)
    PROVE  QueueTypeOK' /\ FlagMatchesBytes'
  <1>1. n \in Nat /\ queuedBytes \in Nat /\ QueueMax \in Nat /\ backpressured \in BOOLEAN
    BY SizeAssumption, WatermarkAssumption DEF QueueTypeOK
  <1>2. queuedBytes' \in 0..QueueMax
    BY <1>1 DEF QueueTypeOK, Submit, Settle, Fits
  <1>3. backpressured' = Hysteresis(backpressured, queuedBytes', High, Low)
    BY DEF Submit, Settle
  <1>4. queuedBytes' \in Int  BY <1>2
  <1> QED  BY <1>1, <1>2, <1>3, <1>4, HysteresisAgrees DEF QueueTypeOK, FlagMatchesBytes

-----------------------------------------------------------------------------
(* Each kind of step keeps the bound on the overshoot.                     *)

\* The numbers of the invariant are natural numbers, before and after a step.
NumbersOK ==
    /\ queuedBytes \in Nat /\ left \in Nat /\ left =< Yield
    /\ ChunksInRead \in Nat /\ ChunkPerPeer \in Nat
    /\ High \in Nat /\ Low \in Nat /\ QueueMax \in Nat /\ Yield \in Nat

LEMMA Numbers == TypeOK => NumbersOK
  <1>1. ChunksInRead \in Nat /\ ChunkPerPeer \in Nat
    BY PhaseCount, YieldMonotone DEF ChunksInRead, ChunkPerPeer
  <1> QED
    BY <1>1, WatermarkAssumption, PeerAssumption DEF TypeOK, QueueTypeOK, NumbersOK

LEMMA NumbersNext == TypeOK' => NumbersOK'
  BY Numbers, PTL

\* A handler that is not in read() leaves room for one more chunk.
LEMMA RoomForOne ==
    ASSUME TypeOK, NEW p \in Peers, phase[p] # "reading"
    PROVE  ChunksInRead + Yield =< ChunkPerPeer
  <1> DEFINE R == Cardinality(In("reading"))
             C == Cardinality(Peers)
  <1>1. R \in Nat /\ C \in Nat  BY PhaseCount
  <1>2. R =< C - 1  BY OthersCount
  <1>3. R + 1 \in Nat /\ R + 1 =< C  BY <1>1, <1>2
  <1>4. Yield * (R + 1) =< Yield * C  BY <1>1, <1>3, YieldMonotone
  <1>5. Yield * (R + 1) = Yield * R + Yield  BY <1>1, PeerAssumption
  <1> QED  BY <1>4, <1>5 DEF ChunksInRead, ChunkPerPeer

\* Fewer handlers in read(), no more chunks to come.
LEMMA FewerInRead ==
    ASSUME In("reading")' \subseteq In("reading")
    PROVE  ChunksInRead' =< ChunksInRead
  <1>1. IsFiniteSet(In("reading"))  BY PhaseCount
  <1>2. /\ Cardinality(In("reading")') =< Cardinality(In("reading"))
        /\ Cardinality(In("reading")') \in Nat /\ Cardinality(In("reading")) \in Nat
    BY <1>1, FS_Subset, FS_CardinalityType
  <1> QED  BY <1>2, YieldMonotone DEF ChunksInRead

\* A handler that leaves read() takes its chunk out of those to come.
LEMMA OneLeavesRead ==
    ASSUME TypeOK, NEW p \in Peers, phase[p] = "reading",
           In("reading")' = In("reading") \ {p}
    PROVE  ChunksInRead' + Yield = ChunksInRead
  <1> DEFINE R == Cardinality(In("reading"))
  <1>1. R \in Nat /\ IsFiniteSet(In("reading")) /\ p \in In("reading")
    BY PhaseCount DEF In
  <1>2. Cardinality(In("reading")') = R - 1
    BY <1>1, FS_RemoveElement
  <1>3. Yield * (R - 1) + Yield = Yield * R  BY <1>1, PeerAssumption
  <1> QED  BY <1>2, <1>3 DEF ChunksInRead

\* Steps that neither set the flag nor add to what the bound counts.
LEMMA BoundKept ==
    ASSUME TypeOK, TypeOK', OvershootBounded,
           backpressured' => backpressured,
           backpressured' => queuedBytes' + left' =< queuedBytes + left,
           backpressured' => In("reading")' \subseteq In("reading")
    PROVE  OvershootBounded'
  <1>1. ChunkPerPeer' = ChunkPerPeer  BY DEF ChunkPerPeer
  <1>2. backpressured' => ChunksInRead' =< ChunksInRead  BY FewerInRead
  <1> QED
    BY <1>1, <1>2, Numbers, NumbersNext DEF OvershootBounded, NumbersOK

\* What set_paused does to the phases: nobody enters or leaves a read or a
\* chunk when the flag is set, and the gate empties when it is cleared.
LEMMA EventPhases ==
    ASSUME TypeOK, GateFollowsSink, backpressured' \in BOOLEAN, HandleSinkEvent
    PROVE  /\ phase' \in [Peers -> {"absent", "gated", "reading", "feeding", "flushing"}]
           /\ paused' = backpressured'
           /\ GateFollowsSink'
           /\ backpressured' => In("reading")' = In("reading")
  <1>1. CASE backpressured' = backpressured
    BY <1>1 DEF HandleSinkEvent, TypeOK, GateFollowsSink, In
  <1>2. CASE backpressured' # backpressured
    <2>1. /\ paused' = backpressured'
          /\ phase' = [p \in Peers |-> IF ~paused' /\ phase[p] = "gated"
                                       THEN "reading" ELSE phase[p]]
      BY <1>2 DEF HandleSinkEvent
    <2> QED  BY <2>1 DEF TypeOK, GateFollowsSink, In
  <1> QED  BY <1>1, <1>2

-----------------------------------------------------------------------------
\* The conjunction of the type invariant, the agreement of flag, bytes and
\* gate, and the bound on the overshoot holds initially ...
LEMMA InitInductive == Init => IInv
  <1> SUFFICES ASSUME Init PROVE IInv  OBVIOUS
  <1>1. /\ queuedBytes = 0 /\ backpressured = FALSE /\ enabled \in BOOLEAN
        /\ paused = FALSE /\ left = 0 /\ dropped = FALSE
        /\ phase = [p \in Peers |-> "absent"]
    BY DEF Init, QueueInit
  <1>2. TypeOK
    <2>1. queuedBytes \in 0..QueueMax  BY <1>1, WatermarkAssumption
    <2>2. left \in 0..Yield  BY <1>1, PeerAssumption
    <2>3. phase \in [Peers -> {"absent", "gated", "reading", "feeding", "flushing"}]
      BY <1>1
    <2>4. /\ backpressured \in BOOLEAN /\ enabled \in BOOLEAN
          /\ paused \in BOOLEAN /\ dropped \in BOOLEAN
      BY <1>1
    <2> QED  BY <2>1, <2>2, <2>3, <2>4 DEF TypeOK, QueueTypeOK
  <1>3. FlagMatchesBytes  BY <1>1, WatermarkAssumption DEF FlagMatchesBytes
  <1>4. GateFollowsSink  BY <1>1 DEF GateFollowsSink, In
  <1>5. OvershootBounded  BY <1>1 DEF OvershootBounded
  <1> QED  BY <1>2, <1>3, <1>4, <1>5 DEF IInv

\* ... and no step of a peer, of the drain or of configure() breaks it.
LEMMA NextInductive == IInv /\ [Next]_vars => IInv'
  <1> SUFFICES ASSUME IInv, [Next]_vars PROVE IInv'  OBVIOUS
  <1> USE DEF IInv
  <1>1. ASSUME NEW p \in Peers, Connect(p)  PROVE IInv'
    <2>1. /\ UNCHANGED <<queuedBytes, backpressured, enabled, paused, left, dropped>>
          /\ phase' = [phase EXCEPT ![p] = AtGate]
      BY <1>1 DEF Connect
    <2>2. TypeOK' /\ FlagMatchesBytes'
      BY <2>1 DEF TypeOK, QueueTypeOK, FlagMatchesBytes, AtGate
    <2>3. GateFollowsSink'  BY <2>1 DEF GateFollowsSink, AtGate, In
    <2>4. backpressured => In("reading")' \subseteq In("reading")
      BY <2>1 DEF GateFollowsSink, AtGate, In, TypeOK
    <2>5. OvershootBounded'  BY <2>1, <2>2, <2>4, BoundKept, Numbers DEF NumbersOK
    <2> QED  BY <2>2, <2>3, <2>5
  <1>2. ASSUME NEW p \in Peers, Read(p)  PROVE IInv'
    <2>1. PICK ph \in {"feeding", "flushing"} : phase' = [phase EXCEPT ![p] = ph]
      BY <1>2 DEF Read
    <2>2. /\ UNCHANGED <<queuedBytes, backpressured, enabled, paused, dropped>>
          /\ left' = Yield /\ phase[p] = "reading"
      BY <1>2 DEF Read
    <2>3. TypeOK' /\ FlagMatchesBytes'
      BY <2>1, <2>2, PeerAssumption DEF TypeOK, QueueTypeOK, FlagMatchesBytes
    <2>4. GateFollowsSink'  BY <2>1, <2>2 DEF GateFollowsSink, In, TypeOK
    <2>5. In("reading")' = In("reading") \ {p}
      BY <2>1, <2>2 DEF In, TypeOK
    <2>6. ChunksInRead' + Yield = ChunksInRead  BY <2>2, <2>5, OneLeavesRead
    <2>7. ChunkPerPeer' = ChunkPerPeer  BY DEF ChunkPerPeer
    <2>8. OvershootBounded'
      BY <2>2, <2>3, <2>6, <2>7, Numbers, NumbersNext DEF OvershootBounded, NumbersOK
    <2> QED  BY <2>3, <2>4, <2>8
  <1>3. ASSUME NEW p \in Peers, NEW n \in Sizes, Deliver(p, n)  PROVE IInv'
    <2>1. /\ phase[p] \in {"feeding", "flushing"} /\ n =< left /\ left' = left - n
          /\ n \in Nat /\ UNCHANGED enabled
      BY <1>3, SizeAssumption DEF Deliver
    <2>2. left' \in 0..Yield  BY <2>1, Numbers DEF NumbersOK
    <2>3. CASE UNCHANGED <<queuedBytes, backpressured, paused, phase>> /\ dropped' \in BOOLEAN
      <3>1. TypeOK' /\ FlagMatchesBytes' /\ GateFollowsSink'
        BY <2>1, <2>2, <2>3 DEF TypeOK, QueueTypeOK, FlagMatchesBytes, GateFollowsSink, In
      <3>2. OvershootBounded'
        BY <2>1, <2>3, <3>1, BoundKept, Numbers DEF In, NumbersOK
      <3> QED  BY <3>1, <3>2
    <2>4. CASE Submit(n) /\ HandleSinkEvent /\ UNCHANGED dropped
      <3>1. QueueTypeOK' /\ FlagMatchesBytes'  BY <2>4, QueueStepSafe DEF TypeOK
      <3>2. backpressured' \in BOOLEAN  BY <3>1 DEF QueueTypeOK
      <3>3. /\ phase' \in [Peers -> {"absent", "gated", "reading", "feeding", "flushing"}]
            /\ paused' = backpressured' /\ GateFollowsSink'
            /\ backpressured' => In("reading")' = In("reading")
        BY <2>4, <3>2, EventPhases
      <3>4. TypeOK'  BY <2>1, <2>2, <2>4, <3>1, <3>2, <3>3 DEF TypeOK
      <3>5. queuedBytes' + left' = queuedBytes + left
        BY <2>1, <2>4, Numbers DEF Submit, NumbersOK
      <3>6. OvershootBounded'
        <4>1. CASE backpressured' => backpressured
          BY <3>3, <3>4, <3>5, <4>1, BoundKept, Numbers, NumbersNext DEF NumbersOK
        <4>2. CASE ~backpressured /\ backpressured'
          <5>1. queuedBytes =< High - 1
            BY <4>2, Numbers DEF FlagMatchesBytes, NumbersOK
          <5>2. ChunksInRead + Yield =< ChunkPerPeer  BY <2>1, RoomForOne
          <5>3. ChunksInRead' = ChunksInRead /\ ChunkPerPeer' = ChunkPerPeer
            BY <3>3, <4>2 DEF ChunksInRead, ChunkPerPeer
          <5> QED
            BY <3>4, <3>5, <5>1, <5>2, <5>3, Numbers, NumbersNext
               DEF OvershootBounded, NumbersOK
        <4> QED  BY <4>1, <4>2
      <3> QED  BY <3>1, <3>3, <3>4, <3>6
    <2> QED  BY <1>3, <2>3, <2>4 DEF Deliver, TypeOK
  <1>4. ASSUME NEW p \in Peers, EndChunk(p)  PROVE IInv'
    <2>1. /\ UNCHANGED <<queuedBytes, backpressured, enabled, paused, dropped>>
          /\ left' = 0
          /\ phase' = [phase EXCEPT ![p] = IF @ = "feeding" THEN AtGate ELSE "absent"]
      BY <1>4 DEF EndChunk
    <2>2. TypeOK' /\ FlagMatchesBytes'
      BY <2>1, PeerAssumption DEF TypeOK, QueueTypeOK, FlagMatchesBytes, AtGate
    <2>3. GateFollowsSink'  BY <2>1 DEF GateFollowsSink, AtGate, In, TypeOK
    <2>4. backpressured => In("reading")' \subseteq In("reading")
      BY <2>1 DEF GateFollowsSink, AtGate, In, TypeOK
    <2>5. OvershootBounded'  BY <2>1, <2>2, <2>4, BoundKept, Numbers DEF NumbersOK
    <2> QED  BY <2>2, <2>3, <2>5
  <1>5. ASSUME NEW p \in Peers, Abort(p)  PROVE IInv'
    <2>1. /\ UNCHANGED <<queuedBytes, backpressured, enabled, paused, left, dropped>>
          /\ phase' = [phase EXCEPT ![p] = "absent"]
      BY <1>5 DEF Abort
    <2>2. TypeOK' /\ FlagMatchesBytes'
      BY <2>1 DEF TypeOK, QueueTypeOK, FlagMatchesBytes
    <2>3. GateFollowsSink'  BY <2>1 DEF GateFollowsSink, In, TypeOK
    <2>4. In("reading")' \subseteq In("reading")  BY <2>1 DEF In, TypeOK
    <2>5. OvershootBounded'  BY <2>1, <2>2, <2>4, BoundKept, Numbers DEF NumbersOK
    <2> QED  BY <2>2, <2>3, <2>5
  <1>6. ASSUME Drain  PROVE IInv'
    <2>1. PICK n \in Sizes : Settle(n)  BY <1>6 DEF Drain
    <2>2. HandleSinkEvent /\ UNCHANGED <<enabled, left, dropped>>  BY <1>6 DEF Drain
    <2>3. QueueTypeOK' /\ FlagMatchesBytes'  BY <2>1, QueueStepSafe DEF TypeOK
    <2>4. backpressured' \in BOOLEAN  BY <2>3 DEF QueueTypeOK
    <2>5. /\ phase' \in [Peers -> {"absent", "gated", "reading", "feeding", "flushing"}]
          /\ paused' = backpressured' /\ GateFollowsSink'
          /\ backpressured' => In("reading")' = In("reading")
      BY <2>2, <2>4, EventPhases
    <2>6. TypeOK'  BY <2>2, <2>3, <2>4, <2>5 DEF TypeOK
    <2>7. queuedBytes' =< queuedBytes
      BY <2>1, SizeAssumption, Numbers DEF Settle, NumbersOK
    <2>8. backpressured' => backpressured
      <3>1. ~backpressured => queuedBytes' < High
        BY <2>6, <2>7, Numbers, NumbersNext DEF FlagMatchesBytes, NumbersOK
      <3>2. ~backpressured => (backpressured' <=> queuedBytes' >= High)
        BY <2>1 DEF Settle, Hysteresis
      <3> QED  BY <2>6, <3>1, <3>2, Numbers, NumbersNext DEF NumbersOK
    <2>9. OvershootBounded'
      BY <2>2, <2>5, <2>6, <2>7, <2>8, BoundKept, Numbers, NumbersNext DEF NumbersOK
    <2> QED  BY <2>3, <2>5, <2>6, <2>9
  <1>7. ASSUME NEW e \in BOOLEAN, Configure(e)  PROVE IInv'
    <2>1. /\ UNCHANGED <<queuedBytes, backpressured, paused, phase, left, dropped>>
          /\ enabled' = e
      BY <1>7 DEF Configure
    <2>2. TypeOK' /\ FlagMatchesBytes' /\ GateFollowsSink'
      BY <2>1 DEF TypeOK, QueueTypeOK, FlagMatchesBytes, GateFollowsSink, In
    <2>3. OvershootBounded'  BY <2>1, <2>2, BoundKept, Numbers DEF In, NumbersOK
    <2> QED  BY <2>2, <2>3
  <1>8. CASE UNCHANGED vars
    BY <1>8 DEF vars, TypeOK, QueueTypeOK, FlagMatchesBytes, GateFollowsSink,
                OvershootBounded, ChunksInRead, ChunkPerPeer, In
  <1> QED
    BY <1>1, <1>2, <1>3, <1>4, <1>5, <1>6, <1>7, <1>8 DEF Next, PeerStep

-----------------------------------------------------------------------------
\* Every behaviour of the loop has the types, keeps flag, bytes and gate in
\* agreement and never overshoots the high mark by more than one chunk a peer.
THEOREM Inductive == Spec => []IInv
  BY InitInductive, NextInductive, PTL DEF Spec

\* The variables keep their types and the queue its cap.
THEOREM TypeCorrect == Spec => []TypeOK
  BY Inductive, PTL DEF IInv

\* The flag agrees with the bytes that are queued.
THEOREM FlagCorrect == Spec => []FlagMatchesBytes
  BY Inductive, PTL DEF IInv

\* The handlers are gated exactly while the sink is over its marks.
THEOREM GateCorrect == Spec => []GateFollowsSink
  BY Inductive, PTL DEF IInv

\* However many handlers were in read() when the mark was crossed, what they
\* still deliver is bounded by one chunk per peer.
THEOREM BoundedOvershoot == Spec => []OvershootBounded
  BY Inductive, PTL DEF IInv

\* A cap with room for those chunks makes the TCP path lossless: submit()
\* never rejects a record.
THEOREM NoLoss ==
    ASSUME CapForPeers
    PROVE  Spec => []NoTcpDrop
  <1>1. Init => NoTcpDrop  BY DEF Init, NoTcpDrop
  <1>2. IInv /\ NoTcpDrop /\ [Next]_vars => NoTcpDrop'
    <2> SUFFICES ASSUME IInv, NoTcpDrop, [Next]_vars PROVE NoTcpDrop'  OBVIOUS
    <2>1. ASSUME NEW p \in Peers, NEW n \in Sizes, Deliver(p, n)  PROVE NoTcpDrop'
      <3>1. phase[p] # "reading" /\ n =< left /\ n \in Nat
        BY <2>1, SizeAssumption DEF Deliver
      <3>2. Fits(n)
        <4> USE DEF IInv
        <4>1. CASE backpressured
          BY <3>1, <4>1, Numbers DEF Fits, OvershootBounded, CapForPeers, NumbersOK
        <4>2. CASE ~backpressured
          <5>1. queuedBytes =< High - 1  BY <4>2, Numbers DEF FlagMatchesBytes, NumbersOK
          <5>2. Yield =< ChunkPerPeer  BY <3>1, RoomForOne, Numbers DEF NumbersOK
          <5> QED  BY <3>1, <5>1, <5>2, Numbers DEF Fits, CapForPeers, NumbersOK
        <4> QED  BY <4>1, <4>2
      <3> QED  BY <2>1, <3>2 DEF Deliver, NoTcpDrop
    <2> QED
      BY <2>1 DEF Next, PeerStep, Connect, Read, EndChunk, Abort, Drain, Configure,
                  vars, NoTcpDrop
  <1> QED  BY <1>1, <1>2, Inductive, PTL DEF Spec

=============================================================================
