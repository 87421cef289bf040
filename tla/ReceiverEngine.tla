--------------------------- MODULE ReceiverEngine ---------------------------
(***************************************************************************)
(* The backpressure loop of the receiver role with a TCP server transport: *)
(* peer handlers (src/tcp_sim/transport/tcp_server_receiver.py) deliver    *)
(* framed records through ReceiverEngine (src/tcp_sim/engine/receiver.py)  *)
(* into the queue of the SinkWriter, whose watermark events call           *)
(* set_paused() on the transport in the middle of the delivery that        *)
(* crossed the mark.                                                       *)
(*                                                                         *)
(* A handler that got a chunk feeds all its records without suspending:    *)
(* nothing else runs until it is back at its read or at the gate.  The     *)
(* gate is one `if`, before the read: a handler already in read(), or      *)
(* already let through, takes one more chunk however paused the transport  *)
(* is.                                                                     *)
(***************************************************************************)
EXTENDS SinkQueue, FiniteSets

CONSTANTS
    Peers,   \* remote peers
    Yield    \* the payload bytes one read may complete: chunk and carried-over record

ASSUME PeerAssumption == IsFiniteSet(Peers) /\ Yield \in Nat

VARIABLES
    enabled,  \* the sink's cfg.enabled
    paused,   \* the transport's _paused event is cleared
    phase,    \* absent, at the gate, in read(), feeding a chunk, flushing at EOF
    left,     \* payload bytes the running handler may still deliver
    dropped   \* records_dropped is no longer 0

vars == <<queuedBytes, backpressured, enabled, paused, phase, left, dropped>>

In(ph) == {p \in Peers : phase[p] = ph}

\* The loop is between two coroutine steps.
LoopFree == In("feeding") = {} /\ In("flushing") = {}

\* Where a handler goes from the top of its loop.
AtGate == IF paused THEN "gated" ELSE "reading"

HandleHighOnly ==  \* mutant: the low watermark resumes nobody who waits
    IF backpressured' = backpressured
    THEN UNCHANGED <<paused, phase>>
    ELSE paused' = backpressured' /\ UNCHANGED phase

HandleNothing ==  \* mutant: the sink's events do not reach the transport
    UNCHANGED <<paused, phase>>

\* ReceiverEngine._handle_sink_event: a watermark crossed in this step calls
\* set_paused, and Event.set() lets every waiting handler through the gate.
HandleSinkEvent ==
    IF backpressured' = backpressured
    THEN UNCHANGED <<paused, phase>>
    ELSE /\ paused' = backpressured'
         /\ phase' = [p \in Peers |-> IF ~paused' /\ phase[p] = "gated"
                                      THEN "reading" ELSE phase[p]]

-----------------------------------------------------------------------------
ConnectUngated(p) ==  \* mutant: the first read of a peer is not gated
    /\ LoopFree /\ phase[p] = "absent"
    /\ phase' = [phase EXCEPT ![p] = "reading"]
    /\ UNCHANGED <<queuedBytes, backpressured, enabled, paused, left, dropped>>

Connect(p) ==
    /\ LoopFree /\ phase[p] = "absent"
    /\ phase' = [phase EXCEPT ![p] = AtGate]
    /\ UNCHANGED <<queuedBytes, backpressured, enabled, paused, left, dropped>>

\* read() returned a chunk, or b"" at EOF, or failed: then the framer's rest is flushed.
Read(p) ==
    /\ LoopFree /\ phase[p] = "reading"
    /\ \E ph \in {"feeding", "flushing"} : phase' = [phase EXCEPT ![p] = ph]
    /\ left' = Yield
    /\ UNCHANGED <<queuedBytes, backpressured, enabled, paused, dropped>>

\* _deliver and ReceiverEngine._handle_record: one record of n bytes is
\* submitted to the sink, which ignores it, drops it or queues it.
Deliver(p, n) ==
    /\ phase[p] \in {"feeding", "flushing"}
    /\ n =< left /\ left' = left - n
    /\ \/ ~enabled /\ UNCHANGED <<queuedBytes, backpressured, paused, phase, dropped>>
       \/ /\ enabled /\ ~Fits(n)
          /\ dropped' = TRUE
          /\ UNCHANGED <<queuedBytes, backpressured, paused, phase>>
       \/ /\ enabled /\ Submit(n)
          /\ HandleSinkEvent
          /\ UNCHANGED dropped
    /\ UNCHANGED enabled

EndChunkUngated(p) ==  \* mutant: the gate is tested before the first read only
    /\ phase[p] \in {"feeding", "flushing"}
    /\ phase' = [phase EXCEPT ![p] = IF @ = "feeding" THEN "reading" ELSE "absent"]
    /\ left' = 0
    /\ UNCHANGED <<queuedBytes, backpressured, enabled, paused, dropped>>

\* The chunk is consumed: back to the gate, or gone after EOF.
EndChunk(p) ==
    /\ phase[p] \in {"feeding", "flushing"}
    /\ phase' = [phase EXCEPT ![p] = IF @ = "feeding" THEN AtGate ELSE "absent"]
    /\ left' = 0
    /\ UNCHANGED <<queuedBytes, backpressured, enabled, paused, dropped>>

\* The cancellation by stop(), which flushes nothing, or a connection error with
\* nothing left to flush: with a tail it is flushed, as at EOF (Read).
Abort(p) ==
    /\ LoopFree /\ phase[p] \in {"gated", "reading"}
    /\ phase' = [phase EXCEPT ![p] = "absent"]
    /\ UNCHANGED <<queuedBytes, backpressured, enabled, paused, left, dropped>>

\* The drain takes a record off the queue.
Drain ==
    /\ LoopFree
    /\ \E n \in Sizes : Settle(n)
    /\ HandleSinkEvent
    /\ UNCHANGED <<enabled, left, dropped>>

\* The drain applies a configuration that enables or disables the sink.
Configure(e) ==
    /\ LoopFree
    /\ enabled' = e
    /\ UNCHANGED <<queuedBytes, backpressured, paused, phase, left, dropped>>

Init ==
    /\ QueueInit
    /\ enabled \in BOOLEAN
    /\ paused = FALSE
    /\ phase = [p \in Peers |-> "absent"]
    /\ left = 0
    /\ dropped = FALSE

PeerStep(p) ==
    Connect(p) \/ Read(p) \/ (\E n \in Sizes : Deliver(p, n)) \/ EndChunk(p) \/ Abort(p)

Next ==
    \/ \E p \in Peers : PeerStep(p)
    \/ Drain
    \/ \E e \in BOOLEAN : Configure(e)

Spec == Init /\ [][Next]_vars

\* The loop runs the drain when it is free, and a handler to its next await.
FairSpec == Spec /\ WF_vars(Drain) /\ \A p \in Peers : WF_vars(EndChunk(p))

-----------------------------------------------------------------------------
TypeOK ==
    /\ QueueTypeOK
    /\ enabled \in BOOLEAN /\ paused \in BOOLEAN /\ dropped \in BOOLEAN
    /\ phase \in [Peers -> {"absent", "gated", "reading", "feeding", "flushing"}]
    /\ left \in 0..Yield

\* Handlers are held at the gate exactly while the sink is over its marks:
\* none waits there with nobody left to release it, through connects, EOFs,
\* reconfigurations and marks crossed in the middle of a chunk.
GateFollowsSink ==
    /\ paused = backpressured
    /\ In("gated") # {} => paused

\* README.md:142, "TCP receivers pause per-peer reads when buffered sink bytes
\* cross queue_high_watermark_bytes ... (no data loss)": submit() never drops
\* a record that came over TCP.
NoTcpDrop == ~dropped

\* One chunk of every handler already in read(), and one of every peer.
ChunksInRead == Yield * Cardinality(In("reading"))
ChunkPerPeer == Yield * Cardinality(Peers)

\* While paused, the queue, the rest of the running chunk and the chunks that
\* handlers already in read() will bring stay below the high mark and one
\* chunk per peer: a pause in the middle of deliveries bounds the overshoot.
OvershootBounded ==
    backpressured => queuedBytes + left + ChunksInRead =< High - 1 + ChunkPerPeer

\* The cap that makes the pause lossless.
CapForPeers == QueueMax >= High - 1 + ChunkPerPeer

\* A paused transport is resumed: the drain brings the queue to the low mark
\* against the chunks that still arrive, and nobody stays at the gate.
PeersResume ==
    /\ paused ~> ~paused
    /\ \A p \in Peers : phase[p] = "gated" ~> phase[p] # "gated"

=============================================================================
