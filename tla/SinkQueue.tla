----------------------------- MODULE SinkQueue -----------------------------
(***************************************************************************)
(* What the byte queue of a SinkWriter promises the rest of the receiver:  *)
(* a hard cap on the payload bytes it buffers, and a pause signal with     *)
(* hysteresis between two watermarks.  Neither the records nor the file    *)
(* appear here; SinkWriter implements this module, and ReceiverEngine is   *)
(* built on its operators.                                                 *)
(***************************************************************************)
EXTENDS Integers

CONSTANTS
    High,      \* queue_high_watermark_bytes
    Low,       \* queue_low_watermark_bytes
    QueueMax,  \* queue_max_bytes
    Sizes      \* the payload sizes a record may have

\* What SinkConfig.__post_init__ enforces of the three sizes.
ASSUME WatermarkAssumption ==
    /\ High \in Nat /\ Low \in Nat /\ QueueMax \in Nat
    /\ Low < High /\ High =< QueueMax

ASSUME SizeAssumption == Sizes \subseteq Nat

VARIABLES
    queuedBytes,   \* _queued_bytes: payload bytes submitted and not yet settled
    backpressured  \* _backpressured: the high mark was reached and the low one not since

queueVars == <<queuedBytes, backpressured>>

HysteresisStrict(bp, q, high, low) ==  \* mutant: the low mark itself does not clear
    IF bp THEN q >= low ELSE q >= high

\* The flag after _update_backpressure saw q queued bytes and the flag bp.
Hysteresis(bp, q, high, low) == IF bp THEN q > low ELSE q >= high

Fits(n) == queuedBytes + n =< QueueMax

QueueInit == queuedBytes = 0 /\ backpressured = FALSE

\* A record of n bytes is accepted; one that does not fit changes nothing here.
Submit(n) ==
    /\ Fits(n)
    /\ queuedBytes' = queuedBytes + n
    /\ backpressured' = Hysteresis(backpressured, queuedBytes + n, High, Low)

\* n queued bytes leave the queue, written or not.
Settle(n) ==
    /\ n =< queuedBytes
    /\ queuedBytes' = queuedBytes - n
    /\ backpressured' = Hysteresis(backpressured, queuedBytes - n, High, Low)

QueueNext == \E n \in Sizes : Submit(n) \/ Settle(n)

QueueSpec == QueueInit /\ [][QueueNext]_queueVars

-----------------------------------------------------------------------------
QueueTypeOK == queuedBytes \in 0..QueueMax /\ backpressured \in BOOLEAN

\* The flag always agrees with the bytes: a peer is not left paused at or
\* below the low mark, nor left reading at or above the high one
\* (SinkWriter._update_backpressure runs after every change of the count).
FlagMatchesBytes ==
    /\ backpressured => queuedBytes > Low
    /\ ~backpressured => queuedBytes < High

=============================================================================
