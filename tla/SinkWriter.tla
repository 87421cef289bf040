----------------------------- MODULE SinkWriter -----------------------------
(***************************************************************************)
(* The background file writer of the receiver role                         *)
(* (src/tcp_sim/engine/sink_writer.py): records submitted without waiting, *)
(* a drain task that writes them to a rotating file, a configuration       *)
(* swapped from outside through a mailbox of one, a stop sentinel.         *)
(*                                                                         *)
(* Everything runs on one asyncio loop, and the drain has no suspension    *)
(* point between two items of a non-empty queue: while task = "running"    *)
(* no other coroutine takes a step.  The files of a path are the           *)
(* generations 0 (the live file), 1 (".1"), ... of its log.                *)
(***************************************************************************)
EXTENDS Integers, SequencesExt

CONSTANTS
    RecordSize,     \* RecordSize[i]: payload bytes of the i-th record submitted
    Configs,        \* the SinkConfigs configure() may be given
    InitialConfig,  \* the one of the constructor
    Callers,        \* coroutines that may call configure()
    NoCaller,
    Paths,          \* file paths
    NoPath,         \* path None, and a closed handle
    Faults,         \* the operating-system calls that may fail
    MaxConfigures,  \* bound: configure() calls in a behaviour
    MaxBackups      \* bound: largest rotation_backup_count

Records == DOMAIN RecordSize

\* SinkConfig.__post_init__, on the fields the writer reads; overhead is what
\* _encode adds to the payload in the configured format.
ValidConfig(c) ==
    /\ c.enabled \in BOOLEAN /\ c.path \in Paths \cup {NoPath} /\ c.overhead \in Nat
    /\ c.rotationMax \in Nat \ {0} /\ c.backups \in 0..MaxBackups
    /\ {c.low, c.high, c.max} \subseteq Nat /\ c.low < c.high /\ c.high =< c.max

ASSUME ConfigAssumption ==
    /\ InitialConfig \in Configs
    /\ \A c \in Configs : ValidConfig(c)

\* What may become of a record other than its being written to a path.
Unwritten == {"unsent", "ignored", "dropped", "queued", "discarded"}

\* None is neither a caller nor a path, and a path is told from another fate.
ASSUME ConstantAssumption ==
    /\ RecordSize \in Seq(Nat) /\ MaxBackups \in Nat /\ MaxConfigures \in Nat
    /\ NoCaller \notin Callers /\ NoPath \notin Paths
    /\ Paths \cap Unwritten = {}

ASSUME FaultAssumption == Faults \subseteq {"open", "rotate", "write"}

VARIABLES
    cfg,            \* _cfg
    queue,          \* _queue: records, wake-up sentinels, the stop sentinel
    queuedBytes,    \* _queued_bytes
    backpressured,  \* _backpressured
    task,           \* the drain: none, new, parked, running, returned, raised
    fh,             \* _fh: the path it is open on, or NoPath
    currentSize,    \* stats.current_file_size
    files,          \* the disk: per path and generation, the entries written
    pending,        \* _pending_config: the caller and its configuration
    callers,        \* the configure() coroutines: idle or waiting for done
    stopping,       \* a stop() coroutine waits for the task
    fate,           \* what became of each record so far
    configures      \* configure() calls so far

driverVars == <<pending, callers, configures>>
fileVars == <<fh, currentSize, files>>
vars == <<cfg, queue, queuedBytes, backpressured, task, fh, currentSize, files,
          pending, callers, stopping, fate, configures>>

Rec(i) == [kind |-> "record", id |-> i]
Wake == [kind |-> "wake", id |-> 0]
Stop == [kind |-> "stop", id |-> 0]
NoPending == [caller |-> NoCaller, cfg |-> InitialConfig]

Size(item) == IF item.kind = "record" THEN RecordSize[item.id] ELSE 0

Queue == INSTANCE SinkQueue
           WITH High <- InitialConfig.high, Low <- InitialConfig.low,
                QueueMax <- InitialConfig.max, Sizes <- Range(RecordSize)

\* The same queue with the marks and the cap of configuration k.
QueueOf(k) == INSTANCE SinkQueue
                WITH High <- k.high, Low <- k.low, QueueMax <- k.max,
                     Sizes <- Range(RecordSize)

\* Any coroutine but the drain may run.
Yielded == task # "running"

UpdateByFirstMarks(q) ==  \* mutant: the marks of the constructor stay in force
    backpressured' = Queue!Hysteresis(backpressured, q, InitialConfig.high, InitialConfig.low)

UpdateBackpressure(q) ==
    backpressured' = Queue!Hysteresis(backpressured, q, cfg.high, cfg.low)

-----------------------------------------------------------------------------
(* Files                                                                   *)

Total(sizes) == FoldLeft(LAMBDA sum, n : sum + n, 0, sizes)

Bytes(gen) == Total([n \in DOMAIN gen |-> gen[n].len])

ShiftCopying(gens, i) ==  \* mutant: the newer generation stays where it was
    [gens EXCEPT ![i + 1] = gens[i]]

\* Generation i becomes generation i + 1, replacing it.
Shift(gens, i) ==
    IF gens[i] = <<>> THEN gens ELSE [gens EXCEPT ![i + 1] = gens[i], ![i] = <<>>]

\* The renames of _rotate for b backups, from b - 1 down to k.
ShiftedUp(gens, b, k) ==  \* mutant: the renames from the newest backup on
    FoldLeft(Shift, gens, [j \in 1..(b - k) |-> k + j - 1])
ShiftedDownTo(gens, b, k) == FoldLeft(Shift, gens, [j \in 1..(b - k) |-> b - j])

Rotated(gens, b) ==
    IF b = 0 THEN [gens EXCEPT ![0] = <<>>] ELSE ShiftedDownTo(gens, b, 0)

\* What an exception out of an unlink, a rename or the reopening leaves.
HalfRotated(gens, b) ==
    {ShiftedDownTo(gens, b, k) : k \in 0..b}
       \cup IF b > 0 /\ gens[b - 1] = <<>> THEN {} ELSE {[gens EXCEPT ![b] = <<>>]}

MustRotate(len) == currentSize > 0 /\ currentSize + len > cfg.rotationMax

OpenAsEmpty(c) ==  \* mutant: the size of an existing file is not asked for
    /\ fh' = IF c.enabled THEN c.path ELSE NoPath
    /\ currentSize' = 0
    /\ task' = "running"

\* _open_file_if_enabled with the previous file closed; an OSError ends the task.
Open(c) ==
    IF c.enabled /\ c.path # NoPath
    THEN \/ /\ fh' = c.path
            /\ currentSize' = Bytes(files[c.path][0])
            /\ task' = "running"
         \/ /\ "open" \in Faults
            /\ fh' = NoPath
            /\ task' = "raised"
            /\ UNCHANGED currentSize
    ELSE fh' = NoPath /\ task' = "running" /\ UNCHANGED currentSize

-----------------------------------------------------------------------------
(* Calls from other coroutines                                             *)

SubmitPastCap(i) ==  \* mutant: the cap is tested without the new record
    /\ Yielded /\ cfg.enabled /\ queuedBytes < cfg.max
    /\ fate[i] = "unsent" /\ \A j \in 1..(i - 1) : fate[j] # "unsent"
    /\ fate' = [fate EXCEPT ![i] = "queued"]
    /\ queue' = Append(queue, Rec(i))
    /\ queuedBytes' = queuedBytes + RecordSize[i]
    /\ UpdateBackpressure(queuedBytes')
    /\ UNCHANGED <<cfg, task, fileVars, driverVars, stopping>>

Submit(i) ==
    /\ Yielded
    /\ fate[i] = "unsent" /\ \A j \in 1..(i - 1) : fate[j] # "unsent"
    /\ \/ /\ ~cfg.enabled
          /\ fate' = [fate EXCEPT ![i] = "ignored"]
          /\ UNCHANGED <<queue, queuedBytes, backpressured>>
       \/ /\ cfg.enabled /\ queuedBytes + RecordSize[i] > cfg.max
          /\ fate' = [fate EXCEPT ![i] = "dropped"]
          /\ UNCHANGED <<queue, queuedBytes, backpressured>>
       \/ /\ cfg.enabled /\ queuedBytes + RecordSize[i] =< cfg.max
          /\ fate' = [fate EXCEPT ![i] = "queued"]
          /\ queue' = Append(queue, Rec(i))
          /\ queuedBytes' = queuedBytes + RecordSize[i]
          /\ UpdateBackpressure(queuedBytes')
    /\ UNCHANGED <<cfg, task, fileVars, driverVars, stopping>>

Start ==
    /\ task = "none"
    /\ task' = "new"
    /\ UNCHANGED <<cfg, queue, queuedBytes, backpressured, fileVars, driverVars,
                   stopping, fate>>

\* configure() without a task sets the configuration and returns.
ConfigureIdle(k) ==
    /\ task = "none" /\ configures < MaxConfigures
    /\ cfg' = k
    /\ configures' = configures + 1
    /\ UNCHANGED <<queue, queuedBytes, backpressured, task, fileVars, pending,
                   callers, stopping, fate>>

ConfigureQuietly(c, k) ==  \* mutant: the drain is not woken
    /\ Yielded /\ task # "none" /\ callers[c] = "idle" /\ configures < MaxConfigures
    /\ pending' = [caller |-> c, cfg |-> k]
    /\ callers' = [callers EXCEPT ![c] = "waiting"]
    /\ configures' = configures + 1
    /\ UNCHANGED <<cfg, queue, queuedBytes, backpressured, task, fileVars, stopping, fate>>

\* With one, it overwrites the mailbox, wakes the drain and waits for done.
Configure(c, k) ==
    /\ Yielded /\ task # "none" /\ callers[c] = "idle" /\ configures < MaxConfigures
    /\ pending' = [caller |-> c, cfg |-> k]
    /\ queue' = Append(queue, Wake)
    /\ callers' = [callers EXCEPT ![c] = "waiting"]
    /\ configures' = configures + 1
    /\ UNCHANGED <<cfg, queuedBytes, backpressured, task, fileVars, stopping, fate>>

\* The engine calls stop() once in the life of the task.
StopCall ==
    /\ Yielded /\ task # "none" /\ ~stopping /\ Stop \notin Range(queue)
    /\ stopping' = TRUE
    /\ queue' = Append(queue, Stop)
    /\ UNCHANGED <<cfg, queuedBytes, backpressured, task, fileVars, driverVars, fate>>

\* wait_for(task) hands stop() the task's result; an OSError the task ended
\* with goes on to the caller and _task keeps naming the dead task.
StopReturn ==
    /\ stopping /\ task \in {"returned", "raised"}
    /\ stopping' = FALSE
    /\ task' = IF task = "returned" THEN "none" ELSE task
    /\ UNCHANGED <<cfg, queue, queuedBytes, backpressured, fileVars, driverVars, fate>>

-----------------------------------------------------------------------------
(* The drain                                                               *)

DrainStart ==
    /\ task = "new"
    /\ Open(cfg)
    /\ UNCHANGED <<cfg, queue, queuedBytes, backpressured, files, driverVars,
                   stopping, fate>>

\* get() on an empty queue suspends the drain until the next put.
Park ==
    /\ task = "running" /\ queue = <<>>
    /\ task' = "parked"
    /\ UNCHANGED <<cfg, queue, queuedBytes, backpressured, fileVars, driverVars,
                   stopping, fate>>

Unpark ==
    /\ task = "parked" /\ queue # <<>>
    /\ task' = "running"
    /\ UNCHANGED <<cfg, queue, queuedBytes, backpressured, fileVars, driverVars,
                   stopping, fate>>

\* _apply_pending_config, with the next item in hand: if opening fails, the
\* item is gone, its bytes stay counted and nobody sets done.
ApplyPending ==
    /\ task = "running" /\ queue # <<>> /\ pending.caller # NoCaller
    /\ cfg' = pending.cfg
    /\ pending' = NoPending
    /\ IF pending.cfg.path # cfg.path \/ pending.cfg.enabled # cfg.enabled
       THEN Open(pending.cfg)
       ELSE UNCHANGED <<fh, currentSize, task>>
    /\ IF task' = "raised"
       THEN /\ queue' = Tail(queue)
            /\ fate' = IF Head(queue).kind = "record"
                       THEN [fate EXCEPT ![Head(queue).id] = "discarded"] ELSE fate
            /\ UNCHANGED callers
       ELSE /\ callers' = [callers EXCEPT ![pending.caller] = "idle"]
            /\ UNCHANGED <<queue, fate>>
    /\ UNCHANGED <<queuedBytes, backpressured, files, stopping, configures>>

\* The next item, once no configuration is pending.
NextIs(kind) ==
    /\ task = "running" /\ queue # <<>> /\ pending.caller = NoCaller
    /\ Head(queue).kind = kind
    /\ queue' = Tail(queue)

TakeStop ==
    /\ NextIs("stop")
    /\ task' = "returned" /\ fh' = NoPath
    /\ UNCHANGED <<cfg, queuedBytes, backpressured, currentSize, files, driverVars,
                   stopping, fate>>

TakeWake ==
    /\ NextIs("wake")
    /\ UNCHANGED <<cfg, queuedBytes, backpressured, task, fileVars, driverVars,
                   stopping, fate>>

SettleEncoded(f) ==  \* mutant: the bytes written are subtracted, not the payload
    /\ NextIs("record")
    /\ queuedBytes' = queuedBytes - Size(Head(queue)) - cfg.overhead
    /\ UpdateBackpressure(queuedBytes')
    /\ fate' = [fate EXCEPT ![Head(queue).id] = f]
    /\ UNCHANGED <<cfg, task, driverVars, stopping>>

\* The record at the head leaves the queue with outcome f.
SettleRecord(f) ==
    /\ NextIs("record")
    /\ queuedBytes' = queuedBytes - Size(Head(queue))
    /\ UpdateBackpressure(queuedBytes')
    /\ fate' = [fate EXCEPT ![Head(queue).id] = f]
    /\ UNCHANGED <<cfg, task, driverVars, stopping>>

DiscardUncounted ==  \* mutant: a discarded record stays in the byte count
    /\ ~cfg.enabled \/ fh = NoPath
    /\ NextIs("record")
    /\ fate' = [fate EXCEPT ![Head(queue).id] = "discarded"]
    /\ UNCHANGED <<cfg, queuedBytes, backpressured, task, fileVars, driverVars, stopping>>

DiscardStillPaused ==  \* mutant: a discarded record does not clear the pause
    /\ ~cfg.enabled \/ fh = NoPath
    /\ NextIs("record")
    /\ queuedBytes' = queuedBytes - Size(Head(queue))
    /\ fate' = [fate EXCEPT ![Head(queue).id] = "discarded"]
    /\ UNCHANGED <<cfg, backpressured, task, fileVars, driverVars, stopping>>

\* Disabled, or without an open file: the record is dropped uncounted.
Discard ==
    /\ ~cfg.enabled \/ fh = NoPath
    /\ SettleRecord("discarded")
    /\ UNCHANGED fileVars

EncodedSize(item) == Size(item) + cfg.overhead

Write ==
    /\ cfg.enabled /\ fh # NoPath
    /\ SettleRecord(fh)
    /\ LET item == Head(queue)
           len == EncodedSize(item)
           gens == IF MustRotate(len) THEN Rotated(files[fh], cfg.backups) ELSE files[fh]
       IN /\ files' = [files EXCEPT ![fh] =
                         [gens EXCEPT ![0] = Append(@, [id |-> item.id, len |-> len])]]
          /\ currentSize' = (IF MustRotate(len) THEN 0 ELSE currentSize) + len
    /\ UNCHANGED fh

\* _rotate raises: the handle stays closed.
RotateFails ==
    /\ "rotate" \in Faults
    /\ cfg.enabled /\ fh # NoPath
    /\ SettleRecord("discarded")
    /\ MustRotate(EncodedSize(Head(queue)))
    /\ \E gens \in HalfRotated(files[fh], cfg.backups) :
          files' = [files EXCEPT ![fh] = gens]
    /\ fh' = NoPath
    /\ UNCHANGED currentSize

\* write() raises after a rotation that was due: nothing is written.
WriteFails ==
    /\ "write" \in Faults
    /\ cfg.enabled /\ fh # NoPath
    /\ SettleRecord("discarded")
    /\ IF MustRotate(EncodedSize(Head(queue)))
       THEN /\ files' = [files EXCEPT ![fh] = Rotated(files[fh], cfg.backups)]
            /\ currentSize' = 0
       ELSE UNCHANGED <<files, currentSize>>
    /\ UNCHANGED fh

-----------------------------------------------------------------------------
Init ==
    /\ cfg = InitialConfig
    /\ queue = <<>> /\ queuedBytes = 0 /\ backpressured = FALSE
    /\ task = "none"
    /\ fh = NoPath /\ currentSize = 0
    /\ files = [p \in Paths |-> [g \in 0..MaxBackups |-> <<>>]]
    /\ pending = NoPending
    /\ callers = [c \in Callers |-> "idle"]
    /\ stopping = FALSE
    /\ fate = [i \in Records |-> "unsent"]
    /\ configures = 0

Drain ==
    \/ DrainStart \/ Park \/ Unpark \/ ApplyPending \/ TakeStop \/ TakeWake
    \/ Discard \/ Write \/ RotateFails \/ WriteFails

Next ==
    \/ \E i \in Records : Submit(i)
    \/ Start
    \/ \E k \in Configs : ConfigureIdle(k)
    \/ \E c \in Callers, k \in Configs : Configure(c, k)
    \/ StopCall
    \/ StopReturn
    \/ Drain

\* The loop runs every ready task: the drain, and a stop() whose task ended.
Spec == Init /\ [][Next]_vars /\ WF_vars(Drain) /\ WF_vars(StopReturn)

-----------------------------------------------------------------------------
(* Properties                                                              *)

TypeOK ==
    /\ cfg \in Configs
    /\ \A n \in DOMAIN queue : queue[n] \in {Wake, Stop} \cup {Rec(i) : i \in Records}
    /\ queuedBytes \in Nat /\ backpressured \in BOOLEAN
    /\ task \in {"none", "new", "parked", "running", "returned", "raised"}
    /\ fh \in Paths \cup {NoPath} /\ currentSize \in Nat
    /\ \A p \in Paths, g \in 0..MaxBackups :
          \A n \in DOMAIN files[p][g] : files[p][g][n].id \in Records
    /\ pending.caller \in Callers \cup {NoCaller} /\ pending.cfg \in Configs
    /\ callers \in [Callers -> {"idle", "waiting"}]
    /\ stopping \in BOOLEAN
    /\ fate \in [Records -> Unwritten \cup Paths]
    /\ configures \in 0..MaxConfigures

PayloadBytes(q) == Total([n \in DOMAIN q |-> Size(q[n])])

\* The byte count that submit() tests against the cap and the watermarks is
\* the payload waiting in the queue, whatever mixture of writes, discards,
\* failures and reconfigurations took place, until the drain dies of an open.
QueuedBytesAccounted ==
    task # "raised" => queuedBytes = PayloadBytes(queue)

\* A drain that waits on an empty queue has released the peers: no later item
\* would ever call _update_backpressure and clear the pause, also when the
\* watermarks were swapped while records were queued.
IdleMeansUnpaused == task = "parked" /\ queue = <<>> => ~backpressured

KeptIds(p) == UNION {{e.id : e \in Range(files[p][g])} : g \in 0..MaxBackups}

\* The generations of a path, read oldest first, are the newest records
\* written to it, each once and in the order of submission, also after a
\* rotation that failed half way, and a path that is left and taken up again
\* goes on where it stopped.
NewestRecordsKept ==
    \A p \in Paths :
        /\ \A g, h \in 0..MaxBackups :
              \A m \in DOMAIN files[p][g], n \in DOMAIN files[p][h] :
                  g > h \/ (g = h /\ m < n) => files[p][g][m].id < files[p][h][n].id
        /\ \A i \in Records :
              /\ i \in KeptIds(p) => fate[i] = p
              /\ fate[i] = p /\ i \notin KeptIds(p) => \A j \in KeptIds(p) : i < j

\* A record leaves the disk only from the oldest backup, and only pushed out by
\* the one before it: _rotate, whose order of renames this depends on, keeps as
\* many backups as are configured, also when it stops half way.
OnlyOldestLost ==
    [][\A p \in Paths : LET b == cfg.backups IN
          KeptIds(p) \subseteq KeptIds(p)'
          \/ /\ b > 0 => files[p][b - 1] # <<>>
             /\ KeptIds(p) \ KeptIds(p)' \subseteq {e.id : e \in Range(files[p][b])}]_files

\* The size the rotation test goes by is the size of the open file, across
\* rotations, failures, disabling and returning to a path that has content,
\* so that no generation outgrows the configured cap but by one record that
\* alone exceeds it.
RotationCapHolds ==
    /\ fh # NoPath => currentSize = Bytes(files[fh][0])
    /\ \A p \in Paths, g \in 0..MaxBackups :
          Len(files[p][g]) > 1 => Bytes(files[p][g]) =< InitialConfig.rotationMax

\* The writer is a SinkQueue for its receiver while every configuration has
\* the watermarks of the first.
ImplementsSinkQueue == Queue!QueueSpec

\* Whatever configurations are swapped in, each step is one of the queue with the
\* marks and the cap in force, and the swap itself leaves the count and the flag: records
\* queued under the old marks settle under the new ones, at or above the new cap too.
FollowsMarksInForce ==
    [][\A k \in Configs :
         cfg = k => [QueueOf(k)!QueueNext]_<<queuedBytes, backpressured>>]_vars

\* A configure() whose request is still the one in the mailbox returns, or
\* the drain ended without looking at it; it is not left to wait for traffic.
ConfigureAnswered ==
    \A c \in Callers :
        (callers[c] = "waiting" /\ pending.caller = c)
            ~> (callers[c] = "idle" \/ pending.caller # c
                \/ task \in {"none", "returned", "raised"})

\* An accepted record leaves the queue unless the drain ends first, and a
\* paused receiver with it: backpressure is always lifted by a live drain.
AcceptedSettles ==
    /\ \A i \in Records :
          (fate[i] = "queued") ~> (fate[i] # "queued" \/ task \in {"none", "returned", "raised"})
    /\ backpressured ~> (~backpressured \/ task \in {"none", "returned", "raised"})

=============================================================================
