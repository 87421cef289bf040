------------------------------- MODULE Framer -------------------------------
(***************************************************************************)
(* Record framing of a TCP byte stream (src/tcp_sim/engine/framer.py): the *)
(* stream arrives in chunks cut anywhere, the records must come out as if  *)
(* it had arrived at once.  A byte is one of a few letters, among them     *)
(* those of the separators.                                                *)
(***************************************************************************)
EXTENDS Integers, SequencesExt

CONSTANTS
    Bytes,      \* the byte values that occur
    LF, CR,     \* the two that separators are made of
    Modes,      \* the framing modes explored: "lf", "crlf", "raw"
    MaxRecord,  \* max_record_bytes
    MaxChunk,   \* bound: bytes in one read
    MaxStream   \* bound: bytes a peer sends

ASSUME FramerAssumption ==
    /\ {LF, CR} \subseteq Bytes /\ LF # CR
    /\ Modes \subseteq {"lf", "crlf", "raw"}
    /\ MaxRecord \in Nat \ {0}  \* enforced by Framer.__init__

VARIABLES
    mode,      \* _mode
    buf,       \* _buf
    overflow,  \* _overflow: the current record was emitted, its rest is skipped
    out,       \* every record emitted so far
    stream,    \* every byte received so far
    closed     \* flush() was called at EOF

framerVars == <<mode, buf, overflow, out, stream, closed>>

Separator(m) == IF m = "lf" THEN <<LF>> ELSE <<CR, LF>>

\* A separator of mode m ends at byte n of s.
Ends(m, s, n) ==
    LET sep == Separator(m)
    IN n >= Len(sep) /\ \A k \in 1..Len(sep) : s[n - Len(sep) + k] = sep[k]

\* What the loop over the separators, from the left, makes of s: the terminated
\* records and the unterminated tail (separators cannot overlap themselves).
Split(m, s) ==
    LET at[n \in 0..Len(s)] ==
            IF n = 0 THEN [lines |-> <<>>, rest |-> <<>>]
            ELSE LET before == at[n - 1].rest IN
                 IF Ends(m, s, n)
                 THEN [lines |-> Append(at[n - 1].lines,
                                        SubSeq(before, 1, Len(before) + 1 - Len(Separator(m)))),
                       rest |-> <<>>]
                 ELSE [lines |-> at[n - 1].lines, rest |-> Append(before, s[n])]
    IN at[Len(s)]

\* _clamp
Clamp(raw) ==
    IF Len(raw) > MaxRecord
    THEN [payload |-> SubSeq(raw, 1, MaxRecord), truncated |-> TRUE]
    ELSE [payload |-> raw, truncated |-> FALSE]

Clamped(lines) == [j \in DOMAIN lines |-> Clamp(lines[j])]

KeptAll(lines) == lines  \* mutant: the tail of an emitted record is emitted again

\* The first separator after an overflow ends the record already emitted.
KeptLines(lines) == IF overflow /\ lines # <<>> THEN Tail(lines) ELSE lines

NeverSkipping(skipping, blown) == FALSE  \* mutant: the flag is not set

\* The next chunk belongs to a record that was emitted already.
Skipping(skipping, blown) == skipping \/ blown

\* feed() of a non-empty chunk in LF or CRLF mode.
Feed(chunk) ==
    LET all == buf \o chunk
        lines == Split(mode, all).lines
        tail == Split(mode, all).rest
        skipping == overflow /\ lines = <<>>
        blown == ~skipping /\ Len(tail) > MaxRecord
    IN /\ mode # "raw" /\ ~closed
       /\ out' = out \o Clamped(KeptLines(lines)) \o (IF blown THEN <<Clamp(tail)>> ELSE <<>>)
       /\ buf' = IF blown THEN <<>> ELSE tail
       /\ overflow' = Skipping(skipping, blown)
       /\ stream' = stream \o chunk
       /\ UNCHANGED <<mode, closed>>

\* feed() in RAW_CHUNK mode.
FeedRaw(chunk) ==
    /\ mode = "raw" /\ ~closed
    /\ out' = Append(out, Clamp(chunk))
    /\ stream' = stream \o chunk
    /\ UNCHANGED <<mode, buf, overflow, closed>>

\* flush() at EOF.
Flush ==
    /\ ~closed /\ closed' = TRUE
    /\ out' = IF mode = "raw" \/ overflow \/ buf = <<>>
              THEN out ELSE Append(out, Clamp(buf))
    /\ buf' = <<>> /\ overflow' = FALSE
    /\ UNCHANGED <<mode, stream>>

Chunks == UNION {[1..n -> Bytes] : n \in 1..MaxChunk}

FramerInit ==
    /\ mode \in Modes
    /\ buf = <<>> /\ overflow = FALSE /\ out = <<>> /\ stream = <<>>
    /\ closed = FALSE

FramerNext ==
    \/ \E chunk \in Chunks :
          Len(stream) + Len(chunk) =< MaxStream /\ (Feed(chunk) \/ FeedRaw(chunk))
    \/ Flush

FramerSpec == FramerInit /\ [][FramerNext]_framerVars

-----------------------------------------------------------------------------
FramerTypeOK ==
    /\ mode \in Modes /\ overflow \in BOOLEAN /\ closed \in BOOLEAN
    /\ buf \in Seq(Bytes) /\ stream \in Seq(Bytes)
    /\ \A n \in DOMAIN out :
          out[n].payload \in Seq(Bytes) /\ Len(out[n].payload) =< MaxRecord

\* What a framer that saw the whole stream would have emitted: every record
\* clamped, and the tail too once it is over the cap or the peer has closed.
Reference ==
    LET lines == Split(mode, stream).lines
        tail == Split(mode, stream).rest
        due == Len(tail) > MaxRecord \/ (closed /\ tail # <<>>)
    IN Clamped(lines) \o (IF due THEN <<Clamp(tail)>> ELSE <<>>)

LineShorter(n) ==
    /\ \A j \in DOMAIN Split(mode, stream).lines : Len(Split(mode, stream).lines[j]) < n
    /\ Len(Split(mode, stream).rest) < n

\* However the stream is cut into reads, the records are those of the whole
\* stream.  In CRLF mode this needs records below the cap: when a CRLF at the
\* cap is cut in two, feed() (framer.py:112-117) discards the CR and skips to
\* the separator after the next record.
ChunkingIrrelevant ==
    mode = "lf" \/ (mode = "crlf" /\ LineShorter(MaxRecord)) => out = Reference

\* An oversized record contributes one truncated record, never two, whichever call
\* it came out of: outside of raw mode there are not more records than separators
\* and a tail, at the cap too, and no record is longer than the cap.
OneRecordPerLine ==
    /\ mode # "raw" => Len(out) =< Len(Split(mode, stream).lines) + 1
    /\ \A n \in DOMAIN out : Len(out[n].payload) =< MaxRecord

=============================================================================
