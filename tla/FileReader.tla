----------------------------- MODULE FileReader -----------------------------
(***************************************************************************)
(* One FileReader (src/tcp_sim/engine/file_reader.py): the background scan *)
(* that counts the rows of a delimited file, the preview of its first      *)
(* rows and the generator of the rows to be sent.  Each validates rows     *)
(* against the number of columns of the first one, and they share, without *)
(* a lock, the two fields that hold it: whichever starts resets them under *)
(* the others.  A step is one turn of a loop over the rows; the scan       *)
(* thread, the caller and whoever appends to the file interleave.          *)
(*                                                                         *)
(* A row is its number of fields (0: a blank line) and the physical lines  *)
(* it spans, more than one when a quoted field has line ends in it.  Its   *)
(* text is cut by line numbers out of lines read by an earlier open of the *)
(* file.                                                                   *)
(***************************************************************************)
EXTENDS Integers, SequencesExt

CONSTANTS
    Rows,     \* the rows a file is made of: [width |-> ..., span |-> ...]
    MaxRows,  \* bound: rows in the file
    Limits,   \* limits a preview is called with
    Windows   \* [start, end, first] of iter_valid_raw_rows; None is 0, a bad value negative

ASSUME FileAssumption ==
    /\ Rows \subseteq [width : Nat, span : Nat]
    /\ MaxRows \in Nat /\ Limits \subseteq Int
    /\ Windows \subseteq [start : Int, end : Int, first : Int]

VARIABLES
    file,       \* its rows
    hasHeader,  \* _has_header
    headed,     \* _header is not None
    expected,   \* _expected_columns, or Unset
    snap,       \* _scan_snapshot
    job         \* of each kind of job, its local variables

vars == <<file, hasHeader, headed, expected, snap, job>>

Unset == -1
Jobs == {"scan", "preview", "rows"}
NoWindow == [start |-> 0, end |-> 0, first |-> 0]
NoSnapshot == [total |-> 0, data |-> 0, valid |-> 0, completed |-> FALSE]

\* at: new, reading or done; pos: rows taken from the file; size: the rows the
\* file had when the lines were read; marks: the verdict on each data row; out:
\* the rows yielded; end: the rows there were to take; alone: no other job reset
\* the shared fields, or was there to set them.
NewJob == [at |-> "new", pos |-> 0, size |-> 0, limit |-> 1, window |-> NoWindow,
           marks |-> <<>>, out |-> <<>>, end |-> 0, alone |-> TRUE]

Reading(j) == job[j].at = "reading"

Init ==
    /\ file \in BoundedSeq(Rows, MaxRows) /\ hasHeader \in BOOLEAN
    /\ headed = FALSE /\ expected = Unset /\ snap = NoSnapshot
    /\ job = [j \in Jobs |-> NewJob]

\* What is left of s without its members that are not in K.
Only(s, K) ==
    LET only[n \in 0..Len(s)] ==
            IF n = 0 THEN <<>>
            ELSE IF s[n] \in K THEN Append(only[n - 1], s[n]) ELSE only[n - 1]
    IN only[Len(s)]

ValidCount(marks) == Len(Only(marks, {TRUE}))

-----------------------------------------------------------------------------
\* _validate_line_controls raises before anything is reset.
ValidateLineControls(w) ==
    /\ w.start >= 0 /\ w.end >= 0 /\ w.first >= 0
    /\ w.start > 0 /\ w.end > 0 => w.end >= w.start

\* _line_is_selected.
LineIsSelected(n, w) == (w.start > 0 => n >= w.start) /\ (w.end > 0 => n =< w.end)

ResetKeepsSnapshot ==  \* mutant: the counts of the scan before stay published
    headed' = FALSE /\ expected' = Unset /\ UNCHANGED snap

ResetScanState ==
    headed' = FALSE /\ expected' = Unset /\ snap' = NoSnapshot

\* A job begins: start_background_scan (refused while its thread is alive), the
\* first next() of the generator, load_preview with a positive limit.  The lines
\* for the texts are read here, the rows one by one from a second open.  The caller
\* takes a generator's rows in one go, as _load_records does, and what a finished
\* job had in its variables is forgotten.
Start(j, limit, w) ==
    /\ ~Reading(j) /\ limit > 0 /\ ValidateLineControls(w)
    /\ j # "scan" => ~Reading("preview") /\ ~Reading("rows")
    /\ ResetScanState
    /\ LET others == {k \in Jobs \ {j} : Reading(k)} IN
       job' = [k \in Jobs |->
                 CASE k = j -> [NewJob EXCEPT !.at = "reading", !.size = Len(file), !.limit = limit,
                                              !.window = w, !.alone = others = {}]
                   [] k \in others -> [job[k] EXCEPT !.alone = FALSE]
                   [] OTHER -> NewJob]
    /\ UNCHANGED <<file, hasHeader>>

\* The physical lines of the first n rows, each named by its row.
Lines(n) ==
    LET lines[i \in 0..n] ==
            IF i = 0 THEN <<>> ELSE lines[i - 1] \o [l \in 1..file[i].span |-> i]
    IN lines[n]

RawTextByRow(i, size) ==  \* mutant: a row is taken to be a line
    SubSeq(Lines(size), i, IF i =< size THEN i ELSE Len(Lines(size)))

\* _iter_rows_with_raw: the lines between two values of reader.line_num, as far
\* as they were there when the lines were read.
RawText(i, size) ==
    LET lines == Lines(size) IN
    SubSeq(lines, Len(Lines(i - 1)) + 1, IF i =< size THEN Len(Lines(i)) ELSE Len(lines))

\* The generator breaks off at valid row n, past the window or with enough of it.
Exhausted(s, n) ==
    \/ s.window.end > 0 /\ n > s.window.end
    \/ LineIsSelected(n, s.window) /\ s.window.first > 0 /\ Len(s.out) >= s.window.first

\* iter_valid_raw_rows with its newest valid row, row i of the file.
Yield(s, i) ==
    LET n == ValidCount(s.marks)
    IN CASE Exhausted(s, n) -> [s EXCEPT !.at = "done"]
         [] ~Exhausted(s, n) /\ LineIsSelected(n, s.window) ->
              [s EXCEPT !.out = Append(@, [line |-> n, row |-> i, text |-> RawText(i, s.size)])]
         [] OTHER -> s

ColumnsOfNewest(i) ==  \* mutant: a row is compared with the one before it
    file[i].width

\* What _is_valid_data_row leaves in _expected_columns.
ColumnsAfter(i) == IF expected = Unset THEN file[i].width ELSE expected

\* Row i: the header, when there is to be one and nobody has set it, or a data
\* row, whose verdict _is_valid_data_row gives.
TakeRow(j, s, i) ==
    IF hasHeader /\ ~headed
    THEN headed' = TRUE /\ expected' = file[i].width /\ job' = [job EXCEPT ![j] = s]
    ELSE LET ok == expected \in {Unset, file[i].width}
             t == [s EXCEPT !.marks = Append(@, ok)]
             full == j = "preview" /\ Len(t.marks) >= t.limit
         IN /\ expected' = ColumnsAfter(i)
            /\ job' = [job EXCEPT ![j] = IF j = "rows" /\ ok THEN Yield(t, i)
                                         ELSE IF full THEN [t EXCEPT !.at = "done"] ELSE t]
            /\ UNCHANGED headed

\* _publish_snapshot, by the scan only.
PublishSnapshot(j, completed) ==
    IF j = "scan"
    THEN LET s == job'[j] IN
         snap' = [total |-> s.pos, data |-> Len(s.marks), valid |-> ValidCount(s.marks),
                  completed |-> completed]
    ELSE UNCHANGED snap

\* A row the csv module or the decoder rejects, or an error of the disk, ends the
\* job in the code with what it has published; here every row can be read.
NextRow(j) ==
    /\ Reading(j) /\ job[j].pos < Len(file)
    /\ LET i == job[j].pos + 1 IN TakeRow(j, [job[j] EXCEPT !.pos = i, !.end = Len(file)], i)
    /\ PublishSnapshot(j, FALSE)
    /\ UNCHANGED <<file, hasHeader>>

\* The loop is at the end of the file.
Finish(j) ==
    /\ Reading(j) /\ job[j].pos = Len(file)
    /\ job' = [job EXCEPT ![j].at = "done", ![j].end = Len(file)]
    /\ PublishSnapshot(j, TRUE)
    /\ UNCHANGED <<file, hasHeader, headed, expected>>

\* The file is a log another program writes to, a whole row at a time (bound: of a row
\* half written when the lines are read, the text would be that half).
Grow(row) ==
    /\ Len(file) < MaxRows
    /\ file' = Append(file, row)
    /\ UNCHANGED <<hasHeader, headed, expected, snap, job>>

Next ==
    \/ Start("scan", 1, NoWindow)
    \/ \E limit \in Limits : Start("preview", limit, NoWindow)
    \/ \E w \in Windows : Start("rows", 1, w)
    \/ \E j \in Jobs : NextRow(j) \/ Finish(j)
    \/ \E row \in Rows : Grow(row)

Spec == Init /\ [][Next]_vars

-----------------------------------------------------------------------------
\* The data rows of the first n rows, and what is to be thought of each: the
\* first row, header or not, says how many columns there are.
DataRows(n) == [k \in 1..(IF hasHeader /\ n > 0 THEN n - 1 ELSE n) |-> IF hasHeader THEN k + 1 ELSE k]
Verdict(i) == file[i].width = file[1].width

\* Scan, preview and transmission agree on every row, whatever ran on this
\* reader before: "invalid-line behavior matches in both scan and send paths"
\* (implementation-plan.md:152).  The preview stops at its limit.
VerdictsAgree ==
    \A j \in Jobs : job[j].alone =>
        LET rows == DataRows(job[j].pos) IN
        /\ job[j].marks = [k \in DOMAIN rows |-> Verdict(rows[k])]
        /\ j = "preview" => Len(rows) =< job[j].limit

\* Published totals are provisional until the scan is complete, and final then: the scan
\* has seen every row up to the end of the file, also when it was disturbed, and
\* undisturbed has the counts right (FR-12b).
TotalsFinal ==
    snap.completed =>
        LET s == job["scan"] IN
        /\ s.at = "done" /\ snap.total = s.pos /\ s.pos = s.end
        /\ s.alone => /\ snap.data = Len(DataRows(s.pos))
                      /\ snap.valid = ValidCount([k \in 1..snap.data |-> Verdict(DataRows(s.pos)[k])])

\* An undisturbed generator yields, of the valid rows, lines start to end and of those
\* the first `first`, numbered by their place among the valid rows, each with its own text
\* or, when it was appended, whole, after the lines were read, with none: never with
\* another row's, also after rows of several lines (FR-12d).
SentRowsAreTheWindow ==
    LET s == job["rows"]
        valid == Only(DataRows(s.end), {i \in 1..s.end : Verdict(i)})
        last == IF s.window.end > 0 /\ s.window.end < Len(valid) THEN s.window.end ELSE Len(valid)
        from == IF s.window.start > 0 THEN s.window.start ELSE 1
        upto == IF s.window.first > 0 /\ from + s.window.first - 1 < last
                THEN from + s.window.first - 1 ELSE last
        sent == [k \in 1..(IF upto < from THEN 0 ELSE upto - from + 1) |-> from + k - 1]
        Due(n) == [line |-> n, row |-> valid[n],
                   text |-> IF valid[n] =< s.size
                            THEN [l \in 1..file[valid[n]].span |-> valid[n]] ELSE <<>>]
        due == [k \in DOMAIN sent |-> Due(sent[k])]
    IN s.alone =>
        /\ IsPrefix(s.out, due)
        /\ s.at = "done" => s.out = due

=============================================================================
