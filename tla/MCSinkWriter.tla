---------------------------- MODULE MCSinkWriter ----------------------------
(* SinkWriter on small instances: records of one to three bytes, two paths. *)
EXTENDS SinkWriter

MCPaths == {"log", "alt"}
MCNoPath == "none"
MCNoCaller == "nobody"

\* Three records fill the queue, so that the cap and both watermarks occur, and
\* four rotate "log" twice, over two backups, and "alt" over its only one.
Sizes4 == <<1, 1, 2, 2>>
Sizes3 == <<2, 1, 2>>

Base == [enabled |-> TRUE, path |-> "log", overhead |-> 1, rotationMax |-> 4,
         backups |-> 2, high |-> 3, low |-> 1, max |-> 4]
Disabled == [Base EXCEPT !.enabled = FALSE]
Moved == [Base EXCEPT !.path = "alt", !.backups = 1]
Jsonl == [Base EXCEPT !.overhead = 3]
Higher == [Base EXCEPT !.high = 4, !.low = 2]
Lower == [Base EXCEPT !.high = 1, !.low = 0, !.max = 3]

SameMarks == {Base, Disabled, Moved, Jsonl}
AnyMarks == {Base, Disabled, Higher, Lower}
=============================================================================
