---------------------------- MODULE MCStreaming ----------------------------
(* Streaming with three files, of two records, none and one: a swap can be  *)
(* overtaken by another before it takes effect, and to or from an empty file. *)
EXTENDS Streaming

MCRecords == <<2, 0, 1>>
Second == [AllLines EXCEPT !.start = 2, !.end = 2]
MCControls == {AllLines, Second}
=============================================================================
