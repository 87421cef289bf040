---------------------------- MODULE MCFileReader ----------------------------
EXTENDS FileReader
\* A blank line, a row of two fields, and one with a line end in a field.
MCRows == {[width |-> 0, span |-> 1], [width |-> 2, span |-> 1], [width |-> 2, span |-> 2]}
MCWindows == {NoWindow} \cup
    {[start |-> 2, end |-> 0, first |-> 1], [start |-> 1, end |-> 2, first |-> 0], [start |-> 2, end |-> 1, first |-> 0]}
=============================================================================
