------------------------------ MODULE MCFramer ------------------------------
(* Framer on all streams of up to six bytes over a letter, CR and LF.       *)
EXTENDS Framer
MCBytes == {"a", "cr", "lf"}
=============================================================================
