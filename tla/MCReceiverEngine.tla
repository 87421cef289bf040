-------------------------- MODULE MCReceiverEngine --------------------------
(* ReceiverEngine with three peers whose reads complete up to two bytes.      *)
EXTENDS ReceiverEngine

MCSizes == 0..2
=============================================================================
