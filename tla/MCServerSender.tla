--------------------------- MODULE MCServerSender ---------------------------
(* ServerSender with one or two connections.                               *)
EXTENDS ServerSender, TLC

CONSTANTS c1, c2, nobody
Interchangeable == Permutations(Clients)
=============================================================================
