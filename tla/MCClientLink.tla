---------------------------- MODULE MCClientLink ----------------------------
(***************************************************************************)
(* ClientLink with both transports, each started twice.                    *)
(***************************************************************************)
EXTENDS ClientLink

=============================================================================
