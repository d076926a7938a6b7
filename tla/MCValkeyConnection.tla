------------------------- MODULE MCValkeyConnection -------------------------
(***************************************************************************)
(* Three calls, and connections that break twice.                            *)
(***************************************************************************)
EXTENDS ValkeyConnection

CONSTANTS c1, c2, c3
=============================================================================
