--------------------------- MODULE OperationsMC ---------------------------
(***************************************************************************)
(* Operations for TLC: the model values its configurations instantiate.    *)
(***************************************************************************)
EXTENDS Operations

CONSTANTS s1, s2, r1, r2, c1, o1, chat, file, other

===========================================================================
