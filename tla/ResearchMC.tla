----------------------------- MODULE ResearchMC -----------------------------
(* A small instance of Research for TLC. *)
EXTENDS Research

CONSTANT r1
=============================================================================
