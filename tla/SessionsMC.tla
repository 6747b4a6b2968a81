----------------------------- MODULE SessionsMC -----------------------------
(* Small instances of Sessions for TLC. *)
EXTENDS Sessions, TLC

CONSTANTS a, b, x, y

\* Every caller may do what every other one may; sessions differ only by name.
Interchangeable == Permutations({a, b}) \cup Permutations({x, y})
=============================================================================
