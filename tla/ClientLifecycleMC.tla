------------------------- MODULE ClientLifecycleMC -------------------------
(* Small instances of ClientLifecycle for TLC. *)
EXTENDS ClientLifecycle, TLC

CONSTANTS x, y, r

=============================================================================
