--------------------------- MODULE CleanupJobsMC ---------------------------
(***************************************************************************)
(* CleanupJobs for TLC: the processes its configurations instantiate.      *)
(***************************************************************************)
EXTENDS CleanupJobs, TLC

CONSTANTS p1, p2

Interchangeable == Permutations(Processes)

\* No guard reads a timer: only fairness does.  Runs without liveness need not
\* tell states apart by their timers.
ButTimers == <<job, chat, sent, told, bound, mem, section, fresh, work>>

===========================================================================
