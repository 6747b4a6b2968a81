------------------------------ MODULE Disposal ------------------------------
(***************************************************************************)
(* What the cleanup of one source chat promises its callers, without rows, *)
(* versions, timers or locks: an open disposal is worked on by a holder,   *)
(* whose own report settles it; it is completed only when the chat is      *)
(* gone; and once it is decided it stays decided.                          *)
(***************************************************************************)
CONSTANTS Processes, None

VARIABLES
    life,       \* "none", "open", "completed", "cancelled", "retained"
    holder,     \* the process whose report counts, or None
    worker,     \* worker[p]: "idle", "asking", "answered"
    requested,  \* a delete request is, or was, on its way
    gone        \* the chat is no longer there

dvars == <<life, holder, worker, requested, gone>>

Init ==
    /\ life = "none" /\ holder = None
    /\ worker = [p \in Processes |-> "idle"]
    /\ requested = FALSE /\ gone = FALSE

Becomes(p, w) == worker' = [worker EXCEPT ![p] = w]

Register ==
    /\ life = "none" /\ life' = "open"
    /\ UNCHANGED <<holder, worker, requested, gone>>

\* Whoever takes the disposal up displaces a holder that was too slow.
Take(p) ==
    /\ life = "open" /\ worker[p] = "idle"
    /\ holder' = p /\ Becomes(p, "asking")
    /\ UNCHANGED <<life, requested, gone>>

Ask(p) ==
    /\ worker[p] = "asking"
    /\ requested' = TRUE
    /\ UNCHANGED <<life, holder, worker, gone>>

Hear(p) ==
    /\ worker[p] = "asking" /\ Becomes(p, "answered")
    /\ UNCHANGED <<life, holder, requested, gone>>

\* Only the holder's report settles the disposal: as done if the chat is gone,
\* as open for another attempt, or as retained if that was asked meanwhile.
Settle(p) ==
    /\ life = "open" /\ holder = p /\ worker[p] = "answered"
    /\ \/ life' = "completed" /\ gone
       \/ life' \in {"open", "retained"}
    /\ holder' = None /\ Becomes(p, "idle")
    /\ UNCHANGED <<requested, gone>>

\* A worker ends without settling anything: it died, its account was replaced,
\* or the disposal was no longer its own.
Abandon(p) ==
    /\ worker[p] # "idle" /\ Becomes(p, "idle")
    /\ requested' \in {requested, requested \/ worker[p] = "asking"}
    /\ UNCHANGED <<life, holder, gone>>

\* The disposal is withdrawn, and a cancelled one may still be retained.  The
\* account that is replaced takes its worker away at the same time.
Withdraw(p) ==
    /\ \/ life = "open" /\ life' \in {"cancelled", "retained"}
       \/ life = "cancelled" /\ life' = "retained"
    /\ holder' = None
    /\ \/ UNCHANGED <<worker, requested>>
       \/ /\ Becomes(p, "idle")
          /\ requested' \in {requested, requested \/ worker[p] = "asking"}
    /\ UNCHANGED gone

Arrive ==
    /\ requested /\ gone' = TRUE
    /\ UNCHANGED <<life, holder, worker, requested>>

Forget ==
    /\ life \in {"completed", "cancelled", "retained"} /\ life' = "none"
    /\ UNCHANGED <<holder, worker, requested, gone>>

Next ==
    \/ Register \/ Arrive \/ Forget
    \/ \E p \in Processes :
         Take(p) \/ Ask(p) \/ Hear(p) \/ Settle(p) \/ Abandon(p) \/ Withdraw(p)

Spec == Init /\ [][Next]_dvars
=============================================================================
