---------------------------- MODULE CleanupJobs ----------------------------
(***************************************************************************)
(* Durable cleanup of one source chat under one credential scope: the row  *)
(* of the SQLite table `cleanup_jobs` (CleanupRepository) and the client   *)
(* processes that share it, each with its RemoteChatCleanupManager.        *)
(*                                                                         *)
(* A repository call is one BEGIN IMMEDIATE transaction, hence one step.   *)
(* A manager section that makes several calls holds the manager's lock     *)
(* between them: `section` names the write still to come.  It excludes the *)
(* other sections of the process, but neither the other processes nor the  *)
(* worker's heartbeat, which takes no manager lock.                        *)
(*                                                                         *)
(* Versions and clocks are reduced to what they decide: whether the row    *)
(* changed since a section read it (fresh), whether a pending entry still  *)
(* carries the row's version (mem), whether the deadline passed (job.due)  *)
(* and whether the lease still runs (job.live).                            *)
(***************************************************************************)
EXTENDS Naturals, FiniteSets

CONSTANTS
    Processes,   \* client processes bound to the same state database
    Mortal,      \* the processes that may die at any point
    Switchers,   \* the processes whose account may be replaced
    Timely,      \* TRUE: a running worker's lease never lapses
    Faults,      \* TRUE: storage calls may fail, workers may be cancelled
    None         \* SQL NULL

ASSUME ProcessesAssumption ==
    /\ Mortal \subseteq Processes /\ Switchers \subseteq Processes
    /\ Timely \in BOOLEAN /\ Faults \in BOOLEAN
    /\ None \notin Processes

Active   == {"pending", "failed", "running"}
Terminal == {"completed", "cancelled", "retained"}

\* error "retain" is error_code RETAIN_AFTER_CLAIM.  attempts stops at 2: the
\* code asks only whether a claim is the first.
Jobs == [state : Active \cup Terminal, error : {"none", "retain", "other"},
         due : BOOLEAN, live : BOOLEAN, attempts : 0..2,
         lease : Processes \cup {None}]
NoJob == [state |-> "none", error |-> "none", due |-> FALSE, live |-> FALSE,
          attempts |-> 0, lease |-> None]
NewJob(due) == [state |-> "pending", error |-> "none", due |-> due, live |-> FALSE,
                attempts |-> 0, lease |-> None]

VARIABLES
    job,       \* the row, or NoJob
    chat,      \* the source chat at the provider: "present" or "gone"
    sent,      \* a delete request left some process: it may land at any time
    told,      \* some caller was answered RETAINED
    bound,     \* processes bound to this credential scope
    mem,       \* mem[p]: the manager's pending entry and its durable_version
    timer,     \* timer[p]: a delayed task is armed, or arming is suspended
    section,   \* section[p]: the next write of the section that holds the lock
    fresh,     \* sections whose copy of the row is still current
    work       \* work[p]: how far the process's deletion worker got

vars == <<job, chat, sent, told, bound, mem, timer, section, fresh, work>>
remote == <<chat, sent>>

Init ==
    /\ job = NoJob
    /\ chat = "present"
    /\ sent = FALSE
    /\ told = FALSE
    /\ bound = {}
    /\ mem = [p \in Processes |-> "none"]
    /\ timer = [p \in Processes |-> "off"]
    /\ section = [p \in Processes |-> "free"]
    /\ fresh = {}
    /\ work = [p \in Processes |-> "none"]

Exists == job # NoJob
Holds(p) == job.state = "running" /\ job.lease = p
\* The manager lock is free and the scope is bound.
Ready(p) == p \in bound /\ section[p] = "free"

(***************************************************************************)
(* CleanupRepository: what one call leaves in the row.  A row that is not  *)
(* running has no lease.                                                   *)
(***************************************************************************)
IdleKeepsLease(r) == [r EXCEPT !.live = FALSE, !.due = FALSE]   \* mutant
Idle(r) == [r EXCEPT !.live = FALSE, !.lease = None, !.due = FALSE]
Cancelled == [Idle(job) EXCEPT !.state = "cancelled", !.error = "other"]
Retained  == [Idle(job) EXCEPT !.state = "retained"]
Due       == [job EXCEPT !.due = TRUE]
ClaimedBy(p) ==
    [job EXCEPT !.state = "running", !.lease = p, !.live = TRUE,
                !.attempts = IF @ = 2 THEN 2 ELSE @ + 1]
EligibleIdle ==                        \* mutant: an expired claim is not taken over
    job.state \in {"pending", "failed"} /\ job.due
EligibleRunning ==                     \* mutant: a live lease is ignored
    \/ job.state \in {"pending", "failed"} /\ job.due
    \/ job.state = "running"
Eligible ==
    \/ job.state \in {"pending", "failed"} /\ job.due
    \/ job.state = "running" /\ ~job.live

\* _adopt_durable_record_locked(): the pending entry a row leaves in memory.
Known(r) == IF r.state \in Active THEN "current" ELSE "none"
Outdated(m) == IF m = "none" THEN "none" ELSE "stale"

\* A write bumps the version: every other copy of the row is out of date.
Write(p, new) ==
    /\ job' = new
    /\ fresh' = {}
    /\ mem' = [q \in Processes |-> IF q = p THEN Known(new) ELSE Outdated(mem[q])]
\* A lost comparison reads the row again and adopts that.
Adopt(p) ==
    /\ mem' = [mem EXCEPT ![p] = Known(job)]
    /\ fresh' = fresh \ {p}
    /\ UNCHANGED job
Commit(p, new) == IF p \in fresh THEN Write(p, new) ELSE Adopt(p)

\* A row that is over cancels its delayed task; arming skips suspended chats.
Timers(p, arm) ==
    timer' = [timer EXCEPT ![p] =
        IF @ = "suspended" THEN @
        ELSE IF mem'[p] = "none" THEN "off"
        ELSE IF arm THEN "on" ELSE @]

Enter(p, s) ==   \* read the row and go on to a write under the lock
    /\ section' = [section EXCEPT ![p] = s]
    /\ fresh' = fresh \cup {p}
Leave(p) == section' = [section EXCEPT ![p] = "free"]
Working(p, w) == work' = [work EXCEPT ![p] = w]

(***************************************************************************)
(* bind_authentication_scope(), also with the scope it has: adopt and arm   *)
(* every job of the scope, the suspended ones included.                    *)
(***************************************************************************)
Bind(p) ==
    /\ section[p] = "free"
    /\ bound' = bound \cup {p}
    /\ mem' = [mem EXCEPT ![p] = Known(job)]
    /\ timer' = [timer EXCEPT ![p] = IF mem'[p] = "none" THEN "off" ELSE "on"]
    /\ UNCHANGED <<job, remote, told, section, fresh, work>>

(***************************************************************************)
(* schedule_cleanup_result(): register the chat, hasten a known job, or    *)
(* retain the chat.                                                        *)
(***************************************************************************)
Schedule(p) ==
    /\ Ready(p) /\ ~Exists
    /\ \E due \in BOOLEAN : Write(p, NewJob(due))
    /\ Timers(p, TRUE)
    /\ UNCHANGED <<remote, told, bound, section, work>>

\* A job is known: the caller's shorter delay may be due now.
Reschedule(p) ==
    /\ Ready(p) /\ Exists
    /\ IF job.state \in {"pending", "failed"} /\ ~job.due
       THEN Enter(p, "hastening") /\ UNCHANGED <<job, mem, timer>>
       ELSE Adopt(p) /\ Timers(p, TRUE) /\ UNCHANGED section
    /\ UNCHANGED <<remote, told, bound, work>>

Hasten(p) ==
    /\ section[p] = "hastening"
    /\ Commit(p, Due)
    /\ Timers(p, TRUE)
    /\ Leave(p)
    /\ UNCHANGED <<remote, told, bound, work>>

\* retain_chat: a job claimed under a live lease is only marked, so that a
\* failed attempt is not repeated; any other job is withdrawn.
\* What the caller of a retain is answered.
Marked(r) == r.state = "running" /\ r.error = "retain"
AnswersRetained(r) == r.state = "retained" \/ Marked(r)
RetainAtOnce(r) == "retaining"         \* mutant: a claimed job is withdrawn too
RetainPlan(r) == IF r.state = "running" /\ r.live THEN "marking" ELSE "retaining"

Retain(p) ==
    /\ Ready(p) /\ Exists
    /\ IF job.state = "completed"
       THEN Adopt(p) /\ Timers(p, TRUE) /\ UNCHANGED section
       ELSE Enter(p, RetainPlan(job)) /\ UNCHANGED <<job, mem, timer>>
    /\ UNCHANGED <<remote, told, bound, work>>

\* A marked job leaves memory: this process will not try it again.
RetainWrite(p) ==
    LET asked == IF section[p] = "marking" THEN [job EXCEPT !.error = "retain"]
                                           ELSE Retained
        found == IF p \in fresh THEN asked ELSE job
    IN  /\ section[p] \in {"retaining", "marking"}
        /\ job' = found
        /\ fresh' = IF p \in fresh THEN {} ELSE fresh
        /\ mem' = [q \in Processes |->
                     IF q = p THEN (IF Marked(found) THEN "none" ELSE Known(found))
                     ELSE IF p \in fresh THEN Outdated(mem[q]) ELSE mem[q]]
        /\ told' = (told \/ AnswersRetained(found))
        /\ Timers(p, TRUE)
        /\ Leave(p)
        /\ UNCHANGED <<remote, bound, work>>

(***************************************************************************)
(* cancel_durable_job() and invalidate_authentication_context().           *)
(***************************************************************************)
Cancel(p) ==
    /\ Ready(p) /\ job.state \in Active
    /\ Enter(p, "cancelling")
    /\ UNCHANGED <<job, remote, told, bound, mem, timer, work>>

CancelWrite(p) ==
    /\ section[p] = "cancelling"
    /\ Commit(p, Cancelled)
    /\ Timers(p, FALSE)
    /\ Leave(p)
    /\ UNCHANGED <<remote, told, bound, work>>

Invalidate(p) ==
    /\ p \in Switchers /\ Ready(p)
    /\ Enter(p, "invalidating")
    /\ UNCHANGED <<job, remote, told, bound, mem, timer, work>>

\* The scope's jobs are cancelled, then the new generation drops every entry
\* and worker; a worker past its last check may still get its request out.
InvalidateWrite(p) ==
    /\ section[p] = "invalidating"
    /\ IF p \in fresh /\ job.state \in Active
       THEN /\ job' = Cancelled
            /\ fresh' = {}
            /\ mem' = [q \in Processes |-> IF q = p THEN "none" ELSE Outdated(mem[q])]
       ELSE /\ fresh' = fresh \ {p}
            /\ mem' = [mem EXCEPT ![p] = "none"]
            /\ UNCHANGED job
    /\ sent' \in {sent, sent \/ work[p] = "cleared"}
    /\ bound' = bound \ {p}
    /\ timer' = [timer EXCEPT ![p] = "off"]
    /\ Working(p, "none")
    /\ Leave(p)
    /\ UNCHANGED <<chat, told>>

(***************************************************************************)
(* Claiming: a timer or a sweep claims what its pending entry says is due; *)
(* an explicit delete, or an operator's retry, claims a job ahead of time. *)
(***************************************************************************)
\* cleanup_due_chat_results() and list_pending_cleanup() adopt without arming.
Refresh(p) ==
    /\ Ready(p)
    /\ mem' = [mem EXCEPT ![p] = Known(job)]
    /\ Timers(p, FALSE)
    /\ UNCHANGED <<job, remote, told, bound, section, fresh, work>>

\* The deadline a pending entry remembers passed: that of an outdated entry
\* may be any earlier one; that of a claimed row is the end of its lease.
RemembersDue(p) ==
    \/ mem[p] = "stale"
    \/ mem[p] = "current" /\ (IF job.state = "running" THEN ~job.live ELSE job.due)

SettleOrAdopt(p) ==  \* RETAIN_AFTER_CLAIM: retained once the lease lapsed
    IF job.live THEN Adopt(p) /\ Timers(p, FALSE) /\ UNCHANGED section
    ELSE Enter(p, "settling") /\ UNCHANGED <<job, mem, timer>>

Outran(p) == mem[p] = "stale"          \* the row moved since the entry was made

ClaimDue(p) ==
    /\ Ready(p) /\ work[p] = "none" /\ Exists /\ RemembersDue(p)
    /\ IF Outran(p) THEN Adopt(p) /\ Timers(p, FALSE) /\ UNCHANGED section
       ELSE IF Marked(job) THEN SettleOrAdopt(p)
       ELSE Enter(p, "claiming") /\ UNCHANGED <<job, mem, timer>>
    /\ UNCHANGED <<remote, told, bound, work>>

ClaimNow(p) ==
    /\ Ready(p) /\ work[p] = "none" /\ Exists
    /\ IF Marked(job) THEN SettleOrAdopt(p)
       ELSE /\ Enter(p, IF job.state \in {"pending", "failed"} /\ ~job.due
                        THEN "advancing" ELSE "claiming")
            /\ UNCHANGED <<job, mem, timer>>
    /\ UNCHANGED <<remote, told, bound, work>>

\* allow_durable: a chat without a job is registered as due and claimed.
ClaimNew(p) ==
    /\ Ready(p) /\ work[p] = "none" /\ ~Exists
    /\ job' = NewJob(TRUE)
    /\ Enter(p, "claiming")
    /\ UNCHANGED <<remote, told, bound, mem, timer, work>>

Settle(p) ==
    /\ section[p] = "settling"
    /\ Commit(p, Retained)
    /\ Timers(p, FALSE)
    /\ Leave(p)
    /\ UNCHANGED <<remote, told, bound, work>>

\* due_at = now, then the claim that follows uses whatever row is there.
Advance(p) ==
    /\ section[p] = "advancing"
    /\ IF p \in fresh
       THEN /\ job' = Due
            /\ mem' = [q \in Processes |-> Outdated(mem[q])]
            /\ fresh' = {p}
       ELSE fresh' = fresh \cup {p} /\ UNCHANGED <<job, mem>>
    /\ section' = [section EXCEPT ![p] = "claiming"]
    /\ UNCHANGED <<remote, told, bound, timer, work>>

Claim(p) ==
    /\ section[p] = "claiming"
    /\ IF p \in fresh /\ Eligible
       THEN Write(p, ClaimedBy(p)) /\ Working(p, "claimed")
       ELSE Adopt(p) /\ UNCHANGED work
    /\ Timers(p, FALSE)
    /\ Leave(p)
    /\ UNCHANGED <<remote, told, bound>>

(***************************************************************************)
(* _execute_durable_delete(): check the claim, look for a deletion that    *)
(* already happened, check the claim again, send the request, read back.   *)
(***************************************************************************)
Asking == {"claimed", "looking", "checking", "cleared", "sent"}
Answered == {"verified", "unverified"}

GiveUp(p) == Adopt(p) /\ Timers(p, TRUE) /\ Working(p, "none")

\* The client is resolved, then the claim is read again.
Begin(p) ==
    /\ work[p] = "claimed" /\ section[p] = "free"
    /\ IF Holds(p)
       THEN /\ Working(p, IF job.attempts > 1 THEN "looking" ELSE "checking")
            /\ UNCHANGED <<job, mem, timer, fresh>>
       ELSE GiveUp(p)
    /\ UNCHANGED <<remote, told, bound, section>>

\* observe_chat_absence(): positive absence ends the attempt, any other
\* answer leads to the request.
Look(p) ==
    /\ work[p] = "looking"
    /\ \/ chat = "gone" /\ Working(p, "verified")
       \/ Working(p, "checking")
    /\ UNCHANGED <<job, remote, told, bound, mem, timer, section, fresh>>

Recheck(p) ==
    /\ work[p] = "checking" /\ section[p] = "free"
    /\ IF Holds(p)
       THEN Working(p, "cleared") /\ UNCHANGED <<job, mem, timer, fresh>>
       ELSE GiveUp(p)
    /\ UNCHANGED <<remote, told, bound, section>>

Send(p) ==
    /\ work[p] = "cleared"
    /\ sent' = TRUE
    /\ Working(p, "sent")
    /\ UNCHANGED <<job, chat, told, bound, mem, timer, section, fresh>>

\* delete_chat_result(): completion needs the read-back to show absence.
AnswerAccepted == TRUE                 \* mutant: an acknowledgement is enough
Absent == chat = "gone"
Answer(p) ==
    /\ work[p] = "sent"
    /\ \/ Absent /\ Working(p, "verified")
       \/ Working(p, "unverified")
    /\ UNCHANGED <<job, remote, told, bound, mem, timer, section, fresh>>

\* The client cannot be resolved or a call raises.
Raise(p) ==
    /\ work[p] \in Asking
    /\ Working(p, "unverified")
    /\ UNCHANGED <<job, remote, told, bound, mem, timer, section, fresh>>

\* CancelledError: a lost lease, a failed renewal, or shutdown.  The chat is
\* suspended in this process until the next bind.
Interrupt(p) ==
    /\ Faults /\ work[p] \in Asking /\ section[p] = "free"
    /\ Working(p, "unverified")
    /\ timer' = [timer EXCEPT ![p] = "suspended"]
    /\ UNCHANGED <<job, remote, told, bound, mem, section, fresh>>

\* The final section reads the row to choose the state it records ...
Outcome(p) ==
    IF work[p] = "verified" THEN "completing"
    ELSE IF job.error = "retain" THEN "retiring" ELSE "failing"

Finish(p) ==
    /\ work[p] \in Answered /\ section[p] = "free"
    /\ section' = [section EXCEPT ![p] = Outcome(p)]
    /\ UNCHANGED <<job, remote, told, bound, mem, timer, fresh, work>>

\* ... and writes it for as long as it holds the lease, whatever the version.
FinishAnyway(p) == job.state = "running"   \* mutant: the lease is not compared
MayFinish(p) == Holds(p)
Result(s) ==
    IF s = "completing" THEN [Idle(job) EXCEPT !.state = "completed", !.error = "none"]
    ELSE IF s = "retiring" THEN [Retained EXCEPT !.error = "other"]
    ELSE [Idle(job) EXCEPT !.state = "failed", !.error = "other"]

FinishWrite(p) ==
    /\ section[p] \in {"completing", "retiring", "failing"}
    /\ IF MayFinish(p) THEN Write(p, Result(section[p])) ELSE Adopt(p)
    /\ Timers(p, TRUE)
    /\ Working(p, "none")
    /\ Leave(p)
    /\ UNCHANGED <<remote, told, bound>>

\* renew(): an update under the lease, so it bumps the version.
Renew(p) ==
    /\ work[p] \in Asking /\ Holds(p)
    /\ job' = [job EXCEPT !.live = TRUE]
    /\ fresh' = {}
    /\ mem' = [q \in Processes |-> Outdated(mem[q])]
    /\ UNCHANGED <<remote, told, bound, timer, section, work>>

(***************************************************************************)
(* The provider, time, failures and maintenance.                           *)
(***************************************************************************)
Land ==
    /\ sent /\ chat = "present"
    /\ chat' = "gone"
    /\ UNCHANGED <<job, sent, told, bound, mem, timer, section, fresh, work>>

DueArrives ==
    /\ job.state \in {"pending", "failed"} /\ ~job.due
    /\ job' = Due
    /\ UNCHANGED <<remote, told, bound, mem, timer, section, fresh, work>>

LeaseLapses ==
    /\ job.state = "running" /\ job.live
    /\ Timely => work[job.lease] = "none"
    /\ job' = [job EXCEPT !.live = FALSE]
    /\ UNCHANGED <<remote, told, bound, mem, timer, section, fresh, work>>

\* A storage call fails.  A scheduling, claiming or final section suspends
\* the chat; cancelling and invalidating raise and leave memory as it was.
StorageFails(p) ==
    /\ Faults /\ section[p] # "free"
    /\ timer' = IF section[p] \in {"cancelling", "invalidating"} THEN timer
                ELSE [timer EXCEPT ![p] = "suspended"]
    /\ work' = IF work[p] \in Answered /\ section[p] \in {"completing", "retiring", "failing"}
               THEN [work EXCEPT ![p] = "none"] ELSE work
    /\ Leave(p)
    /\ fresh' = fresh \ {p}
    /\ UNCHANGED <<job, remote, told, bound, mem>>

Crash(p) ==
    /\ p \in Mortal /\ p \in bound
    /\ bound' = bound \ {p}
    /\ mem' = [mem EXCEPT ![p] = "none"]
    /\ timer' = [timer EXCEPT ![p] = "off"]
    /\ fresh' = fresh \ {p}
    /\ Leave(p)
    /\ Working(p, "none")
    /\ UNCHANGED <<job, remote, told>>

\* transaction(): a terminal row goes after its retention period, long after
\* every section, worker and timer that knew it.
Prune ==
    /\ job.state \in Terminal
    /\ \A p \in Processes : section[p] = "free" /\ work[p] = "none" /\ mem[p] = "none"
    /\ job' = NoJob
    /\ told' = FALSE
    /\ UNCHANGED <<remote, bound, mem, timer, section, fresh, work>>

SectionStep(p) ==
    \/ Hasten(p) \/ RetainWrite(p) \/ CancelWrite(p)
    \/ InvalidateWrite(p) \/ Settle(p) \/ Advance(p) \/ Claim(p) \/ FinishWrite(p)
WorkerStep(p) ==
    Begin(p) \/ Look(p) \/ Recheck(p) \/ Send(p) \/ Answer(p) \/ Raise(p) \/ Finish(p)
CallStep(p) ==
    \/ Bind(p) \/ Schedule(p) \/ Reschedule(p) \/ Retain(p) \/ Cancel(p)
    \/ Invalidate(p) \/ Refresh(p) \/ ClaimDue(p) \/ ClaimNow(p) \/ ClaimNew(p)

Next ==
    \/ \E p \in Processes : CallStep(p) \/ SectionStep(p) \/ WorkerStep(p)
    \/ \E p \in Processes :
         Interrupt(p) \/ Renew(p) \/ StorageFails(p) \/ Crash(p)
    \/ Land \/ DueArrives \/ LeaseLapses \/ Prune

Spec == Init /\ [][Next]_vars

\* Time passes; a section runs to its end; the event loop runs workers, whose
\* remote calls carry timeouts, and armed timers.  No caller, failure, death
\* or landing of a request is obliged to happen.
Fairness ==
    /\ WF_vars(DueArrives) /\ WF_vars(LeaseLapses)
    /\ \A p \in Processes :
         /\ WF_vars(SectionStep(p)) /\ WF_vars(WorkerStep(p))
         /\ WF_vars(timer[p] = "on" /\ ClaimDue(p))

FairSpec == Spec /\ Fairness

-----------------------------------------------------------------------------
(***************************************************************************)
(* Properties.                                                             *)
(***************************************************************************)
\* Every variable has its type; a row has a lease exactly while it runs.
TypeOK ==
    /\ job \in Jobs \cup {NoJob}
    /\ job.lease # None <=> job.state = "running"
    /\ chat \in {"present", "gone"}
    /\ sent \in BOOLEAN /\ told \in BOOLEAN
    /\ bound \subseteq Processes /\ fresh \subseteq Processes
    /\ mem \in [Processes -> {"none", "stale", "current"}]
    /\ timer \in [Processes -> {"off", "on", "suspended"}]
    /\ section \in [Processes -> {"free", "hastening", "retaining", "marking",
           "cancelling", "invalidating", "settling", "advancing", "claiming",
           "completing", "retiring", "failing"}]
    /\ work \in [Processes -> {"none"} \cup Asking \cup Answered]

\* "Cleanup completion requires observed absence": a job that says completed
\* has its chat gone, whichever worker, crash or takeover wrote it.
CompletedIsAbsent == job.state = "completed" => chat = "gone"

\* "Renewable leases allow one process to execute ... cleanup for a record":
\* with timely heartbeats two workers are never both past their last check.
OneDeleter ==
    \A p, q \in Processes :
        work[p] \in {"cleared", "sent"} /\ work[q] \in {"cleared", "sent"} => p = q

\* "retain_chat=true withdraws unclaimed cleanup": a job becomes retained only
\* when no worker of any process is about to send its request or awaits it.
RetainsQuietly ==
    job.state \in Active /\ job'.state = "retained" =>
        \A p \in Processes : work'[p] \notin {"cleared", "sent"}
RetainedIsQuiet == [][RetainsQuietly]_vars

\* "If that attempt fails, withdrawn work is not retried": once a caller was
\* answered RETAINED, the row never becomes a job that can be claimed afresh.
RetainHonoured == told => job.state \in Terminal \/ Marked(job)

\* How the row and its workers look to Disposal.
Life == IF job.state \in Active THEN "open" ELSE job.state
Role(w) == IF w = "none" THEN "idle" ELSE IF w \in Answered THEN "answered" ELSE "asking"
Roles == [p \in Processes |-> Role(work[p])]

\* Every behaviour of the row and its processes is one of Disposal: "an old
\* worker cannot finish", a completed or withdrawn job is not reopened by a late
\* worker, a lost race, an account switch or a restart, and nothing is completed
\* before it is gone.
Promised == INSTANCE Disposal WITH
    life <- Life, holder <- job.lease, worker <- Roles,
    requested <- sent, gone <- chat = "gone"
KeepsPromise == Promised!Spec

\* A process that died or gave up strands nothing: while another one has its
\* timer armed, an unfinished job is taken up again or comes to an end.
NoStrandedJob ==
    \A p \in Processes :
        timer[p] = "on" /\ job.state \in Active
        ~> \/ timer[p] # "on" \/ job.state \notin Active
           \/ \E q \in Processes : work[q] # "none"

=============================================================================
