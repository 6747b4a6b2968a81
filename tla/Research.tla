------------------------------- MODULE Research ------------------------------
(***************************************************************************)
(* One Deep Research operation (services/research.py and the compatibility *)
(* tool in tools/research.py): its owner plans, starts and optionally      *)
(* waits; readers are other clients that recover it later.  The operation  *)
(* row is reduced to what the workflow depends on: who holds the lease,    *)
(* whether the source chat and the report are recorded, and the state.     *)
(* The report file, the source chat and the prompts sent to it are what    *)
(* could be lost, overwritten or repeated.                                 *)
(***************************************************************************)
EXTENDS Naturals, FiniteSets

CONSTANT Readers        \* clients that recover the operation, once each

VARIABLES
    mode,      \* "start_only", or wait "by_id" or "by_chat"
    retain,    \* the caller's retain_chat
    upstream,  \* the source chat: "none", "planned", "running", "done" or "failed"
    gone,      \* the source chat was deleted
    posts,     \* prompts submitted, by kind
    seen,      \* the SDK session has learned the chat's ID
    kept,      \* the cleanup manager was told to retain the chat
    expired,   \* the request's deadline has passed
    followed,  \* followup_requested
    row, holder, file,
    pc, body, told

rvars == <<mode, retain, upstream, gone, posts, seen, kept, expired, followed,
           row, holder, file, pc, body, told>>
settings == <<mode, retain>>
remote == <<upstream, gone, posts, seen, kept>>

Actors == {"owner"} \cup Readers
Terminal == {"completed", "cancelled"}
(* The two readers of a report do not agree on its text: the document of   *)
(* the chat, and the raw payload with the list of sources appended.        *)
Bodies == {"document", "with_sources"}

Init ==
    /\ mode \in {"start_only", "by_id", "by_chat"} /\ retain \in BOOLEAN
    /\ upstream = "none" /\ gone = FALSE
    /\ posts = [plan |-> 0, start |-> 0, followup |-> 0]
    /\ seen = FALSE /\ kept = FALSE /\ expired = FALSE /\ followed = FALSE
    /\ row = [state |-> "running", source |-> FALSE, report |-> FALSE]
    /\ holder = "owner" /\ file = "none"
    /\ pc = [a \in Actors |-> IF a = "owner" THEN "plan" ELSE "idle"]
    /\ body = [a \in Actors |-> "none"]
    /\ told = [a \in Actors |-> "nothing"]

Go(a, step) == pc' = [pc EXCEPT ![a] = step]

-----------------------------------------------------------------------------
(* Finishing: the row keeps a terminal state, takes the result only under  *)
(* the lease, and takes "completed" only with a recorded report.           *)
Settled(state) ==
    IF row.state \in Terminal THEN row
    ELSE [row EXCEPT !.state = IF state = "completed" /\ ~row.report THEN "running" ELSE state]

Finish(a, state) ==
    /\ row' = IF holder = a THEN Settled(state) ELSE row
    /\ holder' = IF holder = a THEN "nobody" ELSE holder
    /\ told' = [told EXCEPT ![a] = state]
    /\ Go(a, "ended")

Disposal == kept' = TRUE /\ UNCHANGED gone

(* run_deep_research_start_phase, finally: every observed chat is recorded *)
(* and kept, however the phase ended.                                      *)
Preserve ==
    IF seen' THEN row' = [row EXCEPT !.source = TRUE] /\ Disposal
             ELSE UNCHANGED <<row, kept, gone>>
(* mutant: the source is preserved only when the phase succeeds *)
PreserveNothing == UNCHANGED <<row, kept, gone>>
PreserveFailed == Preserve

(* client_generation_once: the SDK does not repost an uncertain prompt.    *)
Posted(kind) == posts' = [posts EXCEPT ![kind] = @ + 1]

(* A phase fails: it raised or missed its deadline.  The prompt may have   *)
(* arrived, and the session may have heard of its chat.                    *)
PhaseFails(kind, arrived) ==
    /\ Posted(kind)
    /\ upstream' \in {upstream, arrived}
    /\ seen' \in {seen, seen \/ upstream' # "none"}
    /\ PreserveFailed
    /\ Go("owner", "fails")
    /\ UNCHANGED <<settings, expired, followed, holder, file, body, told>>

PlanReturns ==
    /\ pc["owner"] = "plan"
    /\ Posted("plan")
    /\ upstream' = "planned" /\ seen' = TRUE
    /\ row' = [row EXCEPT !.source = TRUE]
    /\ Go("owner", "start")
    /\ UNCHANGED <<settings, gone, kept, expired, followed, holder, file, body, told>>

PlanFails == pc["owner"] = "plan" /\ PhaseFails("plan", "planned")

(* start_deep_research_with_recovery: a start that timed out is not        *)
(* repeated; the chat is read within the same deadline instead.  The       *)
(* output may already hold the report.                                     *)
StartReturns ==
    /\ pc["owner"] = "start"
    /\ Posted("start")
    /\ upstream' \in {"running", "done"} /\ UNCHANGED seen
    /\ Preserve
    /\ \/ upstream' = "done" /\ mode = "start_only"
          /\ body' = [body EXCEPT !["owner"] = "document"] /\ Go("owner", "link")
       \/ /\ Go("owner", IF mode = "start_only" THEN "report_state" ELSE "wait")
          /\ UNCHANGED body
    /\ UNCHANGED <<settings, expired, followed, holder, file, told>>

StartFails == pc["owner"] = "start" /\ PhaseFails("start", "running")

Fails ==
    /\ pc["owner"] = "fails"
    /\ \E state \in {"failed", "timed_out"} : Finish("owner", state)
    /\ UNCHANGED <<settings, remote, expired, followed, file, body>>

(* A start that was not waited for: whatever the provider claims, without  *)
(* a body the operation is running (or has failed).                        *)
ReportState ==
    /\ pc["owner"] = "report_state"
    /\ \E state \in {"running", "queued", "failed", "cancelled"} : Finish("owner", state)
    /\ UNCHANGED <<settings, remote, expired, followed, file, body>>

-----------------------------------------------------------------------------
(* Waiting *)

(* mutant: the loop does not look at its deadline *)
InTimeAlways == TRUE
InTime == ~expired

WaitByID ==
    /\ pc["owner"] = "wait" /\ mode = "by_id"
    /\ \/ /\ upstream = "done" /\ InTime
          /\ body' = [body EXCEPT !["owner"] = "document"]
          /\ Go("owner", "link") /\ UNCHANGED <<row, holder, told>>
       \/ /\ upstream = "failed" /\ Finish("owner", "failed") /\ UNCHANGED body
       \/ /\ \E state \in {"timed_out", "failed"} : Finish("owner", state)
          /\ UNCHANGED body
    /\ UNCHANGED <<settings, remote, expired, followed, file>>

Marked == followed' = TRUE

(* wait_for_deep_research_by_chat: one check of the chat.  A completed     *)
(* research is read from the check, from the raw payload, or requested     *)
(* once more by a prompt in its chat.                                      *)
Poll ==
    /\ pc["owner"] = "wait" /\ mode = "by_chat" /\ InTime
    /\ \/ upstream # "done" /\ Go("owner", "sleep") /\ UNCHANGED <<body, row, holder, told>>
       \/ upstream = "failed" /\ Finish("owner", "failed") /\ UNCHANGED body
       \/ /\ upstream = "done" /\ Go("owner", "link") /\ UNCHANGED <<row, holder, told>>
          /\ \E b \in Bodies : body' = [body EXCEPT !["owner"] = b]
       \/ /\ upstream = "done" /\ Go("owner", IF followed THEN "sleep" ELSE "followup")
          /\ UNCHANGED <<body, row, holder, told>>
       \/ Finish("owner", "failed") /\ UNCHANGED body
    /\ UNCHANGED <<settings, remote, expired, followed, file>>

RequestReport ==
    /\ pc["owner"] = "followup" /\ InTime
    /\ Posted("followup")
    /\ \/ /\ Marked /\ Go("owner", "sleep") /\ UNCHANGED body
       \/ /\ followed' = TRUE
          /\ body' = [body EXCEPT !["owner"] = "with_sources"] /\ Go("owner", "link")
    /\ UNCHANGED <<settings, upstream, gone, seen, kept, expired, row, holder, file, told>>

Sleep ==
    /\ pc["owner"] = "sleep" /\ Go("owner", "wait")
    /\ UNCHANGED <<settings, remote, expired, followed, row, holder, file, body, told>>

(* await_before_deadline and the end of the loop: whatever is awaited is   *)
(* left behind.                                                            *)
MissesDeadline ==
    /\ ~InTime /\ pc["owner"] \in {"wait", "followup"}
    /\ Finish("owner", "timed_out")
    /\ UNCHANGED <<settings, remote, expired, followed, file, body>>

-----------------------------------------------------------------------------
(* _save_report, by the owner or by a recovery *)

SaveFails(a) ==
    /\ pc[a] \in {"link", "observe"} /\ Finish(a, "failed")
    /\ UNCHANGED <<settings, remote, expired, followed, file, body>>

Linked(a) ==
    \/ file = "none" /\ file' = body[a]
    \/ file = body[a] /\ UNCHANGED file

Link(a) ==
    /\ pc[a] = "link"
    /\ \/ Linked(a) /\ Go(a, "observe") /\ UNCHANGED <<row, holder, told>>
       \/ /\ file \notin {"none", body[a]} /\ UNCHANGED file
          /\ row' = IF holder = a THEN Settled("failed") ELSE row
          /\ holder' = IF holder = a THEN "nobody" ELSE holder
          /\ told' = [told EXCEPT ![a] = "different_content"]
          /\ Go(a, "ended")
    /\ UNCHANGED <<settings, remote, expired, followed, body>>

ObserveReport(a) ==
    /\ pc[a] = "observe" /\ holder = a
    /\ row' = [row EXCEPT !.report = TRUE, !.state = "completed"]
    /\ Go(a, "dispose")
    /\ UNCHANGED <<settings, remote, expired, followed, holder, file, body, told>>

(* Only now the caller's policy for the chat applies, and only if the      *)
(* account is still the operation's.                                       *)
Dispose(a) ==
    /\ pc[a] = "dispose"
    /\ \/ ~retain /\ gone' = TRUE /\ UNCHANGED kept
       \/ retain /\ kept' = TRUE /\ UNCHANGED gone
       \/ UNCHANGED <<gone, kept>>
    /\ Finish(a, "completed")
    /\ UNCHANGED <<settings, upstream, posts, seen, expired, followed, file, body>>

-----------------------------------------------------------------------------
(* Recovery, the provider and faults *)

Recover(r) ==
    /\ pc[r] = "idle" /\ row.source /\ row.state \notin Terminal /\ holder = "nobody"
    /\ holder' = r
    /\ Go(r, "recover")
    /\ UNCHANGED <<settings, remote, expired, followed, row, file, body, told>>

(* recover: a recorded report is checked; otherwise the chat is read, and  *)
(* nothing is ever sent to it.                                             *)
ReadBack(r) ==
    /\ pc[r] = "recover"
    /\ \/ row.report /\ file # "none" /\ Finish(r, "completed") /\ UNCHANGED body
       \/ /\ upstream = "done" /\ ~gone /\ Go(r, "link")
          /\ body' = [body EXCEPT ![r] = "document"] /\ UNCHANGED <<row, holder, told>>
       \/ \E state \in {row.state, "running", "failed"} \ Terminal :
             Finish(r, state) /\ UNCHANGED body
    /\ UNCHANGED <<settings, remote, expired, followed, file>>

(* The provider works on, also on a prompt whose sender has given up; a    *)
(* late metadata callback records the source without a lease.              *)
ProviderWorks ==
    /\ upstream = "running" /\ upstream' \in {"done", "failed"}
    /\ UNCHANGED <<settings, gone, posts, seen, kept, expired, followed, row, holder, file, pc, body, told>>

LateCallback ==
    /\ upstream # "none" /\ ~row.source
    /\ row' = [row EXCEPT !.source = TRUE]
    /\ UNCHANGED <<settings, remote, expired, followed, holder, file, pc, body, told>>

Expire ==
    /\ ~expired /\ expired' = TRUE
    /\ UNCHANGED <<settings, remote, followed, row, holder, file, pc, body, told>>

(* The lease of a stalled or dead worker runs out. *)
Lapse ==
    /\ holder # "nobody" /\ holder' = "nobody"
    /\ UNCHANGED <<settings, remote, expired, followed, row, file, pc, body, told>>

Crash(a) ==
    /\ pc[a] \notin {"idle", "ended", "crashed"} /\ Go(a, "crashed")
    /\ UNCHANGED <<settings, remote, expired, followed, row, holder, file, body, told>>

OwnerStep ==
    \/ PlanReturns \/ PlanFails \/ StartReturns \/ StartFails \/ Fails \/ ReportState
    \/ WaitByID \/ Poll \/ RequestReport \/ Sleep \/ MissesDeadline
    \/ SaveFails("owner") \/ Link("owner") \/ ObserveReport("owner") \/ Dispose("owner")

ReaderStep(r) ==
    Recover(r) \/ ReadBack(r) \/ SaveFails(r) \/ Link(r) \/ ObserveReport(r) \/ Dispose(r)

Next ==
    \/ OwnerStep \/ \E r \in Readers : ReaderStep(r)
    \/ ProviderWorks \/ LateCallback \/ Expire \/ Lapse \/ \E a \in Actors : Crash(a)

(* The event loop goes on and its clock runs. *)
Fairness == WF_rvars(OwnerStep) /\ WF_rvars(Expire)

Spec == Init /\ [][Next]_rvars /\ Fairness

-----------------------------------------------------------------------------
(* A prompt is posted at most once per operation: neither a timeout, an    *)
(* uncertain failure nor a recovery repeats it (research.py:926).          *)
SubmittedOnce == \A kind \in DOMAIN posts : posts[kind] <= 1

(* The source chat is deleted only when the report is in a file and the    *)
(* row knows of it (research.py:497, 331).                                 *)
ReportBeforeDisposal == gone => row.report /\ file # "none"

(* Who is told that the research is completed finds it so in the row, with *)
(* the report on disk; and the row never says so without one.              *)
CompletedHasReport ==
    /\ row.state = "completed" => row.report /\ file # "none"
    /\ \A a \in Actors : told[a] = "completed" => row.report

(* A report that was saved is never replaced by another (research.py:300). *)
KeepsReport == file # "none" => file' = file

(* A start phase that ended has recorded and retained every chat it saw,   *)
(* also when it failed half-way (research.py:495).                         *)
SourceIsKept ==
    pc["owner"] \notin {"plan", "start", "crashed"} /\ seen => row.source /\ (kept \/ gone)

(* The owner comes to an end by its deadline, whatever the provider does.  *)
OwnerEnded == pc["owner"] \in {"ended", "crashed"}
OwnerEnds == <>OwnerEnded

(* Every client that reads the finished research can save it: the file     *)
(* name is the same for all "so cross-client result reads converge"        *)
(* (research.py:300).                                                      *)
ReadsConverge == \A a \in Actors : told[a] # "different_content"

-----------------------------------------------------------------------------
(* The inductive invariant of the safety properties.                       *)

States == {"running", "queued", "failed", "timed_out"} \cup Terminal
Steps == {"plan", "start", "fails", "report_state", "wait", "sleep", "followup", "idle",
          "recover", "link", "observe", "dispose", "ended", "crashed"}
Typed ==
    /\ mode \in {"start_only", "by_id", "by_chat"} /\ retain \in BOOLEAN
    /\ upstream \in {"none", "planned", "running", "done", "failed"}
    /\ gone \in BOOLEAN /\ seen \in BOOLEAN /\ kept \in BOOLEAN
    /\ expired \in BOOLEAN /\ followed \in BOOLEAN
    /\ posts \in [{"plan", "start", "followup"} -> Nat]
    /\ row \in [state: States, source: BOOLEAN, report: BOOLEAN]
    /\ holder \in Actors \cup {"nobody"}
    /\ file \in Bodies \cup {"none"}
    /\ pc \in [Actors -> Steps] /\ body \in [Actors -> Bodies \cup {"none"}]
    /\ told \in [Actors -> States \cup {"nothing", "different_content"}]

(* What has not been posted yet, by where the owner is: it comes to a      *)
(* follow-up only while none was asked for.                                *)
PostsByPlace ==
    /\ pc["owner"] = "plan" => posts.plan = 0
    /\ pc["owner"] \in {"plan", "start"} => posts.start = 0
    /\ ~followed => posts.followup = 0
    /\ pc["owner"] = "followup" => ~followed

(* Who is about to link a file has a text for it, who is past that finds   *)
(* it linked, and who is about to dispose of the chat has recorded it.     *)
ReportByPlace ==
    /\ row.report => file # "none"
    /\ \A a \in Actors :
         /\ pc[a] = "link" => body[a] # "none"
         /\ pc[a] \in {"observe", "dispose"} => file # "none"
         /\ pc[a] = "dispose" => row.report

Inv == Typed /\ PostsByPlace /\ ReportByPlace /\ SubmittedOnce /\ ReportBeforeDisposal
       /\ CompletedHasReport /\ SourceIsKept
=============================================================================
