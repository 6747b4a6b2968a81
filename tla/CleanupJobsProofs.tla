------------------------- MODULE CleanupJobsProofs -------------------------
(***************************************************************************)
(* Theorems about CleanupJobs, for every set of processes and whatever may *)
(* fail: its invariants, and that it keeps the promise Disposal states.    *)
(***************************************************************************)
EXTENDS CleanupJobs, TLAPS

Sections == {"free", "hastening", "retaining", "marking", "cancelling", "invalidating",
             "settling", "advancing", "claiming", "completing", "retiring", "failing"}
Works == {"none"} \cup Asking \cup Answered

\* A row, or none; it has a lease exactly while it runs.
Row(r) ==
    /\ r \in Jobs \cup {NoJob}
    /\ r.lease # None <=> r.state = "running"

Types ==
    /\ Row(job)
    /\ chat \in {"present", "gone"} /\ sent \in BOOLEAN /\ told \in BOOLEAN
    /\ bound \in SUBSET Processes /\ fresh \in SUBSET Processes
    /\ mem \in [Processes -> {"none", "stale", "current"}]
    /\ timer \in [Processes -> {"off", "on", "suspended"}]
    /\ section \in [Processes -> Sections]
    /\ work \in [Processes -> Works]

\* What a section decided when it read the row still holds while its copy is
\* current: only so may it write what it planned.
FreshCopies ==
    \A p \in fresh :
        /\ section[p] \in {"hastening", "advancing"} => job.state \in {"pending", "failed"}
        /\ section[p] \in {"marking", "settling"} => job.state = "running"
        /\ section[p] \in {"retaining", "settling"} /\ job.state = "running" => ~job.live
        /\ section[p] = "cancelling" => job.state \in Active
        /\ section[p] = "retaining" => job.state \in Active \cup {"cancelled", "retained"}

\* A claim has no worker yet; a final section records what its worker saw.
SectionsMatchWork ==
    \A p \in Processes :
        /\ section[p] \in {"claiming", "advancing"} => work[p] = "none"
        /\ section[p] = "completing" => work[p] = "verified"
        /\ section[p] \in {"retiring", "failing"} => work[p] = "unverified"

\* The row and a worker say the chat is gone only when it is.
AbsenceIsReal ==
    /\ job.state = "completed" => chat = "gone"
    /\ \A p \in Processes : work[p] = "verified" => chat = "gone"

\* The inductive invariant.
Inv == Types /\ FreshCopies /\ SectionsMatchWork /\ AbsenceIsReal

-----------------------------------------------------------------------------
\* The rows the repository writes are rows, and which state and lease each has.
LEMMA NoJobRow == Row(NoJob) /\ NoJob.state = "none" /\ NoJob.lease = None
  BY DEF Row, NoJob, Jobs

LEMMA NewRow ==
  ASSUME NEW due \in BOOLEAN
  PROVE  Row(NewJob(due)) /\ NewJob(due).state = "pending" /\ NewJob(due).lease = None
  BY DEF Row, NewJob, Jobs, Active, Terminal

LEMMA JobFields ==
  ASSUME Row(job), job # NoJob
  PROVE  /\ job \in Jobs
         /\ job.state \in Active \cup Terminal
  BY DEF Row, Jobs

LEMMA IdleRows ==
  ASSUME Row(job), job # NoJob
  PROVE  /\ Row(Cancelled) /\ Cancelled.state = "cancelled" /\ Cancelled.lease = None
         /\ Row(Retained) /\ Retained.state = "retained" /\ Retained.lease = None
         /\ \A s \in {"completing", "retiring", "failing"} :
              /\ Row(Result(s)) /\ Result(s).lease = None
              /\ s = "completing" => Result(s).state = "completed"
              /\ s = "retiring" => Result(s).state = "retained"
              /\ s = "failing" => Result(s).state = "failed"
  BY JobFields DEF Row, Jobs, Cancelled, Retained, Result, Idle, Active, Terminal

LEMMA SameStateRows ==
  ASSUME Row(job), job # NoJob, NEW b \in BOOLEAN,
         NEW r \in {Due, [job EXCEPT !.live = b], [job EXCEPT !.error = "retain"]}
  PROVE  Row(r) /\ r.state = job.state /\ r.lease = job.lease
<1>1. job \in Jobs
  BY JobFields
<1>2. Due \in Jobs /\ Due.state = job.state /\ Due.lease = job.lease
  BY <1>1 DEF Jobs, Due
<1>3. /\ [job EXCEPT !.live = b] \in Jobs /\ [job EXCEPT !.live = b].state = job.state
      /\ [job EXCEPT !.live = b].lease = job.lease
  BY <1>1 DEF Jobs
<1>4. /\ [job EXCEPT !.error = "retain"] \in Jobs
      /\ [job EXCEPT !.error = "retain"].state = job.state
      /\ [job EXCEPT !.error = "retain"].lease = job.lease
  BY <1>1 DEF Jobs
<1> QED
  BY <1>2, <1>3, <1>4 DEF Row

LEMMA DueRow ==
  ASSUME Row(job), job.state \in {"pending", "failed"}
  PROVE  Row(Due) /\ Due.state = job.state /\ Due.lease = job.lease
  BY SameStateRows, NoJobRow

LEMMA ClaimedRow ==
  ASSUME Row(job), job # NoJob, NEW p \in Processes
  PROVE  Row(ClaimedBy(p)) /\ ClaimedBy(p).state = "running" /\ ClaimedBy(p).lease = p
<1>1. job \in Jobs
  BY JobFields
<1>2. (IF job.attempts = 2 THEN 2 ELSE job.attempts + 1) \in 0..2
  BY <1>1 DEF Jobs
<1>3. ClaimedBy(p) \in Jobs /\ ClaimedBy(p).state = "running" /\ ClaimedBy(p).lease = p
  BY <1>1, <1>2 DEF Jobs, ClaimedBy, Active
<1> QED
  BY <1>3, ProcessesAssumption DEF Row

-----------------------------------------------------------------------------
\* Every step keeps the invariant: the calls, the second halves of sections,
\* the workers, failures and heartbeats, and the rest of the world.
LEMMA CallsKeep ==
  ASSUME Inv, NEW p \in Processes, CallStep(p)
  PROVE  Inv'
<1> USE DEF Inv, Types, FreshCopies, SectionsMatchWork, AbsenceIsReal, Ready, Enter, Leave, Working, Write, Adopt,
              Commit, Timers, Known, Outdated, Exists, Sections, Works, remote
<1>1. CASE Bind(p)
  BY <1>1 DEF Bind, Active
<1>2. CASE Schedule(p)
  BY <1>2, NewRow DEF Schedule, Active
<1>3. CASE Reschedule(p)
  BY <1>3 DEF Reschedule, Active
<1>4. CASE Retain(p)
  BY <1>4, JobFields DEF Retain, RetainPlan, Active, Terminal
<1>5. CASE Cancel(p)
  BY <1>5 DEF Cancel, Active
<1>6. CASE Invalidate(p)
  BY <1>6 DEF Invalidate
<1>7. CASE Refresh(p)
  BY <1>7 DEF Refresh, Active
<1>8. CASE ClaimDue(p)
  BY <1>8, JobFields DEF ClaimDue, Outran, SettleOrAdopt, Marked
<1>9. CASE ClaimNow(p)
  BY <1>9, JobFields DEF ClaimNow, SettleOrAdopt, Marked, Active
<1>10. CASE ClaimNew(p)
  <2>1. job.state = "none" /\ work[p] = "none"
    BY <1>10, NoJobRow DEF ClaimNew
  <2>2. Types' /\ job'.state = "pending"
    BY <1>10, NewRow DEF ClaimNew
  <2>3. \A q \in fresh : section[q] \notin
          {"hastening", "advancing", "marking", "settling", "cancelling", "retaining"}
    BY <2>1 DEF Active
  <2>4. \A q \in fresh' : section'[q] \notin
          {"hastening", "advancing", "marking", "settling", "cancelling", "retaining"}
    BY <1>10, <2>3 DEF ClaimNew
  <2>5. FreshCopies'
    BY <2>4
  <2>6. SectionsMatchWork'
    BY <1>10, <2>1 DEF ClaimNew
  <2> QED
    BY <1>10, <2>2, <2>5, <2>6 DEF ClaimNew
<1> QED
  BY <1>1, <1>2, <1>3, <1>4, <1>5, <1>6, <1>7, <1>8, <1>9, <1>10 DEF CallStep

LEMMA SectionsKeep ==
  ASSUME Inv, NEW p \in Processes, SectionStep(p)
  PROVE  Inv'
<1> USE DEF Inv, Types, FreshCopies, SectionsMatchWork, AbsenceIsReal, Ready, Enter, Leave, Working, Write, Adopt,
              Commit, Timers, Known, Outdated, Exists, Sections, Works, remote
<1>1. CASE Hasten(p)
  BY <1>1, DueRow DEF Hasten, Active
<1>2. CASE RetainWrite(p)
  <2>1. CASE p \in fresh
    <3>1. job.state \in Active \cup {"cancelled", "retained"} /\ job # NoJob
      BY <1>2, <2>1, NoJobRow DEF RetainWrite, Active
    <3>2. Row(job') /\ job'.state # "completed"
      BY <1>2, <2>1, <3>1, SameStateRows, IdleRows DEF RetainWrite, Active
    <3> QED
      BY <1>2, <2>1, <3>2 DEF RetainWrite, Marked
  <2>2. CASE p \notin fresh
    BY <1>2, <2>2 DEF RetainWrite, Marked
  <2> QED
    BY <2>1, <2>2
<1>3. CASE CancelWrite(p)
  BY <1>3, IdleRows, NoJobRow DEF CancelWrite, Active
<1>4. CASE InvalidateWrite(p)
  <2>1. sent' \in BOOLEAN
    BY <1>4, Zenon DEF InvalidateWrite
  <2>2. Row(job') /\ (job'.state = "completed" => chat = "gone")
    BY <1>4, IdleRows, NoJobRow DEF InvalidateWrite, Active
  <2>3. Types'
    BY <1>4, <2>1, <2>2 DEF InvalidateWrite
  <2>4. FreshCopies'
    BY <1>4 DEF InvalidateWrite
  <2>5. SectionsMatchWork'
    BY <1>4 DEF InvalidateWrite
  <2>6. AbsenceIsReal'
    BY <1>4, <2>2 DEF InvalidateWrite
  <2> QED
    BY <2>3, <2>4, <2>5, <2>6
<1>5. CASE Settle(p)
  BY <1>5, IdleRows, NoJobRow DEF Settle
<1>6. CASE Advance(p)
  BY <1>6, DueRow DEF Advance
<1>7. CASE Claim(p)
  BY <1>7, ClaimedRow, NoJobRow DEF Claim, Eligible, Active, Asking, Answered
<1>8. CASE FinishWrite(p)
  BY <1>8, IdleRows, NoJobRow DEF FinishWrite, MayFinish, Holds, Asking, Answered
<1> QED
  BY <1>1, <1>2, <1>3, <1>4, <1>5, <1>6, <1>7, <1>8 DEF SectionStep

LEMMA WorkersKeep ==
  ASSUME Inv, NEW p \in Processes, WorkerStep(p)
  PROVE  Inv'
<1> USE DEF Inv, Types, FreshCopies, SectionsMatchWork, AbsenceIsReal, Ready, Enter, Leave, Working, Write, Adopt,
              Commit, Timers, Known, Outdated, Exists, Sections, Works, remote
<1>1. CASE Begin(p)
  BY <1>1 DEF Begin, Holds, GiveUp, Asking, Answered
<1>2. CASE Look(p)
  BY <1>2 DEF Look, Asking, Answered
<1>3. CASE Recheck(p)
  BY <1>3 DEF Recheck, Holds, GiveUp, Asking, Answered
<1>4. CASE Send(p)
  BY <1>4 DEF Send, Asking, Answered
<1>5. CASE Answer(p)
  BY <1>5 DEF Answer, Absent, Asking, Answered
<1>6. CASE Raise(p)
  BY <1>6 DEF Raise, Asking, Answered
<1>7. CASE Finish(p)
  BY <1>7 DEF Finish, Outcome, Asking, Answered
<1> QED
  BY <1>1, <1>2, <1>3, <1>4, <1>5, <1>6, <1>7 DEF WorkerStep

LEMMA ProcessesKeep ==
  ASSUME Inv, NEW p \in Processes,
         Interrupt(p) \/ Renew(p) \/ StorageFails(p) \/ Crash(p)
  PROVE  Inv'
<1> USE DEF Inv, Types, FreshCopies, SectionsMatchWork, AbsenceIsReal, Ready, Enter, Leave, Working, Write, Adopt,
              Commit, Timers, Known, Outdated, Exists, Sections, Works, remote
<1>1. CASE Interrupt(p)
  BY <1>1 DEF Interrupt, Asking, Answered
<1>2. CASE Renew(p)
  BY <1>2, SameStateRows, NoJobRow DEF Renew, Holds
<1>3. CASE StorageFails(p)
  BY <1>3 DEF StorageFails, Asking, Answered
<1>4. CASE Crash(p)
  BY <1>4 DEF Crash
<1> QED
  BY <1>1, <1>2, <1>3, <1>4

LEMMA OthersKeep ==
  ASSUME Inv, Land \/ DueArrives \/ LeaseLapses \/ Prune
  PROVE  Inv'
<1> USE DEF Inv, Types, FreshCopies, SectionsMatchWork, AbsenceIsReal, Ready, Enter, Leave, Working, Write, Adopt,
              Commit, Timers, Known, Outdated, Exists, Sections, Works, remote
<1>1. CASE Land
  BY <1>1 DEF Land
<1>2. CASE DueArrives
  BY <1>2, SameStateRows, NoJobRow DEF DueArrives
<1>3. CASE LeaseLapses
  BY <1>3, SameStateRows, NoJobRow DEF LeaseLapses
<1>4. CASE Prune
  BY <1>4, NoJobRow DEF Prune
<1> QED
  BY <1>1, <1>2, <1>3, <1>4

LEMMA SpecInv == Spec => []Inv
<1>1. Init => Inv
  <2> SUFFICES ASSUME Init PROVE Inv
    OBVIOUS
  <2>1. Types
    BY NoJobRow DEF Init, Types, Sections, Works
  <2>2. FreshCopies /\ SectionsMatchWork /\ AbsenceIsReal
    BY NoJobRow DEF Init, FreshCopies, SectionsMatchWork, AbsenceIsReal
  <2> QED
    BY <2>1, <2>2 DEF Inv
<1>2. Inv /\ [Next]_vars => Inv'
  <2> SUFFICES ASSUME Inv, [Next]_vars PROVE Inv'
    OBVIOUS
  <2>1. CASE UNCHANGED vars
    BY <2>1 DEF vars, Inv, Types, FreshCopies, SectionsMatchWork, AbsenceIsReal
  <2>2. ASSUME NEW p \in Processes, CallStep(p) PROVE Inv'
    BY <2>2, CallsKeep
  <2>3. ASSUME NEW p \in Processes, SectionStep(p) PROVE Inv'
    BY <2>3, SectionsKeep
  <2>4. ASSUME NEW p \in Processes, WorkerStep(p) PROVE Inv'
    BY <2>4, WorkersKeep
  <2>5. ASSUME NEW p \in Processes, Interrupt(p) \/ Renew(p) \/ StorageFails(p) \/ Crash(p)
        PROVE  Inv'
    BY <2>5, ProcessesKeep
  <2>6. CASE Land \/ DueArrives \/ LeaseLapses \/ Prune
    BY <2>6, OthersKeep
  <2> QED
    BY <2>1, <2>2, <2>3, <2>4, <2>5, <2>6 DEF Next
<1> QED
  BY <1>1, <1>2, PTL DEF Spec

\* Every variable has its type and a lease belongs to a running row, under any
\* interleaving, storage failure and death of processes.
THEOREM TypesHold == Spec => []TypeOK
<1>1. Inv => TypeOK
  BY DEF Inv, Types, Row, TypeOK, Sections, Works
<1> QED
  BY <1>1, SpecInv, PTL

\* "Cleanup completion requires observed absence": no row says completed while
\* the chat is still there, whichever process or late worker wrote it.
THEOREM CompletionIsAbsence == Spec => []CompletedIsAbsent
<1>1. Inv => CompletedIsAbsent
  BY DEF Inv, AbsenceIsReal, CompletedIsAbsent
<1> QED
  BY <1>1, SpecInv, PTL

-----------------------------------------------------------------------------
\* The refinement of Disposal: a worker's move is its role's move ...
LEMMA RoleMoves ==
  ASSUME Inv, NEW p \in Processes, NEW w, Working(p, w)
  PROVE  Roles' = [Roles EXCEPT ![p] = Role(w)]
  BY DEF Inv, Types, Working, Roles, Role

\* ... and roles stay while workers do.
LEMMA RolesStay ==
  ASSUME UNCHANGED work
  PROVE  UNCHANGED Roles
  BY DEF Roles

\* Initial states are initial states, and each step is one of Disposal's or
\* changes nothing Disposal speaks of.
LEMMA InitKept == Init => Promised!Init
  BY NoJobRow DEF Init, Promised!Init, Life, Roles, Role, Active

LEMMA CallsKept ==
  ASSUME Inv, NEW p \in Processes, CallStep(p)
  PROVE  [Promised!Next]_(Promised!dvars)
<1> USE DEF Promised!dvars, Ready, Enter, Adopt, remote, Exists
<1>1. CASE Bind(p)
  BY <1>1, RolesStay DEF Bind, Life
<1>2. CASE Schedule(p)
  <2>1. Promised!Register
    BY <1>2, RolesStay, NoJobRow, NewRow DEF Schedule, Write, Promised!Register, Life, Active
  <2> QED
    BY <2>1 DEF Promised!Next
<1>3. CASE Reschedule(p)
  BY <1>3, RolesStay DEF Reschedule, Life
<1>4. CASE Retain(p)
  BY <1>4, RolesStay DEF Retain, Life
<1>5. CASE Cancel(p)
  BY <1>5, RolesStay DEF Cancel, Life
<1>6. CASE Invalidate(p)
  BY <1>6, RolesStay DEF Invalidate, Life
<1>7. CASE Refresh(p)
  BY <1>7, RolesStay DEF Refresh, Life
<1>8. CASE ClaimDue(p)
  BY <1>8, RolesStay DEF ClaimDue, SettleOrAdopt, Life
<1>9. CASE ClaimNow(p)
  BY <1>9, RolesStay DEF ClaimNow, SettleOrAdopt, Life
<1>10. CASE ClaimNew(p)
  <2>1. Promised!Register
    BY <1>10, RolesStay, NoJobRow, NewRow DEF ClaimNew, Promised!Register, Life, Active
  <2> QED
    BY <2>1 DEF Promised!Next
<1> QED
  BY <1>1, <1>2, <1>3, <1>4, <1>5, <1>6, <1>7, <1>8, <1>9, <1>10 DEF CallStep

LEMMA SectionsKept ==
  ASSUME Inv, NEW p \in Processes, SectionStep(p)
  PROVE  [Promised!Next]_(Promised!dvars)
<1>types. Types /\ Row(job)
  BY DEF Inv, Types
<1> USE DEF Promised!dvars, remote
<1>1. CASE Hasten(p)
  <2>1. p \in fresh => job.state \in {"pending", "failed"}
    BY <1>1 DEF Hasten, Inv, FreshCopies
  <2> QED
    BY <1>1, <1>types, <2>1, RolesStay, DueRow DEF Hasten, Commit, Write, Adopt, Life
<1>2. CASE RetainWrite(p)
  <2>1. CASE p \in fresh /\ section[p] = "retaining"
    <3>1. job.state \in Active \cup {"cancelled", "retained"}
      BY <2>1 DEF Inv, FreshCopies
    <3>2. job # NoJob
      BY <3>1, NoJobRow DEF Active
    <3>3. Life' = "retained" /\ job'.lease = None
      BY <1>2, <1>types, <2>1, <3>2, IdleRows DEF RetainWrite, Life, Active
    <3>4. CASE job.state = "retained"
      BY <1>2, <1>types, <3>3, <3>4, RolesStay DEF RetainWrite, Life, Active, Row
    <3>5. CASE job.state # "retained"
      <4>1. Life \in {"open", "cancelled"}
        BY <3>1, <3>5 DEF Life, Active
      <4>2. Promised!Withdraw(p)
        BY <1>2, <3>3, <4>1, RolesStay DEF RetainWrite, Promised!Withdraw
      <4> QED
        BY <4>2 DEF Promised!Next
    <3> QED
      BY <3>4, <3>5
  <2>2. CASE p \in fresh /\ section[p] = "marking"
    <3>1. job.state = "running" /\ job # NoJob
      BY <2>2, NoJobRow DEF Inv, FreshCopies
    <3>2. job'.state = job.state /\ job'.lease = job.lease
      BY <1>2, <1>types, <2>2, <3>1, SameStateRows DEF RetainWrite
    <3> QED
      BY <1>2, <3>2, RolesStay DEF RetainWrite, Life
  <2>3. CASE p \notin fresh
    BY <1>2, <2>3, RolesStay DEF RetainWrite, Life
  <2> QED
    BY <1>2, <2>1, <2>2, <2>3 DEF RetainWrite
<1>3. CASE CancelWrite(p)
  <2>1. CASE p \in fresh
    <3>1. job.state \in Active /\ job # NoJob
      BY <1>3, <2>1, NoJobRow DEF CancelWrite, Inv, FreshCopies, Active
    <3>2. Life = "open" /\ Life' = "cancelled" /\ job'.lease = None
      BY <1>3, <1>types, <2>1, <3>1, IdleRows DEF CancelWrite, Commit, Write, Life, Active
    <3>3. Promised!Withdraw(p)
      BY <1>3, <3>2, RolesStay DEF CancelWrite, Promised!Withdraw
    <3> QED
      BY <3>3 DEF Promised!Next
  <2>2. CASE p \notin fresh
    BY <1>3, <2>2, RolesStay DEF CancelWrite, Commit, Adopt, Life
  <2> QED
    BY <2>1, <2>2
<1>4. CASE InvalidateWrite(p)
  <2>1. Promised!Becomes(p, "idle")
    BY <1>4, RoleMoves DEF InvalidateWrite, Promised!Becomes, Role
  <2>2. Roles[p] = Role(work[p])
    BY DEF Roles
  <2>3. sent' \in {sent, sent \/ Roles[p] = "asking"}
    <3>1. CASE work[p] = "cleared"
      <4>1. Roles[p] = "asking"
        BY <2>2, <3>1 DEF Role, Answered
      <4> QED
        BY <1>4, <3>1, <4>1, Zenon DEF InvalidateWrite
    <3>2. CASE work[p] # "cleared"
      <4>1. sent' = sent
        BY <1>4, <1>types, <3>2, Zenon DEF InvalidateWrite, Types
      <4> QED
        BY <4>1, Zenon
    <3> QED
      BY <3>1, <3>2
  <2>4. CASE p \in fresh /\ job.state \in Active
    <3>1. job # NoJob
      BY <2>4, NoJobRow DEF Active
    <3>2. Life = "open" /\ Life' = "cancelled" /\ job'.lease = None
      BY <1>4, <1>types, <2>4, <3>1, IdleRows DEF InvalidateWrite, Life, Active
    <3>3. UNCHANGED (chat = "gone")
      BY <1>4 DEF InvalidateWrite
    <3>4. Promised!Withdraw(p)
      BY <2>1, <2>3, <3>2, <3>3, Zenon DEF Promised!Withdraw
    <3> QED
      BY <3>4 DEF Promised!Next
  <2>5. CASE ~(p \in fresh /\ job.state \in Active)
    <3>1. UNCHANGED <<Life, job.lease, chat = "gone">>
      BY <1>4, <2>5 DEF InvalidateWrite, Life
    <3>2. CASE work[p] = "none"
      <4>1. UNCHANGED work
        BY <1>4, <1>types, <3>2 DEF InvalidateWrite, Working, Types
      <4>2. UNCHANGED sent
        BY <1>4, <1>types, <3>2, Zenon DEF InvalidateWrite, Types
      <4> QED
        BY <3>1, <4>1, <4>2, RolesStay
    <3>3. CASE work[p] # "none"
      <4>1. Roles[p] # "idle"
        BY <2>2, <3>3 DEF Role
      <4>2. Promised!Abandon(p)
        BY <2>1, <2>3, <3>1, <4>1, Zenon DEF Promised!Abandon
      <4> QED
        BY <4>2 DEF Promised!Next
    <3> QED
      BY <3>2, <3>3
  <2> QED
    BY <2>4, <2>5
<1>5. CASE Settle(p)
  <2>1. CASE p \in fresh
    <3>1. job.state = "running" /\ job # NoJob
      BY <1>5, <2>1, NoJobRow DEF Settle, Inv, FreshCopies
    <3>2. Life = "open" /\ Life' = "retained" /\ job'.lease = None
      BY <1>5, <1>types, <2>1, <3>1, IdleRows DEF Settle, Commit, Write, Life, Active
    <3>3. Promised!Withdraw(p)
      BY <1>5, <3>2, RolesStay DEF Settle, Promised!Withdraw
    <3> QED
      BY <3>3 DEF Promised!Next
  <2>2. CASE p \notin fresh
    BY <1>5, <2>2, RolesStay DEF Settle, Commit, Adopt, Life
  <2> QED
    BY <2>1, <2>2
<1>6. CASE Advance(p)
  <2>1. p \in fresh => job.state \in {"pending", "failed"}
    BY <1>6 DEF Advance, Inv, FreshCopies
  <2> QED
    BY <1>6, <1>types, <2>1, RolesStay, DueRow DEF Advance, Life
<1>7. CASE Claim(p)
  <2>1. CASE p \in fresh /\ Eligible
    <3>1. job.state \in Active /\ job # NoJob
      BY <2>1, NoJobRow DEF Eligible, Active
    <3>2. Life = "open" /\ Life' = "open" /\ job'.lease = p
      BY <1>7, <1>types, <2>1, <3>1, ClaimedRow DEF Claim, Write, Life, Active
    <3>3. Roles[p] = "idle"
      BY <1>7 DEF Claim, Inv, SectionsMatchWork, Roles, Role
    <3>4. Promised!Becomes(p, "asking")
      BY <1>7, <2>1, RoleMoves DEF Claim, Promised!Becomes, Role, Answered
    <3>5. Promised!Take(p)
      BY <1>7, <3>2, <3>3, <3>4 DEF Claim, Promised!Take
    <3> QED
      BY <3>5 DEF Promised!Next
  <2>2. CASE ~(p \in fresh /\ Eligible)
    BY <1>7, <2>2, RolesStay DEF Claim, Adopt, Life
  <2> QED
    BY <2>1, <2>2
<1>8. CASE FinishWrite(p)
  <2>1. Promised!Becomes(p, "idle")
    BY <1>8, RoleMoves DEF FinishWrite, Promised!Becomes, Role
  <2>2. work[p] \in Answered
    BY <1>8 DEF FinishWrite, Inv, SectionsMatchWork, Answered
  <2>3. Roles[p] = "answered"
    BY <2>2 DEF Roles, Role, Answered
  <2>4. CASE Holds(p)
    <3>1. job # NoJob /\ Life = "open" /\ job.lease = p
      BY <2>4, NoJobRow DEF Holds, Life, Active
    <3>2. job' = Result(section[p]) /\ section[p] \in {"completing", "retiring", "failing"}
      BY <1>8, <2>4 DEF FinishWrite, MayFinish, Write
    <3>3. /\ job'.lease = None
          /\ (Life' = "completed" /\ section[p] = "completing") \/ Life' \in {"open", "retained"}
      BY <1>types, <3>1, <3>2, IdleRows DEF Life, Active
    <3>4. section[p] = "completing" => chat = "gone"
      BY DEF Inv, SectionsMatchWork, AbsenceIsReal
    <3>5. Promised!Settle(p)
      BY <1>8, <2>1, <2>3, <3>1, <3>3, <3>4 DEF FinishWrite, Promised!Settle
    <3> QED
      BY <3>5 DEF Promised!Next
  <2>5. CASE ~Holds(p)
    <3>1. Promised!Abandon(p)
      BY <1>8, <2>1, <2>3, <2>5 DEF FinishWrite, MayFinish, Adopt, Promised!Abandon, Life
    <3> QED
      BY <3>1 DEF Promised!Next
  <2> QED
    BY <2>4, <2>5
<1> QED
  BY <1>1, <1>2, <1>3, <1>4, <1>5, <1>6, <1>7, <1>8 DEF SectionStep

LEMMA WorkersKept ==
  ASSUME Inv, NEW p \in Processes, WorkerStep(p)
  PROVE  [Promised!Next]_(Promised!dvars)
<1>1. work \in [Processes -> Works] /\ Roles[p] = Role(work[p])
  BY DEF Inv, Types, Roles
<1> USE DEF Promised!dvars, remote
\* A worker that stays at its questions is no news to Disposal.
<1>2. ASSUME NEW w \in Asking, work[p] \in Asking, Working(p, w) PROVE UNCHANGED Roles
  <2>1. Roles[p] = "asking" /\ Roles' = [Roles EXCEPT ![p] = "asking"]
    BY <1>1, <1>2, RoleMoves DEF Role, Asking, Answered
  <2> QED
    BY <2>1 DEF Roles
<1>3. ASSUME work[p] \in Asking, Working(p, "none"), UNCHANGED <<job, chat, sent>>
      PROVE  Promised!Abandon(p)
  BY <1>1, <1>3, RoleMoves DEF Promised!Abandon, Promised!Becomes, Role, Asking, Answered, Life
<1>4. ASSUME NEW w \in Answered, work[p] \in Asking, Working(p, w), UNCHANGED <<job, chat, sent>>
      PROVE  Promised!Hear(p)
  BY <1>1, <1>4, RoleMoves DEF Promised!Hear, Promised!Becomes, Role, Asking, Answered, Life
<1>5. CASE Begin(p)
  BY <1>2, <1>3, <1>5 DEF Begin, GiveUp, Adopt, Promised!Next, Asking, Life
<1>6. CASE Look(p)
  BY <1>2, <1>4, <1>6 DEF Look, Promised!Next, Asking, Answered, Life
<1>7. CASE Recheck(p)
  BY <1>2, <1>3, <1>7 DEF Recheck, GiveUp, Adopt, Promised!Next, Asking, Life
<1>8. CASE Send(p)
  <2>1. Roles[p] = "asking" /\ UNCHANGED Roles
    BY <1>1, <1>2, <1>8 DEF Send, Role, Asking, Answered
  <2>2. Promised!Ask(p)
    BY <1>8, <2>1 DEF Send, Promised!Ask, Life
  <2> QED
    BY <2>2 DEF Promised!Next
<1>9. CASE Answer(p)
  BY <1>4, <1>9 DEF Answer, Promised!Next, Asking, Answered
<1>10. CASE Raise(p)
  BY <1>4, <1>10 DEF Raise, Promised!Next, Answered
<1>11. CASE Finish(p)
  BY <1>11, RolesStay DEF Finish, Life
<1> QED
  BY <1>5, <1>6, <1>7, <1>8, <1>9, <1>10, <1>11 DEF WorkerStep

LEMMA ProcessesKept ==
  ASSUME Inv, NEW p \in Processes,
         Interrupt(p) \/ Renew(p) \/ StorageFails(p) \/ Crash(p)
  PROVE  [Promised!Next]_(Promised!dvars)
<1>1. work \in [Processes -> Works] /\ Roles[p] = Role(work[p]) /\ Row(job)
  BY DEF Inv, Types, Roles
<1> USE DEF Promised!dvars, remote
<1>2. ASSUME Working(p, "none"), UNCHANGED <<job, chat, sent>>
      PROVE  [Promised!Next]_(Promised!dvars)
  <2>1. CASE work[p] = "none"
    <3>1. UNCHANGED work
      BY <1>1, <1>2, <2>1 DEF Working
    <3> QED
      BY <1>2, <3>1, RolesStay DEF Life
  <2>2. CASE work[p] # "none"
    <3>1. Roles[p] # "idle" /\ Promised!Becomes(p, "idle")
      BY <1>1, <1>2, <2>2, RoleMoves DEF Role, Promised!Becomes
    <3>2. Promised!Abandon(p)
      BY <1>2, <3>1 DEF Promised!Abandon, Life
    <3> QED
      BY <3>2 DEF Promised!Next
  <2> QED
    BY <2>1, <2>2
<1>3. CASE Interrupt(p)
  <2>1. Promised!Hear(p)
    BY <1>1, <1>3, RoleMoves
    DEF Interrupt, Promised!Hear, Promised!Becomes, Role, Asking, Answered, Life
  <2> QED
    BY <2>1 DEF Promised!Next
<1>4. CASE Renew(p)
  <2>1. job # NoJob
    BY <1>4, NoJobRow DEF Renew, Holds
  <2>2. job'.state = job.state /\ job'.lease = job.lease
    BY <1>1, <1>4, <2>1, SameStateRows DEF Renew
  <2> QED
    BY <1>4, <2>2, RolesStay DEF Renew, Life
<1>5. CASE StorageFails(p)
  <2>1. Working(p, "none") \/ UNCHANGED work
    BY <1>5 DEF StorageFails, Working
  <2> QED
    BY <1>2, <1>5, <2>1, RolesStay DEF StorageFails, Life
<1>6. CASE Crash(p)
  BY <1>2, <1>6 DEF Crash
<1> QED
  BY <1>3, <1>4, <1>5, <1>6

LEMMA OthersKept ==
  ASSUME Inv, Land \/ DueArrives \/ LeaseLapses \/ Prune
  PROVE  [Promised!Next]_(Promised!dvars)
<1>1. Row(job)
  BY DEF Inv, Types
<1> USE DEF Promised!dvars, remote
<1>2. CASE Land
  <2>1. Promised!Arrive
    BY <1>2, RolesStay DEF Land, Promised!Arrive, Life
  <2> QED
    BY <2>1 DEF Promised!Next
<1>3. CASE DueArrives
  BY <1>1, <1>3, DueRow, RolesStay DEF DueArrives, Life
<1>4. CASE LeaseLapses
  <2>1. job # NoJob
    BY <1>4, NoJobRow DEF LeaseLapses
  <2>2. job'.state = job.state /\ job'.lease = job.lease
    BY <1>1, <1>4, <2>1, SameStateRows DEF LeaseLapses
  <2> QED
    BY <1>4, <2>2, RolesStay DEF LeaseLapses, Life
<1>5. CASE Prune
  <2>1. Life \in {"completed", "cancelled", "retained"} /\ Life' = "none"
    BY <1>5, NoJobRow DEF Prune, Terminal, Life, Active
  <2>2. job.lease = None /\ job'.lease = None
    BY <1>1, <1>5, NoJobRow DEF Prune, Row, Terminal
  <2>3. Promised!Forget
    BY <1>5, <2>1, <2>2, RolesStay DEF Prune, Promised!Forget
  <2> QED
    BY <2>3 DEF Promised!Next
<1> QED
  BY <1>2, <1>3, <1>4, <1>5

\* CleanupJobs implements Disposal: only the holder's report settles a job, a
\* decided job is not reopened, and nothing is completed before it is gone.
THEOREM PromiseKept == Spec => KeepsPromise
<1>1. Inv /\ [Next]_vars => [Promised!Next]_(Promised!dvars)
  <2> SUFFICES ASSUME Inv, [Next]_vars PROVE [Promised!Next]_(Promised!dvars)
    OBVIOUS
  <2>1. CASE UNCHANGED vars
    BY <2>1, RolesStay DEF vars, Promised!dvars, Life
  <2>2. ASSUME NEW p \in Processes, CallStep(p) PROVE [Promised!Next]_(Promised!dvars)
    BY <2>2, CallsKept
  <2>3. ASSUME NEW p \in Processes, SectionStep(p) PROVE [Promised!Next]_(Promised!dvars)
    BY <2>3, SectionsKept
  <2>4. ASSUME NEW p \in Processes, WorkerStep(p) PROVE [Promised!Next]_(Promised!dvars)
    BY <2>4, WorkersKept
  <2>5. ASSUME NEW p \in Processes, Interrupt(p) \/ Renew(p) \/ StorageFails(p) \/ Crash(p)
        PROVE  [Promised!Next]_(Promised!dvars)
    BY <2>5, ProcessesKept
  <2>6. CASE Land \/ DueArrives \/ LeaseLapses \/ Prune
    BY <2>6, OthersKept
  <2> QED
    BY <2>1, <2>2, <2>3, <2>4, <2>5, <2>6 DEF Next
<1> QED
  BY <1>1, InitKept, SpecInv, PTL DEF Spec, KeepsPromise, Promised!Spec

-----------------------------------------------------------------------------
\* With timely heartbeats: a worker has the running row and its live lease
\* unless the job was withdrawn from it, and there is one worker at most.
WorkersHold ==
    /\ \A p \in Processes :
         work[p] # "none" => job.state \in Terminal \/ (Holds(p) /\ job.live)
    /\ \A p, q \in Processes : work[p] # "none" /\ work[q] # "none" => p = q

\* Every step keeps that: a claim needs a row that is nobody's, or whose lease
\* lapsed, and while leases are renewed neither has a worker.
LEMMA WorkersHoldStep ==
  ASSUME Timely, Inv, WorkersHold, [Next]_vars
  PROVE  WorkersHold'
<1>types. Types /\ Row(job)
  BY DEF Inv, Types
<1> USE DEF WorkersHold, Holds
<1>same. ASSUME NEW p \in Processes,
                UNCHANGED <<job.state, job.lease, job.live>>,
                UNCHANGED work \/ Working(p, "none")
                  \/ (work[p] # "none" /\ \E w \in Works : Working(p, w))
         PROVE  WorkersHold'
  BY <1>types, <1>same DEF Working, Types
<1>idle. ASSUME job.state \in {"none", "pending", "failed"},
                NEW p \in Processes, UNCHANGED work \/ Working(p, "none")
         PROVE  WorkersHold'
  BY <1>types, <1>idle DEF Working, Types, Terminal
<1>over. ASSUME job'.state \in Terminal, NEW p \in Processes, UNCHANGED work \/ Working(p, "none")
         PROVE  WorkersHold'
  BY <1>types, <1>over DEF Working, Types
<1>1. CASE UNCHANGED vars
  BY <1>1 DEF vars
<1>2. ASSUME NEW p \in Processes, CallStep(p) PROVE WorkersHold'
  <2> USE DEF Adopt, Enter, Ready, remote, SettleOrAdopt, Exists
  <2>1. CASE Schedule(p) \/ ClaimNew(p)
    BY <1>idle, <2>1, NoJobRow DEF Schedule, ClaimNew
  <2>2. CASE ~(Schedule(p) \/ ClaimNew(p))
    <3>1. UNCHANGED <<job, work>>
      BY <1>2, <2>2 DEF CallStep, Bind, Reschedule, Retain, Cancel, Invalidate, Refresh, ClaimDue, ClaimNow
    <3> QED
      BY <3>1
  <2> QED
    BY <2>1, <2>2
<1>3. ASSUME NEW p \in Processes, SectionStep(p) PROVE WorkersHold'
  <2>1. CASE job' = job /\ (UNCHANGED work \/ Working(p, "none"))
    BY <1>same, <2>1
  <2>2. CASE Hasten(p) \/ Advance(p)
    <3>1. p \in fresh => job.state \in {"pending", "failed"}
      BY <2>2 DEF Hasten, Advance, Inv, FreshCopies
    <3>2. job' = job \/ job.state \in {"pending", "failed"}
      BY <2>2, <3>1 DEF Hasten, Advance, Commit, Write, Adopt
    <3>3. UNCHANGED work
      BY <2>2 DEF Hasten, Advance
    <3> QED
      BY <1>idle, <2>1, <3>2, <3>3
  <2>3. CASE RetainWrite(p)
    <3>1. CASE p \notin fresh
      BY <2>1, <2>3, <3>1 DEF RetainWrite
    <3>2. CASE p \in fresh /\ section[p] = "marking"
      <4>1. job \in Jobs
        BY <1>types, <3>2, NoJobRow DEF Inv, FreshCopies, Row
      <4>2. UNCHANGED <<job.state, job.lease, job.live, work>>
        BY <2>3, <3>2, <4>1 DEF RetainWrite, Jobs
      <4> QED
        BY <1>same, <4>2
    <3>3. CASE p \in fresh /\ section[p] = "retaining"
      <4>1. job # NoJob
        BY <3>3, NoJobRow DEF Inv, FreshCopies, Active
      <4>2. job'.state = "retained"
        BY <1>types, <2>3, <3>3, <4>1, IdleRows DEF RetainWrite
      <4> QED
        BY <1>over, <2>3, <4>2 DEF RetainWrite, Terminal
    <3> QED
      BY <2>3, <3>1, <3>2, <3>3 DEF RetainWrite
  <2>4. CASE CancelWrite(p) \/ Settle(p)
    <3>1. CASE p \in fresh
      <4>1. job # NoJob
        BY <2>4, <3>1, NoJobRow DEF CancelWrite, Settle, Inv, FreshCopies, Active
      <4>2. job'.state \in {"cancelled", "retained"}
        BY <1>types, <2>4, <3>1, <4>1, IdleRows DEF CancelWrite, Settle, Commit, Write
      <4> QED
        BY <1>over, <2>4, <4>2 DEF CancelWrite, Settle, Terminal
    <3>2. CASE p \notin fresh
      BY <2>1, <2>4, <3>2 DEF CancelWrite, Settle, Commit, Adopt
    <3> QED
      BY <3>1, <3>2
  <2>5. CASE InvalidateWrite(p)
    <3>1. CASE p \in fresh /\ job.state \in Active
      <4>1. job'.state = "cancelled"
        BY <1>types, <2>5, <3>1, NoJobRow, IdleRows DEF InvalidateWrite, Active
      <4> QED
        BY <1>over, <2>5, <4>1 DEF InvalidateWrite, Terminal
    <3>2. CASE ~(p \in fresh /\ job.state \in Active)
      BY <2>1, <2>5, <3>2 DEF InvalidateWrite
    <3> QED
      BY <3>1, <3>2
  <2>6. CASE Claim(p)
    <3>1. CASE p \in fresh /\ Eligible
      <4>1. \A q \in Processes : work[q] = "none"
        BY <3>1 DEF Eligible, Terminal
      <4>2. job # NoJob
        BY <3>1, NoJobRow DEF Eligible
      <4>3. job'.state = "running" /\ job'.lease = p /\ job'.live
        BY <1>types, <2>6, <3>1, <4>2, JobFields DEF Claim, Write, ClaimedBy, Jobs
      <4>4. \A q \in Processes : work'[q] # "none" => q = p
        BY <1>types, <2>6, <3>1, <4>1 DEF Claim, Working, Types
      <4> QED
        BY <4>3, <4>4
    <3>2. CASE ~(p \in fresh /\ Eligible)
      BY <2>1, <2>6, <3>2 DEF Claim, Adopt
    <3> QED
      BY <3>1, <3>2
  <2>7. CASE FinishWrite(p)
    <3>1. CASE Holds(p)
      <4>1. \A q \in Processes : q # p => work[q] = "none"
        BY <3>1 DEF Terminal
      <4> QED
        BY <1>types, <2>7, <4>1 DEF FinishWrite, Working, Types
    <3>2. CASE ~Holds(p)
      BY <2>1, <2>7, <3>2 DEF FinishWrite, MayFinish, Adopt
    <3> QED
      BY <3>1, <3>2
  <2> QED
    BY <1>3, <2>2, <2>3, <2>4, <2>5, <2>6, <2>7 DEF SectionStep
<1>4. ASSUME NEW p \in Processes, WorkerStep(p) PROVE WorkersHold'
  <2>1. job' = job
    BY <1>4 DEF WorkerStep, Begin, Look, Recheck, Send, Answer, Raise, Finish, GiveUp, Adopt, remote
  <2>2. UNCHANGED work \/ Working(p, "none")
          \/ (work[p] # "none" /\ \E w \in Works : Working(p, w))
    BY <1>4 DEF WorkerStep, Begin, Look, Recheck, Send, Answer, Raise, Finish, GiveUp,
                Works, Asking, Answered
  <2> QED
    BY <1>same, <2>1, <2>2
<1>5. ASSUME NEW p \in Processes, Interrupt(p) \/ StorageFails(p) \/ Crash(p) PROVE WorkersHold'
  <2>1. job' = job
    BY <1>5 DEF Interrupt, StorageFails, Crash, remote
  <2>2. UNCHANGED work \/ Working(p, "none")
          \/ (work[p] # "none" /\ \E w \in Works : Working(p, w))
    BY <1>5 DEF Interrupt, StorageFails, Crash, Works, Working, Asking, Answered
  <2> QED
    BY <1>same, <2>1, <2>2
<1>6. ASSUME NEW p \in Processes, Renew(p) PROVE WorkersHold'
  <2>1. job \in Jobs
    BY <1>types, <1>6, NoJobRow DEF Renew, Row
  <2>2. job'.state = job.state /\ job'.lease = job.lease /\ job'.live
    BY <1>6, <2>1 DEF Renew, Jobs
  <2> QED
    BY <1>6, <2>2 DEF Renew
<1>7. CASE Land \/ DueArrives \/ Prune
  BY <1>7, <1>idle DEF Land, DueArrives, Prune
<1>8. CASE LeaseLapses
  <2>1. \A p \in Processes : work[p] = "none"
    BY <1>8 DEF LeaseLapses, Terminal
  <2> QED
    BY <1>8, <2>1 DEF LeaseLapses
<1> QED
  BY <1>1, <1>2, <1>3, <1>4, <1>5, <1>6, <1>7, <1>8 DEF Next

LEMMA TimelyInvariant ==
  ASSUME Timely
  PROVE  Spec => [](Inv /\ WorkersHold)
<1>1. Init => WorkersHold
  BY DEF Init, WorkersHold
<1>2. Inv /\ WorkersHold /\ [Next]_vars => WorkersHold'
  BY WorkersHoldStep
<1> QED
  BY <1>1, <1>2, SpecInv, PTL DEF Spec

\* "Renewable leases allow one process to execute": while running workers keep
\* their leases, two are never both past the last check of their claim.
THEOREM DeletionIsExclusive ==
  ASSUME Timely
  PROVE  Spec => []OneDeleter
<1>1. Inv /\ WorkersHold => OneDeleter
  BY DEF WorkersHold, OneDeleter, Holds
<1> QED
  BY <1>1, TimelyInvariant, PTL

\* A job becomes retained only when no worker of any process is about to send
\* its delete request or waits for its answer, while leases are renewed.
THEOREM RetainingIsQuiet ==
  ASSUME Timely
  PROVE  Spec => RetainedIsQuiet
<1>1. Inv /\ WorkersHold /\ [Next]_vars => [RetainsQuietly]_vars
  <2> SUFFICES ASSUME Inv, WorkersHold, [Next]_vars,
                      job.state \in Active, job'.state = "retained", NEW q \in Processes
               PROVE  work'[q] \notin {"cleared", "sent"}
    BY DEF RetainsQuietly
  <2>types. Types /\ Row(job) /\ job \in Jobs /\ job # NoJob
    BY NoJobRow, JobFields DEF Inv, Types, Active
  <2>quiet. ASSUME ~(job.state = "running" /\ job.live), UNCHANGED work
            PROVE  work'[q] = "none"
    BY <2>quiet DEF WorkersHold, Holds, Active, Terminal
  <2>1. job' # job
    BY DEF Active
  <2>2. ASSUME NEW p \in Processes, CallStep(p) PROVE FALSE
    BY <2>1, <2>2, <2>types, NewRow
    DEF CallStep, Bind, Schedule, Reschedule, Retain, Cancel, Invalidate, Refresh, ClaimDue,
        ClaimNow, ClaimNew, SettleOrAdopt, Write, Adopt, Enter, Exists
  <2>3. ASSUME NEW p \in Processes, SectionStep(p) PROVE work'[q] \notin {"cleared", "sent"}
    <3>1. CASE Hasten(p) \/ Advance(p) \/ CancelWrite(p) \/ InvalidateWrite(p) \/ Claim(p)
      <4>1. Due.state = job.state /\ Cancelled.state = "cancelled" /\ ClaimedBy(p).state = "running"
        BY <2>types, IdleRows, ClaimedRow, SameStateRows
      <4> QED
        BY <2>1, <3>1, <4>1
        DEF Hasten, Advance, CancelWrite, InvalidateWrite, Claim, Commit, Write, Adopt, Active
    <3>2. CASE RetainWrite(p)
      <4>1. p \in fresh
        BY <2>1, <3>2 DEF RetainWrite
      <4>2. section[p] = "marking" => job'.state = job.state
        BY <2>types, <3>2, <4>1 DEF RetainWrite, Jobs
      <4>3. ~(job.state = "running" /\ job.live)
        BY <3>2, <4>1, <4>2 DEF RetainWrite, Inv, FreshCopies, Active
      <4> QED
        BY <2>quiet, <3>2, <4>3 DEF RetainWrite
    <3>3. CASE Settle(p)
      <4>1. p \in fresh
        BY <2>1, <3>3 DEF Settle, Commit, Adopt
      <4>2. ~(job.state = "running" /\ job.live)
        BY <3>3, <4>1 DEF Settle, Inv, FreshCopies
      <4> QED
        BY <2>quiet, <3>3, <4>2 DEF Settle
    <3>4. CASE FinishWrite(p)
      <4>1. work[p] # "none"
        BY <3>4 DEF FinishWrite, Inv, SectionsMatchWork
      <4>2. work'[p] = "none" /\ (q # p => work'[q] = work[q] /\ work[q] = "none")
        BY <2>types, <3>4, <4>1 DEF FinishWrite, Working, Types, WorkersHold
      <4> QED
        BY <4>2
    <3> QED
      BY <2>3, <3>1, <3>2, <3>3, <3>4 DEF SectionStep
  <2>4. ASSUME NEW p \in Processes, WorkerStep(p) PROVE FALSE
    BY <2>1, <2>4
    DEF WorkerStep, Begin, Look, Recheck, Send, Answer, Raise, Finish, GiveUp, Adopt, remote
  <2>5. ASSUME NEW p \in Processes, Interrupt(p) \/ StorageFails(p) \/ Crash(p) PROVE FALSE
    BY <2>1, <2>5 DEF Interrupt, StorageFails, Crash, remote
  <2>6. ASSUME NEW p \in Processes, Renew(p) PROVE FALSE
    BY <2>6, <2>types DEF Renew, Jobs, Active
  <2>7. CASE Land \/ DueArrives \/ LeaseLapses \/ Prune
    BY <2>1, <2>7, <2>types, NoJobRow DEF Land, DueArrives, Due, LeaseLapses, Prune, Jobs, Active
  <2> QED
    BY <2>1, <2>2, <2>3, <2>4, <2>5, <2>6, <2>7 DEF Next, vars
<1> QED
  BY <1>1, TimelyInvariant, PTL DEF Spec, RetainedIsQuiet

=============================================================================
