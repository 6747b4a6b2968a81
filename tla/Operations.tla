---------------------------- MODULE Operations ----------------------------
(***************************************************************************)
(* Durable long operations (Deep Research, video, music): the SQLite table *)
(* `operations` of infrastructure/state_store.py and the service that     *)
(* drives it, services/operations.py.  Every repository call is one        *)
(* BEGIN IMMEDIATE transaction, so one call is one step; what the service  *)
(* does between two calls may interleave with every other client process. *)
(*                                                                         *)
(* The module follows one idempotency key.  UNIQUE(scope_id,               *)
(* idempotency_key) keeps at most one row for it; `row` is that row, and   *)
(* row.id tells the operation it belongs to from the one a later start     *)
(* creates once the row has been pruned.                                   *)
(***************************************************************************)
EXTENDS Naturals, FiniteSets

CONSTANTS
    Starters,      \* calls of OperationService.start (each may own a worker)
    Compat,        \* the starters that call reserve / execution directly
    Readers,       \* calls of status / result (each may own a recovery)
    Cancellers,    \* calls of cancel
    Observers,     \* SDK metadata callbacks: observe_chat_sync and provider
    Chats,         \* source chat identifiers the provider may report
    Artifacts,     \* artifact identifiers
    ResultStates,  \* operation states a runner or a recovery may report
    Lease,         \* LEASE_SECONDS, in ticks
    Retention,     \* RETENTION_SECONDS, in ticks
    Attempts,      \* CAS attempts of an observer (8 in the code)
    Timely,        \* TRUE: a live heartbeat renews before its lease lapses
    MaxOps,        \* bound: operations created for the key
    MaxClock,      \* bound: the clock
    None           \* SQL NULL

Workers == Starters \cup Readers
Actors  == Workers \cup Cancellers \cup Observers

States == {"accepted", "queued", "running", "completed", "partial",
           "timed_out", "cancel_requested", "cancelled", "expired",
           "failed", "unavailable"}
Terminal == {"completed", "cancelled", "expired"}
\* States a cancel_requested row may still move to.
CancelExits == {"cancel_requested", "cancelled", "completed", "partial",
                "failed", "timed_out"}
Evidence == {"not_observed", "local_cancelled_before_start",
             "provider_cancelled", "cancellation_requested", "reported"}

ASSUME ConstantsAssumption ==
    /\ Lease \in Nat \ {0} /\ Retention \in Nat \ {0}
    /\ Attempts \in Nat \ {0} /\ MaxOps \in Nat /\ MaxClock \in Nat
    /\ Timely \in BOOLEAN
    /\ ResultStates \subseteq States \ {"accepted", "cancel_requested", "expired"}

ASSUME ActorsAssumption ==
    /\ Starters \cap Readers = {} /\ Compat \subseteq Starters
    /\ Workers \cap (Cancellers \cup Observers) = {}
    /\ Cancellers \cap Observers = {}
    /\ None \notin Actors \cup Chats

\* What the row knows of an artifact: no locator, a remote-only locator, a
\* local path whose verification failed, or a verified local file.
Locators == [Artifacts -> {"none", "remote", "local", "verified"}]
NoLocators == [x \in Artifacts |-> "none"]
Known(arts) == {x \in Artifacts : arts[x] # "none"}
\* The rule for declaring research, music and video complete.
Usable(arts) == Known(arts) # {} /\ \A x \in Known(arts) : arts[x] = "verified"

MergeReplacing(old, new) == new        \* mutant: a later answer replaces all
Merge(old, new) ==
    [x \in Artifacts |->
        IF new[x] = "none" \/ (old[x] = "verified" /\ new[x] = "remote")
        THEN old[x] ELSE new[x]]

Rows == [id : 1..MaxOps, state : States, chat : Chats \cup {None},
         provider : BOOLEAN, attempt : {0, 1}, verification : Evidence,
         arts : Locators, version : Nat, lease : Workers \cup {None},
         until : Nat, expires : Nat]
NoRow == [id |-> 0, state |-> "expired", chat |-> None, provider |-> FALSE,
          attempt |-> 0, verification |-> "not_observed", arts |-> NoLocators,
          version |-> 0, lease |-> None, until |-> 0, expires |-> 0]

VARIABLES
    clock,     \* store.clock()
    row,       \* the key's row, or NoRow
    made,      \* operations created so far for the key
    born,      \* born[i]: when operation i was created
    launched,  \* operations whose runner has been called
    offered,   \* operations whose source chat was handed to cleanup
    empty,     \* operations the provider answered with nothing, for good
    pc,        \* where each call stands
    op,        \* the operation each call addresses (0: none yet)
    seen,      \* the row a call read last
    base,      \* the locators a worker started from (its claimed record)
    tries      \* CAS attempts an observation has used

vars == <<clock, row, made, born, launched, offered, empty, pc, op, seen, base, tries>>
history == <<made, born, launched, offered, empty>>

Init ==
    /\ clock = 0
    /\ row = NoRow
    /\ made = 0
    /\ born = [i \in 1..MaxOps |-> 0]
    /\ launched = {}
    /\ offered = {}
    /\ empty = {}
    /\ pc = [a \in Actors |-> "idle"]
    /\ op = [a \in Actors |-> 0]
    /\ seen = [a \in Actors |-> NoRow]
    /\ base = [w \in Workers |-> NoLocators]
    /\ tries = [a \in Actors |-> 0]

(***************************************************************************)
(* OperationRepository: the guards and effects shared by its callers.      *)
(***************************************************************************)
Exists(a) == row # NoRow /\ row.id = op[a]
Holds(w)  == Exists(w) /\ row.lease = w
\* update(expected_version = the version read): the row is unchanged since.
FreshById(a) == Exists(a)              \* mutant: no version comparison
Fresh(a)  == Exists(a) /\ row.version = seen[a].version
\* update(expected_version, lease_id).
WritesByVersion(w) == Fresh(w)         \* mutant: the lease is not compared
Writes(w) == Fresh(w) /\ Holds(w)
\* update(): a pending cancellation absorbs the states it may not move to.
Settle(old, desired) ==
    IF old = "cancel_requested" /\ desired \notin CancelExits
    THEN "cancel_requested" ELSE desired
\* update() raises on a terminal row.
Refused(old, desired) == old \in Terminal /\ desired # old
ClaimableEarly ==                      \* mutant: off by one on lease_until
    row # NoRow /\ row.state \notin Terminal /\ row.expires > clock
    /\ row.until <= clock + 1
Claimable == row # NoRow /\ row.state \notin Terminal /\ row.expires > clock
             /\ row.until <= clock

\* What one call leaves in the row.  update() bumps the version, claim() too;
\* renew() and release() only touch the lease.
Put(r, st, evidence) ==
    [r EXCEPT !.state = Settle(@, st), !.verification = evidence,
              !.version = @ + 1]
PutFiles(r, st, arts) == [Put(r, st, "reported") EXCEPT !.arts = arts]
SetSource(r, chat, provider) ==
    [r EXCEPT !.chat = IF chat = None THEN @ ELSE chat,
              !.provider = @ \/ provider]
Noted(r, chat, provider) == [SetSource(r, chat, provider) EXCEPT !.version = @ + 1]
CountedStart(r) ==                     \* mutant: attempts are counted up
    [r EXCEPT !.state = Settle(@, "running"), !.attempt = @ + 1,
              !.version = @ + 1]
Started(r) ==
    [r EXCEPT !.state = Settle(@, "running"), !.attempt = 1, !.version = @ + 1]
Leased(r, w, time) == [r EXCEPT !.lease = w, !.until = time]
Claimed(r, w) == [Leased(r, w, clock + Lease) EXCEPT !.version = @ + 1]
Freed(r) == Leased(r, None, 0)

Release(w) ==
    row' = IF Holds(w) THEN Freed(row) ELSE row

Go(a, p) == pc' = [pc EXCEPT ![a] = p]
\* What a call reads it keeps until it writes; the lease fields of the copy
\* are never looked at.
Read(a)   == seen' = [seen EXCEPT ![a] = Freed(row)]
Forget(a) == seen' = [seen EXCEPT ![a] = NoRow]
Again(a) == tries' = [tries EXCEPT ![a] = @ + 1]
\* The locals of a worker that returned or died are gone.
Drop(w) == /\ Forget(w)
           /\ base' = [base EXCEPT ![w] = NoLocators]
           /\ tries' = [tries EXCEPT ![w] = 0]

(***************************************************************************)
(* start(): reserve() creates the row or finds the key's, and only the     *)
(* call that created it schedules the runner.                              *)
(***************************************************************************)
KeyTakenLive ==                        \* mutant: a finished row frees its key
    row # NoRow /\ row.state \notin Terminal
KeyTaken == row # NoRow

Accepted(i) == [NoRow EXCEPT !.id = i, !.state = "accepted",
                             !.expires = clock + Retention]

Reserve(s) ==
    /\ pc[s] = "idle"
    /\ IF KeyTaken
       THEN /\ Go(s, "done")
            /\ UNCHANGED <<row, made, born, op>>
       ELSE /\ made < MaxOps
            /\ made' = made + 1
            /\ born' = [born EXCEPT ![made + 1] = clock]
            /\ row' = Accepted(made + 1)
            /\ op' = [op EXCEPT ![s] = made + 1]
            /\ Go(s, "task")
    /\ UNCHANGED <<clock, launched, offered, empty, seen, base, tries>>

\* _run(): the account changed before the task ran.  The update carries no
\* version; on a terminal row it raises and the handler finds it terminal.
RunOtherAccount(s) ==
    /\ pc[s] = "task" /\ s \notin Compat
    /\ row' = IF Exists(s) /\ row.state \notin Terminal
              THEN Put(row, "timed_out", "reported") ELSE row
    /\ Go(s, "done")
    /\ UNCHANGED <<clock, history, op, seen, base, tries>>

\* execution(): claim the lease, or yield False.
RunClaim(s) ==
    /\ pc[s] = "task"
    /\ IF Exists(s) /\ Claimable
       THEN /\ row' = Claimed(row, s)
            /\ seen' = [seen EXCEPT ![s] = Freed(Claimed(row, s))]
            /\ base' = [base EXCEPT ![s] = row.arts]
            /\ Go(s, "claimed")
       ELSE /\ Go(s, "done")
            /\ UNCHANGED <<row, seen, base>>
    /\ UNCHANGED <<clock, history, op, tries>>

\* execution(): cancelled before any attempt and before any source was seen.
CancelledUnstarted(r) ==
    r.state = "cancel_requested" /\ r.attempt = 0 /\ r.chat = None /\ ~r.provider

\* Where execution() goes when it will not start the producer.
UnstartedEnters == "enter"             \* mutant: the producer starts anyway
UnstartedLeaks == "done"               \* mutant: the lease is kept
Unstarted == "release"

RunCancelled(s) ==
    /\ pc[s] = "claimed" /\ CancelledUnstarted(seen[s])
    /\ row' = IF Writes(s)
              THEN Put(row, "cancelled", "local_cancelled_before_start")
              ELSE row
    /\ Go(s, Unstarted)
    /\ Forget(s)
    /\ UNCHANGED <<clock, history, op, base, tries>>

\* execution(): an accepted row becomes running, unless it changed since the
\* claim; the lease is then released and the runner is never called.
RunAccepted(s) ==
    LET accepted == seen[s].state = "accepted"
    IN  /\ pc[s] = "claimed" /\ ~CancelledUnstarted(seen[s])
        /\ row' = IF accepted /\ Writes(s) THEN Started(row) ELSE row
        /\ Go(s, IF accepted /\ ~Writes(s) THEN Unstarted ELSE "enter")
        /\ Forget(s)
        /\ UNCHANGED <<clock, history, op, base, tries>>

\* _run(): mark the row running under the lease and call the runner.  The
\* update has no version and its result is ignored; only a terminal row
\* raises, which unwinds before the runner is called.
RunLaunch(s) ==
    /\ pc[s] = "enter" /\ s \notin Compat
    /\ IF Holds(s) /\ row.state \in Terminal
       THEN /\ Go(s, "unwind")
            /\ UNCHANGED <<row, launched>>
       ELSE /\ row' = IF Holds(s) THEN Started(row) ELSE row
            /\ launched' = launched \cup {op[s]}
            /\ Go(s, "work")
    /\ UNCHANGED <<clock, made, born, offered, empty, op, seen, base, tries>>

\* A compatibility call enters execution() itself and generates at once.
RunDirect(s) ==
    /\ pc[s] = "enter" /\ s \in Compat
    /\ launched' = launched \cup {op[s]}
    /\ Go(s, "work")
    /\ UNCHANGED <<clock, row, made, born, offered, empty, op, seen, base, tries>>

(***************************************************************************)
(* status() / result(): _lookup() reads the row and starts a recovery for  *)
(* a live row with a source; _recover() claims the lease and reads the     *)
(* source back.  It never calls the runner.                                *)
(***************************************************************************)
Lookup(r) ==
    /\ pc[r] = "idle"
    /\ row # NoRow
    /\ IF /\ row.expires > clock /\ row.state \notin Terminal
          /\ row.chat # None \/ row.provider
       THEN Go(r, "recover")
       ELSE Go(r, "done")
    /\ op' = [op EXCEPT ![r] = row.id]
    /\ UNCHANGED <<clock, row, history, seen, base, tries>>

RecoverClaim(r) ==
    /\ pc[r] = "recover"
    /\ IF Exists(r) /\ Claimable
       THEN /\ row' = Claimed(row, r)
            /\ base' = [base EXCEPT ![r] = row.arts]
            /\ Go(r, "work")
       ELSE /\ Go(r, "done")
            /\ UNCHANGED <<row, base>>
    /\ UNCHANGED <<clock, history, op, seen, tries>>

\* The recovery times out, raises, or the account changed; or a direct call
\* raises: nothing is saved and the lease is released.
Abandon(w) ==
    /\ pc[w] = "work" /\ w \in Readers \cup Compat
    /\ Go(w, "release")
    /\ UNCHANGED <<clock, row, history, op, seen, base, tries>>

(***************************************************************************)
(* observe_artifacts_sync(): read, merge, write under the lease, at most   *)
(* Attempts times.  `found` is what this worker has: for a recovery, every *)
(* locator of the claimed record is part of it.                            *)
(***************************************************************************)
Observe(w) ==
    /\ pc[w] = "work"
    /\ Exists(w)
    /\ Read(w)
    /\ tries' = [tries EXCEPT ![w] = 1]
    /\ Go(w, "observing")
    /\ UNCHANGED <<clock, row, history, op, base>>

\* A completed report becomes partial, or stays running, without usable files.
TrustedState(desired, arts) == desired \* mutant: the provider is believed
ObservedState(desired, arts) ==
    IF desired = "completed" /\ ~Usable(arts)
    THEN IF Known(arts) # {} THEN "partial" ELSE "running"
    ELSE desired

\* Where a caller goes whose locators could not be recorded.
UnrecordedReady == "ready"             \* mutant: the failure is ignored
Unrecorded == "save"

\* What a worker can find: it starts from the locators of its claimed record.
Found(w) ==
    IF op[w] \in empty THEN {NoLocators}
    ELSE {f \in Locators : Known(base[w]) \subseteq Known(f)}

\* media_requires_recovery(): the source may go when every output is a
\* verified file, or when the response to the prompt was definitively empty.
ObserveWrite(w) ==
    /\ pc[w] = "observing" /\ Writes(w)
    /\ \E found \in Found(w), st \in ResultStates \ {"cancelled"},
         nothing \in BOOLEAN :
         LET merged  == Merge(seen[w].arts, found)
             desired == ObservedState(st, merged)
         IN  /\ nothing => w \in Starters /\ found = NoLocators /\ st = "failed"
             /\ IF Refused(row.state, desired)
                THEN Go(w, Unrecorded) /\ UNCHANGED <<row, empty>>
                ELSE /\ row' = PutFiles(row, desired, merged)
                     /\ empty' = IF nothing THEN empty \cup {op[w]} ELSE empty
                     /\ Go(w, IF nothing \/ (st = "completed" /\ Usable(found))
                              THEN "ready" ELSE "save")
    /\ Forget(w)
    /\ tries' = [tries EXCEPT ![w] = 0]
    /\ UNCHANGED <<clock, made, born, launched, offered, op, base>>

ObserveSpin(w) ==                      \* mutant: tries the same comparison again
    pc[w] = "observing" /\ ~Writes(w) /\ UNCHANGED vars
\* The row moved or the lease was lost: read again, or give up.  A caller
\* that gives up keeps the source for recovery and reports a failure.
ObserveLost(w) ==
    /\ pc[w] = "observing" /\ ~Writes(w)
    /\ IF Exists(w) /\ tries[w] < Attempts
       THEN /\ Read(w)
            /\ Again(w)
            /\ UNCHANGED pc
       ELSE /\ Go(w, Unrecorded)
            /\ Forget(w)
            /\ tries' = [tries EXCEPT ![w] = 0]
    /\ UNCHANGED <<clock, row, history, op, base>>

\* The locators are on record: the source is handed to cleanup, unless the
\* request retains it.
Offer(w) ==
    /\ pc[w] = "ready"
    /\ offered' \in {offered, offered \cup {op[w]}}
    /\ Go(w, "save")
    /\ UNCHANGED <<clock, row, made, born, launched, empty, op, seen, base, tries>>

(***************************************************************************)
(* finish() / _recover(): _save_result() reads the row, keeps a terminal   *)
(* one, and writes the result once with the version it read and the lease. *)
(***************************************************************************)
Return(w) ==      \* the runner or the recovery returns without observing
    /\ pc[w] = "work"
    /\ Go(w, "save")
    /\ UNCHANGED <<clock, row, history, op, seen, base, tries>>

Save(w) ==
    /\ pc[w] = "save"
    /\ IF Exists(w) /\ row.state \notin Terminal
       THEN Read(w) /\ Go(w, "saving")
       ELSE Go(w, "release") /\ UNCHANGED seen
    /\ UNCHANGED <<clock, row, history, op, base, tries>>

\* What _save_result() writes for a result with this state, files and source.
Saved(w, st, found, chat, provider) ==
    LET merged == Merge(seen[w].arts, found)
    IN  IF chat # None /\ seen[w].chat \notin {None, chat}
        THEN Put(row, "failed", "reported")
        ELSE SetSource(PutFiles(row, ObservedState(st, merged), merged),
                       chat, provider)

SaveWrite(w) ==
    /\ pc[w] = "saving"
    /\ IF Writes(w)
       THEN \E found \in Found(w), st \in ResultStates,
               chat \in Chats \cup {None}, provider \in BOOLEAN :
              row' = Saved(w, st, found, chat, provider)
       ELSE UNCHANGED row
    /\ Go(w, "release")
    /\ Forget(w)
    /\ UNCHANGED <<clock, history, op, base, tries>>

\* execution() / _recover(): the heartbeat stops and the lease is released.
Finish(w) ==
    /\ pc[w] \in {"release", "unwind"}
    /\ Release(w)
    /\ Go(w, IF pc[w] = "unwind" THEN "handle" ELSE "done")
    /\ Drop(w)
    /\ UNCHANGED <<clock, history, op>>

(***************************************************************************)
(* _run(): the runner raised, or the process is shutting down.  The        *)
(* handlers run after the lease is released and write by version alone.    *)
(***************************************************************************)
Raise(s) ==
    /\ pc[s] = "work" /\ s \notin Compat
    /\ Go(s, "unwind")
    /\ UNCHANGED <<clock, row, history, op, seen, base, tries>>

Handle(s) ==
    /\ pc[s] = "handle"
    /\ IF Exists(s) /\ row.state \notin Terminal
       THEN Read(s) /\ Go(s, "handling")
       ELSE Go(s, "done") /\ UNCHANGED seen
    /\ UNCHANGED <<clock, row, history, op, base, tries>>

\* A shutdown keeps a requested cancellation; an exception is a failure.
HandleWrite(s) ==
    /\ pc[s] = "handling"
    /\ \E st \in {"timed_out", "failed"} :
         LET kept == st = "timed_out" /\ seen[s].state = "cancel_requested"
         IN  row' = IF Fresh(s)
                    THEN Put(row, IF kept THEN "cancel_requested" ELSE st, "reported")
                    ELSE row
    /\ Go(s, "done")
    /\ Forget(s)
    /\ UNCHANGED <<clock, history, op, base, tries>>

(***************************************************************************)
(* observe_chat_sync() / observe_provider_operation_sync(): called by the  *)
(* SDK under the runner, and possibly after it ended.  No lease is needed. *)
(***************************************************************************)
Note(o) ==
    /\ pc[o] = "idle"
    /\ \E i \in launched :
         /\ op' = [op EXCEPT ![o] = i]
         /\ IF row # NoRow /\ row.id = i
            THEN Read(o) /\ tries' = [tries EXCEPT ![o] = 1] /\ Go(o, "noting")
            ELSE Go(o, "done") /\ UNCHANGED <<seen, tries>>
    /\ UNCHANGED <<clock, row, history, base>>

NoteWrite(o) ==
    /\ pc[o] = "noting" /\ Fresh(o)
    /\ \E chat \in Chats \cup {None}, provider \in BOOLEAN :
         /\ chat # None \/ provider
         /\ row' = IF chat # None /\ seen[o].chat \notin {None, chat}
                   THEN row      \* "source identity changed" is raised
                   ELSE Noted(row, chat, provider)
    /\ Go(o, "done")
    /\ Forget(o)
    /\ tries' = [tries EXCEPT ![o] = 0]
    /\ UNCHANGED <<clock, history, op, base>>

NoteLost(o) ==
    /\ pc[o] = "noting" /\ ~Fresh(o)
    /\ IF Exists(o) /\ tries[o] < Attempts
       THEN /\ Read(o)
            /\ Again(o)
            /\ UNCHANGED pc
       ELSE /\ Go(o, "done")
            /\ Forget(o)
            /\ tries' = [tries EXCEPT ![o] = 0]
    /\ UNCHANGED <<clock, row, history, op, base>>

(***************************************************************************)
(* cancel(): request, ask the provider where a canceller is registered,    *)
(* and record a confirmed cancellation.                                    *)
(***************************************************************************)
Cancel(c) ==
    /\ pc[c] = "idle"
    /\ row # NoRow
    /\ op' = [op EXCEPT ![c] = row.id]
    /\ IF row.expires <= clock \/ row.state \in Terminal \cup {"cancel_requested"}
       THEN Go(c, "done") /\ UNCHANGED seen
       ELSE Go(c, "asking") /\ Read(c)
    /\ UNCHANGED <<clock, row, history, base, tries>>

CancelRequest(c) ==
    /\ pc[c] = "asking"
    /\ row' = IF Fresh(c)
              THEN Put(row, "cancel_requested", "cancellation_requested")
              ELSE row
    /\ \/ Go(c, "provider")    \* a canceller is registered for the kind
       \/ Go(c, "done")
    /\ Forget(c)
    /\ UNCHANGED <<clock, history, op, base, tries>>

\* The provider confirms; otherwise, or under another account, cancel() ends.
CancelConfirmed(c) ==
    /\ pc[c] = "provider"
    /\ IF Exists(c) /\ row.state \notin Terminal
       THEN Read(c) /\ Go(c, "confirming")
       ELSE Go(c, "done") /\ UNCHANGED seen
    /\ UNCHANGED <<clock, row, history, op, base, tries>>

CancelUnconfirmed(c) ==
    /\ pc[c] = "provider"
    /\ Go(c, "done")
    /\ UNCHANGED <<clock, row, history, op, seen, base, tries>>

CancelWrite(c) ==
    /\ pc[c] = "confirming"
    /\ row' = IF Fresh(c) THEN Put(row, "cancelled", "provider_cancelled") ELSE row
    /\ Go(c, "done")
    /\ Forget(c)
    /\ UNCHANGED <<clock, history, op, base, tries>>

(***************************************************************************)
(* The heartbeat, process death, the clock and hourly maintenance.         *)
(***************************************************************************)
Executing(w) == pc[w] \in {"claimed", "enter", "work", "observing", "ready",
                           "save", "saving", "release", "unwind"}
Beating(w) == pc[w] \in {"enter", "work", "observing", "ready", "save", "saving"}

Renew(w) ==
    /\ Beating(w) /\ Holds(w) /\ row.until < clock + Lease
    /\ row' = Leased(row, w, clock + Lease)
    /\ UNCHANGED <<clock, history, pc, op, seen, base, tries>>

\* The process dies: no handler runs and the lease stays behind.
Crash(w) ==
    /\ pc[w] \notin {"idle", "done", "crashed"}
    /\ Go(w, "crashed")
    /\ Drop(w)
    /\ UNCHANGED <<clock, row, history, op>>

Tick ==
    /\ clock < MaxClock
    /\ Timely => \A w \in Workers : Executing(w) /\ Holds(w) => row.until > clock + 1
    /\ clock' = clock + 1
    /\ UNCHANGED <<row, history, pc, op, seen, base, tries>>

\* transaction(): once an hour, and on a process's first transaction, the
\* expired rows are deleted, whatever state or lease they have.
Prune ==
    /\ row # NoRow /\ row.expires <= clock
    /\ row' = NoRow
    /\ UNCHANGED <<clock, history, pc, op, seen, base, tries>>

StarterStep(s) ==
    \/ Reserve(s) \/ RunOtherAccount(s) \/ RunClaim(s) \/ RunCancelled(s)
    \/ RunAccepted(s) \/ RunLaunch(s) \/ RunDirect(s)
    \/ Raise(s) \/ Handle(s) \/ HandleWrite(s)
ReaderStep(r) == Lookup(r) \/ RecoverClaim(r)
WorkerStep(w) ==
    \/ Abandon(w) \/ Observe(w) \/ ObserveWrite(w) \/ ObserveLost(w)
    \/ Offer(w) \/ Return(w) \/ Save(w) \/ SaveWrite(w) \/ Finish(w)
ObserverStep(o) == Note(o) \/ NoteWrite(o) \/ NoteLost(o)
CancellerStep(c) ==
    \/ Cancel(c) \/ CancelRequest(c) \/ CancelConfirmed(c)
    \/ CancelUnconfirmed(c) \/ CancelWrite(c)

Next ==
    \/ \E s \in Starters : StarterStep(s)
    \/ \E r \in Readers : ReaderStep(r)
    \/ \E w \in Workers : WorkerStep(w) \/ Renew(w) \/ Crash(w)
    \/ \E o \in Observers : ObserverStep(o)
    \/ \E c \in Cancellers : CancellerStep(c)
    \/ Tick
    \/ Prune

Spec == Init /\ [][Next]_vars

\* The event loop runs every task that can run, and provider waits end (they
\* carry timeouts); nothing obliges a call to be made, a process to die, a
\* heartbeat to renew or a row to be pruned.
Fairness ==
    /\ \A s \in Starters : WF_vars(StarterStep(s) /\ pc[s] # "idle")
    /\ \A w \in Workers : WF_vars(WorkerStep(w))
    /\ \A c \in Cancellers : WF_vars(CancellerStep(c) /\ pc[c] # "idle")

FairSpec == Spec /\ Fairness

-----------------------------------------------------------------------------
(***************************************************************************)
(* Properties.                                                             *)
(***************************************************************************)
Phases == {"idle", "task", "claimed", "enter", "recover", "work", "observing",
           "ready", "save", "saving", "release", "unwind", "handle", "handling",
           "noting", "asking", "provider", "confirming", "done", "crashed"}

\* Every variable has its type.
TypeOK ==
    /\ clock \in Nat
    /\ row \in Rows \cup {NoRow}
    /\ made \in 0..MaxOps
    /\ born \in [1..MaxOps -> Nat]
    /\ launched \subseteq 1..MaxOps
    /\ offered \subseteq 1..MaxOps
    /\ empty \subseteq 1..MaxOps
    /\ pc \in [Actors -> Phases]
    /\ op \in [Actors -> 0..MaxOps]
    /\ seen \in [Actors -> Rows \cup {NoRow}]
    /\ base \in [Workers -> Locators]
    /\ tries \in [Actors -> Nat]

\* "Video completion requires verified local video; music requires audio and
\* any returned companion outputs to be saved and verified": a row recorded as
\* completed knows only verified local files, whoever wrote it and whichever
\* late write followed.
CompletedIsUsable == row.state = "completed" => Usable(row.arts)

\* A source chat is handed to deletion only once the row itself, not just the
\* worker's own view, is complete with verified files, or when the provider
\* had nothing to give; no later write takes that back while the row lives.
OfferedIsDurable ==
    \A i \in offered : row # NoRow /\ row.id = i =>
        \/ row.state = "completed" /\ Usable(row.arts)
        \/ i \in empty /\ Known(row.arts) = {}

\* "local_cancelled_before_start ... proving the producer never started": an
\* operation that says so has no runner behind it, now or in another process.
LocalCancelNeverLaunched ==
    row.verification = "local_cancelled_before_start" =>
        /\ row.state = "cancelled"
        /\ row.id \notin launched
        /\ \A s \in Starters : op[s] = row.id => pc[s] \notin {"enter", "work"}

\* "Start once": two generations under one idempotency key are a retention
\* period apart, because the second needs the first one's row to be pruned.
OneGenerationPerKey ==
    \A i, j \in launched : i < j => born[j] >= born[i] + Retention

\* "Renewable leases allow one process to execute generation or recovery":
\* with timely heartbeats no two live workers of one operation execute at once.
OneExecutor ==
    \A v, w \in Workers :
        Executing(v) /\ Executing(w) /\ op[v] = op[w] => v = w

\* A call that returned left no lease behind, however it ended.
NoLeaseLeak == \A w \in Workers : pc[w] = "done" => ~Holds(w)

SameRow == row # NoRow /\ row'.id = row.id

\* "A late failure cannot replace already verified completion": a terminal
\* state survives every later write of every client, and so does the evidence
\* recorded for a cancellation.
TerminalSticky ==
    [][SameRow /\ row.state \in Terminal =>
        /\ row'.state = row.state
        /\ row.state = "cancelled" => row'.verification = row.verification]_vars

\* Locators are monotonic: a recorded source chat is never replaced, an
\* artifact on record is never forgotten, and a verified file never falls back
\* to a remote-only locator, through concurrent observers and stale workers.
LocatorsMonotonic ==
    [][SameRow =>
        /\ row.chat # None => row'.chat = row.chat
        /\ row.provider => row'.provider
        /\ Known(row.arts) \subseteq Known(row'.arts)
        /\ \A x \in Artifacts : row.arts[x] = "verified" => row'.arts[x] # "remote"]_vars

\* "An old worker cannot finish": files and completion are written only by a
\* worker that still holds the lease it claimed, never by one that lost it.
OnlyHolderCompletes ==
    [][SameRow /\ (row'.arts # row.arts \/ (row'.state = "completed" /\ row.state # "completed"))
        => \E w \in Workers : Holds(w) /\ op[w] = row.id /\ pc'[w] # pc[w]]_vars

\* "Cancel before worker starts": a cancellation recorded while no runner has
\* been called is resolved by the worker that owns the start.
CancelBeforeStartResolves ==
    \A s \in Starters :
        /\ row.id = op[s] /\ row.state = "cancel_requested"
        /\ row.id \notin launched /\ pc[s] = "claimed"
        ~> \/ row.state # "cancel_requested"
           \/ row.id \in launched
           \/ pc[s] = "crashed"

\* A lease that its worker's process did not take to the grave is given back,
\* and every execution ends: whatever the runner, the provider and the other
\* clients do, contention on the row cannot keep a call retrying.
CallsReturn ==
    \A w \in Workers :
        /\ Holds(w) ~> (~Holds(w) \/ pc[w] = "crashed")
        /\ pc[w] = "work" ~> pc[w] \in {"done", "crashed"}

=============================================================================
