--------------------------- MODULE MemoryCleanup ----------------------------
(***************************************************************************)
(* The RemoteChatCleanupManager and a chat for which the store has no row: *)
(* before a store is bound every chat is one, afterwards those that a      *)
(* caller deletes by their ID.  What is known of the chat is in the memory *)
(* of one process, under one lock, while requests, timers, sweeps and      *)
(* deletions wait for the provider and a cookie monitor's thread replaces  *)
(* the account.  The chat belongs to the account of generation 0.          *)
(***************************************************************************)
EXTENDS Naturals

CONSTANTS
    MaxCallers,     \* requests, sweeps and timers at a time
    MaxWorkers,     \* deletions started
    MaxDecisions,   \* schedule, retain and failures reported from outside
    MaxSwitches, MaxTime

Callers == 1..MaxCallers
Workers == 1..MaxWorkers
Nobody == 0
NoTask == [id |-> 0, at |-> 0, attempts |-> 0, gen |-> 0]

VARIABLES
    store,      \* "none", "bound" or, after a switch, "unbound"
    gen,        \* _authentication_generation
    clock, decisions,
    remote,     \* the chat: "there" or "gone"
    pending,    \* _pending_cleanup, an object with an identity
    obs,        \* _cleanup_observations and _observation_generations
    completed,  \* _completed_cleanup
    inflight,   \* _inflight_cleanup: a worker or Nobody
    delayed,    \* _delayed_cleanup: a timer or Nobody
    caller, worker

state == <<store, gen, clock, decisions, remote, pending, obs, completed,
           inflight, delayed, caller, worker>>

Idle == [kind |-> "none", pc |-> "idle", gen |-> 0, due |-> NoTask, worker |-> Nobody,
         cancel |-> FALSE]
\* `gone': the deletion ended with a chat that is no longer there.
Unborn == [at |-> "none", gen |-> 0, client |-> 0, attempts |-> 0, gone |-> FALSE]

Live(w) == worker[w].at \notin {"none", "done"}
Observe(s, g, n) ==
    obs' = IF g < obs.gen THEN obs
           ELSE [state |-> s, gen |-> g, attempts |-> IF s = "pending" THEN n ELSE 0]
\* A new object: none that somebody still holds.
NewID == CHOOSE n \in 1..MaxCallers + 2 :
             n # pending.id /\ \A a \in Callers : n # caller[a].due.id
Task(at, attempts) == [id |-> NewID, at |-> at, attempts |-> attempts, gen |-> gen]
Free(a, callers) == callers[a].pc = "idle" /\ \A b \in 1..a - 1 : callers[b].pc # "idle"
\* The callers after the armed timer was told to stop.
Disarmed == IF delayed = Nobody THEN caller ELSE [caller EXCEPT ![delayed].cancel = TRUE]

-----------------------------------------------------------------------------
(* Decisions, each under the lock.  One that was made for an account that  *)
(* is gone only leaves a note.                                             *)

Decide == decisions < MaxDecisions /\ decisions' = decisions + 1
Refused(g) ==
    \/ g # gen /\ Observe("cancelled", g, 0)
    \/ g = gen /\ store = "unbound" /\ Observe("cancelled", g, 0)
    \/ g = gen /\ store # "unbound" /\ completed /\ Observe("already", g, 0)
Open(g) == g = gen /\ store # "unbound" /\ ~completed

Retain ==
    /\ Decide
    /\ \E g \in 0..gen :
        \/ /\ Refused(g)
           /\ UNCHANGED <<pending, delayed, caller>>
        \/ /\ Open(g)
           /\ pending' = NoTask
           /\ caller' = Disarmed
           /\ delayed' = Nobody
           /\ Observe("retained", g, 0)
    /\ UNCHANGED <<store, gen, clock, remote, completed, inflight, worker>>

\* With a loop running a timer is started, otherwise the job waits for a sweep.
Timer(at) == [Idle EXCEPT !.kind = "timer", !.pc = "asleep", !.gen = gen,
                          !.due = [NoTask EXCEPT !.at = at]]
Arm(at, callers) ==
    \/ \E a \in Callers :
        /\ Free(a, callers)
        /\ caller' = [callers EXCEPT ![a] = Timer(at)]
        /\ delayed' = a
    \/ caller' = callers /\ delayed' = IF callers = caller THEN delayed ELSE Nobody

\* A bound store makes a row of it, which is CleanupJobs.
Schedule ==
    /\ Decide
    /\ store # "bound"
    /\ \E g \in 0..gen, at \in clock..MaxTime, explicit \in BOOLEAN :
        \/ /\ Refused(g)
           /\ UNCHANGED <<pending, delayed, caller>>
        \/ /\ Open(g) /\ pending = NoTask
           /\ pending' = Task(at, 0)
           /\ Arm(at, caller)
           /\ Observe("pending", g, 0)
        \/ /\ Open(g) /\ pending # NoTask
           /\ explicit /\ at < pending.at
           /\ pending' = [pending EXCEPT !.at = at]
           /\ Arm(at, Disarmed)
           /\ Observe("pending", g, pending.attempts)
        \/ /\ Open(g) /\ pending # NoTask
           /\ ~(explicit /\ at < pending.at)
           /\ Observe(IF obs.state = "failed" THEN "failed" ELSE "pending", g, pending.attempts)
           /\ UNCHANGED <<pending, delayed, caller>>
    /\ UNCHANGED <<store, gen, clock, remote, completed, inflight, worker>>

\* _record_failure(): what failed may be tried again by a sweep.
Failed(g, n) ==
    IF g # gen
    THEN Observe("cancelled", g, n) /\ UNCHANGED pending
    ELSE /\ pending' = IF pending = NoTask THEN Task(clock, n) ELSE [pending EXCEPT !.attempts = n]
         /\ Observe("failed", g, n)

\* A session's chat could not be deleted: no request went out.
RecordFailure ==
    /\ Decide
    /\ Failed(gen, pending.attempts + 1)
    /\ UNCHANGED <<store, gen, clock, remote, completed, inflight, delayed, caller, worker>>

-----------------------------------------------------------------------------
(* Who wants the chat deleted: a caller, a sweep, or a timer.              *)

Ask ==
    \E a \in Callers :
        /\ Free(a, caller)
        /\ caller' = [caller EXCEPT ![a] = [Idle EXCEPT !.kind = "delete", !.pc = "claim",
                                               !.gen = gen]]
        /\ UNCHANGED <<store, gen, clock, decisions, remote, pending, obs, completed,
                       inflight, delayed, worker>>

\* The sweep deals with other chats between looking and claiming.
Sweep ==
    \E a \in Callers :
        /\ Free(a, caller)
        /\ pending # NoTask /\ pending.at <= clock /\ inflight = Nobody
        /\ caller' = [caller EXCEPT ![a] = [Idle EXCEPT !.kind = "sweep", !.pc = "claim",
                                               !.gen = pending.gen, !.due = pending]]
        /\ UNCHANGED <<store, gen, clock, decisions, remote, pending, obs, completed,
                       inflight, delayed, worker>>

\* A timer that ends is taken out of its slot, if that is still its own.
Leave(a) ==
    /\ caller' = [caller EXCEPT ![a] = Idle]
    /\ delayed' = IF delayed = a THEN Nobody ELSE delayed

\* _delete_after_delay()
Wake(a) ==
    /\ caller[a].pc = "asleep" /\ caller[a].due.at <= clock
    /\ IF pending # NoTask /\ pending.at = caller[a].due.at /\ pending.gen = caller[a].gen
       THEN caller' = [caller EXCEPT ![a].pc = "claim", ![a].due = pending] /\ UNCHANGED delayed
       ELSE Leave(a)
    /\ UNCHANGED <<store, gen, clock, decisions, remote, pending, obs, completed, inflight, worker>>

StopTimer(a) ==
    /\ caller[a].cancel /\ caller[a].pc \in {"asleep", "wait"}
    /\ Leave(a)
    /\ UNCHANGED <<store, gen, clock, decisions, remote, pending, obs, completed, inflight, worker>>

OutdatedByTime(a) ==                            \* mutant: the entry is not compared
    /\ caller[a].due # NoTask
    /\ pending.at > clock \/ inflight # Nobody
\* A retained, replaced, rescheduled or attempted job is not the one it saw.
Outdated(a) ==
    /\ caller[a].due # NoTask
    /\ pending # caller[a].due \/ pending.at > clock \/ inflight # Nobody

\* _delete_chat_result()
Claim(a) ==
    /\ caller[a].pc = "claim"
    /\ \/ /\ caller[a].gen # gen
          /\ Observe("cancelled", caller[a].gen, 0)
          /\ Leave(a)
          /\ UNCHANGED <<inflight, worker>>
       \/ /\ caller[a].gen = gen /\ (store = "unbound" \/ Outdated(a))
          /\ Leave(a)
          /\ UNCHANGED <<obs, inflight, worker>>
       \/ /\ caller[a].gen = gen /\ store # "unbound" /\ ~Outdated(a) /\ completed
          /\ Observe("already", gen, 0)
          /\ Leave(a)
          /\ UNCHANGED <<inflight, worker>>
       \/ /\ Open(caller[a].gen) /\ ~Outdated(a) /\ inflight # Nobody
          /\ caller' = [caller EXCEPT ![a].pc = "wait", ![a].due = NoTask, ![a].worker = inflight]
          /\ UNCHANGED <<obs, inflight, delayed, worker>>
       \/ /\ Open(caller[a].gen) /\ ~Outdated(a) /\ inflight = Nobody
          /\ \E w \in Workers :
               /\ worker[w].at = "none" /\ \A v \in 1..w - 1 : worker[v].at # "none"
               /\ worker' = [worker EXCEPT ![w] =
                     [Unborn EXCEPT !.at = "ready", !.gen = gen, !.client = gen]]
               /\ inflight' = w
               /\ caller' = [caller EXCEPT ![a].pc = "wait", ![a].due = NoTask, ![a].worker = w]
          /\ UNCHANGED <<obs, delayed>>
    /\ UNCHANGED <<store, gen, clock, decisions, remote, pending, completed>>

Return(a) ==
    /\ caller[a].pc = "wait" /\ worker[caller[a].worker].at = "done"
    /\ Leave(a)
    /\ UNCHANGED <<store, gen, clock, decisions, remote, pending, obs, completed, inflight, worker>>

\* record_cleanup_wait_timeout(): the caller stops waiting, the deletion goes on.
GiveUp(a) ==
    /\ caller[a].kind = "delete" /\ caller[a].pc = "wait"
    /\ \/ /\ caller[a].gen # gen
          /\ Observe("cancelled", caller[a].gen, 0)
          /\ UNCHANGED pending
       \/ /\ caller[a].gen = gen /\ obs.state \notin {"none", "pending"}
          /\ UNCHANGED <<obs, pending>>
       \/ /\ caller[a].gen = gen /\ obs.state \in {"none", "pending"}
          /\ pending' = IF pending = NoTask THEN Task(clock, obs.attempts) ELSE pending
          /\ Observe("pending", gen, obs.attempts)
    /\ Leave(a)
    /\ UNCHANGED <<store, gen, clock, decisions, remote, completed, inflight, worker>>

-----------------------------------------------------------------------------
(* The deletion itself, _execute_delete().  A switch of the account has it *)
(* cancelled by its loop, at some later moment: before its first turn, or  *)
(* at an await, where that is one of the ways to fail.                     *)

End(w, gone) == worker' = [worker EXCEPT ![w] =
    [Unborn EXCEPT !.at = "done", !.gone = gone, !.gen = IF gone THEN worker[w].gen ELSE 0]]
Move(w, at) == worker' = [worker EXCEPT ![w].at = at]
Awaiting(w) == worker[w].at \in {"resolving", "sending", "reading"}

Start(w) ==
    /\ worker[w].at = "ready"
    /\ \/ worker[w].gen # gen /\ End(w, FALSE) /\ UNCHANGED <<pending, obs>>
       \/ /\ worker[w].gen # gen
          /\ Observe("cancelled", worker[w].gen, 0)
          /\ End(w, FALSE)
          /\ UNCHANGED pending
       \/ /\ worker[w].gen = gen
          /\ \E at \in {"checking", "resolving"} :
                worker' = [worker EXCEPT ![w].attempts = pending.attempts + 1, ![w].at = at]
          /\ pending' = IF pending = NoTask THEN pending ELSE [pending EXCEPT !.attempts = @ + 1]
          /\ Observe("pending", gen, pending.attempts + 1)
    /\ UNCHANGED <<store, gen, clock, decisions, remote, completed, inflight, delayed, caller>>

\* Without a client of the caller's, which is of the account it asked under,
\* an initializer takes the account that is there by then.
Resolve(w) ==
    /\ worker[w].at = "resolving"
    /\ worker' = [worker EXCEPT ![w].at = "checking", ![w].client = gen]
    /\ UNCHANGED <<store, gen, clock, decisions, remote, pending, obs, completed, inflight,
                   delayed, caller>>

MaySend(w) == worker[w].gen = gen
Check(w) ==
    /\ worker[w].at = "checking"
    /\ \/ MaySend(w) /\ Move(w, "sending") /\ UNCHANGED obs
       \/ ~MaySend(w) /\ Observe("cancelled", worker[w].gen, 0) /\ End(w, FALSE)
    /\ UNCHANGED <<store, gen, clock, decisions, remote, pending, completed, inflight, delayed, caller>>

\* The request reaches the chat only in the chat's own account.
Reached(w) == IF worker[w].client = 0 THEN {remote, "gone"} ELSE {remote}
Send(w) ==
    /\ worker[w].at = "sending"
    /\ remote' \in Reached(w)
    /\ Move(w, "reading")
    /\ UNCHANGED <<store, gen, clock, decisions, pending, obs, completed, inflight, delayed, caller>>

Absent(w) == worker[w].client = 0 => remote = "gone"
ReadBack(w) ==
    /\ worker[w].at = "reading"
    /\ Absent(w)
    /\ Move(w, "finishing")
    /\ UNCHANGED <<store, gen, clock, decisions, remote, pending, obs, completed, inflight, delayed, caller>>

\* It raises, is cancelled, or shows no absence; the request may have arrived.
Fail(w) ==
    /\ Awaiting(w)
    /\ remote' \in IF worker[w].at = "resolving" THEN {remote} ELSE Reached(w)
    /\ Failed(worker[w].gen, worker[w].attempts)
    /\ End(w, FALSE)
    /\ UNCHANGED <<store, gen, clock, decisions, completed, inflight, delayed, caller>>

Finish(w) ==
    /\ worker[w].at = "finishing"
    /\ IF worker[w].gen # gen
       THEN /\ Observe("cancelled", worker[w].gen, 0)
            /\ End(w, FALSE)
            /\ UNCHANGED <<pending, completed, delayed, caller>>
       ELSE /\ pending' = NoTask
            /\ caller' = Disarmed
            /\ delayed' = Nobody
            /\ completed' = TRUE
            /\ Observe("completed", gen, worker[w].attempts)
            /\ End(w, TRUE)
    /\ UNCHANGED <<store, gen, clock, decisions, remote, inflight>>

\* _finish_delete(), a callback of the finished task.
Registered(w) == inflight = w
Release(w) ==
    /\ worker[w].at = "done" /\ Registered(w)
    /\ inflight' = Nobody
    /\ UNCHANGED <<store, gen, clock, decisions, remote, pending, obs, completed, delayed, caller, worker>>

-----------------------------------------------------------------------------
\* invalidate_authentication_context(), in the monitor's thread.
Switch ==
    /\ gen < MaxSwitches
    /\ gen' = gen + 1
    /\ store' = IF store = "none" THEN "none" ELSE "unbound"
    /\ \/ Observe("cancelled", gen, 0)           \* queued, in flight or of a session
       \/ pending = NoTask /\ inflight = Nobody /\ UNCHANGED obs
    /\ pending' = NoTask
    /\ completed' = FALSE
    /\ inflight' = Nobody
    /\ delayed' = Nobody
    /\ caller' = Disarmed
    /\ UNCHANGED <<clock, decisions, remote, worker>>

\* bind_authentication_scope() for an account whose store has no such row.
Bind ==
    /\ store # "bound"
    /\ store' = "bound"
    /\ UNCHANGED <<gen, clock, decisions, remote, pending, obs, completed, inflight, delayed,
                   caller, worker>>

Tick ==
    /\ clock < MaxTime
    /\ clock' = clock + 1
    /\ UNCHANGED <<store, gen, decisions, remote, pending, obs, completed, inflight, delayed,
                   caller, worker>>

\* The chat is unknown, or a request has just scheduled it.
Init ==
    /\ store = "none"
    /\ gen = 0
    /\ clock = 0
    /\ decisions = 0
    /\ remote = "there"
    /\ completed = FALSE
    /\ inflight = Nobody
    /\ \/ /\ pending = NoTask
          /\ obs = [state |-> "none", gen |-> 0, attempts |-> 0]
          /\ delayed = Nobody
          /\ caller = [a \in Callers |-> Idle]
       \/ /\ pending = [NoTask EXCEPT !.id = 1, !.at = MaxTime]
          /\ obs = [state |-> "pending", gen |-> 0, attempts |-> 0]
          /\ delayed = 1
          /\ caller = [a \in Callers |-> IF a = 1 THEN Timer(MaxTime) ELSE Idle]
    /\ worker = [w \in Workers |-> Unborn]

Next ==
    \/ Retain \/ Schedule \/ RecordFailure \/ Ask \/ Sweep \/ Switch \/ Bind \/ Tick
    \/ \E a \in Callers : Wake(a) \/ StopTimer(a) \/ Claim(a) \/ Return(a) \/ GiveUp(a)
    \/ \E w \in Workers : Start(w) \/ Resolve(w) \/ Check(w) \/ Send(w) \/ ReadBack(w)
                          \/ Fail(w) \/ Finish(w) \/ Release(w)

Spec == Init /\ [][Next]_state

-----------------------------------------------------------------------------
\* Callers share a deletion: an account never has two under way.
OneDeletion ==
    \A v, w \in Workers : Live(v) /\ Live(w) /\ worker[v].gen = worker[w].gen => v = w

\* What says completed, the memory, the observation or a deletion that its
\* callers wait for, says it of a chat that is gone.
GoneIsGone ==
    \/ remote = "gone"
    \/ /\ completed => gen # 0
       /\ obs.state \in {"completed", "already"} => obs.gen # 0
       /\ \A w \in Workers : worker[w].gone => worker[w].gen # 0

\* A request goes out with a client of the account it was decided for.
OwnAccount == \A w \in Workers : worker[w].at \in {"sending", "reading"} => worker[w].client = worker[w].gen

\* A chat whose last word is retained is not in the queue, and nobody but a
\* caller who names it starts to delete it.  The word stands until another
\* decision, an account switch, or a deletion of this account that such a caller
\* started or that was on its way: what a retain does not stop, and which may
\* end by queueing the chat again.
RetainedIsLeft ==
    obs.state = "retained" /\ obs.gen = gen =>
        /\ pending = NoTask
        /\ pending' = NoTask \/ obs'.state # "retained"
        /\ \A w \in Workers : worker[w].at = "none" /\ worker'[w].at = "ready" =>
              \E a \in Callers : caller[a].kind = "delete" /\ caller'[a].worker = w
        /\ obs' # obs =>
              \/ decisions' # decisions \/ gen' # gen
              \/ \E w \in Workers : Live(w) /\ worker[w].gen = gen /\ worker'[w] # worker[w]

\* A deletion that its caller asked for by the chat's ID is queued, to be
\* repeated by a sweep that nobody asked for, only when it failed or its caller
\* gave up waiting, never when the chat was deleted, nor over a retain by the
\* one who gives up.  (The comment at remote_chat_cleanup_manager.py:692 has it
\* that such a delete never becomes an automatic retry: of the store it is so.)
QueuedForCause ==
    pending = NoTask /\ pending' # NoTask /\ decisions' = decisions =>
        /\ ~completed
        /\ \/ \E w \in Workers : Live(w) /\ worker[w].gen = gen /\ worker'[w].at = "done"
           \/ \E a \in Callers : /\ caller[a].pc = "wait" /\ caller'[a].pc = "idle"
                                 /\ obs.state # "retained"

\* What a deletion of a replaced account still does touches nothing of the
\* account that is there now.
OldIsSilent ==
    \A w \in Workers : worker[w].at # "none" /\ worker'[w] # worker[w] /\ worker[w].gen < gen =>
        /\ gen' = gen => UNCHANGED <<pending, completed, delayed, inflight>>
        /\ gen' = gen /\ obs.gen = gen => UNCHANGED obs

-----------------------------------------------------------------------------
(* The inductive invariant of the safety properties *)

Jobs == [id : Nat, at : Nat, attempts : Nat, gen : Nat]
States == {"none", "pending", "failed", "retained", "cancelled", "completed", "already"}
Places == {"none", "ready", "resolving", "checking", "sending", "reading", "finishing", "done"}
Typed ==
    /\ store \in {"none", "bound", "unbound"}
    /\ gen \in Nat /\ clock \in Nat
    /\ remote \in {"there", "gone"}
    /\ pending \in Jobs
    /\ obs \in [state : States, gen : Nat, attempts : Nat]
    /\ completed \in BOOLEAN
    /\ inflight \in Workers \cup {Nobody}
    /\ delayed \in Callers \cup {Nobody}
    /\ caller \in [Callers -> [kind : {"none", "delete", "sweep", "timer"},
                              pc : {"idle", "asleep", "claim", "wait"}, gen : Nat, due : Jobs,
                              worker : Workers \cup {Nobody}, cancel : BOOLEAN]]
    /\ worker \in [Workers -> [at : Places, gen : Nat, client : Nat, attempts : Nat,
                              gone : BOOLEAN]]

\* Nothing is of an account to come, and who sends has the client of its own.
Aged ==
    /\ obs.gen <= gen /\ pending.gen <= gen
    /\ \A a \in Callers : caller[a].gen <= gen /\ caller[a].due.gen <= gen
    /\ \A w \in Workers :
         /\ worker[w].gen <= gen
         /\ Live(w) => worker[w].gen <= worker[w].client /\ worker[w].client <= gen
         /\ worker[w].at \in {"sending", "reading", "finishing"} =>
               worker[w].client = worker[w].gen

\* The deletion that is registered is the only one of the present account.
Registry == \A w \in Workers : Live(w) /\ worker[w].gen = gen => inflight = w

\* Who is about to finish in the chat's own account has seen it gone.
Seen == \A w \in Workers : worker[w].at = "finishing" /\ worker[w].client = 0 => remote = "gone"

\* A retained chat is not in the queue, and who did not name it has an entry
\* of the queue in hand.
Queue ==
    /\ obs.state = "retained" /\ obs.gen = gen => pending = NoTask
    /\ \A a \in Callers : caller[a].pc = "claim" /\ caller[a].kind # "delete" =>
         caller[a].due # NoTask

\* A chat that was deleted is not retained any more.
Undone == decisions \in Nat /\ (obs.state = "retained" /\ obs.gen = gen => ~completed)

\* Of a chat that was deleted this is known, and nothing is under way.
Settled ==
    completed => /\ obs.gen = gen /\ obs.state \notin {"none", "pending"}
                 /\ \A w \in Workers : Live(w) => worker[w].gen # gen

Inv == Typed /\ Aged /\ Registry /\ Seen /\ Queue /\ OneDeletion /\ GoneIsGone /\ OwnAccount
=============================================================================
