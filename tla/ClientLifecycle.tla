-------------------------- MODULE ClientLifecycle --------------------------
(***************************************************************************)
(* ClientManager (client_manager.py): one shared Gemini client, created on *)
(* demand, initialized once for all requests that need it, and retired by  *)
(* a reset, from the event loop or from the cookie monitor's thread.       *)
(*                                                                         *)
(* The event loop runs one turn at a time, until the next await; a turn in *)
(* which the monitor can make a difference takes several steps, and the    *)
(* loop is not Free meanwhile.  The monitor changes the credentials under  *)
(* the authentication lock, which initialize() does not take.              *)
(***************************************************************************)
EXTENDS Naturals, FiniteSets

CONSTANTS
    Callers,     \* requests, each of which calls initialize() once
    Resetters,   \* requests, each of which calls reset_async() once
    Attempts,    \* INITIALIZATION_ATTEMPTS
    MaxClients,  \* bound: clients created, enough for every request
    MaxCreds,    \* bound: credential updates
    None

ASSUME BoundsAssumption ==
    /\ Attempts \in Nat \ {0} /\ MaxCreds \in Nat
    /\ IsFiniteSet(Callers) /\ Callers \cap Resetters = {}
    /\ MaxClients \in Nat /\ MaxClients >= Cardinality(Callers) + MaxCreds
    /\ None \notin Callers /\ None \notin Nat

Clients == 1..MaxClients
Tasks   == Callers   \* an initialization task bears the name of its creator

VARIABLES
    creds,       \* the credentials in the environment
    monitor,     \* the cookie monitor: idle, or about to reset the manager
    client,      \* _client
    initialized, \* _initialized
    generation,  \* _generation: how often the manager was reset
    current,     \* _init_task
    made,        \* clients created so far
    with,        \* with[k]: the credentials client k was created with
    ready,       \* clients whose init() has returned
    run,         \* run[t]: the initialization tasks
    retire,      \* retire[k]: how far the retirement of client k is
    pc,          \* where each request stands
    seen         \* what a request holds: a client, then the task it awaits

vars == <<creds, monitor, client, initialized, generation, current, made, with,
          ready, run, retire, pc, seen>>
manager  == <<client, initialized, generation, current>>
requests == <<pc, seen>>

Unborn    == [at |-> "none", of |-> None, gen |-> 0, tries |-> 0, told |-> FALSE]
Unretired == [at |-> "none", joins |-> None]

Init ==
    /\ creds = 0
    /\ monitor = "idle"
    /\ client = None /\ initialized = FALSE /\ generation = 0 /\ current = None
    /\ made = 0
    /\ with = [k \in Clients |-> 0]
    /\ ready = {}
    /\ run = [t \in Tasks |-> Unborn]
    /\ retire = [k \in Clients |-> Unretired]
    /\ pc = [c \in Callers \cup Resetters |-> "idle"]
    /\ seen = [c \in Callers \cup Resetters |-> None]

Ended == {"ok", "reset", "failed", "cancelled"}
Done(t) == run[t].at \in Ended
Free == \A c \in Callers : pc[c] \notin {"looking", "getting", "got"}
Superseded(t) == generation # run[t].gen \/ client # run[t].of

Go(c, p, v) == /\ pc' = [pc EXCEPT ![c] = p]
               /\ seen' = [seen EXCEPT ![c] = v]

(***************************************************************************)
(* initialize(): get_client() creates a client under the lock and reads it *)
(* again outside; then one locked section answers, joins or starts.        *)
(***************************************************************************)
GetClient(c) ==
    /\ pc[c] = "looking" \/ (pc[c] = "idle" /\ Free)
    /\ IF client = None
       THEN /\ made < MaxClients
            /\ made' = made + 1
            /\ client' = made'
            /\ with' = [with EXCEPT ![made'] = creds]
       ELSE UNCHANGED <<made, client, with>>
    /\ Go(c, "getting", None)
    /\ UNCHANGED <<creds, monitor, initialized, generation, current, ready, run, retire>>

ReadClient(c) ==
    /\ pc[c] = "getting"
    /\ Go(c, "got", client)
    /\ UNCHANGED <<creds, monitor, manager, made, with, ready, run, retire>>

Join(c) ==
    /\ pc[c] = "got"
    /\ IF client # seen[c]
       THEN Go(c, "looking", None) /\ UNCHANGED <<current, run>>
       ELSE IF initialized
       THEN Go(c, "answered", None) /\ UNCHANGED <<current, run>>
       ELSE IF current # None /\ ~Done(current)
       THEN Go(c, "waiting", current) /\ UNCHANGED <<current, run>>
       ELSE /\ run' = [run EXCEPT ![c] = [@ EXCEPT !.at = "new", !.of = client, !.gen = generation]]
            /\ current' = c
            /\ Go(c, "waiting", c)
    /\ UNCHANGED <<creds, monitor, client, initialized, generation, made, with, ready, retire>>

\* The shared task ended: every request that awaits it gets its outcome.
Wakes(c) ==
    /\ Free /\ pc[c] = "waiting" /\ Done(seen[c])
    /\ Go(c, IF run[seen[c]].at = "cancelled" THEN "cancelled" ELSE "answered", None)
    /\ UNCHANGED <<creds, monitor, manager, made, with, ready, run, retire>>

\* A request is cancelled while it waits: shield() keeps the task running.
Withdraw(c) ==
    /\ Free /\ pc[c] = "waiting"
    /\ Go(c, "answered", None)
    /\ UNCHANGED <<creds, monitor, manager, made, with, ready, run, retire>>

(***************************************************************************)
(* _initialize_generation(), one turn per step.  Its finally clause gives  *)
(* up _init_task if that is still this task.                               *)
(***************************************************************************)
End(t, how) ==
    /\ run' = [run EXCEPT ![t] = [Unborn EXCEPT !.at = how]]
    /\ current' = IF current = t THEN None ELSE current

ForwardSpins(t) ==                     \* mutant: a superseded task tries again later
    /\ run' = [run EXCEPT ![t].at = IF Superseded(t) \/ run[t].of = None
                                    THEN "sleeping" ELSE "initing"]
    /\ UNCHANGED current
Forward(t) ==   \* the loop's head: a reset manager ends the task
    IF Superseded(t) \/ run[t].of = None
    THEN End(t, "reset")
    ELSE run' = [run EXCEPT ![t].at = "initing"] /\ UNCHANGED current

Start(t) ==
    /\ Free /\ run[t].at = "new"
    /\ IF run[t].told   \* cancelled before its first turn: the body never runs
       THEN run' = [run EXCEPT ![t] = [Unborn EXCEPT !.at = "cancelled"]] /\ UNCHANGED current
       ELSE Forward(t)
    /\ UNCHANGED <<creds, monitor, client, initialized, generation, made, with, ready, retire, requests>>

\* client.init() returned, perhaps in spite of a cancellation; only the
\* manager's current generation is published.
PublishedAlways(t) == TRUE             \* mutant: no check before publishing
Published(t) == ~Superseded(t)

InitReturns(t) ==
    /\ Free /\ run[t].at = "initing"
    /\ ready' = ready \cup {run[t].of}
    /\ initialized' = (initialized \/ Published(t))
    /\ End(t, IF Published(t) THEN "ok" ELSE "reset")
    /\ UNCHANGED <<creds, monitor, client, generation, made, with, retire, requests>>

\* It failed, or ran out of time: a transient failure is tried again.
InitFails(t) ==
    /\ Free /\ run[t].at = "initing"
    /\ \/ End(t, "failed")
       \/ /\ run[t].tries + 1 < Attempts
          /\ run' = [run EXCEPT ![t].at = "sleeping", ![t].tries = @ + 1]
          /\ UNCHANGED current
    /\ UNCHANGED <<creds, monitor, client, initialized, generation, made, with, ready, retire, requests>>

Retry(t) ==
    /\ Free /\ run[t].at = "sleeping" /\ ~run[t].told
    /\ Forward(t)
    /\ UNCHANGED <<creds, monitor, client, initialized, generation, made, with, ready, retire, requests>>

\* The retirement's cancellation arrives at an await.
Interrupted(t) ==
    /\ Free /\ run[t].at \in {"initing", "sleeping"} /\ run[t].told
    /\ End(t, IF Superseded(t) THEN "reset" ELSE "cancelled")
    /\ UNCHANGED <<creds, monitor, client, initialized, generation, made, with, ready, retire, requests>>

(***************************************************************************)
(* _detach_current_client(), under the manager's lock, and the retirement  *)
(* of what it detached.                                                    *)
(***************************************************************************)
DetachKeepsTask ==                     \* mutant: _init_task is not cleared
    /\ client' = None /\ initialized' = FALSE
    /\ generation' = generation + 1 /\ UNCHANGED current
Detach ==
    /\ client' = None /\ initialized' = FALSE
    /\ generation' = generation + 1 /\ current' = None

RetiringAtOnce(k, t) ==                \* mutant: the task is cancelled, not awaited
    /\ retire' = [retire EXCEPT ![k] = [at |-> "closing", joins |-> None]]
    /\ run' = IF t = None THEN run ELSE [run EXCEPT ![t].told = TRUE]

\* _retire_client() begins: a task under way is cancelled and awaited.
Retiring(k, t) ==
    IF t # None /\ ~Done(t)
    THEN /\ retire' = [retire EXCEPT ![k] = [at |-> "joining", joins |-> t]]
         /\ run' = [run EXCEPT ![t].told = TRUE]
    ELSE /\ retire' = [retire EXCEPT ![k] = [at |-> "closing", joins |-> None]]
         /\ UNCHANGED run

\* reset_async(), in a request: without a client there is nothing to retire.
ResetAsync(c) ==
    /\ Free /\ pc[c] = "idle" /\ c \in Resetters
    /\ Detach
    /\ IF client = None THEN Go(c, "answered", None) /\ UNCHANGED <<retire, run>>
                        ELSE Go(c, "retiring", client) /\ Retiring(client, current)
    /\ UNCHANGED <<creds, monitor, made, with, ready>>

\* The request is cancelled: one that awaits the task swallows that, one that
\* awaits close() interrupts it.
WithdrawReset(c) ==
    /\ Free /\ pc[c] = "retiring" /\ retire[seen[c]].at = "closing"
    /\ retire' = [retire EXCEPT ![seen[c]].at = "closed"]
    /\ Go(c, "answered", None)
    /\ UNCHANGED <<creds, monitor, manager, made, with, ready, run>>

ResetReturns(c) ==
    /\ Free /\ pc[c] = "retiring" /\ retire[seen[c]].at = "closed"
    /\ Go(c, "answered", None)
    /\ UNCHANGED <<creds, monitor, manager, made, with, ready, run, retire>>

\* call_soon_threadsafe() queues the retirement behind a task that was already
\* created, whose first turn comes before it.
BeginRetirement(k) ==
    /\ Free /\ retire[k].at = "posted"
    /\ retire[k].joins # None => run[retire[k].joins].at # "new"
    /\ Retiring(k, retire[k].joins)
    /\ UNCHANGED <<creds, monitor, manager, made, with, ready, requests>>

Joined(k) ==
    /\ Free /\ retire[k].at = "joining" /\ Done(retire[k].joins)
    /\ retire' = [retire EXCEPT ![k] = [at |-> "closing", joins |-> None]]
    /\ UNCHANGED <<creds, monitor, manager, made, with, ready, run, requests>>

Closed(k) ==   \* close() returned or failed
    /\ retire[k].at = "closing"
    /\ retire' = [retire EXCEPT ![k].at = "closed"]
    /\ UNCHANGED <<creds, monitor, manager, made, with, ready, run, requests>>

(***************************************************************************)
(* _on_cookie_update() with new material, in the monitor's thread: the     *)
(* environment is written first, then reset() detaches what was built from *)
(* the old one.  A client that no loop owns is closed by the monitor.      *)
(***************************************************************************)
Update ==
    /\ monitor = "idle" /\ creds < MaxCreds
    /\ creds' = creds + 1
    /\ monitor' = "updating"
    /\ UNCHANGED <<manager, made, with, ready, run, retire, requests>>

ResetReady ==                          \* mutant: only an initialized client is reset
    /\ monitor = "updating"
    /\ monitor' = "idle"
    /\ IF initialized THEN Detach ELSE UNCHANGED manager
    /\ retire' = IF ~initialized THEN retire
                 ELSE [retire EXCEPT ![client] =
                   [at |-> IF current # None \/ initialized THEN "posted" ELSE "closing",
                    joins |-> current]]
    /\ UNCHANGED <<creds, made, with, ready, run, requests>>
Reset ==
    /\ monitor = "updating"
    /\ monitor' = "idle"
    /\ Detach
    /\ retire' = IF client = None THEN retire
                 ELSE [retire EXCEPT ![client] =
                   [at |-> IF current # None \/ initialized THEN "posted" ELSE "closing",
                    joins |-> current]]
    /\ UNCHANGED <<creds, made, with, ready, run, requests>>

TaskStep(t) == Start(t) \/ InitReturns(t) \/ InitFails(t) \/ Retry(t) \/ Interrupted(t)
ClientStep(k) == BeginRetirement(k) \/ Joined(k) \/ Closed(k)
CallerStep(c) == GetClient(c) \/ ReadClient(c) \/ Join(c) \/ Wakes(c) \/ Withdraw(c)

Next ==
    \/ \E c \in Callers : CallerStep(c)
    \/ \E c \in Resetters : ResetAsync(c) \/ WithdrawReset(c) \/ ResetReturns(c)
    \/ \E t \in Tasks : TaskStep(t)
    \/ \E k \in Clients : ClientStep(k)
    \/ Update \/ Reset

Spec == Init /\ [][Next]_vars

(***************************************************************************)
(* The event loop runs whatever is ready and goes on with a turn it began; *)
(* init() is bounded by a timeout and close() returns; the monitor         *)
(* finishes what it started.  No request is bound to come.                 *)
(***************************************************************************)
Fairness ==
    /\ \A t \in Tasks : WF_vars(TaskStep(t))
    /\ \A k \in Clients : WF_vars(ClientStep(k))
    /\ \A c \in Callers :
         /\ WF_vars(pc[c] # "idle" /\ GetClient(c))
         /\ WF_vars(ReadClient(c)) /\ WF_vars(Join(c)) /\ WF_vars(Wakes(c))
    /\ WF_vars(Reset)

FairSpec == Spec /\ Fairness

-----------------------------------------------------------------------------
(***************************************************************************)
(* Properties.                                                             *)
(***************************************************************************)
\* Every variable has its type, and the manager's task is under way for the
\* manager's client and generation.
TypeOK ==
    /\ creds \in 0..MaxCreds /\ monitor \in {"idle", "updating"}
    /\ client \in Clients \cup {None} /\ made \in 0..MaxClients
    /\ initialized \in BOOLEAN /\ generation \in Nat
    /\ current \in Tasks \cup {None}
    /\ with \in [Clients -> 0..MaxCreds] /\ ready \subseteq Clients
    /\ run \in [Tasks -> [at : Ended \cup {"none", "new", "initing", "sleeping"},
                          of : Clients \cup {None}, gen : Nat, tries : 0..Attempts,
                          told : BOOLEAN]]
    /\ retire \in [Clients -> [at : {"none", "posted", "joining", "closing", "closed"},
                               joins : Tasks \cup {None}]]
    /\ pc \in [Callers \cup Resetters -> {"idle", "looking", "getting", "got", "waiting",
                                        "retiring", "answered", "cancelled"}]
    /\ seen \in [Callers \cup Resetters -> Clients \cup Tasks \cup {None}]
    /\ current # None =>
         ~Done(current) /\ (~Superseded(current) \/ run[current].of = None)

\* "Without publishing stale state": what the manager calls initialized is a
\* client whose own init() returned, never the successor of a reset one.
PublishedIsReady ==
    initialized => client # None /\ client \in ready /\ retire[client].at = "none"

\* Concurrent requests share the attempt: no client is initialized twice at
\* a time, and none is closed under its own initialization.
OneInitialization ==
    \A t \in Tasks : run[t].at = "initing" =>
        /\ retire[run[t].of].at \notin {"closing", "closed"}
        /\ \A u \in Tasks : run[u].at = "initing" /\ run[u].of = run[t].of => t = u

\* Once the monitor has finished an update no request works with a client
\* built from the credentials before it.
CredentialsFresh ==
    monitor = "idle" /\ client # None => with[client] = creds

\* A client that a reset took away is eventually closed, and a request that
\* waits for the shared initialization gets an answer.
WaitersReturn ==
    /\ \A k \in Clients : (k <= made /\ client # k) ~> (retire[k].at = "closed")
    /\ \A c \in Callers : pc[c] = "waiting" ~> pc[c] # "waiting"

\* "A cancelled caller must not cancel the shared initialization"; a reset
\* answers those who wait with ClientInitializationResetError: none of them
\* is told that it was cancelled itself.
WaitersNotCancelled ==
    \A c \in Callers : pc[c] # "cancelled"

=============================================================================
