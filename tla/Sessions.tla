------------------------------ MODULE Sessions ------------------------------
(***************************************************************************)
(* Local chat sessions of one server process and what becomes of their     *)
(* source chats: session_manager.py (the table, its locks, expiry),        *)
(* services/lifecycle.py (detached sessions go to the cleanup manager),    *)
(* services/chat.py (a send is one workflow around the SDK call) and       *)
(* client_wrapper.py (which credentials a request works under).            *)
(*                                                                         *)
(* Two kinds of code interleave.  The event loop runs one turn at a time:  *)
(* from one await to the next no other request runs.  The cookie monitor   *)
(* is a thread: it may replace the account between any two statements.     *)
(* A turn in which the monitor can make a difference takes several steps,  *)
(* during which the loop is not Free for other requests.                   *)
(*                                                                         *)
(* A source chat is known by its session; what cleanup decided about it is *)
(* reduced to pending (authority to delete it under one account), retained *)
(* or cancelled.  The execution of a pending job is CleanupJobs.           *)
(***************************************************************************)
EXTENDS Naturals, FiniteSets

CONSTANTS
    Sessions,    \* session handles, each created by one start_session call
    Callers,     \* requests that use sessions, one after the other
    Senders,     \* the callers that may send a message
    Resetters,   \* the callers that may reset one session
    Clearers,    \* the callers that may reset all sessions
    Removers,    \* the callers that may remove a session without waiting
    MaxGen,      \* bound: account replacements
    None

ASSUME CallersAssumption ==
    /\ Senders \subseteq Callers /\ Resetters \subseteq Callers
    /\ Clearers \subseteq Callers /\ Removers \subseteq Callers
    /\ MaxGen \in Nat
    /\ None \notin Callers /\ None \notin Sessions /\ None \notin 0..MaxGen

VARIABLES
    gen,        \* the cleanup manager's authentication generation
    bound,      \* the credentials of this generation are bound
    switching,  \* the monitor has detached the sessions, not yet the cleanup
    where,      \* where[s]: where the session stands
    made,       \* made[s]: the generation whose client the session uses
    aged,       \* sessions older than the maximum age
    known,      \* sessions whose source chat has been observed
    needed,     \* sessions whose source is needed: task or recovery pending
    lock,       \* lock[s]: who holds the session's workflow and send locks
    handed,     \* handed[s]: the last cleanup decision about the source
    pc,         \* where each caller stands
    on,         \* the session a sender or a resetter addresses
    asked,      \* the generation in the request's context, if it took a client
    todo,       \* a clearer's snapshot, still to be detached
    mine        \* detached sessions a caller still has to dispose of

vars == <<gen, bound, switching, where, made, aged, known, needed, lock,
          handed, pc, on, asked, todo, mine>>
account == <<gen, bound, switching>>
calls   == <<pc, on, asked, todo, mine>>

Places == {"none", "starting", "live", "expired", "drained", "removed",
           "detached", "gone"}
Decisions == [how : {"none", "pending", "retained", "cancelled"},
              gen : 0..MaxGen, by : {"send", "expiry", "reset", "clear", "switch"}]
Undecided == [how |-> "none", gen |-> 0, by |-> "send"]

Init ==
    /\ gen = 0
    /\ bound = FALSE
    /\ switching = FALSE
    /\ where = [s \in Sessions |-> "none"]
    /\ made = [s \in Sessions |-> 0]
    /\ aged = {}
    /\ known = {}
    /\ needed = {}
    /\ lock = [s \in Sessions |-> None]
    /\ handed = [s \in Sessions |-> Undecided]
    /\ pc = [c \in Callers |-> "idle"]
    /\ on = [c \in Callers |-> None]
    /\ asked = [c \in Callers |-> None]
    /\ todo = [c \in Callers |-> {}]
    /\ mine = [c \in Callers |-> {}]

\* No turn is under way: none is about to schedule a drained session, the
\* source of a finished send, or the sources of removed sessions.
Free == /\ \A s \in Sessions : where[s] # "drained"
        /\ \A c \in Callers : pc[c] \notin {"sent", "clearing", "resetting", "removing"}

(***************************************************************************)
(* SessionService._clean_expired_sessions() under the service lock, and    *)
(* drain_expired_sessions(), which lifecycle methods call when they end.   *)
(***************************************************************************)
Expired(s) == where[s] = "live" /\ s \in aged /\ lock[s] = None
Swept   == [s \in Sessions |-> IF Expired(s) THEN "expired" ELSE where[s]]
Drained(w) == [s \in Sessions |-> IF w[s] = "expired" THEN "drained" ELSE w[s]]
LiveUnchecked(s) == TRUE               \* mutant: no second lookup after the wait
StillLive(s) == where[s] = "live"

Lock(s, c)   == lock' = [lock EXCEPT ![s] = c]
Go(c, p)     == pc' = [pc EXCEPT ![c] = p]
End(c) ==   \* the request returns; the caller may make another one
    /\ Go(c, "idle")
    /\ on' = [on EXCEPT ![c] = None]
    /\ asked' = [asked EXCEPT ![c] = None]

(***************************************************************************)
(* schedule_cleanup() and delete_chat_result(): what the cleanup manager   *)
(* decides for a known source.  A request that took its client under an    *)
(* older generation, or that finds no credentials bound, gets cancelled.   *)
(***************************************************************************)
OutcomeCurrent(g, keep) ==             \* mutant: the request's generation is ignored
    IF ~bound THEN "cancelled" ELSE IF keep THEN "retained" ELSE "pending"
Outcome(g, keep) ==
    IF (g # None /\ g # gen) \/ ~bound THEN "cancelled"
    ELSE IF keep THEN "retained" ELSE "pending"

Decide(s, g, keep, by) ==
    handed' = [handed EXCEPT ![s] =
        IF s \in known' THEN [how |-> Outcome(g, keep), gen |-> gen, by |-> by] ELSE @]
\* record_cancelled_session_result(): the locator of a source whose account
\* was replaced is kept, without a job.
RecordNothing(s) == UNCHANGED handed   \* mutant: the locator is dropped
Record(s) ==
    handed' = [handed EXCEPT ![s] =
        IF s \in known' THEN [how |-> "cancelled", gen |-> made[s], by |-> "switch"] ELSE @]
KeepsByPolicy(s, keep) == keep         \* mutant: only the retention policy counts
Keeps(s, keep) == keep \/ s \in needed

(***************************************************************************)
(* get_gemini_client() binds the cleanup scope of the current credentials  *)
(* and notes their generation in the request's context.  start_session()   *)
(* takes a client, waits for its initialization, then creates the session. *)
(***************************************************************************)
Bind ==
    /\ Free /\ ~switching /\ ~bound
    /\ bound' = TRUE
    /\ UNCHANGED <<gen, switching, where, made, aged, known, needed, lock, handed, calls>>

StartSession(s) ==
    /\ Free /\ ~switching
    /\ where[s] = "none"
    /\ bound' = TRUE
    /\ where' = [where EXCEPT ![s] = "starting"]
    /\ made' = [made EXCEPT ![s] = gen]
    /\ UNCHANGED <<gen, switching, aged, known, needed, lock, handed, calls>>

\* create_session(): under the authentication lock, unless the account changed.
Create(s) ==
    /\ Free /\ ~switching
    /\ where[s] = "starting"
    /\ where' = IF made[s] = gen THEN Drained([Swept EXCEPT ![s] = "live"])
                ELSE [where EXCEPT ![s] = "gone"]
    /\ UNCHANGED <<account, made, aged, known, needed, lock, handed, calls>>

Age(s) ==
    /\ where[s] = "live" /\ s \notin aged
    /\ aged' = aged \cup {s}
    /\ UNCHANGED <<account, where, made, known, needed, lock, handed, calls>>

\* _schedule_expired_sessions(), in the turn that drained the session and
\* without a generation of its own.
ScheduleExpired(s) ==
    /\ where[s] = "drained"
    /\ where' = [where EXCEPT ![s] = "gone"]
    /\ UNCHANGED known
    /\ \E keep \in BOOLEAN : Decide(s, None, Keeps(s, keep), "expiry")
    /\ UNCHANGED <<account, made, aged, needed, lock, calls>>

(***************************************************************************)
(* ChatService._send_session(): one workflow per session.  asyncio.Lock    *)
(* is taken without yielding when it is free.  The send lock nests in the  *)
(* workflow lock and is never contended, so one lock stands for both.      *)
(***************************************************************************)
Send(c, s) ==
    /\ Free /\ pc[c] = "idle" /\ c \in Senders
    /\ where[s] # "none"
    /\ IF Swept[s] # "live" THEN UNCHANGED <<lock, pc, on>>
       ELSE /\ on' = [on EXCEPT ![c] = s]
            /\ IF lock[s] = None THEN Lock(s, c) /\ Go(c, "ready")
                                 ELSE Go(c, "queued") /\ UNCHANGED lock
    /\ where' = Drained(Swept)
    /\ UNCHANGED <<account, made, aged, known, needed, handed, asked, todo, mine>>

\* The lock was handed over: the session is looked up again.
Acquire(c) ==
    LET s == on[c] IN
    /\ Free /\ pc[c] = "queued" /\ lock[s] = None
    /\ IF StillLive(s) THEN Lock(s, c) /\ Go(c, "ready") /\ UNCHANGED <<on, asked>>
                       ELSE End(c) /\ UNCHANGED lock
    /\ where' = Drained([Swept EXCEPT ![s] = where[s]])
    /\ UNCHANGED <<account, made, aged, known, needed, handed, todo, mine>>

\* The workflow takes the current client, which may need initialization.
PrepareClient(c) ==
    /\ Free /\ ~switching /\ pc[c] = "ready"
    /\ bound' = TRUE
    /\ asked' = [asked EXCEPT ![c] = gen]
    /\ Go(c, "prepared")
    /\ UNCHANGED <<gen, switching, where, made, aged, known, needed, lock, handed, on, todo, mine>>

PrepareFails(c) ==
    /\ Free /\ pc[c] = "prepared"
    /\ Lock(on[c], None)
    /\ End(c)
    /\ UNCHANGED <<account, where, made, aged, known, needed, handed, todo, mine>>

\* The source is retained before the prompt leaves; an account change since
\* the lookup is found by the lookup of SessionService.send_message().
Submit(c) ==
    LET s == on[c] IN
    /\ Free /\ pc[c] \in {"ready", "prepared"}
    /\ needed' = needed \cup {s}
    /\ UNCHANGED known
    /\ Decide(s, asked[c], TRUE, "send")
    /\ IF StillLive(s)
       THEN Go(c, "sending") /\ where' = Swept /\ UNCHANGED <<lock, on, asked>>
       ELSE Lock(s, None) /\ End(c) /\ where' = Drained(Swept)
    /\ UNCHANGED <<account, made, aged, todo, mine>>

\* on_chat_observed: the SDK reports the new chat while the send is running.
Observe(c) ==
    LET s == on[c] IN
    /\ Free /\ pc[c] = "sending" /\ s \notin known
    /\ known' = known \cup {s}
    /\ Decide(s, asked[c], TRUE, "send")
    /\ UNCHANGED <<account, where, made, aged, needed, lock, calls>>

\* The response arrived.  A session detached by an account change reports
\* that; any other result goes on to the cleanup decision.
SendReturns(c) ==
    LET s == on[c] IN
    /\ Free /\ pc[c] = "sending"
    /\ known' \in {known, known \cup {s}}
    /\ IF where[s] = "detached"
       THEN Record(s) /\ Lock(s, None) /\ End(c)
       ELSE Go(c, "sent") /\ UNCHANGED <<handed, lock, on, asked>>
    /\ where' = Drained(where)
    /\ UNCHANGED <<account, made, aged, needed, todo, mine>>

SendFailsLocked(c) ==                  \* mutant: the failing path keeps the lock
    /\ Free /\ pc[c] = "sending"
    /\ UNCHANGED known
    /\ Decide(on[c], asked[c], TRUE, "send")
    /\ End(c)
    /\ UNCHANGED <<account, where, made, aged, needed, lock, todo, mine>>

\* The send failed or was cancelled: the source stays needed.
SendFails(c) ==
    LET s == on[c] IN
    /\ Free /\ pc[c] = "sending"
    /\ UNCHANGED known
    /\ IF where[s] = "detached" THEN Record(s) /\ where' = Drained(where)
                                ELSE Decide(s, asked[c], TRUE, "send") /\ UNCHANGED where
    /\ Lock(s, None)
    /\ End(c)
    /\ UNCHANGED <<account, made, aged, needed, todo, mine>>

\* A native task is read back first; such a workflow took a client.
ReadTask(c) ==
    /\ pc[c] = "sent" /\ asked[c] # None
    /\ Go(c, "reading")
    /\ UNCHANGED <<account, where, made, aged, known, needed, lock, handed, on, asked, todo, mine>>

\* _schedule_session_cleanup(): a task that goes on keeps its source.
ScheduleSource(c) ==
    LET s == on[c] IN
    /\ pc[c] = "sent" \/ (pc[c] = "reading" /\ Free)
    /\ UNCHANGED known
    /\ \E keep \in BOOLEAN, pending \in BOOLEAN :
         /\ pending => pc[c] = "reading" /\ keep
         /\ needed' = IF pending THEN needed ELSE needed \ {s}
         /\ Decide(s, asked[c], keep, "send")
    /\ Lock(s, None)
    /\ End(c)
    /\ UNCHANGED <<account, where, made, aged, todo, mine>>

(***************************************************************************)
(* reset_one_async() waits for the workflow, detaches the session, and the *)
(* lifecycle service retains or deletes its source.                        *)
(***************************************************************************)
Pop(c, S, w) ==
    /\ where' = [s \in Sessions |-> IF s \in S THEN "removed" ELSE w[s]]
    /\ mine' = [mine EXCEPT ![c] = @ \cup S]

Reset(c, s) ==
    /\ Free /\ pc[c] = "idle" /\ c \in Resetters
    /\ where[s] # "none"
    /\ IF Swept[s] = "live" /\ lock[s] = None
       THEN /\ Pop(c, {s}, Drained(Swept))
            /\ Go(c, "resetting")
            /\ UNCHANGED on
       ELSE /\ where' = Drained(Swept)
            /\ IF Swept[s] = "live" THEN Go(c, "waiting") /\ on' = [on EXCEPT ![c] = s]
                                    ELSE UNCHANGED <<pc, on>>
            /\ UNCHANGED mine
    /\ UNCHANGED <<account, made, aged, known, needed, lock, handed, asked, todo>>

ResetAcquires(c) ==
    LET s == on[c] IN
    /\ Free /\ pc[c] = "waiting" /\ lock[s] = None
    /\ IF StillLive(s)
       THEN Pop(c, {s}, Drained(Swept)) /\ Go(c, "resetting")
       ELSE where' = Drained(Swept) /\ Go(c, "idle") /\ UNCHANGED mine
    /\ on' = [on EXCEPT ![c] = None]
    /\ UNCHANGED <<account, made, aged, known, needed, lock, handed, asked, todo>>

\* reset_one() pops without waiting for a send in flight: remove_session(),
\* pop_session() and clear_sessions().
Remove(c, s) ==
    /\ Free /\ pc[c] = "idle" /\ c \in Removers
    /\ where[s] # "none"
    /\ IF Swept[s] = "live" THEN Pop(c, {s}, Swept) /\ Go(c, "removing")
                            ELSE where' = Drained(Swept) /\ UNCHANGED <<pc, mine>>
    /\ UNCHANGED <<account, made, aged, known, needed, lock, handed, on, asked, todo>>

\* reset_all_async(): the snapshot is detached session by session, each one
\* under its locks; only a lock in use makes the loop yield.
ResetAll(c) ==
    /\ Free /\ pc[c] = "idle" /\ c \in Clearers
    /\ todo' = [todo EXCEPT ![c] = {s \in Sessions : Swept[s] = "live"}]
    /\ IF todo'[c] = {} THEN where' = Drained(Swept) /\ UNCHANGED pc
                        ELSE where' = Swept /\ Go(c, "collecting")
    /\ UNCHANGED <<account, made, aged, known, needed, lock, handed, on, asked, mine>>

Collect(c) ==
    LET open == {s \in todo[c] : lock[s] = None} IN
    /\ Free /\ pc[c] = "collecting"
    /\ \E S \in SUBSET open :
         LET live == {s \in S : StillLive(s)}
             left == todo[c] \ S
         IN  /\ S # {} /\ (open = todo[c] => S = open)
             /\ todo' = [todo EXCEPT ![c] = left]
             /\ Pop(c, live, IF left = {} THEN Drained(where) ELSE where)
             /\ Go(c, IF left # {} THEN "collecting"
                      ELSE IF mine'[c] # {} THEN "clearing" ELSE "idle")
    /\ UNCHANGED <<account, made, aged, known, needed, lock, handed, on, asked>>

\* _cleanup_detached_state() / _schedule_detached_state(): the request never
\* took a client, so nothing ties the decision to a generation.  A clearer
\* that starts a deletion waits for it before it goes on to the next source.
Dispose(c) ==
    /\ pc[c] \in {"resetting", "removing", "clearing"}
    /\ \E s \in mine[c], keep \in BOOLEAN :
         /\ UNCHANGED known
         /\ Decide(s, None, Keeps(s, keep), IF pc[c] = "clearing" THEN "clear" ELSE "reset")
         /\ mine' = [mine EXCEPT ![c] = @ \ {s}]
         /\ Go(c, IF mine'[c] = {} THEN "idle"
                  ELSE IF s \in known /\ Outcome(None, Keeps(s, keep)) = "pending"
                  THEN "deleting" ELSE pc[c])
    /\ where' = IF pc[c] = "removing" THEN Drained(where) ELSE where
    /\ UNCHANGED <<account, made, aged, needed, lock, on, asked, todo>>

Deleted(c) ==
    /\ Free /\ pc[c] = "deleting"
    /\ Go(c, "clearing")
    /\ UNCHANGED <<account, where, made, aged, known, needed, lock, handed, on, asked, todo, mine>>

(***************************************************************************)
(* _on_cookie_update() with another identity, in the monitor's thread and  *)
(* under the authentication lock: the sessions are detached, then pending  *)
(* cleanup is cancelled and the generation moves on.                       *)
(***************************************************************************)
SwitchSessions ==
    /\ ~switching /\ gen < MaxGen
    /\ switching' = TRUE
    /\ where' = [s \in Sessions |->
                   IF where[s] \in {"live", "expired"} THEN "detached" ELSE where[s]]
    /\ UNCHANGED <<gen, bound, made, aged, known, needed, lock, handed, calls>>

SwitchCleanup ==
    /\ switching
    /\ switching' = FALSE
    /\ gen' = gen + 1
    /\ bound' = FALSE
    /\ handed' = [s \in Sessions |->
         IF handed[s].how = "pending"
            \/ (s \in known /\ where[s] = "detached" /\ handed[s].how = "none")
         THEN [how |-> "cancelled", gen |-> gen, by |-> "switch"] ELSE handed[s]]
    /\ UNCHANGED <<where, made, aged, known, needed, lock, calls>>

SessionStep(s) == StartSession(s) \/ Create(s) \/ Age(s) \/ ScheduleExpired(s)
Request(c) ==
    \/ \E s \in Sessions : Send(c, s) \/ Reset(c, s) \/ Remove(c, s)
    \/ ResetAll(c)
Progress(c) ==
    \/ Acquire(c) \/ PrepareClient(c) \/ PrepareFails(c) \/ Submit(c)
    \/ SendReturns(c) \/ SendFails(c) \/ ReadTask(c) \/ ScheduleSource(c)
    \/ ResetAcquires(c) \/ Collect(c) \/ Dispose(c) \/ Deleted(c)

Next ==
    \/ \E s \in Sessions : SessionStep(s)
    \/ \E c \in Callers : Request(c) \/ Progress(c) \/ Observe(c)
    \/ Bind \/ SwitchSessions \/ SwitchCleanup

Spec == Init /\ [][Next]_vars

-----------------------------------------------------------------------------
(***************************************************************************)
(* Properties.                                                             *)
(***************************************************************************)
Holding == {"ready", "prepared", "sending", "sent", "reading"}

\* Every variable has its type, and a session's lock is held exactly by the
\* one workflow that is under way on it.
TypeOK ==
    /\ gen \in 0..MaxGen /\ bound \in BOOLEAN /\ switching \in BOOLEAN
    /\ where \in [Sessions -> Places]
    /\ made \in [Sessions -> 0..MaxGen]
    /\ aged \subseteq Sessions /\ known \subseteq Sessions /\ needed \subseteq Sessions
    /\ lock \in [Sessions -> Callers \cup {None}]
    /\ handed \in [Sessions -> Decisions]
    /\ pc \in [Callers -> Holding \cup {"idle", "queued", "waiting", "collecting",
                 "clearing", "deleting", "resetting", "removing"}]
    /\ on \in [Callers -> Sessions \cup {None}]
    /\ asked \in [Callers -> 0..MaxGen \cup {None}]
    /\ todo \in [Callers -> SUBSET Sessions] /\ mine \in [Callers -> SUBSET Sessions]
    /\ \A s \in Sessions, c \in Callers :
         lock[s] = c <=> pc[c] \in Holding /\ on[c] = s

\* "Interrupted results retain their source": while a prompt is under way in
\* a chat no job may delete it, whatever removes or expires the session.
SendingIsKept ==
    \A c \in Callers : pc[c] = "sending" => handed[on[c]].how # "pending"

\* "Preserve locators": a source chat that was observed is never forgotten;
\* once its last send is over cleanup holds a decision about it.
SourceAccountedFor ==
    \A s \in known : handed[s].how = "none" =>
        \E c \in Callers : on[c] = s /\ pc[c] \in {"sending", "sent", "reading"}

\* Two resets never dispose of one session, and none disposes of a session
\* that expired or was detached with its account.
OneDisposer ==
    \A c \in Callers : \A s \in mine[c] :
        /\ where[s] = "removed"
        /\ \A d \in Callers : s \in mine[d] => c = d

\* "Detach local resources without moving their cleanup into a new account":
\* a source may be deleted only under the account that created it.
OldChatStaysOut ==
    \A s \in Sessions : handed[s].how = "pending" => handed[s].gen = made[s]

\* What the account change could see is safe: only a session that a reset or
\* a removal had taken out of the table before it can ever be deleted under
\* another account, never one that was live, expired or being scheduled.
DetachedStaysInAccount ==
    \A s \in Sessions :
        handed[s].how = "pending" /\ handed[s].gen # made[s] => where[s] = "removed"

=============================================================================
