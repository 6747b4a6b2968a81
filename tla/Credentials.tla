----------------------------- MODULE Credentials -----------------------------
(***************************************************************************)
(* The account's cookies on their way from a browser profile to the client *)
(* that sends them: the cookie manager publishes them, its callback swaps  *)
(* the environment and retires the client, and requests on other threads   *)
(* build a client from the environment and the published cookies and file  *)
(* their sessions under the account the client belongs to.                 *)
(***************************************************************************)
EXTENDS Naturals, Sequences, FiniteSets, Functions

CONSTANTS
    Updaters,     \* threads that load cookies from the browser
    Requests,     \* threads that serve a request
    Accounts,
    None

VARIABLES
    published,    \* the cookie manager's cookies
    env,          \* the environment: the identity cookie and the token beside it
    client,       \* the cookies of the published client, or None
    scope,        \* the account the cleanup manager and the sessions belong to
    sessions,     \* the stored sessions: the account of the chat, and of the scope
    updating,     \* who holds the cookie manager's update lock
    auth,         \* who holds the authentication lock
    making,       \* who holds the client manager's lock, building a client
    pc,
    mine,         \* each thread's own cookies, its plan and its generation
    failed        \* a callback failed half-way

kvars == <<published, env, client, scope, sessions, updating, auth, making, pc, mine, failed>>

Threads == Updaters \cup Requests
Cookie(acct, ver) == [acct |-> acct, ver |-> ver]
Free(lock) == lock = None

-----------------------------------------------------------------------------
(* Which browser profile.                                                  *)

\* The first candidate that is wanted, or none ({}).
First(candidates, wanted) ==
    {candidates[i] : i \in {j \in DOMAIN candidates :
        candidates[j] \in wanted /\ \A h \in 1..(j - 1) : candidates[h] \notin wanted}}
\* The profiles tried in turn: the first that is signed in and has scheduled
\* actions, else the first that is signed in.
Validated(candidates, signedIn, scheduled) ==
    LET busy == First(candidates, signedIn \cap scheduled)
    IN IF busy # {} THEN busy ELSE First(candidates, signedIn)
\* A profile asked for by name, or none.  Without a name and with a choice,
\* the profiles are validated; if that takes more than 45 seconds, or finds
\* none, the first one is taken.
Chosen(candidates, profile, signedIn, scheduled, inTime) ==
    LET valid == IF inTime THEN Validated(candidates, signedIn, scheduled) ELSE {}
    IN IF profile # None THEN First(candidates, {profile})
       ELSE IF Len(candidates) <= 1 \/ valid = {} THEN First(candidates, Accounts)
       ELSE valid

\* Which profiles the caller may be given.
Valid(candidates, profile, signedIn, inTime) ==
    IF profile # None THEN {profile}
    ELSE IF inTime /\ Len(candidates) > 1 /\ signedIn \cap Range(candidates) # {}
         THEN signedIn ELSE Accounts

\* What a browser holds: the profile that opens by itself first, then the rest.
Browser(u) ==
    /\ pc[u] = "read"
    /\ \E candidates \in {<<>>} \cup {<<a>> : a \in Accounts}
                         \cup Injection(1..Cardinality(Accounts), Accounts) :
       \E profile \in Accounts \cup {None}, signedIn, scheduled \in SUBSET Accounts, inTime \in BOOLEAN :
          LET chosen == Chosen(candidates, profile, signedIn, scheduled, inTime)
          IN \/ chosen = {} /\ pc' = [pc EXCEPT ![u] = "done"] /\ UNCHANGED mine
             \/ \E acct \in chosen :
                  /\ mine' = [mine EXCEPT
                        ![u].sid = Cookie(acct, 1),
                        ![u].valid = Valid(candidates, profile, signedIn, inTime)]
                  /\ pc' = [pc EXCEPT ![u] = "publish"]
    /\ UNCHANGED <<published, env, client, scope, sessions, updating, auth, making, failed>>

-----------------------------------------------------------------------------
(* update_cookie and its callback.                                         *)

Publish(u) ==
    /\ pc[u] = "publish"
    /\ Free(updating)
    /\ updating' = u
    /\ published' = mine[u].sid
    /\ pc' = [pc EXCEPT ![u] = "compare"]
    /\ UNCHANGED <<env, client, scope, sessions, auth, making, mine, failed>>

\* What the client would send, or without one what the environment holds.
Matches(cookie) == IF client # None THEN client = [sid |-> cookie, ts |-> cookie]
                   ELSE env = [sid |-> cookie, ts |-> cookie]
Identity(cookie) == IF scope.acct # None THEN scope.acct # cookie.acct
                    ELSE env.sid.acct # cookie.acct

\* The sessions are dropped first; then the cleanup manager may fail to cancel
\* its rows, and the callback ends there.
Compare(u) ==
    /\ pc[u] = "compare"
    /\ Free(auth)
    /\ Free(making)
    /\ mine' = [mine EXCEPT ![u].changed = ~Matches(mine[u].sid)]
    /\ IF Identity(mine[u].sid)
       THEN /\ sessions' = {}
            /\ \/ /\ scope' = [acct |-> None, gen |-> scope.gen + 1]
                  /\ auth' = u
                  /\ pc' = [pc EXCEPT ![u] = "identity"]
                  /\ UNCHANGED <<failed, updating>>
               \/ /\ scope.acct # None
                  /\ failed' = TRUE
                  /\ updating' = None
                  /\ pc' = [pc EXCEPT ![u] = "done"]
                  /\ UNCHANGED <<scope, auth>>
       ELSE /\ auth' = u
            /\ pc' = [pc EXCEPT ![u] = "identity"]
            /\ UNCHANGED <<sessions, scope, failed, updating>>
    /\ UNCHANGED <<published, env, client, making>>

SwapIdentity(u) ==
    /\ pc[u] = "identity"
    /\ env' = [env EXCEPT !.sid = mine[u].sid]
    /\ pc' = [pc EXCEPT ![u] = "token"]
    /\ UNCHANGED <<published, client, scope, sessions, updating, auth, making, mine, failed>>
SwapToken(u) ==
    /\ pc[u] = "token"
    /\ env' = [env EXCEPT !.ts = mine[u].sid]
    /\ pc' = [pc EXCEPT ![u] = "reset"]
    /\ UNCHANGED <<published, client, scope, sessions, updating, auth, making, mine, failed>>

Reset(u) ==
    /\ pc[u] = "reset"
    /\ mine[u].changed => Free(making)
    /\ client' = IF mine[u].changed THEN None ELSE client
    /\ auth' = None
    /\ updating' = None
    /\ failed' = FALSE
    /\ pc' = [pc EXCEPT ![u] = "done"]
    /\ UNCHANGED <<published, env, scope, sessions, making, mine>>

-----------------------------------------------------------------------------
(* A request: get_gemini_client, then initialize_client, then a session.   *)

Holds(q) == auth = q

Get(q) ==
    /\ pc[q] = "get"
    /\ Free(auth)
    /\ Free(making)
    /\ auth' = q
    /\ making' = IF client = None THEN q ELSE making
    /\ pc' = [pc EXCEPT ![q] = IF client = None THEN "make" ELSE "bind"]
    /\ UNCHANGED <<published, env, client, scope, sessions, updating, mine, failed>>

\* initialize() asks for the client again, without the authentication lock.
Initialize(q) ==
    /\ pc[q] = "initialize"
    /\ Free(making)
    /\ making' = IF client = None THEN q ELSE making
    /\ pc' = [pc EXCEPT ![q] = IF client = None THEN "make" ELSE "store"]
    /\ UNCHANGED <<published, env, client, scope, sessions, updating, auth, mine, failed>>

Make(q) ==
    /\ pc[q] = "make"
    /\ mine' = [mine EXCEPT ![q].draft.sid = env.sid]
    /\ pc' = [pc EXCEPT ![q] = "make token"]
    /\ UNCHANGED <<published, env, client, scope, sessions, updating, auth, making, failed>>
MakeToken(q) ==
    /\ pc[q] = "make token"
    /\ mine' = [mine EXCEPT ![q].draft.ts = env.ts]
    /\ pc' = [pc EXCEPT ![q] = "make rest"]
    /\ UNCHANGED <<published, env, client, scope, sessions, updating, auth, making, failed>>
\* The manager's cookies replace both, unless they are another account's than
\* the environment.
ExtraAny == published                           \* mutant: accounts are not compared
Extra == IF published.acct = env.sid.acct THEN published ELSE None
MakeRest(q) ==
    /\ pc[q] = "make rest"
    /\ client' = IF Extra # None THEN [sid |-> Extra, ts |-> Extra] ELSE mine[q].draft
    /\ making' = None
    /\ pc' = [pc EXCEPT ![q] = IF Holds(q) THEN "bind" ELSE "store"]
    /\ UNCHANGED <<published, env, scope, sessions, updating, auth, mine, failed>>

\* The cleanup manager is bound to the client's account; a change of account
\* starts a new generation.
Bind(q) ==
    /\ pc[q] = "bind"
    /\ client # None
    /\ LET acct == client.sid.acct
           gen == IF scope.acct \notin {None, acct} THEN scope.gen + 1 ELSE scope.gen
       IN /\ scope' = [acct |-> acct, gen |-> gen]
          /\ mine' = [mine EXCEPT ![q].sid = client.sid, ![q].gen = gen]
    /\ auth' = None
    /\ pc' = [pc EXCEPT ![q] = "initialize"]
    /\ UNCHANGED <<published, env, client, sessions, updating, making, failed>>

SameGeneration(q) == mine[q].gen = scope.gen
Store(q) ==
    /\ pc[q] = "store"
    /\ Free(auth)
    /\ sessions' = IF SameGeneration(q)
                   THEN sessions \cup {[acct |-> mine[q].sid.acct, scope |-> scope.acct]}
                   ELSE sessions
    /\ pc' = [pc EXCEPT ![q] = "done"]
    /\ UNCHANGED <<published, env, client, scope, updating, auth, making, mine, failed>>

Init ==
    /\ \E a \in Accounts :
        /\ published = Cookie(a, 0)
        /\ env = [sid |-> Cookie(a, 0), ts |-> Cookie(a, 0)]
        /\ mine = [t \in Threads |-> [sid |-> Cookie(a, 0), draft |-> env, changed |-> FALSE,
                                      gen |-> 0, valid |-> Accounts]]
    /\ client = None
    /\ scope = [acct |-> None, gen |-> 0]
    /\ sessions = {}
    /\ updating = None
    /\ auth = None
    /\ making = None
    /\ failed = FALSE
    /\ pc = [t \in Threads |-> IF t \in Updaters THEN "read" ELSE "get"]

Next ==
    \/ \E u \in Updaters : \/ Browser(u) \/ Publish(u) \/ Compare(u)
                           \/ SwapIdentity(u) \/ SwapToken(u) \/ Reset(u)
    \/ \E q \in Requests : \/ Get(q) \/ Initialize(q) \/ Make(q) \/ MakeToken(q)
                           \/ MakeRest(q) \/ Bind(q) \/ Store(q)

Spec == Init /\ [][Next]_kvars

-----------------------------------------------------------------------------
\* No client ever holds cookies of two accounts (client_manager.py:88), and
\* the sessions kept belong to the account whose scope they are filed under.
NothingMixed ==
    /\ client # None => client.sid = client.ts
    /\ \A s \in sessions : s.acct = s.scope

\* With nobody at work, the client, the environment, the scope and the
\* sessions are all of one account, the published one unless the callback
\* failed (client_wrapper.py:487).
AllFollow ==
    updating = None /\ auth = None /\ making = None =>
        /\ env.sid = env.ts
        /\ ~failed => env.sid = published
        /\ client # None => client = env
        /\ \A s \in sessions : s.acct = env.sid.acct

\* A profile asked for by name is never replaced by another, and of several
\* profiles validated in time one that is signed in is used
\* (cookie_manager.py:443).
ProfileIsRespected == \A u \in Updaters : mine[u].sid.acct \in mine[u].valid
=============================================================================
