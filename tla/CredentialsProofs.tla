------------------------- MODULE CredentialsProofs -------------------------
(***************************************************************************)
(* Theorems about Credentials, for every number of threads and accounts:   *)
(* the three locks order the swap of the cookies, the making of a client   *)
(* and the binding of its account so that nothing of two accounts meets.   *)
(***************************************************************************)
EXTENDS Credentials, FiniteSetTheorems, SequenceTheorems, WellFoundedInduction, TLAPS

Cookies == [acct: Accounts, ver: {0, 1}]
Pairs == [sid: Cookies, ts: Cookies]
Scopes == [acct: Accounts \cup {None}, gen: Nat]
Own == [sid: Cookies, draft: Pairs, changed: BOOLEAN, gen: Nat, valid: SUBSET Accounts]

\* Where an updater, and a request, can be.
Swapping == {"identity", "token", "reset"}
Updating == {"compare"} \cup Swapping
Making == {"make", "make token", "make rest"}
UpdaterPlaces == {"read", "publish", "done"} \cup Updating
RequestPlaces == {"get", "bind", "initialize", "store", "done"} \cup Making

\* The threads are of one kind, and None is none of the values it stands for.
Distinct ==
    /\ Updaters \cap Requests = {}
    /\ IsFiniteSet(Accounts)
    /\ None \notin Threads \cup Accounts \cup Cookies \cup Pairs

Typed ==
    /\ published \in Cookies
    /\ env \in Pairs
    /\ client \in Pairs \cup {None}
    /\ scope \in Scopes
    /\ sessions \subseteq [acct: Accounts, scope: Accounts]
    /\ updating \in Updaters \cup {None}
    /\ auth \in Threads \cup {None}
    /\ making \in Requests \cup {None}
    /\ pc \in [Threads -> UpdaterPlaces \cup RequestPlaces]
    /\ mine \in [Threads -> Own]
    /\ failed \in BOOLEAN
    /\ \A u \in Updaters : pc[u] \in UpdaterPlaces
    /\ \A q \in Requests : pc[q] \in RequestPlaces

\* Who holds which lock, by where he is.
Locks ==
    /\ \A u \in Updaters : /\ updating = u <=> pc[u] \in Updating
                           /\ auth = u <=> pc[u] \in Swapping
    /\ \A q \in Requests : /\ making = q <=> pc[q] \in Making
                           /\ pc[q] = "bind" => auth = q
                           /\ auth = q => pc[q] \in {"bind"} \cup Making

\* The environment holds one account's cookies except while they are swapped,
\* and follows the published ones unless the callback failed.
EnvFollows ==
    /\ (\A u \in Updaters : pc[u] # "token") => env.sid = env.ts
    /\ \A u \in Updaters : pc[u] \in Updating => published = mine[u].sid
    /\ \A u \in Updaters : pc[u] \in {"token", "reset"} => env.sid = mine[u].sid
    /\ updating = None =>
         IF failed THEN published.acct # env.sid.acct ELSE published = env.sid

\* The client holds one account's cookies: the environment's, or those that an
\* updater has published and will put there.
ClientFollows ==
    /\ client # None => client.sid = client.ts
    /\ client # None /\ auth \notin Updaters =>
         /\ client.sid.acct = env.sid.acct
         /\ client = env \/ \E u \in Updaters : pc[u] = "compare" /\ client.sid = mine[u].sid
    /\ \A u \in Updaters : pc[u] \in Swapping /\ ~mine[u].changed =>
         IF client = None THEN env.sid = mine[u].sid /\ env.ts = mine[u].sid
         ELSE client.sid = mine[u].sid

\* A client is made only when there is none, from an environment that is not
\* swapped meanwhile, or else from the published cookies.
Swapped == \E u \in Updaters : pc[u] \in {"token", "reset"} /\ mine[u].changed
Drafts ==
    /\ making # None => client = None
    /\ ~Swapped => \A q \in Requests :
         /\ pc[q] \in {"make token", "make rest"} => mine[q].draft.sid = env.sid
         /\ pc[q] = "make rest" => mine[q].draft.ts = env.sid

\* The scope and the sessions are of the environment's account, and of the one
\* that it is swapped for.
Owners ==
    /\ scope.acct \in {None, env.sid.acct}
    /\ \A s \in sessions : s.acct = s.scope /\ s.acct = env.sid.acct
    /\ \A u \in Updaters : pc[u] \in Swapping =>
         /\ scope.acct \in {None, mine[u].sid.acct}
         /\ \A s \in sessions : s.acct = mine[u].sid.acct

\* A request of the present generation has the cookies of its account.
Bound(q) == pc[q] \in {"initialize", "store"} \/ (pc[q] \in Making /\ auth # q)
Generations ==
    \A q \in Requests :
        /\ mine[q].gen <= scope.gen
        /\ Bound(q) /\ mine[q].gen = scope.gen => scope.acct = mine[q].sid.acct

CredentialsInv ==
    /\ Typed /\ Locks /\ EnvFollows /\ ClientFollows /\ Drafts /\ Owners /\ Generations
    /\ ProfileIsRespected

-----------------------------------------------------------------------------
(* What a step leaves of the thread that takes it, and of the others.       *)

Mapped == pc' = [x \in Threads |-> pc'[x]] /\ mine' = [x \in Threads |-> mine'[x]]
Alone(t) ==
    /\ \A u \in Updaters : u # t => pc'[u] = pc[u] /\ mine'[u] = mine[u]
    /\ \A q \in Requests : q # t => pc'[q] = pc[q] /\ mine'[q] = mine[q]
    /\ Mapped
Moves(t, from, to) == pc[t] = from /\ pc'[t] = to /\ Alone(t)
Same(u) == mine'[u] \in Own /\ mine'[u].sid = mine[u].sid /\ mine'[u].valid = mine[u].valid
Shared == <<published, env, client, scope, sessions, updating, auth, making, failed>>

Browsed(u) ==
    /\ pc[u] = "read" /\ pc'[u] \in {"publish", "done"} /\ Alone(u) /\ UNCHANGED Shared
    /\ mine'[u] = mine[u] \/ (mine'[u] \in Own /\ mine'[u].sid.acct \in mine'[u].valid)
Published(u) ==
    /\ Moves(u, "publish", "compare") /\ mine'[u] = mine[u]
    /\ updating = None /\ updating' = u /\ published' = mine[u].sid
    /\ UNCHANGED <<env, client, scope, sessions, auth, making, failed>>
Judged(u, to) ==
    /\ Alone(u) /\ pc[u] = "compare" /\ pc'[u] = to /\ auth = None /\ making = None
    /\ Same(u)
    /\ ~mine'[u].changed =>
          IF client # None THEN client.sid = mine[u].sid
          ELSE env.sid = mine[u].sid /\ env.ts = mine[u].sid
    /\ UNCHANGED <<published, env, client, making>>
Replaced(u) ==
    /\ Judged(u, "identity")
    /\ sessions' = {} /\ scope' \in Scopes /\ scope'.acct = None /\ scope'.gen = scope.gen + 1
    /\ auth' = u /\ UNCHANGED <<failed, updating>>
Refused(u) ==
    /\ Judged(u, "done") /\ scope.acct \notin {None, mine[u].sid.acct}
    /\ sessions' = {} /\ failed' = TRUE /\ updating' = None
    /\ UNCHANGED <<scope, auth>>
Stayed(u) ==
    /\ Judged(u, "identity")
    /\ scope.acct = mine[u].sid.acct
       \/ (scope.acct = None /\ env.sid.acct = mine[u].sid.acct)
    /\ auth' = u /\ UNCHANGED <<sessions, scope, failed, updating>>
Compared(u) == Replaced(u) \/ Refused(u) \/ Stayed(u)
SwappedIdentity(u) ==
    /\ Moves(u, "identity", "token") /\ mine'[u] = mine[u]
    /\ env' \in Pairs /\ env'.sid = mine[u].sid /\ env'.ts = env.ts
    /\ UNCHANGED <<published, client, scope, sessions, updating, auth, making, failed>>
SwappedToken(u) ==
    /\ Moves(u, "token", "reset") /\ mine'[u] = mine[u]
    /\ env' \in Pairs /\ env'.ts = mine[u].sid /\ env'.sid = env.sid
    /\ UNCHANGED <<published, client, scope, sessions, updating, auth, making, failed>>
HasReset(u) ==
    /\ Moves(u, "reset", "done") /\ mine'[u] = mine[u]
    /\ mine[u].changed => making = None
    /\ client' = IF mine[u].changed THEN None ELSE client
    /\ auth' = None /\ updating' = None /\ failed' = FALSE
    /\ UNCHANGED <<published, env, scope, sessions, making>>
Enters(q, from, to) ==
    /\ Moves(q, from, to) /\ mine'[q] = mine[q] /\ making = None
    /\ from = "get" => auth = None
    /\ auth' = IF from = "get" THEN q ELSE auth
    /\ UNCHANGED <<published, env, client, scope, sessions, updating, failed>>
GotToMake(q) == Enters(q, "get", "make") /\ client = None /\ making' = q
GotToBind(q) == Enters(q, "get", "bind") /\ client # None /\ making' = making
AgainToMake(q) == Enters(q, "initialize", "make") /\ client = None /\ making' = q
AgainToStore(q) == Enters(q, "initialize", "store") /\ client # None /\ making' = making
Asked(q) == GotToMake(q) \/ GotToBind(q) \/ AgainToMake(q) \/ AgainToStore(q)
Drafting(q) == Same(q) /\ mine'[q].gen = mine[q].gen /\ UNCHANGED Shared
DraftedIdentity(q) ==
    /\ Moves(q, "make", "make token") /\ Drafting(q) /\ mine'[q].draft.sid = env.sid
DraftedToken(q) ==
    /\ Moves(q, "make token", "make rest") /\ Drafting(q)
    /\ mine'[q].draft.sid = mine[q].draft.sid /\ mine'[q].draft.ts = env.ts
Drafted(q) == DraftedIdentity(q) \/ DraftedToken(q)
Made(q) ==
    /\ pc[q] = "make rest" /\ Alone(q) /\ mine'[q] = mine[q]
    /\ client' \in Pairs
    /\ IF published.acct = env.sid.acct THEN client'.sid = published /\ client'.ts = published
       ELSE client' = mine[q].draft
    /\ making' = None
    /\ pc'[q] = IF auth = q THEN "bind" ELSE "store"
    /\ UNCHANGED <<published, env, scope, sessions, updating, auth, failed>>
Binds(q) ==
    /\ Moves(q, "bind", "initialize")
    /\ mine'[q] \in Own
    /\ client # None /\ scope' \in Scopes /\ scope'.acct = client.sid.acct
    /\ mine'[q].sid = client.sid /\ mine'[q].gen = scope'.gen
    /\ IF scope.acct \in {None, client.sid.acct} THEN scope'.gen = scope.gen
       ELSE scope'.gen = scope.gen + 1
    /\ auth' = None
    /\ UNCHANGED <<published, env, client, sessions, updating, making, failed>>
Stored(q) ==
    /\ Moves(q, "store", "done") /\ mine'[q] = mine[q] /\ auth = None
    /\ sessions' = IF mine[q].gen = scope.gen
                   THEN sessions \cup {[acct |-> mine[q].sid.acct, scope |-> scope.acct]}
                   ELSE sessions
    /\ UNCHANGED <<published, env, client, scope, updating, auth, making, failed>>

LEMMA Kinds ==
    ASSUME Distinct
    PROVE  /\ \A u \in Updaters : u # None /\ u \in Threads /\ u \notin Requests
           /\ \A q \in Requests : q # None /\ q \in Threads /\ q \notin Updaters
BY DEF Distinct, Threads

LEMMA FirstIsWanted ==
    \A candidates, wanted : \A c \in First(candidates, wanted) : c \in wanted
BY DEF First

\* Of the candidates that are wanted there is a first.
LEMMA FirstExists ==
    ASSUME NEW candidates, NEW n \in Nat, DOMAIN candidates = 1..n,
           NEW wanted, wanted \cap Range(candidates) # {}
    PROVE  First(candidates, wanted) # {}
<1> DEFINE T == {i \in 1..n : candidates[i] \in wanted}
           R == OpToRel(<, Nat)
<1>1. T \subseteq Nat /\ T # {}
  BY DEF Range
<1>2. IsWellFoundedOn(R, Nat)
  BY NatLessThanWellFounded
<1>3. PICK x \in T : \A y \in T : <<y, x>> \notin R
  BY <1>1, <1>2, WFMin
<1>4. \A y \in T : ~(y < x)
  <2>1. \A y \in T : <<y, x>> \in R <=> y < x
    BY <1>1 DEF OpToRel
  <2> QED
    BY <1>3, <2>1
<1>5. x \in 1..n /\ candidates[x] \in wanted
  BY <1>3
<1>6. \A h \in 1..(x - 1) : candidates[h] \notin wanted
  BY <1>4, <1>5
<1> QED
  BY <1>5, <1>6 DEF First

LEMMA ChosenIsValid ==
    ASSUME None \notin Accounts, NEW candidates, NEW n \in Nat, DOMAIN candidates = 1..n,
           Len(candidates) = n,
           NEW profile \in Accounts \cup {None},
           NEW signedIn \in SUBSET Accounts, NEW scheduled \in SUBSET Accounts,
           NEW inTime \in BOOLEAN,
           NEW acct \in Chosen(candidates, profile, signedIn, scheduled, inTime)
    PROVE  /\ acct \in Accounts
           /\ acct \in Valid(candidates, profile, signedIn, inTime)
           /\ Valid(candidates, profile, signedIn, inTime) \in SUBSET Accounts
<1>1. Valid(candidates, profile, signedIn, inTime) \in SUBSET Accounts
  BY DEF Valid
<1>2. \A c \in Validated(candidates, signedIn, scheduled) : c \in signedIn
  BY FirstIsWanted DEF Validated
<1>3. CASE profile # None
  <2>1. Chosen(candidates, profile, signedIn, scheduled, inTime) = First(candidates, {profile})
    BY <1>3 DEF Chosen
  <2>2. acct = profile
    BY <2>1, FirstIsWanted
  <2> QED
    BY <1>1, <1>3, <2>2 DEF Valid
<1>4. CASE profile = None
  <2> DEFINE valid == IF inTime THEN Validated(candidates, signedIn, scheduled) ELSE {}
  <2>1. CASE Len(candidates) <= 1 \/ valid = {}
    <3>1. Chosen(candidates, profile, signedIn, scheduled, inTime) = First(candidates, Accounts)
      BY <1>4, <2>1 DEF Chosen
    <3>2. acct \in Accounts
      BY <3>1, FirstIsWanted
    <3>3. ~(inTime /\ Len(candidates) > 1 /\ signedIn \cap Range(candidates) # {})
      <4> SUFFICES ASSUME inTime, Len(candidates) > 1, signedIn \cap Range(candidates) # {}
                   PROVE  FALSE
        OBVIOUS
      <4>1. First(candidates, signedIn) # {}
        BY FirstExists
      <4>2. Validated(candidates, signedIn, scheduled) # {}
        BY <4>1 DEF Validated
      <4> QED
        BY <2>1, <4>2
    <3> QED
      BY <1>1, <1>4, <3>2, <3>3 DEF Valid
  <2>2. CASE ~(Len(candidates) <= 1 \/ valid = {})
    <3>1. Chosen(candidates, profile, signedIn, scheduled, inTime) = valid
      BY <1>4, <2>2 DEF Chosen
    <3>2. acct \in signedIn
      BY <1>2, <2>2, <3>1
    <3>3. Valid(candidates, profile, signedIn, inTime) \in {signedIn, Accounts}
      BY <1>4 DEF Valid
    <3> QED
      BY <1>1, <3>2, <3>3
  <2> QED
    BY <2>1, <2>2
<1> QED
  BY <1>3, <1>4

LEMMA AloneWhen ==
    ASSUME Distinct, Typed, NEW t \in Threads, NEW p, NEW m,
           pc' = [pc EXCEPT ![t] = p], mine' = [mine EXCEPT ![t] = m]
    PROVE  Alone(t) /\ pc'[t] = p /\ mine'[t] = m
BY DEF Mapped, Typed, Alone, Threads

LEMMA AloneWhenSame ==
    ASSUME Distinct, Typed, NEW t \in Threads, NEW p,
           pc' = [pc EXCEPT ![t] = p], mine' = mine
    PROVE  Alone(t) /\ pc'[t] = p /\ mine'[t] = mine[t]
BY DEF Mapped, Typed, Alone, Threads

LEMMA Fields ==
    ASSUME Typed, NEW t \in Threads
    PROVE  /\ mine[t] \in Own /\ mine[t].sid \in Cookies /\ mine[t].draft \in Pairs
           /\ mine[t].gen \in Nat /\ mine[t].changed \in BOOLEAN
           /\ mine[t].sid.acct \in Accounts
BY DEF Typed, Own, Cookies

LEMMA Facts ==
    ASSUME Distinct, Typed
    PROVE  /\ \A u \in Updaters : mine[u].sid.acct # None
           /\ \A q \in Requests : mine[q].sid.acct # None /\ mine[q].gen \in Nat
           /\ scope.gen \in Nat
           /\ published.acct # None /\ env.sid.acct # None
           /\ client # None => client.sid.acct # None
<1>1. \A t \in Threads : mine[t].sid.acct # None /\ mine[t].gen \in Nat
  BY Fields DEF Distinct
<1>2. \A c \in Cookies : c.acct # None
  BY DEF Cookies, Distinct
<1>3. /\ published \in Cookies /\ env.sid \in Cookies /\ scope.gen \in Nat
      /\ client # None => client.sid \in Cookies
  BY DEF Typed, Pairs, Scopes
<1> QED
  BY Kinds, <1>1, <1>2, <1>3

LEMMA BrowserEffect ==
    ASSUME Distinct, Typed, NEW u \in Updaters, Browser(u)
    PROVE  Browsed(u)
<1>0. u \in Threads
  BY DEF Threads
<1>1. UNCHANGED Shared /\ pc[u] = "read"
  BY DEF Browser, Shared
<1>2. PICK candidates \in {<<>>} \cup {<<a>> : a \in Accounts}
                            \cup Injection(1..Cardinality(Accounts), Accounts),
           profile \in Accounts \cup {None}, signedIn \in SUBSET Accounts,
           scheduled \in SUBSET Accounts, inTime \in BOOLEAN :
        LET chosen == Chosen(candidates, profile, signedIn, scheduled, inTime)
        IN \/ chosen = {} /\ pc' = [pc EXCEPT ![u] = "done"] /\ UNCHANGED mine
           \/ \E acct \in chosen :
                /\ mine' = [mine EXCEPT
                      ![u].sid = Cookie(acct, 1),
                      ![u].valid = Valid(candidates, profile, signedIn, inTime)]
                /\ pc' = [pc EXCEPT ![u] = "publish"]
  BY DEF Browser
<1>3. CASE pc' = [pc EXCEPT ![u] = "done"] /\ UNCHANGED mine
  <2>1. Alone(u) /\ pc'[u] = "done" /\ mine'[u] = mine[u]
    BY <1>0, <1>3, AloneWhenSame
  <2> QED
    BY <1>1, <2>1 DEF Browsed
<1>4. ASSUME NEW acct \in Chosen(candidates, profile, signedIn, scheduled, inTime),
             mine' = [mine EXCEPT
                ![u].sid = Cookie(acct, 1),
                ![u].valid = Valid(candidates, profile, signedIn, inTime)],
             pc' = [pc EXCEPT ![u] = "publish"]
      PROVE  Browsed(u)
  <2> DEFINE v == Valid(candidates, profile, signedIn, inTime)
             m == [mine[u] EXCEPT !.sid = Cookie(acct, 1), !.valid = v]
  <2>1. DOMAIN candidates = 1..Len(candidates) /\ Len(candidates) \in Nat
    <3>1. CASE candidates = <<>>
      BY <3>1
    <3>2. CASE candidates \in {<<a>> : a \in Accounts}
      BY <3>2
    <3>3. CASE candidates \in Injection(1..Cardinality(Accounts), Accounts)
      <4>1. Cardinality(Accounts) \in Nat
        BY FS_CardinalityType DEF Distinct
      <4>2. candidates \in [1..Cardinality(Accounts) -> Accounts]
        BY <3>3 DEF Injection
      <4>3. candidates \in Seq(Accounts)
        BY <4>1, <4>2
      <4> QED
        BY <4>3, LenProperties
    <3> QED
      BY <3>1, <3>2, <3>3
  <2>2. acct \in Accounts /\ acct \in v /\ v \in SUBSET Accounts
    BY <2>1, ChosenIsValid DEF Distinct
  <2>3. mine[u] \in Own /\ Cookie(acct, 1) \in Cookies /\ Cookie(acct, 1).acct = acct
    BY <1>0, <2>2, Fields DEF Cookie, Cookies
  <2> HIDE DEF v
  <2>4. mine' = [mine EXCEPT ![u] = m]
    BY <1>0, <1>4, <2>3 DEF Typed, Own, v
  <2>5. m \in Own /\ m.sid = Cookie(acct, 1) /\ m.valid = v
    BY <2>2, <2>3 DEF Own
  <2> HIDE DEF m
  <2>6. Alone(u) /\ pc'[u] = "publish" /\ mine'[u] = m
    BY <1>0, <1>4, <2>4, AloneWhen
  <2> QED
    BY <1>1, <2>2, <2>3, <2>5, <2>6 DEF Browsed
<1> QED
  BY <1>2, <1>3, <1>4

LEMMA PublishEffect ==
    ASSUME Distinct, Typed, NEW u \in Updaters, Publish(u)
    PROVE  Published(u)
<1>0. u \in Threads
  BY DEF Threads
<1>1. Alone(u) /\ pc'[u] = "compare" /\ mine'[u] = mine[u]
  BY <1>0, AloneWhenSame DEF Publish
<1>2. mine[u].sid \in Cookies
  BY <1>0, Fields
<1> QED
  BY <1>1, <1>2 DEF Publish, Published, Moves, Free, SameGeneration, Typed, Pairs

LEMMA CompareEffect ==
    ASSUME Distinct, Typed, NEW u \in Updaters, Compare(u)
    PROVE  Compared(u)
<1>0. u \in Threads
  BY DEF Threads
<1> DEFINE m == [mine[u] EXCEPT !.changed = ~Matches(mine[u].sid)]
<1>1. mine' = [mine EXCEPT ![u] = m]
  BY <1>0 DEF Compare, Typed
<1>2. mine[u] \in Own
  BY <1>0, Fields
<1>m. Matches(mine[u].sid) \in BOOLEAN
  BY DEF Matches
<1>3. /\ m \in Own /\ m.sid = mine[u].sid /\ m.valid = mine[u].valid
      /\ m.changed = ~Matches(mine[u].sid)
  BY <1>2, <1>m DEF Own
<1> HIDE DEF m
<1>4. /\ pc[u] = "compare" /\ auth = None /\ making = None
      /\ UNCHANGED <<published, env, client, making>>
  BY DEF Compare, Free
<1>5. Matches(mine[u].sid) =>
        IF client # None THEN client.sid = mine[u].sid
        ELSE env.sid = mine[u].sid /\ env.ts = mine[u].sid
  BY DEF Matches
<1>6. CASE Identity(mine[u].sid) /\ pc' = [pc EXCEPT ![u] = "identity"]
  <2>1. Alone(u) /\ pc'[u] = "identity" /\ mine'[u] = m
    BY <1>0, <1>1, <1>6, AloneWhen
  <2>2. /\ sessions' = {}
        /\ scope' = [acct |-> None, gen |-> scope.gen + 1] /\ scope' \in Scopes
        /\ auth' = u /\ UNCHANGED <<failed, updating>>
    BY <1>6, <2>1, Facts DEF Compare, Scopes
  <2> QED
    BY <1>3, <1>4, <1>5, <2>1, <2>2 DEF Compared, Replaced, Refused, Stayed, Judged,
      Same
<1>7. CASE Identity(mine[u].sid) /\ pc' = [pc EXCEPT ![u] = "done"]
  <2>1. Alone(u) /\ pc'[u] = "done" /\ mine'[u] = m
    BY <1>0, <1>1, <1>7, AloneWhen
  <2>2. /\ sessions' = {} /\ scope.acct # None /\ failed' = TRUE /\ updating' = None
        /\ UNCHANGED <<scope, auth>>
    BY <1>0, <1>7, <2>1 DEF Compare, Typed
  <2>3. scope.acct \notin {None, mine[u].sid.acct}
    BY <1>7, <2>2 DEF Identity
  <2> QED
    BY <1>3, <1>4, <1>5, <2>1, <2>2, <2>3 DEF Compared, Replaced, Refused, Stayed,
      Judged, Same
<1>8. CASE ~Identity(mine[u].sid)
  <2>1. /\ pc' = [pc EXCEPT ![u] = "identity"]
        /\ auth' = u /\ UNCHANGED <<sessions, scope, failed, updating>>
    BY <1>8 DEF Compare
  <2>2. Alone(u) /\ pc'[u] = "identity" /\ mine'[u] = m
    BY <1>0, <1>1, <2>1, AloneWhen
  <2>3. scope.acct = mine[u].sid.acct
          \/ (scope.acct = None /\ env.sid.acct = mine[u].sid.acct)
    BY <1>8 DEF Identity
  <2> QED
    BY <1>3, <1>4, <1>5, <2>1, <2>2, <2>3 DEF Compared, Replaced, Refused, Stayed,
      Judged, Same
<1> QED
  BY <1>6, <1>7, <1>8 DEF Compare

LEMMA SwapIdentityEffect ==
    ASSUME Distinct, Typed, NEW u \in Updaters, SwapIdentity(u)
    PROVE  SwappedIdentity(u)
<1>0. u \in Threads
  BY DEF Threads
<1>1. Alone(u) /\ pc'[u] = "token" /\ mine'[u] = mine[u]
  BY <1>0, AloneWhenSame DEF SwapIdentity
<1>2. mine[u].sid \in Cookies
  BY <1>0, Fields
<1> QED
  BY <1>1, <1>2 DEF SwapIdentity, SwappedIdentity, Moves, Free, SameGeneration, Typed,
    Pairs

LEMMA SwapTokenEffect ==
    ASSUME Distinct, Typed, NEW u \in Updaters, SwapToken(u)
    PROVE  SwappedToken(u)
<1>0. u \in Threads
  BY DEF Threads
<1>1. Alone(u) /\ pc'[u] = "reset" /\ mine'[u] = mine[u]
  BY <1>0, AloneWhenSame DEF SwapToken
<1>2. mine[u].sid \in Cookies
  BY <1>0, Fields
<1> QED
  BY <1>1, <1>2 DEF SwapToken, SwappedToken, Moves, Free, SameGeneration, Typed, Pairs

LEMMA ResetEffect ==
    ASSUME Distinct, Typed, NEW u \in Updaters, Reset(u)
    PROVE  HasReset(u)
<1>0. u \in Threads
  BY DEF Threads
<1>1. Alone(u) /\ pc'[u] = "done" /\ mine'[u] = mine[u]
  BY <1>0, AloneWhenSame DEF Reset
<1>2. mine[u].sid \in Cookies
  BY <1>0, Fields
<1> QED
  BY <1>1, <1>2 DEF Reset, HasReset, Moves, Free, SameGeneration, Typed, Pairs

LEMMA GetEffect ==
    ASSUME Distinct, Typed, NEW q \in Requests, Get(q)
    PROVE  Asked(q)
<1>0. q \in Threads
  BY DEF Threads
<1>1. Alone(q) /\ pc'[q] = (IF client = None THEN "make" ELSE "bind") /\ mine'[q] = mine[q]
  BY <1>0, AloneWhenSame DEF Get
<1> QED
  BY <1>1 DEF Get, Asked, Free, GotToMake, GotToBind, AgainToMake, AgainToStore,
    Enters, Moves

LEMMA InitializeEffect ==
    ASSUME Distinct, Typed, NEW q \in Requests, Initialize(q)
    PROVE  Asked(q)
<1>0. q \in Threads
  BY DEF Threads
<1>1. Alone(q) /\ pc'[q] = (IF client = None THEN "make" ELSE "store") /\ mine'[q] = mine[q]
  BY <1>0, AloneWhenSame DEF Initialize
<1> QED
  BY <1>1 DEF Initialize, Asked, Free, GotToMake, GotToBind, AgainToMake,
    AgainToStore, Enters, Moves

LEMMA MakeEffect ==
    ASSUME Distinct, Typed, NEW q \in Requests, Make(q)
    PROVE  Drafted(q)
<1>0. q \in Threads
  BY DEF Threads
<1> DEFINE m == [mine[q] EXCEPT !.draft.sid = env.sid]
<1>1. mine' = [mine EXCEPT ![q] = m]
  BY <1>0 DEF Make, Typed
<1>2. mine[q] \in Own
  BY <1>0, Fields
<1>3. /\ m \in Own /\ m.sid = mine[q].sid /\ m.valid = mine[q].valid /\ m.gen = mine[q].gen
      /\ m.draft.sid = env.sid /\ m.draft.ts = mine[q].draft.ts
  BY <1>2 DEF Own, Pairs, Typed
<1> HIDE DEF m
<1>4. Alone(q) /\ pc'[q] = "make token" /\ mine'[q] = m
  BY <1>0, <1>1, AloneWhen DEF Make
<1> QED
  BY <1>3, <1>4 DEF Make, Drafted, DraftedIdentity, DraftedToken, Drafting, Moves,
    Same, Shared

LEMMA MakeTokenEffect ==
    ASSUME Distinct, Typed, NEW q \in Requests, MakeToken(q)
    PROVE  Drafted(q)
<1>0. q \in Threads
  BY DEF Threads
<1> DEFINE m == [mine[q] EXCEPT !.draft.ts = env.ts]
<1>1. mine' = [mine EXCEPT ![q] = m]
  BY <1>0 DEF MakeToken, Typed
<1>2. mine[q] \in Own
  BY <1>0, Fields
<1>3. /\ m \in Own /\ m.sid = mine[q].sid /\ m.valid = mine[q].valid /\ m.gen = mine[q].gen
      /\ m.draft.ts = env.ts /\ m.draft.sid = mine[q].draft.sid
  BY <1>2 DEF Own, Pairs, Typed
<1> HIDE DEF m
<1>4. Alone(q) /\ pc'[q] = "make rest" /\ mine'[q] = m
  BY <1>0, <1>1, AloneWhen DEF MakeToken
<1> QED
  BY <1>3, <1>4 DEF MakeToken, Drafted, DraftedIdentity, DraftedToken, Drafting,
    Moves, Same, Shared

LEMMA MakeRestEffect ==
    ASSUME Distinct, Typed, NEW q \in Requests, MakeRest(q)
    PROVE  Made(q)
<1>0. q \in Threads
  BY DEF Threads
<1>1. Alone(q) /\ pc'[q] = (IF Holds(q) THEN "bind" ELSE "store") /\ mine'[q] = mine[q]
  BY <1>0, AloneWhenSame DEF MakeRest
<1>2. published # None /\ [sid |-> published, ts |-> published] \in Pairs
  BY DEF Distinct, Typed, Pairs
<1>3. IF published.acct = env.sid.acct
      THEN client' \in Pairs /\ client'.sid = published /\ client'.ts = published
      ELSE client' = mine[q].draft
  <2>1. CASE published.acct = env.sid.acct
    <3>1. client' = [sid |-> published, ts |-> published]
      BY <1>2, <2>1 DEF MakeRest, Extra
    <3> QED
      BY <1>2, <2>1, <3>1
  <2>2. CASE published.acct # env.sid.acct
    BY <2>2 DEF MakeRest, Extra
  <2> QED
    BY <2>1, <2>2
<1>4. mine[q].draft \in Pairs
  BY <1>0, Fields
<1>5. client' \in Pairs
  BY <1>3, <1>4
<1> QED
  BY <1>1, <1>3, <1>5 DEF MakeRest, Made, Holds

LEMMA BindEffect ==
    ASSUME Distinct, Typed, NEW q \in Requests, Bind(q)
    PROVE  Binds(q)
<1>0. q \in Threads
  BY DEF Threads
<1> DEFINE gen == IF scope.acct \notin {None, client.sid.acct} THEN scope.gen + 1
                  ELSE scope.gen
           m == [mine[q] EXCEPT !.sid = client.sid, !.gen = gen]
<1>1. mine' = [mine EXCEPT ![q] = m] /\ scope' = [acct |-> client.sid.acct, gen |-> gen]
  BY <1>0 DEF Bind, Typed
<1>2. mine[q] \in Own
  BY <1>0, Fields
<1>5. gen \in Nat /\ client.sid \in Cookies
  BY Facts DEF Typed, Bind, Pairs
<1>6. client.sid.acct \in Accounts
  BY <1>5 DEF Cookies
<1> HIDE DEF gen
<1>3. m \in Own /\ m.sid = client.sid /\ m.gen = gen
  BY <1>2, <1>5 DEF Own
<1> HIDE DEF m
<1>4. Alone(q) /\ pc'[q] = "initialize" /\ mine'[q] = m
  BY <1>0, <1>1, AloneWhen DEF Bind
<1> QED
  BY <1>1, <1>3, <1>4, <1>5, <1>6 DEF Bind, Binds, Moves, Scopes, gen

LEMMA StoreEffect ==
    ASSUME Distinct, Typed, NEW q \in Requests, Store(q)
    PROVE  Stored(q)
<1>0. q \in Threads
  BY DEF Threads
<1>1. Alone(q) /\ pc'[q] = "done" /\ mine'[q] = mine[q]
  BY <1>0, AloneWhenSame DEF Store
<1>2. mine[q].sid \in Cookies
  BY <1>0, Fields
<1> QED
  BY <1>1, <1>2 DEF Store, Stored, Moves, Free, SameGeneration, Typed, Pairs

Effects == \/ \E u \in Updaters : \/ Browsed(u) \/ Published(u) \/ Compared(u)
                                   \/ SwappedIdentity(u) \/ SwappedToken(u) \/ HasReset(u)
           \/ \E q \in Requests : Asked(q) \/ Drafted(q) \/ Made(q) \/ Binds(q) \/ Stored(q)

LEMMA Steps ==
    ASSUME Distinct, Typed, Next
    PROVE  Effects
<1>1. ASSUME NEW u \in Updaters, \/ Browser(u) \/ Publish(u) \/ Compare(u)
                                 \/ SwapIdentity(u) \/ SwapToken(u) \/ Reset(u)
      PROVE  Effects
  BY <1>1, BrowserEffect, PublishEffect, CompareEffect, SwapIdentityEffect,
    SwapTokenEffect, ResetEffect DEF Effects
<1>2. ASSUME NEW q \in Requests, \/ Get(q) \/ Initialize(q) \/ Make(q) \/ MakeToken(q)
                                 \/ MakeRest(q) \/ Bind(q) \/ Store(q)
      PROVE  Effects
  BY <1>2, GetEffect, InitializeEffect, MakeEffect, MakeTokenEffect, MakeRestEffect,
    BindEffect, StoreEffect DEF Effects
<1> QED
  BY <1>1, <1>2 DEF Next

-----------------------------------------------------------------------------
(* Each part of the invariant survives each step.                           *)

\* What the other requests and the updaters see of a request's step.
ByRequest(q) ==
    /\ \A u \in Updaters : pc'[u] = pc[u] /\ mine'[u] = mine[u]
    /\ \A x \in Requests : x # q => pc'[x] = pc[x] /\ mine'[x] = mine[x]
    /\ UNCHANGED <<published, env, updating, failed>>
    /\ Asked(q) \/ Drafted(q) \/ Made(q) \/ Binds(q) \/ Stored(q)

LEMMA RequestSteps ==
    ASSUME Distinct, NEW q \in Requests,
           Asked(q) \/ Drafted(q) \/ Made(q) \/ Binds(q) \/ Stored(q)
    PROVE  ByRequest(q)
<1>1. CASE Asked(q)
  BY <1>1, Kinds DEF Asked, GotToMake, GotToBind, AgainToMake, AgainToStore, Enters,
    Moves, Alone, ByRequest
<1>2. CASE Drafted(q)
  BY <1>2, Kinds DEF Drafted, DraftedIdentity, DraftedToken, Drafting, Shared, Moves,
    Alone, ByRequest
<1>3. CASE Made(q)
  BY <1>3, Kinds DEF Made, Alone, ByRequest
<1>4. CASE Binds(q)
  BY <1>4, Kinds DEF Binds, Moves, Alone, ByRequest
<1>5. CASE Stored(q)
  BY <1>5, Kinds DEF Stored, Moves, Alone, ByRequest
<1> QED
  BY <1>1, <1>2, <1>3, <1>4, <1>5

LEMMA AllSteps ==
    ASSUME Distinct, Typed, Next
    PROVE  \/ \E u \in Updaters : \/ Browsed(u) \/ Published(u)
                                  \/ Replaced(u) \/ Refused(u) \/ Stayed(u)
                                  \/ SwappedIdentity(u) \/ SwappedToken(u) \/ HasReset(u)
           \/ \E q \in Requests :
                 /\ ByRequest(q)
                 /\ \/ GotToMake(q) \/ GotToBind(q) \/ AgainToMake(q) \/ AgainToStore(q)
                    \/ DraftedIdentity(q) \/ DraftedToken(q)
                    \/ Made(q) \/ Binds(q) \/ Stored(q)
BY Steps, RequestSteps DEF Effects, Compared, Asked, Drafted

LEMMA LocksStep ==
    ASSUME Distinct, CredentialsInv, Next
    PROVE  Locks'
<1>f. Typed
  BY DEF CredentialsInv
<1>0. Locks
  BY DEF CredentialsInv
<1> USE DEF Locks, Swapping, Updating, Making
<1>1. ASSUME NEW u \in Updaters, Browsed(u)  PROVE Locks'
  BY <1>0, <1>1, Kinds DEF Browsed, Alone, Shared
<1>2. ASSUME NEW u \in Updaters, Published(u)  PROVE Locks'
  BY <1>0, <1>2, Kinds DEF Published, Alone, Moves
<1>3. ASSUME NEW u \in Updaters, Replaced(u) \/ Refused(u) \/ Stayed(u)  PROVE Locks'
  <2>1. CASE Replaced(u)
    <3>1. /\ Alone(u) /\ pc[u] = "compare" /\ pc'[u] = "identity" /\ auth = None /\ auth' = u
          /\ UNCHANGED <<updating, making>>
      BY <2>1 DEF Replaced, Judged
    <3> QED
      BY <1>0, <3>1, Kinds DEF Alone
  <2>2. CASE Refused(u)
    BY <1>0, <2>2, Kinds DEF Refused, Judged, Alone
  <2>3. CASE Stayed(u)
    BY <1>0, <2>3, Kinds DEF Stayed, Judged, Alone
  <2> QED
    BY <1>3, <2>1, <2>2, <2>3
<1>4. ASSUME NEW u \in Updaters, SwappedIdentity(u) \/ SwappedToken(u)  PROVE Locks'
  BY <1>0, <1>4, Kinds DEF SwappedIdentity, SwappedToken, Alone, Moves
<1>5. ASSUME NEW u \in Updaters, HasReset(u)  PROVE Locks'
  BY <1>0, <1>5, Kinds DEF HasReset, Alone, Moves
<1>6. ASSUME NEW q \in Requests, GotToMake(q) \/ GotToBind(q)  PROVE Locks'
  BY <1>0, <1>6, Kinds DEF GotToMake, GotToBind, Enters, Alone, Moves
<1>7. ASSUME NEW q \in Requests, AgainToMake(q) \/ AgainToStore(q)  PROVE Locks'
  BY <1>0, <1>7, Kinds DEF AgainToMake, AgainToStore, Enters, Alone, Moves
<1>8. ASSUME NEW q \in Requests, DraftedIdentity(q) \/ DraftedToken(q)  PROVE Locks'
  BY <1>0, <1>8, Kinds DEF DraftedIdentity, DraftedToken, Drafting, Shared, Alone, Moves
<1>9. ASSUME NEW q \in Requests, Made(q)  PROVE Locks'
  BY <1>0, <1>9, Kinds DEF Made, Alone
<1>10. ASSUME NEW q \in Requests, Binds(q) \/ Stored(q)  PROVE Locks'
  BY <1>0, <1>10, Kinds DEF Binds, Stored, Alone, Moves
<1> QED
  BY <1>f, AllSteps, <1>1, <1>2, <1>3, <1>4, <1>5, <1>6, <1>7, <1>8, <1>9, <1>10

LEMMA EnvFollowsStep ==
    ASSUME Distinct, CredentialsInv, Next
    PROVE  EnvFollows'
<1>f. Typed
  BY DEF CredentialsInv
<1>0. Locks /\ EnvFollows /\ Owners
  BY DEF CredentialsInv
<1>1. ASSUME NEW u \in Updaters, Browsed(u)  PROVE EnvFollows'
  BY <1>0, <1>1, Kinds DEF Browsed, Alone, Shared, EnvFollows, Updating, Swapping
<1>2. ASSUME NEW u \in Updaters, Published(u)  PROVE EnvFollows'
  BY <1>0, <1>2, Kinds DEF Published, Alone, Moves, Locks, EnvFollows, Updating,
    Swapping
<1>3. ASSUME NEW u \in Updaters, Replaced(u) \/ Stayed(u)  PROVE EnvFollows'
  BY <1>0, <1>3, Kinds DEF Replaced, Stayed, Judged, Same, Alone, Locks, EnvFollows,
    Updating, Swapping
<1>4. ASSUME NEW u \in Updaters, Refused(u)  PROVE EnvFollows'
  BY <1>0, <1>4, Kinds DEF Refused, Judged, Same, Alone, Locks, EnvFollows, Owners,
    Updating, Swapping
<1>5. ASSUME NEW u \in Updaters, SwappedIdentity(u)  PROVE EnvFollows'
  BY <1>0, <1>5, Kinds DEF SwappedIdentity, Alone, Moves, Locks, EnvFollows, Updating,
    Swapping
<1>6. ASSUME NEW u \in Updaters, SwappedToken(u)  PROVE EnvFollows'
  BY <1>0, <1>6, Kinds DEF SwappedToken, Alone, Moves, Locks, EnvFollows, Updating,
    Swapping
<1>7. ASSUME NEW u \in Updaters, HasReset(u)  PROVE EnvFollows'
  BY <1>0, <1>7, Kinds DEF HasReset, Alone, Moves, Locks, EnvFollows, Updating, Swapping
<1>8. ASSUME NEW q \in Requests, ByRequest(q)  PROVE EnvFollows'
  BY <1>0, <1>8 DEF ByRequest, EnvFollows
<1> QED
  BY <1>f, AllSteps, <1>1, <1>2, <1>3, <1>4, <1>5, <1>6, <1>7, <1>8

\* Most steps let no request be bound that was not.
KeepBound ==
    /\ UNCHANGED scope
    /\ \A q \in Requests : /\ mine'[q].gen = mine[q].gen /\ mine'[q].sid = mine[q].sid
                           /\ Bound(q)' => Bound(q)

LEMMA GenerationsStep ==
    ASSUME Distinct, CredentialsInv, Next
    PROVE  Generations'
<1>f. Typed
  BY DEF CredentialsInv
<1>0. Locks /\ Generations
  BY DEF CredentialsInv
<1>1. ASSUME KeepBound  PROVE Generations'
  BY <1>0, <1>1 DEF KeepBound, Generations
<1>2. ASSUME NEW u \in Updaters, \/ Browsed(u) \/ Published(u) \/ Refused(u) \/ Stayed(u)
                                 \/ SwappedIdentity(u) \/ SwappedToken(u) \/ HasReset(u)
      PROVE  KeepBound
  <2>1. /\ UNCHANGED scope
        /\ \A q \in Requests : pc'[q] = pc[q] /\ mine'[q] = mine[q]
    BY <1>2, Kinds DEF Browsed, Published, Refused, Stayed, Judged, SwappedIdentity,
      SwappedToken,
      HasReset, Shared, Moves, Alone
  <2>2. auth' = auth \/ auth \in {None, u}
    BY <1>0, <1>2, Kinds DEF Browsed, Published, Refused, Stayed, Judged,
      SwappedIdentity,
      SwappedToken, HasReset, Shared, Moves, Locks, Swapping
  <2> QED
    BY <2>1, <2>2, Kinds DEF KeepBound, Bound
<1>3. ASSUME NEW u \in Updaters, Replaced(u)  PROVE Generations'
  <2>1. \A q \in Requests : pc'[q] = pc[q] /\ mine'[q] = mine[q]
    BY <1>3, Kinds DEF Replaced, Judged, Alone
  <2>2. \A q \in Requests : mine[q].gen <= scope.gen /\ mine[q].gen \in Nat /\ scope.gen \in Nat
    BY <1>0, <1>f, Facts DEF Generations
  <2>3. scope'.gen = scope.gen + 1
    BY <1>3 DEF Replaced
  <2> QED
    BY <2>1, <2>2, <2>3 DEF Generations
<1>4. ASSUME NEW q \in Requests, ByRequest(q),
             GotToMake(q) \/ GotToBind(q) \/ AgainToMake(q) \/ AgainToStore(q)
      PROVE  KeepBound
  <2>1. /\ UNCHANGED scope /\ mine'[q] = mine[q]
        /\ \/ auth' = auth /\ pc[q] = "initialize"
           \/ auth' = q /\ auth = None /\ pc'[q] \in {"make", "bind"}
    BY <1>4 DEF GotToMake, GotToBind, AgainToMake, AgainToStore, Enters, Moves
  <2> QED
    BY <1>4, <2>1, Kinds DEF ByRequest, KeepBound, Bound, Making
<1>5. ASSUME NEW q \in Requests, ByRequest(q),
             DraftedIdentity(q) \/ DraftedToken(q) \/ Made(q) \/ Stored(q)
      PROVE  KeepBound
  <2>1. UNCHANGED <<scope, auth>> /\ mine'[q].gen = mine[q].gen /\ mine'[q].sid = mine[q].sid
    BY <1>5 DEF DraftedIdentity, DraftedToken, Drafting, Same, Shared, Made, Stored,
      Moves
  <2>2. (pc[q] \in Making /\ pc'[q] \in Making \cup {"store", "bind"}) \/ pc'[q] = "done"
    BY <1>5 DEF DraftedIdentity, DraftedToken, Made, Stored, Moves, Making
  <2>3. pc'[q] = "store" => auth # q
    BY <1>5 DEF DraftedIdentity, DraftedToken, Made, Stored, Moves
  <2> QED
    BY <1>5, <2>1, <2>2, <2>3, Kinds DEF ByRequest, KeepBound, Bound, Making
<1>6. ASSUME NEW q \in Requests, ByRequest(q), Binds(q)  PROVE Generations'
  <2>1. /\ auth = q /\ auth' = None /\ pc'[q] = "initialize"
        /\ scope'.acct = client.sid.acct /\ mine'[q].sid = client.sid /\ mine'[q].gen = scope'.gen
        /\ IF scope.acct \in {None, client.sid.acct} THEN scope'.gen = scope.gen
           ELSE scope'.gen = scope.gen + 1
    BY <1>0, <1>6 DEF Binds, Moves, Locks
  <2>2. /\ scope.gen \in Nat
        /\ \A x \in Requests : mine[x].gen \in Nat /\ mine[x].gen <= scope.gen /\ mine[x].sid.acct # None
    BY <1>0, <1>f, Facts DEF Generations
  <2>3. ASSUME NEW x \in Requests, x # q
        PROVE  /\ mine'[x].gen <= scope'.gen
               /\ Bound(x)' /\ mine'[x].gen = scope'.gen => scope'.acct = mine'[x].sid.acct
    <3>1. pc'[x] = pc[x] /\ mine'[x] = mine[x] /\ auth # x
      BY <1>6, <2>1, <2>3 DEF ByRequest
    <3>2. Bound(x)' => Bound(x)
      BY <3>1 DEF Bound
    <3>3. CASE scope.acct \in {None, client.sid.acct}
      BY <1>0, <2>1, <2>2, <3>1, <3>2, <3>3 DEF Generations
    <3>4. CASE scope.acct \notin {None, client.sid.acct}
      BY <2>1, <2>2, <3>1, <3>4
    <3> QED
      BY <3>3, <3>4
  <2>4. scope'.gen \in Nat
    BY <2>1, <2>2
  <2>5. mine'[q].gen <= scope'.gen /\ scope'.acct = mine'[q].sid.acct
    BY <2>1, <2>4
  <2> QED
    BY <2>3, <2>5 DEF Generations
<1> QED
  BY <1>f, AllSteps, <1>1, <1>2, <1>3, <1>4, <1>5, <1>6

\* Most steps leave the accounts alone and let no updater begin to swap them.
KeepOwners ==
    /\ UNCHANGED <<scope, sessions>> /\ env'.sid = env.sid
    /\ \A u \in Updaters : pc'[u] \in Swapping => pc[u] \in Swapping /\ mine'[u].sid = mine[u].sid

LEMMA OwnersStep ==
    ASSUME Distinct, CredentialsInv, Next
    PROVE  Owners'
<1>f. Typed
  BY DEF CredentialsInv
<1>0. Locks /\ Owners /\ Generations
  BY DEF CredentialsInv
<1>1. ASSUME KeepOwners  PROVE Owners'
  BY <1>0, <1>1 DEF KeepOwners, Owners
<1>2. ASSUME NEW u \in Updaters, Browsed(u) \/ Published(u) \/ SwappedToken(u) \/ HasReset(u)
      PROVE  KeepOwners
  BY <1>2 DEF Browsed, Published, SwappedToken, HasReset, Shared, Moves, Alone,
    KeepOwners, Swapping
<1>3. ASSUME NEW u \in Updaters, Replaced(u) \/ Refused(u)  PROVE Owners'
  BY <1>0, <1>3, Kinds DEF Replaced, Refused, Judged, Alone, Locks, Owners, Swapping
<1>4. ASSUME NEW u \in Updaters, Stayed(u)  PROVE Owners'
  <2>1. /\ UNCHANGED <<scope, sessions, env>> /\ mine'[u].sid = mine[u].sid
        /\ \A x \in Updaters : x # u => pc'[x] = pc[x] /\ mine'[x] = mine[x]
    BY <1>4 DEF Stayed, Judged, Same, Alone
  <2>2. scope.acct \in {None, mine[u].sid.acct} /\ env.sid.acct = mine[u].sid.acct
    BY <1>0, <1>4, <1>f, Facts DEF Stayed, Owners
  <2> QED
    BY <1>0, <2>1, <2>2 DEF Owners
<1>5. ASSUME NEW u \in Updaters, SwappedIdentity(u)  PROVE Owners'
  <2>1. /\ UNCHANGED <<scope, sessions>> /\ env'.sid = mine[u].sid
        /\ pc[u] \in Swapping
        /\ \A x \in Updaters : mine'[x] = mine[x] /\ (x # u => pc'[x] = pc[x])
    BY <1>5 DEF SwappedIdentity, Moves, Alone, Swapping
  <2> QED
    BY <1>0, <2>1 DEF Owners
<1>6. ASSUME NEW q \in Requests, ByRequest(q),
             \/ GotToMake(q) \/ GotToBind(q) \/ AgainToMake(q) \/ AgainToStore(q)
             \/ DraftedIdentity(q) \/ DraftedToken(q) \/ Made(q)
      PROVE  KeepOwners
  <2>1. UNCHANGED <<scope, sessions>>
    BY <1>6 DEF GotToMake, GotToBind, AgainToMake, AgainToStore, Enters,
      DraftedIdentity,
      DraftedToken, Drafting, Shared, Made
  <2> QED
    BY <1>6, <2>1 DEF ByRequest, KeepOwners
<1>7. ASSUME NEW q \in Requests, ByRequest(q), Binds(q)  PROVE Owners'
  <2>1. auth = q /\ UNCHANGED <<client, sessions>> /\ client # None /\ scope'.acct = client.sid.acct
    BY <1>0, <1>7 DEF Binds, Moves, Locks
  <2>2. \A u \in Updaters : pc[u] \notin Swapping
    BY <1>0, <2>1, Kinds DEF Locks
  <2>3. client.sid.acct = env.sid.acct
    BY <2>1, Kinds DEF CredentialsInv, ClientFollows
  <2> QED
    BY <1>0, <1>7, <2>1, <2>2, <2>3 DEF ByRequest, Owners
<1>8. ASSUME NEW q \in Requests, ByRequest(q), Stored(q)  PROVE Owners'
  <2>1. auth = None /\ UNCHANGED scope /\ pc[q] = "store"
    BY <1>8 DEF Stored, Moves
  <2>2. \A u \in Updaters : pc[u] \notin Swapping
    BY <1>0, <2>1, Kinds DEF Locks
  <2>3. mine[q].gen = scope.gen => scope.acct = mine[q].sid.acct /\ mine[q].sid.acct = env.sid.acct
    BY <1>0, <1>f, <2>1, Facts DEF Generations, Bound, Owners
  <2>4. \A s \in sessions' : s \in sessions
          \/ (mine[q].gen = scope.gen /\ s = [acct |-> mine[q].sid.acct, scope |-> scope.acct])
    BY <1>8 DEF Stored
  <2>5. \A s \in sessions' : s.acct = s.scope /\ s.acct = env.sid.acct
    BY <1>0, <2>3, <2>4 DEF Owners
  <2> QED
    BY <1>0, <1>8, <2>1, <2>2, <2>5 DEF ByRequest, Owners
<1> QED
  BY <1>f, AllSteps, <1>1, <1>2, <1>3, <1>4, <1>5, <1>6, <1>7, <1>8

-----------------------------------------------------------------------------
\* While a client is made, the cookies it is made of are one account's, and
\* nobody swaps the environment's without having published them.
LEMMA MakingFacts ==
    ASSUME Distinct, CredentialsInv, NEW q \in Requests, pc[q] \in Making
    PROVE  /\ making = q /\ client = None
           /\ \A x \in Requests : pc[x] \in Making => x = q
           /\ \A u \in Updaters : pc[u] \in Swapping /\ ~mine[u].changed =>
                env.sid = mine[u].sid /\ env.ts = mine[u].sid
           /\ ~Swapped => env.sid = env.ts
<1>1. Locks /\ EnvFollows /\ ClientFollows /\ Drafts
  BY DEF CredentialsInv
<1>2. making = q /\ client = None /\ \A x \in Requests : pc[x] \in Making => x = q
  BY <1>1, Kinds DEF Locks, Drafts
<1>3. \A u \in Updaters : pc[u] \in Swapping /\ ~mine[u].changed =>
         env.sid = mine[u].sid /\ env.ts = mine[u].sid
  BY <1>1, <1>2 DEF ClientFollows
<1>4. ~Swapped => env.sid = env.ts
  BY <1>1, <1>3 DEF EnvFollows, Swapped, Swapping
<1> QED
  BY <1>2, <1>3, <1>4

\* Most steps begin no client, swap nothing, and leave the drafts as they are.
KeepDrafts ==
    /\ env' = env /\ (Swapped => Swapped')
    /\ making' = making \/ making' = None
    /\ client' = client \/ client' = None \/ making' = None
    /\ \A q \in Requests : pc'[q] \in {"make token", "make rest"} =>
                              pc'[q] = pc[q] /\ mine'[q] = mine[q]

LEMMA DraftsStep ==
    ASSUME Distinct, CredentialsInv, Next
    PROVE  Drafts'
<1>f. Typed
  BY DEF CredentialsInv
<1>0. Locks /\ Drafts
  BY DEF CredentialsInv
<1>1. ASSUME KeepDrafts  PROVE Drafts'
  BY <1>0, <1>1 DEF KeepDrafts, Drafts
<1>2. ASSUME NEW u \in Updaters,
             Browsed(u) \/ Published(u) \/ Replaced(u) \/ Refused(u) \/ Stayed(u)
      PROVE  KeepDrafts
  <2>1. UNCHANGED <<env, making, client>> /\ Alone(u) /\ pc[u] \notin {"token", "reset"}
    BY <1>2 DEF Browsed, Published, Replaced, Refused, Stayed, Judged, Shared, Moves
  <2>2. Swapped => Swapped'
    BY <2>1 DEF Swapped, Alone
  <2> QED
    BY <2>1, <2>2, Kinds DEF KeepDrafts, Alone
<1>3. ASSUME NEW u \in Updaters, SwappedIdentity(u)  PROVE Drafts'
  <2>1. /\ UNCHANGED <<making, client>> /\ env'.sid = mine[u].sid /\ env'.ts = env.ts
        /\ pc[u] = "identity" /\ pc'[u] = "token" /\ mine'[u] = mine[u] /\ Alone(u)
    BY <1>3 DEF SwappedIdentity, Moves
  <2>2. ASSUME ~Swapped', NEW q \in Requests, pc'[q] \in {"make token", "make rest"}
        PROVE  /\ mine'[q].draft.sid = env'.sid
               /\ pc'[q] = "make rest" => mine'[q].draft.ts = env'.sid
    <3>1. pc'[q] = pc[q] /\ mine'[q] = mine[q]
      BY <2>1, Kinds DEF Alone
    <3>2. ~mine[u].changed
      BY <2>1, <2>2 DEF Swapped
    <3>3. ~Swapped
      BY <2>1, <2>2 DEF Swapped, Alone
    <3>4. env.sid = mine[u].sid
      BY <2>1, <2>2, <3>1, <3>2, MakingFacts DEF Making, Swapping
    <3> QED
      BY <1>0, <2>1, <2>2, <3>1, <3>3, <3>4 DEF Drafts
  <2> QED
    BY <1>0, <2>1, <2>2 DEF Drafts
<1>4. ASSUME NEW u \in Updaters, SwappedToken(u)  PROVE Drafts'
  <2>1. /\ UNCHANGED <<making, client>> /\ env'.sid = env.sid
        /\ pc[u] = "token" /\ pc'[u] = "reset" /\ mine'[u] = mine[u] /\ Alone(u)
    BY <1>4 DEF SwappedToken, Moves
  <2>2. Swapped => Swapped'
    BY <2>1 DEF Swapped, Alone
  <2>3. \A q \in Requests : pc'[q] = pc[q] /\ mine'[q] = mine[q]
    BY <2>1, Kinds DEF Alone
  <2> QED
    BY <1>0, <2>1, <2>2, <2>3 DEF Drafts
<1>5. ASSUME NEW u \in Updaters, HasReset(u)  PROVE Drafts'
  <2>1. /\ making' = making /\ env' = env /\ client' \in {client, None}
        /\ pc[u] = "reset" /\ pc'[u] = "done" /\ mine'[u] = mine[u] /\ Alone(u)
        /\ mine[u].changed => making = None
    BY <1>5 DEF HasReset, Moves
  <2>2. \A q \in Requests : pc'[q] = pc[q] /\ mine'[q] = mine[q]
    BY <2>1, Kinds DEF Alone
  <2>3. CASE mine[u].changed
    <3>1. \A q \in Requests : pc[q] \notin Making
      BY <1>0, <2>1, <2>3, Kinds DEF Locks
    <3> QED
      BY <2>1, <2>2, <2>3, <3>1 DEF Drafts, Making
  <2>4. CASE ~mine[u].changed
    <3>1. Swapped => Swapped'
      BY <2>1, <2>4 DEF Swapped, Alone
    <3> QED
      BY <1>0, <2>1, <2>2, <3>1 DEF Drafts
  <2> QED
    BY <2>3, <2>4
<1>6. ASSUME NEW q \in Requests, ByRequest(q)  PROVE Swapped' <=> Swapped
  BY <1>6 DEF ByRequest, Swapped
<1>7. ASSUME NEW q \in Requests, ByRequest(q), GotToMake(q) \/ AgainToMake(q)  PROVE Drafts'
  <2>1. client' = None /\ pc'[q] = "make" /\ UNCHANGED env
    BY <1>7 DEF GotToMake, AgainToMake, Enters, Moves, ByRequest
  <2> QED
    BY <1>0, <1>6, <1>7, <2>1 DEF Drafts, ByRequest
<1>8. ASSUME NEW q \in Requests, ByRequest(q),
             GotToBind(q) \/ AgainToStore(q) \/ Made(q) \/ Binds(q) \/ Stored(q)
      PROVE  KeepDrafts
  <2>1. pc'[q] \in {"bind", "store", "initialize", "done"}
    BY <1>8 DEF GotToBind, AgainToStore, Enters, Moves, Made, Binds, Stored
  <2>2. (making' = making /\ client' = client) \/ making' = None
    BY <1>8 DEF GotToBind, AgainToStore, Enters, Made, Binds, Stored
  <2> QED
    BY <1>6, <1>8, <2>1, <2>2 DEF KeepDrafts, ByRequest
<1>9. ASSUME NEW q \in Requests, ByRequest(q), DraftedIdentity(q)  PROVE Drafts'
  <2>1. UNCHANGED <<making, client>> /\ pc'[q] = "make token" /\ mine'[q].draft.sid = env.sid
    BY <1>9 DEF DraftedIdentity, Drafting, Shared, Moves
  <2> QED
    BY <1>0, <1>6, <1>9, <2>1 DEF Drafts, ByRequest
<1>10. ASSUME NEW q \in Requests, ByRequest(q), DraftedToken(q)  PROVE Drafts'
  <2>1. /\ UNCHANGED <<making, client>> /\ pc[q] = "make token" /\ pc'[q] = "make rest"
        /\ mine'[q].draft.sid = mine[q].draft.sid /\ mine'[q].draft.ts = env.ts
    BY <1>10 DEF DraftedToken, Drafting, Shared, Moves
  <2>2. ~Swapped => env.ts = env.sid
    BY <2>1, MakingFacts DEF Making
  <2> QED
    BY <1>0, <1>6, <1>10, <2>1, <2>2 DEF Drafts, ByRequest
<1> QED
  BY <1>f, AllSteps, <1>1, <1>2, <1>3, <1>4, <1>5, <1>7, <1>8, <1>9, <1>10

\* Most steps leave the client and the environment, and who compares or swaps.
KeepClient ==
    /\ UNCHANGED <<client, env>>
    /\ auth' \notin Updaters => auth \notin Updaters
    /\ \A u \in Updaters :
         /\ pc[u] = "compare" => pc'[u] = "compare" /\ mine'[u].sid = mine[u].sid
         /\ pc'[u] \in Swapping => pc[u] \in Swapping /\ mine'[u] = mine[u]

LEMMA SamePairs ==
    ASSUME NEW p \in Pairs, NEW r \in Pairs, p.sid = r.sid, p.ts = r.ts
    PROVE  p = r
BY DEF Pairs

LEMMA ClientFollowsStep ==
    ASSUME Distinct, CredentialsInv, Next
    PROVE  ClientFollows'
<1>f. Typed
  BY DEF CredentialsInv
<1>0. Locks /\ EnvFollows /\ ClientFollows /\ Drafts /\ Owners
  BY DEF CredentialsInv
<1>1. ASSUME KeepClient  PROVE ClientFollows'
  BY <1>0, <1>1 DEF KeepClient, ClientFollows
<1>2. ASSUME NEW u \in Updaters, Browsed(u) \/ Published(u)  PROVE KeepClient
  BY <1>2 DEF Browsed, Published, Shared, Moves, Alone, KeepClient, Swapping
<1>3. ASSUME NEW u \in Updaters, Replaced(u) \/ Stayed(u)  PROVE ClientFollows'
  <2>1. Judged(u, "identity") /\ auth' = u
    BY <1>3 DEF Replaced, Stayed
  <2>2. \A x \in Updaters : pc[x] \notin Swapping
    BY <1>0, <2>1, Kinds DEF Judged, Locks
  <2>3. \A x \in Updaters : x # u => pc'[x] \notin Swapping
    BY <2>1, <2>2 DEF Judged, Alone
  <2>4. /\ UNCHANGED <<client, env>> /\ mine'[u].sid = mine[u].sid
        /\ ~mine'[u].changed =>
              IF client # None THEN client.sid = mine[u].sid
              ELSE env.sid = mine[u].sid /\ env.ts = mine[u].sid
    BY <2>1 DEF Judged, Same
  <2> QED
    BY <1>0, <2>1, <2>3, <2>4 DEF ClientFollows
<1>4. ASSUME NEW u \in Updaters, Refused(u)  PROVE ClientFollows'
  <2>1. /\ UNCHANGED <<client, env, auth>> /\ mine'[u].sid = mine[u].sid /\ pc'[u] = "done"
        /\ \A x \in Updaters : x # u => pc'[x] = pc[x] /\ mine'[x] = mine[x]
        /\ scope.acct \notin {None, mine[u].sid.acct}
    BY <1>4 DEF Refused, Judged, Same, Alone
  <2>2. env.sid.acct # mine[u].sid.acct
    BY <1>0, <2>1 DEF Owners
  <2>3. client # None /\ auth \notin Updaters => client.sid # mine[u].sid
    BY <1>0, <2>2 DEF ClientFollows
  <2> QED
    BY <1>0, <2>1, <2>3 DEF ClientFollows, Swapping
<1>5. ASSUME NEW u \in Updaters, SwappedIdentity(u) \/ SwappedToken(u)  PROVE ClientFollows'
  <2>1. /\ client' = client /\ auth' = auth /\ mine'[u] = mine[u] /\ Alone(u)
        /\ pc[u] \in Swapping
        /\ \/ env'.sid = mine[u].sid /\ env'.ts = env.ts
           \/ env'.ts = mine[u].sid /\ env'.sid = env.sid
    BY <1>5 DEF SwappedIdentity, SwappedToken, Moves, Swapping
  <2>2. auth = u
    BY <1>0, <2>1 DEF Locks
  <2>3. \A x \in Updaters : x # u => pc'[x] \notin Swapping
    BY <1>0, <2>1, <2>2 DEF Locks, Alone
  <2> QED
    BY <1>0, <2>1, <2>2, <2>3 DEF ClientFollows
<1>6. ASSUME NEW u \in Updaters, HasReset(u)  PROVE ClientFollows'
  <2>1. /\ pc[u] = "reset" /\ pc'[u] = "done" /\ mine'[u] = mine[u] /\ Alone(u)
        /\ client' = IF mine[u].changed THEN None ELSE client
        /\ UNCHANGED env
    BY <1>6 DEF HasReset, Moves
  <2>2. auth = u
    BY <1>0, <2>1 DEF Locks, Swapping
  <2>3. \A x \in Updaters : pc'[x] \notin Swapping
    BY <1>0, <2>1, <2>2 DEF Locks, Alone, Swapping
  <2>4. ASSUME client' # None  PROVE client' = client /\ client.sid = client.ts /\ client = env
    <3>1. client' = client /\ client # None /\ ~mine[u].changed
      BY <2>1, <2>4
    <3>2. client.sid = mine[u].sid /\ client.sid = client.ts /\ env.sid = mine[u].sid
      BY <1>0, <2>1, <3>1 DEF ClientFollows, EnvFollows, Swapping
    <3>3. env.sid = env.ts
      BY <1>0, <2>1, <2>2 DEF EnvFollows, Locks, Swapping
    <3> QED
      BY <1>f, <3>1, <3>2, <3>3, SamePairs DEF Typed
  <2> QED
    BY <2>1, <2>3, <2>4 DEF ClientFollows
<1>7. ASSUME NEW q \in Requests, ByRequest(q),
             \/ GotToMake(q) \/ GotToBind(q) \/ AgainToMake(q) \/ AgainToStore(q)
             \/ DraftedIdentity(q) \/ DraftedToken(q) \/ Binds(q) \/ Stored(q)
      PROVE  KeepClient
  <2>1. client' = client
    BY <1>7 DEF GotToMake, GotToBind, AgainToMake, AgainToStore, Enters,
      DraftedIdentity, DraftedToken, Drafting, Shared, Binds, Stored
  <2>2. auth' = auth \/ auth \in {None, q}
    BY <1>0, <1>7 DEF GotToMake, GotToBind, AgainToMake, AgainToStore, Enters, Moves,
      DraftedIdentity, DraftedToken, Drafting, Shared, Binds, Stored, Locks
  <2> QED
    BY <1>7, <2>1, <2>2, Kinds DEF ByRequest, KeepClient
<1>8. ASSUME NEW q \in Requests, ByRequest(q), Made(q)  PROVE ClientFollows'
  <2>1. /\ pc[q] = "make rest" /\ client' \in Pairs /\ auth' = auth
        /\ IF published.acct = env.sid.acct THEN client'.sid = published /\ client'.ts = published
           ELSE client' = mine[q].draft
    BY <1>8 DEF Made
  <2>2. /\ UNCHANGED env /\ \A u \in Updaters : pc'[u] = pc[u] /\ mine'[u] = mine[u]
    BY <1>8 DEF ByRequest
  <2>3. client' # None
    BY <2>1 DEF Distinct
  <2>4. Swapped => published = env.sid
    BY <1>0 DEF Swapped, EnvFollows, Updating, Swapping
  <2>5. CASE published.acct = env.sid.acct
    <3>1. client'.sid = published /\ client'.ts = published
      BY <2>1, <2>5
    <3>2. ASSUME NEW u \in Updaters, pc[u] \in Swapping, ~mine[u].changed
          PROVE  client'.sid = mine[u].sid
      BY <1>0, <3>1, <3>2 DEF EnvFollows, Updating
    <3>3. ASSUME auth \notin Updaters
          PROVE  client' = env \/ \E u \in Updaters : pc[u] = "compare" /\ client'.sid = mine[u].sid
      <4>1. \A u \in Updaters : pc[u] \notin Swapping
        BY <1>0, <3>3 DEF Locks
      <4>2. env.sid = env.ts
        BY <1>0, <4>1 DEF EnvFollows, Swapping
      <4>3. CASE updating = None
        <5>1. published = env.sid
          BY <1>0, <2>5, <4>3 DEF EnvFollows
        <5> QED
          BY <1>f, <2>1, <3>1, <4>2, <5>1, SamePairs DEF Typed
      <4>4. CASE updating \in Updaters
        <5>1. pc[updating] = "compare" /\ published = mine[updating].sid
          BY <1>0, <4>1, <4>4 DEF Locks, EnvFollows, Updating
        <5> QED
          BY <3>1, <4>4, <5>1
      <4> QED
        BY <1>f, <4>3, <4>4 DEF Typed
    <3> QED
      BY <2>1, <2>2, <2>3, <2>5, <3>1, <3>2, <3>3 DEF ClientFollows
  <2>6. CASE published.acct # env.sid.acct
    <3>1. ~Swapped /\ client' = mine[q].draft
      BY <2>1, <2>4, <2>6
    <3>2. client'.sid = env.sid /\ client'.ts = env.sid /\ env.sid = env.ts
      BY <1>0, <2>1, <3>1, MakingFacts DEF Drafts, Making
    <3>3. client' = env
      BY <1>f, <2>1, <3>2, SamePairs DEF Typed
    <3>4. \A u \in Updaters : pc[u] \in Swapping /\ ~mine[u].changed => env.sid = mine[u].sid
      BY <2>1, MakingFacts DEF Making
    <3> QED
      BY <2>1, <2>2, <2>3, <3>2, <3>3, <3>4 DEF ClientFollows
  <2> QED
    BY <2>5, <2>6
<1> QED
  BY <1>f, AllSteps, <1>1, <1>2, <1>3, <1>4, <1>5, <1>6, <1>7, <1>8

-----------------------------------------------------------------------------
\* Each thread's own variables keep their types.
LEMMA MappedTypes ==
    ASSUME Distinct, Typed, NEW t \in Threads, Alone(t), mine'[t] \in Own,
           t \in Updaters => pc'[t] \in UpdaterPlaces,
           t \in Requests => pc'[t] \in RequestPlaces
    PROVE  /\ pc' \in [Threads -> UpdaterPlaces \cup RequestPlaces]
           /\ mine' \in [Threads -> Own]
           /\ \A u \in Updaters : pc'[u] \in UpdaterPlaces
           /\ \A q \in Requests : pc'[q] \in RequestPlaces
<1>1. \A u \in Updaters : pc'[u] \in UpdaterPlaces /\ mine'[u] \in Own
  BY Fields, Kinds DEF Alone, Typed
<1>2. \A q \in Requests : pc'[q] \in RequestPlaces /\ mine'[q] \in Own
  BY Fields, Kinds DEF Alone, Typed
<1>3. Mapped
  BY DEF Alone
<1> QED
  BY <1>1, <1>2, <1>3 DEF Mapped, Threads

\* And the shared ones.
SharedTyped ==
    /\ published \in Cookies
    /\ env \in Pairs
    /\ client \in Pairs \cup {None}
    /\ scope \in Scopes
    /\ sessions \subseteq [acct: Accounts, scope: Accounts]
    /\ updating \in Updaters \cup {None}
    /\ auth \in Threads \cup {None}
    /\ making \in Requests \cup {None}
    /\ failed \in BOOLEAN

LEMMA TypedStep ==
    ASSUME Distinct, CredentialsInv, Next
    PROVE  Typed'
<1>f. Typed /\ SharedTyped
  BY DEF CredentialsInv, Typed, SharedTyped
<1>1. ASSUME NEW t \in Threads, Alone(t), mine'[t] \in Own,
             t \in Updaters => pc'[t] \in UpdaterPlaces,
             t \in Requests => pc'[t] \in RequestPlaces,
             SharedTyped'
      PROVE  Typed'
  BY <1>1, <1>f, MappedTypes DEF Typed, SharedTyped
<1>2. ASSUME NEW u \in Updaters,
             \/ Browsed(u) \/ Published(u) \/ Replaced(u) \/ Refused(u) \/ Stayed(u)
             \/ SwappedIdentity(u) \/ SwappedToken(u) \/ HasReset(u)
      PROVE  Typed'
  <2>1. mine[u] \in Own /\ mine[u].sid \in Cookies /\ u \in Threads /\ u \notin Requests
    BY <1>f, Fields, Kinds
  <2>2. Alone(u) /\ mine'[u] \in Own
    BY <1>2, <2>1 DEF Browsed, Published, Replaced, Refused, Stayed, Judged, Same,
      SwappedIdentity,
      SwappedToken, HasReset, Moves
  <2>3. pc'[u] \in UpdaterPlaces
    BY <1>2 DEF Browsed, Published, Replaced, Refused, Stayed, Judged, SwappedIdentity,
      SwappedToken, HasReset, Moves, UpdaterPlaces, Updating, Swapping
  <2>4. SharedTyped'
    <3>1. CASE Browsed(u)
      BY <1>f, <3>1 DEF Browsed, Shared, SharedTyped
    <3>2. CASE Published(u)
      BY <1>f, <2>1, <3>2 DEF Published, SharedTyped
    <3>3. CASE Replaced(u)
      BY <1>f, <2>1, <3>3 DEF Replaced, Judged, SharedTyped
    <3>4. CASE Refused(u)
      BY <1>f, <2>1, <3>4 DEF Refused, Judged, SharedTyped
    <3>5. CASE Stayed(u)
      BY <1>f, <2>1, <3>5 DEF Stayed, Judged, SharedTyped
    <3>6. CASE SwappedIdentity(u)
      BY <1>f, <3>6 DEF SwappedIdentity, SharedTyped
    <3>7. CASE SwappedToken(u)
      BY <1>f, <3>7 DEF SwappedToken, SharedTyped
    <3>8. CASE HasReset(u)
      BY <1>f, <3>8 DEF HasReset, SharedTyped
    <3> QED
      BY <1>2, <3>1, <3>2, <3>3, <3>4, <3>5, <3>6, <3>7, <3>8
  <2> QED
    BY <1>1, <2>1, <2>2, <2>3, <2>4
<1>3. ASSUME NEW q \in Requests,
             \/ GotToMake(q) \/ GotToBind(q) \/ AgainToMake(q) \/ AgainToStore(q)
             \/ DraftedIdentity(q) \/ DraftedToken(q) \/ Made(q) \/ Binds(q) \/ Stored(q)
      PROVE  Typed'
  <2>1. mine[q] \in Own /\ q \in Threads /\ q \notin Updaters
    BY <1>f, Fields, Kinds
  <2>2. Alone(q) /\ mine'[q] \in Own
    BY <1>3, <2>1 DEF GotToMake, GotToBind, AgainToMake, AgainToStore, Enters,
      DraftedIdentity,
      DraftedToken, Drafting, Same, Made, Binds, Stored, Moves
  <2>3. pc'[q] \in RequestPlaces
    BY <1>3 DEF GotToMake, GotToBind, AgainToMake, AgainToStore, Enters,
      DraftedIdentity,
      DraftedToken, Made, Binds, Stored, Moves, RequestPlaces, Making
  <2>4. SharedTyped'
    <3>1. CASE GotToMake(q) \/ GotToBind(q) \/ AgainToMake(q) \/ AgainToStore(q)
      BY <1>f, <2>1, <3>1 DEF GotToMake, GotToBind, AgainToMake, AgainToStore, Enters,
        SharedTyped
    <3>2. CASE DraftedIdentity(q) \/ DraftedToken(q)
      BY <1>f, <3>2 DEF DraftedIdentity, DraftedToken, Drafting, Shared, SharedTyped
    <3>3. CASE Made(q)
      BY <1>f, <3>3 DEF Made, SharedTyped
    <3>4. CASE Binds(q)
      BY <1>f, <3>4 DEF Binds, SharedTyped
    <3>5. CASE Stored(q)
      <4>1. UNCHANGED <<published, env, client, scope, updating, auth, making, failed>>
        BY <3>5 DEF Stored
      <4>2. mine[q].gen = scope.gen => scope.acct = mine[q].sid.acct
        BY <3>5 DEF CredentialsInv, Generations, Bound, Stored, Moves
      <4>3. mine[q].sid.acct \in Accounts
        BY <1>f, <2>1, Fields
      <4>4. sessions' \subseteq [acct: Accounts, scope: Accounts]
        BY <1>f, <3>5, <4>2, <4>3 DEF Stored, SharedTyped
      <4> QED
        BY <1>f, <4>1, <4>4 DEF SharedTyped
    <3> QED
      BY <1>3, <3>1, <3>2, <3>3, <3>4, <3>5
  <2> QED
    BY <1>1, <2>1, <2>2, <2>3, <2>4
<1> QED
  BY <1>f, AllSteps, <1>2, <1>3

LEMMA ProfileStep ==
    ASSUME Distinct, CredentialsInv, Next
    PROVE  ProfileIsRespected'
<1>0. Typed /\ ProfileIsRespected
  BY DEF CredentialsInv
<1>1. ASSUME NEW u \in Updaters, Browsed(u)  PROVE ProfileIsRespected'
  BY <1>0, <1>1 DEF Browsed, Alone, ProfileIsRespected
<1>2. ASSUME NEW u \in Updaters,
             \/ Published(u) \/ Replaced(u) \/ Refused(u) \/ Stayed(u)
             \/ SwappedIdentity(u) \/ SwappedToken(u) \/ HasReset(u)
      PROVE  ProfileIsRespected'
  <2>1. Alone(u) /\ mine'[u].sid = mine[u].sid /\ mine'[u].valid = mine[u].valid
    BY <1>2 DEF Published, Replaced, Refused, Stayed, Judged, Same, SwappedIdentity,
      SwappedToken,
      HasReset, Moves
  <2> QED
    BY <1>0, <2>1 DEF Alone, ProfileIsRespected
<1>3. ASSUME NEW q \in Requests, ByRequest(q)  PROVE ProfileIsRespected'
  BY <1>0, <1>3 DEF ByRequest, ProfileIsRespected
<1> QED
  BY <1>0, AllSteps, <1>1, <1>2, <1>3

LEMMA CredentialsInit ==
    ASSUME Distinct, Init
    PROVE  CredentialsInv
<1>1. PICK a \in Accounts :
        /\ published = Cookie(a, 0)
        /\ env = [sid |-> Cookie(a, 0), ts |-> Cookie(a, 0)]
        /\ mine = [t \in Threads |-> [sid |-> Cookie(a, 0), draft |-> env, changed |-> FALSE,
                                      gen |-> 0, valid |-> Accounts]]
  BY DEF Init
<1>2. Cookie(a, 0) \in Cookies /\ Cookie(a, 0).acct = a
  BY DEF Cookie, Cookies
<1>3. env \in Pairs /\ env.sid = Cookie(a, 0) /\ env.ts = Cookie(a, 0)
  BY <1>1, <1>2 DEF Pairs
<1> DEFINE own == [sid |-> Cookie(a, 0), draft |-> env, changed |-> FALSE,
                   gen |-> 0, valid |-> Accounts]
<1>4. own \in Own /\ own.sid = Cookie(a, 0) /\ own.gen = 0 /\ own.valid = Accounts
  BY <1>2, <1>3 DEF Own
<1> HIDE DEF own
<1>5. /\ mine \in [Threads -> Own]
      /\ \A t \in Threads : mine[t].sid = Cookie(a, 0) /\ mine[t].gen = 0 /\ mine[t].valid = Accounts
  BY <1>1, <1>4 DEF own
<1>6. /\ pc = [t \in Threads |-> IF t \in Updaters THEN "read" ELSE "get"]
      /\ client = None /\ scope = [acct |-> None, gen |-> 0] /\ sessions = {}
      /\ updating = None /\ auth = None /\ making = None /\ failed = FALSE
  BY DEF Init
<1>7. /\ \A u \in Updaters : pc[u] = "read"
      /\ \A q \in Requests : pc[q] = "get"
  BY <1>6, Kinds DEF Threads
<1>8. pc \in [Threads -> UpdaterPlaces \cup RequestPlaces]
  BY <1>6 DEF UpdaterPlaces, RequestPlaces
<1>9. Typed
  BY <1>1, <1>2, <1>3, <1>5, <1>6, <1>7, <1>8 DEF Typed, Scopes, UpdaterPlaces,
    RequestPlaces
<1>10. Locks
  BY <1>6, <1>7, Kinds DEF Locks, Updating, Swapping, Making
<1>11. EnvFollows /\ ClientFollows /\ Drafts
  BY <1>1, <1>3, <1>6, <1>7 DEF EnvFollows, ClientFollows, Drafts, Updating, Swapping,
    Making
<1>12. scope.acct = None /\ scope.gen = 0
  BY <1>6
<1>14. Owners
  BY <1>6, <1>7, <1>12 DEF Owners, Swapping
<1>15. Generations
  <2>1. \A q \in Requests : mine[q].gen = 0 /\ ~Bound(q)
    BY <1>5, <1>7, Kinds DEF Bound, Making
  <2> QED
    BY <2>1, <1>12 DEF Generations
<1>13. ProfileIsRespected
  BY <1>2, <1>5, Kinds DEF ProfileIsRespected
<1> QED
  BY <1>9, <1>10, <1>11, <1>13, <1>14, <1>15 DEF CredentialsInv

LEMMA CredentialsStep ==
    ASSUME Distinct, CredentialsInv, [Next]_kvars
    PROVE  CredentialsInv'
<1>1. CASE Next
  BY <1>1, TypedStep, LocksStep, EnvFollowsStep, ClientFollowsStep, DraftsStep,
    OwnersStep,
    GenerationsStep, ProfileStep DEF CredentialsInv
<1>2. CASE UNCHANGED kvars
  BY <1>2 DEF kvars, CredentialsInv, Typed, Locks, EnvFollows, ClientFollows, Drafts,
    Swapped,
    Owners, Generations, Bound, ProfileIsRespected
<1> QED
  BY <1>1, <1>2

LEMMA CredentialsKept ==
    ASSUME Distinct, CredentialsInv
    PROVE  NothingMixed /\ AllFollow /\ ProfileIsRespected
<1>1. /\ Locks /\ EnvFollows /\ ClientFollows /\ Owners /\ ProfileIsRespected
  BY DEF CredentialsInv
<1>2. NothingMixed
  BY <1>1 DEF NothingMixed, ClientFollows, Owners
<1>3. AllFollow
  BY <1>1, Kinds DEF AllFollow, Locks, EnvFollows, ClientFollows, Owners, Updating,
    Swapping
<1> QED
  BY <1>1, <1>2, <1>3

(* Nothing of two accounts meets.  However many updates and requests there  *)
(* are, and wherever a callback fails: no client holds cookies of two       *)
(* accounts, sessions are filed under the account of their chat, everything *)
(* follows the published cookies once nobody is at work                     *)
(* (client_wrapper.py:487), and a profile asked for is respected.           *)
THEOREM CredentialsFollow ==
    ASSUME Distinct
    PROVE  Spec => [](NothingMixed /\ AllFollow /\ ProfileIsRespected)
<1>1. Init => CredentialsInv
  BY CredentialsInit
<1>2. CredentialsInv /\ [Next]_kvars => CredentialsInv'
  BY CredentialsStep
<1>3. CredentialsInv => NothingMixed /\ AllFollow /\ ProfileIsRespected
  BY CredentialsKept
<1> QED
  BY <1>1, <1>2, <1>3, PTL DEF Spec

=============================================================================
