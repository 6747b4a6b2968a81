----------------------- MODULE ClientLifecycleProofs -----------------------
(***************************************************************************)
(* Theorems about ClientLifecycle, for any requests, attempts, credential  *)
(* updates and clients.                                                    *)
(***************************************************************************)
EXTENDS ClientLifecycle, TLAPS

\* What a request holds fits where it stands, and a request has no task before
\* it has been told to start one.
RequestsOK ==
    /\ \A c \in Callers : pc[c] = "waiting" => seen[c] \in Tasks
    /\ \A c \in Resetters : pc[c] = "retiring" => seen[c] \in Clients
    /\ \A c \in Callers : pc[c] \in {"idle", "looking", "getting", "got"} => run[c] = Unborn

\* The manager's client is not being retired, and no client is that is yet to
\* be made; what is initialized is there and ready.
ClientOK ==
    /\ client # None => client <= made /\ retire[client].at = "none"
    /\ \A k \in Clients : k > made => retire[k].at = "none"
    /\ initialized => client # None /\ client \in ready

\* A task under way on a client is the manager's own, or the retirement of its
\* client is going to wait for it.
Under(t) == run[t].at \in {"new", "initing", "sleeping"}
Owned(t) ==
    \/ current = t /\ client = run[t].of
    \/ /\ retire[run[t].of].at \in {"posted", "joining"}
       /\ retire[run[t].of].joins = t
TasksOK ==
    /\ \A t \in Tasks : run[t].at \in {"initing", "sleeping"} => run[t].of # None
    /\ \A t \in Tasks : Under(t) /\ run[t].of # None => Owned(t)

\* The manager's own task is under way and was not cancelled; those that
\* retirements wait for were started, and are not the manager's any more.
CancelsOK ==
    /\ current # None => Under(current) /\ ~run[current].told
    /\ \A k \in Clients : retire[k].joins # None =>
         run[retire[k].joins].at # "none" /\ retire[k].joins # current
    /\ \A k \in Clients : retire[k].at = "joining" => retire[k].joins # None

ManagerInv ==
    TypeOK /\ RequestsOK /\ ClientOK /\ TasksOK /\ CancelsOK /\ CredentialsFresh

\* The sets of states of tasks, retirements and requests.
RunStates == [at : Ended \cup {"none", "new", "initing", "sleeping"},
              of : Clients \cup {None}, gen : Nat, tries : 0..Attempts, told : BOOLEAN]
RetireStates == [at : {"none", "posted", "joining", "closing", "closed"},
                 joins : Tasks \cup {None}]

LEMMA Typed ==
    TypeOK <=>
      /\ creds \in 0..MaxCreds /\ monitor \in {"idle", "updating"}
      /\ client \in Clients \cup {None} /\ made \in 0..MaxClients
      /\ initialized \in BOOLEAN /\ generation \in Nat
      /\ current \in Tasks \cup {None}
      /\ with \in [Clients -> 0..MaxCreds] /\ ready \subseteq Clients
      /\ run \in [Tasks -> RunStates]
      /\ retire \in [Clients -> RetireStates]
      /\ pc \in [Callers \cup Resetters -> {"idle", "looking", "getting", "got", "waiting",
                                          "retiring", "answered", "cancelled"}]
      /\ seen \in [Callers \cup Resetters -> Clients \cup Tasks \cup {None}]
      /\ current # None =>
           ~Done(current) /\ (~Superseded(current) \/ run[current].of = None)
BY DEF TypeOK, RunStates, RetireStates

\* None is neither a client nor a task.
LEMMA NoneFacts == None \notin Clients /\ Clients \subseteq Nat /\ Attempts \in Nat \ {0}
BY BoundsAssumption DEF Clients

LEMMA UnbornFacts ==
    /\ Unborn \in RunStates
    /\ Unborn.at = "none" /\ Unborn.of = None /\ Unborn.told = FALSE
    /\ \A how \in Ended : /\ [Unborn EXCEPT !.at = how] \in RunStates
                          /\ [Unborn EXCEPT !.at = how].at = how
<1>1. 0 \in 0..Attempts /\ 0 \in Nat
  BY BoundsAssumption
<1> QED
  BY <1>1 DEF Unborn, RunStates, Ended

LEMMA ManagerInit == Init => ManagerInv
<1> SUFFICES ASSUME Init PROVE ManagerInv
  OBVIOUS
<1>1. TypeOK
  <2>1. /\ run \in [Tasks -> RunStates]
        /\ retire \in [Clients -> RetireStates]
    BY UnbornFacts DEF Init, Unretired, RetireStates
  <2>2. /\ creds \in 0..MaxCreds /\ made \in 0..MaxClients
        /\ with \in [Clients -> 0..MaxCreds] /\ generation \in Nat
    BY BoundsAssumption DEF Init
  <2>3. /\ pc \in [Callers \cup Resetters -> {"idle", "looking", "getting", "got", "waiting",
                                          "retiring", "answered", "cancelled"}]
        /\ seen \in [Callers \cup Resetters -> Clients \cup Tasks \cup {None}]
    BY DEF Init
  <2>4. /\ monitor \in {"idle", "updating"} /\ client \in Clients \cup {None}
        /\ initialized \in BOOLEAN /\ current \in Tasks \cup {None}
        /\ ready \subseteq Clients /\ current = None
    BY DEF Init
  <2> QED
    BY <2>1, <2>2, <2>3, <2>4, Typed
<1>2. RequestsOK
  BY DEF Init, RequestsOK, Tasks
<1>4. ClientOK /\ CredentialsFresh
  BY DEF Init, ClientOK, CredentialsFresh, Unretired
<1>3. TasksOK /\ CancelsOK
  BY UnbornFacts DEF Init, TasksOK, CancelsOK, Under, Unretired
<1> QED
  BY <1>1, <1>2, <1>3, <1>4 DEF ManagerInv

\* A step that moves a request and nothing else.
LEMMA RequestMoves ==
    ASSUME ManagerInv,
           NEW c \in Callers \cup Resetters,
           NEW p \in {"looking", "got", "waiting", "answered", "cancelled"},
           NEW v \in Clients \cup Tasks \cup {None},
           Go(c, p, v),
           p = "waiting" => v \in Tasks,
           p \in {"looking", "got"} => pc[c] \in {"getting", "got"},
           UNCHANGED <<creds, monitor, manager, made, with, ready, run, retire>>
    PROVE  ManagerInv'
<1>1. TypeOK'
  BY Typed DEF ManagerInv, Go, manager, TypeOK, Done, Superseded
<1>2. RequestsOK'
  BY Typed, BoundsAssumption DEF ManagerInv, RequestsOK, Go
<1>3. ClientOK' /\ TasksOK' /\ CancelsOK' /\ CredentialsFresh'
  BY DEF ManagerInv, ClientOK, TasksOK, CancelsOK, CredentialsFresh, Under, Owned, manager
<1> QED
  BY <1>1, <1>2, <1>3 DEF ManagerInv

\* A task ends: what it published was initialized.
LEMMA TaskEnds ==
    ASSUME ManagerInv,
           NEW t \in Tasks, NEW how \in Ended,
           Under(t), End(t, how),
           ready' \subseteq Clients, ready \subseteq ready', initialized' \in BOOLEAN,
           initialized' => initialized \/ (client # None /\ client \in ready'),
           UNCHANGED <<creds, monitor, client, generation, made, with, retire, requests>>
    PROVE  ManagerInv'
<1>1. /\ run' \in [Tasks -> RunStates] /\ run'[t].at \in Ended
      /\ \A u \in Tasks \ {t} : run'[u] = run[u]
  BY UnbornFacts, Typed DEF ManagerInv, End
<1>2. current' = IF current = t THEN None ELSE current
  BY DEF End
<1>3. TypeOK'
  BY <1>1, <1>2, Typed DEF ManagerInv, requests, TypeOK, RunStates, RetireStates, Done, Superseded
<1>4. RequestsOK'
  BY <1>1, UnbornFacts, Typed DEF ManagerInv, RequestsOK, requests, Under, Tasks
<1>5. ClientOK' /\ CredentialsFresh'
  BY Typed DEF ManagerInv, ClientOK, CredentialsFresh
<1>6. TasksOK'
  BY <1>1, <1>2, Typed DEF ManagerInv, TasksOK, Under, Owned, Ended
<1>7. CancelsOK'
  BY <1>1, <1>2, Typed, BoundsAssumption
  DEF ManagerInv, CancelsOK, Under, Ended, RetireStates, Tasks
<1> QED
  BY <1>3, <1>4, <1>5, <1>6, <1>7 DEF ManagerInv

\* A task goes on with the client it was started for.
LEMMA TaskGoesOn ==
    ASSUME ManagerInv,
           NEW t \in Tasks, Under(t), run[t].of # None,
           NEW s \in RunStates, s.at \in {"initing", "sleeping"},
           s.of = run[t].of, s.gen = run[t].gen, s.told = run[t].told,
           run' = [run EXCEPT ![t] = s],
           UNCHANGED <<creds, monitor, manager, made, with, ready, retire, requests>>
    PROVE  ManagerInv'
<1>1. /\ run' \in [Tasks -> RunStates] /\ run'[t] = s
      /\ \A u \in Tasks \ {t} : run'[u] = run[u]
  BY Typed DEF ManagerInv
<1>3. TypeOK'
  BY <1>1, Typed DEF ManagerInv, requests, manager, TypeOK, RunStates, RetireStates, Done,
                     Superseded, Ended
<1>4. RequestsOK'
  BY <1>1, UnbornFacts, Typed DEF ManagerInv, RequestsOK, requests, Under, Tasks
<1>5. ClientOK' /\ CredentialsFresh'
  BY DEF ManagerInv, ClientOK, CredentialsFresh, manager
<1>6. TasksOK'
  BY <1>1, Typed DEF ManagerInv, TasksOK, Under, Owned, manager
<1>7. CancelsOK'
  BY <1>1, Typed, BoundsAssumption
  DEF ManagerInv, CancelsOK, Under, RetireStates, Tasks, manager
<1> QED
  BY <1>3, <1>4, <1>5, <1>6, <1>7 DEF ManagerInv

\* What Retiring() does: the retirement of k waits for t, which is told, or
\* goes on to close the client.
LEMMA RetiringFacts ==
    ASSUME TypeOK, NEW k \in Clients, NEW t \in Tasks \cup {None}, Retiring(k, t)
    PROVE  /\ retire' \in [Clients -> RetireStates]
           /\ run' \in [Tasks -> RunStates]
           /\ \A j \in Clients \ {k} : retire'[j] = retire[j]
           /\ \A u \in Tasks : /\ run'[u].at = run[u].at /\ run'[u].of = run[u].of
                               /\ run'[u].gen = run[u].gen
                               /\ u # t => run'[u] = run[u]
           /\ \/ /\ t # None /\ ~Done(t)
                 /\ retire'[k].at = "joining" /\ retire'[k].joins = t
              \/ /\ t = None \/ Done(t)
                 /\ retire'[k].at = "closing" /\ retire'[k].joins = None
                 /\ run' = run
<1>1. run \in [Tasks -> RunStates] /\ retire \in [Clients -> RetireStates]
  BY Typed
<1>2. CASE t # None /\ ~Done(t)
  <2>1. /\ retire' = [retire EXCEPT ![k] = [at |-> "joining", joins |-> t]]
        /\ run' = [run EXCEPT ![t].told = TRUE]
    BY <1>2 DEF Retiring
  <2>2. /\ retire' \in [Clients -> RetireStates]
        /\ \A j \in Clients \ {k} : retire'[j] = retire[j]
        /\ retire'[k].at = "joining" /\ retire'[k].joins = t
    BY <1>1, <1>2, <2>1 DEF RetireStates
  <2>3. /\ run' \in [Tasks -> RunStates]
        /\ \A u \in Tasks : /\ run'[u].at = run[u].at /\ run'[u].of = run[u].of
                            /\ run'[u].gen = run[u].gen
                            /\ u # t => run'[u] = run[u]
    BY <1>1, <1>2, <2>1 DEF RunStates
  <2> QED
    BY <1>2, <2>2, <2>3
<1>3. CASE ~(t # None /\ ~Done(t))
  <2>1. /\ retire' = [retire EXCEPT ![k] = [at |-> "closing", joins |-> None]]
        /\ run' = run
    BY <1>3 DEF Retiring
  <2>2. /\ retire' \in [Clients -> RetireStates]
        /\ \A j \in Clients \ {k} : retire'[j] = retire[j]
        /\ retire'[k].at = "closing" /\ retire'[k].joins = None
    BY <1>1, <2>1 DEF RetireStates
  <2> QED
    BY <1>1, <1>3, <2>1, <2>2
<1> QED
  BY <1>2, <1>3

\* A step of retirements that changes no other variable than theirs.
LEMMA RetirementMoves ==
    ASSUME ManagerInv,
           NEW k \in Clients, NEW s \in RetireStates,
           s.at \in {"closing", "closed"}, s.joins \in {None, retire[k].joins},
           retire[k].at \in {"closing", "joining"},
           retire[k].at = "joining" => Done(retire[k].joins),
           retire' = [retire EXCEPT ![k] = s],
           UNCHANGED <<creds, monitor, manager, made, with, ready, run>>,
           UNCHANGED requests \/ \E c \in Resetters : Go(c, "answered", None)
    PROVE  ManagerInv'
<1>1. /\ retire' \in [Clients -> RetireStates]
      /\ \A j \in Clients \ {k} : retire'[j] = retire[j]
      /\ retire'[k] = s
  BY Typed DEF ManagerInv, RetireStates
<1>7. /\ pc' \in [Callers \cup Resetters ->
                  {"idle", "looking", "getting", "got", "waiting", "retiring",
                   "answered", "cancelled"}]
      /\ seen' \in [Callers \cup Resetters -> Clients \cup Tasks \cup {None}]
      /\ RequestsOK'
  <2>1. CASE UNCHANGED requests
    BY <2>1, Typed DEF ManagerInv, RequestsOK, requests
  <2>2. ASSUME NEW c \in Resetters, Go(c, "answered", None)
        PROVE  /\ pc' \in [Callers \cup Resetters ->
                       {"idle", "looking", "getting", "got", "waiting", "retiring",
                        "answered", "cancelled"}]
               /\ seen' \in [Callers \cup Resetters -> Clients \cup Tasks \cup {None}]
               /\ RequestsOK'
    BY <2>2, Typed, BoundsAssumption DEF ManagerInv, RequestsOK, Go
  <2> QED
    BY <2>1, <2>2
<1>2. TypeOK'
  BY <1>1, <1>7, Typed DEF ManagerInv, manager, TypeOK, RetireStates, Done, Superseded
<1>3. CredentialsFresh'
  BY DEF ManagerInv, CredentialsFresh, manager
<1>4. ClientOK'
  BY <1>1, Typed DEF ManagerInv, ClientOK, manager
<1>5. TasksOK'
  <2>1. SUFFICES ASSUME NEW u \in Tasks, Under(u), run[u].of # None
                 PROVE  Owned(u)'
    BY DEF ManagerInv, TasksOK, Under
  <2>2. Owned(u) /\ run[u].of \in Clients
    BY <2>1, Typed DEF ManagerInv, TasksOK, RunStates
  <2>3. ~Done(u)
    BY <2>1 DEF Under, Done, Ended
  <2> QED
    BY <1>1, <2>2, <2>3 DEF Owned, manager
<1>6. CancelsOK'
  BY <1>1, Typed DEF ManagerInv, CancelsOK, Under, manager
<1> QED
  BY <1>2, <1>3, <1>4, <1>5, <1>6, <1>7 DEF ManagerInv

\* A retirement is over.
LEMMA RetirementCloses ==
    ASSUME ManagerInv, NEW k \in Clients, retire[k].at = "closing",
           retire' = [retire EXCEPT ![k].at = "closed"],
           UNCHANGED <<creds, monitor, manager, made, with, ready, run>>,
           UNCHANGED requests \/ \E c \in Resetters : Go(c, "answered", None)
    PROVE  ManagerInv'
<1>1. retire[k] \in RetireStates
  BY Typed DEF ManagerInv
<1>2. PICK s \in RetireStates : s = [retire[k] EXCEPT !.at = "closed"]
  BY <1>1 DEF RetireStates
<1>3. s.at = "closed" /\ s.joins = retire[k].joins
  BY <1>1, <1>2 DEF RetireStates
<1>4. retire' = [retire EXCEPT ![k] = s]
  BY <1>2
<1> QED
  BY <1>3, <1>4, RetirementMoves

\* GetClient(), with or without a client to create.
LEMMA GetClientKeeps ==
    ASSUME ManagerInv, NEW c \in Callers, GetClient(c) PROVE ManagerInv'
<1>1. CASE client # None
  <2>1. Go(c, "getting", None)
        /\ UNCHANGED <<creds, monitor, manager, made, with, ready, run, retire>>
    BY <1>1 DEF GetClient, manager
  <2>2. pc[c] \in {"idle", "looking"}
    BY DEF GetClient
  <2>3. TypeOK'
    BY <2>1, Typed DEF ManagerInv, Go, manager, TypeOK, Done, Superseded
  <2>4. RequestsOK'
    BY <2>1, <2>2, Typed, BoundsAssumption DEF ManagerInv, RequestsOK, Go
  <2>5. ClientOK' /\ TasksOK' /\ CancelsOK' /\ CredentialsFresh'
    BY <2>1 DEF ManagerInv, ClientOK, TasksOK, CancelsOK, CredentialsFresh, Under, Owned, manager
  <2> QED
    BY <2>3, <2>4, <2>5 DEF ManagerInv
<1>2. CASE client = None
  <2>1. /\ made' = made + 1 /\ client' = made' /\ made < MaxClients
        /\ with' = [with EXCEPT ![made'] = creds]
        /\ Go(c, "getting", None) /\ pc[c] \in {"idle", "looking"}
        /\ UNCHANGED <<creds, monitor, initialized, generation, current, ready, run, retire>>
    BY <1>2 DEF GetClient
  <2>2. made' \in 0..MaxClients /\ made' \in Clients /\ made < made' /\ client' \in Clients
    BY <2>1, Typed, BoundsAssumption DEF ManagerInv, Clients
  <2>3. with' \in [Clients -> 0..MaxCreds] /\ with'[client'] = creds'
    BY <2>1, <2>2, Typed DEF ManagerInv
  <2>4. current # None => run[current].of = None
    <3>1. SUFFICES ASSUME current # None PROVE run[current].of = None
      OBVIOUS
    <3>2. Under(current) /\ current \in Tasks
      BY <3>1, Typed DEF ManagerInv, CancelsOK
    <3>3. run[current].of = None \/ run[current].of = client
      BY <3>1, Typed DEF ManagerInv, Superseded
    <3> QED
      BY <1>2, <3>3
  <2>5. TypeOK'
    BY <2>1, <2>2, <2>3, <2>4, Typed DEF ManagerInv, Go, TypeOK, Done, Superseded
  <2>6. RequestsOK'
    BY <2>1, Typed, BoundsAssumption DEF ManagerInv, RequestsOK, Go
  <2>7. ClientOK'
    BY <1>2, <2>1, <2>2, Typed, NoneFacts DEF ManagerInv, ClientOK, Clients
  <2>8. TasksOK'
    BY <1>2, <2>1, Typed DEF ManagerInv, TasksOK, Under, Owned
  <2>9. CancelsOK' /\ CredentialsFresh'
    BY <2>1, <2>3 DEF ManagerInv, CancelsOK, Under, CredentialsFresh
  <2> QED
    BY <2>5, <2>6, <2>7, <2>8, <2>9 DEF ManagerInv
<1> QED
  BY <1>1, <1>2

\* Join(): a request that starts a task finds no other one.
LEMMA JoinKeeps ==
    ASSUME ManagerInv, NEW c \in Callers, Join(c) PROVE ManagerInv'
<1>1. /\ pc[c] = "got"
      /\ UNCHANGED <<creds, monitor, client, initialized, generation, made, with, ready, retire>>
  BY DEF Join
<1>2. CASE UNCHANGED <<current, run>> /\ (Go(c, "looking", None) \/ Go(c, "answered", None))
  BY <1>1, <1>2, RequestMoves DEF manager
<1>3. CASE UNCHANGED <<current, run>> /\ current # None /\ Go(c, "waiting", current)
  <2>1. current \in Tasks
    BY <1>3, Typed DEF ManagerInv
  <2> QED
    BY <1>1, <1>3, <2>1, RequestMoves DEF manager
<1>4. CASE /\ ~(current # None /\ ~Done(current))
           /\ run' = [run EXCEPT ![c] = [@ EXCEPT !.at = "new", !.of = client, !.gen = generation]]
           /\ current' = c /\ Go(c, "waiting", c)
  <2>1. current = None /\ run[c] = Unborn /\ c \in Tasks
    BY <1>1, <1>4, Typed DEF ManagerInv, RequestsOK, Tasks
  <2>2. /\ run' \in [Tasks -> RunStates]
        /\ run'[c].at = "new" /\ run'[c].of = client /\ run'[c].gen = generation
        /\ ~run'[c].told
        /\ \A u \in Tasks \ {c} : run'[u] = run[u]
    <3>1. run[c] \in RunStates /\ client \in Clients \cup {None} /\ generation \in Nat
      BY <2>1, Typed DEF ManagerInv
    <3>2. PICK s \in RunStates :
            s = [run[c] EXCEPT !.at = "new", !.of = client, !.gen = generation]
      BY <3>1 DEF RunStates
    <3>3. s.at = "new" /\ s.of = client /\ s.gen = generation /\ s.told = run[c].told
      BY <3>1, <3>2 DEF RunStates
    <3>4. run' = [run EXCEPT ![c] = s]
      BY <1>4, <3>2
    <3> QED
      BY <2>1, <3>3, <3>4, UnbornFacts, Typed DEF ManagerInv
  <2>3. TypeOK'
    BY <1>1, <1>4, <2>1, <2>2, Typed
    DEF ManagerInv, Go, TypeOK, RunStates, RetireStates, Done, Superseded, Ended
  <2>4. RequestsOK'
    BY <1>4, <2>1, <2>2, Typed, BoundsAssumption DEF ManagerInv, RequestsOK, Go, Tasks
  <2>5. ClientOK' /\ CredentialsFresh'
    BY <1>1 DEF ManagerInv, ClientOK, CredentialsFresh
  <2>6. TasksOK'
    BY <1>1, <1>4, <2>1, <2>2, BoundsAssumption DEF ManagerInv, TasksOK, Under, Owned, Tasks
  <2>7. CancelsOK'
    BY <1>1, <1>4, <2>1, <2>2, UnbornFacts, Typed
    DEF ManagerInv, CancelsOK, Under, RetireStates
  <2> QED
    BY <2>3, <2>4, <2>5, <2>6, <2>7 DEF ManagerInv
<1> QED
  BY <1>2, <1>3, <1>4 DEF Join

\* The steps of requests.
LEMMA RequestsKeep ==
    ASSUME ManagerInv PROVE
    /\ \A c \in Callers : CallerStep(c) => ManagerInv'
    /\ \A c \in Resetters : ResetReturns(c) => ManagerInv'
<1>1. ASSUME NEW c \in Callers, ReadClient(c) PROVE ManagerInv'
  <2>1. client \in Clients \cup {None}
    BY Typed DEF ManagerInv
  <2> QED
    BY <1>1, <2>1, RequestMoves DEF ReadClient
<1>2. ASSUME NEW c \in Callers, Wakes(c) PROVE ManagerInv'
  <2>1. PICK p \in {"cancelled", "answered"} : Go(c, p, None)
    BY <1>2 DEF Wakes
  <2> QED
    BY <1>2, <2>1, RequestMoves DEF Wakes
<1>3. ASSUME NEW c \in Callers, Withdraw(c) PROVE ManagerInv'
  BY <1>3, RequestMoves DEF Withdraw
<1>4. ASSUME NEW c \in Resetters, ResetReturns(c) PROVE ManagerInv'
  BY <1>4, RequestMoves DEF ResetReturns
<1> QED
  BY <1>1, <1>2, <1>3, <1>4, GetClientKeeps, JoinKeeps DEF CallerStep

\* The steps of tasks.
LEMMA TasksKeep ==
    ASSUME ManagerInv, NEW t \in Tasks, TaskStep(t) PROVE ManagerInv'
<1>1. run[t] \in RunStates /\ initialized \in BOOLEAN /\ ready \subseteq Clients
  BY Typed DEF ManagerInv
<1>2. ASSUME Forward(t), run[t].at \in {"new", "sleeping"},
             UNCHANGED <<creds, monitor, client, initialized, generation, made, with,
                         ready, retire, requests>>
      PROVE  ManagerInv'
  <2>1. CASE Superseded(t) \/ run[t].of = None
    BY <1>1, <1>2, <2>1, TaskEnds DEF Forward, Under, Ended
  <2>2. CASE ~(Superseded(t) \/ run[t].of = None)
    <3>1. PICK s \in RunStates : s = [run[t] EXCEPT !.at = "initing"]
      BY <1>1 DEF RunStates
    <3>2. /\ s.at = "initing" /\ s.of = run[t].of /\ s.gen = run[t].gen
          /\ s.told = run[t].told
      BY <1>1, <3>1 DEF RunStates
    <3>3. run' = [run EXCEPT ![t] = s]
      BY <1>2, <2>2, <3>1 DEF Forward
    <3> QED
      BY <1>2, <2>2, <3>2, <3>3, TaskGoesOn DEF Forward, Under, manager
  <2> QED
    BY <2>1, <2>2
<1>3. CASE Start(t)
  <2>1. CASE run[t].told
    <3>1. current # t
      BY <2>1, Typed, BoundsAssumption DEF ManagerInv, CancelsOK, Tasks
    <3>2. End(t, "cancelled")
      BY <1>3, <2>1, <3>1 DEF Start, End
    <3> QED
      BY <1>1, <1>3, <3>2, TaskEnds DEF Start, Under, Ended
  <2>2. CASE ~run[t].told
    BY <1>2, <1>3, <2>2 DEF Start
  <2> QED
    BY <2>1, <2>2
<1>4. CASE Retry(t)
  BY <1>2, <1>4 DEF Retry
<1>5. CASE InitReturns(t)
  <2>1. run[t].of \in Clients
    BY <1>1, <1>5 DEF ManagerInv, TasksOK, InitReturns, RunStates
  <2>2. ready' = ready \cup {run[t].of} /\ initialized' = (initialized \/ Published(t))
    BY <1>5 DEF InitReturns
  <2>3. Published(t) => client = run[t].of
    BY DEF Published, Superseded
  <2>4. PICK how \in {"ok", "reset"} : End(t, how)
    BY <1>5 DEF InitReturns
  <2>5. /\ ready' \subseteq Clients /\ ready \subseteq ready' /\ initialized' \in BOOLEAN
    BY <1>1, <2>1, <2>2 DEF Published, Superseded
  <2>6. initialized' => initialized \/ (client # None /\ client \in ready')
    BY <2>1, <2>2, <2>3, NoneFacts
  <2>7. Under(t) /\ how \in Ended
    BY <1>5 DEF InitReturns, Under, Ended
  <2> QED
    BY <1>5, <2>4, <2>5, <2>6, <2>7, TaskEnds DEF InitReturns
<1>6. CASE InitFails(t)
  <2>1. Under(t) /\ run[t].of # None
    BY <1>6 DEF ManagerInv, TasksOK, InitFails, Under
  <2>2. CASE End(t, "failed")
    BY <1>1, <1>6, <2>1, <2>2, TaskEnds DEF InitFails, Ended
  <2>3. CASE /\ run[t].tries + 1 < Attempts
             /\ run' = [run EXCEPT ![t].at = "sleeping", ![t].tries = @ + 1]
             /\ UNCHANGED current
    <3>1. run[t].tries + 1 \in 0..Attempts
      BY <1>1, <2>3, NoneFacts DEF RunStates
    <3>2. PICK s \in RunStates : s = [run[t] EXCEPT !.at = "sleeping", !.tries = @ + 1]
      BY <1>1, <3>1 DEF RunStates
    <3>3. /\ s.at = "sleeping" /\ s.of = run[t].of /\ s.gen = run[t].gen
          /\ s.told = run[t].told
      BY <1>1, <3>2 DEF RunStates
    <3>4. run' = [run EXCEPT ![t] = s]
      BY <1>1, <2>3, <3>2, Typed DEF ManagerInv, RunStates
    <3> QED
      BY <1>6, <2>1, <2>3, <3>3, <3>4, TaskGoesOn DEF InitFails, manager
  <2> QED
    BY <1>6, <2>2, <2>3 DEF InitFails
<1>7. CASE Interrupted(t)
  <2>1. PICK how \in {"reset", "cancelled"} : End(t, how)
    BY <1>7 DEF Interrupted
  <2> QED
    BY <1>1, <1>7, <2>1, TaskEnds DEF Interrupted, Under, Ended
<1> QED
  BY <1>3, <1>4, <1>5, <1>6, <1>7 DEF TaskStep

\* The steps of retirements.
LEMMA RetirementsKeep ==
    ASSUME ManagerInv, NEW k \in Clients, ClientStep(k) PROVE ManagerInv'
<1>1. retire[k] \in RetireStates
  BY Typed DEF ManagerInv
<1>2. CASE Joined(k)
  <2>1. [at |-> "closing", joins |-> None] \in RetireStates
    BY DEF RetireStates
  <2> QED
    BY <1>2, <2>1, RetirementMoves DEF Joined
<1>3. CASE Closed(k)
  BY <1>3, RetirementCloses DEF Closed
<1>4. CASE BeginRetirement(k)
  <2> DEFINE t == retire[k].joins
  <2>1. /\ retire[k].at = "posted" /\ Retiring(k, t)
        /\ UNCHANGED <<creds, monitor, manager, made, with, ready, requests>>
    BY <1>4 DEF BeginRetirement
  <2>2. t \in Tasks \cup {None} /\ TypeOK
    BY <1>1 DEF ManagerInv, RetireStates
  <2>3. /\ retire' \in [Clients -> RetireStates]
        /\ run' \in [Tasks -> RunStates]
        /\ \A j \in Clients \ {k} : retire'[j] = retire[j]
        /\ \A u \in Tasks : /\ run'[u].at = run[u].at /\ run'[u].of = run[u].of
                            /\ run'[u].gen = run[u].gen
                            /\ u # t => run'[u] = run[u]
        /\ \/ /\ t # None /\ ~Done(t)
              /\ retire'[k].at = "joining" /\ retire'[k].joins = t
           \/ /\ t = None \/ Done(t)
              /\ retire'[k].at = "closing" /\ retire'[k].joins = None
              /\ run' = run
    BY <2>1, <2>2, RetiringFacts
  <2>4. t # None => run[t].at # "none" /\ t # current
    BY DEF ManagerInv, CancelsOK
  <2>5. client # k
    BY <2>1, NoneFacts DEF ManagerInv, ClientOK
  <2> HIDE DEF t
  <2>6. TypeOK'
    BY <2>1, <2>3, Typed DEF ManagerInv, requests, manager, TypeOK, RunStates, RetireStates,
                             Done, Superseded
  <2>7. RequestsOK'
    BY <2>1, <2>2, <2>3, <2>4, UnbornFacts DEF ManagerInv, RequestsOK, requests, Tasks
  <2>8. ClientOK' /\ CredentialsFresh'
    BY <2>1, <2>3, <2>5, Typed DEF ManagerInv, ClientOK, CredentialsFresh, manager
  <2>9. TasksOK'
    <3>1. \A u \in Tasks : run'[u].at \in {"initing", "sleeping"} => run'[u].of # None
      BY <2>3 DEF ManagerInv, TasksOK
    <3>2. ASSUME NEW u \in Tasks, Under(u)', run'[u].of # None PROVE Owned(u)'
      <4>1. Under(u) /\ Owned(u) /\ run[u].of \in Clients /\ run'[u].of = run[u].of /\ ~Done(u)
        BY <2>3, <3>2, Typed DEF ManagerInv, TasksOK, Under, RunStates, Done, Ended
      <4>2. CASE current = u /\ client = run[u].of
        BY <2>1, <4>1, <4>2 DEF Owned, manager
      <4>3. CASE /\ retire[run[u].of].at \in {"posted", "joining"}
                 /\ retire[run[u].of].joins = u
        BY <2>3, <4>1, <4>3, BoundsAssumption DEF Owned, t, Tasks
      <4> QED
        BY <4>1, <4>2, <4>3 DEF Owned
    <3> QED
      BY <3>1, <3>2 DEF TasksOK
  <2>10. CancelsOK'
    <3>1. current' = current /\ current \in Tasks \cup {None}
      BY <2>1, Typed DEF ManagerInv, manager
    <3>2. current # None => Under(current)' /\ ~run'[current].told
      BY <2>3, <2>4, <3>1 DEF ManagerInv, CancelsOK, Under
    <3>3. \A j \in Clients : retire[j].joins \in Tasks \cup {None}
      BY Typed DEF ManagerInv, RetireStates
    <3>4. \A j \in Clients : retire'[j].joins # None =>
             run'[retire'[j].joins].at # "none" /\ retire'[j].joins # current
      BY <2>2, <2>3, <2>4, <3>3 DEF ManagerInv, CancelsOK
    <3>5. \A j \in Clients : retire'[j].at = "joining" => retire'[j].joins # None
      BY <2>3 DEF ManagerInv, CancelsOK
    <3> QED
      BY <3>1, <3>2, <3>4, <3>5 DEF CancelsOK, Under
  <2> QED
    BY <2>6, <2>7, <2>8, <2>9, <2>10 DEF ManagerInv
<1> QED
  BY <1>2, <1>3, <1>4 DEF ClientStep

\* A step that leaves everything as it is.
LEMMA StutterKeeps ==
    ASSUME ManagerInv, UNCHANGED vars PROVE ManagerInv'
<1>1. TypeOK'
  BY DEF ManagerInv, vars, TypeOK, Done, Superseded
<1>2. RequestsOK' /\ ClientOK' /\ CredentialsFresh'
  BY DEF ManagerInv, vars, RequestsOK, ClientOK, CredentialsFresh
<1>3. TasksOK' /\ CancelsOK'
  BY DEF ManagerInv, vars, TasksOK, CancelsOK, Under, Owned
<1> QED
  BY <1>1, <1>2, <1>3 DEF ManagerInv

\* What a detachment leaves behind, once the retirement has the client's task:
\* the manager has nothing, and what was its task is the retirement's.
LEMMA Detached ==
    ASSUME ManagerInv, Detach,
           UNCHANGED <<creds, made, with, ready>>,
           monitor' \in {"idle", "updating"},
           retire' \in [Clients -> RetireStates],
           run' \in [Tasks -> RunStates],
           \A k \in Clients : k # client => retire'[k] = retire[k],
           \A t \in Tasks : /\ run'[t].at = run[t].at /\ run'[t].of = run[t].of
                            /\ run'[t] # run[t] => t = current,
           client # None =>
             \/ retire'[client].at \in {"posted", "joining"} /\ retire'[client].joins = current
             \/ (current = None \/ Done(current)) /\ retire'[client].joins = None,
           client # None =>
             (retire'[client].at = "joining" => retire'[client].joins # None)
    PROVE  /\ /\ pc' \in [Callers \cup Resetters ->
                     {"idle", "looking", "getting", "got", "waiting", "retiring",
                      "answered", "cancelled"}]
              /\ seen' \in [Callers \cup Resetters -> Clients \cup Tasks \cup {None}]
              => TypeOK'
           /\ \A c \in Callers : run[c] = Unborn => run'[c] = Unborn
           /\ ClientOK' /\ TasksOK' /\ CancelsOK' /\ CredentialsFresh'
<1>1. /\ client' = None /\ initialized' = FALSE /\ generation' = generation + 1
      /\ current' = None
  BY DEF Detach
<1>2. /\ client \in Clients \cup {None} /\ current \in Tasks \cup {None} /\ made \in 0..MaxClients
      /\ current # None => Under(current)
      /\ \A k \in Clients : retire[k] \in RetireStates /\ retire'[k] \in RetireStates
      /\ \A t \in Tasks : run[t] \in RunStates
  BY Typed DEF ManagerInv, CancelsOK
<1>3. ASSUME pc' \in [Callers \cup Resetters ->
                {"idle", "looking", "getting", "got", "waiting", "retiring",
                 "answered", "cancelled"}],
             seen' \in [Callers \cup Resetters -> Clients \cup Tasks \cup {None}]
      PROVE  TypeOK'
  <2>1. generation' \in Nat /\ creds' \in 0..MaxCreds /\ made' \in 0..MaxClients
        /\ with' \in [Clients -> 0..MaxCreds] /\ ready' \subseteq Clients
    BY <1>1, Typed DEF ManagerInv
  <2> QED
    BY <1>1, <1>3, <2>1 DEF TypeOK, RunStates, RetireStates
<1>4. \A c \in Callers : run[c] = Unborn => run'[c] = Unborn
  BY <1>2, UnbornFacts, BoundsAssumption DEF Under, Tasks
<1>5. ClientOK' /\ CredentialsFresh'
  BY <1>1, <1>2, NoneFacts DEF ManagerInv, ClientOK, CredentialsFresh, Clients
<1>6. TasksOK'
  <2>1. \A u \in Tasks : run'[u].at \in {"initing", "sleeping"} => run'[u].of # None
    BY DEF ManagerInv, TasksOK
  <2>2. ASSUME NEW u \in Tasks, Under(u)', run'[u].of # None PROVE Owned(u)'
    <3>1. /\ Under(u) /\ Owned(u) /\ ~Done(u)
          /\ run'[u].of = run[u].of /\ run[u].of \in Clients
      BY <1>2, <2>2 DEF ManagerInv, TasksOK, Under, RunStates, Done, Ended
    <3>2. CASE current = u /\ client = run[u].of
      BY <1>2, <3>1, <3>2, NoneFacts, BoundsAssumption DEF Owned, Tasks
    <3>3. CASE /\ retire[run[u].of].at \in {"posted", "joining"}
               /\ retire[run[u].of].joins = u
      <4>1. run[u].of # client
        BY <3>1, <3>3, NoneFacts DEF ManagerInv, ClientOK
      <4> QED
        BY <3>1, <3>3, <4>1 DEF Owned
    <3> QED
      BY <3>1, <3>2, <3>3 DEF Owned
  <2> QED
    BY <2>1, <2>2 DEF TasksOK
<1>7. CancelsOK'
  <2>1. \A k \in Clients : retire'[k].joins # None =>
          retire'[k].joins \in Tasks /\ run'[retire'[k].joins].at # "none"
    <3>1. ASSUME NEW k \in Clients, k = client, retire'[k].joins # None
          PROVE  retire'[k].joins \in Tasks /\ run'[retire'[k].joins].at # "none"
      <4>1. retire'[k].joins = current /\ current # None
        BY <3>1, NoneFacts
      <4> QED
        BY <1>2, <4>1 DEF Under
    <3>2. ASSUME NEW k \in Clients, k # client, retire'[k].joins # None
          PROVE  retire'[k].joins \in Tasks /\ run'[retire'[k].joins].at # "none"
      <4>1. retire[k].joins # None /\ retire'[k].joins = retire[k].joins
        BY <3>2
      <4>2. retire[k].joins \in Tasks /\ run[retire[k].joins].at # "none"
        BY <1>2, <4>1 DEF ManagerInv, CancelsOK, RetireStates
      <4> QED
        BY <4>1, <4>2
    <3> QED
      BY <3>1, <3>2
  <2>2. \A k \in Clients : retire'[k].at = "joining" => retire'[k].joins # None
    BY NoneFacts DEF ManagerInv, CancelsOK
  <2> QED
    BY <1>1, <2>1, <2>2, BoundsAssumption DEF CancelsOK, Tasks
<1> QED
  BY <1>3, <1>4, <1>5, <1>6, <1>7

\* The steps of resets.
LEMMA ResetAsyncKeeps ==
    ASSUME ManagerInv, NEW c \in Resetters, ResetAsync(c) PROVE ManagerInv'
<1>1. /\ Detach /\ UNCHANGED <<creds, monitor, made, with, ready>>
      /\ client \in Clients \cup {None} /\ current \in Tasks \cup {None}
      /\ run \in [Tasks -> RunStates] /\ retire \in [Clients -> RetireStates]
      /\ monitor \in {"idle", "updating"} /\ TypeOK
  BY Typed DEF ManagerInv, ResetAsync
<1>2. PICK p \in {"answered", "retiring"}, v \in Clients \cup {None} :
        Go(c, p, v) /\ (p = "retiring" => v \in Clients)
  BY <1>1 DEF ResetAsync
<1>3. /\ pc' \in [Callers \cup Resetters ->
                  {"idle", "looking", "getting", "got", "waiting", "retiring",
                   "answered", "cancelled"}]
      /\ seen' \in [Callers \cup Resetters -> Clients \cup Tasks \cup {None}]
  BY <1>2, Typed DEF ManagerInv, Go
<1>4. TypeOK' /\ ClientOK' /\ TasksOK' /\ CancelsOK' /\ CredentialsFresh'
      /\ \A u \in Callers : run[u] = Unborn => run'[u] = Unborn
  <2>1. CASE client = None
    <3>1. run' = run /\ retire' = retire
      BY <2>1 DEF ResetAsync
    <3> QED
      BY <1>1, <1>3, <2>1, <3>1, Detached
  <2>2. CASE client # None
    <3>1. Retiring(client, current)
      BY <2>2 DEF ResetAsync
    <3> QED
      BY <1>1, <1>3, <2>2, <3>1, RetiringFacts, Detached
  <2> QED
    BY <2>1, <2>2
<1>5. RequestsOK'
  BY <1>2, <1>4, Typed, BoundsAssumption DEF ManagerInv, RequestsOK, Go
<1> QED
  BY <1>4, <1>5 DEF ManagerInv

LEMMA WithdrawResetKeeps ==
    ASSUME ManagerInv, NEW c \in Resetters, WithdrawReset(c) PROVE ManagerInv'
<1>1. seen[c] \in Clients /\ retire[seen[c]].at = "closing"
  BY DEF WithdrawReset, ManagerInv, RequestsOK
<1> QED
  BY <1>1, RetirementCloses DEF WithdrawReset

\* The monitor's two steps.
LEMMA MonitorKeeps ==
    ASSUME ManagerInv, Update \/ Reset PROVE ManagerInv'
<1>1. CASE Update
  <2>1. creds' \in 0..MaxCreds
    BY <1>1, Typed, BoundsAssumption DEF ManagerInv, Update
  <2>2. TypeOK'
    BY <1>1, <2>1 DEF ManagerInv, Update, TypeOK, manager, requests, Done, Superseded
  <2>3. RequestsOK' /\ ClientOK' /\ CredentialsFresh'
    BY <1>1 DEF ManagerInv, Update, RequestsOK, ClientOK, CredentialsFresh, manager, requests
  <2>4. TasksOK' /\ CancelsOK'
    BY <1>1 DEF ManagerInv, Update, TasksOK, CancelsOK, Under, Owned, manager
  <2> QED
    BY <2>2, <2>3, <2>4 DEF ManagerInv
<1>2. CASE Reset
  <2>1. /\ Detach /\ monitor' = "idle" /\ UNCHANGED <<creds, made, with, ready, run, requests>>
        /\ client \in Clients \cup {None} /\ current \in Tasks \cup {None}
        /\ run \in [Tasks -> RunStates] /\ retire \in [Clients -> RetireStates]
    BY <1>2, Typed DEF ManagerInv, Reset
  <2>2. CASE client = None
    BY <1>2, <2>1, <2>2, NoneFacts, Typed, Detached
    DEF ManagerInv, Reset, RequestsOK, requests
  <2>3. CASE client # None
    <3>1. PICK at \in {"posted", "closing"} :
            /\ retire' = [retire EXCEPT ![client] = [at |-> at, joins |-> current]]
            /\ at = "closing" => current = None
      BY <1>2, <2>3 DEF Reset
    <3>2. [at |-> at, joins |-> current] \in RetireStates
      BY <2>1 DEF RetireStates
    <3>3. /\ retire' \in [Clients -> RetireStates]
          /\ \A k \in Clients : k # client => retire'[k] = retire[k]
          /\ retire'[client].at = at /\ retire'[client].joins = current
      BY <2>1, <2>3, <3>1, <3>2
    <3>4. TypeOK' /\ ClientOK' /\ TasksOK' /\ CancelsOK' /\ CredentialsFresh'
      BY <2>1, <3>1, <3>3, Typed, Detached DEF ManagerInv, requests
    <3> QED
      BY <2>1, <3>4 DEF ManagerInv, RequestsOK, requests
  <2> QED
    BY <2>2, <2>3
<1> QED
  BY <1>1, <1>2

\* Every step of the manager, its tasks, its retirements and the monitor.
LEMMA ManagerStep == ManagerInv /\ [Next]_vars => ManagerInv'
<1> SUFFICES ASSUME ManagerInv, [Next]_vars PROVE ManagerInv'
  OBVIOUS
<1>1. CASE \E c \in Callers : CallerStep(c)
  BY <1>1, RequestsKeep
<1>2. CASE \E c \in Resetters : ResetAsync(c) \/ WithdrawReset(c) \/ ResetReturns(c)
  BY <1>2, ResetAsyncKeeps, WithdrawResetKeeps, RequestsKeep
<1>3. CASE \E t \in Tasks : TaskStep(t)
  BY <1>3, TasksKeep
<1>4. CASE \E k \in Clients : ClientStep(k)
  BY <1>4, RetirementsKeep
<1>5. CASE Update \/ Reset
  BY <1>5, MonitorKeeps
<1>6. CASE UNCHANGED vars
  BY <1>6, StutterKeeps
<1> QED
  BY <1>1, <1>2, <1>3, <1>4, <1>5, <1>6 DEF Next

LEMMA ManagerAlways == Spec => []ManagerInv
BY ManagerInit, ManagerStep, PTL DEF Spec

-----------------------------------------------------------------------------
\* Every variable has its type, and the manager's task is under way for the
\* client and the generation the manager has now.
THEOREM ClientTypes == Spec => []TypeOK
<1>1. ManagerInv => TypeOK
  BY DEF ManagerInv
<1> QED
  BY <1>1, ManagerAlways, PTL

\* What _initialized stands for: a client of the manager's, not one a reset has
\* taken away, and its own init() returned.
THEOREM StaleIsNotPublished == Spec => []PublishedIsReady
<1>1. ManagerInv => PublishedIsReady
  BY DEF ManagerInv, ClientOK, PublishedIsReady
<1> QED
  BY <1>1, ManagerAlways, PTL

\* However many requests, resets and updates overlap, a client has one init()
\* under way and none that its close() overtakes.
THEOREM InitializationIsShared == Spec => []OneInitialization
<1>1. ManagerInv => OneInitialization
  <2> SUFFICES ASSUME ManagerInv, NEW t \in Tasks, run[t].at = "initing"
               PROVE  /\ retire[run[t].of].at \notin {"closing", "closed"}
                      /\ \A u \in Tasks :
                           run[u].at = "initing" /\ run[u].of = run[t].of => t = u
    BY DEF OneInitialization
  <2>1. \A u \in Tasks : run[u].at = "initing" => Owned(u) /\ run[u].of # None
    BY DEF ManagerInv, TasksOK, Under
  <2>2. client # None => retire[client].at = "none"
    BY DEF ManagerInv, ClientOK
  <2> QED
    BY <2>1, <2>2 DEF Owned
<1> QED
  BY <1>1, ManagerAlways, PTL

\* Whenever no update is under way, the client that requests are given carries
\* the credentials of the last one: reset() misses no client, not even one made
\* between the change of the environment and the reset.
THEOREM CredentialsAreFresh == Spec => []CredentialsFresh
<1>1. ManagerInv => CredentialsFresh
  BY DEF ManagerInv
<1> QED
  BY <1>1, ManagerAlways, PTL
=============================================================================
