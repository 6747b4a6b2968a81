---------------------------- MODULE SessionsProofs ----------------------------
(***************************************************************************)
(* Theorems about Sessions, for every set of sessions and of callers and   *)
(* every number of account changes.                                        *)
(***************************************************************************)
EXTENDS Sessions, TLAPS

\* Generations only grow: what was noted about one is never ahead of the
\* current one, and an account change under way has room to finish.
Generations ==
    /\ switching => gen < MaxGen
    /\ \A s \in Sessions : made[s] <= gen
    /\ \A c \in Callers : asked[c] # None => asked[c] <= gen

\* A workflow, and a request that waits for one, addresses a session.
Addressed ==
    \A c \in Callers : pc[c] \in Holding \cup {"queued", "waiting"} => on[c] \in Sessions

\* A session with a workflow can be taken out of the table, by a removal or by
\* an account change, but it does not expire.
WorkflowsHoldSessions ==
    \A c \in Callers : pc[c] \in Holding => where[on[c]] \in {"live", "detached", "removed"}

\* A session in the table was made under the current account; one that was
\* drained is scheduled before other credentials are bound.
TableIsCurrent ==
    \A s \in Sessions :
        /\ where[s] \in {"live", "expired"} => made[s] = gen /\ ~switching
        /\ where[s] = "drained" /\ bound => made[s] = gen

\* A prompt is sent only in a session of the account whose client the request
\* took; when no client was taken, the send ends in the turn it returns in.
SendsAreCurrent ==
    \A c \in Callers :
        /\ pc[c] \in {"sending", "sent", "reading"} /\ asked[c] = gen => made[on[c]] = gen
        /\ pc[c] = "sent" /\ bound /\ where[on[c]] # "removed" => made[on[c]] = gen
        /\ pc[c] = "reading" => asked[c] # None

\* Decisions are about observed sources, which belong to created sessions; the
\* source of a prompt under way is needed.
SourcesAreObserved ==
    /\ \A s \in Sessions : handed[s].how # "none" => s \in known
    /\ \A s \in known : where[s] \notin {"none", "starting"}
    /\ \A c \in Callers : pc[c] = "sending" => on[c] \in needed

\* The inductive invariant.
Inv ==
    /\ TypeOK /\ Generations /\ Addressed /\ WorkflowsHoldSessions
    /\ TableIsCurrent /\ SendsAreCurrent /\ SourcesAreObserved
    /\ SendingIsKept /\ SourceAccountedFor /\ OneDisposer /\ DetachedStaysInAccount

-----------------------------------------------------------------------------
\* What the operators shared by several actions do.  A sweep expires live
\* sessions nobody works on; a drain takes expired ones out of the table.
LEMMA Sweeping ==
  ASSUME TypeOK
  PROVE  /\ Swept \in [Sessions -> Places]
         /\ \A s \in Sessions : Swept[s] = IF Expired(s) THEN "expired" ELSE where[s]
  BY DEF TypeOK, Swept, Places

LEMMA Draining ==
  ASSUME NEW w \in [Sessions -> Places]
  PROVE  /\ Drained(w) \in [Sessions -> Places]
         /\ \A s \in Sessions : Drained(w)[s] = IF w[s] = "expired" THEN "drained" ELSE w[s]
  BY DEF Drained, Places

LEMMA SweepAndDrain ==
  ASSUME TypeOK
  PROVE  /\ Drained(Swept) \in [Sessions -> Places]
         /\ \A s \in Sessions : Drained(Swept)[s] =
              IF Expired(s) \/ where[s] = "expired" THEN "drained" ELSE where[s]
  BY Sweeping, Draining DEF Expired

\* A decision is taken for an observed source, never for another one; a source
\* is given up to deletion only under the current account's credentials.
LEMMA Deciding ==
  ASSUME TypeOK, NEW s \in Sessions, NEW g, NEW keep \in BOOLEAN,
         NEW by \in {"send", "expiry", "reset", "clear"}, Decide(s, g, keep, by)
  PROVE  /\ handed' \in [Sessions -> Decisions]
         /\ \A r \in Sessions : r # s \/ s \notin known' => handed'[r] = handed[r]
         /\ s \in known' => /\ handed'[s].how \in {"pending", "retained", "cancelled"}
                            /\ handed'[s].gen = gen
                            /\ handed'[s].how = "pending" => ~keep /\ bound /\ g \in {None, gen}
  BY DEF TypeOK, Decide, Decisions, Outcome

LEMMA Recording ==
  ASSUME TypeOK, NEW s \in Sessions, Record(s)
  PROVE  /\ handed' \in [Sessions -> Decisions]
         /\ \A r \in Sessions : r # s \/ s \notin known' => handed'[r] = handed[r]
         /\ s \in known' => handed'[s].how = "cancelled"
  BY DEF TypeOK, Record, Decisions

\* Where a step may move a session: a sweep takes only sessions without a
\* workflow, only a live one can be removed, and only those still in the table
\* are detached.
Aging(s) ==
    \/ where'[s] = where[s]
    \/ where[s] = "live" /\ lock[s] = None /\ where'[s] \in {"expired", "drained"}
    \/ where[s] = "expired" /\ where'[s] = "drained"

Moved(s) ==
    \/ Aging(s)
    \/ where[s] = "none" /\ where'[s] = "starting"
    \/ where[s] = "starting" /\ where'[s] = "live" /\ made[s] = gen /\ ~switching
    \/ where[s] = "starting" /\ where'[s] = "gone"
    \/ where[s] = "drained" /\ where'[s] = "gone"
    \/ where[s] = "live" /\ where'[s] = "removed"
    \/ where[s] \in {"live", "expired"} /\ where'[s] = "detached" /\ switching'

Moves == where' \in [Sessions -> Places] /\ \A s \in Sessions : Moved(s)

LEMMA SessionsMove ==
  ASSUME Inv, Next
  PROVE  Moves
<1> USE CallersAssumption, Sweeping, Draining, SweepAndDrain
    DEF Inv, Addressed, TypeOK, Moves, Moved, Aging, Expired, Places, Lock, Pop, StillLive,
        account, calls
<1>1. ASSUME NEW s \in Sessions, SessionStep(s)
      PROVE  Moves
  <2>1. CASE Create(s)
    <3> DEFINE w == [Swept EXCEPT ![s] = "live"]
    <3>1. w \in [Sessions -> Places] /\ \A r \in Sessions : w[r] = IF r = s THEN "live" ELSE Swept[r]
      OBVIOUS
    <3>2. CASE made[s] = gen
      <4>1. where' = Drained(w)
        BY <2>1, <3>2 DEF Create
      <4>2. where[s] = "starting" /\ ~switching /\ UNCHANGED <<lock, switching>>
        BY <2>1 DEF Create
      <4> HIDE DEF w
      <4>3. /\ where' \in [Sessions -> Places]
            /\ \A r \in Sessions : where'[r] = IF w[r] = "expired" THEN "drained" ELSE w[r]
        BY <3>1, <4>1
      <4> QED
        BY <3>1, <3>2, <4>2, <4>3
    <3>3. CASE made[s] # gen
      BY <2>1, <3>3 DEF Create
    <3> QED
      BY <3>2, <3>3
  <2>2. CASE StartSession(s) \/ Age(s) \/ ScheduleExpired(s)
    BY <2>2 DEF StartSession, Age, ScheduleExpired
  <2> QED
    BY <1>1, <2>1, <2>2 DEF SessionStep
<1>2. ASSUME NEW c \in Callers, Request(c)
      PROVE  Moves
  <2>1. ASSUME NEW s \in Sessions, Send(c, s) \/ Reset(c, s) \/ Remove(c, s)
        PROVE  Moves
    BY <2>1 DEF Send, Reset, Remove
  <2>2. CASE ResetAll(c)
    BY <2>2 DEF ResetAll
  <2> QED
    BY <1>2, <2>1, <2>2 DEF Request
<1>3. ASSUME NEW c \in Callers, Progress(c) \/ Observe(c)
      PROVE  Moves
  <2>1. CASE Acquire(c)
    <3> DEFINE w == [Swept EXCEPT ![on[c]] = where[on[c]]]
    <3>1. /\ w \in [Sessions -> Places]
          /\ \A r \in Sessions : w[r] = IF r = on[c] THEN where[r] ELSE Swept[r]
      BY <2>1 DEF Acquire
    <3>2. where' = Drained(w)
      BY <2>1 DEF Acquire
    <3> HIDE DEF w
    <3> QED
      BY <3>1, <3>2
  <2>2. CASE PrepareClient(c) \/ PrepareFails(c) \/ ReadTask(c) \/ ScheduleSource(c) \/ Observe(c)
    <3>1. where' = where
      BY <2>2, Zenon DEF PrepareClient, PrepareFails, ReadTask, ScheduleSource, Observe
    <3> QED
      BY <3>1
  <2>3. CASE Submit(c)
    BY <2>3 DEF Submit
  <2>4. CASE SendReturns(c)
    BY <2>4 DEF SendReturns
  <2>5. CASE SendFails(c)
    <3>1. where' = where \/ where' = Drained(where)
      BY <2>5 DEF SendFails
    <3> QED
      BY <3>1
  <2>6. CASE ResetAcquires(c)
    BY <2>6 DEF ResetAcquires
  <2>7. CASE Collect(c)
    BY <2>7 DEF Collect
  <2>8. CASE Dispose(c) \/ Deleted(c)
    BY <2>8 DEF Dispose, Deleted
  <2> QED
    BY <1>3, <2>1, <2>2, <2>3, <2>4, <2>5, <2>6, <2>7, <2>8 DEF Progress
<1>4. CASE Bind \/ SwitchSessions \/ SwitchCleanup
  BY <1>4 DEF Bind, SwitchSessions, SwitchCleanup
<1> QED
  BY <1>1, <1>2, <1>3, <1>4 DEF Next

\* What a step may decide about a source: it is observed, and it is given up to
\* deletion only by the turn that expired the session, by its last send or by
\* the request that removed it, never while a prompt is under way.
Given(s) ==
    \/ handed'[s] = handed[s]
    \/ /\ s \in known'
       /\ handed'[s].how \in {"pending", "retained", "cancelled"}
       /\ handed'[s].how = "pending" =>
            /\ handed'[s].gen = gen
            /\ made[s] = gen \/ where[s] = "removed"
            /\ \A c \in Callers : ~(pc[c] = "sending" /\ on[c] = s)

Decides == handed' \in [Sessions -> Decisions] /\ \A s \in Sessions : Given(s)

\* A decision about an observed source is such a step if it may only lead to a
\* deletion when that is allowed.
LEMMA DecidingSettles ==
  ASSUME TypeOK, NEW s \in Sessions, NEW g, NEW keep \in BOOLEAN,
         NEW by \in {"send", "expiry", "reset", "clear"}, Decide(s, g, keep, by),
         s \in known' /\ ~keep /\ bound /\ g \in {None, gen} =>
           /\ made[s] = gen \/ where[s] = "removed"
           /\ \A c \in Callers : ~(pc[c] = "sending" /\ on[c] = s)
  PROVE  Decides
<1>1. /\ handed' \in [Sessions -> Decisions]
      /\ \A r \in Sessions : r # s \/ s \notin known' => handed'[r] = handed[r]
      /\ s \in known' => /\ handed'[s].how \in {"pending", "retained", "cancelled"}
                         /\ handed'[s].gen = gen
                         /\ handed'[s].how = "pending" => ~keep /\ bound /\ g \in {None, gen}
  BY Deciding
<1> QED
  BY <1>1 DEF Decides, Given

LEMMA RecordingSettles ==
  ASSUME TypeOK, NEW s \in Sessions, Record(s)
  PROVE  Decides
<1>1. /\ handed' \in [Sessions -> Decisions]
      /\ \A r \in Sessions : r # s \/ s \notin known' => handed'[r] = handed[r]
      /\ s \in known' => handed'[s].how = "cancelled"
  BY Recording
<1> QED
  BY <1>1 DEF Decides, Given

LEMMA SourcesAreDecided ==
  ASSUME Inv, Next
  PROVE  Decides
<1>0. UNCHANGED handed => Decides
  BY DEF Inv, TypeOK, Decides, Given
<1>a. TypeOK
  BY DEF Inv
<1>1. ASSUME NEW s \in Sessions, SessionStep(s)
      PROVE  Decides
  <2>1. CASE ScheduleExpired(s)
    <3>1. PICK keep \in BOOLEAN : Decide(s, None, Keeps(s, keep), "expiry")
      BY <2>1 DEF ScheduleExpired
    <3>2. where[s] = "drained" /\ Keeps(s, keep) \in BOOLEAN
      BY <2>1 DEF ScheduleExpired, Keeps
    <3>3. \A c \in Callers : ~(pc[c] = "sending" /\ on[c] = s)
      BY <3>2 DEF Inv, WorkflowsHoldSessions, Holding
    <3>4. bound => made[s] = gen
      BY <3>2 DEF Inv, TableIsCurrent
    <3> QED
      BY <1>a, <3>1, <3>2, <3>3, <3>4, DecidingSettles
  <2>2. CASE StartSession(s) \/ Create(s) \/ Age(s)
    BY <1>0, <2>2, Zenon DEF StartSession, Create, Age
  <2> QED
    BY <1>1, <2>1, <2>2 DEF SessionStep
<1>2. ASSUME NEW c \in Callers, Request(c)
      PROVE  Decides
  BY <1>0, <1>2 DEF Request, Send, Reset, Remove, ResetAll
<1>3. ASSUME NEW c \in Callers, Progress(c) \/ Observe(c)
      PROVE  Decides
  <2> DEFINE s == on[c]
  <2>0. pc[c] \in Holding => s \in Sessions /\ lock[s] = c
    BY DEF Inv, TypeOK, Addressed
  <2>1. CASE Submit(c) \/ Observe(c)
    <3>1. s \in Sessions /\ Decide(s, asked[c], TRUE, "send")
      BY <2>0, <2>1 DEF Submit, Observe, Holding
    <3> QED
      BY <1>a, <3>1, DecidingSettles
  <2>2. CASE SendReturns(c)
    <3>1. s \in Sessions /\ (handed' = handed \/ Record(s))
      BY <2>0, <2>2 DEF SendReturns, Holding
    <3> QED
      BY <1>0, <1>a, <3>1, RecordingSettles
  <2>3. CASE SendFails(c)
    <3>1. s \in Sessions /\ (Record(s) \/ Decide(s, asked[c], TRUE, "send"))
      BY <2>0, <2>3 DEF SendFails, Holding
    <3> QED
      BY <1>a, <3>1, RecordingSettles, DecidingSettles
  <2>4. CASE ScheduleSource(c)
    <3>1. PICK keep \in BOOLEAN : Decide(s, asked[c], keep, "send")
      BY <2>4 DEF ScheduleSource
    <3>2. s \in Sessions /\ lock[s] = c /\ pc[c] \in {"sent", "reading"}
      BY <2>0, <2>4 DEF ScheduleSource, Holding
    <3>3. \A d \in Callers : ~(pc[d] = "sending" /\ on[d] = s)
      BY <1>a, <3>2 DEF TypeOK, Holding
    <3>4. bound /\ asked[c] \in {None, gen} => made[s] = gen \/ where[s] = "removed"
      BY <3>2 DEF Inv, SendsAreCurrent
    <3> QED
      BY <1>a, <3>1, <3>2, <3>3, <3>4, DecidingSettles
  <2>5. CASE Dispose(c)
    <3>1. PICK r \in mine[c], keep \in BOOLEAN, by \in {"clear", "reset"} :
            Decide(r, None, Keeps(r, keep), by)
      BY <2>5 DEF Dispose
    <3>2. r \in Sessions
      BY <1>a, <3>1 DEF TypeOK
    <3>3. where[r] = "removed"
      BY <3>1 DEF Inv, OneDisposer
    <3>4. Keeps(r, keep) \in BOOLEAN /\ (r \in needed => Keeps(r, keep))
      BY DEF Keeps
    <3>5. r \in needed \/ \A d \in Callers : ~(pc[d] = "sending" /\ on[d] = r)
      BY DEF Inv, SourcesAreObserved
    <3> QED
      BY <1>a, <3>1, <3>2, <3>3, <3>4, <3>5, DecidingSettles
  <2>6. CASE Acquire(c) \/ PrepareClient(c) \/ PrepareFails(c) \/ ReadTask(c) \/ ResetAcquires(c)
             \/ Collect(c) \/ Deleted(c)
    BY <1>0, <2>6 DEF Acquire, PrepareClient, PrepareFails, ReadTask, ResetAcquires, Collect, Deleted
  <2> QED
    BY <1>3, <2>1, <2>2, <2>3, <2>4, <2>5, <2>6 DEF Progress
<1>4. CASE Bind \/ SwitchSessions
  BY <1>0, <1>4 DEF Bind, SwitchSessions
<1>5. CASE SwitchCleanup
  BY <1>a, <1>5 DEF SwitchCleanup, Decisions, Decides, Given, TypeOK, Inv, SourcesAreObserved
<1> QED
  BY <1>1, <1>2, <1>3, <1>4, <1>5 DEF Next

LEMMA TypesKept ==
  ASSUME Inv, Next
  PROVE  TypeOK'
<1>1. where' \in [Sessions -> Places] /\ handed' \in [Sessions -> Decisions]
  BY SessionsMove, SourcesAreDecided DEF Moves, Decides
<1> USE CallersAssumption DEF Inv, TypeOK, Addressed, Generations, Holding, account, calls, Lock, Go, End, Pop
<1>2. ASSUME NEW s \in Sessions, SessionStep(s)
      PROVE  TypeOK'
  <2>1. CASE StartSession(s)
    BY <1>1, <2>1 DEF StartSession
  <2>2. CASE Create(s) \/ ScheduleExpired(s)
    <3>1. UNCHANGED <<account, made, aged, known, needed, lock, calls>>
      BY <2>2, Zenon DEF Create, ScheduleExpired
    <3> QED
      BY <1>1, <3>1
  <2>3. CASE Age(s)
    BY <1>1, <2>3 DEF Age
  <2> QED
    BY <1>2, <2>1, <2>2, <2>3 DEF SessionStep
<1>3. ASSUME NEW c \in Callers, Request(c)
      PROVE  TypeOK'
  <2>1. ASSUME NEW s \in Sessions, Send(c, s)
        PROVE  TypeOK'
    BY <1>1, <2>1 DEF Send
  <2>2. ASSUME NEW s \in Sessions, Reset(c, s) \/ Remove(c, s)
        PROVE  TypeOK'
    BY <1>1, <2>2 DEF Reset, Remove
  <2>3. CASE ResetAll(c)
    BY <1>1, <2>3 DEF ResetAll
  <2> QED
    BY <1>3, <2>1, <2>2, <2>3 DEF Request
<1>4. ASSUME NEW c \in Callers, Progress(c) \/ Observe(c)
      PROVE  TypeOK'
  <2>1. CASE Acquire(c)
    <3>a. /\ on[c] \in Sessions /\ pc[c] = "queued" /\ lock[on[c]] = None
          /\ UNCHANGED <<account, made, aged, known, needed, todo, mine>>
      BY <2>1 DEF Acquire
    <3>1. CASE StillLive(on[c])
      <4>1. /\ lock' = [lock EXCEPT ![on[c]] = c] /\ pc' = [pc EXCEPT ![c] = "ready"]
            /\ UNCHANGED <<on, asked>>
        BY <2>1, <3>1 DEF Acquire
      <4> QED
        BY <1>1, <3>a, <4>1
    <3>2. CASE ~StillLive(on[c])
      <4>1. End(c) /\ UNCHANGED lock
        BY <2>1, <3>2 DEF Acquire
      <4> QED
        BY <1>1, <3>a, <4>1
    <3> QED
      BY <3>1, <3>2
  <2>2. CASE PrepareClient(c)
    BY <1>1, <2>2 DEF PrepareClient
  <2>10. CASE PrepareFails(c)
    BY <1>1, <2>10 DEF PrepareFails
  <2>11. CASE Observe(c)
    BY <1>1, <2>11 DEF Observe
  <2>3. CASE Submit(c)
    BY <1>1, <2>3 DEF Submit
  <2>4. CASE SendReturns(c)
    BY <1>1, <2>4 DEF SendReturns
  <2>5. CASE SendFails(c)
    BY <1>1, <2>5 DEF SendFails
  <2>6. CASE ReadTask(c) \/ ScheduleSource(c)
    BY <1>1, <2>6 DEF ReadTask, ScheduleSource
  <2>7. CASE ResetAcquires(c)
    BY <1>1, <2>7 DEF ResetAcquires
  <2>8. CASE Collect(c)
    BY <1>1, <2>8 DEF Collect
  <2>9. CASE Dispose(c) \/ Deleted(c)
    BY <1>1, <2>9 DEF Dispose, Deleted
  <2> QED
    BY <1>4, <2>1, <2>2, <2>3, <2>4, <2>5, <2>6, <2>7, <2>8, <2>9, <2>10, <2>11 DEF Progress
<1>5. CASE Bind
  BY <1>1, <1>5 DEF Bind
<1>6. CASE SwitchSessions
  BY <1>1, <1>6 DEF SwitchSessions
<1>7. CASE SwitchCleanup
  <2>1. gen' \in 0..MaxGen
    BY <1>7 DEF SwitchCleanup
  <2>2. UNCHANGED <<made, aged, known, needed, lock, calls>> /\ bound' = FALSE /\ switching' = FALSE
    BY <1>7 DEF SwitchCleanup
  <2> QED
    BY <1>1, <2>1, <2>2
<1> QED
  BY <1>2, <1>3, <1>4, <1>5, <1>6, <1>7 DEF Next

\* How a step may move a caller: it ends or starts a request, waits for a live
\* session's lock, takes it, takes a client, or goes through a send.
Stays(c) == pc'[c] = pc[c] /\ on'[c] = on[c] /\ asked'[c] = asked[c]

Went(c) ==
    /\ asked'[c] \in {asked[c], None, gen}
    /\ \/ Stays(c)
       \/ pc'[c] \notin Holding \cup {"queued", "waiting"}
          /\ (pc[c] \in {"sending", "sent", "reading"} /\ on[c] \in known' =>
                handed'[on[c]].how # "none")
       \/ pc'[c] \in {"queued", "waiting"} /\ pc[c] \notin Holding /\ on'[c] \in Sessions
       \/ /\ pc'[c] = "ready" /\ pc[c] \notin Holding
          /\ on'[c] \in Sessions /\ where'[on'[c]] = "live"
       \/ pc[c] = "ready" /\ pc'[c] = "prepared" /\ on'[c] = on[c]
       \/ /\ pc[c] \in {"ready", "prepared"} /\ pc'[c] = "sending"
          /\ on'[c] = on[c] /\ asked'[c] = asked[c]
          /\ where[on[c]] = "live" /\ on[c] \in needed'
          /\ handed'[on[c]].how # "pending"
       \/ /\ pc[c] = "sending" /\ pc'[c] = "sent"
          /\ on'[c] = on[c] /\ asked'[c] = asked[c] /\ where[on[c]] # "detached"
       \/ /\ pc[c] = "sent" /\ pc'[c] = "reading"
          /\ on'[c] = on[c] /\ asked'[c] = asked[c] /\ asked[c] # None

CallersGo == \A c \in Callers : Went(c)

LEMMA CallersMove ==
  ASSUME Inv, Next
  PROVE  CallersGo
<1> USE CallersAssumption DEF Inv, CallersGo, Went, Stays
<1>0. ASSUME UNCHANGED <<pc, on, asked>>
      PROVE  CallersGo
  BY <1>0
<1>a. TypeOK
  OBVIOUS
<1>1. ASSUME NEW s \in Sessions, SessionStep(s)
      PROVE  CallersGo
  BY <1>0, <1>1, Zenon DEF SessionStep, StartSession, Create, Age, ScheduleExpired, calls
<1>2. ASSUME NEW c \in Callers, Request(c)
      PROVE  CallersGo
  <2> USE DEF TypeOK, Go, End, Holding, Pop, calls
  <2>1. ASSUME NEW s \in Sessions, Send(c, s)
        PROVE  CallersGo
    BY <2>1, SweepAndDrain, Sweeping DEF Send, Expired
  <2>2. ASSUME NEW s \in Sessions, Reset(c, s) \/ Remove(c, s)
        PROVE  CallersGo
    BY <2>2 DEF Reset, Remove
  <2>3. CASE ResetAll(c)
    BY <2>3 DEF ResetAll
  <2> QED
    BY <1>2, <2>1, <2>2, <2>3 DEF Request
<1>3. ASSUME NEW c \in Callers, Progress(c) \/ Observe(c)
      PROVE  CallersGo
  <2> DEFINE s == on[c]
  <2>0. pc[c] \in Holding \cup {"queued", "waiting"} => s \in Sessions
    BY DEF Addressed
  <2> USE DEF Go, End, Holding
  <2>1. CASE Acquire(c)
    <3> DEFINE w == [Swept EXCEPT ![s] = where[s]]
    <3>1. w \in [Sessions -> Places] /\ w[s] = where[s] /\ where' = Drained(w) /\ s \in Sessions
      BY <2>0, <2>1, Sweeping DEF Acquire, TypeOK
    <3>2. where[s] = "live" => where'[s] = "live"
      <4> HIDE DEF w
      <4> QED
        BY <3>1, Draining
    <3>3. CASE StillLive(s)
      <4>1. pc[c] = "queued" /\ pc' = [pc EXCEPT ![c] = "ready"] /\ UNCHANGED <<on, asked>>
        BY <2>1, <3>3 DEF Acquire
      <4> QED
        BY <3>1, <3>2, <3>3, <4>1 DEF StillLive, TypeOK
    <3>4. CASE ~StillLive(s)
      <4>1. pc[c] = "queued" /\ End(c)
        BY <2>1, <3>4 DEF Acquire
      <4> QED
        BY <4>1 DEF TypeOK
    <3> QED
      BY <3>3, <3>4
  <2>2. CASE PrepareClient(c)
    BY <2>2 DEF PrepareClient, TypeOK
  <2>3. CASE PrepareFails(c)
    BY <2>3 DEF PrepareFails, TypeOK
  <2>4. CASE Submit(c)
    <3>1. /\ s \in Sessions /\ pc[c] \in {"ready", "prepared"} /\ s \in needed' /\ known' = known
          /\ Decide(s, asked[c], TRUE, "send")
      BY <2>0, <2>4 DEF Submit, TypeOK
    <3>2. handed'[s].how # "pending"
      <4>1. s \in known \/ handed[s].how = "none"
        BY <3>1 DEF SourcesAreObserved
      <4>2. s \in known => handed'[s].how # "pending"
        BY <1>a, <3>1, Deciding
      <4>3. s \notin known => handed'[s] = handed[s]
        BY <1>a, <3>1, Deciding
      <4> QED
        BY <4>1, <4>2, <4>3
    <3>3. CASE StillLive(s)
      <4>1. pc' = [pc EXCEPT ![c] = "sending"] /\ UNCHANGED <<on, asked>>
        BY <2>4, <3>3 DEF Submit
      <4> QED
        BY <3>1, <3>2, <3>3, <4>1 DEF StillLive, TypeOK
    <3>4. CASE ~StillLive(s)
      <4>1. End(c)
        BY <2>4, <3>4 DEF Submit
      <4> QED
        BY <3>1, <4>1 DEF TypeOK
    <3> QED
      BY <3>3, <3>4
  <2>5. CASE Observe(c)
    BY <1>0, <2>5 DEF Observe, calls
  <2>6. CASE SendReturns(c)
    BY <2>0, <2>6, Recording DEF SendReturns, TypeOK
  <2>7. CASE SendFails(c)
    <3>1. /\ s \in Sessions /\ End(c) /\ known' = known
          /\ Record(s) \/ Decide(s, asked[c], TRUE, "send")
      BY <2>0, <2>7 DEF SendFails
    <3>2. s \in known' => handed'[s].how # "none"
      BY <1>a, <3>1, Recording, Deciding
    <3> QED
      BY <3>1, <3>2 DEF TypeOK
  <2>8. CASE ReadTask(c)
    BY <2>8 DEF ReadTask, TypeOK
  <2>9. CASE ScheduleSource(c)
    BY <2>0, <2>9, Deciding DEF ScheduleSource, TypeOK
  <2>10. CASE ResetAcquires(c)
    BY <2>10 DEF ResetAcquires, TypeOK
  <2>11. CASE Collect(c)
    BY <2>11 DEF Collect, TypeOK
  <2>12. CASE Dispose(c) \/ Deleted(c)
    BY <2>12 DEF Dispose, Deleted, TypeOK
  <2> QED
    BY <1>3, <2>1, <2>2, <2>3, <2>4, <2>5, <2>6, <2>7, <2>8, <2>9, <2>10, <2>11, <2>12 DEF Progress
<1>4. CASE Bind \/ SwitchSessions \/ SwitchCleanup
  BY <1>0, <1>4, Zenon DEF Bind, SwitchSessions, SwitchCleanup, calls
<1> QED
  BY <1>1, <1>2, <1>3, <1>4 DEF Next

\* How a step may move the account: credentials are bound only between turns,
\* and when the generation moves on no session is in the table.
Clocks ==
    /\ \/ gen' = gen
       \/ gen' = gen + 1 /\ bound' = FALSE /\ switching /\ switching' = FALSE
    /\ switching' => gen' < MaxGen
    /\ switching' /\ ~switching => \A s \in Sessions : where'[s] \notin {"live", "expired"}
    /\ bound' => bound \/ Free
    /\ \A s \in Sessions : made'[s] = made[s] \/ (where[s] = "none" /\ made'[s] = gen)

LEMMA GenerationsMove ==
  ASSUME Inv, Next
  PROVE  Clocks
<1> USE CallersAssumption DEF Inv, TypeOK, Generations, account, calls
<1>1. ASSUME NEW s \in Sessions, SessionStep(s)
      PROVE  /\ UNCHANGED <<gen, switching>>
             /\ bound' /\ ~bound => Free
             /\ \A r \in Sessions : made'[r] = made[r] \/ (where[r] = "none" /\ made'[r] = gen)
  BY <1>1 DEF SessionStep, StartSession, Create, Age, ScheduleExpired
<1>2. ASSUME NEW c \in Callers, Request(c)
      PROVE  UNCHANGED <<gen, bound, switching, made>>
  BY <1>2, Zenon DEF Request, Send, Reset, Remove, ResetAll
<1>3. ASSUME NEW c \in Callers, Progress(c) \/ Observe(c)
      PROVE  UNCHANGED <<gen, switching, made>> /\ (bound' = bound \/ Free)
  BY <1>3, Zenon DEF Progress, Acquire, PrepareClient, PrepareFails, Submit, Observe, SendReturns,
              SendFails, ReadTask, ScheduleSource, ResetAcquires, Collect, Dispose, Deleted
<1>4. CASE Bind
  BY <1>4 DEF Bind, Clocks
<1>5. CASE SwitchSessions
  BY <1>5 DEF SwitchSessions, Clocks
<1>6. CASE SwitchCleanup
  BY <1>6 DEF SwitchCleanup, Clocks
<1>7. ASSUME UNCHANGED <<gen, switching>>, bound' => bound \/ Free,
             \A s \in Sessions : made'[s] = made[s] \/ (where[s] = "none" /\ made'[s] = gen)
      PROVE  Clocks
  BY <1>7 DEF Clocks
<1> QED
  BY <1>1, <1>2, <1>3, <1>4, <1>5, <1>6, <1>7 DEF Next

\* A source is observed by the send under way in its session, and stops being
\* needed only at the end of one.
Observed ==
    /\ known \subseteq known'
    /\ \A s \in known' \ known : \E c \in Callers :
         /\ pc[c] = "sending" /\ on[c] = s
         /\ handed'[s].how # "none" \/ (pc'[c] = "sent" /\ on'[c] = s)
    /\ \A s \in needed \ needed' : \E c \in Callers : pc[c] \in {"sent", "reading"} /\ on[c] = s

LEMMA SourcesStay ==
  ASSUME Inv, Next
  PROVE  Observed
<1> USE CallersAssumption DEF Inv, TypeOK, Addressed, Holding, account, calls
<1>1. ASSUME NEW s \in Sessions, SessionStep(s)
      PROVE  UNCHANGED <<known, needed>>
  BY <1>1, Zenon DEF SessionStep, StartSession, Create, Age, ScheduleExpired
<1>2. ASSUME NEW c \in Callers, Request(c)
      PROVE  UNCHANGED <<known, needed>>
  BY <1>2, Zenon DEF Request, Send, Reset, Remove, ResetAll
<1>3. ASSUME NEW c \in Callers, Progress(c) \/ Observe(c),
             ~(SendReturns(c) \/ Submit(c) \/ ScheduleSource(c) \/ Observe(c))
      PROVE  UNCHANGED <<known, needed>>
  BY <1>3, Zenon DEF Progress, Acquire, PrepareClient, PrepareFails,
              SendFails, ReadTask, ResetAcquires, Collect, Dispose, Deleted
<1>4. ASSUME NEW c \in Callers, SendReturns(c)
      PROVE  /\ needed' = needed /\ known' \in {known, known \cup {on[c]}} /\ pc[c] = "sending"
             /\ on[c] \in known' => handed'[on[c]].how # "none" \/ (pc'[c] = "sent" /\ on'[c] = on[c])
  BY <1>4, Recording DEF SendReturns, Go
<1>5. ASSUME NEW c \in Callers, Submit(c) \/ ScheduleSource(c)
      PROVE  /\ known' = known
             /\ needed \subseteq needed' \/ (needed' = needed \ {on[c]} /\ pc[c] \in {"sent", "reading"})
  BY <1>5 DEF Submit, ScheduleSource
<1>6. ASSUME NEW c \in Callers, Observe(c)
      PROVE  /\ needed' = needed /\ known' = known \cup {on[c]} /\ pc[c] = "sending"
             /\ handed'[on[c]].how # "none"
  <2>1. on[c] \in Sessions /\ Decide(on[c], asked[c], TRUE, "send") /\ on[c] \in known'
    BY <1>6 DEF Observe
  <2>2. TypeOK
    BY DEF Inv
  <2>3. handed'[on[c]].how # "none"
    BY <2>1, <2>2, Deciding
  <2> QED
    BY <1>6, <2>3 DEF Observe
<1>7. ASSUME Bind \/ SwitchSessions \/ SwitchCleanup
      PROVE  UNCHANGED <<known, needed>>
  BY <1>7, Zenon DEF Bind, SwitchSessions, SwitchCleanup
<1> QED
  BY <1>1, <1>2, <1>3, <1>4, <1>5, <1>6, <1>7 DEF Next, Observed

\* A request takes live sessions out of the table, one request at a time.
RemovesLive ==
    /\ \A c \in Callers : \A s \in mine'[c] \ mine[c] : where[s] = "live" /\ where'[s] = "removed"
    /\ \A c, d \in Callers : c = d \/ mine'[c] = mine[c] \/ mine'[d] = mine[d]

LEMMA RemovedOnce ==
  ASSUME Inv, Next
  PROVE  RemovesLive
<1> USE CallersAssumption DEF Inv, TypeOK, account, calls
<1>1. ASSUME NEW s \in Sessions, SessionStep(s)
      PROVE  UNCHANGED mine
  BY <1>1, Zenon DEF SessionStep, StartSession, Create, Age, ScheduleExpired
<1>2. ASSUME NEW c \in Callers, Request(c)
      PROVE  /\ \A d \in Callers : d # c => mine'[d] = mine[d]
             /\ \A s \in mine'[c] \ mine[c] : where[s] = "live" /\ where'[s] = "removed"
  <2>1. ASSUME NEW s \in Sessions, Swept[s] = "live"
        PROVE  where[s] = "live"
    BY <2>1, Sweeping
  <2> QED
    BY <1>2, <2>1 DEF Request, Send, Reset, Remove, ResetAll, Pop
<1>3. ASSUME NEW c \in Callers, Progress(c) \/ Observe(c)
      PROVE  /\ \A d \in Callers : d # c => mine'[d] = mine[d]
             /\ \A s \in mine'[c] \ mine[c] : where[s] = "live" /\ where'[s] = "removed"
  <2>1. CASE ResetAcquires(c)
    BY <2>1 DEF ResetAcquires, Pop, StillLive, Addressed
  <2>2. CASE Collect(c)
    BY <2>2 DEF Collect, Pop, StillLive
  <2>3. CASE Dispose(c)
    BY <2>3 DEF Dispose
  <2>4. CASE ~(ResetAcquires(c) \/ Collect(c) \/ Dispose(c))
    <3>1. UNCHANGED mine
      BY <1>3, <2>4, Zenon DEF Progress, Acquire, PrepareClient, PrepareFails, Submit, Observe,
              SendReturns, SendFails, ReadTask, ScheduleSource, Deleted
    <3> QED
      BY <3>1
  <2> QED
    BY <2>1, <2>2, <2>3, <2>4
<1>4. ASSUME Bind \/ SwitchSessions \/ SwitchCleanup
      PROVE  UNCHANGED mine
  BY <1>4, Zenon DEF Bind, SwitchSessions, SwitchCleanup
<1> QED
  BY <1>1, <1>2, <1>3, <1>4 DEF Next, RemovesLive

-----------------------------------------------------------------------------
\* Each part of the invariant is kept, from what steps do.
LEMMA PartsKept ==
  ASSUME Inv, Next
  PROVE  /\ Generations' /\ Addressed' /\ WorkflowsHoldSessions'
         /\ TableIsCurrent' /\ SendsAreCurrent' /\ SourcesAreObserved'
         /\ SendingIsKept' /\ SourceAccountedFor' /\ OneDisposer' /\ DetachedStaysInAccount'
<1>1. TypeOK /\ TypeOK' /\ Moves /\ Decides /\ CallersGo /\ Clocks /\ Observed /\ RemovesLive
  BY TypesKept, SessionsMove, SourcesAreDecided, CallersMove, GenerationsMove, SourcesStay,
     RemovedOnce DEF Inv
<1>2. Addressed'
  BY <1>1 DEF CallersGo, Went, Stays, Addressed, Inv, Holding
<1>3. Generations'
  <2>1. ASSUME NEW c \in Callers, asked'[c] # None
        PROVE  asked'[c] <= gen'
    <3>1. gen \in Nat /\ gen <= gen'
      BY <1>1, CallersAssumption DEF Clocks, TypeOK
    <3>2. asked'[c] = gen \/ (asked'[c] = asked[c] /\ asked[c] \in Nat /\ asked[c] <= gen)
      BY <1>1, <2>1, CallersAssumption DEF CallersGo, Went, Inv, Generations, TypeOK
    <3> QED
      BY <1>1, <3>1, <3>2, CallersAssumption DEF TypeOK
  <2>2. ASSUME NEW s \in Sessions
        PROVE  made'[s] <= gen'
    <3>1. made[s] \in Nat /\ made[s] <= gen /\ gen \in Nat /\ gen <= gen'
      BY <1>1, CallersAssumption DEF Clocks, TypeOK, Inv, Generations
    <3>2. made'[s] \in {made[s], gen} /\ gen' \in Nat
      BY <1>1, CallersAssumption DEF Clocks, TypeOK
    <3> QED
      BY <3>1, <3>2
  <2> QED
    BY <1>1, <2>1, <2>2 DEF Generations, Clocks
<1>a. ASSUME NEW c \in Callers, pc[c] \in Holding
      PROVE  /\ on[c] \in Sessions /\ where[on[c]] \in {"live", "detached", "removed"}
             /\ where'[on[c]] \in {"live", "detached", "removed"}
             /\ where'[on[c]] = where[on[c]] \/ where[on[c]] = "live"
             /\ made'[on[c]] = made[on[c]]
  <2>1. on[c] \in Sessions /\ lock[on[c]] = c /\ c # None
    BY <1>1, <1>a, CallersAssumption DEF Inv, TypeOK, Addressed
  <2>2. where[on[c]] \in {"live", "detached", "removed"}
    BY <1>a DEF Inv, WorkflowsHoldSessions
  <2> QED
    BY <1>1, <2>1, <2>2 DEF Moves, Moved, Aging, Clocks
<1>b. ASSUME NEW s \in Sessions, where[s] \in {"live", "expired"}
      PROVE  made[s] = gen /\ gen' = gen /\ made'[s] = made[s]
  BY <1>1, <1>b DEF Inv, TableIsCurrent, Clocks
<1>4. WorkflowsHoldSessions'
  BY <1>1, <1>a DEF WorkflowsHoldSessions, CallersGo, Went, Stays, Holding
<1>5. TableIsCurrent'
  <2>1. ASSUME NEW s \in Sessions, where'[s] \in {"live", "expired"}
        PROVE  made'[s] = gen' /\ ~switching'
    BY <1>1, <1>b, <2>1 DEF Inv, TableIsCurrent, Moves, Moved, Aging, Clocks
  <2>2. ASSUME NEW s \in Sessions, where'[s] = "drained", bound'
        PROVE  made'[s] = gen'
    <3>1. CASE where[s] = "drained"
      BY <1>1, <2>2, <3>1 DEF Inv, TableIsCurrent, Clocks, Free
    <3>2. CASE where[s] # "drained"
      BY <1>1, <1>b, <2>2, <3>2 DEF Moves, Moved, Aging
    <3> QED
      BY <3>1, <3>2
  <2> QED
    BY <2>1, <2>2 DEF TableIsCurrent
<1>6. SendsAreCurrent'
  <2>1. ASSUME NEW c \in Callers, pc'[c] \in {"sending", "sent", "reading"}
        PROVE  /\ pc[c] \in Holding /\ on'[c] = on[c] /\ asked'[c] = asked[c]
               /\ pc[c] \in {"ready", "prepared"} => where[on[c]] = "live" /\ pc'[c] = "sending"
               /\ pc'[c] = "reading" => asked[c] # None
               /\ pc'[c] = "sent" /\ pc[c] # "sent" => where[on[c]] # "detached"
    BY <1>1, <2>1 DEF CallersGo, Went, Stays, Holding, Inv, SendsAreCurrent
  <2>2. ASSUME NEW c \in Callers, pc'[c] \in {"sending", "sent", "reading"}, asked'[c] = gen'
        PROVE  made'[on'[c]] = gen'
    <3>1. gen' = gen
      BY <1>1, <2>1, <2>2, CallersAssumption DEF Clocks, Inv, Generations, TypeOK
    <3>2. CASE pc[c] \in {"sending", "sent", "reading"}
      BY <1>a, <2>1, <2>2, <3>1, <3>2 DEF Inv, SendsAreCurrent
    <3>3. CASE pc[c] \in {"ready", "prepared"}
      BY <1>a, <1>b, <2>1, <2>2, <3>1, <3>3
    <3> QED
      BY <2>1, <2>2, <3>2, <3>3 DEF Holding
  <2>3. ASSUME NEW c \in Callers, pc'[c] = "sent", bound', where'[on'[c]] # "removed"
        PROVE  made'[on'[c]] = gen'
    <3>1. CASE pc[c] = "sent"
      <4>1. bound /\ gen' = gen
        BY <1>1, <2>3, <3>1 DEF Clocks, Free
      <4>2. where[on[c]] # "removed" /\ made'[on[c]] = made[on[c]] /\ on'[c] = on[c]
        BY <1>a, <2>1, <2>3, <3>1 DEF Holding
      <4> QED
        BY <3>1, <4>1, <4>2 DEF Inv, SendsAreCurrent
    <3>2. CASE pc[c] # "sent"
      <4>1. where[on[c]] = "live"
        BY <1>a, <2>1, <2>3, <3>2
      <4> QED
        BY <1>a, <1>b, <2>1, <2>3, <4>1
    <3> QED
      BY <3>1, <3>2
  <2> QED
    BY <2>1, <2>2, <2>3 DEF SendsAreCurrent
<1>7. SourcesAreObserved'
  <2>1. \A s \in Sessions : handed'[s].how # "none" => s \in known'
    BY <1>1 DEF Inv, SourcesAreObserved, Decides, Given, Observed
  <2>2. ASSUME NEW s \in known'
        PROVE  where'[s] \notin {"none", "starting"}
    <3>1. s \in Sessions /\ where[s] \notin {"none", "starting"}
      <4>1. CASE s \in known
        BY <1>1, <4>1 DEF Inv, SourcesAreObserved, TypeOK
      <4>2. CASE s \notin known
        BY <1>1, <1>a, <4>2 DEF Observed, Holding
      <4> QED
        BY <4>1, <4>2
    <3> QED
      BY <1>1, <3>1 DEF Moves, Moved, Aging
  <2>3. ASSUME NEW c \in Callers, pc'[c] = "sending"
        PROVE  on'[c] \in needed'
    <3>1. CASE pc[c] = "sending" /\ on'[c] = on[c]
      <4>1. on[c] \in needed /\ lock[on[c]] = c
        BY <1>1, <3>1 DEF Inv, SourcesAreObserved, TypeOK, Addressed, Holding
      <4>2. \A d \in Callers : ~(pc[d] \in {"sent", "reading"} /\ on[d] = on[c])
        BY <1>1, <3>1, <4>1 DEF TypeOK, Holding, Inv, Addressed
      <4> QED
        BY <1>1, <3>1, <4>1, <4>2 DEF Observed
    <3>2. CASE on[c] \in needed' /\ on'[c] = on[c]
      BY <3>2
    <3> QED
      BY <1>1, <2>3, <3>1, <3>2 DEF CallersGo, Went, Stays, Holding
  <2> QED
    BY <2>1, <2>2, <2>3 DEF SourcesAreObserved
<1>8. SendingIsKept'
  BY <1>1 DEF Inv, SendingIsKept, CallersGo, Went, Stays, Decides, Given, Addressed, Holding
<1>9. SourceAccountedFor'
  <2>1. ASSUME NEW s \in known', handed'[s].how = "none"
        PROVE  \E c \in Callers : on'[c] = s /\ pc'[c] \in {"sending", "sent", "reading"}
    <3>1. s \in Sessions /\ handed[s].how = "none"
      BY <1>1, <2>1 DEF TypeOK, Decides, Given
    <3>2. CASE s \in known
      <4>1. PICK c \in Callers : on[c] = s /\ pc[c] \in {"sending", "sent", "reading"}
        BY <3>1, <3>2 DEF Inv, SourceAccountedFor
      <4> QED
        BY <1>1, <2>1, <4>1 DEF CallersGo, Went, Stays, Holding
    <3>3. CASE s \notin known
      BY <1>1, <2>1, <3>3 DEF Observed
    <3> QED
      BY <3>2, <3>3
  <2> QED
    BY <2>1 DEF SourceAccountedFor
<1>10. OneDisposer'
  <2>1. ASSUME NEW c \in Callers, NEW s \in mine'[c]
        PROVE  /\ s \in Sessions /\ where'[s] = "removed"
               /\ s \in mine[c] => where[s] = "removed"
               /\ s \notin mine[c] => where[s] = "live"
    <3>1. s \in Sessions
      BY <1>1 DEF TypeOK
    <3> QED
      BY <1>1, <3>1 DEF Inv, OneDisposer, Moves, Moved, Aging, RemovesLive
  <2>2. ASSUME NEW c \in Callers, NEW s \in mine'[c], NEW d \in Callers, s \in mine'[d]
        PROVE  c = d
    <3>1. s \in mine[c] /\ s \in mine[d] => c = d
      BY DEF Inv, OneDisposer
    <3>2. s \in mine[c] <=> s \in mine[d]
      BY <2>1, <2>2
    <3> QED
      BY <1>1, <2>2, <3>1, <3>2 DEF RemovesLive
  <2> QED
    BY <2>1, <2>2 DEF OneDisposer
<1>11. DetachedStaysInAccount'
  <2>1. ASSUME NEW s \in Sessions, handed'[s].how = "pending", handed'[s].gen # made'[s]
        PROVE  where'[s] = "removed"
    <3>1. s \in known' /\ made'[s] = made[s]
      BY <1>1, <1>7, <2>1 DEF SourcesAreObserved, Clocks, Moves, Moved, Aging
    <3>2. where[s] = "removed" => where'[s] = "removed"
      BY <1>1 DEF Moves, Moved, Aging
    <3> QED
      BY <1>1, <2>1, <3>1, <3>2 DEF Inv, DetachedStaysInAccount, Decides, Given
  <2> QED
    BY <2>1 DEF DetachedStaysInAccount
<1> QED
  BY <1>2, <1>3, <1>4, <1>5, <1>6, <1>7, <1>8, <1>9, <1>10, <1>11

LEMMA InitInv ==
  ASSUME Init
  PROVE  Inv
<1>1. TypeOK
  <2>1. 0 \in 0..MaxGen
    BY CallersAssumption
  <2>2. Undecided \in Decisions
    BY <2>1 DEF Undecided, Decisions
  <2>3. \A s \in Sessions, c \in Callers : lock[s] # c /\ pc[c] \notin Holding
    BY CallersAssumption DEF Init, Holding
  <2> QED
    BY <2>1, <2>2, <2>3 DEF Init, TypeOK, Places
<1> QED
  BY <1>1, CallersAssumption DEF Init, Inv, TypeOK, Generations, Addressed, WorkflowsHoldSessions, TableIsCurrent,
     SendsAreCurrent, SourcesAreObserved, SendingIsKept, SourceAccountedFor, OneDisposer,
     DetachedStaysInAccount, Undecided, Holding

LEMMA NextInv ==
  ASSUME Inv, [Next]_vars
  PROVE  Inv'
<1>1. CASE Next
  BY <1>1, TypesKept, PartsKept DEF Inv
<1>2. CASE UNCHANGED vars
  BY <1>2 DEF vars, Inv, TypeOK, Generations, Addressed, WorkflowsHoldSessions, TableIsCurrent,
     SendsAreCurrent, SourcesAreObserved, SendingIsKept, SourceAccountedFor, OneDisposer,
     DetachedStaysInAccount
<1> QED
  BY <1>1, <1>2

\* Every conjunct of the invariant holds in every reachable state.
THEOREM SessionsInvariant == Spec => []Inv
<1>1. Init => Inv
  BY InitInv
<1>2. Inv /\ [Next]_vars => Inv'
  BY NextInv
<1> QED
  BY <1>1, <1>2, PTL DEF Spec

-----------------------------------------------------------------------------
\* Every variable keeps its type, and a session's lock is held exactly by the
\* one workflow that is under way on it (session_manager.py's locks).
THEOREM SessionTypes == Spec => []TypeOK
<1>1. Inv => TypeOK
  BY DEF Inv
<1> QED
  BY <1>1, SessionsInvariant, PTL

\* While a prompt is under way in a chat no cleanup job may delete it, whatever
\* resets, removes or expires its session meanwhile.
THEOREM PromptsKeepTheirSource == Spec => []SendingIsKept
<1>1. Inv => SendingIsKept
  BY DEF Inv
<1> QED
  BY <1>1, SessionsInvariant, PTL

\* A source chat that was observed is never forgotten: cleanup holds a decision
\* about it, or its send is still under way.
THEOREM SourcesAreNotForgotten == Spec => []SourceAccountedFor
<1>1. Inv => SourceAccountedFor
  BY DEF Inv
<1> QED
  BY <1>1, SessionsInvariant, PTL

\* No session is disposed of by two requests, or by one after it expired or was
\* detached with its account.
THEOREM SessionsAreDisposedOnce == Spec => []OneDisposer
<1>1. Inv => OneDisposer
  BY DEF Inv
<1> QED
  BY <1>1, SessionsInvariant, PTL

\* Only a session a request took out of the table before an account change can
\* be given up to deletion under another account.
THEOREM AccountsKeepTheirChats == Spec => []DetachedStaysInAccount
<1>1. Inv => DetachedStaysInAccount
  BY DEF Inv
<1> QED
  BY <1>1, SessionsInvariant, PTL

\* Reset, removal and expiry are final: a session out of the table never comes
\* back into it, and the account it was made for does not change.
THEOREM SessionsLeaveForGood ==
  Spec => [][\A s \in Sessions :
               where[s] \in {"drained", "removed", "detached", "gone"} =>
                 /\ where'[s] \in {where[s], "gone"}
                 /\ made'[s] = made[s]]_vars
<1> DEFINE Leaves == \A s \in Sessions :
               where[s] \in {"drained", "removed", "detached", "gone"} =>
                 /\ where'[s] \in {where[s], "gone"}
                 /\ made'[s] = made[s]
<1>1. Inv /\ [Next]_vars => [Leaves]_vars
  <2>1. ASSUME Inv, Next
        PROVE  Leaves
    BY <2>1, SessionsMove, GenerationsMove DEF Moves, Moved, Aging, Clocks
  <2> QED
    BY <2>1
<1> QED
  BY <1>1, SessionsInvariant, PTL DEF Spec

\* Cleanup decides about a chat only when it is observed, and gives it up to
\* deletion never while a prompt is under way, and only for a session of the
\* current account or one a request removed.
THEOREM DeletionsAreAllowed ==
  Spec => [][\A s \in Sessions :
               handed'[s] # handed[s] /\ handed'[s].how = "pending" =>
                 /\ s \in known' /\ handed'[s].gen = gen
                 /\ made[s] = gen \/ where[s] = "removed"
                 /\ \A c \in Callers : ~(pc[c] = "sending" /\ on[c] = s)]_vars
<1> DEFINE Allowed == \A s \in Sessions :
               handed'[s] # handed[s] /\ handed'[s].how = "pending" =>
                 /\ s \in known' /\ handed'[s].gen = gen
                 /\ made[s] = gen \/ where[s] = "removed"
                 /\ \A c \in Callers : ~(pc[c] = "sending" /\ on[c] = s)
<1>1. Inv /\ [Next]_vars => [Allowed]_vars
  <2>1. ASSUME Inv, Next
        PROVE  Allowed
    BY <2>1, SourcesAreDecided DEF Decides, Given
  <2> QED
    BY <2>1
<1> QED
  BY <1>1, SessionsInvariant, PTL DEF Spec

=============================================================================
