------------------------- MODULE OperationsProofs -------------------------
(***************************************************************************)
(* Theorems about Operations, for every number of clients, artifacts and   *)
(* retention periods.                                                      *)
(***************************************************************************)
EXTENDS Operations, TLAPS

USE DEF Actors, Workers

\* The merged locators of two locator maps form a locator map that knows all
\* the first one knew and downgrades no verified file to a remote locator.
LEMMA MergeFacts ==
    ASSUME NEW old \in Locators, NEW new \in Locators
    PROVE  /\ Merge(old, new) \in Locators
           /\ Known(old) \subseteq Known(Merge(old, new))
           /\ \A x \in Artifacts : old[x] = "verified" => Merge(old, new)[x] # "remote"
BY DEF Merge, Locators, Known

\* What update() leaves in the state column is a state, and "completed" only
\* where "completed" was asked for.
LEMMA SettleFacts ==
    ASSUME NEW old \in States, NEW new \in States
    PROVE  /\ Settle(old, new) \in States
           /\ Settle(old, new) \in {"cancel_requested", new}
BY DEF Settle, States, CancelExits

LEMMA ObservedFacts ==
    ASSUME NEW st \in States, NEW arts \in Locators
    PROVE  /\ ObservedState(st, arts) \in States
           /\ ObservedState(st, arts) = "completed" => Usable(arts)
BY DEF ObservedState, States, Usable, Known, Locators

LEMMA NoRowFacts == /\ NoRow.id = 0 /\ NoRow \notin Rows
                    /\ NoRow.state = "expired" /\ NoRow.arts = NoLocators
                    /\ NoRow.verification = "not_observed"
                    /\ NoLocators \in Locators /\ Known(NoLocators) = {}
<1>1. NoLocators \in Locators /\ Known(NoLocators) = {}
  BY DEF NoLocators, Locators, Known
<1>3. NoRow.id = 0 /\ 0 \notin 1..MaxOps
  BY DEF NoRow
<1>4. \A r \in Rows : r.id \in 1..MaxOps
  BY DEF Rows
<1>5. /\ NoRow.state = "expired" /\ NoRow.arts = NoLocators
      /\ NoRow.verification = "not_observed"
  BY DEF NoRow
<1> QED
  BY <1>1, <1>3, <1>4, <1>5

\* The fields of a row, and that a row has an operation's identifier.
LEMMA RowFields ==
    ASSUME NEW r \in Rows
    PROVE  /\ r.id \in 1..MaxOps /\ r.state \in States /\ r.arts \in Locators
           /\ r.version \in Nat /\ r.verification \in Evidence
           /\ r.until \in Nat /\ r.expires \in Nat /\ r.provider \in BOOLEAN
           /\ r.chat \in Chats \cup {None} /\ r.lease \in Workers \cup {None}
           /\ r.attempt \in {0, 1} /\ r # NoRow
BY NoRowFacts DEF Rows

\* A row stays a row under every write of the repository; these lemmas also
\* say which fields a write leaves alone.
LEMMA PutFacts ==
    ASSUME NEW r \in Rows, NEW st \in States, NEW v \in Evidence
    PROVE  /\ Put(r, st, v) \in Rows
           /\ Put(r, st, v).id = r.id /\ Put(r, st, v).arts = r.arts
           /\ Put(r, st, v).state = Settle(r.state, st)
           /\ Put(r, st, v).verification = v
           /\ Put(r, st, v).version = r.version + 1
           /\ Put(r, st, v).chat = r.chat /\ Put(r, st, v).provider = r.provider
           /\ Put(r, st, v).expires = r.expires
           /\ Put(r, st, v).lease = r.lease
<1>1. r.state \in States /\ r.version \in Nat
  BY DEF Rows
<1>2. PICK s \in States : s = Settle(r.state, st)
  BY <1>1, SettleFacts
<1>3. PICK n \in Nat : n = r.version + 1
  BY <1>1
<1>4. Put(r, st, v) = [r EXCEPT !.state = s, !.verification = v, !.version = n]
  BY <1>2, <1>3 DEF Put
<1>5. Put(r, st, v) \in Rows
  BY <1>4 DEF Rows
<1> QED
  BY <1>2, <1>3, <1>4, <1>5 DEF Rows

LEMMA PutFilesFacts ==
    ASSUME NEW r \in Rows, NEW st \in States, NEW arts \in Locators
    PROVE  /\ PutFiles(r, st, arts) \in Rows
           /\ PutFiles(r, st, arts).id = r.id /\ PutFiles(r, st, arts).arts = arts
           /\ PutFiles(r, st, arts).state = Settle(r.state, st)
           /\ PutFiles(r, st, arts).verification = "reported"
           /\ PutFiles(r, st, arts).version = r.version + 1
           /\ PutFiles(r, st, arts).chat = r.chat
           /\ PutFiles(r, st, arts).provider = r.provider
           /\ PutFiles(r, st, arts).expires = r.expires
           /\ PutFiles(r, st, arts).lease = r.lease
<1> "reported" \in Evidence
  BY DEF Evidence
<1> QED
  BY PutFacts DEF PutFiles, Rows

LEMMA SetSourceFacts ==
    ASSUME NEW r \in Rows, NEW chat \in Chats \cup {None}, NEW provider \in BOOLEAN
    PROVE  LET t == SetSource(r, chat, provider)
           IN  /\ t \in Rows
               /\ t.id = r.id /\ t.arts = r.arts /\ t.state = r.state
               /\ t.verification = r.verification /\ t.version = r.version
               /\ t.expires = r.expires /\ t.lease = r.lease
               /\ t.chat = IF chat = None THEN r.chat ELSE chat
               /\ r.provider => t.provider
BY DEF SetSource, Rows

LEMMA NotedFacts ==
    ASSUME NEW r \in Rows, NEW chat \in Chats \cup {None}, NEW provider \in BOOLEAN
    PROVE  LET t == Noted(r, chat, provider)
           IN  /\ t \in Rows
               /\ t.id = r.id /\ t.arts = r.arts /\ t.state = r.state
               /\ t.verification = r.verification /\ t.version = r.version + 1
               /\ t.expires = r.expires /\ t.lease = r.lease
               /\ t.chat = IF chat = None THEN r.chat ELSE chat
               /\ r.provider => t.provider
BY SetSourceFacts DEF Noted, Rows

LEMMA StartedFacts ==
    ASSUME NEW r \in Rows
    PROVE  LET t == Started(r)
           IN  /\ t \in Rows
               /\ t.id = r.id /\ t.arts = r.arts
               /\ t.state = Settle(r.state, "running")
               /\ t.verification = r.verification /\ t.version = r.version + 1
               /\ t.chat = r.chat /\ t.provider = r.provider
               /\ t.expires = r.expires /\ t.lease = r.lease
<1>1. r.state \in States /\ r.version \in Nat /\ "running" \in States
  BY DEF Rows, States
<1>2. PICK s \in States : s = Settle(r.state, "running")
  BY <1>1, SettleFacts
<1>3. PICK n \in Nat : n = r.version + 1
  BY <1>1
<1>4. Started(r) = [r EXCEPT !.state = s, !.attempt = 1, !.version = n]
  BY <1>2, <1>3 DEF Started
<1>5. Started(r) \in Rows
  BY <1>4 DEF Rows
<1> QED
  BY <1>2, <1>3, <1>4, <1>5 DEF Rows

LEMMA LeasedFacts ==
    ASSUME NEW r \in Rows, NEW w \in Workers \cup {None}, NEW time \in Nat
    PROVE  LET t == Leased(r, w, time)
           IN  /\ t \in Rows
               /\ t.id = r.id /\ t.arts = r.arts /\ t.state = r.state
               /\ t.verification = r.verification /\ t.version = r.version
               /\ t.chat = r.chat /\ t.provider = r.provider
               /\ t.expires = r.expires /\ t.lease = w
BY DEF Leased, Rows

LEMMA FreedFacts ==
    ASSUME NEW r \in Rows
    PROVE  LET t == Freed(r)
           IN  /\ t \in Rows
               /\ t.id = r.id /\ t.arts = r.arts /\ t.state = r.state
               /\ t.verification = r.verification /\ t.version = r.version
               /\ t.chat = r.chat /\ t.provider = r.provider
               /\ t.expires = r.expires /\ t.lease = None
BY LeasedFacts DEF Freed

LEMMA ClaimedFacts ==
    ASSUME NEW r \in Rows, NEW w \in Workers, clock \in Nat
    PROVE  LET t == Claimed(r, w)
           IN  /\ t \in Rows
               /\ t.id = r.id /\ t.arts = r.arts /\ t.state = r.state
               /\ t.verification = r.verification /\ t.version = r.version + 1
               /\ t.chat = r.chat /\ t.provider = r.provider
               /\ t.expires = r.expires /\ t.lease = w
<1> clock + Lease \in Nat
  BY ConstantsAssumption
<1> Leased(r, w, clock + Lease) \in Rows
  BY LeasedFacts
<1> QED
  BY LeasedFacts DEF Claimed, Rows

LEMMA AcceptedFacts ==
    ASSUME NEW i \in 1..MaxOps, clock \in Nat
    PROVE  LET t == Accepted(i)
           IN  /\ t \in Rows
               /\ t.id = i /\ t.arts = NoLocators /\ t.state = "accepted"
               /\ t.version = 0 /\ t.verification = "not_observed"
               /\ t.expires = clock + Retention /\ t.chat = None /\ t.lease = None
<1> NoLocators \in Locators /\ clock + Retention \in Nat
  BY ConstantsAssumption, NoRowFacts
<1> QED
  BY DEF Accepted, NoRow, Rows, States, Evidence

-----------------------------------------------------------------------------
(***************************************************************************)
(* What a step may do to the row: nothing, create it for the next          *)
(* operation, delete it once it expired, or write it through update().     *)
(***************************************************************************)

\* A call that is under way addresses an operation; TypeOK is inductive only
\* with it, because launched, offered and empty collect op[w].
OpInv == \A w \in Workers : pc[w] \notin {"idle", "done", "crashed"} => op[w] # 0

TypeInv == TypeOK /\ OpInv

\* What equal versions of one operation's row have in common.
SameContent(r, t) ==
    /\ t.version = r.version /\ t.state = r.state /\ t.arts = r.arts
    /\ t.chat = r.chat /\ t.provider = r.provider

\* r may be written as t: the same operation, a later version unless only the
\* lease moved, and complete only with usable files or as r was.
Change(r, t) ==
    /\ t \in Rows /\ t.id = r.id /\ t.expires = r.expires
    /\ t.version > r.version \/ SameContent(r, t)
    /\ t.state = "completed" =>
         Usable(t.arts) \/ (r.state = "completed" /\ t.arts = r.arts)

LEMMA PutChange ==
    ASSUME NEW r \in Rows, NEW st \in States \ {"completed"}, NEW v \in Evidence
    PROVE  Change(r, Put(r, st, v))
<1>1. r.state \in States /\ r.version \in Nat
  BY RowFields
<1>2. Settle(r.state, st) # "completed"
  BY <1>1, SettleFacts
<1> QED
  BY <1>1, <1>2, PutFacts DEF Change

LEMMA PutFilesChange ==
    ASSUME NEW r \in Rows, NEW st \in States, NEW arts \in Locators
    PROVE  Change(r, PutFiles(r, ObservedState(st, arts), arts))
<1>1. /\ ObservedState(st, arts) \in States
      /\ ObservedState(st, arts) = "completed" => Usable(arts)
  BY ObservedFacts
<1>2. r.state \in States /\ r.version \in Nat
  BY RowFields
<1>3. Settle(r.state, ObservedState(st, arts))
        \in {"cancel_requested", ObservedState(st, arts)}
  BY <1>1, <1>2, SettleFacts
<1>4. PutFiles(r, ObservedState(st, arts), arts).state = "completed" => Usable(arts)
  BY <1>1, <1>3, PutFilesFacts
<1> QED
  BY <1>1, <1>2, <1>4, PutFilesFacts DEF Change

LEMMA StartedChange ==
    ASSUME NEW r \in Rows
    PROVE  Change(r, Started(r))
<1>1. r.state \in States /\ "running" \in States
  BY RowFields DEF States
<1> QED
  BY <1>1, StartedFacts, SettleFacts, RowFields DEF Change

LEMMA NotedChange ==
    ASSUME NEW r \in Rows, NEW chat \in Chats \cup {None}, NEW provider \in BOOLEAN
    PROVE  Change(r, Noted(r, chat, provider))
<1> DEFINE t == Noted(r, chat, provider)
<1>1. /\ t \in Rows /\ t.id = r.id /\ t.expires = r.expires
      /\ t.version = r.version + 1 /\ t.state = r.state /\ t.arts = r.arts
  BY NotedFacts
<1>2. r.version \in Nat
  BY RowFields
<1> QED
  BY <1>1, <1>2 DEF Change

LEMMA ClaimedChange ==
    ASSUME NEW r \in Rows, NEW w \in Workers, clock \in Nat
    PROVE  Change(r, Claimed(r, w))
BY ClaimedFacts, RowFields DEF Change

LEMMA LeasedChange ==
    ASSUME NEW r \in Rows, NEW w \in Workers \cup {None}, NEW time \in Nat
    PROVE  Change(r, Leased(r, w, time))
BY LeasedFacts, RowFields DEF Change, SameContent

LEMMA SavedChange ==
    ASSUME NEW w \in Workers, NEW found \in Locators, NEW st \in ResultStates,
           NEW chat \in Chats \cup {None}, NEW provider \in BOOLEAN,
           row \in Rows, seen[w].arts \in Locators
    PROVE  Change(row, Saved(w, st, found, chat, provider))
<1> DEFINE merged == Merge(seen[w].arts, found)
<1>1. CASE chat # None /\ seen[w].chat \notin {None, chat}
  BY <1>1, PutChange DEF Saved, States, Evidence
<1>2. CASE ~(chat # None /\ seen[w].chat \notin {None, chat})
  <2>1. merged \in Locators /\ st \in States
    BY MergeFacts, ConstantsAssumption
  <2>2. ObservedState(st, merged) \in States
    BY <2>1, ObservedFacts
  <2> DEFINE t == PutFiles(row, ObservedState(st, merged), merged)
  <2>3. t \in Rows /\ Change(row, t)
    BY <2>1, <2>2, PutFilesFacts, PutFilesChange
  <2>4. Saved(w, st, found, chat, provider) = SetSource(t, chat, provider)
    BY <1>2 DEF Saved
  <2>5. t.version > row.version
    <3>1. row.version \in Nat
      BY RowFields
    <3>2. t.version = row.version + 1
      BY <2>1, <2>2, PutFilesFacts
    <3> HIDE DEF t
    <3> QED
      BY <3>1, <3>2
  <2> HIDE DEF t
  <2> QED
    BY <2>3, <2>4, <2>5, SetSourceFacts DEF Change
<1> QED
  BY <1>1, <1>2

\* The outcomes of a step for the key's row.
Untouched == row' = row /\ UNCHANGED <<made, born>>
Created   == /\ row = NoRow /\ made < MaxOps /\ row' = Accepted(made + 1)
             /\ made' = made + 1 /\ born' = [born EXCEPT ![made + 1] = clock]
             /\ UNCHANGED clock
Deleted   == row \in Rows /\ row.expires <= clock /\ row' = NoRow
             /\ UNCHANGED <<made, born>>
Written   == row \in Rows /\ Change(row, row') /\ UNCHANGED <<made, born>>
RowStep   == Untouched \/ Created \/ Deleted \/ Written

LEMMA StepOfRow == TypeOK /\ [Next]_vars => RowStep
<1> SUFFICES ASSUME TypeOK, [Next]_vars PROVE RowStep
  OBVIOUS
<1>0. /\ clock \in Nat /\ clock + Lease \in Nat
      /\ row \in Rows \cup {NoRow} /\ seen \in [Actors -> Rows \cup {NoRow}]
  BY ConstantsAssumption DEF TypeOK
<1> USE DEF RowStep, history
<1>1. ASSUME NEW s \in Starters, Reserve(s) PROVE RowStep
  BY <1>0, <1>1 DEF Reserve, KeyTaken, Untouched, Created
<1>2. ASSUME NEW s \in Starters, RunOtherAccount(s) PROVE RowStep
  BY <1>0, <1>2, PutChange, NoRowFacts DEF RunOtherAccount, Exists, Written, Untouched, States, Evidence, Terminal
<1>3. ASSUME NEW s \in Starters, RunClaim(s) PROVE RowStep
  BY <1>0, <1>3, ClaimedChange DEF RunClaim, Exists, Written, Untouched
<1>4. ASSUME NEW s \in Starters, RunCancelled(s) PROVE RowStep
  BY <1>0, <1>4, PutChange DEF RunCancelled, Writes, Fresh, Exists, Holds, Written, Untouched, States, Evidence
<1>5. ASSUME NEW s \in Starters, RunAccepted(s) PROVE RowStep
  BY <1>0, <1>5, StartedChange DEF RunAccepted, Writes, Fresh, Exists, Written, Untouched
<1>6. ASSUME NEW s \in Starters, RunLaunch(s) PROVE RowStep
  BY <1>0, <1>6, StartedChange DEF RunLaunch, Holds, Exists, Written, Untouched
<1>7. ASSUME NEW s \in Starters, RunDirect(s) PROVE RowStep
  BY <1>0, <1>7 DEF RunDirect, Untouched
<1>8. ASSUME NEW s \in Starters, Raise(s) PROVE RowStep
  BY <1>0, <1>8 DEF Raise, Untouched
<1>9. ASSUME NEW s \in Starters, Handle(s) PROVE RowStep
  BY <1>0, <1>9 DEF Handle, Untouched
<1>10. ASSUME NEW s \in Starters, HandleWrite(s) PROVE RowStep
  BY <1>0, <1>10, PutChange DEF HandleWrite, Fresh, Exists, Written, Untouched, States, Evidence
<1>11. ASSUME NEW r \in Readers, Lookup(r) PROVE RowStep
  BY <1>0, <1>11 DEF Lookup, Untouched
<1>12. ASSUME NEW r \in Readers, RecoverClaim(r) PROVE RowStep
  BY <1>0, <1>12, ClaimedChange DEF RecoverClaim, Exists, Written, Untouched
<1>13. ASSUME NEW w \in Workers, Abandon(w) PROVE RowStep
  BY <1>0, <1>13 DEF Abandon, Untouched
<1>14. ASSUME NEW w \in Workers, Observe(w) PROVE RowStep
  BY <1>0, <1>14 DEF Observe, Untouched
<1>15. ASSUME NEW w \in Workers, ObserveWrite(w) PROVE RowStep
  <2>1. row \in Rows /\ seen[w].arts \in Locators
    BY <1>0, <1>15, RowFields, NoRowFacts DEF ObserveWrite, Writes, Fresh, Exists
  <2>2. Found(w) \subseteq Locators /\ ResultStates \subseteq States
    BY ConstantsAssumption, NoRowFacts DEF Found
  <2>3. \A found \in Found(w) : Merge(seen[w].arts, found) \in Locators
    BY <2>1, <2>2, MergeFacts
  <2>4. \A found \in Found(w), st \in ResultStates :
          Change(row, PutFiles(row, ObservedState(st, Merge(seen[w].arts, found)),
                               Merge(seen[w].arts, found)))
    BY <2>1, <2>2, <2>3, PutFilesChange
  <2> QED
    BY <2>1, <2>4, <1>15 DEF ObserveWrite, Written, Untouched
<1>16. ASSUME NEW w \in Workers, ObserveLost(w) PROVE RowStep
  BY <1>0, <1>16 DEF ObserveLost, Untouched
<1>17. ASSUME NEW w \in Workers, Offer(w) PROVE RowStep
  BY <1>0, <1>17 DEF Offer, Untouched
<1>18. ASSUME NEW w \in Workers, Return(w) PROVE RowStep
  BY <1>0, <1>18 DEF Return, Untouched
<1>19. ASSUME NEW w \in Workers, Save(w) PROVE RowStep
  BY <1>0, <1>19 DEF Save, Untouched
<1>20. ASSUME NEW w \in Workers, SaveWrite(w) PROVE RowStep
  <2>1. Writes(w) => row \in Rows /\ seen[w].arts \in Locators
    BY <1>0, RowFields, NoRowFacts DEF Writes, Fresh, Exists
  <2>2. Found(w) \subseteq Locators
    BY NoRowFacts DEF Found
  <2> QED
    BY <2>1, <2>2, <1>20, SavedChange DEF SaveWrite, Written, Untouched
<1>21. ASSUME NEW w \in Workers, Finish(w) PROVE RowStep
  BY <1>0, <1>21, LeasedChange DEF Finish, Release, Freed, Holds, Exists, Written, Untouched
<1>22. ASSUME NEW w \in Workers, Renew(w) PROVE RowStep
  BY <1>0, <1>22, LeasedChange DEF Renew, Holds, Exists, Written, Untouched
<1>23. ASSUME NEW w \in Workers, Crash(w) PROVE RowStep
  BY <1>0, <1>23 DEF Crash, Untouched
<1>24. ASSUME NEW o \in Observers, Note(o) PROVE RowStep
  BY <1>0, <1>24 DEF Note, Untouched
<1>25. ASSUME NEW o \in Observers, NoteWrite(o) PROVE RowStep
  BY <1>0, <1>25, NotedChange DEF NoteWrite, Fresh, Exists, Written, Untouched
<1>26. ASSUME NEW o \in Observers, NoteLost(o) PROVE RowStep
  BY <1>0, <1>26 DEF NoteLost, Untouched
<1>27. ASSUME NEW c \in Cancellers, Cancel(c) PROVE RowStep
  BY <1>0, <1>27 DEF Cancel, Untouched
<1>28. ASSUME NEW c \in Cancellers, CancelRequest(c) PROVE RowStep
  BY <1>0, <1>28, PutChange DEF CancelRequest, Fresh, Exists, Written, Untouched, States, Evidence
<1>29. ASSUME NEW c \in Cancellers, CancelConfirmed(c) PROVE RowStep
  BY <1>0, <1>29 DEF CancelConfirmed, Untouched
<1>30. ASSUME NEW c \in Cancellers, CancelUnconfirmed(c) PROVE RowStep
  BY <1>0, <1>30 DEF CancelUnconfirmed, Untouched
<1>31. ASSUME NEW c \in Cancellers, CancelWrite(c) PROVE RowStep
  BY <1>0, <1>31, PutChange DEF CancelWrite, Fresh, Exists, Written, Untouched, States, Evidence
<1>32. CASE Tick
  BY <1>32 DEF Tick, Untouched
<1>33. CASE Prune
  BY <1>0, <1>33 DEF Prune, Deleted
<1>34. CASE UNCHANGED vars
  BY <1>34 DEF vars, Untouched
<1> QED
  BY <1>1, <1>2, <1>3, <1>4, <1>5, <1>6, <1>7, <1>8, <1>9, <1>10, <1>11, <1>12, <1>13, <1>14, <1>15, <1>16, <1>17, <1>18, <1>19, <1>20, <1>21, <1>22, <1>23, <1>24, <1>25, <1>26, <1>27, <1>28, <1>29, <1>30, <1>31, <1>32, <1>33, <1>34
  DEF Next, StarterStep, ReaderStep, WorkerStep, ObserverStep, CancellerStep

-----------------------------------------------------------------------------
(***************************************************************************)
(* Type correctness.                                                      *)
(***************************************************************************)

\* What TypeOK says of the variables other than the row and its history; a
\* step preserves it action by action.
LocalsOK ==
    /\ clock \in Nat
    /\ launched \subseteq 1..MaxOps
    /\ offered \subseteq 1..MaxOps
    /\ empty \subseteq 1..MaxOps
    /\ pc \in [Actors -> Phases]
    /\ op \in [Actors -> 0..MaxOps]
    /\ seen \in [Actors -> Rows \cup {NoRow}]
    /\ base \in [Workers -> Locators]
    /\ tries \in [Actors -> Nat]

LEMMA RowType ==
    TypeOK /\ RowStep =>
        (row \in Rows \cup {NoRow} /\ made \in 0..MaxOps /\ born \in [1..MaxOps -> Nat])'
<1> SUFFICES ASSUME TypeOK, RowStep
             PROVE  (/\ row \in Rows \cup {NoRow} /\ made \in 0..MaxOps
                     /\ born \in [1..MaxOps -> Nat])'
  OBVIOUS
<1> USE DEF TypeOK
<1>1. CASE Untouched
  BY <1>1 DEF Untouched
<1>2. CASE Created
  BY <1>2, AcceptedFacts, ConstantsAssumption DEF Created
<1>3. CASE Deleted
  BY <1>3 DEF Deleted
<1>4. CASE Written
  BY <1>4 DEF Written, Change
<1> QED
  BY <1>1, <1>2, <1>3, <1>4 DEF RowStep

\* A call that is under way addresses an operation.
LEMMA Addressed ==
    ASSUME TypeInv, NEW w \in Workers, pc[w] \notin {"idle", "done", "crashed"}
    PROVE  op[w] \in 1..MaxOps
BY DEF TypeInv, TypeOK, OpInv

LEMMA LocalsStep == TypeInv /\ [Next]_vars => LocalsOK'
<1> SUFFICES ASSUME TypeInv, [Next]_vars PROVE LocalsOK'
  OBVIOUS
<1>0. /\ clock + Lease \in Nat /\ NoLocators \in Locators
      /\ row # NoRow => Freed(row) \in Rows /\ row.arts \in Locators /\ row.id \in 1..MaxOps
      /\ row # NoRow => \A w \in Workers : Freed(Claimed(row, w)) \in Rows
  BY ConstantsAssumption, NoRowFacts, FreedFacts, ClaimedFacts, RowFields
  DEF TypeInv, TypeOK
<1>a. LocalsOK /\ made \in 0..MaxOps
  BY DEF TypeInv, TypeOK, LocalsOK
<1> USE <1>a DEF LocalsOK, Go, history, Phases
<1>1. ASSUME NEW s \in Starters, Reserve(s) PROVE LocalsOK'
  <2>1. CASE KeyTaken
    BY <1>1, <2>1 DEF Reserve
  <2>2. CASE ~KeyTaken
    <3>1. PICK i \in 0..MaxOps : i = made + 1
      BY <1>1, <2>2, ConstantsAssumption DEF Reserve
    <3>2. op' = [op EXCEPT ![s] = i] /\ pc' = [pc EXCEPT ![s] = "task"]
          /\ UNCHANGED <<clock, launched, offered, empty, seen, base, tries>>
      BY <1>1, <2>2, <3>1 DEF Reserve
    <3> QED
      BY <3>1, <3>2
  <2> QED
    BY <2>1, <2>2
<1>2. ASSUME NEW s \in Starters, RunOtherAccount(s) PROVE LocalsOK'
  BY <1>0, <1>2 DEF RunOtherAccount
<1>3. ASSUME NEW s \in Starters, RunClaim(s) PROVE LocalsOK'
  BY <1>0, <1>3 DEF RunClaim, Exists
<1>4. ASSUME NEW s \in Starters, RunCancelled(s) PROVE LocalsOK'
  BY <1>0, <1>4 DEF RunCancelled, Forget, Unstarted
<1>5. ASSUME NEW s \in Starters, RunAccepted(s) PROVE LocalsOK'
  BY <1>0, <1>5 DEF RunAccepted, Forget, Unstarted
<1>6. ASSUME NEW s \in Starters, RunLaunch(s) PROVE LocalsOK'
  <2>1. pc[s] \in {"enter", "ready", "observing"}
    BY <1>6 DEF RunLaunch
  <2>2. op[s] \in 1..MaxOps
    BY <2>1, Addressed
  <2> QED
    BY <1>0, <1>6, <2>2 DEF RunLaunch
<1>7. ASSUME NEW s \in Starters, RunDirect(s) PROVE LocalsOK'
  <2>1. pc[s] \in {"enter", "ready", "observing"}
    BY <1>7 DEF RunDirect
  <2>2. op[s] \in 1..MaxOps
    BY <2>1, Addressed
  <2> QED
    BY <1>0, <1>7, <2>2 DEF RunDirect
<1>8. ASSUME NEW s \in Starters, Raise(s) PROVE LocalsOK'
  BY <1>0, <1>8 DEF Raise
<1>9. ASSUME NEW s \in Starters, Handle(s) PROVE LocalsOK'
  BY <1>0, <1>9 DEF Handle, Exists, Read
<1>10. ASSUME NEW s \in Starters, HandleWrite(s) PROVE LocalsOK'
  BY <1>0, <1>10 DEF HandleWrite, Forget
<1>11. ASSUME NEW r \in Readers, Lookup(r) PROVE LocalsOK'
  BY <1>0, <1>11 DEF Lookup
<1>12. ASSUME NEW r \in Readers, RecoverClaim(r) PROVE LocalsOK'
  BY <1>0, <1>12 DEF RecoverClaim, Exists
<1>13. ASSUME NEW w \in Workers, Abandon(w) PROVE LocalsOK'
  BY <1>0, <1>13 DEF Abandon
<1>14. ASSUME NEW w \in Workers, Observe(w) PROVE LocalsOK'
  BY <1>0, <1>14 DEF Observe, Exists, Read
<1>15. ASSUME NEW w \in Workers, ObserveWrite(w) PROVE LocalsOK'
  <2>1. pc[w] \in {"enter", "ready", "observing"}
    BY <1>15 DEF ObserveWrite
  <2>2. op[w] \in 1..MaxOps
    BY <2>1, Addressed
  <2> QED
    BY <1>0, <1>15, <2>2 DEF ObserveWrite, Forget, Unrecorded
<1>16. ASSUME NEW w \in Workers, ObserveLost(w) PROVE LocalsOK'
  <2>1. CASE Exists(w) /\ tries[w] < Attempts
    <3>1. Freed(row) \in Rows
      BY <1>0, <2>1 DEF Exists
    <3> QED
      BY <1>16, <2>1, <3>1 DEF ObserveLost, Read, Again
  <2>2. CASE ~(Exists(w) /\ tries[w] < Attempts)
    BY <1>16, <2>2 DEF ObserveLost, Forget, Unrecorded
  <2> QED
    BY <2>1, <2>2
<1>17. ASSUME NEW w \in Workers, Offer(w) PROVE LocalsOK'
  <2>1. pc[w] \in {"enter", "ready", "observing"}
    BY <1>17 DEF Offer
  <2>2. op[w] \in 1..MaxOps
    BY <2>1, Addressed
  <2> QED
    BY <1>0, <1>17, <2>2 DEF Offer
<1>18. ASSUME NEW w \in Workers, Return(w) PROVE LocalsOK'
  BY <1>0, <1>18 DEF Return
<1>19. ASSUME NEW w \in Workers, Save(w) PROVE LocalsOK'
  BY <1>0, <1>19 DEF Save, Exists, Read
<1>20. ASSUME NEW w \in Workers, SaveWrite(w) PROVE LocalsOK'
  BY <1>0, <1>20 DEF SaveWrite, Forget
<1>21. ASSUME NEW w \in Workers, Finish(w) PROVE LocalsOK'
  BY <1>0, <1>21 DEF Finish, Drop, Forget
<1>22. ASSUME NEW w \in Workers, Renew(w) PROVE LocalsOK'
  BY <1>0, <1>22 DEF Renew
<1>23. ASSUME NEW w \in Workers, Crash(w) PROVE LocalsOK'
  BY <1>0, <1>23 DEF Crash, Drop, Forget
<1>24. ASSUME NEW o \in Observers, Note(o) PROVE LocalsOK'
  BY <1>0, <1>24 DEF Note, Read
<1>25. ASSUME NEW o \in Observers, NoteWrite(o) PROVE LocalsOK'
  BY <1>0, <1>25 DEF NoteWrite, Forget
<1>26. ASSUME NEW o \in Observers, NoteLost(o) PROVE LocalsOK'
  <2>1. CASE Exists(o) /\ tries[o] < Attempts
    <3>1. Freed(row) \in Rows
      BY <1>0, <2>1 DEF Exists
    <3> QED
      BY <1>26, <2>1, <3>1 DEF NoteLost, Read, Again
  <2>2. CASE ~(Exists(o) /\ tries[o] < Attempts)
    BY <1>26, <2>2 DEF NoteLost, Forget
  <2> QED
    BY <2>1, <2>2
<1>27. ASSUME NEW c \in Cancellers, Cancel(c) PROVE LocalsOK'
  BY <1>0, <1>27 DEF Cancel, Read
<1>28. ASSUME NEW c \in Cancellers, CancelRequest(c) PROVE LocalsOK'
  BY <1>0, <1>28 DEF CancelRequest, Forget
<1>29. ASSUME NEW c \in Cancellers, CancelConfirmed(c) PROVE LocalsOK'
  BY <1>0, <1>29 DEF CancelConfirmed, Exists, Read
<1>30. ASSUME NEW c \in Cancellers, CancelUnconfirmed(c) PROVE LocalsOK'
  BY <1>0, <1>30 DEF CancelUnconfirmed
<1>31. ASSUME NEW c \in Cancellers, CancelWrite(c) PROVE LocalsOK'
  BY <1>0, <1>31 DEF CancelWrite, Forget
<1>32. CASE Tick
  BY <1>32 DEF Tick
<1>33. CASE Prune
  BY <1>33 DEF Prune
<1>34. CASE UNCHANGED vars
  BY <1>34 DEF vars
<1> QED
  BY <1>1, <1>2, <1>3, <1>4, <1>5, <1>6, <1>7, <1>8, <1>9, <1>10, <1>11, <1>12, <1>13, <1>14, <1>15, <1>16, <1>17, <1>18, <1>19, <1>20, <1>21, <1>22, <1>23, <1>24, <1>25, <1>26, <1>27, <1>28, <1>29, <1>30, <1>31, <1>32, <1>33, <1>34
  DEF Next, StarterStep, ReaderStep, WorkerStep, ObserverStep, CancellerStep

LEMMA OpStep == TypeInv /\ [Next]_vars => OpInv'
<1> SUFFICES ASSUME TypeInv, [Next]_vars PROVE OpInv'
  OBVIOUS
<1>0. /\ OpInv /\ made \in Nat /\ pc \in [Actors -> Phases] /\ op \in [Actors -> 0..MaxOps]
      /\ row # NoRow => row.id # 0
  BY ConstantsAssumption, RowFields DEF TypeInv, TypeOK
<1> USE <1>0, ActorsAssumption DEF OpInv, Go, history
<1>1. ASSUME NEW s \in Starters, Reserve(s) PROVE OpInv'
  BY <1>1 DEF Reserve
<1>2. ASSUME NEW s \in Starters, RunOtherAccount(s) PROVE OpInv'
  BY <1>2 DEF RunOtherAccount
<1>3. ASSUME NEW s \in Starters, RunClaim(s) PROVE OpInv'
  BY <1>3 DEF RunClaim
<1>4. ASSUME NEW s \in Starters, RunCancelled(s) PROVE OpInv'
  BY <1>4 DEF RunCancelled
<1>5. ASSUME NEW s \in Starters, RunAccepted(s) PROVE OpInv'
  BY <1>5 DEF RunAccepted
<1>6. ASSUME NEW s \in Starters, RunLaunch(s) PROVE OpInv'
  BY <1>6 DEF RunLaunch
<1>7. ASSUME NEW s \in Starters, RunDirect(s) PROVE OpInv'
  BY <1>7 DEF RunDirect
<1>8. ASSUME NEW s \in Starters, Raise(s) PROVE OpInv'
  BY <1>8 DEF Raise
<1>9. ASSUME NEW s \in Starters, Handle(s) PROVE OpInv'
  BY <1>9 DEF Handle
<1>10. ASSUME NEW s \in Starters, HandleWrite(s) PROVE OpInv'
  BY <1>10 DEF HandleWrite
<1>11. ASSUME NEW r \in Readers, Lookup(r) PROVE OpInv'
  BY <1>11 DEF Lookup
<1>12. ASSUME NEW r \in Readers, RecoverClaim(r) PROVE OpInv'
  BY <1>12 DEF RecoverClaim
<1>13. ASSUME NEW w \in Workers, Abandon(w) PROVE OpInv'
  BY <1>13 DEF Abandon
<1>14. ASSUME NEW w \in Workers, Observe(w) PROVE OpInv'
  BY <1>14 DEF Observe
<1>15. ASSUME NEW w \in Workers, ObserveWrite(w) PROVE OpInv'
  BY <1>15 DEF ObserveWrite
<1>16. ASSUME NEW w \in Workers, ObserveLost(w) PROVE OpInv'
  BY <1>16 DEF ObserveLost
<1>17. ASSUME NEW w \in Workers, Offer(w) PROVE OpInv'
  BY <1>17 DEF Offer
<1>18. ASSUME NEW w \in Workers, Return(w) PROVE OpInv'
  BY <1>18 DEF Return
<1>19. ASSUME NEW w \in Workers, Save(w) PROVE OpInv'
  BY <1>19 DEF Save
<1>20. ASSUME NEW w \in Workers, SaveWrite(w) PROVE OpInv'
  BY <1>20 DEF SaveWrite
<1>21. ASSUME NEW w \in Workers, Finish(w) PROVE OpInv'
  BY <1>21 DEF Finish
<1>22. ASSUME NEW w \in Workers, Renew(w) PROVE OpInv'
  BY <1>22 DEF Renew
<1>23. ASSUME NEW w \in Workers, Crash(w) PROVE OpInv'
  BY <1>23 DEF Crash
<1>24. ASSUME NEW o \in Observers, Note(o) PROVE OpInv'
  BY <1>24 DEF Note
<1>25. ASSUME NEW o \in Observers, NoteWrite(o) PROVE OpInv'
  BY <1>25 DEF NoteWrite
<1>26. ASSUME NEW o \in Observers, NoteLost(o) PROVE OpInv'
  BY <1>26 DEF NoteLost
<1>27. ASSUME NEW c \in Cancellers, Cancel(c) PROVE OpInv'
  BY <1>27 DEF Cancel
<1>28. ASSUME NEW c \in Cancellers, CancelRequest(c) PROVE OpInv'
  BY <1>28 DEF CancelRequest
<1>29. ASSUME NEW c \in Cancellers, CancelConfirmed(c) PROVE OpInv'
  BY <1>29 DEF CancelConfirmed
<1>30. ASSUME NEW c \in Cancellers, CancelUnconfirmed(c) PROVE OpInv'
  BY <1>30 DEF CancelUnconfirmed
<1>31. ASSUME NEW c \in Cancellers, CancelWrite(c) PROVE OpInv'
  BY <1>31 DEF CancelWrite
<1>32. CASE Tick
  BY <1>32 DEF Tick
<1>33. CASE Prune
  BY <1>33 DEF Prune
<1>34. CASE UNCHANGED vars
  BY <1>34 DEF vars
<1> QED
  BY <1>1, <1>2, <1>3, <1>4, <1>5, <1>6, <1>7, <1>8, <1>9, <1>10, <1>11, <1>12, <1>13, <1>14, <1>15, <1>16, <1>17, <1>18, <1>19, <1>20, <1>21, <1>22, <1>23, <1>24, <1>25, <1>26, <1>27, <1>28, <1>29, <1>30, <1>31, <1>32, <1>33, <1>34
  DEF Next, StarterStep, ReaderStep, WorkerStep, ObserverStep, CancellerStep

LEMMA TypeStep == TypeInv /\ [Next]_vars => TypeInv'
BY RowType, StepOfRow, LocalsStep, OpStep DEF TypeInv, TypeOK, LocalsOK

LEMMA TypeInit == Init => TypeInv
<1> SUFFICES ASSUME Init PROVE TypeInv
  OBVIOUS
<1> NoLocators \in Locators
  BY NoRowFacts
<1> QED
  BY ConstantsAssumption DEF Init, TypeInv, TypeOK, OpInv, Phases

\* Every reachable state is well typed, and a call that is under way addresses
\* an operation, for every set of clients, artifacts and timing constants.
THEOREM TypeCorrect == Spec => []TypeOK
<1>1. Spec => []TypeInv
  BY TypeInit, TypeStep, PTL DEF Spec
<1> QED
  BY <1>1, PTL DEF TypeInv

-----------------------------------------------------------------------------
(***************************************************************************)
(* Completion.                                                             *)
(***************************************************************************)

\* A row recorded as completed knows only verified local files: update() may
\* only leave "completed" where the merged files are usable, and no other
\* write of the repository touches the files of a completed row.
THEOREM CompletionNeedsFiles == Spec => []CompletedIsUsable
<1>1. Init => CompletedIsUsable
  BY NoRowFacts DEF Init, CompletedIsUsable
<1>2. TypeInv /\ CompletedIsUsable /\ [Next]_vars => CompletedIsUsable'
  <2> SUFFICES ASSUME TypeInv, CompletedIsUsable, [Next]_vars
               PROVE  CompletedIsUsable'
    OBVIOUS
  <2>0. RowStep /\ made \in 0..MaxOps /\ clock \in Nat
    BY StepOfRow DEF TypeInv, TypeOK
  <2> USE DEF CompletedIsUsable
  <2>1. CASE Untouched
    BY <2>1 DEF Untouched, Usable, Known
  <2>2. CASE Created
    <3>1. made + 1 \in 1..MaxOps
      BY <2>0, <2>2, ConstantsAssumption DEF Created
    <3> QED
      BY <2>0, <2>2, <3>1, AcceptedFacts DEF Created
  <2>3. CASE Deleted
    BY <2>3, NoRowFacts DEF Deleted
  <2>4. CASE Written
    BY <2>4 DEF Written, Change
  <2> QED
    BY <2>0, <2>1, <2>2, <2>3, <2>4 DEF RowStep
<1>3. Spec => []TypeInv
  BY TypeInit, TypeStep, PTL DEF Spec
<1> QED
  BY <1>1, <1>2, <1>3, PTL DEF Spec

-----------------------------------------------------------------------------
(***************************************************************************)
(* One generation per key and retention period.                            *)
(***************************************************************************)

\* What a step may do to the clock, to the operations whose runner was called
\* and to the operation a call addresses.
CallStep ==
    /\ clock' \in {clock, clock + 1}
    /\ launched' \subseteq launched \cup {op[w] : w \in Workers}
    /\ \A a \in Actors : \/ op'[a] = op[a]
                         \/ op'[a] \in launched
                         \/ row' # NoRow /\ op'[a] = row'.id

LEMMA StepOfCalls == TypeInv /\ [Next]_vars => CallStep
<1> SUFFICES ASSUME TypeInv, [Next]_vars PROVE CallStep
  OBVIOUS
<1>0. /\ made \in 0..MaxOps /\ MaxOps \in Nat /\ clock \in Nat
      /\ op \in [Actors -> 0..MaxOps]
  BY ConstantsAssumption DEF TypeInv, TypeOK
<1> USE <1>0 DEF CallStep, history
<1>1. ASSUME NEW s \in Starters, Reserve(s) PROVE CallStep
  <2>1. CASE KeyTaken
    BY <1>1, <2>1 DEF Reserve
  <2>2. CASE ~KeyTaken
    <3>1. PICK i \in 1..MaxOps : i = made + 1
      BY <1>1, <2>2 DEF Reserve
    <3>2. row' = Accepted(i) /\ op' = [op EXCEPT ![s] = i] /\ UNCHANGED <<clock, launched>>
      BY <1>1, <2>2, <3>1 DEF Reserve
    <3>3. row' \in Rows /\ row'.id = i
      BY <3>1, <3>2, AcceptedFacts
    <3> QED
      BY <3>2, <3>3, NoRowFacts
  <2> QED
    BY <2>1, <2>2
<1>2. ASSUME NEW s \in Starters, RunOtherAccount(s) PROVE CallStep
  BY <1>2 DEF RunOtherAccount
<1>3. ASSUME NEW s \in Starters, RunClaim(s) PROVE CallStep
  BY <1>3 DEF RunClaim
<1>4. ASSUME NEW s \in Starters, RunCancelled(s) PROVE CallStep
  BY <1>4 DEF RunCancelled
<1>5. ASSUME NEW s \in Starters, RunAccepted(s) PROVE CallStep
  BY <1>5 DEF RunAccepted
<1>6. ASSUME NEW s \in Starters, RunLaunch(s) PROVE CallStep
  BY <1>6 DEF RunLaunch
<1>7. ASSUME NEW s \in Starters, RunDirect(s) PROVE CallStep
  BY <1>7 DEF RunDirect
<1>8. ASSUME NEW s \in Starters, Raise(s) PROVE CallStep
  BY <1>8 DEF Raise
<1>9. ASSUME NEW s \in Starters, Handle(s) PROVE CallStep
  BY <1>9 DEF Handle
<1>10. ASSUME NEW s \in Starters, HandleWrite(s) PROVE CallStep
  BY <1>10 DEF HandleWrite
<1>11. ASSUME NEW r \in Readers, Lookup(r) PROVE CallStep
  BY <1>11 DEF Lookup
<1>12. ASSUME NEW r \in Readers, RecoverClaim(r) PROVE CallStep
  BY <1>12 DEF RecoverClaim
<1>13. ASSUME NEW w \in Workers, Abandon(w) PROVE CallStep
  BY <1>13 DEF Abandon
<1>14. ASSUME NEW w \in Workers, Observe(w) PROVE CallStep
  BY <1>14 DEF Observe
<1>15. ASSUME NEW w \in Workers, ObserveWrite(w) PROVE CallStep
  BY <1>15 DEF ObserveWrite
<1>16. ASSUME NEW w \in Workers, ObserveLost(w) PROVE CallStep
  BY <1>16 DEF ObserveLost
<1>17. ASSUME NEW w \in Workers, Offer(w) PROVE CallStep
  BY <1>17 DEF Offer
<1>18. ASSUME NEW w \in Workers, Return(w) PROVE CallStep
  BY <1>18 DEF Return
<1>19. ASSUME NEW w \in Workers, Save(w) PROVE CallStep
  BY <1>19 DEF Save
<1>20. ASSUME NEW w \in Workers, SaveWrite(w) PROVE CallStep
  BY <1>20 DEF SaveWrite
<1>21. ASSUME NEW w \in Workers, Finish(w) PROVE CallStep
  BY <1>21 DEF Finish
<1>22. ASSUME NEW w \in Workers, Renew(w) PROVE CallStep
  BY <1>22 DEF Renew
<1>23. ASSUME NEW w \in Workers, Crash(w) PROVE CallStep
  BY <1>23 DEF Crash
<1>24. ASSUME NEW o \in Observers, Note(o) PROVE CallStep
  BY <1>24 DEF Note
<1>25. ASSUME NEW o \in Observers, NoteWrite(o) PROVE CallStep
  BY <1>25 DEF NoteWrite
<1>26. ASSUME NEW o \in Observers, NoteLost(o) PROVE CallStep
  BY <1>26 DEF NoteLost
<1>27. ASSUME NEW c \in Cancellers, Cancel(c) PROVE CallStep
  BY <1>27 DEF Cancel
<1>28. ASSUME NEW c \in Cancellers, CancelRequest(c) PROVE CallStep
  BY <1>28 DEF CancelRequest
<1>29. ASSUME NEW c \in Cancellers, CancelConfirmed(c) PROVE CallStep
  BY <1>29 DEF CancelConfirmed
<1>30. ASSUME NEW c \in Cancellers, CancelUnconfirmed(c) PROVE CallStep
  BY <1>30 DEF CancelUnconfirmed
<1>31. ASSUME NEW c \in Cancellers, CancelWrite(c) PROVE CallStep
  BY <1>31 DEF CancelWrite
<1>32. CASE Tick
  BY <1>32 DEF Tick
<1>33. CASE Prune
  BY <1>33 DEF Prune
<1>34. CASE UNCHANGED vars
  BY <1>34 DEF vars
<1> QED
  BY <1>1, <1>2, <1>3, <1>4, <1>5, <1>6, <1>7, <1>8, <1>9, <1>10, <1>11, <1>12, <1>13, <1>14, <1>15, <1>16, <1>17, <1>18, <1>19, <1>20, <1>21, <1>22, <1>23, <1>24, <1>25, <1>26, <1>27, <1>28, <1>29, <1>30, <1>31, <1>32, <1>33, <1>34
  DEF Next, StarterStep, ReaderStep, WorkerStep, ObserverStep, CancellerStep

\* The row belongs to the operation created last and expires a retention period
\* after it was created; while there is no row that period is over.
GenInv ==
    /\ row # NoRow => row.id = made /\ row.expires = born[made] + Retention
    /\ row = NoRow /\ made > 0 => clock >= born[made] + Retention
    /\ \A i, j \in 1..made : i < j => born[j] >= born[i] + Retention
    /\ launched \subseteq 1..made
    /\ \A a \in Actors : op[a] \in 0..made

LEMMA GenStep == TypeInv /\ GenInv /\ [Next]_vars => GenInv'
<1> SUFFICES ASSUME TypeInv, GenInv, [Next]_vars PROVE GenInv'
  OBVIOUS
<1>0. RowStep /\ CallStep /\ TypeOK'
  BY StepOfRow, StepOfCalls, TypeStep DEF TypeInv
<1>1. /\ made \in 0..MaxOps /\ clock \in Nat /\ clock' \in Nat /\ clock' >= clock
      /\ born \in [1..MaxOps -> Nat] /\ row \in Rows \cup {NoRow}
      /\ launched' \subseteq 1..MaxOps /\ op' \in [Actors -> 0..MaxOps]
      /\ MaxOps \in Nat /\ Retention \in Nat
  BY <1>0, ConstantsAssumption DEF TypeInv, TypeOK, CallStep
<1>a. launched' \subseteq 1..made
  <2> SUFFICES ASSUME NEW i \in launched' PROVE i \in 1..made
    OBVIOUS
  <2>1. i \in 1..MaxOps
    BY <1>1
  <2>2. i \in launched \/ \E w \in Workers : i = op[w]
    BY <1>0 DEF CallStep
  <2>3. i \in 0..made
    BY <1>1, <2>2 DEF GenInv
  <2> QED
    BY <1>1, <2>1, <2>3
<1>2. ASSUME made' = made, row' # NoRow => row'.id = made
      PROVE  launched' \subseteq 1..made' /\ \A a \in Actors : op'[a] \in 0..made'
  <2>1. launched' \subseteq 1..made'
    BY <1>a, <1>2
  <2>2. \A a \in Actors : op'[a] \in 0..made'
    BY <1>0, <1>1, <1>2 DEF CallStep, GenInv
  <2> QED
    BY <2>1, <2>2
<1>3. CASE Untouched
  BY <1>1, <1>2, <1>3 DEF Untouched, GenInv
<1>4. CASE Created
  <2>1. PICK i \in 1..MaxOps : i = made + 1
    BY <1>1, <1>4 DEF Created
  <2>2. row' \in Rows /\ row'.id = i /\ row'.expires = clock + Retention
    BY <1>1, <1>4, <2>1, AcceptedFacts DEF Created
  <2>3. row' # NoRow /\ made' = i /\ born'[i] = clock
        /\ \A j \in 1..made : born'[j] = born[j]
    BY <1>1, <1>4, <2>1, <2>2, NoRowFacts DEF Created
  <2>4. \A j \in 1..made : clock >= born[j] + Retention
    BY <1>1, <1>4 DEF Created, GenInv
  <2>5. ASSUME NEW j \in 1..made', NEW k \in 1..made', j < k
        PROVE  born'[k] >= born'[j] + Retention
    <3>1. j \in 1..made /\ born'[j] = born[j]
      BY <1>1, <2>1, <2>3, <2>5
    <3>2. CASE k = i
      BY <2>3, <2>4, <3>1, <3>2
    <3>3. CASE k # i
      <4>1. k \in 1..made /\ born'[k] = born[k]
        BY <1>1, <2>1, <2>3, <3>3
      <4> QED
        BY <2>5, <3>1, <4>1 DEF GenInv
    <3> QED
      BY <3>2, <3>3
  <2>6. launched' \subseteq 1..made'
    BY <1>a, <1>1, <2>1, <2>3
  <2>7. ASSUME NEW a \in Actors PROVE op'[a] \in 0..made'
    <3>1. op'[a] \in 0..made \/ op'[a] = i
      BY <1>0, <1>1, <2>2 DEF CallStep, GenInv
    <3> QED
      BY <1>1, <2>1, <2>3, <3>1
  <2> QED
    BY <1>1, <2>1, <2>2, <2>3, <2>5, <2>6, <2>7 DEF GenInv
<1>5. CASE Deleted
  BY <1>1, <1>2, <1>5, NoRowFacts DEF Deleted, GenInv
<1>6. CASE Written
  <2>1. row # NoRow /\ row'.id = row.id /\ row'.expires = row.expires /\ row' # NoRow
    BY <1>6, NoRowFacts DEF Written, Change
  <2> QED
    BY <1>1, <1>2, <1>6, <2>1 DEF Written, GenInv
<1> QED
  BY <1>0, <1>3, <1>4, <1>5, <1>6 DEF RowStep

LEMMA GenInvariant == Spec => [](TypeInv /\ GenInv)
<1>1. Init => GenInv
  BY ConstantsAssumption DEF Init, GenInv
<1> QED
  BY <1>1, TypeInit, TypeStep, GenStep, PTL DEF Spec

\* Two runner calls under one idempotency key are for operations created at
\* least a retention period apart, whatever clients start, cancel, recover,
\* crash or prune in between.
THEOREM OneGeneration == Spec => []OneGenerationPerKey
<1>1. TypeInv /\ GenInv => OneGenerationPerKey
  BY DEF GenInv, OneGenerationPerKey
<1> QED
  BY <1>1, GenInvariant, PTL

-----------------------------------------------------------------------------
(***************************************************************************)
(* Terminal states and locators.  The argument is about the copy a call    *)
(* read: while the row still has the version read, it has the content      *)
(* read, so a decision taken on the copy holds for the row it is written   *)
(* to.                                                                     *)
(***************************************************************************)

\* Phases in which a call holds a copy of the row, and those of them that are
\* only entered with a copy that is not terminal.
Reading  == {"claimed", "observing", "saving", "handling", "noting", "asking",
             "confirming"}
Deciding == Reading \ {"observing", "noting"}

Agrees(r) ==
    row # NoRow /\ row.id = r.id => r.version < row.version \/ SameContent(r, row)

ReadInv ==
    \A a \in Actors : pc[a] \in Reading =>
        /\ seen[a] \in Rows /\ seen[a].id = op[a]
        /\ Agrees(seen[a])
        /\ pc[a] \in Deciding => seen[a].state \notin Terminal

\* A call that holds a copy after a step held it before, or has just read.
ReadStep ==
    \A a \in Actors : pc'[a] \in Reading =>
        \/ pc'[a] = pc[a] /\ seen'[a] = seen[a] /\ op'[a] = op[a]
        \/ /\ row' \in Rows /\ row'.id = op'[a] /\ seen'[a] = Freed(row')
           /\ pc'[a] \in Deciding => row'.state \notin Terminal

LEMMA StepOfReads == TypeInv /\ [Next]_vars => ReadStep
<1> SUFFICES ASSUME TypeInv, [Next]_vars PROVE ReadStep
  OBVIOUS
<1>0. /\ pc \in [Actors -> Phases] /\ op \in [Actors -> 0..MaxOps]
      /\ seen \in [Actors -> Rows \cup {NoRow}]
      /\ row # NoRow => row \in Rows
      /\ row # NoRow => \A w \in Workers : LET t == Claimed(row, w)
                                           IN t \in Rows /\ t.id = row.id /\ t.state = row.state
  BY ClaimedFacts DEF TypeInv, TypeOK
<1> USE <1>0 DEF ReadStep, Reading, Deciding, Go, history
<1>1. ASSUME NEW s \in Starters, Reserve(s) PROVE ReadStep
  BY <1>1 DEF Reserve
<1>2. ASSUME NEW s \in Starters, RunOtherAccount(s) PROVE ReadStep
  BY <1>2 DEF RunOtherAccount
<1>3. ASSUME NEW s \in Starters, RunClaim(s) PROVE ReadStep
  BY <1>3 DEF RunClaim, Exists, Claimable
<1>4. ASSUME NEW s \in Starters, RunCancelled(s) PROVE ReadStep
  BY <1>4 DEF RunCancelled, Unstarted, Forget
<1>5. ASSUME NEW s \in Starters, RunAccepted(s) PROVE ReadStep
  BY <1>5 DEF RunAccepted, Unstarted, Forget
<1>6. ASSUME NEW s \in Starters, RunLaunch(s) PROVE ReadStep
  BY <1>6 DEF RunLaunch
<1>7. ASSUME NEW s \in Starters, RunDirect(s) PROVE ReadStep
  BY <1>7 DEF RunDirect
<1>8. ASSUME NEW s \in Starters, Raise(s) PROVE ReadStep
  BY <1>8 DEF Raise
<1>9. ASSUME NEW s \in Starters, Handle(s) PROVE ReadStep
  BY <1>9 DEF Handle, Exists, Read
<1>10. ASSUME NEW s \in Starters, HandleWrite(s) PROVE ReadStep
  BY <1>10 DEF HandleWrite, Forget
<1>11. ASSUME NEW r \in Readers, Lookup(r) PROVE ReadStep
  BY <1>11 DEF Lookup
<1>12. ASSUME NEW r \in Readers, RecoverClaim(r) PROVE ReadStep
  BY <1>12 DEF RecoverClaim, Exists
<1>13. ASSUME NEW w \in Workers, Abandon(w) PROVE ReadStep
  BY <1>13 DEF Abandon
<1>14. ASSUME NEW w \in Workers, Observe(w) PROVE ReadStep
  BY <1>14 DEF Observe, Exists, Read
<1>15. ASSUME NEW w \in Workers, ObserveWrite(w) PROVE ReadStep
  BY <1>15 DEF ObserveWrite, Unrecorded, Forget
<1>16. ASSUME NEW w \in Workers, ObserveLost(w) PROVE ReadStep
  BY <1>16 DEF ObserveLost, Exists, Read, Unrecorded, Again, Forget
<1>17. ASSUME NEW w \in Workers, Offer(w) PROVE ReadStep
  BY <1>17 DEF Offer
<1>18. ASSUME NEW w \in Workers, Return(w) PROVE ReadStep
  BY <1>18 DEF Return
<1>19. ASSUME NEW w \in Workers, Save(w) PROVE ReadStep
  BY <1>19 DEF Save, Exists, Read
<1>20. ASSUME NEW w \in Workers, SaveWrite(w) PROVE ReadStep
  BY <1>20 DEF SaveWrite, Forget
<1>21. ASSUME NEW w \in Workers, Finish(w) PROVE ReadStep
  BY <1>21 DEF Finish, Drop, Forget
<1>22. ASSUME NEW w \in Workers, Renew(w) PROVE ReadStep
  BY <1>22 DEF Renew
<1>23. ASSUME NEW w \in Workers, Crash(w) PROVE ReadStep
  BY <1>23 DEF Crash, Drop, Forget
<1>24. ASSUME NEW o \in Observers, Note(o) PROVE ReadStep
  BY <1>24 DEF Note, Read
<1>25. ASSUME NEW o \in Observers, NoteWrite(o) PROVE ReadStep
  BY <1>25 DEF NoteWrite, Forget
<1>26. ASSUME NEW o \in Observers, NoteLost(o) PROVE ReadStep
  BY <1>26 DEF NoteLost, Exists, Read, Again, Forget
<1>27. ASSUME NEW c \in Cancellers, Cancel(c) PROVE ReadStep
  BY <1>27 DEF Cancel, Read
<1>28. ASSUME NEW c \in Cancellers, CancelRequest(c) PROVE ReadStep
  BY <1>28 DEF CancelRequest, Forget
<1>29. ASSUME NEW c \in Cancellers, CancelConfirmed(c) PROVE ReadStep
  BY <1>29 DEF CancelConfirmed, Exists, Read
<1>30. ASSUME NEW c \in Cancellers, CancelUnconfirmed(c) PROVE ReadStep
  BY <1>30 DEF CancelUnconfirmed
<1>31. ASSUME NEW c \in Cancellers, CancelWrite(c) PROVE ReadStep
  BY <1>31 DEF CancelWrite, Forget
<1>32. CASE Tick
  BY <1>32 DEF Tick
<1>33. CASE Prune
  BY <1>33 DEF Prune
<1>34. CASE UNCHANGED vars
  BY <1>34 DEF vars
<1> QED
  BY <1>1, <1>2, <1>3, <1>4, <1>5, <1>6, <1>7, <1>8, <1>9, <1>10, <1>11, <1>12, <1>13, <1>14, <1>15, <1>16, <1>17, <1>18, <1>19, <1>20, <1>21, <1>22, <1>23, <1>24, <1>25, <1>26, <1>27, <1>28, <1>29, <1>30, <1>31, <1>32, <1>33, <1>34
  DEF Next, StarterStep, ReaderStep, WorkerStep, ObserverStep, CancellerStep

LEMMA ReadInvStep == TypeInv /\ GenInv /\ ReadInv /\ [Next]_vars => ReadInv'
<1> SUFFICES ASSUME TypeInv, GenInv, ReadInv, [Next]_vars,
                    NEW a \in Actors, pc'[a] \in Reading
             PROVE  /\ seen'[a] \in Rows /\ seen'[a].id = op'[a]
                    /\ Agrees(seen[a])'
                    /\ pc'[a] \in Deciding => seen'[a].state \notin Terminal
  BY DEF ReadInv
<1>0. RowStep /\ ReadStep
  BY StepOfRow, StepOfReads DEF TypeInv
<1>1. CASE pc'[a] = pc[a] /\ seen'[a] = seen[a] /\ op'[a] = op[a]
  <2>1. /\ seen[a] \in Rows /\ seen[a].id = op[a] /\ Agrees(seen[a])
        /\ pc[a] \in Deciding => seen[a].state \notin Terminal
    BY <1>1 DEF ReadInv
  <2>2. seen[a].version \in Nat /\ seen[a].id \in 0..made /\ made \in 0..MaxOps
    BY <2>1, RowFields DEF GenInv, TypeInv, TypeOK
  <2>3. Agrees(seen[a])'
    <3>1. CASE Untouched
      BY <1>1, <2>1, <3>1 DEF Untouched, Agrees
    <3>2. CASE Created
      <4>1. PICK i \in 1..MaxOps : i = made + 1
        BY <2>2, <3>2, ConstantsAssumption DEF Created
      <4>2. row'.id = i
        BY <3>2, <4>1, AcceptedFacts DEF Created, TypeInv, TypeOK
      <4>3. row'.id # seen[a].id
        BY <2>2, <4>1, <4>2
      <4> QED
        BY <1>1, <4>3 DEF Agrees
    <3>3. CASE Deleted
      BY <3>3 DEF Deleted, Agrees
    <3>4. CASE Written
      <4>1. /\ row # NoRow /\ row'.id = row.id /\ row.version \in Nat /\ row'.version \in Nat
            /\ row'.version > row.version \/ SameContent(row, row')
        BY <3>4, RowFields DEF Written, Change
      <4> QED
        BY <1>1, <2>1, <2>2, <4>1 DEF Agrees, SameContent
    <3> QED
      BY <1>0, <3>1, <3>2, <3>3, <3>4 DEF RowStep
  <2> QED
    BY <1>1, <2>1, <2>3
<1>2. CASE /\ row' \in Rows /\ row'.id = op'[a] /\ seen'[a] = Freed(row')
           /\ pc'[a] \in Deciding => row'.state \notin Terminal
  BY <1>2, FreedFacts DEF Agrees, SameContent
<1> QED
  BY <1>0, <1>1, <1>2 DEF ReadStep

LEMMA ReadInvariant == Spec => [](TypeInv /\ GenInv /\ ReadInv)
<1>1. Init => ReadInv
  BY DEF Init, ReadInv, Reading
<1> QED
  BY <1>1, GenInvariant, ReadInvStep, PTL DEF Spec

\* What every write must keep of a row.
Keeps(r, t) ==
    /\ r.state \in Terminal => t.state = r.state
    /\ r.state = "cancelled" => t.verification = r.verification
    /\ r.chat # None => t.chat = r.chat
    /\ r.provider => t.provider
    /\ Known(r.arts) \subseteq Known(t.arts)
    /\ \A x \in Artifacts : r.arts[x] = "verified" => t.arts[x] # "remote"

LEMMA KeepsPut ==
    ASSUME NEW r \in Rows, NEW st \in States, NEW v \in Evidence, r.state \notin Terminal
    PROVE  Keeps(r, Put(r, st, v))
<1>1. /\ Put(r, st, v).arts = r.arts /\ Put(r, st, v).chat = r.chat
      /\ Put(r, st, v).provider = r.provider
  BY PutFacts
<1> QED
  BY <1>1 DEF Keeps, Terminal

LEMMA KeepsFiles ==
    ASSUME NEW r \in Rows, NEW st \in States \ {"cancelled"}, NEW found \in Locators,
           ~Refused(r.state, ObservedState(st, Merge(r.arts, found)))
    PROVE  LET arts == Merge(r.arts, found)
           IN  Keeps(r, PutFiles(r, ObservedState(st, arts), arts))
<1> DEFINE arts == Merge(r.arts, found)
           desired == ObservedState(st, arts)
           t == PutFiles(r, desired, arts)
<1>1. r.state \in States /\ r.arts \in Locators
  BY RowFields
<1>2. /\ arts \in Locators /\ Known(r.arts) \subseteq Known(arts)
      /\ \A x \in Artifacts : r.arts[x] = "verified" => arts[x] # "remote"
  BY <1>1, MergeFacts
<1>3. desired \in States /\ desired # "cancelled"
  BY <1>2, ObservedFacts DEF ObservedState
<1>4. /\ t.arts = arts /\ t.chat = r.chat /\ t.provider = r.provider
      /\ t.state = Settle(r.state, desired)
  BY <1>2, <1>3, PutFilesFacts
<1>5. r.state \in Terminal => desired = r.state
  BY DEF Refused
<1>6. r.state \in Terminal => t.state = r.state /\ r.state # "cancelled"
  BY <1>3, <1>4, <1>5 DEF Settle, Terminal
<1> HIDE DEF t, desired, arts
<1>7. Keeps(r, t)
  BY <1>2, <1>4, <1>6 DEF Keeps, Terminal
<1> QED
  BY <1>7 DEF t, desired, arts

LEMMA KeepsSaved ==
    ASSUME NEW w \in Workers, NEW found \in Locators, NEW st \in ResultStates,
           NEW chat \in Chats \cup {None}, NEW provider \in BOOLEAN,
           row \in Rows, row.state \notin Terminal, SameContent(seen[w], row)
    PROVE  Keeps(row, Saved(w, st, found, chat, provider))
<1> DEFINE merged == Merge(row.arts, found)
           desired == ObservedState(st, merged)
           t == PutFiles(row, desired, merged)
<1>1. seen[w].arts = row.arts /\ seen[w].chat = row.chat /\ row.arts \in Locators
  BY RowFields DEF SameContent
<1>2. CASE chat # None /\ seen[w].chat \notin {None, chat}
  BY <1>2, KeepsPut DEF Saved, States, Evidence
<1>3. CASE ~(chat # None /\ seen[w].chat \notin {None, chat})
  <2>1. merged \in Locators /\ st \in States
    BY <1>1, MergeFacts, ConstantsAssumption
  <2>2. desired \in States
    BY <2>1, ObservedFacts
  <2>3. t \in Rows /\ t.arts = merged /\ t.chat = row.chat /\ t.provider = row.provider
    BY <2>1, <2>2, PutFilesFacts
  <2>4. Saved(w, st, found, chat, provider) = SetSource(t, chat, provider)
    BY <1>1, <1>3 DEF Saved
  <2>5. /\ Known(row.arts) \subseteq Known(merged)
        /\ \A x \in Artifacts : row.arts[x] = "verified" => merged[x] # "remote"
    BY <1>1, MergeFacts
  <2> HIDE DEF t
  <2> DEFINE u == SetSource(t, chat, provider)
  <2>6. /\ u.arts = t.arts /\ (t.provider => u.provider)
        /\ u.chat = IF chat = None THEN t.chat ELSE chat
    <3> SUFFICES ASSUME NEW r \in Rows
                 PROVE  LET v == SetSource(r, chat, provider)
                        IN  /\ v.arts = r.arts /\ (r.provider => v.provider)
                            /\ v.chat = IF chat = None THEN r.chat ELSE chat
      BY <2>3
    <3> QED
      BY SetSourceFacts
  <2> HIDE DEF merged, u
  <2> QED
    BY <1>1, <1>3, <2>3, <2>4, <2>5, <2>6 DEF Keeps, Terminal, u
<1> QED
  BY <1>2, <1>3

\* A step that keeps the row, or that edits only its lease or its bookkeeping.
LEMMA KeepsSame ==
    ASSUME NEW r \in Rows, NEW t \in Rows, t.state = r.state, t.arts = r.arts,
           t.chat = r.chat, t.provider = r.provider, t.verification = r.verification
    PROVE  Keeps(r, t)
BY DEF Keeps

\* A call that may still write has a copy with the content of the row.
LEMMA CopyHolds ==
    ASSUME ReadInv, NEW a \in Actors, pc[a] \in Reading, Fresh(a)
    PROVE  /\ SameContent(seen[a], row) /\ row.id = op[a] /\ row # NoRow
           /\ pc[a] \in Deciding => row.state \notin Terminal
<1>1. /\ seen[a] \in Rows /\ seen[a].id = op[a] /\ Agrees(seen[a])
      /\ pc[a] \in Deciding => seen[a].state \notin Terminal
  BY DEF ReadInv
<1>2. seen[a].version \in Nat /\ row.version = seen[a].version /\ row.id = op[a] /\ row # NoRow
  BY <1>1, RowFields DEF Fresh, Exists
<1> QED
  BY <1>1, <1>2 DEF Agrees, SameContent

KeepStep == row \in Rows /\ row' \in Rows /\ row'.id = row.id => Keeps(row, row')

LEMMA StepKeeps == TypeInv /\ ReadInv /\ [Next]_vars => KeepStep
<1> SUFFICES ASSUME TypeInv, ReadInv, [Next]_vars, row \in Rows, row' \in Rows,
                    row'.id = row.id
             PROVE  Keeps(row, row')
  BY DEF KeepStep
<1>0. /\ clock \in Nat /\ row # NoRow
      /\ row' = row => Keeps(row, row')
      /\ \A w \in Workers : Keeps(row, Claimed(row, w))
      /\ \A w \in Workers \cup {None}, time \in Nat : Keeps(row, Leased(row, w, time))
  <2>1. clock \in Nat /\ row # NoRow
    BY NoRowFacts DEF TypeInv, TypeOK
  <2>2. row' = row => Keeps(row, row')
    BY DEF Keeps
  <2>3. ASSUME NEW w \in Workers PROVE Keeps(row, Claimed(row, w))
    BY <2>1, ClaimedFacts, KeepsSame
  <2>4. ASSUME NEW w \in Workers \cup {None}, NEW time \in Nat
        PROVE  Keeps(row, Leased(row, w, time))
    BY LeasedFacts, KeepsSame
  <2> QED
    BY <2>1, <2>2, <2>3, <2>4
<1>a. clock + Lease \in Nat
  BY <1>0, ConstantsAssumption
<1> USE DEF history
<1>1. ASSUME NEW s \in Starters, Reserve(s) PROVE Keeps(row, row')
  BY <1>0, <1>1 DEF Reserve, KeyTaken
<1>2. ASSUME NEW s \in Starters, RunOtherAccount(s) PROVE Keeps(row, row')
  BY <1>0, <1>2, KeepsPut DEF RunOtherAccount, States, Evidence
<1>3. ASSUME NEW s \in Starters, RunClaim(s) PROVE Keeps(row, row')
  BY <1>0, <1>3 DEF RunClaim
<1>4. ASSUME NEW s \in Starters, RunCancelled(s) PROVE Keeps(row, row')
  <2>1. Writes(s) => row.state \notin Terminal
    BY <1>4, CopyHolds DEF RunCancelled, Writes, Reading, Deciding
  <2> QED
    BY <1>0, <1>4, <2>1, KeepsPut DEF RunCancelled, States, Evidence
<1>5. ASSUME NEW s \in Starters, RunAccepted(s) PROVE Keeps(row, row')
  <2>1. Writes(s) => row.state \notin Terminal
    BY <1>5, CopyHolds DEF RunAccepted, Writes, Reading, Deciding
  <2>2. row.state \notin Terminal => Keeps(row, Started(row))
    BY StartedFacts DEF Keeps, Terminal
  <2> QED
    BY <1>0, <1>5, <2>1, <2>2 DEF RunAccepted
<1>6. ASSUME NEW s \in Starters, RunLaunch(s) PROVE Keeps(row, row')
  <2>1. row.state \notin Terminal => Keeps(row, Started(row))
    BY StartedFacts DEF Keeps, Terminal
  <2> QED
    BY <1>0, <1>6, <2>1 DEF RunLaunch
<1>7. ASSUME NEW s \in Starters, RunDirect(s) PROVE Keeps(row, row')
  BY <1>0, <1>7 DEF RunDirect
<1>8. ASSUME NEW s \in Starters, Raise(s) PROVE Keeps(row, row')
  BY <1>0, <1>8 DEF Raise
<1>9. ASSUME NEW s \in Starters, Handle(s) PROVE Keeps(row, row')
  BY <1>0, <1>9 DEF Handle
<1>10. ASSUME NEW s \in Starters, HandleWrite(s) PROVE Keeps(row, row')
  <2>1. Fresh(s) => row.state \notin Terminal
    BY <1>10, CopyHolds DEF HandleWrite, Reading, Deciding
  <2> QED
    BY <1>0, <1>10, <2>1, KeepsPut DEF HandleWrite, States, Evidence
<1>11. ASSUME NEW r \in Readers, Lookup(r) PROVE Keeps(row, row')
  BY <1>0, <1>11 DEF Lookup
<1>12. ASSUME NEW r \in Readers, RecoverClaim(r) PROVE Keeps(row, row')
  BY <1>0, <1>12 DEF RecoverClaim
<1>13. ASSUME NEW w \in Workers, Abandon(w) PROVE Keeps(row, row')
  BY <1>0, <1>13 DEF Abandon
<1>14. ASSUME NEW w \in Workers, Observe(w) PROVE Keeps(row, row')
  BY <1>0, <1>14 DEF Observe
<1>15. ASSUME NEW w \in Workers, ObserveWrite(w) PROVE Keeps(row, row')
  <2>1. SameContent(seen[w], row)
    BY <1>15, CopyHolds DEF ObserveWrite, Writes, Reading
  <2>2. Found(w) \subseteq Locators /\ ResultStates \subseteq States
    BY ConstantsAssumption, NoRowFacts DEF Found
  <2>3. ASSUME NEW found \in Found(w), NEW st \in ResultStates \ {"cancelled"},
               ~Refused(row.state, ObservedState(st, Merge(seen[w].arts, found)))
        PROVE  Keeps(row, PutFiles(row, ObservedState(st, Merge(seen[w].arts, found)),
                                   Merge(seen[w].arts, found)))
    BY <2>1, <2>2, <2>3, KeepsFiles DEF SameContent
  <2> QED
    BY <1>0, <1>15, <2>3 DEF ObserveWrite
<1>16. ASSUME NEW w \in Workers, ObserveLost(w) PROVE Keeps(row, row')
  BY <1>0, <1>16 DEF ObserveLost
<1>17. ASSUME NEW w \in Workers, Offer(w) PROVE Keeps(row, row')
  BY <1>0, <1>17 DEF Offer
<1>18. ASSUME NEW w \in Workers, Return(w) PROVE Keeps(row, row')
  BY <1>0, <1>18 DEF Return
<1>19. ASSUME NEW w \in Workers, Save(w) PROVE Keeps(row, row')
  BY <1>0, <1>19 DEF Save
<1>20. ASSUME NEW w \in Workers, SaveWrite(w) PROVE Keeps(row, row')
  <2>1. Writes(w) => SameContent(seen[w], row) /\ row.state \notin Terminal
    BY <1>20, CopyHolds DEF SaveWrite, Writes, Reading, Deciding
  <2>2. Found(w) \subseteq Locators
    BY NoRowFacts DEF Found
  <2> QED
    BY <1>0, <1>20, <2>1, <2>2, KeepsSaved DEF SaveWrite
<1>21. ASSUME NEW w \in Workers, Finish(w) PROVE Keeps(row, row')
  BY <1>0, <1>21 DEF Finish, Release, Freed
<1>22. ASSUME NEW w \in Workers, Renew(w) PROVE Keeps(row, row')
  BY <1>0, <1>a, <1>22 DEF Renew
<1>23. ASSUME NEW w \in Workers, Crash(w) PROVE Keeps(row, row')
  BY <1>0, <1>23 DEF Crash
<1>24. ASSUME NEW o \in Observers, Note(o) PROVE Keeps(row, row')
  BY <1>0, <1>24 DEF Note
<1>25. ASSUME NEW o \in Observers, NoteWrite(o) PROVE Keeps(row, row')
  <2>1. SameContent(seen[o], row)
    BY <1>25, CopyHolds DEF NoteWrite, Reading
  <2>2. ASSUME NEW chat \in Chats \cup {None}, NEW provider \in BOOLEAN,
               ~(chat # None /\ seen[o].chat \notin {None, chat})
        PROVE  Keeps(row, Noted(row, chat, provider))
    <3>1. LET t == Noted(row, chat, provider)
          IN  /\ t.state = row.state /\ t.arts = row.arts
              /\ t.verification = row.verification
              /\ t.chat = IF chat = None THEN row.chat ELSE chat
              /\ row.provider => t.provider
      BY NotedFacts
    <3> QED
      BY <2>1, <2>2, <3>1 DEF Keeps, SameContent
  <2> QED
    BY <1>0, <1>25, <2>2 DEF NoteWrite
<1>26. ASSUME NEW o \in Observers, NoteLost(o) PROVE Keeps(row, row')
  BY <1>0, <1>26 DEF NoteLost
<1>27. ASSUME NEW c \in Cancellers, Cancel(c) PROVE Keeps(row, row')
  BY <1>0, <1>27 DEF Cancel
<1>28. ASSUME NEW c \in Cancellers, CancelRequest(c) PROVE Keeps(row, row')
  <2>1. Fresh(c) => row.state \notin Terminal
    BY <1>28, CopyHolds DEF CancelRequest, Reading, Deciding
  <2> QED
    BY <1>0, <1>28, <2>1, KeepsPut DEF CancelRequest, States, Evidence
<1>29. ASSUME NEW c \in Cancellers, CancelConfirmed(c) PROVE Keeps(row, row')
  BY <1>0, <1>29 DEF CancelConfirmed
<1>30. ASSUME NEW c \in Cancellers, CancelUnconfirmed(c) PROVE Keeps(row, row')
  BY <1>0, <1>30 DEF CancelUnconfirmed
<1>31. ASSUME NEW c \in Cancellers, CancelWrite(c) PROVE Keeps(row, row')
  <2>1. Fresh(c) => row.state \notin Terminal
    BY <1>31, CopyHolds DEF CancelWrite, Reading, Deciding
  <2> QED
    BY <1>0, <1>31, <2>1, KeepsPut DEF CancelWrite, States, Evidence
<1>32. CASE Tick
  BY <1>0, <1>32 DEF Tick
<1>33. CASE Prune
  BY <1>0, <1>33, NoRowFacts DEF Prune
<1>34. CASE UNCHANGED vars
  BY <1>0, <1>34 DEF vars
<1> QED
  BY <1>1, <1>2, <1>3, <1>4, <1>5, <1>6, <1>7, <1>8, <1>9, <1>10, <1>11, <1>12, <1>13, <1>14, <1>15, <1>16, <1>17, <1>18, <1>19, <1>20, <1>21, <1>22, <1>23, <1>24, <1>25, <1>26, <1>27, <1>28, <1>29, <1>30, <1>31, <1>32, <1>33, <1>34
  DEF Next, StarterStep, ReaderStep, WorkerStep, ObserverStep, CancellerStep

LEMMA SameRowIsARow == TypeInv /\ TypeInv' /\ SameRow => row \in Rows /\ row' \in Rows
BY RowFields, NoRowFacts DEF TypeInv, TypeOK, SameRow

\* A terminal state, and the evidence of a cancellation, survive every later
\* write: each write carries the version of a copy that was not terminal, or
\* asks for the state the row has.
THEOREM TerminalStates == Spec => TerminalSticky
<1>1. TypeInv /\ TypeInv' /\ ReadInv /\ [Next]_vars =>
        [SameRow /\ row.state \in Terminal =>
            /\ row'.state = row.state
            /\ row.state = "cancelled" => row'.verification = row.verification]_vars
  BY SameRowIsARow, StepKeeps DEF KeepStep, Keeps, SameRow
<1> QED
  BY <1>1, ReadInvariant, PTL DEF Spec, TerminalSticky

\* Recorded sources and locators are only ever added to.
THEOREM LocatorsOnlyGrow == Spec => LocatorsMonotonic
<1>1. TypeInv /\ TypeInv' /\ ReadInv /\ [Next]_vars =>
        [SameRow =>
            /\ row.chat # None => row'.chat = row.chat
            /\ row.provider => row'.provider
            /\ Known(row.arts) \subseteq Known(row'.arts)
            /\ \A x \in Artifacts : row.arts[x] = "verified" => row'.arts[x] # "remote"]_vars
  BY SameRowIsARow, StepKeeps DEF KeepStep, Keeps, SameRow
<1> QED
  BY <1>1, ReadInvariant, PTL DEF Spec, LocatorsMonotonic

-----------------------------------------------------------------------------
(***************************************************************************)
(* Local cancellation.  Only the starter that reserved an operation ever   *)
(* runs its producer, and it is past the start once it has recorded the    *)
(* local cancellation.                                                     *)
(***************************************************************************)

\* How a starter approaches its producer.
StarterMoves ==
    /\ \A s \in Starters :
         \/ pc'[s] = pc[s] /\ op'[s] = op[s]
         \/ pc[s] = "idle" /\ pc'[s] = "task" /\ op'[s] = made + 1 /\ launched' = launched
         \/ op'[s] = op[s] /\ pc'[s] \notin {"task", "claimed", "enter", "work"}
         \/ /\ op'[s] = op[s] /\ pc[s] = "task" /\ pc'[s] = "claimed"
            /\ row # NoRow /\ op[s] = row.id /\ row.state \notin Terminal
         \/ op'[s] = op[s] /\ pc[s] = "claimed" /\ pc'[s] = "enter"
         \/ op'[s] = op[s] /\ pc[s] = "enter" /\ pc'[s] = "work"
    /\ \A s, t \in Starters : op'[s] # op[s] /\ op'[t] # op[t] => s = t
    /\ \A i \in launched' \ launched :
         \E s \in Starters : pc[s] = "enter" /\ i = op[s] /\ pc'[s] = "work" /\ op'[s] = op[s]

LEMMA StepOfStarters == TypeInv /\ [Next]_vars => StarterMoves
<1> SUFFICES ASSUME TypeInv, [Next]_vars PROVE StarterMoves
  OBVIOUS
<1>0. pc \in [Actors -> Phases] /\ op \in [Actors -> 0..MaxOps]
  BY DEF TypeInv, TypeOK
<1> USE <1>0, ActorsAssumption DEF StarterMoves, Go, history
<1>1. ASSUME NEW s \in Starters, Reserve(s) PROVE StarterMoves
  BY <1>1 DEF Reserve
<1>2. ASSUME NEW s \in Starters, RunOtherAccount(s) PROVE StarterMoves
  BY <1>2 DEF RunOtherAccount
<1>3. ASSUME NEW s \in Starters, RunClaim(s) PROVE StarterMoves
  BY <1>3 DEF RunClaim, Exists, Claimable
<1>4. ASSUME NEW s \in Starters, RunCancelled(s) PROVE StarterMoves
  BY <1>4 DEF RunCancelled, Unstarted
<1>5. ASSUME NEW s \in Starters, RunAccepted(s) PROVE StarterMoves
  BY <1>5 DEF RunAccepted, Unstarted
<1>6. ASSUME NEW s \in Starters, RunLaunch(s) PROVE StarterMoves
  BY <1>6 DEF RunLaunch
<1>7. ASSUME NEW s \in Starters, RunDirect(s) PROVE StarterMoves
  BY <1>7 DEF RunDirect
<1>8. ASSUME NEW s \in Starters, Raise(s) PROVE StarterMoves
  BY <1>8 DEF Raise
<1>9. ASSUME NEW s \in Starters, Handle(s) PROVE StarterMoves
  BY <1>9 DEF Handle
<1>10. ASSUME NEW s \in Starters, HandleWrite(s) PROVE StarterMoves
  BY <1>10 DEF HandleWrite
<1>11. ASSUME NEW r \in Readers, Lookup(r) PROVE StarterMoves
  BY <1>11 DEF Lookup
<1>12. ASSUME NEW r \in Readers, RecoverClaim(r) PROVE StarterMoves
  BY <1>12 DEF RecoverClaim
<1>13. ASSUME NEW w \in Workers, Abandon(w) PROVE StarterMoves
  BY <1>13 DEF Abandon
<1>14. ASSUME NEW w \in Workers, Observe(w) PROVE StarterMoves
  BY <1>14 DEF Observe
<1>15. ASSUME NEW w \in Workers, ObserveWrite(w) PROVE StarterMoves
  BY <1>15 DEF ObserveWrite, Unrecorded
<1>16. ASSUME NEW w \in Workers, ObserveLost(w) PROVE StarterMoves
  BY <1>16 DEF ObserveLost, Unrecorded
<1>17. ASSUME NEW w \in Workers, Offer(w) PROVE StarterMoves
  BY <1>17 DEF Offer
<1>18. ASSUME NEW w \in Workers, Return(w) PROVE StarterMoves
  BY <1>18 DEF Return
<1>19. ASSUME NEW w \in Workers, Save(w) PROVE StarterMoves
  BY <1>19 DEF Save
<1>20. ASSUME NEW w \in Workers, SaveWrite(w) PROVE StarterMoves
  BY <1>20 DEF SaveWrite
<1>21. ASSUME NEW w \in Workers, Finish(w) PROVE StarterMoves
  BY <1>21 DEF Finish
<1>22. ASSUME NEW w \in Workers, Renew(w) PROVE StarterMoves
  BY <1>22 DEF Renew
<1>23. ASSUME NEW w \in Workers, Crash(w) PROVE StarterMoves
  BY <1>23 DEF Crash
<1>24. ASSUME NEW o \in Observers, Note(o) PROVE StarterMoves
  BY <1>24 DEF Note
<1>25. ASSUME NEW o \in Observers, NoteWrite(o) PROVE StarterMoves
  BY <1>25 DEF NoteWrite
<1>26. ASSUME NEW o \in Observers, NoteLost(o) PROVE StarterMoves
  BY <1>26 DEF NoteLost
<1>27. ASSUME NEW c \in Cancellers, Cancel(c) PROVE StarterMoves
  BY <1>27 DEF Cancel
<1>28. ASSUME NEW c \in Cancellers, CancelRequest(c) PROVE StarterMoves
  BY <1>28 DEF CancelRequest
<1>29. ASSUME NEW c \in Cancellers, CancelConfirmed(c) PROVE StarterMoves
  BY <1>29 DEF CancelConfirmed
<1>30. ASSUME NEW c \in Cancellers, CancelUnconfirmed(c) PROVE StarterMoves
  BY <1>30 DEF CancelUnconfirmed
<1>31. ASSUME NEW c \in Cancellers, CancelWrite(c) PROVE StarterMoves
  BY <1>31 DEF CancelWrite
<1>32. CASE Tick
  BY <1>32 DEF Tick
<1>33. CASE Prune
  BY <1>33 DEF Prune
<1>34. CASE UNCHANGED vars
  BY <1>34 DEF vars
<1> QED
  BY <1>1, <1>2, <1>3, <1>4, <1>5, <1>6, <1>7, <1>8, <1>9, <1>10, <1>11, <1>12, <1>13, <1>14, <1>15, <1>16, <1>17, <1>18, <1>19, <1>20, <1>21, <1>22, <1>23, <1>24, <1>25, <1>26, <1>27, <1>28, <1>29, <1>30, <1>31, <1>32, <1>33, <1>34
  DEF Next, StarterStep, ReaderStep, WorkerStep, ObserverStep, CancellerStep

LocalCancel(r) == r.verification = "local_cancelled_before_start"

\* Only execution() writes that evidence; every other write replaces or keeps it.
LocalStep ==
    row' \in Rows /\ LocalCancel(row') =>
        \/ row \in Rows /\ row.id = row'.id /\ LocalCancel(row)
        \/ \E s \in Starters : /\ RunCancelled(s) /\ row \in Rows /\ row.id = row'.id
                               /\ op[s] = row.id /\ row'.state = "cancelled"

LEMMA StepOfLocal == TypeInv /\ [Next]_vars => LocalStep
<1> SUFFICES ASSUME TypeInv, [Next]_vars, row' \in Rows, LocalCancel(row')
             PROVE  \/ row \in Rows /\ row.id = row'.id /\ LocalCancel(row)
                    \/ \E s \in Starters : /\ RunCancelled(s) /\ row \in Rows
                                           /\ row.id = row'.id /\ op[s] = row.id
                                           /\ row'.state = "cancelled"
  BY DEF LocalStep
<1> DEFINE Goal == \/ row \in Rows /\ row.id = row'.id /\ LocalCancel(row)
                   \/ \E s \in Starters : /\ RunCancelled(s) /\ row \in Rows
                                          /\ row.id = row'.id /\ op[s] = row.id
                                          /\ row'.state = "cancelled"
<1>0. /\ row # NoRow => row \in Rows
      /\ clock \in Nat /\ clock + Lease \in Nat
      /\ row' = row => Goal
  BY ConstantsAssumption DEF TypeInv, TypeOK
<1>a. ASSUME row # NoRow, NEW st \in States,
             NEW v \in Evidence \ {"local_cancelled_before_start"}
      PROVE  row' # Put(row, st, v)
  BY <1>0, <1>a, PutFacts DEF LocalCancel
<1>b. ASSUME row # NoRow, row' = Started(row) PROVE Goal
  BY <1>0, <1>b, StartedFacts DEF LocalCancel
<1>c. ASSUME row # NoRow, NEW w \in Workers, row' = Claimed(row, w) PROVE Goal
  BY <1>0, <1>c, ClaimedFacts DEF LocalCancel
<1>d. ASSUME row # NoRow, NEW w \in Workers \cup {None}, NEW time \in Nat,
             row' = Leased(row, w, time) PROVE Goal
  BY <1>0, <1>d, LeasedFacts DEF LocalCancel
<1>e. ASSUME row # NoRow, NEW chat \in Chats \cup {None}, NEW provider \in BOOLEAN,
             row' = Noted(row, chat, provider) PROVE Goal
  BY <1>0, <1>e, NotedFacts DEF LocalCancel
<1>f. ASSUME row # NoRow, NEW st \in States, NEW arts \in Locators
      PROVE  row' # PutFiles(row, st, arts)
  BY <1>0, <1>f, PutFilesFacts DEF LocalCancel
<1> HIDE DEF Goal
<1> USE DEF history
<1>1. ASSUME NEW s \in Starters, Reserve(s) PROVE Goal
  <2>1. CASE KeyTaken
    BY <1>0, <1>1, <2>1 DEF Reserve
  <2>2. CASE ~KeyTaken
    <3>1. PICK i \in 1..MaxOps : row' = Accepted(i)
      BY <1>1, <2>2, ConstantsAssumption DEF Reserve, TypeInv, TypeOK
    <3> QED
      BY <1>0, <3>1, AcceptedFacts DEF LocalCancel
  <2> QED
    BY <2>1, <2>2
<1>2. ASSUME NEW s \in Starters, RunOtherAccount(s) PROVE Goal
  BY <1>0, <1>a, <1>2 DEF RunOtherAccount, Exists, States, Evidence
<1>3. ASSUME NEW s \in Starters, RunClaim(s) PROVE Goal
  BY <1>0, <1>c, <1>3 DEF RunClaim, Exists
<1>4. ASSUME NEW s \in Starters, RunCancelled(s) PROVE Goal
  <2>1. CASE Writes(s)
    <3>1. row \in Rows /\ op[s] = row.id /\ row.state \in States
      BY <1>0, <2>1, RowFields DEF Writes, Fresh, Exists
    <3>2. /\ row' = Put(row, "cancelled", "local_cancelled_before_start")
          /\ "cancelled" \in States /\ "local_cancelled_before_start" \in Evidence
      BY <1>4, <2>1 DEF RunCancelled, States, Evidence
    <3>3. row'.id = row.id /\ row'.state = Settle(row.state, "cancelled")
      BY <3>1, <3>2, PutFacts
    <3>4. row'.state = "cancelled"
      BY <3>3 DEF Settle, CancelExits
    <3> QED
      BY <1>4, <3>1, <3>3, <3>4 DEF Goal
  <2>2. CASE ~Writes(s)
    BY <1>0, <1>4, <2>2 DEF RunCancelled
  <2> QED
    BY <2>1, <2>2
<1>5. ASSUME NEW s \in Starters, RunAccepted(s) PROVE Goal
  BY <1>0, <1>b, <1>5 DEF RunAccepted, Writes, Fresh, Exists
<1>6. ASSUME NEW s \in Starters, RunLaunch(s) PROVE Goal
  BY <1>0, <1>b, <1>6 DEF RunLaunch, Holds, Exists
<1>7. ASSUME NEW s \in Starters, RunDirect(s) PROVE Goal
  BY <1>0, <1>7 DEF RunDirect
<1>8. ASSUME NEW s \in Starters, Raise(s) PROVE Goal
  BY <1>0, <1>8 DEF Raise
<1>9. ASSUME NEW s \in Starters, Handle(s) PROVE Goal
  BY <1>0, <1>9 DEF Handle
<1>10. ASSUME NEW s \in Starters, HandleWrite(s) PROVE Goal
  BY <1>0, <1>a, <1>10 DEF HandleWrite, Fresh, Exists, States, Evidence
<1>11. ASSUME NEW r \in Readers, Lookup(r) PROVE Goal
  BY <1>0, <1>11 DEF Lookup
<1>12. ASSUME NEW r \in Readers, RecoverClaim(r) PROVE Goal
  BY <1>0, <1>c, <1>12 DEF RecoverClaim, Exists
<1>13. ASSUME NEW w \in Workers, Abandon(w) PROVE Goal
  BY <1>0, <1>13 DEF Abandon
<1>14. ASSUME NEW w \in Workers, Observe(w) PROVE Goal
  BY <1>0, <1>14 DEF Observe
<1>15. ASSUME NEW w \in Workers, ObserveWrite(w) PROVE Goal
  <2>1. /\ row # NoRow /\ seen[w].arts \in Locators
        /\ Found(w) \subseteq Locators /\ ResultStates \subseteq States
    BY <1>0, <1>15, RowFields, NoRowFacts, ConstantsAssumption
    DEF ObserveWrite, Writes, Fresh, Exists, Found, TypeInv, TypeOK
  <2>2. ASSUME NEW found \in Found(w), NEW st \in ResultStates
        PROVE  LET merged == Merge(seen[w].arts, found)
               IN  row' # PutFiles(row, ObservedState(st, merged), merged)
    BY <1>f, <2>1, MergeFacts, ObservedFacts
  <2> QED
    BY <1>0, <1>15, <2>2 DEF ObserveWrite
<1>16. ASSUME NEW w \in Workers, ObserveLost(w) PROVE Goal
  BY <1>0, <1>16 DEF ObserveLost
<1>17. ASSUME NEW w \in Workers, Offer(w) PROVE Goal
  BY <1>0, <1>17 DEF Offer
<1>18. ASSUME NEW w \in Workers, Return(w) PROVE Goal
  BY <1>0, <1>18 DEF Return
<1>19. ASSUME NEW w \in Workers, Save(w) PROVE Goal
  BY <1>0, <1>19 DEF Save
<1>20. ASSUME NEW w \in Workers, SaveWrite(w) PROVE Goal
  <2>1. CASE Writes(w)
    <3>1. /\ row # NoRow /\ row \in Rows /\ seen[w].arts \in Locators
          /\ Found(w) \subseteq Locators /\ ResultStates \subseteq States
      BY <1>0, <2>1, RowFields, NoRowFacts, ConstantsAssumption
      DEF Writes, Fresh, Exists, Found, TypeInv, TypeOK
    <3>2. PICK found \in Found(w), st \in ResultStates,
               chat \in Chats \cup {None}, provider \in BOOLEAN :
                 row' = Saved(w, st, found, chat, provider)
      BY <1>20, <2>1 DEF SaveWrite
    <3> DEFINE merged == Merge(seen[w].arts, found)
               t == PutFiles(row, ObservedState(st, merged), merged)
    <3>3. CASE chat # None /\ seen[w].chat \notin {None, chat}
      BY <1>a, <3>1, <3>2, <3>3 DEF Saved, States, Evidence
    <3>4. CASE ~(chat # None /\ seen[w].chat \notin {None, chat})
      <4>1. t \in Rows /\ t.verification = "reported"
        <5>1. merged \in Locators
          BY <3>1, MergeFacts
        <5>2. ObservedState(st, merged) \in States
          BY <3>1, <5>1, ObservedFacts
        <5> QED
          BY <3>1, <5>1, <5>2, PutFilesFacts
      <4>2. row' = SetSource(t, chat, provider)
        BY <3>2, <3>4 DEF Saved
      <4> HIDE DEF t
      <4>3. row'.verification = "reported"
        BY <4>1, <4>2, SetSourceFacts
      <4> QED
        BY <4>3 DEF LocalCancel
    <3> QED
      BY <3>3, <3>4
  <2>2. CASE ~Writes(w)
    BY <1>0, <1>20, <2>2 DEF SaveWrite
  <2> QED
    BY <2>1, <2>2
<1>21. ASSUME NEW w \in Workers, Finish(w) PROVE Goal
  BY <1>0, <1>d, <1>21 DEF Finish, Release, Holds, Exists, Freed
<1>22. ASSUME NEW w \in Workers, Renew(w) PROVE Goal
  BY <1>0, <1>d, <1>22 DEF Renew, Holds, Exists
<1>23. ASSUME NEW w \in Workers, Crash(w) PROVE Goal
  BY <1>0, <1>23 DEF Crash
<1>24. ASSUME NEW o \in Observers, Note(o) PROVE Goal
  BY <1>0, <1>24 DEF Note
<1>25. ASSUME NEW o \in Observers, NoteWrite(o) PROVE Goal
  BY <1>0, <1>e, <1>25 DEF NoteWrite, Fresh, Exists
<1>26. ASSUME NEW o \in Observers, NoteLost(o) PROVE Goal
  BY <1>0, <1>26 DEF NoteLost
<1>27. ASSUME NEW c \in Cancellers, Cancel(c) PROVE Goal
  BY <1>0, <1>27 DEF Cancel
<1>28. ASSUME NEW c \in Cancellers, CancelRequest(c) PROVE Goal
  BY <1>0, <1>a, <1>28 DEF CancelRequest, Fresh, Exists, States, Evidence
<1>29. ASSUME NEW c \in Cancellers, CancelConfirmed(c) PROVE Goal
  BY <1>0, <1>29 DEF CancelConfirmed
<1>30. ASSUME NEW c \in Cancellers, CancelUnconfirmed(c) PROVE Goal
  BY <1>0, <1>30 DEF CancelUnconfirmed
<1>31. ASSUME NEW c \in Cancellers, CancelWrite(c) PROVE Goal
  BY <1>0, <1>a, <1>31 DEF CancelWrite, Fresh, Exists, States, Evidence
<1>32. CASE Tick
  BY <1>0, <1>32 DEF Tick
<1>33. CASE Prune
  BY <1>33, NoRowFacts DEF Prune
<1>34. CASE UNCHANGED vars
  BY <1>0, <1>34 DEF vars
<1> QED
  BY <1>1, <1>2, <1>3, <1>4, <1>5, <1>6, <1>7, <1>8, <1>9, <1>10, <1>11, <1>12, <1>13, <1>14, <1>15, <1>16, <1>17, <1>18, <1>19, <1>20, <1>21, <1>22, <1>23, <1>24, <1>25, <1>26, <1>27, <1>28, <1>29, <1>30, <1>31, <1>32, <1>33, <1>34
  DEF Next, StarterStep, ReaderStep, WorkerStep, ObserverStep, CancellerStep, Goal

\* Each operation has one starter; its producer has not run while the starter
\* is short of calling it; and a local cancellation is recorded only where
\* nobody can call it any more.
OwnerInv ==
    /\ \A s, t \in Starters : op[s] = op[t] /\ op[s] # 0 => s = t
    /\ \A s \in Starters : pc[s] \in {"task", "claimed", "enter"} => op[s] \notin launched

LocalInv ==
    row \in Rows /\ LocalCancel(row) =>
        /\ row.state = "cancelled"
        /\ row.id \notin launched
        /\ \A s \in Starters : op[s] = row.id => pc[s] \notin {"claimed", "enter", "work"}

LEMMA OwnerStep == TypeInv /\ GenInv /\ OwnerInv /\ [Next]_vars => OwnerInv'
<1> SUFFICES ASSUME TypeInv, GenInv, OwnerInv, [Next]_vars PROVE OwnerInv'
  OBVIOUS
<1>0. /\ StarterMoves /\ made \in Nat /\ launched \subseteq 1..made
      /\ \A s \in Starters : op[s] \in 0..made
      /\ \A s \in Starters : op'[s] = op[s] \/ op'[s] = made + 1
  BY StepOfStarters DEF StarterMoves, GenInv, TypeInv, TypeOK
<1>1. ASSUME NEW s \in Starters, NEW t \in Starters, op'[s] = op'[t], op'[s] # 0
      PROVE  s = t
  <2>1. CASE op'[s] = op[s] /\ op'[t] = op[t]
    BY <1>1, <2>1 DEF OwnerInv
  <2>2. CASE op'[s] # op[s] /\ op'[t] # op[t]
    BY <1>0, <2>2 DEF StarterMoves
  <2>3. op[s] # made + 1 /\ op[t] # made + 1
    BY <1>0
  <2> QED
    BY <1>0, <1>1, <2>1, <2>2, <2>3
<1>2. ASSUME NEW s \in Starters, pc'[s] \in {"task", "claimed", "enter"}
      PROVE  op'[s] \notin launched'
  <2>1. CASE op'[s] = op[s] /\ pc[s] \in {"task", "claimed", "enter"}
    <3>1. ASSUME op[s] \in launched' PROVE FALSE
      <4>1. op[s] \notin launched /\ op[s] \in launched' \ launched
        BY <2>1, <3>1 DEF OwnerInv
      <4>2. PICK t \in Starters : op[s] = op[t] /\ pc'[t] = "work"
        BY <1>0, <4>1 DEF StarterMoves
      <4>3. op[s] # 0
        BY <3>1, TypeStep DEF TypeInv, TypeOK
      <4> QED
        BY <1>2, <4>2, <4>3 DEF OwnerInv
    <3> QED
      BY <2>1, <3>1
  <2>2. CASE op'[s] = made + 1 /\ launched' = launched
    BY <1>0, <2>2
  <2> QED
    BY <1>0, <1>2, <2>1, <2>2 DEF StarterMoves
<1> QED
  BY <1>1, <1>2 DEF OwnerInv

LEMMA LocalInvStep ==
    TypeInv /\ GenInv /\ ReadInv /\ OwnerInv /\ LocalInv /\ [Next]_vars => LocalInv'
<1> SUFFICES ASSUME TypeInv, GenInv, ReadInv, OwnerInv, LocalInv, [Next]_vars,
                    row' \in Rows, LocalCancel(row')
             PROVE  /\ row'.state = "cancelled" /\ row'.id \notin launched'
                    /\ \A s \in Starters :
                         op'[s] = row'.id => pc'[s] \notin {"claimed", "enter", "work"}
  BY DEF LocalInv
<1>0. LocalStep /\ StarterMoves /\ KeepStep
  BY StepOfLocal, StepOfStarters, StepKeeps
<1>a. made \in Nat /\ \A s \in Starters : op[s] \in 0..made
  BY DEF GenInv, TypeInv, TypeOK
<1>1. row \in Rows /\ row.id = row'.id /\ row.id = made /\ made \in 1..MaxOps
  BY <1>0, RowFields DEF LocalStep, GenInv
<1>2. CASE LocalCancel(row)
  <2>1. /\ row.state = "cancelled" /\ row.id \notin launched
        /\ \A s \in Starters : op[s] = row.id => pc[s] \notin {"claimed", "enter", "work"}
    BY <1>1, <1>2 DEF LocalInv
  <2>2. row'.state = "cancelled"
    BY <1>0, <1>1, <2>1 DEF KeepStep, Keeps, Terminal
  <2>3. row'.id \notin launched'
    BY <1>0, <1>1, <2>1 DEF StarterMoves
  <2>4. ASSUME NEW s \in Starters, op'[s] = row'.id
        PROVE  pc'[s] \notin {"claimed", "enter", "work"}
    BY <1>0, <1>a, <1>1, <2>1, <2>4 DEF StarterMoves, Terminal
  <2> QED
    BY <2>2, <2>3, <2>4
<1>3. ASSUME NEW t \in Starters, RunCancelled(t), op[t] = row.id, row'.state = "cancelled"
      PROVE  /\ row'.state = "cancelled" /\ row'.id \notin launched'
             /\ \A s \in Starters :
                  op'[s] = row'.id => pc'[s] \notin {"claimed", "enter", "work"}
  <2>1. /\ pc[t] = "claimed" /\ pc'[t] = "release" /\ launched' = launched
        /\ op' = op
    BY <1>3 DEF RunCancelled, Go, Unstarted, history, TypeInv, TypeOK
  <2>2. op[t] \notin launched
    BY <2>1 DEF OwnerInv
  <2>3. \A s \in Starters : op[s] = op[t] => s = t
    BY <1>1, <1>3 DEF OwnerInv
  <2> QED
    BY <1>1, <1>3, <2>1, <2>2, <2>3
<1> QED
  BY <1>0, <1>1, <1>2, <1>3 DEF LocalStep

LEMMA LocalInvariant == Spec => [](TypeInv /\ GenInv /\ OwnerInv /\ LocalInv)
<1>1. Init => OwnerInv /\ LocalInv
  BY NoRowFacts DEF Init, OwnerInv, LocalInv
<1> QED
  BY <1>1, ReadInvariant, OwnerStep, LocalInvStep, PTL DEF Spec

\* A row that says the producer never started is cancelled, its producer was
\* not called and no starter of it is about to call it.
THEOREM LocalCancelIsTrue == Spec => []LocalCancelNeverLaunched
<1>1. TypeInv /\ LocalInv => LocalCancelNeverLaunched
  <2> SUFFICES ASSUME TypeInv, LocalInv, LocalCancel(row)
               PROVE  /\ row.state = "cancelled"
                      /\ row.id \notin launched
                      /\ \A s \in Starters : op[s] = row.id => pc[s] \notin {"enter", "work"}
    BY DEF LocalCancelNeverLaunched, LocalCancel
  <2>1. row \in Rows
    BY NoRowFacts DEF TypeInv, TypeOK, LocalCancel
  <2> QED
    BY <2>1 DEF LocalInv
<1> QED
  BY <1>1, LocalInvariant, PTL

-----------------------------------------------------------------------------
(***************************************************************************)
(* The leases: who executes an operation, who may record files, and when   *)
(* its source chat may be handed to deletion.  Every step is one of a few  *)
(* kinds as far as leases and files go; each part of the invariant is      *)
(* shown to survive each kind.                                             *)
(***************************************************************************)

\* Who has the lease, and what its holder has seen of the row.

\* A lease is its holder's or its dead process's.
LeaseIsOwned ==
    \A w \in Workers : row # NoRow /\ row.lease = w =>
        \/ Executing(w) /\ op[w] = row.id
        \/ pc[w] = "crashed"

\* With timely heartbeats, who executes an operation has its lease.
ExecutorsHold ==
    Timely => \A w \in Workers : Executing(w) /\ Exists(w) =>
                 row.lease = w /\ row.until > clock

\* Until a worker has recorded what it found, the files on record are the ones
\* it started from, or its lease is lost.
Early == {"claimed", "enter", "work", "observing"}
FilesAreBase ==
    \A w \in Workers : pc[w] \in Early /\ Holds(w) => row.arts = base[w]

\* No files are on record for an operation the provider had nothing for.
EmptyStaysEmpty ==
    /\ empty \subseteq 0..made /\ offered \subseteq 0..made
    /\ row # NoRow /\ row.id \in empty => Known(row.arts) = {}

\* A source that may be offered, or was, belongs to a completed or an empty
\* operation.
ReadyIsDurable ==
    /\ \A w \in Workers : pc[w] = "ready" =>
         op[w] \in empty \/ (Exists(w) => row.state = "completed")
    /\ \A i \in offered : i \in empty \/ (row # NoRow /\ row.id = i => row.state = "completed")

LeaseInv == LeaseIsOwned /\ FilesAreBase /\ EmptyStaysEmpty /\ ReadyIsDurable
TimelyInv == ExecutorsHold /\ (Timely => OneExecutor)

-----------------------------------------------------------------------------
\* The kinds of steps.
Stays(w) == pc'[w] = pc[w] /\ op'[w] = op[w] /\ base'[w] = base[w]
OthersStay(w) == \A v \in Workers : v # w => Stays(v)

\* A write that leaves the lease and the files alone, and completes nothing.
Quiet(r, t) ==
    /\ t \in Rows /\ t.id = r.id /\ t.lease = r.lease /\ t.until = r.until
    /\ t.arts = r.arts
    /\ t.state = "completed" => r.state = "completed"
Calm ==
    /\ row' = row \/ (row \in Rows /\ Quiet(row, row'))
    /\ UNCHANGED <<made, empty>>
Bystanding == Calm /\ UNCHANGED <<clock, offered>> /\ \A w \in Workers : Stays(w)

Ticking ==
    /\ UNCHANGED <<row, made, empty, offered>> /\ clock' = clock + 1
    /\ \A w \in Workers : Stays(w)
    /\ Timely => \A w \in Workers : Executing(w) /\ Holds(w) => row.until > clock + 1
Pruning ==
    /\ row \in Rows /\ row' = NoRow
    /\ UNCHANGED <<clock, made, empty, offered>> /\ \A w \in Workers : Stays(w)
Reserving(s) ==
    /\ row = NoRow /\ row' \in Rows /\ row'.id = made + 1 /\ row'.lease = None
    /\ made' = made + 1 /\ UNCHANGED <<clock, empty, offered>>
    /\ pc[s] = "idle" /\ pc'[s] = "task" /\ OthersStay(s)
Claiming(w) ==
    /\ row \in Rows /\ row' \in Rows /\ row'.id = row.id /\ row'.arts = row.arts
    /\ row'.state = row.state
    /\ row.until <= clock /\ row'.lease = w /\ row'.until = clock + Lease
    /\ UNCHANGED <<clock, made, empty, offered>>
    /\ pc[w] \in {"task", "recover"} /\ pc'[w] \in {"claimed", "work"}
    /\ op'[w] = op[w] /\ op[w] = row.id /\ base'[w] = row.arts /\ OthersStay(w)
Renewing(w) ==
    /\ row \in Rows /\ row' \in Rows /\ row'.id = row.id /\ row'.arts = row.arts
    /\ row'.state = row.state
    /\ row.lease = w /\ row'.lease = w /\ row'.until = clock + Lease
    /\ UNCHANGED <<clock, made, empty, offered>> /\ \A v \in Workers : Stays(v)
Leaving(w) ==
    /\ \/ row' = row /\ (Holds(w) => pc'[w] = "crashed")
       \/ /\ row \in Rows /\ row' \in Rows /\ row'.id = row.id /\ row'.arts = row.arts
          /\ row'.state = row.state /\ row.lease = w /\ row'.lease = None
    /\ UNCHANGED <<clock, made, empty, offered>>
    /\ pc[w] # "crashed" /\ pc'[w] \in {"done", "handle", "crashed"}
    /\ op'[w] = op[w] /\ OthersStay(w)
Outside(w) ==
    /\ Calm /\ UNCHANGED <<clock, offered>>
    /\ ~Executing(w) /\ pc[w] # "crashed" /\ pc'[w] # "ready" /\ ~Executing(w)'
    /\ op'[w] = op[w] \/ pc[w] = "idle"
    /\ OthersStay(w)
Going(w) ==
    /\ Calm /\ UNCHANGED clock
    /\ Executing(w) /\ Executing(w)' /\ pc'[w] # "ready"
    /\ pc'[w] \in Early => pc[w] \in Early
    /\ offered' = offered \/ (pc[w] = "ready" /\ offered' = offered \cup {op[w]})
    /\ op'[w] = op[w] /\ base'[w] = base[w] /\ OthersStay(w)
Recording(w) ==
    /\ pc[w] \in {"observing", "saving"} /\ pc'[w] \in {"ready", "save", "release"}
    /\ Writes(w) /\ UNCHANGED <<clock, made, offered>>
    /\ row \in Rows /\ row' \in Rows /\ row'.id = row.id
    /\ row'.lease = row.lease /\ row'.until = row.until
    /\ op'[w] = op[w] /\ OthersStay(w)
    /\ row'.arts = row.arts \/ \E found \in Found(w) : row'.arts = Merge(seen[w].arts, found)
    /\ \/ empty' = empty
       \/ /\ pc[w] = "observing" /\ empty' = empty \cup {op[w]} /\ NoLocators \in Found(w)
          /\ row'.arts = Merge(seen[w].arts, NoLocators)
    /\ pc'[w] = "ready" =>
         /\ pc[w] = "observing"
         /\ \/ op[w] \in empty'
            \/ \E found \in Found(w) : LET merged == Merge(seen[w].arts, found)
                 IN Usable(found) /\ row'.state = Settle(row.state, ObservedState("completed", merged))

WorkerKind(w) == \/ Claiming(w) \/ Renewing(w) \/ Leaving(w) \/ Outside(w)
                 \/ Going(w) \/ Recording(w)
Kinds == \/ Bystanding \/ Ticking \/ Pruning
         \/ \E s \in Starters : Reserving(s)
         \/ \E w \in Workers : WorkerKind(w)

-----------------------------------------------------------------------------
\* What the writes of the repository do to the lease.
LEMMA UntilFacts ==
    ASSUME NEW r \in Rows
    PROVE  /\ \A st, v : Put(r, st, v).until = r.until
           /\ \A st, arts : PutFiles(r, st, arts).until = r.until
           /\ \A chat, p : SetSource(r, chat, p).until = r.until
           /\ \A chat, p : Noted(r, chat, p).until = r.until
           /\ Started(r).until = r.until
           /\ \A w, time : Leased(r, w, time).until = time
           /\ \A w : Claimed(r, w).until = clock + Lease
BY DEF Put, PutFiles, SetSource, Noted, Started, Leased, Claimed, Rows

LEMMA QuietPut ==
    ASSUME NEW r \in Rows, NEW st \in States \ {"completed"}, NEW v \in Evidence
    PROVE  Quiet(r, Put(r, st, v))
<1>1. r.state \in States /\ Settle(r.state, st) # "completed"
  BY RowFields, SettleFacts
<1> QED
  BY <1>1, PutFacts, UntilFacts DEF Quiet

LEMMA QuietStarted ==
    ASSUME NEW r \in Rows
    PROVE  Quiet(r, Started(r))
<1>1. r.state \in States /\ "running" \in States
  BY RowFields DEF States
<1>2. Settle(r.state, "running") # "completed"
  BY <1>1, SettleFacts
<1> QED
  BY <1>2, StartedFacts, UntilFacts DEF Quiet

LEMMA QuietNoted ==
    ASSUME NEW r \in Rows, NEW chat \in Chats \cup {None}, NEW provider \in BOOLEAN
    PROVE  Quiet(r, Noted(r, chat, provider))
BY NotedFacts, UntilFacts DEF Quiet

\* What the writes that record files leave.
LEMMA FilesRecorded ==
    ASSUME NEW r \in Rows, NEW st \in States, NEW arts \in Locators
    PROVE  LET t == PutFiles(r, ObservedState(st, arts), arts)
           IN  /\ t \in Rows /\ t.id = r.id /\ t.lease = r.lease /\ t.until = r.until
               /\ t.arts = arts /\ t.state = Settle(r.state, ObservedState(st, arts))
<1>1. ObservedState(st, arts) \in States
  BY ObservedFacts
<1> QED
  BY <1>1, PutFilesFacts, UntilFacts

LEMMA ResultRecorded ==
    ASSUME NEW w \in Workers, NEW found \in Locators, NEW st \in ResultStates,
           NEW chat \in Chats \cup {None}, NEW provider \in BOOLEAN,
           row \in Rows, seen[w].arts \in Locators
    PROVE  LET t == Saved(w, st, found, chat, provider)
           IN  /\ t \in Rows /\ t.id = row.id /\ t.lease = row.lease /\ t.until = row.until
               /\ t.arts = row.arts \/ t.arts = Merge(seen[w].arts, found)
<1> DEFINE merged == Merge(seen[w].arts, found)
<1>1. merged \in Locators /\ st \in States
  BY MergeFacts, ConstantsAssumption
<1>2. CASE chat # None /\ seen[w].chat \notin {None, chat}
  <2>1. "failed" \in States /\ "reported" \in Evidence
    BY DEF States, Evidence
  <2>2. Saved(w, st, found, chat, provider) = Put(row, "failed", "reported")
    BY <1>2 DEF Saved
  <2> QED
    BY <2>1, <2>2, PutFacts, UntilFacts
<1>3. CASE ~(chat # None /\ seen[w].chat \notin {None, chat})
  <2> DEFINE t == PutFiles(row, ObservedState(st, merged), merged)
  <2>1. /\ t \in Rows /\ t.id = row.id /\ t.lease = row.lease /\ t.until = row.until
        /\ t.arts = merged
    BY <1>1, FilesRecorded
  <2>2. Saved(w, st, found, chat, provider) = SetSource(t, chat, provider)
    BY <1>3 DEF Saved
  <2> HIDE DEF t, merged
  <2>3. LET u == SetSource(t, chat, provider)
        IN  /\ u \in Rows /\ u.id = t.id /\ u.lease = t.lease /\ u.until = t.until
            /\ u.arts = t.arts
    BY <2>1, SetSourceFacts, UntilFacts
  <2> QED
    BY <2>1, <2>2, <2>3 DEF merged
<1> QED
  BY <1>2, <1>3

\* Every step is of one of the kinds.
LEMMA StepKinds == TypeInv /\ [Next]_vars => Kinds
<1> SUFFICES ASSUME TypeInv, [Next]_vars PROVE Kinds
  OBVIOUS
<1>0. /\ row # NoRow => row \in Rows
      /\ pc \in [Actors -> Phases] /\ op \in [Actors -> 0..MaxOps]
      /\ base \in [Workers -> Locators]
      /\ Workers \cap (Cancellers \cup Observers) = {}
      /\ None \notin Actors
  BY ActorsAssumption DEF TypeInv, TypeOK
<1>a. ASSUME row # NoRow, NEW st \in States \ {"completed"}, NEW v \in Evidence
      PROVE  Quiet(row, Put(row, st, v))
  BY <1>0, <1>a, QuietPut
<1>b. ASSUME row # NoRow PROVE Quiet(row, Started(row))
  BY <1>0, <1>b, QuietStarted
<1> USE DEF WorkerKind, history, Go
<1>1. ASSUME NEW s \in Starters, Reserve(s) PROVE WorkerKind(s) \/ Reserving(s)
  <2>1. CASE KeyTaken
    <3> USE <1>0, <1>1, <2>1 DEF Reserve
    <3>1. pc' = [pc EXCEPT ![s] = "done"] /\ row' = row /\ op' = op /\ base' = base /\ pc[s] = "idle"
      OBVIOUS
    <3> QED
      BY <3>1 DEF Outside, Calm, OthersStay, Stays, Executing
  <2>2. CASE ~KeyTaken
    <3>1. PICK i \in 1..MaxOps : i = made + 1 /\ row' = Accepted(i)
      BY <1>1, <2>2, ConstantsAssumption DEF Reserve, TypeInv, TypeOK
    <3>2. row' \in Rows /\ row'.id = i /\ row'.lease = None
      BY <3>1, AcceptedFacts DEF TypeInv, TypeOK
    <3> QED
      BY <1>0, <1>1, <2>2, <3>1, <3>2 DEF Reserve, KeyTaken, Reserving, OthersStay, Stays
  <2> QED
    BY <2>1, <2>2
<1>2. ASSUME NEW s \in Starters, RunOtherAccount(s) PROVE WorkerKind(s)
  BY <1>0, <1>a, <1>2 DEF RunOtherAccount, Exists, States, Evidence, Outside, Calm, OthersStay, Stays, Executing
<1>c. ASSUME NEW w \in Workers, Exists(w), Claimable, row' = Claimed(row, w)
      PROVE  /\ row \in Rows /\ row' \in Rows /\ row'.id = row.id /\ row'.arts = row.arts
             /\ row'.state = row.state /\ op[w] = row.id
             /\ row.until <= clock /\ row'.lease = w /\ row'.until = clock + Lease
  BY <1>0, <1>c, ClaimedFacts, UntilFacts DEF Exists, Claimable, TypeInv, TypeOK
<1>3. ASSUME NEW s \in Starters, RunClaim(s) PROVE WorkerKind(s)
  <2>1. CASE Exists(s) /\ Claimable
    BY <1>0, <1>c, <1>3, <2>1 DEF RunClaim, Claiming, OthersStay, Stays
  <2>2. CASE ~(Exists(s) /\ Claimable)
    BY <1>0, <1>3, <2>2 DEF RunClaim, Outside, Calm, OthersStay, Stays, Executing
  <2> QED
    BY <2>1, <2>2
<1>4. ASSUME NEW s \in Starters, RunCancelled(s) PROVE WorkerKind(s)
  BY <1>0, <1>a, <1>4 DEF RunCancelled, Writes, Fresh, Exists, Unstarted, States, Evidence, Going, Calm, OthersStay, Stays, Executing, Early
<1>5. ASSUME NEW s \in Starters, RunAccepted(s) PROVE WorkerKind(s)
  BY <1>0, <1>b, <1>5 DEF RunAccepted, Writes, Fresh, Exists, Unstarted, Going, Calm, OthersStay, Stays, Executing, Early
<1>6. ASSUME NEW s \in Starters, RunLaunch(s) PROVE WorkerKind(s)
  BY <1>0, <1>b, <1>6 DEF RunLaunch, Holds, Exists, Going, Calm, OthersStay, Stays, Executing, Early
<1>7. ASSUME NEW s \in Starters, RunDirect(s) PROVE WorkerKind(s)
  BY <1>0, <1>7 DEF RunDirect, Going, Calm, OthersStay, Stays, Executing, Early
<1>8. ASSUME NEW s \in Starters, Raise(s) PROVE WorkerKind(s)
  BY <1>0, <1>8 DEF Raise, Going, Calm, OthersStay, Stays, Executing, Early
<1>9. ASSUME NEW s \in Starters, Handle(s) PROVE WorkerKind(s)
  BY <1>0, <1>9 DEF Handle, Outside, Calm, OthersStay, Stays, Executing
<1>10. ASSUME NEW s \in Starters, HandleWrite(s) PROVE WorkerKind(s)
  BY <1>0, <1>a, <1>10 DEF HandleWrite, Fresh, Exists, States, Evidence, Outside, Calm, OthersStay, Stays, Executing
<1>11. ASSUME NEW r \in Readers, Lookup(r) PROVE WorkerKind(r)
  BY <1>0, <1>11 DEF Lookup, Outside, Calm, OthersStay, Stays, Executing
<1>12. ASSUME NEW r \in Readers, RecoverClaim(r) PROVE WorkerKind(r)
  <2>1. CASE Exists(r) /\ Claimable
    BY <1>0, <1>c, <1>12, <2>1 DEF RecoverClaim, Claiming, OthersStay, Stays
  <2>2. CASE ~(Exists(r) /\ Claimable)
    BY <1>0, <1>12, <2>2 DEF RecoverClaim, Outside, Calm, OthersStay, Stays, Executing
  <2> QED
    BY <2>1, <2>2
<1>13. ASSUME NEW w \in Workers, Abandon(w) PROVE WorkerKind(w)
  BY <1>0, <1>13 DEF Abandon, Going, Calm, OthersStay, Stays, Executing, Early
<1>14. ASSUME NEW w \in Workers, Observe(w) PROVE WorkerKind(w)
  BY <1>0, <1>14 DEF Observe, Going, Calm, OthersStay, Stays, Executing, Early
<1>15. ASSUME NEW w \in Workers, ObserveWrite(w) PROVE WorkerKind(w)
  <2>1. /\ row \in Rows /\ seen[w].arts \in Locators
        /\ Found(w) \subseteq Locators /\ ResultStates \subseteq States
    BY <1>0, <1>15, RowFields, NoRowFacts, ConstantsAssumption
    DEF ObserveWrite, Writes, Fresh, Exists, Found, TypeInv, TypeOK
  <2>2. PICK found \in Found(w), st \in ResultStates \ {"cancelled"}, nothing \in BOOLEAN :
          LET merged  == Merge(seen[w].arts, found)
              desired == ObservedState(st, merged)
          IN  /\ nothing => w \in Starters /\ found = NoLocators /\ st = "failed"
              /\ IF Refused(row.state, desired)
                 THEN Go(w, Unrecorded) /\ UNCHANGED <<row, empty>>
                 ELSE /\ row' = PutFiles(row, desired, merged)
                      /\ empty' = IF nothing THEN empty \cup {op[w]} ELSE empty
                      /\ Go(w, IF nothing \/ (st = "completed" /\ Usable(found))
                               THEN "ready" ELSE "save")
    BY <1>15 DEF ObserveWrite
  <2> DEFINE merged == Merge(seen[w].arts, found)
             desired == ObservedState(st, merged)
  <2>3. /\ pc[w] = "observing" /\ Writes(w) /\ op' = op /\ base' = base
        /\ UNCHANGED <<clock, made, offered>>
    BY <1>15 DEF ObserveWrite
  <2>4. CASE Refused(row.state, desired)
    BY <1>0, <2>2, <2>3, <2>4 DEF Unrecorded, Going, Calm, OthersStay, Stays, Executing, Early
  <2>5. CASE ~Refused(row.state, desired)
    <3>1. /\ row' = PutFiles(row, desired, merged)
          /\ empty' = IF nothing THEN empty \cup {op[w]} ELSE empty
          /\ nothing => found = NoLocators
          /\ pc' = [pc EXCEPT ![w] = IF nothing \/ (st = "completed" /\ Usable(found))
                                     THEN "ready" ELSE "save"]
      BY <2>2, <2>5
    <3>2. merged \in Locators
      BY <2>1, MergeFacts
    <3>3. /\ row' \in Rows /\ row'.id = row.id /\ row'.lease = row.lease
          /\ row'.until = row.until /\ row'.arts = merged
          /\ row'.state = Settle(row.state, desired)
      BY <2>1, <3>1, <3>2, FilesRecorded
    <3>4. OthersStay(w)
      BY <1>0, <2>3, <3>1 DEF OthersStay, Stays
    <3>5. pc'[w] = IF nothing \/ (st = "completed" /\ Usable(found)) THEN "ready" ELSE "save"
      BY <1>0, <3>1
    <3>6. \/ empty' = empty
          \/ /\ empty' = empty \cup {op[w]} /\ NoLocators \in Found(w)
             /\ row'.arts = Merge(seen[w].arts, NoLocators)
      BY <3>1, <3>3
    <3>7. pc'[w] = "ready" =>
            \/ op[w] \in empty'
            \/ Usable(found) /\ row'.state = Settle(row.state, ObservedState("completed", merged))
      BY <3>1, <3>3, <3>5
    <3> QED
      BY <2>1, <2>3, <3>3, <3>4, <3>5, <3>6, <3>7 DEF Recording
  <2> QED
    BY <2>4, <2>5
<1>16. ASSUME NEW w \in Workers, ObserveLost(w) PROVE WorkerKind(w)
  BY <1>0, <1>16 DEF ObserveLost, Unrecorded, Going, Calm, OthersStay, Stays, Executing, Early
<1>17. ASSUME NEW w \in Workers, Offer(w) PROVE WorkerKind(w)
  BY <1>0, <1>17 DEF Offer, Going, Calm, OthersStay, Stays, Executing, Early
<1>18. ASSUME NEW w \in Workers, Return(w) PROVE WorkerKind(w)
  BY <1>0, <1>18 DEF Return, Going, Calm, OthersStay, Stays, Executing, Early
<1>19. ASSUME NEW w \in Workers, Save(w) PROVE WorkerKind(w)
  BY <1>0, <1>19 DEF Save, Going, Calm, OthersStay, Stays, Executing, Early
<1>20. ASSUME NEW w \in Workers, SaveWrite(w) PROVE WorkerKind(w)
  <2>1. /\ pc[w] = "saving" /\ pc' = [pc EXCEPT ![w] = "release"] /\ op' = op /\ base' = base
        /\ UNCHANGED <<clock, made, empty, offered>>
    BY <1>20 DEF SaveWrite
  <2>2. OthersStay(w) /\ pc'[w] = "release"
    BY <1>0, <2>1 DEF OthersStay, Stays
  <2>3. CASE Writes(w)
    <3>1. /\ row \in Rows /\ seen[w].arts \in Locators
          /\ Found(w) \subseteq Locators
      BY <1>0, <2>3, RowFields, NoRowFacts DEF Writes, Fresh, Exists, Found, TypeInv, TypeOK
    <3>2. PICK found \in Found(w), st \in ResultStates,
               chat \in Chats \cup {None}, provider \in BOOLEAN :
                 row' = Saved(w, st, found, chat, provider)
      BY <1>20, <2>3 DEF SaveWrite
    <3>3. /\ row' \in Rows /\ row'.id = row.id /\ row'.lease = row.lease
          /\ row'.until = row.until
          /\ row'.arts = row.arts \/ row'.arts = Merge(seen[w].arts, found)
      BY <3>1, <3>2, ResultRecorded
    <3> QED
      BY <2>1, <2>2, <2>3, <3>1, <3>3 DEF Recording
  <2>4. CASE ~Writes(w)
    BY <1>0, <1>20, <2>1, <2>2, <2>4 DEF SaveWrite, Going, Calm, Executing, Early
  <2> QED
    BY <2>3, <2>4
<1>21. ASSUME NEW w \in Workers, Finish(w) PROVE WorkerKind(w)
  <2>1. /\ UNCHANGED <<clock, made, empty, offered>> /\ op' = op
        /\ pc[w] # "crashed" /\ pc'[w] \in {"done", "handle"} /\ OthersStay(w)
    BY <1>0, <1>21 DEF Finish, Drop, OthersStay, Stays
  <2>2. CASE Holds(w)
    <3>1. row \in Rows /\ row' = Freed(row) /\ row.lease = w
      BY <1>0, <1>21, <2>2 DEF Finish, Release, Holds, Exists
    <3> QED
      BY <2>1, <3>1, FreedFacts DEF Leaving
  <2>3. CASE ~Holds(w)
    BY <1>21, <2>1, <2>3 DEF Finish, Release, Leaving
  <2> QED
    BY <2>2, <2>3
<1>22. ASSUME NEW w \in Workers, Renew(w) PROVE WorkerKind(w)
  <2>1. /\ row \in Rows /\ row' = Leased(row, w, clock + Lease) /\ row.lease = w
        /\ clock + Lease \in Nat
    BY <1>0, <1>22, ConstantsAssumption DEF Renew, Holds, Exists, TypeInv, TypeOK
  <2>2. /\ row' \in Rows /\ row'.id = row.id /\ row'.arts = row.arts
        /\ row'.state = row.state /\ row'.lease = w /\ row'.until = clock + Lease
    BY <2>1, LeasedFacts, UntilFacts
  <2> QED
    BY <1>22, <2>1, <2>2 DEF Renew, Renewing, Stays
<1>23. ASSUME NEW w \in Workers, Crash(w) PROVE WorkerKind(w)
  BY <1>0, <1>23 DEF Crash, Drop, Leaving, OthersStay, Stays
<1>24. ASSUME NEW o \in Observers, Note(o) PROVE Bystanding
  BY <1>0, <1>24 DEF Note, Bystanding, Calm, Stays
<1>25. ASSUME NEW o \in Observers, NoteWrite(o) PROVE Bystanding
  <2>1. row \in Rows
    BY <1>0, <1>25 DEF NoteWrite, Fresh, Exists
  <2>2. row' = row \/ Quiet(row, row')
    BY <1>25, <2>1, QuietNoted DEF NoteWrite
  <2> QED
    BY <1>0, <1>25, <2>1, <2>2 DEF NoteWrite, Bystanding, Calm, Stays
<1>26. ASSUME NEW o \in Observers, NoteLost(o) PROVE Bystanding
  BY <1>0, <1>26 DEF NoteLost, Bystanding, Calm, Stays
<1>27. ASSUME NEW c \in Cancellers, Cancel(c) PROVE Bystanding
  BY <1>0, <1>27 DEF Cancel, Bystanding, Calm, Stays
<1>28. ASSUME NEW c \in Cancellers, CancelRequest(c) PROVE Bystanding
  BY <1>0, <1>a, <1>28 DEF CancelRequest, Fresh, Exists, States, Evidence, Bystanding, Calm, Stays
<1>29. ASSUME NEW c \in Cancellers, CancelConfirmed(c) PROVE Bystanding
  BY <1>0, <1>29 DEF CancelConfirmed, Bystanding, Calm, Stays
<1>30. ASSUME NEW c \in Cancellers, CancelUnconfirmed(c) PROVE Bystanding
  BY <1>0, <1>30 DEF CancelUnconfirmed, Bystanding, Calm, Stays
<1>31. ASSUME NEW c \in Cancellers, CancelWrite(c) PROVE Bystanding
  BY <1>0, <1>a, <1>31 DEF CancelWrite, Fresh, Exists, States, Evidence, Bystanding, Calm, Stays
<1>32. CASE Tick
  BY <1>32 DEF Tick, Kinds, Ticking, Stays
<1>33. CASE Prune
  BY <1>0, <1>33 DEF Prune, Kinds, Pruning, Stays
<1>34. CASE UNCHANGED vars
  BY <1>34 DEF vars, Kinds, Bystanding, Calm, Stays
<1> HIDE DEF WorkerKind, Go, history
<1> QED
  BY <1>1, <1>2, <1>3, <1>4, <1>5, <1>6, <1>7, <1>8, <1>9, <1>10, <1>11, <1>12, <1>13, <1>14, <1>15, <1>16, <1>17, <1>18, <1>19, <1>20, <1>21, <1>22, <1>23, <1>24, <1>25, <1>26, <1>27, <1>28, <1>29, <1>30, <1>31, <1>32, <1>33, <1>34
  DEF Next, StarterStep, ReaderStep, WorkerStep, ObserverStep, CancellerStep, Kinds

-----------------------------------------------------------------------------
(***************************************************************************)
(* The parts of the invariant survive every kind of step.                  *)
(***************************************************************************)

\* Nothing is held and nothing is on record when the service starts.
LEMMA LeaseInit == Init => LeaseInv /\ TimelyInv
<1> SUFFICES ASSUME Init PROVE LeaseInv /\ TimelyInv
  OBVIOUS
<1>1. /\ row = NoRow /\ empty = {} /\ offered = {}
      /\ \A w \in Workers : pc[w] = "idle"
  BY DEF Init
<1> QED
  BY <1>1 DEF LeaseInv, LeaseIsOwned, FilesAreBase, EmptyStaysEmpty, ReadyIsDurable,
     TimelyInv, ExecutorsHold, OneExecutor, Executing, Early, Exists, Holds

LEMMA OwnedStep == TypeInv /\ LeaseIsOwned /\ [Next]_vars => LeaseIsOwned'
<1> SUFFICES ASSUME TypeInv, LeaseIsOwned, [Next]_vars,
                    NEW v \in Workers, row' # NoRow, row'.lease = v
             PROVE  (Executing(v)' /\ op'[v] = row'.id) \/ pc'[v] = "crashed"
  BY DEF LeaseIsOwned
<1>0. Kinds /\ None \notin Workers /\ \A r \in Rows : r # NoRow
  BY StepKinds, ActorsAssumption, NoRowFacts
<1>1. ASSUME Stays(v), row # NoRow, row'.id = row.id, row'.lease = row.lease
      PROVE  (Executing(v)' /\ op'[v] = row'.id) \/ pc'[v] = "crashed"
  BY <1>1 DEF LeaseIsOwned, Stays, Executing
<1>a. Calm => row # NoRow /\ row'.id = row.id /\ row'.lease = row.lease
  BY <1>0 DEF Calm, Quiet
<1>2. CASE Bystanding \/ Ticking
  BY <1>1, <1>2, <1>a DEF Bystanding, Ticking
<1>3. CASE Pruning
  BY <1>3 DEF Pruning
<1>4. ASSUME NEW s \in Starters, Reserving(s)
      PROVE  (Executing(v)' /\ op'[v] = row'.id) \/ pc'[v] = "crashed"
  BY <1>0, <1>4 DEF Reserving
<1>5. ASSUME NEW w \in Workers, WorkerKind(w)
      PROVE  (Executing(v)' /\ op'[v] = row'.id) \/ pc'[v] = "crashed"
  <2>1. CASE Claiming(w)
    BY <2>1 DEF Claiming, Executing
  <2>2. CASE Renewing(w)
    BY <1>0, <1>1, <2>2 DEF Renewing
  <2>3. CASE Leaving(w)
    <3>1. row' = row /\ row # NoRow /\ (Holds(w) => pc'[w] = "crashed")
      BY <1>0, <2>3 DEF Leaving
    <3>2. CASE v # w
      BY <1>1, <2>3, <3>1, <3>2 DEF Leaving, OthersStay
    <3>3. CASE v = w
      BY <2>3, <3>1, <3>3 DEF Leaving, LeaseIsOwned, Holds, Exists
    <3> QED
      BY <3>2, <3>3
  <2>4. CASE Outside(w)
    <3>1. row # NoRow /\ row'.id = row.id /\ row'.lease = row.lease
      BY <1>a, <2>4 DEF Outside
    <3>2. v # w
      BY <2>4, <3>1 DEF Outside, LeaseIsOwned
    <3> QED
      BY <1>1, <2>4, <3>1, <3>2 DEF Outside, OthersStay
  <2>5. CASE Going(w)
    <3>1. row # NoRow /\ row'.id = row.id /\ row'.lease = row.lease
      BY <1>a, <2>5 DEF Going
    <3>2. CASE v # w
      BY <1>1, <2>5, <3>1, <3>2 DEF Going, OthersStay
    <3>3. CASE v = w
      BY <2>5, <3>1, <3>3 DEF Going, LeaseIsOwned, Executing
    <3> QED
      BY <3>2, <3>3
  <2>6. CASE Recording(w)
    BY <2>6 DEF Recording, Writes, Holds, Exists, Executing
  <2> QED
    BY <1>5, <2>1, <2>2, <2>3, <2>4, <2>5, <2>6 DEF WorkerKind
<1> QED
  BY <1>0, <1>2, <1>3, <1>4, <1>5 DEF Kinds

LEMMA FilesStep == TypeInv /\ FilesAreBase /\ [Next]_vars => FilesAreBase'
<1> SUFFICES ASSUME TypeInv, FilesAreBase, [Next]_vars,
                    NEW v \in Workers, pc'[v] \in Early, Holds(v)'
             PROVE  row'.arts = base'[v]
  BY DEF FilesAreBase, Early
<1>0. Kinds /\ None \notin Workers /\ \A r \in Rows : r # NoRow
  BY StepKinds, ActorsAssumption, NoRowFacts
<1>b. row' # NoRow /\ row'.id = op'[v] /\ row'.lease = v
  BY DEF Holds, Exists
<1>1. ASSUME pc[v] \in Early, op'[v] = op[v], base'[v] = base[v],
             row # NoRow, row'.id = row.id, row'.lease = row.lease, row'.arts = row.arts
      PROVE  row'.arts = base'[v]
  BY <1>1, <1>b DEF FilesAreBase, Holds, Exists
<1>a. Calm => row # NoRow /\ row'.id = row.id /\ row'.lease = row.lease /\ row'.arts = row.arts
  BY <1>0, <1>b DEF Calm, Quiet
<1>2. CASE Bystanding \/ Ticking
  BY <1>1, <1>2, <1>a, <1>b DEF Bystanding, Ticking, Stays
<1>3. CASE Pruning
  BY <1>3, <1>b DEF Pruning
<1>4. ASSUME NEW s \in Starters, Reserving(s) PROVE row'.arts = base'[v]
  BY <1>0, <1>4, <1>b DEF Reserving
<1>5. ASSUME NEW w \in Workers, WorkerKind(w) PROVE row'.arts = base'[v]
  <2>1. CASE Claiming(w)
    BY <1>b, <2>1 DEF Claiming
  <2>2. CASE Renewing(w)
    BY <1>0, <1>1, <2>2 DEF Renewing, Stays
  <2>3. CASE Leaving(w)
    <3>1. row' = row /\ v # w
      BY <1>0, <1>b, <2>3 DEF Leaving, Early
    <3> QED
      BY <1>1, <1>b, <2>3, <3>1 DEF Leaving, OthersStay, Stays
  <2>4. CASE Outside(w)
    <3>1. v # w
      BY <2>4 DEF Outside, Executing, Early
    <3> QED
      BY <1>1, <1>a, <2>4, <3>1 DEF Outside, OthersStay, Stays
  <2>5. CASE Going(w)
    BY <1>1, <1>a, <2>5 DEF Going, OthersStay, Stays
  <2>6. CASE Recording(w)
    BY <1>b, <2>6 DEF Recording, Writes, Holds, Early
  <2> QED
    BY <1>5, <2>1, <2>2, <2>3, <2>4, <2>5, <2>6 DEF WorkerKind
<1> QED
  BY <1>0, <1>2, <1>3, <1>4, <1>5 DEF Kinds

LEMMA MergeNothing ==
    ASSUME NEW old \in Locators, Known(old) = {}
    PROVE  Known(Merge(old, NoLocators)) = {}
BY DEF Merge, Known, NoLocators, Locators

\* A worker that records files holds a copy with the content of the row.
LEMMA RecordingFacts ==
    ASSUME TypeInv, ReadInv, FilesAreBase, NEW w \in Workers, Recording(w)
    PROVE  /\ seen[w].arts = row.arts /\ op[w] = row.id /\ row.arts \in Locators
           /\ pc[w] = "observing" => row.arts = base[w]
<1>1. pc[w] \in Reading /\ Fresh(w) /\ Holds(w) /\ row \in Rows
  BY DEF Recording, Writes, Reading
<1>2. SameContent(seen[w], row) /\ row.id = op[w]
  BY <1>1, CopyHolds
<1>3. pc[w] = "observing" => row.arts = base[w]
  BY <1>1 DEF FilesAreBase, Early
<1> QED
  BY <1>1, <1>2, <1>3, RowFields DEF SameContent

LEMMA EmptyStep ==
    TypeInv /\ GenInv /\ ReadInv /\ FilesAreBase /\ EmptyStaysEmpty /\ [Next]_vars
        => EmptyStaysEmpty'
<1> SUFFICES ASSUME TypeInv, GenInv, ReadInv, FilesAreBase, EmptyStaysEmpty, [Next]_vars
             PROVE  EmptyStaysEmpty'
  OBVIOUS
<1>0. /\ Kinds /\ made \in Nat /\ \A r \in Rows : r # NoRow
      /\ empty \subseteq 0..made /\ offered \subseteq 0..made
      /\ \A w \in Workers : op[w] \in 0..made
  BY StepKinds, NoRowFacts DEF EmptyStaysEmpty, GenInv, TypeInv, TypeOK
<1>1. ASSUME row # NoRow => row'.id = row.id /\ row'.arts = row.arts,
             row = NoRow => row' = NoRow,
             UNCHANGED <<made, empty>>, offered' \subseteq 0..made
      PROVE  EmptyStaysEmpty'
  BY <1>0, <1>1 DEF EmptyStaysEmpty
<1>a. Calm => /\ row # NoRow => row'.id = row.id /\ row'.arts = row.arts
              /\ row = NoRow => row' = NoRow
              /\ UNCHANGED <<made, empty>>
  BY <1>0 DEF Calm, Quiet
<1>2. CASE Bystanding \/ Ticking
  BY <1>0, <1>1, <1>2, <1>a DEF Bystanding, Ticking
<1>3. CASE Pruning
  BY <1>0, <1>3 DEF Pruning, EmptyStaysEmpty
<1>4. ASSUME NEW s \in Starters, Reserving(s) PROVE EmptyStaysEmpty'
  <2>1. /\ made' = made + 1 /\ row'.id = made + 1 /\ empty' = empty /\ offered' = offered
    BY <1>4 DEF Reserving
  <2>2. row'.id \notin empty' /\ 0..made \subseteq 0..made'
    BY <1>0, <2>1
  <2> QED
    BY <1>0, <2>1, <2>2 DEF EmptyStaysEmpty
<1>5. ASSUME NEW w \in Workers, WorkerKind(w) PROVE EmptyStaysEmpty'
  <2>1. CASE Claiming(w)
    BY <1>0, <1>1, <2>1 DEF Claiming
  <2>2. CASE Renewing(w)
    BY <1>0, <1>1, <2>2 DEF Renewing
  <2>3. CASE Leaving(w)
    BY <1>0, <1>1, <2>3 DEF Leaving
  <2>4. CASE Outside(w)
    BY <1>0, <1>1, <1>a, <2>4 DEF Outside
  <2>5. CASE Going(w)
    BY <1>0, <1>1, <1>a, <2>5 DEF Going
  <2>6. CASE Recording(w)
    <3>1. /\ seen[w].arts = row.arts /\ op[w] = row.id /\ row.arts \in Locators
          /\ pc[w] = "observing" => row.arts = base[w]
      BY <2>6, RecordingFacts
    <3>2. /\ row \in Rows /\ row'.id = row.id /\ made' = made /\ offered' = offered
          /\ empty' = empty \/ empty' = empty \cup {op[w]}
      BY <2>6 DEF Recording
    <3>3. CASE row.id \in empty
      <4>1. Known(row.arts) = {} /\ Found(w) = {NoLocators}
        BY <1>0, <3>1, <3>2, <3>3 DEF EmptyStaysEmpty, Found
      <4>2. row'.arts = row.arts \/ row'.arts = Merge(row.arts, NoLocators)
        BY <2>6, <3>1, <4>1 DEF Recording
      <4>3. Known(row'.arts) = {}
        BY <3>1, <4>1, <4>2, MergeNothing
      <4> QED
        BY <1>0, <3>2, <4>3 DEF EmptyStaysEmpty
    <3>4. CASE row.id \notin empty /\ empty' = empty
      BY <1>0, <3>2, <3>4 DEF EmptyStaysEmpty
    <3>5. CASE row.id \notin empty /\ empty' # empty
      <4>1. /\ pc[w] = "observing" /\ NoLocators \in Found(w)
            /\ row'.arts = Merge(row.arts, NoLocators)
        BY <2>6, <3>1, <3>5 DEF Recording
      <4>2. Known(row.arts) = {}
        BY <3>1, <3>5, <4>1, NoRowFacts DEF Found
      <4>3. Known(row'.arts) = {}
        BY <3>1, <4>1, <4>2, MergeNothing
      <4> QED
        BY <1>0, <3>2, <4>3 DEF EmptyStaysEmpty
    <3> QED
      BY <3>3, <3>4, <3>5
  <2> QED
    BY <1>5, <2>1, <2>2, <2>3, <2>4, <2>5, <2>6 DEF WorkerKind
<1> QED
  BY <1>0, <1>2, <1>3, <1>4, <1>5 DEF Kinds

\* Files found on top of usable files on record leave usable files on record.
LEMMA MergeUsable ==
    ASSUME NEW old \in Locators, NEW new \in Locators,
           Known(old) \subseteq Known(new), Usable(new)
    PROVE  Usable(Merge(old, new))
<1>1. \A x \in Artifacts : new[x] = "none" => old[x] = "none"
  BY DEF Known
<1>2. \A x \in Artifacts : new[x] # "none" => new[x] = "verified"
  BY DEF Usable, Known
<1>3. \A x \in Artifacts : Merge(old, new)[x] = new[x]
  BY <1>1, <1>2 DEF Merge
<1> QED
  BY <1>3 DEF Usable, Known

\* What becomes ready, becomes offered or reappears as the key's row in a step.
ReadyMoves ==
    /\ empty \subseteq empty'
    /\ row' # NoRow => (row # NoRow /\ row'.id = row.id) \/ row'.id = made + 1
    /\ \A i \in offered' \ offered : \E w \in Workers : pc[w] = "ready" /\ i = op[w]
    /\ \A v \in Workers : pc'[v] = "ready" =>
         (pc[v] = "ready" /\ op'[v] = op[v]) \/ Recording(v)

LEMMA StepOfReady == TypeInv /\ [Next]_vars => ReadyMoves
<1> SUFFICES ASSUME TypeInv, [Next]_vars PROVE ReadyMoves
  OBVIOUS
<1>0. Kinds /\ \A r \in Rows : r # NoRow
  BY StepKinds, NoRowFacts
<1> USE DEF ReadyMoves, Stays, OthersStay
<1>1. CASE Bystanding \/ Ticking
  BY <1>0, <1>1 DEF Bystanding, Ticking, Calm, Quiet
<1>2. CASE Pruning
  BY <1>2 DEF Pruning
<1>3. ASSUME NEW s \in Starters, Reserving(s) PROVE ReadyMoves
  BY <1>3 DEF Reserving
<1>4. ASSUME NEW w \in Workers, WorkerKind(w) PROVE ReadyMoves
  <2>1. CASE Claiming(w)
    BY <1>0, <2>1 DEF Claiming
  <2>2. CASE Renewing(w)
    BY <1>0, <2>2 DEF Renewing
  <2>3. CASE Leaving(w)
    BY <1>0, <2>3 DEF Leaving
  <2>4. CASE Outside(w)
    BY <1>0, <2>4 DEF Outside, Calm, Quiet
  <2>5. CASE Going(w)
    BY <1>0, <2>5 DEF Going, Calm, Quiet
  <2>6. CASE Recording(w)
    <3>1. ASSUME NEW v \in Workers, pc'[v] = "ready"
          PROVE  (pc[v] = "ready" /\ op'[v] = op[v]) \/ Recording(v)
      <4>1. CASE v = w
        BY <2>6, <4>1
      <4>2. CASE v # w
        BY <2>6, <3>1, <4>2 DEF Recording
      <4> QED
        BY <4>1, <4>2
    <3>2. /\ empty \subseteq empty' /\ offered' = offered
          /\ row # NoRow /\ row'.id = row.id
      BY <1>0, <2>6 DEF Recording
    <3> QED
      BY <3>1, <3>2
  <2> QED
    BY <1>4, <2>1, <2>2, <2>3, <2>4, <2>5, <2>6 DEF WorkerKind
<1> QED
  BY <1>0, <1>1, <1>2, <1>3, <1>4 DEF Kinds

LEMMA ReadyStep ==
    TypeInv /\ GenInv /\ ReadInv /\ FilesAreBase /\ EmptyStaysEmpty /\ ReadyIsDurable
        /\ [Next]_vars => ReadyIsDurable'
<1> SUFFICES ASSUME TypeInv, GenInv, ReadInv, FilesAreBase, EmptyStaysEmpty,
                    ReadyIsDurable, [Next]_vars
             PROVE  ReadyIsDurable'
  OBVIOUS
<1>0. /\ ReadyMoves /\ KeepStep /\ made \in Nat /\ offered \subseteq 0..made
      /\ \A w \in Workers : op[w] \in 0..made
      /\ row # NoRow => row \in Rows
      /\ row' # NoRow => row' \in Rows
  BY StepOfReady, StepKeeps, TypeStep DEF EmptyStaysEmpty, GenInv, TypeInv, TypeOK
\* What was durable remains so.
<1>1. ASSUME NEW i \in 0..made,
             i \in empty \/ (row # NoRow /\ row.id = i => row.state = "completed")
      PROVE  i \in empty' \/ (row' # NoRow /\ row'.id = i => row'.state = "completed")
  <2> SUFFICES ASSUME i \notin empty', row' # NoRow, row'.id = i
               PROVE  row'.state = "completed"
    OBVIOUS
  <2>1. i \notin empty /\ i # made + 1
    BY <1>0 DEF ReadyMoves
  <2>2. row # NoRow /\ row'.id = row.id
    BY <1>0, <2>1 DEF ReadyMoves
  <2>3. row.state = "completed"
    BY <1>1, <2>1, <2>2
  <2> QED
    BY <1>0, <2>2, <2>3 DEF KeepStep, Keeps, Terminal
<1>2. ASSUME NEW v \in Workers, pc'[v] = "ready"
      PROVE  op'[v] \in empty' \/ (Exists(v)' => row'.state = "completed")
  <2>1. CASE pc[v] = "ready" /\ op'[v] = op[v]
    <3>1. op[v] \in empty \/ (row # NoRow /\ row.id = op[v] => row.state = "completed")
      BY <2>1 DEF ReadyIsDurable, Exists
    <3> QED
      BY <1>0, <1>1, <2>1, <3>1 DEF Exists
  <2>2. CASE Recording(v)
    <3>1. /\ seen[v].arts = row.arts /\ op[v] = row.id /\ row.arts \in Locators
          /\ pc[v] = "observing" => row.arts = base[v]
      BY <2>2, RecordingFacts
    <3>2. /\ pc[v] = "observing" /\ op'[v] = op[v]
          /\ \/ op[v] \in empty'
             \/ \E found \in Found(v) : LET merged == Merge(seen[v].arts, found)
                  IN Usable(found) /\ row'.state = Settle(row.state, ObservedState("completed", merged))
      BY <1>2, <2>2 DEF Recording
    <3>3. CASE op[v] \in empty
      BY <1>0, <3>2, <3>3 DEF ReadyMoves
    <3>4. ASSUME op[v] \notin empty, NEW found \in Found(v), Usable(found),
                 row'.state = Settle(row.state, ObservedState("completed", Merge(row.arts, found)))
          PROVE  row'.state = "completed"
      <4>1. found \in Locators /\ Known(row.arts) \subseteq Known(found)
        BY <3>1, <3>2, <3>4 DEF Found
      <4>2. Usable(Merge(row.arts, found))
        BY <3>1, <3>4, <4>1, MergeUsable
      <4> QED
        BY <3>4, <4>2 DEF ObservedState, Settle, CancelExits
    <3> QED
      BY <3>1, <3>2, <3>3, <3>4
  <2> QED
    BY <1>0, <1>2, <2>1, <2>2 DEF ReadyMoves
<1>3. ASSUME NEW i \in offered'
      PROVE  i \in empty' \/ (row' # NoRow /\ row'.id = i => row'.state = "completed")
  <2>1. CASE i \in offered
    BY <1>0, <1>1, <2>1 DEF ReadyIsDurable
  <2>2. ASSUME NEW w \in Workers, pc[w] = "ready", i = op[w]
        PROVE  i \in empty' \/ (row' # NoRow /\ row'.id = i => row'.state = "completed")
    <3>1. i \in empty \/ (row # NoRow /\ row.id = i => row.state = "completed")
      BY <2>2 DEF ReadyIsDurable, Exists
    <3> QED
      BY <1>0, <1>1, <2>2, <3>1
  <2> QED
    BY <1>0, <2>1, <2>2 DEF ReadyMoves
<1> QED
  BY <1>2, <1>3 DEF ReadyIsDurable

LEMMA TimelyStep == TypeInv /\ GenInv /\ TimelyInv /\ [Next]_vars => TimelyInv'
<1> SUFFICES ASSUME TypeInv, GenInv, TimelyInv, [Next]_vars, Timely
             PROVE  /\ \A v \in Workers : Executing(v)' /\ Exists(v)' =>
                         row'.lease = v /\ row'.until > clock'
                    /\ OneExecutor'
  BY DEF TimelyInv, ExecutorsHold
<1>0. /\ Kinds /\ made \in Nat /\ clock \in Nat /\ Lease \in Nat \ {0}
      /\ \A r \in Rows : r # NoRow /\ r.until \in Nat
      /\ \A w \in Workers : op[w] \in 0..made
  BY StepKinds, NoRowFacts, RowFields, ConstantsAssumption DEF GenInv, TypeInv, TypeOK
<1>h. /\ \A v \in Workers : Executing(v) /\ Exists(v) => row.lease = v /\ row.until > clock
      /\ OneExecutor
  BY DEF TimelyInv, ExecutorsHold
<1> DEFINE Held == \A v \in Workers : Executing(v)' /\ Exists(v)' =>
                       row'.lease = v /\ row'.until > clock'
\* Nobody starts to execute, and the row and its lease stay.
<1>1. ASSUME \A v \in Workers : Executing(v)' => Executing(v) /\ op'[v] = op[v]
      PROVE  OneExecutor'
  BY <1>1, <1>h DEF OneExecutor
<1>2. ASSUME \A v \in Workers : Executing(v)' => Executing(v) /\ op'[v] = op[v],
             row # NoRow, row'.id = row.id, row'.lease = row.lease, row'.until = row.until,
             clock' = clock
      PROVE  Held
  BY <1>2, <1>h DEF Exists
<1>a. ASSUME Calm, row' # NoRow
      PROVE  row # NoRow /\ row'.id = row.id /\ row'.lease = row.lease /\ row'.until = row.until
  BY <1>0, <1>a DEF Calm, Quiet
<1>b. ASSUME row' = NoRow PROVE Held
  BY <1>b DEF Exists
<1>3. CASE Bystanding
  <2>1. \A v \in Workers : Executing(v)' => Executing(v) /\ op'[v] = op[v]
    BY <1>3 DEF Bystanding, Stays, Executing
  <2> QED
    BY <1>1, <1>2, <1>3, <1>a, <1>b, <2>1 DEF Bystanding
<1>4. CASE Ticking
  <2>1. \A v \in Workers : Executing(v)' => Executing(v) /\ op'[v] = op[v]
    BY <1>4 DEF Ticking, Stays, Executing
  <2>2. Held
    BY <1>4, <1>h, <2>1 DEF Ticking, Exists, Holds
  <2> QED
    BY <1>1, <2>1, <2>2
<1>5. CASE Pruning
  <2>1. \A v \in Workers : Executing(v)' => Executing(v) /\ op'[v] = op[v]
    BY <1>5 DEF Pruning, Stays, Executing
  <2> QED
    BY <1>1, <1>5, <1>b, <2>1 DEF Pruning
<1>6. ASSUME NEW s \in Starters, Reserving(s) PROVE Held /\ OneExecutor'
  <2>1. \A v \in Workers : Executing(v)' => Executing(v) /\ op'[v] = op[v]
    BY <1>6 DEF Reserving, OthersStay, Stays, Executing
  <2>2. row'.id = made + 1
    BY <1>6 DEF Reserving
  <2>3. Held
    BY <1>0, <2>1, <2>2 DEF Exists
  <2> QED
    BY <1>1, <2>1, <2>3
<1>7. ASSUME NEW w \in Workers, WorkerKind(w) PROVE Held /\ OneExecutor'
  <2>1. CASE Claiming(w)
    <3>1. /\ row \in Rows /\ row'.id = row.id /\ row.until <= clock /\ row'.lease = w
          /\ row'.until = clock + Lease /\ clock' = clock
          /\ op'[w] = op[w] /\ op[w] = row.id
          /\ \A v \in Workers : v # w /\ Executing(v)' => Executing(v) /\ op'[v] = op[v]
      BY <2>1 DEF Claiming, OthersStay, Stays, Executing
    <3>2. \A v \in Workers : Executing(v) => op[v] # row.id
      BY <1>0, <1>h, <3>1 DEF Exists
    <3>3. Held
      BY <1>0, <3>1, <3>2 DEF Exists
    <3>4. OneExecutor'
      BY <1>h, <3>1, <3>2 DEF OneExecutor
    <3> QED
      BY <3>3, <3>4
  <2>2. CASE Renewing(w)
    <3>1. \A v \in Workers : Executing(v)' => Executing(v) /\ op'[v] = op[v]
      BY <2>2 DEF Renewing, Stays, Executing
    <3>2. Held
      BY <1>0, <1>h, <2>2, <3>1 DEF Renewing, Exists
    <3> QED
      BY <1>1, <3>1, <3>2
  <2>3. CASE Leaving(w)
    <3>1. \A v \in Workers : Executing(v)' => v # w /\ Executing(v) /\ op'[v] = op[v]
      BY <2>3 DEF Leaving, OthersStay, Stays, Executing
    <3>2. Held
      BY <1>0, <1>h, <2>3, <3>1 DEF Leaving, Exists
    <3> QED
      BY <1>1, <3>1, <3>2
  <2>4. CASE Outside(w)
    <3>1. \A v \in Workers : Executing(v)' => Executing(v) /\ op'[v] = op[v]
      BY <2>4 DEF Outside, OthersStay, Stays, Executing
    <3> QED
      BY <1>1, <1>2, <1>a, <1>b, <2>4, <3>1 DEF Outside
  <2>5. CASE Going(w)
    <3>1. \A v \in Workers : Executing(v)' => Executing(v) /\ op'[v] = op[v]
      BY <2>5 DEF Going, OthersStay, Stays, Executing
    <3> QED
      BY <1>1, <1>2, <1>a, <1>b, <2>5, <3>1 DEF Going
  <2>6. CASE Recording(w)
    <3>1. \A v \in Workers : Executing(v)' => Executing(v) /\ op'[v] = op[v]
      BY <2>6 DEF Recording, OthersStay, Stays, Executing
    <3> QED
      BY <1>0, <1>1, <1>2, <2>6, <3>1 DEF Recording
  <2> QED
    BY <1>7, <2>1, <2>2, <2>3, <2>4, <2>5, <2>6 DEF WorkerKind
<1> QED
  BY <1>0, <1>3, <1>4, <1>5, <1>6, <1>7 DEF Kinds

-----------------------------------------------------------------------------
(***************************************************************************)
(* The theorems.                                                           *)
(***************************************************************************)

\* In every reachable state a lease is its executing holder's or a dead
\* process's, files are recorded on top of the ones its holder started from,
\* and a source is ready for deletion only when nothing can be lost by it.
THEOREM LeaseInvariant == Spec => []LeaseInv
<1>1. TypeInv /\ GenInv /\ ReadInv /\ LeaseInv /\ [Next]_vars => LeaseInv'
  BY OwnedStep, FilesStep, EmptyStep, ReadyStep DEF LeaseInv
<1> QED
  BY <1>1, ReadInvariant, LeaseInit, PTL DEF Spec

LEMMA TimelyInvariant == Spec => []TimelyInv
BY GenInvariant, LeaseInit, TimelyStep, PTL DEF Spec

\* A call that returned holds no lease: whichever of its ends it took, and
\* whatever the other clients wrote to the row in between.
THEOREM LeasesAreGivenBack == Spec => []NoLeaseLeak
<1>1. LeaseInv => NoLeaseLeak
  BY DEF LeaseInv, LeaseIsOwned, NoLeaseLeak, Holds, Exists, Executing
<1> QED
  BY <1>1, LeaseInvariant, PTL

\* A source chat that was handed to deletion belongs to an operation whose row
\* is complete with verified files, or that the provider had nothing for; no
\* late write, recovery or cancellation takes that back.
THEOREM OfferedSourcesAreDurable == Spec => []OfferedIsDurable
<1>1. LeaseInv /\ CompletedIsUsable => OfferedIsDurable
  BY DEF LeaseInv, ReadyIsDurable, EmptyStaysEmpty, CompletedIsUsable, OfferedIsDurable
<1> QED
  BY <1>1, LeaseInvariant, CompletionNeedsFiles, PTL

\* While heartbeats are timely, two clients never execute one operation at
\* once: a start, its recoveries and the retries of other processes exclude
\* each other through the lease.
THEOREM OneExecutes ==
    ASSUME Timely
    PROVE  Spec => []OneExecutor
<1>1. TimelyInv => OneExecutor
  BY DEF TimelyInv
<1> QED
  BY <1>1, TimelyInvariant, PTL

\* Files and completion reach the row only through a worker that holds its
\* lease and is at the step that records them.
THEOREM OnlyHoldersComplete == Spec => OnlyHolderCompletes
<1> DEFINE Completes ==
      SameRow /\ (row'.arts # row.arts \/ (row'.state = "completed" /\ row.state # "completed"))
        => \E w \in Workers : Holds(w) /\ op[w] = row.id /\ pc'[w] # pc[w]
<1>1. TypeInv /\ [Next]_vars => Completes
  <2> SUFFICES ASSUME TypeInv, [Next]_vars, SameRow,
                      row'.arts # row.arts \/ (row'.state = "completed" /\ row.state # "completed")
               PROVE  \E w \in Workers : Holds(w) /\ op[w] = row.id /\ pc'[w] # pc[w]
    OBVIOUS
  <2>1. Kinds /\ row # NoRow /\ row'.id = row.id /\ NoRow.id \notin 1..MaxOps
        /\ row \in Rows /\ row.id \in 1..MaxOps
    BY StepKinds, NoRowFacts, RowFields DEF SameRow, TypeInv, TypeOK
  <2>2. ~Calm
    BY DEF Calm, Quiet
  <2>3. PICK w \in Workers : Recording(w)
    BY <2>1, <2>2 DEF Kinds, Bystanding, Ticking, Pruning, Reserving, WorkerKind,
       Claiming, Renewing, Leaving, Outside, Going
  <2>4. Holds(w) /\ op[w] = row.id /\ pc'[w] # pc[w]
    BY <2>3 DEF Recording, Writes, Holds, Exists
  <2> QED
    BY <2>4
<1>2. Spec => []TypeInv
  BY TypeInit, TypeStep, PTL DEF Spec
<1> QED
  BY <1>1, <1>2, PTL DEF Spec, OnlyHolderCompletes

=============================================================================
