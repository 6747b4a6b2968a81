------------------------- MODULE CallEffectsProofs -------------------------
(***************************************************************************)
(* Theorems about Calls, for every value of its constants: what a creation *)
(* does with the media it made, what a write leaves in the account, and    *)
(* what is deleted of it.                                                  *)
(***************************************************************************)
EXTENDS Calls, TLAPS, FiniteSetTheorems, SequenceTheorems

-----------------------------------------------------------------------------
(* The outputs of a media request.  Of its cells, c4 is ready, c5 gone, c6  *)
(* file, c7 vanished, c8 row, c9 call, c10 step, c11 resp, c12 obs, c13     *)
(* todo, c14 failures, c15 error and c16 seen.                             *)

CreationPart == part = "creation" => C!Inv

(* An artifact is one of five.                                             *)
LEMMA CreationArtifacts ==
    ASSUME NEW a \in C!Artifacts
    PROVE  \/ a = C!Absent \/ a = C!Remote
           \/ a = [state |-> "failed", verified |-> FALSE, path |-> TRUE]
           \/ a = [state |-> "local", verified |-> FALSE, path |-> TRUE]
           \/ a = [state |-> "local", verified |-> TRUE, path |-> TRUE]
BY DEF C!Artifacts, C!Bytes, C!Probe

LEMMA CreationKinds ==
    /\ C!Absent \in C!Artifacts /\ C!Remote \in C!Artifacts
    /\ [state |-> "failed", verified |-> FALSE, path |-> TRUE] \in C!Artifacts
    /\ [state |-> "local", verified |-> FALSE, path |-> TRUE] \in C!Artifacts
    /\ [state |-> "local", verified |-> TRUE, path |-> TRUE] \in C!Artifacts
    /\ \A bytes \in C!Bytes : /\ C!Probe(bytes) \in C!Artifacts /\ C!Probe(bytes) # C!Absent
                             /\ C!Probe(bytes).verified = (bytes = "good")
<1>1. \A bytes \in C!Bytes : C!Probe(bytes) \in C!Artifacts
  BY DEF C!Artifacts
<1>2. \A bytes \in C!Bytes : /\ C!Probe(bytes) # C!Absent
                            /\ C!Probe(bytes).verified = (bytes = "good")
  BY DEF C!Probe, C!Absent
<1>3. /\ C!Probe("bad") = [state |-> "failed", verified |-> FALSE, path |-> TRUE]
      /\ C!Probe("opaque") = [state |-> "local", verified |-> FALSE, path |-> TRUE]
      /\ C!Probe("good") = [state |-> "local", verified |-> TRUE, path |-> TRUE]
  BY DEF C!Probe
<1> QED
  BY <1>1, <1>2, <1>3 DEF C!Artifacts, C!Bytes

LEMMA CreationVerified ==
    ASSUME NEW a \in C!Artifacts
    PROVE  /\ a.verified \in BOOLEAN /\ a.path \in BOOLEAN
           /\ a.state \in {"absent", "remote", "failed", "local"}
           /\ a.verified => a.state = "local" /\ a.path
           /\ a.state = "absent" <=> a = C!Absent
           /\ a = C!Absent => ~a.verified
<1>1. CASE a = C!Absent
  BY <1>1 DEF C!Absent
<1>2. CASE a = C!Remote
  BY <1>2 DEF C!Absent, C!Remote
<1>3. CASE a = [state |-> "failed", verified |-> FALSE, path |-> TRUE]
  BY <1>3 DEF C!Absent
<1>4. CASE a = [state |-> "local", verified |-> FALSE, path |-> TRUE]
  BY <1>4 DEF C!Absent
<1>5. CASE a = [state |-> "local", verified |-> TRUE, path |-> TRUE]
  BY <1>5 DEF C!Absent
<1> QED
  BY <1>1, <1>2, <1>3, <1>4, <1>5, CreationArtifacts

LEMMA CreationRank ==
    ASSUME NEW a \in C!Artifacts
    PROVE  /\ C!Rank(a) \in 0..3
           /\ C!Rank(a) = 3 <=> a.state = "local"
           /\ C!Rank(a) = 2 <=> a = C!Remote
           /\ C!Rank(a) = 0 <=> a = C!Absent
<1>1. CASE a = C!Absent
  BY <1>1 DEF C!Absent, C!Remote, C!Rank
<1>2. CASE a = C!Remote
  BY <1>2 DEF C!Absent, C!Remote, C!Rank
<1>3. CASE a = [state |-> "failed", verified |-> FALSE, path |-> TRUE]
  BY <1>3 DEF C!Absent, C!Remote, C!Rank
<1>4. CASE a = [state |-> "local", verified |-> FALSE, path |-> TRUE]
  BY <1>4 DEF C!Absent, C!Remote, C!Rank
<1>5. CASE a = [state |-> "local", verified |-> TRUE, path |-> TRUE]
  BY <1>5 DEF C!Absent, C!Remote, C!Rank
<1> QED
  BY <1>1, <1>2, <1>3, <1>4, <1>5, CreationArtifacts

(* A merge keeps what is verified from a remote listing, makes nothing of   *)
(* something, and verifies only what one of the two was.                   *)
LEMMA CreationMerge ==
    ASSUME NEW a \in C!Artifacts, NEW b \in C!Artifacts
    PROVE  /\ C!MergeArtifact(a, b) \in C!Artifacts
           /\ a # C!Absent \/ b # C!Absent => C!MergeArtifact(a, b) # C!Absent
           /\ b = C!Remote => C!MergeArtifact(a, b).verified = a.verified
           /\ ~a.verified => C!MergeArtifact(a, b).verified = b.verified
<1> DEFINE better == IF C!Rank(b) >= C!Rank(a) THEN b ELSE a
           other == IF C!Rank(b) >= C!Rank(a) THEN a ELSE b
<1>1. C!MergeArtifact(a, b) = [better EXCEPT !.path = @ \/ (other.path /\ other.state = "local")]
  BY DEF C!MergeArtifact
<1>2. better \in C!Artifacts /\ (other.state = "local" => better.state = "local")
  BY CreationRank
<1>3. other.state = "local" => better.path
  BY <1>2, CreationArtifacts DEF C!Absent, C!Remote
<1> HIDE DEF better, other
<1>4. \A path \in BOOLEAN : path = better.path => [better EXCEPT !.path = path] = better
  BY <1>2, CreationArtifacts DEF C!Absent, C!Remote
<1>5. better.path \in BOOLEAN
  BY <1>2, CreationVerified
<1>6. (better.path \/ (other.path /\ other.state = "local")) = better.path
  BY <1>3, <1>5
<1>7. C!MergeArtifact(a, b) = better
  BY <1>1, <1>4, <1>5, <1>6
<1>8. /\ a # C!Absent \/ b # C!Absent => better # C!Absent
      /\ b = C!Remote => better.verified = a.verified
      /\ ~a.verified => better.verified = b.verified
  <2>1. /\ C!Rank(a) \in 0..3 /\ (a.verified => C!Rank(a) = 3) /\ (C!Rank(a) = 0 <=> a = C!Absent)
        /\ C!Rank(b) \in 0..3 /\ (b.verified => C!Rank(b) = 3) /\ (C!Rank(b) = 0 <=> b = C!Absent)
        /\ (b = C!Remote => C!Rank(b) = 2)
    BY CreationRank, CreationVerified
  <2>2. a.verified \in BOOLEAN /\ b.verified \in BOOLEAN /\ (b = C!Remote => ~b.verified)
    BY CreationVerified DEF C!Remote
  <2>3. a # C!Absent \/ b # C!Absent => better # C!Absent
    BY <2>1 DEF better
  <2>4. b = C!Remote => better.verified = a.verified
    BY <2>1, <2>2 DEF better
  <2>5. ~a.verified => better.verified = b.verified
    BY <2>1, <2>2 DEF better
  <2> QED
    BY <2>3, <2>4, <2>5
<1> QED
  BY <1>2, <1>7, <1>8

LEMMA CreationLocator ==
    ASSUME NEW a \in C!Artifacts, NEW b \in C!Artifacts
    PROVE  /\ C!MergeLocator(a, b) \in {a, b}
           /\ b.verified => C!MergeLocator(a, b).verified
           /\ a # C!Absent \/ b # C!Absent => C!MergeLocator(a, b) # C!Absent
           /\ b = C!Absent => C!MergeLocator(a, b) = a
BY CreationVerified DEF C!MergeLocator

(* What a completed attempt holds.                                         *)
LEMMA CreationCompleted ==
    ASSUME C!Typed, C!Outcome = "completed"
    PROVE  /\ ~c15 /\ ~c11.queued
           /\ \A o \in C!Outputs : c12[o] # C!Absent => c12[o].verified
           /\ \E o \in C!Required : c12[o].verified
<1>1. \A o \in C!Outputs : c12[o] \in C!Artifacts
  BY DEF C!Typed
<1>2. ~c15 /\ ~c11.queued /\ C!State \notin {"empty", "failed"} /\ \A o \in C!Observed : C!Saved(o)
  BY DEF C!Outcome
<1>3. \A o \in C!Outputs : c12[o] # C!Absent => c12[o].verified
  BY <1>2 DEF C!Observed, C!Saved
<1>4. C!Required \subseteq C!Outputs
  BY DEF C!Required, C!Outputs
<1>5. PICK o \in C!Required : c12[o].state \in {"local", "remote"}
  BY <1>2 DEF C!State, C!Decisive
<1>6. c12[o] # C!Absent
  BY <1>5 DEF C!Absent
<1> QED
  BY <1>2, <1>3, <1>4, <1>5, <1>6

LEMMA CreationDisposable ==
    ASSUME C!Typed, ~C!RequiresRecovery
    PROVE  /\ ~c14 /\ ~c15 /\ ~c11.queued
           /\ C!Outcome = "completed" \/ \A o \in C!Outputs : c12[o] = C!Absent
<1>1. ~c14 /\ ~c15 /\ ~c11.queued /\ C!State \in {"empty", "local"}
  BY DEF C!RequiresRecovery
<1>2. CASE C!State = "empty"
  BY <1>2 DEF C!RequiresRecovery, C!Observed
<1>3. CASE C!State = "local"
  BY <1>1, <1>3 DEF C!RequiresRecovery, C!Outcome
<1> QED
  BY <1>1, <1>2, <1>3

LEMMA CreationRecorded ==
    ASSUME C!Typed, NEW state \in {"running", "failed", "queued", "partial", "completed"}
    PROVE  /\ C!Recorded(state) \in
                [source: BOOLEAN, loc: [C!Outputs -> C!Artifacts],
                 state: {"running", "failed", "queued", "partial", "completed"}]
           /\ C!Recorded(state).source = c8.source
           /\ \A o \in C!Outputs : C!Recorded(state).loc[o] = C!MergeLocator(c8.loc[o], c12[o])
           /\ C!Recorded(state).state = "completed" => state = "completed"
           /\ (/\ state = "completed"
               /\ \A o \in C!Outputs : c8.loc[o] # C!Absent => c12[o] # C!Absent
               /\ \A o \in C!Outputs : c12[o] # C!Absent => c12[o].verified
               /\ \E o \in C!Outputs : c12[o].verified) => C!Recorded(state).state = "completed"
<1> DEFINE locs == C!Locators(c8.loc, c12)
           whole == {o \in C!Outputs : locs[o] # C!Absent}
           sound == whole # {} /\ \A o \in whole : locs[o].state = "local" /\ locs[o].verified
           next == IF state = "completed" /\ ~sound
                   THEN IF whole # {} THEN "partial" ELSE "running" ELSE state
<1>1. /\ c8.loc \in [C!Outputs -> C!Artifacts] /\ c12 \in [C!Outputs -> C!Artifacts]
      /\ c8 \in [source: BOOLEAN, loc: [C!Outputs -> C!Artifacts],
                 state: {"running", "failed", "queued", "partial", "completed"}]
  BY DEF C!Typed
<1>2. \A o \in C!Outputs : locs[o] = C!MergeLocator(c8.loc[o], c12[o])
  BY DEF C!Locators
<1>3. locs \in [C!Outputs -> C!Artifacts]
  <2>1. \A o \in C!Outputs : C!MergeLocator(c8.loc[o], c12[o]) \in C!Artifacts
    BY <1>1, CreationLocator
  <2> QED
    BY <2>1 DEF C!Locators
<1>4. C!Recorded(state) = [c8 EXCEPT !.loc = locs, !.state = next]
  BY DEF C!Recorded
<1>5. next \in {"running", "failed", "queued", "partial", "completed"} /\ (next = "completed" => state = "completed")
  OBVIOUS
<1>6. (/\ state = "completed"
       /\ \A o \in C!Outputs : c8.loc[o] # C!Absent => c12[o] # C!Absent
       /\ \A o \in C!Outputs : c12[o] # C!Absent => c12[o].verified
       /\ \E o \in C!Outputs : c12[o].verified) => sound
  <2> SUFFICES ASSUME \A o \in C!Outputs : c8.loc[o] # C!Absent => c12[o] # C!Absent,
                      \A o \in C!Outputs : c12[o] # C!Absent => c12[o].verified,
                      NEW p \in C!Outputs, c12[p].verified
               PROVE  sound
    OBVIOUS
  <2>1. locs[p].verified /\ locs[p] # C!Absent
    BY <1>1, <1>2, CreationLocator, CreationVerified
  <2>2. \A o \in C!Outputs : locs[o] # C!Absent => locs[o].verified
    BY <1>1, <1>2, CreationLocator
  <2>3. \A o \in C!Outputs : locs[o].verified => locs[o].state = "local"
    BY <1>3, CreationVerified
  <2> HIDE DEF locs
  <2> QED
    BY <2>1, <2>2, <2>3
<1> HIDE DEF locs, sound, whole
<1>7. next = IF state = "completed" /\ ~sound
             THEN IF whole # {} THEN "partial" ELSE "running" ELSE state
  OBVIOUS
<1> HIDE DEF next
<1> QED
  BY <1>1, <1>2, <1>3, <1>4, <1>5, <1>6, <1>7

LEMMA CreationInit == C!Init => C!Inv
<1> SUFFICES ASSUME C!Init
             PROVE  C!Inv
  OBVIOUS
<1>1. C!Nothing \in [C!Outputs -> C!Artifacts] /\ \A o \in C!Outputs : C!Nothing[o] = C!Absent
  BY CreationKinds DEF C!Nothing
<1>2. C!Typed
  <2>1. c6 \in [C!Outputs -> C!Bytes]
    BY DEF C!Init, C!Bytes
  <2>2. c8 \in [source: BOOLEAN, loc: [C!Outputs -> C!Artifacts],
                state: {"running", "failed", "queued", "partial", "completed"}]
    BY <1>1 DEF C!Init
  <2>3. /\ c9 \in [kind: {"generate", "recover"}, before: Nat]
        /\ c11 \in [chat: BOOLEAN, listed: SUBSET C!Outputs, queued: BOOLEAN]
    BY DEF C!Init, C!NoReply
  <2>4. c3 \subseteq C!Outputs
    BY DEF C!Init, C!Relevant, C!Outputs
  <2> QED
    BY <1>1, <2>1, <2>2, <2>3, <2>4 DEF C!Init, C!Typed
<1>3. C!SeenByPlace /\ C!ObservedByPlace
  BY <1>1 DEF C!Init, C!SeenByPlace, C!ObservedByPlace, C!NoReply, C!Nothing, C!Absent
<1>4. C!RecordedByPlace /\ C!OutputBeforeDisposal /\ C!RecoveryHoldsOutput /\ C!CompletedIsWhole
  BY DEF C!Init, C!RecordedByPlace, C!OutputBeforeDisposal, C!RecoveryHoldsOutput,
    C!CompletedIsWhole
<1> QED
  BY <1>2, <1>3, <1>4 DEF C!Inv

(* A step that neither records, saves nor disposes of anything: what was    *)
(* true of the chat, the row and the files stays true.                     *)
LEMMA CreationQuiet ==
    ASSUME C!Inv, UNCHANGED <<c1, c5, c6, c7>>, c8'.loc = c8.loc, c8'.state = c8.state,
           c8.state = "completed" \/ (c5 # "no" /\ C!Tracked) => c16' = c16,
           ~C!Tracked /\ c5 # "no" => c16' = c16,
           c10' = "dispose" /\ C!Tracked => c15',
           c8.state = "completed" => c10' \in {"finish", "ended"},
           c5 # "no" => c10' \in {"finish", "ended"} \/ c9'.kind = "recover",
           c5 # "no" /\ c10' \in {"materialize", "save"} => c11'.listed = {}
    PROVE  /\ C!RecordedByPlace' /\ C!OutputBeforeDisposal' /\ C!RecoveryHoldsOutput'
           /\ C!CompletedIsWhole'
<1> USE DEF C!Inv
<1>1. C!RecordedByPlace'
  BY DEF C!RecordedByPlace, C!Tracked
<1>2. C!OutputBeforeDisposal'
  BY DEF C!OutputBeforeDisposal, C!Kept, C!Tracked
<1>3. C!RecoveryHoldsOutput'
  BY DEF C!RecoveryHoldsOutput, C!Required
<1>4. C!CompletedIsWhole'
  BY DEF C!CompletedIsWhole, C!Kept, C!Required
<1> QED
  BY <1>1, <1>2, <1>3, <1>4

LEMMA CreationStarts ==
    ASSUME C!Inv, C!NotStarted \/ C!Reply \/ C!RequestFails
    PROVE  C!Inv'
<1> USE DEF C!Inv
<1>1. /\ UNCHANGED <<c1, c2, c3, c4, c5, c6, c7, c9, c12, c13, c14>> /\ c10 = "start"
      /\ c10' \in {"finish", "materialize", "record"}
      /\ c15' \in {c15, TRUE} /\ (c10' # "materialize" => c15')
      /\ c8' \in {c8, [c8 EXCEPT !.source = C!Tracked]}
  BY DEF C!NotStarted, C!Reply, C!RequestFails, C!world
<1>2. /\ c16 = {} /\ c11 = C!NoReply /\ c12 = C!Nothing /\ ~c15 /\ ~c14 /\ c5 = "no"
      /\ c9.kind = "generate" /\ c8.loc = C!Nothing /\ c8.state # "completed"
  BY <1>1 DEF C!SeenByPlace, C!ObservedByPlace, C!RecordedByPlace
<1>3. /\ c11' \in [chat: BOOLEAN, listed: SUBSET C!Outputs, queued: BOOLEAN]
      /\ c16' = c11'.listed /\ c16' \subseteq c4
  <2>1. CASE C!Reply
    <3>1. PICK r \in C!Replies : c11' = r /\ c16' = c16 \cup r.listed
      BY <2>1 DEF C!Reply
    <3>2. r \in [chat: BOOLEAN, listed: SUBSET C!Outputs, queued: BOOLEAN] /\ r.listed \subseteq c4
      BY <3>1 DEF C!Replies, C!Typed
    <3> QED
      BY <1>2, <3>1, <3>2
  <2>2. CASE C!NotStarted \/ C!RequestFails
    <3>1. c11' \in {c11, [C!NoReply EXCEPT !.chat = TRUE]} /\ c16' = c16
      BY <2>2 DEF C!NotStarted, C!RequestFails
    <3>2. /\ C!NoReply \in [chat: BOOLEAN, listed: SUBSET C!Outputs, queued: BOOLEAN]
          /\ C!NoReply.listed = {}
      BY DEF C!NoReply
    <3>3. c11' \in [chat: BOOLEAN, listed: SUBSET C!Outputs, queued: BOOLEAN] /\ c11'.listed = {}
      BY <3>1, <1>2, <3>2
    <3> QED
      BY <1>2, <3>1, <3>3
  <2> QED
    BY <2>1, <2>2
<1>4. /\ c8' \in [source: BOOLEAN, loc: [C!Outputs -> C!Artifacts],
                  state: {"running", "failed", "queued", "partial", "completed"}]
      /\ c8'.loc = c8.loc /\ c8'.state = c8.state
  BY <1>1 DEF C!Typed, C!Tracked
<1>5. C!Typed'
  <2>1. c15' \in BOOLEAN
    BY <1>1 DEF C!Typed
  <2>2. c16' \subseteq C!Outputs
    BY <1>3
  <2> QED
    BY <1>1, <1>3, <1>4, <2>1, <2>2 DEF C!Typed
<1>6. C!SeenByPlace'
  BY <1>1, <1>2, <1>3 DEF C!SeenByPlace
<1>7. C!ObservedByPlace'
  BY <1>1, <1>2, <1>4 DEF C!ObservedByPlace, C!Nothing
<1>8. C!RecordedByPlace' /\ C!OutputBeforeDisposal' /\ C!RecoveryHoldsOutput' /\ C!CompletedIsWhole'
  BY <1>1, <1>2, <1>4, CreationQuiet
<1> QED
  BY <1>5, <1>6, <1>7, <1>8

(* What was observed, with what a reply lists.                             *)
LEMMA CreationListed ==
    ASSUME C!Typed, NEW outputs \in SUBSET C!Outputs,
           c12' = C!Merged(c12, C!Listed(outputs))
    PROVE  /\ c12' \in [C!Outputs -> C!Artifacts]
           /\ \A o \in C!Outputs : /\ c12'[o].verified = c12[o].verified
                                   /\ c12[o] # C!Absent => c12'[o] # C!Absent
                                   /\ o \in outputs => c12'[o] # C!Absent
<1>1. \A o \in C!Outputs : c12[o] \in C!Artifacts
  BY DEF C!Typed
<1>2. \A o \in C!Outputs : /\ c12'[o] = IF o \in outputs THEN C!MergeArtifact(c12[o], C!Remote)
                                                         ELSE c12[o]
  BY DEF C!Merged, C!Listed, C!Absent, C!Remote
<1>3. c12' = [o \in C!Outputs |-> c12'[o]]
  BY DEF C!Merged
<1>4. C!Remote \in C!Artifacts /\ C!Remote # C!Absent
  BY CreationKinds DEF C!Remote, C!Absent
<1>5. \A o \in C!Outputs : /\ c12'[o] \in C!Artifacts
                           /\ c12'[o].verified = c12[o].verified
                           /\ c12[o] # C!Absent => c12'[o] # C!Absent
                           /\ o \in outputs => c12'[o] # C!Absent
  BY <1>1, <1>2, <1>4, CreationMerge
<1> QED
  BY <1>3, <1>5

LEMMA CreationReads ==
    ASSUME C!Inv, C!ReadBack
    PROVE  C!Inv'
<1> USE DEF C!Inv
<1>1. /\ UNCHANGED <<c1, c2, c3, c4, c5, c6, c7, c8, c9, c13, c14>> /\ c10 = "read"
  BY DEF C!ReadBack, C!world
<1>2. ~c14 /\ c8.state # "completed" /\ (c5 # "no" => c9.kind = "recover")
  BY <1>1 DEF C!SeenByPlace, C!RecordedByPlace
<1>3. CASE c15' = TRUE /\ c10' = "finish" /\ UNCHANGED <<c11, c12, c16>>
  <2>1. C!Typed'
    BY <1>1, <1>3 DEF C!Typed
  <2>2. C!SeenByPlace' /\ C!ObservedByPlace'
    BY <1>1, <1>3 DEF C!SeenByPlace, C!ObservedByPlace, C!Tracked
  <2>3. C!RecordedByPlace' /\ C!OutputBeforeDisposal' /\ C!RecoveryHoldsOutput' /\ C!CompletedIsWhole'
    BY <1>1, <1>2, <1>3, CreationQuiet
  <2> QED
    BY <2>1, <2>2, <2>3
<1>4. CASE \E r \in IF c5 # "no" THEN {C!Pending} ELSE C!Replies \cup {C!Pending} :
             /\ c11' = r /\ c16' = c16 \cup r.listed
             /\ c12' = C!Merged(c12, C!Listed(r.listed))
             /\ c10' = "materialize" /\ UNCHANGED c15
  <2>1. PICK r \in IF c5 # "no" THEN {C!Pending} ELSE C!Replies \cup {C!Pending} :
             /\ c11' = r /\ c16' = c16 \cup r.listed
             /\ c12' = C!Merged(c12, C!Listed(r.listed))
             /\ c10' = "materialize" /\ UNCHANGED c15
    BY <1>4
  <2>2. /\ r \in [chat: BOOLEAN, listed: SUBSET C!Outputs, queued: BOOLEAN]
        /\ r.listed \in {c4, {}} /\ (c5 # "no" => r.listed = {})
    <3>1. CASE r \in C!Replies /\ c5 = "no"
      BY <3>1 DEF C!Replies, C!Typed
    <3>2. CASE r = C!Pending
      BY <3>2 DEF C!Pending
    <3> QED
      BY <2>1, <3>1, <3>2
  <2>3. /\ c12' \in [C!Outputs -> C!Artifacts]
        /\ \A o \in C!Outputs : /\ c12'[o].verified = c12[o].verified
                                /\ c12[o] # C!Absent => c12'[o] # C!Absent
    BY <2>1, <2>2, CreationListed
  <2>4. c16 \subseteq c4 /\ c4 \subseteq C!Outputs
    BY DEF C!SeenByPlace, C!Typed
  <2>5. C!Typed'
    BY <1>1, <2>1, <2>2, <2>3, <2>4 DEF C!Typed
  <2>6. c9.kind = "recover"
    BY <1>1 DEF C!SeenByPlace
  <2>7. C!SeenByPlace'
    BY <1>1, <1>2, <2>1, <2>2, <2>4, <2>6 DEF C!SeenByPlace
  <2>8. C!ObservedByPlace'
    BY <1>1, <2>1, <2>3, <2>6 DEF C!ObservedByPlace, C!Tracked
  <2>9. C!RecordedByPlace' /\ C!OutputBeforeDisposal' /\ C!RecoveryHoldsOutput' /\ C!CompletedIsWhole'
    BY <1>1, <1>2, <2>1, <2>2, CreationQuiet
  <2> QED
    BY <2>5, <2>7, <2>8, <2>9
<1> QED
  BY <1>3, <1>4 DEF C!ReadBack

LEMMA CreationMaterialize ==
    ASSUME C!Inv, C!Materialize
    PROVE  C!Inv'
<1> USE DEF C!Inv
<1>1. PICK cards \in IF C!NeedsCards /\ c5 = "no" THEN {c4, {}} ELSE {{}} :
        /\ c11' = [c11 EXCEPT !.listed = c11.listed \cup cards] /\ c13' = c11.listed \cup cards
        /\ c16' = c16 \cup (c11.listed \cup cards)
        /\ c12' = C!Merged(c12, C!Listed(c11.listed \cup cards))
  BY DEF C!Materialize
<1>2. /\ UNCHANGED <<c1, c2, c3, c4, c5, c6, c7, c8, c9, c14, c15>> /\ c10 = "materialize"
      /\ c10' = "save"
  BY DEF C!Materialize, C!world
<1> DEFINE listed == c11.listed \cup cards
<1>3. /\ ~c14 /\ c8.state # "completed" /\ (c5 # "no" => c9.kind = "recover" /\ c11.listed = {})
      /\ c16 \subseteq c4 /\ c11.listed \subseteq c16
  BY <1>2 DEF C!SeenByPlace, C!RecordedByPlace
<1>4. /\ cards \in {c4, {}} /\ (c5 # "no" => cards = {}) /\ (cards # {} => c11.listed = {})
  BY <1>1 DEF C!NeedsCards
<1>5. listed \subseteq C!Outputs /\ listed \subseteq c4 /\ c4 \subseteq C!Outputs
  BY <1>3, <1>4 DEF C!Typed
<1>6. c11' \in [chat: BOOLEAN, listed: SUBSET C!Outputs, queued: BOOLEAN] /\ c11'.listed = listed
      /\ c11'.queued = c11.queued
  BY <1>1, <1>5 DEF C!Typed
<1>7. /\ c12' \in [C!Outputs -> C!Artifacts]
      /\ \A o \in C!Outputs : /\ c12'[o].verified = c12[o].verified
                              /\ c12[o] # C!Absent => c12'[o] # C!Absent
                              /\ o \in listed => c12'[o] # C!Absent
  BY <1>1, <1>5, CreationListed
<1> HIDE DEF listed
<1>8. c13' = listed /\ c16' = c16 \cup listed
  BY <1>1 DEF listed
<1>9. C!Typed'
  BY <1>2, <1>5, <1>6, <1>7, <1>8 DEF C!Typed
<1>10. c5 # "no" => listed = {}
  BY <1>3, <1>4 DEF listed
<1>11. C!SeenByPlace'
  <2>1. c16 \subseteq c11.listed => c16' \subseteq listed
    BY <1>8 DEF listed
  <2>2. c11.listed = {} => listed = {} \/ listed = c4
    BY <1>4 DEF listed
  <2>3. ~c15 => \/ c16 \subseteq c11.listed
                \/ c9.kind = "recover" /\ c11.listed = {}
    BY <1>2 DEF C!SeenByPlace
  <2>4. ~c15' => \/ c16' \subseteq c11'.listed
                 \/ c9'.kind = "recover" /\ c11'.listed = {}
    BY <1>2, <1>3, <1>6, <1>8, <2>1, <2>2, <2>3
  <2> QED
    BY <1>2, <1>3, <1>5, <1>6, <1>7, <1>8, <2>4 DEF C!SeenByPlace
<1>12. C!ObservedByPlace'
  <2>1. c9.kind = "generate" => \A o \in C!Outputs : ~c12[o].verified
    BY <1>2 DEF C!ObservedByPlace, C!Nothing, C!Absent
  <2> QED
    BY <1>2, <1>5, <1>7, <1>8, <2>1 DEF C!ObservedByPlace, C!Tracked
<1>13. C!RecordedByPlace' /\ C!OutputBeforeDisposal' /\ C!RecoveryHoldsOutput' /\ C!CompletedIsWhole'
  BY <1>2, <1>3, <1>6, <1>8, <1>10, CreationQuiet
<1> QED
  BY <1>9, <1>11, <1>12, <1>13

LEMMA CreationSaves ==
    ASSUME C!Inv, NEW o \in C!Outputs, C!SaveItem(o)
    PROVE  C!Inv' /\ C!KeepsGoodFiles
<1> USE DEF C!Inv
<1>1. /\ UNCHANGED <<c1, c2, c3, c4, c5, c7, c8, c9, c10, c11, c15, c16>>
      /\ c10 = "save" /\ o \in c13 /\ c13' = c13 \ {o}
  BY DEF C!SaveItem, C!world
<1>2. c11.listed # {} /\ c5 = "no" /\ c8.state # "completed" /\ c13 \subseteq c11.listed
  BY <1>1 DEF C!SeenByPlace, C!RecordedByPlace
<1>3. c12[o] \in C!Artifacts /\ c6[o] \in C!Bytes
  BY DEF C!Typed
<1>4. PICK artifact \in C!Artifacts, bytes \in C!Bytes :
        /\ c12' = [c12 EXCEPT ![o] = artifact] /\ c6' = [c6 EXCEPT ![o] = bytes]
        /\ artifact.verified => bytes = "good"
        /\ c12[o] # C!Absent => artifact # C!Absent
        /\ c8.loc[o].verified /\ bytes = "good" => artifact.verified
        /\ c14' \in BOOLEAN
        /\ c8.loc[o].verified /\ c6[o] = "good" => bytes = "good"
  <2>1. CASE UNCHANGED <<c6, c12>> /\ c14' \in {c14, TRUE}
    <3>1. c12' = [c12 EXCEPT ![o] = c12[o]] /\ c6' = [c6 EXCEPT ![o] = c6[o]]
      BY <2>1 DEF C!Typed
    <3>2. /\ c12[o].verified => c6[o] = "good"
          /\ c8.loc[o].verified /\ c6[o] = "good" => c12[o].verified
      BY <1>1 DEF C!ObservedByPlace
    <3>3. c14' \in BOOLEAN
      BY <2>1 DEF C!Typed
    <3> QED
      BY <1>3, <3>1, <3>2, <3>3
  <2>2. CASE /\ ~C!Reusable(o)
             /\ \E bytes \in {"good", "opaque", "bad"} :
                  /\ c6' = [c6 EXCEPT ![o] = bytes]
                  /\ c12' = [c12 EXCEPT ![o] = C!MergeArtifact(@, C!Probe(bytes))]
                  /\ c14' = (c14 \/ bytes = "bad")
    <3>1. PICK bytes \in {"good", "opaque", "bad"} :
                  /\ c6' = [c6 EXCEPT ![o] = bytes]
                  /\ c12' = [c12 EXCEPT ![o] = C!MergeArtifact(@, C!Probe(bytes))]
                  /\ c14' = (c14 \/ bytes = "bad")
      BY <2>2
    <3>2. ~c12[o].verified
      <4>1. CASE c9.kind = "generate"
        BY <1>1, <4>1 DEF C!ObservedByPlace
      <4>2. CASE c9.kind = "recover"
        <5>1. c12[o].verified => c6[o] = "good" /\ c12[o].state = "local" /\ c12[o].path
          BY <1>1, <1>3, CreationVerified DEF C!ObservedByPlace
        <5> QED
          BY <2>2, <4>2, <5>1 DEF C!Reusable
      <4> QED
        BY <4>1, <4>2 DEF C!Typed
    <3> DEFINE a == C!MergeArtifact(c12[o], C!Probe(bytes))
    <3>3. bytes \in C!Bytes
      BY DEF C!Bytes
    <3>4. /\ a \in C!Artifacts /\ a # C!Absent /\ a.verified = (bytes = "good")
      BY <1>3, <3>2, <3>3, CreationMerge, CreationKinds
    <3>5. c12' = [c12 EXCEPT ![o] = a]
      BY <3>1
    <3>6. c14' \in BOOLEAN
      BY <3>1
    <3> HIDE DEF a
    <3>7. ~(c8.loc[o].verified /\ c6[o] = "good")
      BY <1>1, <3>2 DEF C!ObservedByPlace
    <3> QED
      BY <3>1, <3>3, <3>4, <3>5, <3>6, <3>7
  <2> QED
    BY <2>1, <2>2 DEF C!SaveItem
<1>5. C!Typed'
  BY <1>1, <1>4 DEF C!Typed
<1>6. C!SeenByPlace'
  BY <1>1, <1>2, <1>4 DEF C!SeenByPlace, C!Typed
<1>7. C!ObservedByPlace'
  BY <1>1, <1>4 DEF C!ObservedByPlace, C!Tracked, C!Typed
<1>8. C!RecordedByPlace' /\ C!OutputBeforeDisposal' /\ C!RecoveryHoldsOutput' /\ C!CompletedIsWhole'
  BY <1>1, <1>2 DEF C!RecordedByPlace, C!OutputBeforeDisposal, C!RecoveryHoldsOutput,
    C!CompletedIsWhole, C!Tracked
<1>9. C!KeepsGoodFiles
  BY <1>1, <1>4 DEF C!KeepsGoodFiles, C!Typed
<1> QED
  BY <1>5, <1>6, <1>7, <1>8, <1>9

LEMMA CreationAllSaved ==
    ASSUME C!Inv, C!AllSaved
    PROVE  C!Inv'
<1> USE DEF C!Inv
<1>1. /\ UNCHANGED <<c1, c2, c3, c4, c5, c6, c7, c8, c9, c12, c13, c14, c15, c16>>
      /\ c10 = "save" /\ c10' = "record"
  BY DEF C!AllSaved, C!world
<1>2. c8.state # "completed"
  BY <1>1 DEF C!RecordedByPlace
<1>3. \/ c9.kind = "recover" /\ c11' = C!Pending
      \/ /\ c11' = c11
         /\ c9.kind = "recover" /\ ~c14 =>
              c11.listed # {} /\ \E o \in C!Required : c12[o] # C!Absent
  BY DEF C!AllSaved, C!Interim
<1>4. C!Typed'
  <2>1. c11' \in [chat: BOOLEAN, listed: SUBSET C!Outputs, queued: BOOLEAN]
    <3>1. C!Pending \in [chat: BOOLEAN, listed: SUBSET C!Outputs, queued: BOOLEAN]
      BY DEF C!Pending
    <3> QED
      BY <1>3, <3>1 DEF C!Typed
  <2> QED
    BY <1>1, <2>1 DEF C!Typed
<1>5. C!SeenByPlace'
  BY <1>1, <1>3 DEF C!SeenByPlace, C!Pending
<1>6. C!ObservedByPlace'
  BY <1>1, <1>3 DEF C!ObservedByPlace, C!Pending, C!Tracked, C!Required
<1>7. C!RecordedByPlace' /\ C!OutputBeforeDisposal' /\ C!RecoveryHoldsOutput' /\ C!CompletedIsWhole'
  <2>1. c5 # "no" => c9'.kind = "recover"
    BY <1>1 DEF C!RecordedByPlace
  <2> QED
    BY <1>1, <1>2, <2>1, CreationQuiet
<1> QED
  BY <1>4, <1>5, <1>6, <1>7

LEMMA CreationInterrupt ==
    ASSUME C!Inv, C!Interrupt
    PROVE  C!Inv'
<1> USE DEF C!Inv
<1>1. /\ UNCHANGED <<c1, c2, c3, c4, c5, c6, c7, c8, c9, c11, c13, c14, c16>> /\ c15' = TRUE
      /\ c10 \in {"materialize", "save", "record"}
      /\ \/ c9.kind = "generate" /\ c10 # "record" /\ c10' = "record" /\ c12' = c12
         \/ c9.kind # "generate" /\ c10' = "finish" /\ c12' = C!Unmerged
  BY DEF C!Interrupt, C!world
<1>2. c8.state # "completed" /\ (c5 # "no" => c9.kind = "recover")
  BY <1>1 DEF C!RecordedByPlace
<1>3. /\ c12' \in [C!Outputs -> C!Artifacts]
      /\ \A o \in C!Outputs : /\ c12'[o].verified = c12[o].verified
                              /\ c12[o] # C!Absent => c12'[o] # C!Absent
  <2>1. c12 \in [C!Outputs -> C!Artifacts]
    BY DEF C!Typed
  <2>2. C!Remote \in C!Artifacts /\ C!Remote # C!Absent /\ C!Remote.verified = FALSE
    BY CreationKinds DEF C!Remote, C!Absent
  <2>3. CASE c12' = c12
    BY <2>1, <2>3
  <2>4. CASE c12' = C!Unmerged
    <3>1. \A o \in C!Outputs : c12'[o] = c12[o] \/ (c12'[o] = C!Remote /\ ~c12[o].verified)
      BY <2>4 DEF C!Unmerged
    <3>2. c12' = [o \in C!Outputs |-> c12'[o]]
      BY <2>4 DEF C!Unmerged
    <3>3. \A o \in C!Outputs : c12'[o] \in C!Artifacts /\ c12[o].verified \in BOOLEAN
      BY <2>1, <2>2, <3>1, CreationVerified
    <3>4. \A o \in C!Outputs : c12'[o].verified = c12[o].verified
      BY <2>2, <3>1, <3>3
    <3> QED
      BY <2>2, <3>1, <3>2, <3>3, <3>4
  <2> QED
    BY <1>1, <2>3, <2>4
<1>4. C!Typed'
  BY <1>1, <1>3 DEF C!Typed
<1>5. C!SeenByPlace'
  BY <1>1 DEF C!SeenByPlace
<1>6. C!ObservedByPlace'
  BY <1>1, <1>3 DEF C!ObservedByPlace, C!Tracked
<1>7. C!RecordedByPlace' /\ C!OutputBeforeDisposal' /\ C!RecoveryHoldsOutput' /\ C!CompletedIsWhole'
  BY <1>1, <1>2, CreationQuiet
<1> QED
  BY <1>4, <1>5, <1>6, <1>7

LEMMA CreationOutcome ==
    ASSUME UNCHANGED <<c1, c11, c12, c14, c15>>
    PROVE  C!Outcome' = C!Outcome
BY DEF C!Outcome, C!State, C!Decisive, C!Required, C!Observed, C!Saved

(* The observations are recorded: the row holds what the call holds, and   *)
(* "completed" only if that is all there is.                               *)
LEMMA CreationRecords ==
    ASSUME C!Inv, C!Tracked, c8.state # "completed", c8' = C!Recorded(C!Outcome),
           (c10 = "record" /\ c10' = "dispose") \/ (c10 = "finish" /\ c10' = "ended"),
           UNCHANGED <<c1, c2, c3, c4, c5, c6, c7, c9, c11, c12, c13, c14, c15, c16>>
    PROVE  C!Inv' /\ C!KeepsGoodFiles
<1> USE DEF C!Inv
<1> DEFINE States == {"running", "failed", "queued", "partial", "completed"}
<1>1. C!Outcome \in States
  BY DEF C!Outcome
<1>2. /\ c8' \in [source: BOOLEAN, loc: [C!Outputs -> C!Artifacts], state: States]
      /\ \A o \in C!Outputs : c8'.loc[o] = C!MergeLocator(c8.loc[o], c12[o])
      /\ c8'.state = "completed" => C!Outcome = "completed"
  BY <1>1, CreationRecorded
<1>3. \A o \in C!Outputs : c8.loc[o] \in C!Artifacts /\ c12[o] \in C!Artifacts
  BY DEF C!Typed
<1>4. \A o \in C!Outputs : c8.loc[o] # C!Absent => c12[o] # C!Absent
  BY DEF C!ObservedByPlace
<1>5. \A o \in C!Outputs : c8'.loc[o] \in {c8.loc[o], c12[o]} /\ (c12[o].verified => c8'.loc[o].verified)
  BY <1>2, <1>3, CreationLocator
<1>6. C!Outcome = "completed" =>
        /\ ~c15 /\ ~c11.queued
        /\ \A o \in C!Outputs : c12[o] # C!Absent => c12[o].verified
        /\ \E o \in C!Required : c12[o].verified
  BY CreationCompleted
<1>7. C!Required \subseteq C!Outputs
  BY DEF C!Required, C!Outputs
<1>8. C!Outcome = "completed" => c8'.state = "completed"
  BY <1>1, <1>4, <1>6, <1>7, CreationRecorded
<1>9. C!Typed'
  BY <1>2 DEF C!Typed
<1>10. C!SeenByPlace'
  BY DEF C!SeenByPlace
<1>11. C!ObservedByPlace'
  <2>1. c10' # "ended" => \A o \in C!Outputs :
            /\ c12[o].verified => c6[o] = "good"
            /\ c8'.loc[o] # C!Absent => c12[o] # C!Absent
            /\ c8'.loc[o].verified /\ c6[o] = "good" => c12[o].verified
    BY <1>3, <1>4, <1>5 DEF C!ObservedByPlace
  <2>2. c9.kind = "recover" => C!Tracked
    BY DEF C!ObservedByPlace
  <2>3. c9.kind = "recover" /\ c10' = "dispose" /\ ~c15 /\ ~c14 /\ ~c11.queued =>
          \E o \in C!Required : c12[o] # C!Absent
    BY DEF C!ObservedByPlace
  <2> QED
    BY <2>1, <2>2, <2>3 DEF C!ObservedByPlace, C!Tracked, C!Required
<1>12. c5 # "recover" /\ (c5 # "no" => c16 = {})
  BY DEF C!RecordedByPlace
<1>13. C!RecordedByPlace'
  <2>1. C!Outcome' = C!Outcome
    BY CreationOutcome
  <2>2. c5 # "no" => c10' = "ended" \/ c9.kind = "recover"
    BY DEF C!RecordedByPlace, C!Finish
  <2> QED
    BY <1>8, <1>12, <2>1, <2>2 DEF C!RecordedByPlace, C!Tracked
<1>14. C!OutputBeforeDisposal' /\ C!RecoveryHoldsOutput'
  BY <1>12 DEF C!OutputBeforeDisposal, C!RecoveryHoldsOutput
<1>15. C!CompletedIsWhole'
  <2> SUFFICES ASSUME c8'.state = "completed"
               PROVE  /\ \E o \in C!Required : c8'.loc[o].verified
                      /\ \A o \in c16 : c8'.loc[o].verified /\ C!Kept(o)'
    BY DEF C!CompletedIsWhole, C!Required
  <2>1. /\ ~c15 /\ ~c11.queued
        /\ \A o \in C!Outputs : c12[o] # C!Absent => c12[o].verified
        /\ \E o \in C!Required : c12[o].verified
    BY <1>2, <1>6
  <2>2. c16 \subseteq c11.listed /\ (\A o \in c11.listed : c12[o] # C!Absent) /\ c16 \subseteq C!Outputs
    BY <2>1 DEF C!SeenByPlace, C!Typed
  <2>3. \A o \in c16 : c12[o].verified /\ c6[o] = "good"
    BY <2>1, <2>2 DEF C!ObservedByPlace
  <2> QED
    BY <1>5, <1>7, <2>1, <2>2, <2>3 DEF C!Kept
<1>16. C!KeepsGoodFiles
  BY <1>5 DEF C!KeepsGoodFiles, C!ObservedByPlace
<1> QED
  BY <1>9, <1>10, <1>11, <1>13, <1>14, <1>15, <1>16

LEMMA CreationRecord ==
    ASSUME C!Inv, C!Record \/ C!RecordFails
    PROVE  C!Inv' /\ C!KeepsGoodFiles
<1> USE DEF C!Inv
<1>1. /\ UNCHANGED <<c1, c2, c3, c4, c5, c6, c7, c9, c11, c12, c13, c14, c16>>
      /\ c10 = "record" /\ c10' = "dispose" /\ c8.state # "completed"
      /\ \/ c15' = c15 /\ C!Tracked /\ c8' = C!Recorded(C!Outcome)
         \/ c15' = c15 /\ ~C!Tracked /\ c8' = c8
         \/ c15' = TRUE /\ c8' = c8 /\ c9.kind = "generate"
  BY DEF C!Record, C!RecordFails, C!RecordFailure, C!world, C!RecordedByPlace
<1>2. CASE c15' = c15 /\ C!Tracked /\ c8' = C!Recorded(C!Outcome)
  BY <1>1, <1>2, CreationRecords
<1>3. CASE \/ c15' = c15 /\ ~C!Tracked /\ c8' = c8
           \/ c15' = TRUE /\ c8' = c8 /\ c9.kind = "generate"
  <2>1. /\ c15' \in BOOLEAN /\ (c15 => c15') /\ c8' = c8
        /\ C!Tracked => c15' /\ c9.kind = "generate"
    BY <1>3 DEF C!Typed
  <2>2. C!Typed'
    BY <1>1, <2>1 DEF C!Typed
  <2>3. C!SeenByPlace'
    BY <1>1, <2>1 DEF C!SeenByPlace
  <2>4. C!ObservedByPlace'
    BY <1>1, <2>1 DEF C!ObservedByPlace, C!Tracked
  <2>5. C!RecordedByPlace' /\ C!OutputBeforeDisposal' /\ C!RecoveryHoldsOutput' /\ C!CompletedIsWhole'
    <3>1. c5 # "no" => c9'.kind = "recover"
      BY <1>1 DEF C!RecordedByPlace
    <3> QED
      BY <1>1, <2>1, <3>1, CreationQuiet
  <2>6. C!KeepsGoodFiles
    BY <1>1, <2>1 DEF C!KeepsGoodFiles
  <2> QED
    BY <2>2, <2>3, <2>4, <2>5, <2>6
<1> QED
  BY <1>1, <1>2, <1>3

(* The source chat goes only when all that was ever seen is in good files,  *)
(* or when nothing was ever seen and this is the call that sent the prompt. *)
LEMMA CreationDisposes ==
    ASSUME C!Inv, C!Dispose
    PROVE  C!Inv'
<1> USE DEF C!Inv
<1>1. /\ UNCHANGED <<c1, c2, c3, c4, c6, c7, c8, c9, c11, c12, c13, c14, c15, c16>>
      /\ c10 = "dispose" /\ c10' = "finish"
      /\ c5' = c5 \/ (c5' = c9.kind /\ ~C!RequiresRecovery)
  BY DEF C!Dispose, C!world
<1>2. C!Typed'
  <2>1. c5' \in {"no", "generate", "recover"}
    BY <1>1 DEF C!Typed
  <2> QED
    BY <1>1, <2>1 DEF C!Typed
<1>3. C!SeenByPlace' /\ C!ObservedByPlace'
  BY <1>1 DEF C!SeenByPlace, C!ObservedByPlace, C!Tracked
<1>4. CASE c5' = c5
  BY <1>1, <1>2, <1>3, <1>4, CreationQuiet
<1>5. CASE c5' = c9.kind /\ ~C!RequiresRecovery
  <2>1. /\ ~c14 /\ ~c15 /\ ~c11.queued
        /\ C!Outcome = "completed" \/ \A o \in C!Outputs : c12[o] = C!Absent
    BY <1>5, CreationDisposable
  <2>2. /\ c16 \subseteq c11.listed /\ \A o \in c11.listed : c12[o] # C!Absent
        /\ c16 \subseteq C!Outputs /\ c11.listed \subseteq C!Outputs
    BY <1>1, <2>1 DEF C!SeenByPlace, C!Typed
  <2>3. CASE C!Outcome = "completed"
    <3>1. \A o \in c16 : c12[o].verified /\ c6[o] = "good"
      BY <1>1, <2>2, <2>3, CreationCompleted DEF C!ObservedByPlace
    <3>2. C!Tracked => c8.state = "completed"
      BY <1>1, <2>1, <2>3 DEF C!RecordedByPlace
    <3>3. C!Tracked => \A o \in c16 : c8.loc[o].verified
      BY <3>2 DEF C!CompletedIsWhole
    <3>4. c9.kind = "recover" => c8.state = "completed"
      BY <3>2 DEF C!ObservedByPlace
    <3>5. C!RecordedByPlace'
      BY <1>1, <1>5, <3>2, <3>4 DEF C!RecordedByPlace, C!Tracked
    <3>6. C!OutputBeforeDisposal'
      BY <1>1, <3>1, <3>3 DEF C!OutputBeforeDisposal, C!Kept, C!Tracked
    <3>7. C!RecoveryHoldsOutput'
      BY <1>1, <1>5, <3>4 DEF C!RecoveryHoldsOutput, C!CompletedIsWhole, C!Required
    <3>8. C!CompletedIsWhole'
      BY <1>1 DEF C!CompletedIsWhole, C!Kept, C!Required
    <3> QED
      BY <1>2, <1>3, <3>5, <3>6, <3>7, <3>8
  <2>4. CASE \A o \in C!Outputs : c12[o] = C!Absent
    <3>1. c16 = {}
      BY <2>2, <2>4
    <3>2. c9.kind # "recover"
      <4>1. C!Required \subseteq C!Outputs
        BY DEF C!Required, C!Outputs
      <4> QED
        BY <1>1, <2>1, <2>4, <4>1 DEF C!ObservedByPlace
    <3>3. C!RecordedByPlace'
      BY <1>1, <1>5, <3>1, <3>2 DEF C!RecordedByPlace, C!Tracked
    <3>4. C!OutputBeforeDisposal' /\ C!RecoveryHoldsOutput'
      BY <1>1, <1>5, <3>1, <3>2 DEF C!OutputBeforeDisposal, C!RecoveryHoldsOutput
    <3>5. C!CompletedIsWhole'
      BY <1>1 DEF C!CompletedIsWhole, C!Kept, C!Required
    <3> QED
      BY <1>2, <1>3, <3>3, <3>4, <3>5
  <2> QED
    BY <2>1, <2>3, <2>4
<1> QED
  BY <1>1, <1>4, <1>5

LEMMA CreationEnds ==
    ASSUME C!Inv, C!Finish \/ C!Abandon
    PROVE  C!Inv' /\ C!KeepsGoodFiles
<1> USE DEF C!Inv
<1>1. CASE C!Finish /\ C!Tracked /\ c8.state # "completed"
  <2>1. /\ c10 = "finish" /\ c10' = "ended" /\ c8' = C!Recorded(C!Outcome)
        /\ UNCHANGED <<c1, c2, c3, c4, c5, c6, c7, c9, c11, c12, c13, c14, c15, c16>>
    BY <1>1 DEF C!Finish, C!world
  <2> QED
    BY <1>1, <2>1, CreationRecords
<1>2. CASE C!Abandon \/ (C!Finish /\ ~(C!Tracked /\ c8.state # "completed"))
  <2>1. /\ UNCHANGED <<c1, c2, c3, c4, c5, c6, c7, c8, c9, c11, c12, c13, c14, c15, c16>>
        /\ c10' = "ended"
    BY <1>2 DEF C!Finish, C!Abandon, C!world
  <2>2. C!Typed'
    BY <2>1 DEF C!Typed
  <2>3. C!SeenByPlace'
    BY <2>1 DEF C!SeenByPlace
  <2>4. C!ObservedByPlace'
    BY <2>1 DEF C!ObservedByPlace, C!Tracked
  <2>5. C!RecordedByPlace' /\ C!OutputBeforeDisposal' /\ C!RecoveryHoldsOutput' /\ C!CompletedIsWhole'
    BY <2>1, CreationQuiet
  <2>6. C!KeepsGoodFiles
    BY <2>1 DEF C!KeepsGoodFiles
  <2> QED
    BY <2>2, <2>3, <2>4, <2>5, <2>6
<1> QED
  BY <1>1, <1>2

(* A recovery probes the recorded files again.                             *)
LEMMA CreationRecovers ==
    ASSUME C!Inv, C!Recover
    PROVE  C!Inv'
<1> USE DEF C!Inv
<1>1. /\ UNCHANGED <<c1, c2, c3, c4, c5, c6, c7, c8, c16>> /\ c10 = "ended" /\ c10' = "read"
      /\ c12' = C!Stored /\ c11' = C!NoReply /\ c13' = {} /\ c14' = FALSE /\ c15' = FALSE
      /\ c9' = [kind |-> "recover", before |-> c9.before + 1] /\ c8.state # "completed"
      /\ C!Tracked
  BY DEF C!Recover, C!world
<1>2. \A o \in C!Outputs : c8.loc[o] \in C!Artifacts /\ c6[o] \in C!Bytes
  BY DEF C!Typed
<1>3. \A o \in C!Outputs :
        /\ c12'[o] \in C!Artifacts
        /\ c12'[o].verified => c6[o] = "good"
        /\ c8.loc[o] # C!Absent => c12'[o] # C!Absent
        /\ c8.loc[o].verified /\ c6[o] = "good" => c12'[o].verified
  <2> TAKE o \in C!Outputs
  <2>1. c12'[o] = IF c8.loc[o].path THEN C!Probe(c6[o]) ELSE c8.loc[o]
    BY <1>1 DEF C!Stored
  <2>2. CASE c8.loc[o].path
    BY <1>2, <2>1, <2>2, CreationKinds
  <2>3. CASE ~c8.loc[o].path
    BY <1>2, <2>1, <2>3, CreationVerified
  <2> QED
    BY <2>2, <2>3
<1>4. c12' \in [C!Outputs -> C!Artifacts]
  BY <1>1, <1>3 DEF C!Stored
<1>5. /\ C!NoReply \in [chat: BOOLEAN, listed: SUBSET C!Outputs, queued: BOOLEAN]
      /\ C!NoReply.listed = {}
  BY DEF C!NoReply
<1>6. c9' \in [kind: {"generate", "recover"}, before: Nat] /\ c9'.kind = "recover"
  BY <1>1 DEF C!Typed
<1>7. C!Typed'
  BY <1>1, <1>4, <1>5, <1>6 DEF C!Typed
<1>8. C!SeenByPlace'
  BY <1>1, <1>5, <1>6 DEF C!SeenByPlace
<1>9. C!ObservedByPlace'
  BY <1>1, <1>3, <1>6 DEF C!ObservedByPlace, C!Tracked
<1>10. C!RecordedByPlace' /\ C!OutputBeforeDisposal' /\ C!RecoveryHoldsOutput' /\ C!CompletedIsWhole'
  BY <1>1, <1>6, CreationQuiet
<1> QED
  BY <1>7, <1>8, <1>9, <1>10

(* The provider makes another output, or the user removes a file between    *)
(* two calls, or nothing happens.                                          *)
LEMMA CreationWorld ==
    ASSUME C!Inv, C!ProviderWorks \/ C!Vanish \/ UNCHANGED C!cvars
    PROVE  C!Inv' /\ (C!Next => C!KeepsGoodFiles)
<1> USE DEF C!Inv
<1>1. /\ UNCHANGED <<c1, c2, c3, c5, c8, c9, c10, c11, c12, c13, c14, c15, c16>>
      /\ c4 \subseteq c4' /\ c4' \subseteq C!Outputs
  BY DEF C!ProviderWorks, C!Vanish, C!cvars, C!Typed
<1>2. /\ c6' \in [C!Outputs -> C!Bytes] /\ c7' \subseteq C!Outputs
      /\ \A o \in C!Outputs : (c6'[o] = c6[o] /\ (o \in c7 => o \in c7')) \/ o \in c7'
      /\ c10 # "ended" => c6' = c6
  <2>1. CASE C!Vanish
    BY <2>1 DEF C!Vanish, C!Typed, C!Bytes
  <2>2. CASE UNCHANGED <<c6, c7>>
    BY <2>2 DEF C!Typed
  <2> QED
    BY <2>1, <2>2 DEF C!ProviderWorks, C!cvars
<1>3. C!Typed'
  BY <1>1, <1>2 DEF C!Typed
<1>4. C!SeenByPlace'
  BY <1>1 DEF C!SeenByPlace
<1>5. C!ObservedByPlace'
  BY <1>1, <1>2 DEF C!ObservedByPlace, C!Tracked, C!Required
<1>6. C!RecordedByPlace'
  <2>1. C!Outcome' = C!Outcome
    BY <1>1, CreationOutcome
  <2> QED
    BY <1>1, <2>1 DEF C!RecordedByPlace, C!Tracked
<1>7. \A o \in c16 : C!Kept(o) => C!Kept(o)'
  BY <1>2 DEF C!Kept, C!Typed
<1>8. C!OutputBeforeDisposal' /\ C!RecoveryHoldsOutput' /\ C!CompletedIsWhole'
  BY <1>1, <1>7 DEF C!OutputBeforeDisposal, C!RecoveryHoldsOutput, C!CompletedIsWhole,
    C!Tracked, C!Required
<1>9. C!KeepsGoodFiles
  BY <1>1, <1>2 DEF C!KeepsGoodFiles
<1> QED
  BY <1>3, <1>4, <1>5, <1>6, <1>8, <1>9

LEMMA CreationStep ==
    ASSUME C!Inv, [C!Next]_(C!cvars)
    PROVE  C!Inv' /\ (C!Next => C!KeepsGoodFiles)
<1>1. CASE C!NotStarted \/ C!Reply \/ C!RequestFails \/ C!ReadBack \/ C!Materialize
           \/ C!AllSaved \/ C!Interrupt \/ C!Dispose \/ C!Recover
  <2>1. C!Inv'
    BY <1>1, CreationStarts, CreationReads, CreationMaterialize, CreationAllSaved,
      CreationInterrupt, CreationDisposes, CreationRecovers
  <2>2. c6' = c6 /\ c8'.loc = c8.loc
    <3>1. c6' = c6 /\ (c8' = c8 \/ c8' = [c8 EXCEPT !.source = C!Tracked])
      BY <1>1 DEF C!NotStarted, C!Reply, C!RequestFails, C!ReadBack, C!Materialize,
        C!AllSaved, C!Interrupt, C!Dispose, C!Recover, C!world
    <3> QED
      BY <3>1 DEF C!Inv, C!Typed
  <2>3. C!KeepsGoodFiles
    BY <2>2 DEF C!KeepsGoodFiles
  <2> QED
    BY <2>1, <2>3
<1>2. CASE \E o \in C!Outputs : C!SaveItem(o)
  BY <1>2, CreationSaves
<1>3. CASE C!Record \/ C!RecordFails \/ C!Finish \/ C!Abandon
  BY <1>3, CreationRecord, CreationEnds
<1>4. CASE C!ProviderWorks \/ C!Vanish \/ UNCHANGED C!cvars
  BY <1>4, CreationWorld
<1> QED
  BY <1>1, <1>2, <1>3, <1>4 DEF C!Next

(* In every behaviour of a media request, however often it is recovered,    *)
(* the source chat goes only when every output that was ever listed is in a *)
(* verified, recorded file, a recovery deletes it only for an output it     *)
(* holds, a completed operation is whole, and a good file that is recorded  *)
(* stays so until the user removes it (creation.py:271-283).               *)
THEOREM OutputsAreSafe == Spec => OutputIsSafe
<1>1. Init => CreationPart
  BY CreationInit DEF Init, CreationPart
<1>2. CreationPart /\ [Next]_vars => CreationPart'
  <2> SUFFICES ASSUME CreationPart, [Next]_vars, part' = "creation"
               PROVE  C!Inv'
    BY DEF CreationPart
  <2>1. part = "creation" /\ [C!Next]_(C!cvars)
    BY DEF Next, vars, cells, C!cvars
  <2> QED
    BY <2>1, CreationStep DEF CreationPart
<1>3. CreationPart =>
        (part = "creation" =>
            C!OutputBeforeDisposal /\ C!RecoveryHoldsOutput /\ C!CompletedIsWhole)
  BY DEF CreationPart, C!Inv
<1>4. CreationPart /\ [Next]_vars => [part = "creation" => C!KeepsGoodFiles]_vars
  <2> SUFFICES ASSUME CreationPart, Next, part = "creation"
               PROVE  C!KeepsGoodFiles
    OBVIOUS
  <2>1. C!Next
    BY DEF Next
  <2> QED
    BY <2>1, CreationStep DEF CreationPart
<1> QED
  BY <1>1, <1>2, <1>3, <1>4, PTL DEF Spec, OutputIsSafe

-----------------------------------------------------------------------------
(* A change of something the provider keeps.  Of its cells, c1 is world, c2 *)
(* call, c3 pc, c4 before, c5 id, c6 inner, c7 sent, c8 late, c9 answer,    *)
(* c10 seen, c11 edits, c12 touched and c13 told.                          *)

WritePart == part = "write" => W!Inv

LEMMA WriteKinds ==
    ASSUME W!Typed, W!SentByPlace
    PROVE  /\ W!Kind \in W!Creating \cup W!Changing \cup W!Deleting
           /\ W!Creating \cap W!Changing = {} /\ W!Creating \cap W!Deleting = {}
           /\ W!Changing \cap W!Deleting = {}
           /\ ~c6 => W!Kind = c2.kind
           /\ c6 => W!Kind = "update_notebook" /\ W!Kind \in W!Changing /\ c2.kind \in W!Creating
           /\ W!Kind \in W!Creating \cup W!Deleting => ~c6
           /\ c6 => c2.kind \notin W!Replayed
<1>1. "update_notebook" \in W!Changing /\ "create_notebook" \in W!Creating
      /\ "create_notebook" \notin W!Replayed
  BY DEF W!Changing, W!Creating, W!Replayed
<1>2. W!Creating \cap W!Changing = {} /\ W!Creating \cap W!Deleting = {}
      /\ W!Changing \cap W!Deleting = {}
  BY DEF W!Creating, W!Changing, W!Deleting
<1>3. c2.kind \in W!Creating \cup W!Changing \cup W!Deleting /\ c6 \in BOOLEAN
  BY DEF W!Typed
<1>4. c6 => c2.kind = "create_notebook"
  BY DEF W!SentByPlace
<1>5. W!Kind = IF c6 THEN "update_notebook" ELSE c2.kind
  BY DEF W!Kind
<1> QED
  BY <1>1, <1>2, <1>3, <1>4, <1>5

LEMMA WriteHolding ==
    ASSUME NEW status \in W!Statuses, NEW content \in [W!Fields -> W!Values]
    PROVE  /\ W!Holding(status, content) \in W!Kept
           /\ W!Holding(status, content).status = status
           /\ \A f \in W!Fields : W!Holding(status, content)[f] = content[f]
BY DEF W!Holding, W!Kept, W!Fields

LEMMA WriteField ==
    ASSUME NEW object \in W!Kept, NEW f \in W!Fields
    PROVE  object[f] \in W!Values /\ object.status \in W!Statuses
BY DEF W!Kept, W!Fields

(* What a request does to the account, by what it asks for.                *)
LEMMA WriteEffect ==
    ASSUME W!Typed, W!SentByPlace, NEW honoured \in SUBSET c2.wants, NEW state \in W!States,
           c1' = W!Effect(honoured, state)
    PROVE  /\ c1' \in [W!Objects -> W!Kept]
           /\ W!Kind \in W!Creating => \A o \in W!Objects : o # W!Made => c1'[o] = c1[o]
           /\ W!Kind \in W!Changing =>
                \A o \in W!Objects :
                  /\ o # c5 => c1'[o] = c1[o]
                  /\ c1'[o].status = c1[o].status
                  /\ \A f \in W!Fields :
                        \/ c1'[o][f] = c1[o][f]
                        \/ f \in c2.wants /\ c1'[o][f] = "new"
                        \/ f \notin c2.wants /\ c1'[o][f] = c4[f]
                           /\ W!Kind \notin {"enable_skill", "move_chat"}
           /\ W!Kind \in W!Deleting =>
                \A o \in W!Objects :
                  /\ ~(W!Live(o) /\ (o = "target" \/ (o = "neighbour" /\ c2.grouped))) => c1'[o] = c1[o]
                  /\ c1'[o].status = c1[o].status \/ c1'[o].status # "live"
                  /\ \A f \in W!Fields : c1'[o][f] = c1[o][f]
<1>1. /\ c1 \in [W!Objects -> W!Kept] /\ c4 \in W!Kept /\ c5 \in W!Objects \cup {"none"}
      /\ c2.grouped \in BOOLEAN
  BY DEF W!Typed
<1>2. W!Made \in W!Objects /\ "live" \in W!Statuses
  BY DEF W!Made, W!Objects, W!Statuses
<1>3. CASE W!Kind \in W!Creating
  <2> DEFINE content == [f \in W!Fields |-> IF f \in honoured \cap W!Creates THEN "new" ELSE "blank"]
  <2>1. c1' = [c1 EXCEPT ![W!Made] = W!Holding(state, content)]
    <3>1. W!Kind \notin W!Changing
      BY <1>3, WriteKinds
    <3> QED
      BY <1>3, <3>1 DEF W!Effect
  <2>2. content \in [W!Fields -> W!Values]
    BY DEF W!Values
  <2>3. state \in W!Statuses
    BY <1>3, WriteKinds DEF W!States, W!Statuses
  <2>4. W!Holding(state, content) \in W!Kept
    BY <2>2, <2>3, WriteHolding
  <2> HIDE DEF content
  <2> QED
    BY <1>1, <1>2, <1>3, <2>1, <2>4, WriteKinds
<1>4. CASE W!Kind \in W!Changing /\ W!Live(c5)
  <2> DEFINE content == [f \in W!Fields |-> IF f \notin c2.wants THEN W!Rewritten(f)
                                            ELSE IF f \in honoured THEN "new" ELSE c1[c5][f]]
  <2>1. c5 \in W!Objects /\ c1[c5].status = "live"
    BY <1>4 DEF W!Live
  <2>2. W!Kind \notin W!Creating
    BY <1>4, WriteKinds
  <2>3. c1' = [c1 EXCEPT ![c5] = W!Holding("live", content)]
    BY <1>4, <2>2 DEF W!Effect
  <2>4. \A f \in W!Fields : c1[c5][f] \in W!Values /\ c4[f] \in W!Values
    BY <1>1, <2>1, WriteField
  <2>5. \A f \in W!Fields :
          /\ content[f] \in W!Values
          /\ \/ content[f] = c1[c5][f]
             \/ f \in c2.wants /\ content[f] = "new"
             \/ f \notin c2.wants /\ content[f] = c4[f] /\ W!Kind \notin {"enable_skill", "move_chat"}
    BY <2>4 DEF W!Rewritten, W!Values
  <2>6. content \in [W!Fields -> W!Values]
    BY <2>5
  <2> HIDE DEF content
  <2>7. /\ W!Holding("live", content) \in W!Kept /\ W!Holding("live", content).status = "live"
        /\ \A f \in W!Fields : W!Holding("live", content)[f] = content[f]
    BY <1>2, <2>6, WriteHolding
  <2>8. /\ c1' \in [W!Objects -> W!Kept]
        /\ \A o \in W!Objects : o # c5 => c1'[o] = c1[o]
        /\ c1'[c5].status = "live" /\ \A f \in W!Fields : c1'[c5][f] = content[f]
    BY <1>1, <2>1, <2>3, <2>7
  <2>9. W!Kind \notin W!Deleting
    BY <1>4, WriteKinds
  <2> QED
    BY <2>1, <2>2, <2>5, <2>8, <2>9
<1>5. CASE W!Kind \in W!Changing /\ ~W!Live(c5)
  <2>1. W!Kind \notin W!Creating /\ W!Kind \notin W!Deleting
    BY <1>5, WriteKinds
  <2>2. c1' = c1
    BY <1>5, <2>1 DEF W!Effect
  <2> QED
    BY <1>1, <2>1, <2>2
<1>6. CASE W!Kind \in W!Deleting
  <2>1. W!Kind \notin W!Creating /\ W!Kind \notin W!Changing
    BY <1>6, WriteKinds
  <2>2. CASE honoured = {}
    <3>1. c1' = c1
      BY <2>1, <2>2 DEF W!Effect
    <3> QED
      BY <1>1, <2>1, <3>1
  <2>3. CASE honoured # {}
    <3>1. c1' = [o \in W!Objects |->
                   IF o = "target" \/ (o = "neighbour" /\ c2.grouped)
                   THEN [c1[o] EXCEPT !.status = IF W!Live(o) THEN state ELSE @]
                   ELSE c1[o]]
      BY <2>1, <2>3 DEF W!Effect
    <3>2. state \in {"absent", "deleted"}
      <4>1. W!Kind # "add_source"
        BY <2>1 DEF W!Creating
      <4> QED
        BY <1>6, <2>1, <4>1 DEF W!States
    <3>3. \A o \in W!Objects : c1[o] \in W!Kept
      BY <1>1
    <3>4. \A o \in W!Objects :
            /\ c1'[o] \in W!Kept
            /\ ~(W!Live(o) /\ (o = "target" \/ (o = "neighbour" /\ c2.grouped))) => c1'[o] = c1[o]
            /\ c1'[o].status = c1[o].status \/ c1'[o].status # "live"
            /\ \A f \in W!Fields : c1'[o][f] = c1[o][f]
      BY <3>1, <3>2, <3>3 DEF W!Kept, W!Statuses, W!Fields
    <3>5. c1' \in [W!Objects -> W!Kept]
      BY <3>1, <3>4
    <3> QED
      BY <2>1, <3>4, <3>5
  <2> QED
    BY <2>2, <2>3
<1> QED
  BY <1>3, <1>4, <1>5, <1>6, WriteKinds

LEMMA WriteWants ==
    ASSUME W!Typed
    PROVE  /\ c2.kind \notin W!Deleting => c2.wants \subseteq W!Fields
           /\ c2.kind \in {"enable_skill", "move_chat"} => c2.wants = {"title"}
<1>1. c2.wants \in W!Wants(c2.kind)
  BY DEF W!Typed
<1>2. c2.kind \in {"enable_skill", "move_chat"} => c2.wants = {"title"}
  BY <1>1 DEF W!Wants, W!Deleting
<1>3. c2.kind \notin W!Deleting => c2.wants \subseteq W!Fields
  BY <1>1 DEF W!Wants, W!Fields
<1> QED
  BY <1>2, <1>3

LEMMA WriteReady ==
    ASSUME W!Ready
    PROVE  /\ W!Kind # "move_chat" => W!Live(c5)
           /\ W!Kind = "delete_asset" => ~(c2.grouped /\ W!Live("neighbour"))
<1>1. CASE W!Kind = "delete_asset"
  BY <1>1 DEF W!Ready, W!AssetReady
<1>2. CASE W!Kind # "delete_asset"
  BY <1>2 DEF W!Ready, W!GemReady, W!NotebookReady, W!SourceReady, W!SkillReady, W!RemyReady,
    W!ShareReady, W!LinkReady, W!CanvasReady, W!AssetReady
<1> QED
  BY <1>1, <1>2

(* What a proof in a read back shows.                                      *)
WriteHolds == IF W!Kind \in W!Deleting THEN ~W!Live("target") /\ (c2.grouped => ~W!Live("neighbour"))
        ELSE /\ W!Live(c5)
             /\ \A f \in c2.wants : W!Kind # "create_daily" => c1[c5][f] = "new"
             /\ \A f \in W!Fields \ c2.wants :
                  W!Kind \in W!Changing \ {"enable_skill", "move_chat"} => c1[c5][f] = c4[f]

LEMMA WriteProof ==
    ASSUME W!Typed, W!SentByPlace, W!Named, ~W!TwoReads, W!Proof
    PROVE  WriteHolds
<1>1. CASE W!Kind \in W!Deleting
  <2>1. ~c6 /\ W!Kind = c2.kind /\ c5 = "target" /\ W!Kind \notin W!Creating /\ W!Kind \notin W!Changing
    BY <1>1, WriteKinds DEF W!Named
  <2>2. W!Kind \in {"delete_gem", "delete_notebook", "delete_notebook_and_chats", "remove_source",
                    "delete_skill", "delete_link", "delete_asset"}
    BY <1>1 DEF W!Deleting, W!TwoReads
  <2>3. CASE W!Kind = "delete_asset"
    BY <1>1, <2>1, <2>3 DEF W!Proof, W!AssetGone, WriteHolds
  <2>4. CASE W!Kind # "delete_asset"
    <3>1. ~W!Live(c5)
      BY <2>2, <2>4 DEF W!Proof, W!GemGone, W!NotebookGone, W!SourceRemoved, W!SkillGone, W!LinkGone
    <3>2. ~c2.grouped
      BY <2>1, <2>4 DEF W!Typed
    <3> QED
      BY <1>1, <2>1, <3>1, <3>2 DEF WriteHolds
  <2> QED
    BY <2>3, <2>4
<1>2. CASE W!Kind \in W!Creating \cup W!Changing
  <2>1. W!Kind \notin W!Deleting /\ c2.kind \notin W!Deleting
    BY <1>2, WriteKinds
  <2>2. c2.wants \subseteq W!Fields
    BY <2>1, WriteWants
  <2>3. W!Kind \in {"enable_skill", "move_chat"} => c2.wants = {"title"}
    BY WriteWants, WriteKinds
  <2>4. W!Kind \in {"create_gem", "create_notebook", "create_skill", "create_remy", "create_link",
                    "add_source", "update_gem", "update_notebook", "update_skill",
                    "import_skill", "enable_skill", "update_remy", "edit_canvas", "move_chat"}
    BY <1>2 DEF W!Creating, W!Changing, W!TwoReads
  <2>5. CASE W!Kind \in {"enable_skill", "move_chat"}
    <3>1. W!Holds({"title"})
      BY <2>5 DEF W!Proof, W!SkillEnabled, W!ChatMoved
    <3> QED
      BY <2>1, <2>3, <2>5, <3>1 DEF W!Holds, W!Value, WriteHolds
  <2>6. CASE W!Kind \in {"create_remy", "create_link"}
    <3>1. W!Holds(c2.wants)
      BY <2>6 DEF W!Proof, W!RemyWritten, W!LinkMade
    <3>2. W!Kind \notin W!Changing
      BY <2>6 DEF W!Changing
    <3> QED
      BY <2>1, <3>1, <3>2 DEF W!Holds, W!Value, WriteHolds
  <2>7. CASE W!Kind \in {"create_gem", "create_notebook", "create_skill", "add_source",
                         "update_gem", "update_notebook", "update_skill",
                         "import_skill", "update_remy", "edit_canvas"}
    <3>1. W!Holds(W!Fields)
      BY <2>7 DEF W!Proof, W!GemMade, W!GemChanged, W!NotebookMade, W!NotebookChanged,
        W!SourceAdded, W!SkillSaved, W!SkillImported, W!RemyWritten, W!CanvasReplaced
    <3>2. W!Kind \in W!Changing => W!Kind \notin W!Creating
      BY WriteKinds
    <3> QED
      BY <2>1, <2>2, <3>1, <3>2 DEF W!Holds, W!Value, WriteHolds
  <2> QED
    BY <2>4, <2>5, <2>6, <2>7
<1> QED
  BY <1>1, <1>2, WriteKinds

LEMMA WriteVerified ==
    W!VerifiedIsTrue <=>
      (c13.verdict \in {"verified", "already_absent"} =>
          c5 \in c12 \/ (c2.grouped /\ "neighbour" \in c12) \/ WriteHolds)
BY DEF W!VerifiedIsTrue, WriteHolds

(* A request that takes effect leaves the rest alone and makes no twin of   *)
(* what is sent once.                                                      *)
LEMMA WriteApplied ==
    ASSUME W!Inv, NEW honoured \in SUBSET c2.wants, NEW state \in W!States,
           c1' = W!Effect(honoured, state), UNCHANGED <<c2, c11>>,
           c3 = "send" \/ c8 # {}
    PROVE  /\ W!RestUntouched'
           /\ c2.kind \notin W!Replayed => c1'["twin"].status = "absent"
<1> USE DEF W!Inv
<1>1. /\ {"target", "neighbour", "new", "twin"} = W!Objects
      /\ W!Made = IF c1["new"].status = "absent" THEN "new" ELSE "twin"
  BY DEF W!Objects, W!Made
<1>2. c7 > 0 \/ c3 = "send"
  <2>1. c7 \in 0..2
    BY DEF W!Typed
  <2>2. c7 = 0 => c8 = {}
    BY DEF W!SentByPlace
  <2> QED
    BY <2>1, <2>2
<1>3. W!RestUntouched'
  <2> SUFFICES ASSUME c11 = 0
               PROVE  /\ c1'["neighbour"] = c1["neighbour"]
                      /\ \A f \in W!Fields \ c2.wants : c1["target"][f] = "old" => c1'["target"][f] = "old"
    BY DEF W!RestUntouched
  <2>1. CASE W!Kind \in W!Creating
    BY <1>1, <2>1, WriteEffect
  <2>2. CASE W!Kind \in W!Changing
    <3>1. c6 => c5 = "new"
      BY DEF W!Named
    <3>2. ~c6 => c5 = "target" /\ c2.kind \in W!Changing
      BY <2>2, WriteKinds DEF W!Named
    <3>3. c6 \in BOOLEAN
      BY DEF W!Typed
    <3>4. c1'["neighbour"] = c1["neighbour"]
      BY <1>1, <2>2, <3>1, <3>2, <3>3, WriteEffect
    <3>5. c6 => c1'["target"] = c1["target"]
      BY <1>1, <2>2, <3>1, WriteEffect
    <3>6. ~c6 => \A f \in W!Fields \ c2.wants : c4[f] = "old"
      BY <1>2, <3>2 DEF W!ReadIsOld
    <3>7. \A f \in W!Fields \ c2.wants : c1'["target"][f] \in {c1["target"][f], c4[f]}
      BY <1>1, <2>2, WriteEffect
    <3> QED
      BY <3>3, <3>4, <3>5, <3>6, <3>7
  <2>3. CASE W!Kind \in W!Deleting
    <3>1. c2.grouped => c1["neighbour"].status = "absent"
      <4>1. c2.grouped => c2.beside = "absent" /\ c1["neighbour"] = W!Object("absent", "old")
        BY <1>2 DEF W!ReadIsOld, W!RestUntouched
      <4> QED
        BY <4>1 DEF W!Object, W!Holding
    <3> QED
      BY <1>1, <2>3, <3>1, WriteEffect DEF W!Live
  <2> QED
    BY <2>1, <2>2, <2>3, WriteKinds
<1>4. c2.kind \notin W!Replayed => c1'["twin"].status = "absent"
  <2> SUFFICES ASSUME c2.kind \notin W!Replayed
               PROVE  c1'["twin"].status = "absent"
    OBVIOUS
  <2>1. c1["twin"].status = "absent"
    BY DEF W!SentOnce
  <2>2. CASE W!Kind \in W!Creating
    <3>1. ~c6 /\ c7 <= 1 /\ (c3 = "send" => c7 = 0)
      BY <2>2, WriteKinds DEF W!SentByPlace, W!SentOnce
    <3>2. c1["new"].status = "absent"
      BY <2>2, <3>1 DEF W!SentByPlace, W!OneEffect
    <3> QED
      BY <1>1, <2>1, <2>2, <3>2, WriteEffect
  <2>3. CASE W!Kind \in W!Changing
    BY <1>1, <2>1, <2>3, WriteEffect
  <2>4. CASE W!Kind \in W!Deleting
    BY <1>1, <2>1, <2>4, WriteEffect
  <2> QED
    BY <2>2, <2>3, <2>4, WriteKinds
<1> QED
  BY <1>3, <1>4

LEMMA WriteInit == W!Init => W!Inv
<1> SUFFICES ASSUME W!Init
             PROVE  W!Inv
  OBVIOUS
<1>1. PICK kind \in W!Creating \cup W!Changing \cup W!Deleting : \E wants \in W!Wants(kind) :
        \E status, beside \in {"live", "absent"}, allowed, grouped \in BOOLEAN :
        /\ grouped => kind = "delete_asset"
        /\ ~allowed => kind \in {"update_skill", "import_skill", "edit_canvas", "delete_asset"}
        /\ beside = "absent" => kind \in {"move_chat", "delete_asset"}
        /\ c2 = [kind |-> kind, wants |-> wants, allowed |-> allowed, grouped |-> grouped,
                 beside |-> beside]
        /\ c1 = [o \in W!Objects |->
                   IF o \in {"new", "twin"} THEN W!Object("absent", "blank")
                   ELSE W!Object(IF o = "target" THEN status ELSE beside, "old")]
  BY DEF W!Init
<1>2. PICK wants \in W!Wants(kind), status \in {"live", "absent"}, beside \in {"live", "absent"},
           allowed \in BOOLEAN, grouped \in BOOLEAN :
        /\ grouped => kind = "delete_asset"
        /\ c2 = [kind |-> kind, wants |-> wants, allowed |-> allowed, grouped |-> grouped,
                 beside |-> beside]
        /\ c1 = [o \in W!Objects |->
                   IF o \in {"new", "twin"} THEN W!Object("absent", "blank")
                   ELSE W!Object(IF o = "target" THEN status ELSE beside, "old")]
  BY <1>1
<1>3. /\ c5 = "target" /\ c4 = W!Object("absent", "blank") /\ c7 = 0 /\ c8 = {} /\ c9 = "none"
      /\ c11 = 0 /\ c12 = {} /\ c13 = W!Untold
  BY DEF W!Init
<1>14. c6 = FALSE /\ c3 \in {"read", "send"} /\ (c3 = "send" => ~W!ReadsFirst \/ W!MayName)
  BY DEF W!Init
<1>4. \A s \in {"live", "absent"}, v \in {"old", "blank"} :
        /\ W!Object(s, v) \in W!Kept /\ W!Object(s, v).status = s
        /\ \A f \in W!Fields : W!Object(s, v)[f] = v
  BY DEF W!Object, W!Holding, W!Kept, W!Fields, W!Values, W!Statuses
<1>5. /\ c1 \in [W!Objects -> W!Kept] /\ c4 \in W!Kept
      /\ c1["new"].status = "absent" /\ c1["twin"].status = "absent"
      /\ c1["neighbour"] = W!Object(c2.beside, "old")
      /\ \A f \in W!Fields : c1["target"][f] = "old"
  BY <1>2, <1>3, <1>4 DEF W!Objects
<1>6. /\ c2.kind = kind /\ c2.wants = wants /\ c2.beside = beside /\ c2.grouped = grouped
  BY <1>2
<1>7. /\ ~c6 /\ c6 \in BOOLEAN /\ W!Kind = c2.kind /\ c3 \in {"read", "send"}
      /\ c13.verdict = "none" /\ c13.retry = FALSE
  BY <1>3, <1>14 DEF W!Kind, W!Untold
<1>8. W!Typed
  <2>1. c13 \in [verdict: W!Verdicts, retry: BOOLEAN]
    BY <1>3 DEF W!Untold, W!Verdicts
  <2>2. c5 \in W!Objects \cup {"none"}
    BY <1>3 DEF W!Objects
  <2>3. /\ c2.kind \in W!Creating \cup W!Changing \cup W!Deleting /\ c2.wants \in W!Wants(c2.kind)
        /\ c2.beside \in {"live", "absent"} /\ c2.grouped \in BOOLEAN
        /\ c2.grouped => c2.kind = "delete_asset"
    BY <1>2, <1>6
  <2>4. c7 \in 0..2 /\ c11 \in Nat /\ c12 \subseteq W!Objects /\ c8 \subseteq SUBSET c2.wants
    BY <1>3
  <2> QED
    BY <1>5, <1>7, <2>1, <2>2, <2>3, <2>4 DEF W!Typed
<1>9. W!SentByPlace
  <2>1. c1["new"].status = "absent"
    BY <1>5
  <2>2. c7 = 0 /\ c8 = {} /\ c13 = W!Untold
    BY <1>3
  <2> QED
    BY <1>7, <2>1, <2>2 DEF W!SentByPlace
<1>13. W!Named /\ W!OneEffect /\ W!SeenByPlace
  BY <1>3, <1>5, <1>7 DEF W!Named, W!OneEffect, W!SeenByPlace
<1>10. W!ReadIsOld
  <2> SUFFICES ASSUME c3 = "send"
               PROVE  /\ ~c2.grouped
                      /\ c2.kind \in W!Changing => \A f \in W!Fields \ c2.wants : c4[f] = "old"
    BY <1>3, <1>7 DEF W!ReadIsOld
  <2>1. ~W!ReadsFirst \/ c2.kind = "create_link"
    BY <1>7, <1>14 DEF W!MayName
  <2>2. ~c2.grouped
    BY <1>2, <1>6, <1>7, <2>1 DEF W!ReadsFirst
  <2>3. c2.kind \in W!Changing => c2.wants = W!Fields
    BY <1>7, <2>1 DEF W!ReadsFirst, W!Changing
  <2> QED
    BY <2>2, <2>3
<1>11. W!VerifiedIsTrue /\ W!RefusedIsSilent
  BY <1>3, <1>7 DEF W!VerifiedIsTrue, W!RefusedIsSilent
<1>12. W!SentOnce /\ W!RestUntouched
  BY <1>3, <1>5, <1>7 DEF W!SentOnce, W!RestUntouched
<1> QED
  BY <1>8, <1>9, <1>10, <1>11, <1>12, <1>13 DEF W!Inv

LEMMA WriteReadsBefore ==
    ASSUME W!Inv, W!ReadBefore
    PROVE  W!Inv'
<1> USE DEF W!Inv
<1>1. /\ UNCHANGED <<c1, c2, c5, c6, c7, c8, c9, c10, c11, c12>> /\ c3 = "read"
  BY DEF W!ReadBefore
<1>2. /\ c7 = (IF c6 THEN 1 ELSE 0) /\ c13 = W!Untold /\ c6 \in BOOLEAN
      /\ c7 \in 0..2
  BY <1>1 DEF W!SentByPlace, W!Typed
<1>3. W!Kind' = W!Kind
  BY <1>1 DEF W!Kind
<1>4. W!RestUntouched' /\ W!SentOnce' /\ W!OneEffect' /\ W!Named'
  BY <1>1, <1>3 DEF W!RestUntouched, W!SentOnce, W!OneEffect, W!Named
<1>5. CASE W!Ready /\ c4' = c1[c5] /\ c3' = "send" /\ c13' = c13
  <2>1. c5 \in W!Objects
    <3>1. CASE W!Kind = "move_chat"
      <4>1. ~c6 /\ c2.kind \notin W!Creating
        BY <3>1, WriteKinds DEF W!Creating
      <4> QED
        BY <4>1 DEF W!Named, W!Objects
    <3>2. CASE W!Kind # "move_chat"
      BY <1>5, <3>2, WriteReady DEF W!Live
    <3> QED
      BY <3>1, <3>2
  <2>2. W!Typed'
    <3>1. c1[c5] \in W!Kept
      BY <2>1 DEF W!Typed
    <3> QED
      BY <1>1, <1>5, <3>1 DEF W!Typed
  <2>3. W!SentByPlace' /\ W!SeenByPlace'
    BY <1>1, <1>2, <1>3, <1>5 DEF W!SentByPlace, W!SeenByPlace
  <2>4. W!ReadIsOld'
    <3> SUFFICES ASSUME c11 = 0
                 PROVE  /\ c2.grouped => c2.beside = "absent"
                        /\ ~c6 /\ c2.kind \in W!Changing =>
                             \A f \in W!Fields \ c2.wants : c1[c5][f] = "old"
      BY <1>1, <1>5 DEF W!ReadIsOld
    <3>1. c2.grouped => c2.beside = "absent"
      <4> SUFFICES ASSUME c2.grouped
                   PROVE  c2.beside = "absent"
        OBVIOUS
      <4>1. c2.kind = "delete_asset" /\ c2.beside \in {"live", "absent"}
        BY DEF W!Typed
      <4>2. ~c6
        BY <4>1 DEF W!SentByPlace
      <4>3. ~W!Live("neighbour")
        BY <1>5, <4>1, <4>2, WriteReady, WriteKinds
      <4>4. c1["neighbour"].status = c2.beside
        BY DEF W!RestUntouched, W!Object, W!Holding
      <4> QED
        BY <4>1, <4>3, <4>4 DEF W!Live, W!Objects
    <3>2. ~c6 /\ c2.kind \in W!Changing => c5 = "target"
      BY WriteKinds DEF W!Named
    <3> QED
      BY <3>1, <3>2 DEF W!RestUntouched
  <2>5. W!VerifiedIsTrue' /\ W!RefusedIsSilent'
    BY <1>2, <1>5 DEF W!VerifiedIsTrue, W!RefusedIsSilent, W!Untold
  <2> QED
    BY <1>4, <2>2, <2>3, <2>4, <2>5
<1>6. CASE /\ c4' = c4 /\ c3' = "done"
           /\ \/ W!FinishOuter("not_sent")
              \/ ~W!Ready /\ W!FinishOuter(IF W!Kind = "delete_link" THEN "already_absent" ELSE "not_sent")
              \/ W!Kind = "update_remy" /\ c13' = [verdict |-> "not_sent", retry |-> TRUE]
  <2>1. /\ c13' \in [verdict: W!Verdicts, retry: BOOLEAN]
        /\ c13'.retry \/ c13'.verdict \in {"not_sent", "already_absent"} => ~c6
        /\ c13'.verdict # "verified"
        /\ c13'.verdict = "already_absent" => ~W!Ready /\ W!Kind = "delete_link"
    <3>1. CASE W!FinishOuter("not_sent")
      BY <1>2, <3>1 DEF W!FinishOuter, W!Finish, W!Verdicts
    <3>2. CASE ~W!Ready /\ W!FinishOuter(IF W!Kind = "delete_link" THEN "already_absent" ELSE "not_sent")
      BY <1>2, <3>2 DEF W!FinishOuter, W!Finish, W!Verdicts
    <3>3. CASE W!Kind = "update_remy" /\ c13' = [verdict |-> "not_sent", retry |-> TRUE]
      BY <3>3 DEF W!Kind, W!Verdicts
    <3> QED
      BY <1>6, <3>1, <3>2, <3>3
  <2>2. W!Typed'
    BY <1>1, <1>6, <2>1 DEF W!Typed
  <2>3. W!SentByPlace' /\ W!SeenByPlace'
    BY <1>1, <1>2, <1>6 DEF W!SentByPlace, W!SeenByPlace
  <2>4. W!ReadIsOld'
    BY <1>1, <1>6 DEF W!ReadIsOld
  <2>5. W!RefusedIsSilent'
    BY <1>1, <1>2, <2>1 DEF W!RefusedIsSilent
  <2>6. W!VerifiedIsTrue'
    <3> SUFFICES ASSUME ~W!Ready, W!Kind = "delete_link"
                 PROVE  WriteHolds'
      BY <2>1 DEF W!VerifiedIsTrue, WriteHolds
    <3>1. W!Kind \in W!Deleting /\ W!Kind \notin W!Creating
      BY DEF W!Deleting, W!Creating
    <3>2. ~c6 /\ c2.kind = "delete_link" /\ c5 = "target"
      BY <3>1, WriteKinds DEF W!Named
    <3>3. ~W!Live(c5) /\ ~c2.grouped
      BY <3>2 DEF W!Ready, W!LinkReady, W!Typed
    <3> QED
      BY <1>1, <1>3, <3>1, <3>2, <3>3 DEF WriteHolds, W!Live
  <2> QED
    BY <1>4, <2>2, <2>3, <2>4, <2>5, <2>6
<1> QED
  <2>1. W!FinishOuter("not_sent") => c3' = "done"
    BY DEF W!FinishOuter, W!Finish
  <2>2. W!FinishOuter(IF W!Kind = "delete_link" THEN "already_absent" ELSE "not_sent") => c3' = "done"
    BY DEF W!FinishOuter, W!Finish
  <2> QED
    BY <1>5, <1>6, <2>1, <2>2 DEF W!ReadBefore

(* A request goes out and takes effect, now, later or never.               *)
LEMMA WriteSends ==
    ASSUME W!Inv, W!Send
    PROVE  W!Inv'
<1> USE DEF W!Inv
<1>1. /\ UNCHANGED <<c2, c4, c6, c10, c11, c13>> /\ c3 = "send" /\ c3' = "answered"
      /\ c7' = c7 + 1 /\ c12' = {}
  BY DEF W!Send
<1>2. PICK honoured \in SUBSET c2.wants, state \in W!States :
        \/ /\ c9' \in {"ack", "unreadable", "lost"} \cup (IF W!Kind \in W!Creating THEN {"no_id"} ELSE {})
           /\ c1' = W!Effect(honoured, state)
           /\ c5' = IF W!Kind \in W!Creating THEN W!Made ELSE c5
           /\ c8' = c8
        \/ /\ c9' \in {"refused", "unreadable", "lost"} /\ UNCHANGED <<c1, c5, c8>>
        \/ /\ c9' = "lost" /\ c8' = c8 \cup {honoured} /\ UNCHANGED <<c1, c5>>
  BY DEF W!Send
<1>3. c6 \in BOOLEAN /\ c7 \in 0..2
  BY DEF W!Typed
<1>4. /\ c13 = W!Untold /\ W!Kind' = W!Kind
      /\ c7 = (IF c6 THEN 1 ELSE 0) \/ (c7 = 1 /\ c2.kind \in W!Replayed)
  BY <1>1 DEF W!SentByPlace, W!Kind
<1>5. c7 \in 0..1 /\ c7' > 0 /\ c7' \in 0..2 /\ (c7' = 2 => c6 \/ c2.kind \in W!Replayed)
  BY <1>1, <1>3, <1>4
<1>6. W!Kind \in W!Creating => ~c6 /\ (c1["new"].status = "absent" \/ c8 = {})
      /\ (c7 # 0 => c2.kind \in W!Replayed /\ c7 = 1)
      /\ (c7 = 0 => c1["new"].status = "absent" /\ c8 = {})
  BY <1>3, <1>4, WriteKinds DEF W!SentByPlace, W!OneEffect
<1>7. W!Made \in W!Objects /\ W!Made = IF c1["new"].status = "absent" THEN "new" ELSE "twin"
  BY DEF W!Made, W!Objects
<1>8. c5 # "twin"
  BY <1>5 DEF W!Named
<1>9. /\ c5' = c5 \/ (W!Kind \in W!Creating /\ c5' = W!Made /\ c8' = c8)
      /\ W!Kind \in W!Creating /\ c9' = "ack" => c5' = W!Made
  BY <1>2
<1>10. W!Typed'
  <2>1. c1' \in [W!Objects -> W!Kept]
    BY <1>2, WriteEffect DEF W!Typed
  <2>2. c5' \in W!Objects \cup {"none"}
    BY <1>7, <1>9 DEF W!Typed
  <2>3. c8' \subseteq SUBSET c2.wants
    BY <1>2 DEF W!Typed
  <2> QED
    BY <1>1, <1>5, <2>1, <2>2, <2>3 DEF W!Typed
<1>11. W!SentByPlace'
  BY <1>1, <1>4, <1>5 DEF W!SentByPlace
<1>12. W!Named'
  <2>1. ~c6 /\ c2.kind \notin W!Creating => c5' = "target"
    BY <1>9, WriteKinds DEF W!Named
  <2>2. c6 => c5' = "new"
    BY <1>6, <1>9 DEF W!Named
  <2>3. c5' = "none" => c2.kind = "add_source"
    BY <1>7, <1>9 DEF W!Named
  <2>4. c2.kind \in W!Creating \ W!Replayed /\ c9' = "ack" => c5' = "new"
    <3>1. CASE c6
      BY <3>1, <2>2
    <3>2. CASE ~c6
      BY <3>2, <1>5, <1>6, <1>7, <1>9, WriteKinds
    <3> QED
      BY <3>1, <3>2
  <2>5. c5' = "twin" => c7' = 2 /\ c8' = {}
    BY <1>1, <1>5, <1>6, <1>7, <1>8, <1>9
  <2> QED
    BY <1>1, <2>1, <2>2, <2>3, <2>4, <2>5 DEF W!Named
<1>13. W!OneEffect'
  <2> SUFFICES ASSUME W!Kind \in W!Creating, c7' <= 1
               PROVE  c8' = {} \/ (c1'["new"].status = "absent" /\ \E h \in c8' : c8' = {h})
    BY <1>4 DEF W!OneEffect
  <2>1. c7 = 0 /\ c8 = {} /\ c1["new"].status = "absent"
    BY <1>1, <1>5, <1>6
  <2> QED
    BY <1>2, <2>1
<1>14. W!ReadIsOld' /\ W!SeenByPlace' /\ W!VerifiedIsTrue' /\ W!RefusedIsSilent'
  BY <1>1, <1>4 DEF W!ReadIsOld, W!SeenByPlace, W!VerifiedIsTrue, W!RefusedIsSilent, W!Untold
<1>15. W!RestUntouched' /\ (c2.kind \notin W!Replayed => c1'["twin"].status = "absent")
  <2>1. CASE c1' = W!Effect(honoured, state)
    BY <1>1, <2>1, WriteApplied
  <2>2. CASE c1' = c1
    BY <1>1, <2>2 DEF W!RestUntouched, W!SentOnce
  <2> QED
    BY <1>2, <2>1, <2>2
<1>16. W!SentOnce'
  BY <1>1, <1>3, <1>4, <1>15 DEF W!SentOnce
<1> QED
  BY <1>10, <1>11, <1>12, <1>13, <1>14, <1>15, <1>16

(* What was found true of the account stays so when a request without an    *)
(* answer takes effect after all.                                          *)
LEMMA WriteLands ==
    ASSUME W!Inv, W!Land
    PROVE  W!Inv'
<1> USE DEF W!Inv
<1>1. PICK honoured \in c8, state \in W!States :
        c1' = W!Effect(honoured, state) /\ c8' = c8 \ {honoured}
  BY DEF W!Land
<1>2. UNCHANGED <<c2, c3, c4, c5, c6, c7, c9, c10, c11, c12, c13>>
  BY DEF W!Land
<1>3. honoured \in SUBSET c2.wants /\ c6 \in BOOLEAN /\ c7 \in 0..2
  BY DEF W!Typed
<1>4. c7 # 0 /\ W!Kind' = W!Kind
  BY <1>1, <1>2 DEF W!SentByPlace, W!Kind
<1>5. W!Typed'
  <2>1. c1' \in [W!Objects -> W!Kept]
    BY <1>1, <1>3, WriteEffect
  <2>2. c8' \subseteq SUBSET c2.wants
    BY <1>1 DEF W!Typed
  <2> QED
    BY <1>2, <2>1, <2>2 DEF W!Typed
<1>6. W!SentByPlace'
  BY <1>2, <1>4 DEF W!SentByPlace, W!TwoReads
<1>7. W!Named'
  BY <1>1, <1>2 DEF W!Named
<1>8. W!OneEffect'
  BY <1>1, <1>2, <1>4 DEF W!OneEffect
<1>9. W!ReadIsOld' /\ W!RefusedIsSilent'
  BY <1>2 DEF W!ReadIsOld, W!RefusedIsSilent
<1>10. W!RestUntouched' /\ (c2.kind \notin W!Replayed => c1'["twin"].status = "absent")
  BY <1>1, <1>2, <1>3, WriteApplied
<1>11. W!SentOnce'
  BY <1>2, <1>10 DEF W!SentOnce
<1>12. W!Kind \in W!Creating /\ W!Live(c5) => W!Live(c5)' /\ c1'[c5] = c1[c5]
  <2> SUFFICES ASSUME W!Kind \in W!Creating, W!Live(c5)
               PROVE  c1'[c5] = c1[c5]
    BY <1>2 DEF W!Live
  <2>1. c5 # "twin"
    BY <1>1 DEF W!Named
  <2>2. c5 # W!Made /\ c5 \in W!Objects
    BY <2>1 DEF W!Made, W!Live
  <2> QED
    BY <1>1, <1>3, <2>2, WriteEffect
<1>13. W!Kind \in W!Deleting => \A o \in W!Objects : ~W!Live(o) => ~W!Live(o)'
  BY <1>1, <1>3, WriteEffect DEF W!Live
<1>14. W!SeenByPlace'
  <2> SUFFICES ASSUME c3 = "by_id"
               PROVE  /\ W!Kind = "create_daily" /\ c10 = "listed" => W!Live(c5)' \/ c5 \in c12
                      /\ W!Kind = "delete_remy" /\ c10 = "unlisted" => ~W!Live(c5)'
    BY <1>2, <1>4 DEF W!SeenByPlace
  <2>1. W!Kind = "create_daily" => W!Kind \in W!Creating
    BY DEF W!Creating
  <2>2. W!Kind = "delete_remy" => W!Kind \in W!Deleting /\ c5 \in W!Objects
    <3>1. W!Kind = "delete_remy" => W!Kind \in W!Deleting /\ W!Kind \notin W!Creating
      BY DEF W!Deleting, W!Creating
    <3> QED
      BY <3>1, WriteKinds DEF W!Named, W!Objects
  <2> QED
    BY <1>2, <1>12, <1>13, <2>1, <2>2 DEF W!SeenByPlace
<1>15. W!VerifiedIsTrue'
  <2> SUFFICES ASSUME c13.verdict \in {"verified", "already_absent"}, WriteHolds
               PROVE  WriteHolds'
    BY <1>2 DEF W!VerifiedIsTrue, WriteHolds
  <2>1. CASE W!Kind \in W!Deleting
    BY <1>2, <1>4, <1>13, <2>1 DEF WriteHolds, W!Objects
  <2>2. CASE W!Kind \in W!Creating
    <3>1. W!Kind \notin W!Deleting /\ W!Kind \notin W!Changing
      BY <2>2, WriteKinds
    <3> QED
      BY <1>2, <1>4, <1>12, <2>2, <3>1 DEF WriteHolds
  <2>3. CASE W!Kind \in W!Changing
    <3>1. W!Kind \notin W!Deleting /\ W!Kind \notin W!Creating /\ c2.kind \notin W!Deleting
      BY <2>3, WriteKinds
    <3>2. W!Live(c5) /\ c5 \in W!Objects
      BY <2>3, <3>1 DEF WriteHolds, W!Live
    <3>3. c2.wants \subseteq W!Fields
      BY <3>1, WriteWants
    <3>4. /\ c1'[c5].status = c1[c5].status
          /\ \A f \in W!Fields :
               \/ c1'[c5][f] = c1[c5][f]
               \/ f \in c2.wants /\ c1'[c5][f] = "new"
               \/ f \notin c2.wants /\ c1'[c5][f] = c4[f] /\ W!Kind \notin {"enable_skill", "move_chat"}
      BY <1>1, <1>3, <2>3, <3>2, WriteEffect
    <3>5. W!Live(c5)'
      BY <1>2, <3>2, <3>4 DEF W!Live
    <3>6. \A f \in c2.wants : W!Kind # "create_daily" => c1'[c5][f] = "new"
      BY <3>1, <3>3, <3>4 DEF WriteHolds
    <3>7. \A f \in W!Fields \ c2.wants :
            W!Kind \in W!Changing \ {"enable_skill", "move_chat"} => c1'[c5][f] = c4[f]
      BY <3>1, <3>4 DEF WriteHolds
    <3> QED
      BY <1>2, <1>4, <3>1, <3>5, <3>6, <3>7 DEF WriteHolds
  <2> QED
    BY <2>1, <2>2, <2>3, WriteKinds
<1> QED
  BY <1>5, <1>6, <1>7, <1>8, <1>9, <1>10, <1>11, <1>14, <1>15

(* A step that neither sends nor lands: the account, and what there is to   *)
(* say of it and of the read before, stay.                                 *)
LEMMA WriteQuiet ==
    ASSUME W!Inv, UNCHANGED <<c1, c2, c4, c6, c7, c8, c9, c11, c12>>, c3 \notin {"read", "done"},
           c3' # "send" \/ c7 > 0
    PROVE  /\ W!Kind' = W!Kind
           /\ W!OneEffect' /\ W!ReadIsOld' /\ W!SentOnce' /\ W!RestUntouched'
<1> USE DEF W!Inv
<1>1. W!Kind' = W!Kind
  BY DEF W!Kind
<1>2. c7 > 0 \/ c3 = "send"
  BY DEF W!SentByPlace, W!Typed
<1>3. W!OneEffect' /\ W!SentOnce' /\ W!RestUntouched'
  BY <1>1 DEF W!OneEffect, W!SentOnce, W!RestUntouched
<1>4. W!ReadIsOld'
  BY <1>2 DEF W!ReadIsOld
<1> QED
  BY <1>1, <1>3, <1>4

LEMMA WriteUploadFails ==
    ASSUME W!Inv, W!UploadFails
    PROVE  W!Inv'
<1> USE DEF W!Inv
<1>1. /\ UNCHANGED <<c1, c2, c4, c5, c6, c7, c8, c9, c10, c11, c12>>
      /\ c3 = "send" /\ c3' = "done" /\ c13' = [verdict |-> "not_sent", retry |-> FALSE]
      /\ W!Kind \in {"create_skill", "update_skill", "import_skill", "add_source"}
  BY DEF W!UploadFails, W!Finish
<1>2. /\ W!Kind' = W!Kind
      /\ W!OneEffect' /\ W!ReadIsOld' /\ W!SentOnce' /\ W!RestUntouched'
  BY <1>1, WriteQuiet
<1>3. ~c6 /\ c2.kind \notin W!Replayed
  <2>1. c6 => W!Kind = "update_notebook"
    BY WriteKinds
  <2>2. ~c6 /\ W!Kind = c2.kind
    BY <1>1, <2>1, WriteKinds
  <2> QED
    BY <1>1, <2>2 DEF W!Replayed
<1>4. c7 = 0
  BY <1>1, <1>3 DEF W!SentByPlace
<1>5. W!Typed'
  BY <1>1 DEF W!Typed, W!Verdicts
<1>6. W!SentByPlace' /\ W!Named' /\ W!SeenByPlace'
  BY <1>1, <1>4 DEF W!SentByPlace, W!Named, W!SeenByPlace
<1>7. W!VerifiedIsTrue' /\ W!RefusedIsSilent'
  BY <1>1, <1>4 DEF W!VerifiedIsTrue, W!RefusedIsSilent
<1> QED
  BY <1>2, <1>5, <1>6, <1>7

LEMMA WriteResends ==
    ASSUME W!Inv, W!Resend
    PROVE  W!Inv'
<1> USE DEF W!Inv
<1>1. /\ UNCHANGED <<c1, c2, c4, c5, c6, c7, c8, c9, c10, c11, c12, c13>>
      /\ c3 = "answered" /\ c3' = "send" /\ c2.kind \in W!Replayed /\ c7 < 2
  BY DEF W!Resend
<1>2. c7 = 1 /\ c7 > 0
  BY <1>1 DEF W!SentByPlace, W!Typed
<1>3. /\ W!Kind' = W!Kind
      /\ W!OneEffect' /\ W!ReadIsOld' /\ W!SentOnce' /\ W!RestUntouched'
  BY <1>1, <1>2, WriteQuiet
<1>4. W!Typed'
  BY <1>1 DEF W!Typed
<1>5. W!SentByPlace' /\ W!Named' /\ W!SeenByPlace'
  BY <1>1, <1>2 DEF W!SentByPlace, W!Named, W!SeenByPlace
<1>6. W!VerifiedIsTrue' /\ W!RefusedIsSilent'
  BY <1>1 DEF W!VerifiedIsTrue, W!RefusedIsSilent, W!SentByPlace, W!Untold
<1> QED
  BY <1>3, <1>4, <1>5, <1>6

(* What a call is told, the first half of create_notebook excepted.        *)
LEMMA WriteTells ==
    ASSUME W!Inv, NEW verdict \in {"verified", "unverified", "failed", "raised"},
           W!FinishOuter(verdict) \/ W!Finish(verdict), c3 \notin {"read", "done"}, c7 > 0,
           UNCHANGED <<c1, c2, c4, c5, c6, c7, c8, c9, c11, c12>>,
           verdict = "verified" => c5 \in c12 \/ WriteHolds
    PROVE  W!Inv'
<1> USE DEF W!Inv
<1>1. /\ c3' = "done" /\ c13' \in [verdict: W!Verdicts, retry: BOOLEAN] /\ ~c13'.retry
      /\ c13'.verdict \in {verdict, "unverified"}
  <2>1. c3' = "done" /\ \E v \in {verdict, "unverified"} : c13' = [verdict |-> v, retry |-> FALSE]
    BY DEF W!FinishOuter, W!Finish
  <2>2. {verdict, "unverified"} \subseteq W!Verdicts
    BY DEF W!Verdicts
  <2> QED
    BY <2>1, <2>2
<1>2. /\ W!Kind' = W!Kind
      /\ W!OneEffect' /\ W!ReadIsOld' /\ W!SentOnce' /\ W!RestUntouched'
  BY <1>1, WriteQuiet
<1>3. W!Typed'
  BY <1>1 DEF W!Typed
<1>4. W!SentByPlace' /\ W!Named' /\ W!SeenByPlace'
  BY <1>1 DEF W!SentByPlace, W!Named, W!SeenByPlace
<1>5. W!RefusedIsSilent'
  BY <1>1 DEF W!RefusedIsSilent
<1>6. W!VerifiedIsTrue'
  BY <1>1, <1>2 DEF W!VerifiedIsTrue, WriteHolds, W!Live
<1> QED
  BY <1>2, <1>3, <1>4, <1>5, <1>6

LEMMA WriteAnswered ==
    ASSUME W!Inv, W!Answered
    PROVE  W!Inv'
<1> USE DEF W!Inv
<1>1. UNCHANGED <<c1, c2, c4, c7, c8, c9, c10, c11, c12>> /\ c3 = "answered"
  BY DEF W!Answered
<1>2. c13 = W!Untold /\ c7 > 0 /\ c7 \in 0..2 /\ c6 \in BOOLEAN
  BY <1>1 DEF W!SentByPlace, W!Typed
<1>3. CASE /\ UNCHANGED <<c5, c6>>
           /\ \E verdict \in {"unverified", "failed", "raised"} :
                W!FinishOuter(verdict) \/ W!Finish(verdict)
  BY <1>1, <1>2, <1>3, WriteTells
<1>4. CASE /\ c3' = "verify" /\ c13' = c13 /\ c6' = c6
           /\ c5' = c5 \/ (c5' = "none" /\ W!Kind = "add_source" /\ c9 = "no_id")
  <2>1. /\ W!Kind' = W!Kind
        /\ W!OneEffect' /\ W!ReadIsOld' /\ W!SentOnce' /\ W!RestUntouched'
    BY <1>1, <1>4, WriteQuiet
  <2>2. W!Typed'
    BY <1>1, <1>4 DEF W!Typed
  <2>3. W!SentByPlace' /\ W!SeenByPlace'
    BY <1>1, <1>2, <1>4 DEF W!SentByPlace, W!SeenByPlace
  <2>4. W!Named'
    <3>1. CASE c5' = c5
      BY <1>1, <1>4, <3>1 DEF W!Named
    <3>2. CASE c5' = "none" /\ W!Kind = "add_source" /\ c9 = "no_id"
      <4>1. W!Kind \in W!Creating
        BY <3>2 DEF W!Creating
      <4>2. ~c6 /\ c2.kind = "add_source" /\ c2.kind \in W!Creating
        BY <3>2, <4>1, WriteKinds
      <4> QED
        BY <1>1, <1>4, <3>2, <4>2 DEF W!Named
    <3> QED
      BY <1>4, <3>1, <3>2
  <2>5. W!VerifiedIsTrue' /\ W!RefusedIsSilent'
    BY <1>2, <1>4 DEF W!VerifiedIsTrue, W!RefusedIsSilent, W!Untold
  <2> QED
    BY <2>1, <2>2, <2>3, <2>4, <2>5
<1>5. CASE /\ c6' = TRUE /\ c3' = "read" /\ UNCHANGED <<c5, c13>>
           /\ W!Kind = "create_notebook" /\ c9 = "ack"
  <2>1. ~c6 /\ c2.kind = "create_notebook"
    BY <1>5 DEF W!Kind
  <2>2. /\ "create_notebook" \in W!Creating \ W!Replayed /\ "update_notebook" \in W!Changing
        /\ "update_notebook" \notin W!Creating /\ "update_notebook" \notin W!Deleting
    BY DEF W!Creating, W!Changing, W!Deleting, W!Replayed
  <2>3. c5 = "new" /\ c7 = 1
    BY <1>2, <1>5, <2>1, <2>2 DEF W!Named, W!SentByPlace
  <2>4. W!Kind' = "update_notebook"
    BY <1>5 DEF W!Kind
  <2>5. W!Typed'
    BY <1>1, <1>5 DEF W!Typed
  <2>6. W!SentByPlace' /\ W!SeenByPlace'
    BY <1>1, <1>2, <1>5, <2>1, <2>3 DEF W!SentByPlace, W!SeenByPlace
  <2>7. W!Named' /\ W!OneEffect'
    BY <1>1, <1>5, <2>1, <2>2, <2>3, <2>4 DEF W!Named, W!OneEffect
  <2>8. W!ReadIsOld' /\ W!RestUntouched' /\ W!SentOnce'
    BY <1>1, <1>2, <1>5, <2>1, <2>3 DEF W!ReadIsOld, W!RestUntouched, W!SentOnce
  <2>9. W!VerifiedIsTrue' /\ W!RefusedIsSilent'
    BY <1>2, <1>5 DEF W!VerifiedIsTrue, W!RefusedIsSilent, W!Untold
  <2> QED
    BY <2>5, <2>6, <2>7, <2>8, <2>9
<1>6. CASE c9 = "lost" /\ W!FinishOuter("raised") /\ UNCHANGED <<c5, c6, c4>>
  BY <1>3, <1>6
<1>7. CASE W!FinishOuter("failed") /\ UNCHANGED <<c5, c6, c4>>
  BY <1>3, <1>7
<1>8. CASE /\ c9 = "no_id" /\ UNCHANGED <<c6, c4>>
           /\ CASE W!Kind \in {"create_daily", "create_remy"} -> W!Finish("failed") /\ UNCHANGED c5
                [] W!Kind = "add_source" -> c3' = "verify" /\ c5' = "none" /\ UNCHANGED c13
                [] OTHER -> W!Finish("unverified") /\ UNCHANGED c5
  <2>1. \/ (W!Finish("failed") \/ W!Finish("unverified")) /\ UNCHANGED c5
        \/ W!Kind = "add_source" /\ c3' = "verify" /\ c5' = "none" /\ UNCHANGED c13
    BY <1>8
  <2> QED
    BY <1>3, <1>4, <1>8, <2>1
<1>9. CASE /\ c9 = "ack" \/ (W!Overlooked /\ c9 \in {"refused", "unreadable"})
           /\ IF W!Kind = "create_notebook" /\ "text" \in c2.wants
              THEN c6' = TRUE /\ c3' = "read"
              ELSE c3' = "verify" /\ UNCHANGED c6
           /\ UNCHANGED <<c13, c5, c4>>
  <2>1. W!Kind = "create_notebook" => c9 = "ack"
    BY <1>9 DEF W!Overlooked
  <2> QED
    BY <1>4, <1>5, <1>9, <2>1
<1> QED
  BY <1>6, <1>7, <1>8, <1>9 DEF W!Answered

LEMMA WriteVerifies ==
    ASSUME W!Inv, W!Verify
    PROVE  W!Inv'
<1> USE DEF W!Inv
<1>1. /\ UNCHANGED <<c1, c2, c4, c5, c6, c7, c8, c9, c10, c11, c12>>
      /\ c3 = "verify" /\ ~W!TwoReads
      /\ \/ W!FinishOuter(IF W!Proof THEN "verified" ELSE "unverified")
         \/ W!FinishOuter("unverified")
         \/ W!Finish("raised")
  BY DEF W!Verify
<1>2. c7 > 0
  BY <1>1 DEF W!SentByPlace
<1>3. W!Proof => WriteHolds
  BY <1>1, WriteProof
<1>4. CASE W!Proof /\ W!FinishOuter("verified")
  BY <1>1, <1>2, <1>3, <1>4, WriteTells
<1>5. CASE W!FinishOuter("unverified")
  BY <1>1, <1>2, <1>5, WriteTells
<1>6. CASE W!Finish("raised")
  BY <1>1, <1>2, <1>6, WriteTells
<1> QED
  BY <1>1, <1>4, <1>5, <1>6

LEMMA WriteRegistry ==
    ASSUME W!Inv, W!ReadRegistry
    PROVE  W!Inv'
<1> USE DEF W!Inv
<1>1. /\ UNCHANGED <<c1, c2, c4, c5, c6, c7, c8, c9, c11, c12, c13>>
      /\ c3 = "verify" /\ c3' = "by_id" /\ W!TwoReads
      /\ c10' = "listed" /\ W!Kind = "create_daily" => W!Live(c5)
      /\ c10' = "unlisted" /\ W!Kind = "delete_remy" => ~W!Live(c5)
  BY DEF W!ReadRegistry
<1>2. /\ W!Kind' = W!Kind
      /\ W!OneEffect' /\ W!ReadIsOld' /\ W!SentOnce' /\ W!RestUntouched'
  BY <1>1, WriteQuiet
<1>3. W!Typed'
  BY <1>1 DEF W!Typed
<1>4. c7 > 0 /\ c13 = W!Untold
  BY <1>1 DEF W!SentByPlace
<1>5. W!SentByPlace'
  BY <1>1, <1>2, <1>4 DEF W!SentByPlace, W!TwoReads
<1>6. W!Named' /\ W!SeenByPlace'
  BY <1>1, <1>2 DEF W!Named, W!SeenByPlace, W!Live
<1>7. W!VerifiedIsTrue' /\ W!RefusedIsSilent'
  BY <1>1, <1>4 DEF W!VerifiedIsTrue, W!RefusedIsSilent, W!Untold
<1> QED
  BY <1>2, <1>3, <1>5, <1>6, <1>7

LEMMA WriteReadsByID ==
    ASSUME W!Inv, W!ReadByID
    PROVE  W!Inv'
<1> USE DEF W!Inv
<1>1. UNCHANGED <<c1, c2, c4, c5, c6, c7, c8, c9, c10, c11, c12>> /\ c3 = "by_id"
  BY DEF W!ReadByID
<1>2. PICK status \in {c1[c5].status, "unavailable"} :
        W!Finish(IF CASE W!Kind = "create_daily" -> W!DailyMade(status)
                      [] W!Kind = "delete_daily" -> W!DailyGone(status)
                      [] OTHER -> W!RemyGone(status)
                 THEN "verified" ELSE "unverified")
  BY DEF W!ReadByID
<1>3. c7 > 0 /\ W!Kind \in {"create_daily", "delete_daily", "delete_remy"}
  BY <1>1 DEF W!SentByPlace, W!TwoReads
<1>4. /\ "create_daily" \in W!Creating /\ "create_daily" \notin W!Changing /\ "create_daily" \notin W!Deleting
      /\ {"delete_daily", "delete_remy"} \subseteq W!Deleting
  BY DEF W!Creating, W!Changing, W!Deleting
<1>5. W!Kind = c2.kind /\ ~c6 /\ ~c2.grouped
  BY <1>3, <1>4, WriteKinds DEF W!Typed
<1>6. CASE W!Kind = "create_daily"
  <2>1. W!DailyMade(status) => c5 \in c12 \/ W!Live(c5)
    <3>1. c5 \in W!Objects
      BY <1>5, <1>6 DEF W!Named, W!Typed
    <3>2. c10 = "listed" => W!Live(c5) \/ c5 \in c12
      BY <1>1, <1>6 DEF W!SeenByPlace
    <3> QED
      BY <3>1, <3>2 DEF W!DailyMade, W!Live
  <2>2. W!Live(c5) => WriteHolds
    BY <1>4, <1>6 DEF WriteHolds
  <2>3. CASE W!DailyMade(status)
    BY <1>1, <1>2, <1>3, <1>6, <2>1, <2>2, <2>3, WriteTells
  <2>4. CASE ~W!DailyMade(status)
    BY <1>1, <1>2, <1>3, <1>6, <2>4, WriteTells
  <2> QED
    BY <2>3, <2>4
<1>7. CASE W!Kind \in {"delete_daily", "delete_remy"}
  <2> DEFINE gone == IF W!Kind = "delete_daily" THEN W!DailyGone(status) ELSE W!RemyGone(status)
  <2>1. c5 = "target"
    BY <1>4, <1>5, <1>7, WriteKinds DEF W!Named
  <2>2. gone => ~W!Live(c5)
    <3>1. W!Kind = "delete_remy" /\ c10 = "unlisted" => ~W!Live(c5)
      BY <1>1 DEF W!SeenByPlace
    <3> QED
      BY <1>7, <3>1 DEF W!DailyGone, W!RemyGone, W!Live
  <2>3. gone => WriteHolds
    BY <1>4, <1>5, <1>7, <2>1, <2>2 DEF WriteHolds
  <2>4. W!Finish(IF gone THEN "verified" ELSE "unverified")
    BY <1>2, <1>7
  <2> HIDE DEF gone
  <2>5. CASE gone
    BY <1>1, <1>3, <2>3, <2>4, <2>5, WriteTells
  <2>6. CASE ~gone
    BY <1>1, <1>3, <2>4, <2>6, WriteTells
  <2> QED
    BY <2>5, <2>6
<1> QED
  BY <1>3, <1>6, <1>7

(* Whatever the user changes in another tab, what was told of it says so.   *)
LEMMA WriteElsewhere ==
    ASSUME W!Inv, W!Elsewhere
    PROVE  W!Inv'
<1> USE DEF W!Inv
<1>1. PICK o \in W!Objects :
        /\ \/ W!Live(o) /\ \E f \in W!Fields : c1' = [c1 EXCEPT ![o][f] = "other"]
           \/ W!Live(o) /\ c1' = [c1 EXCEPT ![o].status = "absent"]
           \/ o = "neighbour" /\ ~W!Live(o) /\ c1' = [c1 EXCEPT ![o].status = "live"]
        /\ c12' = c12 \cup {o}
  BY DEF W!Elsewhere
<1>2. /\ UNCHANGED <<c2, c3, c4, c5, c6, c7, c8, c9, c10, c13>> /\ c11' = c11 + 1
  BY DEF W!Elsewhere
<1>3. c1 \in [W!Objects -> W!Kept] /\ c11 \in Nat
  BY DEF W!Typed
<1>4. c1' \in [W!Objects -> W!Kept]
  <2>1. CASE \E f \in W!Fields : c1' = [c1 EXCEPT ![o][f] = "other"]
    BY <1>3, <2>1 DEF W!Kept, W!Fields, W!Values
  <2>2. CASE c1' = [c1 EXCEPT ![o].status = "absent"]
    BY <1>3, <2>2 DEF W!Kept, W!Statuses
  <2>3. CASE c1' = [c1 EXCEPT ![o].status = "live"]
    BY <1>3, <2>3 DEF W!Kept, W!Statuses
  <2> QED
    BY <1>1, <2>1, <2>2, <2>3
<1>5. (\A p \in W!Objects : p # o => c1'[p] = c1[p]) /\ (W!Live(o) \/ o = "neighbour")
  BY <1>1, <1>3
<1>6. c11' # 0 /\ W!Kind' = W!Kind
  BY <1>2, <1>3 DEF W!Kind
<1>7. \A p \in {"target", "new", "twin"} : c1[p].status # "live" => c1'[p] = c1[p]
  BY <1>5 DEF W!Live, W!Objects
<1>8. W!Typed'
  BY <1>1, <1>2, <1>3, <1>4 DEF W!Typed
<1>9. W!SentByPlace' /\ W!Named'
  BY <1>2, <1>7 DEF W!SentByPlace, W!Named, W!TwoReads, W!Kind
<1>10. W!OneEffect' /\ W!SentOnce'
  BY <1>2, <1>6, <1>7 DEF W!OneEffect, W!SentOnce
<1>11. W!ReadIsOld' /\ W!RestUntouched' /\ W!RefusedIsSilent'
  BY <1>2, <1>6 DEF W!ReadIsOld, W!RestUntouched, W!RefusedIsSilent
<1>12. W!Live(c5) => W!Live(c5)' \/ c5 \in c12'
  BY <1>1, <1>2, <1>5 DEF W!Live
<1>13. c5 = "target" => (~W!Live(c5) => ~W!Live(c5)')
  BY <1>2, <1>7 DEF W!Live, W!Objects
<1>14. W!Kind \in W!Deleting => c5 = "target" /\ W!Kind \notin W!Creating
  BY WriteKinds DEF W!Named
<1>15. W!SeenByPlace'
  <2>1. W!Kind = "delete_remy" => c5 = "target"
    BY <1>14 DEF W!Deleting
  <2>2. c5 \in c12 => c5 \in c12'
    BY <1>1
  <2> QED
    BY <1>2, <1>6, <1>12, <1>13, <2>1, <2>2 DEF W!SeenByPlace
<1>16. W!VerifiedIsTrue'
  <2> SUFFICES ASSUME c13.verdict \in {"verified", "already_absent"},
                      c5 \notin c12', ~(c2.grouped /\ "neighbour" \in c12')
               PROVE  WriteHolds'
    BY <1>2 DEF W!VerifiedIsTrue, WriteHolds
  <2>1. c5 # o /\ (c2.grouped => o # "neighbour") /\ WriteHolds
    BY <1>1 DEF W!VerifiedIsTrue, WriteHolds
  <2>2. CASE W!Kind \in W!Deleting
    <3>1. ~W!Live("target")' /\ (c2.grouped => ~W!Live("neighbour")')
      BY <1>2, <1>5, <1>13, <1>14, <2>1, <2>2 DEF WriteHolds, W!Live, W!Objects
    <3> QED
      BY <1>2, <1>6, <2>2, <3>1 DEF WriteHolds
  <2>3. CASE W!Kind \notin W!Deleting
    <3>1. W!Live(c5) /\ c5 \in W!Objects /\ c1'[c5] = c1[c5]
      BY <1>5, <2>1, <2>3 DEF WriteHolds, W!Live
    <3> QED
      BY <1>2, <1>6, <2>1, <2>3, <3>1 DEF WriteHolds, W!Live
  <2> QED
    BY <2>2, <2>3
<1> QED
  BY <1>8, <1>9, <1>10, <1>11, <1>15, <1>16

LEMMA WriteStep ==
    ASSUME W!Inv, [W!Next]_(W!wvars)
    PROVE  W!Inv'
<1>1. CASE UNCHANGED W!wvars
  BY <1>1 DEF W!wvars, W!Inv, W!Typed, W!SentByPlace, W!Named, W!OneEffect, W!ReadIsOld,
    W!SeenByPlace, W!VerifiedIsTrue, W!RefusedIsSilent, W!SentOnce, W!RestUntouched,
    W!Kind, W!TwoReads, W!Live
<1> QED
  BY <1>1, WriteReadsBefore, WriteUploadFails, WriteSends, WriteLands, WriteResends,
    WriteAnswered, WriteVerifies, WriteRegistry, WriteReadsByID, WriteElsewhere DEF W!Next

(* In every behaviour of a call that changes something of the account,      *)
(* whatever the provider answers or carries out later and however often the *)
(* user changes the same things meanwhile: "verified" is true of all the    *)
(* twenty-four kinds, "not sent" never reached the provider, a request goes *)
(* out once unless the SDK repeats it, and nothing else is changed          *)
(* (account_facade.py:64, scheduled.py:549).                               *)
THEOREM WritesAreHonest == Spec => []WritesAreTrue
<1>1. Init => WritePart
  BY WriteInit DEF Init, WritePart
<1>2. WritePart /\ [Next]_vars => WritePart'
  <2> SUFFICES ASSUME WritePart, [Next]_vars, part' = "write"
               PROVE  W!Inv'
    BY DEF WritePart
  <2>1. part = "write" /\ [W!Next]_(W!wvars)
    BY DEF Next, vars, cells, W!wvars
  <2> QED
    BY <2>1, WriteStep DEF WritePart
<1>3. WritePart => WritesAreTrue
  BY DEF WritePart, WritesAreTrue, W!Inv
<1> QED
  BY <1>1, <1>2, <1>3, PTL DEF Spec

-----------------------------------------------------------------------------
(* What a sweep after tests deletes                                        *)

SweepPart == part = "sweep" => M!Inv

LEMMA SweepHits ==
    ASSUME M!Typed, M!Read, NEW words \in SUBSET M!Words, M!Hits(words)
    PROVE  "mark" \in words /\ "mark" \in c1.markers
BY DEF M!Hits, M!Typed, M!Read, M!Words

LEMMA SweepInit == M!Init => M!Inv
<1> SUFFICES ASSUME M!Init
             PROVE  M!Inv
  OBVIOUS
<1>1. /\ c1 \in M!Asked /\ c2 = {} /\ c3 \in [M!Objects -> M!Object]
      /\ c4 = [x \in M!Objects |-> {c3[x].title, c3[x].turn}]
      /\ c6 = {} /\ c7 = {} /\ c8 = "start" /\ c9 = {}
      /\ c5 = <<>> \/ \E n \in Nat : \E chats \in [1..n -> Chats] : c5 = M!Listed(chats)
  <2>1. Cardinality(Chats) \in Nat /\ M!Cardinality(Chats) = Cardinality(Chats)
    BY ValuesAssumption, FS_CardinalityType DEF M!Cardinality, Cardinality
  <2>2. \A n \in 0..M!Cardinality(Chats) : n \in Nat
    BY <2>1
  <2>3. \A n : M!Injection(1..n, Chats) \subseteq [1..n -> Chats]
    BY DEF M!Injection
  <2> QED
    BY <2>2, <2>3 DEF M!Init
<1>2. \A x \in M!Objects :
        c3[x] \in [here : BOOLEAN, title : M!Words, turn : M!Words] /\ c3[x].here
  BY <1>1 DEF M!Object
<1>9. /\ c5 \in Seq([id : Chats, title : M!Words])
      /\ \A i \in DOMAIN c5 : c5[i].title \in c4[c5[i].id]
  <2>1. CASE c5 = <<>>
    BY <2>1
  <2>2. ASSUME NEW n \in Nat, NEW chats \in [1..n -> Chats], c5 = M!Listed(chats)
        PROVE  /\ c5 \in Seq([id : Chats, title : M!Words])
               /\ \A i \in DOMAIN c5 : c5[i].title \in c4[c5[i].id]
    <3>1. /\ c5 = [i \in 1..n |-> [id |-> chats[i], title |-> c3[chats[i]].title]]
          /\ \A i \in 1..n : chats[i] \in Chats /\ chats[i] \in M!Objects
      BY <2>2 DEF M!Listed, M!Objects
    <3>2. \A i \in 1..n : /\ [id |-> chats[i], title |-> c3[chats[i]].title]
                                 \in [id : Chats, title : M!Words]
                          /\ c3[chats[i]].title \in c4[chats[i]]
      BY <1>1, <1>2, <3>1
    <3> DEFINE rows == [id : Chats, title : M!Words]
    <3>3. c5 \in [1..n -> rows]
      BY <3>1, <3>2
    <3> HIDE DEF rows
    <3>4. c5 \in Seq(rows)
      BY <3>3, SeqDef
    <3> QED
      BY <3>1, <3>2, <3>4 DEF rows
  <2> QED
    BY <1>1, <2>1, <2>2
<1>3. M!Typed
  <2>1. c3 \in [M!Objects -> [here : BOOLEAN, title : M!Words, turn : M!Words]]
    BY <1>1, <1>2
  <2>2. c4 \in [M!Objects -> SUBSET M!Words]
    BY <1>1, <1>2
  <2> QED
    BY <1>1, <1>9, <2>1, <2>2 DEF M!Typed, M!Places
<1>4. M!Read
  BY <1>1, <1>9 DEF M!Read
<1>5. M!Meant /\ M!OnlyMarked /\ M!ReportIsTrue
  BY <1>1, <1>2 DEF M!Meant, M!OnlyMarked, M!ReportIsTrue, M!Attempted, M!Targets
<1> QED
  BY <1>3, <1>4, <1>5 DEF M!Inv

\* The call looks on, and neither sends nor reports.
LEMMA SweepGoes ==
    ASSUME M!Inv, c8 # "deleting", UNCHANGED <<c1, c3, c4, c6, c7, c9>>,
           c2' \in SUBSET {"codex", "mark"}, "mark" \in c2' => "mark" \in c1.markers,
           c5' \in Seq([id : Chats, title : M!Words]),
           \A i \in DOMAIN c5' : c5'[i].title \in c4[c5'[i].id],
           c8' \in M!Places \ {"deleting", "start"}
    PROVE  M!Inv'
<1> USE DEF M!Inv
<1>1. M!Typed'
  BY DEF M!Typed
<1>2. M!Read'
  BY DEF M!Read
<1>3. c6 = {}
  BY DEF M!Meant
<1>4. M!Meant' /\ M!OnlyMarked'
  BY <1>3 DEF M!Meant, M!OnlyMarked, M!Attempted, M!Targets
<1>5. M!ReportIsTrue'
  <2>1. \A x \in M!Objects : ~c3[x].here => \E r \in c9 : r.id = x
    BY <1>3 DEF M!Meant, M!Attempted, M!Targets
  <2> QED
    BY <2>1 DEF M!ReportIsTrue
<1> QED
  BY <1>1, <1>2, <1>4, <1>5

\* A match was marked, and its object is in the report or being deleted.
LEMMA SweepMatch ==
    ASSUME M!Inv, c8 # "deleting", UNCHANGED <<c1, c2, c3, c4>>,
           NEW x \in M!Objects, NEW next \in M!Places \ {"deleting", "start"}, M!Match(x, next),
           "mark" \in c4[x], "mark" \in c1.markers,
           c5' \in Seq([id : Chats, title : M!Words]),
           \A i \in DOMAIN c5' : c5'[i].title \in c4[c5'[i].id]
    PROVE  M!Inv'
<1> USE DEF M!Inv
<1>1. c6 = {}
  BY DEF M!Meant
<1>2. M!Read'
  BY DEF M!Read
<1>3. M!OnlyMarked'
  BY DEF M!OnlyMarked
<1>4. CASE c1.dry
  <2>1. /\ c9' = c9 \cup {[id |-> x, verified |-> FALSE]} /\ c8' = next
        /\ UNCHANGED <<c6, c7>>
    BY <1>4 DEF M!Match
  <2>2. M!Typed'
    <3>1. c9' \subseteq [id : M!Objects, verified : BOOLEAN]
      <4>1. [id |-> x, verified |-> FALSE] \in [id : M!Objects, verified : BOOLEAN]
        OBVIOUS
      <4> QED
        BY <2>1, <4>1 DEF M!Typed
    <3> QED
      BY <2>1, <3>1 DEF M!Typed
  <2>3. M!Meant'
    BY <1>1, <2>1 DEF M!Meant, M!Attempted, M!Targets
  <2>4. M!ReportIsTrue'
    BY <1>1, <2>1, <2>3 DEF M!ReportIsTrue, M!Meant, M!Attempted, M!Targets
  <2> QED
    BY <1>2, <1>3, <2>2, <2>3, <2>4
<1>5. CASE ~c1.dry
  <2>1. /\ c6' = {[id |-> x, next |-> next]} /\ c7' = c7 \cup {x} /\ c8' = "deleting"
        /\ c9' = c9
    BY <1>5 DEF M!Match
  <2>2. M!Typed'
    BY <2>1 DEF M!Typed, M!Places
  <2>3. M!Targets' = {x}
    BY <2>1 DEF M!Targets
  <2>4. M!Meant'
    <3>1. \A y \in M!Objects : M!Attempted(y)' => y = x \/ M!Attempted(y)
      BY <2>1 DEF M!Attempted
    <3> QED
      BY <1>1, <1>5, <2>1, <2>3, <3>1 DEF M!Meant, M!Targets
  <2>5. M!ReportIsTrue'
    BY <2>1 DEF M!ReportIsTrue
  <2> QED
    BY <1>2, <1>3, <2>2, <2>4, <2>5
<1> QED
  BY <1>4, <1>5

\* The list is cut, and what it says of a chat counts from now on.
LEMMA SweepBegin ==
    ASSUME M!Inv, M!Begin  PROVE M!Inv'
<1> USE DEF M!Inv
<1>1. /\ c8 = "start" /\ c2' = M!Split(c1.markers) /\ c8' \in {"chats", "scheduled"}
      /\ c4' = [x \in M!Objects |-> {c3[x].title, c3[x].turn} \cup M!Recalled(x)]
      /\ UNCHANGED <<c1, c3, c6, c7, c9>>
  BY DEF M!Begin
<1>2. c2' \in SUBSET {"codex", "mark"} /\ ("mark" \in c2' => "mark" \in c1.markers)
  <2>1. c1.markers \in {{"blank"}, {"blank", "mark"}}
    BY DEF M!Typed, M!Asked
  <2> QED
    BY <1>1, <2>1 DEF M!Split
<1>3. c5 \in Seq([id : Chats, title : M!Words])
  BY DEF M!Typed
<1>4. /\ c5' \in Seq([id : Chats, title : M!Words])
      /\ \A i \in DOMAIN c5' : i \in DOMAIN c5 /\ c5'[i] = c5[i]
  <2> DEFINE n == IF Len(c5) < MaxChats THEN Len(c5) ELSE MaxChats
  <2>1. n \in 0..Len(c5) /\ Len(c5) \in Nat /\ DOMAIN c5 = 1..Len(c5)
    BY <1>3, LenProperties, ValuesAssumption
  <2>2. c5' = SubSeq(c5, 1, n)
    BY DEF M!Begin
  <2> HIDE DEF n
  <2>3. /\ SubSeq(c5, 1, n) \in Seq([id : Chats, title : M!Words])
        /\ Len(SubSeq(c5, 1, n)) = n
        /\ \A i \in 1..n : SubSeq(c5, 1, n)[i] = c5[i]
    <3> DEFINE rows == [id : Chats, title : M!Words]
    <3>1. c5 \in Seq(rows) /\ n \in Int /\ 1 \in 1..n + 1 /\ n <= Len(c5) /\ n \in Nat
      BY <1>3, <2>1
    <3> HIDE DEF rows
    <3>2. /\ SubSeq(c5, 1, n) \in Seq(rows) /\ Len(SubSeq(c5, 1, n)) = n
          /\ \A i \in 1..n : SubSeq(c5, 1, n)[i] = c5[i]
      BY <3>1, SubSeqProperties
    <3> QED
      BY <3>2 DEF rows
  <2>4. DOMAIN c5' = 1..n /\ \A i \in 1..n : i \in DOMAIN c5
    BY <2>1, <2>2, <2>3, LenProperties
  <2> QED
    BY <2>2, <2>3, <2>4
<1>5. \A i \in DOMAIN c5 : /\ c5[i].id \in M!Objects /\ c5[i].title \in M!Words
                          /\ c5[i].title \in M!Recalled(c5[i].id)
  <2> SUFFICES ASSUME NEW i \in DOMAIN c5
               PROVE  /\ c5[i].id \in M!Objects /\ c5[i].title \in M!Words
                      /\ c5[i].title \in M!Recalled(c5[i].id)
    OBVIOUS
  <2>1. c5[i] \in [id : Chats, title : M!Words]
    BY <1>3, LenProperties
  <2>2. c5[i] \in {r \in M!Range(c5) : r.id = c5[i].id}
    BY DEF M!Range
  <2>3. c5[i].title \in M!Recalled(c5[i].id)
    BY <2>2, Zenon DEF M!Recalled
  <2> QED
    BY <2>1, <2>3 DEF M!Objects
<1>6. \A x : M!Recalled(x) \subseteq M!Words
  BY <1>5 DEF M!Recalled, M!Range
<1>7. c4' \in [M!Objects -> SUBSET M!Words]
  BY <1>1, <1>6 DEF M!Typed
<1>8. M!Typed'
  BY <1>1, <1>2, <1>4, <1>7 DEF M!Typed, M!Places
<1>9. M!Read'
  <2>1. \A i \in DOMAIN c5' : c5'[i].title \in c4'[c5'[i].id]
    BY <1>1, <1>4, <1>5
  <2> QED
    BY <1>1, <1>2, <2>1 DEF M!Read
<1>10. /\ c6 = {} /\ c9 = {} /\ \A x \in M!Objects : c3[x].here /\ x \notin c7
  BY <1>1 DEF M!Meant, M!Attempted
<1>11. M!Meant' /\ M!OnlyMarked' /\ M!ReportIsTrue'
  BY <1>1, <1>10 DEF M!Meant, M!OnlyMarked, M!ReportIsTrue, M!Attempted, M!Targets
<1> QED
  BY <1>8, <1>9, <1>11

LEMMA SweepVisit ==
    ASSUME M!Inv, M!Visit  PROVE M!Inv'
<1> USE DEF M!Inv
<1> DEFINE chat == Head(c5)
<1>1. c8 = "chats" /\ c5 # <<>> /\ c5' = Tail(c5) /\ UNCHANGED <<c1, c2, c3, c4>>
  BY DEF M!Visit
<1>2. c5 \in Seq([id : Chats, title : M!Words])
  BY DEF M!Typed
<1>3. /\ 1 \in DOMAIN c5 /\ chat = c5[1] /\ c5' \in Seq([id : Chats, title : M!Words])
      /\ \A i \in DOMAIN c5' : i + 1 \in DOMAIN c5 /\ c5'[i] = c5[i + 1]
  BY <1>1, <1>2, HeadTailProperties
<1>4. \A i \in DOMAIN c5' : c5'[i].title \in c4[c5'[i].id]
  BY <1>3 DEF M!Read
<1>5. /\ chat \in [id : Chats, title : M!Words] /\ chat.id \in M!Objects
      /\ chat.title \in c4[chat.id]
  <2>1. chat \in [id : Chats, title : M!Words]
    BY <1>1, <1>2, HeadTailProperties
  <2> QED
    BY <1>3, <2>1 DEF M!Read, M!Objects
<1> HIDE DEF chat
<1>6. c3[chat.id].turn \in c4[chat.id] /\ c3[chat.id].turn \in M!Words
  BY <1>5 DEF M!Read, M!Typed
<1>7. CASE \E read \in BOOLEAN :
             /\ M!Hits({chat.title}) \/ (read /\ c3[chat.id].here /\ M!Hits({c3[chat.id].turn}))
             /\ M!Match(chat.id, "chats")
  <2>1. {chat.title} \in SUBSET M!Words /\ {c3[chat.id].turn} \in SUBSET M!Words
    BY <1>5, <1>6
  <2>2. "mark" \in c4[chat.id] /\ "mark" \in c1.markers
    BY <1>5, <1>6, <1>7, <2>1, SweepHits
  <2>3. "chats" \in M!Places \ {"deleting", "start"}
    BY DEF M!Places
  <2> QED
    BY <1>1, <1>3, <1>4, <1>5, <1>7, <2>2, <2>3, SweepMatch
<1>8. CASE M!NoMatch /\ c8' = c8
  <2>1. c8' \in M!Places \ {"deleting", "start"} /\ UNCHANGED <<c6, c7, c9>>
    BY <1>1, <1>8 DEF M!NoMatch, M!Places
  <2>2. c2' \in SUBSET {"codex", "mark"} /\ ("mark" \in c2' => "mark" \in c1.markers)
    BY <1>1 DEF M!Typed, M!Read
  <2> QED
    BY <1>1, <1>3, <1>4, <2>1, <2>2, SweepGoes
<1>9. M!Visit => \/ \E read \in BOOLEAN :
                     /\ M!Hits({chat.title}) \/ (read /\ c3[chat.id].here /\ M!Hits({c3[chat.id].turn}))
                     /\ M!Match(chat.id, "chats")
                 \/ M!NoMatch /\ c8' = c8
  BY DEF M!Visit, chat
<1> QED
  BY <1>7, <1>8, <1>9

LEMMA SweepScheduled ==
    ASSUME M!Inv, M!Scheduled  PROVE M!Inv'
<1> USE DEF M!Inv
<1>1. c8 = "scheduled" /\ UNCHANGED <<c1, c2, c3, c4, c5>>
  BY DEF M!Scheduled
<1>2. /\ c5' \in Seq([id : Chats, title : M!Words])
      /\ \A i \in DOMAIN c5' : c5'[i].title \in c4[c5'[i].id]
  BY <1>1 DEF M!Typed, M!Read
<1>3. "action" \in M!Objects /\ M!Action = "action"
  BY DEF M!Objects, M!Action
<1> DEFINE words == {c3["action"].title, c3["action"].turn}
<1>4. words \in SUBSET M!Words /\ words \subseteq c4["action"]
  BY <1>3 DEF M!Typed, M!Read
<1>5. CASE M!Hits(words) /\ M!Match("action", "end")
  <2>1. "mark" \in c4["action"] /\ "mark" \in c1.markers
    BY <1>4, <1>5, SweepHits
  <2>2. "end" \in M!Places \ {"deleting", "start"}
    BY DEF M!Places
  <2> QED
    BY <1>1, <1>2, <1>3, <1>5, <2>1, <2>2, SweepMatch
<1>6. CASE M!NoMatch /\ c8' = "end"
  <2>1. c8' \in M!Places \ {"deleting", "start"} /\ UNCHANGED <<c6, c7, c9>>
    BY <1>6 DEF M!NoMatch, M!Places
  <2>2. c2' \in SUBSET {"codex", "mark"} /\ ("mark" \in c2' => "mark" \in c1.markers)
    BY <1>1 DEF M!Typed, M!Read
  <2> QED
    BY <1>1, <1>2, <2>1, <2>2, SweepGoes
<1> QED
  BY <1>3, <1>5, <1>6 DEF M!Scheduled

LEMMA SweepChatsDone ==
    ASSUME M!Inv, M!ChatsDone  PROVE M!Inv'
<1> USE DEF M!Inv
<1>1. /\ c8 = "chats" /\ UNCHANGED <<c1, c2, c3, c4, c5, c6, c7, c9>>
      /\ c8' \in M!Places \ {"deleting", "start"}
  BY DEF M!ChatsDone, M!Places
<1>2. c2' \in SUBSET {"codex", "mark"} /\ ("mark" \in c2' => "mark" \in c1.markers)
  BY <1>1 DEF M!Typed, M!Read
<1>3. /\ c5' \in Seq([id : Chats, title : M!Words])
      /\ \A i \in DOMAIN c5' : c5'[i].title \in c4[c5'[i].id]
  BY <1>1 DEF M!Typed, M!Read
<1> QED
  BY <1>1, <1>2, <1>3, SweepGoes

LEMMA SweepConcluded ==
    ASSUME M!Inv, M!Concluded  PROVE M!Inv'
<1> USE DEF M!Inv
<1>1. PICK d \in c6, verified \in BOOLEAN :
        /\ verified => ~c3[d.id].here
        /\ c9' = c9 \cup {[id |-> d.id, verified |-> verified]}
        /\ c8' = d.next
  BY DEF M!Concluded
<1>2. c8 = "deleting" /\ c6' = {} /\ UNCHANGED <<c1, c2, c3, c4, c5, c7>>
  BY DEF M!Concluded
<1>3. d \in [id : M!Objects, next : M!Places \ {"deleting", "start"}] /\ c6 = {d}
  BY <1>1 DEF M!Typed, M!Meant
<1>4. M!Typed'
  BY <1>1, <1>2, <1>3 DEF M!Typed
<1>5. M!Read' /\ M!OnlyMarked'
  BY <1>2 DEF M!Read, M!OnlyMarked
<1>6. M!Targets = {d.id} /\ M!Targets' = {}
  BY <1>2, <1>3 DEF M!Targets
<1>7. M!Meant'
  <2>1. \A x \in M!Objects : M!Attempted(x)' <=> M!Attempted(x)
    BY <1>2 DEF M!Attempted
  <2>2. \A x \in M!Objects : M!Attempted(x) => \E r \in c9' : r.id = x
    <3>1. [id |-> d.id, verified |-> verified] \in c9'
      BY <1>1
    <3>2. \A x \in M!Objects : M!Attempted(x) => x = d.id \/ \E r \in c9 : r.id = x
      BY <1>6 DEF M!Meant
    <3>3. c9 \subseteq c9'
      BY <1>1
    <3> HIDE DEF M!Inv
    <3> QED
      BY <3>1, <3>2, <3>3
  <2> QED
    BY <1>1, <1>2, <1>3, <1>6, <2>1, <2>2 DEF M!Meant
<1>8. M!ReportIsTrue'
  <2>1. \A x \in M!Objects : ~c3'[x].here => \E r \in c9' : r.id = x
    BY <1>6, <1>7 DEF M!Meant, M!Attempted
  <2> QED
    BY <1>1, <1>2, <2>1 DEF M!ReportIsTrue
<1> QED
  BY <1>4, <1>5, <1>7, <1>8

LEMMA SweepArrive ==
    ASSUME M!Inv, NEW x \in M!Objects, M!Arrive(x)  PROVE M!Inv'
<1> USE DEF M!Inv
<1>1. /\ x \in c7 /\ c7' = c7 \ {x} /\ c3' = [c3 EXCEPT ![x].here = FALSE]
      /\ UNCHANGED <<c1, c2, c4, c5, c6, c8, c9>>
  BY DEF M!Arrive
<1>2. /\ c3' \in [M!Objects -> [here : BOOLEAN, title : M!Words, turn : M!Words]]
      /\ \A y \in M!Objects : /\ c3'[y].title = c3[y].title /\ c3'[y].turn = c3[y].turn
                               /\ c3'[y].here = (IF y = x THEN FALSE ELSE c3[y].here)
  BY <1>1 DEF M!Typed
<1>3. M!Typed'
  BY <1>1, <1>2 DEF M!Typed
<1>4. M!Read'
  BY <1>1, <1>2 DEF M!Read
<1>5. \A y \in M!Objects : M!Attempted(y)' <=> M!Attempted(y)
  BY <1>1, <1>2 DEF M!Attempted
<1>6. M!Targets' = M!Targets
  BY <1>1 DEF M!Targets
<1>7. M!Meant'
  BY <1>1, <1>5, <1>6 DEF M!Meant
<1>8. M!OnlyMarked'
  BY <1>7 DEF M!Meant, M!OnlyMarked, M!Attempted
<1>9. M!ReportIsTrue'
  <2>1. \A r \in c9' : r.verified => ~c3'[r.id].here
    BY <1>1, <1>2 DEF M!ReportIsTrue, M!Typed
  <2>2. c8' = "end" => \A y \in M!Objects : ~c3'[y].here => \E r \in c9' : r.id = y
    <3>1. c8' = "end" => M!Targets' = {}
      BY <1>7 DEF M!Meant, M!Targets
    <3> QED
      BY <1>7, <3>1 DEF M!Meant, M!Attempted
  <2> QED
    BY <2>1, <2>2 DEF M!ReportIsTrue
<1> QED
  BY <1>3, <1>4, <1>7, <1>8, <1>9

LEMMA SweepEdit ==
    ASSUME M!Inv, NEW x \in M!Objects, M!Edit(x)  PROVE M!Inv'
<1> USE DEF M!Inv
<1>1. PICK w \in M!Words : c3' = [c3 EXCEPT ![x].title = w]
  BY DEF M!Edit
<1>2. /\ c8 # "end" /\ c4' = [c4 EXCEPT ![x] = @ \cup {c3'[x].title}]
      /\ UNCHANGED <<c1, c2, c5, c6, c7, c8, c9>>
  BY DEF M!Edit
<1>3. /\ c3' \in [M!Objects -> [here : BOOLEAN, title : M!Words, turn : M!Words]]
      /\ \A y \in M!Objects : /\ c3'[y].here = c3[y].here /\ c3'[y].turn = c3[y].turn
                               /\ c3'[y].title = (IF y = x THEN w ELSE c3[y].title)
  BY <1>1 DEF M!Typed
<1>4. /\ c4' \in [M!Objects -> SUBSET M!Words]
      /\ \A y \in M!Objects : c4[y] \subseteq c4'[y]
      /\ w \in c4'[x]
  BY <1>2, <1>3 DEF M!Typed
<1>5. M!Typed'
  BY <1>2, <1>3, <1>4 DEF M!Typed
<1>6. M!Read'
  <2>1. \A i \in DOMAIN c5 : c5[i].id \in M!Objects
    <3>1. c5 \in Seq([id : Chats, title : M!Words])
      BY DEF M!Typed
    <3>2. \A i \in DOMAIN c5 : c5[i] \in [id : Chats, title : M!Words]
      BY <3>1, LenProperties
    <3> QED
      BY <3>2 DEF M!Objects
  <2> QED
    BY <1>2, <1>3, <1>4, <2>1 DEF M!Read
<1>7. \A y \in M!Objects : M!Attempted(y)' <=> M!Attempted(y)
  BY <1>2, <1>3 DEF M!Attempted
<1>8. M!Targets' = M!Targets
  BY <1>2 DEF M!Targets
<1>9. M!Meant'
  BY <1>2, <1>4, <1>7, <1>8 DEF M!Meant
<1>10. M!OnlyMarked'
  BY <1>9 DEF M!Meant, M!OnlyMarked, M!Attempted
<1>11. M!ReportIsTrue'
  BY <1>2, <1>3 DEF M!ReportIsTrue, M!Typed
<1> QED
  BY <1>5, <1>6, <1>9, <1>10, <1>11

LEMMA SweepStep ==
    ASSUME M!Inv, [M!Next]_(M!mvars)  PROVE M!Inv'
<1>1. CASE M!Next
  BY <1>1, SweepEdit, SweepArrive, SweepBegin, SweepVisit, SweepChatsDone, SweepScheduled,
    SweepConcluded DEF M!Next
<1>2. CASE UNCHANGED M!mvars
  BY <1>2 DEF M!mvars, M!Inv, M!Typed, M!Read, M!Meant, M!Attempted, M!Targets, M!OnlyMarked,
    M!ReportIsTrue
<1> QED
  BY <1>1, <1>2

-----------------------------------------------------------------------------
(* The chats of which only the memory of a process knows                   *)

MemoryPart == part = "memory" => D!Inv /\ D!Undone /\ D!Settled

MemoryCall == [kind : {"none", "delete", "sweep", "timer"},
               pc : {"idle", "asleep", "claim", "wait"}, gen : Nat, due : D!Jobs,
               worker : D!Workers \cup {D!Nobody}, cancel : BOOLEAN]
MemoryWork == [at : D!Places, gen : Nat, client : Nat, attempts : Nat, gone : BOOLEAN]
MemoryNote == [state : D!States, gen : Nat, attempts : Nat]

\* What a caller may be, and the callers together.
MemoryCaller(c) ==
    /\ c \in MemoryCall /\ c.gen <= c2 /\ c.due.gen <= c2
    /\ c.pc = "claim" /\ c.kind # "delete" => c.due # D!NoTask
MemoryCallers(callers) ==
    /\ callers \in [D!Callers -> MemoryCall]
    /\ \A a \in D!Callers : MemoryCaller(callers[a])

\* There is an identity that no entry has which somebody still holds.
LEMMA MemoryNewID ==
    ASSUME D!Typed  PROVE D!NewID \in Nat
<1>0. MaxCallers \in Nat /\ c6 \in D!Jobs /\ c11 \in [D!Callers -> MemoryCall]
  BY ValuesAssumption DEF D!Typed, MemoryCall
<1> DEFINE held == {c11[a].due.id : a \in D!Callers}
           ids == 1..MaxCallers + 2
           free == {n \in ids : n # c6.id /\ \A a \in D!Callers : n # c11[a].due.id}
<1>1. IsFiniteSet(D!Callers) /\ Cardinality(D!Callers) = MaxCallers
  BY <1>0, FS_Interval DEF D!Callers
<1>2. IsFiniteSet(held) /\ Cardinality(held) <= MaxCallers
  <2> DEFINE f == [a \in D!Callers |-> c11[a].due.id]
  <2>1. f \in Surjection(D!Callers, held)
    BY DEF Surjection
  <2> HIDE DEF f
  <2> QED
    BY <1>1, <2>1, FS_Surjection
<1>3. /\ IsFiniteSet(held \cup {c6.id}) /\ Cardinality(held \cup {c6.id}) <= MaxCallers + 1
  BY <1>0, <1>2, FS_AddElement, FS_CardinalityType
<1>4. IsFiniteSet(ids) /\ Cardinality(ids) = MaxCallers + 2
  BY <1>0, FS_Interval
<1>5. ~(ids \subseteq held \cup {c6.id})
  BY <1>0, <1>3, <1>4, FS_Subset, FS_CardinalityType
<1>6. \E n \in ids : n # c6.id /\ \A a \in D!Callers : n # c11[a].due.id
  BY <1>5
<1>7. D!NewID \in ids
  BY <1>6 DEF D!NewID
<1> QED
  BY <1>0, <1>7

LEMMA MemoryTask ==
    ASSUME D!Typed, NEW at \in Nat, NEW n \in Nat
    PROVE  D!Task(at, n) \in D!Jobs /\ D!Task(at, n).gen = c2
BY MemoryNewID DEF D!Task, D!Jobs, D!Typed

LEMMA MemoryNothing ==
    D!NoTask \in D!Jobs /\ D!NoTask.gen = 0
BY DEF D!NoTask, D!Jobs

LEMMA MemoryObserved ==
    ASSUME D!Typed, D!Aged, NEW s \in D!States, NEW g \in Nat, g <= c2, NEW n \in Nat,
           D!Observe(s, g, n)
    PROVE  /\ c7' \in MemoryNote /\ c7'.gen <= c2 /\ c7'.gen >= c7.gen
           /\ c7' = c7 \/ (c7'.state = s /\ c7'.gen = g)
           /\ g = c2 => c7'.state = s
           /\ c7.gen = c2 /\ g < c2 => c7' = c7
BY DEF D!Observe, D!Typed, D!Aged, MemoryNote

LEMMA MemoryTyped ==
    ASSUME D!Inv
    PROVE  /\ MemoryCallers(c11) /\ c7 \in MemoryNote /\ c7.gen <= c2
           /\ c12 \in [D!Workers -> MemoryWork] /\ c6 \in D!Jobs /\ c6.gen <= c2
           /\ c2 \in Nat /\ c3 \in Nat /\ c9 \in D!Workers \cup {D!Nobody}
           /\ c10 \in D!Callers \cup {D!Nobody}
<1>1. D!Typed /\ D!Aged /\ D!Queue
  BY DEF D!Inv
<1>2. /\ c7 \in MemoryNote /\ c7.gen <= c2
      /\ c12 \in [D!Workers -> MemoryWork] /\ c6 \in D!Jobs /\ c6.gen <= c2
      /\ c2 \in Nat /\ c3 \in Nat /\ c9 \in D!Workers \cup {D!Nobody}
      /\ c10 \in D!Callers \cup {D!Nobody}
  BY <1>1 DEF D!Typed, D!Aged, MemoryNote, MemoryWork
<1>3. MemoryCallers(c11)
  BY <1>1 DEF D!Typed, D!Aged, D!Queue, MemoryCallers, MemoryCaller, MemoryCall
<1> QED
  BY <1>2, <1>3

LEMMA MemoryIdle ==
    ASSUME c2 \in Nat  PROVE MemoryCaller(D!Idle)
BY MemoryNothing DEF D!Idle, MemoryCaller, MemoryCall, D!Nobody

LEMMA MemoryTimer ==
    ASSUME c2 \in Nat, NEW at \in Nat  PROVE MemoryCaller(D!Timer(at))
<1> DEFINE due == [D!NoTask EXCEPT !.at = at]
<1>1. due \in D!Jobs /\ due.gen = 0
  BY DEF D!NoTask, D!Jobs
<1>2. D!Timer(at) = [D!Idle EXCEPT !.kind = "timer", !.pc = "asleep", !.gen = c2, !.due = due]
  BY DEF D!Timer
<1> HIDE DEF due
<1>3. D!Timer(at) = [kind |-> "timer", pc |-> "asleep", gen |-> c2, due |-> due,
                     worker |-> D!Nobody, cancel |-> FALSE]
  BY <1>2 DEF D!Idle
<1> QED
  BY <1>1, <1>3 DEF MemoryCaller, MemoryCall, D!Nobody

LEMMA MemoryChanges ==
    ASSUME NEW callers, MemoryCallers(callers), NEW a \in D!Callers, NEW c, MemoryCaller(c)
    PROVE  MemoryCallers([callers EXCEPT ![a] = c])
BY DEF MemoryCallers, MemoryCaller

LEMMA MemoryDisarmed ==
    ASSUME D!Inv  PROVE MemoryCallers(D!Disarmed)
<1>1. MemoryCallers(c11) /\ c10 \in D!Callers \cup {D!Nobody}
  BY MemoryTyped
<1>2. CASE c10 = D!Nobody
  BY <1>1, <1>2 DEF D!Disarmed
<1>3. CASE c10 \in D!Callers /\ c10 # D!Nobody
  <2> DEFINE c == [c11[c10] EXCEPT !.cancel = TRUE]
  <2>1. MemoryCaller(c)
    BY <1>1, <1>3 DEF MemoryCallers, MemoryCaller, MemoryCall
  <2>2. D!Disarmed = [c11 EXCEPT ![c10] = c]
    BY <1>3 DEF D!Disarmed
  <2> HIDE DEF c
  <2> QED
    BY <1>1, <1>3, <2>1, <2>2, MemoryChanges
<1> QED
  BY <1>1, <1>2, <1>3

\* A step that leaves the deletions and the chat alone.
LEMMA MemoryQuiet ==
    ASSUME D!Inv, UNCHANGED <<c2, c5, c8, c9, c12>>,
           c1' \in {"none", "bound", "unbound"}, c3' \in Nat, c6' \in D!Jobs, c6'.gen <= c2,
           c7' \in MemoryNote, c7'.gen <= c2,
           c7'.state = "retained" /\ c7'.gen = c2 => c6' = D!NoTask,
           c7'.state \in {"completed", "already"} => c7' = c7 \/ (c8 /\ c7'.gen = c2),
           c10' \in D!Callers \cup {D!Nobody}, MemoryCallers(c11')
    PROVE  D!Inv'
<1> USE DEF D!Inv
<1>1. D!Typed'
  BY DEF D!Typed, MemoryNote, MemoryCallers, MemoryCall
<1>2. D!Aged'
  BY DEF D!Aged, D!Live, MemoryCallers, MemoryCaller
<1>3. D!Registry' /\ D!Seen' /\ D!OneDeletion' /\ D!OwnAccount'
  BY DEF D!Registry, D!Seen, D!OneDeletion, D!OwnAccount, D!Live
<1>4. D!Queue'
  BY DEF D!Queue, MemoryCallers, MemoryCaller
<1>5. D!GoneIsGone'
  BY DEF D!GoneIsGone
<1> QED
  BY <1>1, <1>2, <1>3, <1>4, <1>5

\* A step of one deletion.
LEMMA MemoryWorks ==
    ASSUME D!Inv, UNCHANGED <<c1, c2, c3, c9>>, NEW w \in D!Workers, D!Live(w), NEW x \in MemoryWork,
           c12' = [c12 EXCEPT ![w] = x],
           x.at # "none", x.gen <= c2,
           x.at # "done" => x.gen = c12[w].gen /\ x.gen <= x.client /\ x.client <= c2,
           x.at \in {"sending", "reading", "finishing"} => x.client = x.gen,
           x.at = "finishing" /\ x.client = 0 => c5' = "gone",
           x.gone /\ x.gen = 0 => c5' = "gone",
           c5' \in {c5, "gone"}, c6' \in D!Jobs, c6'.gen <= c2,
           c7' \in MemoryNote, c7'.gen <= c2,
           c7'.state = "retained" /\ c7'.gen = c2 => c6' = D!NoTask,
           c7'.state \in {"completed", "already"} => c7' = c7 \/ c7'.gen # 0 \/ c5' = "gone",
           c8' \in BOOLEAN, c8' => c8 \/ c2 # 0 \/ c5' = "gone",
           c10' \in D!Callers \cup {D!Nobody}, MemoryCallers(c11')
    PROVE  D!Inv'
<1> USE DEF D!Inv
<1>1. c12' \in [D!Workers -> MemoryWork] /\ c12'[w] = x /\ \A v \in D!Workers \ {w} : c12'[v] = c12[v]
  BY MemoryTyped
<1>2. D!Typed'
  BY <1>1 DEF D!Typed, MemoryNote, MemoryCallers, MemoryCall, MemoryWork
<1>3. \A v \in D!Workers : D!Live(v)' => D!Live(v) /\ c12'[v].gen = c12[v].gen
  BY <1>1 DEF D!Live
<1>4. D!Aged'
  BY <1>1 DEF D!Aged, D!Live, MemoryCallers, MemoryCaller
<1>5. D!Registry' /\ D!OneDeletion'
  BY <1>3 DEF D!Registry, D!OneDeletion
<1>6. D!Seen' /\ D!OwnAccount'
  BY <1>1 DEF D!Seen, D!OwnAccount
<1>7. D!Queue'
  BY DEF D!Queue, MemoryCallers, MemoryCaller
<1>8. D!GoneIsGone'
  BY <1>1 DEF D!GoneIsGone
<1> QED
  BY <1>2, <1>4, <1>5, <1>6, <1>7, <1>8
LEMMA MemoryInit == D!Init => D!Inv
<1> SUFFICES ASSUME D!Init
             PROVE  D!Inv
  OBVIOUS
<1>1. /\ c1 = "none" /\ c2 = 0 /\ c3 = 0 /\ c5 = "there" /\ c8 = FALSE /\ c9 = D!Nobody
      /\ c12 = [w \in D!Workers |-> D!Unborn]
  BY DEF D!Init
<1>2. /\ c6 \in D!Jobs /\ c6.gen <= 0 /\ c7 \in MemoryNote /\ c7.gen = 0
      /\ c7.state \in {"none", "pending"} /\ c10 \in D!Callers \cup {D!Nobody}
      /\ MemoryCallers(c11)
  <2>1. MemoryCaller(D!Idle)
    BY <1>1, MemoryIdle
  <2>2. MaxTime \in Nat /\ 1 \in D!Callers
    BY ValuesAssumption DEF D!Callers
  <2>3. MemoryCaller(D!Timer(MaxTime))
    BY <1>1, <2>2, MemoryTimer
  <2>4. CASE /\ c6 = D!NoTask
             /\ c7 = [state |-> "none", gen |-> 0, attempts |-> 0]
             /\ c10 = D!Nobody
             /\ c11 = [a \in D!Callers |-> D!Idle]
    <3>1. MemoryCallers(c11)
      BY <2>1, <2>4 DEF MemoryCallers, MemoryCaller
    <3> QED
      BY <2>4, <3>1, MemoryNothing DEF MemoryNote, D!States
  <2>5. CASE /\ c6 = [D!NoTask EXCEPT !.id = 1, !.at = MaxTime]
             /\ c7 = [state |-> "pending", gen |-> 0, attempts |-> 0]
             /\ c10 = 1
             /\ c11 = [a \in D!Callers |-> IF a = 1 THEN D!Timer(MaxTime) ELSE D!Idle]
    <3>1. MemoryCallers(c11)
      BY <2>1, <2>3, <2>5 DEF MemoryCallers, MemoryCaller
    <3>2. c6 \in D!Jobs /\ c6.gen = 0
      BY <2>2, <2>5 DEF D!NoTask, D!Jobs
    <3> QED
      BY <2>2, <2>5, <3>1, <3>2 DEF MemoryNote, D!States
  <2> QED
    BY <2>4, <2>5 DEF D!Init
<1>3. D!Unborn \in MemoryWork /\ D!Unborn.at = "none" /\ D!Unborn.gen = 0 /\ ~D!Unborn.gone
  BY DEF D!Unborn, MemoryWork, D!Places
<1>4. \A w \in D!Workers : c12[w] = D!Unborn /\ ~D!Live(w)
  BY <1>1, <1>3 DEF D!Live
<1>5. D!Typed
  <2>1. c12 \in [D!Workers -> MemoryWork]
    BY <1>1, <1>3
  <2> QED
    BY <1>1, <1>2, <2>1 DEF D!Typed, MemoryNote, MemoryWork, MemoryCallers, MemoryCall
<1>6. D!Aged
  BY <1>1, <1>2, <1>3, <1>4 DEF D!Aged, MemoryCallers, MemoryCaller
<1>7. D!Registry /\ D!Seen /\ D!OneDeletion /\ D!OwnAccount
  BY <1>3, <1>4 DEF D!Registry, D!Seen, D!OneDeletion, D!OwnAccount
<1>8. D!Queue
  BY <1>2 DEF D!Queue, MemoryCallers, MemoryCaller
<1>9. D!GoneIsGone
  BY <1>1, <1>2, <1>3, <1>4 DEF D!GoneIsGone
<1> QED
  BY <1>5, <1>6, <1>7, <1>8, <1>9 DEF D!Inv

\* What is refused leaves a note of its own account, or that it was done.
LEMMA MemoryRefused ==
    ASSUME D!Inv, NEW g \in 0..c2, D!Refused(g)
    PROVE  /\ c7' \in MemoryNote /\ c7'.gen <= c2 /\ c7'.gen >= c7.gen
           /\ c7'.state = "retained" /\ c7'.gen = c2 => c6 = D!NoTask
           /\ c7'.state \in {"completed", "already"} => c7' = c7 \/ (c8 /\ c7'.gen = c2)
<1>1. D!Typed /\ D!Aged /\ D!Queue /\ c2 \in Nat /\ g \in Nat /\ g <= c2
  BY MemoryTyped DEF D!Inv
<1>2. "cancelled" \in D!States /\ "already" \in D!States
  BY DEF D!States
<1>3. CASE D!Observe("cancelled", g, 0)
  BY <1>1, <1>2, <1>3, MemoryObserved DEF D!Queue
<1>4. CASE g = c2 /\ c8 /\ D!Observe("already", g, 0)
  BY <1>1, <1>2, <1>4, MemoryObserved DEF D!Queue
<1> QED
  BY <1>3, <1>4 DEF D!Refused

LEMMA MemoryRetain ==
    ASSUME D!Inv, D!Retain  PROVE D!Inv'
<1>1. PICK g \in 0..c2 : \/ D!Refused(g) /\ UNCHANGED <<c6, c10, c11>>
                         \/ /\ D!Open(g) /\ c6' = D!NoTask /\ c11' = D!Disarmed
                            /\ c10' = D!Nobody /\ D!Observe("retained", g, 0)
  BY DEF D!Retain
<1>2. UNCHANGED <<c1, c2, c3, c5, c8, c9, c12>>
  BY DEF D!Retain
<1>3. /\ D!Typed /\ D!Aged /\ c1 \in {"none", "bound", "unbound"} /\ c2 \in Nat
  BY DEF D!Inv, D!Typed
<1>4. CASE D!Refused(g) /\ UNCHANGED <<c6, c10, c11>>
  BY <1>2, <1>3, <1>4, MemoryTyped, MemoryRefused, MemoryQuiet
<1>5. CASE /\ D!Open(g) /\ c6' = D!NoTask /\ c11' = D!Disarmed
           /\ c10' = D!Nobody /\ D!Observe("retained", g, 0)
  <2>1. g \in Nat /\ g <= c2 /\ g = c2
    BY <1>3, <1>5 DEF D!Open
  <2>2. c7' \in MemoryNote /\ c7'.gen <= c2 /\ c7'.state = "retained"
    BY <1>3, <1>5, <2>1, MemoryObserved DEF D!States
  <2> QED
    BY <1>2, <1>3, <1>5, <2>1, <2>2, MemoryTyped, MemoryNothing, MemoryDisarmed, MemoryQuiet
<1> QED
  BY <1>1, <1>4, <1>5

LEMMA MemoryArm ==
    ASSUME D!Inv, NEW at \in Nat, NEW callers, MemoryCallers(callers), D!Arm(at, callers)
    PROVE  MemoryCallers(c11') /\ c10' \in D!Callers \cup {D!Nobody}
<1>1. c2 \in Nat /\ c10 \in D!Callers \cup {D!Nobody}
  BY MemoryTyped
<1>2. CASE c11' = callers /\ c10' = IF callers = c11 THEN c10 ELSE D!Nobody
  BY <1>1, <1>2
<1>3. CASE \E a \in D!Callers : c11' = [callers EXCEPT ![a] = D!Timer(at)] /\ c10' = a
  <2>1. PICK a \in D!Callers : c11' = [callers EXCEPT ![a] = D!Timer(at)] /\ c10' = a
    BY <1>3
  <2>2. MemoryCaller(D!Timer(at))
    BY <1>1, MemoryTimer
  <2>3. MemoryCallers([callers EXCEPT ![a] = D!Timer(at)])
    BY <2>2, MemoryChanges
  <2> QED
    BY <2>1, <2>3
<1> QED
  BY <1>2, <1>3 DEF D!Arm

LEMMA MemorySchedule ==
    ASSUME D!Inv, D!Schedule  PROVE D!Inv'
<1>1. UNCHANGED <<c1, c2, c3, c5, c8, c9, c12>>
  BY DEF D!Schedule
<1>2. /\ D!Typed /\ D!Aged /\ c1 \in {"none", "bound", "unbound"} /\ c2 \in Nat /\ c3 \in Nat
      /\ c6 \in D!Jobs /\ c6.gen <= c2 /\ MemoryCallers(c11)
  BY MemoryTyped DEF D!Inv, D!Typed
<1>3. PICK g \in 0..c2, at \in c3..MaxTime, explicit \in BOOLEAN :
        \/ D!Refused(g) /\ UNCHANGED <<c6, c10, c11>>
        \/ /\ D!Open(g) /\ c6 = D!NoTask /\ c6' = D!Task(at, 0) /\ D!Arm(at, c11)
           /\ D!Observe("pending", g, 0)
        \/ /\ D!Open(g) /\ c6' = [c6 EXCEPT !.at = at] /\ D!Arm(at, D!Disarmed)
           /\ D!Observe("pending", g, c6.attempts)
        \/ /\ D!Open(g) /\ UNCHANGED <<c6, c10, c11>>
           /\ D!Observe(IF c7.state = "failed" THEN "failed" ELSE "pending", g, c6.attempts)
  BY DEF D!Schedule
<1>4. at \in Nat /\ g \in Nat /\ g <= c2
  BY <1>2
<1>5. CASE D!Refused(g) /\ UNCHANGED <<c6, c10, c11>>
  BY <1>1, <1>2, <1>5, MemoryTyped, MemoryRefused, MemoryQuiet
<1>6. CASE \E s \in {"pending", "failed"}, n \in Nat : D!Open(g) /\ D!Observe(s, g, n)
  <2>1. PICK s \in {"pending", "failed"}, n \in Nat : D!Open(g) /\ D!Observe(s, g, n)
    BY <1>6
  <2>2. g = c2 /\ s \in D!States
    BY <2>1 DEF D!Open, D!States
  <2>3. c7' \in MemoryNote /\ c7'.gen <= c2 /\ c7'.state = s
    BY <1>2, <1>4, <2>1, <2>2, MemoryObserved
  <2>4. c6' \in D!Jobs /\ c6'.gen <= c2 /\ MemoryCallers(c11') /\ c10' \in D!Callers \cup {D!Nobody}
    <3>1. CASE c6' = D!Task(at, 0) /\ D!Arm(at, c11)
      BY <1>2, <1>4, <3>1, MemoryTask, MemoryArm
    <3>2. CASE c6' = [c6 EXCEPT !.at = at] /\ D!Arm(at, D!Disarmed)
      <4>1. c6' \in D!Jobs /\ c6'.gen <= c2
        BY <1>2, <1>4, <3>2 DEF D!Jobs
      <4> QED
        BY <1>4, <3>2, <4>1, MemoryDisarmed, MemoryArm
    <3>3. CASE UNCHANGED <<c6, c10, c11>>
      BY <1>2, <3>3, MemoryTyped
    <3>4. ~D!Refused(g)
      BY <2>1, <2>2 DEF D!Refused, D!Open
    <3> QED
      BY <1>3, <3>1, <3>2, <3>3, <3>4
  <2> QED
    BY <1>1, <1>2, <2>3, <2>4, MemoryQuiet
<1>7. c6.attempts \in Nat
  BY <1>2 DEF D!Jobs
<1> QED
  BY <1>3, <1>5, <1>6, <1>7

\* A failure is noted, and of the present account kept in the queue.
LEMMA MemoryFailed ==
    ASSUME D!Inv, NEW g \in Nat, g <= c2, NEW n \in Nat, D!Failed(g, n)
    PROVE  /\ c6' \in D!Jobs /\ c6'.gen <= c2
           /\ c7' \in MemoryNote /\ c7'.gen <= c2 /\ c7'.gen >= c7.gen
           /\ c7'.state = "retained" /\ c7'.gen = c2 => c6' = D!NoTask
           /\ c7'.state \in {"completed", "already"} => c7' = c7
           /\ g < c2 => c6' = c6 /\ (c7.gen = c2 => c7' = c7)
<1>1. /\ D!Typed /\ D!Aged /\ D!Queue /\ c2 \in Nat /\ c3 \in Nat /\ c6 \in D!Jobs /\ c6.gen <= c2
  BY MemoryTyped DEF D!Inv
<1>2. "cancelled" \in D!States /\ "failed" \in D!States
  BY DEF D!States
<1>3. CASE g # c2
  <2>1. D!Observe("cancelled", g, n) /\ c6' = c6
    BY <1>3 DEF D!Failed
  <2> QED
    BY <1>1, <1>2, <1>3, <2>1, MemoryObserved DEF D!Queue
<1>4. CASE g = c2
  <2>1. D!Observe("failed", g, n)
        /\ c6' = IF c6 = D!NoTask THEN D!Task(c3, n) ELSE [c6 EXCEPT !.attempts = n]
    BY <1>4 DEF D!Failed
  <2>2. c6' \in D!Jobs /\ c6'.gen <= c2
    <3>1. [c6 EXCEPT !.attempts = n] \in D!Jobs /\ [c6 EXCEPT !.attempts = n].gen = c6.gen
      BY <1>1 DEF D!Jobs
    <3> QED
      BY <1>1, <2>1, <3>1, MemoryTask
  <2> QED
    BY <1>1, <1>2, <1>4, <2>1, <2>2, MemoryObserved
<1> QED
  BY <1>3, <1>4

LEMMA MemoryRecordFailure ==
    ASSUME D!Inv, D!RecordFailure  PROVE D!Inv'
<1>1. UNCHANGED <<c1, c2, c3, c5, c8, c9, c10, c11, c12>> /\ D!Failed(c2, c6.attempts + 1)
  BY DEF D!RecordFailure
<1>2. /\ c1 \in {"none", "bound", "unbound"} /\ c2 \in Nat /\ c6 \in D!Jobs
  BY MemoryTyped DEF D!Inv, D!Typed
<1>3. c6.attempts + 1 \in Nat
  BY <1>2 DEF D!Jobs
<1> QED
  BY <1>1, <1>2, <1>3, MemoryTyped, MemoryFailed, MemoryQuiet
LEMMA MemoryLeaves ==
    ASSUME D!Inv, NEW a \in D!Callers, D!Leave(a)
    PROVE  MemoryCallers(c11') /\ c10' \in D!Callers \cup {D!Nobody}
<1>1. MemoryCallers(c11) /\ c2 \in Nat /\ c10 \in D!Callers \cup {D!Nobody}
  BY MemoryTyped
<1>2. c11' = [c11 EXCEPT ![a] = D!Idle] /\ c10' = IF c10 = a THEN D!Nobody ELSE c10
  BY DEF D!Leave
<1>3. MemoryCallers([c11 EXCEPT ![a] = D!Idle])
  BY <1>1, MemoryIdle, MemoryChanges
<1> QED
  BY <1>1, <1>2, <1>3

\* A step that changes what a caller is about, or the environment, and no more.
LEMMA MemoryMoves ==
    ASSUME D!Inv, UNCHANGED <<c2, c5, c6, c8, c9, c12>>,
           c1' \in {"none", "bound", "unbound"}, c3' \in Nat,
           \/ c7' = c7
           \/ \E s \in {"cancelled", "already"}, g \in Nat :
                g <= c2 /\ D!Observe(s, g, 0) /\ (s = "already" => g = c2 /\ c8),
           c10' \in D!Callers \cup {D!Nobody}, MemoryCallers(c11')
    PROVE  D!Inv'
<1>1. D!Typed /\ D!Aged /\ D!Queue
  BY DEF D!Inv
<1>2. c7 \in MemoryNote /\ c7.gen <= c2 /\ c6 \in D!Jobs /\ c6.gen <= c2 /\ c2 \in Nat
  BY MemoryTyped
<1>3. CASE c7' = c7
  BY <1>1, <1>2, <1>3, MemoryQuiet DEF D!Queue
<1>4. CASE \E s \in {"cancelled", "already"}, g \in Nat :
             g <= c2 /\ D!Observe(s, g, 0) /\ (s = "already" => g = c2 /\ c8)
  <2>1. PICK s \in {"cancelled", "already"}, g \in Nat :
          g <= c2 /\ D!Observe(s, g, 0) /\ (s = "already" => g = c2 /\ c8)
    BY <1>4
  <2>2. s \in D!States
    BY DEF D!States
  <2>3. c7' \in MemoryNote /\ c7'.gen <= c2 /\ (c7' = c7 \/ (c7'.state = s /\ c7'.gen = g))
    BY <1>1, <2>1, <2>2, MemoryObserved
  <2> QED
    BY <1>1, <1>2, <2>1, <2>3, MemoryQuiet DEF D!Queue
<1> QED
  BY <1>3, <1>4

LEMMA MemoryAsks ==
    ASSUME D!Inv, NEW a \in D!Callers, NEW c, MemoryCaller(c),
           c11' = [c11 EXCEPT ![a] = c],
           UNCHANGED <<c1, c2, c3, c5, c6, c7, c8, c9, c10, c12>>
    PROVE  D!Inv'
<1>1. MemoryCallers(c11) /\ c10 \in D!Callers \cup {D!Nobody} /\ c3 \in Nat
  BY MemoryTyped
<1>2. c1 \in {"none", "bound", "unbound"}
  BY DEF D!Inv, D!Typed
<1>3. MemoryCallers([c11 EXCEPT ![a] = c])
  BY <1>1, MemoryChanges
<1> QED
  BY <1>1, <1>2, <1>3, MemoryMoves

LEMMA MemoryAskSweep ==
    ASSUME D!Inv, D!Ask \/ D!Sweep  PROVE D!Inv'
<1>1. c2 \in Nat /\ c6 \in D!Jobs /\ c6.gen <= c2 /\ c6.gen \in Nat
  BY MemoryTyped DEF D!Jobs
<1>2. UNCHANGED <<c1, c2, c3, c5, c6, c7, c8, c9, c10, c12>>
  BY DEF D!Ask, D!Sweep
<1>3. CASE D!Ask
  <2> DEFINE c == [D!Idle EXCEPT !.kind = "delete", !.pc = "claim", !.gen = c2]
  <2>1. PICK a \in D!Callers : c11' = [c11 EXCEPT ![a] = c]
    BY <1>3 DEF D!Ask
  <2>2. MemoryCaller(c)
    <3>1. D!Idle \in MemoryCall /\ D!Idle.due.gen = 0
      BY MemoryNothing DEF D!Idle, MemoryCall, D!Nobody
    <3>2. c \in MemoryCall
      BY <1>1, <3>1 DEF MemoryCall
    <3>3. c.gen = c2 /\ c.due = D!Idle.due /\ c.kind = "delete"
      BY <3>1 DEF MemoryCall
    <3> HIDE DEF c
    <3> QED
      BY <1>1, <3>1, <3>2, <3>3 DEF MemoryCaller
  <2> HIDE DEF c
  <2> QED
    BY <1>2, <2>1, <2>2, MemoryAsks
<1>4. CASE D!Sweep
  <2> DEFINE c == [D!Idle EXCEPT !.kind = "sweep", !.pc = "claim", !.gen = c6.gen, !.due = c6]
  <2>1. PICK a \in D!Callers : c11' = [c11 EXCEPT ![a] = c]
    BY <1>4 DEF D!Sweep
  <2>2. c6 # D!NoTask
    BY <1>4 DEF D!Sweep
  <2>3. MemoryCaller(c)
    BY <1>1, <2>2 DEF D!Idle, MemoryCaller, MemoryCall, D!Nobody
  <2> HIDE DEF c
  <2> QED
    BY <1>2, <2>1, <2>3, MemoryAsks
<1> QED
  BY <1>3, <1>4

LEMMA MemoryWake ==
    ASSUME D!Inv, NEW a \in D!Callers, D!Wake(a)  PROVE D!Inv'
<1>1. UNCHANGED <<c1, c2, c3, c5, c6, c7, c8, c9, c12>>
  BY DEF D!Wake
<1>2. /\ c6 \in D!Jobs /\ c6.gen <= c2 /\ MemoryCallers(c11) /\ c3 \in Nat
      /\ c1 \in {"none", "bound", "unbound"}
  BY MemoryTyped DEF D!Inv, D!Typed
<1>3. CASE D!Leave(a)
  BY <1>1, <1>2, <1>3, MemoryLeaves, MemoryMoves
<1>4. CASE /\ c6 # D!NoTask /\ c10' = c10
           /\ c11' = [c11 EXCEPT ![a].pc = "claim", ![a].due = c6]
  <2> DEFINE c == [c11[a] EXCEPT !.pc = "claim", !.due = c6]
  <2>1. MemoryCaller(c)
    BY <1>2, <1>4 DEF MemoryCallers, MemoryCaller, MemoryCall
  <2>2. c11' = [c11 EXCEPT ![a] = c]
    BY <1>2, <1>4 DEF MemoryCallers
  <2> HIDE DEF c
  <2> QED
    BY <1>1, <1>4, <2>1, <2>2, MemoryAsks
<1> QED
  BY <1>3, <1>4 DEF D!Wake

LEMMA MemoryReturns ==
    ASSUME D!Inv, NEW a \in D!Callers, D!StopTimer(a) \/ D!Return(a)  PROVE D!Inv'
<1>1. D!Leave(a) /\ UNCHANGED <<c1, c2, c3, c5, c6, c7, c8, c9, c12>>
  BY DEF D!StopTimer, D!Return
<1>2. c3 \in Nat /\ c1 \in {"none", "bound", "unbound"}
  BY MemoryTyped DEF D!Inv, D!Typed
<1> QED
  BY <1>1, <1>2, MemoryLeaves, MemoryMoves

LEMMA MemoryWorld ==
    ASSUME D!Inv, D!Bind \/ D!Tick  PROVE D!Inv'
<1>1. /\ UNCHANGED <<c2, c5, c6, c7, c8, c9, c10, c11, c12>>
      /\ c1' \in {c1, "bound"} /\ c3' \in {c3, c3 + 1}
  BY DEF D!Bind, D!Tick
<1>2. /\ c3 \in Nat /\ c1 \in {"none", "bound", "unbound"} /\ MemoryCallers(c11)
      /\ c10 \in D!Callers \cup {D!Nobody} /\ c2 \in Nat
  BY MemoryTyped DEF D!Inv, D!Typed
<1>3. MemoryCallers(c11') /\ c3' \in Nat /\ c1' \in {"none", "bound", "unbound"}
      /\ c10' \in D!Callers \cup {D!Nobody}
  BY <1>1, <1>2
<1> QED
  BY <1>1, <1>3, MemoryMoves

LEMMA MemoryGiveUp ==
    ASSUME D!Inv, NEW a \in D!Callers, D!GiveUp(a)  PROVE D!Inv'
<1>1. D!Leave(a) /\ UNCHANGED <<c1, c2, c3, c5, c8, c9, c12>>
  BY DEF D!GiveUp
<1>2. /\ D!Typed /\ D!Aged /\ c3 \in Nat /\ c1 \in {"none", "bound", "unbound"}
      /\ MemoryCallers(c11) /\ c2 \in Nat /\ c6 \in D!Jobs /\ c6.gen <= c2 /\ c7 \in MemoryNote
  BY MemoryTyped DEF D!Inv, D!Typed
<1>3. c11[a].gen \in Nat /\ c11[a].gen <= c2 /\ c7.attempts \in Nat
  BY <1>2 DEF MemoryCallers, MemoryCaller, MemoryCall, MemoryNote
<1>4. CASE c11[a].gen # c2 /\ D!Observe("cancelled", c11[a].gen, 0) /\ c6' = c6
  BY <1>1, <1>2, <1>3, <1>4, MemoryLeaves, MemoryMoves
<1>5. CASE c7' = c7 /\ c6' = c6
  BY <1>1, <1>2, <1>5, MemoryLeaves, MemoryMoves
<1>6. CASE /\ c6' = IF c6 = D!NoTask THEN D!Task(c3, c7.attempts) ELSE c6
           /\ D!Observe("pending", c2, c7.attempts)
  <2>1. c6' \in D!Jobs /\ c6'.gen <= c2
    BY <1>2, <1>3, <1>6, MemoryTask
  <2>2. c7' \in MemoryNote /\ c7'.gen <= c2 /\ c7'.state = "pending"
    BY <1>2, <1>3, <1>6, MemoryObserved DEF D!States
  <2> QED
    BY <1>1, <1>2, <2>1, <2>2, MemoryLeaves, MemoryQuiet
<1> QED
  BY <1>4, <1>5, <1>6 DEF D!GiveUp
LEMMA MemoryClaim ==
    ASSUME D!Inv, NEW a \in D!Callers, D!Claim(a)  PROVE D!Inv'
<1>1. UNCHANGED <<c1, c2, c3, c5, c6, c8>>
  BY DEF D!Claim
<1>2. /\ D!Typed /\ D!Aged /\ c3 \in Nat /\ c1 \in {"none", "bound", "unbound"}
      /\ MemoryCallers(c11) /\ c2 \in Nat /\ c6 \in D!Jobs /\ c6.gen <= c2 /\ c7 \in MemoryNote
      /\ c9 \in D!Workers \cup {D!Nobody} /\ c10 \in D!Callers \cup {D!Nobody}
      /\ c12 \in [D!Workers -> MemoryWork] /\ c7.gen <= c2
  BY MemoryTyped DEF D!Inv, D!Typed
<1>3. c11[a].gen \in Nat /\ c11[a].gen <= c2 /\ MemoryCaller(c11[a])
  BY <1>2 DEF MemoryCallers, MemoryCaller, MemoryCall
<1>4. CASE /\ c11[a].gen # c2 /\ D!Observe("cancelled", c11[a].gen, 0) /\ D!Leave(a)
           /\ UNCHANGED <<c9, c12>>
  BY <1>1, <1>2, <1>3, <1>4, MemoryLeaves, MemoryMoves
<1>5. CASE D!Leave(a) /\ UNCHANGED <<c7, c9, c12>>
  BY <1>1, <1>2, <1>5, MemoryLeaves, MemoryMoves
<1>6. CASE c8 /\ D!Observe("already", c2, 0) /\ D!Leave(a) /\ UNCHANGED <<c9, c12>>
  BY <1>1, <1>2, <1>6, MemoryLeaves, MemoryMoves
<1>7. ASSUME NEW w \in D!Workers \cup {D!Nobody},
             c11' = [c11 EXCEPT ![a].pc = "wait", ![a].due = D!NoTask, ![a].worker = w]
      PROVE  MemoryCallers(c11')
  <2> DEFINE c == [c11[a] EXCEPT !.pc = "wait", !.due = D!NoTask, !.worker = w]
  <2>1. MemoryCaller(c)
    <3>1. PICK none \in D!Jobs : none = D!NoTask /\ none.gen = 0
      BY MemoryNothing
    <3>2. c = [c11[a] EXCEPT !.pc = "wait", !.due = none, !.worker = w]
      BY <3>1
    <3> HIDE DEF c
    <3>3. c11[a] \in MemoryCall /\ c11[a].gen <= c2
      BY <1>3 DEF MemoryCaller
    <3>4. c \in MemoryCall
      BY <1>2, <3>2, <3>3 DEF MemoryCall
    <3>5. c.gen = c11[a].gen /\ c.due = none /\ c.pc = "wait"
      BY <3>2, <3>3 DEF MemoryCall
    <3> QED
      BY <1>2, <3>1, <3>3, <3>4, <3>5 DEF MemoryCaller
  <2>2. c11' = [c11 EXCEPT ![a] = c]
    BY <1>2, <1>7 DEF MemoryCallers
  <2> HIDE DEF c
  <2>3. MemoryCallers([c11 EXCEPT ![a] = c])
    BY <1>2, <2>1, MemoryChanges
  <2> QED
    BY <2>2, <2>3
<1>8. CASE /\ c11' = [c11 EXCEPT ![a].pc = "wait", ![a].due = D!NoTask, ![a].worker = c9]
           /\ UNCHANGED <<c7, c9, c10, c12>>
  <2>1. MemoryCallers(c11')
    BY <1>2, <1>7, <1>8
  <2>2. c10' \in D!Callers \cup {D!Nobody} /\ c3' \in Nat /\ c1' \in {"none", "bound", "unbound"}
    BY <1>1, <1>2, <1>8
  <2> QED
    BY <1>1, <1>8, <2>1, <2>2, MemoryMoves
<1>9. CASE /\ c9 = D!Nobody /\ UNCHANGED <<c7, c10>>
           /\ \E w \in D!Workers :
                /\ c12[w].at = "none"
                /\ c12' = [c12 EXCEPT ![w] =
                      [D!Unborn EXCEPT !.at = "ready", !.gen = c2, !.client = c2]]
                /\ c9' = w
                /\ c11' = [c11 EXCEPT ![a].pc = "wait", ![a].due = D!NoTask, ![a].worker = w]
  <2> DEFINE x == [D!Unborn EXCEPT !.at = "ready", !.gen = c2, !.client = c2]
  <2>1. PICK w \in D!Workers :
          /\ c12[w].at = "none" /\ c12' = [c12 EXCEPT ![w] = x] /\ c9' = w
          /\ c11' = [c11 EXCEPT ![a].pc = "wait", ![a].due = D!NoTask, ![a].worker = w]
    BY <1>9
  <2>2. /\ x \in MemoryWork /\ x.at = "ready" /\ x.gen = c2 /\ x.client = c2 /\ ~x.gone
    BY <1>2 DEF D!Unborn, MemoryWork, D!Places
  <2> HIDE DEF x
  <2>3. c12' \in [D!Workers -> MemoryWork] /\ c12'[w] = x /\ \A v \in D!Workers \ {w} : c12'[v] = c12[v]
    BY <1>2, <2>1, <2>2
  <2>4. MemoryCallers(c11')
    BY <1>7, <2>1
  <2>5. UNCHANGED <<c1, c2, c3, c5, c6, c7, c8, c10>>
    BY <1>1, <1>9
  <2> USE DEF D!Inv
  <2>6. D!Typed'
    BY <2>1, <2>3, <2>4, <2>5 DEF D!Typed, MemoryWork, MemoryCallers, MemoryCall
  <2>7. D!Aged'
    BY <1>2, <2>2, <2>3, <2>4, <2>5 DEF D!Aged, D!Live, MemoryCallers, MemoryCaller
  <2>8. \A v \in D!Workers : D!Live(v) => c12[v].gen # c2
    BY <1>9 DEF D!Registry, D!Workers, D!Nobody
  <2>9. \A v \in D!Workers : D!Live(v)' => v = w \/ (D!Live(v) /\ c12'[v] = c12[v])
    BY <2>3 DEF D!Live
  <2>10. D!Registry'
    BY <2>1, <2>5, <2>8, <2>9 DEF D!Registry
  <2>11. D!OneDeletion'
    BY <2>2, <2>3, <2>8, <2>9 DEF D!OneDeletion
  <2>12. D!Seen' /\ D!OwnAccount' /\ D!GoneIsGone'
    BY <2>2, <2>3, <2>5 DEF D!Seen, D!OwnAccount, D!GoneIsGone
  <2>13. D!Queue'
    BY <2>4, <2>5 DEF D!Queue, MemoryCallers, MemoryCaller
  <2> QED
    BY <2>6, <2>7, <2>10, <2>11, <2>12, <2>13
<1> QED
  BY <1>1, <1>4, <1>5, <1>6, <1>8, <1>9 DEF D!Claim, D!Open

LEMMA MemoryEnds ==
    ASSUME D!Inv, NEW w \in D!Workers, NEW gone \in BOOLEAN, D!End(w, gone)
    PROVE  \E x \in MemoryWork :
             /\ c12' = [c12 EXCEPT ![w] = x] /\ x.at = "done"
             /\ x.gone = gone /\ x.gen = IF gone THEN c12[w].gen ELSE 0
<1> DEFINE x == [D!Unborn EXCEPT !.at = "done", !.gone = gone,
                                 !.gen = IF gone THEN c12[w].gen ELSE 0]
<1>1. c12[w].gen \in Nat
  BY MemoryTyped DEF MemoryWork
<1>2. x \in MemoryWork /\ x.at = "done" /\ x.gone = gone /\ x.gen = IF gone THEN c12[w].gen ELSE 0
  BY <1>1 DEF D!Unborn, MemoryWork, D!Places
<1>3. c12' = [c12 EXCEPT ![w] = x]
  BY DEF D!End
<1> HIDE DEF x
<1> QED
  BY <1>2, <1>3

\* What is known where a deletion is under way.
LEMMA MemoryLive ==
    ASSUME D!Inv, NEW w \in D!Workers, D!Live(w)
    PROVE  /\ c12[w] \in MemoryWork /\ c12[w].gen \in Nat /\ c12[w].gen <= c2
           /\ c12[w].client \in Nat /\ c12[w].attempts \in Nat
           /\ c12[w].gen <= c12[w].client /\ c12[w].client <= c2
           /\ c12[w].at \in {"sending", "reading", "finishing"} => c12[w].client = c12[w].gen
           /\ c12[w].at = "finishing" /\ c12[w].client = 0 => c5 = "gone"
<1>1. c12[w] \in MemoryWork
  BY MemoryTyped
<1>2. D!Aged /\ D!Seen
  BY DEF D!Inv
<1> QED
  BY <1>1, <1>2 DEF MemoryWork, D!Aged, D!Seen

\* A deletion ends, of a chat that it has seen gone or of one that it has not.
LEMMA MemoryEnding ==
    ASSUME D!Inv, UNCHANGED <<c1, c2, c3, c9>>, NEW w \in D!Workers, D!Live(w),
           NEW gone \in BOOLEAN, D!End(w, gone), gone => c2 # 0 \/ c5' = "gone",
           gone => c12[w].gen = c2,
           c5' \in {c5, "gone"}, c6' \in D!Jobs, c6'.gen <= c2,
           c7' \in MemoryNote, c7'.gen <= c2,
           c7'.state = "retained" /\ c7'.gen = c2 => c6' = D!NoTask,
           c7'.state \in {"completed", "already"} => c7' = c7 \/ c7'.gen # 0 \/ c5' = "gone",
           c8' \in BOOLEAN, c8' => c8 \/ c2 # 0 \/ c5' = "gone",
           c10' \in D!Callers \cup {D!Nobody}, MemoryCallers(c11')
    PROVE  D!Inv'
<1>1. PICK x \in MemoryWork :
        /\ c12' = [c12 EXCEPT ![w] = x] /\ x.at = "done"
        /\ x.gone = gone /\ x.gen = IF gone THEN c12[w].gen ELSE 0
  BY MemoryEnds
<1>2. x.gen <= c2 /\ c2 \in Nat
  BY <1>1, MemoryLive, MemoryTyped
<1>3. x.gone /\ x.gen = 0 => c5' = "gone"
  BY <1>1
<1> QED
  BY <1>1, <1>2, <1>3, MemoryWorks

LEMMA MemoryMove ==
    ASSUME D!Inv, NEW w \in D!Workers, D!Live(w), NEW x \in MemoryWork,
           UNCHANGED <<c1, c2, c3, c6, c7, c8, c9, c10, c11>>,
           c12' = [c12 EXCEPT ![w] = x], c5' \in {c5, "gone"},
           x.at \notin {"none", "done"}, ~x.gone, x.gen = c12[w].gen,
           x.gen <= x.client, x.client <= c2,
           x.at \in {"sending", "reading", "finishing"} => x.client = x.gen,
           x.at = "finishing" /\ x.client = 0 => c5' = "gone"
    PROVE  D!Inv'
<1>1. D!Queue /\ D!Typed
  BY DEF D!Inv
<1>2. c8 \in BOOLEAN
  BY <1>1 DEF D!Typed
<1>3. MemoryCallers(c11')
  BY MemoryTyped
<1> QED
  BY <1>1, <1>2, <1>3, MemoryTyped, MemoryLive, MemoryWorks DEF D!Queue
LEMMA MemoryStart ==
    ASSUME D!Inv, NEW w \in D!Workers, D!Start(w)  PROVE D!Inv'
<1>1. D!Live(w) /\ c12[w].at = "ready" /\ UNCHANGED <<c1, c2, c3, c5, c8, c9, c10, c11>>
  BY DEF D!Start, D!Live
<1>2. /\ D!Typed /\ D!Aged /\ D!Queue /\ c8 \in BOOLEAN /\ MemoryCallers(c11')
      /\ c10 \in D!Callers \cup {D!Nobody} /\ c6 \in D!Jobs /\ c6.gen <= c2
      /\ c7 \in MemoryNote /\ c7.gen <= c2 /\ c2 \in Nat
      /\ c12 \in [D!Workers -> MemoryWork]
  BY <1>1, MemoryTyped DEF D!Inv, D!Typed
<1>3. c12[w] \in MemoryWork /\ c12[w].gen \in Nat /\ c12[w].gen <= c2
      /\ c12[w].gen <= c12[w].client /\ c12[w].client <= c2
  BY <1>1, MemoryLive
<1>4. CASE D!End(w, FALSE) /\ UNCHANGED <<c6, c7>>
  BY <1>1, <1>2, <1>4, MemoryEnding DEF D!Queue
<1>5. CASE D!Observe("cancelled", c12[w].gen, 0) /\ D!End(w, FALSE) /\ c6' = c6
  <2>1. c7' \in MemoryNote /\ c7'.gen <= c2 /\ (c7' = c7 \/ c7'.state = "cancelled")
    BY <1>2, <1>3, <1>5, MemoryObserved DEF D!States
  <2> QED
    BY <1>1, <1>2, <1>5, <2>1, MemoryEnding DEF D!Queue
<1>6. CASE /\ c12[w].gen = c2
           /\ \E at \in {"checking", "resolving"} :
                c12' = [c12 EXCEPT ![w].attempts = c6.attempts + 1, ![w].at = at]
           /\ c6' = IF c6 = D!NoTask THEN c6 ELSE [c6 EXCEPT !.attempts = @ + 1]
           /\ D!Observe("pending", c2, c6.attempts + 1)
  <2>1. PICK at \in {"checking", "resolving"} :
          c12' = [c12 EXCEPT ![w].attempts = c6.attempts + 1, ![w].at = at]
    BY <1>6
  <2> DEFINE x == [c12[w] EXCEPT !.attempts = c6.attempts + 1, !.at = at]
  <2>2. c6.attempts + 1 \in Nat
    BY <1>2 DEF D!Jobs
  <2>3. x \in MemoryWork /\ x.at = at /\ x.gen = c12[w].gen /\ x.client = c12[w].client
        /\ x.gone = c12[w].gone
    BY <1>3, <2>2 DEF MemoryWork, D!Places
  <2>4. c12' = [c12 EXCEPT ![w] = x]
    BY <1>2, <2>1
  <2> HIDE DEF x
  <2>5. x.gone /\ x.gen = 0 => c5' = "gone"
    BY <1>1, <2>3 DEF D!Inv, D!GoneIsGone, D!Typed
  <2>6. c6' \in D!Jobs /\ c6'.gen <= c2
    <3>1. [c6 EXCEPT !.attempts = @ + 1] \in D!Jobs /\ [c6 EXCEPT !.attempts = @ + 1].gen = c6.gen
      BY <1>2 DEF D!Jobs
    <3> QED
      BY <1>2, <1>6, <3>1
  <2>7. c7' \in MemoryNote /\ c7'.gen <= c2 /\ c7'.state = "pending"
    BY <1>2, <1>6, <2>2, MemoryObserved DEF D!States
  <2> QED
    BY <1>1, <1>2, <1>3, <2>3, <2>4, <2>5, <2>6, <2>7, MemoryWorks
<1> QED
  BY <1>4, <1>5, <1>6 DEF D!Start

\* The steps on the way: a client, the check, the request, the read back.
LEMMA MemoryOnTheWay ==
    ASSUME D!Inv, NEW w \in D!Workers, D!Resolve(w) \/ D!Check(w) \/ D!Send(w) \/ D!ReadBack(w)
    PROVE  D!Inv'
<1> USE DEF D!Live
<1>1. D!Live(w) /\ UNCHANGED <<c1, c2, c3, c6, c8, c9, c10, c11>>
  BY DEF D!Resolve, D!Check, D!Send, D!ReadBack
<1>2. /\ D!Typed /\ D!Aged /\ D!Queue /\ c8 \in BOOLEAN /\ MemoryCallers(c11')
      /\ c10 \in D!Callers \cup {D!Nobody} /\ c6 \in D!Jobs /\ c6.gen <= c2
      /\ c7 \in MemoryNote /\ c7.gen <= c2 /\ c2 \in Nat
      /\ c12 \in [D!Workers -> MemoryWork]
  BY <1>1, MemoryTyped DEF D!Inv, D!Typed
<1>3. /\ c12[w] \in MemoryWork /\ c12[w].gen \in Nat /\ c12[w].gen <= c2
      /\ c12[w].gen <= c12[w].client /\ c12[w].client <= c2 /\ c12[w].client \in Nat
      /\ c12[w].at \in {"sending", "reading", "finishing"} => c12[w].client = c12[w].gen
  BY <1>1, MemoryLive
<1>4. c12[w].gone /\ c12[w].gen = 0 => c5 = "gone"
  BY DEF D!Inv, D!GoneIsGone, D!Typed
<1>5. ASSUME NEW at \in {"checking", "sending", "reading", "finishing"},
             NEW client \in Nat, c12[w].gen <= client, client <= c2,
             at # "checking" => client = c12[w].gen,
             at = "finishing" /\ client = 0 => c5' = "gone",
             c12' = [c12 EXCEPT ![w].at = at, ![w].client = client],
             c5' \in {c5, "gone"}, c7' = c7
      PROVE  D!Inv'
  <2> DEFINE x == [c12[w] EXCEPT !.at = at, !.client = client]
  <2>1. x \in MemoryWork /\ x.at = at /\ x.gen = c12[w].gen /\ x.client = client
        /\ x.gone = c12[w].gone
    BY <1>3, <1>5 DEF MemoryWork, D!Places
  <2>2. c12' = [c12 EXCEPT ![w] = x]
    BY <1>2, <1>5
  <2> HIDE DEF x
  <2>3. x.gone /\ x.gen = 0 => c5' = "gone"
    BY <1>4, <1>5, <2>1
  <2>4. x.at \notin {"none", "done"} /\ (x.at \in {"sending", "reading", "finishing"} => x.client = x.gen)
    BY <1>5, <2>1
  <2>5. /\ x.gen <= x.client /\ x.client <= c2 /\ x.gen <= c2
        /\ x.at = "finishing" /\ x.client = 0 => c5' = "gone"
    BY <1>3, <1>5, <2>1
  <2>6. c6' \in D!Jobs /\ c6'.gen <= c2 /\ c7' \in MemoryNote /\ c7'.gen <= c2
        /\ (c7'.state = "retained" /\ c7'.gen = c2 => c6' = D!NoTask)
    BY <1>1, <1>2, <1>5 DEF D!Queue
  <2> QED
    BY <1>1, <1>2, <1>3, <1>5, <2>1, <2>2, <2>3, <2>4, <2>5, <2>6, MemoryWorks
<1>6. ASSUME NEW at \in D!Places, D!Move(w, at)
      PROVE  c12' = [c12 EXCEPT ![w].at = at, ![w].client = c12[w].client]
  BY <1>2, <1>6 DEF D!Move, MemoryWork
<1>7. CASE D!Resolve(w)
  <2>1. c12' = [c12 EXCEPT ![w].at = "checking", ![w].client = c2] /\ UNCHANGED <<c5, c7>>
    BY <1>7 DEF D!Resolve
  <2>2. c2 \in Nat /\ c12[w].gen <= c2 /\ c2 <= c2 /\ c5' \in {c5, "gone"} /\ c7' = c7
    BY <1>2, <1>3, <2>1
  <2> QED
    BY <1>5, <2>1, <2>2
<1>8. CASE D!Check(w)
  <2>1. CASE D!MaySend(w) /\ D!Move(w, "sending") /\ UNCHANGED <<c5, c7>>
    <3>1. c12[w].client = c12[w].gen
      BY <1>2, <1>3, <2>1 DEF D!MaySend
    <3>2. c12' = [c12 EXCEPT ![w].at = "sending", ![w].client = c12[w].client]
      BY <1>6, <2>1 DEF D!Places
    <3> QED
      BY <1>3, <1>5, <2>1, <3>1, <3>2
  <2>2. CASE D!Observe("cancelled", c12[w].gen, 0) /\ D!End(w, FALSE) /\ c5' = c5
    <3>1. c7' \in MemoryNote /\ c7'.gen <= c2 /\ (c7' = c7 \/ c7'.state = "cancelled")
      BY <1>2, <1>3, <2>2, MemoryObserved DEF D!States
    <3> QED
      BY <1>1, <1>2, <2>2, <3>1, MemoryEnding DEF D!Queue
  <2> QED
    BY <1>8, <2>1, <2>2 DEF D!Check
<1>9. CASE D!Send(w)
  <2>1. c12[w].at = "sending" /\ D!Move(w, "reading") /\ c7' = c7 /\ c5' \in {c5, "gone"}
    BY <1>9 DEF D!Send, D!Reached
  <2>2. c12' = [c12 EXCEPT ![w].at = "reading", ![w].client = c12[w].client]
    BY <1>6, <2>1 DEF D!Places
  <2> QED
    BY <1>3, <1>5, <2>1, <2>2
<1>10. CASE D!ReadBack(w)
  <2>1. c12[w].at = "reading" /\ D!Absent(w) /\ D!Move(w, "finishing") /\ UNCHANGED <<c5, c7>>
    BY <1>10 DEF D!ReadBack
  <2>2. c12' = [c12 EXCEPT ![w].at = "finishing", ![w].client = c12[w].client]
    BY <1>6, <2>1 DEF D!Places
  <2>3. c12[w].client = 0 => c5' = "gone"
    BY <2>1 DEF D!Absent
  <2> QED
    BY <1>3, <1>5, <2>1, <2>2, <2>3
<1> QED
  BY <1>7, <1>8, <1>9, <1>10

LEMMA MemoryFail ==
    ASSUME D!Inv, NEW w \in D!Workers, D!Fail(w)  PROVE D!Inv'
<1>1. /\ D!Live(w) /\ UNCHANGED <<c1, c2, c3, c8, c9, c10, c11>>
      /\ D!Failed(c12[w].gen, c12[w].attempts) /\ D!End(w, FALSE) /\ c5' \in {c5, "gone"}
  BY DEF D!Fail, D!Awaiting, D!Live, D!Reached
<1>2. c8 \in BOOLEAN /\ MemoryCallers(c11') /\ c10 \in D!Callers \cup {D!Nobody}
  BY <1>1, MemoryTyped DEF D!Inv, D!Typed
<1>3. c12[w].gen \in Nat /\ c12[w].gen <= c2 /\ c12[w].attempts \in Nat
  BY <1>1, MemoryLive
<1>4. /\ c6' \in D!Jobs /\ c6'.gen <= c2
      /\ c7' \in MemoryNote /\ c7'.gen <= c2
      /\ c7'.state = "retained" /\ c7'.gen = c2 => c6' = D!NoTask
      /\ c7'.state \in {"completed", "already"} => c7' = c7
  BY <1>1, <1>3, MemoryFailed
<1> QED
  BY <1>1, <1>2, <1>4, MemoryEnding

LEMMA MemoryFinish ==
    ASSUME D!Inv, NEW w \in D!Workers, D!Finish(w)  PROVE D!Inv'
<1>1. D!Live(w) /\ c12[w].at = "finishing" /\ UNCHANGED <<c1, c2, c3, c5, c9>>
  BY DEF D!Finish, D!Live
<1>2. /\ D!Typed /\ D!Aged /\ D!Queue /\ c8 \in BOOLEAN /\ MemoryCallers(c11)
      /\ c10 \in D!Callers \cup {D!Nobody} /\ c6 \in D!Jobs /\ c6.gen <= c2
      /\ c7 \in MemoryNote /\ c7.gen <= c2 /\ c2 \in Nat
  BY MemoryTyped DEF D!Inv, D!Typed
<1>3. /\ c12[w].gen \in Nat /\ c12[w].gen <= c2 /\ c12[w].client = c12[w].gen
      /\ c12[w].attempts \in Nat /\ (c12[w].client = 0 => c5 = "gone")
  BY <1>1, MemoryLive
<1>4. CASE /\ D!Observe("cancelled", c12[w].gen, 0) /\ D!End(w, FALSE)
           /\ UNCHANGED <<c6, c8, c10, c11>>
  <2>1. c7' \in MemoryNote /\ c7'.gen <= c2 /\ (c7' = c7 \/ c7'.state = "cancelled")
    BY <1>2, <1>3, <1>4, MemoryObserved DEF D!States
  <2>2. MemoryCallers(c11')
    BY <1>2, <1>4
  <2> QED
    BY <1>1, <1>2, <1>4, <2>1, <2>2, MemoryEnding DEF D!Queue
<1>5. CASE /\ c12[w].gen = c2 /\ c6' = D!NoTask /\ c11' = D!Disarmed /\ c10' = D!Nobody
           /\ c8' = TRUE /\ D!Observe("completed", c2, c12[w].attempts) /\ D!End(w, TRUE)
  <2>1. c7' \in MemoryNote /\ c7'.gen <= c2 /\ c7'.gen = c2
    <3>1. /\ c7' \in MemoryNote /\ c7'.gen <= c2 /\ c7'.gen >= c7.gen
          /\ c7' = c7 \/ c7'.gen = c2
      BY <1>2, <1>3, <1>5, MemoryObserved DEF D!States
    <3>2. c7.gen <= c2 /\ ~(c2 < c7.gen) => c7'.gen = c2
      BY <1>5 DEF D!Observe
    <3>3. c7.gen \in Nat
      BY <1>2 DEF MemoryNote
    <3> QED
      BY <1>2, <3>1, <3>2, <3>3
  <2>2. MemoryCallers(D!Disarmed)
    BY MemoryDisarmed
  <2>3. MemoryCallers(c11')
    BY <1>5, <2>2
  <2>4. c2 # 0 \/ c5' = "gone"
    BY <1>1, <1>3, <1>5
  <2>5. c6' \in D!Jobs /\ c6'.gen <= c2 /\ c6' = D!NoTask
    BY <1>2, <1>5, MemoryNothing
  <2>6. c8' \in BOOLEAN /\ c10' \in D!Callers \cup {D!Nobody} /\ c5' \in {c5, "gone"}
    BY <1>1, <1>5
  <2>7. c7'.gen # 0 \/ c5' = "gone"
    BY <2>1, <2>4
  <2>8. D!End(w, TRUE) /\ c12[w].gen = c2
    BY <1>5
  <2> QED
    BY <1>1, <2>1, <2>3, <2>4, <2>5, <2>6, <2>7, <2>8, MemoryEnding
<1> QED
  BY <1>4, <1>5 DEF D!Finish

LEMMA MemoryRelease ==
    ASSUME D!Inv, NEW w \in D!Workers, D!Release(w)  PROVE D!Inv'
<1> USE DEF D!Inv
<1>1. /\ c12[w].at = "done" /\ c9 = w /\ c9' = D!Nobody
      /\ UNCHANGED <<c1, c2, c3, c4, c5, c6, c7, c8, c10, c11, c12>>
  BY DEF D!Release, D!Registered
<1>2. D!Typed'
  BY <1>1 DEF D!Typed
<1>3. D!Registry'
  BY <1>1 DEF D!Registry, D!Live
<1>4. D!Aged' /\ D!Queue' /\ D!Seen' /\ D!OneDeletion' /\ D!OwnAccount' /\ D!GoneIsGone'
  BY <1>1 DEF D!Aged, D!Queue, D!Seen, D!OneDeletion, D!OwnAccount, D!GoneIsGone, D!Live
<1> QED
  BY <1>2, <1>3, <1>4

\* The account that comes has nothing under way, and what was is of the old.
LEMMA MemorySwitch ==
    ASSUME D!Inv, D!Switch  PROVE D!Inv'
<1> USE DEF D!Inv
<1>1. /\ c2' = c2 + 1 /\ c6' = D!NoTask /\ c8' = FALSE /\ c9' = D!Nobody /\ c10' = D!Nobody
      /\ c11' = D!Disarmed /\ c1' \in {"none", "unbound"} /\ UNCHANGED <<c3, c5, c12>>
      /\ D!Observe("cancelled", c2, 0) \/ c7' = c7
  BY DEF D!Switch
<1>2. /\ c2 \in Nat /\ c7 \in MemoryNote /\ c7.gen <= c2 /\ MemoryCallers(D!Disarmed)
      /\ c12 \in [D!Workers -> MemoryWork]
  BY MemoryTyped, MemoryDisarmed
<1>3. c7' \in MemoryNote /\ c7'.gen <= c2 /\ (c7' = c7 \/ c7'.state = "cancelled")
  <2>1. "cancelled" \in D!States
    BY DEF D!States
  <2> QED
    BY <1>1, <1>2, <2>1, MemoryObserved
<1>4. c11' \in [D!Callers -> MemoryCall]
      /\ \A a \in D!Callers : /\ c11'[a].gen <= c2 /\ c11'[a].due.gen <= c2
                              /\ c11'[a].pc = "claim" /\ c11'[a].kind # "delete" =>
                                    c11'[a].due # D!NoTask
  BY <1>1, <1>2 DEF MemoryCallers, MemoryCaller
<1>5. c6' \in D!Jobs /\ c6'.gen = 0
  BY <1>1, MemoryNothing
<1>6. D!Typed'
  <2>1. c2' \in Nat /\ c3' \in Nat /\ c5' \in {"there", "gone"} /\ c1' \in {"none", "bound", "unbound"}
    BY <1>1 DEF D!Typed
  <2>2. c8' \in BOOLEAN /\ c9' \in D!Workers \cup {D!Nobody} /\ c10' \in D!Callers \cup {D!Nobody}
    BY <1>1
  <2>3. c12' \in [D!Workers -> MemoryWork]
    BY <1>1, <1>2
  <2> QED
    BY <1>3, <1>4, <1>5, <2>1, <2>2, <2>3 DEF D!Typed, MemoryNote, MemoryCall, MemoryWork
<1>7. D!Aged'
  <2>1. \A n \in Nat : n <= c2 => n <= c2 + 1
    BY <1>2
  <2>2. c7'.gen <= c2 + 1 /\ c6'.gen <= c2 + 1
    BY <1>2, <1>3, <1>5, <2>1 DEF MemoryNote
  <2>3. \A a \in D!Callers : c11'[a].gen <= c2 + 1 /\ c11'[a].due.gen <= c2 + 1
    BY <1>4, <2>1 DEF MemoryCall, D!Jobs
  <2>4. \A w \in D!Workers : c12[w].gen \in Nat /\ c12[w].client \in Nat
    BY <1>2 DEF MemoryWork
  <2>5. \A w \in D!Workers :
          /\ c12[w].gen <= c2 + 1
          /\ D!Live(w) => c12[w].gen <= c12[w].client /\ c12[w].client <= c2 + 1
          /\ c12[w].at \in {"sending", "reading", "finishing"} => c12[w].client = c12[w].gen
    BY <2>1, <2>4 DEF D!Aged
  <2> QED
    BY <1>1, <2>2, <2>3, <2>5 DEF D!Aged, D!Live
<1>8. \A w \in D!Workers : c12[w].gen # c2 + 1
  BY <1>2 DEF D!Aged, MemoryWork
<1>9. D!Registry'
  BY <1>1, <1>8 DEF D!Registry
<1>10. D!Seen' /\ D!OneDeletion' /\ D!OwnAccount'
  BY <1>1 DEF D!Seen, D!OneDeletion, D!OwnAccount, D!Live
<1>11. D!Queue'
  BY <1>1, <1>4 DEF D!Queue
<1>12. D!GoneIsGone'
  BY <1>1, <1>3 DEF D!GoneIsGone
<1> QED
  BY <1>6, <1>7, <1>9, <1>10, <1>11, <1>12

LEMMA MemoryStep ==
    ASSUME D!Inv, [D!Next]_(D!state)  PROVE D!Inv'
<1>1. CASE D!Retain \/ D!Schedule \/ D!RecordFailure \/ D!Ask \/ D!Sweep \/ D!Switch \/ D!Bind \/ D!Tick
  BY <1>1, MemoryRetain, MemorySchedule, MemoryRecordFailure, MemoryAskSweep, MemorySwitch,
    MemoryWorld
<1>2. ASSUME NEW a \in D!Callers,
             D!Wake(a) \/ D!StopTimer(a) \/ D!Claim(a) \/ D!Return(a) \/ D!GiveUp(a)
      PROVE  D!Inv'
  BY <1>2, MemoryWake, MemoryReturns, MemoryClaim, MemoryGiveUp
<1>3. ASSUME NEW w \in D!Workers,
             \/ D!Start(w) \/ D!Resolve(w) \/ D!Check(w) \/ D!Send(w) \/ D!ReadBack(w)
             \/ D!Fail(w) \/ D!Finish(w) \/ D!Release(w)
      PROVE  D!Inv'
  BY <1>3, MemoryStart, MemoryOnTheWay, MemoryFail, MemoryFinish, MemoryRelease
<1>4. CASE UNCHANGED D!state
  BY <1>4 DEF D!state, D!Inv, D!Typed, D!Aged, D!Registry, D!Seen, D!Queue, D!OneDeletion,
    D!GoneIsGone, D!OwnAccount, D!Live
<1> QED
  BY <1>1, <1>2, <1>3, <1>4 DEF D!Next
\* The account of the last note never goes back, and no queue outlives a switch.
LEMMA MemoryAdvances ==
    ASSUME D!Inv, D!Next
    PROVE  /\ c7'.gen >= c7.gen
           /\ c2' = c2 \/ c6' = D!NoTask
<1>1. c7 \in MemoryNote /\ c2 \in Nat
  BY MemoryTyped
<1>2. c7.gen \in Nat
  BY <1>1 DEF MemoryNote
<1>3. ASSUME NEW s, NEW g, NEW n, D!Observe(s, g, n), g \in Nat
      PROVE  c7'.gen >= c7.gen
  BY <1>2, <1>3 DEF D!Observe
<1>4. \A a \in D!Callers : c11[a].gen \in Nat
  BY MemoryTyped DEF MemoryCallers, MemoryCall
<1>5. \A w \in D!Workers : c12[w].gen \in Nat
  BY MemoryTyped DEF MemoryWork
<1>6. ASSUME NEW g \in 0..c2, D!Refused(g)  PROVE c7'.gen >= c7.gen
  BY <1>1, <1>3, <1>6 DEF D!Refused
<1>7. CASE D!Retain \/ D!Schedule
  BY <1>1, <1>3, <1>6, <1>7 DEF D!Retain, D!Schedule
<1>8. CASE D!RecordFailure \/ \E w \in D!Workers : D!Fail(w)
  <2>1. ASSUME NEW g \in Nat, NEW n, D!Failed(g, n)  PROVE c7'.gen >= c7.gen
    BY <1>3, <2>1 DEF D!Failed
  <2> QED
    BY <1>1, <1>5, <1>8, <2>1 DEF D!RecordFailure, D!Fail
<1>9. CASE D!Ask \/ D!Sweep \/ D!Bind \/ D!Tick
  BY <1>2, <1>9 DEF D!Ask, D!Sweep, D!Bind, D!Tick
<1>10. CASE D!Switch
  BY <1>1, <1>2, <1>3, <1>10 DEF D!Switch
<1>11. CASE \E a \in D!Callers : D!Wake(a) \/ D!StopTimer(a) \/ D!Return(a)
  BY <1>2, <1>11 DEF D!Wake, D!StopTimer, D!Return
<1>12. CASE \E a \in D!Callers : D!Claim(a) \/ D!GiveUp(a)
  BY <1>1, <1>2, <1>3, <1>4, <1>12 DEF D!Claim, D!GiveUp
<1>13. CASE \E w \in D!Workers : D!Start(w) \/ D!Check(w) \/ D!Finish(w)
  <2>1. PICK w \in D!Workers : D!Start(w) \/ D!Check(w) \/ D!Finish(w)
    BY <1>13
  <2>2. PICK g \in Nat : g = c12[w].gen
    BY <1>5
  <2>3. /\ c2' = c2
        /\ \/ c7' = c7
           \/ \E s, n : D!Observe(s, g, n) \/ D!Observe(s, c2, n)
    BY <2>1, <2>2 DEF D!Start, D!Check, D!Finish
  <2> QED
    BY <1>1, <1>2, <1>3, <2>3
<1>14. CASE \E w \in D!Workers : D!Resolve(w) \/ D!Send(w) \/ D!ReadBack(w) \/ D!Release(w)
  BY <1>2, <1>14 DEF D!Resolve, D!Send, D!ReadBack, D!Release
<1> QED
  BY <1>7, <1>8, <1>9, <1>10, <1>11, <1>12, <1>13, <1>14 DEF D!Next

\* A deletion begins with a claim that nothing stood against, and from then on
\* only its own steps change it.
LEMMA MemoryWorkers ==
    ASSUME D!Inv, D!Next, NEW w \in D!Workers, c12'[w] # c12[w]
    PROVE  \/ /\ c12[w].at = "none"
              /\ \E a \in D!Callers : /\ D!Claim(a) /\ ~D!Outdated(a)
                                      /\ c11[a].pc = "claim" /\ c11'[a].worker = w
           \/ /\ D!Live(w)
              /\ \/ D!Start(w) \/ D!Resolve(w) \/ D!Check(w) \/ D!Send(w) \/ D!ReadBack(w)
                 \/ D!Fail(w) \/ D!Finish(w)
<1>1. c12 \in [D!Workers -> MemoryWork] /\ c11 \in [D!Callers -> MemoryCall]
  BY MemoryTyped DEF MemoryCallers
<1>2. CASE \E v \in D!Workers :
             \/ D!Start(v) \/ D!Resolve(v) \/ D!Check(v) \/ D!Send(v) \/ D!ReadBack(v)
             \/ D!Fail(v) \/ D!Finish(v)
  <2>1. PICK v \in D!Workers :
             \/ D!Start(v) \/ D!Resolve(v) \/ D!Check(v) \/ D!Send(v) \/ D!ReadBack(v)
             \/ D!Fail(v) \/ D!Finish(v)
    BY <1>2
  <2>2. D!Live(v)
    BY <2>1 DEF D!Live, D!Start, D!Resolve, D!Check, D!Send, D!ReadBack, D!Fail, D!Awaiting, D!Finish
  <2>3. \A u \in D!Workers \ {v} : c12'[u] = c12[u]
    BY <1>1, <2>1 DEF D!Start, D!Resolve, D!Check, D!Send, D!ReadBack, D!Fail, D!Finish, D!Move, D!End
  <2> QED
    BY <2>1, <2>2, <2>3
<1>3. CASE \E a \in D!Callers : D!Claim(a)
  <2>1. PICK a \in D!Callers : D!Claim(a)
    BY <1>3
  <2>2. PICK v \in D!Workers :
          /\ c12[v].at = "none" /\ ~D!Outdated(a) /\ c11[a].pc = "claim"
          /\ c12' = [c12 EXCEPT ![v] = [D!Unborn EXCEPT !.at = "ready", !.gen = c2, !.client = c2]]
          /\ c11' = [c11 EXCEPT ![a].pc = "wait", ![a].due = D!NoTask, ![a].worker = v]
    BY <2>1 DEF D!Claim
  <2>3. v = w
    BY <1>1, <2>2
  <2>4. c11'[a].worker = w
    BY <1>1, <2>2, <2>3 DEF MemoryCall
  <2> QED
    BY <2>1, <2>2, <2>3, <2>4
<1>4. CASE \/ D!Retain \/ D!Schedule \/ D!RecordFailure \/ D!Ask \/ D!Sweep \/ D!Switch \/ D!Bind \/ D!Tick
           \/ \E a \in D!Callers : D!Wake(a) \/ D!StopTimer(a) \/ D!Return(a) \/ D!GiveUp(a)
           \/ \E v \in D!Workers : D!Release(v)
  BY <1>4 DEF D!Retain, D!Schedule, D!RecordFailure, D!Ask, D!Sweep, D!Switch, D!Bind, D!Tick,
    D!Wake, D!StopTimer, D!Return, D!GiveUp, D!Release
<1> QED
  BY <1>2, <1>3, <1>4 DEF D!Next

LEMMA MemoryUndone ==
    ASSUME D!Inv, D!Undone, D!Next  PROVE D!Undone'
<1>1. c7 \in MemoryNote /\ c2 \in Nat /\ c7.gen <= c2
  BY MemoryTyped DEF D!Inv, D!Aged
<1>2. ASSUME NEW s, NEW g, NEW n, D!Observe(s, g, n), s # "retained"
      PROVE  c7'.state = "retained" => c7' = c7
  BY <1>2 DEF D!Observe
<1>3. c4' \in Nat
  <2>1. CASE D!Retain \/ D!Schedule \/ D!RecordFailure
    BY <2>1 DEF D!Undone, D!Decide, D!Retain, D!Schedule, D!RecordFailure
  <2>2. CASE D!Ask \/ D!Sweep \/ D!Switch \/ D!Bind \/ D!Tick
    BY <2>2 DEF D!Undone, D!Ask, D!Sweep, D!Switch, D!Bind, D!Tick
  <2>3. CASE \E a \in D!Callers :
               D!Wake(a) \/ D!StopTimer(a) \/ D!Claim(a) \/ D!Return(a) \/ D!GiveUp(a)
    BY <2>3 DEF D!Undone, D!Wake, D!StopTimer, D!Claim, D!Return, D!GiveUp
  <2>4. CASE \E w \in D!Workers :
               \/ D!Start(w) \/ D!Resolve(w) \/ D!Check(w) \/ D!Send(w) \/ D!ReadBack(w)
               \/ D!Fail(w) \/ D!Finish(w) \/ D!Release(w)
    BY <2>4 DEF D!Undone, D!Start, D!Resolve, D!Check, D!Send, D!ReadBack, D!Fail, D!Finish,
      D!Release
  <2> QED
    BY <2>1, <2>2, <2>3, <2>4 DEF D!Next
<1>4. ASSUME NEW g, NEW n, D!Failed(g, n)  PROVE c7'.state = "retained" => c7' = c7
  BY <1>2, <1>4 DEF D!Failed
<1>5. CASE D!Retain
  BY <1>2, <1>3, <1>5 DEF D!Retain, D!Refused, D!Open, D!Undone
<1>6. CASE D!Switch
  BY <1>3, <1>6 DEF D!Switch, D!Undone
<1>7. ASSUME NEW w \in D!Workers, D!Finish(w)  PROVE D!Undone'
  <2>1. CASE c12[w].gen # c2
    BY <1>2, <1>3, <1>7, <2>1 DEF D!Finish, D!Undone
  <2>2. CASE c12[w].gen = c2
    <3>1. D!Observe("completed", c2, c12[w].attempts)
      BY <1>7, <2>2 DEF D!Finish
    <3>2. c7'.state # "retained"
      BY <1>1, <3>1 DEF D!Observe, MemoryNote
    <3> QED
      BY <1>3, <3>2 DEF D!Undone
  <2> QED
    BY <2>1, <2>2
<1>8. ASSUME c8' = c8, c2' = c2, c7'.state = "retained" => c7' = c7
      PROVE  D!Undone'
  BY <1>3, <1>8 DEF D!Undone
<1>9. CASE D!Schedule
  BY <1>2, <1>8, <1>9 DEF D!Schedule, D!Refused
<1>10. CASE D!RecordFailure \/ \E w \in D!Workers : D!Fail(w)
  BY <1>4, <1>8, <1>10 DEF D!RecordFailure, D!Fail
<1>11. CASE D!Ask \/ D!Sweep \/ D!Bind \/ D!Tick
  BY <1>8, <1>11 DEF D!Ask, D!Sweep, D!Bind, D!Tick
<1>12. CASE \E a \in D!Callers : D!Wake(a) \/ D!StopTimer(a) \/ D!Return(a)
  BY <1>8, <1>12 DEF D!Wake, D!StopTimer, D!Return
<1>13. CASE \E a \in D!Callers : D!Claim(a) \/ D!GiveUp(a)
  BY <1>2, <1>8, <1>13 DEF D!Claim, D!GiveUp
<1>14. CASE \E w \in D!Workers : D!Start(w) \/ D!Check(w)
  BY <1>2, <1>8, <1>14 DEF D!Start, D!Check
<1>15. CASE \E w \in D!Workers : D!Resolve(w) \/ D!Send(w) \/ D!ReadBack(w) \/ D!Release(w)
  BY <1>8, <1>15 DEF D!Resolve, D!Send, D!ReadBack, D!Release
<1> QED
  BY <1>5, <1>6, <1>7, <1>9, <1>10, <1>11, <1>12, <1>13, <1>14, <1>15 DEF D!Next

\* A retain is undone by decisions, switches and deletions only.
LEMMA MemoryRetainStands ==
    ASSUME D!Inv, D!Undone, D!Next, c7.state = "retained", c7.gen = c2, c7' # c7
    PROVE  \/ c4' # c4 \/ c2' # c2
           \/ \E w \in D!Workers : D!Live(w) /\ c12[w].gen = c2 /\ c12'[w] # c12[w]
<1>1. /\ c2 \in Nat /\ c4 \in Nat /\ ~c8 /\ c12 \in [D!Workers -> MemoryWork]
      /\ \A a \in D!Callers : c11[a].gen \in Nat /\ c11[a].gen <= c2
      /\ \A w \in D!Workers : c12[w].gen \in Nat /\ c12[w].gen <= c2
  BY MemoryTyped DEF D!Undone, D!Inv, D!Aged, MemoryCallers, MemoryCall, MemoryWork
<1>2. ASSUME NEW s, NEW g \in Nat, NEW n, D!Observe(s, g, n), g < c2
      PROVE  FALSE
  BY <1>2 DEF D!Observe
<1>3. CASE D!Retain \/ D!Schedule \/ D!RecordFailure
  BY <1>1, <1>3 DEF D!Retain, D!Schedule, D!RecordFailure, D!Decide
<1>4. CASE D!Switch
  BY <1>1, <1>4 DEF D!Switch
<1>5. CASE \E a \in D!Callers : D!Claim(a) \/ D!GiveUp(a)
  <2>1. PICK a \in D!Callers : D!Claim(a) \/ D!GiveUp(a)
    BY <1>5
  <2>2. c11[a].gen # c2 => c11[a].gen < c2
    BY <1>1, <2>1
  <2>3. CASE D!Claim(a)
    BY <1>1, <1>2, <2>1, <2>2, <2>3 DEF D!Claim
  <2>4. CASE D!GiveUp(a)
    BY <1>1, <1>2, <2>1, <2>2, <2>4 DEF D!GiveUp
  <2> QED
    BY <2>1, <2>3, <2>4
<1>6. CASE \E w \in D!Workers : D!Start(w) \/ D!Check(w) \/ D!Fail(w) \/ D!Finish(w)
  <2>1. PICK w \in D!Workers : D!Start(w) \/ D!Check(w) \/ D!Fail(w) \/ D!Finish(w)
    BY <1>6
  <2>2. D!Live(w) /\ c12'[w] # c12[w]
    <3>1. c12[w].at \in {"ready", "checking", "resolving", "sending", "reading", "finishing"}
      BY <2>1 DEF D!Start, D!Check, D!Fail, D!Finish, D!Awaiting
    <3>2. c12'[w].at # c12[w].at
      <4>1. ASSUME NEW gone, D!End(w, gone)  PROVE c12'[w].at = "done"
        BY <1>1, <4>1 DEF D!End, D!Unborn, MemoryWork
      <4>2. CASE D!Start(w)
        BY <1>1, <4>1, <4>2 DEF D!Start, MemoryWork
      <4>3. CASE D!Check(w)
        BY <1>1, <4>1, <4>3 DEF D!Check, D!Move, MemoryWork
      <4>4. CASE D!Fail(w) \/ D!Finish(w)
        BY <3>1, <4>1, <4>4 DEF D!Fail, D!Finish
      <4> QED
        BY <2>1, <4>2, <4>3, <4>4
    <3> QED
      BY <3>1, <3>2 DEF D!Live
  <2>3. c12[w].gen # c2 => c12[w].gen < c2
    BY <1>1, <2>1
  <2>4. c12[w].gen = c2
    <3>1. CASE D!Start(w)
      BY <1>1, <1>2, <2>1, <2>3, <3>1 DEF D!Start
    <3>2. CASE D!Check(w)
      BY <1>1, <1>2, <2>1, <2>3, <3>2 DEF D!Check, D!MaySend
    <3>3. CASE D!Fail(w)
      BY <1>1, <1>2, <2>1, <2>3, <3>3 DEF D!Fail, D!Failed
    <3>4. CASE D!Finish(w)
      BY <1>1, <1>2, <2>1, <2>3, <3>4 DEF D!Finish
    <3> QED
      BY <2>1, <3>1, <3>2, <3>3, <3>4
  <2> QED
    BY <2>2, <2>4
<1>7. CASE D!Ask \/ D!Sweep \/ D!Bind \/ D!Tick
  BY <1>7 DEF D!Ask, D!Sweep, D!Bind, D!Tick
<1>8. CASE \E a \in D!Callers : D!Wake(a) \/ D!StopTimer(a) \/ D!Return(a)
  BY <1>8 DEF D!Wake, D!StopTimer, D!Return
<1>9. CASE \E w \in D!Workers : D!Resolve(w) \/ D!Send(w) \/ D!ReadBack(w) \/ D!Release(w)
  BY <1>9 DEF D!Resolve, D!Send, D!ReadBack, D!Release
<1> QED
  BY <1>3, <1>4, <1>5, <1>6, <1>7, <1>8, <1>9 DEF D!Next

LEMMA MemoryRetainedIsLeft ==
    ASSUME D!Inv, D!Undone, D!Next  PROVE D!RetainedIsLeft
<1> SUFFICES ASSUME c7.state = "retained", c7.gen = c2
             PROVE  /\ c6 = D!NoTask
                    /\ c6' = D!NoTask \/ c7'.state # "retained"
                    /\ \A w \in D!Workers : c12[w].at = "none" /\ c12'[w].at = "ready" =>
                          \E a \in D!Callers : c11[a].kind = "delete" /\ c11'[a].worker = w
  BY MemoryRetainStands DEF D!RetainedIsLeft
<1>1. c6 = D!NoTask
  BY DEF D!Inv, D!Queue
<1>2. c6' = D!NoTask \/ c7'.state # "retained"
  <2>1. D!Inv'
    BY MemoryStep
  <2>2. c7'.gen \in Nat /\ c7'.gen <= c2' /\ c2 \in Nat
    BY <2>1, MemoryTyped DEF D!Inv, D!Typed, D!Aged
  <2>3. c2' = c2 => c7'.gen = c2'
    BY <2>2, MemoryAdvances
  <2>4. c7'.state = "retained" /\ c7'.gen = c2' => c6' = D!NoTask
    BY <2>1 DEF D!Inv, D!Queue
  <2> QED
    BY <2>3, <2>4, MemoryAdvances
<1>3. ASSUME NEW w \in D!Workers, c12[w].at = "none", c12'[w].at = "ready"
      PROVE  \E a \in D!Callers : c11[a].kind = "delete" /\ c11'[a].worker = w
  <2>1. c12'[w] # c12[w] /\ ~D!Live(w)
    BY <1>3 DEF D!Live
  <2>2. PICK a \in D!Callers : ~D!Outdated(a) /\ c11[a].pc = "claim" /\ c11'[a].worker = w
    BY <2>1, MemoryWorkers
  <2>3. c11[a].due = D!NoTask
    BY <1>1, <2>2 DEF D!Outdated
  <2>4. c11[a].kind = "delete"
    BY <2>2, <2>3 DEF D!Inv, D!Queue
  <2> QED
    BY <2>2, <2>4
<1> QED
  BY <1>1, <1>2, <1>3

\* A step of a deletion that leaves it under way leaves it its account.
LEMMA MemoryKeepsAccount ==
    ASSUME D!Inv, D!Next, NEW w \in D!Workers, D!Live(w)', D!Live(w)
    PROVE  c12'[w].gen = c12[w].gen
<1>1. c12[w] \in MemoryWork /\ c12 \in [D!Workers -> MemoryWork]
  BY MemoryTyped
<1>2. CASE c12'[w] = c12[w]
  BY <1>2
<1>3. CASE c12'[w] # c12[w]
  <2>1. \/ D!Start(w) \/ D!Resolve(w) \/ D!Check(w) \/ D!Send(w) \/ D!ReadBack(w)
        \/ D!Fail(w) \/ D!Finish(w)
    BY <1>3, MemoryWorkers DEF D!Live
  <2>2. ASSUME NEW gone \in BOOLEAN, D!End(w, gone)  PROVE FALSE
    BY <2>2, MemoryEnds, <1>1 DEF D!Live
  <2>3. ASSUME NEW at, D!Move(w, at)  PROVE c12'[w].gen = c12[w].gen
    BY <1>1, <2>3 DEF D!Move, MemoryWork
  <2>4. CASE D!Start(w)
    <3>1. ~D!End(w, FALSE)
      BY <2>2
    <3>2. PICK at \in {"checking", "resolving"} :
            c12' = [c12 EXCEPT ![w].attempts = c6.attempts + 1, ![w].at = at]
      BY <2>4, <3>1 DEF D!Start
    <3> QED
      BY <1>1, <3>2 DEF MemoryWork
  <2>5. CASE D!Resolve(w)
    BY <1>1, <2>5 DEF D!Resolve, MemoryWork
  <2>6. CASE D!Check(w) \/ D!Send(w) \/ D!ReadBack(w)
    BY <2>2, <2>3, <2>6 DEF D!Check, D!Send, D!ReadBack
  <2>7. CASE D!Fail(w) \/ D!Finish(w)
    BY <2>2, <2>7 DEF D!Fail, D!Finish
  <2> QED
    BY <2>1, <2>4, <2>5, <2>6, <2>7
<1> QED
  BY <1>2, <1>3

\* Of a chat that was deleted the note of this is not lost, and no deletion begins.
LEMMA MemorySettles ==
    ASSUME D!Inv, D!Settled, D!Next, c8, c8', c2' = c2
    PROVE  D!Settled'
<1>1. /\ c7 \in MemoryNote /\ c2 \in Nat /\ c7.gen = c2 /\ c7.state \notin {"none", "pending"}
      /\ \A w \in D!Workers : c12[w].gen \in Nat /\ c12[w].gen <= c2
      /\ \A w \in D!Workers : D!Live(w) => c12[w].gen # c2
      /\ \A a \in D!Callers : c11[a].gen \in Nat /\ c11[a].gen <= c2
  BY MemoryTyped DEF D!Settled, D!Inv, D!Aged, MemoryWork, MemoryCallers, MemoryCall
<1>2. \A w \in D!Workers : D!Live(w)' => c12'[w].gen # c2
  <2> SUFFICES ASSUME NEW w \in D!Workers, D!Live(w)'
               PROVE  c12'[w].gen # c2
    OBVIOUS
  <2>1. D!Live(w)
    <3>1. CASE c12'[w] = c12[w]
      BY <3>1 DEF D!Live
    <3>2. CASE \E a \in D!Callers : D!Claim(a)
      BY <3>2 DEF D!Claim, D!Open, D!Live
    <3> QED
      BY <3>1, <3>2, MemoryWorkers
  <2> QED
    BY <1>1, <2>1, MemoryKeepsAccount
<1> DEFINE Noted == c7'.gen = c2 /\ c7'.state \notin {"none", "pending"}
<1>3. ASSUME NEW s, s \notin {"none", "pending"}, NEW g \in Nat, g <= c2, NEW n, D!Observe(s, g, n)
      PROVE  Noted
  BY <1>1, <1>3 DEF D!Observe
<1>4. c7' = c7 => Noted
  BY <1>1
<1>5. Noted
  <2> HIDE DEF Noted
  <2>1. CASE D!Retain \/ D!Schedule
    <3>1. PICK g \in 0..c2 : D!Refused(g)
      BY <2>1 DEF D!Retain, D!Schedule, D!Open
    <3>2. \E s \in {"cancelled", "already"} : D!Observe(s, g, 0)
      BY <3>1 DEF D!Refused
    <3> QED
      BY <1>1, <1>3, <3>2
  <2>2. CASE D!RecordFailure \/ \E w \in D!Workers : D!Fail(w)
    <3>1. ASSUME NEW g \in Nat, NEW n, g <= c2, D!Failed(g, n)  PROVE Noted
      BY <1>3, <3>1 DEF D!Failed
    <3>2. CASE D!RecordFailure
      <4>1. D!Failed(c2, c6.attempts + 1)
        BY <3>2 DEF D!RecordFailure
      <4> QED
        BY <1>1, <3>1, <4>1
    <3>3. ASSUME NEW w \in D!Workers, D!Fail(w)  PROVE Noted
      <4>1. D!Failed(c12[w].gen, c12[w].attempts)
        BY <3>3 DEF D!Fail
      <4> QED
        BY <1>1, <3>1, <4>1
    <3> QED
      BY <2>2, <3>2, <3>3
  <2>3. CASE D!Ask \/ D!Sweep \/ D!Bind \/ D!Tick
    BY <1>4, <2>3 DEF D!Ask, D!Sweep, D!Bind, D!Tick
  <2>4. CASE D!Switch
    BY <1>1, <2>4 DEF D!Switch
  <2>5. CASE \E a \in D!Callers : D!Wake(a) \/ D!StopTimer(a) \/ D!Return(a)
    BY <1>4, <2>5 DEF D!Wake, D!StopTimer, D!Return
  <2>6. ASSUME NEW a \in D!Callers, D!Claim(a) \/ D!GiveUp(a)  PROVE Noted
    BY <1>1, <1>3, <1>4, <2>6 DEF D!Claim, D!GiveUp, D!Open
  <2>7. ASSUME NEW w \in D!Workers, D!Start(w) \/ D!Check(w) \/ D!Finish(w)  PROVE Noted
    <3>1. D!Live(w) /\ c12[w].gen # c2 /\ c12[w].gen \in Nat /\ c12[w].gen <= c2
      BY <1>1, <2>7 DEF D!Live, D!Start, D!Check, D!Finish
    <3> QED
      BY <1>3, <1>4, <2>7, <3>1 DEF D!Start, D!Check, D!Finish
  <2>8. CASE \E w \in D!Workers : D!Resolve(w) \/ D!Send(w) \/ D!ReadBack(w) \/ D!Release(w)
    BY <1>4, <2>8 DEF D!Resolve, D!Send, D!ReadBack, D!Release
  <2> QED
    BY <2>1, <2>2, <2>3, <2>4, <2>5, <2>6, <2>7, <2>8 DEF D!Next
<1> QED
  BY <1>2, <1>5 DEF D!Settled

\* The deletion that succeeds is the only one of its account.
LEMMA MemoryCompletes ==
    ASSUME D!Inv, NEW w \in D!Workers, D!Finish(w), ~c8, c8'  PROVE D!Settled'
<1>1. /\ c7 \in MemoryNote /\ c2 \in Nat /\ c7.gen <= c2 /\ c12 \in [D!Workers -> MemoryWork]
  BY MemoryTyped
<1>2. /\ c12[w].gen = c2 /\ c2' = c2 /\ D!Observe("completed", c2, c12[w].attempts)
      /\ D!End(w, TRUE) /\ D!Live(w)
  BY DEF D!Finish, D!Live
<1>3. c7'.gen = c2 /\ c7'.state = "completed"
  BY <1>1, <1>2 DEF D!Observe, MemoryNote
<1>4. ASSUME NEW v \in D!Workers, D!Live(v)'  PROVE c12'[v].gen # c2
  <2>1. v # w /\ c12'[v] = c12[v]
    BY <1>1, <1>2, <1>4 DEF D!End, D!Unborn, D!Live
  <2>2. c9 = w
    BY <1>2 DEF D!Inv, D!Registry
  <2> QED
    BY <1>4, <2>1, <2>2 DEF D!Inv, D!Registry, D!Live
<1> QED
  BY <1>2, <1>3, <1>4 DEF D!Settled

LEMMA MemorySettled ==
    ASSUME D!Inv, D!Settled, D!Next  PROVE D!Settled'
<1>1. CASE D!Switch
  BY <1>1 DEF D!Switch, D!Settled
<1>2. CASE ~D!Switch
  <2>1. c2' = c2
    BY <1>2 DEF D!Next, D!Retain, D!Schedule, D!RecordFailure, D!Ask, D!Sweep, D!Bind, D!Tick,
      D!Wake, D!StopTimer, D!Claim, D!Return, D!GiveUp, D!Start, D!Resolve, D!Check, D!Send,
      D!ReadBack, D!Fail, D!Finish, D!Release
  <2>2. CASE \E w \in D!Workers : D!Finish(w)
    BY <2>1, <2>2, MemorySettles, MemoryCompletes DEF D!Settled
  <2>3. CASE ~\E w \in D!Workers : D!Finish(w)
    <3>1. c8' = c8
      BY <1>2, <2>3 DEF D!Next, D!Retain, D!Schedule, D!RecordFailure, D!Ask, D!Sweep, D!Bind,
        D!Tick, D!Wake, D!StopTimer, D!Claim, D!Return, D!GiveUp, D!Start, D!Resolve, D!Check,
        D!Send, D!ReadBack, D!Fail, D!Release
    <3> QED
      BY <2>1, <3>1, MemorySettles DEF D!Settled
  <2> QED
    BY <2>2, <2>3
<1> QED
  BY <1>1, <1>2

LEMMA MemoryQueuedForCause ==
    ASSUME D!Inv, D!Undone, D!Settled, D!Next  PROVE D!QueuedForCause
<1> SUFFICES ASSUME c6 = D!NoTask, c6' # D!NoTask, c4' = c4
             PROVE  /\ ~c8
                    /\ \/ \E w \in D!Workers :
                            D!Live(w) /\ c12[w].gen = c2 /\ c12'[w].at = "done"
                       \/ \E a \in D!Callers : /\ c11[a].pc = "wait" /\ c11'[a].pc = "idle"
                                               /\ c7.state # "retained"
  BY DEF D!QueuedForCause
<1>1. c4 \in Nat /\ c11 \in [D!Callers -> MemoryCall] /\ c12 \in [D!Workers -> MemoryWork]
  BY MemoryTyped DEF D!Undone, MemoryCallers
<1>2. CASE D!Retain \/ D!Schedule \/ D!RecordFailure
  BY <1>1, <1>2 DEF D!Retain, D!Schedule, D!RecordFailure, D!Decide
<1>3. CASE D!Ask \/ D!Sweep \/ D!Switch \/ D!Bind \/ D!Tick
  BY <1>3 DEF D!Ask, D!Sweep, D!Switch, D!Bind, D!Tick
<1>4. CASE \E a \in D!Callers : D!Wake(a) \/ D!StopTimer(a) \/ D!Return(a) \/ D!Claim(a)
  BY <1>4 DEF D!Wake, D!StopTimer, D!Return, D!Claim
<1>5. CASE \E a \in D!Callers : D!GiveUp(a)
  <2>1. PICK a \in D!Callers : D!GiveUp(a)
    BY <1>5
  <2>2. c11[a].pc = "wait" /\ c7.state \in {"none", "pending"} /\ D!Leave(a)
    BY <2>1 DEF D!GiveUp
  <2>3. c11'[a].pc = "idle"
    BY <1>1, <2>2 DEF D!Leave, D!Idle
  <2> QED
    BY <2>2, <2>3 DEF D!Settled
<1>6. CASE \E w \in D!Workers : D!Fail(w)
  <2>1. PICK w \in D!Workers : D!Fail(w)
    BY <1>6
  <2>2. D!Live(w) /\ c12[w].gen = c2 /\ D!End(w, FALSE)
    BY <2>1 DEF D!Fail, D!Failed, D!Awaiting, D!Live
  <2>3. c12'[w].at = "done"
    BY <1>1, <2>2 DEF D!End, D!Unborn
  <2> QED
    BY <2>2, <2>3 DEF D!Settled
<1>7. CASE \E w \in D!Workers : D!Start(w) \/ D!Resolve(w) \/ D!Check(w) \/ D!Send(w)
                                \/ D!ReadBack(w) \/ D!Finish(w) \/ D!Release(w)
  BY <1>7 DEF D!Start, D!Resolve, D!Check, D!Send, D!ReadBack, D!Finish, D!Release
<1> QED
  BY <1>2, <1>3, <1>4, <1>5, <1>6, <1>7 DEF D!Next

LEMMA MemoryOldIsSilent ==
    ASSUME D!Inv, D!Next  PROVE D!OldIsSilent
<1> SUFFICES ASSUME NEW w \in D!Workers, c12[w].at # "none", c12'[w] # c12[w], c12[w].gen < c2
             PROVE  /\ UNCHANGED <<c6, c8, c10, c9>>
                    /\ c7.gen = c2 => UNCHANGED c7
  BY DEF D!OldIsSilent
<1>1. /\ D!Live(w)
      /\ \/ D!Start(w) \/ D!Resolve(w) \/ D!Check(w) \/ D!Send(w) \/ D!ReadBack(w)
         \/ D!Fail(w) \/ D!Finish(w)
  BY MemoryWorkers
<1>2. c12[w].gen \in Nat /\ c2 \in Nat /\ c12[w].gen # c2
  BY <1>1, MemoryTyped, MemoryLive
<1>3. ASSUME NEW s, NEW n, D!Observe(s, c12[w].gen, n)
      PROVE  c7.gen = c2 => c7' = c7
  BY <1>3 DEF D!Observe
<1>4. CASE D!Fail(w)
  BY <1>2, <1>3, <1>4 DEF D!Fail, D!Failed
<1>5. CASE D!Start(w) \/ D!Check(w) \/ D!Finish(w)
  BY <1>2, <1>3, <1>5 DEF D!Start, D!Check, D!Finish
<1>6. CASE D!Resolve(w) \/ D!Send(w) \/ D!ReadBack(w)
  BY <1>6 DEF D!Resolve, D!Send, D!ReadBack
<1> QED
  BY <1>1, <1>4, <1>5, <1>6

(* In every behaviour of a sweep after tests, and of the memory of one     *)
(* process with any number of requests, sweeps, timers, deletions and       *)
(* switches of the account: what is deleted was meant to be.  A sweep sends *)
(* a deletion, in no dry run, only of what had a marker in its text during  *)
(* the call or in the title of the SDK's older list, and its report is true *)
(* (cleanup.py:145); a chat without a row is deleted once at a time, with a *)
(* client of the account it was decided for, and is said to be deleted only *)
(* when it is gone; its retain is undone only by a decision, a switch or a  *)
(* deletion that was on its way or that named it, and it is queued without  *)
(* a decision only after a deletion failed or was given up; what a switch   *)
(* left behind touches nothing of the account that came                     *)
(* (remote_chat_cleanup_manager.py:310, 630, 692, 868).                     *)
THEOREM DeletionsMeant == Spec => DeletionsAreMeant
<1>1. Init => SweepPart /\ MemoryPart
  <2>1. D!Init => D!Undone /\ D!Settled
    BY DEF D!Init, D!Undone, D!Settled
  <2> QED
    BY <2>1, SweepInit, MemoryInit DEF Init, SweepPart, MemoryPart
<1>2. SweepPart /\ [Next]_vars => SweepPart'
  <2> SUFFICES ASSUME SweepPart, [Next]_vars, part' = "sweep"
               PROVE  M!Inv'
    BY DEF SweepPart
  <2>1. part = "sweep" /\ [M!Next]_(M!mvars)
    BY DEF Next, vars, cells, M!mvars
  <2> QED
    BY <2>1, SweepStep DEF SweepPart
<1>3. MemoryPart /\ [Next]_vars => MemoryPart'
  <2> SUFFICES ASSUME MemoryPart, [Next]_vars, part' = "memory"
               PROVE  D!Inv' /\ D!Undone' /\ D!Settled'
    BY DEF MemoryPart
  <2>1. part = "memory" /\ [D!Next]_(D!state)
    BY DEF Next, vars, cells, D!state
  <2>2. D!Undone'
    BY <2>1, MemoryUndone DEF MemoryPart, D!state, D!Undone
  <2>3. D!Settled'
    BY <2>1, MemorySettled DEF MemoryPart, D!state, D!Settled, D!Live
  <2> QED
    BY <2>1, <2>2, <2>3, MemoryStep DEF MemoryPart
<1>4. SweepPart => (part = "sweep" => M!OnlyMarked /\ M!ReportIsTrue)
  BY DEF SweepPart, M!Inv
<1>5. MemoryPart => (part = "memory" => D!OneDeletion /\ D!GoneIsGone /\ D!OwnAccount)
  BY DEF MemoryPart, D!Inv
<1>6. MemoryPart /\ [Next]_vars =>
        [part = "memory" => D!RetainedIsLeft /\ D!QueuedForCause /\ D!OldIsSilent]_vars
  BY MemoryRetainedIsLeft, MemoryQueuedForCause, MemoryOldIsSilent DEF Next, MemoryPart
<1> QED
  BY <1>1, <1>2, <1>3, <1>4, <1>5, <1>6, PTL DEF Spec, DeletionsAreMeant

=============================================================================
