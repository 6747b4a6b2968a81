------------------------------ MODULE Creation ------------------------------
(***************************************************************************)
(* One media request (services/creation.py over media_generation.py and    *)
(* artifacts.py): generate submits the prompt once, downloads and verifies *)
(* what the reply lists, records it and only then may delete the source    *)
(* chat; recover repeats all but the submission from the recorded chat.    *)
(* The provider prepares its outputs one by one, the deadline, a           *)
(* cancellation or a crash ends a call anywhere, downloads fail, and the   *)
(* user may remove a saved file.                                           *)
(***************************************************************************)
EXTENDS Naturals, FiniteSets

CONSTANT MaxRecoveries   \* bound: recoveries of the operation

VARIABLES
    media, retain,    \* the request: media type and retention policy
    planned, ready,   \* the provider: outputs it will make, outputs it has made
    gone,             \* the source chat was deleted, "generate" or "recover"
    file, vanished,   \* bytes saved per output; files the user removed
    row,              \* the durable operation: source known, state, locators
    call,             \* the call that runs: its kind and how many came before
    step,             \* where it is
    resp,             \* the reply: chat known, outputs listed, queued flag
    obs,              \* the artifacts it observed, per output
    todo, failures,   \* outputs still to download; a download failed
    error,            \* an exception ended the attempt
    seen              \* outputs any reply or card has listed

cvars == <<media, retain, planned, ready, gone, file, vanished, row, call, step, resp,
           obs, todo, failures, error, seen>>
world == <<media, retain, planned, ready, vanished>>

Media == {"image", "video", "music"}
Outputs == {"first", "second"}
(* Of music the first is the audio, the second its visualization; a video  *)
(* is one output, images may be several.                                   *)
Relevant == IF media = "video" THEN {"first"} ELSE Outputs
Required == IF media = "image" THEN Outputs ELSE {"first"}
Tracked == media # "image"   \* only video and music have a durable operation

(* An artifact: available remotely, in a verified or unverified file, or   *)
(* not at all.                                                             *)
Absent == [state |-> "absent", verified |-> FALSE, path |-> FALSE]
Remote == [state |-> "remote", verified |-> FALSE, path |-> FALSE]
(* artifact_from_local_path: what a probe of the bytes says; "opaque" are  *)
(* bytes that no installed decoder can read.                               *)
Probe(bytes) ==
    [state |-> IF bytes \in {"none", "bad"} THEN "failed" ELSE "local",
     verified |-> bytes = "good", path |-> TRUE]

Rank(a) == CASE a.state = "local" -> 3 [] a.state = "remote" -> 2
             [] a.state = "failed" -> 1 [] a.state = "absent" -> 0
(* merge_artifacts: availability wins, of two equals the later; a local    *)
(* path survives only from a usable file.                                  *)
MergeArtifact(a, b) ==
    LET prefer == IF Rank(b) >= Rank(a) THEN b ELSE a
        other == IF Rank(b) >= Rank(a) THEN a ELSE b
    IN [prefer EXCEPT !.path = @ \/ (other.path /\ other.state = "local")]
Merged(as, bs) == [o \in Outputs |-> IF bs[o] = Absent THEN as[o] ELSE MergeArtifact(as[o], bs[o])]

(* _merge_locators *)
MergeLocator(old, new) ==
    IF new = Absent \/ (old.path /\ old.verified /\ ~new.path) THEN old ELSE new
Locators(old, new) == [o \in Outputs |-> MergeLocator(old[o], new[o])]

Nothing == [o \in Outputs |-> Absent]
Listed(outputs) == [o \in Outputs |-> IF o \in outputs THEN Remote ELSE Absent]
NoReply == [chat |-> FALSE, listed |-> {}, queued |-> FALSE]
Pending == [chat |-> TRUE, listed |-> {}, queued |-> TRUE]

Init ==
    /\ media \in Media /\ retain \in BOOLEAN
    /\ planned \in SUBSET Relevant /\ ready = {}
    /\ gone = "no"
    /\ file = [o \in Outputs |-> "none"] /\ vanished = {}
    /\ row = [source |-> FALSE, state |-> "running", loc |-> Nothing]
    /\ call = [kind |-> "generate", before |-> 0]
    /\ step = "start"
    /\ resp = NoReply /\ obs = Nothing /\ todo = {}
    /\ failures = FALSE /\ error = FALSE /\ seen = {}

-----------------------------------------------------------------------------
(* What the calls compute *)

Decisive == Required

(* classify_media_artifact_state *)
State ==
    LET of == {obs[o].state : o \in Decisive} IN
    CASE "local" \in of -> "local"
      [] "local" \notin of /\ "remote" \in of -> "remote"
      [] of \cap {"local", "remote"} = {} /\ resp.queued -> "queued"
      [] of \cap {"local", "remote"} = {} /\ ~resp.queued /\ "failed" \in of -> "failed"
      [] OTHER -> "empty"

Observed == {o \in Outputs : obs[o] # Absent}
Saved(o) == obs[o].state = "local" /\ obs[o].path /\ obs[o].verified

(* media_requires_recovery *)
(* mutant: only the required kind is looked at *)
RequiresRecoveryAny == error \/ resp.queued \/ State \notin {"empty", "local"}
RequiresRecovery ==
    \/ failures \/ error \/ resp.queued
    \/ State = "empty" /\ Observed # {}
    \/ State \notin {"empty", "local"}
    \/ State = "local" /\ \E o \in Observed : ~Saved(o)

(* media_artifact_result, or media_exception_result, as an operation state *)
Outcome ==
    IF error THEN "failed"   \* or timed_out: neither is final
    ELSE IF State \in {"empty", "failed"} THEN "failed"
    ELSE IF resp.queued THEN "queued"
    ELSE IF failures \/ \E o \in Observed : ~Saved(o) THEN "partial" ELSE "completed"

(* observe_artifacts_sync and _save_result: "completed" is kept only if    *)
(* all locators are local and verified.                                    *)
Recorded(state) ==
    LET locs == Locators(row.loc, obs)
        whole == {o \in Outputs : locs[o] # Absent}
        sound == whole # {} /\ \A o \in whole : locs[o].state = "local" /\ locs[o].verified
    IN [row EXCEPT !.loc = locs,
                   !.state = IF state = "completed" /\ ~sound
                             THEN IF whole # {} THEN "partial" ELSE "running" ELSE state]

-----------------------------------------------------------------------------
(* generate *)

(* Authentication, initialization or the due cleanup failed. *)
NotStarted ==
    /\ step = "start" /\ step' = "finish" /\ error' = TRUE
    /\ UNCHANGED <<world, gone, file, row, call, resp, obs, todo, failures, seen>>

(* The reply to the prompt.  Of music it may list nothing although cards   *)
(* can be read; the flag may be missing from an interim reply.             *)
Replies == [chat: {TRUE}, listed: {ready} \cup (IF media = "music" THEN {{}} ELSE {}),
            queued: IF ready = planned THEN {FALSE} ELSE BOOLEAN]

Reply ==
    /\ step = "start"
    /\ \E r \in Replies :
          /\ resp' = r /\ seen' = seen \cup r.listed
          /\ \/ /\ row' = [row EXCEPT !.source = Tracked]
                /\ step' = "materialize" /\ UNCHANGED error
             \/ /\ Tracked /\ error' = TRUE   \* the source could not be recorded
                /\ step' = "record" /\ UNCHANGED row
    /\ UNCHANGED <<world, gone, file, call, obs, todo, failures>>

(* The request fails or times out; its metadata may have named the chat,   *)
(* of which a reply without outputs is made up.                            *)
RequestFails ==
    /\ step = "start"
    /\ error' = TRUE
    /\ \/ /\ resp' = [NoReply EXCEPT !.chat = TRUE]
          /\ row' = [row EXCEPT !.source = Tracked] /\ step' = "record"
       \/ step' = "finish" /\ UNCHANGED <<resp, row>>
    /\ UNCHANGED <<world, gone, file, call, obs, todo, failures, seen>>

-----------------------------------------------------------------------------
(* materialize_generated_media, in both calls *)

NeedsCards == media = "music" /\ resp.listed = {} /\ obs["first"].state # "remote"

Materialize ==
    /\ step = "materialize"
    /\ \E cards \in IF NeedsCards /\ gone = "no" THEN {ready, {}} ELSE {{}} :
          LET listed == resp.listed \cup cards IN
          /\ resp' = [resp EXCEPT !.listed = listed] /\ todo' = listed
          /\ seen' = seen \cup listed
          /\ obs' = Merged(obs, Listed(listed))
    /\ step' = "save"
    /\ UNCHANGED <<world, gone, file, row, call, failures, error>>

Reusable(o) == call.kind = "recover" /\ obs[o].state = "local" /\ obs[o].path /\ file[o] # "none"

(* One output: a file that recovery has found in place is used again, or   *)
(* the download is saved under a reserved name and probed.                 *)
SaveItem(o) ==
    /\ step = "save" /\ o \in todo
    /\ todo' = todo \ {o}
    /\ \/ Reusable(o) /\ UNCHANGED <<file, obs, failures>>
       \/ ~Reusable(o) /\ failures' = TRUE /\ UNCHANGED <<file, obs>>
       \/ /\ ~Reusable(o)
          /\ \E bytes \in {"good", "opaque", "bad"} :
                /\ file' = [file EXCEPT ![o] = bytes]
                /\ obs' = [obs EXCEPT ![o] = MergeArtifact(@, Probe(bytes))]
                /\ failures' = (failures \/ bytes = "bad")
    /\ UNCHANGED <<world, gone, row, call, step, resp, error, seen>>

(* A reply that adds nothing proves nothing: it counts as queued. *)
Interim ==
    IF /\ call.kind = "recover" /\ ~failures
       /\ resp.listed = {} \/ \A o \in Required : obs[o] = Absent
    THEN Pending ELSE resp

AllSaved ==
    /\ step = "save" /\ todo = {}
    /\ resp' = Interim
    /\ step' = "record"
    /\ UNCHANGED <<world, gone, file, row, call, obs, todo, failures, error, seen>>

(* The deadline, or an exception on the way: what was observed stays.  A   *)
(* recovery neither records nor deletes then, and its observations are     *)
(* left unmerged: the remote one is the last of an unverified file's.      *)
Unmerged ==
    [o \in Outputs |->
        IF /\ o \in IF step = "materialize" THEN resp.listed ELSE todo
           /\ ~obs[o].verified
        THEN Remote ELSE obs[o]]

Interrupt ==
    /\ step \in {"materialize", "save"} \/ (step = "record" /\ call.kind = "recover")
    /\ error' = TRUE
    /\ IF call.kind = "generate" THEN step' = "record" /\ UNCHANGED obs
                                 ELSE step' = "finish" /\ obs' = Unmerged
    /\ UNCHANGED <<world, gone, file, row, call, resp, todo, failures, seen>>

-----------------------------------------------------------------------------
(* Recording, disposal and the result *)

Record ==
    /\ step = "record"
    /\ IF Tracked THEN row' = Recorded(Outcome) ELSE UNCHANGED row
    /\ step' = "dispose"
    /\ UNCHANGED <<world, gone, file, call, resp, obs, todo, failures, error, seen>>

RecordFailure == error' = TRUE

(* The artifacts could not be recorded: generate keeps the chat. *)
RecordFails ==
    /\ step = "record" /\ Tracked /\ call.kind = "generate"
    /\ RecordFailure
    /\ step' = "dispose"
    /\ UNCHANGED <<world, gone, file, row, call, resp, obs, todo, failures, seen>>

(* finalize_generated_chat: retained, deleted, or the deletion fails. *)
Dispose ==
    /\ step = "dispose"
    /\ \/ resp.chat /\ ~retain /\ ~RequiresRecovery /\ gone' = call.kind
       \/ UNCHANGED gone
    /\ step' = "finish"
    /\ UNCHANGED <<world, file, row, call, resp, obs, todo, failures, error, seen>>

(* OperationService._save_result *)
Finish ==
    /\ step = "finish"
    /\ row' = IF Tracked /\ row.state # "completed" THEN Recorded(Outcome) ELSE row
    /\ step' = "ended"
    /\ UNCHANGED <<world, gone, file, call, resp, obs, todo, failures, error, seen>>

(* The task is cancelled, or its process ends. *)
Abandon ==
    /\ step \notin {"start", "ended"} /\ step' = "ended"
    /\ UNCHANGED <<world, gone, file, row, call, resp, obs, todo, failures, error, seen>>

-----------------------------------------------------------------------------
(* recover: recorded locators are probed again, the chat is read *)

Stored == [o \in Outputs |-> IF row.loc[o].path THEN Probe(file[o]) ELSE row.loc[o]]

Recover ==
    /\ step = "ended" /\ Tracked /\ row.source /\ row.state # "completed"
    /\ call.before < MaxRecoveries
    /\ call' = [kind |-> "recover", before |-> call.before + 1]
    /\ obs' = Stored /\ resp' = NoReply /\ todo' = {} /\ failures' = FALSE /\ error' = FALSE
    /\ step' = "read"
    /\ UNCHANGED <<world, gone, file, row, seen>>

(* No readable model turn is never evidence of an empty output. *)
ReadBack ==
    /\ step = "read"
    /\ \/ \E r \in IF gone # "no" THEN {Pending} ELSE Replies \cup {Pending} :
             /\ resp' = r /\ seen' = seen \cup r.listed
             /\ obs' = Merged(obs, Listed(r.listed))
             /\ step' = "materialize" /\ UNCHANGED error
       \/ error' = TRUE /\ step' = "finish" /\ UNCHANGED <<resp, obs, seen>>
    /\ UNCHANGED <<world, gone, file, row, call, todo, failures>>

-----------------------------------------------------------------------------
(* The provider and the user *)

ProviderWorks ==
    /\ \E o \in planned \ ready : ready' = ready \cup {o}
    /\ UNCHANGED <<media, retain, planned, vanished, gone, file, row, call, step, resp,
                   obs, todo, failures, error, seen>>

(* The user removes a saved file between two calls. *)
Vanish ==
    /\ step = "ended" /\ vanished = {}
    /\ \E o \in Outputs :
          /\ file[o] # "none"
          /\ vanished' = {o} /\ file' = [file EXCEPT ![o] = "none"]
    /\ UNCHANGED <<media, retain, planned, ready, gone, row, call, step, resp, obs,
                   todo, failures, error, seen>>

Next ==
    \/ NotStarted \/ Reply \/ RequestFails
    \/ Materialize \/ (\E o \in Outputs : SaveItem(o)) \/ AllSaved \/ Interrupt
    \/ Record \/ RecordFails \/ Dispose \/ Finish \/ Abandon
    \/ Recover \/ ReadBack \/ ProviderWorks \/ Vanish

Spec == Init /\ [][Next]_cvars

-----------------------------------------------------------------------------
Kept(o) == file[o] = "good" \/ o \in vanished

(* A source chat is deleted only when every output that any reply listed   *)
(* is in a verified file, and, of a durable operation, recorded as such.   *)
OutputBeforeDisposal ==
    gone # "no" => \A o \in seen : Kept(o) /\ (Tracked => row.loc[o].verified)

(* A recovery deletes the source only for an output it holds: a reply      *)
(* without one proves nothing (creation.py:271-283).                       *)
RecoveryHoldsOutput == gone = "recover" => \E o \in Required : row.loc[o].verified

(* A completed operation has its required output, and every output that    *)
(* was listed, in a verified file.                                         *)
CompletedIsWhole ==
    row.state = "completed" =>
        /\ \E o \in Required : row.loc[o].verified
        /\ \A o \in seen : row.loc[o].verified /\ Kept(o)

(* A recorded, verified file that is still there is never lost to a later  *)
(* observation of the same output.                                         *)
KeepsGoodFiles ==
    \A o \in Outputs : row.loc[o].verified /\ file[o] = "good"
        => o \in vanished' \/ (row'.loc[o].verified /\ file'[o] = "good")

-----------------------------------------------------------------------------
(* The inductive invariant of the safety properties.                       *)

Bytes == {"none", "good", "opaque", "bad"}
Artifacts == {Absent, Remote} \cup {Probe(b) : b \in Bytes}
Typed ==
    /\ media \in Media /\ retain \in BOOLEAN
    /\ planned \subseteq Outputs /\ ready \subseteq Outputs /\ vanished \subseteq Outputs
    /\ gone \in {"no", "generate", "recover"}
    /\ file \in [Outputs -> Bytes]
    /\ row \in [source: BOOLEAN, loc: [Outputs -> Artifacts],
                state: {"running", "failed", "queued", "partial", "completed"}]
    /\ call \in [kind: {"generate", "recover"}, before: Nat]
    /\ step \in {"start", "read", "materialize", "save", "record", "dispose", "finish", "ended"}
    /\ resp \in [chat: BOOLEAN, listed: SUBSET Outputs, queued: BOOLEAN]
    /\ obs \in [Outputs -> Artifacts]
    /\ todo \subseteq Outputs /\ seen \subseteq Outputs
    /\ failures \in BOOLEAN /\ error \in BOOLEAN

(* An attempt without an error has all that was ever seen before it, but   *)
(* for a recovery whose chat showed nothing: that one counts as queued.    *)
SeenByPlace ==
    /\ seen \subseteq ready /\ resp.listed \subseteq seen
    /\ step = "start" => seen = {} /\ resp = NoReply /\ obs = Nothing /\ ~error /\ ~failures
                         /\ gone = "no" /\ call.kind = "generate"
    /\ step \in {"read", "materialize"} => ~failures
    /\ step = "read" => call.kind = "recover"
    /\ step = "save" => todo \subseteq resp.listed /\ (resp.listed = {} => ~failures)
    /\ step \in {"materialize", "save", "record", "dispose", "finish"} /\ ~error =>
         \/ seen \subseteq resp.listed
         \/ /\ call.kind = "recover" /\ resp.listed = {}
            /\ step \in {"materialize", "save"} \/ resp.queued
    /\ step \in {"save", "record", "dispose", "finish"} /\ ~error =>
         \A o \in resp.listed : obs[o] # Absent

(* While a call runs, its observations are as good as the row's and the    *)
(* files'; the first call has recorded nothing yet.                        *)
ObservedByPlace ==
    /\ step # "ended" =>
         \A o \in Outputs :
            /\ obs[o].verified => file[o] = "good"
            /\ row.loc[o] # Absent => obs[o] # Absent
            /\ row.loc[o].verified /\ file[o] = "good" => obs[o].verified
    /\ call.kind = "generate" /\ step = "save" => \A o \in todo : ~obs[o].verified
    /\ call.kind = "generate" /\ step \in {"start", "materialize", "save", "record"} =>
         row.loc = Nothing
    /\ call.kind = "generate" /\ step = "materialize" => obs = Nothing
    /\ call.kind = "recover" => Tracked
    /\ call.kind = "recover" /\ step \in {"record", "dispose"} /\ ~error
         /\ ~failures /\ ~resp.queued => \E o \in Required : obs[o] # Absent

(* What is about to be disposed of is recorded, a completed operation is   *)
(* left alone, and a chat that is gone has nothing more to list.           *)
RecordedByPlace ==
    /\ step = "dispose" /\ Tracked /\ ~error =>
         (Outcome = "completed" => row.state = "completed")
    /\ row.state = "completed" => Tracked /\ step \in {"dispose", "finish", "ended"}
    /\ gone = "recover" => row.state = "completed"
    /\ gone # "no" /\ Tracked => seen = {} \/ row.state = "completed"
    /\ gone # "no" => step \in {"finish", "ended"} \/ call.kind = "recover"
    /\ gone # "no" /\ step \in {"materialize", "save"} => resp.listed = {}

Inv == Typed /\ SeenByPlace /\ ObservedByPlace /\ RecordedByPlace
       /\ OutputBeforeDisposal /\ RecoveryHoldsOutput /\ CompletedIsWhole
=============================================================================
