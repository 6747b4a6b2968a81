--------------------------- MODULE ProviderWrites ---------------------------
(***************************************************************************)
(* One call that changes something the provider keeps for the account: a   *)
(* Gem, a notebook or its source, a native Skill, a scheduled action of    *)
(* either backend, a public link, a Canvas document, a Library asset.  All *)
(* of them read, send one request, judge its acknowledgement and read      *)
(* back; each has its own reads and its own proof.  A user's browser tab   *)
(* changes the same account meanwhile, and a request whose answer was lost *)
(* may take effect later.                                                  *)
(***************************************************************************)
EXTENDS Naturals

CONSTANTS MaxEdits      \* changes made in another tab during one call

\* "target" is what the call names (for what is added to a notebook, or shared
\* from a chat, the notebook or the chat), "new" what a creation makes, "twin"
\* what the same creation makes when it is sent a second time.
Objects == {"target", "neighbour", "new", "twin"}
Fields == {"title", "text", "note"}

Creating == {"create_gem", "create_notebook", "create_skill", "create_daily",
             "create_remy", "create_link", "add_source"}
Changing == {"update_gem", "update_notebook", "update_skill", "import_skill",
             "enable_skill", "update_remy", "edit_canvas", "move_chat"}
Deleting == {"delete_gem", "delete_notebook", "delete_notebook_and_chats", "remove_source",
             "delete_skill", "delete_daily", "delete_remy", "delete_link", "delete_asset"}
\* The kinds whose request goes out by the SDK's own method or without
\* execute_contract, so the SDK may send it again when no answer comes.
Replayed == {"create_gem", "update_gem", "delete_gem", "create_daily"}
\* What a call may ask to change.
Wants(kind) ==
    CASE kind \in Deleting -> {{"status"}}
      [] kind \in {"enable_skill", "move_chat"} -> {{"title"}}
      [] kind = "edit_canvas" -> {{"text"}}
      [] kind = "import_skill" -> {Fields}
      [] kind = "create_notebook" -> {{"title"}, {"title", "text"}}
      [] kind = "update_gem" -> SUBSET Fields \ {{}}
      [] kind \in {"update_notebook", "update_skill", "update_remy"} ->
             SUBSET {"title", "text"} \ {{}}
      [] OTHER -> {{"title", "text"}}

VARIABLES
    world,    \* Objects -> what the provider holds
    call,     \* the request of the caller
    pc,
    before,   \* the target as the call read it before sending
    id,       \* the object the next request or read names
    inner,    \* the second half of create_notebook, its update
    sent,     \* how many requests went out
    late,     \* requests without an answer that have yet to take effect
    answer,
    seen,     \* the first of two reads back
    edits,    \* changes made in another tab so far
    touched,  \* objects changed there since the last request went out
    told      \* what the caller is told

wvars == <<world, call, pc, before, id, inner, sent, late, answer, seen, edits, touched, told>>

Holding(status, content) ==
    [status |-> status, title |-> content["title"], text |-> content["text"],
     note |-> content["note"]]
Object(status, value) == Holding(status, [f \in Fields |-> value])
Kind == IF inner THEN "update_notebook" ELSE call.kind
Live(o) == o \in Objects /\ world[o].status = "live"

Untold == [verdict |-> "none", retry |-> FALSE]
Finish(verdict) == pc' = "done" /\ told' = [verdict |-> verdict, retry |-> FALSE]
\* The update inside create_notebook reports nothing worse than "accepted".
FinishOuter(verdict) == Finish(IF inner /\ verdict # "verified" THEN "unverified" ELSE verdict)

-----------------------------------------------------------------------------
(* Before the request.                                                     *)

\* An update of a gem reads only for the fields the caller left out.
ReadsFirst == Kind \notin {"create_gem", "create_notebook", "create_skill", "create_daily",
                           "create_remy", "delete_gem", "delete_daily", "delete_remy"}
              /\ ~(Kind = "update_gem" /\ call.wants = Fields)
\* A public link is asked for by the draft's ID, without a read, or else by a
\* chat whose turns are read for its draft.
MayName == Kind = "create_link"

\* What each call has to find before it sends anything.
GemReady == Live(id)
NotebookReady == Live(id)
SourceReady == Live(id)
MoveReady == Live("neighbour")                  \* the notebook, not the chat
SkillReady == Live(id) /\ call.allowed          \* may be edited
RemyReady == Live(id)
ShareReady == Live(id)                          \* the draft to share
LinkReady == Live(id)
CanvasReady == Live(id) /\ call.allowed         \* a plain document
\* A type that can be deleted; a legacy target, which names a group, only for
\* a group of one.
AssetReady == Live(id) /\ call.allowed /\ ~(call.grouped /\ Live("neighbour"))
Ready ==
    CASE Kind = "update_gem" -> GemReady
      [] Kind \in {"update_notebook", "delete_notebook", "delete_notebook_and_chats"} -> NotebookReady
      [] Kind \in {"add_source", "remove_source"} -> SourceReady
      [] Kind = "move_chat" -> MoveReady
      [] Kind \in {"update_skill", "import_skill", "enable_skill", "delete_skill"} -> SkillReady
      [] Kind = "update_remy" -> RemyReady
      [] Kind = "create_link" -> ShareReady
      [] Kind = "delete_link" -> LinkReady
      [] Kind = "edit_canvas" -> CanvasReady
      [] OTHER -> AssetReady

ReadBefore ==
    /\ pc = "read"
    /\ \/ /\ Ready
          /\ before' = world[id]
          /\ pc' = "send"
          /\ UNCHANGED told
       \/ /\ ~Ready
          /\ FinishOuter(IF Kind = "delete_link" THEN "already_absent" ELSE "not_sent")
          /\ UNCHANGED before
       \/ \* The read fails or is no evidence (a Library listing that did not end).
          /\ \/ FinishOuter("not_sent")
             \/ /\ Kind = "update_remy"
                /\ pc' = "done"
                /\ told' = [verdict |-> "not_sent", retry |-> TRUE]
          /\ UNCHANGED before
    /\ UNCHANGED <<world, call, id, inner, sent, late, answer, seen, edits, touched>>

\* A Skill's archive or a source's file is uploaded first.
UploadFails ==
    /\ pc = "send"
    /\ Kind \in {"create_skill", "update_skill", "import_skill", "add_source"}
    /\ Finish("not_sent")
    /\ UNCHANGED <<world, call, before, id, inner, sent, late, answer, seen, edits, touched>>

-----------------------------------------------------------------------------
(* The request.                                                            *)

\* A request that carries the whole message takes what it leaves alone from
\* the read before it.
Rewritten(f) == IF Kind \in {"enable_skill", "move_chat"} THEN world[id][f] ELSE before[f]
\* The first request of create_notebook has the title only.
Creates == IF call.kind = "create_notebook" THEN {"title"} ELSE call.wants
Made == IF world["new"].status = "absent" THEN "new" ELSE "twin"

\* The provider follows the request for the parts `honoured'.
Effect(honoured, state) ==
    CASE Kind \in Creating ->
             [world EXCEPT ![Made] =
                 Holding(state, [f \in Fields |->
                     IF f \in honoured \cap Creates THEN "new" ELSE "blank"])]
      [] Kind \in Changing ->
             IF Live(id)
             THEN [world EXCEPT ![id] =
                     Holding("live", [f \in Fields |->
                         IF f \notin call.wants THEN Rewritten(f)
                         ELSE IF f \in honoured THEN "new" ELSE world[id][f]])]
             ELSE world
      [] OTHER ->
             IF honoured = {} THEN world
             ELSE [o \in Objects |->
                     IF o = "target" \/ (o = "neighbour" /\ call.grouped)
                     THEN [world[o] EXCEPT !.status = IF Live(o) THEN state ELSE @]
                     ELSE world[o]]
States == CASE Kind = "add_source" -> {"live", "indexing"}
            [] Kind \in Creating \cup Changing -> {"live"}
            [] Kind = "delete_daily" -> {"absent", "deleted"}
            [] OTHER -> {"absent"}

Send ==
    /\ pc = "send"
    /\ sent' = sent + 1
    /\ touched' = {}
    /\ pc' = "answered"
    /\ \E honoured \in SUBSET call.wants, state \in States :
        \/ /\ answer' \in {"ack", "unreadable", "lost"} \cup (IF Kind \in Creating THEN {"no_id"} ELSE {})
           /\ world' = Effect(honoured, state)
           /\ id' = IF Kind \in Creating THEN Made ELSE id
           /\ UNCHANGED late
        \/ /\ answer' \in {"refused", "unreadable", "lost"}
           /\ UNCHANGED <<world, id, late>>
        \/ /\ answer' = "lost"
           /\ late' = late \cup {honoured}
           /\ UNCHANGED <<world, id>>
    /\ UNCHANGED <<call, before, inner, seen, edits, told>>

\* A request nobody answered takes effect after all.
Land ==
    \E honoured \in late, state \in States :
        /\ world' = Effect(honoured, state)
        /\ late' = late \ {honoured}
        /\ UNCHANGED <<call, pc, before, id, inner, sent, answer, seen, edits, touched, told>>

\* The SDK sends it again.
Resend ==
    /\ pc = "answered"
    /\ answer = "lost"
    /\ call.kind \in Replayed
    /\ sent < 2
    /\ pc' = "send"
    /\ UNCHANGED <<world, call, before, id, inner, sent, late, answer, seen, edits, touched, told>>

-----------------------------------------------------------------------------
(* The answer.                                                             *)

\* The SDK's gem methods do not look at the answer.
Overlooked == Kind \in {"update_gem", "delete_gem"}

Answered ==
    /\ pc = "answered"
    /\ \/ answer = "lost" /\ FinishOuter("raised") /\ UNCHANGED <<id, inner, before>>
       \/ /\ answer \in {"refused", "unreadable"}
          /\ FinishOuter("failed")
          /\ UNCHANGED <<id, inner, before>>
       \/ /\ answer = "no_id"
          /\ CASE Kind \in {"create_daily", "create_remy"} -> Finish("failed") /\ UNCHANGED id
               [] Kind = "add_source" -> pc' = "verify" /\ id' = "none" /\ UNCHANGED told
               [] OTHER -> Finish("unverified") /\ UNCHANGED id
          /\ UNCHANGED <<inner, before>>
       \/ /\ answer = "ack" \/ (Overlooked /\ answer \in {"refused", "unreadable"})
          /\ IF Kind = "create_notebook" /\ "text" \in call.wants
             THEN inner' = TRUE /\ pc' = "read"
             ELSE pc' = "verify" /\ UNCHANGED inner
          /\ UNCHANGED <<told, id, before>>
    /\ UNCHANGED <<world, call, sent, late, answer, seen, edits, touched>>

-----------------------------------------------------------------------------
(* The read back.                                                          *)

Value(f) == IF f \in call.wants THEN "new"
            ELSE IF Kind \in Creating THEN "blank" ELSE before[f]
Holds(fields) == Live(id) /\ \A f \in fields : world[id][f] = Value(f)

\* What each call takes as proof in its read back.
GemMade == Holds(Fields)
GemChanged == Holds(Fields)
GemGone == ~Live(id)
NotebookMade == Holds(Fields)
NotebookChanged == Holds(Fields)
\* That the notebook is gone says nothing of its chats.
NotebookGone == ~Live(id) /\ Kind # "delete_notebook_and_chats"
SourceAdded == Holds(Fields)                    \* and it can be used by now
SourceRemoved == ~Live(id)
ChatMoved == Holds({"title"})
SkillSaved == Holds(Fields)
SkillImported == Holds(Fields)
SkillEnabled == Holds({"title"})
SkillGone == ~Live(id)
RemyWritten == Holds(IF Kind = "update_remy" THEN Fields ELSE call.wants)
LinkMade == Holds(call.wants)
LinkGone == ~Live(id)
CanvasReplaced == Holds(Fields)
AssetGone == ~Live(id) /\ (call.grouped => ~Live("neighbour"))
Proof ==
    CASE Kind = "create_gem" -> GemMade
      [] Kind = "update_gem" -> GemChanged
      [] Kind = "delete_gem" -> GemGone
      [] Kind = "create_notebook" -> NotebookMade
      [] Kind = "update_notebook" -> NotebookChanged
      [] Kind \in {"delete_notebook", "delete_notebook_and_chats"} -> NotebookGone
      [] Kind = "add_source" -> SourceAdded
      [] Kind = "remove_source" -> SourceRemoved
      [] Kind = "move_chat" -> ChatMoved
      [] Kind \in {"create_skill", "update_skill"} -> SkillSaved
      [] Kind = "import_skill" -> SkillImported
      [] Kind = "enable_skill" -> SkillEnabled
      [] Kind = "delete_skill" -> SkillGone
      [] Kind \in {"create_remy", "update_remy"} -> RemyWritten
      [] Kind = "create_link" -> LinkMade
      [] Kind = "delete_link" -> LinkGone
      [] Kind = "edit_canvas" -> CanvasReplaced
      [] OTHER -> AssetGone

TwoReads == Kind \in {"create_daily", "delete_daily", "delete_remy"}
Verify ==
    /\ pc = "verify"
    /\ ~TwoReads
    /\ \/ FinishOuter(IF Proof THEN "verified" ELSE "unverified")
       \/ FinishOuter("unverified")
       \/ Kind = "edit_canvas" /\ Finish("raised")
    /\ UNCHANGED <<world, call, before, id, inner, sent, late, answer, seen, edits, touched>>

\* The registry of daily actions may leave out what it should list, may be
\* empty, and goes on listing what was deleted.
ReadRegistry ==
    /\ pc = "verify"
    /\ TwoReads
    /\ \/ seen' = "invalid"
       \/ seen' = "listed" /\ Live(id)
       \/ seen' = "listed" /\ Kind = "delete_daily" /\ world[id].status = "deleted"
       \/ seen' = "unlisted" /\ (Kind = "delete_remy" => ~Live(id))
       \/ seen' = "empty" /\ Kind # "delete_remy"
    /\ pc' = "by_id"
    /\ UNCHANGED <<world, call, before, id, inner, sent, late, answer, edits, touched, told>>

DailyMade(status) == seen = "listed" \/ status = "live"
DailyGoneAnyList(status) ==                     \* mutant: an empty list is believed
    status = "deleted" \/ seen \in {"unlisted", "empty"}
DailyGone(status) == status = "deleted" \/ (seen = "unlisted" /\ status = "absent")
RemyGone(status) == seen = "unlisted" /\ status # "live"
ReadByID ==
    /\ pc = "by_id"
    /\ \E status \in {world[id].status, "unavailable"} :
          Finish(IF CASE Kind = "create_daily" -> DailyMade(status)
                      [] Kind = "delete_daily" -> DailyGone(status)
                      [] OTHER -> RemyGone(status)
                 THEN "verified" ELSE "unverified")
    /\ UNCHANGED <<world, call, before, id, inner, sent, late, answer, seen, edits, touched>>

\* The user, in another tab, changes or deletes one of the objects, or makes
\* the neighbour appear.
Elsewhere ==
    /\ edits < MaxEdits
    /\ edits' = edits + 1
    /\ \E o \in Objects :
        /\ \/ Live(o) /\ \E f \in Fields : world' = [world EXCEPT ![o][f] = "other"]
           \/ Live(o) /\ world' = [world EXCEPT ![o].status = "absent"]
           \/ o = "neighbour" /\ ~Live(o) /\ world' = [world EXCEPT ![o].status = "live"]
        /\ touched' = touched \cup {o}
    /\ UNCHANGED <<call, pc, before, id, inner, sent, late, answer, seen, told>>

Init ==
    /\ \E kind \in Creating \cup Changing \cup Deleting : \E wants \in Wants(kind) :
       \E status, beside \in {"live", "absent"}, allowed, grouped \in BOOLEAN :
        /\ grouped => kind = "delete_asset"
        /\ ~allowed => kind \in {"update_skill", "import_skill", "edit_canvas", "delete_asset"}
        /\ beside = "absent" => kind \in {"move_chat", "delete_asset"}
        /\ call = [kind |-> kind, wants |-> wants, allowed |-> allowed, grouped |-> grouped,
                   beside |-> beside]
        /\ world = [o \in Objects |->
                      IF o \in {"new", "twin"} THEN Object("absent", "blank")
                      ELSE Object(IF o = "target" THEN status ELSE beside, "old")]
    /\ id = "target"
    /\ inner = FALSE
    /\ pc \in {"read", "send"}
    /\ pc = "read" => ReadsFirst
    /\ pc = "send" => ~ReadsFirst \/ MayName
    /\ before = Object("absent", "blank")
    /\ sent = 0
    /\ late = {}
    /\ answer = "none"
    /\ seen = "none"
    /\ edits = 0
    /\ touched = {}
    /\ told = Untold

Next == \/ ReadBefore \/ UploadFails \/ Send \/ Land \/ Resend \/ Answered
        \/ Verify \/ ReadRegistry \/ ReadByID \/ Elsewhere

Spec == Init /\ [][Next]_wvars

-----------------------------------------------------------------------------
\* Who is told "verified" finds it so: what was created or changed has every
\* requested value and the rest of what the call read, what was deleted is not
\* live, or somebody has changed it since the request (account_facade.py:64).
\* Of a daily action created, only its existence is checked.
VerifiedIsTrue ==
    told.verdict \in {"verified", "already_absent"} =>
        \/ id \in touched \/ (call.grouped /\ "neighbour" \in touched)
        \/ IF Kind \in Deleting THEN ~Live("target") /\ (call.grouped => ~Live("neighbour"))
           ELSE /\ Live(id)
                /\ \A f \in call.wants : Kind # "create_daily" => world[id][f] = "new"
                /\ \A f \in Fields \ call.wants :
                      Kind \in Changing \ {"enable_skill", "move_chat"} => world[id][f] = before[f]

\* "Not sent", and whatever may be tried again, never reached the provider.
RefusedIsSilent ==
    told.retry \/ told.verdict \in {"not_sent", "already_absent"} => sent = 0

\* A request is sent once, the SDK's own repetitions apart.
SentOnce ==
    call.kind \notin Replayed =>
        /\ sent <= (IF inner THEN 2 ELSE 1)
        /\ world["twin"].status = "absent"

\* The call changes nothing but its target, and of it nothing it was not asked
\* to change, unless another tab interfered (scheduled.py:549).
RestUntouched ==
    edits = 0 =>
        /\ world["neighbour"] = Object(call.beside, "old")
        /\ \A f \in Fields \ call.wants : world["target"][f] = "old"

-----------------------------------------------------------------------------
(* The inductive invariant of the safety properties.                       *)

Statuses == {"live", "absent", "indexing", "deleted"}
Values == {"old", "new", "blank", "other"}
Kept == [status: Statuses, title: Values, text: Values, note: Values]
Verdicts == {"none", "verified", "unverified", "already_absent", "not_sent", "failed", "raised"}
Typed ==
    /\ world \in [Objects -> Kept] /\ before \in Kept
    /\ call.kind \in Creating \cup Changing \cup Deleting /\ call.wants \in Wants(call.kind)
    /\ call.beside \in {"live", "absent"} /\ call.grouped \in BOOLEAN
    /\ call.grouped => call.kind = "delete_asset"
    /\ pc \in {"read", "send", "answered", "verify", "by_id", "done"}
    /\ id \in Objects \cup {"none"} /\ inner \in BOOLEAN
    /\ sent \in 0..2 /\ edits \in Nat /\ touched \subseteq Objects
    /\ late \subseteq SUBSET call.wants
    /\ told \in [verdict: Verdicts, retry: BOOLEAN]

(* How many requests are out, by where the call is. *)
SentByPlace ==
    /\ pc # "done" => told = Untold
    /\ pc = "read" => sent = IF inner THEN 1 ELSE 0
    /\ pc = "send" => \/ sent = IF inner THEN 1 ELSE 0
                      \/ sent = 1 /\ call.kind \in Replayed
    /\ pc \in {"answered", "verify", "by_id"} => sent > 0
    /\ sent = 2 => inner \/ call.kind \in Replayed
    /\ inner => call.kind = "create_notebook" /\ sent > 0
    /\ sent = 0 => world["new"].status = "absent" /\ late = {}
    /\ pc = "by_id" => TwoReads

(* What the requests name: only a creation that was repeated has a twin.   *)
Named ==
    /\ ~inner /\ call.kind \notin Creating => id = "target"
    /\ inner => id = "new"
    /\ id = "none" => call.kind = "add_source"
    /\ call.kind \in Creating \ Replayed /\ answer = "ack" => id = "new"
    /\ id = "twin" => sent = 2 /\ late = {}

(* Of one request at most one effect is still to come, and if it is the    *)
(* first creation, nothing is there yet.                                   *)
OneEffect ==
    Kind \in Creating /\ sent <= 1 =>
        late = {} \/ (world["new"].status = "absent" /\ \E honoured \in late : late = {honoured})

(* With no other tab at work, a request rewrites what was there.           *)
ReadIsOld ==
    edits = 0 /\ (pc = "send" \/ sent > 0) =>
        /\ call.grouped => call.beside = "absent"
        /\ ~inner /\ call.kind \in Changing => \A f \in Fields \ call.wants : before[f] = "old"

(* The first of the two reads is still right, or another tab was at work.  *)
SeenByPlace ==
    pc = "by_id" =>
        /\ Kind = "create_daily" /\ seen = "listed" => Live(id) \/ id \in touched
        /\ Kind = "delete_remy" /\ seen = "unlisted" => ~Live(id)

Inv == Typed /\ SentByPlace /\ Named /\ OneEffect /\ ReadIsOld /\ SeenByPlace
       /\ VerifiedIsTrue /\ RefusedIsSilent /\ SentOnce /\ RestUntouched
=============================================================================
