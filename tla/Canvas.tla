------------------------------- MODULE Canvas -------------------------------
(***************************************************************************)
(* Native Canvas content: creating it in a chat of its own that is kept,   *)
(* reading the artifact versions of a chat page by page, and exporting one *)
(* version to a new file.  Only the read-back proves that anything was     *)
(* made: the reply to the prompt does not.                                 *)
(***************************************************************************)
EXTENDS Naturals, Sequences, FiniteSets, Functions

CONSTANTS MaxVersions, MaxPages, PageMax, Limits, CreateLimit

VARIABLES
    call,      \* "create", "list" or "export"
    chat,      \* the source: "none", "made"; seen by the SDK: "seen"
    versions,  \* the versions in the chat, newest first: [id, usable]
    posts,
    source,    \* the call has registered the chat's identity
    cleanup,   \* the answer to the last registration
    retained,  \* the job row of the chat says retained
    pc,
    walk,      \* [token, limit, items, tokens, pages, old]
    file,      \* what output_path holds
    told       \* the result, or what kind of failure

cvvars == <<call, chat, versions, posts, source, cleanup, retained, pc, walk, file, told>>
provider == <<chat, versions, posts>>
kept == <<source, cleanup, retained>>
Version(n) == [id |-> n, usable |-> TRUE]
NewestFirst(set) ==
    {q \in [1..Cardinality(set) -> set] :
        /\ Range(q) = set
        /\ \A i, j \in DOMAIN q : i < j => q[i].id > q[j].id}
Result(kind) == [kind |-> kind, items |-> <<>>, complete |-> FALSE]

Start(limit) == [token |-> 0, limit |-> limit, items |-> <<>>, tokens |-> {}, pages |-> 0,
                 old |-> {v.id : v \in Range(versions)}]
NoWalk == [token |-> 0, limit |-> 1, items |-> <<>>, tokens |-> {}, pages |-> 0, old |-> {}]

Init ==
    /\ call \in {"create", "list", "export"}
    /\ chat = IF call = "create" THEN "none" ELSE "made"
    /\ versions \in IF call = "create" THEN {<<>>}
                    ELSE {[n \in 1..k |-> Version(k - n + 1)] : k \in 0..MaxVersions - 1}
    /\ posts = 0 /\ source = FALSE /\ cleanup = "none" /\ retained = FALSE
    /\ pc = "start" /\ walk = NoWalk
    /\ file \in {"absent", "others"} /\ told = Result("none")

-----------------------------------------------------------------------------
(* The provider and the rest of the file system.                           *)

\* Another version is made: by the request, late or not, or by another tab.
Compose ==
    /\ chat # "none" /\ Len(versions) < MaxVersions
    /\ \E usable \in BOOLEAN :
         versions' = <<[id |-> Len(versions) + 1, usable |-> usable]>> \o versions
    /\ UNCHANGED <<call, chat, posts, kept, pc, walk, file, told>>

SomebodyWrites ==
    /\ call = "export" /\ file = "absent"
    /\ file' = "others"
    /\ UNCHANGED <<call, provider, kept, pc, walk, told>>

-----------------------------------------------------------------------------
(* generate_canvas_result().                                               *)

\* retain_source(): the chat is registered as retained, or storage fails; once
\* it is, a later failure does not undo it.
Register ==
    /\ source' = TRUE
    /\ \/ cleanup' = "retained" /\ retained' = TRUE
       \/ cleanup' = "failed" /\ UNCHANGED retained
RetainSeen == IF source \/ chat = "seen" THEN Register ELSE UNCHANGED kept

\* client_generation_once(): the prompt goes out once, and may be lost.
Submit ==
    /\ call = "create" /\ pc = "start"
    /\ pc' = "submitted" /\ posts' = posts + 1
    /\ chat' \in {"none", "made"}
    /\ UNCHANGED <<call, versions, kept, walk, file, told>>

\* The first frame names the chat, which is registered before the next one.
Frame ==
    /\ pc = "submitted" /\ chat = "made"
    /\ chat' = "seen" /\ Register
    /\ UNCHANGED <<call, versions, posts, pc, walk, file, told>>

\* The reply ends, an error or a timeout ends it, or the caller cancels: each
\* way the chat seen by then is registered, again.
Ended(how) ==
    /\ pc = "submitted"
    /\ RetainSeen
    /\ \/ how = "reply" /\ source' /\ pc' = "page" /\ walk' = Start(CreateLimit) /\ UNCHANGED told
       \/ (how = "reply" => ~source') /\ pc' = "end" /\ told' = Result("failed") /\ UNCHANGED walk
    /\ UNCHANGED <<call, provider, file>>

\* Only versions with text are counted as created; without any, or when they
\* cannot be read, the request is accepted and no more.
Created(items) ==
    {[Result(IF usable = <<>> THEN "accepted"
             ELSE IF cleanup = "retained" THEN "completed" ELSE "partial")
         EXCEPT !.items = usable] : usable \in NewestFirst({v \in Range(items) : v.usable})}
Unread == Result(IF call = "create" THEN "accepted" ELSE "failed")

-----------------------------------------------------------------------------
(* list_canvas_chat_artifacts_result().                                    *)

List ==
    /\ call = "list" /\ pc = "start"
    /\ pc' = "page" /\ \E limit \in Limits : walk' = Start(limit)
    /\ UNCHANGED <<call, provider, kept, file, told>>

CompleteAtEnd(token, items) == token = 0       \* mutant: what does not fit is forgotten
Complete(token, items) == token = 0 /\ Len(items) <= walk.limit
Shown(items) == SubSeq(items, 1, IF Len(items) < walk.limit THEN Len(items) ELSE walk.limit)
Listed(token, items) ==
    [kind |-> "listed", items |-> Shown(items), complete |-> Complete(token, items)]
Told(token, items) == IF call = "create" THEN Created(Shown(items)) ELSE {Listed(token, items)}

\* The items with those of a page that are not among them yet.
Extended(page) ==
    {walk.items \o q :
        q \in NewestFirst({v \in page : \A w \in Range(walk.items) : w.id # v.id})}

\* One page: the provider decides how much it holds, and may by mistake hand
\* out a continuation that it gave before.
Page ==
    /\ pc = "page"
    /\ \E to \in walk.token..Len(versions) :
         /\ to <= walk.token + PageMax
         /\ to > walk.token \/ to = Len(versions)
         /\ \E items \in Extended({versions[i] : i \in (walk.token + 1)..to}),
               token \in walk.tokens \cup {IF to = Len(versions) THEN 0 ELSE to} :
              LET done == token = 0 \/ Len(items) >= walk.limit
                  last == walk.pages + 1 = MaxPages
              IN  \/ /\ done \/ (token \notin walk.tokens /\ last)
                     /\ pc' = "end" /\ told' \in Told(token, items) /\ UNCHANGED walk
                  \/ /\ ~done /\ token \in walk.tokens
                     /\ pc' = "end" /\ told' = Unread /\ UNCHANGED walk
                  \/ /\ ~done /\ token \notin walk.tokens /\ ~last
                     /\ walk' = [walk EXCEPT !.token = token, !.items = items,
                                     !.tokens = @ \cup {token}, !.pages = @ + 1]
                     /\ UNCHANGED <<pc, told>>
    /\ UNCHANGED <<call, provider, kept, file>>

\* The read fails: a listing fails with it, a creation is not observed.
PageFails ==
    /\ pc = "page" /\ pc' = "end" /\ told' = Unread
    /\ UNCHANGED <<call, provider, kept, walk, file>>

-----------------------------------------------------------------------------
(* export_canvas_result().                                                 *)

\* The path must be free before the version is read ...
Export ==
    /\ call = "export" /\ pc = "start"
    /\ \/ file = "absent" /\ pc' = "read" /\ UNCHANGED told
       \/ file # "absent" /\ pc' = "end" /\ told' = Result("failed")
    /\ UNCHANGED <<call, provider, kept, walk, file>>

Read ==
    /\ pc = "read"
    /\ \/ \E v \in Range(versions) : v.usable /\ pc' = "write" /\ UNCHANGED told
       \/ pc' = "end" /\ told' = Result("failed")
    /\ UNCHANGED <<call, provider, kept, walk, file>>

\* ... and still is when it is written: mode "x" creates or fails.  A write
\* that fails half-way leaves what it wrote; the text is read back.
Free == file = "absent"
Write ==
    /\ pc = "write" /\ pc' = "end"
    /\ \/ ~Free /\ told' = Result("failed") /\ UNCHANGED file
       \/ Free /\ file' = "partial" /\ told' = Result("failed")
       \/ Free /\ file' = "export" /\ told' = Result("exported")
    /\ UNCHANGED <<call, provider, kept, walk>>

Next ==
    \/ Compose \/ SomebodyWrites \/ Submit \/ Frame
    \/ (\E how \in {"reply", "error", "cancel"} : Ended(how))
    \/ List \/ Page \/ PageFails \/ Export \/ Read \/ Write
Spec == Init /\ [][Next]_cvvars

-----------------------------------------------------------------------------
Tells(kind) == pc = "end" /\ told.kind = kind

\* "The source is retained for chat_artifacts/get recovery, including after a
\* provider timeout": an ended call has registered the chat it saw, and says
\* completed only of content that is there, in a chat that is kept.
SourceIsRetained ==
    /\ posts <= 1
    /\ pc = "end" /\ chat = "seen" => source
    /\ Tells("completed") => retained /\ told.items # <<>>
    /\ Tells("completed") \/ Tells("partial") =>
         \A v \in Range(told.items) : v.usable /\ v \in Range(versions)

\* A listing that calls itself complete has every version there was when it
\* began; none of its versions is listed twice.
ListingIsWhole ==
    Tells("listed") =>
        /\ told.complete => walk.old \subseteq {v.id : v \in Range(told.items)}
        /\ IsInjective(told.items)

\* An export never replaces a file, and what it reports is in the file.
ExportIsNew == Tells("exported") => file = "export"
KeepsFiles == file = "others" => file' = "others"

-----------------------------------------------------------------------------
(* The inductive invariant.                                                *)

Artifacts == [id: Nat, usable: BOOLEAN]
Kinds == {"none", "failed", "accepted", "partial", "completed", "listed", "exported"}
Typed ==
    /\ call \in {"create", "list", "export"} /\ chat \in {"none", "made", "seen"}
    /\ versions \in Seq(Artifacts) /\ posts \in Nat
    /\ source \in BOOLEAN /\ retained \in BOOLEAN /\ cleanup \in {"none", "retained", "failed"}
    /\ pc \in {"start", "submitted", "page", "read", "write", "end"}
    /\ walk \in [token: Nat, limit: Nat, items: Seq(Artifacts), tokens: SUBSET Nat, pages: Nat,
                 old: SUBSET Nat]
    /\ file \in {"absent", "others", "partial", "export"}
    /\ told \in [kind: Kinds, items: Seq(Artifacts), complete: BOOLEAN]

\* Versions are numbered in the order they were made.
Numbered == \A i \in 1..Len(versions) : versions[i].id = Len(versions) - i + 1

\* A chat the call has seen is registered, and one registered as retained is.
SourceKnown ==
    /\ posts <= 1 /\ (pc = "start" => posts = 0)
    /\ chat = "seen" => source
    /\ cleanup = "retained" => retained

\* What there was when a walk began is among its items or further on.
WalkCovers ==
    pc = "page" =>
        /\ 0 \notin walk.tokens \cup walk.old
        /\ Range(walk.items) \subseteq Range(versions)
        /\ \A i, j \in DOMAIN walk.items : walk.items[i].id = walk.items[j].id => i = j
        /\ \A n \in walk.old :
             n <= Len(versions) - walk.token \/ \E i \in DOMAIN walk.items : walk.items[i].id = n

ToldIsTrue ==
    /\ pc # "end" => told.kind = "none"
    /\ told.kind = "completed" => retained /\ told.items # <<>>
    /\ told.kind \in {"completed", "partial"} =>
         \A v \in Range(told.items) : v.usable /\ v \in Range(versions)
    /\ told.kind = "listed" =>
         /\ told.complete => walk.old \subseteq {v.id : v \in Range(told.items)}
         /\ IsInjective(told.items)
    /\ told.kind = "exported" => file = "export"

Inv == Typed /\ Numbered /\ SourceKnown /\ WalkCovers /\ ToldIsTrue
=============================================================================
