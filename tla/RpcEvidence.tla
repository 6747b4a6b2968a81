----------------------------- MODULE RpcEvidence -----------------------------
(***************************************************************************)
(* What an answer of the undocumented web RPCs proves.  A contract names   *)
(* the RPC, the parser of its body and whether it changes something; the   *)
(* answer is a list of parts, and the deviations that a new release of the *)
(* web application, an error page or a confused account can bring are      *)
(* steps of their own.  A single, unrejected answer in the expected shape  *)
(* is evidence, everything else is not; where a parser takes less than     *)
(* that for an absence, the properties say what it takes.                  *)
(***************************************************************************)
EXTENDS Naturals, Sequences, Functions

CONSTANTS
    Identities,     \* of the objects
    Listings,       \* what Gemini may list: sequences of identities
    MaxDeviations

VARIABLES
    contract,    \* [parser, mode]
    expected,    \* the identity the caller asked for, or "any"
    truth,       \* the body that Gemini composed
    answer,      \* [status, json, parts]: what arrived
    deviations,  \* how much the answer deviates from what was composed
    posts,       \* how often the request went out
    phase,
    verdict      \* what the parsers and the three readings of the answer say

evars == <<contract, expected, truth, answer, deviations, posts, phase, verdict>>

-----------------------------------------------------------------------------
(* The registry of contracts.                                              *)

Reads(parsers) == {[parser |-> p, mode |-> "read"] : p \in parsers}
Mutates(parsers) == {[parser |-> p, mode |-> "mutation"] : p \in parsers}

ChatContracts == Reads({"task_goal", "music_chat", "conversation_page", "remy_goals_page"})
                 \cup Mutates({"conversation_update"})
AccountContracts == Reads({"opaque", "library_capabilities", "custom_gems"})
NotebookContracts ==
    Reads({"notebook_list", "conversation_page", "notebook_get"})
    \cup Mutates({"notebook_created", "notebook_update_ack", "native_void_ack",
                  "notebook_source_created", "notebook_move"})
SkillContracts == Reads({"native_skill_list", "native_skill_get"})
                  \cup Mutates({"native_skill_save", "native_skill_get", "native_void_ack"})
SettingsContracts == Reads({"public_links", "opaque", "usage_entries", "tool_modes"})
RemyContracts == Reads({"remy_schedule_registry", "remy_schedule_get"})
                 \cup Mutates({"remy_schedule_get", "remy_void_ack"})
ScheduledContracts == Reads({"scheduled_registry", "scheduled_get", "opaque"})
                      \cup Mutates({"scheduled_create", "mutation_ack"})
AssetContracts ==
    Reads({"library_page", "canvas_artifact", "canvas_versions", "canvas_chat_artifacts"})
    \cup Mutates({"library_delete", "public_link_create", "sharing_void_ack", "native_void_ack"})
Contracts == ChatContracts \cup AccountContracts \cup NotebookContracts \cup SkillContracts
             \cup SettingsContracts \cup RemyContracts \cup ScheduledContracts \cup AssetContracts

-----------------------------------------------------------------------------
(* Bodies and what a parser makes of them.                                 *)

\* A row names an object; "odd" has a checked field of the wrong type, "scalar"
\* is no list at all, and in a "hollow" one the path to what it holds is broken.
\* `meta' stands for what accompanies the rows: the
\* continuation token, the categories, the count of failures.
Row(id) == [id |-> id, form |-> "good"]
Body(kind, rows) == [kind |-> kind, rows |-> rows, meta |-> "good"]
\* "nothing" is [], "of_null" is [null] and so on; "blank" is the empty string,
\* "text" any other, of JSON or not.
Literals == {"null", "nothing", "of_null", "of_nulls", "of_true", "of_false", "text", "blank"}
Nulls == {"of_null", "of_nulls"}

Parsed(status, rows) == [status |-> status, rows |-> rows]
Changed == Parsed("changed_shape", <<>>)
Empty == Parsed("empty", <<>>)
Success(rows) == Parsed("success", rows)

\* The first row that is not as it should be spoils the whole body.
ItemsSkippingOdd(body, forms, named) ==    \* mutant: such rows are left out
    LET Fits(r) == r.form \in forms /\ (named => r.id # "unnamed")
        rows == SelectSeq(body.rows, Fits)
    IN  IF body.kind # "list" THEN Changed ELSE IF rows = <<>> THEN Empty ELSE Success(rows)
Items(body, forms, named) ==
    IF \/ body.kind # "list"
       \/ \E r \in Range(body.rows) : r.form \notin forms \/ (named /\ r.id = "unnamed")
    THEN Changed
    ELSE IF body.rows = <<>> THEN Empty ELSE Success(body.rows)
Unique(parsed) == IF IsInjective([i \in DOMAIN parsed.rows |-> parsed.rows[i].id])
                  THEN parsed ELSE Changed
Good == {"good"}

\* Listings.  "nothing" is an empty listing only where the parser says so.
ConversationPage(body) == IF body.meta = "odd" THEN Changed ELSE Items(body, Good, TRUE)
RemyGoals(body) == Items(body, Good, FALSE)
NotebookList(body) == IF body.meta = "odd" THEN Changed ELSE Items(body, Good, TRUE)
SkillList(body) == IF body.kind = "nothing" THEN Empty ELSE Unique(Items(body, Good, TRUE))
GemRegistry(body) == Items(body, Good, TRUE)
ScheduledRegistry(body) == IF body.kind = "nothing" THEN Empty ELSE Items(body, Good, TRUE)
RemyRegistry(body) ==
    IF body.kind \in Nulls \cup {"nothing"} THEN Empty
    ELSE IF body.meta = "odd" THEN Changed ELSE Items(body, Good, TRUE)
PublicLinks(body) == IF body.kind = "nothing" THEN Empty ELSE Items(body, Good, TRUE)
Usage(body) == Items(body, Good, FALSE)
Capabilities(body) == Items(body, Good \cup {"odd"}, FALSE)
ToolModes(body) == Items(body, Good \cup {"odd"}, FALSE)
LibraryPage(body) ==
    IF body.kind \in Nulls \cup {"nothing"} THEN Empty
    ELSE IF body.meta = "odd" THEN Changed ELSE Unique(Items(body, Good, TRUE))
CanvasVersions(body) ==
    IF body.kind \in Nulls \cup {"nothing"} THEN Empty ELSE Unique(Items(body, Good, TRUE))

\* The two listings that are dug out of a chat's turns by path.  A turn or a
\* candidate on whose path something is missing, or of the wrong type, is left
\* out; what is left is told in its place.
ByPath == {"music_chat", "canvas_chat_artifacts"}
Held(body) == {i \in DOMAIN body.rows : body.rows[i].form # "hollow"}
MusicChat(body) ==
    IF body.kind # "list" \/ \E r \in Range(body.rows) : r.form \in {"odd", "scalar"} THEN Changed
    ELSE IF Held(body) = {} THEN Empty ELSE Success(Restrict(body.rows, Held(body)))
\* Every turn names the chat, which must be the one asked for.
CanvasChat(body) ==
    IF \/ body.meta = "odd"
       \/ \E r \in Range(body.rows) : r.id = "unnamed" \/ expected \notin {"any", r.id}
    THEN Changed ELSE MusicChat(body)

\* One record, of the identity asked for.
RecordOf(body, forms, asked) ==
    IF \/ body.kind # "list" \/ body.rows = <<>>
       \/ LET r == body.rows[1] IN r.form \notin forms \/ r.id = "unnamed" \/ asked \notin {"any", r.id}
    THEN Changed ELSE Success(<<body.rows[1]>>)
Record(body) == RecordOf(body, Good, expected)
NotebookGet(body) == IF body.kind = "nothing" THEN Empty ELSE Record(body)
SkillGet(body) == IF body.kind = "nothing" THEN Empty ELSE Record(body)
RemyGet(body) == IF body.kind \in {"nothing", "of_null"} THEN Empty ELSE Record(body)
TaskGoal(body) == IF body.kind \in {"nothing", "of_null"} THEN Empty ELSE Record(body)
ScheduledGet(body) == IF body.kind = "nothing" THEN Empty ELSE Record(body)
CanvasGet(body) == IF body.kind = "nothing" THEN Empty ELSE Record(body)

\* Acknowledgements.
NotebookCreated(body) == IF body.kind = "nothing" THEN Empty ELSE RecordOf(body, Good, "any")
SourceCreated(body) ==
    LET parsed == NotebookGet(body)
    IN  IF parsed.status = "success" /\ body.meta = "odd" THEN Changed ELSE parsed
NativeVoid(body) ==
    IF body.kind = "nothing" THEN Success(<<>>) ELSE IF body.kind = "null" THEN Empty ELSE Changed
NotebookUpdated(body) ==
    CASE body.kind = "of_true" -> Success(<<>>)
      [] body.kind = "of_false" -> Parsed("rejected", <<>>)
      [] body.kind = "nothing" -> Empty
      [] OTHER -> Changed
SkillSave(body) == IF body.kind = "nothing" THEN Empty ELSE Record(body)
NotebookMove(body) ==
    IF body.kind \in {"nothing", "of_nulls"} THEN Empty
    ELSE RecordOf(body, Good \cup {"odd"}, expected)
ConversationUpdate(body) ==
    LET parsed == NotebookMove(body)
    IN  IF \E r \in Range(parsed.rows) : r.form = "odd" THEN Changed ELSE parsed
RemyVoid(body) ==
    IF body.kind = "nothing" THEN Success(<<>>) ELSE IF body.kind = "null" THEN Empty ELSE Changed
ScheduledCreate(body) == IF body.kind = "nothing" THEN Empty ELSE RecordOf(body, Good, "any")
LibraryDelete(body) ==
    CASE body.kind = "nothing" -> Empty
      [] body.kind \in {"list", "of_nulls"} /\ body.meta = "good" -> Success(body.rows)
      [] OTHER -> Changed
LinkCreate(body) == IF body.kind = "nothing" THEN Empty ELSE RecordOf(body, Good, "any")
SharingVoid(body) ==
    IF body.kind = "nothing" THEN Empty ELSE IF body.kind = "of_null" THEN Success(<<>>) ELSE Changed
Opaque(body) ==
    IF body.kind \in {"null", "nothing", "blank"} THEN Empty
    ELSE IF body.kind = "text" THEN Changed ELSE Success(body.rows)
MutationAck(body) == Opaque(body)

Parse(body) ==
    CASE contract.parser = "conversation_page" -> ConversationPage(body)
      [] contract.parser = "remy_goals_page" -> RemyGoals(body)
      [] contract.parser = "notebook_list" -> NotebookList(body)
      [] contract.parser = "native_skill_list" -> SkillList(body)
      [] contract.parser = "custom_gems" -> GemRegistry(body)
      [] contract.parser = "scheduled_registry" -> ScheduledRegistry(body)
      [] contract.parser = "remy_schedule_registry" -> RemyRegistry(body)
      [] contract.parser = "public_links" -> PublicLinks(body)
      [] contract.parser = "usage_entries" -> Usage(body)
      [] contract.parser = "library_capabilities" -> Capabilities(body)
      [] contract.parser = "tool_modes" -> ToolModes(body)
      [] contract.parser = "library_page" -> LibraryPage(body)
      [] contract.parser = "canvas_versions" -> CanvasVersions(body)
      [] contract.parser = "canvas_chat_artifacts" -> CanvasChat(body)
      [] contract.parser = "music_chat" -> MusicChat(body)
      [] contract.parser = "notebook_get" -> NotebookGet(body)
      [] contract.parser = "native_skill_get" -> SkillGet(body)
      [] contract.parser = "remy_schedule_get" -> RemyGet(body)
      [] contract.parser = "task_goal" -> TaskGoal(body)
      [] contract.parser = "scheduled_get" -> ScheduledGet(body)
      [] contract.parser = "canvas_artifact" -> CanvasGet(body)
      [] contract.parser = "notebook_created" -> NotebookCreated(body)
      [] contract.parser = "notebook_source_created" -> SourceCreated(body)
      [] contract.parser = "native_void_ack" -> NativeVoid(body)
      [] contract.parser = "notebook_update_ack" -> NotebookUpdated(body)
      [] contract.parser = "native_skill_save" -> SkillSave(body)
      [] contract.parser = "notebook_move" -> NotebookMove(body)
      [] contract.parser = "conversation_update" -> ConversationUpdate(body)
      [] contract.parser = "remy_void_ack" -> RemyVoid(body)
      [] contract.parser = "scheduled_create" -> ScheduledCreate(body)
      [] contract.parser = "library_delete" -> LibraryDelete(body)
      [] contract.parser = "public_link_create" -> LinkCreate(body)
      [] contract.parser = "sharing_void_ack" -> SharingVoid(body)
      [] contract.parser = "mutation_ack" -> MutationAck(body)
      [] OTHER -> Opaque(body)

-----------------------------------------------------------------------------
(* The envelope, and the readings of it.                                   *)

\* A part answers one RPC; a part without a body has none to parse.
Matching == {i \in DOMAIN answer.parts : answer.parts[i].rpc = "ours"}
Bodies == {i \in Matching : answer.parts[i].body.kind # "none"}
SingleBody == \E i \in Bodies : Matching = {i}
Rejected == \E i \in Matching : answer.parts[i].rejected
Received == answer.parts[CHOOSE i \in Bodies : TRUE].body
Outcome == CASE ~answer.json -> Changed
             [] Rejected -> Parsed("rejected", <<>>)
             [] SingleBody -> Parse(Received)
             [] OTHER -> Changed

Evident == answer.status = 200 /\ answer.json /\ ~Rejected /\ SingleBody
           /\ Outcome.status \in {"success", "empty"}
\* account_contract_result() with account_read_result(), and the copies of the
\* same rule in the notebook and the scheduled service.
AccountReading == Evident /\ answer.status = 200 /\ Bodies # {}
NotebookReading == Evident
ScheduledReading == Evident /\ Bodies # {} /\ ~Rejected

-----------------------------------------------------------------------------
Post ==
    /\ phase = "post"
    /\ posts' = posts + 1
    /\ phase' \in {"arrived", "lost"}
    /\ UNCHANGED <<contract, expected, truth, answer, deviations, verdict>>

\* The SDK's wrapper sends a request again whose answer was lost, unless it was
\* told that this was the last attempt.
Attempts == IF contract.mode = "mutation" THEN 1 ELSE 2
Resend ==
    /\ phase = "lost"
    /\ posts < Attempts
    /\ phase' = "post"
    /\ UNCHANGED <<contract, expected, truth, answer, deviations, posts, verdict>>

\* For the other parsers a broken path is as a wrong type.
Deformed == {"odd", "scalar"} \cup (IF contract.parser \in ByPath THEN {"hollow"} ELSE {})
SetBody(i, body) == [answer EXCEPT !.parts[i].body = body]
Deviate ==
    /\ phase = "arrived"
    /\ deviations < MaxDeviations
    /\ deviations' = deviations + 1
    /\ \/ answer' = [answer EXCEPT !.status = 403]
       \/ answer' = [answer EXCEPT !.json = FALSE]
       \/ answer' = [answer EXCEPT !.parts = Append(@, [rpc |-> "other", rejected |-> FALSE, body |-> Body("nothing", <<>>)])]
       \/ \E i \in DOMAIN answer.parts :
          LET part == answer.parts[i]
              body == part.body
          IN  /\ part.rpc = "ours"
              /\ \/ answer' = [answer EXCEPT !.parts = SubSeq(@, 1, i - 1) \o SubSeq(@, i + 1, Len(@))]
                 \/ answer' = [answer EXCEPT !.parts = Append(@, part)]
                 \/ answer' = [answer EXCEPT !.parts[i].rejected = TRUE]
                 \/ \E kind \in {"none", "text", "blank"} : answer' = SetBody(i, Body(kind, <<>>))
                 \/ body.kind = "list" /\ answer' = SetBody(i, [body EXCEPT !.meta = "odd"])
                 \/ \E r \in DOMAIN body.rows :
                       \/ \E form \in Deformed : answer' = SetBody(i, [body EXCEPT !.rows[r].form = form])
                       \/ answer' = SetBody(i, [body EXCEPT !.rows[r].id = "unnamed"])
    /\ UNCHANGED <<contract, expected, truth, posts, phase, verdict>>

Unread == [outcome |-> Changed, account |-> FALSE, notebook |-> FALSE, scheduled |-> FALSE]
Read ==
    /\ phase = "arrived"
    /\ phase' = "read"
    /\ verdict' = [outcome |-> Outcome, account |-> AccountReading,
                   notebook |-> NotebookReading, scheduled |-> ScheduledReading]
    /\ UNCHANGED <<contract, expected, truth, answer, deviations, posts>>

Truths == {Body(kind, <<>>) : kind \in Literals \ {"text", "blank"}}
          \cup {Body("list", [i \in DOMAIN ids |-> Row(ids[i])]) : ids \in Listings}
Init ==
    /\ contract \in Contracts
    /\ expected \in Identities \cup {"any"}
    /\ truth \in Truths
    /\ answer = [status |-> 200, json |-> TRUE,
                 parts |-> <<[rpc |-> "ours", rejected |-> FALSE, body |-> truth]>>]
    /\ deviations = 0
    /\ posts = 0
    /\ phase = "post"
    /\ verdict = Unread

Next == Post \/ Resend \/ Deviate \/ Read

Spec == Init /\ [][Next]_evars

-----------------------------------------------------------------------------
Listing == contract.parser \in
    {"conversation_page", "notebook_list", "native_skill_list", "custom_gems",
     "scheduled_registry", "remy_schedule_registry", "public_links",
     "library_page", "canvas_versions"}
Nameless == contract.parser \in
    {"remy_goals_page", "usage_entries", "library_capabilities", "tool_modes"}
ByIdentity == contract.parser \in
    {"notebook_get", "native_skill_get", "remy_schedule_get", "task_goal", "scheduled_get",
     "canvas_artifact", "notebook_source_created", "native_skill_save", "notebook_move",
     "conversation_update"}

\* What is told of a chat's turns was composed, and what is not told of them
\* arrived without its content.
TakenByPath(rows) ==
    /\ \A i \in DOMAIN rows : i \in DOMAIN truth.rows /\ rows[i].id \in {"unnamed", truth.rows[i].id}
    /\ \A i \in DOMAIN truth.rows \ DOMAIN rows : Received.rows[i].form = "hollow"

\* Evidence is whole: an accepted listing is all that Gemini listed and nothing
\* else, an accepted record is the one asked for, whatever happened to the
\* answer on its way (rpc_parsers.py:394, account.py:24).
EvidenceIsWhole ==
    verdict.account /\ verdict.outcome.status = "success" =>
        /\ Listing => verdict.outcome.rows = truth.rows
        /\ Nameless => Len(verdict.outcome.rows) = Len(truth.rows)
        /\ contract.parser \in ByPath => TakenByPath(verdict.outcome.rows)
        /\ ByIdentity => verdict.outcome.rows[1].id \in {expected, truth.rows[1].id}
        /\ ByIdentity /\ expected # "any" => verdict.outcome.rows[1].id = expected

\* "Nothing there" is said by Gemini and not concluded from a broken answer,
\* but for two kinds of it: an empty string, where the parser knows no shape
\* (rpc_parsers.py:972, 980), and turns none of which has content where it
\* belongs (rpc_parsers.py:997, 1155).
Blank == contract.parser \in {"opaque", "mutation_ack"} /\ Received.kind = "blank"
AllHollow == contract.parser \in ByPath /\ \A r \in Range(Received.rows) : r.form = "hollow"
EmptyIsSaid ==
    verdict.account /\ verdict.outcome.status = "empty" => truth.rows = <<>> \/ Blank \/ AllHollow

\* The services' own copies of the rule agree with the account's.
ReadingsAgree == verdict.account = verdict.notebook /\ verdict.account = verdict.scheduled

\* What changes something is never posted again (rpc_contracts.py:931).
ChangesOnce == contract.mode = "mutation" => posts <= 1

-----------------------------------------------------------------------------
(* The inductive invariant of the safety properties *)

Kinds == Literals \cup {"list", "none"}
Rows == [id : Identities \cup {"unnamed"}, form : {"good", "odd", "scalar", "hollow"}]
Parts == [rpc : {"ours", "other"}, rejected : BOOLEAN,
          body : [kind : Kinds, rows : Seq(Rows), meta : {"good", "odd"}]]
Typed ==
    /\ contract \in Contracts
    /\ expected \in Identities \cup {"any"}
    /\ truth \in Truths
    /\ answer \in [status : {200, 403}, json : BOOLEAN, parts : Seq(Parts)]
    /\ deviations \in Nat /\ posts \in Nat
    /\ phase \in {"post", "arrived", "lost", "read"}
    /\ verdict.account \in BOOLEAN /\ (verdict.account => phase = "read")

\* A body that arrives in its own kind still has a row for each that was
\* composed, of the same object or of none.
Became(body) ==
    \/ body.kind \in {"none", "text", "blank"} /\ body.rows = <<>>
    \/ /\ body.kind = truth.kind
       /\ Len(body.rows) = Len(truth.rows)
       /\ \A k \in DOMAIN truth.rows : body.rows[k].id \in {"unnamed", truth.rows[k].id}
Traceable == \A i \in Matching : Became(answer.parts[i].body)

PostsByPhase == IF phase = "post" THEN posts < Attempts ELSE posts <= Attempts

Inv == Typed /\ Traceable /\ PostsByPhase
       /\ EvidenceIsWhole /\ EmptyIsSaid /\ ReadingsAgree /\ ChangesOnce
=============================================================================
