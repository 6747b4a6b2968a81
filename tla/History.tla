------------------------------- MODULE History -------------------------------
(***************************************************************************)
(* The calls of services/history.py and services/history_mutations.py that *)
(* walk the two listings of chats, pinned and recent, page by page: the    *)
(* read-back of a deletion and of a rename or pin, the paged list, and the *)
(* search in contents.  Every page is a request of its own, and between    *)
(* two of them the user goes on working in the browser: chats are pinned,  *)
(* renamed, used and removed.  One call (or one walk, a list call repeated *)
(* with its own next_offset) is modelled from request to result.           *)
(***************************************************************************)
EXTENDS Integers, Sequences, FiniteSets, FiniteSetsExt, Functions

CONSTANTS
    NChats,          \* chats of the account
    PageMin,         \* 10 in fetch_history_metadata
    PageMax,         \* 100
    MaxPages,        \* max_pages_per_source, 50
    MaxTarget,       \* 5000
    ReadBackTarget,  \* 200 in update_chat_metadata_result
    Limit,           \* items a list or search call asks for
    MaxChanges       \* bound: changes the user makes during a call

VARIABLES
    stamp, pin, title,   \* the provider: last use (0: no such chat), pins, titles
    sent,                \* a delete or update request that may still land
    changed,             \* the chats the user changed since the call began
    repeated,            \* the provider has repeated a continuation token
    goal,                \* the call's arguments
    pc, scan, items, more,
    reading,             \* a content search: chats to read, read, failed, matched
    shown,               \* the chats a walk has shown so far
    result

hvars == <<stamp, pin, title, sent, changed, repeated, goal, pc, scan, items, more,
           reading, shown, result>>
provider == <<stamp, pin, title, sent, changed>>

AllChats == 1..NChats
Titles == {"old", "new"}
Fields == {"title", "is_pinned"}   \* an update renames, pins or does both
NoToken == 0                   \* no continuation token, no next_offset

Goals ==
    [kind: {"delete"}, chat: AllChats]
    \cup [kind: {"update"}, chat: AllChats, fields: SUBSET Fields \ {{}}]
    \cup [kind: {"list"}, offset: {0}]
    \cup [kind: {"search"}, offset: {0}, holder: AllChats]

Alive == {c \in AllChats : stamp[c] > 0}
Newest == Max({stamp[c] : c \in AllChats} \cup {0})
Metadata(c) == [id |-> c, title |-> title[c], pinned |-> c \in pin]
Ids(seq) == {seq[i].id : i \in DOMAIN seq}

Scan(sources) == [sources |-> sources, cursor |-> NoToken, tokens |-> {}, pages |-> 0, count |-> 0]

DeletionSources == <<FALSE, TRUE>>
Sources(g) == IF g.kind = "delete" THEN DeletionSources ELSE <<TRUE, FALSE>>

Open == result.status = "open"

Init ==
    /\ stamp = [c \in AllChats |-> c]
    /\ pin \in SUBSET AllChats
    /\ title = [c \in AllChats |-> "old"]
    /\ sent = FALSE /\ changed = {} /\ repeated = FALSE
    /\ goal \in Goals
    /\ pc = IF goal.kind \in {"delete", "update"} THEN "request" ELSE "scan"
    /\ scan = Scan(Sources(goal))
    /\ items = <<>> /\ more = FALSE /\ shown = {}
    /\ reading = [todo |-> <<>>, read |-> {}, failed |-> {}, matched |-> {}]
    /\ result = [status |-> "open", next |-> NoToken]

-----------------------------------------------------------------------------
(* The provider and the user *)

(* What is left of the listing that is being read: a continuation token   *)
(* stands for the last chat shown.                                         *)
Rest == {c \in Alive : /\ (c \in pin) = Head(scan.sources)
                       /\ scan.cursor = NoToken \/ stamp[c] < scan.cursor}

(* A listing shows chats in the order of their use, the latest first.      *)
LatestFirst(S) ==
    {q \in [1..Cardinality(S) -> S] :
        /\ Range(q) = S
        /\ \A i, j \in DOMAIN q : i < j => stamp[q[i]] > stamp[q[j]]}

(* A page: the latest of the rest, and a token: none only at the end,      *)
(* where some providers send one more; or one that was sent before.        *)
Pages(size) ==
    {page \in SUBSET Rest :
        /\ Cardinality(page) <= size /\ (page = {} => Rest = {})
        /\ \A c \in page, d \in Rest \ page : stamp[c] > stamp[d]}

Follows(page, token) ==
    IF page # {} THEN \E c \in page : token = stamp[c] /\ \A d \in page : stamp[d] >= stamp[c]
    ELSE token = IF scan.cursor # NoToken THEN scan.cursor ELSE Newest + 1

Answers(size) ==
    {a \in [page: Pages(size), token: 0..(Newest + 1)] :
        \/ Follows(a.page, a.token)
        \/ a.token = NoToken /\ a.page = Rest
        \/ a.token \in scan.tokens}

Land ==
    /\ sent /\ Open
    /\ sent' = FALSE
    /\ IF goal.kind = "delete"
       THEN stamp' = [stamp EXCEPT ![goal.chat] = 0] /\ UNCHANGED <<pin, title>>
       ELSE /\ title' = IF "title" \in goal.fields THEN [title EXCEPT ![goal.chat] = "new"] ELSE title
            /\ pin' = IF "is_pinned" \in goal.fields THEN pin \cup {goal.chat} ELSE pin
            /\ UNCHANGED stamp
    /\ UNCHANGED <<changed, repeated, goal, pc, scan, items, more, reading, shown, result>>

(* The user pins, unpins, renames, continues or removes a chat. *)
UserChanges(c) ==
    /\ Open /\ c \in Alive /\ Cardinality(changed) < MaxChanges
    /\ changed' = changed \cup {c}
    /\ \/ pin' = (IF c \in pin THEN pin \ {c} ELSE pin \cup {c}) /\ UNCHANGED <<stamp, title>>
       \/ title' = [title EXCEPT ![c] = "old"] /\ UNCHANGED <<stamp, pin>>
       \/ stamp' = [stamp EXCEPT ![c] = Newest + 1] /\ UNCHANGED <<pin, title>>
       \/ stamp' = [stamp EXCEPT ![c] = 0] /\ UNCHANGED <<pin, title>>
    /\ UNCHANGED <<sent, repeated, goal, pc, scan, items, more, reading, shown, result>>

-----------------------------------------------------------------------------
(* The call *)

End(status) ==
    /\ result' = [status |-> status, next |-> NoToken]
    /\ pc' = "done"
    /\ UNCHANGED <<goal, scan, reading, shown>>

(* The request that changes something: it may raise although it arrives,   *)
(* and be acknowledged although it changes nothing.  An acknowledgement    *)
(* that cannot be read fails an update; a deletion does not look at its.   *)
Request ==
    /\ pc = "request"
    /\ sent' = TRUE
    /\ \/ /\ End("raised")
       \/ /\ goal.kind = "update" /\ End("acknowledgement_unverified")
       \/ /\ pc' = "scan" /\ UNCHANGED <<goal, scan, reading, shown, result>>
    /\ UNCHANGED <<stamp, pin, title, changed, repeated, items, more>>

Advance(a) ==
    /\ scan' = [scan EXCEPT !.cursor = a.token, !.tokens = @ \cup {a.token},
                            !.pages = @ + 1,
                            !.count = @ + Cardinality(a.page)]
    /\ UNCHANGED <<goal, pc, reading, shown, result>>

(* mutant: running out of pages is taken for having seen them all *)
BoundReachedAbsent == End("verified_absent")
BoundReached == End("not_available")

(* observe_chat_absence: one page. *)
ObserveAbsence(a) ==
    \/ /\ goal.chat \in a.page /\ End("still_present")
    \/ /\ goal.chat \notin a.page
       /\ \/ a.token = NoToken /\ Len(scan.sources) = 1 /\ End("verified_absent")
          \/ /\ a.token = NoToken /\ Len(scan.sources) > 1
             /\ scan' = Scan(Tail(scan.sources))
             /\ UNCHANGED <<goal, pc, reading, shown, result>>
          \/ a.token # NoToken /\ a.token \in scan.tokens /\ End("read_back_error")
          \/ a.token # NoToken /\ a.token \notin scan.tokens /\ scan.pages + 1 = MaxPages
             /\ BoundReached
          \/ a.token # NoToken /\ a.token \notin scan.tokens /\ scan.pages + 1 < MaxPages
             /\ Advance(a)

DeletePage ==
    /\ pc = "scan" /\ goal.kind = "delete"
    /\ \/ End("read_back_error") /\ UNCHANGED repeated
       \/ \E a \in Answers(PageMax) :
             /\ ObserveAbsence(a)
             /\ repeated' = (repeated \/ a.token \in scan.tokens)
    /\ UNCHANGED <<stamp, pin, title, sent, changed, items, more>>

Target ==
    IF goal.kind = "update" THEN ReadBackTarget
    ELSE Min({MaxTarget, Limit + Min({goal.offset, MaxTarget})})
PageSize == Min({PageMax, Max({Target, PageMin})})

Conflicts(page) ==
    \E j \in DOMAIN items : items[j].id \in page /\ items[j] # Metadata(items[j].id)
Combined(page) ==
    {items \o [i \in DOMAIN q |-> Metadata(q[i])] : q \in LatestFirst(page \ Ids(items))}

(* paginate_items, _remote_pagination: the slice, and where the next one   *)
(* begins; a walk that cannot advance says that it is incomplete.          *)
Offset(all) == Min({goal.offset, Len(all)})
Slice(all) == SubSeq(all, Offset(all) + 1, Min({Offset(all) + Limit, Len(all)}))
NextOffset(all) == Offset(all) + Len(Slice(all))
LocalMore(all) == NextOffset(all) < Len(all)
Stuck(all, remote) ==
    \/ (remote \/ LocalMore(all)) /\ NextOffset(all) > MaxTarget
    \/ remote /\ ~LocalMore(all) /\ Slice(all) = <<>>
Next_(all, remote) ==
    IF ~Stuck(all, remote) /\ (remote \/ LocalMore(all)) THEN NextOffset(all) ELSE NoToken

Requested(m) == ("title" \in goal.fields => m.title = "new") /\ ("is_pinned" \in goal.fields => m.pinned)
UpdateStatus(all) ==
    LET seen == {m \in Range(all) : m.id = goal.chat} IN
    IF seen = {} THEN "target_not_observed"
    ELSE IF \A m \in seen : Requested(m)
         THEN "verified_updated" ELSE "read_back_mismatch"

Fetched(all, remote) ==
    CASE goal.kind = "update" -> End(UpdateStatus(all))
      [] goal.kind = "list" ->
           /\ result' = [status |-> IF Stuck(all, remote) THEN "bounded_incomplete" ELSE "observed",
                         next |-> Next_(all, remote)]
           /\ pc' = "done" /\ shown' = shown \cup Ids(Slice(all))
           /\ UNCHANGED <<goal, scan, reading>>
      [] goal.kind = "search" ->
           /\ pc' = "read" /\ shown' = shown \cup Ids(Slice(all))
           /\ reading' = [todo |-> Slice(all), read |-> {}, failed |-> {}, matched |-> {}]
           /\ UNCHANGED <<goal, scan, result>>

FetchFails(status) ==
    End(IF goal.kind = "update" THEN "read_back_unavailable" ELSE status)

(* fetch_history_metadata: one page; a bucket ends with its listing, with  *)
(* the target or with a repeated token.                                    *)
FetchPage ==
    /\ pc = "scan" /\ goal.kind # "delete"
    /\ \/ FetchFails("page_unverified") /\ UNCHANGED <<items, more, repeated>>
       \/ \E a \in Answers(PageSize) :
             LET goes == /\ a.token # NoToken /\ a.page # {} /\ a.token \notin scan.tokens
                         /\ scan.count + Cardinality(a.page) < Target
                 left == more \/ a.token # NoToken
             IN
             /\ repeated' = (repeated \/ a.token \in scan.tokens)
             /\ \/ Conflicts(a.page) /\ FetchFails("metadata_conflict") /\ UNCHANGED <<items, more>>
                \/ /\ ~Conflicts(a.page)
                   /\ items' \in Combined(a.page)
                   /\ \/ goes /\ Advance(a) /\ UNCHANGED more
                      \/ /\ ~goes /\ more' = left /\ Len(scan.sources) > 1
                         /\ scan' = Scan(Tail(scan.sources))
                         /\ UNCHANGED <<goal, pc, reading, shown, result>>
                      \/ /\ ~goes /\ more' = left /\ Len(scan.sources) = 1
                         /\ Fetched(items', left)
    /\ UNCHANGED provider

Unread(c) == [reading EXCEPT !.todo = Tail(@), !.failed = @ \cup {c}]

(* search_chats_result with scan_turns: the chats of the page one by one.  *)
ReadContent ==
    /\ pc = "read" /\ reading.todo # <<>>
    /\ LET c == Head(reading.todo).id IN
       \/ reading' = Unread(c)
       \/ /\ c \in Alive
          /\ reading' = [reading EXCEPT !.todo = Tail(@), !.read = @ \cup {c},
                                        !.matched = IF goal.holder = c THEN @ \cup {c} ELSE @]
    /\ UNCHANGED <<provider, repeated, goal, pc, scan, items, more, shown, result>>

SearchEnds ==
    /\ pc = "read" /\ reading.todo = <<>>
    /\ result' = [status |-> IF reading.failed # {}
                             THEN IF reading.read = {} THEN "content_scan_failed"
                                                       ELSE "content_scan_incomplete"
                             ELSE IF Stuck(items, more) THEN "bounded_incomplete" ELSE "observed",
                  next |-> Next_(items, more)]
    /\ pc' = "done"
    /\ UNCHANGED <<provider, repeated, goal, scan, items, more, reading, shown>>

(* The caller asks for the next page of its list. *)
Continue ==
    /\ pc = "done" /\ goal.kind = "list" /\ result.next # NoToken
    /\ goal' = [goal EXCEPT !.offset = result.next]
    /\ scan' = Scan(Sources(goal)) /\ items' = <<>> /\ more' = FALSE
    /\ result' = [status |-> "open", next |-> NoToken] /\ pc' = "scan"
    /\ UNCHANGED <<provider, repeated, reading, shown>>

Next ==
    \/ Request \/ DeletePage \/ FetchPage \/ ReadContent \/ SearchEnds \/ Continue
    \/ Land \/ \E c \in AllChats : UserChanges(c)

Spec == Init /\ [][Next]_hvars

-----------------------------------------------------------------------------
(* A deletion is reported as verified only if the chat is gone, or the     *)
(* user moved it while the listings were read (history.py:633-712).        *)
AbsenceIsTrue ==
    result.status = "verified_absent" => goal.chat \notin Alive \/ goal.chat \in changed

(* A rename or pin is reported as verified only if the chat has all the    *)
(* requested fields, unless the user changed it again.                     *)
UpdateIsTrue ==
    result.status = "verified_updated" =>
        \/ goal.chat \in changed
        \/ /\ goal.chat \in Alive
           /\ Requested(Metadata(goal.chat))

(* A walk over the list that ends without a warning has shown every chat,  *)
(* if nobody changed the history meanwhile and the provider's tokens       *)
(* always lead on.                                                         *)
WalkShowsAll ==
    pc = "done" /\ goal.kind = "list" /\ result = [status |-> "observed", next |-> NoToken]
        /\ changed = {} /\ ~repeated => Alive \subseteq shown

(* The next page of a walk begins after the present one, whatever the      *)
(* provider answers: a client that follows next_offset comes to an end.    *)
Progresses == pc = "done" /\ pc' = "scan" => goal'.offset > goal.offset

(* A content search that reports no gap has matched every chat of its page *)
(* that holds the text.                                                    *)
SearchMissesNothing ==
    pc = "done" /\ goal.kind = "search" /\ result.status = "observed" =>
        (goal.holder \in shown => goal.holder \in reading.matched)

-----------------------------------------------------------------------------
(* The inductive invariant.                                                *)

Items == [id: AllChats, title: Titles, pinned: BOOLEAN]
Statuses ==
    {"open", "raised", "acknowledgement_unverified", "verified_absent", "still_present",
     "not_available", "read_back_error", "read_back_unavailable", "page_unverified",
     "metadata_conflict", "target_not_observed", "verified_updated", "read_back_mismatch",
     "observed", "bounded_incomplete", "content_scan_failed", "content_scan_incomplete"}

Typed ==
    /\ stamp \in [AllChats -> Nat] /\ pin \in SUBSET AllChats /\ title \in [AllChats -> Titles]
    /\ sent \in BOOLEAN /\ changed \in SUBSET AllChats /\ repeated \in BOOLEAN
    /\ goal \in [kind: {"delete"}, chat: AllChats]
                \cup [kind: {"update"}, chat: AllChats, fields: SUBSET Fields]
                \cup [kind: {"list"}, offset: Nat]
                \cup [kind: {"search"}, offset: {0}, holder: AllChats]
    /\ pc \in {"request", "scan", "read", "done"}
    /\ scan \in [sources: {<<TRUE, FALSE>>, <<FALSE, TRUE>>, <<TRUE>>, <<FALSE>>}, cursor: Nat,
                 tokens: SUBSET (Nat \ {NoToken}), pages: Nat, count: Nat]
    /\ items \in Seq(Items) /\ more \in BOOLEAN
    /\ reading \in [todo: Seq(Items), read: SUBSET AllChats, failed: SUBSET AllChats,
                    matched: SUBSET AllChats]
    /\ shown \in SUBSET AllChats /\ result \in [status: Statuses, next: Nat]

(* Only what changes something is requested, only a search reads chats.    *)
GoalFits ==
    /\ sent \/ pc = "request" => goal.kind \in {"delete", "update"}
    /\ pc = "read" => goal.kind = "search"

(* Uses are numbered, so there is a latest. *)
NewestIsLatest == Newest \in Nat /\ \A c \in AllChats : stamp[c] <= Newest

(* A chat to be deleted that is there, and that nobody moved, is neither   *)
(* in a listing that was read nor in the part of this one that was.        *)
DeletionLooks ==
    goal.kind = "delete" /\ pc \in {"request", "scan"} =>
        /\ scan.sources \in {<<FALSE, TRUE>>, <<TRUE>>}
        /\ goal.chat \in Alive \ changed =>
             /\ scan.sources = <<TRUE>> => goal.chat \in pin
             /\ (goal.chat \in pin) = Head(scan.sources) /\ scan.cursor # NoToken =>
                  stamp[goal.chat] < scan.cursor

(* What was read of a chat to be updated is still so.                      *)
UpdateLooks ==
    goal.kind = "update" /\ goal.chat \notin changed =>
        /\ goal.chat \in Alive
        /\ \A i \in DOMAIN items : items[i].id = goal.chat =>
             /\ items[i].title = "new" => title[goal.chat] = "new"
             /\ items[i].pinned => goal.chat \in pin

(* The chats of a content search are read one after the other.             *)
SearchReads ==
    goal.kind = "search" =>
        /\ pc = "scan" => shown = {}
        /\ pc = "read" => /\ shown \subseteq Ids(reading.todo) \cup reading.read \cup reading.failed
                          /\ goal.holder \in reading.read => goal.holder \in reading.matched

(* The order of the whole history: pinned chats first, each source by use. *)
Before(c, d) ==
    \/ c \in pin /\ d \notin pin
    \/ (c \in pin <=> d \in pin) /\ stamp[c] > stamp[d]
Rank(c) == Cardinality({d \in AllChats : Before(d, c)})

(* The first k of all these are the first k chats of the history.          *)
Front(all, k) ==
    /\ \A i, j \in 1..k : i < j => Before(all[i].id, all[j].id)
    /\ \A c \in AllChats : \/ \E i \in 1..k : all[i].id = c
                        \/ \A i \in 1..k : Before(all[i].id, c)

Passed(c) == scan.cursor # NoToken /\ stamp[c] >= scan.cursor

(* Unless a source was left early, with enough chats, the items are the    *)
(* front of the history.                                                   *)
ScanIsFront ==
    \/ /\ scan.sources = <<TRUE, FALSE>> /\ ~more
       /\ scan.count = Len(items) /\ Front(items, Len(items))
       /\ \A c \in AllChats : c \in Ids(items) <=> c \in pin /\ Passed(c)
    \/ /\ scan.sources = <<FALSE>>
       /\ \A c \in AllChats \ pin : c \in Ids(items) <=> Passed(c)
       /\ \/ pin \subseteq Ids(items) /\ Front(items, Len(items))
          \/ more /\ \E k \in 0..Len(items) : k >= Target /\ Front(items, k)

ListShows ==
    goal.kind = "list" =>
        /\ pc = "done" /\ result.next # NoToken => result.next > goal.offset
        /\ changed = {} /\ ~repeated =>
             /\ stamp = [c \in AllChats |-> c]
             /\ pc = "scan" =>
                  ScanIsFront /\ \A c \in AllChats : Rank(c) < goal.offset => c \in shown
             /\ pc = "done" /\ result.next # NoToken =>
                  \A c \in AllChats : Rank(c) < result.next => c \in shown
             /\ pc = "done" /\ result = [status |-> "observed", next |-> NoToken] =>
                  AllChats \subseteq shown

Inv ==
    /\ Typed /\ GoalFits /\ NewestIsLatest
    /\ DeletionLooks /\ AbsenceIsTrue
    /\ UpdateLooks /\ UpdateIsTrue
    /\ SearchReads /\ SearchMissesNothing
    /\ ListShows
=============================================================================
