---------------------------- MODULE MarkedSweep ----------------------------
(***************************************************************************)
(* Deleting what tests left behind (services/cleanup.py): every chat and   *)
(* scheduled action whose text contains one of the given markers, or only  *)
(* naming them (dry run).  Chats and their titles come from a list that    *)
(* the SDK fetched at some time before the call, turns are read chat by    *)
(* chat, and users go on renaming all the while.                           *)
(***************************************************************************)
EXTENDS Naturals, Sequences, FiniteSets, Functions

CONSTANTS Chats, MaxChats

VARIABLES
    asked,     \* [markers, target, turns, dry]
    options,   \* the markers in use
    world,     \* world[x]: [here, title, turn], texts as the words in them
    had,       \* had[x]: words of x at some time of the call, or in its listed title
    listing,   \* the SDK's list of chats, then those still to visit: [id, title]
    deleting,  \* the object whose deletion is under way: [id, kind], or {}
    sent,      \* objects with a delete request on its way
    pc,
    report,    \* [id, verified, error] per match
    errors

mvars == <<asked, options, world, had, listing, deleting, sent, pc, report, errors>>

\* The words are abstract: "mark" is in test artifacts, "plain" in any other
\* text; "blank" is the empty string, "codex" the default marker.
Words == {"mark", "plain"}
Asked == [markers : {{"blank"}, {"blank", "mark"}},
          target : {"all", "chats", "scheduled"}, turns : BOOLEAN, dry : BOOLEAN]
Action == "action"                     \* the one scheduled action
Objects == Chats \cup {Action}

-----------------------------------------------------------------------------
SplitKeepingBlanks(markers) == IF markers = {} THEN {"codex"} ELSE markers   \* mutant
Split(markers) ==
    LET given == markers \ {"blank"}
    IN  IF given = {} THEN {"codex"} ELSE given
\* A marker is sought as a substring: the empty one is in every text.
Hits(words) == \E m \in options : m = "blank" \/ m \in words

Wants(kind) == asked.target \in {"all", kind}
Object == [here : {TRUE}, title : Words, turn : Words]
Listed(chats) == [i \in DOMAIN chats |-> [id |-> chats[i], title |-> world[chats[i]].title]]

\* Until "start" is left the call has not begun: the world is what it was when
\* the SDK fetched its list, and changes while nothing fetches it again.
Init ==
    /\ asked \in Asked /\ options = {}
    /\ world \in [Objects -> Object]
    /\ had = [x \in Objects |-> {world[x].title, world[x].turn}]
    /\ IF Wants("chats")
       THEN \E n \in 0..Cardinality(Chats) : \E chats \in Injection(1..n, Chats) :
              listing = Listed(chats)
       ELSE listing = <<>>
    /\ deleting = {} /\ sent = {}
    /\ pc = "start" /\ report = {} /\ errors = {}

\* A user gives an object another title.
Edit(x) ==
    /\ pc # "end" /\ world[x].here
    /\ \E w \in Words :
         /\ w # world[x].title
         /\ world' = [world EXCEPT ![x].title = w]
    /\ had' = [had EXCEPT ![x] = @ \cup {world'[x].title}]
    /\ UNCHANGED <<asked, options, listing, deleting, sent, pc, report, errors>>

-----------------------------------------------------------------------------
\* cleanup_test_artifacts_payload(): list_chats() of the SDK asks nobody, it
\* returns what was fetched before; the call cuts it at its limit.
Recalled(x) == {row.title : row \in {r \in Range(listing) : r.id = x}}
Begin ==
    /\ pc = "start"
    /\ options' = Split(asked.markers)
    /\ listing' = SubSeq(listing, 1, IF Len(listing) < MaxChats THEN Len(listing) ELSE MaxChats)
    /\ had' = [x \in Objects |-> {world[x].title, world[x].turn} \cup Recalled(x)]
    /\ pc' = IF Wants("chats") THEN "chats" ELSE "scheduled"
    /\ UNCHANGED <<asked, world, deleting, sent, report, errors>>

\* A match is reported, and deleted unless this is a dry run.
Match(id, next) ==
    IF asked.dry
    THEN /\ report' = report \cup {[id |-> id, verified |-> FALSE]}
         /\ pc' = next /\ UNCHANGED <<deleting, sent>>
    ELSE /\ deleting' = {[id |-> id, next |-> next]}
         /\ sent' = sent \cup {id}
         /\ pc' = "deleting" /\ UNCHANGED report
NoMatch == UNCHANGED <<deleting, sent, report>>

\* One chat: the title it was listed with, and on request its turns now; a chat
\* whose turns cannot be read is an error, and matches by its title only.
Visit ==
    /\ pc = "chats" /\ listing # <<>>
    /\ LET chat == Head(listing)
       IN  \E read \in IF asked.turns THEN BOOLEAN ELSE {FALSE} :
             /\ IF Hits({chat.title}) \/ (read /\ world[chat.id].here /\ Hits({world[chat.id].turn}))
                THEN Match(chat.id, "chats")
                ELSE NoMatch /\ UNCHANGED pc
             /\ errors' = IF asked.turns /\ ~read THEN errors \cup {chat.id} ELSE errors
    /\ listing' = Tail(listing)
    /\ UNCHANGED <<asked, options, world, had>>

ChatsDone ==
    /\ pc = "chats" /\ listing = <<>>
    /\ pc' = IF Wants("scheduled") THEN "scheduled" ELSE "end"
    /\ UNCHANGED <<asked, options, world, had, listing, deleting, sent, report, errors>>

\* The registry of actions is read as a whole; without it there is no match.
Scheduled ==
    /\ pc = "scheduled"
    /\ \/ /\ IF world[Action].here /\ Hits({world[Action].title, world[Action].turn})
             THEN Match(Action, "end") ELSE pc' = "end" /\ NoMatch
          /\ UNCHANGED errors
       \/ errors' = errors \cup {Action} /\ pc' = "end" /\ NoMatch
    /\ UNCHANGED <<asked, options, world, had, listing>>

\* delete_chat_result() and delete_action(): the request may arrive or not,
\* also after the call has given up on it; only a read-back verifies it.
Arrive(x) ==
    /\ x \in sent /\ sent' = sent \ {x}
    /\ world' = [world EXCEPT ![x].here = FALSE]
    /\ UNCHANGED <<asked, options, had, listing, deleting, pc, report, errors>>

Concluded ==
    /\ pc = "deleting"
    /\ \E d \in deleting, verified \in BOOLEAN :
         /\ verified => ~world[d.id].here
         /\ report' = report \cup {[id |-> d.id, verified |-> verified]}
         /\ pc' = d.next
    /\ deleting' = {}
    /\ UNCHANGED <<asked, options, world, had, listing, sent, errors>>

Next ==
    \/ (\E x \in Objects : Edit(x))
    \/ (\E x \in Objects : Arrive(x))
    \/ Begin \/ Visit \/ ChatsDone \/ Scheduled \/ Concluded
Spec == Init /\ [][Next]_mvars

-----------------------------------------------------------------------------
\* Nothing is deleted in a dry run, nor what has not had one of the markers
\* that the caller gave, or the default, in its text during the call or in the
\* title that the SDK had listed it with.
OnlyMarked ==
    \A x \in Objects : ~world[x].here => ~asked.dry /\ "mark" \in had[x] /\ "mark" \in asked.markers

\* What the report calls deleted is gone; what is gone is in the report, and
\* what the call could not examine is among its errors.
ReportIsTrue ==
    /\ \A r \in report : r.verified => ~world[r.id].here
    /\ pc = "end" => \A x \in Objects : ~world[x].here => \E r \in report : r.id = x

-----------------------------------------------------------------------------
(* The inductive invariant of the safety properties *)

Places == {"start", "chats", "scheduled", "deleting", "end"}
Typed ==
    /\ asked \in Asked /\ options \subseteq {"codex", "mark"}
    /\ world \in [Objects -> [here : BOOLEAN, title : Words, turn : Words]]
    /\ had \in [Objects -> SUBSET Words]
    /\ listing \in Seq([id : Chats, title : Words])
    /\ deleting \subseteq [id : Objects, next : Places \ {"deleting", "start"}]
    /\ sent \subseteq Objects /\ pc \in Places
    /\ report \subseteq [id : Objects, verified : BOOLEAN]

\* What the call looks at, the texts had at some time of it or in the list.
Read ==
    /\ "mark" \in options => "mark" \in asked.markers
    /\ \A x \in Objects : {world[x].title, world[x].turn} \subseteq had[x]
    /\ \A i \in DOMAIN listing : listing[i].title \in had[listing[i].id]

\* A request is sent only for what matched, and its object is in the report or
\* about to be.
Targets == {d.id : d \in deleting}
Attempted(x) == x \in sent \/ ~world[x].here
Meant ==
    /\ pc = "deleting" <=> deleting # {}
    /\ pc = "start" => report = {} /\ \A x \in Objects : ~Attempted(x)
    /\ \A d, e \in deleting : d = e
    /\ \A x \in Objects : Attempted(x) \/ x \in Targets =>
         ~asked.dry /\ "mark" \in had[x] /\ "mark" \in asked.markers
    /\ \A x \in Objects : Attempted(x) => x \in Targets \/ \E r \in report : r.id = x

Inv == Typed /\ Read /\ Meant /\ OnlyMarked /\ ReportIsTrue
=============================================================================
