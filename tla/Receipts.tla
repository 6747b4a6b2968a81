------------------------------ MODULE Receipts ------------------------------
(***************************************************************************)
(* The command line client (onboarding.py): it starts a server of its own, *)
(* asks for one generation and polls its operation.  A music or video run  *)
(* ends with a receipt, whatever happened, and the user follows its next   *)
(* step: repeat the same start with the same idempotency key, or ask for   *)
(* the operation by its handle.  An image run is one call without receipt. *)
(* All the servers share one state store, which dedupes keys (Operations). *)
(***************************************************************************)
EXTENDS Naturals, Sequences

CONSTANTS None, MaxRuns, MaxRows

VARIABLES
    media,    \* what the user wants
    rows,     \* the operations in the store: [key, life], a handle is an index
    pipe,     \* keys of starts that left a client and no server answered
    run,      \* how many runs the user made; the n-th one would invent key n
    phase,
    mine,     \* the locals of the run
    payload,  \* the answer being looked at, or None
    receipt   \* the last receipt, or None

rvars == <<media, rows, pipe, run, phase, mine, payload, receipt>>

Dead == {"failed", "cancelled"}    \* "expired" and "unavailable" are as final
Init ==
    /\ media \in {"image", "audio", "video"}
    /\ rows = <<>> /\ pipe = {}
    /\ run = 0 /\ phase = "idle"
    /\ mine = None /\ payload = None /\ receipt = None

-----------------------------------------------------------------------------
(* What a client makes of the artifacts in an answer.                      *)

Flaws == {"none", "remote", "unclaimed", "unreadable", "outside"}
Candidates == [kind : {"image", "audio", "video"}, flaw : Flaws]
Outputs == {{}} \cup {{c, [kind |-> "video", flaw |-> "none"]} : c \in Candidates}
           \cup {{c} : c \in Candidates}

\* "music" may come as audio or as a video; remote locators are skipped.
Allowed(kind) == IF kind = "audio" THEN {"audio", "video"} ELSE {kind}
LocalOnes(output) == {c \in output : c.kind \in Allowed(media) /\ c.flaw # "remote"}
Faults == {"unclaimed", "unreadable"} \cup (IF media = "image" THEN {"outside"} ELSE {})
Unfit(output) == \E c \in LocalOnes(output) : c.flaw \in Faults

-----------------------------------------------------------------------------
(* A run.                                                                  *)

\* A handle needs no key; without either, a key is made up.
KeyAfresh(key, handle) == run'         \* mutant: the user's key is not used
Key(key, handle) == IF handle = None /\ key = None THEN run' ELSE key
Begin(key, handle) ==
    /\ phase = "idle" /\ run < MaxRuns
    /\ run' = run + 1
    /\ phase' = "initialize"
    /\ mine' = [key |-> Key(key, handle), handle |-> handle, state |-> "unknown",
                kept |-> {}, attempted |-> FALSE, verified |-> FALSE]
    /\ payload' = None /\ receipt' = None
    /\ UNCHANGED <<media, rows, pipe>>

\* The user does as the last receipt says, and may lose patience with an image.
Run ==
    IF receipt = None THEN Begin(None, None)
    ELSE receipt.status # "ok" /\ Begin(receipt.key, receipt.handle)

\* The deadline covers the whole run, the server's start included.
Status(m) ==
    IF m.state = "completed" THEN "ok" ELSE IF m.state \in Dead THEN "failed" ELSE "pending"
End(m) ==
    /\ phase' = "idle" /\ mine' = None /\ payload' = None
    /\ receipt' = [status |-> Status(m), attempted |-> m.attempted, kept |-> m.kept,
                   key |-> IF media = "image" THEN None ELSE m.key,
                   handle |-> m.handle]

\* An exception: a failed verification is a failure; otherwise what is known
\* of the operation stays, and a handle makes the outcome "partial".
Raised(m) ==
    IF phase = "verification" THEN [m EXCEPT !.state = "failed", !.kept = {}]
    ELSE IF m.verified \/ m.state \in Dead THEN m
    ELSE [m EXCEPT !.state = IF m.handle = None THEN "unknown" ELSE "partial"]
Timed(m) == IF m.verified THEN m ELSE [m EXCEPT !.state = "timed_out"]
Late == phase # "idle" /\ End(Timed(mine)) /\ UNCHANGED <<media, rows, pipe, run>>
Lost == phase # "idle" /\ End(Raised(mine)) /\ UNCHANGED <<media, rows, pipe, run>>

Connect ==
    /\ phase = "initialize"
    /\ IF mine.handle # None
       THEN phase' = "result" /\ UNCHANGED <<mine, pipe>>
       ELSE /\ phase' = "start"
            /\ mine' = [mine EXCEPT !.attempted = TRUE]
            /\ pipe' = pipe \cup {mine.key}
    /\ UNCHANGED <<media, rows, run, payload, receipt>>

\* A server reserves the key, which finds the operation that has it, or
\* refuses; the client may be gone by then.
Reserved(key) == {h \in DOMAIN rows : rows[h].key = key /\ rows[h].life # "pruned"}
Serve(key) ==
    /\ key \in pipe
    /\ pipe' = pipe \ {key}
    /\ \/ /\ Reserved(key) = {} /\ Len(rows) < MaxRows
          /\ rows' = Append(rows, [key |-> key, life |-> "running"])
       \/ Reserved(key) # {} /\ UNCHANGED rows
       \/ UNCHANGED rows
    /\ payload' =
         IF phase # "start" \/ mine.key # key THEN payload
         ELSE [handle |-> IF Reserved(key)' = {} THEN None
                          ELSE CHOOSE h \in Reserved(key)' : TRUE]
    /\ UNCHANGED <<media, run, phase, mine, receipt>>

\* Without a handle the start failed, which raises; a malformed answer does too.
Started ==
    /\ phase = "start" /\ payload # None /\ media # "image"
    /\ LET m == [mine EXCEPT !.handle = payload.handle]
       IN  \/ End(Raised(mine))                                \* no domain result
           \/ payload.handle = None /\ End(Raised([m EXCEPT !.state = "failed"]))
           \/ payload.handle # None /\ End(Raised(m))          \* no known state
           \/ /\ payload.handle # None
              /\ phase' = "result" /\ mine' = [m EXCEPT !.state = "running"]
              /\ payload' = None /\ UNCHANGED receipt
    /\ UNCHANGED <<media, rows, pipe, run>>

\* gemini_get_operation_result: what the row says, the artifacts with it; other
\* credentials, or a pruned row, are errors that end the polling.
Answers(life) ==
    {[ok |-> TRUE, state |-> "completed", fatal |-> FALSE, more |-> FALSE, output |-> o]
        : o \in IF life = "completed" THEN Outputs ELSE {}}
    \cup {[ok |-> TRUE, state |-> "running", fatal |-> FALSE, more |-> TRUE, output |-> o]
        : o \in IF life = "running" THEN {{}, {[kind |-> "video", flaw |-> "none"]}} ELSE {}}
    \cup {[ok |-> FALSE, state |-> s, fatal |-> FALSE, more |-> more, output |-> {}]
        : s \in IF life = "failed" THEN {"failed", "timed_out"} ELSE {}, more \in BOOLEAN}
    \cup {[ok |-> FALSE, state |-> s, fatal |-> TRUE, more |-> FALSE, output |-> {}] : s \in Dead}
Poll ==
    /\ phase = "result"
    /\ \E answer \in Answers(rows[mine.handle].life) :
         \/ /\ payload' = answer
            /\ mine' = [mine EXCEPT !.state = answer.state]
            /\ phase' = "verification"
            /\ UNCHANGED receipt
         \/ End(Raised([mine EXCEPT !.state = answer.state]))  \* not a music or video
    /\ UNCHANGED <<media, rows, pipe, run>>

\* Every local file is verified from its bytes; a completed operation must
\* have one.  A failure that can still be recovered is polled again.
Verify ==
    /\ phase = "verification" /\ payload # None
    /\ LET kept == LocalOnes(payload.output)
           m    == [mine EXCEPT !.kept = kept]
           done == payload.state = "completed"
           bad  == Unfit(payload.output) \/ (done /\ (kept = {} \/ ~payload.ok))
           over == payload.fatal \/ (payload.state \in {"failed", "timed_out"} /\ ~payload.more)
       IN  IF bad THEN End(Raised(mine))
           ELSE /\ mine' = IF done THEN [m EXCEPT !.verified = TRUE] ELSE m
                /\ phase' = IF done \/ over THEN "shutdown" ELSE "result"
                /\ payload' = None /\ UNCHANGED receipt
    /\ UNCHANGED <<media, rows, pipe, run>>

Shutdown == phase = "shutdown" /\ End(mine) /\ UNCHANGED <<media, rows, pipe, run>>

\* run_image(): the answer of the one call, verified the same way.
Image ==
    /\ media = "image" /\ phase = "start" /\ payload # None
    /\ \E output \in Outputs, ok \in BOOLEAN :
         End(IF ok /\ ~Unfit(output) /\ LocalOnes(output) # {}
             THEN [mine EXCEPT !.state = "completed", !.verified = TRUE,
                               !.kept = LocalOnes(output)]
             ELSE [mine EXCEPT !.state = "failed"])
    /\ UNCHANGED <<media, rows, pipe, run>>

-----------------------------------------------------------------------------
\* The operations themselves go on without their clients.
Settle(h) ==
    /\ \/ rows[h].life \in {"running", "failed"} /\ rows' = [rows EXCEPT ![h].life = "completed"]
       \/ rows[h].life = "running" /\ rows' = [rows EXCEPT ![h].life = "failed"]
       \/ rows[h].life # "running" /\ rows' = [rows EXCEPT ![h].life = "pruned"]
    /\ UNCHANGED <<media, pipe, run, phase, mine, payload, receipt>>

Next ==
    \/ (phase = "idle" /\ Run) \/ Connect \/ Started \/ Poll \/ Verify \/ Shutdown
    \/ Image \/ Late \/ Lost
    \/ (\E key \in pipe : Serve(key)) \/ (\E h \in DOMAIN rows : Settle(h))
Spec == Init /\ [][Next]_rvars

-----------------------------------------------------------------------------
Resumable == media # "image"
Pruned == \E h \in DOMAIN rows : rows[h].life = "pruned"

\* "retain a safe recovery receipt even if responses are lost": a user who does
\* as the receipts say has one generation, unless its row was pruned.
OneGeneration == Resumable /\ Len(rows) > 1 => Pruned

\* Whatever was lost, the receipt leads to the operation that was started.
LeadsBack ==
    Resumable /\ receipt # None =>
        /\ \A h \in DOMAIN rows :
             Pruned \/ receipt.handle = h \/ (receipt.handle = None /\ receipt.key = rows[h].key)
        /\ receipt.handle # None => receipt.handle \in DOMAIN rows

\* "ok" means files this client has read itself, never what the server claimed.
OkIsVerified ==
    receipt # None /\ receipt.status = "ok" =>
        /\ receipt.kept # {}
        /\ \A c \in receipt.kept : c.flaw \notin Faults \cup {"remote"}

\* A receipt that says nothing was attempted is right.
UnattemptedIsQuiet ==
    run = 1 /\ receipt # None /\ ~receipt.attempted => rows = <<>> /\ pipe = {}

-----------------------------------------------------------------------------
(* The inductive invariant of the safety properties.                       *)

Phases == {"idle", "initialize", "start", "result", "verification", "shutdown"}
Fates == {"unknown", "running", "completed", "timed_out", "partial"} \cup Dead
Handles == DOMAIN rows \cup {None}
Locals == [key : Nat, handle : Nat \cup {None}, state : Fates, kept : SUBSET Candidates,
           attempted : BOOLEAN, verified : BOOLEAN]
Replies == [handle : Nat \cup {None}]
Results == [ok : BOOLEAN, state : Fates, fatal : BOOLEAN, more : BOOLEAN, output : Outputs]
Issued == [status : {"ok", "failed", "pending"}, attempted : BOOLEAN, kept : SUBSET Candidates,
           key : Nat \cup {None}, handle : Nat \cup {None}]
Typed ==
    /\ media \in {"image", "audio", "video"} /\ run \in Nat /\ phase \in Phases
    /\ rows \in Seq([key : Nat, life : {"running", "completed", "failed", "pruned"}])
    /\ pipe \subseteq Nat
    /\ phase # "idle" => mine \in Locals /\ receipt = None
    /\ phase = "idle" => receipt \in Issued \cup {None}
    /\ phase = "start" => payload \in Replies \cup {None}
    /\ phase = "verification" => payload \in Results
    /\ phase \notin {"start", "verification"} => payload = None

(* A user who does as the receipts say asks with one key for ever: the one *)
(* that the first run made up.                                             *)
OneKey ==
    Resumable =>
        /\ phase # "idle" => mine.key = 1
        /\ receipt # None => receipt.key = 1
        /\ pipe \subseteq {1}
        /\ \A h \in DOMAIN rows : rows[h].key = 1

(* A handle, wherever it is kept, names a row; an image run keeps none. *)
HandlesLead ==
    /\ phase # "idle" => mine.handle \in IF Resumable THEN Handles ELSE {None}
    /\ phase = "start" /\ payload # None => payload.handle \in Handles
    /\ receipt # None => receipt.handle \in IF Resumable THEN Handles ELSE {None}

(* Only files that were verified complete a run. *)
VerifiedByPlace ==
    /\ phase # "idle" /\ mine.verified =>
         /\ phase = "shutdown" /\ mine.state = "completed" /\ mine.kept # {}
         /\ \A c \in mine.kept : c.flaw \notin Faults \cup {"remote"}
    /\ phase = "shutdown" /\ mine.state = "completed" => mine.verified
    /\ phase = "verification" => mine.state = payload.state

(* Nothing is out before the first attempt. *)
QuietByPlace ==
    /\ phase = "idle" /\ receipt = None => run = 0
    /\ run = 0 => phase = "idle" /\ receipt = None /\ rows = <<>> /\ pipe = {}
    /\ run = 1 /\ phase # "idle" /\ ~mine.attempted => rows = <<>> /\ pipe = {}

Inv == Typed /\ OneKey /\ HandlesLead /\ VerifiedByPlace /\ QuietByPlace
       /\ OneGeneration /\ LeadsBack /\ OkIsVerified /\ UnattemptedIsQuiet
=============================================================================
