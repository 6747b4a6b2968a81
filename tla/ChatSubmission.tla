--------------------------- MODULE ChatSubmission ---------------------------
(***************************************************************************)
(* One chat request without a local session (services/chat.py generate and *)
(* generate_stream, streams.py, tasks.py, and the owned chat session of    *)
(* thinking_client.py).  The prompt is posted once into a chat the request *)
(* owns; its frames name the chat and bring the answer as deltas, as the   *)
(* text so far, or as both, some of them lost or repeated; the call ends   *)
(* with a reply, an error or a cancellation, and has decided by then       *)
(* whether the chat is kept.  A native Task works on after its reply.      *)
(***************************************************************************)
EXTENDS Integers, Sequences, SequencesExt

CONSTANTS Answer,      \* the text the provider will send
          MaxFrames    \* bound: frames of one reply

VARIABLES
    request,   \* task and stream mode, owned session, the caller's retention
    phase,     \* "start", "posted", "reading", "scheduling", "ended"
    goal,      \* the provider's Task: "none", "running" or a final status
    wire,      \* what has been sent: characters of the answer, frames
    owner,     \* the chat's ID in the owned session: the SDK's and the observed
    text,      \* what the accumulator has collected
    known,     \* some collected response names the chat
    last,      \* length of the answer the last frame stood for
    mark,      \* the cleanup manager's decision for the chat
    gone, told

chvars == <<request, phase, goal, wire, owner, text, known, last, mark, gone, told>>

ChatRequests == [task: BOOLEAN, stream: BOOLEAN, owned: BOOLEAN, retain: BOOLEAN]
FinalGoals == {"goal_completed", "goal_failed", "goal_cancelled"}

Init ==
    /\ request \in ChatRequests
    /\ phase = "start" /\ goal = "none"
    /\ wire = [chars |-> 0, frames |-> 0]
    /\ owner = [sdk |-> FALSE, observed |-> FALSE]
    /\ text = <<>> /\ known = FALSE /\ last = 0
    /\ mark = "none" /\ gone = FALSE /\ told = "nothing"

(* _retain_source: the chat is registered, not to be deleted. *)
Retained(seen) == IF seen THEN "retain" ELSE mark

-----------------------------------------------------------------------------
(* StreamTextAccumulator: a frame is a delta, the text so far, or both *)

(* mutant: a labelled delta is appended whatever the full text says *)
ExplicitDeltaBlind(delta, full) == delta
ExplicitDelta(delta, full) ==
    LET rest == SubSeq(full, Len(text) + 1, Len(full)) IN
    IF full # <<>> /\ full = text /\ full # delta THEN <<>>
    ELSE IF IsPrefix(text, full) /\ rest # <<>> THEN rest
    ELSE delta

UnlabelledText(value) ==
    IF IsPrefix(text, value) THEN SubSeq(value, Len(text) + 1, Len(value))
    ELSE IF IsPrefix(value, text) THEN <<>>
    ELSE value

Piece(frame) ==
    IF frame.delta # <<>> THEN ExplicitDelta(frame.delta, frame.full)
    ELSE UnlabelledText(frame.full)

(* The frames the SDK makes of the provider's: the text so far, with what  *)
(* is new since the frame before it; the same text again, without news or, *)
(* once there was more than one, with the old ones; an older text; and a   *)
(* delta alone, when nothing was lost.                                     *)
Upto(n) == SubSeq(Answer, 1, n)
Frames(n) ==
    {[delta |-> SubSeq(Answer, wire.chars + 1, n), full |-> Upto(n), of |-> n],
     [delta |-> <<>>, full |-> Upto(n), of |-> n]}
    \cup (IF wire.chars = last /\ n > last
          THEN {[delta |-> SubSeq(Answer, last + 1, n), full |-> <<>>, of |-> n]} ELSE {})
    \cup (IF n = wire.chars /\ n = last /\ n > 1
          THEN {[delta |-> SubSeq(Answer, n, n), full |-> Upto(n), of |-> n],
                [delta |-> <<>>, full |-> Upto(n - 1), of |-> n]} ELSE {})

-----------------------------------------------------------------------------
(* A client that cannot own a chat refuses a Task before anything is sent. *)
Refuse ==
    /\ phase = "start" /\ request.task /\ ~request.owned
    /\ phase' = "ended" /\ told' = "refused"
    /\ UNCHANGED <<request, goal, wire, owner, text, known, last, mark, gone>>

(* client_generation_once: one submission, never repeated by the SDK. *)
Post ==
    /\ phase = "start" /\ (request.task => request.owned)
    /\ phase' = "posted"
    /\ goal' = IF request.task THEN "running" ELSE "none"
    /\ UNCHANGED <<request, wire, owner, text, known, last, mark, gone, told>>

Observe == Retained(request.owned)

(* Metadata reaches the owned session before the frame's text: it is       *)
(* observed, and the source retained, at once.                             *)
Metadata ==
    /\ phase = "posted" /\ request.owned /\ ~owner.sdk
    /\ owner' = [sdk |-> TRUE, observed |-> TRUE]
    /\ mark' = Observe
    /\ UNCHANGED <<request, phase, goal, wire, text, known, last, gone, told>>

Frame ==
    /\ phase = "posted" /\ request.stream /\ wire.frames < MaxFrames
    /\ request.owned => owner.sdk
    /\ \E n \in wire.chars..Len(Answer) :
          /\ wire' = [chars |-> n, frames |-> wire.frames + 1]
          /\ \/ UNCHANGED <<text, known, last>>   \* lost on the way
             \/ \E frame \in Frames(n) :
                   /\ text' = text \o Piece(frame)
                   /\ last' = frame.of
                   /\ known' = TRUE
    /\ UNCHANGED <<request, phase, goal, owner, mark, gone, told>>

(* The chat the call knows of: what the owned session has observed, even   *)
(* if the SDK has rolled its metadata back, or a response names.           *)
Source == owner.observed \/ known

FailureSource == Retained(Source)

(* The stream breaks, or the request fails: the SDK rolls its session      *)
(* back, the prompt is not posted again, the source is retained.           *)
Fail(outcome) ==
    /\ phase = "posted"
    /\ owner' = [owner EXCEPT !.sdk = FALSE]
    /\ mark' = FailureSource
    /\ phase' = "ended" /\ told' = outcome
    /\ UNCHANGED <<request, goal, wire, text, known, last, gone>>

Replied ==
    /\ phase = "posted" /\ (request.owned => owner.sdk)
    /\ IF request.stream THEN UNCHANGED <<wire, text, known, last>>
       ELSE /\ wire' = [chars |-> Len(Answer), frames |-> 1]
            /\ text' = Answer /\ known' = TRUE /\ last' = Len(Answer)
    /\ phase' = IF request.task THEN "reading" ELSE "scheduling"
    /\ told' = "completed"
    /\ UNCHANGED <<request, goal, owner, mark, gone>>

Unread == "unknown"

(* _read_task: an exact read-back of the goal, or nothing. *)
ReadTask ==
    /\ phase = "reading" /\ phase' = "scheduling"
    /\ told' \in {goal, Unread}
    /\ UNCHANGED <<request, goal, wire, owner, text, known, last, mark, gone>>

Keep == request.retain \/ (request.task /\ told \notin FinalGoals)

(* _generation_success: a chat without a response is not scheduled. *)
Schedule ==
    /\ phase = "scheduling"
    /\ mark' = IF Source /\ (request.task \/ known)
               THEN IF Keep THEN "retain" ELSE "dispose" ELSE mark
    /\ phase' = "ended"
    /\ UNCHANGED <<request, goal, wire, owner, text, known, last, gone, told>>

(* A cancellation in the read-back ends the call where it is. *)
CancelReading ==
    /\ phase = "reading" /\ phase' = "ended" /\ told' = "cancelled"
    /\ UNCHANGED <<request, goal, wire, owner, text, known, last, mark, gone>>

-----------------------------------------------------------------------------
GoalEnds ==
    /\ goal = "running" /\ goal' \in FinalGoals
    /\ UNCHANGED <<request, phase, wire, owner, text, known, last, mark, gone, told>>

Sweep ==
    /\ mark = "dispose" /\ ~gone /\ gone' = TRUE
    /\ UNCHANGED <<request, phase, goal, wire, owner, text, known, last, mark, told>>

Next ==
    \/ Refuse \/ Post \/ Metadata \/ Frame \/ Fail("failed") \/ Fail("cancelled")
    \/ Replied \/ ReadTask \/ Schedule \/ CancelReading \/ GoalEnds \/ Sweep

Spec == Init /\ [][Next]_chvars

-----------------------------------------------------------------------------
(* What is collected is what was sent, up to the last frame that arrived:  *)
(* nothing twice, nothing missing (docs/api-reference.md:128).             *)
CollectedOnce == text = Upto(last)

(* A chat the call has seen is registered when it ends, whatever ended it, *)
(* and what ended in an error is kept (chat.py:430-520).                   *)
SeenIsRegistered ==
    phase = "ended" /\ Source =>
        /\ mark # "none"
        /\ told \in {"failed", "cancelled"} => mark = "retain"

(* The chat of a Task is deleted only after the Task has ended.            *)
TaskOutlivesReply == gone /\ request.task => goal \in FinalGoals

-----------------------------------------------------------------------------
(* The inductive invariant of the safety properties.                       *)

Marks == {"none", "retain", "dispose"}
Typed ==
    /\ request \in ChatRequests
    /\ phase \in {"start", "posted", "reading", "scheduling", "ended"}
    /\ goal \in {"none", "running"} \cup FinalGoals
    /\ wire \in [chars: 0..Len(Answer), frames: Nat]
    /\ owner \in [sdk: BOOLEAN, observed: BOOLEAN]
    /\ known \in BOOLEAN /\ mark \in Marks /\ gone \in BOOLEAN
    /\ last \in 0..Len(Answer)

(* No frame stands for more than was sent. *)
LastByWire == last <= wire.chars

(* What the owned session observes is retained at once, and the call       *)
(* changes its mind only at its end, for a chat whose Task has ended.      *)
MarkByPlace ==
    /\ phase = "start" => ~owner.observed /\ ~known /\ told = "nothing"
    /\ owner.sdk => owner.observed
    /\ owner.observed => mark # "none"
    /\ phase # "ended" => mark # "dispose"
    /\ phase = "posted" /\ request.task => request.owned
    /\ phase = "reading" => request.task /\ owner.observed
    /\ phase = "scheduling" => told \notin {"failed", "cancelled"}
    /\ told \in FinalGoals => goal = told
    /\ gone => mark = "dispose"
    /\ mark = "dispose" => phase = "ended" /\ (request.task => goal \in FinalGoals)

Inv == Typed /\ LastByWire /\ MarkByPlace /\ CollectedOnce /\ SeenIsRegistered
       /\ TaskOutlivesReply
=============================================================================
