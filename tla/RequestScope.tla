---------------------------- MODULE RequestScope ----------------------------
(***************************************************************************)
(* What one generation request asks of the web client (thinking_client.py, *)
(* infrastructure/web_request_contracts.py).  Selectors, the request's     *)
(* time limit and the ban on repeated submissions live in context          *)
(* variables, which scopes set and reset; the client itself, its default   *)
(* time limit and its transport are shared by all requests.  The SDK may   *)
(* reconnect the client, and post a request again, from inside a request.  *)
(***************************************************************************)
EXTENDS Naturals, Sequences

CONSTANTS
    Requests,   \* requests running at the same time
    Configured, \* the client's default time limit
    MaxFrames   \* bound: frames of one answer

VARIABLES
    work,      \* what each request is: the scopes around it, its arguments
    ctx,       \* its context variables
    saved,     \* the values its scopes will restore
    at,
    kwargs,    \* "current_retry" among the SDK call's arguments, and the frames so far
    wire,      \* the options of every submission it made
    default    \* the client's default time limit

qvars == <<work, ctx, saved, at, kwargs, wire, default>>

Plain == [thinking |-> 0, companion |-> FALSE, tool |-> FALSE, media |-> FALSE,
          task |-> FALSE, attached |-> FALSE]
NoArguments == [thinking |-> 0, learning |-> "none", tool |-> FALSE, media |-> FALSE,
                task |-> FALSE, attached |-> FALSE]
NoScope == [web |-> Plain, timeout |-> 0, once |-> FALSE, initializing |-> FALSE]

(* The callers: research asks for thinking around the SDK's own helpers, a *)
(* session for a Task around its send, a chat for anything in its          *)
(* arguments, an edit for the canvas, media generation for a longer time,  *)
(* a file analysis for thinking alone.                                     *)
ChatArguments ==
    {a \in [thinking: 1..2, learning: {"none", "companion", "guided"}, tool: {FALSE},
            media: {FALSE}, task: BOOLEAN, attached: BOOLEAN] :
        a.task => a.learning = "none"}
Works ==
    [kind: {"research"}, args: {NoArguments}]
    \cup [kind: {"chat"}, args: ChatArguments]
    \cup [kind: {"task session"}, args: {[NoArguments EXCEPT !.thinking = 1]}]
    \cup [kind: {"canvas"}, args: {[NoArguments EXCEPT !.thinking = 1, !.tool = TRUE]}]
    \cup [kind: {"media"}, args: {[NoArguments EXCEPT !.media = TRUE],
                                  [NoArguments EXCEPT !.media = TRUE, !.thinking = 1]}]
    \cup [kind: {"file analysis"}, args: {[NoArguments EXCEPT !.thinking = 1]}]

Init ==
    /\ work \in [Requests -> Works]
    /\ ctx = [q \in Requests |-> NoScope]
    /\ saved = [q \in Requests |-> <<>>]
    /\ at = [q \in Requests |-> "enter"]
    /\ kwargs = [q \in Requests |-> [retry |-> TRUE, frames |-> 0]]
    /\ wire = [q \in Requests |-> <<>>]
    /\ default = Configured

Go(q, place) == at' = [at EXCEPT ![q] = place]
Pushed(q, new) ==
    /\ saved' = [saved EXCEPT ![q] = Append(@, ctx[q])]
    /\ ctx' = [ctx EXCEPT ![q] = new]

-----------------------------------------------------------------------------
(* _set_web_request *)

Thinks(a) == a.thinking # 0 \/ a.learning # "none"
Fresh(a) == [Plain EXCEPT !.thinking = a.thinking, !.companion = (a.learning = "companion"),
                          !.tool = (a.learning = "guided")]
(* mutant: any argument replaces what the scope asked for *)
SelectedAfresh(a, existing) ==
    [Fresh(a) EXCEPT !.media = a.media, !.task = a.task, !.tool = @ \/ a.tool, !.attached = a.attached]
Selected(a, existing) ==
    IF a = NoArguments THEN existing
    ELSE LET base == IF ~Thinks(a) /\ (a.media \/ a.task) /\ existing # Plain
                     THEN existing ELSE Fresh(a) IN
         [base EXCEPT !.media = a.media \/ existing.media, !.task = a.task \/ existing.task,
                      !.tool = @ \/ a.tool, !.attached = @ \/ a.attached]

Excluded(a, o) ==
    \/ a.tool /\ a.learning # "none"
    \/ o.task /\ (o.media \/ o.companion \/ o.tool)
    \/ o.media /\ o.companion
    \/ o.tool /\ (o.media \/ o.companion)

ScopeArguments(kind) ==
    CASE kind = "research" -> [NoArguments EXCEPT !.thinking = 2]
      [] kind = "task session" -> [NoArguments EXCEPT !.task = TRUE]
      [] OTHER -> NoArguments

(* thinking_scope, task_scope, client_request_timeout and                  *)
(* client_generation_once, entered by the workflow around its request.     *)
Enter(q) ==
    /\ at[q] = "enter"
    /\ Pushed(q, [ctx[q] EXCEPT
           !.web = Selected(ScopeArguments(work[q].kind), @),
           !.timeout = IF work[q].kind = "media" THEN Configured + 1 ELSE @,
           !.once = work[q].kind \in {"research", "chat", "task session", "canvas"}])
    /\ Go(q, "generate")
    /\ UNCHANGED <<work, kwargs, wire, default>>

Once(q, o) == ctx[q].once \/ o.media \/ o.task \/ o.tool \/ o.attached

(* generate_content, generate_content_stream: the options of this request, *)
(* and whether the SDK may submit it again.                                *)
Generate(q) ==
    LET o == Selected(work[q].args, ctx[q].web) IN
    /\ at[q] = "generate"
    /\ IF Excluded(work[q].args, o)
       THEN Go(q, "leave") /\ UNCHANGED <<ctx, saved, kwargs>>
       ELSE /\ Pushed(q, [ctx[q] EXCEPT !.web = o])
            /\ kwargs' = [kwargs EXCEPT ![q].retry = ~Once(q, o)]
            /\ Go(q, "call")
    /\ UNCHANGED <<work, wire, default>>

-----------------------------------------------------------------------------
(* The SDK finds the client closed and initializes it from the request,    *)
(* passing on the time limit it reads from the client.                     *)

Timeout(q) == IF ctx[q].timeout > default THEN ctx[q].timeout ELSE default

Reconnect(q) ==
    /\ at[q] = "call" /\ wire[q] = <<>>
    /\ IF ctx[q].timeout # 0
       THEN Pushed(q, [ctx[q] EXCEPT !.timeout = 0, !.initializing = TRUE])
       ELSE Pushed(q, ctx[q])
    /\ Go(q, "initialize")
    /\ UNCHANGED <<work, kwargs, wire, default>>

SetsDefault(q) == IF ctx[q].initializing THEN default ELSE Timeout(q)

(* The SDK's init assigns the limit it was given, and ends or fails. *)
Initialize(q) ==
    /\ at[q] = "initialize"
    /\ default' = SetsDefault(q)
    /\ ctx' = [ctx EXCEPT ![q] = saved[q][Len(saved[q])]]
    /\ saved' = [saved EXCEPT ![q] = SubSeq(@, 1, Len(@) - 1)]
    /\ \E ok \in BOOLEAN : Go(q, IF ok THEN "send" ELSE "reset")
    /\ UNCHANGED <<work, kwargs, wire>>

-----------------------------------------------------------------------------
(* The transport *)

Closed(o) == o.task \/ o.media \/ o.tool \/ o.attached \/ o.thinking # 0

(* stream_with_thinking, inject_web_request_options: the selectors are     *)
(* written into the SDK's payload.  A payload of another shape, or a retry *)
(* control that the SDK left alone, is refused before anything is sent;    *)
(* only a companion learning mode by itself goes out without its fields.   *)
Refused(q, known, consumed) ==
    \/ ~consumed /\ ~kwargs[q].retry
    \/ ~known /\ Closed(ctx[q].web)

Send(q) ==
    LET o == ctx[q].web IN
    /\ at[q] \in {"call", "send"}
    /\ \E known, consumed \in BOOLEAN :
          IF Refused(q, known, consumed)
          THEN Go(q, "reset") /\ UNCHANGED wire
          ELSE /\ wire' = [wire EXCEPT ![q] = Append(@, IF known THEN o ELSE Plain)]
               /\ Go(q, "answer")
    /\ UNCHANGED <<work, ctx, saved, kwargs, default>>

(* The answer is lost or cannot be parsed: the SDK posts the request again *)
(* if it may (once, here), and reports an error otherwise.                 *)
Uncertain(q) ==
    /\ at[q] = "answer"
    /\ Go(q, IF kwargs[q].retry /\ Len(wire[q]) < 2 THEN "send" ELSE "reset")
    /\ UNCHANGED <<work, ctx, saved, kwargs, wire, default>>

(* A frame: the consumer of a stream runs with the request's context. *)
Frame(q) ==
    /\ at[q] = "answer" /\ kwargs[q].frames < MaxFrames
    /\ kwargs' = [kwargs EXCEPT ![q].frames = @ + 1]
    /\ UNCHANGED <<work, ctx, saved, at, wire, default>>

Pop(q, place) ==
    /\ ctx' = [ctx EXCEPT ![q] = saved[q][Len(saved[q])]]
    /\ saved' = [saved EXCEPT ![q] = SubSeq(@, 1, Len(@) - 1)]
    /\ Go(q, place)
    /\ UNCHANGED <<work, kwargs, wire, default>>

(* The finally of generate_content, after a reply, an error or a           *)
(* cancellation; then those of the scopes.                                 *)
Reset(q) == at[q] \in {"call", "answer", "reset"} /\ Pop(q, "leave")
Leave(q) == at[q] = "leave" /\ Pop(q, "done")

Next ==
    \E q \in Requests :
        \/ Enter(q) \/ Generate(q) \/ Reconnect(q) \/ Initialize(q)
        \/ Send(q) \/ Uncertain(q) \/ Frame(q) \/ Reset(q) \/ Leave(q)

Spec == Init /\ [][Next]_qvars

-----------------------------------------------------------------------------
(* What the caller wants: its arguments on top of what its scope asks for. *)
Wanted(w) ==
    LET a == w.args   s == ScopeArguments(w.kind) IN
    [thinking |-> IF a.thinking # 0 THEN a.thinking ELSE s.thinking,
     companion |-> a.learning = "companion", tool |-> a.tool \/ a.learning = "guided",
     media |-> a.media, task |-> a.task \/ s.task, attached |-> a.attached]

(* Every submission carries what its caller asked for, neither less nor    *)
(* something of another request's.                                         *)
WireMatches ==
    \A q \in Requests : \A i \in DOMAIN wire[q] :
        wire[q][i] = Wanted(work[q])

(* "A parse/API failure must not duplicate creation": whatever creates     *)
(* something, or runs in a generation-once scope, is posted at most once.  *)
OnceNotRepeated ==
    \A q \in Requests : work[q].kind # "file analysis" => Len(wire[q]) <= 1

(* "Keep request overrides out of the singleton defaults": no request      *)
(* leaves its time limit behind in the client (thinking_client.py:413).    *)
DefaultKept == default = Configured

(* A request that is over has restored the context it was called in.       *)
ContextRestored ==
    \A q \in Requests : at[q] = "done" => ctx[q] = NoScope
=============================================================================
