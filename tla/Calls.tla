-------------------------------- MODULE Calls --------------------------------
(***************************************************************************)
(* The components whose state lives as long as a call or a process, side   *)
(* by side: they share nothing, so a behaviour here is a behaviour of one  *)
(* of them, named by `part', whose variables are kept in the cells c1...   *)
(***************************************************************************)
EXTENDS Naturals, Sequences, FiniteSets

\* Who takes part, what they handle, and the bounds; each component says what
\* its own are.
CONSTANTS
    Tasks, Updaters, Requests, Readers, Accounts, Chats, Answer, None,
    NChats, PageMin, PageMax, MaxPages, MaxTarget, ReadBackTarget, Limit, MaxChanges,
    MaxRecoveries, MaxIndex, MaxFrames, Configured, MaxMessages, MaxEdits, Identities,
    Listings, MaxDeviations, MaxVersions, CanvasPages, CanvasPageMax, Limits, CreateLimit,
    MaxRuns, MaxRows, MaxChats, MaxCallers, MaxWorkers, MaxDecisions, MaxSwitches, MaxTime

VARIABLES part, c1, c2, c3, c4, c5, c6, c7, c8, c9, c10, c11, c12, c13, c14, c15, c16

cells == <<c1, c2, c3, c4, c5, c6, c7, c8, c9, c10, c11, c12, c13, c14, c15, c16>>
vars == <<part, cells>>

H == INSTANCE History WITH
    stamp <- c1, pin <- c2, title <- c3, sent <- c4, changed <- c5, repeated <- c6,
    goal <- c7, pc <- c8, scan <- c9, items <- c10, more <- c11, reading <- c12,
    shown <- c13, result <- c14
R == INSTANCE Research WITH
    mode <- c1, retain <- c2, upstream <- c3, gone <- c4, posts <- c5, seen <- c6,
    kept <- c7, expired <- c8, followed <- c9, row <- c10, holder <- c11, file <- c12,
    pc <- c13, body <- c14, told <- c15
C == INSTANCE Creation WITH
    media <- c1, retain <- c2, planned <- c3, ready <- c4, gone <- c5, file <- c6,
    vanished <- c7, row <- c8, call <- c9, step <- c10, resp <- c11, obs <- c12,
    todo <- c13, failures <- c14, error <- c15, seen <- c16
F == INSTANCE MediaFiles WITH
    dir <- c1, at <- c2, index <- c3, claim <- c4, kept <- c5
S == INSTANCE ChatSubmission WITH
    request <- c1, phase <- c2, goal <- c3, wire <- c4, owner <- c5, text <- c6,
    known <- c7, last <- c8, mark <- c9, gone <- c10, told <- c11
Q == INSTANCE RequestScope WITH
    MaxFrames <- MaxMessages,
    work <- c1, ctx <- c2, saved <- c3, at <- c4, kwargs <- c5, wire <- c6, default <- c7
W == INSTANCE ProviderWrites WITH
    world <- c1, call <- c2, pc <- c3, before <- c4, id <- c5, inner <- c6, sent <- c7,
    late <- c8, answer <- c9, seen <- c10, edits <- c11, touched <- c12, told <- c13
K == INSTANCE Credentials WITH
    published <- c1, env <- c2, client <- c3, scope <- c4, sessions <- c5, updating <- c6,
    auth <- c7, making <- c8, pc <- c9, mine <- c10, failed <- c11
E == INSTANCE RpcEvidence WITH
    contract <- c1, expected <- c2, truth <- c3, answer <- c4, deviations <- c5, posts <- c6,
    phase <- c7, verdict <- c8

V == INSTANCE Canvas WITH
    MaxPages <- CanvasPages, PageMax <- CanvasPageMax,
    call <- c1, chat <- c2, versions <- c3, posts <- c4, source <- c5, cleanup <- c6,
    retained <- c7, pc <- c8, walk <- c9, file <- c10, told <- c11
P == INSTANCE Receipts WITH
    media <- c1, rows <- c2, pipe <- c3, run <- c4, phase <- c5, mine <- c6,
    payload <- c7, receipt <- c8
M == INSTANCE MarkedSweep WITH
    asked <- c1, options <- c2, world <- c3, had <- c4, listing <- c5, deleting <- c6,
    sent <- c7, pc <- c8, report <- c9, errors <- c10
D == INSTANCE MemoryCleanup WITH
    store <- c1, gen <- c2, clock <- c3, decisions <- c4, remote <- c5, pending <- c6,
    obs <- c7, completed <- c8, inflight <- c9, delayed <- c10, caller <- c11, worker <- c12

\* Threads are of one kind, None stands for none of the values, and a download
\* has a name to try and a request a caller.
ASSUME ValuesAssumption ==
    /\ Updaters \cap Requests = {}
    /\ IsFiniteSet(Accounts) /\ IsFiniteSet(Chats)
    /\ LET cookies == [acct: Accounts, ver: {0, 1}]
       IN None \notin Updaters \cup Requests \cup Accounts
                      \cup cookies \cup [sid: cookies, ts: cookies]
    /\ None \notin Nat /\ None \notin P!Issued
    /\ Answer \in Seq({Answer[i] : i \in DOMAIN Answer})
    /\ Listings \subseteq Seq(Identities) /\ {"any", "unnamed"} \cap Identities = {}
    /\ Configured \in Nat /\ CreateLimit \in Nat /\ Limits \subseteq Nat
    /\ NChats \in Nat /\ MaxTarget \in Nat /\ Limit \in Nat \ {0}
    /\ MaxIndex \in Nat \ {0} /\ MaxCallers \in Nat \ {0}
    /\ MaxChats \in Nat /\ MaxTime \in Nat

Unused(n) ==
    /\ n < 6 => c6 = 0 /\ c7 = 0
    /\ n < 8 => c8 = 0
    /\ n < 9 => c9 = 0 /\ c10 = 0
    /\ n < 11 => c11 = 0
    /\ n < 12 => c12 = 0
    /\ n < 13 => c13 = 0
    /\ n < 14 => c14 = 0
    /\ n < 15 => c15 = 0
    /\ n < 16 => c16 = 0

Init ==
    \/ part = "history" /\ H!Init /\ Unused(14)
    \/ part = "research" /\ R!Init /\ Unused(15)
    \/ part = "creation" /\ C!Init
    \/ part = "media files" /\ F!Init /\ Unused(5)
    \/ part = "chat" /\ S!Init /\ Unused(11)
    \/ part = "request" /\ Q!Init /\ Unused(7)
    \/ part = "write" /\ W!Init /\ Unused(13)
    \/ part = "credentials" /\ K!Init /\ Unused(11)
    \/ part = "answer" /\ E!Init /\ Unused(8)
    \/ part = "canvas" /\ V!Init /\ Unused(11)
    \/ part = "onboarding" /\ P!Init /\ Unused(8)
    \/ part = "sweep" /\ M!Init /\ Unused(10)
    \/ part = "memory" /\ D!Init /\ Unused(12)

Next ==
    /\ UNCHANGED part
    /\ \/ part = "history" /\ H!Next /\ UNCHANGED <<c15, c16>>
       \/ part = "research" /\ R!Next /\ UNCHANGED c16
       \/ part = "creation" /\ C!Next
       \/ part = "media files" /\ F!Next
             /\ UNCHANGED <<c6, c7, c8, c9, c10, c11, c12, c13, c14, c15, c16>>
       \/ part = "chat" /\ S!Next /\ UNCHANGED <<c12, c13, c14, c15, c16>>
       \/ part = "request" /\ Q!Next
             /\ UNCHANGED <<c8, c9, c10, c11, c12, c13, c14, c15, c16>>
       \/ part = "write" /\ W!Next /\ UNCHANGED <<c14, c15, c16>>
       \/ part = "credentials" /\ K!Next /\ UNCHANGED <<c12, c13, c14, c15, c16>>
       \/ part = "answer" /\ E!Next
             /\ UNCHANGED <<c9, c10, c11, c12, c13, c14, c15, c16>>
       \/ part = "canvas" /\ V!Next /\ UNCHANGED <<c12, c13, c14, c15, c16>>
       \/ part = "onboarding" /\ P!Next
             /\ UNCHANGED <<c9, c10, c11, c12, c13, c14, c15, c16>>
       \/ part = "sweep" /\ M!Next
             /\ UNCHANGED <<c11, c12, c13, c14, c15, c16>>
       \/ part = "memory" /\ D!Next /\ UNCHANGED <<c13, c14, c15, c16>>

(* The fairness of Research, the one part that must come to an end. *)
Fairness == \A step \in {"owner", "clock"} :
    WF_vars(part = "research" /\ UNCHANGED <<part, c16>>
            /\ IF step = "owner" THEN R!OwnerStep ELSE R!Expire)

Spec == Init /\ [][Next]_vars /\ Fairness

-----------------------------------------------------------------------------
\* What a history call reports is true: a deletion is verified only if the
\* chat is gone, or the user moved it while the listings were read
\* (history.py:633); an update only if the chat has all the requested fields,
\* unless the user changed it again; a walk over the list without a warning
\* has shown every chat; a content search without a gap has matched what
\* holds the text; a client that follows next_offset comes to an end.
HistoryIsTrue ==
    /\ [](part = "history" =>
            H!AbsenceIsTrue /\ H!UpdateIsTrue /\ H!WalkShowsAll /\ H!SearchMissesNothing)
    /\ [][part = "history" => H!Progresses]_vars

\* A research prompt is posted at most once per operation (research.py:926),
\* and its report is not lost: the chat it came from is recorded and retained, and
\* deleted only when the report is in a file the row knows of (research.py:331,
\* 497); who is told "completed" finds it so in the row; a saved report is
\* never replaced by another (research.py:300).
ReportIsSafe ==
    /\ [](part = "research" =>
            /\ R!SubmittedOnce /\ R!ReportBeforeDisposal
            /\ R!CompletedHasReport /\ R!SourceIsKept)
    /\ [][part = "research" => R!KeepsReport]_vars

\* The owner of a research ends by its deadline, whatever the provider does.
OwnerEnds == part = "research" ~> part = "research" /\ R!OwnerEnded

\* Generated media is not lost: a source chat is deleted only when every
\* output that any reply listed is in a verified file and, of a durable
\* operation, recorded; a recovery deletes the source only for an output it
\* holds (creation.py:271); a completed operation has all its outputs; a
\* recorded file that is still there is not lost to a later observation.
OutputIsSafe ==
    /\ [](part = "creation" =>
            C!OutputBeforeDisposal /\ C!RecoveryHoldsOutput /\ C!CompletedIsWhole)
    /\ [][part = "creation" => C!KeepsGoodFiles]_vars

\* What a finished download returned is its own file, still there, and
\* finished downloads leave neither reservations nor partial files behind.
DownloadsAreKept == part = "media files" => F!ReturnedIsThere /\ F!NothingLeftBehind

\* What is collected from the frames is what was sent, nothing twice
\* (streams.py); a chat the call has seen is registered when it ends, whatever
\* ended it, and the chat of a Task is deleted only after the Task has ended.
RepliesAreAccounted ==
    part = "chat" => S!CollectedOnce /\ S!SeenIsRegistered /\ S!TaskOutlivesReply

\* Every submission carries what its caller asked for and nothing of another
\* request's, what creates something is posted at most once, and no request
\* leaves its selectors or its time limit behind (thinking_client.py:413).
RequestsAreScoped ==
    part = "request" =>
        Q!WireMatches /\ Q!OnceNotRepeated /\ Q!DefaultKept /\ Q!ContextRestored

\* A verdict on a change in the account is true: "verified" was read back or
\* somebody changed it since, "not sent" never reached the provider, a request
\* goes out once, and nothing but its target is changed (account_facade.py:64).
WritesAreTrue ==
    part = "write" =>
        W!VerifiedIsTrue /\ W!RefusedIsSilent /\ W!SentOnce /\ W!RestUntouched

\* No client holds cookies of two accounts, no session is filed under another
\* account than its chat's, with nobody at work all follow the published
\* cookies, and the profile is the one asked for (client_wrapper.py:487).
CredentialsStayTogether ==
    part = "credentials" => K!NothingMixed /\ K!AllFollow /\ K!ProfileIsRespected

\* Only a whole, single, unrejected answer in the expected shape is taken for a
\* listing, a record or an absence, whichever service reads it, but that an
\* empty string is an absence where no shape is known (rpc_parsers.py:972, 980)
\* and a chat's turns whose content is missing are left out of its listings
\* (rpc_parsers.py:997, 1155); a request of a mutation contract is posted once
\* (rpc_parsers.py:394, rpc_contracts.py:931, account.py:24).
AnswersAreEvidence ==
    part = "answer" =>
        E!EvidenceIsWhole /\ E!EmptyIsSaid /\ E!ReadingsAgree /\ E!ChangesOnce

\* A chat that Canvas content was asked in is kept, whatever becomes of the
\* request (canvas.py:130-135); a listing that calls itself complete is; an
\* export never replaces a file.
CanvasIsTrue ==
    /\ [](part = "canvas" => V!SourceIsRetained /\ V!ListingIsWhole /\ V!ExportIsNew)
    /\ [][part = "canvas" => V!KeepsFiles]_vars

\* A user who does as the receipts say gets one generation, can always get
\* back to it, and is told "ok" only of files that were verified.
ReceiptsLeadBack ==
    part = "onboarding" =>
        P!OneGeneration /\ P!LeadsBack /\ P!OkIsVerified /\ P!UnattemptedIsQuiet

\* What is deleted was meant to be.  Cleaning up after tests deletes nothing in
\* a dry run and nothing that had no marker in its text during the call or in
\* the title of the SDK's older list, and its report is true (cleanup.py:145).
\* A chat of which only the memory of one process knows is deleted once at a
\* time, under the account it was decided for, and called deleted only when it
\* is gone; a retain is undone only by a decision, a switch or a deletion that
\* was on its way or that named the chat; without a decision it is queued only
\* when a deletion failed or was given up; work that an account switch left
\* behind touches nothing of the new account
\* (remote_chat_cleanup_manager.py:310, 630, 692, 868).
DeletionsAreMeant ==
    /\ [](part = "sweep" => M!OnlyMarked /\ M!ReportIsTrue)
    /\ [](part = "memory" => D!OneDeletion /\ D!GoneIsGone /\ D!OwnAccount)
    /\ [][part = "memory" => D!RetainedIsLeft /\ D!QueuedForCause /\ D!OldIsSilent]_vars
=============================================================================
