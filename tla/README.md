# Verification of gemini-web-mcp

TLA+ models of the stateful parts of gemini-web-mcp (`src/src/`), TLC
configurations that check them on small instances, and TLAPS proofs. Paths
below are relative to `src/src/` of the repository unless they start with
`docs/` or `tests/`, which stand for `src/docs/` and `src/tests/`.

## 1. The system

gemini-web-mcp is an MCP server (two tool surfaces, `server.py` and
`skill_server.py`) that drives the private web interface of Gemini. Several
server processes (one per MCP client) share one SQLite state database. A
process has one asyncio event loop for requests and one thread, the cookie
monitor.

| component | state it keeps | operations | interacts with |
|---|---|---|---|
| state store (`infrastructure/state_store.py`) | tables `operations` and `cleanup_jobs`: state, version, lease, expiry | create/upsert, get, update by version and lease, claim, renew, release, prune | every process, by `BEGIN IMMEDIATE` transactions |
| operation service (`services/operations.py`) | background tasks, contexts, heartbeats | start, reserve, execute, observe chat / artifacts / provider operation, status, result (with recovery), cancel | state store; research, video and music runners; artifact service |
| cleanup manager (`remote_chat_cleanup_manager.py`) | bound scope, generation, pending entries, timers, in-flight deletions | bind, schedule, retain, cancel, invalidate, sweep, delete with read-back | state store; history; session lifecycle |
| session manager and lifecycle (`session_manager.py`, `services/lifecycle.py`) | session table, expired list, per-session workflow and send locks | create, look up, send, expire, reset one/all, remove, detach on account change | chat service; cleanup manager; cookie monitor |
| client manager (`client_manager.py`) | current client, initialization task, generation, retirement tasks | get, initialize (shared), reset from the loop or from the monitor | cookie monitor; every request |
| client wrapper (`client_wrapper.py`) | authentication lock, the request's generation | bind the cleanup scope to the credentials, cookie callback | client, cleanup and session managers |
| chat service (`services/chat.py`, `services/streams.py`) | per-call | one-shot generation, session sends, streams, Task read-back | session lifecycle, cleanup manager |
| request scopes (`thinking_client.py`) | context variables of a request, the client's default time limit | set and reset around a generation, inject into the payload | every generation; the SDK |
| history (`services/history.py`, `history_mutations.py`) | none | list, search, export, update, delete with read-back of absence | cleanup manager |
| research, media, creation (`services/research.py`, `media_generation.py`, `creation.py`) | per-call | runners and recoveries of operations | operation service |
| artifacts (`services/artifacts.py`) | files | save, verify, hash | operation service |
| cookie manager (`cookie_manager.py`) | cached cookies, monitor thread | read browsers, keyring, files | client wrapper |
| RPC contracts and parsers (`infrastructure/rpc_*.py`, ...) | none | build and judge undocumented payloads | all provider features |
| provider features (gems, notebooks, scheduled, canvas, skills, sharing, library, account) | per-call | read, one request, one read-back, verdict | RPC contracts |
| test-artifact cleanup (`services/cleanup.py`) | per-call | match chats and scheduled actions by markers, delete, report | history, scheduled actions |
| onboarding client (`onboarding.py`) | the receipt of a run | start an operation, poll, verify, shut down | a server of its own; the state store through it |
| surfaces, manifest, diagnostics | none | argument plumbing, rendering | everything |

What is hard here:

- **Several processes on one row.** An operation or cleanup row is read by one
  process, changed by another, and written by the first. The code guards writes
  with a version, a lease, or both, and each call site chooses which.
- **Leases that lapse under a live worker**, heartbeats that bump the version
  under everybody else's comparison, crashes between a remote effect and the
  row that records it.
- **Callbacks.** The SDK reports chats and provider operations while the call
  runs, after it failed, or after another process took the row over.
- **A provider whose answers prove little.** A delete request may land late or
  never, an acknowledgement proves nothing, only an observed absence does.
- **A second thread.** The cookie monitor replaces the account between any two
  statements of a request.
- **Answers of a changing web application.** Envelopes with several parts, rows
  of another shape, empty bodies: what may be believed, above all about absence.
- **A prompt cannot be taken back.** What creates something is posted at most
  once, while deadlines, recoveries, the SDK and the user all try again.
- **Cancellation.** Requests may be cancelled at any await; shared tasks must
  survive that, and resets cancel tasks others wait for.

What makes each component correct: an operation runs once per idempotency key,
its terminal states are final and true, its files and sources are never lost,
leases come back; a chat is deleted by one process at a time, only while its
deletion is wanted, and "completed" means it is gone; a session's source is
never deleted under a running prompt nor lost, and never handled under another
account; a client is initialized once, published only for its own generation,
and closed once retired; what a call tells its caller ("verified", "absent",
"complete", "saved") is true whatever got lost on the way; and a generated file
or report is on disk and on record before its only other copy may be deleted.

## 2. Modules

| module | models | lines of code behind it |
|---|---|---|
| `Operations` | `services/operations.py` with `OperationRepository`, runners of research and media as far as they touch the row | about 700 |
| `CleanupJobs` | `remote_chat_cleanup_manager.py` with `CleanupRepository` and the delete-and-read-back of `services/history.py` | about 750 |
| `Disposal` | nothing directly: the promise of a cleanup job to its callers, which `CleanupJobs` implements | |
| `Sessions` | `session_manager.py`, `services/lifecycle.py`, the session workflow of `services/chat.py`, the authentication parts of `client_wrapper.py` | about 600 |
| `ClientLifecycle` | `client_manager.py` and the reset half of the cookie callback | about 200 |
| `History` | `services/history.py`, `history_mutations.py` | about 550 |
| `Research` | `services/research.py` and the report part of `tools/research.py` | about 750 |
| `Creation` | `services/creation.py`, `artifacts.py`, media requests of `media_generation.py` | about 1100 |
| `MediaFiles` | file names of downloads in `media_generation.py` | about 120 |
| `ChatSubmission` | one-shot requests and streams of `services/chat.py`, `streams.py`, `tasks.py` | about 550 |
| `RequestScope` | `thinking_client.py`, `infrastructure/web_request_contracts.py` | about 500 |
| `ProviderWrites` | changes by gems, notebooks, native skills, scheduled actions, canvas edits, library, sharing, `account_facade.py` | about 1600 |
| `Credentials` | `cookie_manager.py`, the cookie callback and session filing of `client_wrapper.py` | about 550 |
| `RpcEvidence` | `infrastructure/rpc_parsers.py`, `rpc_contracts.py`, the readers in `account.py`, `notebooks.py`, `scheduled.py` | about 2000 |
| `Canvas` | `services/canvas.py` | about 180 |
| `Receipts` | the media and image commands of `onboarding.py` | about 400 |
| `MarkedSweep` | `services/cleanup.py` | about 200 |
| `MemoryCleanup` | `remote_chat_cleanup_manager.py` for chats without a row | about 400 |
| `Calls` | puts the thirteen modules from `History` to `MemoryCleanup` side by side, for any values of their constants | |
| `OperationsProofs`, `CleanupJobsProofs`, `SessionsProofs`, `ClientLifecycleProofs`, `CredentialsProofs` | theorems about the module each is named after | |
| `CallsProofs` | theorems about `Calls`: downloads, research, receipts, chat replies, evidence, credentials | |
| `CallEffectsProofs` | the same: created media, changes in the account, deletions | |
| `CallReadsProofs` | the same: Canvas content, the history, what requests ask of the client | |
| `OperationsMC`, `OperationsCastsMC`, `CleanupJobsMC`, `SessionsMC`, `ClientLifecycleMC`, `ResearchMC`, `CallsMC` | the model values, symmetry sets and views of TLC's instances | |

How they fit together. A worker of `Operations` runs what `Research` and
`Creation` model in detail; those reduce the row to what they read of it, as
`Operations` reduces its runners to what they may do to the row. `Sessions`,
`ChatSubmission`, `Creation`, `Research` and `Canvas` hand their source chats to
the manager of `CleanupJobs`, each seeing only its decision. The deletion of
`CleanupJobs` ends in the paged read-back that `History` models. `Credentials`
and `ClientLifecycle` are two views of a cookie update: whose cookies go where,
and which client object lives. `Receipts` sees the operations table as a set of
keyed rows, which `Operations` justifies (`OneGenerationPerKey`).
`ProviderWrites` takes answers as good or bad; `RpcEvidence` says which are good.

Operators whose comment begins with `mutant:` are plausible bugs: each takes the
place of the definition after it to show that a property notices. The
specifications do not use them.

### Operations

One idempotency key of one scope. `row` is the record with that key or `NoRow`;
`UNIQUE(scope_id, idempotency_key)` is what makes one variable enough. Each
repository call is one transaction and one step; what a call does between two
repository calls is a phase of `pc`, with the copy of the row it works from in
`copy` or its id in `op`. Actors are calls: `Starters` run `start` (those in
`Compat` run `reserve` and `execution` in the caller, as `research.py:146-181`
does), `Readers` run `status`/`result` and the recovery these may begin,
`Cancellers` run `cancel`, `Observers` are late callbacks of the SDK. Each
actor may be in a process of its own; `Crash` ends one at any phase.

`Put` is `OperationRepository.update`: `Fresh` compares the version, `Holds` the
lease, `Refused` is the rule for rows in `cancel_requested`, `Settle` the rule
that only a row that may still execute keeps its lease. The runner is abstracted
to what it may do to the row: observe a chat, observe artifacts with any
locators, report any state in `ResultStates`, return, raise, be cancelled.

Left out: `record_result`, `observe_destination_sync` and
`OperationContext.update`, which nothing calls; failures of SQLite itself
(`CleanupJobs` has them); parsing of provider cards.

### CleanupJobs

One source chat under one credential scope: its row, what each process remembers
of it (`mem`, `timer`), the section that holds a process's manager lock between
two repository calls (`section`, with `fresh` when its copy is still current),
and the deletion worker (`work`). Versions and clocks are reduced to what they
decide: a section's copy is fresh or not, an entry's `durable_version` matches or
not, a deadline passed or not, a lease runs or not. Heartbeats take no manager
lock: `Renew` may occur between any two writes of a section and makes the other
copies stale. The provider is `chat`, present or gone, and `sent`, a delete
request that has left and may land at any time. `StorageFails` is any repository
call that raises, `Interrupt` a cancelled worker, `Invalidate` an account change.

Chats without a row are in `MemoryCleanup`. `Prune` is limited to rows that no process
remembers. Read-back is one observation; its pages are in `History`.

`Disposal` is the same component for a caller: a disposal is open, settled by
the report of the one who holds it, withdrawn, or forgotten; there are no rows,
versions, timers or locks in it, and nothing in it reopens what is decided.
`Promised` in `CleanupJobs` is the refinement mapping: pending, failed and
running rows are "open", the lease is the holder, and a worker is idle, asking
or answered. `KeepsPromise` is the whole specification `Disposal!Spec`.

### Sessions

One process. The event loop runs one turn at a time; `Free` says that no turn is
under way, and a turn in which the cookie monitor's thread can make a difference
takes several steps during which only the monitor moves. `where` is the life of
a session (in the table, expired, drained for scheduling, removed, detached with
its account, gone), `lock` the workflow lock together with the send lock nested in it,
`needed` the flags `task_pending`/`recovery_pending`, `handed` the last decision
of the cleanup manager about the source, reduced to pending, retained or
cancelled and to the account generation it was made under. `asked` is the
generation a request noted when it took its client (`_request_cleanup_generation`),
`todo` and `mine` are a reset's snapshot and what it has popped.

Left out: `store_session` (a compatibility entry), `clear_sessions` (the same
step as `Remove` for each session), one-shot generation. `send_message` and
`send_message_stream` have the same steps and are one action here.

### ClientLifecycle

One process, one event loop, the monitor thread. Requests call `initialize()`
once each; `GetClient`, `ReadClient` and `Join` are its three parts, separated
where the monitor can get in between (the second read of `_client` at
`client_manager.py:145` is outside the lock). An initialization task bears the
name of the request that created it; `told` is a pending cancellation. A client
is retired by the request that reset (`ResetAsync`), by a task posted to the
loop (`Reset` then `BeginRetirement`, queued behind a task created before it), or
by the monitor itself if no loop owns it. `InitReturns` may happen in spite of a
cancellation: `tests/test_client_manager.py:510` expects that.

Left out: a second event loop, the SDK rotating a client's own cookies.

### The modules of calls

Thirteen modules model components whose state lives no longer than a call, a
walk of calls or a process; each has one call with the world around it moving freely.

`History`: the provider's chats with their last use, pin and title; a listing is
fetched page by page from the pinned and the recent source while the user pins,
renames, uses and removes chats. A deletion or update may land late or never.
A page is the set of the latest chats that are left, put in the order Gemini
lists them.

`Research`: the owner plans, starts, polls until its deadline, may ask once for
the report in a follow-up prompt, links the report under a name made from the
operation's id and records it; readers recover later from the chat.
`expired` is the deadline of the owner, `holder` the lease of the row.

`Creation`: the provider prepares the outputs one by one; a reply lists some of
them; each is downloaded, verified and recorded, and the source chat disposed
of by what was saved. `file` is the disk, from which the user may remove files.

`MediaFiles`: tasks reserve `name`, `name_2`, ... by exclusive creation, the SDK
writes, an image may be moved to the suffix of its bytes, and a failed download
takes its own file away.

`ChatSubmission`: one prompt, the frames of the answer with or without deltas,
some lost or repeated; the chat becomes known by a callback, a frame or the
answer; the end decides about the chat. A frame without a delta always carries
the whole text so far. Three kinds of input are excluded: frames without a delta
whose text is itself only a new piece (the unlabelled deltas of `streams.py:90-91`
and `tests/test_stream_semantics.py:86-94`, told from a text so far only by not
sharing its start), a repeated *first* labelled frame, and an outdated labelled frame
that brings a new delta. The accumulator would add the text of the last two
twice, but the SDK computes the deltas itself from the text it has
(`docs/api-reference.md:128`), so they do not arise.

`RequestScope`: the context variables of concurrent requests and what each
submission carries, also when the SDK repeats it, reconnects the client or the
request adds a companion prompt. A companion learning prompt alone would be sent
unpatched if the payload had changed its shape; every caller passes a thinking
level with it, so the model does too.

`ProviderWrites`: for each kind of change, whether it reads first (a link that
names its draft by ID reads nothing: `MayName`, `sharing.py:45`), what it sends,
how its acknowledgement is judged and by what it is verified. Four kinds reach the
provider through the SDK's own methods or `_batch_execute` (`Replayed`): the SDK
may repeat those. The creation of a daily action verifies existence only, not
the fields. The user edits before the call or after its request, not between
the read and the write of an update that sends the whole message back: that lost
update is inherent in the protocol of the provider.

`Credentials`: an update chooses among the profiles found (`Chosen`: the one asked
for, else the first one wanted among those that validation, if it ended in time,
found signed in), publishes the cookies, invalidates the sessions and the scope
if the account is another, changes the environment one variable after the other
and then resets the client, or fails half-way; requests build clients and file
sessions meanwhile.

`RpcEvidence`: each contract of the registry with its parser, reduced to which
shapes of a body it takes for what; deviations are steps (another status, no
JSON, further parts, other identifiers, rows of another shape). The bodies `[]`
and `null` are evidence only where Gemini composed them. Which objects there are
(`Identities`) and which listings of them Gemini may compose (`Listings`) are
constants. Capabilities, tool modes and opaque bodies carry no identity that
could be checked. Two shapes that Gemini did not compose do pass for evidence,
and `AnswersAreEvidence` names them as its only exceptions: an empty string is
"empty" to the parsers that know no shape (`rpc_parsers.py:972, 980`), and the
readers of a chat's turns skip every turn or candidate whose path to its content
is broken (`rpc_parsers.py:997-1008, 1154-1166`), so that a chat of broken turns
alone is reported as having no music or canvas. That is at odds with
`docs/native-media-mode.md:38` (only a matching, structurally valid empty
read-back establishes empty output) and the like in `docs/manual-testing.md:120`
and `docs/tools.md:455-456`. That a mutation is posted once is stated of every
contract whose mode is `mutation`, whatever its parser.

`Canvas`, `Receipts`, `MarkedSweep`: as their headers say. In `Receipts` the user
follows `next_step`; image runs have no receipt, and rows that were pruned are
excepted. The `operation` command looks up a row without a key; no property
depends on it. In `MarkedSweep` the chats and titles come from the list that the
SDK fetched before the call (`cleanup.py:155`; `history.py:145-152` calls it
`client_cache`): it may lack chats, be in any order, and a title in it may have
been replaced since. Text beyond the 20 turns and 300 characters the code
reads is not text at all, the markers asked for are a set, and "blank" is what
stands between two commas; a title contains a marker or does not.

`MemoryCleanup`: before a store is bound the manager knows every chat only in its
memory, afterwards those that a caller deletes by their ID without having
scheduled them. `caller` holds requests, sweeps and timers, `worker` the shared
deletions; `pending` is an object with an identity, because the code compares it
with `is`. A switch of the account happens between any two statements and the
cancellations it asks for arrive later. Scheduling in a bound store makes a row,
which is `CleanupJobs`; so are failures of the store. Two things that a reader might expect of this
component are false of the code, and its properties say what holds instead:

- A retain does not stop a deletion that is in flight. `RETAIN_AFTER_CLAIM`
  exists for rows only, so an attempt that fails afterwards queues the chat
  again. `RetainedIsLeft` lists everything that may undo a retain: another
  decision, an account switch, a deletion of this account that a caller named
  the chat for, or one that was already on its way.
- An explicit delete may become an automatic retry. The comment at
  `remote_chat_cleanup_manager.py:692` says it never does, and of the store that
  is so; but a deletion that fails, or whose caller gives up waiting, is queued
  in memory, and a sweep (`creation.py:123`, `chat.py:386`) sends it again.
  `QueuedForCause` confines it to those two cases: never once the chat was seen
  gone, and never over a retain by a caller that gives up.

## 3. Runs

| run | question | bounds |
|---|---|---|
| `operations` | Do files, sources and completion survive every stale write; is there a second generation, a false local cancellation, a leaked lease, a completion by a worker that lost its lease? | three casts: 1 start, 1 recovery, 1 callback; 2 starts (one direct), 1 cancel; 2 starts and pruning. 1 chat, 1 artifact, 2 operations, lease 1, retention 2, clock 2 |
| `operations_live` | Under fairness and timely heartbeats: one executor, leases come back, calls return? | 1 start, 1 recovery, 1 callback, 2 compare-and-set attempts |
| `operations_orphan` | Does a cancellation recorded before the runner starts end in `cancelled`? **No** (finding 1) | 1 start, 1 cancel |
| `cleanup` | Do two processes implement `Disposal` with everything that may fail, and does completed mean absent? | 2 processes, both may die, change accounts, stall past their lease |
| `cleanup_takeover` | With timely heartbeats: one deleter, quiet retention, and a job taken up when its process dies? | 2 processes, 1 mortal, 1 changing accounts, fairness |
| `cleanup_lost_retain` | Is a retention that was answered RETAINED ever followed by a fresh claim? **Yes**, with two processes (finding 2) | 2 processes |
| `sessions` | Sends, resets, removals, expiry and an account change: is a chat deleted under a prompt, lost, disposed of twice, or carried to another account by expiry? | 2 sessions, 2 requests of any kind, 1 account change |
| `sessions_reset_all` | May a reset of all sessions delete an old account's chat under the new one? **Yes** (finding 3) | as above, without `Remove` |
| `client_lifecycle` | Are stale clients published, clients initialized twice or closed too early, waiters or retirements left behind? | 2 requests, 1 reset, 1 credential update, 2 of 3 attempts, 3 clients |
| `client_waiters` | Is a request that waits for an initialization ever told that it was cancelled itself? **Yes** (finding 4) | as above |
| `calls` | Is what the thirteen kinds of calls report, keep, send and delete right? | below |
| `research_reads` | Can every client that reads a finished research save its report? **No** (finding 5) | 1 owner, 1 reader |

`calls` is one run of the independent modules that `Calls` composes: a behaviour is
one of `History`, or of `Research`, and so on, chosen in its initial state (`part`),
with the module's variables in the cells `c1` to `c16`. Nothing is shared, so it is thirteen runs in
one. Its properties, one for each module or two (and two for `Research`), are conjunctions of
the module's own, `DeletionsAreMeant` of two modules':

| property | says |
|---|---|
| `HistoryIsTrue` | "verified absent" is absent, an update reported as seen is there, a walk without a warning has shown every chat, a search without a gap has missed nothing, and `next_offset` moves |
| `ReportIsSafe` | a follow-up prompt goes out once; the chat is deleted only with the report on disk and on record; who is told "completed" finds it; no report replaces another |
| `OwnerEnds` | the owner of a research ends by its deadline (liveness) |
| `OutputIsSafe` | the source goes only when every listed output is verified and recorded; good files are not lost to a later observation |
| `DownloadsAreKept` | a returned path is the task's own finished file; nothing is left behind |
| `RepliesAreAccounted` | text is neither doubled nor invented; every chat seen is registered; a Task's chat outlives it |
| `RequestsAreScoped` | a submission carries its own selectors; what creates is posted once; nothing is left in the context or the client |
| `WritesAreTrue` | verdicts are true, "not sent" never left, one request, nothing but the target changes |
| `CredentialsStayTogether` | no client of two accounts, no session under the wrong one, all follow the published cookies |
| `AnswersAreEvidence` | only whole, single, unrejected answers of the expected shape prove anything, with the two exceptions named above; the three readers agree; a mutation is posted once |
| `CanvasIsTrue` | the chat asked in is retained whatever happens; "complete" is complete; an export replaces nothing |
| `ReceiptsLeadBack` | who follows the receipts gets one generation and can get back to it; "ok" means verified |
| `DeletionsAreMeant` | of a sweep by markers: dry runs delete nothing, nothing goes that carried no marker during the call or in the SDK's list, the report is true; of a chat without a row: one deletion at a time, by a client of the account it was decided for, none from a snapshot that a retention made stale, a retain is undone and a delete queued for the listed causes only, "completed" is gone, and what an account switch left behind is silent |

Bounds of `calls`: 3 chats in pages of 1 or 2 and 1 change by the user; 2 readers of
a research; 2 recoveries of a creation; 3 downloads for 3 names; answers of 3
pieces in 3 frames; 2 concurrent requests; 1 edit in another tab; 2 credential
updates and 2 requests over 2 accounts; 2 deviations of an answer about 2 objects;
3 versions in 3 pages; 3 runs of the onboarding command; 2 chats and 1 scheduled action; 2 callers, 2 deletions, 1 account
switch and 1 decision about a chat without a row, beside the one it may start with.

Why these bounds are enough. Every comparison in the code is between one writer
and one other: two processes (or two calls) reach every order of read, foreign
write and write. A third adds symmetric copies of the same race; three downloads
let one fail between two that succeed. One chat and one artifact suffice for
`Operations` because rows are independent and merging is per artifact.
Leases of one or two ticks with a clock of two or three let a lease run, lapse
and be claimed again once. Two of the eight compare-and-set attempts show one
lost and one last attempt. Two attempts of initialization show one retry and the
last failure. Pages of one or two chats put the end of a page, of a source and of
the bound between any two chats. `MaxClock`, `MaxOps`, `MaxGen` and `MaxCreds` bound
counters that grow for ever otherwise. `MaxClients` leaves a client for every
request and every update (`BoundsAssumption`), and the run creates no more than
its three. `CHECK_DEADLOCK FALSE` stands in every configuration because
calls and requests end and nothing forces new ones to come. `cleanup` has a
`VIEW` without `timer`: no guard reads a timer outside the fairness condition,
so states that differ in it have the same successors, and none of the run's
properties mentions it except the type of `timer`, which is then checked on one
of such states.

Fairness. `Operations`: a call that began goes on (its process runs) unless it
crashes; nothing forces a call to begin, a callback to arrive, or the clock to
move. `CleanupJobs`: time passes, a section that holds the lock and a worker go
on, and a process with an armed timer wakes up. `ClientLifecycle`: the loop runs
what is ready, `init()` is under `asyncio.timeout` (`client_manager.py:206`),
`close()` returns, the monitor finishes its callback. `Research`: the owner's
process runs and its deadline arrives; the provider owes nothing. All of it is
weak fairness.
`Sessions` states no liveness property and no fairness.

## 4. Findings

1. **A cancellation that arrives between claim and start is never resolved**
   (`services/operations.py:239`). `docs/operations-and-cleanup.md:55-58` promises a
   `local_cancelled_before_start` result; the row stays `cancel_requested` until
   it expires.
2. **A retention is lost to the final write of a failing attempt**
   (`remote_chat_cleanup_manager.py:805`). The write compares the lease only, so
   a `RETAIN_AFTER_CLAIM` recorded after the read is overwritten.
3. **`reset_all` disposes of sessions under whatever account is current**
   (`services/lifecycle.py:158`). Sessions it has popped are invisible to an
   account change; `docs/tools.md:906` says no deletion of the old account is ever
   run by the new one. What does hold is `DetachedStaysInAccount`: only sessions a
   reset or removal had popped can be affected.
4. **A reset may tell a waiting request that it was cancelled**
   (`client_manager.py:336`), when it cancels an initialization task that has not
   had its first turn.
5. **Two readers of one research may never agree on its file**
   (`services/research.py:311`). The owner links the raw payload's text with its
   sources under a name made from the operation's id; if it is then lost before
   recording that, a recovery reads the document, finds other bytes under the
   name and fails, each time.

## 5. Proofs

`OperationsProofs` proves, for any sets of callers, chats, artifacts and result
states, any lease and retention, and any bounds:

| theorem | property |
|---|---|
| `TypeCorrect` | `TypeOK` |
| `CompletionNeedsFiles` | `CompletedIsUsable`: completed rows know only verified local files |
| `OneGeneration` | `OneGenerationPerKey`: two generations of a key are a retention period apart |
| `TerminalStates` | `TerminalSticky`: no step changes a terminal row |
| `LocatorsOnlyGrow` | `LocatorsMonotonic`: sources are never replaced, artifacts never downgraded |
| `LocalCancelIsTrue` | `LocalCancelNeverLaunched`: no runner stands behind a local cancellation |
| `LeasesAreGivenBack` | `NoLeaseLeak`: a call that returned, however it ended, holds no lease |
| `OfferedSourcesAreDurable` | `OfferedIsDurable`: a source goes to deletion only after its files are verified and recorded, or when there is nothing to keep |
| `OneExecutes` | `OneExecutor`, if heartbeats are timely (`Timely`): two clients never execute one operation at once |
| `OnlyHoldersComplete` | `OnlyHolderCompletes`: only the worker that holds the lease and is about to record completes a row |

Assumptions: `ConstantsAssumption` and `ActorsAssumption` of `Operations`
(lease and retention positive, actor sets disjoint, a runner does not itself
report `accepted`, `cancel_requested` or `expired`).

The argument. `TypeInv` is `TypeOK` with "a call that is under way has an
operation id", without which the copies a call works from are not rows.
`StepOfRow` reduces the forty actions to the few ways a step may change the row
(`RowStep`); facts about `Put`, `Merge`, `Settle` and the other operators are lemmas of their
own. `CompletionNeedsFiles` follows from `RowStep` and `ObservedFacts`.
`OneGeneration` needs `GenInv`: who was created when, the row's expiry and the
calls' ids stay in order. `TerminalStates` and `LocatorsOnlyGrow` are action
properties; they need `ReadInv`: a copy whose version and id equal the row's *is*
the row, so that a write that passes `Fresh` knows what it overwrites. This is
where the code's discipline (every write bumps the version) enters.
`LocalCancelIsTrue` needs `OwnerInv` and `LocalInv`: an operation belongs to one
starter and that starter alone can launch it.

The leases. `NoLeaseLeak` is not inductive, since nothing in it says where a call
that still runs got its lease; `LeaseInv` adds that a lease on the row is its
executing worker's, on that worker's operation, or a dead process's
(`LeaseIsOwned`), that until a worker has recorded what it found the files on
record are the ones it started from (`FilesAreBase`), that no files are on record
for an operation the provider had nothing for (`EmptyStaysEmpty`), and that a
source that is ready to be offered, or was offered, belongs to a completed or an
empty operation (`ReadyIsDurable`). `FilesAreBase` is why a worker may judge from
its own copy whether a source is needed. For the steps, only ten kinds of effects
matter to leases and files (`StepKinds`: others standing by, time passing, pruning,
reserving, claiming, renewing, leaving, observing from outside, going on,
recording); each part is shown to survive each kind. `OneExecutes` adds
`ExecutorsHold`: with timely heartbeats who executes has a live lease, and the row
has one lease. Without them it is false, and `OnlyHoldersComplete` is what remains:
a worker whose lease was taken over cannot complete the row.

`ClientLifecycleProofs` proves the four safety invariants of `client_lifecycle`,
for any requests and resets, any number of attempts, clients and credential
updates (`BoundsAssumption`: requests and resets are disjoint, at least one
attempt, `None` is neither a request nor a number):

| theorem | property |
|---|---|
| `ClientTypes` | `TypeOK`, with "the manager's task is under way for its client and generation" |
| `StaleIsNotPublished` | `PublishedIsReady`: `_initialized` speaks of a current client whose own `init()` returned |
| `InitializationIsShared` | `OneInitialization`: one `init()` per client, and no `close()` under it |
| `CredentialsAreFresh` | `CredentialsFresh`: between updates the manager's client has the latest credentials |

The argument. `OneInitialization` says nothing about who owns a task, so it is
not inductive; `TasksOK` is: a task under way on a client is the manager's own,
or the retirement of that client is going to wait for it (`Owned`). Two tasks of
one client then have the same owner and are the same, and a retirement closes its
client only when no such task is left. `CancelsOK` keeps the manager's own task
free of cancellations (`Start` leaves `_init_task` alone when a task was cancelled
before its first turn, which is right only because a reset has taken it away
already), and `RequestsOK` says that a request has no task before it starts one.
`Detached` is the lemma behind both kinds of reset; there is one lemma for each
group of steps.

`CleanupJobsProofs` proves, for any number of processes, whichever of them may
die or change accounts, whatever may fail (`ProcessesAssumption`: those sets are
sets of processes, `None` is none of them):

| theorem | property |
|---|---|
| `TypesHold` | `TypeOK`, and a lease exactly on running rows |
| `CompletionIsAbsence` | `CompletedIsAbsent` |
| `PromiseKept` | `KeepsPromise`: `CleanupJobs` implements `Disposal` |
| `DeletionIsExclusive` | `OneDeleter`, if running workers keep their leases (`Timely`) |
| `RetainingIsQuiet` | `RetainedIsQuiet`, likewise |

The argument. `CompletedIsAbsent` is not inductive: the final write follows
what its section and its worker saw, several steps earlier. `Inv` adds that.
`FreshCopies` says that what a section decided on reading the row still holds
while its copy is current, `SectionsMatchWork` that a final section records what
the worker found, `AbsenceIsReal` that a worker that found absence is right (the
chat does not come back). There is a lemma for each kind of row the repository
writes, one for each group of actions, and the same groups again for the
refinement: `RoleMoves` and `RolesStay` say what a step of `work` means to
`Disposal`, and each action is then `Register`, `Take`, `Ask`, `Hear`, `Settle`,
`Abandon`, `Withdraw`, `Arrive`, `Forget`, or nothing. For exclusive deletion
`WorkersHold` says that a worker has the running row under a live lease, unless
the job was withdrawn from it, and that there is one worker: a claim needs a row
that is nobody's or whose lease lapsed, and while heartbeats are timely neither
has a worker. Without timely heartbeats both properties are false, and
`KeepsPromise` is what remains: the late worker settles nothing.

`SessionsProofs` proves, for any sets of sessions and requests and any number of
account changes (`CallersAssumption` of `Sessions`):

| theorem | property |
|---|---|
| `SessionTypes` | `TypeOK` |
| `PromptsKeepTheirSource` | `SendingIsKept`: no cleanup decision deletes a chat with a prompt under way |
| `SourcesAreNotForgotten` | `SourceAccountedFor`: an observed source without a decision has a request on it that sends, has sent or reads back |
| `SessionsAreDisposedOnce` | `OneDisposer`: no session is disposed of twice, nor after it expired or was detached |
| `AccountsKeepTheirChats` | `DetachedStaysInAccount`: only a session taken out of the table by a request can be given up under another account |
| `SessionsLeaveForGood` | a session that left the table does not come back, and keeps the account it was made for |
| `DeletionsAreAllowed` | a step gives a chat up to deletion never under a prompt, and only of the current account or of a session a request had removed |

The argument. One inductive invariant, `Inv`, holds these four and six parts more.
`WorkflowsHoldSessions` is the discipline of the workflow lock: a session whose
lock is held may be removed or detached but does not expire. `TableIsCurrent` says
that what is in the table belongs to the current account, because a change of the
account empties the table before it counts the generation up, and that what was
drained is scheduled before other credentials are bound. `SendsAreCurrent` and
`SourcesAreObserved` tie a request to the session it sends in: if the generation it
noted when it took its client is still the current one, so is the session's. Each
action is first reduced to what it does to the table (`Moved`), to the decisions
(`Given`) and to the requests (`Went`); the parts then follow from these effects.
`sessions_reset_all` shows that the stronger `OldChatStaysOut` is false; the theorem
`AccountsKeepTheirChats` delimits the exception for any number of requests.

`CredentialsProofs` proves `CredentialsFollow` for any updaters, requests and
finite set of accounts: `NothingMixed`, `AllFollow` and `ProfileIsRespected`. Its
hypothesis `Distinct` says that updaters and requests are different threads and
that `None` is no thread, account, cookie or pair. The argument is about three
locks. The update lock gives the published cookies to one updater from publication
to reset, the authentication lock one thread the environment, the scope and the
sessions, the client lock one request the making of a client (`Locks`). An updater
swaps two cookies in two steps, so the environment may hold two accounts only at
`token` (`EnvFollows`). A request may copy them in the middle of that, but once
the swap has begun (`Swapped`) the published cookies are of the environment's
account and replace the copy (`Extra`), and the updater's reset takes the
client away; otherwise the copy is of one account (`Drafts`, `ClientFollows`). A
callback that fails leaves the environment under another account than the
published one, the only exception of `AllFollow`. `Generations` is why a
request files its session under the right account: if the generation it noted is
the current one, the scope's account is that of its cookies. `ChosenIsValid` shows
that the profile chosen is one that the validation allows; it needs the first
wanted candidate to exist, which follows from the order of the naturals
(`FirstExists`). Actions are reduced to their effects first, then each part of
the invariant is shown to survive each effect.

`CallsProofs`, `CallEffectsProofs` and `CallReadsProofs` prove every safety property
of the run `calls` for every value of the constants of `Calls`:

| module | theorem | property |
|---|---|---|
| `CallsProofs` | `DownloadsKept` | `DownloadsAreKept` |
| | `ReportsAreSafe` | `ReportIsSafe` |
| | `ReceiptsAreTrue` | `ReceiptsLeadBack` |
| | `RepliesAreKept` | `RepliesAreAccounted` |
| | `AnswersAreTrue` | `AnswersAreEvidence` |
| | `CredentialsAreKept` | `CredentialsStayTogether` |
| `CallEffectsProofs` | `OutputsAreSafe` | `OutputIsSafe` |
| | `WritesAreHonest` | `WritesAreTrue` |
| | `DeletionsMeant` | `DeletionsAreMeant` |
| `CallReadsProofs` | `CanvasIsKept` | `CanvasIsTrue` |
| | `HistoryIsKept` | `HistoryIsTrue` |
| | `RequestsAreKept` | `RequestsAreScoped` |

Assumption: `ValuesAssumption` of `Calls` (threads of different kinds differ, `None`
is none of the values it stands for, sets of accounts and chats are finite, listings
are sequences of identities, bounds are natural numbers and those of downloads,
callers and of a list's limit positive), which TLC evaluates in the run. While the part of a
behaviour is a module's, a step of `Spec` is a step of the module in the cells it
uses, so the module's inductive invariant (`Inv` in the module itself, where the proof
does not add its own) is kept in them; in the other parts nothing is claimed. The
arguments:

- *Downloads* (`MediaFiles`). Every file was written for one task, and the place of a
  task accounts for exactly the files it owns: none, its reservation, its download,
  or both while the suffix is corrected. A step touches only files of its own and
  free names (`FilesTouched`), because a name is taken by exclusive creation.
- *Research*. What was posted follows from the place of the owner (`PostsByPlace`), and
  a source that is gone had its report on disk and on record when it went
  (`ReportByPlace`), whichever client linked it.
- *Receipts*. A handle that was issued leads to one row for ever: a key is generated
  once (`OneKey`), the receipt holds the key of its run before anything is sent
  (`HandlesLead`), and what was verified follows from the phase (`VerifiedByPlace`).
- *Chat replies*. What is collected is the text sent up to the last piece that
  arrived, whatever the text is: frames that repeat or lag add nothing, a delta
  goes on where the last one ended (`LastByWire`). What was registered follows from
  the phase and from who saw the chat (`MarkByPlace`).
- *Evidence* (`RpcEvidence`). A body that reads as a listing of its own kind still has
  a row for each object Gemini composed (`Traceable`), through any number of
  deviations; so a verdict of absence is about all of them. Rows that a reader by
  path leaves out are the ones that arrived with a broken path (`TakenByPath`).
- *Credentials*: `CredentialsFollow` above, with its hypothesis from `ValuesAssumption`.
- *Created media* (`Creation`). Three things are told apart for every output: what a
  reply listed, what was observed on disk, and what the row records (`SeenByPlace`,
  `ObservedByPlace`, `RecordedByPlace`); a disposal compares the last two with the
  first, and a merge never replaces a good file.
- *Changes in the account* (`ProviderWrites`). A request has one effect at most (a
  second one only of a creation that the SDK repeated, `OneEffect`), what was read
  before it is what was there (`ReadIsOld`), and what a read-back saw is there still
  or was edited since (`SeenByPlace`): any number of edits may come between.
- *Deletions.* A sweep sends only what carried a marker when it was read or when the
  SDK fetched its list (`Read` keeps both in `had`), and all it sent is in its report (`Targets`, `Attempted`, `Meant`). Of a chat without a row, the
  registered deletion is the only live one of the present account (`Registry`), one
  that reports success saw the chat gone (`Seen`), and a retained chat is not in the
  queue (`Queue`) nor known as deleted (`Undone`); a chat known as deleted has no
  deletion of the present account under way that could queue it (`Settled`); a switch moves all of this into the past at once, and whatever
  runs on finds that it is not the registered one.
- *Canvas*. While a walk goes on, each version there was at its start is among its
  items or still ahead of its continuation, however many are made meanwhile
  (`WalkCovers`); a chat that was seen is registered at every end (`SourceKnown`).
- *History.* A deletion that has not found its chat has it behind the cursor or in a
  listing it will still read, unless the user moved it (`DeletionLooks`); what was read
  of an updated chat is still so (`UpdateLooks`). A walk reads chats in the order
  "pinned first, then by last use", and what it has is the front of that order
  (`ScanIsFront`, `Front`): its first k chats, so that the i-th item has exactly i-1
  before it (`HistoryPlace`, a bijection counted by `Cardinality`). Hence everything of a
  rank below `next_offset` has been shown (`ListShows`), and without a `next_offset`
  everything has. `next_offset` always moves because a page that brings nothing
  ends the walk.
- *Requests* (`RequestScope`). The context variables are a stack of scopes, and where
  the request is determines all of it (`Stacked`: outside, inside the workflow's scopes,
  inside the request's own, or connecting without the time limit); what went out
  before the answer is nothing unless the SDK may retry (`RequestSent`). No
  assumption is made on the order in which requests run.

Where a proof needs induction over numbers (the first candidate of `Credentials`, the
latest chat of a page in `History`) it takes a least counterexample instead, which the
well-foundedness of the naturals gives as a first-order fact.

Only model-checked, and why:

- liveness under fairness (`OwnerEnds`, `CallsReturn`, `NoStrandedJob`,
  `WaitersReturn`) is out of TLAPS's reach, as is everything with `ENABLED`. Every
  safety invariant and action property of a passing run is proved;
- the five findings of section 4 are counterexamples, found by TLC.

No module declares a `RECURSIVE` operator.

## 6. Not modelled

- Failures of SQLite in `Operations`, `store_session` and the synchronous
  `reset_client`, a second event loop.
- The contents of payloads: fields of rows, positions in request bodies, the
  editing of a Canvas document in memory (`canvas_contracts.py`), the validation of
  account requests, prompts of understanding and search. They are pure functions
  of one call, and what the other parts need of them is whether they accepted.
- Rendering, argument plumbing and documentation resources of the two surfaces
  (`tools/`, `surfaces/`, `skill_server.py`): they hold no state between calls.
- Browser profiles, keyrings, decryption, path rules, file signatures, schema
  migration: input and output only, seen by the models as an observation that
  may fail.

What a next step would add: an abstract specification of an operation as its
callers see it, and a proof that `Operations` implements it; the rows of `Research`
and `Creation` as instances of `Operations` in place of their own reductions.
