# A verification project for the codesplash agent

`codesplash` is a terminal program that drives coding agents: Codex through its
app-server, Claude by handing the terminal over, and an engine of its own. What
it promises beyond talking to a model is about *time*: an input that was
acknowledged is not lost, not run twice and not reported wrongly, whatever
crashes, timeouts and clicks come in between; a file restore that is interrupted
destroys nothing; two operations never change the same files together; a
recurring prompt spends no more than it was given; what is at work for a client
stops when the client is gone. Those promises are kept by small state machines spread over
callbacks, awaits and durable records, which unit tests only visit along the
orders somebody thought of. This directory models them in TLA+, checks them with
TLC on small instances, and proves some of them with TLAPS for every instance.

Paths below are relative to `src/src/`; the repository is the reference and no
definition is taken from a document's words.

## 1. Inventory

| Part | State | Operations | Interacts with | What is hard | What makes it right |
|---|---|---|---|---|---|
| Durable input queue (`core/session/input-queue.ts`, `control.ts`) | the record `inputQueue` (items, epoch, paused, review marker), `#raw` in memory | submit, edit, move, remove, retry, pause, resume, clear, directory change; admit, running, finish; recovery on opening | runner, engines, queue panel, command line | crash between two commits, retried submissions, long mixes of legal calls | accepted once; nothing replayed; stale inputs held |
| Queue runner (`core/session/queue-runner.ts`) | closed, scheduled, pump, interrupting | wake, dispatch, interject, stop, halt, settled | queue (subscription), a backend | wake-ups that come too early, microtasks against I/O | no input stranded; record before dispatch |
| Codex turns (`engines/codex/queued-turns.ts`) | the active turn, its start, steering, failure | send, start, steer, settle, interrupt, disconnect, close | runner, JSON-RPC, driver | responses, notifications, timers and closing in any order | no orphaned input; honest results; close ends |
| Codex driver, JSON-RPC (`engines/codex/driver.ts`, `json-rpc.ts`, `normalize.ts`) | pending requests, `#recoveryBusy`, boundaries | notifications, export, rename, fork, resume, close | app-server, turns, branches | request timeouts, halts | busy time ends; late events ignored |
| Checkpoint restore (`core/session/restore.ts`, `secure-path.ts`) | journal; per file a hold, a stage, a rollback hold and stage | apply, recover (finish, rollback), cleanup | checkpoint store, file system, other programs | crash between file operations, edits in the windows | all or nothing; nobody's edit destroyed |
| Conversation history (`core/session/branches.ts`, `engines/codesplash/recovery.ts`, `transcript.ts`, `core/session/working-directory.ts`) | `transcript.jsonl`, the tree of boundaries with their contexts, the working directory with what is pending | append, snapshot, capture, rewind, prune, collect, move, repair | native engine, command line | several files written one after the other; crash in a head switch; shared contexts | transcript and boundary belong together; no context is lost; an opening settles what was interrupted |
| Checkpoints, changes, hunks | private git objects | capture, prune | native and Codex engines | mostly data | — |
| Session repository, files (`repository.ts`, `files.ts`) | leases, index, quarantine | open, reindex, prune | everything on disk | two processes, stale leases | one writer; index follows files |
| Recorder, controller, reducer | write chain, projection | record, replay | engines, interface | chain stops after a failure | prefix of events on disk |
| Mutation claims (`core/orchestration/mutations.ts`) | registry of claims, one lease per call | acquire, run, reap, cleanup | restore, tools, worktrees | a process dies, a call is aborted or the storage fails inside the section | overlapping writers exclude each other, in order; a live claim is kept |
| Schedules (`core/orchestration/scheduler.ts`, `engines/codesplash/orchestration/scheduler.ts`) | schedules, occurrences, reservations, worker lease | create, enable, delete, review; tick, begin, finish, recover, stop | native engine | worker dies, stops or is replaced while work runs | one worker; budget charged once; nothing enabled unreviewed |
| Tasks, automation, teams, peers, worktrees | journals, leases, sockets | — | — | as above | — |
| Native engine's turns (`engines/codesplash/engine.ts`) | admission, active turn, operation, the promises of `#interruptAndSettle` | send, interrupt, operation, close | queue, runner, loop | interruption during admission, records that fail | same queue promises as Codex; calls return |
| Native engine's loop (`engines/codesplash/loop.ts`) | history, the round of calls, claims, checkpoints, held changes | stream, early reads, round, steering, continuations | provider, tools, permissions, claims | abort against effects; steering while calls arrive | every call answered once; order kept; changes covered |
| Hooks (`engines/codesplash/hooks/`) | execution receipts | begin, settle, acknowledge | native engine | crash between intent and effect | once scopes stay closed |
| Server hub (`server/hub.ts`) | threads, writer leases, seen requests, serial queue, replay window | dispatch, acquire, steal, release, expire, orphan, replay | clients, sessions | lease expiry against waiting requests, repeated requests | writes under a lease; a request runs once; no work without a writer |
| Permissions, sandbox, MCP, language servers, plugins, extensions, memory | — | — | native engine | mostly data, or outside processes | — |
| Configuration, trust, identity, telemetry, updates, SDK, integrations, interface | — | — | — | parsing, presentation, packaging | — |

The generated Codex bindings, provider wire formats, packaging scripts, examples
and documentation are not candidates.

## 2. Modules

| Module | Models |
|---|---|
| `InputQueue` | the record and every method that changes it, alone, under arbitrary callers |
| `CodexQueuedTurns` | extends it with the runner, the Codex turns, the driver's part and the app-server |
| `FileRestore` | one restore: journal, file operations, crashes, other programs |
| `PathLocks` | what a mutation coordinator promises: a lock on sets of paths, served in order |
| `MutationClaims` | the coordinator itself: a registry file, leases, reaping; implements `PathLocks` |
| `Schedules` | the manifest of recurring prompts and the worker loop of every session |
| `NativeTurns` | extends `InputQueue` with the runner and the turns of the native engine |
| `ToolTurn` | one turn of the native loop: streaming, tool rounds, claims, checkpoints |
| `SessionHistory` | history, transcript and branch boundaries of a native session over its lifetime |
| `Hub` | the daemon: connections, requests, leases, and the session of a thread |
| `InputQueue_proofs`, `CodexQueuedTurns_proofs`, `NativeTurns_proofs`, `FileChanges_proofs` (of `ToolTurn` and `FileRestore`), `MutationClaims_proofs`, `Schedules_proofs`, `Hub_proofs`, `SessionHistory_proofs` | theorems about the nine |
| `MCInputQueue`, `MCCodexQueuedTurns`, `MCCodexSession`, `MCFileRestore`, `MCToolTurn`, `MCNativeTurns`, `MCHub` | instances of one module for TLC |
| `MCServices`, `MCNative`, `MCSession` | instances of several modules side by side |

How they compose: `CodexQueuedTurns` and `NativeTurns` are two engines over the
same record and both extend `InputQueue`. `ToolTurn` is what a turn of
`NativeTurns` does inside; `NativeTurns` relies on it for one fact, that an
interrupted turn ends, which `ToolTurn` states as `TurnEndsOnInterrupt`. The claim
that `ToolTurn` waits for is a lock as `PathLocks` has it, which `MutationClaims`
implements. `SessionHistory` takes a turn as messages that are added, and follows
where they are written. The jobs of `Schedules` and the sessions of `Hub` run turns of the
native engine, of which they see the beginning, the questions and the end.

### InputQueue

`queue` is the committed record `values.inputQueue`. Its list of items is kept
as functions over the ids (`status`, `place`, `intent`, `form`, `recovered`,
`requiresEdit`); an id that has no item is `"absent"`, and `place` is the
position in the list. `raw` is the set of ids in `#raw`, `live` says whether a
process has the session open, `minted` is the epoch inside each id handed out by
`newSubmissionId`. `accepted` and `granted` are history: how often an id was
acknowledged as a new input, and which inputs the user has asked to run since
their last run.

Each method reads the record, changes it and commits once, synchronously, under
the revision fence of `control.ts`; so each method is one action, and a method
that throws is an action that is not enabled. The operators named `...Q` map a
record to a record, so that modules which compose several calls in one run of the
thread can reuse them. The text of a prompt is abstracted to its *form*, which
is what admission and recovery tell apart: changed by the sanitizer
(`redacted`), holding an image whose bytes are not stored (`inline`), naming a
file (`file`), text dropped by retention (`emptied`), or none of these. The
deduplication of a repeated id with another content is an error and no step; one
with the same content reads the status and is no step either. Byte budgets and
the stash of drafts, which holds no queue state, are left out; so are failing
writes of the record.

### CodexQueuedTurns

JavaScript runs one task at a time up to the next `await`, so an action is one
such run: a callback, a resumed continuation, a notification. The operators work
on a machine `m` with `m.q` the durable record and `m.p` the memory of the
process, and a handler is their composition in the order of the code; this is
what makes a handler that settles a turn, pauses the queue, and wakes the runner
one action, as it is in the program. `proc` has the fields of `QueueRunner`
(`closed`, `scheduled`, `pump`), of `CodexQueuedTurns` (`turns`, `active`,
`steering`, `failure`), the two callers that may be inside `interrupt()`, and
from the driver `recovery`, `conn` and `close`. Where a function is suspended is
the `stage` of its field. `provider` is the truth about each turn at the
app-server; `due` the notifications it has written and the session has not read.

The runner wakes itself in microtasks, which run before any I/O. `Drains = TRUE`
makes every macrotask (a response, a notification, a timer, the user) wait for
the microtasks. With `Drains = FALSE` macrotasks may come in between, which
covers several JSON-RPC lines read in one chunk and code that continues from a
promise of the session; safety runs use both, liveness uses `TRUE`, which is how
the event loop schedules. What the surroundings of a session may do (which
intents and forms users submit, whether they edit, clear or close, whether the
process crashes, files change, exports run) is `ops`, one of the sets of the
constant `Surroundings`, chosen once per behaviour.

`Becomes(m)` commits the machine and keeps the ghosts: an input that starts
running uses up its grant, and the request of a reserved turn is on its way.
A crash may also fall between two commits of one action; `Crash_` lists those
points. A close ends with the process gone and the record left.

Left out: approvals and events (they do not change the queue), account and model
selection, the `codex` process itself, and the deduplication of user input by
`clientUserMessageId` at the provider. When `turn/start` is refused by an error
the provider does not run the turn afterwards; when it is not answered, it may.

### FileRestore

`dir` gives the content of the five names a row may have in its directory: the
file, the recovery hold, its stage, and the hold and stage of a rollback. `twin`
is the private name that is at the moment a second link of the file, which
matters because `SafeParent.read` refuses such a file. `journal` is the durable
journal with status, direction, issue and the rows applied and undone; `run` is
where the process is. `expected` and `target` are the images of each row, so
rows modify, create or delete. A file operation, a check and a commit are one
step each; a run of reads is one step, because whatever follows checks again
(a rename is verified, a link never replaces).

Other programs edit by path, by replacing the file or writing into it, and the
user deletes files or puts an image back. They do not touch the private names
and do not keep a file open across steps: writing through an old handle into a
file that is being removed loses data on any system. What a preview selects, the
mutation claims around a run, parent directories that are swapped for symbolic
links (refused by `openat`), and files that stop being regular files are left
out. Every operation of `secure-path.ts` syncs the directory, so a power failure
is a crash.

### PathLocks and MutationClaims

`PathLocks` is a lock on sets of paths: calls wait, `ahead` says which of two that
wait came first, and one is let in when nothing that overlaps it is inside or
ahead of it. Who gives up waiting, or dies, leaves the line; the others keep their
order.
`MutationClaims` is how the code gets there with files only. `claims` is
`claims.json`; `registry` the section of the one call that holds the registry's
lease, with the copy it has read and how many of its entries it has yet to
probe; `owners` the calls whose own lease a live process holds; `call` where
each call is. The section is not one step: entries are probed one after the
other, each a file operation, and a process may die in between, which frees its
leases. The change itself is one atomic replacement of the file; it may fail
before or after it has taken effect, and the call then cleans up without knowing
which (`AfterError`). Paths are related by the constant `Within`. Canonical
paths, the directories of the calls and what a lease looks like on disk are
left out: a lease is held by a live process or free.

The refinement `ClaimsImplementLocks` maps the waiting line to the calls that have
an entry in the file and wait in a live process, and `ahead` to the order of their
entries; inside is who has been let in and has not ended.

### Schedules

`schedule`, `runs` and `worker` are the manifest and the worker's lease; `job`,
`control` and `draining` what each session has in memory: where its tick or
manual run is, its abort controller, a stop that waits. A change of the manifest
is one step, because the code makes it without waiting, under the lease; it may
fail before or after the file is replaced. Authorizations, the start of a
workflow, its work and its report are steps of their own, so a stop, a deletion,
a crash or another session's takeover may fall between any two of them.
`pruned` is history: what occurrences used whose records are forgotten. Cadences
only; watched directories and the installation of the worker as a service of the
operating system are left out.

### NativeTurns

The same runner over another engine. `send` is the turn that
`#sendObserved` runs (admission, turn, recording), `owned` when it came from
`send()` and not from the pump; `waits` says which of the promises of
`#interruptAndSettle`, or of `close`, each caller awaits at the moment; `rejected`
is a turn whose promise was rejected and whose handler has not run. Microtasks
run before anything else, as in the event loop. Operations exclude turns, and differ
in where an interruption finds their promise: `"input"` is `#inputOperation`,
`"compaction"` is `compact`, whose promise is in the place of a turn's, and
`"reservation"` is `inspectContext` or `editPermissionRule`, which leave none
(`AwaitedAt`). `Operations` says which of them an instance has; the proofs are for
all. The runner's `#interjected` is set and cleared with `#interrupting` and needs no
variable of its own. A turn takes steering for as
long as it runs. A crash is left out here, as `InputQueue` and
`CodexQueuedTurns` have it for the same record.

### ToolTurn

`turn` is `runTurn` with its locals: the calls of the response, each with its
place in `#runToolCall`, the barrier of early reads, the next call of the round.
`history` keeps which calls are not answered yet and whether it ever held a call
without its answer in the next message (`torn`), which providers refuse.
`holders` is who holds the mutation claim of the workspace, `covered` for whose
changes a checkpoint is open, `held` the changes that go on when their call has
returned. A permission may be granted or refused at any call; what is allowed is
not modelled, when it is asked is. Questions that the loop asks itself (`ask_user`,
plan mode, access to the sandbox) are a kind of call of their own: they go on when
changes could not be finished (`broken`), every other call is refused then. Every await is a step boundary, so an
interruption, steering that comes and is withdrawn, or the end of held changes
may come in any of them.

### SessionHistory

What a native session remembers is in four places that no single commit covers:
the loop's `#history` (`native.history`), `transcript.jsonl` (`transcript`), the
graph of boundaries in the record (`graph`, with a head switch under way), and
one file for each retained context (`blobs`). `location` is the working
directory, with a publication that waits for its transcript. `native.at` says
where the process is in the operation that has the session: opening and its
repairs, a turn and its recording, a compaction inside or outside of one, a
rewind, a move, or files being unlinked. `revised`, `unsaved` and `start` decide
whether a turn is appended or the whole history is written, as
`historyRevision`, `#snapshotRequired` and `#turnStartIndex` do. Each write is a
step; it may fail, an append may leave part of its messages, and the process may
die between any two (`Leftovers`, `Die`). A closed session may be opened by the
command line, which has recovery and no turns (`OpenOffline`); it rewinds in the
recorded current directory too, which `core/sessions.ts:136` puts over the path that
the session was created with.

Messages are numbers, so that contents can be compared: an even one calls tools
and is answered by its successor, which is all that `validNativeContext` asks.
A context is stored under its content, as the digest in the code has it. A
boundary knows its ancestors (`line`) instead of its parent. `strayed` is
history: it becomes true when a step parts transcript and selected boundary on
purpose or by failing, and false where the code brings them together.
Pins, labels, notes, usage, provider forks and forks into new sessions are left
out; so is the directory's trust, which only refuses a move.

### Hub

The operations of `serial`, each from await to await, the session of one thread,
and time. A request is chosen when it runs, so it may name leases and questions
that were current when it was sent and are not any more. `used` and `ran`
number the requests of each connection. Leases expire by `TimePasses`, which
says nothing to the hub until its timer or the next request looks. `orphan` and
`interrupt` wait for the session; `then` is what the operation goes on with.
The events that clients read are left out, and so is what only reads.

## 3. Runs

| Run | Question | Instance | Result |
|---|---|---|---|
| `session_state` | do all orders of calls, crashes and reopenings keep the queue's record and its promises? do transcript, boundaries and contexts stay together? | queue: 2 ids, 2 epochs, plain and redacted forms, 1 finished input keeps its text; history: 4 boundaries, 2 messages and an older transcript, 3 operations, 2 openings, 2 directories, 1 failing write, any crashes | holds, 1.10 M states |
| `codex_turns` | do all orders of responses, notifications, timeouts and microtasks keep inputs accounted for and results true? | 2 inputs, 2 turns, `Drains = FALSE`, in two surroundings: steering and interject, 1 interrupt, resume, halt; send, retry, resume | holds, 0.77 M states |
| `codex_session` | and while the queue is edited, files change, exports run and the connection drops; or across a crash or close and a new process? | 2 inputs, 2 turns, in four surroundings: files, edits, exports, all intents; the queue cleared, 2 epochs; 1 crash or close, then retry, pause, resume, send; 1 crash with steering | holds, 1.06 M states |
| `codex_liveness` | do interjections, `interrupt()` and `close()` come to an end? | 2 inputs, steering and interject, 1 interrupt, close | holds, 50 k states |
| `services` | is a restore all or nothing? is a schedule charged once and worked by one session? are calls answered, in order, and changes covered? does the daemon let only writers write, and stop the work of those that go? | restore: 2 rows, 2 edits, deletions, refusals, any crashes; schedules: 2 sessions, 3 occurrences, 2 tenures, 1 failing change; loop: 2 turns of 2 calls of any kind, 1 steering, 1 held change; daemon: 2 clients, 3 requests each, 2 leases | holds, 1.96 M states |
| `native` | do the claims implement locks and let everybody in? does an interrupted turn end? does the native engine keep its queue honest, and do its callers return? | 3 calls of 2 processes, 1 failure; 1 turn of 2 calls; 2 inputs of any intent, operations that leave a promise, 2 further asks | holds, 94 k states |
| `input_pending` | is the budget of pending inputs kept? | budget 1, 2 ids | violated |
| `codex_export` | does an interjection during an export get handled? | 2 inputs, 1 export | violated |
| `native_reserved` | does an interjection during any operation of the native engine start? | 1 input, every kind of operation | violated |
| `restore_stuck` | can an interrupted restore always be concluded? | 1 row, nobody else | violated |
| `early_read` | do early reads keep the order, too? | 1 turn of 2 calls, 1 steering | violated |
| `writer_lost` | does work stop with its writers when a plan waits for approval? | 2 clients, tool and plan questions | violated |

Components that share no state run side by side: a behaviour of `session_state`,
`services` or `native` picks one of the modules and takes its steps only, the others stay in an
initial state. This is not a composition and is not meant as one: it asks the
questions of several modules in one run. `codex_session` checks one module in four
kinds of surroundings, since all of them at once are too many states.

Why the bounds are enough. The queue's properties relate one input to the record
or two inputs to each other, so two ids show every relation; two epochs let an
id outlive a clearing, and the budgets are 1 or 2 so that they are reached
(`MaxPending`, `MaxItems` and `MaxBodies` are parameters of the proofs). Two
turns are needed for late notifications and responses to meet another turn; a
third meets no new state, since a session has at most one active turn. Three
calls of two processes, one of which overlaps both others, are the smallest
instance in which a call waits behind another that waits, in another process and
in its own. Two sessions with different identities show every takeover of a
schedule; its third occurrence no longer fits into the tokens of its lifetime,
and the second already has the manifest forget one (`Retention`). Two calls of a
response show every pair; a second turn shows what an earlier one leaves (held
changes, a failure noted for the loop). Two clients show every conflict of
leases, and three requests each let one be repeated, one be late and one steal;
leases live one unit, so that they expire between any two steps. In the history,
three operations are a compaction, a rewind or a move on either side of another
one, and two openings let one be interrupted and repaired; four boundaries let
two of them share a context and one be pruned or refused. Larger instances (3
messages, 4 operations; 3 operations and 3 openings) hold as well and take
longer than a run should.

Every bound is a constant: `MaxTurns` counts turns and is enforced where users
ask for more work, never inside a handler; `MaxAsks` counts interrupts, exports
and what else the user asks; `MaxCrashes` process ends; `MaxFaults` and
`MaxScheduleFaults` failures of the storage; `MaxSteers` steering; `MaxHeld`
changes that outlive their call; `MaxTime` and `MaxTenures` the clock of the
schedules; `MaxMessages`, `MaxOpens` and `MaxFileFaults` what is said, opened and
fails in the history; `MaxQueued` the operations that wait in the hub; `Edits` and `ByHand`
what other programs write. `Kinds` and `Operations` say which calls and operations
an instance has, `Surroundings` what the surroundings of the Codex
session do, to keep each run's question apart. A steering input that finds no
turn becomes a turn of its own, so the interrupts of `codex_turns` need no
follow-ups; `codex_session` has all three intents. The proofs of section 5 have no bounds of
this kind: they hold for any number of calls, clients, requests, edits and faults.

`SYMMETRY` permutes ids or clients in runs without liveness. Runs with liveness,
and `services`, whose names belong to several modules, fix instead which of the
interchangeable names comes first (`LeaderFirst`, `FirstFirst`): no property and
no fairness condition tells them apart. `CHECK_DEADLOCK FALSE` is set where a
session really stops and the module has no step for it; `MutationClaims`,
`Schedules`, `NativeTurns` and `MCServices` say by a step of their own where they
are at rest, so that any other stop is a deadlock that TLC reports.

### What the properties say

* `AcceptedOnce`: an id is acknowledged as new at most once; its item answers
  until it is cleared, its epoch afterwards.
* `NoSilentReplay`: an input starts running only on a request of the user made
  since its last start.
* `StaleDirectoryHeld`: inputs of an older working directory wait for an edit.
* `ListOrder`: moves, clearing and appending keep the items a list.
* `NoOrphan`, `NativeNoOrphan`: an input recorded as under way is known to the
  process that runs it.
* `DurableBeforeDispatch`: while a turn is active its inputs are recorded as
  running.
* `NoLostWakeup`: when there is work, something is under way that will look.
* `CompletedIsTrue`, `HonestFailure`: a completion is that of the last provider's
  turn that carried the input; when the provider completed that turn, the input is
  never recorded as a failure, with one exception the code makes on purpose (the
  boundary could not be recorded, and the runner is halted with an error).
* `CompletedIsRecorded`: the native engine calls an input completed only when the
  turn that carried it completed and was written.
* `OneTurnAtATime`: no request while an acknowledged turn still runs.
* `InterjectHandled`, `InterruptReturns`, `CloseSettles`; `CallersReturn`,
  `InterjectionStarts`: the things that must come to an end, in either engine.
* `UntouchedByOthers`, `RestoredOrPut`, `BlockedOnlyByLeftovers`: a restore
  destroys no edit of others; ends all or nothing; and fails without outside
  interference only because of the two leftovers described below.
* `ClaimExclusion`, `ClaimKept`, `ClaimAdmitted`, `ClaimsImplementLocks`:
  operations on overlapping paths are never under way together; no live claim is
  reaped; every call that waits stops waiting, unless a live process keeps a claim
  it could not remove; and the order in which calls are let in is that of
  `PathLocks`.
* `ChargedOnce`, `WithinBudget`, `WorkIsOwned`, `EnabledIsReviewed`: through
  deaths, stops and takeovers of workers, what a schedule has used is the sum of
  what its occurrences used, forgotten ones included; it passes its budget by one
  model call at most; the work of an occurrence is in one session, which holds the
  lease; no schedule is enabled while a bad or unknown outcome waits for review.
* `HistoryAnswered`, `RoundInOrder`, `EffectsCovered`, `TurnEndsOnInterrupt`: every
  call is answered once, in the next message, before the provider is asked again;
  a change and what comes after it in a response do not overlap; files change only
  under the claim and an open checkpoint, also when the work outlives its turn; an
  interrupted turn ends.
* `ContextsRetained`: whatever is captured, pruned or collected, in whichever order
  files are unlinked and operations die, each boundary finds its context.
* `SwitchSettles`: an opening finishes or cancels an interrupted rewind; it refuses
  the session only if transcript and selected boundary had parted before.
* `TranscriptFollows`: at rest, what a resumed session would load is the context of
  the selected boundary, unless something failed, died or added context of its own
  since the two were last brought together.
* `WorkHasWriter`, `WritesAreAuthorized`: between operations, a thread without
  leases does nothing and is about to do nothing; a request runs once, and what it
  writes it writes under a current lease that is compatible with all others.

### Fairness

Liveness runs assume that the thread keeps running: for Codex, weak fairness of
one disjunction, `Progress`, of everything the runtime will do by itself: pending
microtasks, the expiry of the 30 s timers of requests and of `interrupt()`, the
notice of a lost connection, and the steps of a close that was begun. It is one
disjunction because a loop of microtasks may starve the rest; splitting it would
assume away the finding below. An export comes to an end if the thread lets it
(`WF(RecoveryEnds)`). For the native engine: weak fairness of the microtasks, and
of what the engine awaits when no microtask is pending (`TurnProgress`: building a
prompt, writing the transcript, an operation, and a turn that was interrupted; a
turn that was not may take for ever). In `ToolTurn` only the steps of an aborted
turn are fair, because the signal reaches every await of the loop; without it,
providers, tools and questions to the user may take for ever. In `MutationClaims`
a live process goes on with what it has begun, operations settle, and
`OpenRegistry` is strongly fair: the registry is held for one change and every
waiting call tries again each 20 ms, so it is not beaten to it for ever. Strong
fairness is the one assumption that goes beyond the scheduler; with weak fairness
two calls that poll in step could starve a third. Processes may die at any time.
Nothing is assumed of the provider, which may run a turn for ever and leave
requests unanswered, nor of the user.

## 4. Disagreements found

1. `retry()` does not look at the budget of pending inputs
   (`input-queue.ts:307`), which `DESIGN-M5B.md:20-21` states (`input_pending`).
2. An interjection queued while the session is exported, renamed or forked makes
   the runner call `interrupt()`, which returns at once because no turn is
   active, and wake itself again: an endless chain of microtasks in which the
   export never gets its I/O (`queue-runner.ts:54`, `codex_export`).
3. The native engine meets the same chain when the context is inspected or a
   permission rule edited: both reserve the engine (`engine.ts:2218`, `2285`) and
   leave no promise, so `#interruptAndSettle` returns at once (`native_reserved`).
   Compaction and `#inputOperation` leave one, and with these alone
   `InterjectionStarts` holds, which `native` checks. The safety
   properties of `NativeTurns` are proved for every kind.
4. A crash between `link(stage, file)` and `unlink(stage)` leaves a file with two
   names, which `SafeParent.read` refuses ever after; a crash while a stage is
   written leaves one that differs from its target. Finish, rollback and cleanup
   then all fail although nobody touched the files (`restore.ts:290`,
   `restore_stuck`). `BlockedOnlyByLeftovers` shows that these are the only ways.
5. A call that is not a concurrent read stands in the way of the reads after it,
   but not when steering is waiting at the moment it arrives: the callback returns
   before it sets the barrier (`loop.ts:1337`). If the user withdraws the steering
   before the next call, a read runs early, before the change it follows in the
   response, against what `loop.ts:1587-1589` promises (`early_read`).
   `RoundInOrder` holds of all calls that do not run early.
6. When the last writer goes while the approval of a plan is open, the hub answers
   `decline` (`hub.ts:145`), which that question does not offer; the answer throws
   after the leases are deleted, and the turn goes on without a writer. Nothing
   tries again, and stealing the lease fails the same way. `docs/server.md:23` says
   "Losing the last writer interrupts its work." (`writer_lost`). With questions
   that offer a refusal the promise holds, which `services` checks and
   `WorkStopsWithItsWriters` proves.

Seen in `InputQueue`: the marker that a reviewed resume leaves (`reviewed`) survives
an opening that finds only finished inputs (`input-queue.ts:119-123`), although
`DESIGN-M5B.md:110` says "Opening consumes it".

Seen in `SessionHistory`, and no violation of a stated promise that a run could
show on its own: context that a `session.start` or `session.resume` hook adds is in
the history and reaches neither transcript nor boundary (`engine.ts:1359`), although
`transcript.ts:2-4` calls the transcript "the session's model-visible history"; a
rewind interrupted after the two had parted is refused at every later opening
(`recovery.ts:52`), and no command line operation ends it; and `/compact` asks for
no pending recovery, so that a compaction while a publication waits is undone by
the next opening. These are the cases in which `strayed` is true.

Seen in `CodexQueuedTurns`: the record keeps the last status of an input only. When
`turn/start` is not answered the input is uncertain and a retry asks for an
acknowledgement; if the provider then refuses the retry, the input is `failed`
(`queued-turns.ts:186`), and the next retry asks for nothing, although the provider
may have completed the first turn. `HonestFailure` is therefore about the last turn
of an input, which is as far as the record goes.

## 5. Proofs

`InputQueue_proofs` proves, for every set of ids, of intents and of forms and
every limit that satisfies the named assumptions of `InputQueue` (finitely many
ids; limits are natural numbers):

* `TypeCorrect`: `Spec => []TypeOK`. Lemmas type each record operator; the step
  has one case per action.
* `AcceptedOnceHolds`: `Spec => []AcceptedOnce`. The property is not inductive:
  nothing in it stops `submit` from accepting an id again. The strengthening
  `Remembered` says why: an id that has been accepted is either present or was
  minted in an epoch that is over, and `submit` needs an absent id of the current
  epoch. Clearing is the step that moves ids from the first case to the second.
* `StaleDirectoryIsHeld`: `Spec => []StaleDirectoryHeld`. `resume` releases only
  inputs that carry no such mark, `retry` refuses them, recovery and failed
  admissions only block; the strengthening `Marked` adds that a marked id is
  present, which is why a fresh submission cannot inherit a mark.
* `NoSilentReplayHolds`: `Spec => NoSilentReplay`. The invariant `Granted` says
  that an input in line, held or admitted has a request the user made since it
  last ran; a start consumes it, and only user actions create one.
* `ListStaysOrdered`: `Spec => []ListOrder`. That n inputs are on the places 1..n
  is kept by moving, dropping and retaining because each is a shift of the list
  whose sources are counted; the lemmas about cardinalities say how many inputs
  stay, and that every place below has exactly one.

`FileChanges_proofs` proves of `FileRestore`, for any number of files, any set of edits and with
or without withdrawn permissions, the three safety invariants of the file: they
rest on each other in this order.

* `FilesTyped`: `FSpec => []FTypeOK`. `ControlOK` types the journal and the place
  of the process and says that a cleanup has a closed journal; `FilesOK` types
  the files and says that a second name has the file's content. It needs `Known`,
  what a step may still rely on although others edited the file after the
  process looked: it vacates into a free hold, writes out only a stage of its own
  that is no name of the file, and links only names that exist.
* `EditsSurvive`: `FSpec => []UntouchedByOthers`. The invariant alone does not say
  why `unlink` is harmless. `Removable` does: a name about to be removed is a
  second name of the file, or what it holds is nobody's edit any more. Another
  program may turn the first case into the second by replacing the file; that a
  new edit is nowhere yet (`Placed`) keeps it so.
* `AllOrNothing`: `FSpec => []RestoredOrPut`. `InPlace`: a row recorded in the
  direction of the journal has its file; `InOrder`: the rows are recorded in
  order, and one that is recorded is not replaced again; `Closed`: a journal is
  closed only when all are recorded, and after it is removed nothing runs.
* `OnlyLeftoversBlock`: `FSpec => []BlockedOnlyByLeftovers`. As long as nobody else
  touched the files, every row is in one of a few shapes (`RowShape`), which say
  what the file, the hold and the stage contain for each direction and progress;
  a recovery goes on from each of them. What is left is a second name or a stage
  not written out, and that case is the `Leftover` of the property.

`MutationClaims_proofs` proves, for every set of calls, processes and paths:

* `ClaimsTypeCorrect`: `ClaimSpec => []ClaimTypeOK`.
* `ClaimsAreKept`: `ClaimSpec => []ClaimKept`. A call that holds a claim holds its
  own lease, so no reaper drops it: its claim is in the file *and* in the copy of
  any section under way (`Keeps`, of both), which is what makes writing an old
  copy back harmless. A section that belongs to a call that died is gone with it.
* `ClaimsExclude`: `ClaimSpec => []ClaimExclusion`. A call is let in on the
  evidence of its copy; since every operation under way is in the copy and marked
  as running, an overlapping one would have blocked it (`AdmitIsExclusive`).
* `ClaimsAreLocks`: `ClaimSpec => ClaimsImplementLocks`, the refinement of
  `PathLocks`. A call decides on its copy, which was read before and has lost the
  entries that were reaped since. `LineInv` says that this makes no difference to
  the line: no call has two entries in the file or the copy, the copy lists nobody
  whom the file does not, and of two calls that hold a claim both say the same about
  who came first. Reading, probing and reaping are stutters; registering joins the
  end of the line, and every way in which a process ends takes the calls it ran out
  of the line together.

`Schedules_proofs` proves, for any sets of sessions and schedules, any budgets and
any number of occurrences:

* `ScheduleIsConsistent`: `ScheduleSpec => []SInv`, where `SInv` is `ManifestInv` (the
  rows of the manifest are numbered, typed and charged; at most one row of a
  schedule is live) and `WorkInv` (a session at work holds the worker's lease in
  this tenure, and the row it is working on is its own).
* `OccurrencesAreChargedOnce`: `ScheduleSpec => []ChargedOnce`. What a schedule has
  used and reserved is a sum over rows that change one at a time; the module first
  proves what adding, changing and dropping an element does to the sum of a
  function over a finite set.
* `SpendingStaysWithinBudget`: `ScheduleSpec => []WithinBudget`. The property allows an
  overrun, because a run ends with what it really took, and alone would let the
  next run start on top of it; `InBudget` adds that while a run is live, what was
  used before it and its reservation are within the budget.
* `WorkHasOneOwner`: `ScheduleSpec => []WorkIsOwned`, and `EnabledOnlyAfterReview`:
  `ScheduleSpec => []EnabledIsReviewed`.

`NativeTurns_proofs` proves, for any set of inputs and every limit of the record:

* `EngineStaysConsistent`: `NativeSpec => []NInv`. The parts are: the engine's
  places fit each other (`Fits`), `close` waits for what is still there
  (`CloseFits`), every input the record shows as begun is held by somebody who
  will settle it (`Accounted`), and what is completed was recorded (`Done`). Most
  steps run several microtasks and calls into the record; the proof follows
  them on the pair of record and engine (`Now`), call by call.
* `NoInputIsOrphaned`: `NativeSpec => []NativeNoOrphan` and `CompletedMeansRecorded`:
  `NativeSpec => []CompletedIsRecorded`, from its last two parts.

`CodexQueuedTurns_proofs` proves, for any set of inputs, any number of turns and
crashes, and whatever the surroundings do:

* `SessionStaysConsistent`: `TSpec => []CInv`. None of the properties below is
  inductive: each speaks of one hand that an input may be in, and inputs pass from
  hand to hand. The parts of `CInv` are `TurnsFit` (the active turn is the one the
  runner dispatched or `send` started; a turn that is not active has been answered),
  `Apart` (no input is in two hands), `Carried` (an input is recorded as running
  exactly as long as it is in one, and never left as admitted between two steps),
  `AtRest` (a turn that can be settled is, and a start that was answered well knows
  its id), `CallFits` (the interjection an interruption makes room for is in line
  and stays out of the turns until it is over), `Looks` and `Informed` (below), `Afforded` (an
  input in line was asked for, so that there is a turn for it under the bound of the
  model, which no handler checks) and `Announced` (what the provider can have
  said). `TurnsFit`, `Apart` and `Carried` hold in the middle of a handler too,
  where `AtRest` may not; a lemma for each operator on the machine `m` says what it
  does to them, and the proof of a handler composes the lemmas as the handler
  composes the operators.
* `NoInputIsLeftBehind`: `TSpec => []NoOrphan`, and `RecordComesFirst`:
  `TSpec => []DurableBeforeDispatch`, both from `Carried`.
* `NoWakeupIsLost`: `TSpec => []NoLostWakeup`. A wake-up is lost if the runner looks
  while something stands in the way and nobody wakes it when that is gone. `Looks`
  says so of each that can stand there, the pump, an interruption, an export, the
  active turn, and that a pump which has ended leaves no turn behind.
* `CompletedIsTheProvidersWord`, `FailuresAreHonest` and `TurnsDoNotOverlap`:
  `TSpec => CompletedIsTrue`, `TSpec => HonestFailure` and `TSpec => OneTurnAtATime`.
  The step that records a result reads only the session's memory, so these need what
  makes that memory true: `Informed`. What a turn is known to have ended with is what
  the provider said of the turn with that id (`Grounded`), the ids agree once the
  start has been answered, a turn the session no longer waits for may still run at
  the provider only after a failed start or with the runner closed, and no later
  turn than the pump's carries the pump's input, which is what makes its result that
  of the input's last turn although the input may have been retried before. Each
  lemma on the way also says that the machine still knows its turns (`Known`) and
  that what its record says of the inputs is true (`Told`).

`Hub_proofs` proves, for every set of clients and every limit:

* `WorkStopsWithItsWriters`: `HubSpec => []WorkHasWriter` if no question is the
  approval of a plan. Losing the last lease and stopping the work are several
  steps with awaits between, so the invariant follows the operation: while it
  waits for the turn to settle or the thread to close, the session is quiet (its
  queue paused, its turn aborted, nothing asked), after that it is stopped, and
  nothing but a writer starts it again. The assumption is the finding 6.
* `OnlyWritersWrite`: `HubSpec => WritesAreAuthorized`. A repeated request does not
  reach the inbox; that what runs was not run before needs the invariant that the
  requests of a client wait in the order of their ids, all used and none run
  (`Numbered`). Exclusive leases stand alone through grants, thefts, renewals.

`FileChanges_proofs` proves of `ToolTurn`, for responses of any length and any limits:

* `EveryCallIsAnswered`: `ToolSpec => []HistoryAnswered`. The history is open
  exactly while a round runs, and then with exactly the calls of the round.
* `CallsKeepTheirOrder`: `ToolSpec => []RoundInOrder`. Not inductive: the invariant
  (`CallsInv`) adds that a call at work that is no read is alone, with an empty
  batch; that nothing is begun behind a call that is at work or batched, unless
  both are reads; and that what the round has not come to is as it arrived. In
  the stream only early reads are at work (`StreamInv`).
* `ChangesAreCovered`: `ToolSpec => []EffectsCovered`. At most one holds the
  claim; a change between its checkpoint and its end is in `covered` as the turn's,
  and what is held keeps both until it is finalized (`EffectsInv`).

`SessionHistory_proofs` proves, for any number of boundaries, messages, operations,
openings and failures:

* `HistoryInvariant`: `HistorySpec => []IInv`. The graph is well formed (`HTypeOK`);
  files about to be unlinked hold no context of a boundary (`BlobsOK`, which is why
  `ContextsAreRetained` follows although pruning takes many steps); which recovery
  may be due at each place of an operation (`ReadyOK`); and what is known there of
  history, transcript and boundary (`HistoryOK`, `FollowsOK`).
* `TranscriptAlwaysFollows` and `SwitchAlwaysSettles`: neither is inductive. While a
  turn runs, the transcript is the history up to where the turn began, which makes
  an append as good as a snapshot; while a switch is pending, the transcript is the
  context of one of its two boundaries, which is what `initialize` compares.
* `SelectedIsAlwaysWritten`: a step that ends a head switch by selecting its target
  finds the target's context in the transcript.

The proofs use only what each step needs; the temporal steps are discharged by
PTL. Model-checked only: the liveness properties, which are out of the prover's
reach. An induction over data is done
where one is needed (the sums of `Schedules`), as a proof about the least element
of a set of numbers; what recursive operators compute would remain out of reach,
and none is used here.

## 6. Not modelled, and the plan

What is left, in the order in which it would be added:

1. `HookReceipts` (`engines/codesplash/hooks/`): intent and effect around a crash.
2. Leases, reindexing and quarantine of the session repository; the write chain
   of the recorder; forks of a session, and file checkpoints with their pruning.
3. Children and teams of the native engine; tasks, peers and worktrees.
4. The rest of the hub: events and their replay, the index of threads, a queue
   that stays paused after an interruption of the hub, requests of children.
5. `QueuedDispatch`, an abstract specification of what the runner promises about
   one input, with `CodexQueuedTurns` and `NativeTurns` shown to implement it.

Not planned: parsing of shell commands and configuration, provider formats,
what a summary says, sandboxing by the operating system, the terminal interface,
packaging. They are most of the code by lines and are data, presentation or
outside behaviour rather than state machines of this program; the models cover
the parts where the order of events decides.

## 7. Running

    tlc -config MCSession.cfg MCSession.tla
    tlc -config MCCodexTurns.cfg MCCodexQueuedTurns.tla
    tlc -config MCCodexSession.cfg MCCodexSession.tla
    tlc -config MCServices.cfg MCServices.tla
    tlc -config MCNative.cfg MCNative.tla
    tlapm InputQueue_proofs.tla
    tlapm CodexQueuedTurns_proofs.tla
    tlapm MutationClaims_proofs.tla
    tlapm Schedules_proofs.tla
    tlapm NativeTurns_proofs.tla
    tlapm Hub_proofs.tla
    tlapm FileChanges_proofs.tla
    tlapm SessionHistory_proofs.tla

Every property of a passing run has a mutant: an operator `X_Something` before
the definition `X` it replaces, the code with a plausible bug. `PROJECT.json`
pairs them, maps each definition to the lines it models, and lists the hazards
with the properties that would notice.
