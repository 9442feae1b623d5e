# A verification project for UthCode

UthCode is an agent for software work: a Python core that talks to a model
Provider, runs the tool calls it asks for, and shows all of it in a terminal or
a desktop window. This directory holds TLA+ models of its core, the TLC
instances that check them, and proofs checked by TLAPS. Paths below are
relative to `src/uthcode/` unless they begin with `docs/` or `desktop/`.

The whole Python program runs on one asyncio event loop. Between two `await`s a
coroutine is atomic, so the models interleave at `await`s and nowhere else.
That is the most important modelling decision here: an action is a stretch of
code from one `await` to the next (cut into several actions where the code
branches, but then no other coroutine may act in between).

## 1. Inventory

| Part | State | Operations | Talks to | Module |
|---|---|---|---|---|
| Agent turn, `core/agent.py` | transcript, continuation, open batch, prepared call, flags for steering, pause and limits | `run_segment`, `_run_tool_batch`, `apply_response`, `request_steering`, `_cancel_segment`, `_fail_segment` | Provider, tool executor, permission policy, driver | `AgentExecution` |
| Turn driver and handle, `application/runs.py` | asyncio task, one response waiter, pending pause, result future | `_run`, `pause`, `resume`, `cancel`, `steer`, `events`, `result` | the execution, the user interface, the run | `TurnDriver`, `TurnLifecycle` |
| Planning and interaction, `core/planning.py`, `core/interaction.py` | behaviour mode, task list, plan revision | validate and apply a response | agent turn | `AgentExecution` |
| Tool registry and executor, `core/tool.py`, `application/tools.py` | registered tools | prepare, execute | tools | `AgentExecution` |
| Runaway detector, `core/agent.py` | window of calls, streaks, correction issued | `record_tool`, `record_final_block`, `reset_suspicion` | agent turn | `RunawayDetector` |
| Run history, `application/runs.py`, `application/generation.py` | closed messages, FIFO of batches not yet durable, deferred events | `start_turn`, `complete_turn`, `_persist_closed_messages`, `_flush_pending_persistence` | Session writer | `RunHistory` |
| Session files, `integrations/session_files.py` | transcript, timeline and metadata files, quarantine | `append_transcript`, `append_timeline`, reconcile, tail repair, reload | file system | `SessionLog`, `SessionWriter`, `Timeline` |
| Session service, `application/sessions.py` | active Session, writer lock | create, resume, switch, move, close | Session files, instructions | `SessionService` |
| Context and compaction, `application/context.py`, `core/compaction.py`, `core/context.py`, `application/generation.py` | timeline of summaries, single-flight lock | prepare, count, reduce, gate, five kinds of pass | Provider, Session files | `ContextBudget`, `ContextRequest`, `EpochSummary`, `Timeline`, `Compaction` |
| Permission policy, `core/permission.py`, `integrations/permissions.py` | rules, mode, grants | evaluate, grant | agent turn, bridge | `Permissions` |
| Process sessions, `integrations/tools/process_sessions.py`, `process_tools.py` | processes, output ring, cursors | start, read, stop, timeout, close | operating system | `OutputRing`, `ProcessSessions` |
| File and patch tools, `integrations/tools/` | what the Agent has read | read, write, edit, patch | file system | `WorkspaceFiles` |
| Results and history pages, `integrations/tools/tool_result_read.py`, `history_read.py`, `integrations/session_files.py` | stored results, cursors | store, read a page | Session files | `ToolResults`, `HistoryPages` |
| Attachments, `application/attachments.py`, `integrations/attachment_files.py` | drafts, submitted, quotas | import, mark, remove, collect | file system | `Attachments` |
| Model selection, `application/generation.py` | model, Provider, default, limits | switch, reload, restore | configuration, Session | `ModelSelection` |
| Provider contract and adapters, `core/provider.py`, `integrations/providers/` | one streamed attempt, the cancellation token | stream, validate, cancel | network | `ProviderStream`, `Cancellation` |
| Configuration, `application/configuration.py`, `integrations/config/` | layered settings | load, save | file system | `UserConfiguration` |
| Instructions, `application/instructions.py`, `integrations/instruction_files.py` | scopes, epoch | discover, persist, resume, recover | file system, Session | `InstructionScopes` |
| Desktop bridge, `interfaces/desktop/bridge.py` | registry of Applications, background tasks | requests of the window | everything above | `DesktopRuntimes`, `DesktopReads` |
| Desktop shell, `desktop/src/main.ts`, `python-runtime.ts` | the Python child, pending requests | start, request, stop, quit | bridge | `RuntimeLink` |
| Other tools, commands, bootstrap, terminal interface, renderer | none that outlives a call, or widgets | - | - | not modelled |

What is hard, and what makes each part correct:

* **Agent turn and driver.** A user may pause, steer, cancel or answer at every
  `await`. A batch of calls can be left in seven ways and has to be closed in
  each; an approval must bind to its call and be used once; a response reaches
  the Core before the driver's task wakes. One waiter, one outcome, and a
  cancelled turn has to end.
* **Run history and Session files.** An append can fail with nothing, part or
  all of it on disk, a process can stop at any point, and what is queued must
  keep its order. A message is durable at most once, in order.
* **Session service.** Locks of several processes, a switch that opens the next
  Session before it leaves the old one, requests that are repeated.
* **Context.** A request is counted over an `await` and rebuilt; what is counted
  must be what is sent, and what is sent must be the conversation. Summaries
  must cover each Turn once; a pass can be cancelled at each of its callbacks.
* **Processes.** A ring of chunks read by byte cursors; a timeout races a stop
  and the natural exit; nothing may live on without a watcher.
* **Desktop.** Turns, compactions and preparations go on in the background while
  the window navigates; an Application may be lost or closed under its work.
* **Readers and writers of files.** The user's editor, a crash or a failing
  write may come between any two steps of a tool, of a save or of a page.

Components and their status are listed in `PROJECT.json`; so are the hazards,
each at its line with the properties that cover it.

## 2. How the modules fit together

Modules that EXTEND one another share state: `TurnDriver` over
`AgentExecution`; `RunHistory` over `SessionWriter` over `SessionLog`;
`ProcessSessions` over `OutputRing` over `Selection`; `Compaction` over `Timeline`;
`ContextRequest` over `ContextBudget`. `Selection` has the members of a sequence that
are in a set, which `ProviderStream` uses as well. Properties, TLC instances and proofs
are modules of their own over these (`TurnProperties`, `HistoryProperties`,
`CompactionProperties`, `DesktopProperties`; `MC...`; the eight modules of section 6).

The other components meet only through a verdict or a result, and there each is
a nondeterministic choice of the other: the turn takes the verdicts of
permissions, of the runaway detector and of the request preparation as a
choice; `Compaction` takes the outcome of an epoch, which `EpochSummary`
details; `RunHistory` reduces the Core to the messages it adds.

Components without common state are checked in one run each for the two groups
`MCComponents` and `MCContext`. A variable `topic` says which component a
behaviour is about; the others stay as they began, so that the number of states
is the sum of theirs and not the product, and every property is implied by the
component's own specification.

## 3. The modules

### AgentExecution (`core/agent.py`, `AgentTurnExecution`)

`pc` names where the driver's task stands. `SegmentAwaits` and `DriverAwaits`
are its `await`s, at which `TurnDriver`'s handle calls may act; at
`InternalPoints` the task holds the event loop and only its own actions are
enabled.

| Variable | Code |
|---|---|
| `status`, `termination`, `messages`, `iteration` | the `RunState` of the turn |
| `cancelled` | the turn's `CancellationToken` |
| `cont` | `_continuation`: stage, iteration, pending pause |
| `batch` | the batch of the continuation: its calls, `next`, the control reason for refusing it whole, and who called `_run_tool_batch` |
| `permit` | `_pending_prepared_call`, `_pending_permission_choice` |
| `steering`, `pauseSignal`, `attempt` | pending `SteeringRequest`, the segment's pause token, `_active_segment_signal` |
| `unknownTools`, `mode`, `unfinished` | `consecutive_unknown_tools`, `behavior_mode`, `task_state.has_unfinished` |
| `tools`, `facts`, `used` | history variables: `ToolStarted` and `ToolFinished` seen, executions and grants per call; applied steering, unknown effect; spent bounds |

A message is its role and its number of calls, a call is its kind (`ask`,
`todo`, `plan`, `read`, `write`, `unknown`). The groups of actions follow the
code: the top of the loop (`LoopStep`), request preparation (`PrepareStep`), the
checks after each of the two awaits (`BoundaryStep`), the ways an attempt ends
(`AttemptStep`), the handling of a response (`ResponseStep`), the tool loop with
its checks before each call (`BatchStep`), and a tool's return (`ToolStep`).
What the Provider answers, whether a tool raises, what the policy decides and
whether the runaway detector fires are nondeterministic choices.

### TurnDriver (`application/runs.py`, `_TurnDriver`, `TurnHandle`)

`DriverStep` is the asyncio task between segments: start a segment with a fresh
pause token, publish a pause and wait, wake, resume over two `sleep(0)`, clean
up, finish. `Control` holds the calls of a user interface (`events`, `pause`,
`cancel`, `steer`, `resume` with each kind of response). `Shutdown` is a
`CancelledError` delivered to the task, handled differently inside a segment,
inside a tool and between segments.

### TurnLifecycle

The abstract specification: running, paused or done; a pause ends by one answer
or by cancellation; one outcome, not `completed` after an accepted
cancellation. `ImplementsLifecycle` is its specification under the mapping of
`TurnProperties` (paused = the waiter is open, outcome = the result).

### TurnProperties, MCTurn

The properties, each with a comment that says what it is about, and the TLC
instances.

### SessionLog (`core/history.py`, `_validate_transcript_append`)

The Transcript as a sequence of entries without variables. A message has
`Parts` parts and each becomes one entry, filed under its Turn; the entries of
a Turn are one semantic unit. `ValidAppend` is the validation before a write:
at most the last unit lacks results, and then only its missing results may
follow.

### SessionWriter (`integrations/session_files.py`, `SessionWriter`)

| Variable | Code |
|---|---|
| `lines`, `torn`, `broken` | `transcript.jsonl`: its complete lines, a last line without line end, a corrupt record in the middle |
| `loaded` | `_loaded.snapshot.transcript` |
| `writer` | no writer, an open one, or one whose durability is unknown |

`AppendTranscript` is one call of `append_transcript`, with its verdict: refused
before the write, `Confirmed` by a load, `Absent` after the reconciliation, or
`Ambiguous` and quarantined. `OpenWriter`, `CloseWriter`, `LoseMetadata` and
`CrashWriter` are the rest of the writer's life. The file is a sequence of
whole lines and a flag, since the code looks at bytes only to find the last line
end.

### RunHistory (`application/runs.py`, `application/generation.py`)

| Variable | Code |
|---|---|
| `messages`, `persisted` | `_state.messages`, `_persisted_message_count` |
| `queue` | `_pending_persistence_batches`: each batch as a range of messages, its Turn, blocked, terminal, failed |
| `active` | the Turn that runs: `_turn_message_start`, whether `_turn_session_id` is set, what the Core does next |
| `sync` | the synchronous call of `AgentRun` under way: `start_turn`, a user message event, the persistence before a request, `_complete_turn` |
| `held`, `shown` | user messages whose events are deferred or published |

A call of `AgentRun` is several actions, one per append, because a crash may
fall between two; nothing else can, so every other action waits for
`sync = "none"`. `FlushCommits` and `FlushStops` are the loop of
`_flush_pending_persistence`, and `AfterFailedFlush` what each caller does then.
The Core is reduced to the messages it adds; that they are closed is
`ToolProtocol` of the turn modules. `RequestTurn` to `FinishTurn` follow one
Turn; `UseSession` and `ReopenInTurn` are what the Session service does to the
writer between Turns and inside one; `Crash` starts a new `AgentRun` on the same
file.

### Timeline, Compaction, CompactionProperties

`Timeline` has the records of a Timeline over the Transcript, abstracted to the
number of its complete Turns: fine records, macro records that stand for
several, and the checkpoint that commits a transaction; and the plans which
Turns are due. `Compaction` is one Session's passes (`manual`, `image`,
`automatic`, `overflow`, `aging`), each a token in `pass` that goes from one
callback's `await` to the next, and the writer of the Timeline with the outcomes
of an append; around them cancellation, a switch to another Session, a second
trigger, crashes and recovery.

### EpochSummary

How one epoch is made (`core/compaction.py`): which complete Turns fit into one
request, how one that does not is cut at characters into subpasses whose
summaries are folded in rounds, the validation of every reply, and the second
attempt. The Provider's reply has one `slip` of those the validation is about.

### ContextBudget, ContextRequest

`ContextBudget` is the arithmetic of `ContextBudget.from_limits` and of the
gates. `ContextRequest` follows one Run: `past` Turns, how many are `covered` by
summaries, the running Turn and what of it is `saved`; how `Compiled` chooses
blocks within the limit, how the two reductions shrink a candidate, how the
Provider's count comes back after an `await` (right, wrong by a factor, absent
or broken), and when the Application compacts instead.

### OutputRing, ProcessSessions, MCProcesses

`OutputRing` is `_ManagedProcess.append` and `read`: chunks with their cursor,
evicted from the old end. `ProcessSessions` gives each process its child, pumps,
watcher and timeout; `stop` says where each of the three callers of
`_terminate_managed` stands (a tool, the timeout, the close of the Session). `held`
is what the redactor keeps back of the output for as long as a secret may go on in
the next chunk; `_finish_state` files it before it evicts.

### SessionService

Two Applications over two Sessions and two projects: prepare a Session, commit
it, release the old one, write its metadata, and move it, with failing writes,
unknown durability, dying processes and repeated requests. `lock` is
`writer.lock`; `scopes` is what the resource loader was left with.

### Attachments, ModelSelection, UserConfiguration, Permissions

`Attachments`: drafts, their mark, quotas and copies, against failures and
crashes in every step. `ModelSelection`: what model, Provider, default and limits
the Application, its Sessions and the configuration have while switches run in
the foreground and in the background. `UserConfiguration`: saving a section with
renames and kept keys, reading the file with its defaults and blank profiles, and
merging files field by field, each compared with what the user has given.
`Permissions`: the layers of rules, the evaluation in the code's order, grants with
their directories, and the requests of process operations.

### ProviderStream, Cancellation

`ProviderStream` has a server with a message in mind, the adapter that puts its
frames together, and the validated stream; frames may be repeated, left out
where others make up for them, interleaved, or end early. `Cancellation` is the
token with its lock, waiters of the event loop and cancelling threads.

### WorkspaceFiles, ToolResults, HistoryPages

`WorkspaceFiles`: every content of a file is a version that is used once; a
record of the tracker is of parts of versions, and the user may write between
any two calls of the operating system. `ToolResults`: a text as code points with
their widths, a stored result, its quota and its pages. `HistoryPages`: the
Transcript as bytes, read backwards by blocks into lines, units and pages with
cursors while lines and compactions are appended; and the bisection of a range
for `HistoryRead`. The readers' pure parts are compared with reference
definitions in the assumption `ReadersAreExact` of `MCComponents`.

### InstructionScopes, RunawayDetector

`InstructionScopes`: discovery of `AGENTS.md` by scope with includes, the epoch,
what of it is saved, and files that change or cannot be read. `RunawayDetector`:
the counters of the code next to `log`, the full history of calls, over which the
properties are stated.

### DesktopRuntimes, DesktopProperties, DesktopReads, RuntimeLink

`DesktopRuntimes` is the bridge's registry: the current Application, `runtimes`
filed by Session or by name, Turns, compactions and cold preparations with their
tasks, saved settings on their way, and the shutdown. A request is one action,
since `serve_forever` handles them one at a time; tasks interleave.
`DesktopReads` has the two reads that run beside it, with their threads.
`RuntimeLink` is the main process: the child, the two pipes, requests with
timeouts, and the order in which exit, close and last lines arrive.

## 4. What the runs check

| Run | Question |
|---|---|
| `TurnControl` | two steerings, two pauses, cancellation, one retry, one redirected tool and one task shutdown against batches of one and two calls of every kind: is the transcript well formed (`ToolProtocol`), is every call reported and run as allowed (`CallsAreHonest`: `CallsClosed`, `ApprovalBinds`), is nothing run after a stop and nothing written in plan mode (`ToolsObey`: `StopsAreObeyed`, `PlanIsReadOnly`), do waiter and Core agree (`PauseCoherence`), is a result no steering and no cancellation was lost behind (`ResultIsHonest`: `SteeringIsHeard`, `CancelWins`), is the lifecycle implemented (`ImplementsLifecycle`), does a cancelled turn end (`CancelledTurnEnds`) |
| `HistoryFiles` | two Turns, five messages, every outcome of an append, crashes, reopening, lost metadata: is each message in the file at most once, in order and under its Turn, a failure the last record (`FileTellsTheRun`: `FileFollowsRun`, `FailureIsLast`), is what is acknowledged there (`AckedIsDurable`), does the queue hold the rest (`QueueIsTheGap`), and do `LogOnlyGrows`, `QuarantineHolds` hold |
| `HistoryFaults` | with failing repairs, attachments and Turns without a Session as well: is a deferred event delivered all the same (`EventsAreDelivered`) |
| `Processes` | a terminal with a timeout and a piped process: is a reader told what it missed, an exit only after the child is gone and its output read, and is what was kept back filed by then, except where section 5 says (`OutputIsWhole`: `ReadIsHonest`, `ExitedIsDrained`), does a close leave no process running that nobody reports as unknown (`NothingRunsUnwatched`), and does it end (`CloseEnds`) |
| `Context` | passes of five triggers with cancellation, navigation, failing appends and crashes: do summaries cover each Turn once (`SummariesTile`), is what a pass reports true of the file (`StatusIsHonest`), does a cancelled pass end (`CancelledPassEnds`); requests of three Turns: does what is sent fit, and is it the conversation (`RequestIsTheConversation`: `SentFits`, `SentIsTheConversation`); epochs against wrong replies: is the candidate the epoch (`EpochIsSummarised`: `CandidateIsTheEpoch`, `FoldsAreBuilt`) |
| `Desktop` | three Applications, two Sessions, a project and General, a Turn, compactions, preparations and a saved setting: is no Application lost (`NothingIsForgotten`), is none closed under work (`ClosesOnlyInactive`) |
| `DesktopShutdown` | work under way, a second project and a failing close: does shutdown end with nothing running (`ShutdownEnds`) |
| `Components` | fourteen components, below |

| Property of `Components` | What it says |
|---|---|
| `SessionsAgree` | a Session is locked exactly while somebody has it open or is about to, scopes on disk and at work are those of their Session, a move that is reported as done is true |
| `OriginalsAreKept` | what a durable message names is never deleted |
| `ModelIsTheSessions` | model, Provider and the Context's limits belong together and to the active Session, except after the two failures `adrift` records |
| `CommittedIsMeant` | a committed message is the one the server meant, whatever happened to the frames |
| `NobodySleeps` | no reader sleeps once the token is set and its callbacks have run |
| `PermissionIsEarned` | a catastrophic action is never allowed without asking, a denying Guard holds in every mode, a laxer mode allows what a stricter one does, a grant reaches only its kind and its place, and an approval is spent once |
| `SavesKeepKeys`, `ProjectsOnlyTighten` | renames carry each Provider's key and models; no project file widens a window, images or a limit the user has given, nor turns the search on, and every Provider is the user's |
| `FilesAreAsSeen` | an edit replaces only content that was read, and a patch reports what it did to the disk |
| `ReadBackIsWhole` | pages of a result and of the history put together give the whole, once and in order |
| `OneRuntimeAnswers` | one child at a time, nobody waits for a dead one, late answers change nothing |
| `EpochIsThePrefix` | an epoch names one prefix, sources go from broad to narrow |
| `LoopsAreCutShort` | a turn in circles is told the third time and stopped the fifth, over the history of calls |
| `NoReaderOutlives`, `AnswersAreCurrent` | no thread reads on after shutdown; a read is answered as completed only if nobody cancelled it and what it shows is still selected and registered |

**Bounds.** Two calls in a batch give a call before and a call after the one
that is interrupted. Two steerings and two pauses let the second arrive while
the first is being served; retries, redirects and shutdowns matter one at a time,
since each returns the turn to a control point with no memory but its counter.
After the last iteration the Provider no longer answers with tools. Two Turns of
together five messages give a Turn with a tool batch and an answer, its retry,
and a second Turn behind the first one's queue; two parts per message let an
append stop inside a message. `MaxLines` only stops new Turns once crashes have
filled the file. `RepairMayFail`, `Attachments` and `Sessionless` switch single
faults on, so that each disagreement shows one cause.

Three Turns and two epochs give a summary before, behind and inside another
pass's range; one fault, since each ends the pass it strikes. `MCScripts` has a
long answer, an image, two results of which one is long, and a result behind
which the user steers; `MCDues` has small Turns and one that may join them, one that
needs a whole request, one to cut, and two that fit nowhere. Two
Sessions with two Applications suffice for every conflict over a lock; two
processes for one that is evicted or stopped beside another; one byte in the
ring is the smallest ring that can lose, and the terminal writes two, so that one may
be filed, one kept back, or both; the pipe is there for its ends and stops and writes
nothing. The user's file begins without limits and without a table for the search, and
saves add both; project files lie below, at and above the user's and the highest limit. `Longest`, `WarnAt`, `StopAt` and
`Remembered` have the numbers that the code has. Each component of `Components` and
`Context` was also checked alone, with larger bounds where that was possible
(history pages with five lines or four passes, files with four versions, the
link with three requests, the concurrent reads with two operations and two
revisions).

Deadlock is not checked: a finished turn stops, and so does what waits for a
user, a closed Session, or a bound.

**Fairness.** A task that is ready is run by the event loop: weak fairness of the
driver's steps and of the steps between two `await`s (`TurnProperties`); of `Run`,
the run's own steps (`HistoryProperties`); of `Progress(p)` and of the closing of
the Session (`ProcessSessions`: the operating system ends what it was told to
kill, and the pumps of a dead child end); of a pass's steps while it is not at
an `await`, or once its token is set (`Compaction`: what a pass awaits watches the
token); of the tasks of Turns that have ended or were told to stop, of preparations, of
compactions and of the shutdown itself (`DesktopRuntimes`). A Provider, a user, a timeout or a
crash is never assumed to act: a Provider that never answers is a legal
behaviour as long as nobody cancels.

## 5. Where the code differs from what it says

Each of these is a run that TLC finds violated; `PROJECT.json` quotes the
sentence it contradicts.

* `FoundTornMiddle`: when the repair of a torn line raises, the writer stays
  open and the next append makes the torn line a corrupt record in the middle;
  the Session can no longer be loaded (`integrations/session_files.py` 995).
* `FoundRollbackDefault`: a model switch that fails after the configuration was
  written puts the Session's model back as the default, not the default it found
  (`application/generation.py` 3581).
* `FoundClosedUnderTurn`: an Application filed under two names is closed through
  the forgotten one while its Turn runs (`interfaces/desktop/bridge.py` 1229).
* `FoundRunningTurnDropped`: a running Turn that ends in tool results and does not
  fit loses its own user message, and the request is sent without it
  (`core/context.py` 1457).

Others come out when one constant of a passing run is changed or a guard of a
property is dropped, and are the reason for it:

* An unknown side effect after a pause within a batch does not end the turn
  (`core/agent.py` 1473 against 1803). Steering accepted while the overflow
  handler is awaited ends in a pause nobody asked for (`core/agent.py` 1629). A
  user pause after the last call of a batch skips the comparison with the limit
  of unknown tools (`core/agent.py` 3264).
* With `Attachments`, `RepairMayFail` or `Sessionless`, `FileFollowsRun` fails:
  a durable append counts as failed and is written again (`application/sessions.py`
  585, `integrations/session_files.py` 991), or messages of a Turn without a Session
  are filed under the next Turn (`application/runs.py` 505). A batch of unknown
  durability stays blocked after reopening (`application/runs.py` 285), and a crash
  between calls and results leaves a Session that refuses every next user message
  (`integrations/session_files.py` 1598).
* Compaction: a pass whose task is cancelled reports nothing of the epochs it had
  already made durable (`application/context.py` 741).
* Desktop: `resume` of the stale name answers another Session's data;  an Application kept in the registry for its processes stays there when another project
  closes it, and `session.resume` puts the closed one on screen (`bridge.py`, against
  "never revive a closed one" at 1609; `Revived` of `DesktopProperties`); an
  Application kept for a live process after a failed Turn is treated as a failed
  preparation and leaked (`bridge.py` 3432); `_activate_runtime` does not restore
  the project when it fails (3466); an Application prepared with the configuration
  before a save is not marked for a reload; a running model switch holds back
  neither reclamation nor reload (3670); a failing close ends the loop of
  shutdown; the name `publish_state` is not defined where it is used (2542). The
  catalogue changes silently in a search (2192) and in opening General again
  (2765).
* Model selection: a new Session during a committing switch leaves the current
  model different from the Session's; a resume whose restore fails keeps the old
  model with the new Session. `ModelIsTheSessions` excludes both by the history
  variable `adrift`.
* Session service: a move whose metadata write failed after the replace leaves the
  Session active in the old project, and a repeated request answers success; a
  quarantined Session cannot be left by `/new` or `/resume`.
* Attachments: a half-removed attachment can never be removed and keeps its quota;
  `attachment.remove` does not look for a running Turn (`bridge.py` 3908).
* Processes: the stop of a PTY says "exited" (`process_sessions.py` 847), waits up
  to a second for the watcher, and only then files the tail of the output that the
  redactor kept back (857). Whoever reads in between is told of an exit before the
  output is complete, and if the tool is cancelled there the tail is never filed.
  `ExitedIsDrained` excludes exactly these two (`Unreported`): by a pipe, by the
  watcher, or once a stop has reported, an exit means that nothing is kept back.
* Configuration: a project file is compared only with what the user has given. Without
  a `[search]` table of the user's a project raises `max_results`, `max_fetch_bytes`
  and `timeout_seconds` above the defaults, up to the safety limits
  (`loader.py` 849 and 1056), against "project configuration may only disable it or
  tighten bounded limits" (`configuration.py` 250) and
  `docs/user-manual/configuration.md` 58; with the search off, `max_fetch_bytes` and
  the timeout still reach the web tools. The same holds of the tools' timeout when the
  user gave none, where no limit is the default. `ProjectsOnlyTighten` says what does
  hold. A profile that gives nothing but `supports_images` counts as blank (890): a
  project that only turns images off for a model is not heeded.
* Files: a read of a few lines records the whole file as seen (`file_tools.py` 102),
  so an edit may replace lines that were not shown. `ApplyPatch` reads its target again at commit without comparing, and
  resolves paths again at execution; between check and write lies the window that
  `docs/core-design/A01-AgentRuntime` documents for this gate (the property counts
  it as seen).
* Shell: a clean close by the window is reported as "failed" for a moment; a
  failed Turn consumer reports "failed" while the bridge lives, after which every
  request is refused; after a clean stop a request of the open window starts a
  child again.
* Epochs: an oversized entry without text has no plan and blocks all later
  compaction; the fold limit is reported even if the last round's result fits. An
  exact count that fails after a reduction refuses the request without a
  compaction (`application/generation.py` 4675).
* Instructions: a running Session tolerates a wrong include, creating or resuming
  one does not; an epoch whose save was lost may come to name a second prefix.
* Permissions: a project's file may loosen a Guard of the user's; the choice of a
  process operation is not compared with those offered.
* Runaway detector: a cycle that contains three equal calls is corrected more than
  once and stopped one call later than others.

## 6. What is proved

Each theorem below holds for every value of the constants that satisfies the named
`ASSUME` of its module; those say no more than that bounds are natural numbers, that
limits are positive, and that the values the TLC instances choose (batches, patches,
messages, permission files, found Sessions) are what the code can be given. With the
theorems of this section 30 of the 40 properties the passing runs check are proved.
None is inductive as it stands. Each proof module states the strengthening first, as
a conjunction of named parts with a comment each; has one lemma per action, or per
kind of step, under it one step per part the step can disturb; and ends with the
theorems, which combine those lemmas by temporal reasoning.

| Module | About | Inductive invariants |
|---|---|---|
| `TurnProofs` | `TurnProperties` | `Shape /\ ToolProtocol`, `Honest` |
| `HistoryProofs` | `HistoryProperties` | `HistoryInvariant`, `Told` |
| `CoreProofs` | `ContextBudget`, `Cancellation`, `Compaction`, `ContextRequest` | `TokenInvariant`, `CompactionInvariant`, `RequestInvariant` |
| `ApplicationProofs` | `SessionService`, `Attachments`, `ModelSelection`, `UserConfiguration`, `ProviderStream`, `InstructionScopes` | one per component, `StreamInvariant` the largest |
| `ToolProofs` | `WorkspaceFiles`, `Permissions`, `ProcessSessions` | `FilesInvariant`, `PermissionInvariant`, `ProcessInvariant` |
| `DesktopProofs` | `DesktopReads`, `RuntimeLink` | `ReadsInv`, `LinkInv` |
| `RuntimeProofs` | `DesktopProperties` | `RegistryInvariant` |
| `SequenceLemmas` | `Selection` | (lemmas on sequences and selections) |

**The turn** (`TypeCorrect`, `TranscriptWellFormed`, `PausesAgree`,
`LifecycleImplemented`, `CallsHonest`, `ResultHonest`, `ToolsObeyTheUser`). Type
correctness needs that the index of a batch advances only where there is a current
call (`BatchShape`), which needs that an answer arrives only while the waiter is open
on the pause of the continuation (`PauseCoherence`), which needs to know at which
control points there can be a waiter at all and that a cancelled waiter implies a
cancelled turn (`DriverShape`). The refinement of `TurnLifecycle` needs in addition
when a status may be final (`OutcomeShape`). `Shape` is their conjunction. The
transcript is handled apart from the control: `TranscriptStep` lists the few ways a
step may change `messages`, `NextTranscript` shows that every step is one of them, and
`TranscriptStepKeepsProtocol` that each keeps the protocol.

`Honest` says what the history of the calls is at each control point: in an open batch
the calls before the current one are started and finished once, those after it not at
all (`OpenCalls`), in a closed one all are finished (`ClosedCalls`); every execution
has a grant, and an approval that is not used yet is a grant to spare (`GrantShape`);
accepted steering is pending or in the conversation (`SteeringShape`), an accepted
pause is in the driver between segments and in the pause token within one
(`PauseShape`), and a turn cancelled while paused has no way but its cancelled end
(`CancelShape`). The events of a batch are separated from the control in the same
way as the transcript: lemmas say what each recorder does to one call.

**The history** (`HistoryTypeCorrect`, `AcknowledgedIsDurable`, `NothingIsForgotten`,
`FileOnlyGrows`, `QuarantineIsKept`, `FileToldInOrder`). `AckedIsDurable` looks
inductive but is not: the cursor jumps by the length of the first batch or to the end of
the messages, and the entries of the range it jumps over are in the file only if that
range starts right behind the cursor. `QueueShape` says so (at most one batch waits, and
it starts there); it holds at the end of a Turn because the batch queued then has the
same start (`TailStart`), for which the cursor must not be behind the Turn's first
message (`Settled`, `NoGap`); `SyncShape` says which call may be under way in which
state of the Turn. A step either leaves the file alone or appends to it (`Grown`). Only
`NoGap`, and so `NothingIsForgotten`, needs that every Turn has a Session.
`FileToldInOrder` has the hypothesis `Faultless`, because with attachments, failing
repairs or Turns without a Session the code does not keep the order (section 5). It
needs the invariant `Told`: the file holds nothing the cursor does not acknowledge
unless a batch of unknown durability waits (`Behind`), a Turn that failed has nothing
more to write (`Over`), and what is not durable belongs to one Turn (`OwnMessages`).

**The core** (`EveryLimitHasABudget`, `PressureComesFirst`, `NoWakeUpIsLost`,
`SummariesCoverOnce`, `StatusTellsTheTruth`, `WhatIsSentFits`). The budget theorems are
about arithmetic, for every limit of at least 3. `NobodySleeps` needs that a
registered waiter is listed and that the flag is set before anybody is called. For
compaction, `FileIsTiled` says in positions what `SummariesTile` says by counting: the
file is a log of transactions, and each unit up to the coverage has one logical record.
That an accepted plan extends the tiling needs that a pass works on the file as it is
(`PassIsCurrent`), which navigation, a rival and a crash could break; `NotesAreTrue`
carries through every callback whether the coverage has grown since the pass began.
`WhatIsSentFits` proves `SentFits`, the first half of `RequestIsTheConversation`: the
count that is compared at the Hard Gate belongs to the very request that is sent, though
a compaction may come between the count and its use (`RequestInvariant`).

**The application** (`LocksScopesAndMoves`, `SubmittedStays`, `ModelFollowsTheSession`,
`ProjectsTighten`, `KeysAreKept`, `AnswersAreMeant`, `EpochsAreNames`). For the Session service, that
a lock has one user needs that who prepares a Session is not yet who uses it, and that
what is open has its metadata (`OpenIsMade`). The configuration is an induction over
the chain of files: a fold of the code is a recursive function, and each layer leaves
what the user has given as narrow as the one before it (`Narrowed`); that a limit
stays under the user's has the hypothesis that the user has one, as in the code. The stream needs, for each of the three
protocols, what the adapter has of an item at each stage of its frames (`Followed`,
`IsAnnounced`) and that in protocols without identifiers items begin in order
(`BegunInOrder`); then `Answered` and `Published` speak of the message that closes it. `EpochsAreNames`
proves `EpochNamesPrefix`, the first half of `EpochIsThePrefix`: the state that is kept,
by the loader of an open Session or in the metadata of a closed one, is the latest one a
request was made with (`IsLatest`), so the next epoch is above all that were named.

**The tools** (`UnseenFilesAreSafe`, `AllowedWasEarned`, `OutputIsNeverLost`,
`ClosedIsQuiet`). `FilesInvariant`: past its checks a tool has before it what it has
seen, whoever writes (`ChecksHold`), except what is recorded as having come too late;
and between the halves of a move the patch reports exactly one of them
(`PatchIsHonest`). `PermissionInvariant`: what lets an action pass is the approval of
an earlier one, and an operation that waits was not carried out. `ProcessInvariant`:
what is said of a child is so (`Sound`), what runs is on the list or untouched, and a
closing Session has all of it on its own list (`Registered`); the output is filed
without a gap, and each cursor handed out stands at a chunk, at the end, or before
everything that is kept (`OutputInvariant`), from which `ReadIsHonest` follows; of
a process that is said to have exited nothing is kept back, unless a stop of its PTY is
between its verdict and its report or was cut there (`Unreported`).

**The desktop** (`ReadersAreGone`, `AnswersHold`, `LinkHolds`; `NothingIsLost`,
`WorkIsNotClosed`). A read that goes on is `Good`: as long as its revision stands,
its scope is of the catalogue, unless the change was one of the two silent ones; what
it keeps are the newest of what it has read. `LinkInv` relates the two ends of the
pipes: each request the main process waits for is in the child's input or answered in
its output at most once (`AnswersAreAwaited`), and who owns which child.
`RegistryInvariant` is about the bridge's registry as a value that the helpers of the
handlers map to the next one: an open Application has one Session and one name
(`OneOwner`, `OwnName`), what is being built is nowhere in it (`BuiltApart`), each Turn
is filed with its handle where its Application is (`TurnsAreFiled`), the Turn of the
Application on screen is the one the window steers (`ShownIsSteered`). All of it holds
while the registry is not `tangled`: the code does file an Application under two names
or a stale one (section 5), and what follows from that is checked and reported
separately; the theorems say that nothing else goes wrong.

**What the proofs found.** The proof of `NothingIsForgotten` did not go through until
`Revived` (section 5), which bounded runs had not reached, was among what `tangled`
remembers. `SequenceLemmas.SetInduction` derives induction over the natural numbers, for
a set, from the library's theorem on injections of finite sets, so that what recursive
functions compute over data can be proved although the library's own induction theorems
take an operator and cannot be instantiated.

**Only model-checked.** All liveness (`CancelledTurnEnds`, `EventsAreDelivered`,
`CloseEnds`, `CancelledPassEnds`, `ShutdownEnds`), which is out of the proof system's
reach. `SentIsTheConversation`, `EpochIsSummarised`, `LoopsAreCutShort` and
`ReadBackIsWhole` compare what folds, choices or words over data compute with a
reference definition over the same data. So does `BroadToNarrow`, the half of
`EpochIsThePrefix` about what `LoadFile` gathers; its other half is proved for whatever
it gathers.

## 7. What is left out of the modelled parts

**Turn.** Usage accounting, event payloads and the contents of messages; the guards
against corrupted internal state; the check for cancellation directly after an
append, which no `await` separates from the one before; a task cancelled before its
first step or a second time during cleanup.

**History.** Several Sessions (a switch is closing one and opening it again later);
contents of the metadata and of the attachment store (only that their writes may
fail), message identifiers and tool observations, the context rebuilt and the usage
recorded after a Turn, a message with no parts.

**Sessions.** Titles and the archive flag, deletion, the catalogue, a crash between
a directory and its metadata.

**Context.** Sizes are abstract tokens; models without images, changes of the prompt or of the tools during a preparation, equal blocks
sent once, the validation of a compaction by exact counts. In `Compaction` torn
bytes are a failing record, and a pass of a Turn excludes a manual one, as the
desktop does it.

**Processes.** Writing to stdin and resizing a terminal; the checks the tools make
of their arguments and the classification of shell commands; a descendant that
escapes with the pipe open keeps a stop waiting, and fairness excludes it; a redacted
text has the length of the original, and the streams of a pipe are one.

**Desktop.** One outcome of a reload for all Applications; Runs are not told apart;
the requests that only project state to the window; attachments, rename and
archive in the bridge. In the shell stderr, decoding, a broken output pipe and
windows.

**Readers.** `HistoryRead` ranges must be complete boundaries, which is not
modelled; a Turn with an open call is left out of a page until its results are
written; redaction of results; numbers in envelopes have a constant width.

**Others.** Previews and contents of attachments; the text of configuration files
and two processes that save at once; a second failure during a rollback; regular
expressions of rules; wire formats and retries of the transport; aliases of paths,
hunks and encodings; the eviction of remembered successes after 24 actions.

## 8. Not modelled

* Search, web, git, image and document tools: input and output around one call,
  without state between calls. The thread that reviews a workspace is in
  `DesktopReads`.
* Commands, bootstrap and command line: parsing and wiring at start, sequential.
* Terminal interface: widgets over `TurnHandle`; its calls on the handle are the
  `Control` actions of `TurnDriver`.
* Desktop renderer: presentation, in TypeScript.

The rest of the plan beyond the proofs of section 6: writing to a process while it is
stopped, rename and archive in the bridge's registry, a second failure while a model
switch is rolled back, and prompts that change while a request is prepared.
