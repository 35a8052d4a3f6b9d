# strIDEterm: TLA+ specifications

strIDEterm is a desktop application (Electron, TypeScript, Vue) that keeps terminal workspaces and lets AI agents work
in them. This directory holds TLA+ models of the parts of its backend whose correctness depends on interleavings,
failures and restarts, the TLC instances that check them, and TLAPS proofs about them. Paths are relative to `src/`;
`backend/` stands for `electron/backend/`.

Run, in this directory:

    tlc -config MCAgentTaskRunner_loop.cfg MCAgentTaskRunner
    tlapm AgentTaskRunner_proof.tla

## 1. The system

One Node process (the Electron main process) owns all state. Renderers, remote browsers, the phone, the Telegram bot and
the agents themselves (through MCP and terminal hooks) are clients. JavaScript runs one continuation at a time; every
`await` lets any other handler run. So the unit of atomicity, in the code and in the models, is the code between two
awaits.

    agents ──hooks──> session manager ──> agent task runner ──prompts──> agents
                                               │   │
    renderer, remote, phone ──IPC/WS──> runtime│   └─ task dir: WORK_LOCK, verdict.json, work.md
                                          │    └──── state store ── state.json
                                          └───────── operation registry ── <operationId>.json

| Component | State it keeps | Operations | Interacts with | What is hard | What makes it correct |
|---|---|---|---|---|---|
| **Agent task runner** (`backend/agent-task-runner.ts`, `agent-task-files.ts`) | task state, round, chips; guards `#evaluating`, `#handlingStandardVerdict`, `#rejectingVerdict`; lifecycle epochs, run generations; injection controllers; watcher timers | start, pause, continue, reset, send back, resend; hooks of Worker and Judge; watcher; dropouts | session manager, files of the task dir, store | some twenty awaits per round, each of which the user, four kinds of hook, the watcher and a dying session may overtake | a halted task stays halted; one evaluation and one verdict pass; a verdict moves the task once; rounds counted right; Send back undone wholly or not at all; no stage without a driver |
| **Durable operation registry** (`backend/operation-registry.ts`) | records, key index, `removeOnFinish`, one file per operation | accept, replay, update, finish, load, removeForWorkspace, discard | workspace runner, file system | retries during a write, failing writes, crash between write and step, removal while running | a retry finds its operation; an answered one survives; one outcome; forgotten with its workspace |
| **State store** (`backend/store.ts`) | app state, FIFO of operations, main / tmp / backup files, lock | mutate, in-place edit and debounced save, recovery at start | everything | failing rename, crash mid-write or mid-recovery, damaged file, rollback | acknowledged changes survive, withdrawn ones stay out, a start never loses the newest complete state |
| **Jira writes** (`backend/jira/jira-write-journal.ts`, `jira-write-safety.ts`) | journal entries, confirmations | begin, post, mark, reconcile, absorb | Jira | post lost or landed without an answer, crash between post and mark, full journal | no write is sent twice while its first outcome is in doubt; no doubt is forgotten |
| **Session starts** (`backend/session-manager.ts`, `ssh/ssh-manager.ts`) | session map, starts in flight and why they were cancelled, stored output | ensure, restart, disconnect, sweep, exit, output | SSH manager, PTYs, replay store | connects that hang or finish after a teardown, overlapping restarts | one connect at a time, no process without an owner, a disconnect holds, an activation is answered |
| **Review Git locks and operations** (`backend/review-git/locks.ts`, `operations.ts`) | lock tails, holders, operations by key | run, withBoth, start, prune | review engine, MCP broker | re-entrance, two lock levels, retention | mutual exclusion, no deadlock, one run per key while it is remembered |
| **Terminal stream** (`backend/terminal-replay-buffer.ts`, `remote-server.ts`, in the browser `transport.ts`, `useAttentionSync.ts`, `terminal-controller.ts`) | chunks and numbers, routing of a socket, state frames held back, remembered subscription, `throughSeq` | append, evict, snapshot, subscribe, replay, remove, reconnect | PTY output, WebSocket | snapshot against live output, removal against subscription, state frames that arrive late, lost sockets | a client shows every byte once and in order; the stream follows what the user looks at |
| **Mobile commands** (`backend/mobile/mobile-command-dispatch.ts`, `mobile-idempotency-store.ts`) | ledger in SQLite | claim, execute, record, replay, prune | relay, runtime | redelivery during the run, crash before the record | a side effect at most once; a repeated command gets the first answer |
| **Claim refresh** (`backend/account/installation-token-refresh.ts`) | applied marker, pending, timer | marker, apply, stop | token service, streams | bursts, failure after the marker was saved | a changed marker is eventually acted on |
| **Schedulers** (`backend/git-process-scheduler.ts`, `jira/jira-read-scheduler.ts`, `shared/recovery-queue.ts`) | slots, queues | run, acquire, release, stop | git, Jira, task recovery | deadline against release, priorities | slots never leak; nobody starves |
| **Task recovery** (`backend/runtime-task-handlers.ts`) | queue per workspace | resume, restart, skip | agent task runner | two windows deciding at once | one decision per interrupted task |
| **Quick tunnel** (`backend/tunnel-manager.ts`) | process handle, snapshot, `stopRequested` | start, stop, exit, timeout | cloudflared | exit of an old process, overlapping starts | the handle names the only child alive |
| Runtime, Git manager and caches, Jira reads, pull-request providers, review bridge, remote access, account, mobile relay, Telegram, internal MCP, Docker / SSH / files, credentials and logs, Electron shell, renderer | see PROJECT.json | | | mostly I/O, parsing and presentation | not modelled; the reason stands with each in PROJECT.json |

The hazards this code is exposed to, each at its line with the property that would catch it, are listed in
PROJECT.json under "hazards"; those of parts not modelled yet name the planned module.

## 2. Modules

| Module | What it is |
|---|---|
| `AgentTaskRunner` | the standard-mode Worker/Judge loop of one task, await by await |
| `TaskLoop` | the abstract lifecycle of a task: what the Dashboard shows; `AgentTaskRunner` implements it |
| `MCAgentTaskRunner` | two slots for functions in flight, their symmetry |
| `AgentTaskRunner_proof` | its inductive invariant and theorems |
| `TaskLoop_proof` | that it implements `TaskLoop`; rounds, drivers and verdicts of the loop |
| `OperationRegistry` | the durable operation registry, await by await, with the disk and restarts |
| `MCOperationRegistry` | operations, keys, workspaces as model values |
| `OperationRegistry_proof` | its inductive invariant and theorems |
| `StateStore` | the application state on disk: queue, durable write, backup, recovery |
| `StateStore_proof` | its inductive invariant and theorems |
| `JiraWrites` | the journal around every write to Jira, over restarts |
| `JiraWrites_proof` | its inductive invariant and theorems |
| `SessionStart` | the starts, restarts and teardowns of one terminal tab |
| `SessionStart_proof` | its inductive invariant and theorems |
| `TerminalStream` | one pane's output from the replay store to a remote client's screen |
| `TerminalStream_proof` | induction over queues, the fold laws of a client, its inductive invariant and theorems |
| `MCStateStore`, `MCJiraWrites`, `MCSessionStart`, `MCTerminalStream` | their small instances |

A definition `x_variant` in front of a definition `x` is `x` with a seeded fault. No action uses it; it documents which
property notices that fault, and each such pair is in PROJECT.json under "mutants".

### 2.1 AgentTaskRunner

*The loop.* The Worker edits, removes `WORK_LOCK` when it is done and goes idle. The runner checks the round
(`#evaluateWorker`), perhaps refreshes the agent's context (a "shower"), and asks the Judge, who writes `verdict.json`
and goes idle. "continue" opens the next round, "complete" ends the task; at the limit of rounds the task fails.

*State.* `task` is the persisted task object. `op[p]` is an async function in flight: its kind, the await it is
suspended on (`at`), the task state and round it captured, and whether the lifecycle epoch, run generation and session
incarnation it captured are still the current ones. The code keeps counters and compares them for equality only
(`#currentTaskOperation`, 1317-1393; `#getCurrentStandardTask`, 1489-1527), so a boolean that a later advance clears is
the same information and needs no bound; with the epoch the model also clears the fields that are only compared
under it, which merges states no later check can tell apart. `evaluating`, `handling`, `pending`, `rejecting` are the re-entrance guards.
`ctl`, `told` and `op[p].live` are the injection controllers, `dropouts` the restart counters, `watching`, `dirty`,
`grace` the watcher of the task dir, `lock` and `verdict` the two files that decide anything, `agent` whether an agent is
in a turn. `asked`, `respent` and `verdict.spent` are observations: no guard reads them, except that a Judge writes
again only after its last verdict was used.

*Actions.* One per segment between awaits: `Start`, `StartSetup`, `Prompted`, `Stop`, `Resume`, `Reconcile`, `Reset`,
`ResetDone`, `Reject` .. `RejectPrompted`, `Resend`, `Sent`, `EvalChecks` .. `ShowerDone`, `VerdictRead` ..
`VerdictPrompted`, `Dropout`, `Restarted`, `Write` (the write of a queued injection lands, fails or is refused),
`WorkerReady`, `WorkerIdle`, `JudgeReady`, `JudgeIdle` (hooks), `WatcherOpens`, `WatcherLooks`, `DirChanges`,
`GraceFires` (watcher), `SessionReplaced`, `WorkerExit` (sessions), and the agents' own `WorkerDone`, `JudgeWrites`,
`Unheard`. A run of awaits with nothing but a recheck between them is one suspension: the recheck at its end implies
those before it. PROJECT.json "map" gives the lines of each definition.

*Abstracted.* Prompt texts, `/clear`, git summaries, timing fields, alerts and logs. An injection held back because the
user types is one that has not been written yet.

*Not modelled.* Rate-limit holds and the periodic probe that runs only under one (`#rateLimit*`), the programmatic
judge, Companion (attached) mode, half-written `verdict.json`, recovery after an application restart.

### 2.2 TaskLoop

Stage, round and limit, and what may happen to them: the user's Start, Pause, Continue, Reset, Send back, its undoing,
and the loop's Check, Refresh, Rework, Judge, Complete, Fail, NextRound. `AgentTaskRunner` implements it with
`state <- task.state, round <- task.round, limit <- task.limit` (property `ImplementsLoop`). What the contract rules out:
completing or failing from anywhere but the Judge's turn, failing before the last round, a round that advances anywhere
else, a half-undone Send back.

### 2.3 OperationRegistry

*State.* `mem` (record objects), `disk` (`<operationId>.json`), `records`, its insertion order `older` and `byKey` (the two
maps), `removeOnFinish`, `pc` (where each operation's continuation is suspended), `rms` (`fs.rm` calls in flight and the
sweep that awaits one), `sweep` (what `removeForWorkspace` has still to visit of its snapshot), `toLoad` and `unread` (files
`load()` has still to read, and could not read). `answered`, `dropped`, `emitted`, `unsaved` are observations.

*Actions.* `Accept` / `AcceptPersisted` / `AcceptFailed`, `CreateWorkspace`, `Update` / `UpdateWritten`, `RunnerDone` /
`Finish`, `Removed`, `Discard`, `RemoveForWorkspace` / `ResumeSweep`, `Restart(landed)` (any subset of the writes in flight
reached the disk), `Load` / `LoadSkips` / `LoadGivesUp` (a file, or the whole directory, cannot be read). Every file
operation in `DiskFails` may fail. A retry of a key in use returns that operation's record and changes nothing, so it is no
action. A request says what its runner does with a workspace (`Use`): nothing, acts on one (Git, pull requests), creates one
(reviews, pipelines) or creates the one whose id it reserved (tasks). A new workspace has an id no request named before.

*Abstracted.* A request is its idempotency key and its workspace; steps, artifacts, times, error texts, the profile filter
and the 24 h payload window are left out; readdir order is arbitrary, the order of the Map is not. Operation ids are
interchangeable, so `Accept` takes the next one. `load()` is awaited before clients are served.

*Boundaries of what holds.* The sweep's loop goes through its snapshot in order of insertion. That order is what keeps it
from freeing a key in use: a creator comes before everything that acts on its workspace, so one that still runs is flagged
before the loop awaits anything. `NoSecondRun` holds as long as no two records of one key are in the map
(`TwoFilesAreTheOnlyWay`); with three operations and a restart they can be (section 4). An operation whose file the last
`load()` could not read never settles in that life; `Settles` excepts exactly those. `removeOnFinish` is memory only, so
`ForgottenWithWorkspace` is a promise within one life of the process.

### 2.4 StateStore

*State.* The application state is the set of changes applied to the defaults. `state` is the live object, `queue` the
FIFO of `enqueue()`, `run` the operation that writes (the await it is suspended on, its serialized snapshot, the state a
failed `mutate()` returns to), `timer` the debounced save of the runtime's `schedulePersist()`, `main`, `tmps`, `backup`
the files with the time they were written, `corrupt` the copy of an unreadable main file, `lockLeft` the lock a dead process
left. `mode` is the stage of a start. `issued`, `acked`, `failed`, `superseded`, `unsaved` are observations.

*Actions.* `Mutate`, `Edit`, `TimerFires` (callers); `StartOp`, `WriteTmp`, `WriteBackup`, `Rename`, `Settle`, `OpFails`
(one operation, await by await); `StartUp`, `RecoverySkipped`, `CopyCorrupt`, `Promoted`, `PromotionFails`, `Sweep`,
`Load`, `DefaultsWritten` (a start; a promotion and the defaults go through the same durable write); `Crash` at any
moment and `Damage` of the main file, which are external.

*Abstracted and left out.* Paths and JSON. A torn temporary file is no candidate of any recovery. `replace()` is called
by tests only. Clocks do not go backwards. A leftover within the lock's ten seconds skips the recovery, which is an action.

*Limits of what holds.* A failed mutation puts back the state of before it, and with it drops every in-place edit made
since: `EditReachesDisk` speaks of edits that are still in the state. A save that is armed when the application quits
is not flushed (`runtime.ts`:14577-14597): `EditReachesDisk` speaks of one life. A main file that is JSON but
no state (`{}`) is no candidate of a recovery, like one that is no JSON (`Damaged` stands for both); when nothing can be
promoted or the recovery is skipped, `loadState()` normalizes it to the defaults and the next write replaces it, so that
`OneDamageSurvivable` promises a complete state to start from, and not the newest. A backup newer than every leftover
temporary file loses to the leftover when the main file is unreadable.

### 2.5 JiraWrites

*State.* `mem` and `disk` are the journal (attempt to entry), `pc`, `answer`, `shown`, `evidence` the calls in flight and
the reconciliations, `applied` what Jira did and when, `undone` what others have taken out of it since. `act` and `told` are observations: what each attempt asked for and
what the user was last told.

*Actions.* `LoadJournal` (with the promotion of interrupted entries), `Begin` / `BeginRefused`, `Posted` (answered,
refused, not sent, or unclear with the request applied or not), `Mark`, `ReadEvidence` and `MarkReconciled`, `Tick`,
`Elsewhere` (others delete a comment, assign the issue anew, remove a link), `Restart`. Evidence is what Jira shows when it
is asked (`Shows`): a comment or worklog by author and content, a transition by status and last update together, an
assignment, attachment or link by the issue as it is then. `verdicts` lets "applied" be read at any time, because others may
have brought about the same, and "not-applied" only while nothing shows. A journal operation runs alone on the journal's queue and saves all or nothing: it is one step.

*Not modelled.* Previews and their confirmations (consumed synchronously), the 90-day retention, `absorb()` when a profile
is deleted, a journal file that cannot be read.

*Limits of what holds.* Jira is assumed to have applied a request by the time its failure is seen, or never to apply it;
nothing on this side could exclude a request that is applied after a reconciliation found nothing. "Not applied" is what
Jira shows now: an assignment, comment, worklog, file or link that was applied and that somebody has undone since is
reported as not applied (`NotAppliedIsTrue` excepts exactly these; a transition leaves a later update and is never so
reported). "Applied" is a report, not a fact: others may have done the same, and an append is looked for in a window of five
minutes before its submission (`jira-manager.ts`:948), while only two minutes block its repetition. No property speaks of
it.

`DoubtIsListed` ends at `reconcileWrite()`, which takes any unresolved entry. A window offers less
(`useJiraIssueDetail.ts`:338-349, 1126-1180): it keeps one handle per issue, which every later write to the issue replaces
whatever became of it; it looks in the history only when it has no handle, and takes the first "unknown" of the newest 20.
So a second or older doubt about an issue stays blocked, and is not offered in that window while a handle stands; and a
write that is still pending because its mark could not be saved is offered by its own call's handle only, until the next
start makes it "unknown".

### 2.6 SessionStart

*State.* One tab. A start is one attempt to get a session and names the session and process it leads to: `start[a]` has
its kind ("pty", "ssh", "system"), where it is, why it was cancelled and the start it is chained behind; `proc[a]` its
process; `sessions`, `starting`, `failed` are the manager's maps for the tab's id; `owner` is the SSH manager's entry,
`replay` the stored output, `restarts` the suspended calls of `restartSession()`. `asked`, `swept`, `dropped`, `logged` are
observations.

*Actions.* `Ensure` (spawn, share, chain, connect, or find the saved host deleted: `HostGone`), `ResumeQueued`, `Dial`,
`Connected`, `SystemSpawned`, `StartFails` (a failure its handler shows), `StartRejects` (the arguments of a system ssh or
WSL client cannot be built: a key is missing, a jump host was deleted), `Output`, `Exit`, `Disconnect`, `Restart` /
`RestartResumes`, `RemovePanel`, `PutPanel`, `SyncWithState`, `RemoveWorkspaceSessions`. Continuations that JavaScript runs as
microtasks go before any other event (`Quiet`).

*Not modelled.* Write queues and sizes, temporary SSH test sessions, the refusal of a tab without SSH tools, `stopAll()`, an
edit of what the tab launches while a start is under way.

*Limits of what holds.* A start that rejects, and one that finds no host, leave no session, no mark and no text: the
caller logs it (`runtime.ts`:1408-1419) and the tab stays as it was. `logged` is the set of these starts, and `ActivationAnswered`
excepts an activation served by one of them. They are taken out of the map like any other, so that the next activation or the
queued reconnect starts afresh. A text that was stored before such a start may stay behind (`NoGhost` excepts it): the
last words of a process that Restart told to end are stored while a connect is on its way, that connect succeeds, the restart
resumes and drops its session, and its own start is only logged; the sweep of the closed tab finds neither session nor mark.

Such an edit can let a discarded start end the newer session, or a late connect overwrite it:
the model assumes it away. The banner of a Disconnect stays stored when the tab is closed afterwards. Output of an
ssh2 stream that was told to close has no guard against its successor: `NoGhost` and `ReplayIsFresh` except it. A tab that
returns while its start is being cancelled as "removed" shares that start and gets no session until it is activated again.

### 2.7 TerminalStream

*State.* One pane and one remote client. A chunk of output is numbered within a life of the pane (a removal ends one and
the numbers begin again). At the server: `panel`, `session`, `store` (newest number and oldest chunk kept), `rev`; of the
socket: `filtered`, `routed`, the coalescer of state frames (`sending`, `pending`) and the catch-up after a reconnect. In
the client: `view` and `seen` (the payload), `memory` (the subscription the transport repeats on a new socket), `key`,
`armed`, `due` (attention sync), `screen` and `through` (the terminal). `toClient` and `toServer` are the messages on the
way: terminal frames stay in order, a state frame may be held back and replaced.

*Actions.* `Output`, `Exit`, `Spawn`, `RemovePanel`, `PutPanel`, `SyncWithState`, `Broadcast`, `Drained`, `CatchUp`,
`HandleTerminalSubscribe` at the server; the handlers of terminal frames, removals and state frames, `Debounced`,
`Refocus`, `Toggle`, `RequestTerminalReplay` in the client; `Disconnect` and `Connect`. The snapshot of a replay and the
entry into the live set are one step: there is no await between them.

*Not modelled.* The desktop's IPC path, profile bindings and review panes, the mode preamble of a replay, a congested
socket (the code closes it: `Disconnect`), state fetched over HTTP, a pane whose session was disconnected.

*Limits of what holds.* The comment at `useAttentionSync.ts`:166-172 says that the payload which fires the resync after a
removal is never the one from before it. The coalescer may have held back just such a payload. The server then refuses
the id while the transport remembers it as sent, and a pane recreated under that id gets no output until the set
changes or the socket is replaced. A focus change or subscription that crosses a removal does the same, and a delayed
payload without the pane disposes the view after its replay. `misled` marks exactly these clients, and `Followed` and
`NothingMissing` except them.

## 3. Properties, runs and bounds

| Run | Instance | What it shows |
|---|---|---|
| `task_loop` | 2 functions in flight, 2 rounds; Start, Pause, Reset, Send back; watcher on, healthy disk and sessions | `RunsOnlyWhenAsked`, `OneEvaluation`, `VerdictSpentOnce`, `EvaluationDriven`, `ImplementsLoop` |
| `task_pause` | 1 round; Start, Pause, Continue; sessions die or are replaced; no watcher | `OneVerdictPass` when Continue reconciles with the files at any await |
| `task_faults` | limit 1, Send back beyond it; Start, Resend, Send back; the disk fails, injections throw, agents drop to their shell | `TypeOK`, `ChipsMatchRounds`, `ImplementsLoop`: rollback is exact |
| `task_watch` | 2 rounds, a shower in the second, Send back; any hook may be lost, the disk may fail, a change of the task dir is reported once | `LostHookCovered` under fairness |
| `task_twice` | 2 rounds; Start, Pause, Continue | `VerdictSpentOnce` violated (section 4) |
| `registry_lives` | 2 operations, 2 keys, 1 workspace, a restart with any subset of the writes in flight landed; writes, removals and the reads of `load()` may fail | `TypeOK`, `IndexSound`, `NoSecondRun`, `AnsweredIsDurable`, `OneResult`, `Settles`, `ForgottenWithWorkspace` |
| `registry_two_files` | 3 operations, 1 key, a restart, no faults | `NoSecondRun` violated (section 4) |
| `store_durable` | 2 mutations, 1 edit, 3 starts, 1 damage; every file operation may fail, a crash at any await | `TypeOK`, `AckedSurvive`, `WithdrawnStaysOut`, `OneDamageSurvivable`, `RecoveryKeepsNewest`, `OriginalBytesKept`, `EditReachesDisk` |
| `jira_writes` | 3 attempts at a comment and an assignment, others who undo them, 2 entries, 2 lives; saves may fail | `TypeOK`, `NoRepeatInDoubt`, `NotAppliedIsTrue`, `DoubtIsKept`, `DoubtIsListed` |
| `sessions` | 3 starts of any kind, 2 suspended restarts | `TypeOK`, `OneConnect`, `NoOrphan`, `NoGhost`, `ReplayIsFresh`, `DisconnectHolds`, `ActivationAnswered`, `ReconnectBegins` |
| `session_restarts` | the same, a local tab | `EveryProcessOwned` violated (section 4) |
| `terminal_stream` | 2 chunks of output, a budget of 1, 3 moves of users and network | `TypeOK`, `NothingMissing`, `Followed` |

*Bounds.* `Ops` is the number of functions suspended at once. Two is enough for every race between a pair of handlers,
and the user's Pause, the agents, the watcher's timers, session exits and file events need no slot, so three and more
parties meet in a behaviour; the theorems of section 5 hold for any number. Two rounds are needed for a verdict of an
earlier round to be left over (`task_twice`, `task_loop`); one suffices for the guards. `RoundBound` stops the user
sending back for ever: at 2 with `MaxRounds` 1 the limit is raised, and the raise rolled back. `MaxDropouts` 1 reaches
both a restart and the cap that pauses the task. `ShowerInterval` 2 makes the second round take a shower. A crash of the
registry during `load()` writes nothing but the outcomes `load()` itself decides. `Permutations` of slots and of Jira
attempts are sound: they are compared with `=` only, and the runs that use them check no liveness.
Three starts of the store are a crash, a crash inside the recovery from it, and the start that shows what was lost; two
mutations are one that fails and one that supersedes it. Three attempts at two actions fill a journal of two entries and
still leave one to be refused or to push a settled one out; a time of 1 separates what is inside the append window from
what is not; a third kind of action is beyond the run's time, so that transitions are covered by the proofs only. Three starts of a
tab are one to cancel, one to chain behind it and one more from a restart. Two chunks with a
budget of one evict, and the three moves are any three of a removal, a return, a restart, a tab switch, a replay
request and a lost socket; the safety properties were also run with four moves (8.2 million states).
Every run sets `CHECK_DEADLOCK FALSE`: a completed task, or a registry with all its operations used, may stop.

*Fairness.* `FairSpec` assumes weak fairness of each function in flight (`Step(p)`: promises settle, file operations and
git calls return), of the grace timer and of the watcher's opening and its debounce. Nothing is assumed of the user, the
agents or the hooks, nor that the task dir changes again: the code polls it only after `fs.watch` has thrown or emitted an
error (`agent-task-runner.ts`:3061-3081), so that one event may be all there is. Injections wait for the user to leave the composer: he is assumed to leave it. Resend is left
out of the liveness runs, since a user who resends for ever occupies every slot; so are agents that drop to their shell. The registry assumes that its
writes settle and that a runner ends, every call it awaits being bounded by a timeout; a restart is never assumed. The store assumes that file operations end, one way
or the other, that the debounce fires and the queue is served. A session start that was told to stop ends (strong
fairness of its end: its rejection is one of the events the loop gets to), and the continuations of settled promises run. The
stream assumes that timers fire, messages on an open socket arrive, a due broadcast and a catch-up are sent, a save
reaches the session manager, and a client that lost its socket tries again; nobody is assumed to look, type or restart.

*Limits of what holds.* `EvaluationDriven` is checked without session and write faults. With them, a refused Judge
prompt leaves the task in "evaluating" and the user's Pause and Continue is the way out, as the comment at
`agent-task-runner.ts:1451` says. `VerdictSpentOnce` is checked with a healthy disk: a verdict file that could not be cleared
is read again. `LostHookCovered` excepts two ways in which the watcher misses a change for good (`Missed`), although the
comment at 2959 says that it covers a hook that never arrives; without either exception TLC shows a task stranded in
"judge-evaluating" beside a written verdict. (1) The window of 120 s armed when the Worker removed `WORK_LOCK` is still open
when the verdict is written. It swallows the event ("one grace window at a time", 3041) and is refused when it
fires, since the stage has changed. (2) The window fires while a nudge still waits for the user to leave the composer: the
pass it starts meets the guard and returns. In both a lost Stop of the Judge leaves nobody to look at the verdict until
another file of the directory changes. The run has no Pause and Continue, which add a third way: a pass begun before
Continue's own evaluation, and outdated by it, still holds the guard when the window fires. Send back together with sessions that are replaced is in no run.
A mutation of the registry that is answered from a retry before its first write has landed is not durable when that
write fails, and `finish()` publishes an outcome whose write failed although `load()` publishes another after a restart:
`AnsweredIsDurable` speaks of the first answer, and `OneResult` excepts operations whose outcome was not saved.

## 4. Where code and documentation disagree

1. **A verdict used twice** (`task_twice`). A handled "continue" leaves `verdict.json` in place and pushes a chip
   without a `judgeVerdict`. Pause and Continue while the Worker works in the next round make `#reconcileAfterResume`
   take the old verdict for an unread one: a round is skipped, or the task fails at its limit.
2. **Two files of one key** (`registry_two_files`). `dropRecord` frees a key at once and removes the file later. When the
   key is accepted again and the process ends before the removal, the next `load()` indexes two records of one key.
   Discarding the first frees it, a third operation runs with it, and discarding the second takes it from that run, since
   `dropRecord` frees the key whatever record holds it.
3. **A restart that loses a process** (`session_restarts`). After its wait `restartSession()` deletes the map's entry
   whatever it is by then. When Restart is chosen twice while the first process is slow to end, the second call drops the
   session the first has started without ending its process.

Lines and quotations are in PROJECT.json under "findings".

## 5. What is proved

TLAPS proves, for every value of the constants that satisfies the modules' assumptions (bounds are naturals, the limit
of rounds is positive, `None` is none of the other values):

| Theorem | Statement |
|---|---|
| `AgentTaskRunner_proof!TypeCorrect` | `Spec => []TypeOK` |
| `AgentTaskRunner_proof!NothingRevivesTheTask` | `Spec => []RunsOnlyWhenAsked` |
| `AgentTaskRunner_proof!EvaluationsAreGuarded` | `Spec => []OneEvaluation` |
| `AgentTaskRunner_proof!VerdictPassesAreGuarded` | `Spec => []OneVerdictPass` |
| `TaskLoop_proof!ChipsAreTheRounds` | `Spec => []ChipsMatchRounds` |
| `TaskLoop_proof!TaskLoopIsImplemented` | `Spec => ImplementsLoop`, if `Offered` |
| `TaskLoop_proof!AnEvaluationIsDriven` | `Spec => []EvaluationDriven`, if `Undisturbed` |
| `TaskLoop_proof!VerdictsAreSpentOnce` | `Spec => []VerdictSpentOnce`, if `Clearable` |
| `OperationRegistry_proof!TypeCorrect` | `Spec => []TypeOK` |
| `OperationRegistry_proof!IndexIsSound` | `Spec => []IndexSound` |
| `OperationRegistry_proof!AnswersAreDurable` | `Spec => []AnsweredIsDurable` |
| `OperationRegistry_proof!OneResultForEver` | `Spec => []OneResult` |
| `OperationRegistry_proof!TwoFilesAreTheOnlyWay` | `Spec /\ []KeysUnique => []NoSecondRun` |
| `JiraWrites_proof!TypeCorrect` | `Spec => []TypeOK` |
| `JiraWrites_proof!NothingIsRepeatedInDoubt` | `Spec => []NoRepeatInDoubt` |
| `JiraWrites_proof!ReportsAreTrue` | `Spec => []NotAppliedIsTrue` |
| `JiraWrites_proof!DoubtsAreKept` | `Spec => []DoubtIsKept` |
| `JiraWrites_proof!DoubtsAreListed` | `Spec => []DoubtIsListed` |
| `StateStore_proof!TypeCorrect` | `Spec => []TypeOK` |
| `StateStore_proof!AcknowledgedChangesSurvive` | `Spec => []AckedSurvive` |
| `StateStore_proof!WithdrawnChangesStayOut` | `Spec => []WithdrawnStaysOut` |
| `StateStore_proof!OneDamageIsSurvived` | `Spec => []OneDamageSurvivable` |
| `StateStore_proof!OriginalsAreKept` | `Spec => OriginalBytesKept` |
| `StateStore_proof!NewestIsKept` | `Spec => RecoveryKeepsNewest` |
| `SessionStart_proof!TypeCorrect` | `Spec => []TypeOK` |
| `SessionStart_proof!OneConnectAtATime` | `Spec => []OneConnect` |
| `SessionStart_proof!NoProcessIsOrphaned` | `Spec => []NoOrphan` |
| `SessionStart_proof!ClosedTabsLeaveNothing` | `Spec => []NoGhost` |
| `SessionStart_proof!ReplaysAreFresh` | `Spec => []ReplayIsFresh` |
| `SessionStart_proof!DisconnectsHold` | `Spec => []DisconnectHolds` |
| `SessionStart_proof!ActivationsAreAnswered` | `Spec => []ActivationAnswered` |
| `TerminalStream_proof!TypeCorrect` | `Spec => []TypeOK` |
| `TerminalStream_proof!NothingIsMissing` | `Spec => []NothingMissing` |

*The task runner.* None of the three safety properties is inductive: whether a halted task stays halted depends on what
every suspended function may do when it resumes. `IInv` therefore says of each function in flight (`Fine`): if its epoch is
the current one then it was asked for, an evaluation or verdict pass meets an active task and owns its guard, a reset
was captured on a halted task, a Send back remembers a finished one. A halt advances the epoch, which discharges this for
everybody at once (`HaltIInv`); for any other step the proof shows that the task goes on (`asked` is kept or set)
and that the functions it does not touch keep what they captured (the frame lemmas). One lemma per action, one step per
outcome of it, then `StepIInv` collects them. So however many handlers are suspended, with whatever faults and in
whatever order they resume, nothing brings back a task the user stopped.

*The loop of rounds.* That every step of the runner is one `TaskLoop` allows, or leaves stage, round and limit alone, is
shown step by step (the lemmas `..Follows`) from a second invariant, `Counted`. Every await is a place where stage, round
and limit may have been changed by somebody else; `Stage` says what a function that passes its recheck may conclude: its
kind expects a stage it can move on from, a verdict pass that read "continue" below the limit is still below it, a Send
back that must be undone meets exactly the round and the limit it made. The last rests on `OneReject`: a deferred Send back
has given its guard back, but a second one fences the first. The chips are in the same invariant (`Whole`), since cutting
them back to a snapshot restores 1..n only if the snapshot was whole and one round behind; `ChipsMatchRounds` holds without
any hypothesis. The other three theorems have one each. No part of it can be left out: without it TLC finds a counterexample.

- `Offered`: no surface offers Start to a task that is under way. `startTask()` itself does not turn away a task that is
  refreshing, and `TaskLoop` has no Start there.
- `Undisturbed`: `Offered`, no session is replaced, no agent drops to its shell, and no write fails during a shower
  (`EvalError` pauses from "evaluating" only). Then the owner of the guard can always go on (`Driven`): its recheck passes and
  the injection it waits for is still its own, because whatever could take it needs another stage. Failing file operations, lost hooks
  and any user operation are allowed.
- `Clearable`: no Continue, and a file that is cleared is gone. Then neither the Judge's turn nor an evaluation that asks
  for it meets a spent verdict (`Unspent`): the verdict is cleared before the Judge is asked, `OneEvaluation` leaves nobody else asking
  when the turn begins, and the step that spends a verdict ends the turn. Continue (section 4) and a file that resists are
  the two ways to use one verdict twice.

*The registry.* `IndexSound` needs that an unused operation is indexed nowhere (`Known`); `AnsweredIsDurable` needs that
only dropped operations have a removal in flight (`RmsDropped`) and that none is in flight while `load()` reads
(`LoadIsQuiet`). `OneResult` rests on `EmittedOnce`: an outcome that was published and saved is the one the file holds, so
that `load()` does not hand its operation to reconcile. `NoSecondRun` does not hold (section 4); the theorem shows that two
records of one key in the map are the only way to break it, in every life and whatever fails. The hard part is the sweep that
goes on after an await with a snapshot: what it drops must still be in the map (`Swept`), or the key it frees may be another's.
Only a discard could have taken it, and a discard refuses what names its workspace; the creator of the workspace, which may
not have named it yet, comes before the records that act on it (`CreatorFirst`, from the order of insertion, `Strict`), so
the loop has dropped or flagged it by then. A settled operation that never named the workspace it reserved has left none
(`UnNamed`), which carries this over a restart, where the order of the map is the order of `readdir`.

*The Jira journal.* `NoRepeatInDoubt` alone is not inductive. What is in doubt is unresolved in memory (`DoubtIsOpen`), and
an unresolved entry keeps every other attempt at its action from being sent (`Blocking`), also when nobody is in doubt
about it any more: a reconciliation that finds nothing conclusive may put such an entry in doubt again. `NotAppliedIsTrue`
needs that evidence read from Jira stays true, or that the write was undone since, because the call it is about is over and
cannot be applied later (`Evidence`), and that an entry was written before Jira saw its request (`Faithful`), which is what makes the search window
find it. `Phases` relates a call's progress to what is known of it. The bound on the journal is proved with the
cardinality theorems of the library, assuming that there are finitely many attempts.

*The state store.* `AckedSurvive` is not inductive: a start may prefer a temporary file to the main one. What it may
prefer (`Leading`) must hold every acknowledged change too (`AckedEverywhere`), as must the snapshot of the operation in
flight, and nothing superseded may be in either (`WithdrawnNowhere`). That a finished write has left no leading leftover
rests on the order in which files are written (`Clocked`: no file is newer than the last one; `Stages`: a file about to be
renamed is the last one). `CandidateIs` says what a start promotes, `WrittenIsBest` and `RenamedIsBest` that a promotion
keeps it. For damage, `Spare` says that only the backup and the temporary files stand in for an unreadable main file, and
`Promoting` that a promotion writes exactly what the next start would recover; with them each step of a start keeps
`Best`. `Ranked` (every choice of temporary files has a newest one) stands for their finiteness, which avoids induction.

*The session starts.* What carries the proof is the order of the starts: those that are not over form a line (`Line`), of
which the head connects and the end is in the map, every start but the end was disconnected before the next one joined, and while a session runs
nobody is in it but a start that is about to fill its place (`Vacant`). `OneKind` says that the tab, the start on its way and
every suspended restart agree on what is launched: that is why a local spawn never meets a connect. `Served` relates the last
activation to what is on its way or was only logged, which gives `DisconnectHolds` and `ActivationAnswered`; `OwnText` and `LeftText` say
whose text the replay may hold, which gives `ReplayIsFresh` and `NoGhost`. The start in the map is the last one taken (`Last`),
so that whatever is stored when a start ends unseen is older than it. The number of starts and of suspended restarts
is arbitrary.

*The terminal stream.* What a terminal will show once all frames on their way have arrived is a fold over those frames
(`Arriving`). `Complete` says that it is all of the output and that its `throughSeq` is not beyond the newest chunk, so that no live
chunk is mistaken for one the replay brought. Three laws of the fold make this inductive: a frame sent is the last one
shown (`AfterAppend`), handling the first changes nothing (`AfterHead`), and a replay makes what came before it irrelevant
(`AfterReplay`). They need induction over sequences. The library's induction theorems take an operator as a parameter and
cannot be used; `SetInduction` and `SeqInduction` state induction for the members of a set instead, and are proved from
the well-foundedness of the finite sets. The lengths of output and queues and the budget of the replay store are arbitrary.

*Only model-checked.* The liveness properties `LostHookCovered`, `Settles`, `ForgottenWithWorkspace`, `EditReachesDisk`,
`ReconnectBegins` and `Followed`: they rest on fairness and ENABLED, which are out of the prover's reach. Every safety
invariant and action property of a passing run has a theorem, without a hypothesis but for the four named above. `EveryProcessOwned`,
which a finding violates, is proved with its two exceptions as `NoOrphan`.

## 6. Plan

In this order, the most important behaviour first:

1. **AgentTaskRunner**, continued: rate-limit holds; recovery after a restart (`runtime-task-handlers.ts`,
   `recovery-queue.ts`) composed with it; Companion mode. `Fine` and `Stage` are stated per kind of function, so a new kind adds a
   line to each and one lemma per step.
2. Weaker hypotheses for the conditional theorems: `EvaluationDriven` with replaced sessions, up to the Pause and Continue that
   resolves it; `VerdictSpentOnce` for the Continues that do not follow a handled "continue".
3. **MobileCommands**: the idempotency ledger between the relay and the runtime.
4. **ReviewGitLocks**: the two-level re-entrant mutex as an implementation of an abstract lock; operations and their keys.
5. **TokenRefresh**, **TunnelManager**, **Schedulers**.

Each further module is to bring one passing run that answers its question, with few properties, so that the whole set
stays quick to check; two runs of a module are merged when their state space allows it.

## 7. Not modelled

Components and the reason for each are in PROJECT.json. They are I/O, parsing and presentation for the most part: the
Git, Jira and pull-request readers turn the output of programs and services into views, the renderer draws them, and the
Electron shell passes calls on. What is concurrent among them and not yet modelled is in the plan.
