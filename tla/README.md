# A formal model of Lotagate Desktop

Lotagate Desktop is an Electron application. Its main process runs one CLI agent process per session,
projects the events of those processes into tasks and an activity history, executes the host operations
the agents ask for (in a VM sandbox when the policy says so), and lets a paired phone start turns
through remote control. The main process is one JavaScript thread: between two `await`s nothing
interferes, at every `await` everything may. The modules here describe that program at this granularity,
one action per stretch between awaits that others can observe. TLC checks them on small instances, and
TLAPS proves for all instances every safety property that the passing runs check (section 4).

Paths below are relative to the repository.

## 1. The system

| Component | State | Operations | Hard behaviour | What makes it correct |
|---|---|---|---|---|
| VM scheduler, `src/main/sandbox/vm-scheduler.ts` | promise chain per environment, slot counter, waiters | `run` with an `AbortSignal` | cancellation in the middle of a chain, wake-up and retest of the counter | one operation per environment; slots bounded; no wake-up lost |
| VM environment manager, `src/main/sandbox/vm-environment-manager.ts` | warm guests by key, pending starts, waiters, idle timers | `execute`, `closeAll`, `closeWorkspace` | look-up before an await and insertion after it; eviction, expiry and failure of a guest in use | no lost guest, none closed under its user, capacity bounded, everyone settles |
| Guest bridge and runtime adapters, `src/main/sandbox/vm-guest-bridge.ts`, `vm-runtime-adapter.ts` | request table of a guest, its process | start, request, close | time-outs, bad lines and exits race for one close | a failed start leaves no process; every request settles |
| Guest service, `resources/sandbox/guest-runner.py` | child, its group, pipes, budgets, virtual environments | command, write, prepare | a descendant holds the pipes; two services prepare one environment | a limit ends the command; prepared means installed |
| Task event projector and task store, `src/main/tasks` | open delta batches, chains per workspace and task, the tasks file, the activity log | `apply`, batch timer, `flush`, title, archive, interruption | events that await each other's batches; several writes per event | deltas in order and before the end of their turn; event numbers dense; a typed title wins |
| Turn ownership, `src/main/tasks/task-turn-coordinator.ts`, `src/main/ipc/register-agent-ipc.ts`, `src/main/remote-control/remote-control-service.ts` | claims by task | `claim`, `bind`, `release`, `observe`, `releaseSession` | two entry points, terminal events and exits that name no token | one turn per task; a running turn keeps its claim; no claim leaks |
| Activity log, `src/main/persistence/activity-log-store.ts` | an append-only file, the next number, a cached list, counters | appends, delta batches, completions, replacement, compaction, reads | crashes inside a write, reads outside the chain, failing writes | what is acknowledged stays; the file can be replayed |
| CLI agent processes, `src/main/agents/agent-manager.ts`, `cli-agent-process.ts` | processes by key and session, request tables, generations, recovery and idle timers, command buffers | open, resume, start a turn, run a command, evict, recover, shut down | exits during starts, recovery against removal, admission at the limit | a bounded number of sessions; every request answered once; no stray process |
| Host requests, `src/main/agents/*-broker.ts` | requests by session, chains, generations | route, execute, fall back, abort | a path that changes between check and use; a close that overtakes a creation | a request runs once, where it may; tools belong to their session |
| Approvals, `src/main/approvals` | pending requests with timers | request, respond, cancel | answer, time-out, cancellation and exit race | one decision each |
| Automation, `src/main/automation` | runs and schedules in files, the scheduler of the operating system | start, cancel, retry, answer, recover, next run, synchronise | status writes after awaits; restart; clock changes | one run at a time; the next run is the next time of the schedule |
| Checkpoints, `src/main/checkpoints` | object store, journal | capture, undo, compact | a crash or a failing file inside an undo | all or nothing |
| JSON files, artifacts, workspaces, `src/main/persistence`, `artifacts`, `workspaces` | files behind a chain, bytes beside an index | add, replace, remove, read | failed writes, bytes and index apart | what is listed is there, what is kept stays |
| Persistent cache, `src/main/cache` | values, loads under way | read, force, invalidate | late results of an older load | one load at a time |
| Remote control transport, `src/main/remote-control` | sockets, ledger, uploads, send queue, trust requests | connect, back off, receive, send, revoke | repeated commands, old sockets, overflow | a command runs once; messages leave in order |
| Process control, `src/main/process` | a child tree, its output | terminate, collect | lost events, deadlines, budgets | ended means gone; the result says what is missing |
| API transport and accounts, `src/main/api`, `src/main/auth` | cookies, one shared refresh, generations of caches | call, retry, sign in, sign out | a refresh that crosses a sign-out | nothing of one session in another |
| Updates, `src/main/updates` | published snapshot, files | check, download, cancel, install | a check during a download | what is ready is verified |
| Terminals, `src/main/terminal`, `TerminalPanel.tsx` | shells, tabs, queued output | open, restart, show, close | an open that outlives its panel; output past its limit | every shell is one of a tab; output shown or marked as cut |
| Browser and computer hosts, `src/main/browser`, `src/main/computer`, `resources/computer-use` | sessions, tabs, views, recordings, debugger, overlay, mouse | navigate, act, record, inspect, click | resize against close; events of a shared session; a changed window | nobody else's page, element, request or mouse |
| Dependencies and repair, `src/main/dependencies`, `src/main/sandbox` | cached reports, installers | inspect, install, retry, repair | a repair beside a start | a report is of the operation it names |
| Git, plugins, extensions, `src/main/git`, `src/main/extensions`, `src/main/plugins` and their panels | working tree, stash, hidden secrets, loads | commit, stash, discard, edit, install | answers for another project; a file changed under an editor | no change lost unasked; no secret overwritten |
| Main process, `src/main/index.ts` | launch mode, window, timers | start, dispatch, sign out, shut down | a hanging step; a second start; a kill | ordered ends; nothing left active |
| Renderer workspace, `use-workspace-controller.ts`, `LiveChatDrawer.tsx` | activities, streams, queue of prompts, microphone, speech | select, load, stream, queue, speak | answers for an older selection; two drains of one queue | view agrees with the store; the newest turn is heard |
| Build and release, `scripts` | images, metadata, installers, manifests | prepare, build, list, download | a build that was killed | what is packaged is whole and current |
| Contracts, preload, theme | none | | none | |

**How they interact.** A CLI process emits a line; `CliAgentProcess.consumeLine` hands an event to
`AgentManager`, whose handler calls `AgentEventCoordinator.observe`, which tells the turn coordinator of
terminal events and the projector of all of them. The projector calls the task store, which writes the
tasks file and the activity log. A process exit goes to `onExit` in `src/main/index.ts`: it releases the
session's claim and has the session's active tasks interrupted, while the pending requests of the
process are rejected. A host request goes through its broker to the sandbox provider, whose `execute` is
one call of the scheduler around one call of the environment manager. The composer (renderer, then the
`agent.turnStart` handler) and remote control start turns by way of the turn coordinator and the agent
manager.

The full list of hazards, each at its line and with the properties that watch it, is in `PROJECT.json`.

## 2. The modules

| Module | Models | Role |
|---|---|---|
| `WorkspaceGate` | what the scheduler promises: who may be inside together | abstract specification |
| `VmScheduler` | `VmScheduler` | detailed; implements `WorkspaceGate` |
| `VmSandbox` | `VmEnvironmentManager` inside `VmSandboxExecutionProvider` | composes the scheduler (EXTENDS) with the environment manager |
| `TaskProjection` | `TaskEventProjector`, the task calls of `TaskStore`, `onExit`, start-up | |
| `TurnClaims` | `TaskTurnCoordinator`, both entry points, the CLI as its environment | |
| `ActivityHistory` | what the activity log promises | abstract specification |
| `ActivityLog` | `ActivityLogStore` with crashes | detailed; implements `ActivityHistory` |
| `CliProcess`, `AgentSessions`, `ChildProcesses`, `GuestRuntime`, `GuestRunner`, `BrowserBroker`, `BrowserService`, `ComputerService` | what owns a process, a page or a device | composed in `MCHosts` |
| `AutomationRuns`, `HostRequests`, `Checkpoints`, `RemoteLink`, `PromptQueue`, `LiveChat`, `Composer`, `ConversationView`, `TaskRecords`, `GuestInstalls`, `StoredFiles`, `ApiSession`, `ReleasePipeline`, `Terminals`, `Commands`, `ProjectPanels`, `AppLifecycle` | services, the window's state, scripts | composed in `MCServices` |
| `VmSandboxProofs` | | theorems about `VmScheduler` and `VmSandbox` |
| `TaskProjectionProofs`, `TasksProofs` | | theorems about `TaskProjection`; about `TurnClaims` and `ActivityLog` |
| `HostsProofs` | | theorems about the components of `MCHosts` and the suite |
| `CallsProofs`, `KeepingProofs`, `ShownProofs`, `ServicesProofs` | | theorems about the components of `MCServices`, by theme, and in the last the suite |
| other `MC*` | | constants for TLC |

Definitions called *Faulty variant of X* stand before `X` in the modules. They are no part of any
specification: each is `X` with a plausible mistake, and replacing `X` by it must violate the property
`PROJECT.json` names. They document what each property is there to catch.

### VmScheduler

A call of `run()` is an operation; `pc` says where it stands. `chain[op]` is the set of earlier calls
its promise `previous` stands for: in the code each call stores `previous.then(() => current)`, which
resolves when *all* earlier calls of the key have settled, and the model's guard says just that.
`waiters` and `running` are the fields of the class. `PreviousResolved`, `TakeSlot` and `AwaitSlot` are
separate because continuations run as separate microtasks: between being woken and testing the counter
again, a newcomer may take the slot. `Abort` has three cases, since a listener is attached only in the
two waits; elsewhere the signal is found fired later. A call is made once: a later call of the same
caller is another operation. The limit is read from the settings at each call, hence a function of the
operation.

### VmSandbox

Extends the scheduler: the body of a call is `manager.execute()`, and `Return` is the scheduler's
`Finish`. `stage` follows an operation through `acquire`, `execute`, `discard` and `release`; `envs` is
the map, `starting` the counter `pendingStartCount`, `guest` the life of a process, `active` and `timer`
the fields of an entry, `closer` the calls of `closeAll` and `closeWorkspace`. A guest is named by the
operation that started it. Guest processes fail, starts fail, closes take their time. Which idle guest
is the least recently used one is left open, a superset of the code's choice. The same holds of timers:
an idle timer may fire whenever it is armed.

### TaskProjection

`queue` is the chain of a workspace: it holds operations, each with the event whose `apply()` awaits it.
`rest` is the loop of `flushAssistantDeltas` an event is in the middle of. A lifecycle event makes two
store calls (`SetStatus`, `SetTurn`), between which exits and restarts fall. A store call is atomic
because `JsonFileStore` serialises updates and renames. `StoreFails` is a failing call: the queue goes
on, the awaiting `apply()` rejects. A segment of a turn's text is not told apart from the turn; a
cancelled turn takes the steps of a failed one. Every event names its task, so the fallback look-ups of
`selectTask` are left out.

### TurnClaims

`claims` is the coordinator's map (a task has one session, so `sessionId` is a flag); `caller` is how
far an entry point is; `cli` what the CLI does with the turn. The coordinator's operations are
expressions over `claims`, used by the actions of those who call them. `ProcessExit` is `onExit` with
the rejection of the pending requests, whose callers go on later (`RejectionHandled`); a composer whose
claim names the session loses it to an exit while it still prepares its turn. `ProcessShutdown` is an
end without `onExit`: of an idle process, or at a sign-out, which cuts the turns that run (`cut`) and
tells the coordinator nothing. `TurnRecorded` is the write with which remote control stores the turn: it
is inside the `try`, so that its failure releases the claim of a turn that runs (`LetGo`), as a response
without a turn id does. Such a turn is *untracked*, and the properties except its task.
`releaseWorkspace` is not modelled, no exit path of the program calls it; nor is the claim that
`agent.turnStart` makes for a caller without a token, for the composer always has one.

### ActivityLog

The file is a snapshot, numbered records, and perhaps the beginning of a record. `memory` has the fields
of the store. One call is at the head of the chain (`call`); `Write` and `Acknowledge` are apart because
the application can die between the write and the return. `Crash` leaves any prefix of the records being
written, the last one possibly torn. `reading` is a `read()`: it waits for the chain, reads the file,
and replays it into the fields when it comes to it. An activity list is abstracted to the changes it
results from, which is what the abstract history consists of. Two steps are allowed that the properties
do not survive, and have names: `StaleReplay`, a read that replays what an operation has left behind,
and `BatchFails`, the failing write of a delta batch or a completion.

### The two suites

`MCHosts` and `MCServices` put components side by side that share no state in the program, or only by
way of calls whose effects are choices here. The variable `part` is chosen at the start; a behaviour
runs that component and leaves the others as they began, so a suite has the sum of its components'
states, not their product. A property of a suite is a conjunction of the components' properties on one
theme: section 3 lists the conjuncts. Some modules hold several components with variables of their own
(`AutomationRuns`: runs and schedules; `ProjectPanels`: pages, Git, configuration files; `AppLifecycle`:
the application, the operating system's scheduler, the cache; `ChildProcesses`: termination, bounded
output; `BrowserService`: tabs, recordings, navigation, debugger, controls; `ComputerService`: actions,
UI elements; `GuestRunner`: commands, Python; `HostRequests`: routes, approvals; `RemoteLink`: commands,
sending; `GuestInstalls`: guest, host; `ReleasePipeline`: images, installers, updates; `Commands`: slash
commands, plugins at the start; `Composer`: drafts, attachments, recordings, transcriptions).

**CLI and guests.** In `CliProcess` a process is a generation; `pending` is the request table, to which
callers, stops and the shared handshake all add entries, and each way a process ends (exit, failing
write, bad line, time-out, shutdown) is an action. `AgentSessions` keeps the maps of `AgentManager` in
one record and the admission chain in the steps of an opening; a recovery timer belongs to a key, as in
the code, not to a binding. `ShutdownProject` (a workspace is removed, the window asks) and
`ShutdownAll` (sign-out, expired login, the end) may come at any time; `ordered` remembers whom they
told to end, and `AllShutDown` empties the maps when the processes of the call are down, whatever has
been opened since. `ChildProcesses` has the child, the processes below it and the events of the child,
which may come in any order or not at all, and the same child under the three callers that bound its
output. `GuestRuntime` is one guest of the adapters with its bridge; `GuestRunner` the Python service in
it: a child and a descendant in its group, either of which may ignore SIGTERM, and `prepare_python` run
by several services over one directory, where a lock, a kill and a stale marker matter.

**Browser and computer.** `BrowserBroker` names a browser session by the request that created it and
keeps the generations the code forgets. `BrowserService` has the native view that is painted and the
sizes the drawer asks for; its recordings count the intervals that run, since starting one twice loses
one; a URL is reduced to its origin, and handlers of the Electron session are shared by the sessions of
a profile as in `browser-service.ts`. `ComputerService` runs actions as sequences of helper commands
each of which may fail or be aborted, and models both scripts for UI elements: Windows finds an element
by its runtime identity, Linux by a path into a tree that changes.

**Services.** `AutomationRuns` has the execution, the scan, approvals, cancellation and restart
interleaved between the awaits of the stores; the schedule half computes `nextRun` in zones whose clock
changes once, days being shortened to a few hours, and compares it with a reference definition.
`Checkpoints` has files, objects, the journal with a torn last line, and the undo file by file, each of
which may fail, the journal and the collection after the last file as well; in a recovery that fails,
any of the files may be left as it is or removed (`RecoveredBut`, `stuck`). `RemoteLink` numbers sockets
and lets messages of old ones arrive late. `PromptQueue` has the two parties that start queued prompts,
as dispatches of which several may be under way: the composer picks the next prompt when a turn ends
although a dispatch of it may not be over, and remote control reads the queue and starts later what it
read. `loose` says that the claim of a turn that runs was let go, `claimOf = "kept"` that nobody will
release it.  `LiveChat` keeps the refs of the component in one record, because its callbacks share them.
`ConversationView` has loads in flight with the selection they were made for, and the merge of streamed
and stored segments; a delta is shown or left, for the window drops those of a turn that is not the
active one. `Composer` has a draft pending for 250 ms and the chain of its writes beside the writes that
go past that chain (a prompt, a slash command or a queued prompt clears the draft, the editing of a
queued one replaces it: `DirectWrite`), the list of attachments that is read before it is awaited and
written, the microphone, and the model file the transcriptions share. `ReleasePipeline` has one file per
download of an update. `TaskRecords` takes an event apart into its three writes; `PromptTitles` is the
composer's title for an untitled task, decided on a task that was read before and stored behind whatever
came meanwhile. `GuestInstalls` has the cached operation a sandbox and a repair share, and the tools of
the host with alternatives. `StoredFiles` has bytes and index apart. `ApiSession` has one refresh for
many calls and generations of what is cached. A build of `ReleasePipeline` may be killed anywhere; what
it then finds is what it left. `Terminals` has both sides of the bridge. `HostRequests` has the route of
a request and what the file system says at each look. `Commands` has the CLI's events before or after
its answer. `AppLifecycle` starts the program again after a kill and asks what it finds; a guest's
acquisition may wait across the close of the guests (`acquiring`), and the completion of a once-only
automation changes what is scheduled without queueing a synchronisation (`CompletionRecorded`).

## 3. What the runs show

| Run | Instance | Shows |
|---|---|---|
| `VmScheduler` | 5 operations of 3 keys, limits 1 and 2 | `OneOperationPerEnvironment`, `SlotsBounded`, `GateRefined`, `NoCallLeftBehind` |
| `VmSandbox` | 3 operations of 2 keys, one key of a removed workspace, environment limits 1 and 2 | `GuestKeptWhileInUse`, `NoOrphanGuest`, `EnvironmentsBounded`, `EveryCallSettles` |
| `TaskProjection` | 2 tasks with a turn each, 2 deltas, batches of 2, one fault | `DeltasInOrder`, `DeltasBeforeEnd`, `QueueDrains` |
| `TaskProjectionStale` | the same, one delta, no faults and no exits | a violation of `NoTaskLeftActive` |
| `TurnClaims` | 1 task, 2 composer and 2 remote turns | `OneTurnPerTask`, `ClaimHeldWhileRunning`, `ComposerClaimReleased` |
| `TurnClaimsFailure` | the same | a violation of `NoClaimAfterProcessFailure` |
| `ActivityLog` | 4 operations, 2 segments, batches of up to 2 deltas, compaction after 2 records, failing appends and replacements, no overlapping reads | `LogReplayable`, `FieldsAgree`, `HistoryRefined` |
| `ActivityLogReads` | the same with reads that overlap operations | a violation of `AppendsSurviveReads` |
| `Hosts` | the 15 parts of `MCHosts`: two calls and a shutdown of one CLI object over 4 generations; two sessions of two projects for one place with a crash and shutdowns of a project or of all; two guest requests; two browser requests of a key; one or two of every tab, download, action, element, origin | `TableOfCurrentChild`, `NoProcessForgotten`, `SessionsBounded`, `HostToolsOwned`, `OneTabShown`, `OutputBounded`, `RunningTurnKept`, `HostsSettle` |
| `Services` | the 32 parts of `MCServices`: two runs of an automation for one place, 10 schedules in 4 zones, two files and turns to undo, two commands over two sockets, 3 sends into a queue of 2, two prompts with two dispatches and two turns, one direct write of a draft at a time, two segments, 3 builds, 3 reads of a cache, two launches | `DoneOnce`, `KeptRecords`, `ShownIsCurrent`, `VerifiedBeforeUse`, `FilesAsAsked`, `ConversationKept`, `ScheduleKept`, `ServicesEnd` |
| `OneProcessPerSession` | the agent sessions of `MCHosts` alone | a violation of `OneProcessPerSession` |
| `GroupCleaned` | commands of `GuestRunner` alone | a violation of `GroupCleaned` |

Every passing run checks a type invariant as well. Deadlock is not checked: calls, turns and operations
are made a bounded number of times, after which the system may stop; that nothing stops earlier is what
the liveness properties say.

### The conjuncts of the suites

Each row is a property of its own in the module named; the last column is a faulty variant that TLC
finds to violate the suite's property through it, where the module has one.

| Suite property | Conjunct (module) | Says | Faulty variant |
|---|---|---|---|
| `NoProcessForgotten` | `DetachedByOverlapOnly` (`CliProcess`) | a CLI that lives on without being current was let go by overlapping shutdowns only | `NotTold` |
| | `EndMeansGone` (`ChildProcesses`) | "ended" is reported only when the child has exited, and its tree was told to end unless the child had exited before the call | `SettleWithChild` |
| | `NoGuestLeft` (`GuestRuntime`) | after a failed start or a returned close every process was told to end, though its end may be unconfirmed | `LaunchDropped` |
| `HostToolsOwned` | `BrowserSessionsOwned` (`BrowserBroker`) | a browser lives only while named, created or closed; never older than the last close | `CleanupUnused` |
| | `ComputerToOneAction` (`ComputerService`) | mouse, screen and overlay belong to one action; no screenshot outlives it | `FinishUnclean` |
| | `ActsOnInspected` (`ComputerService`) | on Windows an action reaches the inspected element | `FindByPlace` |
| | `PagesAllowed`, `RequestsOwned` (`BrowserService`) | pages stay on the allowlist; requests are shown for the page that made them | `BlocksLinks`, `OwnerByHandler` |
| | `DebuggerHeld` (`BrowserService`) | nobody detaches another's debugger | `MayRunAtOnce` |
| | `PreparedIsThere` (`GuestRunner`) | a reported preparation has installed what was asked | `LockNothing` |
| `OutputBounded` | `BoundedResult` (`ChildProcesses`) | output within budget, loss marked, ends real | `AppendWhole` |
| | `LimitEndsCommand` (`GuestRunner`) | a limit ends the command; output kept up to it | `ReadWhole` |
| | `FramesBounded` (`BrowserService`) | frames of a recording bounded | `CaptureAnyway` |
| `DoneOnce` | `RunsExclusive` (`AutomationRuns`) | one execution of an automation, executions bounded | `ReserveLate` |
| | `ApprovalDecidedOnce` (`HostRequests`) | one decision reaches the CLI, and it is the one recorded | `TakeLate` |
| | `RemoteCommandsOnce`, `SendsInOrder` (`RemoteLink`) | a repeated command runs once; messages leave in order, none passed over | `RememberAnswers`, `OverflowDrops` |
| | `RunsWhereAllowed` (`HostRequests`) | a request runs once and on a side it may | `FallbackAlways` |
| | `CommandsWhole` (`Commands`) | a successful command ended well and has its output, or says it was cut | `HostReadsEarly`, `RecordedUncapped` |
| | `OneLoadAtATime` (`AppLifecycle`) | the CLI is asked once at a time for a cached value | `ForgetLoad` |
| `KeptRecords` | `QueuedPromptsKept` (`PromptQueue`) | a queued prompt stays until started or removed; one starts a turn at a time, unless the claim of a running turn was let go | `DequeueFirst` |
| | `DraftsKept` (`Composer`) | what the user wrote last in a task ends up in the store (the exceptions are in section 5) | |
| | `AttachmentsBacked` (`Composer`) | a listed attachment is on disk | |
| | `TitlesAndCursorsKept` (`TaskRecords`) | a typed title wins, but over a prompt that was titling the task; events numbered without gaps | `RunningBeside`, `SettlesAnyway` |
| | `StoredKept` (`StoredFiles`) | listed files are there, no update lost, a directory is one workspace | `OutOfTurn` |
| | `SecretsKept` (`ProjectPanels`) | the mark of a hidden secret is never stored | `RestoreNone` |
| | `DispatchKept`, `RestartReconciles`, `ClosedInOrder` (`AppLifecycle`) | a dispatch asked for early is made; a restart leaves no task active; a clean shutdown leaves nothing open but a guest whose acquisition waited | `PendingDropped`, `ReconcileNothing`, `StepsFlushFirst` |
| `ShownIsCurrent` | `MicrophoneOwned` (`Composer`) | a microphone that is on can be turned off | |
| | `SpeaksNewestTurn` (`LiveChat`) | only the newest turn is heard; a closed drawer is silent | `SynthesizedAnyway` |
| | `ShellsShown` (`Terminals`) | a shell belongs to a tab of its directory; output shown or marked | `WantedAnywhere` |
| | `PagesCurrent` (`ProjectPanels`) | rows are of the project in the window | `CurrentByNumber` |
| | `SessionsApart` (`ApiSession`) | nothing loaded in one session is given in another | `AnySession` |
| | `SchedulerFollows` (`AppLifecycle`) | the operating system's task exists exactly when an automation is scheduled, but after the last run of a once-only one | `NextSyncs` |
| `VerifiedBeforeUse` | `ReadyIsVerified` (`ReleasePipeline`) | what is offered is on disk, verified, and the asset shown | `DownloadUnverified` |
| | `TranscribesVerified` (`Composer`) | a transcription runs on a verified model, which no download takes away | |
| | `PackagedIsCurrent`, `ListedIsOfOneRun` (`ReleasePipeline`) | images whole and of the manifest; a release list of one run | `ReusableByManifest`, `ClearNothing` |
| | `HostToolsTried`, `RepairKept` (`GuestInstalls`) | each missing tool tried once and reported; a repair's report stands | `GiveUpAll`, `EnsureBeside` |
| `FilesAsAsked` | `UndoAllOrNothing` (`Checkpoints`) | a successful undo restores all files, a failed one none, but those the system does not let it touch | `RestoreNothing` |
| | `ChangesKept` (`ProjectPanels`) | a change is lost only with approval | `ApprovedOrAsked` |
| | `RemovedStaysRemoved` (`Commands`) | a removed plugin is not installed again | `StartBootAgain` |
| `ConversationKept` | `ViewKept`, `SegmentsAgree` (`ConversationView`) | only the selected task's activities, unless the newest load is of another; no segment twice, shortened or missing | `CommitOutdated`, `MergeById` |
| `ScheduleKept` | `NextRunIsNext`, `StaysScheduled` (`AutomationRuns`) | the next run is the next time of the schedule, and exists while enabled | `ZonedOnce` |

`HostsSettle` and `ServicesEnd` are leads-to properties over one predicate each: something is under way
leads to nothing being under way. Everything that can be under way is begun a bounded number of times,
so a request, run, installation, command or shutdown that never ended would violate it.

**Why the bounds are enough.** Three operations of one key are a predecessor, one that is cancelled in
the middle, and a successor; the other two keys compete for the slots under different limits. In the
sandbox two operations of one key reuse a guest and one of another key needs it evicted. A turn that
streams two deltas in batches of two has a batch that is full and one that a timer, an event or another
task's event flushes; one fault and one exit fall between any two steps. Two turns of each entry point
let a late rejection meet a younger claim of either kind, and an untracked turn a next one. Four log
operations with compaction after two records put a snapshot between the first delta of a segment and the
next, before and after a crash. In every module each call is made once and a call made again is another
one, so no counter needs a further cap.

In the suites every race named in section 1 needs two actors of a kind and one of each other kind, and
the cfg files give that: two calls and a shutdown, two openings for one place (with one crash and one
retry of the recovery, so that a timer outlives its binding), two requests of one browser key with a
close between, two files so that an undo can fail in the middle and must restore the first, two
dispatches so that a prompt that is being started can be picked again, two sockets so that an old one
still delivers, two loads of a page so that the older answers last, and three where a first, a forced
and a late one must meet (cache reads, trust requests, synchronisations, builds: one made whole, one
forced and killed, one that reuses what it finds). Schedules are checked over every hour of a period in
which the clock changes forth or back, in zones east and west of UTC. Limits (output, frames, queue,
buffer) are one or two so that they are reached and passed.

**Fairness.** Weak fairness stands for: promise continuations run (the event loop); a guest start,
execution and close settle (each bounded by a time-out in the bridge or the adapter); a store call
settles and the batch timer fires; a request to the CLI is answered, refused or times out. No fairness
is given to calls, cancellations, exits, crashes, idle timers, deltas or the end of a turn: the CLI may
be silent for ever. In the suites fairness is given to the request and shutdown time-outs of a CLI
process and to what its callers do once answered; to the deadline of a termination; to a guest's request
time-outs and the end of its close; to the steps and the time-out of a run; to the steps of an
installation, each a command with a limit; to the timers of who waits for a CLI command; and to the
watchdog of a shutdown. None is given to users, peers, pages, the CLI, or children.

### Disagreements between the code and its tests or comments

1. **A turn start can be overtaken by the end of its turn** (`TaskProjectionStale`;
   `task-event-projector.ts:54`). `apply` awaits the open batches of *all* tasks of the workspace before
   it chains its own event; while the start of a turn awaits the batch of another task, the end of the
   turn finds nothing to await. The task stays active until the next start of the application.
2. **A remote turn keeps its claim after its process has failed** (`TurnClaimsFailure`;
   `remote-control-service.ts:254`). The claim is never bound to the session, and `onExit` releases by
   session.
3. **A read can set the record number back** (`ActivityLogReads`; `activity-log-store.ts:79`). The next
   append repeats a number, and the file is refused from then on.
4. **Two CLI processes can serve a session** (`OneProcessPerSession`; `agent-manager.ts:110` against its
   line 34). When `session.resume` fails because its process died, the recovery timer is armed already;
   the binding is removed, but its timer is not. After a second resume has made another binding, the
   timer starts a process for the first.
5. **A descendant can outlive its command** (`GroupCleaned`; `guest-runner.py:239` against its lines
   232-234). `terminate` waits for the child alone, and sends SIGKILL to the group only if the child
   ignored SIGTERM.

## 4. What is proved

TLAPS proves these for all values of the constants, assuming only what the modules' `ASSUME`s say (and,
for the activity log, a hypothesis named below). The `ASSUME`s bound no number: they say that bounds are
natural numbers, that some sets are finite (`SchedulerAssumption`, `SessionsAssumption`,
`CheckpointAssumption`, `InstallAssumption`, `UiAssumption`, `AutomationAssumption`), that the values
for "nothing" are not among the others, that the CLI commands of the window, of plugins and the listing
differ (`CommandAssumption`), and that segments are numbered (`ViewAssumption`). The one that excludes
cases the code can meet is `ScheduleAssumption`: a zone changes by at most an hour, and west of UTC not
forward at the first hour of a day (section 5). Each invariant was first checked by TLC on the instance
of its run.

- `VmSandboxProofs`, the scheduler. From `SchedulerAssumption` (finitely many operations, limits at
  least 1): `TypeCorrect`, `MutualExclusion`, `SlotLimitRespected`, `ImplementsGate`. Mutual exclusion
  is not inductive: nothing in it stops two queued calls of one key from both finding their chains
  settled. The invariant adds what the promise chain provides (`KeyOrder`): of two unsettled calls of a
  key at most one is past its wait, a queued one waits for it, and of two queued ones one waits for the
  other. It also says that `waiters` lists parked calls, each once (otherwise a wake-up could hit a call
  that is elsewhere), and that the counter is the number of callbacks under way, which is an argument
  about the cardinality of a set that gains or loses one element per step. `ImplementsGate` maps each
  step to a step of the gate or to a stutter, and uses the invariant where the gate's guard says that
  nobody of the key is inside.
- `VmSandboxProofs`, the sandbox. `ImplementsScheduler`: a step of the composition is a step of the
  scheduler or a stutter, so that the scheduler's invariant holds in it (`OneUserPerEnvironment`). On
  top of it `SandboxInv` gives `GuestKept`, `NoGuestLost` and `LimitKept`. `acquire()` looks its key up,
  awaits an eviction and a start, and inserts without looking again; that this loses no guest is no fact
  about the environment manager but one about the scheduler, which lets no other call of the key in
  (`KeyVacant`: whoever is past the look-up finds its key vacant until it inserts). `InUse` and
  `IdleUnused` tie the users of an entry to the call that executes on it, without which an idle timer or
  an eviction could take a guest in use; `StartsCounted` makes the counter of pending starts the
  cardinality of those in the stages that reserve a place, which `LimitKept` adds to the warm guests.
- `TasksProofs`, the claims. From `ClaimAssumption`: `ClaimTypeCorrect`, `ClaimKept`, `OneTurn`. The
  events and exits that release a claim do not name its token. The invariant says that a turn owns the
  claim from its request to its end, so that they can only be its own, and that a remote turn being
  prepared owns an unbound claim: remote control never asks again whether it still has it, and only
  because the claim is unbound does an exit pass it over. `OneTurn` follows, since a claim has one
  owner. Both except the tasks of which a turn went untracked: what follows there is that the composer
  or remote control may start a turn beside the one that was let go, whose end then releases the claim
  of the next.
- `TaskProjectionProofs`. `ProjTypeCorrect`, `DeltasStayInOrder`, `EndsBehindDeltas`, with failing
  writes, exits and restarts, for any numbers of tasks, turns and deltas and any batch size. The
  invariant is stated over a queue, the open batches, the log and the loops of `flushAssistantDeltas` as
  values, since one event flushes several batches in one step. Between batches an event stands in the
  queue behind the batch it awaits (`Waiters`): what makes its end follow all deltas is that a turn
  whose end was received gets no more of them, that the one batch it may still have open is among those
  its loop has yet to visit, and that an event awaits one batch at a time.
- `TasksProofs`, the log. `LogTypeCorrect` holds without hypotheses. `LogAlwaysReplayable`,
  `FieldsCorrect` and `ImplementsHistory` are proved of the behaviours that are `Undisturbed`: reads may
  overlap operations, and operations may fail, but no read replays what an operation has left behind,
  and no delta batch or completion fails to be written. Both are needed: with `Overlap` the run
  `ActivityLogReads` shows the file refused, and with failing batches TLC finds `FieldsAgree` violated
  (section 5). The invariant has to speak of the middle of an operation, where the file is ahead of the
  fields by just what the operation adds (`FieldsFollow`), and of what was acknowledged being in the
  file (`AckedRecorded`). `ImplementsHistory` maps each step, crashes inside a write and compactions
  included, to an append of the abstract history or to a stutter.
- `HostsProofs`, CLI processes. `CliTypeCorrect`, `TableIsCurrent`, `LetGoByOverlap`, for any number of
  calls, shutdowns and generations. The invariant says that the field `child` holds the last generation
  or nothing and never a process that is gone, and of which generations shutdowns may be.
  `LetGoByOverlap` then says which process can be left alone: one for which `shutdown()`, waiting for an
  earlier generation, cleared the field (the variable `letGo` remembers whose shutdown it was).
- `HostsProofs`, agent sessions. `SessTypeCorrect`, `SessionsStayBounded`, `TurnKeepsItsProcess`. The
  count is taken when an opening is admitted and the session is bound several awaits later; `Openings`
  says that one opening at a time is in between, and `Capacity` that it still finds room.
  `TurnKeepsItsProcess` is a property of steps: a process that is bound, known and under a turn ends
  only when a shutdown was ordered. What evicts and expires looks at `sessionTurnRoutes`, which a
  recovery and a refused opening clear while the turn goes on, so that the invariant has to say of a
  binding with a cleared route that nothing finds it any more (`Gone`).
- `HostsProofs`, the suite. `HostsAreComponents` (a behaviour of the suite is one of each component)
  carries what is proved of the components over to the suite: `HostsTypeCorrect`, `NothingForgotten`,
  `ProductsStayBounded`, `ToolsStayOwned` and `ComponentsKeepTheirs` state the suite's safety
  properties. Among their lemmas: for `BrowserBroker`, whose chains, generations and closers overlap,
  that the first of a chain alone executes (`Queued`), that a request's generation is at most that of
  its key, and below it after a close (`Dated`), and that a key has no browser while one is created for
  it (`Named`); for `ComputerService`, that the first of the line alone runs (`InLine`), and that a
  pressed button is that of a drag that failed or is about to release it (`ButtonOfDrag`); for Python
  runtimes, that packages change only under the lock; for the debugger, that the command that runs is
  the head of its queue; for guests, that what is being closed is not alive; for recordings, that one
  capture is in flight and found room when it began.
- `CallsProofs` (what `DoneOnce` and the schedules rest on). `RunsStayExclusive`: an execution has the
  reservation of its automation, and has it alone, over starts that await a file. `SchedulesAreKept` is
  arithmetic: a local time corrected twice with the offset found is the moment meant, unless the zone
  skips it; the search for the next time ends in its range and passes over none. `CommandsRunOnce`:
  whatever old and new sockets deliver, the ledger of a link knows a command before it runs;
  `MessagesLeaveInOrder`: the numbers of what waits, is encrypted and was sent are those of one
  sequence, or the session ends. `ApprovalsDecidedOnce`: who is in the map has been told nothing.
  `CommandsAreWhole`, `LoadsRunOnce`, `RequestsRunWhereAllowed`, `RemovedPluginsStayRemoved` likewise.
- `KeepingProofs` (`KeptRecords`, `FilesAsAsked`). `UndosAreAllOrNothing`: while an undo is under way,
  the files it has visited are as before the turn and the others as it found them, so that a failure at
  any place is undone from what was found; what is stuck is excepted by name. `FilesAreKept` ties each
  listed artifact to bytes nobody is about to remove, over a chain of updates. `DraftsAreKept`: the last
  write that is to come for a task carries what was typed last, or the task is among the lost ones.
  `PromptsAreKept`: a prompt leaves the store only after it was started or by the user, and a claim has
  one dispatch. `RecordsAreKept`, `AttachmentsAreBacked`, `PagesAreCurrent`, `SecretsAreKept`,
  `ChangesAreKept`, `SchedulersFollow`, `StartsAndEndsAreKept` likewise.
- `ShownProofs` (`ConversationKept`, `ShownIsCurrent`). `TheViewIsKept`: a load that is not outdated is
  of the selected task, but for a stray one, and its page is a beginning of what was sent.
  `TheSegmentsAgree` is the longest proof here: of every piece that is shown, stored or waiting the
  invariant says where its text is, through replacements, interruptions and refreshes that overlap.
  `SessionsStayApart`: what is loading belongs to the generation of its call, and the cookies to that of
  the context. `SpeaksOfNow`, `ShellsAreShown`, `MicrophonesAreOwned` likewise.
- `ServicesProofs`. For `VerifiedBeforeUse`: `OfferedIsVerified`, `PackagesAreCurrent`,
  `ListsAreOfOneRun`, `TranscriptionsAreVerified`, `ToolsAreTried`, `RepairsAreKept` (each operation
  that may still begin is paid for by a sandbox or a repair that has not had its turn).
  `ServicesAreComponents` then gives the suite's properties, `ServicesDoOnce` to
  `ServicesKeepTheSchedule`, and `ServicesTypeCorrect`.

A theorem names the property it proves, so that an exception made in a property (sections 3 and 5) is
one of the theorem too.

Only model-checked: liveness (`NoCallLeftBehind`, `EveryCallSettles`, `QueueDrains`,
`ComposerClaimReleased`, `HostsSettle`, `ServicesEnd`), for TLAPS 1.4.5 does not reason about fairness
and `ENABLED`; and, of course, the properties that runs show to be violated.

## 5. Limits of the models

- `ActivityLog`: a failing write leaves the file as it was, and `Failing` excludes delta batches in the
  passing run, as `Undisturbed` does in the theorems. With them, TLC finds `FieldsAgree` violated: a
  batch changes the cached list before it writes, and when the write fails the list has an activity the
  file has not. A write that fails after reaching the file in part, a cut just before the final newline,
  and a power failure that loses an unsynced rename are listed as hazards and not modelled. Paging and
  the import of the old JSON array are left out.
- `VmSandbox`: `GuestKeptWhileInUse` is about operations before `closeAll` or `closeWorkspace` of their
  root: those two close guests in use by design.
- `TaskProjection`: usage totals, drafts, archiving and the text of activities are left out.
- `TurnClaims`: the composer's queue of drafts and a reload of the renderer are left out. A turn that
  was let go while it runs (`remote-control-service.ts:273-277`) is excepted with its task; a claim that
  remote control leaves behind when a step before `turn.start` fails (lines 258-269), or that a sign-out
  leaves, is reached and no property forbids it.
- `NoProcessForgotten` is less than "gone": in `CliProcess` a process let go by a shutdown that waited
  for an earlier generation may live on (`DetachedByOverlapOnly` says how it can come about); in
  `ChildProcesses` nothing is done about what a child that exited before the call left below it
  (`process-termination.ts:9`); in `GuestRuntime` the end of a guest that was told to end may never be
  confirmed (`vm-guest-bridge.ts:91`). Where the executable is found is left out.
- `ComputerService`: a drag that fails after its press leaves the button down; the Linux path may reach
  another element than the inspected one. Both are as in the code and excepted.
- `BrowserService`: two sessions of one profile share the Electron session and its handlers, and dialogs
  that were answered stay in the list; no property forbids it. Frames and drags inside a page are left
  out.
- `GuestRunner`: a command whose child closes both pipes and runs on is answered while it runs
  (`guest-runner.py:235` acts on a child that has exited); `GroupCleaned` speaks of descendants. A
  virtual environment whose creation was killed before `pip` was there is never repaired
  (`guest-runner.py:299-300`); `PreparedIsThere` is about reported successes.
- `AutomationRuns`: `NextRunIsNext` excepts zones west of UTC whose change skips the first hour of a
  day: the next run is then computed in the past. An answer, a cancellation and a request for approval
  write over a terminal status (`automation-service.ts:106`, `128`, `165`), and the recovery at the
  start passes over runs that await approval (line 209); the model does the same and no property forbids
  it.
- `PromptQueue`: a queued prompt runs twice when a call after the start of its turn fails, for the
  composer then takes it for not sent (line 496 of the controller), and when its turn ends before it was
  removed, for the next dispatch then finds it (line 289); the property speaks of losing prompts and of
  two starters at a time, the latter unless the claim of a running turn was let go.
- `TaskRecords`: a user's title that is stored while the composer titles an untitled task for its prompt
  is overwritten (`use-workspace-controller.ts:464-468`).
- `Checkpoints`: files the system lets an undo neither remove nor write back are excepted; the code
  reports them as restored (`checkpoint-service.ts:113`, `190`, `194`).
- `ConversationView`: `ViewKept` excepts what the code does. An undo (`use-workspace-checkpoints.ts:19`)
  and a command (`workspace-command-action.ts:59`) load the task they were begun for although another
  one is selected, which outdates the loads of the selected task (`StrayLoad`); deltas of a turn that is
  not the active one, as after `cancelTask` or a failed start, are not shown until the next load
  (`Missed`); an older page commits the response as it was when the page came, before its previews were
  awaited (lines 213-221, `OlderCommits`); a refresh that finds nothing stored drops the pending stream
  (line 168).
- `ProjectPanels`: the plugin page compares only the number of the load (`PluginsPage.tsx:88-103`);
  `PagesCurrent` speaks of pages that compare the project. The Git panel always confirms a switch of
  branches (`GitPanel.tsx:83-87`), which passes the check of `git-service.ts:91`; that no change is lost
  then rests on `git switch`, which refuses to overwrite one.
- `ApiSession`: a request or a refresh that crosses a sign-out is excepted. `Terminals`: so is an open
  that outlives its panel. `AppLifecycle`: a failed synchronisation with the operating system is not
  retried, none follows the last run of a once-only automation (`automation-service.ts:185`), and a
  guest whose acquisition waited when the guests were closed starts afterwards (H8 of the hazards).
  `ReleasePipeline`: a check during a download may publish `available` without an asset. `TaskRecords`:
  a title left `generating` by an exit stays so (`task-store.ts:220`). `ReleasePipeline`: a manifest
  written between the two reads of an image build (`prepare-wsl2-image.mjs:44-45`) is excepted.
- `Composer`: its properties except what the code does. One text is pending for 250 ms whichever task it
  is of, so that writing in another task replaces it, and a failed write is not repeated
  (`use-draft-persistence.ts`); what clears or replaces a draft beside that chain (a prompt, a slash
  command, a queued prompt, its editing) meets texts on their way to the store in either order; the
  answer of `selectModel` puts its task into `draftTaskRef` although another one was selected meanwhile
  (`use-workspace-model-preferences.ts`); calls that add and remove attachments read the list before
  they await and write it after (`use-workspace-attachment-actions.ts:18-25`); the microphone stays on
  when two starts overlap, when the input goes while it is asked for, and when there is a stream but no
  recorder (`voice-input.tsx:67-72`). The send button (`Composer.tsx:328`) is left to `TurnClaims`.
- `AgentSessions`: `RunningTurnKept` speaks of a session that is bound to the process of its turn, and
  of ends nobody ordered: the removal of a workspace, a sign-out and an expired login stop turns by
  design. `removeBinding` deletes by session id, so that a recovery that fails late for a removed
  binding unbinds the process of a newer one, which then runs on unbound until it is idle.

**Not modelled**, because it keeps no state whose steps could go wrong in an order: the presentation of
the renderer, styles and themes, the preload bridge, contracts and schemas, building of command lines
and of scheduler definitions, previews and thumbnails, search, usage totals, diffs, logs and
marketplaces. Because it computes values that the models take as choices: cryptography of the API and of
remote control, slicing of speech into sentences and of audio into levels, the reading of tables and
frames from pages, the catalog of images and the policy resolver. Because it repeats a pattern that is
modelled: the settings file (`StoredFiles`), scripts that only copy files. The worktrees of automation
runs are calls of Git in a fresh directory.

## 6. Plan

1. Compositions: `TurnClaims` with `TaskProjection` over one stream of events, where the composer's late
   write of a turn (`use-workspace-controller.ts:486`) meets the end of that turn.
2. `ActivityLog`: writes that reach the file in part and fail, and power failures.
3. The disagreements of section 3 and the exceptions of section 5, as the code changes: each is a
   conjunct to be taken out of a property, and the theorems then say whether the change suffices.

## 7. Running

In this directory: `tlc -config VmScheduler.cfg MCVmScheduler` and likewise for the other configurations
(`PROJECT.json` names the module of each; `GroupCleaned.cfg` runs `GuestRunner` itself); `tlapm
TasksProofs.tla` and likewise for the other modules whose names end in `Proofs` (those of the suites
take the longest, a quarter of an hour to half an hour each).
