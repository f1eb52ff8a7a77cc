----------------------------- MODULE MCServices -----------------------------
(***************************************************************************)
(* The services of the application, its window's state and the scripts     *)
(* that build it, checked side by side as MCHosts checks the hosts: they   *)
(* share no state, a behaviour runs one of them, `part`, and leaves the    *)
(* others in their initial states.                                         *)
(***************************************************************************)
EXTENDS AutomationRuns, Checkpoints, RemoteLink, PromptQueue,
        LiveChat, ConversationView, TaskRecords, GuestInstalls,
        StoredFiles, ApiSession, ReleasePipeline, Terminals, HostRequests,
        Commands, ProjectPanels, AppLifecycle, Composer, TLC

CONSTANTS tool1, tool2, tool3

MCRetriesOf == 1 :> 1 @@ 2 :> 0

\* Zones whose clock changes by an hour, east and west of UTC; those west of it
\* whose change skips the first hour of a day are left out (NextRunIsNext).
MCZones ==
  {z \in [change : {4}, before : -2..2, after : -2..2] :
     /\ {z.before, z.after} \in {{-2, -1}, {1, 2}}
     /\ z.after > z.before /\ z.before < 0 => (z.change + z.before) % DayHours # 0}

Every == [every |-> TRUE, parts |-> {}]
Only1(from, to, step) == [every |-> FALSE, parts |-> {[from |-> from, to |-> to, step |-> step]}]
Manual == [kind |-> "manual"]
MCSchedules ==
  {Manual, [kind |-> "once", at |-> 3],
   [kind |-> "interval", every |-> 4, start |-> Never], [kind |-> "interval", every |-> 4, start |-> 5],
   [kind |-> "daily", hour |-> 2], [kind |-> "daily", hour |-> 0],
   [kind |-> "weekly", hour |-> 2, days |-> {1}],
   [kind |-> "cron", hours |-> Only1(0, 2, 2), dom |-> Every, dow |-> Only1(2, 2, 1)],
   [kind |-> "cron", hours |-> Only1(1, 1, 1), dom |-> Only1(2, 2, 1), dow |-> Only1(1, 1, 1)],
   [kind |-> "cron", hours |-> Only1(1, 2, 1), dom |-> Every, dow |-> Only1(1, 2, 1)]}

\* A tool with two managers, one that needs two commands, one that needs none.
MCHostManifests ==
  {tool1 :> [needs |-> {{"git"}}, managers |-> <<"brew", "apt">>, automatic |-> TRUE]
   @@ tool2 :> [needs |-> {{"bwrap"}, {"git", "brew"}}, managers |-> <<"apt">>, automatic |-> auto]
   @@ tool3 :> [needs |-> {{}}, managers |-> <<>>, automatic |-> TRUE] : auto \in BOOLEAN}

VARIABLE part

servicesVars ==
  <<part, autoVars, schedVars, approvalVars, checkVars, linkVars, sendVars, queueVars, chatVars,
    viewVars, segVars, updateVars, recordVars, installVars, hostVars, storedVars, apiVars,
    releaseVars, installerVars, terminalVars, askVars, cmdVars, pageVars, gitVars, editVars,
    appVars, osVars, cacheVars, draftVars, attachVars,
    voiceVars, speechVars>>

AnyOf(S) == CHOOSE x \in S : TRUE

\* A component that does not run starts in one of its initial states.
ServicesInit ==
  /\ part \in {"runs", "schedule", "approvals", "checkpoints", "link", "sending", "queue", "chat",
               "view", "segments", "updates", "records", "installs", "tools", "stored", "api",
               "release", "installers", "terminals", "requests", "slash", "boot", "pages", "git",
               "config", "app", "os", "cache", "draft",
               "attach", "voice", "speech"}
  /\ AutoInit /\ ApprovalInit /\ LinkInit /\ SendInit /\ QueueInit /\ ChatInit /\ SegInit
  /\ UpdateInit /\ AskInit /\ CmdInit /\ GitInit /\ ConfigInit
  /\ AppInit /\ OsInit /\ CacheInit /\ CheckInit /\ DraftInit /\ AttachInit
  /\ VoiceInit /\ SpeechInit /\ (part # "speech" => speechModel = "none")
  /\ SchedInit /\ (part # "schedule" => zone = AnyOf(Zones) /\ schedule = Manual)
  /\ ViewInit /\ (part # "view" => shown = AnyOf(Chats))
  /\ RecordInit /\ (part # "records" => title.by = "nobody")
  /\ InstallInit /\ (part # "installs" => ~windows /\ ~automatic /\ ~wsl)
  /\ HostInit /\ (part # "tools" => hostManifest = AnyOf(HostManifests) /\ have = {})
  /\ StoredInit /\ (part # "stored" => workspaces = {} /\ \A a \in Artifacts : onDisk[a] = 0)
  /\ ApiInit /\ (part # "api" => cookies = NoUser)
  /\ ReleaseInit /\ (part # "release" => manifest = AnyOf(Manifests) /\ ~build.container)
  /\ InstallerInit /\ (part # "installers" => ~installer.wixOnPath)
  /\ TerminalsInit /\ (part # "terminals" => panel.cwd = AnyOf(Directories))
  /\ PageInit /\ (part # "pages" => project = AnyOf(Projects) /\ pageKind = "git")

Only(p) ==
  /\ part = p /\ part' = part
  /\ IF p = "runs" THEN TRUE ELSE UNCHANGED autoVars
  /\ IF p = "schedule" THEN TRUE ELSE UNCHANGED schedVars
  /\ IF p = "approvals" THEN TRUE ELSE UNCHANGED approvalVars
  /\ IF p = "checkpoints" THEN TRUE ELSE UNCHANGED checkVars
  /\ IF p = "link" THEN TRUE ELSE UNCHANGED linkVars
  /\ IF p = "sending" THEN TRUE ELSE UNCHANGED sendVars
  /\ IF p = "queue" THEN TRUE ELSE UNCHANGED queueVars
  /\ IF p = "chat" THEN TRUE ELSE UNCHANGED chatVars
  /\ IF p = "view" THEN TRUE ELSE UNCHANGED viewVars
  /\ IF p = "segments" THEN TRUE ELSE UNCHANGED segVars
  /\ IF p = "updates" THEN TRUE ELSE UNCHANGED updateVars
  /\ IF p = "records" THEN TRUE ELSE UNCHANGED recordVars
  /\ IF p = "installs" THEN TRUE ELSE UNCHANGED installVars
  /\ IF p = "tools" THEN TRUE ELSE UNCHANGED hostVars
  /\ IF p = "stored" THEN TRUE ELSE UNCHANGED storedVars
  /\ IF p = "api" THEN TRUE ELSE UNCHANGED apiVars
  /\ IF p = "release" THEN TRUE ELSE UNCHANGED releaseVars
  /\ IF p = "installers" THEN TRUE ELSE UNCHANGED installerVars
  /\ IF p = "terminals" THEN TRUE ELSE UNCHANGED terminalVars
  /\ IF p = "requests" THEN TRUE ELSE UNCHANGED askVars
  /\ IF p \in {"slash", "boot"} THEN TRUE ELSE UNCHANGED cmdVars
  /\ IF p = "pages" THEN TRUE ELSE UNCHANGED pageVars
  /\ IF p = "git" THEN TRUE ELSE UNCHANGED gitVars
  /\ IF p = "config" THEN TRUE ELSE UNCHANGED editVars
  /\ IF p = "app" THEN TRUE ELSE UNCHANGED appVars
  /\ IF p = "os" THEN TRUE ELSE UNCHANGED osVars
  /\ IF p = "cache" THEN TRUE ELSE UNCHANGED cacheVars
  /\ IF p = "draft" THEN TRUE ELSE UNCHANGED draftVars
  /\ IF p = "attach" THEN TRUE ELSE UNCHANGED attachVars
  /\ IF p = "voice" THEN TRUE ELSE UNCHANGED voiceVars
  /\ IF p = "speech" THEN TRUE ELSE UNCHANGED speechVars

RunsPart == Only("runs") /\ AutoNext
SchedulePart == Only("schedule") /\ ScheduleNext
ApprovalsPart == Only("approvals") /\ ApprovalNext
CheckpointsPart == Only("checkpoints") /\ CheckNext
LinkPart == Only("link") /\ LinkNext
SendingPart == Only("sending") /\ SendNextState
QueuePart == Only("queue") /\ QueueNext
ChatPart == Only("chat") /\ ChatNext
ViewPart == Only("view") /\ ViewNext
SegmentsPart == Only("segments") /\ SegNext
UpdatesPart == Only("updates") /\ UpdateNext
RecordsPart == Only("records") /\ RecordNext
InstallsPart == Only("installs") /\ InstallNext
ToolsPart == Only("tools") /\ HostNext
StoredPart == Only("stored") /\ StoredNext
ApiPart == Only("api") /\ ApiNext
ReleasePart == Only("release") /\ ReleaseNext
InstallersPart == Only("installers") /\ InstallerNext
TerminalsPart == Only("terminals") /\ TerminalsNext
RequestsPart == Only("requests") /\ AskNext
\* The slash commands of the window, and the plugins installed at the start.
SlashPart == Only("slash") /\ CommandNext /\ UNCHANGED boot
BootPart == Only("boot") /\ CommandNext /\ UNCHANGED slashTasks
PagesPart == Only("pages") /\ PanelNext
GitPart == Only("git") /\ GitNext
ConfigPart == Only("config") /\ ConfigNext
AppPart == Only("app") /\ AppNext
OsPart == Only("os") /\ OsNext
CachePart == Only("cache") /\ CacheNext
DraftPart == Only("draft") /\ DraftNext
AttachPart == Only("attach") /\ AttachNext
VoicePart == Only("voice") /\ VoiceNext
SpeechPart == Only("speech") /\ SpeechNext

ServicesNext ==
  \/ RunsPart \/ SchedulePart \/ ApprovalsPart \/ CheckpointsPart
  \/ LinkPart \/ SendingPart \/ QueuePart \/ ChatPart
  \/ ViewPart \/ SegmentsPart \/ UpdatesPart \/ RecordsPart
  \/ InstallsPart \/ ToolsPart \/ StoredPart \/ ApiPart
  \/ ReleasePart \/ InstallersPart \/ TerminalsPart \/ RequestsPart
  \/ SlashPart \/ BootPart \/ PagesPart \/ GitPart \/ ConfigPart
  \/ AppPart \/ OsPart \/ CachePart
  \/ DraftPart \/ AttachPart \/ VoicePart \/ SpeechPart

\* Timers fire, awaits go on and commands end: a run by its runner or by its
\* time-out, an installation by the limit of its command, a CLI command by the
\* timers of who asked for it, a shutdown by its watchdog. No user, no peer and
\* no CLI is asked to do anything.
ServicesFairness ==
  /\ WF_autoVars(/\ part = "runs"
                 /\ \E r \in Runs : PrepareAttempt(r) \/ EndAttempt(r) \/ TimeOut(r) \/ Retry(r) \/ Finish(r))
  /\ WF_installVars(part = "installs" /\ \E k \in Profiles, m \in Modes : OperationStep(k, m))
  /\ WF_cmdVars(/\ part \in {"slash", "boot"}
                /\ \E c \in Cmds : \/ AskFails(c) \/ HostTimesOut(c) \/ HostReads(c)
                                   \/ GraceEnds(c) \/ WindowTimesOut(c))
  /\ WF_appVars(part = "app" /\ (Watchdog \/ EndShutdown))

ServicesSpec == ServicesInit /\ [][ServicesNext]_servicesVars /\ ServicesFairness

-----------------------------------------------------------------------------
\* Each variable has its type, whichever component runs.
ServicesTypeOK ==
  /\ part = "runs" => AutoTypeOK
  /\ part = "schedule" => SchedTypesOK
  /\ part = "approvals" => ApprovalTypeOK
  /\ part = "checkpoints" => CheckTypeOK
  /\ part = "link" => LinkTypeOK
  /\ part = "sending" => SendTypeOK
  /\ part = "queue" => QueueTypeOK
  /\ part = "chat" => ChatTypeOK
  /\ part = "view" => ViewTypeOK
  /\ part = "segments" => SegTypeOK
  /\ part = "updates" => UpdateTypeOK
  /\ part = "records" => RecordTypeOK
  /\ part = "installs" => InstallTypeOK
  /\ part = "tools" => HostTypeOK
  /\ part = "stored" => StoredTypeOK
  /\ part = "api" => ApiTypeOK
  /\ part = "release" => ReleaseTypeOK
  /\ part = "installers" => InstallerTypeOK
  /\ part = "terminals" => TerminalsTypeOK
  /\ part = "requests" => AskTypeOK
  /\ part \in {"slash", "boot"} => CmdTypeOK
  /\ part \in {"pages", "git", "config"} => PanelTypeOK
  /\ part \in {"app", "os", "cache"} => AppTypeOK
  /\ part = "draft" => DraftTypeOK
  /\ part = "attach" => AttachTypeOK
  /\ part = "voice" => VoiceTypeOK
  /\ part = "speech" => SpeechTypeOK

\* What is asked for more than once, or by several at the same time, is done
\* once: the run of an automation, the decision of an approval, a command the
\* peer sends again, a request to the host, a command of the CLI, a message of
\* the link and a load of the cache.
DoneOnce ==
  /\ RunsExclusive /\ ApprovalDecidedOnce /\ RemoteCommandsOnce /\ RunsWhereAllowed
  /\ CommandsWhole /\ SendsInOrder /\ OneLoadAtATime

\* What the user gave or the program recorded is kept over failures, ends and
\* restarts: queued prompts, drafts and their attachments, titles and the numbers of
\* events, artifacts and workspaces, secrets in a file that is edited, a dispatch asked for during
\* a start; and no task of a run that ended stays active.
KeptRecords ==
  /\ QueuedPromptsKept /\ DraftsKept /\ AttachmentsBacked /\ TitlesAndCursorsKept
  /\ StoredKept /\ SecretsKept /\ DispatchKept /\ RestartReconciles /\ ClosedInOrder

\* What is shown, spoken or scheduled is of now: of the newest turn, the
\* directory and the project in the window, the account that is signed in,
\* the automations as they are, and a microphone the input in the window can
\* turn off.
ShownIsCurrent ==
  /\ MicrophoneOwned /\ SpeaksNewestTurn /\ ShellsShown /\ PagesCurrent
  /\ SessionsApart /\ SchedulerFollows

\* What is installed, packaged or reported as ready was made and verified as a
\* whole: an update, a guest image, the installers of a release, the tools of
\* the host, the report of a repair, and the model of a transcription.
VerifiedBeforeUse ==
  /\ TranscribesVerified /\ ReadyIsVerified /\ PackagedIsCurrent /\ ListedIsOfOneRun
  /\ HostToolsTried /\ RepairKept

\* Files and plugins change as the user wants them to: an undo is all or
\* nothing, a change in the working tree is lost only with approval, and a
\* plugin the user removed is not installed again.
FilesAsAsked == UndoAllOrNothing /\ ChangesKept /\ RemovedStaysRemoved

\* The conversation in the window agrees with the store whatever is loaded
\* while it streams.
ConversationKept == ViewKept /\ SegmentsAgree

\* The next run of an automation is the next time of its schedule, and an
\* enabled schedule has one, in the zones of MCZones (NextRunIsNext says which
\* zones west of UTC are not among them).
ScheduleKept == NextRunIsNext /\ StaysScheduled

\* What was begun ends whatever the runner, the guest, the CLI or a hanging step
\* of a shutdown does: a run, an installation, a command and a shutdown. (Each
\* is begun a bounded number of times: one that never ended would be under way
\* for ever.)
UnderWay == RunsUnderWay \/ InstallsUnderWay \/ CommandsUnderWay \/ ShutdownUnderWay
ServicesEnd == UnderWay ~> ~UnderWay
=============================================================================
