------------------------------ MODULE Commands ------------------------------
(***************************************************************************)
(* The commands of the CLI as the desktop runs them.  A command is asked   *)
(* of the CLI, which answers with an id and reports outputs and an end as  *)
(* events, before or after that answer.  A window collects the events      *)
(* itself (desktop-command-client.ts) for the slash commands, whose task   *)
(* follows (workspace-command-action.ts); the main process keeps a bounded *)
(* buffer with a time to live (agent-manager.ts) for the bundled plugins   *)
(* that public-plugin-bootstrap-service.ts installs.  MaxOutputs and       *)
(* BufferCap bound a command's outputs, MaxStarts the starts of the main   *)
(* process.  The CLI itself is the environment.                            *)
(***************************************************************************)
EXTENDS Naturals

CONSTANTS WindowCmds, Plugins, Listing, MaxOutputs, BufferCap, MaxStarts

\* The commands a window asks for are not those of the main process, whose listing installs nothing.
ASSUME CommandAssumption ==
    /\ WindowCmds \intersect (Plugins \union {Listing}) = {} /\ Listing \notin Plugins
    /\ {MaxOutputs, BufferCap, MaxStarts} \subseteq Nat

VARIABLES cmdCalls, cliCmds, buffers, heard, results, slashTasks, boot, plugins, starts

cmdVars == <<cmdCalls, cliCmds, buffers, heard, results, slashTasks, boot, plugins, starts>>

HostCmds == Plugins \union {Listing}
Cmds == WindowCmds \union HostCmds
Endings == {"ok", "failed", "cancelled"}
NotRun == [sent |-> 0, end |-> "none", cancel |-> FALSE]
NoBuffer == [n |-> 0, end |-> "none", cut |-> FALSE, live |-> FALSE]
NoResult == [how |-> "none", n |-> 0, cut |-> FALSE]

\* The form of a slash command: the classes of field values its rules tell apart.
Forms == [primary : {"none", "text", "long"}, out : {"none", "name", "path"}, many : BOOLEAN,
          numbers : {"ok", "bad"}, force : BOOLEAN, noWait : BOOLEAN]

\* The fields a form reports an error for; a form with one makes no invocation.
FormErrors(f, primaryRequired) ==
    {e \in {"primary", "out", "numbers", "force", "no-wait"} :
        \/ e = "primary" /\ (f.primary = "long" \/ (primaryRequired /\ f.primary = "none"))
        \/ e = "out" /\ (f.out = "path" \/ (f.many /\ f.out # "none"))
        \/ e = "numbers" /\ f.numbers = "bad"
        \/ e = "force" /\ f.force /\ f.out = "none"
        \/ e = "no-wait" /\ f.noWait /\ (f.force \/ f.out # "none")}

CmdInit ==
    /\ cmdCalls = [c \in Cmds |-> "idle"]
    /\ cliCmds = [c \in Cmds |-> NotRun]
    /\ buffers = [c \in Cmds |-> NoBuffer]
    /\ heard = [c \in WindowCmds |-> [n |-> 0, end |-> "none"]]
    /\ results = [c \in Cmds |-> NoResult]
    /\ slashTasks = [c \in WindowCmds |-> "idle"]
    /\ boot = [at |-> "off", todo |-> {}, missed |-> FALSE]
    /\ plugins = [present |-> {}, completed |-> FALSE]
    /\ starts = 1

Asked(c) == cmdCalls[c] # "idle"
HostWaits(c) == c \in HostCmds /\ cmdCalls[c] \in {"asked", "waiting", "cancelling"}

\* Faulty variant of Recorded: the cap is not applied.
RecordedUncapped(b, event) ==
    IF event \in Endings THEN [b EXCEPT !.end = event, !.live = TRUE]
    ELSE [b EXCEPT !.n = @ + 1, !.live = TRUE]

\* Of an event of the CLI: the buffer of the command, made when there is none.  Outputs that
\* would pass the cap only mark it cut; the event that ends the command always gets in.
Recorded(b, event) ==
    IF event \in Endings THEN [b EXCEPT !.end = event, !.live = TRUE]
    ELSE IF b.n < BufferCap THEN [b EXCEPT !.n = @ + 1, !.live = TRUE]
    ELSE [b EXCEPT !.cut = TRUE, !.live = TRUE]

\* The CLI reports an event of a command: the main process buffers it and sends it on, and the
\* window keeps it under the command's id until it knows which id is its own.
ReportOutput(c, event) ==
    /\ Asked(c) /\ cliCmds[c].end = "none"
    /\ event = "output" => cliCmds[c].sent < MaxOutputs
    /\ event = "cancelled" => cliCmds[c].cancel
    /\ cliCmds' = IF event = "output" THEN [cliCmds EXCEPT ![c].sent = @ + 1]
                  ELSE [cliCmds EXCEPT ![c].end = event]
    /\ buffers' = [buffers EXCEPT ![c] = Recorded(@, event)]
    /\ heard' = IF c \notin WindowCmds \/ cmdCalls[c] = "settled" THEN heard
                ELSE IF event = "output" THEN [heard EXCEPT ![c].n = @ + 1]
                ELSE [heard EXCEPT ![c].end = event]
    /\ plugins' = IF event = "ok" /\ c \in Plugins
                  THEN [plugins EXCEPT !.present = @ \union {c}] ELSE plugins
    /\ UNCHANGED <<cmdCalls, results, slashTasks, boot, starts>>

SettleCall(c, how, n, cut) ==
    /\ cmdCalls' = [cmdCalls EXCEPT ![c] = "settled"]
    /\ results' = [results EXCEPT ![c] = [how |-> how, n |-> n, cut |-> cut]]

\* A slash command: the task is made active, then the command is asked of the CLI.
RunSlash(c) ==
    /\ c \in WindowCmds /\ cmdCalls[c] = "idle"
    /\ \E f \in Forms, required \in BOOLEAN : FormErrors(f, required) = {}
    /\ slashTasks' = [slashTasks EXCEPT ![c] = "active"]
    /\ cmdCalls' = [cmdCalls EXCEPT ![c] = "asked"]
    /\ UNCHANGED <<cliCmds, buffers, heard, results, boot, plugins, starts>>
\* Its result is kept in the task with the media it names, and the task completed; when the
\* command or one of these writes fails the task is failed, if that can be written.
SlashEnds(c) ==
    /\ c \in WindowCmds /\ results[c].how # "none" /\ slashTasks[c] = "active"
    /\ \E kept, written \in BOOLEAN :
        slashTasks' = [slashTasks EXCEPT ![c] = IF results[c].how = "ok" /\ kept THEN "completed"
                                               ELSE IF written THEN "failed" ELSE "stuck"]
    /\ UNCHANGED <<cmdCalls, cliCmds, buffers, heard, results, boot, plugins, starts>>

\* The CLI answers with the id.  A window that gave up meanwhile cancels the command by it; the
\* main process waits on the command's buffer, one it finds or a new one.
AnswerCall(c) ==
    \/ /\ cmdCalls[c] = "asked"
       /\ cmdCalls' = [cmdCalls EXCEPT ![c] = "waiting"]
       /\ buffers' = IF c \in HostCmds THEN [buffers EXCEPT ![c].live = TRUE] ELSE buffers
       /\ UNCHANGED <<cliCmds, heard, results, slashTasks, boot, plugins, starts>>
    \/ /\ cmdCalls[c] = "late"
       /\ cmdCalls' = [cmdCalls EXCEPT ![c] = "settled"]
       /\ cliCmds' = [cliCmds EXCEPT ![c].cancel = TRUE]
       /\ UNCHANGED <<buffers, heard, results, slashTasks, boot, plugins, starts>>

\* The request itself is refused, fails with the process, or runs into its own limit.
AskFails(c) ==
    /\ cmdCalls[c] \in {"asked", "late"}
    /\ IF cmdCalls[c] = "late" THEN cmdCalls' = [cmdCalls EXCEPT ![c] = "settled"] /\ UNCHANGED results
       ELSE SettleCall(c, "error", 0, FALSE)
    /\ UNCHANGED <<cliCmds, buffers, heard, slashTasks, boot, plugins, starts>>

\* The window knows the id and the end of its command.
WindowDrains(c) ==
    /\ c \in WindowCmds /\ cmdCalls[c] = "waiting" /\ heard[c].end # "none"
    /\ SettleCall(c, IF heard[c].end = "ok" THEN "ok" ELSE "error", heard[c].n, FALSE)
    /\ UNCHANGED <<cliCmds, buffers, heard, slashTasks, boot, plugins, starts>>

\* 120 seconds after the window asked: the command is cancelled, at once or when its id comes.
WindowTimesOut(c) ==
    /\ c \in WindowCmds /\ cmdCalls[c] \in {"asked", "waiting"}
    /\ results' = [results EXCEPT ![c] = [NoResult EXCEPT !.how = "timeout"]]
    /\ cmdCalls' = [cmdCalls EXCEPT ![c] = IF @ = "asked" THEN "late" ELSE "settled"]
    /\ cliCmds' = [cliCmds EXCEPT ![c].cancel = @ \/ cmdCalls[c] = "waiting"]
    /\ UNCHANGED <<buffers, heard, slashTasks, boot, plugins, starts>>

\* Faulty variant of HostReads: what is in the buffer when the wait has lasted too long is taken for the result.
HostReadsEarly(c) ==
    /\ HostWaits(c) /\ cmdCalls[c] = "waiting"
    /\ SettleCall(c, IF buffers[c].end \in {"ok", "none"} THEN "ok" ELSE "error", buffers[c].n, buffers[c].cut)
    /\ buffers' = [buffers EXCEPT ![c] = NoBuffer]
    /\ UNCHANGED <<cliCmds, heard, slashTasks, boot, plugins, starts>>
\* The main process reads the buffer it waits on, which is then dropped.
HostReads(c) ==
    /\ HostWaits(c) /\ cmdCalls[c] = "waiting" /\ buffers[c].end # "none"
    /\ SettleCall(c, IF buffers[c].end = "ok" THEN "ok" ELSE "error", buffers[c].n, buffers[c].cut)
    /\ buffers' = [buffers EXCEPT ![c] = NoBuffer]
    /\ UNCHANGED <<cliCmds, heard, slashTasks, boot, plugins, starts>>

\* The wait lasts as long as a buffer may live.  The command is cancelled and given a grace to
\* end, and the caller has its error after that.
HostTimesOut(c) ==
    /\ HostWaits(c) /\ cmdCalls[c] = "waiting" /\ buffers[c].end = "none"
    /\ cmdCalls' = [cmdCalls EXCEPT ![c] = "cancelling"]
    /\ cliCmds' = [cliCmds EXCEPT ![c].cancel = TRUE]
    /\ UNCHANGED <<buffers, heard, results, slashTasks, boot, plugins, starts>>
\* Faulty variant of GraceEnds: the caller waits until the cancelled command has ended.
GraceAwaitsEnd(c) ==
    /\ cmdCalls[c] = "cancelling" /\ buffers[c].end # "none"
    /\ SettleCall(c, "timeout", 0, FALSE)
    /\ UNCHANGED <<cliCmds, buffers, heard, slashTasks, boot, plugins, starts>>
GraceEnds(c) ==
    /\ cmdCalls[c] = "cancelling"
    /\ SettleCall(c, "timeout", 0, FALSE)
    /\ UNCHANGED <<cliCmds, buffers, heard, slashTasks, boot, plugins, starts>>

\* The time to live of a buffer ends.  It is as long as a request may wait for its answer and
\* starts later, so no buffer ends while its command is still unanswered.  A wait on it is then
\* over with nothing: what is reported later gets a buffer of its own.
BufferExpires(c) ==
    /\ buffers[c].live /\ cmdCalls[c] \notin {"asked", "late"}
    /\ buffers' = [buffers EXCEPT ![c] = NoBuffer]
    /\ IF HostWaits(c) /\ cmdCalls[c] = "waiting"
       THEN /\ cmdCalls' = [cmdCalls EXCEPT ![c] = "cancelling"]
            /\ cliCmds' = [cliCmds EXCEPT ![c].cancel = TRUE]
       ELSE UNCHANGED <<cmdCalls, cliCmds>>
    /\ UNCHANGED <<heard, results, slashTasks, boot, plugins, starts>>

\* Faulty variant of StartBoot: the record that it is done is not read.
StartBootAgain ==
    /\ boot.at = "off"
    /\ boot' = [at |-> "listing", todo |-> {}, missed |-> FALSE]
    /\ cmdCalls' = [cmdCalls EXCEPT ![Listing] = "asked"]
    /\ UNCHANGED <<cliCmds, buffers, heard, results, slashTasks, plugins, starts>>
\* Bundled plugins are installed until one run of it found or installed all of them.
StartBoot ==
    /\ boot.at = "off" /\ ~plugins.completed
    /\ boot' = [at |-> "listing", todo |-> {}, missed |-> FALSE]
    /\ cmdCalls' = [cmdCalls EXCEPT ![Listing] = "asked"]
    /\ UNCHANGED <<cliCmds, buffers, heard, results, slashTasks, plugins, starts>>

\* The listing is answered.  The list is in an output that was kept; without one, or when the
\* list is invalid or incomplete, the run is over (cutting may have lost it).
BootListed ==
    /\ boot.at = "listing" /\ cmdCalls[Listing] = "settled"
    /\ \/ /\ results[Listing].how = "ok" /\ results[Listing].n > 0
          /\ boot' = [boot EXCEPT !.at = "installing", !.todo = Plugins \ plugins.present]
       \/ boot' = [boot EXCEPT !.at = "over"]
    /\ UNCHANGED <<cmdCalls, cliCmds, buffers, heard, results, slashTasks, plugins, starts>>

\* The next plugin: its source is resolved, which may fail, and its install asked for.
BootNext(p) ==
    /\ boot.at = "installing" /\ p \in boot.todo /\ cmdCalls[p] = "idle"
    /\ \A q \in Plugins : ~HostWaits(q)
    /\ \/ cmdCalls' = [cmdCalls EXCEPT ![p] = "asked"] /\ UNCHANGED boot
       \/ boot' = [boot EXCEPT !.todo = @ \ {p}, !.missed = TRUE] /\ UNCHANGED cmdCalls
    /\ UNCHANGED <<cliCmds, buffers, heard, results, slashTasks, plugins, starts>>
BootInstalled(p) ==
    /\ boot.at = "installing" /\ p \in boot.todo /\ cmdCalls[p] = "settled"
    /\ boot' = [boot EXCEPT !.todo = @ \ {p}, !.missed = @ \/ results[p].how # "ok"]
    /\ UNCHANGED <<cmdCalls, cliCmds, buffers, heard, results, slashTasks, plugins, starts>>
\* All are dealt with: done when none was missed and the record could be written; or the
\* program is to stop.
BootEnds ==
    /\ boot.at = "installing" /\ \A p \in Plugins : ~HostWaits(p)
    /\ \E stop, written \in BOOLEAN :
        /\ stop \/ boot.todo = {}
        /\ plugins' = IF ~stop /\ ~boot.missed /\ written THEN [plugins EXCEPT !.completed = TRUE] ELSE plugins
    /\ boot' = [boot EXCEPT !.at = "over"]
    /\ UNCHANGED <<cmdCalls, cliCmds, buffers, heard, results, slashTasks, starts>>

UserRemoves(p) ==
    /\ p \in plugins.present
    /\ plugins' = [plugins EXCEPT !.present = @ \ {p}]
    /\ UNCHANGED <<cmdCalls, cliCmds, buffers, heard, results, slashTasks, boot, starts>>

\* The program ends and starts again: only the plugins and the record of them remain.
RestartCli ==
    /\ starts < MaxStarts /\ starts' = starts + 1
    /\ cmdCalls' = [c \in Cmds |-> "idle"] /\ cliCmds' = [c \in Cmds |-> NotRun]
    /\ buffers' = [c \in Cmds |-> NoBuffer] /\ results' = [c \in Cmds |-> NoResult]
    /\ heard' = [c \in WindowCmds |-> [n |-> 0, end |-> "none"]]
    /\ boot' = [at |-> "off", todo |-> {}, missed |-> FALSE]
    /\ slashTasks' = [c \in WindowCmds |-> "idle"]
    /\ UNCHANGED plugins

CommandStep(c) ==
    \/ RunSlash(c) \/ SlashEnds(c) \/ AnswerCall(c) \/ AskFails(c) \/ WindowDrains(c) \/ WindowTimesOut(c)
    \/ HostReads(c) \/ HostTimesOut(c) \/ GraceEnds(c) \/ BufferExpires(c)
    \/ \E event \in Endings \union {"output"} : ReportOutput(c, event)

CommandNext ==
    \/ \E c \in Cmds : CommandStep(c)
    \/ StartBoot \/ BootListed \/ BootEnds \/ RestartCli
    \/ \E p \in Plugins : BootNext(p) \/ BootInstalled(p) \/ UserRemoves(p)

-----------------------------------------------------------------------------
CmdTypeOK ==
    /\ cmdCalls \in [Cmds -> {"idle", "asked", "late", "waiting", "cancelling", "settled"}]
    /\ cliCmds \in [Cmds -> [sent : 0..MaxOutputs, end : Endings \union {"none"}, cancel : BOOLEAN]]
    /\ buffers \in [Cmds -> [n : 0..BufferCap, end : Endings \union {"none"}, cut : BOOLEAN, live : BOOLEAN]]
    /\ results \in [Cmds -> [how : {"none", "ok", "error", "timeout"}, n : 0..MaxOutputs, cut : BOOLEAN]]
    /\ slashTasks \in [WindowCmds -> {"idle", "active", "completed", "failed", "stuck"}]
    /\ boot.at \in {"off", "listing", "installing", "over"} /\ boot.todo \subseteq Plugins
    /\ plugins.present \subseteq Plugins

\* A command that succeeded for its caller ended well at the CLI, and its result has every
\* output the CLI reported, or says that it was cut; a command its caller gave up on with an id
\* was cancelled.  A task a command has completed holds such a result.
CommandsWhole ==
    \A c \in Cmds :
        /\ results[c].how = "ok" => /\ cliCmds[c].end = "ok"
                                    /\ results[c].n = cliCmds[c].sent \/ results[c].cut
        /\ c \in WindowCmds => (slashTasks[c] = "completed" => results[c].how = "ok")
        /\ results[c].how = "timeout" /\ cmdCalls[c] = "settled" /\ c \in HostCmds => cliCmds[c].cancel

\* Once the bundled plugins have all been dealt with, a plugin the user removes stays removed.
RemovedStaysRemoved == [][plugins.completed => plugins'.present \subseteq plugins.present]_plugins

\* Who asked for a command waits for its result.
CommandsUnderWay == \E c \in Cmds : cmdCalls[c] \in {"asked", "waiting", "cancelling"}
=============================================================================
