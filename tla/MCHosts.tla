------------------------------- MODULE MCHosts -------------------------------
(***************************************************************************)
(* The components that own something outside the application (a CLI, a     *)
(* guest, a browser, the screen, a child process), checked side by side.   *)
(* They share no state: a behaviour runs one of them, `part`, and leaves   *)
(* the others in their initial states.                                     *)
(***************************************************************************)
EXTENDS CliProcess, AgentSessions, ChildProcesses, GuestRuntime, BrowserBroker,
        ComputerService, BrowserService, GuestRunner, TLC

CONSTANTS c1, c2, s1, h1, hs, uf,            \* CLI process
          sess1, sess2, open1, open2,        \* agent sessions
          q1, q2, k1, run1,                  \* browser broker
          y1, y2, y3, wh1, wh2, pv1, pv2     \* Python runtimes

MCOpenOf == [o \in Opens |-> IF o = open1 THEN [how |-> "create", session |-> sess1]
                                           ELSE [how |-> "resume", session |-> sess2]]
MCProjectOf == [s \in Sessions |-> IF s = sess1 THEN "p1" ELSE "p2"]
MCAskKey == [q \in {q1, q2} |-> k1]
MCWheelsOf == y1 :> (wh1 :> pv1 @@ wh2 :> pv1) @@ y2 :> (wh1 :> pv2) @@ y3 :> (wh1 :> pv1 @@ wh2 :> pv2)
MCAskRun == [q \in {q1, q2} |-> run1]

VARIABLE part

hostVars == <<part, cliVars, sessVars, termVars, guestVars, brokerVars, useVars, boundedVars,
              tabVars, captureVars, runnerVars, pythonVars, uiVars, navVars, devVars, fieldVars>>

HostsInit ==
  /\ part \in {"cli", "sessions", "termination", "guest", "broker", "computer", "bounded", "tabs",
              "capture", "runner", "python", "ui", "pages", "debugger", "controls"}
  /\ CliInit /\ SessInit /\ TermInit /\ GuestInit
  /\ BrokerInit /\ UseInit /\ BoundedInit /\ TabsInit /\ CaptureInit /\ RunnerInit /\ PythonInit
  /\ UiInit /\ NavInit /\ DevInit /\ FieldInit
  /\ part # "termination" => platform = "unix"
  /\ part # "bounded" => kind = "helper"
  /\ part # "ui" => uiPlatform = "linux" /\ \E e \in Elements : tree = <<e>> /\ e = CHOOSE f \in Elements : TRUE
  /\ part # "controls" => \A x \in Controls : control[x].kind = "text" /\ ~control[x].off

Only(p) ==
  /\ part = p /\ part' = part
  /\ IF p = "cli" THEN TRUE ELSE UNCHANGED cliVars
  /\ IF p = "sessions" THEN TRUE ELSE UNCHANGED sessVars
  /\ IF p = "termination" THEN TRUE ELSE UNCHANGED termVars
  /\ IF p = "guest" THEN TRUE ELSE UNCHANGED guestVars
  /\ IF p = "broker" THEN TRUE ELSE UNCHANGED brokerVars
  /\ IF p = "computer" THEN TRUE ELSE UNCHANGED useVars
  /\ IF p = "bounded" THEN TRUE ELSE UNCHANGED boundedVars
  /\ IF p = "tabs" THEN TRUE ELSE UNCHANGED tabVars
  /\ IF p = "capture" THEN TRUE ELSE UNCHANGED captureVars
  /\ IF p = "runner" THEN TRUE ELSE UNCHANGED runnerVars
  /\ IF p = "python" THEN TRUE ELSE UNCHANGED pythonVars
  /\ IF p = "ui" THEN TRUE ELSE UNCHANGED uiVars
  /\ IF p = "pages" THEN TRUE ELSE UNCHANGED navVars
  /\ IF p = "debugger" THEN TRUE ELSE UNCHANGED devVars
  /\ IF p = "controls" THEN TRUE ELSE UNCHANGED fieldVars

CliPart == Only("cli") /\ CliNext
SessionsPart == Only("sessions") /\ SessNext
TerminationPart == Only("termination") /\ TermNext
GuestPart == Only("guest") /\ GuestNext
BrokerPart == Only("broker") /\ BrokerNext
ComputerPart == Only("computer") /\ UseNext
BoundedPart == Only("bounded") /\ BoundedNext
TabsPart == Only("tabs") /\ TabsNext
CapturePart == Only("capture") /\ CaptureNext
RunnerPart == Only("runner") /\ RunnerNext
PythonPart == Only("python") /\ PythonNext
UiPart == Only("ui") /\ UiNext
PagesPart == Only("pages") /\ NavNext
DebuggerPart == Only("debugger") /\ DevNext
ControlsPart == Only("controls") /\ FieldNext

HostsNext ==
  \/ CliPart \/ SessionsPart \/ TerminationPart \/ GuestPart
  \/ BrokerPart \/ ComputerPart \/ BoundedPart \/ TabsPart \/ CapturePart \/ RunnerPart
  \/ PythonPart
  \/ UiPart \/ PagesPart \/ DebuggerPart \/ ControlsPart

\* The event loop goes on, timers fire, the end of a process is bounded by a
\* deadline; nothing is asked of the processes themselves.
HostsFairness ==
  /\ WF_cliVars(/\ part = "cli"
                /\ \/ Settling
                   \/ \E c \in Calls : Request(c)
                   \/ \E id \in Ids : GiveUp(id)
                   \/ \E s \in AllStops : StopTail(s))
  /\ WF_termVars(part = "termination" /\ Deadline)
  /\ WF_guestVars(part = "guest" /\ (Closed \/ \E r \in All : GiveUpRequest(r)))

HostsSpec == HostsInit /\ [][HostsNext]_hostVars /\ HostsFairness

\* The agent sessions alone, for instances of their own.
SessionsAlone == HostsInit /\ part = "sessions" /\ [][SessionsPart]_hostVars

-----------------------------------------------------------------------------
\* Each variable has its type, whichever component runs.
HostsTypeOK ==
  /\ CliTypeOK /\ SessTypeOK /\ TermTypeOK /\ GuestTypeOK
  /\ BrokerTypeOK /\ UseTypeOK /\ BoundedTypeOK /\ TabsTypeOK /\ CaptureTypeOK
  /\ RunnerTypeOK /\ PythonTypeOK /\ UiTypeOK /\ PagesTypeOK

\* No process is forgotten, which is less than that it is gone.  A CLI that is
\* neither the current one nor told to end was let go by a shutdown whose end
\* overlapped with its start.  A termination that has ended well has seen its
\* child exit and told the tree to end, unless the child had exited before the
\* call.  A guest whose start has failed or whose environment is closed was told
\* to end, whether or not its end was confirmed.
NoProcessForgotten == DetachedByOverlapOnly /\ EndMeansGone /\ NoGuestLeft

\* What a session, or an action, opened of the browser, the mouse and the
\* screen is never used or left by another one; an action reaches the element,
\* the page and the debugger it was meant for, on an origin that is allowed;
\* and a Python runtime that was prepared holds what was asked for.
HostToolsOwned ==
  /\ BrowserSessionsOwned /\ ComputerToOneAction /\ ActsOnInspected
  /\ PagesAllowed /\ RequestsOwned /\ DebuggerHeld
  /\ PreparedIsThere

\* What children, pages and guests produce is kept within its limit: the output
\* of a command, which ends with it, and the frames of a recording.
OutputBounded == BoundedResult /\ LimitEndsCommand /\ FramesBounded

\* Every request of a CLI or of a guest, and every termination, is settled,
\* whatever the processes, the shutdowns and the other requests do, one whose
\* time-out closes the channel included. (There are finitely many, each made
\* once: one that never settled would be under way for ever.)
RequestsUnderWay == CallsUnderWay \/ TerminationUnderWay \/ GuestRequestsUnderWay
HostsSettle == RequestsUnderWay ~> ~RequestsUnderWay
=============================================================================
