--------------------------- MODULE ChildProcesses ---------------------------
(***************************************************************************)
(* Child processes of the application (src/main/process): how one is ended *)
(* with everything below it, and how the output of one is bounded.  They   *)
(* share no state.                                                         *)
(***************************************************************************)
EXTENDS Naturals

-----------------------------------------------------------------------------
(***************************************************************************)
(* terminateDesktopProcess (src/main/process/process-termination.ts): ends *)
(* a child process and the processes below it, within a deadline, on       *)
(* Windows by taskkill, elsewhere by signals to the process group.         *)
(***************************************************************************)

VARIABLES
  platform,   \* "win32" or "unix"
  ending,     \* the promise: "no", "pending", "resolved", "rejected"
  root,       \* the child process: "running" or "exited"
  rootSeen,   \* childClosed
  treeDone,   \* treeTerminated
  spoilt,     \* terminationError is set
  grace       \* the killer of the tree: "off", "armed" (timer or taskkill), "over"

termVars == <<platform, ending, root, rootSeen, treeDone, spoilt, grace>>

TermTypeOK ==
  /\ platform \in {"win32", "unix"}
  /\ ending \in {"no", "pending", "resolved", "rejected"}
  /\ root \in {"running", "exited"}
  /\ {rootSeen, treeDone, spoilt} \subseteq BOOLEAN
  /\ grace \in {"off", "armed", "over"}

TermInit ==
  /\ platform \in {"win32", "unix"}
  /\ ending = "no" /\ root = "running" /\ grace = "off"
  /\ rootSeen = FALSE /\ treeDone = FALSE /\ spoilt = FALSE

\* Faulty variant of Settle: the child's end is enough.
SettleWithChild ==
  ending' = IF ~rootSeen' THEN "pending" ELSE IF spoilt' THEN "rejected" ELSE "resolved"

\* settleIfReady of a pending promise.
Settle ==
  ending' = CASE ~(rootSeen' /\ treeDone') -> "pending"
              [] rootSeen' /\ treeDone' /\ spoilt' -> "rejected"
              [] OTHER -> "resolved"

\* forceChild notices an exit whose event has yet to come.
ForceChild == rootSeen' = (rootSeen \/ root = "exited")

\* The call: nothing to do (a child that was never started counts as one that
\* has exited), or listeners, the first signal and the timers.
\* taskkill may not start, in which case the tree counts as done.
Terminate ==
  /\ ending = "no"
  /\ \/ /\ root = "exited"
        /\ ending' = "resolved"
        /\ UNCHANGED <<rootSeen, treeDone, spoilt, grace>>
     \/ /\ root = "running"
        /\ grace' = "armed" /\ ending' = "pending"
        /\ spoilt' \in {FALSE, platform = "unix"}
        /\ UNCHANGED <<rootSeen, treeDone>>
     \/ /\ root = "running" /\ platform = "win32"
        /\ grace' = "over" /\ treeDone' = TRUE /\ spoilt' = TRUE
        /\ ForceChild /\ Settle
  /\ UNCHANGED <<platform, root>>

\* The process exits; its events are read at once, or only by forceChild.
RootExits ==
  /\ root = "running"
  /\ root' = "exited"
  /\ \/ /\ ending = "pending"
        /\ rootSeen' = TRUE
        /\ UNCHANGED <<treeDone, spoilt>>
        /\ Settle
     \/ UNCHANGED <<rootSeen, treeDone, spoilt, ending>>
  /\ UNCHANGED <<platform, grace>>

RootEvent ==
  /\ root = "exited" /\ ending = "pending" /\ ~rootSeen
  /\ rootSeen' = TRUE
  /\ UNCHANGED <<platform, root, treeDone, spoilt, grace>>
  /\ Settle

\* taskkill ends (its failure counts while the child runs), or the grace
\* timer kills the group, which may fail.
TreeKilled ==
  /\ grace = "armed" /\ ending = "pending"
  /\ grace' = "over"
  /\ treeDone' \in {TRUE, platform = "win32"}
  /\ \/ spoilt' = (spoilt \/ ~treeDone')
     \/ spoilt' = TRUE /\ platform = "win32" /\ root = "running"
  /\ ForceChild
  /\ Settle
  /\ UNCHANGED <<platform, root>>

\* The deadline: one more attempt, then the promise settles either way.
Deadline ==
  /\ ending = "pending"
  /\ treeDone' \in {treeDone, treeDone \/ platform = "unix"}
  /\ spoilt' = (spoilt \/ (platform = "unix" /\ ~treeDone'))
  /\ ForceChild
  /\ ending' = IF rootSeen' /\ treeDone' /\ ~spoilt' THEN "resolved" ELSE "rejected"
  /\ UNCHANGED <<platform, root, grace>>

TermNext == Terminate \/ RootExits \/ RootEvent \/ TreeKilled \/ Deadline

TermSpec == TermInit /\ [][TermNext]_termVars

\* The caller is told that the process has ended only when the child has
\* exited, its events out of order or lost included, and the processes below
\* it were told to end after the grace period.  A child that had exited before
\* the call (grace is "off") ends it at once: nothing is done about what it
\* left below it.
EndMeansGone ==
  ending = "resolved" => root = "exited" /\ (grace = "off" \/ treeDone)

\* The caller has been told nothing yet.
TerminationUnderWay == ending = "pending"

-----------------------------------------------------------------------------
(***************************************************************************)
(* A child process whose output, time and caller are bounded: the native   *)
(* helper of src/main/process/bounded-command.ts ("helper"), the host tool *)
(* of src/main/agents/desktop-host-execution-broker.ts ("host") and the    *)
(* command of src/main/terminal/terminal-service.ts ("terminal"), with the *)
(* collector of bounded-output.ts, whose one budget both channels share.   *)
(***************************************************************************)

CONSTANTS
  Budget,     \* bytes of output kept
  Chunk       \* bytes of the largest chunk

ASSUME OutputAssumption == Budget \in Nat \ {0} /\ Chunk \in Nat \ {0}

VARIABLES
  kind,
  runChild,   \* "running", "exited" (its close event is pending) or "closed"
  kept, told, \* bytes kept and bytes received
  cut,        \* truncated
  stopBy,     \* why stop() was called: "none", "output", "timeout" or "abort"
  result      \* what the caller got

boundedVars == <<kind, runChild, kept, told, cut, stopBy, result>>

Reasons == {"output", "timeout", "abort"}

BoundedTypeOK ==
  /\ kind \in {"helper", "host", "terminal"}
  /\ runChild \in {"running", "exited", "closed"}
  /\ kept \in Nat /\ told \in Nat /\ cut \in BOOLEAN
  /\ stopBy \in {"none"} \cup Reasons
  /\ result \in {"none", "exit", "error", "unconfirmed"} \cup Reasons

BoundedInit ==
  /\ kind \in {"helper", "host", "terminal"}
  /\ runChild = "running" /\ kept = 0 /\ told = 0 /\ cut = FALSE
  /\ stopBy = "none" /\ result = "none"

\* Faulty variant of AppendText: the whole chunk is kept.
AppendWhole(bytes) ==
  IF cut \/ kept >= Budget THEN kept' = kept /\ cut' = TRUE
  ELSE kept' = kept + bytes /\ cut' = (kept + bytes > Budget)

\* appendText: what fits is kept (a character is not split), and the first
\* byte that is not ends the collection.
AppendText(bytes) ==
  IF cut \/ kept >= Budget THEN kept' = kept /\ cut' = TRUE
  ELSE IF bytes <= Budget - kept THEN kept' = kept + bytes /\ cut' = FALSE
  ELSE kept' \in {Budget, Budget - 1} /\ kept' >= kept /\ cut' = TRUE

\* append of the helper keeps whole chunks, and none beyond the limit.
AppendChunk(bytes) ==
  /\ cut' = (kept + bytes > Budget)
  /\ kept' = IF cut' THEN kept ELSE kept + bytes

\* Output of the child; too much of it stops a helper and a host tool.
Output ==
  /\ runChild # "closed" /\ told < 2 * Budget + Chunk
  /\ \E bytes \in 1..Chunk :
       /\ told' = told + bytes
       /\ IF kind = "helper"
          THEN IF result # "none" \/ stopBy # "none" THEN UNCHANGED <<kept, cut>> ELSE AppendChunk(bytes)
          ELSE AppendText(bytes)
  /\ stopBy' = IF cut' /\ kind # "terminal" /\ stopBy = "none" /\ result = "none" THEN "output" ELSE stopBy
  /\ UNCHANGED <<kind, runChild, result>>

\* The time-out and, where there is a signal, the abort.
StopChild(why) ==
  /\ result = "none" /\ stopBy = "none"
  /\ why = "abort" => kind # "terminal"
  /\ stopBy' = why
  /\ UNCHANGED <<kind, runChild, kept, told, cut, result>>

ChildExits ==
  /\ runChild = "running"
  /\ runChild' = "exited"
  /\ UNCHANGED <<kind, kept, told, cut, stopBy, result>>

\* The close event: the result, unless the child is being stopped; the
\* terminal waits for the termination too.
ChildCloses ==
  /\ runChild = "exited"
  /\ runChild' = "closed"
  /\ result' = IF result = "none" /\ stopBy = "none" THEN "exit" ELSE result
  /\ UNCHANGED <<kind, kept, told, cut, stopBy>>

\* The child could not be started; the terminal's promise rejects in any case.
SpawnFails ==
  /\ runChild = "running" /\ told = 0
  /\ runChild' = "closed"
  /\ result' = IF result = "none" /\ (stopBy = "none" \/ kind = "terminal") THEN "error" ELSE result
  /\ UNCHANGED <<kind, kept, told, cut, stopBy>>

\* terminateDesktopProcess has settled: the child is gone, or its end could
\* not be confirmed. The terminal first waits for the close event.
Terminated ==
  /\ stopBy # "none" /\ result = "none"
  /\ kind = "terminal" => runChild = "closed"
  /\ \/ runChild # "running" /\ result' = stopBy
     \/ result' = "unconfirmed"
  /\ UNCHANGED <<kind, runChild, kept, told, cut, stopBy>>

BoundedNext ==
  \/ Output \/ ChildExits \/ ChildCloses \/ SpawnFails \/ Terminated
  \/ StopChild("timeout") \/ StopChild("abort")

BoundedSpec == BoundedInit /\ [][BoundedNext]_boundedVars

-----------------------------------------------------------------------------
\* Whatever the order of output, exit, time-out and abort: no more than the
\* budget is kept, output is missing only where the result says so or the child
\* was stopped, and a result that names an end is given when the child has ended.
BoundedResult ==
  /\ kept <= Budget
  /\ kept < told => cut \/ stopBy # "none"
  /\ result \in {"exit"} \cup Reasons => runChild # "running"
=============================================================================
