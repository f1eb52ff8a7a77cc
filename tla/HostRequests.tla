---------------------------- MODULE HostRequests ----------------------------
(***************************************************************************)
(* What a CLI process asks of the application: requests for the host and   *)
(* approvals.  The two share no state.                                     *)
(***************************************************************************)
EXTENDS Naturals, Sequences

-----------------------------------------------------------------------------
(***************************************************************************)
(* The files, commands and artifacts a CLI asks of the host, from the      *)
(* binding of its process (src/main/agents/agent-manager.ts) through the   *)
(* composition (src/main/index.ts) to the execution broker                 *)
(* (src/main/agents/desktop-host-execution-broker.ts), which runs them in  *)
(* the guest, on the host when the guest is not available and the request  *)
(* allows it, or on the host at once. Which operation a guest takes up, and*)
(* its life, are in VmScheduler and VmSandbox; here a call of the guest    *)
(* starts, takes effect or not, and is answered or lost. The workspace is  *)
(* the user's as well: whether a path is there and inside is a choice.     *)
(***************************************************************************)

CONSTANTS
  HostAsks,    \* the requests
  NoAnswer     \* a request that has not been answered

VARIABLES
  hostAsk,     \* the requests: what is asked, how far it is, the side of the answer
  ranIn        \* how often each has been run in the guest and on the host

askVars == <<hostAsk, ranIn>>

BrokerTools == {"read", "write", "exec", "publish"}
AskPlaces == {"new", "received", "checked", "preparing", "starting", "guest", "resolving", "running", "answered"}

AskTypeOK ==
  /\ hostAsk \in [HostAsks -> [tool : BrokerTools, boundary : {"sandbox", "host"}, fallback : {"allow", "ask"},
                               at : AskPlaces, aborted : BOOLEAN, answer : {"sandbox", "host", "none", NoAnswer}]]
  /\ ranIn \in [HostAsks -> [guest : 0..2, host : 0..2]]

AskInit ==
  /\ hostAsk = [r \in HostAsks |-> [tool |-> "exec", boundary |-> "host", fallback |-> "ask",
                                    at |-> "new", aborted |-> FALSE, answer |-> NoAnswer]]
  /\ ranIn = [r \in HostAsks |-> [guest |-> 0, host |-> 0]]

Gets(r, where) == hostAsk' = [hostAsk EXCEPT ![r].at = where]
AnswerFrom(r, side) == hostAsk' = [hostAsk EXCEPT ![r].at = "answered", ![r].answer = side]
RunsOn(r, side) == ranIn' = [ranIn EXCEPT ![r][side] = @ + 1]

\* A request arrives on the line of a process. "deny" is "ask" but for the code
\* of its answer, and a request for the host has no use for it.
AskHost(r) ==
  /\ hostAsk[r].at = "new" /\ UNCHANGED ranIn
  /\ \E tool \in BrokerTools, boundary \in {"sandbox", "host"}, fallback \in {"allow", "ask"} :
       /\ boundary = "host" => fallback = "ask"
       /\ hostAsk' = [hostAsk EXCEPT ![r] = [@ EXCEPT !.tool = tool, !.boundary = boundary,
                      !.fallback = fallback, !.at = "received"]]

\* The session, the workspace and the directories of the request are those of
\* the process, or it is refused.
ValidateHostExecutionWorkspace(r) ==
  /\ hostAsk[r].at = "received" /\ UNCHANGED ranIn
  /\ Gets(r, "checked") \/ AnswerFrom(r, "none")

\* An artifact is stored by the host whatever boundary the request names.
RouteAsk(r) ==
  /\ hostAsk[r].at = "checked" /\ UNCHANGED ranIn
  /\ Gets(r, IF hostAsk[r].tool # "publish" /\ hostAsk[r].boundary = "sandbox" THEN "preparing" ELSE "resolving")

\* Faulty variant of SandboxFallback: whatever fails in the sandbox.
FallbackAlways(r, unavailable) ==
  IF hostAsk[r].fallback = "allow" THEN Gets(r, "resolving") ELSE AnswerFrom(r, "sandbox")

\* A sandbox that is not available sends the request to the host when it may
\* go there; any other error is the answer.
SandboxFallback(r, unavailable) ==
  IF unavailable /\ hostAsk[r].fallback = "allow" THEN Gets(r, "resolving") ELSE AnswerFrom(r, "sandbox")

\* execute of the provider: the settings may have disabled the sandbox, the
\* installation of the guest may fail, and so may the path of the workspace.
PrepareSandbox(r) ==
  /\ hostAsk[r].at = "preparing" /\ UNCHANGED ranIn
  /\ Gets(r, "starting") \/ \E disabled \in BOOLEAN : SandboxFallback(r, disabled)

\* The operation waits for its turn and for its environment, whose start may
\* fail; one that was aborted meanwhile is neither for the guest nor the host.
StartInGuest(r) ==
  /\ hostAsk[r].at = "starting"
  /\ \/ \E unavailable \in BOOLEAN : SandboxFallback(r, unavailable /\ ~hostAsk[r].aborted) /\ UNCHANGED ranIn
     \/ ~hostAsk[r].aborted /\ Gets(r, "guest") /\ RunsOn(r, "guest")

\* The guest answers, refuses, or is lost with the request: it ends, runs out
\* of time, or is closed because of an abort.
GuestAnswers(r) ==
  /\ hostAsk[r].at = "guest" /\ UNCHANGED ranIn
  /\ AnswerFrom(r, "sandbox") \/ SandboxFallback(r, FALSE)

\* requireWorkspaceWritePath: a write outside of the workspace, or through a
\* link, is refused; its file and its directories need not be there.
WritePath(r) == Gets(r, "running") \/ AnswerFrom(r, "host")

\* resolveExistingPath: the file or the directory is there, and inside.
ExistingPath(r) == Gets(r, "running") \/ AnswerFrom(r, "host")

ResolveTarget(r) ==
  /\ hostAsk[r].at = "resolving" /\ UNCHANGED ranIn
  /\ IF hostAsk[r].tool = "write" THEN WritePath(r) ELSE ExistingPath(r)

\* A file is read, or written in place whatever has been aborted: what it held
\* is read first, for the difference of the answer.
Filesystem(r) ==
  /\ hostAsk[r].at = "running" /\ hostAsk[r].tool \in {"read", "write"}
  /\ AnswerFrom(r, "host") /\ (RunsOn(r, "host") \/ UNCHANGED ranIn)

\* The process is spawned, and ended at once when the request has been aborted;
\* its end, or the error of its start, is a result (ChildProcesses).
Shell(r) ==
  /\ hostAsk[r].at = "running" /\ hostAsk[r].tool = "exec"
  /\ AnswerFrom(r, "host") /\ (RunsOn(r, "host") \/ UNCHANGED ranIn)

\* A file of the workspace is copied to the artifacts (StoredFiles).
HandleArtifact(r) ==
  /\ hostAsk[r].at = "running" /\ hostAsk[r].tool = "publish"
  /\ AnswerFrom(r, "host") /\ (RunsOn(r, "host") \/ UNCHANGED ranIn)

\* The process has ended: its requests are aborted.
AbortActiveHostRequests ==
  /\ \E r \in HostAsks : hostAsk[r].at \notin {"new", "answered"} /\ ~hostAsk[r].aborted
  /\ hostAsk' = [r \in HostAsks |-> [hostAsk[r] EXCEPT !.aborted = @ \/ hostAsk[r].at \notin {"new", "answered"}]]
  /\ UNCHANGED ranIn

AskNext ==
  \/ AbortActiveHostRequests
  \/ \E r \in HostAsks :
       \/ AskHost(r) \/ ValidateHostExecutionWorkspace(r) \/ RouteAsk(r) \/ PrepareSandbox(r) \/ StartInGuest(r)
       \/ GuestAnswers(r) \/ ResolveTarget(r) \/ Filesystem(r) \/ Shell(r) \/ HandleArtifact(r)

AskSpec == AskInit /\ [][AskNext]_askVars

-----------------------------------------------------------------------------
\* A request runs once and where it may: on the host only when it was for the
\* host, or publishes, or allows the host and the guest has not run it; and its
\* answer names the side that ran it.
RunsWhereAllowed ==
  \A r \in HostAsks :
    /\ ranIn[r].guest + ranIn[r].host <= 1
    /\ ranIn[r].host = 1 =>
         "allow" = hostAsk[r].fallback \/ "host" = hostAsk[r].boundary \/ "publish" = hostAsk[r].tool
    /\ hostAsk[r].at = "answered" =>
         (ranIn[r].guest = 1 => hostAsk[r].answer = "sandbox") /\ (ranIn[r].host = 1 => hostAsk[r].answer = "host")

-----------------------------------------------------------------------------
(***************************************************************************)
(* ApprovalCoordinator (src/main/approvals/approval-coordinator.ts). An    *)
(* approval is answered by the user, the owner of its task being checked,  *)
(* by its time-out, or by a cancellation; the answer may have to reach the *)
(* CLI process, which may end meanwhile.                                   *)
(***************************************************************************)

CONSTANT Approvals

VARIABLES
  requested,  \* approvals that were requested
  pending,    \* the map of the coordinator
  deciding,   \* onDecision is awaited, with this decision
  told,       \* what the CLI was told
  outcome,    \* how the promise of request() settled
  available   \* isAvailable(): the process of the approval lives

approvalVars == <<requested, pending, deciding, told, outcome, available>>

Decisions == {"allow", "deny", "redirect"}

ApprovalTypeOK ==
  /\ requested \subseteq Approvals /\ pending \subseteq requested /\ available \subseteq Approvals
  /\ deciding \in [Approvals -> {"no"} \cup Decisions]
  /\ told \in [Approvals -> Seq(Decisions)]
  /\ outcome \in [Approvals -> {"none", "rejected"} \cup Decisions]

ApprovalInit ==
  /\ requested = {} /\ pending = {} /\ available = Approvals
  /\ deciding = [a \in Approvals |-> "no"] /\ told = [a \in Approvals |-> <<>>]
  /\ outcome = [a \in Approvals |-> "none"]

AskApproval(a) ==
  /\ a \notin requested
  /\ requested' = requested \cup {a} /\ pending' = pending \cup {a}
  /\ UNCHANGED <<deciding, told, outcome, available>>

\* Faulty variant of Take: the approval leaves the map with its outcome only.
TakeLate(who) == pending' = pending \ {a \in who : outcome'[a] # "none"}

\* An answer takes the approval out of the map before anything is awaited.
Take(who) == pending' = pending \ who

\* respond(): denied if the process has gone, else the CLI is told.
Respond(who, decision) ==
  /\ who # {} /\ who \subseteq pending
  /\ deciding' = [a \in Approvals |-> IF a \in who \cap available THEN decision ELSE deciding[a]]
  /\ told' = [a \in Approvals |-> IF a \in who \cap available THEN Append(told[a], decision) ELSE told[a]]
  /\ outcome' = [a \in Approvals |-> IF a \in who \ available THEN "deny" ELSE outcome[a]]
  /\ Take(who)
  /\ UNCHANGED <<requested, available>>

\* The CLI has accepted the decision or not; a promise settles once.
Decided(a) ==
  /\ deciding[a] # "no"
  /\ deciding' = [deciding EXCEPT ![a] = "no"]
  /\ \E how \in {deciding[a], IF a \in available THEN "rejected" ELSE "deny"} :
       outcome' = [outcome EXCEPT ![a] = IF @ = "none" THEN how ELSE @]
  /\ UNCHANGED <<requested, pending, told, available>>

\* cancelWhere: with the CLI told, or not (resolveCancelled).
CancelWhere(who) ==
  \/ Respond(who, "deny")
  \/ /\ who # {} /\ who \subseteq pending
     /\ outcome' = [a \in Approvals |-> IF a \in who THEN "deny" ELSE outcome[a]]
     /\ Take(who)
     /\ UNCHANGED <<requested, deciding, told, available>>

\* The time-out of request().
Expire(a) ==
  /\ a \in pending
  /\ outcome' = [outcome EXCEPT ![a] = "deny"]
  /\ Take({a})
  /\ UNCHANGED <<requested, deciding, told, available>>

ProcessGone(a) ==
  /\ a \in available /\ available' = available \ {a}
  /\ UNCHANGED <<requested, pending, deciding, told, outcome>>

ApprovalNext ==
  \/ \E a \in Approvals : AskApproval(a) \/ Decided(a) \/ Expire(a) \/ ProcessGone(a)
  \/ \E a \in Approvals, decision \in Decisions : Respond({a}, decision)
  \/ \E who \in SUBSET Approvals : CancelWhere(who)

ApprovalSpec == ApprovalInit /\ [][ApprovalNext]_approvalVars

-----------------------------------------------------------------------------
\* However answers, cancellations, the time-out and the end of the process
\* race, the CLI is told one decision at most, an approval counts as allowed
\* only if that decision allowed it, and one that is settled while no decision
\* is under way will never be answered to the CLI.
ApprovalDecidedOnce ==
  \A a \in Approvals :
    /\ Len(told[a]) <= 1
    /\ outcome[a] = "allow" => told[a] = <<"allow">>
    /\ outcome[a] # "none" => a \notin pending /\ deciding[a] = "no"
=============================================================================
