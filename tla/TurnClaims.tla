----------------------------- MODULE TurnClaims -----------------------------
(***************************************************************************)
(* Who may run a turn of a task: TaskTurnCoordinator                       *)
(* (src/main/tasks/task-turn-coordinator.ts) with the two entry points that*)
(* claim a task, the composer (renderer and the agent.turnStart handler)   *)
(* and remote control (startPrompt), the terminal events that release the  *)
(* claim and the exits of the session's CLI process.                       *)
(*                                                                         *)
(* A task has one session, so a claim is bound to it or not bound at all.  *)
(* A turn that is refused the claim has not begun, and may ask again.      *)
(* The removal of a workspace, which releases the claims of its tasks, is  *)
(* left out: nobody can ask for turns of a task whose workspace is gone.   *)
(***************************************************************************)
EXTENDS Naturals, FiniteSets

CONSTANTS
  Tasks,
  Turns,    \* turns somebody wants to run
  TaskOf,   \* the task of a turn
  Remote,   \* the turns that remote control starts; the composer starts the others
  NoTurn

ASSUME ClaimAssumption ==
  /\ TaskOf \in [Turns -> Tasks]
  /\ Remote \subseteq Turns
  /\ NoTurn \notin Turns

VARIABLES
  claims,    \* the claim of each task: the turn its token was made for
  caller,    \* how far the entry point is
  cli,       \* how far the CLI is
  sessions   \* tasks whose session id is stored

claimVars == <<claims, caller, cli, sessions>>

(***************************************************************************)
(* claimed   holds a token               starting  awaits turn.start       *)
(* opening   attachments are resolved    recording remote: awaits the write*)
(* ready     the session is open                   of the turn to the task *)
(* rejected  the request was rejected    done      returned or thrown      *)
(* untracked returned or thrown without its claim, while its turn runs     *)
(***************************************************************************)
CallerStates ==
  {"idle", "claimed", "opening", "ready", "starting", "recording", "rejected", "done", "untracked"}

\* lost: the process exited under the turn; cut: it was shut down at a sign-out.
CliStates == {"none", "running", "over", "lost", "cut"}

ClaimTypeOK ==
  /\ claims \in [Tasks -> [turn : Turns \cup {NoTurn}, bound : BOOLEAN]]
  /\ caller \in [Turns -> CallerStates]
  /\ cli \in [Turns -> CliStates]
  /\ sessions \subseteq Tasks

Unclaimed == [turn |-> NoTurn, bound |-> FALSE]

ClaimInit ==
  /\ claims = [t \in Tasks |-> Unclaimed]
  /\ caller = [u \in Turns |-> "idle"]
  /\ cli = [u \in Turns |-> "none"]
  /\ sessions = {}

-----------------------------------------------------------------------------
(* The operations of the coordinator, as the claims they leave *)

Owns(u) == claims[TaskOf[u]].turn = u

\* Faulty variant of Released: the token is not compared.
ReleasedByAnyone(u) == [claims EXCEPT ![TaskOf[u]] = Unclaimed]

\* release(taskId, token)
Released(u) ==
  IF Owns(u) THEN [claims EXCEPT ![TaskOf[u]] = Unclaimed] ELSE claims

\* observe: a terminal event of the task, which is one of its session.
Observed(t) == [claims EXCEPT ![t] = Unclaimed]

\* releaseSession
SessionReleased(t) ==
  IF claims[t].bound THEN [claims EXCEPT ![t] = Unclaimed] ELSE claims

-----------------------------------------------------------------------------
(* The entry points *)

\* Faulty variant of Claim: a claim is taken over.
ClaimRegardless(u) ==
  LET t == TaskOf[u] IN
    /\ caller[u] = "idle"
    /\ claims' = [claims EXCEPT ![t] =
         [turn |-> u, bound |-> u \notin Remote /\ t \in sessions]]
    /\ caller' = [caller EXCEPT ![u] = "claimed"]
    /\ UNCHANGED <<cli, sessions>>

\* The composer names the session when the task has one.
Claim(u) ==
  LET t == TaskOf[u] IN
    /\ caller[u] = "idle"
    /\ claims[t].turn = NoTurn
    /\ claims' = [claims EXCEPT ![t] =
         [turn |-> u, bound |-> u \notin Remote /\ t \in sessions]]
    /\ caller' = [caller EXCEPT ![u] = "claimed"]
    /\ UNCHANGED <<cli, sessions>>

AttachmentsResolved(u) ==
  /\ caller[u] = "claimed"
  /\ caller' = [caller EXCEPT ![u] = "opening"]
  /\ UNCHANGED <<claims, cli, sessions>>

SessionOpened(u) ==
  /\ caller[u] = "opening"
  /\ caller' = [caller EXCEPT ![u] = "ready"]
  /\ sessions' = sessions \cup {TaskOf[u]}
  /\ UNCHANGED <<claims, cli>>

\* A call before turn.start fails.  The composer releases its token whatever
\* failed, remote control when it was the attachments.
PreparationFails(u) ==
  /\ caller[u] \in {"claimed", "opening", "ready"}
  /\ caller' = [caller EXCEPT ![u] = "done"]
  /\ claims' = IF u \in Remote /\ caller[u] # "claimed"
               THEN claims ELSE Released(u)
  /\ UNCHANGED <<cli, sessions>>

\* Faulty variant of RequestTurn: binding the session loses the token.
RequestTurnRebinds(u) ==
  /\ caller[u] = "ready"
  /\ u \in Remote \/ Owns(u)
  /\ claims' = IF u \in Remote THEN claims
               ELSE [claims EXCEPT ![TaskOf[u]] = [bound |-> TRUE]]
  /\ caller' = [caller EXCEPT ![u] = "starting"]
  /\ UNCHANGED <<cli, sessions>>

\* The handler of the composer's agent.turnStart checks and binds the claim;
\* remote control calls the agent manager directly.
RequestTurn(u) ==
  /\ caller[u] = "ready"
  /\ \/ /\ u \in Remote
        /\ caller' = [caller EXCEPT ![u] = "starting"]
        /\ UNCHANGED claims
     \/ /\ u \notin Remote
        /\ Owns(u)
        /\ claims' = [claims EXCEPT ![TaskOf[u]] = [turn |-> u, bound |-> TRUE]]
        /\ caller' = [caller EXCEPT ![u] = "starting"]
     \/ /\ u \notin Remote
        /\ ~Owns(u)
        /\ caller' = [caller EXCEPT ![u] = "done"]
        /\ UNCHANGED claims
  /\ UNCHANGED <<cli, sessions>>

\* The token is released although turn.start was answered, and the caller is over.
LetGo(u) ==
  /\ claims' = Released(u)
  /\ caller' = [caller EXCEPT ![u] = IF cli[u] = "running" THEN "untracked" ELSE "done"]

\* The response, which may come after events of the turn.  Without a turn id
\* either entry point takes the turn for one that has not started.
Answered(u) ==
  /\ caller[u] = "starting"
  /\ cli[u] \in {"running", "over"}
  /\ \/ /\ caller' = [caller EXCEPT ![u] = IF u \in Remote THEN "recording" ELSE "done"]
        /\ UNCHANGED claims
     \/ LetGo(u)
  /\ UNCHANGED <<cli, sessions>>

\* Remote control writes the turn id into the task before it leaves its try: a
\* write that fails releases the token of a turn that may be running.  (The
\* composer remembers turnStarted, and a write that fails releases nothing.)
TurnRecorded(u) ==
  /\ caller[u] = "recording"
  /\ \/ /\ caller' = [caller EXCEPT ![u] = "done"]
        /\ UNCHANGED claims
     \/ LetGo(u)
  /\ UNCHANGED <<cli, sessions>>

\* An error response, or a request that never reached the CLI.
Refused(u) ==
  /\ caller[u] = "starting"
  /\ cli[u] = "none"
  /\ caller' = [caller EXCEPT ![u] = "rejected"]
  /\ UNCHANGED <<claims, cli, sessions>>

\* Faulty variant of RejectionHandled: the rejection is only passed on.
RejectionPassedOn(u) ==
  /\ caller[u] = "rejected"
  /\ caller' = [caller EXCEPT ![u] = "done"]
  /\ UNCHANGED <<claims, cli, sessions>>

\* The catch of either entry point.
RejectionHandled(u) ==
  /\ caller[u] = "rejected"
  /\ claims' = Released(u)
  /\ caller' = [caller EXCEPT ![u] = "done"]
  /\ UNCHANGED <<cli, sessions>>

-----------------------------------------------------------------------------
(* The CLI *)

TurnBegins(u) ==
  /\ caller[u] = "starting"
  /\ cli[u] = "none"
  /\ cli' = [cli EXCEPT ![u] = "running"]
  /\ UNCHANGED <<claims, caller, sessions>>

TurnEnds(u) ==
  /\ cli[u] = "running"
  /\ cli' = [cli EXCEPT ![u] = "over"]
  /\ claims' = Observed(TaskOf[u])
  /\ UNCHANGED <<caller, sessions>>

OfTask(t) == {u \in Turns : TaskOf[u] = t}

\* Every pending request of the process is rejected; who made it hears of it
\* later, after onExit has released the session's claim.
Rejecting(t) ==
  [u \in Turns |->
     IF u \in OfTask(t) /\ caller[u] = "starting" THEN "rejected" ELSE caller[u]]

StoppedIn(t, end) ==
  [u \in Turns |-> IF u \in OfTask(t) /\ cli[u] = "running" THEN end ELSE cli[u]]

\* The process of the session exits, whatever the entry points are doing: a
\* composer that is still preparing its turn loses a claim that names the session.
ProcessExit(t) ==
  /\ t \in sessions
  /\ claims' = SessionReleased(t)
  /\ caller' = Rejecting(t)
  /\ cli' = StoppedIn(t, "lost")
  /\ UNCHANGED sessions

\* The process is shut down, and onExit is not called: when it is idle or evicted
\* no turn runs in it, at a sign-out or when the session expires one may.
ProcessShutdown(t) ==
  /\ t \in sessions
  /\ caller' = Rejecting(t)
  /\ cli' = StoppedIn(t, "cut")
  /\ UNCHANGED <<claims, sessions>>

-----------------------------------------------------------------------------
Prepare(u) ==
  \/ AttachmentsResolved(u)
  \/ SessionOpened(u)
  \/ PreparationFails(u)
  \/ RequestTurn(u)

ClaimNext ==
  \/ \E u \in Turns :
       \/ Claim(u)
       \/ Prepare(u)
       \/ TurnBegins(u)
       \/ Answered(u)
       \/ TurnRecorded(u)
       \/ Refused(u)
       \/ RejectionHandled(u)
       \/ TurnEnds(u)
  \/ \E t \in Tasks : ProcessExit(t) \/ ProcessShutdown(t)

ClaimSpec == ClaimInit /\ [][ClaimNext]_claimVars

\* The steps of an entry point settle: every request has a timeout.  A turn
\* may run for ever.
ClaimFairness ==
  \A u \in Turns :
    /\ WF_claimVars(Prepare(u))
    /\ WF_claimVars(TurnBegins(u) \/ Refused(u))
    /\ WF_claimVars(RejectionHandled(u))

FairClaimSpec == ClaimSpec /\ ClaimFairness

-----------------------------------------------------------------------------
\* A turn the CLI has been asked for, and may be running.
UnderWay(u) ==
  \/ cli[u] = "running"
  \/ caller[u] = "starting" /\ cli[u] = "none"

\* Remote control or the composer has let the claim of a running turn of t go.
Untracked(t) == \E u \in OfTask(t) : caller[u] = "untracked"

\* "allows one owner and rejects a concurrent claim until the terminal event"
\* (task-turn-coordinator.test.ts:6): two entry points never run turns of one
\* task together, although a claim is released by events and exits that do not
\* name its token.  Excepted is a task of which a turn went untracked: the catch of
\* startPrompt (remote-control-service.ts:276) or a response without a turn id
\* released the claim of a turn that runs, and its end releases that of the next.
OneTurnPerTask ==
  \A u, v \in Turns :
    UnderWay(u) /\ UnderWay(v) /\ TaskOf[u] = TaskOf[v] => u = v \/ Untracked(TaskOf[u])

\* A turn keeps its claim from its request to its end, unless one of its task went
\* untracked: neither the end of an earlier turn, nor a late rejection of one, nor
\* an exit takes it away.
ClaimHeldWhileRunning == \A u \in Turns : UnderWay(u) => Owns(u) \/ Untracked(TaskOf[u])

\* The composer never forgets a claim: it is released unless its turn runs, or was
\* cut by a sign-out, which tells the coordinator nothing.
ComposerClaimReleased ==
  \A u \in Turns \ Remote : Owns(u) ~> (~Owns(u) \/ cli[u] \in {"running", "cut"})

\* "releases all claims owned by a workspace after process failure"
\* (task-turn-coordinator.test.ts:15): a turn whose process has exited does not
\* keep its task claimed once its caller has returned.
NoClaimAfterProcessFailure ==
  \A u \in Turns : cli[u] = "lost" /\ caller[u] = "done" => ~Owns(u)
=============================================================================
