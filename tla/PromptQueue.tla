----------------------------- MODULE PromptQueue -----------------------------
(***************************************************************************)
(* The queued prompts of a task. They are stored with the task, and two    *)
(* parties start them: the composer of the renderer, from its list in      *)
(* memory (use-workspace-controller.ts, message-queue-service.ts), and the *)
(* remote control service, from the store (remote-control-service.ts). The *)
(* claim of the task is to keep them apart; nothing keeps one party from   *)
(* dispatching the same prompt again while its first dispatch is under way.*)
(***************************************************************************)
EXTENDS Naturals, SequencesExt

CONSTANTS
  Prompts,
  Dispatches, \* bound: the dispatches under way at a time
  MaxTurns,   \* bound on the turns
  NoPrompt,
  Direct      \* the prompt of a turn that was not queued

ASSUME QueueAssumption ==
  /\ NoPrompt \notin Prompts /\ Direct \notin Prompts /\ MaxTurns \in Nat \ {0}
  /\ "none" \notin Dispatches /\ "kept" \notin Dispatches

VARIABLES
  storedQueue, \* queuedPrompts of the task
  memory,      \* messages of the MessageQueueService
  arriving,    \* prompts whose queuing is under way, with their origin
  openTurns,   \* the prompts of the turns that run
  busyTask,    \* the stored status of the task, which follows the turns
  claimOf,     \* the dispatch whose claim holds; "kept": of one that is over
  dispatch,    \* dispatchQueuedPrompt and drainQueuedPrompts under way
  drainDue,    \* a drain is scheduled
  taskShown,   \* the task is the selected one
  turns,
  loose,       \* (history) the claim of a turn was released while it ran
  done         \* (history) prompts that were started or removed by the user

queueVars == <<storedQueue, memory, arriving, openTurns, busyTask, claimOf, dispatch, drainDue,
               taskShown, turns, loose, done>>

Party == [by : {"composer", "remote"}, at : {"idle", "claiming", "starting", "started"},
          prompt : Prompts \cup {NoPrompt}]
NoParty == [by |-> "composer", at |-> "idle", prompt |-> NoPrompt]

QueueTypeOK ==
  /\ storedQueue \in Seq(Prompts) /\ memory \in Seq(Prompts) /\ done \subseteq Prompts
  /\ arriving \in [Prompts -> {"no", "composer", "remote", "over"}]
  /\ openTurns \subseteq Prompts \cup {Direct} /\ turns \in 0..MaxTurns
  /\ claimOf \in Dispatches \cup {"none", "kept"} /\ dispatch \in [Dispatches -> Party]
  /\ {busyTask, drainDue, taskShown, loose} \subseteq BOOLEAN

QueueInit ==
  /\ storedQueue = <<>> /\ memory = <<>> /\ arriving = [p \in Prompts |-> "no"]
  /\ openTurns = {Direct} /\ busyTask = TRUE /\ claimOf = "kept" /\ taskShown = TRUE
  /\ dispatch = [d \in Dispatches |-> NoParty] /\ drainDue = FALSE
  /\ turns = 1 /\ loose = FALSE /\ done = {}

Lists == <<storedQueue, memory, arriving>>
Turning == <<openTurns, claimOf, turns, loose>>
Dispatching == <<dispatch, drainDue>>

-----------------------------------------------------------------------------
(* Prompts come *)

\* The composer queues a prompt of the task whose turn it takes to be running
\* (a response that comes late makes it believe so of one that is over), and
\* the remote control one of a task that is stored as active. Which of the
\* prompts that have not come is the next does not matter.
QueuePrompt(p) ==
  /\ arriving[p] = "no" /\ p = CHOOSE q \in Prompts : arriving[q] = "no"
  /\ \/ taskShown /\ arriving' = [arriving EXCEPT ![p] = "composer"]
     \/ busyTask /\ arriving' = [arriving EXCEPT ![p] = "remote"]
  /\ UNCHANGED <<storedQueue, memory, Turning, Dispatching, busyTask, taskShown, done>>

\* task.queuePrompt has stored it; the composer keeps it in its list as well.
PromptQueued(p) ==
  /\ arriving[p] \in {"composer", "remote"}
  /\ storedQueue' = Append(storedQueue, p)
  /\ memory' = IF arriving[p] = "composer" THEN Append(memory, p) ELSE memory
  /\ arriving' = [arriving EXCEPT ![p] = "over"]
  /\ UNCHANGED <<Turning, Dispatching, busyTask, taskShown, done>>

-----------------------------------------------------------------------------
(* Turns end, and prompts are dispatched *)

\* A place for a dispatch: which of the free ones does not matter.
FreeOne == CHOOSE d \in Dispatches : dispatch[d].at = "idle"

\* dispatchQueuedPrompt of a message in the list.
Picks(i) ==
  \E d \in Dispatches :
    /\ dispatch[d].at = "idle" /\ d = FreeOne
    /\ dispatch' = [dispatch EXCEPT ![d] = [by |-> "composer", at |-> "claiming", prompt |-> memory[i]]]

\* The end of a turn: the coordinator drops the claim of the task, whosever it
\* is, the remote control drains the queue after a delay, and the composer
\* dispatches its first message, which stays in the list and may be the one
\* that is being dispatched, or the one the user steered to, which leaves the
\* list at once. It dispatches nothing when the user has cancelled.
TurnEnds(p) ==
  /\ p \in openTurns
  /\ openTurns' = openTurns \ {p} /\ claimOf' = "none" /\ drainDue' = TRUE
  /\ loose' = (loose /\ (openTurns' # {} \/ \E d \in Dispatches : dispatch[d].at = "starting"))
  /\ \/ UNCHANGED <<dispatch, memory>>
     \/ /\ taskShown
        /\ \E i \in DOMAIN memory : Picks(i) /\ memory' = IF i = 1 THEN memory ELSE RemoveAt(memory, i)
  /\ UNCHANGED <<storedQueue, arriving, busyTask, taskShown, turns, done>>

\* The projector has stored the status of the task, after the event that came
\* last when two turns were under way.
StatusStored ==
  /\ loose \/ busyTask # (openTurns # {})
  /\ busyTask' = ~busyTask
  /\ UNCHANGED <<Lists, Turning, Dispatching, taskShown, done>>

\* steerQueuedMessage when no turn is active: the message is dispatched.
SteerIdle ==
  /\ taskShown /\ \E i \in DOMAIN memory : Picks(i)
  /\ UNCHANGED <<Lists, Turning, drainDue, busyTask, taskShown, done>>

\* drainQueuedPrompts, when its time has come: it takes the first stored prompt
\* of a task that seems idle. It may not: the task cannot be read, or a drain of
\* it is under way (drainingTasks), unless clearRuntime has forgotten that one.
DrainReads ==
  /\ drainDue /\ drainDue' = FALSE
  /\ \/ UNCHANGED dispatch
     \/ /\ storedQueue # <<>> /\ ~busyTask
        /\ \E d \in Dispatches :
             /\ dispatch[d].at = "idle" /\ d = FreeOne
             /\ dispatch' = [dispatch EXCEPT ![d] = [by |-> "remote", at |-> "claiming", prompt |-> Head(storedQueue)]]
  /\ UNCHANGED <<Lists, Turning, busyTask, taskShown, done>>

\* Dispatch d is over, or goes on.
DispatchOver(d) == dispatch' = [dispatch EXCEPT ![d] = NoParty]
DispatchGoesOn(d, at) == dispatch' = [dispatch EXCEPT ![d].at = at]

\* startPrompt claims the task, or fails and leaves the queue as it is.
Claims(d) ==
  /\ dispatch[d].at = "claiming"
  /\ IF claimOf = "none" THEN claimOf' = d /\ DispatchGoesOn(d, "starting") ELSE DispatchOver(d) /\ UNCHANGED claimOf
  /\ UNCHANGED <<Lists, openTurns, turns, loose, drainDue, busyTask, taskShown, done>>

\* A step up to turn.start fails, or turn.start. The composer releases its
\* claim; the remote control does when it could not resolve the attachments or
\* turn.start failed, and leaves it when a step in between did.
StartFails(d) ==
  /\ dispatch[d].at = "starting" /\ DispatchOver(d)
  /\ \/ claimOf' = IF claimOf = d THEN "none" ELSE claimOf
     \/ dispatch[d].by = "remote" /\ claimOf' = IF claimOf = d THEN "kept" ELSE claimOf
  /\ UNCHANGED <<Lists, openTurns, turns, loose, drainDue, busyTask, taskShown, done>>

\* turn.start succeeds; the handler of the composer's has checked the claim.
\* Without a turn id the claim is released. A later step that fails (the write
\* of the turn id) ends the dispatch: the prompt stays queued, and the remote
\* control releases the claim.
Starts(d) ==
  /\ dispatch[d].at = "starting" /\ turns < MaxTurns
  /\ dispatch[d].by = "remote" \/ claimOf = d
  /\ openTurns' = openTurns \cup {dispatch[d].prompt} /\ done' = done \cup {dispatch[d].prompt}
  /\ turns' = turns + 1
  /\ \E named, recorded \in BOOLEAN :
       LET keeps == named /\ (recorded \/ dispatch[d].by = "composer") IN
         /\ claimOf' = IF claimOf # d THEN claimOf ELSE IF keeps THEN "kept" ELSE "none"
         /\ loose' = (loose \/ ~keeps)
         /\ IF recorded THEN DispatchGoesOn(d, "started") ELSE DispatchOver(d)
  /\ UNCHANGED <<Lists, drainDue, busyTask, taskShown>>

-----------------------------------------------------------------------------
(* Prompts leave *)

\* Faulty variant of Dequeue: the first prompt is removed, whichever it is.
DequeueFirst(p) == storedQueue' = IF storedQueue = <<>> THEN storedQueue ELSE Tail(storedQueue)

\* task.dequeuePrompt, which may fail, unnoticed: a prompt is queued once.
Dequeue(p) == storedQueue' \in {RemoveFirst(storedQueue, p), storedQueue}

\* The dispatch whose prompt was started removes it.
DispatchEnds(d) ==
  /\ dispatch[d].at = "started"
  /\ Dequeue(dispatch[d].prompt) /\ DispatchOver(d)
  /\ memory' = IF dispatch[d].by = "composer" THEN RemoveFirst(memory, dispatch[d].prompt) ELSE memory
  /\ UNCHANGED <<arriving, Turning, drainDue, busyTask, taskShown, done>>

\* The user removes a message, or takes it back into the draft.
RemoveQueuedMessage(p) ==
  /\ taskShown /\ p \in ToSet(memory)
  /\ memory' = RemoveFirst(memory, p) /\ Dequeue(p)
  /\ done' = done \cup {p}
  /\ UNCHANGED <<arriving, Turning, Dispatching, busyTask, taskShown>>

\* The draft could not be written: the message is put back in front.
EditFails(p) ==
  /\ taskShown /\ p \in ToSet(memory)
  /\ memory' = <<p>> \o RemoveFirst(memory, p)
  /\ UNCHANGED <<storedQueue, arriving, Turning, Dispatching, busyTask, taskShown, done>>

\* Another task is selected, and this one again: the list is that of the store.
SelectTask ==
  /\ taskShown' = ~taskShown
  /\ memory' = IF taskShown' THEN storedQueue ELSE <<>>
  /\ UNCHANGED <<storedQueue, arriving, Turning, Dispatching, busyTask, done>>

QueueNext ==
  \/ StatusStored \/ SteerIdle \/ DrainReads \/ SelectTask
  \/ \E p \in openTurns : TurnEnds(p)
  \/ \E d \in Dispatches : Claims(d) \/ StartFails(d) \/ Starts(d) \/ DispatchEnds(d)
  \/ \E p \in Prompts : QueuePrompt(p) \/ PromptQueued(p) \/ RemoveQueuedMessage(p) \/ EditFails(p)

QueueSpec == QueueInit /\ [][QueueNext]_queueVars

-----------------------------------------------------------------------------
\* Two parties start and remove the prompts of one queue over calls that fail
\* and turns that end meanwhile: a prompt that was queued stays stored until it
\* was started or the user removed it, and at most one dispatch is starting a
\* turn at any time, unless the claim of a running turn has been let go. (A
\* prompt may be started twice: its dispatch removes it after the start, and
\* meanwhile its turn may end and the next dispatch find it.)
QueuedPromptsKept ==
  /\ \A p \in Prompts : arriving[p] = "over" => p \in ToSet(storedQueue) \cup done
  /\ loose \/ \A d, e \in Dispatches :
       dispatch[d].at = "starting" /\ dispatch[e].at = "starting" => d = e
=============================================================================
