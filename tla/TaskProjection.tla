--------------------------- MODULE TaskProjection ---------------------------
(***************************************************************************)
(* The path of a CLI event into the task list: TaskEventProjector          *)
(* (src/main/tasks/task-event-projector.ts) over TaskStore (task-store.ts),*)
(* for the tasks of one workspace, with the interruption the main process  *)
(* (index.ts) requests when a session's CLI process exits and the one it   *)
(* performs when it starts.                                                *)
(*                                                                         *)
(* Every event names its task.  A turn streams deltas between its start    *)
(* and its end; the other events take the path of the lifecycle events and *)
(* only add activities, as does a part of what the lifecycle events do:    *)
(* here that part matters only because it can fail.                        *)
(***************************************************************************)
EXTENDS Naturals, Sequences

CONSTANTS
  Tasks,       \* the tasks of the workspace, each with a session of its own
  Turns,       \* turns the CLI runs
  TaskOf,      \* the task of a turn
  BatchSize,   \* ASSISTANT_DELTA_BATCH_SIZE
  MaxDeltas,   \* bound: deltas a turn streams
  MaxFaults,   \* bound: store calls that fail
  MayExit,     \* tasks whose CLI process may exit under a turn
  NoTurn, NoEvent

ASSUME ProjectionAssumption ==
  /\ TaskOf \in [Turns -> Tasks]
  /\ BatchSize \in Nat \ {0}
  /\ MaxDeltas \in Nat /\ MaxFaults \in Nat
  /\ MayExit \subseteq Tasks
  /\ NoTurn \notin Turns

VARIABLES
  life,          \* how far the CLI is with a turn
  sent,          \* deltas of a turn received from the CLI
  buffered,      \* pendingAssistantDeltas: the open batch of a turn
  queue,         \* the operations chained on the workspace's promise
  rest,          \* batches the apply() of an event has yet to flush before it
  step,          \* the first operation's store calls that are done
  task,          \* the persisted status and turn of each task
  interrupting,  \* tasks with interruptActiveBySession under way
  stored,        \* deltas of a turn in the activity log
  faults         \* store calls that failed

projVars ==
  <<life, sent, buffered, queue, rest, step, task, interrupting, stored, faults>>

\* A failed and a cancelled turn take the same steps.
Lifecycle == {"started", "completed", "failed"}
Events == [kind : Lifecycle, turn : Turns]
ASSUME NoEventAssumption == NoEvent \notin Events

Statuses == {"queued", "active", "completed", "failed", "interrupted"}
Operations ==
  [kind : Lifecycle \cup {"deltas"}, turn : Turns,
   deltas : Seq(1..MaxDeltas), waiter : Events \cup {NoEvent}]

ProjTypeOK ==
  /\ life \in [Turns -> {"new", "running", "over"}]
  /\ sent \in [Turns -> 0..MaxDeltas]
  /\ buffered \in [Turns -> Seq(1..MaxDeltas)]
  /\ \A u \in Turns : Len(buffered[u]) < BatchSize
  /\ queue \in Seq(Operations)
  /\ rest \in [Turns -> [Lifecycle -> SUBSET Turns]]
  /\ step \in 0..1
  /\ task \in [Tasks -> [status : Statuses, turnId : Turns \cup {NoTurn}]]
  /\ interrupting \subseteq Tasks
  /\ stored \in [Turns -> Seq(1..MaxDeltas)]
  /\ faults \in 0..MaxFaults

ProjInit ==
  /\ life = [u \in Turns |-> "new"]
  /\ sent = [u \in Turns |-> 0]
  /\ buffered = [u \in Turns |-> <<>>]
  /\ queue = <<>>
  /\ rest = [u \in Turns |-> [k \in Lifecycle |-> {}]]
  /\ step = 0
  /\ task = [t \in Tasks |-> [status |-> "queued", turnId |-> NoTurn]]
  /\ interrupting = {}
  /\ stored = [u \in Turns |-> <<>>]
  /\ faults = 0

Batch(u, waiter, deltas) ==
  [kind |-> "deltas", turn |-> u, deltas |-> deltas, waiter |-> waiter]
Own(e) == [kind |-> e.kind, turn |-> e.turn, deltas |-> <<>>, waiter |-> NoEvent]

-----------------------------------------------------------------------------
(* apply() *)

\* Faulty variant of FlushThenEnqueue: open batches are left to their timers.
EnqueueUnflushed(e, keys, q) ==
  /\ queue' = Append(q, Own(e))
  /\ UNCHANGED <<buffered, rest>>

\* The loop of flushAssistantDeltas on behalf of the event e, over the batches
\* of keys that are still open: chain one of them and await it, or when there
\* is none, chain e itself.  q is the queue before.
FlushThenEnqueue(e, keys, q) ==
  LET open == {u \in keys : buffered[u] # <<>>}
  IN  \/ /\ open = {}
         /\ queue' = Append(q, Own(e))
         /\ rest' = [rest EXCEPT ![e.turn][e.kind] = {}]
         /\ UNCHANGED buffered
      \/ \E u \in open :
           /\ queue' = Append(q, Batch(u, e, buffered[u]))
           /\ buffered' = [buffered EXCEPT ![u] = <<>>]
           /\ rest' = [rest EXCEPT ![e.turn][e.kind] = open \ {u}]

\* The CLI runs one turn of a session at a time.
TurnStarted(u) ==
  /\ life[u] = "new"
  /\ \A other \in Turns : TaskOf[other] = TaskOf[u] => life[other] # "running"
  /\ life' = [life EXCEPT ![u] = "running"]
  /\ FlushThenEnqueue([kind |-> "started", turn |-> u], Turns, queue)
  /\ UNCHANGED <<sent, step, task, interrupting, stored, faults>>

TurnEnded(u, outcome) ==
  /\ life[u] = "running"
  /\ life' = [life EXCEPT ![u] = "over"]
  /\ FlushThenEnqueue([kind |-> outcome, turn |-> u], Turns, queue)
  /\ UNCHANGED <<sent, step, task, interrupting, stored, faults>>

\* Faulty variant of Delta: a batch is full one delta too late.
DeltaPastBatch(u) ==
  /\ life[u] = "running"
  /\ sent[u] < MaxDeltas
  /\ sent' = [sent EXCEPT ![u] = @ + 1]
  /\ LET batch == Append(buffered[u], sent[u] + 1) IN
       IF Len(batch) > BatchSize
       THEN /\ queue' = Append(queue, Batch(u, NoEvent, batch))
            /\ buffered' = [buffered EXCEPT ![u] = <<>>]
       ELSE /\ buffered' = [buffered EXCEPT ![u] = batch]
            /\ UNCHANGED queue
  /\ UNCHANGED <<life, rest, step, task, interrupting, stored, faults>>

\* bufferAssistantDelta: a full batch is chained at once.
Delta(u) ==
  /\ life[u] = "running"
  /\ sent[u] < MaxDeltas
  /\ sent' = [sent EXCEPT ![u] = @ + 1]
  /\ LET batch == Append(buffered[u], sent[u] + 1) IN
       IF Len(batch) >= BatchSize
       THEN /\ queue' = Append(queue, Batch(u, NoEvent, batch))
            /\ buffered' = [buffered EXCEPT ![u] = <<>>]
       ELSE /\ buffered' = [buffered EXCEPT ![u] = batch]
            /\ UNCHANGED queue
  /\ UNCHANGED <<life, rest, step, task, interrupting, stored, faults>>

\* Faulty variant of BatchTimer: the timer of a batch is armed for the first
\* one of the turn only.
BatchTimerOnce(u) ==
  /\ buffered[u] # <<>>
  /\ Len(buffered[u]) = sent[u]
  /\ queue' = Append(queue, Batch(u, NoEvent, buffered[u]))
  /\ buffered' = [buffered EXCEPT ![u] = <<>>]
  /\ UNCHANGED <<life, sent, rest, step, task, interrupting, stored, faults>>

\* Faulty variant of BatchTimer: the batch it chains stays open.
BatchTimerKeepsBatch(u) ==
  /\ buffered[u] # <<>>
  /\ queue' = Append(queue, Batch(u, NoEvent, buffered[u]))
  /\ UNCHANGED <<life, sent, buffered, rest, step, task, interrupting, stored, faults>>

BatchTimer(u) ==
  /\ buffered[u] # <<>>
  /\ queue' = Append(queue, Batch(u, NoEvent, buffered[u]))
  /\ buffered' = [buffered EXCEPT ![u] = <<>>]
  /\ UNCHANGED <<life, sent, rest, step, task, interrupting, stored, faults>>

-----------------------------------------------------------------------------
(* The operations of the queue *)

\* The batch is in the log; the apply() that awaited it goes on.
AppendDeltas ==
  /\ queue # <<>>
  /\ LET op == Head(queue) IN
       /\ op.kind = "deltas"
       /\ stored' = [stored EXCEPT ![op.turn] = @ \o op.deltas]
       /\ \/ /\ op.waiter = NoEvent
             /\ queue' = Tail(queue)
             /\ UNCHANGED <<buffered, rest>>
          \/ /\ op.waiter # NoEvent
             /\ FlushThenEnqueue(op.waiter, rest[op.waiter.turn][op.waiter.kind], Tail(queue))
  /\ UNCHANGED <<life, sent, step, task, interrupting, faults>>

\* applyNow: a call that sets the status, then a call that sets the turn.
SetStatus ==
  /\ queue # <<>>
  /\ LET op == Head(queue) IN
       /\ op.kind \in Lifecycle
       /\ step = 0
       /\ task' = [task EXCEPT ![TaskOf[op.turn]].status =
                     IF op.kind = "started" THEN "active" ELSE op.kind]
  /\ step' = 1
  /\ UNCHANGED <<life, sent, buffered, queue, rest, interrupting, stored, faults>>

SetTurn ==
  /\ queue # <<>>
  /\ LET op == Head(queue) IN
       /\ op.kind \in Lifecycle
       /\ step = 1
       /\ task' = [task EXCEPT ![TaskOf[op.turn]].turnId =
                     IF op.kind = "started" THEN op.turn ELSE NoTurn]
  /\ step' = 0
  /\ queue' = Tail(queue)
  /\ UNCHANGED <<life, sent, buffered, rest, interrupting, stored, faults>>

\* A store call of the first operation fails.  The queue goes on; an apply()
\* that awaited the operation rejects, and its own event is never chained.
StoreFails ==
  /\ queue # <<>>
  /\ faults < MaxFaults
  /\ faults' = faults + 1
  /\ LET e == Head(queue).waiter IN
       rest' = IF e = NoEvent THEN rest ELSE [rest EXCEPT ![e.turn][e.kind] = {}]
  /\ queue' = Tail(queue)
  /\ step' = 0
  /\ UNCHANGED <<life, sent, buffered, task, interrupting, stored>>

-----------------------------------------------------------------------------
(* Exits of the CLI process and of the application *)

\* onExit: the turn gets no further event.
ProcessExit(t) ==
  /\ t \in MayExit
  /\ \E u \in Turns :
       /\ TaskOf[u] = t
       /\ life[u] = "running"
       /\ life' = [life EXCEPT ![u] = "over"]
  /\ interrupting' = interrupting \cup {t}
  /\ UNCHANGED <<sent, buffered, queue, rest, step, task, stored, faults>>

Interrupted == [status |-> "interrupted", turnId |-> NoTurn]

\* interruptActiveBySession: the global chain does not wait for the chain of
\* the task, only for the write of the file.
Interrupt(t) ==
  /\ t \in interrupting
  /\ interrupting' = interrupting \ {t}
  /\ task' = IF task[t].status = "active" /\ task[t].turnId # NoTurn
             THEN [task EXCEPT ![t] = Interrupted] ELSE task
  /\ UNCHANGED <<life, sent, buffered, queue, rest, step, stored, faults>>

\* The application dies and starts again: interruptActive.
Restart ==
  /\ \E u \in Turns : life[u] = "running"
  /\ life' = [u \in Turns |-> IF life[u] = "running" THEN "over" ELSE life[u]]
  /\ buffered' = [u \in Turns |-> <<>>]
  /\ queue' = <<>>
  /\ rest' = [u \in Turns |-> [k \in Lifecycle |-> {}]]
  /\ step' = 0
  /\ interrupting' = {}
  /\ task' = [t \in Tasks |->
                IF task[t].status = "active" THEN Interrupted ELSE task[t]]
  /\ UNCHANGED <<sent, stored, faults>>

-----------------------------------------------------------------------------
StoreStep == AppendDeltas \/ SetStatus \/ SetTurn \/ StoreFails

ProjNext ==
  \/ \E u \in Turns :
       \/ TurnStarted(u)
       \/ \E outcome \in {"completed", "failed"} : TurnEnded(u, outcome)
       \/ Delta(u)
       \/ BatchTimer(u)
  \/ StoreStep
  \/ \E t \in Tasks : ProcessExit(t) \/ Interrupt(t)
  \/ Restart

ProjSpec == ProjInit /\ [][ProjNext]_projVars

\* A store call settles and the batch window elapses; nothing is assumed of
\* the CLI.
ProjFairness ==
  /\ WF_projVars(StoreStep)
  /\ \A u \in Turns : WF_projVars(BatchTimer(u))
  /\ \A t \in Tasks : WF_projVars(Interrupt(t))

FairProjSpec == ProjSpec /\ ProjFairness

-----------------------------------------------------------------------------
Ascending(s) == \A i, j \in DOMAIN s : i < j => s[i] < s[j]
Before(s, t) == \A i \in DOMAIN s, j \in DOMAIN t : s[i] < t[j]
Holds(s, d) == \E i \in DOMAIN s : s[i] = d

\* Where a delta of a turn is on its way into the log.
InPipeline(u, d) ==
  \/ Holds(stored[u], d)
  \/ \E i \in DOMAIN queue : queue[i].turn = u /\ Holds(queue[i].deltas, d)
  \/ Holds(buffered[u], d)

\* The log, the batches chained and the open batch of a turn, one behind the
\* other, hold its deltas in the order they were streamed and none twice.
PiecesInOrder(u) ==
  /\ Ascending(stored[u]) /\ Ascending(buffered[u]) /\ Before(stored[u], buffered[u])
  /\ \A i \in DOMAIN queue :
       queue[i].turn = u =>
         /\ Ascending(queue[i].deltas)
         /\ Before(stored[u], queue[i].deltas)
         /\ Before(queue[i].deltas, buffered[u])
         /\ \A j \in DOMAIN queue :
              i < j /\ queue[j].turn = u => Before(queue[i].deltas, queue[j].deltas)

\* Whatever flushes them (a full batch, the timer, an event, several events
\* awaiting each other's batches), the deltas of a turn reach the log in the
\* order they were streamed and none twice; while no store call has failed and
\* the application has not died under the turn, none is missing either.
DeltasInOrder ==
  \A u \in Turns :
    /\ PiecesInOrder(u)
    /\ faults = 0 /\ life[u] = "running" => \A d \in 1..sent[u] : InPipeline(u, d)

\* "batches assistant deltas and flushes them before the next lifecycle event"
\* (task-event-projector.test.ts:120): once the end of a turn is chained, no
\* delta of it is open or chained behind.
DeltasBeforeEnd ==
  \A i \in DOMAIN queue :
    queue[i].kind \in {"completed", "failed"} =>
      /\ buffered[queue[i].turn] = <<>>
      /\ \A j \in DOMAIN queue :
           j > i => ~(queue[j].kind = "deltas" /\ queue[j].turn = queue[i].turn)

\* Everything received is worked off: no event waits for ever on another's
\* batch.
QueueDrains ==
  []<>(queue = <<>> /\ interrupting = {} /\ \A u \in Turns : buffered[u] = <<>>)

Settled ==
  /\ queue = <<>>
  /\ interrupting = {}
  /\ \A u \in Turns : buffered[u] = <<>> /\ life[u] # "running"

\* "clears stale turn state after a failed turn" (task-event-projector.test.ts:40):
\* when every turn is over and everything received is written, no task is left
\* active.
NoTaskLeftActive == Settled => \A t \in Tasks : task[t].status # "active"
=============================================================================
