---------------------------- MODULE ActivityLog ----------------------------
(***************************************************************************)
(* ActivityLogStore (src/main/persistence/activity-log-store.ts): the      *)
(* activities of all tasks as an append-only file of numbered records,     *)
(* compacted into a snapshot, and the application dying at any point.      *)
(*                                                                         *)
(* An activity list is abstracted to the changes it results from.  Only    *)
(* the first record of a file can be a snapshot, so a file is a snapshot   *)
(* (empty, numbered 0, when there is none), the records after it and       *)
(* perhaps the beginning of one more.  Operations are chained: one call at *)
(* a time; read() waits for the chain, but works outside it.               *)
(***************************************************************************)
EXTENDS Naturals, SequencesExt

CONSTANTS
  Segments,    \* segments of assistant responses
  MaxCalls,    \* bound: operations
  BatchSize,   \* bound: deltas of a batch
  CompactAt,   \* compactionOperations; the byte limit acts alike
  Failing,     \* operations whose writes may fail and leave the file as it was
  Overlap      \* whether a read may replay what an operation has left behind

ASSUME LogAssumption ==
  /\ MaxCalls \in Nat /\ BatchSize \in Nat \ {0} /\ CompactAt \in Nat \ {0}
  /\ Failing \subseteq {"append", "deltas", "complete", "replace"}
  /\ Overlap \in BOOLEAN

VARIABLES
  file,     \* what is on disk
  memory,   \* the fields of the store
  call,     \* the operation at the head of the chain
  reading,  \* the file contents a read() has got and not replayed yet
  calls,    \* operations begun so far
  acked     \* changes whose operations have returned

logVars == <<file, memory, call, reading, calls, acked>>

\* append: a new activity.  delta, completed: a change to the latest activity
\* of the segment.  replace: a final response that stands for the streamed one.
Kinds == {"append", "delta", "completed", "replace"}
Changes == [by : 1..MaxCalls, part : 1..BatchSize, kind : Kinds, segment : Segments]
Records == [sequence : Nat, change : Changes]
Files == [snapshot : Seq(Changes), at : Nat, records : Seq(Records), torn : BOOLEAN]

Operations == {"append", "deltas", "complete", "replace"}

\* begun     chained, to load if need be and to compact
\* ready     about to write
\* written   the file has changed, the caller does not know yet
CallStates ==
  [stage : {"idle", "begun", "ready", "written"}, operation : Operations,
   segment : Segments, parts : 1..BatchSize, changes : Seq(Changes)]

LogTypeOK ==
  /\ file \in Files
  /\ memory \in [loaded : BOOLEAN, sequence : Nat, cached : BOOLEAN,
                 cache : Seq(Changes), operations : Nat]
  /\ call \in CallStates
  /\ reading \in [under : BOOLEAN, raw : Files]
  /\ calls \in 0..MaxCalls
  /\ acked \subseteq Changes

NoFile == [snapshot |-> <<>>, at |-> 0, records |-> <<>>, torn |-> FALSE]
NotLoaded ==
  [loaded |-> FALSE, sequence |-> 0, cached |-> FALSE, cache |-> <<>>,
   operations |-> 0]
NotReading == [under |-> FALSE, raw |-> NoFile]
Idle(c) == [c EXCEPT !.stage = "idle", !.parts = 1, !.changes = <<>>]

LogInit ==
  /\ file = NoFile
  /\ memory = NotLoaded
  /\ \E s \in Segments :
       call = [stage |-> "idle", operation |-> "append", segment |-> s,
               parts |-> 1, changes |-> <<>>]
  /\ reading = NotReading
  /\ calls = 0
  /\ acked = {}

-----------------------------------------------------------------------------
Contents(f) == f.snapshot \o [i \in DOMAIN f.records |-> f.records[i].change]

LastSequence(f) ==
  IF f.records = <<>> THEN f.at ELSE f.records[Len(f.records)].sequence

\* The activity a delta or a completion changes.
Has(changes, s) ==
  \E i \in DOMAIN changes : changes[i].segment = s /\ changes[i].kind # "completed"

\* replayMetadata() succeeds: the numbers increase strictly.
InOrder(f) ==
  \A i \in DOMAIN f.records :
    f.records[i].sequence > (IF i = 1 THEN f.at ELSE f.records[i - 1].sequence)

\* replay() succeeds: besides, every change finds its activity.
Replayable(f) ==
  /\ InOrder(f)
  /\ \A i \in DOMAIN f.records :
       f.records[i].change.kind \in {"delta", "completed"} =>
         Has(SubSeq(Contents(f), 1, Len(f.snapshot) + i - 1),
             f.records[i].change.segment)

\* The fields after a replay of f.
Replayed(f) ==
  [loaded |-> TRUE, sequence |-> LastSequence(f), cached |-> TRUE,
   cache |-> Contents(f), operations |-> Len(f.records)]

\* The fields after a readAll() inside the chain.
AfterReadAll == IF memory.cached THEN memory ELSE Replayed(file)
CanReadAll == memory.cached \/ Replayable(file)

\* What writeSnapshot writes, a readAll() having preceded it.
Snapshot(changes) ==
  [snapshot |-> changes, at |-> AfterReadAll.sequence, records |-> <<>>,
   torn |-> FALSE]

-----------------------------------------------------------------------------
(* The operations *)

Begin(operation, s, n) ==
  /\ call.stage = "idle"
  /\ calls < MaxCalls
  /\ n > 1 => operation = "deltas"
  /\ calls' = calls + 1
  /\ call' = [stage |-> "begun", operation |-> operation, segment |-> s,
              parts |-> n, changes |-> <<>>]
  /\ UNCHANGED <<file, memory, reading, acked>>

\* Faulty variant of Load: what a crash left at the end stays there.
LoadUnrepaired ==
  /\ ~memory.loaded
  /\ InOrder(file)
  /\ memory' = [Replayed(file) EXCEPT !.cached = FALSE, !.cache = <<>>]
  /\ UNCHANGED <<file, call, reading, calls, acked>>

\* ensureLoaded, for the first operation or read: the beginning of a record at
\* the end is cut off.
Load ==
  /\ ~memory.loaded
  /\ InOrder(file)
  /\ file' = [file EXCEPT !.torn = FALSE]
  /\ memory' = [Replayed(file) EXCEPT !.cached = FALSE, !.cache = <<>>]
  /\ UNCHANGED <<call, reading, calls, acked>>

NeedsCompaction == memory.operations >= CompactAt

\* Faulty variant of Compact: the cached list is written without a readAll().
CompactUnread ==
  /\ call.stage = "begun"
  /\ memory.loaded
  /\ \/ /\ call.operation # "replace"
        /\ NeedsCompaction
        /\ file' = Snapshot(memory.cache)
        /\ memory' = [memory EXCEPT !.operations = 0]
     \/ /\ call.operation = "replace" \/ ~NeedsCompaction
        /\ UNCHANGED <<file, memory>>
  /\ call' = [call EXCEPT !.stage = "ready"]
  /\ UNCHANGED <<reading, calls, acked>>

\* compactIfNeeded(), which replaceAssistantResponse does not call.
Compact ==
  /\ call.stage = "begun"
  /\ memory.loaded
  /\ \/ /\ call.operation # "replace"
        /\ NeedsCompaction
        /\ CanReadAll
        /\ file' = Snapshot(AfterReadAll.cache)
        /\ memory' = [AfterReadAll EXCEPT !.operations = 0]
     \/ /\ call.operation = "replace" \/ ~NeedsCompaction
        /\ UNCHANGED <<file, memory>>
  /\ call' = [call EXCEPT !.stage = "ready"]
  /\ UNCHANGED <<reading, calls, acked>>

\* The snapshot cannot be written or renamed: the operation is given up.
CompactionFails ==
  /\ call.stage = "begun"
  /\ memory.loaded
  /\ call.operation \in Failing \ {"replace"}
  /\ NeedsCompaction
  /\ CanReadAll
  /\ memory' = AfterReadAll
  /\ call' = Idle(call)
  /\ UNCHANGED <<file, reading, calls, acked>>

\* Faulty variant of Change: the parts of a batch are counted from zero.
ChangeFromZero(part, kind) ==
  [by |-> calls, part |-> part - 1, kind |-> kind, segment |-> call.segment]

Change(part, kind) ==
  [by |-> calls, part |-> part, kind |-> kind, segment |-> call.segment]

\* The segments a completion may change: one, those of a turn, or none when
\* they are completed already.
Completing(known) ==
  {q \in SeqOf(Segments, BatchSize) :
     IsInjective(q) /\ \A i \in DOMAIN q : Has(known, q[i])}

\* What the operation may record, known being the activities it looks at.  The
\* first delta of a segment is recorded as a new activity.
ChangeLists(known) ==
  CASE call.operation \in {"append", "replace"} -> {<<Change(1, call.operation)>>}
    [] call.operation = "deltas" ->
         {[i \in 1..call.parts |->
             Change(i, IF i = 1 /\ ~Has(known, call.segment) THEN "append" ELSE "delta")]}
    [] call.operation = "complete" ->
         {[i \in DOMAIN q |-> [Change(i, "completed") EXCEPT !.segment = q[i]]] :
            q \in Completing(known)}

Numbered(changes, from) ==
  [i \in DOMAIN changes |-> [sequence |-> from + i, change |-> changes[i]]]

Looks == call.operation # "append"
Seen == IF Looks THEN AfterReadAll ELSE memory

\* The write reaches the file.  A list of activities that is changed in place
\* is changed before.
InPlace(changes) ==
  IF call.operation \in {"deltas", "complete"}
  THEN [Seen EXCEPT !.cache = @ \o changes] ELSE Seen

Write ==
  /\ call.stage = "ready"
  /\ Looks => CanReadAll
  /\ \E changes \in ChangeLists(Seen.cache) :
       /\ call' = [call EXCEPT !.stage = "written", !.changes = changes]
       /\ memory' = InPlace(changes)
       /\ file' = IF call.operation = "replace"
                  THEN Snapshot(Seen.cache \o changes)
                  ELSE [file EXCEPT !.records = @ \o Numbered(changes, Seen.sequence)]
  /\ UNCHANGED <<reading, calls, acked>>

\* The write fails and leaves the file as it was; the caller is told.
WriteFails ==
  /\ call.stage = "ready"
  /\ call.operation \in Failing
  /\ Looks => CanReadAll
  /\ \E changes \in ChangeLists(Seen.cache) : memory' = InPlace(changes)
  /\ call' = Idle(call)
  /\ UNCHANGED <<file, reading, calls, acked>>

\* Faulty variant of Acknowledge: the number of the last record is not kept.
AcknowledgeUnnumbered ==
  /\ call.stage = "written"
  /\ acked' = acked \cup {call.changes[i] : i \in DOMAIN call.changes}
  /\ memory' = [memory EXCEPT !.cached = FALSE, !.cache = <<>>,
                              !.operations = @ + Len(call.changes)]
  /\ call' = Idle(call)
  /\ UNCHANGED <<file, reading, calls>>

\* The write is done: the fields follow, and the caller is told.
Acknowledge ==
  /\ call.stage = "written"
  /\ acked' = acked \cup {call.changes[i] : i \in DOMAIN call.changes}
  /\ memory' =
       IF call.operation = "replace"
       THEN [memory EXCEPT !.cached = TRUE, !.cache = @ \o call.changes,
                           !.operations = 0]
       ELSE IF call.changes = <<>> THEN memory
       ELSE [memory EXCEPT !.cached = FALSE, !.cache = <<>>,
                           !.sequence = LastSequence(file),
                           !.operations = @ + Len(call.changes)]
  /\ call' = Idle(call)
  /\ UNCHANGED <<file, reading, calls>>

-----------------------------------------------------------------------------
(* read() *)

\* The chain has been waited for; without a cached list the file is read.
ReadFile ==
  /\ memory.loaded
  /\ ~memory.cached
  /\ ~reading.under
  /\ call.stage = "idle"
  /\ reading' = [under |-> TRUE, raw |-> file]
  /\ UNCHANGED <<file, memory, call, calls, acked>>

\* An operation that began meanwhile has written.
Stale == reading.raw # file \/ call.stage = "written"

\* The contents are replayed into the fields of the store.
Replay ==
  /\ reading.under
  /\ Overlap \/ ~Stale
  /\ memory' = IF Replayable(reading.raw) THEN Replayed(reading.raw) ELSE memory
  /\ reading' = NotReading
  /\ UNCHANGED <<file, call, calls, acked>>

-----------------------------------------------------------------------------
\* The application dies.  A write under way may have reached the file in part,
\* cut off inside a record; a snapshot is written aside and renamed.
Crash ==
  /\ memory.loaded
  /\ \/ UNCHANGED file
     \/ /\ call.stage = "ready"
        /\ call.operation # "replace"
        /\ Looks => CanReadAll
        /\ \E changes \in ChangeLists(Seen.cache) : \E n \in 0..(Len(changes) - 1) :
             file' = [file EXCEPT
                        !.records = @ \o SubSeq(Numbered(changes, Seen.sequence), 1, n),
                        !.torn = TRUE]
  /\ memory' = NotLoaded
  /\ call' = Idle(call)
  /\ reading' = NotReading
  /\ UNCHANGED <<calls, acked>>

LogNext ==
  \/ \E o \in Operations, s \in Segments, n \in 1..BatchSize : Begin(o, s, n)
  \/ Load
  \/ Compact
  \/ CompactionFails
  \/ Write
  \/ WriteFails
  \/ Acknowledge
  \/ ReadFile
  \/ Replay
  \/ Crash

LogSpec == LogInit /\ [][LogNext]_logVars

\* The two things the log does not stand: a read that replays what an operation
\* has left behind, and a batch or completion whose write fails after the list
\* of activities was changed in place.
StaleReplay == Replay /\ Stale
BatchFails == WriteFails /\ call.operation \in {"deltas", "complete"}
Undisturbed == [][~StaleReplay /\ ~BatchFails]_logVars

-----------------------------------------------------------------------------
\* The file can always be replayed but for the beginning of a record at its
\* end, and nothing is ever written behind one: otherwise no read and no
\* further start of the application succeeds.
LogReplayable == Replayable(file) /\ (memory.loaded => ~file.torn)

\* Between two operations the fields describe the file: the next number is
\* free, compaction will come in time, and a cached list is the one on disk.
FieldsAgree ==
  memory.loaded /\ call.stage = "idle" =>
    /\ memory.sequence = LastSequence(file)
    /\ memory.operations = Len(file.records)
    /\ memory.cached => memory.cache = Contents(file)

\* Appends, compaction, replacements, repairs and crashes together never lose,
\* reorder or alter what a caller was told is recorded: the log implements the
\* history.
History == INSTANCE ActivityHistory WITH
  history <- Contents(file),
  acknowledged <- acked

HistoryRefined == History!HistorySpec

\* "serializes concurrent appends without losing records"
\* (activity-log-store.test.ts:79): whatever overlaps them, the appends of a
\* running application leave a log that has them all and can be replayed.
AppendsSurviveReads ==
  /\ Replayable(file)
  /\ acked \subseteq {Contents(file)[i] : i \in DOMAIN Contents(file)}
=============================================================================
