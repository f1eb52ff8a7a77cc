---------------------------- MODULE Checkpoints ------------------------------
(***************************************************************************)
(* Checkpoints of a workspace and their undo:                              *)
(* src/main/checkpoints/checkpoint-service.ts, checkpoint-store.ts and     *)
(* checkpoint-object-store.ts. The operations of a workspace are queued,   *)
(* the user edits files at any time, and the application may die.          *)
(***************************************************************************)
EXTENDS Naturals, FiniteSets, SequencesExt

CONSTANTS
  Paths, Contents,
  Turns,            \* turns, each of its own session
  MaxCheckpoints,   \* MAX_CHECKPOINTS
  MaxRequests,      \* bound on the host requests of a turn
  MaxFaults,        \* bound on edits, failed writes and crashes
  NoTurn, Absent

ASSUME CheckpointAssumption ==
  /\ IsFiniteSet(Paths) /\ Absent \notin Contents \cup Paths /\ NoTurn \notin Turns
  /\ {MaxCheckpoints, MaxRequests, MaxFaults} \subseteq Nat

VARIABLES
  files,    \* the workspace
  turn,     \* this.active: its state, its mutations, its requests
  journal,  \* the latest record of each turn, or its absence
  order,    \* turns by creation, the newest first
  objects,  \* the object store
  torn,     \* the journal ends in a partial line
  undoing,  \* the undo in progress
  stuck,    \* (history) files the newest undo could not remove, or not put back
  faults

checkVars == <<files, turn, journal, order, objects, torn, undoing, stuck, faults>>

Disk == [Paths -> Contents \cup {Absent}]
Mutations == [path : Paths, from : Paths \cup {Absent},
              before : Contents \cup {Absent}, after : Contents \cup {Absent}]
NoRecord == [state |-> "none", log |-> <<>>]
NoUndo == [of |-> NoTurn, left |-> <<>>, found |-> [p \in Paths |-> Absent], edited |-> FALSE]

CheckTypeOK ==
  /\ files \in Disk /\ objects \subseteq Contents /\ torn \in BOOLEAN /\ faults \in 0..MaxFaults
  /\ \A t \in Turns :
       /\ turn[t].at \in {"new", "active", "over"} /\ turn[t].log \in Seq(Mutations)
       /\ turn[t].requests \in 0..MaxRequests
       /\ journal[t].state \in {"none", "active", "ready", "undone", "conflict", "failed"}
       /\ journal[t].log \in Seq(Mutations)
  /\ order \in Seq(Turns) /\ undoing.of \in Turns \cup {NoTurn} /\ stuck \subseteq Paths

CheckInit ==
  /\ files \in {[p \in Paths |-> c] : c \in Contents} /\ objects = {} /\ torn = FALSE /\ faults = 0
  /\ turn = [t \in Turns |-> [at |-> "new", log |-> <<>>, requests |-> 0]]
  /\ journal = [t \in Turns |-> NoRecord] /\ order = <<>> /\ undoing = NoUndo
  /\ stuck = {}

Free == undoing.of = NoTurn
Fault == faults < MaxFaults /\ faults' = faults + 1

Hashes(log) == (UNION {{m.before, m.after} : m \in ToSet(log)}) \ {Absent}

\* append: a partial last line swallows the record that follows it.
Append1(t, state, log) ==
  /\ journal' = IF torn THEN journal ELSE [journal EXCEPT ![t] = [state |-> state, log |-> log]]
  /\ torn' = FALSE

\* gc(): active records and the newest of the others stay, with their objects.
Retained(records) ==
  {t \in Turns : \/ records[t].state = "active"
                 \/ /\ records[t].state # "none"
                    /\ Len(SelectSeq(order, LAMBDA u : records[u].state \notin {"none", "active"})) > 0
                    /\ \E i \in DOMAIN order :
                         /\ order[i] = t
                         /\ Len(SelectSeq(SubSeq(order, 1, i), LAMBDA u : records[u].state \notin {"none", "active"}))
                              <= MaxCheckpoints}
Kept(records) == UNION {Hashes(records[t].log) : t \in Retained(records)}

\* turn.started
StartTurn(t) ==
  /\ Free /\ turn[t].at = "new"
  /\ turn' = [turn EXCEPT ![t].at = "active"]
  /\ order' = <<t>> \o order
  /\ UNCHANGED <<files, journal, objects, torn, undoing, stuck, faults>>

\* buildMutations: a path that went and one that came with its content are a
\* rename, which is listed first.
Renames(old, new) ==
  {m \in Mutations : /\ m.from # Absent /\ m.from # m.path
                     /\ old[m.from] = m.before /\ new[m.path] = m.after /\ m.before = m.after
                     /\ m.before # Absent /\ new[m.from] = Absent /\ old[m.path] = Absent}
BuildMutations(old, new) ==
  LET renamed == IF Renames(old, new) = {} THEN {} ELSE {CHOOSE m \in Renames(old, new) : TRUE}
      rest == {p \in Paths : old[p] # new[p] /\ \A m \in renamed : p \notin {m.path, m.from}}
  IN SetToSeq(renamed) \o SetToSeq({[path |-> p, from |-> Absent, before |-> old[p], after |-> new[p]] : p \in rest})

\* withHostRequest: the operation runs between two scans; what it changed is
\* recorded, unless a scan fails, and journaled, unless that fails.
HostRequest(t) ==
  /\ Free /\ turn[t].at = "active" /\ turn[t].requests < MaxRequests
  /\ files' \in Disk /\ files' # files
  /\ LET batch == BuildMutations(files, files')
         log == turn[t].log \o batch
     IN \/ /\ turn' = [turn EXCEPT ![t].log = log, ![t].requests = @ + 1]
           /\ objects' = objects \cup Hashes(batch)
           /\ \/ Append1(t, "active", log) /\ UNCHANGED faults
              \/ Fault /\ UNCHANGED <<journal, torn>>
        \/ /\ Fault /\ turn' = [turn EXCEPT ![t].requests = @ + 1]
           /\ UNCHANGED <<objects, journal, torn>>
  /\ UNCHANGED <<order, undoing, stuck>>

\* The end of a turn: its record is ready, the journal is compacted, and what
\* the store has no room for is dropped.
Settled2(records) ==
  /\ journal' = [t \in Turns |-> IF t \in Retained(records) THEN records[t] ELSE NoRecord]
  /\ objects' = objects \cap Kept(records)
  /\ torn' = FALSE

EndTurn(t) ==
  /\ Free /\ turn[t].at = "active"
  /\ turn' = [turn EXCEPT ![t].at = "over"]
  /\ Settled2(IF turn[t].log = <<>> \/ torn THEN journal
              ELSE [journal EXCEPT ![t] = [state |-> "ready", log |-> turn[t].log]])
  /\ UNCHANGED <<files, order, undoing, stuck, faults>>

\* The content a path must have for the undo to begin.
Expected(log, p) ==
  LET last == CHOOSE i \in DOMAIN log : /\ p \in {log[i].path, log[i].from}
                                        /\ \A j \in i + 1..Len(log) : p \notin {log[j].path, log[j].from}
  IN IF log[last].from = p THEN Absent ELSE log[last].after
Touched(log) == (UNION {{m.path, m.from} : m \in ToSet(log)}) \ {Absent}

\* undo(): a file that is not as the turn left it is a conflict; else the
\* recovery record is appended (torn lines swallow it) and the files follow.
BeginUndo(t) ==
  LET log == journal[t].log IN
  /\ Free /\ journal[t].state = "ready"
  /\ IF \E p \in Touched(log) : files[p] # Expected(log, p)
     THEN Append1(t, "conflict", log) /\ UNCHANGED <<undoing, stuck>>
     ELSE /\ undoing' = [of |-> t, left |-> Reverse(log), found |-> files, edited |-> FALSE]
          /\ stuck' = {} /\ torn' = FALSE /\ UNCHANGED journal
  /\ UNCHANGED <<files, turn, order, objects, faults>>

\* verifyCurrentBeforeRestore, and an object that is still there.
Restorable(m) ==
  /\ files[m.path] = m.after
  /\ m.from # Absent => files[m.from] = Absent
  /\ m.before # Absent => m.before \in objects

\* The file is written, or removed; one that cannot be removed stays, and the
\* undo goes on.
RestoreMutation ==
  /\ ~Free /\ undoing.left # <<>>
  /\ LET m == Head(undoing.left) IN
     /\ Restorable(m)
     /\ \/ /\ files' = IF m.from = Absent THEN [files EXCEPT ![m.path] = m.before]
                       ELSE [files EXCEPT ![m.path] = Absent, ![m.from] = m.before]
           /\ UNCHANGED <<stuck, faults>>
        \/ /\ Fault /\ (m.from # Absent \/ m.before = Absent)
           /\ files' = IF m.from = Absent THEN files ELSE [files EXCEPT ![m.from] = m.before]
           /\ stuck' = stuck \cup {m.path}
  /\ undoing' = [undoing EXCEPT !.left = Tail(@)]
  /\ UNCHANGED <<turn, journal, order, objects, torn>>

FinishUndo ==
  LET t == undoing.of IN
  /\ ~Free /\ undoing.left = <<>>
  /\ Settled2([journal EXCEPT ![t].state = "undone"])
  /\ undoing' = NoUndo
  /\ UNCHANGED <<files, turn, order, stuck, faults>>

\* Faulty variant of RestoreRecovery: what was undone so far stays undone.
RestoreNothing(found, log) == files

\* restoreRecovery writes what the undo had found.
RestoreRecovery(found, log) == [p \in Paths |-> IF p \in Touched(log) THEN found[p] ELSE files[p]]

\* It leaves out the files `lost`, of which it has removed those in `gone`.
RecoveredBut(lost, gone, found, log) ==
  [p \in Paths |-> IF p \notin lost THEN RestoreRecovery(found, log)[p]
                   ELSE IF p \in gone THEN Absent ELSE files[p]]

\* A mutation that cannot be restored, or a write that fails: of a file, of the
\* journal or of the store after the last file. The recovery may then fail as
\* well, which is only logged, and so may the append of its record.
FailUndo ==
  LET t == undoing.of
      log == journal[t].log
  IN
  /\ ~Free
  /\ \/ /\ undoing.left # <<>> /\ ~Restorable(Head(undoing.left))
        /\ files' = RestoreRecovery(undoing.found, log) /\ stuck' = {}
        /\ Append1(t, "failed", log) /\ UNCHANGED <<objects, faults>>
     \/ /\ Fault
        /\ \E lost \in SUBSET Touched(log) : \E gone \in SUBSET lost :
             files' = RecoveredBut(lost, gone, undoing.found, log) /\ stuck' = lost
        /\ \/ Append1(t, "failed", log)
           \/ undoing.left = <<>> /\ Append1(t, "undone", log)
           \/ UNCHANGED <<journal, torn>>
        /\ \/ UNCHANGED objects
           \/ undoing.left = <<>> /\ objects' = objects \cap Kept(journal)
  /\ undoing' = NoUndo
  /\ UNCHANGED <<turn, order>>

\* The user edits a file.
UserEdit ==
  /\ Fault
  /\ \E p \in Paths, c \in Contents \cup {Absent} :
       c # files[p] /\ files' = [files EXCEPT ![p] = c]
  /\ undoing' = [undoing EXCEPT !.edited = ~Free]
  /\ UNCHANGED <<turn, journal, order, objects, torn, stuck>>

\* The application dies: inside an append, inside gc(), or elsewhere.
CrashCheckpoints ==
  /\ Fault
  /\ turn' = [t \in Turns |-> IF turn[t].at = "active" THEN [turn[t] EXCEPT !.at = "over"] ELSE turn[t]]
  /\ undoing' = NoUndo
  /\ torn' \in BOOLEAN
  /\ objects' \in {objects, objects \cap Kept(journal)}
  /\ UNCHANGED <<files, journal, order, stuck>>

CheckNext ==
  \/ \E t \in Turns : StartTurn(t) \/ HostRequest(t) \/ EndTurn(t) \/ BeginUndo(t)
  \/ RestoreMutation \/ FinishUndo \/ FailUndo \/ UserEdit \/ CrashCheckpoints

CheckSpec == CheckInit /\ [][CheckNext]_checkVars

-----------------------------------------------------------------------------
\* What a path held before a turn, as far as its mutations were recorded.
BeforeTurn(log, p) ==
  LET first == CHOOSE i \in DOMAIN log : /\ p \in {log[i].path, log[i].from}
                                         /\ \A j \in 1..i - 1 : p \notin {log[j].path, log[j].from}
  IN IF log[first].from = p \/ log[first].from = Absent THEN log[first].before ELSE Absent

\* An undo is all or nothing, whatever was recorded, edited, dropped or torn
\* before it: when it succeeds every file of the turn is as before the turn,
\* when it fails they are as it found them, and no other file has changed. (An
\* edit made while it runs, and a crash inside it, are excepted; and so are the
\* files of the turn that the system does not let it remove, or write back when
\* it has failed: the code tells nobody that these are not restored.)
UndoAllOrNothing ==
  [][~Free /\ undoing'.of = NoTurn /\ ~undoing.edited /\ ~CrashCheckpoints =>
       LET log == journal[undoing.of].log IN
       \A p \in Paths \ (stuck' \cap Touched(log)) :
         files'[p] = IF FinishUndo /\ p \in Touched(log) THEN BeforeTurn(log, p)
                     ELSE undoing.found[p]]_checkVars
=============================================================================
