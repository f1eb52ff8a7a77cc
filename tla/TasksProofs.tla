---------------------------- MODULE TasksProofs -----------------------------
(***************************************************************************)
(* Proofs about ActivityLog: its types, that the file can always be        *)
(* replayed, that the fields of the store describe it, and that the log    *)
(* implements the history of ActivityHistory.                              *)
(*                                                                         *)
(* None is inductive alone.  That appended numbers increase needs the      *)
(* field to hold the last number of the file, also half way through an     *)
(* operation, where the file is ahead of the fields by just what the       *)
(* operation adds; that a delta finds its activity needs the list the      *)
(* operation looked at to be the contents of the file.  Two steps of the   *)
(* store break this, and the theorems are about behaviours without them: a *)
(* read that replays what an operation has left behind, and a batch whose  *)
(* write fails after the list of activities was changed in place.          *)
(*                                                                         *)
(* Proofs about TurnClaims: why a task runs one turn at a time, for any    *)
(* set of tasks and of callers. No operation of the coordinator asks which *)
(* turn it releases a claim for except release(): the argument is that     *)
(* while a turn is under way it owns the claim, so that the events and     *)
(* exits that release one can only be its own.  Remote control never       *)
(* checks that it still owns its claim; that it does follows from its      *)
(* claims being unbound.                                                   *)
(***************************************************************************)
EXTENDS ActivityLog, TurnClaims, SequenceTheorems, TLAPS

-----------------------------------------------------------------------------
(* The activity log *)

\* An operation has been counted before it records anything.
LogTyped ==
  /\ LogTypeOK
  /\ call.stage # "idle" => calls \in 1..MaxCalls

\* The fields describe the file, or, when the write of an operation has reached
\* it, the file of before and what the operation adds.
FieldsFollow ==
  memory.loaded =>
    IF call.stage # "written"
    THEN /\ memory.sequence = LastSequence(file)
         /\ memory.operations = Len(file.records)
         /\ memory.cached => memory.cache = Contents(file)
    ELSE IF call.operation = "replace"
    THEN /\ memory.cached
         /\ file = [snapshot |-> memory.cache \o call.changes, at |-> memory.sequence,
                    records |-> <<>>, torn |-> FALSE]
    ELSE /\ LastSequence(file) = memory.sequence + Len(call.changes)
         /\ Len(file.records) = memory.operations + Len(call.changes)
         /\ call.changes = <<>> /\ memory.cached => memory.cache = Contents(file)

\* Nothing is written and no read is under way before the file has been loaded.
StoreInOrder ==
  /\ call.stage \in {"ready", "written"} => memory.loaded
  /\ reading.under => memory.loaded

\* What was acknowledged, or is about to be, is in the log.
AckedRecorded ==
  LET recorded == {Contents(file)[i] : i \in DOMAIN Contents(file)} IN
    /\ acked \subseteq recorded
    /\ call.stage = "written" =>
         {call.changes[i] : i \in DOMAIN call.changes} \subseteq recorded

LogInv ==
  /\ LogTyped
  /\ LogReplayable
  /\ FieldsFollow
  /\ StoreInOrder
  /\ AckedRecorded

\* Every delta and completion of a batch finds its activity, in the history or
\* earlier in the batch.
Finds(new, known) ==
  \A i \in DOMAIN new :
    new[i].kind \in {"delta", "completed"} =>
      \/ Has(known, new[i].segment)
      \/ \E j \in 1..(i - 1) : new[j].segment = new[i].segment /\ new[j].kind # "completed"

-----------------------------------------------------------------------------
\* A list with one change per element of another.
LEMMA SeqOfFunction ==
  ASSUME NEW S, NEW n \in Nat, NEW f, f \in [1..n -> S]
  PROVE  f \in Seq(S) /\ Len(f) = n /\ DOMAIN f = 1..n
OBVIOUS

\* An index into two lists, one behind the other, is one into the first or lies
\* behind the first.
LEMMA IndexOfTwo ==
  ASSUME NEW k \in Nat, NEW m \in Nat, NEW i \in 1..(k + m)
  PROVE  i \in 1..k \/ \E j \in 1..m : i = k + j
<1>1. CASE i <= k
  BY <1>1
<1>2. CASE i > k
  <2>1. i - k \in 1..m /\ i = k + (i - k)
    BY <1>2
  <2> QED BY <2>1
<1> QED BY <1>1, <1>2

\* The elements of two lists, one behind the other.
LEMMA ConcatElements ==
  ASSUME NEW S, NEW s \in Seq(S), NEW t \in Seq(S)
  PROVE  /\ s \o t \in Seq(S) /\ Len(s \o t) = Len(s) + Len(t)
         /\ Len(s) \in Nat /\ Len(t) \in Nat /\ Len(s) + Len(t) \in Nat
         /\ DOMAIN (s \o t) = 1..(Len(s) + Len(t))
         /\ \A i \in 1..Len(s) : (s \o t)[i] = s[i]
         /\ \A i \in 1..Len(t) : (s \o t)[Len(s) + i] = t[i]
<1>1. /\ s \o t \in Seq(S) /\ Len(s \o t) = Len(s) + Len(t)
      /\ Len(s) \in Nat /\ Len(t) \in Nat
      /\ \A i \in 1..(Len(s) + Len(t)) :
           (s \o t)[i] = IF i <= Len(s) THEN s[i] ELSE t[i - Len(s)]
  BY ConcatProperties
<1>2. \A k, m \in Nat : \A i \in 1..m :
        k + i \in 1..(k + m) /\ ~(k + i <= k) /\ (k + i) - k = i
  OBVIOUS
<1>3. \A k, m \in Nat : \A i \in 1..k : i \in 1..(k + m) /\ i <= k
  OBVIOUS
<1>4. ASSUME NEW i \in 1..Len(t) PROVE (s \o t)[Len(s) + i] = t[i]
  BY <1>1, <1>2
<1>5. ASSUME NEW i \in 1..Len(s) PROVE (s \o t)[i] = s[i]
  BY <1>1, <1>3
<1> QED BY <1>1, <1>4, <1>5

\* A list with the elements of two others, one behind the other, is the two.
LEMMA IsConcat ==
  ASSUME NEW S, NEW s \in Seq(S), NEW t \in Seq(S), NEW u \in Seq(S),
         Len(u) = Len(s) + Len(t),
         \A i \in 1..Len(s) : u[i] = s[i],
         \A i \in 1..Len(t) : u[Len(s) + i] = t[i]
  PROVE  u = s \o t
<1>1. /\ s \o t \in Seq(S) /\ Len(s \o t) = Len(s) + Len(t)
      /\ Len(s) \in Nat /\ Len(t) \in Nat
      /\ \A i \in 1..Len(s) : (s \o t)[i] = s[i]
      /\ \A i \in 1..Len(t) : (s \o t)[Len(s) + i] = t[i]
  BY ConcatElements
<1>2. ASSUME NEW i \in 1..(Len(s) + Len(t)) PROVE u[i] = (s \o t)[i]
  <2>1. i \in 1..Len(s) \/ \E j \in 1..Len(t) : i = Len(s) + j
    BY <1>1, IndexOfTwo
  <2> QED BY <1>1, <2>1
<1> QED BY <1>1, <1>2, SeqEqual

\* The changes of a list of records.
ChangesOf(records) == [i \in DOMAIN records |-> records[i].change]

\* There is one for each record.
LEMMA ChangesOfRecords ==
  ASSUME NEW r \in Seq(Records)
  PROVE  /\ ChangesOf(r) \in Seq(Changes) /\ Len(ChangesOf(r)) = Len(r)
         /\ \A i \in 1..Len(r) : ChangesOf(r)[i] = r[i].change
<1>1. Len(r) \in Nat /\ DOMAIN r = 1..Len(r) /\ \A i \in 1..Len(r) : r[i] \in Records
  OBVIOUS
<1>2. ChangesOf(r) \in [1..Len(r) -> Changes]
  BY <1>1 DEF ChangesOf, Records
<1>3. ChangesOf(r) \in Seq(Changes) /\ Len(ChangesOf(r)) = Len(r)
  BY <1>1, <1>2, SeqOfFunction
<1> QED BY <1>1, <1>3 DEF ChangesOf

\* Concatenation is associative, of lists of changes.
LEMMA ChangesAssociative ==
  \A s, t, u \in Seq(Changes) : s \o (t \o u) = (s \o t) \o u
BY ConcatAssociative

\* Contents: the snapshot, then the changes of the records.
LEMMA ContentsOf ==
  ASSUME NEW f \in Files
  PROVE  /\ Contents(f) = f.snapshot \o ChangesOf(f.records)
         /\ Contents(f) \in Seq(Changes)
         /\ Len(Contents(f)) = Len(f.snapshot) + Len(f.records)
         /\ Len(f.snapshot) \in Nat /\ Len(f.records) \in Nat
         /\ f.snapshot \in Seq(Changes) /\ f.records \in Seq(Records)
<1>1. f.snapshot \in Seq(Changes) /\ f.records \in Seq(Records)
  BY DEF Files
<1>2. ChangesOf(f.records) \in Seq(Changes) /\ Len(ChangesOf(f.records)) = Len(f.records)
  BY <1>1, ChangesOfRecords
<1>3. Contents(f) = f.snapshot \o ChangesOf(f.records)
  BY DEF Contents, ChangesOf
<1>4. /\ f.snapshot \o ChangesOf(f.records) \in Seq(Changes)
      /\ Len(f.snapshot \o ChangesOf(f.records)) =
           Len(f.snapshot) + Len(ChangesOf(f.records))
      /\ Len(f.snapshot) \in Nat /\ Len(f.records) \in Nat
  BY <1>1, <1>2, ConcatElements
<1> QED BY <1>1, <1>2, <1>3, <1>4

\* Has, of the beginning of a list.
LEMMA HasInPrefix ==
  ASSUME NEW c \in Seq(Changes), NEW n \in 0..Len(c), NEW s
  PROVE  Has(SubSeq(c, 1, n), s) <=>
           \E i \in 1..n : c[i].segment = s /\ c[i].kind # "completed"
<1>1. /\ SubSeq(c, 1, n) \in Seq(Changes) /\ Len(SubSeq(c, 1, n)) = n
      /\ \A i \in 1..n : SubSeq(c, 1, n)[i] = c[i]
  OBVIOUS
<1>2. DOMAIN SubSeq(c, 1, n) = 1..n
  BY <1>1
<1> QED BY <1>1, <1>2 DEF Has

\* Numbered: as many records, numbered one by one.
LEMMA NumberedOf ==
  ASSUME NEW new \in Seq(Changes), NEW from \in Nat
  PROVE  /\ Numbered(new, from) \in Seq(Records)
         /\ Len(Numbered(new, from)) = Len(new)
         /\ \A i \in 1..Len(new) : /\ Numbered(new, from)[i].sequence = from + i
                                   /\ Numbered(new, from)[i].change = new[i]
<1>1. Len(new) \in Nat /\ DOMAIN new = 1..Len(new) /\ \A i \in 1..Len(new) : new[i] \in Changes
  OBVIOUS
<1>2. Numbered(new, from) \in [1..Len(new) -> Records]
  BY <1>1 DEF Numbered, Records
<1>3. Numbered(new, from) \in Seq(Records) /\ Len(Numbered(new, from)) = Len(new)
  BY <1>1, <1>2, SeqOfFunction
<1> QED BY <1>1, <1>3 DEF Numbered

\* The beginning of a numbered batch is the numbered beginning of the batch.
LEMMA NumberedPrefix ==
  ASSUME NEW new \in Seq(Changes), NEW from \in Nat, NEW n \in 0..Len(new)
  PROVE  /\ SubSeq(new, 1, n) \in Seq(Changes) /\ Len(SubSeq(new, 1, n)) = n
         /\ SubSeq(Numbered(new, from), 1, n) = Numbered(SubSeq(new, 1, n), from)
<1>1. /\ SubSeq(new, 1, n) \in Seq(Changes) /\ Len(SubSeq(new, 1, n)) = n
      /\ \A i \in 1..n : SubSeq(new, 1, n)[i] = new[i]
  OBVIOUS
<1>2. /\ Numbered(new, from) \in Seq(Records) /\ Len(Numbered(new, from)) = Len(new)
  BY NumberedOf
<1>3. /\ SubSeq(Numbered(new, from), 1, n) \in Seq(Records)
      /\ Len(SubSeq(Numbered(new, from), 1, n)) = n
      /\ \A i \in 1..n : SubSeq(Numbered(new, from), 1, n)[i] = Numbered(new, from)[i]
  BY <1>2
<1>4. /\ Numbered(SubSeq(new, 1, n), from) \in Seq(Records)
      /\ Len(Numbered(SubSeq(new, 1, n), from)) = n
  BY <1>1, NumberedOf
<1>5. \A i \in 1..n : Numbered(SubSeq(new, 1, n), from)[i] = Numbered(new, from)[i]
  BY <1>1 DEF Numbered
<1>6. SubSeq(Numbered(new, from), 1, n) = Numbered(SubSeq(new, 1, n), from)
  BY <1>3, <1>4, <1>5, SeqEqual
<1> QED BY <1>1, <1>6

\* The number of the last record of a file is a number, and the largest.
LEMMA LastSequenceOf ==
  ASSUME NEW f \in Files
  PROVE  LastSequence(f) \in Nat
<1>1. f.records \in Seq(Records) /\ f.at \in Nat
  BY DEF Files
<1>2. CASE f.records = <<>>
  BY <1>1, <1>2 DEF LastSequence
<1>3. CASE f.records # <<>>
  <2>1. Len(f.records) \in 1..Len(f.records)
    BY <1>1, <1>3
  <2>2. f.records[Len(f.records)] \in Records
    BY <1>1, <2>1
  <2> QED BY <1>3, <2>2 DEF LastSequence, Records
<1> QED BY <1>2, <1>3

\* The file with records for the changes behind it, numbered from the last one
\* on, and perhaps the beginning of one more.
Extended(f, new, b) ==
  [snapshot |-> f.snapshot, at |-> f.at,
   records |-> f.records \o Numbered(new, LastSequence(f)), torn |-> b]

\* What records numbered from the last one on do to a file.
LEMMA RecordsAppended ==
  ASSUME NEW f \in Files, NEW new \in Seq(Changes), NEW b \in BOOLEAN
  PROVE  /\ Extended(f, new, b) \in Files
         /\ Contents(Extended(f, new, b)) = Contents(f) \o new
         /\ Len(Extended(f, new, b).records) = Len(f.records) + Len(new)
         /\ LastSequence(Extended(f, new, b)) = LastSequence(f) + Len(new)
         /\ InOrder(f) => InOrder(Extended(f, new, b))
<1>0. PICK g : g = Extended(f, new, b)
  OBVIOUS
<1>1. PICK last \in Nat : last = LastSequence(f)
  BY LastSequenceOf
<1>2. PICK more : more = Numbered(new, last)
  OBVIOUS
<1>3. PICK k \in Nat : k = Len(f.records)
  BY ContentsOf
<1>4. PICK m \in Nat : m = Len(new)
  OBVIOUS
<1>5. f.records \in Seq(Records) /\ f.snapshot \in Seq(Changes) /\ f.at \in Nat
  BY DEF Files
<1>6. /\ more \in Seq(Records) /\ Len(more) = m
      /\ \A i \in 1..m : more[i].sequence = last + i /\ more[i].change = new[i]
  BY <1>2, <1>4, NumberedOf
<1>7. /\ g.records = f.records \o more /\ g.snapshot = f.snapshot /\ g.at = f.at
      /\ g = [snapshot |-> f.snapshot, at |-> f.at, records |-> g.records, torn |-> b]
  BY <1>0, <1>1, <1>2 DEF Extended
<1>8. /\ g.records \in Seq(Records)
      /\ Len(g.records) = k + m /\ DOMAIN g.records = 1..(k + m)
      /\ \A i \in 1..k : g.records[i] = f.records[i]
      /\ \A i \in 1..m : g.records[k + i] = more[i]
  <2>1. /\ f.records \o more \in Seq(Records)
        /\ Len(f.records \o more) = Len(f.records) + Len(more)
        /\ DOMAIN (f.records \o more) = 1..(Len(f.records) + Len(more))
        /\ \A i \in 1..Len(f.records) : (f.records \o more)[i] = f.records[i]
        /\ \A i \in 1..Len(more) : (f.records \o more)[Len(f.records) + i] = more[i]
    <3>1. f.records \in Seq(Records)
      BY <1>5
    <3>2. more \in Seq(Records)
      BY <1>6
    <3> QED BY ONLY <3>1, <3>2, ConcatElements
  <2> QED BY <1>3, <1>6, <1>7, <2>1
<1>9. g \in Files
  <2>1. f.snapshot \in Seq(Changes) /\ f.at \in Nat /\ g.records \in Seq(Records)
    BY <1>5, <1>8
  <2>2. [snapshot |-> f.snapshot, at |-> f.at, records |-> g.records, torn |-> b] \in Files
    BY <2>1 DEF Files
  <2> QED BY <1>7, <2>2
<1>10. Contents(g) = Contents(f) \o new
  <2>1. /\ ChangesOf(f.records) \in Seq(Changes) /\ Len(ChangesOf(f.records)) = k
        /\ \A i \in 1..k : ChangesOf(f.records)[i] = f.records[i].change
    BY <1>3, <1>5, ChangesOfRecords
  <2>2. /\ ChangesOf(g.records) \in Seq(Changes) /\ Len(ChangesOf(g.records)) = k + m
        /\ \A i \in 1..(k + m) : ChangesOf(g.records)[i] = g.records[i].change
    BY <1>8, ChangesOfRecords
  <2>3. /\ \A i \in 1..k : ChangesOf(g.records)[i] = ChangesOf(f.records)[i]
        /\ \A i \in 1..m : ChangesOf(g.records)[k + i] = new[i]
    <3>1. \A i \in 1..k : i \in 1..(k + m)
      OBVIOUS
    <3>2. \A i \in 1..m : k + i \in 1..(k + m)
      OBVIOUS
    <3>3. ASSUME NEW i \in 1..k PROVE ChangesOf(g.records)[i] = ChangesOf(f.records)[i]
      BY <1>8, <2>1, <2>2, <3>1
    <3>4. ASSUME NEW i \in 1..m PROVE ChangesOf(g.records)[k + i] = new[i]
      BY <1>6, <1>8, <2>2, <3>2
    <3> QED BY <3>3, <3>4
  <2>4. ChangesOf(g.records) = ChangesOf(f.records) \o new
    BY <1>4, <2>1, <2>2, <2>3, IsConcat
  <2>5. /\ Contents(f) = f.snapshot \o ChangesOf(f.records)
        /\ Contents(g) = f.snapshot \o ChangesOf(g.records)
    BY <1>7, <1>9, ContentsOf
  <2>6. f.snapshot \o (ChangesOf(f.records) \o new) =
          (f.snapshot \o ChangesOf(f.records)) \o new
    <3>1. f.snapshot \in Seq(Changes)
      BY <1>5
    <3>2. ChangesOf(f.records) \in Seq(Changes)
      BY <2>1
    <3> QED BY <3>1, <3>2, ChangesAssociative
  <2> QED BY <2>4, <2>5, <2>6
<1>11. LastSequence(g) = last + m
  <2>1. CASE m = 0
    <3>1. more = <<>>
      BY <1>6, <2>1
    <3>2. g.records = f.records
      BY <1>5, <1>7, <3>1, ConcatEmptySeq
    <3>3. LastSequence(g) = LastSequence(f)
      BY <1>7, <3>2 DEF LastSequence
    <3> QED BY <1>1, <2>1, <3>3
  <2>2. CASE m # 0
    <3>1. Len(g.records) = k + m /\ m \in 1..m /\ g.records # <<>>
      BY <1>8, <2>2
    <3> QED BY <1>6, <1>8, <3>1 DEF LastSequence
  <2> QED BY <2>1, <2>2
<1>12. ASSUME InOrder(f) PROVE InOrder(g)
  <2>1. SUFFICES ASSUME NEW i \in 1..(k + m)
                 PROVE  g.records[i].sequence >
                          (IF i = 1 THEN g.at ELSE g.records[i - 1].sequence)
    BY <1>8 DEF InOrder
  <2>2. CASE i \in 1..k
    <3>1. DOMAIN f.records = 1..k
      BY <1>3, <1>5
    <3>2. f.records[i].sequence > (IF i = 1 THEN f.at ELSE f.records[i - 1].sequence)
      BY <1>12, <2>2, <3>1 DEF InOrder
    <3>3. i # 1 => i - 1 \in 1..k
      BY <2>2
    <3> QED BY <1>7, <1>8, <2>2, <3>2, <3>3
  <2>3. CASE \E j \in 1..m : i = k + j
    <3>1. PICK j \in 1..m : i = k + j
      BY <2>3
    <3>2. g.records[i].sequence = last + j /\ last \in Nat /\ j \in 1..m
      BY <1>6, <1>8, <3>1
    <3>3. CASE j # 1
      <4>1. j - 1 \in 1..m /\ i - 1 = k + (j - 1) /\ i # 1
        BY <3>1, <3>3
      <4>2. g.records[i - 1].sequence = last + (j - 1)
        BY <1>6, <1>8, <4>1
      <4>3. last + j > last + (j - 1)
        BY <3>2
      <4> QED BY <3>2, <4>1, <4>2, <4>3
    <3>4. CASE j = 1 /\ k = 0
      <4>1. f.records = <<>> /\ i = 1
        <5>1. Len(f.records) = 0 /\ f.records \in Seq(Records)
          BY <1>3, <1>5, <3>4
        <5>2. f.records = <<>>
          BY <5>1, EmptySeq
        <5> QED BY <3>1, <3>4, <5>2
      <4>2. last = g.at
        BY <1>1, <1>7, <4>1 DEF LastSequence
      <4> QED BY <3>2, <3>4, <4>1, <4>2
    <3>5. CASE j = 1 /\ k # 0
      <4>1. i - 1 = k /\ k \in 1..k /\ i # 1 /\ f.records # <<>>
        BY <1>3, <1>5, <3>1, <3>5
      <4>2. g.records[i - 1].sequence = last
        BY <1>1, <1>3, <1>8, <4>1 DEF LastSequence
      <4>3. last + j > last
        BY <3>2
      <4> QED BY <3>2, <4>1, <4>2, <4>3
    <3> QED BY <3>3, <3>4, <3>5
  <2> QED BY <2>2, <2>3, IndexOfTwo
<1> QED BY <1>0, <1>1, <1>3, <1>4, <1>8, <1>9, <1>10, <1>11, <1>12

\* The file stays one that can be replayed when every change of the records
\* finds its activity, in the history or earlier in the batch.
LEMMA ReplayableAppended ==
  ASSUME NEW f \in Files, NEW new \in Seq(Changes), NEW b \in BOOLEAN,
         Replayable(f), Finds(new, Contents(f))
  PROVE  Replayable(Extended(f, new, b))
<1>0. PICK g : g = Extended(f, new, b)
  OBVIOUS
<1>1. PICK z \in Nat : z = Len(f.snapshot)
  BY ContentsOf
<1>2. PICK k \in Nat : k = Len(f.records)
  BY ContentsOf
<1>3. PICK m \in Nat : m = Len(new)
  OBVIOUS
<1>4. PICK last \in Nat : last = LastSequence(f)
  BY LastSequenceOf
<1>5. /\ f.records \in Seq(Records) /\ Contents(f) \in Seq(Changes)
      /\ Len(Contents(f)) = z + k
  BY <1>1, <1>2, ContentsOf
<1>6. /\ g \in Files /\ Contents(g) = Contents(f) \o new /\ Len(g.records) = k + m
      /\ InOrder(g) /\ g.snapshot = f.snapshot
  <2>1. /\ g \in Files /\ Contents(g) = Contents(f) \o new
        /\ Len(g.records) = Len(f.records) + Len(new)
        /\ InOrder(f) => InOrder(g)
    BY <1>0, RecordsAppended
  <2>2. InOrder(f)
    BY DEF Replayable
  <2>3. g.snapshot = f.snapshot
    BY <1>0 DEF Extended
  <2> QED BY <1>2, <1>3, <2>1, <2>2, <2>3
<1>7. /\ g.records \in Seq(Records) /\ DOMAIN g.records = 1..(k + m)
      /\ Contents(g) \in Seq(Changes) /\ Len(Contents(g)) = z + (k + m)
  <2>1. /\ Contents(g) \in Seq(Changes)
        /\ Len(Contents(g)) = Len(g.snapshot) + Len(g.records)
        /\ g.records \in Seq(Records)
    BY <1>6, ContentsOf
  <2> QED BY <1>1, <1>2, <1>3, <1>6, <2>1
<1>8. /\ \A i \in 1..(z + k) : Contents(g)[i] = Contents(f)[i]
      /\ \A j \in 1..m : Contents(g)[z + k + j] = new[j]
  <2>1. Contents(f) \in Seq(Changes)
    BY <1>5
  <2>2. /\ \A i \in 1..Len(Contents(f)) : (Contents(f) \o new)[i] = Contents(f)[i]
        /\ \A j \in 1..Len(new) : (Contents(f) \o new)[Len(Contents(f)) + j] = new[j]
    BY <2>1, ConcatElements
  <2> QED BY <1>3, <1>5, <1>6, <2>2
<1>9. /\ \A i \in 1..k : g.records[i] = f.records[i]
      /\ \A j \in 1..m : g.records[k + j].change = new[j]
  <2>1. /\ Numbered(new, last) \in Seq(Records) /\ Len(Numbered(new, last)) = m
        /\ \A j \in 1..m : Numbered(new, last)[j].change = new[j]
    BY <1>3, NumberedOf
  <2>2. g.records = f.records \o Numbered(new, last)
    BY <1>0, <1>4 DEF Extended
  <2>3. /\ \A i \in 1..k : (f.records \o Numbered(new, last))[i] = f.records[i]
        /\ \A j \in 1..m :
             (f.records \o Numbered(new, last))[k + j] = Numbered(new, last)[j]
    BY <1>2, <1>5, <2>1, ConcatElements
  <2> QED BY <2>1, <2>2, <2>3
<1>10. ASSUME NEW i \in 1..(k + m),
              g.records[i].change.kind \in {"delta", "completed"}
       PROVE  \E x \in 1..(z + i - 1) :
                /\ Contents(g)[x].segment = g.records[i].change.segment
                /\ Contents(g)[x].kind # "completed"
  <2>1. CASE i \in 1..k
    <3>1. DOMAIN f.records = 1..k
      BY <1>2, <1>5
    <3>2. Has(SubSeq(Contents(f), 1, z + i - 1), f.records[i].change.segment)
      BY <1>1, <1>9, <1>10, <2>1, <3>1 DEF Replayable
    <3>3. z + i - 1 \in 0..Len(Contents(f))
      BY <1>5, <2>1
    <3>4. PICK x \in 1..(z + i - 1) :
            /\ Contents(f)[x].segment = f.records[i].change.segment
            /\ Contents(f)[x].kind # "completed"
      <4>1. Contents(f) \in Seq(Changes)
        BY <1>5
      <4> QED BY <3>2, <3>3, <4>1, HasInPrefix
    <3>5. x \in 1..(z + k)
      BY <2>1
    <3> QED BY <1>8, <1>9, <2>1, <3>4, <3>5
  <2>2. CASE \E j \in 1..m : i = k + j
    <3>1. PICK j \in 1..m : i = k + j
      BY <2>2
    <3>2. DOMAIN new = 1..m /\ g.records[i].change = new[j]
      BY <1>3, <1>9, <3>1
    <3>3. \/ Has(Contents(f), new[j].segment)
          \/ \E l \in 1..(j - 1) : new[l].segment = new[j].segment
                                   /\ new[l].kind # "completed"
      BY <1>10, <3>2 DEF Finds
    <3>4. CASE Has(Contents(f), new[j].segment)
      <4>1. DOMAIN Contents(f) = 1..(z + k)
        BY <1>5
      <4>2. PICK x \in 1..(z + k) : /\ Contents(f)[x].segment = new[j].segment
                                    /\ Contents(f)[x].kind # "completed"
        BY <3>4, <4>1 DEF Has
      <4>3. x \in 1..(z + i - 1)
        BY <3>1
      <4> QED BY <1>8, <3>2, <4>2, <4>3
    <3>5. ASSUME NEW l \in 1..(j - 1), new[l].segment = new[j].segment,
                 new[l].kind # "completed"
          PROVE  \E x \in 1..(z + i - 1) :
                   /\ Contents(g)[x].segment = g.records[i].change.segment
                   /\ Contents(g)[x].kind # "completed"
      <4>1. l \in 1..m /\ z + k + l \in 1..(z + i - 1)
        BY <3>1
      <4> QED BY <1>8, <3>2, <3>5, <4>1
    <3> QED BY <3>3, <3>4, <3>5
  <2> QED BY <2>1, <2>2, IndexOfTwo
<1>11. ASSUME NEW i \in DOMAIN g.records,
              g.records[i].change.kind \in {"delta", "completed"}
       PROVE  Has(SubSeq(Contents(g), 1, Len(g.snapshot) + i - 1),
                  g.records[i].change.segment)
  <2>1. i \in 1..(k + m) /\ z + i - 1 \in 0..Len(Contents(g))
    <3>1. i \in 1..(k + m) /\ Len(Contents(g)) = z + (k + m)
      BY <1>7, <1>11
    <3>2. \A x, n \in Nat : \A y \in 1..n : x + y - 1 \in 0..(x + n)
      OBVIOUS
    <3>3. k + m \in Nat /\ z \in Nat
      BY <1>1, <1>2, <1>3
    <3>4. z + i - 1 \in 0..(z + (k + m))
      BY <3>1, <3>2, <3>3
    <3> QED BY <3>1, <3>4
  <2> QED BY <1>1, <1>6, <1>7, <1>10, <1>11, <2>1, HasInPrefix
<1> QED BY <1>0, <1>6, <1>11 DEF Replayable

\* The beginning of a batch finds what the batch finds.
LEMMA FindsPrefix ==
  ASSUME NEW new \in Seq(Changes), NEW known, Finds(new, known), NEW n \in 0..Len(new)
  PROVE  Finds(SubSeq(new, 1, n), known)
<1>1. /\ SubSeq(new, 1, n) \in Seq(Changes) /\ Len(SubSeq(new, 1, n)) = n
      /\ \A i \in 1..n : SubSeq(new, 1, n)[i] = new[i]
      /\ DOMAIN SubSeq(new, 1, n) = 1..n /\ DOMAIN new = 1..Len(new)
  OBVIOUS
<1>2. \A i \in 1..n : i \in 1..Len(new) /\ \A j \in 1..(i - 1) : j \in 1..n
  OBVIOUS
<1> QED BY <1>1, <1>2 DEF Finds

\* Whatever an operation may record are changes, each finds its activity among
\* those the operation looked at, and two operations record one.
LEMMA ChangeListsOf ==
  ASSUME LogTypeOK, calls \in 1..MaxCalls, NEW known, NEW new \in ChangeLists(known)
  PROVE  /\ new \in Seq(Changes)
         /\ Finds(new, known)
         /\ call.operation \in {"append", "replace"} =>
              new # <<>> /\ \A i \in DOMAIN new : new[i].kind = call.operation
<1>1. /\ call.segment \in Segments /\ call.parts \in 1..BatchSize
      /\ call.operation \in Operations /\ BatchSize \in Nat \ {0} /\ 1 \in 1..BatchSize
  BY LogAssumption DEF LogTypeOK, CallStates
<1>2. \A part \in 1..BatchSize, kind \in Kinds, s \in Segments :
        /\ Change(part, kind) \in Changes /\ Change(part, kind).kind = kind
        /\ Change(part, kind).segment = call.segment
  BY <1>1 DEF Change, Changes
<1>6. \A part \in 1..BatchSize, kind \in Kinds, s \in Segments :
        /\ [Change(part, kind) EXCEPT !.segment = s] \in Changes
        /\ [Change(part, kind) EXCEPT !.segment = s].kind = kind
        /\ [Change(part, kind) EXCEPT !.segment = s].segment = s
  BY <1>1 DEF Change, Changes
<1>3. CASE call.operation \in {"append", "replace"}
  <2>1. new = <<Change(1, call.operation)>>
    BY <1>3 DEF ChangeLists
  <2>2. /\ Change(1, call.operation) \in Changes
        /\ Change(1, call.operation).kind = call.operation
    BY <1>1, <1>2, <1>3 DEF Kinds
  <2>3. new \in Seq(Changes) /\ Len(new) = 1 /\ DOMAIN new = 1..1 /\ new # <<>>
    BY <2>1, <2>2
  <2>4. \A i \in DOMAIN new : new[i].kind = call.operation
    BY <2>1, <2>2, <2>3
  <2> QED BY <1>3, <2>3, <2>4 DEF Finds
<1>4. CASE call.operation = "deltas"
  <2> DEFINE kindOf(i) == IF i = 1 /\ ~Has(known, call.segment) THEN "append" ELSE "delta"
  <2>1. new = [i \in 1..call.parts |-> Change(i, kindOf(i))]
    BY <1>4 DEF ChangeLists
  <2>2. \A i \in 1..call.parts : /\ i \in 1..BatchSize /\ kindOf(i) \in Kinds
                                 /\ new[i] = Change(i, kindOf(i))
    BY <1>1, <2>1 DEF Kinds
  <2>3. \A i \in 1..call.parts : /\ new[i] \in Changes /\ new[i].segment = call.segment
                                 /\ new[i].kind = kindOf(i)
    BY <1>1, <1>2, <2>2
  <2> HIDE DEF kindOf
  <2>4. new \in [1..call.parts -> Changes] /\ call.parts \in Nat
    <3>1. call.parts \in Nat
      BY <1>1
    <3> QED BY <2>1, <2>3, <3>1
  <2> USE DEF kindOf
  <2>5. new \in Seq(Changes) /\ DOMAIN new = 1..call.parts
    BY <2>4, SeqOfFunction
  <2>6. ASSUME NEW i \in 1..call.parts, ~Has(known, call.segment), new[i].kind = "delta"
        PROVE  1 \in 1..(i - 1) /\ new[1].kind # "completed"
    BY <1>1, <2>3, <2>6
  <2>7. \A i \in 1..call.parts : 1 \in 1..call.parts
    BY <1>1
  <2> QED BY <1>4, <2>3, <2>5, <2>6, <2>7 DEF Finds
<1>5. CASE call.operation = "complete"
  <2>1. PICK q \in Completing(known) :
          new = [i \in DOMAIN q |-> [Change(i, "completed") EXCEPT !.segment = q[i]]]
    BY <1>5 DEF ChangeLists
  <2>2. PICK n \in 0..BatchSize : q \in [1..n -> Segments]
    BY <2>1 DEF Completing, SeqOf
  <2>3. \A i \in 1..n : Has(known, q[i]) /\ q[i] \in Segments /\ i \in 1..BatchSize
    BY <1>1, <2>1, <2>2 DEF Completing
  <2>4. \A i \in 1..n : new[i] \in Changes /\ new[i].segment = q[i]
    BY <1>6, <2>1, <2>2, <2>3 DEF Kinds
  <2>5. new \in [1..n -> Changes] /\ n \in Nat
    BY <1>1, <2>1, <2>2, <2>4
  <2>6. new \in Seq(Changes) /\ DOMAIN new = 1..n
    BY <2>5, SeqOfFunction
  <2> QED BY <1>5, <2>3, <2>4, <2>6 DEF Finds
<1> QED BY <1>1, <1>3, <1>4, <1>5 DEF Operations

-----------------------------------------------------------------------------
\* The values of the fields.
Memories ==
  [loaded : BOOLEAN, sequence : Nat, cached : BOOLEAN, cache : Seq(Changes),
   operations : Nat]

\* A replay gives the fields values of their types.
LEMMA ReplayedTyped ==
  ASSUME NEW f \in Files
  PROVE  Replayed(f) \in Memories
<1>1. LastSequence(f) \in Nat /\ Contents(f) \in Seq(Changes) /\ Len(f.records) \in Nat
  BY ContentsOf, LastSequenceOf
<1> QED BY <1>1 DEF Replayed, Memories

\* So does a readAll(), and the snapshot it is followed by is a file.
LEMMA ReadAllTyped ==
  ASSUME LogTypeOK
  PROVE  /\ AfterReadAll \in Memories /\ Seen \in Memories
         /\ \A c \in Seq(Changes) : Snapshot(c) \in Files
<1>1. memory \in Memories /\ file \in Files
  BY DEF LogTypeOK, Memories
<1>2. AfterReadAll \in Memories
  BY <1>1, ReplayedTyped DEF AfterReadAll
<1>3. AfterReadAll.sequence \in Nat /\ <<>> \in Seq(Records)
  BY <1>2 DEF Memories
<1>4. \A c \in Seq(Changes) : Snapshot(c) \in Files
  BY <1>3 DEF Snapshot, Files
<1> QED BY <1>1, <1>2, <1>4 DEF Seen

\* What the changes of an operation do to the fields and the file keeps types.
LEMMA WriteTyped ==
  ASSUME LogTyped, call.stage # "idle", NEW new \in ChangeLists(Seen.cache)
  PROVE  /\ new \in Seq(Changes) /\ Len(new) \in Nat
         /\ InPlace(new) \in Memories
         /\ Snapshot(Seen.cache \o new) \in Files
         /\ file.records \o Numbered(new, Seen.sequence) \in Seq(Records)
         /\ \A n \in 0..Len(new) :
              file.records \o SubSeq(Numbered(new, Seen.sequence), 1, n) \in Seq(Records)
<1>1. LogTypeOK /\ calls \in 1..MaxCalls /\ file \in Files
  BY DEF LogTyped, LogTypeOK
<1>2. new \in Seq(Changes)
  BY <1>1, ChangeListsOf
<1>3. Seen \in Memories
  BY <1>1, ReadAllTyped
<1>4. Seen.cache \in Seq(Changes) /\ Seen.sequence \in Nat
  BY <1>3 DEF Memories
<1>5. Seen.cache \o new \in Seq(Changes)
  BY <1>2, <1>4, ConcatElements
<1>6. InPlace(new) \in Memories
  <2>1. [Seen EXCEPT !.cache = Seen.cache \o new] \in Memories
    BY <1>3, <1>5 DEF Memories
  <2> QED BY <1>3, <2>1 DEF InPlace
<1>7. Numbered(new, Seen.sequence) \in Seq(Records)
  BY <1>2, <1>4, NumberedOf
<1>8. \A n \in 0..Len(new) : SubSeq(Numbered(new, Seen.sequence), 1, n) \in Seq(Records)
  <2>1. \A n \in 0..Len(new) :
          /\ SubSeq(new, 1, n) \in Seq(Changes)
          /\ SubSeq(Numbered(new, Seen.sequence), 1, n) =
               Numbered(SubSeq(new, 1, n), Seen.sequence)
    BY <1>2, <1>4, NumberedPrefix
  <2> QED BY <1>4, <2>1, NumberedOf
<1>9. file.records \in Seq(Records)
  BY <1>1 DEF Files
<1>10. \A r \in Seq(Records) : file.records \o r \in Seq(Records)
  BY <1>9, ConcatElements
<1>11. Snapshot(Seen.cache \o new) \in Files
  BY <1>1, <1>5, ReadAllTyped
<1> QED BY <1>2, <1>6, <1>7, <1>8, <1>10, <1>11

\* The types hold at the beginning.
LEMMA InitTyped == LogInit => LogTyped
<1> SUFFICES ASSUME LogInit PROVE LogTyped
  OBVIOUS
<1>1. <<>> \in Seq(Changes) /\ <<>> \in Seq(Records) /\ 1 \in 1..BatchSize /\ 0 \in 0..MaxCalls
  BY LogAssumption
<1>2. file \in Files /\ NoFile \in Files
  BY <1>1 DEF LogInit, NoFile, Files
<1>3. memory \in Memories
  BY <1>1 DEF LogInit, NotLoaded, Memories
<1>4. call \in CallStates /\ call.stage = "idle"
  BY <1>1 DEF LogInit, CallStates, Operations
<1>5. reading \in [under : BOOLEAN, raw : Files]
  BY <1>2 DEF LogInit, NotReading
<1> QED BY <1>1, <1>2, <1>3, <1>4, <1>5 DEF LogInit, LogTyped, LogTypeOK, Memories

\* Every step keeps the types.
LEMMA NextTyped == LogTyped /\ [LogNext]_logVars => LogTyped'
<1> SUFFICES ASSUME LogTyped, [LogNext]_logVars PROVE LogTyped'
  OBVIOUS
<1>1. /\ file \in Files /\ memory \in Memories /\ call \in CallStates
      /\ reading.under \in BOOLEAN /\ reading.raw \in Files
      /\ reading \in [under : BOOLEAN, raw : Files]
      /\ calls \in 0..MaxCalls /\ acked \subseteq Changes /\ MaxCalls \in Nat
      /\ call.stage # "idle" => calls \in 1..MaxCalls
  BY LogAssumption DEF LogTyped, LogTypeOK, Memories
<1> DEFINE Typed ==
      /\ file' \in Files /\ memory' \in Memories /\ call' \in CallStates
      /\ reading' \in [under : BOOLEAN, raw : Files]
      /\ calls' \in 0..MaxCalls /\ acked' \subseteq Changes
      /\ call'.stage # "idle" => calls' \in 1..MaxCalls
<1>2. SUFFICES Typed
  BY DEF LogTyped, LogTypeOK, Memories
<1>3. Idle(call) \in CallStates /\ Idle(call).stage = "idle"
  <2>1. <<>> \in Seq(Changes) /\ 1 \in 1..BatchSize
    BY LogAssumption
  <2> QED BY <1>1, <2>1 DEF Idle, CallStates
<1>4. /\ [call EXCEPT !.stage = "ready"] \in CallStates
      /\ [call EXCEPT !.stage = "ready"].stage = "ready"
  BY <1>1 DEF CallStates
<1>5. NotLoaded \in Memories /\ NotReading \in [under : BOOLEAN, raw : Files]
  <2>1. <<>> \in Seq(Changes) /\ <<>> \in Seq(Records)
    OBVIOUS
  <2>2. NoFile \in Files
    BY <2>1 DEF NoFile, Files
  <2> QED BY <2>1, <2>2 DEF NotLoaded, Memories, NotReading
<1>6. AfterReadAll \in Memories /\ \A c \in Seq(Changes) : Snapshot(c) \in Files
  BY ReadAllTyped DEF LogTyped
<1>7. ASSUME NEW o \in Operations, NEW s \in Segments, NEW n \in 1..BatchSize,
             Begin(o, s, n)
      PROVE  Typed
  <2>1. <<>> \in Seq(Changes)
    OBVIOUS
  <2>2. call' \in CallStates
    BY <1>7, <2>1 DEF Begin, CallStates
  <2>3. calls' \in 1..MaxCalls
    BY <1>1, <1>7 DEF Begin
  <2> QED BY <1>1, <1>7, <2>2, <2>3 DEF Begin
<1>8. CASE Load
  <2>1. file' \in Files
    BY <1>1, <1>8 DEF Load, Files
  <2>2. Replayed(file) \in Memories /\ <<>> \in Seq(Changes)
    BY <1>1, ReplayedTyped
  <2>3. memory' \in Memories
    BY <1>8, <2>2 DEF Load, Memories
  <2> QED BY <1>1, <1>8, <2>1, <2>3 DEF Load
<1>9. CASE Compact
  <2>1. /\ AfterReadAll.cache \in Seq(Changes)
        /\ [AfterReadAll EXCEPT !.operations = 0] \in Memories
    BY <1>6 DEF Memories
  <2>2. file' \in Files /\ memory' \in Memories
    BY <1>1, <1>6, <1>9, <2>1 DEF Compact
  <2> QED BY <1>1, <1>4, <1>9, <2>2 DEF Compact
<1>10. CASE CompactionFails
  BY <1>1, <1>3, <1>6, <1>10 DEF CompactionFails
<1>11. CASE Write
  <2>1. call.stage = "ready"
    BY <1>11 DEF Write
  <2>2. PICK new \in ChangeLists(Seen.cache) :
          /\ call' = [call EXCEPT !.stage = "written", !.changes = new]
          /\ memory' = InPlace(new)
          /\ file' = IF call.operation = "replace"
                     THEN Snapshot(Seen.cache \o new)
                     ELSE [file EXCEPT !.records =
                             file.records \o Numbered(new, Seen.sequence)]
    BY <1>11 DEF Write
  <2>3. /\ new \in Seq(Changes) /\ InPlace(new) \in Memories
        /\ Snapshot(Seen.cache \o new) \in Files
        /\ file.records \o Numbered(new, Seen.sequence) \in Seq(Records)
    BY <2>1, WriteTyped
  <2>4. call' \in CallStates
    BY <1>1, <2>2, <2>3 DEF CallStates
  <2>5. file' \in Files
    BY <1>1, <2>2, <2>3 DEF Files
  <2> QED BY <1>1, <1>11, <2>1, <2>2, <2>3, <2>4, <2>5 DEF Write
<1>12. CASE WriteFails
  <2>1. call.stage # "idle" /\ \E new \in ChangeLists(Seen.cache) : memory' = InPlace(new)
    BY <1>12 DEF WriteFails
  <2>2. memory' \in Memories
    BY <2>1, WriteTyped
  <2> QED BY <1>1, <1>3, <1>12, <2>2 DEF WriteFails
<1>13. CASE Acknowledge
  <2>1. /\ call.changes \in Seq(Changes) /\ Len(call.changes) \in Nat
        /\ memory.cache \in Seq(Changes) /\ <<>> \in Seq(Changes)
    BY <1>1 DEF CallStates, Memories
  <2>2. memory.cache \o call.changes \in Seq(Changes)
    BY <2>1, ConcatElements
  <2>3. /\ [memory EXCEPT !.cached = TRUE, !.cache = memory.cache \o call.changes,
                          !.operations = 0] \in Memories
        /\ [memory EXCEPT !.cached = FALSE, !.cache = <<>>,
                          !.sequence = LastSequence(file),
                          !.operations = memory.operations + Len(call.changes)] \in Memories
    <3>1. LastSequence(file) \in Nat /\ memory.operations \in Nat
      BY <1>1, LastSequenceOf DEF Memories
    <3>2. memory.operations + Len(call.changes) \in Nat
      BY <2>1, <3>1
    <3> QED BY <1>1, <2>1, <2>2, <3>1, <3>2 DEF Memories
  <2>4. memory' \in Memories
    BY <1>1, <1>13, <2>3 DEF Acknowledge
  <2>5. acked' \subseteq Changes
    BY <1>1, <1>13, <2>1 DEF Acknowledge
  <2> QED BY <1>1, <1>3, <1>13, <2>4, <2>5 DEF Acknowledge
<1>14. CASE ReadFile
  BY <1>1, <1>14 DEF ReadFile
<1>15. CASE Replay
  <2>1. Replayed(reading.raw) \in Memories
    BY <1>1, ReplayedTyped
  <2> QED BY <1>1, <1>5, <1>15, <2>1 DEF Replay
<1>16. CASE Crash
  <2>1. file' \in Files
    <3>1. CASE UNCHANGED file
      BY <1>1, <3>1
    <3>2. ASSUME call.stage = "ready", NEW new \in ChangeLists(Seen.cache),
                 NEW n \in 0..(Len(new) - 1),
                 file' = [file EXCEPT !.records =
                   file.records \o SubSeq(Numbered(new, Seen.sequence), 1, n), !.torn = TRUE]
          PROVE  file' \in Files
      <4>1. Len(new) \in Nat
        BY <3>2, WriteTyped
      <4>2. n \in 0..Len(new)
        BY <4>1
      <4>3. file.records \o SubSeq(Numbered(new, Seen.sequence), 1, n) \in Seq(Records)
        BY <3>2, <4>2, WriteTyped
      <4> QED BY <1>1, <3>2, <4>3 DEF Files
    <3> QED BY <1>16, <3>1, <3>2 DEF Crash
  <2> QED BY <1>1, <1>3, <1>5, <1>16, <2>1 DEF Crash
<1>17. CASE UNCHANGED logVars
  BY <1>1, <1>17 DEF logVars
<1> QED BY <1>7, <1>8, <1>9, <1>10, <1>11, <1>12, <1>13, <1>14, <1>15, <1>16, <1>17 DEF LogNext

-----------------------------------------------------------------------------
\* A file of a snapshot alone.
LEMMA SnapshotOf ==
  ASSUME NEW c \in Seq(Changes), NEW n \in Nat, NEW f,
         f = [snapshot |-> c, at |-> n, records |-> <<>>, torn |-> FALSE]
  PROVE  /\ f \in Files /\ Contents(f) = c /\ LastSequence(f) = n
         /\ f.records = <<>> /\ Len(f.records) = 0 /\ Replayable(f) /\ ~f.torn
<1>1. f.snapshot = c /\ f.at = n /\ f.records = <<>> /\ ~f.torn
  OBVIOUS
<1>2. <<>> \in Seq(Records) /\ DOMAIN <<>> = {} /\ Len(<<>>) = 0
  OBVIOUS
<1>3. f \in Files
  BY <1>2 DEF Files
<1>4. ChangesOf(<<>>) = <<>>
  BY ONLY <1>2, EmptySeq, ChangesOfRecords
<1>5. Contents(f) = c
  BY <1>1, <1>3, <1>4, ContentsOf, ConcatEmptySeq
<1> QED BY <1>1, <1>2, <1>3, <1>5 DEF LastSequence, Replayable, InOrder

\* Whether the beginning of a record stands at the end changes no more.
LEMMA TornOnly ==
  ASSUME NEW f, NEW g, g.snapshot = f.snapshot, g.at = f.at, g.records = f.records
  PROVE  /\ Contents(g) = Contents(f) /\ LastSequence(g) = LastSequence(f)
         /\ Replayable(f) => Replayable(g)
<1>1. Contents(g) = Contents(f) /\ LastSequence(g) = LastSequence(f)
  BY DEF Contents, LastSequence
<1> QED BY <1>1 DEF Replayable, InOrder

\* Outside a write, what an operation sees of the file is what the file holds.
LEMMA SeenIsFile ==
  ASSUME LogInv, memory.loaded, call.stage # "written"
  PROVE  /\ AfterReadAll = Replayed(file)
         /\ Looks => Seen = Replayed(file)
         /\ ~Looks => Seen = memory
         /\ Seen.loaded /\ Seen.sequence = LastSequence(file)
         /\ Seen.operations = Len(file.records)
         /\ Seen.cached => Seen.cache = Contents(file)
<1>1. /\ memory.sequence = LastSequence(file) /\ memory.operations = Len(file.records)
      /\ memory.cached => memory.cache = Contents(file)
      /\ memory \in Memories
  BY DEF LogInv, LogTyped, LogTypeOK, Memories, FieldsFollow
<1>2. CASE memory.cached
  <2>1. memory = [loaded |-> memory.loaded, sequence |-> memory.sequence,
                  cached |-> memory.cached, cache |-> memory.cache,
                  operations |-> memory.operations]
    BY <1>1 DEF Memories
  <2>2. memory.loaded = TRUE /\ memory.cached = TRUE
    BY <1>1, <1>2 DEF Memories
  <2>3. memory = Replayed(file)
    BY <1>1, <1>2, <2>1, <2>2 DEF Replayed
  <2> QED BY <1>1, <1>2, <2>3 DEF AfterReadAll, Seen
<1>3. CASE ~memory.cached
  <2>1. AfterReadAll = Replayed(file)
    BY <1>3 DEF AfterReadAll
  <2>2. /\ Replayed(file).loaded /\ Replayed(file).sequence = LastSequence(file)
        /\ Replayed(file).operations = Len(file.records)
        /\ Replayed(file).cache = Contents(file)
    BY DEF Replayed
  <2> QED BY <1>1, <1>3, <2>1, <2>2 DEF Seen
<1> QED BY <1>2, <1>3

\* Every change of an operation finds its activity in the log.
LEMMA ChangesFind ==
  ASSUME LogInv, memory.loaded, call.stage = "ready", NEW new \in ChangeLists(Seen.cache)
  PROVE  /\ new \in Seq(Changes) /\ Finds(new, Contents(file))
         /\ call.operation = "append" => new # <<>>
         /\ ~Looks => new # <<>>
<1>1. LogTypeOK /\ calls \in 1..MaxCalls
  BY DEF LogInv, LogTyped
<1>2. /\ new \in Seq(Changes) /\ Finds(new, Seen.cache)
      /\ call.operation \in {"append", "replace"} =>
           new # <<>> /\ \A i \in DOMAIN new : new[i].kind = call.operation
  BY <1>1, ChangeListsOf
<1>3. Looks => Seen.cache = Contents(file)
  BY SeenIsFile DEF Replayed
<1>4. ~Looks => Finds(new, Contents(file))
  BY <1>2 DEF Looks, Finds
<1> QED BY <1>2, <1>3, <1>4 DEF Looks

\* The history has grown at its end, or not at all.
Grown == \E more \in Seq(Changes) : Contents(file') = Contents(file) \o more

\* A step that leaves the contents of the file is one of them.
LEMMA NotGrown ==
  ASSUME LogInv, Contents(file') = Contents(file)
  PROVE  Grown
<1>1. file \in Files /\ <<>> \in Seq(Changes)
  BY DEF LogInv, LogTyped, LogTypeOK
<1>2. Contents(file) \in Seq(Changes)
  BY <1>1, ContentsOf
<1>3. Contents(file) = Contents(file) \o <<>>
  BY <1>2, ConcatEmptySeq
<1> QED BY <1>1, <1>3 DEF Grown

\* An operation begins, a read gets the file or replays it.
LEMMA ReadSteps ==
  ASSUME LogInv, ~StaleReplay,
         \/ \E o \in Operations, s \in Segments, n \in 1..BatchSize : Begin(o, s, n)
         \/ ReadFile \/ Replay
  PROVE  LogReplayable' /\ FieldsFollow' /\ StoreInOrder' /\ file' = file
<1> USE DEF LogInv, LogReplayable, FieldsFollow, StoreInOrder
<1>1. ASSUME NEW o \in Operations, NEW s \in Segments, NEW n \in 1..BatchSize,
             Begin(o, s, n)
      PROVE  LogReplayable' /\ FieldsFollow' /\ StoreInOrder' /\ file' = file
  <2>1. /\ call.stage = "idle" /\ call'.stage = "begun"
        /\ UNCHANGED <<file, memory, reading>>
    BY <1>1 DEF Begin
  <2> QED BY <2>1
<1>2. CASE ReadFile
  <2>1. /\ memory.loaded /\ call.stage = "idle" /\ reading' = [under |-> TRUE, raw |-> file]
        /\ UNCHANGED <<file, memory, call>>
    BY <1>2 DEF ReadFile
  <2> QED BY <2>1
<1>3. CASE Replay
  <2>1. /\ memory.loaded /\ call.stage # "written" /\ reading.raw = file
        /\ memory' = Replayed(file) /\ ~reading'.under
        /\ UNCHANGED <<file, call>>
    BY <1>3 DEF Replay, NotReading, StaleReplay, Stale
  <2>2. /\ memory'.loaded /\ memory'.sequence = LastSequence(file)
        /\ memory'.operations = Len(file.records) /\ memory'.cache = Contents(file)
    BY <2>1 DEF Replayed
  <2> QED BY <2>1, <2>2
<1> QED BY <1>1, <1>2, <1>3

\* ensureLoaded: the fields follow the file, which ends with a whole record.
LEMMA LoadStep ==
  ASSUME LogInv, Load
  PROVE  LogReplayable' /\ FieldsFollow' /\ StoreInOrder' /\ Grown
<1>1. /\ ~memory.loaded /\ UNCHANGED <<call, reading>>
      /\ file' = [file EXCEPT !.torn = FALSE]
      /\ memory' = [Replayed(file) EXCEPT !.cached = FALSE, !.cache = <<>>]
  BY DEF Load
<1>2. file \in Files /\ Replayable(file)
  BY DEF LogInv, LogTyped, LogTypeOK, LogReplayable
<1>3. /\ file'.snapshot = file.snapshot /\ file'.at = file.at
      /\ file'.records = file.records /\ ~file'.torn
  BY <1>1, <1>2 DEF Files
<1>4. /\ Contents(file') = Contents(file) /\ LastSequence(file') = LastSequence(file)
      /\ Replayable(file')
  BY <1>2, <1>3, TornOnly
<1>5. /\ memory'.loaded /\ memory'.sequence = LastSequence(file)
      /\ memory'.operations = Len(file.records) /\ ~memory'.cached
  BY <1>1 DEF Replayed
<1>6. call.stage \notin {"ready", "written"}
  BY <1>1 DEF LogInv, StoreInOrder
<1>7. LogReplayable'
  BY <1>3, <1>4 DEF LogReplayable
<1>8. FieldsFollow'
  BY <1>1, <1>3, <1>4, <1>5, <1>6 DEF FieldsFollow
<1>9. StoreInOrder'
  <2>1. call'.stage \notin {"ready", "written"} /\ memory'.loaded
    BY <1>1, <1>5, <1>6
  <2> QED BY <2>1 DEF StoreInOrder
<1> QED BY <1>4, <1>7, <1>8, <1>9, NotGrown

\* compactIfNeeded, done or given up: the history is what it was.
LEMMA CompactSteps ==
  ASSUME LogInv, Compact \/ CompactionFails
  PROVE  LogReplayable' /\ FieldsFollow' /\ StoreInOrder' /\ Grown
<1>1. /\ call.stage = "begun" /\ memory.loaded /\ UNCHANGED reading
  BY DEF Compact, CompactionFails, LogInv, StoreInOrder
<1>2. AfterReadAll = Replayed(file)
  BY <1>1, SeenIsFile
<1>3. /\ Replayed(file).loaded /\ Replayed(file).sequence = LastSequence(file)
      /\ Replayed(file).operations = Len(file.records)
      /\ Replayed(file).cache = Contents(file)
  BY DEF Replayed
<1>4. CASE file' = file
  <2>1. call'.stage \in {"ready", "idle"}
    BY LogInv DEF Compact, CompactionFails, Idle, LogInv, LogTyped, LogTypeOK, CallStates
  <2>2. /\ memory'.loaded /\ memory'.sequence = LastSequence(file)
        /\ memory'.operations = Len(file.records)
        /\ memory'.cached => memory'.cache = Contents(file)
    <3>1. CASE memory' = memory
      BY <1>1, <3>1 DEF LogInv, FieldsFollow
    <3>2. CASE memory' = Replayed(file)
      BY <1>3, <3>2
    <3>3. CASE /\ memory' = [Replayed(file) EXCEPT !.operations = 0]
               /\ file' = Snapshot(Contents(file))
      <4>1. Len(file.records) = 0
        BY <1>4, <3>3 DEF Snapshot
      <4> QED BY <3>3, <4>1 DEF Replayed
    <3> QED BY <1>2, <1>3, <3>1, <3>2, <3>3 DEF Compact, CompactionFails
  <2> QED BY <1>1, <1>4, <2>1, <2>2, NotGrown
          DEF LogInv, LogReplayable, FieldsFollow, StoreInOrder
<1>5. CASE file' = Snapshot(Contents(file))
           /\ memory' = [Replayed(file) EXCEPT !.operations = 0] /\ call'.stage = "ready"
  <2>1. file' = [snapshot |-> Contents(file), at |-> LastSequence(file), records |-> <<>>,
                 torn |-> FALSE]
    BY <1>2, <1>3, <1>5 DEF Snapshot
  <2>2. Contents(file) \in Seq(Changes) /\ LastSequence(file) \in Nat
    BY ContentsOf, LastSequenceOf DEF LogInv, LogTyped, LogTypeOK
  <2>3. /\ Contents(file') = Contents(file) /\ LastSequence(file') = LastSequence(file)
        /\ Len(file'.records) = 0 /\ Replayable(file') /\ ~file'.torn
    BY <2>1, <2>2, SnapshotOf
  <2>4. /\ memory'.loaded /\ memory'.sequence = LastSequence(file)
        /\ memory'.operations = 0 /\ memory'.cache = Contents(file)
    BY <1>5 DEF Replayed
  <2> QED BY <1>1, <1>5, <2>3, <2>4, NotGrown DEF LogReplayable, FieldsFollow, StoreInOrder
<1>6. /\ Compact => call'.stage = "ready"
      /\ \/ file' = file
         \/ Compact /\ file' = Snapshot(AfterReadAll.cache)
            /\ memory' = [AfterReadAll EXCEPT !.operations = 0]
  BY DEF Compact, CompactionFails, LogInv, LogTyped, LogTypeOK, CallStates
<1> QED BY <1>2, <1>3, <1>4, <1>5, <1>6

\* A write that reaches the file adds what the operation records to the history.
LEMMA WriteStep ==
  ASSUME LogInv, Write
  PROVE  /\ LogReplayable' /\ FieldsFollow' /\ StoreInOrder'
         /\ call'.changes \in Seq(Changes)
         /\ Contents(file') = Contents(file) \o call'.changes
<1>1. /\ call.stage = "ready" /\ memory.loaded /\ UNCHANGED reading
      /\ ~file.torn /\ file \in Files /\ Replayable(file) /\ call \in CallStates
  BY DEF Write, LogInv, StoreInOrder, LogReplayable, LogTyped, LogTypeOK
<1>2. PICK new \in ChangeLists(Seen.cache) :
        /\ call' = [call EXCEPT !.stage = "written", !.changes = new]
        /\ memory' = InPlace(new)
        /\ file' = IF call.operation = "replace"
                   THEN Snapshot(Seen.cache \o new)
                   ELSE [file EXCEPT !.records = file.records \o Numbered(new, Seen.sequence)]
  BY DEF Write
<1>3. /\ call'.stage = "written" /\ call'.changes = new /\ call'.operation = call.operation
  BY <1>1, <1>2 DEF CallStates
<1>4. /\ new \in Seq(Changes) /\ Finds(new, Contents(file)) /\ Len(new) \in Nat
      /\ ~Looks => new # <<>>
  BY <1>1, ChangesFind
<1>5. /\ Looks => Seen = Replayed(file)
      /\ Seen.loaded /\ Seen.sequence = LastSequence(file)
      /\ Seen.operations = Len(file.records)
      /\ AfterReadAll = Replayed(file) /\ Seen \in Memories
  BY <1>1, SeenIsFile, ReadAllTyped DEF LogInv, LogTyped
<1>6. /\ Replayed(file).cached /\ Replayed(file).cache = Contents(file)
      /\ Replayed(file).sequence = LastSequence(file)
  BY DEF Replayed
<1>7. /\ InPlace(new).loaded /\ InPlace(new).sequence = LastSequence(file)
      /\ InPlace(new).operations = Len(file.records)
  BY <1>5 DEF InPlace, Memories
<1>8. StoreInOrder'
  BY <1>1, <1>2, <1>3, <1>7 DEF StoreInOrder
<1>9. CASE call.operation = "replace"
  <2>1. Seen = Replayed(file) /\ InPlace(new) = Seen
    BY <1>5, <1>9 DEF Looks, InPlace
  <2>2. Contents(file) \in Seq(Changes) /\ LastSequence(file) \in Nat
    BY <1>1, ContentsOf, LastSequenceOf
  <2>3. Contents(file) \o new \in Seq(Changes)
    BY <1>4, <2>2, ConcatElements
  <2>4. file' = [snapshot |-> Contents(file) \o new, at |-> LastSequence(file),
                 records |-> <<>>, torn |-> FALSE]
    BY <1>2, <1>5, <1>6, <1>9, <2>1 DEF Snapshot
  <2>5. Contents(file') = Contents(file) \o new /\ Replayable(file') /\ ~file'.torn
    BY <2>2, <2>3, <2>4, SnapshotOf
  <2>6. /\ memory'.cached /\ memory'.cache = Contents(file)
        /\ memory'.sequence = LastSequence(file)
    BY <1>2, <1>6, <2>1
  <2> QED BY <1>3, <1>4, <1>8, <1>9, <2>4, <2>5, <2>6 DEF LogReplayable, FieldsFollow
<1>10. CASE call.operation # "replace"
  <2>1. file' = Extended(file, new, FALSE)
    <3>1. file = [snapshot |-> file.snapshot, at |-> file.at, records |-> file.records,
                  torn |-> file.torn]
      BY <1>1 DEF Files
    <3>2. file.torn = FALSE
      BY <1>1 DEF Files
    <3> QED BY <1>2, <1>5, <1>10, <3>1, <3>2 DEF Extended
  <2>2. /\ Contents(file') = Contents(file) \o new
        /\ Len(file'.records) = Len(file.records) + Len(new)
        /\ LastSequence(file') = LastSequence(file) + Len(new)
        /\ Replayable(file')
    BY <1>1, <1>4, <2>1, RecordsAppended, ReplayableAppended
  <2>3. file'.torn = FALSE
    BY <2>1 DEF Extended
  <2>4. ASSUME new = <<>>, memory'.cached PROVE memory'.cache = Contents(file')
    <3>1. Looks /\ Seen.cache = Contents(file)
      BY <1>4, <1>5, <1>6, <2>4
    <3>2. Contents(file) \in Seq(Changes)
      BY <1>1, ContentsOf
    <3>3. Contents(file) \o new = Contents(file)
      BY <2>4, <3>2, ConcatEmptySeq
    <3>4. InPlace(new).cache \in {Contents(file), Contents(file) \o new}
      BY <1>5, <3>1 DEF InPlace, Memories
    <3> QED BY <1>2, <2>2, <3>3, <3>4
  <2> QED BY <1>2, <1>3, <1>4, <1>7, <1>8, <1>10, <2>2, <2>3, <2>4
          DEF LogReplayable, FieldsFollow
<1> QED BY <1>9, <1>10

\* A write that fails leaves the file, and the fields of what was seen of it.
LEMMA WriteFailsStep ==
  ASSUME LogInv, WriteFails, ~BatchFails
  PROVE  LogReplayable' /\ FieldsFollow' /\ StoreInOrder' /\ file' = file
<1>1. /\ call.stage = "ready" /\ memory.loaded
      /\ UNCHANGED <<file, reading>> /\ call.operation \notin {"deltas", "complete"}
      /\ \E new \in ChangeLists(Seen.cache) : memory' = InPlace(new)
      /\ call' = Idle(call)
  BY DEF WriteFails, LogInv, StoreInOrder, BatchFails
<1>2. memory' = Seen
  BY <1>1 DEF InPlace
<1>3. /\ Seen.loaded /\ Seen.sequence = LastSequence(file)
      /\ Seen.operations = Len(file.records)
      /\ Seen.cached => Seen.cache = Contents(file)
  BY <1>1, SeenIsFile
<1>4. call'.stage = "idle"
  BY <1>1 DEF Idle, LogInv, LogTyped, LogTypeOK, CallStates
<1> QED BY <1>1, <1>2, <1>3, <1>4 DEF LogInv, LogReplayable, FieldsFollow, StoreInOrder

\* The caller is told: the fields follow the file.
LEMMA AcknowledgeStep ==
  ASSUME LogInv, Acknowledge
  PROVE  LogReplayable' /\ FieldsFollow' /\ StoreInOrder' /\ file' = file
<1>1. /\ call.stage = "written" /\ memory.loaded
      /\ UNCHANGED <<file, reading>> /\ memory \in Memories
      /\ call' = Idle(call) /\ call \in CallStates
  BY DEF Acknowledge, LogInv, StoreInOrder, LogTyped, LogTypeOK, Memories
<1>2. call'.stage = "idle"
  BY <1>1 DEF Idle, CallStates
<1>3. /\ memory'.loaded /\ memory'.sequence = LastSequence(file)
      /\ memory'.operations = Len(file.records)
      /\ memory'.cached => memory'.cache = Contents(file)
  <2>1. CASE call.operation = "replace"
    <3>1. /\ memory'.loaded /\ memory'.sequence = memory.sequence /\ memory'.operations = 0
          /\ memory'.cache = memory.cache \o call.changes
      BY <1>1, <2>1 DEF Acknowledge, Memories
    <3>2. file = [snapshot |-> memory.cache \o call.changes, at |-> memory.sequence,
                  records |-> <<>>, torn |-> FALSE]
      BY <1>1, <2>1 DEF LogInv, FieldsFollow
    <3>3. /\ memory.cache \in Seq(Changes) /\ call.changes \in Seq(Changes)
          /\ memory.sequence \in Nat
      BY <1>1 DEF Memories, CallStates
    <3>4. memory.cache \o call.changes \in Seq(Changes)
      BY <3>3, ConcatElements
    <3>5. /\ Contents(file) = memory.cache \o call.changes
          /\ LastSequence(file) = memory.sequence /\ Len(file.records) = 0
      <4>1. PICK c \in Seq(Changes) : c = memory.cache \o call.changes
        BY <3>4
      <4>2. PICK n \in Nat : n = memory.sequence
        BY <3>3
      <4>3. file = [snapshot |-> c, at |-> n, records |-> <<>>, torn |-> FALSE]
        BY <3>2, <4>1, <4>2
      <4>4. Contents(file) = c /\ LastSequence(file) = n /\ Len(file.records) = 0
        BY ONLY <4>1, <4>2, <4>3, SnapshotOf
      <4> QED BY <4>1, <4>2, <4>4
    <3> QED BY <3>1, <3>5
  <2>2. CASE call.operation # "replace" /\ call.changes = <<>>
    <3>1. memory' = memory
      BY <1>1, <2>2 DEF Acknowledge
    <3>2. /\ LastSequence(file) = memory.sequence + 0
          /\ Len(file.records) = memory.operations + 0
          /\ memory.cached => memory.cache = Contents(file)
      BY <1>1, <2>2, Len(<<>>) = 0 DEF LogInv, FieldsFollow
    <3>3. memory.sequence \in Nat /\ memory.operations \in Nat
      BY <1>1 DEF Memories
    <3> QED BY <1>1, <3>1, <3>2, <3>3
  <2>3. CASE call.operation # "replace" /\ call.changes # <<>>
    <3>1. /\ memory'.loaded /\ memory'.sequence = LastSequence(file)
          /\ memory'.operations = memory.operations + Len(call.changes)
          /\ ~memory'.cached
      BY <1>1, <2>3 DEF Acknowledge, Memories
    <3> QED BY <1>1, <2>3, <3>1 DEF LogInv, FieldsFollow
  <2> QED BY <2>1, <2>2, <2>3
<1> QED BY <1>1, <1>2, <1>3 DEF LogInv, LogReplayable, FieldsFollow, StoreInOrder

\* The application dies: the file keeps what it holds and perhaps the first
\* records of a batch, the last of them cut off.
LEMMA CrashStep ==
  ASSUME LogInv, Crash
  PROVE  LogReplayable' /\ FieldsFollow' /\ StoreInOrder' /\ Grown
<1>1. /\ memory' = NotLoaded /\ call' = Idle(call) /\ reading' = NotReading
      /\ memory.loaded /\ call \in CallStates /\ file \in Files /\ Replayable(file)
  BY DEF Crash, LogInv, LogTyped, LogTypeOK, LogReplayable
<1>2. ~memory'.loaded /\ ~reading'.under /\ call'.stage = "idle"
  BY <1>1 DEF NotLoaded, NotReading, Idle, CallStates
<1>3. Replayable(file') /\ Grown
  <2>1. CASE UNCHANGED file
    BY <1>1, <2>1, NotGrown
  <2>2. ASSUME call.stage = "ready", NEW new \in ChangeLists(Seen.cache),
               NEW n \in 0..(Len(new) - 1),
               file' = [file EXCEPT !.records =
                 file.records \o SubSeq(Numbered(new, Seen.sequence), 1, n), !.torn = TRUE]
        PROVE  Replayable(file') /\ Grown
    <3>1. /\ new \in Seq(Changes) /\ Finds(new, Contents(file))
          /\ Seen.sequence = LastSequence(file)
      BY <1>1, <2>2, ChangesFind, SeenIsFile
    <3>2. n \in 0..Len(new)
      <4>1. Len(new) \in Nat
        BY <3>1
      <4> QED BY <4>1
    <3>3. LastSequence(file) \in Nat
      BY <1>1, LastSequenceOf
    <3>4. /\ SubSeq(new, 1, n) \in Seq(Changes)
          /\ SubSeq(Numbered(new, LastSequence(file)), 1, n) =
               Numbered(SubSeq(new, 1, n), LastSequence(file))
      BY <3>1, <3>2, <3>3, NumberedPrefix
    <3>5. Finds(SubSeq(new, 1, n), Contents(file))
      BY <3>1, <3>2, FindsPrefix
    <3>6. file' = Extended(file, SubSeq(new, 1, n), TRUE)
      <4>1. file = [snapshot |-> file.snapshot, at |-> file.at, records |-> file.records,
                    torn |-> file.torn]
        BY <1>1 DEF Files
      <4> QED BY <2>2, <3>1, <3>4, <4>1 DEF Extended
    <3>7. Replayable(Extended(file, SubSeq(new, 1, n), TRUE))
      BY <1>1, <3>4, <3>5, ReplayableAppended
    <3>8. Contents(Extended(file, SubSeq(new, 1, n), TRUE)) =
            Contents(file) \o SubSeq(new, 1, n)
      BY <1>1, <3>4, RecordsAppended
    <3> QED BY <3>4, <3>6, <3>7, <3>8 DEF Grown
  <2> QED BY <2>1, <2>2 DEF Crash
<1> QED BY <1>2, <1>3 DEF LogReplayable, FieldsFollow, StoreInOrder

-----------------------------------------------------------------------------
\* What two lists hold, one behind the other.
LEMMA ConcatHolds ==
  ASSUME NEW c \in Seq(Changes), NEW more \in Seq(Changes)
  PROVE  /\ {c[i] : i \in DOMAIN c} \subseteq {(c \o more)[i] : i \in DOMAIN (c \o more)}
         /\ {more[i] : i \in DOMAIN more} \subseteq
              {(c \o more)[i] : i \in DOMAIN (c \o more)}
<1>1. /\ DOMAIN (c \o more) = 1..(Len(c) + Len(more)) /\ Len(c) \in Nat /\ Len(more) \in Nat
      /\ DOMAIN c = 1..Len(c) /\ DOMAIN more = 1..Len(more)
      /\ \A i \in 1..Len(c) : (c \o more)[i] = c[i]
      /\ \A i \in 1..Len(more) : (c \o more)[Len(c) + i] = more[i]
  BY ConcatElements
<1>2. \A k, m \in Nat : /\ \A i \in 1..k : i \in 1..(k + m)
                        /\ \A i \in 1..m : k + i \in 1..(k + m)
  OBVIOUS
<1>3. ASSUME NEW i \in DOMAIN c
      PROVE  c[i] \in {(c \o more)[j] : j \in DOMAIN (c \o more)}
  <2>1. i \in DOMAIN (c \o more) /\ (c \o more)[i] = c[i]
    BY <1>1, <1>2
  <2> QED BY <2>1
<1>4. ASSUME NEW i \in DOMAIN more
      PROVE  more[i] \in {(c \o more)[j] : j \in DOMAIN (c \o more)}
  <2>1. Len(c) + i \in DOMAIN (c \o more) /\ (c \o more)[Len(c) + i] = more[i]
    BY <1>1, <1>2
  <2> QED BY <2>1
<1> QED BY <1>3, <1>4

\* The invariant holds of the empty log.
LEMMA InitLogInv == LogInit => LogInv
<1> SUFFICES ASSUME LogInit PROVE LogInv
  OBVIOUS
<1>1. LogTyped
  BY InitTyped
<1>2. file = [snapshot |-> <<>>, at |-> 0, records |-> <<>>, torn |-> FALSE]
  BY DEF LogInit, NoFile
<1>3. Replayable(file) /\ ~file.torn
  <2>1. <<>> \in Seq(Changes) /\ 0 \in Nat
    OBVIOUS
  <2> QED BY <1>2, <2>1, SnapshotOf
<1>4. ~memory.loaded /\ call.stage = "idle" /\ ~reading.under /\ acked = {}
  BY DEF LogInit, NotLoaded, NotReading
<1> QED BY <1>1, <1>3, <1>4
        DEF LogInv, LogReplayable, FieldsFollow, StoreInOrder, AckedRecorded

\* Every step keeps the invariant, and either the history grows at its end, or
\* what is in it is acknowledged.
LEMMA NextLogInv ==
  ASSUME LogInv, ~StaleReplay, ~BatchFails, LogNext
  PROVE  /\ LogInv'
         /\ \/ Grown /\ acked' = acked
            \/ /\ file' = file /\ acked \subseteq acked'
               /\ acked' \subseteq {Contents(file)[i] : i \in DOMAIN Contents(file)}
<1> DEFINE Recorded == {Contents(file)[i] : i \in DOMAIN Contents(file)}
           Written == {call.changes[i] : i \in DOMAIN call.changes}
<1>1. LogTyped'
  BY NextTyped DEF LogInv
<1>2. file \in Files /\ call \in CallStates /\ Contents(file) \in Seq(Changes)
  BY ContentsOf DEF LogInv, LogTyped, LogTypeOK
<1>3. acked \subseteq Recorded /\ (call.stage = "written" => Written \subseteq Recorded)
  BY DEF LogInv, AckedRecorded
<1>4. ASSUME Grown PROVE Recorded \subseteq Recorded'
  <2>1. PICK more \in Seq(Changes) : Contents(file') = Contents(file) \o more
    BY <1>4 DEF Grown
  <2> QED BY <1>2, <2>1, ConcatHolds
<1>5. ASSUME LogReplayable', FieldsFollow', StoreInOrder', Grown, acked' = acked,
             call'.stage # "written"
      PROVE  LogInv'
  BY <1>1, <1>3, <1>4, <1>5 DEF LogInv, AckedRecorded
<1>6. Idle(call).stage = "idle"
  BY <1>2 DEF Idle, CallStates
<1>7. CASE \/ \E o \in Operations, s \in Segments, n \in 1..BatchSize : Begin(o, s, n)
           \/ ReadFile \/ Replay
  <2>1. /\ LogReplayable' /\ FieldsFollow' /\ StoreInOrder' /\ Grown /\ acked' = acked
    BY <1>7, ReadSteps, NotGrown DEF Begin, ReadFile, Replay
  <2>2. call'.stage # "written"
    <3>1. CASE \E o \in Operations, s \in Segments, n \in 1..BatchSize : Begin(o, s, n)
      BY <3>1 DEF Begin
    <3>2. CASE ReadFile
      BY <3>2 DEF ReadFile
    <3>3. CASE Replay
      BY <3>3 DEF Replay, StaleReplay, Stale
    <3> QED BY <1>7, <3>1, <3>2, <3>3
  <2> QED BY <1>5, <2>1, <2>2
<1>8. CASE Load
  <2>1. call'.stage # "written" /\ acked' = acked
    BY <1>8 DEF Load, LogInv, StoreInOrder
  <2> QED BY <1>5, <1>8, <2>1, LoadStep
<1>9. CASE Compact \/ CompactionFails
  <2>1. call'.stage # "written" /\ acked' = acked
    BY <1>2, <1>6, <1>9 DEF Compact, CompactionFails, CallStates
  <2> QED BY <1>5, <1>9, <2>1, CompactSteps
<1>10. CASE Write
  <2>1. /\ LogReplayable' /\ FieldsFollow' /\ StoreInOrder'
        /\ call'.changes \in Seq(Changes)
        /\ Contents(file') = Contents(file) \o call'.changes
    BY <1>10, WriteStep
  <2>2. Grown /\ acked' = acked
    BY <1>10, <2>1 DEF Grown, Write
  <2>3. Written' \subseteq Recorded'
    <3>1. PICK more \in Seq(Changes) : more = call'.changes
      BY <2>1
    <3>2. {more[i] : i \in DOMAIN more} \subseteq Recorded'
      <4>1. {more[i] : i \in DOMAIN more} \subseteq
              {(Contents(file) \o more)[i] : i \in DOMAIN (Contents(file) \o more)}
        BY <1>2, ConcatHolds
      <4>2. Contents(file)' = Contents(file) \o more
        BY <2>1, <3>1
      <4> QED BY <4>1, <4>2
    <3> QED BY <3>1, <3>2
  <2>4. AckedRecorded'
    BY <1>3, <1>4, <2>2, <2>3 DEF AckedRecorded
  <2> QED BY <1>1, <2>1, <2>2, <2>4 DEF LogInv
<1>11. CASE WriteFails
  <2>1. call'.stage # "written" /\ acked' = acked
    BY <1>6, <1>11 DEF WriteFails
  <2> QED BY <1>5, <1>11, <2>1, WriteFailsStep, NotGrown
<1>12. CASE Acknowledge
  <2>1. /\ call.stage = "written" /\ acked' = acked \cup Written /\ call' = Idle(call)
    BY <1>12 DEF Acknowledge
  <2>2. /\ LogReplayable' /\ FieldsFollow' /\ StoreInOrder' /\ file' = file
    BY <1>12, AcknowledgeStep
  <2>3. acked \subseteq acked' /\ acked' \subseteq Recorded
    BY <1>3, <2>1
  <2>4. AckedRecorded'
    BY <1>6, <2>1, <2>2, <2>3 DEF AckedRecorded
  <2> QED BY <1>1, <2>2, <2>3, <2>4 DEF LogInv
<1>13. CASE Crash
  <2>1. call'.stage # "written" /\ acked' = acked
    BY <1>6, <1>13 DEF Crash
  <2> QED BY <1>5, <1>13, <2>1, CrashStep
<1> QED BY <1>7, <1>8, <1>9, <1>10, <1>11, <1>12, <1>13 DEF LogNext

\* So does a step that changes nothing.
LEMMA SameLogInv == ASSUME LogInv, UNCHANGED logVars PROVE LogInv'
<1>1. LogTyped'
  BY DEF logVars, LogInv, LogTyped, LogTypeOK
<1>2. LogReplayable' /\ FieldsFollow' /\ AckedRecorded'
  BY DEF logVars, LogInv, LogReplayable, FieldsFollow, AckedRecorded
<1>3. StoreInOrder'
  BY DEF logVars, LogInv, StoreInOrder
<1> QED BY <1>1, <1>2, <1>3 DEF LogInv

-----------------------------------------------------------------------------
\* The fields and the file keep their types, whatever overlaps and whatever
\* fails: a number is never lost to a value that is none.
THEOREM LogTypeCorrect == LogSpec => []LogTypeOK
<1>1. LogTyped => LogTypeOK
  BY DEF LogTyped
<1> QED BY <1>1, InitTyped, NextTyped, PTL DEF LogSpec

\* The inductive invariant of the log while no read replays what an operation
\* has left behind and no batch fails to be written, for any segments, batch
\* size, number of operations and compaction limit.
THEOREM LogInductive == LogSpec /\ Undisturbed => []LogInv
<1>1. LogInv /\ [LogNext]_logVars /\ [~StaleReplay /\ ~BatchFails]_logVars => LogInv'
  BY NextLogInv, SameLogInv
<1> QED BY <1>1, InitLogInv, PTL DEF LogSpec, Undisturbed

\* Whatever crashes, compactions, reads and failed appends and replacements
\* there were, the file can be replayed and nothing is written behind a torn
\* record, as long as no read replays what an operation has left behind and no
\* batch fails to be written.
THEOREM LogAlwaysReplayable == LogSpec /\ Undisturbed => []LogReplayable
<1>1. LogInv => LogReplayable
  BY DEF LogInv
<1> QED BY <1>1, LogInductive, PTL

\* Between two operations the fields of the store describe the file, as long as
\* no read replays what an operation has left behind and no batch fails.
THEOREM FieldsCorrect == LogSpec /\ Undisturbed => []FieldsAgree
<1>1. LogInv => FieldsAgree
  BY DEF LogInv, FieldsFollow, FieldsAgree
<1> QED BY <1>1, LogInductive, PTL

\* A history that grew at its end is the old one followed by something.
LEMMA GrownIsGrow ==
  ASSUME NEW c \in Seq(Changes), NEW more \in Seq(Changes), NEW d, d = c \o more
  PROVE  Len(d) >= Len(c) /\ SubSeq(d, 1, Len(c)) = c
<1>1. /\ d \in Seq(Changes) /\ Len(d) = Len(c) + Len(more)
      /\ Len(c) \in Nat /\ Len(more) \in Nat
      /\ \A i \in 1..Len(c) : d[i] = c[i]
  BY ConcatElements
<1>2. Len(d) >= Len(c) /\ Len(c) \in 0..Len(d)
  BY <1>1
<1>3. /\ SubSeq(d, 1, Len(c)) \in Seq(Changes) /\ Len(SubSeq(d, 1, Len(c))) = Len(c)
      /\ \A i \in 1..Len(c) : SubSeq(d, 1, Len(c))[i] = d[i]
  BY <1>1, <1>2
<1>4. SubSeq(d, 1, Len(c)) = c
  BY <1>1, <1>3, SeqEqual
<1> QED BY <1>2, <1>4

\* Every step of the store is a step of the history or none.
LEMMA HistoryStep ==
  ASSUME LogInv, [LogNext]_logVars, [~StaleReplay /\ ~BatchFails]_logVars
  PROVE  [History!Grow \/ History!Acknowledge]_(History!historyVars)
<1>1. CASE UNCHANGED logVars
  BY <1>1 DEF logVars, History!historyVars
<1>2. CASE Grown /\ acked' = acked
  <2>1. PICK more \in Seq(Changes) : Contents(file') = Contents(file) \o more
    BY <1>2 DEF Grown
  <2>2. Contents(file) \in Seq(Changes)
    BY ContentsOf DEF LogInv, LogTyped, LogTypeOK
  <2>3. /\ Len(Contents(file')) >= Len(Contents(file))
        /\ SubSeq(Contents(file'), 1, Len(Contents(file))) = Contents(file)
    BY <2>1, <2>2, GrownIsGrow
  <2> QED BY <1>2, <2>3 DEF History!Grow
<1>3. CASE /\ file' = file /\ acked \subseteq acked'
           /\ acked' \subseteq {Contents(file)[i] : i \in DOMAIN Contents(file)}
  BY <1>3 DEF History!Acknowledge, History!Recorded
<1> QED BY <1>1, <1>2, <1>3, NextLogInv

\* The empty log is the empty history.
LEMMA HistoryInitially == LogInit => History!HistoryInit
<1> SUFFICES ASSUME LogInit PROVE Contents(file) = <<>> /\ acked = {}
  BY DEF History!HistoryInit
<1>1. file = [snapshot |-> <<>>, at |-> 0, records |-> <<>>, torn |-> FALSE]
  BY DEF LogInit, NoFile
<1>2. <<>> \in Seq(Changes) /\ 0 \in Nat
  OBVIOUS
<1> QED BY <1>1, <1>2, SnapshotOf DEF LogInit

\* Appends, batches, completions, replacements, compactions, repairs, failed
\* appends and replacements and crashes together never lose, reorder or alter
\* what a caller was told is recorded, as long as no read replays what an
\* operation has left behind and no batch fails to be written.
THEOREM ImplementsHistory == LogSpec /\ Undisturbed => HistoryRefined
<1>1. LogInv /\ [LogNext]_logVars /\ [~StaleReplay /\ ~BatchFails]_logVars =>
        [History!Grow \/ History!Acknowledge]_(History!historyVars)
  BY HistoryStep
<1> QED BY <1>1, LogInductive, HistoryInitially, PTL
        DEF LogSpec, Undisturbed, HistoryRefined, History!HistorySpec

-----------------------------------------------------------------------------
(* The turn claims *)

Preparing == {"claimed", "opening", "ready"}

RunningWasRequested ==
  \A u \in Turns :
    cli[u] = "running" => caller[u] \in {"starting", "recording", "done", "untracked"}

RemoteKeepsClaim ==
  \A u \in Remote : caller[u] \in Preparing =>
    \/ Owns(u) /\ ~claims[TaskOf[u]].bound
    \/ Untracked(TaskOf[u])

IInv ==
  /\ ClaimTypeOK
  /\ RunningWasRequested
  /\ RemoteKeepsClaim
  /\ ClaimHeldWhileRunning

\* What the inductive invariant is for: it is stronger than both properties.
LEMMA HeldGivesOne == ClaimHeldWhileRunning => OneTurnPerTask
  BY DEF ClaimHeldWhileRunning, OneTurnPerTask, Owns

\* Nobody holds or wants a claim at the start.
LEMMA InitIInv == ClaimInit => IInv
  BY ClaimAssumption DEF ClaimInit, IInv, ClaimTypeOK, RunningWasRequested,
     RemoteKeepsClaim, ClaimHeldWhileRunning, UnderWay, Owns, Unclaimed,
     CallerStates, CliStates, Preparing

\* Releasing a token touches the claim of no other turn.
LEMMA ReleasedFacts ==
  ASSUME ClaimTypeOK, NEW u \in Turns, NEW v \in Turns, v # u, Owns(v)
  PROVE  Released(u)[TaskOf[v]] = claims[TaskOf[v]]
  BY ClaimAssumption DEF ClaimTypeOK, Released, Owns

\* An untracked turn stays one, and its task with it.
LEMMA UntrackedStays ==
  ASSUME \A v \in Turns : caller[v] = "untracked" => caller'[v] = "untracked", NEW t \in Tasks, Untracked(t)
  PROVE  Untracked(t)'
  BY DEF Untracked, OfTask

\* A turn that has been let go of is the only one whose claim is touched.
LEMMA LetGoKeeps ==
  ASSUME IInv, NEW u \in Turns, LetGo(u), UNCHANGED <<cli, sessions>>,
         caller[u] \in {"starting", "recording"}
  PROVE  IInv'
<1> USE ClaimAssumption DEF IInv
<1>1. ClaimTypeOK'
  BY DEF LetGo, Released, Unclaimed, ClaimTypeOK, CallerStates
<1>2. RunningWasRequested'
  BY DEF LetGo, ClaimTypeOK, RunningWasRequested
<1>3. \A v \in Turns : v # u /\ Owns(v) => claims'[TaskOf[v]] = claims[TaskOf[v]]
  BY ReleasedFacts DEF LetGo
<1>4. \A t \in Tasks : Untracked(t) => Untracked(t)'
  BY UntrackedStays DEF LetGo, ClaimTypeOK
<1>5. cli[u] = "running" => Untracked(TaskOf[u])'
  BY DEF LetGo, ClaimTypeOK, Untracked, OfTask
<1>6. \A v \in Turns : v # u => caller'[v] = caller[v]
  BY DEF LetGo, ClaimTypeOK
<1>7. caller'[u] \notin Preparing \cup {"starting"}
  BY DEF LetGo, ClaimTypeOK, Preparing
<1>8. RemoteKeepsClaim'
  BY <1>3, <1>4, <1>6, <1>7 DEF ClaimTypeOK, RemoteKeepsClaim, Owns
<1>9. ClaimHeldWhileRunning'
  BY <1>3, <1>4, <1>5, <1>6, <1>7 DEF ClaimTypeOK, ClaimHeldWhileRunning, UnderWay, Owns
<1> QED BY <1>1, <1>2, <1>8, <1>9

\* One step of the entry points, the CLI or its process keeps the invariant.
LEMMA StepIInv == IInv /\ [ClaimNext]_claimVars => IInv'
<1> SUFFICES ASSUME IInv, [ClaimNext]_claimVars PROVE IInv'
  OBVIOUS
<1> USE ClaimAssumption DEF IInv
<1>0. \A t \in Tasks : Untracked(t) => Untracked(t)'
  <2>1. \A v \in Turns : caller[v] = "untracked" => caller'[v] = "untracked"
    BY DEF ClaimNext, Claim, Prepare, AttachmentsResolved, SessionOpened, PreparationFails, RequestTurn,
       TurnBegins, Answered, TurnRecorded, LetGo, Refused, RejectionHandled, TurnEnds, ProcessExit, ProcessShutdown,
       Rejecting, ClaimTypeOK, claimVars
  <2> QED BY <2>1, UntrackedStays
<1>1. ASSUME NEW u \in Turns, Claim(u) PROVE IInv'
  <2> DEFINE b == u \notin Remote /\ TaskOf[u] \in sessions
  <2>1. /\ claims[TaskOf[u]].turn = NoTurn
        /\ claims' = [claims EXCEPT ![TaskOf[u]] = [turn |-> u, bound |-> b]]
        /\ caller' = [caller EXCEPT ![u] = "claimed"]
        /\ caller[u] = "idle"
        /\ UNCHANGED <<cli, sessions>>
    BY <1>1 DEF Claim
  <2>2. b \in BOOLEAN /\ (u \in Remote => ~b)
    OBVIOUS
  <2> HIDE DEF b
  <2>3. ClaimTypeOK'
    BY <2>1, <2>2 DEF ClaimTypeOK, CallerStates
  <2>4. RunningWasRequested'
    BY <2>1 DEF ClaimTypeOK, RunningWasRequested
  <2>5. \A v \in Turns : v # u /\ Owns(v) => claims'[TaskOf[v]] = claims[TaskOf[v]]
    BY <2>1 DEF ClaimTypeOK, Owns
  <2>6. claims'[TaskOf[u]].turn = u /\ (u \in Remote => ~claims'[TaskOf[u]].bound)
    BY <2>1, <2>2 DEF ClaimTypeOK
  <2>7. RemoteKeepsClaim'
    BY <1>0, <2>1, <2>5, <2>6 DEF ClaimTypeOK, RemoteKeepsClaim, Owns, Preparing
  <2>8. ClaimHeldWhileRunning'
    BY <1>0, <2>1, <2>5, <2>6 DEF ClaimTypeOK, ClaimHeldWhileRunning, UnderWay, Owns
  <2> QED BY <2>3, <2>4, <2>7, <2>8
<1>2. ASSUME NEW u \in Turns, AttachmentsResolved(u) \/ SessionOpened(u)
      PROVE  IInv'
  BY <1>0, <1>2 DEF AttachmentsResolved, SessionOpened, ClaimTypeOK, CallerStates,
     RunningWasRequested, RemoteKeepsClaim, ClaimHeldWhileRunning, UnderWay, Owns,
     Preparing
<1>3. ASSUME NEW u \in Turns, PreparationFails(u) PROVE IInv'
  <2>1. ClaimTypeOK'
    BY <1>3 DEF PreparationFails, Released, Unclaimed, ClaimTypeOK, CallerStates
  <2>2. RunningWasRequested' /\ ~UnderWay(u)'
    BY <1>3 DEF PreparationFails, ClaimTypeOK, RunningWasRequested, UnderWay
  <2>3. \A v \in Turns : v # u /\ Owns(v) => claims'[TaskOf[v]] = claims[TaskOf[v]]
    BY <1>3, ReleasedFacts DEF PreparationFails
  <2>4. RemoteKeepsClaim'
    BY <1>0, <1>3, <2>3 DEF PreparationFails, ClaimTypeOK, RemoteKeepsClaim, Owns, Preparing
  <2>5. ClaimHeldWhileRunning'
    BY <1>0, <1>3, <2>2, <2>3 DEF PreparationFails, ClaimTypeOK, ClaimHeldWhileRunning,
       UnderWay, Owns
  <2> QED BY <2>1, <2>2, <2>4, <2>5
<1>4. ASSUME NEW u \in Turns, RequestTurn(u) PROVE IInv'
  <2>1. ClaimTypeOK'
    <3>1. \/ claims' = claims
          \/ claims' = [claims EXCEPT ![TaskOf[u]] = [turn |-> u, bound |-> TRUE]]
      BY <1>4 DEF RequestTurn
    <3>2. [turn |-> u, bound |-> TRUE] \in [turn : Turns \cup {NoTurn}, bound : BOOLEAN]
      OBVIOUS
    <3>3. claims' \in [Tasks -> [turn : Turns \cup {NoTurn}, bound : BOOLEAN]]
      <4> DEFINE r == [turn |-> u, bound |-> TRUE]
                 R == [turn : Turns \cup {NoTurn}, bound : BOOLEAN]
      <4>1. claims \in [Tasks -> R] /\ r \in R
        BY <3>2 DEF ClaimTypeOK
      <4>2. claims' = claims \/ claims' = [claims EXCEPT ![TaskOf[u]] = r]
        BY <3>1
      <4> HIDE DEF r, R
      <4>3. claims' \in [Tasks -> R]
        BY <4>1, <4>2
      <4> QED BY <4>3 DEF R
    <3> QED BY <1>4, <3>3 DEF RequestTurn, ClaimTypeOK, CallerStates
  <2>2. RunningWasRequested'
    BY <1>4 DEF RequestTurn, ClaimTypeOK, RunningWasRequested
  <2>3. RemoteKeepsClaim'
    BY <1>0, <1>4 DEF RequestTurn, ClaimTypeOK, RemoteKeepsClaim, Owns, Preparing
  <2>4. ClaimHeldWhileRunning'
    BY <1>0, <1>4 DEF RequestTurn, ClaimTypeOK, RemoteKeepsClaim, ClaimHeldWhileRunning,
       UnderWay, Owns, Preparing
  <2> QED BY <2>1, <2>2, <2>3, <2>4
<1>5. ASSUME NEW u \in Turns, Answered(u) \/ TurnRecorded(u) \/ Refused(u) \/ TurnBegins(u) PROVE IInv'
  <2>1. CASE LetGo(u) /\ (Answered(u) \/ TurnRecorded(u))
    <3>1. UNCHANGED <<cli, sessions>> /\ caller[u] \in {"starting", "recording"}
      BY <2>1 DEF Answered, TurnRecorded
    <3> QED BY <2>1, <3>1, LetGoKeeps
  <2>2. CASE ~LetGo(u)
    BY <1>0, <1>5, <2>2 DEF Answered, TurnRecorded, Refused, TurnBegins, ClaimTypeOK, CallerStates, CliStates,
       RunningWasRequested, RemoteKeepsClaim, ClaimHeldWhileRunning, UnderWay, Owns, Preparing
  <2>3. CASE LetGo(u) /\ ~Answered(u) /\ ~TurnRecorded(u)
    BY <1>0, <1>5, <2>3 DEF LetGo, Refused, TurnBegins, ClaimTypeOK, CallerStates, CliStates,
       RunningWasRequested, RemoteKeepsClaim, ClaimHeldWhileRunning, UnderWay, Owns, Preparing
  <2> QED BY <2>1, <2>2, <2>3
<1>6. ASSUME NEW u \in Turns, RejectionHandled(u) PROVE IInv'
  <2>1. ClaimTypeOK'
    BY <1>6 DEF RejectionHandled, Released, Unclaimed, ClaimTypeOK, CallerStates
  <2>2. RunningWasRequested' /\ ~UnderWay(u)'
    BY <1>6 DEF RejectionHandled, ClaimTypeOK, RunningWasRequested, UnderWay
  <2>3. \A v \in Turns : v # u /\ Owns(v) => claims'[TaskOf[v]] = claims[TaskOf[v]]
    BY <1>6, ReleasedFacts DEF RejectionHandled
  <2>4. RemoteKeepsClaim'
    BY <1>0, <1>6, <2>3 DEF RejectionHandled, ClaimTypeOK, RemoteKeepsClaim, Owns, Preparing
  <2>5. ClaimHeldWhileRunning'
    BY <1>0, <1>6, <2>2, <2>3 DEF RejectionHandled, ClaimTypeOK, ClaimHeldWhileRunning,
       UnderWay, Owns
  <2> QED BY <2>1, <2>2, <2>4, <2>5
<1>7. ASSUME NEW u \in Turns, TurnEnds(u) PROVE IInv'
  <2>1. Owns(u) \/ Untracked(TaskOf[u])
    BY <1>7 DEF TurnEnds, ClaimHeldWhileRunning, UnderWay
  <2>2. ClaimTypeOK' /\ RunningWasRequested'
    BY <1>7 DEF TurnEnds, Observed, Unclaimed, ClaimTypeOK, RunningWasRequested, CliStates
  <2>3. \A v \in Turns : v # u /\ Owns(v) => \/ claims'[TaskOf[v]] = claims[TaskOf[v]]
                                             \/ Untracked(TaskOf[v])
    BY <1>7, <2>1 DEF TurnEnds, Observed, ClaimTypeOK, Owns
  <2>4. RemoteKeepsClaim'
    BY <1>0, <1>7, <2>3 DEF TurnEnds, ClaimTypeOK, RunningWasRequested, RemoteKeepsClaim,
       Owns, Preparing
  <2>5. ClaimHeldWhileRunning'
    BY <1>0, <1>7, <2>3 DEF TurnEnds, ClaimTypeOK, ClaimHeldWhileRunning, UnderWay, Owns
  <2> QED BY <2>2, <2>4, <2>5
<1>8. ASSUME NEW t \in Tasks, ProcessExit(t) PROVE IInv'
  <2>1. ClaimTypeOK'
    BY <1>8 DEF ProcessExit, SessionReleased, Rejecting, StoppedIn, Unclaimed, ClaimTypeOK,
       CallerStates, CliStates
  <2>2. RunningWasRequested'
    BY <1>8 DEF ProcessExit, Rejecting, StoppedIn, OfTask, ClaimTypeOK, RunningWasRequested
  <2>3. RemoteKeepsClaim'
    BY <1>0, <1>8 DEF ProcessExit, SessionReleased, Rejecting, OfTask, ClaimTypeOK,
       RemoteKeepsClaim, Owns, Preparing
  <2>4. ClaimHeldWhileRunning'
    BY <1>0, <1>8 DEF ProcessExit, SessionReleased, Rejecting, StoppedIn, OfTask, ClaimTypeOK,
       ClaimHeldWhileRunning, UnderWay, Owns
  <2> QED BY <2>1, <2>2, <2>3, <2>4
<1>9. ASSUME NEW t \in Tasks, ProcessShutdown(t) PROVE IInv'
  <2>1. ClaimTypeOK' /\ RunningWasRequested'
    BY <1>9 DEF ProcessShutdown, Rejecting, StoppedIn, OfTask, ClaimTypeOK, CallerStates, CliStates,
       RunningWasRequested
  <2>2. RemoteKeepsClaim'
    BY <1>0, <1>9 DEF ProcessShutdown, Rejecting, OfTask, ClaimTypeOK, RemoteKeepsClaim,
       Owns, Preparing
  <2>3. ClaimHeldWhileRunning'
    BY <1>0, <1>9 DEF ProcessShutdown, Rejecting, StoppedIn, OfTask, ClaimTypeOK,
       ClaimHeldWhileRunning, UnderWay, Owns
  <2> QED BY <2>1, <2>2, <2>3
<1>10. CASE UNCHANGED claimVars
  BY <1>10 DEF claimVars, ClaimTypeOK, RunningWasRequested, RemoteKeepsClaim,
     ClaimHeldWhileRunning, UnderWay, Owns, Untracked
<1> QED
  BY <1>1, <1>2, <1>3, <1>4, <1>5, <1>6, <1>7, <1>8, <1>9, <1>10
  DEF ClaimNext, Prepare

\* The strengthening holds in every reachable state.
THEOREM ClaimInductive == ClaimSpec => []IInv
  BY InitIInv, StepIInv, PTL DEF ClaimSpec

\* Types, for every set of tasks and turns.
THEOREM ClaimTypeCorrect == ClaimSpec => []ClaimTypeOK
<1>1. IInv => ClaimTypeOK BY DEF IInv
<1> QED BY ClaimInductive, <1>1, PTL

\* A turn under way holds the claim of its task, whichever entry point made it
\* and whatever events and exits come in between, as long as no turn of the task
\* was let go while it ran.
THEOREM ClaimKept == ClaimSpec => []ClaimHeldWhileRunning
<1>1. IInv => ClaimHeldWhileRunning BY DEF IInv
<1> QED BY ClaimInductive, <1>1, PTL

\* A task never runs two turns together, as long as none was let go while it ran.
THEOREM OneTurn == ClaimSpec => []OneTurnPerTask
<1>1. IInv => OneTurnPerTask BY HeldGivesOne DEF IInv
<1> QED BY ClaimInductive, <1>1, PTL
=============================================================================
