--------------------------- MODULE KeepingProofs ----------------------------
(*****************************************************************************)
(* What is given or recorded is kept: proofs about the queued prompts of a   *)
(* task, its record, drafts and their attachments, the files users keep, the *)
(* checkpoints of a workspace and their undo, the pages of a project, and    *)
(* the start, the end and the scheduler of the application.                  *)
(*****************************************************************************)
EXTENDS PromptQueue, TaskRecords, StoredFiles, Checkpoints, ProjectPanels, AppLifecycle, Composer,
        WellFoundedInduction, FiniteSetTheorems, SequenceTheorems, TLAPS

-----------------------------------------------------------------------------
(* Sequences *)

\* A set of natural numbers with an element has a least one.
LEMMA LeastNatural ==
  ASSUME NEW T \in SUBSET Nat, T # {}
  PROVE  \E x \in T : \A y \in T : x <= y
<1>1. IsWellFoundedOn(OpToRel(<, Nat), Nat)
  BY NatLessThanWellFounded
<1>2. PICK x \in T : \A y \in T : ~(<<y, x>> \in OpToRel(<, Nat))
  BY <1>1, WFMin
<1>3. \A y \in T : ~(y < x)
  BY <1>2 DEF OpToRel
<1> QED BY <1>3

\* What is left of a sequence from which an element is removed.
LEMMA RemoveFirstFacts ==
  ASSUME NEW S, NEW s \in Seq(S), NEW e
  PROVE  /\ RemoveFirst(s, e) \in Seq(S)
         /\ \A x \in ToSet(s) \ {e} : x \in ToSet(RemoveFirst(s, e))
<1>1. CASE \A i \in 1..Len(s) : s[i] # e
  BY <1>1 DEF RemoveFirst
<1>2. CASE \E i \in 1..Len(s) : s[i] = e
  <2> DEFINE I == {i \in 1..Len(s) : s[i] = e}
             m == Min(I)
  <2>1. m \in I
    <3>1. I \in SUBSET Nat /\ I # {}
      BY <1>2
    <3>2. \E x \in I : \A y \in I : x <= y
      BY <3>1, LeastNatural
    <3> QED BY <3>2 DEF Min
  <2>2. RemoveFirst(s, e) = RemoveAt(s, m)
    BY <1>2 DEF RemoveFirst, SelectInSeq
  <2>3. m \in 1..Len(s) /\ s[m] = e
    BY <2>1
  <2> HIDE DEF m
  <2> DEFINE a == SubSeq(s, 1, m - 1)
             b == SubSeq(s, m + 1, Len(s))
  <2>4. /\ a \in Seq(S) /\ Len(a) = m - 1 /\ \A j \in 1..(m - 1) : a[j] = s[j]
    BY <2>3
  <2>5. /\ b \in Seq(S) /\ Len(b) = Len(s) - m /\ \A j \in 1..(Len(s) - m) : b[j] = s[m + j]
    BY <2>3
  <2>6. RemoveFirst(s, e) = a \o b
    BY <2>2 DEF RemoveAt
  <2> HIDE DEF a, b
  <2>7. a \o b \in Seq(S)
    BY <2>4, <2>5
  <2>8. ASSUME NEW x \in ToSet(s) \ {e} PROVE x \in ToSet(a \o b)
    <3>1. PICK i \in 1..Len(s) : s[i] = x
      BY DEF ToSet
    <3>2. CASE i < m
      <4>1. i \in 1..Len(a \o b) /\ (a \o b)[i] = x
        BY <2>3, <2>4, <2>5, <3>1, <3>2
      <4> QED BY <4>1 DEF ToSet
    <3>3. CASE i > m
      <4>1. i - m \in 1..Len(b) /\ b[i - m] = s[m + (i - m)]
        BY <2>3, <2>5, <3>1, <3>3
      <4>2. m + (i - m) = i /\ Len(a) + (i - m) = i - 1
        BY <2>3, <2>4, <3>1, <3>3
      <4>3. i - 1 \in 1..Len(a \o b) /\ i - 1 > Len(a)
        BY <2>3, <2>4, <2>5, <3>1, <3>3
      <4>4. (a \o b)[i - 1] = b[i - 1 - Len(a)]
        BY <2>4, <2>5, <4>3
      <4>5. i - 1 - Len(a) = i - m
        BY <2>3, <2>4, <3>1
      <4>6. (a \o b)[i - 1] = x
        BY <3>1, <4>1, <4>2, <4>4, <4>5
      <4> QED BY <4>3, <4>6 DEF ToSet
    <3>4. i # m
      BY <2>3, <3>1
    <3> QED BY <2>3, <3>1, <3>2, <3>3, <3>4
  <2> QED BY <2>6, <2>7, <2>8
<1> QED BY <1>1, <1>2

\* An element goes behind those of a sequence.
LEMMA AppendFacts ==
  ASSUME NEW S, NEW s \in Seq(S), NEW e \in S
  PROVE  /\ Append(s, e) \in Seq(S)
         /\ e \in ToSet(Append(s, e))
         /\ \A x \in ToSet(s) : x \in ToSet(Append(s, e)) /\ Head(Append(s, e)) = Head(s)
<1>1. Append(s, e) \in Seq(S) /\ Len(Append(s, e)) = Len(s) + 1
  OBVIOUS
<1>2. Append(s, e)[Len(s) + 1] = e
  OBVIOUS
<1>3. \A i \in 1..Len(s) : Append(s, e)[i] = s[i]
  OBVIOUS
<1>4. e \in ToSet(Append(s, e))
  <2>1. Len(s) + 1 \in 1..Len(Append(s, e))
    BY <1>1
  <2> QED BY <1>2, <2>1 DEF ToSet
<1>5. ASSUME NEW x \in ToSet(s) PROVE x \in ToSet(Append(s, e)) /\ Head(Append(s, e)) = Head(s)
  <2>1. PICK i \in 1..Len(s) : s[i] = x
    BY DEF ToSet
  <2>2. i \in 1..Len(Append(s, e)) /\ Append(s, e)[i] = x
    BY <1>1, <1>3, <2>1
  <2>3. s # <<>>
    BY <2>1
  <2>4. Head(Append(s, e)) = Head(s)
    BY <2>3
  <2> QED BY <2>2, <2>4 DEF ToSet
<1> QED BY <1>1, <1>4, <1>5

-----------------------------------------------------------------------------
(* The queued prompts of a task *)

\* The prompt of a dispatch that has started its turn counts as done. Unless the
\* claim of a running turn was let go, a turn that runs keeps the claim, alone,
\* and a dispatch that is starting its turn has it.
DispatchesInOrder ==
  /\ \A d \in Dispatches : dispatch[d].at = "started" => dispatch[d].prompt \in done
  /\ loose \/ /\ openTurns # {} => claimOf = "kept"
              /\ \A p, q \in openTurns : p = q
              /\ \A d \in Dispatches : dispatch[d].at = "starting" => claimOf = d

\* What becomes of a prompt that has been queued.
PromptsHeld == \A p \in Prompts : arriving[p] = "over" => p \in ToSet(storedQueue) \cup done

DispatchTypes ==
  /\ dispatch \in [Dispatches -> Party]
  /\ \A d \in Dispatches : dispatch[d].at # "idle" => dispatch[d].prompt \in Prompts

QueueTypes ==
  /\ storedQueue \in Seq(Prompts) /\ memory \in Seq(Prompts)
  /\ arriving \in [Prompts -> {"no", "composer", "remote", "over"}]

QueueInv == QueueTypes /\ DispatchTypes /\ DispatchesInOrder /\ PromptsHeld

\* A step in which the stored queue grows, or loses a prompt that is done.
LEMMA QueueHeld ==
  ASSUME PromptsHeld, storedQueue \in Seq(Prompts), NEW p \in Prompts,
         \/ storedQueue' = storedQueue
         \/ storedQueue' = Append(storedQueue, p)
         \/ storedQueue' = RemoveFirst(storedQueue, p) /\ p \in done',
         done \subseteq done',
         \A q \in Prompts : arriving'[q] = "over" =>
            arriving[q] = "over" \/ (q = p /\ storedQueue' = Append(storedQueue, p))
  PROVE  storedQueue' \in Seq(Prompts) /\ PromptsHeld'
<1>1. storedQueue' \in Seq(Prompts)
  BY AppendFacts, RemoveFirstFacts
<1>2. ASSUME NEW q \in Prompts, q \in ToSet(storedQueue)
      PROVE  q \in ToSet(storedQueue') \cup done'
  <2>1. CASE storedQueue' = storedQueue
    BY <1>2, <2>1
  <2>2. CASE storedQueue' = Append(storedQueue, p)
    BY <1>2, <2>2, AppendFacts
  <2>3. CASE storedQueue' = RemoveFirst(storedQueue, p) /\ p \in done'
    <3>1. CASE q = p
      BY <2>3, <3>1
    <3>2. CASE q # p
      BY <1>2, <2>3, <3>2, RemoveFirstFacts
    <3> QED BY <3>1, <3>2
  <2> QED BY <2>1, <2>2, <2>3
<1>3. storedQueue' = Append(storedQueue, p) => p \in ToSet(storedQueue')
  BY AppendFacts
<1> QED BY <1>1, <1>2, <1>3 DEF PromptsHeld

\* What a step makes of one dispatch.
DispatchBecomes(d, new) ==
  /\ dispatch' \in [Dispatches -> Party] /\ dispatch'[d] = new
  /\ \A e \in Dispatches \ {d} : dispatch'[e] = dispatch[e]

LEMMA DispatchSteps ==
  ASSUME DispatchTypes, NEW d \in Dispatches
  PROVE  /\ DispatchOver(d) => DispatchBecomes(d, NoParty)
         /\ \A at \in {"starting", "started"} : DispatchGoesOn(d, at) =>
              DispatchBecomes(d, [by |-> dispatch[d].by, at |-> at, prompt |-> dispatch[d].prompt])
         /\ \A by \in {"composer", "remote"}, p \in Prompts :
              dispatch' = [dispatch EXCEPT ![d] = [by |-> by, at |-> "claiming", prompt |-> p]]
              => DispatchBecomes(d, [by |-> by, at |-> "claiming", prompt |-> p])
<1> USE DEF DispatchTypes, DispatchBecomes
<1>1. DispatchOver(d) => DispatchBecomes(d, NoParty)
  BY DEF DispatchOver, NoParty, Party
<1>2. ASSUME NEW at \in {"starting", "started"}, DispatchGoesOn(d, at)
      PROVE  DispatchBecomes(d, [by |-> dispatch[d].by, at |-> at, prompt |-> dispatch[d].prompt])
  <2>1. dispatch[d] \in Party
    OBVIOUS
  <2>2. dispatch' = [dispatch EXCEPT ![d] = [by |-> dispatch[d].by, at |-> at, prompt |-> dispatch[d].prompt]]
    <3>1. dispatch[d] = [by |-> dispatch[d].by, at |-> dispatch[d].at, prompt |-> dispatch[d].prompt]
      BY <2>1 DEF Party
    <3>2. [dispatch[d] EXCEPT !.at = at] = [by |-> dispatch[d].by, at |-> at, prompt |-> dispatch[d].prompt]
      BY <3>1
    <3>3. dispatch' = [dispatch EXCEPT ![d] = [dispatch[d] EXCEPT !.at = at]]
      BY <1>2 DEF DispatchGoesOn
    <3> QED BY <3>2, <3>3
  <2> QED BY <2>1, <2>2 DEF Party
<1>3. ASSUME NEW by \in {"composer", "remote"}, NEW p \in Prompts,
             dispatch' = [dispatch EXCEPT ![d] = [by |-> by, at |-> "claiming", prompt |-> p]]
      PROVE  DispatchBecomes(d, [by |-> by, at |-> "claiming", prompt |-> p])
  BY <1>3 DEF Party
<1> QED BY <1>1, <1>2, <1>3

\* The invariant holds at first.
LEMMA QueueInvInit == QueueInit => QueueInv
BY DEF QueueInit, QueueInv, QueueTypes, DispatchTypes, DispatchesInOrder, PromptsHeld, NoParty, Party

\* A step that leaves the queue as it is keeps what concerns the queue.
LEMMA QueueUnmoved ==
  ASSUME QueueTypes, PromptsHeld, UNCHANGED Lists, done \subseteq done'
  PROVE  QueueTypes' /\ PromptsHeld'
BY DEF QueueTypes, PromptsHeld, Lists

\* A message is dispatched.
LEMMA PickKeeps ==
  ASSUME QueueInv, NEW i \in DOMAIN memory, Picks(i), done' = done,
         loose' \/ (UNCHANGED <<openTurns, claimOf, loose>> \/ (openTurns' = {} /\ \A d \in Dispatches : dispatch[d].at # "starting"))
  PROVE  DispatchTypes' /\ DispatchesInOrder'
<1>1. memory[i] \in Prompts
  BY DEF QueueInv, QueueTypes
<1>2. PICK d \in Dispatches :
        dispatch' = [dispatch EXCEPT ![d] = [by |-> "composer", at |-> "claiming", prompt |-> memory[i]]]
  BY DEF Picks
<1>3. DispatchBecomes(d, [by |-> "composer", at |-> "claiming", prompt |-> memory[i]])
  BY <1>1, <1>2, DispatchSteps DEF QueueInv
<1> QED BY <1>1, <1>3 DEF DispatchBecomes, QueueInv, DispatchTypes, DispatchesInOrder

\* A step that leaves the turns and the dispatches as they are keeps what
\* concerns them.
LEMMA TurnsUnmoved ==
  ASSUME DispatchTypes, DispatchesInOrder, UNCHANGED <<Turning, dispatch>>, done \subseteq done'
  PROVE  DispatchTypes' /\ DispatchesInOrder'
BY DEF DispatchTypes, DispatchesInOrder, Turning

\* The end of a turn keeps the invariant.
LEMMA TurnEndKeeps == ASSUME QueueInv, NEW p \in openTurns, TurnEnds(p) PROVE QueueInv'
<1>1. QueueTypes /\ DispatchTypes /\ DispatchesInOrder /\ PromptsHeld
  BY DEF QueueInv
<1>2. PromptsHeld' /\ UNCHANGED <<storedQueue, arriving, done>>
  BY <1>1 DEF TurnEnds, PromptsHeld
<1>3. loose' \/ (openTurns' = {} /\ \A d \in Dispatches : dispatch[d].at # "starting")
  <2>1. CASE loose
    BY <2>1 DEF TurnEnds
  <2>2. CASE ~loose
    <3>1. claimOf = "kept" /\ openTurns' = {}
      BY <1>1, <2>2 DEF TurnEnds, DispatchesInOrder
    <3> QED BY <1>1, <2>2, <3>1, QueueAssumption DEF QueueAssumption, DispatchesInOrder
  <2> QED BY <2>1, <2>2
<1>4. CASE UNCHANGED <<dispatch, memory>>
  <2>1. QueueTypes' /\ DispatchTypes'
    BY <1>1, <1>2, <1>4 DEF QueueTypes, DispatchTypes
  <2>2. DispatchesInOrder'
    BY <1>1, <1>2, <1>3, <1>4 DEF DispatchesInOrder
  <2> QED BY <1>2, <2>1, <2>2 DEF QueueInv
<1>5. CASE \E i \in DOMAIN memory : Picks(i) /\ memory' = IF i = 1 THEN memory ELSE RemoveAt(memory, i)
  <2>1. PICK i \in DOMAIN memory : Picks(i) /\ memory' = IF i = 1 THEN memory ELSE RemoveAt(memory, i)
    BY <1>5
  <2>2. DispatchTypes' /\ DispatchesInOrder'
    BY <1>2, <1>3, <2>1, PickKeeps
  <2>3. memory' \in Seq(Prompts)
    <3>1. i \in 1..Len(memory) /\ memory \in Seq(Prompts)
      BY <1>1 DEF QueueTypes
    <3> QED BY <2>1, <3>1 DEF RemoveAt
  <2> QED BY <1>1, <1>2, <2>2, <2>3 DEF QueueInv, QueueTypes
<1> QED BY <1>4, <1>5 DEF TurnEnds

\* A dispatch keeps the invariant, at each of its steps.
LEMMA DispatchKeeps ==
  ASSUME QueueInv, NEW d \in Dispatches, Claims(d) \/ StartFails(d) \/ Starts(d) \/ DispatchEnds(d)
  PROVE  QueueInv'
<1>1. QueueTypes /\ DispatchTypes /\ DispatchesInOrder /\ PromptsHeld
  BY DEF QueueInv
<1>2. dispatch[d] \in Party /\ (dispatch[d].at # "idle" => dispatch[d].prompt \in Prompts)
  BY <1>1 DEF DispatchTypes
<1> DEFINE Now(at) == [by |-> dispatch[d].by, at |-> at, prompt |-> dispatch[d].prompt]
<1>3. /\ DispatchOver(d) => DispatchBecomes(d, NoParty)
      /\ \A at \in {"starting", "started"} : DispatchGoesOn(d, at) => DispatchBecomes(d, Now(at))
  BY <1>1, DispatchSteps
<1>4. /\ DispatchOver(d) => DispatchTypes'
      /\ dispatch[d].at # "idle" => \A at \in {"starting", "started"} : DispatchGoesOn(d, at) => DispatchTypes'
  BY <1>1, <1>2, <1>3 DEF DispatchBecomes, DispatchTypes, NoParty
<1> HIDE DEF Now
<1>5. CASE Claims(d)
  <2>1. QueueTypes' /\ PromptsHeld' /\ UNCHANGED <<openTurns, loose, done>>
    BY <1>1, <1>5, QueueUnmoved DEF Claims
  <2>2. CASE DispatchOver(d) /\ UNCHANGED claimOf
    <3>1. DispatchesInOrder'
      BY <1>1, <1>3, <2>1, <2>2 DEF DispatchBecomes, DispatchesInOrder, NoParty
    <3> QED BY <1>4, <2>1, <2>2, <3>1 DEF QueueInv
  <2>3. CASE claimOf = "none" /\ claimOf' = d /\ DispatchGoesOn(d, "starting")
    <3>1. DispatchBecomes(d, Now("starting")) /\ DispatchTypes'
      BY <1>3, <1>4, <1>5, <2>3 DEF Claims
    <3>2. loose \/ (openTurns = {} /\ \A e \in Dispatches : dispatch[e].at # "starting")
      BY <1>1, <2>3, QueueAssumption DEF QueueAssumption, DispatchesInOrder
    <3>3. DispatchesInOrder'
      BY <1>1, <2>1, <2>3, <3>1, <3>2 DEF DispatchBecomes, DispatchesInOrder, Now
    <3> QED BY <2>1, <3>1, <3>3 DEF QueueInv
  <2> QED BY <1>5, <2>2, <2>3 DEF Claims
<1>6. CASE StartFails(d)
  <2>1. QueueTypes' /\ PromptsHeld' /\ UNCHANGED <<openTurns, loose, done>> /\ DispatchOver(d)
    BY <1>1, <1>6, QueueUnmoved DEF StartFails
  <2>2. loose \/ (claimOf = d /\ openTurns = {})
    BY <1>1, <1>6, QueueAssumption DEF QueueAssumption, StartFails, DispatchesInOrder
  <2>3. DispatchesInOrder'
    BY <1>1, <1>3, <2>1, <2>2 DEF DispatchBecomes, DispatchesInOrder, NoParty
  <2> QED BY <1>4, <2>1, <2>3 DEF QueueInv
<1>7. CASE Starts(d)
  <2>1. done \subseteq done' /\ dispatch[d].prompt \in done' /\ UNCHANGED Lists /\ dispatch[d].at = "starting"
        /\ openTurns' = openTurns \cup {dispatch[d].prompt}
    BY <1>7 DEF Starts
  <2>2. QueueTypes' /\ PromptsHeld'
    BY <1>1, <2>1, QueueUnmoved
  <2>3. loose \/ (claimOf = d /\ openTurns = {})
    BY <1>1, <1>7, QueueAssumption DEF QueueAssumption, Starts, DispatchesInOrder
  <2>4. PICK named \in BOOLEAN, recorded \in BOOLEAN :
          LET keeps == named /\ (recorded \/ dispatch[d].by = "composer") IN
            /\ claimOf' = IF claimOf # d THEN claimOf ELSE IF keeps THEN "kept" ELSE "none"
            /\ loose' = (loose \/ ~keeps)
            /\ IF recorded THEN DispatchGoesOn(d, "started") ELSE DispatchOver(d)
    BY <1>7 DEF Starts
  <2>5. loose' \/ (~loose /\ claimOf' = "kept" /\ claimOf = d /\ openTurns = {})
    BY <2>3, <2>4
  <2>6. DispatchTypes' /\ (DispatchBecomes(d, Now("started")) \/ DispatchBecomes(d, NoParty))
    BY <1>3, <1>4, <2>1, <2>4
  <2>7. DispatchesInOrder'
    <3>1. \A e \in Dispatches : dispatch'[e].at = "started" => dispatch'[e].prompt \in done'
      BY <1>1, <2>1, <2>6 DEF DispatchBecomes, DispatchesInOrder, NoParty, Now
    <3>2. ASSUME ~loose' PROVE \A e \in Dispatches : dispatch'[e].at # "starting"
      BY <1>1, <2>5, <2>6, <3>2 DEF DispatchBecomes, DispatchesInOrder, NoParty, Now
    <3> QED BY <2>1, <2>5, <3>1, <3>2 DEF DispatchesInOrder
  <2> QED BY <2>2, <2>6, <2>7 DEF QueueInv
<1>8. CASE DispatchEnds(d)
  <2>1. dispatch[d].prompt \in Prompts /\ dispatch[d].prompt \in done /\ DispatchOver(d) /\ UNCHANGED <<arriving, Turning, done>>
    BY <1>1, <1>2, <1>8 DEF DispatchEnds, DispatchesInOrder
  <2>2. storedQueue' \in Seq(Prompts) /\ PromptsHeld'
    BY <1>1, <1>8, <2>1, QueueHeld DEF DispatchEnds, Dequeue, QueueTypes
  <2>3. memory' \in Seq(Prompts)
    BY <1>1, <1>8, RemoveFirstFacts DEF DispatchEnds, QueueTypes
  <2>4. DispatchesInOrder'
    BY <1>1, <1>3, <2>1 DEF DispatchBecomes, DispatchesInOrder, NoParty, Turning
  <2> QED BY <1>1, <1>4, <2>1, <2>2, <2>3, <2>4 DEF QueueInv, QueueTypes
<1> QED BY <1>5, <1>6, <1>7, <1>8

\* Every step keeps the invariant.
LEMMA QueueInvStep == QueueInv /\ [QueueNext]_queueVars => QueueInv'
<1> SUFFICES ASSUME QueueInv, [QueueNext]_queueVars PROVE QueueInv'
  OBVIOUS
<1>a. QueueTypes /\ DispatchTypes /\ DispatchesInOrder /\ PromptsHeld
  BY DEF QueueInv
<1>1. CASE StatusStored \/ UNCHANGED queueVars
  <2>1. UNCHANGED Lists /\ UNCHANGED <<Turning, dispatch>> /\ done' = done
    BY <1>1 DEF StatusStored, queueVars, Lists, Turning, Dispatching
  <2> QED BY <1>a, <2>1, QueueUnmoved, TurnsUnmoved DEF QueueInv
<1>2. CASE SteerIdle
  <2>1. UNCHANGED Lists /\ UNCHANGED Turning /\ done' = done
    BY <1>2 DEF SteerIdle
  <2>2. UNCHANGED <<openTurns, claimOf, loose>>
    BY <2>1 DEF Turning
  <2>3. DispatchTypes' /\ DispatchesInOrder'
    BY <1>2, <2>1, <2>2, PickKeeps DEF SteerIdle
  <2> QED BY <1>a, <2>1, <2>3, QueueUnmoved DEF QueueInv
<1>3. CASE DrainReads
  <2>1. UNCHANGED Lists /\ UNCHANGED Turning /\ done' = done
    BY <1>3 DEF DrainReads
  <2>2. CASE UNCHANGED dispatch
    BY <1>a, <2>1, <2>2, QueueUnmoved, TurnsUnmoved DEF QueueInv
  <2>3. CASE storedQueue # <<>> /\ \E d \in Dispatches :
               dispatch' = [dispatch EXCEPT ![d] = [by |-> "remote", at |-> "claiming", prompt |-> Head(storedQueue)]]
    <3>1. Head(storedQueue) \in Prompts
      BY <1>a, <2>3 DEF QueueTypes
    <3>2. PICK d \in Dispatches :
            dispatch' = [dispatch EXCEPT ![d] = [by |-> "remote", at |-> "claiming", prompt |-> Head(storedQueue)]]
      BY <2>3
    <3>3. DispatchBecomes(d, [by |-> "remote", at |-> "claiming", prompt |-> Head(storedQueue)])
      BY <1>a, <3>1, <3>2, DispatchSteps
    <3>4. DispatchTypes' /\ DispatchesInOrder'
      BY <1>a, <2>1, <3>1, <3>3 DEF DispatchBecomes, DispatchTypes, DispatchesInOrder, Turning
    <3> QED BY <1>a, <2>1, <3>4, QueueUnmoved DEF QueueInv
  <2> QED BY <1>3, <2>2, <2>3 DEF DrainReads
<1>4. CASE SelectTask
  <2>1. UNCHANGED <<Turning, dispatch, storedQueue, arriving, done>> /\ memory' \in Seq(Prompts)
    BY <1>a, <1>4 DEF SelectTask, Dispatching, QueueTypes
  <2>2. DispatchTypes' /\ DispatchesInOrder'
    BY <1>a, <2>1, TurnsUnmoved
  <2> QED BY <1>a, <2>1, <2>2 DEF QueueInv, QueueTypes, PromptsHeld
<1>5. ASSUME NEW p \in openTurns, TurnEnds(p) PROVE QueueInv'
  BY <1>5, TurnEndKeeps
<1>6. ASSUME NEW d \in Dispatches, Claims(d) \/ StartFails(d) \/ Starts(d) \/ DispatchEnds(d) PROVE QueueInv'
  BY <1>6, DispatchKeeps
<1>7. ASSUME NEW p \in Prompts, QueuePrompt(p) \/ PromptQueued(p) \/ RemoveQueuedMessage(p) \/ EditFails(p)
      PROVE  QueueInv'
  <2>1. UNCHANGED <<Turning, dispatch>> /\ done \subseteq done'
    BY <1>7 DEF QueuePrompt, PromptQueued, RemoveQueuedMessage, EditFails, Dispatching
  <2>2. DispatchTypes' /\ DispatchesInOrder'
    BY <1>a, <2>1, TurnsUnmoved
  <2>3. storedQueue' \in Seq(Prompts) /\ PromptsHeld'
    <3>1. CASE QueuePrompt(p)
      BY <1>a, <3>1 DEF QueuePrompt, QueueTypes, PromptsHeld
    <3>2. CASE PromptQueued(p)
      BY <1>a, <3>2, QueueHeld DEF PromptQueued, QueueTypes
    <3>3. CASE RemoveQueuedMessage(p)
      BY <1>a, <3>3, QueueHeld DEF RemoveQueuedMessage, Dequeue, QueueTypes
    <3>4. CASE EditFails(p)
      BY <1>a, <3>4 DEF EditFails, QueueTypes, PromptsHeld
    <3> QED BY <1>7, <3>1, <3>2, <3>3, <3>4
  <2>4. memory' \in Seq(Prompts)
    <3>1. CASE QueuePrompt(p)
      BY <1>a, <3>1 DEF QueuePrompt, QueueTypes
    <3>4. CASE PromptQueued(p)
      BY <1>a, <3>4 DEF PromptQueued, QueueTypes
    <3>2. CASE RemoveQueuedMessage(p)
      BY <1>a, <3>2, RemoveFirstFacts DEF RemoveQueuedMessage, QueueTypes
    <3>3. CASE EditFails(p)
      <4>1. RemoveFirst(memory, p) \in Seq(Prompts) /\ <<p>> \in Seq(Prompts)
        BY <1>a, RemoveFirstFacts DEF QueueTypes
      <4> QED BY <3>3, <4>1, ConcatProperties DEF EditFails
    <3> QED BY <1>7, <3>1, <3>2, <3>3, <3>4
  <2>5. arriving' \in [Prompts -> {"no", "composer", "remote", "over"}]
    BY <1>a, <1>7 DEF QueuePrompt, PromptQueued, RemoveQueuedMessage, EditFails, QueueTypes
  <2> QED BY <2>2, <2>3, <2>4, <2>5 DEF QueueInv, QueueTypes
<1> QED BY <1>1, <1>2, <1>3, <1>4, <1>5, <1>6, <1>7 DEF QueueNext

\* The specification keeps it.
LEMMA QueueIsKept == QueueSpec => []QueueInv
BY QueueInvInit, QueueInvStep, PTL DEF QueueSpec

\* A queued prompt stays queued until it has been started or removed, and no two
\* dispatches start a turn at the same time, unless the claim of a running turn
\* has been let go.
THEOREM PromptsAreKept == QueueSpec => []QueuedPromptsKept
<1>1. QueueInv => QueuedPromptsKept
  BY DEF QueueInv, DispatchesInOrder, PromptsHeld, QueuedPromptsKept
<1> QED BY <1>1, QueueIsKept, PTL

\* Whose the turns and the claim are.
ClaimsOK ==
  /\ done \subseteq Prompts /\ openTurns \subseteq Prompts \cup {Direct}
  /\ claimOf \in Dispatches \cup {"none", "kept"}
TurnsOK == turns \in 0..MaxTurns
TaskFlags == {busyTask, drainDue, taskShown, loose} \subseteq BOOLEAN

\* Each step gives a turn to a prompt, and the claim to a dispatch.
LEMMA ClaimsKeep == QueueInv /\ ClaimsOK /\ [QueueNext]_queueVars => ClaimsOK'
<1> SUFFICES ASSUME QueueInv, ClaimsOK, [QueueNext]_queueVars PROVE ClaimsOK'
  OBVIOUS
<1> USE DEF ClaimsOK
<1>1. ASSUME NEW d \in Dispatches, Claims(d) \/ StartFails(d) \/ DispatchEnds(d) PROVE ClaimsOK'
  BY <1>1 DEF Claims, StartFails, DispatchEnds, Turning
<1>2. ASSUME NEW d \in Dispatches, Starts(d) PROVE ClaimsOK'
  <2>1. dispatch[d].prompt \in Prompts
    BY <1>2 DEF Starts, QueueInv, DispatchTypes
  <2> QED BY <1>2, <2>1 DEF Starts
<1>3. ASSUME NEW p \in Prompts, QueuePrompt(p) \/ PromptQueued(p) \/ RemoveQueuedMessage(p) \/ EditFails(p)
      PROVE  ClaimsOK'
  BY <1>3 DEF QueuePrompt, PromptQueued, RemoveQueuedMessage, EditFails, Turning
<1>4. ASSUME NEW p \in openTurns, TurnEnds(p) PROVE ClaimsOK'
  BY <1>4 DEF TurnEnds
<1>5. CASE StatusStored \/ SelectTask \/ SteerIdle \/ DrainReads \/ UNCHANGED queueVars
  BY <1>5 DEF StatusStored, SelectTask, SteerIdle, DrainReads, Turning, queueVars
<1> QED BY <1>1, <1>2, <1>3, <1>4, <1>5 DEF QueueNext

\* Each step counts the turns up to the bound.
LEMMA ClaimTurnsKeep == TurnsOK /\ [QueueNext]_queueVars => TurnsOK'
<1> SUFFICES ASSUME TurnsOK, [QueueNext]_queueVars PROVE TurnsOK'
  OBVIOUS
<1>1. ASSUME turns' = turns PROVE TurnsOK'
  BY <1>1 DEF TurnsOK
<1>2. ASSUME NEW d \in Dispatches, Starts(d) PROVE TurnsOK'
  <2>1. turns < MaxTurns /\ turns' = turns + 1
    BY <1>2 DEF Starts
  <2> QED BY <2>1, QueueAssumption DEF QueueAssumption, TurnsOK
<1> QED BY <1>1, <1>2 DEF QueueNext, QueuePrompt, PromptQueued, RemoveQueuedMessage, EditFails, TurnEnds, StatusStored,
           SelectTask, SteerIdle, DrainReads, Claims, StartFails, DispatchEnds, Turning, queueVars

\* Each step sets the flags to a truth value.
LEMMA TaskFlagsKeep == TaskFlags /\ [QueueNext]_queueVars => TaskFlags'
<1> SUFFICES ASSUME TaskFlags, [QueueNext]_queueVars PROVE TaskFlags'
  OBVIOUS
<1> USE DEF TaskFlags
<1>1. ASSUME NEW d \in Dispatches, Claims(d) \/ StartFails(d) \/ Starts(d) \/ DispatchEnds(d) PROVE TaskFlags'
  <2>1. drainDue' = drainDue /\ busyTask' = busyTask /\ taskShown' = taskShown
    BY <1>1, Zenon DEF Claims, StartFails, Starts, DispatchEnds, DispatchOver, DispatchGoesOn
  <2>2. loose' \in BOOLEAN
    BY <1>1, Zenon DEF Claims, StartFails, Starts, DispatchEnds, Turning
  <2> QED BY <2>1, <2>2
<1>2. ASSUME NEW p \in Prompts, QueuePrompt(p) \/ PromptQueued(p) \/ RemoveQueuedMessage(p) \/ EditFails(p)
      PROVE  TaskFlags'
  BY <1>2 DEF QueuePrompt, PromptQueued, RemoveQueuedMessage, EditFails, Turning, Dispatching
<1>3. ASSUME NEW p \in openTurns, TurnEnds(p) PROVE TaskFlags'
  BY <1>3 DEF TurnEnds
<1>4. CASE StatusStored \/ SelectTask \/ SteerIdle \/ DrainReads \/ UNCHANGED queueVars
  BY <1>4 DEF StatusStored, SelectTask, SteerIdle, DrainReads, Turning, Dispatching, queueVars
<1> QED BY <1>1, <1>2, <1>3, <1>4 DEF QueueNext

\* The variables of the queue keep their types.
THEOREM QueueTypeCorrect == QueueSpec => []QueueTypeOK
<1>1. QueueInit => ClaimsOK /\ TurnsOK /\ TaskFlags
  <2>1. QueueInit => TurnsOK
    BY QueueAssumption DEF QueueAssumption, QueueInit, TurnsOK
  <2> QED BY <2>1 DEF QueueInit, ClaimsOK, TaskFlags
<1>2. QueueInv /\ ClaimsOK /\ TurnsOK /\ TaskFlags => QueueTypeOK
  BY DEF QueueInv, QueueTypes, DispatchTypes, ClaimsOK, TurnsOK, TaskFlags, QueueTypeOK
<1> QED BY <1>1, <1>2, QueueIsKept, ClaimsKeep, ClaimTurnsKeep, TaskFlagsKeep, PTL DEF QueueSpec

-----------------------------------------------------------------------------
(* The record of a task *)

\* The fields the argument reads.
RecordTypes ==
  /\ title \in [source : {"automatic", "manual"}, by : {"nobody", "prompt", "user", "model"},
                status : {"not_started", "generating", "completed", "failed"}]
  /\ cursor \in Nat /\ numbered \in Seq(Nat) /\ mutations \in Seq(Jobs)
  /\ reading \in [job : Jobs \cup {NoJob}, at : {"start", "logging", "saving"}, cursor : Nat]
  /\ faulty \in BOOLEAN

\* A prompt that is being sent when the user's title is stored found the task
\* untitled, and so is one that overtakes it.
TitleIsTheirs ==
  title.source = "manual" =>
    /\ title.by = "user" \/ (overtaken = TRUE /\ title.by = "prompt")
    /\ slug # "no" => overtaken = TRUE

\* The event that has read the cursor is the mutation that runs.
ReadingRuns ==
  /\ reading.at = "start" <=> reading.job = NoJob
  /\ reading.job # NoJob =>
       mutations # <<>> /\ Head(mutations) = reading.job /\ reading.job.kind = "event"

\* As long as no write has failed, the log ends where the cursor is, or where
\* the running event has just put it.
CursorFollows ==
  faulty = FALSE =>
    /\ \A i \in 1..Len(numbered) : numbered[i] = i
    /\ reading.at = "start" => Len(numbered) = cursor
    /\ reading.at = "logging" => Len(numbered) = cursor /\ reading.cursor = cursor + 1
    /\ reading.at = "saving" => Len(numbered) = cursor + 1 /\ reading.cursor = cursor + 1

RecordInv == RecordTypes /\ TitleIsTheirs /\ ReadingRuns /\ CursorFollows

\* A job that is chained goes behind those that are there.
LEMMA ChainedKeeps ==
  ASSUME RecordTypes, ReadingRuns, CursorFollows, NEW job \in Jobs, Chained(job),
         UNCHANGED <<cursor, numbered, reading, faulty>>
  PROVE  mutations' \in Seq(Jobs) /\ ReadingRuns' /\ CursorFollows'
<1>1. mutations' \in Seq(Jobs) /\ mutations' # <<>>
  BY DEF Chained, RecordTypes
<1>2. mutations # <<>> => Head(mutations') = Head(mutations)
  BY DEF Chained, RecordTypes
<1> QED BY <1>1, <1>2 DEF ReadingRuns, CursorFollows

\* A job other than an event that runs and leaves: no event is being recorded.
LEMMA LeaveKeeps ==
  ASSUME RecordTypes, ReadingRuns, CursorFollows, NEW job \in Jobs, job.kind # "event",
         Running(job), Leave(job), UNCHANGED <<cursor, numbered, reading, faulty>>
  PROVE  mutations' \in Seq(Jobs) /\ ReadingRuns' /\ CursorFollows'
<1>1. reading.job = NoJob
  BY DEF ReadingRuns, Running
<1>2. mutations' \in Seq(Jobs)
  BY RemoveFirstFacts DEF Leave, RecordTypes
<1> QED BY <1>1, <1>2 DEF ReadingRuns, CursorFollows

\* The four steps of an event.
LEMMA EventKeeps ==
  ASSUME RecordInv, NEW e \in Events, EventStep(e) PROVE RecordInv'
<1> DEFINE job == Job("event", e)
<1>1. job \in Jobs /\ job.kind = "event" /\ job # NoJob
  BY DEF Jobs, NoJob, Job
<1>2. mutations # <<>> /\ Head(mutations) = job /\ UNCHANGED <<title, slug, overtaken>>
  BY DEF EventStep, Running
<1>3. reading.job # NoJob => reading.job = job
  BY <1>2 DEF RecordInv, ReadingRuns
<1>4. TitleIsTheirs'
  BY <1>2 DEF RecordInv, TitleIsTheirs
<1> USE DEF RecordInv
<1>5. CASE /\ reading.job # job
           /\ reading' = [job |-> job, at |-> "logging", cursor |-> cursor + 1]
           /\ UNCHANGED <<cursor, numbered, mutations, faulty>>
  <2> HIDE DEF job
  <2>1. reading.job = NoJob /\ reading.at = "start"
    BY <1>3, <1>5 DEF ReadingRuns
  <2>2. RecordTypes'
    BY <1>1, <1>2, <1>5 DEF RecordTypes
  <2> QED BY <1>1, <1>2, <1>4, <1>5, <2>1, <2>2 DEF RecordTypes, ReadingRuns, CursorFollows
<1>6. CASE /\ reading.job = job /\ reading.at = "logging"
           /\ numbered' = Append(numbered, reading.cursor)
           /\ reading' = [reading EXCEPT !.at = "saving"]
           /\ UNCHANGED <<cursor, mutations, faulty>>
  <2> HIDE DEF job
  <2>1. reading'.job = job /\ reading'.at = "saving" /\ reading'.cursor = reading.cursor
    BY <1>6 DEF RecordTypes
  <2>2. RecordTypes'
    BY <1>1, <1>2, <1>6 DEF RecordTypes
  <2>3. Len(numbered') = Len(numbered) + 1 /\ numbered'[Len(numbered) + 1] = reading.cursor
        /\ \A i \in 1..Len(numbered) : numbered'[i] = numbered[i]
    BY <1>6 DEF RecordTypes
  <2>4. ReadingRuns'
    BY <1>1, <1>2, <1>6, <2>1 DEF ReadingRuns
  <2>5. CursorFollows'
    BY <1>6, <2>1, <2>3 DEF RecordTypes, CursorFollows
  <2> QED BY <1>4, <2>2, <2>4, <2>5
<1>7. CASE /\ reading.job = job /\ reading.at = "saving"
           /\ cursor' = reading.cursor /\ reading' = NotReading
           /\ Leave(job) /\ UNCHANGED <<numbered, faulty>>
  <2> HIDE DEF job
  <2>1. mutations' \in Seq(Jobs)
    BY <1>7, RemoveFirstFacts DEF Leave, RecordTypes
  <2>2. RecordTypes' /\ ReadingRuns'
    BY <1>2, <1>7, <2>1 DEF RecordTypes, ReadingRuns, NotReading
  <2>3. CursorFollows'
    BY <1>7 DEF RecordTypes, CursorFollows, NotReading
  <2> QED BY <1>4, <2>2, <2>3
<1>8. CASE /\ reading.job = job /\ reading' = NotReading
           /\ Leave(job) /\ faulty' = TRUE /\ UNCHANGED <<cursor, numbered>>
  <2> HIDE DEF job
  <2>1. mutations' \in Seq(Jobs)
    BY <1>8, RemoveFirstFacts DEF Leave, RecordTypes
  <2> QED BY <1>2, <1>4, <1>8, <2>1 DEF RecordTypes, ReadingRuns, CursorFollows, NotReading
<1> QED BY <1>5, <1>6, <1>7, <1>8 DEF EventStep

\* The invariant holds at first.
LEMMA RecordInvInit == RecordInit => RecordInv
<1> SUFFICES ASSUME RecordInit PROVE RecordInv
  OBVIOUS
<1>1. numbered = <<>> /\ numbered \in Seq(Nat) /\ Len(numbered) = 0 /\ mutations \in Seq(Jobs)
  BY DEF RecordInit
<1>2. reading = NotReading /\ cursor = 0
  BY DEF RecordInit
<1>3. ReadingRuns /\ CursorFollows
  BY <1>1, <1>2 DEF ReadingRuns, CursorFollows, NotReading
<1>4. RecordTypes /\ TitleIsTheirs
  <2>1. reading \in [job : Jobs \cup {NoJob}, at : {"start", "logging", "saving"}, cursor : Nat]
    BY <1>2 DEF NotReading
  <2>2. PICK b \in {"nobody", "prompt"} :
          title = [source |-> "automatic", by |-> b, status |-> "not_started"]
    BY DEF RecordInit
  <2>3. faulty = FALSE
    BY DEF RecordInit
  <2> QED BY <1>1, <1>2, <2>1, <2>2, <2>3 DEF RecordTypes, TitleIsTheirs
<1> QED BY <1>3, <1>4 DEF RecordInv

\* Every step keeps the invariant.
LEMMA RecordInvStep == RecordInv /\ [RecordNext]_recordVars => RecordInv'
<1> SUFFICES ASSUME RecordInv, [RecordNext]_recordVars PROVE RecordInv'
  OBVIOUS
<1> USE DEF RecordInv
<1>0. /\ Job("rename", "user") \in Jobs /\ Job("rename", "user").kind # "event"
      /\ Job("slug", "user") \in Jobs /\ Job("slug", "user").kind # "event"
      /\ \A e \in Events : Job("event", e) \in Jobs
      /\ \A e \in Ends : \A k \in {"claim", "complete", "fail"} :
           Job(k, e) \in Jobs /\ Job(k, e).kind # "event"
  BY DEF Job, Jobs
<1>1. CASE Rename
  <2>1. mutations' \in Seq(Jobs) /\ ReadingRuns' /\ CursorFollows'
    BY <1>0, <1>1, ChainedKeeps DEF Rename
  <2> QED BY <1>1, <2>1 DEF Rename, RecordTypes, TitleIsTheirs
<1>2. CASE RenameRuns
  <2>1. mutations' \in Seq(Jobs) /\ ReadingRuns' /\ CursorFollows'
    BY <1>0, <1>2, LeaveKeeps DEF RenameRuns
  <2> QED BY <1>2, <2>1 DEF RenameRuns, RecordTypes, TitleIsTheirs
<1>3. CASE RecordsRestart
  BY <1>3 DEF RecordsRestart, RecordTypes, TitleIsTheirs, ReadingRuns, CursorFollows, NotReading
<1>4. ASSUME NEW e \in Events, AppendEvent(e) PROVE RecordInv'
  <2>1. mutations' \in Seq(Jobs) /\ ReadingRuns' /\ CursorFollows'
    BY <1>0, <1>4, ChainedKeeps DEF AppendEvent
  <2> QED BY <1>4, <2>1 DEF AppendEvent, RecordTypes, TitleIsTheirs
<1>5. ASSUME NEW e \in Events, EventStep(e) PROVE RecordInv'
  BY <1>5, EventKeeps
<1>6. ASSUME NEW e \in Ends, ObserveTurnCompleted(e) PROVE RecordInv'
  <2>1. CASE UNCHANGED mutations
    BY <1>6, <2>1 DEF ObserveTurnCompleted, RecordTypes, TitleIsTheirs, ReadingRuns, CursorFollows
  <2>2. CASE Chained(Job("claim", e))
    <3>1. mutations' \in Seq(Jobs) /\ ReadingRuns' /\ CursorFollows'
      BY <1>0, <1>6, <2>2, ChainedKeeps DEF ObserveTurnCompleted
    <3> QED BY <1>6, <3>1 DEF ObserveTurnCompleted, RecordTypes, TitleIsTheirs
  <2> QED BY <1>6, <2>1, <2>2 DEF ObserveTurnCompleted
<1>7. ASSUME NEW e \in Ends, ClaimRuns(e) PROVE RecordInv'
  <2>1. mutations' \in Seq(Jobs) /\ ReadingRuns' /\ CursorFollows'
    BY <1>0, <1>7, LeaveKeeps DEF ClaimRuns
  <2> QED BY <1>7, <2>1 DEF ClaimRuns, RecordTypes, TitleIsTheirs
<1>8. ASSUME NEW e \in Ends, TitleAnswered(e) PROVE RecordInv'
  <2>0. PICK how \in {"complete", "fail"} : Chained(Job(how, e))
    BY <1>8 DEF TitleAnswered
  <2>1. mutations' \in Seq(Jobs) /\ ReadingRuns' /\ CursorFollows'
    BY <1>0, <1>8, <2>0, ChainedKeeps DEF TitleAnswered
  <2> QED BY <1>8, <2>1 DEF TitleAnswered, RecordTypes, TitleIsTheirs
<1>9. ASSUME NEW e \in Ends, SettleRuns(e) PROVE RecordInv'
  <2>0. PICK how \in {"complete", "fail"} :
          Running(Job(how, e)) /\ Leave(Job(how, e)) /\ title' = Settles(how)
    BY <1>9 DEF SettleRuns
  <2>1. mutations' \in Seq(Jobs) /\ ReadingRuns' /\ CursorFollows'
    BY <1>0, <1>9, <2>0, LeaveKeeps DEF SettleRuns
  <2> QED BY <1>9, <2>0, <2>1 DEF SettleRuns, Settles, RecordTypes, TitleIsTheirs
<1>10. CASE UNCHANGED recordVars
  BY <1>10 DEF recordVars, RecordTypes, TitleIsTheirs, ReadingRuns, CursorFollows
<1>11. CASE PromptTitles
  <2>0. /\ title.source = "manual" => slug # "no"
        /\ UNCHANGED <<title, cursor, numbered, reading, overtaken, faulty>>
    BY <1>11 DEF PromptTitles
  <2>1. mutations' \in Seq(Jobs) /\ ReadingRuns' /\ CursorFollows'
    <3>1. CASE UNCHANGED mutations
      BY <2>0, <3>1 DEF RecordTypes, ReadingRuns, CursorFollows
    <3>2. CASE Chained(Job("slug", "user"))
      BY <1>0, <2>0, <3>2, ChainedKeeps
    <3> QED BY <1>11, <3>1, <3>2 DEF PromptTitles
  <2>2. RecordTypes'
    BY <2>0, <2>1 DEF RecordTypes
  <2>3. TitleIsTheirs'
    BY <2>0 DEF TitleIsTheirs
  <2> QED BY <2>1, <2>2, <2>3
<1>12. CASE SlugRuns
  <2>1. mutations' \in Seq(Jobs) /\ ReadingRuns' /\ CursorFollows'
    BY <1>0, <1>12, LeaveKeeps DEF SlugRuns
  <2> QED BY <1>12, <2>1 DEF SlugRuns, RecordTypes, TitleIsTheirs
<1> QED
  BY <1>1, <1>2, <1>3, <1>4, <1>5, <1>6, <1>7, <1>8, <1>9, <1>10, <1>11, <1>12 DEF RecordNext

\* The specification keeps it.
LEMMA RecordIsKept == RecordSpec => []RecordInv
BY RecordInvInit, RecordInvStep, PTL DEF RecordSpec

\* A title the user has typed is never replaced by one that was asked for
\* before, nor by a prompt's unless that was being sent when it was stored, and
\* the events of a task are numbered 1, 2, ... as long as no write
\* fails, whoever records them at the same time.
THEOREM RecordsAreKept == RecordSpec => []TitlesAndCursorsKept
<1>1. RecordInv => TitlesAndCursorsKept
  BY DEF RecordInv, RecordTypes, TitleIsTheirs, CursorFollows, TitlesAndCursorsKept
<1> QED BY <1>1, RecordIsKept, PTL

\* Where the ends of a turn and a prompt are with the title, and the renames.
SummaryOK == summary \in [Ends -> {"new", "checked", "claiming", "asking", "settling", "done"}]
AskedOK == asked \in BOOLEAN
RenamesOK == renames \in 0..MaxRenames
SlugOK == slug \in {"no", "deciding", "chained"}
OvertakenOK == overtaken \in BOOLEAN

\* The variables of a record keep their types.
THEOREM RecordTypeCorrect == RecordSpec => []RecordTypeOK
<1>m. MaxRenames \in Nat
  BY RecordAssumption DEF RecordAssumption
<1>1. RecordInit => SummaryOK /\ AskedOK /\ RenamesOK /\ SlugOK /\ OvertakenOK
  <2>1. RecordInit => RenamesOK
    BY <1>m DEF RecordInit, RenamesOK
  <2> QED BY <2>1 DEF RecordInit, SummaryOK, AskedOK, SlugOK, OvertakenOK
<1>2. SummaryOK /\ [RecordNext]_recordVars => SummaryOK'
  <2> SUFFICES ASSUME SummaryOK, [RecordNext]_recordVars PROVE SummaryOK'
    OBVIOUS
  <2>1. ASSUME UNCHANGED summary PROVE SummaryOK'
    BY <2>1 DEF SummaryOK
  <2>2. ASSUME NEW e \in Ends, ObserveTurnCompleted(e) PROVE SummaryOK'
    BY <2>2 DEF ObserveTurnCompleted, SummaryOK
  <2>3. ASSUME NEW e \in Ends, ClaimRuns(e) PROVE SummaryOK'
    BY <2>3 DEF ClaimRuns, SummaryOK
  <2>4. ASSUME NEW e \in Ends, TitleAnswered(e) PROVE SummaryOK'
    BY <2>4 DEF TitleAnswered, SummaryOK
  <2>5. ASSUME NEW e \in Ends, SettleRuns(e) PROVE SummaryOK'
    BY <2>5 DEF SettleRuns, SummaryOK
  <2>6. CASE RecordsRestart
    BY <2>6 DEF RecordsRestart, SummaryOK
  <2>7. ASSUME NEW e \in Events, AppendEvent(e) \/ EventStep(e) PROVE SummaryOK'
    BY <2>1, <2>7 DEF AppendEvent, EventStep
  <2>8. CASE Rename \/ RenameRuns \/ PromptTitles \/ SlugRuns \/ UNCHANGED recordVars
    BY <2>1, <2>8 DEF Rename, RenameRuns, PromptTitles, SlugRuns, recordVars
  <2> QED BY <2>2, <2>3, <2>4, <2>5, <2>6, <2>7, <2>8 DEF RecordNext
<1>3. AskedOK /\ [RecordNext]_recordVars => AskedOK'
  BY DEF AskedOK, RecordNext, Rename, RenameRuns, PromptTitles, SlugRuns, RecordsRestart, AppendEvent, EventStep, ObserveTurnCompleted,
         ClaimRuns, TitleAnswered, SettleRuns, recordVars
<1>4. RenamesOK /\ [RecordNext]_recordVars => RenamesOK'
  <2> SUFFICES ASSUME RenamesOK, [RecordNext]_recordVars PROVE RenamesOK'
    OBVIOUS
  <2>1. ASSUME UNCHANGED renames PROVE RenamesOK'
    BY <2>1 DEF RenamesOK
  <2>2. CASE Rename
    BY <1>m, <2>2 DEF Rename, RenamesOK
  <2> QED BY <2>1, <2>2 DEF RecordNext, RenameRuns, PromptTitles, SlugRuns, RecordsRestart, AppendEvent, EventStep, ObserveTurnCompleted,
              ClaimRuns, TitleAnswered, SettleRuns, recordVars
<1>5. SlugOK /\ [RecordNext]_recordVars => SlugOK'
  BY DEF SlugOK, RecordNext, Rename, RenameRuns, PromptTitles, SlugRuns, RecordsRestart, AppendEvent, EventStep,
         ObserveTurnCompleted, ClaimRuns, TitleAnswered, SettleRuns, recordVars
<1>6. OvertakenOK /\ [RecordNext]_recordVars => OvertakenOK'
  BY DEF OvertakenOK, RecordNext, Rename, RenameRuns, PromptTitles, SlugRuns, RecordsRestart, AppendEvent,
         EventStep, ObserveTurnCompleted, ClaimRuns, TitleAnswered, SettleRuns, recordVars
<1>7. RecordInv /\ SummaryOK /\ AskedOK /\ RenamesOK /\ SlugOK /\ OvertakenOK => RecordTypeOK
  BY DEF RecordInv, RecordTypes, SummaryOK, AskedOK, RenamesOK, SlugOK, OvertakenOK, RecordTypeOK
<1> QED BY <1>1, <1>2, <1>3, <1>4, <1>5, <1>6, <1>7, RecordIsKept, PTL DEF RecordSpec

-----------------------------------------------------------------------------
(* Drafts *)

DraftSpec == DraftInit /\ [][DraftNext]_draftVars

DraftTexts == [task : DraftTasks, text : Nat]

\* With the writes ws to come and then the pending text p, task t ends up with its text ty: the
\* last that is to come is ty or, when none is, what is stored.
EndsWith(t, ws, p, st, ty) ==
  /\ p.task = t => p.text = ty
  /\ p.task # t => \A i \in 1..Len(ws) :
       ws[i].task = t /\ (\A j \in 1..Len(ws) : j > i => ws[j].task # t) => ws[i].text = ty
  /\ p.task # t /\ (\A i \in 1..Len(ws) : ws[i].task # t) => st = ty

DraftInv ==
  /\ shownTask \in SomeTask /\ refTask \in SomeTask /\ savingModel \in SomeTask
  /\ draftPending \in DraftTexts \cup {NothingPending} /\ draftWrites \in Seq(DraftTexts)
  /\ storedDraft \in [DraftTasks -> Nat] /\ typed \in [DraftTasks -> Nat] /\ drafts \in Nat
  /\ \A t \in DraftTasks \ lostDrafts :
       EndsWith(t, draftWrites, draftPending, storedDraft[t], typed[t])

\* The pending text joins the writes.
LEMMA FlushedEnds ==
  ASSUME NEW t \in DraftTasks, NEW ws \in Seq(DraftTexts), NEW p \in DraftTexts, NEW st, NEW ty,
         EndsWith(t, ws, p, st, ty)
  PROVE  EndsWith(t, Append(ws, p), NothingPending, st, ty)
<1> DEFINE vs == Append(ws, p)
<1>1. /\ Len(vs) = Len(ws) + 1 /\ Len(ws) \in Nat /\ vs[Len(ws) + 1] = p
      /\ \A i \in 1..Len(ws) : vs[i] = ws[i]
  OBVIOUS
<1>2. NothingPending.task # t
  BY ComposerAssumption DEF NothingPending
<1> HIDE DEF vs
<1>3. ASSUME NEW i \in 1..Len(vs), vs[i].task = t, \A j \in 1..Len(vs) : j > i => vs[j].task # t
      PROVE  vs[i].text = ty
  <2>1. CASE i = Len(ws) + 1
    BY <1>1, <1>3, <2>1 DEF EndsWith
  <2>2. CASE i # Len(ws) + 1
    <3>1. i \in 1..Len(ws) /\ Len(ws) + 1 \in 1..Len(vs) /\ Len(ws) + 1 > i
      BY <1>1, <2>2
    <3>2. p.task # t
      BY <1>1, <1>3, <3>1
    <3>3. \A j \in 1..Len(ws) : j \in 1..Len(vs)
      BY <1>1
    <3>4. \A j \in 1..Len(ws) : j > i => ws[j].task # t
      BY <1>1, <1>3, <3>3
    <3> QED BY <1>1, <1>3, <3>1, <3>2, <3>4 DEF EndsWith
  <2> QED BY <2>1, <2>2
<1>4. ASSUME \A i \in 1..Len(vs) : vs[i].task # t PROVE st = ty
  <2>1. p.task # t
    <3>1. Len(ws) + 1 \in 1..Len(vs)
      BY <1>1
    <3> QED BY <1>1, <1>4, <3>1
  <2>2. \A i \in 1..Len(ws) : ws[i].task # t
    <3>1. \A i \in 1..Len(ws) : i \in 1..Len(vs)
      BY <1>1
    <3> QED BY <1>1, <1>4, <3>1
  <2> QED BY <2>1, <2>2 DEF EndsWith
<1> QED BY <1>2, <1>3, <1>4 DEF EndsWith, vs

\* The first write is done, or fails without being the last text of its task.
LEMMA WrittenEnds ==
  ASSUME NEW t \in DraftTasks, NEW ws \in Seq(DraftTexts), ws # <<>>, NEW p, NEW st, NEW ty, NEW after,
         EndsWith(t, ws, p, st, ty),
         \/ after = IF Head(ws).task = t THEN Head(ws).text ELSE st
         \/ after = st /\ (Head(ws).task = t => Head(ws).text # ty)
  PROVE  EndsWith(t, Tail(ws), p, after, ty)
<1> DEFINE vs == Tail(ws)
<1>1. /\ Len(vs) = Len(ws) - 1 /\ Len(ws) \in Nat /\ Len(ws) >= 1 /\ Head(ws) = ws[1]
      /\ \A i \in 1..Len(vs) : vs[i] = ws[i + 1]
  OBVIOUS
<1> HIDE DEF vs
<1>2. ASSUME p.task # t, NEW i \in 1..Len(vs), vs[i].task = t, \A j \in 1..Len(vs) : j > i => vs[j].task # t
      PROVE  vs[i].text = ty
  <2>1. i + 1 \in 1..Len(ws) /\ vs[i] = ws[i + 1]
    BY <1>1
  <2>2. \A j \in 1..Len(ws) : j > i + 1 => ws[j].task # t
    <3> TAKE j \in 1..Len(ws)
    <3> HAVE j > i + 1
    <3>1. j - 1 \in 1..Len(vs) /\ j - 1 > i /\ (j - 1) + 1 = j
      BY <1>1
    <3> QED BY <1>1, <1>2, <3>1
  <2> QED BY <1>2, <2>1, <2>2 DEF EndsWith
<1>3. ASSUME p.task # t, \A i \in 1..Len(vs) : vs[i].task # t PROVE after = ty
  <2>1. \A j \in 1..Len(ws) : j > 1 => ws[j].task # t
    <3> TAKE j \in 1..Len(ws)
    <3> HAVE j > 1
    <3>1. j - 1 \in 1..Len(vs) /\ (j - 1) + 1 = j
      BY <1>1
    <3> QED BY <1>1, <1>3, <3>1
  <2>2. CASE ws[1].task = t
    <3>1. 1 \in 1..Len(ws)
      BY <1>1
    <3>2. ws[1].text = ty
      BY <1>3, <2>1, <2>2, <3>1 DEF EndsWith
    <3> QED BY <1>1, <2>2, <3>2
  <2>3. CASE ws[1].task # t
    <3>1. \A j \in 1..Len(ws) : ws[j].task # t
      BY <1>1, <2>1, <2>3
    <3>2. st = ty
      BY <1>3, <3>1 DEF EndsWith
    <3> QED BY <1>1, <2>3, <3>2
  <2> QED BY <2>2, <2>3
<1> QED BY <1>2, <1>3 DEF EndsWith, vs

\* The user types.
LEMMA UpdateDraftKeeps == ASSUME DraftInv, NEW text, UpdateDraft(text) PROVE DraftInv'
<1>1. drafts' \in Nat /\ text \in Nat /\ UNCHANGED <<shownTask, refTask, creating, savingModel, draftWrites, storedDraft>>
  BY DEF UpdateDraft, DraftInv
<1>2. typed' = (IF shownTask = NoDraft THEN typed ELSE [typed EXCEPT ![shownTask] = text])
      /\ IF refTask = NoDraft THEN UNCHANGED <<draftPending, draftTimer>>
         ELSE draftPending' = [task |-> refTask, text |-> text]
  BY DEF UpdateDraft
<1>3. typed' \in [DraftTasks -> Nat] /\ \A t \in DraftTasks \ {shownTask} : typed'[t] = typed[t]
  BY <1>1, <1>2 DEF DraftInv
<1>4. draftPending' \in DraftTexts \cup {NothingPending}
  BY <1>1, <1>2 DEF DraftInv, SomeTask, DraftTexts
<1>5. ASSUME NEW t \in DraftTasks \ lostDrafts'
      PROVE  EndsWith(t, draftWrites, draftPending', storedDraft[t], typed'[t])
  <2>1. CASE t = shownTask
    <3>1. refTask = shownTask /\ t # NoDraft
      BY <1>5, <2>1, ComposerAssumption DEF UpdateDraft
    <3>2. draftPending' = [task |-> t, text |-> text] /\ typed'[t] = text
      BY <1>2, <2>1, <3>1 DEF DraftInv
    <3>3. draftPending'.task = t /\ draftPending'.text = typed'[t]
      BY <3>2
    <3> QED BY <3>3 DEF EndsWith
  <2>2. CASE t # shownTask
    <3>1. t \in DraftTasks \ lostDrafts /\ typed'[t] = typed[t]
      BY <1>3, <1>5, <2>2 DEF UpdateDraft
    <3>2. EndsWith(t, draftWrites, draftPending, storedDraft[t], typed[t])
      BY <3>1 DEF DraftInv
    <3>3. CASE refTask = NoDraft
      BY <1>2, <3>1, <3>2, <3>3
    <3>4. CASE refTask # NoDraft
      <4>1. t \notin {draftPending.task} \ {NoDraft, refTask}
        BY <1>5, <3>4 DEF UpdateDraft
      <4>2. t # refTask
        <5>1. CASE refTask = shownTask
          BY <2>2, <5>1
        <5>2. CASE refTask # shownTask
          BY <1>5, <3>4, <5>2 DEF UpdateDraft
        <5> QED BY <5>1, <5>2
      <4>3. draftPending.task # t /\ draftPending'.task # t
        BY <1>2, <3>4, <4>1, <4>2, ComposerAssumption
      <4> QED BY <3>1, <3>2, <4>3 DEF EndsWith
    <3> QED BY <3>3, <3>4
  <2> QED BY <2>1, <2>2
<1> QED BY <1>1, <1>3, <1>4, <1>5 DEF DraftInv

\* A write goes past the chain: what the chain still brings of its task comes
\* after it.
LEMMA DirectWriteKeeps == ASSUME DraftInv, NEW t \in DraftTasks, DirectWrite(t) PROVE DraftInv'
<1>1. /\ shownTask' \in SomeTask /\ refTask' \in SomeTask
      /\ UNCHANGED <<savingModel, draftPending, draftWrites>>
  BY DEF DirectWrite, DraftInv, SomeTask
<1>2. CASE UNCHANGED <<storedDraft, typed, lostDrafts, drafts>>
  BY <1>1, <1>2 DEF DraftInv
<1>3. CASE ClearDraft(t)
  <2>1. /\ storedDraft' \in [DraftTasks -> Nat] /\ UNCHANGED <<typed, drafts>>
        /\ storedDraft'[t] = 0 /\ \A u \in DraftTasks \ {t} : storedDraft'[u] = storedDraft[u]
    BY <1>3 DEF ClearDraft, DraftInv
  <2>2. ASSUME NEW u \in DraftTasks \ lostDrafts'
        PROVE  EndsWith(u, draftWrites, draftPending, storedDraft'[u], typed[u])
    <3>1. EndsWith(u, draftWrites, draftPending, storedDraft[u], typed[u])
      BY <1>3, <2>2 DEF ClearDraft, DraftInv
    <3>2. CASE u # t
      BY <2>1, <3>1, <3>2
    <3>3. CASE u = t /\ ToCome(t)
      BY <3>1, <3>3 DEF ToCome, EndsWith
    <3>4. CASE u = t /\ ~ToCome(t)
      <4>1. storedDraft'[u] = typed[u]
        BY <1>3, <2>1, <2>2, <3>4 DEF ClearDraft
      <4> QED BY <3>1, <4>1 DEF EndsWith
    <3> QED BY <3>2, <3>3, <3>4
  <2> QED BY <1>1, <2>1, <2>2 DEF DraftInv
<1>4. CASE EditDraft(t)
  <2>0. drafts' \in Nat
    BY <1>4 DEF EditDraft, DraftInv
  <2>1. /\ storedDraft' \in [DraftTasks -> Nat] /\ typed' \in [DraftTasks -> Nat]
        /\ storedDraft'[t] = typed'[t]
        /\ \A u \in DraftTasks \ {t} : storedDraft'[u] = storedDraft[u] /\ typed'[u] = typed[u]
    BY <1>4, <2>0 DEF EditDraft, DraftInv
  <2>2. ASSUME NEW u \in DraftTasks \ lostDrafts'
        PROVE  EndsWith(u, draftWrites, draftPending, storedDraft'[u], typed'[u])
    <3>1. CASE u # t
      <4>1. u \in DraftTasks \ lostDrafts
        BY <1>4, <2>2, <3>1 DEF EditDraft
      <4> QED BY <2>1, <3>1, <4>1 DEF DraftInv
    <3>2. CASE u = t
      <4>1. ~ToCome(t)
        BY <1>4, <2>2, <3>2 DEF EditDraft
      <4> QED BY <2>1, <3>2, <4>1 DEF ToCome, EndsWith
    <3> QED BY <3>1, <3>2
  <2> QED BY <1>1, <2>0, <2>1, <2>2 DEF DraftInv
<1> QED BY <1>2, <1>3, <1>4 DEF DirectWrite

\* Flushing the pending text behind the writes w leaves each task with its text.
LEMMA FlushedKeeps ==
  ASSUME DraftInv, NEW w \in Seq(DraftTexts), Flushed(w), UNCHANGED <<shownTask, refTask, savingModel, typed, lostDrafts, drafts>>,
         storedDraft' \in [DraftTasks -> Nat],
         \A t \in DraftTasks \ lostDrafts : EndsWith(t, w, draftPending, storedDraft'[t], typed[t])
  PROVE  DraftInv'
<1>1. CASE draftPending = NothingPending
  BY <1>1 DEF Flushed, DraftInv
<1>2. CASE draftPending # NothingPending
  <2>1. draftPending \in DraftTexts /\ draftPending' = NothingPending /\ draftWrites' = Append(w, draftPending)
    BY <1>2 DEF Flushed, DraftInv
  <2>2. draftWrites' \in Seq(DraftTexts)
    BY <2>1
  <2>3. \A t \in DraftTasks \ lostDrafts : EndsWith(t, draftWrites', draftPending', storedDraft'[t], typed[t])
    BY <2>1, FlushedEnds
  <2> QED BY <2>1, <2>2, <2>3 DEF DraftInv
<1> QED BY <1>1, <1>2

\* A write of a draft is over.
LEMMA DraftWrittenKeeps == ASSUME DraftInv, DraftWritten PROVE DraftInv'
<1> DEFINE w == Head(draftWrites)
<1>1. draftWrites # <<>> /\ draftWrites \in Seq(DraftTexts) /\ UNCHANGED <<shownTask, refTask, creating, savingModel, typed, drafts>>
  BY DEF DraftWritten, DraftInv
<1>2. w \in DraftTexts /\ Tail(draftWrites) \in Seq(DraftTexts)
  BY <1>1
<1>3. w.task \in DraftTasks /\ w.text \in Nat
  BY <1>2 DEF DraftTexts
<1>4. CASE /\ storedDraft' = [storedDraft EXCEPT ![w.task] = w.text]
           /\ Flushed(Tail(draftWrites)) /\ UNCHANGED lostDrafts
  <2>1. storedDraft' \in [DraftTasks -> Nat]
        /\ \A t \in DraftTasks : storedDraft'[t] = IF w.task = t THEN w.text ELSE storedDraft[t]
    BY <1>3, <1>4 DEF DraftInv
  <2>2. ASSUME NEW t \in DraftTasks \ lostDrafts
        PROVE  EndsWith(t, Tail(draftWrites), draftPending, storedDraft'[t], typed[t])
    BY <1>1, <2>1, <2>2, WrittenEnds DEF DraftInv
  <2> QED BY <1>1, <1>2, <1>4, <2>1, <2>2, FlushedKeeps
<1>5. CASE /\ draftWrites' = Tail(draftWrites)
           /\ lostDrafts' = IF w.text # typed[w.task] THEN lostDrafts ELSE lostDrafts \cup {w.task}
           /\ UNCHANGED <<storedDraft, draftPending, draftTimer>>
  <2>1. ASSUME NEW t \in DraftTasks \ lostDrafts'
        PROVE  EndsWith(t, Tail(draftWrites), draftPending, storedDraft[t], typed[t])
    <3>1. t \in DraftTasks \ lostDrafts /\ (w.task = t => w.text # typed[t])
      BY <1>5, <2>1
    <3> QED BY <1>1, <3>1, WrittenEnds DEF DraftInv
  <2> QED BY <1>1, <1>2, <1>5, <2>1 DEF DraftInv
<1> QED BY <1>4, <1>5 DEF DraftWritten

\* Each step of the drafts keeps it.
LEMMA DraftNextKeeps == DraftInv /\ [DraftNext]_draftVars => DraftInv'
<1> SUFFICES ASSUME DraftInv, [DraftNext]_draftVars PROVE DraftInv'
  OBVIOUS
<1>1. CASE UNCHANGED draftVars
  BY <1>1 DEF DraftInv, draftVars
<1>2. CASE FlushDraft
  BY <1>2, FlushedKeeps DEF FlushDraft, DraftInv
<1>3. CASE ModelStep
  BY <1>3 DEF ModelStep, SelectModel, DraftInv, SomeTask
<1>4. CASE EnsureDraftTask
  BY <1>4, ComposerAssumption DEF EnsureDraftTask, DraftInv, SomeTask
<1>5. ASSUME NEW t \in SomeTask, SelectDraftTask(t) PROVE DraftInv'
  BY <1>5 DEF SelectDraftTask, DraftInv
<1> QED BY <1>1, <1>2, <1>3, <1>4, <1>5, UpdateDraftKeeps, DirectWriteKeeps, DraftWrittenKeeps DEF DraftNext

\* A task ends up with the text that was written in it last (DraftsKept).
THEOREM DraftsAreKept == DraftSpec => []DraftsKept
<1>1. ASSUME DraftInit PROVE DraftInv
  <2>1. draftWrites = <<>> /\ draftPending.task = NoDraft /\ \A t \in DraftTasks : t # NoDraft
    BY <1>1, ComposerAssumption DEF DraftInit, NothingPending
  <2>2. \A t \in DraftTasks : EndsWith(t, draftWrites, draftPending, storedDraft[t], typed[t])
    <3> TAKE t \in DraftTasks
    <3>1. Len(draftWrites) = 0 /\ storedDraft[t] = 0 /\ typed[t] = 0
      BY <1>1, <2>1 DEF DraftInit
    <3>2. draftPending.task # t
      BY <2>1
    <3> QED BY <3>1, <3>2 DEF EndsWith
  <2> QED BY <1>1, <2>2 DEF DraftInit, DraftInv, SomeTask
<1>2. ASSUME DraftInv, draftPending = NothingPending, draftWrites = <<>>, NEW t \in DraftTasks \ lostDrafts
      PROVE  storedDraft[t] = typed[t]
  <2>1. EndsWith(t, draftWrites, draftPending, storedDraft[t], typed[t])
    BY <1>2 DEF DraftInv
  <2>2. draftPending.task # t /\ Len(draftWrites) = 0
    BY <1>2, ComposerAssumption DEF NothingPending
  <2> QED BY <2>1, <2>2 DEF EndsWith
<1>3. DraftInv => DraftsKept
  BY <1>2 DEF DraftsKept
<1> QED BY <1>1, <1>3, DraftNextKeeps, PTL DEF DraftSpec

\* The variables of the drafts keep their types.
THEOREM DraftTypeCorrect == DraftSpec => []DraftTypeOK
<1>a. MaxDrafts \in Nat /\ NewDraft \in DraftTasks /\ NoDraft \notin DraftTasks
  BY ComposerAssumption DEF ComposerAssumption
<1>1. DraftInit => DraftTypeOK
  <2> SUFFICES ASSUME DraftInit PROVE DraftTypeOK
    OBVIOUS
  <2>1. draftWrites \in Seq(Draft) /\ 0 \in 0..MaxDrafts
    BY <1>a, EmptySeq DEF DraftInit
  <2> QED BY <2>1 DEF DraftInit, DraftTypeOK, SomeTask
<1>2. DraftTypeOK /\ [DraftNext]_draftVars => DraftTypeOK'
  <2> SUFFICES ASSUME DraftTypeOK, [DraftNext]_draftVars PROVE DraftTypeOK'
    OBVIOUS
  <2>1. ASSUME NEW text \in 0..MaxDrafts, UpdateDraft(text) PROVE DraftTypeOK'
    <3>1. drafts' \in 1..MaxDrafts /\ draftPending.task \in SomeTask
      BY <1>a, <2>1 DEF UpdateDraft, DraftTypeOK, Draft, NothingPending, SomeTask
    <3>2. typed' \in [DraftTasks -> 0..MaxDrafts]
      BY <2>1 DEF UpdateDraft, DraftTypeOK, SomeTask
    <3>3. draftPending' \in Draft \cup {NothingPending} /\ draftTimer' \in BOOLEAN
      <4>1. refTask # NoDraft => [task |-> refTask, text |-> text] \in Draft
        BY <2>1 DEF DraftTypeOK, SomeTask, Draft
      <4> QED BY <2>1, <4>1 DEF UpdateDraft, DraftTypeOK
    <3>4. lostDrafts' \subseteq DraftTasks
      BY <2>1, <3>1 DEF UpdateDraft, DraftTypeOK, SomeTask
    <3> QED BY <2>1, <3>1, <3>2, <3>3, <3>4 DEF UpdateDraft, DraftTypeOK
  <2>2. CASE FlushDraft
    <3>1. draftWrites' \in Seq(Draft)
      BY <2>2, AppendProperties DEF FlushDraft, Flushed, DraftTypeOK
    <3> QED BY <2>2, <3>1 DEF FlushDraft, Flushed, DraftTypeOK
  <2>3. CASE DraftWritten
    <3>1. Head(draftWrites) \in Draft /\ Tail(draftWrites) \in Seq(Draft)
      BY <2>3, HeadTailProperties DEF DraftWritten, DraftTypeOK
    <3>2. draftWrites' \in Seq(Draft)
      <4>1. ASSUME Flushed(Tail(draftWrites)) PROVE draftWrites' \in Seq(Draft)
        <5>1. CASE draftPending = NothingPending
          BY <3>1, <4>1, <5>1 DEF Flushed
        <5>2. CASE draftPending # NothingPending
          BY <3>1, <4>1, <5>2, AppendProperties DEF Flushed, DraftTypeOK
        <5> QED BY <5>1, <5>2
      <4> QED BY <2>3, <3>1, <4>1 DEF DraftWritten
    <3>3. storedDraft' \in [DraftTasks -> 0..MaxDrafts]
      <4>1. Head(draftWrites).task \in DraftTasks /\ Head(draftWrites).text \in 0..MaxDrafts
        BY <1>a, <3>1 DEF Draft
      <4> QED BY <2>3, <4>1 DEF DraftWritten, DraftTypeOK
    <3>4. lostDrafts' \subseteq DraftTasks
      BY <2>3, <3>1 DEF DraftWritten, DraftTypeOK, Draft
    <3> QED BY <2>3, <3>2, <3>3, <3>4 DEF DraftWritten, Flushed, DraftTypeOK
  <2>4. CASE ModelStep
    BY <2>4 DEF ModelStep, SelectModel, DraftTypeOK, SomeTask
  <2>5. CASE EnsureDraftTask
    BY <1>a, <2>5 DEF EnsureDraftTask, DraftTypeOK, SomeTask
  <2>6. ASSUME NEW t \in SomeTask, SelectDraftTask(t) PROVE DraftTypeOK'
    BY <2>6 DEF SelectDraftTask, DraftTypeOK
  <2>7. CASE UNCHANGED draftVars
    BY <2>7 DEF draftVars, DraftTypeOK
  <2>8. ASSUME NEW t \in DraftTasks, DirectWrite(t) PROVE DraftTypeOK'
    <3>1. storedDraft' \in [DraftTasks -> 0..MaxDrafts] /\ typed' \in [DraftTasks -> 0..MaxDrafts]
          /\ drafts' \in 0..MaxDrafts /\ lostDrafts' \subseteq DraftTasks
      <4>1. CASE UNCHANGED <<storedDraft, typed, lostDrafts, drafts>>
        BY <4>1 DEF DraftTypeOK
      <4>2. CASE ClearDraft(t)
        BY <1>a, <4>2 DEF ClearDraft, DraftTypeOK
      <4>3. CASE EditDraft(t)
        <5>1. drafts' \in 0..MaxDrafts
          BY <1>a, <4>3 DEF EditDraft, DraftTypeOK
        <5> QED BY <4>3, <5>1 DEF EditDraft, DraftTypeOK
      <4> QED BY <2>8, <4>1, <4>2, <4>3 DEF DirectWrite
    <3>2. direct' \subseteq DraftTasks \X {"clear", "edit"}
      BY <2>8 DEF DirectWrite, DraftTypeOK
    <3> QED BY <2>8, <3>1, <3>2 DEF DirectWrite, DraftTypeOK, SomeTask
  <2> QED BY <2>1, <2>2, <2>3, <2>4, <2>5, <2>6, <2>7, <2>8 DEF DraftNext
<1> QED BY <1>1, <1>2, PTL DEF DraftSpec

-----------------------------------------------------------------------------
(* The attachments of a draft *)

AttachSpec == AttachInit /\ [][AttachNext]_attachVars

\* Attachments that read the list and have not stored theirs yet.
Reading(a) == attach[a] \in {"listing", "removing", "unlisting"}

AttachSteps == {"no", "making", "uploading", "listing", "undoing", "over", "removing", "unlisting"}

\* What a list names is stored and at rest, unless it is doubtful or being removed; the lists that
\* are about to be stored name only such attachments, beside their own.
AttachInv ==
  /\ attach \in [Attached -> AttachSteps] /\ listing \in [Attached -> SUBSET Attached]
  /\ heldIds = listed /\ listed \subseteq Attached
  /\ \A a \in listed \ doubtful : (attach[a] \in {"over", "removing"} /\ a \in filed) \/ attach[a] = "unlisting"
  /\ \A a \in Attached : Reading(a) =>
       \A b \in listing[a] \ doubtful : b # a => attach[b] = "over" /\ b \in filed
  /\ \A a \in Attached : attach[a] \in {"removing", "unlisting"} => a \notin listing[a]
  /\ \A a \in Attached : attach[a] \in {"uploading", "listing"} => a \in filed

\* An attachment that is not at rest goes on without a list.
LEMMA GoesKeeps ==
  ASSUME AttachInv, NEW a \in Attached, attach[a] # "over", UNCHANGED <<listing, listed, heldIds>>,
         NEW to \in {"making", "uploading", "undoing", "over"}, AttachGoes(a, to),
         filed \ {a} \subseteq filed', doubtful \subseteq doubtful',
         to = "uploading" => a \in filed', attach[a] = "unlisting" => a \in doubtful',
         attach[a] = "removing" => to = "over" /\ filed \subseteq filed'
  PROVE  AttachInv'
<1>1. attach' \in [Attached -> AttachSteps] /\ attach'[a] = to /\ \A b \in Attached \ {a} : attach'[b] = attach[b]
  BY DEF AttachInv, AttachGoes, AttachSteps
<1>2. \A b \in Attached : Reading(b)' => b # a /\ Reading(b)
  BY <1>1 DEF Reading
<1>3. \A b \in listed' \ doubtful' : (attach'[b] \in {"over", "removing"} /\ b \in filed') \/ attach'[b] = "unlisting"
  <2> TAKE b \in listed' \ doubtful'
  <2>1. b \in listed \ doubtful /\ b \in Attached
    BY DEF AttachInv
  <2>2. (attach[b] \in {"over", "removing"} /\ b \in filed) \/ attach[b] = "unlisting"
    BY <2>1 DEF AttachInv
  <2>3. CASE b = a
    BY <1>1, <2>2, <2>3
  <2>4. CASE b # a
    BY <1>1, <2>1, <2>2, <2>4
  <2> QED BY <2>3, <2>4
<1>4. ASSUME NEW b \in Attached, Reading(b)', NEW d \in listing'[b] \ doubtful', d # b
      PROVE  attach'[d] = "over" /\ d \in filed'
  <2>1. Reading(b) /\ d \in listing[b] \ doubtful /\ d \in Attached
    BY <1>2, <1>4 DEF AttachInv
  <2>2. attach[d] = "over" /\ d \in filed
    BY <1>4, <2>1 DEF AttachInv
  <2> QED BY <1>1, <2>1, <2>2
<1>5. \A b \in Attached : attach'[b] \in {"removing", "unlisting"} => b \notin listing'[b]
  BY <1>1 DEF AttachInv
<1>6. \A b \in Attached : attach'[b] \in {"uploading", "listing"} => b \in filed'
  BY <1>1 DEF AttachInv
<1> QED BY <1>1, <1>3, <1>4, <1>5, <1>6 DEF AttachInv

\* An attachment that is removed is gone from the disk first.
LEMMA UnfiledKeeps ==
  ASSUME AttachInv, NEW a \in Attached, attach[a] = "removing", AttachGoes(a, "unlisting"),
         filed' = filed \ {a}, UNCHANGED <<listing, listed, heldIds, doubtful>>
  PROVE  AttachInv'
<1>1. attach' \in [Attached -> AttachSteps] /\ attach'[a] = "unlisting"
      /\ \A b \in Attached \ {a} : attach'[b] = attach[b]
  BY DEF AttachInv, AttachGoes, AttachSteps
<1>2. \A b \in Attached : Reading(b)' => Reading(b)
  BY <1>1 DEF Reading
<1>3. \A b \in listed' \ doubtful' : (attach'[b] \in {"over", "removing"} /\ b \in filed') \/ attach'[b] = "unlisting"
  BY <1>1 DEF AttachInv
<1>4. ASSUME NEW b \in Attached, Reading(b)', NEW d \in listing'[b] \ doubtful', d # b
      PROVE  attach'[d] = "over" /\ d \in filed'
  <2>1. Reading(b) /\ d \in listing[b] \ doubtful /\ d \in Attached
    BY <1>2, <1>4 DEF AttachInv
  <2>2. attach[d] = "over" /\ d \in filed
    BY <1>4, <2>1 DEF AttachInv
  <2> QED BY <1>1, <2>1, <2>2
<1>5. \A b \in Attached : attach'[b] \in {"removing", "unlisting"} => b \notin listing'[b]
  BY <1>1 DEF AttachInv
<1>6. \A b \in Attached : attach'[b] \in {"uploading", "listing"} => b \in filed'
  BY <1>1 DEF AttachInv
<1> QED BY <1>1, <1>3, <1>4, <1>5, <1>6 DEF AttachInv

\* The list is read: by an attachment whose own file is stored, or by one that is to be removed.
LEMMA ListReadKeeps ==
  ASSUME AttachInv, NEW a \in Attached, UNCHANGED <<listed, heldIds>>,
         \/ /\ attach[a] \in {"making", "uploading"} /\ AttachGoes(a, "listing") /\ a \in filed'
            /\ ListRead(a, heldIds \cup {a})
         \/ attach[a] = "over" /\ a \in heldIds /\ AttachGoes(a, "removing") /\ ListRead(a, heldIds \ {a}),
         filed \subseteq filed'
  PROVE  AttachInv'
<1> DEFINE ids == IF attach[a] = "over" THEN heldIds \ {a} ELSE heldIds \cup {a}
           Rest == \A b \in Attached \ {a} : attach[b] \in {"no", "over"}
<1>1. listing' = [listing EXCEPT ![a] = ids]
      /\ (Rest => doubtful' = doubtful)
      /\ (~Rest => doubtful' = doubtful \cup heldIds \cup {b \in Attached : attach[b] \notin {"no", "over"}})
  BY DEF ListRead
<1>2. ids \subseteq Attached /\ ids \subseteq heldIds \cup {a}
  BY DEF AttachInv
<1>3. attach' \in [Attached -> AttachSteps] /\ attach'[a] \in {"listing", "removing"}
      /\ (attach'[a] = "removing" <=> attach[a] = "over")
      /\ \A b \in Attached \ {a} : attach'[b] = attach[b]
  BY DEF AttachInv, AttachGoes, AttachSteps
<1>4. listing' \in [Attached -> SUBSET Attached] /\ listing'[a] = ids /\ \A b \in Attached \ {a} : listing'[b] = listing[b]
  BY <1>1, <1>2 DEF AttachInv
<1>5. (attach[a] = "over" => a \notin ids) /\ doubtful \subseteq doubtful'
  BY <1>1
<1>5a. attach'[a] = "listing" => a \in filed'
  BY <1>3
<1> HIDE DEF ids
<1>6. \A b \in listed' \ doubtful' : (attach'[b] \in {"over", "removing"} /\ b \in filed') \/ attach'[b] = "unlisting"
  BY <1>3, <1>5 DEF AttachInv
<1>7. ASSUME NEW b \in Attached, Reading(b)', NEW d \in listing'[b] \ doubtful', d # b
      PROVE  attach'[d] = "over" /\ d \in filed'
  <2>1. CASE b = a
    <3>1. d \in heldIds \ doubtful /\ d \in listed /\ d # a
      BY <1>2, <1>4, <1>5, <1>7, <2>1 DEF AttachInv
    <3>2. Rest
      BY <1>1, <1>7, <3>1
    <3> QED BY <1>3, <3>1, <3>2 DEF AttachInv
  <2>2. CASE b # a
    <3>1. Reading(b) /\ attach[b] \notin {"no", "over"} /\ d \in listing[b] \ doubtful /\ d \in Attached
      BY <1>3, <1>4, <1>5, <1>7, <2>2 DEF Reading, AttachInv
    <3>2. ~Rest
      BY <2>2, <3>1
    <3>3. attach[d] = "over" /\ d \in filed
      BY <1>7, <3>1 DEF AttachInv
    <3>4. d # a
      BY <1>1, <1>7, <3>2, <3>3
    <3> QED BY <1>3, <3>1, <3>3, <3>4
  <2> QED BY <2>1, <2>2
<1>8. \A b \in Attached : attach'[b] \in {"removing", "unlisting"} => b \notin listing'[b]
  BY <1>3, <1>4, <1>5 DEF AttachInv
<1>9. \A b \in Attached : attach'[b] \in {"uploading", "listing"} => b \in filed'
  BY <1>3, <1>5a DEF AttachInv
<1> QED BY <1>3, <1>4, <1>6, <1>7, <1>8, <1>9 DEF AttachInv

\* The list of an attachment is stored.
LEMMA ListedKeeps ==
  ASSUME AttachInv, NEW a \in Attached, attach[a] \in {"listing", "unlisting"},
         listed' = listing[a], heldIds' = listing[a], UNCHANGED <<listing, filed>>,
         NEW to \in {"over", "undoing"}, AttachGoes(a, to),
         \/ doubtful' = doubtful /\ to = "over"
         \/ doubtful' = doubtful \cup {a}
  PROVE  AttachInv'
<1>1. attach' \in [Attached -> AttachSteps] /\ attach'[a] = to /\ \A b \in Attached \ {a} : attach'[b] = attach[b]
  BY DEF AttachInv, AttachGoes, AttachSteps
<1>2. \A b \in Attached : Reading(b)' => b # a /\ Reading(b)
  BY <1>1 DEF Reading
<1>3. Reading(a) /\ (attach[a] = "unlisting" => a \notin listing[a]) /\ (attach[a] = "listing" => a \in filed)
  BY DEF Reading, AttachInv
<1>4. \A b \in listed' \ doubtful' : (attach'[b] \in {"over", "removing"} /\ b \in filed') \/ attach'[b] = "unlisting"
  BY <1>1, <1>3 DEF AttachInv
<1>5. \A b \in Attached : Reading(b)' => \A d \in listing'[b] \ doubtful' : d # b => attach'[d] = "over" /\ d \in filed'
  BY <1>1, <1>2 DEF AttachInv
<1>6. \A b \in Attached : attach'[b] \in {"removing", "unlisting"} => b \notin listing'[b]
  BY <1>1 DEF AttachInv
<1>7. \A b \in Attached : attach'[b] \in {"uploading", "listing"} => b \in filed'
  BY <1>1 DEF AttachInv
<1>8. heldIds' = listed' /\ listed' \subseteq Attached /\ listing' \in [Attached -> SUBSET Attached]
  BY DEF AttachInv
<1> QED BY <1>1, <1>4, <1>5, <1>6, <1>7, <1>8 DEF AttachInv

\* An attachment is read, written to a file or uploaded.
LEMMA AttachKeeps == ASSUME AttachInv, NEW a \in Attached, Attach(a) PROVE AttachInv'
<1>1. UNCHANGED <<listed, heldIds>>
  BY DEF Attach
<1>2. CASE attach[a] = "no"
  <2>1. (AttachGoes(a, "making") \/ AttachGoes(a, "over")) /\ UNCHANGED <<listing, filed, uploaded, doubtful>>
    BY <1>2 DEF Attach
  <2> QED BY <1>1, <1>2, <2>1, GoesKeeps
<1>3. CASE attach[a] = "making"
  <2>1. CASE AttachGoes(a, "listing") /\ ListRead(a, heldIds \cup {a}) /\ filed' = filed \cup {a}
    BY <1>1, <1>3, <2>1, ListReadKeeps
  <2>2. CASE AttachGoes(a, "over") /\ UNCHANGED <<listing, filed, doubtful>>
    BY <1>1, <1>3, <2>2, GoesKeeps
  <2>3. CASE filed' = filed \cup {a} /\ AttachGoes(a, "uploading") /\ UNCHANGED <<listing, doubtful>>
    BY <1>1, <1>3, <2>3, GoesKeeps
  <2>4. CASE filed' = filed \cup {a} /\ AttachGoes(a, "undoing") /\ UNCHANGED <<listing, doubtful>>
    BY <1>1, <1>3, <2>4, GoesKeeps
  <2> QED BY <1>3, <2>1, <2>2, <2>3, <2>4 DEF Attach
<1>4. CASE attach[a] = "uploading"
  <2>1. a \in filed /\ filed' = filed
    BY <1>4 DEF Attach, AttachInv
  <2>2. CASE AttachGoes(a, "undoing") /\ UNCHANGED <<listing, doubtful>>
    BY <1>1, <1>4, <2>1, <2>2, GoesKeeps
  <2>3. CASE AttachGoes(a, "listing") /\ ListRead(a, heldIds \cup {a})
    BY <1>1, <1>4, <2>1, <2>3, ListReadKeeps
  <2> QED BY <1>4, <2>2, <2>3 DEF Attach
<1> QED BY <1>2, <1>3, <1>4 DEF Attach

\* The draft lists the attachment, or what was made for it is undone.
LEMMA AppendKeeps == ASSUME AttachInv, NEW a \in Attached, AppendDraftAttachment(a) PROVE AttachInv'
<1> DEFINE failed == IF a \in PastedTexts THEN "undoing" ELSE "over"
<1>1. failed \in {"undoing", "over"} /\ attach[a] = "listing" /\ UNCHANGED <<listing, filed, uploaded>>
  BY DEF AppendDraftAttachment
<1>2. \/ AttachGoes(a, failed) /\ UNCHANGED <<listed, heldIds, doubtful>>
      \/ /\ listed' = listing[a] /\ heldIds' = listing[a]
         /\ \/ AttachGoes(a, "over") /\ UNCHANGED doubtful
            \/ AttachGoes(a, failed) /\ doubtful' = doubtful \cup {a}
  BY DEF AppendDraftAttachment
<1> HIDE DEF failed
<1>3. CASE AttachGoes(a, failed) /\ UNCHANGED <<listed, heldIds, doubtful>>
  BY <1>1, <1>3, GoesKeeps
<1>4. CASE listed' = listing[a] /\ heldIds' = listing[a] /\ AttachGoes(a, "over") /\ UNCHANGED doubtful
  BY <1>1, <1>4, ListedKeeps
<1>5. CASE listed' = listing[a] /\ heldIds' = listing[a] /\ AttachGoes(a, failed) /\ doubtful' = doubtful \cup {a}
  BY <1>1, <1>5, ListedKeeps
<1> QED BY <1>2, <1>3, <1>4, <1>5

\* An attachment is removed, from the list and then from the disk.
LEMMA RemoveKeeps == ASSUME AttachInv, NEW a \in Attached, RemoveAttachment(a) PROVE AttachInv'
<1>1. CASE /\ attach[a] = "over" /\ a \in heldIds
           /\ AttachGoes(a, "removing") /\ ListRead(a, heldIds \ {a})
           /\ UNCHANGED <<listed, heldIds, filed, uploaded>>
  BY <1>1, ListReadKeeps
<1>2. CASE attach[a] = "removing" /\ AttachGoes(a, "over") /\ UNCHANGED <<listing, listed, heldIds, doubtful, filed>>
  BY <1>2, GoesKeeps
<1>3. CASE attach[a] = "removing" /\ AttachGoes(a, "unlisting") /\ filed' = filed \ {a}
           /\ UNCHANGED <<listing, listed, heldIds, doubtful>>
  BY <1>3, UnfiledKeeps
<1>4. CASE /\ attach[a] = "unlisting" /\ AttachGoes(a, "over")
           /\ listed' = listing[a] /\ heldIds' = listing[a] /\ UNCHANGED <<doubtful, listing, filed>>
  BY <1>4, ListedKeeps
<1>5. CASE /\ attach[a] = "unlisting" /\ AttachGoes(a, "over")
           /\ doubtful' = doubtful \cup {a} /\ UNCHANGED <<listed, heldIds, listing, filed>>
  BY <1>5, GoesKeeps
<1> QED BY <1>1, <1>2, <1>3, <1>4, <1>5 DEF RemoveAttachment

\* Each step of an attachment keeps it.
LEMMA AttachNextKeeps == AttachInv /\ [AttachNext]_attachVars => AttachInv'
<1> SUFFICES ASSUME AttachInv, [AttachNext]_attachVars PROVE AttachInv'
  OBVIOUS
<1>1. CASE UNCHANGED attachVars
  BY <1>1 DEF AttachInv, Reading, attachVars
<1>2. ASSUME NEW a \in Attached, AttachUndone(a) PROVE AttachInv'
  BY <1>2, GoesKeeps DEF AttachUndone
<1> QED BY <1>1, <1>2, AttachKeeps, AppendKeeps, RemoveKeeps DEF AttachNext

\* What the draft lists is there to be sent (AttachmentsBacked).
THEOREM AttachmentsAreBacked == AttachSpec => []AttachmentsBacked
<1>1. AttachInit => AttachInv
  BY DEF AttachInit, AttachInv, AttachSteps, Reading
<1>2. AttachInv => AttachmentsBacked
  BY DEF AttachInv, AttachmentsBacked
<1> QED BY <1>1, <1>2, AttachNextKeeps, PTL DEF AttachSpec

\* The variables of the attachments keep their types.
THEOREM AttachTypeCorrect == AttachSpec => []AttachTypeOK
<1>1. AttachInit => AttachTypeOK
  BY DEF AttachInit, AttachTypeOK
<1>2. AttachTypeOK /\ [AttachNext]_attachVars => AttachTypeOK'
  <2> SUFFICES ASSUME AttachTypeOK, [AttachNext]_attachVars PROVE AttachTypeOK'
    OBVIOUS
  <2> USE DEF AttachTypeOK, AttachGoes, ListRead
  <2>1. ASSUME NEW a \in Attached, Attach(a) PROVE AttachTypeOK'
    BY <2>1 DEF Attach
  <2>2. ASSUME NEW a \in Attached, AppendDraftAttachment(a) PROVE AttachTypeOK'
    BY <2>2 DEF AppendDraftAttachment
  <2>3. ASSUME NEW a \in Attached, AttachUndone(a) PROVE AttachTypeOK'
    BY <2>3 DEF AttachUndone
  <2>4. ASSUME NEW a \in Attached, RemoveAttachment(a) PROVE AttachTypeOK'
    BY <2>4 DEF RemoveAttachment
  <2>5. CASE UNCHANGED attachVars
    BY <2>5 DEF attachVars
  <2> QED BY <2>1, <2>2, <2>3, <2>4, <2>5 DEF AttachNext
<1> QED BY <1>1, <1>2, PTL DEF AttachSpec

-----------------------------------------------------------------------------
(* The files users keep *)

JobRecord == [kind : Kinds, at : Places, artifact : Artifacts, root : Roots,
              id : StoreJobs \cup Roots, size : 0..2, read : StoreContents]

StoredTypes ==
  /\ records \in [Artifacts -> [state : {"none", "active", "deleted"}, size : 0..2]]
  /\ workspaces \in SUBSET [id : StoreJobs \cup Roots, root : Roots, trusted : BOOLEAN]
  /\ onDisk \in [Artifacts -> 0..2] /\ storeFaults \in Nat
  /\ chain \in [{"artifacts", "workspaces"} -> Seq(StoreJobs)]
  /\ jobs \in [StoreJobs -> JobRecord]

\* Where the calls of each kind are.
StagesOfKinds ==
  \A j \in StoreJobs :
    /\ jobs[j].at = "copying" => jobs[j].kind \in {"import", "create", "replace"}
    /\ jobs[j].at = "renaming" => jobs[j].kind = "replace"
    /\ jobs[j].at = "configuring" => jobs[j].kind = "trust"
    /\ jobs[j].at = "unlinking" => jobs[j].kind = "delete"

\* An update that is queued is in the chain of its store; the one that has
\* read is the first of it, and what it has read is what the store has.
ChainsInOrder ==
  \A j \in StoreJobs :
    /\ jobs[j].at \in {"queued", "holding"} => j \in ToSet(chain[StoreOf(jobs[j].kind)])
    /\ jobs[j].at = "holding" =>
         /\ j = Head(chain[StoreOf(jobs[j].kind)])
         /\ StoreOf(jobs[j].kind) = "artifacts" => jobs[j].read.artifacts = records
         /\ StoreOf(jobs[j].kind) = "workspaces" => jobs[j].read.workspaces = workspaces

Making(j) == jobs[j].at # "new" /\ jobs[j].kind \in {"import", "create"}
Replacing(j) == jobs[j].at # "new" /\ jobs[j].kind = "replace"
Updating(j) == jobs[j].at \in {"queued", "holding"}

\* An artifact is made once: until it is listed only its maker has it.
MakersApart ==
  \A j, k \in StoreJobs :
    Making(j) /\ Making(k) /\ jobs[j].artifact = jobs[k].artifact => j = k

MakersFiles ==
  \A j \in StoreJobs : Making(j) =>
    /\ jobs[j].at = "copying" \/ Updating(j) =>
         records[jobs[j].artifact].state = "none" /\ jobs[j].size = 1
    /\ Updating(j) => onDisk[jobs[j].artifact] = 1
    /\ jobs[j].at = "done" => records[jobs[j].artifact].state # "none"

ReplacersFiles ==
  \A j \in StoreJobs : Replacing(j) =>
    /\ records[jobs[j].artifact].state # "none" /\ jobs[j].size = 2
    /\ Updating(j) => onDisk[jobs[j].artifact] = 2 \/ records[jobs[j].artifact].state = "deleted"

DeletersFiles ==
  \A j \in StoreJobs :
    jobs[j].kind = "delete" /\ jobs[j].at \in {"unlinking", "done"} =>
      records[jobs[j].artifact].state = "deleted"

\* Every artifact has its file, or is deleted by a call that has run.
FilesHeld ==
  \A a \in Artifacts :
    /\ records[a].state = "active" => onDisk[a] # 0
    /\ records[a].state = "deleted" => Ran("delete", a)

\* As long as nothing fails, a file that is not as it is listed is that of an
\* update under way.
FilesTidy ==
  storeFaults = 0 => \A a \in Artifacts :
    /\ records[a].state = "none" =>
         onDisk[a] = 0 \/ \E j \in StoreJobs : Making(j) /\ Updating(j) /\ jobs[j].artifact = a
    /\ records[a].state = "active" =>
         \/ onDisk[a] = records[a].size
         \/ \E j \in StoreJobs : Replacing(j) /\ Updating(j) /\ jobs[j].artifact = a
    /\ records[a].state = "deleted" =>
         \/ onDisk[a] = 0
         \/ \E j \in StoreJobs : jobs[j].at = "unlinking" /\ jobs[j].artifact = a
         \/ \E j \in StoreJobs : Replacing(j) /\ jobs[j].artifact = a

RootsKept ==
  /\ \A j \in StoreJobs : jobs[j].kind = "add" /\ jobs[j].at = "done" =>
       \/ \E w \in workspaces : w.root = jobs[j].root
       \/ \E k \in StoreJobs : jobs[k].kind = "remove" /\ jobs[k].at = "done"
  /\ \A w, v \in workspaces : w.root = v.root => w = v

StoredInv ==
  /\ StoredTypes /\ StagesOfKinds /\ ChainsInOrder /\ MakersApart /\ MakersFiles
  /\ ReplacersFiles /\ DeletersFiles /\ FilesHeld /\ FilesTidy /\ RootsKept

\* The call j has become r, and the others are as they were.
Becomes(j, r) == jobs' = [jobs EXCEPT ![j] = r]

\* What the prover needs to know of a call that moves.
LEMMA BecomesFacts ==
  ASSUME StoredTypes, NEW j \in StoreJobs, NEW r \in JobRecord, Becomes(j, r)
  PROVE  /\ jobs' \in [StoreJobs -> JobRecord] /\ jobs'[j] = r
         /\ \A k \in StoreJobs \ {j} : jobs'[k] = jobs[k]
BY DEF StoredTypes, Becomes

\* A call joins the chain of its store.
LEMMA JoinKeeps ==
  ASSUME StoredTypes, ChainsInOrder, NEW j \in StoreJobs, NEW r \in JobRecord, Becomes(j, r),
         r.at = "queued",
         chain' = [chain EXCEPT ![StoreOf(r.kind)] = Append(chain[StoreOf(r.kind)], j)],
         UNCHANGED <<records, workspaces>>
  PROVE  chain' \in [{"artifacts", "workspaces"} -> Seq(StoreJobs)] /\ ChainsInOrder'
<1> DEFINE s == StoreOf(r.kind)
<1>1. s \in {"artifacts", "workspaces"} /\ \A k : StoreOf(k) \in {"artifacts", "workspaces"}
  BY DEF StoreOf
<1>2. /\ Append(chain[s], j) \in Seq(StoreJobs) /\ j \in ToSet(Append(chain[s], j))
      /\ \A x \in ToSet(chain[s]) :
           x \in ToSet(Append(chain[s], j)) /\ Head(Append(chain[s], j)) = Head(chain[s])
  BY <1>1, AppendFacts DEF StoredTypes
<1>3. chain' \in [{"artifacts", "workspaces"} -> Seq(StoreJobs)]
  BY <1>1, <1>2 DEF StoredTypes
<1>4. chain'[s] = Append(chain[s], j) /\ \A t \in {"artifacts", "workspaces"} \ {s} : chain'[t] = chain[t]
  BY <1>1 DEF StoredTypes
<1> HIDE DEF s
<1>5. jobs'[j] = r /\ \A k \in StoreJobs \ {j} : jobs'[k] = jobs[k]
  BY BecomesFacts
<1>6. s = StoreOf(r.kind)
  BY DEF s
<1> QED BY <1>1, <1>2, <1>3, <1>4, <1>5, <1>6 DEF ChainsInOrder

\* A call moves without a change of its chain.
LEMMA BesideChainKeeps ==
  ASSUME StoredTypes, ChainsInOrder, NEW j \in StoreJobs, NEW r \in JobRecord, Becomes(j, r),
         r.at \notin {"queued", "holding"}, UNCHANGED <<chain, records, workspaces>>
  PROVE  ChainsInOrder'
BY BecomesFacts DEF ChainsInOrder

\* The first call of a chain leaves it; the store of that chain may change.
LEMMA LeaveChainKeeps ==
  ASSUME StoredTypes, ChainsInOrder, NEW j \in StoreJobs, NEW r \in JobRecord, Becomes(j, r),
         jobs[j].at \in {"queued", "holding"}, InTurn(j), r.at \notin {"queued", "holding"},
         chain' = [chain EXCEPT ![StoreOf(jobs[j].kind)] = RemoveFirst(chain[StoreOf(jobs[j].kind)], j)],
         StoreOf(jobs[j].kind) # "artifacts" => UNCHANGED records,
         StoreOf(jobs[j].kind) # "workspaces" => UNCHANGED workspaces
  PROVE  chain' \in [{"artifacts", "workspaces"} -> Seq(StoreJobs)] /\ ChainsInOrder'
<1> DEFINE s == StoreOf(jobs[j].kind)
<1>1. s \in {"artifacts", "workspaces"} /\ \A k : StoreOf(k) \in {"artifacts", "workspaces"}
  BY DEF StoreOf
<1>2. /\ RemoveFirst(chain[s], j) \in Seq(StoreJobs)
      /\ \A x \in ToSet(chain[s]) \ {j} : x \in ToSet(RemoveFirst(chain[s], j))
  BY <1>1, RemoveFirstFacts DEF StoredTypes
<1>3. chain' \in [{"artifacts", "workspaces"} -> Seq(StoreJobs)]
  BY <1>1, <1>2 DEF StoredTypes
<1>4. chain'[s] = RemoveFirst(chain[s], j)
      /\ \A t \in {"artifacts", "workspaces"} \ {s} : chain'[t] = chain[t]
  BY <1>1 DEF StoredTypes
<1>5. jobs'[j] = r /\ \A k \in StoreJobs \ {j} : jobs'[k] = jobs[k]
  BY BecomesFacts
<1>6. \A k \in StoreJobs \ {j} : StoreOf(jobs[k].kind) = s => jobs[k].at # "holding"
  BY DEF ChainsInOrder, InTurn
<1> QED BY <1>1, <1>2, <1>3, <1>4, <1>5, <1>6 DEF ChainsInOrder

\* The workspaces are as they were, and no call that was to remove or add one
\* is done.
LEMMA RootsSame ==
  ASSUME StoredTypes, RootsKept, NEW j \in StoreJobs, NEW r \in JobRecord, Becomes(j, r),
         r.at = "done" => r.kind \notin {"add", "remove"}, jobs[j].at # "done", UNCHANGED workspaces
  PROVE  RootsKept'
BY BecomesFacts DEF RootsKept

\* A call that goes on, with the artifact and the size it had, without a write
\* to a store: what it does to the file of its artifact is what its kind does.
GoesOn(j, r) ==
  LET q == jobs[j]
      b == q.artifact
      updates == r.at \in {"queued", "holding"} IN
  /\ Becomes(j, r) /\ UNCHANGED <<records, workspaces>>
  /\ r.kind = q.kind /\ r.artifact = b /\ r.size = q.size
  /\ q.at \notin {"new", "done", "failed"} /\ r.at # "new" /\ (r.at = "done" => q.at = "unlinking")
  /\ onDisk' \in [Artifacts -> 0..2] /\ \A a \in Artifacts \ {b} : onDisk'[a] = onDisk[a]
  /\ storeFaults' \in Nat /\ (storeFaults' = 0 => storeFaults = 0)
  /\ q.kind \in {"import", "create"} =>
       /\ r.at # "copying" /\ (updates => onDisk'[b] = 1) /\ (storeFaults' = 0 => updates)
  /\ q.kind = "replace" =>
       /\ onDisk'[b] = onDisk[b] \/ onDisk'[b] = 2
       /\ updates => (Updating(j) /\ onDisk'[b] = onDisk[b]) \/ onDisk'[b] = 2
       /\ storeFaults' = 0 =>
            updates \/ records[b].state # "active" \/ (~Updating(j) /\ onDisk'[b] = onDisk[b])
  /\ q.kind = "delete" =>
       /\ r.at # "queued" /\ (r.at \in {"unlinking", "done"} => q.at = "unlinking")
       /\ onDisk'[b] = onDisk[b] \/ (q.at = "unlinking" /\ onDisk'[b] = 0)
       /\ storeFaults' = 0 => q.at # "unlinking" \/ onDisk'[b] = 0
  /\ q.kind \notin {"import", "create", "replace", "delete"} => onDisk' = onDisk

\* A call that goes on keeps the invariant.
LEMMA FileGoesOn ==
  ASSUME StoredInv, NEW j \in StoreJobs, NEW r \in JobRecord, GoesOn(j, r),
         chain' \in [{"artifacts", "workspaces"} -> Seq(StoreJobs)], ChainsInOrder',
         r.at = "copying" => jobs[j].at = "copying",
         r.at = "renaming" => r.kind = "replace",
         r.at # "configuring", r.at # "unlinking"
  PROVE  StoredInv'
<1> DEFINE b == jobs[j].artifact
<1> USE DEF StoredInv
<1>1. /\ jobs' \in [StoreJobs -> JobRecord] /\ jobs'[j] = r
      /\ \A k \in StoreJobs \ {j} : jobs'[k] = jobs[k]
  BY BecomesFacts DEF GoesOn
<1>2. /\ r.kind = jobs[j].kind /\ r.artifact = b /\ r.size = jobs[j].size
      /\ jobs[j].at \notin {"new", "done", "failed"} /\ r.at # "new"
      /\ UNCHANGED <<records, workspaces>> /\ b \in Artifacts
  BY DEF GoesOn, StoredTypes, JobRecord
<1>3. StoredTypes'
  BY <1>1, <1>2 DEF GoesOn, StoredTypes
<1>4. StagesOfKinds'
  BY <1>1, <1>2 DEF StagesOfKinds
<1>5. MakersApart'
  BY <1>1, <1>2 DEF MakersApart, Making
<1>6. \A k \in StoreJobs : (Making(k)' <=> Making(k)) /\ (Replacing(k)' <=> Replacing(k))
                            /\ jobs'[k].artifact = jobs[k].artifact /\ jobs'[k].size = jobs[k].size
  BY <1>1, <1>2 DEF Making, Replacing
<1>7. \A k \in StoreJobs \ {j} : Updating(k)' = Updating(k)
  BY <1>1 DEF Updating
<1>8. Updating(j)' <=> r.at \in {"queued", "holding"}
  BY <1>1 DEF Updating
<1>9. Making(j) => jobs[j].at = "copying" \/ Updating(j)
  BY <1>2 DEF StagesOfKinds, Making, Updating, StoredTypes, JobRecord, Places
<1>10. \A a \in Artifacts \ {b} : onDisk'[a] = onDisk[a]
  BY DEF GoesOn
<1>11. MakersFiles'
  <2> SUFFICES ASSUME NEW k \in StoreJobs, Making(k)
               PROVE  /\ jobs'[k].at = "copying" \/ Updating(k)' =>
                           records[jobs[k].artifact].state = "none" /\ jobs[k].size = 1
                      /\ Updating(k)' => onDisk'[jobs[k].artifact] = 1
                      /\ jobs'[k].at = "done" => records[jobs[k].artifact].state # "none"
    BY <1>2, <1>6 DEF MakersFiles
  <2>1. CASE k = j
    BY <1>1, <1>2, <1>8, <1>9, <2>1 DEF MakersFiles, GoesOn, Making, StagesOfKinds
  <2>2. CASE k # j
    <3>1. jobs'[k] = jobs[k] /\ Updating(k)' = Updating(k)
      BY <1>1, <1>7, <2>2
    <3>2. Updating(k) => onDisk'[jobs[k].artifact] = 1
      <4>1. CASE jobs[k].artifact # b
        BY <1>10, <4>1, <1>3 DEF MakersFiles, StoredTypes, JobRecord
      <4>2. CASE jobs[k].artifact = b
        <5>1. ~Making(j)
          BY <2>2, <4>2 DEF MakersApart
        <5>2. Updating(k) => ~Replacing(j) /\ records[b].state = "none"
          BY <4>2 DEF MakersFiles, ReplacersFiles
        <5>3. jobs[j].kind = "delete" /\ jobs[j].at = "unlinking" => records[b].state = "deleted"
          BY DEF DeletersFiles
        <5> QED BY <1>2, <4>2, <5>1, <5>2, <5>3 DEF GoesOn, Making, Replacing, MakersFiles, Updating
      <4> QED BY <4>1, <4>2
    <3> QED BY <3>1, <3>2 DEF MakersFiles
  <2> QED BY <2>1, <2>2
<1>12. ReplacersFiles'
  <2> SUFFICES ASSUME NEW k \in StoreJobs, Replacing(k), Updating(k)'
               PROVE  onDisk'[jobs[k].artifact] = 2 \/ records[jobs[k].artifact].state = "deleted"
    BY <1>2, <1>6 DEF ReplacersFiles
  <2>1. CASE k = j
    BY <1>2, <1>8, <2>1 DEF ReplacersFiles, GoesOn, Replacing
  <2>2. CASE k # j /\ jobs[k].artifact # b
    BY <1>3, <1>7, <1>10, <2>2 DEF ReplacersFiles, StoredTypes, JobRecord
  <2>3. CASE k # j /\ jobs[k].artifact = b
    <3>1. ~Making(j)
      BY <1>9, <2>3 DEF MakersFiles, ReplacersFiles
    <3>2. jobs[j].kind = "delete" /\ jobs[j].at = "unlinking" => records[b].state = "deleted"
      BY DEF DeletersFiles
    <3> QED BY <1>2, <1>7, <2>3, <3>1, <3>2 DEF ReplacersFiles, GoesOn, Making
  <2> QED BY <2>1, <2>2, <2>3
<1>13. DeletersFiles'
  BY <1>1, <1>2 DEF DeletersFiles, GoesOn
<1>14. FilesHeld'
  <2> SUFFICES ASSUME NEW a \in Artifacts
               PROVE  /\ records[a].state = "active" => onDisk'[a] # 0
                      /\ records[a].state = "deleted" => Ran("delete", a)'
    BY <1>2 DEF FilesHeld
  <2>1. Ran("delete", a) => Ran("delete", a)'
    BY <1>1, <1>2 DEF Ran, GoesOn
  <2>2. records[a].state = "active" => onDisk'[a] # 0
    <3>1. CASE a # b
      BY <1>10, <3>1 DEF FilesHeld
    <3>2. CASE a = b /\ records[b].state = "active"
      <4>1. ~Making(j) /\ ~(jobs[j].kind = "delete" /\ jobs[j].at = "unlinking")
        BY <1>9, <3>2 DEF MakersFiles, DeletersFiles
      <4> QED BY <1>2, <3>2, <4>1 DEF GoesOn, Making, FilesHeld
    <3> QED BY <3>1, <3>2
  <2> QED BY <2>1, <2>2 DEF FilesHeld
<1>15. FilesTidy'
  <2> SUFFICES ASSUME NEW a \in Artifacts, storeFaults' = 0
               PROVE
        /\ records'[a].state = "none" =>
             onDisk'[a] = 0 \/ \E k \in StoreJobs : Making(k)' /\ Updating(k)' /\ jobs'[k].artifact = a
        /\ records'[a].state = "active" =>
             \/ onDisk'[a] = records'[a].size
             \/ \E k \in StoreJobs : Replacing(k)' /\ Updating(k)' /\ jobs'[k].artifact = a
        /\ records'[a].state = "deleted" =>
             \/ onDisk'[a] = 0
             \/ \E k \in StoreJobs : jobs'[k].at = "unlinking" /\ jobs'[k].artifact = a
             \/ \E k \in StoreJobs : Replacing(k)' /\ jobs'[k].artifact = a
    BY DEF FilesTidy
  <2>r. records' = records
    BY <1>2
  <2>m. ASSUME NEW k \in StoreJobs
        PROVE  (Making(k)' <=> Making(k)) /\ (Replacing(k)' <=> Replacing(k)) /\ jobs'[k].artifact = jobs[k].artifact
    BY <1>6
  <2>u. (\E k \in StoreJobs : Making(k)' /\ Updating(k)' /\ jobs'[k].artifact = a)
          <=> \E k \in StoreJobs : Making(k) /\ Updating(k)' /\ jobs[k].artifact = a
    BY <2>m
  <2>v. (\E k \in StoreJobs : Replacing(k)' /\ Updating(k)' /\ jobs'[k].artifact = a)
          <=> \E k \in StoreJobs : Replacing(k) /\ Updating(k)' /\ jobs[k].artifact = a
    BY <2>m
  <2>w. /\ (\E k \in StoreJobs : jobs'[k].at = "unlinking" /\ jobs'[k].artifact = a)
            <=> \E k \in StoreJobs : jobs'[k].at = "unlinking" /\ jobs[k].artifact = a
        /\ (\E k \in StoreJobs : Replacing(k)' /\ jobs'[k].artifact = a)
            <=> \E k \in StoreJobs : Replacing(k) /\ jobs[k].artifact = a
    BY <2>m
  <2> SUFFICES
        /\ records[a].state = "none" =>
             onDisk'[a] = 0 \/ \E k \in StoreJobs : Making(k) /\ Updating(k)' /\ jobs[k].artifact = a
        /\ records[a].state = "active" =>
             \/ onDisk'[a] = records[a].size
             \/ \E k \in StoreJobs : Replacing(k) /\ Updating(k)' /\ jobs[k].artifact = a
        /\ records[a].state = "deleted" =>
             \/ onDisk'[a] = 0
             \/ \E k \in StoreJobs : jobs'[k].at = "unlinking" /\ jobs[k].artifact = a
             \/ \E k \in StoreJobs : Replacing(k) /\ jobs[k].artifact = a
    BY <2>r, <2>u, <2>v, <2>w
  <2>0. storeFaults = 0
    BY DEF GoesOn
  <2>1. CASE a # b
    <3>1. onDisk'[a] = onDisk[a] /\ \A k \in StoreJobs : jobs[k].artifact = a => k # j
      BY <1>10, <2>1
    <3>2. /\ records[a].state = "none" =>
               onDisk[a] = 0 \/ \E k \in StoreJobs : Making(k) /\ Updating(k) /\ jobs[k].artifact = a
          /\ records[a].state = "active" =>
               \/ onDisk[a] = records[a].size
               \/ \E k \in StoreJobs : Replacing(k) /\ Updating(k) /\ jobs[k].artifact = a
          /\ records[a].state = "deleted" =>
               \/ onDisk[a] = 0
               \/ \E k \in StoreJobs : jobs[k].at = "unlinking" /\ jobs[k].artifact = a
               \/ \E k \in StoreJobs : Replacing(k) /\ jobs[k].artifact = a
      BY <2>0 DEF FilesTidy
    <3>3. ASSUME NEW k \in StoreJobs, jobs[k].artifact = a
          PROVE  jobs'[k].at = jobs[k].at /\ Updating(k)' = Updating(k)
      BY <1>1, <1>7, <3>1, <3>3
    <3> QED BY <3>1, <3>2, <3>3
  <2>2. CASE a = b
    <3>1. CASE Making(j)
      <4>1. records[a].state = "none" /\ Updating(j)'
        BY <1>8, <1>9, <2>2, <3>1 DEF MakersFiles, GoesOn, Making
      <4> QED BY <2>2, <3>1, <4>1
    <3>2. CASE Replacing(j)
      <4>1. records[a].state # "none"
        BY <2>2, <3>2 DEF ReplacersFiles
      <4>2. CASE records[a].state = "active"
        <5>1. CASE Updating(j)'
          BY <2>2, <3>2, <4>2, <5>1
        <5>2. CASE ~Updating(j)'
          <6>1. ~Updating(j) /\ onDisk'[a] = onDisk[a]
            BY <1>8, <2>2, <3>2, <4>2, <5>2 DEF GoesOn, Replacing
          <6> QED BY <1>7, <2>0, <4>2, <6>1 DEF FilesTidy
        <5> QED BY <5>1, <5>2
      <4> QED BY <1>3, <2>2, <3>2, <4>1, <4>2
    <3>3. CASE jobs[j].kind = "delete"
      <4>1. CASE jobs[j].at = "unlinking"
        BY <2>2, <3>3, <4>1 DEF GoesOn, DeletersFiles
      <4>2. CASE jobs[j].at # "unlinking"
        <5>1. onDisk'[a] = onDisk[a] /\ ~Making(j) /\ ~Replacing(j)
          BY <2>2, <3>3, <4>2 DEF GoesOn, Making, Replacing
        <5> QED BY <1>1, <1>7, <2>0, <4>2, <5>1 DEF FilesTidy
      <4> QED BY <4>1, <4>2
    <3>4. CASE jobs[j].kind \notin {"import", "create", "replace", "delete"}
      <4>1. onDisk'[a] = onDisk[a] /\ ~Making(j) /\ ~Replacing(j) /\ jobs[j].at # "unlinking"
        BY <3>4 DEF GoesOn, Making, Replacing, StagesOfKinds
      <4> QED BY <1>1, <1>7, <2>0, <4>1 DEF FilesTidy
    <3> QED BY <1>2, <3>1, <3>2, <3>3, <3>4 DEF Making, Replacing
  <2> QED BY <2>1, <2>2
<1>16. RootsKept'
  BY <1>2, RootsSame, <1>1 DEF GoesOn, StagesOfKinds
<1> QED
  BY <1>3, <1>4, <1>5, <1>11, <1>12, <1>13, <1>14, <1>15, <1>16

\* The call j moves to another stage.
LEMMA AtFacts ==
  ASSUME StoredTypes, NEW j \in StoreJobs, NEW place \in Places
  PROVE  LET r == [jobs[j] EXCEPT !.at = place] IN
         /\ r \in JobRecord /\ r.at = place /\ r.kind = jobs[j].kind /\ r.artifact = jobs[j].artifact
         /\ r.size = jobs[j].size /\ r.root = jobs[j].root /\ r.id = jobs[j].id /\ r.read = jobs[j].read
         /\ At(j, place) => Becomes(j, r)
BY DEF StoredTypes, JobRecord, At, Becomes

\* The stages of a call, by its kind.
LEMMA StagesFacts ==
  ASSUME StoredInv, NEW j \in StoreJobs
  PROVE  /\ jobs[j] \in JobRecord /\ jobs[j].artifact \in Artifacts /\ jobs[j].kind \in Kinds
         /\ onDisk[jobs[j].artifact] \in 0..2 /\ onDisk \in [Artifacts -> 0..2]
         /\ storeFaults \in Nat
BY DEF StoredInv, StoredTypes, JobRecord

\* The queue of the store is joined by a call that has its bytes in place.
LEMMA EnqueueFacts ==
  ASSUME StoredTypes, NEW j \in StoreJobs, Enqueue(j, jobs[j])
  PROVE  LET r == [jobs[j] EXCEPT !.at = "queued"] IN
         /\ Becomes(j, r)
         /\ chain' = [chain EXCEPT ![StoreOf(r.kind)] = Append(chain[StoreOf(r.kind)], j)]
BY DEF StoredTypes, JobRecord, Enqueue, Becomes

\* The bytes of an artifact are written.
LEMMA CopyKeeps ==
  ASSUME StoredInv, NEW j \in StoreJobs, Copy(j) PROVE StoredInv'
<1> DEFINE b == jobs[j].artifact
           q == [jobs[j] EXCEPT !.at = "queued"]
           f == [jobs[j] EXCEPT !.at = "failed"]
           n == [jobs[j] EXCEPT !.at = "renaming"]
<1>1. /\ jobs[j] \in JobRecord /\ b \in Artifacts /\ onDisk \in [Artifacts -> 0..2] /\ storeFaults \in Nat
      /\ jobs[j].at = "copying" /\ jobs[j].kind \in {"import", "create", "replace"}
      /\ UNCHANGED <<records, workspaces>> /\ StoredTypes /\ ChainsInOrder
  BY StagesFacts DEF Copy, StoredInv, StagesOfKinds
<1>2. jobs[j].kind # "replace" => jobs[j].size = 1
  BY <1>1 DEF StoredInv, MakersFiles, Making
<1>3. CASE jobs[j].kind = "replace" /\ At(j, "renaming") /\ UNCHANGED <<onDisk, chain, storeFaults>>
  <2>1. n \in JobRecord /\ n.at = "renaming" /\ n.kind = "replace" /\ n.artifact = b /\ n.size = jobs[j].size
        /\ Becomes(j, n)
    BY <1>1, <1>3, AtFacts DEF Places
  <2> HIDE DEF n
  <2>2. ChainsInOrder' /\ chain' \in [{"artifacts", "workspaces"} -> Seq(StoreJobs)]
    BY <1>1, <1>3, <2>1, BesideChainKeeps DEF StoredTypes
  <2>3. GoesOn(j, n)
    BY <1>1, <1>3, <2>1 DEF GoesOn, Updating
  <2> QED BY <1>1, <2>1, <2>2, <2>3, FileGoesOn
<1>4. CASE /\ jobs[j].kind # "replace" /\ onDisk' = [onDisk EXCEPT ![b] = jobs[j].size]
           /\ Enqueue(j, jobs[j]) /\ UNCHANGED storeFaults
  <2>1. q \in JobRecord /\ q.at = "queued" /\ q.kind = jobs[j].kind /\ q.artifact = b /\ q.size = jobs[j].size
    BY <1>1, AtFacts DEF Places
  <2>2. Becomes(j, q) /\ chain' = [chain EXCEPT ![StoreOf(q.kind)] = Append(chain[StoreOf(q.kind)], j)]
    BY <1>1, <1>4, EnqueueFacts
  <2> HIDE DEF q
  <2>3. ChainsInOrder' /\ chain' \in [{"artifacts", "workspaces"} -> Seq(StoreJobs)]
    BY <1>1, <2>1, <2>2, JoinKeeps
  <2>4. onDisk' \in [Artifacts -> 0..2] /\ onDisk'[b] = 1 /\ \A a \in Artifacts \ {b} : onDisk'[a] = onDisk[a]
    BY <1>1, <1>2, <1>4
  <2>5. GoesOn(j, q)
    BY <1>1, <1>4, <2>1, <2>2, <2>4 DEF GoesOn, Updating
  <2> QED BY <1>1, <2>1, <2>3, <2>5, FileGoesOn
<1>5. CASE /\ StoreFault /\ At(j, "failed") /\ UNCHANGED chain
           /\ \/ UNCHANGED onDisk
              \/ jobs[j].kind = "create" /\ onDisk' = [onDisk EXCEPT ![b] = jobs[j].size]
  <2>1. f \in JobRecord /\ f.at = "failed" /\ f.kind = jobs[j].kind /\ f.artifact = b /\ f.size = jobs[j].size
        /\ Becomes(j, f)
    BY <1>1, <1>5, AtFacts DEF Places
  <2> HIDE DEF f
  <2>2. ChainsInOrder' /\ chain' \in [{"artifacts", "workspaces"} -> Seq(StoreJobs)]
    BY <1>1, <1>5, <2>1, BesideChainKeeps DEF StoredTypes
  <2>3. onDisk' \in [Artifacts -> 0..2] /\ (\A a \in Artifacts \ {b} : onDisk'[a] = onDisk[a])
        /\ (jobs[j].kind = "replace" => onDisk' = onDisk)
    BY <1>1, <1>2, <1>5
  <2>4. storeFaults' \in Nat /\ storeFaults' # 0
    BY <1>1, <1>5 DEF StoreFault
  <2>5. GoesOn(j, f)
    BY <1>1, <2>1, <2>3, <2>4 DEF GoesOn, Updating
  <2> QED BY <1>1, <2>1, <2>2, <2>5, FileGoesOn
<1> QED BY <1>1, <1>3, <1>4, <1>5 DEF Copy

\* A call that fails for the disk before it is in a chain, with its file as it was.
LEMMA FailsEarly ==
  ASSUME StoredInv, NEW j \in StoreJobs, jobs[j].at \in {"renaming", "configuring"},
         StoreFault, At(j, "failed"), UNCHANGED <<records, onDisk, workspaces, chain>>
  PROVE  StoredInv'
<1> DEFINE f == [jobs[j] EXCEPT !.at = "failed"]
<1>1. /\ jobs[j] \in JobRecord /\ jobs[j].artifact \in Artifacts /\ onDisk \in [Artifacts -> 0..2]
      /\ storeFaults \in Nat /\ StoredTypes /\ ChainsInOrder /\ jobs[j].kind \in {"replace", "trust"}
  BY StagesFacts DEF StoredInv, StagesOfKinds
<1>2. f \in JobRecord /\ f.at = "failed" /\ f.kind = jobs[j].kind /\ f.artifact = jobs[j].artifact
      /\ f.size = jobs[j].size /\ Becomes(j, f)
  BY <1>1, AtFacts DEF Places
<1> HIDE DEF f
<1>3. ChainsInOrder' /\ chain' \in [{"artifacts", "workspaces"} -> Seq(StoreJobs)]
  BY <1>1, <1>2, BesideChainKeeps DEF StoredTypes
<1>4. storeFaults' \in Nat /\ storeFaults' # 0
  BY <1>1 DEF StoreFault
<1>5. GoesOn(j, f)
  BY <1>1, <1>2, <1>4 DEF GoesOn, Updating
<1> QED BY <1>1, <1>2, <1>3, <1>5, FileGoesOn

\* The copy of a replacement takes the place of the file.
LEMMA RenameCopyKeeps ==
  ASSUME StoredInv, NEW j \in StoreJobs, RenameCopy(j) PROVE StoredInv'
<1> DEFINE b == jobs[j].artifact
           q == [jobs[j] EXCEPT !.at = "queued"]
<1>1. /\ jobs[j] \in JobRecord /\ b \in Artifacts /\ onDisk \in [Artifacts -> 0..2] /\ storeFaults \in Nat
      /\ jobs[j].at = "renaming" /\ jobs[j].kind = "replace" /\ jobs[j].size = 2
      /\ UNCHANGED <<records, workspaces>> /\ StoredTypes /\ ChainsInOrder
  BY StagesFacts DEF RenameCopy, StoredInv, StagesOfKinds, ReplacersFiles, Replacing
<1>2. CASE /\ onDisk' = [onDisk EXCEPT ![b] = jobs[j].size] /\ Enqueue(j, jobs[j]) /\ UNCHANGED storeFaults
  <2>1. q \in JobRecord /\ q.at = "queued" /\ q.kind = jobs[j].kind /\ q.artifact = b /\ q.size = jobs[j].size
    BY <1>1, AtFacts DEF Places
  <2>2. Becomes(j, q) /\ chain' = [chain EXCEPT ![StoreOf(q.kind)] = Append(chain[StoreOf(q.kind)], j)]
    BY <1>1, <1>2, EnqueueFacts
  <2> HIDE DEF q
  <2>3. ChainsInOrder' /\ chain' \in [{"artifacts", "workspaces"} -> Seq(StoreJobs)]
    BY <1>1, <2>1, <2>2, JoinKeeps
  <2>4. onDisk' \in [Artifacts -> 0..2] /\ onDisk'[b] = 2 /\ \A a \in Artifacts \ {b} : onDisk'[a] = onDisk[a]
    BY <1>1, <1>2
  <2>5. GoesOn(j, q)
    BY <1>1, <1>2, <2>1, <2>2, <2>4 DEF GoesOn, Updating
  <2> QED BY <1>1, <2>1, <2>3, <2>5, FileGoesOn
<1>3. CASE StoreFault /\ At(j, "failed") /\ UNCHANGED <<onDisk, chain>>
  BY <1>1, <1>3, FailsEarly
<1> QED BY <1>2, <1>3 DEF RenameCopy

\* The configuration of the project of a workspace to be trusted is written.
LEMMA ConfigKeeps ==
  ASSUME StoredInv, NEW j \in StoreJobs, EnsureProjectConfig(j) PROVE StoredInv'
<1> DEFINE q == [jobs[j] EXCEPT !.at = "queued"]
<1>1. /\ jobs[j] \in JobRecord /\ jobs[j].artifact \in Artifacts /\ onDisk \in [Artifacts -> 0..2]
      /\ storeFaults \in Nat /\ jobs[j].at = "configuring" /\ jobs[j].kind = "trust"
      /\ UNCHANGED <<records, onDisk, workspaces>> /\ StoredTypes /\ ChainsInOrder
  BY StagesFacts DEF EnsureProjectConfig, StoredInv, StagesOfKinds
<1>2. CASE Enqueue(j, jobs[j]) /\ UNCHANGED storeFaults
  <2>1. /\ q \in JobRecord /\ q.at = "queued" /\ q.kind = jobs[j].kind /\ q.artifact = jobs[j].artifact
        /\ q.size = jobs[j].size
    BY <1>1, AtFacts DEF Places
  <2>2. Becomes(j, q) /\ chain' = [chain EXCEPT ![StoreOf(q.kind)] = Append(chain[StoreOf(q.kind)], j)]
    BY <1>1, <1>2, EnqueueFacts
  <2> HIDE DEF q
  <2>3. ChainsInOrder' /\ chain' \in [{"artifacts", "workspaces"} -> Seq(StoreJobs)]
    BY <1>1, <2>1, <2>2, JoinKeeps
  <2>4. GoesOn(j, q)
    BY <1>1, <1>2, <2>1, <2>2 DEF GoesOn, Updating
  <2> QED BY <1>1, <2>1, <2>3, <2>4, FileGoesOn
<1>3. CASE StoreFault /\ At(j, "failed") /\ UNCHANGED chain
  BY <1>1, <1>3, FailsEarly
<1> QED BY <1>2, <1>3 DEF EnsureProjectConfig

\* An update that throws: for the disk, or because what it is about is not there.
LEMMA ThrowKeeps ==
  ASSUME StoredInv, NEW j \in StoreJobs, Updating(j), InTurn(j), Throw(j),
         \/ StoreFault
         \/ jobs[j].at = "holding" /\ Missing(jobs[j], jobs[j].read) /\ UNCHANGED storeFaults
  PROVE  StoredInv'
<1> DEFINE b == jobs[j].artifact
           f == [jobs[j] EXCEPT !.at = "failed"]
<1>1. /\ jobs[j] \in JobRecord /\ b \in Artifacts /\ onDisk \in [Artifacts -> 0..2] /\ storeFaults \in Nat
      /\ jobs[j].kind \in Kinds /\ jobs[j].at \in {"queued", "holding"}
      /\ UNCHANGED <<records, workspaces>> /\ StoredTypes /\ ChainsInOrder
  BY StagesFacts DEF Throw, StoredInv, Updating
<1>2. f \in JobRecord /\ f.at = "failed" /\ f.kind = jobs[j].kind /\ f.artifact = b
      /\ f.size = jobs[j].size /\ Becomes(j, f)
  BY <1>1, AtFacts DEF Places, Throw
<1> HIDE DEF f
<1>3. chain' = [chain EXCEPT ![StoreOf(jobs[j].kind)] = RemoveFirst(chain[StoreOf(jobs[j].kind)], j)]
  BY DEF Throw
<1>4. ChainsInOrder' /\ chain' \in [{"artifacts", "workspaces"} -> Seq(StoreJobs)]
  BY <1>1, <1>2, <1>3, LeaveChainKeeps
<1>5. onDisk' \in [Artifacts -> 0..2] /\ (\A a \in Artifacts \ {b} : onDisk'[a] = onDisk[a])
      /\ (jobs[j].kind # "import" => onDisk' = onDisk)
  BY <1>1 DEF Throw
<1>6. /\ storeFaults' \in Nat /\ (storeFaults' = 0 => storeFaults = 0)
      /\ storeFaults' = 0 =>
           /\ jobs[j].kind \notin {"import", "create"}
           /\ jobs[j].kind = "replace" => records[b].state # "active"
  <2>1. StoreFault => storeFaults' \in Nat /\ storeFaults' # 0
    BY <1>1 DEF StoreFault
  <2>2. CASE jobs[j].at = "holding" /\ Missing(jobs[j], jobs[j].read) /\ UNCHANGED storeFaults
    <3>1. StoreOf(jobs[j].kind) = "artifacts" => jobs[j].read.artifacts = records
      BY <1>1, <2>2 DEF ChainsInOrder
    <3> QED BY <1>1, <2>2, <3>1 DEF Missing, StoreOf
  <2> QED BY <2>1, <2>2
<1>7. GoesOn(j, f)
  BY <1>1, <1>2, <1>5, <1>6 DEF GoesOn
<1> QED BY <1>1, <1>2, <1>4, <1>7, FileGoesOn

\* An update reads its store, in its turn.
LEMMA ReadKeeps ==
  ASSUME StoredInv, NEW j \in StoreJobs, ReadFromDisk(j) PROVE StoredInv'
<1> DEFINE b == jobs[j].artifact
           h == [jobs[j] EXCEPT !.at = "holding", !.read = OnDisk]
<1>1. /\ jobs[j] \in JobRecord /\ b \in Artifacts /\ onDisk \in [Artifacts -> 0..2] /\ storeFaults \in Nat
      /\ jobs[j].kind \in Kinds /\ jobs[j].at = "queued" /\ InTurn(j) /\ StoredTypes /\ ChainsInOrder
  BY StagesFacts DEF ReadFromDisk, StoredInv
<1>2. CASE /\ jobs' = [jobs EXCEPT ![j].at = "holding", ![j].read = OnDisk]
           /\ UNCHANGED <<records, onDisk, workspaces, chain, storeFaults>>
  <2>1. OnDisk \in StoreContents /\ OnDisk.artifacts = records /\ OnDisk.workspaces = workspaces
    BY <1>1 DEF OnDisk, StoreContents, StoredTypes
  <2>2. h \in JobRecord /\ h.at = "holding" /\ h.kind = jobs[j].kind /\ h.artifact = b
        /\ h.size = jobs[j].size /\ h.read = OnDisk
    BY <1>1, <2>1 DEF JobRecord, Places
  <2>3. Becomes(j, h)
    BY <1>1, <1>2 DEF StoredTypes, JobRecord, Becomes
  <2> HIDE DEF h
  <2>4. ChainsInOrder'
    BY <1>1, <1>2, <2>1, <2>2, <2>3, BecomesFacts DEF ChainsInOrder, InTurn
  <2>5. onDisk'[b] = 1 \/ jobs[j].kind \notin {"import", "create"}
    BY <1>1, <1>2 DEF StoredInv, MakersFiles, Making, Updating
  <2>6. GoesOn(j, h)
    BY <1>1, <1>2, <2>2, <2>3, <2>5 DEF GoesOn, Updating
  <2> QED BY <1>1, <1>2, <2>2, <2>4, <2>6, FileGoesOn DEF StoredTypes
<1>3. CASE StoreFault /\ Throw(j)
  BY <1>1, <1>3, ThrowKeeps DEF Updating
<1> QED BY <1>2, <1>3 DEF ReadFromDisk

\* The file of a deleted artifact is taken away.
LEMMA UnlinkKeeps ==
  ASSUME StoredInv, NEW j \in StoreJobs, Unlink(j) PROVE StoredInv'
<1> DEFINE b == jobs[j].artifact
           f == [jobs[j] EXCEPT !.at = "done"]
<1>1. /\ jobs[j] \in JobRecord /\ b \in Artifacts /\ onDisk \in [Artifacts -> 0..2] /\ storeFaults \in Nat
      /\ jobs[j].kind = "delete" /\ jobs[j].at = "unlinking"
      /\ UNCHANGED <<records, workspaces, chain>> /\ StoredTypes /\ ChainsInOrder
  BY StagesFacts DEF Unlink, StoredInv, StagesOfKinds
<1>2. f \in JobRecord /\ f.at = "done" /\ f.kind = jobs[j].kind /\ f.artifact = b
      /\ f.size = jobs[j].size /\ Becomes(j, f)
  BY <1>1, AtFacts DEF Places, Unlink
<1> HIDE DEF f
<1>3. ChainsInOrder' /\ chain' \in [{"artifacts", "workspaces"} -> Seq(StoreJobs)]
  BY <1>1, <1>2, BesideChainKeeps DEF StoredTypes
<1>4. /\ onDisk' \in [Artifacts -> 0..2] /\ \A a \in Artifacts \ {b} : onDisk'[a] = onDisk[a]
      /\ onDisk'[b] = onDisk[b] \/ onDisk'[b] = 0
      /\ storeFaults' \in Nat /\ (storeFaults' = 0 => storeFaults = 0 /\ onDisk'[b] = 0)
  BY <1>1 DEF Unlink, StoreFault
<1>5. GoesOn(j, f)
  BY <1>1, <1>2, <1>4 DEF GoesOn
<1> QED BY <1>1, <1>2, <1>3, <1>5, FileGoesOn

\* The application ends and starts again: no call is under way.
LEMMA StoresRestartKeeps == ASSUME StoredInv, RestartStores PROVE StoredInv'
<1> USE DEF StoredInv
<1>1. /\ UNCHANGED <<records, onDisk, workspaces>> /\ storeFaults' \in Nat /\ storeFaults' # 0
      /\ chain' \in [{"artifacts", "workspaces"} -> Seq(StoreJobs)]
  BY DEF RestartStores, StoreFault, StoredTypes
<1>2. \A j \in StoreJobs :
        /\ jobs'[j] \in JobRecord /\ jobs'[j].at \in {"new", "done", "failed"}
        /\ jobs'[j].kind = jobs[j].kind /\ jobs'[j].artifact = jobs[j].artifact
        /\ jobs'[j].root = jobs[j].root /\ jobs'[j].size = jobs[j].size
        /\ jobs'[j].at = "new" <=> jobs[j].at = "new"
        /\ jobs'[j].at = "done" <=> jobs[j].at = "done"
  <2> SUFFICES ASSUME NEW j \in StoreJobs
               PROVE  /\ jobs'[j] \in JobRecord /\ jobs'[j].at \in {"new", "done", "failed"}
                      /\ jobs'[j].kind = jobs[j].kind /\ jobs'[j].artifact = jobs[j].artifact
                      /\ jobs'[j].root = jobs[j].root /\ jobs'[j].size = jobs[j].size
                      /\ jobs'[j].at = "new" <=> jobs[j].at = "new"
                      /\ jobs'[j].at = "done" <=> jobs[j].at = "done"
    OBVIOUS
  <2>1. jobs[j] \in JobRecord
    BY DEF StoredTypes
  <2>2. CASE jobs[j].at \in {"new", "done"}
    BY <2>1, <2>2 DEF RestartStores
  <2>3. CASE jobs[j].at \notin {"new", "done"}
    <3>1. jobs'[j] = [jobs[j] EXCEPT !.at = "failed"]
      BY <2>3 DEF RestartStores
    <3> QED BY <2>1, <2>3, <3>1 DEF JobRecord, Places
  <2> QED BY <2>2, <2>3
<1>3. jobs' \in [StoreJobs -> JobRecord]
  <2>1. jobs' = [j \in StoreJobs |-> jobs'[j]]
    BY DEF RestartStores
  <2> QED BY <1>2, <2>1
<1>4. StoredTypes'
  BY <1>1, <1>3 DEF StoredTypes
<1>5. StagesOfKinds' /\ ChainsInOrder'
  BY <1>2 DEF StagesOfKinds, ChainsInOrder
<1>6. MakersApart' /\ MakersFiles' /\ ReplacersFiles' /\ DeletersFiles'
  BY <1>1, <1>2 DEF MakersApart, MakersFiles, ReplacersFiles, DeletersFiles, Making, Replacing, Updating
<1>7. FilesHeld'
  <2>1. \A a \in Artifacts : Ran("delete", a) => Ran("delete", a)'
    BY <1>2 DEF Ran
  <2> QED BY <1>1, <2>1 DEF FilesHeld
<1>8. FilesTidy' /\ RootsKept'
  BY <1>1, <1>2 DEF FilesTidy, RootsKept
<1> QED BY <1>4, <1>5, <1>6, <1>7, <1>8

\* A call that starts, and makes no artifact that another one has made.
LEMMA StartKeeps ==
  ASSUME StoredInv, NEW j \in StoreJobs, NEW r \in JobRecord, jobs[j].at = "new", Becomes(j, r),
         UNCHANGED <<records, onDisk, workspaces, storeFaults>>,
         chain' \in [{"artifacts", "workspaces"} -> Seq(StoreJobs)], ChainsInOrder',
         \/ /\ r.kind \in {"import", "create"} /\ r.at = "copying" /\ r.size = 1
            /\ records[r.artifact].state = "none"
            /\ \A k \in StoreJobs : Making(k) => jobs[k].artifact # r.artifact
         \/ /\ r.kind = "replace" /\ r.at = "copying" /\ r.size = 2
            /\ records[r.artifact].state = "active"
         \/ r.kind \in {"delete", "add", "remove"} /\ r.at = "queued"
         \/ r.kind = "trust" /\ r.at = "configuring"
  PROVE  StoredInv'
<1> USE DEF StoredInv
<1>1. /\ jobs' \in [StoreJobs -> JobRecord] /\ jobs'[j] = r
      /\ \A k \in StoreJobs \ {j} : jobs'[k] = jobs[k]
  BY BecomesFacts
<1>2. StoredTypes'
  BY <1>1 DEF StoredTypes
<1>3. StagesOfKinds'
  BY <1>1 DEF StagesOfKinds
<1>4. \A k \in StoreJobs \ {j} : /\ Making(k)' <=> Making(k)
                                 /\ Replacing(k)' <=> Replacing(k)
                                 /\ Updating(k)' <=> Updating(k)
  BY <1>1 DEF Making, Replacing, Updating
<1>5. MakersApart'
  BY <1>1, <1>4 DEF MakersApart, Making
<1>6. MakersFiles'
  BY <1>1, <1>4 DEF MakersFiles, Making, Updating
<1>7. ReplacersFiles'
  BY <1>1, <1>4 DEF ReplacersFiles, Replacing, Updating
<1>8. DeletersFiles'
  BY <1>1 DEF DeletersFiles
<1>9. FilesHeld'
  <2>1. \A a \in Artifacts : Ran("delete", a) => Ran("delete", a)'
    BY <1>1 DEF Ran
  <2> QED BY <2>1 DEF FilesHeld
<1>10. FilesTidy'
  <2>1. ~Making(j) /\ ~Replacing(j) /\ jobs[j].at # "unlinking"
    BY DEF Making, Replacing
  <2> QED BY <1>1, <1>4, <2>1 DEF FilesTidy
<1>11. RootsKept'
  BY RootsSame
<1> QED
  BY <1>2, <1>3, <1>5, <1>6, <1>7, <1>8, <1>9, <1>10, <1>11

\* A call that starts in the chain of its store.
LEMMA StartQueued ==
  ASSUME StoredInv, NEW j \in StoreJobs, NEW job \in JobRecord, jobs[j].at = "new",
         job.kind \in {"delete", "add", "remove"}, Enqueue(j, job),
         UNCHANGED <<records, onDisk, workspaces, storeFaults>>
  PROVE  StoredInv'
<1> DEFINE r == [job EXCEPT !.at = "queued"]
<1>1. r \in JobRecord /\ r.at = "queued" /\ r.kind = job.kind
  BY DEF JobRecord, Places
<1>2. StoredTypes /\ ChainsInOrder
  BY DEF StoredInv
<1>3. Becomes(j, r) /\ chain' = [chain EXCEPT ![StoreOf(r.kind)] = Append(chain[StoreOf(r.kind)], j)]
  BY <1>1 DEF Enqueue, Becomes
<1> HIDE DEF r
<1>4. ChainsInOrder' /\ chain' \in [{"artifacts", "workspaces"} -> Seq(StoreJobs)]
  BY <1>1, <1>2, <1>3, JoinKeeps
<1> QED BY <1>1, <1>3, <1>4, StartKeeps

\* A call that starts with the copy of a file.
Copying(q, kind, a, n) == [q EXCEPT !.kind = kind, !.at = "copying", !.artifact = a, !.size = n]

\* What the prover needs to know of it.
LEMMA CopyingFacts ==
  ASSUME NEW q \in JobRecord, NEW kind \in Kinds, NEW a \in Artifacts, NEW n \in 0..2
  PROVE  /\ Copying(q, kind, a, n) \in JobRecord
         /\ Copying(q, kind, a, n).kind = kind /\ Copying(q, kind, a, n).at = "copying"
         /\ Copying(q, kind, a, n).artifact = a /\ Copying(q, kind, a, n).size = n
<1>1. "copying" \in Places
  BY DEF Places
<1> QED BY <1>1 DEF JobRecord, Copying

\* A call of the two services starts.
LEMMA CallKeeps ==
  ASSUME StoredInv, NEW j \in StoreJobs, ArtifactCall(j) PROVE StoredInv'
<1>1. /\ jobs[j] \in JobRecord /\ StoredTypes /\ ChainsInOrder /\ jobs[j].at = "new"
      /\ UNCHANGED <<records, onDisk, workspaces, storeFaults>>
  BY StagesFacts DEF ArtifactCall, StoredInv
<1>2. ASSUME NEW r \in JobRecord, Becomes(j, r), UNCHANGED chain, r.at \in {"copying", "configuring"}
      PROVE  ChainsInOrder' /\ chain' \in [{"artifacts", "workspaces"} -> Seq(StoreJobs)]
  BY <1>1, <1>2, BesideChainKeeps DEF StoredTypes
<1>3. ASSUME NEW a \in Artifacts, NewArtifact(j, a) PROVE StoredInv'
  <2>1. PICK kind \in {"import", "create"} :
          jobs' = [jobs EXCEPT ![j] = [jobs[j] EXCEPT !.kind = kind, !.at = "copying", !.artifact = a, !.size = 1]]
    BY <1>3 DEF NewArtifact
  <2> DEFINE r == Copying(jobs[j], kind, a, 1)
  <2>2. r \in JobRecord /\ r.kind = kind /\ r.at = "copying" /\ r.artifact = a /\ r.size = 1
    <3>1. kind \in Kinds /\ 1 \in 0..2
      BY DEF Kinds
    <3> QED BY <1>1, <3>1, CopyingFacts
  <2>3. Becomes(j, r)
    BY <2>1 DEF Becomes, Copying
  <2> HIDE DEF r
  <2>4. UNCHANGED chain /\ records[a].state = "none"
        /\ \A k \in StoreJobs : Making(k) => jobs[k].artifact # a
    BY <1>3 DEF NewArtifact, Making, StoreOf
  <2> QED BY <1>1, <1>2, <2>2, <2>3, <2>4, StartKeeps
<1>4. ASSUME NEW a \in Artifacts, ReplaceFile(j, a) PROVE StoredInv'
  <2> DEFINE r == Copying(jobs[j], "replace", a, 2)
  <2>1. r \in JobRecord /\ r.kind = "replace" /\ r.at = "copying" /\ r.artifact = a /\ r.size = 2
    <3>1. "replace" \in Kinds /\ 2 \in 0..2
      BY DEF Kinds
    <3> QED BY <1>1, <3>1, CopyingFacts
  <2>2. Becomes(j, r) /\ UNCHANGED chain /\ records[a].state = "active"
    BY <1>4 DEF Becomes, ReplaceFile, Copying
  <2> HIDE DEF r
  <2> QED BY <1>1, <1>2, <2>1, <2>2, StartKeeps
<1>5. ASSUME NEW a \in Artifacts, DeleteArtifact(j, a) PROVE StoredInv'
  <2> DEFINE job == [jobs[j] EXCEPT !.kind = "delete", !.artifact = a]
  <2>1. job \in JobRecord /\ job.kind = "delete" /\ Enqueue(j, job)
    BY <1>1, <1>5 DEF JobRecord, Kinds, DeleteArtifact
  <2> HIDE DEF job
  <2> QED BY <1>1, <2>1, StartQueued
<1>6. ASSUME NEW x \in Roots, AddWorkspace(j, x) PROVE StoredInv'
  <2> DEFINE job == [jobs[j] EXCEPT !.kind = "add", !.root = x]
  <2>1. job \in JobRecord /\ job.kind = "add" /\ Enqueue(j, job)
    BY <1>1, <1>6 DEF JobRecord, Kinds, AddWorkspace
  <2> HIDE DEF job
  <2> QED BY <1>1, <2>1, StartQueued
<1>7. ASSUME NEW w \in workspaces, RemoveWorkspace(j, w) PROVE StoredInv'
  <2> DEFINE job == [jobs[j] EXCEPT !.kind = "remove", !.id = w.id]
  <2>1. w.id \in StoreJobs \cup Roots
    BY <1>1 DEF StoredTypes
  <2>2. job \in JobRecord /\ job.kind = "remove" /\ Enqueue(j, job)
    BY <1>1, <1>7, <2>1 DEF JobRecord, Kinds, RemoveWorkspace
  <2> HIDE DEF job
  <2> QED BY <1>1, <2>2, StartQueued
<1>8. ASSUME NEW w \in workspaces, TrustWorkspace(j, w) PROVE StoredInv'
  <2> DEFINE r == [jobs[j] EXCEPT !.kind = "trust", !.at = "configuring", !.id = w.id]
  <2>1. w.id \in StoreJobs \cup Roots
    BY <1>1 DEF StoredTypes
  <2>2. r \in JobRecord /\ r.kind = "trust" /\ r.at = "configuring"
    BY <1>1, <2>1 DEF JobRecord, Kinds, Places
  <2>3. Becomes(j, r) /\ UNCHANGED chain
    BY <1>8 DEF Becomes, TrustWorkspace
  <2> HIDE DEF r
  <2> QED BY <1>1, <1>2, <2>2, <2>3, StartKeeps
<1> QED BY <1>3, <1>4, <1>5, <1>6, <1>7, <1>8 DEF ArtifactCall

\* The update of artifacts.json: by then the maker of an artifact has its file
\* in place, and what is replaced or deleted is listed.
LEMMA ListKeeps ==
  ASSUME StoredInv, NEW j \in StoreJobs, NEW r \in JobRecord, Becomes(j, r),
         jobs[j].at = "holding", jobs[j].kind \in {"import", "create", "replace", "delete"},
         r.kind = jobs[j].kind, r.artifact = jobs[j].artifact, r.size = jobs[j].size,
         r.at = IF jobs[j].kind = "delete" THEN "unlinking" ELSE "done",
         UNCHANGED <<onDisk, workspaces, storeFaults>>,
         chain' \in [{"artifacts", "workspaces"} -> Seq(StoreJobs)], ChainsInOrder',
         records' \in [Artifacts -> [state : {"none", "active", "deleted"}, size : 0..2]],
         \A a \in Artifacts \ {r.artifact} : records'[a] = records[a],
         r.kind \in {"import", "create"} =>
           records'[r.artifact].state = "active" /\ records'[r.artifact].size = r.size,
         r.kind = "replace" =>
           /\ records[r.artifact].state = "active" /\ records'[r.artifact].state = "active"
           /\ records'[r.artifact].size = r.size,
         r.kind = "delete" =>
           records[r.artifact].state = "active" /\ records'[r.artifact].state = "deleted"
  PROVE  StoredInv'
<1> DEFINE b == r.artifact
<1> USE DEF StoredInv
<1>1. /\ jobs' \in [StoreJobs -> JobRecord] /\ jobs'[j] = r
      /\ \A k \in StoreJobs \ {j} : jobs'[k] = jobs[k]
  BY BecomesFacts
<1>2. b \in Artifacts /\ jobs[j] \in JobRecord
  BY DEF JobRecord, StoredTypes
<1>3. StoredTypes'
  BY <1>1 DEF StoredTypes
<1>4. StagesOfKinds'
  BY <1>1 DEF StagesOfKinds
<1>5. \A k \in StoreJobs : /\ Making(k)' <=> Making(k)
                           /\ Replacing(k)' <=> Replacing(k)
                           /\ jobs'[k].artifact = jobs[k].artifact /\ jobs'[k].size = jobs[k].size
  BY <1>1 DEF Making, Replacing
<1>6. (\A k \in StoreJobs \ {j} : Updating(k)' <=> Updating(k)) /\ Updating(j) /\ ~Updating(j)'
  BY <1>1 DEF Updating
<1>7. \A k \in StoreJobs : jobs[k].artifact \in Artifacts
  BY DEF StoredTypes, JobRecord
<1>8. Making(j) => records[b].state = "none" /\ r.size = 1 /\ onDisk[b] = 1
  BY <1>6 DEF MakersFiles
<1>9. Replacing(j) => r.size = 2 /\ onDisk[b] = 2
  BY <1>6 DEF ReplacersFiles, Replacing
<1>10. MakersApart'
  BY <1>5 DEF MakersApart
<1>11. records[b].state # "deleted" /\ records'[b].state # "none"
       /\ (records[b].state = "none" => Making(j))
  BY <1>8 DEF Making
<1>12. MakersFiles'
  <2> SUFFICES ASSUME NEW k \in StoreJobs, Making(k)
               PROVE  /\ jobs'[k].at = "copying" \/ Updating(k)' =>
                           records'[jobs[k].artifact].state = "none" /\ jobs[k].size = 1
                      /\ Updating(k)' => onDisk[jobs[k].artifact] = 1
                      /\ jobs'[k].at = "done" => records'[jobs[k].artifact].state # "none"
    BY <1>5 DEF MakersFiles
  <2>1. CASE k = j
    BY <1>1, <1>6, <1>11, <2>1
  <2>2. CASE k # j /\ jobs[k].artifact = b
    <3>1. ~Making(j)
      BY <2>2 DEF MakersApart
    <3>2. records[b].state # "none"
      BY <1>11, <3>1
    <3> QED BY <1>1, <1>6, <1>11, <2>2, <3>2 DEF MakersFiles
  <2>3. CASE k # j /\ jobs[k].artifact # b
    BY <1>1, <1>6, <1>7, <2>3 DEF MakersFiles
  <2> QED BY <2>1, <2>2, <2>3
<1>13. ReplacersFiles'
  <2> SUFFICES ASSUME NEW k \in StoreJobs, Replacing(k)
               PROVE  /\ records'[jobs[k].artifact].state # "none" /\ jobs[k].size = 2
                      /\ Updating(k)' =>
                           onDisk[jobs[k].artifact] = 2 \/ records'[jobs[k].artifact].state = "deleted"
    BY <1>5 DEF ReplacersFiles
  <2>1. CASE jobs[k].artifact = b
    BY <1>6, <1>11, <2>1 DEF ReplacersFiles
  <2>2. CASE jobs[k].artifact # b
    BY <1>6, <1>7, <2>2 DEF ReplacersFiles
  <2> QED BY <2>1, <2>2
<1>14. DeletersFiles'
  <2> SUFFICES ASSUME NEW k \in StoreJobs, jobs'[k].kind = "delete", jobs'[k].at \in {"unlinking", "done"}
               PROVE  records'[jobs'[k].artifact].state = "deleted"
    BY DEF DeletersFiles
  <2>1. CASE k = j
    BY <1>1, <2>1
  <2>2. CASE k # j
    <3>1. jobs'[k] = jobs[k]
      BY <1>1, <2>2
    <3>2. records[jobs[k].artifact].state = "deleted"
      BY <3>1 DEF DeletersFiles
    <3>3. records'[jobs[k].artifact] = records[jobs[k].artifact]
      BY <1>7, <1>11, <3>2
    <3> QED BY <3>1, <3>2, <3>3
  <2> QED BY <2>1, <2>2
<1>15. FilesHeld'
  <2> SUFFICES ASSUME NEW a \in Artifacts
               PROVE  /\ records'[a].state = "active" => onDisk[a] # 0
                      /\ records'[a].state = "deleted" => Ran("delete", a)'
    BY DEF FilesHeld
  <2>1. Ran("delete", a) => Ran("delete", a)'
    BY <1>1 DEF Ran
  <2>2. CASE a # b
    BY <2>1, <2>2 DEF FilesHeld
  <2>3. CASE a = b /\ r.kind = "delete"
    BY <1>1, <2>3 DEF Ran
  <2>4. CASE a = b /\ r.kind # "delete"
    <3>1. records'[b].state = "active" /\ (Making(j) \/ Replacing(j))
      BY <2>4 DEF Making, Replacing
    <3> QED BY <1>8, <1>9, <2>4, <3>1
  <2> QED BY <2>2, <2>3, <2>4
<1>16. FilesTidy'
  <2> SUFFICES ASSUME NEW a \in Artifacts, storeFaults' = 0
               PROVE
        /\ records'[a].state = "none" =>
             onDisk'[a] = 0 \/ \E k \in StoreJobs : Making(k)' /\ Updating(k)' /\ jobs'[k].artifact = a
        /\ records'[a].state = "active" =>
             \/ onDisk'[a] = records'[a].size
             \/ \E k \in StoreJobs : Replacing(k)' /\ Updating(k)' /\ jobs'[k].artifact = a
        /\ records'[a].state = "deleted" =>
             \/ onDisk'[a] = 0
             \/ \E k \in StoreJobs : jobs'[k].at = "unlinking" /\ jobs'[k].artifact = a
             \/ \E k \in StoreJobs : Replacing(k)' /\ jobs'[k].artifact = a
    BY DEF FilesTidy
  <2>0. onDisk' = onDisk /\ storeFaults = 0
    OBVIOUS
  <2>1. CASE a # b
    <3>1. records'[a] = records[a] /\ \A k \in StoreJobs : jobs[k].artifact = a => k # j
      BY <2>1
    <3>2. \A k \in StoreJobs : jobs[k].artifact = a =>
             /\ Making(k)' <=> Making(k)
             /\ Replacing(k)' <=> Replacing(k)
             /\ Updating(k)' <=> Updating(k)
             /\ jobs'[k] = jobs[k]
      BY <1>1, <1>5, <1>6, <3>1
    <3>3. /\ records[a].state = "none" =>
               onDisk[a] = 0 \/ \E k \in StoreJobs : Making(k) /\ Updating(k) /\ jobs[k].artifact = a
          /\ records[a].state = "active" =>
               \/ onDisk[a] = records[a].size
               \/ \E k \in StoreJobs : Replacing(k) /\ Updating(k) /\ jobs[k].artifact = a
          /\ records[a].state = "deleted" =>
               \/ onDisk[a] = 0
               \/ \E k \in StoreJobs : jobs[k].at = "unlinking" /\ jobs[k].artifact = a
               \/ \E k \in StoreJobs : Replacing(k) /\ jobs[k].artifact = a
      BY <2>0 DEF FilesTidy
    <3> HIDE DEF StoredInv
    <3> QED BY SMTT(20), <2>0, <3>1, <3>2, <3>3
  <2>2. CASE a = b /\ r.kind = "delete"
    BY <1>1, <2>2
  <2>3. CASE a = b /\ r.kind # "delete"
    <3>1. records'[b].state = "active" /\ records'[b].size = r.size /\ (Making(j) \/ Replacing(j))
      BY <2>3 DEF Making, Replacing
    <3> QED BY <1>8, <1>9, <2>0, <2>3, <3>1
  <2> QED BY <2>1, <2>2, <2>3
<1>17. RootsKept'
  BY RootsSame
<1> QED
  BY <1>3, <1>4, <1>10, <1>12, <1>13, <1>14, <1>15, <1>16, <1>17

\* What the mutators make of the two stores.
LEMMA MutatedFacts ==
  ASSUME NEW job \in JobRecord, NEW read \in StoreContents
  PROVE  LET a == job.artifact
             here == {w \in read.workspaces : w.id = job.id} IN
         /\ job.kind \in {"import", "create"} =>
              Mutated(job, read).artifacts =
                [read.artifacts EXCEPT ![a] = [state |-> "active", size |-> job.size]]
         /\ job.kind = "replace" /\ read.artifacts[a].state = "active" =>
              Mutated(job, read).artifacts =
                [read.artifacts EXCEPT ![a] = [read.artifacts[a] EXCEPT !.size = job.size]]
         /\ job.kind = "delete" =>
              Mutated(job, read).artifacts =
                [read.artifacts EXCEPT ![a] = [read.artifacts[a] EXCEPT !.state = "deleted"]]
         /\ job.kind = "trust" =>
              Mutated(job, read).workspaces =
                (read.workspaces \ here) \cup {[w EXCEPT !.trusted = TRUE] : w \in here}
         /\ job.kind = "remove" => Mutated(job, read).workspaces = read.workspaces \ here
         /\ job.kind = "add" => Mutated(job, read) = read
BY DEF JobRecord, StoreContents, Mutated

\* The update of workspaces.json: it adds no second workspace of a directory,
\* and only a removal takes one away.
LEMMA WorkspacesKeep ==
  ASSUME StoredInv, NEW j \in StoreJobs, NEW r \in JobRecord, Becomes(j, r),
         jobs[j].at = "holding", jobs[j].kind \in {"add", "trust", "remove"},
         r.kind = jobs[j].kind, r.root = jobs[j].root, r.artifact = jobs[j].artifact, r.at = "done",
         UNCHANGED <<records, onDisk, storeFaults>>,
         chain' \in [{"artifacts", "workspaces"} -> Seq(StoreJobs)], ChainsInOrder',
         workspaces' \in SUBSET [id : StoreJobs \cup Roots, root : Roots, trusted : BOOLEAN],
         \A w, v \in workspaces' : w.root = v.root => w = v,
         r.kind # "remove" => \A w \in workspaces : \E v \in workspaces' : v.root = w.root,
         r.kind = "add" => \E w \in workspaces' : w.root = r.root
  PROVE  StoredInv'
<1> USE DEF StoredInv
<1>1. /\ jobs' \in [StoreJobs -> JobRecord] /\ jobs'[j] = r
      /\ \A k \in StoreJobs \ {j} : jobs'[k] = jobs[k]
  BY BecomesFacts
<1>2. StoredTypes'
  BY <1>1 DEF StoredTypes
<1>3. StagesOfKinds'
  BY <1>1 DEF StagesOfKinds
<1>4. ~Making(j) /\ ~Replacing(j) /\ ~Making(j)' /\ ~Replacing(j)'
  BY <1>1 DEF Making, Replacing
<1>5. \A k \in StoreJobs \ {j} : /\ Making(k)' <=> Making(k)
                                 /\ Replacing(k)' <=> Replacing(k)
                                 /\ Updating(k)' <=> Updating(k)
  BY <1>1 DEF Making, Replacing, Updating
<1>6. MakersApart' /\ MakersFiles'
  BY <1>1, <1>4, <1>5 DEF MakersApart, MakersFiles
<1>7. ReplacersFiles' /\ DeletersFiles'
  BY <1>1, <1>4, <1>5, SMTT(20) DEF ReplacersFiles, DeletersFiles
<1>8. FilesHeld'
  <2>1. \A a \in Artifacts : Ran("delete", a) => Ran("delete", a)'
    BY <1>1 DEF Ran
  <2> QED BY <2>1 DEF FilesHeld
<1>9. FilesTidy'
  BY <1>1, <1>4, <1>5 DEF FilesTidy
<1>10. RootsKept'
  <2>1. ASSUME NEW k \in StoreJobs, jobs'[k].kind = "add", jobs'[k].at = "done"
        PROVE  \/ \E w \in workspaces' : w.root = jobs'[k].root
               \/ \E i \in StoreJobs : jobs'[i].kind = "remove" /\ jobs'[i].at = "done"
    <3>1. CASE k = j
      BY <1>1, <2>1, <3>1
    <3>2. CASE k # j
      <4>1. \/ \E w \in workspaces : w.root = jobs[k].root
            \/ \E i \in StoreJobs : jobs[i].kind = "remove" /\ jobs[i].at = "done"
        BY <1>1, <2>1, <3>2 DEF RootsKept
      <4>2. CASE r.kind = "remove"
        BY <1>1, <4>2
      <4>3. CASE r.kind # "remove" /\ \E w \in workspaces : w.root = jobs[k].root
        BY <1>1, <3>2, <4>3
      <4>4. CASE \E i \in StoreJobs : jobs[i].kind = "remove" /\ jobs[i].at = "done"
        BY <1>1, <4>4
      <4> QED BY <4>1, <4>2, <4>3, <4>4
    <3> QED BY <3>1, <3>2
  <2> QED BY <2>1 DEF RootsKept
<1> QED
  BY <1>2, <1>3, <1>6, <1>7, <1>8, <1>9, <1>10

\* An update writes its store, or throws.
LEMMA WriteKeeps ==
  ASSUME StoredInv, NEW j \in StoreJobs, WriteToDisk(j) PROVE StoredInv'
<1> DEFINE b == jobs[j].artifact
           read == jobs[j].read
           next == Added(j, read)
           place == IF jobs[j].kind = "delete" THEN "unlinking" ELSE "done"
           r == [jobs[j] EXCEPT !.at = place]
           here == {w \in workspaces : w.id = jobs[j].id}
<1>1. /\ jobs[j] \in JobRecord /\ b \in Artifacts /\ jobs[j].kind \in Kinds /\ jobs[j].at = "holding"
      /\ read \in StoreContents /\ StoredTypes /\ ChainsInOrder /\ Updating(j) /\ InTurn(j)
      /\ jobs[j].size \in 0..2 /\ jobs[j].root \in Roots
  BY StagesFacts DEF WriteToDisk, StoredInv, JobRecord, Updating, InTurn, ChainsInOrder
<1>2. CASE Missing(jobs[j], read) /\ Throw(j) /\ UNCHANGED storeFaults
  BY <1>1, <1>2, ThrowKeeps
<1>3. CASE StoreFault /\ Throw(j)
  BY <1>1, <1>3, ThrowKeeps
<1>4. CASE /\ ~Missing(jobs[j], read)
           /\ IF StoreOf(jobs[j].kind) = "artifacts" THEN records' = next.artifacts /\ UNCHANGED workspaces
              ELSE workspaces' = next.workspaces /\ UNCHANGED records
           /\ chain' = [chain EXCEPT ![StoreOf(jobs[j].kind)] = RemoveFirst(chain[StoreOf(jobs[j].kind)], j)]
           /\ At(j, place) /\ UNCHANGED <<onDisk, storeFaults>>
  <2>1. place \in Places
    BY DEF Places
  <2>2. /\ r \in JobRecord /\ r.at = place /\ r.kind = jobs[j].kind /\ r.artifact = b
        /\ r.size = jobs[j].size /\ r.root = jobs[j].root /\ Becomes(j, r)
    <3> HIDE DEF place
    <3> QED BY <1>1, <1>4, <2>1, AtFacts
  <2> HIDE DEF r
  <2>3. r.at \notin {"queued", "holding"} /\ StoreOf(jobs[j].kind) \in {"artifacts", "workspaces"}
    BY <2>2 DEF StoreOf
  <2>4. chain' \in [{"artifacts", "workspaces"} -> Seq(StoreJobs)] /\ ChainsInOrder'
    BY <1>1, <1>4, <2>2, <2>3, LeaveChainKeeps
  <2>5. CASE StoreOf(jobs[j].kind) = "artifacts"
    <3>1. jobs[j].kind \in {"import", "create", "replace", "delete"}
      BY <1>1, <2>5 DEF Kinds, StoreOf
    <3>2. read.artifacts = records /\ records \in [Artifacts -> [state : {"none", "active", "deleted"}, size : 0..2]]
      BY <1>1, <2>5 DEF ChainsInOrder, StoredTypes
    <3>3. records' = Mutated(jobs[j], read).artifacts /\ UNCHANGED workspaces
      BY <1>4, <2>5, <3>1 DEF Added
    <3>4. CASE jobs[j].kind \in {"import", "create"}
      <4>1. records' = [records EXCEPT ![b] = [state |-> "active", size |-> jobs[j].size]]
        BY <1>1, <3>2, <3>3, <3>4, MutatedFacts
      <4> QED BY <1>1, <1>4, <2>2, <2>4, <3>1, <3>2, <3>3, <3>4, <4>1, ListKeeps
    <3>5. CASE jobs[j].kind = "replace"
      <4>1. records[b].state = "active"
        BY <1>4, <3>2, <3>5 DEF Missing
      <4>2. records' = [records EXCEPT ![b] = [records[b] EXCEPT !.size = jobs[j].size]]
        BY <1>1, <3>2, <3>3, <3>5, <4>1, MutatedFacts
      <4> QED BY <1>1, <1>4, <2>2, <2>4, <3>1, <3>2, <3>3, <3>5, <4>1, <4>2, ListKeeps
    <3>6. CASE jobs[j].kind = "delete"
      <4>1. records[b].state = "active"
        BY <1>4, <3>2, <3>6 DEF Missing
      <4>2. records' = [records EXCEPT ![b] = [records[b] EXCEPT !.state = "deleted"]]
        BY <1>1, <3>2, <3>3, <3>6, MutatedFacts
      <4> QED BY <1>1, <1>4, <2>2, <2>4, <3>1, <3>2, <3>3, <3>6, <4>1, <4>2, ListKeeps
    <3> QED BY <3>1, <3>4, <3>5, <3>6
  <2>6. CASE StoreOf(jobs[j].kind) = "workspaces"
    <3>1. jobs[j].kind \in {"add", "trust", "remove"} /\ r.at = "done"
      BY <1>1, <2>2, <2>6 DEF Kinds, StoreOf
    <3>2. /\ read.workspaces = workspaces
          /\ workspaces \in SUBSET [id : StoreJobs \cup Roots, root : Roots, trusted : BOOLEAN]
          /\ \A w, v \in workspaces : w.root = v.root => w = v
      BY <1>1, <2>6 DEF ChainsInOrder, StoredTypes, StoredInv, RootsKept
    <3>3. workspaces' = next.workspaces /\ UNCHANGED records
      BY <1>4, <2>6
    <3>4. CASE jobs[j].kind = "add"
      <4>1. CASE \A w \in workspaces : w.root # jobs[j].root
        <5>1. workspaces' = workspaces \cup {[id |-> j, root |-> jobs[j].root, trusted |-> FALSE]}
          BY <1>1, <3>2, <3>3, <3>4, <4>1 DEF Added, StoreContents
        <5> DEFINE n == [id |-> j, root |-> jobs[j].root, trusted |-> FALSE]
        <5>2. n \in [id : StoreJobs \cup Roots, root : Roots, trusted : BOOLEAN] /\ n.root = jobs[j].root
          BY <1>1
        <5> HIDE DEF n
        <5>3. \A w, v \in workspaces' : w.root = v.root => w = v
          BY <3>2, <4>1, <5>1, <5>2, ZenonT(30) DEF n
        <5>4. /\ workspaces' \in SUBSET [id : StoreJobs \cup Roots, root : Roots, trusted : BOOLEAN]
              /\ \A w \in workspaces : \E v \in workspaces' : v.root = w.root
              /\ \E w \in workspaces' : w.root = r.root
          BY <2>2, <3>2, <5>1, <5>2 DEF n
        <5> QED BY <1>1, <1>4, <2>2, <2>4, <3>1, <3>3, <5>3, <5>4, WorkspacesKeep
      <4>2. CASE \E w \in workspaces : w.root = jobs[j].root
        <5>1. workspaces' = workspaces
          BY <1>1, <3>2, <3>3, <3>4, <4>2, MutatedFacts DEF Added
        <5> QED BY <1>1, <1>4, <2>2, <2>4, <3>1, <3>2, <3>3, <4>2, <5>1, WorkspacesKeep
      <4> QED BY <4>1, <4>2
    <3>5. CASE jobs[j].kind = "trust"
      <4>1. workspaces' = (workspaces \ here) \cup {[w EXCEPT !.trusted = TRUE] : w \in here}
        BY <1>1, <3>2, <3>3, <3>5, MutatedFacts DEF Added
      <4>2. \A w \in here : /\ [w EXCEPT !.trusted = TRUE].root = w.root
                            /\ [w EXCEPT !.trusted = TRUE] \in
                                 [id : StoreJobs \cup Roots, root : Roots, trusted : BOOLEAN]
        BY ZenonT(30), <3>2
      <4>3. workspaces' \in SUBSET [id : StoreJobs \cup Roots, root : Roots, trusted : BOOLEAN]
        BY <3>2, <4>1, <4>2
      <4>4. \A v \in workspaces' : \E w \in workspaces :
              /\ v.root = w.root
              /\ v = IF w \in here THEN [w EXCEPT !.trusted = TRUE] ELSE w
        BY <4>1, <4>2
      <4>5. ASSUME NEW w \in workspaces', NEW v \in workspaces', w.root = v.root PROVE w = v
        <5>1. PICK w1 \in workspaces :
                w.root = w1.root /\ w = IF w1 \in here THEN [w1 EXCEPT !.trusted = TRUE] ELSE w1
          BY <4>4
        <5>2. PICK v1 \in workspaces :
                v.root = v1.root /\ v = IF v1 \in here THEN [v1 EXCEPT !.trusted = TRUE] ELSE v1
          BY <4>4
        <5>3. w1 = v1
          BY <3>2, <4>5, <5>1, <5>2
        <5> QED BY <5>1, <5>2, <5>3
      <4>6. \A w \in workspaces : \E v \in workspaces' : v.root = w.root
        BY <4>1, <4>2
      <4> QED BY <1>1, <1>4, <2>2, <2>4, <3>1, <3>3, <3>5, <4>3, <4>5, <4>6, WorkspacesKeep
    <3>6. CASE jobs[j].kind = "remove"
      <4>1. workspaces' = workspaces \ here
        BY <1>1, <3>2, <3>3, <3>6, MutatedFacts DEF Added
      <4> QED BY <1>1, <1>4, <2>2, <2>4, <3>1, <3>2, <3>3, <3>6, <4>1, WorkspacesKeep
    <3> QED BY <3>1, <3>4, <3>5, <3>6
  <2> QED BY <2>3, <2>5, <2>6
<1> QED BY <1>2, <1>3, <1>4 DEF WriteToDisk

\* The invariant holds at first.
LEMMA StoredInvInit == StoredInit => StoredInv
<1> SUFFICES ASSUME StoredInit PROVE StoredInv
  OBVIOUS
<1>1. PICK kept \in SUBSET Artifacts :
        /\ onDisk = [a \in Artifacts |-> IF a \in kept THEN 1 ELSE 0]
        /\ records = [a \in Artifacts |-> IF a \in kept THEN [state |-> "active", size |-> 1]
                                          ELSE [state |-> "none", size |-> 0]]
  BY DEF StoredInit
<1>2. /\ onDisk \in [Artifacts -> 0..2]
      /\ records \in [Artifacts -> [state : {"none", "active", "deleted"}, size : 0..2]]
      /\ \A a \in Artifacts : /\ records[a].state # "deleted"
                              /\ records[a].state = "none" => onDisk[a] = 0
                              /\ records[a].state = "active" => onDisk[a] = records[a].size /\ onDisk[a] # 0
  BY <1>1
<1>3. /\ workspaces \in SUBSET [id : StoreJobs \cup Roots, root : Roots, trusted : BOOLEAN]
      /\ \A w, v \in workspaces : w.root = v.root => w = v
  <2>1. workspaces \in SUBSET [id : Roots, root : Roots, trusted : {FALSE}] /\ \A w \in workspaces : w.id = w.root
    BY DEF StoredInit
  <2>2. \A w \in workspaces : w = [id |-> w.root, root |-> w.root, trusted |-> FALSE]
    <3>1. ASSUME NEW w \in [id : Roots, root : Roots, trusted : {FALSE}], w.id = w.root
          PROVE  w = [id |-> w.root, root |-> w.root, trusted |-> FALSE]
      BY <3>1
    <3> QED BY <2>1, <3>1
  <2>3. \A w, v \in workspaces : w.root = v.root => w = v
    BY <2>2
  <2>4. workspaces \in SUBSET [id : StoreJobs \cup Roots, root : Roots, trusted : BOOLEAN]
    BY <2>1
  <2> QED BY <2>3, <2>4
<1>4. storeFaults = 0 /\ chain = [s \in {"artifacts", "workspaces"} |-> <<>>]
  BY DEF StoredInit
<1>5. (CHOOSE a \in Artifacts : TRUE) \in Artifacts /\ (CHOOSE x \in Roots : TRUE) \in Roots
  BY StoredAssumption
<1>6. OnDisk \in StoreContents
  BY <1>2, <1>3 DEF OnDisk, StoreContents
<1>7. jobs \in [StoreJobs -> JobRecord] /\ \A j \in StoreJobs : jobs[j].at = "new" /\ jobs[j].kind = "import"
  <2>1. jobs = [j \in StoreJobs |->
                  [kind |-> "import", at |-> "new", artifact |-> CHOOSE a \in Artifacts : TRUE,
                   root |-> CHOOSE x \in Roots : TRUE, id |-> j, size |-> 0, read |-> OnDisk]]
    BY DEF StoredInit
  <2>2. "import" \in Kinds /\ "new" \in Places
    BY DEF Kinds, Places
  <2> QED BY <1>5, <1>6, <2>1, <2>2 DEF JobRecord
<1>8. StoredTypes
  BY <1>2, <1>3, <1>4, <1>7 DEF StoredTypes
<1>9. StagesOfKinds /\ ChainsInOrder /\ MakersApart /\ MakersFiles /\ ReplacersFiles /\ DeletersFiles
  BY <1>7 DEF StagesOfKinds, ChainsInOrder, MakersApart, MakersFiles, ReplacersFiles, DeletersFiles, Making, Replacing
<1>10. FilesHeld /\ FilesTidy /\ RootsKept
  BY <1>2, <1>3, <1>7 DEF FilesHeld, FilesTidy, RootsKept
<1> QED BY <1>8, <1>9, <1>10 DEF StoredInv

\* Every step keeps the invariant.
LEMMA StoredInvStep == StoredInv /\ [StoredNext]_storedVars => StoredInv'
<1> SUFFICES ASSUME StoredInv, [StoredNext]_storedVars PROVE StoredInv'
  OBVIOUS
<1>1. ASSUME NEW j \in StoreJobs,
             \/ ArtifactCall(j) \/ Copy(j) \/ RenameCopy(j) \/ EnsureProjectConfig(j)
             \/ ReadFromDisk(j) \/ WriteToDisk(j) \/ Unlink(j)
      PROVE  StoredInv'
  BY <1>1, CallKeeps, CopyKeeps, RenameCopyKeeps, ConfigKeeps, ReadKeeps, WriteKeeps, UnlinkKeeps
<1>2. CASE RestartStores
  BY <1>2, StoresRestartKeeps
<1>3. CASE UNCHANGED storedVars
  <2>1. UNCHANGED <<records, onDisk, workspaces, chain, jobs, storeFaults>>
    BY <1>3 DEF storedVars
  <2> QED
    BY <2>1 DEF StoredInv, StoredTypes, StagesOfKinds, ChainsInOrder, MakersApart, MakersFiles,
      ReplacersFiles, DeletersFiles, FilesHeld, FilesTidy, RootsKept, Making, Replacing, Updating, Ran
<1> QED BY <1>1, <1>2, <1>3 DEF StoredNext

\* The invariant says what is kept.
LEMMA StoredInvKept == StoredInv => StoredKept
<1> SUFFICES ASSUME StoredInv PROVE StoredKept
  OBVIOUS
<1> USE DEF StoredInv
<1>1. ASSUME NEW a \in Artifacts, storeFaults = 0,
             \A j \in StoreJobs : jobs[j].at \in {"new", "done", "failed"},
             ~(Ran("replace", a) /\ Ran("delete", a))
      PROVE  onDisk[a] = IF records[a].state = "active" THEN records[a].size ELSE 0
  <2>1. \A j \in StoreJobs : ~Updating(j) /\ jobs[j].at # "unlinking"
    BY <1>1 DEF Updating
  <2>2. \A j \in StoreJobs : Replacing(j) /\ jobs[j].artifact = a => Ran("replace", a)
    BY <1>1 DEF Replacing, Ran
  <2>3. records[a].state \in {"none", "active", "deleted"}
    BY DEF StoredTypes
  <2> QED BY <1>1, <2>1, <2>2, <2>3 DEF FilesTidy, FilesHeld
<1>2. ASSUME NEW j \in StoreJobs, jobs[j].at = "done"
      PROVE  /\ jobs[j].kind \in {"import", "create"} => records[jobs[j].artifact].state # "none"
             /\ jobs[j].kind = "delete" => records[jobs[j].artifact].state = "deleted"
  BY <1>2 DEF MakersFiles, DeletersFiles, Making
<1> QED BY <1>1, <1>2 DEF StoredKept, FilesHeld, RootsKept

\* The specification keeps it.
LEMMA StoresAreKept == StoredSpec => []StoredInv
BY StoredInvInit, StoredInvStep, PTL DEF StoredSpec

\* What is kept stays kept, over failures and restarts: the file of an artifact
\* that is listed is there, and when all calls have ended without a failure a
\* file that is there is listed, with its size, unless a replacement met the
\* deletion of the artifact; no update is lost to another; and a directory is
\* one workspace however often it is added.
THEOREM FilesAreKept == StoredSpec => []StoredKept
BY StoresAreKept, StoredInvKept, PTL

StoreFaultsFew == storeFaults <= MaxStoreFaults

\* A step of the stores counts a failure within the bound, or none.
LEMMA StoreFaultsStayFew == StoredInv /\ StoreFaultsFew /\ [StoredNext]_storedVars => StoreFaultsFew'
<1> SUFFICES ASSUME StoredInv, StoreFaultsFew, [StoredNext]_storedVars PROVE StoreFaultsFew'
  OBVIOUS
<1>1. storeFaults \in Nat /\ MaxStoreFaults \in Nat
  BY StoredAssumption DEF StoredInv, StoredTypes, StoredAssumption
<1>2. StoreFault \/ UNCHANGED storeFaults
  <2>1. CASE UNCHANGED storedVars
    BY <2>1 DEF storedVars
  <2>2. CASE RestartStores
    BY <2>2 DEF RestartStores
  <2>3. ASSUME NEW j \in StoreJobs, ArtifactCall(j) PROVE UNCHANGED storeFaults
    BY <2>3 DEF ArtifactCall
  <2>4. ASSUME NEW j \in StoreJobs, Copy(j) \/ RenameCopy(j) \/ EnsureProjectConfig(j)
        PROVE  StoreFault \/ UNCHANGED storeFaults
    BY <2>4 DEF Copy, RenameCopy, EnsureProjectConfig
  <2>5. ASSUME NEW j \in StoreJobs, ReadFromDisk(j) \/ Unlink(j) \/ WriteToDisk(j)
        PROVE  StoreFault \/ UNCHANGED storeFaults
    BY <2>5 DEF ReadFromDisk, Unlink, WriteToDisk
  <2> QED BY <2>1, <2>2, <2>3, <2>4, <2>5 DEF StoredNext
<1> QED BY <1>1, <1>2 DEF StoreFault, StoreFaultsFew

\* The stores, their chains and the calls keep their types (StoredTypeOK).
THEOREM StoredTypeCorrect == StoredSpec => []StoredTypeOK
<1>1. StoredInit => StoreFaultsFew
  BY StoredAssumption DEF StoredInit, StoreFaultsFew, StoredAssumption
<1>2. StoredInv /\ StoreFaultsFew => StoredTypeOK
  <2> SUFFICES ASSUME StoredInv, StoreFaultsFew PROVE StoredTypeOK
    OBVIOUS
  <2>1. storeFaults \in 0..MaxStoreFaults
    BY StoredAssumption DEF StoredInv, StoredTypes, StoredAssumption, StoreFaultsFew
  <2>2. OnDisk \in StoreContents
    BY DEF StoredInv, StoredTypes, OnDisk, StoreContents
  <2>3. ASSUME NEW j \in StoreJobs PROVE jobs[j] \in JobRecord
    BY DEF StoredInv, StoredTypes
  <2>4. \A s \in DOMAIN chain : chain[s] \in Seq(StoreJobs)
    BY DEF StoredInv, StoredTypes
  <2> QED BY <2>1, <2>2, <2>3, <2>4 DEF StoredTypeOK, StoredInv, StoredTypes, JobRecord
<1> QED BY <1>1, <1>2, StoresAreKept, StoreFaultsStayFew, PTL DEF StoredSpec

-----------------------------------------------------------------------------
(* Checkpoints and their undo *)

TurnRecords == [at : {"new", "active", "over"}, log : Seq(Mutations), requests : Nat]
JournalRecords == [state : {"none", "active", "ready", "undone", "conflict", "failed"}, log : Seq(Mutations)]
UndoRecords == [of : Turns \cup {NoTurn}, left : Seq(Mutations), found : Disk, edited : BOOLEAN]

CheckTypes ==
  /\ files \in Disk /\ turn \in [Turns -> TurnRecords] /\ journal \in [Turns -> JournalRecords]
  /\ undoing \in UndoRecords

\* What a mutation found at a path it touches.
Touches(m, p) == p \in {m.path, m.from}
Was(m, p) == IF m.from = p \/ m.from = Absent THEN m.before ELSE Absent

\* The mutations of log but its first k are undone: a path they touch is as the first of them
\* found it, but for those in but, and any other as it was when the undo began.
UndoneTo(now, log, k, found, but) ==
  /\ \A p \in Paths : (\A i \in k + 1..Len(log) : ~Touches(log[i], p)) => now[p] = found[p]
  /\ \A p \in Paths \ but, i \in k + 1..Len(log) :
       Touches(log[i], p) /\ (\A j \in k + 1..i - 1 : ~Touches(log[j], p)) => now[p] = Was(log[i], p)

\* While a turn is undone, the mutations that are left are the first of its log, the last of
\* them next, and those that are not left are undone, unless the user edited a file meanwhile.
UndoGoesOn ==
  undoing.of # NoTurn =>
    LET log == journal[undoing.of].log
        k == Len(undoing.left)
    IN /\ undoing.of \in Turns /\ undoing.found \in Disk /\ undoing.left \in Seq(Mutations) /\ k <= Len(log)
       /\ \A i \in 1..k : undoing.left[i] = log[k + 1 - i]
       /\ undoing.edited = FALSE => UndoneTo(files, log, k, undoing.found, stuck)

CheckInv == CheckTypes /\ UndoGoesOn

\* A finite set as a sequence of its elements.
LEMMA SetAsSequence ==
  ASSUME NEW S, IsFiniteSet(S)
  PROVE  SetToSeq(S) \in Seq(S)
<1>1. Cardinality(S) \in Nat /\ ExistsBijection(1..Cardinality(S), S)
  BY FS_CardinalityType
<1>2. PICK f : f \in Bijection(1..Cardinality(S), S)
  BY <1>1 DEF ExistsBijection
<1>3. f \in [1..Cardinality(S) -> S] /\ IsInjective(f)
  BY <1>2 DEF Bijection, Injection, IsInjective
<1>4. SetToSeq(S) \in [1..Cardinality(S) -> S]
  BY <1>3 DEF SetToSeq
<1> QED BY <1>1, <1>4

\* The batch of a request is a sequence of mutations.
LEMMA BatchIsLog ==
  ASSUME CheckpointAssumption, NEW old \in Disk, NEW new \in Disk
  PROVE  BuildMutations(old, new) \in Seq(Mutations)
<1> DEFINE renamed == IF Renames(old, new) = {} THEN {} ELSE {CHOOSE m \in Renames(old, new) : TRUE}
           rest == {p \in Paths : old[p] # new[p] /\ \A m \in renamed : p \notin {m.path, m.from}}
           Edit(p) == [path |-> p, from |-> Absent, before |-> old[p], after |-> new[p]]
           changed == {Edit(p) : p \in rest}
<1>1. renamed \subseteq Mutations /\ IsFiniteSet(renamed)
  <2>1. Renames(old, new) # {} => (CHOOSE m \in Renames(old, new) : TRUE) \in Renames(old, new)
    OBVIOUS
  <2>2. Renames(old, new) \subseteq Mutations
    BY DEF Renames
  <2> QED BY <2>1, <2>2, FS_EmptySet, FS_Singleton
<1>2. changed \subseteq Mutations
  BY DEF Mutations, Disk
<1>3. IsFiniteSet(changed)
  <2>1. IsFiniteSet(rest)
    BY FS_Subset, CheckpointAssumption DEF CheckpointAssumption
  <2> DEFINE f == [p \in rest |-> Edit(p)]
  <2>2. f \in Surjection(rest, changed)
    <3> HIDE DEF rest, Edit
    <3> QED BY DEF Surjection
  <2> HIDE DEF rest, changed, f
  <2> QED BY <2>1, <2>2, FS_Surjection
<1>4. BuildMutations(old, new) = SetToSeq(renamed) \o SetToSeq(changed)
  BY DEF BuildMutations
<1> HIDE DEF renamed, changed
<1>5. SetToSeq(renamed) \in Seq(renamed) /\ SetToSeq(changed) \in Seq(changed)
  BY <1>1, <1>3, SetAsSequence
<1>6. SetToSeq(renamed) \in Seq(Mutations) /\ SetToSeq(changed) \in Seq(Mutations)
  BY <1>1, <1>2, <1>5
<1> QED BY <1>4, <1>6

\* What is appended to the journal, or is left in it after a compaction.
LEMMA JournalKeeps ==
  ASSUME CheckTypes, NEW t \in Turns, NEW log \in Seq(Mutations),
         NEW state \in {"active", "ready", "undone", "conflict", "failed"},
         \/ Append1(t, state, log)
         \/ Settled2(journal) \/ Settled2([journal EXCEPT ![t] = [state |-> state, log |-> log]])
         \/ Settled2([journal EXCEPT ![t].state = state])
  PROVE  journal' \in [Turns -> JournalRecords]
<1>1. [state |-> state, log |-> log] \in JournalRecords /\ NoRecord \in JournalRecords
  BY DEF JournalRecords, NoRecord
<1>2. [journal EXCEPT ![t].state = state] \in [Turns -> JournalRecords]
  BY DEF CheckTypes, JournalRecords
<1>3. ASSUME NEW latest \in [Turns -> JournalRecords], Settled2(latest)
      PROVE  journal' \in [Turns -> JournalRecords]
  BY <1>1, <1>3 DEF Settled2
<1>4. [journal EXCEPT ![t] = [state |-> state, log |-> log]] \in [Turns -> JournalRecords]
  BY <1>1 DEF CheckTypes
<1> QED BY <1>1, <1>2, <1>3, <1>4 DEF Append1, CheckTypes

\* The steps of turns, and the beginning of an undo.
LEMMA TurnsKeep ==
  ASSUME CheckpointAssumption, CheckInv, NEW t \in Turns,
         StartTurn(t) \/ HostRequest(t) \/ EndTurn(t) \/ BeginUndo(t)
  PROVE  CheckInv'
<1>t. CheckTypes /\ undoing.of = NoTurn
  BY DEF CheckInv, StartTurn, HostRequest, EndTurn, BeginUndo, Free
<1>l. turn[t].log \in Seq(Mutations) /\ journal[t].log \in Seq(Mutations) /\ turn[t] \in TurnRecords
  BY <1>t DEF CheckTypes, TurnRecords, JournalRecords
<1>1. CASE StartTurn(t)
  <2>1. turn' = [turn EXCEPT ![t].at = "active"] /\ UNCHANGED <<files, journal, undoing>>
    BY <1>1 DEF StartTurn
  <2> QED BY <2>1, <1>t DEF CheckInv, CheckTypes, TurnRecords, UndoGoesOn
<1>2. CASE HostRequest(t)
  <2> DEFINE batch == BuildMutations(files, files')
             log == turn[t].log \o batch
  <2>1. files' \in Disk /\ UNCHANGED undoing
        /\ \/ /\ turn' = [turn EXCEPT ![t].log = log, ![t].requests = @ + 1]
              /\ Append1(t, "active", log) \/ UNCHANGED journal
           \/ turn' = [turn EXCEPT ![t].requests = @ + 1] /\ UNCHANGED journal
    BY <1>2 DEF HostRequest
  <2>2. batch \in Seq(Mutations)
    BY <2>1, <1>t, BatchIsLog DEF CheckTypes
  <2> HIDE DEF batch
  <2>3. log \in Seq(Mutations)
    BY <2>2, <1>l
  <2> HIDE DEF log
  <2>4. turn' \in [Turns -> TurnRecords]
    <3>1. [turn[t] EXCEPT !.requests = @ + 1] \in TurnRecords
      BY <1>l DEF TurnRecords
    <3>2. [turn[t] EXCEPT !.log = log, !.requests = @ + 1] \in TurnRecords
      <4>1. [turn[t] EXCEPT !.log = log] \in TurnRecords
            /\ [turn[t] EXCEPT !.log = log].requests = turn[t].requests
        BY <1>l, <2>3 DEF TurnRecords
      <4>2. [turn[t] EXCEPT !.log = log, !.requests = @ + 1]
              = [[turn[t] EXCEPT !.log = log] EXCEPT !.requests = turn[t].requests + 1]
        BY <1>l DEF TurnRecords
      <4>3. turn[t].requests + 1 \in Nat
        BY <1>l DEF TurnRecords
      <4> QED BY <4>1, <4>2, <4>3 DEF TurnRecords
    <3> QED BY <2>1, <3>1, <3>2, <1>t DEF CheckTypes
  <2>5. journal' \in [Turns -> JournalRecords]
    BY <2>1, <2>3, <1>t, JournalKeeps DEF CheckTypes
  <2> QED BY <2>1, <2>4, <2>5, <1>t DEF CheckInv, CheckTypes, UndoGoesOn
<1>3. CASE EndTurn(t)
  <2>1. turn' = [turn EXCEPT ![t].at = "over"] /\ UNCHANGED <<files, undoing>>
        /\ \/ Settled2(journal)
           \/ Settled2([journal EXCEPT ![t] = [state |-> "ready", log |-> turn[t].log]])
    BY <1>3 DEF EndTurn
  <2>2. turn' \in [Turns -> TurnRecords]
    BY <2>1, <1>t DEF CheckTypes, TurnRecords
  <2>3. journal' \in [Turns -> JournalRecords]
    BY <2>1, <1>t, <1>l, JournalKeeps
  <2> QED BY <2>1, <2>2, <2>3, <1>t DEF CheckInv, CheckTypes, UndoGoesOn
<1>4. CASE BeginUndo(t)
  <2> DEFINE log == journal[t].log
  <2>1. CASE Append1(t, "conflict", log) /\ UNCHANGED undoing
    <3>1. journal' \in [Turns -> JournalRecords] /\ UNCHANGED <<files, turn>>
      BY <1>4, <2>1, <1>t, <1>l, JournalKeeps DEF BeginUndo
    <3> QED BY <2>1, <3>1, <1>t DEF CheckInv, CheckTypes, UndoGoesOn
  <2>2. CASE undoing' = [of |-> t, left |-> Reverse(log), found |-> files, edited |-> FALSE] /\ UNCHANGED journal
    <3>1. UNCHANGED <<files, turn>>
      BY <1>4 DEF BeginUndo
    <3>3. /\ Reverse(log) \in Seq(Mutations) /\ Len(Reverse(log)) = Len(log)
          /\ \A i \in 1..Len(log) : Reverse(log)[i] = log[Len(log) + 1 - i]
      <4>1. \A i \in 1..Len(log) : Len(log) - i + 1 \in 1..Len(log) /\ (Len(log) - i) + 1 = Len(log) + 1 - i
        BY <1>l
      <4>2. \A i \in 1..Len(log) : log[(Len(log) - i) + 1] \in Mutations
        BY <1>l, <4>1
      <4>3. Reverse(log) = [i \in 1..Len(log) |-> log[(Len(log) - i) + 1]]
        BY DEF Reverse
      <4>4. Reverse(log) \in [1..Len(log) -> Mutations] /\ Len(log) \in Nat
        BY <1>l, <4>2, <4>3
      <4>5. Reverse(log) \in Seq(Mutations) /\ Len(Reverse(log)) = Len(log)
        BY <4>4
      <4> HIDE DEF log
      <4>6. \A i \in 1..Len(log) : Reverse(log)[i] = log[Len(log) + 1 - i]
        BY <4>1, <4>3
      <4> QED BY <4>5, <4>6
    <3>2. CheckTypes'
      <4>1. undoing' \in UndoRecords
        BY <2>2, <3>3, <1>t DEF CheckTypes, UndoRecords
      <4> QED BY <2>2, <3>1, <4>1, <1>t DEF CheckTypes
    <3>4. UndoneTo(files', log, Len(log), files, stuck')
      BY <2>2, <3>1, <1>l DEF UndoneTo
    <3> QED BY <2>2, <3>1, <3>2, <3>3, <3>4, <1>l, <1>t DEF CheckInv, CheckTypes, UndoGoesOn
  <2> QED BY <1>4, <2>1, <2>2 DEF BeginUndo
<1> QED BY <1>1, <1>2, <1>3, <1>4

\* One mutation more is undone.
LEMMA RestoreKeeps ==
  ASSUME CheckpointAssumption, CheckInv, RestoreMutation
  PROVE  CheckInv'
<1> DEFINE t == undoing.of
           log == journal[t].log
           left == undoing.left
           k == Len(left)
           found == undoing.found
           m == log[k]
<1>t. CheckTypes /\ UndoGoesOn
  BY DEF CheckInv
<1>1. /\ t # NoTurn /\ left # <<>> /\ UNCHANGED <<turn, journal>>
      /\ undoing' = [undoing EXCEPT !.left = Tail(left)]
      /\ \/ /\ files' = IF Head(left).from = Absent THEN [files EXCEPT ![Head(left).path] = Head(left).before]
                        ELSE [files EXCEPT ![Head(left).path] = Absent, ![Head(left).from] = Head(left).before]
            /\ stuck' = stuck
         \/ /\ files' = IF Head(left).from = Absent THEN files ELSE [files EXCEPT ![Head(left).from] = Head(left).before]
            /\ stuck' = stuck \cup {Head(left).path}
  BY DEF RestoreMutation, Free
<1>2. /\ t \in Turns /\ found \in Disk /\ left \in Seq(Mutations) /\ k <= Len(log)
      /\ \A i \in 1..k : left[i] = log[k + 1 - i]
      /\ undoing.edited = FALSE => UndoneTo(files, log, k, found, stuck)
  BY <1>1, <1>t DEF UndoGoesOn
<1>3. log \in Seq(Mutations)
  BY <1>2, <1>t DEF CheckTypes, JournalRecords
<1>4. k \in Nat /\ k >= 1 /\ Tail(left) \in Seq(Mutations) /\ Len(Tail(left)) = k - 1
  BY <1>1, <1>2
<1>5. Head(left) = m /\ m \in Mutations
  <2>1. Head(left) = left[1] /\ 1 \in 1..k /\ k + 1 - 1 = k /\ k \in 1..Len(log)
    BY <1>1, <1>2, <1>3, <1>4
  <2> QED BY <2>1, <1>2, <1>3
<1>6. \A i \in 1..(k - 1) : Tail(left)[i] = log[(k - 1) + 1 - i]
  <2>1. ASSUME NEW i \in 1..(k - 1) PROVE Tail(left)[i] = log[(k - 1) + 1 - i]
    <3>1. i + 1 \in 1..k /\ k + 1 - (i + 1) = (k - 1) + 1 - i
      <4> HIDE DEF k
      <4> QED BY <1>4
    <3>2. Tail(left)[i] = left[i + 1]
      BY <1>1, <1>2, <1>4
    <3> QED BY <3>1, <3>2, <1>2
  <2> QED BY <2>1
<1>7. /\ m.path \in Paths /\ m.from \in Paths \cup {Absent} /\ m.before \in Contents \cup {Absent}
      /\ Absent \notin Paths
  BY <1>5, CheckpointAssumption DEF Mutations, CheckpointAssumption
<1>8. /\ files' \in Disk /\ stuck \subseteq stuck'
      /\ \A p \in Paths \ stuck' : Touches(m, p) => files'[p] = Was(m, p)
      /\ \A p \in Paths : ~Touches(m, p) => files'[p] = files[p]
  <2> HIDE DEF m
  <2>1. files \in Disk
    BY <1>t DEF CheckTypes
  <2>0. \/ /\ files' = IF m.from = Absent THEN [files EXCEPT ![m.path] = m.before]
                       ELSE [files EXCEPT ![m.path] = Absent, ![m.from] = m.before]
           /\ stuck' = stuck
        \/ /\ files' = IF m.from = Absent THEN files ELSE [files EXCEPT ![m.from] = m.before]
           /\ stuck' = stuck \cup {m.path}
    BY <1>1, <1>5
  <2>2. CASE m.from = Absent
    <3>1. CASE files' = [files EXCEPT ![m.path] = m.before] /\ stuck' = stuck
      BY <1>7, <2>1, <2>2, <3>1 DEF Disk, Touches, Was
    <3>2. CASE files' = files /\ stuck' = stuck \cup {m.path}
      BY <1>7, <2>1, <2>2, <3>2 DEF Touches
    <3> QED BY <2>0, <2>2, <3>1, <3>2
  <2>3. CASE m.from # Absent
    <3>2. m.from \in Paths
      BY <1>7, <2>3
    <3>3. CASE files' = [files EXCEPT ![m.path] = Absent, ![m.from] = m.before] /\ stuck' = stuck
      <4>1. /\ files' \in Disk /\ files'[m.from] = m.before
            /\ m.path # m.from => files'[m.path] = Absent
            /\ \A p \in Paths : p # m.path /\ p # m.from => files'[p] = files[p]
        BY <1>7, <2>1, <3>2, <3>3 DEF Disk
      <4> QED BY <2>3, <3>2, <3>3, <4>1 DEF Touches, Was
    <3>4. CASE files' = [files EXCEPT ![m.from] = m.before] /\ stuck' = stuck \cup {m.path}
      <4>1. /\ files' \in Disk /\ files'[m.from] = m.before
            /\ \A p \in Paths : p # m.from => files'[p] = files[p]
        BY <1>7, <2>1, <3>2, <3>4 DEF Disk
      <4> QED BY <2>3, <3>2, <3>4, <4>1 DEF Touches, Was
    <3> QED BY <2>0, <2>3, <3>3, <3>4
  <2> QED BY <2>2, <2>3
<1>9. ASSUME undoing.edited = FALSE PROVE UndoneTo(files', log, k - 1, found, stuck')
  <2> HIDE DEF m, log, k, found
  <2>1. UndoneTo(files, log, k, found, stuck) /\ Len(log) \in Nat /\ k \in 1..Len(log)
    BY <1>2, <1>3, <1>4, <1>9
  <2>2. (k - 1) + 1 = k /\ \A i \in (k + 1)..Len(log) : i \in k..Len(log) /\ k \in k..i - 1
        /\ \A j \in (k + 1)..i - 1 : j \in k..i - 1
    BY <2>1
  <2>3. ASSUME NEW p \in Paths, \A i \in k..Len(log) : ~Touches(log[i], p)
        PROVE  files'[p] = found[p]
    <3>1. ~Touches(m, p) /\ \A i \in k + 1..Len(log) : ~Touches(log[i], p)
      BY <2>1, <2>2, <2>3 DEF m
    <3> QED BY <3>1, <1>8, <2>1 DEF UndoneTo
  <2>4. ASSUME NEW p \in Paths \ stuck', NEW i \in k..Len(log), Touches(log[i], p),
               \A j \in k..i - 1 : ~Touches(log[j], p)
        PROVE  files'[p] = Was(log[i], p)
    <3>1. CASE i = k
      BY <2>4, <3>1, <1>8 DEF m
    <3>2. CASE i # k
      <4>1. i \in k + 1..Len(log)
        BY <2>1, <3>2
      <4>2. ~Touches(m, p) /\ \A j \in k + 1..i - 1 : ~Touches(log[j], p)
        BY <2>2, <2>4, <4>1 DEF m
      <4>3. p \in Paths \ stuck
        BY <1>8, <2>4
      <4> QED BY <2>1, <2>4, <4>1, <4>2, <4>3, <1>8 DEF UndoneTo
    <3> QED BY <3>1, <3>2
  <2> QED BY <2>2, <2>3, <2>4 DEF UndoneTo
<1>10. undoing'.of = t /\ undoing'.left = Tail(left) /\ undoing'.found = found /\ undoing'.edited = undoing.edited
  BY <1>1, <1>2 DEF UndoGoesOn, CheckInv
<1>11. CheckTypes'
  <2>1. undoing' \in UndoRecords
    BY <1>1, <1>4, <1>t DEF CheckTypes, UndoRecords
  <2> QED BY <1>1, <1>8, <1>t, <2>1 DEF CheckTypes
<1>12. journal'[undoing'.of].log = log /\ k - 1 <= Len(log)
  BY <1>1, <1>2, <1>3, <1>4, <1>10
<1> HIDE DEF m, k
<1> QED BY <1>2, <1>4, <1>6, <1>9, <1>10, <1>11, <1>12 DEF CheckInv, UndoGoesOn

\* The end of an undo, an edit of the user and the death of the application.
LEMMA UndoEndsKeep ==
  ASSUME CheckpointAssumption, CheckInv, FinishUndo \/ FailUndo \/ UserEdit \/ CrashCheckpoints
  PROVE  CheckInv'
<1>t. CheckTypes /\ UndoGoesOn
  BY DEF CheckInv
<1>n. NoUndo.of = NoTurn /\ NoUndo \in UndoRecords
  BY DEF NoUndo, UndoRecords, Disk
<1>1. CASE FinishUndo
  <2>1. undoing.of # NoTurn /\ UNCHANGED <<files, turn>> /\ undoing' = NoUndo
        /\ Settled2([journal EXCEPT ![undoing.of].state = "undone"])
    BY <1>1 DEF FinishUndo, Free
  <2>2. undoing.of \in Turns
    BY <2>1, <1>t DEF UndoGoesOn
  <2>3. journal[undoing.of].log \in Seq(Mutations)
    BY <2>2, <1>t DEF CheckTypes, JournalRecords
  <2>4. journal' \in [Turns -> JournalRecords]
    BY <2>1, <2>2, <2>3, <1>t, JournalKeeps
  <2> QED BY <2>1, <2>4, <1>n, <1>t DEF CheckInv, CheckTypes, UndoGoesOn
<1>2. CASE FailUndo
  <2> DEFINE log == journal[undoing.of].log
             found == RestoreRecovery(undoing.found, log)
  <2>1. undoing.of # NoTurn /\ UNCHANGED turn /\ undoing' = NoUndo
    BY <1>2 DEF FailUndo, Free
  <2>2. undoing.of \in Turns /\ undoing.found \in Disk /\ files \in Disk
    BY <2>1, <1>t DEF UndoGoesOn, CheckTypes
  <2>3. log \in Seq(Mutations)
    BY <2>2, <1>t DEF CheckTypes, JournalRecords
  <2> HIDE DEF log
  <2>4. journal' \in [Turns -> JournalRecords]
    <3>1. \/ Append1(undoing.of, "failed", log) \/ Append1(undoing.of, "undone", log)
          \/ UNCHANGED journal
      BY <1>2 DEF FailUndo, log
    <3>2. CASE Append1(undoing.of, "failed", log) \/ Append1(undoing.of, "undone", log)
      BY <2>2, <2>3, <3>2, <1>t, JournalKeeps
    <3> QED BY <3>1, <3>2, <1>t DEF CheckTypes
  <2>5. files' \in Disk
    <3>1. found \in Disk
      BY <2>2 DEF RestoreRecovery, Disk
    <3>2. \A lost, gone : RecoveredBut(lost, gone, undoing.found, log) \in Disk
      BY <2>2, <3>1 DEF RecoveredBut, Disk
    <3>3. files' = found \/ \E lost, gone : files' = RecoveredBut(lost, gone, undoing.found, log)
      BY <1>2 DEF FailUndo, log
    <3> HIDE DEF found
    <3> QED BY <3>1, <3>2, <3>3
  <2> QED BY <2>1, <2>4, <2>5, <1>n, <1>t DEF CheckInv, CheckTypes, UndoGoesOn
<1>3. CASE UserEdit
  <2>1. UNCHANGED <<turn, journal>> /\ undoing' = [undoing EXCEPT !.edited = ~Free]
        /\ \E p \in Paths, c \in Contents \cup {Absent} : files' = [files EXCEPT ![p] = c]
    BY <1>3 DEF UserEdit
  <2>2. CheckTypes'
    <3>1. files' \in Disk
      BY <2>1, <1>t DEF CheckTypes, Disk
    <3>2. undoing' \in UndoRecords
      BY <2>1, <1>t DEF CheckTypes, UndoRecords
    <3> QED BY <2>1, <3>1, <3>2, <1>t DEF CheckTypes
  <2>3. undoing'.of = undoing.of /\ undoing'.left = undoing.left /\ undoing'.found = undoing.found
        /\ (undoing.of # NoTurn => undoing'.edited # FALSE)
    BY <2>1, <1>t DEF CheckTypes, UndoRecords, Free
  <2> QED BY <2>1, <2>2, <2>3, <1>t DEF CheckInv, UndoGoesOn
<1>4. CASE CrashCheckpoints
  <2>1. UNCHANGED <<files, journal>> /\ undoing' = NoUndo
        /\ turn' = [u \in Turns |-> IF turn[u].at = "active" THEN [turn[u] EXCEPT !.at = "over"] ELSE turn[u]]
    BY <1>4 DEF CrashCheckpoints
  <2>2. turn' \in [Turns -> TurnRecords]
    BY <2>1, <1>t DEF CheckTypes, TurnRecords
  <2> QED BY <2>1, <2>2, <1>n, <1>t DEF CheckInv, CheckTypes, UndoGoesOn
<1> QED BY <1>1, <1>2, <1>3, <1>4

\* The first mutation of a log that touches a path, and what it found there.
LEMMA FirstTouch ==
  ASSUME NEW log \in Seq(Mutations), NEW p \in Paths, p \in Touched(log), CheckpointAssumption
  PROVE  \E i \in 1..Len(log) : /\ Touches(log[i], p) /\ \A j \in 1..i - 1 : ~Touches(log[j], p)
                                /\ BeforeTurn(log, p) = Was(log[i], p)
<1> DEFINE T == {i \in 1..Len(log) : Touches(log[i], p)}
<1>1. PICK n \in 1..Len(log) : Touches(log[n], p)
  BY DEF Touched, ToSet, Touches
<1>2. PICK first \in T : \A y \in T : first <= y
  <2>1. T \in SUBSET Nat /\ T # {}
    BY <1>1
  <2> HIDE DEF T
  <2> QED BY <2>1, LeastNatural
<1>3. first \in 1..Len(log) /\ Touches(log[first], p) /\ \A j \in 1..first - 1 : ~Touches(log[j], p)
  BY <1>2
<1> DEFINE First(i) == /\ p \in {log[i].path, log[i].from}
                       /\ \A j \in 1..i - 1 : p \notin {log[j].path, log[j].from}
           one == CHOOSE i \in DOMAIN log : First(i)
<1>4. \A i \in DOMAIN log : First(i) => i = first
  <2>1. ASSUME NEW x \in 1..Len(log), First(x) PROVE x = first
    <3>1. ~(x < first)
      BY <1>3, <2>1 DEF Touches
    <3>2. ~(first < x)
      BY <1>3, <2>1 DEF Touches
    <3> QED BY <3>1, <3>2, <1>3
  <2>2. DOMAIN log = 1..Len(log)
    OBVIOUS
  <2> HIDE DEF First
  <2> QED BY <2>1, <2>2
<1>5. first \in DOMAIN log /\ First(first)
  BY <1>3 DEF Touches
<1>6. one = first
  BY <1>4, <1>5
<1>7. BeforeTurn(log, p) = IF log[one].from = p \/ log[one].from = Absent THEN log[one].before ELSE Absent
  BY DEF BeforeTurn
<1> HIDE DEF one
<1> QED BY <1>3, <1>6, <1>7 DEF Was

\* An undo that succeeds leaves every file of the turn as before the turn, and one that fails
\* all files as it found them, but for those that are stuck.
LEMMA UndoEnds ==
  ASSUME CheckpointAssumption, CheckInv, undoing.of # NoTurn, undoing.edited = FALSE, FinishUndo \/ FailUndo,
         NEW p \in Paths \ (stuck' \cap Touched(journal[undoing.of].log))
  PROVE  files'[p] = IF FinishUndo /\ p \in Touched(journal[undoing.of].log)
                     THEN BeforeTurn(journal[undoing.of].log, p) ELSE undoing.found[p]
<1> DEFINE log == journal[undoing.of].log
           k == Len(undoing.left)
           found == undoing.found
<1>1. /\ undoing.of \in Turns /\ found \in Disk /\ undoing.left \in Seq(Mutations) /\ k <= Len(log)
      /\ UndoneTo(files, log, k, found, stuck) /\ files \in Disk
  BY DEF CheckInv, UndoGoesOn, CheckTypes
<1>2. log \in Seq(Mutations)
  BY <1>1 DEF CheckInv, CheckTypes, JournalRecords
<1>3. \A i \in 1..Len(log) : Touches(log[i], p) => p \in Touched(log)
  <2>1. ASSUME NEW i \in 1..Len(log), Touches(log[i], p) PROVE p \in Touched(log)
    <3>1. log[i] \in ToSet(log) /\ p \in {log[i].path, log[i].from}
      BY <1>2, <2>1 DEF ToSet, Touches
    <3>2. p # Absent
      BY CheckpointAssumption DEF CheckpointAssumption
    <3>3. {log[i].path, log[i].from} \in {{m.path, m.from} : m \in ToSet(log)}
      BY <3>1
    <3> QED BY <3>1, <3>2, <3>3 DEF Touched
  <2> QED BY <2>1
<1>4. p \notin Touched(log) => files[p] = found[p]
  BY <1>1, <1>2, <1>3 DEF UndoneTo
<1>5. CASE FinishUndo
  <2>1. undoing.left = <<>> /\ files' = files /\ stuck' = stuck
    BY <1>5 DEF FinishUndo
  <2>2. k = 0
    BY <2>1
  <2>3. ASSUME p \in Touched(log) PROVE files[p] = BeforeTurn(log, p)
    <3>1. PICK i \in 1..Len(log) : /\ Touches(log[i], p) /\ \A j \in 1..i - 1 : ~Touches(log[j], p)
                                   /\ BeforeTurn(log, p) = Was(log[i], p)
      BY <1>2, <2>3, FirstTouch
    <3>2. UndoneTo(files, log, 0, found, stuck) /\ Len(log) \in Nat /\ p \in Paths \ stuck
      BY <1>1, <1>2, <2>1, <2>2, <2>3
    <3> HIDE DEF log, k, found
    <3>3. files[p] = Was(log[i], p)
      BY <3>1, <3>2 DEF UndoneTo
    <3> QED BY <3>1, <3>3
  <2> HIDE DEF log, k, found
  <2> QED BY <1>4, <1>5, <2>1, <2>3 DEF log, found
<1>6. CASE FailUndo /\ ~FinishUndo
  <2> HIDE DEF log, k, found
  <2>0. found[p] = RestoreRecovery(found, log)[p]
    BY <1>4 DEF RestoreRecovery
  <2>1. \/ files' = RestoreRecovery(found, log)
        \/ \E lost, gone : /\ lost \subseteq Touched(log) /\ stuck' = lost
                           /\ files' = RecoveredBut(lost, gone, found, log)
    BY <1>6 DEF FailUndo, found, log
  <2>2. ASSUME NEW lost, NEW gone, lost \subseteq Touched(log), stuck' = lost,
               files' = RecoveredBut(lost, gone, found, log)
        PROVE  files'[p] = found[p]
    <3>1. p \notin lost
      BY <2>2 DEF log
    <3> QED BY <2>0, <2>2, <3>1 DEF RecoveredBut
  <2>3. files'[p] = found[p]
    BY <2>0, <2>1, <2>2
  <2> QED BY <1>6, <2>3 DEF found
<1> QED BY <1>5, <1>6

\* Each step keeps the invariant, and an undo it ends was all or nothing.
LEMMA CheckNextKeeps ==
  ASSUME CheckpointAssumption, CheckInv, [CheckNext]_checkVars
  PROVE  CheckInv'
<1>1. CASE UNCHANGED checkVars
  BY <1>1 DEF checkVars, CheckInv, CheckTypes, UndoGoesOn
<1>2. CASE CheckNext
  BY <1>2, TurnsKeep, RestoreKeeps, UndoEndsKeep DEF CheckNext
<1> QED BY <1>1, <1>2

\* The specification keeps it.
LEMMA ChecksAreKept == CheckSpec => []CheckInv
<1>1. CheckpointAssumption /\ CheckInit => CheckInv
  <2>1. ASSUME CheckInit PROVE CheckInv
    <3>1. files \in Disk /\ NoUndo \in UndoRecords /\ NoUndo.of = NoTurn
      BY <2>1 DEF CheckInit, Disk, NoUndo, UndoRecords
    <3>2. NoRecord \in JournalRecords /\ [at |-> "new", log |-> <<>>, requests |-> 0] \in TurnRecords
      BY DEF NoRecord, JournalRecords, TurnRecords
    <3> QED BY <2>1, <3>1, <3>2 DEF CheckInit, CheckInv, CheckTypes, UndoGoesOn
  <2> QED BY <2>1
<1>2. CheckpointAssumption /\ CheckInv /\ [CheckNext]_checkVars => CheckInv'
  BY CheckNextKeeps
<1> QED BY <1>1, <1>2, CheckpointAssumption, PTL DEF CheckSpec

\* An undo is all or nothing, whatever was recorded, edited, dropped or torn before it: the
\* files are as before the turn when it succeeds, and as it found them when it fails, but for
\* those the system does not let it remove, or write back when it has failed.
THEOREM UndosAreAllOrNothing == CheckSpec => UndoAllOrNothing
<1> DEFINE AllOrNothing ==
             ~Free /\ undoing'.of = NoTurn /\ ~undoing.edited /\ ~CrashCheckpoints =>
                     LET log == journal[undoing.of].log IN
                     \A p \in Paths \ (stuck' \cap Touched(log)) :
                       files'[p] = IF FinishUndo /\ p \in Touched(log) THEN BeforeTurn(log, p)
                                   ELSE undoing.found[p]
<1>1. CheckpointAssumption /\ CheckInv /\ [CheckNext]_checkVars => [AllOrNothing]_checkVars
  <2> SUFFICES ASSUME CheckpointAssumption, CheckInv, [CheckNext]_checkVars PROVE AllOrNothing
    OBVIOUS
  <2>1. undoing \in UndoRecords
    BY DEF CheckInv, CheckTypes
  <2> SUFFICES ASSUME undoing.of # NoTurn, undoing'.of = NoTurn, undoing.edited = FALSE, ~CrashCheckpoints,
                      NEW p \in Paths \ (stuck' \cap Touched(journal[undoing.of].log))
               PROVE  files'[p] = IF FinishUndo /\ p \in Touched(journal[undoing.of].log)
                                  THEN BeforeTurn(journal[undoing.of].log, p) ELSE undoing.found[p]
    BY <2>1 DEF Free, UndoRecords
  <2>2. ~(UNCHANGED undoing)
    OBVIOUS
  <2>3. \A t \in Turns : ~(StartTurn(t) \/ HostRequest(t) \/ EndTurn(t) \/ BeginUndo(t))
    BY DEF StartTurn, HostRequest, EndTurn, BeginUndo, Free
  <2>4. ~RestoreMutation /\ ~UserEdit
    BY <2>1 DEF RestoreMutation, UserEdit, UndoRecords
  <2>5. FinishUndo \/ FailUndo
    BY <2>2, <2>3, <2>4 DEF CheckNext, checkVars
  <2> QED BY <2>5, UndoEnds
<1>2. CheckSpec => [][CheckNext]_checkVars
  BY PTL DEF CheckSpec
<1> QED BY <1>1, <1>2, ChecksAreKept, CheckpointAssumption, PTL DEF UndoAllOrNothing

\* The bounds of the checkpoints: the store holds contents, every turn is listed once begun.
CheckBounds ==
  /\ objects \subseteq Contents /\ torn \in BOOLEAN /\ faults \in 0..MaxFaults
  /\ \A t \in Turns : turn[t].requests <= MaxRequests
  /\ order \in Seq(Turns) /\ stuck \subseteq Paths

LEMMA HashesAreContents ==
  ASSUME NEW log \in Seq(Mutations)
  PROVE  Hashes(log) \subseteq Contents
<1>1. \A m \in ToSet(log) : m \in Mutations
  BY ElementOfSeq, LenProperties DEF ToSet
<1> QED BY <1>1 DEF Hashes, Mutations

\* Each step of the checkpoints keeps the bounds.
LEMMA CheckNextStaysWithin ==
  CheckpointAssumption /\ CheckInv /\ CheckBounds /\ [CheckNext]_checkVars => CheckBounds'
<1> SUFFICES ASSUME CheckpointAssumption, CheckInv, CheckBounds, [CheckNext]_checkVars PROVE CheckBounds'
  OBVIOUS
<1>t. /\ files \in Disk /\ turn \in [Turns -> TurnRecords] /\ \A t \in Turns : turn[t].requests \in Nat
      /\ MaxFaults \in Nat /\ MaxRequests \in Nat
  BY DEF CheckInv, CheckTypes, TurnRecords, CheckpointAssumption
<1>f. Fault => faults' \in 0..MaxFaults
  BY <1>t DEF Fault, CheckBounds
<1>1. CASE UNCHANGED checkVars
  BY <1>1 DEF checkVars, CheckBounds
<1>2. ASSUME NEW t \in Turns, StartTurn(t) PROVE CheckBounds'
  <2>1. turn' = [turn EXCEPT ![t].at = "active"] /\ order' = <<t>> \o order
        /\ UNCHANGED <<objects, torn, stuck, faults>>
    BY <1>2 DEF StartTurn
  <2>2. \A u \in Turns : turn'[u].requests = turn[u].requests
    BY <2>1, <1>t DEF TurnRecords
  <2>3. <<t>> \in Seq(Turns)
    OBVIOUS
  <2>4. order' \in Seq(Turns)
    BY <2>1, <2>3, ConcatProperties DEF CheckBounds
  <2> QED BY <2>1, <2>2, <2>4 DEF CheckBounds
<1>3. ASSUME NEW t \in Turns, HostRequest(t) PROVE CheckBounds'
  <2> DEFINE batch == BuildMutations(files, files')
             log == turn[t].log \o batch
  <2>1. turn[t].requests < MaxRequests /\ files' \in Disk /\ UNCHANGED <<order, stuck>>
    BY <1>3 DEF HostRequest
  <2>2. Hashes(batch) \subseteq Contents
    BY <2>1, <1>t, BatchIsLog, HashesAreContents
  <2>3. /\ turn' = [turn EXCEPT ![t].log = log, ![t].requests = turn[t].requests + 1]
           \/ turn' = [turn EXCEPT ![t].requests = turn[t].requests + 1]
        /\ objects' = objects \cup Hashes(batch) \/ UNCHANGED objects
        /\ torn' = FALSE \/ UNCHANGED torn
        /\ Fault \/ UNCHANGED faults
    BY <1>3 DEF HostRequest, Append1
  <2>4. \A u \in Turns : turn'[u].requests <= MaxRequests
    <3> TAKE u \in Turns
    <3> HIDE DEF log
    <3>1. turn'[u].requests \in {turn[u].requests} \/ (u = t /\ turn'[u].requests = turn[t].requests + 1)
      BY <2>3, <1>t DEF TurnRecords
    <3> QED BY <3>1, <2>1, <1>t DEF CheckBounds
  <2>5. objects' \subseteq Contents
    BY <2>2, <2>3 DEF CheckBounds
  <2>6. torn' \in BOOLEAN
    BY <2>3 DEF CheckBounds
  <2>7. faults' \in 0..MaxFaults
    BY <2>3, <1>f DEF CheckBounds
  <2> QED BY <2>1, <2>4, <2>5, <2>6, <2>7 DEF CheckBounds
<1>4. ASSUME NEW t \in Turns, EndTurn(t) PROVE CheckBounds'
  <2>1. turn' = [turn EXCEPT ![t].at = "over"] /\ objects' \subseteq objects /\ torn' = FALSE
        /\ UNCHANGED <<order, stuck, faults>>
    BY <1>4 DEF EndTurn, Settled2
  <2>2. \A u \in Turns : turn'[u].requests = turn[u].requests
    BY <2>1, <1>t DEF TurnRecords
  <2> QED BY <2>1, <2>2 DEF CheckBounds
<1>5. ASSUME NEW t \in Turns, BeginUndo(t) PROVE CheckBounds'
  <2>1. torn' = FALSE /\ stuck' \in {stuck, {}} /\ UNCHANGED <<turn, order, objects, faults>>
    BY <1>5 DEF BeginUndo, Append1
  <2> QED BY <2>1 DEF CheckBounds
<1>6. CASE RestoreMutation
  <2>1. Head(undoing.left).path \in Paths
    <3>1. undoing.left \in Seq(Mutations) /\ undoing.left # <<>>
      BY <1>6 DEF RestoreMutation, CheckInv, CheckTypes, UndoRecords
    <3>2. Head(undoing.left) \in Mutations
      BY <3>1, HeadTailProperties
    <3> QED BY <3>2 DEF Mutations
  <2>2. stuck' \subseteq Paths
    BY <1>6, <2>1 DEF RestoreMutation, CheckBounds
  <2>3. faults' \in 0..MaxFaults
    BY <1>6, <1>f DEF RestoreMutation, CheckBounds
  <2>4. UNCHANGED <<turn, order, objects, torn>>
    BY <1>6 DEF RestoreMutation
  <2> QED BY <2>2, <2>3, <2>4 DEF CheckBounds
<1>7. CASE FinishUndo
  <2>1. objects' \subseteq objects /\ torn' = FALSE /\ UNCHANGED <<turn, order, stuck, faults>>
    BY <1>7 DEF FinishUndo, Settled2
  <2> QED BY <2>1 DEF CheckBounds
<1>8. CASE FailUndo
  <2>1. /\ torn' = FALSE \/ UNCHANGED torn
        /\ objects' \subseteq objects /\ UNCHANGED <<turn, order>>
        /\ Fault \/ UNCHANGED faults
        /\ stuck' \subseteq Touched(journal[undoing.of].log)
    BY <1>8 DEF FailUndo, Append1
  <2>2. faults' \in 0..MaxFaults
    BY <2>1, <1>f DEF CheckBounds
  <2>3. Touched(journal[undoing.of].log) \subseteq Paths
    <3>1. undoing.of \in Turns
      BY <1>8 DEF FailUndo, Free, CheckInv, CheckTypes, UndoRecords
    <3>2. journal[undoing.of].log \in Seq(Mutations)
      BY <3>1 DEF CheckInv, CheckTypes, JournalRecords
    <3>3. \A m \in ToSet(journal[undoing.of].log) : m \in Mutations
      BY <3>2, ElementOfSeq, LenProperties DEF ToSet
    <3> QED BY <3>3 DEF Touched, Mutations
  <2>4. torn' \in BOOLEAN
    BY <2>1 DEF CheckBounds
  <2> QED BY <2>1, <2>2, <2>3, <2>4 DEF CheckBounds
<1>9. CASE UserEdit
  <2>1. UNCHANGED <<turn, order, objects, torn, stuck>> /\ Fault
    BY <1>9 DEF UserEdit
  <2> QED BY <2>1, <1>f DEF CheckBounds
<1>10. CASE CrashCheckpoints
  <2>1. /\ turn' = [t \in Turns |-> IF turn[t].at = "active" THEN [turn[t] EXCEPT !.at = "over"] ELSE turn[t]]
        /\ torn' \in BOOLEAN /\ Fault /\ objects' \subseteq objects /\ UNCHANGED <<order, stuck>>
    BY <1>10 DEF CrashCheckpoints
  <2>2. \A u \in Turns : turn'[u].requests = turn[u].requests
    BY <2>1, <1>t DEF TurnRecords
  <2> QED BY <2>1, <2>2, <1>f DEF CheckBounds
<1> QED BY <1>1, <1>2, <1>3, <1>4, <1>5, <1>6, <1>7, <1>8, <1>9, <1>10 DEF CheckNext

\* The workspace, the turns, the journal and the store keep their types (CheckTypeOK).
THEOREM CheckTypeCorrect == CheckSpec => []CheckTypeOK
<1>1. CheckInit /\ CheckpointAssumption => CheckBounds
  <2> SUFFICES ASSUME CheckInit, CheckpointAssumption PROVE CheckBounds
    OBVIOUS
  <2>1. order \in Seq(Turns) /\ \A t \in Turns : turn[t].requests = 0
    BY EmptySeq DEF CheckInit
  <2>2. faults = 0 /\ objects = {} /\ torn = FALSE /\ stuck = {}
    BY DEF CheckInit
  <2>3. faults \in 0..MaxFaults /\ \A t \in Turns : turn[t].requests <= MaxRequests
    BY <2>1, <2>2 DEF CheckpointAssumption
  <2> QED BY <2>1, <2>2, <2>3 DEF CheckBounds
<1>2. CheckInv /\ CheckBounds /\ CheckpointAssumption => CheckTypeOK
  <2> SUFFICES ASSUME CheckInv, CheckBounds, CheckpointAssumption PROVE CheckTypeOK
    OBVIOUS
  <2>1. /\ files \in Disk /\ turn \in [Turns -> TurnRecords] /\ journal \in [Turns -> JournalRecords]
        /\ undoing \in UndoRecords
    BY DEF CheckInv, CheckTypes
  <2>2. ASSUME NEW t \in Turns
        PROVE  /\ turn[t].at \in {"new", "active", "over"} /\ turn[t].log \in Seq(Mutations)
               /\ turn[t].requests \in 0..MaxRequests
               /\ journal[t].state \in {"none", "active", "ready", "undone", "conflict", "failed"}
               /\ journal[t].log \in Seq(Mutations)
    <3>1. turn[t] \in TurnRecords /\ journal[t] \in JournalRecords /\ turn[t].requests <= MaxRequests /\ MaxRequests \in Nat
      BY <2>1 DEF CheckBounds, CheckpointAssumption
    <3>2. turn[t].requests \in 0..MaxRequests
      BY <3>1 DEF TurnRecords
    <3> QED BY <3>1, <3>2 DEF TurnRecords, JournalRecords
  <2>3. undoing.of \in Turns \cup {NoTurn}
    BY <2>1 DEF UndoRecords
  <2> QED BY <2>1, <2>2, <2>3 DEF CheckTypeOK, CheckBounds
<1> QED BY <1>1, <1>2, ChecksAreKept, CheckNextStaysWithin, CheckpointAssumption, PTL DEF CheckSpec

-----------------------------------------------------------------------------
(* The pages of a project *)

PageSpec == PageInit /\ [][PanelNext]_pageVars

PageInv ==
  /\ pageRows \in [of : Projects \cup {NoProject}, loading : BOOLEAN, failed : BOOLEAN]
  /\ pageLoads \subseteq [no : Nat, of : Projects] /\ pageRequests \in Nat
  /\ project \in Projects /\ pageActs \subseteq Projects
  /\ PagesCurrent

\* A load that begins shows that the page loads, and leaves what it shows.
LEMMA LoadsKeep ==
  ASSUME PageInv, NEW p \in Projects, Loads(p), pageKind' = pageKind, project' \in Projects,
         pageActs' \subseteq Projects
  PROVE  PageInv'
<1>1. pageRows' = [pageRows EXCEPT !.loading = TRUE] /\ pageRequests' = pageRequests + 1
      /\ pageLoads' = pageLoads \cup {[no |-> pageRequests + 1, of |-> p]}
  BY DEF Loads
<1>2. pageRows' \in [of : Projects \cup {NoProject}, loading : BOOLEAN, failed : BOOLEAN] /\ pageRows'.loading = TRUE
  BY <1>1 DEF PageInv
<1>3. pageRequests' \in Nat /\ pageLoads' \subseteq [no : Nat, of : Projects]
  <2>1. pageRequests + 1 \in Nat
    BY DEF PageInv
  <2> QED BY <1>1, <2>1 DEF PageInv
<1> QED BY <1>2, <1>3 DEF PageInv, PagesCurrent

\* Each step of a page keeps it: only the answer for the project in the window is shown.
LEMMA PanelNextKeeps == PageInv /\ [PanelNext]_pageVars => PageInv'
<1> SUFFICES ASSUME PageInv, [PanelNext]_pageVars PROVE PageInv'
  OBVIOUS
<1>1. CASE UNCHANGED pageVars
  BY <1>1 DEF PageInv, PagesCurrent, pageVars
<1>2. CASE ReloadPage
  BY <1>2, LoadsKeep DEF ReloadPage, PageInv
<1>3. CASE ActOnPage
  BY <1>3 DEF ActOnPage, PageInv, PagesCurrent
<1>4. ASSUME NEW p \in Projects, ShowProject(p) PROVE PageInv'
  BY <1>4, LoadsKeep DEF ShowProject, PageInv
<1>5. ASSUME NEW load \in pageLoads, PageLoaded(load) PROVE PageInv'
  <2>1. load \in [no : Nat, of : Projects]
    BY DEF PageInv
  <2>2. PICK ok \in BOOLEAN :
          pageRows' = IF ~Current(load) THEN pageRows
                      ELSE [of |-> IF ok THEN load.of ELSE pageRows.of, loading |-> FALSE, failed |-> ~ok]
    BY <1>5 DEF PageLoaded
  <2>3. pageLoads' = pageLoads \ {load} /\ UNCHANGED <<project, pageKind, pageActs, pageRequests>>
    BY <1>5 DEF PageLoaded
  <2>4. CASE ~Current(load)
    BY <2>2, <2>3, <2>4 DEF PageInv, PagesCurrent
  <2>5. CASE Current(load)
    <3>1. pageRows' = [of |-> IF ok THEN load.of ELSE pageRows.of, loading |-> FALSE, failed |-> ~ok]
      BY <2>2, <2>5
    <3>2. (IF ok THEN load.of ELSE pageRows.of) \in Projects \cup {NoProject} /\ (~ok) \in BOOLEAN
      BY <2>1 DEF PageInv
    <3>3. pageRows' \in [of : Projects \cup {NoProject}, loading : BOOLEAN, failed : BOOLEAN]
      BY <3>1, <3>2
    <3>4. pageKind \in ProjectOnly => load.of = project
      BY <2>5 DEF Current
    <3> QED BY <2>3, <3>1, <3>3, <3>4 DEF PageInv, PagesCurrent
  <2> QED BY <2>4, <2>5
<1>6. ASSUME NEW p \in pageActs, PageActEnds(p) PROVE PageInv'
  <2>1. p \in Projects /\ pageActs' \subseteq Projects /\ UNCHANGED <<project, pageKind>>
    BY <1>6 DEF PageActEnds, PageInv
  <2>2. CASE Loads(p)
    BY <2>1, <2>2, LoadsKeep DEF PageInv
  <2>3. CASE UNCHANGED <<pageRows, pageLoads, pageRequests>>
    BY <2>1, <2>3 DEF PageInv, PagesCurrent
  <2> QED BY <1>6, <2>2, <2>3 DEF PageActEnds
<1> QED BY <1>1, <1>2, <1>3, <1>4, <1>5, <1>6 DEF PanelNext

\* The specification keeps it.
LEMMA PagesAreKept == PageSpec => []PageInv
<1>1. PageInit => PageInv
  BY DEF PageInit, PageInv, PagesCurrent
<1> QED BY <1>1, PanelNextKeeps, PTL DEF PageSpec

\* A page of one project shows the rows of the project in the window once it has
\* loaded them (PagesCurrent).
THEOREM PagesAreCurrent == PageSpec => []PagesCurrent
<1>1. PageInv => PagesCurrent
  BY DEF PageInv
<1> QED BY <1>1, PagesAreKept, PTL

-----------------------------------------------------------------------------
(* The configuration file and its editor *)

ConfigSpec == ConfigInit /\ [][ConfigNext]_editVars

\* What an entry may hold, in the file and in what an editor has read of it.
Entries == {"none", "secret", "typed", "other"}
SecretsInv ==
  /\ config \in [ConfigEntries -> Entries]
  /\ editor \in [of : ConfigEntries \cup {"none"}, at : {"closed", "open", "saving"},
                 text : {"none", "hidden", "typed"}, base : [ConfigEntries -> Entries]]

\* Each step of the editor and of the CLI keeps it: the mark is never written.
LEMMA ConfigNextKeeps == SecretsInv /\ [ConfigNext]_editVars => SecretsInv'
<1> SUFFICES ASSUME SecretsInv, [ConfigNext]_editVars PROVE SecretsInv'
  OBVIOUS
<1> DEFINE Bases == [ConfigEntries -> Entries]
           Editors == [of : ConfigEntries \cup {"none"}, at : {"closed", "open", "saving"},
                       text : {"none", "hidden", "typed"}, base : Bases]
<1>t. config \in Bases /\ editor \in Editors
  BY DEF SecretsInv
<1>1. CASE UNCHANGED editVars
  BY <1>1 DEF SecretsInv, editVars
<1>2. ASSUME NEW e \in ConfigEntries, ReadDetail(e) PROVE SecretsInv'
  BY <1>2 DEF ReadDetail, SecretsInv
<1>3. CASE EditDetail
  BY <1>3 DEF EditDetail, SecretsInv
<1>4. CASE WriteDetail
  BY <1>4 DEF WriteDetail, SecretsInv
<1>5. CASE WriteFile
  <2>1. CASE config' = [editor.base EXCEPT ![editor.of] = RestoreRedacted(editor.base[editor.of], editor.text)]
             /\ editor' = [editor EXCEPT !.at = "closed"]
    <3>1. editor.base \in Bases /\ editor.text \in {"none", "hidden", "typed"}
      BY <1>t
    <3>2. CASE editor.of \in ConfigEntries
      <4>1. editor.base[editor.of] \in Entries
        BY <3>1, <3>2
      <4>2. RestoreRedacted(editor.base[editor.of], editor.text) \in Entries
        BY <3>1, <4>1 DEF RestoreRedacted, Entries
      <4>3. config' \in Bases
        BY <2>1, <3>1, <3>2, <4>2
      <4> QED BY <2>1, <4>3, <1>t DEF SecretsInv
    <3>3. CASE editor.of \notin ConfigEntries
      <4>1. config' = editor.base
        BY <2>1, <3>1, <3>3
      <4> QED BY <2>1, <4>1, <3>1, <1>t DEF SecretsInv
    <3> QED BY <3>2, <3>3
  <2>2. CASE editor' = [editor EXCEPT !.at = "open"] /\ UNCHANGED config
    BY <2>2, <1>t DEF SecretsInv
  <2> QED BY <1>5, <2>1, <2>2 DEF WriteFile
<1>6. ASSUME NEW e \in ConfigEntries, ChangeEntry(e) PROVE SecretsInv'
  BY <1>6, <1>t DEF ChangeEntry, SecretsInv, Entries
<1> QED BY <1>1, <1>2, <1>3, <1>4, <1>5, <1>6 DEF ConfigNext

\* The specification keeps it.
LEMMA EntriesAreKept == ConfigSpec => []SecretsInv
<1>1. ConfigInit => SecretsInv
  BY DEF ConfigInit, SecretsInv, Entries
<1> QED BY <1>1, ConfigNextKeeps, PTL DEF ConfigSpec

\* A secret is never replaced by the mark that stands for it in an editor (SecretsKept).
THEOREM SecretsAreKept == ConfigSpec => []SecretsKept
<1>1. SecretsInv => SecretsKept
  BY DEF SecretsInv, SecretsKept, Entries
<1> QED BY <1>1, EntriesAreKept, PTL

-----------------------------------------------------------------------------
(* The working tree *)

GitSpec == GitInit /\ [][GitNext]_gitVars

TreeInv ==
  /\ tree \in [TreeFiles -> {"clean", "changed", "staged"}]
  /\ stashes \in Seq(SUBSET TreeFiles)

\* What is still in a stash, or was discarded with approval.
LostWithApproval(f) ==
  \/ \E i \in 1..Len(stashes') : f \in stashes'[i]
  \/ gitAsk.at = "approved" /\ \/ gitAsk.op = "commit" /\ tree[f] = "staged"
                               \/ gitAsk.op = "restore" /\ gitAsk.file = f

\* A stash holds what it takes out of the tree.
LEMMA StashHolds ==
  ASSUME TreeInv, Stash(Dirty)
  PROVE  /\ TreeInv'
         /\ \A f \in TreeFiles : tree[f] # "clean" => \E i \in 1..Len(stashes') : f \in stashes'[i]
<1>1. stashes' = <<Dirty>> \o stashes /\ tree' = [f \in TreeFiles |-> "clean"]
  BY DEF Stash
<1>2. Dirty \in SUBSET TreeFiles /\ stashes \in Seq(SUBSET TreeFiles)
  BY DEF Dirty, TreeInv
<1>3. /\ stashes' \in Seq(SUBSET TreeFiles) /\ stashes'[1] = Dirty /\ 1 \in 1..Len(stashes')
  <2>1. <<Dirty>> \in Seq(SUBSET TreeFiles) /\ Len(<<Dirty>>) = 1 /\ <<Dirty>>[1] = Dirty
    BY <1>2
  <2> QED BY <1>1, <1>2, <2>1, ConcatProperties
<1>4. \A f \in TreeFiles : tree[f] # "clean" => f \in Dirty
  BY DEF Dirty
<1> QED BY <1>1, <1>3, <1>4 DEF TreeInv

\* A step of git, the panel or of who else works in the tree keeps the types, and loses no
\* change but with approval.
LEMMA GitNextKeeps ==
  TreeInv /\ [GitNext]_gitVars =>
    /\ TreeInv'
    /\ \A f \in TreeFiles : tree[f] # "clean" /\ tree'[f] = "clean" => LostWithApproval(f)
<1> SUFFICES ASSUME TreeInv, [GitNext]_gitVars
             PROVE  /\ TreeInv'
                    /\ \A f \in TreeFiles : tree[f] # "clean" /\ tree'[f] = "clean" => LostWithApproval(f)
  OBVIOUS
<1>t. tree \in [TreeFiles -> {"clean", "changed", "staged"}] /\ stashes \in Seq(SUBSET TreeFiles)
  BY DEF TreeInv
<1>1. CASE UNCHANGED <<tree, stashes>>
  BY <1>1 DEF TreeInv
<1>2. CASE UNCHANGED gitVars
  BY <1>1, <1>2 DEF gitVars
<1>3. ASSUME NEW op, NEW f, RequestGit(op, f) PROVE UNCHANGED <<tree, stashes>>
  BY <1>3 DEF RequestGit
<1>4. CASE Resolve
  BY <1>1, <1>4 DEF Resolve
<1>5. CASE RunGit
  <2>0. gitAsk.at = "approved"
    BY <1>5 DEF RunGit, Approved
  <2>1. CASE FileEffect(gitAsk.op, gitAsk.file)
    <3>1. stashes' = stashes
      BY <2>1 DEF FileEffect
    <3>2. CASE gitAsk.op = "stage" /\ tree' = Turned({gitAsk.file}, "changed", "staged")
      BY <3>1, <3>2, <1>t DEF Turned, TreeInv
    <3>3. CASE gitAsk.op = "unstage" /\ tree' = Turned({gitAsk.file}, "staged", "changed")
      BY <3>1, <3>3, <1>t DEF Turned, TreeInv
    <3>4. CASE gitAsk.op = "restore" /\ tree' = Turned({gitAsk.file}, "changed", "clean")
      BY <2>0, <3>1, <3>4, <1>t DEF Turned, TreeInv, LostWithApproval
    <3>5. CASE gitAsk.op = "commit" /\ tree' = Turned(TreeFiles, "staged", "clean")
      BY <2>0, <3>1, <3>5, <1>t DEF Turned, TreeInv, LostWithApproval
    <3>6. CASE tree' = Turned(Head(stashes), "clean", "changed")
      BY <3>1, <3>6, <1>t DEF Turned, TreeInv
    <3> QED BY <2>1, <3>2, <3>3, <3>4, <3>5, <3>6 DEF FileEffect
  <2>2. CASE StashEffect(gitAsk.op)
    <3>1. CASE Stash(Dirty)
      BY <3>1, StashHolds DEF LostWithApproval
    <3>2. CASE stashes # <<>> /\ stashes' = Tail(stashes) /\ UNCHANGED tree
      BY <3>2, <1>t, HeadTailProperties DEF TreeInv
    <3> QED BY <2>2, <3>1, <3>2 DEF StashEffect
  <2>3. CASE WorktreeEffect(gitAsk.op)
    BY <1>1, <2>3 DEF WorktreeEffect
  <2> QED BY <1>1, <1>5, <2>1, <2>2, <2>3 DEF RunGit
<1>6. CASE WorkInTree
  <2>1. CASE Stash(Dirty)
    BY <2>1, StashHolds DEF LostWithApproval
  <2>2. ASSUME NEW g \in TreeFiles, tree' = [tree EXCEPT ![g] = "changed"], UNCHANGED stashes
        PROVE  /\ TreeInv'
               /\ \A f \in TreeFiles : tree[f] # "clean" /\ tree'[f] = "clean" => LostWithApproval(f)
    BY <2>2, <1>t DEF TreeInv
  <2> QED BY <1>6, <2>1, <2>2 DEF WorkInTree
<1> QED BY <1>1, <1>2, <1>3, <1>4, <1>5, <1>6 DEF GitNext

\* A change in the working tree is lost only with approval: else it is in a stash (ChangesKept).
THEOREM ChangesAreKept == GitSpec => ChangesKept
<1>1. GitInit => TreeInv
  BY DEF GitInit, TreeInv
<1>2. TreeInv /\ [GitNext]_gitVars =>
        [\A f \in TreeFiles : (tree[f] # "clean" /\ tree'[f] = "clean") => LostWithApproval(f)]_gitVars
  BY GitNextKeeps
<1>3. TreeInv /\ [GitNext]_gitVars => TreeInv'
  BY GitNextKeeps
<1> QED BY <1>1, <1>2, <1>3, PTL DEF GitSpec, ChangesKept, LostWithApproval

\* A load has the number of a request that was made.
LoadsNumbered ==
  /\ pageKind \in PageKinds /\ pageRequests <= MaxPageLoads
  /\ \A load \in pageLoads : load.no \in 1..MaxPageLoads
LinkedOK == linked \in {"none", "directory", "linked"}

\* What the page of a project is made of.
PageTypeOK ==
  /\ project \in Projects /\ pageKind \in PageKinds
  /\ pageRows \in [of : Projects \cup {NoProject}, loading : BOOLEAN, failed : BOOLEAN]
  /\ pageLoads \subseteq [no : 1..MaxPageLoads, of : Projects] /\ pageActs \subseteq Projects

\* What the working tree is made of.
TreeTypeOK == TreeInv /\ LinkedOK

\* Each step of a page keeps its loads numbered.
LEMMA LoadsStayNumbered == PageInv /\ LoadsNumbered /\ [PanelNext]_pageVars => LoadsNumbered'
<1> SUFFICES ASSUME PageInv, LoadsNumbered, [PanelNext]_pageVars PROVE LoadsNumbered'
  OBVIOUS
<1>t. MaxPageLoads \in Nat /\ pageRequests \in Nat
  BY PanelAssumption DEF PanelAssumption, PageInv
<1>l. ASSUME NEW p, Loads(p), pageKind' = pageKind PROVE LoadsNumbered'
  <2>1. pageRequests < MaxPageLoads /\ pageRequests' = pageRequests + 1
    BY <1>l DEF Loads
  <2>2. \A load \in pageLoads' : load \in pageLoads \/ load.no = pageRequests + 1
    BY <1>l DEF Loads
  <2>3. pageRequests + 1 \in 1..MaxPageLoads
    BY <1>t, <2>1
  <2>4. \A load \in pageLoads' : load.no \in 1..MaxPageLoads
    BY <2>2, <2>3 DEF LoadsNumbered
  <2> QED BY <1>l, <1>t, <2>1, <2>4 DEF LoadsNumbered
<1>s. ASSUME pageKind' = pageKind, pageRequests' = pageRequests, pageLoads' \subseteq pageLoads PROVE LoadsNumbered'
  BY <1>s DEF LoadsNumbered
<1>1. ASSUME ReloadPage \/ ActOnPage \/ UNCHANGED pageVars PROVE LoadsNumbered'
  BY <1>1, <1>l, <1>s DEF ReloadPage, ActOnPage, pageVars
<1>2. ASSUME NEW p \in Projects, ShowProject(p) PROVE LoadsNumbered'
  BY <1>2, <1>l DEF ShowProject
<1>3. ASSUME NEW load \in pageLoads, PageLoaded(load) PROVE LoadsNumbered'
  BY <1>3, <1>s DEF PageLoaded
<1>4. ASSUME NEW p \in pageActs, PageActEnds(p) PROVE LoadsNumbered'
  BY <1>4, <1>l, <1>s DEF PageActEnds
<1> QED BY <1>1, <1>2, <1>3, <1>4 DEF PanelNext

\* The variables of a page keep their types.
THEOREM PageTypeCorrect == PageSpec => []PageTypeOK
<1>1. PageInit => LoadsNumbered
  BY PanelAssumption DEF PanelAssumption, PageInit, LoadsNumbered
<1>2. PageInv /\ LoadsNumbered => PageTypeOK
  BY DEF PageInv, LoadsNumbered, PageTypeOK
<1> QED BY <1>1, <1>2, PagesAreKept, LoadsStayNumbered, PTL DEF PageSpec

\* The variables of the working tree keep their types.
THEOREM TreeTypeCorrect == GitSpec => []TreeTypeOK
<1>1. GitInit => TreeInv /\ LinkedOK
  BY DEF GitInit, TreeInv, LinkedOK
<1>2. TreeInv /\ [GitNext]_gitVars => TreeInv'
  BY GitNextKeeps
<1>3. LinkedOK /\ [GitNext]_gitVars => LinkedOK'
  BY DEF LinkedOK, GitNext, RequestGit, Resolve, RunGit, FileEffect, StashEffect, WorktreeEffect, WorkInTree, gitVars
<1> QED BY <1>1, <1>2, <1>3, PTL DEF GitSpec, TreeTypeOK

\* Together, with the entries, they are those of the panels.
LEMMA PanelTypesOK == PageTypeOK /\ TreeTypeOK /\ SecretsInv => PanelTypeOK
  BY DEF PageTypeOK, TreeTypeOK, TreeInv, LinkedOK, SecretsInv, Entries, PanelTypeOK

-----------------------------------------------------------------------------
(* The scheduler of the operating system *)

OsSpec == OsInit /\ [][OsNext]_osVars

\* What the operating system does, or is told to do, is what is wanted, but for
\* the automation that has run once.
FollowsWanted(on) == on = wanted \/ (unannounced = TRUE /\ on = TRUE)

\* The newest sync asks for it.
SyncsInv ==
  /\ syncs \in Seq(BOOLEAN) /\ wanted \in BOOLEAN
  /\ syncs # <<>> => FollowsWanted(syncs[Len(syncs)])
  /\ syncs = <<>> => syncFailed = TRUE \/ FollowsWanted(scheduled)

\* A change of the automations and a step of a sync keep it.
LEMMA OsNextKeeps == SyncsInv /\ [OsNext]_osVars => SyncsInv'
<1> SUFFICES ASSUME SyncsInv, [OsNext]_osVars PROVE SyncsInv'
  OBVIOUS
<1>t. syncs \in Seq(BOOLEAN) /\ Len(syncs) \in Nat
  BY DEF SyncsInv
<1>1. CASE UNCHANGED osVars
  BY <1>1 DEF SyncsInv, FollowsWanted, osVars
<1>2. CASE ChangeAutomations
  <2>1. wanted' \in BOOLEAN /\ syncs' = Append(syncs, wanted') /\ UNCHANGED <<scheduled, syncFailed>>
    BY <1>2 DEF ChangeAutomations
  <2>2. syncs' \in Seq(BOOLEAN) /\ Len(syncs') = Len(syncs) + 1 /\ syncs'[Len(syncs')] = wanted'
    BY <2>1, <1>t
  <2>3. syncs' # <<>>
    BY <2>2, <1>t
  <2> QED BY <2>1, <2>2, <2>3 DEF SyncsInv, FollowsWanted
<1>3. ASSUME NEW i \in OldestSync, SyncPlatform(i) PROVE SyncsInv'
  <2>1. i = 1 /\ syncs # <<>> /\ Len(syncs) >= 1
    BY <1>t, EmptySeq DEF OldestSync
  <2>2. CASE UNCHANGED <<syncs, scheduled, syncFailed>>
    BY <1>3, <2>2 DEF SyncPlatform, SyncsInv, FollowsWanted
  <2>3. CASE /\ syncs' = SubSeq(syncs, 1, i - 1) \o SubSeq(syncs, i + 1, Len(syncs))
             /\ scheduled' = syncs[i] \/ syncFailed' = TRUE
    <3>1. SubSeq(syncs, 1, 0) = <<>> /\ SubSeq(syncs, 2, Len(syncs)) \in Seq(BOOLEAN)
          /\ Len(SubSeq(syncs, 2, Len(syncs))) = Len(syncs) - 1
          /\ \A j \in 1..(Len(syncs) - 1) : SubSeq(syncs, 2, Len(syncs))[j] = syncs[j + 1]
      <4>1. SubSeq(syncs, 1, 0) = <<>>
        BY <1>t
      <4>2. /\ SubSeq(syncs, 2, Len(syncs)) \in Seq(BOOLEAN)
            /\ Len(SubSeq(syncs, 2, Len(syncs))) = Len(syncs) - 1
        <5> DEFINE B == BOOLEAN
        <5>1. 2 \in Int /\ Len(syncs) \in Int /\ \A j \in 2..Len(syncs) : syncs[j] \in B
          BY <1>t
        <5> HIDE DEF B
        <5>2. /\ SubSeq(syncs, 2, Len(syncs)) \in Seq(B)
              /\ Len(SubSeq(syncs, 2, Len(syncs))) = IF 2 <= Len(syncs) THEN Len(syncs) - 2 + 1 ELSE 0
          BY <5>1, SubSeqProperties
        <5>3. Len(SubSeq(syncs, 2, Len(syncs))) = Len(syncs) - 1
          <6> DEFINE n == Len(syncs)
                     m == Len(SubSeq(syncs, 2, Len(syncs)))
          <6>1. n \in Nat /\ n >= 1
            BY <1>t, <2>1
          <6>2. m = IF 2 <= n THEN n - 2 + 1 ELSE 0
            BY <5>2
          <6> HIDE DEF n, m
          <6>3. m = n - 1
            BY <6>1, <6>2
          <6> QED BY <6>3 DEF n, m
        <5>4. SubSeq(syncs, 2, Len(syncs)) \in Seq(BOOLEAN)
          BY <5>2 DEF B
        <5> QED BY <5>3, <5>4
      <4>3. \A j \in 1..(Len(syncs) - 1) : SubSeq(syncs, 2, Len(syncs))[j] = syncs[j + 1]
        BY <1>t, <2>1
      <4> QED BY <4>1, <4>2, <4>3
    <3>2. syncs' = SubSeq(syncs, 2, Len(syncs))
      BY <2>1, <2>3, <3>1
    <3>3. CASE Len(syncs) = 1
      <4>1. syncs' = <<>>
        BY <3>1, <3>2, <3>3
      <4>2. FollowsWanted(syncs[i]) /\ wanted' = wanted /\ unannounced' = unannounced
        BY <1>3, <2>1, <3>3 DEF SyncsInv, SyncPlatform
      <4>3. syncFailed' = TRUE \/ FollowsWanted(scheduled)'
        BY <4>2, <2>3 DEF FollowsWanted
      <4>4. wanted' \in BOOLEAN /\ syncs' \in Seq(BOOLEAN)
        BY <4>1, <4>2, EmptySeq DEF SyncsInv
      <4> QED BY <4>1, <4>3, <4>4 DEF SyncsInv
    <3>4. CASE Len(syncs) # 1
      <4>1. Len(syncs') = Len(syncs) - 1 /\ Len(syncs') >= 1 /\ syncs' \in Seq(BOOLEAN)
        BY <1>t, <2>1, <3>1, <3>2, <3>4
      <4>2. syncs'[Len(syncs')] = syncs[Len(syncs)]
        BY <1>t, <3>1, <3>2, <4>1
      <4>3. wanted' = wanted /\ unannounced' = unannounced /\ syncs' # <<>>
        BY <1>3, <4>1 DEF SyncPlatform
      <4>4. FollowsWanted(syncs[Len(syncs)])
        BY <2>1 DEF SyncsInv
      <4>5. syncs'[Len(syncs')] = wanted' \/ (unannounced' = TRUE /\ syncs'[Len(syncs')] = TRUE)
        BY <4>2, <4>3, <4>4 DEF FollowsWanted
      <4> QED BY <4>1, <4>3, <4>5 DEF SyncsInv, FollowsWanted
    <3> QED BY <3>3, <3>4
  <2> QED BY <1>3, <2>2, <2>3 DEF SyncPlatform
<1>4. CASE CompletionRecorded
  <2>1. /\ wanted = TRUE /\ wanted' = FALSE /\ unannounced' = TRUE
        /\ UNCHANGED <<syncs, scheduled, syncFailed>>
    BY <1>4 DEF CompletionRecorded, SyncsInv
  <2>2. \A on : FollowsWanted(on) => FollowsWanted(on)'
    BY <2>1 DEF FollowsWanted
  <2> QED BY <2>1, <2>2 DEF SyncsInv
<1> QED BY <1>1, <1>2, <1>3, <1>4 DEF OsNext

\* The specification keeps it.
LEMMA SyncsAreKept == OsSpec => []SyncsInv
<1>1. OsInit => SyncsInv
  <2> SUFFICES ASSUME OsInit PROVE SyncsInv
    OBVIOUS
  <2>1. syncs = <<>> /\ wanted \in BOOLEAN /\ scheduled = wanted
    BY DEF OsInit
  <2> QED BY <2>1 DEF SyncsInv, FollowsWanted
<1> QED BY <1>1, OsNextKeeps, PTL DEF OsSpec

\* Once every sync has run, the operating system starts the program exactly when an
\* automation is scheduled, unless the last sync failed or the last automation ran once and for
\* all (SchedulerFollows).
THEOREM SchedulersFollow == OsSpec => []SchedulerFollows
<1>1. SyncsInv => SchedulerFollows
  BY DEF SyncsInv, FollowsWanted, SchedulerFollows
<1> QED BY <1>1, SyncsAreKept, PTL

-----------------------------------------------------------------------------
(* Starts, ends and shutdowns of the application *)

AppSpec == AppInit /\ [][AppNext]_appVars

\* What the shutdown has closed stays closed while nobody starts anything: until the
\* agents are stopped this is the remote link, and then nobody is left to make more, but for a
\* guest somebody still waits for.
ClosedSoFar ==
  /\ closing \in 0..9
  /\ live \subseteq {"approvals", "remote", "agents", "terminals", "computer", "guest", "deltas", "browser"}
  /\ closing > 0 /\ failedStep = FALSE /\ lateWork = FALSE =>
       /\ closing > 2 => "remote" \notin live
       /\ closing > 3 => "agents" \notin live
       /\ closing > 4 => "terminals" \notin live
       /\ closing > 5 => "computer" \notin live
       /\ closing > 6 => "guest" \notin live \/ acquiring = "late"
       /\ closing > 7 => "deltas" \notin live
       /\ closing > 8 => "browser" \notin live

AppBooleans == failedStep \in BOOLEAN /\ lateWork \in BOOLEAN /\ pendingDispatch \in BOOLEAN

AppInv == AppBooleans /\ RestartReconciles /\ DispatchKept /\ ClosedSoFar

\* The steps of the shutdown, in their order.
LEMMA StepsInOrder ==
  /\ Len(ShutdownSteps) = 8 /\ ShutdownEnded = 9
  /\ ShutdownSteps[1] = "approvals" /\ ShutdownSteps[2] = "remote" /\ ShutdownSteps[3] = "agents"
  /\ ShutdownSteps[4] = "terminals" /\ ShutdownSteps[5] = "computer" /\ ShutdownSteps[6] = "guest"
  /\ ShutdownSteps[7] = "deltas" /\ ShutdownSteps[8] = "browser"
  BY DEF ShutdownSteps, Steps, ShutdownEnded

\* The end of the program, however it comes about, leaves nothing open.
LEMMA GoneKeeps == ASSUME AppInv, Gone PROVE AppInv'
<1>1. AppBooleans'
  BY DEF AppInv, AppBooleans, Gone
<1>2. RestartReconciles'
  BY DEF AppInv, RestartReconciles, Gone
<1>3. DispatchKept'
  BY DEF AppInv, DispatchKept, Gone
<1>4. ClosedSoFar'
  BY DEF AppInv, ClosedSoFar, Gone
<1> QED BY <1>1, <1>2, <1>3, <1>4 DEF AppInv

\* Asking the program to quit starts its shutdown, or ends one.
LEMMA QuitKeeps == ASSUME AppInv, Quit, Stays PROVE AppInv'
<1>1. CASE closing = 0
  <2>1. AppBooleans'
    BY <1>1 DEF AppInv, AppBooleans, Quit, Stays
  <2>2. RestartReconciles'
    BY <1>1 DEF AppInv, RestartReconciles, Quit, Stays
  <2>3. DispatchKept'
    BY <1>1 DEF AppInv, DispatchKept, Quit, Stays
  <2>4. ClosedSoFar'
    <3>1. closing' = 1 /\ live' = live
      BY <1>1 DEF Quit
    <3> QED BY <3>1 DEF AppInv, ClosedSoFar
  <2> QED BY <2>1, <2>2, <2>3, <2>4 DEF AppInv
<1>2. CASE closing # 0
  BY <1>2, GoneKeeps DEF Quit
<1> QED BY <1>1, <1>2

\* Each step of the program keeps it.
LEMMA AppNextKeeps == AppAssumption /\ AppInv /\ [AppNext]_appVars => AppInv'
<1> SUFFICES ASSUME AppAssumption, AppInv, [AppNext]_appVars PROVE AppInv'
  OBVIOUS
<1>1. CASE UNCHANGED appVars
  <2>1. AppBooleans'
    BY <1>1 DEF AppInv, AppBooleans, appVars
  <2>2. RestartReconciles'
    BY <1>1 DEF AppInv, RestartReconciles, appVars
  <2>3. DispatchKept'
    BY <1>1 DEF AppInv, DispatchKept, appVars
  <2>4. ClosedSoFar'
    BY <1>1 DEF AppInv, ClosedSoFar, appVars
  <2> QED BY <2>1, <2>2, <2>3, <2>4 DEF AppInv
<1>2. CASE LaunchApp
  <2>1. AppBooleans'
    BY <1>2 DEF AppInv, AppBooleans, LaunchApp
  <2>2. RestartReconciles'
    BY <1>2 DEF AppInv, RestartReconciles, LaunchApp
  <2>3. DispatchKept'
    BY <1>2 DEF AppInv, DispatchKept, LaunchApp
  <2>4. ClosedSoFar'
    BY <1>2 DEF AppInv, ClosedSoFar, LaunchApp
  <2> QED BY <2>1, <2>2, <2>3, <2>4 DEF AppInv
<1>3. CASE Reconcile
  <2>1. AppBooleans'
    BY <1>3 DEF AppInv, AppBooleans, Reconcile, InterruptActive
  <2>2. RestartReconciles'
    BY <1>3 DEF AppInv, RestartReconciles, Reconcile, InterruptActive
  <2>3. DispatchKept'
    BY <1>3 DEF AppInv, DispatchKept, Reconcile, InterruptActive
  <2>4. ClosedSoFar'
    BY <1>3 DEF AppInv, ClosedSoFar, Reconcile, InterruptActive
  <2> QED BY <2>1, <2>2, <2>3, <2>4 DEF AppInv
<1>4. CASE Build
  <2>1. AppBooleans'
    <3>1. failedStep' = failedStep /\ pendingDispatch' = (pendingDispatch /\ ~pendingDispatch)
          /\ (lateWork' = lateWork \/ lateWork' = (closing > 0))
      BY <1>4 DEF Build, PendingTaken
    <3>2. (pendingDispatch /\ ~pendingDispatch) \in BOOLEAN /\ (closing > 0) \in BOOLEAN
      OBVIOUS
    <3> QED BY <3>1, <3>2 DEF AppInv, AppBooleans
  <2>2. RestartReconciles'
    BY <1>4 DEF AppInv, RestartReconciles, Build, PendingTaken
  <2>3. DispatchKept'
    BY <1>4 DEF AppInv, DispatchKept, Build, PendingTaken
  <2>4. ClosedSoFar'
    BY <1>4 DEF AppInv, ClosedSoFar, Build, PendingTaken
  <2> QED BY <2>1, <2>2, <2>3, <2>4 DEF AppInv
<1>5. CASE Dispatched
  <2>1. AppBooleans'
    BY <1>5 DEF AppInv, AppBooleans, Dispatched, Stays
  <2>2. RestartReconciles'
    BY <1>5 DEF AppInv, RestartReconciles, Dispatched, Stays
  <2>3. DispatchKept'
    BY <1>5 DEF AppInv, DispatchKept, Dispatched, Stays
  <2>4. ClosedSoFar'
    BY <1>5 DEF AppInv, ClosedSoFar, Dispatched, Stays
  <2> QED BY <2>1, <2>2, <2>3, <2>4 DEF AppInv
<1>6. CASE OpenMainWindow
  <2>1. AppBooleans'
    BY <1>6 DEF AppInv, AppBooleans, OpenMainWindow, Stays
  <2>2. RestartReconciles'
    BY <1>6 DEF AppInv, RestartReconciles, OpenMainWindow, Stays
  <2>3. DispatchKept'
    BY <1>6 DEF AppInv, DispatchKept, OpenMainWindow, Stays
  <2>4. ClosedSoFar'
    BY <1>6 DEF AppInv, ClosedSoFar, OpenMainWindow, Stays
  <2> QED BY <2>1, <2>2, <2>3, <2>4 DEF AppInv
<1>7. CASE EndDispatch
  <2>1. CASE Gone
    BY <2>1, GoneKeeps
  <2>2. CASE ~Gone
    <3>1. AppBooleans'
      BY <1>7, <2>2 DEF AppInv, AppBooleans, EndDispatch, Stays
    <3>2. RestartReconciles'
      BY <1>7, <2>2 DEF AppInv, RestartReconciles, EndDispatch, Stays
    <3>3. DispatchKept'
      BY <1>7, <2>2 DEF AppInv, DispatchKept, EndDispatch, Stays
    <3>4. ClosedSoFar'
      <4>1. closing' = 1 /\ live' \subseteq live
        BY <1>7, <2>2 DEF EndDispatch
      <4> QED BY <4>1 DEF AppInv, ClosedSoFar
    <3> QED BY <3>1, <3>2, <3>3, <3>4 DEF AppInv
  <2> QED BY <2>1, <2>2
<1>8. CASE StartupFails
  <2>1. CASE Gone
    BY <2>1, GoneKeeps
  <2>2. CASE ~Gone
    <3>1. AppBooleans'
      BY <1>8, <2>2 DEF AppInv, AppBooleans, StartupFails, Stays
    <3>2. RestartReconciles'
      BY <1>8, <2>2 DEF AppInv, RestartReconciles, StartupFails, Stays
    <3>3. DispatchKept'
      BY <1>8, <2>2 DEF AppInv, DispatchKept, StartupFails, Stays
    <3>4. ClosedSoFar'
      <4>1. closing' = 1 /\ live' \subseteq live
        BY <1>8, <2>2 DEF StartupFails
      <4> QED BY <4>1 DEF AppInv, ClosedSoFar
    <3> QED BY <3>1, <3>2, <3>3, <3>4 DEF AppInv
  <2> QED BY <2>1, <2>2
<1>9. CASE Relaunch
  BY <1>9, GoneKeeps DEF Relaunch
<1>10. CASE SecondInstance
  <2>1. AppBooleans'
    BY <1>10 DEF AppInv, AppBooleans, SecondInstance
  <2>2. RestartReconciles'
    BY <1>10 DEF AppInv, RestartReconciles, SecondInstance
  <2>3. DispatchKept'
    BY <1>10 DEF AppInv, DispatchKept, SecondInstance
  <2>4. ClosedSoFar'
    BY <1>10 DEF AppInv, ClosedSoFar, SecondInstance
  <2> QED BY <2>1, <2>2, <2>3, <2>4 DEF AppInv
<1>11. CASE SignOut
  <2>1. AppBooleans'
    BY <1>11 DEF AppInv, AppBooleans, SignOut, Stays
  <2>2. RestartReconciles'
    BY <1>11 DEF AppInv, RestartReconciles, SignOut, Stays
  <2>3. DispatchKept'
    BY <1>11 DEF AppInv, DispatchKept, SignOut, Stays
  <2>4. ClosedSoFar'
    BY <1>11 DEF AppInv, ClosedSoFar, SignOut, Stays
  <2> QED BY <2>1, <2>2, <2>3, <2>4 DEF AppInv
<1>12. CASE UserQuits
  BY <1>12, QuitKeeps DEF UserQuits
<1>13. CASE CloseWindow
  <2>1. CASE Quit
    BY <1>13, <2>1, QuitKeeps DEF CloseWindow
  <2>2. CASE ~Quit
    <3>1. AppBooleans'
      BY <1>13, <2>2 DEF AppInv, AppBooleans, CloseWindow, Stays
    <3>2. RestartReconciles'
      BY <1>13, <2>2 DEF AppInv, RestartReconciles, CloseWindow, Stays
    <3>3. DispatchKept'
      BY <1>13, <2>2 DEF AppInv, DispatchKept, CloseWindow, Stays
    <3>4. ClosedSoFar'
      BY <1>13, <2>2 DEF AppInv, ClosedSoFar, CloseWindow, Stays
    <3> QED BY <3>1, <3>2, <3>3, <3>4 DEF AppInv
  <2> QED BY <2>1, <2>2
<1>14. CASE ShutdownStep
  <2>1. closing \in 1..8 /\ UNCHANGED <<appPlace, acquiring, windowOpen, lateWork, pendingDispatch>> /\ Stays
    BY <1>14, StepsInOrder DEF ShutdownStep
  <2>2. \/ closing' = ShutdownEnded /\ failedStep' = TRUE /\ UNCHANGED live
        \/ closing' = closing + 1 /\ live' = live \ {ShutdownSteps[closing]} /\ UNCHANGED failedStep
    BY <1>14 DEF ShutdownStep
  <2>3. AppBooleans'
    BY <2>1, <2>2 DEF AppInv, AppBooleans
  <2>4. RestartReconciles'
    BY <2>1 DEF AppInv, RestartReconciles, Stays
  <2>5. DispatchKept'
    BY <2>1 DEF AppInv, DispatchKept
  <2>6. ClosedSoFar'
    <3>1. CASE closing' = ShutdownEnded /\ failedStep' = TRUE /\ UNCHANGED live
      BY <3>1, StepsInOrder DEF AppInv, ClosedSoFar
    <3>2. ASSUME NEW c \in 1..8, c = closing, closing' = c + 1, live' = live \ {ShutdownSteps[c]}, UNCHANGED failedStep
          PROVE  ClosedSoFar'
      <4>1. CASE c = 1
        BY <2>1, <3>2, <4>1, StepsInOrder DEF AppInv, ClosedSoFar
      <4>2. CASE c = 2
        BY <2>1, <3>2, <4>2, StepsInOrder DEF AppInv, ClosedSoFar
      <4>3. CASE c = 3
        BY <2>1, <3>2, <4>3, StepsInOrder DEF AppInv, ClosedSoFar
      <4>4. CASE c = 4
        BY <2>1, <3>2, <4>4, StepsInOrder DEF AppInv, ClosedSoFar
      <4>5. CASE c = 5
        BY <2>1, <3>2, <4>5, StepsInOrder DEF AppInv, ClosedSoFar
      <4>6. CASE c = 6
        BY <2>1, <3>2, <4>6, StepsInOrder DEF AppInv, ClosedSoFar
      <4>7. CASE c = 7
        BY <2>1, <3>2, <4>7, StepsInOrder DEF AppInv, ClosedSoFar
      <4>8. CASE c = 8
        BY <2>1, <3>2, <4>8, StepsInOrder DEF AppInv, ClosedSoFar
      <4> QED BY <4>1, <4>2, <4>3, <4>4, <4>5, <4>6, <4>7, <4>8
    <3> QED BY <2>1, <2>2, <3>1, <3>2
  <2> QED BY <2>3, <2>4, <2>5, <2>6 DEF AppInv
<1>15. CASE EndShutdown
  BY <1>15, GoneKeeps DEF EndShutdown
<1>16. CASE Watchdog
  BY <1>16, GoneKeeps DEF Watchdog
<1>17. CASE Killed
  BY <1>17, GoneKeeps DEF Killed
<1>18. ASSUME NEW s, PendingWork(s) PROVE AppInv'
  <2>1. AppBooleans'
    BY <1>18 DEF AppInv, AppBooleans, PendingWork
  <2>2. RestartReconciles'
    BY <1>18 DEF AppInv, RestartReconciles, PendingWork
  <2>3. DispatchKept'
    BY <1>18 DEF AppInv, DispatchKept, PendingWork
  <2>4. ClosedSoFar'
    BY <1>18 DEF AppInv, ClosedSoFar, PendingWork
  <2> QED BY <2>1, <2>2, <2>3, <2>4 DEF AppInv
<1>19. ASSUME NEW s, AgentWorks(s) PROVE AppInv'
  <2>1. AppBooleans'
    BY <1>19 DEF AppInv, AppBooleans, AgentWorks, AppAssumption
  <2>2. RestartReconciles'
    BY <1>19 DEF AppInv, RestartReconciles, AgentWorks, AppAssumption
  <2>3. DispatchKept'
    BY <1>19 DEF AppInv, DispatchKept, AgentWorks, AppAssumption
  <2>4. ClosedSoFar'
    <3>1. CASE UNCHANGED acquiring
      <4>1. /\ "agents" \in live /\ live \subseteq live' /\ live' \subseteq live \cup {s}
            /\ s \in {"approvals", "computer", "guest", "deltas", "browser"}
            /\ UNCHANGED <<closing, failedStep, lateWork>>
        BY <1>19 DEF AgentWorks, AppAssumption
      <4> QED BY <3>1, <4>1 DEF AppInv, ClosedSoFar
    <3>2. CASE acquiring = "no" /\ acquiring' = "waiting" /\ UNCHANGED live
      <4>1. UNCHANGED <<closing, failedStep, lateWork, live>>
        BY <1>19, <3>2 DEF AgentWorks
      <4> QED BY <3>2, <4>1 DEF AppInv, ClosedSoFar
    <3> QED BY <1>19, <3>1, <3>2 DEF AgentWorks
  <2> QED BY <2>1, <2>2, <2>3, <2>4 DEF AppInv
<1>20. ASSUME NEW failed \in BOOLEAN, AgentEnds(failed) PROVE AppInv'
  <2>1. AppBooleans'
    BY <1>20 DEF AppInv, AppBooleans, AgentEnds
  <2>2. RestartReconciles'
    BY <1>20 DEF AppInv, RestartReconciles, AgentEnds
  <2>3. DispatchKept'
    BY <1>20 DEF AppInv, DispatchKept, AgentEnds
  <2>4. ClosedSoFar'
    BY <1>20 DEF AppInv, ClosedSoFar, AgentEnds
  <2> QED BY <2>1, <2>2, <2>3, <2>4 DEF AppInv
<1>21. CASE GuestAcquired
  <2>1. AppBooleans'
    BY <1>21 DEF AppInv, AppBooleans, GuestAcquired
  <2>2. RestartReconciles'
    BY <1>21 DEF AppInv, RestartReconciles, GuestAcquired
  <2>3. DispatchKept'
    BY <1>21 DEF AppInv, DispatchKept, GuestAcquired
  <2>4. ClosedSoFar'
    BY <1>21 DEF AppInv, ClosedSoFar, GuestAcquired, GuestsClosed
  <2> QED BY <2>1, <2>2, <2>3, <2>4 DEF AppInv
<1> QED BY <1>1, <1>2, <1>3, <1>4, <1>5, <1>6, <1>7, <1>8, <1>9, <1>10, <1>11, <1>12, <1>13,
           <1>14, <1>15, <1>16, <1>17, <1>18, <1>19, <1>20, <1>21 DEF AppNext

\* The specification keeps it.
LEMMA AppIsKept == AppSpec => []AppInv
<1>1. ASSUME AppInit PROVE AppInv
  <2>1. AppBooleans
    BY <1>1 DEF AppInit, AppBooleans
  <2>2. RestartReconciles
    BY <1>1 DEF AppInit, RestartReconciles
  <2>3. DispatchKept
    BY <1>1 DEF AppInit, DispatchKept
  <2>4. ClosedSoFar
    BY <1>1 DEF AppInit, ClosedSoFar
  <2> QED BY <2>1, <2>2, <2>3, <2>4 DEF AppInv
<1> QED BY <1>1, AppNextKeeps, AppAssumption, PTL DEF AppSpec

\* A run uses no task an earlier one left active, a dispatch asked for during a start is made,
\* and a shutdown closes what it should in an order that leaves nothing but a guest that came late
\* (RestartReconciles, DispatchKept, ClosedInOrder).
THEOREM StartsAndEndsAreKept == AppSpec => [](RestartReconciles /\ DispatchKept /\ ClosedInOrder)
<1>1. AppInv => RestartReconciles /\ DispatchKept /\ ClosedInOrder
  BY StepsInOrder DEF AppInv, AppBooleans, ClosedSoFar, ClosedInOrder
<1> QED BY <1>1, AppIsKept, PTL

ScheduledOK == scheduled \in BOOLEAN

\* What the scheduler of the operating system and its syncs are made of.
OsTypeOK == syncs \in Seq(BOOLEAN) /\ scheduled \in BOOLEAN

\* The variables of the scheduler keep their types.
THEOREM OsTypeCorrect == OsSpec => []OsTypeOK
<1>1. OsInit => ScheduledOK
  BY DEF OsInit, ScheduledOK
<1>2. SyncsInv /\ ScheduledOK /\ [OsNext]_osVars => ScheduledOK'
  <2> SUFFICES ASSUME SyncsInv, ScheduledOK, [OsNext]_osVars PROVE ScheduledOK'
    OBVIOUS
  <2>1. CASE ChangeAutomations \/ CompletionRecorded \/ UNCHANGED osVars
    BY <2>1 DEF ChangeAutomations, CompletionRecorded, osVars, ScheduledOK
  <2>2. ASSUME NEW i \in OldestSync, SyncPlatform(i) PROVE ScheduledOK'
    <3>1. i \in 1..Len(syncs)
      <4>1. syncs \in Seq(BOOLEAN) /\ (syncs # <<>> => Len(syncs) >= 1) /\ Len(syncs) \in Nat
        BY DEF SyncsInv
      <4> QED BY <2>2, <4>1 DEF OldestSync
    <3>2. syncs[i] \in BOOLEAN
      BY <3>1, ElementOfSeq DEF SyncsInv
    <3> QED BY <2>2, <3>2 DEF SyncPlatform, ScheduledOK
  <2> QED BY <2>1, <2>2 DEF OsNext
<1>3. SyncsInv /\ ScheduledOK => OsTypeOK
  BY DEF SyncsInv, ScheduledOK, OsTypeOK
<1> QED BY <1>1, <1>2, <1>3, SyncsAreKept, PTL DEF OsSpec

\* Where the application is, and in which of its runs.
AppPlaces ==
  appPlace \in {"off", "reconciling", "building", "ready", "dispatching", "opening", "open", "ended"}
AppLaunches == launch \in 0..MaxLaunches /\ activeTask \in 0..MaxLaunches
AppFlags == dispatchOnly \in BOOLEAN /\ windowOpen \in BOOLEAN
AppAcquires == acquiring \in {"no", "waiting", "late"}

\* What the application is made of.
StartTypeOK ==
  /\ appPlace \in {"off", "reconciling", "building", "ready", "dispatching", "opening", "open", "ended"}
  /\ launch \in 0..MaxLaunches /\ activeTask \in 0..MaxLaunches
  /\ live \subseteq {Steps[i] : i \in 1..Len(Steps)} /\ closing \in 0..ShutdownEnded
  /\ {dispatchOnly, windowOpen, failedStep, lateWork, pendingDispatch} \subseteq BOOLEAN
  /\ acquiring \in {"no", "waiting", "late"}

\* What the shutdown closes is these.
LEMMA StepsAre ==
  /\ {Steps[i] : i \in 1..Len(Steps)}
       = {"approvals", "remote", "agents", "terminals", "computer", "guest", "deltas", "browser"}
  /\ ShutdownEnded = 9
<1>1. Len(Steps) = 8 /\ 1..8 = {1, 2, 3, 4, 5, 6, 7, 8}
  BY DEF Steps
<1>2. ShutdownEnded = 9
  BY <1>1 DEF ShutdownEnded, ShutdownSteps
<1> QED BY <1>1, <1>2 DEF Steps

\* The variables of the application keep their types.
THEOREM StartTypeCorrect == AppSpec => []StartTypeOK
<1>m. MaxLaunches \in Nat
  BY AppAssumption DEF AppAssumption
<1>1. AppInit => AppPlaces /\ AppLaunches /\ AppFlags /\ AppAcquires
  <2>1. AppInit => AppLaunches
    BY <1>m DEF AppInit, AppLaunches
  <2> QED BY <2>1 DEF AppInit, AppPlaces, AppFlags, AppAcquires
<1>2. AppPlaces /\ [AppNext]_appVars => AppPlaces'
  BY DEF AppPlaces, AppNext, LaunchApp, Reconcile, Build, Dispatched, OpenMainWindow, EndDispatch, StartupFails,
         Relaunch, SecondInstance, SignOut, UserQuits, CloseWindow, ShutdownStep, EndShutdown, Watchdog, Killed,
         PendingWork, AgentWorks, GuestAcquired, AgentEnds, Gone, Quit, appVars
<1>3. AppLaunches /\ [AppNext]_appVars => AppLaunches'
  <2> SUFFICES ASSUME AppLaunches, [AppNext]_appVars PROVE AppLaunches'
    OBVIOUS
  <2>1. ASSUME launch' = launch, activeTask' \in {activeTask, launch, 0} PROVE AppLaunches'
    BY <1>m, <2>1 DEF AppLaunches
  <2>2. CASE LaunchApp
    BY <1>m, <2>2 DEF LaunchApp, AppLaunches
  <2> QED BY <2>1, <2>2 DEF AppNext, Reconcile, InterruptActive, Build, Dispatched, OpenMainWindow, EndDispatch,
              StartupFails, Relaunch, SecondInstance, SignOut, UserQuits, CloseWindow, ShutdownStep, EndShutdown,
              Watchdog, Killed, PendingWork, AgentWorks, GuestAcquired, AgentEnds, Stays, appVars
<1>4. AppFlags /\ [AppNext]_appVars => AppFlags'
  BY DEF AppFlags, AppNext, LaunchApp, Reconcile, Build, Dispatched, OpenMainWindow, EndDispatch, StartupFails,
         Relaunch, SecondInstance, SignOut, UserQuits, CloseWindow, ShutdownStep, EndShutdown, Watchdog, Killed,
         PendingWork, AgentWorks, GuestAcquired, AgentEnds, Gone, Quit, Stays, appVars
<1>5. AppAcquires /\ [AppNext]_appVars => AppAcquires'
  BY DEF AppAcquires, AppNext, LaunchApp, Reconcile, Build, Dispatched, OpenMainWindow, EndDispatch, StartupFails,
         Relaunch, SecondInstance, SignOut, UserQuits, CloseWindow, ShutdownStep, EndShutdown, Watchdog, Killed,
         PendingWork, AgentWorks, GuestAcquired, AgentEnds, Gone, Quit, appVars
<1>6. AppInv /\ AppPlaces /\ AppLaunches /\ AppFlags /\ AppAcquires => StartTypeOK
  <2> SUFFICES ASSUME AppInv, AppPlaces, AppLaunches, AppFlags, AppAcquires PROVE StartTypeOK
    OBVIOUS
  <2>1. {dispatchOnly, windowOpen, failedStep, lateWork, pendingDispatch} \subseteq BOOLEAN
    BY DEF AppInv, AppBooleans, AppFlags
  <2>2. live \subseteq {Steps[i] : i \in 1..Len(Steps)} /\ closing \in 0..ShutdownEnded
    BY StepsAre DEF AppInv, ClosedSoFar
  <2> QED BY <2>1, <2>2 DEF AppPlaces, AppLaunches, AppAcquires, StartTypeOK
<1> QED BY <1>1, <1>2, <1>3, <1>4, <1>5, <1>6, AppIsKept, PTL DEF AppSpec

=============================================================================
