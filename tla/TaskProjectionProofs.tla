------------------------ MODULE TaskProjectionProofs ------------------------
(***************************************************************************)
(* Proofs about TaskProjection: its types, that the deltas of a turn reach *)
(* the log in order and complete, and that none follows the end of its     *)
(* turn.                                                                   *)
(*                                                                         *)
(* That an end is chained behind the batches of its turn is a property of  *)
(* the loop of flushAssistantDeltas, which gives the open batches a pass   *)
(* each and is overtaken by deltas, timers and other events meanwhile: it  *)
(* needs that a turn whose end is on its way gets no further delta, that   *)
(* the batch it may still have open is among those the loop has yet to     *)
(* visit, and that one batch at a time stands between the loop and its     *)
(* event.                                                                  *)
(***************************************************************************)
EXTENDS TaskProjection, SequenceTheorems, TLAPS

Ends == {"completed", "failed"}

\* The predicates below are of a queue q, the open batches buf, the log sto, the
\* deltas received snt, the lives lf of the turns and the batches rst to flush.
UpTo(s, n) == \A i \in DOMAIN s : s[i] <= n

\* The pieces of a turn are in order, and of what the turn has streamed.
Pieces(q, buf, sto, snt) ==
  \A u \in Turns :
    /\ Ascending(sto[u]) /\ Ascending(buf[u]) /\ Before(sto[u], buf[u])
    /\ UpTo(sto[u], snt[u]) /\ UpTo(buf[u], snt[u])
    /\ \A i \in DOMAIN q :
         q[i].turn = u =>
           /\ Ascending(q[i].deltas) /\ UpTo(q[i].deltas, snt[u])
           /\ Before(sto[u], q[i].deltas) /\ Before(q[i].deltas, buf[u])
           /\ \A j \in DOMAIN q : i < j /\ q[j].turn = u => Before(q[i].deltas, q[j].deltas)

\* No delta of the turn is missing.
Complete(q, buf, sto, snt, u) ==
  \A d \in 1..snt[u] :
    \/ Holds(sto[u], d)
    \/ \E i \in DOMAIN q : q[i].turn = u /\ Holds(q[i].deltas, d)
    \/ Holds(buf[u], d)

\* An event that awaits a batch awaits one, and an end that does so has found
\* the batch of its own turn flushed or will.
Waiters(q, buf, lf, rst) ==
  /\ \A i \in DOMAIN q : q[i].waiter # NoEvent =>
       LET e == q[i].waiter IN
         /\ e \in Events
         /\ lf[e.turn] # "new"
         /\ e.kind \in Ends =>
              /\ lf[e.turn] = "over"
              /\ buf[e.turn] # <<>> => e.turn \in rst[e.turn][e.kind]
  /\ \A i, j \in DOMAIN q : i < j /\ q[i].waiter # NoEvent => q[i].waiter # q[j].waiter

\* The end of a turn in the queue has no delta of the turn behind it.
EndsLast(q, buf, lf) ==
  \A i \in DOMAIN q :
    q[i].kind \in Ends =>
      /\ lf[q[i].turn] = "over"
      /\ buf[q[i].turn] = <<>>
      /\ \A j \in DOMAIN q : j > i => ~(q[j].kind = "deltas" /\ q[j].turn = q[i].turn)

\* A turn that has not begun has streamed nothing; while nothing has failed, a
\* turn that runs misses nothing.
Received(q, buf, sto, snt, lf, flt) ==
  \A u \in Turns :
    /\ lf[u] = "new" => snt[u] = 0
    /\ flt = 0 /\ lf[u] = "running" => Complete(q, buf, sto, snt, u)

\* An event in the queue brings no delta.
NoDeltas(q) == \A i \in DOMAIN q : q[i].kind \in Lifecycle => q[i].deltas = <<>>

Lists == [Turns -> Seq(1..MaxDeltas)]
Counts == [Turns -> 0..MaxDeltas]
Lives == [Turns -> {"new", "running", "over"}]
ToFlush == [Turns -> [Lifecycle -> SUBSET Turns]]

Sound(q, buf, sto, snt, lf, rst) ==
  /\ q \in Seq(Operations) /\ buf \in Lists /\ sto \in Lists /\ snt \in Counts
  /\ lf \in Lives /\ rst \in ToFlush
  /\ Pieces(q, buf, sto, snt)
  /\ NoDeltas(q)
  /\ Waiters(q, buf, lf, rst)
  /\ EndsLast(q, buf, lf)

\* An open batch is shorter than a full one.
Short(buf) == \A u \in Turns : Len(buf[u]) < BatchSize

TaskTypes ==
  /\ step \in 0..1
  /\ task \in [Tasks -> [status : Statuses, turnId : Turns \cup {NoTurn}]]
  /\ interrupting \subseteq Tasks
  /\ faults \in 0..MaxFaults

ProjInv ==
  /\ TaskTypes
  /\ Short(buffered)
  /\ Sound(queue, buffered, stored, sent, life, rest)
  /\ Received(queue, buffered, stored, sent, life, faults)

-----------------------------------------------------------------------------
\* The queue without its first operation.
LEMMA HeadGone ==
  ASSUME NEW q \in Seq(Operations), q # <<>>
  PROVE  /\ Head(q) \in Operations /\ Head(q) = q[1] /\ 1 \in DOMAIN q
         /\ Tail(q) \in Seq(Operations)
         /\ \A i \in DOMAIN Tail(q) : i + 1 \in DOMAIN q /\ Tail(q)[i] = q[i + 1] /\ i >= 1
         /\ \A i \in DOMAIN q : i # 1 => i - 1 \in DOMAIN Tail(q) /\ Tail(q)[i - 1] = q[i]
         /\ \A i, j \in DOMAIN Tail(q) : i < j => i + 1 < j + 1
         /\ \A i \in DOMAIN Tail(q) : 1 < i + 1
<1>1. /\ Head(q) \in Operations /\ Tail(q) \in Seq(Operations)
      /\ Len(Tail(q)) = Len(q) - 1 /\ Len(q) \in Nat /\ Len(q) >= 1
      /\ \A i \in 1..Len(Tail(q)) : Tail(q)[i] = q[i + 1]
  BY HeadTailProperties, EmptySeq
<1>2. DOMAIN q = 1..Len(q) /\ DOMAIN Tail(q) = 1..(Len(q) - 1)
  BY <1>1
<1>3. Head(q) = q[1]
  OBVIOUS
<1>4. \A n \in Nat : \A i \in 1..(n - 1) : i + 1 \in 1..n /\ i >= 1 /\ 1 < i + 1
  OBVIOUS
<1>5. \A n \in Nat : \A i \in 1..n : i # 1 => i - 1 \in 1..(n - 1) /\ (i - 1) + 1 = i
  OBVIOUS
<1>6. \A i \in DOMAIN Tail(q) : i + 1 \in DOMAIN q /\ Tail(q)[i] = q[i + 1] /\ i >= 1 /\ 1 < i + 1
  BY <1>1, <1>2, <1>4
<1>7. \A i \in DOMAIN q : i # 1 => i - 1 \in DOMAIN Tail(q) /\ Tail(q)[i - 1] = q[i]
  BY <1>1, <1>2, <1>5
<1>8. \A i, j \in DOMAIN Tail(q) : i < j => i + 1 < j + 1
  BY <1>2
<1>9. 1 \in DOMAIN q
  BY <1>1, <1>2
<1> QED BY <1>1, <1>3, <1>6, <1>7, <1>8, <1>9

\* The queue with one more operation.
LEMMA OneChained ==
  ASSUME NEW q \in Seq(Operations), NEW op \in Operations
  PROVE  /\ Append(q, op) \in Seq(Operations)
         /\ \A i \in DOMAIN q : i \in DOMAIN Append(q, op) /\ Append(q, op)[i] = q[i]
         /\ Len(q) + 1 \in DOMAIN Append(q, op) /\ Append(q, op)[Len(q) + 1] = op
         /\ \A i \in DOMAIN Append(q, op) : i \in DOMAIN q \/ i = Len(q) + 1
         /\ \A i \in DOMAIN q : i < Len(q) + 1 /\ ~(Len(q) + 1 < i)
<1>1. /\ Append(q, op) \in Seq(Operations) /\ Len(Append(q, op)) = Len(q) + 1
      /\ Len(q) \in Nat /\ DOMAIN q = 1..Len(q)
      /\ DOMAIN Append(q, op) = 1..(Len(q) + 1)
      /\ Append(q, op)[Len(q) + 1] = op
      /\ \A i \in 1..Len(q) : Append(q, op)[i] = q[i]
  OBVIOUS
<1>2. \A n \in Nat : /\ n + 1 \in 1..(n + 1)
                     /\ \A i \in 1..n : i \in 1..(n + 1) /\ i < n + 1 /\ ~(n + 1 < i)
                     /\ \A i \in 1..(n + 1) : i \in 1..n \/ i = n + 1
  OBVIOUS
<1> QED BY <1>1, <1>2

\* One list of deltas behind another.
LEMMA ListsJoined ==
  ASSUME NEW s \in Seq(1..MaxDeltas), NEW t \in Seq(1..MaxDeltas)
  PROVE  /\ s \o t \in Seq(1..MaxDeltas)
         /\ Ascending(s) /\ Ascending(t) /\ Before(s, t) => Ascending(s \o t)
         /\ \A n \in Nat : UpTo(s, n) /\ UpTo(t, n) => UpTo(s \o t, n)
         /\ \A r : Before(s, r) /\ Before(t, r) => Before(s \o t, r)
         /\ \A d : Holds(s, d) \/ Holds(t, d) => Holds(s \o t, d)
<1>1. PICK k \in Nat : k = Len(s)
  OBVIOUS
<1>2. PICK m \in Nat : m = Len(t)
  OBVIOUS
<1>3. /\ s \o t \in Seq(1..MaxDeltas) /\ DOMAIN (s \o t) = 1..(k + m)
      /\ DOMAIN s = 1..k /\ DOMAIN t = 1..m
  BY <1>1, <1>2
<1>4. /\ \A i \in 1..k : (s \o t)[i] = s[i] /\ i \in 1..(k + m)
      /\ \A i \in 1..m : (s \o t)[k + i] = t[i] /\ k + i \in 1..(k + m)
  BY <1>1, <1>2, <1>3
<1>5. \A i \in 1..(k + m) : i \in 1..k \/ \E j \in 1..m : i = k + j
  <2>1. \A i \in 1..(k + m) : i \in 1..k \/ (i - k \in 1..m /\ i = k + (i - k))
    BY <1>1, <1>2
  <2> QED BY <2>1
<1>6. ASSUME NEW r, Before(s, r), Before(t, r) PROVE Before(s \o t, r)
  <2> SUFFICES ASSUME NEW i \in 1..(k + m), NEW j \in DOMAIN r PROVE (s \o t)[i] < r[j]
    BY <1>3 DEF Before
  <2>1. CASE i \in 1..k
    BY <1>3, <1>4, <1>6, <2>1 DEF Before
  <2>2. CASE \E n \in 1..m : i = k + n
    BY <1>3, <1>4, <1>6, <2>2 DEF Before
  <2> QED BY <1>5, <2>1, <2>2
<1>7. \A n \in Nat : UpTo(s, n) /\ UpTo(t, n) => UpTo(s \o t, n)
  BY <1>3, <1>4, <1>5 DEF UpTo
<1>8. \A d : Holds(s, d) \/ Holds(t, d) => Holds(s \o t, d)
  BY <1>3, <1>4 DEF Holds
<1>9. ASSUME Ascending(s), Ascending(t), Before(s, t) PROVE Ascending(s \o t)
  <2>1. SUFFICES ASSUME NEW i \in 1..(k + m), NEW j \in 1..(k + m), i < j
                 PROVE  (s \o t)[i] < (s \o t)[j]
    BY <1>3 DEF Ascending
  <2>2. CASE i \in 1..k /\ j \in 1..k
    BY <1>3, <1>4, <1>9, <2>1, <2>2 DEF Ascending
  <2>3. ASSUME NEW b \in 1..m, j = k + b, i \in 1..k PROVE (s \o t)[i] < (s \o t)[j]
    BY <1>3, <1>4, <1>9, <2>3 DEF Before
  <2>4. ASSUME NEW a \in 1..m, NEW b \in 1..m, i = k + a, j = k + b
        PROVE  (s \o t)[i] < (s \o t)[j]
    <3>1. a < b
      BY <1>1, <2>1, <2>4
    <3> QED BY <1>3, <1>4, <1>9, <2>4, <3>1 DEF Ascending
  <2>5. ASSUME NEW a \in 1..m, i = k + a, j \in 1..k PROVE FALSE
    BY <1>1, <2>1, <2>5
  <2> QED BY <1>5, <2>2, <2>3, <2>4, <2>5
<1> QED BY <1>3, <1>6, <1>7, <1>8, <1>9

\* An empty list of deltas is in order with any other.
LEMMA NothingInOrder ==
  /\ Ascending(<<>>) /\ (\A n : UpTo(<<>>, n)) /\ (\A d : ~Holds(<<>>, d))
  /\ \A s : Before(<<>>, s) /\ Before(s, <<>>)
<1>1. DOMAIN <<>> = {}
  OBVIOUS
<1> QED BY <1>1 DEF Ascending, UpTo, Holds, Before

-----------------------------------------------------------------------------
\* The batch of a turn is chained, the batches an event has yet to flush are those
\* of S.
WithBatch(q, u, waiter, buf) == Append(q, Batch(u, waiter, buf[u]))
Emptied(buf, u) == [buf EXCEPT ![u] = <<>>]
Stored(sto, q) == [sto EXCEPT ![Head(q).turn] = @ \o Head(q).deltas]
RestWith(rst, e, S) == [rst EXCEPT ![e.turn][e.kind] = S]

\* The first operation leaves the queue.
LEMMA DropKeeps ==
  ASSUME NEW q \in Seq(Operations), q # <<>>, NEW buf, NEW sto, NEW snt, NEW lf, NEW rst
  PROVE  /\ Pieces(q, buf, sto, snt) => Pieces(Tail(q), buf, sto, snt)
         /\ Waiters(q, buf, lf, rst) => Waiters(Tail(q), buf, lf, rst)
         /\ EndsLast(q, buf, lf) => EndsLast(Tail(q), buf, lf)
         /\ NoDeltas(q) => NoDeltas(Tail(q))
<1>1. /\ \A i \in DOMAIN Tail(q) : i + 1 \in DOMAIN q /\ Tail(q)[i] = q[i + 1]
      /\ \A i, j \in DOMAIN Tail(q) : i < j => i + 1 < j + 1
  BY HeadGone
<1>2. ASSUME NEW i \in DOMAIN Tail(q), NEW j \in DOMAIN Tail(q), j > i
      PROVE  j + 1 > i + 1
  BY <1>1, <1>2
<1>3. ASSUME Pieces(q, buf, sto, snt) PROVE Pieces(Tail(q), buf, sto, snt)
  BY <1>1, <1>3 DEF Pieces
<1>4. ASSUME Waiters(q, buf, lf, rst) PROVE Waiters(Tail(q), buf, lf, rst)
  BY <1>1, <1>4 DEF Waiters
<1>5. ASSUME EndsLast(q, buf, lf) PROVE EndsLast(Tail(q), buf, lf)
  BY <1>1, <1>2, <1>5 DEF EndsLast
<1>6. ASSUME NoDeltas(q) PROVE NoDeltas(Tail(q))
  BY <1>1, <1>6 DEF NoDeltas
<1> QED BY <1>3, <1>4, <1>5, <1>6

\* The deltas of the first operation enter the log.
LEMMA StoredKeeps ==
  ASSUME NEW q \in Seq(Operations), q # <<>>, NEW buf \in Lists, NEW sto \in Lists,
         NEW snt \in Counts, Pieces(q, buf, sto, snt)
  PROVE  /\ Stored(sto, q) \in Lists /\ Pieces(Tail(q), buf, Stored(sto, q), snt)
         /\ \A u \in Turns : Complete(q, buf, sto, snt, u)
                               => Complete(Tail(q), buf, Stored(sto, q), snt, u)
<1>12. PICK sto2 : sto2 = Stored(sto, q)
  OBVIOUS
<1>1. PICK x \in Turns : x = Head(q).turn
  BY HeadGone DEF Operations
<1>2. PICK new \in Seq(1..MaxDeltas) : new = Head(q).deltas
  BY HeadGone DEF Operations
<1>3. /\ Head(q) = q[1] /\ 1 \in DOMAIN q
      /\ \A i \in DOMAIN Tail(q) : i + 1 \in DOMAIN q /\ Tail(q)[i] = q[i + 1] /\ 1 < i + 1
      /\ \A i \in DOMAIN q : i # 1 => i - 1 \in DOMAIN Tail(q) /\ Tail(q)[i - 1] = q[i]
  BY HeadGone
<1>4. sto[x] \in Seq(1..MaxDeltas) /\ snt[x] \in Nat
  BY DEF Lists, Counts
<1>5. /\ sto[x] \o new \in Seq(1..MaxDeltas)
      /\ Ascending(sto[x]) /\ Ascending(new) /\ Before(sto[x], new)
            => Ascending(sto[x] \o new)
      /\ UpTo(sto[x], snt[x]) /\ UpTo(new, snt[x]) => UpTo(sto[x] \o new, snt[x])
      /\ \A r : Before(sto[x], r) /\ Before(new, r) => Before(sto[x] \o new, r)
      /\ \A d : Holds(sto[x], d) \/ Holds(new, d) => Holds(sto[x] \o new, d)
  BY <1>4, ListsJoined
<1>6. /\ sto2 \in Lists /\ sto2[x] = sto[x] \o new
      /\ \A u \in Turns : u # x => sto2[u] = sto[u]
  BY <1>1, <1>2, <1>5, <1>12 DEF Lists, Stored
<1>7. Pieces(Tail(q), buf, sto, snt)
  BY DropKeeps
<1>8. /\ Ascending(sto[x]) /\ UpTo(sto[x], snt[x]) /\ Before(sto[x], buf[x])
      /\ Ascending(new) /\ UpTo(new, snt[x])
      /\ Before(sto[x], new) /\ Before(new, buf[x])
  BY <1>1, <1>2, <1>3 DEF Pieces
<1>9. \A i \in DOMAIN Tail(q) : Tail(q)[i].turn = x => Before(new, Tail(q)[i].deltas)
  BY <1>1, <1>2, <1>3 DEF Pieces
<1>10. Pieces(Tail(q), buf, sto2, snt)
  <2>1. ASSUME NEW u \in Turns
        PROVE  /\ Ascending(sto2[u]) /\ Ascending(buf[u]) /\ Before(sto2[u], buf[u])
               /\ UpTo(sto2[u], snt[u]) /\ UpTo(buf[u], snt[u])
               /\ \A i \in DOMAIN Tail(q) :
                    Tail(q)[i].turn = u => Before(sto2[u], Tail(q)[i].deltas)
    <3>1. CASE u = x
      BY <1>5, <1>6, <1>7, <1>8, <1>9, <3>1 DEF Pieces
    <3>2. CASE u # x
      BY <1>6, <1>7, <3>2 DEF Pieces
    <3> QED BY <3>1, <3>2
  <2> QED BY <1>7, <2>1 DEF Pieces
<1>11. ASSUME NEW u \in Turns, Complete(q, buf, sto, snt, u)
       PROVE  Complete(Tail(q), buf, sto2, snt, u)
  <2>1. SUFFICES ASSUME NEW d \in 1..snt[u]
                 PROVE  \/ Holds(sto2[u], d)
                        \/ \E i \in DOMAIN Tail(q) :
                             Tail(q)[i].turn = u /\ Holds(Tail(q)[i].deltas, d)
                        \/ Holds(buf[u], d)
    BY DEF Complete
  <2>2. CASE Holds(sto[u], d)
    BY <1>5, <1>6, <2>2
  <2>3. ASSUME NEW i \in DOMAIN q, q[i].turn = u, Holds(q[i].deltas, d)
        PROVE  \/ Holds(sto2[u], d)
               \/ \E j \in DOMAIN Tail(q) :
                    Tail(q)[j].turn = u /\ Holds(Tail(q)[j].deltas, d)
    <3>1. CASE i = 1
      BY <1>1, <1>2, <1>3, <1>5, <1>6, <2>3, <3>1
    <3>2. CASE i # 1
      BY <1>3, <2>3, <3>2
    <3> QED BY <3>1, <3>2
  <2>4. CASE Holds(buf[u], d)
    BY <2>4
  <2> QED BY <1>11, <2>2, <2>3, <2>4 DEF Complete
<1> QED BY <1>6, <1>10, <1>11, <1>12

\* The open batch of a turn is chained, for an event that awaits it or for none.
LEMMA BatchKeeps ==
  ASSUME NEW q \in Seq(Operations), NEW buf \in Lists, NEW sto \in Lists,
         NEW snt \in Counts, NEW x \in Turns, NEW w \in Events \cup {NoEvent},
         Pieces(q, buf, sto, snt)
  PROVE  /\ WithBatch(q, x, w, buf) \in Seq(Operations) /\ Emptied(buf, x) \in Lists
         /\ Pieces(WithBatch(q, x, w, buf), Emptied(buf, x), sto, snt)
         /\ \A u \in Turns :
              Complete(q, buf, sto, snt, u)
                => Complete(WithBatch(q, x, w, buf), Emptied(buf, x), sto, snt, u)
<1>11. PICK r : r = WithBatch(q, x, w, buf)
  OBVIOUS
<1>12. PICK buf2 : buf2 = Emptied(buf, x)
  OBVIOUS
<1>1. PICK op : op = Batch(x, w, buf[x])
  OBVIOUS
<1>2. /\ op \in Operations /\ op.turn = x /\ op.deltas = buf[x]
  BY <1>1 DEF Batch, Operations, Lists
<1>3. PICK n : n = Len(q) + 1
  OBVIOUS
<1>4. /\ r \in Seq(Operations) /\ n \in DOMAIN r /\ r[n] = op
      /\ \A i \in DOMAIN q : i \in DOMAIN r /\ r[i] = q[i] /\ i < n /\ ~(n < i)
      /\ \A i \in DOMAIN r : i \in DOMAIN q \/ i = n
      /\ ~(n < n)
  BY <1>1, <1>2, <1>3, <1>11, OneChained DEF WithBatch
<1>5. /\ buf2 \in Lists /\ buf2[x] = <<>> /\ \A u \in Turns : u # x => buf2[u] = buf[u]
  BY <1>12 DEF Lists, Emptied
<1>6. ASSUME NEW u \in Turns
      PROVE  /\ Ascending(sto[u]) /\ Ascending(buf2[u]) /\ Before(sto[u], buf2[u])
             /\ UpTo(sto[u], snt[u]) /\ UpTo(buf2[u], snt[u])
  BY <1>5, NothingInOrder DEF Pieces
<1>7. ASSUME NEW u \in Turns, NEW i \in DOMAIN r, r[i].turn = u
      PROVE  /\ Ascending(r[i].deltas) /\ UpTo(r[i].deltas, snt[u])
             /\ Before(sto[u], r[i].deltas) /\ Before(r[i].deltas, buf2[u])
  <2>1. CASE i \in DOMAIN q
    BY <1>4, <1>5, <1>7, <2>1, NothingInOrder DEF Pieces
  <2>2. CASE i = n
    BY <1>2, <1>4, <1>5, <1>7, <2>2, NothingInOrder DEF Pieces
  <2> QED BY <1>4, <2>1, <2>2
<1>8. ASSUME NEW u \in Turns, NEW i \in DOMAIN r, NEW j \in DOMAIN r,
             r[i].turn = u, r[j].turn = u, i < j
      PROVE  Before(r[i].deltas, r[j].deltas)
  <2>1. i \in DOMAIN q
    BY <1>4, <1>8
  <2>2. CASE j \in DOMAIN q
    BY <1>4, <1>8, <2>1, <2>2 DEF Pieces
  <2>3. CASE j = n
    BY <1>2, <1>4, <1>8, <2>1, <2>3 DEF Pieces
  <2> QED BY <1>4, <2>2, <2>3
<1>9. Pieces(r, buf2, sto, snt)
  BY <1>6, <1>7, <1>8 DEF Pieces
<1>10. ASSUME NEW u \in Turns, Complete(q, buf, sto, snt, u)
       PROVE  Complete(r, buf2, sto, snt, u)
  BY <1>2, <1>4, <1>5, <1>10 DEF Complete
<1> QED BY <1>4, <1>5, <1>9, <1>10, <1>11, <1>12

\* An event is chained: it brings no delta.
LEMMA OwnKeeps ==
  ASSUME NEW q \in Seq(Operations), NEW buf, NEW sto, NEW snt, NEW e \in Events,
         NEW r, r = Append(q, Own(e))
  PROVE  /\ r \in Seq(Operations)
         /\ Pieces(q, buf, sto, snt) => Pieces(r, buf, sto, snt)
         /\ \A u \in Turns : Complete(q, buf, sto, snt, u) => Complete(r, buf, sto, snt, u)
<1>1. PICK op : op = Own(e)
  OBVIOUS
<1>2. /\ op \in Operations /\ op.deltas = <<>>
  BY <1>1 DEF Own, Operations, Events
<1>3. PICK n : n = Len(q) + 1
  OBVIOUS
<1>4. /\ r \in Seq(Operations) /\ n \in DOMAIN r /\ r[n] = op
      /\ \A i \in DOMAIN q : i \in DOMAIN r /\ r[i] = q[i]
      /\ \A i \in DOMAIN r : i \in DOMAIN q \/ i = n
  BY <1>1, <1>2, <1>3, OneChained
<1>5. ASSUME Pieces(q, buf, sto, snt) PROVE Pieces(r, buf, sto, snt)
  BY <1>2, <1>4, <1>5, NothingInOrder DEF Pieces
<1>6. ASSUME NEW u \in Turns, Complete(q, buf, sto, snt, u)
      PROVE  Complete(r, buf, sto, snt, u)
  BY <1>2, <1>4, <1>6 DEF Complete
<1> QED BY <1>4, <1>5, <1>6

-----------------------------------------------------------------------------
\* The open batch of a turn is chained behind no end of the turn, as a turn with
\* an end in the queue has no open batch.
LEMMA BatchSound ==
  ASSUME NEW q, NEW buf, NEW sto, NEW snt, NEW lf, NEW rst,
         Sound(q, buf, sto, snt, lf, rst),
         NEW x \in Turns, buf[x] # <<>>
  PROVE  /\ Sound(WithBatch(q, x, NoEvent, buf), Emptied(buf, x), sto, snt, lf, rst)
         /\ \A u \in Turns :
              Complete(q, buf, sto, snt, u)
                => Complete(WithBatch(q, x, NoEvent, buf), Emptied(buf, x), sto, snt, u)
<1>11. PICK r : r = WithBatch(q, x, NoEvent, buf)
  OBVIOUS
<1>12. PICK buf2 : buf2 = Emptied(buf, x)
  OBVIOUS
<1>1. /\ q \in Seq(Operations) /\ buf \in Lists /\ sto \in Lists /\ snt \in Counts
      /\ Pieces(q, buf, sto, snt) /\ Waiters(q, buf, lf, rst) /\ EndsLast(q, buf, lf)
      /\ NoDeltas(q) /\ lf \in Lives /\ rst \in ToFlush
  BY DEF Sound
<1>2. PICK op : op = Batch(x, NoEvent, buf[x])
  OBVIOUS
<1>3. /\ op \in Operations /\ op.turn = x /\ op.kind = "deltas" /\ op.waiter = NoEvent
  BY <1>1, <1>2 DEF Batch, Operations, Lists
<1>4. PICK n : n = Len(q) + 1
  OBVIOUS
<1>5. /\ r[n] = op /\ n \in DOMAIN r
      /\ \A i \in DOMAIN q : i \in DOMAIN r /\ r[i] = q[i]
      /\ \A i \in DOMAIN r : i \in DOMAIN q \/ i = n
  BY <1>1, <1>2, <1>3, <1>4, <1>11, OneChained DEF WithBatch
<1>6. /\ r \in Seq(Operations) /\ buf2 \in Lists /\ Pieces(r, buf2, sto, snt)
      /\ \A u \in Turns : Complete(q, buf, sto, snt, u) => Complete(r, buf2, sto, snt, u)
  <2>1. NoEvent \in Events \cup {NoEvent}
    OBVIOUS
  <2>2. /\ q \in Seq(Operations) /\ buf \in Lists /\ sto \in Lists /\ snt \in Counts
        /\ Pieces(q, buf, sto, snt)
    BY <1>1
  <2> QED BY <1>11, <1>12, <2>1, <2>2, BatchKeeps
<1>7. /\ buf2[x] = <<>> /\ \A u \in Turns : u # x => buf2[u] = buf[u]
  BY <1>1, <1>12 DEF Lists, Emptied
<1>8. NoDeltas(r)
  BY <1>1, <1>3, <1>5 DEF NoDeltas, Lifecycle
<1>9. Waiters(r, buf2, lf, rst)
  <2>1. ASSUME NEW i \in DOMAIN r, r[i].waiter # NoEvent
        PROVE  i \in DOMAIN q /\ r[i] = q[i]
    BY <1>3, <1>5, <2>1
  <2>2. \A e \in Events : e.turn \in Turns
    BY DEF Events
  <2>3. ASSUME NEW i \in DOMAIN r, r[i].waiter # NoEvent
        PROVE  /\ r[i].waiter \in Events
               /\ lf[r[i].waiter.turn] # "new"
               /\ r[i].waiter.kind \in Ends =>
                    /\ lf[r[i].waiter.turn] = "over"
                    /\ buf2[r[i].waiter.turn] # <<>> =>
                         r[i].waiter.turn \in rst[r[i].waiter.turn][r[i].waiter.kind]
    BY <1>1, <1>7, <2>1, <2>2, <2>3 DEF Waiters
  <2>4. ASSUME NEW i \in DOMAIN r, NEW j \in DOMAIN r, i < j, r[i].waiter # NoEvent
        PROVE  r[i].waiter # r[j].waiter
    BY <1>1, <1>3, <1>5, <2>1, <2>4 DEF Waiters
  <2> QED BY <2>3, <2>4 DEF Waiters
<1>10. EndsLast(r, buf2, lf)
  <2>1. ASSUME NEW i \in DOMAIN r, r[i].kind \in Ends
        PROVE  /\ i \in DOMAIN q /\ r[i] = q[i] /\ r[i].turn \in Turns /\ r[i].turn # x
               /\ lf[r[i].turn] = "over" /\ buf2[r[i].turn] = <<>>
    <3>1. i \in DOMAIN q /\ r[i] = q[i]
      BY <1>3, <1>5, <2>1 DEF Ends
    <3>2. q[i].turn \in Turns
      <4>1. q[i] \in Operations
        BY <1>1, <3>1
      <4> QED BY <4>1 DEF Operations
    <3>3. lf[q[i].turn] = "over" /\ buf[q[i].turn] = <<>>
      BY <1>1, <2>1, <3>1 DEF EndsLast
    <3> QED BY <1>7, <3>1, <3>2, <3>3
  <2>2. ASSUME NEW i \in DOMAIN r, r[i].kind \in Ends, NEW j \in DOMAIN r, j > i
        PROVE  ~(r[j].kind = "deltas" /\ r[j].turn = r[i].turn)
    BY <1>1, <1>3, <1>5, <2>1, <2>2 DEF EndsLast
  <2> QED BY <2>1, <2>2 DEF EndsLast
<1> QED BY <1>1, <1>6, <1>8, <1>9, <1>10, <1>11, <1>12 DEF Sound

\* The batches one event has yet to flush.
LEMMA RestSet ==
  ASSUME NEW rst \in ToFlush, NEW e \in Events, NEW S \in SUBSET Turns
  PROVE  /\ RestWith(rst, e, S) \in ToFlush /\ RestWith(rst, e, S)[e.turn][e.kind] = S
         /\ \A d \in Events :
              d # e => RestWith(rst, e, S)[d.turn][d.kind] = rst[d.turn][d.kind]
<1>1. PICK x \in Turns : x = e.turn
  BY DEF Events
<1>2. PICK k \in Lifecycle : k = e.kind
  BY DEF Events
<1>3. rst[x] \in [Lifecycle -> SUBSET Turns]
  BY <1>1 DEF ToFlush
<1>4. PICK row : row = [rst[x] EXCEPT ![k] = S]
  OBVIOUS
<1>5. /\ row \in [Lifecycle -> SUBSET Turns]
      /\ row[k] = S /\ \A l \in Lifecycle : l # k => row[l] = rst[x][l]
  BY <1>2, <1>3, <1>4
<1>6. PICK rst2 : rst2 = [rst EXCEPT ![x] = row]
  OBVIOUS
<1>7. RestWith(rst, e, S) = rst2
  BY <1>1, <1>2, <1>4, <1>6 DEF RestWith
<1>8. rst2 \in ToFlush /\ rst2[x] = row /\ \A y \in Turns : y # x => rst2[y] = rst[y]
  BY <1>1, <1>5, <1>6 DEF ToFlush
<1>9. ASSUME NEW d \in Events, d # e PROVE rst2[d.turn][d.kind] = rst[d.turn][d.kind]
  <2>1. /\ d = [kind |-> d.kind, turn |-> d.turn] /\ d.turn \in Turns /\ d.kind \in Lifecycle
        /\ e = [kind |-> k, turn |-> x]
    BY <1>1, <1>2 DEF Events
  <2>2. d.turn # x \/ d.kind # k
    BY <1>9, <2>1
  <2> QED BY <1>5, <1>8, <2>1, <2>2
<1> QED BY <1>1, <1>2, <1>5, <1>7, <1>8, <1>9

\* The loop of flushAssistantDeltas, for an event no batch in the queue has a
\* waiter of, which if it is an end still visits what its turn has open.
LEMMA FlushSound ==
  ASSUME NEW q, NEW sto, NEW snt, NEW lf, Sound(q, buffered, sto, snt, lf, rest),
         NEW e \in Events, NEW keys \in SUBSET Turns, FlushThenEnqueue(e, keys, q),
         lf[e.turn] # "new",
         e.kind \in Ends =>
           lf[e.turn] = "over" /\ (buffered[e.turn] # <<>> => e.turn \in keys),
         \A i \in DOMAIN q : q[i].waiter # e
  PROVE  /\ Sound(queue', buffered', sto, snt, lf, rest')
         /\ \A u \in Turns :
              Complete(q, buffered, sto, snt, u) => Complete(queue', buffered', sto, snt, u)
<1>1. /\ q \in Seq(Operations) /\ buffered \in Lists /\ sto \in Lists /\ snt \in Counts
      /\ lf \in Lives /\ rest \in ToFlush
      /\ Pieces(q, buffered, sto, snt) /\ Waiters(q, buffered, lf, rest)
      /\ EndsLast(q, buffered, lf) /\ NoDeltas(q)
      /\ e.turn \in Turns /\ e.kind \in Lifecycle
      /\ \A d \in Events : d.turn \in Turns /\ d.kind \in Lifecycle
  BY DEF Sound, Events
<1> DEFINE open == {u \in keys : buffered[u] # <<>>}
<1>2. PICK n : n = Len(q) + 1
  OBVIOUS
<1>3. ASSUME open = {}, queue' = Append(q, Own(e)), UNCHANGED buffered,
             rest' = [rest EXCEPT ![e.turn][e.kind] = {}]
      PROVE  /\ Sound(queue', buffered', sto, snt, lf, rest')
             /\ \A u \in Turns :
                  Complete(q, buffered, sto, snt, u) => Complete(queue', buffered', sto, snt, u)
  <2>1. PICK r : r = Append(q, Own(e))
    OBVIOUS
  <2>2. PICK op : op = Own(e)
    OBVIOUS
  <2>3. /\ op \in Operations /\ op.turn = e.turn /\ op.kind = e.kind /\ op.waiter = NoEvent
        /\ op.kind # "deltas" /\ op.deltas = <<>>
    BY <1>1, <2>2 DEF Own, Operations, Lifecycle
  <2>4. /\ r[n] = op /\ n \in DOMAIN r
        /\ \A i \in DOMAIN q : i \in DOMAIN r /\ r[i] = q[i] /\ i < n /\ ~(n < i)
        /\ \A i \in DOMAIN r : i \in DOMAIN q \/ i = n
    BY <1>1, <1>2, <2>1, <2>2, <2>3, OneChained
  <2>5. /\ r \in Seq(Operations) /\ Pieces(r, buffered, sto, snt)
        /\ \A u \in Turns : Complete(q, buffered, sto, snt, u) => Complete(r, buffered, sto, snt, u)
    BY <1>1, <2>1, OwnKeeps
  <2>6. /\ rest' \in ToFlush
        /\ \A d \in Events : d # e => rest'[d.turn][d.kind] = rest[d.turn][d.kind]
    <3>1. rest \in ToFlush /\ rest' = RestWith(rest, e, {})
      BY <1>1, <1>3 DEF RestWith
    <3> QED BY <3>1, {} \in SUBSET Turns, RestSet
  <2>7. Waiters(r, buffered, lf, rest')
    <3>1. ASSUME NEW i \in DOMAIN r, r[i].waiter # NoEvent
          PROVE  i \in DOMAIN q /\ r[i] = q[i] /\ r[i].waiter # e
      BY <2>3, <2>4, <3>1
    <3>2. ASSUME NEW i \in DOMAIN r, r[i].waiter # NoEvent
          PROVE  /\ r[i].waiter \in Events
                 /\ lf[r[i].waiter.turn] # "new"
                 /\ r[i].waiter.kind \in Ends =>
                      /\ lf[r[i].waiter.turn] = "over"
                      /\ buffered[r[i].waiter.turn] # <<>> =>
                           r[i].waiter.turn \in rest'[r[i].waiter.turn][r[i].waiter.kind]
      BY <1>1, <2>6, <3>1, <3>2 DEF Waiters
    <3>3. ASSUME NEW i \in DOMAIN r, NEW j \in DOMAIN r, i < j, r[i].waiter # NoEvent
          PROVE  r[i].waiter # r[j].waiter
      BY <1>1, <2>3, <2>4, <3>1, <3>3 DEF Waiters
    <3> QED BY <3>2, <3>3 DEF Waiters
  <2>8. EndsLast(r, buffered, lf)
    <3>1. ASSUME NEW i \in DOMAIN r, r[i].kind \in Ends
          PROVE  lf[r[i].turn] = "over" /\ buffered[r[i].turn] = <<>>
      <4>1. CASE i \in DOMAIN q
        BY <1>1, <2>4, <3>1, <4>1 DEF EndsLast
      <4>2. CASE i = n
        BY <1>3, <2>3, <2>4, <3>1, <4>2
      <4> QED BY <2>4, <4>1, <4>2
    <3>2. ASSUME NEW i \in DOMAIN r, r[i].kind \in Ends, NEW j \in DOMAIN r, j > i
          PROVE  ~(r[j].kind = "deltas" /\ r[j].turn = r[i].turn)
      <4>1. CASE j = n
        BY <2>3, <2>4, <4>1
      <4>2. CASE j \in DOMAIN q /\ i \in DOMAIN q
        BY <1>1, <2>4, <3>2, <4>2 DEF EndsLast
      <4>3. CASE j \in DOMAIN q /\ i = n
        BY <1>1, <1>2, <2>4, <3>2, <4>3
      <4> QED BY <2>4, <4>1, <4>2, <4>3
    <3> QED BY <3>1, <3>2 DEF EndsLast
  <2>9. NoDeltas(r)
    BY <1>1, <2>3, <2>4 DEF NoDeltas
  <2> QED BY <1>1, <1>3, <2>1, <2>5, <2>6, <2>7, <2>8, <2>9 DEF Sound
<1>4. ASSUME NEW x \in open, queue' = Append(q, Batch(x, e, buffered[x])),
             buffered' = [buffered EXCEPT ![x] = <<>>],
             rest' = [rest EXCEPT ![e.turn][e.kind] = open \ {x}]
      PROVE  /\ Sound(queue', buffered', sto, snt, lf, rest')
             /\ \A u \in Turns :
                  Complete(q, buffered, sto, snt, u) => Complete(queue', buffered', sto, snt, u)
  <2>1. PICK r : r = WithBatch(q, x, e, buffered)
    OBVIOUS
  <2>2. PICK op : op = Batch(x, e, buffered[x])
    OBVIOUS
  <2>3. /\ op \in Operations /\ op.turn = x /\ op.kind = "deltas" /\ op.waiter = e
        /\ x \in Turns /\ buffered[x] # <<>>
    BY <1>1, <2>2 DEF Batch, Operations, Lists
  <2>4. /\ r[n] = op /\ n \in DOMAIN r
        /\ \A i \in DOMAIN q : i \in DOMAIN r /\ r[i] = q[i] /\ i < n /\ ~(n < i)
        /\ \A i \in DOMAIN r : i \in DOMAIN q \/ i = n
        /\ ~(n < n)
    BY <1>1, <1>2, <2>1, <2>2, <2>3, OneChained DEF WithBatch
  <2>5. PICK buf2 : buf2 = Emptied(buffered, x)
    OBVIOUS
  <2>6. /\ r \in Seq(Operations) /\ buf2 \in Lists /\ Pieces(r, buf2, sto, snt)
        /\ \A u \in Turns : Complete(q, buffered, sto, snt, u) => Complete(r, buf2, sto, snt, u)
    <3>1. e \in Events \cup {NoEvent} /\ x \in Turns
      BY <2>3
    <3>2. /\ q \in Seq(Operations) /\ buffered \in Lists /\ sto \in Lists /\ snt \in Counts
          /\ Pieces(q, buffered, sto, snt)
      BY <1>1
    <3> QED BY <2>1, <2>5, <3>1, <3>2, BatchKeeps
  <2>7. /\ buf2[x] = <<>> /\ \A u \in Turns : u # x => buf2[u] = buffered[u]
    BY <1>1, <2>3, <2>5 DEF Lists, Emptied
  <2>8. NoDeltas(r)
    BY <1>1, <2>3, <2>4 DEF NoDeltas, Lifecycle
  <2>9. /\ rest' \in ToFlush
        /\ rest'[e.turn][e.kind] = open \ {x}
        /\ \A d \in Events : d # e => rest'[d.turn][d.kind] = rest[d.turn][d.kind]
    <3>1. open \ {x} \in SUBSET Turns
      OBVIOUS
    <3> HIDE DEF open
    <3>2. rest \in ToFlush /\ rest' = RestWith(rest, e, open \ {x})
      BY <1>1, <1>4 DEF RestWith
    <3> QED BY <3>1, <3>2, RestSet
  <2>10. Waiters(r, buf2, lf, rest')
    <3>1. ASSUME NEW i \in DOMAIN q, q[i].waiter # NoEvent
          PROVE  /\ q[i].waiter \in Events
                 /\ lf[q[i].waiter.turn] # "new"
                 /\ q[i].waiter.kind \in Ends =>
                      /\ lf[q[i].waiter.turn] = "over"
                      /\ buf2[q[i].waiter.turn] # <<>> =>
                           q[i].waiter.turn \in rest'[q[i].waiter.turn][q[i].waiter.kind]
      BY <1>1, <2>7, <2>9, <3>1 DEF Waiters
    <3>2. /\ e \in Events /\ lf[e.turn] # "new"
          /\ e.kind \in Ends =>
               lf[e.turn] = "over" /\ (buf2[e.turn] # <<>> => e.turn \in rest'[e.turn][e.kind])
      BY <1>1, <2>7, <2>9
    <3>3. ASSUME NEW i \in DOMAIN r, NEW j \in DOMAIN r, i < j, r[i].waiter # NoEvent
          PROVE  r[i].waiter # r[j].waiter
      <4>1. i \in DOMAIN q
        BY <2>4, <3>3
      <4>2. CASE j \in DOMAIN q
        BY <1>1, <2>4, <3>3, <4>1, <4>2 DEF Waiters
      <4>3. CASE j = n
        BY <2>3, <2>4, <4>1, <4>3
      <4> QED BY <2>4, <4>2, <4>3
    <3>4. ASSUME NEW i \in DOMAIN r
          PROVE  (i \in DOMAIN q /\ r[i] = q[i]) \/ r[i].waiter = e
      BY <2>3, <2>4
    <3>5. ASSUME NEW i \in DOMAIN r, r[i].waiter # NoEvent
          PROVE  /\ r[i].waiter \in Events
                 /\ lf[r[i].waiter.turn] # "new"
                 /\ r[i].waiter.kind \in Ends =>
                      /\ lf[r[i].waiter.turn] = "over"
                      /\ buf2[r[i].waiter.turn] # <<>> =>
                           r[i].waiter.turn \in rest'[r[i].waiter.turn][r[i].waiter.kind]
      BY <3>1, <3>2, <3>4, <3>5
    <3> QED BY <3>3, <3>5 DEF Waiters
  <2>11. EndsLast(r, buf2, lf)
    <3>1. ASSUME NEW i \in DOMAIN r, r[i].kind \in Ends
          PROVE  /\ i \in DOMAIN q /\ r[i] = q[i] /\ r[i].turn # x
                 /\ lf[r[i].turn] = "over" /\ buf2[r[i].turn] = <<>>
      <4>1. i \in DOMAIN q /\ r[i] = q[i]
        BY <2>3, <2>4, <3>1 DEF Ends
      <4>2. q[i].turn \in Turns
        <5>1. q[i] \in Operations
          BY <1>1, <4>1
        <5> QED BY <5>1 DEF Operations
      <4>3. lf[q[i].turn] = "over" /\ buffered[q[i].turn] = <<>>
        BY <1>1, <3>1, <4>1 DEF EndsLast
      <4> QED BY <2>3, <2>7, <4>1, <4>2, <4>3
    <3>2. ASSUME NEW i \in DOMAIN r, r[i].kind \in Ends, NEW j \in DOMAIN r, j > i
          PROVE  ~(r[j].kind = "deltas" /\ r[j].turn = r[i].turn)
      BY <1>1, <2>3, <2>4, <3>1, <3>2 DEF EndsLast
    <3> QED BY <3>1, <3>2 DEF EndsLast
  <2>12. queue' = r /\ buffered' = buf2
    BY <1>4, <2>1, <2>5 DEF WithBatch, Emptied
  <2> QED BY <1>1, <2>6, <2>8, <2>9, <2>10, <2>11, <2>12 DEF Sound
<1> QED BY <1>3, <1>4 DEF FlushThenEnqueue

-----------------------------------------------------------------------------
\* The batches a flush chains are shortened to nothing.
LEMMA FlushShort ==
  ASSUME NEW q, NEW e \in Events, NEW keys \in SUBSET Turns, buffered \in Lists,
         FlushThenEnqueue(e, keys, q), Short(buffered)
  PROVE  Short(buffered')
<1>1. Len(<<>>) = 0 /\ 0 < BatchSize
  BY ProjectionAssumption
<1>2. ASSUME NEW x \in Turns, buffered' = [buffered EXCEPT ![x] = <<>>], NEW u \in Turns
      PROVE  buffered'[u] = <<>> \/ buffered'[u] = buffered[u]
  BY <1>2 DEF Lists
<1>3. CASE UNCHANGED buffered
  BY <1>3 DEF Short
<1>4. ASSUME NEW x \in Turns, buffered' = [buffered EXCEPT ![x] = <<>>]
      PROVE  Short(buffered')
  BY <1>1, <1>2, <1>4 DEF Short
<1> QED BY <1>3, <1>4 DEF FlushThenEnqueue

\* A turn begins or is over.
LEMMA LifeSound ==
  ASSUME NEW q, NEW buf, NEW sto, NEW snt, NEW lf, NEW rst, NEW lf2 \in Lives,
         Sound(q, buf, sto, snt, lf, rst),
         \A u \in Turns : /\ lf[u] # "new" => lf2[u] # "new"
                          /\ lf[u] = "over" => lf2[u] = "over"
  PROVE  Sound(q, buf, sto, snt, lf2, rst)
<1>1. q \in Seq(Operations) /\ Waiters(q, buf, lf, rst) /\ EndsLast(q, buf, lf)
  BY DEF Sound
<1>2. \A i \in DOMAIN q : q[i].turn \in Turns /\ q[i].waiter \in Events \cup {NoEvent}
  <2>1. \A i \in DOMAIN q : q[i] \in Operations
    BY <1>1
  <2> QED BY <2>1 DEF Operations
<1>3. \A e \in Events : e.turn \in Turns
  BY DEF Events
<1>4. Waiters(q, buf, lf2, rst)
  BY <1>1, <1>2, <1>3 DEF Waiters
<1>5. EndsLast(q, buf, lf2)
  BY <1>1, <1>2 DEF EndsLast
<1> QED BY <1>4, <1>5 DEF Sound

\* The turn u streams one more delta.
Counted(snt, u) == [snt EXCEPT ![u] = @ + 1]
Grown(buf, snt, u) == [buf EXCEPT ![u] = Append(@, snt[u] + 1)]

\* A delta later than those of a list, behind them.
LEMMA DeltaBehind ==
  ASSUME NEW s \in Seq(1..MaxDeltas), NEW n \in 0..MaxDeltas, n < MaxDeltas, UpTo(s, n)
  PROVE  /\ Append(s, n + 1) \in Seq(1..MaxDeltas)
         /\ UpTo(Append(s, n + 1), n + 1) /\ Holds(Append(s, n + 1), n + 1)
         /\ Ascending(s) => Ascending(Append(s, n + 1))
         /\ \A d : Holds(s, d) => Holds(Append(s, n + 1), d)
         /\ \A t \in Seq(1..MaxDeltas) :
              Before(t, s) /\ UpTo(t, n) => Before(t, Append(s, n + 1)) /\ UpTo(t, n + 1)
         /\ Append(s, n + 1) # <<>> /\ Len(Append(s, n + 1)) = Len(s) + 1
<1>1. PICK k \in Nat : k = Len(s)
  OBVIOUS
<1>2. PICK r : r = Append(s, n + 1)
  OBVIOUS
<1>3. n + 1 \in 1..MaxDeltas /\ n < n + 1 /\ n \in Nat
  BY ProjectionAssumption
<1>4. /\ r \in Seq(1..MaxDeltas) /\ Len(r) = Len(s) + 1
      /\ DOMAIN r = 1..(k + 1) /\ DOMAIN s = 1..k /\ r[k + 1] = n + 1
      /\ \A i \in 1..k : r[i] = s[i]
  BY <1>1, <1>2, <1>3
<1>12. \A t \in Seq(1..MaxDeltas) : \A i \in DOMAIN t : t[i] \in 1..MaxDeltas
  <2>1. ASSUME NEW t \in Seq(1..MaxDeltas), NEW i \in DOMAIN t PROVE t[i] \in 1..MaxDeltas
    <3>1. i \in 1..Len(t)
      OBVIOUS
    <3> QED BY <3>1, ElementOfSeq
  <2> QED BY <2>1
<1>5. /\ k + 1 \in 1..(k + 1) /\ \A i \in 1..k : i \in 1..(k + 1) /\ ~(k + 1 < i)
      /\ \A i \in 1..(k + 1) : i \in 1..k \/ i = k + 1
      /\ ~(k + 1 < k + 1)
  BY <1>1
<1>6. \A i \in 1..k : r[i] <= n /\ r[i] < n + 1 /\ r[i] <= n + 1
  <2>1. \A m \in 1..MaxDeltas : m <= n => m < n + 1 /\ m <= n + 1
    BY <1>3
  <2> QED BY <1>4, <1>12, <2>1 DEF UpTo
<1>7. UpTo(r, n + 1)
  BY <1>3, <1>4, <1>5, <1>6 DEF UpTo
<1>8. Holds(r, n + 1) /\ \A d : Holds(s, d) => Holds(r, d)
  BY <1>4, <1>5 DEF Holds
<1>9. Ascending(s) => Ascending(r)
  BY <1>4, <1>5, <1>6 DEF Ascending
<1>10. ASSUME NEW t \in Seq(1..MaxDeltas), Before(t, s), UpTo(t, n)
       PROVE  Before(t, r) /\ UpTo(t, n + 1)
  <2>1. \A m \in 1..MaxDeltas : m <= n => m < n + 1 /\ m <= n + 1
    BY <1>3
  <2>2. \A i \in DOMAIN t : t[i] < n + 1 /\ t[i] <= n + 1
    BY <1>10, <1>12, <2>1 DEF UpTo
  <2> QED BY <1>4, <1>5, <1>10, <2>2 DEF Before, UpTo
<1>11. r # <<>>
  BY <1>4, <1>1
<1> QED BY <1>1, <1>2, <1>4, <1>7, <1>8, <1>9, <1>10, <1>11

\* The turn u, which is not over, streams a delta, which ends its open batch.
LEMMA DeltaSound ==
  ASSUME NEW q, NEW buf, NEW sto, NEW snt, NEW lf, NEW rst,
         Sound(q, buf, sto, snt, lf, rst),
         NEW x \in Turns, lf[x] # "over", snt[x] < MaxDeltas
  PROVE  /\ Sound(q, Grown(buf, snt, x), sto, Counted(snt, x), lf, rst)
         /\ \A u \in Turns :
              Complete(q, buf, sto, snt, u)
                => Complete(q, Grown(buf, snt, x), sto, Counted(snt, x), u)
         /\ Grown(buf, snt, x)[x] # <<>>
         /\ Len(Grown(buf, snt, x)[x]) = Len(buf[x]) + 1
         /\ \A u \in Turns : u # x => Grown(buf, snt, x)[u] = buf[u]
<1>1. PICK buf2 : buf2 = Grown(buf, snt, x)
  OBVIOUS
<1>2. PICK snt2 : snt2 = Counted(snt, x)
  OBVIOUS
<1>3. /\ q \in Seq(Operations) /\ buf \in Lists /\ sto \in Lists /\ snt \in Counts
      /\ lf \in Lives /\ rst \in ToFlush
      /\ Pieces(q, buf, sto, snt) /\ Waiters(q, buf, lf, rst) /\ EndsLast(q, buf, lf)
      /\ NoDeltas(q)
  BY DEF Sound
<1>4. PICK n \in 0..MaxDeltas : n = snt[x]
  BY <1>3 DEF Counts
<1>5. PICK s \in Seq(1..MaxDeltas) : s = buf[x]
  BY <1>3 DEF Lists
<1>6. PICK r : r = Append(s, n + 1)
  OBVIOUS
<1>7. UpTo(s, n) /\ Ascending(s) /\ n < MaxDeltas
  BY <1>3, <1>4, <1>5 DEF Pieces
<1>8. /\ r \in Seq(1..MaxDeltas) /\ UpTo(r, n + 1) /\ Holds(r, n + 1)
      /\ Ascending(r) /\ \A d : Holds(s, d) => Holds(r, d)
      /\ \A t \in Seq(1..MaxDeltas) : Before(t, s) /\ UpTo(t, n) => Before(t, r) /\ UpTo(t, n + 1)
      /\ r # <<>> /\ Len(r) = Len(s) + 1
  BY <1>6, <1>7, DeltaBehind
<1>9. /\ buf2 \in Lists /\ buf2[x] = r /\ \A u \in Turns : u # x => buf2[u] = buf[u]
  BY <1>1, <1>3, <1>4, <1>5, <1>6, <1>8 DEF Lists, Grown
<1>10. /\ snt2 \in Counts /\ snt2[x] = n + 1 /\ \A u \in Turns : u # x => snt2[u] = snt[u]
  <2>1. n + 1 \in 0..MaxDeltas
    BY <1>7, ProjectionAssumption
  <2> QED BY <1>2, <1>3, <1>4, <2>1 DEF Counts, Counted
<1>11. \A i \in DOMAIN q : /\ q[i].turn \in Turns /\ q[i].waiter \in Events \cup {NoEvent}
                           /\ q[i].deltas \in Seq(1..MaxDeltas)
  <2>1. \A i \in DOMAIN q : q[i] \in Operations
    BY <1>3
  <2> QED BY <2>1 DEF Operations
<1>12. Pieces(q, buf2, sto, snt2)
  <2>1. ASSUME NEW u \in Turns
        PROVE  /\ Ascending(sto[u]) /\ Ascending(buf2[u]) /\ Before(sto[u], buf2[u])
               /\ UpTo(sto[u], snt2[u]) /\ UpTo(buf2[u], snt2[u])
               /\ \A i \in DOMAIN q :
                    q[i].turn = u => UpTo(q[i].deltas, snt2[u]) /\ Before(q[i].deltas, buf2[u])
    <3>1. CASE u = x
      <4>1. sto[x] \in Seq(1..MaxDeltas)
        BY <1>3 DEF Lists
      <4>2. Ascending(sto[x]) /\ Before(sto[x], s) /\ UpTo(sto[x], n)
        BY <1>3, <1>4, <1>5 DEF Pieces
      <4>3. \A i \in DOMAIN q : q[i].turn = x => Before(q[i].deltas, s) /\ UpTo(q[i].deltas, n)
        BY <1>3, <1>4, <1>5 DEF Pieces
      <4>4. \A i \in DOMAIN q :
              q[i].turn = x => UpTo(q[i].deltas, n + 1) /\ Before(q[i].deltas, r)
        BY <1>8, <1>11, <4>3
      <4> QED BY <1>8, <1>9, <1>10, <3>1, <4>1, <4>2, <4>4
    <3>2. CASE u # x
      BY <1>3, <1>9, <1>10, <3>2 DEF Pieces
    <3> QED BY <3>1, <3>2
  <2> QED BY <1>3, <2>1 DEF Pieces
<1>13. \A e \in Events : e.turn \in Turns
  BY DEF Events
<1>14. Waiters(q, buf2, lf, rst)
  BY <1>3, <1>9, <1>11, <1>13 DEF Waiters
<1>15. EndsLast(q, buf2, lf)
  BY <1>3, <1>9, <1>11 DEF EndsLast
<1>16. ASSUME NEW u \in Turns, Complete(q, buf, sto, snt, u)
       PROVE  Complete(q, buf2, sto, snt2, u)
  <2>1. CASE u = x
    <3>1. SUFFICES ASSUME NEW d \in 1..(n + 1)
                   PROVE  \/ Holds(sto[x], d)
                          \/ \E i \in DOMAIN q : q[i].turn = x /\ Holds(q[i].deltas, d)
                          \/ Holds(buf2[x], d)
      BY <1>10, <2>1 DEF Complete
    <3>2. CASE d = n + 1
      BY <1>8, <1>9, <3>2
    <3>3. CASE d # n + 1
      <4>1. d \in 1..n
        BY <3>3
      <4>2. \/ Holds(sto[x], d)
            \/ \E i \in DOMAIN q : q[i].turn = x /\ Holds(q[i].deltas, d)
            \/ Holds(s, d)
        BY <1>4, <1>5, <1>16, <2>1, <4>1 DEF Complete
      <4> QED BY <1>8, <1>9, <4>2
    <3> QED BY <3>2, <3>3
  <2>2. CASE u # x
    BY <1>9, <1>10, <1>16, <2>2 DEF Complete
  <2> QED BY <2>1, <2>2
<1>17. Sound(q, buf2, sto, snt2, lf, rst)
  BY <1>3, <1>9, <1>10, <1>12, <1>14, <1>15 DEF Sound
<1> QED BY <1>1, <1>2, <1>5, <1>8, <1>9, <1>16, <1>17

-----------------------------------------------------------------------------
\* An event enters apply(), which flushes the batches of all turns first: a turn
\* begins, or one that runs ends.
LEMMA EventKeeps ==
  ASSUME ProjInv, NEW x \in Turns, NEW k \in Lifecycle,
         \/ k = "started" /\ life[x] = "new" /\ life' = [life EXCEPT ![x] = "running"]
         \/ k \in Ends /\ life[x] = "running" /\ life' = [life EXCEPT ![x] = "over"],
         FlushThenEnqueue([kind |-> k, turn |-> x], Turns, queue),
         UNCHANGED <<sent, step, task, interrupting, stored, faults>>
  PROVE  ProjInv'
<1>1. PICK e \in Events : e = [kind |-> k, turn |-> x]
  BY DEF Events
<1>2. e.turn = x /\ e.kind = k
  BY <1>1
<1>3. Sound(queue, buffered, stored, sent, life, rest) /\ Short(buffered) /\ TaskTypes
  BY DEF ProjInv
<1>4. life \in Lives /\ buffered \in Lists
  BY <1>3 DEF Sound
<1>5. PICK lf2 : lf2 = life'
  OBVIOUS
<1>7. \A u \in Turns : /\ life[u] # "new" => lf2[u] # "new"
                       /\ life[u] = "over" => lf2[u] = "over"
                       /\ lf2[u] = "new" => life[u] = "new"
                       /\ lf2[u] = "running" => life[u] = "running" \/ (u = x /\ life[u] = "new")
  BY <1>4, <1>5 DEF Lives, Ends
<1>8. lf2[x] # "new" /\ (k \in Ends => lf2[x] = "over")
  BY <1>4, <1>5 DEF Lives, Ends
<1>10. Sound(queue, buffered, stored, sent, lf2, rest)
  <2>1. lf2 \in Lives
    BY <1>4, <1>5 DEF Lives
  <2> QED BY <1>3, <1>7, <2>1, LifeSound
<1>11. \A i \in DOMAIN queue : queue[i].waiter # e
  <2>1. \A i \in DOMAIN queue :
          queue[i].waiter = e => life[x] # "new" /\ (k \in Ends => life[x] = "over")
    <3>1. e # NoEvent
      BY NoEventAssumption
    <3> QED BY <1>2, <1>3, <3>1 DEF Sound, Waiters
  <2> QED BY <2>1 DEF Ends
<1>12. PICK keys \in SUBSET Turns : keys = Turns
  OBVIOUS
<1>13. FlushThenEnqueue(e, keys, queue)
  BY <1>1, <1>12
<1>14. /\ Sound(queue', buffered', stored, sent, lf2, rest')
       /\ \A u \in Turns : Complete(queue, buffered, stored, sent, u)
                             => Complete(queue', buffered', stored, sent, u)
  <2>1. PICK q : q = queue
    OBVIOUS
  <2>2. PICK sto : sto = stored
    OBVIOUS
  <2>3. PICK snt : snt = sent
    OBVIOUS
  <2>4. /\ Sound(q, buffered, sto, snt, lf2, rest) /\ FlushThenEnqueue(e, keys, q)
        /\ \A i \in DOMAIN q : q[i].waiter # e
    BY <1>10, <1>11, <1>13, <2>1, <2>2, <2>3
  <2>5. /\ lf2[e.turn] # "new"
        /\ e.kind \in Ends =>
             lf2[e.turn] = "over" /\ (buffered[e.turn] # <<>> => e.turn \in keys)
    BY <1>2, <1>8, <1>12
  <2> QED BY <2>1, <2>2, <2>3, <2>4, <2>5, FlushSound
<1>15. Short(buffered')
  BY <1>3, <1>4, <1>12, <1>13, FlushShort
<1>16. ASSUME NEW u \in Turns
       PROVE  /\ lf2[u] = "new" => sent[u] = 0
              /\ faults = 0 /\ lf2[u] = "running" => Complete(queue', buffered', stored, sent, u)
  <2>1. /\ life[u] = "new" => sent[u] = 0
        /\ faults = 0 /\ life[u] = "running" => Complete(queue, buffered, stored, sent, u)
    BY DEF ProjInv, Received
  <2>2. sent[u] = 0 => Complete(queue', buffered', stored, sent, u)
    <3>1. 1..0 = {}
      OBVIOUS
    <3> QED BY <3>1 DEF Complete
  <2> QED BY <1>7, <1>14, <2>1, <2>2
<1>17. Received(queue', buffered', stored, sent, lf2, faults)
  BY <1>16 DEF Received
<1>18. TaskTypes'
  BY <1>3 DEF TaskTypes
<1> QED BY <1>5, <1>14, <1>15, <1>17, <1>18 DEF ProjInv

\* The start of a turn is enqueued behind the flushed batches.
LEMMA StartKeeps ==
  ASSUME ProjInv, NEW u \in Turns, TurnStarted(u)
  PROVE  ProjInv'
<1>1. "started" \in Lifecycle
  BY DEF Lifecycle
<1> QED BY <1>1, EventKeeps DEF TurnStarted

\* The end of a turn is enqueued behind its own flushed deltas.
LEMMA EndKeeps ==
  ASSUME ProjInv, NEW u \in Turns, NEW outcome \in {"completed", "failed"},
         TurnEnded(u, outcome)
  PROVE  ProjInv'
<1>1. outcome \in Lifecycle /\ outcome \in Ends
  BY DEF Lifecycle, Ends
<1> QED BY <1>1, EventKeeps DEF TurnEnded

\* A delta goes to the end of the batch of its turn, and a full batch to the end of
\* the queue.
LEMMA DeltaKeeps ==
  ASSUME ProjInv, NEW u \in Turns, Delta(u)
  PROVE  ProjInv'
<1>1. /\ Sound(queue, buffered, stored, sent, life, rest) /\ Short(buffered) /\ TaskTypes
      /\ Received(queue, buffered, stored, sent, life, faults)
  BY DEF ProjInv
<1>2. buffered \in Lists /\ sent \in Counts /\ sent[u] \in 0..MaxDeltas
  BY <1>1 DEF Sound, Counts
<1>3. life[u] = "running" /\ sent[u] < MaxDeltas
  BY DEF Delta
<1>4. PICK buf : buf = Grown(buffered, sent, u)
  OBVIOUS
<1>5. PICK snt : snt = Counted(sent, u)
  OBVIOUS
<1>6. sent' = snt
  BY <1>5 DEF Delta, Counted
<1>7. buf[u] = Append(buffered[u], sent[u] + 1)
  BY <1>2, <1>4 DEF Grown, Lists
<1>8. /\ Sound(queue, buf, stored, snt, life, rest)
      /\ \A v \in Turns : Complete(queue, buffered, stored, sent, v)
                            => Complete(queue, buf, stored, snt, v)
      /\ buf[u] # <<>> /\ Len(buf[u]) = Len(buffered[u]) + 1
      /\ \A v \in Turns : v # u => buf[v] = buffered[v]
  BY <1>1, <1>3, <1>4, <1>5, DeltaSound
<1>9. \A v \in Turns : v # u => Len(buf[v]) < BatchSize
  BY <1>1, <1>8 DEF Short
<1>12. /\ Sound(queue', buffered', stored, snt, life, rest) /\ Short(buffered')
       /\ \A v \in Turns : Complete(queue, buffered, stored, sent, v)
                             => Complete(queue', buffered', stored, snt, v)
  <2>1. CASE Len(buf[u]) >= BatchSize
    <3>1. queue' = WithBatch(queue, u, NoEvent, buf) /\ buffered' = Emptied(buf, u)
      <4>1. /\ queue' = Append(queue, Batch(u, NoEvent, buf[u]))
            /\ buffered' = [buffered EXCEPT ![u] = <<>>]
        BY <1>7, <2>1 DEF Delta
      <4>2. [buffered EXCEPT ![u] = <<>>] = [buf EXCEPT ![u] = <<>>]
        BY <1>2, <1>4 DEF Grown, Lists
      <4> QED BY <4>1, <4>2 DEF WithBatch, Emptied
    <3>2. /\ Sound(queue', buffered', stored, snt, life, rest)
          /\ \A v \in Turns : Complete(queue, buf, stored, snt, v)
                                => Complete(queue', buffered', stored, snt, v)
      BY <1>8, <3>1, BatchSound
    <3>3. Short(buffered')
      <4>1. Len(<<>>) = 0 /\ 0 < BatchSize
        BY ProjectionAssumption
      <4>2. buffered'[u] = <<>> /\ \A v \in Turns : v # u => buffered'[v] = buf[v]
        <5>1. buf \in Lists
          BY <1>8 DEF Sound
        <5> QED BY <3>1, <5>1 DEF Emptied, Lists
      <4> QED BY <1>9, <4>1, <4>2 DEF Short
    <3> QED BY <1>8, <3>2, <3>3
  <2>2. CASE ~(Len(buf[u]) >= BatchSize)
    <3>1. queue' = queue /\ buffered' = buf
      BY <1>4, <1>7, <2>2 DEF Delta, Grown
    <3>2. Len(buf[u]) < BatchSize
      <4>1. Len(buffered[u]) \in Nat
        BY <1>2 DEF Lists
      <4> QED BY <1>8, <2>2, <4>1, ProjectionAssumption
    <3> QED BY <1>8, <1>9, <3>1, <3>2 DEF Short
  <2> QED BY <2>1, <2>2
<1>13. Received(queue', buffered', stored, snt, life, faults)
  <2>1. ASSUME NEW v \in Turns, life[v] = "new" PROVE snt[v] = 0
    <3>1. v # u /\ sent[v] = 0
      BY <1>1, <1>3, <2>1 DEF Received
    <3> QED BY <1>2, <1>5, <3>1 DEF Counted, Counts
  <2> QED BY <1>1, <1>12, <2>1 DEF Received
<1>14. UNCHANGED <<life, rest, step, task, interrupting, stored, faults>>
  BY DEF Delta
<1> QED BY <1>1, <1>6, <1>12, <1>13, <1>14 DEF ProjInv, TaskTypes

\* The timer of a batch moves the whole batch, in its order, to the end of the queue.
LEMMA TimerKeeps ==
  ASSUME ProjInv, NEW u \in Turns, BatchTimer(u)
  PROVE  ProjInv'
<1>1. /\ Sound(queue, buffered, stored, sent, life, rest) /\ Short(buffered) /\ TaskTypes
      /\ Received(queue, buffered, stored, sent, life, faults)
  BY DEF ProjInv
<1>2. /\ queue' = WithBatch(queue, u, NoEvent, buffered) /\ buffered' = Emptied(buffered, u)
      /\ buffered[u] # <<>>
      /\ UNCHANGED <<life, sent, rest, step, task, interrupting, stored, faults>>
  BY DEF BatchTimer, WithBatch, Emptied
<1>3. /\ Sound(queue', buffered', stored, sent, life, rest)
      /\ \A v \in Turns : Complete(queue, buffered, stored, sent, v)
                            => Complete(queue', buffered', stored, sent, v)
  BY <1>1, <1>2, BatchSound
<1>4. Short(buffered')
  <2>1. Len(<<>>) = 0 /\ 0 < BatchSize
    BY ProjectionAssumption
  <2>2. buffered \in Lists
    BY <1>1 DEF Sound
  <2>3. buffered'[u] = <<>> /\ \A v \in Turns : v # u => buffered'[v] = buffered[v]
    BY <1>2, <2>2 DEF Emptied, Lists
  <2> QED BY <1>1, <2>1, <2>3 DEF Short
<1>5. Received(queue', buffered', stored, sent, life, faults)
  BY <1>1, <1>3 DEF Received
<1> QED BY <1>1, <1>2, <1>3, <1>4, <1>5 DEF ProjInv, TaskTypes

\* The batch of the first operation is stored; what awaited it goes on with the
\* loop, and no other batch awaits the same event.
LEMMA AppendKeeps ==
  ASSUME ProjInv, AppendDeltas
  PROVE  ProjInv'
<1>1. /\ Sound(queue, buffered, stored, sent, life, rest) /\ Short(buffered) /\ TaskTypes
      /\ Received(queue, buffered, stored, sent, life, faults)
  BY DEF ProjInv
<1>2. /\ queue \in Seq(Operations) /\ queue # <<>> /\ buffered \in Lists /\ stored \in Lists
      /\ sent \in Counts /\ Pieces(queue, buffered, stored, sent) /\ NoDeltas(queue)
      /\ Waiters(queue, buffered, life, rest) /\ EndsLast(queue, buffered, life)
      /\ life \in Lives /\ rest \in ToFlush
  BY <1>1 DEF Sound, AppendDeltas
<1>3. PICK q : q = Tail(queue)
  OBVIOUS
<1>4. PICK sto : sto = Stored(stored, queue)
  OBVIOUS
<1>5. stored' = sto
  BY <1>4 DEF AppendDeltas, Stored
<1>6. /\ sto \in Lists /\ Pieces(q, buffered, sto, sent)
      /\ \A u \in Turns : Complete(queue, buffered, stored, sent, u)
                            => Complete(q, buffered, sto, sent, u)
  BY <1>2, <1>3, <1>4, StoredKeeps
<1>7. Sound(q, buffered, sto, sent, life, rest)
  BY <1>2, <1>3, <1>6, DropKeeps, HeadGone DEF Sound
<1>8. CASE Head(queue).waiter = NoEvent
  <2>1. queue' = q /\ UNCHANGED <<buffered, rest, life, sent, step, task, interrupting, faults>>
    BY <1>3, <1>8 DEF AppendDeltas
  <2>2. Received(q, buffered, sto, sent, life, faults)
    BY <1>1, <1>6 DEF Received
  <2> QED BY <1>1, <1>5, <1>7, <2>1, <2>2 DEF ProjInv, TaskTypes
<1>9. CASE Head(queue).waiter # NoEvent
  <2>1. PICK e \in Events : e = Head(queue).waiter
    BY <1>2, <1>9, HeadGone DEF Operations
  <2>2. e.turn \in Turns /\ e.kind \in Lifecycle
    BY DEF Events
  <2>3. PICK keys \in SUBSET Turns : keys = rest[e.turn][e.kind]
    BY <1>2, <2>2 DEF ToFlush
  <2>4. /\ FlushThenEnqueue(e, keys, q)
        /\ UNCHANGED <<life, sent, step, task, interrupting, faults>>
    BY <1>3, <1>9, <2>1, <2>3 DEF AppendDeltas
  <2>5. /\ Head(queue) = queue[1] /\ 1 \in DOMAIN queue
        /\ \A i \in DOMAIN q : i + 1 \in DOMAIN queue /\ q[i] = queue[i + 1] /\ 1 < i + 1
    BY <1>2, <1>3, HeadGone
  <2>6. /\ life[e.turn] # "new"
        /\ e.kind \in Ends =>
             life[e.turn] = "over" /\ (buffered[e.turn] # <<>> => e.turn \in keys)
        /\ \A i \in DOMAIN q : q[i].waiter # e
    BY <1>2, <1>9, <2>1, <2>3, <2>5 DEF Waiters
  <2>7. /\ Sound(queue', buffered', sto, sent, life, rest')
        /\ \A u \in Turns : Complete(q, buffered, sto, sent, u)
                              => Complete(queue', buffered', sto, sent, u)
    <3>1. PICK snt : snt = sent
      OBVIOUS
    <3>2. PICK lf : lf = life
      OBVIOUS
    <3>3. Sound(q, buffered, sto, snt, lf, rest)
      BY <1>7, <3>1, <3>2
    <3>4. /\ lf[e.turn] # "new"
          /\ e.kind \in Ends =>
               lf[e.turn] = "over" /\ (buffered[e.turn] # <<>> => e.turn \in keys)
      BY <2>6, <3>2
    <3> QED BY <2>4, <2>6, <3>1, <3>2, <3>3, <3>4, FlushSound
  <2>8. Short(buffered')
    BY <1>1, <1>2, <2>4, FlushShort
  <2>9. Received(queue', buffered', sto, sent, life, faults)
    BY <1>1, <1>6, <2>7 DEF Received
  <2> QED BY <1>1, <1>5, <2>4, <2>7, <2>8, <2>9 DEF ProjInv, TaskTypes
<1> QED BY <1>8, <1>9

\* Writing the status changes neither the batches, nor the queue, nor the log.
LEMMA StatusKeeps ==
  ASSUME ProjInv, SetStatus
  PROVE  ProjInv'
<1>1. TaskTypes'
  <2>1. PICK op : op = Head(queue)
    OBVIOUS
  <2>2. op.kind \in Lifecycle /\ queue \in Seq(Operations) /\ queue # <<>>
    BY <2>1 DEF SetStatus, ProjInv, Sound
  <2>3. TaskOf[op.turn] \in Tasks
    <3>1. op \in Operations
      BY <2>1, <2>2, HeadGone
    <3> QED BY <3>1, ProjectionAssumption DEF Operations
  <2>4. PICK st \in Statuses : st = IF op.kind = "started" THEN "active" ELSE op.kind
    BY <2>2 DEF Lifecycle, Statuses
  <2>5. task' = [task EXCEPT ![TaskOf[op.turn]].status = st]
    BY <2>1, <2>4 DEF SetStatus
  <2>6. task' \in [Tasks -> [status : Statuses, turnId : Turns \cup {NoTurn}]]
    BY <2>3, <2>5 DEF ProjInv, TaskTypes
  <2> QED BY <2>6 DEF SetStatus, ProjInv, TaskTypes
<1>2. UNCHANGED <<life, sent, buffered, queue, rest, stored, faults>>
  BY DEF SetStatus
<1> QED BY <1>1, <1>2 DEF ProjInv

\* An event that is applied brought no delta.
LEMMA TurnKeeps ==
  ASSUME ProjInv, SetTurn
  PROVE  ProjInv'
<1>1. /\ Sound(queue, buffered, stored, sent, life, rest) /\ Short(buffered) /\ TaskTypes
      /\ Received(queue, buffered, stored, sent, life, faults)
  BY DEF ProjInv
<1>2. /\ queue \in Seq(Operations) /\ queue # <<>> /\ NoDeltas(queue)
      /\ Head(queue).kind \in Lifecycle
  BY <1>1 DEF Sound, SetTurn
<1>3. /\ Head(queue) = queue[1] /\ 1 \in DOMAIN queue /\ Head(queue) \in Operations
      /\ Tail(queue) \in Seq(Operations)
      /\ \A i \in DOMAIN queue : i # 1 => i - 1 \in DOMAIN Tail(queue)
                                          /\ Tail(queue)[i - 1] = queue[i]
  BY <1>2, HeadGone
<1>4. TaskTypes'
  <2>1. PICK op \in Operations : op = Head(queue)
    BY <1>3
  <2>2. op.turn \in Turns /\ TaskOf[op.turn] \in Tasks
    BY ProjectionAssumption DEF Operations
  <2>3. PICK tn \in Turns \cup {NoTurn} : tn = IF op.kind = "started" THEN op.turn ELSE NoTurn
    BY <2>2
  <2>4. task' = [task EXCEPT ![TaskOf[op.turn]].turnId = tn]
    BY <2>1, <2>3 DEF SetTurn
  <2>5. task' \in [Tasks -> [status : Statuses, turnId : Turns \cup {NoTurn}]]
    BY <1>1, <2>2, <2>4 DEF TaskTypes
  <2> QED BY <1>1, <2>5 DEF SetTurn, TaskTypes
<1>5. PICK q : q = Tail(queue)
  OBVIOUS
<1>6. Sound(q, buffered, stored, sent, life, rest)
  BY <1>1, <1>2, <1>3, <1>5, DropKeeps DEF Sound
<1>7. ASSUME NEW u \in Turns, Complete(queue, buffered, stored, sent, u)
      PROVE  Complete(q, buffered, stored, sent, u)
  <2>1. queue[1].deltas = <<>>
    BY <1>2, <1>3 DEF NoDeltas
  <2>2. \A d : ~Holds(queue[1].deltas, d)
    BY <2>1, NothingInOrder
  <2>3. \A i \in DOMAIN queue, d \in 1..sent[u] :
          queue[i].turn = u /\ Holds(queue[i].deltas, d)
            => \E j \in DOMAIN q : q[j].turn = u /\ Holds(q[j].deltas, d)
    BY <1>3, <1>5, <2>2
  <2> QED BY <1>7, <2>3 DEF Complete
<1>8. Received(q, buffered, stored, sent, life, faults)
  BY <1>1, <1>7 DEF Received
<1>9. queue' = q /\ UNCHANGED <<life, sent, buffered, rest, stored, faults>>
  BY <1>5 DEF SetTurn
<1> QED BY <1>1, <1>4, <1>6, <1>8, <1>9 DEF ProjInv

\* What awaited a batch that is lost is given up, and awaits no other.
LEMMA FailureKeeps ==
  ASSUME ProjInv, StoreFails
  PROVE  ProjInv'
<1>1. /\ Sound(queue, buffered, stored, sent, life, rest) /\ Short(buffered) /\ TaskTypes
      /\ Received(queue, buffered, stored, sent, life, faults)
  BY DEF ProjInv
<1>2. /\ queue \in Seq(Operations) /\ queue # <<>> /\ rest \in ToFlush
      /\ Waiters(queue, buffered, life, rest)
  BY <1>1 DEF Sound, StoreFails
<1>3. /\ Head(queue) = queue[1] /\ 1 \in DOMAIN queue /\ Head(queue) \in Operations
      /\ Tail(queue) \in Seq(Operations)
      /\ \A i \in DOMAIN Tail(queue) : /\ i + 1 \in DOMAIN queue /\ 1 < i + 1
                                       /\ Tail(queue)[i] = queue[i + 1]
  BY <1>2, HeadGone
<1>4. PICK q : q = Tail(queue)
  OBVIOUS
<1>5. Sound(q, buffered, stored, sent, life, rest)
  BY <1>1, <1>2, <1>3, <1>4, DropKeeps DEF Sound
<1>6. Sound(q, buffered, stored, sent, life, rest')
  <2>1. CASE Head(queue).waiter = NoEvent
    BY <1>5, <2>1 DEF StoreFails
  <2>2. CASE Head(queue).waiter # NoEvent
    <3>1. PICK e \in Events : e = Head(queue).waiter
      BY <1>3, <2>2 DEF Operations
    <3>2. rest' = RestWith(rest, e, {})
      BY <2>2, <3>1 DEF StoreFails, RestWith
    <3>3. /\ rest' \in ToFlush
          /\ \A d \in Events : d # e => rest'[d.turn][d.kind] = rest[d.turn][d.kind]
      BY <1>2, <3>2, {} \in SUBSET Turns, RestSet
    <3>4. \A i \in DOMAIN q : q[i].waiter # NoEvent => q[i].waiter # e
      BY <1>2, <1>3, <1>4, <2>2, <3>1 DEF Waiters
    <3>5. Waiters(q, buffered, life, rest)
      BY <1>5 DEF Sound
    <3>6. Waiters(q, buffered, life, rest')
      BY <3>3, <3>4, <3>5 DEF Waiters
    <3> QED BY <1>5, <3>3, <3>6 DEF Sound
  <2> QED BY <2>1, <2>2
<1>7. /\ faults' = faults + 1 /\ faults < MaxFaults /\ step' = 0
      /\ queue' = q /\ UNCHANGED <<life, sent, buffered, task, interrupting, stored>>
  BY <1>4 DEF StoreFails
<1>8. faults' # 0 /\ faults' \in 0..MaxFaults
  BY <1>1, <1>7, ProjectionAssumption DEF TaskTypes
<1>9. Received(q, buffered, stored, sent, life, faults')
  BY <1>1, <1>8 DEF Received
<1>10. TaskTypes'
  BY <1>1, <1>7, <1>8 DEF TaskTypes
<1> QED BY <1>1, <1>6, <1>7, <1>9, <1>10 DEF ProjInv

\* The exit of a process ends its running turn; deltas that wait keep their place.
LEMMA ExitKeeps ==
  ASSUME ProjInv, NEW t \in Tasks, ProcessExit(t)
  PROVE  ProjInv'
<1>1. /\ Sound(queue, buffered, stored, sent, life, rest) /\ Short(buffered) /\ TaskTypes
      /\ Received(queue, buffered, stored, sent, life, faults)
  BY DEF ProjInv
<1>2. PICK x \in Turns : life[x] = "running" /\ life' = [life EXCEPT ![x] = "over"]
  BY DEF ProcessExit
<1>3. PICK lf : lf = life'
  OBVIOUS
<1>4. /\ lf \in Lives
      /\ \A u \in Turns : /\ life[u] # "new" => lf[u] # "new"
                          /\ life[u] = "over" => lf[u] = "over"
                          /\ lf[u] = "new" => life[u] = "new"
                          /\ lf[u] = "running" => life[u] = "running"
  <2>1. life \in Lives
    BY <1>1 DEF Sound
  <2> QED BY <1>2, <1>3, <2>1 DEF Lives
<1>5. Sound(queue, buffered, stored, sent, lf, rest)
  BY <1>1, <1>4, LifeSound
<1>6. Received(queue, buffered, stored, sent, lf, faults)
  BY <1>1, <1>4 DEF Received
<1>7. TaskTypes' /\ UNCHANGED <<sent, buffered, queue, rest, stored, faults>>
  BY <1>1 DEF TaskTypes, ProcessExit
<1> QED BY <1>1, <1>3, <1>5, <1>6, <1>7 DEF ProjInv

\* Interrupting a task changes its record alone.
LEMMA InterruptKeeps ==
  ASSUME ProjInv, NEW t \in Tasks, Interrupt(t)
  PROVE  ProjInv'
<1>1. TaskTypes'
  <2>1. Interrupted \in [status : Statuses, turnId : Turns \cup {NoTurn}]
    BY DEF Interrupted, Statuses
  <2>2. task' = [task EXCEPT ![t] = Interrupted] \/ task' = task
    BY DEF Interrupt
  <2>3. task' \in [Tasks -> [status : Statuses, turnId : Turns \cup {NoTurn}]]
    BY <2>1, <2>2 DEF ProjInv, TaskTypes
  <2> QED BY <2>3 DEF ProjInv, TaskTypes, Interrupt
<1> QED BY <1>1 DEF ProjInv, Interrupt

\* A queue with nothing in it and no batch open.
LEMMA EmptySound ==
  ASSUME NEW buf, buf = [u \in Turns |-> <<>>], NEW sto \in Lists, NEW snt \in Counts,
         NEW lf \in Lives, NEW rst \in ToFlush,
         \A u \in Turns : Ascending(sto[u]) /\ UpTo(sto[u], snt[u])
  PROVE  Sound(<<>>, buf, sto, snt, lf, rst) /\ Short(buf)
<1>1. <<>> \in Seq(Operations) /\ DOMAIN <<>> = {} /\ <<>> \in Seq(1..MaxDeltas)
  OBVIOUS
<1>2. buf \in Lists /\ \A u \in Turns : buf[u] = <<>>
  BY <1>1 DEF Lists
<1>3. Pieces(<<>>, buf, sto, snt)
  BY <1>1, <1>2, NothingInOrder DEF Pieces
<1>4. Waiters(<<>>, buf, lf, rst) /\ EndsLast(<<>>, buf, lf) /\ NoDeltas(<<>>)
  BY <1>1 DEF Waiters, EndsLast, NoDeltas
<1>5. Short(buf)
  <2>1. Len(<<>>) = 0 /\ 0 < BatchSize
    BY ProjectionAssumption
  <2> QED BY <1>2, <2>1 DEF Short
<1> QED BY <1>1, <1>2, <1>3, <1>4, <1>5 DEF Sound

\* A restart drops what waited; what is in the log stays, and is in order.
LEMMA RestartKeeps ==
  ASSUME ProjInv, Restart
  PROVE  ProjInv'
<1>1. /\ Sound(queue, buffered, stored, sent, life, rest) /\ TaskTypes
      /\ Received(queue, buffered, stored, sent, life, faults)
  BY DEF ProjInv
<1>2. /\ stored \in Lists /\ sent \in Counts /\ life \in Lives
      /\ \A u \in Turns : Ascending(stored[u]) /\ UpTo(stored[u], sent[u])
  BY <1>1 DEF Sound, Pieces
<1>3. PICK lf : lf = life'
  OBVIOUS
<1>4. /\ lf \in Lives
      /\ \A u \in Turns : lf[u] # "running" /\ (lf[u] = "new" => life[u] = "new")
  BY <1>2, <1>3 DEF Restart, Lives
<1>5. PICK buf : buf = [u \in Turns |-> <<>>]
  OBVIOUS
<1>6. PICK rst : rst = [u \in Turns |-> [k \in Lifecycle |-> {}]]
  OBVIOUS
<1>7. rst \in ToFlush
  BY <1>6 DEF ToFlush
<1>8. Sound(<<>>, buf, stored, sent, lf, rst) /\ Short(buf)
  BY <1>2, <1>4, <1>5, <1>7, EmptySound
<1>9. Received(<<>>, buf, stored, sent, lf, faults)
  BY <1>1, <1>4 DEF Received
<1>10. /\ queue' = <<>> /\ buffered' = buf /\ rest' = rst
       /\ UNCHANGED <<sent, stored, faults>>
  BY <1>5, <1>6 DEF Restart
<1>11. TaskTypes'
  <2>1. Interrupted \in [status : Statuses, turnId : Turns \cup {NoTurn}]
    BY DEF Interrupted, Statuses
  <2>2. task' \in [Tasks -> [status : Statuses, turnId : Turns \cup {NoTurn}]]
    BY <1>1, <2>1 DEF TaskTypes, Restart
  <2> QED BY <1>1, <2>2 DEF TaskTypes, Restart
<1> QED BY <1>3, <1>8, <1>9, <1>10, <1>11 DEF ProjInv

\* In the initial state nothing has been received, and the invariant holds.
LEMMA ProjInitially == ProjInit => ProjInv
<1> SUFFICES ASSUME ProjInit PROVE ProjInv
  OBVIOUS
<1>1. stored \in Lists /\ \A u \in Turns : stored[u] = <<>>
  <2>1. <<>> \in Seq(1..MaxDeltas)
    OBVIOUS
  <2> QED BY <2>1 DEF ProjInit, Lists
<1>2. sent \in Counts /\ \A u \in Turns : sent[u] = 0
  BY ProjectionAssumption DEF ProjInit, Counts
<1>3. life \in Lives /\ \A u \in Turns : life[u] # "running"
  BY DEF ProjInit, Lives
<1>4. rest \in ToFlush
  BY DEF ProjInit, ToFlush
<1>5. \A u \in Turns : Ascending(stored[u]) /\ UpTo(stored[u], sent[u])
  BY <1>1, NothingInOrder
<1>6. queue = <<>> /\ buffered = [u \in Turns |-> <<>>]
  BY DEF ProjInit
<1>7. Sound(queue, buffered, stored, sent, life, rest) /\ Short(buffered)
  BY <1>1, <1>2, <1>3, <1>4, <1>5, <1>6, EmptySound
<1>8. Received(queue, buffered, stored, sent, life, faults)
  BY <1>2, <1>3 DEF Received
<1>9. TaskTypes
  BY ProjectionAssumption DEF ProjInit, TaskTypes, Statuses
<1> QED BY <1>7, <1>8, <1>9 DEF ProjInv

-----------------------------------------------------------------------------
\* TaskEventProjector keeps the invariant: whatever events, timers, store calls,
\* failures, exits of the CLI and restarts come in whatever order.
THEOREM ProjInductive == ProjSpec => []ProjInv
<1>1. ASSUME ProjInv, [ProjNext]_projVars PROVE ProjInv'
  <2>1. ASSUME NEW u \in Turns, TurnStarted(u) PROVE ProjInv'
    BY <1>1, <2>1, StartKeeps
  <2>2. ASSUME NEW u \in Turns, NEW outcome \in {"completed", "failed"}, TurnEnded(u, outcome)
        PROVE  ProjInv'
    BY <1>1, <2>2, EndKeeps
  <2>3. ASSUME NEW u \in Turns, Delta(u) PROVE ProjInv'
    BY <1>1, <2>3, DeltaKeeps
  <2>4. ASSUME NEW u \in Turns, BatchTimer(u) PROVE ProjInv'
    BY <1>1, <2>4, TimerKeeps
  <2>5. CASE AppendDeltas
    BY <1>1, <2>5, AppendKeeps
  <2>6. CASE SetStatus
    BY <1>1, <2>6, StatusKeeps
  <2>7. CASE SetTurn
    BY <1>1, <2>7, TurnKeeps
  <2>8. CASE StoreFails
    BY <1>1, <2>8, FailureKeeps
  <2>9. ASSUME NEW t \in Tasks, ProcessExit(t) PROVE ProjInv'
    BY <1>1, <2>9, ExitKeeps
  <2>10. ASSUME NEW t \in Tasks, Interrupt(t) PROVE ProjInv'
    BY <1>1, <2>10, InterruptKeeps
  <2>11. CASE Restart
    BY <1>1, <2>11, RestartKeeps
  <2>12. CASE UNCHANGED projVars
    BY <1>1, <2>12 DEF projVars, ProjInv, TaskTypes
  <2> QED BY <1>1, <2>1, <2>2, <2>3, <2>4, <2>5, <2>6, <2>7, <2>8, <2>9, <2>10, <2>11, <2>12
          DEF ProjNext, StoreStep
<1> QED BY <1>1, ProjInitially, PTL DEF ProjSpec

\* TaskEventProjector and TaskStore keep to their types, and no open batch of
\* deltas is a full one, for every batch size.
THEOREM ProjTypeCorrect == ProjSpec => []ProjTypeOK
<1>1. ProjInv => ProjTypeOK
  BY DEF ProjInv, ProjTypeOK, TaskTypes, Short, Sound, Lists, Counts, Lives, ToFlush
<1> QED BY <1>1, ProjInductive, PTL

\* For any number of tasks and turns and any batch size, the deltas of a turn
\* reach the log in the order they were streamed and none twice, and none is
\* missing while nothing has failed (TaskEventProjector.bufferAssistantDelta,
\* flushAssistantDeltas).
THEOREM DeltasStayInOrder == ProjSpec => []DeltasInOrder
<1>1. ASSUME ProjInv, NEW u \in Turns PROVE PiecesInOrder(u)
  BY <1>1 DEF ProjInv, Sound, Pieces, PiecesInOrder
<1>2. ASSUME ProjInv, NEW u \in Turns, faults = 0, life[u] = "running"
      PROVE  \A d \in 1..sent[u] : InPipeline(u, d)
  <2>1. Complete(queue, buffered, stored, sent, u)
    BY <1>2 DEF ProjInv, Received
  <2> QED BY <2>1 DEF Complete, InPipeline
<1>3. ProjInv => DeltasInOrder
  BY <1>1, <1>2 DEF DeltasInOrder
<1> QED BY <1>3, ProjInductive, PTL

\* "batches assistant deltas and flushes them before the next lifecycle event":
\* however many events wait for each other's batches, no delta of a turn is open
\* or chained behind its end.
THEOREM EndsBehindDeltas == ProjSpec => []DeltasBeforeEnd
<1>1. ProjInv => DeltasBeforeEnd
  BY DEF ProjInv, Sound, EndsLast, Ends, DeltasBeforeEnd
<1> QED BY <1>1, ProjInductive, PTL
=============================================================================
