---------------------------- MODULE HostsProofs -----------------------------
(***************************************************************************)
(* Proofs about CliProcess: the variables keep their types, the request    *)
(* table is that of the process there is, and a process lives on unknown   *)
(* only when the end of an earlier shutdown let it go.                     *)
(*                                                                         *)
(* The three do not follow from themselves. That the table's process is    *)
(* not gone needs the field child to be cleared with the end of its        *)
(* process; that a shutdown which lets a process go is of an earlier       *)
(* generation needs the field to hold the last generation, the shutdown to *)
(* be of one that was started, and that one to have been told to end       *)
(* before its shutdown waits for the end.                                  *)
(*                                                                         *)
(* Proofs about AgentSessions: its types, that no more sessions are bound  *)
(* than the machine is meant to run, and that the process a session is     *)
(* bound to is not shut down under a turn, unless a shutdown was ordered.  *)
(*                                                                         *)
(* The first needs that one opening at a time is past the admission, and   *)
(* that only such an opening binds a session. The second is about routes:  *)
(* what evicts and expires a binding looks at sessionTurnRoutes, which     *)
(* scheduleRecovery and a refused opening clear while the turn goes on, so *)
(* that it has to be shown that a binding whose route was cleared is found *)
(* by nobody any more.                                                     *)
(*                                                                         *)
(* Proofs about the components that own something outside the application, *)
(* each about its own specification, and then about HostsSpec, where they  *)
(* stand side by side: a behaviour of HostsSpec is one of every component, *)
(* so that what holds of a component alone holds there.                    *)
(*                                                                         *)
(* The sections prove, in this order: terminations, bounded output and the *)
(* guest (NoProcessForgotten); guest commands, Python runtimes and         *)
(* recordings (OutputBounded); tabs (OneTabShown); pages, the debugger,    *)
(* UI elements, the computer and the browser broker (HostToolsOwned); the  *)
(* types (HostsTypeOK). Each has the inductive invariant of its component, *)
(* which says what is between the steps of a request.                      *)
(***************************************************************************)
EXTENDS MCHosts, FiniteSetTheorems, SequenceTheorems, TLAPS

-----------------------------------------------------------------------------
(* The process *)

\* The field child holds the last generation or nothing, never a process that
\* is gone.
ChildIsLatest ==
  /\ child \in {0, generation}
  /\ child # 0 => proc[child] \in {"alive", "ending"}

\* A shutdown with a request in the table is under way, one under way is of a
\* generation that was started, and one that waits for its end has told it to end.
StopsOfStarted ==
  \A s \in AllStops :
    /\ pending[s] # 0 => stop[s] # "new"
    /\ stop[s] # "new" => stopOf[s] \in 1..generation
    /\ stop[s] = "killing" => proc[stopOf[s]] # "alive"

CliInv ==
  /\ CliTypeOK
  /\ IsFiniteSet(active)
  /\ ChildIsLatest
  /\ StopsOfStarted
  /\ TableOfCurrentChild
  /\ DetachedByOverlapOnly

-----------------------------------------------------------------------------
\* What a call of ensureStarted and the write of a request do to the process,
\* the field and the table.
LEMMA StartKeeps ==
  ASSUME CliInv, NEW id \in Ids, Started(id)
  PROVE  /\ generation' \in generation..MaxGen /\ child' = generation' /\ child' # 0
         /\ proc' \in [Gens -> {"none", "alive", "ending", "gone"}]
         /\ proc'[child'] \in {"alive", "ending"}
         /\ \A g \in Gens : g # child' => proc'[g] = proc[g]
         /\ \A g \in Gens : g <= generation => proc'[g] = proc[g]
         /\ child # 0 => child' = child
         /\ stopping' \in BOOLEAN
         /\ pending' \in [Ids -> 0..MaxGen]
         /\ \A i \in Ids : pending'[i] \in {0, child'}
<1>1. /\ MaxGen \in Nat /\ generation \in 0..MaxGen /\ child \in {0, generation}
      /\ proc \in [Gens -> {"none", "alive", "ending", "gone"}]
      /\ pending \in [Ids -> 0..MaxGen] /\ stopping \in BOOLEAN
      /\ child # 0 => proc[child] \in {"alive", "ending"}
      /\ \A i \in Ids : pending[i] \in {0, child}
  BY CliAssumption DEF CliInv, CliTypeOK, ChildIsLatest, TableOfCurrentChild
<1>2. CASE child = 0
  <2>1. /\ generation < MaxGen /\ generation' = generation + 1 /\ child' = generation'
        /\ proc' = [proc EXCEPT ![generation'] = "alive"] /\ stopping' = FALSE
        /\ pending' = [pending EXCEPT ![id] = generation']
    BY <1>2 DEF Started
  <2>2. generation' \in Gens /\ generation' \in generation..MaxGen
    BY <1>1, <2>1 DEF Gens
  <2>3. /\ proc' \in [Gens -> {"none", "alive", "ending", "gone"}]
        /\ proc'[child'] = "alive"
        /\ \A g \in Gens : g # child' => proc'[g] = proc[g]
    BY <1>1, <2>1, <2>2
  <2>4. /\ pending' \in [Ids -> 0..MaxGen]
        /\ \A i \in Ids : pending'[i] \in {0, child'}
    BY <1>1, <1>2, <2>1, <2>2 DEF Gens
  <2>5. \A g \in Gens : g <= generation => g # child'
    BY <1>1, <2>1 DEF Gens
  <2>6. stopping' \in BOOLEAN /\ child' = generation'
    BY <2>1
  <2>7. child' # 0
    BY <1>1, <2>1
  <2>8. \A g \in Gens : g <= generation => proc'[g] = proc[g]
    BY <2>3, <2>5
  <2>9. proc'[child'] \in {"alive", "ending"}
    BY <2>3
  <2> QED BY <1>2, <2>2, <2>3, <2>4, <2>6, <2>7, <2>8, <2>9
<1>3. CASE child # 0
  <2>1. /\ UNCHANGED <<generation, child, proc, stopping>>
        /\ pending' = [pending EXCEPT ![id] = child]
    BY <1>3 DEF Started
  <2> QED BY <1>1, <1>3, <2>1
<1> QED BY <1>2, <1>3

\* rejectPending leaves an empty table; a shutdown goes on, none begins.
LEMMA RejectKeeps ==
  ASSUME CliInv, NEW shake \in {"no", "asked", "answered", "failed", "unfit", "leaving"},
         NEW stops \in [AllStops -> {"new", "asking", "asked", "killing", "done"}],
         RejectPending(stops, shake)
  PROVE  /\ pending' \in [Ids -> 0..MaxGen] /\ \A i \in Ids : pending'[i] = 0
         /\ call' \in [Calls -> {"new", "joining", "ready", "sent", "answered", "failed"}]
         /\ shaking' \in {"no", "asked", "answered", "failed", "unfit", "leaving"}
         /\ stop' \in [AllStops -> {"new", "asking", "asked", "killing", "done"}]
         /\ \A s \in AllStops : /\ stop'[s] = "new" <=> stops[s] = "new"
                                /\ stop'[s] = "killing" => stops[s] = "killing"
<1>1. MaxGen \in Nat
  BY CliAssumption
<1>2. /\ pending' \in [Ids -> 0..MaxGen] /\ \A i \in Ids : pending'[i] = 0
  BY <1>1 DEF RejectPending
<1>3. call' \in [Calls -> {"new", "joining", "ready", "sent", "answered", "failed"}]
  BY DEF RejectPending, CliInv, CliTypeOK
<1>4. shaking' \in {"no", "asked", "answered", "failed", "unfit", "leaving"}
  BY DEF RejectPending
<1>5. /\ stop' \in [AllStops -> {"new", "asking", "asked", "killing", "done"}]
      /\ \A s \in AllStops : /\ stop'[s] = "new" <=> stops[s] = "new"
                             /\ stop'[s] = "killing" => stops[s] = "killing"
  BY DEF RejectPending
<1> QED BY <1>2, <1>3, <1>4, <1>5

\* failProcess on behalf of generation g: nothing, or the field and the table
\* are empty.
LEMMA FailKeeps ==
  ASSUME CliInv, NEW g, FailedFor(g)
  PROVE  /\ ready' \in BOOLEAN
         /\ pending' \in [Ids -> 0..MaxGen]
         /\ call' \in [Calls -> {"new", "joining", "ready", "sent", "answered", "failed"}]
         /\ shaking' \in {"no", "asked", "answered", "failed", "unfit", "leaving"}
         /\ stop' \in [AllStops -> {"new", "asking", "asked", "killing", "done"}]
         /\ \A s \in AllStops : /\ stop'[s] = "new" <=> stop[s] = "new"
                                /\ stop'[s] = "killing" => stop[s] = "killing"
         /\ \/ child # g /\ child' = child /\ pending' = pending
            \/ child = g /\ child' = 0 /\ \A i \in Ids : pending'[i] = 0
<1>1. CASE child # g
  BY <1>1 DEF FailedFor, CliInv, CliTypeOK
<1>2. CASE child = g
  <2>1. child' = 0 /\ ready' = FALSE /\ RejectPending(stop, shaking)
    BY <1>2 DEF FailedFor
  <2>2. /\ shaking \in {"no", "asked", "answered", "failed", "unfit", "leaving"}
        /\ stop \in [AllStops -> {"new", "asking", "asked", "killing", "done"}]
    BY DEF CliInv, CliTypeOK
  <2> QED BY <1>2, <2>1, <2>2, RejectKeeps
<1> QED BY <1>1, <1>2

\* A process told to end lives on as before, but is no longer "alive".
LEMMA ToldKeeps ==
  ASSUME CliInv, NEW g, proc' = ToldToEnd(g)
  PROVE  /\ proc' \in [Gens -> {"none", "alive", "ending", "gone"}]
         /\ \A h \in Gens : proc'[h] = IF h = g /\ proc[h] = "alive" THEN "ending" ELSE proc[h]
BY DEF ToldToEnd, CliInv, CliTypeOK

\* The set of active host requests stays finite and within its limit.
LEMMA ActiveKeeps ==
  ASSUME CliInv
  PROVE  /\ IsFiniteSet({}) /\ Cardinality({}) <= HostCap
         /\ \A h : /\ IsFiniteSet(active \ {h}) /\ Cardinality(active \ {h}) <= HostCap
                   /\ Cardinality(active) < HostCap =>
                        /\ IsFiniteSet(active \cup {h})
                        /\ Cardinality(active \cup {h}) <= HostCap
<1>1. HostCap \in Nat /\ IsFiniteSet(active) /\ Cardinality(active) <= HostCap
  BY CliAssumption DEF CliInv, CliTypeOK
<1>2. IsFiniteSet({}) /\ Cardinality({}) = 0
  BY FS_EmptySet
<1>3. Cardinality(active) \in Nat
  BY <1>1, FS_CardinalityType
<1>4. ASSUME NEW h
      PROVE  /\ IsFiniteSet(active \ {h}) /\ Cardinality(active \ {h}) <= HostCap
             /\ Cardinality(active) < HostCap =>
                  /\ IsFiniteSet(active \cup {h})
                  /\ Cardinality(active \cup {h}) <= HostCap
  <2>1. /\ IsFiniteSet(active \cup {h})
        /\ Cardinality(active \cup {h}) \in {Cardinality(active), Cardinality(active) + 1}
    BY <1>1, FS_AddElement
  <2>2. /\ IsFiniteSet(active \ {h})
        /\ Cardinality(active \ {h}) \in {Cardinality(active), Cardinality(active) - 1}
    BY <1>1, FS_RemoveElement
  <2> QED BY <1>1, <1>3, <2>1, <2>2
<1> QED BY <1>1, <1>2, <1>4

-----------------------------------------------------------------------------
\* What an action does to process, field, table and shutdowns, as far as the
\* invariant is concerned: from these facts its last four parts follow.
LEMMA CoreKept ==
  ASSUME CliInv, CliTypeOK',
         generation' >= generation,
         child' \in {0, generation'},
         child' # 0 => proc'[child'] \in {"alive", "ending"},
         \A g \in Gens : /\ g <= generation /\ proc'[g] = "alive" => proc[g] = "alive"
                         /\ g > generation /\ proc'[g] = "alive" => proc[g] = "alive" \/ g = child',
         \A i \in Ids : pending'[i] \in {0, child'},
         \A s \in AllStops :
           /\ pending'[s] # 0 => stop'[s] # "new"
           /\ stop'[s] # "new" => stopOf'[s] \in 1..generation'
           /\ stop'[s] = "killing" => proc'[stopOf'[s]] # "alive",
         \A g \in Gens : proc'[g] = "alive" /\ g # child' =>
           \/ g # child /\ letGo'[g] = letGo[g]
           \/ letGo'[g] \in 1..(g - 1)
  PROVE  ChildIsLatest' /\ StopsOfStarted' /\ TableOfCurrentChild' /\ DetachedByOverlapOnly'
<1>1. ChildIsLatest'
  BY DEF ChildIsLatest
<1>2. StopsOfStarted'
  BY DEF StopsOfStarted
<1>3. TableOfCurrentChild'
  BY DEF TableOfCurrentChild
<1>4. DetachedByOverlapOnly'
  BY DEF DetachedByOverlapOnly, CliInv, CliTypeOK, ChildIsLatest, Gens
<1> QED BY <1>1, <1>2, <1>3, <1>4

\* The same, of an action that leaves all of them alone.
LEMMA CoreSame ==
  ASSUME CliInv, UNCHANGED <<generation, child, proc, pending, stop, stopOf, letGo>>
  PROVE  ChildIsLatest' /\ StopsOfStarted' /\ TableOfCurrentChild' /\ DetachedByOverlapOnly'
BY DEF CliInv, ChildIsLatest, StopsOfStarted, TableOfCurrentChild, DetachedByOverlapOnly

\* The same, of an action in which the process of the field is told to end, or
\* is gone, and reported as failed.
LEMMA CoreFailed ==
  ASSUME CliInv, CliTypeOK', NEW g, FailedFor(g),
         UNCHANGED <<generation, stopOf, letGo>>,
         \A h \in Gens : /\ proc'[h] = "alive" => proc[h] = "alive" /\ h # g
                         /\ h # g => proc'[h] = proc[h]
  PROVE  ChildIsLatest' /\ StopsOfStarted' /\ TableOfCurrentChild' /\ DetachedByOverlapOnly'
<1>1. /\ MaxGen \in Nat /\ generation \in 0..MaxGen /\ child \in {0, generation}
      /\ child # 0 => proc[child] \in {"alive", "ending"}
      /\ \A i \in Ids : pending[i] \in {0, child}
  BY CliAssumption DEF CliInv, CliTypeOK, ChildIsLatest, TableOfCurrentChild
<1>2. /\ \A s \in AllStops : /\ stop'[s] = "new" <=> stop[s] = "new"
                             /\ stop'[s] = "killing" => stop[s] = "killing"
      /\ \/ child # g /\ child' = child /\ pending' = pending
         \/ child = g /\ child' = 0 /\ \A i \in Ids : pending'[i] = 0
  BY FailKeeps
<1>3. child' \in {0, generation'} /\ generation' >= generation
  BY <1>1, <1>2
<1>4. child' # 0 => proc'[child'] \in {"alive", "ending"}
  BY <1>1, <1>2 DEF Gens
<1>5. \A h \in Gens : /\ h <= generation /\ proc'[h] = "alive" => proc[h] = "alive"
                      /\ h > generation /\ proc'[h] = "alive" => proc[h] = "alive" \/ h = child'
  OBVIOUS
<1>6. \A i \in Ids : pending'[i] \in {0, child'}
  BY <1>1, <1>2
<1>7. \A s \in AllStops : /\ pending'[s] # 0 => stop'[s] # "new"
                          /\ stop'[s] # "new" => stopOf'[s] \in 1..generation'
                          /\ stop'[s] = "killing" => proc'[stopOf'[s]] # "alive"
  BY <1>1, <1>2 DEF CliInv, StopsOfStarted, Gens, Ids
<1>8. \A h \in Gens : proc'[h] = "alive" /\ h # child' => h # child /\ letGo'[h] = letGo[h]
  BY <1>2
<1> QED BY <1>3, <1>4, <1>5, <1>6, <1>7, <1>8, CoreKept

\* The same, of an action that does no more than start a process or write a
\* request to the one there is.
LEMMA CoreStarted ==
  ASSUME CliInv, CliTypeOK', NEW id \in Ids \ AllStops, Started(id),
         UNCHANGED <<stop, stopOf, letGo>>
  PROVE  ChildIsLatest' /\ StopsOfStarted' /\ TableOfCurrentChild' /\ DetachedByOverlapOnly'
<1>1. /\ MaxGen \in Nat /\ generation \in 0..MaxGen /\ child \in {0, generation}
  BY CliAssumption DEF CliInv, CliTypeOK, ChildIsLatest
<1>2. /\ generation' \in generation..MaxGen /\ child' = generation' /\ child' # 0
      /\ proc'[child'] \in {"alive", "ending"}
      /\ \A g \in Gens : g # child' => proc'[g] = proc[g]
      /\ \A g \in Gens : g <= generation => proc'[g] = proc[g]
      /\ child # 0 => child' = child
      /\ \A i \in Ids : pending'[i] \in {0, child'}
  BY StartKeeps
<1>3. \A s \in AllStops : /\ pending'[s] # 0 => stop'[s] # "new"
                          /\ stop'[s] # "new" => stopOf'[s] \in 1..generation'
                          /\ stop'[s] = "killing" => proc'[stopOf'[s]] # "alive"
  <2>4. \A s \in AllStops : pending'[s] # 0 => stop'[s] # "new"
    <3>1. \A s \in AllStops : pending'[s] = pending[s] \/ s = id
      BY DEF CliInv, CliTypeOK, Started, Ids
    <3> QED BY <3>1 DEF CliInv, StopsOfStarted
  <2> SUFFICES ASSUME NEW s \in AllStops, stop[s] # "new"
               PROVE  /\ stopOf[s] \in 1..generation'
                      /\ stop[s] = "killing" => proc'[stopOf[s]] # "alive"
    BY <2>4
  <2>1. /\ stopOf[s] \in 1..generation
        /\ stop[s] = "killing" => proc[stopOf[s]] # "alive"
    BY DEF CliInv, StopsOfStarted
  <2>2. stopOf[s] \in Gens /\ stopOf[s] <= generation
    BY <1>1, <2>1 DEF Gens
  <2> QED BY <1>1, <1>2, <2>1, <2>2
<1>4. \A g \in Gens : proc'[g] = "alive" /\ g # child' => g # child /\ letGo'[g] = letGo[g]
  BY <1>1, <1>2 DEF Gens
<1>5. \A g \in Gens : /\ g <= generation /\ proc'[g] = "alive" => proc[g] = "alive"
                      /\ g > generation /\ proc'[g] = "alive" => proc[g] = "alive" \/ g = child'
  BY <1>2
<1>6. generation' >= generation
  BY <1>1, <1>2
<1> QED BY <1>2, <1>3, <1>4, <1>5, <1>6, CoreKept

-----------------------------------------------------------------------------
\* initialize() and request().
LEMMA CallSteps ==
  ASSUME CliInv, NEW c \in Calls, Initialize(c) \/ Request(c)
  PROVE  CliInv'
<1> USE DEF CliInv
<1>1. CASE UNCHANGED <<proc, child, generation, stopping, pending, shaking>>
  <2>1. CliTypeOK' /\ IsFiniteSet(active')
    BY <1>1 DEF CliTypeOK, Initialize, Request
  <2>2. UNCHANGED <<stop, stopOf, letGo>>
    BY DEF Initialize, Request
  <2> QED BY <1>1, <2>1, <2>2, CoreSame
<1>2. ASSUME NEW id \in {c, Handshake}, Started(id),
             call' \in [Calls -> {"new", "joining", "ready", "sent", "answered", "failed"}],
             shaking' \in {shaking, "asked"},
             UNCHANGED <<ready, stop, stopOf, letGo, host, hostOf, active>>
      PROVE  CliInv'
  <2>1. id \in Ids /\ id \notin AllStops
    BY CliAssumption DEF Ids, AllStops
  <2>2. CliTypeOK' /\ IsFiniteSet(active')
    <3>1. /\ MaxGen \in Nat
          /\ generation' \in generation..MaxGen /\ child' = generation'
          /\ proc' \in [Gens -> {"none", "alive", "ending", "gone"}]
          /\ stopping' \in BOOLEAN /\ pending' \in [Ids -> 0..MaxGen]
      BY <1>2, <2>1, StartKeeps, CliAssumption
    <3> QED BY <1>2, <3>1 DEF CliTypeOK
  <2> QED BY <1>2, <2>1, <2>2, CoreStarted
<1>3. CASE /\ Initialize(c)
           /\ ~UNCHANGED <<proc, child, generation, stopping, pending, shaking>>
  BY <1>2, <1>3 DEF Initialize, CliTypeOK
<1>4. CASE /\ Request(c)
           /\ ~UNCHANGED <<proc, child, generation, stopping, pending, shaking>>
  BY <1>2, <1>4 DEF Request, CliTypeOK
<1> QED BY <1>1, <1>3, <1>4 DEF Initialize

\* The handshake settles, and a response arrives.
LEMMA AnswerSteps ==
  ASSUME CliInv, HandshakeSettled \/ \E id \in Ids : Response(id)
  PROVE  CliInv'
<1> USE DEF CliInv
<1>1. CASE HandshakeSettled
  <2>1. CliTypeOK' /\ IsFiniteSet(active')
    BY <1>1 DEF CliTypeOK, HandshakeSettled
  <2> QED BY <1>1, <2>1, CoreSame DEF HandshakeSettled
<1>2. ASSUME NEW id \in Ids, Response(id)
      PROVE  CliInv'
  <2>1. /\ pending' = [pending EXCEPT ![id] = 0]
        /\ call' = [c \in Calls |-> IF c = id THEN "answered" ELSE call[c]]
        /\ stop' = [s \in AllStops |-> IF s = id THEN "asked" ELSE stop[s]]
        /\ UNCHANGED <<proc, child, generation, stopping, ready, stopOf, letGo, host, hostOf, active>>
        /\ pending[id] # 0 /\ pending[id] = child
    BY <1>2 DEF Response
  <2>2. shaking' \in {"no", "asked", "answered", "failed", "unfit", "leaving"}
    BY <1>2 DEF Response, CliTypeOK
  <2>3. CliTypeOK' /\ IsFiniteSet(active')
    <3>1. /\ pending' \in [Ids -> 0..MaxGen]
          /\ call' \in [Calls -> {"new", "joining", "ready", "sent", "answered", "failed"}]
          /\ stop' \in [AllStops -> {"new", "asking", "asked", "killing", "done"}]
      BY <2>1, CliAssumption DEF CliTypeOK
    <3> QED BY <2>1, <2>2, <3>1 DEF CliTypeOK
  <2>4. \A i \in Ids : pending'[i] \in {0, child'}
    BY <2>1 DEF TableOfCurrentChild, CliTypeOK
  <2>5. \A s \in AllStops : /\ pending'[s] # 0 => stop'[s] # "new"
                            /\ stop'[s] # "new" => stopOf'[s] \in 1..generation'
                            /\ stop'[s] = "killing" => proc'[stopOf'[s]] # "alive"
    BY <2>1 DEF StopsOfStarted, CliTypeOK, Ids
  <2>6. /\ child' \in {0, generation'} /\ generation' >= generation
        /\ child' # 0 => proc'[child'] \in {"alive", "ending"}
    BY <2>1, CliAssumption DEF ChildIsLatest, CliTypeOK
  <2>7. \A g \in Gens : proc'[g] = "alive" => proc[g] = "alive" /\ letGo'[g] = letGo[g]
    BY <2>1
  <2> QED BY <2>1, <2>3, <2>4, <2>5, <2>6, <2>7, CoreKept
<1> QED BY <1>1, <1>2

\* A time-out, an invalid line, the end of a process.
LEMMA FailSteps ==
  ASSUME CliInv, InvalidLine \/ (\E id \in Ids : GiveUp(id)) \/ \E g \in Gens : Exit(g)
  PROVE  CliInv'
<1> USE DEF CliInv
<1>1. ASSUME NEW g, FailProcess(g), UNCHANGED <<generation, stopping, stopOf, letGo, host, hostOf>>,
             proc' \in [Gens -> {"none", "alive", "ending", "gone"}],
             \A h \in Gens : /\ proc'[h] = "alive" => proc[h] = "alive" /\ h # g
                             /\ h # g => proc'[h] = proc[h]
      PROVE  CliInv'
  <2>1. FailedFor(g) /\ active' = IF child = g THEN {} ELSE active
    BY <1>1 DEF FailProcess
  <2>2. IsFiniteSet(active') /\ Cardinality(active') <= HostCap /\ active' \subseteq HostCalls
    BY <2>1, ActiveKeeps DEF CliTypeOK
  <2>3. /\ ready' \in BOOLEAN
        /\ pending' \in [Ids -> 0..MaxGen]
        /\ call' \in [Calls -> {"new", "joining", "ready", "sent", "answered", "failed"}]
        /\ shaking' \in {"no", "asked", "answered", "failed", "unfit", "leaving"}
        /\ stop' \in [AllStops -> {"new", "asking", "asked", "killing", "done"}]
        /\ child' \in {0, child}
    BY <2>1, FailKeeps
  <2>4. CliTypeOK'
    BY <1>1, <2>2, <2>3, CliAssumption DEF CliTypeOK
  <2> QED BY <1>1, <2>1, <2>2, <2>4, CoreFailed
<1>2. ASSUME proc' = ToldToEnd(child), FailProcess(child),
             UNCHANGED <<generation, stopping, stopOf, letGo, host, hostOf>>
      PROVE  CliInv'
  <2>1. /\ proc' \in [Gens -> {"none", "alive", "ending", "gone"}]
        /\ \A h \in Gens : proc'[h] = IF h = child /\ proc[h] = "alive" THEN "ending" ELSE proc[h]
    BY <1>2, ToldKeeps
  <2>2. \A h \in Gens : /\ proc'[h] = "alive" => proc[h] = "alive" /\ h # child
                        /\ h # child => proc'[h] = proc[h]
    BY <2>1
  <2> QED BY <1>1, <1>2, <2>1, <2>2
<1>3. CASE InvalidLine
  BY <1>2, <1>3 DEF InvalidLine
<1>4. ASSUME NEW id \in Ids, GiveUp(id) PROVE CliInv'
  BY <1>2, <1>4 DEF GiveUp
<1>5. ASSUME NEW g \in Gens, Exit(g) PROVE CliInv'
  <2>1. /\ proc' = [proc EXCEPT ![g] = "gone"] /\ FailProcess(g)
        /\ UNCHANGED <<generation, stopping, stopOf, letGo, host, hostOf>>
    BY <1>5 DEF Exit
  <2>2. /\ proc' \in [Gens -> {"none", "alive", "ending", "gone"}]
        /\ \A h \in Gens : /\ proc'[h] = "alive" => proc[h] = "alive" /\ h # g
                           /\ h # g => proc'[h] = proc[h]
    BY <2>1 DEF CliTypeOK
  <2> QED BY <1>1, <2>1, <2>2
<1> QED BY <1>3, <1>4, <1>5

\* A request of the CLI to the host, and the answer to it.
LEMMA HostSteps ==
  ASSUME CliInv, NEW h \in HostCalls, HostRequest(h) \/ HostSettles(h)
  PROVE  CliInv'
<1> USE DEF CliInv
<1>1. ASSUME Answered, UNCHANGED <<generation, stopping, stopOf, letGo>>,
             host' \in [HostCalls -> {"new", "running", "over"}],
             hostOf' \in [HostCalls -> 0..MaxGen],
             IsFiniteSet(active'), Cardinality(active') <= HostCap, active' \subseteq HostCalls
      PROVE  CliInv'
  <2>1. CASE UNCHANGED <<proc, child, ready, pending, call, stop, shaking>>
    <3>1. CliTypeOK'
      BY <1>1, <2>1 DEF CliTypeOK
    <3> QED BY <1>1, <2>1, <3>1, CoreSame
  <2>2. CASE proc' = ToldToEnd(child) /\ FailedFor(child)
    <3>1. /\ proc' \in [Gens -> {"none", "alive", "ending", "gone"}]
          /\ \A g \in Gens : proc'[g] = IF g = child /\ proc[g] = "alive" THEN "ending" ELSE proc[g]
      BY <2>2, ToldKeeps
    <3>2. \A g \in Gens : /\ proc'[g] = "alive" => proc[g] = "alive" /\ g # child
                          /\ g # child => proc'[g] = proc[g]
      BY <3>1
    <3>3. /\ ready' \in BOOLEAN
          /\ pending' \in [Ids -> 0..MaxGen]
          /\ call' \in [Calls -> {"new", "joining", "ready", "sent", "answered", "failed"}]
          /\ shaking' \in {"no", "asked", "answered", "failed", "unfit", "leaving"}
          /\ stop' \in [AllStops -> {"new", "asking", "asked", "killing", "done"}]
          /\ child' \in {0, child}
      BY <2>2, FailKeeps
    <3>4. CliTypeOK'
      BY <1>1, <3>1, <3>3, CliAssumption DEF CliTypeOK
    <3> QED BY <1>1, <2>2, <3>2, <3>4, CoreFailed
  <2> QED BY <1>1, <2>1, <2>2 DEF Answered
<1>2. /\ child \in 0..MaxGen /\ active \subseteq HostCalls
      /\ host \in [HostCalls -> {"new", "running", "over"}] /\ hostOf \in [HostCalls -> 0..MaxGen]
  BY CliAssumption DEF CliTypeOK
<1>3. CASE HostRequest(h)
  <2>1. CASE /\ Cardinality(active) < HostCap
             /\ host' = [host EXCEPT ![h] = "running"]
             /\ hostOf' = [hostOf EXCEPT ![h] = child]
             /\ active' = active \cup {h}
             /\ UNCHANGED <<proc, child, ready, pending, call, stop, shaking>>
    <3>1. /\ host' \in [HostCalls -> {"new", "running", "over"}]
          /\ hostOf' \in [HostCalls -> 0..MaxGen]
      BY <1>2, <2>1
    <3>2. IsFiniteSet(active') /\ Cardinality(active') <= HostCap /\ active' \subseteq HostCalls
      BY <1>2, <2>1, ActiveKeeps
    <3> QED BY <1>1, <1>3, <2>1, <3>1, <3>2 DEF Answered, HostRequest
  <2>2. CASE /\ host' = [host EXCEPT ![h] = "over"]
             /\ Answered
             /\ active' = IF child' = child THEN active ELSE {}
             /\ UNCHANGED hostOf
    <3>1. host' \in [HostCalls -> {"new", "running", "over"}]
      BY <1>2, <2>2
    <3>2. IsFiniteSet(active') /\ Cardinality(active') <= HostCap /\ active' \subseteq HostCalls
      BY <1>2, <2>2, ActiveKeeps DEF CliTypeOK
    <3> QED BY <1>1, <1>2, <1>3, <2>2, <3>1, <3>2 DEF HostRequest
  <2> QED BY <1>3, <2>1, <2>2 DEF HostRequest
<1>4. CASE HostSettles(h)
  <2>1. /\ host' = [host EXCEPT ![h] = "over"]
        /\ hostOf' = [hostOf EXCEPT ![h] = 0]
        /\ Answered
        /\ active' = IF child' = child THEN active \ {h} ELSE {}
        /\ UNCHANGED <<generation, stopping, stopOf, letGo>>
    BY <1>4 DEF HostSettles, Answered
  <2>2. /\ host' \in [HostCalls -> {"new", "running", "over"}]
        /\ hostOf' \in [HostCalls -> 0..MaxGen]
    BY <1>2, <2>1, CliAssumption
  <2>3. IsFiniteSet(active') /\ Cardinality(active') <= HostCap /\ active' \subseteq HostCalls
    BY <1>2, <2>1, ActiveKeeps
  <2> QED BY <1>1, <2>1, <2>2, <2>3
<1> QED BY <1>3, <1>4

\* shutdown(), from the request to the tail that clears field and table.
LEMMA StopSteps ==
  ASSUME CliInv, NEW s \in AllStops,
         (s \in Stops /\ Shutdown(s)) \/ ShutdownUnfit \/ StopKill(s) \/ StopTail(s)
  PROVE  CliInv'
<1> USE DEF CliInv
<1>1. /\ MaxGen \in Nat /\ generation \in 0..MaxGen /\ child \in {0, generation}
      /\ child # 0 => proc[child] \in {"alive", "ending"}
      /\ \A i \in Ids : pending[i] \in {0, child}
      /\ AllStops \subseteq Ids /\ Unfit \in AllStops
  BY CliAssumption DEF CliTypeOK, ChildIsLatest, TableOfCurrentChild, Ids, AllStops
<1>2. ASSUME NEW q \in AllStops, BeginStop(q),
             shaking' \in {"no", "asked", "answered", "failed", "unfit", "leaving"}
      PROVE  CliInv'
  <2>1. /\ child # 0 /\ stopping' = TRUE /\ active' = {}
        /\ pending' = [pending EXCEPT ![q] = child]
        /\ stop' = [stop EXCEPT ![q] = "asking"]
        /\ stopOf' = [stopOf EXCEPT ![q] = child]
        /\ UNCHANGED <<proc, child, generation, ready, call, letGo, host, hostOf>>
    BY <1>2 DEF BeginStop
  <2>2. CliTypeOK' /\ IsFiniteSet(active')
    <3>1. /\ pending' \in [Ids -> 0..MaxGen]
          /\ stop' \in [AllStops -> {"new", "asking", "asked", "killing", "done"}]
          /\ stopOf' \in [AllStops -> 0..MaxGen]
      BY <1>1, <2>1 DEF CliTypeOK
    <3>2. IsFiniteSet(active') /\ Cardinality(active') <= HostCap /\ active' \subseteq HostCalls
      BY <2>1, ActiveKeeps
    <3>3. stopping' \in BOOLEAN
      BY <2>1
    <3> QED BY <1>2, <2>1, <3>1, <3>2, <3>3 DEF CliTypeOK
  <2>3. \A i \in Ids : pending'[i] \in {0, child'}
    BY <1>1, <2>1 DEF CliTypeOK
  <2>4. \A r \in AllStops : /\ pending'[r] # 0 => stop'[r] # "new"
                            /\ stop'[r] # "new" => stopOf'[r] \in 1..generation'
                            /\ stop'[r] = "killing" => proc'[stopOf'[r]] # "alive"
    BY <1>1, <2>1 DEF StopsOfStarted, CliTypeOK
  <2>5. \A g \in Gens : proc'[g] = "alive" => proc[g] = "alive" /\ letGo'[g] = letGo[g]
    BY <2>1
  <2>6. /\ child' \in {0, generation'} /\ generation' >= generation
        /\ child' # 0 => proc'[child'] \in {"alive", "ending"}
    BY <1>1, <2>1
  <2> QED BY <2>1, <2>2, <2>3, <2>4, <2>5, <2>6, CoreKept
<1>3. CASE s \in Stops /\ Shutdown(s)
  BY <1>2, <1>3 DEF Shutdown, CliTypeOK
<1>4. CASE ShutdownUnfit
  <2>1. CASE BeginStop(Unfit) /\ shaking' = "leaving"
    BY <1>1, <1>2, <2>1
  <2>2. CASE /\ shaking' = "failed"
             /\ UNCHANGED <<proc, child, generation, stopping, ready, pending, call, stop, stopOf,
                            letGo, host, hostOf, active>>
    <3>1. CliTypeOK' /\ IsFiniteSet(active')
      BY <2>2 DEF CliTypeOK
    <3> QED BY <2>2, <3>1, CoreSame
  <2> QED BY <1>4, <2>1, <2>2 DEF ShutdownUnfit
<1>5. CASE StopKill(s)
  <2>1. /\ stop[s] = "asked" /\ stop' = [stop EXCEPT ![s] = "killing"]
        /\ proc' = ToldToEnd(stopOf[s])
        /\ UNCHANGED <<child, generation, stopping, ready, shaking, pending, call, stopOf, letGo,
                       host, hostOf, active>>
    BY <1>5 DEF StopKill
  <2>2. /\ proc' \in [Gens -> {"none", "alive", "ending", "gone"}]
        /\ \A g \in Gens :
             proc'[g] = IF g = stopOf[s] /\ proc[g] = "alive" THEN "ending" ELSE proc[g]
    BY <2>1, ToldKeeps
  <2>3. CliTypeOK' /\ IsFiniteSet(active')
    BY <2>1, <2>2 DEF CliTypeOK
  <2>4. \A r \in AllStops : stop[r] # "new" => stopOf[r] \in Gens
    BY <1>1 DEF StopsOfStarted, Gens
  <2>5. \A r \in AllStops : /\ pending'[r] # 0 => stop'[r] # "new"
                            /\ stop'[r] # "new" => stopOf'[r] \in 1..generation'
                            /\ stop'[r] = "killing" => proc'[stopOf'[r]] # "alive"
    BY <2>1, <2>2, <2>4 DEF StopsOfStarted, CliTypeOK
  <2>6. \A g \in Gens : proc'[g] = "alive" => proc[g] = "alive" /\ letGo'[g] = letGo[g]
    BY <2>1, <2>2
  <2>7. /\ child' \in {0, generation'} /\ generation' >= generation
        /\ child' # 0 => proc'[child'] \in {"alive", "ending"}
    BY <1>1, <2>1, <2>2 DEF Gens
  <2>8. \A i \in Ids : pending'[i] \in {0, child'}
    BY <1>1, <2>1
  <2> QED BY <2>1, <2>3, <2>5, <2>6, <2>7, <2>8, CoreKept
<1>6. CASE StopTail(s)
  <2> DEFINE to == IF s = Unfit THEN "new" ELSE "done"
             stops == [stop EXCEPT ![s] = to]
             shake == IF s = Unfit THEN "failed" ELSE shaking
  <2>1. /\ stop[s] = "killing" /\ child' = 0 /\ ready' = FALSE
        /\ letGo' = [g \in Gens |-> IF g = child THEN stopOf[s] ELSE letGo[g]]
        /\ RejectPending(stops, shake)
        /\ UNCHANGED <<proc, generation, stopping, stopOf, host, hostOf, active>>
    BY <1>6 DEF StopTail
  <2>2. /\ stops \in [AllStops -> {"new", "asking", "asked", "killing", "done"}]
        /\ shake \in {"no", "asked", "answered", "failed", "unfit", "leaving"}
        /\ \A r \in AllStops : /\ stops[r] # "new" => stop[r] # "new"
                               /\ stops[r] = "killing" => stop[r] = "killing"
    BY <2>1 DEF CliTypeOK
  <2> HIDE DEF stops, shake
  <2>3. /\ pending' \in [Ids -> 0..MaxGen] /\ \A i \in Ids : pending'[i] = 0
        /\ call' \in [Calls -> {"new", "joining", "ready", "sent", "answered", "failed"}]
        /\ shaking' \in {"no", "asked", "answered", "failed", "unfit", "leaving"}
        /\ stop' \in [AllStops -> {"new", "asking", "asked", "killing", "done"}]
        /\ \A r \in AllStops : /\ stop'[r] # "new" => stop[r] # "new"
                               /\ stop'[r] = "killing" => stop[r] = "killing"
    BY <2>1, <2>2, RejectKeeps
  <2>4. CliTypeOK' /\ IsFiniteSet(active')
    <3>1. stopOf[s] \in 0..MaxGen /\ generation \in Nat
      BY DEF CliTypeOK
    <3>2. letGo' \in [Gens -> 0..MaxGen]
      BY <2>1, <3>1 DEF CliTypeOK
    <3>3. child' \in 0..generation'
      BY <2>1, <3>1
    <3>4. ready' \in BOOLEAN /\ stopping' \in BOOLEAN
      BY <2>1 DEF CliTypeOK
    <3> QED BY <2>1, <2>3, <3>2, <3>3, <3>4 DEF CliTypeOK
  <2>5. \A r \in AllStops : /\ pending'[r] # 0 => stop'[r] # "new"
                            /\ stop'[r] # "new" => stopOf'[r] \in 1..generation'
                            /\ stop'[r] = "killing" => proc'[stopOf'[r]] # "alive"
    BY <1>1, <2>1, <2>3 DEF StopsOfStarted
  <2>6. stopOf[s] \in 1..generation /\ proc[stopOf[s]] # "alive"
    BY <2>1 DEF StopsOfStarted
  <2>7. \A g \in Gens : proc'[g] = "alive" =>
          \/ g # child /\ letGo'[g] = letGo[g]
          \/ letGo'[g] \in 1..(g - 1)
    <3> SUFFICES ASSUME NEW g \in Gens, proc'[g] = "alive", g = child
                 PROVE  letGo'[g] \in 1..(g - 1)
      BY <2>1
    <3>1. letGo'[g] = stopOf[s] /\ g = generation /\ stopOf[s] # g
      BY <1>1, <2>1, <2>6 DEF Gens
    <3> QED BY <1>1, <2>6, <3>1
  <2>8. /\ child' \in {0, generation'} /\ generation' >= generation /\ child' = 0
        /\ \A g \in Gens : proc'[g] = proc[g]
        /\ \A i \in Ids : pending'[i] \in {0, child'}
    BY <1>1, <2>1, <2>3
  <2> QED BY <2>4, <2>5, <2>7, <2>8, CoreKept
<1> QED BY <1>3, <1>4, <1>5, <1>6

-----------------------------------------------------------------------------
\* Nothing has been started, asked or stopped at the beginning.
LEMMA InitCliInv == CliInit => CliInv
<1> SUFFICES ASSUME CliInit PROVE CliInv
  OBVIOUS
<1>1. IsFiniteSet({}) /\ Cardinality({}) = 0
  BY FS_EmptySet
<1>2. CliTypeOK
  <2>1. /\ proc \in [Gens -> {"none", "alive", "ending", "gone"}]
        /\ call \in [Calls -> {"new", "joining", "ready", "sent", "answered", "failed"}]
        /\ stop \in [AllStops -> {"new", "asking", "asked", "killing", "done"}]
        /\ host \in [HostCalls -> {"new", "running", "over"}]
        /\ shaking \in {"no", "asked", "answered", "failed", "unfit", "leaving"}
    BY DEF CliInit
  <2>2. stopping \in BOOLEAN /\ ready \in BOOLEAN
    BY DEF CliInit
  <2>3. generation \in 0..MaxGen /\ child \in 0..generation
    BY CliAssumption DEF CliInit
  <2>4. /\ pending \in [Ids -> 0..MaxGen] /\ stopOf \in [AllStops -> 0..MaxGen]
        /\ letGo \in [Gens -> 0..MaxGen] /\ hostOf \in [HostCalls -> 0..MaxGen]
    BY CliAssumption DEF CliInit
  <2>5. active \subseteq HostCalls /\ Cardinality(active) <= HostCap
    BY <1>1, CliAssumption DEF CliInit
  <2> QED BY <2>1, <2>2, <2>3, <2>4, <2>5 DEF CliTypeOK
<1> QED BY <1>1, <1>2 DEF CliInit, CliInv, ChildIsLatest, StopsOfStarted,
                         TableOfCurrentChild, DetachedByOverlapOnly, Ids, AllStops, Gens

\* Every step of callers, CLI, host and shutdowns keeps the invariant.
LEMMA NextCliInv == CliInv /\ [CliNext]_cliVars => CliInv'
<1> SUFFICES ASSUME CliInv, [CliNext]_cliVars PROVE CliInv'
  OBVIOUS
<1>1. CASE UNCHANGED cliVars
  BY <1>1, CoreSame DEF cliVars, CliInv, CliTypeOK
<1>2. ASSUME NEW c \in Calls, Initialize(c) \/ Request(c) PROVE CliInv'
  BY <1>2, CallSteps
<1>3. ASSUME HandshakeSettled \/ \E id \in Ids : Response(id) PROVE CliInv'
  BY <1>3, AnswerSteps
<1>4. ASSUME InvalidLine \/ (\E id \in Ids : GiveUp(id)) \/ \E g \in Gens : Exit(g)
      PROVE  CliInv'
  BY <1>4, FailSteps
<1>5. ASSUME NEW h \in HostCalls, HostRequest(h) \/ HostSettles(h) PROVE CliInv'
  BY <1>5, HostSteps
<1>6. ASSUME NEW s \in AllStops,
             (s \in Stops /\ Shutdown(s)) \/ ShutdownUnfit \/ StopKill(s) \/ StopTail(s)
      PROVE  CliInv'
  BY <1>6, StopSteps
<1>7. Unfit \in AllStops /\ Stops \subseteq AllStops
  BY DEF AllStops
<1> QED BY <1>1, <1>2, <1>3, <1>4, <1>5, <1>6, <1>7 DEF CliNext, Settling

\* The inductive invariant holds throughout, for any number of users,
\* shutdowns, host requests and generations.
THEOREM CliInductive == CliSpec => []CliInv
  BY InitCliInv, NextCliInv, PTL DEF CliSpec

\* The variables of CliAgentProcess keep their types: no host request is
\* admitted past the limit of a process, no field names a process never started.
THEOREM CliTypeCorrect == CliSpec => []CliTypeOK
<1>1. CliInv => CliTypeOK
  BY DEF CliInv
<1> QED BY <1>1, CliInductive, PTL

\* The request table never holds a request of a process that was replaced, let
\* go or is gone (failProcess, rejectPending, shutdown).
THEOREM TableIsCurrent == CliSpec => []TableOfCurrentChild
<1>1. CliInv => TableOfCurrentChild
  BY DEF CliInv
<1> QED BY <1>1, CliInductive, PTL

\* A process that is neither the current one nor told to end was let go by the
\* tail of a shutdown that had been waiting for an earlier generation.
THEOREM LetGoByOverlap == CliSpec => []DetachedByOverlapOnly
<1>1. CliInv => DetachedByOverlapOnly
  BY DEF CliInv
<1> QED BY <1>1, CliInductive, PTL

-----------------------------------------------------------------------------
(* The sessions *)

Maps ==
  [procs : [Keys -> 0..MaxBindings], bound : [Sessions -> 0..MaxBindings],
   routes : [Sessions -> 0..MaxBindings], asked : SUBSET Bindings,
   timer : [Keys -> 0..MaxBindings], tries : [Keys -> 0..MaxTries]]

\* A binding made for a session.
Serves(b, s) == b \in Bindings /\ keyOf[b] # NoKey /\ SessionOf(b) = s

\* Bindings are numbered in the order they are made.
Numbered == \E n \in 0..MaxBindings : \A b \in Bindings : keyOf[b] # NoKey <=> b <= n

\* The maps, the turns and the processes name bindings that are made, each by its
\* key or its session.
Keyed ==
  /\ \A k \in Keys : maps.procs[k] # 0 => keyOf[maps.procs[k]] = k
  /\ \A k \in Keys : maps.timer[k] # 0 => keyOf[maps.timer[k]] = k
  /\ \A s \in Sessions : maps.bound[s] # 0 => Serves(maps.bound[s], s) /\ maps.bound[s] \in owns
  /\ \A s \in Sessions : turn[s] # "none" => Serves(turnAt[s], s)
  /\ \A b \in Bindings : up[b] # "down" \/ b \in recovering => keyOf[b] # NoKey

Waiting == {"new", "queued", "over"}
Making == {"starting", "opening"}

\* Of the openings one is past the admission, a session is opened once, and not
\* while it is bound.
Openings ==
  /\ \A o, p \in Opens : open[o] \notin Waiting /\ open[p] \notin Waiting => o = p
  /\ \A o, p \in Opens :
       open[o] \notin {"new", "over"} /\ open[p] \notin {"new", "over"}
         /\ OpenOf[o].session = OpenOf[p].session => o = p
  /\ \A o \in Opens : open[o] \notin {"new", "over"} => maps.bound[OpenOf[o].session] = 0
  /\ \A o \in Opens : open[o] \in Making =>
       openFor[o] \in Bindings /\ keyOf[openFor[o]] = OpenOf[o]

\* An opening that was admitted still finds room.
Capacity ==
  \A o \in Opens : open[o] \in Making \cup {"admitted"} => BoundCount(maps) < MaxSessions

\* A binding that is not, or no longer, the one of its key.
Gone(b) == maps.procs[keyOf[b]] # b

\* What a session is bound to is not being shut down, and a turn is routed to its
\* binding, unless that is gone.
Routed ==
  \A s \in Sessions :
    /\ maps.bound[s] # 0 => up[maps.bound[s]] # "stopping"
    /\ turn[s] = "running" => maps.routes[s] = turnAt[s] \/ Gone(turnAt[s])

SessInv ==
  /\ SessTypeOK /\ maps \in Maps
  /\ Numbered /\ Keyed /\ Openings /\ Capacity /\ SessionsBounded /\ Routed

-----------------------------------------------------------------------------
\* What the private methods leave of the maps m, of which they forget b.
Forgets(m2, m, b) ==
  /\ m2 \in Maps
  /\ \A k \in Keys : /\ m2.procs[k] \in {0, m.procs[k]}
                     /\ m2.timer[k] \in {0, m.timer[k]} \/ (k = keyOf[b] /\ m2.timer[k] = b)
  /\ \A s \in Sessions : /\ m2.bound[s] \in {0, m.bound[s]}
                         /\ m2.routes[s] = m.routes[s] \/ m.routes[s] = b

\* b is in no map that calls look it up in.
Unmapped(m, b) == m.procs[keyOf[b]] = 0 /\ (b \in owns => m.bound[SessionOf(b)] = 0)

\* Nothing, and a binding, where a map has one or the other.
LEMMA ZeroTyped ==
  /\ 0 \in 0..MaxBindings /\ 0 \in 0..MaxTries
  /\ \A b \in Bindings : b \in 0..MaxBindings /\ b # 0 /\ b \in Nat
BY SessionsAssumption DEF Bindings

\* The key of a binding that was made.
LEMMA KeyIsKey ==
  ASSUME keyOf \in [Bindings -> Keys \cup {NoKey}], NEW b \in Bindings, keyOf[b] # NoKey
  PROVE  keyOf[b] \in Keys /\ SessionOf(b) \in Sessions
BY DEF Keys, SessionOf

\* One thing that forgets b after another does so, too.
LEMMA ForgetsTwice ==
  ASSUME NEW m, NEW m2, NEW m3, NEW b, Forgets(m2, m, b), Forgets(m3, m2, b)
  PROVE  Forgets(m3, m, b)
BY DEF Forgets

\* clearBindingRoutes
LEMMA RoutesCleared ==
  ASSUME NEW m \in Maps, NEW b \in Bindings
  PROVE  Forgets(ClearRoutes(m, b), m, b)
<1>1. PICK rt : rt = [s \in Sessions |-> IF m.routes[s] = b THEN 0 ELSE m.routes[s]]
  OBVIOUS
<1>4. rt \in [Sessions -> 0..MaxBindings]
  BY <1>1, ZeroTyped DEF Maps
<1>2. ClearRoutes(m, b) = [m EXCEPT !.routes = rt, !.asked = m.asked \ {b}]
  BY <1>1 DEF ClearRoutes
<1>3. /\ ClearRoutes(m, b) \in Maps
      /\ ClearRoutes(m, b).procs = m.procs /\ ClearRoutes(m, b).bound = m.bound
      /\ ClearRoutes(m, b).timer = m.timer /\ ClearRoutes(m, b).routes = rt
  BY <1>2, <1>4 DEF Maps
<1> QED BY <1>1, <1>3, <1>4 DEF Forgets

\* removeBinding
LEMMA BindingRemoved ==
  ASSUME NEW m \in Maps, NEW b \in Bindings, keyOf[b] \in Keys, SessionOf(b) \in Sessions
  PROVE  /\ Forgets(Unmap(m, b), m, b) /\ Unmapped(Unmap(m, b), b)
         /\ Unmap(m, b).timer = m.timer /\ Unmap(m, b).tries = m.tries
<1>1. PICK c : c = ClearRoutes(m, b)
  OBVIOUS
<1>2. Forgets(c, m, b) /\ c \in Maps /\ c.timer = m.timer /\ c.tries = m.tries
  <2>1. c.timer = m.timer /\ c.tries = m.tries
    BY <1>1 DEF ClearRoutes, Maps
  <2> QED BY <1>1, <2>1, RoutesCleared DEF Forgets
<1>11. PICK pr : pr = [c.procs EXCEPT ![keyOf[b]] = 0]
  OBVIOUS
<1>3. pr \in [Keys -> 0..MaxBindings] /\ pr = [c.procs EXCEPT ![keyOf[b]] = 0]
  BY <1>2, <1>11, ZeroTyped DEF Maps
<1>4. PICK r : r = [c EXCEPT !.procs = pr]
  OBVIOUS
<1>5. /\ r \in Maps /\ r.procs = pr /\ r.bound = c.bound /\ r.routes = c.routes
      /\ r.timer = c.timer /\ r.tries = c.tries
  BY <1>2, <1>3, <1>4 DEF Maps
<1>6. pr[keyOf[b]] = 0 /\ \A k \in Keys : pr[k] \in {0, c.procs[k]}
  BY <1>2, <1>3 DEF Maps
<1>7. Forgets(r, c, b)
  BY <1>2, <1>5, <1>6 DEF Forgets
<1>8. r = [ClearRoutes(m, b) EXCEPT !.procs[keyOf[b]] = 0]
  BY <1>1, <1>3, <1>4
<1>9. CASE b \notin owns
  <2>1. Unmap(m, b) = r
    BY <1>8, <1>9 DEF Unmap
  <2> QED BY <1>2, <1>5, <1>6, <1>7, <1>9, <2>1, ForgetsTwice DEF Unmapped
<1>10. CASE b \in owns
  <2>8. PICK bd : bd = [r.bound EXCEPT ![SessionOf(b)] = 0]
    OBVIOUS
  <2>1. /\ bd \in [Sessions -> 0..MaxBindings]
        /\ bd = [r.bound EXCEPT ![SessionOf(b)] = 0]
    BY <1>5, <2>8, ZeroTyped DEF Maps
  <2>2. bd[SessionOf(b)] = 0 /\ \A s \in Sessions : bd[s] \in {0, r.bound[s]}
    BY <1>5, <2>1 DEF Maps
  <2>3. PICK z : z = [r EXCEPT !.bound = bd]
    OBVIOUS
  <2>4. /\ z \in Maps /\ z.procs = r.procs /\ z.bound = bd /\ z.routes = r.routes
        /\ z.timer = r.timer /\ z.tries = r.tries
    BY <1>5, <2>1, <2>3 DEF Maps
  <2>5. Forgets(z, r, b)
    BY <1>5, <2>2, <2>4 DEF Forgets
  <2>6. Unmap(m, b) = z
    BY <1>8, <1>10, <2>1, <2>3 DEF Unmap
  <2>7. Forgets(z, m, b)
    BY <1>2, <1>7, <2>5, ForgetsTwice
  <2> QED BY <1>2, <1>5, <1>6, <2>2, <2>4, <2>6, <2>7 DEF Unmapped
<1> QED BY <1>9, <1>10

\* shutdownBinding before it awaits the end of the process.
LEMMA BindingDismissed ==
  ASSUME NEW m \in Maps, NEW b \in Bindings, keyOf[b] \in Keys, SessionOf(b) \in Sessions
  PROVE  /\ Forgets(Dismiss(m, b), m, b) /\ Unmapped(Dismiss(m, b), b)
         /\ \A k \in Keys : Dismiss(m, b).timer[k] \in {0, m.timer[k]}
<1>1. PICK c : c = Unmap(m, b)
  OBVIOUS
<1>2. Forgets(c, m, b) /\ c \in Maps /\ Unmapped(c, b) /\ c.timer = m.timer
  BY <1>1, BindingRemoved DEF Forgets
<1>10. PICK tm : tm = [c.timer EXCEPT ![keyOf[b]] = 0]
  OBVIOUS
<1>3. tm \in [Keys -> 0..MaxBindings] /\ tm = [c.timer EXCEPT ![keyOf[b]] = 0]
  BY <1>2, <1>10, ZeroTyped DEF Maps
<1>11. PICK tr : tr = [c.tries EXCEPT ![keyOf[b]] = 0]
  OBVIOUS
<1>4. tr \in [Keys -> 0..MaxTries] /\ tr = [c.tries EXCEPT ![keyOf[b]] = 0]
  BY <1>2, <1>11, ZeroTyped DEF Maps
<1>5. PICK z : z = [c EXCEPT !.timer = tm, !.tries = tr]
  OBVIOUS
<1>6. /\ z \in Maps /\ z.procs = c.procs /\ z.bound = c.bound /\ z.routes = c.routes
      /\ z.timer = tm
  BY <1>2, <1>3, <1>4, <1>5 DEF Maps
<1>7. \A k \in Keys : tm[k] \in {0, c.timer[k]}
  BY <1>2, <1>3 DEF Maps
<1>8. Forgets(z, c, b)
  BY <1>6, <1>7 DEF Forgets
<1>9. Dismiss(m, b) = z
  BY <1>1, <1>3, <1>4, <1>5 DEF Dismiss, ClearRecovery
<1> QED BY <1>2, <1>6, <1>7, <1>8, <1>9, ForgetsTwice DEF Unmapped

\* scheduleRecovery: a timer, none, or the end of the binding.
LEMMA RecoveryScheduled ==
  ASSUME NEW m \in Maps, NEW b \in Bindings, keyOf[b] \in Keys, SessionOf(b) \in Sessions
  PROVE  /\ Forgets(Recover(m, b), m, b)
         /\ \/ Recover(m, b).routes = m.routes
            \/ Unmapped(Recover(m, b), b) /\ Recover(m, b).timer = m.timer
<1>1. PICK k \in Keys : k = keyOf[b]
  OBVIOUS
<1>2. CASE m.tries[k] >= MaxTries
  <2>1. Recover(m, b) = Unmap(m, b)
    BY <1>1, <1>2, SessionsAssumption DEF Recover, Maps
  <2> QED BY <2>1, BindingRemoved
<1>3. CASE m.tries[k] < MaxTries /\ m.timer[k] # 0
  <2>1. Recover(m, b) = m
    BY <1>1, <1>3, SessionsAssumption DEF Recover, Maps
  <2> QED BY <2>1 DEF Forgets
<1>4. CASE m.tries[k] < MaxTries /\ m.timer[k] = 0
  <2>8. PICK tm : tm = [m.timer EXCEPT ![k] = b]
    OBVIOUS
  <2>1. tm \in [Keys -> 0..MaxBindings] /\ tm = [m.timer EXCEPT ![k] = b]
    BY <2>8, ZeroTyped DEF Maps
  <2>2. m.tries[k] + 1 \in 0..MaxTries
    BY <1>4, SessionsAssumption DEF Maps
  <2>3. PICK tr \in [Keys -> 0..MaxTries] : tr = [m.tries EXCEPT ![k] = m.tries[k] + 1]
    BY <2>2 DEF Maps
  <2>4. PICK z : z = [m EXCEPT !.tries = tr, !.timer = tm]
    OBVIOUS
  <2>5. Recover(m, b) = z
    BY <1>1, <1>4, <2>1, <2>3, <2>4, SessionsAssumption DEF Recover, Maps
  <2>6. /\ z \in Maps /\ z.procs = m.procs /\ z.bound = m.bound /\ z.routes = m.routes
        /\ z.timer = tm
    BY <2>1, <2>3, <2>4 DEF Maps
  <2>7. \A j \in Keys : tm[j] = m.timer[j] \/ (j = k /\ tm[j] = b)
    BY <2>1 DEF Maps
  <2> QED BY <1>1, <2>5, <2>6, <2>7 DEF Forgets
<1>5. m.tries[k] \in Nat /\ MaxTries \in Nat
  BY SessionsAssumption DEF Maps
<1> QED BY <1>2, <1>3, <1>4, <1>5

-----------------------------------------------------------------------------
\* Maps that bind no further session count no more, and those that bind one at
\* most one more.
LEMMA CountKept ==
  ASSUME NEW m, NEW m2, \A s \in Sessions : m2.bound[s] \in {0, m.bound[s]}
  PROVE  BoundCount(m2) \in Nat /\ BoundCount(m) \in Nat /\ BoundCount(m2) <= BoundCount(m)
<1> DEFINE A == {s \in Sessions : m.bound[s] # 0}
           B == {s \in Sessions : m2.bound[s] # 0}
<1>1. IsFiniteSet(A)
  BY FS_Subset, SessionsAssumption
<1>2. B \subseteq A
  OBVIOUS
<1> HIDE DEF A, B
<1>3. Cardinality(B) \in Nat /\ Cardinality(A) \in Nat /\ Cardinality(B) <= Cardinality(A)
  BY <1>1, <1>2, FS_Subset, FS_CardinalityType
<1> QED BY <1>3 DEF BoundCount, A, B

\* If only one session changes its binding, the number of bound sessions grows by
\* at most one.
LEMMA CountOneMore ==
  ASSUME NEW m, NEW m2, NEW t \in Sessions,
         \A s \in Sessions : s # t => m2.bound[s] = m.bound[s]
  PROVE  /\ BoundCount(m2) \in Nat /\ BoundCount(m) \in Nat
         /\ BoundCount(m2) <= BoundCount(m) + 1
<1> DEFINE A == {s \in Sessions : m.bound[s] # 0}
           B == {s \in Sessions : m2.bound[s] # 0}
<1>1. IsFiniteSet(A) /\ IsFiniteSet(A \cup {t})
  BY FS_Subset, FS_AddElement, SessionsAssumption
<1>2. B \subseteq A \cup {t}
  OBVIOUS
<1> HIDE DEF A, B
<1>3. /\ Cardinality(B) \in Nat /\ Cardinality(A) \in Nat /\ Cardinality(A \cup {t}) \in Nat
      /\ Cardinality(B) <= Cardinality(A \cup {t})
  BY <1>1, <1>2, FS_Subset, FS_CardinalityType
<1>4. Cardinality(A \cup {t}) <= Cardinality(A) + 1
  BY <1>1, <1>3, FS_AddElement
<1>5. Cardinality(B) <= Cardinality(A) + 1
  BY <1>3, <1>4
<1> QED BY <1>3, <1>5 DEF BoundCount, A, B

\* A step that makes no binding, binds no session and takes no opening further.
LEMMA QuietKeeps ==
  ASSUME SessInv, maps' \in Maps, UNCHANGED <<keyOf, owns, openFor>>,
         \A k \in Keys : maps'.procs[k] \in {0, maps.procs[k]},
         \A k \in Keys : maps'.timer[k] # 0 => keyOf[maps'.timer[k]] = k,
         \A s \in Sessions : maps'.bound[s] \in {0, maps.bound[s]},
         \A o \in Opens : /\ open'[o] \notin {"new", "over"} => open[o] \notin {"new", "over"}
                          /\ open'[o] \notin Waiting => open[o] \notin Waiting
                          /\ open'[o] \in Making => open[o] \in Making
                          /\ open'[o] = "admitted" => open[o] = "admitted",
         \A s \in Sessions : turn'[s] # "none" => Serves(turnAt'[s], s),
         \A b \in Bindings : up'[b] # "down" \/ b \in recovering' => keyOf[b] # NoKey
  PROVE  Numbered' /\ Keyed' /\ Openings' /\ Capacity' /\ SessionsBounded'
<1>1. Numbered'
  BY DEF SessInv, Numbered
<1>2. Keyed'
  BY DEF SessInv, Keyed, Serves, SessionOf
<1>3. Openings'
  <2>1. OpenOf \in [Opens -> [how : {"create", "resume"}, session : Sessions]]
    BY SessionsAssumption
  <2> QED BY <2>1 DEF SessInv, Openings
<1>4. /\ BoundCount(maps') \in Nat /\ BoundCount(maps) \in Nat
      /\ BoundCount(maps') <= BoundCount(maps) /\ MaxSessions \in Nat
  BY CountKept, SessionsAssumption
<1>5. \A o \in Opens : open'[o] \in Making \cup {"admitted"} => BoundCount(maps') < MaxSessions
  BY <1>4 DEF SessInv, Capacity
<1>6. Capacity' /\ SessionsBounded'
  <2>1. BoundCount(maps)' = BoundCount(maps')
    BY DEF BoundCount
  <2> QED BY <1>4, <1>5, <2>1 DEF SessInv, Capacity, SessionsBounded
<1> QED BY <1>1, <1>2, <1>3, <1>6

\* A step after which the turns of the application are routed as before, or to a
\* binding that is gone.
LEMMA RoutedKept ==
  ASSUME SessInv, keyOf' = keyOf,
         \A k \in Keys : maps'.procs[k] \in {0, maps.procs[k]},
         \A s \in Sessions : maps'.bound[s] \in {0, maps.bound[s]},
         \A b \in Bindings :
           up'[b] = "stopping" => up[b] = "stopping" \/ \A s \in Sessions : maps'.bound[s] # b,
         \A s \in Sessions :
           turn'[s] = "running" =>
             \/ maps'.routes[s] = turnAt'[s]
             \/ /\ turn[s] = "running" /\ turnAt'[s] = turnAt[s]
                /\ maps.routes[s] = turnAt[s] =>
                     maps'.routes[s] = maps.routes[s] \/ maps'.procs[keyOf[turnAt[s]]] = 0
  PROVE  Routed'
<1>1. Keyed /\ Routed /\ SessTypeOK
  BY DEF SessInv
<1>2. ASSUME NEW s \in Sessions, maps'.bound[s] # 0 PROVE up'[maps'.bound[s]] # "stopping"
  <2>1. maps'.bound[s] = maps.bound[s] /\ maps'.bound[s] \in Bindings
    BY <1>1, <1>2 DEF Keyed, Serves
  <2> QED BY <1>1, <1>2, <2>1 DEF Routed
<1>3. ASSUME NEW s \in Sessions, turn'[s] = "running", maps'.routes[s] # turnAt'[s]
      PROVE  Gone(turnAt[s])'
  <2>1. turn[s] = "running" /\ turnAt'[s] = turnAt[s]
    BY <1>3
  <2>2. PICK b : b = turnAt[s]
    OBVIOUS
  <2>3. b \in Bindings /\ keyOf[b] \in Keys /\ b # 0
    <3>1. Serves(b, s)
      BY <1>1, <2>1, <2>2 DEF Keyed
    <3> QED BY <1>1, <3>1, KeyIsKey, ZeroTyped DEF SessTypeOK, Serves
  <2>4. maps'.procs[keyOf[b]] # b
    BY <1>1, <1>3, <2>1, <2>2, <2>3 DEF Routed, Gone
  <2> QED BY <2>1, <2>2, <2>4 DEF Gone
<1> QED BY <1>2, <1>3 DEF Routed

-----------------------------------------------------------------------------
\* A call of ensureStarted is queued: it holds nothing yet.
LEMMA OpenKeeps ==
  ASSUME SessInv, NEW o \in Opens, Open(o)
  PROVE  SessInv'
<1>1. /\ open[o] = "new" /\ maps.bound[OpenOf[o].session] = 0
      /\ \A p \in Opens : OpenOf[p].session = OpenOf[o].session => open[p] \in {"new", "over"}
      /\ open' = [open EXCEPT ![o] = "queued"]
      /\ UNCHANGED <<maps, keyOf, owns, up, recovering, openFor, turn, turnAt, answered,
                     ordered, clearing, crashes>>
  BY DEF Open
<1>2. \A p \in Opens : open'[p] = IF p = o THEN "queued" ELSE open[p]
  BY <1>1 DEF SessInv, SessTypeOK
<1>3. SessTypeOK' /\ (maps \in Maps)'
  BY <1>1 DEF SessInv, SessTypeOK
<1>4. Numbered' /\ Keyed' /\ SessionsBounded'
  BY <1>1 DEF SessInv, Numbered, Keyed, Serves, SessionOf, SessionsBounded, BoundCount
<1>5. Openings'
  <2>1. \A p, q \in Opens : open'[p] \notin Waiting /\ open'[q] \notin Waiting => p = q
    BY <1>2 DEF SessInv, Openings, Waiting
  <2>2. \A p, q \in Opens :
          open'[p] \notin {"new", "over"} /\ open'[q] \notin {"new", "over"}
            /\ OpenOf[p].session = OpenOf[q].session => p = q
    BY <1>1, <1>2 DEF SessInv, Openings
  <2>3. \A p \in Opens : open'[p] \notin {"new", "over"} => maps.bound[OpenOf[p].session] = 0
    BY <1>1, <1>2 DEF SessInv, Openings
  <2>4. \A p \in Opens : open'[p] \in Making =>
          openFor[p] \in Bindings /\ keyOf[openFor[p]] = OpenOf[p]
    BY <1>2 DEF SessInv, Openings, Making
  <2> QED BY <1>1, <2>1, <2>2, <2>3, <2>4 DEF Openings
<1>6. Capacity'
  BY <1>1, <1>2 DEF SessInv, Capacity, BoundCount, Making
<1>7. Routed'
  BY <1>1, <1>2 DEF SessInv, Routed, Gone, Making
<1> QED BY <1>3, <1>4, <1>5, <1>6, <1>7 DEF SessInv

\* The evicted session has been unbound before its process ends: there may be
\* room now.
LEMMA EvictedKeeps ==
  ASSUME SessInv, NEW o \in Opens, Evicted(o)
  PROVE  SessInv'
<1>1. /\ open[o] = "evicting"
      /\ open' = [open EXCEPT ![o] = IF BoundCount(maps) < MaxSessions THEN "admitted"
                                                                      ELSE "queued"]
      /\ UNCHANGED <<maps, keyOf, owns, up, recovering, openFor, turn, turnAt, answered,
                     ordered, clearing, crashes>>
  BY DEF Evicted
<1>2. /\ \A p \in Opens : p # o => open'[p] = open[p]
      /\ open'[o] = IF BoundCount(maps) < MaxSessions THEN "admitted" ELSE "queued"
  BY <1>1 DEF SessInv, SessTypeOK
<1>3. SessTypeOK' /\ (maps \in Maps)'
  BY <1>1 DEF SessInv, SessTypeOK
<1>4. Numbered' /\ Keyed' /\ SessionsBounded'
  BY <1>1 DEF SessInv, Numbered, Keyed, Serves, SessionOf, SessionsBounded, BoundCount
<1>5. Openings'
  <2>1. \A p \in Opens : /\ open'[p] \notin Waiting => open[p] \notin Waiting
                         /\ open'[p] \notin {"new", "over"} => open[p] \notin {"new", "over"}
                         /\ open'[p] \in Making => open[p] \in Making
    BY <1>1, <1>2 DEF Waiting, Making
  <2> QED BY <1>1, <2>1 DEF SessInv, Openings
<1>6. Capacity'
  <2>1. BoundCount(maps)' = BoundCount(maps)
    BY <1>1 DEF BoundCount
  <2>2. \A p \in Opens : open'[p] \in Making \cup {"admitted"} => BoundCount(maps) < MaxSessions
    BY <1>2 DEF SessInv, Capacity, Making
  <2> QED BY <2>1, <2>2 DEF Capacity
<1>7. Routed'
  BY <1>1, <1>2 DEF SessInv, Routed, Gone, Making
<1> QED BY <1>3, <1>4, <1>5, <1>6, <1>7 DEF SessInv

\* The answer of initialize, or its failure, changes no binding.
LEMMA InitializedKeeps ==
  ASSUME SessInv, NEW o \in Opens, Initialized(o)
  PROVE  SessInv'
<1>1. /\ open[o] = "starting"
      /\ \/ up' = up /\ open' = [open EXCEPT ![o] = "opening"]
         \/ up' \in {up, [up EXCEPT ![openFor[o]] = "down"]} /\ open' = [open EXCEPT ![o] = "over"]
      /\ UNCHANGED <<maps, keyOf, owns, recovering, openFor, turn, turnAt, answered,
                     ordered, clearing, crashes>>
  BY DEF Initialized
<1>2. /\ up' \in [Bindings -> {"down", "up", "stopping"}]
      /\ \A b \in Bindings : up'[b] \in {up[b], "down"}
  BY <1>1 DEF SessInv, SessTypeOK
<1>3. SessTypeOK' /\ (maps \in Maps)'
  BY <1>1, <1>2 DEF SessInv, SessTypeOK
<1>4. \A p \in Opens : open'[p] = open[p] \/ (p = o /\ open'[p] \in {"opening", "over"})
  BY <1>1 DEF SessInv, SessTypeOK
<1>5. \A p \in Opens : /\ open'[p] \notin {"new", "over"} => open[p] \notin {"new", "over"}
                       /\ open'[p] \notin Waiting => open[p] \notin Waiting
                       /\ open'[p] \in Making => open[p] \in Making
                       /\ open'[p] = "admitted" => open[p] = "admitted"
  BY <1>1, <1>4 DEF Waiting, Making
<1>6. Numbered' /\ Keyed' /\ Openings' /\ Capacity' /\ SessionsBounded'
  <2>1. Keyed /\ maps' = maps /\ maps \in Maps
    BY <1>1 DEF SessInv
  <2> QED BY <1>1, <1>2, <1>5, <2>1, QuietKeeps DEF Keyed
<1>8. Routed'
  BY <1>1, <1>2, <1>5, RoutedKept
<1> QED BY <1>3, <1>6, <1>8 DEF SessInv

\* An aborted opening is over, and the bindings stay as they are.
LEMMA AbortedKeeps ==
  ASSUME SessInv, NEW o \in Opens, Aborted(o)
  PROVE  SessInv'
<1>1. /\ open[o] = "aborting" /\ open' = [open EXCEPT ![o] = "over"]
      /\ UNCHANGED <<maps, keyOf, owns, up, recovering, openFor, turn, turnAt, answered,
                     ordered, clearing, crashes>>
  BY DEF Aborted
<1>2. SessTypeOK' /\ (maps \in Maps)'
  BY <1>1 DEF SessInv, SessTypeOK
<1>3. \A p \in Opens : open'[p] = open[p] \/ open'[p] = "over"
  BY <1>1 DEF SessInv, SessTypeOK
<1>4. \A p \in Opens : /\ open'[p] \notin {"new", "over"} => open[p] \notin {"new", "over"}
                       /\ open'[p] \notin Waiting => open[p] \notin Waiting
                       /\ open'[p] \in Making => open[p] \in Making
                       /\ open'[p] = "admitted" => open[p] = "admitted"
  BY <1>3 DEF Waiting, Making
<1>5. Numbered' /\ Keyed' /\ Openings' /\ Capacity' /\ SessionsBounded'
  <2>1. Keyed /\ maps' = maps /\ maps \in Maps
    BY <1>1 DEF SessInv
  <2> QED BY <1>1, <1>4, <2>1, QuietKeeps DEF Keyed
<1>7. Routed'
  BY <1>1, <1>4, RoutedKept
<1> QED BY <1>2, <1>5, <1>7 DEF SessInv

\* What is shut down was up.
LEMMA OnlyOneStops ==
  ASSUME up \in [Bindings -> {"down", "up", "stopping"}], NEW b \in Bindings
  PROVE  /\ Stopping(b) \in [Bindings -> {"down", "up", "stopping"}]
         /\ \A c \in Bindings : Stopping(b)[c] = up[c]
                                  \/ (c = b /\ up[b] = "up" /\ Stopping(b)[b] = "stopping")
BY DEF Stopping

\* A binding with neither a turn nor a question is unbound and shut down.
LEMMA IdleDismissed ==
  ASSUME SessInv, NEW b \in Bindings, keyOf[b] # NoKey, b \notin Busy(maps),
         maps' = Dismiss(maps, b), up' = Stopping(b),
         UNCHANGED <<keyOf, owns, recovering, turn, turnAt, ordered, clearing>>,
         \A o \in Opens : open'[o] \in Making => open[o] \in Making /\ openFor'[o] = openFor[o]
  PROVE  /\ maps' \in Maps /\ (up \in [Bindings -> {"down", "up", "stopping"}])'
         /\ \A k \in Keys : /\ maps'.procs[k] \in {0, maps.procs[k]}
                            /\ maps'.timer[k] \in {0, maps.timer[k]}
         /\ \A s \in Sessions : maps'.bound[s] \in {0, maps.bound[s]}
         /\ \A c \in Bindings : up'[c] # "down" => up[c] # "down"
         /\ Routed'
<1>1. /\ maps \in Maps /\ up \in [Bindings -> {"down", "up", "stopping"}]
      /\ keyOf \in [Bindings -> Keys \cup {NoKey}] /\ Keyed
  BY DEF SessInv, SessTypeOK
<1>2. keyOf[b] \in Keys /\ SessionOf(b) \in Sessions
  BY <1>1, KeyIsKey
<1>3. /\ Forgets(maps', maps, b) /\ Unmapped(maps', b)
      /\ \A k \in Keys : maps'.timer[k] \in {0, maps.timer[k]}
  BY <1>1, <1>2, BindingDismissed
<1>4. /\ maps' \in Maps /\ \A k \in Keys : maps'.procs[k] \in {0, maps.procs[k]}
      /\ \A s \in Sessions : maps'.bound[s] \in {0, maps.bound[s]}
  BY <1>3 DEF Forgets
<1>5. \A s \in Sessions : maps'.routes[s] = maps.routes[s]
  BY <1>3 DEF Forgets, Busy
<1>6. /\ up' \in [Bindings -> {"down", "up", "stopping"}]
      /\ \A c \in Bindings : up'[c] = up[c] \/ (c = b /\ up[b] = "up" /\ up'[b] = "stopping")
  BY <1>1, OnlyOneStops
<1>7. \A s \in Sessions : maps'.bound[s] # b
  <2>1. ASSUME NEW s \in Sessions, maps'.bound[s] = b PROVE FALSE
    <3>1. maps.bound[s] = b /\ b # 0
      BY <1>4, <2>1, ZeroTyped
    <3>2. b \in owns /\ SessionOf(b) = s
      BY <1>1, <3>1 DEF Keyed, Serves
    <3> QED BY <1>3, <2>1, <3>1, <3>2 DEF Unmapped
  <2> QED BY <2>1
<1>9. Routed'
  <2>1. \A c \in Bindings : up'[c] = "up" => up[c] = "up"
    BY <1>6
  <2>2. \A c \in Bindings :
          up'[c] = "stopping" => up[c] = "stopping" \/ \A s \in Sessions : maps'.bound[s] # c
    BY <1>6, <1>7
  <2>3. \A c \in Bindings, k \in Keys :
          maps'.timer[k] = c => \E j \in Keys : maps.timer[j] = c
    BY <1>3, ZeroTyped
  <2> QED BY <1>4, <1>5, <2>1, <2>2, <2>3, RoutedKept
<1> QED BY <1>3, <1>4, <1>6, <1>9

\* The newcomer evicts an idle session, is refused, or is admitted.
LEMMA AdmitKeeps ==
  ASSUME SessInv, NEW o \in Opens, Admit(o)
  PROVE  SessInv'
<1>1. /\ open[o] = "queued" /\ \A p \in Opens : open[p] \in Waiting
      /\ UNCHANGED <<keyOf, owns, recovering, turn, turnAt, answered,
                     ordered, clearing, crashes>>
  BY DEF Admit, Turned, Waiting
<1>2. PICK st \in {"admitted", "evicting", "over"} : open' = [open EXCEPT ![o] = st]
  BY DEF Admit
<1>3. /\ open' \in [Opens -> {"new", "queued", "evicting", "admitted", "starting", "opening",
                              "aborting", "over"}]
      /\ open'[o] = st /\ \A p \in Opens : p # o => open'[p] = open[p]
  BY <1>2 DEF SessInv, SessTypeOK
<1>4. /\ \A p \in Opens : open'[p] \notin Making
      /\ \A p, q \in Opens : open'[p] \notin Waiting /\ open'[q] \notin Waiting => p = q
      /\ \A p \in Opens : open'[p] \notin {"new", "over"} => open[p] \notin {"new", "over"}
  BY <1>1, <1>3 DEF Waiting, Making
<1>5. CASE BoundCount(maps) < MaxSessions /\ UNCHANGED <<maps, up, openFor>>
  <2>1. SessTypeOK' /\ (maps \in Maps)'
    BY <1>1, <1>3, <1>5 DEF SessInv, SessTypeOK
  <2>2. Numbered' /\ Keyed' /\ SessionsBounded'
    BY <1>1, <1>5
       DEF SessInv, Numbered, Keyed, Serves, SessionOf, SessionsBounded, BoundCount
  <2>3. Openings'
    BY <1>1, <1>4, <1>5 DEF SessInv, Openings
  <2>4. Capacity'
    <3>1. BoundCount(maps)' = BoundCount(maps)
      BY <1>5 DEF BoundCount
    <3> QED BY <1>5, <3>1 DEF Capacity
  <2>5. Routed'
    BY <1>1, <1>4, <1>5, RoutedKept
  <2> QED BY <2>1, <2>2, <2>3, <2>4, <2>5 DEF SessInv
<1>6. CASE st = "over" /\ UNCHANGED <<maps, up, openFor>>
  <2>1. SessTypeOK' /\ (maps \in Maps)'
    BY <1>1, <1>3, <1>6 DEF SessInv, SessTypeOK
  <2>2. Numbered' /\ Keyed' /\ SessionsBounded'
    BY <1>1, <1>6
       DEF SessInv, Numbered, Keyed, Serves, SessionOf, SessionsBounded, BoundCount
  <2>3. Openings'
    BY <1>1, <1>4, <1>6 DEF SessInv, Openings
  <2>4. Capacity'
    BY <1>1, <1>3, <1>4, <1>6 DEF Capacity, Waiting
  <2>5. Routed'
    BY <1>1, <1>4, <1>6, RoutedKept
  <2> QED BY <2>1, <2>2, <2>3, <2>4, <2>5 DEF SessInv
<1>7. ASSUME NEW s \in Sessions, NEW b, b = maps.bound[s], b # 0, b \notin Busy(maps),
             maps' = Dismiss(maps, b), up' = Stopping(b),
             openFor' = [openFor EXCEPT ![o] = b], st = "evicting"
      PROVE  SessInv'
  <2>1. b \in Bindings /\ keyOf[b] # NoKey
    BY <1>7 DEF SessInv, Keyed, Serves
  <2>2. /\ maps' \in Maps /\ (up \in [Bindings -> {"down", "up", "stopping"}])'
        /\ \A k \in Keys : /\ maps'.procs[k] \in {0, maps.procs[k]}
                           /\ maps'.timer[k] \in {0, maps.timer[k]}
        /\ \A t \in Sessions : maps'.bound[t] \in {0, maps.bound[t]}
        /\ \A c \in Bindings : up'[c] # "down" => up[c] # "down"
        /\ Routed'
    BY <1>1, <1>4, <1>7, <2>1, IdleDismissed
  <2>3. (maps \in Maps)' /\ SessTypeOK'
    <3>1. openFor' \in [Opens -> 0..MaxBindings]
      BY <1>7, <2>1, ZeroTyped DEF SessInv, SessTypeOK
    <3>2. maps' \in Maps
      BY <2>2
    <3> QED BY <1>1, <1>3, <2>2, <3>1, <3>2 DEF SessInv, SessTypeOK, Maps
  <2>4. Numbered' /\ Keyed'
    BY <1>1, <2>2 DEF SessInv, Numbered, Keyed, Serves, SessionOf
  <2>5. Openings'
    <3>1. OpenOf \in [Opens -> [how : {"create", "resume"}, session : Sessions]]
      BY SessionsAssumption
    <3>2. \A p \in Opens : open'[p] \notin {"new", "over"} => maps'.bound[OpenOf[p].session] = 0
      BY <1>4, <2>2, <3>1 DEF SessInv, Openings
    <3>3. \A p, q \in Opens :
            open'[p] \notin {"new", "over"} /\ open'[q] \notin {"new", "over"}
              /\ OpenOf[p].session = OpenOf[q].session => p = q
      BY <1>4 DEF SessInv, Openings
    <3> QED BY <1>4, <3>2, <3>3 DEF Openings
  <2>6. Capacity'
    BY <1>1, <1>3, <1>4, <1>7 DEF Capacity, Waiting
  <2>7. SessionsBounded'
    <3>1. /\ BoundCount(maps') \in Nat /\ BoundCount(maps) \in Nat
          /\ BoundCount(maps') <= BoundCount(maps)
      BY <2>2, CountKept
    <3>2. BoundCount(maps)' = BoundCount(maps')
      BY DEF BoundCount
    <3> QED BY <3>1, <3>2, SessionsAssumption DEF SessInv, SessionsBounded
  <2> QED BY <2>2, <2>3, <2>4, <2>5, <2>6, <2>7 DEF SessInv
<1>8. \/ BoundCount(maps) < MaxSessions /\ UNCHANGED <<maps, up, openFor>>
      \/ open'[o] = "over" /\ UNCHANGED <<maps, up, openFor>>
      \/ /\ open'[o] = "evicting"
         /\ \E s \in Sessions :
              /\ maps.bound[s] # 0 /\ maps.bound[s] \notin Busy(maps)
              /\ maps' = Dismiss(maps, maps.bound[s]) /\ up' = Stopping(maps.bound[s])
              /\ openFor' = [openFor EXCEPT ![o] = maps.bound[s]]
  BY DEF Admit, SessInv, SessTypeOK
<1> QED BY <1>3, <1>5, <1>6, <1>7, <1>8

-----------------------------------------------------------------------------
\* A turn is prepared on the process the session is bound to.
LEMMA PrepareKeeps ==
  ASSUME SessInv, NEW s \in Sessions, PrepareTurn(s)
  PROVE  SessInv'
<1>1. PICK b : b = maps.bound[s]
  OBVIOUS
<1>2. /\ turn[s] = "none" /\ b # 0 /\ up[b] # "stopping"
      /\ turn' = [turn EXCEPT ![s] = "preparing"] /\ turnAt' = [turnAt EXCEPT ![s] = b]
      /\ up' = [up EXCEPT ![b] = "up"] /\ answered' = answered \ {s}
      /\ UNCHANGED <<maps, keyOf, owns, recovering, open, openFor, ordered, clearing, crashes>>
  BY <1>1 DEF PrepareTurn
<1>3. SessTypeOK /\ maps \in Maps /\ Keyed
  BY DEF SessInv
<1>4. Serves(b, s) /\ b \in Bindings /\ keyOf[b] # NoKey
  BY <1>1, <1>2, <1>3 DEF Keyed, Serves
<1>5. /\ \A c \in Bindings : up'[c] = IF c = b THEN "up" ELSE up[c]
      /\ \A t \in Sessions : /\ turn'[t] = IF t = s THEN "preparing" ELSE turn[t]
                             /\ turnAt'[t] = IF t = s THEN b ELSE turnAt[t]
  BY <1>2, <1>3 DEF SessTypeOK
<1>6. SessTypeOK' /\ (maps \in Maps)'
  BY <1>2, <1>3, <1>4, ZeroTyped DEF SessTypeOK
<1>7. \A t \in Sessions : turn'[t] # "none" => Serves(turnAt'[t], t)
  BY <1>3, <1>4, <1>5 DEF Keyed
<1>8. Numbered' /\ Keyed' /\ Openings' /\ Capacity' /\ SessionsBounded'
  BY <1>2, <1>3, <1>4, <1>5, <1>7, QuietKeeps DEF Keyed
<1>10. Routed'
  BY <1>1, <1>2, <1>5, RoutedKept
<1> QED BY <1>6, <1>8, <1>10 DEF SessInv

\* The turn is written to that process, which starts if it is down.
LEMMA SendKeeps ==
  ASSUME SessInv, NEW s \in Sessions, SendTurn(s)
  PROVE  SessInv'
<1>1. PICK b : b = turnAt[s]
  OBVIOUS
<1>2. /\ turn[s] = "preparing"
      /\ \/ turn' = [turn EXCEPT ![s] = "none"] /\ up' = up
         \/ turn' = [turn EXCEPT ![s] = "sent"] /\ up' = [up EXCEPT ![b] = "up"]
      /\ UNCHANGED <<maps, keyOf, owns, recovering, open, openFor, turnAt, answered,
                     ordered, clearing, crashes>>
  BY <1>1 DEF SendTurn
<1>3. SessTypeOK /\ maps \in Maps /\ Keyed
  BY DEF SessInv
<1>4. b \in Bindings /\ keyOf[b] # NoKey
  BY <1>1, <1>2, <1>3 DEF Keyed, Serves
<1>5. /\ \A c \in Bindings : up'[c] = up[c] \/ (c = b /\ up'[c] = "up")
      /\ \A t \in Sessions : turn'[t] = turn[t] \/ (t = s /\ turn'[t] \in {"none", "sent"})
  BY <1>2, <1>3 DEF SessTypeOK
<1>6. SessTypeOK' /\ (maps \in Maps)'
  BY <1>2, <1>3 DEF SessTypeOK
<1>7. \A t \in Sessions : turn'[t] # "none" => Serves(turnAt'[t], t)
  BY <1>2, <1>3, <1>5 DEF Keyed
<1>8. Numbered' /\ Keyed' /\ Openings' /\ Capacity' /\ SessionsBounded'
  BY <1>2, <1>3, <1>4, <1>5, <1>7, QuietKeeps DEF Keyed
<1>10. Routed'
  BY <1>1, <1>2, <1>5, RoutedKept
<1> QED BY <1>6, <1>8, <1>10 DEF SessInv

\* A turn that starts is routed to its binding; the route goes when it ends.
LEMMA EventKeeps ==
  ASSUME SessInv, NEW s \in Sessions, TurnEvent(s)
  PROVE  SessInv'
<1>1. PICK x \in {"running", "none"} :
        /\ turn[s] # "none" /\ turn' = [turn EXCEPT ![s] = x]
        /\ maps' = [maps EXCEPT !.routes[s] = IF x = "running" THEN turnAt[s] ELSE 0]
  BY DEF TurnEvent
<1>2. UNCHANGED <<keyOf, owns, up, recovering, open, openFor, turnAt, answered,
                  ordered, clearing, crashes>>
  BY DEF TurnEvent
<1>3. SessTypeOK /\ maps \in Maps /\ Keyed
  BY DEF SessInv
<1>4. turnAt[s] \in 0..MaxBindings /\ 0 \in 0..MaxBindings
  BY <1>3, ZeroTyped DEF SessTypeOK
<1>5. /\ maps' \in Maps /\ maps'.procs = maps.procs /\ maps'.bound = maps.bound
      /\ maps'.timer = maps.timer
      /\ \A t \in Sessions : maps'.routes[t] =
           IF t = s THEN IF x = "running" THEN turnAt[s] ELSE 0 ELSE maps.routes[t]
  BY <1>1, <1>3, <1>4 DEF Maps
<1>6. \A t \in Sessions : turn'[t] = IF t = s THEN x ELSE turn[t]
  BY <1>1, <1>3 DEF SessTypeOK
<1>7. turn' \in [Sessions -> {"none", "preparing", "sent", "running"}]
  BY <1>1, <1>3 DEF SessTypeOK
<1>8. SessTypeOK' /\ (maps \in Maps)'
  BY <1>2, <1>3, <1>5, <1>7 DEF SessTypeOK, Maps
<1>9. \A t \in Sessions : turn'[t] # "none" => Serves(turnAt'[t], t)
  BY <1>1, <1>2, <1>3, <1>6 DEF Keyed
<1>10. Numbered' /\ Keyed' /\ Openings' /\ Capacity' /\ SessionsBounded'
  BY <1>2, <1>3, <1>5, <1>9, QuietKeeps DEF Keyed
<1>12. \A t \in Sessions :
         turn'[t] = "running" =>
           \/ maps'.routes[t] = turnAt'[t]
           \/ turn[t] = "running" /\ turnAt'[t] = turnAt[t] /\ maps'.routes[t] = maps.routes[t]
  BY <1>2, <1>5, <1>6
<1>13. Routed'
  BY <1>2, <1>5, <1>12, RoutedKept
<1> QED BY <1>8, <1>10, <1>13 DEF SessInv

\* The continuation of the answer sets the route again, also of a turn that is over.
LEMMA AnswerKeeps ==
  ASSUME SessInv, NEW s \in Sessions, TurnAnswered(s)
  PROVE  SessInv'
<1>1. /\ maps' = [maps EXCEPT !.routes[s] = turnAt[s]] /\ answered' = answered \cup {s}
      /\ UNCHANGED <<keyOf, owns, up, recovering, open, openFor, turn, turnAt,
                     ordered, clearing, crashes>>
  BY DEF TurnAnswered
<1>2. SessTypeOK /\ maps \in Maps /\ Keyed
  BY DEF SessInv
<1>3. turnAt[s] \in 0..MaxBindings
  BY <1>2 DEF SessTypeOK
<1>4. /\ maps' \in Maps /\ maps'.procs = maps.procs /\ maps'.bound = maps.bound
      /\ maps'.timer = maps.timer
      /\ \A t \in Sessions : maps'.routes[t] = IF t = s THEN turnAt[s] ELSE maps.routes[t]
  BY <1>1, <1>2, <1>3 DEF Maps
<1>5. SessTypeOK' /\ (maps \in Maps)'
  BY <1>1, <1>2, <1>4 DEF SessTypeOK, Maps
<1>6. Numbered' /\ Keyed' /\ Openings' /\ Capacity' /\ SessionsBounded'
  BY <1>1, <1>2, <1>4, QuietKeeps DEF Keyed, Serves, SessionOf
<1>8. Routed'
  BY <1>1, <1>4, RoutedKept
<1> QED BY <1>5, <1>6, <1>8 DEF SessInv

\* Questions do not touch the routes of turns.
LEMMA AskKeeps ==
  ASSUME SessInv, NEW b \in Bindings, Ask(b)
  PROVE  SessInv'
<1>1. /\ maps' \in {[maps EXCEPT !.asked = maps.asked \cup {b}],
                    [maps EXCEPT !.asked = maps.asked \ {b}]}
      /\ UNCHANGED <<keyOf, owns, up, recovering, open, openFor, turn, turnAt, answered,
                     ordered, clearing, crashes>>
  BY DEF Ask
<1>2. SessTypeOK /\ maps \in Maps /\ Keyed
  BY DEF SessInv
<1>3. /\ maps' \in Maps /\ maps'.procs = maps.procs /\ maps'.bound = maps.bound
      /\ maps'.timer = maps.timer /\ maps'.routes = maps.routes
  BY <1>1, <1>2 DEF Maps
<1>4. SessTypeOK' /\ (maps \in Maps)'
  BY <1>1, <1>2, <1>3 DEF SessTypeOK, Maps
<1>5. Numbered' /\ Keyed' /\ Openings' /\ Capacity' /\ SessionsBounded'
  BY <1>1, <1>2, <1>3, QuietKeeps DEF Keyed, Serves, SessionOf
<1>7. Routed'
  BY <1>1, <1>3, RoutedKept
<1> QED BY <1>4, <1>5, <1>7 DEF SessInv

\* The idle timer takes a binding that is in no route.
LEMMA ExpiryKeeps ==
  ASSUME SessInv, NEW b \in Bindings, IdleTimer(b)
  PROVE  SessInv'
<1>1. /\ keyOf[b] # NoKey /\ b \notin Busy(maps)
      /\ maps' = Dismiss(maps, b) /\ up' = Stopping(b)
      /\ UNCHANGED <<keyOf, owns, recovering, open, openFor, turn, turnAt, answered,
                     ordered, clearing, crashes>>
  BY DEF IdleTimer, MayExpire
<1>2. SessTypeOK /\ maps \in Maps /\ Keyed
  BY DEF SessInv
<1>3. /\ maps' \in Maps /\ (up \in [Bindings -> {"down", "up", "stopping"}])'
      /\ \A k \in Keys : /\ maps'.procs[k] \in {0, maps.procs[k]}
                         /\ maps'.timer[k] \in {0, maps.timer[k]}
      /\ \A s \in Sessions : maps'.bound[s] \in {0, maps.bound[s]}
      /\ \A c \in Bindings : up'[c] # "down" => up[c] # "down"
      /\ Routed'
  BY <1>1, IdleDismissed
<1>4. SessTypeOK' /\ (maps \in Maps)'
  BY <1>1, <1>2, <1>3 DEF SessTypeOK, Maps
<1>5. Numbered' /\ Keyed' /\ Openings' /\ Capacity' /\ SessionsBounded'
  BY <1>1, <1>2, <1>3, QuietKeeps DEF Keyed, Serves, SessionOf
<1> QED BY <1>3, <1>4, <1>5 DEF SessInv

-----------------------------------------------------------------------------
\* As many bindings are made as the last of them says.
LEMMA MadeSoFar ==
  ASSUME NEW n \in 0..MaxBindings, \A b \in Bindings : keyOf[b] # NoKey <=> b <= n
  PROVE  Cardinality({b \in Bindings : keyOf[b] # NoKey}) = n
<1>1. {b \in Bindings : keyOf[b] # NoKey} = 1..n
  BY SessionsAssumption DEF Bindings
<1>2. Cardinality(1..n) = n
  <2>1. n \in Nat /\ Cardinality(1..n) = IF 1 > n THEN 0 ELSE n - 1 + 1
    BY FS_Interval, SessionsAssumption
  <2> QED BY <2>1
<1> QED BY <1>1, <1>2

\* createProcess: the binding of the key, or a new one, is started.
LEMMA StartProcessKeeps ==
  ASSUME SessInv, NEW o \in Opens, StartProcess(o)
  PROVE  SessInv'
<1>1. PICK k : k = OpenOf[o]
  OBVIOUS
<1>2. k \in Keys /\ k # NoKey
  BY <1>1, SessionsAssumption DEF Keys, NoKey
<1>3. PICK n \in 0..MaxBindings : \A c \in Bindings : keyOf[c] # NoKey <=> c <= n
  BY DEF SessInv, Numbered
<1>4. PICK b \in Bindings :
        /\ b = IF maps.procs[k] # 0 THEN maps.procs[k] ELSE n + 1
        /\ up[b] # "stopping"
        /\ keyOf' = [keyOf EXCEPT ![b] = k] /\ maps' = [maps EXCEPT !.procs[k] = b]
        /\ up' = [up EXCEPT ![b] = "up"] /\ openFor' = [openFor EXCEPT ![o] = b]
  BY <1>1, <1>3, MadeSoFar DEF StartProcess
<1>5. /\ open[o] = "admitted" /\ open' = [open EXCEPT ![o] = "starting"]
      /\ UNCHANGED <<owns, recovering, turn, turnAt, answered, ordered, clearing, crashes>>
  BY DEF StartProcess
<1>6. /\ SessTypeOK /\ maps \in Maps /\ Keyed /\ Openings /\ Capacity /\ SessionsBounded
      /\ Routed
  BY DEF SessInv
<1>7. b \in 0..MaxBindings /\ b # 0
  BY ZeroTyped
<1>8. /\ maps' \in Maps /\ maps'.bound = maps.bound /\ maps'.timer = maps.timer
      /\ maps'.routes = maps.routes
      /\ \A j \in Keys : maps'.procs[j] = IF j = k THEN b ELSE maps.procs[j]
  BY <1>2, <1>4, <1>6, <1>7 DEF Maps
<1>9. /\ \A c \in Bindings : /\ keyOf'[c] = IF c = b THEN k ELSE keyOf[c]
                             /\ up'[c] = IF c = b THEN "up" ELSE up[c]
      /\ \A p \in Opens : /\ open'[p] = IF p = o THEN "starting" ELSE open[p]
                          /\ openFor'[p] = IF p = o THEN b ELSE openFor[p]
  BY <1>4, <1>5, <1>6 DEF SessTypeOK
<1>10. keyOf[b] # NoKey => maps.procs[k] = b /\ keyOf[b] = k
  <2>1. CASE maps.procs[k] # 0
    BY <1>2, <1>4, <1>6, <2>1 DEF Keyed
  <2>2. CASE maps.procs[k] = 0
    <3>1. b = n + 1 /\ ~ (b <= n)
      BY <1>3, <1>4, <2>2, SessionsAssumption
    <3> QED BY <1>3, <3>1
  <2> QED BY <2>1, <2>2
<1>11. \A c \in Bindings : keyOf[c] # NoKey => keyOf'[c] = keyOf[c]
  BY <1>9, <1>10
<1>12. SessTypeOK' /\ (maps \in Maps)'
  <2>1. /\ keyOf' \in [Bindings -> Keys \cup {NoKey}]
        /\ up' \in [Bindings -> {"down", "up", "stopping"}]
        /\ openFor' \in [Opens -> 0..MaxBindings]
    BY <1>2, <1>4, <1>6, <1>7 DEF SessTypeOK
  <2>2. open' \in [Opens -> {"new", "queued", "evicting", "admitted", "starting", "opening",
                             "aborting", "over"}]
    BY <1>5, <1>6 DEF SessTypeOK
  <2> QED BY <1>5, <1>6, <1>8, <2>1, <2>2 DEF SessTypeOK, Maps
<1>13. Numbered'
  <2>1. CASE keyOf[b] # NoKey
    BY <1>2, <1>3, <1>9, <2>1 DEF Numbered
  <2>2. CASE keyOf[b] = NoKey
    <3>1. b = n + 1 /\ n \in Nat /\ MaxBindings \in Nat
      BY <1>2, <1>4, <1>6, <2>2, SessionsAssumption DEF Keyed, NoKey, Keys
    <3>2. b \in 0..MaxBindings /\ \A c \in Bindings : c \in Nat /\ (c <= b <=> c <= n \/ c = b)
      BY <1>7, <3>1 DEF Bindings
    <3>3. \A c \in Bindings : keyOf'[c] # NoKey <=> c <= b
      BY <1>2, <1>3, <1>9, <3>2
    <3> QED BY <3>2, <3>3 DEF Numbered
  <2> QED BY <2>1, <2>2
<1>15. Keyed'
  <2>1. \A j \in Keys : j # NoKey
    BY DEF Keys, NoKey
  <2>2. \A j \in Keys : maps'.procs[j] # 0 => keyOf'[maps'.procs[j]] = j
    <3>1. ASSUME NEW j \in Keys, j # k, maps.procs[j] # 0 PROVE keyOf'[maps.procs[j]] = j
      <4>1. maps.procs[j] \in Bindings /\ keyOf[maps.procs[j]] = j
        BY <1>6, <3>1 DEF Keyed, Maps, Bindings
      <4> QED BY <1>11, <2>1, <4>1
    <3> QED BY <1>8, <1>9, <3>1
  <2>3. \A j \in Keys : maps'.timer[j] # 0 => keyOf'[maps'.timer[j]] = j
    <3>1. ASSUME NEW j \in Keys, maps.timer[j] # 0 PROVE keyOf'[maps.timer[j]] = j
      <4>1. maps.timer[j] \in Bindings /\ keyOf[maps.timer[j]] = j
        BY <1>6, <3>1 DEF Keyed, Maps, Bindings
      <4> QED BY <1>11, <2>1, <4>1
    <3> QED BY <1>8, <3>1
  <2>4. \A s \in Sessions :
          maps'.bound[s] # 0 => Serves(maps.bound[s], s)' /\ maps'.bound[s] \in owns'
    <3>1. \A s \in Sessions : maps.bound[s] # 0 => Serves(maps.bound[s], s) /\ maps.bound[s] \in owns
      BY <1>6 DEF Keyed
    <3> QED BY <1>5, <1>8, <1>11, <3>1 DEF Serves, SessionOf
  <2>5. \A s \in Sessions : turn'[s] # "none" => Serves(turnAt[s], s)'
    <3>1. \A s \in Sessions : turn[s] # "none" => Serves(turnAt[s], s)
      BY <1>6 DEF Keyed
    <3> QED BY <1>5, <1>11, <3>1 DEF Serves, SessionOf
  <2>6. \A c \in Bindings : up'[c] # "down" \/ c \in recovering' => keyOf'[c] # NoKey
    BY <1>2, <1>5, <1>6, <1>9 DEF Keyed
  <2> QED BY <2>2, <2>3, <2>4, <2>5, <2>6 DEF Keyed, Serves
<1>16. Openings'
  <2>1. \A p \in Opens : p # o => open'[p] = open[p] /\ open[p] \in Waiting
    BY <1>5, <1>6, <1>9 DEF Openings, Waiting
  <2>2. \A p \in Opens : open'[p] \notin {"new", "over"} => open[p] \notin {"new", "over"}
    BY <1>5, <2>1
  <2>3. \A p \in Opens : open'[p] \in Making => p = o
    BY <2>1 DEF Making, Waiting
  <2> QED BY <1>1, <1>6, <1>8, <1>9, <2>1, <2>2, <2>3 DEF Openings
<1>17. Capacity' /\ SessionsBounded'
  <2>1. BoundCount(maps)' = BoundCount(maps)
    BY <1>8 DEF BoundCount
  <2> QED BY <1>5, <1>6, <1>9, <2>1 DEF Capacity, SessionsBounded
<1>19. Routed'
  <2>1. \A s \in Sessions : maps'.bound[s] # 0 => up'[maps'.bound[s]] # "stopping"
    BY <1>6, <1>8, <1>9 DEF Routed, Keyed, Serves
  <2>2. ASSUME NEW s \in Sessions, turn'[s] = "running", maps'.routes[s] # turnAt'[s]
        PROVE  Gone(turnAt[s])'
    <3>1. PICK c : c = turnAt[s]
      OBVIOUS
    <3>2. c \in Bindings /\ keyOf[c] # NoKey /\ Gone(c) /\ turnAt'[s] = c
      BY <1>5, <1>6, <1>8, <2>2, <3>1 DEF Keyed, Serves, Routed
    <3>3. c # b
      BY <1>10, <3>2 DEF Gone
    <3>4. keyOf'[c] = keyOf[c] /\ keyOf[c] \in Keys
      BY <1>6, <1>9, <3>2, <3>3 DEF SessTypeOK
    <3>5. Gone(c)'
      BY <1>8, <3>2, <3>3, <3>4 DEF Gone
    <3> QED BY <3>2, <3>5
  <2> QED BY <2>1, <2>2 DEF Routed
<1> QED BY <1>12, <1>13, <1>15, <1>16, <1>17, <1>19 DEF SessInv

\* A binding removed from the maps is bound to no session.
LEMMA UnmappedUnbound ==
  ASSUME SessInv, NEW b \in Bindings, Unmapped(maps', b),
         \A s \in Sessions : maps'.bound[s] \in {0, maps.bound[s]}
  PROVE  \A s \in Sessions : maps'.bound[s] # b
<1>1. ASSUME NEW s \in Sessions, maps'.bound[s] = b PROVE FALSE
  <2>1. maps.bound[s] = b /\ b # 0
    BY <1>1, ZeroTyped
  <2>2. b \in owns /\ SessionOf(b) = s
    BY <2>1 DEF SessInv, Keyed, Serves
  <2> QED BY <1>1, <2>1, <2>2 DEF Unmapped
<1> QED BY <1>1

\* The session is bound, or its binding removed and shut down.
LEMMA OpenedKeeps ==
  ASSUME SessInv, NEW o \in Opens, Opened(o)
  PROVE  SessInv'
<1>1. PICK b : b = openFor[o]
  OBVIOUS
<1>2. PICK t : t = OpenOf[o].session
  OBVIOUS
<1>3. /\ open[o] = "opening"
      /\ UNCHANGED <<keyOf, recovering, openFor, turn, turnAt, answered,
                     ordered, clearing, crashes>>
  BY DEF Opened
<1>4. /\ SessTypeOK /\ maps \in Maps /\ Keyed /\ Openings /\ Capacity /\ SessionsBounded
      /\ Routed /\ Numbered
  BY DEF SessInv
<1>5. /\ b \in Bindings /\ keyOf[b] = OpenOf[o] /\ keyOf[b] \in Keys /\ keyOf[b] # NoKey
      /\ SessionOf(b) = t /\ t \in Sessions
  BY <1>1, <1>2, <1>3, <1>4, SessionsAssumption DEF Openings, Making, Keys, NoKey, SessionOf
<1>6. \A p \in Opens : p # o => open[p] \in Waiting
  BY <1>3, <1>4 DEF Openings, Waiting
<1>7. ASSUME up[b] = "up", owns' = owns \cup {b}, maps' = [maps EXCEPT !.bound[t] = b],
             open' = [open EXCEPT ![o] = "over"], up' = up
      PROVE  SessInv'
  <2>1. /\ maps' \in Maps /\ maps'.procs = maps.procs /\ maps'.timer = maps.timer
        /\ maps'.routes = maps.routes
        /\ \A s \in Sessions : maps'.bound[s] = IF s = t THEN b ELSE maps.bound[s]
    BY <1>4, <1>5, <1>7, ZeroTyped DEF Maps
  <2>2. \A p \in Opens : open'[p] = IF p = o THEN "over" ELSE open[p]
    BY <1>4, <1>7 DEF SessTypeOK
  <2>3. \A p \in Opens : open'[p] \in Waiting
    BY <1>6, <2>2 DEF Waiting
  <2>4. SessTypeOK' /\ (maps \in Maps)'
    BY <1>3, <1>4, <1>5, <1>7, <2>1 DEF SessTypeOK, Maps
  <2>5. Numbered'
    BY <1>3, <1>4, <2>1 DEF Numbered
  <2>6. Keyed'
    BY <1>3, <1>4, <1>5, <1>7, <2>1 DEF Keyed, Serves, SessionOf
  <2>7. Openings'
    <3>1. \A p, q \in Opens :
            open'[p] \notin {"new", "over"} /\ open'[q] \notin {"new", "over"}
              /\ OpenOf[p].session = OpenOf[q].session => p = q
      BY <1>4, <2>2 DEF Openings
    <3>2. \A p \in Opens : open'[p] \notin {"new", "over"} => maps'.bound[OpenOf[p].session] = 0
      <4>1. ASSUME NEW p \in Opens, open'[p] \notin {"new", "over"}
            PROVE  maps'.bound[OpenOf[p].session] = 0
        <5>1. p # o /\ open[p] \notin {"new", "over"} /\ OpenOf[p].session \in Sessions
          BY <2>2, <4>1, SessionsAssumption
        <5>2. OpenOf[p].session # t
          BY <1>2, <1>3, <1>4, <5>1 DEF Openings
        <5> QED BY <1>4, <2>1, <5>1, <5>2 DEF Openings
      <4> QED BY <4>1
    <3> QED BY <2>3, <3>1, <3>2 DEF Openings, Waiting, Making
  <2>8. Capacity'
    BY <2>3 DEF Capacity, Waiting, Making
  <2>9. SessionsBounded'
    <3>1. /\ BoundCount(maps') \in Nat /\ BoundCount(maps) \in Nat
          /\ BoundCount(maps') <= BoundCount(maps) + 1
      BY <1>5, <2>1, CountOneMore
    <3>2. BoundCount(maps) < MaxSessions
      BY <1>3, <1>4 DEF Capacity, Making
    <3>3. BoundCount(maps)' = BoundCount(maps')
      BY DEF BoundCount
    <3> QED BY <3>1, <3>2, <3>3, SessionsAssumption DEF SessionsBounded
  <2>10. Routed'
    <3>1. maps'.procs = maps.procs /\ keyOf' = keyOf
      BY <1>3, <2>1
    <3> QED BY <1>3, <1>4, <1>7, <2>1, <3>1 DEF Routed, Gone
  <2> QED BY <2>4, <2>5, <2>6, <2>7, <2>8, <2>9, <2>10 DEF SessInv
<1>8. ASSUME maps' = Unmap(maps, b), up' = Stopping(b), open' = [open EXCEPT ![o] = "aborting"],
             owns' = owns
      PROVE  SessInv'
  <2>1. /\ Forgets(maps', maps, b) /\ Unmapped(maps', b) /\ maps'.timer = maps.timer
        /\ maps'.tries = maps.tries
    BY <1>4, <1>5, <1>8, BindingRemoved
  <2>2. /\ maps' \in Maps /\ \A k \in Keys : maps'.procs[k] \in {0, maps.procs[k]}
        /\ \A s \in Sessions : /\ maps'.bound[s] \in {0, maps.bound[s]}
                               /\ maps'.routes[s] = maps.routes[s] \/ maps.routes[s] = b
    BY <2>1 DEF Forgets
  <2>3. /\ up' \in [Bindings -> {"down", "up", "stopping"}]
        /\ \A c \in Bindings : up'[c] = up[c] \/ (c = b /\ up'[c] = "stopping")
    BY <1>4, <1>5, <1>8, OnlyOneStops DEF SessTypeOK
  <2>4. \A p \in Opens : open'[p] = IF p = o THEN "aborting" ELSE open[p]
    BY <1>4, <1>8 DEF SessTypeOK
  <2>5. \A p \in Opens : /\ open'[p] \notin {"new", "over"} => open[p] \notin {"new", "over"}
                         /\ open'[p] \notin Waiting => open[p] \notin Waiting
                         /\ open'[p] \notin Making /\ open'[p] # "admitted"
    BY <1>3, <1>6, <2>4 DEF Waiting, Making
  <2>6. SessTypeOK' /\ (maps \in Maps)'
    BY <1>3, <1>4, <1>8, <2>2, <2>3 DEF SessTypeOK, Maps
  <2>7. Numbered' /\ Keyed' /\ Openings' /\ Capacity' /\ SessionsBounded'
    BY <1>3, <1>4, <1>5, <1>8, <2>1, <2>2, <2>3, <2>5, QuietKeeps DEF Keyed, Serves, SessionOf
  <2>9. \A s \in Sessions : maps'.bound[s] # b
    BY <1>5, <2>1, <2>2, UnmappedUnbound
  <2>10. \A s \in Sessions :
           turn'[s] = "running" =>
             /\ turn[s] = "running" /\ turnAt'[s] = turnAt[s]
             /\ maps.routes[s] = turnAt[s] =>
                  maps'.routes[s] = maps.routes[s] \/ maps'.procs[keyOf[turnAt[s]]] = 0
    BY <1>3, <2>1, <2>2 DEF Unmapped
  <2>11. Routed'
    BY <1>3, <2>1, <2>2, <2>3, <2>5, <2>9, <2>10, RoutedKept
  <2> QED BY <2>6, <2>7, <2>11 DEF SessInv
<1>9. \/ /\ up[b] = "up" /\ owns' = owns \cup {b} /\ maps' = [maps EXCEPT !.bound[t] = b]
         /\ open' = [open EXCEPT ![o] = "over"] /\ up' = up
      \/ /\ maps' = Unmap(maps, b) /\ up' = Stopping(b)
         /\ open' = [open EXCEPT ![o] = "aborting"] /\ owns' = owns
  BY <1>1, <1>2 DEF Opened
<1> QED BY <1>7, <1>8, <1>9

-----------------------------------------------------------------------------
\* What the rejections of a process that is gone lead to, from whatever maps the
\* handler of its end has left: its turns and its openings are over.
LEMMA SettledKeeps ==
  ASSUME SessInv, NEW b \in Bindings, keyOf[b] # NoKey, NEW m, Forgets(m, maps, b),
         Settled(b, m), up' = [up EXCEPT ![b] = "down"], recovering' = recovering \ {b},
         UNCHANGED <<keyOf, owns, openFor, turnAt, answered, ordered, clearing>>,
         crashes' \in 0..MaxCrashes
  PROVE  SessInv'
<1>1. /\ SessTypeOK /\ maps \in Maps /\ Keyed
      /\ keyOf[b] \in Keys /\ SessionOf(b) \in Sessions
  BY KeyIsKey DEF SessInv, SessTypeOK
<1>2. m \in Maps
  BY DEF Forgets
<1>3. Forgets(maps', maps, b)
  <2>1. Forgets(Unmap(m, b), m, b)
    BY <1>1, <1>2, BindingRemoved
  <2>2. Forgets(Unmap(m, b), maps, b)
    BY <2>1, ForgetsTwice
  <2>3. maps' = m \/ maps' = Unmap(m, b)
    BY DEF Settled
  <2> QED BY <2>2, <2>3
<1>4. /\ maps' \in Maps
      /\ \A k \in Keys : /\ maps'.procs[k] \in {0, maps.procs[k]}
                         /\ maps'.timer[k] \in {0, maps.timer[k]}
                              \/ (k = keyOf[b] /\ maps'.timer[k] = b)
      /\ \A s \in Sessions : /\ maps'.bound[s] \in {0, maps.bound[s]}
                             /\ maps'.routes[s] = maps.routes[s] \/ maps.routes[s] = b
  BY <1>3 DEF Forgets
<1>5. /\ turn' \in [Sessions -> {"none", "preparing", "sent", "running"}]
      /\ \A s \in Sessions : /\ turn'[s] \in {"none", turn[s]}
                             /\ turn'[s] = "running" => turn[s] = "running" /\ turnAt[s] # b
  BY <1>1 DEF Settled, SessTypeOK
<1>6. /\ open' \in [Opens -> {"new", "queued", "evicting", "admitted", "starting", "opening",
                              "aborting", "over"}]
      /\ \A o \in Opens : open'[o] = open[o] \/ open'[o] = "over"
  BY <1>1 DEF Settled, SessTypeOK
<1>7. \A o \in Opens : /\ open'[o] \notin {"new", "over"} => open[o] \notin {"new", "over"}
                       /\ open'[o] \notin Waiting => open[o] \notin Waiting
                       /\ open'[o] \in Making => open[o] \in Making
                       /\ open'[o] = "admitted" => open[o] = "admitted"
  BY <1>6 DEF Waiting, Making
<1>8. /\ up' \in [Bindings -> {"down", "up", "stopping"}]
      /\ \A c \in Bindings : up'[c] = up[c] \/ up'[c] = "down"
  BY <1>1 DEF SessTypeOK
<1>9. SessTypeOK' /\ (maps \in Maps)'
  BY <1>1, <1>4, <1>5, <1>6, <1>8 DEF SessTypeOK, Maps
<1>10. Numbered' /\ Keyed' /\ Openings' /\ Capacity' /\ SessionsBounded'
  <2>1. \A k \in Keys : maps'.timer[k] # 0 => keyOf[maps'.timer[k]] = k
    BY <1>1, <1>4 DEF Keyed
  <2>2. \A s \in Sessions : turn'[s] # "none" => Serves(turnAt'[s], s)
    BY <1>1, <1>5 DEF Keyed
  <2>3. \A c \in Bindings : up'[c] # "down" \/ c \in recovering' => keyOf[c] # NoKey
    BY <1>1, <1>8 DEF Keyed
  <2> QED BY <1>4, <1>7, <2>1, <2>2, <2>3, QuietKeeps
<1>12. Routed'
  <2>1. \A s \in Sessions :
          turn'[s] = "running" =>
            /\ turn[s] = "running" /\ turnAt'[s] = turnAt[s]
            /\ maps.routes[s] = turnAt[s] => maps'.routes[s] = maps.routes[s]
    BY <1>4, <1>5
  <2> QED BY <1>4, <1>8, <2>1, RoutedKept
<1> QED BY <1>9, <1>10, <1>12 DEF SessInv

\* onExit of a process, whether a recovery of it was under way or not.
LEMMA CrashKeeps ==
  ASSUME SessInv, NEW b \in Bindings, Crash(b)
  PROVE  SessInv'
<1>1. PICK c : c = ClearRoutes(maps, b)
  OBVIOUS
<1>2. PICK e : e = Recover(c, b)
  OBVIOUS
<1>3. PICK m : m = IF b \in recovering THEN Recover(e, b) ELSE e
  OBVIOUS
<1>4. /\ up[b] = "up" /\ crashes < MaxCrashes /\ crashes' = crashes + 1
      /\ up' = [up EXCEPT ![b] = "down"] /\ recovering' = recovering \ {b}
      /\ Settled(b, m) /\ UNCHANGED <<keyOf, owns, openFor, turnAt, answered,
                                      ordered, clearing>>
  BY <1>1, <1>2, <1>3 DEF Crash
<1>5. /\ maps \in Maps /\ keyOf[b] # NoKey /\ keyOf[b] \in Keys /\ SessionOf(b) \in Sessions
  BY <1>4, KeyIsKey DEF SessInv, SessTypeOK, Keyed
<1>6. Forgets(c, maps, b) /\ c \in Maps
  BY <1>1, <1>5, RoutesCleared DEF Forgets
<1>7. Forgets(e, c, b) /\ e \in Maps
  BY <1>2, <1>5, <1>6, RecoveryScheduled DEF Forgets
<1>8. Forgets(e, maps, b)
  BY <1>6, <1>7, ForgetsTwice
<1>9. Forgets(Recover(e, b), e, b)
  BY <1>5, <1>7, RecoveryScheduled
<1>10. Forgets(Recover(e, b), maps, b)
  BY <1>8, <1>9, ForgetsTwice
<1>11. Forgets(m, maps, b)
  BY <1>3, <1>8, <1>10
<1>12. crashes' \in 0..MaxCrashes
  BY <1>4, SessionsAssumption DEF SessInv, SessTypeOK
<1> QED BY <1>4, <1>5, <1>11, <1>12, SettledKeeps

\* The end of a shutdown, which is no exit.
LEMMA StoppedKeeps ==
  ASSUME SessInv, NEW b \in Bindings, Stopped(b)
  PROVE  SessInv'
<1>1. PICK m : m = IF b \in recovering THEN Recover(maps, b) ELSE maps
  OBVIOUS
<1>2. /\ up[b] = "stopping"
      /\ up' = [up EXCEPT ![b] = "down"] /\ recovering' = recovering \ {b}
      /\ Settled(b, m) /\ UNCHANGED <<keyOf, owns, openFor, turnAt, answered,
                                      ordered, clearing, crashes>>
  BY <1>1 DEF Stopped
<1>3. /\ maps \in Maps /\ keyOf[b] # NoKey /\ keyOf[b] \in Keys /\ SessionOf(b) \in Sessions
  BY <1>2, KeyIsKey DEF SessInv, SessTypeOK, Keyed
<1>4. Forgets(Recover(maps, b), maps, b) /\ Forgets(maps, maps, b)
  BY <1>3, RecoveryScheduled DEF Forgets
<1>5. Forgets(m, maps, b) /\ crashes' \in 0..MaxCrashes
  BY <1>1, <1>2, <1>4 DEF SessInv, SessTypeOK
<1> QED BY <1>2, <1>3, <1>5, SettledKeeps

\* A recovery timer starts its binding, or schedules the next one.
LEMMA TimerFiredKeeps ==
  ASSUME SessInv, NEW k \in Keys, RecoveryTimer(k)
  PROVE  SessInv'
<1>1. PICK b : b = maps.timer[k]
  OBVIOUS
<1>2. PICK f : f = [maps EXCEPT !.timer[k] = 0]
  OBVIOUS
<1>3. /\ b # 0
      /\ \/ up[b] = "stopping" /\ maps' = Recover(f, b) /\ UNCHANGED <<up, recovering>>
         \/ /\ maps' = f /\ up' = [up EXCEPT ![b] = "up"] /\ recovering' = recovering \cup {b}
            /\ up[b] # "stopping"
      /\ UNCHANGED <<keyOf, owns, open, openFor, turn, turnAt, answered,
                     ordered, clearing, crashes>>
  BY <1>1, <1>2 DEF RecoveryTimer
<1>4. SessTypeOK /\ maps \in Maps /\ Keyed
  BY DEF SessInv
<1>5. b \in Bindings /\ keyOf[b] = k
  BY <1>1, <1>3, <1>4 DEF Keyed, Maps, Bindings
<1>6. keyOf[b] # NoKey /\ keyOf[b] \in Keys /\ SessionOf(b) \in Sessions
  <2>1. k # NoKey
    BY DEF Keys, NoKey
  <2> QED BY <1>4, <1>5, <2>1, KeyIsKey DEF SessTypeOK
<1>7. /\ f \in Maps /\ f.procs = maps.procs /\ f.bound = maps.bound /\ f.routes = maps.routes
      /\ \A j \in Keys : f.timer[j] = IF j = k THEN 0 ELSE maps.timer[j]
  BY <1>2, <1>4, ZeroTyped DEF Maps
<1>8. \A j \in Keys : f.timer[j] # b
  BY <1>1, <1>4, <1>5, <1>7, ZeroTyped DEF Keyed
<1>9. CASE up[b] = "stopping" /\ maps' = Recover(f, b) /\ UNCHANGED <<up, recovering>>
  <2>1. /\ Forgets(maps', f, b)
        /\ maps'.routes = f.routes \/ (Unmapped(maps', b) /\ maps'.timer = f.timer)
    BY <1>6, <1>5, <1>7, <1>9, RecoveryScheduled
  <2>2. /\ maps' \in Maps
        /\ \A j \in Keys : /\ maps'.procs[j] \in {0, maps.procs[j]}
                           /\ maps'.timer[j] \in {0, maps.timer[j]} \/ (j = k /\ maps'.timer[j] = b)
        /\ \A s \in Sessions : /\ maps'.bound[s] \in {0, maps.bound[s]}
                               /\ maps'.routes[s] = maps.routes[s] \/ maps.routes[s] = b
    BY <1>5, <1>7, <2>1 DEF Forgets
  <2>3. SessTypeOK' /\ (maps \in Maps)'
    BY <1>3, <1>4, <1>9, <2>2 DEF SessTypeOK, Maps
  <2>4. Numbered' /\ Keyed' /\ Openings' /\ Capacity' /\ SessionsBounded'
    <3>1. \A j \in Keys : maps'.timer[j] # 0 => keyOf[maps'.timer[j]] = j
      BY <1>4, <1>5, <2>2 DEF Keyed
    <3>2. /\ \A s \in Sessions : turn'[s] # "none" => Serves(turnAt'[s], s)
          /\ \A c \in Bindings : up'[c] # "down" \/ c \in recovering' => keyOf[c] # NoKey
      BY <1>3, <1>4, <1>9 DEF Keyed
    <3> QED BY <1>3, <2>2, <3>1, <3>2, QuietKeeps
  <2>5. \A c \in Bindings, j \in Keys :
          maps'.timer[j] = c => \E i \in Keys : maps.timer[i] = c
    BY <1>1, <2>2, ZeroTyped
  <2>7. Routed'
    <3>1. \A s \in Sessions :
            turn'[s] = "running" =>
              /\ turn[s] = "running" /\ turnAt'[s] = turnAt[s]
              /\ maps.routes[s] = turnAt[s] =>
                   maps'.routes[s] = maps.routes[s] \/ maps'.procs[keyOf[turnAt[s]]] = 0
      BY <1>3, <1>7, <2>1, <2>2 DEF Unmapped
    <3>2. \A c \in Bindings : up'[c] = up[c]
      BY <1>9
    <3> QED BY <1>3, <2>2, <3>1, <3>2, RoutedKept
  <2> QED BY <2>3, <2>4, <2>7 DEF SessInv
<1>10. CASE maps' = f /\ up' = [up EXCEPT ![b] = "up"] /\ recovering' = recovering \cup {b}
  <2>1. /\ maps' \in Maps /\ maps'.procs = maps.procs /\ maps'.bound = maps.bound
        /\ maps'.routes = maps.routes /\ \A j \in Keys : maps'.timer[j] \in {0, maps.timer[j]}
    BY <1>7, <1>10
  <2>2. \A c \in Bindings : up'[c] = IF c = b THEN "up" ELSE up[c]
    BY <1>4, <1>10 DEF SessTypeOK
  <2>3. SessTypeOK' /\ (maps \in Maps)'
    BY <1>3, <1>4, <1>5, <1>10, <2>1 DEF SessTypeOK, Maps
  <2>4. Numbered' /\ Keyed' /\ Openings' /\ Capacity' /\ SessionsBounded'
    <3>1. \A c \in Bindings : up'[c] # "down" \/ c \in recovering' => keyOf[c] # NoKey
      BY <1>4, <1>6, <1>10, <2>2 DEF Keyed
    <3> QED BY <1>3, <1>4, <2>1, <3>1, QuietKeeps DEF Keyed, Serves, SessionOf
  <2>6. Routed'
    <3>1. \A c \in Bindings : up'[c] = "up" => up[c] = "up" \/ \E j \in Keys : maps.timer[j] = c
      BY <1>1, <2>2
    <3>2. \A c \in Bindings, j \in Keys : maps'.timer[j] = c => \E i \in Keys : maps.timer[i] = c
      BY <2>1, ZeroTyped
    <3> QED BY <1>3, <2>1, <2>2, <3>1, <3>2, RoutedKept
  <2> QED BY <2>3, <2>4, <2>6 DEF SessInv
<1> QED BY <1>3, <1>9, <1>10

\* A recovery has succeeded, or its process refused the handshake.
LEMMA RecoveredKeeps ==
  ASSUME SessInv, NEW b \in Bindings, Recovered(b)
  PROVE  SessInv'
<1>1. /\ b \in recovering /\ up[b] = "up" /\ recovering' = recovering \ {b}
      /\ \/ /\ maps' = IF maps.procs[keyOf[b]] = b THEN [maps EXCEPT !.tries[keyOf[b]] = 0]
                                                   ELSE maps
            /\ up' = up
         \/ maps' = Recover(maps, b) /\ up' = [up EXCEPT ![b] = "down"]
      /\ UNCHANGED <<keyOf, owns, open, openFor, turn, turnAt, answered,
                     ordered, clearing, crashes>>
  BY DEF Recovered
<1>2. /\ SessTypeOK /\ maps \in Maps /\ Keyed
      /\ keyOf[b] # NoKey /\ keyOf[b] \in Keys /\ SessionOf(b) \in Sessions
  BY <1>1, KeyIsKey DEF SessInv, SessTypeOK, Keyed
<1>3. CASE /\ maps' = IF maps.procs[keyOf[b]] = b THEN [maps EXCEPT !.tries[keyOf[b]] = 0]
                                                  ELSE maps
           /\ up' = up
  <2>1. /\ maps' \in Maps /\ maps'.procs = maps.procs /\ maps'.bound = maps.bound
        /\ maps'.routes = maps.routes /\ maps'.timer = maps.timer
    BY <1>2, <1>3, ZeroTyped DEF Maps
  <2>2. SessTypeOK' /\ (maps \in Maps)'
    BY <1>1, <1>2, <1>3, <2>1 DEF SessTypeOK, Maps
  <2>3. Numbered' /\ Keyed' /\ Openings' /\ Capacity' /\ SessionsBounded'
    BY <1>1, <1>2, <1>3, <2>1, QuietKeeps DEF Keyed, Serves, SessionOf
  <2>5. Routed'
    BY <1>1, <1>3, <2>1, RoutedKept
  <2> QED BY <2>2, <2>3, <2>5 DEF SessInv
<1>4. CASE maps' = Recover(maps, b) /\ up' = [up EXCEPT ![b] = "down"]
  <2>1. /\ Forgets(maps', maps, b)
        /\ maps'.routes = maps.routes \/ (Unmapped(maps', b) /\ maps'.timer = maps.timer)
    BY <1>2, <1>4, RecoveryScheduled
  <2>2. /\ maps' \in Maps
        /\ \A k \in Keys : /\ maps'.procs[k] \in {0, maps.procs[k]}
                           /\ maps'.timer[k] \in {0, maps.timer[k]}
                                \/ (k = keyOf[b] /\ maps'.timer[k] = b)
        /\ \A s \in Sessions : /\ maps'.bound[s] \in {0, maps.bound[s]}
                               /\ maps'.routes[s] = maps.routes[s] \/ maps.routes[s] = b
    BY <2>1 DEF Forgets
  <2>3. \A c \in Bindings : up'[c] = IF c = b THEN "down" ELSE up[c]
    BY <1>2, <1>4 DEF SessTypeOK
  <2>4. SessTypeOK' /\ (maps \in Maps)'
    BY <1>1, <1>2, <1>4, <2>2 DEF SessTypeOK, Maps
  <2>5. Numbered' /\ Keyed' /\ Openings' /\ Capacity' /\ SessionsBounded'
    <3>1. \A k \in Keys : maps'.timer[k] # 0 => keyOf[maps'.timer[k]] = k
      BY <1>2, <2>2 DEF Keyed
    <3>2. /\ \A s \in Sessions : turn'[s] # "none" => Serves(turnAt'[s], s)
          /\ \A c \in Bindings : up'[c] # "down" \/ c \in recovering' => keyOf[c] # NoKey
      BY <1>1, <1>2, <2>3 DEF Keyed
    <3> QED BY <1>1, <2>2, <3>1, <3>2, QuietKeeps
  <2>7. Routed'
    <3>1. \A s \in Sessions :
            turn'[s] = "running" =>
              /\ turn[s] = "running" /\ turnAt'[s] = turnAt[s]
              /\ maps.routes[s] = turnAt[s] =>
                   maps'.routes[s] = maps.routes[s] \/ maps'.procs[keyOf[turnAt[s]]] = 0
      BY <1>1, <2>1, <2>2 DEF Unmapped
    <3> QED BY <1>1, <2>2, <2>3, <3>1, RoutedKept
  <2> QED BY <2>4, <2>5, <2>7 DEF SessInv
<1> QED BY <1>1, <1>3, <1>4

\* The maps of a manager that has none.
LEMMA NoMapsTyped ==
  /\ NoMaps \in Maps
  /\ \A k \in Keys : NoMaps.procs[k] = 0 /\ NoMaps.timer[k] = 0
  /\ \A s \in Sessions : NoMaps.bound[s] = 0
BY ZeroTyped DEF NoMaps, Maps

\* Several bindings are forgotten and told to end, whichever they are.
LEMMA OrderedKeeps ==
  ASSUME SessInv, NEW projects, EndBindings(Served(projects)), clearing' \subseteq SUBSET Bindings
  PROVE  SessInv'
<1>1. PICK B : B = Served(projects)
  OBVIOUS
<1>2. /\ SessTypeOK /\ maps \in Maps /\ Keyed /\ Routed
      /\ UNCHANGED <<keyOf, owns, recovering, open, openFor, turn, turnAt, answered, crashes>>
  BY DEF SessInv, EndBindings
<1>3. PICK pr : pr = [k \in Keys |-> IF maps.procs[k] \in B THEN 0 ELSE maps.procs[k]]
  OBVIOUS
<1>4. PICK bd : bd = [s \in Sessions |-> IF \E b \in B \cap owns : SessionOf(b) = s
                                        THEN 0 ELSE maps.bound[s]]
  OBVIOUS
<1>5. PICK rt : rt = [s \in Sessions |-> IF maps.routes[s] \in B THEN 0 ELSE maps.routes[s]]
  OBVIOUS
<1>6. PICK tm : tm = [k \in Keys |-> IF maps.procs[k] \in B THEN 0 ELSE maps.timer[k]]
  OBVIOUS
<1>7. PICK tr : tr = [k \in Keys |-> IF maps.procs[k] \in B THEN 0 ELSE maps.tries[k]]
  OBVIOUS
<1>8. /\ pr \in [Keys -> 0..MaxBindings] /\ bd \in [Sessions -> 0..MaxBindings]
      /\ rt \in [Sessions -> 0..MaxBindings] /\ tm \in [Keys -> 0..MaxBindings]
      /\ tr \in [Keys -> 0..MaxTries]
  BY <1>2, <1>3, <1>4, <1>5, <1>6, <1>7, ZeroTyped DEF Maps
<1>9. maps' = [maps EXCEPT !.procs = pr, !.bound = bd, !.routes = rt,
                           !.asked = maps.asked \ B, !.timer = tm, !.tries = tr]
  <2>1. maps' = Together(maps, B)
    BY <1>1 DEF EndBindings
  <2> QED BY <1>2, <1>3, <1>4, <1>5, <1>6, <1>7, <2>1 DEF Together, Maps
<1>10. /\ maps' \in Maps /\ maps'.procs = pr /\ maps'.bound = bd /\ maps'.routes = rt
       /\ maps'.timer = tm
  BY <1>2, <1>8, <1>9 DEF Maps
<1>11. /\ \A k \in Keys : maps'.procs[k] \in {0, maps.procs[k]}
       /\ \A k \in Keys : maps'.timer[k] \in {0, maps.timer[k]}
       /\ \A s \in Sessions : maps'.bound[s] \in {0, maps.bound[s]}
  BY <1>3, <1>4, <1>6, <1>10
<1>12. /\ up' \in [Bindings -> {"down", "up", "stopping"}]
       /\ \A b \in Bindings : /\ up'[b] # "down" => up[b] # "down"
                              /\ up'[b] = "stopping" => up[b] = "stopping" \/ b \in B
  BY <1>1, <1>2 DEF EndBindings, SessTypeOK
<1>13. B \subseteq Bindings
  BY <1>1, <1>2 DEF Served, Maps, Bindings
<1>14. SessTypeOK' /\ (maps \in Maps)'
  <2>1. ordered' \subseteq Bindings
    BY <1>1, <1>2, <1>13 DEF EndBindings, SessTypeOK
  <2> QED BY <1>2, <1>10, <1>12, <2>1 DEF SessTypeOK, Maps
<1>15. Numbered' /\ Keyed' /\ Openings' /\ Capacity' /\ SessionsBounded'
  <2>1. /\ \A s \in Sessions : turn'[s] # "none" => Serves(turnAt'[s], s)
        /\ \A b \in Bindings : up'[b] # "down" \/ b \in recovering' => keyOf[b] # NoKey
        /\ \A k \in Keys : maps'.timer[k] # 0 => keyOf[maps'.timer[k]] = k
    BY <1>2, <1>11, <1>12 DEF Keyed
  <2> QED BY <1>2, <1>10, <1>11, <2>1, QuietKeeps
<1>16. Routed'
  <2>1. ASSUME NEW b \in B, NEW s \in Sessions, maps'.bound[s] = b PROVE FALSE
    <3>1. b # 0 /\ maps.bound[s] = b
      BY <1>11, <1>13, <2>1, ZeroTyped
    <3>2. b \in owns /\ SessionOf(b) = s
      BY <1>2, <3>1 DEF Keyed, Serves
    <3> QED BY <1>4, <1>10, <2>1, <3>1, <3>2
  <2>2. \A b \in Bindings :
          up'[b] = "stopping" => up[b] = "stopping" \/ \A s \in Sessions : maps'.bound[s] # b
    BY <1>12, <2>1
  <2>3. ASSUME NEW s \in Sessions, turn'[s] = "running", maps.routes[s] = turnAt[s],
               maps'.routes[s] # maps.routes[s]
        PROVE  maps'.procs[keyOf[turnAt[s]]] = 0
    <3>1. maps.routes[s] \in B
      BY <1>5, <1>10, <2>3
    <3>2. PICK k \in Keys : maps.procs[k] = turnAt[s] /\ maps.procs[k] # 0
      BY <1>1, <2>3, <3>1 DEF Served
    <3>3. keyOf[turnAt[s]] = k
      BY <1>2, <3>2 DEF Keyed
    <3> QED BY <1>3, <1>10, <2>3, <3>1, <3>2, <3>3
  <2> QED BY <1>2, <1>11, <2>2, <2>3, RoutedKept
<1> QED BY <1>14, <1>15, <1>16 DEF SessInv

\* shutdown and shutdownAll
LEMMA ShutdownKeeps ==
  ASSUME SessInv, ShutdownAll \/ \E p \in Projects : ShutdownProject(p)
  PROVE  SessInv'
<1>1. clearing \subseteq SUBSET Bindings /\ maps \in Maps
  BY DEF SessInv, SessTypeOK
<1>2. CASE ShutdownAll
  <2>1. Served(Projects) \subseteq Bindings
    BY <1>1 DEF Served, Maps, Bindings
  <2> QED BY <1>1, <1>2, <2>1, OrderedKeeps DEF ShutdownAll
<1>3. ASSUME NEW p \in Projects, ShutdownProject(p) PROVE SessInv'
  BY <1>1, <1>3, OrderedKeeps DEF ShutdownProject
<1> QED BY <1>2, <1>3

\* The end of shutdownAll leaves no maps: nothing is bound or routed any more.
LEMMA AllShutDownKeeps ==
  ASSUME SessInv, AllShutDown
  PROVE  SessInv'
<1>1. /\ maps' = NoMaps /\ clearing' \subseteq clearing
      /\ UNCHANGED <<keyOf, owns, up, recovering, open, openFor, turn, turnAt, answered,
                     ordered,
                     crashes>>
  BY DEF AllShutDown
<1>2. SessTypeOK /\ maps \in Maps /\ Keyed
  BY DEF SessInv
<1>3. /\ maps' \in Maps /\ \A k \in Keys : maps'.procs[k] = 0 /\ maps'.timer[k] = 0
      /\ \A s \in Sessions : maps'.bound[s] = 0
  BY <1>1, NoMapsTyped
<1>4. SessTypeOK' /\ (maps \in Maps)'
  BY <1>1, <1>2, <1>3 DEF SessTypeOK, Maps
<1>5. Numbered' /\ Keyed' /\ Openings' /\ Capacity' /\ SessionsBounded'
  <2>1. /\ \A s \in Sessions : turn'[s] # "none" => Serves(turnAt'[s], s)
        /\ \A b \in Bindings : up'[b] # "down" \/ b \in recovering' => keyOf[b] # NoKey
    BY <1>1, <1>2 DEF Keyed
  <2> QED BY <1>1, <1>3, <2>1, QuietKeeps
<1>6. Routed'
  <2>1. \A s \in Sessions : turn[s] = "running" => keyOf[turnAt[s]] \in Keys /\ turnAt[s] # 0
    BY <1>2, KeyIsKey, ZeroTyped DEF Keyed, Serves, SessTypeOK
  <2> QED BY <1>1, <1>3, <2>1 DEF Routed, Gone
<1> QED BY <1>4, <1>5, <1>6 DEF SessInv

-----------------------------------------------------------------------------
\* AgentManager as it is constructed.
LEMMA SessInitially == SessInit => SessInv
<1> SUFFICES ASSUME SessInit PROVE SessInv
  OBVIOUS
<1>1. /\ maps = NoMaps /\ keyOf = [b \in Bindings |-> NoKey]
      /\ owns = {} /\ recovering = {} /\ answered = {}
      /\ up = [b \in Bindings |-> "down"]
      /\ open = [o \in Opens |-> "new"] /\ openFor = [o \in Opens |-> 0]
      /\ turn = [s \in Sessions |-> "none"] /\ turnAt = [s \in Sessions |-> 0]
      /\ ordered = {} /\ clearing = {} /\ crashes = 0
  BY DEF SessInit
<1>2. maps \in Maps
  BY <1>1, NoMapsTyped
<1>3. SessTypeOK
  BY <1>1, <1>2, ZeroTyped, SessionsAssumption DEF SessTypeOK, Maps
<1>4. Numbered
  <2>1. \A b \in Bindings : ~ (b <= 0)
    BY SessionsAssumption DEF Bindings
  <2> QED BY <1>1, <2>1, ZeroTyped DEF Numbered
<1>5. Keyed /\ Routed
  BY <1>1, NoMapsTyped DEF Keyed, Routed
<1>6. Openings /\ Capacity
  BY <1>1 DEF Openings, Capacity, Waiting, Making
<1>7. SessionsBounded
  <2>1. {s \in Sessions : maps.bound[s] # 0} = {}
    BY <1>1, NoMapsTyped
  <2>2. BoundCount(maps) = 0
    BY <2>1, FS_EmptySet DEF BoundCount
  <2>3. 0 <= MaxSessions
    BY SessionsAssumption
  <2> QED BY <2>2, <2>3 DEF SessionsBounded
<1> QED BY <1>2, <1>3, <1>4, <1>5, <1>6, <1>7 DEF SessInv

\* Every step of the manager keeps the invariant.
LEMMA SessNextKeeps == SessInv /\ [SessNext]_sessVars => SessInv'
<1> SUFFICES ASSUME SessInv, [SessNext]_sessVars PROVE SessInv'
  OBVIOUS
<1>1. CASE UNCHANGED sessVars
  BY <1>1 DEF SessInv, sessVars, SessTypeOK, Maps, Numbered, Keyed, Serves, SessionOf, Openings,
              Capacity, SessionsBounded, BoundCount, Routed, Gone
<1>2. ASSUME NEW o \in Opens,
             \/ Open(o) \/ Admit(o) \/ Evicted(o) \/ StartProcess(o)
             \/ Initialized(o) \/ Opened(o) \/ Aborted(o)
      PROVE  SessInv'
  BY <1>2, OpenKeeps, AdmitKeeps, EvictedKeeps, StartProcessKeeps, InitializedKeeps, OpenedKeeps,
     AbortedKeeps
<1>3. ASSUME NEW s \in Sessions, PrepareTurn(s) \/ SendTurn(s) \/ TurnEvent(s) \/ TurnAnswered(s)
      PROVE  SessInv'
  BY <1>3, PrepareKeeps, SendKeeps, EventKeeps, AnswerKeeps
<1>4. ASSUME NEW b \in Bindings,
             Ask(b) \/ Crash(b) \/ Recovered(b) \/ Stopped(b) \/ IdleTimer(b)
      PROVE  SessInv'
  BY <1>4, AskKeeps, CrashKeeps, RecoveredKeeps, StoppedKeeps, ExpiryKeeps
<1> QED BY <1>1, <1>2, <1>3, <1>4, TimerFiredKeeps, ShutdownKeeps, AllShutDownKeeps
   DEF SessNext

\* The invariant of AgentManager, for every value of the constants.
THEOREM SessInductive == SessSpec => []SessInv
BY SessInitially, SessNextKeeps, PTL DEF SessSpec

\* The maps, the bindings, the openings and the turns keep their types.
THEOREM SessTypeCorrect == SessSpec => []SessTypeOK
<1>1. SessInv => SessTypeOK
  BY DEF SessInv
<1> QED BY <1>1, SessInductive, PTL

\* However many openings, evictions and recoveries overlap, no more sessions are
\* bound than maxConcurrentSessionProcesses.
THEOREM SessionsStayBounded == SessSpec => []SessionsBounded
<1>1. SessInv => SessionsBounded
  BY DEF SessInv
<1> QED BY <1>1, SessInductive, PTL

\* What a step shuts down is in no route, or belongs to an opening that is refused,
\* or is among what a shutdown of a project or of all ends.
LEMMA WhatIsShutDown ==
  ASSUME SessInv, SessNext, NEW b \in Bindings, up'[b] = "stopping"
  PROVE  \/ up[b] = "stopping" \/ b \notin Busy(maps) \/ b \in ordered'
         \/ \E o \in Opens : open[o] = "opening" /\ openFor[o] = b
<1>1. up \in [Bindings -> {"down", "up", "stopping"}] /\ Keyed /\ Openings
  BY DEF SessInv, SessTypeOK
<1>2. ASSUME NEW o \in Opens,
             Open(o) \/ Evicted(o) \/ StartProcess(o) \/ Initialized(o) \/ Aborted(o)
      PROVE  up[b] = "stopping"
  <2>1. \/ up' = up \/ \E c : up' = [up EXCEPT ![c] = "up"]
        \/ up' = [up EXCEPT ![openFor[o]] = "down"]
    <3>1. CASE Open(o) \/ Evicted(o) \/ Aborted(o)
      BY <3>1 DEF Open, Evicted, Aborted
    <3>2. CASE Initialized(o)
      BY <3>2 DEF Initialized
    <3>3. CASE StartProcess(o)
      BY <3>3 DEF StartProcess
    <3> QED BY <1>2, <3>1, <3>2, <3>3
  <2> QED BY <1>1, <2>1
<1>3. ASSUME NEW o \in Opens, Admit(o)
      PROVE  up[b] = "stopping" \/ b \notin Busy(maps)
  <2>1. up' = up \/ \E s \in Sessions : /\ maps.bound[s] # 0 /\ maps.bound[s] \notin Busy(maps)
                                       /\ up' = Stopping(maps.bound[s])
    BY <1>3 DEF Admit
  <2> QED BY <1>1, <2>1 DEF Stopping
<1>4. ASSUME NEW o \in Opens, Opened(o)
      PROVE  up[b] = "stopping" \/ (open[o] = "opening" /\ openFor[o] = b)
  <2>1. open[o] = "opening" /\ (up' = up \/ up' = Stopping(openFor[o]))
    BY <1>4 DEF Opened
  <2> QED BY <1>1, <2>1 DEF Stopping
<1>5. ASSUME NEW s \in Sessions, PrepareTurn(s) \/ SendTurn(s) \/ TurnEvent(s) \/ TurnAnswered(s)
      PROVE  up[b] = "stopping"
  <2>1. up' = up \/ \E c : up' = [up EXCEPT ![c] = "up"]
    BY <1>5 DEF PrepareTurn, SendTurn, TurnEvent, TurnAnswered
  <2> QED BY <1>1, <2>1
<1>6. ASSUME NEW c \in Bindings, Ask(c) \/ Crash(c) \/ Recovered(c) \/ Stopped(c)
      PROVE  up[b] = "stopping"
  <2>1. up' = up \/ up' = [up EXCEPT ![c] = "down"]
    BY <1>6 DEF Ask, Crash, Recovered, Stopped
  <2> QED BY <1>1, <2>1
<1>7. ASSUME NEW c \in Bindings, IdleTimer(c)
      PROVE  up[b] = "stopping" \/ b \notin Busy(maps)
  <2>1. c \notin Busy(maps) /\ up' = Stopping(c)
    BY <1>7 DEF IdleTimer, MayExpire
  <2> QED BY <1>1, <2>1 DEF Stopping
<1>8. ASSUME NEW k \in Keys, RecoveryTimer(k)
      PROVE  up[b] = "stopping"
  <2>1. up' = up \/ \E c : up' = [up EXCEPT ![c] = "up"]
    BY <1>8 DEF RecoveryTimer
  <2> QED BY <1>1, <2>1
<1>9. ASSUME NEW B, EndBindings(B)
      PROVE  up[b] = "stopping" \/ b \in ordered'
  BY <1>9 DEF EndBindings
<1>10. CASE ShutdownAll \/ \E p \in Projects : ShutdownProject(p)
  BY <1>9, <1>10 DEF ShutdownAll, ShutdownProject
<1>11. CASE AllShutDown
  BY <1>11 DEF AllShutDown
<1> QED BY <1>2, <1>3, <1>4, <1>5, <1>6, <1>7, <1>8, <1>10, <1>11 DEF SessNext

\* The process a session is bound to is not shut down under a turn the
\* application has been told of, unless a sign-out, the removal of its workspace,
\* the window or the end of the application has ordered it.
THEOREM TurnKeepsItsProcess == SessSpec => RunningTurnKept
<1>1. ASSUME SessInv, SessNext, NEW s \in Sessions,
             turn[s] = "running", maps.bound[s] = turnAt[s],
             maps.procs[keyOf[turnAt[s]]] = turnAt[s], up'[turnAt[s]] = "stopping"
      PROVE  turnAt[s] \in ordered'
  <2>1. PICK b : b = turnAt[s]
    OBVIOUS
  <2>2. Serves(b, s) /\ b \in Bindings /\ b # 0
    BY <1>1, <2>1, ZeroTyped DEF SessInv, Keyed, Serves
  <2>3. \/ up[b] = "stopping" \/ b \notin Busy(maps) \/ b \in ordered'
        \/ \E o \in Opens : open[o] = "opening" /\ openFor[o] = b
    BY <1>1, <2>1, <2>2, WhatIsShutDown
  <2>4. up[b] # "stopping" /\ maps.routes[s] = b
    BY <1>1, <2>1, <2>2 DEF SessInv, Routed, Gone
  <2>5. b \in Busy(maps)
    BY <2>4 DEF Busy
  <2>6. ASSUME NEW o \in Opens, open[o] = "opening", openFor[o] = b PROVE FALSE
    <3>1. keyOf[b] = OpenOf[o] /\ maps.bound[OpenOf[o].session] = 0
      BY <1>1, <2>6 DEF SessInv, Openings, Making
    <3>2. OpenOf[o].session = s
      BY <2>2, <3>1 DEF Serves, SessionOf
    <3> QED BY <1>1, <2>1, <2>2, <3>1, <3>2
  <2> QED BY <2>1, <2>3, <2>4, <2>5, <2>6
<1>2. SessInv /\ [SessNext]_sessVars =>
        [\A s \in Sessions :
           /\ turn[s] = "running" /\ maps.bound[s] = turnAt[s]
           /\ maps.procs[keyOf[turnAt[s]]] = turnAt[s]
           /\ up'[turnAt[s]] = "stopping"
           => turnAt[s] \in ordered']_sessVars
  BY <1>1
<1> QED BY <1>2, SessInductive, PTL DEF SessSpec, RunningTurnKept

-----------------------------------------------------------------------------
(* Side by side *)

\* A step of one component leaves the others alone: a step of HostsSpec is a step
\* or a stutter of each.
LEMMA StepsOfParts ==
  [HostsNext]_hostVars =>
    /\ [CliNext]_cliVars /\ [SessNext]_sessVars /\ [TermNext]_termVars /\ [GuestNext]_guestVars
    /\ [BrokerNext]_brokerVars /\ [UseNext]_useVars /\ [BoundedNext]_boundedVars
    /\ [TabsNext]_tabVars /\ [CaptureNext]_captureVars /\ [RunnerNext]_runnerVars
    /\ [PythonNext]_pythonVars /\ [UiNext]_uiVars /\ [NavNext]_navVars /\ [DevNext]_devVars
    /\ [FieldNext]_fieldVars
<1> SUFFICES ASSUME [HostsNext]_hostVars
             PROVE  /\ [CliNext]_cliVars /\ [SessNext]_sessVars /\ [TermNext]_termVars
                    /\ [GuestNext]_guestVars /\ [BrokerNext]_brokerVars /\ [UseNext]_useVars
                    /\ [BoundedNext]_boundedVars /\ [TabsNext]_tabVars /\ [CaptureNext]_captureVars
                    /\ [RunnerNext]_runnerVars /\ [PythonNext]_pythonVars /\ [UiNext]_uiVars
                    /\ [NavNext]_navVars /\ [DevNext]_devVars /\ [FieldNext]_fieldVars
  OBVIOUS
<1>1. CASE UNCHANGED hostVars
  BY <1>1 DEF hostVars
<1>2. CASE CliPart
  BY <1>2 DEF CliPart, Only
<1>3. CASE SessionsPart
  BY <1>3 DEF SessionsPart, Only
<1>4. CASE TerminationPart
  BY <1>4 DEF TerminationPart, Only
<1>5. CASE GuestPart
  BY <1>5 DEF GuestPart, Only
<1>6. CASE BrokerPart
  BY <1>6 DEF BrokerPart, Only
<1>7. CASE ComputerPart
  BY <1>7 DEF ComputerPart, Only
<1>8. CASE BoundedPart
  BY <1>8 DEF BoundedPart, Only
<1>9. CASE TabsPart
  BY <1>9 DEF TabsPart, Only
<1>10. CASE CapturePart
  BY <1>10 DEF CapturePart, Only
<1>11. CASE RunnerPart
  BY <1>11 DEF RunnerPart, Only
<1>12. CASE PythonPart
  BY <1>12 DEF PythonPart, Only
<1>13. CASE UiPart
  BY <1>13 DEF UiPart, Only
<1>14. CASE PagesPart
  BY <1>14 DEF PagesPart, Only
<1>15. CASE DebuggerPart
  BY <1>15 DEF DebuggerPart, Only
<1>16. CASE ControlsPart
  BY <1>16 DEF ControlsPart, Only
<1> QED BY <1>1, <1>2, <1>3, <1>4, <1>5, <1>6, <1>7, <1>8, <1>9, <1>10, <1>11, <1>12, <1>13,
           <1>14, <1>15, <1>16 DEF HostsNext

\* What a behaviour of HostsSpec is for each component that is proved about here.
THEOREM HostsAreComponents ==
  HostsSpec =>
    /\ CliSpec /\ SessSpec /\ TermSpec /\ GuestSpec /\ BrokerSpec /\ UseSpec /\ BoundedSpec
    /\ TabsSpec /\ CaptureSpec /\ RunnerSpec /\ PythonSpec /\ UiSpec
    /\ NavInit /\ [][NavNext]_navVars
    /\ DevInit /\ [][DevNext]_devVars
    /\ FieldInit /\ [][FieldNext]_fieldVars
<1>1. HostsInit =>
        /\ CliInit /\ SessInit /\ TermInit /\ GuestInit /\ BrokerInit /\ UseInit /\ BoundedInit
        /\ TabsInit /\ CaptureInit /\ RunnerInit /\ PythonInit /\ UiInit /\ NavInit /\ DevInit
        /\ FieldInit
  BY DEF HostsInit
<1> QED BY <1>1, StepsOfParts, PTL
       DEF HostsSpec, CliSpec, SessSpec, TermSpec, GuestSpec, BrokerSpec, UseSpec, BoundedSpec,
           TabsSpec, CaptureSpec, RunnerSpec, PythonSpec, UiSpec

-----------------------------------------------------------------------------
(* terminateDesktopProcess *)

\* The exit that is noticed has happened; nothing is armed before the call.
TermInv ==
  /\ TermTypeOK /\ EndMeansGone
  /\ rootSeen => root = "exited"
  /\ ending = "no" => grace = "off"

\* Each event of the child, of the killer and of the deadline keeps it.
LEMMA TermNextKeeps == TermInv /\ [TermNext]_termVars => TermInv'
<1> SUFFICES ASSUME TermInv, [TermNext]_termVars PROVE TermInv'
  OBVIOUS
<1>1. CASE UNCHANGED termVars
  BY <1>1 DEF TermInv, termVars, TermTypeOK, EndMeansGone
<1>2. CASE Terminate
  <2>1. /\ ending = "no" /\ grace = "off" /\ UNCHANGED <<platform, root>> /\ TermTypeOK
        /\ rootSeen => root = "exited"
    BY <1>2 DEF Terminate, TermInv
  <2>2. CASE root = "exited" /\ ending' = "resolved" /\ UNCHANGED <<rootSeen, treeDone, spoilt, grace>>
    BY <2>1, <2>2 DEF TermInv, TermTypeOK, EndMeansGone
  <2>3. CASE /\ root = "running" /\ grace' = "armed" /\ ending' = "pending"
             /\ spoilt' \in {FALSE, platform = "unix"} /\ UNCHANGED <<rootSeen, treeDone>>
    <3>1. spoilt' \in BOOLEAN
      BY <2>3
    <3> QED BY <2>1, <2>3, <3>1 DEF TermInv, TermTypeOK, EndMeansGone
  <2>4. CASE /\ root = "running" /\ platform = "win32" /\ grace' = "over"
             /\ treeDone' = TRUE /\ spoilt' = TRUE /\ ForceChild /\ Settle
    <3>1. rootSeen' = FALSE
      BY <2>1, <2>4 DEF ForceChild, TermTypeOK
    <3>2. ending' = "pending"
      BY <2>4, <3>1 DEF Settle
    <3> QED BY <2>1, <2>4, <3>1, <3>2 DEF TermInv, TermTypeOK, EndMeansGone
  <2> QED BY <1>2, <2>2, <2>3, <2>4 DEF Terminate
<1>3. CASE RootExits \/ RootEvent
  BY <1>3 DEF TermInv, TermTypeOK, EndMeansGone, RootExits, RootEvent, Settle
<1>4. CASE TreeKilled
  BY <1>4 DEF TermInv, TermTypeOK, EndMeansGone, TreeKilled, ForceChild, Settle
<1>5. CASE Deadline
  BY <1>5 DEF TermInv, TermTypeOK, EndMeansGone, Deadline, ForceChild
<1> QED BY <1>1, <1>2, <1>3, <1>4, <1>5 DEF TermNext

\* The invariant of a termination.
LEMMA TermInductive == TermSpec => []TermInv
<1>1. TermInit => TermInv
  BY DEF TermInit, TermInv, TermTypeOK, EndMeansGone
<1> QED BY <1>1, TermNextKeeps, PTL DEF TermSpec

\* The caller is told that the process has ended only when the child has exited
\* and the processes below it were told to end, unless the child had exited before
\* the call.
THEOREM TerminationMeansGone == TermSpec => []EndMeansGone
<1>1. TermInv => EndMeansGone
  BY DEF TermInv
<1> QED BY <1>1, TermInductive, PTL

-----------------------------------------------------------------------------
(* A child process whose output is bounded *)

\* A helper that has produced too much is being stopped, and a result that no
\* stop has given is that of a child which has closed.
BoundedInv ==
  /\ BoundedTypeOK /\ BoundedResult
  /\ kept <= told
  /\ kind = "helper" /\ cut => stopBy # "none"
  /\ result # "none" /\ stopBy = "none" => runChild = "closed"

\* Output in any order with the end of the child, the time-out and the abort.
LEMMA BoundedNextKeeps == BoundedInv /\ [BoundedNext]_boundedVars => BoundedInv'
<1> SUFFICES ASSUME BoundedInv, [BoundedNext]_boundedVars PROVE BoundedInv'
  OBVIOUS
<1>1. /\ BoundedTypeOK /\ Budget \in Nat \ {0} /\ Chunk \in Nat \ {0}
      /\ kept \in Nat /\ told \in Nat /\ kept <= Budget /\ kept <= told
      /\ kept < told => cut \/ stopBy # "none"
      /\ result \in {"exit"} \cup Reasons => runChild # "running"
      /\ kind = "helper" /\ cut => stopBy # "none"
      /\ result # "none" /\ stopBy = "none" => runChild = "closed"
  BY OutputAssumption DEF BoundedInv, BoundedTypeOK, BoundedResult
<1>2. CASE UNCHANGED boundedVars
  BY <1>1, <1>2 DEF BoundedInv, boundedVars, BoundedTypeOK, BoundedResult
<1>3. CASE Output
  <2>1. PICK bytes \in 1..Chunk :
          /\ told' = told + bytes
          /\ \/ /\ kind = "helper" /\ (result # "none" \/ stopBy # "none") /\ UNCHANGED <<kept, cut>>
             \/ kind = "helper" /\ result = "none" /\ stopBy = "none" /\ AppendChunk(bytes)
             \/ kind # "helper" /\ AppendText(bytes)
    BY <1>3 DEF Output
  <2>2. /\ runChild # "closed" /\ UNCHANGED <<kind, runChild, result>>
        /\ stopBy' = IF cut' /\ kind # "terminal" /\ stopBy = "none" /\ result = "none"
                     THEN "output" ELSE stopBy
    BY <1>3 DEF Output
  <2>3. bytes \in Nat /\ bytes > 0 /\ told' \in Nat /\ told' > told
    BY <1>1, <2>1
  <2>4. /\ kept' \in Nat /\ kept' <= Budget /\ kept' <= told' /\ cut' \in BOOLEAN
        /\ kept' < told' => cut' \/ stopBy # "none"
        /\ kind = "helper" /\ cut' => stopBy # "none" \/ result = "none"
    <3>1. CASE kind = "helper" /\ (result # "none" \/ stopBy # "none") /\ UNCHANGED <<kept, cut>>
      BY <1>1, <2>2, <2>3, <3>1 DEF BoundedTypeOK
    <3>2. CASE kind = "helper" /\ result = "none" /\ stopBy = "none" /\ AppendChunk(bytes)
      <4>1. CASE kept + bytes > Budget
        <5>1. cut' = TRUE /\ kept' = kept
          BY <3>2, <4>1 DEF AppendChunk
        <5> QED BY <1>1, <2>3, <3>2, <5>1
      <4>2. CASE ~ (kept + bytes > Budget)
        <5>1. cut' = FALSE /\ kept' = kept + bytes
          <6>1. (kept + bytes > Budget) = FALSE
            BY <4>2
          <6>2. cut' = (kept + bytes > Budget)
            BY <3>2 DEF AppendChunk
          <6>3. cut' = FALSE
            BY <6>1, <6>2
          <6>4. kept' = IF cut' THEN kept ELSE kept + bytes
            BY <3>2 DEF AppendChunk
          <6> QED BY <6>3, <6>4
        <5>2. cut = FALSE
          BY <1>1, <3>2 DEF BoundedTypeOK
        <5>3. kept = told
          BY <1>1, <3>2, <5>2
        <5>4. kept' \in Nat /\ kept' <= Budget /\ kept' <= told' /\ ~ (kept' < told')
          BY <1>1, <2>1, <2>3, <4>2, <5>1, <5>3
        <5> QED BY <3>2, <5>1, <5>4
      <4> QED BY <4>1, <4>2
    <3>3. CASE kind # "helper" /\ AppendText(bytes)
      <4>1. CASE cut \/ kept >= Budget
        <5>1. kept' = kept /\ cut' = TRUE
          BY <3>3, <4>1 DEF AppendText
        <5> QED BY <1>1, <2>3, <3>3, <5>1
      <4>2. CASE ~ (cut \/ kept >= Budget) /\ bytes <= Budget - kept
        <5>1. kept' = kept + bytes /\ cut' = FALSE
          BY <3>3, <4>2 DEF AppendText
        <5>2. kept < told => stopBy # "none"
          BY <1>1, <4>2
        <5>3. kept' < told' => stopBy # "none"
          BY <1>1, <2>1, <2>3, <5>1, <5>2
        <5>4. kept' \in Nat /\ kept' <= Budget /\ kept' <= told'
          BY <1>1, <2>1, <2>3, <4>2, <5>1
        <5> QED BY <3>3, <5>1, <5>3, <5>4
      <4>3. CASE ~ (cut \/ kept >= Budget) /\ ~ (bytes <= Budget - kept)
        <5>1. kept' \in {Budget, Budget - 1} /\ kept' >= kept /\ cut' = TRUE
          BY <3>3, <4>3 DEF AppendText
        <5> QED BY <1>1, <2>1, <2>3, <3>3, <4>3, <5>1
      <4> QED BY <4>1, <4>2, <4>3
    <3> QED BY <2>1, <3>1, <3>2, <3>3
  <2> QED BY <1>1, <2>2, <2>3, <2>4 DEF BoundedInv, BoundedTypeOK, BoundedResult, Reasons
<1>4. CASE StopChild("timeout") \/ StopChild("abort")
  BY <1>1, <1>4 DEF StopChild, BoundedInv, BoundedTypeOK, BoundedResult, Reasons
<1>5. CASE ChildExits \/ ChildCloses \/ SpawnFails
  BY <1>1, <1>5
     DEF ChildExits, ChildCloses, SpawnFails, BoundedInv, BoundedTypeOK, BoundedResult, Reasons
<1>6. CASE Terminated
  BY <1>1, <1>6 DEF Terminated, BoundedInv, BoundedTypeOK, BoundedResult, Reasons
<1> QED BY <1>2, <1>3, <1>4, <1>5, <1>6 DEF BoundedNext

\* The invariant of a child whose output is bounded.
LEMMA BoundedInductive == BoundedSpec => []BoundedInv
<1>1. BoundedInit => BoundedInv
  <2> SUFFICES ASSUME BoundedInit PROVE BoundedInv
    OBVIOUS
  <2>1. kept = 0 /\ told = 0 /\ kept <= Budget /\ kept <= told /\ ~ (kept < told)
    BY OutputAssumption DEF BoundedInit
  <2>2. BoundedTypeOK
    <3>1. kept \in Nat /\ told \in Nat
      BY <2>1
    <3> QED BY <3>1 DEF BoundedInit, BoundedTypeOK, Reasons
  <2> QED BY <2>1, <2>2 DEF BoundedInit, BoundedInv, BoundedResult, Reasons
<1> QED BY <1>1, BoundedNextKeeps, PTL DEF BoundedSpec

\* No more output than the budget is kept, none is missing unnoticed, and a
\* result that names an end is given when the child has ended.
THEOREM OutputStaysBounded == BoundedSpec => []BoundedResult
<1>1. BoundedInv => BoundedResult
  BY DEF BoundedInv
<1> QED BY <1>1, BoundedInductive, PTL

-----------------------------------------------------------------------------
(* One guest of the sandbox *)

\* Before the launch there is nothing; what is being left, or has failed its
\* launch, is being closed, and what is being closed is not alive.
GuestInv ==
  /\ GuestTypeOK /\ NoGuestLeft
  /\ launch = "no" => /\ guestProc = "none" /\ leaving = "no" /\ closing = "no"
                      /\ \A r \in All : request[r] = "new"
  /\ closing # "no" => guestProc # "alive"
  /\ launch \in {"closing", "cleaning"} \/ leaving # "no" => closing # "no"
  /\ leaving # "no" => launch = "ready"

\* Answers, exits, time-outs and closes keep it.
LEMMA GuestNextKeeps == GuestInv /\ [GuestNext]_guestVars => GuestInv'
<1> SUFFICES ASSUME GuestInv, [GuestNext]_guestVars PROVE GuestInv'
  OBVIOUS
<1> USE DEF GuestInv, NoGuestLeft
<1>1. CASE UNCHANGED guestVars
  BY <1>1 DEF guestVars, GuestTypeOK
<1>2. Health \in All /\ FailAll(request) \in [All -> {"new", "waiting", "answered", "failed"}]
      /\ \A r \in All : FailAll(request)[r] = "new" <=> request[r] = "new"
  BY DEF All, FailAll, GuestTypeOK
<1>3. CASE Launch
  BY <1>2, <1>3 DEF Launch, GuestTypeOK
<1>4. CASE Launched \/ LaunchAborted
  BY <1>4 DEF Launched, LaunchAborted, BeginClose, GuestTypeOK
<1>5. CASE GuestLine
  BY <1>2, <1>5 DEF GuestLine, BeginClose, GuestTypeOK
<1>6. CASE GuestExits \/ Closed
  <2>1. /\ request' = FailAll(request) /\ UNCHANGED <<launch, leaving, profile>> /\ launch # "no"
        /\ \/ guestProc' = "gone" /\ shut' = TRUE /\ closing' = closing
           \/ closing = "waiting" /\ closing' = "done" /\ UNCHANGED <<guestProc, shut>>
    BY <1>6 DEF GuestExits, Closed
  <2>2. GuestTypeOK'
    BY <1>2, <2>1 DEF GuestTypeOK
  <2> QED BY <2>1, <2>2
<1>7. CASE Leave
  BY <1>7 DEF Leave, BeginClose, GuestTypeOK
<1>8. ASSUME NEW r \in All, Execute(r) \/ GiveUpRequest(r) PROVE GuestInv'
  <2>1. CASE Execute(r)
    <3>1. /\ launch = "ready" /\ UNCHANGED <<launch, leaving, guestProc, shut, closing, profile>>
          /\ request' = [request EXCEPT ![r] = IF shut THEN "failed" ELSE "waiting"]
      BY <2>1 DEF Execute
    <3>2. GuestTypeOK'
      BY <3>1 DEF GuestTypeOK
    <3> QED BY <3>1, <3>2
  <2>2. CASE GiveUpRequest(r)
    <3>1. /\ request[r] = "waiting" /\ UNCHANGED <<launch, leaving, profile>> /\ BeginClose
          /\ request' = [request EXCEPT ![r] = "failed"]
      BY <2>2 DEF GiveUpRequest
    <3>2. GuestTypeOK'
      BY <3>1 DEF GuestTypeOK, BeginClose
    <3>3. launch # "no"
      BY <3>1
    <3>4. closing' # "no" /\ guestProc' # "alive"
      BY <3>1 DEF BeginClose, GuestTypeOK
    <3>5. guestProc # "alive" => guestProc' # "alive"
      BY <3>1 DEF BeginClose
    <3> QED BY <3>1, <3>2, <3>3, <3>4, <3>5
  <2> QED BY <1>8, <2>1, <2>2
<1> QED BY <1>1, <1>3, <1>4, <1>5, <1>6, <1>7, <1>8 DEF GuestNext

\* The invariant of a guest.
LEMMA GuestInductive == GuestSpec => []GuestInv
<1>1. GuestInit => GuestInv
  BY DEF GuestInit, GuestInv, GuestTypeOK, NoGuestLeft
<1> QED BY <1>1, GuestNextKeeps, PTL DEF GuestSpec

\* A failed start and a close that has returned leave no process that was not
\* told to end; that it has ended need not be confirmed.
THEOREM GuestEndsWithItsClose == GuestSpec => []NoGuestLeft
<1>1. GuestInv => NoGuestLeft
  BY DEF GuestInv
<1> QED BY <1>1, GuestInductive, PTL

\* No process of the CLI, of a termination and of a guest is forgotten: each is in
\* use, was told to end, was over before, or was let go by overlapping shutdowns.
THEOREM NothingForgotten == HostsSpec => []NoProcessForgotten
<1>1. DetachedByOverlapOnly /\ EndMeansGone /\ NoGuestLeft => NoProcessForgotten
  BY DEF NoProcessForgotten
<1> QED BY <1>1, HostsAreComponents, LetGoByOverlap, TerminationMeansGone, GuestEndsWithItsClose, PTL

-----------------------------------------------------------------------------
(* The command of a guest *)

RunnerInv == RunnerTypeOK /\ LimitEndsCommand

\* terminate() ends the leader of the group at the latest with its SIGKILL, and
\* leaves each process with a state.
LEMMA GroupToldEndsLeader ==
  ASSUME RunnerTypeOK, NEW late \in BOOLEAN
  PROVE  /\ GroupTold(members, late) \in [{"child", "kid"} ->
              [state : {"none", "running", "gone"}, holds : BOOLEAN, ignores : BOOLEAN]]
         /\ GroupTold(members, late)["child"].state # "running"
<1>1. \A m \in {"child", "kid"} :
        /\ members[m] \in [state : {"none", "running", "gone"}, holds : BOOLEAN, ignores : BOOLEAN]
        /\ [members[m] EXCEPT !.state = "gone"]
             \in [state : {"none", "running", "gone"}, holds : BOOLEAN, ignores : BOOLEAN]
        /\ [members[m] EXCEPT !.state = "gone"].state = "gone"
  BY DEF RunnerTypeOK
<1> QED BY <1>1 DEF GroupTold

\* Output, forks, exits and answers in any order.
LEMMA RunnerNextKeeps == RunnerInv /\ [RunnerNext]_runnerVars => RunnerInv'
<1> SUFFICES ASSUME RunnerInv, [RunnerNext]_runnerVars PROVE RunnerInv'
  OBVIOUS
<1> DEFINE Member == [state : {"none", "running", "gone"}, holds : BOOLEAN, ignores : BOOLEAN]
<1>1. /\ RunnerTypeOK /\ members \in [{"child", "kid"} -> Member]
      /\ MaxOut \in Nat \ {0} /\ PipeChunk \in Nat \ {0} /\ DiskLimit \in Nat \ {0} /\ MaxAsks \in Nat \ {0}
      /\ inPipe \in Nat /\ inPipe <= PipeChunk /\ collected \in Nat /\ collected <= MaxOut
      /\ disk \in Nat /\ disk <= DiskLimit + 1 /\ asksLeft \in Nat /\ asksLeft <= MaxAsks
      /\ verdict \in Limits => ~Running("child")
  BY RunnerAssumption DEF RunnerInv, RunnerTypeOK, LimitEndsCommand
<1>2. CASE UNCHANGED runnerVars
  BY <1>2 DEF RunnerInv, RunnerTypeOK, LimitEndsCommand, runnerVars, Running
<1>3. CASE Refuse \/ Write
  <2>1. asksLeft > 0 /\ asksLeft' = asksLeft - 1 /\ UNCHANGED <<serving, members, inPipe, collected>>
    BY <1>3 DEF Refuse, Write
  <2>2. verdict' \in {"refused", "written"}
    BY <1>3 DEF Refuse, Write
  <2>3. disk' \in Nat /\ disk' <= DiskLimit + 1
    <3>1. CASE Refuse
      BY <1>1, <3>1 DEF Refuse
    <3>2. CASE Write
      <4>1. PICK delta \in 0..1 : disk' = disk \/ disk' = disk + delta
        BY <3>2 DEF Write
      <4>2. disk' <= DiskLimit + 1
        BY <3>2 DEF Write
      <4> QED BY <1>1, <4>1, <4>2
    <3> QED BY <1>3, <3>1, <3>2
  <2>4. asksLeft' \in 0..MaxAsks /\ disk' \in 0..(DiskLimit + 1)
    BY <1>1, <2>1, <2>3
  <2> QED BY <1>1, <2>1, <2>2, <2>4 DEF RunnerInv, RunnerTypeOK, LimitEndsCommand, Limits
<1>4. CASE Exec
  <2>1. PICK i \in BOOLEAN :
          members' = [m \in {"child", "kid"} |->
                        IF m = "child" THEN [state |-> "running", holds |-> TRUE, ignores |-> i]
                                       ELSE NotStarted]
    BY <1>4 DEF Exec
  <2>2. members' \in [{"child", "kid"} -> Member]
    <3>1. NotStarted \in Member /\ [state |-> "running", holds |-> TRUE, ignores |-> i] \in Member
      BY DEF NotStarted
    <3> QED BY <2>1, <3>1
  <2>3. /\ asksLeft > 0 /\ asksLeft' = asksLeft - 1 /\ disk' = disk
        /\ serving' = "command" /\ inPipe' = 0 /\ collected' = 0 /\ verdict' = "none"
    BY <1>4 DEF Exec
  <2>4. asksLeft' \in 0..MaxAsks /\ inPipe' \in 0..PipeChunk /\ collected' \in 0..MaxOut
    BY <1>1, <2>3
  <2> QED BY <1>1, <2>2, <2>3, <2>4 DEF RunnerInv, RunnerTypeOK, LimitEndsCommand, Limits
<1>5. CASE Fork
  <2>1. PICK h \in BOOLEAN, i \in BOOLEAN :
          members' = [members EXCEPT !["kid"] =
                        [state |-> "running", holds |-> h /\ members["child"].holds, ignores |-> i]]
    BY <1>5 DEF Fork
  <2>2. [state |-> "running", holds |-> h /\ members["child"].holds, ignores |-> i] \in Member
    <3>1. (h /\ members["child"].holds) \in BOOLEAN
      OBVIOUS
    <3> QED BY <3>1
  <2>3. members' \in [{"child", "kid"} -> Member] /\ members'["child"] = members["child"]
    BY <1>1, <2>1, <2>2
  <2>4. UNCHANGED <<serving, inPipe, collected, disk, verdict, asksLeft>>
    BY <1>5 DEF Fork
  <2> QED BY <1>1, <2>3, <2>4 DEF RunnerInv, RunnerTypeOK, LimitEndsCommand, Running
<1>6. ASSUME NEW m \in {"child", "kid"}, Depart(m) PROVE RunnerInv'
  <2>1. /\ Running(m) /\ UNCHANGED <<serving, inPipe, collected, disk, verdict, asksLeft>>
        /\ \/ members' = [members EXCEPT ![m].state = "gone"]
           \/ members' = [members EXCEPT ![m].holds = FALSE]
    BY <1>6 DEF Depart
  <2>2. members' \in [{"child", "kid"} -> Member]
    <3>1. [members[m] EXCEPT !.state = "gone"] \in Member /\ [members[m] EXCEPT !.holds = FALSE] \in Member
      BY <1>1
    <3>2. \/ members' = [members EXCEPT ![m] = [members[m] EXCEPT !.state = "gone"]]
          \/ members' = [members EXCEPT ![m] = [members[m] EXCEPT !.holds = FALSE]]
      BY <1>1, <2>1
    <3> QED BY <1>1, <3>1, <3>2
  <2>3. members'["child"].state = "running" => members["child"].state = "running"
    BY <1>1, <2>1
  <2> QED BY <1>1, <2>1, <2>2, <2>3 DEF RunnerInv, RunnerTypeOK, LimitEndsCommand, Running
<1>7. ASSUME NEW m \in {"child", "kid"}, Produce(m) PROVE RunnerInv'
  <2>1. /\ UNCHANGED <<serving, members, collected, verdict, asksLeft>>
        /\ \/ inPipe' = PipeChunk /\ UNCHANGED disk
           \/ disk <= DiskLimit /\ disk' = disk + 1 /\ UNCHANGED inPipe
    BY <1>7 DEF Produce
  <2>2. inPipe' \in 0..PipeChunk /\ disk' \in 0..(DiskLimit + 1)
    BY <1>1, <2>1
  <2> QED BY <1>1, <2>1, <2>2 DEF RunnerInv, RunnerTypeOK, LimitEndsCommand, Running
<1>8. CASE AtLimit
  <2>1. PICK late \in BOOLEAN : members' = GroupTold(members, late)
    BY <1>8 DEF AtLimit
  <2>2. /\ serving' = "cleaning" /\ UNCHANGED <<inPipe, collected, disk, asksLeft>> /\ verdict' \in Limits
    BY <1>8 DEF AtLimit, Limits
  <2> QED BY <1>1, <2>1, <2>2, GroupToldEndsLeader DEF RunnerInv, RunnerTypeOK, LimitEndsCommand, Running
<1>9. CASE Read
  <2>1. /\ inPipe' = 0 /\ UNCHANGED <<disk, asksLeft>>
        /\ collected' = collected + (IF inPipe <= MaxOut - collected THEN inPipe ELSE MaxOut - collected)
    BY <1>9 DEF Read
  <2>2. inPipe' \in 0..PipeChunk /\ collected' \in 0..MaxOut /\ collected' <= MaxOut
    BY <1>1, <2>1
  <2>3. CASE inPipe > MaxOut - collected
    <3>1. verdict' = "truncated" /\ serving' = "cleaning"
      BY <1>9, <2>3 DEF Read
    <3>2. PICK late \in BOOLEAN : members' = GroupTold(members, late)
      BY <1>9, <2>3 DEF Read
    <3> QED BY <1>1, <2>1, <2>2, <3>1, <3>2, GroupToldEndsLeader
            DEF RunnerInv, RunnerTypeOK, LimitEndsCommand, Running, Limits
  <2>4. CASE ~ (inPipe > MaxOut - collected)
    <3>1. UNCHANGED <<verdict, serving, members>>
      BY <1>9, <2>4 DEF Read
    <3> QED BY <1>1, <2>1, <2>2, <3>1 DEF RunnerInv, RunnerTypeOK, LimitEndsCommand, Running
  <2> QED BY <2>3, <2>4
<1>10. CASE PipesEnd
  BY <1>1, <1>10 DEF PipesEnd, RunnerInv, RunnerTypeOK, LimitEndsCommand, Limits
<1>11. CASE Clean
  <2>1. serving' = "idle" /\ UNCHANGED <<inPipe, collected, disk, verdict, asksLeft>>
    BY <1>11 DEF Clean
  <2>2. CASE Running("child")
    <3>1. members' = members
      BY <1>11, <2>2 DEF Clean
    <3> QED BY <1>1, <2>1, <3>1 DEF RunnerInv, RunnerTypeOK, LimitEndsCommand, Running
  <2>3. CASE ~Running("child")
    <3>1. members' = GroupTold(members, FALSE)
      BY <1>11, <2>3 DEF Clean
    <3> QED BY <1>1, <2>1, <3>1, GroupToldEndsLeader DEF RunnerInv, RunnerTypeOK, LimitEndsCommand, Running
  <2> QED BY <2>2, <2>3
<1> QED BY <1>2, <1>3, <1>4, <1>5, <1>6, <1>7, <1>8, <1>9, <1>10, <1>11 DEF RunnerNext

\* The invariant of the command of a guest.
LEMMA RunnerInductive == RunnerSpec => []RunnerInv
<1>1. RunnerInit => RunnerInv
  <2> SUFFICES ASSUME RunnerInit PROVE RunnerInv
    OBVIOUS
  <2>1. /\ inPipe \in 0..PipeChunk /\ collected \in 0..MaxOut /\ disk \in 0..(DiskLimit + 1)
        /\ asksLeft \in 0..MaxAsks /\ collected <= MaxOut
    BY RunnerAssumption DEF RunnerInit
  <2> QED BY <2>1 DEF RunnerInit, RunnerInv, RunnerTypeOK, LimitEndsCommand, Limits, NotStarted
<1> QED BY <1>1, RunnerNextKeeps, PTL DEF RunnerSpec

\* A command that a limit has ended does not run on, and no more of its output
\* is kept than the limit allows.
THEOREM LimitsEndTheCommand == RunnerSpec => []LimitEndsCommand
<1>1. RunnerInv => LimitEndsCommand
  BY DEF RunnerInv
<1> QED BY <1>1, RunnerInductive, PTL

-----------------------------------------------------------------------------
(* The Python runtime of a guest *)

\* One preparation at a time is behind the lock, and it holds it.
PythonInv ==
  /\ prep \in [Preparations -> Outside \cup InLock] /\ locked \subseteq Preparations
  /\ \A r \in Preparations : prep[r] \in InLock => r \in locked
  /\ \A r, s \in locked : r = s
  /\ PreparedIsThere

\* Only who holds the lock changes the packages, so those that were verified
\* stay until it is let go.
LEMMA PythonNextKeeps == PythonInv /\ [PythonNext]_pythonVars => PythonInv'
<1> SUFFICES ASSUME PythonInv, [PythonNext]_pythonVars PROVE PythonInv'
  OBVIOUS
<1> USE DEF PythonInv, Outside, InLock
<1>1. CASE UNCHANGED pythonVars
  BY <1>1 DEF pythonVars, PreparedIsThere, Invalid
<1>2. ASSUME NEW r \in Preparations, Enter(r) PROVE PythonInv'
  BY <1>2 DEF Enter, Lock, PreparedIsThere, Invalid
<1>3. ASSUME NEW r \in Preparations, CreateVenv(r) \/ EnsurePip(r) PROVE PythonInv'
  BY <1>3 DEF CreateVenv, EnsurePip, PreparedIsThere, Invalid
<1>4. ASSUME NEW r \in Preparations, Install(r) PROVE PythonInv'
  BY <1>4 DEF Install, PreparedIsThere
<1>5. ASSUME NEW r \in Preparations, InstallFails(r) \/ Unlock(r) \/ KillPreparation(r) PROVE PythonInv'
  BY <1>5 DEF InstallFails, Unlock, KillPreparation, LeaveLock, PreparedIsThere, Invalid
<1>6. ASSUME NEW r \in Preparations, Installed(r) PROVE PythonInv'
  BY <1>6 DEF Installed, PreparedIsThere, Invalid
<1>7. ASSUME NEW r \in Preparations, Verify(r) PROVE PythonInv'
  <2>1. CASE Invalid(r) = {}
    <3>1. prep' = [prep EXCEPT ![r] = "verified"] /\ UNCHANGED <<venv, wheels, locked>> /\ prep[r] = "verify"
      BY <1>7, <2>1 DEF Verify
    <3>2. \A s \in Preparations : Invalid(s)' = Invalid(s)
      BY <3>1 DEF Invalid
    <3> QED BY <2>1, <3>1, <3>2 DEF PreparedIsThere
  <2>2. CASE Invalid(r) # {}
    BY <1>7, <2>2 DEF Verify, LeaveLock, PreparedIsThere, Invalid
  <2> QED BY <2>1, <2>2
<1> QED BY <1>1, <1>2, <1>3, <1>4, <1>5, <1>6, <1>7 DEF PythonNext

\* The invariant of the Python runtime.
LEMMA PythonInductive == PythonSpec => []PythonInv
<1>1. PythonInit => PythonInv
  BY DEF PythonInit, PythonInv, PreparedIsThere, Outside, InLock
<1> QED BY <1>1, PythonNextKeeps, PTL DEF PythonSpec

\* When a preparation reports success, what it asked for is in the venv.
THEOREM PreparationsHold == PythonSpec => []PreparedIsThere
<1>1. PythonInv => PreparedIsThere
  BY DEF PythonInv
<1> QED BY <1>1, PythonInductive, PTL

-----------------------------------------------------------------------------
(* The recording of a browser session *)

\* The room for the frame in flight was there when its capture began, and one
\* capture is in flight at a time.
FramesInv ==
  /\ frames \in Nat /\ FramesBounded /\ inFlight \in BOOLEAN
  /\ inFlight => frames < MaxFrames

\* Every step of a recording keeps its frames under the limit of the recorder.
LEMMA CaptureNextKeeps == FramesInv /\ [CaptureNext]_captureVars => FramesInv'
<1> SUFFICES ASSUME FramesInv, [CaptureNext]_captureVars PROVE FramesInv'
  OBVIOUS
<1> USE DEF FramesInv, FramesBounded
<1>0. MaxFrames \in Nat
  BY CaptureAssumption
<1>1. CASE UNCHANGED captureVars \/ PendingTaken \/ CloseCapture \/ \E d \in Downloads : Download(d) \/ ItemDone(d)
  BY <1>1 DEF captureVars, PendingTaken, CloseCapture, Download, ItemDone, recordingVars
<1>2. ASSUME NEW first, NEW n, NEW timer, CaptureFrame(first, n, timer) PROVE FramesInv'
  <2>1. frames' = frames
    BY <1>2 DEF CaptureFrame
  <2>2. inFlight' \in BOOLEAN
    BY <1>2 DEF CaptureFrame
  <2>3. inFlight' => frames < MaxFrames
    <3>1. CASE frames >= MaxFrames
      <4>1. inFlight' = inFlight
        BY <1>2, <3>1 DEF CaptureFrame
      <4> QED BY <4>1
    <3>2. CASE ~ (frames >= MaxFrames)
      BY <1>0, <3>2
    <3> QED BY <3>1, <3>2
  <2> QED BY <2>1, <2>2, <2>3
<1>3. CASE StartRecording \/ Tick \/ StopRecording
  BY <1>2, <1>3 DEF StartRecording, Tick, StopRecording
<1>4. CASE FrameCaptured
  <2>1. inFlight' = FALSE
    BY <1>4 DEF FrameCaptured
  <2>2. inFlight /\ (frames' = frames + 1 \/ frames' = frames)
    BY <1>4 DEF FrameCaptured
  <2>3. frames' \in Nat /\ frames' <= MaxFrames
    BY <1>0, <2>2
  <2> QED BY <2>1, <2>3
<1> QED BY <1>1, <1>3, <1>4 DEF CaptureNext

\* The invariant of a recording.
LEMMA CaptureInductive == CaptureSpec => []FramesInv
<1>1. CaptureInit => FramesInv
  <2>1. MaxFrames \in Nat /\ 0 <= MaxFrames
    BY CaptureAssumption
  <2>2. 0 \in Nat /\ FALSE \in BOOLEAN
    OBVIOUS
  <2> QED BY <2>1, <2>2 DEF CaptureInit, FramesInv, FramesBounded
<1> QED BY <1>1, CaptureNextKeeps, PTL DEF CaptureSpec

\* A recording never has more frames than it may keep.
THEOREM RecordingStaysBounded == CaptureSpec => []FramesBounded
<1>1. FramesInv => FramesBounded
  BY DEF FramesInv
<1> QED BY <1>1, CaptureInductive, PTL

\* What children, pages and guests produce is kept within its limit.
THEOREM ProductsStayBounded == HostsSpec => []OutputBounded
<1>1. BoundedResult /\ LimitEndsCommand /\ FramesBounded => OutputBounded
  BY DEF OutputBounded
<1> QED BY <1>1, HostsAreComponents, OutputStaysBounded, LimitsEndTheCommand, RecordingStaysBounded, PTL

-----------------------------------------------------------------------------
(* The tabs of a browser session *)

TabsInv == TabsTypeOK /\ OneTabShown

\* Hiding a view leaves a tab a tab, and shows none.
LEMMA AppliedTabs ==
  ASSUME TabsAssumption, NEW tabs \in [Tabs -> TabState], NEW on
  PROVE  /\ Applied(tabs, on) \in [Tabs -> TabState]
         /\ \A t \in Tabs : /\ Applied(tabs, on)[t].at = tabs[t].at
                            /\ Applied(tabs, on)[t].boundsTask = tabs[t].boundsTask
                            /\ Applied(tabs, on)[t].visible =>
                                 \/ t = on /\ tabs[t].at \in {"loading", "ready"}
                                 \/ tabs[t].at \notin {"loading", "ready"} /\ tabs[t].visible
<1>1. \A t \in Tabs :
        /\ tabs[t] \in TabState /\ [tabs[t] EXCEPT !.visible = TRUE] \in TabState
        /\ [tabs[t] EXCEPT !.visible = FALSE, !.bounds = Hidden, !.native = Hidden] \in TabState
        /\ [tabs[t] EXCEPT !.visible = TRUE].at = tabs[t].at
        /\ [tabs[t] EXCEPT !.visible = FALSE, !.bounds = Hidden, !.native = Hidden].at = tabs[t].at
        /\ [tabs[t] EXCEPT !.visible = TRUE].boundsTask = tabs[t].boundsTask
        /\ [tabs[t] EXCEPT !.visible = FALSE, !.bounds = Hidden, !.native = Hidden].boundsTask
             = tabs[t].boundsTask
        /\ ~ [tabs[t] EXCEPT !.visible = FALSE, !.bounds = Hidden, !.native = Hidden].visible
  <2> TAKE t \in Tabs
  <2>1. tabs[t] \in TabState
    OBVIOUS
  <2>2. PICK v \in TabState : v = tabs[t]
    BY <2>1
  <2>3. /\ [v EXCEPT !.visible = TRUE] \in TabState
        /\ [v EXCEPT !.visible = TRUE].at = v.at
        /\ [v EXCEPT !.visible = TRUE].boundsTask = v.boundsTask
    BY DEF TabState
  <2>4. /\ [v EXCEPT !.visible = FALSE, !.bounds = Hidden, !.native = Hidden] \in TabState
        /\ [v EXCEPT !.visible = FALSE, !.bounds = Hidden, !.native = Hidden].at = v.at
        /\ [v EXCEPT !.visible = FALSE, !.bounds = Hidden, !.native = Hidden].boundsTask = v.boundsTask
        /\ ~ [v EXCEPT !.visible = FALSE, !.bounds = Hidden, !.native = Hidden].visible
    BY DEF TabState
  <2> QED BY <2>2, <2>3, <2>4
<1> QED BY <1>1 DEF Applied

\* Giving a view its newest size leaves a tab a tab where it was, and shows it
\* only when it is the active one.
LEMMA FlushedTab ==
  ASSUME TabsAssumption, TabsTypeOK, NEW t \in Tabs, NEW was \in TabState, NEW size \in Sizes \cup {Hidden}
  PROVE  /\ FlushViewBounds(t, was, size) \in TabState
         /\ FlushViewBounds(t, was, size).at = was.at
         /\ FlushViewBounds(t, was, size).visible => activeTab = t
<1> DEFINE shown == Shows(t, size)
           next == IF shown THEN size ELSE Hidden
           given == [was EXCEPT !.pending = NoTab, !.visible = shown, !.bounds = next]
<1>1. shown \in BOOLEAN /\ (shown => activeTab = t)
  BY DEF Shows
<1>2. next \in Sizes \cup {Hidden}
  OBVIOUS
<1> HIDE DEF shown, next
<1>3. given \in TabState /\ given.at = was.at /\ given.visible = shown
  BY <1>1, <1>2 DEF TabState
<1> HIDE DEF given
<1>4. /\ [given EXCEPT !.boundsTask = next] \in TabState
      /\ [given EXCEPT !.boundsTask = Hidden, !.native = next] \in TabState
      /\ [given EXCEPT !.boundsTask = next].at = given.at
      /\ [given EXCEPT !.boundsTask = Hidden, !.native = next].at = given.at
      /\ [given EXCEPT !.boundsTask = next].visible = given.visible
      /\ [given EXCEPT !.boundsTask = Hidden, !.native = next].visible = given.visible
  BY <1>2, <1>3 DEF TabState
<1>5. \/ FlushViewBounds(t, was, size) = [given EXCEPT !.boundsTask = next]
      \/ FlushViewBounds(t, was, size) = [given EXCEPT !.boundsTask = Hidden, !.native = next]
  BY DEF FlushViewBounds, given, next, shown
<1> QED BY <1>1, <1>3, <1>4, <1>5

\* Sizes, selections, loads and closes in any order.
LEMMA TabsNextKeeps == TabsInv /\ [TabsNext]_tabVars => TabsInv'
<1> SUFFICES ASSUME TabsInv, [TabsNext]_tabVars PROVE TabsInv'
  OBVIOUS
<1> USE TabsAssumption
<1>0. /\ TabsTypeOK /\ OneTabShown /\ activeTab \in Tabs \cup {NoTab} /\ tab \in [Tabs -> TabState]
      /\ \A t \in Tabs : tab[t] \in TabState
      /\ \A t \in Tabs : tab[t].visible => t = activeTab /\ tab[t].at \in {"loading", "ready"}
      /\ phase \in {"none", "open", "clearing", "closed"}
  BY DEF TabsInv, TabsTypeOK, OneTabShown
<1>1. CASE UNCHANGED tabVars
  BY <1>1 DEF TabsInv, TabsTypeOK, OneTabShown, tabVars
<1>2. ASSUME NEW t \in Tabs, CreateTab(t) PROVE TabsInv'
  <2>1. tab' = [tab EXCEPT ![t] = [tab[t] EXCEPT !.at = "loading"]] /\ activeTab' = activeTab /\ tab[t].at = "new"
    BY <1>0, <1>2 DEF CreateTab
  <2>2. [tab[t] EXCEPT !.at = "loading"] \in TabState /\ [tab[t] EXCEPT !.at = "loading"].visible = tab[t].visible
    BY <1>0 DEF TabState
  <2>3. phase' \in {"none", "open", "clearing", "closed"}
    BY <1>0, <1>2 DEF CreateTab
  <2>4. tab' \in [Tabs -> TabState]
    BY <1>0, <2>1, <2>2
  <2>5. OneTabShown'
    BY <1>0, <2>1, <2>2 DEF OneTabShown
  <2> QED BY <1>0, <2>1, <2>3, <2>4, <2>5 DEF TabsInv, TabsTypeOK
<1>3. ASSUME NEW t \in Tabs, TabLoaded(t) PROVE TabsInv'
  <2> DEFINE loaded == [tab[t] EXCEPT !.at = "ready"]
             tabs == [tab EXCEPT ![t] = loaded]
  <2>1. activeTab' = t /\ tab' = Applied(tabs, t) /\ phase' = phase /\ tab[t].at = "loading"
    <3>1. [tab EXCEPT ![t].at = "ready"] = tabs
      BY <1>0
    <3> QED BY <1>3, <3>1 DEF TabLoaded
  <2>2. loaded \in TabState /\ loaded.at = "ready"
    BY <1>0 DEF TabState
  <2> HIDE DEF loaded
  <2>3. tabs \in [Tabs -> TabState] /\ tabs[t].at = "ready" /\ \A o \in Tabs : o # t => tabs[o] = tab[o]
    BY <1>0, <2>2
  <2> HIDE DEF tabs
  <2>4. tab' \in [Tabs -> TabState]
    BY <2>1, <2>3, AppliedTabs
  <2>5. \A o \in Tabs : tab'[o].at = tabs[o].at
    BY <2>1, <2>3, AppliedTabs
  <2>6. \A o \in Tabs : tab'[o].visible => o = t \/ (tabs[o].at \notin {"loading", "ready"} /\ tabs[o].visible)
    BY <2>1, <2>3, AppliedTabs
  <2>7. \A o \in Tabs : tab'[o].visible => o = t
    BY <1>0, <2>3, <2>6
  <2>8. OneTabShown'
    BY <2>1, <2>3, <2>5, <2>7 DEF OneTabShown
  <2> QED BY <1>0, <2>1, <2>4, <2>8 DEF TabsInv, TabsTypeOK
<1>4. ASSUME NEW t \in Tabs, SelectTab(t) PROVE TabsInv'
  <2>1. activeTab' = t /\ tab' = Applied(tab, t) /\ phase' = phase /\ tab[t].at \in {"loading", "ready"}
    BY <1>4 DEF SelectTab, Listed
  <2>2. tab' \in [Tabs -> TabState]
    BY <1>0, <2>1, AppliedTabs
  <2>3. \A o \in Tabs : tab'[o].at = tab[o].at
    BY <1>0, <2>1, AppliedTabs
  <2>4. \A o \in Tabs : tab'[o].visible => o = t \/ (tab[o].at \notin {"loading", "ready"} /\ tab[o].visible)
    BY <1>0, <2>1, AppliedTabs
  <2>5. OneTabShown'
    BY <1>0, <2>1, <2>3, <2>4 DEF OneTabShown
  <2> QED BY <1>0, <2>1, <2>2, <2>5 DEF TabsInv, TabsTypeOK
<1>5. ASSUME NEW t \in Tabs, CloseTab(t) PROVE TabsInv'
  <2> DEFINE gone == [tab[t] EXCEPT !.at = "gone", !.visible = FALSE]
             tabs == [tab EXCEPT ![t] = gone]
  <2>1. tab' = Applied(tabs, activeTab') /\ phase' = phase
    <3>1. [tab EXCEPT ![t].at = "gone", ![t].visible = FALSE] = tabs
      BY <1>0
    <3> QED BY <1>5, <3>1 DEF CloseTab
  <2>2. gone \in TabState /\ ~gone.visible
    <3>1. PICK v \in TabState : v = tab[t]
      BY <1>0
    <3>2. /\ [v EXCEPT !.at = "gone", !.visible = FALSE] \in TabState
          /\ ~ [v EXCEPT !.at = "gone", !.visible = FALSE].visible
      BY DEF TabState
    <3> QED BY <3>1, <3>2
  <2> HIDE DEF gone
  <2>3. tabs \in [Tabs -> TabState] /\ ~tabs[t].visible /\ \A o \in Tabs : o # t => tabs[o] = tab[o]
    BY <1>0, <2>2
  <2> HIDE DEF tabs
  <2>4. \/ activeTab' \in Tabs \ {t} /\ tab[activeTab'].at \in {"loading", "ready"}
        \/ activeTab' = activeTab /\ activeTab # t
    BY <1>5 DEF CloseTab, Listed
  <2>5. tab' \in [Tabs -> TabState]
    BY <2>1, <2>3, AppliedTabs
  <2>6. \A o \in Tabs : tab'[o].at = tabs[o].at
    BY <2>1, <2>3, AppliedTabs
  <2>7. \A o \in Tabs : tab'[o].visible =>
          \/ o = activeTab' /\ tabs[o].at \in {"loading", "ready"}
          \/ (tabs[o].at \notin {"loading", "ready"} /\ tabs[o].visible)
    BY <2>1, <2>3, AppliedTabs
  <2>8. \A o \in Tabs : tabs[o].visible => tabs[o] = tab[o] /\ tab[o].at \in {"loading", "ready"} /\ o = activeTab
    BY <1>0, <2>3
  <2>9. \A o \in Tabs : tab'[o].visible => o = activeTab'
    BY <2>7, <2>8
  <2>10. CASE activeTab' \in Tabs \ {t} /\ tab[activeTab'].at \in {"loading", "ready"}
    <3>1. tab'[activeTab'].at \in {"loading", "ready"}
      BY <2>3, <2>6, <2>10
    <3>2. OneTabShown'
      BY <2>9, <3>1 DEF OneTabShown
    <3> QED BY <1>0, <2>1, <2>5, <2>10, <3>2 DEF TabsInv, TabsTypeOK
  <2>11. CASE activeTab' = activeTab /\ activeTab # t
    <3>1. OneTabShown'
      <4> SUFFICES ASSUME NEW o \in Tabs, tab'[o].visible
                   PROVE  o = activeTab' /\ tab'[o].at \in {"loading", "ready"}
        BY DEF OneTabShown
      <4>1. o = activeTab' /\ o # t /\ tabs[o] = tab[o] /\ tab'[o].at = tab[o].at
        BY <2>3, <2>6, <2>9, <2>11
      <4>2. tabs[o].at \in {"loading", "ready"}
        BY <2>7, <2>8
      <4> QED BY <2>6, <4>1, <4>2
    <3> QED BY <1>0, <2>1, <2>5, <2>11, <3>1 DEF TabsInv, TabsTypeOK
  <2> QED BY <2>4, <2>10, <2>11
<1>6. ASSUME NEW t \in Tabs, Navigate(t) PROVE TabsInv'
  <2>1. tab' = [tab EXCEPT ![t] = [tab[t] EXCEPT !.blank = FALSE]] /\ UNCHANGED <<phase, activeTab>>
    BY <1>0, <1>6 DEF Navigate
  <2>2. /\ [tab[t] EXCEPT !.blank = FALSE] \in TabState
        /\ [tab[t] EXCEPT !.blank = FALSE].visible = tab[t].visible
        /\ [tab[t] EXCEPT !.blank = FALSE].at = tab[t].at
    BY <1>0 DEF TabState
  <2>3. tab' \in [Tabs -> TabState]
    BY <1>0, <2>1, <2>2
  <2>4. OneTabShown'
    BY <1>0, <2>1, <2>2 DEF OneTabShown
  <2> QED BY <1>0, <2>1, <2>3, <2>4 DEF TabsInv, TabsTypeOK
<1>7. ASSUME NEW t \in Tabs, NEW new \in TabState, UNCHANGED <<phase, activeTab>>, tab' = [tab EXCEPT ![t] = new],
             new.at = tab[t].at,
             new.visible => tab[t].visible \/ (activeTab = t /\ t \in Listed)
      PROVE  TabsInv'
  <2>1. tab' \in [Tabs -> TabState]
    BY <1>0, <1>7
  <2>2. OneTabShown'
    <3> SUFFICES ASSUME NEW o \in Tabs, tab'[o].visible
                 PROVE  o = activeTab' /\ tab'[o].at \in {"loading", "ready"}
      BY DEF OneTabShown
    <3>1. CASE o = t
      BY <1>0, <1>7, <3>1 DEF Listed
    <3>2. CASE o # t
      BY <1>0, <1>7, <3>2
    <3> QED BY <3>1, <3>2
  <2> QED BY <1>0, <1>7, <2>1, <2>2 DEF TabsInv, TabsTypeOK
<1>8. ASSUME NEW t \in Tabs, NEW size \in Sizes \cup {Hidden}, SetViewBounds(t, size) PROVE TabsInv'
  <2>1. CASE tab[t].boundsTask # Hidden
    <3> DEFINE new == [tab[t] EXCEPT !.pending = size]
    <3>1. tab' = [tab EXCEPT ![t] = new] /\ UNCHANGED <<phase, activeTab>>
      BY <1>0, <1>8, <2>1 DEF SetViewBounds
    <3>2. new \in TabState /\ new.at = tab[t].at /\ new.visible = tab[t].visible
      BY <1>0 DEF TabState
    <3> HIDE DEF new
    <3> QED BY <1>7, <3>1, <3>2
  <2>2. CASE tab[t].boundsTask = Hidden
    <3> DEFINE new == FlushViewBounds(t, tab[t], size)
    <3>1. tab' = [tab EXCEPT ![t] = new] /\ UNCHANGED <<phase, activeTab>> /\ t \in Listed
      BY <1>0, <1>8, <2>2 DEF SetViewBounds
    <3>2. new \in TabState /\ new.at = tab[t].at /\ (new.visible => activeTab = t)
      BY <1>0, FlushedTab
    <3> HIDE DEF new
    <3> QED BY <1>7, <3>1, <3>2
  <2> QED BY <2>1, <2>2
<1>9. ASSUME NEW t \in Tabs, ViewportSet(t) PROVE TabsInv'
  <2>1. PICK ok \in BOOLEAN :
          LET size == tab[t].boundsTask
              set == [tab[t] EXCEPT !.nativeMode = ok, !.css = IF ok THEN size ELSE @]
          IN tab' = [tab EXCEPT ![t] =
               IF phase = "closed" \/ t \notin Listed THEN [set EXCEPT !.boundsTask = Hidden]
               ELSE IF set.pending # NoTab THEN FlushViewBounds(t, set, set.pending)
               ELSE [set EXCEPT !.boundsTask = Hidden, !.native = size]]
    BY <1>9 DEF ViewportSet
  <2> DEFINE size == tab[t].boundsTask
             set == [tab[t] EXCEPT !.nativeMode = ok, !.css = IF ok THEN size ELSE @]
             new == IF phase = "closed" \/ t \notin Listed THEN [set EXCEPT !.boundsTask = Hidden]
                    ELSE IF set.pending # NoTab THEN FlushViewBounds(t, set, set.pending)
                    ELSE [set EXCEPT !.boundsTask = Hidden, !.native = size]
  <2>2. tab' = [tab EXCEPT ![t] = new] /\ UNCHANGED <<phase, activeTab>>
    BY <1>9, <2>1 DEF ViewportSet
  <2>3. size \in Sizes \cup {Hidden}
    BY <1>0 DEF TabState
  <2>4. set \in TabState /\ set.at = tab[t].at /\ set.visible = tab[t].visible /\ set.pending = tab[t].pending
    <3>1. (IF ok THEN size ELSE tab[t].css) \in Sizes \cup {Hidden}
      BY <1>0, <2>3 DEF TabState
    <3>2. PICK v \in TabState : v = tab[t]
      BY <1>0
    <3>3. PICK css \in Sizes \cup {Hidden} : css = IF ok THEN size ELSE tab[t].css
      BY <3>1
    <3>4. /\ [v EXCEPT !.nativeMode = ok, !.css = css] \in TabState
          /\ [v EXCEPT !.nativeMode = ok, !.css = css].at = v.at
          /\ [v EXCEPT !.nativeMode = ok, !.css = css].visible = v.visible
          /\ [v EXCEPT !.nativeMode = ok, !.css = css].pending = v.pending
      BY DEF TabState
    <3>5. set = [v EXCEPT !.nativeMode = ok, !.css = css]
      BY <3>2, <3>3
    <3> HIDE DEF set
    <3> QED BY <3>2, <3>4, <3>5
  <2>5. set.pending \in Sizes \cup {Hidden, NoTab}
    BY <2>4 DEF TabState
  <2> HIDE DEF size, set
  <2>6. new \in TabState /\ new.at = tab[t].at /\ (new.visible => tab[t].visible \/ (activeTab = t /\ t \in Listed))
    <3>1. CASE phase = "closed" \/ t \notin Listed
      <4>1. new = [set EXCEPT !.boundsTask = Hidden]
        BY <3>1
      <4>2. /\ [set EXCEPT !.boundsTask = Hidden] \in TabState /\ [set EXCEPT !.boundsTask = Hidden].at = set.at
            /\ [set EXCEPT !.boundsTask = Hidden].visible = set.visible
        BY <2>4 DEF TabState
      <4> HIDE DEF new
      <4> QED BY <2>4, <4>1, <4>2
    <3>2. CASE ~ (phase = "closed" \/ t \notin Listed) /\ set.pending # NoTab
      <4>1. new = FlushViewBounds(t, set, set.pending)
        BY <3>2
      <4> HIDE DEF new
      <4>2. set.pending \in Sizes \cup {Hidden}
        BY <2>5, <3>2
      <4>3. /\ FlushViewBounds(t, set, set.pending) \in TabState
            /\ FlushViewBounds(t, set, set.pending).at = set.at
            /\ FlushViewBounds(t, set, set.pending).visible => activeTab = t
        BY <1>0, <2>4, <4>2, FlushedTab
      <4> QED BY <2>4, <3>2, <4>1, <4>3
    <3>3. CASE ~ (phase = "closed" \/ t \notin Listed) /\ set.pending = NoTab
      <4>1. new = [set EXCEPT !.boundsTask = Hidden, !.native = size]
        BY <3>3
      <4>2. /\ [set EXCEPT !.boundsTask = Hidden, !.native = size] \in TabState
            /\ [set EXCEPT !.boundsTask = Hidden, !.native = size].at = set.at
            /\ [set EXCEPT !.boundsTask = Hidden, !.native = size].visible = set.visible
        BY <2>3, <2>4 DEF TabState
      <4> HIDE DEF new
      <4> QED BY <2>4, <4>1, <4>2
    <3> QED BY <3>1, <3>2, <3>3
  <2> HIDE DEF new
  <2> QED BY <1>7, <2>2, <2>6
<1>10. ASSUME NEW f \in [Tabs -> TabState], tab' = f, activeTab' = activeTab,
              phase' \in {"none", "open", "clearing", "closed"},
              \A t \in Tabs : f[t].visible => f[t].at = tab[t].at /\ tab[t].visible
       PROVE  TabsInv'
  BY <1>0, <1>10 DEF TabsInv, TabsTypeOK, OneTabShown
<1>11. CASE HideSession
  <2> DEFINE hidden(t) == [tab[t] EXCEPT !.visible = FALSE, !.bounds = Hidden, !.native = Hidden,
                             !.nativeMode = FALSE, !.css = IF tab[t].nativeMode THEN Hidden ELSE @]
             f == [t \in Tabs |-> IF t \notin Listed THEN tab[t] ELSE hidden(t)]
  <2>1. tab' = f /\ UNCHANGED <<phase, activeTab>>
    BY <1>11 DEF HideSession
  <2>2. ASSUME NEW t \in Tabs PROVE hidden(t) \in TabState /\ ~hidden(t).visible
    <3>1. tab[t] \in TabState
      BY <1>0
    <3>2. (IF tab[t].nativeMode THEN Hidden ELSE tab[t].css) \in Sizes \cup {Hidden}
      BY <3>1 DEF TabState
    <3> QED BY <3>1, <3>2 DEF TabState
  <2> HIDE DEF hidden
  <2>3. f \in [Tabs -> TabState] /\ \A t \in Tabs : f[t].visible => f[t].at = tab[t].at /\ tab[t].visible
    BY <1>0, <2>2
  <2> HIDE DEF f
  <2> QED BY <1>0, <1>10, <2>1, <2>3
<1>12. CASE CloseBrowser
  BY <1>0, <1>12 DEF CloseBrowser, TabsInv, TabsTypeOK, OneTabShown
<1>13. CASE BrowserClosed
  <2> DEFINE gone(t) == [tab[t] EXCEPT !.at = "gone", !.visible = FALSE]
             f == [t \in Tabs |-> IF t \in Listed THEN gone(t) ELSE tab[t]]
  <2>1. tab' = f /\ activeTab' = activeTab /\ phase' = "closed"
    BY <1>13 DEF BrowserClosed
  <2>2. ASSUME NEW t \in Tabs PROVE gone(t) \in TabState /\ ~gone(t).visible
    <3>1. tab[t] \in TabState
      BY <1>0
    <3> QED BY <3>1 DEF TabState
  <2> HIDE DEF gone
  <2>3. f \in [Tabs -> TabState] /\ \A t \in Tabs : f[t].visible => f[t].at = tab[t].at /\ tab[t].visible
    BY <1>0, <2>2
  <2> HIDE DEF f
  <2> QED BY <1>10, <2>1, <2>3
<1> QED BY <1>1, <1>2, <1>3, <1>4, <1>5, <1>6, <1>8, <1>9, <1>11, <1>12, <1>13 DEF TabsNext

\* The invariant of the tabs.
LEMMA TabsInductive == TabsSpec => []TabsInv
<1>1. TabsInit => TabsInv
  BY DEF TabsInit, TabsInv, TabsTypeOK, OneTabShown, TabState
<1> QED BY <1>1, TabsNextKeeps, PTL DEF TabsSpec

\* No two views of a session are shown, and the one that is shown is that of
\* the active tab, which is not closed.
THEOREM ViewsDoNotOverlap == TabsSpec => []OneTabShown
<1>1. TabsInv => OneTabShown
  BY DEF TabsInv
<1> QED BY <1>1, TabsInductive, PTL

-----------------------------------------------------------------------------
(* The pages of the browser *)

\* A tab shows, loads and remembers only what the allowlist has, and what is
\* recorded for a session names a tab of it as the one that asked.
NavInv ==
  /\ at \in [PageTabs -> PageState]
  /\ recorded \in [PageSessions -> SUBSET [tab : PageTabs, by : PageTabs]]
  /\ \A t \in PageTabs : /\ at[t].url \in Allowed \cup {Blank} /\ at[t].heading \in Allowed \cup {NoSite}
                         /\ at[t].past \subseteq Allowed
  /\ \A s \in PageSessions : \A e \in recorded[s] : e.by = e.tab /\ at[e.tab].of = s

\* A tab that stays with its session, within the allowlist.
LEMMA PageStays ==
  ASSUME NavInv, NEW t \in PageTabs, NEW page \in PageState, page.of = at[t].of,
         page.url \in Allowed \cup {Blank}, page.heading \in Allowed \cup {NoSite}, page.past \subseteq Allowed,
         at' = [at EXCEPT ![t] = page], recorded' = recorded
  PROVE  NavInv'
<1>1. at' \in [PageTabs -> PageState] /\ \A o \in PageTabs : at'[o].of = at[o].of
  BY DEF NavInv
<1>2. \A o \in PageTabs : /\ at'[o].url \in Allowed \cup {Blank} /\ at'[o].heading \in Allowed \cup {NoSite}
                          /\ at'[o].past \subseteq Allowed
  BY DEF NavInv
<1>3. \A s \in PageSessions : \A e \in recorded'[s] : e.by = e.tab /\ at'[e.tab].of = s
  BY <1>1 DEF NavInv
<1> QED BY <1>1, <1>2, <1>3 DEF NavInv

\* Links, redirects, the history, requests and closes in any order.
LEMMA NavNextKeeps == NavInv /\ [NavNext]_navVars => NavInv'
<1> SUFFICES ASSUME NavInv, [NavNext]_navVars PROVE NavInv'
  OBVIOUS
<1> USE PagesAssumption
<1>0. /\ at \in [PageTabs -> PageState] /\ \A t \in PageTabs : at[t] \in PageState
      /\ recorded \in [PageSessions -> SUBSET [tab : PageTabs, by : PageTabs]]
      /\ \A t \in PageTabs : /\ at[t].url \in Allowed \cup {Blank} /\ at[t].heading \in Allowed \cup {NoSite}
                             /\ at[t].past \subseteq Allowed
      /\ \A s \in PageSessions : \A e \in recorded[s] : e.by = e.tab /\ at[e.tab].of = s
  BY DEF NavInv
<1>1. CASE UNCHANGED navVars
  BY <1>0, <1>1 DEF NavInv, navVars
<1>2. ASSUME NEW t \in PageTabs, NEW u \in Allowed \cup {NoSite},
             at' = [at EXCEPT ![t].heading = u], recorded' = recorded
      PROVE  NavInv'
  <2> DEFINE page == [at[t] EXCEPT !.heading = u]
  <2>1. /\ page \in PageState /\ page.of = at[t].of /\ page.url = at[t].url /\ page.heading = u
        /\ page.past = at[t].past
    BY <1>0 DEF PageState
  <2>2. at' = [at EXCEPT ![t] = page]
    BY <1>0, <1>2
  <2> HIDE DEF page
  <2>3. /\ page.url \in Allowed \cup {Blank} /\ page.heading \in Allowed \cup {NoSite}
        /\ page.past \subseteq Allowed
    BY <1>0, <1>2, <2>1
  <2>4. recorded' = recorded
    BY <1>2
  <2> QED BY <2>1, <2>2, <2>3, <2>4, PageStays
<1>3. ASSUME NEW s \in PageSessions, ClosePages(s) PROVE NavInv'
  <2> DEFINE blank == [of |-> NoSite, url |-> Blank, past |-> {}, heading |-> NoSite]
  <2>1. /\ at' = [t \in PageTabs |-> IF at[t].of = s THEN blank ELSE at[t]]
        /\ recorded' = [recorded EXCEPT ![s] = {}]
    BY <1>3 DEF ClosePages
  <2>2. blank \in PageState /\ blank.url = Blank /\ blank.past = {} /\ blank.heading = NoSite
    BY DEF PageState
  <2> HIDE DEF blank
  <2>3. at' \in [PageTabs -> PageState]
    BY <1>0, <2>1, <2>2
  <2>4. recorded' \in [PageSessions -> SUBSET [tab : PageTabs, by : PageTabs]]
    BY <1>0, <2>1
  <2>5. \A t \in PageTabs : /\ at'[t].url \in Allowed \cup {Blank} /\ at'[t].heading \in Allowed \cup {NoSite}
                            /\ at'[t].past \subseteq Allowed
    BY <1>0, <2>1, <2>2
  <2>6. ASSUME NEW o \in PageSessions, NEW e \in recorded'[o] PROVE e.by = e.tab /\ at'[e.tab].of = o
    <3>1. o # s /\ e \in recorded[o] /\ e \in [tab : PageTabs, by : PageTabs]
      BY <1>0, <2>1
    <3>2. e.tab \in PageTabs /\ e.by = e.tab /\ at[e.tab].of = o
      BY <1>0, <3>1
    <3> QED BY <2>1, <3>1, <3>2
  <2> QED BY <2>3, <2>4, <2>5, <2>6 DEF NavInv
<1>4. ASSUME NEW s \in PageSessions, NEW t \in PageTabs, OpenPage(s, t) PROVE NavInv'
  <2> DEFINE page == [at[t] EXCEPT !.of = s]
  <2>1. /\ page \in PageState /\ page.of = s /\ page.url = at[t].url /\ page.heading = at[t].heading
        /\ page.past = at[t].past
    BY <1>0 DEF PageState
  <2>2. at' = [at EXCEPT ![t] = page] /\ recorded' = recorded /\ at[t].of = NoSite
    BY <1>0, <1>4 DEF OpenPage
  <2> HIDE DEF page
  <2>3. at' \in [PageTabs -> PageState]
    BY <1>0, <2>1, <2>2
  <2>4. \A o \in PageTabs : /\ at'[o].url \in Allowed \cup {Blank} /\ at'[o].heading \in Allowed \cup {NoSite}
                            /\ at'[o].past \subseteq Allowed
    BY <1>0, <2>1, <2>2
  <2>5. ASSUME NEW o \in PageSessions, NEW e \in recorded'[o] PROVE e.by = e.tab /\ at'[e.tab].of = o
    <3>1. e \in recorded[o] /\ e.tab \in PageTabs /\ e.by = e.tab /\ at[e.tab].of = o
      BY <1>0, <2>2
    <3> QED BY <1>0, <2>2, <3>1
  <2> QED BY <1>0, <2>2, <2>3, <2>4, <2>5 DEF NavInv
<1>5. ASSUME NEW t \in PageTabs, Arrives(t) PROVE NavInv'
  <2> DEFINE p == at[t]  u == at[t].heading  shown == at[t].past \cup {at[t].heading}
             page == [p EXCEPT !.url = u, !.past = shown, !.heading = NoSite]
  <2>1. /\ p \in PageState /\ u \in Allowed /\ u \in Sites /\ shown \in SUBSET Sites /\ shown \subseteq Allowed
        /\ p.of = at[t].of
    BY <1>0, <1>5 DEF Arrives, PageState
  <2>2. at' = [at EXCEPT ![t] = page] /\ recorded' = recorded
    BY <1>0, <1>5 DEF Arrives
  <2> HIDE DEF p, u, shown
  <2>3. page \in PageState /\ page.of = p.of /\ page.url = u /\ page.heading = NoSite /\ page.past = shown
    BY <2>1 DEF PageState
  <2> HIDE DEF page
  <2> QED BY <1>0, <2>1, <2>2, <2>3, PageStays
<1>6. ASSUME NEW t \in PageTabs, FailsToLoad(t) PROVE NavInv'
  BY <1>2, <1>6 DEF FailsToLoad
<1>7. ASSUME NEW t \in PageTabs, RequestEnds(t) PROVE NavInv'
  <2>1. /\ at' = at
        /\ recorded' = [s \in PageSessions |->
             IF s \in listener THEN recorded[s] \cup {[tab |-> o, by |-> t] : o \in Owner(s, t)}
             ELSE recorded[s]]
    BY <1>7 DEF RequestEnds
  <2>2. \A s \in PageSessions : \A e \in {[tab |-> o, by |-> t] : o \in Owner(s, t)} :
          e \in [tab : PageTabs, by : PageTabs] /\ e.tab = t /\ e.by = t /\ at[t].of = s
    BY DEF Owner, TabsOf
  <2>3. recorded' \in [PageSessions -> SUBSET [tab : PageTabs, by : PageTabs]]
    BY <1>0, <2>1, <2>2
  <2>4. ASSUME NEW s \in PageSessions, NEW e \in recorded'[s] PROVE e.by = e.tab /\ at[e.tab].of = s
    <3>1. e \in recorded[s] \/ e \in {[tab |-> o, by |-> t] : o \in Owner(s, t)}
      BY <2>1
    <3> QED BY <1>0, <2>2, <3>1
  <2> QED BY <1>0, <2>1, <2>3, <2>4 DEF NavInv
<1>8. ASSUME NEW t \in PageTabs, NEW u \in Sites, NavigateTo(t, u) PROVE NavInv'
  BY <1>2, <1>8 DEF NavigateTo
<1>9. ASSUME NEW t \in PageTabs, NEW u \in Sites, PageNavigates(t, u) PROVE NavInv'
  <2>1. CASE Blocks(t, u)
    BY <1>0, <1>9, <2>1 DEF PageNavigates, NavInv
  <2>2. CASE ~Blocks(t, u)
    BY <1>2, <1>9, <2>2 DEF PageNavigates, Blocks
  <2> QED BY <2>1, <2>2
<1>10. ASSUME NEW t \in PageTabs, NEW u \in Sites, ServerRedirects(t, u) PROVE NavInv'
  <2>1. CASE Blocks(t, u)
    BY <1>2, <1>10, <2>1 DEF ServerRedirects
  <2>2. CASE ~Blocks(t, u)
    BY <1>2, <1>10, <2>2 DEF ServerRedirects, Blocks
  <2> QED BY <2>1, <2>2
<1>11. ASSUME NEW t \in PageTabs, NEW u \in Sites, NavigateHistory(t, u) PROVE NavInv'
  <2>1. u \in Allowed
    BY <1>0, <1>11 DEF NavigateHistory
  <2> QED BY <1>2, <1>11, <2>1 DEF NavigateHistory
<1> QED BY <1>1, <1>3, <1>4, <1>5, <1>6, <1>7, <1>8, <1>9, <1>10, <1>11 DEF NavNext

\* The invariant of the pages.
LEMMA NavInductive == NavInit /\ [][NavNext]_navVars => []NavInv
<1>1. NavInit => NavInv
  BY PagesAssumption DEF NavInit, NavInv, PageState
<1> QED BY <1>1, NavNextKeeps, PTL

\* The pages stay on the allowlist, and the requests shown for a tab are its own.
THEOREM PagesStayInside == NavInit /\ [][NavNext]_navVars => [](PagesAllowed /\ RequestsOwned)
<1>1. NavInv => PagesAllowed /\ RequestsOwned
  BY DEF NavInv, PagesAllowed, RequestsOwned, NetworkOf
<1> QED BY <1>1, NavInductive, PTL

-----------------------------------------------------------------------------
(* The debugger of a page *)

\* The command that runs is the first one of the queue.
DevInv ==
  /\ commandQueue \in Seq(DevCommands) /\ command \in [DevCommands -> CommandState]
  /\ \A d \in DevCommands : command[d].now = "running" => commandQueue # <<>> /\ Head(commandQueue) = d
  /\ DebuggerHeld

\* Every step of the debugger keeps the command that runs at the head of its queue.
LEMMA DevNextKeeps == DevInv /\ [DevNext]_devVars => DevInv'
<1> SUFFICES ASSUME DevInv, [DevNext]_devVars PROVE DevInv'
  OBVIOUS
<1>0. /\ commandQueue \in Seq(DevCommands) /\ command \in [DevCommands -> CommandState]
      /\ \A d \in DevCommands : command[d] \in CommandState
      /\ \A d \in DevCommands : command[d].now = "running" => commandQueue # <<>> /\ Head(commandQueue) = d
      /\ \A d \in DevCommands : command[d].now = "running" => attached \/ command[d].cut
  BY DEF DevInv, DebuggerHeld
<1>1. CASE UNCHANGED devVars
  BY <1>1 DEF DevInv, devVars, DebuggerHeld
<1>2. ASSUME NEW d \in DevCommands, NEW w \in {"emulate", "answer"}, Queue(d, w) PROVE DevInv'
  <2> DEFINE c == [command[d] EXCEPT !.what = w, !.now = "queued"]
  <2>1. c \in CommandState /\ c.now = "queued"
    BY <1>0 DEF CommandState
  <2>2. command' = [command EXCEPT ![d] = c] /\ commandQueue' = Append(commandQueue, d) /\ attached' = attached
    BY <1>0, <1>2 DEF Queue
  <2> HIDE DEF c
  <2>3. /\ commandQueue' \in Seq(DevCommands) /\ commandQueue' # <<>>
        /\ commandQueue # <<>> => Head(commandQueue') = Head(commandQueue)
    BY <1>0, <2>2
  <2>4. command' \in [DevCommands -> CommandState]
    BY <1>0, <2>1, <2>2
  <2>5. \A e \in DevCommands : command'[e].now = "running" => e # d /\ command'[e] = command[e]
    BY <1>0, <2>1, <2>2
  <2> QED BY <1>0, <2>2, <2>3, <2>4, <2>5 DEF DevInv, DebuggerHeld
<1>3. ASSUME NEW d \in DevCommands, Run(d) PROVE DevInv'
  <2> DEFINE c == [command[d] EXCEPT !.now = "running", !.attachedHere = ~attached]
  <2>1. c \in CommandState /\ c.now = "running"
    <3>1. (~attached) \in BOOLEAN
      OBVIOUS
    <3> QED BY <1>0, <3>1 DEF CommandState
  <2>2. /\ command' = [command EXCEPT ![d] = c] /\ commandQueue' = commandQueue /\ attached' = TRUE
        /\ commandQueue # <<>> /\ Head(commandQueue) = d
    BY <1>0, <1>3 DEF Run, MayRun
  <2> HIDE DEF c
  <2>3. command' \in [DevCommands -> CommandState] /\ \A e \in DevCommands : e # d => command'[e] = command[e]
    BY <1>0, <2>1, <2>2
  <2> QED BY <1>0, <2>2, <2>3 DEF DevInv, DebuggerHeld
<1>4. ASSUME NEW d \in DevCommands, NEW end \in {"done", "failed"}, commandQueue # <<>>, Head(commandQueue) = d,
             command' = [command EXCEPT ![d].now = end], commandQueue' = Tail(commandQueue)
      PROVE  DevInv'
  <2> DEFINE c == [command[d] EXCEPT !.now = end]
  <2>1. c \in CommandState /\ c.now = end
    BY <1>0 DEF CommandState
  <2>2. command' = [command EXCEPT ![d] = c]
    BY <1>0, <1>4
  <2> HIDE DEF c
  <2>3. command' \in [DevCommands -> CommandState] /\ \A e \in DevCommands : command'[e].now # "running"
    BY <1>0, <1>4, <2>1, <2>2
  <2>4. commandQueue' \in Seq(DevCommands)
    BY <1>0, <1>4
  <2> QED BY <2>3, <2>4 DEF DevInv, DebuggerHeld
<1>5. ASSUME NEW d \in DevCommands, RunFails(d) PROVE DevInv'
  BY <1>4, <1>5 DEF RunFails, MayRun
<1>6. ASSUME NEW d \in DevCommands, NEW ok \in BOOLEAN, EndCommand(d, ok) PROVE DevInv'
  <2>1. commandQueue # <<>> /\ Head(commandQueue) = d
    BY <1>0, <1>6 DEF EndCommand
  <2>2. /\ command' = [command EXCEPT ![d].now = IF ok THEN "done" ELSE "failed"]
        /\ commandQueue' = Tail(commandQueue)
    BY <1>6 DEF EndCommand
  <2> QED BY <1>4, <2>1, <2>2
<1>7. CASE EventsEnabled \/ DialogOpens \/ UserAnswers \/ \E attaches \in BOOLEAN : Press(attaches)
  <2>1. UNCHANGED <<command, commandQueue>> /\ (attached => attached')
    BY <1>7 DEF EventsEnabled, DialogOpens, UserAnswers, Press
  <2> QED BY <1>0, <2>1 DEF DevInv, DebuggerHeld
<1>8. CASE Detached
  <2> DEFINE c(d) == [command[d] EXCEPT !.cut = @ \/ command[d].now = "running"]
  <2>1. command' = [d \in DevCommands |-> c(d)] /\ commandQueue' = commandQueue
    BY <1>8 DEF Detached
  <2>2. ASSUME NEW d \in DevCommands
        PROVE  c(d) \in CommandState /\ c(d).now = command[d].now /\ (command[d].now = "running" => c(d).cut)
    <3>1. command[d] \in CommandState
      BY <1>0
    <3>2. (command[d].cut \/ command[d].now = "running") \in BOOLEAN
      OBVIOUS
    <3> QED BY <3>1, <3>2 DEF CommandState
  <2> HIDE DEF c
  <2> QED BY <1>0, <2>1, <2>2 DEF DevInv, DebuggerHeld
<1> QED BY <1>1, <1>2, <1>3, <1>5, <1>6, <1>7, <1>8 DEF DevNext

\* The invariant of the debugger.
LEMMA DevInductive == DevInit /\ [][DevNext]_devVars => []DevInv
<1>1. DevInit => DevInv
  BY DEF DevInit, DevInv, CommandState, DebuggerHeld
<1> QED BY <1>1, DevNextKeeps, PTL

\* While a command runs the debugger stays attached, unless its page went away.
THEOREM DebuggerStaysHeld == DevInit /\ [][DevNext]_devVars => []DebuggerHeld
<1>1. DevInv => DebuggerHeld
  BY DEF DevInv
<1> QED BY <1>1, DevInductive, PTL

-----------------------------------------------------------------------------
(* The scripts on the windows of other applications *)

\* Between the search and the end of an action the element it is about is, on
\* Windows, the one the identifier was given to.
UiInv ==
  /\ act = [kind |-> act.kind, at |-> act.at, target |-> act.target, want |-> act.want, tries |-> act.tries]
  /\ uiPlatform = "windows" /\ act.at \in {"act", "check"} => act.target = known.element
  /\ ActsOnInspected

\* The window changes, the script searches, acts and is killed in any order.
LEMMA UiNextKeeps == UiInv /\ [UiNext]_uiVars => UiInv'
<1> SUFFICES ASSUME UiInv, [UiNext]_uiVars PROVE UiInv'
  OBVIOUS
<1> USE DEF UiInv, ActsOnInspected
<1> DEFINE Record(a) == a = [kind |-> a.kind, at |-> a.at, target |-> a.target, want |-> a.want, tries |-> a.tries]
<1>0. Record(act)
  BY DEF UiInv
<1>1. CASE UNCHANGED uiVars
  BY <1>1 DEF uiVars
<1>2. ASSUME NEW where \in {"check", "up", "find", "ok", "failed"}, Goes(where)
      PROVE  /\ Record(act') /\ act'.at = where
             /\ where \notin {"ok", "failed"} => act'.target = act.target
  <2>1. CASE where \in {"ok", "failed"}
    BY <1>2, <2>1 DEF Goes, Resting
  <2>2. CASE where \notin {"ok", "failed"}
    <3>1. act' = [act EXCEPT !.at = where]
      BY <1>2, <2>2 DEF Goes
    <3> QED BY <1>0, <2>2, <3>1
  <2> QED BY <2>1, <2>2
<1>3. CASE InspectWindow
  BY <1>3 DEF InspectWindow, AtRest
<1>4. ASSUME NEW kind_, NEW want, StartAction(kind_, want) PROVE UiInv'
  BY <1>4 DEF StartAction
<1>5. CASE FindElement
  <2>1. UNCHANGED <<uiPlatform, known, misdirected>>
    BY <1>5 DEF FindElement
  <2>2. CASE \E where \in {"find", "ok", "failed"} : Goes(where)
    BY <1>2, <2>1, <2>2
  <2>3. ASSUME NEW e \in Elements, Finds(e),
               act' = [act EXCEPT !.target = e, !.at = IF act.kind = "drag" THEN "down" ELSE "act"]
        PROVE  UiInv'
    <3>1. Record(act') /\ act'.target = e
      BY <1>0, <2>3
    <3>2. uiPlatform = "windows" => e = known.element
      BY <2>3 DEF Finds, FindByIdentity
    <3> QED BY <2>1, <3>1, <3>2
  <2> QED BY <1>5, <2>2, <2>3 DEF FindElement
<1>6. ASSUME NEW values, Told(act.target, values), act.at = "act", Record(act'),
             act'.at \in {"act", "check"} => act'.target = act.target
      PROVE  UiInv'
  BY <1>6 DEF Told
<1>7. ASSUME Unmoved, Record(act'), act'.at \notin {"act", "check"} PROVE UiInv'
  BY <1>7 DEF Unmoved
<1>8. CASE InvokeElement
  BY <1>2, <1>6, <1>7, <1>8 DEF InvokeElement
<1>9. CASE SetToggleState
  <2>1. \/ (Goes("ok") \/ Goes("failed")) /\ Unmoved
        \/ /\ Told(act.target, Toggled(state[act.target])) /\ act.at = "act"
           /\ act' = [act EXCEPT !.tries = @ + 1]
    BY <1>9 DEF SetToggleState
  <2>2. act' = [act EXCEPT !.tries = @ + 1] => Record(act') /\ act'.target = act.target
    BY <1>0
  <2> QED BY <1>2, <1>6, <1>7, <2>1, <2>2
<1>10. CASE SetExpandedState
  BY <1>2, <1>6, <1>7, <1>10 DEF SetExpandedState
<1>11. CASE SelectElement
  BY <1>2, <1>6, <1>7, <1>11 DEF SelectElement
<1>12. CASE Checked
  BY <1>2, <1>7, <1>12 DEF Checked
<1>13. CASE SetElementValue
  BY <1>2, <1>6, <1>7, <1>13 DEF SetElementValue
<1>14. CASE WaitForState
  BY <1>2, <1>7, <1>14 DEF WaitForState
<1>15. CASE Drag \/ Keypress
  BY <1>2, <1>15 DEF Drag, Keypress
<1>16. CASE ScriptKilled
  BY <1>2, <1>7, <1>16 DEF ScriptKilled
<1>17. CASE WindowChanges
  BY <1>17 DEF WindowChanges
<1> QED BY <1>1, <1>3, <1>4, <1>5, <1>8, <1>9, <1>10, <1>11, <1>12, <1>13, <1>14, <1>15, <1>16, <1>17 DEF UiNext

\* The invariant of a script on another window.
LEMMA UiInductive == UiSpec => []UiInv
<1>1. UiInit => UiInv
  BY DEF UiInit, UiInv, ActsOnInspected
<1> QED BY <1>1, UiNextKeeps, PTL DEF UiSpec

\* On Windows an action by element reaches the element that was inspected.
THEOREM ActionsReachTheirElement == UiSpec => []ActsOnInspected
<1>1. UiInv => ActsOnInspected
  BY DEF UiInv
<1> QED BY <1>1, UiInductive, PTL

-----------------------------------------------------------------------------
(* The queue of computer use *)

\* What is left of an action presses the button only in a drag, which then
\* moves and releases it.
PressesInDrag(action, left) ==
  \A i \in 1..Len(left) : left[i] = "down" =>
    action = "drag" /\ i + 2 = Len(left) /\ left[i + 1] = "move" /\ left[i + 2] = "up"

\* The commands of every action are of that shape.
LEMMA PlanShape ==
  ASSUME UseAssumption, NEW a \in Actions
  PROVE  Plan(a) \in Seq(Words) /\ PressesInDrag(a, Plan(a))
<1> USE DEF PressesInDrag
<1>1. CASE a \in {"screenshot", "ocr", "list", "window", "script", "bridge"}
  <2>1. Plan(a) \in {CapturePlan, OcrPlan, ListPlan, WindowPlan, ScriptPlan, BridgePlan}
    BY <1>1 DEF Plan
  <2>2. /\ CapturePlan \in Seq(Words) /\ OcrPlan \in Seq(Words) /\ ListPlan \in Seq(Words)
        /\ WindowPlan \in Seq(Words) /\ ScriptPlan \in Seq(Words) /\ BridgePlan \in Seq(Words)
    BY DEF Words, CapturePlan, OcrPlan, ListPlan, WindowPlan, ScriptPlan, BridgePlan
  <2>3. \A i \in 1..Len(Plan(a)) : Plan(a)[i] # "down"
    BY <2>1 DEF CapturePlan, OcrPlan, ListPlan, WindowPlan, ScriptPlan, BridgePlan
  <2> QED BY <2>1, <2>2, <2>3
<1>2. CASE a = "wait"
  <2>1. Plan(a) = [i \in 1..MaxPolls |-> "poll"]
    BY <1>2 DEF Plan, WaitPlan
  <2>2. MaxPolls \in Nat /\ \A i \in 1..MaxPolls : "poll" \in Words
    BY UseAssumption DEF Words
  <2>3. Plan(a) \in Seq(Words) /\ Len(Plan(a)) = MaxPolls
    BY <2>1, <2>2, IsASeq
  <2> QED BY <2>1, <2>2, <2>3
<1>3. CASE a = "drag"
  <2> DEFINE head == <<"activate", "bounds">>
             tail == <<"bounds", "bounds", "move", "down", "move", "up">>
  <2>1. Plan(a) = head \o tail
    BY <1>3 DEF Plan, InputPlan
  <2>2. head \in Seq(Words) /\ tail \in Seq(Words) /\ Len(head) = 2 /\ Len(tail) = 6
    BY DEF Words
  <2>3. /\ Plan(a) \in Seq(Words) /\ Len(Plan(a)) = 8
        /\ \A i \in 1..8 : Plan(a)[i] = IF i <= 2 THEN head[i] ELSE tail[i - 2]
    BY <2>1, <2>2, ConcatProperties
  <2>4. Plan(a)[7] = "move" /\ Plan(a)[8] = "up"
    BY <2>3
  <2>5. \A i \in 1..8 : Plan(a)[i] = "down" => i = 6
    BY <2>3
  <2> HIDE DEF head, tail
  <2>6. \A i \in 1..Len(Plan(a)) : Plan(a)[i] = "down" => i = 6
    BY <2>3, <2>5
  <2> QED BY <1>3, <2>3, <2>4, <2>6
<1>4. CASE a \in {"click", "type", "scroll", "dialog"}
  <2> DEFINE head == <<"activate", "bounds">>
             tail == CASE a = "click" -> <<"move", "click">>
                       [] a = "type" -> <<"type">>
                       [] a = "scroll" -> <<"move", "scroll", "scroll">>
                       [] a = "dialog" -> <<"key", "type", "key">>
  <2>1. Plan(a) = head \o tail
    BY <1>4 DEF Plan, InputPlan, DialogPlan
  <2>2. head \in Seq(Words) /\ Len(head) = 2 /\ \A i \in 1..2 : head[i] # "down"
    BY DEF Words
  <2>3. tail \in Seq(Words) /\ \A i \in 1..Len(tail) : tail[i] # "down"
    <3>1. CASE a = "click"
      <4>1. tail = <<"move", "click">>
        BY <3>1
      <4> HIDE DEF tail
      <4> QED BY <4>1 DEF Words
    <3>2. CASE a = "type"
      <4>1. tail = <<"type">>
        BY <3>2
      <4> HIDE DEF tail
      <4> QED BY <4>1 DEF Words
    <3>3. CASE a = "scroll"
      <4>1. tail = <<"move", "scroll", "scroll">>
        BY <3>3
      <4> HIDE DEF tail
      <4> QED BY <4>1 DEF Words
    <3>4. CASE a = "dialog"
      <4>1. tail = <<"key", "type", "key">>
        BY <3>4
      <4> HIDE DEF tail
      <4> QED BY <4>1 DEF Words
    <3> QED BY <1>4, <3>1, <3>2, <3>3, <3>4
  <2> HIDE DEF head, tail
  <2>4. /\ Plan(a) \in Seq(Words) /\ Len(Plan(a)) = 2 + Len(tail)
        /\ \A i \in 1..(2 + Len(tail)) : Plan(a)[i] = IF i <= 2 THEN head[i] ELSE tail[i - 2]
    <3>1. /\ head \o tail \in Seq(Words) /\ Len(head \o tail) = Len(head) + Len(tail)
          /\ \A i \in 1..(Len(head) + Len(tail)) :
               (head \o tail)[i] = IF i <= Len(head) THEN head[i] ELSE tail[i - Len(head)]
      BY <2>2, <2>3, ConcatProperties
    <3> QED BY <2>1, <2>2, <3>1
  <2>5. \A i \in 1..(2 + Len(tail)) : Plan(a)[i] # "down"
    BY <2>2, <2>3, <2>4
  <2> QED BY <2>4, <2>5
<1> QED BY <1>1, <1>2, <1>3, <1>4, UseAssumption

UseState == [at : {"new", "queued", "running", "ok", "failed"}, action : Actions,
             left : Seq(Words), aborted : BOOLEAN]

\* The rest of a drag that has pressed.
Releases(left) ==
  \/ Len(left) = 2 /\ left[1] = "move" /\ left[2] = "up"
  \/ Len(left) = 1 /\ left[1] = "up"

SomeRuns == \E u \in Uses : use[u].at = "running"

\* Who waits is in the line and who runs is the first of it; until the broker
\* closes the overlay counts the one that runs; and the button is down only
\* behind a drag that failed, or in one that is about to release it.
InLine ==
  /\ \A u \in Uses : use[u].at \in {"queued", "running"} => \E i \in 1..Len(line) : line[i] = u
  /\ \A u \in Uses : use[u].at = "running" => line[1] = u

ButtonOfDrag ==
  pressed => \E u \in Uses : use[u].action = "drag" /\ (use[u].at = "failed" \/ (use[u].at = "running" /\ Releases(use[u].left)))

UseTypes ==
  /\ line \in Seq(Uses) /\ use \in [Uses -> UseState] /\ count \in Nat
  /\ \A u \in Uses : PressesInDrag(use[u].action, use[u].left)

OverlayOfRun ==
  brokerClosing = "no" => /\ window = "shown" <=> SomeRuns
                          /\ SomeRuns => count = 1
                          /\ ~SomeRuns => count = 0

FoldersOfRun == \A u \in folders : u \in Uses /\ use[u].at = "running"

UseInv == UseTypes /\ InLine /\ OverlayOfRun /\ FoldersOfRun /\ ButtonOfDrag

\* Only the first of the line may run, so no two do.
LEMMA OneRuns ==
  ASSUME UseInv, NEW u \in Uses, NEW v \in Uses, use[u].at = "running", use[v].at = "running"
  PROVE  u = v
BY DEF UseInv, InLine

\* A step that changes one request and leaves the line alone.
LEMMA UseStays ==
  ASSUME UseInv, NEW u \in Uses, NEW n \in UseState, use' = [use EXCEPT ![u] = n], line' = line,
         PressesInDrag(n.action, n.left), count' \in Nat,
         n.at \in {"queued", "running"} => use[u].at \in {"queued", "running"},
         n.at = "running" => line[1] = u
  PROVE  UseTypes' /\ InLine' /\ \A v \in Uses : v # u => use'[v] = use[v]
<1>1. /\ line \in Seq(Uses) /\ use \in [Uses -> UseState]
      /\ \A v \in Uses : PressesInDrag(use[v].action, use[v].left)
  BY DEF UseInv, UseTypes
<1>2. use' \in [Uses -> UseState] /\ use'[u] = n /\ \A v \in Uses : v # u => use'[v] = use[v]
  BY <1>1
<1>3. UseTypes'
  BY <1>1, <1>2 DEF UseTypes
<1>4. InLine'
  BY <1>2 DEF UseInv, InLine
<1> QED BY <1>2, <1>3, <1>4

\* A request that had its turn leaves the line.
LEMMA UseLeaves ==
  ASSUME UseInv, NEW u \in Uses, use[u].at \in {"queued", "running"}, Head(line) = u,
         NEW n \in UseState, n.at \in {"ok", "failed"}, n.action = use[u].action, PressesInDrag(n.action, n.left),
         use' = [use EXCEPT ![u] = n], line' = Tail(line), Hide
  PROVE  /\ UseTypes' /\ InLine' /\ \A v \in Uses : v # u => use'[v] = use[v]
         /\ \A v \in Uses : use'[v].at # "running"
         /\ brokerClosing = "no" /\ brokerClosing' = "no" => OverlayOfRun'
<1>1. /\ line \in Seq(Uses) /\ use \in [Uses -> UseState] /\ count \in Nat
      /\ \A v \in Uses : PressesInDrag(use[v].action, use[v].left)
      /\ \A v \in Uses : use[v].at \in {"queued", "running"} => \E i \in 1..Len(line) : line[i] = v
      /\ \A v \in Uses : use[v].at = "running" => line[1] = v
  BY DEF UseInv, UseTypes, InLine
<1>2. line # <<>> /\ line[1] = u
  BY <1>1
<1>3. /\ line' \in Seq(Uses) /\ Len(line') = Len(line) - 1
      /\ \A i \in 1..(Len(line) - 1) : line'[i] = line[i + 1]
  BY <1>1, <1>2, HeadTailProperties
<1>4. use' \in [Uses -> UseState] /\ use'[u] = n /\ \A v \in Uses : v # u => use'[v] = use[v]
  BY <1>1
<1>5. \A v \in Uses : use'[v].at # "running"
  BY <1>1, <1>2, <1>4
<1>6. count' \in Nat /\ (count \in {0, 1} => count' = 0)
  BY <1>1 DEF Hide
<1>7. ASSUME NEW v \in Uses, use'[v].at \in {"queued", "running"} PROVE \E i \in 1..Len(line') : line'[i] = v
  <2>1. v # u /\ use[v].at \in {"queued", "running"}
    BY <1>4, <1>7
  <2>2. PICK i \in 1..Len(line) : line[i] = v
    BY <1>1, <2>1
  <2>3. i - 1 \in 1..Len(line') /\ line'[i - 1] = v
    BY <1>1, <1>2, <1>3, <2>1, <2>2
  <2> QED BY <2>3
<1>8. InLine' /\ UseTypes'
  BY <1>1, <1>3, <1>4, <1>5, <1>6, <1>7 DEF InLine, UseTypes
<1>9. brokerClosing = "no" => count \in {0, 1} /\ (window' # "shown")
  <2> SUFFICES ASSUME brokerClosing = "no" PROVE count \in {0, 1} /\ window' # "shown"
    OBVIOUS
  <2>1. count \in {0, 1}
    BY DEF UseInv, OverlayOfRun
  <2> QED BY <1>6, <2>1 DEF Hide
<1>10. ~SomeRuns'
  BY <1>5 DEF SomeRuns
<1>11. brokerClosing = "no" /\ brokerClosing' = "no" => OverlayOfRun'
  BY <1>6, <1>9, <1>10 DEF OverlayOfRun
<1> QED BY <1>4, <1>5, <1>8, <1>11

\* Turns, commands, failures, aborts and the close in any order.
LEMMA UseNextKeeps == UseInv /\ [UseNext]_useVars => UseInv'
<1> SUFFICES ASSUME UseInv, [UseNext]_useVars PROVE UseInv'
  OBVIOUS
<1>0. /\ line \in Seq(Uses) /\ use \in [Uses -> UseState] /\ count \in Nat
      /\ \A v \in Uses : use[v] \in UseState
      /\ \A v \in Uses : PressesInDrag(use[v].action, use[v].left)
      /\ \A v \in Uses : use[v].at \in {"queued", "running"} => \E i \in 1..Len(line) : line[i] = v
      /\ \A v \in Uses : use[v].at = "running" => line[1] = v
  BY DEF UseInv, UseTypes, InLine
<1>1. CASE UNCHANGED useVars
  BY <1>1 DEF UseInv, UseTypes, InLine, OverlayOfRun, FoldersOfRun, ButtonOfDrag, SomeRuns, useVars
<1>2. ASSUME NEW u \in Uses, EnqueueUse(u) PROVE UseInv'
  <2>1. PICK a \in Actions :
          use' = [use EXCEPT ![u].at = "queued", ![u].action = a, ![u].left = Plan(a)]
    BY <1>2 DEF EnqueueUse
  <2> DEFINE plan == Plan(a)
             n == [use[u] EXCEPT !.at = "queued", !.action = a, !.left = plan]
  <2>2. plan \in Seq(Words) /\ PressesInDrag(a, plan)
    BY UseAssumption, PlanShape
  <2> HIDE DEF plan
  <2>3. n \in UseState /\ n.at = "queued" /\ n.action = a /\ n.left = plan
    BY <1>0, <2>2 DEF UseState
  <2>4. use' = [use EXCEPT ![u] = n]
    BY <1>0, <2>1 DEF plan
  <2>5. /\ use[u].at = "new" /\ line' = Append(line, u)
        /\ UNCHANGED <<count, window, pressed, folders, brokerClosing>>
    BY <1>2 DEF EnqueueUse
  <2> HIDE DEF n
  <2>6. use' \in [Uses -> UseState] /\ use'[u] = n /\ \A v \in Uses : v # u => use'[v] = use[v]
    BY <1>0, <2>3, <2>4
  <2>7. UseTypes'
    <3>1. line' \in Seq(Uses)
      BY <1>0, <2>5
    <3> QED BY <1>0, <2>2, <2>3, <2>5, <2>6, <3>1 DEF UseTypes
  <2>8. /\ Len(line') = Len(line) + 1 /\ line'[Len(line) + 1] = u
        /\ \A i \in 1..Len(line) : line'[i] = line[i]
    BY <1>0, <2>5
  <2>9. InLine'
    <3>1. ASSUME NEW v \in Uses, use'[v].at \in {"queued", "running"} PROVE \E i \in 1..Len(line') : line'[i] = v
      <4>1. CASE v = u
        BY <1>0, <2>8, <4>1
      <4>2. CASE v # u
        <5>1. PICK i \in 1..Len(line) : line[i] = v
          BY <1>0, <2>6, <3>1, <4>2
        <5> QED BY <1>0, <2>8, <5>1
      <4> QED BY <4>1, <4>2
    <3>2. ASSUME NEW v \in Uses, use'[v].at = "running" PROVE line'[1] = v
      <4>1. v # u /\ use[v].at = "running"
        BY <2>3, <2>6, <3>2
      <4>2. line[1] = v /\ 1 \in 1..Len(line)
        <5>1. PICK i \in 1..Len(line) : line[i] = v
          BY <1>0, <4>1
        <5> QED BY <1>0, <4>1, <5>1
      <4> QED BY <2>8, <4>2
    <3> QED BY <3>1, <3>2 DEF InLine
  <2>10. SomeRuns' <=> SomeRuns
    BY <2>3, <2>5, <2>6 DEF SomeRuns
  <2>11. OverlayOfRun' /\ FoldersOfRun'
    BY <2>3, <2>5, <2>6, <2>10 DEF UseInv, OverlayOfRun, FoldersOfRun
  <2>12. ButtonOfDrag'
    BY <2>3, <2>5, <2>6 DEF UseInv, ButtonOfDrag
  <2> QED BY <2>7, <2>9, <2>11, <2>12 DEF UseInv
<1>3. ASSUME NEW u \in Uses, TakeTurn(u) PROVE UseInv'
  <2> DEFINE n == [use[u] EXCEPT !.at = "running"]
  <2>1. /\ n \in UseState /\ n.at = "running" /\ n.action = use[u].action /\ n.left = use[u].left
    BY <1>0 DEF UseState
  <2>2. /\ use' = [use EXCEPT ![u] = n] /\ line' = line /\ use[u].at = "queued" /\ Head(line) = u
        /\ count' = count + 1 /\ window' = "shown" /\ UNCHANGED <<pressed, brokerClosing>>
        /\ folders' \subseteq folders \cup {u}
    BY <1>0, <1>3 DEF TakeTurn
  <2> HIDE DEF n
  <2>3. line # <<>> /\ line[1] = u
    BY <1>0, <2>2
  <2>4. UseTypes' /\ InLine' /\ (\A v \in Uses : v # u => use'[v] = use[v]) /\ use'[u] = n
    <3>1. count' \in Nat /\ PressesInDrag(n.action, n.left)
      BY <1>0, <2>1, <2>2
    <3>2. use'[u] = n
      BY <1>0, <2>2
    <3> QED BY <2>1, <2>2, <2>3, <3>1, <3>2, UseStays
  <2>5. ~SomeRuns /\ SomeRuns'
    BY <1>0, <2>1, <2>2, <2>3, <2>4 DEF SomeRuns
  <2>6. OverlayOfRun' /\ FoldersOfRun'
    <3>1. brokerClosing = "no" => count = 0
      BY <2>5 DEF UseInv, OverlayOfRun
    <3>2. brokerClosing = "no" => count' = 1
      BY <2>2, <3>1
    <3>3. OverlayOfRun'
      BY <2>2, <2>5, <3>2 DEF OverlayOfRun
    <3>4. FoldersOfRun'
      BY <2>1, <2>2, <2>4 DEF UseInv, FoldersOfRun
    <3> QED BY <3>3, <3>4
  <2>7. ButtonOfDrag'
    BY <2>1, <2>2, <2>4 DEF UseInv, ButtonOfDrag
  <2> QED BY <2>4, <2>6, <2>7 DEF UseInv
<1>4. ASSUME NEW u \in Uses, SkipTurn(u) PROVE UseInv'
  <2> DEFINE n == [use[u] EXCEPT !.at = "failed"]
  <2>1. /\ n \in UseState /\ n.at = "failed" /\ n.action = use[u].action /\ n.left = use[u].left
    BY <1>0 DEF UseState
  <2>2. /\ use' = [use EXCEPT ![u] = n] /\ line' = Tail(line) /\ use[u].at = "queued" /\ Head(line) = u
        /\ Hide /\ UNCHANGED <<pressed, folders, brokerClosing>>
    BY <1>0, <1>4 DEF SkipTurn
  <2> HIDE DEF n
  <2>3. /\ UseTypes' /\ InLine' /\ \A v \in Uses : v # u => use'[v] = use[v]
        /\ \A v \in Uses : use'[v].at # "running"
        /\ brokerClosing = "no" /\ brokerClosing' = "no" => OverlayOfRun'
    BY <1>0, <2>1, <2>2, UseLeaves
  <2>4. \A v \in Uses : use[v].at # "running"
    BY <1>0, <2>2, <2>3
  <2>5. OverlayOfRun' /\ FoldersOfRun'
    BY <2>2, <2>3, <2>4 DEF UseInv, OverlayOfRun, FoldersOfRun
  <2>6. ButtonOfDrag'
    BY <2>1, <2>2, <2>3, <2>4 DEF UseInv, ButtonOfDrag
  <2> QED BY <2>3, <2>5, <2>6 DEF UseInv
<1>5. ASSUME NEW u \in Uses, RunCommand(u) PROVE UseInv'
  <2> DEFINE rest == Tail(use[u].left)
             n == [use[u] EXCEPT !.left = rest]
  <2>1. /\ use' = [use EXCEPT ![u] = n] /\ line' = line /\ use[u].at = "running" /\ use[u].left # <<>>
        /\ UNCHANGED <<count, window, folders, brokerClosing>>
        /\ pressed' = (Head(use[u].left) = "down" \/ (pressed /\ Head(use[u].left) # "up"))
    BY <1>0, <1>5 DEF RunCommand
  <2>2. use[u].left \in Seq(Words)
    BY <1>0 DEF UseState
  <2>3. /\ rest \in Seq(Words) /\ Len(rest) = Len(use[u].left) - 1 /\ Head(use[u].left) = use[u].left[1]
        /\ \A i \in 1..Len(rest) : rest[i] = use[u].left[i + 1]
    BY <2>1, <2>2, HeadTailProperties
  <2> HIDE DEF rest
  <2>4. n \in UseState /\ n.at = "running" /\ n.action = use[u].action /\ n.left = rest
    BY <1>0, <2>1, <2>3 DEF UseState
  <2> HIDE DEF n
  <2>5. Len(use[u].left) \in Nat \ {0}
    BY <2>1, <2>2
  <2>a. ASSUME NEW i \in 1..Len(use[u].left), use[u].left[i] = "down"
        PROVE  /\ use[u].action = "drag" /\ i + 2 = Len(use[u].left)
               /\ use[u].left[i + 1] = "move" /\ use[u].left[i + 2] = "up"
    BY <1>0, <2>a DEF PressesInDrag
  <2>6. PressesInDrag(n.action, n.left)
    <3> SUFFICES ASSUME NEW i \in 1..Len(rest), rest[i] = "down"
                 PROVE  /\ use[u].action = "drag" /\ i + 2 = Len(rest)
                        /\ rest[i + 1] = "move" /\ rest[i + 2] = "up"
      BY <2>4 DEF PressesInDrag
    <3>1. i + 1 \in 1..Len(use[u].left) /\ use[u].left[i + 1] = "down"
      BY <2>3, <2>5
    <3>2. /\ use[u].action = "drag" /\ (i + 1) + 2 = Len(use[u].left)
          /\ use[u].left[(i + 1) + 1] = "move" /\ use[u].left[(i + 1) + 2] = "up"
      BY <2>a, <3>1
    <3>3. /\ i + 2 = Len(rest) /\ i + 1 \in 1..Len(rest) /\ i + 2 \in 1..Len(rest)
      BY <2>3, <2>5, <3>2
    <3>4. rest[i + 1] = use[u].left[(i + 1) + 1] /\ rest[i + 2] = use[u].left[(i + 2) + 1]
      BY <2>3, <3>3
    <3>5. (i + 2) + 1 = (i + 1) + 2
      OBVIOUS
    <3> QED BY <3>2, <3>3, <3>4, <3>5
  <2>7. UseTypes' /\ InLine' /\ (\A v \in Uses : v # u => use'[v] = use[v]) /\ use'[u] = n
    <3>1. use'[u] = n /\ count' \in Nat
      BY <1>0, <2>1
    <3> QED BY <1>0, <2>1, <2>4, <2>6, <3>1, UseStays
  <2>8. SomeRuns' <=> SomeRuns
    BY <2>1, <2>4, <2>7 DEF SomeRuns
  <2>9. OverlayOfRun' /\ FoldersOfRun'
    BY <2>1, <2>4, <2>7, <2>8 DEF UseInv, OverlayOfRun, FoldersOfRun
  <2>10. ASSUME pressed'
         PROVE  \E v \in Uses : use'[v].action = "drag" /\ (use'[v].at = "failed" \/ (use'[v].at = "running" /\ Releases(use'[v].left)))
    <3>1. CASE Head(use[u].left) = "down"
      <4>1. /\ use[u].action = "drag" /\ 1 + 2 = Len(use[u].left)
            /\ use[u].left[1 + 1] = "move" /\ use[u].left[1 + 2] = "up"
        <5>1. 1 \in 1..Len(use[u].left) /\ use[u].left[1] = "down"
          BY <2>3, <2>5, <3>1
        <5> QED BY <2>a, <5>1
      <4>2. Len(rest) = 2 /\ rest[1] = "move" /\ rest[2] = "up"
        BY <2>3, <4>1
      <4> QED BY <2>4, <2>7, <4>1, <4>2 DEF Releases
    <3>2. CASE pressed /\ Head(use[u].left) # "up"
      <4>1. PICK v \in Uses : use[v].action = "drag" /\ (use[v].at = "failed" \/ (use[v].at = "running" /\ Releases(use[v].left)))
        BY <3>2 DEF UseInv, ButtonOfDrag
      <4>2. CASE use[v].at = "failed"
        BY <2>1, <2>7, <4>1, <4>2
      <4>3. CASE use[v].at = "running" /\ Releases(use[v].left)
        <5>1. v = u
          BY <2>1, <4>3, OneRuns
        <5>2. Len(use[u].left) = 2 /\ use[u].left[1] = "move" /\ use[u].left[2] = "up"
          BY <2>3, <3>2, <4>3, <5>1 DEF Releases
        <5>3. Len(rest) = 1 /\ rest[1] = "up"
          BY <2>3, <5>2
        <5> QED BY <2>4, <2>7, <4>1, <5>1, <5>3 DEF Releases
      <4> QED BY <4>1, <4>2, <4>3
    <3> QED BY <2>1, <2>10, <3>1, <3>2
  <2>11. ButtonOfDrag'
    BY <2>10 DEF ButtonOfDrag
  <2> QED BY <2>7, <2>9, <2>11 DEF UseInv
<1>6. ASSUME NEW u \in Uses, EndUse(u) PROVE UseInv'
  <2>1. PICK how \in {"ok", "failed"} :
          /\ FinishUse(u, how)
          /\ how = "ok" => use[u].left = <<>> \/ use[u].action = "wait"
    BY <1>6 DEF EndUse
  <2> DEFINE n == [use[u] EXCEPT !.at = how, !.left = <<>>]
  <2>2. /\ n \in UseState /\ n.at = how /\ n.action = use[u].action /\ n.left = <<>>
    <3>1. <<>> \in Seq(Words) /\ use[u] \in UseState
      BY <1>0
    <3> QED BY <3>1 DEF UseState
  <2>3. /\ use' = [use EXCEPT ![u] = n] /\ line' = Tail(line) /\ use[u].at = "running"
        /\ folders' = folders \ {u} /\ Hide /\ UNCHANGED <<pressed, brokerClosing>>
    BY <1>0, <1>6, <2>1 DEF FinishUse, EndUse
  <2> HIDE DEF n
  <2>4. PressesInDrag(n.action, n.left) /\ Head(line) = u
    <3>1. line # <<>> /\ line[1] = u
      BY <1>0, <2>3
    <3> QED BY <1>0, <2>2, <3>1 DEF PressesInDrag
  <2>5. /\ UseTypes' /\ InLine' /\ \A v \in Uses : v # u => use'[v] = use[v]
        /\ \A v \in Uses : use'[v].at # "running"
        /\ brokerClosing = "no" /\ brokerClosing' = "no" => OverlayOfRun'
    BY <1>0, <2>2, <2>3, <2>4, UseLeaves
  <2>6. \A v \in Uses : use[v].at = "running" => v = u
    BY <2>3, OneRuns
  <2>7. OverlayOfRun' /\ FoldersOfRun'
    BY <2>3, <2>5, <2>6 DEF UseInv, OverlayOfRun, FoldersOfRun
  <2>8. ASSUME pressed'
        PROVE  \E v \in Uses : use'[v].action = "drag" /\ use'[v].at = "failed"
    <3>1. PICK v \in Uses : use[v].action = "drag" /\ (use[v].at = "failed" \/ (use[v].at = "running" /\ Releases(use[v].left)))
      BY <2>3, <2>8 DEF UseInv, ButtonOfDrag
    <3>2. CASE use[v].at = "failed"
      BY <2>3, <2>5, <3>1, <3>2
    <3>3. CASE use[v].at = "running" /\ Releases(use[v].left)
      <4>1. v = u
        BY <2>6, <3>3
      <4>2. use[u].left # <<>> /\ use[u].action = "drag"
        BY <3>1, <3>3, <4>1 DEF Releases
      <4>3. how = "failed"
        BY <2>1, <4>2
      <4>4. use'[u] = n
        BY <1>0, <2>3
      <4> QED BY <2>2, <4>2, <4>3, <4>4
    <3> QED BY <3>1, <3>2, <3>3
  <2>9. ButtonOfDrag'
    BY <2>8 DEF ButtonOfDrag
  <2> QED BY <2>5, <2>7, <2>9 DEF UseInv
<1>7. ASSUME NEW f \in [Uses -> UseState], use' = f, UNCHANGED <<line, pressed, folders>>, count' \in Nat,
             \A v \in Uses : f[v].at = use[v].at /\ f[v].action = use[v].action /\ f[v].left = use[v].left,
             \/ brokerClosing' # "no"
             \/ UNCHANGED <<count, window, brokerClosing>>
      PROVE  UseInv'
  <2>1. UseTypes'
    BY <1>0, <1>7 DEF UseTypes
  <2>2. InLine'
    BY <1>0, <1>7 DEF InLine
  <2>3. SomeRuns' <=> SomeRuns
    BY <1>7 DEF SomeRuns
  <2>4. OverlayOfRun' /\ FoldersOfRun'
    BY <1>7, <2>3 DEF UseInv, OverlayOfRun, FoldersOfRun
  <2>5. ButtonOfDrag'
    BY <1>7 DEF UseInv, ButtonOfDrag
  <2> QED BY <2>1, <2>2, <2>4, <2>5 DEF UseInv
<1>8. ASSUME NEW u \in Uses, AbortUse(u) PROVE UseInv'
  <2> DEFINE n == [use[u] EXCEPT !.aborted = TRUE]
             f == [use EXCEPT ![u] = n]
  <2>1. /\ n \in UseState /\ n.at = use[u].at /\ n.action = use[u].action /\ n.left = use[u].left
    BY <1>0 DEF UseState
  <2>2. use' = f /\ UNCHANGED <<line, count, window, pressed, folders, brokerClosing>>
    BY <1>0, <1>8 DEF AbortUse
  <2> HIDE DEF n
  <2>3. /\ f \in [Uses -> UseState]
        /\ \A v \in Uses : f[v].at = use[v].at /\ f[v].action = use[v].action /\ f[v].left = use[v].left
    BY <1>0, <2>1
  <2> HIDE DEF f
  <2>4. count' \in Nat
    BY <1>0, <2>2
  <2> QED BY <1>7, <2>2, <2>3, <2>4
<1>9. CASE CloseBroker
  <2> DEFINE n(u) == [use[u] EXCEPT !.aborted = TRUE]
             f == [u \in Uses |-> IF use[u].at = "running" THEN n(u) ELSE use[u]]
  <2>1. ASSUME NEW u \in Uses
        PROVE  n(u) \in UseState /\ n(u).at = use[u].at /\ n(u).action = use[u].action /\ n(u).left = use[u].left
    <3>1. use[u] \in UseState
      BY <1>0
    <3> QED BY <3>1 DEF UseState
  <2>2. use' = f /\ Hide /\ brokerClosing' = "runtime" /\ UNCHANGED <<line, pressed, folders>>
    BY <1>9 DEF CloseBroker
  <2> HIDE DEF n
  <2>3. /\ f \in [Uses -> UseState]
        /\ \A v \in Uses : f[v].at = use[v].at /\ f[v].action = use[v].action /\ f[v].left = use[v].left
    BY <1>0, <2>1
  <2> HIDE DEF f
  <2>4. count' \in Nat
    BY <1>0, <2>2 DEF Hide
  <2> QED BY <1>7, <2>2, <2>3, <2>4
<1>10. CASE DestroyOverlay
  <2>1. use' = use /\ count' = 0 /\ brokerClosing' = "closed" /\ UNCHANGED <<line, pressed, folders>>
    BY <1>10 DEF DestroyOverlay
  <2>2. count' \in Nat
    BY <2>1
  <2> QED BY <1>0, <1>7, <2>1, <2>2
<1> QED BY <1>1, <1>2, <1>3, <1>4, <1>5, <1>6, <1>8, <1>9, <1>10 DEF UseNext

\* The invariant of the line of computer use.
LEMMA UseInductive == UseSpec => []UseInv
<1>1. UseInit => UseInv
  <2> SUFFICES ASSUME UseInit PROVE UseInv
    OBVIOUS
  <2>1. (CHOOSE a \in Actions : TRUE) \in Actions
    BY UseAssumption
  <2>2. <<>> \in Seq(Words) /\ <<>> \in Seq(Uses) /\ 0 \in Nat /\ Len(<<>>) = 0
    OBVIOUS
  <2>3. use \in [Uses -> UseState] /\ \A u \in Uses : use[u].at = "new" /\ use[u].left = <<>>
    BY <2>1, <2>2 DEF UseInit, UseState
  <2>4. UseTypes
    BY <2>2, <2>3 DEF UseInit, UseTypes, PressesInDrag
  <2>5. ~SomeRuns
    BY <2>3 DEF SomeRuns
  <2> QED BY <2>3, <2>4, <2>5 DEF UseInit, UseInv, InLine, OverlayOfRun, FoldersOfRun, ButtonOfDrag
<1> QED BY <1>1, UseNextKeeps, PTL DEF UseSpec

\* One action at a time has the mouse and the screen, the overlay is seen while
\* it runs, its pictures go with it, and only a drag leaves the button down.
THEOREM ComputerServesOneAction == UseSpec => []ComputerToOneAction
<1>1. UseInv => ComputerToOneAction
  <2> SUFFICES ASSUME UseInv PROVE ComputerToOneAction
    OBVIOUS
  <2>1. \A u, v \in Uses : use[u].at = "running" /\ use[v].at = "running" => u = v
    BY OneRuns
  <2>2. brokerClosing = "no" => (window = "shown" <=> \E u \in Uses : use[u].at = "running")
    BY DEF UseInv, OverlayOfRun, SomeRuns
  <2>3. \A u \in folders : use[u].at = "running"
    BY DEF UseInv, FoldersOfRun
  <2>4. ASSUME pressed
        PROVE  \E u \in Uses : /\ use[u].action = "drag"
                               /\ \/ use[u].at = "failed"
                                  \/ use[u].at = "running" /\ Head(use[u].left) \in {"move", "up"}
    <3>1. PICK u \in Uses : use[u].action = "drag" /\ (use[u].at = "failed" \/ (use[u].at = "running" /\ Releases(use[u].left)))
      BY <2>4 DEF UseInv, ButtonOfDrag
    <3>2. use[u].left \in Seq(Words)
      BY DEF UseInv, UseTypes, UseState
    <3>3. Releases(use[u].left) => Head(use[u].left) \in {"move", "up"}
      BY <3>2 DEF Releases
    <3> QED BY <3>1, <3>3
  <2> QED BY <2>1, <2>2, <2>3, <2>4 DEF ComputerToOneAction
<1> QED BY <1>1, UseInductive, PTL

-----------------------------------------------------------------------------
(* The browsers of the CLI sessions *)

AskState == [at : {"new", "queued"} \cup Executing \cup AskEnds, gen : Nat, aborted : BOOLEAN, outdated : BOOLEAN]
CloserState == [keys : SUBSET BrowserKeys, ids : SUBSET Asks, key : BrowserKeys \cup {NoAsk},
                at : Asks \cup {NoAsk}, run : BRuns \cup {NoRun}, all : BOOLEAN, on : BOOLEAN]

BrokerTypes ==
  /\ sessions \in [BrowserKeys -> Asks \cup {NoAsk}] /\ serial \in [BrowserKeys -> Seq(Asks)]
  /\ generations \in [BrowserKeys -> Nat] /\ ask \in [Asks -> AskState]
  /\ closer \in [Closers -> CloserState] /\ runSessions \in [BRuns -> SUBSET Asks] /\ live \subseteq Asks

UnderWay(q) == ask[q].at \in {"queued"} \cup Executing

\* A request that is under way is in the queue of its key, one that executes is
\* the first, and a queue holds requests of its key that have come.
Queued ==
  /\ \A q \in Asks : UnderWay(q) => \E i \in 1..Len(serial[AskKey[q]]) : serial[AskKey[q]][i] = q
  /\ \A q \in Asks : ask[q].at \in Executing => serial[AskKey[q]][1] = q
  /\ \A k \in BrowserKeys : \A i \in 1..Len(serial[k]) :
       AskKey[serial[k][i]] = k /\ ask[serial[k][i]].at # "new"

\* A generation is counted from zero again only when nobody of the key is under
\* way: one that came before the last close has an older generation.
Dated ==
  /\ \A q \in Asks : ask[q].at = "new" => ~ask[q].outdated
  /\ \A q \in Asks : UnderWay(q) => /\ ask[q].gen <= generations[AskKey[q]]
                                    /\ ask[q].outdated => ask[q].gen < generations[AskKey[q]]

\* Only who executes creates, and a key names a browser of its own.
Named ==
  /\ \A q \in Asks : ask[q].at = "creating" => sessions[AskKey[q]] = NoAsk
  /\ \A k \in BrowserKeys : sessions[k] # NoAsk => AskKey[sessions[k]] = k

IdleClosers == \A c \in Closers : ~closer[c].on => closer[c].at = NoAsk /\ closer[c].ids = {}

BrokerInv == BrokerTypes /\ Queued /\ Dated /\ Named /\ IdleClosers /\ BrowserSessionsOwned

\* Generations are forgotten only with the queue of their key empty.
LEMMA GenerationForgotten ==
  ASSUME NEW k \in BrowserKeys, NEW gens \in [BrowserKeys -> Nat], CleanupGeneration(k, gens)
  PROVE  /\ generations' \in [BrowserKeys -> Nat]
         /\ \A j \in BrowserKeys : generations'[j] = gens[j] \/ serial'[j] = <<>>
<1>1. CASE sessions'[k] = NoAsk /\ sessionRuns'[k] = NoRun /\ serial'[k] = <<>> /\ k \notin roots'
  <2>1. generations' = [gens EXCEPT ![k] = 0]
    BY <1>1 DEF CleanupGeneration
  <2> QED BY <1>1, <2>1
<1>2. CASE ~ (sessions'[k] = NoAsk /\ sessionRuns'[k] = NoRun /\ serial'[k] = <<>> /\ k \notin roots')
  <2>1. generations' = gens
    BY <1>2 DEF CleanupGeneration
  <2> QED BY <2>1
<1> QED BY <1>1, <1>2

\* Two requests of a key do not execute together.
LEMMA OneExecutes ==
  ASSUME BrokerInv, NEW q \in Asks, NEW r \in Asks, AskKey[q] = AskKey[r],
         ask[q].at \in Executing, ask[r].at \in Executing
  PROVE  q = r
BY DEF BrokerInv, Queued

\* The first of a queue is under way to the next place of its execution.
LEMMA AskGoesOn ==
  ASSUME BrokerInv, NEW q \in Asks, UnderWay(q), NEW n \in AskState, ask' = [ask EXCEPT ![q] = n],
         n.at \in {"queued"} \cup Executing, n.gen = ask[q].gen, n.outdated = ask[q].outdated,
         n.at \in Executing => serial[AskKey[q]][1] = q,
         UNCHANGED <<serial, generations>>
  PROVE  ask' \in [Asks -> AskState] /\ Queued' /\ Dated' /\ (\A r \in Asks : r # q => ask'[r] = ask[r])
         /\ ask'[q] = n
<1> USE DEF UnderWay
<1>1. /\ ask \in [Asks -> AskState] /\ serial \in [BrowserKeys -> Seq(Asks)]
      /\ \A r \in Asks : UnderWay(r) => \E i \in 1..Len(serial[AskKey[r]]) : serial[AskKey[r]][i] = r
      /\ \A r \in Asks : ask[r].at \in Executing => serial[AskKey[r]][1] = r
      /\ \A k \in BrowserKeys : \A i \in 1..Len(serial[k]) :
           AskKey[serial[k][i]] = k /\ ask[serial[k][i]].at # "new"
      /\ \A r \in Asks : ask[r].at = "new" => ~ask[r].outdated
      /\ \A r \in Asks : UnderWay(r) => /\ ask[r].gen <= generations[AskKey[r]]
                                        /\ ask[r].outdated => ask[r].gen < generations[AskKey[r]]
  BY DEF BrokerInv, BrokerTypes, Queued, Dated
<1>2. ask' \in [Asks -> AskState] /\ (\A r \in Asks : r # q => ask'[r] = ask[r]) /\ ask'[q] = n
  BY <1>1
<1>3. n.at # "new"
  BY DEF Executing
<1>4. \A r \in Asks : UnderWay(r)' <=> UnderWay(r)
  BY <1>2
<1>5. \A k \in BrowserKeys : \A i \in 1..Len(serial[k]) : ask'[serial[k][i]].at # "new"
  <2> SUFFICES ASSUME NEW k \in BrowserKeys, NEW i \in 1..Len(serial[k]) PROVE ask'[serial[k][i]].at # "new"
    OBVIOUS
  <2>1. serial[k][i] \in Asks
    BY <1>1
  <2> QED BY <1>1, <1>2, <1>3, <2>1
<1>6. Queued'
  BY <1>1, <1>2, <1>4, <1>5 DEF Queued
<1>7. Dated'
  BY <1>1, <1>2, <1>3, <1>4 DEF Dated
<1> QED BY <1>2, <1>6, <1>7

\* An answered request leaves its queue, and the last one may forget the
\* generation.
LEMMA AskAnswered ==
  ASSUME BrokerInv, NEW q \in Asks, UnderWay(q), Head(serial[AskKey[q]]) = q, NEW how \in AskEnds, Answer(q, how)
  PROVE  /\ ask' \in [Asks -> AskState] /\ Queued' /\ Dated'
         /\ serial' \in [BrowserKeys -> Seq(Asks)] /\ generations' \in [BrowserKeys -> Nat]
         /\ \A r \in Asks : r # q => ask'[r] = ask[r]
         /\ ask'[q].at = how /\ ask'[q].outdated = ask[q].outdated
<1> USE DEF UnderWay
<1> DEFINE k == AskKey[q]
           n == [ask[q] EXCEPT !.at = how]
<1>1. /\ ask \in [Asks -> AskState] /\ serial \in [BrowserKeys -> Seq(Asks)] /\ generations \in [BrowserKeys -> Nat]
      /\ \A r \in Asks : ask[r] \in AskState
      /\ \A r \in Asks : UnderWay(r) => \E i \in 1..Len(serial[AskKey[r]]) : serial[AskKey[r]][i] = r
      /\ \A r \in Asks : ask[r].at \in Executing => serial[AskKey[r]][1] = r
      /\ \A j \in BrowserKeys : \A i \in 1..Len(serial[j]) :
           AskKey[serial[j][i]] = j /\ ask[serial[j][i]].at # "new"
      /\ \A r \in Asks : ask[r].at = "new" => ~ask[r].outdated
      /\ \A r \in Asks : UnderWay(r) => /\ ask[r].gen <= generations[AskKey[r]]
                                        /\ ask[r].outdated => ask[r].gen < generations[AskKey[r]]
      /\ \A r \in Asks : AskKey[r] \in BrowserKeys
  BY DEF BrokerInv, BrokerTypes, Queued, Dated, BrowserKeys
<1>2. n \in AskState /\ n.at = how /\ n.outdated = ask[q].outdated /\ n.gen = ask[q].gen
  <2>1. ask[q] \in AskState
    BY <1>1
  <2> QED BY <2>1 DEF AskState
<1>3. ask' = [ask EXCEPT ![q] = n] /\ serial' = [serial EXCEPT ![k] = Tail(serial[k])]
  BY <1>1 DEF Answer
<1> HIDE DEF n
<1>4. ask' \in [Asks -> AskState] /\ (\A r \in Asks : r # q => ask'[r] = ask[r]) /\ ask'[q] = n
  BY <1>1, <1>2, <1>3
<1>5. how \notin {"new", "queued"} \cup Executing
  BY DEF AskEnds, Executing
<1>6. k \in BrowserKeys /\ serial[k] \in Seq(Asks) /\ serial[k] # <<>> /\ serial[k][1] = q
  BY <1>1
<1> HIDE DEF k
<1>7. /\ Tail(serial[k]) \in Seq(Asks) /\ Len(Tail(serial[k])) = Len(serial[k]) - 1
      /\ \A i \in 1..(Len(serial[k]) - 1) : Tail(serial[k])[i] = serial[k][i + 1]
      /\ Len(serial[k]) \in Nat
  BY <1>6, HeadTailProperties
<1>8. /\ serial' \in [BrowserKeys -> Seq(Asks)] /\ serial'[k] = Tail(serial[k])
      /\ \A j \in BrowserKeys : j # k => serial'[j] = serial[j]
  BY <1>1, <1>3, <1>6, <1>7
<1>9. /\ generations' \in [BrowserKeys -> Nat]
      /\ \A j \in BrowserKeys : generations'[j] = generations[j] \/ serial'[j] = <<>>
  <2>1. CASE serial'[k] = <<>>
    <3>1. CleanupGeneration(k, generations)
      BY <2>1 DEF Answer, k
    <3> QED BY <1>1, <1>6, <3>1, GenerationForgotten
  <2>2. CASE serial'[k] # <<>>
    <3>1. generations' = generations
      BY <2>2 DEF Answer, k
    <3> QED BY <1>1, <3>1
  <2> QED BY <2>1, <2>2
<1>10. \A r \in Asks : UnderWay(r)' => UnderWay(r) /\ r # q
  BY <1>2, <1>4, <1>5
<1>11. ASSUME NEW r \in Asks, UnderWay(r)'
       PROVE  \E i \in 1..Len(serial'[AskKey[r]]) : serial'[AskKey[r]][i] = r
  <2>1. PICK i \in 1..Len(serial[AskKey[r]]) : serial[AskKey[r]][i] = r
    BY <1>1, <1>10, <1>11
  <2>2. CASE AskKey[r] # k
    BY <1>1, <1>8, <2>1, <2>2
  <2>3. CASE AskKey[r] = k
    <3>1. i # 1
      BY <1>6, <1>10, <1>11, <2>1, <2>3
    <3>2. i - 1 \in 1..Len(serial'[k])
      BY <1>7, <1>8, <2>1, <2>3, <3>1
    <3>3. serial'[k][i - 1] = r
      <4>1. i - 1 \in 1..(Len(serial[k]) - 1) /\ (i - 1) + 1 = i
        BY <1>7, <2>1, <2>3, <3>1
      <4> QED BY <1>7, <1>8, <2>1, <2>3, <4>1
    <3> QED BY <2>3, <3>2, <3>3
  <2> QED BY <2>2, <2>3
<1>12. \A r \in Asks : ask'[r].at \in Executing => serial'[AskKey[r]][1] = r
  <2> SUFFICES ASSUME NEW r \in Asks, ask'[r].at \in Executing PROVE serial'[AskKey[r]][1] = r
    OBVIOUS
  <2>1. r # q /\ ask[r].at \in Executing /\ serial[AskKey[r]][1] = r
    BY <1>1, <1>2, <1>4, <1>5
  <2>2. AskKey[r] # k
    BY <1>6, <2>1
  <2> QED BY <1>1, <1>8, <2>1, <2>2
<1>13. ASSUME NEW j \in BrowserKeys, NEW i \in 1..Len(serial'[j])
       PROVE  AskKey[serial'[j][i]] = j /\ ask'[serial'[j][i]].at # "new"
  <2>1. \E l \in 1..Len(serial[j]) : serial'[j][i] = serial[j][l]
    <3>1. CASE j # k
      BY <1>8, <1>13, <3>1
    <3>2. CASE j = k
      <4>1. i \in 1..(Len(serial[k]) - 1) /\ i + 1 \in 1..Len(serial[k])
        BY <1>7, <1>8, <1>13, <3>2
      <4> QED BY <1>7, <1>8, <3>2, <4>1
    <3> QED BY <3>1, <3>2
  <2>2. PICK l \in 1..Len(serial[j]) : serial'[j][i] = serial[j][l]
    BY <2>1
  <2>3. serial[j][l] \in Asks
    BY <1>1, <2>2
  <2>4. AskKey[serial[j][l]] = j /\ ask[serial[j][l]].at # "new"
    BY <1>1, <2>2
  <2>5. ask'[serial[j][l]].at # "new"
    <3>1. CASE serial[j][l] = q
      BY <1>2, <1>4, <1>5, <3>1
    <3>2. CASE serial[j][l] # q
      BY <1>4, <2>3, <2>4, <3>2
    <3> QED BY <3>1, <3>2
  <2> QED BY <2>2, <2>4, <2>5
<1>14. Queued'
  BY <1>11, <1>12, <1>13 DEF Queued
<1>15. ASSUME NEW r \in Asks, UnderWay(r)'
       PROVE  ask'[r] = ask[r] /\ UnderWay(r) /\ generations'[AskKey[r]] = generations[AskKey[r]]
  <2>1. serial'[AskKey[r]] # <<>>
    <3>1. PICK i \in 1..Len(serial'[AskKey[r]]) : serial'[AskKey[r]][i] = r
      BY <1>11, <1>15
    <3> QED BY <1>1, <1>8, <3>1
  <2> QED BY <1>1, <1>4, <1>9, <1>10, <1>15, <2>1
<1>16. \A r \in Asks : ask'[r].at = "new" => ~ask'[r].outdated
  BY <1>1, <1>2, <1>4, <1>5
<1>17. Dated'
  BY <1>1, <1>15, <1>16 DEF Dated
<1> QED BY <1>2, <1>4, <1>8, <1>9, <1>14, <1>17

\* What owns a live browser.
Owned(id) ==
  \/ \E k \in BrowserKeys : sessions[k] = id
  \/ ask[id].at \in {"creating", "cancelling"}
  \/ \E c \in Closers : id = closer[c].at \/ id \in closer[c].ids

\* A step in the closers that leaves the requests, their queues and their
\* browsers alone.
LEMMA CloserMoves ==
  ASSUME BrokerInv, NEW c \in Closers, NEW n \in CloserState, closer' = [closer EXCEPT ![c] = n],
         UNCHANGED <<sessions, serial, generations, ask, live>>, runSessions' \in [BRuns -> SUBSET Asks],
         ~n.on => n.at = NoAsk /\ n.ids = {},
         \A id \in live : id = closer[c].at \/ id \in closer[c].ids => id = n.at \/ id \in n.ids
  PROVE  BrokerInv'
<1>1. closer \in [Closers -> CloserState]
  BY DEF BrokerInv, BrokerTypes
<1>2. /\ closer' \in [Closers -> CloserState] /\ closer'[c] = n
      /\ \A d \in Closers : d # c => closer'[d] = closer[d]
  BY <1>1
<1>3. BrokerTypes' /\ Queued' /\ Dated' /\ Named'
  <2>1. BrokerTypes'
    BY <1>2 DEF BrokerInv, BrokerTypes
  <2>2. Queued'
    BY DEF BrokerInv, Queued, UnderWay
  <2>3. Dated'
    BY DEF BrokerInv, Dated, UnderWay
  <2>4. Named'
    BY DEF BrokerInv, Named
  <2> QED BY <2>1, <2>2, <2>3, <2>4
<1>4. IdleClosers'
  BY <1>2 DEF BrokerInv, IdleClosers
<1>5. ASSUME NEW id \in live PROVE Owned(id)'
  <2>1. Owned(id)
    BY DEF BrokerInv, BrowserSessionsOwned, Owned
  <2>2. CASE \E d \in Closers : id = closer[d].at \/ id \in closer[d].ids
    BY <1>2, <2>2 DEF Owned
  <2> QED BY <2>1, <2>2 DEF Owned
<1>6. BrowserSessionsOwned'
  BY <1>5 DEF BrokerInv, BrowserSessionsOwned, Owned
<1> QED BY <1>3, <1>4, <1>6 DEF BrokerInv

\* Requests, closes and the ends of runs in any order.
LEMMA BrokerNextKeeps == BrokerInv /\ [BrokerNext]_brokerVars => BrokerInv'
<1> SUFFICES ASSUME BrokerInv, [BrokerNext]_brokerVars PROVE BrokerInv'
  OBVIOUS
<1>0. /\ sessions \in [BrowserKeys -> Asks \cup {NoAsk}] /\ serial \in [BrowserKeys -> Seq(Asks)]
      /\ generations \in [BrowserKeys -> Nat] /\ ask \in [Asks -> AskState]
      /\ closer \in [Closers -> CloserState] /\ runSessions \in [BRuns -> SUBSET Asks] /\ live \subseteq Asks
      /\ \A q \in Asks : ask[q] \in AskState /\ AskKey[q] \in BrowserKeys
      /\ \A c \in Closers : closer[c] \in CloserState
      /\ NoAsk \notin Asks
  BY BrowserAssumption DEF BrokerInv, BrokerTypes, BrowserKeys
<1>a. /\ \A id \in live : Owned(id)
      /\ \A k \in BrowserKeys : sessions[k] # NoAsk => ~ask[sessions[k]].outdated /\ AskKey[sessions[k]] = k
      /\ \A q \in Asks : ask[q].at = "creating" => sessions[AskKey[q]] = NoAsk
  BY DEF BrokerInv, BrowserSessionsOwned, Owned, Named
<1>1. ASSUME UNCHANGED <<sessions, serial, generations, ask, live, closer, runSessions>> PROVE BrokerInv'
  <2>1. BrokerTypes' /\ Named' /\ IdleClosers' /\ BrowserSessionsOwned'
    BY <1>1 DEF BrokerInv, BrokerTypes, Named, IdleClosers, BrowserSessionsOwned
  <2>2. Queued'
    BY <1>1 DEF BrokerInv, Queued, UnderWay
  <2>3. Dated'
    BY <1>1 DEF BrokerInv, Dated, UnderWay
  <2> QED BY <2>1, <2>2, <2>3 DEF BrokerInv
<1>2. CASE UNCHANGED brokerVars \/ (\E k \in BrowserKeys, run \in BRuns : BindRun(k, run))
           \/ \E run \in BRuns : ClearRunPolicy(run)
  BY <1>1, <1>2 DEF brokerVars, BindRun, ClearRunPolicy
<1>b. ASSUME UNCHANGED <<sessions, closer>>, \A r \in Asks : ask'[r].outdated = ask[r].outdated,
             \A id \in live' : ask'[id].at \in {"creating", "cancelling"}
                              \/ (id \in live /\ ask[id].at \notin {"creating", "cancelling"})
      PROVE  BrowserSessionsOwned'
  <2>1. ASSUME NEW id \in live' PROVE Owned(id)'
    <3>1. CASE ask'[id].at \in {"creating", "cancelling"}
      BY <3>1 DEF Owned
    <3>2. CASE id \in live /\ ask[id].at \notin {"creating", "cancelling"}
      <4>1. Owned(id)
        BY <1>a, <3>2
      <4> QED BY <1>b, <3>2, <4>1 DEF Owned
    <3> QED BY <1>b, <2>1, <3>1, <3>2
  <2>2. ASSUME NEW k \in BrowserKeys, sessions[k] # NoAsk PROVE ~ask'[sessions[k]].outdated
    <3>1. sessions[k] \in Asks /\ ~ask[sessions[k]].outdated
      BY <1>0, <1>a, <2>2
    <3> QED BY <1>b, <3>1
  <2> QED BY <1>b, <2>1, <2>2 DEF BrowserSessionsOwned, Owned
<1>3. ASSUME NEW q \in Asks, Handle(q) PROVE BrokerInv'
  <2> DEFINE k == AskKey[q]
             n == [ask[q] EXCEPT !.at = "queued", !.gen = generations[k]]
  <2>1. n \in AskState /\ n.at = "queued" /\ n.gen = generations[k] /\ n.outdated = ask[q].outdated
    <3>1. ask[q] \in AskState /\ generations[k] \in Nat
      BY <1>0
    <3> QED BY <3>1 DEF AskState
  <2>2. /\ ask' = [ask EXCEPT ![q] = n] /\ serial' = [serial EXCEPT ![k] = Append(serial[k], q)]
        /\ ask[q].at = "new" /\ UNCHANGED <<sessions, runSessions, generations, live, closer>>
    BY <1>0, <1>3 DEF Handle
  <2> HIDE DEF n
  <2>3. ask' \in [Asks -> AskState] /\ ask'[q] = n /\ \A r \in Asks : r # q => ask'[r] = ask[r]
    BY <1>0, <2>1, <2>2
  <2>4. k \in BrowserKeys /\ serial[k] \in Seq(Asks)
    BY <1>0
  <2> HIDE DEF k
  <2>5. /\ Append(serial[k], q) \in Seq(Asks) /\ Len(Append(serial[k], q)) = Len(serial[k]) + 1
        /\ \A i \in 1..Len(serial[k]) : Append(serial[k], q)[i] = serial[k][i]
        /\ Append(serial[k], q)[Len(serial[k]) + 1] = q /\ Len(serial[k]) \in Nat
    BY <2>4
  <2>6. /\ serial' \in [BrowserKeys -> Seq(Asks)] /\ serial'[k] = Append(serial[k], q)
        /\ \A j \in BrowserKeys : j # k => serial'[j] = serial[j]
    BY <1>0, <2>2, <2>4, <2>5
  <2>7. BrokerTypes'
    BY <1>0, <2>2, <2>3, <2>6 DEF BrokerTypes
  <2>8. ASSUME NEW j \in BrowserKeys, NEW i \in 1..Len(serial[j])
        PROVE  i \in 1..Len(serial'[j]) /\ serial'[j][i] = serial[j][i]
    <3>1. CASE j = k
      <4>1. i \in 1..Len(serial[k]) /\ i \in 1..(Len(serial[k]) + 1)
        BY <2>5, <2>8, <3>1
      <4> QED BY <2>5, <2>6, <3>1, <4>1
    <3>2. CASE j # k
      BY <2>6, <2>8, <3>2
    <3> QED BY <3>1, <3>2
  <2>9. ASSUME NEW r \in Asks, UnderWay(r)'
        PROVE  \E i \in 1..Len(serial'[AskKey[r]]) : serial'[AskKey[r]][i] = r
    <3>1. CASE r = q
      <4>1. Len(serial[k]) + 1 \in 1..Len(serial'[k])
        BY <2>5, <2>6
      <4> QED BY <2>5, <2>6, <3>1, <4>1 DEF k
    <3>2. CASE r # q
      <4>1. UnderWay(r)
        BY <2>3, <2>9, <3>2 DEF UnderWay
      <4>2. PICK i \in 1..Len(serial[AskKey[r]]) : serial[AskKey[r]][i] = r
        BY <4>1 DEF BrokerInv, Queued
      <4> QED BY <1>0, <2>8, <4>2
    <3> QED BY <3>1, <3>2
  <2>10. ASSUME NEW r \in Asks, ask'[r].at \in Executing PROVE serial'[AskKey[r]][1] = r
    <3>1. r # q /\ ask[r].at \in Executing
      BY <2>1, <2>3, <2>10 DEF Executing
    <3>2. PICK i \in 1..Len(serial[AskKey[r]]) : serial[AskKey[r]][i] = r
      BY <3>1 DEF BrokerInv, Queued, UnderWay
    <3>3. 1 \in 1..Len(serial[AskKey[r]]) /\ serial[AskKey[r]][1] = r
      <4>1. serial[AskKey[r]] \in Seq(Asks)
        BY <1>0
      <4> QED BY <3>1, <3>2, <4>1 DEF BrokerInv, Queued
    <3> QED BY <1>0, <2>8, <3>3
  <2>11. ASSUME NEW j \in BrowserKeys, NEW i \in 1..Len(serial'[j])
         PROVE  AskKey[serial'[j][i]] = j /\ ask'[serial'[j][i]].at # "new"
    <3>1. CASE j = k /\ i = Len(serial[k]) + 1
      <4>1. serial'[j][i] = q
        BY <2>5, <2>6, <3>1
      <4> QED BY <2>1, <2>3, <3>1, <4>1 DEF k
    <3>2. CASE ~ (j = k /\ i = Len(serial[k]) + 1)
      <4>1. i \in 1..Len(serial[j])
        BY <2>5, <2>6, <2>11, <3>2
      <4>2. serial'[j][i] = serial[j][i] /\ serial[j][i] \in Asks
        BY <1>0, <2>8, <4>1
      <4>3. AskKey[serial[j][i]] = j /\ ask[serial[j][i]].at # "new"
        BY <4>1 DEF BrokerInv, Queued
      <4>4. serial[j][i] # q
        BY <2>2, <4>3
      <4> QED BY <2>3, <4>2, <4>3, <4>4
    <3> QED BY <3>1, <3>2
  <2>12. Queued'
    BY <2>9, <2>10, <2>11 DEF Queued
  <2>13. Dated'
    <3>1. ~n.outdated /\ n.gen <= generations[AskKey[q]]
      <4>1. ~ask[q].outdated
        BY <2>2 DEF BrokerInv, Dated
      <4>2. generations[k] \in Nat
        BY <1>0, <2>4
      <4> QED BY <2>1, <4>1, <4>2 DEF k
    <3>2. \A r \in Asks : r # q => (UnderWay(r)' <=> UnderWay(r))
      BY <2>3 DEF UnderWay
    <3>3. \A r \in Asks : ask'[r].at = "new" => ~ask'[r].outdated
      BY <2>1, <2>3 DEF BrokerInv, Dated
    <3>4. ASSUME NEW r \in Asks, UnderWay(r)'
          PROVE  /\ ask'[r].gen <= generations'[AskKey[r]]
                 /\ ask'[r].outdated => ask'[r].gen < generations'[AskKey[r]]
      <4>1. CASE r = q
        BY <2>2, <2>3, <3>1, <4>1
      <4>2. CASE r # q
        BY <2>2, <2>3, <3>2, <3>4, <4>2 DEF BrokerInv, Dated
      <4> QED BY <4>1, <4>2
    <3> QED BY <3>3, <3>4 DEF Dated
  <2>14. Named' /\ IdleClosers'
    <3>1. \A r \in Asks : ask'[r].at = "creating" => ask[r].at = "creating"
      BY <2>1, <2>3
    <3> QED BY <2>2, <3>1 DEF BrokerInv, Named, IdleClosers
  <2>15. \A r \in Asks : ask[r].at \in {"creating", "cancelling"} => ask'[r].at = ask[r].at
    BY <2>2, <2>3
  <2>16. \A r \in Asks : ask'[r].outdated = ask[r].outdated
    BY <2>1, <2>3
  <2>17. BrowserSessionsOwned'
    BY <1>0, <1>b, <2>2, <2>15, <2>16
  <2> QED BY <2>7, <2>12, <2>13, <2>14, <2>17 DEF BrokerInv
<1>4. ASSUME NEW q \in Asks, UnderWay(q), Head(serial[AskKey[q]]) = q, NEW how \in AskEnds, Answer(q, how),
             live' \subseteq live, ask[q].at \in {"creating", "cancelling"} => q \notin live',
             UNCHANGED <<sessions, runSessions, closer>>
      PROVE  BrokerInv'
  <2>1. /\ ask' \in [Asks -> AskState] /\ Queued' /\ Dated'
        /\ serial' \in [BrowserKeys -> Seq(Asks)] /\ generations' \in [BrowserKeys -> Nat]
        /\ \A r \in Asks : r # q => ask'[r] = ask[r]
        /\ ask'[q].at = how /\ ask'[q].outdated = ask[q].outdated
    BY <1>4, AskAnswered
  <2>2. BrokerTypes'
    BY <1>0, <1>4, <2>1 DEF BrokerTypes
  <2>3. how \notin {"creating", "cancelling"}
    BY DEF AskEnds
  <2>4. Named' /\ IdleClosers'
    <3>1. \A r \in Asks : ask'[r].at = "creating" => ask[r].at = "creating"
      BY <2>1, <2>3
    <3> QED BY <1>4, <3>1 DEF BrokerInv, Named, IdleClosers
  <2>5. \A id \in live' : \/ ask'[id].at \in {"creating", "cancelling"}
                          \/ id \in live /\ ask[id].at \notin {"creating", "cancelling"}
    <3> SUFFICES ASSUME NEW id \in live', ask[id].at \in {"creating", "cancelling"}
                 PROVE  ask'[id].at \in {"creating", "cancelling"}
      BY <1>4
    <3>1. id \in Asks /\ id # q
      BY <1>0, <1>4
    <3> QED BY <2>1, <3>1
  <2>6. BrowserSessionsOwned'
    BY <1>4, <1>b, <2>1, <2>5
  <2> QED BY <2>1, <2>2, <2>4, <2>6 DEF BrokerInv
<1>5. ASSUME NEW q \in Asks, UnderWay(q), NEW n \in AskState, ask' = [ask EXCEPT ![q] = n],
             n.at \in {"queued"} \cup Executing, n.gen = ask[q].gen, n.outdated = ask[q].outdated,
             n.at \in Executing => serial[AskKey[q]][1] = q,
             n.at = "creating" => sessions[AskKey[q]] = NoAsk,
             live' \subseteq Asks,
             \A id \in live' : id \in live \/ (id = q /\ n.at = "creating"),
             ask[q].at \in {"creating", "cancelling"} => n.at \in {"creating", "cancelling"},
             UNCHANGED <<serial, generations, sessions, runSessions, closer>>
      PROVE  BrokerInv'
  <2>1. /\ ask' \in [Asks -> AskState] /\ Queued' /\ Dated' /\ (\A r \in Asks : r # q => ask'[r] = ask[r])
        /\ ask'[q] = n
    BY <1>5, AskGoesOn
  <2>2. BrokerTypes'
    BY <1>0, <1>5, <2>1 DEF BrokerTypes
  <2>3. Named' /\ IdleClosers'
    BY <1>5, <2>1 DEF BrokerInv, Named, IdleClosers
  <2>4. \A id \in live' : \/ ask'[id].at \in {"creating", "cancelling"}
                          \/ id \in live /\ ask[id].at \notin {"creating", "cancelling"}
    <3> SUFFICES ASSUME NEW id \in live' PROVE \/ ask'[id].at \in {"creating", "cancelling"}
                                               \/ id \in live /\ ask[id].at \notin {"creating", "cancelling"}
      OBVIOUS
    <3>1. id \in Asks
      BY <1>5
    <3>2. CASE id = q
      BY <1>5, <2>1, <3>2
    <3>3. CASE id # q
      BY <1>5, <2>1, <3>1, <3>3
    <3> QED BY <3>2, <3>3
  <2>5. \A r \in Asks : ask'[r].outdated = ask[r].outdated
    BY <1>5, <2>1
  <2>6. BrowserSessionsOwned'
    BY <1>5, <1>b, <2>4, <2>5
  <2> QED BY <2>1, <2>2, <2>3, <2>6 DEF BrokerInv
<1>6. ASSUME NEW q \in Asks, ask[q].at = "queued" \/ ask[q].at \in Executing
      PROVE  /\ UnderWay(q) /\ serial[AskKey[q]] \in Seq(Asks) /\ serial[AskKey[q]] # <<>>
             /\ Head(serial[AskKey[q]]) = serial[AskKey[q]][1]
             /\ ask[q].at \in Executing => Head(serial[AskKey[q]]) = q
  <2>1. UnderWay(q)
    BY <1>6 DEF UnderWay
  <2>2. PICK i \in 1..Len(serial[AskKey[q]]) : serial[AskKey[q]][i] = q
    BY <2>1 DEF BrokerInv, Queued
  <2>3. serial[AskKey[q]] \in Seq(Asks) /\ serial[AskKey[q]] # <<>>
    BY <1>0, <2>2
  <2> QED BY <2>1, <2>3 DEF BrokerInv, Queued
<1>7. ASSUME NEW q \in Asks, ExecuteAsk(q) PROVE BrokerInv'
  <2>1. /\ UNCHANGED <<sessions, runSessions, closer>> /\ ask[q].at = "queued" /\ Head(serial[AskKey[q]]) = q
        /\ UnderWay(q) /\ serial[AskKey[q]][1] = q
    BY <1>6, <1>7 DEF ExecuteAsk
  <2>2. CASE Answer(q, "failed") /\ UNCHANGED live
    <3>1. "failed" \in AskEnds
      BY DEF AskEnds
    <3> QED BY <1>4, <2>1, <2>2, <3>1
  <2>3. ASSUME NEW where \in {"acting", "creating"}, ask' = [ask EXCEPT ![q].at = where],
               UNCHANGED <<serial, generations>>,
               \/ where = "acting" /\ UNCHANGED live
               \/ where = "creating" /\ sessions[AskKey[q]] = NoAsk /\ live' = live \cup {q}
        PROVE  BrokerInv'
    <3> DEFINE n == [ask[q] EXCEPT !.at = where]
    <3>1. n \in AskState /\ n.at = where /\ n.gen = ask[q].gen /\ n.outdated = ask[q].outdated
      <4>1. ask[q] \in AskState /\ where \in Executing
        BY <1>0 DEF Executing
      <4> QED BY <4>1 DEF AskState
    <3>2. ask' = [ask EXCEPT ![q] = n]
      BY <1>0, <2>3
    <3> HIDE DEF n
    <3>3. n.at \in {"queued"} \cup Executing
      BY <3>1 DEF Executing
    <3>4. live' \subseteq Asks /\ \A id \in live' : id \in live \/ (id = q /\ n.at = "creating")
      BY <1>0, <2>3, <3>1
    <3>5. n.at = "creating" => sessions[AskKey[q]] = NoAsk
      BY <2>3, <3>1
    <3> QED BY <1>5, <2>1, <2>3, <3>1, <3>2, <3>3, <3>4, <3>5
  <2>4. \/ Answer(q, "failed") /\ UNCHANGED live
        \/ ask' = [ask EXCEPT ![q].at = "acting"] /\ UNCHANGED <<live, serial, generations>>
        \/ /\ sessions[AskKey[q]] = NoAsk
           /\ ask' = [ask EXCEPT ![q].at = "creating"] /\ live' = live \cup {q} /\ UNCHANGED <<serial, generations>>
    BY <1>7 DEF ExecuteAsk
  <2> QED BY <2>2, <2>3, <2>4
<1>8. ASSUME NEW q \in Asks, EnsureSession(q) PROVE BrokerInv'
  <2> DEFINE k == AskKey[q]
  <2>1. /\ ask[q].at = "creating" /\ UNCHANGED closer /\ k \in BrowserKeys
        /\ UnderWay(q) /\ Head(serial[k]) = q /\ serial[k][1] = q
    BY <1>0, <1>6, <1>8 DEF EnsureSession, Executing
  <2>2. CASE live' = live \ {q} /\ UNCHANGED <<sessions, runSessions>> /\ Answer(q, "failed")
    <3>1. "failed" \in AskEnds
      BY DEF AskEnds
    <3> QED BY <1>4, <2>1, <2>2, <3>1
  <2>3. CASE ask' = [ask EXCEPT ![q].at = "cancelling"] /\ UNCHANGED <<sessions, runSessions, live, serial, generations>>
    <3> DEFINE n == [ask[q] EXCEPT !.at = "cancelling"]
    <3>1. n \in AskState /\ n.at = "cancelling" /\ n.gen = ask[q].gen /\ n.outdated = ask[q].outdated
      <4>1. ask[q] \in AskState /\ "cancelling" \in Executing
        BY <1>0 DEF Executing
      <4> QED BY <4>1 DEF AskState
    <3>2. ask' = [ask EXCEPT ![q] = n]
      BY <1>0, <2>3
    <3> HIDE DEF n
    <3>3. n.at \in {"queued"} \cup Executing
      BY <3>1 DEF Executing
    <3> QED BY <1>0, <1>5, <2>1, <2>3, <3>1, <3>2, <3>3
  <2>4. CASE /\ Active(q) /\ sessions' = [sessions EXCEPT ![k] = q]
             /\ runSessions' = [runSessions EXCEPT ![PolicyRun(q)] = @ \cup {q}]
             /\ ask' = [ask EXCEPT ![q].at = "acting"] /\ UNCHANGED <<live, serial, generations>>
    <3> DEFINE n == [ask[q] EXCEPT !.at = "acting"]
    <3>1. n \in AskState /\ n.at = "acting" /\ n.gen = ask[q].gen /\ n.outdated = ask[q].outdated
      <4>1. ask[q] \in AskState /\ "acting" \in Executing
        BY <1>0 DEF Executing
      <4> QED BY <4>1 DEF AskState
    <3>2. ask' = [ask EXCEPT ![q] = n]
      BY <1>0, <2>4
    <3> HIDE DEF n
    <3>3. n.at \in {"queued"} \cup Executing
      BY <3>1 DEF Executing
    <3>4. /\ ask' \in [Asks -> AskState] /\ Queued' /\ Dated' /\ (\A r \in Asks : r # q => ask'[r] = ask[r])
          /\ ask'[q] = n
      BY <2>1, <2>4, <3>1, <3>2, <3>3, AskGoesOn
    <3>5. /\ sessions' \in [BrowserKeys -> Asks \cup {NoAsk}] /\ sessions'[k] = q
          /\ \A j \in BrowserKeys : j # k => sessions'[j] = sessions[j]
      BY <1>0, <2>1, <2>4
    <3>6. BrokerTypes'
      <4>1. runSessions' \in [BRuns -> SUBSET Asks]
        BY <1>0, <2>4
      <4> QED BY <1>0, <2>1, <2>4, <3>4, <3>5, <4>1 DEF BrokerTypes
    <3>7. ~n.outdated
      <4>1. generations[k] = ask[q].gen /\ generations[k] \in Nat
        BY <1>0, <2>1, <2>4 DEF Active
      <4>2. ask[q].outdated => ask[q].gen < generations[k]
        BY <2>1 DEF BrokerInv, Dated
      <4> QED BY <3>1, <4>1, <4>2
    <3>8. Named' /\ IdleClosers'
      <4>1. ASSUME NEW r \in Asks, ask'[r].at = "creating" PROVE sessions'[AskKey[r]] = NoAsk
        <5>1. r # q /\ ask[r].at = "creating"
          BY <3>1, <3>4, <4>1
        <5>2. AskKey[r] # k
          BY <2>1, <5>1, OneExecutes DEF Executing
        <5> QED BY <1>0, <1>a, <3>5, <5>1, <5>2
      <4>2. \A j \in BrowserKeys : sessions'[j] # NoAsk => AskKey[sessions'[j]] = j
        BY <1>a, <3>5
      <4> QED BY <2>1, <4>1, <4>2 DEF BrokerInv, Named, IdleClosers
    <3>9. ASSUME NEW id \in live' PROVE Owned(id)'
      <4>1. id \in live /\ id \in Asks /\ Owned(id)
        BY <1>0, <1>a, <2>4, <3>9
      <4>2. CASE id = q
        BY <2>1, <3>5, <4>2 DEF Owned
      <4>3. CASE id # q
        <5>1. CASE \E j \in BrowserKeys : sessions[j] = id
          <6>1. PICK j \in BrowserKeys : sessions[j] = id
            BY <5>1
          <6>2. j # k
            BY <1>0, <1>a, <2>1, <4>1, <6>1
          <6> QED BY <3>5, <6>1, <6>2 DEF Owned
        <5>2. CASE ask[id].at \in {"creating", "cancelling"}
          BY <3>4, <4>1, <4>3, <5>2 DEF Owned
        <5>3. CASE \E c \in Closers : id = closer[c].at \/ id \in closer[c].ids
          BY <2>1, <5>3 DEF Owned
        <5> QED BY <4>1, <5>1, <5>2, <5>3 DEF Owned
      <4> QED BY <4>2, <4>3
    <3>10. ASSUME NEW j \in BrowserKeys, sessions'[j] # NoAsk PROVE ~ask'[sessions'[j]].outdated
      <4>1. CASE j = k
        BY <3>4, <3>5, <3>7, <4>1
      <4>2. CASE j # k
        <5>1. sessions'[j] = sessions[j] /\ sessions[j] \in Asks /\ ~ask[sessions[j]].outdated /\ AskKey[sessions[j]] = j
          BY <1>0, <1>a, <3>5, <3>10, <4>2
        <5>2. sessions[j] # q
          BY <4>2, <5>1
        <5> QED BY <3>4, <5>1, <5>2
      <4> QED BY <4>1, <4>2
    <3>11. BrowserSessionsOwned'
      BY <3>9, <3>10 DEF BrowserSessionsOwned, Owned
    <3> QED BY <3>4, <3>6, <3>8, <3>11 DEF BrokerInv
  <2> QED BY <1>8, <2>2, <2>3, <2>4 DEF EnsureSession
<1>9. ASSUME NEW q \in Asks, RunAction(q) PROVE BrokerInv'
  <2>1. /\ ask[q].at \in {"cancelling", "acting"} /\ UNCHANGED <<sessions, runSessions, closer>>
        /\ live' = IF ask[q].at = "cancelling" THEN live \ {q} ELSE live
    BY <1>9 DEF RunAction
  <2>2. PICK how \in AskEnds : Answer(q, how)
    BY <1>9 DEF RunAction
  <2>3. UnderWay(q) /\ Head(serial[AskKey[q]]) = q
    BY <1>6, <2>1 DEF Executing
  <2>4. live' \subseteq live /\ (ask[q].at \in {"creating", "cancelling"} => q \notin live')
    BY <2>1
  <2> QED BY <1>4, <2>1, <2>2, <2>3, <2>4
<1>10. ASSUME NEW q \in Asks, Abort(q) PROVE BrokerInv'
  <2> DEFINE n == [ask[q] EXCEPT !.aborted = TRUE]
  <2>1. /\ n \in AskState /\ n.at = ask[q].at /\ n.gen = ask[q].gen /\ n.outdated = ask[q].outdated
    <3>1. ask[q] \in AskState
      BY <1>0
    <3> QED BY <3>1 DEF AskState
  <2>2. /\ ask' = [ask EXCEPT ![q] = n] /\ ask[q].at \in {"queued"} \cup Executing
        /\ UNCHANGED <<sessions, runSessions, serial, generations, live>>
    BY <1>0, <1>10 DEF Abort
  <2> HIDE DEF n
  <2>3. UnderWay(q) /\ (n.at \in Executing => serial[AskKey[q]][1] = q)
    BY <1>6, <2>1, <2>2
  <2>4. /\ ask' \in [Asks -> AskState] /\ Queued' /\ Dated' /\ (\A r \in Asks : r # q => ask'[r] = ask[r])
        /\ ask'[q] = n
    BY <2>1, <2>2, <2>3, AskGoesOn
  <2>5. \A r \in Asks : ask'[r].at = ask[r].at /\ ask'[r].outdated = ask[r].outdated
    BY <2>1, <2>4
  <2>6. \/ closer' = closer
        \/ \E c \in Closers : \E m \in CloserState : ~closer[c].on /\ m.on /\ closer' = [closer EXCEPT ![c] = m]
    <3>1. CASE ask[q].at = "queued"
      BY <1>10, <3>1 DEF Abort
    <3>2. CASE ask[q].at # "queued"
      <4>1. PICK c \in Closers :
              /\ ~closer[c].on
              /\ closer' = [closer EXCEPT ![c] = [Idle EXCEPT !.on = TRUE, !.keys = {AskKey[q]}]]
        BY <1>10, <3>2 DEF Abort
      <4> DEFINE m == [Idle EXCEPT !.on = TRUE, !.keys = {AskKey[q]}]
      <4>2. m \in CloserState /\ m.on
        <5>1. {AskKey[q]} \in SUBSET BrowserKeys
          BY <1>0
        <5> QED BY <5>1 DEF Idle, CloserState
      <4>3. closer' = [closer EXCEPT ![c] = m]
        BY <4>1
      <4> HIDE DEF m
      <4> QED BY <4>1, <4>2, <4>3
    <3> QED BY <3>1, <3>2
  <2>7. /\ closer' \in [Closers -> CloserState]
        /\ \A c \in Closers : closer'[c] = closer[c] \/ (~closer[c].on /\ closer'[c].on)
    BY <1>0, <2>6
  <2>8. BrokerTypes'
    BY <1>0, <2>2, <2>4, <2>7 DEF BrokerTypes
  <2>9. Named' /\ IdleClosers'
    <3>1. IdleClosers'
      BY <2>7 DEF BrokerInv, IdleClosers
    <3>2. Named'
      BY <2>2, <2>5 DEF BrokerInv, Named
    <3> QED BY <3>1, <3>2
  <2>10. ASSUME NEW id \in live' PROVE Owned(id)'
    <3>1. id \in Asks /\ Owned(id) /\ id # NoAsk
      BY <1>0, <1>a, <2>2
    <3>2. CASE \E c \in Closers : id = closer[c].at \/ id \in closer[c].ids
      <4>1. PICK c \in Closers : id = closer[c].at \/ id \in closer[c].ids
        BY <3>2
      <4>2. closer'[c] = closer[c]
        BY <2>7, <3>1, <4>1 DEF BrokerInv, IdleClosers
      <4> QED BY <4>1, <4>2 DEF Owned
    <3> QED BY <2>2, <2>5, <3>1, <3>2 DEF Owned
  <2>11. ASSUME NEW k \in BrowserKeys, sessions[k] # NoAsk PROVE ~ask'[sessions[k]].outdated
    BY <1>0, <1>a, <2>5, <2>11
  <2>12. BrowserSessionsOwned'
    BY <2>2, <2>10, <2>11 DEF BrowserSessionsOwned, Owned
  <2> QED BY <2>4, <2>8, <2>9, <2>12 DEF BrokerInv
<1>11. ASSUME NEW c \in Closers, BeginClosing(c) PROVE BrokerInv'
  <2>1. ~closer[c].on /\ UNCHANGED <<sessions, runSessions, serial, generations, ask, live>>
    BY <1>11 DEF BeginClosing
  <2>2. \E m \in CloserState : m.on /\ closer' = [closer EXCEPT ![c] = m]
    <3> DEFINE HasState(k) == \/ sessions[k] # NoAsk \/ sessionRuns[k] # NoRun
                              \/ serial[k] # <<>> \/ k \in roots
               OfRun(r) == {k \in BrowserKeys : sessionRuns[k] = r \/ sessions[k] \in runSessions[r]}
    <3>1. \/ \E k \in BrowserKeys :
               closer' = [closer EXCEPT ![c] = [Idle EXCEPT !.on = TRUE, !.keys = {k}]]
          \/ closer' = [closer EXCEPT ![c] =
               [Idle EXCEPT !.on = TRUE, !.all = TRUE, !.keys = {k \in BrowserKeys : HasState(k)}]]
          \/ \E r \in BRuns :
               closer' = [closer EXCEPT ![c] =
                 [Idle EXCEPT !.on = TRUE, !.run = r, !.keys = OfRun(r),
                              !.ids = runSessions[r] \ {sessions[k] : k \in OfRun(r)}]]
      BY <1>11 DEF BeginClosing
    <3> HIDE DEF HasState
    <3>2. ASSUME NEW k \in BrowserKeys PROVE [Idle EXCEPT !.on = TRUE, !.keys = {k}] \in CloserState /\ [Idle EXCEPT !.on = TRUE, !.keys = {k}].on
      BY DEF Idle, CloserState
    <3>3. /\ [Idle EXCEPT !.on = TRUE, !.all = TRUE, !.keys = {k \in BrowserKeys : HasState(k)}] \in CloserState
          /\ [Idle EXCEPT !.on = TRUE, !.all = TRUE, !.keys = {k \in BrowserKeys : HasState(k)}].on
      <4>1. {k \in BrowserKeys : HasState(k)} \in SUBSET BrowserKeys
        OBVIOUS
      <4> QED BY <4>1 DEF Idle, CloserState
    <3>4. ASSUME NEW r \in BRuns,
                 closer' = [closer EXCEPT ![c] =
                   [Idle EXCEPT !.on = TRUE, !.run = r, !.keys = OfRun(r),
                                !.ids = runSessions[r] \ {sessions[k] : k \in OfRun(r)}]]
          PROVE  \E m \in CloserState : m.on /\ closer' = [closer EXCEPT ![c] = m]
      <4> DEFINE keys == OfRun(r)
                 ids == runSessions[r] \ {sessions[k] : k \in OfRun(r)}
                 m == [Idle EXCEPT !.on = TRUE, !.run = r, !.keys = keys, !.ids = ids]
      <4>1. keys \in SUBSET BrowserKeys /\ ids \in SUBSET Asks
        BY <1>0
      <4>2. closer' = [closer EXCEPT ![c] = m]
        BY <3>4
      <4> HIDE DEF keys, ids
      <4>3. m \in CloserState /\ m.on
        BY <4>1 DEF Idle, CloserState
      <4> QED BY <4>2, <4>3
    <3> QED BY <3>1, <3>2, <3>3, <3>4
  <2>3. PICK m \in CloserState : m.on /\ closer' = [closer EXCEPT ![c] = m]
    BY <2>2
  <2>4. closer[c].at = NoAsk /\ closer[c].ids = {}
    BY <2>1 DEF BrokerInv, IdleClosers
  <2>5. \A id \in live : id # NoAsk
    BY <1>0
  <2> QED BY <1>0, <2>1, <2>3, <2>4, <2>5, CloserMoves
<1>12. ASSUME NEW c \in Closers, CloseId(c) PROVE BrokerInv'
  <2>1. PICK id \in closer[c].ids :
          closer' = [closer EXCEPT ![c].ids = @ \ {id}, ![c].key = NoAsk, ![c].at = id]
    BY <1>12 DEF CloseId
  <2> DEFINE ids == closer[c].ids \ {id}
             n == [closer[c] EXCEPT !.ids = ids, !.key = NoAsk, !.at = id]
  <2>2. closer[c].on /\ closer[c].at = NoAsk /\ UNCHANGED <<sessions, runSessions, serial, generations, ask, live>>
    BY <1>12 DEF CloseId
  <2>3. ids \in SUBSET Asks /\ id \in Asks
    BY <1>0 DEF CloserState
  <2>4. closer' = [closer EXCEPT ![c] = n]
    BY <1>0, <2>1
  <2>5. \A i \in live : i = closer[c].at \/ i \in closer[c].ids => i = id \/ i \in ids
    BY <1>0, <2>2
  <2> HIDE DEF ids
  <2>6. n \in CloserState /\ n.at = id /\ n.ids = ids /\ n.on = closer[c].on
    <3>1. closer[c] \in CloserState
      BY <1>0
    <3> QED BY <2>3, <3>1 DEF CloserState
  <2> HIDE DEF n
  <2> QED BY <1>0, <2>2, <2>4, <2>5, <2>6, CloserMoves
<1>13. ASSUME NEW c \in Closers, EndClosing(c) PROVE BrokerInv'
  <2>1. /\ closer[c].at = NoAsk /\ closer[c].ids = {} /\ closer' = [closer EXCEPT ![c] = Idle]
        /\ UNCHANGED <<sessions, serial, generations, ask, live>>
        /\ runSessions' = [r \in BRuns |-> IF r = closer[c].run THEN {} ELSE runSessions[r]]
    BY <1>13 DEF EndClosing
  <2>2. Idle \in CloserState /\ Idle.at = NoAsk /\ Idle.ids = {}
    BY DEF Idle, CloserState
  <2>3. runSessions' \in [BRuns -> SUBSET Asks]
    BY <1>0, <2>1
  <2>4. \A id \in live : id # NoAsk
    BY <1>0
  <2> QED BY <2>1, <2>2, <2>3, <2>4, CloserMoves
<1>14. ASSUME NEW c \in Closers, CloseReturned(c) PROVE BrokerInv'
  <2> DEFINE id == closer[c].at
             n == [closer[c] EXCEPT !.at = NoAsk]
  <2>1. /\ id # NoAsk /\ live' = live \ {id} /\ closer' = [closer EXCEPT ![c] = n]
        /\ UNCHANGED <<sessions, serial, ask>>
    BY <1>0, <1>14 DEF CloseReturned
  <2>2. n \in CloserState /\ n.at = NoAsk /\ n.ids = closer[c].ids /\ n.on = closer[c].on
    <3>1. closer[c] \in CloserState
      BY <1>0
    <3> QED BY <3>1 DEF CloserState
  <2> HIDE DEF n
  <2>3. /\ closer' \in [Closers -> CloserState] /\ closer'[c] = n
        /\ \A d \in Closers : d # c => closer'[d] = closer[d]
    BY <1>0, <2>1, <2>2
  <2>4. /\ generations' \in [BrowserKeys -> Nat]
        /\ \A j \in BrowserKeys : generations'[j] = generations[j] \/ serial'[j] = <<>>
    <3>1. CASE closer[c].key = NoAsk
      <4>1. generations' = generations
        BY <1>14, <3>1 DEF CloseReturned
      <4> QED BY <1>0, <4>1
    <3>2. CASE closer[c].key # NoAsk
      <4>1. CleanupGeneration(closer[c].key, generations)
        BY <1>14, <3>2 DEF CloseReturned
      <4>2. closer[c].key \in BrowserKeys
        BY <1>0, <3>2 DEF CloserState
      <4> QED BY <1>0, <4>1, <4>2, GenerationForgotten
    <3> QED BY <3>1, <3>2
  <2>5. runSessions' \in [BRuns -> SUBSET Asks]
    <3>1. CASE closer[c].key = NoAsk
      <4>1. runSessions' = runSessions
        BY <1>14, <3>1 DEF CloseReturned
      <4> QED BY <1>0, <4>1
    <3>2. CASE closer[c].key # NoAsk
      <4>1. runSessions' = [r \in BRuns |-> runSessions[r] \ {id}]
        BY <1>14, <3>2 DEF CloseReturned
      <4> QED BY <1>0, <4>1
    <3> QED BY <3>1, <3>2
  <2>6. BrokerTypes'
    BY <1>0, <2>1, <2>3, <2>4, <2>5 DEF BrokerTypes
  <2>7. Queued'
    BY <2>1 DEF BrokerInv, Queued, UnderWay
  <2>8. Named'
    BY <2>1 DEF BrokerInv, Named
  <2>9. IdleClosers'
    BY <2>2, <2>3 DEF BrokerInv, IdleClosers
  <2>10. Dated'
    <3>1. ASSUME NEW r \in Asks, UnderWay(r)'
          PROVE  /\ ask'[r].gen <= generations'[AskKey[r]]
                 /\ ask'[r].outdated => ask'[r].gen < generations'[AskKey[r]]
      <4>1. UnderWay(r)
        BY <2>1, <3>1 DEF UnderWay
      <4>2. PICK i \in 1..Len(serial[AskKey[r]]) : serial[AskKey[r]][i] = r
        BY <4>1 DEF BrokerInv, Queued
      <4>3. serial'[AskKey[r]] # <<>> /\ AskKey[r] \in BrowserKeys
        BY <1>0, <2>1, <4>2
      <4>4. generations'[AskKey[r]] = generations[AskKey[r]]
        BY <2>4, <4>3
      <4> QED BY <2>1, <4>1, <4>4 DEF BrokerInv, Dated
    <3> QED BY <2>1, <3>1 DEF BrokerInv, Dated
  <2>11. ASSUME NEW i \in live' PROVE Owned(i)'
    <3>1. i \in live /\ i # id /\ Owned(i)
      BY <1>a, <2>1
    <3>2. CASE \E d \in Closers : i = closer[d].at \/ i \in closer[d].ids
      <4>1. PICK d \in Closers : i = closer[d].at \/ i \in closer[d].ids
        BY <3>2
      <4>2. i = closer'[d].at \/ i \in closer'[d].ids
        BY <2>2, <2>3, <3>1, <4>1
      <4> QED BY <4>2 DEF Owned
    <3> QED BY <2>1, <3>1, <3>2 DEF Owned
  <2>12. BrowserSessionsOwned'
    BY <1>a, <2>1, <2>11 DEF BrowserSessionsOwned, Owned
  <2> QED BY <2>6, <2>7, <2>8, <2>9, <2>10, <2>12 DEF BrokerInv
<1>15. ASSUME NEW c \in Closers, NEW k \in BrowserKeys, CloseKey(c, k) PROVE BrokerInv'
  <2> DEFINE keys == closer[c].keys \ {k}
             n == [closer[c] EXCEPT !.keys = keys, !.key = k, !.at = sessions[k]]
             m(r) == [ask[r] EXCEPT !.outdated = @ \/ r \in ToSet(serial[k])]
             bumped == [generations EXCEPT ![k] = @ + 1]
  <2>1. /\ closer[c].on /\ closer[c].at = NoAsk
        /\ sessions' = [sessions EXCEPT ![k] = NoAsk] /\ closer' = [closer EXCEPT ![c] = n]
        /\ ask' = [r \in Asks |-> m(r)] /\ UNCHANGED <<serial, runSessions, live>>
    BY <1>0, <1>15 DEF CloseKey
  <2>2. n \in CloserState /\ n.at = sessions[k] /\ n.ids = closer[c].ids /\ n.on
    <3>1. closer[c] \in CloserState /\ sessions[k] \in Asks \cup {NoAsk}
      BY <1>0
    <3>2. keys \in SUBSET BrowserKeys
      BY <3>1 DEF CloserState
    <3> HIDE DEF keys
    <3> QED BY <2>1, <3>1, <3>2 DEF CloserState
  <2>3. ASSUME NEW r \in Asks
        PROVE  /\ m(r) \in AskState /\ m(r).at = ask[r].at /\ m(r).gen = ask[r].gen
               /\ m(r).outdated <=> ask[r].outdated \/ r \in ToSet(serial[k])
    <3>1. ask[r] \in AskState
      BY <1>0
    <3>2. (ask[r].outdated \/ r \in ToSet(serial[k])) \in BOOLEAN
      OBVIOUS
    <3> QED BY <3>1, <3>2 DEF AskState
  <2> HIDE DEF n, m
  <2>4. /\ closer' \in [Closers -> CloserState] /\ closer'[c] = n
        /\ \A d \in Closers : d # c => closer'[d] = closer[d]
    BY <1>0, <2>1, <2>2
  <2>5. /\ ask' \in [Asks -> AskState]
        /\ \A r \in Asks : /\ ask'[r].at = ask[r].at /\ ask'[r].gen = ask[r].gen
                           /\ ask'[r].outdated <=> ask[r].outdated \/ r \in ToSet(serial[k])
    BY <2>1, <2>3
  <2>6. /\ bumped \in [BrowserKeys -> Nat] /\ bumped[k] = generations[k] + 1
        /\ \A j \in BrowserKeys : j # k => bumped[j] = generations[j]
    BY <1>0
  <2>7. /\ generations' \in [BrowserKeys -> Nat]
        /\ \A j \in BrowserKeys : generations'[j] = bumped[j] \/ serial'[j] = <<>>
    <3>1. CASE sessions[k] = NoAsk
      <4>1. CleanupGeneration(k, bumped)
        BY <1>15, <3>1 DEF CloseKey
      <4> HIDE DEF bumped
      <4> QED BY <2>6, <4>1, GenerationForgotten
    <3>2. CASE sessions[k] # NoAsk
      <4>1. generations' = bumped
        BY <1>15, <3>2 DEF CloseKey
      <4> QED BY <2>6, <4>1
    <3> QED BY <3>1, <3>2
  <2> HIDE DEF bumped
  <2>8. ASSUME NEW r \in Asks, r \in ToSet(serial[k])
        PROVE  AskKey[r] = k /\ ask[r].at # "new"
    <3>1. PICK i \in 1..Len(serial[k]) : r = serial[k][i]
      <4>1. serial[k] \in Seq(Asks)
        BY <1>0
      <4> QED BY <2>8, <4>1 DEF ToSet
    <3> QED BY <3>1 DEF BrokerInv, Queued
  <2>9. /\ sessions' \in [BrowserKeys -> Asks \cup {NoAsk}] /\ sessions'[k] = NoAsk
        /\ \A j \in BrowserKeys : j # k => sessions'[j] = sessions[j]
    BY <1>0, <2>1
  <2>10. BrokerTypes'
    BY <1>0, <2>1, <2>4, <2>5, <2>7, <2>9 DEF BrokerTypes
  <2>11. Queued'
    <3>1. \A r \in Asks : UnderWay(r)' <=> UnderWay(r)
      BY <2>5 DEF UnderWay
    <3>2. ASSUME NEW j \in BrowserKeys, NEW i \in 1..Len(serial[j])
          PROVE  AskKey[serial[j][i]] = j /\ ask'[serial[j][i]].at # "new"
      <4>1. serial[j][i] \in Asks
        BY <1>0, <3>2
      <4> QED BY <2>5, <4>1 DEF BrokerInv, Queued
    <3> QED BY <2>1, <2>5, <3>1, <3>2 DEF BrokerInv, Queued
  <2>12. Dated'
    <3>1. ASSUME NEW r \in Asks, UnderWay(r)'
          PROVE  /\ ask'[r].gen <= generations'[AskKey[r]]
                 /\ ask'[r].outdated => ask'[r].gen < generations'[AskKey[r]]
      <4>1. UnderWay(r)
        BY <2>5, <3>1 DEF UnderWay
      <4>2. PICK i \in 1..Len(serial[AskKey[r]]) : serial[AskKey[r]][i] = r
        BY <4>1 DEF BrokerInv, Queued
      <4>3. serial'[AskKey[r]] # <<>> /\ AskKey[r] \in BrowserKeys
        BY <1>0, <2>1, <4>2
      <4>4. generations'[AskKey[r]] = bumped[AskKey[r]]
        BY <2>7, <4>3
      <4>5. /\ ask[r].gen <= generations[AskKey[r]]
            /\ ask[r].outdated => ask[r].gen < generations[AskKey[r]]
            /\ ask[r].gen \in Nat /\ generations[AskKey[r]] \in Nat
        <5>1. ask[r].gen \in Nat
          BY <1>0 DEF AskState
        <5> QED BY <1>0, <4>1, <4>3, <5>1 DEF BrokerInv, Dated
      <4>6. CASE AskKey[r] = k
        <5>1. ask'[r].gen < generations'[AskKey[r]]
          BY <2>5, <2>6, <4>4, <4>5, <4>6
        <5> QED BY <2>5, <2>7, <4>3, <4>5, <5>1
      <4>7. CASE AskKey[r] # k
        BY <2>5, <2>6, <2>8, <4>3, <4>4, <4>5, <4>7
      <4> QED BY <4>6, <4>7
    <3>2. ASSUME NEW r \in Asks, ask'[r].at = "new" PROVE ~ask'[r].outdated
      <4>1. ask[r].at = "new" /\ ~ask[r].outdated
        BY <2>5, <3>2 DEF BrokerInv, Dated
      <4> QED BY <2>5, <2>8, <4>1
    <3> QED BY <3>1, <3>2 DEF Dated
  <2>13. Named'
    <3>1. ASSUME NEW r \in Asks, ask'[r].at = "creating" PROVE sessions'[AskKey[r]] = NoAsk
      <4>1. ask[r].at = "creating" /\ AskKey[r] \in BrowserKeys
        BY <1>0, <2>5, <3>1
      <4>2. sessions[AskKey[r]] = NoAsk
        BY <1>a, <4>1
      <4> QED BY <2>9, <4>1, <4>2
    <3>2. \A j \in BrowserKeys : sessions'[j] # NoAsk => AskKey[sessions'[j]] = j
      BY <1>a, <2>9
    <3> QED BY <3>1, <3>2 DEF Named
  <2>14. IdleClosers'
    BY <2>2, <2>4 DEF BrokerInv, IdleClosers
  <2>15. ASSUME NEW id \in live' PROVE Owned(id)'
    <3>1. id \in live /\ id \in Asks /\ id # NoAsk /\ Owned(id)
      BY <1>0, <1>a, <2>1
    <3>2. CASE \E j \in BrowserKeys : sessions[j] = id
      <4>1. PICK j \in BrowserKeys : sessions[j] = id
        BY <3>2
      <4>2. CASE j = k
        <5>1. closer'[c].at = id
          BY <2>2, <2>4, <4>1, <4>2
        <5> QED BY <5>1 DEF Owned
      <4>3. CASE j # k
        BY <2>9, <4>1, <4>3 DEF Owned
      <4> QED BY <4>2, <4>3
    <3>3. CASE ask[id].at \in {"creating", "cancelling"}
      BY <2>5, <3>1, <3>3 DEF Owned
    <3>4. CASE \E d \in Closers : id = closer[d].at \/ id \in closer[d].ids
      <4>1. PICK d \in Closers : id = closer[d].at \/ id \in closer[d].ids
        BY <3>4
      <4>2. id = closer'[d].at \/ id \in closer'[d].ids
        BY <2>1, <2>2, <2>4, <3>1, <4>1
      <4> QED BY <4>2 DEF Owned
    <3> QED BY <3>1, <3>2, <3>3, <3>4 DEF Owned
  <2>16. ASSUME NEW j \in BrowserKeys, sessions'[j] # NoAsk PROVE ~ask'[sessions'[j]].outdated
    <3>1. j # k /\ sessions'[j] = sessions[j]
      BY <2>9, <2>16
    <3>2. sessions[j] \in Asks /\ ~ask[sessions[j]].outdated /\ AskKey[sessions[j]] = j
      BY <1>0, <1>a, <2>16, <3>1
    <3>3. sessions[j] \notin ToSet(serial[k])
      BY <2>8, <3>1, <3>2
    <3> QED BY <2>5, <3>1, <3>2, <3>3
  <2>17. BrowserSessionsOwned'
    BY <2>15, <2>16 DEF BrowserSessionsOwned, Owned
  <2> QED BY <2>10, <2>11, <2>12, <2>13, <2>14, <2>17 DEF BrokerInv
<1> QED BY <1>2, <1>3, <1>7, <1>8, <1>9, <1>10, <1>11, <1>12, <1>13, <1>14, <1>15 DEF BrokerNext

\* The invariant of the browser broker.
LEMMA BrokerInductive == BrokerSpec => []BrokerInv
<1>1. BrokerInit => BrokerInv
  <2> SUFFICES ASSUME BrokerInit PROVE BrokerInv
    OBVIOUS
  <2>1. Idle \in CloserState /\ ~Idle.on /\ Idle.at = NoAsk /\ Idle.ids = {}
    BY DEF Idle, CloserState
  <2>2. closer \in [Closers -> CloserState] /\ \A c \in Closers : closer[c] = Idle
    BY <2>1 DEF BrokerInit
  <2>3. ask \in [Asks -> AskState] /\ \A q \in Asks : ask[q].at = "new" /\ ~ask[q].outdated
    <3>1. [at |-> "new", gen |-> 0, aborted |-> FALSE, outdated |-> FALSE] \in AskState
      BY DEF AskState
    <3> QED BY <3>1 DEF BrokerInit
  <2>4. <<>> \in Seq(Asks) /\ Len(<<>>) = 0
    OBVIOUS
  <2>5. BrokerTypes
    BY <2>2, <2>3, <2>4 DEF BrokerInit, BrokerTypes
  <2>6. Queued
    <3>1. \A q \in Asks : ask[q].at \notin {"queued"} \cup Executing
      BY <2>3 DEF Executing
    <3> QED BY <2>4, <3>1 DEF BrokerInit, Queued, UnderWay
  <2>7. Dated
    BY <2>3 DEF Dated, UnderWay, Executing
  <2>8. Named
    BY <2>3 DEF BrokerInit, Named
  <2>9. IdleClosers /\ BrowserSessionsOwned
    BY <2>1, <2>2 DEF BrokerInit, IdleClosers, BrowserSessionsOwned
  <2> QED BY <2>5, <2>6, <2>7, <2>8, <2>9 DEF BrokerInv
<1> QED BY <1>1, BrokerNextKeeps, PTL DEF BrokerSpec

\* A browser lives only while a key names it, its request makes or cancels it,
\* or a call closes it, and no key names the browser of a request that came
\* before the last close of the key.
THEOREM BrowsersAreOwned == BrokerSpec => []BrowserSessionsOwned
<1>1. BrokerInv => BrowserSessionsOwned
  BY DEF BrokerInv
<1> QED BY <1>1, BrokerInductive, PTL

\* What a session or an action opened is never used or left by another one.
THEOREM ToolsStayOwned == HostsSpec => []HostToolsOwned
<1>1. /\ BrowserSessionsOwned /\ ComputerToOneAction /\ ActsOnInspected
      /\ (PagesAllowed /\ RequestsOwned) /\ DebuggerHeld
      /\ PreparedIsThere
      => HostToolsOwned
  BY DEF HostToolsOwned
<1> QED BY <1>1, HostsAreComponents, BrowsersAreOwned, ComputerServesOneAction, ActionsReachTheirElement,
           PagesStayInside, DebuggerStaysHeld, PreparationsHold, PTL

\* The properties of the CLI process, the agent sessions and the tabs hold of
\* the components side by side.
THEOREM ComponentsKeepTheirs ==
  HostsSpec => [](TableOfCurrentChild /\ SessionsBounded /\ OneTabShown) /\ RunningTurnKept
BY HostsAreComponents, TableIsCurrent, SessionsStayBounded, TurnKeepsItsProcess, ViewsDoNotOverlap, PTL

-----------------------------------------------------------------------------
(* The types of what the components keep *)

\* The types of a termination, of a child whose output is bounded and of a guest
\* are conjuncts of their invariants.
THEOREM ChildrenTypeCorrect ==
  /\ TermSpec => []TermTypeOK
  /\ BoundedSpec => []BoundedTypeOK
  /\ GuestSpec => []GuestTypeOK
  /\ TabsSpec => []TabsTypeOK
  /\ RunnerSpec => []RunnerTypeOK
<1>1. /\ TermInv => TermTypeOK
      /\ BoundedInv => BoundedTypeOK
      /\ GuestInv => GuestTypeOK
      /\ TabsInv => TabsTypeOK
      /\ RunnerInv => RunnerTypeOK
  BY DEF TermInv, BoundedInv, GuestInv, TabsInv, RunnerInv
<1> QED BY <1>1, TermInductive, BoundedInductive, GuestInductive, TabsInductive, RunnerInductive, PTL

\* The packages of the virtual environment have versions that were asked for.
PythonTypes == venv \in {"none", "started", "ready"} /\ wheels \in [Wheels -> PyVersions \cup {NoVersion}]

\* Preparing, installing and failing keep the types of the Python runtime.
THEOREM PythonTypeCorrect == PythonSpec => []PythonTypeOK
<1>1. PythonInit => PythonTypes
  BY DEF PythonInit, PythonTypes
<1>2. ASSUME PythonTypes, [PythonNext]_pythonVars PROVE PythonTypes'
  <2>1. CASE UNCHANGED pythonVars
    BY <1>2, <2>1 DEF PythonTypes, pythonVars
  <2>2. ASSUME NEW r \in Preparations, Install(r) PROVE PythonTypes'
    <3>1. PICK w \in Invalid(r) : wheels' = [wheels EXCEPT ![w] = WheelsOf[r][w]]
      BY <2>2 DEF Install
    <3>2. WheelsOf[r][w] \in PyVersions
      BY RunnerAssumption DEF Invalid
    <3>3. venv' = venv
      BY <2>2 DEF Install
    <3> QED BY <1>2, <3>1, <3>2, <3>3 DEF PythonTypes
  <2>3. ASSUME NEW r \in Preparations,
               \/ Enter(r) \/ CreateVenv(r) \/ EnsurePip(r) \/ InstallFails(r)
               \/ Installed(r) \/ Verify(r) \/ Unlock(r) \/ KillPreparation(r)
        PROVE  PythonTypes'
    <3>1. wheels' = wheels /\ venv' \in {venv, "started", "ready"}
      BY <2>3 DEF Enter, CreateVenv, EnsurePip, InstallFails, Installed, Verify, Unlock, KillPreparation
    <3> QED BY <1>2, <3>1 DEF PythonTypes
  <2> QED BY <1>2, <2>1, <2>2, <2>3 DEF PythonNext
<1>3. PythonInv /\ PythonTypes => PythonTypeOK
  BY DEF PythonInv, PythonTypes, PythonTypeOK
<1> QED BY <1>1, <1>2, <1>3, PythonInductive, PTL DEF PythonSpec

\* A recording has no more intervals than it was started, the one that a frame
\* in flight will set included, and a known one is running.
Intervals ==
  /\ starts \in 0..MaxStarts /\ intervals \in Nat
  /\ handle \in {"none", "running", "cleared"}
  /\ handle = "running" => intervals > 0
  /\ starter = TRUE => inFlight = TRUE
  /\ intervals <= starts /\ (starter = TRUE => intervals < starts)
Flags == captureOpen \in BOOLEAN /\ starter \in BOOLEAN
Downloading ==
  /\ download \in [Downloads -> {"new", "directory", "waiting", "saving", "done", "failed"}]
  /\ pendingDownload \in Downloads \cup {NoDownload}

\* A frame that is asked for sets the interval of a start at most once.
LEMMA IntervalsStay ==
  ASSUME Intervals, inFlight \in BOOLEAN, NEW first \in BOOLEAN, NEW n \in Nat,
         NEW timer \in {"none", "running", "cleared"},
         CaptureFrame(first, n, timer),
         starts' \in 0..MaxStarts, starts' = starts + (IF first THEN 1 ELSE 0),
         n <= intervals, first => handle # "running" /\ timer = handle /\ n = intervals,
         timer = "running" => n > 0
  PROVE  Intervals'
<1>0. MaxStarts \in Nat /\ starts \in Nat /\ intervals \in Nat /\ Cleared \in Nat /\ Cleared <= intervals
  BY CaptureAssumption DEF Intervals, Cleared
<1>1. CASE frames >= MaxFrames
  <2>1. /\ inFlight' = inFlight /\ starter' = starter
        /\ intervals' = Cleared + (IF first THEN 1 ELSE 0)
        /\ handle' = IF first THEN "running" ELSE "none"
    BY <1>1 DEF CaptureFrame
  <2> QED BY <1>0, <2>1 DEF Intervals
<1>2. CASE ~(frames >= MaxFrames)
  <2>1. /\ inFlight' = TRUE /\ starter' = (IF inFlight THEN starter ELSE first)
        /\ intervals' = n + (IF first /\ inFlight THEN 1 ELSE 0)
        /\ handle' = IF first /\ inFlight THEN "running" ELSE timer
    BY <1>2 DEF CaptureFrame
  <2>2. CASE inFlight = TRUE
    <3>1. starter' = starter /\ intervals' = n + (IF first THEN 1 ELSE 0)
          /\ handle' = IF first THEN "running" ELSE timer
      BY <2>1, <2>2
    <3> QED BY <1>0, <2>1, <3>1 DEF Intervals
  <2>3. CASE inFlight = FALSE
    <3>1. starter' = first /\ intervals' = n /\ handle' = timer /\ starter = FALSE
      BY <2>1, <2>3 DEF Intervals
    <3> QED BY <1>0, <2>1, <3>1 DEF Intervals
  <2> QED BY <2>2, <2>3
<1> QED BY <1>1, <1>2

\* Starts, ticks, stops, frames and the end of a recording keep the intervals.
LEMMA IntervalsKept == ASSUME Intervals, Flags, FramesInv, [CaptureNext]_captureVars PROVE Intervals'
<1>0. /\ MaxStarts \in Nat /\ starts \in 0..MaxStarts /\ intervals \in Nat /\ inFlight \in BOOLEAN
      /\ handle \in {"none", "running", "cleared"} /\ starter \in BOOLEAN
      /\ Cleared \in Nat /\ Cleared <= intervals /\ (handle # "running" => Cleared = intervals)
  BY CaptureAssumption DEF Intervals, Flags, FramesInv, Cleared
<1>1. CASE UNCHANGED captureVars
  BY <1>1 DEF captureVars, Intervals
<1>2. CASE PendingTaken \/ \E d \in Downloads : Download(d) \/ ItemDone(d)
  <2>1. UNCHANGED <<captureOpen, recordingVars>>
    BY <1>2 DEF PendingTaken, Download, ItemDone
  <2> QED BY <2>1 DEF recordingVars, Intervals
<1>3. CASE StartRecording
  <2>1. starts' = starts + 1 /\ starts < MaxStarts /\ handle = "none" /\ captureOpen' = captureOpen
        /\ CaptureFrame(TRUE, intervals, handle)
    BY <1>3 DEF StartRecording
  <2>2. starts' \in 0..MaxStarts /\ starts' = starts + (IF TRUE THEN 1 ELSE 0)
    BY <1>0, <2>1
  <2>3. /\ intervals \in Nat /\ intervals <= intervals /\ handle # "running"
        /\ handle \in {"none", "running", "cleared"}
    BY <1>0, <2>1
  <2> QED BY <1>0, <2>1, <2>2, <2>3, IntervalsStay
<1>4. CASE Tick
  <2>1. starts' = starts /\ captureOpen' = captureOpen /\ CaptureFrame(FALSE, intervals, handle)
    BY <1>4 DEF Tick
  <2>2. starts' = starts + (IF FALSE THEN 1 ELSE 0) /\ starts' \in 0..MaxStarts
        /\ (handle = "running" => intervals > 0) /\ intervals <= intervals
    BY <1>0, <2>1 DEF Intervals
  <2> QED BY <1>0, <2>1, <2>2, IntervalsStay
<1>5. CASE StopRecording
  <2>1. starts' = starts /\ captureOpen' = captureOpen /\ CaptureFrame(FALSE, Cleared, "none")
    BY <1>5 DEF StopRecording
  <2>2. starts' = starts + 0
    BY <1>0, <2>1
  <2> QED BY <1>0, <2>1, <2>2, IntervalsStay
<1>6. CASE FrameCaptured
  <2>1. /\ captureOpen' = captureOpen /\ starts' = starts /\ inFlight' = FALSE /\ starter' = FALSE
        /\ \E ok \in BOOLEAN :
             /\ intervals' = (IF ok THEN intervals ELSE Cleared) + (IF starter THEN 1 ELSE 0)
             /\ handle' = IF starter THEN "running" ELSE IF ok THEN handle ELSE "none"
    BY <1>6 DEF FrameCaptured
  <2>2. PICK ok \in BOOLEAN :
             /\ intervals' = (IF ok THEN intervals ELSE Cleared) + (IF starter THEN 1 ELSE 0)
             /\ handle' = IF starter THEN "running" ELSE IF ok THEN handle ELSE "none"
    BY <2>1
  <2>3. PICK n \in Nat : n = (IF ok THEN intervals ELSE Cleared)
    BY <1>0
  <2>4. n <= intervals /\ (handle = "running" /\ ok => n > 0)
    BY <1>0, <2>3 DEF Intervals
  <2>5. CASE starter = TRUE
    <3>1. intervals' = n + 1
      BY <2>2, <2>3, <2>5
    <3>2. handle' = "running"
      BY <2>2, <2>5
    <3>3. intervals < starts
      BY <2>5 DEF Intervals
    <3> QED BY <1>0, <2>1, <2>4, <3>1, <3>2, <3>3 DEF Intervals
  <2>6. CASE starter = FALSE
    <3>1. intervals' = n + 0
      BY <2>2, <2>3, <2>6
    <3>2. handle' = (IF ok THEN handle ELSE "none")
      BY <2>2, <2>6
    <3>3. intervals <= starts
      BY DEF Intervals
    <3> QED BY <1>0, <2>1, <2>4, <3>1, <3>2, <3>3 DEF Intervals
  <2> QED BY <1>0, <2>5, <2>6
<1>7. CASE CloseCapture
  <2>1. /\ captureOpen' = FALSE /\ intervals' = Cleared /\ starts' = starts /\ UNCHANGED <<inFlight, starter>>
        /\ handle' = IF handle = "running" THEN "cleared" ELSE handle
    BY <1>7 DEF CloseCapture
  <2> QED BY <1>0, <2>1 DEF Intervals
<1> QED BY <1>1, <1>2, <1>3, <1>4, <1>5, <1>6, <1>7 DEF CaptureNext

\* Recordings and downloads keep their types.
THEOREM CaptureTypeCorrect == CaptureSpec => []CaptureTypeOK
<1>1. CaptureInit => Intervals /\ Flags /\ Downloading
  <2> SUFFICES ASSUME CaptureInit PROVE Intervals /\ Flags /\ Downloading
    OBVIOUS
  <2>1. 0 \in 0..MaxStarts /\ 0 \in Nat /\ 0 <= 0
    BY CaptureAssumption
  <2>2. Flags /\ Downloading
    BY DEF CaptureInit, Flags, Downloading
  <2>3. starts = 0 /\ intervals = 0 /\ handle = "none" /\ starter = FALSE
    BY DEF CaptureInit
  <2>4. Intervals
    BY <2>1, <2>3 DEF Intervals
  <2> QED BY <2>2, <2>4
<1>2. ASSUME Downloading, [CaptureNext]_captureVars PROVE Downloading'
  <2>1. CASE UNCHANGED <<download, pendingDownload>>
    BY <1>2, <2>1 DEF Downloading
  <2>2. CASE PendingTaken \/ CloseCapture \/ \E d \in Downloads : Download(d) \/ ItemDone(d)
    BY <1>2, <2>2 DEF PendingTaken, CloseCapture, Download, ItemDone, Downloading
  <2> QED BY <1>2, <2>1, <2>2 DEF CaptureNext, captureVars, StartRecording, Tick, StopRecording, FrameCaptured
<1>4. ASSUME Flags, FramesInv, [CaptureNext]_captureVars PROVE Flags'
  <2>0. starter \in BOOLEAN /\ captureOpen \in BOOLEAN /\ inFlight \in BOOLEAN
    BY <1>4 DEF Flags, FramesInv
  <2>1. ASSUME NEW first \in BOOLEAN, NEW n, NEW timer, CaptureFrame(first, n, timer) PROVE starter' \in BOOLEAN
    <3>1. starter' \in {starter, first}
      BY <2>1 DEF CaptureFrame
    <3> QED BY <2>0, <3>1
  <2>2. captureOpen' \in BOOLEAN
    BY <1>4, <2>0 DEF CaptureNext, captureVars, StartRecording, Tick, StopRecording, FrameCaptured,
                      PendingTaken, CloseCapture, Download, ItemDone
  <2>3. starter' \in BOOLEAN
    <3>1. CASE StartRecording
      BY <2>1, <3>1 DEF StartRecording
    <3>2. CASE Tick \/ StopRecording
      BY <2>1, <3>2 DEF Tick, StopRecording
    <3>3. CASE starter' = starter
      BY <2>0, <3>3
    <3>4. CASE FrameCaptured
      BY <3>4 DEF FrameCaptured
    <3> QED BY <1>4, <3>1, <3>2, <3>3, <3>4
            DEF CaptureNext, captureVars, recordingVars, PendingTaken, CloseCapture, Download, ItemDone
  <2> QED BY <2>2, <2>3 DEF Flags
<1>3. Intervals /\ Flags /\ Downloading /\ FramesInv => CaptureTypeOK
  <2> SUFFICES ASSUME Intervals, Flags, Downloading, FramesInv PROVE CaptureTypeOK
    OBVIOUS
  <2>1. MaxStarts \in Nat /\ intervals \in 0..MaxStarts
    BY CaptureAssumption DEF Intervals
  <2> QED BY <2>1 DEF Intervals, Flags, Downloading, FramesInv, CaptureTypeOK
<1> QED BY <1>1, <1>2, <1>3, <1>4, IntervalsKept, CaptureInductive, PTL DEF CaptureSpec

-----------------------------------------------------------------------------
ListenersOfSessions == listener \in SUBSET PageSessions

\* The handlers of the pages are those of a session.
LEMMA ListenersTyped == NavInit /\ [][NavNext]_navVars => []ListenersOfSessions
<1>1. NavInit => ListenersOfSessions
  BY DEF NavInit, ListenersOfSessions
<1>2. ASSUME ListenersOfSessions, [NavNext]_navVars PROVE ListenersOfSessions'
  BY <1>2 DEF ListenersOfSessions, NavNext, navVars, ClosePages, OpenPage, Arrives, FailsToLoad, RequestEnds,
              NavigateTo, PageNavigates, ServerRedirects, NavigateHistory
<1> QED BY <1>1, <1>2, PTL

DevFlags ==
  /\ attached \in BOOLEAN /\ pageEvents \in {"off", "asked", "on"}
  /\ dialog \in BOOLEAN /\ dialogKept \in BOOLEAN

\* The debugger is attached or not, and so on.
LEMMA DevFlagsTyped == DevInit /\ [][DevNext]_devVars => []DevFlags
<1>1. DevInit => DevFlags
  BY DEF DevInit, DevFlags
<1>2. ASSUME DevFlags, [DevNext]_devVars PROVE DevFlags'
  <2>1. CASE UNCHANGED devVars
    BY <1>2, <2>1 DEF devVars, DevFlags
  <2>2. ASSUME NEW d \in DevCommands, NEW w, Queue(d, w) \/ Run(d) \/ RunFails(d) PROVE DevFlags'
    BY <1>2, <2>2 DEF Queue, Run, RunFails, DevFlags
  <2>3. ASSUME NEW d \in DevCommands, NEW ok \in BOOLEAN, EndCommand(d, ok) PROVE DevFlags'
    BY <1>2, <2>3 DEF EndCommand, DevFlags
  <2>4. ASSUME NEW attaches, Press(attaches) PROVE DevFlags'
    BY <1>2, <2>4 DEF Press, DevFlags
  <2>5. CASE EventsEnabled \/ DialogOpens \/ UserAnswers \/ Detached
    BY <1>2, <2>5 DEF EventsEnabled, DialogOpens, UserAnswers, Detached, DevFlags
  <2> QED BY <1>2, <2>1, <2>2, <2>3, <2>4, <2>5 DEF DevNext
<1> QED BY <1>1, <1>2, PTL

FieldTypes ==
  control \in [Controls -> ControlState] /\ waiting \in 0 .. MaxWaits

\* The controls of a page stay controls, and a wait ends with its last poll.
LEMMA FieldsTyped == FieldInit /\ [][FieldNext]_fieldVars => []FieldTypes
<1>1. FieldInit => FieldTypes
  <2> SUFFICES ASSUME FieldInit PROVE FieldTypes
    OBVIOUS
  <2>1. control \in [Controls -> ControlState]
    BY DEF FieldInit
  <2>2. waiting \in 0 .. MaxWaits
    BY PagesAssumption DEF FieldInit
  <2> QED BY <2>1, <2>2 DEF FieldInit, FieldTypes
<1>2. ASSUME FieldTypes, [FieldNext]_fieldVars PROVE FieldTypes'
  <2>0. MaxWaits \in Nat \ {0} /\ waiting \in 0 .. MaxWaits /\ control \in [Controls -> ControlState]
    BY <1>2, PagesAssumption DEF FieldTypes
  <2>1. CASE UNCHANGED fieldVars
    BY <1>2, <2>1 DEF fieldVars, FieldTypes
  <2>2. ASSUME NEW x \in Controls, PageChanges(x) PROVE FieldTypes'
    <3>1. PICK c \in ControlState : control' = [control EXCEPT ![x] = c]
      BY <2>2 DEF PageChanges
    <3>2. control' \in [Controls -> ControlState]
      BY <2>0, <3>1
    <3> QED BY <1>2, <2>2, <3>2 DEF PageChanges, FieldTypes
  <2>4. ASSUME NEW x \in Controls, NEW action, TargetAction(x, action) PROVE FieldTypes'
    <3>1. control[x] \in ControlState
      BY <2>0
    <3>2. \A b \in BOOLEAN : [control[x] EXCEPT !.filled = b] \in ControlState
      BY <3>1 DEF ControlState
    <3>3. \E b \in BOOLEAN : control' = [control EXCEPT ![x] = [control[x] EXCEPT !.filled = b]]
      <4>1. control[x].filled \in BOOLEAN
        BY <3>1 DEF ControlState
      <4>2. PICK b : control' = [control EXCEPT ![x] = [control[x] EXCEPT !.filled = b]]
                     /\ b = CASE action = "clear" -> FALSE [] action = "click" -> control[x].filled
                              [] OTHER -> TRUE
        BY <2>4 DEF TargetAction
      <4>3. CASE action = "clear"
        BY <4>1, <4>2, <4>3
      <4>4. CASE action = "click"
        BY <4>1, <4>2, <4>4
      <4>5. CASE action \notin {"clear", "click"}
        BY <4>1, <4>2, <4>5
      <4> QED BY <4>3, <4>4, <4>5
    <3>4. control' \in [Controls -> ControlState]
      BY <2>0, <3>2, <3>3
    <3> QED BY <1>2, <2>4, <3>4 DEF TargetAction, FieldTypes
  <2>5. CASE WaitFor
    <3>1. waiting' = 1 /\ 1 \in 0 .. MaxWaits
      BY <2>0, <2>5 DEF WaitFor
    <3> QED BY <1>2, <2>5, <3>1 DEF WaitFor, FieldTypes
  <2>6. CASE WaitPolls
    <3>1. waiting' = 0 \/ (waiting' = waiting + 1 /\ waiting # MaxWaits)
      BY <2>6 DEF WaitPolls
    <3>2. waiting' \in 0 .. MaxWaits
      BY <2>0, <3>1
    <3> QED BY <1>2, <2>6, <3>2 DEF WaitPolls, FieldTypes
  <2> QED BY <1>2, <2>1, <2>2, <2>4, <2>5, <2>6 DEF FieldNext
<1> QED BY <1>1, <1>2, PTL

\* What the pages of a session, the debugger of one and its controls keep has its type.
THEOREM PagesTypeCorrect ==
  /\ NavInit /\ [][NavNext]_navVars
  /\ DevInit /\ [][DevNext]_devVars
  /\ FieldInit /\ [][FieldNext]_fieldVars
  => []PagesTypeOK
<1>1. NavInv /\ ListenersOfSessions /\ DevInv /\ DevFlags /\ FieldTypes => PagesTypeOK
  BY DEF NavInv, ListenersOfSessions, DevInv, DevFlags, FieldTypes, PagesTypeOK
<1> QED BY <1>1, NavInductive, ListenersTyped, DevInductive, DevFlagsTyped, FieldsTyped, PTL

-----------------------------------------------------------------------------
UseFlags ==
  /\ window \in {"none", "shown", "hidden"} /\ pressed \in BOOLEAN
  /\ brokerClosing \in {"no", "runtime", "closed"}

\* The overlay, the button and the directories of computer use have their types.
LEMMA UseFlagsTyped == UseSpec => []UseFlags
<1>1. UseInit => UseFlags
  BY DEF UseInit, UseFlags
<1>2. ASSUME UseFlags, [UseNext]_useVars PROVE UseFlags'
  <2>1. CASE UNCHANGED useVars
    BY <1>2, <2>1 DEF useVars, UseFlags
  <2>2. ASSUME Hide PROVE window' \in {window, "hidden"}
    BY <2>2 DEF Hide
  <2>3. CASE CloseBroker \/ DestroyOverlay
    BY <1>2, <2>2, <2>3 DEF CloseBroker, DestroyOverlay, UseFlags
  <2>4. ASSUME NEW u \in Uses, EnqueueUse(u) \/ TakeTurn(u) \/ SkipTurn(u) \/ AbortUse(u) PROVE UseFlags'
    BY <1>2, <2>2, <2>4 DEF EnqueueUse, TakeTurn, SkipTurn, AbortUse, UseFlags
  <2>5. ASSUME NEW u \in Uses, RunCommand(u) PROVE UseFlags'
    BY <1>2, <2>5 DEF RunCommand, UseFlags
  <2>6. ASSUME NEW u \in Uses, EndUse(u) PROVE UseFlags'
    BY <1>2, <2>2, <2>6 DEF EndUse, FinishUse, UseFlags
  <2> QED BY <1>2, <2>1, <2>3, <2>4, <2>5, <2>6 DEF UseNext
<1> QED BY <1>1, <1>2, PTL DEF UseSpec

\* What the broker of computer use keeps has its type.
THEOREM UseTypeCorrect == UseSpec => []UseTypeOK
<1>1. UseInv /\ UseFlags => UseTypeOK
  <2> SUFFICES ASSUME UseInv, UseFlags PROVE UseTypeOK
    OBVIOUS
  <2>3. folders \subseteq Uses
    BY DEF UseInv, FoldersOfRun
  <2> QED BY <2>3 DEF UseInv, UseTypes, UseState, UseFlags, UseTypeOK
<1> QED BY <1>1, UseInductive, UseFlagsTyped, PTL

-----------------------------------------------------------------------------
\* What the broker keeps of runs, and the generations, which are counted up to
\* the bound and forgotten.
BrokerKept ==
  /\ roots \subseteq BrowserKeys /\ policies \subseteq BRuns
  /\ sessionRuns \in [BrowserKeys -> BRuns \cup {NoRun}]
GensBounded == \A k \in BrowserKeys : generations[k] \in 0..MaxBGen
AsksBounded == \A q \in Asks : ask[q].gen \in 0..MaxBGen

\* Every step of the broker keeps the runs of its sessions.
LEMMA BrokerKeptStays == BrokerKept /\ [BrokerNext]_brokerVars => BrokerKept'
<1> SUFFICES ASSUME BrokerKept, [BrokerNext]_brokerVars PROVE BrokerKept'
  OBVIOUS
<1> USE DEF BrokerKept
<1>1. CASE UNCHANGED brokerVars
  BY <1>1 DEF brokerVars
<1>2. ASSUME NEW k \in BrowserKeys, NEW run \in BRuns, BindRun(k, run) PROVE BrokerKept'
  BY <1>2 DEF BindRun
<1>3. ASSUME NEW run \in BRuns, ClearRunPolicy(run) PROVE BrokerKept'
  BY <1>3 DEF ClearRunPolicy
<1>4. ASSUME NEW q \in Asks, Handle(q) PROVE BrokerKept'
  BY <1>4 DEF Handle, BrowserKeys
<1>5. ASSUME NEW q \in Asks, ExecuteAsk(q) \/ EnsureSession(q) \/ RunAction(q) \/ Abort(q) PROVE BrokerKept'
  <2>1. UNCHANGED <<roots, policies, sessionRuns>>
    BY <1>5 DEF ExecuteAsk, EnsureSession, RunAction, Abort
  <2> QED BY <2>1
<1>6. ASSUME NEW c \in Closers, BeginClosing(c) \/ CloseId(c) \/ CloseReturned(c) PROVE BrokerKept'
  <2>1. UNCHANGED <<roots, policies, sessionRuns>>
    BY <1>6 DEF BeginClosing, CloseId, CloseReturned
  <2> QED BY <2>1
<1>7. ASSUME NEW c \in Closers, EndClosing(c) PROVE BrokerKept'
  <2>1. \A k \in BrowserKeys : sessionRuns[k] \in BRuns \cup {NoRun}
    OBVIOUS
  <2>2. sessionRuns' \in [BrowserKeys -> BRuns \cup {NoRun}]
    BY <1>7, <2>1 DEF EndClosing
  <2> QED BY <1>7, <2>2 DEF EndClosing
<1>8. ASSUME NEW c \in Closers, NEW k \in BrowserKeys, CloseKey(c, k) PROVE BrokerKept'
  BY <1>8 DEF CloseKey
<1> QED BY <1>1, <1>2, <1>3, <1>4, <1>5, <1>6, <1>7, <1>8 DEF BrokerNext

\* Generations that are forgotten stay within the bound.
LEMMA GenerationsWithin ==
  ASSUME BrowserAssumption, NEW k \in BrowserKeys, NEW gens \in [BrowserKeys -> Nat],
         \A j \in BrowserKeys : gens[j] \in 0..MaxBGen, CleanupGeneration(k, gens)
  PROVE  GensBounded'
<1>0. 0 \in 0..MaxBGen
  BY DEF BrowserAssumption
<1>1. generations' = [gens EXCEPT ![k] = 0] \/ generations' = gens
  BY DEF CleanupGeneration
<1>2. ASSUME NEW j \in BrowserKeys, generations' = [gens EXCEPT ![k] = 0] PROVE generations'[j] \in 0..MaxBGen
  BY <1>0, <1>2
<1> QED BY <1>1, <1>2 DEF GensBounded

\* A generation begins below the bound, and a request sees one of them.
LEMMA GensBoundedStay ==
  BrokerInv /\ BrokerInv' /\ GensBounded /\ AsksBounded /\ [BrokerNext]_brokerVars => GensBounded' /\ AsksBounded'
<1> SUFFICES ASSUME BrokerInv, BrokerInv', GensBounded, AsksBounded, [BrokerNext]_brokerVars
             PROVE  GensBounded' /\ AsksBounded'
  OBVIOUS
<1>t. /\ generations \in [BrowserKeys -> Nat] /\ ask \in [Asks -> AskState]
      /\ generations' \in [BrowserKeys -> Nat] /\ ask' \in [Asks -> AskState]
  BY DEF BrokerInv, BrokerTypes
<1>k. \A q \in Asks : AskKey[q] \in BrowserKeys
  BY DEF BrowserKeys
<1>g. \A k \in BrowserKeys : generations[k] \in 0..MaxBGen
  BY DEF GensBounded
\* Steps that leave what the requests have seen, and the generations, alone.
<1>a. ASSUME \A q \in Asks : ask'[q].gen = ask[q].gen PROVE AsksBounded'
  BY <1>a DEF AsksBounded
<1>b. ASSUME generations' = generations PROVE GensBounded'
  BY <1>b DEF GensBounded
<1>c. ASSUME NEW q \in Asks, NEW how, Answer(q, how) PROVE GensBounded' /\ AsksBounded'
  <2>1. \A p \in Asks : ask'[p].gen = ask[p].gen
    <3>1. ask' = [ask EXCEPT ![q].at = how]
      BY <1>c DEF Answer
    <3> QED BY <1>t, <3>1 DEF AskState
  <2>2. CASE generations' = generations
    BY <1>a, <1>b, <2>1, <2>2
  <2>3. CASE CleanupGeneration(AskKey[q], generations)
    BY <1>a, <1>t, <1>k, <1>g, <2>1, <2>3, GenerationsWithin, BrowserAssumption
  <2> QED BY <1>c, <2>2, <2>3 DEF Answer
<1>1. CASE UNCHANGED brokerVars
  BY <1>1 DEF brokerVars, GensBounded, AsksBounded
<1>2. ASSUME NEW k \in BrowserKeys, NEW run \in BRuns, BindRun(k, run) PROVE GensBounded' /\ AsksBounded'
  BY <1>2, <1>a, <1>b DEF BindRun
<1>3. ASSUME NEW run \in BRuns, ClearRunPolicy(run) PROVE GensBounded' /\ AsksBounded'
  BY <1>3, <1>a, <1>b DEF ClearRunPolicy
<1>4. ASSUME NEW q \in Asks, Handle(q) PROVE GensBounded' /\ AsksBounded'
  <2>1. /\ ask' = [ask EXCEPT ![q].at = "queued", ![q].gen = generations[AskKey[q]]]
        /\ generations' = generations
    BY <1>4 DEF Handle
  <2>2. generations[AskKey[q]] \in 0..MaxBGen
    BY <1>k, <1>g
  <2>3. ask'[q].gen = generations[AskKey[q]] /\ \A p \in Asks : p # q => ask'[p] = ask[p]
    BY <1>t, <2>1 DEF AskState
  <2>4. \A p \in Asks : ask'[p].gen \in 0..MaxBGen
    BY <2>2, <2>3 DEF AsksBounded
  <2> QED BY <1>b, <2>1, <2>4 DEF AsksBounded
<1>5. ASSUME NEW q \in Asks, NEW where, ask' = [ask EXCEPT ![q].at = where], generations' = generations
      PROVE  GensBounded' /\ AsksBounded'
  BY <1>5, <1>a, <1>b, <1>t DEF AskState
<1>6. ASSUME NEW q \in Asks, ExecuteAsk(q) \/ EnsureSession(q) \/ RunAction(q) PROVE GensBounded' /\ AsksBounded'
  BY <1>6, <1>5, <1>c DEF ExecuteAsk, EnsureSession, RunAction
<1>7. ASSUME NEW q \in Asks, Abort(q) PROVE GensBounded' /\ AsksBounded'
  <2>1. ask' = [ask EXCEPT ![q].aborted = TRUE] /\ generations' = generations
    BY <1>7 DEF Abort
  <2> QED BY <2>1, <1>a, <1>b, <1>t DEF AskState
<1>8. ASSUME NEW c \in Closers, BeginClosing(c) \/ CloseId(c) \/ EndClosing(c) PROVE GensBounded' /\ AsksBounded'
  <2>1. ask' = ask /\ generations' = generations
    BY <1>8 DEF BeginClosing, CloseId, EndClosing
  <2> QED BY <2>1, <1>a, <1>b
<1>9. ASSUME NEW c \in Closers, CloseReturned(c) PROVE GensBounded' /\ AsksBounded'
  <2>1. ask' = ask
    BY <1>9 DEF CloseReturned
  <2>2. CASE generations' = generations
    BY <1>a, <1>b, <2>1, <2>2
  <2>3. CASE closer[c].key # NoAsk /\ CleanupGeneration(closer[c].key, generations)
    <3>1. closer[c].key \in BrowserKeys
      BY <2>3 DEF BrokerInv, BrokerTypes, CloserState
    <3> QED BY <1>a, <1>t, <1>g, <2>1, <2>3, <3>1, GenerationsWithin, BrowserAssumption
  <2> QED BY <1>9, <2>2, <2>3 DEF CloseReturned
<1>10. ASSUME NEW c \in Closers, NEW k \in BrowserKeys, CloseKey(c, k) PROVE GensBounded' /\ AsksBounded'
  <2> DEFINE bumped == [generations EXCEPT ![k] = generations[k] + 1]
  <2>1. /\ generations[k] < MaxBGen
        /\ ask' = [q \in Asks |-> [ask[q] EXCEPT !.outdated = ask[q].outdated \/ q \in ToSet(serial[k])]]
        /\ generations' = bumped \/ CleanupGeneration(k, bumped)
    BY <1>10 DEF CloseKey
  <2>2. \A q \in Asks : ask'[q].gen = ask[q].gen
    BY <1>t, <2>1 DEF AskState
  <2>3. bumped \in [BrowserKeys -> Nat]
    BY <1>t
  <2>4. \A j \in BrowserKeys : bumped[j] \in 0..MaxBGen
    BY <1>t, <1>g, <2>1, BrowserAssumption DEF BrowserAssumption
  <2>5. GensBounded'
    <3> HIDE DEF bumped
    <3>1. CASE generations' = bumped
      BY <2>4, <3>1 DEF GensBounded
    <3> QED BY <2>1, <2>3, <2>4, <3>1, GenerationsWithin, BrowserAssumption
  <2> QED BY <1>a, <2>2, <2>5
<1> QED BY <1>1, <1>2, <1>3, <1>4, <1>6, <1>7, <1>8, <1>9, <1>10 DEF BrokerNext

\* What the broker of the browsers keeps has its type.
THEOREM BrokerTypeCorrect == BrokerSpec => []BrokerTypeOK
<1>1. BrokerInit => BrokerKept /\ GensBounded /\ AsksBounded
  <2> SUFFICES ASSUME BrokerInit PROVE BrokerKept /\ GensBounded /\ AsksBounded
    OBVIOUS
  <2>1. BrokerKept
    BY DEF BrokerInit, BrokerKept
  <2>2. 0 \in 0..MaxBGen
    BY BrowserAssumption DEF BrowserAssumption
  <2> QED BY <2>1, <2>2 DEF BrokerInit, GensBounded, AsksBounded
<1>2. BrokerInv /\ BrokerKept /\ GensBounded /\ AsksBounded => BrokerTypeOK
  <2> SUFFICES ASSUME BrokerInv, BrokerKept, GensBounded, AsksBounded PROVE BrokerTypeOK
    OBVIOUS
  <2>t. BrokerTypes
    BY DEF BrokerInv
  <2>1. generations \in [BrowserKeys -> 0..MaxBGen]
    BY <2>t DEF BrokerTypes, GensBounded
  <2>2. ask \in [Asks -> [at : {"new", "queued"} \cup Executing \cup AskEnds,
                          gen : 0..MaxBGen, aborted : BOOLEAN, outdated : BOOLEAN]]
    <3>1. ask \in [Asks -> AskState]
      BY <2>t DEF BrokerTypes
    <3>2. \A q \in Asks : ask[q] \in [at : {"new", "queued"} \cup Executing \cup AskEnds,
                                      gen : 0..MaxBGen, aborted : BOOLEAN, outdated : BOOLEAN]
      BY <3>1 DEF AskState, AsksBounded
    <3> QED BY <3>1, <3>2
  <2>3. \A c \in Closers : closer[c].keys \subseteq BrowserKeys /\ closer[c].ids \subseteq Asks
    BY <2>t DEF BrokerTypes, CloserState
  <2> QED BY <2>t, <2>1, <2>2, <2>3 DEF BrokerTypes, BrokerKept, BrokerTypeOK
<1> QED BY <1>1, <1>2, BrokerInductive, BrokerKeptStays, GensBoundedStay, PTL DEF BrokerSpec

-----------------------------------------------------------------------------
\* An element is in the tree of its window once.
Once(seq) == seq \in Seq(Elements) /\ \A i, j \in 1..Len(seq) : seq[i] = seq[j] => i = j

\* A tree is no longer than there are elements.
LEMMA TreeWithinElements ==
  ASSUME UiAssumption, NEW seq, Once(seq)
  PROVE  Len(seq) \in Nat /\ Cardinality(Elements) \in Nat /\ Len(seq) <= Cardinality(Elements)
<1>1. Len(seq) \in Nat /\ seq \in [1..Len(seq) -> Elements]
  BY DEF Once
<1>2. seq \in Injection(1..Len(seq), Elements)
  BY <1>1 DEF Once, Injection, IsInjective
<1>3. IsFiniteSet(Elements)
  BY DEF UiAssumption
<1>4. Cardinality(1..Len(seq)) <= Cardinality(Elements)
  BY <1>2, <1>3, FS_Injection
<1>5. Cardinality(1..Len(seq)) = Len(seq)
  BY <1>1, FS_Interval
<1> QED BY <1>1, <1>3, <1>4, <1>5, FS_CardinalityType

\* The tree without one of its elements.
LEMMA OnceWithout ==
  ASSUME NEW seq, Once(seq), NEW i \in 1..Len(seq)
  PROVE  Once(SubSeq(seq, 1, i - 1) \o SubSeq(seq, i + 1, Len(seq)))
<1> DEFINE a == SubSeq(seq, 1, i - 1)
           b == SubSeq(seq, i + 1, Len(seq))
           n == Len(seq)
<1>1. n \in Nat /\ i \in 1..n /\ seq \in Seq(Elements)
  BY DEF Once
<1>2. a \in Seq(Elements) /\ Len(a) = i - 1 /\ \A j \in 1..i - 1 : a[j] = seq[j]
  BY <1>1
<1>3. b \in Seq(Elements) /\ Len(b) = n - i /\ \A j \in 1..n - i : b[j] = seq[i + j]
  BY <1>1
<1>4. /\ a \o b \in Seq(Elements) /\ Len(a \o b) = n - 1
      /\ \A j \in 1..n - 1 : (a \o b)[j] = IF j < i THEN seq[j] ELSE seq[j + 1]
  <2> HIDE DEF a, b
  <2>1. a \o b \in Seq(Elements) /\ Len(a \o b) = n - 1
    <3>1. a \o b \in Seq(Elements) /\ Len(a \o b) = Len(a) + Len(b)
      BY <1>2, <1>3, ConcatProperties
    <3>2. Len(a) + Len(b) = n - 1
      BY <1>1, <1>2, <1>3
    <3> QED BY <3>1, <3>2
  <2>2. ASSUME NEW j \in 1..n - 1 PROVE (a \o b)[j] = IF j < i THEN seq[j] ELSE seq[j + 1]
    <3>1. CASE j < i
      BY <1>1, <1>2, <1>3, <2>2, <3>1
    <3>2. CASE ~(j < i)
      <4>1. (a \o b)[j] = b[j - (i - 1)] /\ j - (i - 1) \in 1..n - i
        BY <1>1, <1>2, <1>3, <2>2, <3>2
      <4>2. b[j - (i - 1)] = seq[i + (j - (i - 1))] /\ i + (j - (i - 1)) = j + 1
        BY <1>1, <1>3, <4>1, <2>2
      <4> QED BY <3>2, <4>1, <4>2
    <3> QED BY <3>1, <3>2
  <2> QED BY <2>1, <2>2
<1> HIDE DEF a, b
<1>5. ASSUME NEW j \in 1..n - 1, NEW k \in 1..n - 1, (a \o b)[j] = (a \o b)[k] PROVE j = k
  <2>1. /\ (a \o b)[j] = IF j < i THEN seq[j] ELSE seq[j + 1]
        /\ (a \o b)[k] = IF k < i THEN seq[k] ELSE seq[k + 1]
    BY <1>4
  <2>2. \A p, q \in 1..n : seq[p] = seq[q] => p = q
    BY DEF Once
  <2>3. j \in 1..n /\ j + 1 \in 1..n /\ k \in 1..n /\ k + 1 \in 1..n
    BY <1>1
  <2>4. CASE j < i /\ k < i
    BY <1>5, <2>1, <2>2, <2>3, <2>4
  <2>5. CASE j < i /\ ~(k < i)
    <3>1. seq[j] = seq[k + 1]
      BY <1>5, <2>1, <2>5
    <3>2. j = k + 1
      BY <2>2, <2>3, <3>1
    <3> QED BY <1>1, <2>5, <3>2
  <2>6. CASE ~(j < i) /\ k < i
    <3>1. seq[j + 1] = seq[k]
      BY <1>5, <2>1, <2>6
    <3>2. j + 1 = k
      BY <2>2, <2>3, <3>1
    <3> QED BY <1>1, <2>6, <3>2
  <2>7. CASE ~(j < i) /\ ~(k < i)
    <3>1. seq[j + 1] = seq[k + 1]
      BY <1>5, <2>1, <2>7
    <3>2. j + 1 = k + 1
      BY <2>2, <2>3, <3>1
    <3> QED BY <1>1, <3>2
  <2> QED BY <2>4, <2>5, <2>6, <2>7
<1> QED BY <1>4, <1>5 DEF Once, a, b

\* The tree with another element before the others.
LEMMA OnceWith ==
  ASSUME NEW seq, Once(seq), NEW e \in Elements, \A i \in 1..Len(seq) : seq[i] # e
  PROVE  Once(<<e>> \o seq)
<1>1. Len(seq) \in Nat /\ seq \in Seq(Elements)
  BY DEF Once
<1>2. <<e>> \in Seq(Elements) /\ Len(<<e>>) = 1 /\ <<e>>[1] = e
  OBVIOUS
<1>3. /\ <<e>> \o seq \in Seq(Elements) /\ Len(<<e>> \o seq) = Len(seq) + 1
      /\ \A j \in 1..Len(seq) + 1 : (<<e>> \o seq)[j] = IF j = 1 THEN e ELSE seq[j - 1]
  BY <1>1, <1>2
<1>4. \A p, q \in 1..Len(seq) : seq[p] = seq[q] => p = q
  BY DEF Once
<1>5. ASSUME NEW j \in 1..Len(seq) + 1, NEW k \in 1..Len(seq) + 1, (<<e>> \o seq)[j] = (<<e>> \o seq)[k]
      PROVE  j = k
  BY <1>1, <1>3, <1>4, <1>5
<1> QED BY <1>3, <1>5 DEF Once

\* The window and what the script knows of it.
WindowKept ==
  /\ uiPlatform \in {"windows", "linux"} /\ Once(tree) /\ state \in [Elements -> UiStates]
  /\ known = [element |-> known.element, path |-> known.path]
  /\ known.element \in Elements /\ known.path \in 1..Cardinality(Elements)
  /\ keysDown \subseteq {"button", "modifier"} /\ moves \in 0..MaxWindow
UiBooleans == misdirected \in BOOLEAN

ActState == [kind : UiKinds, at : {"none", "find", "act", "check", "down", "up", "ok", "failed"},
             target : Elements, want : UiStates, tries : Nat]
ScriptKept == act \in ActState /\ act.tries <= Attempts

\* The application changes the tree and the states within their types.
LEMMA WindowKeptStays == UiBooleans /\ WindowKept /\ ScriptKept /\ [UiNext]_uiVars => WindowKept'
<1> SUFFICES ASSUME WindowKept, ScriptKept, [UiNext]_uiVars PROVE WindowKept'
  OBVIOUS
<1> DEFINE Seen == uiPlatform' = uiPlatform /\ tree' = tree /\ known' = known /\ moves' = moves
<1>0. MaxWindow \in Nat /\ moves \in 0..MaxWindow
  BY UiAssumption DEF UiAssumption, WindowKept
<1>1. ASSUME Seen, state' = state, keysDown' \subseteq {"button", "modifier"} PROVE WindowKept'
  BY <1>1 DEF WindowKept
<1>2. CASE UNCHANGED uiVars
  BY <1>1, <1>2 DEF uiVars, WindowKept
<1>3. CASE InspectWindow
  <2>1. PICK i \in DOMAIN tree : known' = [element |-> tree[i], path |-> i]
    BY <1>3 DEF InspectWindow
  <2>2. Len(tree) \in Nat /\ Cardinality(Elements) \in Nat /\ Len(tree) <= Cardinality(Elements)
    BY TreeWithinElements, UiAssumption DEF WindowKept
  <2>3. tree[i] \in Elements /\ i \in 1..Len(tree)
    BY DEF WindowKept, Once
  <2>4. i \in 1..Cardinality(Elements)
    BY <2>2, <2>3
  <2>5. UNCHANGED <<uiPlatform, tree, state, keysDown, moves>>
    BY <1>3 DEF InspectWindow
  <2> QED BY <2>1, <2>3, <2>4, <2>5 DEF WindowKept
<1>4. ASSUME NEW kind_, NEW want, StartAction(kind_, want) PROVE WindowKept'
  BY <1>1, <1>4 DEF StartAction, WindowKept
<1>5. CASE FindElement \/ Unmoved
  BY <1>1, <1>5 DEF FindElement, Unmoved, WindowKept
<1>6. ASSUME NEW e \in Elements, NEW values \in SUBSET UiStates, Told(e, values) PROVE WindowKept'
  <2>1. PICK v \in values \cup {state[e]} : state' = [state EXCEPT ![e] = v]
    BY <1>6 DEF Told
  <2>2. v \in UiStates /\ state \in [Elements -> UiStates]
    BY DEF WindowKept
  <2>3. state' \in [Elements -> UiStates]
    BY <2>1, <2>2
  <2>4. Seen /\ keysDown' = keysDown
    BY <1>6 DEF Told
  <2> QED BY <2>3, <2>4 DEF WindowKept
<1>7. /\ act.target \in Elements /\ {act.want} \in SUBSET UiStates
      /\ Toggled(state[act.target]) \in SUBSET UiStates
  BY DEF ScriptKept, ActState, Toggled, UiStates
<1>8. CASE InvokeElement
  BY <1>5, <1>6, <1>7, <1>8 DEF InvokeElement
<1>9. CASE SetToggleState
  BY <1>5, <1>6, <1>7, <1>9 DEF SetToggleState
<1>10. CASE SetExpandedState
  BY <1>5, <1>6, <1>7, <1>10 DEF SetExpandedState
<1>11. CASE SelectElement
  BY <1>5, <1>6, <1>7, <1>11 DEF SelectElement
<1>12. CASE Checked \/ WaitForState \/ ScriptKilled
  BY <1>5, <1>12 DEF Checked, WaitForState, ScriptKilled
<1>13. CASE SetElementValue
  BY <1>5, <1>6, <1>7, <1>13 DEF SetElementValue
<1>14. CASE Drag \/ Keypress
  BY <1>1, <1>14 DEF Drag, Keypress, WindowKept
<1>15. CASE WindowChanges
  <2>1. UNCHANGED <<uiPlatform, known, keysDown>>
    BY <1>15 DEF WindowChanges
  <2>2. ASSUME Once(tree'), moves < MaxWindow, moves' = moves + 1, state' = state PROVE WindowKept'
    <3>1. moves' \in 0..MaxWindow
      BY <1>0, <2>2
    <3> QED BY <2>1, <2>2, <3>1 DEF WindowKept
  <2>3. Once(tree) /\ Len(tree) \in Nat /\ DOMAIN tree = 1..Len(tree)
    BY DEF WindowKept, Once
  <2>4. ASSUME NEW i \in DOMAIN tree, tree' = SubSeq(tree, 1, i - 1) \o SubSeq(tree, i + 1, Len(tree))
        PROVE  Once(tree')
    <3>1. Once(SubSeq(tree, 1, i - 1) \o SubSeq(tree, i + 1, Len(tree)))
      BY <2>3, OnceWithout
    <3> QED BY <2>4, <3>1
  <2>5. ASSUME NEW e \in Elements \ InWindow, tree' = <<e>> \o tree PROVE Once(tree')
    <3>1. \A i \in 1..Len(tree) : tree[i] # e
      BY <2>3 DEF InWindow
    <3>2. Once(<<e>> \o tree)
      BY <2>3, <3>1, OnceWith
    <3> QED BY <2>5, <3>2
  <2>6. CASE \E e \in InWindow, v \in UiStates : state' = [state EXCEPT ![e] = v] /\ UNCHANGED <<tree, moves>>
    <3>1. PICK e \in InWindow, v \in UiStates : state' = [state EXCEPT ![e] = v]
      BY <2>6
    <3>2. state' \in [Elements -> UiStates] /\ tree' = tree /\ moves' = moves
      BY <2>6, <3>1 DEF WindowKept
    <3> QED BY <2>1, <3>2 DEF WindowKept
  <2>7. \/ Once(tree') /\ moves < MaxWindow /\ moves' = moves + 1 /\ state' = state
        \/ \E e \in InWindow, v \in UiStates : state' = [state EXCEPT ![e] = v] /\ UNCHANGED <<tree, moves>>
    BY <1>15, <2>4, <2>5 DEF WindowChanges
  <2>8. CASE Once(tree') /\ moves < MaxWindow /\ moves' = moves + 1 /\ state' = state
    BY <2>2, <2>8
  <2> QED BY <2>6, <2>7, <2>8
<1> QED BY <1>2, <1>3, <1>4, <1>5, <1>8, <1>9, <1>10, <1>11, <1>12, <1>13, <1>14, <1>15 DEF UiNext

\* A script goes on about an element, and tries no more often than it may.
LEMMA ScriptKeptStays == WindowKept /\ ScriptKept /\ [UiNext]_uiVars => ScriptKept'
<1> SUFFICES ASSUME WindowKept, ScriptKept, [UiNext]_uiVars PROVE ScriptKept'
  OBVIOUS
<1>0. /\ act \in ActState /\ act.tries <= Attempts /\ known.element \in Elements
      /\ Attempts \in {3, 4} /\ "on" \in UiStates /\ "read" \in UiKinds
  BY DEF WindowKept, ScriptKept, Attempts, UiStates, UiKinds
<1>1. uiPlatform' = uiPlatform /\ Attempts' = Attempts
  <2>1. uiPlatform' = uiPlatform
    BY DEF UiNext, uiVars, InspectWindow, StartAction, FindElement, InvokeElement, SetToggleState,
           SetExpandedState, SelectElement, Checked, SetElementValue, WaitForState, Drag, Keypress,
           ScriptKilled, WindowChanges, Told, Unmoved
  <2> QED BY <2>1 DEF Attempts
<1>2. ASSUME act' = act PROVE ScriptKept'
  BY <1>0, <1>1, <1>2 DEF ScriptKept
<1>3. ASSUME NEW where \in {"check", "up", "find", "ok", "failed"}, Goes(where) PROVE ScriptKept'
  <2>1. CASE where \in {"ok", "failed"}
    <3>1. act' = [kind |-> "read", at |-> where, target |-> known.element, want |-> "on", tries |-> 0]
      BY <1>3, <2>1 DEF Goes, Resting
    <3> QED BY <1>0, <1>1, <2>1, <3>1 DEF ScriptKept, ActState
  <2>2. CASE where \notin {"ok", "failed"}
    <3>1. act' = [act EXCEPT !.at = where]
      BY <1>3, <2>2 DEF Goes
    <3> QED BY <1>0, <1>1, <3>1 DEF ScriptKept, ActState
  <2> QED BY <2>1, <2>2
<1>4. CASE UNCHANGED uiVars \/ InspectWindow \/ WindowChanges
  BY <1>2, <1>4 DEF uiVars, InspectWindow, WindowChanges
<1>5. ASSUME NEW kind_ \in UiKinds, NEW want \in {"on", "off"}, StartAction(kind_, want) PROVE ScriptKept'
  <2>1. act' = [kind |-> kind_, at |-> IF kind_ = "keypress" THEN "down" ELSE "find",
                target |-> known.element, want |-> want, tries |-> 0]
    BY <1>5 DEF StartAction
  <2>2. want \in UiStates
    BY DEF UiStates
  <2> QED BY <1>0, <1>1, <2>1, <2>2 DEF ScriptKept, ActState
<1>6. CASE FindElement
  <2>1. ASSUME NEW e \in Elements,
               act' = [act EXCEPT !.target = e, !.at = IF act.kind = "drag" THEN "down" ELSE "act"]
        PROVE  ScriptKept'
    BY <1>0, <1>1, <2>1 DEF ScriptKept, ActState
  <2> QED BY <1>3, <1>6, <2>1 DEF FindElement
<1>7. CASE InvokeElement \/ SetExpandedState \/ SelectElement \/ Checked \/ SetElementValue \/ WaitForState
           \/ ScriptKilled
  BY <1>3, <1>7 DEF InvokeElement, SetExpandedState, SelectElement, Checked, SetElementValue, WaitForState,
                    ScriptKilled
<1>8. CASE Drag \/ Keypress
  BY <1>3, <1>8 DEF Drag, Keypress
<1>9. CASE SetToggleState
  <2>1. \/ Goes("ok") \/ Goes("failed")
        \/ act' = [act EXCEPT !.tries = act.tries + 1] /\ act.tries # Attempts
    BY <1>9 DEF SetToggleState
  <2>2. ASSUME act' = [act EXCEPT !.tries = act.tries + 1], act.tries # Attempts PROVE ScriptKept'
    <3>1. act.tries \in Nat /\ act.tries + 1 \in Nat /\ act.tries + 1 <= Attempts
      BY <1>0, <2>2 DEF ActState
    <3>2. act' \in ActState /\ act'.tries = act.tries + 1
      BY <1>0, <2>2, <3>1 DEF ActState
    <3> QED BY <1>1, <3>1, <3>2 DEF ScriptKept
  <2> QED BY <1>3, <2>1, <2>2
<1> QED BY <1>4, <1>5, <1>6, <1>7, <1>8, <1>9 DEF UiNext

\* Whether an action has gone astray is known.
LEMMA UiBooleansStay == UiBooleans /\ [UiNext]_uiVars => UiBooleans'
<1> SUFFICES ASSUME UiBooleans, [UiNext]_uiVars PROVE UiBooleans'
  OBVIOUS
<1>1. misdirected' = misdirected \/ \E e : misdirected' = (misdirected \/ e # known.element)
  BY DEF UiNext, uiVars, InspectWindow, StartAction, FindElement, InvokeElement, SetToggleState,
         SetExpandedState, SelectElement, Checked, SetElementValue, WaitForState, Drag, Keypress,
         ScriptKilled, WindowChanges, Told, Unmoved
<1> QED BY <1>1 DEF UiBooleans

\* What the scripts on the windows of other applications keep has its type.
THEOREM UiTypeCorrect == UiSpec => []UiTypeOK
<1>1. UiInit => WindowKept /\ ScriptKept /\ UiBooleans
  <2> SUFFICES ASSUME UiInit PROVE WindowKept /\ ScriptKept /\ UiBooleans
    OBVIOUS
  <2>1. PICK e \in Elements : tree = <<e>>
    BY DEF UiInit
  <2>2. tree \in Seq(Elements) /\ Len(tree) = 1 /\ tree[1] = e
    BY <2>1
  <2>3. Once(tree)
    BY <2>2 DEF Once
  <2>4. 1 \in 1..Cardinality(Elements)
    BY <2>2, <2>3, TreeWithinElements, UiAssumption
  <2>5. "off" \in UiStates /\ "on" \in UiStates /\ "read" \in UiKinds /\ Attempts \in {3, 4}
    BY DEF UiStates, UiKinds, Attempts
  <2>6. 0 \in 0..MaxWindow
    BY UiAssumption DEF UiAssumption
  <2>7. WindowKept
    BY <2>2, <2>3, <2>4, <2>5, <2>6 DEF UiInit, WindowKept
  <2>8. act = [kind |-> "read", at |-> "none", target |-> e, want |-> "on", tries |-> 0]
    BY <2>2 DEF UiInit
  <2>9. ScriptKept
    BY <2>5, <2>8 DEF ScriptKept, ActState
  <2> QED BY <2>7, <2>9 DEF UiInit, UiBooleans
<1>2. WindowKept /\ ScriptKept /\ UiBooleans => UiTypeOK
  <2> SUFFICES ASSUME WindowKept, ScriptKept, UiBooleans PROVE UiTypeOK
    OBVIOUS
  <2>1. tree \in Seq(Elements) /\ Len(tree) <= Cardinality(Elements)
    BY TreeWithinElements, UiAssumption DEF WindowKept, Once
  <2>2. act.tries \in 0..4
    BY DEF ScriptKept, ActState, Attempts
  <2> QED BY <2>1, <2>2 DEF WindowKept, ScriptKept, ActState, UiBooleans, UiTypeOK
<1> QED BY <1>1, <1>2, WindowKeptStays, ScriptKeptStays, UiBooleansStay, PTL DEF UiSpec

-----------------------------------------------------------------------------
\* Every variable of a host keeps its type, whatever the components do side by side.
THEOREM HostsTypeCorrect == HostsSpec => []HostsTypeOK
BY HostsAreComponents, CliTypeCorrect, SessTypeCorrect, ChildrenTypeCorrect, PythonTypeCorrect,
   CaptureTypeCorrect, PagesTypeCorrect, UseTypeCorrect, UiTypeCorrect, BrokerTypeCorrect, PTL DEF HostsTypeOK
=============================================================================
