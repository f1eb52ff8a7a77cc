---------------------------- MODULE CallsProofs -----------------------------
(*****************************************************************************)
(* What is asked for once is done once: proofs about the runs of automations *)
(* and their schedules, the requests and approvals of the host, the remote   *)
(* link, the commands of the CLI, and the loads of the cache.                *)
(*****************************************************************************)
EXTENDS AutomationRuns, HostRequests, RemoteLink, Commands, AppLifecycle, FiniteSetTheorems,
        SequenceTheorems, WellFoundedInduction, TLAPS

-----------------------------------------------------------------------------
(* Runs of automations *)

\* An execution has the reservation of its automation, of which there is room for
\* MaxAtOnce, and has it alone.
RunsInv ==
  /\ running \subseteq Autos /\ IsFiniteSet(running) /\ Cardinality(running) <= MaxAtOnce
  /\ runOf \in [Runs -> Autos \cup {NoAuto}] /\ DOMAIN exec = Runs
  /\ \A r \in Runs : Executing1(r) => runOf[r] \in running
  /\ \A r, s \in Runs : Executing1(r) /\ Executing1(s) /\ runOf[r] = runOf[s] => r = s

\* The executions are no more than the reservations.
LEMMA ExecutionsReserved ==
  ASSUME AutomationAssumption, RunsInv
  PROVE  RunsExclusive
<1> DEFINE E == {r \in Runs : Executing1(r)}
           f == [r \in E |-> runOf[r]]
<1>1. f \in Injection(E, running)
  BY DEF RunsInv, Injection, IsInjective
<1>2. IsFiniteSet(E) /\ Cardinality(E) <= Cardinality(running)
  BY <1>1, FS_Injection DEF RunsInv
<1>3. Cardinality(E) \in Nat /\ Cardinality(running) \in Nat /\ MaxAtOnce \in Nat
  BY <1>2, FS_CardinalityType DEF RunsInv, AutomationAssumption
<1>4. Cardinality(E) <= MaxAtOnce
  BY <1>2, <1>3 DEF RunsInv
<1> QED BY <1>4 DEF RunsExclusive, RunsInv

\* The first run that is new is one.
LEMMA FirstIsOne ==
  ASSUME AutomationAssumption, NEW r \in First(1), NEW s \in First(1)
  PROVE  r = s
<1>1. \A q, t \in First(1) : ~(q < t)
  <2> SUFFICES ASSUME NEW q \in First(1), NEW t \in First(1), q < t PROVE FALSE
    OBVIOUS
  <2> DEFINE B == {p \in New : p < t}
  <2>1. B \subseteq 0..t /\ t \in Nat
    BY DEF First, New, AutomationAssumption
  <2>2. IsFiniteSet(B)
    <3>1. IsFiniteSet(0..t)
      BY <2>1, FS_Interval
    <3> QED BY <2>1, <3>1, FS_Subset
  <2>3. q \in B /\ Cardinality(B) < 1
    BY DEF First
  <2>4. Cardinality(B) \in Nat
    BY <2>2, FS_CardinalityType
  <2>5. Cardinality(B) = 0
    BY <2>3, <2>4
  <2> QED BY <2>2, <2>3, <2>5, FS_EmptySet
<1>2. r \in Nat /\ s \in Nat
  BY DEF First, New, AutomationAssumption
<1> QED BY <1>1, <1>2

\* What is reserved at the beginning of executeRun.
LEMMA ReserveKeeps ==
  ASSUME AutomationAssumption, RunsInv, NEW D \in SUBSET Runs, NEW f \in [D -> Autos], Reserve(f),
         \A r, s \in D : f[r] = f[s] => r = s
  PROVE  RunsInv'
<1> DEFINE T == {f[r] : r \in D}
<1>1. DOMAIN f = D
  OBVIOUS
<1>2. IsFiniteSet(D) /\ D \subseteq Runs
  BY FS_Subset DEF AutomationAssumption
<1>3. f \in Surjection(D, T)
  BY DEF Surjection
<1>4. IsFiniteSet(T) /\ Cardinality(T) <= Cardinality(D)
  BY <1>2, <1>3, FS_Surjection
<1>5. running' = running \cup T
  BY <1>1 DEF Reserve
<1>6. T \cap running = {}
  BY <1>1 DEF Reserve
<1>7. IsFiniteSet(running') /\ Cardinality(running') = Cardinality(running) + Cardinality(T) - Cardinality(running \cap T)
  BY <1>4, <1>5, FS_Union DEF RunsInv
<1>8. Cardinality(running \cap T) = 0
  BY <1>6, FS_EmptySet
<1>9. /\ Cardinality(running) \in Nat /\ Cardinality(T) \in Nat /\ Cardinality(D) \in Nat /\ MaxAtOnce \in Nat
  BY <1>2, <1>4, FS_CardinalityType DEF RunsInv, AutomationAssumption
<1>10. Cardinality(running) + Cardinality(D) <= MaxAtOnce
  BY <1>1 DEF Reserve
<1>11. Cardinality(running') <= MaxAtOnce
  BY <1>4, <1>7, <1>8, <1>9, <1>10
<1>12. \A r \in Runs : runOf'[r] = IF r \in D THEN f[r] ELSE runOf[r]
  BY <1>1 DEF Reserve
<1>13. \A r \in Runs : exec'[r] = IF r \in D THEN "reading" ELSE exec[r]
  BY <1>1 DEF Reserve
<1>14. runOf' \in [Runs -> Autos \cup {NoAuto}] /\ DOMAIN exec' = Runs
  BY <1>1 DEF Reserve, RunsInv
<1>15. \A r \in Runs : Executing1(r)' => r \in D \/ (Executing1(r) /\ runOf'[r] = runOf[r])
  BY <1>12, <1>13 DEF Executing1
<1>16. \A r \in Runs : Executing1(r)' => runOf'[r] \in running'
  BY <1>5, <1>12, <1>15 DEF RunsInv
<1>17. \A r, s \in Runs : Executing1(r)' /\ Executing1(s)' /\ runOf'[r] = runOf'[s] => r = s
  <2> SUFFICES ASSUME NEW r \in Runs, NEW s \in Runs, Executing1(r)', Executing1(s)', runOf'[r] = runOf'[s]
               PROVE  r = s
    OBVIOUS
  <2>1. CASE r \in D /\ s \in D
    BY <2>1, <1>12
  <2>2. CASE r \in D /\ s \notin D
    <3>1. f[r] \in T /\ runOf[s] \in running /\ f[r] = runOf[s]
      BY <2>2, <1>12, <1>15 DEF RunsInv
    <3> QED BY <3>1, <1>6
  <2>3. CASE r \notin D /\ s \in D
    <3>1. f[s] \in T /\ runOf[r] \in running /\ f[s] = runOf[r]
      BY <2>3, <1>12, <1>15 DEF RunsInv
    <3> QED BY <3>1, <1>6
  <2>4. CASE r \notin D /\ s \notin D
    BY <2>4, <1>12, <1>15 DEF RunsInv
  <2> QED BY <2>1, <2>2, <2>3, <2>4
<1>18. running' \subseteq Autos
  BY <1>5 DEF RunsInv
<1> QED BY <1>7, <1>11, <1>14, <1>16, <1>17, <1>18 DEF RunsInv

\* The end of a run gives up a reservation that nobody else has.
LEMMA ReleaseKeeps ==
  ASSUME AutomationAssumption, RunsInv, NEW r \in Runs, Executing1(r), UNCHANGED runOf,
         running' = running \ {runOf[r]}, NEW where \in {"recording", "done"}, To(r, where)
  PROVE  RunsInv'
<1>1. \A q \in Runs : exec'[q] = IF q = r THEN where ELSE exec[q]
  BY DEF To, RunsInv
<1>2. \A q \in Runs : Executing1(q)' => Executing1(q) /\ q # r
  BY <1>1 DEF Executing1
<1>3. IsFiniteSet(running') /\ Cardinality(running') <= Cardinality(running)
  BY FS_Subset DEF RunsInv
<1>4. Cardinality(running') \in Nat /\ Cardinality(running) \in Nat /\ MaxAtOnce \in Nat
  BY <1>3, FS_CardinalityType DEF RunsInv, AutomationAssumption
<1>5. Cardinality(running') <= MaxAtOnce
  BY <1>3, <1>4 DEF RunsInv
<1>6. DOMAIN exec' = Runs /\ running' \subseteq Autos
  BY DEF To, RunsInv
<1>7. \A q \in Runs : Executing1(q)' => runOf'[q] \in running'
  BY <1>2 DEF RunsInv
<1>8. \A q, s \in Runs : Executing1(q)' /\ Executing1(s)' /\ runOf'[q] = runOf'[s] => q = s
  BY <1>2 DEF RunsInv
<1> QED BY <1>3, <1>5, <1>6, <1>7, <1>8 DEF RunsInv

\* A step of an execution that goes on changes no reservation.
LEMMA GoesOnKeeps ==
  ASSUME RunsInv, UNCHANGED <<running, runOf>>, DOMAIN exec' = Runs,
         \A q \in Runs : Executing1(q)' => Executing1(q)
  PROVE  RunsInv'
BY DEF RunsInv

\* Each step of the service keeps it.
LEMMA RunsNextKeeps == AutomationAssumption /\ RunsInv /\ [AutoNext]_autoVars => RunsInv'
<1> SUFFICES ASSUME AutomationAssumption, RunsInv, [AutoNext]_autoVars PROVE RunsInv'
  OBVIOUS
<1>0. CASE UNCHANGED <<running, runOf, exec>>
  BY <1>0, GoesOnKeeps DEF RunsInv, Executing1
<1>1. CASE RunDue
  <2>1. PICK startable \in SUBSET (Autos \ running), n \in 1..Cardinality(New) :
          \E f \in [First(n) -> startable] :
            /\ \A r, s \in First(n) : f[r] = f[s] => r = s
            /\ Reserve(f)
    BY <1>1 DEF RunDue
  <2>2. PICK f \in [First(n) -> startable] :
            /\ \A r, s \in First(n) : f[r] = f[s] => r = s
            /\ Reserve(f)
    BY <2>1
  <2>3. First(n) \in SUBSET Runs /\ f \in [First(n) -> Autos]
    BY DEF First, New
  <2> QED BY <2>2, <2>3, ReserveKeeps
<1>2. ASSUME NEW a \in Autos, RunNow(a) PROVE RunsInv'
  <2> DEFINE f == [r \in First(1) |-> a]
  <2>1. First(1) \in SUBSET Runs /\ f \in [First(1) -> Autos]
    BY DEF First, New
  <2>2. \A r, s \in First(1) : f[r] = f[s] => r = s
    BY FirstIsOne
  <2>3. Reserve(f)
    BY <1>2 DEF RunNow
  <2> HIDE DEF f
  <2> QED BY <2>1, <2>2, <2>3, ReserveKeeps
<1>3. CASE Restart
  <2>1. running' = {} /\ runOf' = runOf /\ DOMAIN exec' = Runs /\ \A r \in Runs : exec'[r] \in {"new", "done"}
    BY <1>3 DEF Restart
  <2>2. \A r \in Runs : ~Executing1(r)'
    BY <2>1 DEF Executing1
  <2>3. IsFiniteSet(running') /\ Cardinality(running') = 0 /\ MaxAtOnce \in Nat
    BY <2>1, FS_EmptySet DEF AutomationAssumption
  <2> QED BY <2>1, <2>2, <2>3 DEF RunsInv
<1>4. ASSUME NEW r \in Runs, PrepareAttempt(r) PROVE RunsInv'
  <2>1. CASE To(r, "starting") /\ running' = running \cup {runOf[r]} /\ exec[r] = "reading"
    <3>1. Executing1(r)
      BY <2>1 DEF Executing1
    <3>2. running' = running
      BY <2>1, <3>1 DEF RunsInv
    <3> QED BY <1>4, <2>1, <3>1, <3>2, GoesOnKeeps DEF PrepareAttempt, To, Executing1, RunsInv
  <2>2. CASE To(r, "done") /\ running' = running \ {runOf[r]} /\ exec[r] = "reading"
    <3>1. Executing1(r)
      BY <2>2 DEF Executing1
    <3> QED BY <1>4, <2>2, <3>1, ReleaseKeeps DEF PrepareAttempt
  <2>3. CASE exec[r] = "starting" /\ To(r, "working") /\ UNCHANGED running
    BY <1>4, <2>3, GoesOnKeeps DEF PrepareAttempt, To, Executing1, RunsInv
  <2> QED BY <1>4, <2>1, <2>2, <2>3 DEF PrepareAttempt
<1>5. ASSUME NEW r \in Runs, EndAttempt(r) \/ TimeOut(r) \/ Retry(r) PROVE RunsInv'
  <2>1. exec[r] \in {"working", "teardown", "backoff"} /\ UNCHANGED <<running, runOf>>
    BY <1>5 DEF EndAttempt, TimeOut, Retry
  <2>2. \E where \in {"backoff", "clearing", "teardown", "starting"} : To(r, where)
    BY <1>5 DEF EndAttempt, TimeOut, Retry, Conclude
  <2> QED BY <2>1, <2>2, GoesOnKeeps DEF To, Executing1, RunsInv
<1>6. ASSUME NEW r \in Runs, Finish(r) PROVE RunsInv'
  <2>1. CASE exec[r] = "clearing" /\ running' = running \ {runOf[r]} /\ To(r, "recording")
    <3>1. Executing1(r)
      BY <2>1 DEF Executing1
    <3> QED BY <1>6, <2>1, <3>1, ReleaseKeeps DEF Finish
  <2>2. CASE exec[r] = "recording" /\ To(r, "done") /\ UNCHANGED running
    BY <1>6, <2>2, GoesOnKeeps DEF Finish, To, Executing1, RunsInv
  <2> QED BY <1>6, <2>1, <2>2 DEF Finish
<1>7. CASE EndScan \/ RecoverInterruptedRuns \/ UNCHANGED autoVars
  BY <1>0, <1>7 DEF EndScan, RecoverInterruptedRuns, autoVars
<1>8. ASSUME NEW r \in Runs, Work(r) \/ RequestApproval(r) \/ RespondApproval(r) \/ CancelRun(r) \/ Review(r) PROVE RunsInv'
  BY <1>0, <1>8 DEF Work, RequestApproval, RespondApproval, CancelRun, Review
<1> QED BY <1>1, <1>2, <1>3, <1>4, <1>5, <1>6, <1>7, <1>8 DEF AutoNext

\* Every execution has its reservation, alone.
LEMMA ReservationsKept == AutoSpec => []RunsInv
<1>1. AutoInit /\ AutomationAssumption => RunsInv
  BY FS_EmptySet DEF AutoInit, RunsInv, AutomationAssumption, Executing1
<1> QED BY <1>1, RunsNextKeeps, AutomationAssumption, PTL DEF AutoSpec

\* An automation has one execution at a time, and the executions never exceed the limit.
THEOREM RunsStayExclusive == AutoSpec => []RunsExclusive
BY ReservationsKept, ExecutionsReserved, AutomationAssumption, PTL

\* An execution that has yet to begin an attempt may make one.
AutoTyped ==
  /\ AutoTypeOK
  /\ \A r \in Runs : /\ exec[r] \in {"new", "reading"} => attempt[r] = 0
                     /\ exec[r] \in {"starting", "backoff"} => attempt[r] <= RetriesOf[r]

\* What Reserve gives the runs, as types.
LEMMA ReserveTyped ==
  ASSUME AutoTyped, NEW D \in SUBSET New, NEW f \in [D -> Autos], Reserve(f), UNCHANGED attempt
  PROVE  /\ running' \subseteq Autos /\ runOf' \in [Runs -> Autos \cup {NoAuto}]
         /\ exec' \in [Runs -> {"new", "reading", "starting", "working", "teardown",
                                "backoff", "clearing", "recording", "done"}]
         /\ \A r \in Runs : /\ exec'[r] \in {"new", "reading"} => attempt'[r] = 0
                            /\ exec'[r] \in {"starting", "backoff"} => attempt'[r] <= RetriesOf[r]
<1>1. DOMAIN f = D /\ \A r \in D : f[r] \in Autos /\ r \in Runs /\ exec[r] = "new"
  BY DEF New
<1> QED BY <1>1 DEF Reserve, AutoTyped, AutoTypeOK

\* Each step of the service keeps the types.
LEMMA AutoTypedKeeps == AutoTyped /\ RunsInv /\ [AutoNext]_autoVars => AutoTyped'
<1> SUFFICES ASSUME AutoTyped, RunsInv, [AutoNext]_autoVars PROVE AutoTyped'
  OBVIOUS
<1>a. MaxCalls \in Nat /\ RetriesOf \in [Runs -> Nat]
  BY AutomationAssumption DEF AutomationAssumption
<1>0. CASE UNCHANGED autoVars
  BY <1>0 DEF autoVars, AutoTyped, AutoTypeOK
<1>1. CASE RunDue
  <2>1. PICK startable \in SUBSET (Autos \ running), n \in 1..Cardinality(New) :
          /\ \E f \in [First(n) -> startable] : Reserve(f)
          /\ scanned' = First(n)
    BY <1>1 DEF RunDue
  <2>2. PICK f \in [First(n) -> startable] : Reserve(f)
    BY <2>1
  <2>3. First(n) \in SUBSET New /\ f \in [First(n) -> Autos] /\ First(n) \subseteq Runs
    BY DEF First, New
  <2>4. UNCHANGED <<attempt, work, aborted, status, approval, cancel, recovering, calls>>
    BY <1>1 DEF RunDue
  <2> HIDE DEF AutoTyped
  <2>5. /\ running' \subseteq Autos /\ runOf' \in [Runs -> Autos \cup {NoAuto}]
        /\ exec' \in [Runs -> {"new", "reading", "starting", "working", "teardown",
                                "backoff", "clearing", "recording", "done"}]
        /\ \A r \in Runs : /\ exec'[r] \in {"new", "reading"} => attempt'[r] = 0
                           /\ exec'[r] \in {"starting", "backoff"} => attempt'[r] <= RetriesOf[r]
    BY <2>2, <2>3, <2>4, ReserveTyped
  <2> QED BY <2>1, <2>3, <2>4, <2>5 DEF AutoTyped, AutoTypeOK
<1>2. ASSUME NEW a \in Autos, RunNow(a) PROVE AutoTyped'
  <2> DEFINE f == [r \in First(1) |-> a]
  <2>1. First(1) \in SUBSET New /\ f \in [First(1) -> Autos]
    BY DEF First, New
  <2>2. Reserve(f) /\ UNCHANGED <<attempt, work, aborted, status, approval, cancel, scanned, recovering, calls>>
    BY <1>2 DEF RunNow
  <2> HIDE DEF f
  <2>5. /\ running' \subseteq Autos /\ runOf' \in [Runs -> Autos \cup {NoAuto}]
        /\ exec' \in [Runs -> {"new", "reading", "starting", "working", "teardown",
                                "backoff", "clearing", "recording", "done"}]
        /\ \A r \in Runs : /\ exec'[r] \in {"new", "reading"} => attempt'[r] = 0
                           /\ exec'[r] \in {"starting", "backoff"} => attempt'[r] <= RetriesOf[r]
    BY <2>1, <2>2, ReserveTyped
  <2> QED BY <2>2, <2>5 DEF AutoTyped, AutoTypeOK
<1>3. CASE Restart
  BY <1>a, <1>3 DEF Restart, UserCall, AutoTyped, AutoTypeOK
<1>4. ASSUME NEW r \in Runs, PrepareAttempt(r) PROVE AutoTyped'
  <2>1. CASE exec[r] = "reading"
    <3>1. runOf[r] \in Autos
      BY <2>1 DEF RunsInv, Executing1
    <3> QED BY <1>a, <1>4, <2>1, <3>1 DEF PrepareAttempt, To, AutoTyped, AutoTypeOK, RunStatuses
  <2>2. CASE exec[r] = "starting"
    BY <1>a, <1>4, <2>2 DEF PrepareAttempt, To, AutoTyped, AutoTypeOK, RunStatuses, Working
  <2> QED BY <1>4, <2>1, <2>2 DEF PrepareAttempt
<1>5. ASSUME NEW r \in Runs, EndAttempt(r) PROVE AutoTyped'
  BY <1>a, <1>5 DEF EndAttempt, Conclude, To, AutoTyped, AutoTypeOK, RunStatuses
<1>6. ASSUME NEW r \in Runs, TimeOut(r) PROVE AutoTyped'
  BY <1>6 DEF TimeOut, Conclude, To, AutoTyped, AutoTypeOK, RunStatuses
<1>7. ASSUME NEW r \in Runs, Retry(r) PROVE AutoTyped'
  BY <1>7 DEF Retry, To, AutoTyped, AutoTypeOK
<1>8. ASSUME NEW r \in Runs, Finish(r) PROVE AutoTyped'
  BY <1>a, <1>8 DEF Finish, To, AutoTyped, AutoTypeOK, Working
<1>9. CASE EndScan \/ RecoverInterruptedRuns
  BY <1>9 DEF EndScan, RecoverInterruptedRuns, AutoTyped, AutoTypeOK, RunStatuses
<1>10. ASSUME NEW r \in Runs, Work(r) PROVE AutoTyped'
  BY <1>10 DEF Work, Lost, AutoTyped, AutoTypeOK, Working
<1>11. ASSUME NEW r \in Runs, RequestApproval(r) \/ RespondApproval(r) PROVE AutoTyped'
  BY <1>a, <1>11 DEF RequestApproval, RespondApproval, UserCall, AutoTyped, AutoTypeOK, RunStatuses
<1>12. ASSUME NEW r \in Runs, CancelRun(r) \/ Review(r) PROVE AutoTyped'
  BY <1>a, <1>12 DEF CancelRun, Review, UserCall, AutoTyped, AutoTypeOK, RunStatuses
<1> QED BY <1>0, <1>1, <1>2, <1>3, <1>4, <1>5, <1>6, <1>7, <1>8, <1>9, <1>10, <1>11, <1>12 DEF AutoNext

\* The variables of the automation service keep their types, and no run makes more
\* attempts than its retries allow.
THEOREM AutoTypeCorrect == AutoSpec => []AutoTypeOK
<1>1. AutoInit => AutoTyped
  <2> SUFFICES ASSUME AutoInit PROVE AutoTyped
    OBVIOUS
  <2>1. \A r \in Runs : RetriesOf[r] \in Nat /\ attempt[r] = 0 /\ attempt[r] <= RetriesOf[r] /\ attempt[r] <= RetriesOf[r] + 1
    BY AutomationAssumption DEF AutomationAssumption, AutoInit
  <2>2. attempt \in [Runs -> Nat] /\ calls \in 0..MaxCalls
    BY AutomationAssumption DEF AutomationAssumption, AutoInit
  <2> QED BY <2>1, <2>2 DEF AutoInit, AutoTyped, AutoTypeOK, RunStatuses, Working
<1>2. AutoTyped => AutoTypeOK
  BY DEF AutoTyped
<1> QED BY <1>1, <1>2, AutoTypedKeeps, ReservationsKept, PTL DEF AutoSpec

\* The days and hours of a local time.
LEMMA DaysAndHours ==
  ASSUME NEW D \in Nat \ {0}
  PROVE  \A x \in Int : x \div D \in Int /\ x % D \in 0..D - 1 /\ x = (x \div D) * D + (x % D)
OBVIOUS

\* Products with the length of a day keep the order.
LEMMA ProductsOrdered ==
  ASSUME NEW D \in Nat \ {0}, NEW m \in Int, NEW n \in Int, m <= n
  PROVE  m * D \in Int /\ n * D \in Int /\ m * D <= n * D
OBVIOUS

\* The days that begin a day later.
LEMMA NextProduct ==
  ASSUME NEW D \in Nat \ {0}, NEW m \in Int
  PROVE  (m + 1) * D = m * D + D
OBVIOUS

-----------------------------------------------------------------------------
\* A zone changes by an hour at most.
LEMMA ZoneShift ==
  ASSUME zone \in Zones
  PROVE  /\ zone.change \in Int /\ zone.before \in Int /\ zone.after \in Int
         /\ zone.after = zone.before \/ zone.after = zone.before + 1 \/ zone.after = zone.before - 1
<1>1. /\ zone.change \in Int /\ zone.before \in Int /\ zone.after \in Int
      /\ zone.after - zone.before \in -1..1
  BY ScheduleAssumption DEF ScheduleAssumption
<1> QED BY <1>1

\* The clock of a zone, before and after the change.
LEMMA Clock ==
  ASSUME zone \in Zones, NEW t \in Int
  PROVE  /\ Offset(t) \in Int /\ Local(t) \in Int
         /\ t < zone.change => Offset(t) = zone.before /\ Local(t) = t + zone.before
         /\ t >= zone.change => Offset(t) = zone.after /\ Local(t) = t + zone.after
<1>1. zone.change \in Int /\ zone.before \in Int /\ zone.after \in Int
  BY ZoneShift
<1> QED BY <1>1 DEF Offset, Local

\* A local time as UTC is what the offset before, or after, the change makes of it.
LEMMA ToUtc ==
  ASSUME zone \in Zones, NEW x \in Int
  PROVE  /\ ZonedDateToUtc(x) \in Int
         /\ \/ ZonedDateToUtc(x) = x - zone.before /\ x - Offset(x) < zone.change
            \/ ZonedDateToUtc(x) = x - zone.after /\ x - Offset(x) >= zone.change
         /\ \/ x < zone.change /\ Offset(x) = zone.before
            \/ x >= zone.change /\ Offset(x) = zone.after
<1>1. zone.change \in Int /\ zone.before \in Int /\ zone.after \in Int
  BY ZoneShift
<1> DEFINE u == x - Offset(x)
<1>2. /\ Offset(x) \in Int
      /\ x < zone.change => Offset(x) = zone.before
      /\ x >= zone.change => Offset(x) = zone.after
  BY Clock
<1>3. u \in Int
  BY <1>2
<1>4. u < zone.change => Offset(u) = zone.before
  BY <1>3, Clock
<1>5. u >= zone.change => Offset(u) = zone.after
  BY <1>3, Clock
<1>6. ZonedDateToUtc(x) = x - Offset(u)
  BY DEF ZonedDateToUtc
<1> HIDE DEF u
<1>7. /\ ZonedDateToUtc(x) \in Int
      /\ \/ ZonedDateToUtc(x) = x - zone.before /\ u < zone.change
         \/ ZonedDateToUtc(x) = x - zone.after /\ u >= zone.change
  BY <1>1, <1>3, <1>4, <1>5, <1>6
<1> QED BY <1>1, <1>2, <1>7 DEF u

\* A local time that is not skipped is found, another one is missed by an hour.
LEMMA UtcFound ==
  ASSUME zone \in Zones, NEW x \in Int
  PROVE  /\ x \notin SkippedTimes => Local(ZonedDateToUtc(x)) = x
         /\ x \in SkippedTimes => Local(ZonedDateToUtc(x)) \in {x - 1, x + 1}
<1> DEFINE u == ZonedDateToUtc(x)
<1>1. /\ u \in Int
      /\ \/ u = x - zone.before /\ x - Offset(x) < zone.change
         \/ u = x - zone.after /\ x - Offset(x) >= zone.change
      /\ \/ x < zone.change /\ Offset(x) = zone.before
         \/ x >= zone.change /\ Offset(x) = zone.after
  BY ToUtc
<1>2. /\ zone.change \in Int /\ zone.before \in Int /\ zone.after \in Int
      /\ zone.after = zone.before \/ zone.after = zone.before + 1 \/ zone.after = zone.before - 1
  BY ZoneShift
<1>3. /\ u < zone.change => Local(u) = u + zone.before
      /\ u >= zone.change => Local(u) = u + zone.after
  BY <1>1, Clock
<1>4. x \in SkippedTimes <=> zone.change + zone.before <= x /\ x <= zone.change + zone.after - 1
  BY <1>2 DEF SkippedTimes
<1> HIDE DEF u
<1>5. x \notin SkippedTimes => Local(u) = x
  BY <1>1, <1>2, <1>3, <1>4
<1>6. x \in SkippedTimes => Local(u) = x - 1 \/ Local(u) = x + 1
  BY <1>1, <1>2, <1>3, <1>4
<1> QED BY <1>5, <1>6 DEF u

\* Local time does not go back by more than the repeated hour: later is not
\* earlier, and of a local time that is not repeated there is one.
LEMMA LocalOrder ==
  ASSUME zone \in Zones, NEW t \in Int, NEW v \in Int, t < v
  PROVE  Local(t) <= Local(v)
<1>1. /\ zone.change \in Int /\ zone.before \in Int /\ zone.after \in Int
      /\ zone.after = zone.before \/ zone.after = zone.before + 1 \/ zone.after = zone.before - 1
  BY ZoneShift
<1>2. /\ Local(t) \in Int /\ Local(v) \in Int
      /\ t < zone.change => Local(t) = t + zone.before
      /\ t >= zone.change => Local(t) = t + zone.after
      /\ v < zone.change => Local(v) = v + zone.before
      /\ v >= zone.change => Local(v) = v + zone.after
  BY Clock
<1> QED BY <1>1, <1>2

\* A local time that is not repeated is taken back to the moment it is shown at.
LEMMA OneTime ==
  ASSUME zone \in Zones, NEW t \in Int, ~Repeated(Local(t))
  PROVE  ZonedDateToUtc(Local(t)) = t /\ Local(t) \in Int
<1> DEFINE x == Local(t)
<1>1. /\ zone.change \in Int /\ zone.before \in Int /\ zone.after \in Int
      /\ zone.after = zone.before \/ zone.after = zone.before + 1 \/ zone.after = zone.before - 1
  BY ZoneShift
<1>2. /\ x \in Int
      /\ t < zone.change => x = t + zone.before
      /\ t >= zone.change => x = t + zone.after
  BY Clock
<1>3. ~(zone.change + zone.after <= x /\ x <= zone.change + zone.before - 1)
  BY <1>1, <1>2 DEF Repeated
<1>4. /\ ZonedDateToUtc(x) \in Int
      /\ \/ ZonedDateToUtc(x) = x - zone.before /\ x - Offset(x) < zone.change
         \/ ZonedDateToUtc(x) = x - zone.after /\ x - Offset(x) >= zone.change
      /\ \/ x < zone.change /\ Offset(x) = zone.before
         \/ x >= zone.change /\ Offset(x) = zone.after
  BY <1>2, ToUtc
<1> HIDE DEF x
<1>5. ZonedDateToUtc(x) = t
  BY <1>1, <1>2, <1>3, <1>4
<1> QED BY <1>2, <1>5 DEF x

\* A later local time is a later moment, but for one the clock skips west of UTC.
LEMMA LaterIsLater ==
  ASSUME zone \in Zones, NEW from \in Int, NEW x \in Int, Local(from) < x,
         ~(/\ zone.after > zone.before /\ zone.before < 0
           /\ x = zone.change + zone.before /\ x = Local(from) + 1)
  PROVE  ZonedDateToUtc(x) > from
<1>1. /\ zone.change \in Int /\ zone.before \in Int /\ zone.after \in Int
      /\ zone.after = zone.before \/ zone.after = zone.before + 1 \/ zone.after = zone.before - 1
  BY ZoneShift
<1>2. /\ Local(from) \in Int
      /\ from < zone.change => Local(from) = from + zone.before
      /\ from >= zone.change => Local(from) = from + zone.after
  BY Clock
<1>4. /\ ZonedDateToUtc(x) \in Int
      /\ \/ ZonedDateToUtc(x) = x - zone.before /\ x - Offset(x) < zone.change
         \/ ZonedDateToUtc(x) = x - zone.after /\ x - Offset(x) >= zone.change
      /\ \/ x < zone.change /\ Offset(x) = zone.before
         \/ x >= zone.change /\ Offset(x) = zone.after
  BY ToUtc
<1> QED BY <1>1, <1>2, <1>4

-----------------------------------------------------------------------------
\* A local time is an hour of a day.
LEMMA DayFacts ==
  ASSUME NEW x \in Int
  PROVE  DayOf(x) \in Int /\ HourOf(x) \in 0..DayHours - 1 /\ x = DayOf(x) * DayHours + HourOf(x)
<1>1. DayHours \in Nat \ {0}
  BY ScheduleAssumption DEF ScheduleAssumption
<1> QED BY <1>1, DaysAndHours DEF DayOf, HourOf

\* What day and hour a local time is made of is what it is taken apart into.
LEMMA TimeOfDay ==
  ASSUME NEW d \in Int, NEW h \in 0..DayHours - 1
  PROVE  /\ d * DayHours + h \in Int
         /\ DayOf(d * DayHours + h) = d /\ HourOf(d * DayHours + h) = h
<1>1. DayHours \in Nat \ {0}
  BY ScheduleAssumption DEF ScheduleAssumption
<1> QED BY <1>1 DEF DayOf, HourOf

\* Of two times of the same hour the earlier one is not on a later day, nor is one
\* that is an hour later: a day has two hours at least.
LEMMA DayOrder ==
  ASSUME NEW x \in Int, NEW y \in Int, x <= y
  PROVE  DayOf(x) <= DayOf(y)
<1>1. DayHours \in Nat \ {0}
  BY ScheduleAssumption DEF ScheduleAssumption
<1>2. /\ DayOf(x) \in Int /\ HourOf(x) \in 0..DayHours - 1 /\ x = DayOf(x) * DayHours + HourOf(x)
      /\ DayOf(y) \in Int /\ HourOf(y) \in 0..DayHours - 1 /\ y = DayOf(y) * DayHours + HourOf(y)
  BY DayFacts
<1>3. SUFFICES ASSUME DayOf(y) + 1 <= DayOf(x) PROVE FALSE
  BY <1>2
<1>4. (DayOf(y) + 1) * DayHours <= DayOf(x) * DayHours /\ (DayOf(y) + 1) * DayHours = DayOf(y) * DayHours + DayHours
      /\ DayOf(y) * DayHours \in Int /\ DayOf(x) * DayHours \in Int
  BY <1>1, <1>2, <1>3, ProductsOrdered, NextProduct
<1> QED BY <1>1, <1>2, <1>4

\* Of two times of the same hour the one that is not later by more than an hour is
\* not on a later day.
LEMMA DayOfSameHour ==
  ASSUME NEW x \in Int, NEW y \in Int, x <= y + 1, HourOf(x) = HourOf(y)
  PROVE  DayOf(x) <= DayOf(y)
<1>1. DayHours \in Nat \ {0} /\ DayHours >= 2
  BY ScheduleAssumption DEF ScheduleAssumption
<1>2. /\ DayOf(x) \in Int /\ HourOf(x) \in 0..DayHours - 1 /\ x = DayOf(x) * DayHours + HourOf(x)
      /\ DayOf(y) \in Int /\ HourOf(y) \in 0..DayHours - 1 /\ y = DayOf(y) * DayHours + HourOf(y)
  BY DayFacts
<1>3. SUFFICES ASSUME DayOf(y) + 1 <= DayOf(x) PROVE FALSE
  BY <1>2
<1>4. (DayOf(y) + 1) * DayHours <= DayOf(x) * DayHours /\ (DayOf(y) + 1) * DayHours = DayOf(y) * DayHours + DayHours
      /\ DayOf(y) * DayHours \in Int /\ DayOf(x) * DayHours \in Int
  BY <1>1, <1>2, <1>3, ProductsOrdered, NextProduct
<1> QED BY <1>1, <1>2, <1>4

\* Two times of the same day and hour are the same.
LEMMA SameTime ==
  ASSUME NEW x \in Int, NEW y \in Int, DayOf(x) = DayOf(y), HourOf(x) = HourOf(y)
  PROVE  x = y
<1>1. x = DayOf(x) * DayHours + HourOf(x) /\ y = DayOf(y) * DayHours + HourOf(y)
  BY DayFacts
<1> QED BY <1>1

\* A time that lies between now and the moment of a local time, and that the zone
\* does not repeat: its local time is found, is not before that of now, is not
\* beyond the other one by more than the skipped hour, and is not the other one.
LEMMA PassedOver ==
  ASSUME zone \in Zones, NEW from \in Int, NEW x \in Int, NEW t \in Int, from < t, t < ZonedDateToUtc(x),
         ~Repeated(Local(t))
  PROVE  /\ Local(t) \in Int /\ Local(from) \in Int /\ ZonedDateToUtc(Local(t)) = t
         /\ Local(from) <= Local(t) /\ Local(t) <= x + 1 /\ Local(t) # x
         /\ x \notin SkippedTimes => Local(t) < x
<1>1. Local(t) \in Int /\ ZonedDateToUtc(Local(t)) = t
  BY OneTime
<1>2. ZonedDateToUtc(x) \in Int
  BY ToUtc
<1>3. Local(from) <= Local(t) /\ Local(t) <= Local(ZonedDateToUtc(x))
  BY <1>2, LocalOrder
<1>4. Local(t) # x
  BY <1>1, <1>2
<1>5. /\ x \notin SkippedTimes => Local(ZonedDateToUtc(x)) = x
      /\ x \in SkippedTimes => Local(ZonedDateToUtc(x)) = x - 1 \/ Local(ZonedDateToUtc(x)) = x + 1
  BY UtcFound
<1>6. Local(from) \in Int
  BY Clock
<1> QED BY <1>1, <1>3, <1>4, <1>5, <1>6

\* What is found for a local time of the schedule has that time, or stands for it.
LEMMA FoundMatches ==
  ASSUME zone \in Zones, NEW s, NEW x \in Int, LocalMatches(s, x)
  PROVE  \/ LocalMatches(s, Local(ZonedDateToUtc(x)))
         \/ \E y \in SkippedTimes : LocalMatches(s, y) /\ Local(ZonedDateToUtc(x)) \in {y - 1, y + 1}
<1>1. CASE x \in SkippedTimes
  BY <1>1, UtcFound
<1>2. CASE x \notin SkippedTimes
  BY <1>2, UtcFound
<1> QED BY <1>1, <1>2

-----------------------------------------------------------------------------
\* The next run of an interval is later, by an interval at most, and a whole
\* number of intervals after the start.
LEMMA IntervalIsNext ==
  ASSUME NEW s \in Schedules, s.kind = "interval", NEW from \in Nat
  PROVE  /\ NextInterval(s, from) \in Int /\ NextInterval(s, from) > from
         /\ NextIsNext(s, from, NextInterval(s, from))
<1>1. s.every \in Nat \ {0} /\ s.start \in Nat \cup {Never}
  BY ScheduleAssumption DEF ScheduleAssumption
<1> DEFINE anchor == IF s.start = Never THEN from ELSE s.start
           next == NextInterval(s, from)
           k == ((from - anchor) \div s.every) + 1
<1>2. anchor \in Nat
  BY <1>1
<1>3. CASE anchor > from
  <2>1. s.start # Never /\ next = s.start
    BY <1>2, <1>3 DEF NextInterval
  <2> QED BY <1>2, <1>3, <2>1 DEF NextIsNext, Zoned
<1>4. CASE ~(anchor > from)
  <2>1. next = anchor + k * s.every
    BY <1>4 DEF NextInterval
  <2> DEFINE q == (from - anchor) \div s.every
             r == (from - anchor) % s.every
  <2>2. q \in Int /\ r \in 0..s.every - 1 /\ from - anchor = q * s.every + r
    <3>1. from - anchor \in Int
      BY <1>2
    <3> HIDE DEF anchor
    <3> QED BY <1>1, <1>2, <3>1, DaysAndHours
  <2>3. k = q + 1 /\ k \in Int /\ k * s.every = q * s.every + s.every /\ q * s.every \in Int /\ k * s.every \in Int
    BY <1>1, <2>2, NextProduct, ProductsOrdered
  <2>4. next \in Int /\ next > from /\ next - s.every <= from
    <3> HIDE DEF q, r, k, anchor, next
    <3> QED BY <1>1, <1>2, <2>1, <2>2, <2>3
  <2>5. s.start # Never => (next - s.start) % s.every = 0
    <3>1. s.start # Never => next - s.start = k * s.every + 0
      <4>1. s.start # Never => anchor = s.start
        OBVIOUS
      <4> HIDE DEF anchor, next, k, q
      <4> QED BY <1>1, <1>2, <2>1, <2>3, <4>1
    <3>2. (k * s.every + 0) % s.every = 0
      <4> HIDE DEF k
      <4>1. 0 \in 0..s.every - 1
        BY <1>1
      <4> QED BY <1>1, <2>3, <4>1
    <3> QED BY <3>1, <3>2
  <2> HIDE DEF next
  <2>6. NextIsNext(s, from, next)
    BY <2>4, <2>5 DEF NextIsNext, Zoned
  <2> QED BY <2>4, <2>6 DEF next
<1> QED BY <1>3, <1>4

\* The next run of a day is later and passes over no day.
LEMMA DailyIsNext ==
  ASSUME zone \in Zones, NEW s \in Schedules, s.kind = "daily", NEW from \in Nat
  PROVE  /\ NextDaily(s, from) \in Int /\ NextDaily(s, from) > from
         /\ NextIsNext(s, from, NextDaily(s, from))
<1>1. s.hour \in 0..DayHours - 1
  BY ScheduleAssumption DEF ScheduleAssumption
<1>2. Local(from) \in Int /\ DayOf(Local(from)) \in Int /\ DayHours \in Nat \ {0}
  <2>1. DayHours \in Nat \ {0}
    BY ScheduleAssumption DEF ScheduleAssumption
  <2>2. from \in Int
    OBVIOUS
  <2>3. Local(from) \in Int
    BY <2>2, Clock
  <2> QED BY <2>1, <2>3, DayFacts
<1> DEFINE d0 == DayOf(Local(from))
           x0 == d0 * DayHours + s.hour
           x1 == (d0 + 1) * DayHours + s.hour
           next == NextDaily(s, from)
<1>3. /\ x0 \in Int /\ DayOf(x0) = d0 /\ HourOf(x0) = s.hour
      /\ x1 \in Int /\ DayOf(x1) = d0 + 1 /\ HourOf(x1) = s.hour
  <2>1. d0 \in Int /\ d0 + 1 \in Int
    BY <1>2
  <2> HIDE DEF d0
  <2> QED BY <1>1, <2>1, TimeOfDay
<1>4. ZonedDateToUtc(x0) \in Int /\ ZonedDateToUtc(x1) \in Int
  BY <1>3, ToUtc
<1>5. PICK x \in {x0, x1} : /\ next = ZonedDateToUtc(x)
                            /\ x = x0 => ZonedDateToUtc(x0) > from
                            /\ x = x1 => ZonedDateToUtc(x0) <= from
  <2>1. next = IF ZonedDateToUtc(x0) <= from THEN ZonedDateToUtc(x1) ELSE ZonedDateToUtc(x0)
    BY DEF NextDaily
  <2> HIDE DEF next, x0, x1
  <2>2. CASE ZonedDateToUtc(x0) <= from
    <3>1. x1 # x0
      BY <1>2, <1>3
    <3> QED BY <2>1, <2>2, <3>1
  <2>3. CASE ZonedDateToUtc(x0) > from
    <3>1. x1 # x0
      BY <1>2, <1>3
    <3> QED BY <1>4, <2>1, <2>3, <3>1
  <2> QED BY <1>4, <2>2, <2>3
<1>6. ZonedDateToUtc(x1) > from
  <2>1. /\ HourOf(Local(from)) \in 0..DayHours - 1 /\ Local(from) = d0 * DayHours + HourOf(Local(from))
        /\ (d0 + 1) * DayHours = d0 * DayHours + DayHours /\ d0 * DayHours \in Int
    <3>1. HourOf(Local(from)) \in 0..DayHours - 1 /\ Local(from) = d0 * DayHours + HourOf(Local(from))
      BY <1>2, DayFacts
    <3>2. (d0 + 1) * DayHours = d0 * DayHours + DayHours /\ d0 * DayHours \in Int
      <4>1. d0 \in Int
        BY <1>2
      <4> HIDE DEF d0
      <4> QED BY <1>2, <4>1, NextProduct, ProductsOrdered
    <3> QED BY <3>1, <3>2
  <2>2. Local(from) < x1
    <3> HIDE DEF d0
    <3> QED BY <1>1, <1>2, <2>1
  <2>3. ASSUME zone.after > zone.before, zone.before < 0, x1 = zone.change + zone.before, x1 = Local(from) + 1
        PROVE  FALSE
    <3>1. x1 % DayHours = s.hour
      BY <1>3 DEF HourOf
    <3>2. s.hour = 0
      <4> HIDE DEF d0
      <4> QED BY <1>1, <1>2, <2>1, <2>3
    <3>3. (zone.change + zone.before) % DayHours # 0
      BY <2>3, ScheduleAssumption DEF ScheduleAssumption
    <3> HIDE DEF x1
    <3> QED BY <2>3, <3>1, <3>2, <3>3
  <2> HIDE DEF x1
  <2> QED BY <1>3, <2>2, <2>3, LaterIsLater
<1>7. next \in Int /\ next > from
  <2> HIDE DEF next, x0, x1
  <2> QED BY <1>4, <1>5, <1>6
<1> HIDE DEF x0, x1, d0, next
<1>8. ASSUME NEW t \in (from + 1)..(next - 1), LocalMatches(s, Local(t)), ~Repeated(Local(t)) PROVE FALSE
  <2>1. t \in Int /\ from < t /\ t < next /\ HourOf(Local(t)) = s.hour
    BY <1>7, <1>8 DEF LocalMatches
  <2>2. x \in Int /\ HourOf(x) = s.hour /\ DayOf(x) \in {d0, d0 + 1}
    BY <1>3
  <2>3. /\ Local(t) \in Int /\ ZonedDateToUtc(Local(t)) = t
        /\ Local(from) <= Local(t) /\ Local(t) <= x + 1 /\ Local(t) # x
    <3>1. t < ZonedDateToUtc(x) /\ from \in Int
      BY <1>5, <2>1
    <3> QED BY <1>8, <2>1, <2>2, <3>1, PassedOver
  <2>4. d0 <= DayOf(Local(t)) /\ DayOf(Local(t)) <= DayOf(x) /\ DayOf(Local(t)) \in Int
    BY <1>2, <2>1, <2>2, <2>3, DayOrder, DayOfSameHour, DayFacts DEF d0
  <2>5. CASE DayOf(Local(t)) = DayOf(x)
    BY <2>1, <2>2, <2>3, <2>5, SameTime
  <2>6. CASE DayOf(Local(t)) # DayOf(x)
    <3>1. DayOf(Local(t)) = d0 /\ x = x1
      BY <1>2, <1>3, <2>2, <2>4, <2>6 DEF d0
    <3>2. Local(t) = x0
      BY <1>3, <2>1, <2>3, <3>1, SameTime
    <3> QED BY <1>4, <1>5, <2>1, <2>3, <3>1, <3>2
  <2> QED BY <2>5, <2>6
<1>9. LocalMatches(s, x)
  BY <1>3 DEF LocalMatches
<1>10. \/ LocalMatches(s, Local(next))
       \/ \E y \in SkippedTimes : LocalMatches(s, y) /\ Local(next) \in {y - 1, y + 1}
  BY <1>3, <1>5, <1>9, FoundMatches
<1>11. next \notin {Never, Unable}
  BY <1>7 DEF Never, Unable
<1>12. NextIsNext(s, from, next)
  BY <1>7, <1>8, <1>10, <1>11 DEF NextIsNext, Zoned
<1> QED BY <1>7, <1>12 DEF next

\* A set of times between two others has an earliest one.
LEMMA EarliestIsFirst ==
  ASSUME NEW a \in Int, NEW S, \A x \in S : x \in Int /\ a <= x, S # {}
  PROVE  Earliest(S) \in S /\ \A x \in S : Earliest(S) <= x
<1> DEFINE T == {n \in Nat : a + n \in S}
<1>1. T # {}
  <2>1. PICK x \in S : TRUE
    OBVIOUS
  <2>2. x - a \in Nat /\ a + (x - a) = x
    BY <2>1
  <2> QED BY <2>1, <2>2
<1>2. IsWellFoundedOn(OpToRel(<, Nat), Nat)
  BY NatLessThanWellFounded
<1>3. PICK n \in T : \A m \in T : ~(<<m, n>> \in OpToRel(<, Nat))
  <2> HIDE DEF T
  <2>1. T \subseteq Nat
    BY DEF T
  <2> QED BY <1>1, <1>2, <2>1, WFMin
<1>4. \A m \in T : n <= m
  <2>1. \A m \in T : ~(m < n)
    BY <1>3 DEF OpToRel
  <2> QED BY <2>1
<1>5. a + n \in S /\ \A x \in S : a + n <= x
  <2>1. a + n \in S
    OBVIOUS
  <2>2. ASSUME NEW x \in S PROVE a + n <= x
    <3>1. x \in Int /\ x - a \in Nat /\ a + (x - a) = x
      OBVIOUS
    <3>2. x - a \in T
      BY <3>1
    <3> QED BY <1>4, <3>1, <3>2
  <2> QED BY <2>1, <2>2
<1>6. \E t \in S : \A u \in S : t <= u
  BY <1>5
<1> QED BY <1>6 DEF Earliest

\* The next run of a week, when one is found, is later and passes over no day of
\* the schedule.
LEMMA WeeklyIsNext ==
  ASSUME zone \in Zones, NEW s \in Schedules, s.kind = "weekly", NEW from \in Nat
  PROVE  \/ NextWeekly(s, from) = Unable
         \/ /\ NextWeekly(s, from) \in Int /\ NextWeekly(s, from) > from
            /\ NextIsNext(s, from, NextWeekly(s, from))
<1>1. s.hour \in 0..DayHours - 1
  BY ScheduleAssumption DEF ScheduleAssumption
<1>2. from \in Int /\ WeekDays \in Nat \ {0}
  BY ScheduleAssumption DEF ScheduleAssumption
<1>3. Local(from) \in Int
  BY <1>2, Clock
<1>4. DayOf(Local(from)) \in Int
  BY <1>3, DayFacts
<1> DEFINE d0 == DayOf(Local(from))
           X(d) == d * DayHours + s.hour
           days == {d \in d0..(d0 + WeekDays) : d % WeekDays \in s.days /\ ZonedDateToUtc(X(d)) > from}
           next == NextWeekly(s, from)
<1>5. CASE days = {}
  BY <1>5 DEF NextWeekly
<1>6. CASE days # {}
  <2> DEFINE e == Earliest(days)
             x == X(e)
  <2>1. next = ZonedDateToUtc(x)
    BY <1>6 DEF NextWeekly
  <2>2. e \in days /\ \A d \in days : e <= d
    <3>1. \A d \in days : d \in Int /\ d0 <= d
      BY <1>4
    <3> HIDE DEF days, d0
    <3>2. d0 \in Int
      BY <1>4 DEF d0
    <3> QED BY <1>6, <3>1, <3>2, EarliestIsFirst
  <2>3. e \in Int /\ d0 <= e /\ e <= d0 + WeekDays /\ e % WeekDays \in s.days /\ ZonedDateToUtc(x) > from
    BY <1>2, <1>4, <2>2
  <2>4. x \in Int /\ DayOf(x) = e /\ HourOf(x) = s.hour
    <3> HIDE DEF e
    <3> QED BY <1>1, <2>3, TimeOfDay
  <2>5. next \in Int /\ next > from
    <3> HIDE DEF x, e
    <3> QED BY <2>1, <2>3, <2>4, ToUtc
  <2>6. ASSUME NEW t \in (from + 1)..(next - 1), LocalMatches(s, Local(t)), ~Repeated(Local(t)) PROVE FALSE
    <3> DEFINE day == DayOf(Local(t))
    <3> HIDE DEF next, x, e, d0
    <3>1. t \in Int /\ from < t /\ t < next
      BY <2>5
    <3>2. /\ Local(t) \in Int /\ ZonedDateToUtc(Local(t)) = t
          /\ Local(from) <= Local(t) /\ Local(t) <= x + 1 /\ Local(t) # x
      BY <1>2, <2>1, <2>4, <2>6, <3>1, PassedOver
    <3>3. HourOf(Local(t)) = s.hour /\ day % WeekDays \in s.days
      BY <2>6 DEF LocalMatches
    <3>4. d0 <= day /\ day <= e /\ day \in Int
      BY <1>3, <2>4, <3>2, <3>3, DayOrder, DayOfSameHour, DayFacts DEF d0
    <3>5. Local(t) = X(day)
      BY <3>2, <3>3, DayFacts
    <3>6. day \in days
      <4> HIDE DEF day, X
      <4>1. ZonedDateToUtc(X(day)) > from
        BY <3>1, <3>2, <3>5
      <4>2. day \in d0..(d0 + WeekDays)
        BY <1>2, <1>4, <2>3, <3>4 DEF d0
      <4> QED BY <3>3, <4>1, <4>2 DEF day
    <3>7. day = e
      <4> HIDE DEF day, days
      <4> QED BY <2>2, <2>3, <3>4, <3>6
    <3> QED BY <2>4, <3>2, <3>3, <3>7, SameTime
  <2>7. LocalMatches(s, x)
    <3> HIDE DEF x, e
    <3> QED BY <2>3, <2>4 DEF LocalMatches
  <2> HIDE DEF x, next, e, days
  <2>8. \/ LocalMatches(s, Local(next))
        \/ \E y \in SkippedTimes : LocalMatches(s, y) /\ Local(next) \in {y - 1, y + 1}
    BY <2>1, <2>4, <2>7, FoundMatches
  <2>9. next \notin {Never, Unable}
    BY <2>5 DEF Never, Unable
  <2>10. NextIsNext(s, from, next)
    BY <2>5, <2>6, <2>8, <2>9 DEF NextIsNext, Zoned
  <2> QED BY <2>5, <2>10 DEF next
<1> QED BY <1>5, <1>6

\* The next run of a cron schedule is later and passes over no time of it; when
\* none is found there is none until the bound of the clock.
LEMMA CronIsNext ==
  ASSUME zone \in Zones, NEW s \in Schedules, s.kind = "cron", NEW from \in Nat
  PROVE  /\ NextIsNext(s, from, NextCron(s, from))
         /\ NextCron(s, from) # Never => NextCron(s, from) \in Int /\ NextCron(s, from) > from
<1>1. /\ from \in Int /\ DayHours \in Nat \ {0} /\ SearchDays \in Nat /\ LastHour \in Nat
      /\ SearchDays * DayHours \in Int /\ LastHour < SearchDays * DayHours
  BY ScheduleAssumption DEF ScheduleAssumption
<1>2. Local(from) \in Int
  BY <1>1, Clock
<1>3. DayOf(Local(from)) \in Int
  BY <1>2, DayFacts
<1> DEFINE d0 == DayOf(Local(from))
           a == d0 * DayHours
           b == (d0 + SearchDays + 1) * DayHours
           Fits(x) == /\ DayMatches(s, DayOf(x)) /\ HourOf(x) \in FieldValues(s.hours, 0, DayHours - 1, FALSE)
                      /\ ZonedDateToUtc(x) > from /\ Local(ZonedDateToUtc(x)) = x
           times == {x \in a..(b - 1) : Fits(x)}
           next == NextCron(s, from)
<1>4. next = IF times = {} THEN Never ELSE ZonedDateToUtc(Earliest(times))
  BY DEF NextCron
<1>5. a \in Int /\ b \in Int /\ a <= Local(from) /\ Local(from) + SearchDays * DayHours < b
  <2>1. HourOf(Local(from)) \in 0..DayHours - 1 /\ Local(from) = a + HourOf(Local(from))
    BY <1>2, DayFacts
  <2>2. a \in Int
    <3>1. d0 \in Int
      BY <1>3
    <3> HIDE DEF d0
    <3> QED BY <1>1, <3>1, ProductsOrdered
  <2>3. b = a + SearchDays * DayHours + DayHours
    <3>1. d0 \in Int
      BY <1>3
    <3> HIDE DEF d0
    <3> QED BY <1>1, <3>1
  <2> HIDE DEF a, b
  <2> QED BY <1>1, <1>2, <2>1, <2>2, <2>3
\* A time of the schedule that comes later is one of those, if the search goes that far.
<1>6. ASSUME NEW t \in Int, from < t, LocalMatches(s, Local(t)), ~Repeated(Local(t)), Local(t) < b
      PROVE  Local(t) \in times /\ ZonedDateToUtc(Local(t)) = t
  <2>1. Local(t) \in Int /\ ZonedDateToUtc(Local(t)) = t
    BY <1>6, OneTime
  <2>2. Local(from) <= Local(t)
    BY <1>1, <1>6, LocalOrder
  <2> HIDE DEF a, b
  <2>3. Local(t) \in a..(b - 1)
    BY <1>2, <1>5, <1>6, <2>1, <2>2
  <2>4. Fits(Local(t))
    BY <1>6, <2>1 DEF LocalMatches
  <2> HIDE DEF Fits
  <2> QED BY <2>1, <2>3, <2>4
<1>7. CASE times = {}
  <2>1. next = Never
    BY <1>4, <1>7
  <2>2. ASSUME NEW t \in (from + 1)..LastHour, LocalMatches(s, Local(t)), ~Repeated(Local(t)) PROVE FALSE
    <3>1. t \in Int /\ from < t /\ t <= LastHour
      BY <1>1
    <3>2. Local(t) \in Int /\ Local(t) <= t + zone.before + 1
      BY <3>1, Clock, ZoneShift
    <3>3. Local(t) - Local(from) <= t - from + 1
      <4>1. /\ zone.change \in Int /\ zone.before \in Int /\ zone.after \in Int
            /\ zone.after = zone.before \/ zone.after = zone.before + 1 \/ zone.after = zone.before - 1
        BY ZoneShift
      <4>2. /\ Local(t) \in Int
            /\ t < zone.change => Local(t) = t + zone.before
            /\ t >= zone.change => Local(t) = t + zone.after
        BY <3>1, Clock
      <4>3. /\ from < zone.change => Local(from) = from + zone.before
            /\ from >= zone.change => Local(from) = from + zone.after
        BY <1>1, Clock
      <4> QED BY <1>1, <1>2, <3>1, <4>1, <4>2, <4>3
    <3> HIDE DEF b, times
    <3>4. Local(t) < b
      BY <1>1, <1>2, <1>5, <3>1, <3>2, <3>3
    <3> QED BY <1>6, <1>7, <2>2, <3>1, <3>4
  <2>3. NextIsNext(s, from, Never)
    BY <2>2 DEF NextIsNext, Zoned
  <2> QED BY <2>1, <2>3
<1>8. CASE times # {}
  <2> DEFINE x == Earliest(times)
  <2>1. next = ZonedDateToUtc(x)
    BY <1>4, <1>8
  <2>2. x \in times /\ \A y \in times : x <= y
    <3>1. \A y \in times : y \in Int /\ a <= y
      <4> HIDE DEF a, b, Fits
      <4> QED BY <1>5
    <3> HIDE DEF times, a
    <3> QED BY <1>5, <1>8, <3>1, EarliestIsFirst
  <2>3. x \in Int /\ x < b /\ Fits(x)
    <3> HIDE DEF a, b, Fits, x
    <3> QED BY <1>5, <2>2
  <2> HIDE DEF x, next, times, b
  <2>4. next \in Int /\ next > from /\ Local(next) = x
    BY <2>1, <2>3, ToUtc
  <2>5. ASSUME NEW t \in (from + 1)..(next - 1), LocalMatches(s, Local(t)), ~Repeated(Local(t)) PROVE FALSE
    <3>1. t \in Int /\ from < t /\ t < next
      BY <2>4
    <3>2. Local(t) \in Int /\ Local(t) <= x /\ Local(t) # x
      <4>1. Local(t) <= Local(next)
        BY <2>4, <3>1, LocalOrder
      <4>2. Local(t) \in Int /\ ZonedDateToUtc(Local(t)) = t
        BY <2>5, <3>1, OneTime
      <4> QED BY <2>1, <2>4, <3>1, <4>1, <4>2
    <3>3. Local(t) < b
      BY <1>5, <2>3, <3>2 DEF b
    <3>4. Local(t) \in times
      BY <1>6, <2>5, <3>1, <3>3
    <3> QED BY <2>2, <2>3, <3>2, <3>4
  <2>6. LocalMatches(s, Local(next))
    BY <2>3, <2>4 DEF LocalMatches
  <2>7. next \notin {Never, Unable}
    BY <2>4 DEF Never, Unable
  <2>8. NextIsNext(s, from, next)
    BY <2>4, <2>5, <2>6, <2>7 DEF NextIsNext, Zoned
  <2> QED BY <2>4, <2>8 DEF next
<1> QED BY <1>7, <1>8

\* Whatever the schedule, what is computed as its next run is its next run, and
\* one that goes on has one.
LEMMA NextRunIsComputed ==
  ASSUME zone \in Zones, NEW s \in Schedules, NEW from \in Nat, NextRunAt(s, from) # Unable
  PROVE  /\ NextRunAt(s, from) # Never => NextIsNext(s, from, NextRunAt(s, from))
         /\ s.kind \in {"interval", "daily", "weekly"} => NextRunAt(s, from) \in Nat
<1>1. CASE s.kind = "interval"
  <2>1. NextRunAt(s, from) = NextInterval(s, from)
    BY <1>1 DEF NextRunAt
  <2>2. /\ NextInterval(s, from) \in Int /\ NextInterval(s, from) > from
        /\ NextIsNext(s, from, NextInterval(s, from))
    BY <1>1, IntervalIsNext
  <2> QED BY <2>1, <2>2
<1>2. CASE s.kind = "daily"
  <2>1. NextRunAt(s, from) = NextDaily(s, from)
    BY <1>2 DEF NextRunAt
  <2>2. /\ NextDaily(s, from) \in Int /\ NextDaily(s, from) > from
        /\ NextIsNext(s, from, NextDaily(s, from))
    BY <1>2, DailyIsNext
  <2> QED BY <2>1, <2>2
<1>3. CASE s.kind = "weekly"
  <2>1. NextRunAt(s, from) = NextWeekly(s, from)
    BY <1>3 DEF NextRunAt
  <2>2. /\ NextWeekly(s, from) \in Int /\ NextWeekly(s, from) > from
        /\ NextIsNext(s, from, NextWeekly(s, from))
    BY <1>3, <2>1, WeeklyIsNext
  <2> QED BY <2>1, <2>2
<1>4. CASE s.kind = "cron"
  <2>1. NextRunAt(s, from) = NextCron(s, from)
    BY <1>4 DEF NextRunAt
  <2>2. NextIsNext(s, from, NextCron(s, from))
    BY <1>4, CronIsNext
  <2> QED BY <1>4, <2>1, <2>2
<1>5. CASE s.kind \notin {"interval", "daily", "weekly", "cron"}
  <2>1. NextIsNext(s, from, NextRunAt(s, from))
    BY <1>5 DEF NextIsNext, Zoned
  <2> QED BY <1>5, <2>1
<1> QED BY <1>1, <1>2, <1>3, <1>4, <1>5

ScheduleGoesOn == enabled => (schedule.kind \in {"interval", "daily", "weekly"} => nextRun \in Nat)
SchedInv == zone \in Zones /\ schedule \in Schedules /\ clock \in Nat /\ ScheduleGoesOn

\* Whatever is edited, paused, resumed or run, what changes the next run computes
\* it, and a schedule that goes on keeps one.
LEMMA ScheduleSteps ==
  SchedInv /\ [ScheduleNext]_schedVars =>
    /\ SchedInv'
    /\ nextRun' # nextRun /\ nextRun' # Never => NextIsNext(schedule', clock, nextRun')
<1> SUFFICES ASSUME SchedInv, [ScheduleNext]_schedVars
             PROVE  /\ SchedInv'
                    /\ nextRun' # nextRun /\ nextRun' # Never => NextIsNext(schedule', clock, nextRun')
  OBVIOUS
<1>t. zone \in Zones /\ schedule \in Schedules /\ clock \in Nat /\ ScheduleGoesOn
  BY DEF SchedInv
<1>1. CASE UNCHANGED schedVars
  BY <1>t, <1>1 DEF schedVars, SchedInv, ScheduleGoesOn
<1>2. CASE Pause
  BY <1>t, <1>2 DEF Pause, SchedInv, ScheduleGoesOn
<1>3. CASE Resume
  <2>1. /\ NextRunAt(schedule, clock) # Unable /\ nextRun' = NextRunAt(schedule, clock)
        /\ zone' = zone /\ schedule' = schedule /\ clock' = clock
    BY <1>3 DEF Resume
  <2>2. /\ NextRunAt(schedule, clock) # Never => NextIsNext(schedule, clock, NextRunAt(schedule, clock))
        /\ schedule.kind \in {"interval", "daily", "weekly"} => NextRunAt(schedule, clock) \in Nat
    BY <1>t, <2>1, NextRunIsComputed
  <2> QED BY <1>t, <2>1, <2>2 DEF SchedInv, ScheduleGoesOn
<1>4. ASSUME NEW s \in Schedules, UpdateSchedule(s)
      PROVE  /\ SchedInv'
             /\ nextRun' # nextRun /\ nextRun' # Never => NextIsNext(schedule', clock, nextRun')
  <2>1. /\ NextRunAt(s, clock) # Unable /\ nextRun' = NextRunAt(s, clock)
        /\ zone' = zone /\ schedule' = s /\ clock' = clock
    BY <1>4 DEF UpdateSchedule
  <2>2. /\ NextRunAt(s, clock) # Never => NextIsNext(s, clock, NextRunAt(s, clock))
        /\ s.kind \in {"interval", "daily", "weekly"} => NextRunAt(s, clock) \in Nat
    BY <1>t, <2>1, NextRunIsComputed
  <2> QED BY <1>t, <2>1, <2>2 DEF SchedInv, ScheduleGoesOn
<1>5. CASE StartDue \/ StartByHand
  BY <1>t, <1>5 DEF StartDue, StartByHand, SchedInv, ScheduleGoesOn
<1>6. CASE PassHour
  <2>1. clock' \in Nat
    BY <1>t, <1>6 DEF PassHour
  <2> QED BY <1>t, <1>6, <2>1 DEF PassHour, SchedInv, ScheduleGoesOn
<1>7. CASE RecordCompletion
  <2>1. zone' = zone /\ schedule' = schedule /\ clock' = clock /\ (enabled' => enabled)
    BY <1>7 DEF RecordCompletion
  <2>2. CASE nextRun' = nextRun
    BY <1>t, <2>1, <2>2 DEF SchedInv, ScheduleGoesOn
  <2>3. CASE nextRun' # nextRun
    <3> DEFINE next == IF schedule.kind = "once" THEN Never ELSE NextRunAt(schedule, clock)
    <3>1. nextRun' = next /\ next # Unable
      BY <1>7, <2>3 DEF RecordCompletion
    <3>2. CASE schedule.kind = "once"
      BY <1>t, <2>1, <3>1, <3>2 DEF SchedInv, ScheduleGoesOn
    <3>3. CASE schedule.kind # "once"
      <4>1. nextRun' = NextRunAt(schedule, clock) /\ NextRunAt(schedule, clock) # Unable
        BY <3>1, <3>3
      <4>2. /\ NextRunAt(schedule, clock) # Never => NextIsNext(schedule, clock, NextRunAt(schedule, clock))
            /\ schedule.kind \in {"interval", "daily", "weekly"} => NextRunAt(schedule, clock) \in Nat
        BY <1>t, <4>1, NextRunIsComputed
      <4> QED BY <1>t, <2>1, <4>1, <4>2 DEF SchedInv, ScheduleGoesOn
    <3> QED BY <3>2, <3>3
  <2> QED BY <2>2, <2>3
<1> QED BY <1>1, <1>2, <1>3, <1>4, <1>5, <1>6, <1>7 DEF ScheduleNext

\* The next run of an automation is the next time of its schedule in its zone,
\* and an enabled schedule that goes on has one.
THEOREM SchedulesAreKept == SchedSpec => NextRunIsNext /\ StaysScheduled
<1>1. SchedInit => SchedInv /\ (nextRun # Never => NextIsNext(schedule, clock, nextRun))
  <2> SUFFICES ASSUME SchedInit PROVE SchedInv /\ (nextRun # Never => NextIsNext(schedule, clock, nextRun))
    OBVIOUS
  <2>1. /\ zone \in Zones /\ schedule \in Schedules /\ clock = 0 /\ clock \in Nat
        /\ nextRun = NextRunAt(schedule, clock) /\ NextRunAt(schedule, clock) # Unable
    BY DEF SchedInit
  <2>2. /\ NextRunAt(schedule, clock) # Never => NextIsNext(schedule, clock, NextRunAt(schedule, clock))
        /\ schedule.kind \in {"interval", "daily", "weekly"} => NextRunAt(schedule, clock) \in Nat
    BY <2>1, NextRunIsComputed
  <2> QED BY <2>1, <2>2 DEF SchedInv, ScheduleGoesOn
<1>2. SchedInv => (enabled /\ schedule.kind \in {"interval", "daily", "weekly"} => nextRun \in Nat)
  BY DEF SchedInv, ScheduleGoesOn
<1> QED BY <1>1, <1>2, ScheduleSteps, PTL DEF SchedSpec, NextRunIsNext, StaysScheduled

\* What is computed as the next run is a time, or says that there is none.
LEMMA NextRunIsTime ==
  ASSUME zone \in Zones, NEW s \in Schedules, NEW from \in Nat
  PROVE  NextRunAt(s, from) \in Int
<1>1. s.kind \in {"manual", "once", "interval", "daily", "weekly", "cron"} /\ (s.kind = "once" => s.at \in Nat)
  BY ScheduleAssumption DEF ScheduleAssumption
<1>2. Never \in Int /\ Unable \in Int
  BY DEF Never, Unable
<1>3. CASE s.kind = "interval"
  BY <1>3, IntervalIsNext DEF NextRunAt
<1>4. CASE s.kind = "daily"
  BY <1>4, DailyIsNext DEF NextRunAt
<1>5. CASE s.kind = "weekly"
  BY <1>2, <1>5, WeeklyIsNext DEF NextRunAt
<1>6. CASE s.kind = "cron"
  BY <1>2, <1>6, CronIsNext DEF NextRunAt
<1>7. CASE s.kind \in {"manual", "once"}
  BY <1>1, <1>2, <1>7 DEF NextRunAt
<1> QED BY <1>1, <1>3, <1>4, <1>5, <1>6, <1>7

\* The variables of a schedule keep their types.
THEOREM ScheduleTypeCorrect == SchedSpec => []SchedTypesOK
<1>a. LastHour \in Nat /\ Never \in Int
  BY ScheduleAssumption DEF ScheduleAssumption, Never
<1>1. SchedInit => SchedTypesOK
  BY <1>a, NextRunIsTime DEF SchedInit, SchedTypesOK
<1>2. SchedTypesOK /\ [ScheduleNext]_schedVars => SchedTypesOK'
  <2> SUFFICES ASSUME SchedTypesOK, [ScheduleNext]_schedVars PROVE SchedTypesOK'
    OBVIOUS
  <2>1. \A s \in Schedules : NextRunAt(s, clock) \in Int
    BY <1>a, NextRunIsTime DEF SchedTypesOK
  <2>2. CASE Pause \/ Resume \/ StartDue \/ StartByHand \/ UNCHANGED schedVars
    BY <1>a, <2>1, <2>2 DEF Pause, Resume, StartDue, StartByHand, Edited, schedVars, SchedTypesOK
  <2>3. CASE RecordCompletion
    BY <1>a, <2>1, <2>3 DEF RecordCompletion, SchedTypesOK
  <2>4. CASE PassHour
    BY <1>a, <2>4 DEF PassHour, SchedTypesOK
  <2>5. ASSUME NEW s \in Schedules, UpdateSchedule(s) PROVE SchedTypesOK'
    BY <2>1, <2>5 DEF UpdateSchedule, Edited, SchedTypesOK
  <2> QED BY <2>2, <2>3, <2>4, <2>5 DEF ScheduleNext
<1> QED BY <1>1, <1>2, PTL DEF SchedSpec

-----------------------------------------------------------------------------
(* Requests to the host *)

\* What a request and its counts may be: one that is not answered has run nowhere
\* but in the guest that holds it, one on its way to the host may go there, and an
\* answer names the side that ran it.
AskFits(ask, ran) ==
  /\ ask.at \notin {"guest", "answered"} => ran.guest = 0 /\ ran.host = 0
  /\ ask.at = "guest" => ran.guest = 1 /\ ran.host = 0
  /\ ask.at \in {"preparing", "starting", "guest"} => ask.tool # "publish" /\ ask.boundary = "sandbox"
  /\ ask.at \in {"resolving", "running"} \/ ran.host = 1 =>
       "allow" = ask.fallback \/ "host" = ask.boundary \/ "publish" = ask.tool
  /\ ran.guest + ran.host <= 1
  /\ ask.at = "answered" =>
       (ran.guest = 1 => ask.answer = "sandbox") /\ (ran.host = 1 => ask.answer = "host")

AskInv == AskTypeOK /\ \A r \in HostAsks : AskFits(hostAsk[r], ranIn[r])

Requests == [tool : BrokerTools, boundary : {"sandbox", "host"}, fallback : {"allow", "ask"},
             at : AskPlaces, aborted : BOOLEAN, answer : {"sandbox", "host", "none", NoAnswer}]
Counts == [guest : 0..2, host : 0..2]

\* A step of one request leaves the others as they are.
LEMMA RequestKeeps ==
  ASSUME AskInv, NEW r \in HostAsks, NEW ask \in Requests, NEW ran \in Counts, AskFits(ask, ran),
         hostAsk' = [hostAsk EXCEPT ![r] = ask], ranIn' = [ranIn EXCEPT ![r] = ran]
  PROVE  AskInv'
<1>1. AskTypeOK'
  BY DEF AskInv, AskTypeOK, Requests, Counts
<1>2. \A q \in HostAsks : AskFits(hostAsk'[q], ranIn'[q])
  <2> TAKE q \in HostAsks
  <2>1. hostAsk'[q] = IF q = r THEN ask ELSE hostAsk[q]
    BY DEF AskInv, AskTypeOK
  <2>2. ranIn'[q] = IF q = r THEN ran ELSE ranIn[q]
    BY DEF AskInv, AskTypeOK
  <2> QED BY <2>1, <2>2 DEF AskInv
<1> QED BY <1>1, <1>2 DEF AskInv

\* Going to another place keeps it, if the request fits there.
LEMMA GetsKeeps ==
  ASSUME AskInv, NEW r \in HostAsks, NEW where \in AskPlaces, Gets(r, where), UNCHANGED ranIn,
         AskFits([hostAsk[r] EXCEPT !.at = where], ranIn[r])
  PROVE  AskInv'
<1>1. [hostAsk[r] EXCEPT !.at = where] \in Requests
  BY DEF AskInv, AskTypeOK, Requests
<1>2. ranIn[r] \in Counts /\ ranIn' = [ranIn EXCEPT ![r] = ranIn[r]]
  BY DEF AskInv, AskTypeOK, Counts
<1>3. hostAsk' = [hostAsk EXCEPT ![r] = [hostAsk[r] EXCEPT !.at = where]]
  BY DEF Gets
<1> QED BY <1>1, <1>2, <1>3, RequestKeeps

\* So does an answer, after a run on a side or none.
LEMMA AnswerKeeps ==
  ASSUME AskInv, NEW r \in HostAsks, NEW side \in {"sandbox", "host", "none"}, AnswerFrom(r, side),
         NEW ran \in Counts, ranIn' = [ranIn EXCEPT ![r] = ran],
         AskFits([hostAsk[r] EXCEPT !.at = "answered", !.answer = side], ran)
  PROVE  AskInv'
<1>1. [hostAsk[r] EXCEPT !.at = "answered", !.answer = side] \in Requests
  BY ZenonT(30) DEF AskInv, AskTypeOK, Requests, AskPlaces
<1>2. hostAsk' = [hostAsk EXCEPT ![r] = [hostAsk[r] EXCEPT !.at = "answered", !.answer = side]]
  BY DEF AnswerFrom
<1> QED BY <1>1, <1>2, RequestKeeps

\* Whatever step a request takes, it is kept.
LEMMA AskNextKeeps == AskInv /\ [AskNext]_askVars => AskInv'
<1> SUFFICES ASSUME AskInv, [AskNext]_askVars PROVE AskInv'
  OBVIOUS
<1>t. ASSUME NEW r \in HostAsks
      PROVE  hostAsk[r] \in Requests /\ ranIn[r] \in Counts /\ AskFits(hostAsk[r], ranIn[r])
  BY DEF AskInv, AskTypeOK, Requests, Counts
<1>f. ASSUME NEW r \in HostAsks, UNCHANGED ranIn PROVE ranIn' = [ranIn EXCEPT ![r] = ranIn[r]]
  BY <1>f DEF AskInv, AskTypeOK
<1>1. CASE UNCHANGED askVars
  BY <1>1 DEF askVars, AskInv, AskTypeOK
<1>2. CASE AbortActiveHostRequests
  <2>1. \A r \in HostAsks : \E b \in BOOLEAN : hostAsk'[r] = [hostAsk[r] EXCEPT !.aborted = b]
    <3> TAKE r \in HostAsks
    <3>1. hostAsk'[r] = [hostAsk[r] EXCEPT !.aborted = @ \/ hostAsk[r].at \notin {"new", "answered"}]
      BY <1>2 DEF AbortActiveHostRequests
    <3>2. CASE hostAsk[r].at \notin {"new", "answered"}
      <4>1. (hostAsk[r].aborted \/ hostAsk[r].at \notin {"new", "answered"}) = TRUE
        BY <3>2
      <4> QED BY <3>1, <4>1
    <3>3. CASE hostAsk[r].at \in {"new", "answered"}
      <4>1. (hostAsk[r].aborted \/ hostAsk[r].at \notin {"new", "answered"}) = hostAsk[r].aborted
        BY <3>3, <1>t DEF Requests
      <4> QED BY <3>1, <4>1, <1>t DEF Requests
    <3> QED BY <3>2, <3>3
  <2>2. UNCHANGED ranIn /\ hostAsk' = [r \in HostAsks |-> hostAsk'[r]]
    BY <1>2 DEF AbortActiveHostRequests
  <2>3. \A r \in HostAsks : hostAsk'[r] \in Requests
    BY <2>1, <1>t, ZenonT(30) DEF Requests
  <2>4. AskTypeOK'
    BY <2>2, <2>3 DEF AskInv, AskTypeOK, Requests
  <2>5. \A r \in HostAsks : AskFits(hostAsk'[r], ranIn'[r])
    BY <2>1, <2>2, <1>t DEF AskFits, Requests
  <2> QED BY <2>4, <2>5 DEF AskInv
<1>3. ASSUME NEW r \in HostAsks, AskHost(r) PROVE AskInv'
  <2>1. PICK tool \in BrokerTools, boundary \in {"sandbox", "host"}, fallback \in {"allow", "ask"} :
          hostAsk' = [hostAsk EXCEPT ![r] = [@ EXCEPT !.tool = tool, !.boundary = boundary,
                      !.fallback = fallback, !.at = "received"]]
    BY <1>3 DEF AskHost
  <2> DEFINE ask == [hostAsk[r] EXCEPT !.tool = tool, !.boundary = boundary, !.fallback = fallback, !.at = "received"]
  <2>2. ask \in Requests /\ ask.at = "received"
    BY <1>t DEF Requests, AskPlaces
  <2>3. ranIn[r].guest = 0 /\ ranIn[r].host = 0 /\ UNCHANGED ranIn
    BY <1>3, <1>t DEF AskHost, AskFits
  <2>4. AskFits(ask, ranIn[r])
    BY <2>2, <2>3 DEF AskFits
  <2>5. hostAsk' = [hostAsk EXCEPT ![r] = ask]
    BY <2>1
  <2> HIDE DEF ask
  <2> QED BY <1>t, <1>f, <2>2, <2>3, <2>4, <2>5, RequestKeeps
<1>4. ASSUME NEW r \in HostAsks, ValidateHostExecutionWorkspace(r) PROVE AskInv'
  <2>1. UNCHANGED ranIn /\ hostAsk[r].at = "received"
    BY <1>4 DEF ValidateHostExecutionWorkspace
  <2>2. AskFits([hostAsk[r] EXCEPT !.at = "checked"], ranIn[r])
    BY <2>1, <1>t DEF AskFits, Requests
  <2>3. AskFits([hostAsk[r] EXCEPT !.at = "answered", !.answer = "none"], ranIn[r])
    BY <2>1, <1>t DEF AskFits, Requests
  <2> QED BY <1>4, <1>t, <1>f, <2>1, <2>2, <2>3, GetsKeeps, AnswerKeeps DEF ValidateHostExecutionWorkspace, AskPlaces
<1>5. ASSUME NEW r \in HostAsks, RouteAsk(r) PROVE AskInv'
  <2> DEFINE where == IF hostAsk[r].tool # "publish" /\ hostAsk[r].boundary = "sandbox" THEN "preparing" ELSE "resolving"
  <2>1. UNCHANGED ranIn /\ hostAsk[r].at = "checked" /\ Gets(r, where) /\ where \in AskPlaces
    BY <1>5 DEF RouteAsk, AskPlaces
  <2>2. AskFits([hostAsk[r] EXCEPT !.at = where], ranIn[r])
    BY <2>1, <1>t DEF AskFits, Requests
  <2> HIDE DEF where
  <2> QED BY <2>1, <2>2, GetsKeeps
<1>6. ASSUME NEW r \in HostAsks, Gets(r, "resolving"), UNCHANGED ranIn,
             hostAsk[r].at \in {"preparing", "starting"}, hostAsk[r].fallback = "allow"
      PROVE AskInv'
  <2>1. AskFits([hostAsk[r] EXCEPT !.at = "resolving"], ranIn[r])
    BY <1>6, <1>t DEF AskFits, Requests
  <2> QED BY <1>6, <2>1, GetsKeeps DEF AskPlaces
<1>s. ASSUME NEW r \in HostAsks, AnswerFrom(r, "sandbox"), UNCHANGED ranIn,
             hostAsk[r].at \in {"preparing", "starting", "guest"}
      PROVE AskInv'
  <2>1. AskFits([hostAsk[r] EXCEPT !.at = "answered", !.answer = "sandbox"], ranIn[r])
    BY <1>s, <1>t DEF AskFits, Requests
  <2> QED BY <1>s, <1>t, <1>f, <2>1, AnswerKeeps
<1>7. ASSUME NEW r \in HostAsks, PrepareSandbox(r) PROVE AskInv'
  <2>1. AskFits([hostAsk[r] EXCEPT !.at = "starting"], ranIn[r])
    BY <1>7, <1>t DEF PrepareSandbox, AskFits, Requests
  <2>2. CASE Gets(r, "starting")
    BY <1>7, <2>1, <2>2, GetsKeeps DEF PrepareSandbox, AskPlaces
  <2>3. CASE ~Gets(r, "starting")
    <3>1. /\ hostAsk[r].at = "preparing" /\ UNCHANGED ranIn
          /\ (hostAsk[r].fallback = "allow" /\ Gets(r, "resolving")) \/ AnswerFrom(r, "sandbox")
      BY <1>7, <2>3 DEF PrepareSandbox, SandboxFallback
    <3> QED BY <3>1, <1>6, <1>s
  <2> QED BY <2>2, <2>3
<1>8. ASSUME NEW r \in HostAsks, StartInGuest(r) PROVE AskInv'
  <2>1. CASE UNCHANGED ranIn /\ ((hostAsk[r].fallback = "allow" /\ Gets(r, "resolving")) \/ AnswerFrom(r, "sandbox"))
    <3>1. hostAsk[r].at = "starting"
      BY <1>8 DEF StartInGuest
    <3> QED BY <2>1, <3>1, <1>6, <1>s
  <2>2. CASE Gets(r, "guest") /\ RunsOn(r, "guest")
    <3>1. hostAsk[r].at = "starting" /\ ranIn[r].guest = 0 /\ ranIn[r].host = 0
      BY <1>8, <1>t DEF StartInGuest, AskFits
    <3>2. [hostAsk[r] EXCEPT !.at = "guest"] \in Requests /\ [ranIn[r] EXCEPT !.guest = 1] \in Counts
      BY <1>t DEF Requests, AskPlaces, Counts
    <3>3. AskFits([hostAsk[r] EXCEPT !.at = "guest"], [ranIn[r] EXCEPT !.guest = 1])
      BY <3>1, <1>t DEF AskFits, Requests, Counts
    <3>4. hostAsk' = [hostAsk EXCEPT ![r] = [hostAsk[r] EXCEPT !.at = "guest"]]
      BY <2>2 DEF Gets
    <3>5. ranIn' = [ranIn EXCEPT ![r] = [ranIn[r] EXCEPT !.guest = 1]]
      <4>1. ranIn[r]["guest"] + 1 = 1
        BY <3>1
      <4> QED BY <2>2, <4>1 DEF RunsOn
    <3> QED BY <3>2, <3>3, <3>4, <3>5, RequestKeeps
  <2> QED BY <1>8, <2>1, <2>2 DEF StartInGuest, SandboxFallback
<1>9. ASSUME NEW r \in HostAsks, GuestAnswers(r) PROVE AskInv'
  <2>1. hostAsk[r].at = "guest" /\ UNCHANGED ranIn /\ AnswerFrom(r, "sandbox")
    BY <1>9 DEF GuestAnswers, SandboxFallback
  <2> QED BY <2>1, <1>s
<1>10. ASSUME NEW r \in HostAsks, ResolveTarget(r) PROVE AskInv'
  <2>1. UNCHANGED ranIn /\ hostAsk[r].at = "resolving" /\ (Gets(r, "running") \/ AnswerFrom(r, "host"))
    BY <1>10 DEF ResolveTarget, WritePath, ExistingPath
  <2>2. AskFits([hostAsk[r] EXCEPT !.at = "running"], ranIn[r])
    BY <2>1, <1>t DEF AskFits, Requests
  <2>3. AskFits([hostAsk[r] EXCEPT !.at = "answered", !.answer = "host"], ranIn[r])
    BY <2>1, <1>t DEF AskFits, Requests
  <2> QED BY <1>t, <1>f, <2>1, <2>2, <2>3, GetsKeeps, AnswerKeeps DEF AskPlaces
<1>11. ASSUME NEW r \in HostAsks, Filesystem(r) \/ Shell(r) \/ HandleArtifact(r) PROVE AskInv'
  <2>1. hostAsk[r].at = "running" /\ AnswerFrom(r, "host") /\ (RunsOn(r, "host") \/ UNCHANGED ranIn)
    BY <1>11 DEF Filesystem, Shell, HandleArtifact
  <2>2. ranIn[r].guest = 0 /\ ranIn[r].host = 0
    BY <2>1, <1>t DEF AskFits
  <2>3. PICK ran \in {ranIn[r], [ranIn[r] EXCEPT !.host = 1]} : ranIn' = [ranIn EXCEPT ![r] = ran]
    BY <2>1, <2>2, <1>f DEF RunsOn
  <2>4. ran \in Counts /\ AskFits([hostAsk[r] EXCEPT !.at = "answered", !.answer = "host"], ran)
    BY <2>1, <2>2, <1>t DEF AskFits, Requests, Counts
  <2> QED BY <2>1, <2>3, <2>4, AnswerKeeps
<1> QED BY <1>1, <1>2, <1>3, <1>4, <1>5, <1>7, <1>8, <1>9, <1>10, <1>11 DEF AskNext

LEMMA AsksAreKept == AskSpec => []AskInv
<1>1. AskInit => AskInv
  <2> SUFFICES ASSUME AskInit PROVE AskInv
    OBVIOUS
  <2>1. AskTypeOK
    BY DEF AskInit, AskTypeOK, BrokerTools, AskPlaces
  <2>2. \A r \in HostAsks : AskFits(hostAsk[r], ranIn[r])
    <3> TAKE r \in HostAsks
    <3>1. hostAsk[r].at = "new" /\ ranIn[r].guest = 0 /\ ranIn[r].host = 0
      BY DEF AskInit
    <3> QED BY <3>1 DEF AskFits
  <2> QED BY <2>1, <2>2 DEF AskInv
<1> QED BY <1>1, AskNextKeeps, PTL DEF AskSpec

\* A request runs once and where it may, and its answer names the side that ran it.
THEOREM RequestsRunWhereAllowed == AskSpec => []RunsWhereAllowed
<1>1. AskInv => RunsWhereAllowed
  BY DEF AskInv, AskFits, RunsWhereAllowed
<1> QED BY <1>1, AsksAreKept, PTL

-----------------------------------------------------------------------------
(* Approvals *)

\* Who is in the map has been told nothing and is not settled; while a decision is
\* awaited it is what the CLI was told.
ApprovalInv ==
  /\ ApprovalTypeOK
  /\ \A a \in Approvals :
       /\ a \notin requested => told[a] = <<>> /\ deciding[a] = "no" /\ outcome[a] = "none"
       /\ a \in pending => told[a] = <<>> /\ deciding[a] = "no" /\ outcome[a] = "none"
       /\ deciding[a] # "no" => told[a] = <<deciding[a]>> /\ outcome[a] = "none"
  /\ ApprovalDecidedOnce

\* An answer of the user, of an owner or of a cancellation is given once.
LEMMA RespondKeeps ==
  ASSUME ApprovalInv, NEW who \in SUBSET Approvals, NEW decision \in Decisions, Respond(who, decision)
  PROVE  ApprovalInv'
<1> USE DEF ApprovalInv, ApprovalTypeOK, Decisions
<1>1. /\ who \subseteq pending /\ pending' = pending \ who /\ UNCHANGED <<requested, available>>
  BY DEF Respond, Take
<1>2. \A a \in Approvals :
        IF a \in who \cap available
        THEN told'[a] = <<decision>> /\ deciding'[a] = decision /\ outcome'[a] = "none"
        ELSE /\ told'[a] = told[a] /\ deciding'[a] = deciding[a]
             /\ outcome'[a] = IF a \in who THEN "deny" ELSE outcome[a]
  <2> TAKE a \in Approvals
  <2>1. CASE a \in who \cap available
    <3>1. told[a] = <<>> /\ outcome[a] = "none"
      BY <1>1, <2>1
    <3>2. told'[a] = Append(<<>>, decision)
      BY <2>1, <3>1 DEF Respond
    <3> QED BY <2>1, <3>1, <3>2 DEF Respond
  <2>2. CASE a \notin who \cap available
    BY <2>2 DEF Respond
  <2> QED BY <2>1, <2>2
<1>3. ApprovalTypeOK'
  <2>1. told' \in [Approvals -> Seq(Decisions)]
    BY <1>2 DEF Respond
  <2> QED BY <1>1, <2>1 DEF Respond
<1>4. Len(<<decision>>) = 1
  OBVIOUS
<1>5. \A a \in Approvals :
        /\ a \notin requested' => told'[a] = <<>> /\ deciding'[a] = "no" /\ outcome'[a] = "none"
        /\ a \in pending' => told'[a] = <<>> /\ deciding'[a] = "no" /\ outcome'[a] = "none"
        /\ deciding'[a] # "no" => told'[a] = <<deciding'[a]>> /\ outcome'[a] = "none"
  <2> TAKE a \in Approvals
  <2>1. CASE a \in who \cap available
    BY <1>1, <1>2, <2>1
  <2>2. CASE a \notin who \cap available
    BY <1>1, <1>2, <2>2
  <2> QED BY <2>1, <2>2
<1>6. ApprovalDecidedOnce'
  <2> SUFFICES ASSUME NEW a \in Approvals
               PROVE  /\ Len(told'[a]) <= 1
                      /\ outcome'[a] = "allow" => told'[a] = <<"allow">>
                      /\ outcome'[a] # "none" => a \notin pending' /\ deciding'[a] = "no"
    BY DEF ApprovalDecidedOnce
  <2>1. CASE a \in who \cap available
    <3>1. told'[a] = <<decision>> /\ outcome'[a] = "none"
      BY <1>2, <2>1
    <3> QED BY <3>1, <1>4
  <2>2. CASE a \notin who \cap available
    BY <1>1, <1>2, <2>2 DEF ApprovalDecidedOnce
  <2> QED BY <2>1, <2>2
<1> QED BY <1>3, <1>5, <1>6

\* So do the time-out, a cancellation that tells the CLI nothing, and its answer.
LEMMA ApprovalNextKeeps == ApprovalInv /\ [ApprovalNext]_approvalVars => ApprovalInv'
<1> SUFFICES ASSUME ApprovalInv, [ApprovalNext]_approvalVars PROVE ApprovalInv'
  OBVIOUS
<1> USE DEF ApprovalInv, ApprovalTypeOK, Decisions, ApprovalDecidedOnce
<1>1. CASE UNCHANGED approvalVars
  BY <1>1 DEF approvalVars
<1>2. ASSUME NEW a \in Approvals, AskApproval(a) PROVE ApprovalInv'
  BY <1>2 DEF AskApproval
<1>3. ASSUME NEW a \in Approvals, Decided(a) PROVE ApprovalInv'
  <2>1. PICK how \in {deciding[a], IF a \in available THEN "rejected" ELSE "deny"} :
          outcome' = [outcome EXCEPT ![a] = IF @ = "none" THEN how ELSE @]
    BY <1>3 DEF Decided
  <2>2. how = "allow" => told[a] = <<"allow">>
    BY <2>1
  <2> QED BY <1>3, <2>1, <2>2 DEF Decided
<1>4. ASSUME NEW a \in Approvals, Expire(a) PROVE ApprovalInv'
  BY <1>4 DEF Expire, Take
<1>5. ASSUME NEW a \in Approvals, ProcessGone(a) PROVE ApprovalInv'
  BY <1>5 DEF ProcessGone
<1>6. ASSUME NEW a \in Approvals, NEW decision \in Decisions, Respond({a}, decision) PROVE ApprovalInv'
  BY <1>6, RespondKeeps
<1>7. ASSUME NEW who \in SUBSET Approvals, CancelWhere(who) PROVE ApprovalInv'
  <2>1. CASE Respond(who, "deny")
    BY <2>1, RespondKeeps
  <2>2. CASE ~Respond(who, "deny")
    BY <1>7, <2>2 DEF CancelWhere, Take
  <2> QED BY <2>1, <2>2
<1> QED BY <1>1, <1>2, <1>3, <1>4, <1>5, <1>6, <1>7 DEF ApprovalNext

LEMMA ApprovalsAreKept == ApprovalSpec => []ApprovalInv
<1>1. ApprovalInit => ApprovalInv
  BY DEF ApprovalInit, ApprovalInv, ApprovalTypeOK, ApprovalDecidedOnce, Decisions
<1> QED BY <1>1, ApprovalNextKeeps, PTL DEF ApprovalSpec

\* An approval is decided once.
THEOREM ApprovalsDecidedOnce == ApprovalSpec => []ApprovalDecidedOnce
<1>1. ApprovalInv => ApprovalDecidedOnce
  BY DEF ApprovalInv
<1> QED BY <1>1, ApprovalsAreKept, PTL

\* The variables of the requests to the host keep their types.
THEOREM AskTypeCorrect == AskSpec => []AskTypeOK
BY AsksAreKept, PTL DEF AskInv

\* The variables of the approvals keep their types.
THEOREM ApprovalTypeCorrect == ApprovalSpec => []ApprovalTypeOK
BY ApprovalsAreKept, PTL DEF ApprovalInv

-----------------------------------------------------------------------------
(* The remote link: its sessions and the commands of the peer *)

LinkRecords ==
  [status : {"new", "creating", "connecting", "connected", "reconnecting"} \cup Ended,
   stopping : BOOLEAN, socket : 0..MaxSockets, cipher : BOOLEAN,
   last : 0..MaxSends, timer : BOOLEAN, ledger : SUBSET Commands]

LinkTypes ==
  /\ runtime \in Links \cup {NoLink}
  /\ link \in [Links -> LinkRecords]
  /\ \E n \in Nat : socketOf \in [1..n -> Links]
  /\ open \subseteq DOMAIN socketOf
  /\ sends \in 0..MaxSends
  /\ inbox \subseteq [of : Commands, socket : Nat, seq : 0..MaxSends]
  /\ command \in [Commands -> [at : {"new", "reserving", "running", "uploading", "done"}, runs : Nat]]

\* The sessions that were asked for, and those that can have run a command: not one
\* whose server has not answered, nor the current one while its ledger lacks it.
Begun == {l \in Links : link[l].status # "new"}
MayHaveRun(c) ==
  {l \in Links : /\ link[l].status \notin {"new", "creating"}
                 /\ l = runtime => c \in link[l].ledger}

LinkInv ==
  /\ LinkTypes
  /\ \A l \in Links : link[l].status \in {"new", "creating"} => link[l].ledger = {}
  /\ runtime # NoLink => link[runtime].status \notin {"new", "creating"}
  /\ IsFiniteSet(Begun)
  /\ \A c \in Commands : command[c].runs <= Cardinality(MayHaveRun(c))
  /\ IsFiniteSet(Uploads \cup Reservations) /\ Cardinality(Uploads \cup Reservations) <= MaxUploads

\* A session that can have run a command is not forgotten.
LEMMA RunsCounted ==
  ASSUME LinkInv, IsFiniteSet(Begun'), NEW c \in Commands, command'[c].runs = command[c].runs,
         MayHaveRun(c) \subseteq MayHaveRun(c)'
  PROVE  command'[c].runs <= Cardinality(MayHaveRun(c)')
<1>1. MayHaveRun(c)' \subseteq Begun'
  BY DEF MayHaveRun, Begun
<1>2. IsFiniteSet(MayHaveRun(c)')
  BY <1>1, FS_Subset
<1>3. IsFiniteSet(MayHaveRun(c)) /\ Cardinality(MayHaveRun(c)) <= Cardinality(MayHaveRun(c)')
  BY <1>2, FS_Subset
<1>4. Cardinality(MayHaveRun(c)) \in Nat /\ Cardinality(MayHaveRun(c)') \in Nat /\ command[c].runs \in Nat
  BY <1>2, <1>3, FS_CardinalityType DEF LinkInv, LinkTypes
<1>5. command[c].runs <= Cardinality(MayHaveRun(c))
  BY DEF LinkInv
<1> QED BY <1>3, <1>4, <1>5

\* What is no upload now counts for none.
LEMMA UploadsFew ==
  ASSUME LinkAssumption, LinkInv, (Uploads \cup Reservations)' \subseteq Uploads \cup Reservations
  PROVE  IsFiniteSet((Uploads \cup Reservations)') /\ Cardinality((Uploads \cup Reservations)') <= MaxUploads
<1>1. IsFiniteSet((Uploads \cup Reservations)')
      /\ Cardinality((Uploads \cup Reservations)') <= Cardinality(Uploads \cup Reservations)
  BY FS_Subset DEF LinkInv
<1>2. Cardinality((Uploads \cup Reservations)') \in Nat /\ Cardinality(Uploads \cup Reservations) \in Nat /\ MaxUploads \in Nat
  BY <1>1, FS_CardinalityType DEF LinkInv, LinkAssumption
<1> QED BY <1>1, <1>2 DEF LinkInv

\* A step that runs no command and begins no session.
LEMMA HistoryKeeps ==
  ASSUME LinkAssumption, LinkInv, LinkTypes',
         \A c \in Commands : command'[c].runs = command[c].runs,
         (Uploads \cup Reservations)' \subseteq Uploads \cup Reservations,
         \A l \in Links : link'[l].status = "new" <=> link[l].status = "new",
         \A l \in Links : link'[l].status = "creating" <=> link[l].status = "creating",
         \A l \in Links : link[l].status \in {"new", "creating"} => link'[l].ledger = {},
         \A l \in Links : l = runtime' => l = runtime /\ link[l].ledger \subseteq link'[l].ledger
  PROVE  LinkInv'
<1>1. Begun' = Begun
  BY DEF Begun
<1>2. \A c \in Commands : MayHaveRun(c) \subseteq MayHaveRun(c)'
  BY DEF MayHaveRun
<1>3. \A c \in Commands : command'[c].runs <= Cardinality(MayHaveRun(c)')
  BY <1>1, <1>2, RunsCounted DEF LinkInv
<1>5. \A l \in Links : link'[l].status \in {"new", "creating"} => link'[l].ledger = {}
  OBVIOUS
<1>6. runtime' # NoLink => link'[runtime'].status \notin {"new", "creating"}
  BY DEF LinkInv, LinkTypes
<1> QED BY <1>1, <1>3, UploadsFew, <1>5, <1>6 DEF LinkInv

\* The next socket has the next number.
LEMMA SocketNumbered ==
  ASSUME LinkAssumption, LinkTypes, NEW l \in Links, NewSocket(l)
  PROVE  /\ Cardinality(DOMAIN socketOf) + 1 \in 0..MaxSockets
         /\ \E n \in Nat : socketOf' \in [1..n -> Links]
         /\ open' \subseteq DOMAIN socketOf'
<1>1. PICK n \in Nat : socketOf \in [1..n -> Links]
  BY DEF LinkTypes
<1>2. Cardinality(DOMAIN socketOf) = n
  <2>1. DOMAIN socketOf = 1..n
    BY <1>1
  <2>2. Cardinality(1..n) = n
    BY FS_Interval
  <2> QED BY <2>1, <2>2
<1>3. n + 1 <= MaxSockets /\ MaxSockets \in Nat /\ open' = open \cup {n + 1}
      /\ socketOf' = [m \in 1..(n + 1) |-> IF m = n + 1 THEN l ELSE socketOf[m]]
  BY <1>2 DEF NewSocket, LinkAssumption
<1>4. socketOf' \in [1..(n + 1) -> Links]
  BY <1>1, <1>3
<1>5. open' \subseteq 1..(n + 1)
  BY <1>1, <1>3 DEF LinkTypes
<1>6. DOMAIN socketOf' = 1..(n + 1)
  BY <1>3
<1>7. \E m \in Nat : socketOf' \in [1..m -> Links]
  BY <1>4
<1> QED BY <1>1, <1>2, <1>3, <1>5, <1>6, <1>7

\* What was asked over a session that is over is forgotten.
LEMMA ForgottenKeeps ==
  ASSUME LinkTypes
  PROVE  /\ Forgotten \in [Commands -> [at : {"new", "reserving", "running", "uploading", "done"}, runs : Nat]]
         /\ \A c \in Commands : Forgotten[c].runs = command[c].runs /\ Forgotten[c].at \in {"new", "done"}
<1> SUFFICES ASSUME NEW c \in Commands
             PROVE  /\ Forgotten[c] \in [at : {"new", "reserving", "running", "uploading", "done"}, runs : Nat]
                    /\ Forgotten[c].runs = command[c].runs /\ Forgotten[c].at \in {"new", "done"}
  BY DEF Forgotten
<1>1. Forgotten[c] = IF command[c].at = "new" THEN command[c] ELSE [command[c] EXCEPT !.at = "done"]
  BY DEF Forgotten
<1>2. command[c] \in [at : {"new", "reserving", "running", "uploading", "done"}, runs : Nat]
  BY DEF LinkTypes
<1> QED BY <1>1, <1>2

\* Stopping a session leaves its status and the other sessions.
LEMMA ClearedKeeps ==
  ASSUME LinkAssumption, LinkTypes, NEW r \in Links \cup {NoLink}
  PROVE  /\ Cleared(r) \in [Links -> LinkRecords]
         /\ \A l \in Links : Cleared(r)[l].status = link[l].status
         /\ \A l \in Links : Cleared(r)[l].ledger = IF l = r THEN {} ELSE link[l].ledger
<1>1. CASE r = NoLink
  BY <1>1 DEF Cleared, LinkTypes, LinkAssumption
<1>2. CASE r # NoLink
  <2>1. Cleared(r) = [link EXCEPT ![r] = [link[r] EXCEPT !.stopping = TRUE, !.timer = FALSE, !.ledger = {}]]
    BY <1>2 DEF Cleared
  <2>2. [link[r] EXCEPT !.stopping = TRUE, !.timer = FALSE, !.ledger = {}] \in LinkRecords
    <3>1. link[r] \in LinkRecords
      BY <1>2 DEF LinkTypes
    <3> QED BY <3>1 DEF LinkRecords
  <2> QED BY <1>2, <2>1, <2>2 DEF LinkTypes
<1> QED BY <1>1, <1>2

\* The beginning of create() and the answer of the server.
LEMMA CreateKeeps ==
  ASSUME LinkAssumption, LinkInv, NEW l \in Links, CreateLink(l)
  PROVE  LinkInv'
<1>1. LinkTypes /\ runtime \in Links \cup {NoLink}
  BY DEF LinkInv, LinkTypes
<1>2. link[l].status = "new" /\ link' = [Cleared(runtime) EXCEPT ![l].status = "creating"] /\ runtime' = NoLink
      /\ command' = Forgotten /\ UNCHANGED <<socketOf, inbox, sends>> /\ open' \subseteq open
  BY DEF CreateLink
<1>3. link' = [Cleared(runtime) EXCEPT ![l] = [Cleared(runtime)[l] EXCEPT !.status = "creating"]]
  BY <1>2
<1>4. [Cleared(runtime)[l] EXCEPT !.status = "creating"] \in LinkRecords
  <2>1. Cleared(runtime)[l] \in LinkRecords
    BY <1>1, ClearedKeeps
  <2> QED BY <2>1 DEF LinkRecords
<1>5. link' \in [Links -> LinkRecords]
  BY <1>1, <1>3, <1>4, ClearedKeeps
<1>6. \A k \in Links : link'[k].status = IF k = l THEN "creating" ELSE link[k].status
  <2> TAKE k \in Links
  <2>1. Cleared(runtime) \in [Links -> LinkRecords] /\ Cleared(runtime)[k].status = link[k].status
    BY <1>1, ClearedKeeps
  <2> QED BY <1>3, <1>4, <2>1 DEF LinkRecords
<1>7. \A k \in Links : link'[k].ledger = IF k = runtime THEN {} ELSE link[k].ledger
  <2> TAKE k \in Links
  <2>1. /\ Cleared(runtime) \in [Links -> LinkRecords]
        /\ Cleared(runtime)[k].ledger = IF k = runtime THEN {} ELSE link[k].ledger
    BY <1>1, ClearedKeeps
  <2> QED BY <1>3, <2>1 DEF LinkRecords
<1>8. LinkTypes'
  BY <1>1, <1>2, <1>5, ForgottenKeeps DEF LinkTypes
<1>9. Begun' = Begun \cup {l}
  BY <1>6 DEF Begun
<1>10. IsFiniteSet(Begun')
  BY <1>9, FS_AddElement DEF LinkInv
<1>11. \A c \in Commands : MayHaveRun(c) \subseteq MayHaveRun(c)'
  BY <1>2, <1>6, <1>7 DEF MayHaveRun, LinkAssumption
<1>12. \A c \in Commands : command'[c].runs <= Cardinality(MayHaveRun(c)')
  BY <1>1, <1>2, <1>10, <1>11, RunsCounted, ForgottenKeeps
<1>13. (Uploads \cup Reservations)' \subseteq Uploads \cup Reservations
  BY <1>1, <1>2, ForgottenKeeps DEF Uploads, Reservations
<1>14. \A k \in Links : link'[k].status \in {"new", "creating"} => link'[k].ledger = {}
  BY <1>2, <1>6, <1>7 DEF LinkInv
<1> QED BY <1>2, <1>8, <1>10, <1>12, <1>13, <1>14, UploadsFew DEF LinkInv

\* A link is created and becomes that of the runtime.
LEMMA CreatedKeeps ==
  ASSUME LinkAssumption, LinkInv, NEW l \in Links, LinkCreated(l)
  PROVE  LinkInv'
<1>1. LinkTypes /\ runtime \in Links \cup {NoLink}
  BY DEF LinkInv, LinkTypes
<1> DEFINE n == Cardinality(DOMAIN socketOf) + 1
           new == [link[l] EXCEPT !.socket = n, !.timer = FALSE, !.status = "connecting"]
<1>2. /\ link[l].status = "creating" /\ runtime' = l /\ command' = Forgotten /\ UNCHANGED <<inbox, sends>>
      /\ NewSocket(l) /\ link' = [link EXCEPT ![l] = new]
  BY DEF LinkCreated, Connected
<1>3. n \in 0..MaxSockets
  BY <1>1, <1>2, SocketNumbered
<1>4. new \in LinkRecords /\ new.status = "connecting" /\ new.ledger = link[l].ledger
  <2>1. link[l] \in LinkRecords
    BY <1>1 DEF LinkTypes
  <2> HIDE DEF n
  <2> QED BY <2>1, <1>3 DEF LinkRecords
<1> HIDE DEF new
<1>5. link' \in [Links -> LinkRecords]
  BY <1>1, <1>2, <1>4 DEF LinkTypes
<1>6. LinkTypes'
  BY <1>1, <1>2, <1>5, ForgottenKeeps, SocketNumbered DEF LinkTypes
<1>7. \A k \in Links : /\ link'[k].status = (IF k = l THEN "connecting" ELSE link[k].status)
                       /\ link'[k].ledger = link[k].ledger
  BY <1>1, <1>2, <1>4 DEF LinkTypes
<1>8. Begun' = Begun
  BY <1>2, <1>7 DEF Begun
<1>9. \A c \in Commands : MayHaveRun(c) \subseteq MayHaveRun(c)'
  BY <1>2, <1>7 DEF MayHaveRun
<1>10. \A c \in Commands : command'[c].runs <= Cardinality(MayHaveRun(c)')
  BY <1>1, <1>2, <1>8, <1>9, RunsCounted, ForgottenKeeps DEF LinkInv
<1>11. (Uploads \cup Reservations)' \subseteq Uploads \cup Reservations
  BY <1>1, <1>2, ForgottenKeeps DEF Uploads, Reservations
<1>12. \A k \in Links : link'[k].status \in {"new", "creating"} => link'[k].ledger = {}
  BY <1>7 DEF LinkInv
<1>13. link'[runtime'].status \notin {"new", "creating"}
  BY <1>2, <1>7
<1> QED BY <1>6, <1>8, <1>10, <1>11, <1>12, <1>13, UploadsFew DEF LinkInv

\* A message that arrives: the command enters the ledger of the session it runs in.
LEMMA ReceiveKeeps ==
  ASSUME LinkAssumption, LinkInv, NEW m \in inbox, Receive(m)
  PROVE  LinkInv'
<1> DEFINE l == runtime
           c == m.of
<1>1. LinkTypes /\ c \in Commands /\ m.seq \in 0..MaxSends
  BY DEF LinkInv, LinkTypes
<1>2. inbox' = inbox \ {m} /\ UNCHANGED <<runtime, socketOf, open, sends>>
  BY DEF Receive
<1>3. CASE UNCHANGED <<link, command>>
  BY <1>1, <1>2, <1>3, HistoryKeeps DEF LinkTypes, LinkInv, Uploads, Reservations
<1>4. ASSUME l # NoLink, ~UNCHANGED <<link, command>> PROVE LinkInv'
  <2> DEFINE ledger == IF link[l].cipher THEN link[l].ledger \cup {c} ELSE link[l].ledger
             new == [link[l] EXCEPT !.last = m.seq, !.ledger = ledger]
  <2>1. /\ link' = [link EXCEPT ![l] = new]
        /\ IF link[l].cipher /\ c \notin link[l].ledger THEN Run(c) ELSE UNCHANGED command
    BY <1>4 DEF Receive, RememberRequest
  <2>2. l \in Links /\ link[l] \in LinkRecords /\ link[l].status \notin {"new", "creating"}
    BY <1>1, <1>4 DEF LinkTypes, LinkInv
  <2>3. new \in LinkRecords /\ new.status = link[l].status /\ new.ledger = ledger
    BY <1>1, <2>2 DEF LinkRecords
  <2> HIDE DEF new
  <2>4. link' \in [Links -> LinkRecords]
    BY <1>1, <2>1, <2>2, <2>3 DEF LinkTypes
  <2>5. \A k \in Links : /\ link'[k].status = link[k].status
                         /\ link'[k].ledger = IF k = l THEN ledger ELSE link[k].ledger
    BY <1>1, <2>1, <2>2, <2>3 DEF LinkTypes
  <2>6. CASE ~(link[l].cipher /\ c \notin link[l].ledger)
    <3>1. UNCHANGED command
      BY <2>1, <2>6
    <3>2. LinkTypes'
      BY <1>1, <1>2, <2>4, <3>1 DEF LinkTypes
    <3> QED BY <1>2, <2>2, <2>5, <3>1, <3>2, HistoryKeeps DEF LinkInv, Uploads, Reservations
  <2>7. CASE link[l].cipher /\ c \notin link[l].ledger
    <3>1. PICK at \in {"running", "reserving", "done"} :
            /\ at = "reserving" => Cardinality(Uploads \cup Reservations) < MaxUploads
            /\ command' = [command EXCEPT ![c] = [at |-> at, runs |-> command[c].runs + 1]]
      BY <2>1, <2>7 DEF Run
    <3>2. LinkTypes'
      <4>1. command[c].runs \in Nat
        BY <1>1 DEF LinkTypes
      <4>2. [at |-> at, runs |-> command[c].runs + 1] \in [at : {"new", "reserving", "running", "uploading", "done"}, runs : Nat]
        BY <4>1
      <4>3. command' \in [Commands -> [at : {"new", "reserving", "running", "uploading", "done"}, runs : Nat]]
        BY <1>1, <3>1, <4>2 DEF LinkTypes
      <4> QED BY <1>1, <1>2, <2>4, <4>3 DEF LinkTypes
    <3>3. Begun' = Begun
      BY <2>5 DEF Begun
    <3>4. MayHaveRun(c)' = MayHaveRun(c) \cup {l} /\ l \notin MayHaveRun(c)
      BY <1>2, <2>2, <2>5, <2>7 DEF MayHaveRun
    <3>5. MayHaveRun(c) \subseteq Begun
      BY DEF MayHaveRun, Begun
    <3>6. IsFiniteSet(MayHaveRun(c))
      BY <3>5, FS_Subset DEF LinkInv
    <3>7. Cardinality(MayHaveRun(c)') = Cardinality(MayHaveRun(c)) + 1
      BY <3>4, <3>6, FS_AddElement
    <3>8. Cardinality(MayHaveRun(c)) \in Nat /\ command[c].runs \in Nat /\ command[c].runs <= Cardinality(MayHaveRun(c))
      BY <1>1, <3>6, FS_CardinalityType DEF LinkInv, LinkTypes
    <3>9. command'[c].runs = command[c].runs + 1
      BY <1>1, <3>1 DEF LinkTypes
    <3>10. \A d \in Commands : command'[d].runs <= Cardinality(MayHaveRun(d)')
      <4> TAKE d \in Commands
      <4>1. CASE d = c
        BY <4>1, <3>7, <3>8, <3>9
      <4>2. CASE d # c
        <5>1. command'[d].runs = command[d].runs
          BY <1>1, <4>2, <3>1 DEF LinkTypes
        <5>2. MayHaveRun(d) \subseteq MayHaveRun(d)'
          BY <1>2, <2>5 DEF MayHaveRun
        <5> QED BY <3>3, <5>1, <5>2, RunsCounted DEF LinkInv
      <4> QED BY <4>1, <4>2
    <3>11. IsFiniteSet((Uploads \cup Reservations)') /\ Cardinality((Uploads \cup Reservations)') <= MaxUploads
      <4> DEFINE U == Uploads \cup Reservations
      <4>1. \A d \in Commands : d # c => command'[d] = command[d]
        BY <3>1, <1>1 DEF LinkTypes
      <4>2. command'[c].at = at
        BY <1>1, <3>1 DEF LinkTypes
      <4>3. CASE at # "reserving"
        <5>1. (Uploads \cup Reservations)' \subseteq Uploads \cup Reservations
          BY <4>1, <4>2, <4>3 DEF Uploads, Reservations
        <5> QED BY <5>1, UploadsFew
      <4>4. CASE at = "reserving"
        <5>1. (Uploads \cup Reservations)' \subseteq U \cup {c}
          BY <4>1 DEF Uploads, Reservations
        <5>2. IsFiniteSet(U \cup {c}) /\ Cardinality(U \cup {c}) <= Cardinality(U) + 1 /\ Cardinality(U) \in Nat
          <6>1. IsFiniteSet(U)
            BY DEF LinkInv
          <6>2. IsFiniteSet(U \cup {c}) /\ Cardinality(U \cup {c}) = IF c \in U THEN Cardinality(U) ELSE Cardinality(U) + 1
            BY <6>1, FS_AddElement
          <6>3. Cardinality(U) \in Nat
            BY <6>1, FS_CardinalityType
          <6> QED BY <6>2, <6>3
        <5>3. /\ IsFiniteSet((Uploads \cup Reservations)')
              /\ Cardinality((Uploads \cup Reservations)') <= Cardinality(U \cup {c})
          BY <5>1, <5>2, FS_Subset
        <5>4. /\ Cardinality((Uploads \cup Reservations)') \in Nat /\ Cardinality(U \cup {c}) \in Nat
              /\ MaxUploads \in Nat /\ Cardinality(U) < MaxUploads
          BY <5>2, <5>3, <3>1, <4>4, FS_CardinalityType DEF LinkAssumption
        <5> QED BY <5>2, <5>3, <5>4
      <4> QED BY <4>3, <4>4
    <3>12. \A k \in Links : link'[k].status \in {"new", "creating"} => link'[k].ledger = {}
      BY <2>2, <2>5 DEF LinkInv
    <3>13. runtime' # NoLink => link'[runtime'].status \notin {"new", "creating"}
      BY <1>2, <2>2, <2>5
    <3> QED BY <3>2, <3>3, <3>10, <3>11, <3>12, <3>13 DEF LinkInv
  <2> QED BY <2>6, <2>7
<1> QED BY <1>3, <1>4 DEF Receive

\* The key of the peer, the loss of a socket and the end of a session change neither
\* what was run nor, while the session is current, its ledger.
LEMMA LinkNextKeeps == LinkAssumption /\ LinkInv /\ [LinkNext]_linkVars => LinkInv'
<1> SUFFICES ASSUME LinkAssumption, LinkInv, [LinkNext]_linkVars PROVE LinkInv'
  OBVIOUS
<1>t. LinkTypes
  BY DEF LinkInv
<1>1. CASE UNCHANGED linkVars
  BY <1>1 DEF linkVars, LinkInv, LinkTypes, Begun, MayHaveRun, Uploads, Reservations
<1>2. ASSUME NEW l \in Links, CreateLink(l) \/ LinkCreated(l) PROVE LinkInv'
  BY <1>2, CreateKeeps, CreatedKeeps
<1>3. ASSUME NEW l \in Links, PeerKey(l) PROVE LinkInv'
  <2>1. PICK updated \in BOOLEAN :
          link' = [link EXCEPT ![l] = [link[l] EXCEPT !.cipher = TRUE, !.status = "connected",
                                                      !.last = IF updated THEN 0 ELSE @]]
    BY <1>3 DEF PeerKey
  <2> DEFINE new == [link[l] EXCEPT !.cipher = TRUE, !.status = "connected", !.last = IF updated THEN 0 ELSE @]
  <2>2. new \in LinkRecords /\ new.status = "connected" /\ new.ledger = link[l].ledger
    <3>1. link[l] \in LinkRecords /\ 0 \in 0..MaxSends
      BY <1>t DEF LinkTypes, LinkAssumption
    <3>2. PICK last \in 0..MaxSends : last = IF updated THEN 0 ELSE link[l].last
      BY <3>1 DEF LinkRecords
    <3>3. new = [link[l] EXCEPT !.cipher = TRUE, !.status = "connected", !.last = last]
      BY <3>2
    <3>4. new \in LinkRecords
      BY <3>1, <3>3 DEF LinkRecords
    <3> QED BY <3>1, <3>3, <3>4 DEF LinkRecords
  <2>3. link' = [link EXCEPT ![l] = new]
    BY <2>1
  <2> HIDE DEF new
  <2>4. LinkTypes'
    BY <1>3, <1>t, <2>2, <2>3 DEF LinkTypes, PeerKey
  <2>5. link[l].status \notin {"new", "creating"}
    BY <1>3 DEF PeerKey, LinkInv, LinkAssumption
  <2>6. \A k \in Links : /\ link'[k].status = (IF k = l THEN "connected" ELSE link[k].status)
                         /\ link'[k].ledger = link[k].ledger
    BY <1>t, <2>2, <2>3 DEF LinkTypes
  <2>7. UNCHANGED <<runtime, command>>
    BY <1>3 DEF PeerKey
  <2> QED BY <2>4, <2>5, <2>6, <2>7, HistoryKeeps DEF LinkInv, Uploads, Reservations
<1>4. ASSUME NEW l \in Links, Reconnect(l) PROVE LinkInv'
  <2> DEFINE n == Cardinality(DOMAIN socketOf) + 1
  <2>1. UNCHANGED <<runtime, inbox, sends, command>>
    BY <1>4 DEF Reconnect
  <2>2. PICK new \in LinkRecords : link' = [link EXCEPT ![l] = new] /\ new.status = link[l].status /\ new.ledger = link[l].ledger
    <3>0. link[l] \in LinkRecords
      BY <1>t DEF LinkTypes
    <3>1. CASE link' = [link EXCEPT ![l].timer = FALSE]
      <4> DEFINE rec == [link[l] EXCEPT !.timer = FALSE]
      <4>1. rec \in LinkRecords /\ rec.status = link[l].status /\ rec.ledger = link[l].ledger
        BY <3>0 DEF LinkRecords
      <4>2. link' = [link EXCEPT ![l] = rec]
        BY <3>1
      <4> HIDE DEF rec
      <4> QED BY <4>1, <4>2
    <3>2. CASE NewSocket(l) /\ link' = Connected(link, l)
      <4>1. n \in 0..MaxSockets
        BY <1>t, <3>2, SocketNumbered
      <4> HIDE DEF n
      <4> DEFINE rec == [link[l] EXCEPT !.socket = n, !.timer = FALSE]
      <4>2. rec \in LinkRecords /\ rec.status = link[l].status /\ rec.ledger = link[l].ledger
        BY <3>0, <4>1 DEF LinkRecords
      <4>3. link' = [link EXCEPT ![l] = rec]
        BY <3>2 DEF Connected, n
      <4> HIDE DEF rec
      <4> QED BY <4>2, <4>3
    <3> QED BY <1>4, <3>1, <3>2 DEF Reconnect
  <2>3. (\E m \in Nat : socketOf' \in [1..m -> Links]) /\ open' \subseteq DOMAIN socketOf'
    BY <1>4, <1>t, SocketNumbered DEF Reconnect, LinkTypes
  <2>4. LinkTypes'
    BY <1>t, <2>1, <2>2, <2>3 DEF LinkTypes
  <2>5. \A k \in Links : link'[k].status = link[k].status /\ link'[k].ledger = link[k].ledger
    BY <1>t, <2>2 DEF LinkTypes
  <2> QED BY <2>1, <2>4, <2>5, HistoryKeeps DEF LinkInv, Uploads, Reservations
<1>5. ASSUME NEW c \in Commands, PeerSends(c) PROVE LinkInv'
  <2>1. link[runtime].socket \in Nat /\ sends + 1 \in 0..MaxSends
    BY <1>5, <1>t DEF PeerSends, LinkTypes, LinkRecords, LinkAssumption
  <2>2. [of |-> c, socket |-> link[runtime].socket, seq |-> sends + 1] \in [of : Commands, socket : Nat, seq : 0..MaxSends]
    BY <2>1
  <2>3. LinkTypes'
    BY <1>5, <1>t, <2>1, <2>2 DEF PeerSends, LinkTypes
  <2>4. UNCHANGED <<runtime, link, command>>
    BY <1>5 DEF PeerSends
  <2> QED BY <2>3, <2>4, HistoryKeeps DEF LinkInv, Uploads, Reservations
<1>6. ASSUME NEW c \in Commands, CommandEnds(c) PROVE LinkInv'
  <2>1. PICK at \in {"done", "uploading"} : command' = [command EXCEPT ![c] = [command[c] EXCEPT !.at = at]]
    BY <1>6 DEF CommandEnds
  <2>2. command[c].at \in {"running", "reserving", "uploading"} /\ (at = "uploading" => command[c].at = "reserving")
    BY <1>6, <1>t, <2>1 DEF CommandEnds, LinkTypes
  <2>3. \A d \in Commands : /\ command'[d].runs = command[d].runs
                            /\ command'[d].at = IF d = c THEN at ELSE command[d].at
    BY <1>t, <2>1 DEF LinkTypes
  <2>4. command' \in [Commands -> [at : {"new", "reserving", "running", "uploading", "done"}, runs : Nat]]
    BY <1>t, <2>1 DEF LinkTypes
  <2>5. UNCHANGED <<runtime, link, socketOf, open, inbox, sends>>
    BY <1>6 DEF CommandEnds
  <2>6. LinkTypes'
    BY <1>t, <2>4, <2>5 DEF LinkTypes
  <2>7. (Uploads \cup Reservations)' \subseteq Uploads \cup Reservations
    BY <2>2, <2>3 DEF Uploads, Reservations
  <2> QED BY <2>3, <2>5, <2>6, <2>7, HistoryKeeps DEF LinkInv
<1>7. ASSUME NEW m \in inbox, Receive(m) PROVE LinkInv'
  BY <1>7, ReceiveKeeps
<1>8. ASSUME NEW n \in open, SocketClosed(n) PROVE LinkInv'
  <2> DEFINE l == socketOf[n]
  <2>1. l \in Links
    BY <1>t DEF LinkTypes
  <2>2. UNCHANGED <<runtime, socketOf, sends, command>> /\ open' \subseteq open /\ inbox' \subseteq inbox
    BY <1>8 DEF SocketClosed
  <2>3. PICK new \in LinkRecords :
          /\ link' = [link EXCEPT ![l] = new] /\ new.ledger = link[l].ledger
          /\ new.status = link[l].status \/ (l = runtime /\ new.status \in Ended \cup {"reconnecting"})
    <3>g. 0 \in 0..MaxSockets /\ link[l] \in LinkRecords
      BY <1>t, <2>1 DEF LinkTypes, LinkAssumption
    <3>1. CASE link' = [link EXCEPT ![l].socket = 0, ![l].cipher = FALSE]
      <4> DEFINE rec == [link[l] EXCEPT !.socket = 0, !.cipher = FALSE]
      <4>1. rec \in LinkRecords /\ rec.ledger = link[l].ledger /\ rec.status = link[l].status
        BY <3>g DEF LinkRecords
      <4>2. link' = [link EXCEPT ![l] = rec]
        BY <3>1
      <4> HIDE DEF rec
      <4> QED BY <4>1, <4>2
    <3>2. CASE l = runtime /\ \E how \in Ended : link' = [[link EXCEPT ![l].socket = 0, ![l].cipher = FALSE]
                                                   EXCEPT ![l].stopping = TRUE, ![l].status = how]
      <4>1. PICK how \in Ended : link' = [[link EXCEPT ![l].socket = 0, ![l].cipher = FALSE]
                                                   EXCEPT ![l].stopping = TRUE, ![l].status = how]
        BY <3>2
      <4> DEFINE rec == [link[l] EXCEPT !.socket = 0, !.cipher = FALSE, !.stopping = TRUE, !.status = how]
      <4>2. link' = [link EXCEPT ![l] = rec]
        BY <4>1, <2>1, <1>t DEF LinkTypes
      <4>3. rec \in LinkRecords /\ rec.ledger = link[l].ledger /\ rec.status = how
        BY <3>g DEF LinkRecords
      <4> HIDE DEF rec
      <4> QED BY <3>2, <4>2, <4>3
    <3>3. CASE l = runtime /\ link' = [[link EXCEPT ![l].socket = 0, ![l].cipher = FALSE]
                                         EXCEPT ![l].status = "reconnecting", ![l].timer = TRUE]
      <4> DEFINE rec == [link[l] EXCEPT !.socket = 0, !.cipher = FALSE, !.status = "reconnecting", !.timer = TRUE]
      <4>2. link' = [link EXCEPT ![l] = rec]
        BY <3>3, <2>1, <1>t DEF LinkTypes
      <4>3. rec \in LinkRecords /\ rec.ledger = link[l].ledger /\ rec.status = "reconnecting"
        BY <3>g DEF LinkRecords
      <4> HIDE DEF rec
      <4> QED BY <3>3, <4>2, <4>3
    <3> QED BY <1>8, <3>1, <3>2, <3>3 DEF SocketClosed
  <2>4. LinkTypes'
    BY <1>t, <2>2, <2>3 DEF LinkTypes
  <2>5. \A k \in Links : /\ link'[k].ledger = link[k].ledger
                         /\ link'[k].status = link[k].status \/ (k = runtime /\ link'[k].status \in Ended \cup {"reconnecting"})
    <3> TAKE k \in Links
    <3>1. link'[k] = IF k = l THEN new ELSE link[k]
      BY <1>t, <2>3 DEF LinkTypes
    <3>2. CASE k = l
      BY <3>1, <3>2, <2>3
    <3>3. CASE k # l
      BY <3>1, <3>3
    <3> QED BY <3>2, <3>3
  <2>6. runtime \in Links => link[runtime].status \notin {"new", "creating"}
    BY DEF LinkInv, LinkAssumption
  <2> QED BY <2>2, <2>4, <2>5, <2>6, HistoryKeeps DEF LinkInv, Uploads, Reservations, Ended
<1>9. CASE StopLink
  <2> DEFINE r == runtime
  <2>1. PICK how \in Ended, forget \in BOOLEAN :
          /\ link' = [(IF forget THEN Cleared(r) ELSE link) EXCEPT
                     ![r].stopping = TRUE, ![r].status = how,
                     ![r].timer = how = "expired" /\ ~forget /\ link[r].timer]
          /\ runtime' = IF forget THEN NoLink ELSE runtime
          /\ command' = IF forget THEN Forgotten ELSE command
    BY <1>9 DEF StopLink
  <2>2. r \in Links /\ UNCHANGED <<socketOf, open, inbox, sends>>
    BY <1>9, <1>t DEF StopLink, LinkTypes
  <2> DEFINE old == IF forget THEN Cleared(r) ELSE link
             timer == how = "expired" /\ ~forget /\ link[r].timer
             new == [old[r] EXCEPT !.stopping = TRUE, !.status = how, !.timer = timer]
  <2>3. /\ old \in [Links -> LinkRecords]
        /\ \A k \in Links : /\ old[k].status = link[k].status
                            /\ (k # r \/ ~forget) => (old[k].ledger = link[k].ledger)
    BY <1>t, <2>2, ClearedKeeps DEF LinkTypes
  <2>4. timer \in BOOLEAN
    OBVIOUS
  <2>5. link' = [old EXCEPT ![r] = new]
    BY <2>1, <2>2, <2>3
  <2> HIDE DEF old, timer
  <2>6. new \in LinkRecords /\ new.status = how /\ new.ledger = old[r].ledger
    BY <2>2, <2>3, <2>4 DEF LinkRecords
  <2> HIDE DEF new
  <2>7. \A k \in Links : /\ link'[k].status = IF k = r THEN how ELSE link[k].status
                         /\ (k # r \/ ~forget) => (link'[k].ledger = link[k].ledger)
    <3> TAKE k \in Links
    <3>1. link'[k] = IF k = r THEN new ELSE old[k]
      BY <2>2, <2>3, <2>5
    <3>2. CASE k = r
      BY <3>1, <3>2, <2>2, <2>3, <2>6
    <3>3. CASE k # r
      BY <3>1, <3>3, <2>3
    <3> QED BY <3>2, <3>3
  <2>8. command' \in [Commands -> [at : {"new", "reserving", "running", "uploading", "done"}, runs : Nat]]
    BY <1>t, <2>1, ForgottenKeeps DEF LinkTypes
  <2>9. \A c \in Commands : command'[c].runs = command[c].runs
    BY <1>t, <2>1, ForgottenKeeps
  <2>10. (Uploads \cup Reservations)' \subseteq Uploads \cup Reservations
    BY <1>t, <2>1, ForgottenKeeps DEF Uploads, Reservations
  <2>11. link' \in [Links -> LinkRecords]
    BY <2>2, <2>3, <2>5, <2>6
  <2>12. LinkTypes'
    BY <1>t, <2>1, <2>2, <2>8, <2>11 DEF LinkTypes
  <2>13. link[r].status \notin {"new", "creating"}
    BY <1>9 DEF LinkInv, StopLink
  <2> QED BY <2>1, <2>2, <2>7, <2>9, <2>10, <2>12, <2>13, HistoryKeeps DEF LinkInv, LinkAssumption, Ended
<1> QED BY <1>1, <1>2, <1>3, <1>4, <1>5, <1>6, <1>7, <1>8, <1>9 DEF LinkNext

\* The specification keeps it.
LEMMA LinksAreKept == LinkSpec => []LinkInv
<1>1. LinkInit /\ LinkAssumption => LinkInv
  <2> SUFFICES ASSUME LinkInit, LinkAssumption PROVE LinkInv
    OBVIOUS
  <2>1. socketOf \in [1..0 -> Links] /\ link \in [Links -> LinkRecords]
    BY DEF LinkInit, LinkRecords, LinkAssumption
  <2>2. LinkTypes
    BY <2>1 DEF LinkInit, LinkTypes, LinkAssumption
  <2>3. Begun = {} /\ Uploads \cup Reservations = {}
    BY DEF LinkInit, Begun, Uploads, Reservations
  <2>4. \A c \in Commands : command[c].runs = 0 /\ MayHaveRun(c) = {}
    BY DEF LinkInit, MayHaveRun
  <2>5. \A c \in Commands : command[c].runs <= Cardinality(MayHaveRun(c))
    BY <2>4, FS_EmptySet
  <2>6. \A l \in Links : link[l].ledger = {}
    BY DEF LinkInit
  <2>7. IsFiniteSet(Begun) /\ IsFiniteSet(Uploads \cup Reservations) /\ Cardinality(Uploads \cup Reservations) <= MaxUploads
    BY <2>3, FS_EmptySet DEF LinkAssumption
  <2> QED BY <2>2, <2>5, <2>6, <2>7 DEF LinkInv, LinkInit
<1> QED BY <1>1, LinkNextKeeps, LinkAssumption, PTL DEF LinkSpec

\* A session runs a command once as long as its ledger remembers it, and the uploads
\* never exceed their limit.
THEOREM CommandsRunOnce == LinkSpec => []RemoteCommandsOnce
<1>1. LinkAssumption /\ LinkInv => RemoteCommandsOnce
  <2> SUFFICES ASSUME LinkAssumption, LinkInv, NEW c \in Commands
               PROVE  command[c].runs <= Cardinality({l \in Links : link[l].status # "new"})
    BY DEF RemoteCommandsOnce, LinkInv
  <2>1. MayHaveRun(c) \subseteq Begun
    BY DEF MayHaveRun, Begun
  <2>2. IsFiniteSet(MayHaveRun(c)) /\ Cardinality(MayHaveRun(c)) <= Cardinality(Begun)
    BY <2>1, FS_Subset DEF LinkInv
  <2>3. Cardinality(MayHaveRun(c)) \in Nat /\ Cardinality(Begun) \in Nat /\ command[c].runs \in Nat
    BY <2>2, FS_CardinalityType DEF LinkInv, LinkTypes
  <2>4. command[c].runs <= Cardinality(Begun)
    BY <2>2, <2>3 DEF LinkInv
  <2> QED BY <2>4 DEF Begun
<1> QED BY <1>1, LinksAreKept, LinkAssumption, PTL

\* Every run of a command has taken a message: with those under way there are no
\* more than the peer has sent.
RunsHadMessages ==
  /\ IsFiniteSet(inbox)
  /\ \A c \in Commands : command[c].runs + Cardinality(inbox) <= sends

\* No command has run, and no message was added.
LEMMA NoRunNoMessage ==
  ASSUME LinkInv, RunsHadMessages, sends' = sends, inbox' \subseteq inbox,
         \A c \in Commands : command'[c].runs = command[c].runs
  PROVE  RunsHadMessages'
<1>1. IsFiniteSet(inbox') /\ Cardinality(inbox') <= Cardinality(inbox)
  BY FS_Subset DEF RunsHadMessages
<1>2. Cardinality(inbox') \in Nat /\ Cardinality(inbox) \in Nat
  BY <1>1, FS_CardinalityType DEF RunsHadMessages
<1>3. ASSUME NEW c \in Commands PROVE command'[c].runs + Cardinality(inbox') <= sends
  <2>1. command[c].runs \in Nat /\ sends \in Nat /\ command[c].runs + Cardinality(inbox) <= sends
    BY DEF LinkInv, LinkTypes, RunsHadMessages
  <2> QED BY <2>1, <1>1, <1>2
<1> QED BY <1>1, <1>3 DEF RunsHadMessages

LEMMA ForgottenRuns ==
  ASSUME LinkInv, NEW c \in Commands
  PROVE  Forgotten[c].runs = command[c].runs
BY DEF LinkInv, LinkTypes, Forgotten

\* Each step keeps it: a message is taken out as it is received.
LEMMA MessagesAreTaken == LinkInv /\ RunsHadMessages /\ [LinkNext]_linkVars => RunsHadMessages'
<1> SUFFICES ASSUME LinkInv, RunsHadMessages, [LinkNext]_linkVars PROVE RunsHadMessages'
  OBVIOUS
<1>1. ASSUME UNCHANGED <<inbox, sends>>, command' = command \/ command' = Forgotten PROVE RunsHadMessages'
  BY <1>1, NoRunNoMessage, ForgottenRuns
<1>2. CASE UNCHANGED linkVars
  BY <1>1, <1>2 DEF linkVars
<1>3. ASSUME NEW l \in Links, CreateLink(l) \/ LinkCreated(l) \/ PeerKey(l) \/ Reconnect(l) PROVE RunsHadMessages'
  BY <1>1, <1>3 DEF CreateLink, LinkCreated, PeerKey, Reconnect
<1>4. CASE StopLink
  BY <1>1, <1>4 DEF StopLink
<1>5. ASSUME NEW c \in Commands, PeerSends(c) PROVE RunsHadMessages'
  <2>1. PICK m : inbox' = inbox \cup {m}
    BY <1>5 DEF PeerSends
  <2>2. sends' = sends + 1 /\ command' = command
    BY <1>5 DEF PeerSends
  <2>3. /\ IsFiniteSet(inbox \cup {m}) /\ Cardinality(inbox) \in Nat
        /\ Cardinality(inbox \cup {m}) \in {Cardinality(inbox), Cardinality(inbox) + 1}
    BY FS_AddElement, FS_CardinalityType DEF RunsHadMessages
  <2>4. ASSUME NEW d \in Commands PROVE command'[d].runs + Cardinality(inbox') <= sends'
    <3>1. command[d].runs \in Nat /\ sends \in Nat /\ command[d].runs + Cardinality(inbox) <= sends
      BY DEF LinkInv, LinkTypes, RunsHadMessages
    <3> QED BY <3>1, <2>1, <2>2, <2>3
  <2> QED BY <2>1, <2>3, <2>4 DEF RunsHadMessages
<1>6. ASSUME NEW c \in Commands, CommandEnds(c) PROVE RunsHadMessages'
  <2>1. \E at : command' = [command EXCEPT ![c].at = at]
    BY <1>6 DEF CommandEnds
  <2>2. \A d \in Commands : command'[d].runs = command[d].runs
    BY <2>1 DEF LinkInv, LinkTypes
  <2> QED BY <1>6, <2>2, NoRunNoMessage DEF CommandEnds
<1>7. ASSUME NEW m \in inbox, Receive(m) PROVE RunsHadMessages'
  <2>1. inbox' = inbox \ {m} /\ sends' = sends
    BY <1>7 DEF Receive
  <2>2. command' = command \/ Run(m.of)
    BY <1>7 DEF Receive
  <2>3. CASE command' = command
    BY <2>1, <2>3, NoRunNoMessage
  <2>4. CASE Run(m.of)
    <3>1. PICK at : command' = [command EXCEPT ![m.of] = [at |-> at, runs |-> command[m.of].runs + 1]]
      BY <2>4 DEF Run
    <3>2. /\ IsFiniteSet(inbox \ {m}) /\ Cardinality(inbox) \in Nat /\ Cardinality(inbox \ {m}) = Cardinality(inbox) - 1
      BY FS_RemoveElement, FS_CardinalityType DEF RunsHadMessages
    <3>3. ASSUME NEW d \in Commands PROVE command'[d].runs + Cardinality(inbox') <= sends'
      <4>1. command[d].runs \in Nat /\ sends \in Nat /\ command[d].runs + Cardinality(inbox) <= sends
        BY DEF LinkInv, LinkTypes, RunsHadMessages
      <4>2. command'[d].runs \in {command[d].runs, command[d].runs + 1}
        BY <3>1 DEF LinkInv, LinkTypes
      <4> QED BY <4>1, <4>2, <3>2, <2>1
    <3> QED BY <2>1, <3>2, <3>3 DEF RunsHadMessages
  <2> QED BY <2>2, <2>3, <2>4
<1>8. ASSUME NEW n \in open, SocketClosed(n) PROVE RunsHadMessages'
  <2>1. inbox' \subseteq inbox /\ UNCHANGED <<sends, command>>
    BY <1>8 DEF SocketClosed
  <2> QED BY <2>1, NoRunNoMessage
<1> QED BY <1>2, <1>3, <1>4, <1>5, <1>6, <1>7, <1>8 DEF LinkNext

\* The sessions, their sockets, the messages and the commands keep their types, and a
\* command has not run more often than it was sent (LinkTypeOK).
THEOREM LinkTypeCorrect == LinkSpec => []LinkTypeOK
<1>1. LinkInit => RunsHadMessages
  <2> SUFFICES ASSUME LinkInit PROVE RunsHadMessages
    OBVIOUS
  <2>1. inbox = {} /\ sends = 0 /\ \A c \in Commands : command[c].runs = 0
    BY DEF LinkInit
  <2>2. IsFiniteSet(inbox) /\ Cardinality(inbox) = 0
    BY <2>1, FS_EmptySet
  <2> QED BY <2>1, <2>2 DEF RunsHadMessages
<1>2. LinkInv /\ RunsHadMessages /\ LinkAssumption => LinkTypeOK
  <2> SUFFICES ASSUME LinkInv, RunsHadMessages, LinkAssumption PROVE LinkTypeOK
    OBVIOUS
  <2>1. DOMAIN socketOf = 1..Cardinality(DOMAIN socketOf)
    <3>1. PICK n \in Nat : socketOf \in [1..n -> Links]
      BY DEF LinkInv, LinkTypes
    <3>2. Cardinality(1..n) = n
      BY FS_Interval
    <3> QED BY <3>1, <3>2
  <2>2. command \in [Commands -> [at : {"new", "reserving", "running", "uploading", "done"}, runs : 0..MaxSends]]
    <3>1. ASSUME NEW c \in Commands PROVE command[c].runs \in 0..MaxSends
      <4>1. /\ command[c].runs \in Nat /\ sends \in 0..MaxSends /\ command[c].runs + Cardinality(inbox) <= sends
            /\ Cardinality(inbox) \in Nat /\ MaxSends \in Nat
        BY FS_CardinalityType DEF LinkInv, LinkTypes, RunsHadMessages, LinkAssumption
      <4> QED BY <4>1
    <3> QED BY <3>1 DEF LinkInv, LinkTypes
  <2> QED BY <2>1, <2>2 DEF LinkTypeOK, LinkInv, LinkTypes, LinkRecords
<1> QED BY <1>1, <1>2, LinksAreKept, MessagesAreTaken, LinkAssumption, PTL DEF LinkSpec

-----------------------------------------------------------------------------
(* What a session of the link sends *)

Messages == [socket : Nat, seq : Nat]

SendTypes ==
  /\ sock \in [number : Nat, open : BOOLEAN, cipher : BOOLEAN]
  /\ sendNumber \in Nat /\ outbox \in Seq(Messages) /\ arrived \in Seq(Nat)
  /\ trusts \in Seq(TrustAsks)
  /\ life \in [left : Int, timer : Int, over : BOOLEAN]

\* Numbers grow along what has left, then along what waits, up to the last one given.
NumbersGrow ==
  /\ \A i, j \in 1..Len(arrived) : i < j => arrived[i] < arrived[j]
  /\ \A i, j \in 1..Len(outbox) : i < j => outbox[i].seq < outbox[j].seq
  /\ \A i \in 1..Len(arrived), j \in 1..Len(outbox) : arrived[i] < outbox[j].seq
  /\ \A i \in 1..Len(arrived) : arrived[i] <= sendNumber
  /\ \A j \in 1..Len(outbox) : outbox[j].seq <= sendNumber

\* What is owed over the open socket has left or waits, and waits for that socket.
OwedHere ==
  sock.open =>
    /\ ~sock.cipher => owed = {}
    /\ \A m \in owed : \/ \E i \in 1..Len(arrived) : arrived[i] = m
                       \/ \E j \in 1..Len(outbox) : outbox[j].seq = m
    /\ \A j \in 1..Len(outbox) : outbox[j].seq \in owed => outbox[j].socket = sock.number

SendInv ==
  /\ SendTypes /\ NumbersGrow /\ OwedHere
  /\ entries = Len(outbox) /\ Len(trusts) <= MaxTrusts
  /\ life.over => ~sock.open

\* A key that is taken out of the map is gone, the others stay.
LEMMA TrustsFewer ==
  ASSUME trusts \in Seq(TrustAsks), NEW a \in TrustAsks
  PROVE  WithoutTrust(a) \in Seq(TrustAsks) /\ Len(WithoutTrust(a)) <= Len(trusts)
<1>1. CASE a \notin ToSet(trusts)
  BY <1>1 DEF WithoutTrust
<1>2. CASE a \in ToSet(trusts)
  <2> DEFINE i == CHOOSE k \in DOMAIN trusts : trusts[k] = a
  <2>1. i \in 1..Len(trusts)
    BY <1>2 DEF ToSet
  <2> HIDE DEF i
  <2>2. /\ SubSeq(trusts, 1, i - 1) \in Seq(TrustAsks) /\ Len(SubSeq(trusts, 1, i - 1)) = i - 1
        /\ SubSeq(trusts, i + 1, Len(trusts)) \in Seq(TrustAsks)
        /\ Len(SubSeq(trusts, i + 1, Len(trusts))) = Len(trusts) - i
    BY <2>1, SubSeqProperties
  <2>3. WithoutTrust(a) = SubSeq(trusts, 1, i - 1) \o SubSeq(trusts, i + 1, Len(trusts))
    BY <1>2 DEF WithoutTrust, RemoveAt, i
  <2>4. /\ WithoutTrust(a) \in Seq(TrustAsks)
        /\ Len(WithoutTrust(a)) = Len(SubSeq(trusts, 1, i - 1)) + Len(SubSeq(trusts, i + 1, Len(trusts)))
    BY <2>2, <2>3, ConcatProperties
  <2>5. Len(trusts) \in Nat
    BY LenProperties
  <2>6. Len(WithoutTrust(a)) = (i - 1) + (Len(trusts) - i)
    BY <2>2, <2>4
  <2>7. ASSUME NEW n \in Nat, NEW k \in 1..n, NEW m, m = (k - 1) + (n - k) PROVE m <= n
    BY <2>7
  <2>8. Len(WithoutTrust(a)) <= Len(trusts)
    BY <2>1, <2>5, <2>6, <2>7
  <2> QED BY <2>4, <2>8
<1> QED BY <1>1, <1>2

\* The socket is closed, or replaced by one nothing is owed to.
LEMMA SocketKeeps ==
  ASSUME SendInv, UNCHANGED <<outbox, entries, sendNumber, arrived, trusts>>,
         sock' \in [number : Nat, open : BOOLEAN, cipher : BOOLEAN],
         life' \in [left : Int, timer : Int, over : BOOLEAN],
         life'.over => ~sock'.open,
         sock'.open => owed' = {} 
  PROVE  SendInv'
<1>1. SendTypes' /\ NumbersGrow'
  BY DEF SendInv, SendTypes, NumbersGrow
<1>2. OwedHere'
  BY DEF SendInv, OwedHere
<1> QED BY <1>1, <1>2 DEF SendInv

\* Each step of the sending side keeps it: a message that leaves is the oldest that waits.
LEMMA SendNextStateKeeps == LinkAssumption /\ SendInv /\ [SendNextState]_sendVars => SendInv'
<1> SUFFICES ASSUME LinkAssumption, SendInv, [SendNextState]_sendVars PROVE SendInv'
  OBVIOUS
<1>t. SendTypes
  BY DEF SendInv
<1>n. ASSUME NEW n \in Nat PROVE NoSocket(n) \in [number : Nat, open : BOOLEAN, cipher : BOOLEAN] /\ ~NoSocket(n).open
  BY DEF NoSocket
<1>1. CASE UNCHANGED sendVars
  BY <1>1 DEF sendVars, SendInv, SendTypes, NumbersGrow, OwedHere
<1>2. CASE SocketOpens
  BY <1>2, <1>t, SocketKeeps DEF SocketOpens, SendTypes
<1>3. CASE KeyAgreed
  <2>1. owed' = {} /\ life' = life /\ ~life.over
    BY <1>3 DEF KeyAgreed, SendInv, OwedHere
  <2>2. sock' \in [number : Nat, open : BOOLEAN, cipher : BOOLEAN]
    BY <1>3, <1>t DEF KeyAgreed, SendTypes
  <2> QED BY <1>3, <1>t, <2>1, <2>2, SocketKeeps DEF KeyAgreed, SendTypes
<1>4. CASE SocketLost
  BY <1>4, <1>n, <1>t, SocketKeeps DEF SocketLost, SendTypes
<1>5. CASE SendNext
  <2>1. outbox # <<>> /\ outbox' = Tail(outbox) /\ entries' = entries - 1 /\ UNCHANGED <<sendNumber, owed, trusts, life>>
    BY <1>5 DEF SendNext
  <2> DEFINE h == Head(outbox)
  <2>2. /\ Len(outbox) \in Nat /\ Len(outbox) >= 1 /\ h = outbox[1] /\ h \in Messages
        /\ outbox' \in Seq(Messages) /\ Len(outbox') = Len(outbox) - 1
        /\ \A j \in 1..Len(outbox') : outbox'[j] = outbox[j + 1]
    BY <2>1, <1>t, HeadTailProperties, EmptySeq DEF SendTypes
  <2>3. \A j \in 1..Len(outbox') : j + 1 \in 1..Len(outbox) /\ outbox[j + 1] \in Messages
    BY <2>2, <1>t, ElementOfSeq DEF SendTypes
  <2>4. CASE UNCHANGED arrived
    <3>1. \/ UNCHANGED sock /\ ~(IsConnected /\ ~life.over /\ h.socket = sock.number)
          \/ sock' = NoSocket(sock.number)
      <4>1. arrived \in Seq(Nat) /\ h.seq \in Nat
        BY <1>t, <2>2 DEF SendTypes, Messages
      <4>2. arrived' # Append(arrived, h.seq)
        BY <4>1, <2>4, AppendProperties
      <4> QED BY <1>5, <2>4, <4>2 DEF SendNext
    <3>2. sock' \in [number : Nat, open : BOOLEAN, cipher : BOOLEAN] /\ (sock'.open => sock.open)
      BY <3>1, <1>t, <1>n DEF SendTypes
    <3>3. SendTypes'
      BY <1>t, <2>1, <2>2, <2>4, <3>2 DEF SendTypes
    <3>4. NumbersGrow'
      BY <2>1, <2>2, <2>3, <2>4 DEF SendInv, NumbersGrow
    <3>5. OwedHere'
      <4>1. CASE ~sock'.open
        BY <4>1 DEF OwedHere
      <4>2. CASE sock'.open /\ ~sock.cipher
        <5>1. sock' = sock /\ owed = {}
          BY <4>2, <3>1, <1>t, <1>n, <3>2 DEF SendTypes, SendInv, OwedHere
        <5> QED BY <5>1, <2>1 DEF OwedHere
      <4>3. CASE sock'.open /\ sock.cipher
        <5>1. sock' = sock /\ sock.open /\ ~life.over
          BY <4>3, <3>1, <1>t, <1>n DEF SendTypes, SendInv
        <5>2. h.socket # sock.number
          BY <5>1, <4>3, <3>1, <1>t, <1>n DEF IsConnected, SendTypes
        <5>3. h.seq \notin owed
          BY <5>1, <5>2, <2>2 DEF SendInv, OwedHere
        <5>4. \A m \in owed : \/ \E i \in 1..Len(arrived) : arrived[i] = m
                              \/ \E j \in 1..Len(outbox') : outbox'[j].seq = m
          <6> TAKE m \in owed
          <6>1. ASSUME NEW j \in 1..Len(outbox), outbox[j].seq = m PROVE \E k \in 1..Len(outbox') : outbox'[k].seq = m
            <7>1. j # 1
              BY <5>3, <6>1, <2>2
            <7>2. j - 1 \in 1..Len(outbox') /\ outbox'[j - 1] = outbox[j]
              <8>1. Len(outbox') = Len(outbox) - 1 /\ \A i \in 1..Len(outbox') : outbox'[i] = outbox[i + 1]
                BY <2>2
              <8>2. j - 1 \in 1..Len(outbox') /\ (j - 1) + 1 = j
                BY <7>1, <8>1, <2>2
              <8> QED BY <8>1, <8>2
            <7> QED BY <7>2, <6>1
          <6> QED BY <5>1, <6>1 DEF SendInv, OwedHere
        <5>5. \A j \in 1..Len(outbox') : outbox'[j].seq \in owed => outbox'[j].socket = sock.number
          BY <5>1, <2>2, <2>3 DEF SendInv, OwedHere
        <5> QED BY <5>1, <5>4, <5>5, <4>3, <2>1, <2>4 DEF OwedHere
      <4> QED BY <4>1, <4>2, <4>3, <3>2, <1>t DEF SendTypes
    <3> QED BY <2>1, <2>2, <3>2, <3>3, <3>4, <3>5 DEF SendInv
  <2>5. CASE arrived' = Append(arrived, h.seq) /\ UNCHANGED sock
    <3>1. /\ arrived' \in Seq(Nat) /\ Len(arrived') = Len(arrived) + 1 /\ Len(arrived) \in Nat
          /\ \A i \in 1..Len(arrived) : arrived'[i] = arrived[i]
          /\ arrived'[Len(arrived) + 1] = h.seq
      <4>1. arrived \in Seq(Nat) /\ h.seq \in Nat
        BY <1>t, <2>2 DEF SendTypes, Messages
      <4> QED BY <4>1, <2>5, AppendProperties, LenProperties
    <3>2. SendTypes'
      BY <1>t, <2>1, <2>2, <2>5, <3>1 DEF SendTypes
    <3>3. \A i \in 1..Len(arrived) : arrived[i] < h.seq /\ arrived[i] \in Nat
      <4> TAKE i \in 1..Len(arrived)
      <4>1. arrived[i] \in Nat
        BY <1>t, ElementOfSeq DEF SendTypes
      <4>2. 1 \in 1..Len(outbox)
        BY <2>2
      <4> QED BY <2>2, <4>1, <4>2 DEF SendInv, NumbersGrow
    <3>4. \A j \in 1..Len(outbox') : h.seq < outbox'[j].seq
      BY <2>2, <2>3 DEF SendInv, NumbersGrow
    <3>5. \A i, j \in 1..Len(arrived') : i < j => arrived'[i] < arrived'[j]
      <4> TAKE i, j \in 1..Len(arrived')
      <4>1. CASE j = Len(arrived) + 1
        <5> HAVE i < j
        <5>1. i \in 1..Len(arrived)
          BY <4>1, <3>1
        <5> QED BY <4>1, <5>1, <3>1, <3>3
      <4>2. CASE j # Len(arrived) + 1
        <5>1. j \in 1..Len(arrived) /\ (i < j => i \in 1..Len(arrived))
          BY <4>2, <3>1
        <5> QED BY <5>1, <3>1 DEF SendInv, NumbersGrow
      <4> QED BY <4>1, <4>2
    <3>6. \A i, j \in 1..Len(outbox') : i < j => outbox'[i].seq < outbox'[j].seq
      BY <2>2, <2>3, SMTT(20) DEF SendInv, NumbersGrow
    <3>7. \A i \in 1..Len(arrived'), j \in 1..Len(outbox') : arrived'[i] < outbox'[j].seq
      <4> TAKE i \in 1..Len(arrived'), j \in 1..Len(outbox')
      <4>1. CASE i = Len(arrived) + 1
        BY <4>1, <3>1, <3>4
      <4>2. CASE i # Len(arrived) + 1
        <5>1. i \in 1..Len(arrived)
          BY <4>2, <3>1
        <5> QED BY <5>1, <3>1, <2>2, <2>3 DEF SendInv, NumbersGrow
      <4> QED BY <4>1, <4>2
    <3>8. \A i \in 1..Len(arrived') : arrived'[i] <= sendNumber'
      <4> TAKE i \in 1..Len(arrived')
      <4>1. CASE i = Len(arrived) + 1
        BY <4>1, <3>1, <2>1, <2>2 DEF SendInv, NumbersGrow
      <4>2. CASE i # Len(arrived) + 1
        <5>1. i \in 1..Len(arrived)
          BY <4>2, <3>1
        <5> QED BY <5>1, <3>1, <2>1 DEF SendInv, NumbersGrow
      <4> QED BY <4>1, <4>2
    <3>9. \A j \in 1..Len(outbox') : outbox'[j].seq <= sendNumber'
      BY <2>1, <2>2, <2>3 DEF SendInv, NumbersGrow
    <3>10. ASSUME sock.open PROVE \A m \in owed : \/ \E i \in 1..Len(arrived') : arrived'[i] = m
                                                 \/ \E j \in 1..Len(outbox') : outbox'[j].seq = m
      <4> TAKE m \in owed
      <4>1. ASSUME NEW i \in 1..Len(arrived), arrived[i] = m PROVE \E k \in 1..Len(arrived') : arrived'[k] = m
        <5>1. i \in 1..Len(arrived') /\ arrived'[i] = m
          BY <4>1, <3>1
        <5> QED BY <5>1
      <4>2. ASSUME NEW j \in 1..Len(outbox), outbox[j].seq = m
            PROVE  \/ \E i \in 1..Len(arrived') : arrived'[i] = m
                   \/ \E k \in 1..Len(outbox') : outbox'[k].seq = m
        <5>1. CASE j = 1
          <6>1. Len(arrived) + 1 \in 1..Len(arrived') /\ arrived'[Len(arrived) + 1] = m
            BY <5>1, <4>2, <3>1, <2>2
          <6> QED BY <6>1
        <5>2. CASE j # 1
          <6>1. j - 1 \in 1..Len(outbox') /\ outbox'[j - 1] = outbox[j]
            <7>1. Len(outbox') = Len(outbox) - 1 /\ \A i \in 1..Len(outbox') : outbox'[i] = outbox[i + 1]
              BY <2>2
            <7>2. j - 1 \in 1..Len(outbox') /\ (j - 1) + 1 = j
              BY <5>2, <7>1, <2>2
            <7> QED BY <7>1, <7>2
          <6> QED BY <6>1, <4>2
        <5> QED BY <5>1, <5>2
      <4> QED BY <3>10, <4>1, <4>2 DEF SendInv, OwedHere
    <3>11. OwedHere'
      <4> SUFFICES ASSUME sock.open PROVE OwedHere'
        BY <2>5 DEF OwedHere
      <4>1. \A j \in 1..Len(outbox') : outbox'[j].seq \in owed => outbox'[j].socket = sock.number
        BY <2>2, <2>3 DEF SendInv, OwedHere
      <4>2. ~sock.cipher => owed = {}
        BY DEF SendInv, OwedHere
      <4> QED BY <2>1, <2>5, <3>10, <4>1, <4>2 DEF OwedHere
    <3>12. NumbersGrow'
      BY <3>5, <3>6, <3>7, <3>8, <3>9 DEF NumbersGrow
    <3> QED BY <2>1, <2>2, <2>5, <3>2, <3>11, <3>12 DEF SendInv
  <2> QED BY <1>5, <2>4, <2>5 DEF SendNext
<1>6. CASE TimePasses
  <2>1. \A m, n \in Int : Least(m, n) \in Int
    BY DEF Least
  <2>2. life.left \in Int /\ life.timer \in Int /\ MaxDelay \in Int
    BY <1>t DEF SendTypes, LinkAssumption
  <2>3. /\ life' \in [left : Int, timer : Int, over : BOOLEAN]
        /\ \/ UNCHANGED sock /\ life'.over = life.over
           \/ sock' = NoSocket(sock.number)
    <3>1. CASE life' = [life EXCEPT !.left = @ - 1, !.timer = @ - 1] /\ UNCHANGED sock
      <4>1. life.left - 1 \in Int /\ life.timer - 1 \in Int
        BY <2>2
      <4>2. life' = [life EXCEPT !.left = life.left - 1, !.timer = life.timer - 1]
        BY <3>1
      <4> QED BY <3>1, <1>t, <4>1, <4>2 DEF SendTypes
    <3>2. CASE life' = [life EXCEPT !.left = @ - 1, !.timer = Least(life.left - 1, MaxDelay)] /\ UNCHANGED sock
      <4>1. life.left - 1 \in Int /\ Least(life.left - 1, MaxDelay) \in Int
        BY <2>2 DEF Least
      <4> QED BY <3>2, <1>t, <4>1 DEF SendTypes
    <3>3. CASE life' = [left |-> 0, timer |-> 0, over |-> TRUE] /\ sock' = NoSocket(sock.number)
      BY <3>3
    <3> QED BY <1>6, <3>1, <3>2, <3>3 DEF TimePasses
  <2>4. CASE UNCHANGED sock /\ life'.over = life.over
    BY <1>6, <1>t, <2>3, <2>4 DEF TimePasses, SendInv, SendTypes, NumbersGrow, OwedHere
  <2>5. CASE sock' = NoSocket(sock.number)
    BY <1>6, <1>t, <1>n, <2>3, <2>5, SocketKeeps DEF TimePasses, SendTypes
  <2> QED BY <2>3, <2>4, <2>5
<1>7. ASSUME NEW reliable \in BOOLEAN, SendMessage(reliable) PROVE SendInv'
  <2>1. sock.open /\ sock.cipher /\ UNCHANGED <<arrived, trusts, life>>
    BY <1>7 DEF SendMessage, IsConnected
  <2>2. CASE entries >= MaxQueue /\ sock' = NoSocket(sock.number) /\ UNCHANGED <<outbox, entries, sendNumber>>
    BY <1>t, <1>n, <2>1, <2>2, SocketKeeps DEF SendTypes
  <2>3. CASE UNCHANGED <<sock, owed, outbox, entries, sendNumber>>
    BY <2>1, <2>3 DEF SendInv, SendTypes, NumbersGrow, OwedHere
  <2>4. CASE /\ sendNumber' = sendNumber + 1 /\ UNCHANGED sock
             /\ outbox' = Append(outbox, [socket |-> sock.number, seq |-> sendNumber + 1])
             /\ entries' = entries + 1
             /\ owed' = (IF reliable THEN owed \cup {sendNumber + 1} ELSE owed)
    <3> DEFINE new == [socket |-> sock.number, seq |-> sendNumber + 1]
               n == Len(outbox)
    <3>1. new \in Messages /\ sendNumber \in Nat /\ n \in Nat
      BY <1>t DEF SendTypes, Messages
    <3>2. /\ outbox' \in Seq(Messages) /\ Len(outbox') = n + 1 /\ outbox'[n + 1] = new
          /\ \A j \in 1..n : outbox'[j] = outbox[j]
      BY <1>t, <2>4, <3>1, AppendProperties DEF SendTypes
    <3>3. \A j \in 1..n : outbox[j].seq \in Nat /\ outbox[j].seq <= sendNumber
      <4> TAKE j \in 1..n
      <4>1. outbox[j] \in Messages
        BY <1>t, ElementOfSeq DEF SendTypes
      <4> QED BY <4>1 DEF Messages, SendInv, NumbersGrow
    <3>4. \A i \in 1..Len(arrived) : arrived[i] \in Nat /\ arrived[i] <= sendNumber
      BY <1>t, ElementOfSeq DEF SendTypes, SendInv, NumbersGrow
    <3>5. SendTypes'
      BY <1>t, <2>1, <2>4, <3>1, <3>2 DEF SendTypes
    <3>6. \A j \in 1..Len(outbox') : j \in 1..n \/ (j = n + 1 /\ outbox'[j] = new)
      BY <3>1, <3>2
    <3>7. \A i, j \in 1..Len(outbox') : i < j => outbox'[i].seq < outbox'[j].seq
      <4> TAKE i, j \in 1..Len(outbox')
      <4>1. CASE j \in 1..n
        BY <4>1, <3>1, <3>2, SMTT(20) DEF SendInv, NumbersGrow
      <4>2. CASE j = n + 1 /\ outbox'[j] = new
        <5> HAVE i < j
        <5>1. i \in 1..n /\ outbox'[i].seq <= sendNumber
          BY <4>2, <3>1, <3>2, <3>3
        <5> QED BY SMTT(20), <5>1, <4>2, <3>1, <3>2, <3>3
      <4> QED BY <3>6, <4>1, <4>2
    <3>8. \A i \in 1..Len(arrived), j \in 1..Len(outbox') : arrived[i] < outbox'[j].seq
      <4> TAKE i \in 1..Len(arrived), j \in 1..Len(outbox')
      <4>1. CASE j \in 1..n
        BY <4>1, <3>2 DEF SendInv, NumbersGrow
      <4>2. CASE j = n + 1 /\ outbox'[j] = new
        BY SMTT(20), <4>2, <3>1, <3>4
      <4> QED BY <3>6, <4>1, <4>2
    <3>9. \A j \in 1..Len(outbox') : outbox'[j].seq <= sendNumber'
      BY <2>4, <3>1, <3>2, <3>3, <3>6
    <3>10. \A i \in 1..Len(arrived) : arrived[i] <= sendNumber'
      BY <2>4, <3>1, <3>4
    <3>11. NumbersGrow'
      BY <2>1, <3>7, <3>8, <3>9, <3>10 DEF NumbersGrow, SendInv
    <3>12. \A m \in owed' : \/ \E i \in 1..Len(arrived) : arrived[i] = m
                            \/ \E j \in 1..Len(outbox') : outbox'[j].seq = m
      <4> TAKE m \in owed'
      <4>1. CASE m = sendNumber + 1
        <5>1. n + 1 \in 1..Len(outbox') /\ outbox'[n + 1].seq = m
          BY <4>1, <3>1, <3>2
        <5> QED BY <5>1
      <4>2. CASE m # sendNumber + 1
        <5>1. m \in owed
          BY <4>2, <2>4
        <5>2. ASSUME NEW j \in 1..n, outbox[j].seq = m PROVE \E k \in 1..Len(outbox') : outbox'[k].seq = m
          <6>1. j \in 1..Len(outbox') /\ outbox'[j].seq = m
            BY <5>2, <3>1, <3>2
          <6> QED BY <6>1
        <5> QED BY <5>1, <5>2, <2>1 DEF SendInv, OwedHere
      <4> QED BY <4>1, <4>2
    <3>13. \A j \in 1..Len(outbox') : outbox'[j].seq \in owed' => outbox'[j].socket = sock.number
      <4> TAKE j \in 1..Len(outbox')
      <4>1. CASE j \in 1..n
        <5>1. outbox'[j].seq # sendNumber + 1 /\ outbox'[j] = outbox[j]
          BY <4>1, <3>1, <3>2, <3>3
        <5> QED BY <5>1, <4>1, <2>1, <2>4 DEF SendInv, OwedHere
      <4>2. CASE j = n + 1 /\ outbox'[j] = new
        BY <4>2
      <4> QED BY <3>6, <4>1, <4>2
    <3>14. OwedHere'
      BY <2>1, <2>4, <3>12, <3>13 DEF OwedHere
    <3> QED BY <2>1, <2>4, <3>1, <3>2, <3>5, <3>11, <3>14 DEF SendInv
  <2> QED BY <1>7, <2>2, <2>3, <2>4 DEF SendMessage, Overflow
<1>8. ASSUME NEW a \in TrustAsks, TrustRequested(a) \/ TrustResolved(a) PROVE SendInv'
  <2>1. UNCHANGED <<sock, outbox, entries, sendNumber, arrived, owed, life>>
    BY <1>8 DEF TrustRequested, TrustResolved
  <2>2. WithoutTrust(a) \in Seq(TrustAsks) /\ Len(WithoutTrust(a)) <= Len(trusts) /\ Len(trusts) <= MaxTrusts
        /\ Len(trusts) \in Nat /\ Len(WithoutTrust(a)) \in Nat /\ MaxTrusts \in Nat
    BY <1>t, TrustsFewer, LenProperties DEF SendInv, SendTypes, LinkAssumption
  <2>3. trusts' \in Seq(TrustAsks) /\ Len(trusts') <= MaxTrusts
    <3>1. CASE trusts' = WithoutTrust(a)
      BY <3>1, <2>2
    <3>2. CASE TrustRequested(a)
      <4> DEFINE kept == Append(WithoutTrust(a), a)
      <4>1. kept \in Seq(TrustAsks) /\ kept # <<>> /\ Len(kept) = Len(WithoutTrust(a)) + 1
        BY <2>2, AppendProperties
      <4>2. Tail(kept) \in Seq(TrustAsks) /\ Len(Tail(kept)) = Len(kept) - 1
        BY <4>1, HeadTailProperties
      <4>3. trusts' = IF Len(kept) > MaxTrusts THEN Tail(kept) ELSE kept
        BY <3>2 DEF TrustRequested
      <4> HIDE DEF kept
      <4> QED BY <4>1, <4>2, <4>3, <2>2
    <3> QED BY <1>8, <3>1, <3>2 DEF TrustResolved
  <2> QED BY <2>1, <2>3 DEF SendInv, SendTypes, NumbersGrow, OwedHere
<1> QED BY <1>1, <1>2, <1>3, <1>4, <1>5, <1>6, <1>7, <1>8 DEF SendNextState

\* The specification keeps it.
LEMMA SendsAreKept == SendSpec => []SendInv
<1>1. SendInit /\ LinkAssumption => SendInv
  <2> SUFFICES ASSUME SendInit, LinkAssumption PROVE SendInv
    OBVIOUS
  <2>1. Least(Lifetime, MaxDelay) \in Int
    BY DEF Least, LinkAssumption
  <2>2. SendTypes /\ ~sock.open
    BY <2>1, EmptySeq DEF SendInit, SendTypes, NoSocket, LinkAssumption
  <2>3. NumbersGrow /\ OwedHere
    BY <2>2 DEF SendInit, NumbersGrow, OwedHere
  <2> QED BY <2>2, <2>3 DEF SendInit, SendInv, LinkAssumption
<1> QED BY <1>1, SendNextStateKeeps, LinkAssumption, PTL DEF SendSpec

\* Messages leave in the order of their numbers, the queue keeps within its limit, and no
\* reliable message is passed over while the connection lasts.
THEOREM MessagesLeaveInOrder == SendSpec => []SendsInOrder
<1>1. SendInv => SendsInOrder
  <2> SUFFICES ASSUME SendInv PROVE SendsInOrder
    OBVIOUS
  <2>1. DOMAIN arrived = 1..Len(arrived) /\ DOMAIN outbox = 1..Len(outbox)
    BY LenProperties DEF SendInv, SendTypes
  <2>2. IsConnected => owed \subseteq ToSet(arrived) \cup {m.seq : m \in ToSet(outbox)}
    BY <2>1 DEF SendInv, OwedHere, IsConnected, ToSet
  <2> QED BY <2>1, <2>2 DEF SendsInOrder, SendInv, NumbersGrow
<1> QED BY <1>1, SendsAreKept, PTL

\* The bounds of what a session sends: the timer runs out within the session's time.
WaitingMessages == [socket : 1..MaxSockets, seq : 1..MaxSends]
SendBounds ==
  /\ sock.number <= MaxSockets /\ (sock.open => sock.number >= 1)
  /\ entries <= MaxQueue /\ sendNumber <= MaxSends
  /\ outbox \in Seq(WaitingMessages) /\ arrived \in Seq(1..MaxSends)
  /\ owed \subseteq 0..MaxSends
  /\ life.left \in 0..Lifetime /\ life.timer \in 0..MaxDelay /\ life.timer <= life.left

LEMMA LeastBetween ==
  ASSUME NEW a \in Nat, NEW b \in Nat
  PROVE  Least(a, b) \in Nat /\ Least(a, b) <= a /\ Least(a, b) <= b
BY DEF Least

\* Each step of the sending side keeps the bounds.
LEMMA SendNextStaysWithin == LinkAssumption /\ SendInv /\ SendBounds /\ [SendNextState]_sendVars => SendBounds'
<1> SUFFICES ASSUME LinkAssumption, SendInv, SendBounds, [SendNextState]_sendVars PROVE SendBounds'
  OBVIOUS
<1>t. /\ sock \in [number : Nat, open : BOOLEAN, cipher : BOOLEAN] /\ sock.number \in Nat
      /\ sendNumber \in Nat /\ entries = Len(outbox) /\ entries \in Nat
      /\ life \in [left : Int, timer : Int, over : BOOLEAN]
      /\ MaxSockets \in Nat /\ MaxSends \in Nat /\ MaxQueue \in Nat /\ Lifetime \in Nat /\ MaxDelay \in Nat
  BY LenProperties DEF SendInv, SendTypes, LinkAssumption
<1>q. NoSocket(sock.number).number = sock.number /\ ~NoSocket(sock.number).open
  BY DEF NoSocket
<1>1. CASE UNCHANGED sendVars
  BY <1>1 DEF SendBounds, sendVars
<1>2. CASE SocketOpens
  <2>1. /\ sock'.number = sock.number + 1 /\ sock.number < MaxSockets /\ owed' = {}
        /\ UNCHANGED <<outbox, entries, sendNumber, arrived, life>>
    BY <1>2 DEF SocketOpens
  <2>2. sock'.number <= MaxSockets /\ sock'.number >= 1
    BY <2>1, <1>t
  <2> QED BY <2>1, <2>2 DEF SendBounds
<1>3. CASE KeyAgreed
  <2>1. sock'.number = sock.number /\ sock'.open = sock.open
    BY <1>3, <1>t DEF KeyAgreed
  <2> QED BY <1>3, <2>1 DEF KeyAgreed, SendBounds
<1>4. CASE SocketLost
  BY <1>4, <1>q DEF SocketLost, SendBounds
<1>5. CASE SendNext
  <2>1. outbox # <<>> /\ outbox' = Tail(outbox) /\ entries' = entries - 1 /\ UNCHANGED <<sendNumber, owed, life>>
    BY <1>5 DEF SendNext
  <2>2. Tail(outbox) \in Seq(WaitingMessages) /\ Head(outbox) \in WaitingMessages
    BY <2>1, HeadTailProperties DEF SendBounds
  <2>3. entries - 1 <= MaxQueue
    BY <1>t DEF SendBounds
  <2>4. Head(outbox).seq \in 1..MaxSends
    BY <2>2 DEF WaitingMessages
  <2>5. /\ arrived' = Append(arrived, Head(outbox).seq) \/ UNCHANGED arrived
        /\ sock' = NoSocket(sock.number) \/ UNCHANGED sock
    BY <1>5 DEF SendNext
  <2>6. arrived' \in Seq(1..MaxSends)
    <3>1. arrived \in Seq(1..MaxSends)
      BY DEF SendBounds
    <3>2. Append(arrived, Head(outbox).seq) \in Seq(1..MaxSends)
      BY <3>1, <2>4, AppendProperties
    <3> QED BY <3>1, <3>2, <2>5
  <2>7. sock'.number <= MaxSockets /\ (sock'.open => sock'.number >= 1)
    BY <2>5, <1>q DEF SendBounds
  <2> QED BY <2>1, <2>2, <2>3, <2>6, <2>7 DEF SendBounds
<1>6. CASE TimePasses
  <2>1. UNCHANGED <<outbox, entries, sendNumber, arrived, owed>>
    BY <1>6 DEF TimePasses
  <2>0. life.left \in Nat /\ life.timer \in Nat /\ life.left <= Lifetime /\ life.timer <= MaxDelay /\ life.timer <= life.left
    BY <1>t DEF SendBounds
  <2>2. CASE life.timer > 1
    <3>1. life' = [life EXCEPT !.left = life.left - 1, !.timer = life.timer - 1] /\ UNCHANGED sock
      BY <1>6, <2>2 DEF TimePasses
    <3>2. life'.left = life.left - 1 /\ life'.timer = life.timer - 1
      BY <3>1, <1>t
    <3>3. life'.left \in 0..Lifetime /\ life'.timer \in 0..MaxDelay /\ life'.timer <= life'.left
      BY <3>2, <2>0, <2>2, <1>t
    <3> QED BY <2>1, <3>1, <3>3 DEF SendBounds
  <2>3. CASE ~(life.timer > 1) /\ life.left > 1
    <3>1. life' = [life EXCEPT !.left = life.left - 1, !.timer = Least(life.left - 1, MaxDelay)] /\ UNCHANGED sock
      BY <1>6, <2>3 DEF TimePasses
    <3>2. life'.left = life.left - 1 /\ life'.timer = Least(life.left - 1, MaxDelay)
      BY <3>1, <1>t
    <3>3. life.left - 1 \in Nat
      BY <2>0, <2>3
    <3> DEFINE next == Least(life.left - 1, MaxDelay)
    <3>5. next \in Nat /\ next <= life.left - 1 /\ next <= MaxDelay
      BY <3>3, <1>t, LeastBetween
    <3> HIDE DEF next
    <3>4. life'.left \in 0..Lifetime /\ life'.timer \in 0..MaxDelay /\ life'.timer <= life'.left
      <4>1. life'.left = life.left - 1 /\ life'.timer = next
        BY <3>2 DEF next
      <4> QED BY <4>1, <3>3, <3>5, <2>0, <1>t
    <3> QED BY <2>1, <3>1, <3>4 DEF SendBounds
  <2>4. CASE ~(life.timer > 1) /\ ~(life.left > 1)
    <3>1. life' = [left |-> 0, timer |-> 0, over |-> TRUE] /\ sock' = NoSocket(sock.number)
      BY <1>6, <2>4 DEF TimePasses
    <3>2. life'.left = 0 /\ life'.timer = 0 /\ 0 \in 0..Lifetime /\ 0 \in 0..MaxDelay
      BY <3>1, <1>t
    <3> QED BY <2>1, <3>1, <3>2, <1>q DEF SendBounds
  <2> QED BY <2>2, <2>3, <2>4
<1>7. ASSUME NEW reliable \in BOOLEAN, SendMessage(reliable) PROVE SendBounds'
  <2>1. sock.open /\ UNCHANGED <<arrived, life>>
    BY <1>7 DEF SendMessage, IsConnected
  <2>2. CASE entries >= MaxQueue
    <3>1. /\ sock' = NoSocket(sock.number) \/ UNCHANGED sock
          /\ owed' \in {owed, owed \cup {Unnumbered}} /\ UNCHANGED <<outbox, entries, sendNumber>>
      BY <1>7, <2>2 DEF SendMessage, Overflow
    <3>2. Unnumbered \in 0..MaxSends
      BY <1>t DEF Unnumbered
    <3> QED BY <2>1, <3>1, <3>2, <1>q DEF SendBounds
  <2>3. CASE ~(entries >= MaxQueue)
    <3> DEFINE new == [socket |-> sock.number, seq |-> sendNumber + 1]
    <3>1. /\ sendNumber < MaxSends /\ sendNumber' = sendNumber + 1 /\ outbox' = Append(outbox, new)
          /\ entries' = entries + 1 /\ owed' \in {owed, owed \cup {sendNumber + 1}} /\ UNCHANGED sock
      BY <1>7, <2>3 DEF SendMessage
    <3>2. sendNumber + 1 \in 1..MaxSends /\ sock.number \in 1..MaxSockets
      BY <2>1, <3>1, <1>t DEF SendBounds
    <3>3. new \in WaitingMessages
      BY <3>2 DEF WaitingMessages
    <3>4. Append(outbox, new) \in Seq(WaitingMessages)
      BY <3>3, AppendProperties DEF SendBounds
    <3>5. entries' <= MaxQueue /\ sendNumber' <= MaxSends /\ sendNumber + 1 \in 0..MaxSends
      BY <2>3, <3>1, <1>t
    <3> HIDE DEF new
    <3>6. owed' \subseteq 0..MaxSends
      BY <3>1, <3>5 DEF SendBounds
    <3> QED BY <2>1, <3>1, <3>4, <3>5, <3>6 DEF SendBounds
  <2> QED BY <2>2, <2>3
<1>8. ASSUME NEW a \in TrustAsks, TrustRequested(a) \/ TrustResolved(a) PROVE SendBounds'
  BY <1>8 DEF TrustRequested, TrustResolved, SendBounds
<1> QED BY <1>1, <1>2, <1>3, <1>4, <1>5, <1>6, <1>7, <1>8 DEF SendNextState

\* The socket, the queue, what has left and the timer keep their types and bounds (SendTypeOK).
THEOREM SendTypeCorrect == SendSpec => []SendTypeOK
<1>1. SendInit /\ LinkAssumption => SendBounds
  <2> SUFFICES ASSUME SendInit, LinkAssumption PROVE SendBounds
    OBVIOUS
  <2>1. Least(Lifetime, MaxDelay) \in Nat /\ Least(Lifetime, MaxDelay) <= Lifetime /\ Least(Lifetime, MaxDelay) <= MaxDelay
    BY LeastBetween DEF LinkAssumption
  <2>2. life.left \in 0..Lifetime /\ life.timer \in 0..MaxDelay /\ life.timer <= life.left
    BY <2>1 DEF SendInit, LinkAssumption
  <2>3. sock.number = 0 /\ ~sock.open /\ outbox \in Seq(WaitingMessages) /\ arrived \in Seq(1..MaxSends) /\ owed = {}
    BY EmptySeq DEF SendInit, NoSocket
  <2>4. sock.number <= MaxSockets /\ entries <= MaxQueue /\ sendNumber <= MaxSends
    BY <2>3 DEF SendInit, LinkAssumption
  <2> QED BY <2>2, <2>3, <2>4 DEF SendBounds
<1>2. SendInv /\ SendBounds /\ LinkAssumption => SendTypeOK
  <2> SUFFICES ASSUME SendInv, SendBounds, LinkAssumption PROVE SendTypeOK
    OBVIOUS
  <2>1. /\ sock \in [number : Nat, open : BOOLEAN, cipher : BOOLEAN] /\ sendNumber \in Nat
        /\ life \in [left : Int, timer : Int, over : BOOLEAN] /\ trusts \in Seq(TrustAsks)
        /\ entries \in Nat /\ sock.number \in Nat
    BY LenProperties DEF SendInv, SendTypes
  <2>2. sock.number \in 0..MaxSockets /\ entries \in 0..MaxQueue /\ sendNumber \in 0..MaxSends
    BY <2>1 DEF SendBounds, LinkAssumption
  <2>3. sock \in [number : 0..MaxSockets, open : BOOLEAN, cipher : BOOLEAN]
    BY <2>1, <2>2
  <2>4. life \in [left : 0..Lifetime, timer : 0..MaxDelay, over : BOOLEAN]
    BY <2>1 DEF SendBounds
  <2> QED BY <2>1, <2>2, <2>3, <2>4 DEF SendTypeOK, SendBounds, WaitingMessages
<1> QED BY <1>1, <1>2, SendsAreKept, SendNextStaysWithin, LinkAssumption, PTL DEF SendSpec

-----------------------------------------------------------------------------
(* The commands of the CLI *)

CmdSpec == CmdInit /\ [][CommandNext]_cmdVars

Calls == {"idle", "asked", "late", "waiting", "cancelling", "settled"}
CliRecords == [sent : 0..MaxOutputs, end : Endings \union {"none"}, cancel : BOOLEAN]
BufferRecords == [n : 0..BufferCap, end : Endings \union {"none"}, cut : BOOLEAN, live : BOOLEAN]
HeardRecords == [n : 0..MaxOutputs, end : Endings \union {"none"}]
ResultRecords == [how : {"none", "ok", "error", "timeout"}, n : 0..MaxOutputs, cut : BOOLEAN]
SlashStates == {"idle", "active", "completed", "failed", "stuck"}
Boots == [at : {"off", "listing", "installing", "over"}, todo : SUBSET Plugins, missed : BOOLEAN]

CmdTypes ==
  /\ cmdCalls \in [Cmds -> Calls] /\ cliCmds \in [Cmds -> CliRecords]
  /\ buffers \in [Cmds -> BufferRecords] /\ heard \in [WindowCmds -> HeardRecords]
  /\ results \in [Cmds -> ResultRecords] /\ slashTasks \in [WindowCmds -> SlashStates]
  /\ boot \in Boots /\ plugins \in [present : SUBSET Plugins, completed : BOOLEAN]

\* One command: untouched before it is asked; what its waiting caller has of it, in the window
\* or in the buffer, is what the CLI reported, or says it was cut; its result is given once.
OneCommand(c) ==
  /\ cmdCalls[c] = "idle" =>
       /\ cliCmds[c].sent = 0 /\ cliCmds[c].end = "none" /\ results[c].how = "none"
       /\ buffers[c].n = 0 /\ buffers[c].end = "none" /\ ~buffers[c].live
  /\ results[c].how # "none" => cmdCalls[c] \in {"settled", "late"}
  /\ cmdCalls[c] = "late" => c \in WindowCmds
  /\ cmdCalls[c] = "cancelling" => c \in HostCmds /\ cliCmds[c].cancel
  /\ c \in WindowCmds /\ cmdCalls[c] # "settled" =>
       heard[c].n = cliCmds[c].sent /\ heard[c].end = cliCmds[c].end
  /\ c \in HostCmds /\ cmdCalls[c] \in {"asked", "waiting"} =>
       buffers[c].end = cliCmds[c].end /\ (buffers[c].n = cliCmds[c].sent \/ buffers[c].cut)
  /\ buffers[c].n <= cliCmds[c].sent
  /\ results[c].how = "ok" =>
       cliCmds[c].end = "ok" /\ (results[c].n = cliCmds[c].sent \/ results[c].cut)
  /\ c \in WindowCmds => (slashTasks[c] = "completed" => results[c].how = "ok")
  /\ results[c].how = "timeout" /\ cmdCalls[c] = "settled" /\ c \in HostCmds => cliCmds[c].cancel

CmdInv ==
  /\ CmdTypes
  /\ \A c \in Cmds : OneCommand(c)
  /\ boot.at = "off" => cmdCalls[Listing] = "idle"

SameCommand(c) ==
  /\ cmdCalls'[c] = cmdCalls[c] /\ cliCmds'[c] = cliCmds[c] /\ buffers'[c] = buffers[c]
  /\ results'[c] = results[c]
  /\ c \in WindowCmds => heard'[c] = heard[c] /\ slashTasks'[c] = slashTasks[c]

\* A step of one command leaves the others as they are.
LEMMA OneKeepsAll ==
  ASSUME CmdInv, NEW c \in Cmds, CmdTypes', UNCHANGED boot, OneCommand(c)', cmdCalls[c] # "idle" \/ c # Listing,
         \A d \in Cmds \ {c} : SameCommand(d)
  PROVE  CmdInv'
<1>1. ASSUME NEW d \in Cmds, d # c PROVE OneCommand(d)'
  <2>1. OneCommand(d) /\ SameCommand(d)
    BY <1>1 DEF CmdInv
  <2> QED BY <2>1 DEF OneCommand, SameCommand
<1>2. boot'.at = "off" => cmdCalls'[Listing] = "idle"
  <2>1. Listing \in Cmds
    BY DEF Cmds, HostCmds
  <2> QED BY <2>1 DEF CmdInv, SameCommand
<1> QED BY <1>1, <1>2 DEF CmdInv

\* The result of a call is given and the rest of the command stays.
LEMMA SettledKeeps ==
  ASSUME CommandAssumption, CmdInv, NEW c \in Cmds, NEW how \in {"ok", "error", "timeout"},
         NEW n \in 0..MaxOutputs, NEW cut \in BOOLEAN, SettleCall(c, how, n, cut),
         cmdCalls[c] \in {"asked", "waiting", "cancelling"},
         how = "ok" => cliCmds[c].end = "ok" /\ (n = cliCmds[c].sent \/ cut),
         how = "timeout" /\ c \in HostCmds => cliCmds[c].cancel,
         buffers' \in {buffers, [buffers EXCEPT ![c] = NoBuffer]},
         UNCHANGED <<cliCmds, heard, slashTasks, boot, plugins>>
  PROVE  CmdInv'
<1> DEFINE r == [how |-> how, n |-> n, cut |-> cut]
<1>1. cmdCalls' = [cmdCalls EXCEPT ![c] = "settled"] /\ results' = [results EXCEPT ![c] = r]
  BY DEF SettleCall
<1>2. r \in ResultRecords /\ r.how = how /\ r.n = n /\ r.cut = cut
  BY DEF ResultRecords
<1> HIDE DEF r
<1>3. NoBuffer \in BufferRecords /\ NoBuffer.n = 0
  BY CommandAssumption DEF NoBuffer, BufferRecords
<1>t. CmdTypes
  BY DEF CmdInv
<1>4. CmdTypes'
  BY <1>1, <1>2, <1>3, <1>t DEF CmdTypes, Calls
<1>5. \A d \in Cmds \ {c} : SameCommand(d)
  BY <1>1, <1>t DEF CmdTypes, SameCommand
<1>6. OneCommand(c)
  BY DEF CmdInv
<1>7. cmdCalls'[c] = "settled" /\ results'[c] = r /\ buffers'[c] \in {buffers[c], NoBuffer}
  BY <1>1, <1>t DEF CmdTypes
<1>8. cliCmds[c].sent \in Nat
  BY <1>t, CommandAssumption DEF CmdTypes, CliRecords
<1>9. OneCommand(c)'
  BY <1>2, <1>3, <1>6, <1>7, <1>8 DEF OneCommand
<1> QED BY <1>4, <1>5, <1>9, OneKeepsAll

\* What the CLI reports comes to who waits for it.
LEMMA ReportKeeps ==
  ASSUME CommandAssumption, CmdInv, NEW c \in Cmds, NEW event \in Endings \union {"output"},
         ReportOutput(c, event)
  PROVE  CmdInv'
<1> DEFINE k == IF event = "output" THEN [cliCmds[c] EXCEPT !.sent = @ + 1]
                ELSE [cliCmds[c] EXCEPT !.end = event]
           b == Recorded(buffers[c], event)
           h == IF event = "output" THEN [heard[c] EXCEPT !.n = @ + 1] ELSE [heard[c] EXCEPT !.end = event]
<1>t. CmdTypes /\ OneCommand(c)
  BY DEF CmdInv
<1>1. /\ cmdCalls[c] # "idle" /\ cliCmds[c].end = "none"
      /\ event = "output" => cliCmds[c].sent < MaxOutputs
      /\ buffers' = [buffers EXCEPT ![c] = b]
      /\ plugins' = (IF event = "ok" /\ c \in Plugins
                     THEN [plugins EXCEPT !.present = @ \union {c}] ELSE plugins)
      /\ UNCHANGED <<cmdCalls, results, slashTasks, boot>>
  BY DEF ReportOutput, Asked
<1>x. /\ cliCmds' = [cliCmds EXCEPT ![c] = k]
      /\ heard' = (IF c \notin WindowCmds \/ cmdCalls[c] = "settled" THEN heard ELSE [heard EXCEPT ![c] = h])
  BY <1>t DEF ReportOutput, CmdTypes
<1>2. /\ cliCmds[c] \in CliRecords /\ buffers[c] \in BufferRecords
      /\ c \in WindowCmds => heard[c] \in HeardRecords
  BY <1>t DEF CmdTypes
<1>3. /\ k \in CliRecords /\ k.cancel = cliCmds[c].cancel
      /\ event = "output" => k.sent = cliCmds[c].sent + 1 /\ k.end = cliCmds[c].end
      /\ event # "output" => k.sent = cliCmds[c].sent /\ k.end = event
  BY <1>1, <1>2, CommandAssumption DEF CliRecords
<1>4. b \in BufferRecords
  <2>1. BufferCap \in Nat /\ buffers[c].n \in 0..BufferCap
    BY <1>2, CommandAssumption DEF BufferRecords
  <2>2. buffers[c].n < BufferCap => buffers[c].n + 1 \in 0..BufferCap
    BY <2>1
  <2> QED BY <1>2, <2>1, <2>2 DEF BufferRecords, Recorded
<1>5. /\ event = "output" => /\ b.end = buffers[c].end
                             /\ \/ b.n = buffers[c].n + 1 /\ b.cut = buffers[c].cut
                                \/ b.n = buffers[c].n /\ b.cut
      /\ event # "output" => b.end = event /\ b.n = buffers[c].n /\ b.cut = buffers[c].cut
  BY <1>2 DEF BufferRecords, Recorded, Endings
<1>6. c \in WindowCmds /\ cmdCalls[c] # "settled" =>
        /\ h \in HeardRecords
        /\ event = "output" => h.n = heard[c].n + 1 /\ h.end = heard[c].end
        /\ event # "output" => h.n = heard[c].n /\ h.end = event
  BY <1>1, <1>2, <1>t, CommandAssumption DEF HeardRecords, CliRecords, OneCommand
<1> HIDE DEF k, b, h
<1>7. CmdTypes'
  <2>1. plugins' \in [present : SUBSET Plugins, completed : BOOLEAN]
    BY <1>1, <1>t DEF CmdTypes
  <2>2. heard' \in [WindowCmds -> HeardRecords]
    BY <1>x, <1>6, <1>t DEF CmdTypes
  <2> QED BY <1>1, <1>x, <1>3, <1>4, <1>t, <2>1, <2>2 DEF CmdTypes
<1>8. \A d \in Cmds \ {c} : SameCommand(d)
  BY <1>1, <1>x, <1>t DEF CmdTypes, SameCommand
<1>9. /\ cliCmds'[c] = k /\ buffers'[c] = b /\ cmdCalls'[c] = cmdCalls[c] /\ results'[c] = results[c]
      /\ c \in WindowCmds => /\ slashTasks'[c] = slashTasks[c]
                             /\ cmdCalls[c] # "settled" => heard'[c] = h
  BY <1>1, <1>x, <1>t DEF CmdTypes
<1>10. cliCmds[c].sent \in Nat /\ buffers[c].n \in Nat
  BY <1>2, CommandAssumption DEF CliRecords, BufferRecords
<1>11. OneCommand(c)'
  BY <1>1, <1>3, <1>5, <1>6, <1>9, <1>10, <1>t DEF OneCommand
<1> QED BY <1>1, <1>7, <1>8, <1>11, OneKeepsAll

\* What the window does with its commands.
LEMMA WindowKeeps ==
  ASSUME CommandAssumption, CmdInv, NEW c \in Cmds,
         RunSlash(c) \/ SlashEnds(c) \/ WindowDrains(c) \/ WindowTimesOut(c)
  PROVE  CmdInv'
<1>t. CmdTypes /\ OneCommand(c)
  BY DEF CmdInv
<1>w. c \in WindowCmds => c \notin HostCmds /\ c # Listing
  BY CommandAssumption DEF HostCmds
<1>r. cliCmds[c] \in CliRecords
  BY <1>t DEF CmdTypes
<1>0. 0 \in 0..MaxOutputs
  BY CommandAssumption
<1>1. CASE RunSlash(c)
  <2>1. /\ c \in WindowCmds /\ cmdCalls[c] = "idle"
        /\ slashTasks' = [slashTasks EXCEPT ![c] = "active"] /\ cmdCalls' = [cmdCalls EXCEPT ![c] = "asked"]
        /\ UNCHANGED <<cliCmds, buffers, heard, results, boot, plugins>>
    BY <1>1 DEF RunSlash
  <2>2. CmdTypes'
    BY <2>1, <1>t DEF CmdTypes, Calls, SlashStates
  <2>3. \A d \in Cmds \ {c} : SameCommand(d)
    BY <2>1, <1>t DEF CmdTypes, SameCommand
  <2>4. cmdCalls'[c] = "asked" /\ slashTasks'[c] = "active"
    BY <2>1, <1>t DEF CmdTypes
  <2>5. OneCommand(c)'
    BY <2>1, <2>4, <1>t, <1>w DEF OneCommand
  <2> QED BY <2>1, <2>2, <2>3, <2>5, <1>w, OneKeepsAll
<1>2. CASE SlashEnds(c)
  <2>1. PICK new \in {"completed", "failed", "stuck"} :
        /\ c \in WindowCmds
        /\ new = "completed" => results[c].how = "ok"
        /\ slashTasks[c] = "active" /\ results[c].how # "none"
        /\ slashTasks' = [slashTasks EXCEPT ![c] = new]
        /\ UNCHANGED <<cmdCalls, cliCmds, buffers, heard, results, boot, plugins>>
    BY <1>2 DEF SlashEnds
  <2>2. CmdTypes'
    BY <2>1, <1>t DEF CmdTypes, SlashStates
  <2>3. \A d \in Cmds \ {c} : SameCommand(d)
    BY <2>1, <1>t DEF CmdTypes, SameCommand
  <2>4. slashTasks'[c] = new
    BY <2>1, <1>t DEF CmdTypes
  <2>5. OneCommand(c)'
    BY <2>1, <2>4, <1>t DEF OneCommand
  <2> QED BY <2>1, <2>2, <2>3, <2>5, <1>w, OneKeepsAll
<1>3. CASE WindowDrains(c)
  <2>1. /\ c \in WindowCmds /\ cmdCalls[c] = "waiting"
        /\ SettleCall(c, IF heard[c].end = "ok" THEN "ok" ELSE "error", heard[c].n, FALSE)
        /\ UNCHANGED <<cliCmds, buffers, heard, slashTasks, boot, plugins>>
    BY <1>3 DEF WindowDrains
  <2>2. heard[c].n = cliCmds[c].sent /\ heard[c].end = cliCmds[c].end /\ heard[c].n \in 0..MaxOutputs
    BY <2>1, <1>t DEF OneCommand, CmdTypes, HeardRecords
  <2> QED BY <2>1, <2>2, <1>w, SettledKeeps
<1>4. CASE WindowTimesOut(c)
  <2> DEFINE r == [NoResult EXCEPT !.how = "timeout"]
             new == IF cmdCalls[c] = "asked" THEN "late" ELSE "settled"
             k == [cliCmds[c] EXCEPT !.cancel = @ \/ cmdCalls[c] = "waiting"]
  <2>1. /\ c \in WindowCmds /\ cmdCalls[c] \in {"asked", "waiting"}
        /\ results' = [results EXCEPT ![c] = r] /\ cmdCalls' = [cmdCalls EXCEPT ![c] = new]
        /\ UNCHANGED <<buffers, heard, slashTasks, boot, plugins>>
    BY <1>4 DEF WindowTimesOut
  <2>2. cliCmds' = [cliCmds EXCEPT ![c] = k]
    BY <1>4 DEF WindowTimesOut
  <2>3. r \in ResultRecords /\ r.how = "timeout" /\ new \in {"late", "settled"}
    BY <2>1, <1>0 DEF ResultRecords, NoResult
  <2>4. k \in CliRecords /\ k.sent = cliCmds[c].sent /\ k.end = cliCmds[c].end
    BY <1>r DEF CliRecords
  <2> HIDE DEF r, new, k
  <2>5. CmdTypes'
    BY <2>1, <2>2, <2>3, <2>4, <1>t DEF CmdTypes, Calls
  <2>6. \A d \in Cmds \ {c} : SameCommand(d)
    BY <2>1, <2>2, <1>t DEF CmdTypes, SameCommand
  <2>7. results'[c] = r /\ cmdCalls'[c] = new /\ cliCmds'[c] = k
    BY <2>1, <2>2, <1>t DEF CmdTypes
  <2>8. OneCommand(c)'
    BY <2>1, <2>3, <2>4, <2>7, <1>t, <1>w DEF OneCommand
  <2> QED BY <2>1, <2>5, <2>6, <2>8, <1>w, OneKeepsAll
<1> QED BY <1>1, <1>2, <1>3, <1>4

\* What the main process does with its commands, and what both do with the answer of the CLI.
LEMMA HostKeeps ==
  ASSUME CommandAssumption, CmdInv, NEW c \in Cmds,
         AnswerCall(c) \/ AskFails(c) \/ HostReads(c) \/ HostTimesOut(c) \/ GraceEnds(c) \/ BufferExpires(c)
  PROVE  CmdInv'
<1>t. CmdTypes /\ OneCommand(c)
  BY DEF CmdInv
<1>r. cliCmds[c] \in CliRecords /\ buffers[c] \in BufferRecords
  BY <1>t DEF CmdTypes
<1>k. /\ [cliCmds[c] EXCEPT !.cancel = TRUE] \in CliRecords
      /\ [cliCmds[c] EXCEPT !.cancel = TRUE].cancel = TRUE
      /\ [cliCmds[c] EXCEPT !.cancel = TRUE].sent = cliCmds[c].sent
      /\ [cliCmds[c] EXCEPT !.cancel = TRUE].end = cliCmds[c].end
  BY <1>r DEF CliRecords
<1> DEFINE k == [cliCmds[c] EXCEPT !.cancel = TRUE]
<1>n. NoBuffer \in BufferRecords /\ NoBuffer.n = 0 /\ NoBuffer.end = "none" /\ ~NoBuffer.live
  BY CommandAssumption DEF NoBuffer, BufferRecords
<1>0. 0 \in 0..MaxOutputs
  BY CommandAssumption
<1>1. CASE AnswerCall(c)
  <2>1. CASE cmdCalls[c] = "asked"
    <3> DEFINE b == IF c \in HostCmds THEN [buffers[c] EXCEPT !.live = TRUE] ELSE buffers[c]
    <3>1. cmdCalls' = [cmdCalls EXCEPT ![c] = "waiting"] /\ UNCHANGED <<cliCmds, heard, results, slashTasks, boot, plugins>>
          /\ buffers' = (IF c \in HostCmds THEN [buffers EXCEPT ![c].live = TRUE] ELSE buffers)
      BY <1>1, <2>1 DEF AnswerCall
    <3>2. b \in BufferRecords /\ b.n = buffers[c].n /\ b.end = buffers[c].end /\ b.cut = buffers[c].cut
      BY <1>r DEF BufferRecords
    <3>3. buffers' = [buffers EXCEPT ![c] = b]
      BY <3>1, <1>t DEF CmdTypes
    <3> HIDE DEF b
    <3>4. CmdTypes'
      BY <3>1, <3>2, <3>3, <1>t, ZenonT(30) DEF CmdTypes, Calls
    <3>5. \A d \in Cmds \ {c} : SameCommand(d)
      BY <3>1, <3>3, <1>t DEF CmdTypes, SameCommand
    <3>6. cmdCalls'[c] = "waiting" /\ buffers'[c] = b
      BY <3>1, <3>3, <1>t DEF CmdTypes
    <3>7. OneCommand(c)'
      BY <2>1, <3>1, <3>2, <3>6, <1>t DEF OneCommand
    <3> QED BY <2>1, <3>1, <3>4, <3>5, <3>7, OneKeepsAll
  <2>2. CASE cmdCalls[c] = "late"
    <3>1. /\ cmdCalls' = [cmdCalls EXCEPT ![c] = "settled"] /\ cliCmds' = [cliCmds EXCEPT ![c] = k]
          /\ UNCHANGED <<buffers, heard, results, slashTasks, boot, plugins>>
      BY <1>1, <2>2, <1>t DEF AnswerCall, CmdTypes
    <3> HIDE DEF k
    <3>4. CmdTypes'
      BY <3>1, <1>k, <1>t DEF CmdTypes, Calls, k
    <3>5. \A d \in Cmds \ {c} : SameCommand(d)
      BY <3>1, <1>t DEF CmdTypes, SameCommand
    <3>6. cmdCalls'[c] = "settled" /\ cliCmds'[c] = k
      BY <3>1, <1>t DEF CmdTypes
    <3>7. OneCommand(c)'
      BY <2>2, <3>1, <1>k, <3>6, <1>t DEF OneCommand, k
    <3> QED BY <2>2, <3>1, <3>4, <3>5, <3>7, OneKeepsAll
  <2> QED BY <1>1, <2>1, <2>2 DEF AnswerCall
<1>2. CASE AskFails(c)
  <2>1. CASE cmdCalls[c] = "asked"
    <3>1. SettleCall(c, "error", 0, FALSE) /\ UNCHANGED <<cliCmds, buffers, heard, slashTasks, boot, plugins>>
      BY <1>2, <2>1 DEF AskFails
    <3> QED BY <2>1, <3>1, <1>0, SettledKeeps
  <2>2. CASE cmdCalls[c] = "late"
    <3>1. /\ cmdCalls' = [cmdCalls EXCEPT ![c] = "settled"]
          /\ UNCHANGED <<cliCmds, buffers, heard, results, slashTasks, boot, plugins>>
      BY <1>2, <2>2 DEF AskFails
    <3>4. CmdTypes'
      BY <3>1, <1>t DEF CmdTypes, Calls
    <3>5. \A d \in Cmds \ {c} : SameCommand(d)
      BY <3>1, <1>t DEF CmdTypes, SameCommand
    <3>6. cmdCalls'[c] = "settled" /\ c \notin HostCmds
      BY <2>2, <3>1, <1>t, CommandAssumption DEF CmdTypes, OneCommand, HostCmds
    <3>7. OneCommand(c)'
      BY <2>2, <3>1, <3>6, <1>t DEF OneCommand
    <3> QED BY <2>2, <3>1, <3>4, <3>5, <3>7, OneKeepsAll
  <2> QED BY <1>2, <2>1, <2>2 DEF AskFails
<1>3. CASE HostReads(c)
  <2>1. /\ c \in HostCmds /\ cmdCalls[c] = "waiting" /\ buffers' = [buffers EXCEPT ![c] = NoBuffer]
        /\ SettleCall(c, IF buffers[c].end = "ok" THEN "ok" ELSE "error", buffers[c].n, buffers[c].cut)
        /\ UNCHANGED <<cliCmds, heard, slashTasks, boot, plugins>>
    BY <1>3 DEF HostReads, HostWaits
  <2>2. buffers[c].end = cliCmds[c].end /\ (buffers[c].n = cliCmds[c].sent \/ buffers[c].cut)
    BY <2>1, <1>t DEF OneCommand
  <2>3. buffers[c].n \in 0..MaxOutputs /\ buffers[c].cut \in BOOLEAN
    BY <1>r, <1>t, CommandAssumption DEF OneCommand, BufferRecords, CliRecords
  <2> QED BY <2>1, <2>2, <2>3, SettledKeeps
<1>4. CASE HostTimesOut(c)
  <2>1. /\ c \in HostCmds /\ cmdCalls[c] = "waiting" /\ cmdCalls' = [cmdCalls EXCEPT ![c] = "cancelling"]
        /\ cliCmds' = [cliCmds EXCEPT ![c] = k]
        /\ UNCHANGED <<buffers, heard, results, slashTasks, boot, plugins>>
    BY <1>4, <1>t DEF HostTimesOut, HostWaits, CmdTypes
  <2> HIDE DEF k
  <2>4. CmdTypes'
    BY <2>1, <1>k, <1>t DEF CmdTypes, Calls, k
  <2>5. \A d \in Cmds \ {c} : SameCommand(d)
    BY <2>1, <1>t DEF CmdTypes, SameCommand
  <2>6. cmdCalls'[c] = "cancelling" /\ cliCmds'[c] = k
    BY <2>1, <1>t DEF CmdTypes
  <2>7. OneCommand(c)'
    BY <2>1, <1>k, <2>6, <1>t DEF OneCommand, k
  <2> QED BY <2>1, <2>4, <2>5, <2>7, OneKeepsAll
<1>5. CASE GraceEnds(c)
  <2>1. cmdCalls[c] = "cancelling" /\ SettleCall(c, "timeout", 0, FALSE)
        /\ UNCHANGED <<cliCmds, buffers, heard, slashTasks, boot, plugins>>
    BY <1>5 DEF GraceEnds
  <2>2. cliCmds[c].cancel
    BY <2>1, <1>t DEF OneCommand
  <2> QED BY <2>1, <2>2, <1>0, SettledKeeps
<1>6. CASE BufferExpires(c)
  <2>1. /\ buffers[c].live /\ cmdCalls[c] \notin {"asked", "late", "idle"}
        /\ buffers' = [buffers EXCEPT ![c] = NoBuffer] /\ UNCHANGED <<heard, results, slashTasks, boot, plugins>>
    BY <1>6, <1>t DEF BufferExpires, OneCommand
  <2>2. CASE c \in HostCmds /\ cmdCalls[c] = "waiting"
    <3>1. cmdCalls' = [cmdCalls EXCEPT ![c] = "cancelling"] /\ cliCmds' = [cliCmds EXCEPT ![c] = k]
      BY <1>6, <2>2, <1>t DEF BufferExpires, HostWaits, CmdTypes
    <3> HIDE DEF k
    <3>4. CmdTypes'
      BY <2>1, <3>1, <1>k, <1>n, <1>t DEF CmdTypes, Calls, k
    <3>5. \A d \in Cmds \ {c} : SameCommand(d)
      BY <2>1, <3>1, <1>t DEF CmdTypes, SameCommand
    <3>6. cmdCalls'[c] = "cancelling" /\ cliCmds'[c] = k /\ buffers'[c] = NoBuffer
      BY <2>1, <3>1, <1>t DEF CmdTypes
    <3>8. k.sent >= 0
      BY <1>k, CommandAssumption DEF CliRecords, k
    <3>7. OneCommand(c)'
      BY <2>1, <2>2, <1>k, <1>n, <3>6, <3>8, <1>t DEF OneCommand, k
    <3> QED BY <2>1, <3>4, <3>5, <3>7, OneKeepsAll
  <2>3. CASE ~(c \in HostCmds /\ cmdCalls[c] = "waiting")
    <3>1. UNCHANGED <<cmdCalls, cliCmds>>
      BY <1>6, <2>3 DEF BufferExpires, HostWaits
    <3>4. CmdTypes'
      BY <2>1, <3>1, <1>n, <1>t DEF CmdTypes
    <3>5. \A d \in Cmds \ {c} : SameCommand(d)
      BY <2>1, <3>1, <1>t DEF CmdTypes, SameCommand
    <3>6. buffers'[c] = NoBuffer
      BY <2>1, <1>t DEF CmdTypes
    <3>8. cliCmds[c].sent >= 0
      BY <1>r, CommandAssumption DEF CliRecords
    <3>7. OneCommand(c)'
      BY <2>1, <2>3, <3>1, <1>n, <3>6, <3>8, <1>t DEF OneCommand
    <3> QED BY <2>1, <3>4, <3>5, <3>7, OneKeepsAll
  <2> QED BY <2>2, <2>3
<1> QED BY <1>1, <1>2, <1>3, <1>4, <1>5, <1>6

\* The steps of the installation of the bundled plugins, and a restart.
LEMMA BootKeeps ==
  ASSUME CommandAssumption, CmdInv,
         \/ StartBoot \/ BootListed \/ BootEnds
         \/ \E p \in Plugins : BootNext(p) \/ BootInstalled(p) \/ UserRemoves(p)
  PROVE  CmdInv'
<1>t. CmdTypes /\ \A c \in Cmds : OneCommand(c)
  BY DEF CmdInv
<1>l. Listing \in Cmds /\ Plugins \subseteq Cmds /\ Listing \in HostCmds /\ Plugins \subseteq HostCmds
  BY DEF Cmds, HostCmds
<1>h. \A c \in HostCmds : c \notin WindowCmds
  BY CommandAssumption DEF HostCmds
<1>1. ASSUME UNCHANGED <<cmdCalls, cliCmds, buffers, heard, results, slashTasks>>,
             boot' \in Boots, plugins' \in [present : SUBSET Plugins, completed : BOOLEAN],
             boot'.at = "off" => boot.at = "off"
      PROVE  CmdInv'
  BY <1>1 DEF CmdInv, CmdTypes, OneCommand
<1>2. ASSUME NEW c \in HostCmds, cmdCalls[c] = "idle", cmdCalls' = [cmdCalls EXCEPT ![c] = "asked"],
             UNCHANGED <<cliCmds, buffers, heard, results, slashTasks, plugins>>,
             boot' \in Boots, boot'.at # "off"
      PROVE  CmdInv'
  <2>1. CmdTypes'
    BY <1>2, <1>t DEF CmdTypes, Calls
  <2>2. ASSUME NEW d \in Cmds PROVE OneCommand(d)'
    <3>1. CASE d # c
      BY <1>2, <3>1, <1>t DEF OneCommand, CmdTypes
    <3>2. CASE d = c
      <4>1. cmdCalls'[c] = "asked" /\ c \notin WindowCmds /\ OneCommand(c)
        BY <1>2, <1>h, <1>t, <3>2 DEF CmdTypes
      <4> QED BY <4>1, <1>2, <3>2 DEF OneCommand
    <3> QED BY <3>1, <3>2
  <2> QED BY <1>2, <2>1, <2>2 DEF CmdInv
<1>3. CASE StartBoot
  <2> DEFINE b == [at |-> "listing", todo |-> {}, missed |-> FALSE]
  <2>1. b \in Boots /\ b.at = "listing"
    BY DEF Boots
  <2>2. boot' = b /\ boot.at = "off" /\ cmdCalls' = [cmdCalls EXCEPT ![Listing] = "asked"]
        /\ UNCHANGED <<cliCmds, buffers, heard, results, slashTasks, plugins>>
    BY <1>3 DEF StartBoot
  <2>3. cmdCalls[Listing] = "idle"
    BY <2>2 DEF CmdInv
  <2> HIDE DEF b
  <2> QED BY <1>2, <1>l, <2>1, <2>2, <2>3
<1>4. CASE BootListed
  <2>1. boot' \in {[boot EXCEPT !.at = "installing", !.todo = Plugins \ plugins.present], [boot EXCEPT !.at = "over"]}
        /\ UNCHANGED <<cmdCalls, cliCmds, buffers, heard, results, slashTasks, plugins>>
    BY <1>4 DEF BootListed
  <2>2. boot \in Boots /\ Plugins \ plugins.present \in SUBSET Plugins
    BY <1>t DEF CmdTypes
  <2>3. ASSUME boot' = [boot EXCEPT !.at = "over"] PROVE boot' \in Boots /\ boot'.at # "off"
    BY <2>2, <2>3 DEF Boots
  <2>4. ASSUME boot' = [boot EXCEPT !.at = "installing", !.todo = Plugins \ plugins.present]
        PROVE  boot' \in Boots /\ boot'.at # "off"
    BY <2>2, <2>4 DEF Boots
  <2>5. boot' \in Boots /\ boot'.at # "off"
    BY <2>1, <2>3, <2>4
  <2> QED BY <1>1, <1>t, <2>1, <2>5 DEF CmdTypes
<1>5. CASE BootEnds
  <2>1. plugins' \in {plugins, [plugins EXCEPT !.completed = TRUE]}
        /\ UNCHANGED <<cmdCalls, cliCmds, buffers, heard, results, slashTasks>>
    BY <1>5 DEF BootEnds
  <2>4. boot' = [boot EXCEPT !.at = "over"]
    BY <1>5 DEF BootEnds
  <2>5. boot \in Boots
    BY <1>t DEF CmdTypes
  <2>2. boot' \in Boots /\ boot'.at = "over"
    BY <2>4, <2>5 DEF Boots
  <2>3. plugins' \in [present : SUBSET Plugins, completed : BOOLEAN]
    BY <2>1, <1>t DEF CmdTypes
  <2> QED BY <1>1, <2>1, <2>2, <2>3
<1>6. ASSUME NEW p \in Plugins, BootNext(p) PROVE CmdInv'
  <2>1. CASE cmdCalls' = [cmdCalls EXCEPT ![p] = "asked"] /\ UNCHANGED boot
    <3>1. cmdCalls[p] = "idle" /\ boot.at = "installing" /\ UNCHANGED <<cliCmds, buffers, heard, results, slashTasks, plugins>>
      BY <1>6 DEF BootNext
    <3> QED BY <1>2, <1>l, <1>t, <2>1, <3>1 DEF CmdTypes
  <2>2. CASE boot' = [boot EXCEPT !.todo = @ \ {p}, !.missed = TRUE] /\ UNCHANGED cmdCalls
    <3>1. boot.at = "installing" /\ UNCHANGED <<cliCmds, buffers, heard, results, slashTasks, plugins>>
      BY <1>6 DEF BootNext
    <3>2. boot' \in Boots /\ boot'.at = "installing"
      BY <2>2, <3>1, <1>t DEF Boots, CmdTypes
    <3> QED BY <1>1, <1>t, <2>2, <3>1, <3>2 DEF CmdTypes
  <2> QED BY <1>6, <2>1, <2>2 DEF BootNext
<1>7. ASSUME NEW p \in Plugins, BootInstalled(p) PROVE CmdInv'
  <2>1. boot.at = "installing" /\ UNCHANGED <<cmdCalls, cliCmds, buffers, heard, results, slashTasks, plugins>>
        /\ boot' = [boot EXCEPT !.todo = @ \ {p}, !.missed = @ \/ results[p].how # "ok"]
    BY <1>7 DEF BootInstalled
  <2>2. boot' \in Boots /\ boot'.at = "installing"
    BY <2>1, <1>t DEF Boots, CmdTypes
  <2> QED BY <1>1, <1>t, <2>1, <2>2 DEF CmdTypes
<1>8. ASSUME NEW p \in Plugins, UserRemoves(p) PROVE CmdInv'
  <2>1. plugins' = [plugins EXCEPT !.present = @ \ {p}]
        /\ UNCHANGED <<cmdCalls, cliCmds, buffers, heard, results, slashTasks, boot>>
    BY <1>8 DEF UserRemoves
  <2>2. plugins' \in [present : SUBSET Plugins, completed : BOOLEAN]
    BY <2>1, <1>t DEF CmdTypes
  <2> QED BY <1>1, <1>t, <2>1, <2>2 DEF CmdTypes
<1> QED BY <1>3, <1>4, <1>5, <1>6, <1>7, <1>8

\* The initial state has it; with it the typing of the component holds.
LEMMA CmdStarts == CommandAssumption /\ CmdInit => CmdInv
<1> SUFFICES ASSUME CommandAssumption, CmdInit PROVE CmdInv
  OBVIOUS
<1>1. /\ NotRun \in CliRecords /\ NotRun.sent = 0 /\ NotRun.end = "none"
      /\ NoBuffer \in BufferRecords /\ NoBuffer.n = 0 /\ NoBuffer.end = "none" /\ ~NoBuffer.live
      /\ NoResult \in ResultRecords /\ NoResult.how = "none"
      /\ [n |-> 0, end |-> "none"] \in HeardRecords
      /\ [at |-> "off", todo |-> {}, missed |-> FALSE] \in Boots
  BY CommandAssumption DEF NotRun, CliRecords, NoBuffer, BufferRecords, NoResult, ResultRecords, HeardRecords, Boots
<1>2. CmdTypes
  BY <1>1 DEF CmdInit, CmdTypes, Calls, SlashStates
<1>3. ASSUME NEW c \in Cmds PROVE OneCommand(c)
  <2>1. cmdCalls[c] = "idle" /\ cliCmds[c] = NotRun /\ buffers[c] = NoBuffer /\ results[c] = NoResult
        /\ (c \in WindowCmds => heard[c].n = 0 /\ heard[c].end = "none" /\ slashTasks[c] = "idle")
    BY DEF CmdInit
  <2> QED BY <1>1, <2>1 DEF OneCommand
<1>4. cmdCalls[Listing] = "idle"
  BY DEF CmdInit, Cmds, HostCmds
<1> QED BY <1>2, <1>3, <1>4 DEF CmdInv

\* A restart forgets every command and keeps the plugins.
LEMMA RestartKeeps == CommandAssumption /\ CmdInv /\ RestartCli => CmdInv'
<1> SUFFICES ASSUME CommandAssumption, CmdInv, RestartCli PROVE CmdInv'
  OBVIOUS
<1>1. /\ NotRun \in CliRecords /\ NotRun.sent = 0 /\ NotRun.end = "none"
      /\ NoBuffer \in BufferRecords /\ NoBuffer.n = 0 /\ NoBuffer.end = "none" /\ ~NoBuffer.live
      /\ NoResult \in ResultRecords /\ NoResult.how = "none"
      /\ [n |-> 0, end |-> "none"] \in HeardRecords
      /\ [at |-> "off", todo |-> {}, missed |-> FALSE] \in Boots
  BY CommandAssumption DEF NotRun, CliRecords, NoBuffer, BufferRecords, NoResult, ResultRecords, HeardRecords, Boots
<1>2. CmdTypes'
  BY <1>1 DEF RestartCli, CmdInv, CmdTypes, Calls, SlashStates
<1>3. ASSUME NEW c \in Cmds PROVE OneCommand(c)'
  <2>1. cmdCalls'[c] = "idle" /\ cliCmds'[c] = NotRun /\ buffers'[c] = NoBuffer /\ results'[c] = NoResult
        /\ (c \in WindowCmds => heard'[c].n = 0 /\ heard'[c].end = "none" /\ slashTasks'[c] = "idle")
    BY DEF RestartCli
  <2> QED BY <1>1, <2>1 DEF OneCommand
<1>4. cmdCalls'[Listing] = "idle"
  BY DEF RestartCli, Cmds, HostCmds
<1> QED BY <1>2, <1>3, <1>4 DEF CmdInv

\* Each step keeps it.
LEMMA CommandNextKeeps == CommandAssumption /\ CmdInv /\ [CommandNext]_cmdVars => CmdInv'
<1> SUFFICES ASSUME CommandAssumption, CmdInv, [CommandNext]_cmdVars PROVE CmdInv'
  OBVIOUS
<1>1. CASE UNCHANGED cmdVars
  BY <1>1 DEF cmdVars, CmdInv, CmdTypes, OneCommand
<1>2. ASSUME NEW c \in Cmds, CommandStep(c) PROVE CmdInv'
  BY <1>2, WindowKeeps, HostKeeps, ReportKeeps DEF CommandStep
<1> QED BY <1>1, <1>2, BootKeeps, RestartKeeps DEF CommandNext

\* The specification keeps it.
LEMMA CommandsAreKept == CmdSpec => []CmdInv
  BY CmdStarts, CommandNextKeeps, CommandAssumption, PTL DEF CmdSpec

\* A command that succeeded for its caller ended well at the CLI with every output it reported,
\* or says it was cut, and one that was given up on was cancelled.
THEOREM CommandsAreWhole == CmdSpec => []CommandsWhole
<1>1. CmdInv => CommandsWhole
  BY DEF CmdInv, OneCommand, CommandsWhole
<1> QED BY <1>1, CommandsAreKept, PTL

\* A plugin that was not asked for in this start of the program, or whose install has ended:
\* no report of it is to come that adds it.
Quiet(p) == cmdCalls[p] = "idle" \/ cliCmds[p].end # "none"

\* No plugin is asked for before the listing is read, nor after the record that all are done,
\* and those that an installation without a miss has dealt with have ended.
PluginInv ==
  /\ boot.at \in {"off", "listing"} => \A p \in Plugins : cmdCalls[p] = "idle"
  /\ boot.at \in {"listing", "installing"} => plugins.completed = FALSE
  /\ plugins.completed => \A p \in Plugins : Quiet(p)
  /\ boot.at = "installing" /\ boot.missed = FALSE => \A p \in Plugins \ boot.todo : Quiet(p)

\* A step of a command asks for no plugin, takes no end back and adds only a plugin whose
\* install had not ended.
LEMMA StepsOfCommands ==
  ASSUME CommandAssumption, CmdInv, NEW c \in Cmds, CommandStep(c)
  PROVE  /\ UNCHANGED boot /\ plugins'.completed = plugins.completed
         /\ \A p \in Plugins : /\ cmdCalls[p] = "idle" => cmdCalls'[p] = "idle"
                               /\ cliCmds[p].end # "none" => cliCmds'[p].end # "none"
         /\ \A p \in plugins'.present \ plugins.present : p \in Plugins /\ ~Quiet(p)
<1>t. CmdTypes
  BY DEF CmdInv
<1>p. \A p \in Plugins : p \in Cmds /\ p \in HostCmds /\ p \notin WindowCmds
  BY CommandAssumption DEF Cmds, HostCmds
<1> DEFINE Goal == /\ UNCHANGED boot /\ plugins'.completed = plugins.completed
                   /\ \A p \in Plugins : /\ cmdCalls[p] = "idle" => cmdCalls'[p] = "idle"
                                         /\ cliCmds[p].end # "none" => cliCmds'[p].end # "none"
                   /\ \A p \in plugins'.present \ plugins.present : p \in Plugins /\ ~Quiet(p)
<1>1. ASSUME UNCHANGED <<boot, plugins, cliCmds>>, NEW to \in Calls, cmdCalls' = [cmdCalls EXCEPT ![c] = to],
             cmdCalls[c] # "idle" \/ c \in WindowCmds
      PROVE  Goal
  BY <1>1, <1>t, <1>p DEF CmdTypes
<1>2. ASSUME UNCHANGED <<boot, plugins, cmdCalls, cliCmds>> PROVE Goal
  BY <1>2
<1>3. ASSUME UNCHANGED <<boot, plugins>>, NEW to \in Calls, NEW yes, cmdCalls' = [cmdCalls EXCEPT ![c] = to],
             cliCmds' = [cliCmds EXCEPT ![c].cancel = yes], cmdCalls[c] # "idle"
      PROVE  Goal
  <2>1. \A d \in Cmds : cliCmds'[d].end = cliCmds[d].end
    BY <1>3, <1>t DEF CmdTypes, CliRecords
  <2>2. \A d \in Cmds : cmdCalls[d] = "idle" => cmdCalls'[d] = "idle"
    BY <1>3, <1>t DEF CmdTypes
  <2> QED BY <1>3, <1>p, <2>1, <2>2
<1>4. CASE RunSlash(c) \/ SlashEnds(c)
  BY <1>4, <1>1, <1>2 DEF RunSlash, SlashEnds, Calls
<1>5. CASE AnswerCall(c)
  BY <1>5, <1>1, <1>3 DEF AnswerCall, Calls
<1>6. CASE AskFails(c) \/ WindowDrains(c) \/ HostReads(c) \/ GraceEnds(c)
  BY <1>6, <1>1 DEF AskFails, WindowDrains, HostReads, GraceEnds, SettleCall, Calls
<1>7. CASE WindowTimesOut(c)
  <2> DEFINE to == IF cmdCalls[c] = "asked" THEN "late" ELSE "settled"
             yes == cliCmds[c].cancel \/ cmdCalls[c] = "waiting"
  <2>1. cmdCalls' = [cmdCalls EXCEPT ![c] = to] /\ cliCmds' = [cliCmds EXCEPT ![c].cancel = yes]
        /\ cmdCalls[c] # "idle" /\ UNCHANGED <<boot, plugins>>
    BY <1>7, <1>t DEF WindowTimesOut, CmdTypes
  <2>2. to \in Calls
    BY DEF Calls
  <2> QED BY <1>3, <2>1, <2>2
<1>8. CASE HostTimesOut(c)
  BY <1>8, <1>3 DEF HostTimesOut, Calls
<1>9. CASE BufferExpires(c)
  BY <1>9, <1>2, <1>3 DEF BufferExpires, HostWaits, Calls
<1>10. ASSUME NEW event \in Endings \union {"output"}, ReportOutput(c, event) PROVE Goal
  <2>1. /\ cmdCalls[c] # "idle" /\ cliCmds[c].end = "none" /\ UNCHANGED <<cmdCalls, boot>>
        /\ cliCmds' = IF event = "output" THEN [cliCmds EXCEPT ![c].sent = @ + 1] ELSE [cliCmds EXCEPT ![c].end = event]
        /\ plugins' = IF event = "ok" /\ c \in Plugins THEN [plugins EXCEPT !.present = @ \union {c}] ELSE plugins
    BY <1>10 DEF ReportOutput, Asked
  <2>2. \A d \in Cmds : cliCmds[d].end # "none" => cliCmds'[d].end # "none"
    BY <2>1, <1>t DEF CmdTypes, CliRecords
  <2>3. plugins'.completed = plugins.completed /\ \A p \in plugins'.present \ plugins.present : p = c /\ c \in Plugins
    BY <2>1, <1>t DEF CmdTypes
  <2> QED BY <1>p, <2>1, <2>2, <2>3 DEF Quiet
<1> QED BY <1>4, <1>5, <1>6, <1>7, <1>8, <1>9, <1>10 DEF CommandStep

\* Each step keeps it, and once all plugins are done adds none.
LEMMA PluginsNextKeeps ==
  ASSUME CommandAssumption, CmdInv, PluginInv, [CommandNext]_cmdVars
  PROVE  PluginInv' /\ (plugins.completed => plugins'.present \subseteq plugins.present)
<1>t. CmdTypes /\ boot \in Boots
  BY DEF CmdInv, CmdTypes
<1>p. \A p \in Plugins : p \in Cmds /\ p # Listing
  BY CommandAssumption DEF Cmds, HostCmds
<1>1. CASE UNCHANGED cmdVars
  BY <1>1 DEF cmdVars, PluginInv, Quiet
<1>2. ASSUME NEW c \in Cmds, CommandStep(c)
      PROVE  PluginInv' /\ (plugins.completed => plugins'.present \subseteq plugins.present)
  BY <1>2, StepsOfCommands DEF PluginInv, Quiet
<1>3. CASE StartBoot
  <2>1. boot.at = "off" /\ plugins.completed = FALSE /\ UNCHANGED plugins /\ boot'.at = "listing"
        /\ cmdCalls' = [cmdCalls EXCEPT ![Listing] = "asked"]
    BY <1>3, <1>t DEF StartBoot, CmdTypes
  <2>2. \A p \in Plugins : cmdCalls'[p] = "idle"
    BY <2>1, <1>t, <1>p DEF PluginInv, CmdTypes
  <2> QED BY <2>1, <2>2 DEF PluginInv, Quiet
<1>4. CASE BootListed
  <2>1. boot.at = "listing" /\ UNCHANGED <<cmdCalls, cliCmds, plugins>> /\ boot'.at \in {"installing", "over"}
    BY <1>4, <1>t DEF BootListed, Boots
  <2> QED BY <2>1 DEF PluginInv, Quiet
<1>5. CASE BootEnds
  <2>1. boot.at = "installing" /\ boot'.at = "over" /\ UNCHANGED <<cmdCalls, cliCmds>>
        /\ \/ UNCHANGED plugins
           \/ boot.missed = FALSE /\ boot.todo = {} /\ plugins' = [plugins EXCEPT !.completed = TRUE]
    BY <1>5, <1>t DEF BootEnds, Boots
  <2>2. plugins'.present = plugins.present
    BY <2>1, <1>t DEF CmdTypes
  <2>3. plugins.completed = FALSE
    BY <2>1 DEF PluginInv
  <2>4. ASSUME plugins'.completed PROVE \A p \in Plugins : Quiet(p)'
    <3>1. boot.missed = FALSE /\ boot.todo = {}
      BY <2>1, <2>3, <2>4
    <3> QED BY <2>1, <3>1 DEF PluginInv, Quiet
  <2> QED BY <2>1, <2>2, <2>4 DEF PluginInv
<1>6. ASSUME NEW p \in Plugins, BootNext(p)
      PROVE  PluginInv' /\ (plugins.completed => plugins'.present \subseteq plugins.present)
  <2>1. boot.at = "installing" /\ p \in boot.todo /\ UNCHANGED <<cliCmds, plugins>> /\ plugins.completed = FALSE
    BY <1>6 DEF BootNext, PluginInv
  <2>2. CASE cmdCalls' = [cmdCalls EXCEPT ![p] = "asked"] /\ UNCHANGED boot
    <3>1. \A q \in Plugins \ boot.todo : cmdCalls'[q] = cmdCalls[q]
      BY <2>1, <2>2, <1>t, <1>p DEF CmdTypes
    <3> QED BY <2>1, <2>2, <3>1 DEF PluginInv, Quiet
  <2>3. CASE boot' = [boot EXCEPT !.todo = @ \ {p}, !.missed = TRUE] /\ UNCHANGED cmdCalls
    <3>1. boot'.at = "installing" /\ boot'.missed = TRUE
      BY <2>1, <2>3, <1>t DEF Boots
    <3> QED BY <2>1, <3>1 DEF PluginInv
  <2> QED BY <1>6, <2>2, <2>3 DEF BootNext
<1>7. ASSUME NEW p \in Plugins, BootInstalled(p)
      PROVE  PluginInv' /\ (plugins.completed => plugins'.present \subseteq plugins.present)
  <2>1. boot.at = "installing" /\ UNCHANGED <<cmdCalls, cliCmds, plugins>> /\ plugins.completed = FALSE
    BY <1>7 DEF BootInstalled, PluginInv
  <2>2. boot' = [boot EXCEPT !.todo = @ \ {p}, !.missed = @ \/ results[p].how # "ok"]
    BY <1>7 DEF BootInstalled
  <2>3. boot'.at = "installing" /\ boot'.todo = boot.todo \ {p}
        /\ boot'.missed = (boot.missed \/ results[p].how # "ok")
    BY <2>1, <2>2, <1>t DEF Boots
  <2>4. ASSUME boot'.missed = FALSE, NEW q \in Plugins \ boot'.todo PROVE Quiet(q)'
    <3>1. boot.missed = FALSE /\ results[p].how = "ok"
      BY <2>3, <2>4, <1>t DEF Boots
    <3>2. CASE q = p
      <4>1. cliCmds[p].end = "ok"
        BY <3>1, <1>p DEF CmdInv, OneCommand
      <4> QED BY <2>1, <3>2, <4>1 DEF Quiet
    <3>3. CASE q # p
      BY <2>1, <2>3, <3>1, <3>3 DEF PluginInv, Quiet
    <3> QED BY <3>2, <3>3
  <2> QED BY <2>1, <2>3, <2>4 DEF PluginInv
<1>8. ASSUME NEW p \in Plugins, UserRemoves(p)
      PROVE  PluginInv' /\ (plugins.completed => plugins'.present \subseteq plugins.present)
  <2>1. plugins' = [plugins EXCEPT !.present = @ \ {p}] /\ UNCHANGED <<cmdCalls, cliCmds, boot>>
    BY <1>8 DEF UserRemoves
  <2>2. plugins'.completed = plugins.completed /\ plugins'.present \subseteq plugins.present
    BY <2>1, <1>t DEF CmdTypes
  <2> QED BY <2>1, <2>2 DEF PluginInv, Quiet
<1>9. CASE RestartCli
  <2>1. UNCHANGED plugins /\ boot'.at = "off" /\ \A p \in Plugins : cmdCalls'[p] = "idle"
    BY <1>9, <1>p DEF RestartCli
  <2> QED BY <2>1 DEF PluginInv, Quiet
<1> QED BY <1>1, <1>2, <1>3, <1>4, <1>5, <1>6, <1>7, <1>8, <1>9 DEF CommandNext

\* Once the bundled plugins have all been dealt with, a plugin the user removes is not
\* installed again, however late the CLI reports, and over restarts.
THEOREM RemovedPluginsStayRemoved == CmdSpec => RemovedStaysRemoved
<1>1. CmdInit => PluginInv
  BY DEF CmdInit, PluginInv, Quiet, Cmds, HostCmds
<1>2. CommandAssumption /\ CmdInv /\ PluginInv /\ [CommandNext]_cmdVars => PluginInv'
  BY PluginsNextKeeps
<1>3. CommandAssumption /\ CmdInv /\ PluginInv /\ [CommandNext]_cmdVars
        => [plugins.completed => plugins'.present \subseteq plugins.present]_plugins
  BY PluginsNextKeeps
<1> QED BY <1>1, <1>2, <1>3, CmdStarts, CommandNextKeeps, CommandAssumption, PTL DEF CmdSpec, RemovedStaysRemoved

\* The variables of the commands keep their types.
THEOREM CmdTypeCorrect == CmdSpec => []CmdTypeOK
<1>1. CmdInv => CmdTypeOK
  BY DEF CmdInv, CmdTypes, CmdTypeOK, Calls, CliRecords, BufferRecords, ResultRecords, SlashStates, Boots
<1> QED BY <1>1, CommandsAreKept, PTL

-----------------------------------------------------------------------------
(* The loads of the cache *)

CacheSpec == CacheInit /\ [][CacheNext]_cacheVars

LoadRecords == [by : Askers, epoch : Nat]

\* A load is of an asker that waits for it, one each.  The load that is known to be under way is
\* the only one of its epoch; when none is known, none is.
CacheInv ==
  /\ cacheEpoch \in Nat /\ cacheLoads \subseteq LoadRecords
  /\ asker \in [Askers -> {"idle", "missed", "loading"}]
  /\ \A l \in cacheLoads : asker[l.by] = "loading" /\ l.epoch <= cacheEpoch
  /\ \A l, m \in cacheLoads : l.by = m.by => l = m
  /\ \A l \in cacheLoads : l.epoch = cacheEpoch => l.by = loadOf
  /\ OneLoadAtATime

\* Each step of the cache keeps it.
LEMMA CacheNextKeeps == CacheAssumption /\ CacheInv /\ [CacheNext]_cacheVars => CacheInv'
<1> SUFFICES ASSUME CacheAssumption, CacheInv, [CacheNext]_cacheVars PROVE CacheInv'
  OBVIOUS
<1>1. CASE UNCHANGED cacheVars
  BY <1>1 DEF cacheVars, CacheInv, OneLoadAtATime
<1>2. ASSUME NEW a \in Askers, AskCache(a) PROVE CacheInv'
  <2>1. asker[a] = "idle" /\ asker' = [asker EXCEPT ![a] = IF answer = "fresh" THEN "idle" ELSE "missed"]
        /\ UNCHANGED <<cacheLoads, loadOf, cacheEpoch>>
    BY <1>2 DEF AskCache
  <2>2. \A l \in cacheLoads : l.by \in Askers /\ l.by # a
    BY <2>1 DEF CacheInv, LoadRecords
  <2> QED BY <2>1, <2>2 DEF CacheInv, OneLoadAtATime, LoadRecords
<1>3. ASSUME NEW a \in Askers, LoadOnce(a) PROVE CacheInv'
  <2>1. asker[a] = "missed" /\ cacheEpoch' = cacheEpoch
    BY <1>3 DEF LoadOnce
  <2>2. \A l \in cacheLoads : l.by \in Askers /\ l.by # a
    BY <2>1 DEF CacheInv, LoadRecords
  <2>3. CASE loadOf # NoLoad
    <3>1. asker' = [asker EXCEPT ![a] = "idle"] /\ UNCHANGED <<cacheLoads, loadOf>>
      BY <1>3, <2>3 DEF LoadOnce
    <3> QED BY <2>1, <2>2, <3>1 DEF CacheInv, OneLoadAtATime, LoadRecords
  <2>4. CASE loadOf = NoLoad
    <3> DEFINE new == [by |-> a, epoch |-> cacheEpoch]
    <3>1. asker' = [asker EXCEPT ![a] = "loading"] /\ loadOf' = a /\ cacheLoads' = cacheLoads \union {new}
      BY <1>3, <2>4 DEF LoadOnce
    <3>2. new \in LoadRecords /\ new.by = a /\ new.epoch = cacheEpoch
      BY DEF CacheInv, LoadRecords
    <3>3. \A l \in cacheLoads : l.epoch # cacheEpoch
      BY <2>2, <2>4 DEF CacheInv, CacheAssumption
    <3> HIDE DEF new
    <3>4. cacheLoads' \subseteq LoadRecords /\ asker' \in [Askers -> {"idle", "missed", "loading"}]
          /\ \A l \in cacheLoads' : asker'[l.by] = "loading" /\ l.epoch <= cacheEpoch
      BY <2>2, <3>1, <3>2 DEF CacheInv
    <3>5. \A l, m \in cacheLoads' : l.by = m.by => l = m
      BY <2>2, <3>1, <3>2 DEF CacheInv
    <3>6. \A l \in cacheLoads' : l.epoch = cacheEpoch => l.by = a
      BY <3>1, <3>2, <3>3
    <3>7. OneLoadAtATime'
      BY <3>1, <3>2, <3>3 DEF CacheInv, OneLoadAtATime
    <3> QED BY <2>1, <3>1, <3>4, <3>5, <3>6, <3>7 DEF CacheInv
  <2> QED BY <2>3, <2>4
<1>4. ASSUME NEW load \in cacheLoads, LoadEnds(load) PROVE CacheInv'
  <2>1. /\ cacheLoads' = cacheLoads \ {load} /\ asker' = [asker EXCEPT ![load.by] = "idle"]
        /\ loadOf' = (IF loadOf = load.by THEN NoLoad ELSE loadOf) /\ cacheEpoch' = cacheEpoch
    BY <1>4 DEF LoadEnds, ForgetOwnLoad
  <2>2. load.by \in Askers /\ \A l \in cacheLoads' : l.by \in Askers /\ l.by # load.by
    BY <2>1 DEF CacheInv, LoadRecords
  <2> QED BY <2>1, <2>2 DEF CacheInv, OneLoadAtATime
<1>5. CASE EntryExpires
  BY <1>5 DEF EntryExpires, CacheInv, OneLoadAtATime
<1>6. CASE ForgetLoads
  <2>1. cacheEpoch' = cacheEpoch + 1 /\ UNCHANGED <<asker, cacheLoads>>
    BY <1>6 DEF ForgetLoads
  <2>2. \A l \in cacheLoads : l.epoch \in Nat
    BY DEF CacheInv, LoadRecords
  <2> QED BY <2>1, <2>2 DEF CacheInv, OneLoadAtATime
<1> QED BY <1>1, <1>2, <1>3, <1>4, <1>5, <1>6 DEF CacheNext

\* The specification keeps it.
LEMMA LoadsAreKept == CacheSpec => []CacheInv
<1>1. CacheInit => CacheInv
  BY DEF CacheInit, CacheInv, OneLoadAtATime
<1> QED BY <1>1, CacheNextKeeps, CacheAssumption, PTL DEF CacheSpec

\* The CLI is asked for the same thing once at a time, unless the agents were shut down between.
THEOREM LoadsRunOnce == CacheSpec => []OneLoadAtATime
<1>1. CacheInv => OneLoadAtATime
  BY DEF CacheInv
<1> QED BY <1>1, LoadsAreKept, PTL

\* Where the askers are.
AskerTypeOK == asker \in [Askers -> {"idle", "missed", "loading"}]

\* The askers keep their type.
THEOREM AskerTypeCorrect == CacheSpec => []AskerTypeOK
<1>1. CacheInv => AskerTypeOK
  BY DEF CacheInv, AskerTypeOK
<1> QED BY <1>1, LoadsAreKept, PTL

=============================================================================
