--------------------------- MODULE AutomationRuns ----------------------------
(***************************************************************************)
(* Runs of automations: src/main/automation/automation-service.ts, with    *)
(* the runner of automation-execution-service.ts. Calls of the stores are  *)
(* awaited, so that the execution, the scan, an approval, a cancellation   *)
(* and a restart interleave between them. What a run no longer uses is      *)
(* forgotten at its end. The second half is the schedule of one            *)
(* automation: when it runs next, in a zone whose clock is changed once    *)
(* (schedule.ts); it shares no variable with the first.                    *)
(***************************************************************************)
EXTENDS Integers, FiniteSets

CONSTANTS
  Autos,        \* automations
  Runs,         \* runs, numbered in the order they start
  MaxAtOnce,    \* MAX_CONCURRENT_RUNS
  RetriesOf,    \* retryPolicy.maxAttempts of its automation when a run starts
  Attended,     \* bound: the runs that ask for an approval, are cancelled or reviewed
  MaxCalls,     \* bound on approvals, cancellations, reviews and restarts, together
  NoAuto,
  DayHours, WeekDays, MonthDays,  \* the calendar
  SearchDays,   \* CRON_SEARCH_DAYS
  Zones,        \* zones: an offset before and after a change
  Schedules,    \* schedules a user may give
  LastHour      \* bound on the clock

ASSUME AutomationAssumption ==
  /\ NoAuto \notin Autos /\ Attended \subseteq Runs /\ IsFiniteSet(Runs)
  /\ Runs \cup {MaxAtOnce, MaxCalls} \subseteq Nat /\ RetriesOf \in [Runs -> Nat]

VARIABLES
  running,      \* running: the automations with a reservation
  runOf,        \* the automation of a run
  exec,         \* executeRun of the run
  attempt,
  work,         \* the runner
  aborted,      \* its controller
  status,       \* the stored run
  approval,     \* its approval: requested, in the map, being answered
  cancel,       \* cancel() of the run
  scanned,      \* the runs a scan waits for
  recovering,   \* startupRecovery is pending
  calls         \* bounded calls made so far

autoVars == <<running, runOf, exec, attempt, work, aborted, status,
              approval, cancel, scanned, recovering, calls>>

RunStatuses == {"queued", "running", "awaiting_approval", "awaiting_review",
           "succeeded", "failed", "cancelled", "timed_out"}
Working == {"preparing", "turn", "closing"}

AutoTypeOK ==
  /\ running \subseteq Autos
  /\ runOf \in [Runs -> Autos \cup {NoAuto}]
  /\ exec \in [Runs -> {"new", "reading", "starting", "working", "teardown",
                        "backoff", "clearing", "recording", "done"}]
  /\ attempt \in [Runs -> Nat] /\ \A r \in Runs : attempt[r] <= RetriesOf[r] + 1
  /\ work \in [Runs -> {"none", "ok", "error"} \cup Working]
  /\ aborted \subseteq Runs
  /\ status \in [Runs -> {"none"} \cup RunStatuses]
  /\ approval \in [Runs -> {"none", "writing", "open", "answering", "updating"}]
  /\ cancel \in [Runs -> {"none", "clearing", "finding", "done"}]
  /\ scanned \subseteq Runs /\ recovering \in BOOLEAN
  /\ calls \in 0..MaxCalls

AutoInit ==
  /\ running = {} /\ scanned = {} /\ aborted = {}
  /\ runOf = [r \in Runs |-> NoAuto] /\ exec = [r \in Runs |-> "new"]
  /\ attempt = [r \in Runs |-> 0] /\ work = [r \in Runs |-> "none"]
  /\ status = [r \in Runs |-> "none"] /\ approval = [r \in Runs |-> "none"]
  /\ cancel = [r \in Runs |-> "none"] /\ recovering = FALSE /\ calls = 0

UserCall == calls < MaxCalls /\ calls' = calls + 1

To(r, where) == exec' = [exec EXCEPT ![r] = where]

New == {r \in Runs : exec[r] = "new"}
First(n) == {r \in New : Cardinality({q \in New : q < r}) < n}

\* Faulty variant of Reserve: the place is taken after the automation was read.
ReserveLate(f) ==
  /\ \A r \in DOMAIN f : f[r] \notin running
  /\ Cardinality(running) + Cardinality(DOMAIN f) <= MaxAtOnce
  /\ runOf' = [r \in Runs |-> IF r \in DOMAIN f THEN f[r] ELSE runOf[r]]
  /\ exec' = [r \in Runs |-> IF r \in DOMAIN f THEN "reading" ELSE exec[r]]
  /\ running' = running

\* The synchronous beginning of executeRun, for the runs f gives an automation.
Reserve(f) ==
  /\ \A r \in DOMAIN f : f[r] \notin running
  /\ Cardinality(running) + Cardinality(DOMAIN f) <= MaxAtOnce
  /\ runOf' = [r \in Runs |-> IF r \in DOMAIN f THEN f[r] ELSE runOf[r]]
  /\ exec' = [r \in Runs |-> IF r \in DOMAIN f THEN "reading" ELSE exec[r]]
  /\ running' = running \cup {f[r] : r \in DOMAIN f}

\* runNow and retry.
RunNow(a) ==
  /\ New # {}
  /\ Reserve([r \in First(1) |-> a])
  /\ UNCHANGED <<attempt, work, aborted, status, approval, cancel, scanned, recovering, calls>>

\* runDue: of the automations read as due, those without a run are started, as
\* many as there is room for; the scan ends with their runs.
RunDue ==
  /\ scanned = {} /\ ~recovering
  /\ \E startable \in SUBSET (Autos \ running) :
       LET free == IF Cardinality(running) < MaxAtOnce THEN MaxAtOnce - Cardinality(running) ELSE 0
           n == IF Cardinality(startable) < free THEN Cardinality(startable) ELSE free IN
       /\ n \in 1..Cardinality(New)
       /\ \E f \in [First(n) -> startable] :
            /\ \A r, s \in First(n) : f[r] = f[s] => r = s
            /\ Reserve(f)
       /\ scanned' = First(n)
  /\ UNCHANGED <<attempt, work, aborted, status, approval, cancel, recovering, calls>>

EndScan ==
  /\ scanned # {}
  /\ \A r \in scanned : exec[r] = "done"
  /\ scanned' = {}
  /\ UNCHANGED <<running, runOf, exec, attempt, work, aborted, status, approval, cancel, recovering, calls>>

\* The automation is read (gone, or paused since the scan: the run is given
\* up), the run is stored as queued, then as running with its attempt.
PrepareAttempt(r) ==
  /\ \/ /\ exec[r] = "reading"
        /\ \/ /\ To(r, "starting") /\ running' = running \cup {runOf[r]}
              /\ status' = [status EXCEPT ![r] = "queued"]
           \/ To(r, "done") /\ running' = running \ {runOf[r]} /\ UNCHANGED status
        /\ UNCHANGED <<attempt, work>>
     \/ /\ exec[r] = "starting"
        /\ status' = [status EXCEPT ![r] = "running"]
        /\ attempt' = [attempt EXCEPT ![r] = @ + 1]
        /\ work' = [work EXCEPT ![r] = "preparing"]
        /\ To(r, "working")
        /\ UNCHANGED running
  /\ UNCHANGED <<runOf, aborted, approval, cancel, scanned, recovering, calls>>

\* The result of a runner nobody waits for.
Lost(r, how) == IF exec[r] \in {"recording", "done"} THEN "none" ELSE how

\* The runner: the workspace, the task and the CLI session; the turn, and the
\* clean-up, which follows a turn only.
Work(r) ==
  /\ work[r] \in Working
  /\ \/ work[r] = "preparing" /\ work' = [work EXCEPT ![r] = "turn"]
     \/ work[r] = "preparing" /\ work' = [work EXCEPT ![r] = "error"]
     \/ work[r] = "turn" /\ work' = [work EXCEPT ![r] = "closing"]
     \/ work[r] = "closing" /\ \E how \in {"ok", "error"} : work' = [work EXCEPT ![r] = Lost(r, how)]
  /\ UNCHANGED <<running, runOf, exec, attempt, aborted, status, approval, cancel, scanned,
                 recovering, calls>>

\* runWithTimeout is over: a result, an error (after which the run may be
\* queued again), or the time-out, which aborts and lets the runner be torn
\* down, not for long. The outcome enters the queue of the store at once.
Conclude(r, how) ==
  /\ status' = [status EXCEPT ![r] = how]
  /\ To(r, IF how = "queued" THEN "backoff" ELSE "clearing")

EndAttempt(r) ==
  /\ exec[r] = "working" /\ work[r] \in {"ok", "error"}
  /\ \/ r \in aborted /\ Conclude(r, "cancelled")
     \/ r \notin aborted /\ work[r] = "ok" /\ \E how \in {"succeeded", "awaiting_review"} : Conclude(r, how)
     \/ r \notin aborted /\ work[r] = "error"
        /\ Conclude(r, IF attempt[r] <= RetriesOf[r] THEN "queued" ELSE "failed")
  /\ UNCHANGED <<running, runOf, attempt, work, aborted, approval, cancel, scanned, recovering, calls>>

TimeOut(r) ==
  /\ \/ /\ exec[r] = "working" /\ work[r] \in Working
        /\ To(r, "teardown") /\ aborted' = aborted \cup {r}
        /\ UNCHANGED status
     \/ exec[r] = "teardown" /\ Conclude(r, "timed_out") /\ UNCHANGED aborted
  /\ UNCHANGED <<running, runOf, attempt, work, approval, cancel, scanned, recovering, calls>>

\* waitForRetry: the next attempt, or the rejection of an aborted wait, which
\* leaves the run as it is stored.
Retry(r) ==
  /\ exec[r] = "backoff"
  /\ To(r, IF r \in aborted THEN "clearing" ELSE "starting")
  /\ UNCHANGED <<running, runOf, attempt, work, aborted, status, approval, cancel, scanned,
                 recovering, calls>>

\* The finally clause: approvals are denied, the reservation is given up
\* and the completion is recorded with the automation.
Finish(r) ==
  /\ \/ /\ exec[r] = "clearing"
        /\ approval' = [approval EXCEPT ![r] = IF @ = "open" THEN "none" ELSE @]
        /\ running' = running \ {runOf[r]}
        /\ To(r, "recording")
        /\ UNCHANGED <<attempt, aborted, work, cancel>>
     \/ /\ exec[r] = "recording"
        /\ attempt' = [attempt EXCEPT ![r] = 0] /\ aborted' = aborted \ {r}
        /\ work' = [work EXCEPT ![r] = IF @ \in Working THEN @ ELSE "none"]
        /\ cancel' = [cancel EXCEPT ![r] = IF @ = "none" THEN "done" ELSE @]
        /\ To(r, "done")
        /\ UNCHANGED <<approval, running>>
  /\ UNCHANGED <<runOf, status, scanned, recovering, calls>>

\* requestApproval: the run must be active, its status is stored, and the
\* approval enters the map.
RequestApproval(r) ==
  /\ \/ /\ r \in Attended /\ approval[r] = "none" /\ work[r] = "turn"
        /\ status[r] \in {"running", "awaiting_approval"}
        /\ approval' = [approval EXCEPT ![r] = "writing"]
        /\ UserCall
        /\ UNCHANGED status
     \/ /\ approval[r] = "writing"
        /\ status' = [status EXCEPT ![r] = "awaiting_approval"]
        /\ approval' = [approval EXCEPT ![r] = "open"]
        /\ UNCHANGED calls
  /\ UNCHANGED <<running, runOf, exec, attempt, work, aborted, cancel, scanned, recovering>>

\* respondApproval: the CLI is told, the run is read, and stored as running.
RespondApproval(r) ==
  /\ \/ /\ approval[r] = "open" /\ approval' = [approval EXCEPT ![r] = "answering"]
        /\ UNCHANGED status
     \/ /\ approval[r] = "answering" /\ approval' = [approval EXCEPT ![r] = "updating"]
        /\ UNCHANGED status
     \/ /\ approval[r] = "updating" /\ approval' = [approval EXCEPT ![r] = "none"]
        /\ status' = [status EXCEPT ![r] = "running"]
  /\ UNCHANGED <<running, runOf, exec, attempt, work, aborted, cancel, scanned, recovering, calls>>

\* cancel(): approvals are denied, the controller aborts, the run is stored.
CancelRun(r) ==
  /\ \/ /\ r \in Attended /\ cancel[r] = "none" /\ runOf[r] \in running /\ exec[r] \notin {"new", "recording", "done"}
        /\ cancel' = [cancel EXCEPT ![r] = "clearing"]
        /\ UserCall
        /\ UNCHANGED <<approval, aborted, status>>
     \/ /\ cancel[r] = "clearing"
        /\ approval' = [approval EXCEPT ![r] = IF @ = "open" THEN "none" ELSE @]
        /\ aborted' = aborted \cup {r}
        /\ cancel' = [cancel EXCEPT ![r] = "finding"]
        /\ UNCHANGED <<status, calls>>
     \/ /\ cancel[r] = "finding"
        /\ status' = [status EXCEPT ![r] = IF @ = "none" THEN @ ELSE "cancelled"]
        /\ cancel' = [cancel EXCEPT ![r] = "done"]
        /\ UNCHANGED <<approval, aborted, calls>>
  /\ UNCHANGED <<running, runOf, exec, attempt, work, scanned, recovering>>

\* review() of a finished run.
Review(r) ==
  /\ r \in Attended /\ status[r] = "awaiting_review" /\ UserCall
  /\ \E verdict \in {"succeeded", "failed"} : status' = [status EXCEPT ![r] = verdict]
  /\ UNCHANGED <<running, runOf, exec, attempt, work, aborted, approval, cancel, scanned, recovering>>

\* The application ends and starts; what was queued or running has failed.
Restart ==
  /\ ~recovering /\ recovering' = TRUE /\ UserCall
  /\ running' = {} /\ scanned' = {} /\ aborted' = {}
  /\ exec' = [r \in Runs |-> IF exec[r] = "new" THEN "new" ELSE "done"]
  /\ work' = [r \in Runs |-> "none"] /\ cancel' = [r \in Runs |-> "done"]
  /\ approval' = [r \in Runs |-> "none"]
  /\ UNCHANGED <<runOf, attempt, status>>

RecoverInterruptedRuns ==
  /\ recovering
  /\ recovering' = FALSE
  /\ status' = [r \in Runs |-> IF status[r] \in {"queued", "running"} THEN "failed" ELSE status[r]]
  /\ UNCHANGED <<running, runOf, exec, attempt, work, aborted, approval, cancel, scanned, calls>>

AutoNext ==
  \/ RunDue \/ EndScan \/ Restart \/ RecoverInterruptedRuns
  \/ \E a \in Autos : RunNow(a)
  \/ \E r \in Runs : \/ PrepareAttempt(r) \/ Work(r) \/ EndAttempt(r) \/ TimeOut(r) \/ Retry(r)
                     \/ Finish(r) \/ RequestApproval(r) \/ RespondApproval(r)
                     \/ CancelRun(r) \/ Review(r)

AutoSpec == AutoInit /\ [][AutoNext]_autoVars

-----------------------------------------------------------------------------
Executing1(r) == exec[r] \notin {"new", "recording", "done"}

\* Manual, scheduled and retried runs reserve their place before they await:
\* an automation has one execution at a time, and the executions never exceed
\* the limit.
RunsExclusive ==
  /\ \A r, s \in Runs : Executing1(r) /\ Executing1(s) /\ runOf[r] = runOf[s] => r = s
  /\ Cardinality({r \in Runs : Executing1(r)}) <= MaxAtOnce

\* An execution goes on until its completion is recorded.
RunsUnderWay == \E r \in Runs : exec[r] \notin {"new", "done"}

\* A cancelled run stays cancelled once its execution is over.
CancelledStays ==
  [][\A r \in Runs : status[r] = "cancelled" /\ exec[r] \in {"recording", "done"}
                      => status'[r] = "cancelled"]_autoVars

-----------------------------------------------------------------------------
(* The schedule. Times are hours since an epoch; a day has DayHours of them. *)
VARIABLES
  zone,       \* the offsets of the zone, and when they change
  schedule, enabled, nextRun,
  held,       \* the run under way, and whether the automation was edited meanwhile
  clock

schedVars == <<zone, schedule, enabled, nextRun, held, clock>>

Never == -1       \* nextRunAt: null
Unable == -2      \* an exception

\* A zone changes its clock by an hour, and no zone west of UTC skips the first
\* hour of a day (see NextRunIsNext); a cron schedule looks beyond the bound of
\* the clock.
ASSUME ScheduleAssumption ==
  /\ {DayHours, WeekDays, MonthDays} \subseteq Nat \ {0} /\ {SearchDays, LastHour} \subseteq Nat
  /\ DayHours > 1
  /\ LastHour < SearchDays * DayHours
  /\ \A z \in Zones : /\ {z.change, z.before, z.after} \subseteq Int /\ z.after - z.before \in -1..1
                      /\ z.after > z.before /\ z.before < 0 => (z.change + z.before) % DayHours # 0
  /\ \A s \in Schedules : /\ s.kind \in {"manual", "once", "interval", "daily", "weekly", "cron"}
                          /\ s.kind = "once" => s.at \in Nat
                          /\ s.kind = "interval" => s.every \in Nat \ {0} /\ s.start \in Nat \cup {Never}
                          /\ s.kind \in {"daily", "weekly"} => s.hour \in 0..DayHours - 1

Offset(t) == IF t < zone.change THEN zone.before ELSE zone.after
Local(t) == t + Offset(t)
DayOf(x) == x \div DayHours
HourOf(x) == x % DayHours

\* Faulty variant of ZonedDateToUtc: one correction only.
ZonedOnce(x) == x - Offset(x)

\* zonedDateToUtc: local time x as UTC, corrected twice.
ZonedDateToUtc(x) == x - Offset(x - Offset(x))

Earliest(S) == CHOOSE t \in S : \A u \in S : t <= u
Alias(x, sunday) == IF sunday /\ x = WeekDays THEN 0 ELSE x

\* parseCronField: `*`, or ranges with a step; in the field of week days the
\* number after the last one is Sunday again.
FieldValid(field, min, max, sunday) ==
  \/ field.every
  \/ field.parts # {} /\ \A p \in field.parts :
       p.step >= 1 /\ min <= Alias(p.from, sunday) /\ Alias(p.to, sunday) <= max
       /\ Alias(p.from, sunday) <= Alias(p.to, sunday)
FieldValues(field, min, max, sunday) ==
  IF field.every THEN min..max
  ELSE UNION {{x \in Alias(p.from, sunday)..Alias(p.to, sunday) : (x - Alias(p.from, sunday)) % p.step = 0}
              : p \in field.parts}

ParseCronValid(s) ==
  /\ FieldValid(s.hours, 0, DayHours - 1, FALSE) /\ FieldValid(s.dom, 1, MonthDays, FALSE)
  /\ FieldValid(s.dow, 0, WeekDays - 1, TRUE)

\* validateSchedule.
ValidSchedule(s) == s.kind = "cron" => ParseCronValid(s)

\* A day suits both fields, or one of them when neither is `*`.
DayMatches(s, day) ==
  LET dom == (day % MonthDays) + 1 \in FieldValues(s.dom, 1, MonthDays, FALSE)
      dow == day % WeekDays \in FieldValues(s.dow, 0, WeekDays - 1, TRUE)
  IN IF s.dom.every \/ s.dow.every THEN dom /\ dow ELSE dom \/ dow

\* Without a start, the anchor is the time asked about.
NextInterval(s, from) ==
  LET anchor == IF s.start = Never THEN from ELSE s.start IN
  IF anchor > from THEN anchor ELSE anchor + (((from - anchor) \div s.every) + 1) * s.every

NextDaily(s, from) ==
  LET today == ZonedDateToUtc(DayOf(Local(from)) * DayHours + s.hour) IN
  IF today <= from THEN ZonedDateToUtc((DayOf(Local(from)) + 1) * DayHours + s.hour) ELSE today

NextWeekly(s, from) ==
  LET days == {d \in DayOf(Local(from))..(DayOf(Local(from)) + WeekDays) :
                 d % WeekDays \in s.days /\ ZonedDateToUtc(d * DayHours + s.hour) > from}
  IN IF days = {} THEN Unable ELSE ZonedDateToUtc(Earliest(days) * DayHours + s.hour)

\* Days and hours in their order; a local time the zone skips is passed over.
NextCron(s, from) ==
  LET times == {x \in (DayOf(Local(from)) * DayHours)..((DayOf(Local(from)) + SearchDays + 1) * DayHours - 1) :
                  /\ DayMatches(s, DayOf(x)) /\ HourOf(x) \in FieldValues(s.hours, 0, DayHours - 1, FALSE)
                  /\ ZonedDateToUtc(x) > from /\ Local(ZonedDateToUtc(x)) = x}
  IN IF times = {} THEN Never ELSE ZonedDateToUtc(Earliest(times))

NextRunAt(s, from) ==
  CASE s.kind = "manual" -> Never
    [] s.kind = "once" -> IF s.at > from THEN s.at ELSE Never
    [] s.kind = "interval" -> NextInterval(s, from)
    [] s.kind = "daily" -> NextDaily(s, from)
    [] s.kind = "weekly" -> NextWeekly(s, from)
    [] s.kind = "cron" -> NextCron(s, from)

SchedTypesOK ==
  /\ zone \in Zones /\ schedule \in Schedules /\ enabled \in BOOLEAN /\ nextRun \in Int
  /\ held \in {"none", "running", "edited"} /\ clock \in 0..LastHour

\* create.
SchedInit ==
  /\ zone \in Zones /\ clock = 0
  /\ schedule \in {s \in Schedules : ValidSchedule(s)}
  /\ enabled = TRUE /\ held = "none"
  /\ nextRun = NextRunAt(schedule, 0) /\ nextRun # Unable

Edited == IF held = "none" THEN held ELSE "edited"

\* update with a schedule.
UpdateSchedule(s) ==
  /\ ValidSchedule(s) /\ NextRunAt(s, clock) # Unable
  /\ schedule' = s /\ nextRun' = NextRunAt(s, clock) /\ held' = Edited
  /\ UNCHANGED <<zone, enabled, clock>>

\* pause, and resume, which gives the schedule again.
Pause ==
  /\ enabled' = FALSE /\ nextRun' = Never /\ held' = Edited
  /\ UNCHANGED <<zone, schedule, clock>>
Resume ==
  /\ NextRunAt(schedule, clock) # Unable
  /\ enabled' = TRUE /\ nextRun' = NextRunAt(schedule, clock) /\ held' = Edited
  /\ UNCHANGED <<zone, schedule, clock>>

\* The run the scan starts; runNow starts one at any time.
StartDue ==
  /\ held = "none" /\ enabled /\ nextRun # Never /\ nextRun <= clock
  /\ held' = "running"
  /\ UNCHANGED <<zone, schedule, enabled, nextRun, clock>>
StartByHand ==
  /\ held = "none" /\ held' = "running"
  /\ UNCHANGED <<zone, schedule, enabled, nextRun, clock>>

\* recordCompletion: an automation that was edited keeps what it has; the
\* exception of a schedule without a next run leaves the record as it is.
RecordCompletion ==
  LET next == IF schedule.kind = "once" THEN Never ELSE NextRunAt(schedule, clock)
      kept == held = "edited" \/ schedule.kind = "manual" \/ next = Unable IN
  /\ held # "none" /\ held' = "none"
  /\ nextRun' = IF kept THEN nextRun ELSE next
  /\ enabled' = (enabled /\ (held = "edited" \/ schedule.kind # "once"))
  /\ UNCHANGED <<zone, schedule, clock>>

PassHour == clock < LastHour /\ clock' = clock + 1 /\ UNCHANGED <<zone, schedule, enabled, nextRun, held>>

ScheduleNext ==
  \/ Pause \/ Resume \/ StartDue \/ StartByHand \/ RecordCompletion \/ PassHour
  \/ \E s \in Schedules : UpdateSchedule(s)

SchedSpec == SchedInit /\ [][ScheduleNext]_schedVars

-----------------------------------------------------------------------------
Zoned(s) == s.kind \in {"daily", "weekly", "cron"}
LocalMatches(s, x) ==
  CASE s.kind = "daily" -> HourOf(x) = s.hour
    [] s.kind = "weekly" -> HourOf(x) = s.hour /\ DayOf(x) % WeekDays \in s.days
    [] s.kind = "cron" -> HourOf(x) \in FieldValues(s.hours, 0, DayHours - 1, FALSE) /\ DayMatches(s, DayOf(x))

\* The local times the change skips, and those it repeats.
SkippedTimes == (zone.change + zone.before)..(zone.change + zone.after - 1)
Repeated(x) == x \in (zone.change + zone.after)..(zone.change + zone.before - 1)

NextIsNext(s, from, next) ==
  CASE s.kind = "interval" ->
         /\ next > from
         /\ \/ next = s.start
            \/ next - s.every <= from /\ (s.start # Never => (next - s.start) % s.every = 0)
    [] Zoned(s) ->
         /\ next \notin {Never, Unable} => next > from
         /\ \A t \in (from + 1)..(IF next = Never THEN LastHour ELSE next - 1) :
              LocalMatches(s, Local(t)) => Repeated(Local(t))
         /\ \/ next \in {Never, Unable} \/ LocalMatches(s, Local(next))
            \/ /\ s.kind # "cron"
               /\ \E x \in SkippedTimes : LocalMatches(s, x) /\ Local(next) \in {x - 1, x + 1}
    [] OTHER -> TRUE

\* Whenever the next run of an automation is computed, by its creation, an
\* edit, a resumption or the end of a run, it is later than that moment, it
\* has the local time of the schedule (or stands for one its day skips) and
\* passes over no time of the schedule but one the zone repeats. Zones west of
\* UTC whose change skips the beginning of a day are excepted: there the daily
\* and the weekly run of that hour are computed for a moment that has passed.
NextRunIsNext ==
  /\ nextRun # Never => NextIsNext(schedule, clock, nextRun)
  /\ [][nextRun' # nextRun /\ nextRun' # Never => NextIsNext(schedule', clock, nextRun')]_schedVars

\* A schedule that goes on has a next run as long as it is enabled: no edit,
\* run or change of the clock ends it.
StaysScheduled == [](enabled /\ schedule.kind \in {"interval", "daily", "weekly"} => nextRun \in Nat)
=============================================================================
