---------------------------- MODULE AppLifecycle ----------------------------
(***************************************************************************)
(* One installation of the application over its starts and ends: how it    *)
(* starts, with a window or only to dispatch the automations that are due, *)
(* what a second start of it asks for meanwhile, what it closes before it  *)
(* ends, and what a killed one leaves to the next.  Then the scheduler of  *)
(* the operating system, which it keeps in step with its automations, and  *)
(* the cache of what it asked the CLI.  The three share no state.          *)
(* MaxLaunches, MaxAsked, MaxSyncs and MaxAsks bound the starts, the       *)
(* dispatches asked for, the changes of the automations and the reads of   *)
(* the cache.                                                              *)
(***************************************************************************)
EXTENDS Naturals, Sequences, FiniteSets

CONSTANTS MaxLaunches, MaxAsked, MaxSyncs, Askers, NoLoad, MaxAsks,
          AgentMade   \* what an agent makes: approvals, computer, guest, deltas or browser, or some

\* What an agent makes is closed with it or after it, but for approvals.
ASSUME AppAssumption ==
    /\ AgentMade \subseteq {"approvals", "computer", "guest", "deltas", "browser"}
    /\ {MaxLaunches, MaxAsked, MaxSyncs, MaxAsks} \subseteq Nat

\* No asker is the one that stands for no load under way.
ASSUME CacheAssumption == NoLoad \notin Askers

VARIABLES appPlace, launch, dispatchOnly, windowOpen, closing, failedStep, lateWork, live,
          acquiring, \* an acquisition of a guest that waits; late: its guest came after the close
          pendingDispatch, dispatchAsked, activeTask,
          wanted, syncs, syncing, scheduled, syncFailed, synced,
          unannounced, \* (history) no sync was queued for the last change of `wanted`
          asker, answer, cacheLoads, loadOf, cacheEpoch, asksMade

appVars == <<appPlace, launch, dispatchOnly, windowOpen, closing, failedStep, lateWork, live,
             acquiring, pendingDispatch, dispatchAsked, activeTask>>
osVars == <<wanted, syncs, syncing, scheduled, syncFailed, synced, unannounced>>
cacheVars == <<asker, answer, cacheLoads, loadOf, cacheEpoch, asksMade>>

\* What the shutdown closes, in its order.  An agent at work makes AgentMade.
Steps == <<"approvals", "remote", "agents", "terminals", "computer", "guest", "deltas", "browser">>
\* Faulty variant of ShutdownSteps: the buffered text is written before the agents are stopped.
StepsFlushFirst == <<"deltas", "approvals", "remote", "agents", "terminals", "computer", "guest", "browser">>
ShutdownSteps == Steps
ShutdownEnded == Len(ShutdownSteps) + 1

AppInit ==
    /\ appPlace = "off" /\ launch = 0 /\ dispatchOnly = FALSE /\ windowOpen = FALSE
    /\ closing = 0 /\ failedStep = FALSE /\ lateWork = FALSE /\ live = {}
    /\ acquiring = "no" /\ pendingDispatch = FALSE /\ dispatchAsked = 0 /\ activeTask = 0

\* The program is gone; the files keep what was written.
Gone ==
    /\ appPlace' = "off" /\ live' = {} /\ acquiring' = "no" /\ windowOpen' = FALSE /\ closing' = 0
    /\ failedStep' = FALSE /\ lateWork' = FALSE /\ pendingDispatch' = FALSE
Stays == UNCHANGED <<launch, dispatchOnly, dispatchAsked, activeTask>>
\* app.quit: the first starts the shutdown instead, one during the shutdown ends the program.
Quit == IF closing = 0 THEN closing' = 1 /\ UNCHANGED <<appPlace, live, acquiring, windowOpen,
                                                        failedStep, lateWork, pendingDispatch>>
        ELSE Gone

LaunchApp ==
    /\ appPlace = "off" /\ launch < MaxLaunches
    /\ launch' = launch + 1 /\ dispatchOnly' \in BOOLEAN /\ appPlace' = "reconciling"
    /\ UNCHANGED <<windowOpen, closing, failedStep, lateWork, live, acquiring, pendingDispatch,
                   dispatchAsked, activeTask>>
\* A task the last run left active is marked as interrupted, before anything can use the tasks.
ReconcileNothing == UNCHANGED activeTask
InterruptActive == activeTask' = 0
Reconcile ==
    /\ appPlace = "reconciling" /\ appPlace' = "building"
    /\ InterruptActive
    /\ UNCHANGED <<launch, dispatchOnly, windowOpen, closing, failedStep, lateWork, live,
                   acquiring, pendingDispatch, dispatchAsked>>
\* The dependencies are in place and the services made: from here on a dispatch is answered at
\* once, and one asked for before is made now.
PendingDropped == FALSE
PendingTaken == pendingDispatch
Build ==
    /\ appPlace = "building"
    /\ appPlace' = IF PendingTaken THEN "ready" ELSE IF dispatchOnly THEN "dispatching" ELSE "opening"
    /\ pendingDispatch' = (pendingDispatch /\ ~PendingTaken)
    /\ \/ UNCHANGED <<live, activeTask, lateWork>>
       \/ /\ PendingTaken \/ dispatchOnly
          /\ live' = live \union {"agents"} /\ activeTask' = launch /\ lateWork' = (closing > 0)
    /\ UNCHANGED <<launch, dispatchOnly, dispatchAsked, acquiring, windowOpen, closing, failedStep>>
Dispatched ==
    /\ appPlace = "ready" /\ appPlace' = IF dispatchOnly THEN "dispatching" ELSE "opening"
    /\ UNCHANGED <<windowOpen, closing, failedStep, lateWork, live, acquiring, pendingDispatch>> /\ Stays
OpenMainWindow ==
    /\ appPlace \in {"opening", "open"} /\ ~windowOpen
    /\ appPlace' = "open" /\ windowOpen' = TRUE
    /\ UNCHANGED <<closing, failedStep, lateWork, live, acquiring, pendingDispatch>> /\ Stays
\* A start that only dispatches ends when its automations have run.
EndDispatch ==
    /\ appPlace = "dispatching"
    /\ IF closing = 0 THEN appPlace' = "ended" /\ closing' = 1 /\ live' = live \ {"approvals", "agents", "browser"}
                           /\ UNCHANGED <<acquiring, windowOpen, failedStep, lateWork, pendingDispatch>>
       ELSE Gone
    /\ Stays
StartupFails ==
    /\ appPlace \in {"reconciling", "building", "ready", "dispatching"}
    /\ IF closing = 0 THEN appPlace' = "ended" /\ closing' = 1
                           /\ UNCHANGED <<live, acquiring, windowOpen, failedStep, lateWork, pendingDispatch>>
       ELSE Gone
    /\ Stays
\* New dependencies need a restart: the program is started again, without a shutdown.
Relaunch ==
    /\ appPlace = "building" /\ Gone /\ Stays

\* A second start hands its request to the one that runs, and ends.
SecondInstance ==
    /\ appPlace # "off" /\ dispatchAsked < MaxAsked /\ dispatchAsked' = dispatchAsked + 1
    /\ \/ /\ appPlace \in {"reconciling", "building", "ended"}
          /\ pendingDispatch' = TRUE /\ UNCHANGED <<live, lateWork, activeTask>>
       \/ /\ appPlace \notin {"reconciling", "building"}
          /\ live' = live \union {"agents"} /\ activeTask' = launch
          /\ lateWork' = (lateWork \/ closing > 0) /\ UNCHANGED pendingDispatch
    /\ UNCHANGED <<appPlace, launch, dispatchOnly, acquiring, windowOpen, closing, failedStep>>

\* The user, or a due automation, starts something; an agent at work makes more.
PendingWork(s) ==
    /\ appPlace = "open" /\ s \in {"agents", "remote", "terminals"} \ live
    /\ live' = live \union {s} /\ lateWork' = (lateWork \/ closing > 0)
    /\ activeTask' = IF s = "agents" THEN launch ELSE activeTask
    /\ UNCHANGED <<appPlace, launch, dispatchOnly, acquiring, windowOpen, closing, failedStep,
                   pendingDispatch, dispatchAsked>>
AgentWorks(s) ==
    /\ "agents" \in live /\ s \in AgentMade \ live
    /\ \/ live' = live \union {s} /\ UNCHANGED acquiring
       \/ s = "guest" /\ acquiring = "no" /\ acquiring' = "waiting" /\ UNCHANGED live
    /\ UNCHANGED <<appPlace, launch, dispatchOnly, windowOpen, closing, failedStep, lateWork,
                   pendingDispatch, dispatchAsked, activeTask>>
\* The shutdown is past the step that closes the guests.
GuestsClosed == closing > 6
\* acquire(): a command that waits for a place, or for the close of an idle guest, starts its own
\* whatever became of its agent; closeAll awaits only the starts that are under way.
GuestAcquired ==
    /\ acquiring = "waiting"
    /\ \/ live' = live \union {"guest"} /\ acquiring' = IF GuestsClosed THEN "late" ELSE "no"
       \/ acquiring' = "no" /\ UNCHANGED live
    /\ UNCHANGED <<appPlace, launch, dispatchOnly, windowOpen, closing, failedStep, lateWork,
                   pendingDispatch, dispatchAsked, activeTask>>
\* A turn ends, its text written; or the CLI process exits with it.
AgentEnds(failed) ==
    /\ "agents" \in live
    /\ live' = live \ ({"agents", "approvals", "deltas"} \union (IF failed THEN {"browser", "computer"} ELSE {}))
    /\ activeTask' = 0
    /\ UNCHANGED <<appPlace, launch, dispatchOnly, acquiring, windowOpen, closing, failedStep,
                   lateWork, pendingDispatch, dispatchAsked>>
\* Signing out, or a session that expires.
SignOut ==
    /\ appPlace = "open" /\ live \intersect {"remote", "approvals", "agents", "computer"} # {}
    /\ live' = live \ {"remote", "approvals", "agents", "computer"}
    /\ UNCHANGED <<appPlace, acquiring, windowOpen, closing, failedStep, lateWork, pendingDispatch>>
    /\ Stays

\* Quitting from a menu; the last window closing, which quits except on macOS.
UserQuits ==
    /\ appPlace \in {"building", "ready", "opening", "open"}
    /\ Quit /\ Stays
CloseWindow ==
    /\ windowOpen
    /\ \/ Quit
       \/ windowOpen' = FALSE /\ UNCHANGED <<appPlace, closing, failedStep, lateWork, live, acquiring,
                                            pendingDispatch>>
    /\ Stays

\* One step of the shutdown after the other; one that fails skips the rest.
ShutdownStep ==
    /\ closing \in 1..Len(ShutdownSteps)
    /\ \/ closing' = closing + 1 /\ live' = live \ {ShutdownSteps[closing]} /\ UNCHANGED failedStep
       \/ /\ ShutdownSteps[closing] # "agents"
          /\ closing' = ShutdownEnded /\ failedStep' = TRUE /\ UNCHANGED live
    /\ UNCHANGED <<appPlace, acquiring, windowOpen, lateWork, pendingDispatch>> /\ Stays
EndShutdown == closing = ShutdownEnded /\ Gone /\ Stays
Watchdog == closing \in 1..Len(ShutdownSteps) /\ Gone /\ Stays
Killed == appPlace # "off" /\ Gone /\ Stays

AppNext ==
    \/ LaunchApp \/ Reconcile \/ Build \/ Dispatched \/ OpenMainWindow \/ EndDispatch \/ StartupFails \/ Relaunch
    \/ SecondInstance \/ SignOut \/ UserQuits \/ CloseWindow \/ ShutdownStep \/ EndShutdown \/ Watchdog \/ Killed
    \/ \E s \in AgentMade \union {"agents", "remote", "terminals"} : PendingWork(s) \/ AgentWorks(s)
    \/ GuestAcquired \/ \E failed \in BOOLEAN : AgentEnds(failed)

-----------------------------------------------------------------------------
\* The task of the operating system that starts the program every minute, wanted while an
\* automation is scheduled.  A change of the automations lists them and queues a sync; the syncs
\* run one after the other.
OsInit ==
    /\ wanted = FALSE /\ syncs = <<>> /\ syncing = "idle" /\ scheduled = FALSE /\ syncFailed = FALSE /\ synced = 0
    /\ unannounced = FALSE
ChangeAutomations ==
    /\ synced < MaxSyncs /\ synced' = synced + 1
    /\ wanted' \in BOOLEAN /\ syncs' = Append(syncs, wanted') /\ unannounced' = FALSE
    /\ UNCHANGED <<syncing, scheduled, syncFailed>>
\* recordCompletion disables an automation that runs once, after the last event of its run.
CompletionRecorded ==
    /\ wanted /\ wanted' = FALSE /\ unannounced' = TRUE
    /\ UNCHANGED <<syncs, syncing, scheduled, syncFailed, synced>>
\* Faulty variant of OldestSync: each sync runs at once.
NextSyncs == 1..Len(syncs)
OldestSync == 1..(IF syncs = <<>> THEN 0 ELSE 1)
\* Installing writes its files and then enables them, removing the other way around.
SyncPlatform(i) ==
    /\ \/ syncing = "idle" /\ syncing' = "half" /\ UNCHANGED <<syncs, scheduled, syncFailed>>
       \/ /\ syncing = "half" /\ syncing' = "idle"
          /\ syncs' = SubSeq(syncs, 1, i - 1) \o SubSeq(syncs, i + 1, Len(syncs))
          /\ \/ scheduled' = syncs[i] /\ syncFailed' = FALSE
             \/ UNCHANGED scheduled /\ syncFailed' = TRUE
    /\ UNCHANGED <<wanted, synced, unannounced>>
OsNext == ChangeAutomations \/ CompletionRecorded \/ \E i \in OldestSync : SyncPlatform(i)

-----------------------------------------------------------------------------
\* The cache of what the CLI answers: an entry that lives for a while, and one load at a time
\* for those who find none.  Shutting the agents down forgets the loads under way.
CacheInit ==
    /\ asker = [a \in Askers |-> "idle"] /\ answer = "none"
    /\ cacheLoads = {} /\ loadOf = NoLoad /\ cacheEpoch = 0 /\ asksMade = 0
AskCache(a) ==
    /\ asker[a] = "idle" /\ asksMade < MaxAsks /\ asksMade' = asksMade + 1
    /\ asker' = [asker EXCEPT ![a] = IF answer = "fresh" THEN "idle" ELSE "missed"]
    /\ UNCHANGED <<answer, cacheLoads, loadOf, cacheEpoch>>
\* A miss waits for the load under way, or starts one.
LoadOnce(a) ==
    /\ asker[a] = "missed"
    /\ IF loadOf # NoLoad THEN asker' = [asker EXCEPT ![a] = "idle"] /\ UNCHANGED <<cacheLoads, loadOf>>
       ELSE /\ asker' = [asker EXCEPT ![a] = "loading"]
            /\ loadOf' = a /\ cacheLoads' = cacheLoads \union {[by |-> a, epoch |-> cacheEpoch]}
    /\ UNCHANGED <<answer, cacheEpoch, asksMade>>
\* Faulty variant of ForgetOwnLoad: a load that ends forgets whichever load is under way.
ForgetLoad(load) == NoLoad
ForgetOwnLoad(load) == IF loadOf = load.by THEN NoLoad ELSE loadOf
LoadEnds(load) ==
    /\ cacheLoads' = cacheLoads \ {load} /\ asker' = [asker EXCEPT ![load.by] = "idle"]
    /\ loadOf' = ForgetOwnLoad(load) /\ answer' \in {answer, "fresh"}
    /\ UNCHANGED <<cacheEpoch, asksMade>>
EntryExpires ==
    /\ answer = "fresh" /\ answer' = "none" /\ UNCHANGED <<asker, cacheLoads, loadOf, cacheEpoch, asksMade>>
ForgetLoads ==
    /\ loadOf # NoLoad /\ loadOf' = NoLoad /\ cacheEpoch' = cacheEpoch + 1
    /\ UNCHANGED <<asker, answer, cacheLoads, asksMade>>
CacheNext ==
    \/ \E a \in Askers : AskCache(a) \/ LoadOnce(a)
    \/ \E load \in cacheLoads : LoadEnds(load)
    \/ EntryExpires \/ ForgetLoads

-----------------------------------------------------------------------------
AppTypeOK ==
    /\ appPlace \in {"off", "reconciling", "building", "ready", "dispatching", "opening", "open", "ended"}
    /\ launch \in 0..MaxLaunches /\ activeTask \in 0..MaxLaunches
    /\ live \subseteq {Steps[i] : i \in 1..Len(Steps)} /\ closing \in 0..ShutdownEnded
    /\ {dispatchOnly, windowOpen, failedStep, lateWork, pendingDispatch} \subseteq BOOLEAN
    /\ acquiring \in {"no", "waiting", "late"}
    /\ syncs \in Seq(BOOLEAN) /\ scheduled \in BOOLEAN
    /\ asker \in [Askers -> {"idle", "missed", "loading"}]

\* A run of the program that can use its tasks finds none that an earlier run left active,
\* wherever that one was killed.
RestartReconciles == appPlace \notin {"off", "reconciling", "ended"} => activeTask \in {0, launch}

\* A dispatch asked for while the program starts is not forgotten once it has started, unless the
\* start fails.
DispatchKept == pendingDispatch => appPlace \in {"reconciling", "building", "ended"}

\* When nobody starts anything during a shutdown and no step of it fails, nothing is open at its
\* end and no text waits to be written, although agents worked until they were stopped; but for
\* a guest whose acquisition still waited when the guests were closed.
ClosedInOrder ==
    (closing = ShutdownEnded /\ ~failedStep /\ ~lateWork) =>
        live \subseteq {"approvals"} \union (IF acquiring = "late" THEN {"guest"} ELSE {})

\* With no sync left the operating system starts the program exactly when an automation is
\* scheduled, unless the last sync failed. The exception is the code's: after the run of the last
\* automation, one that runs once, it goes on starting the program until something changes.
SchedulerFollows ==
    syncs = <<>> => syncFailed \/ scheduled = wanted \/ (unannounced /\ scheduled)

\* The CLI is asked once at a time for the same thing, unless the agents were shut down between.
OneLoadAtATime == \A l, m \in cacheLoads : l.epoch = m.epoch => l = m

\* A shutdown goes on; its steps may hang.
ShutdownUnderWay == closing > 0 /\ appPlace # "off"
=============================================================================
