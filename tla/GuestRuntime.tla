---------------------------- MODULE GuestRuntime ----------------------------
(***************************************************************************)
(* One guest of the sandbox: the start of its process by a runtime adapter *)
(* (src/main/sandbox/vm-runtime-adapter.ts), the channel to it             *)
(* (vm-guest-bridge.ts) with its pending requests, and its close.          *)
(* The first request is the health check of the start.                     *)
(***************************************************************************)
EXTENDS Naturals

CONSTANTS
  Requests,  \* execute() calls of the environment
  Health     \* the health check

ASSUME GuestAssumption == Health \notin Requests

VARIABLES
  launch,    \* start(): "no", "asking", "closing", "cleaning", "failed", "ready"
  leaving,   \* close() of the environment: "no", "closing", "cleaning", "done"
  guestProc, \* the guest process
  shut,      \* the field closed
  closing,   \* the shared promise of close(): "no", "waiting", "done"
  request,   \* a request of the bridge
  profile    \* the directory of the Seatbelt profile exists

guestVars == <<launch, leaving, guestProc, shut, closing, request, profile>>

All == Requests \cup {Health}

GuestTypeOK ==
  /\ launch \in {"no", "asking", "closing", "cleaning", "failed", "ready"}
  /\ leaving \in {"no", "closing", "cleaning", "done"}
  /\ guestProc \in {"none", "alive", "ending", "gone"}
  /\ closing \in {"no", "waiting", "done"}
  /\ request \in [All -> {"new", "waiting", "answered", "failed"}]
  /\ {shut, profile} \subseteq BOOLEAN

GuestInit ==
  /\ launch = "no" /\ leaving = "no" /\ guestProc = "none" /\ closing = "no"
  /\ shut = FALSE /\ profile = FALSE
  /\ request = [r \in All |-> "new"]

\* fail(): what waits is rejected.
FailAll(reqs) == [r \in All |-> IF reqs[r] = "waiting" THEN "failed" ELSE reqs[r]]

\* close(): shared by all who call it.
BeginClose ==
  /\ shut' = TRUE
  /\ IF closing = "no"
     THEN closing' = "waiting" /\ guestProc' = IF guestProc = "alive" THEN "ending" ELSE guestProc
     ELSE UNCHANGED <<closing, guestProc>>

\* start(): checks that may fail (a profile directory made before is left
\* behind), then the process and its health check.
Launch ==
  /\ launch = "no"
  /\ profile' \in BOOLEAN
  /\ \/ /\ launch' = "failed"
        /\ UNCHANGED <<guestProc, request>>
     \/ /\ launch' = "asking"
        /\ guestProc' = "alive"
        /\ request' = [request EXCEPT ![Health] = "waiting"]
  /\ UNCHANGED <<leaving, shut, closing>>

\* Faulty variant of Launched: a guest that fails its health check is dropped.
LaunchDropped ==
  /\ launch = "asking"
  /\ request[Health] # "waiting"
  /\ launch' = IF request[Health] = "answered" THEN "ready" ELSE "failed"
  /\ UNCHANGED <<leaving, guestProc, shut, closing, request, profile>>

\* The health check has settled: the environment, or close() and clean-up.
Launched ==
  /\ launch = "asking"
  /\ request[Health] # "waiting"
  /\ \/ /\ request[Health] = "answered"
        /\ launch' = "ready"
        /\ UNCHANGED <<shut, closing, guestProc>>
     \/ /\ request[Health] = "failed"
        /\ launch' = "closing"
        /\ BeginClose
  /\ UNCHANGED <<leaving, request, profile>>

LaunchAborted ==
  /\ \/ launch = "closing" /\ closing = "done" /\ launch' = "cleaning" /\ UNCHANGED profile
     \/ launch = "cleaning" /\ launch' = "failed" /\ profile' = FALSE
  /\ UNCHANGED <<leaving, guestProc, shut, closing, request>>

\* execute() of the environment.
Execute(r) ==
  /\ launch = "ready" /\ r \in Requests
  /\ request[r] = "new"
  /\ request' = [request EXCEPT ![r] = IF shut THEN "failed" ELSE "waiting"]
  /\ UNCHANGED <<launch, leaving, guestProc, shut, closing, profile>>

\* A line of the guest: an answer or an error for a request that waits (for
\* others it is ignored), or one that cannot be read.
GuestLine ==
  /\ guestProc = "alive" /\ ~shut
  /\ \/ /\ \E r \in All : /\ request[r] = "waiting"
                          /\ \E end \in {"answered", "failed"} :
                               request' = [request EXCEPT ![r] = end]
        /\ UNCHANGED <<shut, closing, guestProc>>
     \/ request' = FailAll(request) /\ BeginClose
  /\ UNCHANGED <<launch, leaving, profile>>

\* The time-out, the signal, or a failing write of one request closes the
\* channel for all: the others are rejected when the process has ended.
GiveUpRequest(r) ==
  /\ request[r] = "waiting"
  /\ request' = [request EXCEPT ![r] = "failed"]
  /\ BeginClose
  /\ UNCHANGED <<launch, leaving, profile>>

GuestExits ==
  /\ guestProc \in {"alive", "ending"}
  /\ guestProc' = "gone"
  /\ shut' = TRUE
  /\ request' = FailAll(request)
  /\ UNCHANGED <<launch, leaving, closing, profile>>

\* The process has ended, or its end could not be confirmed.
Closed ==
  /\ closing = "waiting"
  /\ closing' = "done"
  /\ request' = FailAll(request)
  /\ UNCHANGED <<launch, leaving, guestProc, shut, profile>>

\* close() of the environment, then its clean-up.
Leave ==
  /\ launch = "ready"
  /\ \/ leaving = "no" /\ leaving' = "closing" /\ BeginClose /\ UNCHANGED profile
     \/ /\ leaving = "closing" /\ closing = "done" /\ leaving' = "cleaning"
        /\ UNCHANGED <<shut, closing, guestProc, profile>>
     \/ /\ leaving = "cleaning" /\ leaving' = "done" /\ profile' = FALSE
        /\ UNCHANGED <<shut, closing, guestProc>>
  /\ UNCHANGED <<launch, request>>

GuestNext ==
  \/ Launch \/ Launched \/ LaunchAborted \/ GuestLine \/ GuestExits \/ Closed \/ Leave
  \/ \E r \in All : Execute(r) \/ GiveUpRequest(r)

GuestSpec == GuestInit /\ [][GuestNext]_guestVars

-----------------------------------------------------------------------------
\* A start that has failed and a close that has returned leave no process that
\* was not told to end, although a failed health check, an unreadable line, a
\* time-out and an exit race for the one close.  It may still be "ending":
\* close() swallows that the end could not be confirmed.
NoGuestLeft ==
  launch = "failed" \/ leaving = "done" =>
    guestProc # "alive" /\ (leaving = "done" => ~profile)

\* A request waits for its answer.
GuestRequestsUnderWay == \E r \in All : request[r] = "waiting"
=============================================================================
