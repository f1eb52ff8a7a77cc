---------------------------- MODULE BrowserBroker ----------------------------
(***************************************************************************)
(* BrowserHostToolBroker (src/main/agents/browser-host-tool-broker.ts):    *)
(* requests of CLI sessions for the browser are chained per session, the   *)
(* browser of a session is created by its first request, and it is closed  *)
(* by the end of the CLI session, the run, the workspace or an abort.      *)
(* A browser session is named by the request that created it.              *)
(***************************************************************************)
EXTENDS Naturals, Sequences, SequencesExt

CONSTANTS
  Asks,      \* requests
  AskKey,    \* the key (workspace and CLI session) of each
  AskRun,    \* its runId
  Closers,   \* calls that close browsers
  MaxBGen,   \* bound on the generations of a key
  NoAsk, NoRun

BrowserKeys == {AskKey[q] : q \in Asks}
BRuns == {AskRun[q] : q \in Asks}

ASSUME BrowserAssumption == NoAsk \notin Asks /\ NoRun \notin BRuns /\ MaxBGen \in Nat

VARIABLES
  sessions, roots, sessionRuns, runSessions, policies, serial, generations,
  ask,      \* the request: its state, the generation it saw, its signal, and
            \* (history) whether its key was closed since it came
  live,     \* sessions of the BrowserService
  closer    \* close calls: the keys and sessions left, the one awaited

brokerVars == <<sessions, roots, sessionRuns, runSessions, policies, serial,
                generations, ask, live, closer>>

AskEnds == {"ok", "failed"}
Executing == {"creating", "cancelling", "acting"}
Idle == [keys |-> {}, ids |-> {}, key |-> NoAsk, at |-> NoAsk, run |-> NoRun,
         all |-> FALSE, on |-> FALSE]

BrokerTypeOK ==
  /\ sessions \in [BrowserKeys -> Asks \cup {NoAsk}] /\ roots \subseteq BrowserKeys /\ live \subseteq Asks
  /\ sessionRuns \in [BrowserKeys -> BRuns \cup {NoRun}]
  /\ runSessions \in [BRuns -> SUBSET Asks] /\ policies \subseteq BRuns
  /\ serial \in [BrowserKeys -> Seq(Asks)] /\ generations \in [BrowserKeys -> 0..MaxBGen]
  /\ ask \in [Asks -> [at : {"new", "queued"} \cup Executing \cup AskEnds,
                       gen : 0..MaxBGen, aborted : BOOLEAN, outdated : BOOLEAN]]
  /\ \A c \in Closers : closer[c].keys \subseteq BrowserKeys /\ closer[c].ids \subseteq Asks

BrokerInit ==
  /\ sessions = [k \in BrowserKeys |-> NoAsk] /\ roots = {} /\ live = {} /\ policies = {}
  /\ sessionRuns = [k \in BrowserKeys |-> NoRun] /\ runSessions = [r \in BRuns |-> {}]
  /\ serial = [k \in BrowserKeys |-> <<>>] /\ generations = [k \in BrowserKeys |-> 0]
  /\ ask = [q \in Asks |-> [at |-> "new", gen |-> 0, aborted |-> FALSE, outdated |-> FALSE]]
  /\ closer = [c \in Closers |-> Idle]

\* assertActive
Active(q) == ~ask[q].aborted /\ generations[AskKey[q]] = ask[q].gen

PolicyRun(q) == IF sessionRuns[AskKey[q]] # NoRun THEN sessionRuns[AskKey[q]] ELSE AskRun[q]

\* Faulty variant of CleanupGeneration: forgets the requests under way.
CleanupUnused(k, gens) ==
  generations' = IF sessions'[k] = NoAsk /\ sessionRuns'[k] = NoRun /\ k \notin roots'
                 THEN [gens EXCEPT ![k] = 0] ELSE gens

\* cleanupGeneration, the last step of those that call it.
CleanupGeneration(k, gens) ==
  generations' = IF /\ sessions'[k] = NoAsk /\ sessionRuns'[k] = NoRun
                    /\ serial'[k] = <<>> /\ k \notin roots'
                 THEN [gens EXCEPT ![k] = 0] ELSE gens

\* setRunPolicy and bindSessionToRun at the start of a run, clearRunPolicy at its end.
BindRun(k, run) ==
  /\ policies' = policies \cup {run}
  /\ sessionRuns' = [sessionRuns EXCEPT ![k] = run]
  /\ UNCHANGED <<sessions, roots, runSessions, serial, generations, ask, live, closer>>

ClearRunPolicy(run) ==
  /\ run \in policies
  /\ policies' = policies \ {run}
  /\ sessionRuns' = [k \in BrowserKeys |-> IF sessionRuns[k] = run THEN NoRun ELSE sessionRuns[k]]
  /\ UNCHANGED <<sessions, roots, runSessions, serial, generations, ask, live, closer>>

\* handle(): the request waits for those of its session before it.
Handle(q) ==
  LET k == AskKey[q] IN
  /\ ask[q].at = "new"
  /\ ask' = [ask EXCEPT ![q].at = "queued", ![q].gen = generations[k]]
  /\ roots' = roots \cup {k}
  /\ serial' = [serial EXCEPT ![k] = Append(@, q)]
  /\ UNCHANGED <<sessions, sessionRuns, runSessions, policies, generations, live, closer>>

\* The end of handle(): the answer, and the last one cleans up.
Answer(q, how) ==
  /\ ask' = [ask EXCEPT ![q].at = how]
  /\ serial' = [serial EXCEPT ![AskKey[q]] = Tail(@)]
  /\ IF serial'[AskKey[q]] = <<>> THEN CleanupGeneration(AskKey[q], generations) ELSE UNCHANGED generations

\* execute() up to the browser session: cancelled, refused by the policy of
\* its run, or with the session it finds or begins to create.
ExecuteAsk(q) ==
  LET k == AskKey[q] IN
  /\ ask[q].at = "queued" /\ Head(serial[k]) = q
  /\ UNCHANGED <<sessions, roots, sessionRuns, runSessions, policies, closer>>
  /\ \/ /\ ~Active(q) \/ PolicyRun(q) \in policies
        /\ Answer(q, "failed")
        /\ UNCHANGED live
     \/ /\ Active(q) /\ sessions[k] # NoAsk
        /\ ask' = [ask EXCEPT ![q].at = "acting"]
        /\ UNCHANGED <<live, serial, generations>>
     \/ /\ Active(q) /\ sessions[k] = NoAsk
        /\ ask' = [ask EXCEPT ![q].at = "creating"]
        /\ live' = live \cup {q}
        /\ UNCHANGED <<serial, generations>>

\* ensureSession when the browser session exists, or could not be created.
EnsureSession(q) ==
  LET k == AskKey[q] IN
  /\ ask[q].at = "creating"
  /\ UNCHANGED <<roots, sessionRuns, policies, closer>>
  /\ \/ /\ Active(q)
        /\ sessions' = [sessions EXCEPT ![k] = q]
        /\ runSessions' = [runSessions EXCEPT ![PolicyRun(q)] = @ \cup {q}]
        /\ ask' = [ask EXCEPT ![q].at = "acting"]
        /\ UNCHANGED <<live, serial, generations>>
     \/ /\ ~Active(q)
        /\ ask' = [ask EXCEPT ![q].at = "cancelling"]
        /\ UNCHANGED <<sessions, runSessions, live, serial, generations>>
     \/ /\ live' = live \ {q}
        /\ UNCHANGED <<sessions, runSessions>>
        /\ Answer(q, "failed")

\* The cancelled session is closed, or the action has ended one way or the other.
RunAction(q) ==
  /\ ask[q].at \in {"cancelling", "acting"}
  /\ live' = IF ask[q].at = "cancelling" THEN live \ {q} ELSE live
  /\ UNCHANGED <<sessions, roots, sessionRuns, runSessions, policies, closer>>
  /\ \E how \in AskEnds : /\ how = "ok" => ask[q].at = "acting" /\ Active(q)
                          /\ Answer(q, how)

\* The signal of a request; a request that executes closes its session.
Abort(q) ==
  /\ ask[q].at \in {"queued"} \cup Executing /\ ~ask[q].aborted
  /\ ask' = [ask EXCEPT ![q].aborted = TRUE]
  /\ IF ask[q].at = "queued" THEN UNCHANGED closer
     ELSE \E c \in Closers :
            /\ ~closer[c].on
            /\ closer' = [closer EXCEPT ![c] = [Idle EXCEPT !.on = TRUE, !.keys = {AskKey[q]}]]
  /\ UNCHANGED <<sessions, roots, sessionRuns, runSessions, policies, serial, generations, live>>

\* closeForSession, closeForWorkspace or closeRun begins: what it has to close.
BeginClosing(c) ==
  LET HasState(k) == \/ sessions[k] # NoAsk \/ sessionRuns[k] # NoRun
                     \/ serial[k] # <<>> \/ k \in roots
      OfRun(r) == {k \in BrowserKeys : sessionRuns[k] = r \/ sessions[k] \in runSessions[r]} IN
  /\ ~closer[c].on
  /\ \/ \E k \in BrowserKeys :
          closer' = [closer EXCEPT ![c] = [Idle EXCEPT !.on = TRUE, !.keys = {k}]]
     \/ closer' = [closer EXCEPT ![c] =
          [Idle EXCEPT !.on = TRUE, !.all = TRUE, !.keys = {k \in BrowserKeys : HasState(k)}]]
     \/ \E r \in BRuns :
          closer' = [closer EXCEPT ![c] =
            [Idle EXCEPT !.on = TRUE, !.run = r, !.keys = OfRun(r),
                         !.ids = runSessions[r] \ {sessions[k] : k \in OfRun(r)}]]
  /\ UNCHANGED <<sessions, roots, sessionRuns, runSessions, policies, serial, generations, ask, live>>

\* closeForKey: a new generation begins, and the browser of the old one, if
\* there is one, is awaited.
CloseKey(c, k) ==
  /\ closer[c].on /\ closer[c].at = NoAsk /\ k \in closer[c].keys
  /\ generations[k] < MaxBGen
  /\ sessions' = [sessions EXCEPT ![k] = NoAsk]
  /\ roots' = roots \ {k}
  /\ sessionRuns' = [sessionRuns EXCEPT ![k] = NoRun]
  /\ closer' = [closer EXCEPT ![c].keys = @ \ {k}, ![c].key = k, ![c].at = sessions[k]]
  /\ ask' = [q \in Asks |-> [ask[q] EXCEPT !.outdated = @ \/ q \in ToSet(serial[k])]]
  /\ UNCHANGED <<runSessions, policies, serial, live>>
  /\ LET bumped == [generations EXCEPT ![k] = @ + 1] IN
     IF sessions[k] = NoAsk THEN CleanupGeneration(k, bumped) ELSE generations' = bumped

\* A session of the run that no key names.
CloseId(c) ==
  /\ closer[c].on /\ closer[c].at = NoAsk /\ closer[c].keys = {}
  /\ \E id \in closer[c].ids :
       closer' = [closer EXCEPT ![c].ids = @ \ {id}, ![c].key = NoAsk, ![c].at = id]
  /\ UNCHANGED <<sessions, roots, sessionRuns, runSessions, policies, serial, generations, ask, live>>

\* browser.close has returned.
CloseReturned(c) ==
  LET id == closer[c].at  k == closer[c].key IN
  /\ id # NoAsk
  /\ live' = live \ {id}
  /\ closer' = [closer EXCEPT ![c].at = NoAsk]
  /\ UNCHANGED <<sessions, roots, sessionRuns, policies, serial, ask>>
  /\ IF k = NoAsk THEN UNCHANGED <<runSessions, generations>>
     ELSE /\ runSessions' = [r \in BRuns |-> runSessions[r] \ {id}]
          /\ CleanupGeneration(k, generations)

\* The end of the call; that of closeRun forgets the run, and that of
\* closeForWorkspace what was bound since it began.
EndClosing(c) ==
  /\ closer[c].on /\ closer[c].at = NoAsk /\ closer[c].keys = {} /\ closer[c].ids = {}
  /\ closer' = [closer EXCEPT ![c] = Idle]
  /\ runSessions' = [r \in BRuns |-> IF r = closer[c].run THEN {} ELSE runSessions[r]]
  /\ policies' = policies \ {closer[c].run}
  /\ sessionRuns' = [k \in BrowserKeys |->
       IF closer[c].all \/ sessionRuns[k] = closer[c].run THEN NoRun ELSE sessionRuns[k]]
  /\ UNCHANGED <<sessions, roots, serial, generations, ask, live>>

BrokerNext ==
  \/ \E k \in BrowserKeys, run \in BRuns : BindRun(k, run)
  \/ \E run \in BRuns : ClearRunPolicy(run)
  \/ \E q \in Asks : Handle(q) \/ ExecuteAsk(q) \/ EnsureSession(q) \/ RunAction(q) \/ Abort(q)
  \/ \E c \in Closers : \/ BeginClosing(c) \/ CloseId(c) \/ CloseReturned(c) \/ EndClosing(c)
                        \/ \E k \in BrowserKeys : CloseKey(c, k)

BrokerSpec == BrokerInit /\ [][BrokerNext]_brokerVars

-----------------------------------------------------------------------------
\* A browser session lives only while a key names it, while its request is
\* creating or cancelling it, or while a call is closing it; and the one a key
\* names was not created for a request that came before the last close of the
\* key, although generations are forgotten and counted from zero again.
BrowserSessionsOwned ==
  /\ \A id \in live :
       \/ \E k \in BrowserKeys : sessions[k] = id
       \/ ask[id].at \in {"creating", "cancelling"}
       \/ \E c \in Closers : id = closer[c].at \/ id \in closer[c].ids
  /\ \A k \in BrowserKeys : sessions[k] # NoAsk => ~ask[sessions[k]].outdated
=============================================================================
