---------------------------- MODULE GuestInstalls ----------------------------
(***************************************************************************)
(* What a sandbox needs before it starts: the runtime                      *)
(* (vm-runtime-adapter.ts, windows-wsl2-prerequisite-service.ts), and the  *)
(* distribution and packages of a profile, which                           *)
(* native-dependency-service.ts installs. The preparation of a sandbox and *)
(* the user's repair (vm-health-service.ts) come together in the cached    *)
(* reports of index.ts. Every command is bounded by a time-out.            *)
(***************************************************************************)
EXTENDS Naturals, Sequences, FiniteSets

CONSTANTS
  Profiles,
  InstallStarts,        \* preparations, each of one acquisition
  MaxTries,      \* dependencyRetryMaxAttempts
  MaxInstalls,   \* bound on the operations, and on the repairs
  HostTools,     \* dependencies of the host
  HostCommands,  \* commands a host may have, the package managers among them
  HostManifests      \* manifests: what a tool needs, who installs it, and whether by itself

ASSUME InstallAssumption ==
  /\ {MaxTries, MaxInstalls} \subseteq Nat \ {0} /\ IsFiniteSet(HostTools)
  /\ \A m \in HostManifests, t \in HostTools : UNION m[t].needs \subseteq HostCommands

VARIABLES
  windows, automatic,   \* the platform and automaticDependencyBootstrap
  wsl, distribution,    \* the Windows features; the one distribution
  packages,             \* the package groups that are installed
  installs,             \* guestInstallOperations, by profile and mode
  cache,                \* guestDependencyCache
  starting,             \* the preparations
  repair,               \* repairOperation
  begun, repairs, thrown, repaired   \* counts, and the last operation of a repair, by profile

installVars == <<windows, automatic, wsl, distribution, packages, installs, cache,
                 starting, repair, begun, repairs, thrown, repaired>>
world == <<windows, automatic, wsl, distribution, packages>>

Modes == {"install", "inspect"}
Groups == IF windows THEN <<"apt", "npm">> ELSE <<"host">>
CompleteReport == {Groups[i] : i \in DOMAIN Groups} \subseteq packages
NoOperation == [at |-> "none", number |-> 0, left |-> <<>>, tries |-> 0, failed |-> FALSE]
Mode == IF automatic THEN "install" ELSE "inspect"

InstallTypeOK ==
  /\ {windows, automatic, wsl} \subseteq BOOLEAN
  /\ distribution \in {"absent", "stuck", "usable"} /\ packages \subseteq {"apt", "npm", "host"}
  /\ \A k \in Profiles, m \in Modes :
       /\ installs[k][m].at \in {"none", "inspect", "import", "again", "packages", "after"}
       /\ installs[k][m].number \in 0..MaxInstalls /\ installs[k][m].tries \in 0..MaxTries
  /\ cache \in [Profiles -> [number : 0..MaxInstalls, complete : BOOLEAN]]
  /\ starting \in [InstallStarts -> [at : {"new", "runtime", "waiting", "done"}, profile : Profiles]]
  /\ repair \in [at : {"no", "runtime", "packages", "probe"}, profile : Profiles]
  /\ {begun, repairs, thrown, repaired} \subseteq [Profiles -> 0..MaxInstalls]

InstallInit ==
  /\ windows \in BOOLEAN /\ automatic \in BOOLEAN /\ wsl \in BOOLEAN
  /\ distribution = "absent" /\ packages = {}
  /\ installs = [k \in Profiles |-> [m \in Modes |-> NoOperation]]
  /\ cache = [k \in Profiles |-> [number |-> 0, complete |-> FALSE]]
  /\ starting \in [InstallStarts -> [at : {"new"}, profile : Profiles]]
  /\ repair \in [at : {"no"}, profile : Profiles]
  /\ begun = [k \in Profiles |-> 0] /\ repairs = begun /\ thrown = begun /\ repaired = begun

Count(f, k) == [f EXCEPT ![k] = @ + 1]

-----------------------------------------------------------------------------
(* The runtime *)

\* inspect of the adapter, and what its repair may bring about: the Windows
\* features with the administrator's consent, and a shutdown of WSL.
RuntimeUp(mayRepair, up) ==
  IF ~windows THEN UNCHANGED <<wsl, distribution>>
  ELSE \/ up /\ wsl /\ distribution = "usable" /\ UNCHANGED <<wsl, distribution>>
       \/ ~up /\ ~mayRepair /\ UNCHANGED <<wsl, distribution>>
       \/ /\ mayRepair /\ wsl' \in {wsl, TRUE} /\ (up => wsl')
          /\ distribution' \in IF distribution = "stuck" THEN {"stuck", "usable"} ELSE {distribution}

\* Faulty variant of EnsureGuestInstalled: every caller begins one.
EnsureBeside(k, m) ==
  /\ begun[k] < MaxInstalls
  /\ begun' = Count(begun, k)
  /\ installs' = [installs EXCEPT ![k][m] = [NoOperation EXCEPT !.at = "inspect", !.number = begun[k] + 1]]

\* ensureGuestInstalled: joins the operation of the same profile and mode.
EnsureGuestInstalled(k, m) ==
  IF installs[k][m].at # "none" THEN UNCHANGED <<begun, installs>>
  ELSE /\ begun[k] < MaxInstalls
       /\ begun' = Count(begun, k)
       /\ installs' = [installs EXCEPT ![k][m] = [NoOperation EXCEPT !.at = "inspect", !.number = begun[k] + 1]]

\* prepareGuestDependencies: the runtime first; a cached report, even of a
\* failure, is used as it is.
PrepareGuest(c) ==
  LET k == starting[c].profile IN
  /\ \/ /\ starting[c].at = "new" /\ starting' = [starting EXCEPT ![c].at = "runtime"]
        /\ UNCHANGED <<wsl, distribution, begun, installs>>
     \/ /\ starting[c].at = "runtime"
        /\ \E up \in BOOLEAN :
             /\ RuntimeUp(automatic, up)
             /\ IF up /\ cache[k].number = 0
                THEN /\ EnsureGuestInstalled(k, Mode)
                     /\ starting' = [starting EXCEPT ![c].at = "waiting"]
                ELSE /\ starting' = [starting EXCEPT ![c].at = "done"]
                     /\ UNCHANGED <<begun, installs>>
  /\ UNCHANGED <<windows, automatic, packages, cache, repair, repairs, thrown, repaired>>

\* repair of the health service, one at a time: the runtime; then, when it is
\* up or has no repair of its own, the packages, whose report is forgotten
\* first; then a last inspection.
Repair ==
  LET k == repair.profile IN
  /\ \/ /\ repair.at = "no" /\ repairs[k] < MaxInstalls
        /\ repair' = [repair EXCEPT !.at = "runtime"]
        /\ repairs' = Count(repairs, k)
        /\ UNCHANGED <<wsl, distribution, begun, installs, cache>>
     \/ /\ repair.at = "runtime"
        /\ \E up \in BOOLEAN :
             /\ RuntimeUp(TRUE, up)
             /\ IF up \/ ~windows
                THEN /\ EnsureGuestInstalled(k, "install")
                     /\ repair' = [repair EXCEPT !.at = "packages"]
                     /\ cache' = [cache EXCEPT ![k] = [number |-> 0, complete |-> FALSE]]
                ELSE repair' = [repair EXCEPT !.at = "probe"] /\ UNCHANGED <<begun, installs, cache>>
        /\ UNCHANGED repairs
     \/ /\ repair.at = "probe" /\ repair' = [repair EXCEPT !.at = "no"]
        /\ UNCHANGED <<wsl, distribution, begun, installs, cache, repairs>>
  /\ UNCHANGED <<windows, automatic, packages, starting, thrown, repaired>>

-----------------------------------------------------------------------------
(* An operation of native-dependency-service.ts *)

Waits(k, m) == \E c \in InstallStarts : starting[c].at = "waiting" /\ starting[c].profile = k /\ m = Mode
Repairs(k, m) == repair.at = "packages" /\ repair.profile = k /\ m = "install"

\* It settles for all who wait for it; getGuestDependencyReport and
\* repairDependencies keep its report, and nothing when it has thrown.
Settle(k, m, threw, complete) ==
  LET number == installs[k][m].number IN
  /\ installs' = [installs EXCEPT ![k][m] = NoOperation]
  /\ cache' = IF threw \/ ~(Waits(k, m) \/ Repairs(k, m)) THEN cache
              ELSE [cache EXCEPT ![k] = [number |-> number, complete |-> complete]]
  /\ starting' = [c \in InstallStarts |-> IF starting[c].at = "waiting" /\ starting[c].profile = k /\ m = Mode
                                   THEN [starting[c] EXCEPT !.at = "done"] ELSE starting[c]]
  /\ IF Repairs(k, m)
     THEN /\ repair' = [repair EXCEPT !.at = IF threw THEN "no" ELSE "probe"]
          /\ repaired' = IF threw THEN repaired ELSE [repaired EXCEPT ![k] = number]
     ELSE UNCHANGED <<repair, repaired>>
  /\ thrown' = IF threw THEN Count(thrown, k) ELSE thrown
  /\ UNCHANGED <<begun, repairs>>

Continue(k, m, next) ==
  /\ installs' = [installs EXCEPT ![k][m] = next]
  /\ UNCHANGED <<cache, starting, repair, begun, repairs, thrown, repaired>>

\* inspectGuest, the first time and after an import; it throws when the
\* manifest cannot be read.
Inspect(k, m) ==
  LET op == installs[k][m] IN
  /\ op.at \in {"inspect", "again"}
  /\ UNCHANGED world
  /\ \/ Settle(k, m, TRUE, FALSE)
     \/ \E available \in BOOLEAN :
          /\ available => ~windows \/ distribution = "usable"
          /\ ~available => windows
          /\ IF ~available /\ m = "install" /\ op.at = "inspect"
             THEN Continue(k, m, [op EXCEPT !.at = "import", !.tries = 1])
             ELSE IF m = "inspect" \/ ~available \/ CompleteReport
             THEN Settle(k, m, FALSE, available /\ CompleteReport)
             ELSE Continue(k, m, [op EXCEPT !.at = "packages", !.left = Groups, !.tries = 1])

\* ensureGuestDistribution: refused when it is registered; an import that has
\* timed out may leave it registered, and the next attempt finds it so.
Import(k, m) ==
  LET op == installs[k][m] IN
  /\ op.at = "import"
  /\ UNCHANGED <<windows, automatic, wsl, packages>>
  /\ \/ distribution = "absent" /\ distribution' = "usable" /\ Continue(k, m, [op EXCEPT !.at = "again"])
     \/ /\ distribution = "absent" /\ op.tries < MaxTries
        /\ distribution' \in {"absent", "stuck"}
        /\ Continue(k, m, [op EXCEPT !.tries = @ + 1])
     \/ distribution' = distribution /\ Settle(k, m, FALSE, FALSE)

\* apt and npm in the guest, a package manager on the host: a failure is noted
\* and the next group is installed all the same.
InstallPackages(k, m) ==
  LET op == installs[k][m]
      next == [op EXCEPT !.left = Tail(@), !.tries = 1] IN
  /\ op.at = "packages"
  /\ UNCHANGED <<windows, automatic, wsl, distribution>>
  /\ IF op.left = <<>> THEN Continue(k, m, [op EXCEPT !.at = "after"]) /\ UNCHANGED packages
     ELSE \/ packages' = packages \cup {Head(op.left)} /\ Continue(k, m, next)
          \/ packages' = packages /\ Continue(k, m, [next EXCEPT !.failed = TRUE])
          \/ packages' = packages /\ op.tries < MaxTries /\ Continue(k, m, [op EXCEPT !.tries = @ + 1])

\* The report after the installation.
Report(k, m) ==
  /\ installs[k][m].at = "after"
  /\ UNCHANGED world
  /\ \/ Settle(k, m, TRUE, FALSE)
     \/ Settle(k, m, FALSE, CompleteReport /\ ~installs[k][m].failed)

OperationStep(k, m) == Inspect(k, m) \/ Import(k, m) \/ InstallPackages(k, m) \/ Report(k, m)

InstallNext ==
  \/ Repair
  \/ \E c \in InstallStarts : PrepareGuest(c)
  \/ \E k \in Profiles, m \in Modes : OperationStep(k, m)

InstallSpec == InstallInit /\ [][InstallNext]_installVars

-----------------------------------------------------------------------------
\* Only a repair tries again what has been tried ("The explicit Repair action
\* invalidates this entry and is the retry boundary", index.ts): sandboxes that
\* start at the same time and a repair share one operation, unless the
\* manifest could not be read; and where packages are installed automatically
\* the report of a repair is not replaced by one of an operation begun before.
RepairKept ==
  \A k \in Profiles :
    /\ begun[k] <= 1 + repairs[k] + thrown[k] + (IF automatic THEN 0 ELSE repairs[k])
    /\ automatic /\ cache[k].number # 0 => cache[k].number >= repaired[k]

\* An operation or a repair goes on.
InstallsUnderWay ==
  repair.at = "packages" \/ \E k \in Profiles, m \in Modes : installs[k][m].at # "none"

-----------------------------------------------------------------------------
(* The tools of the host: ensureInstalled at the start of the application  *)
(* and from the settings.                                                  *)
VARIABLES
  hostManifest, have,    \* the manifest; the commands the host has
  ensuring,          \* the operation: its definitions left, what was missing, what has failed
  handed, hadAtStart \* tools given to a manager; tools found at the beginning

hostVars == <<hostManifest, have, ensuring, handed, hadAtStart>>

\* probe: each group of commands has one that is there; `manual` has no group
\* that can have one.
Probe(t) == \A group \in hostManifest[t].needs : group \cap have # {}

\* findAvailableInstaller: one whose manager is there.
Installers(t) ==
  {i \in DOMAIN hostManifest[t].managers : hostManifest[t].managers[i] \in have}

\* inspect.
MissingOf(tools) == {t \in tools : ~Probe(t) /\ Installers(t) # {}}
ManualOf(tools) == {t \in tools : ~Probe(t) /\ Installers(t) = {}}
AvailableFor(tools, failed) == MissingOf(tools) \cup ManualOf(tools) \cup failed = {}

NotEnsuring == [at |-> "no", of |-> {}, left |-> {}, missing |-> {}, failed |-> {}, did |-> FALSE,
                tries |-> 1, restart |-> FALSE]

HostTypeOK ==
  /\ hostManifest \in HostManifests /\ have \subseteq HostCommands
  /\ ensuring \in [at : {"no", "install", "done"}, of : SUBSET HostTools, left : SUBSET HostTools,
                   missing : SUBSET HostTools, failed : SUBSET HostTools, did : BOOLEAN,
                   tries : 1..MaxTries, restart : BOOLEAN]
  /\ handed \subseteq HostTools /\ hadAtStart \subseteq HostTools

HostInit ==
  /\ hostManifest \in HostManifests /\ have \in SUBSET HostCommands
  /\ ensuring = NotEnsuring /\ handed = {} /\ hadAtStart = {}

\* ensureInstalled: automatically only what may be installed by itself; what
\* is only inspected, or complete, is done at once.
EnsureInstalled(byItself) ==
  LET of == {t \in HostTools : byItself => hostManifest[t].automatic} IN
  /\ ensuring.at = "no"
  /\ hadAtStart' = {t \in of : Probe(t)}
  /\ ensuring' = [NotEnsuring EXCEPT !.at = IF ~byItself \/ MissingOf(of) = {} THEN "done" ELSE "install",
                                     !.of = of, !.left = of, !.missing = MissingOf(of)]
  /\ UNCHANGED <<hostManifest, have, handed>>

\* Faulty variant of GiveUp: the first tool that fails ends the loop.
GiveUpAll(t) == [ensuring EXCEPT !.left = {}, !.failed = @ \cup {t}, !.tries = 1]

\* A tool that fails is noted, and the next one is installed.
GiveUp(t) == [ensuring EXCEPT !.left = @ \ {t}, !.failed = @ \cup {t}, !.tries = 1]

\* withDependencyRetry and installWithPackageManager: what passes is tried
\* again, and may have done its work all the same; what does not, is not.
InstallTool(t) ==
  LET needed == UNION hostManifest[t].needs IN
  /\ ensuring.at = "install" /\ t \in ensuring.left
  /\ IF t \in hadAtStart \/ Installers(t) = {}
     THEN ensuring' = [ensuring EXCEPT !.left = @ \ {t}] /\ UNCHANGED <<have, handed>>
     ELSE /\ handed' = handed \cup {t}
          /\ \/ have' = have \cup needed
                /\ ensuring' = [ensuring EXCEPT !.left = @ \ {t}, !.did = TRUE, !.tries = 1]
             \/ ensuring.tries < MaxTries /\ have' \in {have, have \cup needed}
                /\ ensuring' = [ensuring EXCEPT !.tries = @ + 1]
             \/ UNCHANGED have /\ ensuring' = GiveUp(t)
  /\ UNCHANGED <<hostManifest, hadAtStart>>

\* The report after the installation; the application restarts for it.
HostReport ==
  /\ ensuring.at = "install" /\ ensuring.left = {}
  /\ ensuring' = [ensuring EXCEPT !.at = "done",
       !.restart = ensuring.did /\ Cardinality(MissingOf(ensuring.of)) < Cardinality(ensuring.missing)]
  /\ UNCHANGED <<hostManifest, have, handed, hadAtStart>>

HostNext ==
  \/ HostReport
  \/ \E byItself \in BOOLEAN : EnsureInstalled(byItself)
  \/ \E t \in HostTools : InstallTool(t)

HostSpec == HostInit /\ [][HostNext]_hostVars

\* No manager is given a tool the host had or one that may not be installed by
\* itself; every missing one is tried whatever becomes of the others, and is
\* found or reported afterwards; a restart is asked for only for a tool found.
HostToolsTried ==
  /\ handed \subseteq ensuring.of \ hadAtStart
  /\ ensuring.at = "done" /\ handed # {} =>
       /\ ensuring.missing \subseteq handed
       /\ ensuring.restart => \E t \in ensuring.missing : Probe(t)
       /\ AvailableFor(ensuring.of, ensuring.failed) => \A t \in ensuring.of : Probe(t)
=============================================================================
