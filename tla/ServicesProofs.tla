--------------------------- MODULE ServicesProofs ---------------------------
(*****************************************************************************)
(* What is used was verified: proofs about updates, the guest image, the     *)
(* installers of a release, the model of transcriptions, the tools of the    *)
(* host, and the installations of a guest; and what the services keep side   *)
(* by side, from these theorems and those of CallsProofs, KeepingProofs and  *)
(* ShownProofs.                                                              *)
(*****************************************************************************)
EXTENDS MCServices, CallsProofs, KeepingProofs, ShownProofs

-----------------------------------------------------------------------------
(* Updates *)

\* What the published state and the file are made of, and that what is offered is verified.
ReadyInv ==
  /\ snapshot \in [phase : Phases, asset : Assets \cup {NoAsset}]
  /\ download \in [at : {"none", "preparing", "streaming", "waiting"}, asset : Assets \cup {NoAsset},
                   attempt : Nat, aborted : BOOLEAN]
  /\ downloaded \in [asset : Assets \cup {NoAsset}, holds : {"none", "good", "bad"}]
  /\ ReadyIsVerified

\* Each step of a check, a download and an installation keeps it.
LEMMA UpdateNextKeeps == UpdateAssumption /\ ReadyInv /\ [UpdateNext]_updateVars => ReadyInv'
<1> SUFFICES ASSUME UpdateAssumption, ReadyInv, [UpdateNext]_updateVars PROVE ReadyInv'
  OBVIOUS
<1> DEFINE Snapshots == [phase : Phases, asset : Assets \cup {NoAsset}]
           Downloads == [at : {"none", "preparing", "streaming", "waiting"}, asset : Assets \cup {NoAsset},
                         attempt : Nat, aborted : BOOLEAN]
           AssetFiles == [asset : Assets \cup {NoAsset}, holds : {"none", "good", "bad"}]
<1>t. snapshot \in Snapshots /\ download \in Downloads /\ downloaded \in AssetFiles
  BY DEF ReadyInv
<1>i. Idle \in Downloads /\ Idle.at = "none"
  BY UpdateAssumption DEF Idle
<1>p. ASSUME NEW phase \in Phases, NEW asset \in Assets \cup {NoAsset}, Publish(phase, asset)
      PROVE  snapshot' \in Snapshots /\ snapshot'.phase = phase /\ snapshot'.asset = asset
  BY <1>p DEF Publish
<1>q. ASSUME NEW phase \in Phases \ {"ready"}, NEW asset \in Assets \cup {NoAsset}, Publish(phase, asset),
             download' \in Downloads, downloaded' \in AssetFiles
      PROVE  ReadyInv'
  <2>1. snapshot' \in Snapshots /\ snapshot'.phase # "ready"
    BY <1>q, <1>p
  <2> QED BY <1>q, <2>1 DEF ReadyInv, ReadyIsVerified
<1>a. snapshot.asset \in Assets \cup {NoAsset} /\ download.asset \in Assets \cup {NoAsset} /\ download.attempt \in Nat
  BY <1>t
<1>f. ASSUME Failed PROVE ReadyInv'
  BY <1>f, <1>q, <1>a, <1>i, <1>t DEF Failed, Phases
<1>1. CASE UNCHANGED updateVars
  BY <1>1 DEF updateVars, ReadyInv, ReadyIsVerified
<1>2. CASE Check
  BY <1>2, <1>q, <1>t DEF Check, Phases
<1>3. CASE CheckEnds
  <2>1. PICK phase \in Phases \ {"ready"}, asset \in Assets \cup {NoAsset} : Publish(phase, asset)
    BY <1>3 DEF CheckEnds, Phases
  <2> QED BY <1>3, <2>1, <1>q, <1>t DEF CheckEnds
<1>4. CASE Download
  <2>1. download' = [Idle EXCEPT !.at = "preparing", !.asset = snapshot.asset]
    BY <1>4 DEF Download
  <2>2. download' \in Downloads
    BY <2>1, <1>i, <1>a
  <2> QED BY <1>4, <2>2 DEF Download, ReadyInv, ReadyIsVerified
<1>5. CASE Prepared
  <2>1. CASE /\ download' = [download EXCEPT !.at = "streaming", !.attempt = 1]
             /\ downloaded' = [downloaded EXCEPT !.holds = "none"] /\ Publish("downloading", snapshot.asset)
    <3>1. download' \in Downloads /\ downloaded' \in AssetFiles
      BY <2>1, <1>t
    <3> QED BY <2>1, <3>1, <1>q, <1>a DEF Phases
  <2>2. CASE download' = Idle /\ UNCHANGED <<downloaded, snapshot>>
    BY <2>2, <1>i DEF ReadyInv, ReadyIsVerified
  <2> QED BY <1>5, <2>1, <2>2 DEF Prepared
<1>6. CASE AttemptEnds
  <2>1. PICK received \in {"none", "good", "bad"} :
          \/ DownloadOnce(received) /\ Ready(received)
          \/ Failed
          \/ /\ download.at = "streaming" /\ download' = [download EXCEPT !.at = "waiting"]
             /\ UNCHANGED <<downloaded, snapshot>>
    BY <1>6 DEF AttemptEnds
  <2>2. CASE DownloadOnce(received) /\ Ready(received)
    <3>1. downloaded' = [asset |-> download.asset, holds |-> "good"] /\ download' = Idle
          /\ Publish("ready", download.asset)
      BY <2>2 DEF DownloadOnce, Ready
    <3>2. downloaded' \in AssetFiles /\ downloaded'.holds = "good" /\ downloaded'.asset = download.asset
      BY <3>1, <1>a
    <3>3. snapshot' \in Snapshots /\ snapshot'.asset = download.asset
      BY <3>1, <1>p, <1>a DEF Phases
    <3> QED BY <3>1, <3>2, <3>3, <1>i DEF ReadyInv, ReadyIsVerified
  <2>3. CASE /\ download.at = "streaming" /\ download' = [download EXCEPT !.at = "waiting"]
             /\ UNCHANGED <<downloaded, snapshot>>
    <3>1. download' \in Downloads
      BY <2>3, <1>t
    <3> QED BY <2>3, <3>1 DEF ReadyInv, ReadyIsVerified
  <2> QED BY <2>1, <2>2, <2>3, <1>f
<1>7. CASE DelayEnds
  <2>1. CASE /\ download.at = "waiting" /\ download' = [download EXCEPT !.at = "streaming", !.attempt = @ + 1]
             /\ UNCHANGED <<downloaded, snapshot>>
    <3>1. download.attempt + 1 \in Nat
      BY <1>a
    <3>2. download' \in Downloads
      BY <2>1, <3>1, <1>t
    <3> QED BY <2>1, <3>2 DEF ReadyInv, ReadyIsVerified
  <2> QED BY <1>7, <2>1, <1>f DEF DelayEnds
<1>8. CASE CancelDownload
  <2>1. download' \in Downloads
    BY <1>8, <1>t DEF CancelDownload
  <2> QED BY <1>8, <2>1 DEF CancelDownload, ReadyInv, ReadyIsVerified
<1>9. CASE Install
  BY <1>9 DEF Install, ReadyInv, ReadyIsVerified
<1>10. CASE Open
  <2>1. PICK phase \in {"installing", "error"} : Publish(phase, snapshot.asset)
    BY <1>10 DEF Open
  <2> QED BY <1>10, <2>1, <1>q, <1>a, <1>t DEF Open, Phases
<1> QED BY <1>1, <1>2, <1>3, <1>4, <1>5, <1>6, <1>7, <1>8, <1>9, <1>10 DEF UpdateNext

\* The specification keeps it.
LEMMA ReadyIsKept == UpdateSpec => []ReadyInv
<1>1. UpdateAssumption /\ UpdateInit => ReadyInv
  BY DEF UpdateAssumption, UpdateInit, ReadyInv, ReadyIsVerified, Idle, Phases
<1> QED BY <1>1, UpdateNextKeeps, UpdateAssumption, PTL DEF UpdateSpec

\* An update that is offered for installation is on the disk, whole, verified and the one shown.
THEOREM OfferedIsVerified == UpdateSpec => []ReadyIsVerified
<1>1. ReadyInv => ReadyIsVerified
  BY DEF ReadyInv
<1> QED BY <1>1, ReadyIsKept, PTL

-----------------------------------------------------------------------------
(* The installers of a release *)

\* A list that is there is that of the whole output, which one run made; the run that makes one
\* has removed the earlier output and list.
ListInv ==
  /\ installer \in [number : Nat, at : {"over"} \cup {Stages[i] : i \in DOMAIN Stages},
                    arch : {"x64", "arm64"}, skipInstall : BOOLEAN, wixOnPath : BOOLEAN]
  /\ outMade \subseteq [by : Nat, arch : {"x64", "arm64"}, kind : InstallerKinds]
  /\ ListedIsOfOneRun
  /\ installer.at \in {"bundle", "make", "list"} => releaseList = Nothing
  /\ installer.at = "bundle" => outMade = {}
  /\ installer.at \in {"make", "list"} =>
       \A a \in outMade : a.by = installer.number /\ a.arch = installer.arch
  /\ installer.at = "list" => InstallerKinds \subseteq {a.kind : a \in outMade}

\* The stage npm goes to is the one that follows, and only the bundles lead to the making.
LEMMA StageAfter ==
  ASSUME NEW i \in {"validate", "stage", "image", "bundle"}
  PROVE  LET s == CHOOSE s \in {"stage", "image", "clear", "make"} :
                    \E k \in DOMAIN Stages : Stages[k] = i /\ Stages[k + 1] = s
         IN  s \in {"stage", "image", "clear", "make"} /\ (s = "make" => i = "bundle")
<1> DEFINE Follows(s) == \E k \in DOMAIN Stages : Stages[k] = i /\ Stages[k + 1] = s
<1>1. DOMAIN Stages = 1..13
  BY DEF Stages
<1>2. /\ Stages[7] = "validate" /\ Stages[8] = "stage" /\ Stages[9] = "image" /\ Stages[10] = "clear"
      /\ Stages[11] = "bundle" /\ Stages[12] = "make"
  BY DEF Stages
<1>3. \E s \in {"stage", "image", "clear", "make"} : Follows(s)
  BY <1>1, <1>2
<1>4. ASSUME Follows("make") PROVE i = "bundle"
  <2>1. PICK k \in DOMAIN Stages : Stages[k] = i /\ Stages[k + 1] = "make"
    BY <1>4
  <2>2. k = 11
    BY <2>1, <1>1 DEF Stages
  <2> QED BY <2>1, <2>2, <1>2
<1> HIDE DEF Follows
<1>5. LET s == CHOOSE s \in {"stage", "image", "clear", "make"} : Follows(s)
      IN  s \in {"stage", "image", "clear", "make"} /\ Follows(s)
  BY <1>3
<1> QED BY <1>4, <1>5 DEF Follows

\* The stages a run may be in are these.
LEMMA StageNames ==
  {Stages[i] : i \in DOMAIN Stages} =
    {"modules", "forge", "electron", "cli", "wix", "extract", "validate", "stage", "image",
     "clear", "bundle", "make", "list"}
<1>1. DOMAIN Stages = 1..13
  BY DEF Stages
<1> QED BY <1>1 DEF Stages

\* Each step of the script keeps it, a kill included.
LEMMA InstallerNextKeeps == ReleaseAssumption /\ ListInv /\ [InstallerNext]_installerVars => ListInv'
<1> SUFFICES ASSUME ReleaseAssumption, ListInv, [InstallerNext]_installerVars PROVE ListInv'
  OBVIOUS
<1> DEFINE InstallerPlaces == {"over", "modules", "forge", "electron", "cli", "wix", "extract", "validate", "stage",
                      "image", "clear", "bundle", "make", "list"}
           InstallerRuns == [number : Nat, at : InstallerPlaces, arch : {"x64", "arm64"}, skipInstall : BOOLEAN, wixOnPath : BOOLEAN]
<1>t. installer \in InstallerRuns
  BY StageNames DEF ListInv
<1>r. {"over"} \cup {Stages[i] : i \in DOMAIN Stages} = InstallerPlaces
  BY StageNames
<1>s. ASSUME NEW place \in InstallerPlaces, ToStage(place)
      PROVE  /\ installer' \in InstallerRuns /\ installer'.at = place
             /\ installer'.number = installer.number /\ installer'.arch = installer.arch
  BY <1>s, <1>t DEF ToStage
<1>o. ASSUME NEW place \in InstallerPlaces \ {"bundle", "make", "list"}, ToStage(place), UNCHANGED <<outMade, releaseList>>
      PROVE  ListInv'
  <2>1. installer' \in InstallerRuns /\ installer'.at = place
    BY <1>o, <1>s
  <2> HIDE DEF InstallerPlaces, InstallerRuns
  <2>2. ListedIsOfOneRun'
    BY <1>o DEF ListInv, ListedIsOfOneRun
  <2>3. place \notin {"bundle", "make", "list"}
    BY <1>o
  <2>4. installer' \in [number : Nat, at : {"over"} \cup {Stages[i] : i \in DOMAIN Stages},
                    arch : {"x64", "arm64"}, skipInstall : BOOLEAN, wixOnPath : BOOLEAN]
    BY <2>1, <1>r DEF InstallerRuns
  <2> QED BY <1>o, <2>1, <2>2, <2>3, <2>4 DEF ListInv
<1>v. ASSUME InstallerOver, UNCHANGED <<outMade, releaseList>> PROVE ListInv'
  BY <1>v, <1>o DEF InstallerOver, ToStage
<1>1. CASE UNCHANGED installerVars
  BY <1>1 DEF installerVars, ListInv, ListedIsOfOneRun
<1>2. CASE StartInstaller
  <2>1. PICK arch \in {"x64", "arm64"}, skip \in BOOLEAN :
         installer' = [installer EXCEPT !.number = @ + 1, !.at = "modules", !.arch = arch, !.skipInstall = skip]
    BY <1>2 DEF StartInstaller
  <2>4. installer.number + 1 \in Nat
    BY <1>t
  <2>5. installer' = [installer EXCEPT !.number = installer.number + 1, !.at = "modules", !.arch = arch,
                                       !.skipInstall = skip]
    BY <2>1
  <2>2. installer' \in InstallerRuns /\ installer'.at = "modules"
    BY <2>4, <2>5, <1>t
  <2>3. UNCHANGED <<outMade, releaseList>> /\ ListedIsOfOneRun'
    BY <1>2 DEF StartInstaller, ListInv, ListedIsOfOneRun
  <2> QED BY <2>2, <2>3, <1>r DEF ListInv
<1>3. CASE StopInstaller
  BY <1>3, <1>v DEF StopInstaller
<1>4. CASE InstallModules
  BY <1>4, <1>o, <1>v DEF InstallModules
<1>5. CASE HasForgeBinary
  BY <1>5, <1>o DEF HasForgeBinary
<1>6. CASE EnsureElectronRuntime
  BY <1>6, <1>o DEF EnsureElectronRuntime
<1>7. CASE PrepareWix
  <2>1. PICK place \in {"wix", "validate", "extract"} : ToStage(place)
    BY <1>7 DEF PrepareWix
  <2> QED BY <1>7, <2>1, <1>o DEF PrepareWix
<1>8. CASE ExtractWix
  <2>1. CASE ToStage("validate")
    BY <1>8, <2>1, <1>o DEF ExtractWix
  <2>2. CASE UNCHANGED installer
    BY <1>8, <2>2 DEF ExtractWix, ListInv, ListedIsOfOneRun
  <2> QED BY <1>8, <2>1, <2>2 DEF ExtractWix
<1>9. CASE RunNpm
  <2>1. PICK i \in {"validate", "stage", "image", "bundle"} :
          AtStage(i) /\ ToStage(CHOOSE s \in {"stage", "image", "clear", "make"} :
                     \E k \in DOMAIN Stages : Stages[k] = i /\ Stages[k + 1] = s)
    BY <1>9 DEF RunNpm
  <2>2. PICK s \in {"stage", "image", "clear", "make"} : ToStage(s) /\ (s = "make" => i = "bundle")
    BY <2>1, StageAfter
  <2>3. CASE s # "make"
    BY <1>9, <2>2, <2>3, <1>o DEF RunNpm
  <2>4. CASE s = "make"
    <3>1. installer.at = "bundle"
      BY <2>1, <2>2, <2>4 DEF AtStage
    <3>2. outMade = {} /\ releaseList = Nothing /\ UNCHANGED <<outMade, releaseList>>
      BY <1>9, <3>1 DEF RunNpm, ListInv
    <3>3. installer' \in InstallerRuns /\ installer'.at = "make"
      BY <2>2, <2>4, <1>s
    <3> QED BY <3>2, <3>3, <1>r DEF ListInv, ListedIsOfOneRun
  <2> QED BY <2>3, <2>4
<1>10. CASE ClearOutput
  <2>1. installer' \in InstallerRuns /\ installer'.at = "bundle"
    BY <1>10, <1>s DEF ClearOutput
  <2> QED BY <1>10, <2>1, <1>r DEF ClearOutput, ListInv, ListedIsOfOneRun
<1>11. CASE MakeArtifacts
  <2>0. installer.at = "make" /\ releaseList = Nothing /\ UNCHANGED releaseList
        /\ \A a \in outMade : a.by = installer.number /\ a.arch = installer.arch
    BY <1>11 DEF MakeArtifacts, AtStage, ListInv
  <2>1. ASSUME NEW k \in InstallerKinds, UNCHANGED installer,
               outMade' = outMade \cup {[by |-> installer.number, arch |-> installer.arch, kind |-> k]}
        PROVE  ListInv'
    <3> DEFINE new == [by |-> installer.number, arch |-> installer.arch, kind |-> k]
    <3>1. new \in [by : Nat, arch : {"x64", "arm64"}, kind : InstallerKinds]
          /\ new.by = installer.number /\ new.arch = installer.arch
      BY <1>t
    <3> HIDE DEF new
    <3>2. outMade' = outMade \cup {new}
      BY <2>1 DEF new
    <3> HIDE DEF InstallerPlaces, InstallerRuns
    <3> QED BY <2>0, <2>1, <3>1, <3>2 DEF ListInv, ListedIsOfOneRun
  <2>2. ASSUME \A k \in InstallerKinds : \E a \in outMade : a.by = installer.number /\ a.kind = k,
               ToStage("list"), UNCHANGED outMade
        PROVE  ListInv'
    <3>1. /\ installer' \in InstallerRuns /\ installer'.at = "list"
          /\ installer'.number = installer.number /\ installer'.arch = installer.arch
      BY <2>2, <1>s
    <3>2. InstallerKinds \subseteq {a.kind : a \in outMade}
      BY <2>2
    <3>3. \A a \in outMade' : a.by = installer'.number /\ a.arch = installer'.arch
      BY <2>0, <2>2, <3>1
    <3> QED BY <2>0, <2>2, <3>1, <3>2, <3>3, <1>r DEF ListInv, ListedIsOfOneRun
  <2> QED BY <1>11, <2>1, <2>2 DEF MakeArtifacts
<1>12. CASE PrintArtifacts
  <2>1. /\ installer.at = "list" /\ releaseList' = [by |-> installer.number, lists |-> outMade]
        /\ ToStage("over") /\ UNCHANGED outMade
    BY <1>12 DEF PrintArtifacts, AtStage, InstallerOver, ToStage
  <2>2. installer' \in InstallerRuns /\ installer'.at = "over"
    BY <2>1, <1>s
  <2>3. {a.kind : a \in outMade} = InstallerKinds
    <3>1. \A a \in outMade : a.kind \in InstallerKinds
      BY DEF ListInv
    <3>2. InstallerKinds \subseteq {a.kind : a \in outMade}
      BY <2>1 DEF ListInv
    <3> QED BY <3>1, <3>2
  <2>4. \A a \in outMade : a.by = installer.number /\ a.arch = installer.arch
    BY <2>1 DEF ListInv
  <2>5. releaseList'.lists = outMade' /\ releaseList'.by = installer.number
    BY <2>1
  <2>6. ListedIsOfOneRun'
    BY <2>1, <2>3, <2>4, <2>5 DEF ListedIsOfOneRun
  <2> HIDE DEF InstallerPlaces
  <2> QED BY <2>1, <2>2, <2>6, <1>r DEF ListInv
<1> QED BY <1>1, <1>2, <1>3, <1>4, <1>5, <1>6, <1>7, <1>8, <1>9, <1>10, <1>11, <1>12 DEF InstallerNext

\* The specification keeps it.
LEMMA ListsAreKept == InstallerSpec => []ListInv
<1>1. InstallerInit => ListInv
  <2> SUFFICES ASSUME InstallerInit PROVE ListInv
    OBVIOUS
  <2>1. installer \in [number : Nat, at : {"over"} \cup {Stages[i] : i \in DOMAIN Stages},
                    arch : {"x64", "arm64"}, skipInstall : BOOLEAN, wixOnPath : BOOLEAN] /\ installer.at = "over"
    BY DEF InstallerInit
  <2> QED BY <2>1 DEF InstallerInit, ListInv, ListedIsOfOneRun
<1> QED BY <1>1, InstallerNextKeeps, ReleaseAssumption, PTL DEF InstallerSpec

\* A release manifest lists the whole output of one run, for one architecture.
THEOREM ListsAreOfOneRun == InstallerSpec => []ListedIsOfOneRun
<1>1. ListInv => ListedIsOfOneRun
  BY DEF ListInv
<1> QED BY <1>1, ListsAreKept, PTL

\* An attempt that waits for its delay is not the last.
AttemptsWithin ==
  /\ download.attempt <= MaxAttempts
  /\ download.at = "waiting" => download.attempt < MaxAttempts
UpdateFlags == checking \in BOOLEAN /\ installing \in BOOLEAN
Made == made \in [checks : 0..MaxUpdates, downloads : 0..MaxUpdates]

\* Each step of a download keeps its attempts within the bound.
LEMMA AttemptsKeep == ReadyInv /\ AttemptsWithin /\ [UpdateNext]_updateVars => AttemptsWithin'
<1> SUFFICES ASSUME ReadyInv, AttemptsWithin, [UpdateNext]_updateVars PROVE AttemptsWithin'
  OBVIOUS
<1>t. /\ download \in [at : {"none", "preparing", "streaming", "waiting"}, asset : Assets \cup {NoAsset},
                       attempt : Nat, aborted : BOOLEAN]
      /\ MaxAttempts \in Nat \ {0} /\ download.attempt \in Nat
  BY UpdateAssumption DEF ReadyInv, UpdateAssumption
<1>i. ASSUME download' = Idle PROVE AttemptsWithin'
  BY <1>t, <1>i DEF Idle, AttemptsWithin
<1>s. ASSUME UNCHANGED download PROVE AttemptsWithin'
  BY <1>s DEF AttemptsWithin
<1>1. ASSUME Check \/ CheckEnds \/ Install \/ Open \/ UNCHANGED updateVars PROVE AttemptsWithin'
  BY <1>1, <1>s DEF Check, CheckEnds, Install, Open, updateVars
<1>2. CASE Download
  <2>1. download'.attempt = 0 /\ download'.at = "preparing"
    BY <1>2 DEF Download, Idle
  <2> QED BY <1>t, <2>1 DEF AttemptsWithin
<1>3. CASE Prepared
  <2>1. CASE download' = Idle
    BY <2>1, <1>i
  <2>2. CASE download' = [download EXCEPT !.at = "streaming", !.attempt = 1]
    <3>1. download'.attempt = 1 /\ download'.at = "streaming"
      BY <1>t, <2>2
    <3> QED BY <1>t, <3>1 DEF AttemptsWithin
  <2> QED BY <1>3, <2>1, <2>2 DEF Prepared
<1>4. CASE AttemptEnds
  <2>1. CASE download.attempt < MaxAttempts /\ download' = [download EXCEPT !.at = "waiting"]
    <3>1. download'.attempt = download.attempt
      BY <1>t, <2>1
    <3> QED BY <1>t, <2>1, <3>1 DEF AttemptsWithin
  <2> QED BY <1>4, <2>1, <1>i DEF AttemptEnds, Ready, Failed
<1>5. CASE DelayEnds
  <2>1. CASE download.at = "waiting" /\ download' = [download EXCEPT !.at = "streaming", !.attempt = @ + 1]
    <3>1. download'.attempt = download.attempt + 1 /\ download'.at = "streaming"
      BY <1>t, <2>1
    <3> QED BY <1>t, <2>1, <3>1 DEF AttemptsWithin
  <2> QED BY <1>5, <2>1, <1>i DEF DelayEnds, Failed
<1>6. CASE CancelDownload
  <2>1. download'.attempt = download.attempt /\ download'.at = download.at
    BY <1>t, <1>6 DEF CancelDownload
  <2> QED BY <2>1 DEF AttemptsWithin
<1> QED BY <1>1, <1>2, <1>3, <1>4, <1>5, <1>6 DEF UpdateNext

\* Each step counts up to the bound.
LEMMA MadeKeeps == Made /\ [UpdateNext]_updateVars => Made'
<1> SUFFICES ASSUME Made, [UpdateNext]_updateVars PROVE Made'
  OBVIOUS
<1>t. MaxUpdates \in Nat
  BY UpdateAssumption DEF UpdateAssumption
<1>1. ASSUME made.checks < MaxUpdates, made' = [made EXCEPT !.checks = @ + 1] PROVE Made'
  BY <1>t, <1>1 DEF Made
<1>2. ASSUME made.downloads < MaxUpdates, made' = [made EXCEPT !.downloads = @ + 1] PROVE Made'
  BY <1>t, <1>2 DEF Made
<1>3. ASSUME UNCHANGED made PROVE Made'
  BY <1>3 DEF Made
<1> QED BY <1>1, <1>2, <1>3 DEF UpdateNext, Check, CheckEnds, Download, Prepared, AttemptEnds, DelayEnds,
              CancelDownload, Install, Open, updateVars

\* The variables of the updates keep their types, and the attempts and counts their bounds.
THEOREM UpdateTypeCorrect == UpdateSpec => []UpdateTypeOK
<1>1. UpdateInit => AttemptsWithin /\ UpdateFlags /\ Made
  <2> SUFFICES ASSUME UpdateInit PROVE AttemptsWithin /\ UpdateFlags /\ Made
    OBVIOUS
  <2>1. MaxAttempts \in Nat /\ MaxUpdates \in Nat
    BY UpdateAssumption DEF UpdateAssumption
  <2>2. AttemptsWithin
    BY <2>1 DEF UpdateInit, AttemptsWithin, Idle
  <2>3. Made
    BY <2>1 DEF UpdateInit, Made
  <2>4. UpdateFlags
    BY DEF UpdateInit, UpdateFlags
  <2> QED BY <2>2, <2>3, <2>4
<1>2. UpdateFlags /\ [UpdateNext]_updateVars => UpdateFlags'
  BY DEF UpdateFlags, UpdateNext, Check, CheckEnds, Download, Prepared, AttemptEnds, DelayEnds, CancelDownload,
         Install, Open, updateVars
<1>3. ReadyInv /\ AttemptsWithin =>
        download \in [at : {"none", "preparing", "streaming", "waiting"}, asset : Assets \cup {NoAsset},
                      attempt : 0..MaxAttempts, aborted : BOOLEAN]
  <2>1. ReadyInv /\ AttemptsWithin => download.attempt \in 0..MaxAttempts
    BY UpdateAssumption DEF UpdateAssumption, ReadyInv, AttemptsWithin
  <2> QED BY <2>1 DEF ReadyInv
<1>4. ReadyInv /\ AttemptsWithin /\ UpdateFlags /\ Made => UpdateTypeOK
  BY <1>3 DEF ReadyInv, UpdateFlags, Made, UpdateTypeOK
<1> QED BY <1>1, <1>2, <1>4, ReadyIsKept, AttemptsKeep, MadeKeeps, PTL DEF UpdateSpec

\* What the numbers of the runs and the tools of the installers are made of.
InstallerRest ==
  /\ installer.number <= MaxBuilds
  /\ \A a \in outMade : a.by <= MaxBuilds
ToolsThere == toolchain \in [modules : {"none", "part", "whole"}, electron : BOOLEAN, wix : SUBSET WixFiles]
Listings == releaseList \in {Nothing} \cup [by : BuildRuns, lists : SUBSET MadeFiles]

\* Each step of the script numbers no more runs than the bound.
LEMMA InstallerRestKeeps == ListInv /\ InstallerRest /\ [InstallerNext]_installerVars => InstallerRest'
<1> SUFFICES ASSUME ListInv, InstallerRest, [InstallerNext]_installerVars PROVE InstallerRest'
  OBVIOUS
<1>t. /\ installer \in [number : Nat, at : {"over"} \cup {Stages[i] : i \in DOMAIN Stages},
                        arch : {"x64", "arm64"}, skipInstall : BOOLEAN, wixOnPath : BOOLEAN]
      /\ MaxBuilds \in Nat
  BY ReleaseAssumption DEF ReleaseAssumption, ListInv
<1>1. CASE StartInstaller
  <2>1. installer'.number = installer.number + 1 /\ installer.number < MaxBuilds /\ outMade' = outMade
    BY <1>1, <1>t DEF StartInstaller
  <2> QED BY <1>t, <2>1 DEF InstallerRest
<1>2. ASSUME installer'.number = installer.number, outMade' = outMade PROVE InstallerRest'
  BY <1>2 DEF InstallerRest
<1>3. \A stage : ToStage(stage) => installer'.number = installer.number
  BY <1>t DEF ToStage
<1>4. InstallerOver => installer'.number = installer.number
  BY <1>t DEF InstallerOver
<1>5. ASSUME StopInstaller \/ InstallModules \/ HasForgeBinary \/ EnsureElectronRuntime \/ PrepareWix \/ ExtractWix
             \/ RunNpm \/ PrintArtifacts \/ UNCHANGED installerVars
      PROVE  InstallerRest'
  <2>1. outMade' = outMade
    BY <1>5 DEF StopInstaller, InstallModules, HasForgeBinary, EnsureElectronRuntime, PrepareWix, ExtractWix,
                RunNpm, PrintArtifacts, installerVars
  <2>2. installer'.number = installer.number
    BY <1>5, <1>3, <1>4 DEF StopInstaller, InstallModules, HasForgeBinary, EnsureElectronRuntime, PrepareWix,
                ExtractWix, RunNpm, PrintArtifacts, installerVars
  <2> QED BY <1>2, <2>1, <2>2
<1>6. CASE ClearOutput
  BY <1>3, <1>6 DEF ClearOutput, InstallerRest
<1>7. CASE MakeArtifacts
  <2>1. installer'.number = installer.number
    BY <1>3, <1>7 DEF MakeArtifacts
  <2>2. \A a \in outMade' : a \in outMade \/ a.by = installer.number
    BY <1>7 DEF MakeArtifacts
  <2> QED BY <2>1, <2>2 DEF InstallerRest
<1> QED BY <1>1, <1>5, <1>6, <1>7 DEF InstallerNext

\* What is made is made by a run, so what is listed is.
LEMMA MadeByRuns == ListInv /\ InstallerRest => outMade \subseteq MadeFiles /\ installer.number \in BuildRuns
<1> SUFFICES ASSUME ListInv, InstallerRest PROVE outMade \subseteq MadeFiles /\ installer.number \in BuildRuns
  OBVIOUS
<1>1. MaxBuilds \in Nat /\ installer.number \in Nat
  BY ReleaseAssumption DEF ReleaseAssumption, ListInv
<1>2. ASSUME NEW a \in outMade PROVE a.by \in BuildRuns
  <2>1. a.by \in Nat /\ a.by <= MaxBuilds
    BY DEF ListInv, InstallerRest
  <2> QED BY <1>1, <2>1 DEF BuildRuns
<1>3. outMade \subseteq MadeFiles
  BY <1>2 DEF ListInv, MadeFiles
<1> QED BY <1>1, <1>3 DEF InstallerRest, BuildRuns

\* The variables of the installers keep their types.
THEOREM InstallerTypeCorrect == InstallerSpec => []InstallerTypeOK
<1>1. InstallerInit => InstallerRest /\ ToolsThere /\ Listings
  <2> SUFFICES ASSUME InstallerInit PROVE InstallerRest /\ ToolsThere /\ Listings
    OBVIOUS
  <2>1. installer.number = 0 /\ outMade = {}
    BY DEF InstallerInit
  <2>2. InstallerRest
    BY <2>1, ReleaseAssumption DEF ReleaseAssumption, InstallerRest
  <2> QED BY <2>2 DEF InstallerInit, ToolsThere, Listings
<1>2. ToolsThere /\ [InstallerNext]_installerVars => ToolsThere'
  <2> SUFFICES ASSUME ToolsThere, [InstallerNext]_installerVars PROVE ToolsThere'
    OBVIOUS
  <2>1. ASSUME UNCHANGED toolchain PROVE ToolsThere'
    BY <2>1 DEF ToolsThere
  <2>2. CASE InstallModules
    BY <2>2 DEF InstallModules, ToolsThere
  <2>3. CASE EnsureElectronRuntime
    BY <2>3 DEF EnsureElectronRuntime, ToolsThere
  <2>4. CASE ExtractWix
    BY <2>4 DEF ExtractWix, ToolsThere
  <2> QED BY <2>1, <2>2, <2>3, <2>4 DEF InstallerNext, StartInstaller, StopInstaller, HasForgeBinary, PrepareWix,
                RunNpm, ClearOutput, MakeArtifacts, PrintArtifacts, installerVars
<1>3. ListInv /\ InstallerRest /\ Listings /\ [InstallerNext]_installerVars => Listings'
  <2> SUFFICES ASSUME ListInv, InstallerRest, Listings, [InstallerNext]_installerVars PROVE Listings'
    OBVIOUS
  <2>1. ASSUME UNCHANGED releaseList PROVE Listings'
    BY <2>1 DEF Listings
  <2>2. CASE PrintArtifacts
    BY <2>2, MadeByRuns DEF PrintArtifacts, Listings
  <2>3. CASE ClearOutput
    BY <2>3 DEF ClearOutput, Listings
  <2> QED BY <2>1, <2>2, <2>3 DEF InstallerNext, StartInstaller, StopInstaller, InstallModules, HasForgeBinary,
                EnsureElectronRuntime, PrepareWix, ExtractWix, RunNpm, MakeArtifacts, installerVars
<1>4. ListInv /\ InstallerRest /\ ToolsThere /\ Listings => InstallerTypeOK
  BY MadeByRuns DEF ListInv, ToolsThere, Listings, InstallerTypeOK
<1> QED BY <1>1, <1>2, <1>3, <1>4, ListsAreKept, InstallerRestKeeps, PTL DEF InstallerSpec

-----------------------------------------------------------------------------
(* What an installer packages *)

ImageFiles == [by : BuildRuns, packages : Manifests, whole : BOOLEAN]

\* A whole image of the packages given.
WholeOf(file, given) == file \in ImageFiles /\ file.whole = TRUE /\ file.packages = given

ImageTypes ==
  /\ manifest \in Manifests /\ crossed \in BOOLEAN
  /\ build \in [number : BuildRuns, at : BuildPlaces, container : BOOLEAN, force : BOOLEAN,
                packages : Manifests, hash : Manifests]
  /\ speech \in [executable : {"none", "partial", "whole"}, manifest : BOOLEAN,
                 run : {"none", "copy", "manifest"}]

\* Until the manifest is changed between the two reads, the packages of a build are those of its
\* checksum. What is exported is whole before it takes the name of the output, and metadata name
\* a whole image of their manifest. A manifest of the runtime is written last.
ImageInv ==
  /\ ImageTypes
  /\ ~crossed => /\ build.at = "hash" => build.packages = manifest
                 /\ build.at \notin {"none", "hash"} => build.packages = build.hash
                 /\ metadata # Nothing => WholeOf(metadata.image, metadata.manifest)
                 /\ build.at = "prepared" => WholeOf(image, build.hash)
  /\ build.at = "rename" => build.container
  /\ build.at \in {"remove", "rename"} /\ build.container => WholeOf(partImage, build.packages)
  /\ build.at = "checksum" => WholeOf(image, build.packages)
  /\ speech.manifest => speech.executable = "whole" /\ speech.run = "none"
  /\ speech.run = "manifest" => speech.executable = "whole"

\* A build moves on, or ends, and its files stay.
LEMMA PlaceKeeps ==
  ASSUME ImageInv, NEW place \in BuildPlaces \ {"hash", "check", "remove", "rename", "checksum", "prepared"},
         build' \in {[build EXCEPT !.at = place],
                     [build EXCEPT !.at = "none", !.force = FALSE, !.packages = manifest, !.hash = manifest]},
         build.at \notin {"none", "hash"}, UNCHANGED <<metadata, crossed, manifest, speech>>
  PROVE  ImageInv'
<1>t. ImageTypes
  BY DEF ImageInv
<1>1. CASE build' = [build EXCEPT !.at = place]
  <2>1. /\ build' \in [number : BuildRuns, at : BuildPlaces, container : BOOLEAN, force : BOOLEAN,
                packages : Manifests, hash : Manifests]
        /\ build'.at = place /\ build'.packages = build.packages /\ build'.hash = build.hash
    BY <1>1, <1>t DEF ImageTypes
  <2> QED BY <2>1 DEF ImageInv, ImageTypes
<1>2. CASE build' = [build EXCEPT !.at = "none", !.force = FALSE, !.packages = manifest, !.hash = manifest]
  <2>1. /\ build' \in [number : BuildRuns, at : BuildPlaces, container : BOOLEAN, force : BOOLEAN,
                packages : Manifests, hash : Manifests]
        /\ build'.at = "none"
    BY <1>2, <1>t DEF ImageTypes, BuildPlaces
  <2> QED BY <2>1 DEF ImageInv, ImageTypes
<1> QED BY <1>1, <1>2

\* Each step of a build keeps it.
LEMMA ImageStepKeeps == ReleaseAssumption /\ ImageInv /\ ImageStep => ImageInv'
<1> SUFFICES ASSUME ReleaseAssumption, ImageInv, ImageStep PROVE ImageInv'
  OBVIOUS
<1> DEFINE Builds == [number : BuildRuns, at : BuildPlaces, container : BOOLEAN, force : BOOLEAN,
                      packages : Manifests, hash : Manifests]
<1>t. ImageTypes /\ build \in Builds /\ manifest \in Manifests
  BY DEF ImageInv, ImageTypes
<1>m. ASSUME NEW place \in BuildPlaces, Move(place)
      PROVE  /\ build' \in Builds /\ build'.at = place /\ build'.packages = build.packages
             /\ build'.hash = build.hash /\ build'.container = build.container
  BY <1>m, <1>t DEF Move
<1>o. ASSUME BuildOver, build.at \notin {"none", "hash"}, UNCHANGED <<metadata, crossed, manifest, speech>>
      PROVE  ImageInv'
  <2>1. "none" \in BuildPlaces \ {"hash", "check", "remove", "rename", "checksum", "prepared"}
    BY DEF BuildPlaces
  <2> QED BY <1>o, <2>1, PlaceKeeps DEF BuildOver
<1>n. ASSUME NEW place \in {"source", "cleanup", "install", "export"}, Move(place),
             build.at \notin {"none", "hash"}, UNCHANGED <<metadata, crossed, manifest, speech>>
      PROVE  ImageInv'
  <2>1. place \in BuildPlaces \ {"hash", "check", "remove", "rename", "checksum", "prepared"}
    BY DEF BuildPlaces
  <2> QED BY <1>n, <2>1, PlaceKeeps DEF Move
<1>f. /\ File(TRUE) \in ImageFiles /\ WholeOf(File(TRUE), build.packages)
      /\ File(TRUE) # Nothing
  <2>1. File(TRUE) \in ImageFiles /\ WholeOf(File(TRUE), build.packages)
    BY <1>t DEF File, ImageFiles, WholeOf
  <2> QED BY <2>1 DEF ReleaseAssumption, ImageFiles, BuildRuns
<1>p. {"none", "hash", "check", "remove", "rename", "checksum", "prepared"} \subseteq BuildPlaces
  BY DEF BuildPlaces
<1>1. CASE ReadGuestDependencies
  <2>1. UNCHANGED <<image, partImage, metadata, crossed, manifest, speech>>
    BY <1>1 DEF ReadGuestDependencies, outputs, aside
  <2>2. ASSUME build.number < MaxBuilds, NEW force \in BOOLEAN,
               build' = [build EXCEPT !.number = @ + 1, !.at = "hash", !.force = force, !.packages = manifest]
        PROVE  ImageInv'
    <3>1. build.number + 1 \in BuildRuns
      BY <2>2, <1>t DEF ReleaseAssumption, BuildRuns
    <3>2. build' = [build EXCEPT !.number = build.number + 1, !.at = "hash", !.force = force, !.packages = manifest]
      BY <2>2
    <3>3. build' \in Builds /\ build'.at = "hash" /\ build'.packages = manifest
      BY <3>1, <3>2, <1>t, <1>p
    <3> QED BY <2>1, <3>3 DEF ImageInv, ImageTypes
  <2>3. ASSUME build.at = "hash", build' = [build EXCEPT !.at = "check", !.hash = manifest]
        PROVE  ImageInv'
    <3>1. /\ build' \in Builds /\ build'.at = "check" /\ build'.packages = build.packages
          /\ build'.hash = manifest
      BY <2>3, <1>t, <1>p
    <3> QED BY <2>1, <2>3, <3>1 DEF ImageInv, ImageTypes
  <2> QED BY <1>1, <2>2, <2>3 DEF ReadGuestDependencies
<1>2. CASE CheckImage
  <2>1. build.at = "check" /\ UNCHANGED <<image, partImage, metadata, crossed, manifest, speech>>
    BY <1>2 DEF CheckImage, outputs, aside
  <2>2. CASE Move("source")
    BY <1>n, <2>1, <2>2
  <2>3. CASE ReusableImage /\ Move("prepared")
    <3>1. /\ build' \in Builds /\ build'.at = "prepared" /\ build'.packages = build.packages
          /\ build'.hash = build.hash
      BY <1>m, <1>p, <2>3
    <3>2. ~crossed => WholeOf(image, build.hash)
      BY <2>3 DEF ReusableImage, ImageInv
    <3> QED BY <2>1, <3>1, <3>2 DEF ImageInv, ImageTypes
  <2> QED BY <1>2, <2>2, <2>3 DEF CheckImage
<1>3. CASE DownloadAndVerify
  BY <1>3, <1>n, <1>o DEF DownloadAndVerify, outputs, aside
<1>4. CASE CleanupAbandonedBuildDistributions
  BY <1>4, <1>n DEF CleanupAbandonedBuildDistributions, outputs, aside
<1>5. CASE InstallGuest
  <2>1. build.at = "install" /\ UNCHANGED <<image, partImage, metadata, crossed, manifest, speech>>
    BY <1>5 DEF InstallGuest, outputs, aside
  <2>2. CASE build.container /\ Move("export")
    BY <1>n, <2>1, <2>2
  <2>3. CASE ~build.container /\ Move("remove")
    <3>1. /\ build' \in Builds /\ build'.at = "remove" /\ build'.packages = build.packages
          /\ build'.hash = build.hash /\ ~build'.container
      BY <1>m, <1>p, <2>3
    <3> QED BY <2>1, <3>1 DEF ImageInv, ImageTypes
  <2> QED BY <1>5, <1>o, <2>1, <2>2, <2>3 DEF InstallGuest
<1>6. CASE ExportImage
  <2>1. UNCHANGED <<metadata, crossed, manifest, speech>>
    BY <1>6 DEF ExportImage, aside
  <2>2. CASE /\ build.at = "remove" /\ Move(IF build.container THEN "rename" ELSE "export")
             /\ image' = Nothing /\ UNCHANGED partImage
    <3>1. CASE ~build.container
      BY <1>n, <2>1, <2>2, <3>1
    <3>2. CASE build.container
      <4>1. /\ build' \in Builds /\ build'.at = "rename" /\ build'.packages = build.packages
            /\ build'.hash = build.hash /\ build'.container
        BY <1>m, <1>p, <2>2, <3>2
      <4>2. WholeOf(partImage', build'.packages)
        BY <2>2, <3>2, <4>1 DEF ImageInv
      <4> QED BY <2>1, <2>2, <4>1, <4>2 DEF ImageInv, ImageTypes
    <3> QED BY <3>1, <3>2
  <2>3. CASE /\ build.at = "export" /\ UNCHANGED build
    BY <2>1, <2>3 DEF ImageInv, ImageTypes
  <2>4. CASE /\ build.at = "export" /\ build.container
             /\ partImage' = File(TRUE) /\ Move("remove")
    <3>1. /\ build' \in Builds /\ build'.at = "remove" /\ build'.packages = build.packages
          /\ build'.hash = build.hash
      BY <1>m, <1>p, <2>4
    <3>2. WholeOf(partImage', build'.packages)
      BY <2>4, <3>1, <1>f
    <3> QED BY <2>1, <2>4, <3>1, <3>2 DEF ImageInv, ImageTypes
  <2>5. CASE /\ build.at = "export" /\ image' = File(TRUE) /\ Move("checksum")
    <3>1. /\ build' \in Builds /\ build'.at = "checksum" /\ build'.packages = build.packages
          /\ build'.hash = build.hash
      BY <1>m, <1>p, <2>5
    <3>2. WholeOf(image', build'.packages)
      BY <2>5, <3>1, <1>f
    <3> QED BY <2>1, <2>5, <3>1, <3>2 DEF ImageInv, ImageTypes
  <2>6. CASE build.at = "rename" /\ Move("checksum") /\ image' = partImage
    <3>1. /\ build' \in Builds /\ build'.at = "checksum" /\ build'.packages = build.packages
          /\ build'.hash = build.hash
      BY <1>m, <1>p, <2>6
    <3>2. WholeOf(image', build'.packages)
      BY <2>6, <3>1 DEF ImageInv
    <3> QED BY <2>1, <2>6, <3>1, <3>2 DEF ImageInv, ImageTypes
  <2>7. CASE build.at \in {"export", "rename"} /\ BuildOver
    BY <1>o, <2>1, <2>7
  <2> QED BY <1>6, <2>2, <2>3, <2>4, <2>5, <2>6, <2>7 DEF ExportImage
<1>7. CASE WriteMetadata
  <2>1. build.at = "checksum" /\ UNCHANGED <<image, partImage, crossed, manifest, speech>>
    BY <1>7 DEF WriteMetadata, aside
  <2>2. CASE Move("prepared") /\ metadata' = [manifest |-> build.hash, image |-> image]
    <3>1. /\ build' \in Builds /\ build'.at = "prepared" /\ build'.packages = build.packages
          /\ build'.hash = build.hash
      BY <1>m, <1>p, <2>2
    <3>2. WholeOf(image, build.packages) /\ (~crossed => build.packages = build.hash)
      BY <2>1 DEF ImageInv
    <3>3. metadata'.manifest = build.hash /\ metadata'.image = image
      BY <2>2
    <3> QED BY <2>1, <3>1, <3>2, <3>3 DEF ImageInv, ImageTypes
  <2>3. CASE BuildOver /\ UNCHANGED metadata
    BY <1>o, <2>1, <2>3
  <2> QED BY <1>7, <2>2, <2>3 DEF WriteMetadata
<1>8. CASE MakeInstallers
  BY <1>8, <1>o DEF MakeInstallers, outputs, aside
<1>9. CASE KillBuild
  <2>1. BuildOver /\ UNCHANGED <<image, partImage, metadata, crossed, manifest, speech>>
    BY <1>9 DEF KillBuild, outputs, aside
  <2>2. build' \in Builds /\ build'.at = "none"
    BY <2>1, <1>t, <1>p DEF BuildOver
  <2> QED BY <2>1, <2>2 DEF ImageInv, ImageTypes
<1>10. CASE ChangeManifest
  <2>1. /\ manifest' \in Manifests /\ crossed' = (crossed \/ build.at = "hash")
        /\ UNCHANGED <<image, partImage, metadata, build, speech>>
    BY <1>10 DEF ChangeManifest, outputs
  <2>2. crossed' \in BOOLEAN
    BY <2>1
  <2>3. ~crossed' => ~crossed /\ build.at # "hash"
    BY <2>1
  <2> QED BY <2>1, <2>2, <2>3 DEF ImageInv, ImageTypes
<1> QED BY <1>1, <1>2, <1>3, <1>4, <1>5, <1>6, <1>7, <1>8, <1>9, <1>10 DEF ImageStep

\* So do the other scripts.
LEMMA ReleaseNextKeeps == ReleaseAssumption /\ ImageInv /\ [ReleaseNext]_releaseVars => ImageInv'
<1> SUFFICES ASSUME ReleaseAssumption, ImageInv, [ReleaseNext]_releaseVars PROVE ImageInv'
  OBVIOUS
<1>1. CASE UNCHANGED releaseVars
  BY <1>1 DEF releaseVars, ImageInv, ImageTypes
<1>2. CASE PrepareRuntime
  <2> DEFINE Runtimes == [executable : {"none", "partial", "whole"}, manifest : BOOLEAN,
                          run : {"none", "copy", "manifest"}]
  <2>1. UNCHANGED <<manifest, image, partImage, metadata, build, crossed>> /\ speech \in Runtimes
    BY <1>2 DEF PrepareRuntime, outputs, ImageInv, ImageTypes
  <2>2. ASSUME speech' \in Runtimes, speech'.manifest => speech'.executable = "whole" /\ speech'.run = "none",
               speech'.run = "manifest" => speech'.executable = "whole"
        PROVE  ImageInv'
    BY <2>1, <2>2 DEF ImageInv, ImageTypes
  <2>3. CASE speech' = [executable |-> "none", manifest |-> FALSE, run |-> "copy"]
    <3>1. speech' \in Runtimes /\ ~speech'.manifest /\ speech'.run = "copy"
      BY <2>3
    <3> QED BY <2>2, <3>1
  <2>4. ASSUME speech.run = "copy", NEW x \in {"partial", "whole"}, NEW r \in {"copy", "manifest"},
               speech' = [speech EXCEPT !.executable = x, !.run = r], r = "manifest" => x = "whole"
        PROVE  ImageInv'
    <3>1. speech' \in Runtimes /\ speech'.executable = x /\ speech'.run = r /\ speech'.manifest = speech.manifest
      BY <2>1, <2>4
    <3>2. ~speech.manifest
      BY <2>4 DEF ImageInv
    <3> QED BY <2>2, <2>4, <3>1, <3>2
  <2>5. CASE speech.run = "copy" /\ speech' = [speech EXCEPT !.executable = "partial"]
    <3>1. speech' = [speech EXCEPT !.executable = "partial", !.run = "copy"]
      BY <2>1, <2>5
    <3> QED BY <2>4, <2>5, <3>1
  <2>6. CASE speech.run = "copy" /\ speech' = [speech EXCEPT !.run = "none"]
    <3>1. speech' \in Runtimes /\ speech'.run = "none" /\ speech'.manifest = speech.manifest
      BY <2>1, <2>6
    <3>2. ~speech.manifest
      BY <2>6 DEF ImageInv
    <3> QED BY <2>2, <3>1, <3>2
  <2>7. ASSUME speech.run = "manifest", NEW written \in BOOLEAN,
               speech' = [speech EXCEPT !.manifest = written, !.run = "none"]
        PROVE  ImageInv'
    <3>1. speech' \in Runtimes /\ speech'.run = "none" /\ speech'.executable = speech.executable
      BY <2>1, <2>7
    <3>2. speech.executable = "whole"
      BY <2>7 DEF ImageInv
    <3> QED BY <2>2, <3>1, <3>2
  <2> QED BY <1>2, <2>3, <2>4, <2>5, <2>6, <2>7 DEF PrepareRuntime
<1>3. ASSUME NEW t \in Targets, DownloadArtifact(t) PROVE ImageInv'
  BY <1>3 DEF DownloadArtifact, outputs, ImageInv, ImageTypes
<1> QED BY <1>1, <1>2, <1>3, ImageStepKeeps DEF ReleaseNext

\* The specification keeps it.
LEMMA ImagesAreKept == ReleaseSpec => []ImageInv
<1>1. ReleaseInit => ImageInv
  <2> SUFFICES ASSUME ReleaseInit PROVE ImageInv
    OBVIOUS
  <2>1. PICK container \in BOOLEAN :
          build = [number |-> 0, at |-> "none", container |-> container, force |-> FALSE,
                   packages |-> manifest, hash |-> manifest]
    BY DEF ReleaseInit
  <2>2. 0 \in BuildRuns
    BY ReleaseAssumption DEF ReleaseAssumption, BuildRuns
  <2>3. /\ build \in [number : BuildRuns, at : BuildPlaces, container : BOOLEAN, force : BOOLEAN,
                      packages : Manifests, hash : Manifests]
        /\ build.at = "none"
    BY <2>1, <2>2 DEF ReleaseInit, BuildPlaces
  <2> QED BY <2>3 DEF ReleaseInit, ImageInv, ImageTypes
<1> QED BY <1>1, ReleaseNextKeeps, ReleaseAssumption, PTL DEF ReleaseSpec

\* What is packaged is whole and of the manifest that was asked for, however earlier builds ended.
THEOREM PackagesAreCurrent == ReleaseSpec => []PackagedIsCurrent
<1>1. ReleaseAssumption /\ ImageInv => PackagedIsCurrent
  BY DEF ReleaseAssumption, ImageInv, PackagedIsCurrent, WholeOf, ImageFiles, BuildRuns
<1> QED BY <1>1, ImagesAreKept, ReleaseAssumption, PTL

\* What is on the disk, and where the downloads are.
BuildOutputs ==
  /\ image \in Written /\ partImage \in Written
  /\ metadata \in {Nothing} \cup [manifest : Manifests, image : Written]
  /\ distributions \subseteq {"own", "earlier"}
Downloaded == released \in [Targets -> {"none", "archive", "extracted", "valid", "output", "refused"}]
Changed == changes \in 0..MaxChanges

\* Each step of a build writes such files.
LEMMA BuildOutputsKeep == ImageInv /\ BuildOutputs /\ [ReleaseNext]_releaseVars => BuildOutputs'
<1> SUFFICES ASSUME ImageInv, BuildOutputs, [ReleaseNext]_releaseVars PROVE BuildOutputs'
  OBVIOUS
<1> USE DEF BuildOutputs
<1>f. /\ File(TRUE) \in Written /\ File(FALSE) \in Written /\ Nothing \in Written
      /\ build.hash \in Manifests
  BY DEF ImageInv, ImageTypes, File, Written
<1>1. CASE UNCHANGED outputs /\ UNCHANGED distributions
  BY <1>1 DEF outputs
<1>2. ASSUME ReadGuestDependencies \/ CheckImage \/ DownloadAndVerify \/ CleanupAbandonedBuildDistributions
             \/ InstallGuest \/ MakeInstallers \/ KillBuild \/ ChangeManifest
      PROVE  BuildOutputs'
  <2>1. UNCHANGED outputs
    BY <1>2 DEF ReadGuestDependencies, CheckImage, DownloadAndVerify, CleanupAbandonedBuildDistributions,
                InstallGuest, MakeInstallers, KillBuild, ChangeManifest
  <2>2. distributions' \subseteq {"own", "earlier"}
    BY <1>2 DEF ReadGuestDependencies, CheckImage, DownloadAndVerify, CleanupAbandonedBuildDistributions,
                InstallGuest, MakeInstallers, KillBuild, ChangeManifest
  <2> QED BY <2>1, <2>2 DEF outputs
<1>3. CASE ExportImage
  <2>1. metadata' = metadata /\ distributions' \subseteq {"own", "earlier"}
    BY <1>3 DEF ExportImage
  <2>2. image' \in Written
    BY <1>3, <1>f DEF ExportImage
  <2>3. partImage' \in Written
    BY <1>3, <1>f DEF ExportImage
  <2> QED BY <2>1, <2>2, <2>3
<1>4. CASE WriteMetadata
  BY <1>4, <1>f DEF WriteMetadata
<1>5. ASSUME NEW t \in Targets, DownloadArtifact(t) PROVE BuildOutputs'
  BY <1>1, <1>5 DEF DownloadArtifact
<1> QED BY <1>1, <1>2, <1>3, <1>4, <1>5 DEF ReleaseNext, ImageStep, PrepareRuntime, releaseVars, outputs

\* The variables of the builds and of the downloads keep their types.
THEOREM ReleaseTypeCorrect == ReleaseSpec => []ReleaseTypeOK
<1>1. ReleaseInit => BuildOutputs /\ Downloaded /\ Changed
  <2> SUFFICES ASSUME ReleaseInit PROVE BuildOutputs /\ Downloaded /\ Changed
    OBVIOUS
  <2>1. Changed
    BY ReleaseAssumption DEF ReleaseAssumption, ReleaseInit, Changed
  <2> QED BY <2>1 DEF ReleaseInit, BuildOutputs, Downloaded, Written
<1>2. Downloaded /\ [ReleaseNext]_releaseVars => Downloaded'
  <2> SUFFICES ASSUME Downloaded, [ReleaseNext]_releaseVars PROVE Downloaded'
    OBVIOUS
  <2>1. ASSUME UNCHANGED released PROVE Downloaded'
    BY <2>1 DEF Downloaded
  <2>2. ASSUME NEW t \in Targets, DownloadArtifact(t) PROVE Downloaded'
    BY <2>2 DEF DownloadArtifact, Downloaded
  <2> QED BY <2>1, <2>2 DEF ReleaseNext, ImageStep, PrepareRuntime, releaseVars, aside, ReadGuestDependencies,
                CheckImage, DownloadAndVerify, CleanupAbandonedBuildDistributions, InstallGuest, ExportImage,
                WriteMetadata, MakeInstallers, KillBuild, ChangeManifest
<1>3. Changed /\ [ReleaseNext]_releaseVars => Changed'
  <2> SUFFICES ASSUME Changed, [ReleaseNext]_releaseVars PROVE Changed'
    OBVIOUS
  <2>1. ASSUME UNCHANGED changes PROVE Changed'
    BY <2>1 DEF Changed
  <2>2. CASE ChangeManifest
    BY <2>2, ReleaseAssumption DEF ReleaseAssumption, ChangeManifest, Changed
  <2> QED BY <2>1, <2>2 DEF ReleaseNext, ImageStep, PrepareRuntime, releaseVars, aside, ReadGuestDependencies,
                CheckImage, DownloadAndVerify, CleanupAbandonedBuildDistributions, InstallGuest, ExportImage,
                WriteMetadata, MakeInstallers, KillBuild, DownloadArtifact
<1>4. ImageInv /\ BuildOutputs /\ Downloaded /\ Changed => ReleaseTypeOK
  BY DEF ImageInv, ImageTypes, BuildOutputs, Downloaded, Changed, ReleaseTypeOK
<1> QED BY <1>1, <1>2, <1>3, <1>4, ImagesAreKept, BuildOutputsKeep, PTL DEF ReleaseSpec

-----------------------------------------------------------------------------
(* Transcriptions and the speech model *)

SpeechSpec == SpeechInit /\ [][SpeechNext]_speechVars

\* A process runs only on the verified file, and while a download goes on none runs: the file it
\* removes and replaces is used by nobody. What is renamed was received whole.
SpeechInv ==
  /\ said \in [Transcriptions -> {"new", "modelling", "running", "stopping", "over"}]
  /\ TranscribesVerified
  /\ ensured \in {"downloading", "removing", "renaming", "failing"} =>
       \A c \in Transcriptions : said[c] \notin {"running", "stopping"}
  /\ ensured \in {"removing", "renaming"} => temporary = "good"

\* Each step of a transcription and of the download keeps it.
LEMMA SpeechNextKeeps == SpeechInv /\ [SpeechNext]_speechVars => SpeechInv'
<1> SUFFICES ASSUME SpeechInv, [SpeechNext]_speechVars PROVE SpeechInv'
  OBVIOUS
<1>t. said \in [Transcriptions -> {"new", "modelling", "running", "stopping", "over"}]
  BY DEF SpeechInv
<1>s. ASSUME NEW ok \in {TRUE, FALSE}, EnsureSettles(ok), ok => speechModel' = "good",
             ~ok => \A c \in Transcriptions : said[c] \notin {"running", "stopping"}
      PROVE  SpeechInv'
  <2>1. CASE ok = TRUE
    <3>1. /\ ensured' = "no" /\ recordings' = recordings /\ speechModel' = "good"
          /\ said' = [c \in Transcriptions |-> IF said[c] # "modelling" THEN said[c] ELSE "running"]
      BY <1>s, <2>1 DEF EnsureSettles
    <3> QED BY <3>1, <1>t DEF SpeechInv, TranscribesVerified
  <2>2. CASE ok = FALSE
    <3>1. /\ ensured' = "no" /\ recordings' = recordings \ {c \in Transcriptions : said[c] = "modelling"}
          /\ said' = [c \in Transcriptions |-> IF said[c] # "modelling" THEN said[c] ELSE "over"]
      BY <1>s, <2>2 DEF EnsureSettles
    <3>2. \A c \in Transcriptions : said[c] \notin {"running", "stopping"}
      BY <1>s, <2>2
    <3> QED BY <3>1, <3>2, <1>t DEF SpeechInv, TranscribesVerified
  <2> QED BY <2>1, <2>2
<1>1. CASE UNCHANGED speechVars
  BY <1>1 DEF speechVars, SpeechInv, TranscribesVerified
<1>2. CASE EnsureStep
  <2>1. CASE ensured = "matching" /\ UNCHANGED <<speechModel, temporary>>
    <3>1. CASE speechModel = "good" /\ EnsureSettles(TRUE)
      BY <1>s, <2>1, <3>1
    <3>2. CASE speechModel # "good" /\ ensured' = "downloading" /\ UNCHANGED <<said, recordings>>
      BY <2>1, <3>2 DEF SpeechInv, TranscribesVerified
    <3> QED BY <1>2, <2>1, <3>1, <3>2 DEF EnsureStep
  <2>2. CASE ensured = "downloading"
    BY <1>2, <2>2 DEF EnsureStep, SpeechInv, TranscribesVerified
  <2>3. CASE ensured = "removing"
    BY <1>2, <2>3 DEF EnsureStep, SpeechInv, TranscribesVerified
  <2>4. CASE ensured = "renaming"
    <3>1. speechModel' = "good" /\ EnsureSettles(TRUE)
      BY <1>2, <2>4 DEF EnsureStep, SpeechInv
    <3> QED BY <1>s, <3>1
  <2>5. CASE ensured = "failing"
    <3>1. EnsureSettles(FALSE) /\ \A c \in Transcriptions : said[c] \notin {"running", "stopping"}
      BY <1>2, <2>5 DEF EnsureStep, SpeechInv
    <3> QED BY <1>s, <3>1
  <2> QED BY <1>2, <2>1, <2>2, <2>3, <2>4, <2>5 DEF EnsureStep
<1>3. CASE SpeechRestart
  BY <1>3 DEF SpeechRestart, SpeechInv, TranscribesVerified
<1>4. ASSUME NEW c \in Transcriptions, Transcribe(c) PROVE SpeechInv'
  BY <1>4 DEF Transcribe, EnsureModel, SpeechInv, TranscribesVerified
<1>5. ASSUME NEW c \in Transcriptions, WhisperStep(c) PROVE SpeechInv'
  <2>1. CASE /\ TranscribeEnds(c) /\ UNCHANGED <<speechModel, temporary, ensured>>
    BY <2>1 DEF TranscribeEnds, SpeechInv, TranscribesVerified
  <2>2. CASE /\ said[c] = "running" /\ said' = [said EXCEPT ![c] = "stopping"]
             /\ UNCHANGED <<recordings, speechModel, temporary, ensured>>
    BY <2>2 DEF SpeechInv, TranscribesVerified
  <2>3. CASE UNCHANGED <<said, recordings, speechModel, temporary, ensured>>
    BY <2>3 DEF SpeechInv, TranscribesVerified
  <2> QED BY <1>5, <2>1, <2>2, <2>3 DEF WhisperStep
<1> QED BY <1>1, <1>2, <1>3, <1>4, <1>5 DEF SpeechNext

\* A transcription runs on a verified model that no download takes away under it.
THEOREM TranscriptionsAreVerified == SpeechSpec => []TranscribesVerified
<1>1. SpeechInit => SpeechInv
  BY DEF SpeechInit, SpeechInv, TranscribesVerified
<1>2. SpeechInv => TranscribesVerified
  BY DEF SpeechInv
<1> QED BY <1>1, <1>2, SpeechNextKeeps, PTL DEF SpeechSpec

\* The variables of the transcriptions keep their types.
THEOREM SpeechTypeCorrect == SpeechSpec => []SpeechTypeOK
<1>a. MaxModelFaults \in Nat
  BY ComposerAssumption DEF ComposerAssumption
<1>1. SpeechInit => SpeechTypeOK
  BY <1>a DEF SpeechInit, SpeechTypeOK
<1>2. SpeechTypeOK /\ [SpeechNext]_speechVars => SpeechTypeOK'
  <2> SUFFICES ASSUME SpeechTypeOK, [SpeechNext]_speechVars PROVE SpeechTypeOK'
    OBVIOUS
  <2> USE DEF SpeechTypeOK
  <2>1. CASE EnsureStep
    BY <1>a, <2>1 DEF EnsureStep, EnsureSettles
  <2>2. CASE SpeechRestart
    BY <1>a, <2>2 DEF SpeechRestart
  <2>3. ASSUME NEW c \in Transcriptions, Transcribe(c) PROVE SpeechTypeOK'
    BY <2>3 DEF Transcribe, EnsureModel
  <2>4. ASSUME NEW c \in Transcriptions, WhisperStep(c) PROVE SpeechTypeOK'
    BY <2>4 DEF WhisperStep, TranscribeEnds
  <2>5. CASE UNCHANGED speechVars
    BY <2>5 DEF speechVars
  <2> QED BY <2>1, <2>2, <2>3, <2>4, <2>5 DEF SpeechNext
<1> QED BY <1>1, <1>2, PTL DEF SpeechSpec

-----------------------------------------------------------------------------
(* The tools of the host *)

Ensurings == [at : {"no", "install", "done"}, of : SUBSET HostTools, left : SUBSET HostTools,
              missing : SUBSET HostTools, failed : SUBSET HostTools, did : BOOLEAN,
              tries : Nat, restart : BOOLEAN]

\* What was missing is left, or was given to a manager, which is still there: the host only gains
\* commands. A restart is asked for at the end, for a tool that was missing.
ToolsInv ==
  /\ ensuring \in Ensurings
  /\ handed \subseteq ensuring.of \ hadAtStart
  /\ ensuring.at = "no" => handed = {}
  /\ ensuring.left \subseteq ensuring.of /\ ensuring.missing \subseteq ensuring.of
  /\ ensuring.missing \cap hadAtStart = {}
  /\ \A t \in ensuring.missing : Installers(t) # {}
  /\ ensuring.at # "no" => ensuring.missing \subseteq ensuring.left \cup handed
  /\ ensuring.at = "done" /\ handed # {} => ensuring.left = {}
  /\ ensuring.restart => ensuring.at = "done" /\ \E t \in ensuring.missing : Probe(t)

\* A host that has more finds and installs no less.
LEMMA MoreIsFound ==
  ASSUME NEW t \in HostTools, have \subseteq have', UNCHANGED hostManifest
  PROVE  (Probe(t) => Probe(t)') /\ (Installers(t) # {} => Installers(t)' # {})
  BY DEF Probe, Installers

\* Fewer are missing than were only if one of those is there.
LEMMA FewerIsFound ==
  ASSUME InstallAssumption, ToolsInv,
         Cardinality(MissingOf(ensuring.of)) < Cardinality(ensuring.missing)
  PROVE  \E t \in ensuring.missing : Probe(t)
<1> SUFFICES ASSUME \A t \in ensuring.missing : ~Probe(t) PROVE FALSE
  OBVIOUS
<1>1. ensuring.missing \subseteq MissingOf(ensuring.of)
  BY DEF MissingOf, ToolsInv
<1>2. MissingOf(ensuring.of) \subseteq HostTools /\ IsFiniteSet(HostTools)
  BY InstallAssumption DEF MissingOf, ToolsInv, Ensurings, InstallAssumption
<1>3. IsFiniteSet(MissingOf(ensuring.of))
  BY <1>2, FS_Subset
<1>4. IsFiniteSet(ensuring.missing) /\ Cardinality(ensuring.missing) <= Cardinality(MissingOf(ensuring.of))
  BY <1>1, <1>3, FS_Subset
<1>5. Cardinality(ensuring.missing) \in Nat /\ Cardinality(MissingOf(ensuring.of)) \in Nat
  BY <1>3, <1>4, FS_CardinalityType
<1> QED BY <1>4, <1>5

\* Each step of ensureInstalled keeps it.
LEMMA HostNextKeeps ==
  InstallAssumption /\ ToolsInv /\ [HostNext]_hostVars => ToolsInv'
<1> SUFFICES ASSUME InstallAssumption, ToolsInv, [HostNext]_hostVars
             PROVE  ToolsInv'
  OBVIOUS
<1>t. ensuring \in Ensurings
  BY DEF ToolsInv
<1>1. CASE UNCHANGED hostVars
  BY <1>1 DEF hostVars, ToolsInv, Probe, Installers
<1>2. CASE HostReport
  <2> DEFINE again == ensuring.did /\ Cardinality(MissingOf(ensuring.of)) < Cardinality(ensuring.missing)
  <2>1. /\ ensuring.at = "install" /\ ensuring.left = {} /\ UNCHANGED <<hostManifest, have, handed, hadAtStart>>
        /\ ensuring' = [ensuring EXCEPT !.at = "done", !.restart = again]
    BY <1>2 DEF HostReport
  <2>2. again \in BOOLEAN
    BY <1>t DEF Ensurings
  <2>3. again => \E t \in ensuring.missing : Probe(t)
    BY FewerIsFound
  <2> HIDE DEF again
  <2>4. /\ ensuring' \in Ensurings /\ ensuring'.at = "done" /\ ensuring'.restart = again
        /\ ensuring'.of = ensuring.of /\ ensuring'.left = ensuring.left /\ ensuring'.missing = ensuring.missing
    BY <2>1, <2>2, <1>t DEF Ensurings
  <2>5. \A t : Probe(t)' = Probe(t) /\ Installers(t)' = Installers(t)
    BY <2>1 DEF Probe, Installers
  <2> QED BY <2>1, <2>3, <2>4, <2>5 DEF ToolsInv
<1>3. ASSUME NEW byItself \in BOOLEAN, EnsureInstalled(byItself) PROVE ToolsInv'
  <2> DEFINE of == {t \in HostTools : byItself => hostManifest[t].automatic}
             place == IF ~byItself \/ MissingOf(of) = {} THEN "done" ELSE "install"
  <2>1. /\ ensuring.at = "no" /\ hadAtStart' = {t \in of : Probe(t)} /\ UNCHANGED <<hostManifest, have, handed>>
        /\ ensuring' = [NotEnsuring EXCEPT !.at = place, !.of = of, !.left = of, !.missing = MissingOf(of)]
    BY <1>3 DEF EnsureInstalled
  <2>2. MissingOf(of) \subseteq of /\ \A t \in MissingOf(of) : ~Probe(t) /\ Installers(t) # {}
    BY DEF MissingOf
  <2>3. of \subseteq HostTools /\ place \in {"done", "install"}
    OBVIOUS
  <2> HIDE DEF of, place
  <2>4. /\ ensuring' \in Ensurings /\ ensuring'.at = place /\ ensuring'.restart = FALSE
        /\ ensuring'.of = of /\ ensuring'.left = of /\ ensuring'.missing = MissingOf(of)
    BY <2>1, <2>2, <2>3 DEF Ensurings, NotEnsuring
  <2>5. \A t : Probe(t)' = Probe(t) /\ Installers(t)' = Installers(t)
    BY <2>1 DEF Probe, Installers
  <2>6. handed' = {}
    BY <2>1 DEF ToolsInv
  <2> QED BY <2>1, <2>2, <2>3, <2>4, <2>5, <2>6 DEF ToolsInv
<1>4. ASSUME NEW t \in HostTools, InstallTool(t) PROVE ToolsInv'
  <2>1. ensuring.at = "install" /\ t \in ensuring.left /\ UNCHANGED <<hostManifest, hadAtStart>>
    BY <1>4 DEF InstallTool
  <2>2. have \subseteq have'
    BY <1>4 DEF InstallTool
  <2>3. ~ensuring.restart
    BY <2>1 DEF ToolsInv
  <2>4. \A s \in ensuring.missing : Installers(s)' # {}
    BY <2>1, <2>2, <1>t, MoreIsFound DEF ToolsInv, Ensurings
  <2>5. CASE /\ t \in hadAtStart \/ Installers(t) = {}
             /\ ensuring' = [ensuring EXCEPT !.left = @ \ {t}] /\ UNCHANGED handed
    <3>1. /\ ensuring' \in Ensurings /\ ensuring'.at = ensuring.at /\ ensuring'.restart = ensuring.restart
          /\ ensuring'.of = ensuring.of /\ ensuring'.left = ensuring.left \ {t}
          /\ ensuring'.missing = ensuring.missing
      BY <2>5, <1>t DEF Ensurings
    <3>2. t \notin ensuring.missing
      BY <2>5 DEF ToolsInv
    <3> QED BY <2>1, <2>3, <2>4, <2>5, <3>1, <3>2 DEF ToolsInv
  <2>6. ASSUME t \notin hadAtStart, handed' = handed \cup {t}, ensuring' \in Ensurings,
               ensuring'.at = ensuring.at, ensuring'.restart = ensuring.restart, ensuring'.of = ensuring.of,
               ensuring'.left \in {ensuring.left, ensuring.left \ {t}}, ensuring'.missing = ensuring.missing
        PROVE  ToolsInv'
    BY <2>1, <2>3, <2>4, <2>6 DEF ToolsInv
  <2>7. CASE /\ t \notin hadAtStart /\ handed' = handed \cup {t}
             /\ ensuring' = [ensuring EXCEPT !.left = @ \ {t}, !.did = TRUE, !.tries = 1]
    <3>1. /\ ensuring' \in Ensurings /\ ensuring'.at = ensuring.at /\ ensuring'.restart = ensuring.restart
          /\ ensuring'.of = ensuring.of /\ ensuring'.left = ensuring.left \ {t}
          /\ ensuring'.missing = ensuring.missing
      BY <2>7, <1>t DEF Ensurings
    <3> QED BY <2>6, <2>7, <3>1
  <2>8. CASE /\ t \notin hadAtStart /\ handed' = handed \cup {t}
             /\ ensuring' = [ensuring EXCEPT !.tries = @ + 1]
    <3>1. /\ ensuring' \in Ensurings /\ ensuring'.at = ensuring.at /\ ensuring'.restart = ensuring.restart
          /\ ensuring'.of = ensuring.of /\ ensuring'.left = ensuring.left
          /\ ensuring'.missing = ensuring.missing
      BY <2>8, <1>t DEF Ensurings
    <3> QED BY <2>6, <2>8, <3>1
  <2>9. CASE /\ t \notin hadAtStart /\ handed' = handed \cup {t} /\ ensuring' = GiveUp(t)
    <3>1. ensuring' = [ensuring EXCEPT !.left = ensuring.left \ {t}, !.failed = ensuring.failed \cup {t}, !.tries = 1]
      BY <2>9 DEF GiveUp
    <3>2. ensuring.left \ {t} \in SUBSET HostTools /\ ensuring.failed \cup {t} \in SUBSET HostTools
      BY <1>t DEF Ensurings
    <3>3. /\ ensuring' \in Ensurings /\ ensuring'.at = ensuring.at /\ ensuring'.restart = ensuring.restart
          /\ ensuring'.of = ensuring.of /\ ensuring'.left = ensuring.left \ {t}
          /\ ensuring'.missing = ensuring.missing
      BY <3>1, <3>2, <1>t DEF Ensurings
    <3> QED BY <2>6, <2>9, <3>3
  <2> QED BY <1>4, <2>5, <2>7, <2>8, <2>9 DEF InstallTool
<1> QED BY <1>1, <1>2, <1>3, <1>4 DEF HostNext

\* The specification keeps it.
LEMMA ToolsAreKept == HostSpec => []ToolsInv
<1>1. InstallAssumption /\ HostInit => ToolsInv
  <2> SUFFICES ASSUME InstallAssumption, HostInit PROVE ToolsInv
    OBVIOUS
  <2>1. NotEnsuring \in Ensurings
    BY DEF NotEnsuring, Ensurings
  <2> QED BY <2>1 DEF HostInit, ToolsInv, NotEnsuring
<1> QED BY <1>1, HostNextKeeps, InstallAssumption, PTL DEF HostSpec

\* Every missing tool is tried whatever becomes of the others, is found or reported, and a restart
\* is asked for only for one that was found.
THEOREM ToolsAreTried == HostSpec => []HostToolsTried
<1>1. ToolsInv => HostToolsTried
  <2> SUFFICES ASSUME ToolsInv PROVE HostToolsTried
    OBVIOUS
  <2>1. AvailableFor(ensuring.of, ensuring.failed) => \A t \in ensuring.of : Probe(t)
    BY DEF AvailableFor, MissingOf, ManualOf
  <2> QED BY <2>1 DEF ToolsInv, HostToolsTried
<1> QED BY <1>1, ToolsAreKept, PTL

\* The commands of the host, and the attempts.
HostCommandsOK ==
  /\ hostManifest \in HostManifests /\ have \subseteq HostCommands /\ hadAtStart \subseteq HostTools
  /\ ensuring.tries \in 1..MaxTries

\* Each step of an installation keeps them.
LEMMA HostCommandsKeep == ToolsInv /\ HostCommandsOK /\ [HostNext]_hostVars => HostCommandsOK'
<1> SUFFICES ASSUME ToolsInv, HostCommandsOK, [HostNext]_hostVars PROVE HostCommandsOK'
  OBVIOUS
<1>t. ensuring \in Ensurings /\ MaxTries \in Nat \ {0} /\ ensuring.tries \in Nat /\ 1 \in 1..MaxTries
  BY InstallAssumption DEF InstallAssumption, ToolsInv, Ensurings
<1>1. CASE HostReport
  <2>1. ensuring'.tries = ensuring.tries
    BY <1>t, <1>1 DEF HostReport, Ensurings
  <2> QED BY <1>1, <2>1 DEF HostReport, HostCommandsOK
<1>2. ASSUME NEW byItself \in BOOLEAN, EnsureInstalled(byItself) PROVE HostCommandsOK'
  <2>1. ensuring'.tries = 1
    BY <1>2 DEF EnsureInstalled, NotEnsuring
  <2> QED BY <1>t, <1>2, <2>1 DEF EnsureInstalled, HostCommandsOK
<1>3. ASSUME NEW t \in HostTools, InstallTool(t) PROVE HostCommandsOK'
  <2>1. UNION hostManifest[t].needs \subseteq HostCommands
    BY InstallAssumption DEF InstallAssumption, HostCommandsOK
  <2>2. have' \subseteq HostCommands /\ hostManifest' = hostManifest /\ hadAtStart' = hadAtStart
    BY <1>3, <2>1 DEF InstallTool, HostCommandsOK
  <2>3. ensuring'.tries \in {ensuring.tries, 1}
        \/ (ensuring.tries < MaxTries /\ ensuring'.tries = ensuring.tries + 1)
    BY <1>t, <1>3 DEF InstallTool, GiveUp, Ensurings
  <2>4. ensuring'.tries \in 1..MaxTries
    BY <1>t, <2>3 DEF HostCommandsOK
  <2> QED BY <2>2, <2>4 DEF HostCommandsOK
<1>4. CASE UNCHANGED hostVars
  BY <1>4 DEF hostVars, HostCommandsOK
<1> QED BY <1>1, <1>2, <1>3, <1>4 DEF HostNext

\* The variables of the installation of the tools keep their types.
THEOREM HostTypeCorrect == HostSpec => []HostTypeOK
<1>1. HostInit => HostCommandsOK
  <2> SUFFICES ASSUME HostInit PROVE HostCommandsOK
    OBVIOUS
  <2>1. ensuring.tries = 1 /\ 1 \in 1..MaxTries
    BY InstallAssumption DEF InstallAssumption, HostInit, NotEnsuring
  <2> QED BY <2>1 DEF HostInit, HostCommandsOK
<1>2. ToolsInv /\ HostCommandsOK => HostTypeOK
  <2> SUFFICES ASSUME ToolsInv, HostCommandsOK PROVE HostTypeOK
    OBVIOUS
  <2>1. ensuring \in [at : {"no", "install", "done"}, of : SUBSET HostTools, left : SUBSET HostTools,
                   missing : SUBSET HostTools, failed : SUBSET HostTools, did : BOOLEAN,
                   tries : 1..MaxTries, restart : BOOLEAN]
    BY DEF ToolsInv, Ensurings, HostCommandsOK
  <2>2. handed \subseteq HostTools
    BY DEF ToolsInv, Ensurings
  <2> QED BY <2>1, <2>2 DEF HostCommandsOK, HostTypeOK
<1> QED BY <1>1, <1>2, ToolsAreKept, HostCommandsKeep, PTL DEF HostSpec

-----------------------------------------------------------------------------
(* The installations of a guest *)

GroupNames == {"apt", "npm", "host"}
Operations == [at : {"none", "inspect", "import", "again", "packages", "after"}, number : Nat,
               left : Seq(GroupNames), tries : Nat, failed : BOOLEAN]

InstallTypes ==
  /\ automatic \in BOOLEAN
  /\ installs \in [Profiles -> [Modes -> Operations]]
  /\ cache \in [Profiles -> [number : Nat, complete : BOOLEAN]]
  /\ starting \in [InstallStarts -> [at : {"new", "runtime", "waiting", "done"}, profile : Profiles]]
  /\ repair \in [at : {"no", "runtime", "packages", "probe"}, profile : Profiles]
  /\ begun \in [Profiles -> Nat] /\ repairs \in [Profiles -> Nat]
  /\ thrown \in [Profiles -> Nat] /\ repaired \in [Profiles -> Nat]

Unsettled(k) == cache[k].number = 0 /\ installs[k][Mode].at = "none"
Pending(k) == repair.at = "runtime" /\ repair.profile = k
OneIf(b) == IF b THEN 1 ELSE 0
\* Operations a repair may lead to: its own, and one by a sandbox when only it installs.
PerRepair == IF automatic THEN 1 ELSE 2

\* Who begins an operation waits for it, so that it leaves a report unless it throws; the
\* operations that a sandbox or the repair under way may still begin are paid for.
RepairInv ==
  /\ InstallTypes
  /\ \A k \in Profiles, m \in Modes : installs[k][m].at # "none" =>
       /\ Waits(k, m) \/ Repairs(k, m)
       /\ installs[k][m].number \in 1..begun[k]
       /\ automatic => installs[k][m].number = begun[k]
  /\ \A k \in Profiles :
       /\ begun[k] + OneIf(Unsettled(k)) + PerRepair * OneIf(Pending(k))
            <= 1 + PerRepair * repairs[k] + thrown[k]
       /\ repaired[k] <= begun[k]
       /\ automatic /\ cache[k].number # 0 => cache[k].number >= repaired[k]

\* What an operation of a profile is.
LEMMA OperationTypes ==
  ASSUME InstallTypes, NEW k \in Profiles, NEW m \in Modes
  PROVE  installs[k][m] \in Operations /\ Mode \in Modes
  BY DEF InstallTypes, Mode, Modes

\* An operation goes on.
LEMMA ContinueKeeps ==
  ASSUME RepairInv, NEW k \in Profiles, NEW m \in Modes, NEW next \in Operations,
         next.at # "none", installs[k][m].at # "none", next.number = installs[k][m].number,
         Continue(k, m, next), UNCHANGED automatic
  PROVE  RepairInv'
<1>t. InstallTypes
  BY DEF RepairInv
<1>1. installs' = [installs EXCEPT ![k][m] = next]
      /\ UNCHANGED <<cache, starting, repair, begun, repairs, thrown, repaired, automatic>>
  BY DEF Continue
<1>2. InstallTypes'
  BY <1>1, <1>t DEF InstallTypes
<1>3. ASSUME NEW j \in Profiles, NEW n \in Modes
      PROVE  /\ installs'[j][n].at # "none" <=> installs[j][n].at # "none"
             /\ installs'[j][n].number = installs[j][n].number
  BY <1>1, <1>t DEF InstallTypes
<1>4. /\ \A j \in Profiles : Unsettled(j)' = Unsettled(j) /\ Pending(j)' = Pending(j)
      /\ \A j \in Profiles, n \in Modes : Waits(j, n)' = Waits(j, n) /\ Repairs(j, n)' = Repairs(j, n)
      /\ PerRepair' = PerRepair /\ Mode' = Mode
  BY <1>1, <1>3, <1>t, OperationTypes DEF Unsettled, Pending, Waits, Repairs, PerRepair, Mode
<1>5. ASSUME NEW j \in Profiles, NEW n \in Modes, installs'[j][n].at # "none"
      PROVE  /\ (Waits(j, n) \/ Repairs(j, n))'
             /\ installs'[j][n].number \in 1..begun'[j]
             /\ automatic' => installs'[j][n].number = begun'[j]
  BY <1>1, <1>3, <1>4, <1>5 DEF RepairInv
<1>6. ASSUME NEW j \in Profiles
      PROVE  /\ begun'[j] + OneIf(Unsettled(j))' + PerRepair' * OneIf(Pending(j))'
                  <= 1 + PerRepair' * repairs'[j] + thrown'[j]
             /\ repaired'[j] <= begun'[j]
             /\ automatic' /\ cache'[j].number # 0 => cache'[j].number >= repaired'[j]
  <2>1. OneIf(Unsettled(j))' = OneIf(Unsettled(j)) /\ OneIf(Pending(j))' = OneIf(Pending(j))
    BY <1>4 DEF OneIf
  <2> QED BY <1>1, <1>4, <2>1 DEF RepairInv
<1> QED BY <1>2, <1>5, <1>6 DEF RepairInv

\* What is balanced for one profile.
LEMMA BalanceOf ==
  ASSUME RepairInv, NEW k \in Profiles
  PROVE  /\ PerRepair \in {1, 2} /\ OneIf(Unsettled(k)) \in {0, 1} /\ OneIf(Pending(k)) \in {0, 1}
         /\ begun[k] \in Nat /\ repairs[k] \in Nat /\ thrown[k] \in Nat /\ repaired[k] \in Nat
         /\ begun[k] + OneIf(Unsettled(k)) + PerRepair * OneIf(Pending(k)) <= 1 + PerRepair * repairs[k] + thrown[k]
         /\ repaired[k] <= begun[k]
         /\ automatic /\ cache[k].number # 0 => cache[k].number >= repaired[k]
  BY DEF RepairInv, InstallTypes, PerRepair, OneIf

\* An operation settles: its report is kept, or it has thrown.
LEMMA SettleKeeps ==
  ASSUME RepairInv, NEW k \in Profiles, NEW m \in Modes, NEW threw \in BOOLEAN, NEW complete \in BOOLEAN,
         installs[k][m].at # "none", Settle(k, m, threw, complete), UNCHANGED automatic
  PROVE  RepairInv'
<1> DEFINE number == installs[k][m].number
           settledStarts == {c \in InstallStarts : starting[c].at = "waiting" /\ starting[c].profile = k /\ m = Mode}
<1>t. InstallTypes
  BY DEF RepairInv
<1>1. /\ installs' = [installs EXCEPT ![k][m] = NoOperation]
      /\ cache' = (IF threw THEN cache ELSE [cache EXCEPT ![k] = [number |-> number, complete |-> complete]])
      /\ starting' = [c \in InstallStarts |-> IF c \in settledStarts THEN [starting[c] EXCEPT !.at = "done"] ELSE starting[c]]
      /\ UNCHANGED <<begun, repairs>>
  BY DEF Settle, RepairInv
<1>2. /\ repair' = (IF Repairs(k, m) THEN [repair EXCEPT !.at = IF threw THEN "no" ELSE "probe"] ELSE repair)
      /\ repaired' = (IF Repairs(k, m) /\ ~threw THEN [repaired EXCEPT ![k] = number] ELSE repaired)
      /\ thrown' = (IF threw THEN [thrown EXCEPT ![k] = thrown[k] + 1] ELSE thrown)
  BY DEF Settle, Count
<1>3. number \in 1..begun[k] /\ number \in Nat /\ (automatic => number = begun[k]) /\ begun[k] \in Nat
  BY <1>t, OperationTypes DEF RepairInv, InstallTypes, Operations
<1>4. NoOperation \in Operations /\ NoOperation.at = "none"
  BY DEF NoOperation, Operations, GroupNames
<1> HIDE DEF number, settledStarts
<1>5. InstallTypes'
  <2>1. installs' \in [Profiles -> [Modes -> Operations]]
    BY <1>1, <1>4, <1>t DEF InstallTypes
  <2>2. cache' \in [Profiles -> [number : Nat, complete : BOOLEAN]]
    BY <1>1, <1>3, <1>t DEF InstallTypes
  <2>3. starting' \in [InstallStarts -> [at : {"new", "runtime", "waiting", "done"}, profile : Profiles]]
    <3>1. ASSUME NEW c \in InstallStarts
          PROVE  [starting[c] EXCEPT !.at = "done"] \in [at : {"new", "runtime", "waiting", "done"}, profile : Profiles]
      BY <1>t DEF InstallTypes
    <3> QED BY <1>1, <3>1, <1>t DEF InstallTypes
  <2>4. repair' \in [at : {"no", "runtime", "packages", "probe"}, profile : Profiles]
    BY <1>2, <1>t DEF InstallTypes
  <2>5. repaired' \in [Profiles -> Nat] /\ thrown' \in [Profiles -> Nat]
    BY <1>2, <1>3, <1>t DEF InstallTypes
  <2> QED BY <1>1, <2>1, <2>2, <2>3, <2>4, <2>5, <1>t DEF InstallTypes
<1>6. Mode' = Mode /\ PerRepair' = PerRepair /\ Mode \in Modes
  BY DEF Mode, PerRepair, Modes
<1>7. ASSUME NEW j \in Profiles, NEW n \in Modes, installs'[j][n].at # "none"
      PROVE  /\ Waits(j, n)' \/ Repairs(j, n)'
             /\ installs'[j][n].number \in 1..begun'[j]
             /\ automatic' => installs'[j][n].number = begun'[j]
  <2>1. ~(j = k /\ n = m) /\ installs'[j][n] = installs[j][n]
    BY <1>1, <1>4, <1>7, <1>t DEF InstallTypes
  <2>2. Waits(j, n) \/ Repairs(j, n)
    BY <2>1, <1>7 DEF RepairInv
  <2>3. ASSUME Waits(j, n) PROVE Waits(j, n)'
    <3>1. PICK c \in InstallStarts : starting[c].at = "waiting" /\ starting[c].profile = j /\ n = Mode
      BY <2>3 DEF Waits
    <3>2. c \notin settledStarts
      BY <2>1, <3>1 DEF settledStarts
    <3>3. starting'[c] = starting[c]
      BY <1>1, <3>2
    <3> QED BY <3>1, <3>3, <1>6 DEF Waits
  <2>4. ASSUME Repairs(j, n) PROVE Repairs(j, n)'
    <3>1. ~Repairs(k, m)
      BY <2>1, <2>4 DEF Repairs
    <3> QED BY <1>2, <2>4, <3>1 DEF Repairs
  <2> QED BY <1>1, <1>7, <2>1, <2>2, <2>3, <2>4 DEF RepairInv
<1>8. ASSUME NEW j \in Profiles
      PROVE  /\ begun'[j] + OneIf(Unsettled(j))' + PerRepair' * OneIf(Pending(j))'
                  <= 1 + PerRepair' * repairs'[j] + thrown'[j]
             /\ repaired'[j] <= begun'[j]
             /\ automatic' /\ cache'[j].number # 0 => cache'[j].number >= repaired'[j]
  <2>1. OneIf(Pending(j))' = OneIf(Pending(j))
    <3>1. Pending(j)' <=> Pending(j)
      BY <1>2, <1>t DEF Pending, Repairs, InstallTypes
    <3> QED BY <3>1 DEF OneIf
  <2>2. CASE j # k
    <3>1. installs'[j] = installs[j] /\ cache'[j] = cache[j] /\ thrown'[j] = thrown[j] /\ repaired'[j] = repaired[j]
      BY <1>1, <1>2, <2>2, <1>t DEF InstallTypes
    <3>2. OneIf(Unsettled(j))' = OneIf(Unsettled(j))
      <4>1. Unsettled(j)' <=> Unsettled(j)
        BY <3>1, <1>6 DEF Unsettled
      <4> QED BY <4>1 DEF OneIf
    <3> QED BY <1>1, <1>6, <2>1, <3>1, <3>2, BalanceOf
  <2>3. CASE j = k /\ threw
    <3>1. cache' = cache /\ repaired' = repaired /\ thrown'[k] = thrown[k] + 1
      BY <1>1, <1>2, <2>3, <1>t DEF InstallTypes
    <3>2. OneIf(Unsettled(j))' \in {0, 1}
      BY DEF OneIf
    <3> QED BY <1>1, <1>6, <2>1, <2>3, <3>1, <3>2, BalanceOf
  <2>4. CASE j = k /\ ~threw
    <3>1. cache'[k].number = number /\ repaired'[k] \in {repaired[k], number} /\ thrown' = thrown
      BY <1>1, <1>2, <2>4, <1>t DEF InstallTypes
    <3>2. OneIf(Unsettled(j))' = 0
      <4>1. ~Unsettled(j)'
        BY <2>4, <3>1, <1>3 DEF Unsettled
      <4> QED BY <4>1 DEF OneIf
    <3> QED BY <1>1, <1>3, <1>6, <2>1, <2>4, <3>1, <3>2, BalanceOf
  <2> QED BY <2>2, <2>3, <2>4
<1> QED BY <1>5, <1>7, <1>8 DEF RepairInv

\* One that runs is joined, or one is begun.
LEMMA EnsureGives ==
  ASSUME RepairInv, NEW k \in Profiles, NEW m \in Modes, EnsureGuestInstalled(k, m),
         automatic => m = "install"
  PROVE  /\ installs' \in [Profiles -> [Modes -> Operations]] /\ begun' \in [Profiles -> Nat]
         /\ installs'[k][m].at # "none"
         /\ \A j \in Profiles, n \in Modes : ~(j = k /\ n = m) => installs'[j][n] = installs[j][n]
         /\ \A j \in Profiles \ {k} : begun'[j] = begun[j]
         /\ begun'[k] = begun[k] + (IF installs[k][m].at = "none" THEN 1 ELSE 0)
         /\ \A j \in Profiles, n \in Modes : installs'[j][n].at # "none" =>
              installs'[j][n].number \in 1..begun'[j] /\ (automatic => installs'[j][n].number = begun'[j])
<1>t. InstallTypes
  BY DEF RepairInv
<1>1. CASE installs[k][m].at # "none"
  BY <1>1, <1>t DEF EnsureGuestInstalled, RepairInv, InstallTypes
<1>2. CASE installs[k][m].at = "none"
  <2> DEFINE new == [NoOperation EXCEPT !.at = "inspect", !.number = begun[k] + 1]
  <2>1. begun' = [begun EXCEPT ![k] = begun[k] + 1] /\ installs' = [installs EXCEPT ![k][m] = new]
    BY <1>2 DEF EnsureGuestInstalled, Count
  <2>2. begun[k] \in Nat /\ begun[k] + 1 \in Nat
    BY <1>t DEF InstallTypes
  <2>0. NoOperation \in Operations
    BY DEF NoOperation, Operations, GroupNames
  <2>3. new \in Operations /\ new.at = "inspect" /\ new.number = begun[k] + 1
    BY <2>0, <2>2 DEF Operations
  <2> HIDE DEF new
  <2>4. installs' \in [Profiles -> [Modes -> Operations]] /\ begun' \in [Profiles -> Nat]
    BY <2>1, <2>2, <2>3, <1>t DEF InstallTypes
  <2>5. /\ installs'[k][m] = new /\ begun'[k] = begun[k] + 1
        /\ \A j \in Profiles, n \in Modes : ~(j = k /\ n = m) => installs'[j][n] = installs[j][n]
        /\ \A j \in Profiles \ {k} : begun'[j] = begun[j]
    BY <2>1, <1>t DEF InstallTypes
  <2>6. ASSUME NEW j \in Profiles, NEW n \in Modes, installs'[j][n].at # "none"
        PROVE  installs'[j][n].number \in 1..begun'[j] /\ (automatic => installs'[j][n].number = begun'[j])
    <3>1. CASE j = k /\ n = m
      BY <2>2, <2>3, <2>5, <3>1
    <3>2. CASE j # k
      BY <2>5, <2>6, <3>2 DEF RepairInv
    <3>3. CASE j = k /\ n # m
      <4>1. installs[k][n].at # "none" /\ installs'[k][n] = installs[k][n]
        BY <2>5, <2>6, <3>3
      <4>2. installs[k][n].number \in 1..begun[k] /\ (Waits(k, n) \/ Repairs(k, n))
        BY <4>1 DEF RepairInv
      <4>3. ~automatic
        BY <4>2, <3>3 DEF Waits, Repairs, Mode
      <4> QED BY <2>2, <2>5, <3>3, <4>1, <4>2, <4>3
    <3> QED BY <3>1, <3>2, <3>3
  <2> QED BY <1>2, <2>3, <2>4, <2>5, <2>6
<1> QED BY <1>1, <1>2

\* What sandboxes and repairs do before and after: their places and the operations they begin.
LEMMA BeginKeeps ==
  ASSUME RepairInv, NEW k \in Profiles, NEW m \in Modes, EnsureGuestInstalled(k, m), automatic => m = "install",
         UNCHANGED <<automatic, repairs, thrown, repaired>>,
         starting' \in [InstallStarts -> [at : {"new", "runtime", "waiting", "done"}, profile : Profiles]],
         repair' \in [at : {"no", "runtime", "packages", "probe"}, profile : Profiles],
         \A j \in Profiles, n \in Modes : (Waits(j, n) => Waits(j, n)') /\ (Repairs(j, n) => Repairs(j, n)'),
         Waits(k, m)' \/ Repairs(k, m)',
         \/ m = Mode /\ cache[k].number = 0 /\ cache' = cache /\ repair' = repair
         \/ /\ m = "install" /\ cache' = [cache EXCEPT ![k] = [number |-> 0, complete |-> FALSE]]
            /\ Pending(k) /\ repair'.at = "packages"
  PROVE  RepairInv'
<1>t. InstallTypes
  BY DEF RepairInv
<1>1. InstallTypes'
  <2> DEFINE Cached == [number : Nat, complete : BOOLEAN]
             none == [number |-> 0, complete |-> FALSE]
  <2>1. none \in Cached
    BY SMT
  <2>2. cache \in [Profiles -> Cached]
    BY <1>t DEF InstallTypes
  <2>3. cache' = cache \/ cache' = [cache EXCEPT ![k] = none]
    OBVIOUS
  <2> HIDE DEF Cached, none
  <2>4. cache' \in [Profiles -> Cached]
    BY <2>1, <2>2, <2>3
  <2>5. installs' \in [Profiles -> [Modes -> Operations]] /\ begun' \in [Profiles -> Nat]
    BY EnsureGives
  <2> QED BY <2>4, <2>5, <1>t DEF InstallTypes, Cached
<1>2. Mode' = Mode /\ PerRepair' = PerRepair /\ Mode \in Modes
  BY DEF Mode, PerRepair, Modes
<1>3. ASSUME NEW j \in Profiles, NEW n \in Modes, installs'[j][n].at # "none"
      PROVE  /\ Waits(j, n)' \/ Repairs(j, n)'
             /\ installs'[j][n].number \in 1..begun'[j]
             /\ automatic' => installs'[j][n].number = begun'[j]
  <2>1. installs'[j][n].number \in 1..begun'[j] /\ (automatic' => installs'[j][n].number = begun'[j])
    BY <1>3, EnsureGives
  <2>2. CASE j = k /\ n = m
    BY <2>1, <2>2
  <2>3. CASE ~(j = k /\ n = m)
    <3>1. installs'[j][n] = installs[j][n]
      BY <2>3, EnsureGives
    <3>2. Waits(j, n) \/ Repairs(j, n)
      BY <1>3, <3>1 DEF RepairInv
    <3> QED BY <2>1, <3>2
  <2> QED BY <2>2, <2>3
<1>4. ASSUME NEW j \in Profiles
      PROVE  /\ begun'[j] + OneIf(Unsettled(j))' + PerRepair' * OneIf(Pending(j))'
                  <= 1 + PerRepair' * repairs'[j] + thrown'[j]
             /\ repaired'[j] <= begun'[j]
             /\ automatic' /\ cache'[j].number # 0 => cache'[j].number >= repaired'[j]
  <2>0. OneIf(Unsettled(j))' \in {0, 1} /\ OneIf(Pending(j))' \in {0, 1}
    BY DEF OneIf
  <2>1. CASE j # k
    <3>1. /\ begun'[j] = begun[j] /\ cache'[j] = cache[j]
          /\ \A n \in Modes : installs'[j][n] = installs[j][n]
      BY <2>1, <1>t, EnsureGives DEF InstallTypes
    <3>2. OneIf(Unsettled(j))' = OneIf(Unsettled(j))
      <4>1. Unsettled(j)' <=> Unsettled(j)
        BY <3>1, <1>2 DEF Unsettled
      <4> QED BY <4>1 DEF OneIf
    <3>3. OneIf(Pending(j))' <= OneIf(Pending(j))
      <4>1. Pending(j)' => Pending(j)
        BY DEF Pending
      <4> QED BY <4>1 DEF OneIf
    <3>4. PerRepair * OneIf(Pending(j))' <= PerRepair * OneIf(Pending(j))
      BY <2>0, <3>3, BalanceOf
    <3> DEFINE p == PerRepair * OneIf(Pending(j))
               q == PerRepair * OneIf(Pending(j))'
               r == PerRepair * repairs[j]
    <3>5. p \in Nat /\ q \in Nat /\ r \in Nat
      BY <2>0, BalanceOf
    <3>6. /\ begun[j] + OneIf(Unsettled(j)) + p <= 1 + r + thrown[j] /\ OneIf(Unsettled(j)) \in {0, 1}
          /\ begun[j] \in Nat /\ thrown[j] \in Nat
      BY BalanceOf
    <3>7. q <= p
      BY <3>4
    <3> HIDE DEF p, q, r
    <3>8. begun[j] + OneIf(Unsettled(j)) + q <= 1 + r + thrown[j]
      BY <3>5, <3>6, <3>7
    <3> QED BY <1>2, <3>1, <3>2, <3>8, BalanceOf DEF q, r
  <2>2. CASE j = k
    <3>0. begun'[k] = begun[k] + (IF installs[k][m].at = "none" THEN 1 ELSE 0) /\ installs'[k][m].at # "none"
      BY EnsureGives
    <3>1. CASE m = Mode /\ cache[k].number = 0 /\ cache' = cache /\ repair' = repair
      <4>1. ~Unsettled(k)' /\ (Pending(k)' <=> Pending(k)) /\ (Unsettled(k) <=> installs[k][m].at = "none")
        BY <1>2, <3>0, <3>1 DEF Unsettled, Pending
      <4>2. /\ OneIf(Unsettled(k))' = 0 /\ OneIf(Pending(k))' = OneIf(Pending(k))
            /\ begun'[k] = begun[k] + OneIf(Unsettled(k))
        BY <3>0, <4>1 DEF OneIf
      <4> QED BY <1>2, <2>2, <3>1, <4>2, BalanceOf
    <3>2. CASE /\ m = "install" /\ cache' = [cache EXCEPT ![k] = [number |-> 0, complete |-> FALSE]]
               /\ Pending(k) /\ repair'.at = "packages"
      <4>1. OneIf(Pending(k)) = 1 /\ OneIf(Pending(k))' = 0 /\ cache'[k].number = 0
        BY <3>2, <1>t DEF OneIf, Pending, InstallTypes
      <4>2. CASE automatic
        <5>1. PerRepair = 1 /\ m = Mode
          BY <3>2, <4>2 DEF PerRepair, Mode
        <5>2. OneIf(Unsettled(k))' = 0
          BY <1>2, <3>0, <5>1 DEF Unsettled, OneIf
        <5> QED BY <1>2, <2>2, <3>0, <4>1, <5>1, <5>2, BalanceOf
      <4>3. CASE ~automatic
        <5>1. PerRepair = 2
          BY <4>3 DEF PerRepair
        <5>2. begun'[k] <= begun[k] + 1 /\ begun'[k] \in Nat /\ begun[k] <= begun'[k]
          BY <3>0, BalanceOf
        <5> QED BY <1>2, <2>0, <2>2, <4>1, <4>3, <5>1, <5>2, BalanceOf
      <4> QED BY <4>2, <4>3
    <3> QED BY <2>2, <3>1, <3>2
  <2> QED BY <2>1, <2>2
<1> QED BY <1>1, <1>3, <1>4 DEF RepairInv

\* A step in which no operation begins, goes on or settles.
LEMMA AsideKeeps ==
  ASSUME RepairInv, UNCHANGED <<automatic, installs, cache, begun, thrown, repaired>>,
         starting' \in [InstallStarts -> [at : {"new", "runtime", "waiting", "done"}, profile : Profiles]],
         repair' \in [at : {"no", "runtime", "packages", "probe"}, profile : Profiles],
         repairs' \in [Profiles -> Nat],
         \A j \in Profiles, n \in Modes : (Waits(j, n) => Waits(j, n)') /\ (Repairs(j, n) => Repairs(j, n)'),
         \A j \in Profiles : \/ repairs'[j] = repairs[j] /\ (Pending(j)' => Pending(j))
                             \/ repairs'[j] = repairs[j] + 1
  PROVE  RepairInv'
<1>t. InstallTypes
  BY DEF RepairInv
<1>1. InstallTypes'
  BY <1>t DEF InstallTypes
<1>2. Mode' = Mode /\ PerRepair' = PerRepair
  BY DEF Mode, PerRepair
<1>3. ASSUME NEW j \in Profiles
      PROVE  begun'[j] + OneIf(Unsettled(j))' + PerRepair' * OneIf(Pending(j))'
               <= 1 + PerRepair' * repairs'[j] + thrown'[j]
  <2>1. OneIf(Unsettled(j))' = OneIf(Unsettled(j)) /\ OneIf(Pending(j))' \in {0, 1}
    BY <1>2 DEF Unsettled, OneIf
  <2>2. CASE repairs'[j] = repairs[j] + 1
    <3>1. PerRepair * repairs'[j] = PerRepair * repairs[j] + PerRepair
      BY <2>2, BalanceOf
    <3>2. PerRepair * OneIf(Pending(j))' <= PerRepair /\ PerRepair * OneIf(Pending(j)) >= 0
      BY <2>1, BalanceOf
    <3> DEFINE p == PerRepair * OneIf(Pending(j))
               q == PerRepair * OneIf(Pending(j))'
               r == PerRepair * repairs[j]
    <3>5. p \in Nat /\ q \in Nat /\ r \in Nat /\ PerRepair \in Nat
      BY <2>1, BalanceOf
    <3>6. /\ begun[j] + OneIf(Unsettled(j)) + p <= 1 + r + thrown[j] /\ OneIf(Unsettled(j)) \in {0, 1}
          /\ begun[j] \in Nat /\ thrown[j] \in Nat
      BY BalanceOf
    <3>7. q <= PerRepair /\ p >= 0
      BY <3>2
    <3> HIDE DEF p, q, r
    <3>8. begun[j] + OneIf(Unsettled(j)) + q <= 1 + (r + PerRepair) + thrown[j]
      BY <3>5, <3>6, <3>7
    <3> QED BY <1>2, <2>1, <3>1, <3>8 DEF q, r
  <2>3. CASE repairs'[j] = repairs[j] /\ (Pending(j)' => Pending(j))
    <3>1. OneIf(Pending(j))' <= OneIf(Pending(j))
      BY <2>3 DEF OneIf
    <3> DEFINE p == PerRepair * OneIf(Pending(j))
               q == PerRepair * OneIf(Pending(j))'
               r == PerRepair * repairs[j]
    <3>5. p \in Nat /\ q \in Nat /\ r \in Nat
      BY <2>1, BalanceOf
    <3>6. /\ begun[j] + OneIf(Unsettled(j)) + p <= 1 + r + thrown[j] /\ OneIf(Unsettled(j)) \in {0, 1}
          /\ begun[j] \in Nat /\ thrown[j] \in Nat
      BY BalanceOf
    <3>7. q <= p
      BY <2>1, <3>1, BalanceOf
    <3> HIDE DEF p, q, r
    <3>8. begun[j] + OneIf(Unsettled(j)) + q <= 1 + r + thrown[j]
      BY <3>5, <3>6, <3>7
    <3> QED BY <1>2, <2>1, <2>3, <3>8 DEF q, r
  <2> QED BY <2>2, <2>3
<1> QED BY <1>1, <1>3 DEF RepairInv

\* A sandbox that is prepared, step by step.
LEMMA PrepareKeeps == ASSUME RepairInv, NEW c \in InstallStarts, PrepareGuest(c) PROVE RepairInv'
<1> DEFINE k == starting[c].profile
           StartStates == [InstallStarts -> [at : {"new", "runtime", "waiting", "done"}, profile : Profiles]]
<1>t. InstallTypes /\ k \in Profiles /\ starting \in StartStates
  BY DEF RepairInv, InstallTypes
<1>1. UNCHANGED <<automatic, cache, repair, repairs, thrown, repaired>>
  BY DEF PrepareGuest
<1>2. \A j \in Profiles, n \in Modes : Repairs(j, n)' = Repairs(j, n) /\ Pending(j)' = Pending(j)
  BY <1>1 DEF Repairs, Pending
<1>3. ASSUME NEW place \in {"runtime", "waiting", "done"}, starting' = [starting EXCEPT ![c].at = place],
             starting[c].at # "waiting"
      PROVE  /\ starting' \in StartStates /\ starting'[c].at = place /\ starting'[c].profile = k
             /\ \A j \in Profiles, n \in Modes : Waits(j, n) => Waits(j, n)'
  <2>1. /\ starting' \in StartStates /\ starting'[c].at = place /\ starting'[c].profile = k
        /\ \A d \in InstallStarts \ {c} : starting'[d] = starting[d]
    BY <1>3, <1>t
  <2> QED BY <1>1, <1>3, <2>1 DEF Waits, Mode
<1>4. ASSUME NEW place \in {"runtime", "done"}, starting' = [starting EXCEPT ![c].at = place],
             starting[c].at # "waiting", UNCHANGED <<begun, installs>>
      PROVE  RepairInv'
  <2>1. starting' \in StartStates /\ \A j \in Profiles, n \in Modes : Waits(j, n) => Waits(j, n)'
    BY <1>3, <1>4
  <2>2. /\ repair' \in [at : {"no", "runtime", "packages", "probe"}, profile : Profiles]
        /\ repairs' \in [Profiles -> Nat]
    BY <1>1, <1>t DEF InstallTypes
  <2>3. /\ \A j \in Profiles : repairs'[j] = repairs[j] /\ (Pending(j)' => Pending(j))
        /\ \A j \in Profiles, n \in Modes : Repairs(j, n) => Repairs(j, n)'
    BY <1>1 DEF Repairs, Pending
  <2> QED BY <1>1, <1>4, <2>1, <2>2, <2>3, AsideKeeps
<1>5. ASSUME starting[c].at = "runtime", cache[k].number = 0, EnsureGuestInstalled(k, Mode),
             starting' = [starting EXCEPT ![c].at = "waiting"]
      PROVE  RepairInv'
  <2>1. /\ starting' \in StartStates /\ starting'[c].at = "waiting" /\ starting'[c].profile = k
        /\ \A j \in Profiles, n \in Modes : Waits(j, n) => Waits(j, n)'
    BY <1>3, <1>5
  <2>2. Mode \in Modes /\ (automatic => Mode = "install") /\ Mode' = Mode
    BY <1>1 DEF Mode, Modes
  <2>3. Waits(k, Mode)'
    BY <2>1, <2>2 DEF Waits
  <2>4. repair' \in [at : {"no", "runtime", "packages", "probe"}, profile : Profiles]
    BY <1>1, <1>t DEF InstallTypes
  <2> QED BY <1>1, <1>2, <1>5, <1>t, <2>1, <2>2, <2>3, <2>4, BeginKeeps
<1> QED BY <1>4, <1>5 DEF PrepareGuest

\* A repair, step by step.
LEMMA RepairStepKeeps == ASSUME RepairInv, Repair PROVE RepairInv'
<1> DEFINE k == repair.profile
           RepairStates == [at : {"no", "runtime", "packages", "probe"}, profile : Profiles]
<1>t. InstallTypes /\ k \in Profiles /\ repair \in RepairStates
  BY DEF RepairInv, InstallTypes
<1>1. UNCHANGED <<automatic, starting, thrown, repaired>>
  BY DEF Repair
<1>2. /\ \A j \in Profiles, n \in Modes : Waits(j, n)' = Waits(j, n)
      /\ starting' \in [InstallStarts -> [at : {"new", "runtime", "waiting", "done"}, profile : Profiles]]
  BY <1>1, <1>t DEF Waits, Mode, InstallTypes
<1>3. ASSUME NEW place \in {"no", "runtime", "packages", "probe"}, repair' = [repair EXCEPT !.at = place]
      PROVE  repair' \in RepairStates /\ repair'.at = place /\ repair'.profile = k
  BY <1>3, <1>t
<1>4. CASE /\ repair.at = "no" /\ repair' = [repair EXCEPT !.at = "runtime"] /\ repairs' = Count(repairs, k)
           /\ UNCHANGED <<begun, installs, cache>>
  <2>1. repair' \in RepairStates /\ repair'.at = "runtime" /\ repair'.profile = k
    BY <1>3, <1>4
  <2>2. /\ repairs' \in [Profiles -> Nat]
        /\ \A j \in Profiles : IF j = k THEN repairs'[j] = repairs[j] + 1 ELSE repairs'[j] = repairs[j]
    BY <1>4, <1>t DEF Count, InstallTypes
  <2>3. \A j \in Profiles, n \in Modes : ~Repairs(j, n)
    BY <1>4 DEF Repairs
  <2>4. \A j \in Profiles : j # k => ~Pending(j)'
    BY <2>1 DEF Pending
  <2> QED BY <1>1, <1>2, <1>4, <2>1, <2>2, <2>3, <2>4, AsideKeeps
<1>5. ASSUME repair.at \in {"runtime", "probe"}, NEW place \in {"no", "probe"},
             repair' = [repair EXCEPT !.at = place], UNCHANGED <<begun, installs, cache, repairs>>
      PROVE  RepairInv'
  <2>1. repair' \in RepairStates /\ repair'.at = place
    BY <1>3, <1>5
  <2>2. \A j \in Profiles, n \in Modes : ~Repairs(j, n) /\ ~Pending(j)'
    BY <1>5, <2>1 DEF Repairs, Pending
  <2>3. repairs' \in [Profiles -> Nat] /\ \A j \in Profiles : repairs'[j] = repairs[j] /\ ~Pending(j)'
    BY <1>5, <2>1, <1>t DEF InstallTypes, Pending
  <2> QED BY <1>1, <1>2, <1>5, <2>1, <2>2, <2>3, AsideKeeps
<1>6. CASE /\ repair.at = "runtime" /\ EnsureGuestInstalled(k, "install")
           /\ repair' = [repair EXCEPT !.at = "packages"]
           /\ cache' = [cache EXCEPT ![k] = [number |-> 0, complete |-> FALSE]] /\ UNCHANGED repairs
  <2>1. repair' \in RepairStates /\ repair'.at = "packages" /\ repair'.profile = k
    BY <1>3, <1>6
  <2>2. \A j \in Profiles, n \in Modes : ~Repairs(j, n)
    BY <1>6 DEF Repairs
  <2>3. Repairs(k, "install")' /\ Pending(k) /\ "install" \in Modes
    BY <1>6, <2>1 DEF Repairs, Pending, Modes
  <2> QED BY <1>1, <1>2, <1>6, <1>t, <2>1, <2>2, <2>3, BeginKeeps
<1>7. CASE repair.at = "runtime"
  BY <1>5, <1>6, <1>7 DEF Repair
<1>8. CASE repair.at = "probe"
  BY <1>5, <1>8 DEF Repair
<1>9. CASE repair.at \notin {"runtime", "probe"}
  BY <1>4, <1>9 DEF Repair
<1> QED BY <1>7, <1>8, <1>9

\* An operation, step by step.
LEMMA OperationKeeps ==
  ASSUME InstallAssumption, RepairInv, NEW k \in Profiles, NEW m \in Modes, OperationStep(k, m)
  PROVE  RepairInv'
<1> DEFINE op == installs[k][m]
<1>t. op \in Operations
  BY OperationTypes DEF RepairInv
<1>g. Groups \in Seq(GroupNames)
  <2>1. <<"apt", "npm">> \in Seq(GroupNames)
    BY DEF GroupNames
  <2>2. <<"host">> \in Seq(GroupNames)
    BY DEF GroupNames
  <2>3. Groups = <<"apt", "npm">> \/ Groups = <<"host">>
    BY DEF Groups
  <2> QED BY <2>1, <2>2, <2>3
<1>s. ASSUME NEW threw \in BOOLEAN, NEW complete \in BOOLEAN, Settle(k, m, threw, complete), op.at # "none",
             UNCHANGED automatic
      PROVE  RepairInv'
  BY <1>s, SettleKeeps
<1>1. CASE Inspect(k, m)
  <2>0. op.at \in {"inspect", "again"} /\ UNCHANGED automatic
    BY <1>1 DEF Inspect, world
  <2>1. CASE Settle(k, m, TRUE, FALSE)
    BY <1>s, <2>0, <2>1
  <2>2. ASSUME NEW here \in BOOLEAN, Settle(k, m, FALSE, here /\ CompleteReport) PROVE RepairInv'
    <3>1. (here /\ CompleteReport) \in BOOLEAN
      BY DEF CompleteReport
    <3> QED BY <1>s, <2>0, <2>2, <3>1
  <2>3. CASE Continue(k, m, [op EXCEPT !.at = "import", !.tries = 1])
    <3> DEFINE next == [op EXCEPT !.at = "import", !.tries = 1]
    <3>1. next \in Operations /\ next.at # "none" /\ next.number = op.number
      BY <1>t DEF Operations
    <3> QED BY <2>0, <2>3, <3>1, ContinueKeeps
  <2>4. CASE Continue(k, m, [op EXCEPT !.at = "packages", !.left = Groups, !.tries = 1])
    <3> DEFINE next == [op EXCEPT !.at = "packages", !.left = Groups, !.tries = 1]
    <3>1. next \in Operations /\ next.at # "none" /\ next.number = op.number
      BY <1>t, <1>g DEF Operations
    <3> QED BY <2>0, <2>4, <3>1, ContinueKeeps
  <2> QED BY <1>1, <2>1, <2>2, <2>3, <2>4 DEF Inspect
<1>2. CASE Import(k, m)
  <2>0. op.at = "import" /\ UNCHANGED automatic
    BY <1>2 DEF Import
  <2>1. CASE Settle(k, m, FALSE, FALSE)
    BY <1>s, <2>0, <2>1
  <2>2. CASE Continue(k, m, [op EXCEPT !.at = "again"])
    <3> DEFINE next == [op EXCEPT !.at = "again"]
    <3>1. next \in Operations /\ next.at # "none" /\ next.number = op.number
      BY <1>t DEF Operations
    <3> QED BY <2>0, <2>2, <3>1, ContinueKeeps
  <2>3. CASE Continue(k, m, [op EXCEPT !.tries = @ + 1])
    <3> DEFINE next == [op EXCEPT !.tries = @ + 1]
    <3>1. next \in Operations /\ next.at # "none" /\ next.number = op.number
      BY <1>t, <2>0 DEF Operations
    <3> QED BY <2>0, <2>3, <3>1, ContinueKeeps
  <2> QED BY <1>2, <2>1, <2>2, <2>3 DEF Import
<1>3. CASE InstallPackages(k, m)
  <2>0. op.at = "packages" /\ UNCHANGED automatic
    BY <1>3 DEF InstallPackages
  <2>1. CASE Continue(k, m, [op EXCEPT !.at = "after"])
    <3> DEFINE next == [op EXCEPT !.at = "after"]
    <3>1. next \in Operations /\ next.at # "none" /\ next.number = op.number
      BY <1>t DEF Operations
    <3> QED BY <2>0, <2>1, <3>1, ContinueKeeps
  <2>2. CASE Continue(k, m, [op EXCEPT !.tries = @ + 1])
    <3> DEFINE next == [op EXCEPT !.tries = @ + 1]
    <3>1. next \in Operations /\ next.at # "none" /\ next.number = op.number
      BY <1>t, <2>0 DEF Operations
    <3> QED BY <2>0, <2>2, <3>1, ContinueKeeps
  <2> DEFINE shorter == [op EXCEPT !.left = Tail(@), !.tries = 1]
  <2>3. ASSUME op.left # <<>>
        PROVE  shorter \in Operations /\ shorter.at = "packages" /\ shorter.number = op.number
    <3>1. Tail(op.left) \in Seq(GroupNames)
      BY <1>t, <2>3, HeadTailProperties DEF Operations
    <3>2. shorter = [op EXCEPT !.left = Tail(op.left), !.tries = 1]
      OBVIOUS
    <3> QED BY <1>t, <2>0, <3>1, <3>2 DEF Operations
  <2> HIDE DEF shorter
  <2>4. CASE op.left # <<>> /\ Continue(k, m, shorter)
    BY <2>0, <2>3, <2>4, ContinueKeeps
  <2>5. CASE op.left # <<>> /\ Continue(k, m, [shorter EXCEPT !.failed = TRUE])
    <3> DEFINE next == [shorter EXCEPT !.failed = TRUE]
    <3>1. next \in Operations /\ next.at # "none" /\ next.number = op.number
      BY <2>3, <2>5 DEF Operations
    <3> QED BY <2>0, <2>5, <3>1, ContinueKeeps
  <2> QED BY <1>3, <2>1, <2>2, <2>4, <2>5 DEF InstallPackages, shorter
<1>4. CASE Report(k, m)
  <2>0. op.at = "after" /\ UNCHANGED automatic
    BY <1>4 DEF Report, world
  <2>1. (CompleteReport /\ ~op.failed) \in BOOLEAN
    BY DEF CompleteReport
  <2> QED BY <1>4, <1>s, <2>0, <2>1 DEF Report
<1> QED BY <1>1, <1>2, <1>3, <1>4 DEF OperationStep

\* Each step keeps it.
LEMMA InstallNextKeeps == InstallAssumption /\ RepairInv /\ [InstallNext]_installVars => RepairInv'
<1> SUFFICES ASSUME InstallAssumption, RepairInv, [InstallNext]_installVars PROVE RepairInv'
  OBVIOUS
<1>1. CASE UNCHANGED installVars
  BY <1>1 DEF installVars, RepairInv, InstallTypes, Unsettled, Pending, Waits, Repairs, PerRepair, Mode, OneIf
<1> QED BY <1>1, PrepareKeeps, RepairStepKeeps, OperationKeeps DEF InstallNext

\* The specification keeps it.
LEMMA OperationsAreKept == InstallSpec => []RepairInv
<1>1. InstallInit => RepairInv
  <2> SUFFICES ASSUME InstallInit PROVE RepairInv
    OBVIOUS
  <2>1. NoOperation \in Operations /\ NoOperation.at = "none"
    BY DEF NoOperation, Operations, GroupNames
  <2>2. InstallTypes
    BY <2>1 DEF InstallInit, InstallTypes
  <2>3. \A k \in Profiles, m \in Modes : installs[k][m].at = "none"
    BY <2>1 DEF InstallInit
  <2>4. ASSUME NEW k \in Profiles
        PROVE  /\ begun[k] + OneIf(Unsettled(k)) + PerRepair * OneIf(Pending(k))
                    <= 1 + PerRepair * repairs[k] + thrown[k]
               /\ repaired[k] <= begun[k] /\ cache[k].number = 0
    <3>1. begun[k] = 0 /\ repairs[k] = 0 /\ thrown[k] = 0 /\ repaired[k] = 0 /\ cache[k].number = 0
      BY DEF InstallInit
    <3>2. OneIf(Pending(k)) = 0
      BY DEF InstallInit, Pending, OneIf
    <3>3. PerRepair \in {1, 2} /\ OneIf(Unsettled(k)) \in {0, 1}
      BY DEF PerRepair, OneIf
    <3> QED BY <3>1, <3>2, <3>3
  <2> QED BY <2>2, <2>3, <2>4 DEF RepairInv
<1> QED BY <1>1, InstallNextKeeps, InstallAssumption, PTL DEF InstallSpec

\* Only a repair tries again what has been tried, and its report is not replaced by an older one.
THEOREM RepairsAreKept == InstallSpec => []RepairKept
<1>1. RepairInv => RepairKept
  <2> SUFFICES ASSUME RepairInv, NEW k \in Profiles
               PROVE  begun[k] <= 1 + repairs[k] + thrown[k] + (IF automatic THEN 0 ELSE repairs[k])
    BY DEF RepairInv, RepairKept
  <2>1. CASE automatic
    <3>1. PerRepair = 1
      BY <2>1 DEF PerRepair
    <3> QED BY <2>1, <3>1, BalanceOf
  <2>2. CASE ~automatic
    <3>1. PerRepair = 2
      BY <2>2 DEF PerRepair
    <3> QED BY <2>2, <3>1, BalanceOf
  <2> QED BY <2>1, <2>2
<1> QED BY <1>1, OperationsAreKept, PTL

\* The operations of a profile that are under way.
OperationsOf(k) == OneIf(installs[k]["install"].at # "none") + OneIf(installs[k]["inspect"].at # "none")

\* Of what has begun no more has thrown than is over, and no report is of a later operation.
Fewer(k) ==
  /\ begun[k] <= MaxInstalls /\ repairs[k] <= MaxInstalls
  /\ thrown[k] + OperationsOf(k) <= begun[k]
  /\ cache[k].number <= begun[k]
InstallBounds ==
  /\ \A k \in Profiles : Fewer(k)
  /\ \A k \in Profiles, m \in Modes :
       installs[k][m].tries <= MaxTries /\ (installs[k][m].at = "none" => installs[k][m].number = 0)
InstallWorld ==
  /\ windows \in BOOLEAN /\ wsl \in BOOLEAN
  /\ distribution \in {"absent", "stuck", "usable"} /\ packages \subseteq {"apt", "npm", "host"}

\* The numbers of a profile are numbers.
LEMMA NumbersOf ==
  ASSUME RepairInv, InstallBounds, NEW k \in Profiles
  PROVE  /\ begun[k] \in Nat /\ repairs[k] \in Nat /\ thrown[k] \in Nat /\ repaired[k] \in Nat
         /\ cache[k].number \in Nat /\ OperationsOf(k) \in 0..2 /\ MaxInstalls \in Nat
         /\ begun[k] <= MaxInstalls /\ repairs[k] <= MaxInstalls
         /\ thrown[k] + OperationsOf(k) <= begun[k] /\ cache[k].number <= begun[k]
<1>1. begun[k] \in Nat /\ repairs[k] \in Nat /\ thrown[k] \in Nat /\ repaired[k] \in Nat /\ cache[k].number \in Nat
  BY DEF RepairInv, InstallTypes
<1>2. OperationsOf(k) \in 0..2
  BY DEF OperationsOf, OneIf
<1>3. MaxInstalls \in Nat
  BY InstallAssumption DEF InstallAssumption
<1> QED BY <1>1, <1>2, <1>3 DEF InstallBounds, Fewer

\* An operation that goes on is still under way.
LEMMA ContinueWithin ==
  ASSUME RepairInv, InstallBounds, NEW k \in Profiles, NEW m \in Modes, NEW next \in Operations,
         next.at # "none", installs[k][m].at # "none", next.tries <= MaxTries, Continue(k, m, next)
  PROVE  InstallBounds'
<1>t. installs \in [Profiles -> [Modes -> Operations]]
  BY DEF RepairInv, InstallTypes
<1>1. installs' = [installs EXCEPT ![k][m] = next]
      /\ UNCHANGED <<cache, begun, repairs, thrown>>
  BY DEF Continue
<1>2. ASSUME NEW j \in Profiles, NEW n \in Modes
      PROVE  /\ installs'[j][n].at # "none" <=> installs[j][n].at # "none"
             /\ installs'[j][n].tries <= MaxTries
             /\ installs'[j][n].at = "none" => installs'[j][n].number = 0
  <2>1. CASE j = k /\ n = m
    BY <1>1, <1>t, <2>1
  <2>2. CASE ~(j = k /\ n = m)
    <3>1. installs'[j][n] = installs[j][n]
      BY <1>1, <1>t, <2>2
    <3> QED BY <3>1 DEF InstallBounds
  <2> QED BY <2>1, <2>2
<1>3. ASSUME NEW j \in Profiles PROVE Fewer(j)'
  <2>1. OperationsOf(j)' = OperationsOf(j)
    BY <1>2 DEF OperationsOf, OneIf, Modes
  <2> QED BY <1>1, <2>1 DEF InstallBounds, Fewer
<1> QED BY <1>2, <1>3 DEF InstallBounds

\* One that settles is not, whether it has thrown or left a report.
LEMMA SettleWithin ==
  ASSUME RepairInv, InstallBounds, NEW k \in Profiles, NEW m \in Modes, NEW threw \in BOOLEAN, NEW complete \in BOOLEAN,
         installs[k][m].at # "none", Settle(k, m, threw, complete)
  PROVE  InstallBounds'
<1>t. /\ installs \in [Profiles -> [Modes -> Operations]] /\ thrown \in [Profiles -> Nat]
      /\ cache \in [Profiles -> [number : Nat, complete : BOOLEAN]] /\ MaxTries \in Nat
  BY InstallAssumption DEF InstallAssumption, RepairInv, InstallTypes
<1>1. installs' = [installs EXCEPT ![k][m] = NoOperation] /\ UNCHANGED <<begun, repairs>>
  BY DEF Settle
<1>2. ASSUME NEW j \in Profiles, NEW n \in Modes, ~(j = k /\ n = m) PROVE installs'[j][n] = installs[j][n]
  BY <1>1, <1>2, <1>t
<1>3. installs'[k][m].at = "none" /\ installs'[k][m].tries = 0 /\ installs'[k][m].number = 0
  BY <1>1, <1>t DEF NoOperation
<1>4. ASSUME NEW j \in Profiles, NEW n \in Modes
      PROVE  installs'[j][n].tries <= MaxTries /\ (installs'[j][n].at = "none" => installs'[j][n].number = 0)
  <2>1. CASE j = k /\ n = m
    BY <1>3, <1>t, <2>1
  <2> QED BY <1>2, <2>1 DEF InstallBounds
<1>5. ASSUME NEW j \in Profiles \ {k} PROVE Fewer(j)'
  <2>1. OperationsOf(j)' = OperationsOf(j)
    BY <1>2 DEF OperationsOf, OneIf, Modes
  <2>2. thrown'[j] = thrown[j]
    BY <1>t DEF Settle, Count
  <2>3. cache'[j] = cache[j]
    BY <1>t DEF Settle
  <2> QED BY <1>1, <2>1, <2>2, <2>3 DEF InstallBounds, Fewer
<1>6. Fewer(k)'
  <2>1. OperationsOf(k)' + 1 = OperationsOf(k)
    <3>1. CASE m = "install"
      <4>1. installs'[k]["inspect"] = installs[k]["inspect"]
        BY <1>2, <3>1 DEF Modes
      <4> QED BY <1>3, <3>1, <4>1 DEF OperationsOf, OneIf
    <3>2. CASE m = "inspect"
      <4>1. installs'[k]["install"] = installs[k]["install"]
        BY <1>2, <3>2 DEF Modes
      <4> QED BY <1>3, <3>2, <4>1 DEF OperationsOf, OneIf
    <3> QED BY <3>1, <3>2 DEF Modes
  <2>2. thrown'[k] \in {thrown[k], thrown[k] + 1}
    BY <1>t DEF Settle, Count
  <2>3. cache'[k].number \in {cache[k].number, installs[k][m].number}
    BY <1>t DEF Settle
  <2>4. installs[k][m].number \in 1..begun[k]
    BY DEF RepairInv
  <2>5. OperationsOf(k)' \in 0..2
    BY DEF OperationsOf, OneIf
  <2> QED BY <1>1, <2>1, <2>2, <2>3, <2>4, <2>5, NumbersOf DEF Fewer
<1> QED BY <1>4, <1>5, <1>6 DEF InstallBounds

\* One that begins is counted.
LEMMA BeginWithin ==
  ASSUME RepairInv, InstallBounds, NEW k \in Profiles, NEW m \in Modes, EnsureGuestInstalled(k, m),
         automatic => m = "install", UNCHANGED <<repairs, thrown>>,
         \A j \in Profiles : cache'[j].number \in {cache[j].number, 0}
  PROVE  InstallBounds'
<1>1. /\ installs' \in [Profiles -> [Modes -> Operations]] /\ begun' \in [Profiles -> Nat]
      /\ installs'[k][m].at # "none"
      /\ \A j \in Profiles, n \in Modes : ~(j = k /\ n = m) => installs'[j][n] = installs[j][n]
      /\ \A j \in Profiles \ {k} : begun'[j] = begun[j]
      /\ begun'[k] = begun[k] + (IF installs[k][m].at = "none" THEN 1 ELSE 0)
  BY EnsureGives
<1>2. installs'[k][m].tries <= MaxTries
  <2>1. installs \in [Profiles -> [Modes -> Operations]] /\ MaxTries \in Nat
    BY InstallAssumption DEF InstallAssumption, RepairInv, InstallTypes
  <2>2. CASE installs[k][m].at # "none"
    BY <2>1, <2>2 DEF EnsureGuestInstalled, InstallBounds
  <2>3. CASE installs[k][m].at = "none"
    <3> DEFINE new == [NoOperation EXCEPT !.at = "inspect", !.number = begun[k] + 1]
    <3>1. installs' = [installs EXCEPT ![k][m] = new]
      BY <2>3 DEF EnsureGuestInstalled
    <3>2. new.tries = 0
      BY DEF NoOperation
    <3> HIDE DEF new
    <3>3. installs'[k][m] = new
      BY <2>1, <3>1
    <3> QED BY <2>1, <3>2, <3>3
  <2> QED BY <2>2, <2>3
<1>3. ASSUME NEW j \in Profiles \ {k} PROVE Fewer(j)'
  <2>1. OperationsOf(j)' = OperationsOf(j)
    BY <1>1 DEF OperationsOf, OneIf, Modes
  <2>2. begun'[j] = begun[j] /\ repairs'[j] = repairs[j] /\ thrown'[j] = thrown[j]
        /\ cache'[j].number \in {cache[j].number, 0}
    BY <1>1
  <2> QED BY <2>1, <2>2, NumbersOf DEF Fewer
<1>4. Fewer(k)'
  <2>1. OperationsOf(k)' = OperationsOf(k) + (IF installs[k][m].at = "none" THEN 1 ELSE 0)
    <3>1. CASE m = "install"
      <4>1. installs'[k]["inspect"] = installs[k]["inspect"]
        BY <1>1, <3>1 DEF Modes
      <4> QED BY <1>1, <3>1, <4>1 DEF OperationsOf, OneIf
    <3>2. CASE m = "inspect"
      <4>1. installs'[k]["install"] = installs[k]["install"]
        BY <1>1, <3>2 DEF Modes
      <4> QED BY <1>1, <3>2, <4>1 DEF OperationsOf, OneIf
    <3> QED BY <3>1, <3>2 DEF Modes
  <2>2. installs[k][m].at = "none" => begun[k] < MaxInstalls
    BY DEF EnsureGuestInstalled
  <2>3. OperationsOf(k)' \in 0..2
    BY DEF OperationsOf, OneIf
  <2>4. repairs'[k] = repairs[k] /\ thrown'[k] = thrown[k] /\ cache'[k].number \in {cache[k].number, 0}
    OBVIOUS
  <2>5. CASE installs[k][m].at = "none"
    <3>1. begun'[k] = begun[k] + 1 /\ OperationsOf(k)' = OperationsOf(k) + 1
      BY <1>1, <2>1, <2>5
    <3> QED BY <2>2, <2>3, <2>4, <2>5, <3>1, NumbersOf DEF Fewer
  <2>6. CASE installs[k][m].at # "none"
    <3>1. begun'[k] = begun[k] /\ OperationsOf(k)' = OperationsOf(k)
      BY <1>1, <2>1, <2>6, NumbersOf
    <3> QED BY <2>4, <3>1, NumbersOf DEF Fewer
  <2> QED BY <2>5, <2>6
<1>5. ASSUME NEW j \in Profiles, NEW n \in Modes
      PROVE  installs'[j][n].tries <= MaxTries /\ (installs'[j][n].at = "none" => installs'[j][n].number = 0)
  <2>1. CASE j = k /\ n = m
    BY <1>1, <1>2, <2>1
  <2> QED BY <1>1, <2>1 DEF InstallBounds
<1> QED BY <1>3, <1>4, <1>5 DEF InstallBounds

\* Each step of a sandbox or of a repair begins no more than the bound.
LEMMA StartsWithin ==
  ASSUME RepairInv, InstallBounds, Repair \/ \E c \in InstallStarts : PrepareGuest(c)
  PROVE  InstallBounds'
<1>t. InstallTypes
  BY DEF RepairInv
<1>s. ASSUME UNCHANGED <<installs, begun, repairs, thrown, cache>> PROVE InstallBounds'
  BY <1>s DEF InstallBounds, Fewer, OperationsOf
<1>1. ASSUME NEW c \in InstallStarts, PrepareGuest(c) PROVE InstallBounds'
  <2>1. starting[c].profile \in Profiles /\ Mode \in Modes /\ (automatic => Mode = "install")
    BY <1>t DEF InstallTypes, Mode, Modes
  <2>2. UNCHANGED <<cache, repairs, thrown>>
    BY <1>1 DEF PrepareGuest
  <2>3. CASE EnsureGuestInstalled(starting[c].profile, Mode)
    BY <2>1, <2>2, <2>3, BeginWithin
  <2>4. CASE UNCHANGED <<begun, installs>>
    BY <2>2, <2>4, <1>s
  <2> QED BY <1>1, <2>3, <2>4 DEF PrepareGuest
<1>2. CASE Repair
  <2> DEFINE k == repair.profile
  <2>1. k \in Profiles /\ cache \in [Profiles -> [number : Nat, complete : BOOLEAN]] /\ "install" \in Modes
    BY <1>t DEF InstallTypes, Modes
  <2>2. thrown' = thrown
    BY <1>2 DEF Repair
  <2>3. ASSUME EnsureGuestInstalled(k, "install"), repairs' = repairs,
               cache' = [cache EXCEPT ![k] = [number |-> 0, complete |-> FALSE]]
        PROVE  InstallBounds'
    <3>1. \A j \in Profiles : cache'[j].number \in {cache[j].number, 0}
      BY <2>1, <2>3
    <3> QED BY <2>1, <2>2, <2>3, <3>1, BeginWithin
  <2>4. ASSUME repairs[k] < MaxInstalls, repairs' = Count(repairs, k), UNCHANGED <<begun, installs, cache>>
        PROVE  InstallBounds'
    <3>1. repairs \in [Profiles -> Nat]
      BY <1>t DEF InstallTypes
    <3>2. ASSUME NEW j \in Profiles PROVE repairs'[j] <= MaxInstalls
      <4>1. CASE j = k
        <5>1. repairs'[j] = repairs[k] + 1 /\ repairs[k] \in Nat
          BY <2>1, <2>4, <3>1, <4>1 DEF Count
        <5>2. MaxInstalls \in Nat
          BY InstallAssumption DEF InstallAssumption
        <5> QED BY <2>4, <5>1, <5>2
      <4>2. CASE j # k
        <5>1. repairs'[j] = repairs[j]
          BY <2>4, <3>1, <4>2 DEF Count
        <5> QED BY <5>1, NumbersOf
      <4> QED BY <4>1, <4>2
    <3> QED BY <2>2, <2>4, <3>2 DEF InstallBounds, Fewer, OperationsOf
  <2>5. CASE UNCHANGED <<begun, installs, cache, repairs>>
    BY <2>2, <2>5, <1>s
  <2> QED BY <1>2, <2>3, <2>4, <2>5 DEF Repair
<1> QED BY <1>1, <1>2

\* So does each step of an operation, which tries no more often than it may.
LEMMA OperationsWithin ==
  ASSUME RepairInv, InstallBounds, NEW k \in Profiles, NEW m \in Modes, OperationStep(k, m)
  PROVE  InstallBounds'
<1> DEFINE op == installs[k][m]
<1>t. op \in Operations /\ op.tries <= MaxTries /\ MaxTries \in Nat \ {0} /\ op.tries \in Nat
  BY InstallAssumption DEF InstallAssumption, RepairInv, InstallTypes, InstallBounds, Operations
<1>c. ASSUME NEW next \in Operations, next.at # "none", op.at # "none", Continue(k, m, next),
             next.tries \in {op.tries, 1} \/ (op.tries < MaxTries /\ next.tries = op.tries + 1)
      PROVE  InstallBounds'
  <2>1. next.tries <= MaxTries
    BY <1>c, <1>t
  <2> QED BY <1>c, <2>1, ContinueWithin
<1>s. ASSUME NEW threw \in BOOLEAN, NEW complete, op.at # "none", Settle(k, m, threw, complete), complete \in BOOLEAN
      PROVE  InstallBounds'
  BY <1>s, SettleWithin
<1>1. CASE Inspect(k, m)
  <2>1. op.at # "none"
    BY <1>1 DEF Inspect
  <2>2. ASSUME Continue(k, m, [op EXCEPT !.at = "import", !.tries = 1]) PROVE InstallBounds'
    <3>1. [op EXCEPT !.at = "import", !.tries = 1] \in Operations
      BY <1>t DEF Operations
    <3> QED BY <1>c, <1>t, <2>1, <2>2, <3>1 DEF Operations
  <2>3. ASSUME Continue(k, m, [op EXCEPT !.at = "packages", !.left = Groups, !.tries = 1]) PROVE InstallBounds'
    <3>1. Groups \in Seq(GroupNames)
      <4>1. <<"apt", "npm">> \in Seq(GroupNames) /\ <<"host">> \in Seq(GroupNames)
        BY DEF GroupNames
      <4> QED BY <4>1 DEF Groups
    <3>2. [op EXCEPT !.at = "packages", !.left = Groups, !.tries = 1] \in Operations
      BY <1>t, <3>1 DEF Operations
    <3> QED BY <1>c, <1>t, <2>1, <2>3, <3>2 DEF Operations
  <2>4. CompleteReport \in BOOLEAN
    BY DEF CompleteReport
  <2>5. ASSUME NEW usable \in BOOLEAN PROVE (usable /\ CompleteReport) \in BOOLEAN
    BY <2>4
  <2> QED BY <1>1, <1>s, <2>1, <2>2, <2>3, <2>5 DEF Inspect
<1>2. CASE Import(k, m)
  <2>1. op.at # "none" /\ op.at = "import"
    BY <1>2 DEF Import
  <2>2. ASSUME Continue(k, m, [op EXCEPT !.at = "again"]) PROVE InstallBounds'
    <3>1. [op EXCEPT !.at = "again"] \in Operations
      BY <1>t DEF Operations
    <3> QED BY <1>c, <1>t, <2>1, <2>2, <3>1 DEF Operations
  <2>3. ASSUME op.tries < MaxTries, Continue(k, m, [op EXCEPT !.tries = op.tries + 1]) PROVE InstallBounds'
    <3>1. [op EXCEPT !.tries = op.tries + 1] \in Operations
      BY <1>t DEF Operations
    <3>2. [op EXCEPT !.tries = op.tries + 1].at = op.at /\ [op EXCEPT !.tries = op.tries + 1].tries = op.tries + 1
      BY <1>t DEF Operations
    <3> QED BY <1>c, <1>t, <2>1, <2>3, <3>1, <3>2
  <2> QED BY <1>2, <1>s, <2>1, <2>2, <2>3 DEF Import
<1>3. CASE InstallPackages(k, m)
  <2>1. op.at # "none" /\ op.at = "packages"
    BY <1>3 DEF InstallPackages
  <2>2. ASSUME Continue(k, m, [op EXCEPT !.at = "after"]) PROVE InstallBounds'
    <3>1. [op EXCEPT !.at = "after"] \in Operations
      BY <1>t DEF Operations
    <3> QED BY <1>c, <1>t, <2>1, <2>2, <3>1 DEF Operations
  <2>3. ASSUME op.tries < MaxTries, Continue(k, m, [op EXCEPT !.tries = op.tries + 1]) PROVE InstallBounds'
    <3>1. [op EXCEPT !.tries = op.tries + 1] \in Operations
      BY <1>t DEF Operations
    <3>2. [op EXCEPT !.tries = op.tries + 1].at = op.at /\ [op EXCEPT !.tries = op.tries + 1].tries = op.tries + 1
      BY <1>t DEF Operations
    <3> QED BY <1>c, <1>t, <2>1, <2>3, <3>1, <3>2
  <2>4. ASSUME op.left # <<>>, NEW f \in BOOLEAN,
               Continue(k, m, [op EXCEPT !.left = Tail(op.left), !.tries = 1, !.failed = f])
        PROVE  InstallBounds'
    <3>1. Tail(op.left) \in Seq(GroupNames)
      BY <1>t, <2>4 DEF Operations
    <3>2. [op EXCEPT !.left = Tail(op.left), !.tries = 1, !.failed = f] \in Operations
      BY <1>t, <3>1 DEF Operations
    <3>3. /\ [op EXCEPT !.left = Tail(op.left), !.tries = 1, !.failed = f].at = op.at
          /\ [op EXCEPT !.left = Tail(op.left), !.tries = 1, !.failed = f].tries = 1
      BY <1>t DEF Operations
    <3> QED BY <1>c, <1>t, <2>1, <2>4, <3>2, <3>3
  <2>5. [op EXCEPT !.left = Tail(@), !.tries = 1] = [op EXCEPT !.left = Tail(op.left), !.tries = 1, !.failed = op.failed]
    BY <1>t DEF Operations
  <2>6. [[op EXCEPT !.left = Tail(@), !.tries = 1] EXCEPT !.failed = TRUE]
          = [op EXCEPT !.left = Tail(op.left), !.tries = 1, !.failed = TRUE]
    BY <1>t DEF Operations
  <2>7. op.failed \in BOOLEAN
    BY <1>t DEF Operations
  <2> QED BY <1>3, <2>2, <2>3, <2>4, <2>5, <2>6, <2>7 DEF InstallPackages
<1>4. CASE Report(k, m)
  <2>1. op.at # "none" /\ (CompleteReport /\ ~op.failed) \in BOOLEAN
    BY <1>4 DEF Report, CompleteReport
  <2> QED BY <1>4, <1>s, <2>1 DEF Report
<1> QED BY <1>1, <1>2, <1>3, <1>4 DEF OperationStep

\* Each step keeps the world of the operations.
LEMMA WorldKeeps == RepairInv /\ InstallWorld /\ [InstallNext]_installVars => InstallWorld'
<1> SUFFICES ASSUME RepairInv, InstallWorld, [InstallNext]_installVars PROVE InstallWorld'
  OBVIOUS
<1> USE DEF InstallWorld
<1>u. ASSUME NEW may \in BOOLEAN, NEW up \in BOOLEAN, RuntimeUp(may, up), UNCHANGED <<windows, packages>>
      PROVE  InstallWorld'
  BY <1>u DEF RuntimeUp
<1>1. ASSUME NEW c \in InstallStarts, PrepareGuest(c) PROVE InstallWorld'
  <2>1. automatic \in BOOLEAN
    BY DEF RepairInv, InstallTypes
  <2> QED BY <1>1, <1>u, <2>1 DEF PrepareGuest
<1>2. CASE Repair
  BY <1>2, <1>u DEF Repair
<1>3. ASSUME NEW k \in Profiles, NEW m \in Modes, Inspect(k, m) \/ Report(k, m) PROVE InstallWorld'
  BY <1>3 DEF Inspect, Report, world
<1>4. ASSUME NEW k \in Profiles, NEW m \in Modes, Import(k, m) PROVE InstallWorld'
  BY <1>4 DEF Import
<1>5. ASSUME NEW k \in Profiles, NEW m \in Modes, InstallPackages(k, m) PROVE InstallWorld'
  <2>1. installs[k][m].left \in Seq(GroupNames)
    BY DEF RepairInv, InstallTypes, Operations
  <2>2. installs[k][m].left # <<>> => Head(installs[k][m].left) \in GroupNames
    BY <2>1
  <2> QED BY <1>5, <2>2 DEF InstallPackages, GroupNames
<1>6. CASE UNCHANGED installVars
  BY <1>6 DEF installVars
<1> QED BY <1>1, <1>2, <1>3, <1>4, <1>5, <1>6 DEF InstallNext, OperationStep

\* The variables of the installations keep their types, and their counts the bounds.
THEOREM InstallTypeCorrect == InstallSpec => []InstallTypeOK
<1>1. InstallInit => InstallBounds /\ InstallWorld
  <2> SUFFICES ASSUME InstallInit PROVE InstallBounds /\ InstallWorld
    OBVIOUS
  <2>1. MaxTries \in Nat /\ MaxInstalls \in Nat
    BY InstallAssumption DEF InstallAssumption
  <2>2. \A k \in Profiles, m \in Modes : installs[k][m] = NoOperation
    BY DEF InstallInit
  <2>3. ASSUME NEW k \in Profiles PROVE Fewer(k)
    <3>1. OperationsOf(k) = 0
      BY <2>2 DEF OperationsOf, OneIf, Modes, NoOperation
    <3>2. begun[k] = 0 /\ repairs[k] = 0 /\ thrown[k] = 0 /\ cache[k].number = 0
      BY DEF InstallInit
    <3> QED BY <2>1, <3>1, <3>2 DEF Fewer
  <2>4. InstallBounds
    BY <2>1, <2>2, <2>3 DEF InstallBounds, NoOperation
  <2> QED BY <2>4 DEF InstallInit, InstallWorld
<1>2. RepairInv /\ InstallBounds /\ [InstallNext]_installVars => InstallBounds'
  <2> SUFFICES ASSUME RepairInv, InstallBounds, [InstallNext]_installVars PROVE InstallBounds'
    OBVIOUS
  <2>1. CASE UNCHANGED installVars
    BY <2>1 DEF installVars, InstallBounds, Fewer, OperationsOf
  <2> QED BY <2>1, StartsWithin, OperationsWithin DEF InstallNext
<1>3. RepairInv /\ InstallBounds /\ InstallWorld => InstallTypeOK
  <2> SUFFICES ASSUME RepairInv, InstallBounds, InstallWorld PROVE InstallTypeOK
    OBVIOUS
  <2>t. InstallTypes /\ MaxInstalls \in Nat /\ MaxTries \in Nat
    BY InstallAssumption DEF InstallAssumption, RepairInv
  <2>1. ASSUME NEW k \in Profiles
        PROVE  /\ begun[k] \in 0..MaxInstalls /\ repairs[k] \in 0..MaxInstalls /\ thrown[k] \in 0..MaxInstalls
               /\ repaired[k] \in 0..MaxInstalls /\ cache[k].number \in 0..MaxInstalls
    BY NumbersOf, BalanceOf
  <2>2. ASSUME NEW k \in Profiles, NEW m \in Modes
        PROVE  installs[k][m].number \in 0..MaxInstalls /\ installs[k][m].tries \in 0..MaxTries
    <3>1. installs[k][m].number \in Nat /\ installs[k][m].tries \in Nat /\ installs[k][m].tries <= MaxTries
      BY <2>t DEF InstallTypes, Operations, InstallBounds
    <3>2. installs[k][m].at # "none" => installs[k][m].number \in 1..begun[k]
      BY DEF RepairInv
    <3>3. installs[k][m].at = "none" => installs[k][m].number = 0
      BY DEF InstallBounds
    <3> QED BY <2>t, <2>1, <3>1, <3>2, <3>3
  <2>3. cache \in [Profiles -> [number : 0..MaxInstalls, complete : BOOLEAN]]
    BY <2>t, <2>1 DEF InstallTypes
  <2>4. {begun, repairs, thrown, repaired} \subseteq [Profiles -> 0..MaxInstalls]
    BY <2>t, <2>1 DEF InstallTypes
  <2>5. \A k \in Profiles, m \in Modes :
          installs[k][m].at \in {"none", "inspect", "import", "again", "packages", "after"}
    BY <2>t DEF InstallTypes, Operations
  <2> QED BY <2>t, <2>2, <2>3, <2>4, <2>5 DEF InstallTypes, InstallWorld, InstallTypeOK
<1> QED BY <1>1, <1>2, <1>3, OperationsAreKept, WorldKeeps, PTL DEF InstallSpec

-----------------------------------------------------------------------------
(* Side by side *)

\* A step of one component leaves the others alone: a step of ServicesSpec is a
\* step or a stutter of each.
LEMMA StepsOfServices ==
  [ServicesNext]_servicesVars =>
    /\ [AutoNext]_autoVars /\ [ScheduleNext]_schedVars /\ [ApprovalNext]_approvalVars
    /\ [CheckNext]_checkVars /\ [LinkNext]_linkVars /\ [SendNextState]_sendVars
    /\ [QueueNext]_queueVars /\ [ChatNext]_chatVars /\ [ViewNext]_viewVars /\ [SegNext]_segVars
    /\ [UpdateNext]_updateVars /\ [RecordNext]_recordVars /\ [InstallNext]_installVars
    /\ [HostNext]_hostVars /\ [StoredNext]_storedVars /\ [ApiNext]_apiVars
    /\ [ReleaseNext]_releaseVars /\ [InstallerNext]_installerVars
    /\ [TerminalsNext]_terminalVars /\ [AskNext]_askVars /\ [CommandNext]_cmdVars
    /\ [PanelNext]_pageVars /\ [GitNext]_gitVars /\ [ConfigNext]_editVars /\ [AppNext]_appVars
    /\ [OsNext]_osVars /\ [CacheNext]_cacheVars /\ [DraftNext]_draftVars
    /\ [AttachNext]_attachVars /\ [VoiceNext]_voiceVars /\ [SpeechNext]_speechVars
<1> SUFFICES ASSUME [ServicesNext]_servicesVars
             PROVE
               /\ [AutoNext]_autoVars /\ [ScheduleNext]_schedVars /\ [ApprovalNext]_approvalVars
               /\ [CheckNext]_checkVars /\ [LinkNext]_linkVars /\ [SendNextState]_sendVars
               /\ [QueueNext]_queueVars /\ [ChatNext]_chatVars /\ [ViewNext]_viewVars
               /\ [SegNext]_segVars /\ [UpdateNext]_updateVars /\ [RecordNext]_recordVars
               /\ [InstallNext]_installVars /\ [HostNext]_hostVars /\ [StoredNext]_storedVars
               /\ [ApiNext]_apiVars /\ [ReleaseNext]_releaseVars
               /\ [InstallerNext]_installerVars /\ [TerminalsNext]_terminalVars
               /\ [AskNext]_askVars /\ [CommandNext]_cmdVars /\ [PanelNext]_pageVars
               /\ [GitNext]_gitVars /\ [ConfigNext]_editVars /\ [AppNext]_appVars
               /\ [OsNext]_osVars /\ [CacheNext]_cacheVars /\ [DraftNext]_draftVars
               /\ [AttachNext]_attachVars /\ [VoiceNext]_voiceVars /\ [SpeechNext]_speechVars
  OBVIOUS
<1>1. CASE UNCHANGED servicesVars
  BY <1>1 DEF servicesVars
<1>2. CASE RunsPart
  BY <1>2 DEF RunsPart, Only
<1>3. CASE SchedulePart
  BY <1>3 DEF SchedulePart, Only
<1>4. CASE ApprovalsPart
  BY <1>4 DEF ApprovalsPart, Only
<1>5. CASE CheckpointsPart
  BY <1>5 DEF CheckpointsPart, Only
<1>6. CASE LinkPart
  BY <1>6 DEF LinkPart, Only
<1>7. CASE SendingPart
  BY <1>7 DEF SendingPart, Only
<1>8. CASE QueuePart
  BY <1>8 DEF QueuePart, Only
<1>9. CASE ChatPart
  BY <1>9 DEF ChatPart, Only
<1>10. CASE ViewPart
  BY <1>10 DEF ViewPart, Only
<1>11. CASE SegmentsPart
  BY <1>11 DEF SegmentsPart, Only
<1>12. CASE UpdatesPart
  BY <1>12 DEF UpdatesPart, Only
<1>13. CASE RecordsPart
  BY <1>13 DEF RecordsPart, Only
<1>14. CASE InstallsPart
  BY <1>14 DEF InstallsPart, Only
<1>15. CASE ToolsPart
  BY <1>15 DEF ToolsPart, Only
<1>16. CASE StoredPart
  BY <1>16 DEF StoredPart, Only
<1>17. CASE ApiPart
  BY <1>17 DEF ApiPart, Only
<1>18. CASE ReleasePart
  BY <1>18 DEF ReleasePart, Only
<1>19. CASE InstallersPart
  BY <1>19 DEF InstallersPart, Only
<1>20. CASE TerminalsPart
  BY <1>20 DEF TerminalsPart, Only
<1>21. CASE RequestsPart
  BY <1>21 DEF RequestsPart, Only
<1>22. CASE SlashPart
  BY <1>22 DEF SlashPart, Only
<1>23. CASE BootPart
  BY <1>23 DEF BootPart, Only
<1>24. CASE PagesPart
  BY <1>24 DEF PagesPart, Only
<1>25. CASE GitPart
  BY <1>25 DEF GitPart, Only
<1>26. CASE ConfigPart
  BY <1>26 DEF ConfigPart, Only
<1>27. CASE AppPart
  BY <1>27 DEF AppPart, Only
<1>28. CASE OsPart
  BY <1>28 DEF OsPart, Only
<1>29. CASE CachePart
  BY <1>29 DEF CachePart, Only
<1>30. CASE DraftPart
  BY <1>30 DEF DraftPart, Only
<1>31. CASE AttachPart
  BY <1>31 DEF AttachPart, Only
<1>32. CASE VoicePart
  BY <1>32 DEF VoicePart, Only
<1>33. CASE SpeechPart
  BY <1>33 DEF SpeechPart, Only
<1> QED BY <1>1, <1>2, <1>3, <1>4, <1>5, <1>6, <1>7, <1>8, <1>9, <1>10, <1>11, <1>12, <1>13,
           <1>14, <1>15, <1>16, <1>17, <1>18, <1>19, <1>20, <1>21, <1>22, <1>23, <1>24,
           <1>25, <1>26, <1>27, <1>28, <1>29, <1>30, <1>31, <1>32, <1>33 DEF ServicesNext

\* What a behaviour of ServicesSpec is for each component that is proved about here.
THEOREM ServicesAreComponents ==
  ServicesSpec =>
    /\ AutoSpec /\ SchedSpec /\ ApprovalSpec /\ CheckSpec /\ LinkSpec /\ SendSpec /\ QueueSpec
    /\ ChatSpec /\ ViewSpec /\ SegSpec /\ UpdateSpec /\ RecordSpec /\ InstallSpec /\ HostSpec
    /\ StoredSpec /\ ApiSpec /\ ReleaseSpec /\ InstallerSpec /\ TerminalsSpec /\ AskSpec
    /\ CmdSpec /\ PageSpec /\ GitSpec /\ ConfigSpec /\ AppSpec /\ OsSpec /\ CacheSpec
    /\ DraftSpec /\ AttachSpec /\ VoiceSpec /\ SpeechSpec
<1>1. ServicesInit =>
        /\ AutoInit /\ SchedInit /\ ApprovalInit /\ CheckInit /\ LinkInit /\ SendInit
        /\ QueueInit /\ ChatInit /\ ViewInit /\ SegInit /\ UpdateInit /\ RecordInit
        /\ InstallInit /\ HostInit /\ StoredInit /\ ApiInit /\ ReleaseInit /\ InstallerInit
        /\ TerminalsInit /\ AskInit /\ CmdInit /\ PageInit /\ GitInit /\ ConfigInit /\ AppInit
        /\ OsInit /\ CacheInit /\ DraftInit /\ AttachInit /\ VoiceInit /\ SpeechInit
  BY DEF ServicesInit
<1> QED BY <1>1, StepsOfServices, PTL DEF ServicesSpec, AutoSpec, SchedSpec, ApprovalSpec,
           CheckSpec, LinkSpec, SendSpec, QueueSpec, ChatSpec, ViewSpec, SegSpec,
           UpdateSpec, RecordSpec, InstallSpec, HostSpec, StoredSpec, ApiSpec, ReleaseSpec,
           InstallerSpec, TerminalsSpec, AskSpec, CmdSpec, PageSpec, GitSpec, ConfigSpec,
           AppSpec, OsSpec, CacheSpec, DraftSpec, AttachSpec, VoiceSpec, SpeechSpec

\* No call, run, command or load of the services is done twice, started beside
\* another it excludes, or let in where it is not allowed, and messages arrive in
\* the order in which they were sent.
THEOREM ServicesDoOnce == ServicesSpec => []DoneOnce
BY ServicesAreComponents, RunsStayExclusive, ApprovalsDecidedOnce, CommandsRunOnce,
   RequestsRunWhereAllowed, CommandsAreWhole, MessagesLeaveInOrder, LoadsRunOnce, PTL DEF DoneOnce

\* What the user gave or the program recorded is kept over failures, ends and
\* restarts: queued prompts, drafts and attachments, titles and the numbers of
\* events, artifacts and workspaces, secrets of a file that is edited, a dispatch
\* asked for during a start; and no task of a run that ended stays active.
THEOREM ServicesKeepRecords == ServicesSpec => []KeptRecords
BY ServicesAreComponents, PromptsAreKept, DraftsAreKept, AttachmentsAreBacked, RecordsAreKept,
   FilesAreKept, SecretsAreKept, StartsAndEndsAreKept, PTL DEF KeptRecords

\* What is shown, spoken or scheduled is of now: of the newest turn, the
\* directory and the project in the window, the account that is signed in, the
\* automations as they are, and a microphone the input in the window can turn off.
THEOREM ServicesShowTheCurrent == ServicesSpec => []ShownIsCurrent
BY ServicesAreComponents, MicrophonesAreOwned, SpeaksOfNow, ShellsAreShown, PagesAreCurrent,
   SessionsStayApart, SchedulersFollow, PTL DEF ShownIsCurrent

\* What is installed, packaged or reported as ready was made and verified as a
\* whole: an update, a guest image, the installers of a release, the tools of the
\* host, the report of a repair, and the model of a transcription.
THEOREM ServicesVerifyBeforeUse == ServicesSpec => []VerifiedBeforeUse
BY ServicesAreComponents, TranscriptionsAreVerified, OfferedIsVerified, PackagesAreCurrent,
   ListsAreOfOneRun, ToolsAreTried, RepairsAreKept, PTL DEF VerifiedBeforeUse

\* Files and plugins change as the user wants them to: an undo is all or nothing, a
\* change in the working tree is lost only with approval, and a plugin the user
\* removed is not installed again.
THEOREM ServicesChangeFilesAsAsked == ServicesSpec => FilesAsAsked
BY ServicesAreComponents, UndosAreAllOrNothing, ChangesAreKept, RemovedPluginsStayRemoved, PTL DEF FilesAsAsked

\* The conversation in the window agrees with the store whatever is loaded while
\* it streams: the view holds the selected task only, keeps a response that is
\* complete, and shows each segment once, as long as it streamed.
THEOREM ServicesKeepTheConversation == ServicesSpec => ConversationKept
BY ServicesAreComponents, TheViewIsKept, TheSegmentsAgree, PTL DEF ConversationKept

\* The next run of an automation is the next time of its schedule in its zone,
\* however often it is edited, paused, resumed or run, and an enabled schedule that
\* goes on has one.
THEOREM ServicesKeepTheSchedule == ServicesSpec => ScheduleKept
BY ServicesAreComponents, SchedulesAreKept, PTL DEF ScheduleKept

\* Whichever component runs, its variables keep their types.
THEOREM ServicesTypeCorrect == ServicesSpec => []ServicesTypeOK
<1>1. ServicesSpec =>
        /\ []AutoTypeOK /\ []SchedTypesOK /\ []ApprovalTypeOK /\ []AskTypeOK /\ []LinkTypeOK
        /\ []SendTypeOK /\ []CmdTypeOK /\ []AskerTypeOK
  BY ServicesAreComponents, AutoTypeCorrect, ScheduleTypeCorrect, ApprovalTypeCorrect, AskTypeCorrect,
     LinkTypeCorrect, SendTypeCorrect, CmdTypeCorrect, AskerTypeCorrect, PTL
<1>2. ServicesSpec =>
        /\ []QueueTypeOK /\ []RecordTypeOK /\ []DraftTypeOK /\ []AttachTypeOK /\ []StoredTypeOK
        /\ []CheckTypeOK /\ []PageTypeOK /\ []TreeTypeOK /\ []SecretsInv /\ []OsTypeOK /\ []StartTypeOK
  BY ServicesAreComponents, QueueTypeCorrect, RecordTypeCorrect, DraftTypeCorrect, AttachTypeCorrect,
     StoredTypeCorrect, CheckTypeCorrect, PageTypeCorrect, TreeTypeCorrect, EntriesAreKept, OsTypeCorrect,
     StartTypeCorrect, PTL
<1>3. ServicesSpec =>
        /\ []ViewTypeOK /\ []SegTypeOK /\ []ChatTypeOK /\ []VoiceTypeOK /\ []TerminalsTypeOK /\ []ApiTypeOK
  BY ServicesAreComponents, ViewTypeCorrect, SegTypeCorrect, ChatTypeCorrect, VoiceTypeCorrect,
     TerminalsTypeCorrect, ApiTypeCorrect, PTL
<1>4. ServicesSpec =>
        /\ []UpdateTypeOK /\ []InstallerTypeOK /\ []ReleaseTypeOK /\ []SpeechTypeOK /\ []HostTypeOK
        /\ []InstallTypeOK
  BY ServicesAreComponents, UpdateTypeCorrect, InstallerTypeCorrect, ReleaseTypeCorrect, SpeechTypeCorrect,
     HostTypeCorrect, InstallTypeCorrect, PTL
<1>5. /\ AutoTypeOK /\ SchedTypesOK /\ ApprovalTypeOK /\ AskTypeOK /\ LinkTypeOK /\ SendTypeOK /\ CmdTypeOK
      /\ AskerTypeOK
      /\ QueueTypeOK /\ RecordTypeOK /\ DraftTypeOK /\ AttachTypeOK /\ StoredTypeOK /\ CheckTypeOK
      /\ PageTypeOK /\ TreeTypeOK /\ SecretsInv /\ OsTypeOK /\ StartTypeOK
      /\ ViewTypeOK /\ SegTypeOK /\ ChatTypeOK /\ VoiceTypeOK /\ TerminalsTypeOK /\ ApiTypeOK
      /\ UpdateTypeOK /\ InstallerTypeOK /\ ReleaseTypeOK /\ SpeechTypeOK /\ HostTypeOK /\ InstallTypeOK
      => ServicesTypeOK
  <2>1. OsTypeOK /\ StartTypeOK /\ AskerTypeOK => AppTypeOK
    BY DEF OsTypeOK, StartTypeOK, AskerTypeOK, AppTypeOK
  <2> QED BY <2>1, PanelTypesOK DEF ServicesTypeOK
<1> QED BY <1>1, <1>2, <1>3, <1>4, <1>5, PTL
=============================================================================
