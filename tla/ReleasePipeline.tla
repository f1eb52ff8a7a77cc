-------------------------- MODULE ReleasePipeline ---------------------------
(***************************************************************************)
(* The releases: what the scripts package and download, and how an         *)
(* installed application updates itself.  The two share no state.          *)
(***************************************************************************)
EXTENDS Naturals, FiniteSets

-----------------------------------------------------------------------------
(***************************************************************************)
(* What an installer packages (scripts/): the guest image, built natively  *)
(* or in a container (prepare-wsl2-image.mjs) and reused when its metadata *)
(* fits; the speech runtime (prepare-speech-runtime.mjs); the installers   *)
(* (build-installers.mjs), and the download of released ones               *)
(* (download-release-artifacts.mjs). Any of these processes may be killed, *)
(* and a failure that calls process.exit skips the finally blocks.         *)
(***************************************************************************)

CONSTANTS
  MaxBuilds,     \* bound on the runs of the script in one checkout, one after the other
  Manifests,     \* contents of the dependency manifest
  Nothing,
  Targets,       \* artifacts of a release
  MaxChanges     \* bound on changes of the manifest

\* A file is not the one that stands for none.
ASSUME ReleaseAssumption ==
  /\ {MaxBuilds, MaxChanges} \subseteq Nat
  /\ Nothing \notin [by : 0..MaxBuilds, packages : Manifests, whole : BOOLEAN]

VARIABLES
  manifest, changes,
  image, partImage,   \* the output file and its .part: who wrote it, of which packages, and whether all of it
  metadata,      \* what the metadata names: the manifest and the checksum, which tells files apart
  distributions, \* build distributions that are registered, by this run or an earlier one
  build,         \* the run under way
  speech,        \* the executable and the manifest of the runtime
  released,      \* the downloads, and what the output directory has
  crossed        \* the manifest changed between two reads of a build

releaseVars == <<manifest, changes, image, partImage, metadata, distributions, build, speech, released, crossed>>

BuildRuns == 0..MaxBuilds
Written == {Nothing} \cup [by : BuildRuns, packages : Manifests, whole : BOOLEAN]
BuildPlaces == {"none", "hash", "check", "source", "cleanup", "install", "remove", "export", "rename",
                "checksum", "prepared"}

ReleaseTypeOK ==
  /\ manifest \in Manifests /\ changes \in 0..MaxChanges /\ crossed \in BOOLEAN
  /\ image \in Written /\ partImage \in Written
  /\ metadata \in {Nothing} \cup [manifest : Manifests, image : Written]
  /\ distributions \subseteq {"own", "earlier"}
  /\ build \in [number : BuildRuns, at : BuildPlaces, container : BOOLEAN, force : BOOLEAN,
               packages : Manifests, hash : Manifests]
  /\ speech \in [executable : {"none", "partial", "whole"}, manifest : BOOLEAN, run : {"none", "copy", "manifest"}]
  /\ released \in [Targets -> {"none", "archive", "extracted", "valid", "output", "refused"}]

ReleaseInit ==
  /\ manifest \in Manifests /\ changes = 0 /\ crossed = FALSE
  /\ image = Nothing /\ partImage = Nothing /\ metadata = Nothing /\ distributions = {}
  /\ \E container \in BOOLEAN :
       build = [number |-> 0, at |-> "none", container |-> container, force |-> FALSE,
                packages |-> manifest, hash |-> manifest]
  /\ speech = [executable |-> "none", manifest |-> FALSE, run |-> "none"]
  /\ released = [t \in Targets |-> "none"]

outputs == <<image, partImage, metadata>>
aside == <<manifest, changes, speech, released>>
Move(place) == build' = [build EXCEPT !.at = place]
BuildOver == build' = [build EXCEPT !.at = "none", !.force = FALSE, !.packages = manifest, !.hash = manifest]

-----------------------------------------------------------------------------
(* The guest image *)

\* The packages are read from the manifest, then its checksum is taken.
ReadGuestDependencies ==
  /\ \/ /\ build.at = "none" /\ build.number < MaxBuilds
        /\ \E force \in BOOLEAN :
             build' = [build EXCEPT !.number = @ + 1, !.at = "hash", !.force = force, !.packages = manifest]
        /\ distributions' = {d \in {"earlier"} : distributions # {}}
     \/ /\ build.at = "hash" /\ build' = [build EXCEPT !.at = "check", !.hash = manifest]
        /\ UNCHANGED distributions
  /\ UNCHANGED <<outputs, crossed, aside>>

\* Faulty variant of ReusableImage: the checksum of the image is not compared.
ReusableByManifest ==
  image # Nothing /\ metadata # Nothing /\ metadata.manifest = build.hash

\* reusableImage: both files, of this manifest, and the image the metadata names.
ReusableImage ==
  image # Nothing /\ metadata # Nothing /\ metadata.manifest = build.hash /\ metadata.image = image

CheckImage ==
  /\ build.at = "check"
  /\ Move(IF ~build.force /\ ReusableImage THEN "prepared" ELSE "source")
  /\ UNCHANGED <<outputs, distributions, crossed, aside>>

\* downloadAndVerify: the root file system, by its checksum, or the end of the script.
DownloadAndVerify ==
  /\ build.at = "source"
  /\ Move(IF build.container THEN "install" ELSE "cleanup") \/ BuildOver
  /\ UNCHANGED <<outputs, distributions, crossed, aside>>

\* A native build removes what dead ones left; a distribution whose removal
\* fails stays.
CleanupAbandonedBuildDistributions ==
  /\ build.at = "cleanup" /\ Move("install")
  /\ \E kept \in SUBSET distributions : distributions' = kept
  /\ UNCHANGED <<outputs, crossed, aside>>

\* Import and installation of the packages; a version that is not to be had
\* ends the process with the distribution still registered.
InstallGuest ==
  /\ build.at = "install"
  /\ \/ /\ Move(IF build.container THEN "export" ELSE "remove")
        /\ distributions' = IF build.container THEN distributions ELSE distributions \cup {"own"}
     \/ /\ BuildOver
        /\ \/ UNCHANGED distributions
           \/ ~build.container /\ distributions' = distributions \cup {"own"}
  /\ UNCHANGED <<outputs, crossed, aside>>

File(whole) == [by |-> build.number, packages |-> build.packages, whole |-> whole]

\* The export goes to the output file, which is removed first, or to its .part,
\* which takes the name of the output file after it.
ExportImage ==
  /\ \/ /\ build.at = "remove" /\ Move(IF build.container THEN "rename" ELSE "export")
        /\ image' = Nothing /\ UNCHANGED <<partImage, distributions>>
     \/ /\ build.at = "export" /\ build.container
        /\ IF partImage = File(FALSE) THEN partImage' = File(TRUE) /\ Move("remove")
           ELSE partImage' = File(FALSE) /\ UNCHANGED build
        /\ UNCHANGED <<image, distributions>>
     \/ /\ build.at = "export" /\ ~build.container
        /\ IF image = File(FALSE) THEN image' = File(TRUE) /\ Move("checksum")
           ELSE image' = File(FALSE) /\ UNCHANGED build
        /\ UNCHANGED <<partImage, distributions>>
     \/ /\ build.at = "rename" /\ Move("checksum")
        /\ image' = partImage /\ partImage' = Nothing /\ UNCHANGED distributions
     \/ /\ build.at \in {"export", "rename"} /\ BuildOver
        /\ partImage' = IF build.container THEN Nothing ELSE partImage
        /\ UNCHANGED image /\ distributions' = distributions \ {"own"}
  /\ UNCHANGED <<metadata, crossed, aside>>

\* The checksum of the output file, and the metadata last.
WriteMetadata ==
  /\ build.at = "checksum"
  /\ \/ Move("prepared") /\ metadata' = [manifest |-> build.hash, image |-> image]
     \/ BuildOver /\ UNCHANGED metadata
  /\ distributions' = distributions \ {"own"}
  /\ UNCHANGED <<image, partImage, crossed, aside>>

\* The rest of build-installers.mjs: bundles and installers are made of it.
MakeInstallers ==
  /\ build.at = "prepared" /\ BuildOver
  /\ UNCHANGED <<outputs, distributions, crossed, aside>>

\* The process is killed; a signal it handles unregisters its distribution.
KillBuild ==
  /\ build.at # "none" /\ BuildOver
  /\ \E lost \in SUBSET {"own"} : distributions' = distributions \ lost
  /\ UNCHANGED <<outputs, crossed, aside>>

ChangeManifest ==
  /\ changes < MaxChanges /\ changes' = changes + 1
  /\ \E m \in Manifests \ {manifest} : manifest' = m
  /\ crossed' = (crossed \/ build.at = "hash")
  /\ UNCHANGED <<outputs, distributions, build, speech, released>>

-----------------------------------------------------------------------------
(* The speech runtime, and downloaded releases *)

\* prepareRuntime: taken as it is when the executable and its manifest are there
\* (the resource manifest alone is rewritten); otherwise removed, copied, and
\* its manifest written last. The process may end between any two.
PrepareRuntime ==
  /\ \/ /\ speech.run = "none" /\ ~(speech.executable # "none" /\ speech.manifest)
        /\ speech' = [executable |-> "none", manifest |-> FALSE, run |-> "copy"]
     \/ /\ speech.run = "copy"
        /\ \/ speech' = [speech EXCEPT !.executable = "partial"]
           \/ speech' = [speech EXCEPT !.executable = "whole", !.run = "manifest"]
           \/ speech' = [speech EXCEPT !.run = "none"]
     \/ /\ speech.run = "manifest"
        /\ \E written \in BOOLEAN : speech' = [speech EXCEPT !.manifest = written, !.run = "none"]
  /\ UNCHANGED <<manifest, changes, outputs, distributions, build, released, crossed>>

\* downloadArtifact, one target after the other: archive, extraction, manifest,
\* and the move into the output directory, which is refused when it is taken. A
\* failure ends the script; the next run begins with the first target.
DownloadArtifact(t) ==
  /\ \A k \in Targets \ {t} : released[k] \in {"none", "output"}
  /\ \/ released[t] = "none" /\ released' = [released EXCEPT ![t] = "archive"]
     \/ released[t] = "archive" /\ \E next \in {"extracted", "none"} : released' = [released EXCEPT ![t] = next]
     \/ released[t] = "extracted" /\ \E next \in {"valid", "none"} : released' = [released EXCEPT ![t] = next]
     \/ released[t] = "valid" /\ released' = [released EXCEPT ![t] = "output"]
     \/ /\ released[t] = "output" /\ \E k \in Targets : released[k] = "none"
        /\ released' = [released EXCEPT ![t] = "refused"]
  /\ UNCHANGED <<manifest, changes, outputs, distributions, build, speech, crossed>>

ImageStep ==
  \/ ReadGuestDependencies \/ CheckImage \/ DownloadAndVerify
  \/ CleanupAbandonedBuildDistributions \/ InstallGuest \/ ExportImage
  \/ WriteMetadata \/ MakeInstallers \/ KillBuild \/ ChangeManifest

\* The scripts share nothing: a behaviour runs one of them.
ReleaseNext ==
  \/ speech.executable = "none" /\ (\A t \in Targets : released[t] = "none") /\ ImageStep
  \/ build.number = 0 /\ (\A t \in Targets : released[t] = "none") /\ PrepareRuntime
  \/ build.number = 0 /\ speech.executable = "none" /\ \E t \in Targets : DownloadArtifact(t)

ReleaseSpec == ReleaseInit /\ [][ReleaseNext]_releaseVars

-----------------------------------------------------------------------------
\* What is packaged is whole and of the manifest that was asked for, whether it
\* was built or taken as "already prepared", however the builds before it ended,
\* unless the manifest is written between its two reads. A speech runtime that
\* is taken as it is is whole.
PackagedIsCurrent ==
  /\ build.at = "prepared" /\ ~crossed =>
       image # Nothing /\ image.whole /\ image.packages = build.hash
  /\ speech.manifest => speech.executable = "whole"

-----------------------------------------------------------------------------
(***************************************************************************)
(* build-installers.mjs itself: what it finds in the checkout and in       *)
(* .tools, left by earlier runs that may have ended anywhere, and what it  *)
(* leaves under out/make.                                                  *)
(***************************************************************************)
VARIABLES
  installer,  \* the run of the script
  toolchain,      \* node_modules, the Electron runtime, and the WiX files extracted
  outMade,    \* artifacts under out/make
  releaseList \* release-manifest.json

installerVars == <<installer, toolchain, outMade, releaseList>>

WixFiles == {"candle", "light", "library"}
InstallerKinds == {"msi", "zip"}
MadeFiles == [by : BuildRuns, arch : {"x64", "arm64"}, kind : InstallerKinds]
Stages == <<"modules", "forge", "electron", "cli", "wix", "extract", "validate", "stage", "image",
            "clear", "bundle", "make", "list">>

InstallerTypeOK ==
  /\ installer \in [number : BuildRuns, at : {"over"} \cup {Stages[i] : i \in DOMAIN Stages},
                    arch : {"x64", "arm64"}, skipInstall : BOOLEAN, wixOnPath : BOOLEAN]
  /\ toolchain \in [modules : {"none", "part", "whole"}, electron : BOOLEAN, wix : SUBSET WixFiles]
  /\ outMade \subseteq MadeFiles
  /\ releaseList \in {Nothing} \cup [by : BuildRuns, lists : SUBSET MadeFiles]

InstallerInit ==
  /\ \E found \in BOOLEAN : installer = [number |-> 0, at |-> "over", arch |-> "x64",
                                         skipInstall |-> FALSE, wixOnPath |-> found]
  /\ toolchain = [modules |-> "none", electron |-> FALSE, wix |-> {}]
  /\ outMade = {} /\ releaseList = Nothing

\* fail(), a script that fails, or a kill: the process ends where it is.
InstallerOver == installer' = [installer EXCEPT !.at = "over"]
ToStage(stage) == installer' = [installer EXCEPT !.at = stage]
AtStage(stage) == installer.at = stage

StartInstaller ==
  /\ AtStage("over") /\ installer.number < MaxBuilds
  /\ \E arch \in {"x64", "arm64"}, skip \in BOOLEAN :
       installer' = [installer EXCEPT !.number = @ + 1, !.at = "modules", !.arch = arch, !.skipInstall = skip]
  /\ UNCHANGED <<toolchain, outMade, releaseList>>

StopInstaller == ~AtStage("over") /\ InstallerOver /\ UNCHANGED <<toolchain, outMade, releaseList>>

\* npm ci, where there is no node_modules directory: one that ends halfway
\* leaves a part, which later runs take as it is.
InstallModules ==
  /\ AtStage("modules")
  /\ IF installer.skipInstall \/ toolchain.modules # "none" THEN ToStage("forge") /\ UNCHANGED toolchain
     ELSE \/ ToStage("forge") /\ toolchain' = [toolchain EXCEPT !.modules = "whole"]
          \/ InstallerOver /\ toolchain' = [toolchain EXCEPT !.modules = "part"]
  /\ UNCHANGED <<outMade, releaseList>>

HasForgeBinary ==
  /\ AtStage("forge") /\ toolchain.modules # "none"
  /\ ToStage("electron") /\ UNCHANGED <<toolchain, outMade, releaseList>>

\* install.js of Electron writes path.txt last: what is there is whole.
EnsureElectronRuntime ==
  /\ AtStage("electron")
  /\ ToStage("cli") /\ toolchain' = [toolchain EXCEPT !.electron = TRUE]
  /\ UNCHANGED <<outMade, releaseList>>

\* prepareWindowsWix: two files stand for the toolset.
PrepareWix ==
  /\ AtStage("cli") \/ AtStage("wix")
  /\ ToStage(IF AtStage("cli") THEN "wix"
        ELSE IF installer.wixOnPath \/ {"candle", "light"} \subseteq toolchain.wix THEN "validate" ELSE "extract")
  /\ UNCHANGED <<toolchain, outMade, releaseList>>

\* Expand-Archive of an archive whose hash was right, file by file.
ExtractWix ==
  /\ AtStage("extract")
  /\ IF toolchain.wix = WixFiles THEN ToStage("validate") /\ UNCHANGED toolchain
     ELSE \E f \in WixFiles \ toolchain.wix :
            toolchain' = [toolchain EXCEPT !.wix = @ \cup {f}] /\ UNCHANGED installer
  /\ UNCHANGED <<outMade, releaseList>>

\* The scripts that npm runs in turn, each of which may fail.
RunNpm ==
  /\ \E i \in {"validate", "stage", "image", "bundle"} :
       AtStage(i) /\ ToStage(CHOOSE s \in {"stage", "image", "clear", "make"} :
                     \E k \in DOMAIN Stages : Stages[k] = i /\ Stages[k + 1] = s)
  /\ UNCHANGED <<toolchain, outMade, releaseList>>

\* Faulty variant of ClearOutput: what earlier runs made is kept.
ClearNothing == AtStage("clear") /\ ToStage("bundle") /\ UNCHANGED <<toolchain, outMade, releaseList>>

\* The output of earlier runs goes, their release manifest with it.
ClearOutput ==
  /\ AtStage("clear") /\ ToStage("bundle")
  /\ outMade' = {} /\ releaseList' = Nothing /\ UNCHANGED toolchain

\* electron-forge make, artifact by artifact; a toolset in parts makes nothing.
MakeArtifacts ==
  /\ AtStage("make") /\ toolchain.modules = "whole" /\ (installer.wixOnPath \/ toolchain.wix = WixFiles)
  /\ \/ \E k \in InstallerKinds :
          outMade' = outMade \cup {[by |-> installer.number, arch |-> installer.arch, kind |-> k]}
          /\ UNCHANGED installer
     \/ (\A k \in InstallerKinds : \E a \in outMade : a.by = installer.number /\ a.kind = k)
        /\ ToStage("list") /\ UNCHANGED outMade
  /\ UNCHANGED <<toolchain, releaseList>>

\* printArtifacts: all installers found under out/make, with their hashes.
PrintArtifacts ==
  /\ AtStage("list") /\ outMade # {}
  /\ releaseList' = [by |-> installer.number, lists |-> outMade] /\ InstallerOver
  /\ UNCHANGED <<toolchain, outMade>>

InstallerNext ==
  \/ StartInstaller \/ StopInstaller \/ InstallModules \/ HasForgeBinary \/ EnsureElectronRuntime
  \/ PrepareWix \/ ExtractWix \/ RunNpm \/ ClearOutput \/ MakeArtifacts \/ PrintArtifacts

InstallerSpec == InstallerInit /\ [][InstallerNext]_installerVars

-----------------------------------------------------------------------------
\* A release manifest lists the whole output of one run, for one architecture,
\* and it is gone before the output of another run takes its place.
ListedIsOfOneRun ==
  releaseList # Nothing =>
    /\ releaseList.lists = outMade
    /\ {a.kind : a \in outMade} = InstallerKinds
    /\ \A a, b \in outMade : a.by = releaseList.by /\ a.arch = b.arch

-----------------------------------------------------------------------------
(***************************************************************************)
(* Application updates (src/main/updates/desktop-update-service.ts): a     *)
(* check, a download of the installer that is verified while it streams,   *)
(* and its installation. They share the published snapshot; the file       *)
(* names are random, so that a download has a file of its own.             *)
(***************************************************************************)

CONSTANTS
  Assets,       \* installers a release may name
  NoAsset,
  MaxAttempts,  \* MAX_DOWNLOAD_ATTEMPTS
  MaxUpdates    \* bound on the checks, and on the downloads

ASSUME UpdateAssumption ==
  NoAsset \notin Assets /\ {MaxAttempts, MaxUpdates} \subseteq Nat \ {0}

VARIABLES
  snapshot,     \* phase and asset of the published state
  checking,     \* checkOperation
  download,     \* downloadOperation: where it is, its asset, its attempt, whether it is aborted
  downloaded,   \* downloadedPath: its asset, and what is there
  installing,   \* install() between its guard and the launch of the installer
  made          \* checks and downloads so far

updateVars == <<snapshot, checking, download, downloaded, installing, made>>

Phases == {"disabled", "checking", "up-to-date", "unavailable", "available",
           "downloading", "ready", "installing", "error"}
Idle == [at |-> "none", asset |-> NoAsset, attempt |-> 0, aborted |-> FALSE]

UpdateTypeOK ==
  /\ snapshot \in [phase : Phases, asset : Assets \cup {NoAsset}]
  /\ checking \in BOOLEAN /\ installing \in BOOLEAN
  /\ download \in [at : {"none", "preparing", "streaming", "waiting"}, asset : Assets \cup {NoAsset},
                   attempt : 0..MaxAttempts, aborted : BOOLEAN]
  /\ downloaded \in [asset : Assets \cup {NoAsset}, holds : {"none", "good", "bad"}]
  /\ made \in [checks : 0..MaxUpdates, downloads : 0..MaxUpdates]

UpdateInit ==
  /\ snapshot = [phase |-> "disabled", asset |-> NoAsset]
  /\ checking = FALSE /\ installing = FALSE /\ download = Idle
  /\ downloaded = [asset |-> NoAsset, holds |-> "none"]
  /\ made = [checks |-> 0, downloads |-> 0]

Publish(phase, asset) == snapshot' = [phase |-> phase, asset |-> asset]

\* check: one at a time.
Check ==
  /\ ~checking /\ made.checks < MaxUpdates
  /\ checking' = TRUE /\ made' = [made EXCEPT !.checks = @ + 1]
  /\ Publish("checking", NoAsset)
  /\ UNCHANGED <<download, downloaded, installing>>

\* performCheck ends, whatever was published meanwhile: no release, an
\* installer for this device or none, or an error.
CheckEnds ==
  /\ checking /\ checking' = FALSE
  /\ \/ \E phase \in {"up-to-date", "unavailable"}, asset \in Assets \cup {NoAsset} : Publish(phase, asset)
     \/ \E asset \in Assets : Publish("available", asset)
     \/ Publish("error", NoAsset)
  /\ UNCHANGED <<download, downloaded, installing, made>>

\* download: the operation is kept before it awaits.
Download ==
  /\ download.at = "none" /\ snapshot.phase = "available" /\ snapshot.asset # NoAsset
  /\ made.downloads < MaxUpdates /\ made' = [made EXCEPT !.downloads = @ + 1]
  /\ download' = [Idle EXCEPT !.at = "preparing", !.asset = snapshot.asset]
  /\ UNCHANGED <<snapshot, checking, downloaded, installing>>

\* The directory is there and what earlier downloads left in it is removed; a
\* failure here is published to nobody.
Prepared ==
  /\ download.at = "preparing"
  /\ \/ /\ download' = [download EXCEPT !.at = "streaming", !.attempt = 1]
        /\ downloaded' = [downloaded EXCEPT !.holds = "none"]
        /\ Publish("downloading", snapshot.asset)
     \/ download' = Idle /\ UNCHANGED <<downloaded, snapshot>>
  /\ UNCHANGED <<checking, installing, made>>

\* Faulty variant of DownloadOnce: what was received is complete, whatever it is.
DownloadUnverified(received) == received # "none"

\* downloadOnce accepts what it received: the declared size, checksum and signature.
DownloadOnce(received) == received = "good"

\* The .part file, which each attempt writes anew, gets the name of the download.
Ready(received) ==
  /\ downloaded' = [asset |-> download.asset, holds |-> received]
  /\ Publish("ready", download.asset)
  /\ download' = Idle

\* The end of performDownload without a file.
Failed ==
  /\ Publish("available", snapshot.asset)
  /\ download' = Idle /\ UNCHANGED downloaded

\* An attempt ends: a verified file, one that is not, or an error of the
\* connection, after which it is tried again.
AttemptEnds ==
  /\ download.at = "streaming"
  /\ \E received \in {"none", "good", "bad"} :
       \/ ~download.aborted /\ DownloadOnce(received) /\ Ready(received)
       \/ /\ ~DownloadOnce(received) \/ download.aborted
          /\ download.aborted \/ received = "bad" \/ download.attempt = MaxAttempts
          /\ Failed
       \/ /\ received = "none" /\ ~download.aborted /\ download.attempt < MaxAttempts
          /\ download' = [download EXCEPT !.at = "waiting"]
          /\ UNCHANGED <<downloaded, snapshot>>
  /\ UNCHANGED <<checking, installing, made>>

\* The delay before the next attempt is over, or rejected by the signal.
DelayEnds ==
  /\ download.at = "waiting"
  /\ IF download.aborted THEN Failed
     ELSE /\ download' = [download EXCEPT !.at = "streaming", !.attempt = @ + 1]
          /\ UNCHANGED <<downloaded, snapshot>>
  /\ UNCHANGED <<checking, installing, made>>

CancelDownload ==
  /\ download.at # "none" /\ ~download.aborted
  /\ download' = [download EXCEPT !.aborted = TRUE]
  /\ UNCHANGED <<snapshot, checking, downloaded, installing, made>>

\* install: its guard, then the mode of an AppImage, which is awaited.
Install ==
  /\ ~installing
  /\ snapshot.phase = "ready" /\ downloaded.asset = snapshot.asset
  /\ installing' = TRUE
  /\ UNCHANGED <<snapshot, checking, download, downloaded, made>>

\* The installer is opened; the application quits, or the opening has failed.
Open ==
  /\ installing /\ installing' = FALSE
  /\ \E phase \in {"installing", "error"} : Publish(phase, snapshot.asset)
  /\ UNCHANGED <<checking, download, downloaded, made>>

UpdateNext ==
  \/ Check \/ CheckEnds \/ Download \/ Prepared \/ AttemptEnds \/ DelayEnds
  \/ CancelDownload \/ Install \/ Open

UpdateSpec == UpdateInit /\ [][UpdateNext]_updateVars

-----------------------------------------------------------------------------
\* What is offered for installation is on the disk, verified, and of the
\* asset that is shown, whatever checks, downloads and cancellations came
\* before or are under way.
ReadyIsVerified ==
  snapshot.phase = "ready" =>
    downloaded.holds = "good" /\ downloaded.asset = snapshot.asset /\ download.at = "none"
=============================================================================
