----------------------------- MODULE StoredFiles -----------------------------
(***************************************************************************)
(* What users keep in JSON files: the artifacts of a task, whose bytes are *)
(* files of their own (src/main/artifacts/artifact-service.ts), and the    *)
(* workspaces (src/main/workspaces/workspace-registry.ts). Each JSON file  *)
(* has one JsonFileStore, whose updates form a chain.                      *)
(***************************************************************************)
EXTENDS Naturals, SequencesExt

CONSTANTS
  StoreJobs,         \* calls of the two services
  Artifacts,    \* identifiers, each with a random file name of its own
  Roots,        \* canonical directories
  MaxStoreFaults     \* bound on failures of the disk, and on restarts

ASSUME StoredAssumption ==
  /\ Artifacts # {} /\ Roots # {}
  /\ MaxStoreFaults \in Nat

VARIABLES
  records,      \* artifacts.json: state and size, by identifier
  onDisk,        \* the size of the file of an artifact, 0 when there is none
  workspaces,   \* workspaces.json
  chain,        \* writeChain of each store
  jobs,         \* the calls
  storeFaults

storedVars == <<records, onDisk, workspaces, chain, jobs, storeFaults>>

Kinds == {"import", "create", "replace", "delete", "add", "trust", "remove"}
StoreOf(kind) == IF kind \in {"add", "trust", "remove"} THEN "workspaces" ELSE "artifacts"
Places == {"new", "copying", "renaming", "configuring", "queued", "holding", "unlinking", "done", "failed"}
StoreContents == [artifacts : [Artifacts -> [state : {"none", "active", "deleted"}, size : 0..2]],
           workspaces : SUBSET [id : StoreJobs \cup Roots, root : Roots, trusted : BOOLEAN]]
OnDisk == [artifacts |-> records, workspaces |-> workspaces]

StoredTypeOK ==
  /\ OnDisk \in StoreContents /\ onDisk \in [Artifacts -> 0..2]
  /\ \A s \in DOMAIN chain : chain[s] \in Seq(StoreJobs)
  /\ \A j \in StoreJobs :
       /\ jobs[j].at \in Places /\ jobs[j].kind \in Kinds /\ jobs[j].size \in 0..2
       /\ jobs[j].artifact \in Artifacts /\ jobs[j].root \in Roots
       /\ jobs[j].id \in StoreJobs \cup Roots /\ jobs[j].read \in StoreContents
  /\ storeFaults \in 0..MaxStoreFaults

StoredInit ==
  /\ \E kept \in SUBSET Artifacts :
       /\ onDisk = [a \in Artifacts |-> IF a \in kept THEN 1 ELSE 0]
       /\ records = [a \in Artifacts |-> IF a \in kept THEN [state |-> "active", size |-> 1]
                                         ELSE [state |-> "none", size |-> 0]]
  /\ workspaces \in SUBSET [id : Roots, root : Roots, trusted : {FALSE}]
  /\ \A w \in workspaces : w.id = w.root
  /\ storeFaults = 0
  /\ chain = [s \in {"artifacts", "workspaces"} |-> <<>>]
  /\ jobs = [j \in StoreJobs |-> [kind |-> "import", at |-> "new", artifact |-> CHOOSE a \in Artifacts : TRUE,
                             root |-> CHOOSE r \in Roots : TRUE, id |-> j, size |-> 0, read |-> OnDisk]]

At(j, place) == jobs' = [jobs EXCEPT ![j].at = place]
StoreFault == storeFaults < MaxStoreFaults /\ storeFaults' = storeFaults + 1

\* enqueue of JsonFileStore, by the call j that goes on to its update.
Enqueue(j, job) ==
  /\ chain' = [chain EXCEPT ![StoreOf(job.kind)] = Append(@, j)]
  /\ jobs' = [jobs EXCEPT ![j] = [job EXCEPT !.at = "queued"]]

-----------------------------------------------------------------------------
(* The calls, up to their update *)

\* importFile, createText and createBytes, under a new name.
NewArtifact(j, a) ==
  /\ records[a].state = "none" /\ onDisk[a] = 0
  /\ \A k \in StoreJobs : jobs[k].at = "new" \/ jobs[k].artifact # a \/ StoreOf(jobs[k].kind) = "workspaces"
  /\ \E kind \in {"import", "create"} :
       jobs' = [jobs EXCEPT ![j] = [jobs[j] EXCEPT !.kind = kind, !.at = "copying", !.artifact = a, !.size = 1]]
  /\ UNCHANGED chain

\* replaceFile, once requireActive has read the records.
ReplaceFile(j, a) ==
  /\ records[a].state = "active"
  /\ jobs' = [jobs EXCEPT ![j] = [jobs[j] EXCEPT !.kind = "replace", !.at = "copying", !.artifact = a, !.size = 2]]
  /\ UNCHANGED chain

DeleteArtifact(j, a) == Enqueue(j, [jobs[j] EXCEPT !.kind = "delete", !.artifact = a])

\* add and remove of a workspace; trust, which first writes the project's own
\* configuration.
AddWorkspace(j, r) == Enqueue(j, [jobs[j] EXCEPT !.kind = "add", !.root = r])
RemoveWorkspace(j, w) == Enqueue(j, [jobs[j] EXCEPT !.kind = "remove", !.id = w.id])
TrustWorkspace(j, w) ==
  /\ jobs' = [jobs EXCEPT ![j] = [jobs[j] EXCEPT !.kind = "trust", !.at = "configuring", !.id = w.id]]
  /\ UNCHANGED chain

ArtifactCall(j) ==
  /\ jobs[j].at = "new"
  /\ \/ \E a \in Artifacts : NewArtifact(j, a) \/ ReplaceFile(j, a) \/ DeleteArtifact(j, a)
     \/ \E r \in Roots : AddWorkspace(j, r)
     \/ \E w \in workspaces : RemoveWorkspace(j, w) \/ TrustWorkspace(j, w)
  /\ UNCHANGED <<records, onDisk, workspaces, storeFaults>>

\* The bytes are written: for a replacement beside the file. A failed import
\* takes its own away again, a failed creation does not.
Copy(j) ==
  LET a == jobs[j].artifact IN
  /\ jobs[j].at = "copying"
  /\ \/ /\ jobs[j].kind = "replace" /\ At(j, "renaming")
        /\ UNCHANGED <<onDisk, chain, storeFaults>>
     \/ /\ jobs[j].kind # "replace" /\ onDisk' = [onDisk EXCEPT ![a] = jobs[j].size]
        /\ Enqueue(j, jobs[j]) /\ UNCHANGED storeFaults
     \/ /\ StoreFault /\ At(j, "failed") /\ UNCHANGED chain
        /\ \/ UNCHANGED onDisk
           \/ jobs[j].kind = "create" /\ onDisk' = [onDisk EXCEPT ![a] = jobs[j].size]
  /\ UNCHANGED <<records, workspaces>>

RenameCopy(j) ==
  /\ jobs[j].at = "renaming"
  /\ \/ onDisk' = [onDisk EXCEPT ![jobs[j].artifact] = jobs[j].size] /\ Enqueue(j, jobs[j]) /\ UNCHANGED storeFaults
     \/ StoreFault /\ At(j, "failed") /\ UNCHANGED <<onDisk, chain>>
  /\ UNCHANGED <<records, workspaces>>

EnsureProjectConfig(j) ==
  /\ jobs[j].at = "configuring"
  /\ \/ Enqueue(j, jobs[j]) /\ UNCHANGED storeFaults
     \/ StoreFault /\ At(j, "failed") /\ UNCHANGED chain
  /\ UNCHANGED <<records, onDisk, workspaces>>

-----------------------------------------------------------------------------
(* An update of a store: read, mutate, write and rename *)

\* An update that has thrown; an import takes its file away.
Throw(j) ==
  /\ At(j, "failed")
  /\ chain' = [chain EXCEPT ![StoreOf(jobs[j].kind)] = RemoveFirst(@, j)]
  /\ onDisk' = IF jobs[j].kind = "import" THEN [onDisk EXCEPT ![jobs[j].artifact] = 0] ELSE onDisk
  /\ UNCHANGED <<records, workspaces>>

\* Faulty variant of InTurn: an update does not wait for the one before it.
OutOfTurn(j) == TRUE

\* An operation of the chain runs when those before it have settled.
InTurn(j) == j = Head(chain[StoreOf(jobs[j].kind)])

ReadFromDisk(j) ==
  /\ jobs[j].at = "queued" /\ InTurn(j)
  /\ \/ /\ jobs' = [jobs EXCEPT ![j].at = "holding", ![j].read = OnDisk]
        /\ UNCHANGED <<records, onDisk, workspaces, chain, storeFaults>>
     \/ StoreFault /\ Throw(j)

\* What the mutator of the call makes of what was read.
Mutated(job, read) ==
  LET a == job.artifact
      active == read.artifacts[a].state = "active"
      here == {w \in read.workspaces : w.id = job.id} IN
  CASE job.kind \in {"import", "create"} ->
         [read EXCEPT !.artifacts[a] = [state |-> "active", size |-> job.size]]
    [] job.kind = "replace" -> IF active THEN [read EXCEPT !.artifacts[a].size = job.size] ELSE read
    [] job.kind = "delete" -> [read EXCEPT !.artifacts[a].state = "deleted"]
    [] job.kind = "trust" -> [read EXCEPT !.workspaces = (@ \ here) \cup {[w EXCEPT !.trusted = TRUE] : w \in here}]
    [] job.kind = "remove" -> [read EXCEPT !.workspaces = @ \ here]
    [] OTHER -> read

\* The mutator throws, or the call does, on what is not there (any more).
Missing(job, read) ==
  \/ job.kind \in {"delete", "replace"} /\ read.artifacts[job.artifact].state # "active"
  \/ job.kind = "trust" /\ \A w \in read.workspaces : w.id # job.id

\* add keeps the workspace that has the root already.
Added(j, read) ==
  IF jobs[j].kind = "add" /\ \A w \in read.workspaces : w.root # jobs[j].root
  THEN [read EXCEPT !.workspaces = @ \cup {[id |-> j, root |-> jobs[j].root, trusted |-> FALSE]}]
  ELSE Mutated(jobs[j], read)

WriteToDisk(j) ==
  LET s == StoreOf(jobs[j].kind)
      next == Added(j, jobs[j].read) IN
  /\ jobs[j].at = "holding"
  /\ \/ /\ ~Missing(jobs[j], jobs[j].read)
        /\ IF s = "artifacts" THEN records' = next.artifacts /\ UNCHANGED workspaces
           ELSE workspaces' = next.workspaces /\ UNCHANGED records
        /\ chain' = [chain EXCEPT ![s] = RemoveFirst(@, j)]
        /\ At(j, IF jobs[j].kind = "delete" THEN "unlinking" ELSE "done")
        /\ UNCHANGED <<onDisk, storeFaults>>
     \/ Missing(jobs[j], jobs[j].read) /\ Throw(j) /\ UNCHANGED storeFaults
     \/ StoreFault /\ Throw(j)

\* delete takes the file away last; a failure is passed over.
Unlink(j) ==
  /\ jobs[j].at = "unlinking" /\ At(j, "done")
  /\ \/ onDisk' = [onDisk EXCEPT ![jobs[j].artifact] = 0] /\ UNCHANGED storeFaults
     \/ StoreFault /\ UNCHANGED onDisk
  /\ UNCHANGED <<records, workspaces, chain>>

\* The application ends and starts again; the files are as they were.
RestartStores ==
  /\ StoreFault
  /\ jobs' = [j \in StoreJobs |-> IF jobs[j].at \in {"new", "done"} THEN jobs[j]
                                  ELSE [jobs[j] EXCEPT !.at = "failed"]]
  /\ chain' = [s \in DOMAIN chain |-> <<>>]
  /\ UNCHANGED <<records, onDisk, workspaces>>

StoredNext ==
  \/ \E j \in StoreJobs :
       \/ ArtifactCall(j) \/ Copy(j) \/ RenameCopy(j) \/ EnsureProjectConfig(j)
       \/ ReadFromDisk(j) \/ WriteToDisk(j) \/ Unlink(j)
  \/ RestartStores

StoredSpec == StoredInit /\ [][StoredNext]_storedVars

-----------------------------------------------------------------------------
Ran(kind, a) ==
  \E j \in StoreJobs : jobs[j].kind = kind /\ jobs[j].at \notin {"new", "queued"} /\ jobs[j].artifact = a

\* What is kept stays kept, over failures and restarts: the file of an artifact
\* that is listed is there, and when all calls have ended without a failure a
\* file that is there is listed, with its size, unless a replacement met the
\* deletion of the artifact; no update is lost to another; and a directory is
\* one workspace however often it is added.
StoredKept ==
  /\ \A a \in Artifacts :
       /\ records[a].state = "active" => onDisk[a] # 0
       /\ storeFaults = 0 /\ (\A j \in StoreJobs : jobs[j].at \in {"new", "done", "failed"})
            /\ ~(Ran("replace", a) /\ Ran("delete", a))
          => onDisk[a] = IF records[a].state = "active" THEN records[a].size ELSE 0
  /\ \A j \in StoreJobs : jobs[j].at = "done" =>
       /\ jobs[j].kind \in {"import", "create"} => records[jobs[j].artifact].state # "none"
       /\ jobs[j].kind = "delete" => records[jobs[j].artifact].state = "deleted"
       /\ jobs[j].kind = "add" =>
            \/ \E w \in workspaces : w.root = jobs[j].root
            \/ \E k \in StoreJobs : jobs[k].kind = "remove" /\ jobs[k].at = "done"
  /\ \A w, v \in workspaces : w.root = v.root => w = v
=============================================================================
