----------------------------- MODULE GuestRunner -----------------------------
(***************************************************************************)
(* The service inside a guest (resources/sandbox/guest-runner.py). It      *)
(* serves one request at a time: a write into the workspace, or a command, *)
(* whose process may have a descendant in its process group. Either may    *)
(* ignore SIGTERM, and either keeps the pipes open while it holds them.    *)
(* Sizes are small numbers: Limit bytes of output, Disk of workspace.      *)
(***************************************************************************)
EXTENDS Naturals

CONSTANTS MaxOut,      \* maxOutputBytes
          PipeChunk,   \* bytes a process writes at once
          DiskLimit,   \* diskMb
          MaxAsks,     \* bound on the requests
          Preparations,  \* runs of --prepare-python on one venv
          Wheels, PyVersions, NoVersion,  \* packages and their versions
          WheelsOf     \* the versions a preparation asks for

ASSUME RunnerAssumption ==
  /\ {MaxOut, PipeChunk, DiskLimit, MaxAsks} \subseteq Nat \ {0}
  /\ \A r \in Preparations : \A w \in DOMAIN WheelsOf[r] : w \in Wheels /\ WheelsOf[r][w] \in PyVersions

VARIABLES
  serving,   \* "idle", "command", "cleaning"
  members,   \* "child" and "kid": state, holds the pipes, ignores SIGTERM
  inPipe,    \* bytes nobody has read
  collected, \* bytes of the output
  disk,      \* size of the workspace
  verdict,   \* why collect_output returned
  asksLeft

runnerVars == <<serving, members, inPipe, collected, disk, verdict, asksLeft>>

Limits == {"timedOut", "diskLimitExceeded", "processLimitExceeded", "truncated"}
NotStarted == [state |-> "none", holds |-> FALSE, ignores |-> FALSE]

RunnerTypeOK ==
  /\ serving \in {"idle", "command", "cleaning"}
  /\ members \in [{"child", "kid"} -> [state : {"none", "running", "gone"}, holds : BOOLEAN, ignores : BOOLEAN]]
  /\ inPipe \in 0..PipeChunk /\ collected \in 0..MaxOut
  /\ disk \in 0..(DiskLimit + 1)
  /\ verdict \in Limits \cup {"none", "closed", "refused", "written"} /\ asksLeft \in 0..MaxAsks

RunnerInit ==
  /\ serving = "idle" /\ members = [m \in {"child", "kid"} |-> NotStarted]
  /\ inPipe = 0 /\ collected = 0 /\ disk = 0 /\ verdict = "none" /\ asksLeft = MaxAsks

Running(m) == members[m].state = "running"
Held == \E m \in {"child", "kid"} : Running(m) /\ members[m].holds

\* ensure_disk_budget compares at each file it finds: never in an empty
\* workspace.
DiskExceeded(delta) == disk > 0 /\ disk + delta > DiskLimit

\* A request that fails its authentication, its parameters or its policy.
Refuse ==
  /\ serving = "idle" /\ asksLeft > 0
  /\ asksLeft' = asksLeft - 1 /\ verdict' = "refused"
  /\ UNCHANGED <<serving, members, inPipe, collected, disk>>

\* filesystem.write, through a temporary file.
Write ==
  /\ serving = "idle" /\ asksLeft > 0
  /\ asksLeft' = asksLeft - 1
  /\ \E delta \in 0..1 :
       IF DiskExceeded(delta) THEN verdict' = "refused" /\ UNCHANGED disk
       ELSE verdict' = "written" /\ disk' = disk + delta
  /\ disk' <= DiskLimit + 1
  /\ UNCHANGED <<serving, members, inPipe, collected>>

\* shell.exec: the child leads a group of its own. The next command waits here
\* until nothing of the one before runs: the model follows one group only.
Exec ==
  /\ serving = "idle" /\ asksLeft > 0 /\ \A m \in {"child", "kid"} : ~Running(m)
  /\ asksLeft' = asksLeft - 1
  /\ \E i \in BOOLEAN :
       members' = [m \in {"child", "kid"} |->
                     IF m = "child" THEN [state |-> "running", holds |-> TRUE, ignores |-> i] ELSE NotStarted]
  /\ serving' = "command" /\ inPipe' = 0 /\ collected' = 0 /\ verdict' = "none"
  /\ UNCHANGED disk

\* What the processes of the command do meanwhile, also after its answer.
Fork ==
  /\ Running("child") /\ members["kid"].state = "none"
  /\ \E h, i \in BOOLEAN :
       members' = [members EXCEPT !["kid"] = [state |-> "running", holds |-> h /\ members["child"].holds,
                                              ignores |-> i]]
  /\ UNCHANGED <<serving, inPipe, collected, disk, verdict, asksLeft>>

Depart(m) ==
  /\ Running(m)
  /\ \/ members' = [members EXCEPT ![m].state = "gone"]
     \/ members[m].holds /\ members' = [members EXCEPT ![m].holds = FALSE]
  /\ UNCHANGED <<serving, inPipe, collected, disk, verdict, asksLeft>>

Produce(m) ==
  /\ Running(m)
  /\ \/ members[m].holds /\ serving = "command" /\ inPipe = 0
        /\ inPipe' = PipeChunk /\ UNCHANGED disk
     \/ disk <= DiskLimit /\ disk' = disk + 1 /\ UNCHANGED inPipe
  /\ UNCHANGED <<serving, members, collected, verdict, asksLeft>>

-----------------------------------------------------------------------------
\* terminate(): SIGTERM to the group; SIGKILL to the group only when the child
\* itself does not end in time.
GroupTold(ms, late) ==
  LET kill == ms["child"].state = "running" /\ (ms["child"].ignores \/ late)
  IN [m \in {"child", "kid"} |->
        IF ms[m].state = "running" /\ (kill \/ ~ms[m].ignores) THEN [ms[m] EXCEPT !.state = "gone"] ELSE ms[m]]

\* One round of collect_output ends at a limit.
AtLimit ==
  /\ serving = "command"
  /\ \/ verdict' = "timedOut"
     \/ DiskExceeded(0) /\ verdict' = "diskLimitExceeded"
     \/ Running("kid") /\ verdict' = "processLimitExceeded"
  /\ \E late \in BOOLEAN : members' = GroupTold(members, late)
  /\ serving' = "cleaning"
  /\ UNCHANGED <<inPipe, collected, disk, asksLeft>>

\* Faulty variant of Read: what is read is kept whole.
ReadWhole ==
  /\ serving = "command" /\ inPipe > 0
  /\ inPipe' = 0 /\ collected' = collected + inPipe
  /\ IF collected' > MaxOut
     THEN /\ verdict' = "truncated" /\ serving' = "cleaning"
          /\ \E late \in BOOLEAN : members' = GroupTold(members, late)
     ELSE UNCHANGED <<verdict, serving, members>>
  /\ UNCHANGED <<disk, asksLeft>>

\* One round reads a chunk: what fits is kept, the rest ends the command.
Read ==
  LET available == MaxOut - collected IN
  /\ serving = "command" /\ inPipe > 0
  /\ inPipe' = 0
  /\ collected' = collected + (IF inPipe <= available THEN inPipe ELSE available)
  /\ IF inPipe > available
     THEN /\ verdict' = "truncated" /\ serving' = "cleaning"
          /\ \E late \in BOOLEAN : members' = GroupTold(members, late)
     ELSE UNCHANGED <<verdict, serving, members>>
  /\ UNCHANGED <<disk, asksLeft>>

\* The pipes are at their end, or the child is gone and they are quiet.
PipesEnd ==
  /\ serving = "command" /\ inPipe = 0
  /\ ~Held \/ ~Running("child")
  /\ verdict' = "closed" /\ serving' = "cleaning"
  /\ UNCHANGED <<members, inPipe, collected, disk, asksLeft>>

\* finally: the group of a child that has ended is told to end, once.
Clean ==
  /\ serving = "cleaning"
  /\ serving' = "idle"
  /\ members' = IF Running("child") THEN members ELSE GroupTold(members, FALSE)
  /\ UNCHANGED <<inPipe, collected, disk, verdict, asksLeft>>

RunnerNext ==
  \/ Refuse \/ Write \/ Exec \/ Fork \/ AtLimit \/ Read \/ PipesEnd \/ Clean
  \/ \E m \in {"child", "kid"} : Depart(m) \/ Produce(m)

RunnerSpec == RunnerInit /\ [][RunnerNext]_runnerVars

-----------------------------------------------------------------------------
\* A command that a limit has ended does not run on, and what its processes
\* wrote is kept up to the limit, whichever of them wrote it.
LimitEndsCommand ==
  /\ collected <= MaxOut
  /\ verdict \in Limits => ~Running("child")

\* collect_output: "A child may close both pipes and leave descendants behind ...
\* clean the dedicated process group before returning the result": once its child is
\* gone, a command leaves no descendant behind its result.
GroupCleaned == serving = "idle" /\ ~Running("child") => ~Running("kid")

-----------------------------------------------------------------------------
(***************************************************************************)
(* --prepare-python: a process of its own, several of them on one venv,    *)
(* one at a time by a lock on the file beside it. A command of the guest   *)
(* may be ended at any moment, which releases its lock.                    *)
(***************************************************************************)
VARIABLES
  venv,     \* "none", "started" (it has a python, no pip yet), "ready"
  wheels,   \* the version of each package that its python finds
  prep,     \* the preparations
  locked    \* who holds the lock

pythonVars == <<venv, wheels, prep, locked>>

Outside == {"new", "ok", "failed", "killed"}
InLock == {"locked", "created", "installing", "verify", "verified"}

PythonTypeOK ==
  /\ venv \in {"none", "started", "ready"} /\ wheels \in [Wheels -> PyVersions \cup {NoVersion}]
  /\ prep \in [Preparations -> Outside \cup InLock] /\ locked \subseteq Preparations

PythonInit ==
  /\ venv = "none" /\ wheels = [w \in Wheels |-> NoVersion]
  /\ prep = [r \in Preparations |-> "new"] /\ locked = {}

\* Faulty variant of Lock: where fcntl is missing nothing is locked.
LockNothing(r) == prep[r] = "new"

Lock(r) == prep[r] = "new" /\ locked = {}

Enter(r) ==
  /\ Lock(r)
  /\ prep' = [prep EXCEPT ![r] = "locked"] /\ locked' = locked \cup {r}
  /\ UNCHANGED <<venv, wheels>>

\* venv.EnvBuilder, where there is no python yet: first its python, then pip.
CreateVenv(r) ==
  /\ prep[r] = "locked"
  /\ \/ venv = "none" /\ venv' = "started" /\ prep' = [prep EXCEPT ![r] = "created"]
     \/ venv # "none" /\ UNCHANGED venv /\ prep' = [prep EXCEPT ![r] = "installing"]
  /\ UNCHANGED <<wheels, locked>>

EnsurePip(r) ==
  /\ prep[r] = "created"
  /\ venv' = "ready" /\ prep' = [prep EXCEPT ![r] = "installing"]
  /\ UNCHANGED <<wheels, locked>>

Invalid(r) == {w \in DOMAIN WheelsOf[r] : wheels[w] # WheelsOf[r][w]}

\* pip, unless all is there: package by package, and it may fail after some.
Install(r) ==
  /\ prep[r] = "installing" /\ Invalid(r) # {} /\ venv = "ready"
  /\ \E w \in Invalid(r) : wheels' = [wheels EXCEPT ![w] = WheelsOf[r][w]]
  /\ UNCHANGED <<venv, prep, locked>>

LeaveLock(r, how) == prep' = [prep EXCEPT ![r] = how] /\ locked' = locked \ {r}

InstallFails(r) ==
  /\ prep[r] = "installing" /\ Invalid(r) # {}
  /\ LeaveLock(r, "failed")
  /\ UNCHANGED <<venv, wheels>>

\* pip reports success, also of a package that its module is not found in.
Installed(r) ==
  /\ prep[r] = "installing" /\ (venv = "ready" \/ Invalid(r) = {})
  /\ prep' = [prep EXCEPT ![r] = "verify"]
  /\ UNCHANGED <<venv, wheels, locked>>

Verify(r) ==
  /\ prep[r] = "verify"
  /\ IF Invalid(r) = {} THEN prep' = [prep EXCEPT ![r] = "verified"] /\ UNCHANGED locked
     ELSE LeaveLock(r, "failed")
  /\ UNCHANGED <<venv, wheels>>

Unlock(r) == prep[r] = "verified" /\ LeaveLock(r, "ok") /\ UNCHANGED <<venv, wheels>>

\* The command is ended where it is.
KillPreparation(r) == prep[r] \in InLock /\ LeaveLock(r, "killed") /\ UNCHANGED <<venv, wheels>>

PythonNext ==
  \E r \in Preparations :
    \/ Enter(r) \/ CreateVenv(r) \/ EnsurePip(r) \/ Install(r) \/ InstallFails(r)
    \/ Installed(r) \/ Verify(r) \/ Unlock(r) \/ KillPreparation(r)

\* The service alone, for instances of its own.
RunnerAlone == RunnerInit /\ PythonInit /\ [][RunnerNext /\ UNCHANGED pythonVars]_<<runnerVars, pythonVars>>

PythonSpec == PythonInit /\ [][PythonNext]_pythonVars

-----------------------------------------------------------------------------
\* When a preparation reports success, what it asked for is in the venv, also
\* when others prepare the same venv with other versions or were ended halfway.
PreparedIsThere == \A r \in Preparations : prep[r] = "verified" => Invalid(r) = {}
=============================================================================
