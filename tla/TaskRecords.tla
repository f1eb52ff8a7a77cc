----------------------------- MODULE TaskRecords -----------------------------
(***************************************************************************)
(* The record of a task (src/main/tasks/task-store.ts): the chain that     *)
(* runs its changes one after the other, the cursor its events are         *)
(* numbered with, and its title, which the user may type while             *)
(* task-title-generation-service.ts asks the model for one and while a     *)
(* prompt that found the task untitled is being sent (startPrompt of       *)
(* use-workspace-controller.ts, runWorkspaceCommand).                      *)
(* A single update of tasks.json is one step (JsonFileStore serialises     *)
(* them); an event takes three.                                            *)
(***************************************************************************)
EXTENDS Naturals, SequencesExt

CONSTANTS
  Events,      \* events of the task
  Ends,        \* ends of turns that observe the title
  MaxRenames   \* bound on the renames

ASSUME RecordAssumption == Events \cap Ends = {} /\ MaxRenames \in Nat

VARIABLES
  title,       \* whose title it is, and titleSummaryStatus
  cursor,      \* lastEventCursor
  numbered,    \* the cursor of each logged event, in order
  mutations,   \* taskMutationChains of the task: its first element runs
  reading,     \* the cursor the running event has read
  summary,     \* observeTurnCompleted of an end of a turn
  asked,       \* inFlight of the title service
  renames,
  slug,        \* a prompt that titles the task: how far it is
  overtaken,   \* (history) the user's title came while such a prompt was being sent
  faulty       \* a write has failed, or the application has ended, in the middle of an event

recordVars == <<title, cursor, numbered, mutations, reading, summary, asked, renames, slug,
                overtaken, faulty>>

NoJob == [kind |-> "none", id |-> "none"]
Jobs == [kind : {"event", "claim", "complete", "fail", "rename", "slug"}, id : Events \cup Ends \cup {"user"}]

RecordTypeOK ==
  /\ title \in [source : {"automatic", "manual"}, by : {"nobody", "prompt", "user", "model"},
                status : {"not_started", "generating", "completed", "failed"}]
  /\ cursor \in Nat /\ numbered \in Seq(Nat) /\ mutations \in Seq(Jobs)
  /\ reading \in [job : Jobs \cup {NoJob}, at : {"start", "logging", "saving"}, cursor : Nat]
  /\ summary \in [Ends -> {"new", "checked", "claiming", "asking", "settling", "done"}]
  /\ asked \in BOOLEAN /\ renames \in 0..MaxRenames /\ faulty \in BOOLEAN
  /\ slug \in {"no", "deciding", "chained"} /\ overtaken \in BOOLEAN

NotReading == [job |-> NoJob, at |-> "start", cursor |-> 0]

\* A task is created with the title of its prompt, or as 'New chat' when an
\* attachment comes before the prompt.
RecordInit ==
  /\ title \in [source : {"automatic"}, by : {"nobody", "prompt"}, status : {"not_started"}]
  /\ cursor = 0 /\ numbered = <<>> /\ mutations = <<>> /\ reading = NotReading
  /\ summary = [e \in Ends |-> "new"] /\ asked = FALSE /\ renames = 0 /\ faulty = FALSE
  /\ slug = "no" /\ overtaken = FALSE

Job(what, who) == [kind |-> what, id |-> who]
Chained(job) == mutations' = Append(mutations, job)

\* Faulty variant of Running: an event does not wait for the mutation before it.
RunningBeside(job) == \E i \in 1..Len(mutations) : mutations[i] = job

\* withTaskExclusive: the mutations before it have ended.
Running(job) == mutations # <<>> /\ Head(mutations) = job

\* A mutation that has settled leaves the chain, which has it once.
Leave(job) == mutations' = RemoveFirst(mutations, job)

\* appendEvent is called.
AppendEvent(e) ==
  /\ Job("event", e) \notin {mutations[i] : i \in 1..Len(mutations)} /\ Len(numbered) < 2
  /\ Chained(Job("event", e))
  /\ UNCHANGED <<title, cursor, numbered, reading, summary, asked, renames, slug, overtaken,
                 faulty>>

\* It reads the cursor of the task, logs the activity with the next one, and
\* stores it; a write that fails ends it.
EventStep(e) ==
  LET job == Job("event", e) IN
  /\ Running(job)
  /\ \/ /\ reading.job # job
        /\ reading' = [job |-> job, at |-> "logging", cursor |-> cursor + 1]
        /\ UNCHANGED <<cursor, numbered, mutations, faulty>>
     \/ /\ reading.job = job /\ reading.at = "logging"
        /\ numbered' = Append(numbered, reading.cursor)
        /\ reading' = [reading EXCEPT !.at = "saving"]
        /\ UNCHANGED <<cursor, mutations, faulty>>
     \/ /\ reading.job = job /\ reading.at = "saving"
        /\ cursor' = reading.cursor /\ reading' = NotReading
        /\ Leave(job) /\ UNCHANGED <<numbered, faulty>>
     \/ /\ reading.job = job /\ reading' = NotReading
        /\ Leave(job) /\ faulty' = TRUE /\ UNCHANGED <<cursor, numbered>>
  /\ UNCHANGED <<title, summary, asked, renames, slug, overtaken>>

\* rename: the user's title.
Rename ==
  /\ renames < MaxRenames /\ renames' = renames + 1
  /\ Job("rename", "user") \notin {mutations[i] : i \in 1..Len(mutations)}
  /\ Chained(Job("rename", "user"))
  /\ UNCHANGED <<title, cursor, numbered, reading, summary, asked, slug, overtaken, faulty>>

RenameRuns ==
  /\ Running(Job("rename", "user")) /\ Leave(Job("rename", "user"))
  /\ title' = [source |-> "manual", by |-> "user", status |-> "completed"]
  /\ overtaken' = (slug # "no")
  /\ UNCHANGED <<cursor, numbered, reading, summary, asked, renames, slug, faulty>>

\* startPrompt and runWorkspaceCommand: a prompt that finds the task untitled
\* will title it, although it writes the record only some awaits later; or it
\* fails before.
PromptTitles ==
  /\ \/ /\ slug = "no" /\ title.source = "automatic" /\ title.by = "nobody"
        /\ slug' = "deciding" /\ UNCHANGED mutations
     \/ /\ slug = "deciding"
        /\ \/ slug' = "chained" /\ Chained(Job("slug", "user"))
           \/ slug' = "no" /\ UNCHANGED mutations
  /\ UNCHANGED <<title, cursor, numbered, reading, summary, asked, renames, overtaken, faulty>>

\* update: the patch is merged into the record whatever its title is by now.
SlugRuns ==
  /\ slug = "chained" /\ Running(Job("slug", "user")) /\ Leave(Job("slug", "user"))
  /\ title' = [title EXCEPT !.by = "prompt"] /\ slug' = "no"
  /\ UNCHANGED <<cursor, numbered, reading, summary, asked, renames, overtaken, faulty>>

\* observeTurnCompleted: the task is read, then its prompts, then the claim
\* goes to the chain.
ObserveTurnCompleted(e) ==
  /\ \/ /\ summary[e] = "new"
        /\ summary' = [summary EXCEPT ![e] =
             IF title.source = "automatic" /\ title.status = "not_started" /\ ~asked THEN "checked" ELSE "done"]
        /\ UNCHANGED mutations
     \/ /\ summary[e] = "checked"
        /\ \/ summary' = [summary EXCEPT ![e] = "claiming"] /\ Chained(Job("claim", e))
           \/ summary' = [summary EXCEPT ![e] = "done"] /\ UNCHANGED mutations
  /\ UNCHANGED <<title, cursor, numbered, reading, asked, renames, slug, overtaken, faulty>>

\* claimAutomaticTitleSummary: only one end of a turn gets it.
ClaimRuns(e) ==
  /\ Running(Job("claim", e)) /\ Leave(Job("claim", e))
  /\ IF title.source = "automatic" /\ title.status = "not_started"
     THEN /\ title' = [title EXCEPT !.status = "generating"] /\ asked' = TRUE
          /\ summary' = [summary EXCEPT ![e] = "asking"]
     ELSE summary' = [summary EXCEPT ![e] = "done"] /\ UNCHANGED <<title, asked>>
  /\ UNCHANGED <<cursor, numbered, reading, renames, slug, overtaken, faulty>>

\* generateTitle is answered, with a title or without one.
TitleAnswered(e) ==
  /\ summary[e] = "asking"
  /\ summary' = [summary EXCEPT ![e] = "settling"]
  /\ \E how \in {"complete", "fail"} : Chained(Job(how, e))
  /\ UNCHANGED <<title, cursor, numbered, reading, asked, renames, slug, overtaken, faulty>>

\* Faulty variant of Settles: the title is stored whatever became of the task.
SettlesAnyway(how) ==
  IF how = "complete" THEN [title EXCEPT !.by = "model", !.status = "completed"]
  ELSE [title EXCEPT !.status = "failed"]

\* completeAutomaticTitleSummary and failAutomaticTitleSummary: a task whose
\* title is not being generated any more is left alone.
Settles(how) ==
  IF title.source # "automatic" \/ title.status # "generating" THEN title
  ELSE IF how = "complete" THEN [title EXCEPT !.by = "model", !.status = "completed"]
  ELSE [title EXCEPT !.status = "failed"]

SettleRuns(e) ==
  /\ \E how \in {"complete", "fail"} :
       Running(Job(how, e)) /\ Leave(Job(how, e)) /\ title' = Settles(how)
  /\ asked' = FALSE /\ summary' = [summary EXCEPT ![e] = "done"]
  /\ UNCHANGED <<cursor, numbered, reading, renames, slug, overtaken, faulty>>

\* The application ends and starts again: what it had in memory is gone.
RecordsRestart ==
  /\ mutations # <<>> /\ ~faulty
  /\ mutations' = <<>> /\ reading' = NotReading /\ asked' = FALSE /\ faulty' = TRUE
  /\ summary' = [e \in Ends |-> IF summary[e] = "new" THEN "new" ELSE "done"]
  /\ slug' = "no" /\ UNCHANGED <<title, cursor, numbered, renames, overtaken>>

RecordNext ==
  \/ Rename \/ RenameRuns \/ PromptTitles \/ SlugRuns \/ RecordsRestart
  \/ \E e \in Events : AppendEvent(e) \/ EventStep(e)
  \/ \E e \in Ends : ObserveTurnCompleted(e) \/ ClaimRuns(e) \/ TitleAnswered(e) \/ SettleRuns(e)

RecordSpec == RecordInit /\ [][RecordNext]_recordVars

-----------------------------------------------------------------------------
\* A title the user has typed is never replaced by one the model was asked for
\* before, nor by a prompt's but for the exception the code has: a prompt that
\* found the task untitled was being sent when the user's title was stored. The
\* events of a task are numbered 1, 2, ... as long as no write fails, whoever
\* records them at the same time.
TitlesAndCursorsKept ==
  /\ title.source = "manual" => title.by = "user" \/ (overtaken /\ title.by = "prompt")
  /\ ~faulty => \A i \in 1..Len(numbered) : numbered[i] = i
=============================================================================
