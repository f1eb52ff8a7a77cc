------------------------------ MODULE Composer ------------------------------
(***************************************************************************)
(* What the user writes and says: the draft of a task and its debounced,   *)
(* chained writes (use-draft-persistence.ts, use-draft-task.ts, use-       *)
(* workspace-model-preferences.ts); the attachments of the draft (use-     *)
(* workspace-attachment-actions.ts); the recording of a prompt (voice-     *)
(* input.tsx); and its transcription in the main process, with the speech  *)
(* model that is downloaded once (speech-model-manager.ts, whisper-cpp-    *)
(* speech-transcription-service.ts). The four share no state here.         *)
(***************************************************************************)
EXTENDS Naturals, Sequences, FiniteSets

CONSTANTS
  DraftTasks,
  NewDraft,       \* the one of them that does not exist yet
  NoDraft,        \* no task
  MaxDrafts,      \* bound: texts written
  MaxDirect,      \* bound: writes past the chain under way
  Attached,       \* attachments
  PastedTexts,    \* those that are pasted texts; the others are images and files
  MaxTakes,       \* bound: recordings asked for
  Transcriptions, \* calls of transcribe()
  MaxModelFaults  \* bound: downloads that fail, and ends of the application

ASSUME ComposerAssumption ==
  /\ NewDraft \in DraftTasks /\ NoDraft \notin DraftTasks
  /\ PastedTexts \subseteq Attached
  /\ {MaxDrafts, MaxDirect} \subseteq Nat /\ MaxTakes \in Nat /\ MaxModelFaults \in Nat

-----------------------------------------------------------------------------
(* Drafts.  A text is the number it was written under; the empty one is 0. *)

VARIABLES
  shownTask,    \* the task in the window
  refTask,      \* the task in draftTaskRef, into which a draft is written
  creating,     \* draftTaskPromiseRef: the creation of the task NewDraft
  savingModel,  \* the task whose model is being stored
  draftPending, draftTimer,  \* pendingRef and timerRef
  draftWrites,  \* the chain writeRef
  direct,       \* writes of a draft that go past the chain, still awaited
  storedDraft,  \* the draft of each task in the store
  typed,        \* (history) the text the user wrote last in each task
  lostDrafts,   \* (history) tasks whose last text was dropped or went elsewhere
  drafts        \* texts written

draftVars == <<shownTask, refTask, creating, savingModel, draftPending, draftTimer,
               draftWrites, direct, storedDraft, typed, lostDrafts, drafts>>

SomeTask == DraftTasks \cup {NoDraft}
Draft == [task : DraftTasks, text : 0..MaxDrafts]
NothingPending == [task |-> NoDraft, text |-> 0]

DraftTypeOK ==
  /\ shownTask \in SomeTask /\ refTask \in SomeTask /\ savingModel \in SomeTask
  /\ creating \in {"no", "asked", "made"} /\ draftTimer \in BOOLEAN
  /\ draftPending \in Draft \cup {NothingPending}
  /\ draftWrites \in Seq(Draft) /\ direct \subseteq DraftTasks \X {"clear", "edit"}
  /\ storedDraft \in [DraftTasks -> 0..MaxDrafts] /\ typed \in [DraftTasks -> 0..MaxDrafts]
  /\ lostDrafts \subseteq DraftTasks /\ drafts \in 0..MaxDrafts

DraftInit ==
  /\ shownTask = NoDraft /\ refTask = NoDraft /\ savingModel = NoDraft
  /\ creating = "no" /\ draftTimer = FALSE
  /\ draftPending = NothingPending /\ draftWrites = <<>> /\ direct = {}
  /\ storedDraft = [t \in DraftTasks |-> 0] /\ typed = [t \in DraftTasks |-> 0]
  /\ lostDrafts = {} /\ drafts = 0

\* updateDraft: one text is pending at a time, whichever task it is of; the
\* composer empties its text when it is sent.
UpdateDraft(text) ==
  /\ drafts < MaxDrafts
  /\ drafts' = drafts + 1 /\ text \in {0, drafts'}
  /\ typed' = IF shownTask = NoDraft THEN typed ELSE [typed EXCEPT ![shownTask] = text]
  /\ IF refTask = NoDraft THEN UNCHANGED <<draftPending, draftTimer>>
     ELSE draftPending' = [task |-> refTask, text |-> text] /\ draftTimer' = TRUE
  /\ LET replaced == {draftPending.task} \ {NoDraft, refTask}
         elsewhere == IF refTask = shownTask THEN {} ELSE {refTask, shownTask} \ {NoDraft}
     IN  lostDrafts' = (lostDrafts \ {shownTask}) \cup elsewhere
                         \cup (IF refTask = NoDraft THEN {} ELSE replaced)
  /\ UNCHANGED <<shownTask, refTask, creating, savingModel, draftWrites, direct, storedDraft>>

\* The pending text, if any, joins the chain of writes w.
Flushed(w) ==
  /\ draftTimer' = FALSE
  /\ draftPending' = NothingPending
  /\ draftWrites' = IF draftPending = NothingPending THEN w ELSE Append(w, draftPending)

\* flushDraft: by the timer, by a prompt that is sent, and at the end of the
\* window.
FlushDraft ==
  /\ draftPending # NothingPending
  /\ Flushed(draftWrites)
  /\ UNCHANGED <<shownTask, refTask, creating, savingModel, direct, storedDraft, typed, lostDrafts,
                 drafts>>

\* The write at the head of the chain is done, and a text that came meanwhile
\* is flushed at once; or it fails, and is not tried again.
DraftWritten ==
  /\ draftWrites # <<>>
  /\ LET w == Head(draftWrites)
     IN  \/ /\ storedDraft' = [storedDraft EXCEPT ![w.task] = w.text]
            /\ Flushed(Tail(draftWrites))
            /\ UNCHANGED lostDrafts
         \/ /\ draftWrites' = Tail(draftWrites)
            /\ lostDrafts' = IF w.text # typed[w.task] THEN lostDrafts
                             ELSE lostDrafts \cup {w.task}
            /\ UNCHANGED <<storedDraft, draftPending, draftTimer>>
  /\ UNCHANGED <<shownTask, refTask, creating, savingModel, direct, typed, drafts>>

\* A text of task t is still to be written by the chain.
ToCome(t) == draftPending.task = t \/ \E i \in 1..Len(draftWrites) : draftWrites[i].task = t

\* tasks.update of startPrompt, enqueuePrompt and runWorkspaceCommand: the draft
\* of the task goes, also of one the user has gone on writing meanwhile, or that
\* a prompt from the queue was not written in.
ClearDraft(t) ==
  /\ storedDraft' = [storedDraft EXCEPT ![t] = 0]
  /\ lostDrafts' = IF ToCome(t) \/ typed[t] = 0 THEN lostDrafts ELSE lostDrafts \cup {t}
  /\ UNCHANGED <<typed, drafts>>

\* tasks.update of editQueuedMessage: the text of the queued prompt becomes the
\* draft; one that is still to come replaces it.
EditDraft(t) ==
  /\ drafts < MaxDrafts /\ drafts' = drafts + 1
  /\ storedDraft' = [storedDraft EXCEPT ![t] = drafts']
  /\ typed' = [typed EXCEPT ![t] = drafts']
  /\ lostDrafts' = IF ToCome(t) THEN lostDrafts \cup {t} ELSE lostDrafts \ {t}

\* The task is taken when the operation begins; its update is made some awaits
\* later and then, unless the user has gone elsewhere, the task is selected; or
\* the operation fails.
DirectWrite(t) ==
  /\ \/ /\ t \in {shownTask, refTask}
        /\ Cardinality(direct) < MaxDirect
        /\ \E what \in {"clear", "edit"} : direct' = direct \cup {<<t, what>>}
        /\ UNCHANGED <<shownTask, refTask, storedDraft, typed, lostDrafts, drafts>>
     \/ \E what \in {"clear", "edit"} :
          /\ <<t, what>> \in direct /\ direct' = direct \ {<<t, what>>}
          /\ \/ UNCHANGED <<shownTask, refTask, storedDraft, typed, lostDrafts, drafts>>
             \/ /\ IF what = "clear" THEN ClearDraft(t) ELSE EditDraft(t)
                /\ \/ shownTask' = t /\ refTask' = t
                   \/ UNCHANGED <<shownTask, refTask>>
  /\ UNCHANGED <<creating, savingModel, draftPending, draftTimer, draftWrites>>

\* Another task, or none (a new chat), is selected.
SelectDraftTask(t) ==
  /\ t = NewDraft => creating = "made"
  /\ shownTask' = t /\ refTask' = t
  /\ UNCHANGED <<creating, savingModel, draftPending, draftTimer, draftWrites, direct,
                 storedDraft, typed, lostDrafts, drafts>>

\* selectModel: the answer puts its task into draftTaskRef, although another
\* one may have been selected meanwhile.
SelectModel ==
  \/ /\ savingModel = NoDraft /\ refTask # NoDraft
     /\ savingModel' = refTask
     /\ UNCHANGED refTask
  \/ /\ savingModel # NoDraft
     /\ refTask' \in {savingModel, refTask}
     /\ savingModel' = NoDraft

ModelStep ==
  /\ SelectModel
  /\ UNCHANGED <<shownTask, creating, draftPending, draftTimer, draftWrites, direct,
                 storedDraft, typed, lostDrafts, drafts>>

\* ensureDraftTask, of an attachment: those that come while the task is being
\* created share it; once created it is the selected one.
EnsureDraftTask ==
  /\ \/ /\ shownTask # NoDraft
        /\ refTask' = shownTask
        /\ UNCHANGED <<shownTask, creating>>
     \/ /\ shownTask = NoDraft /\ refTask = NoDraft /\ creating = "no"
        /\ creating' = "asked"
        /\ UNCHANGED <<shownTask, refTask>>
     \/ /\ creating = "asked"
        /\ \/ creating' = "made" /\ shownTask' = NewDraft /\ refTask' = NewDraft
           \/ creating' = "no" /\ UNCHANGED <<shownTask, refTask>>
  /\ UNCHANGED <<savingModel, draftPending, draftTimer, draftWrites, direct, storedDraft,
                 typed, lostDrafts, drafts>>

DraftNext ==
  \/ FlushDraft \/ DraftWritten \/ ModelStep \/ EnsureDraftTask
  \/ \E text \in 0..MaxDrafts : UpdateDraft(text)
  \/ \E t \in DraftTasks : DirectWrite(t)
  \/ \E t \in SomeTask : SelectDraftTask(t)

-----------------------------------------------------------------------------
(* Attachments of the draft of one task, which has a session. *)

VARIABLES
  attach,     \* how far an attachment is
  listing,    \* the list it read, with its own change: what tasks.update is told
  listed,     \* draftAttachmentIds of the task in the store
  heldIds,    \* the same in draftTaskRef
  filed,      \* attachments whose artifact is stored
  uploaded,   \* those the session has
  doubtful    \* (history) attachments in a list that was read while another one
              \* was under way, or whose previews could not be loaded

attachVars == <<attach, listing, listed, heldIds, filed, uploaded, doubtful>>

AttachTypeOK ==
  /\ attach \in [Attached -> {"no", "making", "uploading", "listing", "undoing", "over",
                             "removing", "unlisting"}]
  /\ listing \in [Attached -> SUBSET Attached]
  /\ listed \subseteq Attached /\ heldIds \subseteq Attached /\ filed \subseteq Attached
  /\ uploaded \subseteq Attached /\ doubtful \subseteq Attached

AttachInit ==
  /\ attach = [a \in Attached |-> "no"] /\ listing = [a \in Attached |-> {}]
  /\ listed = {} /\ heldIds = {} /\ filed = {} /\ uploaded = {} /\ doubtful = {}

AttachGoes(a, to) == attach' = [attach EXCEPT ![a] = to]

\* The list is read, changed and awaited.
ListRead(a, ids) ==
  /\ listing' = [listing EXCEPT ![a] = ids]
  /\ doubtful' = IF \A b \in Attached \ {a} : attach[b] \in {"no", "over"} THEN doubtful
                 ELSE doubtful \cup heldIds \cup {b \in Attached : attach[b] \notin {"no", "over"}}

\* attachText, attachImage and pickArtifact; assertGatewayBudget refuses before
\* the artifact is made, or after it was picked.
Attach(a) ==
  /\ \/ attach[a] = "no" /\ (AttachGoes(a, "making") \/ AttachGoes(a, "over"))
        /\ UNCHANGED <<listing, filed, uploaded, doubtful>>
     \/ /\ attach[a] = "making"
        /\ \/ AttachGoes(a, "over") /\ UNCHANGED <<listing, filed, doubtful>>
           \/ filed' = filed \cup {a} /\ a \in PastedTexts /\ AttachGoes(a, "uploading")
              /\ UNCHANGED <<listing, doubtful>>
           \/ filed' = filed \cup {a} /\ a \notin PastedTexts
              /\ \/ AttachGoes(a, "undoing") /\ UNCHANGED <<listing, doubtful>>
                 \/ AttachGoes(a, "listing") /\ ListRead(a, heldIds \cup {a})
        /\ UNCHANGED uploaded
     \/ /\ attach[a] = "uploading"
        /\ \/ AttachGoes(a, "undoing") /\ uploaded' \in {uploaded, uploaded \cup {a}}
              /\ UNCHANGED <<listing, doubtful>>
           \/ AttachGoes(a, "listing") /\ uploaded' = uploaded \cup {a}
              /\ ListRead(a, heldIds \cup {a})
        /\ UNCHANGED filed
  /\ UNCHANGED <<listed, heldIds>>

\* appendDraftAttachment: the list is stored and its previews are loaded, or
\* one of the two fails; attachText then takes the artifact back.
AppendDraftAttachment(a) ==
  /\ attach[a] = "listing"
  /\ LET failed == IF a \in PastedTexts THEN "undoing" ELSE "over"
     IN  \/ AttachGoes(a, failed) /\ UNCHANGED <<listed, heldIds, doubtful>>
        \/ /\ listed' = listing[a] /\ heldIds' = listing[a]
           /\ \/ AttachGoes(a, "over") /\ UNCHANGED doubtful
              \/ AttachGoes(a, failed) /\ doubtful' = doubtful \cup {a}
  /\ UNCHANGED <<listing, filed, uploaded>>

\* The catch of attachText and of pickArtifact; what fails in it is ignored.
AttachUndone(a) ==
  /\ attach[a] = "undoing"
  /\ AttachGoes(a, "over")
  /\ uploaded' \in {uploaded, uploaded \ {a}} /\ filed' \in {filed, filed \ {a}}
  /\ UNCHANGED <<listing, listed, heldIds, doubtful>>

\* removeAttachment: from the session, from the disk and from the list that
\* was read first; whatever fails ends it.
RemoveAttachment(a) ==
  /\ \/ /\ attach[a] = "over" /\ a \in heldIds
        /\ AttachGoes(a, "removing") /\ ListRead(a, heldIds \ {a})
        /\ UNCHANGED <<listed, heldIds, filed, uploaded>>
     \/ /\ attach[a] = "removing"
        /\ \/ AttachGoes(a, "over") /\ UNCHANGED <<filed, uploaded>>
           \/ AttachGoes(a, "unlisting") /\ uploaded' = uploaded \ {a} /\ filed' = filed \ {a}
        /\ UNCHANGED <<listing, listed, heldIds, doubtful>>
     \/ /\ attach[a] = "unlisting"
        /\ AttachGoes(a, "over")
        /\ \/ listed' = listing[a] /\ heldIds' = listing[a] /\ UNCHANGED doubtful
           \/ doubtful' = doubtful \cup {a} /\ UNCHANGED <<listed, heldIds>>
        /\ UNCHANGED <<listing, filed, uploaded>>

AttachNext ==
  \E a \in Attached :
    Attach(a) \/ AppendDraftAttachment(a) \/ AttachUndone(a) \/ RemoveAttachment(a)

-----------------------------------------------------------------------------
(* Recordings.  A take is a call of start(), with the stream it is given. *)

VARIABLES
  mic,          \* the stream of a take
  recorder,     \* the take of recorderRef, 0 is undefined
  cleanup,      \* the take whose stream audioCleanupRef stops
  recording,    \* recordingRef
  transcribing, \* what stop() awaits
  mountedTake,  \* takes before it were asked for by an earlier component
  astray        \* (history) takes that were asked for while another one was, or
                \* given to a component that is gone, or not recorded

voiceVars == <<mic, recorder, cleanup, recording, transcribing, mountedTake, astray>>

Takes == 1..MaxTakes

VoiceTypeOK ==
  /\ mic \in [Takes -> {"none", "asked", "open", "closed"}]
  /\ recorder \in 0..MaxTakes /\ cleanup \in 0..MaxTakes
  /\ recording \in BOOLEAN /\ transcribing \in {"no", "finalizing", "asked"}
  /\ mountedTake \in 1..(MaxTakes + 1) /\ astray \subseteq Takes

VoiceInit ==
  /\ mic = [k \in Takes |-> "none"]
  /\ recorder = 0 /\ cleanup = 0 /\ recording = FALSE /\ transcribing = "no"
  /\ mountedTake = 1 /\ astray = {}

\* stopAudio
StreamStopped(m) == IF cleanup = 0 THEN m ELSE [m EXCEPT ![cleanup] = "closed"]

\* start() up to getUserMedia: nothing tells that another take is being given.
StartVoice(k) ==
  /\ ~recording /\ transcribing = "no"
  /\ k >= mountedTake
  /\ mic[k] = "none" /\ \A j \in 1..(k - 1) : mic[j] # "none"
  /\ mic' = [mic EXCEPT ![k] = "asked"]
  /\ LET asked == {j \in mountedTake..k : mic'[j] = "asked"}
     IN  astray' = IF asked = {k} THEN astray ELSE astray \cup asked
  /\ UNCHANGED <<recorder, cleanup, recording, transcribing, mountedTake>>

\* The stream is there and is recorded; a component that is gone keeps it.
Granted(k) ==
  /\ mic[k] = "asked"
  /\ mic' = [mic EXCEPT ![k] = "open"]
  /\ IF k < mountedTake THEN UNCHANGED <<recorder, cleanup, recording>>
     ELSE recorder' = k /\ cleanup' = k /\ recording' = TRUE
  /\ UNCHANGED <<transcribing, mountedTake, astray>>

\* It is refused, or there is a stream and no recorder for it.
Denied(k) ==
  /\ mic[k] = "asked"
  /\ \E given \in {"closed", "open"} :
       LET m == [mic EXCEPT ![k] = given]
       IN  /\ astray' = IF given = "open" THEN astray \cup {k} ELSE astray
           /\ IF k < mountedTake THEN mic' = m /\ UNCHANGED <<recorder, cleanup, recording>>
              ELSE /\ mic' = StreamStopped(m)
                   /\ recorder' = 0 /\ cleanup' = 0 /\ recording' = FALSE
  /\ UNCHANGED <<transcribing, mountedTake>>

\* stop(), the recorder that hands over what it has or fails to, and the end
\* of the transcription.
StopVoice ==
  \/ /\ recording /\ transcribing = "no"
     /\ recording' = FALSE /\ transcribing' = "finalizing"
     /\ UNCHANGED <<mic, recorder, cleanup, astray>>
  \/ /\ transcribing = "finalizing" /\ transcribing' = "asked"
     /\ mic' = StreamStopped(mic) /\ recorder' = 0 /\ cleanup' = 0
     /\ UNCHANGED <<recording, astray>>
  \/ /\ transcribing = "finalizing" /\ transcribing' = "no"
     /\ astray' = astray \cup ({cleanup} \ {0})
     /\ UNCHANGED <<mic, recorder, cleanup, recording>>
  \/ /\ transcribing = "asked" /\ transcribing' = "no"
     /\ UNCHANGED <<mic, recorder, cleanup, recording, astray>>

\* The component goes, when an approval takes the place of the input, and a
\* new one comes.
RemountVoice ==
  /\ mic' = StreamStopped(mic)
  /\ recorder' = 0 /\ cleanup' = 0 /\ recording' = FALSE /\ transcribing' = "no"
  /\ mountedTake' = CHOOSE n \in 1..(MaxTakes + 1) :
                      \A k \in Takes : k < n <=> mic[k] # "none"
  /\ astray' = astray \cup {k \in Takes : mic[k] = "asked"}

VoiceNext ==
  \/ StopVoice /\ UNCHANGED mountedTake
  \/ RemountVoice
  \/ \E k \in Takes : StartVoice(k) \/ Granted(k) \/ Denied(k)

-----------------------------------------------------------------------------
(* Transcriptions and the speech model *)

VARIABLES
  said,       \* how far a transcription is
  whisper,    \* its process
  recordings, \* transcriptions whose temporary directory exists
  speechModel, \* the file in the cache
  temporary,  \* the file of the download under way
  ensured,    \* ensureOperation and what it awaits
  modelFaults

speechVars == <<said, whisper, recordings, speechModel, temporary, ensured, modelFaults>>

SpeechTypeOK ==
  /\ said \in [Transcriptions -> {"new", "modelling", "running", "stopping", "over"}]
  /\ whisper \in [Transcriptions -> {"none", "alive", "gone"}]
  /\ recordings \subseteq Transcriptions
  /\ speechModel \in {"none", "bad", "good"} /\ temporary \in {"none", "bad", "good"}
  /\ ensured \in {"no", "matching", "downloading", "removing", "renaming", "failing"}
  /\ modelFaults \in 0..MaxModelFaults

\* A file of an earlier version may be in the cache.
SpeechInit ==
  /\ said = [c \in Transcriptions |-> "new"] /\ whisper = [c \in Transcriptions |-> "none"]
  /\ recordings = {} /\ speechModel \in {"none", "bad", "good"} /\ temporary = "none"
  /\ ensured = "no" /\ modelFaults = 0

\* ensureModel: the operation under way, or a new one.
EnsureModel == ensured' = IF ensured = "no" THEN "matching" ELSE ensured

\* transcribe() up to the model.
Transcribe(c) ==
  /\ said[c] = "new"
  /\ said' = [said EXCEPT ![c] = "modelling"]
  /\ recordings' = recordings \cup {c}
  /\ EnsureModel
  /\ UNCHANGED <<whisper, speechModel, temporary, modelFaults>>

\* The operation settles: those that share it start their process or fail.
EnsureSettles(ok) ==
  LET waiting == {c \in Transcriptions : said[c] = "modelling"}
  IN  /\ ensured' = "no"
      /\ said' = [c \in Transcriptions |->
                    IF c \notin waiting THEN said[c] ELSE IF ok THEN "running" ELSE "over"]
      /\ whisper' = [c \in Transcriptions |->
                       IF c \in waiting /\ ok THEN "alive" ELSE whisper[c]]
      /\ recordings' = IF ok THEN recordings ELSE recordings \ waiting

\* ensureModelOnce: match, download and verify, remove what is there, rename.
EnsureStep ==
  \/ /\ ensured = "matching"
     /\ IF speechModel = "good" THEN EnsureSettles(TRUE)
        ELSE ensured' = "downloading" /\ UNCHANGED <<said, whisper, recordings>>
     /\ UNCHANGED <<speechModel, temporary, modelFaults>>
  \/ /\ ensured = "downloading" \* the body is as the manifest says
     /\ temporary' = "good" /\ ensured' = "removing"
     /\ UNCHANGED <<said, whisper, recordings, speechModel, modelFaults>>
  \/ /\ ensured = "downloading" /\ modelFaults < MaxModelFaults
     /\ modelFaults' = modelFaults + 1
     /\ temporary' = "bad" /\ ensured' = "failing"
     /\ UNCHANGED <<said, whisper, recordings, speechModel>>
  \/ /\ ensured = "removing"
     /\ speechModel' = "none" /\ ensured' = "renaming"
     /\ UNCHANGED <<said, whisper, recordings, temporary, modelFaults>>
  \/ /\ ensured = "renaming"
     /\ speechModel' = temporary /\ temporary' = "none"
     /\ EnsureSettles(TRUE)
     /\ UNCHANGED modelFaults
  \/ /\ ensured = "failing"
     /\ temporary' = "none"
     /\ EnsureSettles(FALSE)
     /\ UNCHANGED <<speechModel, modelFaults>>

\* transcribe() ends: the answer is parsed or refused, its files are removed.
TranscribeEnds(c) ==
  /\ said' = [said EXCEPT ![c] = "over"]
  /\ recordings' = recordings \ {c}

\* runWhisperCpp: the events 'error' and 'close', the timer, and the end of
\* terminateDesktopProcess, confirmed or not.
WhisperStep(c) ==
  /\ \/ /\ whisper[c] = "alive"
        /\ whisper' = [whisper EXCEPT ![c] = "gone"]
        /\ IF said[c] \in {"running", "stopping"} THEN TranscribeEnds(c)
           ELSE UNCHANGED <<said, recordings>>
     \/ /\ said[c] = "running"
        /\ said' = [said EXCEPT ![c] = "stopping"]
        /\ UNCHANGED <<whisper, recordings>>
     \/ said[c] = "stopping" /\ TranscribeEnds(c) /\ UNCHANGED whisper
  /\ UNCHANGED <<speechModel, temporary, ensured, modelFaults>>

\* The application ends and starts again: the download that was under way is
\* left under a name of its own.
SpeechRestart ==
  /\ modelFaults < MaxModelFaults
  /\ modelFaults' = modelFaults + 1
  /\ ensured' = "no" /\ temporary' = "none" /\ recordings' = {}
  /\ said' = [c \in Transcriptions |-> IF said[c] = "new" THEN "new" ELSE "over"]
  /\ whisper' = [c \in Transcriptions |-> IF whisper[c] = "alive" THEN "gone" ELSE whisper[c]]
  /\ UNCHANGED speechModel

SpeechNext ==
  \/ EnsureStep \/ SpeechRestart
  \/ \E c \in Transcriptions : Transcribe(c) \/ WhisperStep(c)

-----------------------------------------------------------------------------
\* However timers, prompts that are sent and failing writes come, a task ends
\* up with the text the user wrote in it last. The exceptions are the code's: a
\* text another task's replaced before its delay was over, one whose write
\* failed, one written while draftTaskRef holds another task, one that was
\* stored before a prompt, a slash command or a queued prompt of the task had
\* cleared its draft, and a queued prompt that is edited while a text is on its
\* way to the store.
DraftsKept ==
  draftPending = NothingPending /\ draftWrites = <<>> =>
    \A t \in DraftTasks \ lostDrafts : storedDraft[t] = typed[t]

\* An attachment the draft lists is there to be sent, unless it is being removed:
\* but for lists that overlapping calls read, previews that could not be loaded
\* and a removal that failed half way.
AttachmentsBacked ==
  \A a \in listed \ doubtful : a \in filed \/ attach[a] = "unlisting"

\* A microphone is on only while something in the window will turn it off, but
\* for takes asked for at a time, one given after the input was gone and one that
\* could not be recorded.
MicrophoneOwned ==
  \A k \in Takes : mic[k] = "open" => cleanup = k \/ k \in astray

\* A transcription runs on a model that was verified, and no download removes
\* or replaces that file under it; none leaves its recording behind.
TranscribesVerified ==
  \A c \in Transcriptions :
    /\ said[c] \in {"running", "stopping"} => speechModel = "good"
    /\ said[c] = "over" => c \notin recordings
=============================================================================
