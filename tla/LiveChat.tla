------------------------------- MODULE LiveChat -------------------------------
(***************************************************************************)
(* The live chat (src/renderer/features/workspace/conversation/            *)
(* LiveChatDrawer.tsx): a microphone whose recordings are transcribed and  *)
(* sent, and a queue that speaks the response of the newest turn. What the *)
(* callbacks share are the refs of the component, here one record.         *)
(***************************************************************************)
EXTENDS Naturals, Sequences, FiniteSets

CONSTANTS
  MaxChatTurns,      \* bound on the turns
  MaxEntries,    \* liveChatSpeechQueueEntries
  MaxRecorders,  \* bound on recorders that are not stopped yet
  MaxTexts       \* bound on the texts and the final response of a turn

ASSUME ChatAssumption == {MaxChatTurns, MaxEntries, MaxRecorders, MaxTexts} \subseteq Nat \ {0}

VARIABLES
  chat,     \* the refs, see ChatTypeOK
  turnNow,  \* the turn whose response is streamed, 0 before the first
  texts     \* what came of it: texts, and the final response as the last

chatVars == <<chat, turnNow, texts>>

Recorders == 1..MaxRecorders
ChatStatus == {"starting", "listening", "transcribing", "waiting", "speaking", "idle", "error"}

\* runner and speech: what runSpeechQueue awaits, and the turn it speaks for;
\* stale: the generation has changed since it began. live: microphones on.
ChatTypeOK ==
  /\ chat \in [mounted : BOOLEAN, status : ChatStatus, asking : 0..MaxRecorders,
               recorder : 0..MaxRecorders, live : SUBSET Recorders, stopping : SUBSET Recorders,
               discard : BOOLEAN, transcribing : Nat, sending : Nat, restart : BOOLEAN,
               queue : Seq(0..MaxChatTurns), complete : BOOLEAN,
               runner : {"off", "synthesis", "playback"}, stale : BOOLEAN,
               speech : 0..MaxChatTurns, playing : 0..MaxChatTurns]
  /\ turnNow \in 0..MaxChatTurns /\ texts \in 0..MaxTexts

\* The mount has called startListening.
ChatInit ==
  /\ chat = [mounted |-> TRUE, status |-> "starting", asking |-> 1, recorder |-> 0,
             live |-> {}, stopping |-> {}, discard |-> FALSE, transcribing |-> 0, sending |-> 0,
             restart |-> FALSE, queue |-> <<>>, complete |-> FALSE, runner |-> "off",
             stale |-> FALSE, speech |-> 0, playing |-> 0]
  /\ turnNow = 0 /\ texts = 0

-----------------------------------------------------------------------------
(* The callbacks, as functions of the refs *)

Show(c, status) == IF c.mounted THEN [c EXCEPT !.status = status] ELSE c
ScheduleRestart(c, status) == IF c.mounted THEN [c EXCEPT !.status = status, !.restart = TRUE] ELSE c

\* A new generation: the queue is emptied and the playback is resolved.
Silence(c) == [c EXCEPT !.stale = @ \/ c.runner # "off", !.queue = <<>>,
                        !.complete = FALSE, !.playing = 0]

StopSpeaking(c) == Show(Silence(c), "idle")

StopListening(c) ==
  IF c.recorder = 0 THEN c
  ELSE Show([c EXCEPT !.live = @ \ {c.recorder}, !.stopping = @ \cup {c.recorder},
                      !.recorder = 0], "transcribing")

StartListening(c) ==
  IF ~c.mounted \/ c.recorder # 0 \/ c.status \in {"transcribing", "waiting", "speaking"} THEN c
  ELSE [StopSpeaking(c) EXCEPT !.status = "starting", !.asking = @ + 1]

\* runSpeechQueue between two awaits: it speaks the next text, or ends; at the
\* end of the response the microphone is opened again.
NextSpeech(c) ==
  IF ~c.mounted \/ c.stale THEN [c EXCEPT !.runner = "off", !.stale = FALSE]
  ELSE IF c.queue # <<>>
  THEN [c EXCEPT !.runner = "synthesis", !.speech = Head(c.queue), !.queue = Tail(@), !.status = "speaking"]
  ELSE LET ended == IF c.complete THEN StartListening(Show(c, "idle")) ELSE Show(c, "waiting")
       IN [ended EXCEPT !.runner = "off", !.stale = FALSE]

RunSpeechQueue(c) == IF ~c.mounted \/ c.runner # "off" THEN c ELSE NextSpeech(c)

\* Its finally clause: what was queued meanwhile is spoken by a new run.
Resumed(c) ==
  LET next == NextSpeech(c) IN
  IF next.runner = "off" /\ next.queue # <<>> THEN RunSpeechQueue(next) ELSE next

EnqueueSpeech(c, t) ==
  LET room == IF Len(c.queue) >= MaxEntries THEN Tail(c.queue) ELSE c.queue
  IN RunSpeechQueue([c EXCEPT !.queue = Append(room, t)])

-----------------------------------------------------------------------------
\* getUserMedia grants the microphone, or an exception ends the attempt.
MicrophoneGranted ==
  /\ chat.asking > 0
  /\ IF ~chat.mounted THEN chat' = [chat EXCEPT !.asking = @ - 1]
     ELSE \E r \in Recorders \ (chat.live \cup chat.stopping) :
            chat' = [chat EXCEPT !.asking = @ - 1, !.recorder = r, !.live = @ \cup {r},
                                 !.discard = FALSE, !.status = "listening"]
  /\ UNCHANGED <<turnNow, texts>>

MicrophoneRefused ==
  /\ chat.asking > 0
  /\ chat' = Show(StopListening([chat EXCEPT !.asking = @ - 1]), "error")
  /\ UNCHANGED <<turnNow, texts>>

\* Silence, heard by the monitor of any recorder, or the time limit of the
\* current one; or a recording that has become too large.
Silent ==
  /\ chat.live # {} /\ chat.recorder # 0
  /\ \E large \in BOOLEAN : chat' = StopListening([chat EXCEPT !.discard = @ \/ large])
  /\ UNCHANGED <<turnNow, texts>>

\* onstop: a discarded or an empty recording is followed by another one.
RecorderStopped(r) ==
  LET c == [chat EXCEPT !.stopping = @ \ {r}, !.discard = FALSE] IN
  /\ r \in chat.stopping
  /\ \/ chat' = ScheduleRestart(c, "idle")
     \/ ~chat.discard /\ chat' = Show([c EXCEPT !.transcribing = @ + (IF c.mounted THEN 1 ELSE 0)], "transcribing")
  /\ UNCHANGED <<turnNow, texts>>

\* No text, a failure, or a text that is sent.
Transcribed ==
  LET c == [chat EXCEPT !.transcribing = @ - 1] IN
  /\ chat.transcribing > 0
  /\ \/ \E status \in {"idle", "error"} : chat' = ScheduleRestart(c, status)
     \/ chat' = [c EXCEPT !.sending = @ + (IF c.mounted THEN 1 ELSE 0)]
  /\ UNCHANGED <<turnNow, texts>>

Sent ==
  LET c == [chat EXCEPT !.sending = @ - 1] IN
  /\ chat.sending > 0
  /\ chat' = Show(c, "waiting") \/ chat' = ScheduleRestart(c, "error")
  /\ UNCHANGED <<turnNow, texts>>

RestartFires ==
  /\ chat.restart /\ chat.asking < MaxRecorders
  /\ chat' = StartListening([chat EXCEPT !.restart = FALSE])
  /\ UNCHANGED <<turnNow, texts>>

\* The effect on the activities of the conversation: a new turn silences the
\* one before it, whose run may still be awaiting.
TurnStreams ==
  /\ chat.mounted /\ turnNow < MaxChatTurns
  /\ turnNow' = turnNow + 1 /\ texts' = 0
  /\ chat' = Silence(chat)

\* A sentence is ready.
SentenceReady ==
  /\ chat.mounted /\ turnNow > 0 /\ texts < MaxTexts - 1
  /\ texts' = texts + 1
  /\ chat' = EnqueueSpeech(chat, turnNow)
  /\ UNCHANGED turnNow

\* The final response, with a last text or without one.
ResponseFinal ==
  LET c == [chat EXCEPT !.complete = TRUE] IN
  /\ chat.mounted /\ turnNow > 0 /\ texts < MaxTexts /\ chat.asking < MaxRecorders
  /\ texts' = MaxTexts
  /\ chat' = RunSpeechQueue(c) \/ chat' = EnqueueSpeech(c, turnNow)
  /\ UNCHANGED turnNow

\* Faulty variant of Synthesized: what was synthesized is played.
SynthesizedAnyway ==
  /\ chat.runner = "synthesis"
  /\ \/ chat' = [chat EXCEPT !.runner = "playback", !.playing = chat.speech]
     \/ chat' = Resumed(chat)
  /\ UNCHANGED <<turnNow, texts>>

\* The speech of a text is there, and played unless the run is outdated; a
\* failure of a run that is not outdated ends it.
Synthesized ==
  /\ chat.runner = "synthesis" /\ chat.asking < MaxRecorders
  /\ \/ chat.mounted /\ ~chat.stale /\ chat' = [chat EXCEPT !.runner = "playback", !.playing = chat.speech]
     \/ (~chat.mounted \/ chat.stale) /\ chat' = Resumed(chat)
     \/ chat.mounted /\ ~chat.stale
        /\ chat' = RunSpeechQueue([ScheduleRestart(chat, "error") EXCEPT !.runner = "off"])
  /\ UNCHANGED <<turnNow, texts>>

\* The playback has ended, or was resolved.
Played ==
  /\ chat.runner = "playback" /\ chat.asking < MaxRecorders
  /\ chat' = Resumed([chat EXCEPT !.playing = 0])
  /\ UNCHANGED <<turnNow, texts>>

\* The effect on an error of the agent.
AgentError ==
  /\ chat.mounted /\ chat.status = "waiting"
  /\ chat' = ScheduleRestart(chat, "error")
  /\ UNCHANGED <<turnNow, texts>>

\* The drawer closes.
Unmount ==
  /\ chat.mounted
  /\ chat' = StopListening(Silence([chat EXCEPT !.mounted = FALSE, !.restart = FALSE]))
  /\ UNCHANGED <<turnNow, texts>>

ChatNext ==
  \/ MicrophoneGranted \/ MicrophoneRefused \/ Silent \/ Transcribed \/ Sent \/ RestartFires
  \/ TurnStreams \/ SentenceReady \/ ResponseFinal \/ Synthesized \/ Played
  \/ AgentError \/ Unmount
  \/ \E r \in Recorders : RecorderStopped(r)

ChatSpec == ChatInit /\ [][ChatNext]_chatVars

-----------------------------------------------------------------------------
\* What is heard is the response of the newest turn, whatever was synthesized
\* for an older one when it began; and a closed drawer is silent, has no
\* recorder of its own and no timer that opens the microphone again.
SpeaksNewestTurn ==
  /\ chat.playing # 0 => chat.mounted /\ chat.playing = turnNow
  /\ ~chat.mounted => chat.recorder = 0 /\ ~chat.restart
=============================================================================
