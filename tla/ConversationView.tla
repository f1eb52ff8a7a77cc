--------------------------- MODULE ConversationView ---------------------------
(***************************************************************************)
(* What the window shows of the selected task                              *)
(* (src/renderer/features/workspace/state/use-workspace-controller.ts):    *)
(* the newest activities, loaded when the task is selected and again after *)
(* each event; older pages, loaded on demand; and the response that is     *)
(* being streamed, of which the newest page holds the part stored so far.  *)
(* Selecting a task and the effects that follow it are one step. A stored  *)
(* page is read when its answer arrives: what is stored may lag behind     *)
(* what was streamed anyway.                                               *)
(***************************************************************************)
EXTENDS Naturals, Sequences, FiniteSets, SequencesExt

CONSTANTS Chats,       \* tasks
          MaxDeltas,   \* bound on the pieces of a response
          MaxStreamed, \* bound on the tasks whose responses are streamed
          MaxPages,    \* older pages of a task
          MaxLoads,    \* bound on the loads under way, an older page's included
          Segments, MaxSegText  \* segments of a response, numbered, and a bound on their text

ASSUME ViewAssumption ==
  /\ {MaxDeltas, MaxStreamed, MaxPages, MaxLoads, MaxSegText} \cup Segments \subseteq Nat
  /\ 1 \in Segments /\ MaxSegText # 0 /\ MaxPages # 0

VARIABLES
  shown,      \* the selected task
  emitted,    \* pieces of its response the agent has sent, of each task
  stored,     \* how many of them are stored
  view,       \* activitiesRef: pieces of each task, older pages of `owner`
  streams,    \* pendingAssistantStreamsRef: the streamed text of each task
  loads,      \* loadActivities under way, in order
  older,      \* loadOlderActivities under way
  refresh     \* the scheduler of the refreshes

viewVars == <<shown, emitted, stored, view, streams, loads, older, refresh>>

Pieces == 1..MaxDeltas
Load == [task : Chats, fresh : BOOLEAN, reset : BOOLEAN, scheduled : BOOLEAN,
         phase : {"page", "previews"}, page : SUBSET Pieces]
NoOlder == [phase |-> "off", fresh |-> FALSE, pages |-> 0, text |-> {}]

\* cursor: activityPageCursorRef is set.
ViewTypeOK ==
  /\ shown \in Chats /\ emitted \in [Chats -> 0..MaxDeltas] /\ stored \in [Chats -> 0..MaxDeltas]
  /\ view \in [owner : Chats, text : [Chats -> SUBSET Pieces], pages : 0..MaxPages, cursor : BOOLEAN]
  /\ streams \in [Chats -> SUBSET Pieces] /\ loads \in Seq(Load)
  /\ older \in [phase : {"off", "page", "previews"}, fresh : BOOLEAN, pages : 0..MaxPages, text : SUBSET Pieces]
  /\ refresh \in [timer : BOOLEAN, inFlight : BOOLEAN, wanted : BOOLEAN]

ViewInit ==
  /\ shown \in Chats
  /\ emitted = [t \in Chats |-> 0] /\ stored = emitted
  /\ view = [owner |-> shown, text |-> [t \in Chats |-> {}], pages |-> 0, cursor |-> FALSE]
  /\ streams = view.text
  /\ loads = <<[task |-> shown, fresh |-> TRUE, reset |-> TRUE, scheduled |-> FALSE,
                phase |-> "page", page |-> {}]>>
  /\ older = NoOlder
  /\ refresh = [timer |-> FALSE, inFlight |-> FALSE, wanted |-> FALSE]

-----------------------------------------------------------------------------
PagesAsked == Len(loads) + (IF older.phase = "off" THEN 0 ELSE 1)

\* A new request outdates those under way.
Outdated == [i \in DOMAIN loads |-> [loads[i] EXCEPT !.fresh = FALSE]]
WithLoad(t, reset, scheduled) ==
  Append(Outdated, [task |-> t, fresh |-> TRUE, reset |-> reset, scheduled |-> scheduled,
                    phase |-> "page", page |-> {}])

\* reconcilePendingAssistantStreams and isAssistantStreamPersisted compare lengths.
Reconciled(text, stream) == IF Cardinality(text) >= Cardinality(stream) THEN text ELSE stream
Persisted(text, stream) == Cardinality(text) >= Cardinality(stream)

Scheduled(r) == IF r.timer \/ r.inFlight THEN [r EXCEPT !.wanted = TRUE]
                ELSE [r EXCEPT !.wanted = TRUE, !.timer = TRUE]

\* selectTask, and the effects of the new task: the view stays until the load
\* is there; the refresh of the task before is cancelled.
ShowTask(t) ==
  /\ t # shown /\ PagesAsked < MaxLoads
  /\ shown' = t
  /\ view' = [view EXCEPT !.cursor = FALSE]
  /\ loads' = WithLoad(t, TRUE, FALSE)
  /\ older' = [older EXCEPT !.fresh = FALSE]
  /\ refresh' = [refresh EXCEPT !.timer = FALSE, !.wanted = FALSE]
  /\ UNCHANGED <<emitted, stored, streams>>

\* The activities are loaded anew: after an undo, a new prompt or a command. The
\* undo and the command name the task they began with, which may no longer be
\* the selected one: nothing compares the two.
Reload(t) ==
  /\ PagesAsked < MaxLoads
  /\ \E reset \in BOOLEAN : loads' = WithLoad(t, reset, FALSE)
  /\ UNCHANGED <<shown, emitted, stored, view, streams, older, refresh>>

\* assistant.delta: a piece of the task that is shown is shown when its turn is
\* the active one (activeTurnRef); any other is left to the store. Which turn is
\* active may be out of date: the list of tasks tells when a task is selected,
\* turn.started and the answer to turn.start later, and a new prompt, one that
\* fails and cancelTask forget it.
AssistantDelta(t) ==
  LET text == view.text[t] \cup {emitted[t] + 1} IN
  /\ emitted[t] < MaxDeltas
  /\ Cardinality({u \in Chats : emitted[u] # 0} \cup {t}) <= MaxStreamed
  /\ emitted' = [emitted EXCEPT ![t] = @ + 1]
  /\ \/ UNCHANGED <<view, streams>>
     \/ t = shown /\ view' = [view EXCEPT !.text[t] = text] /\ streams' = [streams EXCEPT ![t] = text]
  /\ UNCHANGED <<shown, stored, loads, older, refresh>>

\* Another event of the task that is shown.
OtherEvent ==
  /\ ~refresh.wanted
  /\ refresh' = Scheduled(refresh)
  /\ UNCHANGED <<shown, emitted, stored, view, streams, loads, older>>

StorePiece(t) ==
  /\ stored[t] < emitted[t]
  /\ stored' = [stored EXCEPT ![t] = @ + 1]
  /\ UNCHANGED <<shown, emitted, view, streams, loads, older, refresh>>

RefreshFires ==
  /\ refresh.timer /\ PagesAsked < MaxLoads
  /\ refresh' = [timer |-> FALSE, inFlight |-> TRUE, wanted |-> FALSE]
  /\ loads' = WithLoad(shown, FALSE, TRUE)
  /\ UNCHANGED <<shown, emitted, stored, view, streams, older>>

\* A load is over: a refresh that was asked for meanwhile is scheduled.
Over(i) ==
  /\ loads' = RemoveAt(loads, i)
  /\ refresh' = IF loads[i].scheduled
                THEN [refresh EXCEPT !.inFlight = FALSE, !.timer = @ \/ refresh.wanted] ELSE refresh

\* The page of the oldest load that waits for one: a stream that is shown, once
\* the page is merged, is no longer pending, even when the load is outdated. Of
\* a response the page holds nothing of, the streamed activity itself is taken.
PageArrives(i) ==
  LET t == loads[i].task
      page == 1..stored[t]
      merged == IF loads[i].reset \/ page # {} THEN page ELSE view.text[t] IN
  /\ loads[i].phase = "page" /\ \A j \in 1..(i - 1) : loads[j].phase # "page"
  /\ loads' = [loads EXCEPT ![i].phase = "previews", ![i].page = page]
  /\ streams' = [streams EXCEPT ![t] = IF merged # {} /\ Persisted(merged, @) THEN {} ELSE @]
  /\ UNCHANGED <<shown, emitted, stored, view, older, refresh>>

LoadFails(i) ==
  /\ loads[i].phase = "page" /\ \A j \in 1..(i - 1) : loads[j].phase # "page"
  /\ Over(i)
  /\ UNCHANGED <<shown, emitted, stored, view, streams, older>>

\* What a load leaves of the view: of its task only, the page in the place of
\* what was streamed, and what the page does not hold yet of the stream.
Rebuilt(load) ==
  LET t == load.task
      base == IF load.reset \/ load.page # {} THEN load.page ELSE view.text[t]
  IN [owner |-> t,
      text |-> [u \in Chats |-> IF u = t THEN Reconciled(base, streams[t]) ELSE {}],
      pages |-> IF load.reset \/ view.owner # t THEN 0 ELSE view.pages,
      cursor |-> TRUE]

\* Faulty variant of Commit: an outdated load is committed too.
CommitOutdated(i) ==
  /\ loads[i].phase = "previews"
  /\ view' = Rebuilt(loads[i])
  /\ Over(i)
  /\ UNCHANGED <<shown, emitted, stored, streams, older>>

\* The previews are loaded: the newest request rebuilds the view.
Commit(i) ==
  /\ loads[i].phase = "previews"
  /\ view' = IF loads[i].fresh THEN Rebuilt(loads[i]) ELSE view
  /\ Over(i)
  /\ UNCHANGED <<shown, emitted, stored, streams, older>>

LoadOlder ==
  /\ older.phase = "off" /\ PagesAsked < MaxLoads /\ view.cursor /\ view.pages < MaxPages
  /\ older' = [phase |-> "page", fresh |-> TRUE, pages |-> 0, text |-> {}]
  /\ UNCHANGED <<shown, emitted, stored, view, streams, loads, refresh>>

\* An older page: the new view is computed before the previews are loaded.
OlderArrives ==
  /\ older.phase = "page"
  /\ older' = IF ~older.fresh THEN NoOlder
              ELSE [phase |-> "previews", fresh |-> TRUE,
                    pages |-> IF view.owner # shown THEN 1
                              ELSE IF view.pages < MaxPages THEN view.pages + 1 ELSE MaxPages,
                    text |-> Reconciled(view.text[shown], streams[shown])]
  /\ UNCHANGED <<shown, emitted, stored, view, streams, loads, refresh>>

CommitOlder ==
  /\ older.phase = "previews"
  /\ view' = IF ~older.fresh THEN view
             ELSE [owner |-> shown, pages |-> older.pages, cursor |-> TRUE,
                   text |-> [u \in Chats |-> IF u = shown THEN older.text ELSE {}]]
  /\ older' = NoOlder
  /\ UNCHANGED <<shown, emitted, stored, streams, loads, refresh>>

ViewNext ==
  \/ OtherEvent \/ RefreshFires \/ LoadOlder \/ OlderArrives \/ CommitOlder
  \/ \E t \in Chats : ShowTask(t) \/ Reload(t) \/ AssistantDelta(t) \/ StorePiece(t)
  \/ \E i \in DOMAIN loads : PageArrives(i) \/ LoadFails(i) \/ Commit(i)

ViewSpec == ViewInit /\ [][ViewNext]_viewVars

-----------------------------------------------------------------------------
Complete == view.owner = shown /\ view.text[shown] = 1..emitted[shown]
ResetUnderWay == \E i \in DOMAIN loads : loads[i].reset /\ loads[i].fresh
OlderCommits == older.phase = "previews" /\ older'.phase = "off"
CommitsAll == \E i \in DOMAIN loads :
  /\ loads[i].phase = "previews" /\ loads[i].fresh /\ loads[i].page = 1..emitted[shown]
  /\ loads' = RemoveAt(loads, i)

\* The newest load is of a task that is no longer selected: an undo
\* (use-workspace-checkpoints.ts:19) or a command (workspace-command-action.ts:59)
\* asked for it after the selection had changed.
StrayLoad == \E i \in DOMAIN loads : loads[i].fresh /\ loads[i].task # shown

\* A piece of a turn that is not the active one: it comes after cancelTask, or
\* after startPrompt has failed (use-workspace-controller.ts:302).
Missed == emitted'[shown] # emitted[shown] /\ view' = view

\* However loads, older pages, events and selections interleave, unless the newest
\* load is a stray one, which outdates those of the selected task and puts another
\* task in its place: the view is filled with the activities of the selected task
\* only, a refresh drops no older page, a response that is complete and still
\* pending stays complete, and a load that read all of it shows all of it.
\* Excepted from the third are the piece that is missed, and the commit of an
\* older page, which holds the response as it was before its previews were loaded
\* (use-workspace-controller.ts:213-221). (A stream is no longer pending once its
\* own streamed activity was taken for the stored one, by a refresh that found
\* nothing stored: the next page may then shorten it.)
ViewKept ==
  [][/\ view'.owner # view.owner => view'.owner = shown \/ StrayLoad
     /\ shown' = shown /\ view.owner = shown /\ ~StrayLoad =>
          /\ view'.pages >= view.pages \/ ResetUnderWay
          /\ Complete /\ streams[shown] = view.text[shown] /\ ~OlderCommits /\ ~Missed => Complete'
          /\ CommitsAll => Complete']_viewVars

-----------------------------------------------------------------------------
(***************************************************************************)
(* The response of one turn in segments (streaming-activity.ts): what the  *)
(* window makes of the events, what the store makes of the same events     *)
(* later, and the refresh, which merges a page of the store into the       *)
(* window. A cell stands for an activity: a streamed one of the window,    *)
(* the one of the store with an identity of its own, or the replacement,   *)
(* which has the same identity in both.                                    *)
(***************************************************************************)
VARIABLES
  agentAt,     \* the segment that is streamed, and how the turn ended
  unstored,    \* events the store has not taken yet
  cells,       \* in the window
  storedCells,
  waitingText, \* pendingAssistantStreamsRef: the length of each segment, 0 for none
  fetch        \* the refresh under way

segVars == <<agentAt, unstored, cells, storedCells, waitingText, fetch>>

Cell == [seg : Segments, id : {"live", "stored", "replacement"}, len : 1..MaxSegText,
         phase : {"progress", "final"}, interrupted : BOOLEAN]
SegEvent == [what : {"delta", "progress", "final", "replaced", "failed"}, seg : Segments]
NoFetch == [phase |-> "off", reset |-> FALSE, page |-> {}]

SegTypeOK ==
  /\ agentAt \in [seg : Segments, turn : {"streams", "final", "over"}]
  /\ unstored \in Seq(SegEvent) /\ cells \subseteq Cell /\ storedCells \subseteq Cell
  /\ waitingText \in [Segments -> 0..MaxSegText]
  /\ fetch \in [phase : {"off", "page", "previews"}, reset : BOOLEAN, page : SUBSET Cell]

SegInit ==
  /\ agentAt = [seg |-> 1, turn |-> "streams"] /\ unstored = <<>>
  /\ cells = {} /\ storedCells = {} /\ waitingText = [g \in Segments |-> 0] /\ fetch = NoFetch

\* findAssistantIndex: the last cell of the segment, which is its replacement.
FindAssistant(cs, g) ==
  LET own == {c \in cs : c.seg = g}
      replacement == {c \in own : c.id = "replacement"}
  IN IF replacement # {} THEN replacement ELSE own

ShownLength(cs, g) == IF FindAssistant(cs, g) = {} THEN 0 ELSE (CHOOSE c \in FindAssistant(cs, g) : TRUE).len

\* appendAssistantDelta, and appendAssistantDeltas of the store.
AppendDelta(cs, g, how) ==
  LET old == FindAssistant(cs, g)
      Longer(c) == [c EXCEPT !.len = @ + 1, !.phase = "progress"]
  IN IF old = {} THEN cs \cup {[seg |-> g, id |-> how, len |-> 1, phase |-> "progress", interrupted |-> FALSE]}
     ELSE (cs \ old) \cup {Longer(c) : c \in old}

MarkPhase(cs, g, phase) ==
  LET old == FindAssistant(cs, g) IN (cs \ old) \cup {[c EXCEPT !.phase = phase] : c \in old}

\* markAssistantTurnCompleted.
MarkInterrupted(cs) == {[c EXCEPT !.interrupted = @ \/ c.phase = "progress"] : c \in cs}

ReplacementOf(g) == [seg |-> g, id |-> "replacement", len |-> 1, phase |-> "final", interrupted |-> FALSE]

\* What an event makes of the cells of the window, and of those of the store: a
\* replaced response leaves the window, and stays in the store as progress.
InShown(cs, e) ==
  CASE e.what = "delta" -> AppendDelta(cs, e.seg, "live")
    [] e.what \in {"progress", "final"} -> MarkPhase(cs, e.seg, e.what)
    [] e.what = "replaced" -> {ReplacementOf(e.seg)}
    [] e.what = "failed" -> MarkInterrupted(cs)
InStore(cs, e) ==
  CASE e.what = "delta" -> AppendDelta(cs, e.seg, "stored")
    [] e.what \in {"progress", "final"} -> MarkPhase(cs, e.seg, e.what)
    [] e.what = "replaced" -> {[c EXCEPT !.phase = "progress"] : c \in cs} \cup {ReplacementOf(e.seg)}
    [] e.what = "failed" -> MarkInterrupted(cs)

\* The text of a stream that is pending, where it is longer or shown nowhere.
ReconcileCells(cs, pending) ==
  LET shorter == {c \in cs : c \in FindAssistant(cs, c.seg) /\ c.len < pending[c.seg]}
  IN (cs \ shorter) \cup {[c EXCEPT !.len = pending[c.seg]] : c \in shorter}
     \cup {[seg |-> g, id |-> "live", len |-> pending[g], phase |-> "progress", interrupted |-> FALSE] :
             g \in {h \in Segments : pending[h] > 0 /\ FindAssistant(cs, h) = {}}}

\* Faulty variant of MergeCells: activities are merged by their identity only.
MergeById(cs, page) ==
  {c \in cs : ~\E p \in page : p.seg = c.seg /\ p.id = c.id} \cup page

\* mergeActivities: what the page holds of a segment takes the place of what
\* was streamed of it.
MergeCells(cs, page) ==
  {c \in cs : ~\E p \in page : p.seg = c.seg /\ (p.id = c.id \/ c.id = "live")} \cup page

-----------------------------------------------------------------------------
\* An event of the agent, which the window takes at once.
AgentSends(what) ==
  LET e == [what |-> what, seg |-> agentAt.seg] IN
  /\ unstored' = Append(unstored, e) /\ cells' = InShown(cells, e)
  /\ UNCHANGED <<storedCells, fetch>>

SentLength(g) == ShownLength(storedCells, g)
  + Cardinality({i \in DOMAIN unstored : unstored[i] = [what |-> "delta", seg |-> g]})

SegmentDelta ==
  /\ agentAt.turn = "streams" /\ SentLength(agentAt.seg) < MaxSegText
  /\ AgentSends("delta")
  /\ waitingText' = [waitingText EXCEPT ![agentAt.seg] =
                       ShownLength(cells', agentAt.seg)]
  /\ UNCHANGED agentAt

SegmentEnds ==
  /\ agentAt.turn = "streams" /\ FindAssistant(cells, agentAt.seg) # {}
  /\ \/ agentAt.seg + 1 \in Segments /\ AgentSends("progress") /\ agentAt' = [agentAt EXCEPT !.seg = @ + 1]
     \/ AgentSends("final") /\ agentAt' = [agentAt EXCEPT !.turn = "final"]
  /\ UNCHANGED waitingText

\* assistant.replaced, applied to the streams that are pending too.
ResponseReplaced ==
  /\ agentAt.turn = "final" /\ AgentSends("replaced")
  /\ agentAt' = [agentAt EXCEPT !.turn = "over"]
  /\ waitingText' = [g \in Segments |-> 0]

SegTurnFails ==
  /\ agentAt.turn = "streams" /\ AgentSends("failed")
  /\ agentAt' = [agentAt EXCEPT !.turn = "over"] /\ UNCHANGED waitingText

StoreEvent ==
  /\ unstored # <<>>
  /\ storedCells' = InStore(storedCells, Head(unstored)) /\ unstored' = Tail(unstored)
  /\ UNCHANGED <<agentAt, cells, waitingText, fetch>>

StartFetch ==
  /\ fetch.phase = "off"
  /\ \E reset \in BOOLEAN : fetch' = [NoFetch EXCEPT !.phase = "page", !.reset = reset]
  /\ UNCHANGED <<agentAt, unstored, cells, storedCells, waitingText>>

Base(f) == IF f.reset THEN f.page ELSE MergeCells(cells, f.page)

\* The page: a stream that the store holds in full is no longer pending.
FetchPage ==
  LET f == [fetch EXCEPT !.phase = "previews", !.page = storedCells]
      held == {c.seg : c \in {d \in Base(f) : d \in FindAssistant(Base(f), d.seg) /\ d.len >= waitingText[d.seg]}}
  IN /\ fetch.phase = "page" /\ fetch' = f
     /\ waitingText' = [g \in Segments |-> IF g \in held THEN 0 ELSE waitingText[g]]
     /\ UNCHANGED <<agentAt, unstored, cells, storedCells>>

CommitFetch ==
  /\ fetch.phase = "previews"
  /\ cells' = ReconcileCells(Base(fetch), waitingText) /\ fetch' = NoFetch
  /\ UNCHANGED <<agentAt, unstored, storedCells, waitingText>>

SegNext ==
  \/ SegmentDelta \/ SegmentEnds \/ ResponseReplaced \/ SegTurnFails \/ StoreEvent
  \/ StartFetch \/ FetchPage \/ CommitFetch

SegSpec == SegInit /\ [][SegNext]_segVars

-----------------------------------------------------------------------------
CaughtUp == fetch.phase = "previews" /\ fetch.page = storedCells /\ unstored = <<>>

\* However the refreshes of a turn interleave with its events: a segment is
\* never shown twice, streamed and stored; its text is never shortened while it
\* is pending; and a refresh of all that happened shows what is stored.
SegmentsAgree ==
  [][/\ \A c, d \in cells' : c.seg = d.seg /\ c.id = "live" => d = c \/ d.id = "replacement"
     /\ \A g \in Segments : agentAt'.turn = "streams" /\ waitingText[g] > 0 =>
          ShownLength(cells', g) >= ShownLength(cells, g)
     /\ CaughtUp /\ fetch'.phase = "off" => cells' = storedCells]_segVars
=============================================================================
