--------------------------- MODULE BrowserService ---------------------------
(***************************************************************************)
(* BrowserService (src/main/browser): one session of it, with its tabs,    *)
(* views, recording and downloads, then the pages of several sessions.     *)
(* The parts share no state.                                               *)
(***************************************************************************)
EXTENDS Naturals, Sequences, FiniteSets

-----------------------------------------------------------------------------
(***************************************************************************)
(* One session of BrowserService (src/main/browser/browser-service.ts):    *)
(* its tabs and their native views, and the sizes the drawer asks for.     *)
(* The page of a tab is blank or not; a size is a member of Sizes; the     *)
(* order of the tabs is left out.                                          *)
(***************************************************************************)

CONSTANTS
  Tabs, Sizes,
  NoTab,
  Hidden       \* EMPTY_BOUNDS, and an undefined size

ASSUME TabsAssumption ==
  NoTab \notin Tabs /\ Hidden \notin Sizes

VARIABLES
  phase,      \* the session: "none", "open", "clearing" (close awaits), "closed"
  activeTab,  \* activeTabId
  tab         \* the tabs, see TabState

tabVars == <<phase, activeTab, tab>>

\* boundsTask is the size whose viewport is being set; css is the viewport of
\* the page, native the size the service believes it has.
TabState == [at : {"new", "loading", "ready", "gone"}, blank : BOOLEAN, visible : BOOLEAN,
             bounds : Sizes \cup {Hidden}, native : Sizes \cup {Hidden}, css : Sizes \cup {Hidden},
             nativeMode : BOOLEAN, boundsTask : Sizes \cup {Hidden}, pending : Sizes \cup {Hidden, NoTab}]

TabsTypeOK ==
  /\ phase \in {"none", "open", "clearing", "closed"} /\ activeTab \in Tabs \cup {NoTab}
  /\ tab \in [Tabs -> TabState]

TabsInit ==
  /\ phase = "none" /\ activeTab = NoTab
  /\ tab = [t \in Tabs |-> [at |-> "new", blank |-> TRUE, visible |-> FALSE, bounds |-> Hidden,
                            native |-> Hidden, css |-> Hidden, nativeMode |-> FALSE,
                            boundsTask |-> Hidden, pending |-> NoTab]]

Listed == {t \in Tabs : tab[t].at \in {"loading", "ready"}}

\* applyTabVisibility: the active tab is shown if it has a page, and every
\* other one is hidden and forgets its size.
Applied(tabs, on) ==
  [t \in Tabs |-> IF tabs[t].at \notin {"loading", "ready"} THEN tabs[t]
                  ELSE IF t = on /\ ~tabs[t].blank THEN [tabs[t] EXCEPT !.visible = TRUE]
                  ELSE [tabs[t] EXCEPT !.visible = FALSE, !.bounds = Hidden, !.native = Hidden]]

\* create and createTab: the view is in the map, and hidden, while its blank
\* page loads; it becomes the active tab afterwards.
CreateTab(t) ==
  /\ tab[t].at = "new"
  /\ \/ phase = "none" /\ phase' = "open"
     \/ phase \in {"open", "clearing"} /\ Listed # {} /\ UNCHANGED phase
  /\ tab' = [tab EXCEPT ![t].at = "loading"]
  /\ UNCHANGED <<activeTab>>

TabLoaded(t) ==
  /\ tab[t].at = "loading"
  /\ activeTab' = t
  /\ tab' = Applied([tab EXCEPT ![t].at = "ready"], t)
  /\ UNCHANGED <<phase>>

SelectTab(t) ==
  /\ phase \in {"open", "clearing"} /\ t \in Listed
  /\ activeTab' = t
  /\ tab' = Applied(tab, t)
  /\ UNCHANGED <<phase>>

\* closeTab: the last tab stays; the neighbour of a closed active tab becomes
\* the active one.
CloseTab(t) ==
  /\ phase \in {"open", "clearing"} /\ t \in Listed /\ Cardinality(Listed) > 1
  /\ IF activeTab = t THEN activeTab' \in Listed \ {t} ELSE UNCHANGED activeTab
  /\ tab' = Applied([tab EXCEPT ![t].at = "gone", ![t].visible = FALSE], activeTab')
  /\ UNCHANGED <<phase>>

\* navigate, reload and the events of the page: it is no longer blank.
Navigate(t) ==
  /\ phase \in {"open", "clearing"} /\ tab[t].at = "ready"
  /\ tab' = [tab EXCEPT ![t].blank = FALSE]
  /\ UNCHANGED <<phase, activeTab>>

\* Faulty variant of Shows: a request is applied whatever tab is active.
ShowsAny(t, size) == size # Hidden /\ ~tab[t].blank

Shows(t, size) == size # Hidden /\ activeTab = t /\ ~tab[t].blank

\* flushViewBounds from the top of its loop to the next await: the newest
\* request is taken and given to the view, and the viewport of the page
\* follows unless the service believes that it has this size.
FlushViewBounds(t, was, size) ==
  LET shown == Shows(t, size)
      next == IF shown THEN size ELSE Hidden
      given == [was EXCEPT !.pending = NoTab, !.visible = shown, !.bounds = next]
  IN IF shown /\ ~(was.nativeMode /\ was.native = next)
     THEN [given EXCEPT !.boundsTask = next]
     ELSE [given EXCEPT !.boundsTask = Hidden, !.native = next]

\* A size, or Hidden for an invisible drawer; one task per tab applies them.
SetViewBounds(t, size) ==
  /\ phase \in {"open", "clearing"} /\ t \in Listed
  /\ tab' = [tab EXCEPT ![t] = IF @.boundsTask # Hidden THEN [@ EXCEPT !.pending = size]
                               ELSE FlushViewBounds(t, @, size)]
  /\ UNCHANGED <<phase, activeTab>>

\* The viewport is set, or not: the loop ends with its tab, goes on with a
\* newer request, or notes the size.
ViewportSet(t) ==
  /\ tab[t].boundsTask # Hidden
  /\ \E ok \in BOOLEAN :
       LET size == tab[t].boundsTask
           set == [tab[t] EXCEPT !.nativeMode = ok, !.css = IF ok THEN size ELSE @]
       IN tab' = [tab EXCEPT ![t] =
            IF phase = "closed" \/ t \notin Listed THEN [set EXCEPT !.boundsTask = Hidden]
            ELSE IF set.pending # NoTab THEN FlushViewBounds(t, set, set.pending)
            ELSE [set EXCEPT !.boundsTask = Hidden, !.native = size]]
  /\ UNCHANGED <<phase, activeTab>>

\* hide, and the configured viewport it restores.
HideSession ==
  /\ phase \in {"open", "clearing"}
  /\ tab' = [t \in Tabs |-> IF t \notin Listed THEN tab[t]
       ELSE [tab[t] EXCEPT !.visible = FALSE, !.bounds = Hidden, !.native = Hidden,
                           !.nativeMode = FALSE, !.css = IF tab[t].nativeMode THEN Hidden ELSE @]]
  /\ UNCHANGED <<phase, activeTab>>

\* close(): the data may be cleared before the tabs go and the session is
\* forgotten.
CloseBrowser ==
  /\ phase = "open" /\ phase' = "clearing"
  /\ UNCHANGED <<activeTab, tab>>

BrowserClosed ==
  /\ phase = "clearing" /\ phase' = "closed"
  /\ tab' = [t \in Tabs |-> IF t \in Listed THEN [tab[t] EXCEPT !.at = "gone", !.visible = FALSE] ELSE tab[t]]
  /\ UNCHANGED <<activeTab>>

TabsNext ==
  \/ HideSession \/ CloseBrowser \/ BrowserClosed
  \/ \E t \in Tabs : \/ CreateTab(t) \/ TabLoaded(t) \/ SelectTab(t) \/ CloseTab(t) \/ Navigate(t)
                     \/ ViewportSet(t)
                     \/ \E size \in Sizes \cup {Hidden} : SetViewBounds(t, size)

TabsSpec == TabsInit /\ [][TabsNext]_tabVars

-----------------------------------------------------------------------------
\* Sizes, selections and page loads arrive in any order: no two views of a
\* session are painted over each other, the one that is shown is that of the
\* active tab, and a tab that was closed is never shown again.
OneTabShown == \A t \in Tabs : tab[t].visible => t = activeTab /\ tab[t].at \in {"loading", "ready"}

-----------------------------------------------------------------------------
(***************************************************************************)
(* The recording and the downloads of one session of BrowserService        *)
(* (src/main/browser/browser-service.ts, browser-downloads.ts). Frames are *)
(* captured by the intervals that run, by startRecording and by            *)
(* stopRecording; intervals are counted, since one may be lost.            *)
(***************************************************************************)

CONSTANTS
  MaxFrames,   \* MAX_RECORDING_FRAMES
  MaxStarts,   \* bound on the calls of startRecording
  Downloads, NoDownload

ASSUME CaptureAssumption == {MaxFrames, MaxStarts} \subseteq Nat /\ NoDownload \notin Downloads

VARIABLES
  captureOpen,       \* the session is still in the map
  starts, intervals,
  handle,     \* recordingTimer: not set, running, or cleared by close
  frames, inFlight,
  starter,    \* the frame in flight is that of a startRecording
  download, pendingDownload

captureVars == <<captureOpen, starts, intervals, handle, frames, inFlight, starter, download, pendingDownload>>
recordingVars == <<starts, intervals, handle, frames, inFlight, starter>>

CaptureTypeOK ==
  /\ captureOpen \in BOOLEAN /\ inFlight \in BOOLEAN /\ starter \in BOOLEAN
  /\ starts \in 0..MaxStarts /\ intervals \in 0..MaxStarts
  /\ handle \in {"none", "running", "cleared"} /\ frames \in Nat
  /\ download \in [Downloads -> {"new", "directory", "waiting", "saving", "done", "failed"}]
  /\ pendingDownload \in Downloads \cup {NoDownload}

CaptureInit ==
  /\ captureOpen = TRUE /\ starts = 0 /\ intervals = 0 /\ handle = "none"
  /\ frames = 0 /\ inFlight = FALSE /\ starter = FALSE
  /\ download = [d \in Downloads |-> "new"] /\ pendingDownload = NoDownload

Cleared == IF handle = "running" THEN intervals - 1 ELSE intervals

\* Faulty variant of CaptureFrame: two captures at a time.
CaptureAnyway(first, count, timer) ==
  IF frames >= MaxFrames
  THEN /\ UNCHANGED <<frames, inFlight, starter>>
       /\ intervals' = Cleared + (IF first THEN 1 ELSE 0)
       /\ handle' = IF first THEN "running" ELSE "none"
  ELSE /\ frames' = IF inFlight THEN frames + 1 ELSE frames
       /\ inFlight' = TRUE /\ starter' = first
       /\ intervals' = count /\ handle' = timer

\* captureRecordingFrame until its capture; startRecording, whose frame is
\* the first, sets its interval as soon as the capture is refused.
CaptureFrame(first, count, timer) ==
  IF frames >= MaxFrames
  THEN /\ UNCHANGED <<frames, inFlight, starter>>
       /\ intervals' = Cleared + (IF first THEN 1 ELSE 0)
       /\ handle' = IF first THEN "running" ELSE "none"
  ELSE /\ UNCHANGED frames
       /\ inFlight' = TRUE /\ starter' = (IF inFlight THEN starter ELSE first)
       /\ intervals' = count + (IF first /\ inFlight THEN 1 ELSE 0)
       /\ handle' = IF first /\ inFlight THEN "running" ELSE timer

StartRecording ==
  /\ captureOpen /\ handle = "none" /\ starts < MaxStarts
  /\ starts' = starts + 1
  /\ CaptureFrame(TRUE, intervals, handle)
  /\ UNCHANGED <<captureOpen, download, pendingDownload>>

Tick ==
  /\ intervals > 0
  /\ CaptureFrame(FALSE, intervals, handle)
  /\ UNCHANGED <<captureOpen, starts, download, pendingDownload>>

StopRecording ==
  /\ captureOpen
  /\ CaptureFrame(FALSE, Cleared, "none")
  /\ UNCHANGED <<captureOpen, starts, download, pendingDownload>>

\* The frame is written, or the recording stops; a start goes on either way.
FrameCaptured ==
  /\ inFlight /\ inFlight' = FALSE /\ starter' = FALSE
  /\ \E ok \in BOOLEAN :
       /\ frames' = IF ok THEN frames + 1 ELSE frames
       /\ intervals' = (IF ok THEN intervals ELSE Cleared) + (IF starter THEN 1 ELSE 0)
       /\ handle' = IF starter THEN "running" ELSE IF ok THEN handle ELSE "none"
  /\ UNCHANGED <<captureOpen, starts, download, pendingDownload>>

\* downloadBrowserResource: its directory, then the pending download.
Download(d) ==
  /\ \/ /\ download[d] = "new" /\ captureOpen
        /\ download' = [download EXCEPT ![d] = IF pendingDownload = NoDownload THEN "directory" ELSE "failed"]
        /\ UNCHANGED pendingDownload
     \/ /\ download[d] = "directory"
        /\ download' = [download EXCEPT ![d] = "waiting"] /\ pendingDownload' = d
  /\ UNCHANGED <<captureOpen, recordingVars>>

\* Its timer, the failure of its request, or a will-download event.
PendingTaken ==
  /\ pendingDownload # NoDownload /\ pendingDownload' = NoDownload
  /\ \E how \in {"saving", "failed"} : download' = [download EXCEPT ![pendingDownload] = how]
  /\ UNCHANGED <<captureOpen, recordingVars>>

ItemDone(d) ==
  /\ download[d] = "saving"
  /\ \E how \in {"done", "failed"} : download' = [download EXCEPT ![d] = how]
  /\ UNCHANGED <<captureOpen, pendingDownload, recordingVars>>

\* close(): the interval that is known and the pending download end.
CloseCapture ==
  /\ captureOpen /\ captureOpen' = FALSE
  /\ intervals' = Cleared /\ handle' = IF handle = "running" THEN "cleared" ELSE handle
  /\ download' = [d \in Downloads |-> IF d = pendingDownload THEN "failed" ELSE download[d]]
  /\ pendingDownload' = NoDownload
  /\ UNCHANGED <<starts, frames, inFlight, starter>>

CaptureNext ==
  \/ StartRecording \/ Tick \/ StopRecording \/ FrameCaptured \/ PendingTaken \/ CloseCapture
  \/ \E d \in Downloads : Download(d) \/ ItemDone(d)

CaptureSpec == CaptureInit /\ [][CaptureNext]_captureVars

-----------------------------------------------------------------------------
\* Whatever starts, stops, lost intervals and failures overlap, a recording
\* never has more frames than it may keep.
FramesBounded == frames <= MaxFrames

-----------------------------------------------------------------------------
(***************************************************************************)
(* The pages of BrowserService (src/main/browser): where their navigation  *)
(* may go and whose requests are recorded (browser-service.ts), the        *)
(* commands sent to the debugger of a page (browser-devtools.ts), and what *)
(* an agent does to the controls of a page (browser-page-operations.ts).   *)
(* A URL is its origin; texts are left out.                                *)
(***************************************************************************)

CONSTANTS
  PageSessions,  \* sessions of one profile: they share an Electron session
  PageTabs,
  Sites, Allowed,  \* origins, and those on the allowlist
  Blank, NoSite,
  DevCommands,   \* calls of withDebugger
  Controls,      \* elements a target of the agent may name
  MaxWaits       \* polls before the time of waitFor is over

ASSUME PagesAssumption ==
  /\ Allowed \subseteq Sites /\ Blank \notin Sites /\ NoSite \notin Sites \cup {Blank} \cup PageSessions
  /\ MaxWaits \in Nat \ {0}

VARIABLES
  at,        \* the pages, see PageState
  listener,  \* sessions whose webRequest handler the shared Electron session has
  recorded,  \* network: session -> entries [tab: named, by: made the request]
  attached, pageEvents, \* the debugger of a page, and whether Page.enable was sent to it
  commandQueue, \* debuggerQueues: the commands in order, the first one may run
  command,   \* the commands, see CommandState
  dialog,    \* the page shows a dialog
  dialogKept,\* entry.dialogs has a dialog of the tab
  control,   \* the controls of the page, see ControlState
  waiting    \* polls of a running waitFor, 0 when none runs

navVars == <<at, listener, recorded>>
devVars == <<attached, pageEvents, commandQueue, command, dialog, dialogKept>>
fieldVars == <<control, waiting>>

PageState == [of : PageSessions \cup {NoSite}, url : Sites \cup {Blank}, past : SUBSET Sites,
              heading : Sites \cup {NoSite}]  \* the tab is loading unless heading is NoSite
CommandState == [what : {"none", "emulate", "answer"},
                 now : {"new", "queued", "running", "done", "failed"},
                 attachedHere : BOOLEAN, cut : BOOLEAN]
ControlState == [kind : {"button", "text", "password", "checkbox", "select"},
                 off : BOOLEAN, filled : BOOLEAN]

PagesTypeOK ==
  /\ at \in [PageTabs -> PageState] /\ listener \in SUBSET PageSessions
  /\ recorded \in [PageSessions -> SUBSET [tab : PageTabs, by : PageTabs]]
  /\ attached \in BOOLEAN /\ pageEvents \in {"off", "asked", "on"}
  /\ commandQueue \in Seq(DevCommands) /\ command \in [DevCommands -> CommandState]
  /\ dialog \in BOOLEAN /\ dialogKept \in BOOLEAN
  /\ control \in [Controls -> ControlState]
  /\ waiting \in 0 .. MaxWaits

NavInit ==
  /\ at = [t \in PageTabs |-> [of |-> NoSite, url |-> Blank, past |-> {}, heading |-> NoSite]]
  /\ listener = {} /\ recorded = [s \in PageSessions |-> {}]

DevInit ==
  /\ attached = FALSE /\ pageEvents = "off" /\ commandQueue = <<>> /\ dialog = FALSE /\ dialogKept = FALSE
  /\ command = [d \in DevCommands |-> [what |-> "none", now |-> "new", attachedHere |-> FALSE,
                                       cut |-> FALSE]]

FieldInit ==
  /\ control \in [Controls -> {c \in ControlState : ~c.filled}]
  /\ waiting = 0

-----------------------------------------------------------------------------
\* Navigation and requests.

TabsOf(s) == {t \in PageTabs : at[t].of = s}

\* configureTab: the first tab of a session hands the handlers of the session
\* to the Electron session, which keeps the last ones it was given.
OpenPage(s, t) ==
  /\ at[t].of = NoSite
  /\ at' = [at EXCEPT ![t].of = s]
  /\ listener' = IF TabsOf(s) = {} THEN {s} ELSE listener
  /\ UNCHANGED recorded

\* navigate, and open: an approved http URL of the allowlist.
NavigateTo(t, u) ==
  /\ at[t].of # NoSite /\ u \in Allowed
  /\ at' = [at EXCEPT ![t].heading = u]
  /\ UNCHANGED <<listener, recorded>>

\* will-navigate and will-redirect: only an origin of the allowlist passes.
BlocksLinks(t, u) == u \notin Allowed /\ at[t].heading = NoSite
Blocks(t, u) == u \notin Allowed

PageNavigates(t, u) ==
  /\ at[t].of # NoSite /\ at[t].url # Blank /\ at[t].heading = NoSite
  /\ at' = IF Blocks(t, u) THEN at ELSE [at EXCEPT ![t].heading = u]
  /\ UNCHANGED <<listener, recorded>>

ServerRedirects(t, u) ==
  /\ at[t].heading # NoSite
  /\ at' = IF Blocks(t, u) THEN [at EXCEPT ![t].heading = NoSite]
           ELSE [at EXCEPT ![t].heading = u]
  /\ UNCHANGED <<listener, recorded>>

\* did-navigate and did-stop-loading: the snapshot follows the page.
Arrives(t) ==
  /\ at[t].heading # NoSite
  /\ at' = [at EXCEPT ![t].url = at[t].heading, ![t].past = @ \cup {at[t].heading},
                      ![t].heading = NoSite]
  /\ UNCHANGED <<listener, recorded>>

FailsToLoad(t) ==
  /\ at[t].heading # NoSite
  /\ at' = [at EXCEPT ![t].heading = NoSite]
  /\ UNCHANGED <<listener, recorded>>

\* navigateHistory and reload: only a page the tab has shown.
NavigateHistory(t, u) ==
  /\ at[t].of # NoSite /\ u \in at[t].past
  /\ at' = [at EXCEPT ![t].heading = u]
  /\ UNCHANGED <<listener, recorded>>

\* onCompleted and onErrorOccurred: the request belongs to the tab whose page
\* made it, if the session whose handler is installed has it.
OwnerByHandler(s, t) == {o \in TabsOf(s) : at[o].heading # NoSite}
Owner(s, t) == TabsOf(s) \cap {t}

RequestEnds(t) ==
  /\ at[t].of # NoSite
  /\ recorded' = [s \in PageSessions |->
       IF s \in listener THEN recorded[s] \cup {[tab |-> o, by |-> t] : o \in Owner(s, t)}
       ELSE recorded[s]]
  /\ UNCHANGED <<at, listener>>

\* network: the entries of a tab.
NetworkOf(s, t) == {e \in recorded[s] : e.tab = t}

ClosePages(s) ==
  /\ TabsOf(s) # {}
  /\ at' = [t \in PageTabs |-> IF at[t].of = s
              THEN [of |-> NoSite, url |-> Blank, past |-> {}, heading |-> NoSite]
              ELSE at[t]]
  /\ recorded' = [recorded EXCEPT ![s] = {}]
  /\ UNCHANGED listener

NavNext ==
  \/ \E s \in PageSessions : ClosePages(s) \/ \E t \in PageTabs : OpenPage(s, t)
  \/ \E t \in PageTabs :
       \/ Arrives(t) \/ FailsToLoad(t) \/ RequestEnds(t)
       \/ \E u \in Sites : NavigateTo(t, u) \/ PageNavigates(t, u) \/ ServerRedirects(t, u)
                           \/ NavigateHistory(t, u)

\* A page never leaves the allowlist, whatever it, its servers and the history
\* of the tab ask for.
PagesAllowed == \A t \in PageTabs : at[t].url \in Allowed \cup {Blank}

\* The requests shown for a tab are the ones its page made, although sessions
\* of one profile share the handlers.
RequestsOwned ==
  \A s \in PageSessions : \A t \in PageTabs : \A e \in NetworkOf(s, t) : e.by = t /\ at[t].of = s

-----------------------------------------------------------------------------
\* The debugger of one page.

\* withDebugger: the call waits for the one before it.
Queue(d, w) ==
  /\ command[d].now = "new"
  /\ w = "answer" => dialogKept
  /\ command' = [command EXCEPT ![d].what = w, ![d].now = "queued"]
  /\ commandQueue' = Append(commandQueue, d)
  /\ UNCHANGED <<attached, pageEvents, dialog, dialogKept>>

MayRunAtOnce(d) == commandQueue # <<>>
MayRun(d) == commandQueue # <<>> /\ Head(commandQueue) = d

Run(d) ==
  /\ command[d].now = "queued" /\ MayRun(d)
  /\ command' = [command EXCEPT ![d].now = "running", ![d].attachedHere = ~attached]
  /\ attached' = TRUE
  /\ UNCHANGED <<pageEvents, commandQueue, dialog, dialogKept>>

\* Another inspector has the page: attach throws.
RunFails(d) ==
  /\ command[d].now = "queued" /\ MayRun(d) /\ ~attached
  /\ command' = [command EXCEPT ![d].now = "failed"]
  /\ commandQueue' = Tail(commandQueue)
  /\ UNCHANGED <<attached, pageEvents, dialog, dialogKept>>

\* handleDialog, "answer", and the commands that leave no state here ("emulate":
\* setViewport, resetViewport, accessibilityTree, uploadFile), each with the
\* finally of withDebugger: who attached the debugger detaches it.
EndCommand(d, ok) ==
  /\ command[d].now = "running"
  /\ ok => attached /\ (command[d].what = "answer" => dialog)
  /\ command' = [command EXCEPT ![d].now = IF ok THEN "done" ELSE "failed"]
  /\ commandQueue' = Tail(commandQueue)
  /\ IF command[d].attachedHere THEN attached' = FALSE /\ pageEvents' = "off"
     ELSE UNCHANGED <<attached, pageEvents>>
  /\ IF ok /\ command[d].what = "answer" THEN dialog' = FALSE /\ dialogKept' = FALSE
     ELSE UNCHANGED <<dialog, dialogKept>>

\* press: enableDialogEvents attaches the debugger beside the queue, and nobody
\* detaches it; when it cannot, the key is sent all the same.
Press(attaches) ==
  /\ IF attached \/ attaches THEN attached' = TRUE /\ pageEvents' = "asked"
     ELSE UNCHANGED <<attached, pageEvents>>
  /\ UNCHANGED <<commandQueue, command, dialog, dialogKept>>

EventsEnabled ==
  /\ pageEvents = "asked" /\ attached /\ pageEvents' = "on"
  /\ UNCHANGED <<attached, commandQueue, command, dialog, dialogKept>>

DialogOpens ==
  /\ ~dialog /\ dialog' = TRUE
  /\ dialogKept' = (dialogKept \/ pageEvents = "on")
  /\ UNCHANGED <<attached, pageEvents, commandQueue, command>>

UserAnswers ==
  /\ dialog /\ dialog' = FALSE
  /\ UNCHANGED <<attached, pageEvents, commandQueue, command, dialogKept>>

\* The page goes away under its debugger.
Detached ==
  /\ attached /\ attached' = FALSE /\ pageEvents' = "off"
  /\ command' = [d \in DevCommands |-> [command[d] EXCEPT !.cut = @ \/ command[d].now = "running"]]
  /\ UNCHANGED <<commandQueue, dialog, dialogKept>>

DevNext ==
  \/ \E d \in DevCommands : \/ Run(d) \/ RunFails(d) \/ \E ok \in BOOLEAN : EndCommand(d, ok)
                            \/ \E w \in {"emulate", "answer"} : Queue(d, w)
  \/ \E attaches \in BOOLEAN : Press(attaches)
  \/ EventsEnabled \/ DialogOpens \/ UserAnswers \/ Detached

\* While a command runs the debugger stays attached to its page, unless the
\* page itself took it away: nobody else's command ends it.
DebuggerHeld ==
  \A d \in DevCommands : command[d].now = "running" => attached \/ command[d].cut

-----------------------------------------------------------------------------
\* The controls of one page. What reads of them tell the agent is left out.

\* The page changes its own controls: another document, a field unmasked.
PageChanges(x) ==
  /\ \E c \in ControlState : c # control[x] /\ (c.filled => control[x].filled)
                             /\ control' = [control EXCEPT ![x] = c]
  /\ UNCHANGED waiting

\* executeBrowserTargetAction: the target is looked up again, and the control
\* it names is refused when it does not fit the action.
Fits(x, action) ==
  CASE action = "check"  -> control[x].kind = "checkbox"
    [] action = "select" -> control[x].kind = "select"
    [] OTHER             -> ~control[x].off

TargetAction(x, action) ==
  /\ Fits(x, action)
  /\ control' = [control EXCEPT ![x].filled = CASE action = "clear" -> FALSE
                                                [] action = "click" -> @
                                                [] OTHER -> TRUE]
  /\ UNCHANGED waiting

\* waitForBrowserCondition: the page is asked until the time is over.
WaitFor ==
  /\ waiting = 0 /\ waiting' = 1
  /\ UNCHANGED control

WaitPolls ==
  /\ waiting > 0
  /\ waiting' = IF waiting = MaxWaits \/ \E x \in Controls : control[x].filled THEN 0 ELSE waiting + 1
  /\ UNCHANGED control

FieldNext ==
  \/ \E x \in Controls :
       \/ PageChanges(x)
       \/ \E action \in {"type", "clear", "click", "check", "select"} : TargetAction(x, action)
  \/ WaitFor \/ WaitPolls
=============================================================================
