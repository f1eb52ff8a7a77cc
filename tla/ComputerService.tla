-------------------------- MODULE ComputerService --------------------------
(***************************************************************************)
(* Computer use (src/main/computer, resources/computer-use): the queue of  *)
(* actions over mouse, keyboard and screen, and the scripts that act on the*)
(* windows of other applications.  The two share no state.                 *)
(***************************************************************************)
EXTENDS Naturals, Sequences, FiniteSets

-----------------------------------------------------------------------------
(***************************************************************************)
(* Native computer use (src/main/computer): the broker's global queue      *)
(* (computer-host-tool-broker.ts), the overlay, and the actions of the     *)
(* portable service (portable-computer-service.ts and                      *)
(* portable-computer-native-actions.ts) as sequences of helper commands,   *)
(* each of which may fail, time out or be aborted.                         *)
(***************************************************************************)

CONSTANTS
  Uses,       \* requests
  Actions,    \* what they ask for, some of the domain of Plan
  MaxPolls    \* bound on the polls of a wait

ASSUME UseAssumption ==
  /\ MaxPolls \in Nat \ {0}
  /\ Actions # {} /\ Actions \subseteq {"screenshot", "ocr", "list", "window", "wait", "script", "bridge",
                                       "click", "type", "scroll", "drag", "dialog"}

VARIABLES
  line,       \* requests chained behind each other, the first one has its turn
  use,        \* state of a request: where it is, commands done, aborted
  count,      \* activeCount of the overlay
  window,     \* the overlay's window
  pressed,    \* the mouse button is held down
  folders,    \* requests whose temporary directory exists
  brokerClosing     \* close() of the broker: "no", "runtime", "closed"

useVars == <<line, use, count, window, pressed, folders, brokerClosing>>

-----------------------------------------------------------------------------
(* The helper commands of an action *)

\* The bounds of the window, the capture, and for OCR its reading.
CapturePlan == <<"bounds", "capture">>
OcrPlan == <<"bounds", "capture", "ocr">>

\* One command: a list, the clipboard, an application, a window; an AppleScript
\* or a run of the accessibility bridge does a whole action at once.
ListPlan == <<"list">>
WindowPlan == <<"window">>
ScriptPlan == <<"script">>
BridgePlan == <<"bridge">>

\* The polls of a wait, each a command.
WaitPlan == [i \in 1..MaxPolls |-> "poll"]

DialogPlan == <<"key", "type", "key">>

\* xdotool: the window is activated and its bounds are read, then the input.
InputPlan(action) ==
  <<"activate", "bounds">> \o
  CASE action = "click" -> <<"move", "click">>
    [] action = "type" -> <<"type">>
    [] action = "scroll" -> <<"move", "scroll", "scroll">>
    [] action = "drag" -> <<"bounds", "bounds", "move", "down", "move", "up">>
    [] action = "dialog" -> DialogPlan

Captures == {"screenshot", "ocr"}
Plan(action) ==
  CASE action = "screenshot" -> CapturePlan
    [] action = "ocr" -> OcrPlan
    [] action = "list" -> ListPlan
    [] action = "window" -> WindowPlan
    [] action = "wait" -> WaitPlan
    [] action = "script" -> ScriptPlan
    [] action = "bridge" -> BridgePlan
    [] OTHER -> InputPlan(action)

\* The commands of all of them.
Words == {"activate", "bounds", "capture", "ocr", "list", "window", "script", "bridge", "poll",
          "key", "type", "move", "click", "scroll", "down", "up"}

UseTypeOK ==
  /\ line \in Seq(Uses)
  /\ use \in [Uses -> [at : {"new", "queued", "running", "ok", "failed"}, action : Actions,
                       left : Seq(Words), aborted : BOOLEAN]]
  /\ count \in Nat /\ window \in {"none", "shown", "hidden"}
  /\ pressed \in BOOLEAN /\ folders \subseteq Uses
  /\ brokerClosing \in {"no", "runtime", "closed"}

UseInit ==
  /\ line = <<>> /\ count = 0 /\ window = "none" /\ pressed = FALSE /\ folders = {}
  /\ use = [u \in Uses |-> [at |-> "new", action |-> CHOOSE a \in Actions : TRUE, left |-> <<>>,
                            aborted |-> FALSE]]
  /\ brokerClosing = "no"

\* hide() of the overlay.
Hide ==
  /\ count' = IF count > 0 THEN count - 1 ELSE 0
  /\ window' = IF count' = 0 /\ window = "shown" THEN "hidden" ELSE window

\* handle(): behind all that came before.
EnqueueUse(u) ==
  /\ use[u].at = "new"
  /\ \E a \in Actions : use' = [use EXCEPT ![u].at = "queued", ![u].action = a, ![u].left = Plan(a)]
  /\ line' = Append(line, u)
  /\ UNCHANGED <<count, window, pressed, folders, brokerClosing>>

\* Its turn: the overlay is shown and the action begins, a capture with a
\* directory of its own.
TakeTurn(u) ==
  /\ use[u].at = "queued" /\ Head(line) = u /\ ~use[u].aborted
  /\ use' = [use EXCEPT ![u].at = "running"]
  /\ count' = count + 1 /\ window' = "shown"
  /\ folders' = IF use[u].action \in Captures THEN folders \cup {u} ELSE folders
  /\ UNCHANGED <<line, pressed, brokerClosing>>

\* Its turn after the signal: the finally clause alone.
SkipTurn(u) ==
  /\ use[u].at = "queued" /\ Head(line) = u /\ use[u].aborted
  /\ use' = [use EXCEPT ![u].at = "failed"]
  /\ line' = Tail(line)
  /\ Hide
  /\ UNCHANGED <<pressed, folders, brokerClosing>>

\* One helper command of the action.
RunCommand(u) ==
  /\ use[u].at = "running" /\ ~use[u].aborted
  /\ use[u].left # <<>>
  /\ use' = [use EXCEPT ![u].left = Tail(@)]
  /\ pressed' = (Head(use[u].left) = "down" \/ (pressed /\ Head(use[u].left) # "up"))
  /\ UNCHANGED <<line, count, window, folders, brokerClosing>>

\* Faulty variant of FinishUse: a failed action leaves before its clean-up.
FinishUnclean(u, how) ==
  /\ use' = [use EXCEPT ![u].at = how, ![u].left = <<>>]
  /\ line' = Tail(line)
  /\ folders' = IF how = "ok" THEN folders \ {u} ELSE folders
  /\ Hide
  /\ UNCHANGED <<pressed, brokerClosing>>

\* The finally clauses of the action and of the broker.
FinishUse(u, how) ==
  /\ use' = [use EXCEPT ![u].at = how, ![u].left = <<>>]
  /\ line' = Tail(line)
  /\ folders' = folders \ {u}
  /\ Hide
  /\ UNCHANGED <<pressed, brokerClosing>>

\* All commands have run (a wait may be satisfied before), or one has failed,
\* timed out or was aborted.
EndUse(u) ==
  /\ use[u].at = "running"
  /\ \/ ~use[u].aborted /\ (use[u].left = <<>> \/ use[u].action = "wait") /\ FinishUse(u, "ok")
     \/ FinishUse(u, "failed")

\* The signal of the request, or cancelForSession for a running one.
AbortUse(u) ==
  /\ use[u].at \in {"queued", "running"} /\ ~use[u].aborted
  /\ use' = [use EXCEPT ![u].aborted = TRUE]
  /\ UNCHANGED <<line, count, window, pressed, folders, brokerClosing>>

\* close(): what runs is aborted, the overlay is hidden, and destroyed after
\* the runtime has closed.
CloseBroker ==
  /\ brokerClosing = "no"
  /\ brokerClosing' = "runtime"
  /\ use' = [u \in Uses |-> IF use[u].at = "running" THEN [use[u] EXCEPT !.aborted = TRUE] ELSE use[u]]
  /\ Hide
  /\ UNCHANGED <<line, pressed, folders>>

DestroyOverlay ==
  /\ brokerClosing = "runtime"
  /\ brokerClosing' = "closed"
  /\ count' = 0 /\ window' = "none"
  /\ UNCHANGED <<line, use, pressed, folders>>

UseNext ==
  \/ CloseBroker \/ DestroyOverlay
  \/ \E u \in Uses : \/ EnqueueUse(u) \/ TakeTurn(u) \/ SkipTurn(u) \/ RunCommand(u)
                     \/ EndUse(u) \/ AbortUse(u)

UseSpec == UseInit /\ [][UseNext]_useVars

-----------------------------------------------------------------------------
\* The mouse, the screen and the overlay belong to one action at a time: until
\* the broker is closed the overlay is seen exactly while one runs, whatever
\* was aborted before its turn, and the picture of a screenshot outlives no
\* action, a failed one included. A drag that fails after its press leaves the
\* button down.
ComputerToOneAction ==
  /\ \A u, v \in Uses : use[u].at = "running" /\ use[v].at = "running" => u = v
  /\ brokerClosing = "no" => (window = "shown" <=> \E u \in Uses : use[u].at = "running")
  /\ \A u \in folders : use[u].at = "running"
  /\ pressed => \E u \in Uses : /\ use[u].action = "drag"
                              /\ \/ use[u].at = "failed"
                                 \/ use[u].at = "running" /\ Head(use[u].left) \in {"move", "up"}

-----------------------------------------------------------------------------
(***************************************************************************)
(* The scripts that act on the user interface of other applications:       *)
(* resources/computer-use/windows-computer.ps1 (UI Automation), run by     *)
(* src/main/computer/windows-computer-service.ts, and                      *)
(* resources/computer-use/linux-computer-bridge.py (AT-SPI). An action     *)
(* names an element by the identifier that an earlier inspection gave it,  *)
(* and the application goes on changing its window meanwhile. The tree of  *)
(* a window is the sequence of its elements, and the state of an element   *)
(* is its toggle, selection, expansion or value alike.                     *)
(***************************************************************************)

CONSTANTS
  Elements,   \* elements the application may show
  MaxWindow   \* bound: changes the application makes to its window

ASSUME UiAssumption == MaxWindow \in Nat /\ IsFiniteSet(Elements)

VARIABLES
  uiPlatform,     \* the operating system
  tree,         \* the elements of the window, in order
  state,        \* the state of each element
  known,        \* the inspected identifier: the element, and where it was
  act,          \* the action of the script that runs, or its result
  keysDown,      \* the button, or the modifier, that is down
  misdirected,  \* an action by element has reached another element
  moves         \* changes made by the application

uiVars == <<uiPlatform, tree, state, known, act, keysDown, misdirected, moves>>

UiKinds == {"read", "invoke", "toggle", "expand", "select", "value", "wait", "drag", "keypress"}
UiStates == {"on", "off", "indeterminate"}

UiTypeOK ==
  /\ uiPlatform \in {"windows", "linux"}
  /\ tree \in Seq(Elements) /\ Len(tree) <= Cardinality(Elements)
  /\ state \in [Elements -> UiStates]
  /\ known.element \in Elements /\ known.path \in 1..Cardinality(Elements)
  /\ act.kind \in UiKinds /\ act.at \in {"none", "find", "act", "check", "down", "up", "ok", "failed"}
  /\ act.want \in UiStates /\ act.tries \in 0..4
  /\ keysDown \subseteq {"button", "modifier"} /\ misdirected \in BOOLEAN /\ moves \in 0..MaxWindow

InWindow == {tree[i] : i \in DOMAIN tree}
AtRest == act.at \in {"none", "ok", "failed"}

UiInit ==
  /\ uiPlatform \in {"windows", "linux"}
  /\ \E e \in Elements : tree = <<e>>
  /\ state = [e \in Elements |-> "off"]
  /\ known = [element |-> tree[1], path |-> 1]
  /\ act = [kind |-> "read", at |-> "none", target |-> tree[1], want |-> "on", tries |-> 0]
  /\ keysDown = {} /\ misdirected = FALSE /\ moves = 0

\* inspect: an element of the window gets an identifier. On Windows it holds
\* the runtime identity of the element, on Linux its path from the window.
InspectWindow ==
  /\ AtRest
  /\ \E i \in DOMAIN tree : known' = [element |-> tree[i], path |-> i]
  /\ UNCHANGED <<uiPlatform, tree, state, act, keysDown, misdirected, moves>>

\* The script is started for an action.
StartAction(kind, want) ==
  /\ AtRest /\ (kind = "keypress" => uiPlatform = "windows")
  /\ act' = [kind |-> kind, at |-> IF kind = "keypress" THEN "down" ELSE "find",
             target |-> known.element, want |-> want, tries |-> 0]
  /\ UNCHANGED <<uiPlatform, tree, state, known, keysDown, misdirected, moves>>

Resting(where) == [kind |-> "read", at |-> where, target |-> known.element, want |-> "on", tries |-> 0]
Goes(where) == act' = IF where \in {"ok", "failed"} THEN Resting(where) ELSE [act EXCEPT !.at = where]

\* Faulty variant of FindByIdentity: the element that is where it was.
FindByPlace(e) == known.path \in DOMAIN tree /\ e = tree[known.path]

\* Find-Element: an element of the window with the runtime identity, the type
\* and the names of the inspected one.
FindByIdentity(e) == e \in InWindow /\ e = known.element

\* find_element: the path is followed from the window.
FindByPath(e) == known.path \in DOMAIN tree /\ e = tree[known.path]

Finds(e) == IF uiPlatform = "windows" THEN FindByIdentity(e) ELSE FindByPath(e)

\* The element is looked for, at each turn of a wait again.
FindElement ==
  /\ act.at = "find"
  /\ \/ \E e \in Elements :
          /\ Finds(e)
          /\ IF act.kind = "read" THEN Goes("ok")
             ELSE act' = [act EXCEPT !.target = e, !.at = IF act.kind = "drag" THEN "down" ELSE "act"]
     \/ /\ \A e \in Elements : ~Finds(e)
        /\ Goes(IF act.kind = "wait" /\ uiPlatform = "windows" THEN "find" ELSE "failed")
  /\ UNCHANGED <<uiPlatform, tree, state, known, keysDown, misdirected, moves>>

Toggled(value) == IF value = "on" THEN {"off"} ELSE IF value = "off" THEN {"on", "indeterminate"} ELSE {"on"}

\* The application is told to act on an element, and follows at once or later
\* (WindowChanges).
Told(e, values) ==
  /\ misdirected' = (misdirected \/ e # known.element)
  /\ \E v \in values \cup {state[e]} : state' = [state EXCEPT ![e] = v]
  /\ UNCHANGED <<uiPlatform, tree, known, keysDown, moves>>

Unmoved == UNCHANGED <<uiPlatform, tree, state, known, keysDown, misdirected, moves>>

\* invoke: the first action of the element; an element that has none gets a
\* click at its place on Linux, and is refused on Windows.
InvokeElement ==
  /\ act.kind = "invoke" /\ act.at = "act"
  /\ \/ Told(act.target, Toggled(state[act.target])) /\ Goes("ok")
     \/ Goes("failed") /\ Unmoved

\* Set-ToggleState, three attempts, and set_toggle_state, four.
Attempts == IF uiPlatform = "windows" THEN 3 ELSE 4
SetToggleState ==
  /\ act.kind = "toggle" /\ act.at = "act"
  /\ IF state[act.target] = act.want THEN Goes("ok") /\ Unmoved
     ELSE IF act.tries = Attempts THEN Goes("failed") /\ Unmoved
     ELSE \/ Told(act.target, Toggled(state[act.target])) /\ act' = [act EXCEPT !.tries = @ + 1]
          \/ Goes("failed") /\ Unmoved

\* set_expanded_state and Expand or Collapse: only Linux leaves an element that
\* is as it should be alone, and looks at what came of it.
SetExpandedState ==
  /\ act.kind = "expand" /\ act.at = "act"
  /\ \/ uiPlatform = "linux" /\ state[act.target] = act.want /\ Goes("ok") /\ Unmoved
     \/ /\ uiPlatform = "windows" \/ state[act.target] # act.want
        /\ Told(act.target, {act.want}) /\ Goes(IF uiPlatform = "windows" THEN "ok" ELSE "check")
     \/ Goes("failed") /\ Unmoved

\* select_element, and Select, AddToSelection or RemoveFromSelection.
SelectElement ==
  /\ act.kind = "select" /\ act.at = "act"
  /\ \/ uiPlatform = "linux" /\ state[act.target] = act.want /\ Goes("ok") /\ Unmoved
     \/ Told(act.target, {act.want}) /\ Goes(IF uiPlatform = "windows" THEN "ok" ELSE "check")
     \/ Goes("failed") /\ Unmoved

Checked ==
  /\ act.at = "check" /\ Goes(IF state[act.target] = act.want THEN "ok" ELSE "failed") /\ Unmoved

\* Set-ElementValue and set_value.
SetElementValue ==
  /\ act.kind = "value" /\ act.at = "act"
  /\ \/ Told(act.target, {act.want}) /\ Goes("ok")
     \/ Goes("failed") /\ Unmoved

\* Wait-ForState and wait_for_state: until the element is as expected.
WaitForState ==
  /\ act.kind = "wait" /\ act.at = "act"
  /\ \/ Goes(IF state[act.target] = act.want THEN "ok" ELSE "find")
     \/ Goes("failed")
  /\ Unmoved

\* drag, and drag_elements: the button goes down at the first point and up at
\* the second. A command of xdotool may fail in between.
Drag ==
  /\ act.kind = "drag" /\ UNCHANGED <<uiPlatform, tree, state, known, misdirected, moves>>
  /\ \/ act.at = "down" /\ keysDown' = keysDown \cup {"button"} /\ Goes("up")
     \/ act.at = "up" /\ keysDown' = keysDown \ {"button"} /\ Goes("ok")
     \/ uiPlatform = "linux" /\ act.at \in {"down", "up"} /\ Goes("failed") /\ UNCHANGED keysDown

\* keypress: the modifiers go down, then the name of the key is looked up,
\* which may fail, then the key is pressed and the modifiers go up.
Keypress ==
  /\ act.kind = "keypress" /\ UNCHANGED <<uiPlatform, tree, state, known, misdirected, moves>>
  /\ \/ act.at = "down" /\ keysDown' = keysDown \cup {"modifier"} /\ Goes("up")
     \/ act.at = "up" /\ keysDown' = keysDown \ {"modifier"} /\ Goes("ok")
     \/ act.at = "up" /\ UNCHANGED keysDown /\ Goes("failed")

\* The deadline of the action, or its abort, ends the script wherever it is.
ScriptKilled == ~AtRest /\ Goes("failed") /\ Unmoved

\* The application: it takes an element away, shows another one before the
\* others, or changes the state of one.
WindowChanges ==
  /\ UNCHANGED <<uiPlatform, known, act, keysDown, misdirected>>
  /\ \/ /\ moves < MaxWindow /\ moves' = moves + 1 /\ UNCHANGED state
        /\ \/ \E i \in DOMAIN tree : tree' = SubSeq(tree, 1, i - 1) \o SubSeq(tree, i + 1, Len(tree))
           \/ \E e \in Elements \ InWindow : tree' = <<e>> \o tree
     \/ \E e \in InWindow, v \in UiStates : state' = [state EXCEPT ![e] = v] /\ UNCHANGED <<tree, moves>>

UiNext ==
  \/ InspectWindow \/ FindElement \/ InvokeElement \/ SetToggleState \/ SetExpandedState
  \/ SelectElement \/ Checked \/ SetElementValue \/ WaitForState \/ Drag \/ Keypress \/ ScriptKilled
  \/ WindowChanges
  \/ \E kind \in UiKinds, want \in {"on", "off"} : StartAction(kind, want)

UiSpec == UiInit /\ [][UiNext]_uiVars

-----------------------------------------------------------------------------
\* On Windows an action by element acts on the element that was inspected,
\* however the window has changed since (Find-Element compares the runtime
\* identity). On Linux the path may lead to another one.
ActsOnInspected == uiPlatform = "windows" => ~misdirected
=============================================================================
