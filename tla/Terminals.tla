------------------------------- MODULE Terminals -------------------------------
(***************************************************************************)
(* Interactive terminals: the panel of a window (TerminalPanel.tsx), the   *)
(* requests it sends (register-terminal-ipc.ts), the sessions that the     *)
(* main process keeps (interactive-terminal-service.ts), and the way of    *)
(* their output (terminal-output-dispatcher.ts).                           *)
(***************************************************************************)
EXTENDS Naturals

CONSTANTS
  Terminals,     \* sessions, numbered in the order they are asked for
  Directories,   \* workspace roots
  OutputCap,     \* terminalOutputBufferBytes, and terminalPendingOutputBytes, in chunks
  MaxChunks,     \* bound on the output of a session; one of them writes
  MaxShows       \* bound on the changes of directory, and on those of the panel

ASSUME TerminalAssumption == Terminals \subseteq Nat /\ {OutputCap, MaxChunks, MaxShows} \subseteq Nat \ {0}

VARIABLES
  panel,         \* mounted, its cwd, and changes so far
  window,        \* the window is there
  opening,       \* an open of the panel, by session
  children,      \* the shells that run
  sessions,      \* sessions of InteractiveTerminalService
  listening,     \* a destroyed listener is registered on the sender
  tabs,          \* tabs of the panel
  output,        \* what a session has written, and where it is
  strayed        \* sessions whose open outlived the panel or the window

terminalVars == <<panel, window, opening, children, sessions, listening, tabs, output, strayed>>

NoOutput == [written |-> 0, buffer |-> 0, truncated |-> FALSE, pending |-> 0, shown |-> 0, mark |-> FALSE]

TerminalsTypeOK ==
  /\ panel \in [mounted : BOOLEAN, cwd : Directories, changes : 0..MaxShows]
  /\ window \in BOOLEAN /\ listening \in BOOLEAN
  /\ opening \in [Terminals -> [at : {"new", "approval", "asked", "spawned", "done"}, cwd : Directories]]
  /\ {children, sessions, tabs, strayed} \subseteq SUBSET Terminals
  /\ output \in [Terminals -> [written : 0..MaxChunks, buffer : 0..OutputCap, truncated : BOOLEAN,
                               pending : 0..OutputCap, shown : 0..MaxChunks, mark : BOOLEAN]]

TerminalsInit ==
  /\ \E d \in Directories :
       /\ panel = [mounted |-> TRUE, cwd |-> d, changes |-> 0]
       /\ opening = [s \in Terminals |-> [at |-> "new", cwd |-> d]]
  /\ window = TRUE /\ listening = FALSE
  /\ children = {} /\ sessions = {} /\ tabs = {} /\ strayed = {}
  /\ output = [s \in Terminals |-> NoOutput]

OpenGoesOn(s, place) == opening' = [opening EXCEPT ![s].at = place]

-----------------------------------------------------------------------------
(* Opening and closing *)

\* requestOpenTab asks for an approval; openTab then asks the main process, for
\* the directory of that moment.
RequestOpenTab(s) ==
  /\ \/ /\ panel.mounted /\ opening[s].at = "new"
        /\ \A k \in Terminals : k < s => opening[k].at # "new"
        /\ opening' = [opening EXCEPT ![s] = [at |-> "approval", cwd |-> panel.cwd]]
     \/ /\ opening[s].at = "approval" /\ window
        /\ \E answer \in {"asked", "done"} : OpenGoesOn(s, answer)
  /\ UNCHANGED <<panel, window, children, sessions, listening, tabs, output, strayed>>

\* open: the directory and the settings are read, then the shell is started. A
\* window that has gone by then is not noticed.
OpenSession(s) ==
  /\ opening[s].at = "asked"
  /\ \/ /\ OpenGoesOn(s, "spawned")
        /\ children' = children \cup {s} /\ sessions' = sessions \cup {s}
        /\ listening' = (listening \/ window)
        /\ strayed' = IF window THEN strayed ELSE strayed \cup {s}
     \/ OpenGoesOn(s, "done") /\ UNCHANGED <<children, sessions, listening, strayed>>
  /\ UNCHANGED <<panel, window, tabs, output>>

\* close of the service and of its dispatcher, for sessions that are still there.
Closing(closed) ==
  /\ sessions' = sessions \ closed /\ children' = children \ closed

\* Faulty variant of Wanted: the tab is added wherever the panel is now.
WantedAnywhere(s) == TRUE

\* The panel still shows the directory the session was opened for.
Wanted(s) == panel.cwd = opening[s].cwd

\* The answer reaches openTab: a session for another directory is closed; a
\* panel that was taken away meanwhile neither shows nor closes it.
OpenTab(s) ==
  /\ opening[s].at = "spawned" /\ window
  /\ OpenGoesOn(s, "done")
  /\ IF s \in strayed THEN UNCHANGED <<tabs, sessions, children>>
     ELSE IF Wanted(s) THEN tabs' = tabs \cup {s} /\ UNCHANGED <<sessions, children>>
     ELSE Closing({s}) /\ UNCHANGED tabs
  /\ UNCHANGED <<panel, window, listening, output, strayed>>

CloseTab(s) ==
  /\ panel.mounted /\ s \in tabs
  /\ tabs' = tabs \ {s} /\ Closing({s})
  /\ UNCHANGED <<panel, window, opening, listening, output, strayed>>

\* Another workspace is selected, or the panel is taken away: its tabs close.
ChangePanel ==
  /\ window /\ panel.changes < MaxShows
  /\ \E d \in Directories, mounted \in BOOLEAN :
       /\ ~mounted => panel.mounted
       /\ panel' = [mounted |-> mounted, cwd |-> d, changes |-> panel.changes + 1]
       /\ IF mounted /\ d = panel.cwd THEN ~panel.mounted /\ UNCHANGED <<tabs, sessions, children>>
          ELSE tabs' = {} /\ Closing(tabs)
       /\ strayed' = IF mounted THEN strayed
                     ELSE strayed \cup {s \in Terminals : opening[s].at \in {"approval", "asked", "spawned"}}
  /\ UNCHANGED <<window, opening, listening, output>>

\* onExit of a shell: its tab stays, and a later close finds no session.
Exit(s) ==
  /\ s \in children
  /\ children' = children \ {s} /\ sessions' = sessions \ {s}
  /\ UNCHANGED <<panel, window, opening, listening, tabs, output, strayed>>

\* The window is destroyed: closeOwner, when a session had been opened for it.
Destroyed ==
  /\ window /\ window' = FALSE
  /\ panel' = [panel EXCEPT !.mounted = FALSE] /\ tabs' = {}
  /\ IF listening THEN Closing(sessions) ELSE UNCHANGED <<sessions, children>>
  /\ UNCHANGED <<opening, listening, output, strayed>>

-----------------------------------------------------------------------------
(* Output *)

\* push of the dispatcher: what does not fit is dropped, and marked.
Push(s) ==
  LET o == output[s] IN
  /\ s \in children /\ o.written < MaxChunks
  /\ \A t \in Terminals \ {s} : output[t].written = 0
  /\ output' = [output EXCEPT ![s] =
       IF o.buffer < OutputCap THEN [o EXCEPT !.written = o.written + 1, !.buffer = o.buffer + 1]
       ELSE [o EXCEPT !.written = o.written + 1, !.truncated = TRUE]]
  /\ UNCHANGED <<panel, window, opening, children, sessions, listening, tabs, strayed>>

\* flush: to the terminal of the tab or, before it is mounted, to the pending
\* output, which is bounded and marked as well.
Flush(s) ==
  LET o == output[s] IN
  /\ o.buffer > 0 \/ o.truncated
  /\ output' = [output EXCEPT ![s] =
       IF ~window THEN [o EXCEPT !.buffer = 0, !.truncated = FALSE, !.mark = TRUE]
       ELSE IF s \in tabs /\ o.pending = 0
       THEN [o EXCEPT !.buffer = 0, !.truncated = FALSE,
                      !.shown = o.shown + o.buffer, !.mark = o.mark \/ o.truncated]
       ELSE [o EXCEPT !.buffer = 0, !.truncated = FALSE,
                      !.pending = IF o.pending + o.buffer > OutputCap THEN OutputCap
                                  ELSE o.pending + o.buffer,
                      !.mark = o.mark \/ o.truncated \/ o.pending + o.buffer > OutputCap]]
  /\ UNCHANGED <<panel, window, opening, children, sessions, listening, tabs, strayed>>

\* registerTerminal: the view of the tab is mounted and takes what is pending.
RegisterTerminal(s) ==
  LET o == output[s] IN
  /\ s \in tabs /\ o.pending > 0
  /\ output' = [output EXCEPT ![s] = [o EXCEPT !.shown = o.shown + o.pending, !.pending = 0]]
  /\ UNCHANGED <<panel, window, opening, children, sessions, listening, tabs, strayed>>

TerminalsNext ==
  \/ \E s \in Terminals :
       \/ RequestOpenTab(s) \/ OpenSession(s) \/ OpenTab(s) \/ CloseTab(s) \/ Exit(s)
       \/ Push(s) \/ Flush(s) \/ RegisterTerminal(s)
  \/ ChangePanel \/ Destroyed

TerminalsSpec == TerminalsInit /\ [][TerminalsNext]_terminalVars

-----------------------------------------------------------------------------
\* A shell that runs is one of a tab, which shows the directory it runs in, or
\* of an open that is under way, unless that open outlived the panel or the
\* window; and its output is shown, on its way, or missing behind a mark.
ShellsShown ==
  /\ \A s \in children \ strayed : s \in tabs \/ opening[s].at = "spawned"
  /\ \A s \in tabs : opening[s].cwd = panel.cwd
  /\ \A s \in Terminals :
       LET o == output[s] IN
       ~o.mark /\ ~o.truncated => o.shown + o.pending + o.buffer = o.written
=============================================================================
