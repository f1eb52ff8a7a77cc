---------------------------- MODULE ProjectPanels ----------------------------
(***************************************************************************)
(* What the window shows and changes of one project at a time: a page of   *)
(* rows (memories, extensions, plugins or git), the git commands of the    *)
(* git panel on its working tree, and the entries of its configuration     *)
(* file that an extension editor opens with their secrets hidden.  The     *)
(* three share no state.  MaxPageLoads bounds the loads of a page,         *)
(* MaxStashes and MaxEdits the stashes and the edits of the tree, and      *)
(* MaxFileChanges the changes of the file by the CLI.                      *)
(***************************************************************************)
EXTENDS Naturals, Sequences

CONSTANTS Projects, NoProject, MaxPageLoads, TreeFiles, MaxStashes, MaxEdits, ConfigEntries, MaxFileChanges

ASSUME PanelAssumption == {MaxPageLoads, MaxStashes, MaxEdits, MaxFileChanges} \subseteq Nat

VARIABLES project, pageKind, pageRows, pageLoads, pageActs, pageRequests,
          tree, stashes, linked, gitAsk, edits,
          config, editor, fileChanges

pageVars == <<project, pageKind, pageRows, pageLoads, pageActs, pageRequests>>
gitVars == <<tree, stashes, linked, gitAsk, edits>>
editVars == <<config, editor, fileChanges>>

\* What a page asks of a late answer: to be that of its newest load, and of the project shown.
PageKinds == {"memory", "extensions", "plugins", "git"}
NewestOnly == PageKinds \ {"git"}
ProjectOnly == {"memory", "extensions"}

PageInit ==
    /\ project \in Projects /\ pageKind \in PageKinds
    /\ pageRows = [of |-> NoProject, loading |-> FALSE, failed |-> FALSE]
    /\ pageLoads = {} /\ pageActs = {} /\ pageRequests = 0

\* A load for the project p: the page shows that it loads until its newest ends.
Loads(p) ==
    /\ pageRequests < MaxPageLoads /\ pageRequests' = pageRequests + 1
    /\ pageLoads' = pageLoads \union {[no |-> pageRequests + 1, of |-> p]}
    /\ pageRows' = [pageRows EXCEPT !.loading = TRUE]
ReloadPage ==
    /\ Loads(project)
    /\ UNCHANGED <<project, pageKind, pageActs>>
\* The window turns to another project, which the page loads.
ShowProject(p) ==
    /\ p # project /\ project' = p
    /\ Loads(p)
    /\ UNCHANGED <<pageKind, pageActs>>

\* Faulty variant of Current: every page looks only at the number of the load, as the page of plugins does.
CurrentByNumber(load) == load.no = pageRequests
Current(load) ==
    /\ pageKind \in NewestOnly => load.no = pageRequests
    /\ pageKind \in ProjectOnly => load.of = project

PageLoaded(load) ==
    /\ pageLoads' = pageLoads \ {load}
    /\ \E ok \in BOOLEAN :
        pageRows' = IF ~Current(load) THEN pageRows
                    ELSE [of |-> IF ok THEN load.of ELSE pageRows.of, loading |-> FALSE, failed |-> ~ok]
    /\ UNCHANGED <<project, pageKind, pageActs, pageRequests>>

\* An action on a row (forget, remove, install, stage), and its end.  Only the page of memories
\* sees then that another project is shown; the others load the project of the action again.
ActOnPage ==
    /\ pageRows.of # NoProject /\ pageActs = {} /\ pageActs' = {project}
    /\ UNCHANGED <<project, pageKind, pageRows, pageLoads, pageRequests>>
PageActEnds(p) ==
    /\ pageActs' = pageActs \ {p}
    /\ \/ (pageKind = "memory" => p = project) /\ Loads(p)
       \/ UNCHANGED <<pageRows, pageLoads, pageRequests>>
    /\ UNCHANGED <<project, pageKind>>

PanelNext ==
    \/ ReloadPage \/ ActOnPage
    \/ \E p \in Projects : ShowProject(p)
    \/ \E load \in pageLoads : PageLoaded(load)
    \/ \E p \in pageActs : PageActEnds(p)

-----------------------------------------------------------------------------
\* The working tree: whether each file is changed, and the stashes, the newest first.
NoGitAsk == [op |-> "none", file |-> "none", at |-> "none"]
GitInit ==
    /\ tree = [f \in TreeFiles |-> "clean"] /\ stashes = <<>> /\ linked = "none"
    /\ gitAsk = NoGitAsk /\ edits = 0

FileOps == {"stage", "unstage", "restore"}
TreeOps == {"commit", "stash-save", "stash-apply", "stash-drop", "checkout", "pull",
            "worktree-add", "worktree-remove"}
Dirty == {f \in TreeFiles : tree[f] # "clean"}
Turned(fs, from, to) == [f \in TreeFiles |-> IF f \in fs /\ tree[f] = from THEN to ELSE tree[f]]

\* An action of the panel asks for the user's approval first, with a summary of what it does.
RequestGit(op, f) ==
    /\ gitAsk = NoGitAsk
    /\ gitAsk' = [op |-> op, file |-> IF op \in FileOps THEN f ELSE "none", at |-> "asked"]
    /\ UNCHANGED <<tree, stashes, linked, edits>>
Resolve ==
    /\ gitAsk.at = "asked"
    /\ gitAsk' \in {NoGitAsk, [gitAsk EXCEPT !.at = "approved"]}
    /\ UNCHANGED <<tree, stashes, linked, edits>>
\* Faulty variant of Approved: the action runs while the user is still asked.
ApprovedOrAsked == gitAsk.at \in {"asked", "approved"}
Approved == gitAsk.at = "approved"

\* What git does of each operation, where it does not fail.  A branch switched to, or pulled,
\* never overwrites a change.
Stash(fs) == /\ fs # {} /\ Len(stashes) < MaxStashes
             /\ stashes' = <<fs>> \o stashes /\ tree' = [f \in TreeFiles |-> "clean"]
FileEffect(op, f) ==
    /\ \/ op = "stage" /\ tree' = Turned({f}, "changed", "staged")
       \/ op = "unstage" /\ tree' = Turned({f}, "staged", "changed")
       \/ op = "restore" /\ tree' = Turned({f}, "changed", "clean")
       \/ op = "commit" /\ tree' = Turned(TreeFiles, "staged", "clean")
       \/ op = "stash-apply" /\ stashes # <<>> /\ Head(stashes) \intersect Dirty = {}
          /\ tree' = Turned(Head(stashes), "clean", "changed")
    /\ UNCHANGED <<stashes, linked>>
StashEffect(op) ==
    /\ \/ op = "stash-save" /\ Stash(Dirty)
       \/ op = "stash-drop" /\ stashes # <<>> /\ stashes' = Tail(stashes) /\ UNCHANGED tree
    /\ UNCHANGED linked
\* The directory of a linked worktree is made before git links it, and stays when git fails.
WorktreeEffect(op) ==
    /\ \/ op = "worktree-add" /\ linked # "linked" /\ linked' \in {"directory", "linked"}
       \/ op = "worktree-remove" /\ linked = "linked" /\ linked' = "none"
    /\ UNCHANGED <<tree, stashes>>
RunGit ==
    /\ Approved /\ gitAsk' = NoGitAsk
    /\ \/ FileEffect(gitAsk.op, gitAsk.file)
       \/ StashEffect(gitAsk.op)
       \/ WorktreeEffect(gitAsk.op)
       \/ UNCHANGED <<tree, stashes, linked>>
    /\ UNCHANGED edits

\* The agent, an editor and a terminal work in the same tree meanwhile.
WorkInTree ==
    /\ edits < MaxEdits /\ edits' = edits + 1
    /\ \/ \E f \in TreeFiles : tree' = [tree EXCEPT ![f] = "changed"] /\ UNCHANGED stashes
       \/ Stash(Dirty)
    /\ UNCHANGED <<linked, gitAsk>>

GitNext ==
    \/ \E op \in FileOps \union TreeOps, f \in TreeFiles : RequestGit(op, f)
    \/ Resolve \/ RunGit \/ WorkInTree

-----------------------------------------------------------------------------
\* The configuration file: each entry holds a secret or nothing.  "hidden" is the mark an
\* editor shows in a secret's place.
ConfigInit ==
    /\ config = [e \in ConfigEntries |-> "secret"] /\ fileChanges = 0
    /\ editor = [of |-> "none", at |-> "closed", text |-> "none", base |-> config]

ReadDetail(e) ==
    /\ editor.at = "closed" /\ config[e] # "none"
    /\ editor' = [of |-> e, at |-> "open", text |-> "hidden", base |-> config]
    /\ UNCHANGED <<config, fileChanges>>
EditDetail ==
    /\ editor.at = "open" /\ editor' \in {[editor EXCEPT !.text = "typed"], [editor EXCEPT !.at = "closed"]}
    /\ UNCHANGED <<config, fileChanges>>
\* Saving reads the file, puts the stored secret back where the mark still stands, and writes
\* the whole file; an editor whose save fails stays open.
WriteDetail ==
    /\ editor.at = "open" /\ editor' = [editor EXCEPT !.at = "saving", !.base = config]
    /\ UNCHANGED <<config, fileChanges>>
\* Faulty variant of RestoreRedacted: the text of the editor is written as it is.
RestoreNone(original, edited) == edited
RestoreRedacted(original, edited) == IF edited = "hidden" THEN original ELSE edited
WriteFile ==
    /\ editor.at = "saving"
    /\ \/ /\ config' = [editor.base EXCEPT ![editor.of] = RestoreRedacted(@, editor.text)]
          /\ editor' = [editor EXCEPT !.at = "closed"]
       \/ editor' = [editor EXCEPT !.at = "open"] /\ UNCHANGED config
    /\ UNCHANGED fileChanges
\* The CLI changes an entry of the file.
ChangeEntry(e) ==
    /\ fileChanges < MaxFileChanges /\ fileChanges' = fileChanges + 1
    /\ \E to \in {"none", "other"} : config' = [config EXCEPT ![e] = to]
    /\ UNCHANGED editor

ConfigNext ==
    \/ \E e \in ConfigEntries : ReadDetail(e) \/ ChangeEntry(e)
    \/ EditDetail \/ WriteDetail \/ WriteFile

-----------------------------------------------------------------------------
PanelTypeOK ==
    /\ project \in Projects /\ pageKind \in PageKinds
    /\ pageRows \in [of : Projects \union {NoProject}, loading : BOOLEAN, failed : BOOLEAN]
    /\ pageLoads \subseteq [no : 1..MaxPageLoads, of : Projects] /\ pageActs \subseteq Projects
    /\ tree \in [TreeFiles -> {"clean", "changed", "staged"}]
    /\ stashes \in Seq(SUBSET TreeFiles) /\ linked \in {"none", "directory", "linked"}
    /\ config \in [ConfigEntries -> {"none", "secret", "typed", "other", "hidden"}]

\* A page that looks at the project of an answer shows the rows of the project in the window
\* once it has loaded them, however late the answers of the project before it come.
PagesCurrent ==
    pageKind \in ProjectOnly =>
        pageRows.loading \/ pageRows.failed \/ pageRows.of \in {project, NoProject}

\* A change in the working tree is lost only when the user approved to discard that file: it is
\* otherwise still in the tree, committed with approval, or in a stash.
ChangesKept ==
    [][\A f \in TreeFiles :
        (tree[f] # "clean" /\ tree'[f] = "clean") =>
            \/ \E i \in 1..Len(stashes') : f \in stashes'[i]
            \/ gitAsk.at = "approved" /\ \/ gitAsk.op = "commit" /\ tree[f] = "staged"
                                         \/ gitAsk.op = "restore" /\ gitAsk.file = f]_gitVars

\* The mark an editor shows for a secret is never stored in its place.
SecretsKept == \A e \in ConfigEntries : config[e] # "hidden"
=============================================================================
