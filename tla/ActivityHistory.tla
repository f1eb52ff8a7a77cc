-------------------------- MODULE ActivityHistory --------------------------
(***************************************************************************)
(* What ActivityLogStore promises: the history of activities, as a reader  *)
(* would be given it, only grows at its end, and an operation is           *)
(* acknowledged to its caller when all it did is in the history, where it  *)
(* then stays.  What is not acknowledged may be in the history or not.     *)
(***************************************************************************)
EXTENDS Naturals, Sequences

VARIABLES
  history,        \* the changes the activities result from, oldest first
  acknowledged    \* the changes whose callers were told of success

historyVars == <<history, acknowledged>>

HistoryInit == history = <<>> /\ acknowledged = {}

Recorded == {history[i] : i \in DOMAIN history}

Grow ==
  /\ Len(history') >= Len(history)
  /\ SubSeq(history', 1, Len(history)) = history
  /\ UNCHANGED acknowledged

Acknowledge ==
  /\ acknowledged \subseteq acknowledged'
  /\ acknowledged' \subseteq Recorded
  /\ UNCHANGED history

HistorySpec == HistoryInit /\ [][Grow \/ Acknowledge]_historyVars
=============================================================================
