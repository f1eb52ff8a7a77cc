-------------------------- MODULE MCTaskProjection --------------------------
(* Two tasks of one workspace, each running a turn: the batch one streams is  *)
(* the one the events of the other wait for.  The batch size is one less than *)
(* the deltas a turn can leave open and chained together.                     *)
EXTENDS TaskProjection, TLC

CONSTANTS ta, tb, u, v

MCTasks == {ta, tb}
MCTurns == {u, v}
MCTaskOf == u :> ta @@ v :> tb
MCMayExit == {ta}
=============================================================================
