---------------------------- MODULE MCTurnClaims ----------------------------
(* One task, whose claim two composer turns and two remote turns ask for.     *)
EXTENDS TurnClaims, TLC

CONSTANTS task1, c1, c2, r1, r2

MCTasks == {task1}
MCTurns == {c1, c2, r1, r2}
MCTaskOf == [u \in MCTurns |-> task1]
MCRemote == {r1, r2}
=============================================================================
