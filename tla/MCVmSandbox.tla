---------------------------- MODULE MCVmSandbox ----------------------------
(* Three calls: two on the environment of the workspace that is removed, one  *)
(* on another; a slot fewer than calls, and room for one warm environment, or *)
(* two when the second call of the first environment makes its reservation.   *)
EXTENDS VmSandbox, TLC

CONSTANTS a1, a2, b1, ka, kb

MCOps == {a1, a2, b1}
MCKeys == {ka, kb}
MCKeyOf == a1 :> ka @@ a2 :> ka @@ b1 :> kb
MCSlotLimit == a1 :> 2 @@ a2 :> 2 @@ b1 :> 1
MCEnvLimit == a1 :> 1 @@ a2 :> 2 @@ b1 :> 1
MCRemoved == {ka}
=============================================================================
