--------------------------- MODULE MCVmScheduler ---------------------------
(* Five calls over three keys: a chain of three on one of them, so that a     *)
(* cancelled call can stand between two others, and limits of one and two, so *)
(* that a woken call may have to park again.                                  *)
EXTENDS VmScheduler, TLC

CONSTANTS a1, a2, a3, b1, c1, ka, kb, kc

MCOps == {a1, a2, a3, b1, c1}
MCKeys == {ka, kb, kc}
MCKeyOf == a1 :> ka @@ a2 :> ka @@ a3 :> ka @@ b1 :> kb @@ c1 :> kc
MCSlotLimit == a1 :> 2 @@ a2 :> 2 @@ a3 :> 2 @@ b1 :> 2 @@ c1 :> 1
=============================================================================
