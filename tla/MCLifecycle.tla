---------------------------- MODULE MCLifecycle ----------------------------
(* Lifecycle with what comes from outside bounded kind by kind, and in all.   *)
EXTENDS Lifecycle, TLC

CONSTANTS MaxAborts, MaxOrders, MaxLapses, MaxCommands, MaxCloses, MaxUpsets

Bounds == [aborts |-> MaxAborts, orders |-> MaxOrders, lapses |-> MaxLapses,
           commands |-> MaxCommands, closes |-> MaxCloses, all |-> MaxUpsets]

Symmetry == Permutations(Runs) \cup Permutations(Sessions)
=============================================================================
