---------------------------- MODULE MCSemaphoreQueue ----------------------------
(* Three actors that share three nodes: one actor holds or releases a permit, *)
(* so that two more nodes are enough for a queue with a dropped one in it.    *)
EXTENDS SemaphoreQueue, TLC

CONSTANTS a1, a2, a3, x1, x2, x3

MCActors == {a1, a2, a3}
MCNodes == {x1, x2, x3}
MCHeap == [a \in MCActors |-> MCNodes]
MCSymmetry == Permutations(MCActors) \cup Permutations(MCNodes)
===============================================================================
