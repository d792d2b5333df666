------------------------------ MODULE MCSemaphore ------------------------------
(* Three actors, as in src/fuzz/semaphore/src/main.rs, each with a node. *)
EXTENDS Semaphore, TLC

CONSTANTS a1, a2, a3, x1, x2, x3

MCActors == {a1, a2, a3}
MCNodes == {x1, x2, x3}
MCOwnNode == a1 :> {x1} @@ a2 :> {x2} @@ a3 :> {x3}
===============================================================================
