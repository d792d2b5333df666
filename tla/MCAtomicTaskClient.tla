-------------------------- MODULE MCAtomicTaskClient --------------------------
(* One consumer, two producers that produce twice each, two tasks. *)
EXTENDS AtomicTaskClient

CONSTANTS c, p1, p2, k1, k2

MCThreads == {c, p1, p2}
MCTasks == {k1, k2}
===============================================================================
