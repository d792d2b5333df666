----------------------------- MODULE MCAtomicTask -----------------------------
(* Three threads racing register_task and notify with two tasks. *)
EXTENDS AtomicTask

CONSTANTS t1, t2, t3, k1, k2

MCThreads == {t1, t2, t3}
MCTasks == {k1, k2}
===============================================================================
