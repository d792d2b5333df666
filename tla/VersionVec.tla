------------------------------ MODULE VersionVec ------------------------------
(***************************************************************************)
(* Version vectors, src/syncbox-fuzz/src/rt/vv.rs: one counter per thread   *)
(* id, used by the fuzz engine both for the causality of the simulated      *)
(* memory and for the dependences of its partial order reduction.           *)
(***************************************************************************)
EXTENDS Naturals

CONSTANT MaxThreads   \* Builder.max_threads

ASSUME MaxThreadsAssumption == MaxThreads \in Nat \ {0}

Threads == 0 .. MaxThreads - 1
Root == 0             \* Execution::new makes the root thread, id 0

Vectors == [Threads -> Nat]
Zero == [t \in Threads |-> 0]

Inc(v, t) == [v EXCEPT ![t] = @ + 1]
Join(v, w) == [t \in Threads |-> IF v[t] < w[t] THEN w[t] ELSE v[t]]

\* `<=` is the derived PartialOrd of a boxed slice: the first counter that differs
\* decides.  It is a total order, which the order of events is not.
Leq(v, w) ==
  \A t \in Threads : (\A u \in 0 .. t - 1 : v[u] = w[u]) => v[t] <= w[t]

\* What `<=` is meant to tell: every event that v counts is counted by w.
Before(v, w) == \A t \in Threads : v[t] <= w[t]
===============================================================================
