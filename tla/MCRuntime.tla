------------------------------- MODULE MCRuntime -------------------------------
(* A root thread, one of thread::spawn and one of futures::spawn; each of them    *)
(* may use the mutex, the condition variable and join, and be notified.           *)
EXTENDS Runtime, Integers

CONSTANTS r, a, f, m1

MCThreads == {r, a, f}
MCFutures == {f}
MCMutexes == {m1}

\* A misled thread leaves its place in the queue behind, so without a bound the
\* queue grows.  Two places are two threads that wait while the third notifies, or
\* one that waits behind a place left behind.
ShortQueue == Len(waiters) <= 2
===============================================================================
