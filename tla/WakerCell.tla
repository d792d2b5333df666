------------------------------- MODULE WakerCell -------------------------------
(***************************************************************************)
(* What AtomicTask promises (the comments of src/src/futures/atomic_task.rs *)
(* at lines 20-38 and 169-184), with each call as one atomic step.          *)
(***************************************************************************)

CONSTANTS Threads, Tasks, None

VARIABLES cell,      \* the registered task, or None
          due,       \* the task each thread has undertaken to notify, or None
          notified   \* the tasks woken and not polled since

vars == <<cell, due, notified>>

Init ==
  /\ cell = None
  /\ due = [t \in Threads |-> None]
  /\ notified = {}

\* The new task takes the place of the one registered before.
Register(tk) ==
  /\ cell' = tk
  /\ UNCHANGED <<due, notified>>

\* A registration that meets a notify in progress wakes its own task.
Bounce(t, tk) ==
  /\ cell = None
  /\ due[t] = None
  /\ due' = [due EXCEPT ![t] = tk]
  /\ UNCHANGED <<cell, notified>>

\* A notify empties the cell and makes one thread, the notifier or the
\* registering thread, responsible for waking the task.
Notify(t) ==
  /\ cell # None
  /\ due[t] = None
  /\ due' = [due EXCEPT ![t] = cell]
  /\ cell' = None
  /\ UNCHANGED notified

Deliver(t) ==
  /\ due[t] # None
  /\ notified' = notified \cup {due[t]}
  /\ due' = [due EXCEPT ![t] = None]
  /\ UNCHANGED cell

Poll(tk) ==
  /\ tk \in notified
  /\ notified' = notified \ {tk}
  /\ UNCHANGED <<cell, due>>

Next ==
  \/ \E t \in Threads : Notify(t) \/ Deliver(t)
  \/ \E t \in Threads, tk \in Tasks : Bounce(t, tk)
  \/ \E tk \in Tasks : Register(tk) \/ Poll(tk)

Spec == Init /\ [][Next]_vars
===============================================================================
