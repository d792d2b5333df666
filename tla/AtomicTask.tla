------------------------------ MODULE AtomicTask ------------------------------
(***************************************************************************)
(* src/src/futures/atomic_task.rs: a cell holding the task to wake, guarded *)
(* by the two bits of one atomic word.  Any thread may call                 *)
(* register_task(tk) or notify() at any time, concurrently with the others. *)
(* One action is one atomic operation on `state`, or one access to the      *)
(* task cell between two of them.                                           *)
(***************************************************************************)

CONSTANTS Threads,   \* the threads that call register_task and notify
          Tasks,     \* the task handles passed to register_task
          None       \* Option::None

ASSUME NoneAssumption == None \notin Tasks

VARIABLES state,     \* the bits set in AtomicTask.state
          task,      \* the contents of AtomicTask.task
          pc,        \* where each thread is inside register_task or notify
          hand,      \* the task value each thread owns: its argument, or one it took
          notified   \* the tasks woken and not polled since (their executors' queue)

vars == <<state, task, pc, hand, notified>>

REGISTERING == "REGISTERING"
NOTIFYING == "NOTIFYING"
WAITING == {}

PCs == {"idle", "store", "release", "take", "swap", "deliver",
        "ntake", "nrelease", "panicked"}

MaybeTask == Tasks \cup {None}

TypeOK ==
  /\ state \in SUBSET {REGISTERING, NOTIFYING}
  /\ task \in MaybeTask
  /\ pc \in [Threads -> PCs]
  /\ hand \in [Threads -> MaybeTask]
  /\ notified \in SUBSET Tasks

Init ==
  /\ state = WAITING
  /\ task = None
  /\ pc = [t \in Threads |-> "idle"]
  /\ hand = [t \in Threads |-> None]
  /\ notified = {}

Goto(t, label) == pc' = [pc EXCEPT ![t] = label]
Hold(t, tk) == hand' = [hand EXCEPT ![t] = tk]

-------------------------------------------------------------------------------
(* register_task: compare_and_swap(WAITING, REGISTERING). *)

\* Mutant of RegisterWin: fetch_or(REGISTERING) instead of the compare_and_swap.
MutRegisterOr(t, tk) ==
  /\ pc[t] = "idle" /\ REGISTERING \notin state
  /\ state' = state \cup {REGISTERING}
  /\ Hold(t, tk) /\ Goto(t, "store")
  /\ UNCHANGED <<task, notified>>

\* The caller gets the lock on the cell.
RegisterWin(t, tk) ==
  /\ pc[t] = "idle"
  /\ state = WAITING
  /\ state' = {REGISTERING}
  /\ Hold(t, tk)
  /\ Goto(t, "store")
  /\ UNCHANGED <<task, notified>>

\* Mutant of RegisterBounce: the call is dropped.
MutBounceDropped(t, tk) ==
  /\ pc[t] = "idle" /\ state = {NOTIFYING}
  /\ UNCHANGED vars

\* A notify is in progress: the caller notifies its own task.
RegisterBounce(t, tk) ==
  /\ pc[t] = "idle"
  /\ state = {NOTIFYING}
  /\ Hold(t, tk)
  /\ Goto(t, "deliver")
  /\ UNCHANGED <<state, task, notified>>

\* Another thread is registering: the call is dropped.
RegisterLose(t) ==
  /\ pc[t] = "idle"
  /\ REGISTERING \in state
  /\ UNCHANGED vars

\* *t = Some(task): what the cell held is overwritten.
Store(t) ==
  /\ pc[t] = "store"
  /\ task' = hand[t]
  /\ Hold(t, None)
  /\ Goto(t, "release")
  /\ UNCHANGED <<state, notified>>

\* Mutant of Release: a plain store, blind to a notify that came meanwhile.
MutReleaseStore(t) ==
  /\ pc[t] = "release"
  /\ state' = WAITING /\ Goto(t, "idle")
  /\ UNCHANGED <<task, hand, notified>>

\* compare_exchange(REGISTERING, WAITING), and the assertion on its failure.
Release(t) ==
  /\ pc[t] = "release"
  /\ \/ /\ state = {REGISTERING}
        /\ state' = WAITING
        /\ Goto(t, "idle")
     \/ /\ state # {REGISTERING}
        /\ Goto(t, IF state = {REGISTERING, NOTIFYING} THEN "take" ELSE "panicked")
        /\ UNCHANGED state
  /\ UNCHANGED <<task, hand, notified>>

\* The task just stored is taken back to be notified: take().unwrap().
Take(t) ==
  /\ pc[t] = "take"
  /\ Hold(t, task)
  /\ task' = None
  /\ Goto(t, IF task = None THEN "panicked" ELSE "swap")
  /\ UNCHANGED <<state, notified>>

\* Mutant of Swap: only the NOTIFYING bit is cleared.
MutSwapHalf(t) ==
  /\ pc[t] = "swap"
  /\ state' = state \ {NOTIFYING} /\ Goto(t, "deliver")
  /\ UNCHANGED <<task, hand, notified>>

Swap(t) ==
  /\ pc[t] = "swap"
  /\ state' = WAITING
  /\ Goto(t, "deliver")
  /\ UNCHANGED <<task, hand, notified>>

\* Task::notify on the task in hand; the handle is dropped.
Deliver(t) ==
  /\ pc[t] = "deliver"
  /\ notified' = notified \cup {hand[t]}
  /\ Hold(t, None)
  /\ Goto(t, "idle")
  /\ UNCHANGED <<state, task>>

-------------------------------------------------------------------------------
(* notify *)

\* Mutant of NotifyEnter: entered whenever no other notify is in progress.
MutNotifyBarges(t) ==
  /\ pc[t] = "idle"
  /\ state' = state \cup {NOTIFYING}
  /\ Goto(t, IF NOTIFYING \in state THEN "idle" ELSE "ntake")
  /\ UNCHANGED <<task, hand, notified>>

\* fetch_or(NOTIFYING): only the call that finds WAITING owns the cell.
NotifyEnter(t) ==
  /\ pc[t] = "idle"
  /\ state' = state \cup {NOTIFYING}
  /\ Goto(t, IF state = WAITING THEN "ntake" ELSE "idle")
  /\ UNCHANGED <<task, hand, notified>>

NotifyTake(t) ==
  /\ pc[t] = "ntake"
  /\ Hold(t, task)
  /\ task' = None
  /\ Goto(t, "nrelease")
  /\ UNCHANGED <<state, notified>>

\* Mutant of NotifyRelease: the task taken is not notified.
MutNotifyForgets(t) ==
  /\ pc[t] = "nrelease"
  /\ state' = state \ {NOTIFYING} /\ Goto(t, "idle")
  /\ UNCHANGED <<task, hand, notified>>

\* fetch_and(!NOTIFYING), then notify the task if there was one.
NotifyRelease(t) ==
  /\ pc[t] = "nrelease"
  /\ state' = state \ {NOTIFYING}
  /\ Goto(t, IF hand[t] = None THEN "idle" ELSE "deliver")
  /\ UNCHANGED <<task, hand, notified>>

-------------------------------------------------------------------------------

\* The executor polls a woken task.
Poll(tk) ==
  /\ tk \in notified
  /\ notified' = notified \ {tk}
  /\ UNCHANGED <<state, task, pc, hand>>

\* The steps of a call that has begun.
Step(t) ==
  \/ Store(t) \/ Release(t) \/ Take(t) \/ Swap(t) \/ Deliver(t)
  \/ NotifyTake(t) \/ NotifyRelease(t)

Register(t, tk) == RegisterWin(t, tk) \/ RegisterBounce(t, tk) \/ RegisterLose(t)

Next ==
  \/ \E t \in Threads : Step(t) \/ NotifyEnter(t)
  \/ \E t \in Threads, tk \in Tasks : Register(t, tk)
  \/ \E tk \in Tasks : Poll(tk)

Spec == Init /\ [][Next]_vars

\* A call that has begun is run to its end: the operating system schedules
\* every thread.  Nobody has to make a call, and nobody has to poll a task.
FairSpec == Spec /\ \A t \in Threads : WF_vars(Step(t))

-------------------------------------------------------------------------------
(* Safety *)

InCell(t) == pc[t] \in {"store", "take", "ntake"}

\* "When this transition is made, it is guaranteed that no other thread will
\* access the task cell" (atomic_task.rs:67): two threads are never both about
\* to access the CausalCell, whatever calls race.
CellExclusive == \A t, u \in Threads : InCell(t) /\ InCell(u) => t = u

\* The assertion on the word found by a failed release, and the unwrap of the
\* task taken back, never fail.
NoPanic == \A t \in Threads : pc[t] # "panicked"

-------------------------------------------------------------------------------
(* Why: the invariant that every step preserves. *)

Registering(t) == pc[t] \in {"store", "release", "take", "swap"}
Notifying(t) == pc[t] \in {"ntake", "nrelease"}

\* The word says who is in which critical section.
WordTellsSection ==
  \A t \in Threads :
    /\ Registering(t) => REGISTERING \in state
    /\ pc[t] \in {"take", "swap"} => NOTIFYING \in state
    /\ Notifying(t) => state = {NOTIFYING}

\* One thread at a time is in one, and REGISTERING is never left set behind it.
OneSection ==
  /\ \A t, u \in Threads :
       (Registering(t) \/ Notifying(t)) /\ (Registering(u) \/ Notifying(u)) => t = u
  /\ REGISTERING \in state => \E t \in Threads : Registering(t)

\* What the thread in a critical section, or on its way to notify, finds.
Contents ==
  \A t \in Threads :
    /\ pc[t] \in {"store", "swap", "deliver"} => hand[t] # None
    /\ pc[t] \in {"release", "take"} => task # None
    /\ pc[t] \in {"swap", "nrelease"} => task = None

IInv == TypeOK /\ WordTellsSection /\ OneSection /\ Contents /\ NoPanic

-------------------------------------------------------------------------------
(* The abstract cell: what an observer outside the two locks can rely on. *)

\* The task a notify() starting now would reach.
Cell ==
  IF NOTIFYING \in state THEN None
  ELSE IF \E t \in Threads : pc[t] = "store"
       THEN hand[CHOOSE t \in Threads : pc[t] = "store"]
       ELSE task

\* The task thread t has undertaken to notify.
DueOf(t) ==
  CASE pc[t] \in {"swap", "deliver", "nrelease"} -> hand[t]
    [] pc[t] = "ntake" -> task
    [] pc[t] = "store" /\ NOTIFYING \in state -> hand[t]
    [] pc[t] \in {"release", "take"} /\ NOTIFYING \in state -> task
    [] OTHER -> None

Due == [t \in Threads |-> DueOf(t)]

WC == INSTANCE WakerCell WITH cell <- Cell, due <- Due

\* Each atomic step of the code is a step of the abstract cell, or none: a
\* registered task leaves the cell only by being replaced or by becoming due,
\* and a due task only by being notified.
ImplementsWakerCell == WC!Spec

\* A task a thread has undertaken to notify is notified.
DueIsDelivered ==
  \A t \in Threads, tk \in Tasks : Due[t] = tk ~> tk \in notified
===============================================================================
