-------------------------------- MODULE Runtime --------------------------------
(***************************************************************************)
(* The simulated threads of the fuzz engine and what they block on:         *)
(* src/syncbox-fuzz/src/rt/{mod,execution,thread,oneshot,object}.rs,        *)
(* sync/{mutex,condvar}.rs, thread.rs and futures/mod.rs.                   *)
(*                                                                          *)
(* Only the active thread moves, and only a branch point (`Schedule`) makes *)
(* another one active, so an action runs from one branch point to the next. *)
(* The scheduler may pick any runnable thread: which of them the search     *)
(* tries, and in which order, is left out, and so are version vectors.      *)
(***************************************************************************)
EXTENDS Sequences, SequencesExt

CONSTANTS Threads,   \* thread::Set, max_threads of them
          Root,      \* the thread every iteration starts with
          Futures,   \* the threads that wait_future runs
          Mutexes,
          None

ASSUME ThreadsAssumption ==
  /\ Root \in Threads /\ Futures \subseteq Threads
  /\ None \notin Threads \cup Mutexes

VARIABLES state,     \* Thread.state, "Absent" before new_thread
          operation, \* Thread.operation: the mutex it is on, None for any other
          notified,  \* Thread.notified
          active,    \* Set.active
          owner,     \* Mutex.lock
          guards,    \* Mutex.data: the threads that borrow it
          waiters,   \* Condvar.waiters, of the one condition variable
          rx, sent,  \* oneshot::Inner of each JoinHandle: rx, and value is Some
          handle,    \* the thread that holds the JoinHandle of each thread
          pc,
          obj,       \* the mutex, or the joined thread, of the current call
          verdict,   \* how the iteration is going
          misled     \* history: the threads a Task::notify found in a blocking call

vars == <<state, operation, notified, active, owner, guards, waiters, rx, sent, handle,
          pc, obj, verdict, misled>>
sched == <<active, verdict>>
joins == <<rx, sent, handle>>
notes == <<notified, misled>>

Alive == {"Runnable", "Blocked", "Yield"}
\* "client": in the program, between two calls of the engine.  The others name
\* the branch point, or the park, a thread is in.
PCs == {"client", "branch", "lock", "wait", "parked", "notify", "recv", "join", "await",
        "send", "done"}

TypeOK ==
  /\ state \in [Threads -> Alive \cup {"Absent", "Terminated"}]
  /\ operation \in [Threads -> Mutexes \cup {None}]
  /\ notified \in [Threads -> BOOLEAN]
  /\ active \in Threads \cup {None}
  /\ owner \in [Mutexes -> Threads \cup {None}]
  /\ guards \in [Mutexes -> SUBSET Threads]
  /\ waiters \in Seq(Threads)
  /\ rx \in [Threads -> Threads \cup {None}] /\ sent \in [Threads -> BOOLEAN]
  /\ handle \in [Threads -> Threads \cup {None}]
  /\ pc \in [Threads -> PCs]
  /\ obj \in [Threads -> Mutexes \cup Threads \cup {None}]
  /\ verdict \in {"running", "finished", "deadlock", "panicked"}
  /\ misled \subseteq Threads

\* Execution::new, and what Execution::step resets.
Init ==
  /\ state = [t \in Threads |-> IF t = Root THEN "Runnable" ELSE "Absent"]
  /\ operation = [t \in Threads |-> None] /\ notified = [t \in Threads |-> FALSE]
  /\ active = Root
  /\ owner = [m \in Mutexes |-> None] /\ guards = [m \in Mutexes |-> {}]
  /\ waiters = <<>>
  /\ rx = [t \in Threads |-> None] /\ sent = [t \in Threads |-> FALSE]
  /\ handle = [t \in Threads |-> None]
  /\ pc = [t \in Threads |-> "client"] /\ obj = [t \in Threads |-> None]
  /\ verdict = "running" /\ misled = {}

-------------------------------------------------------------------------------
\* The active thread, at one place of its program.
Runs(t, label) == verdict = "running" /\ active = t /\ pc[t] = label

\* Execution::schedule with the thread states st.
Schedule(st) ==
  LET ready == {t \in Threads : st[t] = "Runnable"} IN
  /\ state' = st
  /\ \/ active' \in ready /\ UNCHANGED verdict
     \/ /\ ready = {} /\ active' = None
        /\ verdict' = IF \E t \in Threads : st[t] \in Alive THEN "deadlock" ELSE "finished"

Become(t, s) == [state EXCEPT ![t] = s]

\* Execution::unpark_thread
Unpark(t, u, st) ==
  IF u # t /\ st[u] \in {"Blocked", "Yield"} THEN [st EXCEPT ![u] = "Runnable"] ELSE st

\* The loops of Mutex::acquire and Mutex::release over the other threads whose
\* next operation is on m.
Contenders(t, m) == {u \in Threads \ {t} : operation[u] = m}
SetAll(us, s) == [u \in Threads |-> IF u \in us THEN s ELSE state[u]]

\* A call that reaches its branch point: its operation is on op.
Call(t, label, op, o, st) ==
  /\ pc' = [pc EXCEPT ![t] = label]
  /\ operation' = [operation EXCEPT ![t] = op]
  /\ obj' = [obj EXCEPT ![t] = o]
  /\ Schedule(st)

\* The call returns to the program, which goes on without a branch point.
Return(t) ==
  /\ pc' = [pc EXCEPT ![t] = "client"] /\ obj' = [obj EXCEPT ![t] = None]

HoldsNone(t) == \A m \in Mutexes : t \notin guards[m]

-------------------------------------------------------------------------------
\* An atomic operation, seen as a branch point, and rt::yield_now.
Atomic(t) ==
  /\ Runs(t, "client") /\ Call(t, "branch", None, None, state)
  /\ UNCHANGED <<notes, owner, guards, waiters, joins>>

YieldNow(t) ==
  /\ Runs(t, "client") /\ Call(t, "branch", None, None, Become(t, "Yield"))
  /\ UNCHANGED <<notes, owner, guards, waiters, joins>>

Resume(t) ==
  /\ \/ Runs(t, "branch") \/ Runs(t, "join")
     \/ Runs(t, "await")                      \* wait_future polls again
  /\ Return(t)
  /\ UNCHANGED <<state, operation, notes, sched, owner, guards, waiters, joins>>

-------------------------------------------------------------------------------
\* Mutant of Acquire: is_locked() is not looked at.
MutAcquireAnyway(t, m) == Call(t, "lock", m, m, state)

\* branch_acquire(is_locked())
Acquire(t, m) ==
  Call(t, "lock", m, m, IF owner[m] # None THEN Become(t, "Blocked") ELSE state)

\* Mutex::lock.  A program that locks a mutex holding one is left out: it may
\* deadlock by itself.
Lock(t) ==
  /\ Runs(t, "client") /\ HoldsNone(t)
  /\ \E m \in Mutexes : Acquire(t, m)
  /\ UNCHANGED <<notes, owner, guards, waiters, joins>>

\* Mutant of Locked: the other threads at the mutex are not blocked.
MutLockedAlone(t) ==
  LET m == obj[t] IN
  /\ Runs(t, "lock")
  /\ owner' = [owner EXCEPT ![m] = t]
  /\ IF guards[m] = {} THEN guards' = [guards EXCEPT ![m] = {t}] /\ UNCHANGED verdict
     ELSE verdict' = "panicked" /\ UNCHANGED guards
  /\ Return(t)
  /\ UNCHANGED <<state, operation, notes, active, waiters, joins>>

\* The rest of Mutex::acquire; borrow_mut panics on a mutex that is borrowed.
Locked(t) ==
  LET m == obj[t] IN
  /\ Runs(t, "lock")
  /\ state' = SetAll(Contenders(t, m), "Blocked")
  /\ owner' = [owner EXCEPT ![m] = t]
  /\ IF guards[m] = {} THEN guards' = [guards EXCEPT ![m] = {t}] /\ UNCHANGED verdict
     ELSE verdict' = "panicked" /\ UNCHANGED guards
  /\ Return(t)
  /\ UNCHANGED <<operation, notes, active, waiters, joins>>

\* MutexGuard::release, from its drop.
Unlock(t) ==
  /\ Runs(t, "client")
  /\ \E m \in Mutexes :
       /\ t \in guards[m]
       /\ guards' = [guards EXCEPT ![m] = @ \ {t}]
       /\ owner' = [owner EXCEPT ![m] = None]
       /\ state' = SetAll(Contenders(t, m), "Runnable")
  /\ UNCHANGED <<operation, notes, sched, waiters, joins, pc, obj>>

-------------------------------------------------------------------------------
\* Mutant of Wait: the operation names the thread, not the condition variable.
MutWaitOnSelf(t) ==
  /\ Runs(t, "client")
  /\ \E m \in Mutexes : t \in guards[m] /\ Call(t, "wait", t, m, state)
  /\ UNCHANGED <<notes, owner, guards, waiters, joins>>

\* Condvar::wait, in three parts, and notify_one.
Wait(t) ==
  /\ Runs(t, "client")
  /\ \E m \in Mutexes : t \in guards[m] /\ Call(t, "wait", None, m, state)
  /\ UNCHANGED <<notes, owner, guards, waiters, joins>>

\* Mutant of ParkWaiter: releasing the mutex lets no other thread on.
MutReleaseSilently(t) ==
  LET m == obj[t] IN
  /\ Runs(t, "wait")
  /\ waiters' = Append(waiters, t)
  /\ guards' = [guards EXCEPT ![m] = @ \ {t}]
  /\ owner' = [owner EXCEPT ![m] = None]
  /\ Call(t, "parked", None, m, Become(t, "Blocked"))
  /\ UNCHANGED <<notes, joins>>

ParkWaiter(t) ==
  LET m == obj[t] IN
  /\ Runs(t, "wait")
  /\ waiters' = Append(waiters, t)
  /\ guards' = [guards EXCEPT ![m] = @ \ {t}]
  /\ owner' = [owner EXCEPT ![m] = None]
  /\ Call(t, "parked", None, m,
          [SetAll(Contenders(t, m), "Runnable") EXCEPT ![t] = "Blocked"])
  /\ UNCHANGED <<notes, joins>>

Relock(t) ==
  /\ Runs(t, "parked") /\ Acquire(t, obj[t])
  /\ UNCHANGED <<notes, owner, guards, waiters, joins>>

NotifyOne(t) ==
  /\ Runs(t, "client") /\ Call(t, "notify", None, None, state)
  /\ UNCHANGED <<notes, owner, guards, waiters, joins>>

\* Mutant of WakeOne: front() instead of pop_front().
MutWakeFront(t) ==
  /\ Runs(t, "notify") /\ waiters # <<>>
  /\ state' = Unpark(t, Head(waiters), state)
  /\ Return(t)
  /\ UNCHANGED <<operation, notes, sched, owner, guards, waiters, joins>>

WakeOne(t) ==
  /\ Runs(t, "notify")
  /\ IF waiters = <<>> THEN UNCHANGED <<state, waiters>>
     ELSE state' = Unpark(t, Head(waiters), state) /\ waiters' = Tail(waiters)
  /\ Return(t)
  /\ UNCHANGED <<operation, notes, sched, owner, guards, joins>>

-------------------------------------------------------------------------------
\* thread::spawn and futures::spawn; only the first gives a JoinHandle.
Spawn(t) ==
  /\ Runs(t, "client")
  /\ \E u \in Threads :
       /\ state[u] = "Absent" /\ state' = Become(u, "Runnable")
       /\ handle' = [handle EXCEPT ![u] = IF u \in Futures THEN None ELSE t]
  /\ UNCHANGED <<operation, notes, sched, owner, guards, waiters, rx, sent, pc, obj>>

\* JoinHandle::join: recv takes the value, or parks until it is sent.
Join(t) ==
  /\ Runs(t, "client") /\ HoldsNone(t)
  /\ \E u \in Threads :
       /\ handle[u] = t /\ handle' = [handle EXCEPT ![u] = None]
       /\ IF sent[u] THEN Call(t, "join", None, u, state) /\ UNCHANGED rx
          ELSE rx' = [rx EXCEPT ![u] = t] /\ Call(t, "recv", None, u, Become(t, "Blocked"))
  /\ UNCHANGED <<notes, owner, guards, waiters, sent>>

\* recv after its park: unwrap panics when nothing was sent.
Received(t) ==
  /\ Runs(t, "recv")
  /\ IF sent[obj[t]] THEN Call(t, "join", None, obj[t], state)
     ELSE verdict' = "panicked" /\ UNCHANGED <<state, operation, active, pc, obj>>
  /\ UNCHANGED <<notes, owner, guards, waiters, joins>>

\* The program ends.  A thread of thread::spawn sends its result first.
Exit(t) ==
  /\ Runs(t, "client") /\ HoldsNone(t)
  /\ IF t \in Threads \ (Futures \cup {Root}) THEN Call(t, "send", None, None, state)
     ELSE Call(t, "done", None, None, Become(t, "Terminated"))
  /\ UNCHANGED <<notes, owner, guards, waiters, joins>>

\* Sender::send, then thread_done.
Send(t) ==
  LET sending == Become(t, "Terminated") IN
  /\ Runs(t, "send") /\ sent' = [sent EXCEPT ![t] = TRUE]
  /\ Call(t, "done", None, None,
          IF rx[t] = None THEN sending ELSE Unpark(t, rx[t], sending))
  /\ UNCHANGED <<notes, owner, guards, waiters, rx, handle>>

-------------------------------------------------------------------------------
\* Task::notify, from any thread and of any thread that asked for its Task; the
\* flag that is set is the notifier's own.
TaskNotify(t, u) ==
  /\ Runs(t, "client") /\ state[u] # "Absent"
  /\ state' = Unpark(t, u, state)
  /\ notified' = [notified EXCEPT ![t] = TRUE]
  /\ misled' = IF u # t /\ state[u] = "Blocked" /\ pc[u] # "await"
               THEN misled \cup {u} ELSE misled
  /\ UNCHANGED <<operation, sched, owner, guards, waiters, joins, pc, obj>>

\* The poll in wait_future was not ready.
NotReady(t) ==
  /\ t \in Futures /\ Runs(t, "client")
  /\ notified' = [notified EXCEPT ![t] = FALSE]
  /\ IF notified[t] THEN UNCHANGED <<state, operation, sched, pc, obj>>
     ELSE Call(t, "await", None, None, Become(t, "Blocked"))
  /\ UNCHANGED <<misled, owner, guards, waiters, joins>>

-------------------------------------------------------------------------------
\* Execution::step: the next iteration starts from the beginning.
NextIteration ==
  /\ verdict = "finished" /\ verdict' = "running"
  /\ state' = [t \in Threads |-> IF t = Root THEN "Runnable" ELSE "Absent"]
  /\ operation' = [t \in Threads |-> None] /\ notified' = [t \in Threads |-> FALSE]
  /\ active' = Root
  /\ owner' = [m \in Mutexes |-> None] /\ guards' = [m \in Mutexes |-> {}]
  /\ waiters' = <<>>
  /\ rx' = [t \in Threads |-> None] /\ sent' = [t \in Threads |-> FALSE]
  /\ handle' = [t \in Threads |-> None]
  /\ pc' = [t \in Threads |-> "client"] /\ obj' = [t \in Threads |-> None]
  /\ misled' = {}

Step(t) ==
  \/ Atomic(t) \/ YieldNow(t) \/ Resume(t) \/ NotReady(t)
  \/ Lock(t) \/ Locked(t) \/ Unlock(t)
  \/ Wait(t) \/ ParkWaiter(t) \/ Relock(t) \/ NotifyOne(t) \/ WakeOne(t)
  \/ Spawn(t) \/ Join(t) \/ Received(t) \/ Exit(t) \/ Send(t)
  \/ \E u \in Threads : TaskNotify(t, u)

Next == NextIteration \/ \E t \in Threads : Step(t)

Spec == Init /\ [][Next]_vars

-------------------------------------------------------------------------------
\* borrow_mut (mutex.rs:38) and unwrap (oneshot.rs:60) panic in no thread but one
\* that a Task::notify took out of a blocking call: nothing else makes a thread
\* runnable inside a lock another one holds, or before its result is there.
NoPanic == verdict = "panicked" => active \in misled

\* A mutex is owned by at most one thread, which alone borrows its data: the
\* engine's Mutex is one, though it only keeps threads from being scheduled.  A
\* misled thread comes to own one it cannot borrow, and panics at once.
MutexExclusion ==
  \A m \in Mutexes :
    \/ guards[m] = IF owner[m] = None THEN {} ELSE {owner[m]}
    \/ verdict = "panicked" /\ owner[m] \in misled

\* What a thread in a blocking call is waiting for has not happened yet.
Waiting(t) ==
  \/ pc[t] = "lock" /\ owner[obj[t]] # None
  \/ pc[t] = "parked" /\ Contains(waiters, t)
  \/ pc[t] = "recv" /\ ~sent[obj[t]] /\ rx[obj[t]] = t
  \/ pc[t] = "await"

\* A "deadlock" verdict is not the engine's own doing: a blocked thread waits for a
\* mutex that is owned, a notification it is queued for, or a result not sent;
\* nobody is left blocked by a release, a notify or a send that has taken place.
BlockedForAReason ==
  \A t \in Threads : state[t] = "Blocked" => Waiting(t)

\* ... and a thread the scheduler may pick can go on: no lock it would take is
\* owned, no place in the condition variable's queue is left behind to swallow the
\* notification meant for another.  Only a Task::notify breaks this, and only for
\* the thread it names.
RunnableMayGoOn ==
  \A t \in Threads \ misled :
    state[t] = "Runnable" /\ pc[t] \in {"lock", "parked", "recv"} => ~Waiting(t)
===============================================================================
