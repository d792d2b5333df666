----------------------------- MODULE StdScheduler -----------------------------
(***************************************************************************)
(* src/syncbox-fuzz/src/rt/scheduler/std.rs: the fuzz engine runs one       *)
(* simulated thread at a time on operating-system threads.  Thread 0 calls  *)
(* `run` for one iteration after the other; worker i runs the closure that  *)
(* becomes simulated thread i, each sleeps on a condition variable of its   *)
(* own both for work and for its turn.                                      *)
(*                                                                          *)
(* Which thread runs next is the Execution's choice (`live`, `chosen`): any *)
(* thread that has not ended.  The atomics are sequentially consistent, as  *)
(* they are on the machines the engine is built for.                        *)
(***************************************************************************)
EXTENDS Integers, FiniteSets

CONSTANTS Capacity,   \* max_threads
          Budget      \* BOUND on the branch points of one iteration

ASSUME CapacityAssumption == Capacity \in Nat \ {0}
ASSUME BudgetAssumption == Budget \in Nat

Threads == 0..(Capacity - 1)
Workers == Threads \ {0}
Nobody == -1

VARIABLES active_thread, next_thread, done,  \* Shared, the atomics
          slot,     \* Shared.threads: what each worker has to do
          lock,     \* who holds the mutex around that slot
          asleep,   \* the threads waiting on their condition variable
          token,    \* the park token of Shared.notify, the main thread
          live,     \* Execution.threads: those not terminated
          chosen,   \* Execution.threads.active
          budget, pc,
          target,   \* the thread this one is handing the turn to, or giving work
          seen      \* the value of `done` this thread has read, and not yet used

vars == <<active_thread, next_thread, done, slot, lock, asleep, token, live, chosen,
          budget, pc, target, seen>>
shared == <<active_thread, next_thread, done>>
execution == <<live, chosen, budget>>
locals == <<target, seen>>

\* "running": inside the closure, between two calls of the scheduler.
PCs == {"fetch", "turn", "check", "sleep", "running", "spawn", "spawned", "switch", "barrier",
        "notify", "ended", "count", "compare", "unpark", "join", "park",
        "returned", "panicked"}
\* The places where a thread holds, or is about to give up, its turn.
Holding == {"running", "spawn", "spawned", "switch"}

TypeOK ==
  /\ active_thread \in Threads /\ next_thread \in 1..Capacity /\ done \in 0..(Capacity - 1)
  /\ slot \in [Threads -> {"Idle", "Pending", "Running"}]
  /\ lock \in [Threads -> Threads \cup {Nobody}]
  /\ asleep \subseteq Threads /\ token \in BOOLEAN
  /\ live \subseteq Threads /\ chosen \in Threads \cup {Nobody}
  /\ budget \in 0..Budget /\ pc \in [Threads -> PCs]
  /\ target \in [Threads -> [to : Threads, leaving : BOOLEAN]]
  /\ seen \in [Threads -> 0..(Capacity - 1)]

NoTarget == [to |-> 0, leaving |-> FALSE]

Init ==
  /\ active_thread = 0 /\ next_thread = 1 /\ done = 0
  /\ slot = [i \in Threads |-> "Idle"] /\ lock = [i \in Threads |-> Nobody]
  /\ asleep = {} /\ token = FALSE
  /\ live = {} /\ chosen = Nobody /\ budget = 0
  /\ pc = [i \in Threads |-> IF i = 0 THEN "returned" ELSE "fetch"]
  /\ target = [i \in Threads |-> NoTarget]
  /\ seen = [i \in Threads |-> 0]

At(i, label) == pc[i] = label /\ i \notin asleep
Goto(i, label) == pc' = [pc EXCEPT ![i] = label]
Free(i) == lock[i] = Nobody

-------------------------------------------------------------------------------
\* Scheduler::run, up to run_thread.  The assertion that schedule() asks for no
\* switch holds: thread 0 is the only one.
Start ==
  /\ At(0, "returned") /\ Goto(0, "turn")
  /\ active_thread' = 0 /\ next_thread' = 1 /\ done' = 0
  /\ live' = {0} /\ chosen' = 0 /\ budget' = Budget
  /\ UNCHANGED <<slot, lock, asleep, token, locals>>

\* run_worker: take the closure out of the slot, or wait for one.
Fetch(i) ==
  /\ At(i, "fetch") /\ Free(i)
  /\ \/ slot[i] = "Idle" /\ asleep' = asleep \cup {i} /\ UNCHANGED <<slot, pc>>
     \/ slot[i] = "Pending" /\ slot' = [slot EXCEPT ![i] = "Running"] /\ Goto(i, "turn")
        /\ UNCHANGED asleep
     \/ slot[i] = "Running" /\ Goto(i, "panicked") /\ UNCHANGED <<slot, asleep>>
  /\ UNCHANGED <<shared, lock, token, execution, locals>>

-------------------------------------------------------------------------------
\* State::acquire_lock: active_thread is read with the slot's mutex held, but
\* written without it.
LockTurn(i) ==
  /\ At(i, "turn") /\ Free(i)
  /\ lock' = [lock EXCEPT ![i] = i] /\ Goto(i, "check")
  /\ UNCHANGED <<shared, slot, asleep, token, execution, locals>>

CheckTurn(i) ==
  /\ At(i, "check")
  /\ IF active_thread = i THEN lock' = [lock EXCEPT ![i] = Nobody] /\ Goto(i, "running")
     ELSE Goto(i, "sleep") /\ UNCHANGED lock
  /\ UNCHANGED <<shared, slot, asleep, token, execution, locals>>

WaitTurn(i) ==
  /\ At(i, "sleep")
  /\ lock' = [lock EXCEPT ![i] = Nobody] /\ asleep' = asleep \cup {i} /\ Goto(i, "turn")
  /\ UNCHANGED <<shared, slot, token, execution, locals>>

-------------------------------------------------------------------------------
\* A branch point: Execution::schedule chooses a thread; switch2 reads the choice.
Branch(i) ==
  /\ At(i, "running") /\ budget > 0 /\ budget' = budget - 1
  /\ \E j \in live :
       /\ chosen' = j
       /\ IF j = i THEN UNCHANGED <<pc, target>>
          ELSE Goto(i, "switch") /\ target' = [target EXCEPT ![i] = [to |-> j, leaving |-> FALSE]]
  /\ UNCHANGED <<shared, slot, lock, asleep, token, live, seen>>

\* The closure ends: thread_done, then switch2(true), which does nothing when no
\* thread is left.
Finish(i) ==
  /\ At(i, "running") /\ live' = live \ {i}
  /\ \/ /\ live' = {} /\ chosen' = Nobody
        /\ Goto(i, "ended") /\ UNCHANGED target
     \/ \E j \in live' :
          /\ chosen' = j /\ Goto(i, "switch")
          /\ target' = [target EXCEPT ![i] = [to |-> j, leaving |-> TRUE]]
  /\ UNCHANGED <<shared, slot, lock, asleep, token, budget, seen>>

StoreTurn(i) ==
  /\ At(i, "switch") /\ active_thread' = target[i].to /\ Goto(i, "barrier")
  /\ UNCHANGED <<next_thread, done, slot, lock, asleep, token, execution, locals>>

\* Mutant of Barrier: the target's mutex is not waited for.
MutNoBarrier(i) ==
  /\ At(i, "barrier") /\ Goto(i, "notify")
  /\ UNCHANGED <<shared, slot, lock, asleep, token, execution, locals>>

\* drop(threads[active].lock().unwrap()): wait for the target to be out of its mutex.
Barrier(i) ==
  /\ At(i, "barrier") /\ Free(target[i].to) /\ Goto(i, "notify")
  /\ UNCHANGED <<shared, slot, lock, asleep, token, execution, locals>>

\* Mutant of NotifyTurn: the thread goes on without waiting for its next turn.
MutNoWait(i) ==
  /\ At(i, "notify") /\ asleep' = asleep \ {target[i].to}
  /\ Goto(i, IF target[i].leaving THEN "ended" ELSE "running")
  /\ target' = [target EXCEPT ![i] = NoTarget]
  /\ UNCHANGED <<shared, slot, lock, token, execution, seen>>

NotifyTurn(i) ==
  /\ At(i, "notify") /\ asleep' = asleep \ {target[i].to}
  /\ Goto(i, IF target[i].leaving THEN "ended" ELSE "turn")
  /\ target' = [target EXCEPT ![i] = NoTarget]
  /\ UNCHANGED <<shared, slot, lock, token, execution, seen>>

-------------------------------------------------------------------------------
\* rt::spawn and Scheduler::spawn.  thread::Set::new_thread has asserted that
\* there is room.
SpawnThread(i) ==
  /\ At(i, "running") /\ next_thread < Capacity
  /\ live' = live \cup {next_thread} /\ next_thread' = next_thread + 1
  /\ target' = [target EXCEPT ![i] = [to |-> next_thread, leaving |-> FALSE]]
  /\ Goto(i, "spawn")
  /\ UNCHANGED <<active_thread, done, slot, lock, asleep, token, chosen, budget, seen>>

GiveWork(i) ==
  LET w == target[i].to IN
  /\ At(i, "spawn") /\ Free(w)
  /\ slot' = [slot EXCEPT ![w] = "Pending"]
  /\ Goto(i, IF slot[w] = "Idle" THEN "spawned" ELSE "panicked")
  /\ UNCHANGED <<shared, lock, asleep, token, execution, locals>>

NotifyWork(i) ==
  /\ At(i, "spawned") /\ asleep' = asleep \ {target[i].to} /\ Goto(i, "running")
  /\ target' = [target EXCEPT ![i] = NoTarget]
  /\ UNCHANGED <<shared, slot, lock, token, execution, seen>>

-------------------------------------------------------------------------------
\* Mutant of BecomeIdle: the slot is not given back.
MutStaysRunning(i) ==
  /\ i # 0 /\ At(i, "ended") /\ Free(i)
  /\ lock' = [lock EXCEPT ![i] = i] /\ Goto(i, "count")
  /\ UNCHANGED <<shared, slot, asleep, token, execution, locals>>

\* run_worker, after the closure.  The mutex taken here is kept to the end of
\* the loop's body.
BecomeIdle(i) ==
  /\ i # 0 /\ At(i, "ended") /\ Free(i)
  /\ slot' = [slot EXCEPT ![i] = "Idle"] /\ lock' = [lock EXCEPT ![i] = i]
  /\ Goto(i, IF slot[i] = "Running" THEN "count" ELSE "panicked")
  /\ UNCHANGED <<shared, asleep, token, execution, locals>>

CountDone(i) ==
  /\ At(i, "count") /\ Goto(i, "compare")
  /\ done' = done + 1 /\ seen' = [seen EXCEPT ![i] = done]
  /\ UNCHANGED <<active_thread, next_thread, slot, lock, asleep, token, execution, target>>

CompareDone(i) ==
  /\ At(i, "compare")
  /\ IF seen[i] + 2 = next_thread THEN Goto(i, "unpark") /\ UNCHANGED lock
     ELSE lock' = [lock EXCEPT ![i] = Nobody] /\ Goto(i, "fetch")
  /\ seen' = [seen EXCEPT ![i] = 0]
  /\ UNCHANGED <<shared, slot, asleep, token, execution, target>>

UnparkMain(i) ==
  /\ At(i, "unpark") /\ token' = TRUE
  /\ lock' = [lock EXCEPT ![i] = Nobody] /\ Goto(i, "fetch")
  /\ UNCHANGED <<shared, slot, asleep, execution, locals>>

\* Scheduler::run, after run_thread.
LoadDone ==
  /\ At(0, "ended") /\ seen' = [seen EXCEPT ![0] = done] /\ Goto(0, "join")
  /\ UNCHANGED <<shared, slot, lock, asleep, token, execution, target>>

\* Mutant of LoadSpawned: off by one.
MutOneEarly ==
  /\ At(0, "join") /\ Goto(0, IF seen[0] + 2 >= next_thread THEN "returned" ELSE "park")
  /\ seen' = [seen EXCEPT ![0] = 0]
  /\ UNCHANGED <<shared, slot, lock, asleep, token, execution, target>>

LoadSpawned ==
  /\ At(0, "join") /\ Goto(0, IF seen[0] + 1 = next_thread THEN "returned" ELSE "park")
  /\ seen' = [seen EXCEPT ![0] = 0]
  /\ UNCHANGED <<shared, slot, lock, asleep, token, execution, target>>

ParkMain ==
  /\ At(0, "park") /\ token /\ token' = FALSE /\ Goto(0, "ended")
  /\ UNCHANGED <<shared, slot, lock, asleep, execution, locals>>

\* A condition variable may wake up for no reason.
Spurious(i) ==
  /\ i \in asleep /\ asleep' = asleep \ {i}
  /\ UNCHANGED <<shared, slot, lock, token, execution, pc, locals>>

-------------------------------------------------------------------------------
Step(i) ==
  \/ Fetch(i) \/ LockTurn(i) \/ CheckTurn(i) \/ WaitTurn(i)
  \/ Branch(i) \/ Finish(i) \/ StoreTurn(i) \/ Barrier(i) \/ NotifyTurn(i)
  \/ SpawnThread(i) \/ GiveWork(i) \/ NotifyWork(i)
  \/ BecomeIdle(i) \/ CountDone(i) \/ CompareDone(i) \/ UnparkMain(i)

MainStep == Start \/ LoadDone \/ LoadSpawned \/ ParkMain

Next == MainStep \/ \E i \in Threads : Step(i) \/ Spurious(i)

Spec == Init /\ [][Next]_vars

\* The operating system runs every thread that can run, and a mutex that is free
\* again and again is not refused for ever (a woken thread may come back to it).
Fairness ==
  /\ WF_vars(MainStep)
  /\ \A i \in Threads : WF_vars(Step(i)) /\ SF_vars(Barrier(i))

FairSpec == Spec /\ Fairness

-------------------------------------------------------------------------------
\* No "unexpected state" panic (std.rs:170, 249, 264): a worker finds in its slot,
\* and a spawn finds in it, what the previous iteration should have left there.
NoPanic == \A i \in Threads : pc[i] # "panicked"

\* At most one thread is inside the simulated program or the Execution, which is
\* reached through a raw pointer, and it is the one the Execution chose.
OneRunning ==
  \A i \in Threads :
    pc[i] \in Holding =>
      /\ pc[i] # "switch" => chosen = i
      /\ \A j \in Threads \ {i} : pc[j] \notin Holding

\* `run` returns (and `step` then clears the Execution) only once every thread of
\* the iteration has ended and every worker has given its slot back.
ReturnsWhenDone ==
  pc[0] = "returned" => live = {} /\ \A i \in Workers : slot[i] = "Idle"

\* Nobody sleeps through what it waits for: whoever is asleep when its turn has come, ...
TurnComes ==
  \A i \in asleep :
    pc[i] = "turn" /\ active_thread = i =>
      \E j \in Threads : pc[j] \in {"barrier", "notify"} /\ target[j].to = i

\* ... or when a closure is in its slot, is about to be notified, ...
WorkComes ==
  \A i \in asleep :
    pc[i] = "fetch" /\ slot[i] = "Pending" =>
      \E j \in Threads : pc[j] = "spawned" /\ target[j].to = i

\* ... and so is a main thread that parks, or is about to, when the last worker has been
\* counted.
EndComes ==
  done + 1 = next_thread /\ (pc[0] = "park" \/ (pc[0] = "join" /\ seen[0] # done)) =>
    token \/ \E w \in Workers : pc[w] = "unpark" \/ (pc[w] = "compare" /\ seen[w] + 1 = done)

NothingLost == TurnComes /\ WorkComes /\ EndComes

\* Who cannot go on by itself: asleep, parked, or at a mutex that is not free.
Waits(i) ==
  \/ i \in asleep \/ (pc[i] = "park" /\ ~token)
  \/ (pc[i] \in {"fetch", "turn"} \/ (pc[i] = "ended" /\ i # 0)) /\ ~Free(i)
  \/ pc[i] \in {"barrier", "spawn"} /\ ~Free(target[i].to)

\* The threads never all wait for each other, were there no spurious wakeup ever.
NeverStuck == \E i \in Threads : ~Waits(i)

\* Every iteration comes to its end: neither a turn, a closure nor the last
\* worker's unpark is lost between a check and the sleep that follows it.
RunReturns == []<>(pc[0] = "returned")
===============================================================================
