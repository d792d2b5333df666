# syncbox: specifications, model checking and proofs

The repository has two halves. `src/` is a small library of synchronization
primitives: `AtomicTask`, `Parker` and a futures-aware `Semaphore`. `syncbox-fuzz/`
is the engine they are tested with: it runs a test once for every interleaving
(and every value a weak load may return), on simulated threads. `fuzz/` holds the
harnesses that put the first under the second.

This directory models both halves in TLA+, model-checks the models with TLC and
proves with TLAPS, for any number of threads, the safety of the three primitives and
that each implements its abstract specification, the safety of the protocol around
`AtomicTask`, of the scheduler and of the simulated threads, and, for any programs, that
the search repeats no execution and gives nothing up untried, and that what its simulated memory says of a program is
true. Paths below are paths in the repository.

## 1. Inventory

| Component | State | Operations | What makes it correct |
|---|---|---|---|
| **AtomicTask** `src/futures/atomic_task.rs` | a word of two bits (REGISTERING, NOTIFYING), a cell with the task | `register_task`, `notify`, from any thread | one thread in the cell at a time; a registered task is replaced or woken, never dropped; register-then-look loses no wakeup |
| **Parker** `src/parker.rs` | a word (EMPTY, NOTIFIED, PARKED), a mutex, a condition variable | `park`, `park_timeout` by one thread, `unpark` by any | one token, consumed at most once per call; no lost wakeup; writes before `unpark` are seen after `park` |
| **Semaphore** `src/futures/semaphore.rs` | a word (a number of permits *or* the tail of a queue), `head`, `rx_lock`; per waiter: state, next, task, Arc count | `poll_permit`, `release_one`, `Waiter::acquire`, drop of a `Waiter` | permits conserved; one releaser; first come first served; every waiter served and woken; no freed node reached |
| **Scheduler on OS threads** `syncbox-fuzz/src/rt/scheduler/std.rs` | atomics `active_thread`, `next_thread`, `done`; per worker a slot, a mutex, a condition variable; the main thread's park token | `run`, `run_worker`, `switch2`, `spawn` | one simulated thread runs at a time; no turn, closure or unpark lost; `run` returns only when all has ended |
| **Simulated threads** `rt/{mod,execution,thread,oneshot}.rs`, `thread.rs`, `futures/mod.rs` | per thread: state, next operation, `notified`; `active`; version vectors | `spawn`, `park`, `unpark`, `yield_now`, `join`, `wait_future`, `Task::notify`, `schedule` | a thread is blocked exactly while what it waits for has not happened, so "deadlock" is the program's |
| **Simulated Mutex, Condvar** `sync/{mutex,condvar}.rs` | owner; queue of waiting threads | `lock`, unlock, `wait`, `notify_one` | mutual exclusion although only `schedule` enforces it |
| **Search** `rt/path.rs`, `rt/object.rs`, `Execution::schedule` | branches (schedules, writes) and the position in them; last accesses and their version vectors | `branch_thread`, `branch_write`, `backtrack`, `step` | every outcome of the program is seen, no execution is run twice, a replay meets the branches it recorded |
| **Simulated atomics** `sync/atomic/*.rs`, `rt/{synchronize,vv}.rs`, `sync/causal.rs` | per atomic a history of writes with version vectors | `load`, `store`, `rmw`, `compare_exchange`, `CausalCell` access | a load returns only what the order of events allows; a race that is reported is one |
| **Simulated AtomicTask** `futures/atomic_task.rs` in the engine | a cell | `register`, `notify` | stands in for the real one |
| **Builder, checkpoint** `fuzz.rs` | the Path in a file, written every `checkpoint_interval` iterations | `fuzz`, `check` | a crash and restart lose no execution and repeat only those since the checkpoint |
| **Other schedulers** `scheduler/{gen,fringe}.rs` | coroutine stacks | the same four operations | as std.rs, without concurrency |
| **Arena** `rt/arena.rs`, public `CausalCell` `src/causal.rs`, glue, `rt/futures.rs`, `util/` | — | — | not models' business: see section 8 |

How they meet. A `Semaphore` waiter keeps an `AtomicTask` (the engine's under fuzz, that
of the futures crate otherwise), and serving it ends with its `notify`. In a harness every atomic operation of the primitives is an
operation of the engine's atomics, hence a *branch point*: `Execution::schedule`
picks the next active thread, `Scheduler::switch` hands it the processor, and the
chosen operating-system thread continues until its next branch point. `Mutex`,
`Condvar`, `join` and futures block by marking a simulated thread Blocked; it is
`schedule` that never picks it.

What is hard: everything here is about interleavings. `PROJECT.json` lists the
hazards at the lines where they bite, with the properties that would catch each.

## 2. Modules

| Module | What it is |
|---|---|
| `AtomicTask` | `register_task` and `notify`: one action per atomic operation, or access to the cell between two |
| `WakerCell` | abstract: a cell that is filled, emptied by one thread at a time, and tasks that are due and then woken |
| `AtomicTaskClient` | EXTENDS `AtomicTask` with the producers and the polled consumer of `fuzz/atomic-task` |
| `AtomicTaskProofs` | EXTENDS `AtomicTaskClient`: theorems about `AtomicTask` and about the protocol |
| `Parker` | `park`, `park_timeout`, `unpark`: one action per operation on the word, the mutex, the condition variable |
| `ParkerToken` | abstract: one token |
| `ParkerProofs` | theorems about `Parker` |
| `Semaphore` | `poll_permit`, `release_one`/`release_n`, `pop`, `push_stub`, `notify`, `Waiter::acquire` and drop |
| `PermitQueue` | abstract: permits, a FIFO queue of requests, grants |
| `SemaphoreQueue` | the refinement mapping from `Semaphore` to `PermitQueue`: the one order of requests that the links from `head` spell |
| `SemaphoreProofs` | EXTENDS `SemaphoreQueue`: theorems about `Semaphore`, the refinement among them |
| `StdScheduler` | `std.rs`: one action per atomic operation, mutex or condition-variable operation |
| `StdSchedulerProofs` | theorems about `StdScheduler` |
| `Runtime` | simulated threads, Mutex, Condvar, oneshot, futures: one action from one branch point to the next |
| `RuntimeProofs` | theorems about `Runtime` |
| `RuntimeNotify` | `Runtime` with a history variable: which threads were told to poll again |
| `VersionVec` | `vv.rs`: the vectors, their derived `<=`, and the order it is meant to be |
| `Path` | EXTENDS `VersionVec`: `path.rs`, the branches of an execution and what is left to try at each, as operators |
| `Memory` | EXTENDS `VersionVec`: atomics with their histories of writes, `Synchronize`, `CausalCell`, `seq_cst`: one action per operation of a simulated thread |
| `Search` | EXTENDS `Path` and `Memory`: `Execution::schedule` with its partial order reduction, the operations around their branch points, the loop of `Builder::fuzz`, the checkpoint file and crashes |
| `SearchProperties` | EXTENDS `Search`: what the search promises, and the order of events computed from the history without version vectors |
| `SearchProofs` | theorems about `Search`, `Path` and `Memory` |
| `ReplayProofs` | EXTENDS `SearchProofs`: that a replay meets the branches that are on the path, and that nothing on it is given up untried |
| `LoadProofs` | EXTENDS `SearchProofs`: that a load is offered every write it may read |
| `MC*` | instances for TLC |

Variables carry the names of the fields they stand for (`state`, `rx_lock` as
`rxLock`, `active_thread`, ...); `pc` says where each thread is inside a call; the
value `"panicked"` of `pc`, of `verdict` in `Runtime` or of `phase` in `Search`, stands for a failed
assertion or unwrap of the code. An operator `Mut<Something>` placed before a
definition is a *mutant* of it: the code with one plausible mistake. No
specification uses it; `PROJECT.json` says which property it must break.

### What the models take for granted

- `AtomicTask`, `Parker`, `Semaphore`: all writes to the words are
  read-modify-writes or SeqCst operations, so one total order per word is right,
  and what a word hands on from a release to a later acquire is modelled by sets
  (`released`, `acquired`, `published`, `known`). Relaxed loads of other data may be
  stale (`Check` of `AtomicTaskClient`).
- `Semaphore`: the compare-exchange loops of `to_queued_waiting` and
  `WaiterNode::notify` are one step each: nothing happens between load and exchange
  but a change that makes the exchange fail and the loop start again. The inner
  `AtomicTask` is not the one of this repository but that of the engine, or of the
  futures crate: it is an atomic cell, the variable `task`. A freed node has the contents of `WaiterNode::new`, which it gets
  when it is allocated again; the `next` of a popped node is cleared when it is
  popped rather than when it is queued again, which nothing can read in between.
- `StdScheduler`: sequentially consistent atomics (section 6 has what that hides). The Execution is "some thread
  that has not ended".
- `Runtime`: any runnable thread may be next, as if the search tried them all. A
  program does not lock a mutex, join or end while it holds a mutex guard (it may
  deadlock by itself then). Any thread, one that runs a future included, may lock, wait,
  join and be notified by `Task::notify`. The history variable `misled` collects the
  threads such a notify found blocked in one of the first three calls, where it makes
  them runnable although what they wait for has not happened. They are the threads the
  properties except: nothing else is assumed of which thread does what.
- `Search` and `Memory`: a program is one fixed sequence of operations per thread, in
  which a load may end its thread early (`leaves`: the values on which the program
  returns); every read-modify-write adds one. The root makes all objects before it
  spawns anybody, so every atomic begins with one write by the root. The
  operating-system threads are `StdScheduler`'s business, and condition variables,
  `yield_now` and futures are `Runtime`'s. What a checkpoint holds is the Path: serde's
  text is left out, except that an empty file cannot be read. An operation is one on an
  object of its kind (`Fits`, `ProgramsAssumption`), and no thread is `None`
  (`NoneAssumption`).
- `Search`, panics: a replay that meets a branch of another kind, that chooses a thread
  that does not exist or a write that is not there, and a request at a schedule older
  than its thread, all index or match what is not there in the code; they are the phase
  `panicked`, which `ReplayFits` is about.
- `Search`, histories: `trace`, `accesses`, `visited`, `executed` and `overlooked` feed the
  properties only. When a search is over the program is run again with a scheduler
  that picks any thread that can run (phase `audit`); the outcome of such a run must
  be one the search has visited.

## 3. Runs

| Run | Instance | What it shows |
|---|---|---|
| `atomic_task` | 3 threads, 2 tasks, any calls for ever | the cell is exclusive, no assertion fails, the code implements `WakerCell`, and a task undertaken to be woken is woken |
| `atomic_task_client` | 1 consumer, 2 producers of 2 rounds, 2 tasks | no lost wakeup and the consumer finishes, stale loads and migration included |
| `parker` | 3 unparking threads, any calls for ever | no panic, no lost wakeup, writes seen, one token, `park` returns |
| `semaphore` | 3 tasks, 1 permit, a node each | every waiting task is granted a permit, and the grant is announced |
| `semaphore_queue` | 3 tasks, 2 permits, 3 shared nodes, 1 cancellation | FIFO refinement, conservation, one releaser, no use after free, no panic |
| `std_scheduler` | main thread and 2 workers, 2 branch points per iteration, for ever | one runs at a time, the threads never all wait for each other, `run` returns, and only when all is done |
| `runtime` | 3 threads, one of them a future, 1 mutex, 1 condition variable, at most 2 places in its queue | mutual exclusion, blocked only for a reason, runnable only when able, each up to what a `Task::notify` that comes late may do |
| `search` | 3 simulated threads, 2 atomics, 2 mutexes, a cell, 229 programs; a checkpoint every 2 iterations, 1 crash | the search ends, repeats nothing, gives nothing up untried, sees every outcome unless it overlooks a race, offers loads no write they may not read, and reports no race that is none |

Four runs end in a violation (`semaphore_harness` under `HarnessSpec`, whose tasks poll as
the harness's do; `runtime_notify` under `ToldSpec`). Each stands for a disagreement between the code and
what it says of itself; `PROJECT.json` quotes the lines.

| Run | Property | What it shows |
|---|---|---|
| `semaphore_harness` | `RequestsFromIdle` | the harness polls `poll_permit` again after being woken: a request with a node already Assigned, which the code documents and asserts away; in a release build the permit is lost |
| `semaphore_cancel` | `CancelledAreSkipped` | no code stores `Queued`, so a Waiter dropped while it waits is not skipped but given the permit |
| `semaphore_spurious` | `GrantIsAnnounced` | `notify` sets Assigned before `task.notify()`; a task polled in between may use the permit and queue again, the late call eats the new registration, and the next grant wakes nobody |
| `runtime_notify` | `NotifiedPollsAgain` | `future_notify` sets the notifier's flag instead of the notified thread's: a notify during another thread's poll is forgotten, and the engine reports a deadlock |

### The properties, and what would break them

- `CellExclusive`: two threads in the `UnsafeCell` at once. `DueIsDelivered`: a thread
  that took a task forgets it. `ImplementsWakerCell` relates the two words to a cell
  of which every change must be a registration, a take or a wake.
- `NoLostWakeup` and `RegistrationStands` of the client relate what the sleeping
  consumer saw, what was produced, the cell, and who is on the way to wake whom: the
  race of the comment at `atomic_task.rs:114-138`.
- `NoLostWakeup` of `Parker` is the comment at `parker.rs:254-258`; `SeesUnparkWrites` the
  one at `:243-246`: the parker may not consume the token with a plain store or load.
- `PermitsConserved` counts permits in the word, in hand, granted but not collected,
  and on their way through `rx_lock`; only a cancellation may lose one.
  `NoUseAfterFree` compares whatever raw pointer may be followed next with the Arcs
  counted by hand. `ImplementsPermitQueue` maps the linked list (the stub left out,
  nodes not linked yet placed by where their poll is) to a sequence.
- `ReturnsWhenDone` and `RunReturns` bound `run` from both sides: it comes back, and
  not before every worker has given its slot back. `NeverStuck` is sharper than TLC's own
  deadlock check, which a condition variable that may wake up for no reason would always
  pass: there is a thread that can go on without such a wakeup.
- `BlockedForAReason` and `RunnableMayGoOn` relate the thread states, which mutex,
  condition variable, oneshot and scheduler all write, to what each thread waits
  for, in both directions. `NoPanic` and `MutexExclusion` say what the engine's Mutex
  owes to that. The code does break the second direction for a thread that a late
  `Task::notify` names, so these three are stated with `misled`: the harm ends with that
  thread, which alone may panic, and no other comes to own a mutex that is held.
- `Exhaustive` compares the outcomes the reduced search has visited, restarts included,
  with a search that is not reduced. It is qualified by `overlooked`, which is computed
  from the pairwise order of the accesses: `schedule()` met a race and asked, at none of
  the branches where it would help, for the other order. Section 6 says how often.
- `ReplayFits` relates the recorded path to the execution that replays it, across
  `step`, crashes and the choice of writes; `NoExecutionTwice` relates each iteration to
  all those before it, and `NothingSkipped` what is gone from the path to the executions
  that went there: a thread marked Visited, a write no longer on its list. A checkpoint
  saved a step too late would break it, and so would a `step` that takes a write off the
  list before it is read.
- `LoadsAreAllowed` compares the candidates of `pick_write` with the order of events
  `Known` that is computed from the history: never a write the thread must not see
  (`NothingStale`), and exactly those it may for the programs (`Precise`) that meet none of
  the inaccuracies of section 6. `RacesAreReal` does the same for `CausalCell`.
- The order of events follows the code in one point that is easy to miss: `sync_write`
  copies the thread's causality into the write *before* it calls `seq_cst`
  (`synchronize.rs:45-48`), so a SeqCst store does not hand on what its `seq_cst` has just
  learnt. A read-modify-write has learnt it when it reads (`Directly`).

### Bounds, and why they are enough

The bounds are the CONSTANTS in the `.cfg` files; there are no others in the modules
except `Budget` (branch points per iteration of `StdScheduler`), `Rounds` and `Total`
(`AtomicTaskClient`), and `MaxCancels` (`Semaphore`), each in the guard that uses it.

- Three threads of `AtomicTask` are one registering, one notifying and one that
  meets both; the word cannot tell more apart. The proofs cover any number.
- Two producers with two rounds each: the second notify of one producer overlaps the
  first of the other, which is the race of the comment.
- Three unparkers: one past its swap, one holding the mutex, one about to notify a
  later park. The proofs cover any number.
- The semaphore needs three tasks for one queue with a waiter that is linked, one
  that is swapped in and not linked, and a releaser. In `semaphore_queue` the allocator may
  give any free node to anybody: one task at least holds or releases a permit, and
  it may have dropped its Waiter, so three nodes are enough for a queue of a dropped
  node and two others, and for a node freed and reused behind a queued one. With two
  permits `rx_lock` counts two releases at once, so a releaser serves another's.
- Two workers are the last to end and the one before it; two branch points pass the
  turn between all three threads; iterations follow each other for ever, so the
  state one leaves behind is what the next one finds.
- The three threads of `runtime` (the root, one of `thread::spawn`, one of
  `futures::spawn`) are a mutex owner and two that contend for it, or two in the condition
  variable and one that notifies, or a sender, a receiver and one that misleads it. A
  misled thread leaves its place in the queue behind each time it waits, so the queue is
  unbounded: the run's constraint `ShortQueue` keeps it to two places: two threads that wait,
  or one that waits behind a place left behind.
- The programs of `search` are families, not samples: two threads of two operations each
  on two atomics (`Small`), message passing and a value handed over through a cell under
  every pair of orderings (`Passed`, `Handed`), critical sections on one or two mutexes,
  deadlocking ones included (`Locks`), three threads on one atomic with
  compare-exchanges (`Three`), a join (`Joined`), a thread that spawns another
  (`Nested`), a root that goes on between its spawns (`Late`), and what SeqCst operations hand on, or a read-modify-write of another
  thread's store (`Chained`). The partial order reduction needs two dependent operations of two threads
  and a third that comes in between; what a load may read needs two writes and
  something that orders one of them. `MaxThreads` is 3. A checkpoint every second
  iteration (`Interval`) makes a crash fall before, in and after a save, with and without
  an iteration to repeat, and one crash (`MaxCrashes`) tells a file that is read from one
  that is not.

`SYMMETRY` is used in `semaphore_queue` (actors and nodes), whose constants occur only as
interchangeable elements of sets:
all nodes are in every actor's `Heap`, no `CHOOSE` picks one of several, and the
properties there are invariants and a refinement without fairness, none liveness.

`CHECK_DEADLOCK FALSE`: in `semaphore_queue` the permits lost with cancelled Waiters may
leave the others waiting, which is what `semaphore_cancel` is about; in `runtime` and
`runtime_notify` the verdict "deadlock" or "panicked" ends the fuzz run; so does the end
of the search, or a failure it reports, in `search`. The other
runs check deadlock; `Finished` in `AtomicTaskClient` is the end of the harness.

### Fairness

- Threads are scheduled: weak fairness of every step inside a call
  (`AtomicTask`, `Parker`, `Semaphore`, `StdScheduler`). Nothing makes a program begin
  a call, except that a permit is given back in the end (`ReleaseOne`) and that an
  executor polls a task that was woken (`Wake`, `Acquire`).
- A timeout expires (`timeout /\ ParkWake`); nothing wakes a `park` spuriously, and
  nothing prevents it.
- `Barrier` in `StdScheduler`, which takes the mutex of the thread the turn goes to,
  has strong fairness: that thread may be woken spuriously again and again and
  lock its mutex each time, but a mutex free again and again is not refused for ever.
- The fuzz process works as long as it can (`Work`), and nothing makes it crash.
- No fairness makes a Relaxed load fresh or a consumer migrate.

## 4. Proofs

`AtomicTaskProofs`, for any sets of threads and tasks (assumption: `None` is no task):

- `Invariance`: `IInv` is inductive. `CellExclusive` alone is not: from the states it
  allows, a notifier could enter on a word that does not show the registration.
  `IInv` adds what the word says about who is in a critical section
  (`WordTellsSection`), that one is at a time and REGISTERING is not left behind
  (`OneSection`), and what the cell and the threads' hands hold at each label
  (`Contents`, which the unwraps need).
- `TypeCorrectness`, `MutualExclusion`, `PanicFreedom` follow from it.
- `Refinement`: each step is a step of `WakerCell` or a stutter, with the cell emptied
  at the moment NOTIFYING is set, not when the code takes the value out.

`ParkerProofs`, for any set of unparking threads (assumption: it contains neither the
parking thread nor `None`):

- `Invariance`: `IInv` holds who owns the mutex (`OwnerHolds`), what the word can be at
  each label of the parker (`WordFits`), that an unpark past its swap has released its
  write (`WritesReleased`), and the three safety properties, which hold each other up.
- `TypeCorrectness`, `PanicFreedom`, `WakeupsKept`, `WritesSeen`, and `Refinement` to
  `ParkerToken`.

`AtomicTaskProofs` of the protocol (`AtomicTaskClient`), for any number of producers, rounds and tasks:

- `ClientInvariance`: the invariant of `AtomicTask` with three conjuncts. Nobody but the
  consumer registers (`OnlyConsumer`), so the registration that bounces off another one
  never happens. What is produced and not yet released into the word belongs to a
  producer that has still to call `notify` (`Accounted`). A consumer that has registered
  will be woken, or its task is in the cell and it has acquired all that was released
  (`Waiting`): the last is what makes stale loads harmless.
- The steps of the calls enter as the steps of `WakerCell` they were shown to be
  (lemmas `RegisterRefines`, `NotifyRefines`, ...), so the words are not
  looked at again.
- `RegistrationsStand` and `WakeupsKept` follow.
- `ClientTypeCorrect`, for finitely many threads and a consumer that waits for no fewer
  rounds (`Total`) than its producers make, as in the harness: the counter and the rounds
  still to come (`Todo`) never make more than `Total`.

`SemaphoreProofs`, for any finite sets of tasks and nodes, any number of permits and of
cancellations, with spurious polls and with or without debug assertions
(`SemaphoreAssumption`). The specification is `Spec`: a woken task calls
`Waiter::acquire`. Under `HarnessSpec` two of the theorems are false (`semaphore_harness`).

- `Invariance`: there is a sequence of nodes from `head` to the tail in the word
  (`QueueFits`), in which each node points to the next or to nothing yet, and where it
  points to nothing, a poll or the releaser stands between its swap and its store
  (`Linkers`). The invariant says *that there is* such a sequence rather than keeping it in a
  variable; each step names the new one. `push` appends to it (lemma `Push`), a link
  leaves it alone (`Hook`), a pop drops its first element (`Advance`). Around it: what
  `rx_lock` counts (`LockFits`), that a Waiter's node is its own and Idle outside a
  request (`WaitersFit`), what the releaser knows of `head` and of the node it has
  popped (`PopsFit`), and for every node in the queue that an Arc keeps it and that its
  owner, if any, waits (`Members`).
- `Conserved` strengthens `PermitsConserved` with the permits that *will* be lost: nodes
  queued whose Waiter is gone (`Doomed`). A cancellation may lose a permit at once or
  leave a doomed node, and only popping that node loses the permit; without the term
  the lower bound is not inductive.
- `ReleaserExclusion`, `PanicFreedom`, `Conservation` and `MemorySafety` follow. The
  invariant was model-checked before it was proved; one definition of the model
  (`Wake`, of a node that is freed while a raw pointer to it is left) was
  corrected because its proof failed.
- `TypeCorrect`: the bounds that `TypeOK` gives the counters (`rx_lock`, what each
  release has left to give, the Arcs of a node) are consequences of the invariant, not
  of the instance.
- `ArcsCounted`: the Arcs turned into raw pointers are exactly one for a node that waits
  and one for a node that is popped (`ArcsFit`). The inequality that `MemorySafety`
  needs would not be enough for "no node is leaked".
- `GrantsAnnounced`: the run `semaphore_spurious` shows `GrantIsAnnounced` false of the code
  when a task may be polled for reasons of its own, so the theorem assumes `~Repolls`.
  Without a cancellation, or where Waiters are not dropped while they wait, every grant is
  announced. The invariant (`Announced`) relates each task's registration to the node it
  waits with, from its poll to the `task.notify()` of the releaser.
- `SemaphoreRefines`: `Semaphore` implements `PermitQueue`. The mapping reads the queue off
  the memory alone: what is behind a node is its `next`, or, where that is not stored
  yet, whoever has swapped itself in behind it (`Succ`); the stub, wherever it is, is
  left out (`Behind`); a node popped and not notified yet is still the first. The queue is
  *the* sequence those links spell (`Enqueued`): `ListsUnique` shows there is at most one,
  and `SkipLists` that the sequence of `QueueFits` without its stub is one.
- The argument then goes action by action: pushing appends (`QueuePushed`), popping moves
  the first element into the releaser's hand (`QueuePopped`), moving the stub, storing a
  link, and every step of a poll before its compare-exchange, change nothing (`QuietSteps`,
  `SwapStubHides`, `PopFrontHides`). A node granted its permit is one Assigned *and owned*: a
  Waiter dropped in that state abandons the grant.
- `PermitsReachWaiters` (`WaitersFirst`) and `DeadlockFreedom` (`NobodyStranded`) are the safety
  half of `WaiterServed`. A node that has been made the tail and not been granted its permit
  is in that one sequence (`Enlisted`), a consequence of what the refinement says each step
  does to it, so the word holds no permits. When no call is in progress nothing is counted
  in `rx_lock` (`LockHeld`), and the balance of the permits leaves only the tasks that have
  been assigned one. That those have been woken is `GrantsAnnounced`, so `DeadlockFreedom`
  has its hypothesis; `PermitsReachWaiters` has none.

`StdSchedulerProofs`, for any number of workers and branch points:

- `Invariance`: who holds each mutex (`LocksFit`), what each worker may find in its slot
  (`SlotsFit`), which threads are alive by where they are (`LiveFits`), whose turn it
  is while `active_thread` lags behind the choice (`TurnFits`), and that `done` is the
  number of closures that have ended and been counted (`DoneFits`, with the set
  `Counted`), which is what the main thread's comparison relies on.
- `TypeCorrectness`, `PanicFreedom`, `TurnExclusion`, `RunWaitsForAll`. The types are proved
  and not checked by a run of their own.
- `NoWakeupLost` (`NothingLost`) and `DeadlockFreedom` (`NeverStuck`) are the safety half of
  `RunReturns`, from a second invariant (`Wakes`): a thread sleeps only at its condition
  variable (`AsleepFit`); one that has read `active_thread` and is about to sleep, although its
  turn has come since, still holds the mutex that the switching thread has to get first
  (`SleepFits`); a thread that lives has been given its closure or is about to be
  (`LivesFit`); and the last worker to count compares with what it has counted (`EndComes`,
  a part of `NothingLost`). From there it is a case analysis of whose turn it is: its
  thread, the one that hands the turn to it, or the one that holds a mutex goes on.

`RuntimeProofs`, for any sets of threads and mutexes (assumption `ThreadsAssumption`):

- `Invariance`: a thread at the branch point of `lock` is Blocked exactly while the
  mutex is owned (`LockFits`), one that waits on the condition variable exactly while
  it is queued (`QueueFits`), one in `join` exactly while the result is not sent
  (`JoinFits`); a misled thread may be Runnable instead, and may have places in the queue
  although it waits no more. `ThreadsAssumption` says only which names are threads: every
  thread may poll, lock, wait, join and be notified. `MutexExclusion` alone is not inductive: that `schedule` runs only
  runnable threads is of use only because a thread blocked on a mutex that is free
  again has been made runnable, and one that is runnable finds it free.
- `TypeCorrectness`, `PanicFreedom`, `MutualExclusion`, `BlockedWithReason`,
  `RunnableGoesOn`.

`SearchProofs`, for any programs whose operations fit their objects (`ProgramsAssumption`), any
number of threads, any interval of the checkpoint and any number of crashes:

- `ExecutionsDiffer`: an iteration that ended decides otherwise somewhere than every one
  its process knows of. `NoExecutionTwice` says nothing of the time between, so the
  invariant (`IInv`) says of the *path* what is true at every step: each execution of the
  past left it at some branch, by a decision that is given up there (`Diverges`, `Spent`):
  a thread marked Visited, or a write already taken off the list. No request of the
  reduction makes a Visited thread Pending, `step` gives up what it leaves, and a branch
  that is pushed anew comes after the point where the past diverged (`Anew`). The same is
  kept of the checkpoint file, so a restart may use it. That the lists of writes have no
  repetition, and that a schedule with a thread left to try has one that is active, are
  the parts of `Orderly` this needs.
- `TypeCorrect`. The threads that exist are the first ones (`Spawned`), because `new_thread`
  numbers them so.
- `OffersAreAllowed` (`NothingStale`: no load is offered a write older than one its thread
  must know of) and `RaceReportsAreRight` (`RacesAreReal`). Both compare the engine's
  version vectors with the order of events, a recursive function of the history
  (`Past`, `Known`) in which no vector occurs. `Causal` is what links them: there are
  vectors, one for each event, that the order of events increases (`Explains`), and
  each thread's causality, each write's clock and the clock of SeqCst operations are above
  the vectors of the events they stand for (`Told`, `Released`, `Fenced`); no component of
  a cell's clock is above that of every event that set the cell (`Left`); `first_seen` of a
  write is no later than any event of a thread that reads or makes it (`Seen`). The vectors are asserted to exist and not kept: each step
  names the vector of the event it adds (`Deeds`, `QuietKeeps`, `RecordedKeeps`).
- `LoadsAllowed` (`LoadsAreAllowed`, in `LoadProofs`): in the programs of `Precise` a load is offered *every* write
  it may read as well. This is the converse of `Causal`: not that a clock is above what it
  stands for, but that it counts nothing else. `Exact` gives each event a date, the counter
  of its thread before it, and says of whatever has reached the date of an event that it
  belongs to one who knows of the event: a thread's causality (`Heard`), the clock of SeqCst
  operations (`Agreed`), a write's clock, by a release sequence it is in (`Carried`); and that
  a mark in `first_seen` is no earlier than an event that made it (`Noted`). It holds because
  every operation on an atomic ends with an increment of its thread's counter, so others hold
  only counters from before it (`Ahead`), and a new event's date is one nobody has yet. That
  is what `Precise` is about: a `seq_cst` without an increment (mutexes, `join`) or a root that
  goes on after it has spawned would make a clock count a later event as well. The root's own
  events need no date: it accesses no atomic.
- `ReplaysAreFaithful` (`ReplayFits`, in `ReplayProofs`): a statement about two executions,
  the one that recorded the path and the one that replays it. What an execution does is a
  function of what the path decides at each branch: `Run` is all of its state that matters
  to it, `Led` takes a point of an execution to the next. A path is good when there is a set
  of points, the beginning among them, in which a point that meets a branch is suited by the
  one recorded there (`Suits`: of its kind, no thread marked that cannot run, no write that
  is not there) and from which `Led` does not lead out, but from the last point (`Closed`).
  `Replays` says that there is such a set, with the present run in it, and one for the path
  in the file. A push adds the point it leads to; backtracking changes no decision
  (`SameDecisions`); `step` keeps the points before the branch it changes (`CutShort`); a save
  and a crash move the path and its set of points together.
- `NothingIsSkipped` (`NothingSkipped`) and `EveryWriteIsRead` (`AllRead`), also in
  `ReplayProofs`, are the converse of `ExecutionsDiffer`: what a branch is through with has been
  executed. For a thread that is a matter of marks: only `step` makes one Visited, which was
  the decision of the execution that has just ended (`Tried`). For a write it is not, since
  one that was tried is no longer on the list: the list has to be compared with what the load
  is *offered*, by the state of an execution that is over. So a past execution is spoken of
  by its decisions: they pass a point when it is in every set that contains the beginning
  and where they lead from its points (`Passes`, a least set without a recursive definition).
  `Covered` says that a load which the path passes is offered only writes that are still on
  the path or have been read there by an execution that decided the same before (`Forks`), and
  `Varied` says so of the loads of every past execution, where the path may have left it
  long ago. A new branch has on it all that its load is offered, and no
  other point of the path meets it (`Begun`, `LastMet`, from `Closed`); requests and pushes take
  nothing away (`ThoroughGrows`); what `step` takes away is what has just been executed
  (`ThoroughSteps`). When the path is empty, nothing is left to come, and `Varied` is
  `AllRead`. The file keeps `Thorough` with its own executions, so a crash loses nothing.
- The rest of `ReplayFits` is that `backtrack` finds the thread it marks in the schedule of
  the last access. Every access kept was made at a schedule of the path so far, and where
  only the root spawns, a thread that is not in that schedule has learnt of the access
  when it was spawned (`Lasting`). Since the engine's order on vectors is lexicographic this
  needs `Rooted`: the root's counter is compared first, nobody counts more of it than the
  root, and while the root runs its vector is above every access that is kept, so the
  thread it spawns asks for nothing older.
- That the recursive function `Past` satisfies its equation is proved (`PastIs`), by the
  least counterexample: a nonempty set of natural numbers has a least element
  (`Least`, from `WFMin`), which needs no induction rule with an operator for its
  parameter.

Two definitions were wrong and corrected because their proof failed; TLC then confirmed
each on a program added to `Chained`. The order of events used to let a SeqCst store hand
on what its `seq_cst` learns, which the code does not do. `Precise` used to admit a store to an
atomic that another thread also writes: a store that follows another thread's
read-modify-write goes on with that thread's release sequence, and the candidates of a
load are then too few.

What the proofs assume of the constants is in the named `ASSUME`s, which TLC evaluates on every
run (`ProgramsAssumption` says of an atomic operation's order that it is one of the five of
Rust's `Ordering`), and in the hypotheses of three theorems: `GrantsAnnounced` and the
`DeadlockFreedom` of the semaphore (`~Repolls`), and
`ClientTypeCorrect` (`Threads` is finite, and `Rounds * Cardinality(Producers) <= Total`).

Only model-checked:

- all liveness (fairness and ENABLED are outside the prover);
- `Exhaustive`, the correctness of the partial order reduction (with its exceptions): it
  relates the outcomes of a whole search to all schedules, by an argument over the
  lengths of executions. Proved of it are the steps that need no such argument: of each
  execution every write offered to a load is tried (`EveryWriteIsRead`), what is offered is
  right (`LoadsAllowed`), and a schedule on the path is through only with threads that have
  been run (`NothingIsSkipped`). That the threads `schedule()` marks are enough is what only
  the run shows.

## 5. Plan

Done, in this order: AtomicTask and its client, Parker, Semaphore, StdScheduler,
Runtime; proofs for the first two primitives; Search and Memory with the checkpoint;
proofs for the client, StdScheduler, Runtime and Semaphore; the refinement of `PermitQueue`;
proofs for the search and the memory, for the replay of a path and for what it leaves behind. Next:

1. `Search`: condition variables (their last access is kept as a mutex's is). `Memory`:
   `AtomicPtr` and the other functions of a read-modify-write.

## 6. Findings beyond the runs

Met while reading the primitives and the engine:

- built without the fuzz feature, `semaphore.rs` uses `yield_now` (`:322`, `:360`, `:376`)
  without importing it (`:11-20`);
- a thread that has yielded runs again only when something unparks it (`rt/mod.rs:65`);
- Mutex, condition variable, join and futures block a thread in one and the same state: a
  thread blocked in a mutex is made runnable there by a late `Task::notify`
  (`rt/thread.rs:251-252`, `rt/execution.rs:85`), enters the lock another one holds and
  panics in `borrow_mut`; in `join` it panics in `unwrap`; in a condition variable it
  leaves its place in the queue to swallow a later notification. `misled` marks the thread
  in the model, and the theorems of `RuntimeProofs` say that no other is affected so;
- the worker that counts last in `done` (`scheduler/std.rs:270`) has not synchronised with
  those counted before it, for the `fetch_add` is only Release. If its own simulated thread
  ended before the last spawn, Rust's memory model lets it read an old `next_thread`
  (`:271`) and unpark nobody. `StdScheduler` is sequentially consistent and cannot show it.

Met with `Search` and `Memory`, whose properties are stated so that they hold of the code
(`overlooked`, `Precise`, the exception in `ReplayFits` and the phase `unreadable`):

- `VersionVec` derives its order (`vv.rs:6`), which is lexicographic. `schedule` takes an
  access for one that "happened before" although it did not (`execution.rs:144-145`) and
  does not try the other order; `CausalCell` accepts accesses that race (`causal.rs:29`).
- A store depends on the last *load* only: two stores are never tried in both orders. Of
  several loads only the last is kept, so a store is not tried before an earlier load
  of another thread.
- `backtrack` on a branch where the thread was Disabled does nothing: no other
  thread is tried in its place.
  Together these leave about half of the programs of family `Small` with a race that the
  search overlooks; without one, `Exhaustive` holds of every program in the run.
- `new_thread`, `unpark_thread` and `seq_cst` hand on the giver's causality without
  incrementing its version (`execution.rs:71`): what the giver does next counts as known
  to the receiver, and a load is not offered the older write it may read.
- `do_write` starts a write's clock from that of the write before: a Relaxed store by
  another thread continues a release sequence. So does a store by the thread that heads
  the sequence after a read-modify-write of another thread, whose release it then hands on.
- `sync_write` releases before it calls `seq_cst` (`synchronize.rs:45-48`): what a SeqCst store
  learns from earlier SeqCst operations is not in its write.
- `CausalCell::with` leaves no mark: a write that races with an earlier read is not seen.
- A thread that spawns another one can make the engine mark the new thread in a schedule
  recorded before it existed, and index out of bounds (`path.rs:185`): main spawns A and
  loads `x`; A spawns B; B does `x.fetch_add`. `ReplayFits` allows a panic for such
  programs only.
- A crash between truncating and writing the checkpoint leaves a file the next start
  panics on (`fuzz.rs:102`).

## 7. Running it

    tlc -config MCParker.cfg MCParker.tla
    tlapm ParkerProofs.tla

With two workers the longest run is `search`, about two minutes, then
`runtime`, more than one minute, and `semaphore_queue`, up to one; the others take from a second to half a
minute. `SearchProofs` and `SemaphoreProofs` take some seven minutes from nothing, `LoadProofs`
about five, `ReplayProofs` and `RuntimeProofs` about two, the other proofs less.
Each row of `runs` in `PROJECT.json` names its module and cfg.

## 8. Not modelled

- Generator and fringe schedulers: coroutines on one thread, resumed in the order the
  Execution gives; nothing in them is concurrent.
- In `Search`: condition variables, `yield_now`, `park` and futures (they are in `Runtime`, under any
  schedule); programs that make atomics or mutexes while they run.
- `AtomicPtr` is the same `Atomic` as `AtomicUsize` with another type of value.
- `Arena`: a bump allocator from which nothing is allocated.
- The public `CausalCell`: an `UnsafeCell` with closures; that AtomicTask's is never
  entered twice is `CellExclusive`.
- `Condvar::wait_timeout`: `unimplemented!` in the code.
- `rt/futures.rs`, `util/`: no `mod` declares them.
