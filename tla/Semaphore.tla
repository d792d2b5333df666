------------------------------- MODULE Semaphore -------------------------------
(***************************************************************************)
(* src/src/futures/semaphore.rs: permits and, when there are none, a queue  *)
(* of waiters, both behind one atomic word.  The word is either a number of *)
(* permits or the tail of an intrusive multi-producer queue that ends the   *)
(* list reached from `head`; releasing a permit pops that queue under       *)
(* rx_lock, a counter whose holder serves everybody who came meanwhile.     *)
(*                                                                          *)
(* Every actor is a task with one Waiter.  One action is one atomic         *)
(* operation on the word, on rx_lock, or on a field of a node.              *)
(***************************************************************************)
EXTENDS Integers, FiniteSets

CONSTANTS Actors,        \* the tasks that use the semaphore
          Nodes,         \* the addresses at which a WaiterNode can be allocated
          Heap,          \* those of them the allocator may give to each actor
          Stub,          \* Semaphore.stub
          Null,          \* the null pointer, and Option::None
          Permits,       \* the permits the semaphore is created with
          MayDrop,       \* do tasks drop their Waiter and make another
          MaxCancels,    \* how often a Waiter may be dropped while it waits
          Repolls,       \* may a waiting task be polled without having been woken
          DebugAsserts   \* is this a debug build

ASSUME SemaphoreAssumption ==
  /\ IsFiniteSet(Actors) /\ IsFiniteSet(Nodes)
  /\ Heap \in [Actors -> SUBSET Nodes]
  /\ Permits \in Nat \ {0}
  /\ MaxCancels \in Nat
  /\ MayDrop \in BOOLEAN /\ Repolls \in BOOLEAN
  /\ DebugAsserts \in BOOLEAN
  /\ Stub \notin Nodes /\ Null \notin Nodes \cup {Stub} \cup Actors

VARIABLES state,    \* Semaphore.state
          head,     \* Semaphore.head
          rxLock,   \* Semaphore.rx_lock
          node,     \* WaiterNode.state of each node
          next,     \* WaiterNode.next of each node and of the stub
          task,     \* the task registered in WaiterNode.task
          raw,      \* how many Arcs of each node are held as raw pointers
          waiter,   \* the node of each actor's Waiter, or Null
          pc,       \* where each actor is
          curr,     \* local curr: the word as last read (state in pop)
          strong,   \* local maybe_strong is some
          rem,      \* local rem of release_one
          n,        \* local n of release_n, rem of pop
          hd,       \* local head of pop, then the node popped
          woken,    \* the tasks woken and not polled since
          cancels   \* how often a Waiter was dropped while it waited

words == <<state, head, rxLock>>
nodes == <<node, next, task, raw>>
locals == <<curr, strong, rem, n, hd>>
vars == <<words, nodes, waiter, pc, locals, woken, cancels>>

Num(k) == [permits |-> k]
Ptr(x) == [tail |-> x]
IsWaiter(w) == "tail" \in DOMAIN w
HasWaiter(w) == IsWaiter(w) /\ w # Ptr(Stub)
AvailablePermits(w) == IF IsWaiter(w) THEN 0 ELSE w.permits

\* Mutant of AcquirePermit: the last permit leaves a number behind.
MutAcquireLast(w) == Num(w.permits - 1)

\* acquire_permit, of a word that has some.
AcquirePermit(w) == IF w.permits = 1 THEN Ptr(Stub) ELSE Num(w.permits - 1)

\* release_permits
ReleasePermits(w, k) == Num(AvailablePermits(w) + k)

Words == {Num(k) : k \in 1..Permits} \cup {Ptr(x) : x \in Nodes \cup {Stub}}
NodeStates == {"Idle", "Queued", "QueuedWaiting", "Assigned"}

PCs == {"idle", "register", "cas", "link", "revert", "queued", "holding",
        "pop", "emptyload", "give", "tail", "stub", "swap", "sublink", "again",
        "notify", "wake", "sub", "panicked"}

TypeOK ==
  /\ state \in Words
  /\ head \in Nodes \cup {Stub}
  /\ rxLock \in 0..2 * Permits
  /\ node \in [Nodes -> NodeStates]
  /\ next \in [Nodes \cup {Stub} -> Nodes \cup {Stub, Null}]
  /\ task \in [Nodes -> Actors \cup {Null}]
  /\ raw \in [Nodes -> 0..2]
  /\ waiter \in [Actors -> Nodes \cup {Null}]
  /\ pc \in [Actors -> PCs]
  /\ curr \in [Actors -> Words]
  /\ strong \in [Actors -> BOOLEAN]
  /\ rem \in [Actors -> 0..Permits]
  /\ n \in [Actors -> 0..Permits]
  /\ hd \in [Actors -> Nodes \cup {Stub}]
  /\ woken \in SUBSET Actors
  /\ cancels \in 0..MaxCancels

\* The allocator has the node in use.  A node that is freed is given the
\* contents of WaiterNode::new, which it has when it is allocated again.
Owned(x) == \E a \in Actors : waiter[a] = x
Allocated(x) == raw[x] > 0 \/ Owned(x)

Init ==
  /\ state = Num(Permits) /\ head = Stub /\ rxLock = 0
  /\ node = [x \in Nodes |-> "Idle"]
  /\ next = [x \in Nodes \cup {Stub} |-> Null]
  /\ task = [x \in Nodes |-> Null]
  /\ raw = [x \in Nodes |-> 0]
  /\ waiter = [a \in Actors |-> Null]
  /\ pc = [a \in Actors |-> "idle"]
  /\ curr = [a \in Actors |-> Ptr(Stub)]
  /\ strong = [a \in Actors |-> FALSE]
  /\ rem = [a \in Actors |-> 0] /\ n = [a \in Actors |-> 0]
  /\ hd = [a \in Actors |-> Stub]
  /\ woken = {}
  /\ cancels = 0

Goto(a, label) == pc' = [pc EXCEPT ![a] = label]
Set(f, x, v) == [f EXCEPT ![x] = v]

\* The call returns, and its locals are gone.
Return(a, label) ==
  /\ Goto(a, label)
  /\ curr' = Set(curr, a, Ptr(Stub))
  /\ strong' = Set(strong, a, FALSE)
  /\ rem' = Set(rem, a, 0) /\ n' = Set(n, a, 0)
  /\ hd' = Set(hd, a, Stub)

-------------------------------------------------------------------------------
(* poll_permit *)

\* The word as read decides the next step of the loop.
Decide(a, w, hasStrong) ==
  /\ curr' = Set(curr, a, w)
  /\ strong' = Set(strong, a, hasStrong)
  /\ Goto(a, IF IsWaiter(w) /\ ~hasStrong THEN "register" ELSE "cas")

\* SemState::load
Poll(a) ==
  /\ Decide(a, state, FALSE)
  /\ UNCHANGED <<words, nodes, waiter, rem, n, hd, woken, cancels>>

\* get_or_insert_with(WaiterNode::new): the node the Waiter has, or a new one.
NodesFor(a) ==
  IF waiter[a] # Null THEN {waiter[a]} ELSE {x \in Heap[a] : ~Allocated(x)}

\* Mutants of Register: the task of a node used before is not registered again;
\* the Arc that goes into the queue is not counted.
MutRegisterStale(a) ==
  /\ pc[a] = "register"
  /\ \E x \in NodesFor(a) :
       /\ waiter' = Set(waiter, a, x)
       /\ task' = IF waiter[a] = Null THEN Set(task, x, a) ELSE task
       /\ node' = Set(node, x, "QueuedWaiting")
       /\ next' = Set(next, x, Null) /\ raw' = Set(raw, x, raw[x] + 1)
  /\ strong' = Set(strong, a, TRUE) /\ Goto(a, "cas")
  /\ UNCHANGED <<words, curr, rem, n, hd, woken, cancels>>

MutRegisterUncounted(a) ==
  /\ pc[a] = "register"
  /\ \E x \in NodesFor(a) :
       /\ waiter' = Set(waiter, a, x)
       /\ task' = Set(task, x, a)
       /\ node' = Set(node, x, "QueuedWaiting")
       /\ next' = Set(next, x, Null)
  /\ strong' = Set(strong, a, TRUE) /\ Goto(a, "cas")
  /\ UNCHANGED <<words, raw, curr, rem, n, hd, woken, cancels>>

\* to_queued_waiting: only its caller changes a node that is not queued, so its
\* load and its compare_exchange are one step; so is the reset of next, which
\* nobody else can reach yet.  The task is registered just before.
Register(a) ==
  /\ pc[a] = "register"
  /\ \E x \in NodesFor(a) :
     LET was == node[x]
         queued == was \in {"Queued", "QueuedWaiting"}
     IN /\ waiter' = Set(waiter, a, x)
        /\ task' = Set(task, x, a)
        /\ IF DebugAsserts /\ was \notin {"Idle", "Queued"}
           THEN Goto(a, "panicked") /\ UNCHANGED <<node, next, raw, locals>>
           ELSE /\ node' = Set(node, x, "QueuedWaiting")
                /\ IF queued
                   THEN Return(a, "queued") /\ UNCHANGED <<next, raw>>
                   ELSE /\ next' = Set(next, x, Null)
                        /\ raw' = Set(raw, x, raw[x] + 1)
                        /\ strong' = Set(strong, a, TRUE)
                        /\ Goto(a, "cas")
                        /\ UNCHANGED <<curr, rem, n, hd>>
  /\ UNCHANGED <<words, woken, cancels>>

\* poll_permit was given no waiter: it returns Err.
Refused(a) ==
  /\ pc[a] = "register"
  /\ waiter[a] # Null => node[waiter[a]] = "Idle"
  /\ Return(a, "idle")
  /\ UNCHANGED <<words, nodes, waiter, woken, cancels>>

\* The compare_exchange on the word fails: the loop goes round.
CasFails(a) ==
  /\ pc[a] = "cas" /\ curr[a] # state
  /\ Decide(a, state, strong[a])
  /\ UNCHANGED <<words, nodes, waiter, rem, n, hd, woken, cancels>>

\* It succeeds and takes a permit.
CasTakes(a) ==
  /\ pc[a] = "cas" /\ curr[a] = state
  /\ ~IsWaiter(state)
  /\ state' = AcquirePermit(state)
  /\ Return(a, IF strong[a] THEN "revert" ELSE "holding")
  /\ UNCHANGED <<head, rxLock, nodes, waiter, woken, cancels>>

\* It succeeds and makes the waiter the tail.
CasPushes(a) ==
  /\ pc[a] = "cas" /\ curr[a] = state
  /\ IsWaiter(state)
  /\ state' = Ptr(waiter[a])
  /\ Goto(a, "link")
  /\ UNCHANGED <<head, rxLock, nodes, waiter, locals, woken, cancels>>

\* prev_waiter.next.store(waiter)
Link(a) ==
  /\ pc[a] = "link"
  /\ next' = Set(next, curr[a].tail, waiter[a])
  /\ Return(a, "queued")
  /\ UNCHANGED <<words, node, task, raw, waiter, woken, cancels>>

\* The permit was acquired after all: revert_to_idle, and the clone is dropped.
Revert(a) ==
  /\ pc[a] = "revert"
  /\ node' = Set(node, waiter[a], "Idle")
  /\ raw' = Set(raw, waiter[a], raw[waiter[a]] - 1)
  /\ Goto(a, "holding")
  /\ UNCHANGED <<words, next, task, waiter, locals, woken, cancels>>

-------------------------------------------------------------------------------
(* release_one, release_n, pop and push_stub *)

\* Mutant of ReleaseOne: what rx_lock was is not looked at.
MutReleaseUnlocked(a) ==
  /\ pc[a] = "holding"
  /\ rxLock' = rxLock + 1
  /\ rem' = Set(rem, a, 1) /\ n' = Set(n, a, 1) /\ Goto(a, "pop")
  /\ UNCHANGED <<state, head, nodes, waiter, curr, strong, hd, woken, cancels>>

\* rx_lock.fetch_add(1): whoever finds the lock taken is done.
ReleaseOne(a) ==
  /\ pc[a] = "holding"
  /\ rxLock' = rxLock + 1
  /\ rem' = Set(rem, a, IF rxLock = 0 THEN 1 ELSE 0)
  /\ n' = Set(n, a, IF rxLock = 0 THEN 1 ELSE 0)
  /\ Goto(a, IF rxLock = 0 THEN "pop" ELSE "idle")
  /\ UNCHANGED <<state, head, nodes, waiter, curr, strong, hd, woken, cancels>>

\* Head has a successor: head moves to it and what it pointed to is popped.
\* The stub is skipped instead, and the loop looks at the new head.  The next
\* of a popped node is not read again before Register resets it: it is cleared.
PopFront(a) ==
  /\ pc[a] = "pop"
  /\ next[head] # Null
  /\ hd' = Set(hd, a, head)
  /\ head' = next[head]
  /\ next' = IF head = Stub THEN next ELSE Set(next, head, Null)
  /\ Goto(a, IF head = Stub THEN "pop" ELSE "notify")
  /\ UNCHANGED <<state, rxLock, node, task, raw, waiter, curr, strong, rem, n, woken,
                 cancels>>

\* Head has none: the queue is empty, or its last node is to be popped.
PopEnd(a) ==
  /\ pc[a] = "pop"
  /\ next[head] = Null
  /\ hd' = Set(hd, a, head)
  /\ Goto(a, IF head = Stub THEN "emptyload" ELSE "tail")
  /\ UNCHANGED <<words, nodes, waiter, curr, strong, rem, n, woken, cancels>>

\* Mutant of SeeEmpty: a waiter that is about to link itself is not seen.
MutSeeNoWaiter(a) ==
  /\ curr' = Set(curr, a, state) /\ Goto(a, "give")
  /\ UNCHANGED <<words, nodes, waiter, strong, rem, n, hd, woken, cancels>>

\* The word as read: a waiter in it is on its way into the queue, so start over.
SeeEmpty(a) ==
  /\ curr' = Set(curr, a, state)
  /\ Goto(a, IF HasWaiter(state) THEN "pop" ELSE "give")
  /\ UNCHANGED <<words, nodes, waiter, strong, rem, n, hd, woken, cancels>>

EmptyLoad(a) == pc[a] = "emptyload" /\ SeeEmpty(a)

GiveFails(a) == pc[a] = "give" /\ curr[a] # state /\ SeeEmpty(a)

\* The permits left become available: pop returns None, and release_n returns.
Give(a) ==
  /\ pc[a] = "give" /\ curr[a] = state
  /\ state' = ReleasePermits(state, n[a])
  /\ n' = Set(n, a, 0)
  /\ Goto(a, "sub")
  /\ UNCHANGED <<head, rxLock, nodes, waiter, curr, strong, rem, hd, woken, cancels>>

\* state.waiter().unwrap(), and is the head still the tail?
TailLoad(a) ==
  /\ pc[a] = "tail"
  /\ Goto(a, IF ~IsWaiter(state) THEN "panicked"
             ELSE IF state = Ptr(hd[a]) THEN "stub" ELSE "pop")
  /\ UNCHANGED <<words, nodes, waiter, locals, woken, cancels>>

ResetStub(a) ==
  /\ pc[a] = "stub"
  /\ next' = Set(next, Stub, Null)
  /\ Goto(a, "swap")
  /\ UNCHANGED <<words, node, task, raw, waiter, locals, woken, cancels>>

\* The stub becomes the tail; the unwrap and the assertion on what was.
SwapStub(a) ==
  /\ pc[a] = "swap"
  /\ state' = Ptr(Stub)
  /\ curr' = Set(curr, a, state)
  /\ Goto(a, IF ~IsWaiter(state) \/ (DebugAsserts /\ state = Ptr(Stub))
             THEN "panicked" ELSE "sublink")
  /\ UNCHANGED <<head, rxLock, nodes, waiter, strong, rem, n, hd, woken, cancels>>

LinkStub(a) ==
  /\ pc[a] = "sublink"
  /\ next' = Set(next, curr[a].tail, Stub)
  /\ Goto(a, "again")
  /\ UNCHANGED <<words, node, task, raw, waiter, locals, woken, cancels>>

\* The last node can be popped unless somebody who got in between has not
\* linked to it yet.
PopLast(a) ==
  /\ pc[a] = "again"
  /\ head' = IF next[hd[a]] = Null THEN head ELSE next[hd[a]]
  /\ next' = Set(next, hd[a], Null)
  /\ Goto(a, IF next[hd[a]] = Null THEN "pop" ELSE "notify")
  /\ UNCHANGED <<state, rxLock, node, task, raw, waiter, locals, woken, cancels>>

\* Mutant of Notify: the permit assigned is not taken off the number left.
MutNotifyFree(a) ==
  /\ pc[a] = "notify"
  /\ node' = Set(node, hd[a], "Assigned") /\ Goto(a, "wake")
  /\ UNCHANGED <<words, next, task, raw, waiter, locals, woken, cancels>>

\* WaiterNode::notify, its loop over compare_exchange as one step.
Notify(a) ==
  /\ pc[a] = "notify"
  /\ LET x == hd[a]
     IN CASE node[x] = "QueuedWaiting" ->
               /\ node' = Set(node, x, "Assigned")
               /\ n' = Set(n, a, n[a] - 1)
               /\ Goto(a, "wake")
               /\ UNCHANGED raw
          [] node[x] = "Queued" ->
               /\ node' = Set(node, x, "Idle")
               /\ raw' = Set(raw, x, raw[x] - 1)
               /\ Goto(a, "pop")
               /\ UNCHANGED n
          [] OTHER -> Goto(a, "panicked") /\ UNCHANGED <<node, n, raw>>
  /\ UNCHANGED <<words, next, task, waiter, curr, strong, rem, hd, woken, cancels>>

\* task.notify(), and the Arc that was in the queue is dropped.
Wake(a) ==
  /\ pc[a] = "wake"
  /\ LET x == hd[a]
     IN /\ woken' = woken \cup ({task[x]} \ {Null})
        /\ task' = Set(task, x, Null)
        /\ raw' = Set(raw, x, raw[x] - 1)
        /\ node' = IF Owned(x) \/ raw[x] > 1 THEN node ELSE Set(node, x, "Idle")
  /\ Goto(a, IF n[a] > 0 THEN "pop" ELSE "sub")
  /\ UNCHANGED <<words, next, waiter, locals, cancels>>

\* Mutant of Sub: the releases that came meanwhile are left to nobody.
MutSubOnce(a) ==
  /\ pc[a] = "sub" /\ rxLock' = rxLock - rem[a] /\ Return(a, "idle")
  /\ UNCHANGED <<state, head, nodes, waiter, woken, cancels>>

\* rx_lock.fetch_sub(rem): what was added meanwhile is released in turn.
Sub(a) ==
  /\ pc[a] = "sub"
  /\ rxLock' = rxLock - rem[a]
  /\ IF rxLock' = 0
     THEN Return(a, "idle")
     ELSE /\ rem' = Set(rem, a, rxLock')
          /\ n' = Set(n, a, rxLock')
          /\ Goto(a, "pop")
          /\ UNCHANGED <<curr, strong, hd>>
  /\ UNCHANGED <<state, head, nodes, waiter, woken, cancels>>

-------------------------------------------------------------------------------
(* The task *)

Request(a) == pc[a] = "idle" /\ Poll(a)

MayBePolled(a) == pc[a] = "queued" /\ (Repolls \/ a \in woken)

\* Mutant of Acquire: the node stays Assigned.
MutAcquireKeeps(a) ==
  /\ MayBePolled(a) /\ woken' = woken \ {a}
  /\ IF node[waiter[a]] = "Assigned" THEN Goto(a, "holding") ELSE UNCHANGED pc
  /\ UNCHANGED <<words, nodes, waiter, locals, cancels>>

\* Waiter::acquire: from Assigned to Idle.
Acquire(a) ==
  /\ MayBePolled(a)
  /\ woken' = woken \ {a}
  /\ IF node[waiter[a]] = "Assigned"
     THEN node' = Set(node, waiter[a], "Idle") /\ Goto(a, "holding")
     ELSE UNCHANGED <<node, pc>>
  /\ UNCHANGED <<words, next, task, raw, waiter, locals, cancels>>

\* Actor::poll of src/fuzz/semaphore/src/main.rs: a woken task does not call
\* Waiter::acquire but poll_permit again.
PollAgain(a) ==
  /\ MayBePolled(a)
  /\ woken' = woken \ {a}
  /\ Decide(a, state, FALSE)
  /\ UNCHANGED <<words, nodes, waiter, rem, n, hd, cancels>>

\* The Waiter is dropped, and with it one Arc.
DropWaiter(a) ==
  /\ MayDrop
  /\ pc[a] \in {"idle", "queued"} /\ waiter[a] # Null
  /\ cancels' = cancels + (IF pc[a] = "queued" THEN 1 ELSE 0)
  /\ cancels' <= MaxCancels
  /\ waiter' = Set(waiter, a, Null)
  /\ IF raw[waiter[a]] > 0
     THEN UNCHANGED <<node, task>>
     ELSE node' = Set(node, waiter[a], "Idle") /\ task' = Set(task, waiter[a], Null)
  /\ Goto(a, "idle")
  /\ UNCHANGED <<words, next, raw, locals, woken>>

PollStep(a) ==
  \/ Register(a) \/ Refused(a)
  \/ CasFails(a) \/ CasTakes(a) \/ CasPushes(a) \/ Link(a) \/ Revert(a)

ReleaseStep(a) ==
  \/ PopFront(a) \/ PopEnd(a) \/ EmptyLoad(a) \/ Give(a) \/ GiveFails(a)
  \/ TailLoad(a) \/ ResetStub(a) \/ SwapStub(a) \/ LinkStub(a) \/ PopLast(a)
  \/ Notify(a) \/ Wake(a) \/ Sub(a)

CallStep(a) == Request(a) \/ PollStep(a) \/ ReleaseOne(a) \/ ReleaseStep(a)

Next == \E a \in Actors : CallStep(a) \/ Acquire(a) \/ DropWaiter(a)

Spec == Init /\ [][Next]_vars

\* The tasks of the harness.
HarnessSpec == Init /\ [][\E a \in Actors : CallStep(a) \/ PollAgain(a)]_vars

\* Calls go on, a permit is given back in the end, and a woken task is polled.
FairSpec ==
  /\ Spec
  /\ \A a \in Actors :
       /\ WF_vars(PollStep(a)) /\ WF_vars(ReleaseStep(a)) /\ WF_vars(ReleaseOne(a))
       /\ WF_vars(a \in woken /\ Acquire(a))
-------------------------------------------------------------------------------
(* Safety *)

Releasing == {"pop", "emptyload", "give", "tail", "stub", "swap", "sublink", "again",
              "notify", "wake", "sub"}

\* rx_lock "coordinates access to the queue head" (semaphore.rs:39): two calls
\* of release_one are never both past it, though nobody ever waits for it.
OneReleaser ==
  \A a, b \in Actors : pc[a] \in Releasing /\ pc[b] \in Releasing => a = b

\* The unwraps of the tail in pop and push_stub, the assertion that the stub is
\* not pushed twice, the panic in notify and the assertion in to_queued_waiting.
NoPanic == \A a \in Actors : pc[a] # "panicked"

Held == {a \in Actors : pc[a] \in {"holding", "revert"}}
Granted == {a \in Actors : waiter[a] # Null /\ node[waiter[a]] = "Assigned"}

\* Permits given back that nobody has been assigned yet.
Serving == {a \in Actors : rem[a] # n[a]}
Pending ==
  IF Serving = {} THEN rxLock
  ELSE LET a == CHOOSE a \in Serving : TRUE IN rxLock - (rem[a] - n[a])

PermitsInUse ==
  AvailablePermits(state) + Cardinality(Held) + Cardinality(Granted) + Pending

\* No interleaving of polls and releases makes a permit out of nothing, and
\* only a Waiter dropped while it waits can lose one.
PermitsConserved == PermitsInUse \in Permits - cancels .. Permits

\* A node is reached through raw pointers by pop and by the poll that links to
\* it, and its Arcs are counted by hand: whatever may be dereferenced next is
\* still allocated.
NoUseAfterFree ==
  LET Reached(a) == CASE pc[a] \in {"link", "sublink"} -> {curr[a].tail}
                      [] pc[a] \in {"again", "notify", "wake"} -> {hd[a]}
                      [] OTHER -> {}
      reached == {head} \cup UNION {Reached(a) : a \in Actors}
  IN \A x \in reached \ {Stub} : Allocated(x)

\* "This step can only happen from `Queued` or from `Idle`" (semaphore.rs:450,
\* asserted at 459): no request is made with a node that already waits or has
\* been assigned a permit.
RequestsFromIdle ==
  \A a \in Actors :
    pc[a] = "register" /\ waiter[a] # Null => node[waiter[a]] \in {"Idle", "Queued"}

\* A cancelled node is skipped when it is popped (semaphore.rs:87-93): a permit
\* is assigned only to a node that somebody still waits with.
CancelledAreSkipped ==
  [][\A x \in Nodes :
       node[x] = "QueuedWaiting" /\ node'[x] = "Assigned" =>
         \E a \in Actors : waiter[a] = x]_vars

\* "Task to notify when a permit is made available" (semaphore.rs:58): a task
\* that waits with an assigned permit has been woken or is about to be.
GrantIsAnnounced ==
  \A a \in Actors :
    pc[a] = "queued" /\ node[waiter[a]] = "Assigned" =>
      \/ a \in woken
      \/ task[waiter[a]] = a /\ \E b \in Actors : pc[b] = "wake" /\ hd[b] = waiter[a]

\* Nobody waits while there are permits to take; and when no call is in progress, as many
\* as there are permits, but for those lost with a dropped Waiter, have been assigned one
\* that they have not collected.
WaitersFirst ==
  (\E a \in Actors : pc[a] = "queued" /\ node[waiter[a]] = "QueuedWaiting") =>
    /\ AvailablePermits(state) = 0
    /\ (\A b \in Actors : pc[b] \in {"idle", "queued"}) =>
         Cardinality(Granted) >= Permits - cancels

\* The tasks never all wait: one is in a call, or has a permit to give back, or has been
\* woken and finds its permit.
NobodyStranded ==
  (\E a \in Actors : pc[a] = "queued") =>
    \E b \in Actors : \/ pc[b] \notin {"idle", "queued", "panicked"}
                      \/ b \in woken /\ node[waiter[b]] = "Assigned"

(* Liveness *)

\* A queued waiter gets a permit.
WaiterServed == \A a \in Actors : pc[a] = "queued" ~> pc[a] = "holding"
===============================================================================
