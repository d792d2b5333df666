-------------------------- MODULE StdSchedulerProofs --------------------------
(***************************************************************************)
(* For any number of threads and branch points: one simulated thread runs   *)
(* at a time, the slots are what the workers expect, and `run` returns only *)
(* when every thread of the iteration has ended.                            *)
(***************************************************************************)
EXTENDS StdScheduler, FiniteSetTheorems, TLAPS

-------------------------------------------------------------------------------
(* The inductive invariant. *)

Inside == {"turn", "check", "sleep", "running", "spawn", "spawned"}
Passing == {"switch", "barrier", "notify"}
Locking == {"check", "sleep", "count", "compare", "unpark"}

\* The thread has been spawned and its closure goes on, or has come to its end.
In(i) == pc[i] \in Inside \/ (pc[i] \in Passing /\ ~target[i].leaving)
Out(i) == \/ pc[i] \in {"ended", "count", "join", "park", "returned"}
          \/ pc[i] \in Passing /\ target[i].leaving

\* The workers given a closure in this iteration, and those that have counted its end.
Spawned == 1 .. next_thread - 1
Counted == {w \in Spawned : w \notin live /\ slot[w] # "Running" /\ pc[w] # "count"}

\* A thread's mutex is only ever held across steps by itself.
LocksFit == \A i \in Threads : lock[i] = IF pc[i] \in Locking THEN i ELSE Nobody

SlotsFit ==
  /\ pc[0] \notin {"fetch", "count", "compare", "unpark", "panicked"}
  /\ \A w \in Workers :
       /\ pc[w] \notin {"join", "park", "returned", "panicked"}
       /\ pc[w] = "fetch" => slot[w] # "Running"
       /\ pc[w] \in {"count", "compare", "unpark"} => slot[w] = "Idle"
       /\ pc[w] \in Inside \cup Passing \cup {"ended"} => slot[w] = "Running"
       /\ slot[w] = "Pending" => w \in live
       /\ w \notin Spawned => slot[w] = "Idle" /\ pc[w] # "count"

LiveFits ==
  /\ live \subseteq 0 .. next_thread - 1
  /\ \A i \in Threads : (In(i) => i \in live) /\ (Out(i) => i \notin live)
  /\ \A i \in Threads :
       pc[i] = "spawn" => /\ target[i].to \in Workers \cap live
                          /\ slot[target[i].to] = "Idle"

\* Whose turn it is: active_thread lags behind the Execution's choice while a
\* thread is between schedule() and its store.
TurnFits ==
  /\ \A i \in Threads : pc[i] \in Holding => active_thread = i
  /\ \A i \in Threads : pc[i] = "switch" => target[i].to = chosen
  /\ pc[active_thread] # "switch" => chosen \in {active_thread, Nobody}
  /\ chosen = Nobody => live = {}

DoneFits ==
  /\ done = Cardinality(Counted)
  /\ pc[0] = "join" => seen[0] <= done
  /\ pc[0] = "returned" =>
       live = {} /\ \A w \in Workers : slot[w] = "Idle" /\ pc[w] # "count"

IInv == TypeOK /\ LocksFit /\ SlotsFit /\ LiveFits /\ TurnFits /\ DoneFits

-------------------------------------------------------------------------------
(* What the types and the counting rest on. *)

LEMMA ThreadFacts ==
  /\ 0 \in Threads /\ Threads \subseteq Nat /\ Nobody \notin Threads
  /\ \A i \in Threads : i < Capacity
BY CapacityAssumption DEF Threads, Nobody

LEMMA SpawnedFacts == ASSUME TypeOK PROVE Spawned \subseteq Workers
BY CapacityAssumption DEF TypeOK, Spawned, Workers, Threads

LEMMA SpawnedCount ==
  ASSUME TypeOK
  PROVE  IsFiniteSet(Spawned) /\ Cardinality(Spawned) = next_thread - 1
<1>1. next_thread \in Nat \ {0} /\ next_thread - 1 \in Int /\ 1 \in Int
  BY CapacityAssumption DEF TypeOK
<1>2. /\ IsFiniteSet(1 .. next_thread - 1)
      /\ Cardinality(1 .. next_thread - 1) =
           IF 1 > next_thread - 1 THEN 0 ELSE (next_thread - 1) - 1 + 1
  BY <1>1, FS_Interval
<1>3. QED
  BY <1>1, <1>2 DEF Spawned

LEMMA CountedFacts ==
  ASSUME TypeOK
  PROVE  /\ IsFiniteSet(Counted) /\ Cardinality(Counted) \in 0 .. next_thread - 1
         /\ Cardinality(Counted) = next_thread - 1 => Counted = Spawned
<1>1. IsFiniteSet(Spawned) /\ Cardinality(Spawned) = next_thread - 1
  BY SpawnedCount
<1>2. Counted \subseteq Spawned
  BY DEF Counted
<1>3. IsFiniteSet(Counted) /\ Cardinality(Counted) <= Cardinality(Spawned)
  BY <1>1, <1>2, FS_Subset
<1>4. Cardinality(Counted) \in Nat
  BY <1>3, FS_CardinalityType
<1>5. Cardinality(Counted) = Cardinality(Spawned) => Counted = Spawned
  BY <1>1, <1>2, FS_Subset
<1>6. QED
  BY <1>1, <1>3, <1>4, <1>5 DEF TypeOK

-------------------------------------------------------------------------------
(* The invariant is inductive: one lemma per action, one step per part of it. *)

LEMMA InitIInv == Init => IInv
<1> SUFFICES ASSUME Init PROVE IInv
  OBVIOUS
<1>1. Counted = {}
  BY DEF Init, Counted, Spawned
<1>2. DoneFits
  BY <1>1, FS_EmptySet, ThreadFacts DEF Init, DoneFits, Workers
<1>3. TypeOK
  <2>1. target \in [Threads -> [to : Threads, leaving : BOOLEAN]]
    BY ThreadFacts DEF Init, NoTarget
  <2>2. pc \in [Threads -> PCs]
    BY DEF Init, PCs
  <2>3. seen \in [Threads -> 0 .. Capacity - 1] /\ done \in 0 .. Capacity - 1 /\ next_thread \in 1 .. Capacity
    BY CapacityAssumption DEF Init
  <2>4. budget \in 0 .. Budget
    BY BudgetAssumption DEF Init
  <2>5. QED
    BY <2>1, <2>2, <2>3, <2>4, ThreadFacts DEF Init, TypeOK
<1>4. LocksFit /\ SlotsFit /\ LiveFits /\ TurnFits
  BY CapacityAssumption DEF Init, LocksFit, SlotsFit, LiveFits, TurnFits, Threads, Workers, Nobody,
         Holding, In, Out, Inside, Passing, Locking, Spawned
<1>5. QED
  BY <1>2, <1>3, <1>4 DEF IInv

LEMMA FetchKeeps == ASSUME IInv, NEW i \in Threads, Fetch(i) PROVE IInv'
<1> USE ThreadFacts DEF Fetch, At, Goto, Free, shared, execution, locals
<1>1. TypeOK'
  BY CapacityAssumption, ZenonT(60) DEF IInv, TypeOK, PCs, NoTarget, SlotsFit, LiveFits
<1>2. LocksFit'
  BY DEF IInv, TypeOK, LocksFit, Locking
<1>3. SlotsFit'
  BY DEF IInv, TypeOK, SlotsFit, LiveFits, Workers, Spawned, Inside, Passing
<1>4. LiveFits'
  <2>1. i \in Workers /\ slot[i] # "Running"
    BY DEF IInv, TypeOK, SlotsFit, Workers
  <2>2. slot[i] = "Pending" => i \in live
    BY <2>1 DEF IInv, SlotsFit
  <2>3. \A j \in Threads : slot'[j] # slot[j] => j = i /\ slot[i] = "Pending"
    BY DEF IInv, TypeOK
  <2>4. \A j \in Threads : pc'[j] = pc[j] \/ (j = i /\ slot[i] = "Pending" /\ pc'[j] = "turn")
    <3>1. CASE slot[i] = "Idle"
      BY <3>1
    <3>2. CASE slot[i] = "Pending"
      BY <3>2 DEF IInv, TypeOK
    <3>3. QED
      BY <2>1, <3>1, <3>2 DEF IInv, TypeOK, Workers
  <2>5. live' = live /\ target' = target /\ next_thread' = next_thread
    OBVIOUS
  <2>6. QED
    BY <2>2, <2>3, <2>4, <2>5, ZenonT(60) DEF IInv, LiveFits, In, Out, Inside, Passing, Workers
<1>5. TurnFits'
  BY DEF IInv, TypeOK, TurnFits, Holding
<1>6. Counted' = Counted
  BY SpawnedFacts DEF IInv, TypeOK, SlotsFit, Counted, Spawned, Workers
<1>7. DoneFits'
  BY <1>6 DEF IInv, TypeOK, SlotsFit, DoneFits, Workers
<1>8. QED
  BY <1>1, <1>2, <1>3, <1>4, <1>5, <1>7 DEF IInv

LEMMA LockTurnKeeps == ASSUME IInv, NEW i \in Threads, LockTurn(i) PROVE IInv'
<1> USE ThreadFacts DEF LockTurn, At, Goto, Free, shared, execution, locals
<1>1. TypeOK'
  BY CapacityAssumption DEF IInv, TypeOK, PCs, NoTarget, SlotsFit, LiveFits
<1>2. LocksFit'
  BY DEF IInv, TypeOK, LocksFit, Locking
<1>3. SlotsFit'
  BY DEF IInv, TypeOK, SlotsFit, LiveFits, Workers, Spawned, Inside, Passing
<1>4. LiveFits'
  BY DEF IInv, TypeOK, LiveFits, In, Out, Inside, Passing
<1>5. TurnFits'
  BY DEF IInv, TypeOK, TurnFits, Holding
<1>6. Counted' = Counted
  BY DEF IInv, TypeOK, Counted, Spawned, Workers
<1>7. DoneFits'
  BY <1>6 DEF IInv, TypeOK, DoneFits
<1>8. QED
  BY <1>1, <1>2, <1>3, <1>4, <1>5, <1>7 DEF IInv

LEMMA CheckTurnKeeps == ASSUME IInv, NEW i \in Threads, CheckTurn(i) PROVE IInv'
<1> USE ThreadFacts DEF CheckTurn, At, Goto, Free, shared, execution, locals
<1>1. TypeOK'
  BY CapacityAssumption DEF IInv, TypeOK, PCs, NoTarget, SlotsFit, LiveFits
<1>2. LocksFit'
  BY DEF IInv, TypeOK, LocksFit, Locking
<1>3. SlotsFit'
  BY DEF IInv, TypeOK, SlotsFit, LiveFits, Workers, Spawned, Inside, Passing
<1>4. LiveFits'
  BY DEF IInv, TypeOK, LiveFits, In, Out, Inside, Passing
<1>5. TurnFits'
  BY DEF IInv, TypeOK, TurnFits, Holding
<1>6. Counted' = Counted
  BY SpawnedFacts DEF IInv, TypeOK, Counted, Spawned, Workers
<1>7. DoneFits'
  BY <1>6 DEF IInv, TypeOK, DoneFits, Workers
<1>8. QED
  BY <1>1, <1>2, <1>3, <1>4, <1>5, <1>7 DEF IInv

LEMMA WaitTurnKeeps == ASSUME IInv, NEW i \in Threads, WaitTurn(i) PROVE IInv'
<1> USE ThreadFacts DEF WaitTurn, At, Goto, Free, shared, execution, locals
<1>1. TypeOK'
  BY CapacityAssumption DEF IInv, TypeOK, PCs, NoTarget, SlotsFit, LiveFits
<1>2. LocksFit'
  BY DEF IInv, TypeOK, LocksFit, Locking
<1>3. SlotsFit'
  BY DEF IInv, TypeOK, SlotsFit, LiveFits, Workers, Spawned, Inside, Passing
<1>4. LiveFits'
  BY DEF IInv, TypeOK, LiveFits, In, Out, Inside, Passing
<1>5. TurnFits'
  BY DEF IInv, TypeOK, TurnFits, Holding
<1>6. Counted' = Counted
  BY DEF IInv, TypeOK, Counted, Spawned, Workers
<1>7. DoneFits'
  BY <1>6 DEF IInv, TypeOK, DoneFits
<1>8. QED
  BY <1>1, <1>2, <1>3, <1>4, <1>5, <1>7 DEF IInv

LEMMA BranchKeeps == ASSUME IInv, NEW i \in Threads, Branch(i) PROVE IInv'
<1> USE ThreadFacts DEF Branch, At, Goto, Free, shared, execution, locals
<1>1. TypeOK'
  <2>1. target' \in [Threads -> [to : Threads, leaving : BOOLEAN]]
    <3>1. target \in [Threads -> [to : Threads, leaving : BOOLEAN]] /\ live \subseteq Threads
      BY DEF IInv, TypeOK
    <3>2. \/ target' = target
          \/ \E j \in Threads : target' = [target EXCEPT ![i] = [to |-> j, leaving |-> FALSE]]
      BY <3>1
    <3>3. ASSUME NEW j \in Threads, target' = [target EXCEPT ![i] = [to |-> j, leaving |-> FALSE]]
          PROVE  target' \in [Threads -> [to : Threads, leaving : BOOLEAN]]
      BY <3>1, <3>3
    <3>4. QED
      BY <3>1, <3>2, <3>3
  <2>2. pc' \in [Threads -> PCs]
    BY DEF IInv, TypeOK, PCs
  <2>3. QED
    BY <2>1, <2>2, CapacityAssumption, BudgetAssumption DEF IInv, TypeOK
<1>2. LocksFit'
  BY DEF IInv, TypeOK, LocksFit, Locking
<1>3. SlotsFit'
  BY DEF IInv, TypeOK, SlotsFit, LiveFits, Workers, Spawned, Inside, Passing
<1>4. LiveFits'
  BY DEF IInv, TypeOK, LiveFits, In, Out, Inside, Passing
<1>5. TurnFits'
  BY DEF IInv, TypeOK, TurnFits, Holding
<1>6. Counted' = Counted
  BY SpawnedFacts DEF IInv, TypeOK, Counted, Spawned, Workers
<1>7. DoneFits'
  BY <1>6 DEF IInv, TypeOK, DoneFits
<1>8. QED
  BY <1>1, <1>2, <1>3, <1>4, <1>5, <1>7 DEF IInv

LEMMA FinishKeeps == ASSUME IInv, NEW i \in Threads, Finish(i) PROVE IInv'
<1> USE ThreadFacts DEF Finish, At, Goto, Free, shared, execution, locals
<1>1. TypeOK'
  <2>1. target' \in [Threads -> [to : Threads, leaving : BOOLEAN]]
    <3>1. target \in [Threads -> [to : Threads, leaving : BOOLEAN]] /\ live \subseteq Threads
      BY DEF IInv, TypeOK
    <3>2. \/ target' = target
          \/ \E j \in Threads : target' = [target EXCEPT ![i] = [to |-> j, leaving |-> TRUE]]
      BY <3>1
    <3>3. ASSUME NEW j \in Threads, target' = [target EXCEPT ![i] = [to |-> j, leaving |-> TRUE]]
          PROVE  target' \in [Threads -> [to : Threads, leaving : BOOLEAN]]
      BY <3>1, <3>3
    <3>4. QED
      BY <3>1, <3>2, <3>3
  <2>2. pc' \in [Threads -> PCs]
    BY DEF IInv, TypeOK, PCs
  <2>3. QED
    BY <2>1, <2>2, CapacityAssumption, BudgetAssumption DEF IInv, TypeOK
<1>2. LocksFit'
  BY DEF IInv, TypeOK, LocksFit, Locking
<1>3. SlotsFit'
  BY DEF IInv, TypeOK, SlotsFit, LiveFits, Workers, Spawned, Inside, Passing
<1>4. LiveFits'
  BY DEF IInv, TypeOK, LiveFits, TurnFits, Holding, In, Out, Inside, Passing, Workers
<1>5. TurnFits'
  BY DEF IInv, TypeOK, TurnFits, Holding
<1>6. Counted' = Counted
  BY SpawnedFacts DEF IInv, TypeOK, Counted, SlotsFit, Inside, Spawned, Workers
<1>7. DoneFits'
  BY <1>6 DEF IInv, TypeOK, DoneFits, LiveFits, In, Inside, Workers
<1>8. QED
  BY <1>1, <1>2, <1>3, <1>4, <1>5, <1>7 DEF IInv

LEMMA StoreTurnKeeps == ASSUME IInv, NEW i \in Threads, StoreTurn(i) PROVE IInv'
<1> USE ThreadFacts DEF StoreTurn, At, Goto, Free, shared, execution, locals
<1>1. TypeOK'
  BY CapacityAssumption DEF IInv, TypeOK, PCs, NoTarget, SlotsFit, LiveFits
<1>2. LocksFit'
  BY DEF IInv, TypeOK, LocksFit, Locking
<1>3. SlotsFit'
  BY DEF IInv, TypeOK, SlotsFit, LiveFits, Workers, Spawned, Inside, Passing
<1>4. LiveFits'
  BY DEF IInv, TypeOK, LiveFits, In, Out, Inside, Passing
<1>5. TurnFits'
  BY DEF IInv, TypeOK, TurnFits, Holding
<1>6. Counted' = Counted
  BY DEF IInv, TypeOK, Counted, Spawned, Workers
<1>7. DoneFits'
  BY <1>6 DEF IInv, TypeOK, DoneFits
<1>8. QED
  BY <1>1, <1>2, <1>3, <1>4, <1>5, <1>7 DEF IInv

LEMMA BarrierKeeps == ASSUME IInv, NEW i \in Threads, Barrier(i) PROVE IInv'
<1> USE ThreadFacts DEF Barrier, At, Goto, Free, shared, execution, locals
<1>1. TypeOK'
  BY CapacityAssumption DEF IInv, TypeOK, PCs, NoTarget, SlotsFit, LiveFits
<1>2. LocksFit'
  BY DEF IInv, TypeOK, LocksFit, Locking
<1>3. SlotsFit'
  BY DEF IInv, TypeOK, SlotsFit, LiveFits, Workers, Spawned, Inside, Passing
<1>4. LiveFits'
  BY DEF IInv, TypeOK, LiveFits, In, Out, Inside, Passing
<1>5. TurnFits'
  BY DEF IInv, TypeOK, TurnFits, Holding
<1>6. Counted' = Counted
  BY DEF IInv, TypeOK, Counted, Spawned, Workers
<1>7. DoneFits'
  BY <1>6 DEF IInv, TypeOK, DoneFits
<1>8. QED
  BY <1>1, <1>2, <1>3, <1>4, <1>5, <1>7 DEF IInv

LEMMA NotifyTurnKeeps == ASSUME IInv, NEW i \in Threads, NotifyTurn(i) PROVE IInv'
<1> USE ThreadFacts DEF NotifyTurn, At, Goto, Free, shared, execution, locals
<1>1. TypeOK'
  BY CapacityAssumption DEF IInv, TypeOK, PCs, NoTarget, SlotsFit, LiveFits
<1>2. LocksFit'
  BY DEF IInv, TypeOK, LocksFit, Locking
<1>3. SlotsFit'
  BY DEF IInv, TypeOK, SlotsFit, LiveFits, Workers, Spawned, Inside, Passing
<1>4. LiveFits'
  BY DEF IInv, TypeOK, LiveFits, In, Out, Inside, Passing
<1>5. TurnFits'
  BY DEF IInv, TypeOK, TurnFits, Holding
<1>6. Counted' = Counted
  BY DEF IInv, TypeOK, Counted, Spawned, Workers
<1>7. DoneFits'
  BY <1>6 DEF IInv, TypeOK, DoneFits
<1>8. QED
  BY <1>1, <1>2, <1>3, <1>4, <1>5, <1>7 DEF IInv

LEMMA SpawnThreadKeeps == ASSUME IInv, NEW i \in Threads, SpawnThread(i) PROVE IInv'
<1> USE ThreadFacts DEF SpawnThread, At, Goto, Free, shared, execution, locals
<1>1. TypeOK'
  <2>0. next_thread \in Threads
    BY CapacityAssumption DEF IInv, TypeOK, Threads
  <2>1. target' \in [Threads -> [to : Threads, leaving : BOOLEAN]]
    BY <2>0 DEF IInv, TypeOK
  <2>2. pc' \in [Threads -> PCs]
    BY DEF IInv, TypeOK, PCs
  <2>3. QED
    BY <2>0, <2>1, <2>2, CapacityAssumption, BudgetAssumption DEF IInv, TypeOK
<1>2. LocksFit'
  BY DEF IInv, TypeOK, LocksFit, Locking
<1>3. SlotsFit'
  BY DEF IInv, TypeOK, SlotsFit, LiveFits, Workers, Spawned, Inside, Passing
<1>4. LiveFits'
  <2>1. next_thread \in Workers /\ slot[next_thread] = "Idle" /\ next_thread \notin live
    <3>1. next_thread \in Workers /\ next_thread \notin Spawned
      BY CapacityAssumption DEF IInv, TypeOK, Workers, Threads, Spawned
    <3>2. next_thread \notin live
      BY DEF IInv, TypeOK, LiveFits
    <3>3. QED
      BY <3>1, <3>2 DEF IInv, SlotsFit
  <2>2. pc[next_thread] \in {"fetch", "compare", "unpark"}
    <3>1. next_thread \notin Spawned
      BY DEF IInv, TypeOK, Spawned
    <3>2. /\ pc[next_thread] \notin {"join", "park", "returned", "panicked", "count", "ended"}
          /\ pc[next_thread] \notin Inside \cup Passing
      BY <2>1, <3>1 DEF IInv, SlotsFit
    <3>3. QED
      BY <2>1, <3>2 DEF IInv, TypeOK, PCs, Inside, Passing, Workers
  <2>3. live' \subseteq 0 .. next_thread' - 1
    BY DEF IInv, TypeOK, LiveFits
  <2>4. ASSUME NEW j \in Threads PROVE (In(j)' => j \in live') /\ (Out(j)' => j \notin live')
    BY <2>1, <2>2 DEF IInv, TypeOK, LiveFits, In, Out, Inside, Passing
  <2>5. ASSUME NEW j \in Threads, pc'[j] = "spawn" PROVE j = i
    BY <2>5 DEF IInv, TypeOK, TurnFits, Holding
  <2>6. target'[i].to = next_thread
    BY DEF IInv, TypeOK
  <2>7. QED
    BY <2>1, <2>3, <2>4, <2>5, <2>6 DEF LiveFits
<1>5. TurnFits'
  BY DEF IInv, TypeOK, LiveFits, TurnFits, Holding, In, Inside
<1>6. Counted' = Counted
  BY DEF IInv, TypeOK, Counted, Spawned, Workers
<1>7. DoneFits'
  BY <1>6 DEF IInv, TypeOK, DoneFits, LiveFits, In, Inside, Workers
<1>8. QED
  BY <1>1, <1>2, <1>3, <1>4, <1>5, <1>7 DEF IInv

LEMMA GiveWorkKeeps == ASSUME IInv, NEW i \in Threads, GiveWork(i) PROVE IInv'
<1> USE ThreadFacts DEF GiveWork, At, Goto, Free, shared, execution, locals
<1>1. TypeOK'
  BY CapacityAssumption DEF IInv, TypeOK, PCs, NoTarget, SlotsFit, LiveFits
<1>2. LocksFit'
  BY DEF IInv, TypeOK, LocksFit, Locking
<1>3. SlotsFit'
  BY DEF IInv, TypeOK, LocksFit, Locking, SlotsFit, LiveFits, Workers, Spawned, Inside, Passing
<1>4. LiveFits'
  BY DEF IInv, TypeOK, LiveFits, TurnFits, Holding, In, Out, Inside, Passing, Workers
<1>5. TurnFits'
  BY DEF IInv, TypeOK, TurnFits, Holding
<1>6. Counted' = Counted
  BY SpawnedFacts DEF IInv, TypeOK, Counted, LiveFits, Spawned, Workers
<1>7. DoneFits'
  BY <1>6 DEF IInv, TypeOK, DoneFits, LiveFits, Workers
<1>8. QED
  BY <1>1, <1>2, <1>3, <1>4, <1>5, <1>7 DEF IInv

LEMMA NotifyWorkKeeps == ASSUME IInv, NEW i \in Threads, NotifyWork(i) PROVE IInv'
<1> USE ThreadFacts DEF NotifyWork, At, Goto, Free, shared, execution, locals
<1>1. TypeOK'
  BY CapacityAssumption DEF IInv, TypeOK, PCs, NoTarget, SlotsFit, LiveFits
<1>2. LocksFit'
  BY DEF IInv, TypeOK, LocksFit, Locking
<1>3. SlotsFit'
  BY DEF IInv, TypeOK, SlotsFit, LiveFits, Workers, Spawned, Inside, Passing
<1>4. LiveFits'
  BY DEF IInv, TypeOK, LiveFits, In, Out, Inside, Passing
<1>5. TurnFits'
  BY DEF IInv, TypeOK, TurnFits, Holding
<1>6. Counted' = Counted
  BY DEF IInv, TypeOK, Counted, Spawned, Workers
<1>7. DoneFits'
  BY <1>6 DEF IInv, TypeOK, DoneFits
<1>8. QED
  BY <1>1, <1>2, <1>3, <1>4, <1>5, <1>7 DEF IInv

LEMMA BecomeIdleKeeps == ASSUME IInv, NEW i \in Threads, BecomeIdle(i) PROVE IInv'
<1> USE ThreadFacts DEF BecomeIdle, At, Goto, Free, shared, execution, locals
<1>1. TypeOK'
  BY CapacityAssumption DEF IInv, TypeOK, PCs, NoTarget, SlotsFit, LiveFits
<1>2. LocksFit'
  BY DEF IInv, TypeOK, LocksFit, SlotsFit, Locking, Workers
<1>3. SlotsFit'
  BY DEF IInv, TypeOK, SlotsFit, LiveFits, Workers, Spawned, Inside, Passing
<1>4. LiveFits'
  BY DEF IInv, TypeOK, LiveFits, In, Out, Inside, Passing
<1>5. TurnFits'
  BY DEF IInv, TypeOK, TurnFits, Holding
<1>6. Counted' = Counted
  BY DEF IInv, TypeOK, Counted, Spawned, Workers
<1>7. DoneFits'
  BY <1>6 DEF IInv, TypeOK, DoneFits
<1>8. QED
  BY <1>1, <1>2, <1>3, <1>4, <1>5, <1>7 DEF IInv

LEMMA CountDoneKeeps == ASSUME IInv, NEW i \in Threads, CountDone(i) PROVE IInv'
<1> USE ThreadFacts DEF CountDone, At, Goto, Free, shared, execution, locals
<1>1. TypeOK'
  <2>1. done + 1 \in 0 .. Capacity - 1
    <3>1. i \in Spawned /\ i \notin Counted
      BY DEF IInv, SlotsFit, Workers, Counted
    <3>2. done < next_thread - 1
      BY <3>1, CountedFacts DEF IInv, DoneFits, TypeOK
    <3>3. QED
      BY <3>2, CapacityAssumption DEF IInv, TypeOK
  <2>2. pc' \in [Threads -> PCs]
    BY DEF IInv, TypeOK, PCs
  <2>3. QED
    BY <2>1, <2>2 DEF IInv, TypeOK
<1>2. LocksFit'
  BY DEF IInv, TypeOK, LocksFit, Locking
<1>3. SlotsFit'
  BY DEF IInv, TypeOK, SlotsFit, LiveFits, Workers, Spawned, Inside, Passing
<1>4. LiveFits'
  BY DEF IInv, TypeOK, LiveFits, In, Out, Inside, Passing
<1>5. TurnFits'
  BY DEF IInv, TypeOK, TurnFits, Holding
<1>6. i \in Spawned /\ i \notin Counted /\ Counted' = Counted \cup {i}
  <2>1. i \in Workers
    BY DEF IInv, SlotsFit, Workers
  <2>2. i \in Spawned /\ slot[i] = "Idle" /\ i \notin live
    BY <2>1 DEF IInv, SlotsFit, LiveFits, Out
  <2>3. \A w \in Spawned : pc'[w] = IF w = i THEN "compare" ELSE pc[w]
    BY SpawnedFacts DEF IInv, TypeOK, Workers
  <2>4. Spawned' = Spawned
    BY DEF Spawned
  <2>5. QED
    BY <2>2, <2>3, <2>4 DEF Counted
<1>7. DoneFits'
  <2>1. Cardinality(Counted') = Cardinality(Counted) + 1
    BY <1>6, CountedFacts, FS_AddElement DEF IInv
  <2>2. QED
    BY <2>1, <1>6 DEF IInv, TypeOK, DoneFits, SlotsFit, Workers
<1>8. QED
  BY <1>1, <1>2, <1>3, <1>4, <1>5, <1>7 DEF IInv

LEMMA CompareDoneKeeps == ASSUME IInv, NEW i \in Threads, CompareDone(i) PROVE IInv'
<1> USE ThreadFacts DEF CompareDone, At, Goto, Free, shared, execution, locals
<1>1. TypeOK'
  BY CapacityAssumption DEF IInv, TypeOK, PCs, NoTarget, SlotsFit, LiveFits
<1>2. LocksFit'
  BY DEF IInv, TypeOK, LocksFit, Locking
<1>3. SlotsFit'
  BY DEF IInv, TypeOK, SlotsFit, LiveFits, Workers, Spawned, Inside, Passing
<1>4. LiveFits'
  BY DEF IInv, TypeOK, LiveFits, In, Out, Inside, Passing
<1>5. TurnFits'
  BY DEF IInv, TypeOK, TurnFits, Holding
<1>6. Counted' = Counted
  BY SpawnedFacts DEF IInv, TypeOK, Counted, Spawned, Workers
<1>7. DoneFits'
  BY <1>6 DEF IInv, TypeOK, DoneFits, SlotsFit, Workers
<1>8. QED
  BY <1>1, <1>2, <1>3, <1>4, <1>5, <1>7 DEF IInv

LEMMA UnparkMainKeeps == ASSUME IInv, NEW i \in Threads, UnparkMain(i) PROVE IInv'
<1> USE ThreadFacts DEF UnparkMain, At, Goto, Free, shared, execution, locals
<1>1. TypeOK'
  BY CapacityAssumption DEF IInv, TypeOK, PCs, NoTarget, SlotsFit, LiveFits
<1>2. LocksFit'
  BY DEF IInv, TypeOK, LocksFit, Locking
<1>3. SlotsFit'
  BY DEF IInv, TypeOK, SlotsFit, LiveFits, Workers, Spawned, Inside, Passing
<1>4. LiveFits'
  BY DEF IInv, TypeOK, LiveFits, In, Out, Inside, Passing
<1>5. TurnFits'
  BY DEF IInv, TypeOK, TurnFits, Holding
<1>6. Counted' = Counted
  BY SpawnedFacts DEF IInv, TypeOK, Counted, Spawned, Workers
<1>7. DoneFits'
  BY <1>6 DEF IInv, TypeOK, DoneFits
<1>8. QED
  BY <1>1, <1>2, <1>3, <1>4, <1>5, <1>7 DEF IInv

LEMMA SpuriousKeeps == ASSUME IInv, NEW i \in Threads, Spurious(i) PROVE IInv'
<1> USE ThreadFacts DEF Spurious, At, Goto, Free, shared, execution, locals
<1>1. TypeOK'
  BY CapacityAssumption DEF IInv, TypeOK, PCs, NoTarget, SlotsFit, LiveFits
<1>2. LocksFit'
  BY DEF IInv, TypeOK, LocksFit, Locking
<1>3. SlotsFit'
  BY DEF IInv, TypeOK, SlotsFit, LiveFits, Workers, Spawned, Inside, Passing
<1>4. LiveFits'
  BY DEF IInv, TypeOK, LiveFits, In, Out, Inside, Passing
<1>5. TurnFits'
  BY DEF IInv, TypeOK, TurnFits, Holding
<1>6. Counted' = Counted
  BY DEF IInv, TypeOK, Counted, Spawned, Workers
<1>7. DoneFits'
  BY <1>6 DEF IInv, TypeOK, DoneFits
<1>8. QED
  BY <1>1, <1>2, <1>3, <1>4, <1>5, <1>7 DEF IInv

LEMMA StartKeeps == ASSUME IInv, Start PROVE IInv'
<1> USE ThreadFacts DEF Start, At, Goto, Free, shared, execution, locals
<1>0. \A i \in Threads :
        /\ pc[i] \notin {"turn", "check", "sleep", "running", "spawn", "spawned",
                        "switch", "barrier", "notify", "ended", "count"}
        /\ i \in Workers => slot[i] = "Idle"
  BY DEF IInv, TypeOK, DoneFits, SlotsFit, Inside, Passing, Workers
<1>1. TypeOK'
  BY CapacityAssumption, BudgetAssumption DEF IInv, TypeOK, PCs
<1>2. LocksFit'
  BY DEF IInv, TypeOK, LocksFit, Locking
<1>3. SlotsFit'
  BY <1>0 DEF IInv, TypeOK, SlotsFit, Workers, Spawned, Inside, Passing
<1>4. LiveFits'
  BY <1>0 DEF IInv, TypeOK, LiveFits, In, Out, Inside, Passing
<1>5. TurnFits'
  BY <1>0 DEF IInv, TypeOK, TurnFits, Holding, Nobody
<1>6. Counted' = {}
  BY DEF Counted, Spawned
<1>7. DoneFits'
  BY <1>6, FS_EmptySet DEF IInv, TypeOK, DoneFits
<1>8. QED
  BY <1>1, <1>2, <1>3, <1>4, <1>5, <1>7 DEF IInv

LEMMA LoadDoneKeeps == ASSUME IInv, LoadDone PROVE IInv'
<1> USE ThreadFacts DEF LoadDone, At, Goto, Free, shared, execution, locals
<1>1. TypeOK'
  BY CapacityAssumption DEF IInv, TypeOK, PCs, NoTarget, SlotsFit, LiveFits
<1>2. LocksFit'
  BY DEF IInv, TypeOK, LocksFit, Locking
<1>3. SlotsFit'
  BY DEF IInv, TypeOK, SlotsFit, LiveFits, Workers, Spawned, Inside, Passing
<1>4. LiveFits'
  BY DEF IInv, TypeOK, LiveFits, In, Out, Inside, Passing
<1>5. TurnFits'
  BY DEF IInv, TypeOK, TurnFits, Holding
<1>6. Counted' = Counted
  BY DEF IInv, TypeOK, Counted, Spawned, Workers
<1>7. DoneFits'
  BY <1>6 DEF IInv, TypeOK, DoneFits
<1>8. QED
  BY <1>1, <1>2, <1>3, <1>4, <1>5, <1>7 DEF IInv

LEMMA LoadSpawnedKeeps == ASSUME IInv, LoadSpawned PROVE IInv'
<1> USE ThreadFacts DEF LoadSpawned, At, Goto, Free, shared, execution, locals
<1>0. seen[0] + 1 = next_thread =>
        live = {} /\ \A w \in Workers : slot[w] = "Idle" /\ pc[w] # "count"
  <2> SUFFICES ASSUME seen[0] + 1 = next_thread
               PROVE  live = {} /\ \A w \in Workers : slot[w] = "Idle" /\ pc[w] # "count"
    OBVIOUS
  <2>1. seen[0] <= Cardinality(Counted) /\ seen[0] \in Nat
    BY DEF IInv, TypeOK, DoneFits
  <2>2. Counted = Spawned
    BY <2>1, CountedFacts DEF IInv, TypeOK
  <2>3. 0 \notin live
    BY DEF IInv, LiveFits, Out
  <2>4. live = {}
    BY <2>2, <2>3 DEF IInv, TypeOK, LiveFits, Counted, Spawned
  <2>5. \A w \in Workers : w \in Spawned => slot[w] = "Idle" /\ pc[w] # "count"
    BY <2>2, <2>4 DEF IInv, TypeOK, SlotsFit, Counted, Workers
  <2>6. QED
    BY <2>4, <2>5 DEF IInv, SlotsFit
<1>1. TypeOK'
  BY CapacityAssumption DEF IInv, TypeOK, PCs, NoTarget, SlotsFit, LiveFits
<1>2. LocksFit'
  BY DEF IInv, TypeOK, LocksFit, Locking
<1>3. SlotsFit'
  BY DEF IInv, TypeOK, SlotsFit, LiveFits, Workers, Spawned, Inside, Passing
<1>4. LiveFits'
  BY DEF IInv, TypeOK, LiveFits, In, Out, Inside, Passing
<1>5. TurnFits'
  BY DEF IInv, TypeOK, TurnFits, Holding
<1>6. Counted' = Counted
  BY DEF IInv, TypeOK, Counted, Spawned, Workers
<1>7. DoneFits'
  BY <1>0, <1>6 DEF IInv, TypeOK, DoneFits, Workers
<1>8. QED
  BY <1>1, <1>2, <1>3, <1>4, <1>5, <1>7 DEF IInv

LEMMA ParkMainKeeps == ASSUME IInv, ParkMain PROVE IInv'
<1> USE ThreadFacts DEF ParkMain, At, Goto, Free, shared, execution, locals
<1>1. TypeOK'
  BY CapacityAssumption DEF IInv, TypeOK, PCs, NoTarget, SlotsFit, LiveFits
<1>2. LocksFit'
  BY DEF IInv, TypeOK, LocksFit, Locking
<1>3. SlotsFit'
  BY DEF IInv, TypeOK, SlotsFit, LiveFits, Workers, Spawned, Inside, Passing
<1>4. LiveFits'
  BY DEF IInv, TypeOK, LiveFits, In, Out, Inside, Passing
<1>5. TurnFits'
  BY DEF IInv, TypeOK, TurnFits, Holding
<1>6. Counted' = Counted
  BY DEF IInv, TypeOK, Counted, Spawned, Workers
<1>7. DoneFits'
  BY <1>6 DEF IInv, TypeOK, DoneFits
<1>8. QED
  BY <1>1, <1>2, <1>3, <1>4, <1>5, <1>7 DEF IInv

LEMMA NextIInv == ASSUME IInv, [Next]_vars PROVE IInv'
<1>1. ASSUME NEW i \in Threads, Step(i) PROVE IInv'
  BY <1>1, FetchKeeps, LockTurnKeeps, CheckTurnKeeps, WaitTurnKeeps, BranchKeeps, FinishKeeps,
     StoreTurnKeeps, BarrierKeeps, NotifyTurnKeeps, SpawnThreadKeeps, GiveWorkKeeps,
     NotifyWorkKeeps, BecomeIdleKeeps, CountDoneKeeps, CompareDoneKeeps, UnparkMainKeeps
     DEF Step
<1>2. ASSUME NEW i \in Threads, Spurious(i) PROVE IInv'
  BY <1>2, SpuriousKeeps
<1>3. CASE MainStep
  BY <1>3, StartKeeps, LoadDoneKeeps, LoadSpawnedKeeps, ParkMainKeeps DEF MainStep
<1>4. CASE UNCHANGED vars
  BY <1>4 DEF vars, IInv, TypeOK, LocksFit, SlotsFit, LiveFits, TurnFits, DoneFits,
              In, Out, Counted, Spawned
<1>5. QED
  BY <1>1, <1>2, <1>3, <1>4 DEF Next

-------------------------------------------------------------------------------
(* Nobody sleeps for ever: what is kept besides, action by action. *)

\* A thread sleeps only at its condition variable.
AsleepFit == \A i \in asleep : pc[i] \in {"fetch", "turn"}

\* A thread about to sleep when its turn has come holds its mutex, so whoever gave it the
\* turn is still before it.
SleepFits ==
  \A i \in Threads :
    pc[i] = "sleep" /\ active_thread = i =>
      \E j \in Threads : pc[j] = "barrier" /\ target[j].to = i

\* A thread that lives has been given its closure, or is about to be.
LivesFit ==
  /\ \A i \in live : \/ In(i) \/ slot[i] = "Pending"
                     \/ \E j \in Threads : pc[j] = "spawn" /\ target[j].to = i
  /\ chosen # Nobody => chosen \in live

Wakes == AsleepFit /\ SleepFits /\ TurnComes /\ WorkComes /\ EndComes /\ LivesFit

LEMMA InitWakes == Init => Wakes
BY CapacityAssumption DEF Init, Wakes, AsleepFit, SleepFits, TurnComes, WorkComes, EndComes, LivesFit,
   Threads, Nobody

LEMMA FetchWakes == ASSUME IInv, Wakes, NEW i \in Threads, Fetch(i) PROVE Wakes'
<1> USE ThreadFacts DEF Fetch, At, Goto, Free, shared, execution, locals
<1>0. \/ slot[i] = "Idle" /\ asleep' = asleep \cup {i} /\ UNCHANGED <<slot, pc>>
      \/ /\ slot[i] = "Pending" /\ slot' = [slot EXCEPT ![i] = "Running"]
         /\ pc' = [pc EXCEPT ![i] = "turn"] /\ UNCHANGED asleep
  BY DEF IInv, TypeOK, SlotsFit, Workers
<1>1. AsleepFit'
  BY <1>0 DEF IInv, TypeOK, Wakes, AsleepFit
<1>2. SleepFits'
  BY DEF IInv, TypeOK, LocksFit, Locking, TurnFits, Holding, Wakes, SleepFits
<1>3. TurnComes'
  BY DEF IInv, TypeOK, TurnFits, Holding, Wakes, AsleepFit, SleepFits, TurnComes
<1>4. WorkComes'
  <2>1. pc[i] = "fetch" /\ UNCHANGED target
    OBVIOUS
  <2>2. ASSUME NEW k \in asleep', pc'[k] = "fetch", slot'[k] = "Pending"
        PROVE  k # i /\ k \in asleep /\ pc[k] = "fetch" /\ slot[k] = "Pending"
    BY <1>0, <2>2 DEF IInv, TypeOK
  <2>3. ASSUME NEW j \in Threads, pc[j] = "spawned" PROVE pc'[j] = "spawned"
    BY <1>0, <2>1, <2>3 DEF IInv, TypeOK
  <2>4. QED
    BY <2>1, <2>2, <2>3 DEF Wakes, WorkComes
<1>5. EndComes'
  BY DEF IInv, TypeOK, SlotsFit, DoneFits, Wakes, EndComes, Workers
<1>6. LivesFit'
  BY DEF IInv, TypeOK, SlotsFit, LiveFits, TurnFits, Holding, Wakes, LivesFit, In, Out, Inside, Passing, Workers
<1>7. QED
  BY <1>1, <1>2, <1>3, <1>4, <1>5, <1>6 DEF Wakes

LEMMA LockTurnWakes == ASSUME IInv, Wakes, NEW i \in Threads, LockTurn(i) PROVE Wakes'
<1> USE ThreadFacts DEF LockTurn, At, Goto, Free, shared, execution, locals
<1>1. AsleepFit'
  BY DEF IInv, TypeOK, Wakes, AsleepFit
<1>2. SleepFits'
  BY DEF IInv, TypeOK, LocksFit, Locking, TurnFits, Holding, Wakes, SleepFits
<1>3. TurnComes'
  BY DEF IInv, TypeOK, TurnFits, Holding, Wakes, AsleepFit, SleepFits, TurnComes
<1>4. WorkComes'
  BY DEF IInv, TypeOK, TurnFits, Holding, Wakes, AsleepFit, WorkComes
<1>5. EndComes'
  BY DEF IInv, TypeOK, SlotsFit, DoneFits, Wakes, EndComes, Workers
<1>6. LivesFit'
  BY DEF IInv, TypeOK, SlotsFit, LiveFits, TurnFits, Holding, Wakes, LivesFit, In, Out, Inside, Passing, Workers
<1>7. QED
  BY <1>1, <1>2, <1>3, <1>4, <1>5, <1>6 DEF Wakes

LEMMA CheckTurnWakes == ASSUME IInv, Wakes, NEW i \in Threads, CheckTurn(i) PROVE Wakes'
<1> USE ThreadFacts DEF CheckTurn, At, Goto, Free, shared, execution, locals
<1>1. AsleepFit'
  BY DEF IInv, TypeOK, Wakes, AsleepFit
<1>2. SleepFits'
  BY DEF IInv, TypeOK, LocksFit, Locking, TurnFits, Holding, Wakes, SleepFits
<1>3. TurnComes'
  BY DEF IInv, TypeOK, TurnFits, Holding, Wakes, AsleepFit, SleepFits, TurnComes
<1>4. WorkComes'
  BY DEF IInv, TypeOK, TurnFits, Holding, Wakes, AsleepFit, WorkComes
<1>5. EndComes'
  BY DEF IInv, TypeOK, SlotsFit, DoneFits, Wakes, EndComes, Workers
<1>6. LivesFit'
  BY DEF IInv, TypeOK, SlotsFit, LiveFits, TurnFits, Holding, Wakes, LivesFit, In, Out, Inside, Passing, Workers
<1>7. QED
  BY <1>1, <1>2, <1>3, <1>4, <1>5, <1>6 DEF Wakes

LEMMA WaitTurnWakes == ASSUME IInv, Wakes, NEW i \in Threads, WaitTurn(i) PROVE Wakes'
<1> USE ThreadFacts DEF WaitTurn, At, Goto, Free, shared, execution, locals
<1>1. AsleepFit'
  BY DEF IInv, TypeOK, Wakes, AsleepFit
<1>2. SleepFits'
  BY DEF IInv, TypeOK, LocksFit, Locking, TurnFits, Holding, Wakes, SleepFits
<1>3. TurnComes'
  BY DEF IInv, TypeOK, TurnFits, Holding, Wakes, AsleepFit, SleepFits, TurnComes
<1>4. WorkComes'
  BY DEF IInv, TypeOK, TurnFits, Holding, Wakes, AsleepFit, WorkComes
<1>5. EndComes'
  BY DEF IInv, TypeOK, SlotsFit, DoneFits, Wakes, EndComes, Workers
<1>6. LivesFit'
  BY DEF IInv, TypeOK, SlotsFit, LiveFits, TurnFits, Holding, Wakes, LivesFit, In, Out, Inside, Passing, Workers
<1>7. QED
  BY <1>1, <1>2, <1>3, <1>4, <1>5, <1>6 DEF Wakes

LEMMA BranchWakes == ASSUME IInv, Wakes, NEW i \in Threads, Branch(i) PROVE Wakes'
<1> USE ThreadFacts DEF Branch, At, Goto, Free, shared, execution, locals
<1>1. AsleepFit'
  BY DEF IInv, TypeOK, Wakes, AsleepFit
<1>2. SleepFits'
  BY DEF IInv, TypeOK, LocksFit, Locking, TurnFits, Holding, Wakes, SleepFits
<1>3. TurnComes'
  BY DEF IInv, TypeOK, TurnFits, Holding, Wakes, AsleepFit, SleepFits, TurnComes
<1>4. WorkComes'
  BY DEF IInv, TypeOK, TurnFits, Holding, Wakes, AsleepFit, WorkComes
<1>5. EndComes'
  BY DEF IInv, TypeOK, SlotsFit, DoneFits, Wakes, EndComes, Workers
<1>6. LivesFit'
  BY DEF IInv, TypeOK, SlotsFit, LiveFits, TurnFits, Holding, Wakes, LivesFit, In, Out, Inside, Passing, Workers
<1>7. QED
  BY <1>1, <1>2, <1>3, <1>4, <1>5, <1>6 DEF Wakes

LEMMA FinishWakes == ASSUME IInv, Wakes, NEW i \in Threads, Finish(i) PROVE Wakes'
<1> USE ThreadFacts DEF Finish, At, Goto, Free, shared, execution, locals
<1>1. AsleepFit'
  BY DEF IInv, TypeOK, Wakes, AsleepFit
<1>2. SleepFits'
  BY DEF IInv, TypeOK, LocksFit, Locking, TurnFits, Holding, Wakes, SleepFits
<1>3. TurnComes'
  BY DEF IInv, TypeOK, TurnFits, Holding, Wakes, AsleepFit, SleepFits, TurnComes
<1>4. WorkComes'
  BY DEF IInv, TypeOK, TurnFits, Holding, Wakes, AsleepFit, WorkComes
<1>5. EndComes'
  BY DEF IInv, TypeOK, SlotsFit, DoneFits, Wakes, EndComes, Workers
<1>6. LivesFit'
  BY DEF IInv, TypeOK, SlotsFit, LiveFits, TurnFits, Holding, Wakes, LivesFit, In, Out, Inside, Passing, Workers
<1>7. QED
  BY <1>1, <1>2, <1>3, <1>4, <1>5, <1>6 DEF Wakes

LEMMA StoreTurnWakes == ASSUME IInv, Wakes, NEW i \in Threads, StoreTurn(i) PROVE Wakes'
<1> USE ThreadFacts DEF StoreTurn, At, Goto, Free, shared, execution, locals
<1>1. AsleepFit'
  BY DEF IInv, TypeOK, Wakes, AsleepFit
<1>0. pc'[i] = "barrier" /\ target'[i].to = active_thread'
  BY DEF IInv, TypeOK
<1>2. SleepFits'
  BY <1>0 DEF SleepFits
<1>3. TurnComes'
  BY <1>0 DEF TurnComes
<1>4. WorkComes'
  BY DEF IInv, TypeOK, TurnFits, Holding, Wakes, AsleepFit, WorkComes
<1>5. EndComes'
  BY DEF IInv, TypeOK, SlotsFit, DoneFits, Wakes, EndComes, Workers
<1>6. LivesFit'
  BY DEF IInv, TypeOK, SlotsFit, LiveFits, TurnFits, Holding, Wakes, LivesFit, In, Out, Inside, Passing, Workers
<1>7. QED
  BY <1>1, <1>2, <1>3, <1>4, <1>5, <1>6 DEF Wakes

LEMMA BarrierWakes == ASSUME IInv, Wakes, NEW i \in Threads, Barrier(i) PROVE Wakes'
<1> USE ThreadFacts DEF Barrier, At, Goto, Free, shared, execution, locals
<1>1. AsleepFit'
  BY DEF IInv, TypeOK, Wakes, AsleepFit
<1>2. SleepFits'
  BY DEF IInv, TypeOK, LocksFit, Locking, TurnFits, Holding, Wakes, SleepFits
<1>3. TurnComes'
  BY DEF IInv, TypeOK, TurnFits, Holding, Wakes, AsleepFit, SleepFits, TurnComes
<1>4. WorkComes'
  BY DEF IInv, TypeOK, TurnFits, Holding, Wakes, AsleepFit, WorkComes
<1>5. EndComes'
  BY DEF IInv, TypeOK, SlotsFit, DoneFits, Wakes, EndComes, Workers
<1>6. LivesFit'
  BY DEF IInv, TypeOK, SlotsFit, LiveFits, TurnFits, Holding, Wakes, LivesFit, In, Out, Inside, Passing, Workers
<1>7. QED
  BY <1>1, <1>2, <1>3, <1>4, <1>5, <1>6 DEF Wakes

LEMMA NotifyTurnWakes == ASSUME IInv, Wakes, NEW i \in Threads, NotifyTurn(i) PROVE Wakes'
<1> USE ThreadFacts DEF NotifyTurn, At, Goto, Free, shared, execution, locals
<1>1. AsleepFit'
  BY DEF IInv, TypeOK, Wakes, AsleepFit
<1>2. SleepFits'
  BY DEF IInv, TypeOK, LocksFit, Locking, TurnFits, Holding, Wakes, SleepFits
<1>3. TurnComes'
  BY DEF IInv, TypeOK, TurnFits, Holding, Wakes, AsleepFit, SleepFits, TurnComes
<1>4. WorkComes'
  BY DEF IInv, TypeOK, TurnFits, Holding, Wakes, AsleepFit, WorkComes
<1>5. EndComes'
  BY DEF IInv, TypeOK, SlotsFit, DoneFits, Wakes, EndComes, Workers
<1>6. LivesFit'
  BY DEF IInv, TypeOK, SlotsFit, LiveFits, TurnFits, Holding, Wakes, LivesFit, In, Out, Inside, Passing, Workers
<1>7. QED
  BY <1>1, <1>2, <1>3, <1>4, <1>5, <1>6 DEF Wakes

LEMMA SpawnThreadWakes == ASSUME IInv, Wakes, NEW i \in Threads, SpawnThread(i) PROVE Wakes'
<1> USE ThreadFacts DEF SpawnThread, At, Goto, Free, shared, execution, locals
<1>1. AsleepFit'
  BY DEF IInv, TypeOK, Wakes, AsleepFit
<1>2. SleepFits'
  BY DEF IInv, TypeOK, LocksFit, Locking, TurnFits, Holding, Wakes, SleepFits
<1>3. TurnComes'
  BY DEF IInv, TypeOK, TurnFits, Holding, Wakes, AsleepFit, SleepFits, TurnComes
<1>4. WorkComes'
  BY DEF IInv, TypeOK, TurnFits, Holding, Wakes, AsleepFit, WorkComes
<1>5. EndComes'
  <2>1. done + 1 < next_thread'
    BY CountedFacts DEF IInv, TypeOK, DoneFits
  <2>2. QED
    BY <2>1 DEF EndComes
<1>6. LivesFit'
  BY DEF IInv, TypeOK, SlotsFit, LiveFits, TurnFits, Holding, Wakes, LivesFit, In, Out, Inside, Passing, Workers
<1>7. QED
  BY <1>1, <1>2, <1>3, <1>4, <1>5, <1>6 DEF Wakes

LEMMA GiveWorkWakes == ASSUME IInv, Wakes, NEW i \in Threads, GiveWork(i) PROVE Wakes'
<1> USE ThreadFacts DEF GiveWork, At, Goto, Free, shared, execution, locals
<1>1. AsleepFit'
  BY DEF IInv, TypeOK, Wakes, AsleepFit
<1>2. SleepFits'
  BY DEF IInv, TypeOK, LocksFit, Locking, TurnFits, Holding, Wakes, SleepFits
<1>3. TurnComes'
  BY DEF IInv, TypeOK, TurnFits, Holding, Wakes, AsleepFit, SleepFits, TurnComes
<1>4. WorkComes'
  <2>1. pc' = [pc EXCEPT ![i] = "spawned"] /\ slot' = [slot EXCEPT ![target[i].to] = "Pending"]
    BY DEF IInv, LiveFits
  <2>2. ASSUME NEW k \in asleep, pc'[k] = "fetch", slot'[k] = "Pending", k # target[i].to
        PROVE  \E j \in Threads : pc'[j] = "spawned" /\ target'[j].to = k
    BY <2>1, <2>2 DEF IInv, TypeOK, Wakes, WorkComes
  <2>3. pc'[i] = "spawned" /\ target'[i].to = target[i].to
    BY <2>1 DEF IInv, TypeOK
  <2>4. QED
    BY <2>2, <2>3 DEF WorkComes
<1>5. EndComes'
  BY DEF IInv, TypeOK, SlotsFit, DoneFits, Wakes, EndComes, Workers
<1>6. LivesFit'
  BY DEF IInv, TypeOK, SlotsFit, LiveFits, TurnFits, Holding, Wakes, LivesFit, In, Out, Inside, Passing, Workers
<1>7. QED
  BY <1>1, <1>2, <1>3, <1>4, <1>5, <1>6 DEF Wakes

LEMMA NotifyWorkWakes == ASSUME IInv, Wakes, NEW i \in Threads, NotifyWork(i) PROVE Wakes'
<1> USE ThreadFacts DEF NotifyWork, At, Goto, Free, shared, execution, locals
<1>1. AsleepFit'
  BY DEF IInv, TypeOK, Wakes, AsleepFit
<1>2. SleepFits'
  BY DEF IInv, TypeOK, LocksFit, Locking, TurnFits, Holding, Wakes, SleepFits
<1>3. TurnComes'
  BY DEF IInv, TypeOK, TurnFits, Holding, Wakes, AsleepFit, SleepFits, TurnComes
<1>4. WorkComes'
  BY DEF IInv, TypeOK, TurnFits, Holding, Wakes, AsleepFit, WorkComes
<1>5. EndComes'
  BY DEF IInv, TypeOK, SlotsFit, DoneFits, Wakes, EndComes, Workers
<1>6. LivesFit'
  BY DEF IInv, TypeOK, SlotsFit, LiveFits, TurnFits, Holding, Wakes, LivesFit, In, Out, Inside, Passing, Workers
<1>7. QED
  BY <1>1, <1>2, <1>3, <1>4, <1>5, <1>6 DEF Wakes

LEMMA BecomeIdleWakes == ASSUME IInv, Wakes, NEW i \in Threads, BecomeIdle(i) PROVE Wakes'
<1> USE ThreadFacts DEF BecomeIdle, At, Goto, Free, shared, execution, locals
<1>1. AsleepFit'
  BY DEF IInv, TypeOK, Wakes, AsleepFit
<1>2. SleepFits'
  BY DEF IInv, TypeOK, LocksFit, Locking, TurnFits, Holding, Wakes, SleepFits
<1>3. TurnComes'
  BY DEF IInv, TypeOK, TurnFits, Holding, Wakes, AsleepFit, SleepFits, TurnComes
<1>4. WorkComes'
  BY DEF IInv, TypeOK, TurnFits, Holding, Wakes, AsleepFit, WorkComes
<1>5. EndComes'
  BY DEF IInv, TypeOK, SlotsFit, DoneFits, Wakes, EndComes, Workers
<1>6. LivesFit'
  BY DEF IInv, TypeOK, SlotsFit, LiveFits, TurnFits, Holding, Wakes, LivesFit, In, Out, Inside, Passing, Workers
<1>7. QED
  BY <1>1, <1>2, <1>3, <1>4, <1>5, <1>6 DEF Wakes

LEMMA CountDoneWakes == ASSUME IInv, Wakes, NEW i \in Threads, CountDone(i) PROVE Wakes'
<1> USE ThreadFacts DEF CountDone, At, Goto, Free, shared, execution, locals
<1>1. AsleepFit'
  BY DEF IInv, TypeOK, Wakes, AsleepFit
<1>2. SleepFits'
  BY DEF IInv, TypeOK, LocksFit, Locking, TurnFits, Holding, Wakes, SleepFits
<1>3. TurnComes'
  BY DEF IInv, TypeOK, TurnFits, Holding, Wakes, AsleepFit, SleepFits, TurnComes
<1>4. WorkComes'
  BY DEF IInv, TypeOK, TurnFits, Holding, Wakes, AsleepFit, WorkComes
<1>5. EndComes'
  BY DEF IInv, TypeOK, SlotsFit, DoneFits, Wakes, EndComes, Workers
<1>6. LivesFit'
  BY DEF IInv, TypeOK, SlotsFit, LiveFits, TurnFits, Holding, Wakes, LivesFit, In, Out, Inside, Passing, Workers
<1>7. QED
  BY <1>1, <1>2, <1>3, <1>4, <1>5, <1>6 DEF Wakes

LEMMA CompareDoneWakes == ASSUME IInv, Wakes, NEW i \in Threads, CompareDone(i) PROVE Wakes'
<1> USE ThreadFacts DEF CompareDone, At, Goto, Free, shared, execution, locals
<1>1. AsleepFit'
  BY DEF IInv, TypeOK, Wakes, AsleepFit
<1>2. SleepFits'
  BY DEF IInv, TypeOK, LocksFit, Locking, TurnFits, Holding, Wakes, SleepFits
<1>3. TurnComes'
  BY DEF IInv, TypeOK, TurnFits, Holding, Wakes, AsleepFit, SleepFits, TurnComes
<1>4. WorkComes'
  BY DEF IInv, TypeOK, TurnFits, Holding, Wakes, AsleepFit, WorkComes
<1>5. EndComes'
  BY DEF IInv, TypeOK, SlotsFit, DoneFits, Wakes, EndComes, Workers
<1>6. LivesFit'
  BY DEF IInv, TypeOK, SlotsFit, LiveFits, TurnFits, Holding, Wakes, LivesFit, In, Out, Inside, Passing, Workers
<1>7. QED
  BY <1>1, <1>2, <1>3, <1>4, <1>5, <1>6 DEF Wakes

LEMMA UnparkMainWakes == ASSUME IInv, Wakes, NEW i \in Threads, UnparkMain(i) PROVE Wakes'
<1> USE ThreadFacts DEF UnparkMain, At, Goto, Free, shared, execution, locals
<1>1. AsleepFit'
  BY DEF IInv, TypeOK, Wakes, AsleepFit
<1>2. SleepFits'
  BY DEF IInv, TypeOK, LocksFit, Locking, TurnFits, Holding, Wakes, SleepFits
<1>3. TurnComes'
  BY DEF IInv, TypeOK, TurnFits, Holding, Wakes, AsleepFit, SleepFits, TurnComes
<1>4. WorkComes'
  BY DEF IInv, TypeOK, TurnFits, Holding, Wakes, AsleepFit, WorkComes
<1>5. EndComes'
  BY DEF IInv, TypeOK, SlotsFit, DoneFits, Wakes, EndComes, Workers
<1>6. LivesFit'
  BY DEF IInv, TypeOK, SlotsFit, LiveFits, TurnFits, Holding, Wakes, LivesFit, In, Out, Inside, Passing, Workers
<1>7. QED
  BY <1>1, <1>2, <1>3, <1>4, <1>5, <1>6 DEF Wakes

LEMMA SpuriousWakes == ASSUME IInv, Wakes, NEW i \in Threads, Spurious(i) PROVE Wakes'
<1> USE ThreadFacts DEF Spurious, At, Goto, Free, shared, execution, locals
<1>1. AsleepFit'
  BY DEF IInv, TypeOK, Wakes, AsleepFit
<1>2. SleepFits'
  BY DEF IInv, TypeOK, LocksFit, Locking, TurnFits, Holding, Wakes, SleepFits
<1>3. TurnComes'
  BY DEF IInv, TypeOK, TurnFits, Holding, Wakes, AsleepFit, SleepFits, TurnComes
<1>4. WorkComes'
  BY DEF IInv, TypeOK, TurnFits, Holding, Wakes, AsleepFit, WorkComes
<1>5. EndComes'
  BY DEF IInv, TypeOK, SlotsFit, DoneFits, Wakes, EndComes, Workers
<1>6. LivesFit'
  BY DEF IInv, TypeOK, SlotsFit, LiveFits, TurnFits, Holding, Wakes, LivesFit, In, Out, Inside, Passing, Workers
<1>7. QED
  BY <1>1, <1>2, <1>3, <1>4, <1>5, <1>6 DEF Wakes

LEMMA StartWakes == ASSUME IInv, Wakes, Start PROVE Wakes'
<1> USE ThreadFacts DEF Start, At, Goto, Free, shared, execution, locals
<1>1. AsleepFit'
  BY DEF IInv, TypeOK, Wakes, AsleepFit
<1>2. SleepFits'
  BY DEF IInv, TypeOK, LocksFit, Locking, TurnFits, Holding, Wakes, SleepFits
<1>3. TurnComes'
  BY DEF IInv, TypeOK, TurnFits, Holding, Wakes, AsleepFit, SleepFits, TurnComes
<1>4. WorkComes'
  BY DEF IInv, TypeOK, TurnFits, Holding, Wakes, AsleepFit, WorkComes
<1>5. EndComes'
  BY DEF IInv, TypeOK, SlotsFit, DoneFits, Wakes, EndComes, Workers
<1>6. LivesFit'
  BY DEF IInv, TypeOK, SlotsFit, LiveFits, TurnFits, Holding, Wakes, LivesFit, In, Out, Inside, Passing, Workers
<1>7. QED
  BY <1>1, <1>2, <1>3, <1>4, <1>5, <1>6 DEF Wakes

LEMMA LoadDoneWakes == ASSUME IInv, Wakes, LoadDone PROVE Wakes'
<1> USE ThreadFacts DEF LoadDone, At, Goto, Free, shared, execution, locals
<1>1. AsleepFit'
  BY DEF IInv, TypeOK, Wakes, AsleepFit
<1>2. SleepFits'
  BY DEF IInv, TypeOK, LocksFit, Locking, TurnFits, Holding, Wakes, SleepFits
<1>3. TurnComes'
  BY DEF IInv, TypeOK, TurnFits, Holding, Wakes, AsleepFit, SleepFits, TurnComes
<1>4. WorkComes'
  BY DEF IInv, TypeOK, TurnFits, Holding, Wakes, AsleepFit, WorkComes
<1>5. EndComes'
  BY DEF IInv, TypeOK, SlotsFit, DoneFits, Wakes, EndComes, Workers
<1>6. LivesFit'
  BY DEF IInv, TypeOK, SlotsFit, LiveFits, TurnFits, Holding, Wakes, LivesFit, In, Out, Inside, Passing, Workers
<1>7. QED
  BY <1>1, <1>2, <1>3, <1>4, <1>5, <1>6 DEF Wakes

LEMMA LoadSpawnedWakes == ASSUME IInv, Wakes, LoadSpawned PROVE Wakes'
<1> USE ThreadFacts DEF LoadSpawned, At, Goto, Free, shared, execution, locals
<1>1. AsleepFit'
  BY DEF IInv, TypeOK, Wakes, AsleepFit
<1>2. SleepFits'
  BY DEF IInv, TypeOK, LocksFit, Locking, TurnFits, Holding, Wakes, SleepFits
<1>3. TurnComes'
  BY DEF IInv, TypeOK, TurnFits, Holding, Wakes, AsleepFit, SleepFits, TurnComes
<1>4. WorkComes'
  BY DEF IInv, TypeOK, TurnFits, Holding, Wakes, AsleepFit, WorkComes
<1>5. EndComes'
  BY DEF IInv, TypeOK, SlotsFit, DoneFits, Wakes, EndComes, Workers
<1>6. LivesFit'
  BY DEF IInv, TypeOK, SlotsFit, LiveFits, TurnFits, Holding, Wakes, LivesFit, In, Out, Inside, Passing, Workers
<1>7. QED
  BY <1>1, <1>2, <1>3, <1>4, <1>5, <1>6 DEF Wakes

LEMMA ParkMainWakes == ASSUME IInv, Wakes, ParkMain PROVE Wakes'
<1> USE ThreadFacts DEF ParkMain, At, Goto, Free, shared, execution, locals
<1>1. AsleepFit'
  BY DEF IInv, TypeOK, Wakes, AsleepFit
<1>2. SleepFits'
  BY DEF IInv, TypeOK, LocksFit, Locking, TurnFits, Holding, Wakes, SleepFits
<1>3. TurnComes'
  BY DEF IInv, TypeOK, TurnFits, Holding, Wakes, AsleepFit, SleepFits, TurnComes
<1>4. WorkComes'
  BY DEF IInv, TypeOK, TurnFits, Holding, Wakes, AsleepFit, WorkComes
<1>5. EndComes'
  BY DEF IInv, TypeOK, SlotsFit, DoneFits, Wakes, EndComes, Workers
<1>6. LivesFit'
  BY DEF IInv, TypeOK, SlotsFit, LiveFits, TurnFits, Holding, Wakes, LivesFit, In, Out, Inside, Passing, Workers
<1>7. QED
  BY <1>1, <1>2, <1>3, <1>4, <1>5, <1>6 DEF Wakes

LEMMA NextWakes == ASSUME IInv, Wakes, [Next]_vars PROVE Wakes'
<1>1. ASSUME NEW i \in Threads, Step(i) PROVE Wakes'
  BY <1>1, FetchWakes, LockTurnWakes, CheckTurnWakes, WaitTurnWakes, BranchWakes, FinishWakes,
     StoreTurnWakes, BarrierWakes, NotifyTurnWakes, SpawnThreadWakes, GiveWorkWakes,
     NotifyWorkWakes, BecomeIdleWakes, CountDoneWakes, CompareDoneWakes, UnparkMainWakes
     DEF Step
<1>2. ASSUME NEW i \in Threads, Spurious(i) PROVE Wakes'
  BY <1>2, SpuriousWakes
<1>3. CASE MainStep
  BY <1>3, StartWakes, LoadDoneWakes, LoadSpawnedWakes, ParkMainWakes DEF MainStep
<1>4. CASE UNCHANGED vars
  BY <1>4 DEF vars, Wakes, AsleepFit, SleepFits, TurnComes, WorkComes, EndComes, LivesFit, In
<1>5. QED
  BY <1>1, <1>2, <1>3, <1>4 DEF Next

-------------------------------------------------------------------------------
(* The theorems. *)

\* The invariant holds in every reachable state.
THEOREM Invariance == Spec => []IInv
BY InitIInv, NextIInv, PTL DEF Spec

\* The atomics, the slots, the mutexes and the Execution keep their types: `done`, among
\* them, never counts more workers than there are.
THEOREM TypeCorrectness == Spec => []TypeOK
BY Invariance, PTL DEF IInv

\* The "unexpected state" panics of std.rs are unreachable.
THEOREM PanicFreedom == Spec => []NoPanic
<1>1. IInv => NoPanic
  BY ThreadFacts DEF IInv, SlotsFit, NoPanic, Workers
<1>2. QED
  BY <1>1, Invariance, PTL

\* One simulated thread runs at a time, and it is the one the Execution chose.
THEOREM TurnExclusion == Spec => []OneRunning
<1>1. ASSUME IInv, NEW i \in Threads, pc[i] \in Holding
      PROVE  /\ pc[i] # "switch" => chosen = i
             /\ \A j \in Threads \ {i} : pc[j] \notin Holding
  <2>1. active_thread = i
    BY <1>1 DEF IInv, TurnFits
  <2>2. \A j \in Threads \ {i} : pc[j] \notin Holding
    BY <1>1, <2>1 DEF IInv, TurnFits
  <2>3. pc[i] # "switch" => i \in live
    BY <1>1 DEF IInv, LiveFits, In, Inside, Holding
  <2>4. QED
    BY <1>1, <2>1, <2>2, <2>3 DEF IInv, TurnFits
<1>2. IInv => OneRunning
  BY <1>1 DEF OneRunning
<1>3. QED
  BY <1>2, Invariance, PTL

\* `run` returns only when every thread of the iteration has ended and every worker has
\* given its slot back, though it learns of it from a counter and a park token.
THEOREM RunWaitsForAll == Spec => []ReturnsWhenDone
<1>1. IInv => ReturnsWhenDone
  BY DEF IInv, DoneFits, ReturnsWhenDone
<1>2. QED
  BY <1>1, Invariance, PTL

\* Both invariants, in every reachable state.
THEOREM Waking == Spec => [](IInv /\ Wakes)
<1>1. Init => IInv /\ Wakes
  BY InitIInv, InitWakes
<1>2. IInv /\ Wakes /\ [Next]_vars => (IInv /\ Wakes)'
  BY NextIInv, NextWakes
<1>3. QED
  BY <1>1, <1>2, PTL DEF Spec

\* Nobody sleeps through its turn, its closure or the end of the iteration: each check is
\* made with the mutex held that the notifier waits for first (std.rs acquire_lock, switch2,
\* spawn), and the last worker compares what it has counted (run_worker).
THEOREM NoWakeupLost == Spec => []NothingLost
<1>1. Wakes => NothingLost
  BY DEF Wakes, NothingLost
<1>2. QED
  BY <1>1, Waking, PTL

\* Whoever holds a mutex goes on, so nobody waits at one for ever.
LEMMA HolderGoesOn ==
  ASSUME IInv, Wakes, NEW i \in Threads, lock[i] # Nobody
  PROVE  lock[i] = i /\ ~Waits(i)
<1>1. lock[i] = i /\ pc[i] \in Locking
  BY DEF IInv, LocksFit
<1>2. QED
  BY <1>1 DEF Wakes, AsleepFit, Waits, Locking

\* A thread inside the scheduler's calls goes on, unless it sleeps until its turn, or
\* somebody else goes on.
LEMMA InsideGoesOn ==
  ASSUME IInv, Wakes, NEW i \in Threads, pc[i] \in (Inside \cup Passing \cup {"ended"}) \ {"turn"}
  PROVE  NeverStuck
<1>1. i \notin asleep
  BY DEF Wakes, AsleepFit, Inside, Passing
<1>2. CASE pc[i] \in {"barrier", "spawn"}
  <2>1. target[i].to \in Threads
    BY DEF IInv, TypeOK
  <2>2. CASE lock[target[i].to] # Nobody
    BY <2>1, <2>2, HolderGoesOn DEF NeverStuck
  <2>3. CASE lock[target[i].to] = Nobody
    BY <1>1, <1>2, <2>3 DEF NeverStuck, Waits, Free
  <2>4. QED
    BY <2>2, <2>3
<1>3. CASE pc[i] = "ended"
  BY <1>1, <1>3 DEF NeverStuck, Waits, Free, IInv, LocksFit, Locking
<1>4. CASE pc[i] \notin {"barrier", "spawn", "ended"}
  BY <1>1, <1>4 DEF NeverStuck, Waits, Inside, Passing
<1>5. QED
  BY <1>2, <1>3, <1>4

\* The threads never all wait for each other: whoever is waited for, as the holder of a
\* mutex or of the turn, or as the one to notify or to unpark, goes on, or waits itself for
\* one who does.
THEOREM DeadlockFreedom == Spec => []NeverStuck
<1>1. ASSUME IInv, Wakes, live # {} PROVE NeverStuck
  <2> DEFINE a == active_thread
  <2>1. a \in Threads
    BY <1>1 DEF IInv, TypeOK
  <2>2. CASE pc[a] = "switch"
    BY <1>1, <2>1, <2>2, InsideGoesOn DEF Passing
  <2>3. CASE pc[a] # "switch"
    <3>1. a \in live
      BY <1>1, <2>3 DEF IInv, TurnFits, Wakes, LivesFit
    <3>2. CASE pc[a] = "turn"
      <4>1. lock[a] = Nobody
        BY <1>1, <2>1, <3>2 DEF IInv, LocksFit, Locking
      <4>2. CASE a \notin asleep
        BY <2>1, <3>2, <4>1, <4>2 DEF NeverStuck, Waits, Free
      <4>3. CASE a \in asleep
        <5>1. PICK j \in Threads : pc[j] \in {"barrier", "notify"}
          BY <1>1, <3>2, <4>3 DEF Wakes, TurnComes
        <5>2. QED
          BY <1>1, <5>1, InsideGoesOn DEF Passing
      <4>4. QED
        BY <4>2, <4>3
    <3>3. CASE In(a) /\ pc[a] # "turn"
      BY <1>1, <2>1, <3>3, InsideGoesOn DEF In
    <3>4. CASE slot[a] = "Pending" /\ ~In(a)
      <4>0. pc[a] \in PCs /\ ~Out(a) /\ ~In(a)
        BY <1>1, <2>1, <3>1, <3>4 DEF IInv, TypeOK, LiveFits
      <4>a. pc[a] \notin {"count", "compare", "unpark", "panicked"}
        BY <1>1, <2>1, <3>4 DEF IInv, SlotsFit, Workers
      <4>1. pc[a] = "fetch" /\ lock[a] = Nobody
        BY <1>1, <2>1, <4>0, <4>a
           DEF IInv, PCs, LocksFit, Locking, In, Out, Inside, Passing
      <4>2. CASE a \notin asleep
        BY <2>1, <4>1, <4>2 DEF NeverStuck, Waits, Free
      <4>3. CASE a \in asleep
        <5>1. PICK j \in Threads : pc[j] = "spawned"
          BY <1>1, <3>4, <4>1, <4>3 DEF Wakes, WorkComes
        <5>2. QED
          BY <1>1, <5>1, InsideGoesOn DEF Inside
      <4>4. QED
        BY <4>2, <4>3
    <3>5. CASE \E j \in Threads : pc[j] = "spawn"
      BY <1>1, <3>5, InsideGoesOn DEF Inside
    <3>6. QED
      BY <1>1, <3>1, <3>2, <3>3, <3>4, <3>5 DEF Wakes, LivesFit
  <2>4. QED
    BY <2>2, <2>3
<1>2. ASSUME IInv, Wakes, live = {} PROVE NeverStuck
  <2>1. 0 \in Threads /\ (0 \in asleep => pc[0] \in {"fetch", "turn"})
    BY <1>2, ThreadFacts DEF Wakes, AsleepFit
  <2>2. pc[0] \in {"switch", "barrier", "notify", "ended", "join", "park", "returned"}
    BY <1>2, ThreadFacts DEF IInv, TypeOK, PCs, SlotsFit, LiveFits, In, Inside, Workers
  <2>3. CASE pc[0] \in {"switch", "barrier", "notify", "ended"}
    BY <1>2, <2>3, ThreadFacts, InsideGoesOn DEF Passing
  <2>4. CASE pc[0] \in {"join", "returned"} \/ (pc[0] = "park" /\ token)
    BY <2>1, <2>4, ThreadFacts DEF NeverStuck, Waits
  <2>5. CASE pc[0] = "park" /\ ~token
    <3>1. CASE Counted = Spawned
      <4>1. done + 1 = next_thread
        BY <1>2, <3>1, SpawnedCount DEF IInv, TypeOK, DoneFits
      <4>2. PICK w \in Workers : pc[w] \in {"unpark", "compare"}
        BY <1>2, <2>5, <4>1 DEF Wakes, EndComes
      <4>3. w \in Threads /\ w \notin asleep
        BY <1>2, <4>2 DEF Workers, Wakes, AsleepFit
      <4>4. QED
        BY <4>2, <4>3 DEF NeverStuck, Waits
    <3>2. CASE Counted # Spawned
      <4>1. PICK w \in Spawned : slot[w] = "Running" \/ pc[w] = "count"
        BY <1>2, <3>2 DEF Counted
      <4>2. w \in Threads /\ w \in Workers
        BY <1>2, <4>1, SpawnedFacts DEF IInv, Workers
      <4>3. CASE pc[w] = "count"
        BY <1>2, <4>2, <4>3 DEF NeverStuck, Waits, Wakes, AsleepFit
      <4>4. CASE slot[w] = "Running"
        <5>1. pc[w] \in (Inside \cup Passing \cup {"ended"})
          BY <1>2, <4>2, <4>4 DEF IInv, TypeOK, PCs, SlotsFit, Inside, Passing
        <5>2. pc[w] \notin Inside
          BY <1>2, <4>2 DEF IInv, LiveFits, In
        <5>3. QED
          BY <1>2, <4>2, <5>1, <5>2, InsideGoesOn DEF Inside
      <4>5. QED
        BY <4>1, <4>3, <4>4
    <3>3. QED
      BY <3>1, <3>2
  <2>6. QED
    BY <2>2, <2>3, <2>4, <2>5
<1>3. IInv /\ Wakes => NeverStuck
  BY <1>1, <1>2
<1>4. QED
  BY <1>3, Waking, PTL
===============================================================================
