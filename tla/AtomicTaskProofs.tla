--------------------------- MODULE AtomicTaskProofs ---------------------------
(***************************************************************************)
(* For any number of threads and tasks: the lock of AtomicTask excludes,    *)
(* nothing panics, and the code implements WakerCell.                       *)
(* For any number of producers, tasks and rounds, of the protocol of        *)
(* AtomicTaskClient: no wakeup is lost between register and notify,         *)
(* whatever stale values the Relaxed loads return, and the counters stay in *)
(* their bounds.  The steps of AtomicTask enter the argument as the steps   *)
(* of WakerCell they implement.                                             *)
(***************************************************************************)
EXTENDS AtomicTaskClient, FiniteSetTheorems, TLAPS

-------------------------------------------------------------------------------
(* The inductive invariant. *)

LEMMA InitIInv == Init => IInv
BY NoneAssumption
   DEF Init, IInv, TypeOK, WordTellsSection, OneSection, Contents, NoPanic,
       Registering, Notifying, PCs, MaybeTask, WAITING, REGISTERING, NOTIFYING

USE DEF WAITING, REGISTERING, NOTIFYING

\* The words in which REGISTERING is set.
LEMMA WordWithRegistering ==
  ASSUME NEW w \in SUBSET {REGISTERING, NOTIFYING}, REGISTERING \in w
  PROVE  w \in {{REGISTERING}, {REGISTERING, NOTIFYING}}
<1>1. CASE NOTIFYING \in w
  <2>1. w = {REGISTERING, NOTIFYING}
    BY <1>1
  <2>2. QED
    BY <2>1
<1>2. CASE NOTIFYING \notin w
  <2>1. w = {REGISTERING}
    BY <1>2
  <2>2. QED
    BY <2>1
<1>3. QED
  BY <1>1, <1>2

\* Every variable keeps its type.
LEMMA NextTypeOK == ASSUME IInv, [Next]_vars PROVE TypeOK'
<1> USE NoneAssumption DEF IInv, TypeOK, PCs, MaybeTask
<1>1. ASSUME NEW t \in Threads, Step(t) PROVE TypeOK'
  BY <1>1, ZenonT(60) DEF Step, Store, Release, Take, Swap, Deliver, NotifyTake, NotifyRelease,
              Goto, Hold, Contents
<1>2. ASSUME NEW t \in Threads, NotifyEnter(t) PROVE TypeOK'
  BY <1>2 DEF NotifyEnter, Goto
<1>3. ASSUME NEW t \in Threads, NEW tk \in Tasks, Register(t, tk) PROVE TypeOK'
  BY <1>3, ZenonT(60) DEF Register, RegisterWin, RegisterBounce, RegisterLose, Goto, Hold, vars
<1>4. ASSUME NEW tk \in Tasks, Poll(tk) PROVE TypeOK'
  BY <1>4 DEF Poll
<1>5. CASE UNCHANGED vars
  BY <1>5 DEF vars
<1>6. QED
  BY <1>1, <1>2, <1>3, <1>4, <1>5 DEF Next

LEMMA NextIInv == ASSUME IInv, [Next]_vars PROVE IInv'
<1>1. TypeOK'
  BY NextTypeOK
<1> USE NoneAssumption, <1>1
        DEF IInv, TypeOK, PCs, MaybeTask, WordTellsSection, OneSection, Contents, NoPanic,
            Registering, Notifying
<1>2. ASSUME NEW t \in Threads, NEW tk \in Tasks, RegisterWin(t, tk) PROVE IInv'
  BY <1>2 DEF RegisterWin, Goto, Hold
<1>3. ASSUME NEW t \in Threads, NEW tk \in Tasks, RegisterBounce(t, tk) PROVE IInv'
  BY <1>3 DEF RegisterBounce, Goto, Hold
<1>4. ASSUME NEW t \in Threads, RegisterLose(t) PROVE IInv'
  BY <1>4 DEF RegisterLose, vars
<1>5. ASSUME NEW t \in Threads, Store(t) PROVE IInv'
  BY <1>5 DEF Store, Goto, Hold
<1>6. ASSUME NEW t \in Threads, Release(t) PROVE IInv'
  <2>1. CASE state = {REGISTERING}
    BY <1>6, <2>1 DEF Release, Goto
  <2>2. CASE state # {REGISTERING}
    <3>1. state = {REGISTERING, NOTIFYING}
      <4>1. state \in SUBSET {REGISTERING, NOTIFYING} /\ REGISTERING \in state
        BY <1>6 DEF Release
      <4>2. QED
        BY <4>1, <2>2, WordWithRegistering
    <3>2. UNCHANGED <<state, task, hand, notified>> /\ pc' = [pc EXCEPT ![t] = "take"]
      BY <1>6, <2>2, <3>1 DEF Release, Goto
    <3>3. pc[t] = "release"
      BY <1>6 DEF Release
    <3>4. WordTellsSection'
      BY <3>1, <3>2, <3>3
    <3>5. OneSection'
      BY <3>2, <3>3
    <3>6. Contents' /\ NoPanic'
      BY <3>2, <3>3
    <3>7. QED
      BY <3>4, <3>5, <3>6
  <2>3. QED
    BY <2>1, <2>2
<1>7. ASSUME NEW t \in Threads, Take(t) PROVE IInv'
  BY <1>7 DEF Take, Goto, Hold
<1>8. ASSUME NEW t \in Threads, Swap(t) PROVE IInv'
  BY <1>8 DEF Swap, Goto
<1>9. ASSUME NEW t \in Threads, Deliver(t) PROVE IInv'
  BY <1>9 DEF Deliver, Goto, Hold
<1>10. ASSUME NEW t \in Threads, NotifyEnter(t) PROVE IInv'
  <2> USE <1>10 DEF NotifyEnter, Goto
  <2>1. CASE state = WAITING
    <3>1. \A u \in Threads : ~Registering(u) /\ ~Notifying(u)
      BY <2>1
    <3>2. state' = {NOTIFYING} /\ pc' = [pc EXCEPT ![t] = "ntake"]
      BY <2>1
    <3>3. QED
      BY <3>1, <3>2
  <2>2. CASE state # WAITING
    <3>1. pc' = [pc EXCEPT ![t] = "idle"] /\ pc' = pc
      BY <2>2
    <3>2. state = {NOTIFYING} => state' = {NOTIFYING}
      OBVIOUS
    <3>3. REGISTERING \in state' <=> REGISTERING \in state
      OBVIOUS
    <3>4. NOTIFYING \in state'
      OBVIOUS
    <3>5. WordTellsSection'
      BY <3>1, <3>2, <3>3, <3>4
    <3>6. OneSection' /\ Contents' /\ NoPanic'
      BY <3>1, <3>3
    <3>7. QED
      BY <3>5, <3>6
  <2>3. QED
    BY <2>1, <2>2
<1>11. ASSUME NEW t \in Threads, NotifyTake(t) PROVE IInv'
  BY <1>11 DEF NotifyTake, Goto, Hold
<1>12. ASSUME NEW t \in Threads, NotifyRelease(t) PROVE IInv'
  BY <1>12 DEF NotifyRelease, Goto
<1>13. ASSUME NEW tk \in Tasks, Poll(tk) PROVE IInv'
  BY <1>13 DEF Poll
<1>14. CASE UNCHANGED vars
  BY <1>14 DEF vars
<1>15. QED
  BY <1>2, <1>3, <1>4, <1>5, <1>6, <1>7, <1>8, <1>9, <1>10, <1>11, <1>12, <1>13, <1>14
     DEF Next, Step, Register

\* The invariant holds in every reachable state.
THEOREM Invariance == Spec => []IInv
BY InitIInv, NextIInv, PTL DEF Spec

\* The word, the task cell and the local state of every call keep their types.
THEOREM TypeCorrectness == Spec => []TypeOK
BY Invariance, PTL DEF IInv

\* No two threads are ever about to access the task cell (atomic_task.rs:65-68).
THEOREM MutualExclusion == Spec => []CellExclusive
<1>1. IInv => CellExclusive
  BY DEF IInv, OneSection, CellExclusive, InCell, Registering, Notifying
<1>2. QED
  BY <1>1, Invariance, PTL

\* The assertion at atomic_task.rs:208 and the unwrap at line 212 never fail.
THEOREM PanicFreedom == Spec => []NoPanic
BY Invariance, PTL DEF IInv

-------------------------------------------------------------------------------
(* The code implements the abstract cell. *)

\* The abstract cell, without the choice in its definition.
CellValue ==
  /\ NOTIFYING \in state => Cell = None
  /\ NOTIFYING \notin state =>
       /\ \A t \in Threads : pc[t] = "store" => Cell = hand[t]
       /\ (\A t \in Threads : pc[t] # "store") => Cell = task

LEMMA CellHasValue == OneSection => CellValue
<1> SUFFICES ASSUME OneSection PROVE CellValue
  OBVIOUS
<1>1. ASSUME NEW t \in Threads, pc[t] = "store"
      PROVE  (CHOOSE u \in Threads : pc[u] = "store") = t
  <2>1. \A u \in Threads : pc[u] = "store" => u = t
    BY <1>1 DEF OneSection, Registering
  <2>2. QED
    BY <1>1, <2>1
<1>2. QED
  BY <1>1 DEF CellValue, Cell

LEMMA CellHasValueNext == OneSection' => CellValue'
BY CellHasValue, PTL

\* One thread's step changes what that thread is due at most.
LEMMA DueChange ==
  ASSUME NEW t \in Threads, NEW d,
         DueOf(t)' = d,
         \A u \in Threads : u # t => DueOf(u)' = DueOf(u)
  PROVE  Due' = [Due EXCEPT ![t] = d]
BY DEF Due

LEMMA DueSame ==
  ASSUME \A u \in Threads : DueOf(u)' = DueOf(u)
  PROVE  Due' = Due
BY DEF Due

LEMMA InitRefines == Init => WC!Init
BY DEF Init, WC!Init, Cell, Due, DueOf

LEMMA StutterRefines == UNCHANGED vars => UNCHANGED WC!vars
BY DEF vars, WC!vars, Cell, Due, DueOf

\* A call of register_task replaces the task, or bounces, or is dropped.
LEMMA RegisterRefines ==
  ASSUME IInv, IInv', NEW t \in Threads, NEW tk \in Tasks, Register(t, tk)
  PROVE  WC!Register(tk) \/ WC!Bounce(t, tk) \/ (REGISTERING \in state /\ UNCHANGED vars)
<1>c. CellValue /\ CellValue'
  BY CellHasValue, CellHasValueNext DEF IInv
<1> USE NoneAssumption, <1>c
        DEF IInv, TypeOK, PCs, MaybeTask, WordTellsSection, OneSection, Contents, NoPanic,
            Registering, Notifying, CellValue
<1>1. CASE RegisterWin(t, tk)
  <2>1. Cell' = tk
    BY <1>1 DEF RegisterWin, Goto, Hold
  <2>2. Due' = Due
    BY <1>1, DueSame DEF RegisterWin, Goto, Hold, DueOf
  <2>3. QED
    BY <1>1, <2>1, <2>2 DEF RegisterWin, WC!Register
<1>2. CASE RegisterBounce(t, tk)
  <2>1. Cell = None /\ Cell' = None
    BY <1>2 DEF RegisterBounce
  <2>2. Due[t] = None
    BY <1>2 DEF RegisterBounce, Due, DueOf
  <2>3. Due' = [Due EXCEPT ![t] = tk]
    BY <1>2, DueChange DEF RegisterBounce, Goto, Hold, DueOf
  <2>4. QED
    BY <1>2, <2>1, <2>2, <2>3 DEF RegisterBounce, WC!Bounce
<1>3. CASE RegisterLose(t)
  BY <1>3 DEF RegisterLose
<1>4. QED
  BY <1>1, <1>2, <1>3 DEF Register

\* The later steps of a call do nothing to the abstract cell but deliver.
LEMMA CallRefines ==
  ASSUME IInv, IInv', NEW t \in Threads, Step(t)
  PROVE  WC!Deliver(t) \/ UNCHANGED WC!vars
<1>c. CellValue /\ CellValue'
  BY CellHasValue, CellHasValueNext DEF IInv
<1> USE NoneAssumption, <1>c
        DEF IInv, TypeOK, PCs, MaybeTask, WordTellsSection, OneSection, Contents, NoPanic,
            Registering, Notifying, CellValue
<1>1. CASE Store(t)
  <2>1. Cell' = Cell
    BY <1>1 DEF Store, Goto, Hold
  <2>2. Due' = Due
    BY <1>1, DueSame DEF Store, Goto, Hold, DueOf
  <2>3. QED
    BY <1>1, <2>1, <2>2 DEF Store, WC!vars
<1>2. CASE Release(t)
  <2>1. pc'[t] \in {"idle", "take"}
    BY <1>2 DEF Release, Goto
  <2>2. Cell' = Cell
    BY <1>2 DEF Release, Goto
  <2>3. Due' = Due
    BY <1>2, <2>1, DueSame DEF Release, Goto, DueOf
  <2>4. QED
    BY <1>2, <2>2, <2>3 DEF Release, WC!vars
<1>3. CASE Take(t)
  <2>1. Cell' = Cell
    BY <1>3 DEF Take
  <2>2. Due' = Due
    BY <1>3, DueSame DEF Take, Goto, Hold, DueOf
  <2>3. QED
    BY <1>3, <2>1, <2>2 DEF Take, WC!vars
<1>4. CASE Swap(t)
  <2>1. Cell' = Cell
    BY <1>4 DEF Swap, Goto
  <2>2. Due' = Due
    BY <1>4, DueSame DEF Swap, Goto, DueOf
  <2>3. QED
    BY <1>4, <2>1, <2>2 DEF Swap, WC!vars
<1>5. CASE Deliver(t)
  <2>1. Cell' = Cell
    BY <1>5 DEF Deliver, Goto, Hold
  <2>2. Due[t] = hand[t] /\ hand[t] # None
    BY <1>5 DEF Deliver, Due, DueOf
  <2>3. Due' = [Due EXCEPT ![t] = None]
    BY <1>5, DueChange DEF Deliver, Goto, Hold, DueOf
  <2>4. QED
    BY <1>5, <2>1, <2>2, <2>3 DEF Deliver, WC!Deliver
<1>6. CASE NotifyTake(t)
  <2>1. Cell' = Cell
    BY <1>6 DEF NotifyTake
  <2>2. Due' = Due
    BY <1>6, DueSame DEF NotifyTake, Goto, Hold, DueOf
  <2>3. QED
    BY <1>6, <2>1, <2>2 DEF NotifyTake, WC!vars
<1>7. CASE NotifyRelease(t)
  <2>1. Cell' = Cell
    BY <1>7 DEF NotifyRelease, Goto
  <2>2. Due' = Due
    BY <1>7, DueSame DEF NotifyRelease, Goto, DueOf
  <2>3. QED
    BY <1>7, <2>1, <2>2 DEF NotifyRelease, WC!vars
<1>8. QED
  BY <1>1, <1>2, <1>3, <1>4, <1>5, <1>6, <1>7 DEF Step

\* A notify that finds a task makes one thread responsible for waking it.
LEMMA NotifyRefines ==
  ASSUME IInv, IInv', NEW t \in Threads, NotifyEnter(t)
  PROVE  (\E u \in Threads : WC!Notify(u)) \/ (Cell = None /\ UNCHANGED WC!vars)
<1>c. CellValue /\ CellValue'
  BY CellHasValue, CellHasValueNext DEF IInv
<1> USE NoneAssumption, <1>c
        DEF IInv, TypeOK, PCs, MaybeTask, WordTellsSection, OneSection, Contents, NoPanic,
            Registering, Notifying, CellValue
<1>1. CASE state = WAITING
  <2>1. Cell = task /\ Cell' = None /\ Due[t] = None
    BY <1>1 DEF NotifyEnter, Due, DueOf
  <2>2. Due' = [Due EXCEPT ![t] = task]
    BY <1>1, DueChange DEF NotifyEnter, Goto, DueOf
  <2>3. CASE task = None
    BY <2>1, <2>2, <2>3, ZenonT(60) DEF NotifyEnter, WC!vars, Due
  <2>4. CASE task # None
    BY <2>1, <2>2, <2>4 DEF NotifyEnter, WC!Notify
  <2>5. QED
    BY <2>3, <2>4
<1>2. CASE state = {REGISTERING}
  <2>1. PICK h \in Threads : Registering(h)
    BY <1>2
  <2>2. pc[h] \in {"store", "release"} /\ h # t /\ pc' = pc
    BY <1>2, <2>1 DEF NotifyEnter, Goto
  <2>3. Cell # None /\ Cell' = None /\ Due[h] = None
    BY <1>2, <2>2 DEF NotifyEnter, Due, DueOf
  <2>4. Due' = [Due EXCEPT ![h] = Cell]
    BY <1>2, <2>2, DueChange DEF NotifyEnter, DueOf
  <2>5. QED
    BY <2>3, <2>4 DEF NotifyEnter, WC!Notify
<1>3. CASE NOTIFYING \in state
  <2>1. UNCHANGED vars
    BY <1>3 DEF NotifyEnter, Goto, vars
  <2>2. Cell = None
    BY <1>3
  <2>3. QED
    BY <2>1, <2>2, StutterRefines
<1>4. state = WAITING \/ state = {REGISTERING} \/ NOTIFYING \in state
  <2>1. CASE REGISTERING \in state
    BY <2>1, WordWithRegistering
  <2>2. CASE REGISTERING \notin state /\ NOTIFYING \notin state
    <3>1. \A b : b \notin state
      BY <2>2
    <3>2. QED
      BY <3>1
  <2>3. QED
    BY <2>1, <2>2
<1>5. QED
  BY <1>1, <1>2, <1>3, <1>4

LEMMA StepRefines == ASSUME IInv, IInv', [Next]_vars PROVE [WC!Next]_(WC!vars)
<1>1. ASSUME NEW t \in Threads, NEW tk \in Tasks, Register(t, tk)
      PROVE  WC!Register(tk) \/ WC!Bounce(t, tk) \/ UNCHANGED vars
  BY <1>1, RegisterRefines
<1>2. ASSUME NEW t \in Threads, Step(t) PROVE WC!Deliver(t) \/ UNCHANGED WC!vars
  BY <1>2, CallRefines
<1>3. ASSUME NEW t \in Threads, NotifyEnter(t)
      PROVE  (\E u \in Threads : WC!Notify(u)) \/ UNCHANGED WC!vars
  BY <1>3, NotifyRefines
<1>4. ASSUME NEW tk \in Tasks, Poll(tk) PROVE WC!Poll(tk)
  BY <1>4 DEF Poll, WC!Poll, Cell, Due, DueOf
<1>5. QED
  BY <1>1, <1>2, <1>3, <1>4, StutterRefines DEF Next, WC!Next

\* Seen from outside its two locks, AtomicTask is a cell whose register, notify
\* and delivery are atomic.
THEOREM Refinement == Spec => ImplementsWakerCell
<1>1. IInv /\ IInv' /\ [Next]_vars => [WC!Next]_(WC!vars)
  BY StepRefines
<1>2. QED
  BY InitRefines, Invariance, <1>1, PTL DEF Spec, WC!Spec, ImplementsWakerCell

-------------------------------------------------------------------------------
(* The protocol around it.  Its inductive invariant. *)

\* Nobody but the consumer registers, so no registration of its is dropped.
OnlyConsumer == \A p \in Producers : ~Registering(p)

\* What has been produced and not released into the word is still to be announced.
Accounted ==
  /\ num \in Nat /\ published \in Nat
  /\ produced \in [Producers -> Nat]
  /\ announcing \in SUBSET Producers
  /\ \A p \in Producers \ announcing : produced[p] <= published
  /\ num = 0 \/ \E p \in Producers : produced[p] = num

\* A consumer that has registered will be woken, or is in the cell and has
\* acquired all that was released into the word.
Waiting ==
  /\ known \in Nat /\ seen \in Nat
  /\ current \in Tasks
  /\ phase \in {"poll", "check", "asleep", "done"}
  /\ phase \in {"check", "asleep"} =>
       WakeUnderWay \/ (Cell = current /\ known = published)
  /\ phase = "asleep" => known <= seen /\ pc[Consumer] = "idle"

ClientIInv == IInv /\ OnlyConsumer /\ Accounted /\ Waiting

LEMMA ProducersAreThreads == Producers \subseteq Threads /\ Consumer \notin Producers
BY DEF Producers

LEMMA ClientInitIInv == ClientInit => ClientIInv
<1> SUFFICES ASSUME ClientInit PROVE ClientIInv
  OBVIOUS
<1>1. IInv
  BY InitIInv DEF ClientInit
<1>2. OnlyConsumer
  BY ProducersAreThreads DEF OnlyConsumer, Registering, ClientInit, Init
<1>3. Accounted
  BY DEF Accounted, ClientInit
<1>4. Waiting
  BY DEF Waiting, ClientInit
<1>5. QED
  BY <1>1, <1>2, <1>3, <1>4 DEF ClientIInv

-------------------------------------------------------------------------------
(* What the abstract cell does for the consumer. *)

LEMMA DueIsFunction == Due = [t \in Threads |-> Due[t]]
BY DEF Due

\* No step of a call takes the consumer's task away from those who will wake it.
LEMMA CallKeepsWake ==
  ASSUME NEW t \in Threads, WC!Deliver(t) \/ UNCHANGED WC!vars, current' = current,
         WakeUnderWay \/ Cell = current
  PROVE  WakeUnderWay' \/ (Cell' = current' /\ Cell = current /\ ~WakeUnderWay)
<1>1. CASE UNCHANGED WC!vars
  BY <1>1 DEF WC!vars, WakeUnderWay
<1>2. CASE WC!Deliver(t)
  <2>1. /\ notified' = notified \cup {Due[t]}
        /\ Due' = [Due EXCEPT ![t] = None]
        /\ Cell' = Cell
    BY <1>2 DEF WC!Deliver
  <2>2. ASSUME NEW u \in Threads, Due[u] = current PROVE WakeUnderWay'
    <3>1. CASE u = t
      BY <2>1, <2>2, <3>1 DEF WakeUnderWay
    <3>2. CASE u # t
      <4>1. Due'[u] = Due[u]
        BY <2>1, <3>2, DueIsFunction
      <4>2. QED
        BY <4>1, <2>2 DEF WakeUnderWay
    <3>3. QED
      BY <3>1, <3>2
  <2>3. current \in notified => WakeUnderWay'
    BY <2>1 DEF WakeUnderWay
  <2>4. QED
    BY <2>1, <2>2, <2>3 DEF WakeUnderWay
<1>3. QED
  BY <1>1, <1>2

\* A notify that finds the consumer in the cell makes somebody wake it.
LEMMA NotifyWakes ==
  ASSUME \/ \E u \in Threads : WC!Notify(u)
         \/ Cell = None /\ UNCHANGED WC!vars,
         current' = current, current \in Tasks,
         WakeUnderWay \/ Cell = current
  PROVE  WakeUnderWay'
<1>1. CASE Cell = None /\ UNCHANGED WC!vars
  BY <1>1, NoneAssumption DEF WC!vars, WakeUnderWay
<1>2. ASSUME NEW u \in Threads, WC!Notify(u) PROVE WakeUnderWay'
  <2>1. /\ Due[u] = None
        /\ Due' = [Due EXCEPT ![u] = Cell]
        /\ notified' = notified
    BY <1>2 DEF WC!Notify
  <2>2. Due'[u] = Cell
    BY <2>1, DueIsFunction
  <2>3. ASSUME NEW v \in Threads, Due[v] = current PROVE Due'[v] = current
    BY <2>1, <2>3, DueIsFunction, NoneAssumption
  <2>4. QED
    BY <2>1, <2>2, <2>3 DEF WakeUnderWay
<1>3. QED
  BY <1>1, <1>2

-------------------------------------------------------------------------------
(* Each step of the client preserves the invariant. *)

\* What OnlyConsumer needs of a step.
LEMMA OnlyConsumerKept ==
  ASSUME OnlyConsumer, TypeOK, NEW t \in Threads,
         \A u \in Threads : u # t => pc'[u] = pc[u],
         t = Consumer \/ pc'[t] = pc[t] \/ pc'[t] \notin {"store", "release", "take", "swap"}
  PROVE  OnlyConsumer'
BY ProducersAreThreads DEF OnlyConsumer, Registering

LEMMA ProduceKeeps ==
  ASSUME ClientIInv, NEW p \in Producers, Produce(p)
  PROVE  ClientIInv'
<1>1. IInv'
  BY NextIInv DEF ClientIInv, Produce
<1>2. OnlyConsumer'
  BY DEF ClientIInv, OnlyConsumer, Registering, Produce, vars
<1>3. Accounted'
  BY DEF ClientIInv, Accounted, Produce
<1>4. UNCHANGED <<vars, phase, current, seen, known, published>>
  BY DEF Produce, consumerVars
<1>5. UNCHANGED <<Cell, Due, notified, pc>>
  BY <1>4, StutterRefines DEF WC!vars, vars
<1>6. Waiting'
  BY <1>4, <1>5 DEF ClientIInv, Waiting, WakeUnderWay
<1>7. QED
  BY <1>1, <1>2, <1>3, <1>6 DEF ClientIInv

LEMMA AnnounceKeeps ==
  ASSUME ClientIInv, NEW p \in Producers, Announce(p)
  PROVE  ClientIInv'
<1>1. p \in Threads /\ p # Consumer /\ NotifyEnter(p)
  BY ProducersAreThreads DEF Announce
<1>2. IInv'
  BY <1>1, NextIInv DEF ClientIInv, Next
<1>3. pc' = [pc EXCEPT ![p] = IF state = WAITING THEN "ntake" ELSE "idle"]
  BY <1>1 DEF NotifyEnter, Goto
<1>4. pc \in [Threads -> PCs]
  BY DEF ClientIInv, IInv, TypeOK
<1>5. OnlyConsumer'
  BY <1>1, <1>3, <1>4, OnlyConsumerKept DEF ClientIInv, IInv
<1>6. Accounted'
  BY DEF ClientIInv, Accounted, Announce
<1>7. UNCHANGED <<phase, current, seen, known>>
  BY DEF Announce, consumerVars
<1>8. phase \in {"check", "asleep"} => WakeUnderWay'
  <2>1. phase \in {"check", "asleep"} => WakeUnderWay \/ Cell = current
    BY DEF ClientIInv, Waiting
  <2>2. (\E u \in Threads : WC!Notify(u)) \/ (Cell = None /\ UNCHANGED WC!vars)
    BY <1>1, <1>2, NotifyRefines DEF ClientIInv
  <2>3. current \in Tasks
    BY DEF ClientIInv, Waiting
  <2>4. QED
    BY <1>7, <2>1, <2>2, <2>3, NotifyWakes
<1>9. pc'[Consumer] = pc[Consumer]
  BY <1>1, <1>3, <1>4, ClientAssumption
<1>10. Waiting'
  BY <1>7, <1>8, <1>9 DEF ClientIInv, Waiting
<1>11. QED
  BY <1>2, <1>5, <1>6, <1>10 DEF ClientIInv

\* Nobody else registers, so the consumer's call wins the lock or bounces.
LEMMA ConsumerRegisterKeeps ==
  ASSUME ClientIInv, ConsumerRegister
  PROVE  ClientIInv'
<1>1. /\ Register(Consumer, current)
      /\ known' = published /\ phase' = "check"
      /\ UNCHANGED <<num, produced, announcing, published, current, seen>>
  BY DEF ConsumerRegister, producerVars
<1>2. current \in Tasks /\ Consumer \in Threads
  BY ClientAssumption DEF ClientIInv, Waiting
<1>3. IInv'
  BY <1>1, <1>2, NextIInv DEF ClientIInv, Next
<1>4. /\ pc \in [Threads -> PCs]
      /\ pc[Consumer] = "idle"
      /\ \A u \in Threads : u # Consumer => pc'[u] = pc[u]
  BY <1>1 DEF Register, RegisterWin, RegisterBounce, RegisterLose, Goto, vars,
              ClientIInv, IInv, TypeOK
<1>5. OnlyConsumer'
  BY <1>2, <1>4, OnlyConsumerKept DEF ClientIInv, IInv
<1>6. Accounted'
  BY <1>1 DEF ClientIInv, Accounted
<1>7. REGISTERING \notin state
  BY <1>4 DEF ClientIInv, IInv, OneSection, OnlyConsumer, Registering, Producers
<1>8. WC!Register(current) \/ WC!Bounce(Consumer, current)
  BY <1>1, <1>2, <1>3, <1>7, RegisterRefines DEF ClientIInv
<1>9. CASE WC!Register(current)
  BY <1>1, <1>2, <1>3, <1>5, <1>6, <1>9 DEF WC!Register, ClientIInv, Accounted, Waiting
<1>10. CASE WC!Bounce(Consumer, current)
  <2>1. Due' = [Due EXCEPT ![Consumer] = current]
    BY <1>10 DEF WC!Bounce
  <2>2. Due'[Consumer] = current'
    BY <1>1, <1>2, <2>1, DueIsFunction
  <2>3. WakeUnderWay'
    BY <1>2, <2>2 DEF WakeUnderWay
  <2>4. QED
    BY <1>1, <1>2, <1>3, <1>5, <1>6, <2>3 DEF ClientIInv, Accounted, Waiting
<1>11. QED
  BY <1>8, <1>9, <1>10

LEMMA CheckKeeps ==
  ASSUME ClientIInv, Check
  PROVE  ClientIInv'
<1>1. /\ phase = "check" /\ pc[Consumer] = "idle"
      /\ seen' \in known..num /\ phase' \in {"done", "asleep"}
      /\ UNCHANGED <<vars, num, produced, announcing, published, known, current>>
  BY DEF Check, producerVars
<1>2. IInv'
  BY <1>1, NextIInv DEF ClientIInv
<1>3. OnlyConsumer' /\ Accounted'
  BY <1>1 DEF ClientIInv, OnlyConsumer, Registering, Accounted, vars
<1>4. UNCHANGED <<Cell, Due, notified, pc>>
  BY <1>1, StutterRefines DEF WC!vars, vars
<1>5. known \in Nat /\ num \in Nat
  BY DEF ClientIInv, Waiting, Accounted
<1>6. seen' \in Nat /\ known <= seen'
  BY <1>1, <1>5
<1>7. Waiting'
  BY <1>1, <1>4, <1>6 DEF ClientIInv, Waiting, WakeUnderWay
<1>8. QED
  BY <1>2, <1>3, <1>7 DEF ClientIInv

LEMMA WakeKeeps ==
  ASSUME ClientIInv, Wake
  PROVE  ClientIInv'
<1>1. /\ Poll(current) /\ phase' = "poll"
      /\ UNCHANGED <<num, produced, announcing, published, known, current, seen>>
  BY DEF Wake, producerVars
<1>2. current \in Tasks
  BY DEF ClientIInv, Waiting
<1>3. IInv'
  BY <1>1, <1>2, NextIInv DEF ClientIInv, Next
<1>4. OnlyConsumer' /\ Accounted'
  BY <1>1 DEF ClientIInv, OnlyConsumer, Registering, Accounted, Poll
<1>5. Waiting'
  BY <1>1 DEF ClientIInv, Waiting
<1>6. QED
  BY <1>3, <1>4, <1>5 DEF ClientIInv

LEMMA MigrateKeeps ==
  ASSUME ClientIInv, Migrate
  PROVE  ClientIInv'
<1>1. /\ current' \in Tasks /\ phase' = "poll"
      /\ UNCHANGED <<vars, num, produced, announcing, published, known, seen>>
  BY DEF Migrate, producerVars
<1>2. IInv'
  BY <1>1, NextIInv DEF ClientIInv
<1>3. OnlyConsumer' /\ Accounted'
  BY <1>1 DEF ClientIInv, OnlyConsumer, Registering, Accounted, vars
<1>4. Waiting'
  BY <1>1 DEF ClientIInv, Waiting
<1>5. QED
  BY <1>2, <1>3, <1>4 DEF ClientIInv

\* A producer inside a call never enters register_task; the consumer's own call
\* only acquires more of what was released.
LEMMA InsideCallKeeps ==
  ASSUME ClientIInv, NEW t \in Threads, InsideCall(t)
  PROVE  ClientIInv'
<1>1. /\ Step(t) /\ known' \in {known, published}
      /\ t # Consumer => known' = known
      /\ UNCHANGED <<num, produced, announcing, published, phase, current, seen>>
  BY DEF InsideCall, producerVars, consumerVars
<1>2. IInv'
  BY <1>1, NextIInv DEF ClientIInv, Next
<1>3. /\ pc \in [Threads -> PCs]
      /\ pc[t] # "idle"
      /\ \A u \in Threads : u # t => pc'[u] = pc[u]
      /\ ~Registering(t) => pc'[t] \notin {"store", "release", "take", "swap"}
  BY <1>1 DEF Step, Store, Release, Take, Swap, Deliver, NotifyTake, NotifyRelease, Goto,
              Registering, ClientIInv, IInv, TypeOK
<1>4. t = Consumer \/ ~Registering(t)
  BY DEF ClientIInv, OnlyConsumer, Producers
<1>5. OnlyConsumer'
  BY <1>3, <1>4, OnlyConsumerKept DEF ClientIInv, IInv
<1>6. Accounted'
  BY <1>1 DEF ClientIInv, Accounted
<1>7. phase = "asleep" => known' = known /\ pc'[Consumer] = "idle"
  BY <1>1, <1>3, ClientAssumption DEF ClientIInv, Waiting
<1>8. WC!Deliver(t) \/ UNCHANGED WC!vars
  BY <1>1, <1>2, CallRefines DEF ClientIInv
<1>9. phase \in {"check", "asleep"} =>
        WakeUnderWay' \/ (Cell' = current' /\ known' = published')
  <2>1. phase \in {"check", "asleep"} =>
          WakeUnderWay \/ (Cell = current /\ known = published)
    BY DEF ClientIInv, Waiting
  <2>2. QED
    BY <1>1, <1>8, <2>1, CallKeepsWake
<1>10. known' \in Nat
  BY <1>1 DEF ClientIInv, Accounted, Waiting
<1>11. Waiting'
  BY <1>1, <1>7, <1>9, <1>10 DEF ClientIInv, Waiting
<1>12. QED
  BY <1>2, <1>5, <1>6, <1>11 DEF ClientIInv

LEMMA StutterKeeps ==
  ASSUME ClientIInv, UNCHANGED clientVars
  PROVE  ClientIInv'
<1>1. UNCHANGED <<vars, num, produced, announcing, published, known, phase, current, seen>>
  BY DEF clientVars, producerVars, consumerVars
<1>2. IInv'
  BY <1>1, NextIInv DEF ClientIInv
<1>3. UNCHANGED <<Cell, Due, notified, pc>>
  BY <1>1, StutterRefines DEF WC!vars, vars
<1>4. OnlyConsumer' /\ Accounted' /\ Waiting'
  BY <1>1, <1>3 DEF ClientIInv, OnlyConsumer, Registering, Accounted, Waiting, WakeUnderWay
<1>5. QED
  BY <1>2, <1>4 DEF ClientIInv

LEMMA ClientNextIInv == ClientIInv /\ [ClientNext]_clientVars => ClientIInv'
BY ProduceKeeps, AnnounceKeeps, ConsumerRegisterKeeps, CheckKeeps, WakeKeeps,
   MigrateKeeps, InsideCallKeeps, StutterKeeps
   DEF ClientNext, Finished

-------------------------------------------------------------------------------
(* The theorems. *)

\* The invariant holds in every reachable state of the protocol.
THEOREM ClientInvariance == ClientSpec => []ClientIInv
BY ClientInitIInv, ClientNextIInv, PTL DEF ClientSpec

\* A registration made while nobody else registers is never dropped
\* (atomic_task.rs:171-178).
THEOREM RegistrationsStand == ClientSpec => []RegistrationStands
<1>1. ClientIInv => RegistrationStands
  BY DEF ClientIInv, Waiting, RegistrationStands
<1>2. QED
  BY <1>1, ClientInvariance, PTL

\* A consumer that sleeps on a stale value is woken, or about to be, or still
\* has a producer that will find it in the cell (atomic_task.rs:114-138).
THEOREM WakeupsKept == ClientSpec => []NoLostWakeup
<1>1. ASSUME ClientIInv, phase = "asleep", seen < num, ~WakeUnderWay
      PROVE  announcing # {} /\ Cell = current
  <2>1. Cell = current /\ known = published /\ known <= seen
    BY <1>1 DEF ClientIInv, Waiting
  <2>2. /\ num \in Nat /\ published \in Nat /\ seen \in Nat
        /\ produced \in [Producers -> Nat]
    BY <1>1 DEF ClientIInv, Accounted, Waiting
  <2>3. PICK p \in Producers : produced[p] = num
    BY <1>1, <2>2 DEF ClientIInv, Accounted
  <2>4. ~(produced[p] <= published)
    BY <1>1, <2>1, <2>2, <2>3
  <2>5. p \in announcing
    BY <1>1, <2>3, <2>4 DEF ClientIInv, Accounted
  <2>6. QED
    BY <2>1, <2>5
<1>2. ClientIInv => NoLostWakeup
  BY <1>1 DEF NoLostWakeup
<1>3. QED
  BY <1>2, ClientInvariance, PTL

-------------------------------------------------------------------------------
(* The bounds of the counters. *)

\* The rounds that are still to be produced, one by one.
Todo == {x \in Producers \X (1 .. Rounds) : x[2] <= left[x[1]]}

\* The counter and the rounds to come make no more than Total; nobody has published,
\* acquired or read more than there is.
Counted ==
  /\ left \in [Producers -> 0 .. Rounds]
  /\ num + Cardinality(Todo) <= Total
  /\ \A p \in Producers : produced[p] <= num
  /\ known <= published /\ published <= num /\ seen <= num

LEMMA TodoFacts ==
  ASSUME IsFiniteSet(Threads)
  PROVE  /\ IsFiniteSet(Producers \X (1 .. Rounds))
         /\ Cardinality(Producers \X (1 .. Rounds)) = Rounds * Cardinality(Producers)
         /\ IsFiniteSet(Todo) /\ Cardinality(Todo) \in Nat
<1>1. IsFiniteSet(Producers) /\ Cardinality(Producers) \in Nat
  BY ProducersAreThreads, FS_Subset, FS_CardinalityType
<1>2. Rounds \in Nat /\ IsFiniteSet(1 .. Rounds) /\ Cardinality(1 .. Rounds) = Rounds
  <2>1. Rounds \in Nat
    BY ClientAssumption
  <2>2. /\ IsFiniteSet(1 .. Rounds)
        /\ Cardinality(1 .. Rounds) = IF 1 > Rounds THEN 0 ELSE Rounds - 1 + 1
    BY <2>1, FS_Interval
  <2>3. QED
    BY <2>1, <2>2
<1>3. /\ IsFiniteSet(Producers \X (1 .. Rounds))
      /\ Cardinality(Producers \X (1 .. Rounds)) = Cardinality(Producers) * Rounds
  BY <1>1, <1>2, FS_Product
<1>4. IsFiniteSet(Todo) /\ Cardinality(Todo) \in Nat
  <2>1. Todo \subseteq Producers \X (1 .. Rounds)
    BY DEF Todo
  <2>2. QED
    BY <1>3, <2>1, FS_Subset, FS_CardinalityType
<1>5. Rounds * Cardinality(Producers) = Cardinality(Producers) * Rounds
  BY <1>1, <1>2
<1>6. QED
  BY <1>3, <1>4, <1>5

LEMMA CountedInit ==
  ASSUME IsFiniteSet(Threads), Rounds * Cardinality(Producers) <= Total, ClientInit
  PROVE  Counted
<1>1. Todo = Producers \X (1 .. Rounds)
  BY ClientAssumption DEF ClientInit, Todo
<1>2. num = 0 /\ Cardinality(Todo) = Rounds * Cardinality(Producers)
  BY <1>1, TodoFacts DEF ClientInit
<1>3. num + Cardinality(Todo) <= Total
  BY <1>2, TodoFacts
<1>4. QED
  BY <1>3, ClientAssumption DEF ClientInit, Counted

\* A producer that produces has a round less to produce.
LEMMA ProduceCounted ==
  ASSUME IsFiniteSet(Threads), ClientIInv, Counted, NEW p \in Producers, Produce(p)
  PROVE  Counted'
<1>1. /\ left[p] > 0 /\ num' = num + 1 /\ produced' = [produced EXCEPT ![p] = num + 1]
      /\ left' = [left EXCEPT ![p] = left[p] - 1]
      /\ UNCHANGED <<known, published, seen>>
  BY DEF Produce, consumerVars
<1>2. /\ num \in Nat /\ published \in Nat /\ known \in Nat /\ seen \in Nat
      /\ produced \in [Producers -> Nat] /\ Rounds \in Nat
  BY ClientAssumption DEF ClientIInv, Accounted, Waiting
<1>3. left[p] \in 1 .. Rounds
  BY <1>1, <1>2 DEF Counted
<1>4. left' \in [Producers -> 0 .. Rounds]
  BY <1>1, <1>2, <1>3 DEF Counted
<1>5. Todo' = Todo \ {<<p, left[p]>>} /\ <<p, left[p]>> \in Todo
  <2>1. <<p, left[p]>> \in Todo
    BY <1>3 DEF Todo
  <2>2. ASSUME NEW r \in Producers, NEW i \in 1 .. Rounds
        PROVE  i <= left'[r] <=> i <= left[r] /\ <<r, i>> # <<p, left[p]>>
    <3>1. CASE r = p
      BY <1>1, <1>2, <1>3, <3>1 DEF Counted
    <3>2. CASE r # p
      BY <1>1, <3>2 DEF Counted
    <3>3. QED
      BY <3>1, <3>2
  <2>3. ASSUME NEW x \in Producers \X (1 .. Rounds)
        PROVE  x[2] <= left'[x[1]] <=> x[2] <= left[x[1]] /\ x # <<p, left[p]>>
    <3>1. x[1] \in Producers /\ x[2] \in 1 .. Rounds /\ x = <<x[1], x[2]>>
      OBVIOUS
    <3>2. QED
      BY <2>2, <3>1
  <2>4. QED
    BY <2>1, <2>3 DEF Todo
<1>6. Cardinality(Todo') = Cardinality(Todo) - 1
  BY <1>5, TodoFacts, FS_RemoveElement
<1>7. num' + Cardinality(Todo') <= Total
  BY <1>1, <1>2, <1>6, TodoFacts, ClientAssumption DEF Counted
<1>8. \A r \in Producers : produced'[r] <= num'
  BY <1>1, <1>2 DEF Counted
<1>9. known' <= published' /\ published' <= num' /\ seen' <= num'
  BY <1>1, <1>2 DEF Counted
<1>10. QED
  BY <1>4, <1>7, <1>8, <1>9 DEF Counted

LEMMA NextCounted ==
  ASSUME IsFiniteSet(Threads), ClientIInv, Counted, [ClientNext]_clientVars
  PROVE  Counted'
<1>1. /\ num \in Nat /\ published \in Nat /\ known \in Nat /\ seen \in Nat
      /\ produced \in [Producers -> Nat]
  BY DEF ClientIInv, Accounted, Waiting
<1>2. ASSUME NEW p \in Producers, Announce(p) PROVE Counted'
  <2>1. UNCHANGED <<num, produced, left, known, seen>> /\ published' \in {produced[p], published}
    BY <1>2 DEF Announce, consumerVars
  <2>2. Todo' = Todo
    BY <2>1 DEF Todo
  <2>3. published' <= num /\ known <= published'
    BY <1>1, <1>2 DEF Announce, Counted
  <2>4. QED
    BY <2>1, <2>2, <2>3 DEF Counted
<1>3. ASSUME UNCHANGED <<num, produced, left, published>>, known' \in {known, published},
             seen' \in Nat, seen' <= num
      PROVE  Counted'
  <2>1. Todo' = Todo
    BY <1>3 DEF Todo
  <2>2. known' <= published
    BY <1>1, <1>3 DEF Counted
  <2>3. QED
    BY <1>3, <2>1, <2>2 DEF Counted
<1>4. seen <= num
  BY DEF Counted
<1>5. CASE ConsumerRegister
  BY <1>1, <1>3, <1>4, <1>5 DEF ConsumerRegister, producerVars
<1>6. CASE Check
  <2>1. /\ seen' \in known .. num /\ UNCHANGED <<num, produced, left, published, known>>
    BY <1>6 DEF Check, producerVars
  <2>2. seen' \in Nat /\ seen' <= num
    BY <1>1, <2>1
  <2>3. QED
    BY <1>3, <2>1, <2>2
<1>7. CASE Wake \/ Migrate
  BY <1>1, <1>3, <1>4, <1>7 DEF Wake, Migrate, producerVars
<1>8. ASSUME NEW t \in Threads, InsideCall(t) PROVE Counted'
  BY <1>1, <1>3, <1>4, <1>8 DEF InsideCall, producerVars, consumerVars
<1>9. CASE UNCHANGED clientVars
  BY <1>1, <1>3, <1>4, <1>9 DEF clientVars, producerVars, consumerVars
<1>10. QED
  BY <1>2, <1>5, <1>6, <1>7, <1>8, <1>9, ProduceCounted DEF ClientNext, Finished

\* When Total is no less than what the producers produce, as in the harness: num stays
\* within it, and nobody releases, acquires or reads more of it than there is.
THEOREM ClientTypeCorrect ==
  ASSUME IsFiniteSet(Threads), Rounds * Cardinality(Producers) <= Total
  PROVE  ClientSpec => []ClientTypeOK
<1>1. ClientInit => Counted
  BY CountedInit
<1>2. ClientIInv /\ Counted /\ [ClientNext]_clientVars => Counted'
  BY NextCounted
<1>3. ClientIInv /\ Counted => ClientTypeOK
  <2> SUFFICES ASSUME ClientIInv, Counted PROVE ClientTypeOK
    OBVIOUS
  <2>1. /\ num \in Nat /\ published \in Nat /\ known \in Nat /\ seen \in Nat
        /\ produced \in [Producers -> Nat] /\ Total \in Nat /\ Cardinality(Todo) \in Nat
    BY ClientAssumption, TodoFacts DEF ClientIInv, Accounted, Waiting
  <2>2. num \in 0 .. Total /\ published \in 0 .. num /\ known \in 0 .. published /\ seen \in 0 .. num
    BY <2>1 DEF Counted
  <2>3. produced \in [Producers -> 0 .. Total]
    BY <2>1, <2>2 DEF Counted
  <2>4. QED
    BY <2>2, <2>3 DEF ClientIInv, IInv, Accounted, Waiting, Counted, ClientTypeOK
<1>4. QED
  BY <1>1, <1>2, <1>3, ClientInvariance, PTL DEF ClientSpec
===============================================================================
