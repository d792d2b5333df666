--------------------------- MODULE AtomicTaskClient ---------------------------
(***************************************************************************)
(* The protocol AtomicTask is made for, as src/fuzz/atomic-task/src/main.rs *)
(* plays it: producers change the application state (one Relaxed counter)   *)
(* and then call notify; the consumer calls register and then observes that *)
(* counter, sleeping until woken when it is not complete.  The consumer may *)
(* migrate: it is then polled as another task.                              *)
(*                                                                          *)
(* A Relaxed load may be stale.  Every operation on AtomicTask.state is a   *)
(* read-modify-write, so the word hands on all that was ever released into  *)
(* it: `published` is that, and `known` what the consumer has acquired.     *)
(***************************************************************************)
EXTENDS AtomicTask, Naturals

CONSTANTS Consumer,   \* the thread that registers
          Rounds,     \* how many times each producer produces
          Total       \* the number the consumer waits for

Producers == Threads \ {Consumer}

ASSUME ClientAssumption == Consumer \in Threads /\ Rounds \in Nat /\ Total \in Nat

VARIABLES num,        \* Chan.num
          produced,   \* what num was after each producer's last fetch_add
          left,       \* how many times each producer is still to produce
          announcing, \* the producers that have produced and not called notify yet
          published,  \* the latest num released into the word
          known,      \* the latest num the consumer has acquired from it
          phase,      \* where the consumer's poll is
          current,    \* the task the consumer is polled as
          seen        \* what the consumer last read of num

producerVars == <<num, produced, left, announcing>>
consumerVars == <<phase, current, seen>>
clientVars == <<vars, producerVars, consumerVars, published, known>>

ClientTypeOK ==
  /\ TypeOK
  /\ num \in 0..Total
  /\ produced \in [Producers -> 0..Total]
  /\ left \in [Producers -> 0..Rounds]
  /\ announcing \in SUBSET Producers
  /\ known \in 0..published /\ published \in 0..num
  /\ phase \in {"poll", "check", "asleep", "done"}
  /\ current \in Tasks
  /\ seen \in 0..num

ClientInit ==
  /\ Init
  /\ num = 0 /\ published = 0 /\ known = 0 /\ seen = 0
  /\ produced = [p \in Producers |-> 0]
  /\ left = [p \in Producers |-> Rounds]
  /\ announcing = {}
  /\ phase = "poll"
  /\ current \in Tasks

-------------------------------------------------------------------------------
\* chan.num.fetch_add(1, Relaxed)
Produce(p) ==
  /\ pc[p] = "idle" /\ p \notin announcing
  /\ left[p] > 0
  /\ num' = num + 1
  /\ produced' = [produced EXCEPT ![p] = num + 1]
  /\ left' = [left EXCEPT ![p] = @ - 1]
  /\ announcing' = announcing \cup {p}
  /\ UNCHANGED <<vars, consumerVars, published, known>>

\* chan.task.notify(): its fetch_or releases what the producer knows of num.
Announce(p) ==
  /\ p \in announcing
  /\ NotifyEnter(p)
  /\ announcing' = announcing \ {p}
  /\ published' = IF produced[p] > published THEN produced[p] ELSE published
  /\ UNCHANGED <<num, produced, left, consumerVars, known>>

\* chan.task.register(): its compare_and_swap acquires, whatever it finds.
ConsumerRegister ==
  /\ phase = "poll"
  /\ Register(Consumer, current)
  /\ known' = published
  /\ phase' = "check"
  /\ UNCHANGED <<producerVars, published, current, seen>>

\* chan.num.load(Relaxed): nothing older than what was acquired or read before.
\* Ready when it is the number waited for, NotReady otherwise.
Check ==
  /\ phase = "check" /\ pc[Consumer] = "idle"
  /\ seen' \in {n \in known..num : n >= seen}
  /\ phase' = IF seen' = Total THEN "done" ELSE "asleep"
  /\ UNCHANGED <<vars, producerVars, published, known, current>>

\* Mutant of Wake: the poll observes the counter without registering again.
MutWakeChecks ==
  /\ phase = "asleep" /\ Poll(current) /\ phase' = "check"
  /\ UNCHANGED <<producerVars, published, known, current, seen>>

\* The executor polls the consumer's task again because it was woken.
Wake ==
  /\ phase = "asleep"
  /\ Poll(current)
  /\ phase' = "poll"
  /\ UNCHANGED <<producerVars, published, known, current, seen>>

\* The consumer moves to another task, which polls it at once.
Migrate ==
  /\ phase = "asleep"
  /\ current' \in Tasks \ {current}
  /\ phase' = "poll"
  /\ UNCHANGED <<vars, producerVars, published, known, seen>>

\* The rest of a call; the end of register_task acquires again.
InsideCall(t) ==
  /\ Step(t)
  /\ known' = IF t = Consumer /\ pc[t] \in {"release", "swap"} THEN published ELSE known
  /\ UNCHANGED <<producerVars, consumerVars, published>>

Finished ==
  /\ phase = "done" /\ announcing = {} /\ \A p \in Producers : left[p] = 0
  /\ \A t \in Threads : pc[t] = "idle"
  /\ UNCHANGED clientVars

ClientNext ==
  \/ \E p \in Producers : Produce(p) \/ Announce(p)
  \/ ConsumerRegister \/ Check \/ Wake \/ Migrate
  \/ \E t \in Threads : InsideCall(t)
  \/ Finished

\* Threads are scheduled and a woken task is polled; nothing makes the
\* consumer migrate, and nothing makes a load read the latest value.
ClientSpec ==
  /\ ClientInit /\ [][ClientNext]_clientVars
  /\ \A p \in Producers :
       WF_clientVars(Produce(p)) /\ WF_clientVars(Announce(p))
  /\ \A t \in Threads : WF_clientVars(InsideCall(t))
  /\ WF_clientVars(ConsumerRegister) /\ WF_clientVars(Check) /\ WF_clientVars(Wake)

-------------------------------------------------------------------------------
\* Somebody has the consumer's task in hand to wake it, or has woken it.
WakeUnderWay ==
  current \in notified \/ \E t \in Threads : Due[t] = current

\* The race of atomic_task.rs:114-138: when the sleeping consumer has not
\* observed everything produced, its task is woken, or somebody is about to
\* wake it, or a producer that has not called notify yet will find it in the
\* cell.
NoLostWakeup ==
  phase = "asleep" /\ seen < num =>
    WakeUnderWay \/ (announcing # {} /\ Cell = current)

\* A registration made while nobody else registers is never dropped: after it
\* the consumer's task is in the cell, or being woken, or woken
\* (atomic_task.rs:171-178).
RegistrationStands ==
  phase = "check" /\ pc[Consumer] = "idle" => WakeUnderWay \/ Cell = current

\* The consumer observes everything produced, however stale its loads may be.
ConsumerFinishes == <>(phase = "done")
===============================================================================
