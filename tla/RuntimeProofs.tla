----------------------------- MODULE RuntimeProofs -----------------------------
(***************************************************************************)
(* For any number of threads and mutexes: the simulated Mutex excludes, the *)
(* engine's own unwraps and borrows fail in no thread, and a thread is      *)
(* blocked exactly while what it waits for has not happened; but for the    *)
(* threads that a Task::notify finds in a blocking call, of which it is     *)
(* proved how far the harm goes.                                            *)
(***************************************************************************)
EXTENDS Runtime, Integers, TLAPS

-------------------------------------------------------------------------------
(* The inductive invariant. *)

Blocking == {"lock", "parked", "recv", "await"}

\* The thread that runs is runnable, and only it may be in its program: any other
\* that seems to be has not begun.
ActiveFits ==
  /\ verdict = "running" => active \in Threads /\ state[active] = "Runnable"
  /\ \A t \in Threads \ {active} : pc[t] = "client" => operation[t] = None

\* What the state of a thread says of where it is.
StateFits ==
  \A t \in Threads :
    /\ state[t] = "Blocked" => pc[t] \in Blocking
    /\ state[t] = "Yield" => pc[t] = "branch"
    /\ state[t] = "Absent" => pc[t] = "client" /\ handle[t] = None /\ rx[t] = None
    /\ sent[t] => state[t] = "Terminated"

\* A thread in a blocking call may be picked although what it waits for has not
\* happened.
Misled(t) == state[t] = "Runnable" /\ t \in misled

\* A thread at the branch point of lock is blocked exactly while the mutex is
\* owned, unless it is misled; no other thread that is not running seems to be
\* about to lock.
LockFits ==
  \A t \in Threads :
    /\ pc[t] = "lock" =>
         /\ obj[t] \in Mutexes /\ operation[t] = obj[t]
         /\ owner[obj[t]] = None => state[t] = "Runnable"
         /\ owner[obj[t]] # None => state[t] = "Blocked" \/ Misled(t)
    /\ operation[t] # None => pc[t] = "lock" \/ t = active

GuardsFit ==
  /\ MutexExclusion
  /\ \A t \in Threads : pc[t] = "wait" => obj[t] \in Mutexes /\ t \in guards[obj[t]]

\* The queue of the condition variable holds the parked threads that have not been
\* notified, once each, and besides these only misled threads, which may have gone
\* on without leaving it.
QueueFits ==
  /\ \A i, j \in 1 .. Len(waiters) :
       waiters[i] = waiters[j] => i = j \/ waiters[i] \in misled
  /\ \A i \in 1 .. Len(waiters) : pc[waiters[i]] = "parked" \/ waiters[i] \in misled
  /\ \A t \in Threads :
       pc[t] = "parked" =>
         /\ obj[t] \in Mutexes
         /\ state[t] = "Runnable" \/ \E i \in 1 .. Len(waiters) : waiters[i] = t
         /\ \A i \in 1 .. Len(waiters) :
              waiters[i] = t => state[t] = "Blocked" \/ Misled(t)

\* A thread in recv is the receiver of the one it joins, blocked until that sends
\* unless it is misled.
JoinFits ==
  \A t \in Threads :
    /\ pc[t] = "recv" =>
         /\ obj[t] \in Threads
         /\ rx[obj[t]] = t /\ handle[obj[t]] = None
         /\ sent[obj[t]] => state[t] = "Runnable"
         /\ ~sent[obj[t]] => state[t] = "Blocked" \/ Misled(t)
    /\ rx[t] # None /\ ~sent[t] => pc[rx[t]] = "recv" /\ obj[rx[t]] = t

IInv ==
  /\ TypeOK /\ NoPanic /\ ActiveFits /\ StateFits
  /\ LockFits /\ GuardsFit /\ QueueFits /\ JoinFits

-------------------------------------------------------------------------------
(* What every step rests on. *)

\* Any runnable thread may be next; the program ends, or is stuck, when none is.
LEMMA ScheduleFacts ==
  ASSUME NEW st, Schedule(st)
  PROVE  /\ state' = st
         /\ \/ active' \in Threads /\ st[active'] = "Runnable" /\ verdict' = verdict
            \/ active' = None /\ verdict' \in {"deadlock", "finished"}
BY DEF Schedule

LEMMA RunsFacts ==
  ASSUME IInv, NEW t \in Threads, NEW label, Runs(t, label)
  PROVE  /\ verdict = "running" /\ active = t /\ pc[t] = label
         /\ state[t] = "Runnable" /\ ~sent[t]
BY DEF IInv, ActiveFits, StateFits, Runs

LEMMA InitIInv == Init => IInv
<1> SUFFICES ASSUME Init PROVE IInv
  OBVIOUS
<1>1. TypeOK
  BY ThreadsAssumption DEF Init, TypeOK, PCs, Alive
<1>2. NoPanic /\ ActiveFits /\ StateFits
  BY ThreadsAssumption DEF Init, NoPanic, ActiveFits, StateFits, Blocking
<1>3. LockFits /\ GuardsFit /\ JoinFits
  BY ThreadsAssumption DEF Init, LockFits, GuardsFit, MutexExclusion, JoinFits
<1>4. QueueFits
  BY DEF Init, QueueFits
<1>5. QED
  BY <1>1, <1>2, <1>3, <1>4 DEF IInv

-------------------------------------------------------------------------------
(* Each step of a thread preserves the invariant. *)

LEMMA AtomicKeeps ==
  ASSUME IInv, NEW t \in Threads, Atomic(t)
  PROVE  IInv'
<1>1. /\ active = t /\ pc[t] = "client" /\ state[t] = "Runnable" /\ verdict = "running"
  BY RunsFacts DEF Atomic
<1>2. /\ pc' = [pc EXCEPT ![t] = "branch"]
      /\ operation' = [operation EXCEPT ![t] = None]
      /\ obj' = [obj EXCEPT ![t] = None]
      /\ state' = state
      /\ UNCHANGED <<notified, misled, owner, guards, waiters, rx, sent, handle>>
  BY ScheduleFacts DEF Atomic, Call, joins, notes, Become
<1>3. \/ active' \in Threads /\ state'[active'] = "Runnable" /\ verdict' = "running"
      \/ active' = None /\ verdict' \in {"deadlock", "finished"}
  BY <1>1, <1>2, ScheduleFacts DEF Atomic, Call, Become
<1>4. TypeOK'
  BY <1>1, <1>2, <1>3, ThreadsAssumption DEF IInv, TypeOK, PCs, Alive
<1>5. NoPanic'
  BY <1>1, <1>2, <1>3, ThreadsAssumption DEF IInv, NoPanic, TypeOK
<1>6. ActiveFits'
  BY <1>1, <1>2, <1>3, ThreadsAssumption DEF IInv, ActiveFits, TypeOK
<1>7. StateFits'
  BY <1>1, <1>2, <1>3, ThreadsAssumption DEF IInv, StateFits, Blocking, TypeOK
<1>8. LockFits'
  BY <1>1, <1>2, <1>3, ThreadsAssumption DEF Misled, IInv, LockFits, TypeOK
<1>9. GuardsFit'
  BY <1>1, <1>2, <1>3, ThreadsAssumption DEF IInv, GuardsFit, MutexExclusion, TypeOK
<1>10. QueueFits'
  BY <1>1, <1>2, <1>3, ThreadsAssumption DEF Misled, IInv, QueueFits, TypeOK
<1>11. JoinFits'
  BY <1>1, <1>2, <1>3, ThreadsAssumption DEF Misled, IInv, JoinFits, TypeOK
<1>12. QED
  BY <1>4, <1>5, <1>6, <1>7, <1>8, <1>9, <1>10, <1>11 DEF IInv

LEMMA YieldNowKeeps ==
  ASSUME IInv, NEW t \in Threads, YieldNow(t)
  PROVE  IInv'
<1>1. /\ active = t /\ pc[t] = "client" /\ state[t] = "Runnable" /\ verdict = "running"
  BY RunsFacts DEF YieldNow
<1>2. /\ pc' = [pc EXCEPT ![t] = "branch"]
      /\ operation' = [operation EXCEPT ![t] = None]
      /\ obj' = [obj EXCEPT ![t] = None]
      /\ state' = [state EXCEPT ![t] = "Yield"]
      /\ UNCHANGED <<notified, misled, owner, guards, waiters, rx, sent, handle>>
  BY ScheduleFacts DEF YieldNow, Call, joins, notes, Become
<1>3. \/ active' \in Threads /\ state'[active'] = "Runnable" /\ verdict' = "running"
      \/ active' = None /\ verdict' \in {"deadlock", "finished"}
  BY <1>1, <1>2, ScheduleFacts DEF YieldNow, Call, Become
<1>4. TypeOK'
  BY <1>1, <1>2, <1>3, ThreadsAssumption DEF IInv, TypeOK, PCs, Alive
<1>5. NoPanic'
  BY <1>1, <1>2, <1>3, ThreadsAssumption DEF IInv, NoPanic, TypeOK
<1>6. ActiveFits'
  BY <1>1, <1>2, <1>3, ThreadsAssumption DEF IInv, ActiveFits, TypeOK
<1>7. StateFits'
  BY <1>1, <1>2, <1>3, ThreadsAssumption DEF IInv, StateFits, Blocking, TypeOK
<1>8. LockFits'
  BY <1>1, <1>2, <1>3, ThreadsAssumption DEF Misled, IInv, LockFits, TypeOK
<1>9. GuardsFit'
  BY <1>1, <1>2, <1>3, ThreadsAssumption DEF IInv, GuardsFit, MutexExclusion, TypeOK
<1>10. QueueFits'
  BY <1>1, <1>2, <1>3, ThreadsAssumption DEF Misled, IInv, QueueFits, TypeOK
<1>11. JoinFits'
  BY <1>1, <1>2, <1>3, ThreadsAssumption DEF Misled, IInv, JoinFits, TypeOK
<1>12. QED
  BY <1>4, <1>5, <1>6, <1>7, <1>8, <1>9, <1>10, <1>11 DEF IInv

LEMMA ResumeKeeps ==
  ASSUME IInv, NEW t \in Threads, Resume(t)
  PROVE  IInv'
<1>1. /\ active = t /\ pc[t] \in {"branch", "join", "await"} /\ state[t] = "Runnable"
  BY RunsFacts DEF Resume
<1>2. /\ pc' = [pc EXCEPT ![t] = "client"] /\ obj' = [obj EXCEPT ![t] = None]
      /\ UNCHANGED <<state, operation, notified, misled, active, verdict, owner, guards, waiters,
                    rx, sent, handle>>
  BY DEF Resume, Return, sched, joins, notes
<1>3. TypeOK'
  BY <1>1, <1>2, ThreadsAssumption DEF IInv, TypeOK, PCs, Alive
<1>4. NoPanic'
  BY <1>1, <1>2, ThreadsAssumption DEF IInv, NoPanic, TypeOK
<1>5. ActiveFits'
  BY <1>1, <1>2, ThreadsAssumption DEF IInv, ActiveFits, TypeOK
<1>6. StateFits'
  BY <1>1, <1>2, ThreadsAssumption DEF IInv, StateFits, Blocking, TypeOK
<1>7. LockFits'
  BY <1>1, <1>2, ThreadsAssumption DEF Misled, IInv, LockFits, TypeOK
<1>8. GuardsFit'
  BY <1>1, <1>2, ThreadsAssumption DEF IInv, GuardsFit, MutexExclusion, TypeOK
<1>9. QueueFits'
  BY <1>1, <1>2, ThreadsAssumption DEF Misled, IInv, QueueFits, TypeOK
<1>10. JoinFits'
  BY <1>1, <1>2, ThreadsAssumption DEF Misled, IInv, JoinFits, TypeOK
<1>11. QED
  BY <1>3, <1>4, <1>5, <1>6, <1>7, <1>8, <1>9, <1>10 DEF IInv

LEMMA LockKeeps ==
  ASSUME IInv, NEW t \in Threads, Lock(t)
  PROVE  IInv'
<1>1. active = t /\ pc[t] = "client" /\ state[t] = "Runnable" /\ verdict = "running"
  BY RunsFacts DEF Lock
<1>2. PICK m \in Mutexes :
        /\ Acquire(t, m)
        /\ UNCHANGED <<notified, misled, owner, guards, waiters, rx, sent, handle>>
  BY DEF Lock, joins, notes
<1>3. /\ pc' = [pc EXCEPT ![t] = "lock"]
      /\ operation' = [operation EXCEPT ![t] = m]
      /\ obj' = [obj EXCEPT ![t] = m]
      /\ state' = IF owner[m] # None THEN [state EXCEPT ![t] = "Blocked"] ELSE state
  BY <1>2, ScheduleFacts DEF Acquire, Call, Become
<1>4. \/ active' \in Threads /\ state'[active'] = "Runnable" /\ verdict' = "running"
      \/ active' = None /\ verdict' \in {"deadlock", "finished"}
  BY <1>1, <1>2, <1>3, ScheduleFacts DEF Acquire, Call
<1>5. TypeOK'
  BY <1>1, <1>2, <1>3, <1>4, ThreadsAssumption DEF IInv, TypeOK, PCs, Alive
<1>6. NoPanic'
  BY <1>1, <1>2, <1>3, <1>4, ThreadsAssumption DEF IInv, NoPanic, TypeOK
<1>7. ActiveFits'
  BY <1>1, <1>2, <1>3, <1>4, ThreadsAssumption DEF IInv, ActiveFits, TypeOK
<1>8. StateFits'
  BY <1>1, <1>2, <1>3, <1>4, ThreadsAssumption DEF IInv, StateFits, Blocking, TypeOK
<1>9. LockFits'
  BY <1>1, <1>2, <1>3, <1>4, ThreadsAssumption DEF Misled, IInv, LockFits, TypeOK
<1>10. GuardsFit'
  BY <1>1, <1>2, <1>3, <1>4, ThreadsAssumption DEF IInv, GuardsFit, MutexExclusion, TypeOK
<1>11. QueueFits'
  BY <1>1, <1>2, <1>3, <1>4, ThreadsAssumption DEF Misled, IInv, QueueFits, TypeOK
<1>12. JoinFits'
  BY <1>1, <1>2, <1>3, <1>4, ThreadsAssumption DEF Misled, IInv, JoinFits, TypeOK
<1>13. QED
  BY <1>5, <1>6, <1>7, <1>8, <1>9, <1>10, <1>11, <1>12 DEF IInv

LEMMA LockedKeeps ==
  ASSUME IInv, NEW t \in Threads, Locked(t)
  PROVE  IInv'
<1>1. active = t /\ pc[t] = "lock" /\ state[t] = "Runnable" /\ verdict = "running"
  BY RunsFacts DEF Locked
<1>2. /\ obj[t] \in Mutexes /\ operation[t] = obj[t]
      /\ guards[obj[t]] = IF owner[obj[t]] = None THEN {} ELSE {owner[obj[t]]}
      /\ owner[obj[t]] # None => t \in misled
  BY <1>1 DEF IInv, LockFits, Misled, GuardsFit, MutexExclusion
<1>3. /\ state' = [u \in Threads |-> IF u # t /\ operation[u] = obj[t] THEN "Blocked" ELSE state[u]]
      /\ owner' = [owner EXCEPT ![obj[t]] = t]
      /\ pc' = [pc EXCEPT ![t] = "client"] /\ obj' = [obj EXCEPT ![t] = None]
      /\ UNCHANGED <<operation, notified, misled, active, waiters, rx, sent, handle>>
  BY DEF Locked, SetAll, Contenders, Return, joins, notes
<1>4. \/ /\ owner[obj[t]] = None /\ guards' = [guards EXCEPT ![obj[t]] = {t}]
         /\ verdict' = "running"
      \/ t \in misled /\ UNCHANGED guards /\ verdict' = "panicked"
  BY <1>1, <1>2 DEF Locked
<1>5. \A u \in Threads :
        /\ u # t /\ operation[u] = obj[t] =>
             pc[u] = "lock" /\ obj[u] = obj[t] /\ state[u] \in {"Runnable", "Blocked"}
        /\ u = t \/ operation[u] # obj[t] => state'[u] = state[u]
  BY <1>1, <1>2, <1>3, ThreadsAssumption DEF IInv, LockFits, Misled
<1>6. TypeOK'
  BY <1>1, <1>2, <1>3, <1>4, ThreadsAssumption DEF IInv, TypeOK, PCs, Alive
<1>7. NoPanic'
  BY <1>1, <1>3, <1>4 DEF NoPanic
<1>8. ActiveFits'
  BY <1>1, <1>2, <1>3, <1>4, <1>5, ThreadsAssumption DEF IInv, ActiveFits, TypeOK
<1>9. StateFits'
  BY <1>1, <1>2, <1>3, <1>5 DEF IInv, StateFits, Blocking, TypeOK
<1>10. LockFits'
  BY <1>1, <1>2, <1>3, <1>5, ThreadsAssumption DEF IInv, LockFits, Misled, TypeOK
<1>11. GuardsFit'
  <2>1. /\ guards \in [Mutexes -> SUBSET Threads] /\ owner \in [Mutexes -> Threads \cup {None}]
        /\ \A l \in Mutexes : guards[l] = IF owner[l] = None THEN {} ELSE {owner[l]}
    BY <1>1 DEF IInv, TypeOK, GuardsFit, MutexExclusion
  <2>2. guards'[obj[t]] = {t} \/ (verdict' = "panicked" /\ t \in misled')
    BY <1>2, <1>3, <1>4, <2>1
  <2>3. \A l \in Mutexes \ {obj[t]} : guards'[l] = guards[l] /\ owner'[l] = owner[l]
    BY <1>3, <1>4, <2>1
  <2>4. MutexExclusion'
    BY <1>2, <1>3, <2>1, <2>2, <2>3, ThreadsAssumption DEF MutexExclusion
  <2>5. \A u \in Threads : pc'[u] = "wait" => obj'[u] \in Mutexes /\ u \in guards'[obj'[u]]
    BY <1>1, <1>2, <1>3, <1>4, <2>1, ThreadsAssumption DEF IInv, GuardsFit, TypeOK
  <2>6. QED
    BY <2>4, <2>5 DEF GuardsFit
<1>12. QueueFits'
  <2>1. \A u \in Threads : pc'[u] = "parked" => /\ pc[u] = "parked" /\ obj'[u] = obj[u]
                                                /\ state'[u] = state[u]
    BY <1>1, <1>3, <1>5 DEF IInv, TypeOK
  <2>2. \A u \in Threads : pc[u] = "parked" => pc'[u] = "parked"
    BY <1>1, <1>3 DEF IInv, TypeOK
  <2>3. \A i \in 1 .. Len(waiters) : waiters[i] \in Threads
    BY DEF IInv, TypeOK
  <2>4. QED
    BY <1>3, <2>1, <2>2, <2>3 DEF IInv, QueueFits, Misled
<1>13. JoinFits'
  BY <1>1, <1>2, <1>3, <1>5, ThreadsAssumption DEF IInv, JoinFits, Misled, TypeOK
<1>14. QED
  BY <1>6, <1>7, <1>8, <1>9, <1>10, <1>11, <1>12, <1>13 DEF IInv

LEMMA UnlockKeeps ==
  ASSUME IInv, NEW t \in Threads, Unlock(t)
  PROVE  IInv'
<1>1. active = t /\ pc[t] = "client" /\ state[t] = "Runnable" /\ verdict = "running"
  BY RunsFacts DEF Unlock
<1>2. PICK m \in Mutexes :
        /\ t \in guards[m]
        /\ guards' = [guards EXCEPT ![m] = @ \ {t}]
        /\ owner' = [owner EXCEPT ![m] = None]
        /\ state' = [u \in Threads |-> IF u # t /\ operation[u] = m THEN "Runnable" ELSE state[u]]
        /\ UNCHANGED <<operation, notified, misled, active, verdict, waiters, rx, sent,
                       handle, pc, obj>>
  BY DEF Unlock, SetAll, Contenders, sched, joins, notes
<1>3. guards[m] = {t} /\ owner[m] = t
  BY <1>1, <1>2, ThreadsAssumption DEF IInv, GuardsFit, MutexExclusion, TypeOK
<1>4. \A u \in Threads : u # t /\ operation[u] = m => pc[u] = "lock" /\ obj[u] = m
  BY <1>1, <1>2, ThreadsAssumption DEF Misled, IInv, LockFits
<1>5. TypeOK'
  BY <1>1, <1>2, <1>3, <1>4, ThreadsAssumption DEF IInv, TypeOK, PCs, Alive
<1>6. NoPanic'
  BY <1>1, <1>2, <1>3, <1>4, ThreadsAssumption DEF IInv, NoPanic, TypeOK
<1>7. ActiveFits'
  BY <1>1, <1>2, <1>3, <1>4, ThreadsAssumption DEF IInv, ActiveFits, TypeOK
<1>8. StateFits'
  BY <1>1, <1>2, <1>3, <1>4, ThreadsAssumption
     DEF Misled, IInv, StateFits, LockFits, Blocking, TypeOK
<1>9. LockFits'
  BY <1>1, <1>2, <1>3, <1>4, ThreadsAssumption DEF Misled, IInv, LockFits, TypeOK
<1>10. GuardsFit'
  <2>1. MutexExclusion'
    <3>1. /\ guards \in [Mutexes -> SUBSET Threads] /\ owner \in [Mutexes -> Threads \cup {None}]
          /\ \A l \in Mutexes : guards[l] = IF owner[l] = None THEN {} ELSE {owner[l]}
      BY <1>1 DEF IInv, TypeOK, GuardsFit, MutexExclusion
    <3>2. guards'[m] = IF owner'[m] = None THEN {} ELSE {owner'[m]}
      BY <1>1, <1>2, <1>3, <1>4, <3>1, ThreadsAssumption
    <3>3. \A l \in Mutexes \ {m} : guards'[l] = guards[l] /\ owner'[l] = owner[l]
      BY <1>1, <1>2, <1>3, <1>4, <3>1
    <3>4. QED
      BY <3>1, <3>2, <3>3 DEF MutexExclusion
  <2>2. \A u \in Threads : pc'[u] = "wait" => obj'[u] \in Mutexes /\ u \in guards'[obj'[u]]
    BY <1>1, <1>2, <1>3, <1>4, ThreadsAssumption DEF IInv, GuardsFit, MutexExclusion, TypeOK
  <2>3. QED
    BY <2>1, <2>2 DEF GuardsFit
<1>11. QueueFits'
  BY <1>1, <1>2, <1>3, <1>4, ThreadsAssumption DEF Misled, IInv, QueueFits, TypeOK
<1>12. JoinFits'
  BY <1>1, <1>2, <1>3, <1>4, ThreadsAssumption DEF Misled, IInv, JoinFits, TypeOK
<1>13. QED
  BY <1>5, <1>6, <1>7, <1>8, <1>9, <1>10, <1>11, <1>12 DEF IInv

LEMMA WaitKeeps ==
  ASSUME IInv, NEW t \in Threads, Wait(t)
  PROVE  IInv'
<1>1. active = t /\ pc[t] = "client" /\ state[t] = "Runnable" /\ verdict = "running"
  BY RunsFacts DEF Wait
<1>2. PICK m \in Mutexes :
        /\ t \in guards[m] /\ Call(t, "wait", None, m, state)
        /\ UNCHANGED <<notified, misled, owner, guards, waiters, rx, sent, handle>>
  BY DEF Wait, joins, notes
<1>3. /\ pc' = [pc EXCEPT ![t] = "wait"]
      /\ operation' = [operation EXCEPT ![t] = None]
      /\ obj' = [obj EXCEPT ![t] = m]
      /\ state' = state
  BY <1>2, ScheduleFacts DEF Call
<1>4. \/ active' \in Threads /\ state'[active'] = "Runnable" /\ verdict' = "running"
      \/ active' = None /\ verdict' \in {"deadlock", "finished"}
  BY <1>1, <1>2, <1>3, ScheduleFacts DEF Call
<1>5. TypeOK'
  BY <1>1, <1>2, <1>3, <1>4, ThreadsAssumption DEF IInv, TypeOK, PCs, Alive
<1>6. NoPanic'
  BY <1>1, <1>2, <1>3, <1>4, ThreadsAssumption DEF IInv, NoPanic, TypeOK
<1>7. ActiveFits'
  BY <1>1, <1>2, <1>3, <1>4, ThreadsAssumption DEF IInv, ActiveFits, TypeOK
<1>8. StateFits'
  BY <1>1, <1>2, <1>3, <1>4, ThreadsAssumption DEF IInv, StateFits, Blocking, TypeOK
<1>9. LockFits'
  BY <1>1, <1>2, <1>3, <1>4, ThreadsAssumption DEF Misled, IInv, LockFits, TypeOK
<1>10. GuardsFit'
  BY <1>1, <1>2, <1>3, <1>4, ThreadsAssumption DEF IInv, GuardsFit, MutexExclusion, TypeOK
<1>11. QueueFits'
  BY <1>1, <1>2, <1>3, <1>4, ThreadsAssumption DEF Misled, IInv, QueueFits, TypeOK
<1>12. JoinFits'
  BY <1>1, <1>2, <1>3, <1>4, ThreadsAssumption DEF Misled, IInv, JoinFits, TypeOK
<1>13. QED
  BY <1>5, <1>6, <1>7, <1>8, <1>9, <1>10, <1>11, <1>12 DEF IInv

LEMMA ParkWaiterKeeps ==
  ASSUME IInv, NEW t \in Threads, ParkWaiter(t)
  PROVE  IInv'
<1>1. active = t /\ pc[t] = "wait" /\ state[t] = "Runnable" /\ verdict = "running"
  BY RunsFacts DEF ParkWaiter
<1>2. obj[t] \in Mutexes /\ guards[obj[t]] = {t} /\ owner[obj[t]] = t
  BY <1>1, ThreadsAssumption DEF IInv, GuardsFit, MutexExclusion, TypeOK
<1>3. /\ waiters' = Append(waiters, t)
      /\ guards' = [guards EXCEPT ![obj[t]] = {}]
      /\ owner' = [owner EXCEPT ![obj[t]] = None]
      /\ pc' = [pc EXCEPT ![t] = "parked"]
      /\ operation' = [operation EXCEPT ![t] = None]
      /\ obj' = [obj EXCEPT ![t] = obj[t]]
      /\ state' = [u \in Threads |-> IF u = t THEN "Blocked"
                                    ELSE IF operation[u] = obj[t] THEN "Runnable" ELSE state[u]]
      /\ UNCHANGED <<notified, misled, rx, sent, handle>>
  BY <1>2, ScheduleFacts DEF ParkWaiter, Call, SetAll, Contenders, joins, notes, IInv, TypeOK
<1>4. \/ active' \in Threads /\ state'[active'] = "Runnable" /\ verdict' = "running"
      \/ active' = None /\ verdict' \in {"deadlock", "finished"}
  BY <1>1, ScheduleFacts DEF ParkWaiter, Call
<1>5. \A u \in Threads : u # t /\ operation[u] = obj[t] => pc[u] = "lock" /\ obj[u] = obj[t]
  BY <1>1, <1>2, ThreadsAssumption DEF Misled, IInv, LockFits
<1>6. TypeOK'
  BY <1>1, <1>2, <1>3, <1>4, <1>5, ThreadsAssumption DEF IInv, TypeOK, PCs, Alive
<1>7. NoPanic'
  BY <1>1, <1>2, <1>3, <1>4, <1>5, ThreadsAssumption DEF IInv, NoPanic, TypeOK
<1>8. ActiveFits'
  BY <1>1, <1>2, <1>3, <1>4, <1>5, ThreadsAssumption DEF IInv, ActiveFits, TypeOK
<1>9. StateFits'
  BY <1>1, <1>2, <1>3, <1>4, <1>5, ThreadsAssumption
     DEF Misled, IInv, StateFits, LockFits, Blocking, TypeOK
<1>10. LockFits'
  BY <1>1, <1>2, <1>3, <1>4, <1>5, ThreadsAssumption DEF Misled, IInv, LockFits, TypeOK
<1>11. GuardsFit'
  <2>1. MutexExclusion'
    <3>1. /\ guards \in [Mutexes -> SUBSET Threads] /\ owner \in [Mutexes -> Threads \cup {None}]
          /\ \A l \in Mutexes : guards[l] = IF owner[l] = None THEN {} ELSE {owner[l]}
      BY <1>1 DEF IInv, TypeOK, GuardsFit, MutexExclusion
    <3>2. guards'[obj[t]] = IF owner'[obj[t]] = None THEN {} ELSE {owner'[obj[t]]}
      BY <1>1, <1>2, <1>3, <1>4, <1>5, <3>1, ThreadsAssumption
    <3>3. \A l \in Mutexes \ {obj[t]} : guards'[l] = guards[l] /\ owner'[l] = owner[l]
      BY <1>1, <1>2, <1>3, <1>4, <1>5, <3>1
    <3>4. QED
      BY <3>1, <3>2, <3>3 DEF MutexExclusion
  <2>2. \A u \in Threads : pc'[u] = "wait" => obj'[u] \in Mutexes /\ u \in guards'[obj'[u]]
    BY <1>1, <1>2, <1>3, <1>4, <1>5, ThreadsAssumption DEF IInv, GuardsFit, MutexExclusion, TypeOK
  <2>3. QED
    BY <2>1, <2>2 DEF GuardsFit
<1>12. QueueFits'
  BY <1>1, <1>2, <1>3, <1>4, <1>5, ThreadsAssumption DEF Misled, IInv, QueueFits, TypeOK
<1>13. JoinFits'
  BY <1>1, <1>2, <1>3, <1>4, <1>5, ThreadsAssumption DEF Misled, IInv, JoinFits, TypeOK
<1>14. QED
  BY <1>6, <1>7, <1>8, <1>9, <1>10, <1>11, <1>12, <1>13 DEF IInv

LEMMA RelockKeeps ==
  ASSUME IInv, NEW t \in Threads, Relock(t)
  PROVE  IInv'
<1>1. active = t /\ pc[t] = "parked" /\ state[t] = "Runnable" /\ verdict = "running"
  BY RunsFacts DEF Relock
<1>2. obj[t] \in Mutexes /\ \A i \in 1 .. Len(waiters) : waiters[i] = t => t \in misled
  BY <1>1 DEF Misled, IInv, QueueFits, StateFits
<1>3. /\ pc' = [pc EXCEPT ![t] = "lock"]
      /\ operation' = [operation EXCEPT ![t] = obj[t]]
      /\ obj' = [obj EXCEPT ![t] = obj[t]]
      /\ state' = IF owner[obj[t]] # None THEN [state EXCEPT ![t] = "Blocked"] ELSE state
      /\ UNCHANGED <<notified, misled, owner, guards, waiters, rx, sent, handle>>
  BY ScheduleFacts DEF Relock, Acquire, Call, Become, joins, notes
<1>4. \/ active' \in Threads /\ state'[active'] = "Runnable" /\ verdict' = "running"
      \/ active' = None /\ verdict' \in {"deadlock", "finished"}
  BY <1>1, <1>3, ScheduleFacts DEF Relock, Acquire, Call
<1>5. TypeOK'
  BY <1>1, <1>2, <1>3, <1>4, ThreadsAssumption DEF IInv, TypeOK, PCs, Alive
<1>6. NoPanic'
  BY <1>1, <1>2, <1>3, <1>4, ThreadsAssumption DEF IInv, NoPanic, TypeOK
<1>7. ActiveFits'
  BY <1>1, <1>2, <1>3, <1>4, ThreadsAssumption DEF IInv, ActiveFits, TypeOK
<1>8. StateFits'
  BY <1>1, <1>2, <1>3, <1>4, ThreadsAssumption DEF IInv, StateFits, Blocking, TypeOK
<1>9. LockFits'
  BY <1>1, <1>2, <1>3, <1>4, ThreadsAssumption DEF Misled, IInv, LockFits, TypeOK
<1>10. GuardsFit'
  BY <1>1, <1>2, <1>3, <1>4, ThreadsAssumption DEF IInv, GuardsFit, MutexExclusion, TypeOK
<1>11. QueueFits'
  BY <1>1, <1>2, <1>3, <1>4, ThreadsAssumption DEF Misled, IInv, QueueFits, TypeOK
<1>12. JoinFits'
  BY <1>1, <1>2, <1>3, <1>4, ThreadsAssumption DEF Misled, IInv, JoinFits, TypeOK
<1>13. QED
  BY <1>5, <1>6, <1>7, <1>8, <1>9, <1>10, <1>11, <1>12 DEF IInv

LEMMA NotifyOneKeeps ==
  ASSUME IInv, NEW t \in Threads, NotifyOne(t)
  PROVE  IInv'
<1>1. /\ active = t /\ pc[t] = "client" /\ state[t] = "Runnable" /\ verdict = "running"
  BY RunsFacts DEF NotifyOne
<1>2. /\ pc' = [pc EXCEPT ![t] = "notify"]
      /\ operation' = [operation EXCEPT ![t] = None]
      /\ obj' = [obj EXCEPT ![t] = None]
      /\ state' = state
      /\ UNCHANGED <<notified, misled, owner, guards, waiters, rx, sent, handle>>
  BY ScheduleFacts DEF NotifyOne, Call, joins, notes, Become
<1>3. \/ active' \in Threads /\ state'[active'] = "Runnable" /\ verdict' = "running"
      \/ active' = None /\ verdict' \in {"deadlock", "finished"}
  BY <1>1, <1>2, ScheduleFacts DEF NotifyOne, Call, Become
<1>4. TypeOK'
  BY <1>1, <1>2, <1>3, ThreadsAssumption DEF IInv, TypeOK, PCs, Alive
<1>5. NoPanic'
  BY <1>1, <1>2, <1>3, ThreadsAssumption DEF IInv, NoPanic, TypeOK
<1>6. ActiveFits'
  BY <1>1, <1>2, <1>3, ThreadsAssumption DEF IInv, ActiveFits, TypeOK
<1>7. StateFits'
  BY <1>1, <1>2, <1>3, ThreadsAssumption DEF IInv, StateFits, Blocking, TypeOK
<1>8. LockFits'
  BY <1>1, <1>2, <1>3, ThreadsAssumption DEF Misled, IInv, LockFits, TypeOK
<1>9. GuardsFit'
  BY <1>1, <1>2, <1>3, ThreadsAssumption DEF IInv, GuardsFit, MutexExclusion, TypeOK
<1>10. QueueFits'
  BY <1>1, <1>2, <1>3, ThreadsAssumption DEF Misled, IInv, QueueFits, TypeOK
<1>11. JoinFits'
  BY <1>1, <1>2, <1>3, ThreadsAssumption DEF Misled, IInv, JoinFits, TypeOK
<1>12. QED
  BY <1>4, <1>5, <1>6, <1>7, <1>8, <1>9, <1>10, <1>11 DEF IInv

LEMMA WakeOneKeeps ==
  ASSUME IInv, NEW t \in Threads, WakeOne(t)
  PROVE  IInv'
<1>1. active = t /\ pc[t] = "notify" /\ state[t] = "Runnable" /\ verdict = "running"
  BY RunsFacts DEF WakeOne
<1>2. /\ pc' = [pc EXCEPT ![t] = "client"] /\ obj' = [obj EXCEPT ![t] = None]
      /\ UNCHANGED <<operation, notified, misled, active, verdict, owner, guards, rx, sent, handle>>
  BY DEF WakeOne, Return, sched, joins, notes
<1>3. /\ waiters = <<>> => UNCHANGED <<state, waiters>>
      /\ waiters # <<>> => waiters' = Tail(waiters) /\ waiters[1] \in Threads
  <2>1. waiters \in Seq(Threads) /\ (waiters # <<>> => 1 \in 1 .. Len(waiters))
    BY DEF IInv, TypeOK
  <2>2. QED
    BY <2>1 DEF WakeOne
<1>4. \/ state' = state /\ (waiters # <<>> /\ pc[waiters[1]] = "parked" => Misled(waiters[1]))
      \/ /\ waiters # <<>> /\ waiters[1] # t /\ state[waiters[1]] \in {"Blocked", "Yield"}
         /\ pc[waiters[1]] = "parked" \/ waiters[1] \in misled
         /\ state' = [state EXCEPT ![waiters[1]] = "Runnable"]
  <2>1. CASE waiters = <<>>
    BY <1>3, <2>1
  <2>2. CASE waiters # <<>>
    <3>1. waiters \in Seq(Threads) /\ 1 \in 1 .. Len(waiters) /\ Head(waiters) = waiters[1]
      BY <2>2 DEF IInv, TypeOK
    <3>2. /\ waiters[1] \in Threads /\ (pc[waiters[1]] = "parked" \/ waiters[1] \in misled)
          /\ pc[waiters[1]] = "parked" => state[waiters[1]] = "Blocked" \/ Misled(waiters[1])
      BY <3>1 DEF IInv, QueueFits
    <3>3. state' = Unpark(t, waiters[1], state)
      BY <2>2, <3>1 DEF WakeOne
    <3>4. QED
      BY <1>1, <2>2, <3>2, <3>3 DEF Unpark
  <2>3. QED
    BY <2>1, <2>2
<1>5. TypeOK'
  <2>1. waiters \in Seq(Threads)
    BY DEF IInv, TypeOK
  <2>2. waiters' \in Seq(Threads)
    BY <1>3, <2>1
  <2>3. state' \in [Threads -> Alive \cup {"Absent", "Terminated"}]
    BY <1>4 DEF IInv, TypeOK, Alive
  <2>4. pc' \in [Threads -> PCs] /\ obj' \in [Threads -> Mutexes \cup Threads \cup {None}]
    BY <1>2 DEF IInv, TypeOK, PCs
  <2>5. QED
    BY <1>2, <2>2, <2>3, <2>4 DEF IInv, TypeOK
<1>6. NoPanic'
  BY <1>2 DEF IInv, NoPanic
<1>7. ActiveFits'
  BY <1>1, <1>2, <1>3, <1>4 DEF IInv, ActiveFits, TypeOK
<1>8. StateFits'
  BY <1>1, <1>2, <1>3, <1>4 DEF IInv, StateFits, Blocking, TypeOK
<1>9. LockFits'
  BY <1>1, <1>2, <1>3, <1>4 DEF IInv, LockFits, Misled, TypeOK
<1>10. GuardsFit'
  BY <1>1, <1>2 DEF IInv, GuardsFit, MutexExclusion, TypeOK
<1>11. QueueFits'
  <2>1. waiters \in Seq(Threads)
    BY DEF IInv, TypeOK
  <2>2. CASE waiters = <<>>
    BY <1>1, <1>2, <1>3, <2>2 DEF IInv, QueueFits, Misled, TypeOK
  <2>3. CASE waiters # <<>>
    <3>1. waiters' = Tail(waiters) /\ Len(waiters') = Len(waiters) - 1
          /\ Len(waiters) \in Nat \ {0}
      BY <1>3, <2>1, <2>3
    <3>2. \A i \in 1 .. Len(waiters') : /\ waiters'[i] = waiters[i + 1]
                                        /\ i + 1 \in 1 .. Len(waiters) /\ i + 1 # 1
      BY <2>1, <2>3, <3>1
    <3>3. \A i, j \in 1 .. Len(waiters') :
            waiters'[i] = waiters'[j] => i = j \/ waiters'[i] \in misled'
      <4>1. \A i, j \in 1 .. Len(waiters) :
              waiters[i] = waiters[j] => i = j \/ waiters[i] \in misled
        BY DEF IInv, QueueFits
      <4>2. QED
        BY <1>2, <3>2, <4>1
    <3>4. \A i \in 1 .. Len(waiters') : pc'[waiters'[i]] = "parked" \/ waiters'[i] \in misled'
      <4>1. \A i \in 1 .. Len(waiters') : /\ waiters'[i] \in Threads
                                          /\ pc[waiters'[i]] = "parked" \/ waiters'[i] \in misled
        BY <2>1, <3>2 DEF IInv, QueueFits
      <4>2. QED
        BY <1>1, <1>2, <4>1 DEF IInv, TypeOK
    <3>5. ASSUME NEW u \in Threads, pc'[u] = "parked"
          PROVE  /\ obj'[u] \in Mutexes
                 /\ state'[u] = "Runnable" \/ \E i \in 1 .. Len(waiters') : waiters'[i] = u
                 /\ \A i \in 1 .. Len(waiters') :
                      waiters'[i] = u => state'[u] = "Blocked" \/ Misled(u)'
      <4>1. u # t /\ pc[u] = "parked" /\ obj'[u] = obj[u]
        BY <1>1, <1>2, <3>5 DEF IInv, TypeOK
      <4>2. obj[u] \in Mutexes
        BY <4>1 DEF IInv, QueueFits
      <4>3. CASE u = waiters[1]
        <5>1. state'[u] = "Runnable"
          BY <1>4, <2>3, <4>1, <4>3 DEF IInv, TypeOK, Misled
        <5>2. ASSUME NEW i \in 1 .. Len(waiters'), waiters'[i] = u PROVE u \in misled'
          <6>1. /\ 1 \in 1 .. Len(waiters) /\ i + 1 \in 1 .. Len(waiters) /\ i + 1 # 1
                /\ waiters[1] = waiters[i + 1]
            BY <3>1, <3>2, <4>3, <5>2
          <6>2. QED
            BY <1>2, <4>3, <6>1 DEF IInv, QueueFits
        <5>3. QED
          BY <4>1, <4>2, <5>1, <5>2 DEF Misled
      <4>4. CASE u # waiters[1]
        <5>1. state'[u] = state[u]
          BY <1>4, <4>4 DEF IInv, TypeOK
        <5>2. ASSUME NEW i \in 1 .. Len(waiters), waiters[i] = u
              PROVE  \E j \in 1 .. Len(waiters') : waiters'[j] = u
          <6>1. i - 1 \in 1 .. Len(waiters')
            BY <3>1, <4>4, <5>2
          <6>2. waiters'[i - 1] = u
            BY <3>2, <5>2, <6>1
          <6>3. QED
            BY <6>1, <6>2
        <5>3. /\ state[u] = "Runnable" \/ \E i \in 1 .. Len(waiters) : waiters[i] = u
              /\ \A i \in 1 .. Len(waiters) : waiters[i] = u => state[u] = "Blocked" \/ Misled(u)
          BY <4>1 DEF IInv, QueueFits
        <5>4. QED
          BY <1>2, <3>2, <4>1, <4>2, <5>1, <5>2, <5>3 DEF Misled
      <4>5. QED
        BY <4>3, <4>4
    <3>6. QED
      BY <3>3, <3>4, <3>5 DEF QueueFits
  <2>4. QED
    BY <2>2, <2>3
<1>12. JoinFits'
  BY <1>1, <1>2, <1>3, <1>4 DEF IInv, JoinFits, StateFits, Misled, TypeOK
<1>13. QED
  BY <1>5, <1>6, <1>7, <1>8, <1>9, <1>10, <1>11, <1>12 DEF IInv

LEMMA SpawnKeeps ==
  ASSUME IInv, NEW t \in Threads, Spawn(t)
  PROVE  IInv'
<1>1. active = t /\ pc[t] = "client" /\ state[t] = "Runnable" /\ verdict = "running"
  BY RunsFacts DEF Spawn
<1>2. PICK u \in Threads :
        /\ state[u] = "Absent" /\ state' = [state EXCEPT ![u] = "Runnable"]
        /\ handle' = [handle EXCEPT ![u] = IF u \in Futures THEN None ELSE t]
        /\ UNCHANGED <<operation, notified, misled, active, verdict, owner, guards, waiters, rx, sent,
                       pc, obj>>
  BY DEF Spawn, Become, sched, notes
<1>3. TypeOK'
  BY <1>1, <1>2, ThreadsAssumption DEF IInv, TypeOK, PCs, Alive
<1>4. NoPanic'
  BY <1>1, <1>2, ThreadsAssumption DEF IInv, NoPanic, TypeOK
<1>5. ActiveFits'
  BY <1>1, <1>2, ThreadsAssumption DEF IInv, ActiveFits, TypeOK
<1>6. StateFits'
  BY <1>1, <1>2, ThreadsAssumption DEF IInv, StateFits, Blocking, TypeOK
<1>7. LockFits'
  BY <1>1, <1>2, ThreadsAssumption DEF Misled, IInv, LockFits, TypeOK
<1>8. GuardsFit'
  BY <1>1, <1>2, ThreadsAssumption DEF IInv, GuardsFit, MutexExclusion, TypeOK
<1>9. QueueFits'
  BY <1>1, <1>2, ThreadsAssumption DEF Misled, IInv, QueueFits, TypeOK
<1>10. JoinFits'
  BY <1>1, <1>2, ThreadsAssumption DEF Misled, IInv, JoinFits, StateFits, TypeOK
<1>11. QED
  BY <1>3, <1>4, <1>5, <1>6, <1>7, <1>8, <1>9, <1>10 DEF IInv

LEMMA JoinKeeps ==
  ASSUME IInv, NEW t \in Threads, Join(t)
  PROVE  IInv'
<1>1. active = t /\ pc[t] = "client" /\ state[t] = "Runnable" /\ verdict = "running"
  BY RunsFacts DEF Join
<1>2. PICK u \in Threads :
        /\ handle[u] = t /\ handle' = [handle EXCEPT ![u] = None]
        /\ \/ /\ sent[u] /\ Call(t, "join", None, u, state) /\ UNCHANGED rx
           \/ /\ ~sent[u] /\ rx' = [rx EXCEPT ![u] = t]
              /\ Call(t, "recv", None, u, Become(t, "Blocked"))
        /\ UNCHANGED <<notified, misled, owner, guards, waiters, sent>>
  BY DEF Join, notes
<1>3. /\ operation' = [operation EXCEPT ![t] = None]
      /\ obj' = [obj EXCEPT ![t] = u]
      /\ \/ sent[u] /\ pc' = [pc EXCEPT ![t] = "join"] /\ UNCHANGED <<state, rx>>
         \/ /\ ~sent[u] /\ pc' = [pc EXCEPT ![t] = "recv"] /\ rx' = [rx EXCEPT ![u] = t]
            /\ state' = [state EXCEPT ![t] = "Blocked"]
  BY <1>2, ScheduleFacts DEF Call, Become
<1>4. \/ active' \in Threads /\ state'[active'] = "Runnable" /\ verdict' = "running"
      \/ active' = None /\ verdict' \in {"deadlock", "finished"}
  BY <1>1, <1>2, <1>3, ScheduleFacts DEF Call
<1>5. TypeOK'
  <2>1. pc' \in [Threads -> PCs]
    BY <1>3 DEF IInv, TypeOK, PCs
  <2>2. state' \in [Threads -> Alive \cup {"Absent", "Terminated"}]
    BY <1>3 DEF IInv, TypeOK, Alive
  <2>3. /\ active' \in Threads \cup {None}
        /\ verdict' \in {"running", "finished", "deadlock", "panicked"}
    BY <1>4 DEF IInv, TypeOK
  <2>4. operation' \in [Threads -> Mutexes \cup {None}]
        /\ obj' \in [Threads -> Mutexes \cup Threads \cup {None}]
    BY <1>3 DEF IInv, TypeOK
  <2>5. rx' \in [Threads -> Threads \cup {None}] /\ handle' \in [Threads -> Threads \cup {None}]
    BY <1>2, <1>3 DEF IInv, TypeOK
  <2>6. QED
    BY <1>2, <2>1, <2>2, <2>3, <2>4, <2>5 DEF IInv, TypeOK
<1>6. NoPanic'
  BY <1>1, <1>2, <1>3, <1>4, ThreadsAssumption DEF IInv, NoPanic, TypeOK
<1>7. ActiveFits'
  BY <1>1, <1>2, <1>3, <1>4, ThreadsAssumption DEF IInv, ActiveFits, TypeOK
<1>8. StateFits'
  BY <1>1, <1>2, <1>3, <1>4, ThreadsAssumption DEF IInv, StateFits, Blocking, TypeOK
<1>9. LockFits'
  BY <1>1, <1>2, <1>3, <1>4, ThreadsAssumption DEF Misled, IInv, LockFits, TypeOK
<1>10. GuardsFit'
  BY <1>1, <1>2, <1>3, <1>4, ThreadsAssumption DEF IInv, GuardsFit, MutexExclusion, TypeOK
<1>11. QueueFits'
  BY <1>1, <1>2, <1>3, <1>4, ThreadsAssumption DEF Misled, IInv, QueueFits, TypeOK
<1>12. JoinFits'
  BY <1>1, <1>2, <1>3, <1>4, ThreadsAssumption DEF Misled, IInv, JoinFits, TypeOK
<1>13. QED
  BY <1>5, <1>6, <1>7, <1>8, <1>9, <1>10, <1>11, <1>12 DEF IInv

LEMMA ReceivedKeeps ==
  ASSUME IInv, NEW t \in Threads, Received(t)
  PROVE  IInv'
<1>1. active = t /\ pc[t] = "recv" /\ state[t] = "Runnable" /\ verdict = "running"
  BY RunsFacts DEF Received
<1>2. obj[t] \in Threads /\ (~sent[obj[t]] => t \in misled)
  BY <1>1 DEF IInv, JoinFits, Misled
<1>3. UNCHANGED <<notified, misled, owner, guards, waiters, rx, sent, handle>>
  BY DEF Received, joins, notes
<1>4. CASE sent[obj[t]]
  <2>1. /\ pc' = [pc EXCEPT ![t] = "join"]
        /\ operation' = [operation EXCEPT ![t] = None]
        /\ obj' = [obj EXCEPT ![t] = obj[t]]
        /\ state' = state
    BY <1>4, ScheduleFacts DEF Received, Call
  <2>2. \/ active' \in Threads /\ state'[active'] = "Runnable" /\ verdict' = "running"
        \/ active' = None /\ verdict' \in {"deadlock", "finished"}
    BY <1>1, <1>4, <2>1, ScheduleFacts DEF Received, Call
  <2>3. TypeOK' /\ NoPanic'
    BY <1>1, <1>2, <1>3, <2>1, <2>2, ThreadsAssumption DEF IInv, NoPanic, TypeOK, PCs, Alive
  <2>4. ActiveFits' /\ StateFits'
    BY <1>1, <1>2, <1>3, <2>1, <2>2, ThreadsAssumption
       DEF IInv, ActiveFits, StateFits, Blocking, TypeOK
  <2>5. LockFits' /\ GuardsFit'
    BY <1>1, <1>2, <1>3, <2>1, <2>2, ThreadsAssumption
       DEF IInv, LockFits, Misled, GuardsFit, MutexExclusion, TypeOK
  <2>6. QueueFits'
    BY <1>1, <1>2, <1>3, <2>1, <2>2, ThreadsAssumption DEF IInv, QueueFits, Misled, TypeOK
  <2>7. JoinFits'
    BY <1>1, <1>2, <1>3, <1>4, <2>1, <2>2, ThreadsAssumption DEF IInv, JoinFits, Misled, TypeOK
  <2>8. QED
    BY <2>3, <2>4, <2>5, <2>6, <2>7 DEF IInv
<1>5. CASE ~sent[obj[t]]
  <2>1. verdict' = "panicked" /\ UNCHANGED <<state, operation, active, pc, obj>>
    BY <1>5 DEF Received
  <2>2. TypeOK' /\ NoPanic' /\ ActiveFits' /\ StateFits' /\ LockFits' /\ JoinFits'
    BY <1>1, <1>2, <1>3, <1>5, <2>1
       DEF IInv, TypeOK, NoPanic, ActiveFits, StateFits, LockFits, JoinFits, Misled
  <2>3. GuardsFit' /\ QueueFits'
    BY <1>1, <1>3, <2>1 DEF IInv, GuardsFit, MutexExclusion, QueueFits, Misled
  <2>4. QED
    BY <2>2, <2>3 DEF IInv
<1>6. QED
  BY <1>4, <1>5

LEMMA ExitKeeps ==
  ASSUME IInv, NEW t \in Threads, Exit(t)
  PROVE  IInv'
<1>1. active = t /\ pc[t] = "client" /\ state[t] = "Runnable" /\ verdict = "running"
  BY RunsFacts DEF Exit
<1>2. /\ operation' = [operation EXCEPT ![t] = None]
      /\ obj' = [obj EXCEPT ![t] = None]
      /\ \/ pc' = [pc EXCEPT ![t] = "send"] /\ state' = state
         \/ pc' = [pc EXCEPT ![t] = "done"] /\ state' = [state EXCEPT ![t] = "Terminated"]
      /\ UNCHANGED <<notified, misled, owner, guards, waiters, rx, sent, handle>>
  BY ScheduleFacts DEF Exit, Call, Become, joins, notes
<1>3. \/ active' \in Threads /\ state'[active'] = "Runnable" /\ verdict' = "running"
      \/ active' = None /\ verdict' \in {"deadlock", "finished"}
  BY <1>1, <1>2, ScheduleFacts DEF Exit, Call
<1>4. TypeOK'
  <2>1. pc' \in [Threads -> PCs]
    BY <1>2 DEF IInv, TypeOK, PCs
  <2>2. state' \in [Threads -> Alive \cup {"Absent", "Terminated"}]
    BY <1>2 DEF IInv, TypeOK, Alive
  <2>3. active' \in Threads \cup {None}
    BY <1>3 DEF IInv, TypeOK
  <2>4. /\ operation' \in [Threads -> Mutexes \cup {None}]
        /\ obj' \in [Threads -> Mutexes \cup Threads \cup {None}]
    BY <1>2 DEF IInv, TypeOK
  <2>5. verdict' \in {"running", "finished", "deadlock", "panicked"}
    BY <1>3 DEF IInv, TypeOK
  <2>6. QED
    BY <1>2, <2>1, <2>2, <2>3, <2>4, <2>5 DEF IInv, TypeOK
<1>5. NoPanic'
  BY <1>1, <1>2, <1>3, ThreadsAssumption DEF IInv, NoPanic, TypeOK
<1>6. ActiveFits'
  BY <1>1, <1>2, <1>3, ThreadsAssumption DEF IInv, ActiveFits, TypeOK
<1>7. StateFits'
  BY <1>1, <1>2, <1>3, ThreadsAssumption DEF IInv, StateFits, Blocking, TypeOK
<1>8. LockFits'
  BY <1>1, <1>2, <1>3, ThreadsAssumption DEF Misled, IInv, LockFits, TypeOK
<1>9. GuardsFit'
  BY <1>1, <1>2, <1>3, ThreadsAssumption DEF IInv, GuardsFit, MutexExclusion, TypeOK
<1>10. QueueFits'
  BY <1>1, <1>2, <1>3, ThreadsAssumption DEF Misled, IInv, QueueFits, TypeOK
<1>11. JoinFits'
  BY <1>1, <1>2, <1>3, ThreadsAssumption DEF Misled, IInv, JoinFits, TypeOK
<1>12. QED
  BY <1>4, <1>5, <1>6, <1>7, <1>8, <1>9, <1>10, <1>11 DEF IInv

LEMMA SendKeeps ==
  ASSUME IInv, NEW t \in Threads, Send(t)
  PROVE  IInv'
<1>1. active = t /\ pc[t] = "send" /\ state[t] = "Runnable" /\ verdict = "running" /\ ~sent[t]
  BY RunsFacts DEF Send
<1>2. /\ pc' = [pc EXCEPT ![t] = "done"]
      /\ operation' = [operation EXCEPT ![t] = None]
      /\ obj' = [obj EXCEPT ![t] = None]
      /\ sent' = [sent EXCEPT ![t] = TRUE]
      /\ UNCHANGED <<notified, misled, owner, guards, waiters, rx, handle>>
  BY ScheduleFacts DEF Send, Call, notes
<1>3. \/ rx[t] = None /\ state' = [state EXCEPT ![t] = "Terminated"]
      \/ /\ rx[t] \in Threads \ {t} /\ pc[rx[t]] = "recv" /\ obj[rx[t]] = t
         /\ state[rx[t]] = "Blocked" \/ Misled(rx[t])
         /\ state' = [state EXCEPT ![t] = "Terminated", ![rx[t]] = "Runnable"]
  <2>1. CASE rx[t] = None
    BY <2>1, ScheduleFacts DEF Send, Call, Become
  <2>2. CASE rx[t] # None
    <3>1. /\ rx[t] \in Threads /\ pc[rx[t]] = "recv" /\ obj[rx[t]] = t
          /\ state[rx[t]] = "Blocked" \/ Misled(rx[t])
      BY <1>1, <2>2 DEF Misled, IInv, JoinFits, TypeOK
    <3>2. rx[t] # t
      BY <1>1, <3>1
    <3>3. state' = Unpark(t, rx[t], Become(t, "Terminated"))
      BY <2>2, ScheduleFacts DEF Send, Call
    <3>4. QED
      BY <3>1, <3>2, <3>3 DEF Unpark, Become, Misled, IInv, TypeOK
  <2>3. QED
    BY <2>1, <2>2
<1>4. \/ active' \in Threads /\ state'[active'] = "Runnable" /\ verdict' = "running"
      \/ active' = None /\ verdict' \in {"deadlock", "finished"}
  BY <1>1, <1>2, ScheduleFacts DEF Send, Call
<1>5. TypeOK'
  <2>1. pc' \in [Threads -> PCs]
    BY <1>2 DEF IInv, TypeOK, PCs
  <2>2. state' \in [Threads -> Alive \cup {"Absent", "Terminated"}]
    BY <1>3 DEF IInv, TypeOK, Alive
  <2>3. /\ active' \in Threads \cup {None}
        /\ verdict' \in {"running", "finished", "deadlock", "panicked"}
    BY <1>4 DEF IInv, TypeOK
  <2>4. operation' \in [Threads -> Mutexes \cup {None}]
        /\ obj' \in [Threads -> Mutexes \cup Threads \cup {None}]
    BY <1>2 DEF IInv, TypeOK
  <2>5. sent' \in [Threads -> BOOLEAN]
    BY <1>2 DEF IInv, TypeOK
  <2>6. QED
    BY <1>2, <2>1, <2>2, <2>3, <2>4, <2>5 DEF IInv, TypeOK
<1>6. NoPanic'
  BY <1>1, <1>2, <1>3, <1>4, ThreadsAssumption DEF IInv, NoPanic, TypeOK
<1>7. ActiveFits'
  BY <1>1, <1>2, <1>3, <1>4, ThreadsAssumption DEF IInv, ActiveFits, TypeOK
<1>8. StateFits'
  <2>1. pc'[t] = "done" /\ state'[t] = "Terminated"
    BY <1>2, <1>3 DEF IInv, TypeOK
  <2>2. ASSUME NEW u \in Threads \ {t}
        PROVE  /\ pc'[u] = pc[u] /\ sent'[u] = sent[u] /\ handle'[u] = handle[u] /\ rx'[u] = rx[u]
               /\ state'[u] = state[u] \/ (state'[u] = "Runnable" /\ ~sent[u])
    <3>1. CASE state'[u] = state[u]
      BY <1>2, <3>1 DEF IInv, TypeOK
    <3>2. CASE state'[u] # state[u]
      <4>1. u = rx[t] /\ state'[u] = "Runnable" /\ state[u] # "Terminated"
        BY <1>3, <3>2 DEF IInv, TypeOK, Misled
      <4>2. QED
        BY <1>2, <4>1 DEF IInv, StateFits, TypeOK
    <3>3. QED
      BY <3>1, <3>2
  <2>3. QED
    BY <2>1, <2>2 DEF IInv, StateFits
<1>9. LockFits'
  BY <1>1, <1>2, <1>3, <1>4, ThreadsAssumption DEF Misled, IInv, LockFits, TypeOK
<1>10. GuardsFit'
  BY <1>1, <1>2, <1>3, <1>4, ThreadsAssumption DEF IInv, GuardsFit, MutexExclusion, TypeOK
<1>11. QueueFits'
  BY <1>1, <1>2, <1>3, <1>4, ThreadsAssumption DEF Misled, IInv, QueueFits, TypeOK
<1>12. JoinFits'
  BY <1>1, <1>2, <1>3, <1>4, ThreadsAssumption DEF Misled, IInv, JoinFits, TypeOK
<1>13. QED
  BY <1>5, <1>6, <1>7, <1>8, <1>9, <1>10, <1>11, <1>12 DEF IInv

LEMMA TaskNotifyKeeps ==
  ASSUME IInv, NEW t \in Threads, NEW u \in Threads, TaskNotify(t, u)
  PROVE  IInv'
<1>1. active = t /\ pc[t] = "client" /\ state[t] = "Runnable" /\ verdict = "running"
  BY RunsFacts DEF TaskNotify
<1>2. /\ notified' = [notified EXCEPT ![t] = TRUE]
      /\ UNCHANGED <<operation, active, verdict, owner, guards, waiters, rx, sent, handle, pc,
                    obj>>
  BY DEF TaskNotify, sched, joins
<1>3. \/ state' = state /\ misled' = misled
      \/ /\ u # t /\ pc[u] # "client" /\ state[u] # "Terminated" /\ ~sent[u]
         /\ state' = [state EXCEPT ![u] = "Runnable"]
         /\ misled' \in {misled, misled \cup {u}}
         /\ pc[u] \in {"lock", "parked", "recv"} => u \in misled'
  <2>1. CASE u # t /\ state[u] \in {"Blocked", "Yield"}
    <3>1. pc[u] # "client" /\ ~sent[u]
      BY <2>1 DEF IInv, StateFits, Blocking
    <3>2. pc[u] \in {"lock", "parked", "recv"} => state[u] = "Blocked"
      BY <2>1 DEF IInv, StateFits
    <3>3. QED
      BY <2>1, <3>1, <3>2 DEF TaskNotify, Unpark
  <2>2. CASE ~(u # t /\ state[u] \in {"Blocked", "Yield"})
    BY <2>2 DEF TaskNotify, Unpark
  <2>3. QED
    BY <2>1, <2>2
<1>4. TypeOK'
  BY <1>1, <1>2, <1>3, ThreadsAssumption DEF IInv, TypeOK, PCs, Alive
<1>5. NoPanic'
  BY <1>1, <1>2, <1>3, ThreadsAssumption DEF IInv, NoPanic, TypeOK
<1>6. ActiveFits'
  BY <1>1, <1>2, <1>3, ThreadsAssumption DEF IInv, ActiveFits, TypeOK
<1>7. StateFits'
  BY <1>1, <1>2, <1>3, ThreadsAssumption DEF IInv, StateFits, Blocking, TypeOK
<1>8. LockFits'
  BY <1>1, <1>2, <1>3, ThreadsAssumption DEF Misled, IInv, LockFits, TypeOK
<1>9. GuardsFit'
  BY <1>1, <1>2, <1>3, ThreadsAssumption DEF IInv, GuardsFit, MutexExclusion, TypeOK
<1>10. QueueFits'
  BY <1>1, <1>2, <1>3, ThreadsAssumption DEF Misled, IInv, QueueFits, TypeOK
<1>11. JoinFits'
  BY <1>1, <1>2, <1>3, ThreadsAssumption DEF Misled, IInv, JoinFits, TypeOK
<1>12. QED
  BY <1>4, <1>5, <1>6, <1>7, <1>8, <1>9, <1>10, <1>11 DEF IInv

LEMMA NotReadyKeeps ==
  ASSUME IInv, NEW t \in Threads, NotReady(t)
  PROVE  IInv'
<1>1. active = t /\ pc[t] = "client" /\ state[t] = "Runnable" /\ verdict = "running"
  BY RunsFacts DEF NotReady
<1>2. /\ notified' = [notified EXCEPT ![t] = FALSE]
      /\ UNCHANGED <<misled, owner, guards, waiters, rx, sent, handle>>
      /\ \/ UNCHANGED <<state, operation, active, verdict, pc, obj>>
         \/ /\ pc' = [pc EXCEPT ![t] = "await"]
            /\ operation' = [operation EXCEPT ![t] = None]
            /\ obj' = [obj EXCEPT ![t] = None]
            /\ state' = [state EXCEPT ![t] = "Blocked"]
  BY ScheduleFacts DEF NotReady, Call, Become, sched, joins, notes
<1>3. \/ pc'[t] = "client" /\ UNCHANGED <<state, active, verdict>>
      \/ active' \in Threads /\ state'[active'] = "Runnable" /\ verdict' = "running"
      \/ active' = None /\ verdict' \in {"deadlock", "finished"}
  BY <1>1, ScheduleFacts DEF NotReady, Call, sched
<1>4. TypeOK'
  <2>1. pc' \in [Threads -> PCs]
    BY <1>2 DEF IInv, TypeOK, PCs
  <2>2. state' \in [Threads -> Alive \cup {"Absent", "Terminated"}]
    BY <1>2 DEF IInv, TypeOK, Alive
  <2>3. active' \in Threads \cup {None}
    BY <1>3 DEF IInv, TypeOK
  <2>4. /\ operation' \in [Threads -> Mutexes \cup {None}]
        /\ obj' \in [Threads -> Mutexes \cup Threads \cup {None}]
    BY <1>2 DEF IInv, TypeOK
  <2>5. verdict' \in {"running", "finished", "deadlock", "panicked"}
    BY <1>3 DEF IInv, TypeOK
  <2>6. QED
    BY <1>2, <2>1, <2>2, <2>3, <2>4, <2>5 DEF IInv, TypeOK
<1>5. NoPanic'
  BY <1>1, <1>2, <1>3, ThreadsAssumption DEF IInv, NoPanic, TypeOK
<1>6. ActiveFits'
  BY <1>1, <1>2, <1>3, ThreadsAssumption DEF IInv, ActiveFits, TypeOK
<1>7. StateFits'
  BY <1>1, <1>2, <1>3, ThreadsAssumption DEF IInv, StateFits, Blocking, TypeOK
<1>8. LockFits'
  BY <1>1, <1>2, <1>3, ThreadsAssumption DEF Misled, IInv, LockFits, TypeOK
<1>9. GuardsFit'
  BY <1>1, <1>2, <1>3, ThreadsAssumption DEF IInv, GuardsFit, MutexExclusion, TypeOK
<1>10. QueueFits'
  BY <1>1, <1>2, <1>3, ThreadsAssumption DEF Misled, IInv, QueueFits, TypeOK
<1>11. JoinFits'
  BY <1>1, <1>2, <1>3, ThreadsAssumption DEF Misled, IInv, JoinFits, TypeOK
<1>12. QED
  BY <1>4, <1>5, <1>6, <1>7, <1>8, <1>9, <1>10, <1>11 DEF IInv

-------------------------------------------------------------------------------
(* The theorems. *)

LEMMA NextIterationKeeps == NextIteration => IInv'
<1> SUFFICES ASSUME NextIteration PROVE IInv'
  OBVIOUS
<1>1. TypeOK'
  BY ThreadsAssumption DEF NextIteration, TypeOK, PCs, Alive
<1>2. NoPanic' /\ ActiveFits' /\ StateFits'
  BY ThreadsAssumption DEF NextIteration, NoPanic, ActiveFits, StateFits, Blocking
<1>3. LockFits' /\ GuardsFit' /\ JoinFits'
  BY ThreadsAssumption DEF Misled, NextIteration, LockFits, GuardsFit, MutexExclusion, JoinFits
<1>4. QueueFits'
  BY DEF Misled, NextIteration, QueueFits
<1>5. QED
  BY <1>1, <1>2, <1>3, <1>4 DEF IInv

LEMMA NextIInv == IInv /\ [Next]_vars => IInv'
<1>1. ASSUME IInv, UNCHANGED vars PROVE IInv'
  BY <1>1 DEF Misled, vars, IInv, TypeOK, NoPanic, ActiveFits, StateFits, LockFits, GuardsFit,
              MutexExclusion, QueueFits, JoinFits
<1>2. QED
  BY <1>1, AtomicKeeps, YieldNowKeeps, ResumeKeeps, NotReadyKeeps, LockKeeps, LockedKeeps,
     UnlockKeeps, WaitKeeps, ParkWaiterKeeps, RelockKeeps, NotifyOneKeeps, WakeOneKeeps,
     SpawnKeeps, JoinKeeps, ReceivedKeeps, ExitKeeps, SendKeeps, TaskNotifyKeeps,
     NextIterationKeeps
     DEF Next, Step

\* The invariant holds in every reachable state, whatever threads run futures, lock,
\* wait, join and are notified.
THEOREM Invariance == Spec => []IInv
BY InitIInv, NextIInv, PTL DEF Spec

\* Every field of the engine keeps its type.
THEOREM TypeCorrectness == Spec => []TypeOK
BY Invariance, PTL DEF IInv

\* The borrow_mut of mutex.rs:38 and the unwrap of oneshot.rs:60 fail in no thread
\* but one a Task::notify took out of a blocking call: thread.rs:249-252 makes any
\* thread runnable, and no other call of the engine makes one runnable too early.
THEOREM PanicFreedom == Spec => []NoPanic
BY Invariance, PTL DEF IInv

\* One thread at a time borrows the data of a mutex, and it is its owner, until a
\* misled thread takes the lock of another and panics for it.
THEOREM MutualExclusion == Spec => []MutexExclusion
BY Invariance, PTL DEF IInv, GuardsFit

\* A blocked thread waits for a mutex that is owned, a notification it is queued
\* for, a result that is not sent, or a notify: no release, notify or send leaves
\* behind a thread it should have freed, whatever the number of threads and whichever
\* of them were misled.
THEOREM BlockedWithReason == Spec => []BlockedForAReason
<1>1. IInv => BlockedForAReason
  BY
     DEF Misled, IInv, StateFits, LockFits, QueueFits, JoinFits, TypeOK, BlockedForAReason, Waiting,
         Blocking, Contains
<1>2. QED
  BY <1>1, Invariance, PTL

\* A thread the scheduler may pick and no Task::notify has misled is not waiting for
\* anything.
THEOREM RunnableGoesOn == Spec => []RunnableMayGoOn
<1>1. IInv => RunnableMayGoOn
  BY DEF Misled, IInv, LockFits, QueueFits, JoinFits, TypeOK, RunnableMayGoOn, Waiting, Contains
<1>2. QED
  BY <1>1, Invariance, PTL
===============================================================================
