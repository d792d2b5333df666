-------------------------------- MODULE Parker --------------------------------
(***************************************************************************)
(* src/src/parker.rs: one thread parks, any number of others unpark it.     *)
(* One action is one atomic operation on `state`, or one operation on the   *)
(* mutex or the condition variable.                                         *)
(*                                                                          *)
(* Each unpark is preceded by a write of the caller that the parked thread  *)
(* is to observe.  Operations on `state` are SeqCst and its writes are all  *)
(* read-modify-writes, so the word hands on all that was released into it:  *)
(* `released` is the threads whose latest write is visible through the      *)
(* word, `acquired` those whose latest write the parker can see.            *)
(***************************************************************************)

CONSTANTS Parking,    \* the thread that calls park and park_timeout
          Unparkers,  \* the threads that call unpark
          None        \* nobody

ASSUME ThreadsAssumption ==
  Parking \notin Unparkers /\ None \notin Unparkers /\ None # Parking

VARIABLES state,      \* Parker.state
          owner,      \* the thread that holds Parker.lock, or None
          pc,         \* where each thread is inside its call
          timeout,    \* the current call is a park_timeout
          released, acquired

vars == <<state, owner, pc, timeout, released, acquired>>

Threads == Unparkers \cup {Parking}

EMPTY == "EMPTY"
PARKED == "PARKED"
NOTIFIED == "NOTIFIED"

\* In the wait set of Parker.cvar: "wait".
ParkPCs == {"idle", "lock", "park", "consume", "sleep", "wait", "relock", "check",
            "unlock", "panicked"}
UnparkPCs == {"idle", "swap", "lock", "unlock", "notify"}

TypeOK ==
  /\ state \in {EMPTY, PARKED, NOTIFIED}
  /\ owner \in Threads \cup {None}
  /\ pc \in [Threads -> ParkPCs \cup UnparkPCs]
  /\ pc[Parking] \in ParkPCs
  /\ \A u \in Unparkers : pc[u] \in UnparkPCs
  /\ timeout \in BOOLEAN
  /\ released \in SUBSET Unparkers
  /\ acquired \in SUBSET Unparkers

Init ==
  /\ state = EMPTY
  /\ owner = None
  /\ pc = [t \in Threads |-> "idle"]
  /\ timeout = FALSE
  /\ released = Unparkers /\ acquired = Unparkers

Goto(t, label) == pc' = [pc EXCEPT ![t] = label]

\* The parker reads the word by a SeqCst operation.
Acquire == acquired' = released

-------------------------------------------------------------------------------
(* park_internal *)

\* compare_exchange(NOTIFIED, EMPTY) succeeds.
ParkAtOnce ==
  /\ pc[Parking] = "idle"
  /\ state = NOTIFIED
  /\ state' = EMPTY
  /\ Acquire
  /\ UNCHANGED <<owner, pc, timeout, released>>

\* It fails, and the timeout is zero.
ParkZero ==
  /\ pc[Parking] = "idle"
  /\ state # NOTIFIED
  /\ Acquire
  /\ UNCHANGED <<state, owner, pc, timeout, released>>

ParkBegin(timed) ==
  /\ pc[Parking] = "idle"
  /\ state # NOTIFIED
  /\ timeout' = timed
  /\ Acquire
  /\ Goto(Parking, "lock")
  /\ UNCHANGED <<state, owner, released>>

ParkLock ==
  /\ pc[Parking] = "lock"
  /\ owner = None
  /\ owner' = Parking
  /\ Goto(Parking, "park")
  /\ UNCHANGED <<state, timeout, released, acquired>>

\* Mutant of ParkFlag: PARKED is stored without looking.
MutFlagStore ==
  /\ pc[Parking] = "park" /\ state' = PARKED /\ Goto(Parking, "sleep")
  /\ Acquire /\ UNCHANGED <<owner, timeout, released>>

\* compare_exchange(EMPTY, PARKED)
ParkFlag ==
  /\ pc[Parking] = "park"
  /\ state' = IF state = EMPTY THEN PARKED ELSE state
  /\ Goto(Parking, CASE state = EMPTY -> "sleep"
                     [] state = NOTIFIED -> "consume"
                     [] state = PARKED -> "panicked")
  /\ Acquire
  /\ UNCHANGED <<owner, timeout, released>>

\* Mutant of ParkConsume: a Relaxed operation, that acquires nothing.
MutConsumeRelaxed ==
  /\ pc[Parking] = "consume" /\ state' = EMPTY /\ Goto(Parking, "unlock")
  /\ UNCHANGED <<owner, timeout, released, acquired>>

\* The notification that came in between is consumed: swap(EMPTY), asserted.
ParkConsume ==
  /\ pc[Parking] = "consume"
  /\ state' = EMPTY
  /\ Goto(Parking, IF state = NOTIFIED THEN "unlock" ELSE "panicked")
  /\ Acquire
  /\ UNCHANGED <<owner, timeout, released>>

\* cvar.wait: the mutex is released and the thread enters the wait set.
ParkSleep ==
  /\ pc[Parking] = "sleep"
  /\ owner' = None
  /\ Goto(Parking, "wait")
  /\ UNCHANGED <<state, timeout, released, acquired>>

\* A spurious wakeup, or the end of the timeout.
ParkWake ==
  /\ pc[Parking] = "wait"
  /\ Goto(Parking, "relock")
  /\ UNCHANGED <<state, owner, timeout, released, acquired>>

ParkRelock ==
  /\ pc[Parking] = "relock"
  /\ owner = None
  /\ owner' = Parking
  /\ Goto(Parking, "check")
  /\ UNCHANGED <<state, timeout, released, acquired>>

\* Mutant of ParkCheck: any wakeup ends the park.
MutCheckOnce ==
  /\ pc[Parking] = "check" /\ ~timeout
  /\ state' = EMPTY /\ Goto(Parking, "unlock")
  /\ Acquire /\ UNCHANGED <<owner, timeout, released>>

\* park: compare_exchange(NOTIFIED, EMPTY), and back to sleep when it fails.
ParkCheck ==
  /\ pc[Parking] = "check" /\ ~timeout
  /\ state' = IF state = NOTIFIED THEN EMPTY ELSE state
  /\ Goto(Parking, IF state = NOTIFIED THEN "unlock" ELSE "sleep")
  /\ Acquire
  /\ UNCHANGED <<owner, timeout, released>>

\* Mutant of ParkEnd: PARKED is left behind when the timeout expires.
MutEndKeepsParked ==
  /\ pc[Parking] = "check" /\ timeout
  /\ state' = IF state = NOTIFIED THEN EMPTY ELSE state
  /\ Goto(Parking, "unlock")
  /\ Acquire /\ UNCHANGED <<owner, timeout, released>>

\* park_timeout: swap(EMPTY), whatever the thread was woken by.
ParkEnd ==
  /\ pc[Parking] = "check" /\ timeout
  /\ state' = EMPTY
  /\ Goto(Parking, IF state = EMPTY THEN "panicked" ELSE "unlock")
  /\ Acquire
  /\ UNCHANGED <<owner, timeout, released>>

\* Mutant of ParkReturn: the guard is not dropped.
MutReturnLocked ==
  /\ pc[Parking] = "unlock" /\ Goto(Parking, "idle")
  /\ UNCHANGED <<state, owner, timeout, released, acquired>>

\* The guard of the mutex is dropped on return.
ParkReturn ==
  /\ pc[Parking] = "unlock"
  /\ owner' = None
  /\ Goto(Parking, "idle")
  /\ UNCHANGED <<state, timeout, released, acquired>>

-------------------------------------------------------------------------------
(* unpark *)

\* What the caller does before: a write the parked thread is to observe.
Write(u) ==
  /\ pc[u] = "idle"
  /\ released' = released \ {u}
  /\ acquired' = acquired \ {u}
  /\ Goto(u, "swap")
  /\ UNCHANGED <<state, owner, timeout>>

\* Mutant of UnparkSwap: notify_one without taking the mutex first.
MutSwapNotifies(u) ==
  /\ pc[u] = "swap" /\ state' = NOTIFIED
  /\ released' = released \cup {u}
  /\ Goto(u, IF state = PARKED THEN "notify" ELSE "idle")
  /\ UNCHANGED <<owner, timeout, acquired>>

UnparkSwap(u) ==
  /\ pc[u] = "swap"
  /\ state' = NOTIFIED
  /\ released' = released \cup {u}
  /\ Goto(u, IF state = PARKED THEN "lock" ELSE "idle")
  /\ UNCHANGED <<owner, timeout, acquired>>

UnparkLock(u) ==
  /\ pc[u] = "lock"
  /\ owner = None
  /\ owner' = u
  /\ Goto(u, "unlock")
  /\ UNCHANGED <<state, timeout, released, acquired>>

UnparkUnlock(u) ==
  /\ pc[u] = "unlock"
  /\ owner' = None
  /\ Goto(u, "notify")
  /\ UNCHANGED <<state, timeout, released, acquired>>

\* cvar.notify_one(): it wakes the parker if it is in the wait set.
UnparkNotify(u) ==
  /\ pc[u] = "notify"
  /\ pc' = [pc EXCEPT ![u] = "idle",
                      ![Parking] = IF @ = "wait" THEN "relock" ELSE @]
  /\ UNCHANGED <<state, owner, timeout, released, acquired>>

-------------------------------------------------------------------------------

\* What the parker does by itself once its call has begun.
ParkStep ==
  \/ ParkLock \/ ParkFlag \/ ParkConsume \/ ParkSleep
  \/ ParkRelock \/ ParkCheck \/ ParkEnd \/ ParkReturn

Park ==
  \/ ParkAtOnce \/ ParkZero \/ ParkStep \/ ParkWake
  \/ \E timed \in BOOLEAN : ParkBegin(timed)

UnparkStep(u) == UnparkSwap(u) \/ UnparkLock(u) \/ UnparkUnlock(u) \/ UnparkNotify(u)

Next == Park \/ \E u \in Unparkers : Write(u) \/ UnparkStep(u)

Spec == Init /\ [][Next]_vars

\* A call that has begun goes on: threads are scheduled, the mutex is held for
\* a few steps only, a timeout expires.  Nothing wakes a park spuriously.
FairSpec ==
  /\ Spec
  /\ WF_vars(ParkStep)
  /\ WF_vars(timeout /\ ParkWake)
  /\ \A u \in Unparkers : WF_vars(UnparkStep(u))

-------------------------------------------------------------------------------

\* The assertion on the swap and the panics on an inconsistent state are
\* unreachable (parker.rs:180, 183, 207), also for a park that begins while
\* unparks of earlier parks are still on their way to notify_one.
NoPanic == pc[Parking] # "panicked"

\* The period of parker.rs:254-258: whenever the parker is asleep or about to
\* be, and has been notified, some unpark will still notify it, and one that
\* found it about to sleep has yet to get the mutex.
NoLostWakeup ==
  state = NOTIFIED =>
    /\ pc[Parking] = "sleep" => \E u \in Unparkers : pc[u] = "lock"
    /\ pc[Parking] = "wait" => \E u \in Unparkers : pc[u] \in {"lock", "unlock", "notify"}

\* "To ensure the unparked thread will observe any writes we made before this
\* call" (parker.rs:243-246, 174-178): when the token has been consumed, the
\* parker sees what every thread wrote before an unpark that is merged in it.
SeesUnparkWrites ==
  state # NOTIFIED => \A u \in Unparkers : pc[u] = "swap" \/ u \in acquired

-------------------------------------------------------------------------------
(* Why: the invariant that every step preserves. *)

\* The thread that owns the mutex is where it holds it.
OwnerHolds ==
  /\ owner = Parking <=> pc[Parking] \in {"park", "consume", "sleep", "check", "unlock"}
  /\ \A u \in Unparkers : owner = u <=> pc[u] = "unlock"

\* What the word can be, by where the parker is.
WordFits ==
  /\ pc[Parking] \in {"idle", "lock", "park", "unlock"} => state # PARKED
  /\ pc[Parking] = "consume" => state = NOTIFIED
  /\ pc[Parking] \in {"sleep", "wait", "relock", "check"} => state # EMPTY

\* An unpark past its swap has released its caller's write.
WritesReleased == \A u \in Unparkers : pc[u] = "swap" \/ u \in released

IInv ==
  /\ TypeOK /\ OwnerHolds /\ WordFits /\ WritesReleased
  /\ NoPanic /\ NoLostWakeup /\ SeesUnparkWrites

-------------------------------------------------------------------------------
(* The token *)

Token ==
  INSTANCE ParkerToken WITH
    token <- state = NOTIFIED,
    call <- CASE pc[Parking] \in {"idle", "panicked"} -> "none"
              [] pc[Parking] = "unlock" -> "over"
              [] OTHER -> IF timeout THEN "timeout" ELSE "park"

\* A call consumes at most one token and park ends only with one.
ImplementsToken == Token!Spec

\* An unparked thread returns, and a park_timeout returns anyway.
ParkReturns ==
  (pc[Parking] # "idle" /\ (timeout \/ state = NOTIFIED)) ~> pc[Parking] = "idle"
===============================================================================
