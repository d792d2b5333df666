----------------------------- MODULE ParkerProofs -----------------------------
(***************************************************************************)
(* For any number of unparking threads: Parker neither panics nor loses a   *)
(* wakeup, the unparked thread sees what was written before the unpark, and *)
(* the code implements ParkerToken.                                         *)
(***************************************************************************)
EXTENDS Parker, TLAPS

USE DEF EMPTY, PARKED, NOTIFIED

-------------------------------------------------------------------------------
(* The inductive invariant. *)

LEMMA InitIInv == Init => IInv
BY ThreadsAssumption
   DEF Init, IInv, TypeOK, Threads, ParkPCs, UnparkPCs, OwnerHolds, WordFits,
       WritesReleased, NoPanic, NoLostWakeup, SeesUnparkWrites

LEMMA NextIInv == ASSUME IInv, [Next]_vars PROVE IInv'
<1> USE ThreadsAssumption
        DEF IInv, TypeOK, Threads, ParkPCs, UnparkPCs, OwnerHolds, WordFits,
            WritesReleased, NoPanic, NoLostWakeup, SeesUnparkWrites
<1>1. ASSUME ParkAtOnce PROVE IInv'
  BY <1>1 DEF ParkAtOnce, Acquire
<1>2. ASSUME ParkZero PROVE IInv'
  BY <1>2 DEF ParkZero, Acquire
<1>3. ASSUME NEW timed \in BOOLEAN, ParkBegin(timed) PROVE IInv'
  BY <1>3 DEF ParkBegin, Goto, Acquire
<1>4. ASSUME ParkLock PROVE IInv'
  BY <1>4 DEF ParkLock, Goto
<1>5. ASSUME ParkFlag PROVE IInv'
  BY <1>5 DEF ParkFlag, Goto, Acquire
<1>6. ASSUME ParkConsume PROVE IInv'
  BY <1>6 DEF ParkConsume, Goto, Acquire
<1>7. ASSUME ParkSleep PROVE IInv'
  BY <1>7 DEF ParkSleep, Goto
<1>8. ASSUME ParkWake PROVE IInv'
  BY <1>8 DEF ParkWake, Goto
<1>9. ASSUME ParkRelock PROVE IInv'
  BY <1>9 DEF ParkRelock, Goto
<1>10. ASSUME ParkCheck PROVE IInv'
  BY <1>10 DEF ParkCheck, Goto, Acquire
<1>11. ASSUME ParkEnd PROVE IInv'
  BY <1>11 DEF ParkEnd, Goto, Acquire
<1>12. ASSUME ParkReturn PROVE IInv'
  BY <1>12 DEF ParkReturn, Goto
<1>13. ASSUME NEW u \in Unparkers, Write(u) PROVE IInv'
  BY <1>13 DEF Write, Goto
<1>14. ASSUME NEW u \in Unparkers, UnparkSwap(u) PROVE IInv'
  BY <1>14 DEF UnparkSwap, Goto
<1>15. ASSUME NEW u \in Unparkers, UnparkLock(u) PROVE IInv'
  BY <1>15 DEF UnparkLock, Goto
<1>16. ASSUME NEW u \in Unparkers, UnparkUnlock(u) PROVE IInv'
  BY <1>16 DEF UnparkUnlock, Goto
<1>17. ASSUME NEW u \in Unparkers, UnparkNotify(u) PROVE IInv'
  BY <1>17 DEF UnparkNotify
<1>18. CASE UNCHANGED vars
  BY <1>18 DEF vars
<1>19. QED
  BY <1>1, <1>2, <1>3, <1>4, <1>5, <1>6, <1>7, <1>8, <1>9, <1>10, <1>11, <1>12, <1>13, <1>14, <1>15, <1>16, <1>17, <1>18
     DEF Next, Park, ParkStep, UnparkStep

\* The invariant holds in every reachable state.
THEOREM Invariance == Spec => []IInv
BY InitIInv, NextIInv, PTL DEF Spec

\* The word, the mutex and the local state of every call keep their types.
THEOREM TypeCorrectness == Spec => []TypeOK
BY Invariance, PTL DEF IInv

\* The assertion at parker.rs:180 and the panics at 183 and 207 are unreachable.
THEOREM PanicFreedom == Spec => []NoPanic
BY Invariance, PTL DEF IInv

\* The parker never sleeps on a notification that nobody will signal.
THEOREM WakeupsKept == Spec => []NoLostWakeup
BY Invariance, PTL DEF IInv

\* Consuming the token makes the writes before every unpark merged in it visible.
THEOREM WritesSeen == Spec => []SeesUnparkWrites
BY Invariance, PTL DEF IInv

-------------------------------------------------------------------------------
(* The code implements the token. *)

LEMMA InitRefines == Init => Token!Init
BY DEF Init, Token!Init, Threads

LEMMA StepRefines == ASSUME IInv, [Next]_vars PROVE [Token!Next]_(Token!vars)
<1> USE ThreadsAssumption
        DEF IInv, TypeOK, Threads, ParkPCs, UnparkPCs, OwnerHolds, WordFits, NoPanic
<1>1. ASSUME ParkAtOnce PROVE Token!TakeAtOnce
  BY <1>1 DEF ParkAtOnce, Acquire, Token!TakeAtOnce
<1>2. ASSUME ParkZero PROVE UNCHANGED Token!vars
  BY <1>2 DEF ParkZero, Acquire, Token!vars
<1>3. ASSUME NEW timed \in BOOLEAN, ParkBegin(timed) PROVE \E kind \in {"park", "timeout"} : Token!Call(kind)
  BY <1>3 DEF ParkBegin, Goto, Acquire, Token!Call
<1>4. ASSUME ParkLock PROVE UNCHANGED Token!vars
  BY <1>4 DEF ParkLock, Goto, Token!vars
<1>5. ASSUME ParkFlag PROVE UNCHANGED Token!vars
  BY <1>5 DEF ParkFlag, Goto, Acquire, Token!vars
<1>6. ASSUME ParkConsume PROVE Token!Take
  BY <1>6 DEF ParkConsume, Goto, Acquire, Token!Take
<1>7. ASSUME ParkSleep PROVE UNCHANGED Token!vars
  BY <1>7 DEF ParkSleep, Goto, Token!vars
<1>8. ASSUME ParkWake PROVE UNCHANGED Token!vars
  BY <1>8 DEF ParkWake, Goto, Token!vars
<1>9. ASSUME ParkRelock PROVE UNCHANGED Token!vars
  BY <1>9 DEF ParkRelock, Goto, Token!vars
<1>10. ASSUME ParkCheck PROVE Token!Take \/ UNCHANGED Token!vars
  BY <1>10 DEF ParkCheck, Goto, Acquire, Token!Take, Token!vars
<1>11. ASSUME ParkEnd PROVE Token!Take \/ Token!GiveUp
  BY <1>11 DEF ParkEnd, Goto, Acquire, Token!Take, Token!GiveUp
<1>12. ASSUME ParkReturn PROVE Token!Return
  BY <1>12 DEF ParkReturn, Goto, Token!Return
<1>13. ASSUME NEW u \in Unparkers, Write(u) PROVE UNCHANGED Token!vars
  BY <1>13 DEF Write, Goto, Token!vars
<1>14. ASSUME NEW u \in Unparkers, UnparkSwap(u) PROVE Token!Unpark
  BY <1>14 DEF UnparkSwap, Goto, Token!Unpark
<1>15. ASSUME NEW u \in Unparkers, UnparkLock(u) PROVE UNCHANGED Token!vars
  BY <1>15 DEF UnparkLock, Goto, Token!vars
<1>16. ASSUME NEW u \in Unparkers, UnparkUnlock(u) PROVE UNCHANGED Token!vars
  BY <1>16 DEF UnparkUnlock, Goto, Token!vars
<1>17. ASSUME NEW u \in Unparkers, UnparkNotify(u) PROVE UNCHANGED Token!vars
  BY <1>17 DEF UnparkNotify, Token!vars
<1>18. CASE UNCHANGED vars
  BY <1>18 DEF vars, Token!vars
<1>19. QED
  BY <1>1, <1>2, <1>3, <1>4, <1>5, <1>6, <1>7, <1>8, <1>9, <1>10, <1>11, <1>12, <1>13, <1>14, <1>15, <1>16, <1>17, <1>18
     DEF Next, Park, ParkStep, UnparkStep, Token!Next

\* Parker is a token: each atomic step is a step of ParkerToken, or none.
THEOREM Refinement == Spec => ImplementsToken
<1>1. IInv /\ [Next]_vars => [Token!Next]_(Token!vars)
  BY StepRefines
<1>2. QED
  BY InitRefines, Invariance, <1>1, PTL DEF Spec, Token!Spec, ImplementsToken
===============================================================================
