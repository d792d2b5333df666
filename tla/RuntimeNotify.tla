----------------------------- MODULE RuntimeNotify -----------------------------
(***************************************************************************)
(* Runtime with a history variable: the threads told to poll their future   *)
(* again since they last began to.  It says what Thread.notified ("Tracks a *)
(* future's `Task::notify` flag", src/syncbox-fuzz/src/rt/thread.rs:24) is  *)
(* meant to say.                                                            *)
(***************************************************************************)
EXTENDS Runtime

VARIABLE told

\* NotReady that does not park, and Resume from the park, begin a poll.
BeginsPoll(t) ==
  \/ NotReady(t) /\ state'[t] # "Blocked"
  \/ pc[t] = "await" /\ Resume(t)

\* A thread that has yet to run begins its first poll after this notify.
InPoll(t, u) == u = t \/ pc[u] # "client"

ToldStep(t) ==
  \/ \E u \in Futures :
       TaskNotify(t, u) /\ told' = IF InPoll(t, u) THEN told \cup {u} ELSE told
  \/ BeginsPoll(t) /\ told' = told \ {t}
  \/ NotReady(t) /\ state'[t] = "Blocked" /\ UNCHANGED told
  \/ /\ \/ Atomic(t) \/ YieldNow(t) \/ Spawn(t) \/ Exit(t)
        \/ pc[t] # "await" /\ Resume(t)
     /\ UNCHANGED told

ToldSpec == Init /\ told = {} /\ [][\E t \in Threads : ToldStep(t)]_<<vars, told>>

\* A thread notified while it polls its future polls it again before it parks
\* (wait_future, rt/mod.rs:112), whichever thread called Task::notify: otherwise the
\* iteration ends in a deadlock that the program does not have.
NotifiedPollsAgain ==
  \A t \in told : ~(pc[t] = "await" /\ state[t] = "Blocked")
===============================================================================
