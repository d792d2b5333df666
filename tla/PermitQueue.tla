------------------------------ MODULE PermitQueue ------------------------------
(***************************************************************************)
(* What Semaphore promises: permits, and a queue of requests served in the  *)
(* order in which they were made.                                           *)
(***************************************************************************)
EXTENDS Naturals, Sequences

CONSTANTS Requests, Permits

VARIABLES available,  \* permits anybody may take
          queue,      \* the requests that wait, oldest first
          granted,    \* the requests served and not collected yet
          held,       \* the number of permits in use
          returned    \* permits given back and not passed on yet

vars == <<available, queue, granted, held, returned>>

Init ==
  /\ available = Permits
  /\ queue = <<>> /\ granted = {}
  /\ held = 0 /\ returned = 0

\* Nobody overtakes the queue.
Take ==
  /\ available > 0
  /\ available' = available - 1
  /\ held' = held + 1
  /\ UNCHANGED <<granted, returned>>
  /\ queue = <<>> /\ queue' = <<>>

\* Nobody waits while there are permits.
Join ==
  /\ available = 0
  /\ UNCHANGED <<available, granted, held>>
  /\ queue' # queue /\ \E x \in Requests : queue' = Append(queue, x)
  /\ UNCHANGED returned

GiveBack ==
  /\ held > 0
  /\ held' = held - 1
  /\ returned' = returned + 1
  /\ UNCHANGED <<available, granted, queue>>

\* A permit given back goes to the oldest request, in vain if it was abandoned.
Grant ==
  /\ returned > 0
  /\ returned' = returned - 1
  /\ UNCHANGED <<available, held>>
  /\ queue # <<>>
  /\ queue' = Tail(queue)
  /\ granted' \in {granted, granted \cup {Head(queue)}}

Collect(x) ==
  /\ x \in granted
  /\ granted' = granted \ {x}
  /\ held' = held + 1
  /\ UNCHANGED <<available, returned, queue>>

Abandon(x) ==
  /\ x \in granted
  /\ granted' = granted \ {x}
  /\ UNCHANGED <<available, held, returned, queue>>

\* Nobody waits: what was given back is available to all.
Settle ==
  /\ returned' \in 0..returned - 1
  /\ available' = available + (returned - returned')
  /\ UNCHANGED <<granted, held>>
  /\ queue = <<>> /\ queue' = <<>>

Next ==
  \/ Take \/ Join \/ GiveBack \/ Grant \/ Settle
  \/ \E x \in Requests : Collect(x) \/ Abandon(x)

Spec == Init /\ [][Next]_vars
===============================================================================
