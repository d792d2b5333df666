---------------------------- MODULE SemaphoreQueue ----------------------------
(***************************************************************************)
(* The semaphore implements a queue of requests served in order.            *)
(***************************************************************************)
EXTENDS Semaphore, Sequences

\* Whoever has made itself the tail behind x, and is about to link to it.
Linking(x) == {a \in Actors : pc[a] \in {"link", "sublink"} /\ curr[a] = Ptr(x)}

\* The node behind x, counting the link that a poll, or push_stub, is about to write.
Succ(x) ==
  IF next[x] # Null THEN next[x]
  ELSE IF Linking(x) = {} THEN Null
  ELSE LET a == CHOOSE a \in Linking(x) : TRUE
       IN IF pc[a] = "link" THEN waiter[a] ELSE Stub

\* The request behind x: the stub, wherever it is in the list, holds none.
Behind(x) == IF Succ(x) = Stub THEN Succ(Stub) ELSE Succ(x)
First == IF head = Stub THEN Succ(Stub) ELSE head

\* The requests in the list, from head on, in the order of their links.
Orders ==
  {s \in UNION {[1..k -> Nodes] : k \in 0..Cardinality(Nodes)} :
     \A i, j \in 1..Len(s) : s[i] = s[j] => i = j}

Lists(s) ==
  /\ First = IF s = <<>> THEN Null ELSE s[1]
  /\ \A i \in 1..Len(s) : Behind(s[i]) = IF i < Len(s) THEN s[i + 1] ELSE Null

Enqueued == CHOOSE s \in Orders : Lists(s)

\* A node popped and not yet notified is still the first.
Notified == {hd[a] : a \in {a \in Actors : pc[a] = "notify"}}

Queue == (IF Notified = {} THEN <<>> ELSE <<CHOOSE x \in Notified : TRUE>>) \o Enqueued

PQ == INSTANCE PermitQueue WITH
        Requests <- Nodes,
        available <- AvailablePermits(state),
        queue <- Queue,
        granted <- {x \in Nodes : Owned(x) /\ node[x] = "Assigned"},
        held <- Cardinality(Held),
        returned <- Pending

\* However polls and releases interleave, requests are served first come first
\* served: the order of the compare_exchanges on the word.  No request is lost,
\* served twice or overtaken by a poll that finds permits.
ImplementsPermitQueue == PQ!Spec
===============================================================================
