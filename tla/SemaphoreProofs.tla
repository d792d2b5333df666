---------------------------- MODULE SemaphoreProofs ----------------------------
(***************************************************************************)
(* For any number of tasks and nodes, any cancellations and any spurious    *)
(* polls: one call at a time is past rx_lock, no unwrap or assertion of the *)
(* queue fails, no freed node is reached, and permits are conserved.        *)
(*                                                                          *)
(* The semaphore implements PermitQueue: whatever its pointers go through,  *)
(* the list reached from head spells one sequence of requests, and every    *)
(* step does to that sequence, and to the counts of permits, what           *)
(* PermitQueue lets a step do.  Who waits is in that sequence, so nobody    *)
(* waits while there are permits, nor do all wait for each other.           *)
(***************************************************************************)
EXTENDS SemaphoreQueue, FiniteSetTheorems, SequenceTheorems, WellFoundedInduction, TLAPS

-------------------------------------------------------------------------------
(* The inductive invariant. *)

\* The node of a's Waiter is made ready and is not in the queue yet.
Entering(a) == pc[a] = "revert" \/ (pc[a] = "cas" /\ strong[a] = TRUE)
Popping == {"notify", "wake"}

AllWords == {Num(k) : k \in Nat \ {0}} \cup {Ptr(x) : x \in Nodes \cup {Stub}}

Types ==
  /\ state \in AllWords /\ head \in Nodes \cup {Stub} /\ rxLock \in Nat
  /\ node \in [Nodes -> NodeStates]
  /\ next \in [Nodes \cup {Stub} -> Nodes \cup {Stub, Null}]
  /\ raw \in [Nodes -> Nat]
  /\ waiter \in [Actors -> Nodes \cup {Null}]
  /\ pc \in [Actors -> PCs]
  /\ curr \in [Actors -> AllWords] /\ strong \in [Actors -> BOOLEAN]
  /\ rem \in [Actors -> Nat] /\ n \in [Actors -> Nat]
  /\ hd \in [Actors -> Nodes \cup {Stub}]
  /\ cancels \in Nat

\* rx_lock counts what the releaser has undertaken, and what came since.
LockFits ==
  /\ OneReleaser
  /\ \A a \in Actors :
       /\ pc[a] \in Releasing => rem[a] \in 1 .. rxLock /\ n[a] <= rem[a]
       /\ pc[a] \in Releasing \ {"wake", "sub"} => n[a] >= 1
       /\ pc[a] = "sub" => n[a] = 0
       /\ pc[a] \notin Releasing => rem[a] = 0 /\ n[a] = 0

\* Each Waiter has a node of its own, which is Idle unless the Waiter enters the
\* queue or waits.
WaitersFit ==
  /\ \A a, b \in Actors : waiter[a] = waiter[b] /\ waiter[a] # Null => a = b
  /\ \A a \in Actors :
       /\ pc[a] \in {"link", "queued"} \/ Entering(a) => waiter[a] # Null
       /\ pc[a] = "cas" /\ strong[a] = FALSE => ~IsWaiter(curr[a])
       /\ Entering(a) => /\ node[waiter[a]] = "QueuedWaiting" /\ raw[waiter[a]] >= 1
                         /\ next[waiter[a]] = Null
       /\ waiter[a] # Null /\ pc[a] \notin {"link", "queued"} /\ ~Entering(a) =>
            node[waiter[a]] = "Idle"
  /\ \A x \in Nodes : raw[x] = 0 /\ ~Owned(x) => node[x] = "Idle"

\* What pop and push_stub know of the head and of the node they popped, whose Arc
\* is theirs; the Waiter it belongs to may have been queued again before it is woken.
PopsFit ==
  \A a \in Actors :
    /\ pc[a] \in Popping =>
         /\ hd[a] \in Nodes /\ raw[hd[a]] >= 1
         /\ \A b \in Actors : Entering(b) /\ waiter[b] = hd[a] => raw[hd[a]] >= 2
    /\ pc[a] = "notify" =>
         /\ node[hd[a]] = "QueuedWaiting"
         /\ \A b \in Actors : waiter[b] = hd[a] => pc[b] = "queued"
         /\ IsWaiter(state)
    /\ pc[a] \in {"tail", "stub", "swap", "sublink", "again"} => hd[a] = head /\ head # Stub
    /\ pc[a] \in {"emptyload", "give"} => head = Stub
    /\ pc[a] = "give" => ~HasWaiter(curr[a])
    /\ pc[a] = "swap" => next[Stub] = Null

\* Each Arc is counted once: for a node that is to enter the queue or is in it, and
\* for a node popped until its task has been woken.
Waits(x) == node[x] = "QueuedWaiting" /\ ~\E a \in Actors : pc[a] = "notify" /\ hd[a] = x
Popped(x) == \E a \in Actors : pc[a] \in Popping /\ hd[a] = x

ArcsFit ==
  \A x \in Nodes : raw[x] = (IF Waits(x) THEN 1 ELSE 0) + (IF Popped(x) THEN 1 ELSE 0)

\* The queue is q[lo], ..., q[hi]: from head to the tail in the word.
Listed(q, lo, hi, x) == \E i \in lo .. hi : q[i] = x

Shape(q, lo, hi) ==
  /\ lo <= hi /\ \A i, j \in lo .. hi : q[i] = q[j] => i = j
  /\ q[lo] = head
  /\ \A i \in lo .. hi - 1 : next[q[i]] \in {q[i + 1], Null}
  /\ next[q[hi]] = Null
  /\ IF IsWaiter(state) THEN state = Ptr(q[hi]) ELSE lo = hi /\ head = Stub

\* A poll or a push_stub between its swap and its store to next.
Links(q, lo, hi, a, x) ==
  \E i \in lo .. hi - 1 : curr[a] = Ptr(q[i]) /\ q[i + 1] = x /\ next[q[i]] = Null

Linkers(q, lo, hi) ==
  \A a \in Actors : /\ pc[a] = "link" => Links(q, lo, hi, a, waiter[a])
                    /\ pc[a] = "sublink" => Links(q, lo, hi, a, Stub)

\* Whoever made the gap is about to close it.
Linked(q, lo, hi) ==
  \A i \in lo .. hi - 1 :
    next[q[i]] = Null => \E a \in Actors : pc[a] \in {"link", "sublink"} /\ curr[a] = Ptr(q[i])

\* A node in the queue waits, is kept by an Arc, and belongs to nobody or to a task
\* that waits.
Members(q, lo, hi) ==
  /\ \A x \in Nodes :
       Listed(q, lo, hi, x) => node[x] = "QueuedWaiting" /\ raw[x] >= 1
  /\ \A a \in Actors :
       /\ waiter[a] # Null /\ Listed(q, lo, hi, waiter[a]) => pc[a] \in {"link", "queued"}
       /\ pc[a] \in Popping /\ Listed(q, lo, hi, hd[a]) => pc[a] = "wake" /\ raw[hd[a]] >= 2
       /\ pc[a] \in {"stub", "swap"} => ~Listed(q, lo, hi, Stub)

QueueFits(q, lo, hi) ==
  Shape(q, lo, hi) /\ Linkers(q, lo, hi) /\ Linked(q, lo, hi) /\ Members(q, lo, hi)

\* A permit is lost only with a node whose Waiter was dropped while it waited: when
\* it is assigned one, or before.
Doomed == {x \in Nodes : node[x] = "QueuedWaiting" /\ ~Owned(x)}
Conserved ==
  PermitsInUse <= Permits /\ PermitsInUse >= Permits - cancels + Cardinality(Doomed)

\* The nodes of the tasks that have been assigned a permit.
Served == {x \in Nodes : Owned(x) /\ node[x] = "Assigned"}

Base == Types /\ LockFits /\ WaitersFit /\ PopsFit /\ ArcsFit /\ NoPanic

IInv ==
  /\ Base /\ Conserved
  /\ \E q \in [Nat -> Nodes \cup {Stub}], lo, hi \in Nat : QueueFits(q, lo, hi)

-------------------------------------------------------------------------------
(* What every step rests on. *)

LEMMA WordFacts ==
  /\ \A k : ~IsWaiter(Num(k)) /\ Num(k).permits = k
  /\ \A x : IsWaiter(Ptr(x)) /\ Ptr(x).tail = x
  /\ \A x, y : Ptr(x) = Ptr(y) => x = y
<1>1. \A k : ~IsWaiter(Num(k)) /\ Num(k).permits = k
  BY DEF IsWaiter, Num
<1>2. \A x : IsWaiter(Ptr(x)) /\ Ptr(x).tail = x
  BY DEF IsWaiter, Ptr
<1>3. \A x, y : Ptr(x) = Ptr(y) => x = y
  BY <1>2
<1>4. QED
  BY <1>1, <1>2, <1>3

LEMMA WordCases ==
  ASSUME NEW w \in AllWords
  PROVE  /\ IsWaiter(w) => \E x \in Nodes \cup {Stub} : w = Ptr(x)
         /\ ~IsWaiter(w) => \E k \in Nat \ {0} : w = Num(k)
BY WordFacts DEF AllWords

LEMMA WordTypes ==
  /\ \A x \in Nodes \cup {Stub} : Ptr(x) \in AllWords
  /\ \A k \in Nat \ {0} : Num(k) \in AllWords
BY DEF AllWords

LEMMA NodeFacts ==
  /\ Stub \notin Nodes /\ Null \notin Nodes /\ Null # Stub /\ Null \notin Actors
  /\ Permits \in Nat \ {0}
BY SemaphoreAssumption


\* A swap of the word appends to the queue.
LEMMA Push ==
  ASSUME NEW q \in [Nat -> Nodes \cup {Stub}], NEW lo \in Nat, NEW hi \in Nat, Shape(q, lo, hi),
         NEW x \in Nodes \cup {Stub}, ~Listed(q, lo, hi, x), next[x] = Null,
         state' = Ptr(x), UNCHANGED <<head, next>>
  PROVE  \E p \in [Nat -> Nodes \cup {Stub}] :
           /\ Shape(p, lo, hi + 1)'
           /\ \A i \in lo .. hi : p[i] = q[i]
           /\ hi \in lo .. hi + 1 - 1 /\ p[hi] = q[hi] /\ p[hi + 1] = x /\ next[q[hi]] = Null
           /\ \A y : Listed(p, lo, hi + 1, y) <=> Listed(q, lo, hi, y) \/ y = x
           /\ \A b, y : Links(q, lo, hi, b, y) /\ curr'[b] = curr[b]
                          => Links(p, lo, hi + 1, b, y)'
<1> DEFINE p == [q EXCEPT ![hi + 1] = x]
<1>1. /\ p \in [Nat -> Nodes \cup {Stub}] /\ hi + 1 \in Nat /\ lo <= hi
      /\ p[hi + 1] = x /\ \A i \in lo .. hi : p[i] = q[i]
  BY DEF Shape
<1>2. lo .. hi + 1 = (lo .. hi) \cup {hi + 1} /\ hi \in lo .. hi /\ lo \in lo .. hi
      /\ lo .. hi + 1 - 1 = lo .. hi /\ \A i \in lo .. hi - 1 : i \in lo .. hi /\ i + 1 \in lo .. hi
  BY <1>1
<1> HIDE DEF p
<1>3. Shape(p, lo, hi + 1)'
  <2>1. \A i, j \in lo .. hi + 1 : p[i] = p[j] => i = j
    <3>1. \A i \in lo .. hi : p[i] # x
      BY <1>1 DEF Listed
    <3>2. \A i, j \in lo .. hi : p[i] = p[j] => i = j
      BY <1>1 DEF Shape
    <3>3. QED
      BY <1>1, <1>2, <3>1, <3>2
  <2>2. p[lo] = head' /\ next'[p[hi + 1]] = Null
    BY <1>1, <1>2 DEF Shape
  <2>3. ASSUME NEW i \in lo .. hi PROVE next'[p[i]] \in {p[i + 1], Null}
    <3>1. CASE i = hi
      BY <1>1, <1>2, <3>1 DEF Shape
    <3>2. CASE i # hi
      <4>1. i \in lo .. hi - 1 /\ i + 1 \in lo .. hi
        BY <3>2
      <4>2. QED
        BY <1>1, <4>1 DEF Shape
    <3>3. QED
      BY <3>1, <3>2
  <2>4. IsWaiter(state') /\ state' = Ptr(p[hi + 1])
    BY <1>1, WordFacts
  <2>5. lo <= hi + 1
    BY <1>1
  <2>6. QED
    BY <1>2, <2>1, <2>2, <2>3, <2>4, <2>5 DEF Shape
<1>4. \A y : Listed(p, lo, hi + 1, y) <=> Listed(q, lo, hi, y) \/ y = x
  BY <1>1, <1>2 DEF Listed
<1>5. ASSUME NEW b, NEW y, Links(q, lo, hi, b, y), curr'[b] = curr[b]
      PROVE  Links(p, lo, hi + 1, b, y)'
  <2>1. PICK i \in lo .. hi - 1 : curr[b] = Ptr(q[i]) /\ q[i + 1] = y /\ next[q[i]] = Null
    BY <1>5 DEF Links
  <2>2. i \in lo .. hi /\ i + 1 \in lo .. hi
    BY <1>2
  <2>3. curr'[b] = Ptr(p[i]) /\ p[i + 1] = y /\ next'[p[i]] = Null
    BY <1>1, <1>5, <2>1, <2>2
  <2>4. QED
    BY <1>2, <2>2, <2>3 DEF Links
<1>6. hi \in lo .. hi + 1 - 1 /\ p[hi] = q[hi] /\ next[q[hi]] = Null
  BY <1>1, <1>2 DEF Shape
<1>7. QED
  BY <1>1, <1>3, <1>4, <1>5, <1>6


\* A store to next links what the swap appended.
GapsLeft(q, lo, hi, a) ==
  \A j \in lo .. hi - 1 :
    next'[q[j]] = Null => next[q[j]] = Null /\ curr[a] # Ptr(q[j])

LEMMA Hook ==
  ASSUME NEW q \in [Nat -> Nodes \cup {Stub}], NEW lo \in Nat, NEW hi \in Nat, Shape(q, lo, hi),
         Types, NEW a, NEW y \in Nodes \cup {Stub}, Links(q, lo, hi, a, y),
         next' = [next EXCEPT ![curr[a].tail] = y], UNCHANGED <<head, state>>
  PROVE  /\ Shape(q, lo, hi)'
         /\ Listed(q, lo, hi, curr[a].tail)
         /\ \A b, z : Links(q, lo, hi, b, z) /\ curr'[b] = curr[b] /\ z # y
                        => Links(q, lo, hi, b, z)'
         /\ GapsLeft(q, lo, hi, a)
<1>1. PICK i \in lo .. hi - 1 : curr[a] = Ptr(q[i]) /\ q[i + 1] = y /\ next[q[i]] = Null
  BY DEF Links
<1>2. /\ i \in lo .. hi /\ hi \in lo .. hi /\ i # hi
      /\ \A j \in lo .. hi - 1 : j \in lo .. hi /\ j + 1 \in lo .. hi
      /\ \A j \in lo .. hi : j \in Nat
  OBVIOUS
<1>3. \A j \in lo .. hi : q[i] = q[j] => i = j
  BY <1>2 DEF Shape
<1>4. /\ curr[a].tail = q[i]
      /\ next'[q[i]] = y
      /\ \A j \in lo .. hi : j # i => next'[q[j]] = next[q[j]]
  BY <1>1, <1>2, <1>3, WordFacts DEF Types
<1>5. Shape(q, lo, hi)'
  BY <1>1, <1>2, <1>4 DEF Shape
<1>6. Listed(q, lo, hi, curr[a].tail)
  BY <1>2, <1>4 DEF Listed
<1>7. ASSUME NEW b, NEW z, Links(q, lo, hi, b, z), curr'[b] = curr[b], z # y
      PROVE  Links(q, lo, hi, b, z)'
  <2>1. PICK j \in lo .. hi - 1 : curr[b] = Ptr(q[j]) /\ q[j + 1] = z /\ next[q[j]] = Null
    BY <1>7 DEF Links
  <2>2. j # i
    BY <1>1, <1>7, <2>1
  <2>3. QED
    BY <1>2, <1>4, <1>7, <2>1, <2>2 DEF Links
<1>8. ASSUME NEW j \in lo .. hi - 1, next'[q[j]] = Null
      PROVE  next[q[j]] = Null /\ curr[a] # Ptr(q[j])
  <2>1. j # i
    BY <1>4, <1>8, NodeFacts
  <2>2. q[j] # q[i]
    BY <1>2, <1>3, <2>1
  <2>3. QED
    BY <1>1, <1>2, <1>4, <1>8, <2>1, <2>2, WordFacts
<1>9. QED
  BY <1>5, <1>6, <1>7, <1>8 DEF GapsLeft


\* How a set changes its size.
LEMMA Sizes ==
  ASSUME NEW T, IsFiniteSet(T)
  PROVE  /\ \A S \in SUBSET T : Cardinality(S) \in Nat
         /\ \A S \in SUBSET T, x \in T : x \notin S => Cardinality(S \cup {x}) = Cardinality(S) + 1
         /\ \A S \in SUBSET T, x \in T : x \in S => Cardinality(S \ {x}) = Cardinality(S) - 1
         /\ \A S, R \in SUBSET T : R \subseteq S => Cardinality(R) <= Cardinality(S)
<1>1. \A S \in SUBSET T : IsFiniteSet(S)
  BY FS_Subset
<1>2. \A S \in SUBSET T : Cardinality(S) \in Nat
  BY <1>1, FS_CardinalityType
<1>3. ASSUME NEW S \in SUBSET T, NEW x \in T, x \notin S
      PROVE  Cardinality(S \cup {x}) = Cardinality(S) + 1
  BY <1>1, <1>3, FS_AddElement
<1>4. ASSUME NEW S \in SUBSET T, NEW x \in T, x \in S
      PROVE  Cardinality(S \ {x}) = Cardinality(S) - 1
  BY <1>1, <1>4, FS_RemoveElement
<1>5. ASSUME NEW S \in SUBSET T, NEW R \in SUBSET T, R \subseteq S
      PROVE  Cardinality(R) <= Cardinality(S)
  BY <1>1, <1>5, FS_Subset
<1>6. QED
  BY <1>2, <1>3, <1>4, <1>5

\* Every term of the balance is a number.
LEMMA Terms ==
  ASSUME Types
  PROVE  /\ Cardinality(Held) \in Nat /\ Cardinality(Granted) \in Nat
         /\ Cardinality(Doomed) \in Nat /\ AvailablePermits(state) \in Nat /\ Pending \in Int
         /\ cancels \in Nat /\ Permits \in Nat
<1>1. Held \in SUBSET Actors /\ Granted \in SUBSET Actors /\ Doomed \in SUBSET Nodes
  BY DEF Held, Granted, Doomed
<1>2. /\ Cardinality(Held) \in Nat /\ Cardinality(Granted) \in Nat
      /\ Cardinality(Doomed) \in Nat
  BY <1>1, Sizes, SemaphoreAssumption
<1>3. AvailablePermits(state) \in Nat
  BY WordCases, WordFacts DEF Types, AvailablePermits
<1>4. Pending \in Int
  <2>1. CASE Serving = {}
    BY <2>1 DEF Pending, Types
  <2>2. CASE Serving # {}
    <3>1. (CHOOSE a \in Serving : TRUE) \in Actors
      BY <2>2 DEF Serving
    <3>2. QED
      BY <2>2, <3>1 DEF Pending, Types
  <2>3. QED
    BY <2>1, <2>2
<1>5. QED
  BY <1>2, <1>3, <1>4, NodeFacts DEF Types

\* What is pending when nobody but a can be serving.
PendingFits ==
  \A a \in Actors : Types /\ (\A b \in Actors \ {a} : rem[b] = n[b])
                      => Pending = rxLock - (rem[a] - n[a])

LEMMA PendingOf == PendingFits
<1> SUFFICES ASSUME Types, NEW a \in Actors, \A b \in Actors \ {a} : rem[b] = n[b]
             PROVE  Pending = rxLock - (rem[a] - n[a])
  BY DEF PendingFits
<1>1. CASE rem[a] = n[a]
  <2>1. Serving = {}
    BY <1>1 DEF Serving
  <2>2. QED
    BY <1>1, <2>1 DEF Pending, Types
<1>2. CASE rem[a] # n[a]
  <2>1. Serving = {a}
    BY <1>2 DEF Serving
  <2>2. QED
    BY <2>1 DEF Pending
<1>3. QED
  BY <1>1, <1>2

LEMMA PendingOfNext == PendingFits'
BY PendingOf, PTL

\* What is pending when nobody serves more or less.
LEMMA PendingMoves ==
  ASSUME Types, Types', \A b \in Actors : rem'[b] - n'[b] = rem[b] - n[b]
  PROVE  Pending' = Pending + (rxLock' - rxLock)
<1>1. Serving' = Serving
  BY DEF Serving, Types
<1>2. CASE Serving = {}
  <2>1. Pending = rxLock /\ Pending' = rxLock'
    BY <1>1, <1>2 DEF Pending
  <2>2. \A x, y \in Int : y = x + (y - x)
    OBVIOUS
  <2>3. rxLock \in Int /\ rxLock' \in Int
    BY DEF Types
  <2>4. rxLock' = rxLock + (rxLock' - rxLock)
    BY <2>2, <2>3
  <2>5. QED
    BY <2>1, <2>4, Zenon
<1>3. CASE Serving # {}
  <2> DEFINE a == CHOOSE a \in Serving : TRUE
  <2>1. a \in Actors
    BY <1>3 DEF Serving
  <2> HIDE DEF a
  <2>2. rem'[a] - n'[a] = rem[a] - n[a]
    BY <2>1
  <2>3. Pending = rxLock - (rem[a] - n[a]) /\ Pending' = rxLock' - (rem'[a] - n'[a])
    BY <1>1, <1>3 DEF Pending, a
  <2>4. rem[a] \in Nat /\ n[a] \in Nat /\ rxLock \in Nat
        /\ rem'[a] \in Nat /\ n'[a] \in Nat /\ rxLock' \in Nat
    BY <2>1 DEF Types
  <2>5. QED
    BY <2>2, <2>3, <2>4
<1>4. QED
  BY <1>2, <1>3

\* What a step adds to the permits in the word, in use, and given back.
Moves(i, j, l) ==
  /\ AvailablePermits(state') = AvailablePermits(state) + i
  /\ Cardinality(Held') = Cardinality(Held) + j
  /\ Pending' = Pending + l

\* Whether a step keeps the balance, from what it does to its terms.
LEMMA Balance ==
  ASSUME Types, Types', Conserved,
         NEW i \in Int, NEW j \in Int, NEW k \in Int, NEW l \in Int, Moves(i, j, l),
         Cardinality(Granted') = Cardinality(Granted) + k,
         i + j + k + l <= 0,
         cancels' - Cardinality(Doomed') + i + j + k + l >= cancels - Cardinality(Doomed)
  PROVE  Conserved'
<1>1. /\ Cardinality(Held) \in Nat /\ Cardinality(Granted) \in Nat
      /\ Cardinality(Doomed) \in Nat /\ AvailablePermits(state) \in Nat /\ Pending \in Int
      /\ cancels \in Nat /\ Permits \in Nat
  BY Terms
<1>2. cancels' \in Nat /\ Cardinality(Doomed') \in Nat
  BY Sizes, SemaphoreAssumption DEF Types, Doomed
<1>3. PermitsInUse' = PermitsInUse + i + j + k + l /\ PermitsInUse \in Int
  BY <1>1 DEF PermitsInUse, Moves
<1>4. QED
  BY <1>1, <1>2, <1>3 DEF Conserved

\* Most steps move no permit.
LEMMA Neutral ==
  ASSUME Types, Types', Conserved,
         AvailablePermits(state') = AvailablePermits(state), rxLock' = rxLock,
         cancels' = cancels, Held' = Held, Granted' = Granted, Doomed' \subseteq Doomed,
         \A b \in Actors : rem'[b] - n'[b] = rem[b] - n[b]
  PROVE  Conserved' /\ Moves(0, 0, 0)
<1>1. Pending' = Pending
  BY PendingMoves, Terms DEF Types
<1>2. Cardinality(Doomed') <= Cardinality(Doomed) /\ Cardinality(Doomed') \in Nat
  BY Sizes, SemaphoreAssumption DEF Doomed
<1>3. Moves(0, 0, 0)
  BY <1>1, Terms DEF Moves
<1>4. /\ Cardinality(Granted') = Cardinality(Granted) + 0
      /\ cancels' - Cardinality(Doomed') + 0 + 0 + 0 + 0 >= cancels - Cardinality(Doomed)
  BY <1>2, Terms
<1>5. QED
  BY <1>3, <1>4, Balance

-------------------------------------------------------------------------------
(* Each step preserves the invariant: poll_permit. *)

LEMMA RequestKeeps ==
  ASSUME Base, Conserved, NEW q \in [Nat -> Nodes \cup {Stub}], NEW lo \in Nat, NEW hi \in Nat,
         QueueFits(q, lo, hi), NEW a \in Actors, Request(a)
  PROVE  /\ Base' /\ Conserved' /\ QueueFits(q, lo, hi)'
         /\ Moves(0, 0, 0) /\ Served' = Served
<1>1. pc[a] = "idle"
  BY DEF Request, Poll, Decide, Goto, Set, words, nodes
<1>2. /\ curr' = [curr EXCEPT ![a] = state]
      /\ strong' = [strong EXCEPT ![a] = FALSE]
      /\ \/ IsWaiter(state) /\ pc' = [pc EXCEPT ![a] = "register"]
         \/ ~IsWaiter(state) /\ pc' = [pc EXCEPT ![a] = "cas"]
      /\ UNCHANGED <<state, head, rxLock, node, next, raw, waiter, rem, n, hd, cancels>>
  BY DEF Request, Poll, Decide, Goto, Set, words, nodes
<1>3. Types'
  BY <1>1, <1>2, NodeFacts, WordTypes DEF Base, Types, PCs, NodeStates
<1>4. LockFits'
  BY <1>1, <1>2, NodeFacts DEF Base, Types, LockFits, OneReleaser, Releasing
<1>5. WaitersFit'
  BY <1>1, <1>2, NodeFacts DEF Base, Types, WaitersFit, Entering, Owned
<1>6. PopsFit'
  BY <1>1, <1>2, NodeFacts DEF Base, Types, PopsFit, Popping, Entering
<1>7. ArcsFit'
  BY <1>1, <1>2, NodeFacts DEF Base, Types, ArcsFit, Waits, Popped, Popping
<1>8. NoPanic'
  BY <1>1, <1>2, NodeFacts DEF Base, Types, NoPanic
<1>9. Shape(q, lo, hi)'
  BY <1>1, <1>2, NodeFacts DEF QueueFits, Shape
<1>10. Linkers(q, lo, hi)'
  BY <1>1, <1>2, NodeFacts DEF Base, Types, QueueFits, Linkers, Links
<1>11. Linked(q, lo, hi)'
  BY <1>1, <1>2, NodeFacts DEF Base, Types, QueueFits, Linked
<1>12. Members(q, lo, hi)'
  BY <1>1, <1>2, NodeFacts DEF Base, Types, QueueFits, Members, Listed, Popping
<1>13. Conserved' /\ Moves(0, 0, 0)
  <2>1. Held' = Held
    BY <1>1, <1>2 DEF Held, Base, Types
  <2>2. Granted' = Granted
    BY <1>1, <1>2, NodeFacts DEF Granted, Owned, Base, Types, WaitersFit
  <2>3. Doomed' \subseteq Doomed
    BY <1>1, <1>2, NodeFacts DEF Doomed, Owned, Base, Types
  <2>4. AvailablePermits(state') = AvailablePermits(state)
    BY <1>1, <1>2, WordFacts DEF AvailablePermits
  <2>5. /\ rxLock' = rxLock /\ cancels' = cancels
        /\ \A b \in Actors : rem'[b] - n'[b] = rem[b] - n[b]
    BY <1>1, <1>2 DEF Base, Types, LockFits, Releasing
  <2>6. QED
    BY <1>3, <2>1, <2>2, <2>3, <2>4, <2>5, Neutral DEF Base
<1>14. Served' = Served
  BY <1>1, <1>2, NodeFacts DEF Served, Owned, Base, Types, WaitersFit
<1>15. QED
  BY <1>3, <1>4, <1>5, <1>6, <1>7, <1>8, <1>9, <1>10, <1>11, <1>12, <1>13, <1>14
     DEF Base, QueueFits

LEMMA CasFailsKeeps ==
  ASSUME Base, Conserved, NEW q \in [Nat -> Nodes \cup {Stub}], NEW lo \in Nat, NEW hi \in Nat,
         QueueFits(q, lo, hi), NEW a \in Actors, CasFails(a)
  PROVE  /\ Base' /\ Conserved' /\ QueueFits(q, lo, hi)'
         /\ Moves(0, 0, 0) /\ Served' = Served
<1>1. pc[a] = "cas"
  BY DEF CasFails, Decide, Goto, Set, words, nodes, Base, Types
<1>2. /\ curr' = [curr EXCEPT ![a] = state]
      /\ strong' = strong
      /\ \/ IsWaiter(state) /\ strong[a] = FALSE /\ pc' = [pc EXCEPT ![a] = "register"]
         \/ (~IsWaiter(state) \/ strong[a] = TRUE) /\ pc' = [pc EXCEPT ![a] = "cas"]
      /\ UNCHANGED <<state, head, rxLock, node, next, raw, waiter, rem, n, hd, cancels>>
  BY DEF CasFails, Decide, Goto, Set, words, nodes, Base, Types
<1>3. Types'
  BY <1>1, <1>2, NodeFacts, WordTypes DEF Base, Types, PCs, NodeStates
<1>4. LockFits'
  BY <1>1, <1>2, NodeFacts DEF Base, Types, LockFits, OneReleaser, Releasing
<1>5. WaitersFit'
  BY <1>1, <1>2, NodeFacts DEF Base, Types, WaitersFit, Entering, Owned
<1>6. PopsFit'
  BY <1>1, <1>2, NodeFacts DEF Base, Types, PopsFit, Popping, Entering
<1>7. ArcsFit'
  BY <1>1, <1>2, NodeFacts DEF Base, Types, ArcsFit, Waits, Popped, Popping
<1>8. NoPanic'
  BY <1>1, <1>2, NodeFacts DEF Base, Types, NoPanic
<1>9. Shape(q, lo, hi)'
  BY <1>1, <1>2, NodeFacts DEF QueueFits, Shape
<1>10. Linkers(q, lo, hi)'
  BY <1>1, <1>2, NodeFacts DEF Base, Types, QueueFits, Linkers, Links
<1>11. Linked(q, lo, hi)'
  BY <1>1, <1>2, NodeFacts DEF Base, Types, QueueFits, Linked
<1>12. Members(q, lo, hi)'
  BY <1>1, <1>2, NodeFacts DEF Base, Types, QueueFits, Members, Listed, Popping
<1>13. Conserved' /\ Moves(0, 0, 0)
  <2>1. Held' = Held
    BY <1>1, <1>2 DEF Held, Base, Types
  <2>2. Granted' = Granted
    BY <1>1, <1>2, NodeFacts DEF Granted, Owned, Base, Types, WaitersFit
  <2>3. Doomed' \subseteq Doomed
    BY <1>1, <1>2, NodeFacts DEF Doomed, Owned, Base, Types
  <2>4. AvailablePermits(state') = AvailablePermits(state)
    BY <1>1, <1>2, WordFacts DEF AvailablePermits
  <2>5. /\ rxLock' = rxLock /\ cancels' = cancels
        /\ \A b \in Actors : rem'[b] - n'[b] = rem[b] - n[b]
    BY <1>1, <1>2 DEF Base, Types, LockFits, Releasing
  <2>6. QED
    BY <1>3, <2>1, <2>2, <2>3, <2>4, <2>5, Neutral DEF Base
<1>14. Served' = Served
  BY <1>1, <1>2, NodeFacts DEF Served, Owned, Base, Types, WaitersFit
<1>15. QED
  BY <1>3, <1>4, <1>5, <1>6, <1>7, <1>8, <1>9, <1>10, <1>11, <1>12, <1>13, <1>14
     DEF Base, QueueFits

LEMMA RefusedKeeps ==
  ASSUME Base, Conserved, NEW q \in [Nat -> Nodes \cup {Stub}], NEW lo \in Nat, NEW hi \in Nat,
         QueueFits(q, lo, hi), NEW a \in Actors, Refused(a)
  PROVE  /\ Base' /\ Conserved' /\ QueueFits(q, lo, hi)'
         /\ Moves(0, 0, 0) /\ Served' = Served
<1>1. pc[a] = "register"
  BY DEF Refused, Return, Goto, Set, words, nodes
<1>2. /\ pc' = [pc EXCEPT ![a] = "idle"]
      /\ curr' = [curr EXCEPT ![a] = Ptr(Stub)] /\ strong' = [strong EXCEPT ![a] = FALSE]
      /\ rem' = [rem EXCEPT ![a] = 0] /\ n' = [n EXCEPT ![a] = 0] /\ hd' = [hd EXCEPT ![a] = Stub]
      /\ UNCHANGED <<state, head, rxLock, node, next, raw, waiter, cancels>>
  BY DEF Refused, Return, Goto, Set, words, nodes
<1>3. Types'
  BY <1>1, <1>2, NodeFacts, WordTypes DEF Base, Types, PCs, NodeStates
<1>4. LockFits'
  BY <1>1, <1>2, NodeFacts DEF Base, Types, LockFits, OneReleaser, Releasing
<1>5. WaitersFit'
  BY <1>1, <1>2, NodeFacts DEF Base, Types, WaitersFit, Entering, Owned
<1>6. PopsFit'
  BY <1>1, <1>2, NodeFacts DEF Base, Types, PopsFit, Popping, Entering
<1>7. ArcsFit'
  BY <1>1, <1>2, NodeFacts DEF Base, Types, ArcsFit, Waits, Popped, Popping
<1>8. NoPanic'
  BY <1>1, <1>2, NodeFacts DEF Base, Types, NoPanic
<1>9. Shape(q, lo, hi)'
  BY <1>1, <1>2, NodeFacts DEF QueueFits, Shape
<1>10. Linkers(q, lo, hi)'
  BY <1>1, <1>2, NodeFacts DEF Base, Types, QueueFits, Linkers, Links
<1>11. Linked(q, lo, hi)'
  BY <1>1, <1>2, NodeFacts DEF Base, Types, QueueFits, Linked
<1>12. Members(q, lo, hi)'
  BY <1>1, <1>2, NodeFacts DEF Base, Types, QueueFits, Members, Listed, Popping
<1>13. Conserved' /\ Moves(0, 0, 0)
  <2>1. Held' = Held
    BY <1>1, <1>2 DEF Held, Base, Types
  <2>2. Granted' = Granted
    BY <1>1, <1>2, NodeFacts DEF Granted, Owned, Base, Types, WaitersFit
  <2>3. Doomed' \subseteq Doomed
    BY <1>1, <1>2, NodeFacts DEF Doomed, Owned, Base, Types
  <2>4. AvailablePermits(state') = AvailablePermits(state)
    BY <1>1, <1>2, WordFacts DEF AvailablePermits
  <2>5. /\ rxLock' = rxLock /\ cancels' = cancels
        /\ \A b \in Actors : rem'[b] - n'[b] = rem[b] - n[b]
    BY <1>1, <1>2 DEF Base, Types, LockFits, Releasing
  <2>6. QED
    BY <1>3, <2>1, <2>2, <2>3, <2>4, <2>5, Neutral DEF Base
<1>14. Served' = Served
  BY <1>1, <1>2, NodeFacts DEF Served, Owned, Base, Types, WaitersFit
<1>15. QED
  BY <1>3, <1>4, <1>5, <1>6, <1>7, <1>8, <1>9, <1>10, <1>11, <1>12, <1>13, <1>14
     DEF Base, QueueFits

LEMMA RegisterKeeps ==
  ASSUME Base, Conserved, NEW q \in [Nat -> Nodes \cup {Stub}], NEW lo \in Nat, NEW hi \in Nat,
         QueueFits(q, lo, hi), NEW a \in Actors, Register(a)
  PROVE  /\ Base' /\ Conserved' /\ QueueFits(q, lo, hi)'
         /\ Moves(0, 0, 0) /\ Served' = Served
<1>1. PICK x \in NodesFor(a) :
        /\ waiter' = [waiter EXCEPT ![a] = x]
        /\ IF DebugAsserts /\ node[x] \notin {"Idle", "Queued"}
           THEN Goto(a, "panicked") /\ UNCHANGED <<node, next, raw, locals>>
           ELSE /\ node' = [node EXCEPT ![x] = "QueuedWaiting"]
                /\ IF node[x] \in {"Queued", "QueuedWaiting"}
                   THEN Return(a, "queued") /\ UNCHANGED <<next, raw>>
                   ELSE /\ next' = [next EXCEPT ![x] = Null]
                        /\ raw' = [raw EXCEPT ![x] = raw[x] + 1]
                        /\ strong' = [strong EXCEPT ![a] = TRUE]
                        /\ pc' = [pc EXCEPT ![a] = "cas"]
                        /\ UNCHANGED <<curr, rem, n, hd>>
  BY DEF Register, Set, Goto
<1>2. pc[a] = "register" /\ UNCHANGED <<state, head, rxLock, cancels>>
  BY DEF Register, words
<1>3. x \in Nodes /\ node[x] = "Idle"
  BY <1>2, SemaphoreAssumption DEF NodesFor, Allocated, Base, Types, WaitersFit, Entering
<1>4. /\ \A b \in Actors \ {a} : waiter[b] # x
      /\ ~Listed(q, lo, hi, x)
      /\ \A b \in Actors : pc[b] \in Popping /\ hd[b] = x => pc[b] = "wake" /\ raw[x] >= 1
  BY <1>2, <1>3, NodeFacts
     DEF NodesFor, Allocated, Owned, Base, Types, WaitersFit, PopsFit, Popping, QueueFits,
         Members
<1>5. /\ waiter' = [waiter EXCEPT ![a] = x] /\ node' = [node EXCEPT ![x] = "QueuedWaiting"]
      /\ next' = [next EXCEPT ![x] = Null] /\ raw' = [raw EXCEPT ![x] = raw[x] + 1]
      /\ strong' = [strong EXCEPT ![a] = TRUE] /\ pc' = [pc EXCEPT ![a] = "cas"]
      /\ UNCHANGED <<curr, rem, n, hd>>
  BY <1>1, <1>3
<1>6. Types'
  BY <1>1, <1>2, <1>3, <1>4, <1>5, NodeFacts, WordTypes DEF Base, Types, PCs, NodeStates
<1>7. LockFits'
  BY <1>1, <1>2, <1>3, <1>4, <1>5, NodeFacts DEF Base, Types, LockFits, OneReleaser, Releasing
<1>8. WaitersFit'
  BY <1>1, <1>2, <1>3, <1>4, <1>5, NodeFacts DEF Base, Types, WaitersFit, Entering, Owned
<1>9. PopsFit'
  BY <1>1, <1>2, <1>3, <1>4, <1>5, NodeFacts DEF Base, Types, PopsFit, Popping, Entering
<1>10. ArcsFit'
  BY <1>1, <1>2, <1>3, <1>4, <1>5, NodeFacts DEF Base, Types, ArcsFit, Waits, Popped, Popping
<1>11. NoPanic'
  BY <1>1, <1>2, <1>3, <1>4, <1>5, NodeFacts DEF Base, Types, NoPanic
<1>12. Shape(q, lo, hi)'
  BY <1>1, <1>2, <1>3, <1>4, <1>5, NodeFacts DEF QueueFits, Shape
<1>13. Linkers(q, lo, hi)'
  BY <1>1, <1>2, <1>3, <1>4, <1>5, NodeFacts DEF Base, Types, QueueFits, Linkers, Links
<1>14. Linked(q, lo, hi)'
  <2>1. \A i \in lo .. hi - 1 : i \in lo .. hi /\ q[i] \in Nodes \cup {Stub}
    OBVIOUS
  <2>2. \A i \in lo .. hi - 1 : next'[q[i]] = next[q[i]]
    BY <1>3, <1>4, <1>5, <2>1 DEF Base, Types, Listed
  <2>3. \A b \in Actors : pc[b] \in {"link", "sublink"} => pc'[b] = pc[b] /\ curr'[b] = curr[b]
    BY <1>2, <1>5 DEF Base, Types
  <2>4. QED
    BY <2>2, <2>3 DEF QueueFits, Linked
<1>15. Members(q, lo, hi)'
  BY <1>1, <1>2, <1>3, <1>4, <1>5, NodeFacts
     DEF Base, Types, QueueFits, Members, Listed, Popping
<1>16. Conserved' /\ Moves(0, 0, 0)
  <2>1. Held' = Held
    BY <1>1, <1>2, <1>3, <1>4, <1>5 DEF Held, Base, Types
  <2>2. Granted' = Granted
    BY <1>1, <1>2, <1>3, <1>4, <1>5, NodeFacts DEF Granted, Owned, Base, Types, WaitersFit
  <2>3. Doomed' \subseteq Doomed
    <3>1. \A y \in Nodes : waiter[a] = y => y = x
      BY NodeFacts DEF NodesFor
    <3>2. QED
      BY <1>3, <1>5, <3>1 DEF Doomed, Owned, Base, Types
  <2>4. AvailablePermits(state') = AvailablePermits(state)
    BY <1>1, <1>2, <1>3, <1>4, <1>5, WordFacts DEF AvailablePermits
  <2>5. /\ rxLock' = rxLock /\ cancels' = cancels
        /\ \A b \in Actors : rem'[b] - n'[b] = rem[b] - n[b]
    BY <1>1, <1>2, <1>3, <1>4, <1>5 DEF Base, Types, LockFits, Releasing
  <2>6. QED
    BY <1>6, <2>1, <2>2, <2>3, <2>4, <2>5, Neutral DEF Base
<1>17. Served' = Served
  BY <1>1, <1>2, <1>3, <1>4, <1>5, NodeFacts DEF Served, Owned, Base, Types, WaitersFit
<1>18. QED
  BY <1>6, <1>7, <1>8, <1>9, <1>10, <1>11, <1>12, <1>13, <1>14, <1>15, <1>16, <1>17
     DEF Base, QueueFits

LEMMA CasTakesKeeps ==
  ASSUME Base, Conserved, NEW q \in [Nat -> Nodes \cup {Stub}], NEW lo \in Nat, NEW hi \in Nat,
         QueueFits(q, lo, hi), NEW a \in Actors, CasTakes(a)
  PROVE  /\ Base' /\ Conserved' /\ QueueFits(q, lo, hi)'
         /\ Moves(-1, 1, 0) /\ Served' = Served
<1>1. pc[a] = "cas" /\ ~IsWaiter(state)
  BY DEF CasTakes
<1>2. state' \in AllWords /\ (IsWaiter(state') => state' = Ptr(Stub))
  <2>1. PICK k \in Nat \ {0} : state = Num(k)
    BY <1>1, WordCases DEF Base, Types
  <2>2. state' = IF k = 1 THEN Ptr(Stub) ELSE Num(k - 1)
    BY <2>1, WordFacts DEF CasTakes, AcquirePermit
  <2>3. k = 1 \/ k - 1 \in Nat \ {0}
    OBVIOUS
  <2>4. QED
    BY <2>2, <2>3, WordFacts, WordTypes
<1>3. /\ \/ strong[a] = TRUE /\ pc' = [pc EXCEPT ![a] = "revert"]
         \/ strong[a] = FALSE /\ pc' = [pc EXCEPT ![a] = "holding"]
      /\ curr' = [curr EXCEPT ![a] = Ptr(Stub)] /\ strong' = [strong EXCEPT ![a] = FALSE]
      /\ rem' = [rem EXCEPT ![a] = 0] /\ n' = [n EXCEPT ![a] = 0] /\ hd' = [hd EXCEPT ![a] = Stub]
      /\ UNCHANGED <<head, rxLock, node, next, raw, waiter, cancels>>
  BY DEF CasTakes, Return, Goto, Set, nodes, Base, Types
<1>4. Types'
  BY <1>1, <1>2, <1>3, NodeFacts, WordTypes DEF Base, Types, PCs, NodeStates
<1>5. LockFits'
  BY <1>1, <1>2, <1>3, NodeFacts DEF Base, Types, LockFits, OneReleaser, Releasing
<1>6. WaitersFit'
  BY <1>1, <1>2, <1>3, NodeFacts DEF Base, Types, WaitersFit, Entering, Owned
<1>7. PopsFit'
  BY <1>1, <1>2, <1>3, NodeFacts DEF Base, Types, PopsFit, Popping, Entering
<1>8. ArcsFit'
  BY <1>1, <1>2, <1>3, NodeFacts DEF Base, Types, ArcsFit, Waits, Popped, Popping
<1>9. NoPanic'
  BY <1>1, <1>2, <1>3, NodeFacts DEF Base, Types, NoPanic
<1>10. Shape(q, lo, hi)'
  BY <1>1, <1>2, <1>3, NodeFacts DEF QueueFits, Shape
<1>11. Linkers(q, lo, hi)'
  BY <1>1, <1>2, <1>3, NodeFacts DEF Base, Types, QueueFits, Linkers, Links
<1>12. Linked(q, lo, hi)'
  BY <1>1, <1>2, <1>3, NodeFacts DEF Base, Types, QueueFits, Linked
<1>13. Members(q, lo, hi)'
  BY <1>1, <1>2, <1>3, NodeFacts DEF Base, Types, QueueFits, Members, Listed, Popping
<1>14. Conserved' /\ Moves(-1, 1, 0)
  <2>1. Held' = Held \cup {a} /\ a \notin Held
    BY <1>1, <1>2, <1>3 DEF Held, Base, Types
  <2>2. Granted' = Granted /\ Doomed' = Doomed
    BY <1>1, <1>2, <1>3 DEF Granted, Doomed, Owned, Base, Types
  <2>3. AvailablePermits(state') = AvailablePermits(state) + (-1)
    <3>1. PICK k \in Nat \ {0} : state = Num(k)
      BY <1>1, WordCases DEF Base, Types
    <3>2. state' = IF k = 1 THEN Ptr(Stub) ELSE Num(k - 1)
      BY <3>1, WordFacts DEF CasTakes, AcquirePermit
    <3>3. QED
      BY <3>1, <3>2, WordFacts DEF AvailablePermits
  <2>4. Pending' = Pending + 0
    <3>1. rxLock' = rxLock /\ \A b \in Actors : rem'[b] - n'[b] = rem[b] - n[b]
      BY <1>1, <1>2, <1>3 DEF Base, Types, LockFits, Releasing
    <3>2. QED
      BY <3>1, <1>4, PendingMoves DEF Base, Types
  <2>5. Cardinality(Held') = Cardinality(Held) + 1
    BY <2>1, Sizes, SemaphoreAssumption DEF Held
  <2>6. /\ Cardinality(Granted') = Cardinality(Granted) + 0
        /\ cancels' - Cardinality(Doomed') + (-1) + 1 + 0 + 0 >= cancels - Cardinality(Doomed)
    BY <1>3, <2>2, Terms DEF Base
  <2>7. QED
    BY <2>3, <2>4, <2>5, <2>6, <1>4, Balance DEF Base, Moves
<1>15. Served' = Served
  BY <1>1, <1>2, <1>3, NodeFacts DEF Served, Owned, Base, Types, WaitersFit
<1>16. QED
  BY <1>4, <1>5, <1>6, <1>7, <1>8, <1>9, <1>10, <1>11, <1>12, <1>13, <1>14, <1>15
     DEF Base, QueueFits

LEMMA CasPushesKeeps ==
  ASSUME Base, Conserved, NEW q \in [Nat -> Nodes \cup {Stub}], NEW lo \in Nat, NEW hi \in Nat,
         QueueFits(q, lo, hi), NEW a \in Actors, CasPushes(a)
  PROVE  /\ Base' /\ Conserved' /\ hi + 1 \in Nat
         /\ Moves(0, 0, 0) /\ Served' = Served
         /\ \E p \in [Nat -> Nodes \cup {Stub}] :
              /\ QueueFits(p, lo, hi + 1)' /\ p[hi + 1] = waiter[a]
              /\ \A i \in lo .. hi : p[i] = q[i]
<1>1. /\ pc[a] = "cas" /\ curr[a] = state /\ IsWaiter(state)
      /\ state' = Ptr(waiter[a]) /\ pc' = [pc EXCEPT ![a] = "link"]
      /\ UNCHANGED <<head, rxLock, node, next, raw, waiter, curr, strong, rem, n, hd, cancels>>
  BY DEF CasPushes, Goto, nodes, locals
<1>2. /\ strong[a] = TRUE /\ waiter[a] \in Nodes /\ ~Listed(q, lo, hi, waiter[a])
      /\ node[waiter[a]] = "QueuedWaiting" /\ raw[waiter[a]] >= 1 /\ next[waiter[a]] = Null
  BY <1>1 DEF Base, Types, WaitersFit, Entering, QueueFits, Members
<1>3. PICK p \in [Nat -> Nodes \cup {Stub}] :
        /\ Shape(p, lo, hi + 1)' /\ \A i \in lo .. hi : p[i] = q[i]
        /\ hi \in lo .. hi + 1 - 1 /\ p[hi] = q[hi] /\ p[hi + 1] = waiter[a] /\ next[q[hi]] = Null
        /\ \A y : Listed(p, lo, hi + 1, y) <=> Listed(q, lo, hi, y) \/ y = waiter[a]
        /\ \A b, y : Links(q, lo, hi, b, y) /\ curr'[b] = curr[b] => Links(p, lo, hi + 1, b, y)'
  BY <1>1, <1>2, Push DEF QueueFits
<1>4. state = Ptr(q[hi]) /\ hi + 1 \in Nat
  BY <1>1 DEF QueueFits, Shape
<1>5. Types'
  BY <1>1, <1>2, <1>3, <1>4, NodeFacts, WordTypes DEF Base, Types, PCs, NodeStates
<1>6. LockFits'
  BY <1>1, <1>2, <1>3, <1>4, NodeFacts DEF Base, Types, LockFits, OneReleaser, Releasing
<1>7. WaitersFit'
  BY <1>1, <1>2, <1>3, <1>4, NodeFacts DEF Base, Types, WaitersFit, Entering, Owned
<1>8. PopsFit'
  BY <1>1, <1>2, <1>3, <1>4, NodeFacts, WordFacts DEF Base, Types, PopsFit, Popping, Entering
<1>9. ArcsFit'
  BY <1>1, <1>2, <1>3, <1>4, NodeFacts DEF Base, Types, ArcsFit, Waits, Popped, Popping
<1>10. NoPanic'
  BY <1>1, <1>2, <1>3, <1>4, NodeFacts DEF Base, Types, NoPanic
<1>11. Shape(p, lo, hi + 1)'
  BY <1>3
<1>12. Linkers(p, lo, hi + 1)'
  <2>1. ASSUME NEW b \in Actors, pc'[b] = "link" PROVE Links(p, lo, hi + 1, b, waiter[b])'
    <3>1. CASE b = a
      BY <1>1, <1>3, <1>4, <3>1 DEF Links
    <3>2. CASE b # a
      <4>1. Links(q, lo, hi, b, waiter[b]) /\ curr'[b] = curr[b] /\ waiter'[b] = waiter[b]
        BY <1>1, <2>1, <3>2 DEF QueueFits, Linkers, Base, Types
      <4>2. Links(p, lo, hi + 1, b, waiter[b])'
        <5>1. \A y : Links(q, lo, hi, b, y) => Links(p, lo, hi + 1, b, y)'
          BY <1>3, <4>1
        <5>2. QED
          BY <4>1, <5>1, SMTT(30) DEF Links
      <4>3. QED
        BY <4>2
    <3>3. QED
      BY <3>1, <3>2
  <2>2. ASSUME NEW b \in Actors, pc'[b] = "sublink" PROVE Links(p, lo, hi + 1, b, Stub)'
    <3>1. Links(q, lo, hi, b, Stub) /\ curr'[b] = curr[b]
      BY <1>1, <2>2 DEF QueueFits, Linkers, Base, Types
    <3>2. QED
      BY <1>3, <3>1
  <2>3. QED
    BY <2>1, <2>2 DEF Linkers
<1>13. Linked(p, lo, hi + 1)'
  <2>1. ASSUME NEW i \in lo .. hi + 1 - 1, next'[p[i]] = Null
        PROVE  \E b \in Actors : pc'[b] \in {"link", "sublink"} /\ curr'[b] = Ptr(p[i])
    <3>1. CASE i = hi
      <4>1. pc'[a] \in {"link", "sublink"} /\ curr'[a] = Ptr(p[hi])
        BY <1>1, <1>3, <1>4 DEF Base, Types
      <4>2. QED
        BY <3>1, <4>1
    <3>2. CASE i # hi
      <4>1. i \in lo .. hi - 1 /\ i \in lo .. hi
        BY <3>2
      <4>2. p[i] = q[i] /\ next[q[i]] = Null
        BY <1>1, <1>3, <2>1, <4>1
      <4>3. PICK b \in Actors : pc[b] \in {"link", "sublink"} /\ curr[b] = Ptr(q[i])
        BY <4>1, <4>2 DEF QueueFits, Linked
      <4>4. pc'[b] = pc[b] /\ curr'[b] = curr[b]
        BY <1>1, <4>3 DEF Base, Types
      <4>5. QED
        BY <4>2, <4>3, <4>4
    <3>3. QED
      BY <3>1, <3>2
  <2>2. QED
    BY <2>1 DEF Linked
<1>14. Members(p, lo, hi + 1)'
  <2>1. \A x \in Nodes : Listed(p, lo, hi + 1, x)' => node'[x] = "QueuedWaiting" /\ raw'[x] >= 1
    BY <1>1, <1>2, <1>3 DEF QueueFits, Members, Listed
  <2>2. ASSUME NEW b \in Actors
        PROVE  /\ waiter'[b] # Null /\ Listed(p, lo, hi + 1, waiter'[b])
                    => pc'[b] \in {"link", "queued"}
               /\ pc'[b] \in Popping /\ Listed(p, lo, hi + 1, hd'[b])
                    => pc'[b] = "wake" /\ raw'[hd'[b]] >= 2
               /\ pc'[b] \in {"stub", "swap"} => ~Listed(p, lo, hi + 1, Stub)
    <3>1. /\ waiter'[b] # Null /\ Listed(q, lo, hi, waiter'[b])
               => pc'[b] \in {"link", "queued"}
          /\ pc'[b] \in Popping /\ Listed(q, lo, hi, hd'[b])
               => pc'[b] = "wake" /\ raw'[hd'[b]] >= 2
          /\ pc'[b] \in {"stub", "swap"} => ~Listed(q, lo, hi, Stub)
      BY <1>1 DEF QueueFits, Members, Base, Types, Popping
    <3>2. waiter'[b] = waiter[a] /\ waiter'[b] # Null => pc'[b] \in {"link", "queued"}
      BY <1>1 DEF Base, Types, WaitersFit
    <3>3. pc'[b] \in Popping /\ hd'[b] = waiter[a] => pc'[b] = "wake" /\ raw'[hd'[b]] >= 2
      BY <1>1, <1>2 DEF Base, Types, PopsFit, Popping, Entering
    <3>4. QED
      BY <1>2, <1>3, <3>1, <3>2, <3>3, NodeFacts
  <2>3. QED
    BY <2>1, <2>2 DEF Members, Listed
<1>15. Conserved' /\ Moves(0, 0, 0)
  <2>1. Held' = Held
    BY <1>1, <1>2, <1>3, <1>4 DEF Held, Base, Types
  <2>2. Granted' = Granted
    BY <1>1, <1>2, <1>3, <1>4, NodeFacts DEF Granted, Owned, Base, Types, WaitersFit
  <2>3. Doomed' \subseteq Doomed
    BY <1>1, <1>2, <1>3, <1>4, NodeFacts DEF Doomed, Owned, Base, Types
  <2>4. AvailablePermits(state') = AvailablePermits(state)
    BY <1>1, <1>2, <1>3, <1>4, WordFacts DEF AvailablePermits
  <2>5. /\ rxLock' = rxLock /\ cancels' = cancels
        /\ \A b \in Actors : rem'[b] - n'[b] = rem[b] - n[b]
    BY <1>1, <1>2, <1>3, <1>4 DEF Base, Types, LockFits, Releasing
  <2>6. QED
    BY <1>5, <2>1, <2>2, <2>3, <2>4, <2>5, Neutral DEF Base
<1>16. Served' = Served
  BY <1>1, <1>2, <1>3, <1>4, NodeFacts DEF Served, Owned, Base, Types, WaitersFit
<1>17. QED
  BY <1>5, <1>6, <1>7, <1>8, <1>9, <1>10, <1>11, <1>12, <1>13, <1>14, <1>15, <1>16, <1>3, <1>4
     DEF Base, QueueFits

LEMMA LinkKeeps ==
  ASSUME Base, Conserved, NEW q \in [Nat -> Nodes \cup {Stub}], NEW lo \in Nat, NEW hi \in Nat,
         QueueFits(q, lo, hi), NEW a \in Actors, Link(a)
  PROVE  /\ Base' /\ Conserved' /\ QueueFits(q, lo, hi)'
         /\ Moves(0, 0, 0) /\ Served' = Served
<1>1. /\ pc[a] = "link" /\ next' = [next EXCEPT ![curr[a].tail] = waiter[a]]
      /\ pc' = [pc EXCEPT ![a] = "queued"]
      /\ curr' = [curr EXCEPT ![a] = Ptr(Stub)] /\ strong' = [strong EXCEPT ![a] = FALSE]
      /\ rem' = [rem EXCEPT ![a] = 0] /\ n' = [n EXCEPT ![a] = 0] /\ hd' = [hd EXCEPT ![a] = Stub]
      /\ UNCHANGED <<state, head, rxLock, node, raw, waiter, cancels>>
  BY DEF Link, Return, Goto, Set, words
<1>2. Links(q, lo, hi, a, waiter[a]) /\ waiter[a] \in Nodes
  BY <1>1 DEF QueueFits, Linkers, Base, Types, WaitersFit
<1>3. /\ Shape(q, lo, hi)' /\ Listed(q, lo, hi, curr[a].tail)
      /\ \A b, z : Links(q, lo, hi, b, z) /\ curr'[b] = curr[b] /\ z # waiter[a]
                     => Links(q, lo, hi, b, z)'
      /\ GapsLeft(q, lo, hi, a)
  <2>1. Shape(q, lo, hi) /\ Types
    BY DEF QueueFits, Base
  <2>2. QED
    BY <1>1, <1>2, <2>1, Hook
<1>4. /\ curr[a].tail \in Nodes \cup {Stub}
      /\ \A b \in Actors : Entering(b) => waiter[b] # curr[a].tail
      /\ \A b \in Actors : pc[b] \in {"stub", "swap"} => Stub # curr[a].tail
  BY <1>3 DEF Listed, QueueFits, Members, Base, Types, WaitersFit, Entering
<1>5. Types'
  BY <1>1, <1>2, <1>3, <1>4, NodeFacts, WordTypes DEF Base, Types, PCs, NodeStates
<1>6. LockFits'
  BY <1>1, <1>2, <1>3, <1>4, NodeFacts DEF Base, Types, LockFits, OneReleaser, Releasing
<1>7. WaitersFit'
  BY <1>1, <1>2, <1>3, <1>4, NodeFacts DEF Base, Types, WaitersFit, Entering, Owned
<1>8. PopsFit'
  BY <1>1, <1>2, <1>3, <1>4, NodeFacts DEF Base, Types, PopsFit, Popping, Entering
<1>9. ArcsFit'
  BY <1>1, <1>2, <1>3, <1>4, NodeFacts DEF Base, Types, ArcsFit, Waits, Popped, Popping
<1>10. NoPanic'
  BY <1>1, <1>2, <1>3, <1>4, NodeFacts DEF Base, Types, NoPanic
<1>11. Shape(q, lo, hi)'
  BY <1>3
<1>12. Linkers(q, lo, hi)'
  <2>1. ASSUME NEW b \in Actors, pc'[b] = "link" PROVE Links(q, lo, hi, b, waiter[b])'
    <3>1. b # a /\ pc[b] = "link" /\ curr'[b] = curr[b] /\ waiter'[b] = waiter[b]
      BY <1>1, <2>1 DEF Base, Types
    <3>2. Links(q, lo, hi, b, waiter[b]) /\ waiter[b] # waiter[a]
      BY <1>2, <3>1, NodeFacts DEF QueueFits, Linkers, Base, WaitersFit
    <3>3. Links(q, lo, hi, b, waiter[b])'
      <4>1. \A z : Links(q, lo, hi, b, z) /\ z # waiter[a] => Links(q, lo, hi, b, z)'
        BY <1>3, <3>1
      <4>2. QED
        BY <3>1, <3>2, <4>1 DEF Links
    <3>4. QED
      BY <3>3
  <2>2. ASSUME NEW b \in Actors, pc'[b] = "sublink" PROVE Links(q, lo, hi, b, Stub)'
    <3>1. Links(q, lo, hi, b, Stub) /\ curr'[b] = curr[b] /\ Stub # waiter[a]
      BY <1>1, <1>2, <2>2, NodeFacts DEF QueueFits, Linkers, Base, Types
    <3>2. QED
      BY <1>3, <3>1
  <2>3. QED
    BY <2>1, <2>2 DEF Linkers
<1>13. Linked(q, lo, hi)'
  <2>1. ASSUME NEW i \in lo .. hi - 1, next'[q[i]] = Null
        PROVE  \E b \in Actors : pc'[b] \in {"link", "sublink"} /\ curr'[b] = Ptr(q[i])
    <3>1. next[q[i]] = Null /\ curr[a] # Ptr(q[i])
      BY <1>3, <2>1 DEF GapsLeft
    <3>2. PICK b \in Actors : pc[b] \in {"link", "sublink"} /\ curr[b] = Ptr(q[i])
      BY <3>1 DEF QueueFits, Linked
    <3>3. pc'[b] = pc[b] /\ curr'[b] = curr[b]
      BY <1>1, <3>1, <3>2 DEF Base, Types
    <3>4. QED
      BY <3>2, <3>3
  <2>2. QED
    BY <2>1 DEF Linked
<1>14. Members(q, lo, hi)'
  BY <1>1, <1>2, <1>3, <1>4, NodeFacts DEF Base, Types, QueueFits, Members, Listed, Popping
<1>15. Conserved' /\ Moves(0, 0, 0)
  <2>1. Held' = Held
    BY <1>1, <1>2, <1>3, <1>4 DEF Held, Base, Types
  <2>2. Granted' = Granted
    BY <1>1, <1>2, <1>3, <1>4, NodeFacts DEF Granted, Owned, Base, Types, WaitersFit
  <2>3. Doomed' \subseteq Doomed
    BY <1>1, <1>2, <1>3, <1>4, NodeFacts DEF Doomed, Owned, Base, Types
  <2>4. AvailablePermits(state') = AvailablePermits(state)
    BY <1>1, <1>2, <1>3, <1>4, WordFacts DEF AvailablePermits
  <2>5. /\ rxLock' = rxLock /\ cancels' = cancels
        /\ \A b \in Actors : rem'[b] - n'[b] = rem[b] - n[b]
    BY <1>1, <1>2, <1>3, <1>4 DEF Base, Types, LockFits, Releasing
  <2>6. QED
    BY <1>5, <2>1, <2>2, <2>3, <2>4, <2>5, Neutral DEF Base
<1>16. Served' = Served
  BY <1>1, <1>2, <1>3, <1>4, NodeFacts DEF Served, Owned, Base, Types, WaitersFit
<1>17. QED
  BY <1>5, <1>6, <1>7, <1>8, <1>9, <1>10, <1>11, <1>12, <1>13, <1>14, <1>15, <1>16
     DEF Base, QueueFits

LEMMA RevertKeeps ==
  ASSUME Base, Conserved, NEW q \in [Nat -> Nodes \cup {Stub}], NEW lo \in Nat, NEW hi \in Nat,
         QueueFits(q, lo, hi), NEW a \in Actors, Revert(a)
  PROVE  /\ Base' /\ Conserved' /\ QueueFits(q, lo, hi)'
         /\ Moves(0, 0, 0) /\ Served' = Served
<1>1. /\ pc[a] = "revert" /\ waiter[a] \in Nodes /\ raw[waiter[a]] >= 1
      /\ ~Listed(q, lo, hi, waiter[a])
  BY DEF Revert, Base, Types, WaitersFit, Entering, QueueFits, Members
<1>2. /\ node' = [node EXCEPT ![waiter[a]] = "Idle"]
      /\ raw' = [raw EXCEPT ![waiter[a]] = raw[waiter[a]] - 1]
      /\ pc' = [pc EXCEPT ![a] = "holding"]
      /\ UNCHANGED <<state, head, rxLock, next, waiter, curr, strong, rem, n, hd, cancels>>
  BY DEF Revert, Goto, Set, words, locals
<1>3. \A b \in Actors : pc[b] \in Popping /\ hd[b] = waiter[a] => pc[b] = "wake" /\ raw[waiter[a]] >= 2
  BY <1>1 DEF Base, PopsFit, Popping, Entering
<1>4. Types'
  BY <1>1, <1>2, <1>3, NodeFacts, WordTypes DEF Base, Types, PCs, NodeStates
<1>5. LockFits'
  BY <1>1, <1>2, <1>3, NodeFacts DEF Base, Types, LockFits, OneReleaser, Releasing
<1>6. WaitersFit'
  BY <1>1, <1>2, <1>3, NodeFacts DEF Base, Types, WaitersFit, Entering, Owned
<1>7. PopsFit'
  <2>1. \A b \in Actors : /\ pc'[b] # "holding" => b # a /\ pc'[b] = pc[b]
                          /\ hd'[b] = hd[b] /\ curr'[b] = curr[b] /\ waiter'[b] = waiter[b]
    BY <1>1, <1>2 DEF Base, Types
  <2>2. \A x \in Nodes : x # waiter[a] => node'[x] = node[x] /\ raw'[x] = raw[x]
    BY <1>1, <1>2 DEF Base, Types
  <2>3. \A b \in Actors : Entering(b)' => b # a /\ Entering(b)
    BY <1>2, <2>1 DEF Entering
  <2>4. \A b \in Actors : b # a /\ waiter[b] = waiter[a] => FALSE
    BY <1>1, NodeFacts DEF Base, WaitersFit
  <2>5. raw'[waiter[a]] = raw[waiter[a]] - 1 /\ raw[waiter[a]] \in Nat
    BY <1>1, <1>2 DEF Base, Types
  <2>6. ASSUME NEW b \in Actors, pc'[b] \in Popping
        PROVE  /\ hd'[b] \in Nodes /\ raw'[hd'[b]] >= 1
               /\ \A c \in Actors : Entering(c)' /\ waiter'[c] = hd'[b] => raw'[hd'[b]] >= 2
    <3>1. b # a /\ pc[b] = pc'[b] /\ hd[b] \in Nodes /\ raw[hd[b]] >= 1
      BY <2>1, <2>6 DEF Base, PopsFit, Popping
    <3>2. CASE hd[b] = waiter[a]
      BY <1>3, <2>1, <2>3, <2>4, <2>5, <2>6, <3>1, <3>2
    <3>3. CASE hd[b] # waiter[a]
      BY <2>1, <2>2, <2>3, <2>6, <3>1, <3>3 DEF Base, PopsFit
    <3>4. QED
      BY <3>2, <3>3
  <2>7. ASSUME NEW b \in Actors, pc'[b] = "notify"
        PROVE  /\ node'[hd'[b]] = "QueuedWaiting"
               /\ \A c \in Actors : waiter'[c] = hd'[b] => pc'[c] = "queued"
    <3>1. /\ b # a /\ pc[b] = "notify" /\ hd[b] \in Nodes /\ node[hd[b]] = "QueuedWaiting"
          /\ \A c \in Actors : waiter[c] = hd[b] => pc[c] = "queued"
      BY <2>1, <2>7 DEF Base, PopsFit, Popping
    <3>2. hd[b] # waiter[a]
      BY <1>3, <2>7, <3>1 DEF Popping
    <3>3. \A c \in Actors : c # a => pc'[c] = pc[c]
      BY <1>2 DEF Base, Types
    <3>4. QED
      BY <2>1, <2>2, <3>1, <3>2, <3>3
  <2>8. QED
    BY <1>1, <1>2, <2>1, <2>6, <2>7 DEF Base, PopsFit, HasWaiter
<1>8. ArcsFit'
  BY <1>1, <1>2, <1>3, NodeFacts DEF Base, Types, ArcsFit, Waits, Popped, Popping
<1>9. NoPanic'
  BY <1>1, <1>2, <1>3, NodeFacts DEF Base, Types, NoPanic
<1>10. Shape(q, lo, hi)'
  BY <1>1, <1>2, <1>3, NodeFacts DEF QueueFits, Shape
<1>11. Linkers(q, lo, hi)'
  BY <1>1, <1>2, <1>3, NodeFacts DEF Base, Types, QueueFits, Linkers, Links
<1>12. Linked(q, lo, hi)'
  BY <1>1, <1>2, <1>3, NodeFacts DEF Base, Types, QueueFits, Linked
<1>13. Members(q, lo, hi)'
  BY <1>1, <1>2, <1>3, NodeFacts DEF Base, Types, QueueFits, Members, Listed, Popping
<1>14. Conserved' /\ Moves(0, 0, 0)
  <2>1. Held' = Held
    BY <1>1, <1>2, <1>3 DEF Held, Base, Types
  <2>2. Granted' = Granted
    BY <1>1, <1>2, <1>3, NodeFacts DEF Granted, Owned, Base, Types, WaitersFit
  <2>3. Doomed' \subseteq Doomed
    BY <1>1, <1>2, <1>3, NodeFacts DEF Doomed, Owned, Base, Types
  <2>4. AvailablePermits(state') = AvailablePermits(state)
    BY <1>1, <1>2, <1>3, WordFacts DEF AvailablePermits
  <2>5. /\ rxLock' = rxLock /\ cancels' = cancels
        /\ \A b \in Actors : rem'[b] - n'[b] = rem[b] - n[b]
    BY <1>1, <1>2, <1>3 DEF Base, Types, LockFits, Releasing
  <2>6. QED
    BY <1>4, <2>1, <2>2, <2>3, <2>4, <2>5, Neutral DEF Base
<1>15. Served' = Served
  BY <1>1, <1>2, <1>3, NodeFacts DEF Served, Owned, Base, Types, WaitersFit
<1>16. QED
  BY <1>4, <1>5, <1>6, <1>7, <1>8, <1>9, <1>10, <1>11, <1>12, <1>13, <1>14, <1>15
     DEF Base, QueueFits

-------------------------------------------------------------------------------
(* Each step preserves the invariant: release_one, release_n, pop and push_stub. *)

\* Whoever is past rx_lock is alone there, and has undertaken something.
LEMMA Alone ==
  ASSUME Base, NEW a \in Actors, pc[a] \in Releasing
  PROVE  /\ \A b \in Actors \ {a} : pc[b] \notin Releasing
         /\ rem[a] \in 1 .. rxLock /\ n[a] \in 0 .. rem[a]
         /\ pc[a] \notin {"wake", "sub"} => n[a] >= 1
BY DEF Base, Types, LockFits, OneReleaser

\* The head moves to the next node, and what it left is popped.
LEMMA Advance ==
  ASSUME NEW q \in [Nat -> Nodes \cup {Stub}], NEW lo \in Nat, NEW hi \in Nat, Shape(q, lo, hi),
         Types, next[head] # Null, head' = next[head], UNCHANGED state,
         next' \in {next, [next EXCEPT ![head] = Null]}
  PROVE  /\ lo + 1 \in Nat /\ Shape(q, lo + 1, hi)' /\ Listed(q, lo, hi, head)
         /\ \A y : Listed(q, lo + 1, hi, y) <=> Listed(q, lo, hi, y) /\ y # head
         /\ \A b, y : Links(q, lo, hi, b, y) => y # head
         /\ \A b, y : Links(q, lo, hi, b, y) /\ curr'[b] = curr[b]
                        => Links(q, lo + 1, hi, b, y)'
         /\ \A i \in lo + 1 .. hi - 1 : i \in lo .. hi - 1 /\ next'[q[i]] = next[q[i]]
         /\ IsWaiter(state)
<1>1. /\ lo <= hi /\ head = q[lo] /\ lo \in lo .. hi
      /\ \A i, j \in lo .. hi : q[i] = q[j] => i = j
  BY DEF Shape
<1>2. lo # hi
  BY <1>1 DEF Shape
<1>3. /\ lo + 1 \in lo .. hi /\ lo \in lo .. hi - 1 /\ lo + 1 <= hi /\ hi \in lo .. hi
      /\ \A i \in lo + 1 .. hi : i \in lo .. hi /\ i # lo
      /\ \A i \in lo + 1 .. hi - 1 : i \in lo .. hi - 1 /\ i \in lo .. hi /\ i # lo
      /\ \A i \in lo .. hi - 1 : i \in lo .. hi /\ i + 1 \in lo .. hi /\ i + 1 # lo
      /\ \A i \in lo .. hi : i # lo => i \in lo + 1 .. hi
      /\ \A i \in lo .. hi - 1 : i # lo => i \in lo + 1 .. hi - 1
  BY <1>1, <1>2
<1>4. head' = q[lo + 1]
  BY <1>1, <1>3 DEF Shape
<1>5. \A i \in lo .. hi : i # lo => next'[q[i]] = next[q[i]]
  <2>1. \A i \in lo .. hi : i # lo => q[i] # head
    BY <1>1
  <2>2. QED
    BY <2>1 DEF Types
<1>6. Shape(q, lo + 1, hi)'
  <2>1. IsWaiter(state) /\ state = Ptr(q[hi])
    BY <1>2 DEF Shape
  <2>2. \A i \in lo + 1 .. hi - 1 : next'[q[i]] \in {q[i + 1], Null}
    BY <1>3, <1>5 DEF Shape
  <2>3. next'[q[hi]] = Null
    BY <1>2, <1>3, <1>5 DEF Shape
  <2>4. QED
    BY <1>1, <1>3, <1>4, <2>1, <2>2, <2>3 DEF Shape
<1>7. Listed(q, lo, hi, head)
  BY <1>1 DEF Listed
<1>8. \A y : Listed(q, lo + 1, hi, y) <=> Listed(q, lo, hi, y) /\ y # head
  BY <1>1, <1>3 DEF Listed
<1>9. \A b, y : Links(q, lo, hi, b, y) => y # head
  BY <1>1, <1>3 DEF Links
<1>10. ASSUME NEW b, NEW y, Links(q, lo, hi, b, y), curr'[b] = curr[b]
       PROVE  Links(q, lo + 1, hi, b, y)'
  <2>1. PICK i \in lo .. hi - 1 : curr[b] = Ptr(q[i]) /\ q[i + 1] = y /\ next[q[i]] = Null
    BY <1>10 DEF Links
  <2>2. i # lo
    BY <1>1, <2>1
  <2>3. QED
    BY <1>3, <1>5, <1>10, <2>1, <2>2 DEF Links
<1>11. \A i \in lo + 1 .. hi - 1 : i \in lo .. hi - 1 /\ next'[q[i]] = next[q[i]]
  BY <1>3, <1>5
<1>12. IsWaiter(state)
  BY <1>2 DEF Shape
<1>13. QED
  BY <1>6, <1>7, <1>8, <1>9, <1>10, <1>11, <1>12

LEMMA ReleaseOneKeeps ==
  ASSUME Base, Conserved, NEW q \in [Nat -> Nodes \cup {Stub}], NEW lo \in Nat, NEW hi \in Nat,
         QueueFits(q, lo, hi), NEW a \in Actors, ReleaseOne(a)
  PROVE  /\ Base' /\ Conserved' /\ QueueFits(q, lo, hi)'
         /\ Moves(0, -1, 1) /\ Served' = Served
<1>1. /\ pc[a] = "holding"
      /\ rxLock' = rxLock + 1
      /\ \/ /\ rxLock = 0 /\ pc' = [pc EXCEPT ![a] = "pop"]
            /\ rem' = [rem EXCEPT ![a] = 1] /\ n' = [n EXCEPT ![a] = 1]
         \/ /\ rxLock # 0 /\ pc' = [pc EXCEPT ![a] = "idle"]
            /\ rem' = [rem EXCEPT ![a] = 0] /\ n' = [n EXCEPT ![a] = 0]
      /\ UNCHANGED <<state, head, node, next, raw, waiter, curr, strong, hd, cancels>>
  BY DEF ReleaseOne, Goto, Set, nodes
<1>2. rxLock = 0 => \A b \in Actors : pc[b] \notin Releasing
  BY DEF Base, Types, LockFits
<1>3. Types'
  BY <1>1, <1>2, NodeFacts, WordTypes DEF Base, Types, PCs, NodeStates
<1>4. LockFits'
  BY <1>1, <1>2, NodeFacts DEF Base, Types, LockFits, OneReleaser, Releasing
<1>5. WaitersFit'
  BY <1>1, <1>2, NodeFacts DEF Base, Types, WaitersFit, Entering, Owned
<1>6. PopsFit'
  BY <1>1, <1>2, NodeFacts DEF Base, Types, PopsFit, Popping, Entering
<1>7. ArcsFit'
  BY <1>1, <1>2, NodeFacts DEF Base, Types, ArcsFit, Waits, Popped, Popping
<1>8. NoPanic'
  BY <1>1, <1>2, NodeFacts DEF Base, Types, NoPanic
<1>9. Shape(q, lo, hi)'
  BY <1>1, <1>2, NodeFacts DEF QueueFits, Shape
<1>10. Linkers(q, lo, hi)'
  BY <1>1, <1>2, NodeFacts DEF Base, Types, QueueFits, Linkers, Links
<1>11. Linked(q, lo, hi)'
  BY <1>1, <1>2, NodeFacts DEF Base, Types, QueueFits, Linked
<1>12. Members(q, lo, hi)'
  BY <1>1, <1>2, NodeFacts DEF Base, Types, QueueFits, Members, Listed, Popping
<1>13. Conserved' /\ Moves(0, -1, 1)
  <2>1. Held' = Held \ {a} /\ a \in Held
    BY <1>1, <1>2 DEF Held, Base, Types
  <2>2. Granted' = Granted /\ Doomed' = Doomed
    BY <1>1, <1>2 DEF Granted, Doomed, Owned, Base, Types
  <2>3. Pending' = Pending + 1
    <3>1. \A b \in Actors : rem'[b] - n'[b] = rem[b] - n[b]
      BY <1>1, <1>2 DEF Base, Types, LockFits, Releasing
    <3>2. rxLock' - rxLock = 1
      BY <1>1 DEF Base, Types
    <3>3. QED
      BY <3>1, <3>2, <1>3, PendingMoves DEF Base
  <2>4. Cardinality(Held') = Cardinality(Held) + (-1)
    BY <2>1, Sizes, Terms, SemaphoreAssumption, SMTT(30) DEF Held, Base
  <2>5. /\ Cardinality(Granted') = Cardinality(Granted) + 0
        /\ AvailablePermits(state') = AvailablePermits(state) + 0
        /\ cancels' - Cardinality(Doomed') + 0 + (-1) + 0 + 1 >= cancels - Cardinality(Doomed)
    BY <1>1, <2>2, Terms DEF Base
  <2>6. QED
    BY <2>3, <2>4, <2>5, <1>3, Balance DEF Base, Moves
<1>14. Served' = Served
  BY <1>1, <1>2, NodeFacts DEF Served, Owned, Base, Types, WaitersFit
<1>15. QED
  BY <1>3, <1>4, <1>5, <1>6, <1>7, <1>8, <1>9, <1>10, <1>11, <1>12, <1>13, <1>14
     DEF Base, QueueFits

LEMMA PopFrontKeeps ==
  ASSUME Base, Conserved, NEW q \in [Nat -> Nodes \cup {Stub}], NEW lo \in Nat, NEW hi \in Nat,
         QueueFits(q, lo, hi), NEW a \in Actors, PopFront(a)
  PROVE  /\ Base' /\ Conserved' /\ lo + 1 \in Nat /\ QueueFits(q, lo + 1, hi)'
         /\ Moves(0, 0, 0) /\ Served' = Served
<1>1. /\ pc[a] = "pop"
      /\ next[head] # Null
      /\ head' = next[head]
      /\ hd' = [hd EXCEPT ![a] = head]
      /\ \/ head = Stub /\ next' = next /\ pc' = [pc EXCEPT ![a] = "pop"]
         \/ /\ head # Stub /\ next' = [next EXCEPT ![head] = Null]
            /\ pc' = [pc EXCEPT ![a] = "notify"]
      /\ UNCHANGED <<state, rxLock, node, raw, waiter, curr, strong, rem, n, cancels>>
  BY DEF PopFront, Goto, Set
<1>2. \A b \in Actors \ {a} : pc[b] \notin Releasing
  BY <1>1, Alone DEF Releasing
<1>3. /\ lo + 1 \in Nat /\ Shape(q, lo + 1, hi)' /\ Listed(q, lo, hi, head)
      /\ \A y : Listed(q, lo + 1, hi, y) <=> Listed(q, lo, hi, y) /\ y # head
      /\ \A b, y : Links(q, lo, hi, b, y) => y # head
      /\ \A b, y : Links(q, lo, hi, b, y) /\ curr'[b] = curr[b] => Links(q, lo + 1, hi, b, y)'
      /\ \A i \in lo + 1 .. hi - 1 : i \in lo .. hi - 1 /\ next'[q[i]] = next[q[i]]
      /\ IsWaiter(state)
  BY <1>1, Advance DEF QueueFits, Base
<1>4. head # Stub => /\ head \in Nodes /\ node[head] = "QueuedWaiting" /\ raw[head] >= 1
                     /\ \A b \in Actors : waiter[b] = head => pc[b] = "queued"
  <2>1. head \in Nodes \cup {Stub}
    BY DEF Base, Types
  <2>2. head # Stub => node[head] = "QueuedWaiting" /\ raw[head] >= 1
    BY <1>3, <2>1 DEF QueueFits, Members
  <2>3. ASSUME NEW b \in Actors, waiter[b] = head, head # Stub PROVE pc[b] = "queued"
    BY <1>3, <2>1, <2>3, NodeFacts DEF QueueFits, Members, Linkers
  <2>4. QED
    BY <2>1, <2>2, <2>3
<1>5. Types'
  BY <1>1, <1>2, <1>3, <1>4, NodeFacts, WordTypes, ZenonT(60) DEF Base, Types, PCs, NodeStates
<1>6. LockFits'
  BY <1>1, <1>2, <1>3, <1>4, NodeFacts DEF Base, Types, LockFits, OneReleaser, Releasing
<1>7. WaitersFit'
  BY <1>1, <1>2, <1>3, <1>4, NodeFacts DEF Base, Types, WaitersFit, Entering, Owned
<1>8. PopsFit'
  BY <1>1, <1>2, <1>3, <1>4, NodeFacts DEF Base, Types, PopsFit, Popping, Entering, Releasing
<1>9. ArcsFit'
  <2>1. \A x : ~Popped(x)
    BY <1>1, <1>2 DEF Popped, Popping, Releasing
  <2>2. \A x \in Nodes : x # head => (Waits(x)' <=> Waits(x)) /\ ~Popped(x)'
    <3>1. ASSUME NEW x \in Nodes, x # head, NEW b \in Actors, pc'[b] \in Popping
          PROVE  hd'[b] # x
      BY <1>1, <1>2, <1>4, <3>1 DEF Popping, Releasing, Base, Types
    <3>2. ASSUME NEW b \in Actors PROVE pc[b] # "notify"
      BY <1>1, <1>2 DEF Releasing
    <3>3. QED
      BY <1>1, <3>1, <3>2 DEF Waits, Popped, Popping
  <2>3. \A x \in Nodes : x = head => Waits(x) /\ ~Waits(x)' /\ Popped(x)'
    <3>1. head \in Nodes => /\ node[head] = "QueuedWaiting" /\ pc'[a] = "notify" /\ hd'[a] = head
                            /\ \A b \in Actors : pc[b] # "notify"
      BY <1>1, <1>2, <1>4, NodeFacts DEF Releasing, Base, Types
    <3>2. QED
      BY <3>1 DEF Waits, Popped, Popping
  <2>4. raw' = raw
    BY <1>1
  <2>5. QED
    BY <2>1, <2>2, <2>3, <2>4 DEF Base, Types, ArcsFit
<1>10. NoPanic'
  BY <1>1, <1>2, <1>3, <1>4, NodeFacts DEF Base, Types, NoPanic
<1>11. Shape(q, lo + 1, hi)'
  BY <1>3
<1>12. Linkers(q, lo + 1, hi)'
  <2>1. \A b \in Actors : pc'[b] \in {"link", "sublink"} =>
           pc'[b] = pc[b] /\ curr'[b] = curr[b] /\ waiter'[b] = waiter[b]
    BY <1>1 DEF Base, Types
  <2>2. \A b \in Actors : pc'[b] = "link" => Links(q, lo + 1, hi, b, waiter[b])'
    <3>1. ASSUME NEW b \in Actors, pc'[b] = "link" PROVE Links(q, lo + 1, hi, b, waiter[b])'
      <4>1. Links(q, lo, hi, b, waiter[b]) /\ curr'[b] = curr[b] /\ waiter'[b] = waiter[b]
        BY <2>1, <3>1 DEF QueueFits, Linkers
      <4>2. Links(q, lo + 1, hi, b, waiter[b])'
        <5>1. \A y : Links(q, lo, hi, b, y) => Links(q, lo + 1, hi, b, y)'
          BY <1>3, <4>1
        <5>2. QED
          BY <4>1, <5>1 DEF Links
      <4>3. QED
        BY <4>2
    <3>2. QED
      BY <3>1
  <2>3. \A b \in Actors : pc'[b] = "sublink" => Links(q, lo + 1, hi, b, Stub)'
    BY <1>3, <2>1 DEF QueueFits, Linkers
  <2>4. QED
    BY <2>2, <2>3 DEF Linkers
<1>13. Linked(q, lo + 1, hi)'
  <2>1. ASSUME NEW i \in lo + 1 .. hi - 1, next'[q[i]] = Null
        PROVE  \E b \in Actors : pc'[b] \in {"link", "sublink"} /\ curr'[b] = Ptr(q[i])
    <3>1. i \in lo .. hi - 1 /\ next[q[i]] = Null
      BY <1>3, <2>1
    <3>2. PICK b \in Actors : pc[b] \in {"link", "sublink"} /\ curr[b] = Ptr(q[i])
      BY <3>1 DEF QueueFits, Linked
    <3>3. pc'[b] = pc[b] /\ curr'[b] = curr[b]
      BY <1>1, <3>2 DEF Base, Types
    <3>4. QED
      BY <3>2, <3>3
  <2>2. QED
    BY <2>1 DEF Linked
<1>14. Members(q, lo + 1, hi)'
  <2>1. \A y : Listed(q, lo + 1, hi, y) => Listed(q, lo, hi, y) /\ y # head
    BY <1>3 DEF Listed
  <2>2. \A x \in Nodes : Listed(q, lo + 1, hi, x) => node'[x] = "QueuedWaiting" /\ raw'[x] >= 1
    BY <1>1, <2>1 DEF QueueFits, Members
  <2>3. ASSUME NEW b \in Actors
        PROVE  /\ waiter'[b] # Null /\ Listed(q, lo + 1, hi, waiter'[b])
                    => pc'[b] \in {"link", "queued"}
               /\ pc'[b] \in Popping /\ Listed(q, lo + 1, hi, hd'[b])
                    => pc'[b] = "wake" /\ raw'[hd'[b]] >= 2
               /\ pc'[b] \in {"stub", "swap"} => ~Listed(q, lo + 1, hi, Stub)
    <3>1. waiter'[b] # Null /\ Listed(q, lo + 1, hi, waiter'[b]) => pc'[b] \in {"link", "queued"}
      BY <1>1, <2>1 DEF QueueFits, Members, Base, Types
    <3>2. CASE b = a
      BY <1>1, <2>1, <3>1, <3>2, ZenonT(60) DEF Base, Types, Popping, Listed, PopsFit
    <3>3. CASE b # a
      BY <1>1, <1>2, <3>1, <3>3 DEF Base, Types, Popping, Releasing, Listed
    <3>4. QED
      BY <3>2, <3>3
  <2>4. QED
    BY <2>2, <2>3 DEF Members
<1>15. Conserved' /\ Moves(0, 0, 0)
  <2>1. Held' = Held
    BY <1>1, <1>2, <1>3, <1>4 DEF Held, Base, Types
  <2>2. Granted' = Granted
    BY <1>1, <1>2, <1>3, <1>4, NodeFacts DEF Granted, Owned, Base, Types, WaitersFit
  <2>3. Doomed' \subseteq Doomed
    BY <1>1, <1>2, <1>3, <1>4, NodeFacts DEF Doomed, Owned, Base, Types
  <2>4. AvailablePermits(state') = AvailablePermits(state)
    BY <1>1, <1>2, <1>3, <1>4, WordFacts DEF AvailablePermits
  <2>5. /\ rxLock' = rxLock /\ cancels' = cancels
        /\ \A b \in Actors : rem'[b] - n'[b] = rem[b] - n[b]
    BY <1>1, <1>2, <1>3, <1>4 DEF Base, Types, LockFits, Releasing
  <2>6. QED
    BY <1>5, <2>1, <2>2, <2>3, <2>4, <2>5, Neutral DEF Base
<1>16. Served' = Served
  BY <1>1, <1>2, <1>3, <1>4, NodeFacts DEF Served, Owned, Base, Types, WaitersFit
<1>17. QED
  BY <1>5, <1>6, <1>7, <1>8, <1>9, <1>10, <1>11, <1>12, <1>13, <1>14, <1>15, <1>16, <1>3, <1>4
     DEF Base, QueueFits

LEMMA PopEndKeeps ==
  ASSUME Base, Conserved, NEW q \in [Nat -> Nodes \cup {Stub}], NEW lo \in Nat, NEW hi \in Nat,
         QueueFits(q, lo, hi), NEW a \in Actors, PopEnd(a)
  PROVE  /\ Base' /\ Conserved' /\ QueueFits(q, lo, hi)'
         /\ Moves(0, 0, 0) /\ Served' = Served
<1>1. /\ pc[a] = "pop"
      /\ next[head] = Null
      /\ hd' = [hd EXCEPT ![a] = head]
      /\ \/ head = Stub /\ pc' = [pc EXCEPT ![a] = "emptyload"]
         \/ head # Stub /\ pc' = [pc EXCEPT ![a] = "tail"]
      /\ UNCHANGED <<state, head, rxLock, node, next, raw, waiter, curr, strong, rem, n,
                     cancels>>
  BY DEF PopEnd, Goto, Set, words, nodes
<1>2. \A b \in Actors \ {a} : pc[b] \notin Releasing
  BY <1>1, Alone DEF Releasing
<1>3. Types'
  BY <1>1, <1>2, NodeFacts, WordTypes DEF Base, Types, PCs, NodeStates
<1>4. LockFits'
  BY <1>1, <1>2, NodeFacts DEF Base, Types, LockFits, OneReleaser, Releasing
<1>5. WaitersFit'
  BY <1>1, <1>2, NodeFacts DEF Base, Types, WaitersFit, Entering, Owned
<1>6. PopsFit'
  BY <1>1, <1>2, NodeFacts DEF Base, Types, PopsFit, Popping, Entering, Releasing
<1>7. ArcsFit'
  BY <1>1, <1>2, NodeFacts DEF Base, Types, ArcsFit, Waits, Popped, Popping
<1>8. NoPanic'
  BY <1>1, <1>2, NodeFacts DEF Base, Types, NoPanic
<1>9. Shape(q, lo, hi)'
  BY <1>1, <1>2, NodeFacts DEF QueueFits, Shape
<1>10. Linkers(q, lo, hi)'
  BY <1>1, <1>2, NodeFacts DEF Base, Types, QueueFits, Linkers, Links
<1>11. Linked(q, lo, hi)'
  BY <1>1, <1>2, NodeFacts DEF Base, Types, QueueFits, Linked
<1>12. Members(q, lo, hi)'
  BY <1>1, <1>2, NodeFacts DEF Base, Types, QueueFits, Members, Listed, Popping, Releasing
<1>13. Conserved' /\ Moves(0, 0, 0)
  <2>1. Held' = Held
    BY <1>1, <1>2 DEF Held, Base, Types
  <2>2. Granted' = Granted
    BY <1>1, <1>2, NodeFacts DEF Granted, Owned, Base, Types, WaitersFit
  <2>3. Doomed' \subseteq Doomed
    BY <1>1, <1>2, NodeFacts DEF Doomed, Owned, Base, Types
  <2>4. AvailablePermits(state') = AvailablePermits(state)
    BY <1>1, <1>2, WordFacts DEF AvailablePermits
  <2>5. /\ rxLock' = rxLock /\ cancels' = cancels
        /\ \A b \in Actors : rem'[b] - n'[b] = rem[b] - n[b]
    BY <1>1, <1>2 DEF Base, Types, LockFits, Releasing
  <2>6. QED
    BY <1>3, <2>1, <2>2, <2>3, <2>4, <2>5, Neutral DEF Base
<1>14. Served' = Served
  BY <1>1, <1>2, NodeFacts DEF Served, Owned, Base, Types, WaitersFit
<1>15. QED
  BY <1>3, <1>4, <1>5, <1>6, <1>7, <1>8, <1>9, <1>10, <1>11, <1>12, <1>13, <1>14
     DEF Base, QueueFits

LEMMA EmptyLoadKeeps ==
  ASSUME Base, Conserved, NEW q \in [Nat -> Nodes \cup {Stub}], NEW lo \in Nat, NEW hi \in Nat,
         QueueFits(q, lo, hi), NEW a \in Actors, EmptyLoad(a)
  PROVE  /\ Base' /\ Conserved' /\ QueueFits(q, lo, hi)'
         /\ Moves(0, 0, 0) /\ Served' = Served
<1>1. pc[a] = "emptyload"
  BY DEF EmptyLoad
<1>2. /\ curr' = [curr EXCEPT ![a] = state]
      /\ \/ HasWaiter(state) /\ pc' = [pc EXCEPT ![a] = "pop"]
         \/ ~HasWaiter(state) /\ pc' = [pc EXCEPT ![a] = "give"]
      /\ UNCHANGED <<state, head, rxLock, node, next, raw, waiter, strong, rem, n, hd, cancels>>
  BY DEF EmptyLoad, SeeEmpty, Goto, Set, words, nodes
<1>3. \A b \in Actors \ {a} : pc[b] \notin Releasing
  BY <1>1, Alone DEF Releasing
<1>4. Types'
  BY <1>1, <1>2, <1>3, NodeFacts, WordTypes DEF Base, Types, PCs, NodeStates
<1>5. LockFits'
  BY <1>1, <1>2, <1>3, NodeFacts DEF Base, Types, LockFits, OneReleaser, Releasing
<1>6. WaitersFit'
  BY <1>1, <1>2, <1>3, NodeFacts DEF Base, Types, WaitersFit, Entering, Owned
<1>7. PopsFit'
  BY <1>1, <1>2, <1>3, NodeFacts DEF Base, Types, PopsFit, Popping, Entering, Releasing
<1>8. ArcsFit'
  BY <1>1, <1>2, <1>3, NodeFacts DEF Base, Types, ArcsFit, Waits, Popped, Popping
<1>9. NoPanic'
  BY <1>1, <1>2, <1>3, NodeFacts DEF Base, Types, NoPanic
<1>10. Shape(q, lo, hi)'
  BY <1>1, <1>2, <1>3, NodeFacts DEF QueueFits, Shape
<1>11. Linkers(q, lo, hi)'
  BY <1>1, <1>2, <1>3, NodeFacts DEF Base, Types, QueueFits, Linkers, Links
<1>12. Linked(q, lo, hi)'
  BY <1>1, <1>2, <1>3, NodeFacts DEF Base, Types, QueueFits, Linked
<1>13. Members(q, lo, hi)'
  BY <1>1, <1>2, <1>3, NodeFacts DEF Base, Types, QueueFits, Members, Listed, Popping, Releasing
<1>14. Conserved' /\ Moves(0, 0, 0)
  <2>1. Held' = Held
    BY <1>1, <1>2, <1>3 DEF Held, Base, Types
  <2>2. Granted' = Granted
    BY <1>1, <1>2, <1>3, NodeFacts DEF Granted, Owned, Base, Types, WaitersFit
  <2>3. Doomed' \subseteq Doomed
    BY <1>1, <1>2, <1>3, NodeFacts DEF Doomed, Owned, Base, Types
  <2>4. AvailablePermits(state') = AvailablePermits(state)
    BY <1>1, <1>2, <1>3, WordFacts DEF AvailablePermits
  <2>5. /\ rxLock' = rxLock /\ cancels' = cancels
        /\ \A b \in Actors : rem'[b] - n'[b] = rem[b] - n[b]
    BY <1>1, <1>2, <1>3 DEF Base, Types, LockFits, Releasing
  <2>6. QED
    BY <1>4, <2>1, <2>2, <2>3, <2>4, <2>5, Neutral DEF Base
<1>15. Served' = Served
  BY <1>1, <1>2, <1>3, NodeFacts DEF Served, Owned, Base, Types, WaitersFit
<1>16. QED
  BY <1>4, <1>5, <1>6, <1>7, <1>8, <1>9, <1>10, <1>11, <1>12, <1>13, <1>14, <1>15
     DEF Base, QueueFits

LEMMA GiveFailsKeeps ==
  ASSUME Base, Conserved, NEW q \in [Nat -> Nodes \cup {Stub}], NEW lo \in Nat, NEW hi \in Nat,
         QueueFits(q, lo, hi), NEW a \in Actors, GiveFails(a)
  PROVE  /\ Base' /\ Conserved' /\ QueueFits(q, lo, hi)'
         /\ Moves(0, 0, 0) /\ Served' = Served
<1>1. pc[a] = "give"
  BY DEF GiveFails
<1>2. /\ curr' = [curr EXCEPT ![a] = state]
      /\ \/ HasWaiter(state) /\ pc' = [pc EXCEPT ![a] = "pop"]
         \/ ~HasWaiter(state) /\ pc' = [pc EXCEPT ![a] = "give"]
      /\ UNCHANGED <<state, head, rxLock, node, next, raw, waiter, strong, rem, n, hd, cancels>>
  BY DEF GiveFails, SeeEmpty, Goto, Set, words, nodes
<1>3. \A b \in Actors \ {a} : pc[b] \notin Releasing
  BY <1>1, Alone DEF Releasing
<1>4. Types'
  BY <1>1, <1>2, <1>3, NodeFacts, WordTypes DEF Base, Types, PCs, NodeStates
<1>5. LockFits'
  BY <1>1, <1>2, <1>3, NodeFacts DEF Base, Types, LockFits, OneReleaser, Releasing
<1>6. WaitersFit'
  BY <1>1, <1>2, <1>3, NodeFacts DEF Base, Types, WaitersFit, Entering, Owned
<1>7. PopsFit'
  BY <1>1, <1>2, <1>3, NodeFacts DEF Base, Types, PopsFit, Popping, Entering, Releasing
<1>8. ArcsFit'
  BY <1>1, <1>2, <1>3, NodeFacts DEF Base, Types, ArcsFit, Waits, Popped, Popping
<1>9. NoPanic'
  BY <1>1, <1>2, <1>3, NodeFacts DEF Base, Types, NoPanic
<1>10. Shape(q, lo, hi)'
  BY <1>1, <1>2, <1>3, NodeFacts DEF QueueFits, Shape
<1>11. Linkers(q, lo, hi)'
  BY <1>1, <1>2, <1>3, NodeFacts DEF Base, Types, QueueFits, Linkers, Links
<1>12. Linked(q, lo, hi)'
  BY <1>1, <1>2, <1>3, NodeFacts DEF Base, Types, QueueFits, Linked
<1>13. Members(q, lo, hi)'
  BY <1>1, <1>2, <1>3, NodeFacts DEF Base, Types, QueueFits, Members, Listed, Popping, Releasing
<1>14. Conserved' /\ Moves(0, 0, 0)
  <2>1. Held' = Held
    BY <1>1, <1>2, <1>3 DEF Held, Base, Types
  <2>2. Granted' = Granted
    BY <1>1, <1>2, <1>3, NodeFacts DEF Granted, Owned, Base, Types, WaitersFit
  <2>3. Doomed' \subseteq Doomed
    BY <1>1, <1>2, <1>3, NodeFacts DEF Doomed, Owned, Base, Types
  <2>4. AvailablePermits(state') = AvailablePermits(state)
    BY <1>1, <1>2, <1>3, WordFacts DEF AvailablePermits
  <2>5. /\ rxLock' = rxLock /\ cancels' = cancels
        /\ \A b \in Actors : rem'[b] - n'[b] = rem[b] - n[b]
    BY <1>1, <1>2, <1>3 DEF Base, Types, LockFits, Releasing
  <2>6. QED
    BY <1>4, <2>1, <2>2, <2>3, <2>4, <2>5, Neutral DEF Base
<1>15. Served' = Served
  BY <1>1, <1>2, <1>3, NodeFacts DEF Served, Owned, Base, Types, WaitersFit
<1>16. QED
  BY <1>4, <1>5, <1>6, <1>7, <1>8, <1>9, <1>10, <1>11, <1>12, <1>13, <1>14, <1>15
     DEF Base, QueueFits

LEMMA GiveKeeps ==
  ASSUME Base, Conserved, NEW q \in [Nat -> Nodes \cup {Stub}], NEW lo \in Nat, NEW hi \in Nat,
         QueueFits(q, lo, hi), NEW a \in Actors, Give(a)
  PROVE  /\ Base' /\ Conserved' /\ QueueFits(q, lo, hi)'
         /\ Moves(n[a], 0, -n[a]) /\ Served' = Served
<1>1. /\ pc[a] = "give"
      /\ curr[a] = state
      /\ state' = ReleasePermits(state, n[a])
      /\ n' = [n EXCEPT ![a] = 0]
      /\ pc' = [pc EXCEPT ![a] = "sub"]
      /\ UNCHANGED <<head, rxLock, node, next, raw, waiter, curr, strong, rem, hd, cancels>>
  BY DEF Give, Goto, Set, nodes
<1>2. \A b \in Actors \ {a} : pc[b] \notin Releasing
  BY <1>1, Alone DEF Releasing
<1>3. lo = hi /\ head = Stub
  <2>1. head = Stub /\ q[lo] = head /\ lo <= hi /\ \A i, j \in lo .. hi : q[i] = q[j] => i = j
    BY <1>1 DEF Base, PopsFit, QueueFits, Shape
  <2>2. CASE IsWaiter(state)
    <3>1. state = Ptr(q[hi]) /\ state = Ptr(Stub)
      BY <1>1, <2>2 DEF QueueFits, Shape, Base, PopsFit, HasWaiter
    <3>2. q[hi] = Stub
      BY <3>1, WordFacts
    <3>3. QED
      BY <2>1, <3>2
  <2>3. CASE ~IsWaiter(state)
    BY <2>3 DEF QueueFits, Shape
  <2>4. QED
    BY <2>2, <2>3
<1>4. state' \in AllWords /\ ~IsWaiter(state')
  <2>1. n[a] \in Nat \ {0}
    BY <1>1, Alone DEF Releasing, Base, Types
  <2>2. AvailablePermits(state) \in Nat
    BY WordCases, WordFacts DEF AvailablePermits, Base, Types
  <2>3. AvailablePermits(state) + n[a] \in Nat \ {0}
    BY <2>1, <2>2
  <2>4. QED
    BY <1>1, <2>3, WordFacts, WordTypes DEF ReleasePermits
<1>5. Types'
  BY <1>1, <1>2, <1>3, <1>4, NodeFacts, WordTypes DEF Base, Types, PCs, NodeStates
<1>6. LockFits'
  BY <1>1, <1>2, <1>3, <1>4, NodeFacts DEF Base, Types, LockFits, OneReleaser, Releasing
<1>7. WaitersFit'
  BY <1>1, <1>2, <1>3, <1>4, NodeFacts DEF Base, Types, WaitersFit, Entering, Owned
<1>8. PopsFit'
  BY <1>1, <1>2, <1>3, <1>4, NodeFacts DEF Base, Types, PopsFit, Popping, Entering, Releasing
<1>9. ArcsFit'
  BY <1>1, <1>2, <1>3, <1>4, NodeFacts DEF Base, Types, ArcsFit, Waits, Popped, Popping
<1>10. NoPanic'
  BY <1>1, <1>2, <1>3, <1>4, NodeFacts DEF Base, Types, NoPanic
<1>11. Shape(q, lo, hi)'
  BY <1>1, <1>2, <1>3, <1>4, NodeFacts DEF QueueFits, Shape
<1>12. Linkers(q, lo, hi)'
  BY <1>1, <1>2, <1>3, <1>4, NodeFacts DEF Base, Types, QueueFits, Linkers, Links
<1>13. Linked(q, lo, hi)'
  BY <1>1, <1>2, <1>3, <1>4, NodeFacts DEF Base, Types, QueueFits, Linked
<1>14. Members(q, lo, hi)'
  BY <1>1, <1>2, <1>3, <1>4, NodeFacts
     DEF Base, Types, QueueFits, Members, Listed, Popping, Releasing
<1>15. Conserved' /\ Moves(n[a], 0, -n[a])
  <2>1. Held' = Held /\ Granted' = Granted /\ Doomed' = Doomed
    BY <1>1 DEF Held, Granted, Doomed, Owned, Base, Types
  <2>2. n[a] \in Nat /\ rem[a] \in Nat /\ rxLock \in Nat /\ AvailablePermits(state) \in Nat
    BY Terms DEF Base, Types
  <2>3. Pending = rxLock - (rem[a] - n[a])
    <3>1. \A b \in Actors \ {a} : rem[b] = n[b]
      BY <1>2 DEF Base, LockFits
    <3>2. QED
      BY <3>1, PendingOf DEF PendingFits, Base
  <2>4. Pending' = rxLock' - (rem'[a] - n'[a])
    <3>1. \A b \in Actors \ {a} : rem'[b] = n'[b]
      BY <1>1, <1>2 DEF Base, Types, LockFits
    <3>2. QED
      BY <3>1, <1>5, PendingOfNext DEF PendingFits
  <2>5. Pending' = Pending + (-n[a])
    BY <1>1, <2>2, <2>3, <2>4 DEF Base, Types
  <2>6. AvailablePermits(state') = AvailablePermits(state) + n[a]
    BY <1>1, WordFacts DEF ReleasePermits, AvailablePermits
  <2>7. /\ Cardinality(Held') = Cardinality(Held) + 0
        /\ Cardinality(Granted') = Cardinality(Granted) + 0
        /\ cancels' - Cardinality(Doomed') + n[a] + 0 + 0 + (-n[a])
             >= cancels - Cardinality(Doomed)
    BY <1>1, <2>1, <2>2, Terms DEF Base
  <2>8. n[a] + 0 + 0 + (-n[a]) <= 0 /\ n[a] \in Int /\ -n[a] \in Int
    BY <2>2
  <2>9. QED
    BY <2>5, <2>6, <2>7, <2>8, <1>5, Balance DEF Base, Moves
<1>16. Served' = Served
  BY <1>1, <1>2, <1>3, <1>4, NodeFacts DEF Served, Owned, Base, Types, WaitersFit
<1>17. QED
  BY <1>5, <1>6, <1>7, <1>8, <1>9, <1>10, <1>11, <1>12, <1>13, <1>14, <1>15, <1>16
     DEF Base, QueueFits

LEMMA TailLoadKeeps ==
  ASSUME Base, Conserved, NEW q \in [Nat -> Nodes \cup {Stub}], NEW lo \in Nat, NEW hi \in Nat,
         QueueFits(q, lo, hi), NEW a \in Actors, TailLoad(a)
  PROVE  /\ Base' /\ Conserved' /\ QueueFits(q, lo, hi)'
         /\ Moves(0, 0, 0) /\ Served' = Served
<1>1. /\ pc[a] = "tail"
      /\ pc' = [pc EXCEPT ![a] = IF ~IsWaiter(state) THEN "panicked"
                                    ELSE IF state = Ptr(hd[a]) THEN "stub" ELSE "pop"]
      /\ UNCHANGED <<state, head, rxLock, node, next, raw, waiter, curr, strong, rem, n, hd,
                     cancels>>
  BY DEF TailLoad, Goto, Set, words, nodes, locals
<1>2. \A b \in Actors \ {a} : pc[b] \notin Releasing
  BY <1>1, Alone DEF Releasing
<1>3. hd[a] = head /\ head # Stub /\ IsWaiter(state) /\ state = Ptr(q[hi]) /\ q[lo] = head
  BY <1>1 DEF Base, PopsFit, QueueFits, Shape
<1>4. \/ pc' = [pc EXCEPT ![a] = "stub"] /\ ~Listed(q, lo, hi, Stub)
      \/ pc' = [pc EXCEPT ![a] = "pop"]
  <2>1. CASE state = Ptr(hd[a])
    <3>1. q[hi] = q[lo] /\ lo = hi
      <4>1. Ptr(q[hi]) = Ptr(q[lo])
        BY <1>3, <2>1
      <4>2. q[hi] = q[lo]
        BY <4>1, WordFacts
      <4>3. lo \in lo .. hi /\ hi \in lo .. hi /\ \A i, j \in lo .. hi : q[i] = q[j] => i = j
        BY DEF QueueFits, Shape
      <4>4. QED
        BY <4>2, <4>3
    <3>2. ~Listed(q, lo, hi, Stub)
      BY <1>3, <3>1 DEF Listed
    <3>3. QED
      BY <1>1, <1>3, <2>1, <3>2
  <2>2. CASE state # Ptr(hd[a])
    BY <1>1, <1>3, <2>2
  <2>3. QED
    BY <2>1, <2>2
<1>5. UNCHANGED <<state, head, rxLock, node, next, raw, waiter, curr, strong, rem, n, hd,
                  cancels>>
  BY <1>1
<1>6. Types'
  BY <1>1, <1>2, <1>3, <1>4, <1>5, NodeFacts, WordTypes DEF Base, Types, PCs, NodeStates
<1>7. LockFits'
  BY <1>1, <1>2, <1>3, <1>4, <1>5, NodeFacts DEF Base, Types, LockFits, OneReleaser, Releasing
<1>8. WaitersFit'
  BY <1>1, <1>2, <1>3, <1>4, <1>5, NodeFacts DEF Base, Types, WaitersFit, Entering, Owned
<1>9. PopsFit'
  BY <1>1, <1>2, <1>3, <1>4, <1>5, NodeFacts
     DEF Base, Types, PopsFit, Popping, Entering, Releasing
<1>10. ArcsFit'
  BY <1>1, <1>2, <1>3, <1>4, <1>5, NodeFacts DEF Base, Types, ArcsFit, Waits, Popped, Popping
<1>11. NoPanic'
  BY <1>1, <1>2, <1>3, <1>4, <1>5, NodeFacts DEF Base, Types, NoPanic
<1>12. Shape(q, lo, hi)'
  BY <1>1, <1>2, <1>3, <1>4, <1>5, NodeFacts DEF QueueFits, Shape
<1>13. Linkers(q, lo, hi)'
  BY <1>1, <1>2, <1>3, <1>4, <1>5, NodeFacts DEF Base, Types, QueueFits, Linkers, Links
<1>14. Linked(q, lo, hi)'
  BY <1>1, <1>2, <1>3, <1>4, <1>5, NodeFacts DEF Base, Types, QueueFits, Linked
<1>15. Members(q, lo, hi)'
  BY <1>1, <1>2, <1>3, <1>4, <1>5, NodeFacts
     DEF Base, Types, QueueFits, Members, Listed, Popping, Releasing
<1>16. Conserved' /\ Moves(0, 0, 0)
  <2>1. Held' = Held
    BY <1>1, <1>2, <1>3, <1>4, <1>5 DEF Held, Base, Types
  <2>2. Granted' = Granted
    BY <1>1, <1>2, <1>3, <1>4, <1>5, NodeFacts DEF Granted, Owned, Base, Types, WaitersFit
  <2>3. Doomed' \subseteq Doomed
    BY <1>1, <1>2, <1>3, <1>4, <1>5, NodeFacts DEF Doomed, Owned, Base, Types
  <2>4. AvailablePermits(state') = AvailablePermits(state)
    BY <1>1, <1>2, <1>3, <1>4, <1>5, WordFacts DEF AvailablePermits
  <2>5. /\ rxLock' = rxLock /\ cancels' = cancels
        /\ \A b \in Actors : rem'[b] - n'[b] = rem[b] - n[b]
    BY <1>1, <1>2, <1>3, <1>4, <1>5 DEF Base, Types, LockFits, Releasing
  <2>6. QED
    BY <1>6, <2>1, <2>2, <2>3, <2>4, <2>5, Neutral DEF Base
<1>17. Served' = Served
  BY <1>1, <1>2, <1>3, <1>4, <1>5, NodeFacts DEF Served, Owned, Base, Types, WaitersFit
<1>18. QED
  BY <1>6, <1>7, <1>8, <1>9, <1>10, <1>11, <1>12, <1>13, <1>14, <1>15, <1>16, <1>17
     DEF Base, QueueFits

LEMMA ResetStubKeeps ==
  ASSUME Base, Conserved, NEW q \in [Nat -> Nodes \cup {Stub}], NEW lo \in Nat, NEW hi \in Nat,
         QueueFits(q, lo, hi), NEW a \in Actors, ResetStub(a)
  PROVE  /\ Base' /\ Conserved' /\ QueueFits(q, lo, hi)'
         /\ Moves(0, 0, 0) /\ Served' = Served
<1>1. /\ pc[a] = "stub"
      /\ next' = [next EXCEPT ![Stub] = Null]
      /\ pc' = [pc EXCEPT ![a] = "swap"]
      /\ UNCHANGED <<state, head, rxLock, node, raw, waiter, curr, strong, rem, n, hd, cancels>>
  BY DEF ResetStub, Goto, Set, words, locals
<1>2. \A b \in Actors \ {a} : pc[b] \notin Releasing
  BY <1>1, Alone DEF Releasing
<1>3. ~Listed(q, lo, hi, Stub)
  BY <1>1 DEF QueueFits, Members
<1>4. \A i \in lo .. hi : q[i] # Stub /\ next'[q[i]] = next[q[i]]
  BY <1>1, <1>3 DEF Listed, Base, Types
<1>5. Types'
  BY <1>1, <1>2, <1>3, <1>4, NodeFacts, WordTypes DEF Base, Types, PCs, NodeStates
<1>6. LockFits'
  BY <1>1, <1>2, <1>3, <1>4, NodeFacts DEF Base, Types, LockFits, OneReleaser, Releasing
<1>7. WaitersFit'
  BY <1>1, <1>2, <1>3, <1>4, NodeFacts DEF Base, Types, WaitersFit, Entering, Owned
<1>8. PopsFit'
  BY <1>1, <1>2, <1>3, <1>4, NodeFacts DEF Base, Types, PopsFit, Popping, Entering, Releasing
<1>9. ArcsFit'
  BY <1>1, <1>2, <1>3, <1>4, NodeFacts DEF Base, Types, ArcsFit, Waits, Popped, Popping
<1>10. NoPanic'
  BY <1>1, <1>2, <1>3, <1>4, NodeFacts DEF Base, Types, NoPanic
<1>11. Shape(q, lo, hi)'
  BY <1>1, <1>2, <1>3, <1>4, NodeFacts DEF QueueFits, Shape, Base, Types
<1>12. Linkers(q, lo, hi)'
  BY <1>1, <1>2, <1>3, <1>4, NodeFacts DEF Base, Types, QueueFits, Linkers, Links, Releasing
<1>13. Linked(q, lo, hi)'
  <2>1. \A i \in lo .. hi - 1 : i \in lo .. hi /\ next'[q[i]] = next[q[i]]
    BY <1>4
  <2>2. \A b \in Actors : pc[b] \in {"link", "sublink"} => pc'[b] = pc[b] /\ curr'[b] = curr[b]
    BY <1>1 DEF Base, Types
  <2>3. QED
    BY <2>1, <2>2 DEF QueueFits, Linked
<1>14. Members(q, lo, hi)'
  BY <1>1, <1>2, <1>3, <1>4, NodeFacts
     DEF Base, Types, QueueFits, Members, Listed, Popping, Releasing
<1>15. Conserved' /\ Moves(0, 0, 0)
  <2>1. Held' = Held
    BY <1>1, <1>2, <1>3, <1>4 DEF Held, Base, Types
  <2>2. Granted' = Granted
    BY <1>1, <1>2, <1>3, <1>4, NodeFacts DEF Granted, Owned, Base, Types, WaitersFit
  <2>3. Doomed' \subseteq Doomed
    BY <1>1, <1>2, <1>3, <1>4, NodeFacts DEF Doomed, Owned, Base, Types
  <2>4. AvailablePermits(state') = AvailablePermits(state)
    BY <1>1, <1>2, <1>3, <1>4, WordFacts DEF AvailablePermits
  <2>5. /\ rxLock' = rxLock /\ cancels' = cancels
        /\ \A b \in Actors : rem'[b] - n'[b] = rem[b] - n[b]
    BY <1>1, <1>2, <1>3, <1>4 DEF Base, Types, LockFits, Releasing
  <2>6. QED
    BY <1>5, <2>1, <2>2, <2>3, <2>4, <2>5, Neutral DEF Base
<1>16. Served' = Served
  BY <1>1, <1>2, <1>3, <1>4, NodeFacts DEF Served, Owned, Base, Types, WaitersFit
<1>17. QED
  BY <1>5, <1>6, <1>7, <1>8, <1>9, <1>10, <1>11, <1>12, <1>13, <1>14, <1>15, <1>16
     DEF Base, QueueFits

LEMMA SwapStubKeeps ==
  ASSUME Base, Conserved, NEW q \in [Nat -> Nodes \cup {Stub}], NEW lo \in Nat, NEW hi \in Nat,
         QueueFits(q, lo, hi), NEW a \in Actors, SwapStub(a)
  PROVE  /\ Base' /\ Conserved' /\ hi + 1 \in Nat
         /\ Moves(0, 0, 0) /\ Served' = Served
         /\ \E p \in [Nat -> Nodes \cup {Stub}] :
              /\ QueueFits(p, lo, hi + 1)' /\ p[hi + 1] = Stub
              /\ \A i \in lo .. hi : p[i] = q[i]
<1>1. /\ pc[a] = "swap"
      /\ state' = Ptr(Stub)
      /\ curr' = [curr EXCEPT ![a] = state]
      /\ pc' = [pc EXCEPT ![a] = IF ~IsWaiter(state) \/ (DebugAsserts /\ state = Ptr(Stub)) THEN "panicked"
                                    ELSE "sublink"]
      /\ UNCHANGED <<head, rxLock, node, next, raw, waiter, strong, rem, n, hd, cancels>>
  BY DEF SwapStub, Goto, Set, nodes
<1>2. \A b \in Actors \ {a} : pc[b] \notin Releasing
  BY <1>1, Alone DEF Releasing
<1>3. ~Listed(q, lo, hi, Stub) /\ next[Stub] = Null /\ hd[a] = head /\ head # Stub
  BY <1>1 DEF QueueFits, Members, Base, PopsFit
<1>4. PICK p \in [Nat -> Nodes \cup {Stub}] :
        /\ Shape(p, lo, hi + 1)' /\ \A i \in lo .. hi : p[i] = q[i]
        /\ hi \in lo .. hi + 1 - 1 /\ p[hi] = q[hi] /\ p[hi + 1] = Stub /\ next[q[hi]] = Null
        /\ \A y : Listed(p, lo, hi + 1, y) <=> Listed(q, lo, hi, y) \/ y = Stub
        /\ \A b, y : Links(q, lo, hi, b, y) /\ curr'[b] = curr[b] => Links(p, lo, hi + 1, b, y)'
  BY <1>1, <1>3, Push DEF QueueFits
<1>5. state = Ptr(q[hi]) /\ IsWaiter(state) /\ q[hi] # Stub
  <2>1. IsWaiter(state) /\ state = Ptr(q[hi]) /\ hi \in lo .. hi
    BY <1>3 DEF QueueFits, Shape
  <2>2. QED
    BY <1>3, <2>1 DEF Listed
<1>6. hi + 1 \in Nat /\ pc' = [pc EXCEPT ![a] = "sublink"]
  <2>1. state # Ptr(Stub) /\ hi + 1 \in Nat
    BY <1>5, WordFacts
  <2>2. QED
    BY <1>1, <1>5, <2>1
<1>7. /\ pc[a] = "swap" /\ curr' = [curr EXCEPT ![a] = state] /\ state' = Ptr(Stub)
      /\ UNCHANGED <<head, rxLock, node, next, raw, waiter, strong, rem, n, hd, cancels>>
  BY <1>1
<1>8. Types'
  BY <1>1, <1>2, <1>3, <1>4, <1>5, <1>6, <1>7, NodeFacts, WordTypes
     DEF Base, Types, PCs, NodeStates
<1>9. LockFits'
  BY <1>1, <1>2, <1>3, <1>4, <1>5, <1>6, <1>7, NodeFacts
     DEF Base, Types, LockFits, OneReleaser, Releasing
<1>10. WaitersFit'
  BY <1>1, <1>2, <1>3, <1>4, <1>5, <1>6, <1>7, NodeFacts
     DEF Base, Types, WaitersFit, Entering, Owned
<1>11. PopsFit'
  BY <1>1, <1>2, <1>3, <1>4, <1>5, <1>6, <1>7, NodeFacts
     DEF Base, Types, PopsFit, Popping, Entering, Releasing
<1>12. ArcsFit'
  BY <1>1, <1>2, <1>3, <1>4, <1>5, <1>6, <1>7, NodeFacts
     DEF Base, Types, ArcsFit, Waits, Popped, Popping
<1>13. NoPanic'
  BY <1>1, <1>2, <1>3, <1>4, <1>5, <1>6, <1>7, NodeFacts DEF Base, Types, NoPanic
<1>14. Shape(p, lo, hi + 1)'
  BY <1>4
<1>15. Linkers(p, lo, hi + 1)'
  <2>1. ASSUME NEW b \in Actors, pc'[b] = "link" PROVE Links(p, lo, hi + 1, b, waiter[b])'
    <3>1. Links(q, lo, hi, b, waiter[b]) /\ curr'[b] = curr[b] /\ waiter'[b] = waiter[b]
      BY <1>6, <1>7, <2>1 DEF QueueFits, Linkers, Base, Types
    <3>2. Links(p, lo, hi + 1, b, waiter[b])'
      <4>1. \A y : Links(q, lo, hi, b, y) => Links(p, lo, hi + 1, b, y)'
        BY <1>4, <3>1
      <4>2. QED
        BY <3>1, <4>1 DEF Links
    <3>3. QED
      BY <3>2
  <2>2. ASSUME NEW b \in Actors, pc'[b] = "sublink" PROVE Links(p, lo, hi + 1, b, Stub)'
    <3>1. b = a
      BY <1>2, <1>6, <2>2 DEF Releasing, Base, Types
    <3>2. curr'[b] = Ptr(p[hi]) /\ next'[p[hi]] = Null
      BY <1>4, <1>5, <1>7, <3>1 DEF Base, Types
    <3>3. QED
      BY <1>4, <3>2 DEF Links
  <2>3. QED
    BY <2>1, <2>2 DEF Linkers
<1>16. Linked(p, lo, hi + 1)'
  <2>1. ASSUME NEW i \in lo .. hi + 1 - 1, next'[p[i]] = Null
        PROVE  \E b \in Actors : pc'[b] \in {"link", "sublink"} /\ curr'[b] = Ptr(p[i])
    <3>1. CASE i = hi
      <4>1. pc'[a] \in {"link", "sublink"} /\ curr'[a] = Ptr(p[hi])
        BY <1>4, <1>5, <1>6, <1>7 DEF Base, Types
      <4>2. QED
        BY <3>1, <4>1
    <3>2. CASE i # hi
      <4>1. i \in lo .. hi - 1 /\ i \in lo .. hi
        BY <3>2
      <4>2. p[i] = q[i] /\ next[q[i]] = Null
        BY <1>4, <1>7, <2>1, <4>1
      <4>3. PICK b \in Actors : pc[b] \in {"link", "sublink"} /\ curr[b] = Ptr(q[i])
        BY <4>1, <4>2 DEF QueueFits, Linked
      <4>4. pc'[b] = pc[b] /\ curr'[b] = curr[b]
        BY <1>1, <1>6, <1>7, <4>3 DEF Base, Types
      <4>5. QED
        BY <4>2, <4>3, <4>4
    <3>3. QED
      BY <3>1, <3>2
  <2>2. QED
    BY <2>1 DEF Linked
<1>17. Members(p, lo, hi + 1)'
  <2>1. \A y : Listed(p, lo, hi + 1, y) <=> Listed(q, lo, hi, y) \/ y = Stub
    BY <1>4
  <2>2. \A x \in Nodes : Listed(p, lo, hi + 1, x) => node'[x] = "QueuedWaiting" /\ raw'[x] >= 1
    BY <1>1, <2>1, NodeFacts DEF QueueFits, Members
  <2>3. ASSUME NEW b \in Actors
        PROVE  /\ waiter'[b] # Null /\ Listed(p, lo, hi + 1, waiter'[b])
                    => pc'[b] \in {"link", "queued"}
               /\ pc'[b] \in Popping /\ Listed(p, lo, hi + 1, hd'[b])
                    => pc'[b] = "wake" /\ raw'[hd'[b]] >= 2
               /\ pc'[b] \in {"stub", "swap"} => ~Listed(p, lo, hi + 1, Stub)
    <3>1. waiter'[b] # Null /\ Listed(p, lo, hi + 1, waiter'[b]) => pc'[b] \in {"link", "queued"}
      BY <1>6, <1>7, <2>1, NodeFacts DEF QueueFits, Members, Base, Types
    <3>2. pc'[b] \notin Popping \cup {"stub", "swap"}
      BY <1>2, <1>6 DEF Releasing, Popping, Base, Types
    <3>3. QED
      BY <3>1, <3>2
  <2>4. QED
    BY <2>2, <2>3 DEF Members
<1>18. Conserved' /\ Moves(0, 0, 0)
  <2>1. Held' = Held
    BY <1>1, <1>2, <1>3, <1>4, <1>5, <1>6, <1>7 DEF Held, Base, Types
  <2>2. Granted' = Granted
    BY <1>1, <1>2, <1>3, <1>4, <1>5, <1>6, <1>7, NodeFacts
       DEF Granted, Owned, Base, Types, WaitersFit
  <2>3. Doomed' \subseteq Doomed
    BY <1>1, <1>2, <1>3, <1>4, <1>5, <1>6, <1>7, NodeFacts DEF Doomed, Owned, Base, Types
  <2>4. AvailablePermits(state') = AvailablePermits(state)
    BY <1>1, <1>2, <1>3, <1>4, <1>5, <1>6, <1>7, WordFacts DEF AvailablePermits
  <2>5. /\ rxLock' = rxLock /\ cancels' = cancels
        /\ \A b \in Actors : rem'[b] - n'[b] = rem[b] - n[b]
    BY <1>1, <1>2, <1>3, <1>4, <1>5, <1>6, <1>7 DEF Base, Types, LockFits, Releasing
  <2>6. QED
    BY <1>8, <2>1, <2>2, <2>3, <2>4, <2>5, Neutral DEF Base
<1>19. Served' = Served
  BY <1>1, <1>2, <1>3, <1>4, <1>5, <1>6, <1>7, NodeFacts
     DEF Served, Owned, Base, Types, WaitersFit
<1>20. QED
  BY <1>8, <1>9, <1>10, <1>11, <1>12, <1>13, <1>14, <1>15, <1>16, <1>17, <1>18, <1>19, <1>3,
     <1>4 DEF Base, QueueFits

LEMMA LinkStubKeeps ==
  ASSUME Base, Conserved, NEW q \in [Nat -> Nodes \cup {Stub}], NEW lo \in Nat, NEW hi \in Nat,
         QueueFits(q, lo, hi), NEW a \in Actors, LinkStub(a)
  PROVE  /\ Base' /\ Conserved' /\ QueueFits(q, lo, hi)'
         /\ Moves(0, 0, 0) /\ Served' = Served
<1>1. /\ pc[a] = "sublink"
      /\ next' = [next EXCEPT ![curr[a].tail] = Stub]
      /\ pc' = [pc EXCEPT ![a] = "again"]
      /\ UNCHANGED <<state, head, rxLock, node, raw, waiter, curr, strong, rem, n, hd, cancels>>
  BY DEF LinkStub, Goto, Set, words, locals
<1>2. \A b \in Actors \ {a} : pc[b] \notin Releasing
  BY <1>1, Alone DEF Releasing
<1>3. /\ Shape(q, lo, hi)' /\ Listed(q, lo, hi, curr[a].tail)
      /\ \A b, z : Links(q, lo, hi, b, z) /\ curr'[b] = curr[b] /\ z # Stub
                     => Links(q, lo, hi, b, z)'
      /\ GapsLeft(q, lo, hi, a)
  <2>1. Shape(q, lo, hi) /\ Types /\ Links(q, lo, hi, a, Stub)
    BY <1>1 DEF QueueFits, Linkers, Base
  <2>2. QED
    BY <1>1, <2>1, Hook
<1>4. /\ curr[a].tail \in Nodes \cup {Stub}
      /\ \A b \in Actors : Entering(b) => waiter[b] # curr[a].tail
  BY <1>3 DEF Listed, QueueFits, Members, Base, Types, WaitersFit, Entering
<1>5. Types'
  BY <1>1, <1>2, <1>3, <1>4, NodeFacts, WordTypes DEF Base, Types, PCs, NodeStates
<1>6. LockFits'
  BY <1>1, <1>2, <1>3, <1>4, NodeFacts DEF Base, Types, LockFits, OneReleaser, Releasing
<1>7. WaitersFit'
  BY <1>1, <1>2, <1>3, <1>4, NodeFacts DEF Base, Types, WaitersFit, Entering, Owned
<1>8. PopsFit'
  BY <1>1, <1>2, <1>3, <1>4, NodeFacts DEF Base, Types, PopsFit, Popping, Entering, Releasing
<1>9. ArcsFit'
  BY <1>1, <1>2, <1>3, <1>4, NodeFacts DEF Base, Types, ArcsFit, Waits, Popped, Popping
<1>10. NoPanic'
  BY <1>1, <1>2, <1>3, <1>4, NodeFacts DEF Base, Types, NoPanic
<1>11. Shape(q, lo, hi)'
  BY <1>3
<1>12. Linkers(q, lo, hi)'
  <2>1. ASSUME NEW b \in Actors, pc'[b] = "link" PROVE Links(q, lo, hi, b, waiter[b])'
    <3>1. /\ Links(q, lo, hi, b, waiter[b]) /\ curr'[b] = curr[b] /\ waiter'[b] = waiter[b]
          /\ waiter[b] # Stub
      BY <1>1, <2>1, NodeFacts DEF QueueFits, Linkers, Base, Types
    <3>2. QED
      BY <1>3, <3>1 DEF Links
  <2>2. \A b \in Actors : pc'[b] # "sublink"
    BY <1>1, <1>2 DEF Releasing, Base, Types
  <2>3. QED
    BY <2>1, <2>2 DEF Linkers
<1>13. Linked(q, lo, hi)'
  <2>1. ASSUME NEW i \in lo .. hi - 1, next'[q[i]] = Null
        PROVE  \E b \in Actors : pc'[b] \in {"link", "sublink"} /\ curr'[b] = Ptr(q[i])
    <3>1. next[q[i]] = Null /\ curr[a] # Ptr(q[i])
      BY <1>3, <2>1 DEF GapsLeft
    <3>2. PICK b \in Actors : pc[b] \in {"link", "sublink"} /\ curr[b] = Ptr(q[i])
      BY <3>1 DEF QueueFits, Linked
    <3>3. pc'[b] = pc[b] /\ curr'[b] = curr[b]
      BY <1>1, <3>1, <3>2 DEF Base, Types
    <3>4. QED
      BY <3>2, <3>3
  <2>2. QED
    BY <2>1 DEF Linked
<1>14. Members(q, lo, hi)'
  BY <1>1, <1>2, <1>3, <1>4, NodeFacts
     DEF Base, Types, QueueFits, Members, Listed, Popping, Releasing
<1>15. Conserved' /\ Moves(0, 0, 0)
  <2>1. Held' = Held
    BY <1>1, <1>2, <1>3, <1>4 DEF Held, Base, Types
  <2>2. Granted' = Granted
    BY <1>1, <1>2, <1>3, <1>4, NodeFacts DEF Granted, Owned, Base, Types, WaitersFit
  <2>3. Doomed' \subseteq Doomed
    BY <1>1, <1>2, <1>3, <1>4, NodeFacts DEF Doomed, Owned, Base, Types
  <2>4. AvailablePermits(state') = AvailablePermits(state)
    BY <1>1, <1>2, <1>3, <1>4, WordFacts DEF AvailablePermits
  <2>5. /\ rxLock' = rxLock /\ cancels' = cancels
        /\ \A b \in Actors : rem'[b] - n'[b] = rem[b] - n[b]
    BY <1>1, <1>2, <1>3, <1>4 DEF Base, Types, LockFits, Releasing
  <2>6. QED
    BY <1>5, <2>1, <2>2, <2>3, <2>4, <2>5, Neutral DEF Base
<1>16. Served' = Served
  BY <1>1, <1>2, <1>3, <1>4, NodeFacts DEF Served, Owned, Base, Types, WaitersFit
<1>17. QED
  BY <1>5, <1>6, <1>7, <1>8, <1>9, <1>10, <1>11, <1>12, <1>13, <1>14, <1>15, <1>16
     DEF Base, QueueFits

LEMMA PopLastWaitsKeeps ==
  ASSUME Base, Conserved, NEW q \in [Nat -> Nodes \cup {Stub}], NEW lo \in Nat, NEW hi \in Nat,
         QueueFits(q, lo, hi), NEW a \in Actors, PopLast(a), next[hd[a]] = Null
  PROVE  /\ Base' /\ Conserved' /\ QueueFits(q, lo, hi)'
         /\ Moves(0, 0, 0) /\ Served' = Served
<1>1. /\ pc[a] = "again"
      /\ next' = [next EXCEPT ![hd[a]] = Null]
      /\ pc' = [pc EXCEPT ![a] = "pop"]
      /\ UNCHANGED <<state, head, rxLock, node, raw, waiter, curr, strong, rem, n, hd, cancels>>
  BY DEF PopLast, Goto, Set, locals
<1>2. \A b \in Actors \ {a} : pc[b] \notin Releasing
  BY <1>1, Alone DEF Releasing
<1>3. hd[a] = head /\ head \in Nodes
  BY <1>1 DEF Base, PopsFit, Types
<1>4. next' = next
  BY <1>1, <1>3 DEF Base, Types
<1>5. Types'
  BY <1>1, <1>2, <1>3, <1>4, NodeFacts, WordTypes DEF Base, Types, PCs, NodeStates
<1>6. LockFits'
  BY <1>1, <1>2, <1>3, <1>4, NodeFacts DEF Base, Types, LockFits, OneReleaser, Releasing
<1>7. WaitersFit'
  BY <1>1, <1>2, <1>3, <1>4, NodeFacts DEF Base, Types, WaitersFit, Entering, Owned
<1>8. PopsFit'
  BY <1>1, <1>2, <1>3, <1>4, NodeFacts DEF Base, Types, PopsFit, Popping, Entering, Releasing
<1>9. ArcsFit'
  BY <1>1, <1>2, <1>3, <1>4, NodeFacts DEF Base, Types, ArcsFit, Waits, Popped, Popping
<1>10. NoPanic'
  BY <1>1, <1>2, <1>3, <1>4, NodeFacts DEF Base, Types, NoPanic
<1>11. Shape(q, lo, hi)'
  BY <1>1, <1>2, <1>3, <1>4, NodeFacts DEF QueueFits, Shape
<1>12. Linkers(q, lo, hi)'
  BY <1>1, <1>2, <1>3, <1>4, NodeFacts DEF Base, Types, QueueFits, Linkers, Links
<1>13. Linked(q, lo, hi)'
  BY <1>1, <1>2, <1>3, <1>4, NodeFacts DEF Base, Types, QueueFits, Linked
<1>14. Members(q, lo, hi)'
  BY <1>1, <1>2, <1>3, <1>4, NodeFacts
     DEF Base, Types, QueueFits, Members, Listed, Popping, Releasing
<1>15. Conserved' /\ Moves(0, 0, 0)
  <2>1. Held' = Held
    BY <1>1, <1>2, <1>3, <1>4 DEF Held, Base, Types
  <2>2. Granted' = Granted
    BY <1>1, <1>2, <1>3, <1>4, NodeFacts DEF Granted, Owned, Base, Types, WaitersFit
  <2>3. Doomed' \subseteq Doomed
    BY <1>1, <1>2, <1>3, <1>4, NodeFacts DEF Doomed, Owned, Base, Types
  <2>4. AvailablePermits(state') = AvailablePermits(state)
    BY <1>1, <1>2, <1>3, <1>4, WordFacts DEF AvailablePermits
  <2>5. /\ rxLock' = rxLock /\ cancels' = cancels
        /\ \A b \in Actors : rem'[b] - n'[b] = rem[b] - n[b]
    BY <1>1, <1>2, <1>3, <1>4 DEF Base, Types, LockFits, Releasing
  <2>6. QED
    BY <1>5, <2>1, <2>2, <2>3, <2>4, <2>5, Neutral DEF Base
<1>16. Served' = Served
  BY <1>1, <1>2, <1>3, <1>4, NodeFacts DEF Served, Owned, Base, Types, WaitersFit
<1>17. QED
  BY <1>5, <1>6, <1>7, <1>8, <1>9, <1>10, <1>11, <1>12, <1>13, <1>14, <1>15, <1>16
     DEF Base, QueueFits

LEMMA PopLastPopsKeeps ==
  ASSUME Base, Conserved, NEW q \in [Nat -> Nodes \cup {Stub}], NEW lo \in Nat, NEW hi \in Nat,
         QueueFits(q, lo, hi), NEW a \in Actors, PopLast(a), next[hd[a]] # Null
  PROVE  /\ Base' /\ Conserved' /\ lo + 1 \in Nat /\ QueueFits(q, lo + 1, hi)'
         /\ Moves(0, 0, 0) /\ Served' = Served
<1>1. /\ pc[a] = "again"
      /\ head' = next[hd[a]]
      /\ next' = [next EXCEPT ![hd[a]] = Null]
      /\ pc' = [pc EXCEPT ![a] = "notify"]
      /\ UNCHANGED <<state, rxLock, node, raw, waiter, curr, strong, rem, n, hd, cancels>>
  BY DEF PopLast, Goto, Set, locals
<1>2. \A b \in Actors \ {a} : pc[b] \notin Releasing
  BY <1>1, Alone DEF Releasing
<1>3. /\ lo + 1 \in Nat /\ Shape(q, lo + 1, hi)' /\ Listed(q, lo, hi, head)
      /\ \A y : Listed(q, lo + 1, hi, y) <=> Listed(q, lo, hi, y) /\ y # head
      /\ \A b, y : Links(q, lo, hi, b, y) => y # head
      /\ \A b, y : Links(q, lo, hi, b, y) /\ curr'[b] = curr[b] => Links(q, lo + 1, hi, b, y)'
      /\ \A i \in lo + 1 .. hi - 1 : i \in lo .. hi - 1 /\ next'[q[i]] = next[q[i]]
      /\ IsWaiter(state)
  <2>1. hd[a] = head
    BY <1>1 DEF Base, PopsFit
  <2>2. next[head] # Null /\ head' = next[head] /\ next' = [next EXCEPT ![head] = Null]
    BY <1>1, <2>1
  <2>3. QED
    BY <1>1, <2>2, Advance DEF QueueFits, Base
<1>4. /\ hd[a] = head /\ head \in Nodes /\ node[head] = "QueuedWaiting" /\ raw[head] >= 1
      /\ \A b \in Actors : waiter[b] = head => pc[b] = "queued"
  <2>1. head \in Nodes /\ hd[a] = head
    BY <1>1 DEF Base, Types, PopsFit
  <2>2. node[head] = "QueuedWaiting" /\ raw[head] >= 1
    BY <1>3, <2>1 DEF QueueFits, Members
  <2>3. ASSUME NEW b \in Actors, waiter[b] = head PROVE pc[b] = "queued"
    BY <1>3, <2>1, <2>3, NodeFacts DEF QueueFits, Members, Linkers
  <2>4. QED
    BY <2>1, <2>2, <2>3
<1>5. Types'
  BY <1>1, <1>2, <1>3, <1>4, NodeFacts, WordTypes DEF Base, Types, PCs, NodeStates
<1>6. LockFits'
  BY <1>1, <1>2, <1>3, <1>4, NodeFacts DEF Base, Types, LockFits, OneReleaser, Releasing
<1>7. WaitersFit'
  BY <1>1, <1>2, <1>3, <1>4, NodeFacts DEF Base, Types, WaitersFit, Entering, Owned
<1>8. PopsFit'
  BY <1>1, <1>2, <1>3, <1>4, NodeFacts DEF Base, Types, PopsFit, Popping, Entering, Releasing
<1>9. ArcsFit'
  <2>1. \A x : ~Popped(x)
    BY <1>1, <1>2 DEF Popped, Popping, Releasing
  <2>2. \A x \in Nodes : x # head => (Waits(x)' <=> Waits(x)) /\ ~Popped(x)'
    <3>1. ASSUME NEW x \in Nodes, x # head, NEW b \in Actors, pc'[b] \in Popping
          PROVE  hd'[b] # x
      BY <1>1, <1>2, <1>4, <3>1 DEF Popping, Releasing, Base, Types
    <3>2. ASSUME NEW b \in Actors PROVE pc[b] # "notify"
      BY <1>1, <1>2 DEF Releasing
    <3>3. QED
      BY <1>1, <3>1, <3>2 DEF Waits, Popped, Popping
  <2>3. \A x \in Nodes : x = head => Waits(x) /\ ~Waits(x)' /\ Popped(x)'
    <3>1. head \in Nodes => /\ node[head] = "QueuedWaiting" /\ pc'[a] = "notify" /\ hd'[a] = head
                            /\ \A b \in Actors : pc[b] # "notify"
      BY <1>1, <1>2, <1>4, NodeFacts DEF Releasing, Base, Types
    <3>2. QED
      BY <3>1 DEF Waits, Popped, Popping
  <2>4. raw' = raw
    BY <1>1
  <2>5. QED
    BY <2>1, <2>2, <2>3, <2>4 DEF Base, Types, ArcsFit
<1>10. NoPanic'
  BY <1>1, <1>2, <1>3, <1>4, NodeFacts DEF Base, Types, NoPanic
<1>11. Shape(q, lo + 1, hi)'
  BY <1>3
<1>12. Linkers(q, lo + 1, hi)'
  <2>1. \A b \in Actors : pc'[b] \in {"link", "sublink"} =>
           pc'[b] = pc[b] /\ curr'[b] = curr[b] /\ waiter'[b] = waiter[b]
    BY <1>1 DEF Base, Types
  <2>2. \A b \in Actors : pc'[b] = "link" => Links(q, lo + 1, hi, b, waiter[b])'
    <3>1. ASSUME NEW b \in Actors, pc'[b] = "link" PROVE Links(q, lo + 1, hi, b, waiter[b])'
      <4>1. Links(q, lo, hi, b, waiter[b]) /\ curr'[b] = curr[b] /\ waiter'[b] = waiter[b]
        BY <2>1, <3>1 DEF QueueFits, Linkers
      <4>2. Links(q, lo + 1, hi, b, waiter[b])'
        <5>1. \A y : Links(q, lo, hi, b, y) => Links(q, lo + 1, hi, b, y)'
          BY <1>3, <4>1
        <5>2. QED
          BY <4>1, <5>1 DEF Links
      <4>3. QED
        BY <4>2
    <3>2. QED
      BY <3>1
  <2>3. \A b \in Actors : pc'[b] = "sublink" => Links(q, lo + 1, hi, b, Stub)'
    BY <1>3, <2>1 DEF QueueFits, Linkers
  <2>4. QED
    BY <2>2, <2>3 DEF Linkers
<1>13. Linked(q, lo + 1, hi)'
  <2>1. ASSUME NEW i \in lo + 1 .. hi - 1, next'[q[i]] = Null
        PROVE  \E b \in Actors : pc'[b] \in {"link", "sublink"} /\ curr'[b] = Ptr(q[i])
    <3>1. i \in lo .. hi - 1 /\ next[q[i]] = Null
      BY <1>3, <2>1
    <3>2. PICK b \in Actors : pc[b] \in {"link", "sublink"} /\ curr[b] = Ptr(q[i])
      BY <3>1 DEF QueueFits, Linked
    <3>3. pc'[b] = pc[b] /\ curr'[b] = curr[b]
      BY <1>1, <3>2 DEF Base, Types
    <3>4. QED
      BY <3>2, <3>3
  <2>2. QED
    BY <2>1 DEF Linked
<1>14. Members(q, lo + 1, hi)'
  <2>1. \A y : Listed(q, lo + 1, hi, y) => Listed(q, lo, hi, y) /\ y # head
    BY <1>3 DEF Listed
  <2>2. \A x \in Nodes : Listed(q, lo + 1, hi, x) => node'[x] = "QueuedWaiting" /\ raw'[x] >= 1
    BY <1>1, <2>1 DEF QueueFits, Members
  <2>3. ASSUME NEW b \in Actors
        PROVE  /\ waiter'[b] # Null /\ Listed(q, lo + 1, hi, waiter'[b])
                    => pc'[b] \in {"link", "queued"}
               /\ pc'[b] \in Popping /\ Listed(q, lo + 1, hi, hd'[b])
                    => pc'[b] = "wake" /\ raw'[hd'[b]] >= 2
               /\ pc'[b] \in {"stub", "swap"} => ~Listed(q, lo + 1, hi, Stub)
    <3>1. waiter'[b] # Null /\ Listed(q, lo + 1, hi, waiter'[b]) => pc'[b] \in {"link", "queued"}
      BY <1>1, <2>1 DEF QueueFits, Members, Base, Types
    <3>2. CASE b = a
      BY <1>1, <2>1, <3>1, <3>2 DEF Base, Types, Popping, Listed, PopsFit
    <3>3. CASE b # a
      BY <1>1, <1>2, <3>1, <3>3 DEF Base, Types, Popping, Releasing, Listed
    <3>4. QED
      BY <3>2, <3>3
  <2>4. QED
    BY <2>2, <2>3 DEF Members
<1>15. Conserved' /\ Moves(0, 0, 0)
  <2>1. Held' = Held
    BY <1>1, <1>2, <1>3, <1>4 DEF Held, Base, Types
  <2>2. Granted' = Granted
    BY <1>1, <1>2, <1>3, <1>4, NodeFacts DEF Granted, Owned, Base, Types, WaitersFit
  <2>3. Doomed' \subseteq Doomed
    BY <1>1, <1>2, <1>3, <1>4, NodeFacts DEF Doomed, Owned, Base, Types
  <2>4. AvailablePermits(state') = AvailablePermits(state)
    BY <1>1, <1>2, <1>3, <1>4, WordFacts DEF AvailablePermits
  <2>5. /\ rxLock' = rxLock /\ cancels' = cancels
        /\ \A b \in Actors : rem'[b] - n'[b] = rem[b] - n[b]
    BY <1>1, <1>2, <1>3, <1>4 DEF Base, Types, LockFits, Releasing
  <2>6. QED
    BY <1>5, <2>1, <2>2, <2>3, <2>4, <2>5, Neutral DEF Base
<1>16. Served' = Served
  BY <1>1, <1>2, <1>3, <1>4, NodeFacts DEF Served, Owned, Base, Types, WaitersFit
<1>17. QED
  BY <1>5, <1>6, <1>7, <1>8, <1>9, <1>10, <1>11, <1>12, <1>13, <1>14, <1>15, <1>16, <1>3, <1>4
     DEF Base, QueueFits

LEMMA NotifyKeeps ==
  ASSUME Base, Conserved, NEW q \in [Nat -> Nodes \cup {Stub}], NEW lo \in Nat, NEW hi \in Nat,
         QueueFits(q, lo, hi), NEW a \in Actors, Notify(a)
  PROVE  /\ Base' /\ Conserved' /\ QueueFits(q, lo, hi)'
         /\ Moves(0, 0, -1) /\ Served' \in {Served, Served \cup {hd[a]}}
<1>1. /\ pc[a] = "notify" /\ hd[a] \in Nodes /\ node[hd[a]] = "QueuedWaiting" /\ raw[hd[a]] >= 1
      /\ \A b \in Actors : waiter[b] = hd[a] => pc[b] = "queued"
  BY DEF Notify, Base, PopsFit, Popping
<1>2. /\ node' = [node EXCEPT ![hd[a]] = "Assigned"]
      /\ n' = [n EXCEPT ![a] = n[a] - 1]
      /\ pc' = [pc EXCEPT ![a] = "wake"]
      /\ UNCHANGED <<state, head, rxLock, next, raw, waiter, curr, strong, rem, hd, cancels>>
  BY <1>1 DEF Notify, Goto, Set, words
<1>3. \A b \in Actors \ {a} : pc[b] \notin Releasing
  BY <1>1, Alone DEF Releasing
<1>4. n[a] \in 1 .. rem[a]
  BY <1>1, Alone DEF Releasing
<1>5. ~Listed(q, lo, hi, hd[a])
  BY <1>1 DEF QueueFits, Members, Popping
<1>6. Types'
  BY <1>1, <1>2, <1>3, <1>4, <1>5, NodeFacts, WordTypes DEF Base, Types, PCs, NodeStates
<1>7. LockFits'
  BY <1>1, <1>2, <1>3, <1>4, <1>5, NodeFacts DEF Base, Types, LockFits, OneReleaser, Releasing
<1>8. WaitersFit'
  BY <1>1, <1>2, <1>3, <1>4, <1>5, NodeFacts DEF Base, Types, WaitersFit, Entering, Owned
<1>9. PopsFit'
  BY <1>1, <1>2, <1>3, <1>4, <1>5, NodeFacts
     DEF Base, Types, PopsFit, Popping, Entering, Releasing
<1>10. ArcsFit'
  BY <1>1, <1>2, <1>3, <1>4, <1>5, NodeFacts DEF Base, Types, ArcsFit, Waits, Popped, Popping
<1>11. NoPanic'
  BY <1>1, <1>2, <1>3, <1>4, <1>5, NodeFacts DEF Base, Types, NoPanic
<1>12. Shape(q, lo, hi)'
  BY <1>1, <1>2, <1>3, <1>4, <1>5, NodeFacts DEF QueueFits, Shape
<1>13. Linkers(q, lo, hi)'
  BY <1>1, <1>2, <1>3, <1>4, <1>5, NodeFacts DEF Base, Types, QueueFits, Linkers, Links
<1>14. Linked(q, lo, hi)'
  BY <1>1, <1>2, <1>3, <1>4, <1>5, NodeFacts DEF Base, Types, QueueFits, Linked
<1>15. Members(q, lo, hi)'
  BY <1>1, <1>2, <1>3, <1>4, <1>5, NodeFacts
     DEF Base, Types, QueueFits, Members, Listed, Popping, Releasing
<1>16. Conserved' /\ Moves(0, 0, -1)
  <2>1. Held' = Held
    BY <1>1, <1>2 DEF Held, Base, Types
  <2>2. n[a] \in Nat /\ rem[a] \in Nat /\ rxLock \in Nat
    BY DEF Base, Types
  <2>3. Pending = rxLock - (rem[a] - n[a])
    <3>1. \A b \in Actors \ {a} : rem[b] = n[b]
      BY <1>3 DEF Base, LockFits
    <3>2. QED
      BY <3>1, PendingOf DEF PendingFits, Base
  <2>4. Pending' = rxLock' - (rem'[a] - n'[a])
    <3>1. \A b \in Actors \ {a} : rem'[b] = n'[b]
      BY <1>2, <1>3 DEF Base, Types, LockFits
    <3>2. QED
      BY <3>1, <1>6, PendingOfNext DEF PendingFits
  <2>5. Pending' = Pending + (-1)
    BY <1>2, <2>2, <2>3, <2>4 DEF Base, Types
  <2>6. /\ Cardinality(Held') = Cardinality(Held) + 0 /\ cancels' = cancels
        /\ AvailablePermits(state') = AvailablePermits(state) + 0
    BY <1>2, <2>1, Terms DEF Base
  <2>7. CASE Owned(hd[a])
    <3>1. PICK c \in Actors : waiter[c] = hd[a]
      BY <2>7 DEF Owned
    <3>2. Granted' = Granted \cup {c} /\ c \notin Granted
      BY <1>1, <1>2, <3>1, NodeFacts DEF Granted, Base, Types, WaitersFit
    <3>3. Doomed' = Doomed
      BY <1>1, <1>2, <2>7 DEF Doomed, Owned, Base, Types
    <3>4. Cardinality(Granted') = Cardinality(Granted) + 1
      BY <3>2, Sizes, SemaphoreAssumption DEF Granted
    <3>5. cancels' - Cardinality(Doomed') + 0 + 0 + 1 + (-1) >= cancels - Cardinality(Doomed)
      BY <2>6, <3>3, Terms DEF Base
    <3>6. QED
      BY <2>5, <2>6, <3>4, <3>5, <1>6, Balance DEF Base, Moves
  <2>8. CASE ~Owned(hd[a])
    <3>1. Granted' = Granted
      BY <1>1, <1>2, <2>8 DEF Granted, Owned, Base, Types
    <3>2. Doomed' = Doomed \ {hd[a]} /\ hd[a] \in Doomed
      BY <1>1, <1>2, <2>8 DEF Doomed, Owned, Base, Types
    <3>3. Cardinality(Doomed') = Cardinality(Doomed) - 1
      BY <3>2, Sizes, SemaphoreAssumption DEF Doomed
    <3>4. /\ Cardinality(Granted') = Cardinality(Granted) + 0
          /\ cancels' - Cardinality(Doomed') + 0 + 0 + 0 + (-1) >= cancels - Cardinality(Doomed)
      BY <2>6, <3>1, <3>3, Terms DEF Base
    <3>5. QED
      BY <2>5, <2>6, <3>4, <1>6, Balance DEF Base, Moves
  <2>9. QED
    BY <2>7, <2>8
<1>17. Served' \in {Served, Served \cup {hd[a]}}
  BY <1>1, <1>2, <1>3, <1>4, <1>5, NodeFacts DEF Served, Owned, Base, Types, WaitersFit
<1>18. QED
  BY <1>6, <1>7, <1>8, <1>9, <1>10, <1>11, <1>12, <1>13, <1>14, <1>15, <1>16, <1>17
     DEF Base, QueueFits

LEMMA WakeKeeps ==
  ASSUME Base, Conserved, NEW q \in [Nat -> Nodes \cup {Stub}], NEW lo \in Nat, NEW hi \in Nat,
         QueueFits(q, lo, hi), NEW a \in Actors, Wake(a)
  PROVE  /\ Base' /\ Conserved' /\ QueueFits(q, lo, hi)'
         /\ Moves(0, 0, 0) /\ Served' = Served
<1>1. /\ pc[a] = "wake" /\ hd[a] \in Nodes /\ raw[hd[a]] >= 1
      /\ \A b \in Actors : Entering(b) /\ waiter[b] = hd[a] => raw[hd[a]] >= 2
      /\ (Listed(q, lo, hi, hd[a]) => raw[hd[a]] >= 2)
  BY DEF Wake, Base, PopsFit, Popping, QueueFits, Members
<1>2. /\ raw' = [raw EXCEPT ![hd[a]] = raw[hd[a]] - 1]
      /\ node' = IF Owned(hd[a]) \/ raw[hd[a]] > 1 THEN node
                    ELSE [node EXCEPT ![hd[a]] = "Idle"]
      /\ pc' = [pc EXCEPT ![a] = IF n[a] > 0 THEN "pop" ELSE "sub"]
      /\ UNCHANGED <<state, head, rxLock, next, waiter, curr, strong, rem, n, hd, cancels>>
  BY DEF Wake, Goto, Set, words, locals
<1>3. \A b \in Actors \ {a} : pc[b] \notin Releasing
  BY <1>1, Alone DEF Releasing
<1>4. n[a] \in 0 .. rem[a] /\ rem[a] \in 1 .. rxLock
  BY <1>1, Alone DEF Releasing
<1>5. Types'
  BY <1>1, <1>2, <1>3, <1>4, NodeFacts, WordTypes DEF Base, Types, PCs, NodeStates
<1>6. LockFits'
  BY <1>1, <1>2, <1>3, <1>4, NodeFacts DEF Base, Types, LockFits, OneReleaser, Releasing
<1>7. WaitersFit'
  BY <1>1, <1>2, <1>3, <1>4, NodeFacts DEF Base, Types, WaitersFit, Entering, Owned
<1>8. PopsFit'
  BY <1>1, <1>2, <1>3, <1>4, NodeFacts DEF Base, Types, PopsFit, Popping, Entering, Releasing
<1>9. ArcsFit'
  <2>1. \A x \in Nodes : x # hd[a] => (Waits(x)' <=> Waits(x)) /\ ~Popped(x) /\ ~Popped(x)'
    BY <1>1, <1>2, <1>3 DEF Waits, Popped, Popping, Releasing, Base, Types
  <2>2. Popped(hd[a]) /\ ~Popped(hd[a])'
    BY <1>1, <1>2, <1>3 DEF Popped, Popping, Releasing, Base, Types
  <2>3. \A b \in Actors : pc[b] # "notify" /\ pc'[b] # "notify"
    BY <1>1, <1>2, <1>3 DEF Releasing, Base, Types
  <2>4. CASE node' = node
    <3>1. Waits(hd[a])' <=> Waits(hd[a])
      BY <1>2, <2>3, <2>4 DEF Waits
    <3>2. QED
      BY <1>1, <1>2, <2>1, <2>2, <3>1 DEF Base, Types, ArcsFit
  <2>5. CASE node' # node
    <3>1. raw[hd[a]] = 1 /\ node' = [node EXCEPT ![hd[a]] = "Idle"]
      BY <1>1, <1>2, <2>5 DEF Base, Types
    <3>2. ~Waits(hd[a]) /\ ~Waits(hd[a])'
      <4>1. ~Waits(hd[a])
        BY <1>1, <2>2, <3>1 DEF Base, Types, ArcsFit
      <4>2. node'[hd'[a]] = "Idle"
        BY <1>1, <1>2, <3>1 DEF Base, Types
      <4>3. QED
        BY <4>1, <4>2 DEF Waits
    <3>3. QED
      BY <1>1, <1>2, <2>1, <2>2, <3>1, <3>2 DEF Base, Types, ArcsFit
  <2>6. QED
    BY <2>4, <2>5
<1>10. NoPanic'
  BY <1>1, <1>2, <1>3, <1>4, NodeFacts DEF Base, Types, NoPanic
<1>11. Shape(q, lo, hi)'
  BY <1>1, <1>2, <1>3, <1>4, NodeFacts DEF QueueFits, Shape
<1>12. Linkers(q, lo, hi)'
  BY <1>1, <1>2, <1>3, <1>4, NodeFacts DEF Base, Types, QueueFits, Linkers, Links
<1>13. Linked(q, lo, hi)'
  BY <1>1, <1>2, <1>3, <1>4, NodeFacts DEF Base, Types, QueueFits, Linked
<1>14. Members(q, lo, hi)'
  BY <1>1, <1>2, <1>3, <1>4, NodeFacts
     DEF Base, Types, QueueFits, Members, Listed, Popping, Releasing
<1>15. Conserved' /\ Moves(0, 0, 0)
  <2>1. Held' = Held
    BY <1>1, <1>2, <1>3, <1>4 DEF Held, Base, Types
  <2>2. Granted' = Granted
    BY <1>1, <1>2, <1>3, <1>4, NodeFacts DEF Granted, Owned, Base, Types, WaitersFit
  <2>3. Doomed' \subseteq Doomed
    BY <1>1, <1>2, <1>3, <1>4, NodeFacts DEF Doomed, Owned, Base, Types
  <2>4. AvailablePermits(state') = AvailablePermits(state)
    BY <1>1, <1>2, <1>3, <1>4, WordFacts DEF AvailablePermits
  <2>5. /\ rxLock' = rxLock /\ cancels' = cancels
        /\ \A b \in Actors : rem'[b] - n'[b] = rem[b] - n[b]
    BY <1>1, <1>2, <1>3, <1>4 DEF Base, Types, LockFits, Releasing
  <2>6. QED
    BY <1>5, <2>1, <2>2, <2>3, <2>4, <2>5, Neutral DEF Base
<1>16. Served' = Served
  BY <1>1, <1>2, <1>3, <1>4, NodeFacts DEF Served, Owned, Base, Types, WaitersFit
<1>17. QED
  BY <1>5, <1>6, <1>7, <1>8, <1>9, <1>10, <1>11, <1>12, <1>13, <1>14, <1>15, <1>16
     DEF Base, QueueFits

LEMMA SubKeeps ==
  ASSUME Base, Conserved, NEW q \in [Nat -> Nodes \cup {Stub}], NEW lo \in Nat, NEW hi \in Nat,
         QueueFits(q, lo, hi), NEW a \in Actors, Sub(a)
  PROVE  /\ Base' /\ Conserved' /\ QueueFits(q, lo, hi)'
         /\ Moves(0, 0, 0) /\ Served' = Served
<1>1. pc[a] = "sub" /\ rem[a] \in 1 .. rxLock /\ rxLock' = rxLock - rem[a] /\ rxLock' \in Nat
  <2>1. pc[a] = "sub" /\ rxLock' = rxLock - rem[a]
    BY DEF Sub
  <2>2. rem[a] \in 1 .. rxLock /\ rxLock \in Nat
    BY <2>1, Alone DEF Releasing, Base, Types
  <2>3. QED
    BY <2>1, <2>2
<1>2. \/ /\ rxLock' = 0 /\ pc' = [pc EXCEPT ![a] = "idle"]
         /\ curr' = [curr EXCEPT ![a] = Ptr(Stub)] /\ strong' = [strong EXCEPT ![a] = FALSE]
         /\ rem' = [rem EXCEPT ![a] = 0] /\ n' = [n EXCEPT ![a] = 0] /\ hd' = [hd EXCEPT ![a] = Stub]
      \/ /\ rxLock' # 0 /\ pc' = [pc EXCEPT ![a] = "pop"]
         /\ rem' = [rem EXCEPT ![a] = rxLock'] /\ n' = [n EXCEPT ![a] = rxLock']
         /\ UNCHANGED <<curr, strong, hd>>
  BY DEF Sub, Return, Goto, Set
<1>3. UNCHANGED <<state, head, node, next, raw, waiter, cancels>>
  BY DEF Sub, nodes
<1>4. \A b \in Actors \ {a} : pc[b] \notin Releasing
  BY <1>1, Alone DEF Releasing
<1>5. Types'
  <2>1. curr' \in [Actors -> AllWords] /\ strong' \in [Actors -> BOOLEAN] /\ hd' \in [Actors -> Nodes \cup {Stub}]
    <3>1. Ptr(Stub) \in AllWords /\ Base /\ Types
      BY WordTypes DEF Base
    <3>2. curr' \in [Actors -> AllWords]
      BY <1>2, <3>1 DEF Types
    <3>3. strong' \in [Actors -> BOOLEAN]
      BY <1>2, <3>1 DEF Types
    <3>4. hd' \in [Actors -> Nodes \cup {Stub}]
      BY <1>2, <3>1 DEF Types
    <3>5. QED
      BY <3>2, <3>3, <3>4
  <2>2. rem' \in [Actors -> Nat] /\ n' \in [Actors -> Nat]
    BY <1>1, <1>2 DEF Base, Types
  <2>3. pc' \in [Actors -> PCs]
    BY <1>2 DEF Base, Types, PCs
  <2>4. QED
    BY <1>1, <1>3, <2>1, <2>2, <2>3 DEF Base, Types
<1>6. LockFits'
  BY <1>1, <1>2, <1>3, <1>4, NodeFacts DEF Base, Types, LockFits, OneReleaser, Releasing
<1>7. WaitersFit'
  BY <1>1, <1>2, <1>3, <1>4, NodeFacts DEF Base, Types, WaitersFit, Entering, Owned
<1>8. PopsFit'
  BY <1>1, <1>2, <1>3, <1>4, NodeFacts DEF Base, Types, PopsFit, Popping, Entering, Releasing
<1>9. ArcsFit'
  BY <1>1, <1>2, <1>3, <1>4, NodeFacts DEF Base, Types, ArcsFit, Waits, Popped, Popping
<1>10. NoPanic'
  BY <1>1, <1>2, <1>3, <1>4, NodeFacts DEF Base, Types, NoPanic
<1>11. Shape(q, lo, hi)'
  BY <1>1, <1>2, <1>3, <1>4, NodeFacts DEF QueueFits, Shape
<1>12. Linkers(q, lo, hi)'
  BY <1>1, <1>2, <1>3, <1>4, NodeFacts DEF Base, Types, QueueFits, Linkers, Links
<1>13. Linked(q, lo, hi)'
  BY <1>1, <1>2, <1>3, <1>4, NodeFacts, SMTT(30) DEF Base, Types, QueueFits, Linked
<1>14. Members(q, lo, hi)'
  BY <1>1, <1>2, <1>3, <1>4, NodeFacts
     DEF Base, Types, QueueFits, Members, Listed, Popping, Releasing
<1>15. Conserved' /\ Moves(0, 0, 0)
  <2>1. Held' = Held /\ Granted' = Granted /\ Doomed' = Doomed
    BY <1>1, <1>2, <1>3 DEF Held, Granted, Doomed, Owned, Base, Types
  <2>2. n[a] = 0 /\ rem[a] \in Nat /\ rxLock \in Nat
    BY <1>1 DEF Base, Types, LockFits
  <2>3. Pending = rxLock - (rem[a] - n[a])
    <3>1. \A b \in Actors \ {a} : rem[b] = n[b]
      BY <1>4 DEF Base, LockFits
    <3>2. QED
      BY <3>1, PendingOf DEF PendingFits, Base
  <2>4. Pending' = rxLock' - (rem'[a] - n'[a])
    <3>1. \A b \in Actors \ {a} : rem'[b] = n'[b]
      BY <1>2, <1>4 DEF Base, Types, LockFits
    <3>2. QED
      BY <3>1, <1>5, PendingOfNext DEF PendingFits
  <2>5. rem'[a] = n'[a] /\ n'[a] \in Nat
    BY <1>1, <1>2 DEF Base, Types
  <2>6. Pending' = Pending + 0
    BY <1>1, <2>2, <2>3, <2>4, <2>5
  <2>7. /\ Cardinality(Held') = Cardinality(Held) + 0
        /\ Cardinality(Granted') = Cardinality(Granted) + 0
        /\ AvailablePermits(state') = AvailablePermits(state) + 0
        /\ cancels' - Cardinality(Doomed') + 0 + 0 + 0 + 0 >= cancels - Cardinality(Doomed)
    BY <1>3, <2>1, Terms DEF Base
  <2>8. QED
    BY <2>6, <2>7, <1>5, Balance DEF Base, Moves
<1>16. Served' = Served
  BY <1>1, <1>2, <1>3, <1>4, NodeFacts DEF Served, Owned, Base, Types, WaitersFit
<1>17. QED
  BY <1>5, <1>6, <1>7, <1>8, <1>9, <1>10, <1>11, <1>12, <1>13, <1>14, <1>15, <1>16
     DEF Base, QueueFits

-------------------------------------------------------------------------------
(* Each step preserves the invariant: the task. *)

LEMMA AcquireGrantedKeeps ==
  ASSUME Base, Conserved, NEW q \in [Nat -> Nodes \cup {Stub}], NEW lo \in Nat, NEW hi \in Nat,
         QueueFits(q, lo, hi), NEW a \in Actors, Acquire(a), node[waiter[a]] = "Assigned"
  PROVE  /\ Base' /\ Conserved' /\ QueueFits(q, lo, hi)'
         /\ Moves(0, 1, 0) /\ Served' = Served \ {waiter[a]} /\ waiter[a] \in Served
<1>1. pc[a] = "queued" /\ waiter[a] \in Nodes
  BY DEF Acquire, MayBePolled, Base, Types, WaitersFit
<1>2. /\ node' = [node EXCEPT ![waiter[a]] = "Idle"]
      /\ pc' = [pc EXCEPT ![a] = "holding"]
      /\ UNCHANGED <<state, head, rxLock, next, raw, waiter, curr, strong, rem, n, hd, cancels>>
  BY DEF Acquire, Goto, Set, words, locals
<1>3. /\ ~Listed(q, lo, hi, waiter[a])
      /\ \A b \in Actors : pc[b] = "notify" => hd[b] # waiter[a]
  BY <1>1 DEF QueueFits, Members, Base, PopsFit
<1>4. Types'
  BY <1>1, <1>2, <1>3, NodeFacts, WordTypes DEF Base, Types, PCs, NodeStates
<1>5. LockFits'
  BY <1>1, <1>2, <1>3, NodeFacts DEF Base, Types, LockFits, OneReleaser, Releasing, Releasing
<1>6. WaitersFit'
  BY <1>1, <1>2, <1>3, NodeFacts DEF Base, Types, WaitersFit, Entering, Owned
<1>7. PopsFit'
  BY <1>1, <1>2, <1>3, NodeFacts DEF Base, Types, PopsFit, Popping, Entering
<1>8. ArcsFit'
  BY <1>1, <1>2, <1>3, NodeFacts DEF Base, Types, ArcsFit, Waits, Popped, Popping
<1>9. NoPanic'
  BY <1>1, <1>2, <1>3, NodeFacts DEF Base, Types, NoPanic
<1>10. Shape(q, lo, hi)'
  BY <1>1, <1>2, <1>3, NodeFacts DEF QueueFits, Shape
<1>11. Linkers(q, lo, hi)'
  BY <1>1, <1>2, <1>3, NodeFacts DEF Base, Types, QueueFits, Linkers, Links
<1>12. Linked(q, lo, hi)'
  BY <1>1, <1>2, <1>3, NodeFacts DEF Base, Types, QueueFits, Linked
<1>13. Members(q, lo, hi)'
  BY <1>1, <1>2, <1>3, NodeFacts DEF Base, Types, QueueFits, Members, Listed, Popping
<1>14. Conserved' /\ Moves(0, 1, 0)
  <2>1. Held' = Held \cup {a} /\ a \notin Held
    BY <1>1, <1>2 DEF Held, Base, Types
  <2>2. Granted' = Granted \ {a} /\ a \in Granted
    BY <1>1, <1>2, NodeFacts DEF Granted, Base, Types, WaitersFit
  <2>3. Doomed' = Doomed
    BY <1>1, <1>2 DEF Doomed, Owned, Base, Types
  <2>4. Pending' = Pending + 0
    BY <1>2, <1>4, PendingMoves, Terms DEF Base, Types
  <2>5. Cardinality(Held') = Cardinality(Held) + 1
    BY <2>1, Sizes, SemaphoreAssumption DEF Held
  <2>6. Cardinality(Granted') = Cardinality(Granted) + (-1)
    <3>1. Granted \in SUBSET Actors /\ Cardinality(Granted) \in Nat
      BY Terms DEF Granted, Base
    <3>2. Cardinality(Granted \ {a}) = Cardinality(Granted) - 1
      BY <2>2, <3>1, Sizes, SemaphoreAssumption
    <3>3. QED
      BY <2>2, <3>1, <3>2
  <2>7. /\ AvailablePermits(state') = AvailablePermits(state) + 0
        /\ cancels' - Cardinality(Doomed') + 0 + 1 + (-1) + 0 >= cancels - Cardinality(Doomed)
    BY <1>2, <2>3, Terms DEF Base
  <2>8. QED
    BY <2>4, <2>5, <2>6, <2>7, <1>4, Balance DEF Base, Moves
<1>15. Served' = Served \ {waiter[a]} /\ waiter[a] \in Served
  BY <1>1, <1>2, <1>3, NodeFacts DEF Served, Owned, Base, Types, WaitersFit
<1>16. QED
  BY <1>4, <1>5, <1>6, <1>7, <1>8, <1>9, <1>10, <1>11, <1>12, <1>13, <1>14, <1>15
     DEF Base, QueueFits

LEMMA DropWaiterKeeps ==
  ASSUME Base, Conserved, NEW q \in [Nat -> Nodes \cup {Stub}], NEW lo \in Nat, NEW hi \in Nat,
         QueueFits(q, lo, hi), NEW a \in Actors, DropWaiter(a)
  PROVE  /\ Base' /\ Conserved' /\ QueueFits(q, lo, hi)'
         /\ Moves(0, 0, 0) /\ Served' = Served \ {waiter[a]}
<1>1. /\ pc[a] \in {"idle", "queued"}
      /\ waiter[a] \in Nodes
      /\ cancels' = cancels + (IF pc[a] = "queued" THEN 1 ELSE 0)
      /\ waiter' = [waiter EXCEPT ![a] = Null]
      /\ node' = IF raw[waiter[a]] > 0 THEN node ELSE [node EXCEPT ![waiter[a]] = "Idle"]
      /\ pc' = [pc EXCEPT ![a] = "idle"]
      /\ UNCHANGED <<state, head, rxLock, next, raw, curr, strong, rem, n, hd>>
  BY DEF DropWaiter, Goto, Set, words, locals, Base, Types
<1>2. Types'
  BY <1>1, NodeFacts, WordTypes DEF Base, Types, PCs, NodeStates
<1>3. LockFits'
  BY <1>1, NodeFacts DEF Base, Types, LockFits, OneReleaser, Releasing
<1>4. WaitersFit'
  BY <1>1, NodeFacts DEF Base, Types, WaitersFit, Entering, Owned
<1>5. PopsFit'
  BY <1>1, NodeFacts DEF Base, Types, PopsFit, Popping, Entering
<1>6. ArcsFit'
  BY <1>1, NodeFacts DEF Base, Types, ArcsFit, Waits, Popped, Popping
<1>7. NoPanic'
  BY <1>1, NodeFacts DEF Base, Types, NoPanic
<1>8. Shape(q, lo, hi)'
  BY <1>1, NodeFacts DEF QueueFits, Shape
<1>9. Linkers(q, lo, hi)'
  BY <1>1, NodeFacts DEF Base, Types, QueueFits, Linkers, Links
<1>10. Linked(q, lo, hi)'
  BY <1>1, NodeFacts DEF Base, Types, QueueFits, Linked
<1>11. Members(q, lo, hi)'
  BY <1>1, NodeFacts DEF Base, Types, QueueFits, Members, Listed, Popping
<1>12. Conserved' /\ Moves(0, 0, 0)
  <2>1. Held' = Held
    BY <1>1 DEF Held, Base, Types
  <2>2. \A c \in Actors \ {a} : waiter[c] # waiter[a]
    BY <1>1, NodeFacts DEF Base, WaitersFit
  <2>3. Pending' = Pending + 0
    BY <1>1, <1>2, PendingMoves, Terms DEF Base, Types
  <2>4. /\ Cardinality(Held') = Cardinality(Held) + 0
        /\ AvailablePermits(state') = AvailablePermits(state) + 0
    BY <1>1, <2>1, Terms DEF Base
  <2>5. CASE node[waiter[a]] = "Assigned"
    <3>1. pc[a] = "queued"
      BY <1>1, <2>5, NodeFacts DEF Base, WaitersFit, Entering
    <3>2. Granted' = Granted \ {a} /\ a \in Granted
      BY <1>1, <2>2, <2>5, NodeFacts DEF Granted, Base, Types
    <3>3. Doomed' = Doomed
      BY <1>1, <2>2, <2>5, NodeFacts DEF Doomed, Owned, Base, Types
    <3>4. Cardinality(Granted') = Cardinality(Granted) + (-1)
      <4>1. Granted \in SUBSET Actors /\ Cardinality(Granted) \in Nat
        BY Terms DEF Granted, Base
      <4>2. Cardinality(Granted \ {a}) = Cardinality(Granted) - 1
        BY <3>2, <4>1, Sizes, SemaphoreAssumption
      <4>3. QED
        BY <3>2, <4>1, <4>2
    <3>5. cancels' - Cardinality(Doomed') + 0 + 0 + (-1) + 0 >= cancels - Cardinality(Doomed)
      BY <1>1, <3>1, <3>3, Terms DEF Base
    <3>6. QED
      BY <2>3, <2>4, <3>4, <3>5, <1>2, Balance DEF Base, Moves
  <2>6. CASE node[waiter[a]] # "Assigned"
    <3>1. Granted' = Granted
      BY <1>1, <2>2, <2>6, NodeFacts DEF Granted, Base, Types
    <3>2. Doomed' \subseteq Doomed \cup {waiter[a]}
      BY <1>1, <2>2, NodeFacts DEF Doomed, Owned, Base, Types
    <3>3. cancels' - Cardinality(Doomed') >= cancels - Cardinality(Doomed)
      <4>1. CASE pc[a] = "queued"
        <5>1. Cardinality(Doomed \cup {waiter[a]}) <= Cardinality(Doomed) + 1
          <6>1. CASE waiter[a] \in Doomed
            <7>1. Doomed \cup {waiter[a]} = Doomed
              BY <6>1
            <7>2. Cardinality(Doomed) \in Nat
              BY Terms DEF Base
            <7>3. Cardinality(Doomed) <= Cardinality(Doomed) + 1
              BY <7>2
            <7>4. QED
              BY <7>1, <7>3, Zenon
          <6>2. CASE waiter[a] \notin Doomed
            BY <1>1, <6>2, Sizes, SemaphoreAssumption, Terms DEF Doomed, Base
          <6>3. QED
            BY <6>1, <6>2
        <5>2. /\ Cardinality(Doomed') <= Cardinality(Doomed \cup {waiter[a]})
              /\ Cardinality(Doomed') \in Nat /\ Cardinality(Doomed \cup {waiter[a]}) \in Nat
          <6>1. Doomed' \in SUBSET Nodes /\ Doomed \cup {waiter[a]} \in SUBSET Nodes
            BY <1>1 DEF Doomed
          <6>2. QED
            BY <3>2, <6>1, Sizes, SemaphoreAssumption
        <5>3. QED
          BY <1>1, <4>1, <5>1, <5>2, Terms DEF Base
      <4>2. CASE pc[a] # "queued"
        <5>1. node[waiter[a]] = "Idle"
          BY <1>1, <4>2, NodeFacts DEF Base, WaitersFit, Entering
        <5>2. Doomed' \subseteq Doomed
          BY <1>1, <2>2, <5>1, NodeFacts DEF Doomed, Owned, Base, Types
        <5>3. Cardinality(Doomed') <= Cardinality(Doomed) /\ Cardinality(Doomed') \in Nat
          <6>1. Doomed' \in SUBSET Nodes /\ Doomed \in SUBSET Nodes
            BY DEF Doomed
          <6>2. QED
            BY <5>2, <6>1, Sizes, SemaphoreAssumption
        <5>4. QED
          BY <1>1, <4>2, <5>3, Terms DEF Base
      <4>3. QED
        BY <4>1, <4>2
    <3>4. /\ Cardinality(Granted') = Cardinality(Granted) + 0
          /\ cancels' - Cardinality(Doomed') + 0 + 0 + 0 + 0 >= cancels - Cardinality(Doomed)
      <4>1. cancels' \in Int /\ cancels \in Int
        BY <1>1 DEF Base, Types
      <4>2. Cardinality(Doomed') \in Int /\ Cardinality(Doomed) \in Int
        BY Sizes, SemaphoreAssumption DEF Doomed
      <4>3. QED
        BY <3>1, <3>3, <4>1, <4>2, Terms DEF Base
    <3>5. QED
      BY <2>3, <2>4, <3>4, <1>2, Balance DEF Base, Moves
  <2>7. QED
    BY <2>5, <2>6
<1>13. Served' = Served \ {waiter[a]}
  BY <1>1, NodeFacts DEF Served, Owned, Base, Types, WaitersFit
<1>14. QED
  BY <1>2, <1>3, <1>4, <1>5, <1>6, <1>7, <1>8, <1>9, <1>10, <1>11, <1>12, <1>13
     DEF Base, QueueFits

-------------------------------------------------------------------------------
(* The theorems. *)

LEMMA InitIInv == Init => IInv
<1> SUFFICES ASSUME Init PROVE IInv
  OBVIOUS
<1> DEFINE q == [i \in Nat |-> Stub]
<1>1. Base
  BY NodeFacts, WordFacts, WordTypes
     DEF Init, Base, Types, PCs, NodeStates, LockFits, OneReleaser, Releasing, WaitersFit,
         Entering, Owned, PopsFit, Popping, ArcsFit, Waits, Popped, NoPanic
<1>2. /\ q \in [Nat -> Nodes \cup {Stub}] /\ \A i \in 0 .. 0 : i = 0 /\ q[i] = Stub
      /\ 0 \in 0 .. 0
  OBVIOUS
<1> HIDE DEF q
<1>3. QueueFits(q, 0, 0)
  BY <1>2, NodeFacts, WordFacts
     DEF Init, QueueFits, Shape, Linkers, Linked, Members, Listed, Popping
<1>4. Conserved
  <2>1. Held = {} /\ Granted = {} /\ Doomed = {} /\ Serving = {}
    BY NodeFacts DEF Init, Held, Granted, Doomed, Serving
  <2>2. Cardinality({}) = 0
    BY FS_EmptySet
  <2>3. Pending = 0 /\ AvailablePermits(state) = Permits /\ cancels = 0
    BY <2>1, WordFacts DEF Pending, AvailablePermits, Init
  <2>4. QED
    BY <2>1, <2>2, <2>3, NodeFacts DEF Conserved, PermitsInUse
<1>5. QED
  BY <1>1, <1>2, <1>3, <1>4 DEF IInv

\* The queue is not disturbed by what it does not speak of.
LEMMA UnchangedKeeps ==
  ASSUME IInv,
         UNCHANGED <<state, head, rxLock, node, next, raw, waiter, pc, curr, strong, rem, n, hd,
                     cancels>>
  PROVE  IInv'
<1>1. Base'
  BY DEF IInv, Base, Types, LockFits, OneReleaser, WaitersFit, Entering, Owned, PopsFit,
         ArcsFit, Waits, Popped, NoPanic
<1>2. PICK q \in [Nat -> Nodes \cup {Stub}], lo \in Nat, hi \in Nat : QueueFits(q, lo, hi)
  BY DEF IInv
<1>3. QueueFits(q, lo, hi)'
  BY <1>2 DEF QueueFits, Shape, Linkers, Links, Linked, Members
<1>4. Conserved'
  <2>1. Held' = Held /\ Granted' = Granted /\ Doomed' = Doomed /\ Pending' = Pending
    BY DEF Held, Granted, Doomed, Owned, Pending, Serving
  <2>2. QED
    BY <2>1 DEF IInv, Conserved, PermitsInUse
<1>5. QED
  BY <1>1, <1>3, <1>4 DEF IInv

LEMMA NextIInv == IInv /\ [Next]_vars => IInv'
<1> SUFFICES ASSUME IInv, [Next]_vars PROVE IInv'
  OBVIOUS
<1>1. CASE UNCHANGED vars
  BY <1>1, UnchangedKeeps DEF vars, words, nodes, locals
<1>2. CASE Next
  <2>1. PICK a \in Actors : CallStep(a) \/ Acquire(a) \/ DropWaiter(a)
    BY <1>2 DEF Next
  <2>2. Base /\ Conserved
    BY DEF IInv
  <2>3. PICK q \in [Nat -> Nodes \cup {Stub}], lo \in Nat, hi \in Nat : QueueFits(q, lo, hi)
    BY DEF IInv
  <2>4. CASE Request(a)
    BY <2>2, <2>3, <2>4, RequestKeeps DEF IInv
  <2>5. CASE Register(a)
    BY <2>2, <2>3, <2>5, RegisterKeeps DEF IInv
  <2>6. CASE Refused(a)
    BY <2>2, <2>3, <2>6, RefusedKeeps DEF IInv
  <2>7. CASE CasFails(a)
    BY <2>2, <2>3, <2>7, CasFailsKeeps DEF IInv
  <2>8. CASE CasTakes(a)
    BY <2>2, <2>3, <2>8, CasTakesKeeps DEF IInv
  <2>9. CASE CasPushes(a)
    BY <2>2, <2>3, <2>9, CasPushesKeeps DEF IInv
  <2>10. CASE Link(a)
    BY <2>2, <2>3, <2>10, LinkKeeps DEF IInv
  <2>11. CASE Revert(a)
    BY <2>2, <2>3, <2>11, RevertKeeps DEF IInv
  <2>12. CASE ReleaseOne(a)
    BY <2>2, <2>3, <2>12, ReleaseOneKeeps DEF IInv
  <2>13. CASE PopFront(a)
    BY <2>2, <2>3, <2>13, PopFrontKeeps DEF IInv
  <2>14. CASE PopEnd(a)
    BY <2>2, <2>3, <2>14, PopEndKeeps DEF IInv
  <2>15. CASE EmptyLoad(a)
    BY <2>2, <2>3, <2>15, EmptyLoadKeeps DEF IInv
  <2>16. CASE Give(a)
    BY <2>2, <2>3, <2>16, GiveKeeps DEF IInv
  <2>17. CASE GiveFails(a)
    BY <2>2, <2>3, <2>17, GiveFailsKeeps DEF IInv
  <2>18. CASE TailLoad(a)
    BY <2>2, <2>3, <2>18, TailLoadKeeps DEF IInv
  <2>19. CASE ResetStub(a)
    BY <2>2, <2>3, <2>19, ResetStubKeeps DEF IInv
  <2>20. CASE SwapStub(a)
    BY <2>2, <2>3, <2>20, SwapStubKeeps DEF IInv
  <2>21. CASE LinkStub(a)
    BY <2>2, <2>3, <2>21, LinkStubKeeps DEF IInv
  <2>22. CASE PopLast(a)
    BY <2>2, <2>3, <2>22, PopLastWaitsKeeps, PopLastPopsKeeps DEF IInv
  <2>23. CASE Notify(a)
    BY <2>2, <2>3, <2>23, NotifyKeeps DEF IInv
  <2>24. CASE Wake(a)
    BY <2>2, <2>3, <2>24, WakeKeeps DEF IInv
  <2>25. CASE Sub(a)
    BY <2>2, <2>3, <2>25, SubKeeps DEF IInv
  <2>26. CASE Acquire(a)
    <3>1. CASE node[waiter[a]] = "Assigned"
      BY <2>2, <2>3, <2>26, <3>1, AcquireGrantedKeeps DEF IInv
    <3>2. CASE node[waiter[a]] # "Assigned"
      BY <2>26, <3>2, UnchangedKeeps DEF Acquire, words, locals
    <3>3. QED
      BY <3>1, <3>2
  <2>27. CASE DropWaiter(a)
    BY <2>2, <2>3, <2>27, DropWaiterKeeps DEF IInv
  <2>28. QED
    BY <2>1, <2>4, <2>5, <2>6, <2>7, <2>8, <2>9, <2>10, <2>11, <2>12, <2>13, <2>14, <2>15,
       <2>16, <2>17, <2>18, <2>19, <2>20, <2>21, <2>22, <2>23, <2>24, <2>25, <2>26, <2>27
       DEF CallStep, PollStep, ReleaseStep
<1>3. QED
  BY <1>1, <1>2

\* The invariant holds in every reachable state.
THEOREM Invariance == Spec => []IInv
BY InitIInv, NextIInv, PTL DEF Spec

\* Of the calls of release_one, one at a time is past rx_lock.
THEOREM ReleaserExclusion == Spec => []OneReleaser
<1>1. IInv => OneReleaser
  BY DEF IInv, Base, LockFits
<1>2. QED
  BY Invariance, <1>1, PTL

\* The unwraps and assertions of pop, push_stub, notify and to_queued_waiting hold.
THEOREM PanicFreedom == Spec => []NoPanic
<1>1. IInv => NoPanic
  BY DEF IInv, Base
<1>2. QED
  BY Invariance, <1>1, PTL

\* No permit is made, and none is lost but by dropping a Waiter while it waits.
THEOREM Conservation == Spec => []PermitsConserved
<1>1. IInv => PermitsConserved
  <2> SUFFICES ASSUME IInv PROVE PermitsConserved
    OBVIOUS
  <2>1. Types /\ Conserved
    BY DEF IInv, Base
  <2>2. PermitsInUse \in Int /\ cancels \in Nat /\ Permits \in Nat /\ Cardinality(Doomed) \in Nat
    BY <2>1, Terms DEF PermitsInUse
  <2>3. QED
    BY <2>1, <2>2 DEF PermitsConserved, Conserved
<1>2. QED
  BY Invariance, <1>1, PTL

\* What pop and poll_permit reach through a raw pointer is allocated.
THEOREM MemorySafety == Spec => []NoUseAfterFree
<1>1. IInv => NoUseAfterFree
  <2> SUFFICES ASSUME IInv PROVE NoUseAfterFree
    OBVIOUS
  <2>1. PICK q \in [Nat -> Nodes \cup {Stub}], lo \in Nat, hi \in Nat : QueueFits(q, lo, hi)
    BY DEF IInv
  <2>2. \A x : Listed(q, lo, hi, x) => x \in Nodes \cup {Stub}
    BY DEF Listed
  <2>3. ASSUME NEW x, Listed(q, lo, hi, x), x # Stub PROVE Allocated(x)
    BY <2>1, <2>2, <2>3 DEF QueueFits, Members, Allocated, IInv, Base, Types
  <2>4. Listed(q, lo, hi, head)
    BY <2>1 DEF QueueFits, Shape, Listed
  <2>5. ASSUME NEW a \in Actors, pc[a] \in {"link", "sublink"}
        PROVE  Listed(q, lo, hi, curr[a].tail)
    <3>1. PICK i \in lo .. hi - 1 : curr[a] = Ptr(q[i])
      BY <2>1, <2>5 DEF QueueFits, Linkers, Links
    <3>2. curr[a].tail = q[i] /\ i \in lo .. hi
      BY <3>1, WordFacts
    <3>3. QED
      BY <3>2 DEF Listed
  <2>6. ASSUME NEW a \in Actors, pc[a] \in {"notify", "wake"} PROVE Allocated(hd[a])
    BY <2>6 DEF IInv, Base, Types, PopsFit, Popping, Allocated
  <2>7. ASSUME NEW a \in Actors, pc[a] = "again" PROVE hd[a] = head
    BY <2>7 DEF IInv, Base, PopsFit
  <2>8. QED
    BY <2>3, <2>4, <2>5, <2>6, <2>7 DEF NoUseAfterFree
<1>2. QED
  BY Invariance, <1>1, PTL

-------------------------------------------------------------------------------
(* The sizes of the words and counters, from the balance of the permits. *)

Sized ==
  /\ state \in Words
  /\ (\A a \in Actors : rem[a] = n[a]) => rxLock <= Permits
  /\ (\A a \in Actors : rem[a] <= Permits) => rxLock <= 2 * Permits
  /\ \A x \in Nodes : raw[x] <= 2

BoundsFit == IInv => Sized

LEMMA Bounds == BoundsFit
<1> SUFFICES ASSUME IInv PROVE Sized
  BY DEF BoundsFit
<1>1. Types /\ LockFits /\ ArcsFit /\ Conserved
  BY DEF IInv, Base
<1>2. /\ Cardinality(Held) \in Nat /\ Cardinality(Granted) \in Nat
      /\ AvailablePermits(state) \in Nat /\ Pending \in Int /\ Permits \in Nat
      /\ rxLock \in Nat
  BY <1>1, Terms DEF Types
<1>3. AvailablePermits(state) + Pending <= Permits
  BY <1>1, <1>2 DEF Conserved, PermitsInUse
<1>4. CASE Serving = {}
  <2>1. Pending = rxLock
    BY <1>4 DEF Pending
  <2>2. AvailablePermits(state) <= Permits /\ rxLock <= Permits
    BY <1>2, <1>3, <2>1
  <2>3. state \in Words
    BY <1>1, <1>2, <2>2, WordCases, WordFacts DEF Types, AvailablePermits, Words
  <2>4. QED
    BY <1>1, <1>2, <2>2, <2>3 DEF Sized, ArcsFit
<1>5. CASE Serving # {}
  <2> DEFINE a == CHOOSE a \in Serving : TRUE
  <2>1. a \in Serving /\ Pending = rxLock - (rem[a] - n[a])
    BY <1>5 DEF Pending
  <2> HIDE DEF a
  <2>2. a \in Actors /\ rem[a] # n[a] /\ rem[a] \in Nat /\ n[a] \in Nat
    BY <1>1, <2>1 DEF Serving, Types
  <2>3. rem[a] <= rxLock
    BY <1>1, <2>2 DEF LockFits
  <2>4. AvailablePermits(state) <= Permits /\ rxLock <= Permits + rem[a]
    BY <1>2, <1>3, <2>1, <2>2, <2>3
  <2>5. state \in Words
    BY <1>1, <1>2, <2>4, WordCases, WordFacts DEF Types, AvailablePermits, Words
  <2>6. (\A b \in Actors : rem[b] <= Permits) => rxLock <= 2 * Permits
    BY <1>2, <2>2, <2>4
  <2>7. QED
    BY <1>1, <2>2, <2>5, <2>6 DEF Sized, ArcsFit
<1>6. QED
  BY <1>4, <1>5

LEMMA BoundsNext == BoundsFit'
BY Bounds, PTL

\* What TypeOK says and the invariant does not.
Rest ==
  /\ curr \in [Actors -> Words] /\ rem \in [Actors -> 0 .. Permits]
  /\ task \in [Nodes -> Actors \cup {Null}]
  /\ woken \in SUBSET Actors /\ cancels \in 0 .. MaxCancels

LEMMA NextRest ==
  ASSUME IInv, IInv', Rest, [Next]_vars
  PROVE  Rest'
<1>1. Sized /\ Sized'
  BY Bounds, BoundsNext DEF BoundsFit
<1>2. Types /\ Types' /\ LockFits
  BY DEF IInv, Base
<1>3. Ptr(Stub) \in Words /\ state \in Words
  BY <1>1 DEF Sized, Words
<1>4. CASE UNCHANGED vars
  BY <1>4 DEF Rest, vars, words, nodes, locals
<1>5. ASSUME NEW a \in Actors, CallStep(a) \/ Acquire(a) \/ DropWaiter(a)
      PROVE  Rest'
  <2>1. curr' \in [Actors -> Words]
    BY <1>3, <1>5
       DEF Rest, CallStep, Acquire, DropWaiter, PollStep, ReleaseStep, Request, Register,
           Refused, CasFails, CasTakes, CasPushes, Link, Revert, ReleaseOne, PopFront, PopEnd,
           EmptyLoad, Give, GiveFails, TailLoad, ResetStub, SwapStub, LinkStub, PopLast, Notify,
           Wake, Sub, Poll, Decide, SeeEmpty, Return, Set, locals
  <2>2. rem' \in [Actors -> 0 .. Permits]
    <3>1. CASE Sub(a)
      <4>1. /\ pc[a] = "sub"
            /\ \/ rem' = [rem EXCEPT ![a] = 0]
               \/ rem' = [rem EXCEPT ![a] = rxLock'] /\ n' = [n EXCEPT ![a] = rxLock']
        BY <3>1 DEF Sub, Return, Set
      <4>2. CASE rem' = [rem EXCEPT ![a] = 0]
        BY <4>2, NodeFacts DEF Rest
      <4>3. CASE rem' = [rem EXCEPT ![a] = rxLock'] /\ n' = [n EXCEPT ![a] = rxLock']
        <5>1. \A b \in Actors \ {a} : rem[b] = n[b]
          BY <1>2, <4>1 DEF LockFits, OneReleaser, Releasing
        <5>2. \A b \in Actors : rem'[b] = n'[b]
          BY <1>2, <4>3, <5>1 DEF Types
        <5>3. rxLock' \in 0 .. Permits
          BY <1>1, <1>2, <5>2, NodeFacts DEF Sized, Types
        <5>4. QED
          BY <4>3, <5>3 DEF Rest
      <4>4. QED
        BY <4>1, <4>2, <4>3
    <3>2. CASE ~Sub(a)
      <4>1. \/ rem' = rem \/ rem' = [rem EXCEPT ![a] = 0] \/ rem' = [rem EXCEPT ![a] = 1]
        BY <1>5, <3>2
           DEF CallStep, Acquire, DropWaiter, PollStep, ReleaseStep, Request, Register, Refused,
               CasFails, CasTakes, CasPushes, Link, Revert, ReleaseOne, PopFront, PopEnd,
               EmptyLoad, Give, GiveFails, TailLoad, ResetStub, SwapStub, LinkStub, PopLast,
               Notify, Wake, Poll, Decide, SeeEmpty, Return, Set, locals
      <4>2. QED
        BY <4>1, NodeFacts DEF Rest
    <3>3. QED
      BY <3>1, <3>2
  <2>3. task' \in [Nodes -> Actors \cup {Null}]
    BY <1>5
       DEF Rest, CallStep, Acquire, DropWaiter, PollStep, ReleaseStep, Request, Register,
           Refused, CasFails, CasTakes, CasPushes, Link, Revert, ReleaseOne, PopFront, PopEnd,
           EmptyLoad, Give, GiveFails, TailLoad, ResetStub, SwapStub, LinkStub, PopLast, Notify,
           Wake, Sub, Poll, SeeEmpty, Set, nodes
  <2>4. woken' \in SUBSET Actors
    <3>1. CASE Wake(a)
      <4>1. hd[a] \in Nodes
        BY <3>1 DEF Wake, IInv, Base, PopsFit, Popping
      <4>2. task[hd[a]] \in Actors \cup {Null}
        BY <4>1 DEF Rest
      <4>3. QED
        BY <3>1, <4>2 DEF Wake, Rest
    <3>2. CASE ~Wake(a)
      BY <1>5, <3>2
         DEF Rest, CallStep, Acquire, DropWaiter, PollStep, ReleaseStep, Request, Register,
             Refused, CasFails, CasTakes, CasPushes, Link, Revert, ReleaseOne, PopFront, PopEnd,
             EmptyLoad, Give, GiveFails, TailLoad, ResetStub, SwapStub, LinkStub, PopLast,
             Notify, Sub, Poll, SeeEmpty
    <3>3. QED
      BY <3>1, <3>2
  <2>5. cancels' \in 0 .. MaxCancels
    <3>1. CASE DropWaiter(a)
      BY <1>2, <3>1, SemaphoreAssumption DEF DropWaiter, Types
    <3>2. CASE ~DropWaiter(a)
      BY <1>5, <3>2
         DEF Rest, CallStep, Acquire, PollStep, ReleaseStep, Request, Register, Refused,
             CasFails, CasTakes, CasPushes, Link, Revert, ReleaseOne, PopFront, PopEnd,
             EmptyLoad, Give, GiveFails, TailLoad, ResetStub, SwapStub, LinkStub, PopLast,
             Notify, Wake, Sub, Poll, SeeEmpty
    <3>3. QED
      BY <3>1, <3>2
  <2>6. QED
    BY <2>1, <2>2, <2>3, <2>4, <2>5 DEF Rest
<1>6. QED
  BY <1>4, <1>5 DEF Next

LEMMA RestHolds == Spec => [](IInv /\ Rest)
<1>1. Init => Rest
  BY NodeFacts, SemaphoreAssumption DEF Init, Rest, Words
<1>2. IInv /\ Rest /\ [Next]_vars => (IInv /\ Rest)'
  BY NextIInv, NextRest
<1>3. QED
  BY InitIInv, <1>1, <1>2, PTL DEF Spec

\* Every variable keeps its type: the word counts at most the permits there are,
\* rx_lock at most twice as many, and a node is held by at most two raw Arcs.
THEOREM TypeCorrect == Spec => []TypeOK
<1>1. IInv /\ Rest => TypeOK
  <2> SUFFICES ASSUME IInv, Rest PROVE TypeOK
    OBVIOUS
  <2>1. Types /\ Sized /\ LockFits
    BY Bounds DEF BoundsFit, IInv, Base
  <2>2. \A a \in Actors : rem[a] \in 0 .. Permits
    BY DEF Rest
  <2>3. rxLock \in 0 .. 2 * Permits
    BY <2>1, <2>2, NodeFacts DEF Types, Sized
  <2>4. raw \in [Nodes -> 0 .. 2]
    <3>1. \A x \in Nodes : raw[x] \in 0 .. 2
      BY <2>1 DEF Types, Sized
    <3>2. QED
      BY <2>1, <3>1 DEF Types
  <2>5. n \in [Actors -> 0 .. Permits]
    <3>1. \A a \in Actors : n[a] \in 0 .. Permits
      BY <2>1, <2>2, NodeFacts DEF Types, LockFits
    <3>2. QED
      BY <2>1, <3>1 DEF Types
  <2>6. QED
    BY <2>1, <2>3, <2>4, <2>5 DEF TypeOK, Rest, Types, Sized
<1>2. QED
  BY RestHolds, <1>1, PTL

\* Each Arc that was turned into a raw pointer is counted once, so none leaks: a
\* node nobody waits with and nobody is popping has none.
THEOREM ArcsCounted == Spec => []ArcsFit
<1>1. IInv => ArcsFit
  BY DEF IInv, Base
<1>2. QED
  BY Invariance, <1>1, PTL

-------------------------------------------------------------------------------
(* A permit assigned is announced, unless a Waiter has been dropped as it waited. *)

Waiting(a) == Entering(a) \/ pc[a] \in {"link", "queued"}

\* A woken task has its permit.
WokenFit ==
  \A a \in Actors : a \in woken => pc[a] = "queued" /\ node[waiter[a]] = "Assigned"

\* A request knows its task until it is popped.
TasksFit ==
  \A a \in Actors : Waiting(a) /\ node[waiter[a]] = "QueuedWaiting" => task[waiter[a]] = a

\* A node popped belongs to a task that waits and has not been woken.
PoppedFit ==
  \A b \in Actors : pc[b] \in Popping =>
    \E a \in Actors :
      /\ waiter[a] = hd[b] /\ task[hd[b]] = a
      /\ pc[a] = "queued" /\ a \notin woken
      /\ pc[b] = "wake" => node[hd[b]] = "Assigned"

Calm == WokenFit /\ TasksFit /\ PoppedFit /\ GrantIsAnnounced

Announced == cancels = 0 => Calm

LEMMA CalmFacts ==
  ASSUME IInv, cancels = 0
  PROVE  /\ \A a \in Actors : pc[a] = "link" => node[waiter[a]] = "QueuedWaiting"
         /\ \A x \in Nodes : node[x] = "QueuedWaiting" => Owned(x)
<1>1. PICK q \in [Nat -> Nodes \cup {Stub}], lo \in Nat, hi \in Nat : QueueFits(q, lo, hi)
  BY DEF IInv
<1>2. ASSUME NEW a \in Actors, pc[a] = "link" PROVE node[waiter[a]] = "QueuedWaiting"
  <2>1. waiter[a] \in Nodes /\ Links(q, lo, hi, a, waiter[a])
    BY <1>1, <1>2, NodeFacts DEF IInv, Base, Types, WaitersFit, QueueFits, Linkers
  <2>2. Listed(q, lo, hi, waiter[a])
    BY <2>1 DEF Links, Listed
  <2>3. QED
    BY <1>1, <2>1, <2>2 DEF QueueFits, Members
<1>3. Doomed = {}
  <2>1. PermitsInUse \in Int /\ Permits \in Nat /\ Cardinality(Doomed) \in Nat
    BY Terms DEF IInv, Base, PermitsInUse
  <2>2. PermitsInUse <= Permits /\ PermitsInUse >= Permits - 0 + Cardinality(Doomed)
    BY DEF IInv, Conserved
  <2>3. Cardinality(Doomed) = 0
    BY <2>1, <2>2
  <2>4. IsFiniteSet(Doomed)
    BY FS_Subset, SemaphoreAssumption DEF Doomed
  <2>5. QED
    BY <2>3, <2>4, FS_EmptySet
<1>4. QED
  BY <1>2, <1>3 DEF Doomed

\* A step that changes no node and wakes nobody.
LEMMA Quiet ==
  ASSUME IInv, IInv', Calm, cancels = 0, UNCHANGED <<node, task, waiter, woken>>,
         \A b \in Actors : pc[b] = "queued" => pc'[b] = "queued",
         \A b \in Actors : pc'[b] = "queued" =>
           pc[b] = "queued" \/ node[waiter[b]] = "QueuedWaiting",
         \A b \in Actors : Waiting(b)' => Waiting(b),
         \A b \in Actors : pc[b] \in Popping => pc'[b] = pc[b] /\ hd'[b] = hd[b],
         \A b \in Actors : pc'[b] = "wake" => pc[b] = "wake"
  PROVE  Calm'
<1>1. WokenFit'
  BY DEF Calm, WokenFit
<1>2. TasksFit'
  BY DEF Calm, TasksFit
<1>3. PoppedFit'
  <2> SUFFICES ASSUME NEW b \in Actors, pc'[b] \in Popping
               PROVE  \E a \in Actors :
                        /\ waiter'[a] = hd'[b] /\ task'[hd'[b]] = a
                        /\ pc'[a] = "queued" /\ a \notin woken'
                        /\ pc'[b] = "wake" => node'[hd'[b]] = "Assigned"
    BY DEF PoppedFit
  <2>1. CASE pc[b] \in Popping
    <3>1. PICK a \in Actors : /\ waiter[a] = hd[b] /\ task[hd[b]] = a
                              /\ pc[a] = "queued" /\ a \notin woken
                              /\ pc[b] = "wake" => node[hd[b]] = "Assigned"
      BY <2>1 DEF Calm, PoppedFit
    <3>2. pc'[b] = pc[b] /\ hd'[b] = hd[b] /\ pc'[a] = "queued"
      BY <2>1, <3>1
    <3>3. QED
      BY <3>1, <3>2
  <2>2. CASE pc[b] \notin Popping
    <3>1. pc'[b] = "notify"
      BY <2>2 DEF Popping
    <3>2. /\ hd'[b] \in Nodes /\ node'[hd'[b]] = "QueuedWaiting"
          /\ \A a \in Actors : waiter'[a] = hd'[b] => pc'[a] = "queued"
      BY <3>1 DEF IInv, Base, PopsFit, Popping
    <3>3. PICK a \in Actors : waiter[a] = hd'[b]
      BY <3>2, CalmFacts DEF Owned
    <3>4. pc'[a] = "queued" /\ node[waiter[a]] = "QueuedWaiting" /\ Waiting(a)
      BY <3>2, <3>3 DEF Waiting
    <3>5. task[waiter[a]] = a /\ a \notin woken
      BY <3>4 DEF Calm, TasksFit, WokenFit
    <3>6. QED
      BY <3>1, <3>3, <3>4, <3>5
  <2>3. QED
    BY <2>1, <2>2
<1>4. GrantIsAnnounced'
  <2> SUFFICES ASSUME NEW a \in Actors, pc'[a] = "queued", node'[waiter'[a]] = "Assigned"
               PROVE  \/ a \in woken'
                      \/ /\ task'[waiter'[a]] = a
                         /\ \E b \in Actors : pc'[b] = "wake" /\ hd'[b] = waiter'[a]
    BY DEF GrantIsAnnounced
  <2>1. pc[a] = "queued" /\ node[waiter[a]] = "Assigned"
    OBVIOUS
  <2>2. \A b \in Actors : pc[b] = "wake" => pc'[b] = "wake" /\ hd'[b] = hd[b]
    BY DEF Popping
  <2>3. QED
    BY <2>1, <2>2 DEF Calm, GrantIsAnnounced
<1>5. QED
  BY <1>1, <1>2, <1>3, <1>4 DEF Calm

LEMMA RequestCalm ==
  ASSUME IInv, IInv', Calm, cancels = 0, NEW a \in Actors, Request(a)
  PROVE  Calm'
<1>1. /\ UNCHANGED <<node, task, waiter, woken>>
      /\ \A b \in Actors : pc[b] = "queued" => pc'[b] = "queued"
      /\ \A b \in Actors : pc'[b] = "queued" =>
           pc[b] = "queued" \/ node[waiter[b]] = "QueuedWaiting"
  BY CalmFacts DEF Request, IInv, Base, Types, Poll, Decide, Goto, Set, words, nodes
<1>2. \A b \in Actors : Waiting(b)' => Waiting(b)
  BY WordFacts
     DEF Request, Waiting, Entering, IInv, Base, Types, WaitersFit, Poll, Decide, Goto, Set,
         words, nodes
<1>3. /\ \A b \in Actors : pc[b] \in Popping => pc'[b] = pc[b] /\ hd'[b] = hd[b]
      /\ \A b \in Actors : pc'[b] = "wake" => pc[b] = "wake"
  BY DEF Request, Popping, IInv, Base, Types, Poll, Decide, Goto, Set, words, nodes
<1>4. QED
  BY <1>1, <1>2, <1>3, Quiet

LEMMA RefusedCalm ==
  ASSUME IInv, IInv', Calm, cancels = 0, NEW a \in Actors, Refused(a)
  PROVE  Calm'
<1>1. /\ UNCHANGED <<node, task, waiter, woken>>
      /\ \A b \in Actors : pc[b] = "queued" => pc'[b] = "queued"
      /\ \A b \in Actors : pc'[b] = "queued" =>
           pc[b] = "queued" \/ node[waiter[b]] = "QueuedWaiting"
  BY CalmFacts DEF Refused, IInv, Base, Types, Return, Goto, Set, words, nodes
<1>2. \A b \in Actors : Waiting(b)' => Waiting(b)
  BY WordFacts
     DEF Refused, Waiting, Entering, IInv, Base, Types, WaitersFit, Return, Goto, Set, words,
         nodes
<1>3. /\ \A b \in Actors : pc[b] \in Popping => pc'[b] = pc[b] /\ hd'[b] = hd[b]
      /\ \A b \in Actors : pc'[b] = "wake" => pc[b] = "wake"
  BY DEF Refused, Popping, IInv, Base, Types, Return, Goto, Set, words, nodes
<1>4. QED
  BY <1>1, <1>2, <1>3, Quiet

LEMMA CasFailsCalm ==
  ASSUME IInv, IInv', Calm, cancels = 0, NEW a \in Actors, CasFails(a)
  PROVE  Calm'
<1>1. /\ UNCHANGED <<node, task, waiter, woken>>
      /\ \A b \in Actors : pc[b] = "queued" => pc'[b] = "queued"
      /\ \A b \in Actors : pc'[b] = "queued" =>
           pc[b] = "queued" \/ node[waiter[b]] = "QueuedWaiting"
  BY CalmFacts DEF CasFails, IInv, Base, Types, Decide, Goto, Set, words, nodes
<1>2. \A b \in Actors : Waiting(b)' => Waiting(b)
  BY WordFacts
     DEF CasFails, Waiting, Entering, IInv, Base, Types, WaitersFit, Decide, Goto, Set, words,
         nodes
<1>3. /\ \A b \in Actors : pc[b] \in Popping => pc'[b] = pc[b] /\ hd'[b] = hd[b]
      /\ \A b \in Actors : pc'[b] = "wake" => pc[b] = "wake"
  BY DEF CasFails, Popping, IInv, Base, Types, Decide, Goto, Set, words, nodes
<1>4. QED
  BY <1>1, <1>2, <1>3, Quiet

LEMMA CasTakesCalm ==
  ASSUME IInv, IInv', Calm, cancels = 0, NEW a \in Actors, CasTakes(a)
  PROVE  Calm'
<1>1. /\ UNCHANGED <<node, task, waiter, woken>>
      /\ \A b \in Actors : pc[b] = "queued" => pc'[b] = "queued"
      /\ \A b \in Actors : pc'[b] = "queued" =>
           pc[b] = "queued" \/ node[waiter[b]] = "QueuedWaiting"
  BY CalmFacts DEF CasTakes, IInv, Base, Types, Return, Goto, Set, nodes
<1>2. \A b \in Actors : Waiting(b)' => Waiting(b)
  BY WordFacts
     DEF CasTakes, Waiting, Entering, IInv, Base, Types, WaitersFit, Return, Goto, Set, nodes
<1>3. /\ \A b \in Actors : pc[b] \in Popping => pc'[b] = pc[b] /\ hd'[b] = hd[b]
      /\ \A b \in Actors : pc'[b] = "wake" => pc[b] = "wake"
  BY DEF CasTakes, Popping, IInv, Base, Types, Return, Goto, Set, nodes
<1>4. QED
  BY <1>1, <1>2, <1>3, Quiet

LEMMA CasPushesCalm ==
  ASSUME IInv, IInv', Calm, cancels = 0, NEW a \in Actors, CasPushes(a)
  PROVE  Calm'
<1>1. /\ UNCHANGED <<node, task, waiter, woken>>
      /\ \A b \in Actors : pc[b] = "queued" => pc'[b] = "queued"
      /\ \A b \in Actors : pc'[b] = "queued" =>
           pc[b] = "queued" \/ node[waiter[b]] = "QueuedWaiting"
  BY CalmFacts DEF CasPushes, IInv, Base, Types, Goto, Set, nodes, locals
<1>2. \A b \in Actors : Waiting(b)' => Waiting(b)
  BY WordFacts
     DEF CasPushes, Waiting, Entering, IInv, Base, Types, WaitersFit, Goto, Set, nodes, locals
<1>3. /\ \A b \in Actors : pc[b] \in Popping => pc'[b] = pc[b] /\ hd'[b] = hd[b]
      /\ \A b \in Actors : pc'[b] = "wake" => pc[b] = "wake"
  BY DEF CasPushes, Popping, IInv, Base, Types, Goto, Set, nodes, locals
<1>4. QED
  BY <1>1, <1>2, <1>3, Quiet

LEMMA LinkCalm ==
  ASSUME IInv, IInv', Calm, cancels = 0, NEW a \in Actors, Link(a)
  PROVE  Calm'
<1>1. /\ UNCHANGED <<node, task, waiter, woken>>
      /\ \A b \in Actors : pc[b] = "queued" => pc'[b] = "queued"
      /\ \A b \in Actors : pc'[b] = "queued" =>
           pc[b] = "queued" \/ node[waiter[b]] = "QueuedWaiting"
  BY CalmFacts DEF Link, IInv, Base, Types, Return, Goto, Set, words
<1>2. \A b \in Actors : Waiting(b)' => Waiting(b)
  BY WordFacts
     DEF Link, Waiting, Entering, IInv, Base, Types, WaitersFit, Return, Goto, Set, words
<1>3. /\ \A b \in Actors : pc[b] \in Popping => pc'[b] = pc[b] /\ hd'[b] = hd[b]
      /\ \A b \in Actors : pc'[b] = "wake" => pc[b] = "wake"
  BY DEF Link, Popping, IInv, Base, Types, Return, Goto, Set, words
<1>4. QED
  BY <1>1, <1>2, <1>3, Quiet

LEMMA ReleaseOneCalm ==
  ASSUME IInv, IInv', Calm, cancels = 0, NEW a \in Actors, ReleaseOne(a)
  PROVE  Calm'
<1>1. /\ UNCHANGED <<node, task, waiter, woken>>
      /\ \A b \in Actors : pc[b] = "queued" => pc'[b] = "queued"
      /\ \A b \in Actors : pc'[b] = "queued" =>
           pc[b] = "queued" \/ node[waiter[b]] = "QueuedWaiting"
  BY CalmFacts DEF ReleaseOne, IInv, Base, Types, Goto, Set, nodes
<1>2. \A b \in Actors : Waiting(b)' => Waiting(b)
  BY WordFacts
     DEF ReleaseOne, Waiting, Entering, IInv, Base, Types, WaitersFit, Goto, Set, nodes
<1>3. /\ \A b \in Actors : pc[b] \in Popping => pc'[b] = pc[b] /\ hd'[b] = hd[b]
      /\ \A b \in Actors : pc'[b] = "wake" => pc[b] = "wake"
  BY DEF ReleaseOne, Popping, IInv, Base, Types, Goto, Set, nodes
<1>4. QED
  BY <1>1, <1>2, <1>3, Quiet

LEMMA PopFrontCalm ==
  ASSUME IInv, IInv', Calm, cancels = 0, NEW a \in Actors, PopFront(a)
  PROVE  Calm'
<1>1. /\ UNCHANGED <<node, task, waiter, woken>>
      /\ \A b \in Actors : pc[b] = "queued" => pc'[b] = "queued"
      /\ \A b \in Actors : pc'[b] = "queued" =>
           pc[b] = "queued" \/ node[waiter[b]] = "QueuedWaiting"
  BY CalmFacts DEF PopFront, IInv, Base, Types, Goto, Set
<1>2. \A b \in Actors : Waiting(b)' => Waiting(b)
  BY WordFacts DEF PopFront, Waiting, Entering, IInv, Base, Types, WaitersFit, Goto, Set
<1>3. /\ \A b \in Actors : pc[b] \in Popping => pc'[b] = pc[b] /\ hd'[b] = hd[b]
      /\ \A b \in Actors : pc'[b] = "wake" => pc[b] = "wake"
  BY DEF PopFront, Popping, IInv, Base, Types, Goto, Set
<1>4. QED
  BY <1>1, <1>2, <1>3, Quiet

LEMMA PopEndCalm ==
  ASSUME IInv, IInv', Calm, cancels = 0, NEW a \in Actors, PopEnd(a)
  PROVE  Calm'
<1>1. /\ UNCHANGED <<node, task, waiter, woken>>
      /\ \A b \in Actors : pc[b] = "queued" => pc'[b] = "queued"
      /\ \A b \in Actors : pc'[b] = "queued" =>
           pc[b] = "queued" \/ node[waiter[b]] = "QueuedWaiting"
  BY CalmFacts DEF PopEnd, IInv, Base, Types, Goto, Set, words, nodes
<1>2. \A b \in Actors : Waiting(b)' => Waiting(b)
  BY WordFacts
     DEF PopEnd, Waiting, Entering, IInv, Base, Types, WaitersFit, Goto, Set, words, nodes
<1>3. /\ \A b \in Actors : pc[b] \in Popping => pc'[b] = pc[b] /\ hd'[b] = hd[b]
      /\ \A b \in Actors : pc'[b] = "wake" => pc[b] = "wake"
  BY DEF PopEnd, Popping, IInv, Base, Types, Goto, Set, words, nodes
<1>4. QED
  BY <1>1, <1>2, <1>3, Quiet

LEMMA EmptyLoadCalm ==
  ASSUME IInv, IInv', Calm, cancels = 0, NEW a \in Actors, EmptyLoad(a)
  PROVE  Calm'
<1>1. /\ UNCHANGED <<node, task, waiter, woken>>
      /\ \A b \in Actors : pc[b] = "queued" => pc'[b] = "queued"
      /\ \A b \in Actors : pc'[b] = "queued" =>
           pc[b] = "queued" \/ node[waiter[b]] = "QueuedWaiting"
  BY CalmFacts DEF EmptyLoad, IInv, Base, Types, SeeEmpty, Goto, Set, words, nodes
<1>2. \A b \in Actors : Waiting(b)' => Waiting(b)
  BY WordFacts
     DEF EmptyLoad, Waiting, Entering, IInv, Base, Types, WaitersFit, SeeEmpty, Goto, Set,
         words, nodes
<1>3. /\ \A b \in Actors : pc[b] \in Popping => pc'[b] = pc[b] /\ hd'[b] = hd[b]
      /\ \A b \in Actors : pc'[b] = "wake" => pc[b] = "wake"
  BY DEF EmptyLoad, Popping, IInv, Base, Types, SeeEmpty, Goto, Set, words, nodes
<1>4. QED
  BY <1>1, <1>2, <1>3, Quiet

LEMMA GiveCalm ==
  ASSUME IInv, IInv', Calm, cancels = 0, NEW a \in Actors, Give(a)
  PROVE  Calm'
<1>1. /\ UNCHANGED <<node, task, waiter, woken>>
      /\ \A b \in Actors : pc[b] = "queued" => pc'[b] = "queued"
      /\ \A b \in Actors : pc'[b] = "queued" =>
           pc[b] = "queued" \/ node[waiter[b]] = "QueuedWaiting"
  BY CalmFacts DEF Give, IInv, Base, Types, Goto, Set, nodes
<1>2. \A b \in Actors : Waiting(b)' => Waiting(b)
  BY WordFacts DEF Give, Waiting, Entering, IInv, Base, Types, WaitersFit, Goto, Set, nodes
<1>3. /\ \A b \in Actors : pc[b] \in Popping => pc'[b] = pc[b] /\ hd'[b] = hd[b]
      /\ \A b \in Actors : pc'[b] = "wake" => pc[b] = "wake"
  BY DEF Give, Popping, IInv, Base, Types, Goto, Set, nodes
<1>4. QED
  BY <1>1, <1>2, <1>3, Quiet

LEMMA GiveFailsCalm ==
  ASSUME IInv, IInv', Calm, cancels = 0, NEW a \in Actors, GiveFails(a)
  PROVE  Calm'
<1>1. /\ UNCHANGED <<node, task, waiter, woken>>
      /\ \A b \in Actors : pc[b] = "queued" => pc'[b] = "queued"
      /\ \A b \in Actors : pc'[b] = "queued" =>
           pc[b] = "queued" \/ node[waiter[b]] = "QueuedWaiting"
  BY CalmFacts DEF GiveFails, IInv, Base, Types, SeeEmpty, Goto, Set, words, nodes
<1>2. \A b \in Actors : Waiting(b)' => Waiting(b)
  BY WordFacts
     DEF GiveFails, Waiting, Entering, IInv, Base, Types, WaitersFit, SeeEmpty, Goto, Set,
         words, nodes
<1>3. /\ \A b \in Actors : pc[b] \in Popping => pc'[b] = pc[b] /\ hd'[b] = hd[b]
      /\ \A b \in Actors : pc'[b] = "wake" => pc[b] = "wake"
  BY DEF GiveFails, Popping, IInv, Base, Types, SeeEmpty, Goto, Set, words, nodes
<1>4. QED
  BY <1>1, <1>2, <1>3, Quiet

LEMMA TailLoadCalm ==
  ASSUME IInv, IInv', Calm, cancels = 0, NEW a \in Actors, TailLoad(a)
  PROVE  Calm'
<1>1. /\ UNCHANGED <<node, task, waiter, woken>>
      /\ \A b \in Actors : pc[b] = "queued" => pc'[b] = "queued"
      /\ \A b \in Actors : pc'[b] = "queued" =>
           pc[b] = "queued" \/ node[waiter[b]] = "QueuedWaiting"
  BY CalmFacts DEF TailLoad, IInv, Base, Types, Goto, Set, words, nodes, locals
<1>2. \A b \in Actors : Waiting(b)' => Waiting(b)
  BY WordFacts
     DEF TailLoad, Waiting, Entering, IInv, Base, Types, WaitersFit, Goto, Set, words, nodes,
         locals
<1>3. /\ \A b \in Actors : pc[b] \in Popping => pc'[b] = pc[b] /\ hd'[b] = hd[b]
      /\ \A b \in Actors : pc'[b] = "wake" => pc[b] = "wake"
  BY DEF TailLoad, Popping, IInv, Base, Types, Goto, Set, words, nodes, locals
<1>4. QED
  BY <1>1, <1>2, <1>3, Quiet

LEMMA ResetStubCalm ==
  ASSUME IInv, IInv', Calm, cancels = 0, NEW a \in Actors, ResetStub(a)
  PROVE  Calm'
<1>1. /\ UNCHANGED <<node, task, waiter, woken>>
      /\ \A b \in Actors : pc[b] = "queued" => pc'[b] = "queued"
      /\ \A b \in Actors : pc'[b] = "queued" =>
           pc[b] = "queued" \/ node[waiter[b]] = "QueuedWaiting"
  BY CalmFacts DEF ResetStub, IInv, Base, Types, Goto, Set, words, locals
<1>2. \A b \in Actors : Waiting(b)' => Waiting(b)
  BY WordFacts
     DEF ResetStub, Waiting, Entering, IInv, Base, Types, WaitersFit, Goto, Set, words, locals
<1>3. /\ \A b \in Actors : pc[b] \in Popping => pc'[b] = pc[b] /\ hd'[b] = hd[b]
      /\ \A b \in Actors : pc'[b] = "wake" => pc[b] = "wake"
  BY DEF ResetStub, Popping, IInv, Base, Types, Goto, Set, words, locals
<1>4. QED
  BY <1>1, <1>2, <1>3, Quiet

LEMMA SwapStubCalm ==
  ASSUME IInv, IInv', Calm, cancels = 0, NEW a \in Actors, SwapStub(a)
  PROVE  Calm'
<1>1. /\ UNCHANGED <<node, task, waiter, woken>>
      /\ \A b \in Actors : pc[b] = "queued" => pc'[b] = "queued"
      /\ \A b \in Actors : pc'[b] = "queued" =>
           pc[b] = "queued" \/ node[waiter[b]] = "QueuedWaiting"
  BY CalmFacts DEF SwapStub, IInv, Base, Types, Goto, Set, nodes
<1>2. \A b \in Actors : Waiting(b)' => Waiting(b)
  BY WordFacts DEF SwapStub, Waiting, Entering, IInv, Base, Types, WaitersFit, Goto, Set, nodes
<1>3. /\ \A b \in Actors : pc[b] \in Popping => pc'[b] = pc[b] /\ hd'[b] = hd[b]
      /\ \A b \in Actors : pc'[b] = "wake" => pc[b] = "wake"
  BY DEF SwapStub, Popping, IInv, Base, Types, Goto, Set, nodes
<1>4. QED
  BY <1>1, <1>2, <1>3, Quiet

LEMMA LinkStubCalm ==
  ASSUME IInv, IInv', Calm, cancels = 0, NEW a \in Actors, LinkStub(a)
  PROVE  Calm'
<1>1. /\ UNCHANGED <<node, task, waiter, woken>>
      /\ \A b \in Actors : pc[b] = "queued" => pc'[b] = "queued"
      /\ \A b \in Actors : pc'[b] = "queued" =>
           pc[b] = "queued" \/ node[waiter[b]] = "QueuedWaiting"
  BY CalmFacts DEF LinkStub, IInv, Base, Types, Goto, Set, words, locals
<1>2. \A b \in Actors : Waiting(b)' => Waiting(b)
  BY WordFacts
     DEF LinkStub, Waiting, Entering, IInv, Base, Types, WaitersFit, Goto, Set, words, locals
<1>3. /\ \A b \in Actors : pc[b] \in Popping => pc'[b] = pc[b] /\ hd'[b] = hd[b]
      /\ \A b \in Actors : pc'[b] = "wake" => pc[b] = "wake"
  BY DEF LinkStub, Popping, IInv, Base, Types, Goto, Set, words, locals
<1>4. QED
  BY <1>1, <1>2, <1>3, Quiet

LEMMA PopLastCalm ==
  ASSUME IInv, IInv', Calm, cancels = 0, NEW a \in Actors, PopLast(a)
  PROVE  Calm'
<1>1. /\ UNCHANGED <<node, task, waiter, woken>>
      /\ \A b \in Actors : pc[b] = "queued" => pc'[b] = "queued"
      /\ \A b \in Actors : pc'[b] = "queued" =>
           pc[b] = "queued" \/ node[waiter[b]] = "QueuedWaiting"
  BY CalmFacts DEF PopLast, IInv, Base, Types, Goto, Set, locals
<1>2. \A b \in Actors : Waiting(b)' => Waiting(b)
  BY WordFacts DEF PopLast, Waiting, Entering, IInv, Base, Types, WaitersFit, Goto, Set, locals
<1>3. /\ \A b \in Actors : pc[b] \in Popping => pc'[b] = pc[b] /\ hd'[b] = hd[b]
      /\ \A b \in Actors : pc'[b] = "wake" => pc[b] = "wake"
  BY DEF PopLast, Popping, IInv, Base, Types, Goto, Set, locals
<1>4. QED
  BY <1>1, <1>2, <1>3, Quiet

LEMMA SubCalm ==
  ASSUME IInv, IInv', Calm, cancels = 0, NEW a \in Actors, Sub(a)
  PROVE  Calm'
<1>1. /\ UNCHANGED <<node, task, waiter, woken>>
      /\ \A b \in Actors : pc[b] = "queued" => pc'[b] = "queued"
      /\ \A b \in Actors : pc'[b] = "queued" =>
           pc[b] = "queued" \/ node[waiter[b]] = "QueuedWaiting"
  BY CalmFacts DEF Sub, IInv, Base, Types, Return, Goto, Set, nodes
<1>2. \A b \in Actors : Waiting(b)' => Waiting(b)
  BY WordFacts
     DEF Sub, Waiting, Entering, IInv, Base, Types, WaitersFit, Return, Goto, Set, nodes
<1>3. /\ \A b \in Actors : pc[b] \in Popping => pc'[b] = pc[b] /\ hd'[b] = hd[b]
      /\ \A b \in Actors : pc'[b] = "wake" => pc[b] = "wake"
  BY DEF Sub, Popping, IInv, Base, Types, Return, Goto, Set, nodes
<1>4. QED
  BY <1>1, <1>2, <1>3, Quiet

LEMMA RegisterCalm ==
  ASSUME IInv, IInv', Rest, Calm, cancels = 0, NEW a \in Actors, Register(a)
  PROVE  Calm'
<1>1. Base /\ NoPanic'
  BY DEF IInv, Base
<1>2. PICK x \in NodesFor(a) :
        /\ waiter' = [waiter EXCEPT ![a] = x] /\ task' = [task EXCEPT ![x] = a]
        /\ IF DebugAsserts /\ node[x] \notin {"Idle", "Queued"}
           THEN Goto(a, "panicked") /\ UNCHANGED <<node, next, raw, locals>>
           ELSE /\ node' = [node EXCEPT ![x] = "QueuedWaiting"]
                /\ IF node[x] \in {"Queued", "QueuedWaiting"}
                   THEN Return(a, "queued") /\ UNCHANGED <<next, raw>>
                   ELSE /\ next' = [next EXCEPT ![x] = Null]
                        /\ raw' = [raw EXCEPT ![x] = raw[x] + 1]
                        /\ strong' = [strong EXCEPT ![a] = TRUE]
                        /\ pc' = [pc EXCEPT ![a] = "cas"]
                        /\ UNCHANGED <<curr, rem, n, hd>>
  BY DEF Register, Set, Goto
<1>3. pc[a] = "register" /\ woken' = woken
  BY DEF Register
<1>4. x \in Nodes /\ node[x] = "Idle"
  BY <1>1, <1>3, SemaphoreAssumption
     DEF NodesFor, Allocated, Base, Types, WaitersFit, Entering
<1>5. /\ node' = [node EXCEPT ![x] = "QueuedWaiting"] /\ hd' = hd
      /\ pc' = [pc EXCEPT ![a] = "cas"]
  BY <1>2, <1>4
<1>6. \A b \in Actors \ {a} : waiter[b] # x
  BY <1>1, <1>3, NodeFacts DEF NodesFor, Allocated, Owned, Base, Types, WaitersFit
<1>7. \A b \in Actors : pc[b] \in Popping => b # a /\ hd[b] # x
  <2>1. ASSUME NEW b \in Actors, pc[b] \in Popping, hd[b] = x PROVE FALSE
    <3>1. raw[x] >= 1
      BY <1>1, <2>1 DEF Base, PopsFit
    <3>2. PICK c \in Actors : waiter[c] = x /\ pc[c] = "queued"
      BY <2>1 DEF Calm, PoppedFit
    <3>3. QED
      BY <1>3, <1>6, <3>2
  <2>2. QED
    BY <1>3, <2>1 DEF Popping
<1>8. a \notin woken
  BY <1>3 DEF Calm, WokenFit
<1>9. /\ \A b \in Actors \ {a} : pc'[b] = pc[b] /\ waiter'[b] = waiter[b]
      /\ \A b \in Actors \ {a} : Entering(b)' => Entering(b)
      /\ pc'[a] = "cas" /\ waiter'[a] = x
  <2>1. \A b \in Actors \ {a} : strong'[b] = strong[b] /\ pc'[b] = pc[b] /\ waiter'[b] = waiter[b]
    BY <1>1, <1>2, <1>4, <1>5 DEF Base, Types
  <2>2. QED
    BY <1>1, <1>2, <1>5, <2>1 DEF Base, Types, Entering
<1>10. \A y \in Nodes : y # x => node'[y] = node[y] /\ task'[y] = task[y]
  BY <1>1, <1>2, <1>5 DEF Base, Types, Rest
<1>11. task'[x] = a
  BY <1>2, <1>4 DEF Rest
<1>12. \A b \in Actors : pc[b] \in {"queued", "link"} \/ Entering(b) => waiter[b] \in Nodes
  BY <1>1 DEF Base, Types, WaitersFit
<1>13. WokenFit'
  BY <1>3, <1>6, <1>8, <1>9, <1>10, <1>12 DEF Calm, WokenFit
<1>14. TasksFit'
  <2> SUFFICES ASSUME NEW b \in Actors, Waiting(b)', node'[waiter'[b]] = "QueuedWaiting"
               PROVE  task'[waiter'[b]] = b
    BY DEF TasksFit
  <2>1. CASE b = a
    BY <1>9, <1>11, <2>1
  <2>2. CASE b # a
    <3>1. Waiting(b) /\ waiter'[b] = waiter[b] /\ waiter[b] # x
      BY <1>6, <1>9, <2>2 DEF Waiting
    <3>2. waiter[b] \in Nodes
      BY <1>12, <3>1 DEF Waiting
    <3>3. QED
      BY <1>10, <3>1, <3>2 DEF Calm, TasksFit
  <2>3. QED
    BY <2>1, <2>2
<1>15. PoppedFit'
  <2> SUFFICES ASSUME NEW b \in Actors, pc'[b] \in Popping
               PROVE  \E c \in Actors :
                        /\ waiter'[c] = hd'[b] /\ task'[hd'[b]] = c
                        /\ pc'[c] = "queued" /\ c \notin woken'
                        /\ pc'[b] = "wake" => node'[hd'[b]] = "Assigned"
    BY DEF PoppedFit
  <2>1. b # a /\ pc[b] = pc'[b] /\ pc[b] \in Popping /\ hd[b] # x /\ hd'[b] = hd[b]
    BY <1>5, <1>7, <1>9 DEF Popping
  <2>2. hd[b] \in Nodes
    BY <1>1, <2>1 DEF Base, PopsFit
  <2>3. PICK c \in Actors : /\ waiter[c] = hd[b] /\ task[hd[b]] = c
                            /\ pc[c] = "queued" /\ c \notin woken
                            /\ pc[b] = "wake" => node[hd[b]] = "Assigned"
    BY <2>1 DEF Calm, PoppedFit
  <2>4. c # a
    BY <1>3, <2>3
  <2>5. QED
    BY <1>3, <1>9, <1>10, <2>1, <2>2, <2>3, <2>4
<1>16. GrantIsAnnounced'
  <2> SUFFICES ASSUME NEW b \in Actors, pc'[b] = "queued", node'[waiter'[b]] = "Assigned"
               PROVE  \/ b \in woken'
                      \/ /\ task'[waiter'[b]] = b
                         /\ \E c \in Actors : pc'[c] = "wake" /\ hd'[c] = waiter'[b]
    BY DEF GrantIsAnnounced
  <2>1. b # a /\ pc[b] = "queued" /\ waiter'[b] = waiter[b] /\ waiter[b] \in Nodes /\ waiter[b] # x
    BY <1>6, <1>9, <1>12
  <2>2. node[waiter[b]] = "Assigned" /\ task'[waiter[b]] = task[waiter[b]]
    BY <1>10, <2>1
  <2>3. \A c \in Actors : pc[c] = "wake" => pc'[c] = "wake" /\ hd'[c] = hd[c]
    BY <1>3, <1>5, <1>9
  <2>4. QED
    BY <1>3, <2>1, <2>2, <2>3 DEF Calm, GrantIsAnnounced
<1>17. QED
  BY <1>13, <1>14, <1>15, <1>16 DEF Calm

LEMMA RevertCalm ==
  ASSUME IInv, IInv', Calm, cancels = 0, NEW a \in Actors, Revert(a)
  PROVE  Calm'
<1>1. Base
  BY DEF IInv
<1>2. /\ pc[a] = "revert" /\ waiter[a] \in Nodes
      /\ node' = [node EXCEPT ![waiter[a]] = "Idle"] /\ pc' = [pc EXCEPT ![a] = "holding"]
      /\ UNCHANGED <<task, waiter, woken, hd, strong>>
  BY <1>1 DEF Revert, Goto, Set, words, locals, Base, Types, WaitersFit, Entering
<1>3. \A b \in Actors \ {a} : waiter[b] # waiter[a] /\ pc'[b] = pc[b]
  BY <1>1, <1>2, NodeFacts DEF Base, Types, WaitersFit
<1>4. /\ \A x \in Nodes : x # waiter[a] => node'[x] = node[x]
      /\ node'[waiter[a]] = "Idle" /\ pc'[a] = "holding"
      /\ \A b \in Actors : pc'[b] # "holding" => b # a
  BY <1>1, <1>2 DEF Base, Types
<1>5. \A b \in Actors : Waiting(b) => waiter[b] \in Nodes
  BY <1>1 DEF Base, Types, WaitersFit, Waiting
<1>6. \A b \in Actors : Waiting(b)' => b # a /\ Waiting(b)
  BY <1>2, <1>3, <1>4 DEF Waiting, Entering
<1>7. \A b \in Actors : b \in woken => b # a
  BY <1>2 DEF Calm, WokenFit
<1>8. WokenFit'
  BY <1>2, <1>3, <1>4, <1>5, <1>7 DEF Calm, WokenFit, Waiting
<1>9. TasksFit'
  BY <1>2, <1>3, <1>4, <1>5, <1>6 DEF Calm, TasksFit
<1>10. \A b \in Actors : pc[b] \in Popping => b # a /\ hd[b] \in Nodes /\ hd[b] # waiter[a]
  <2>1. ASSUME NEW b \in Actors, pc[b] \in Popping PROVE hd[b] # waiter[a]
    BY <1>2, <1>3, <2>1 DEF Calm, PoppedFit
  <2>2. QED
    BY <1>1, <1>2, <2>1 DEF Base, PopsFit, Popping
<1>11. PoppedFit'
  <2> SUFFICES ASSUME NEW b \in Actors, pc'[b] \in Popping
               PROVE  \E c \in Actors :
                        /\ waiter'[c] = hd'[b] /\ task'[hd'[b]] = c
                        /\ pc'[c] = "queued" /\ c \notin woken'
                        /\ pc'[b] = "wake" => node'[hd'[b]] = "Assigned"
    BY DEF PoppedFit
  <2>1. pc[b] = pc'[b] /\ pc[b] \in Popping /\ hd'[b] = hd[b]
    BY <1>2, <1>3, <1>4 DEF Popping
  <2>2. PICK c \in Actors : /\ waiter[c] = hd[b] /\ task[hd[b]] = c
                            /\ pc[c] = "queued" /\ c \notin woken
                            /\ pc[b] = "wake" => node[hd[b]] = "Assigned"
    BY <2>1 DEF Calm, PoppedFit
  <2>3. c # a
    BY <1>2, <2>2
  <2>4. QED
    BY <1>2, <1>3, <1>4, <1>10, <2>1, <2>2, <2>3
<1>12. GrantIsAnnounced'
  <2> SUFFICES ASSUME NEW b \in Actors, pc'[b] = "queued", node'[waiter'[b]] = "Assigned"
               PROVE  \/ b \in woken'
                      \/ /\ task'[waiter'[b]] = b
                         /\ \E c \in Actors : pc'[c] = "wake" /\ hd'[c] = waiter'[b]
    BY DEF GrantIsAnnounced
  <2>1. pc[b] = "queued" /\ node[waiter[b]] = "Assigned"
    BY <1>2, <1>3, <1>4, <1>5 DEF Waiting
  <2>2. \A c \in Actors : pc[c] = "wake" => pc'[c] = "wake" /\ hd'[c] = hd[c]
    BY <1>2, <1>3
  <2>3. QED
    BY <1>2, <2>1, <2>2 DEF Calm, GrantIsAnnounced
<1>13. QED
  BY <1>8, <1>9, <1>11, <1>12 DEF Calm

LEMMA NotifyCalm ==
  ASSUME IInv, IInv', Calm, cancels = 0, NEW a \in Actors, Notify(a)
  PROVE  Calm'
<1>1. Base
  BY DEF IInv
<1>2. pc[a] = "notify" /\ hd[a] \in Nodes /\ node[hd[a]] = "QueuedWaiting"
  BY <1>1 DEF Notify, Base, PopsFit, Popping
<1>3. /\ node' = [node EXCEPT ![hd[a]] = "Assigned"] /\ pc' = [pc EXCEPT ![a] = "wake"]
      /\ UNCHANGED <<task, waiter, woken, hd, strong>>
  BY <1>2 DEF Notify, Goto, Set
<1>4. /\ \A x \in Nodes : x # hd[a] => node'[x] = node[x]
      /\ node'[hd[a]] = "Assigned" /\ pc'[a] = "wake"
      /\ \A b \in Actors \ {a} : pc'[b] = pc[b]
  BY <1>1, <1>2, <1>3 DEF Base, Types
<1>5. \A b \in Actors \ {a} : pc[b] \notin Popping
  BY <1>1, <1>2, Alone DEF Releasing, Popping
<1>6. \A b \in Actors : Waiting(b) => waiter[b] \in Nodes
  BY <1>1 DEF Base, Types, WaitersFit, Waiting
<1>7. PICK c \in Actors : /\ waiter[c] = hd[a] /\ task[hd[a]] = c
                          /\ pc[c] = "queued" /\ c \notin woken
  BY <1>2 DEF Calm, PoppedFit, Popping
<1>8. \A b \in Actors : waiter[b] = hd[a] => b = c
  BY <1>1, <1>2, <1>7, NodeFacts DEF Base, WaitersFit
<1>9. \A b \in Actors : Waiting(b)' => Waiting(b)
  BY <1>3, <1>4 DEF Waiting, Entering
<1>10. WokenFit'
  BY <1>2, <1>3, <1>4, <1>6 DEF Calm, WokenFit, Waiting
<1>11. TasksFit'
  BY <1>3, <1>4, <1>6, <1>9 DEF Calm, TasksFit
<1>12. PoppedFit'
  BY <1>2, <1>3, <1>4, <1>5, <1>7 DEF PoppedFit
<1>13. GrantIsAnnounced'
  <2> SUFFICES ASSUME NEW b \in Actors, pc'[b] = "queued", node'[waiter'[b]] = "Assigned"
               PROVE  \/ b \in woken'
                      \/ /\ task'[waiter'[b]] = b
                         /\ \E d \in Actors : pc'[d] = "wake" /\ hd'[d] = waiter'[b]
    BY DEF GrantIsAnnounced
  <2>1. pc[b] = "queued" /\ waiter[b] \in Nodes /\ waiter'[b] = waiter[b]
    BY <1>2, <1>3, <1>4, <1>6 DEF Waiting
  <2>2. CASE waiter[b] = hd[a]
    BY <1>3, <1>4, <1>7, <1>8, <2>1, <2>2
  <2>3. CASE waiter[b] # hd[a]
    <3>1. node[waiter[b]] = "Assigned"
      BY <1>4, <2>1, <2>3
    <3>2. \A d \in Actors : pc[d] # "wake"
      BY <1>2, <1>5 DEF Popping
    <3>3. QED
      BY <1>3, <2>1, <3>1, <3>2 DEF Calm, GrantIsAnnounced
  <2>4. QED
    BY <2>2, <2>3
<1>14. QED
  BY <1>10, <1>11, <1>12, <1>13 DEF Calm

LEMMA WakeCalm ==
  ASSUME IInv, IInv', Rest, Calm, cancels = 0, NEW a \in Actors, Wake(a)
  PROVE  Calm'
<1>1. Base
  BY DEF IInv
<1>2. pc[a] = "wake" /\ hd[a] \in Nodes
  BY <1>1 DEF Wake, Base, PopsFit, Popping
<1>3. PICK c \in Actors : /\ waiter[c] = hd[a] /\ task[hd[a]] = c
                          /\ pc[c] = "queued" /\ c \notin woken
                          /\ node[hd[a]] = "Assigned"
  BY <1>2 DEF Calm, PoppedFit, Popping
<1>4. /\ woken' = woken \cup {c} /\ task' = [task EXCEPT ![hd[a]] = Null]
      /\ UNCHANGED <<node, waiter, hd, strong>>
      /\ pc' = [pc EXCEPT ![a] = IF n[a] > 0 THEN "pop" ELSE "sub"]
  BY <1>2, <1>3, NodeFacts DEF Wake, Goto, Set, Owned, locals
<1>5. /\ \A x \in Nodes : x # hd[a] => task'[x] = task[x]
      /\ pc'[a] \in {"pop", "sub"} /\ \A b \in Actors \ {a} : pc'[b] = pc[b]
  BY <1>1, <1>2, <1>4 DEF Base, Types, Rest
<1>6. \A b \in Actors \ {a} : pc[b] \notin Popping
  BY <1>1, <1>2, Alone DEF Releasing, Popping
<1>7. \A b \in Actors : Waiting(b) => waiter[b] \in Nodes
  BY <1>1 DEF Base, Types, WaitersFit, Waiting
<1>8. \A b \in Actors : waiter[b] = hd[a] => b = c
  BY <1>1, <1>2, <1>3, NodeFacts DEF Base, WaitersFit
<1>9. \A b \in Actors : Waiting(b)' => Waiting(b)
  BY <1>4, <1>5 DEF Waiting, Entering
<1>10. WokenFit'
  BY <1>2, <1>3, <1>4, <1>5 DEF Calm, WokenFit
<1>11. TasksFit'
  BY <1>3, <1>4, <1>5, <1>7, <1>9 DEF Calm, TasksFit
<1>12. PoppedFit'
  BY <1>5, <1>6 DEF PoppedFit, Popping
<1>13. GrantIsAnnounced'
  <2> SUFFICES ASSUME NEW b \in Actors, pc'[b] = "queued", node'[waiter'[b]] = "Assigned",
                      b \notin woken'
               PROVE  /\ task'[waiter'[b]] = b
                      /\ \E d \in Actors : pc'[d] = "wake" /\ hd'[d] = waiter'[b]
    BY DEF GrantIsAnnounced
  <2>1. pc[b] = "queued" /\ node[waiter[b]] = "Assigned" /\ b \notin woken /\ b # c
    BY <1>4, <1>5
  <2>2. PICK d \in Actors : pc[d] = "wake" /\ hd[d] = waiter[b]
    BY <2>1 DEF Calm, GrantIsAnnounced
  <2>3. d = a
    BY <1>6, <2>2 DEF Popping
  <2>4. QED
    BY <1>8, <2>1, <2>2, <2>3
<1>14. QED
  BY <1>10, <1>11, <1>12, <1>13 DEF Calm

LEMMA AcquireCalm ==
  ASSUME ~Repolls, IInv, IInv', Calm, cancels = 0, NEW a \in Actors, Acquire(a)
  PROVE  Calm'
<1>1. Base
  BY DEF IInv
<1>2. pc[a] = "queued" /\ a \in woken /\ node[waiter[a]] = "Assigned"
  BY DEF Acquire, MayBePolled, Calm, WokenFit
<1>3. /\ woken' = woken \ {a} /\ waiter[a] \in Nodes
      /\ node' = [node EXCEPT ![waiter[a]] = "Idle"] /\ pc' = [pc EXCEPT ![a] = "holding"]
      /\ UNCHANGED <<task, waiter, hd, strong>>
  BY <1>1, <1>2 DEF Acquire, Goto, Set, words, locals, Base, Types, WaitersFit
<1>4. \A b \in Actors \ {a} : waiter[b] # waiter[a] /\ pc'[b] = pc[b]
  BY <1>1, <1>3, NodeFacts DEF Base, Types, WaitersFit
<1>5. /\ \A x \in Nodes : x # waiter[a] => node'[x] = node[x]
      /\ node'[waiter[a]] = "Idle" /\ pc'[a] = "holding"
      /\ \A b \in Actors : pc'[b] # "holding" => b # a
  BY <1>1, <1>3 DEF Base, Types
<1>6. \A b \in Actors : Waiting(b) => waiter[b] \in Nodes
  BY <1>1 DEF Base, Types, WaitersFit, Waiting
<1>7. \A b \in Actors : Waiting(b)' => b # a /\ Waiting(b)
  BY <1>3, <1>4, <1>5 DEF Waiting, Entering
<1>8. WokenFit'
  BY <1>3, <1>4, <1>5, <1>6 DEF Calm, WokenFit, Waiting
<1>9. TasksFit'
  BY <1>3, <1>4, <1>5, <1>6, <1>7 DEF Calm, TasksFit
<1>10. \A b \in Actors : pc[b] \in Popping => b # a /\ hd[b] \in Nodes /\ hd[b] # waiter[a]
  <2>1. ASSUME NEW b \in Actors, pc[b] \in Popping, hd[b] = waiter[a] PROVE FALSE
    <3>1. PICK c \in Actors : waiter[c] = hd[b] /\ c \notin woken
      BY <2>1 DEF Calm, PoppedFit
    <3>2. QED
      BY <1>2, <1>4, <2>1, <3>1
  <2>2. QED
    BY <1>1, <1>2, <2>1 DEF Base, PopsFit, Popping
<1>11. PoppedFit'
  <2> SUFFICES ASSUME NEW b \in Actors, pc'[b] \in Popping
               PROVE  \E c \in Actors :
                        /\ waiter'[c] = hd'[b] /\ task'[hd'[b]] = c
                        /\ pc'[c] = "queued" /\ c \notin woken'
                        /\ pc'[b] = "wake" => node'[hd'[b]] = "Assigned"
    BY DEF PoppedFit
  <2>1. pc[b] = pc'[b] /\ pc[b] \in Popping /\ hd'[b] = hd[b]
    BY <1>3, <1>4, <1>5 DEF Popping
  <2>2. PICK c \in Actors : /\ waiter[c] = hd[b] /\ task[hd[b]] = c
                            /\ pc[c] = "queued" /\ c \notin woken
                            /\ pc[b] = "wake" => node[hd[b]] = "Assigned"
    BY <2>1 DEF Calm, PoppedFit
  <2>3. c # a
    BY <1>2, <2>2
  <2>4. QED
    BY <1>3, <1>4, <1>5, <1>10, <2>1, <2>2, <2>3
<1>12. GrantIsAnnounced'
  <2> SUFFICES ASSUME NEW b \in Actors, pc'[b] = "queued", node'[waiter'[b]] = "Assigned"
               PROVE  \/ b \in woken'
                      \/ /\ task'[waiter'[b]] = b
                         /\ \E c \in Actors : pc'[c] = "wake" /\ hd'[c] = waiter'[b]
    BY DEF GrantIsAnnounced
  <2>1. b # a /\ pc[b] = "queued" /\ node[waiter[b]] = "Assigned"
    BY <1>3, <1>4, <1>5, <1>6 DEF Waiting
  <2>2. \A c \in Actors : pc[c] = "wake" => pc'[c] = "wake" /\ hd'[c] = hd[c]
    BY <1>2, <1>3, <1>4
  <2>3. QED
    BY <1>3, <2>1, <2>2 DEF Calm, GrantIsAnnounced
<1>13. QED
  BY <1>8, <1>9, <1>11, <1>12 DEF Calm

LEMMA DropWaiterCalm ==
  ASSUME IInv, IInv', Rest, Calm, cancels = 0, cancels' = 0, NEW a \in Actors, DropWaiter(a)
  PROVE  Calm'
<1>1. Base
  BY DEF IInv
<1>2. pc[a] = "idle" /\ waiter[a] \in Nodes
  BY <1>1 DEF DropWaiter, Base, Types
<1>3. /\ waiter' = [waiter EXCEPT ![a] = Null] /\ pc' = pc
      /\ \A x \in Nodes : x # waiter[a] => node'[x] = node[x] /\ task'[x] = task[x]
      /\ UNCHANGED <<woken, hd, strong>>
  BY <1>1, <1>2 DEF DropWaiter, Goto, Set, words, locals, Base, Types, Rest
<1>4. \A b \in Actors \ {a} : waiter[b] # waiter[a] /\ waiter'[b] = waiter[b]
  BY <1>1, <1>2, <1>3, NodeFacts DEF Base, Types, WaitersFit
<1>5. \A b \in Actors : Waiting(b) => b # a /\ waiter[b] \in Nodes
  BY <1>1, <1>2 DEF Base, Types, WaitersFit, Waiting, Entering
<1>6. \A b \in Actors : Waiting(b)' <=> Waiting(b)
  BY <1>3 DEF Waiting, Entering
<1>7. WokenFit'
  BY <1>3, <1>4, <1>5 DEF Calm, WokenFit, Waiting
<1>8. TasksFit'
  BY <1>3, <1>4, <1>5, <1>6 DEF Calm, TasksFit
<1>9. PoppedFit'
  <2> SUFFICES ASSUME NEW b \in Actors, pc[b] \in Popping
               PROVE  \E c \in Actors :
                        /\ waiter'[c] = hd'[b] /\ task'[hd'[b]] = c
                        /\ pc'[c] = "queued" /\ c \notin woken'
                        /\ pc'[b] = "wake" => node'[hd'[b]] = "Assigned"
    BY <1>3 DEF PoppedFit
  <2>1. PICK c \in Actors : /\ waiter[c] = hd[b] /\ task[hd[b]] = c
                            /\ pc[c] = "queued" /\ c \notin woken
                            /\ pc[b] = "wake" => node[hd[b]] = "Assigned"
    BY DEF Calm, PoppedFit
  <2>2. c # a /\ hd[b] \in Nodes /\ hd[b] # waiter[a]
    BY <1>1, <1>2, <1>4, <2>1 DEF Base, PopsFit
  <2>3. QED
    BY <1>3, <1>4, <2>1, <2>2
<1>10. GrantIsAnnounced'
  <2> SUFFICES ASSUME NEW b \in Actors, pc'[b] = "queued", node'[waiter'[b]] = "Assigned"
               PROVE  \/ b \in woken'
                      \/ /\ task'[waiter'[b]] = b
                         /\ \E c \in Actors : pc'[c] = "wake" /\ hd'[c] = waiter'[b]
    BY DEF GrantIsAnnounced
  <2>1. /\ b # a /\ pc[b] = "queued" /\ waiter'[b] = waiter[b] /\ waiter[b] \in Nodes
        /\ waiter[b] # waiter[a]
    BY <1>3, <1>4, <1>5 DEF Waiting
  <2>2. node[waiter[b]] = "Assigned" /\ task'[waiter[b]] = task[waiter[b]]
    BY <1>3, <2>1
  <2>3. QED
    BY <1>3, <2>1, <2>2 DEF Calm, GrantIsAnnounced
<1>11. QED
  BY <1>7, <1>8, <1>9, <1>10 DEF Calm

LEMMA CancelsGrow ==
  ASSUME Rest, [Next]_vars
  PROVE  cancels' = cancels \/ (MayDrop /\ cancels' >= cancels)
<1>1. CASE UNCHANGED vars
  BY <1>1 DEF vars
<1>2. ASSUME NEW a \in Actors, DropWaiter(a) PROVE MayDrop /\ cancels' >= cancels
  BY <1>2, SemaphoreAssumption DEF DropWaiter, Rest
<1>3. ASSUME NEW a \in Actors, CallStep(a) \/ Acquire(a) PROVE cancels' = cancels
  BY <1>3
     DEF CallStep, Acquire, PollStep, ReleaseStep, Request, Register, Refused, CasFails,
         CasTakes, CasPushes, Link, Revert, ReleaseOne, PopFront, PopEnd, EmptyLoad, Give,
         GiveFails, TailLoad, ResetStub, SwapStub, LinkStub, PopLast, Notify, Wake, Sub, Poll,
         SeeEmpty
<1>4. QED
  BY <1>1, <1>2, <1>3 DEF Next

LEMMA NextAnnounced ==
  ASSUME ~Repolls, IInv, IInv', Rest, Rest', Announced, [Next]_vars
  PROVE  Announced'
<1> SUFFICES ASSUME cancels' = 0 PROVE Calm'
  BY DEF Announced
<1>1. cancels = 0 /\ Calm
  <2>1. cancels' = cancels \/ cancels' >= cancels
    BY CancelsGrow
  <2>2. cancels = 0
    BY <2>1, SemaphoreAssumption DEF Rest
  <2>3. QED
    BY <2>2 DEF Announced
<1>2. CASE UNCHANGED vars
  <2>1. /\ UNCHANGED <<node, task, waiter, woken, pc, hd, strong>>
    BY <1>2 DEF vars, nodes, locals
  <2>2. \A b \in Actors : Waiting(b)' => Waiting(b)
    BY <2>1 DEF Waiting, Entering
  <2>3. QED
    BY <1>1, <2>1, <2>2, Quiet
<1>3. CASE Next
  <2>1. PICK a \in Actors : CallStep(a) \/ Acquire(a) \/ DropWaiter(a)
    BY <1>3 DEF Next
  <2>2. CASE Request(a)
    BY <1>1, <2>2, RequestCalm
  <2>3. CASE Register(a)
    BY <1>1, <2>3, RegisterCalm
  <2>4. CASE Refused(a)
    BY <1>1, <2>4, RefusedCalm
  <2>5. CASE CasFails(a)
    BY <1>1, <2>5, CasFailsCalm
  <2>6. CASE CasTakes(a)
    BY <1>1, <2>6, CasTakesCalm
  <2>7. CASE CasPushes(a)
    BY <1>1, <2>7, CasPushesCalm
  <2>8. CASE Link(a)
    BY <1>1, <2>8, LinkCalm
  <2>9. CASE Revert(a)
    BY <1>1, <2>9, RevertCalm
  <2>10. CASE ReleaseOne(a)
    BY <1>1, <2>10, ReleaseOneCalm
  <2>11. CASE PopFront(a)
    BY <1>1, <2>11, PopFrontCalm
  <2>12. CASE PopEnd(a)
    BY <1>1, <2>12, PopEndCalm
  <2>13. CASE EmptyLoad(a)
    BY <1>1, <2>13, EmptyLoadCalm
  <2>14. CASE Give(a)
    BY <1>1, <2>14, GiveCalm
  <2>15. CASE GiveFails(a)
    BY <1>1, <2>15, GiveFailsCalm
  <2>16. CASE TailLoad(a)
    BY <1>1, <2>16, TailLoadCalm
  <2>17. CASE ResetStub(a)
    BY <1>1, <2>17, ResetStubCalm
  <2>18. CASE SwapStub(a)
    BY <1>1, <2>18, SwapStubCalm
  <2>19. CASE LinkStub(a)
    BY <1>1, <2>19, LinkStubCalm
  <2>20. CASE PopLast(a)
    BY <1>1, <2>20, PopLastCalm
  <2>21. CASE Notify(a)
    BY <1>1, <2>21, NotifyCalm
  <2>22. CASE Wake(a)
    BY <1>1, <2>22, WakeCalm
  <2>23. CASE Sub(a)
    BY <1>1, <2>23, SubCalm
  <2>24. CASE Acquire(a)
    BY <1>1, <2>24, AcquireCalm
  <2>25. CASE DropWaiter(a)
    BY <1>1, <2>25, DropWaiterCalm
  <2>26. QED
    BY <2>1, <2>2, <2>3, <2>4, <2>5, <2>6, <2>7, <2>8, <2>9, <2>10, <2>11, <2>12, <2>13, <2>14,
       <2>15, <2>16, <2>17, <2>18, <2>19, <2>20, <2>21, <2>22, <2>23, <2>24, <2>25
       DEF CallStep, PollStep, ReleaseStep
<1>4. QED
  BY <1>2, <1>3

LEMMA AnnouncedHolds == ASSUME ~Repolls PROVE Spec => []Announced
<1>1. Init => Announced
  BY NodeFacts
     DEF Init, Announced, Calm, WokenFit, TasksFit, PoppedFit, GrantIsAnnounced, Waiting,
         Entering, Popping
<1>2. IInv /\ Rest /\ (IInv /\ Rest)' /\ Announced /\ [Next]_vars => Announced'
  BY NextAnnounced
<1>3. QED
  BY RestHolds, <1>1, <1>2, PTL DEF Spec

\* A task that is polled only when it was woken, and waits with an assigned permit, has
\* been woken or is about to be, unless some Waiter was dropped while it waited; so always
\* where none can be.
THEOREM GrantsAnnounced ==
  ASSUME ~Repolls
  PROVE  /\ Spec => [](cancels = 0 => GrantIsAnnounced)
         /\ ~MayDrop \/ MaxCancels = 0 => (Spec => []GrantIsAnnounced)
<1>1. Announced => (cancels = 0 => GrantIsAnnounced)
  BY DEF Announced, Calm
<1>2. Spec => [](cancels = 0 => GrantIsAnnounced)
  BY AnnouncedHolds, <1>1, PTL
<1>3. ASSUME MaxCancels = 0 PROVE Spec => []GrantIsAnnounced
  <2>1. IInv /\ Rest => cancels = 0
    BY <1>3 DEF Rest
  <2>2. QED
    BY <1>2, RestHolds, <2>1, PTL
<1>4. ASSUME ~MayDrop PROVE Spec => []GrantIsAnnounced
  <2>1. Init => cancels = 0
    BY DEF Init
  <2>2. cancels = 0 /\ IInv /\ Rest /\ [Next]_vars => (cancels = 0)'
    BY <1>4, CancelsGrow
  <2>3. QED
    BY <1>2, RestHolds, <2>1, <2>2, PTL DEF Spec
<1>5. QED
  BY <1>2, <1>3, <1>4

-------------------------------------------------------------------------------
(* Numbers and sequences. *)

LEMMA Least ==
  ASSUME NEW T, T \subseteq Nat, T # {}
  PROVE  \E x \in T : \A y \in T : x <= y
<1> DEFINE R == OpToRel(<, Nat)
<1>1. IsWellFoundedOn(R, Nat)
  BY NatLessThanWellFounded
<1>2. \A x, y \in Nat : <<x, y>> \in R <=> x < y
  BY DEF OpToRel
<1> HIDE DEF R
<1>3. PICK x \in T : \A y \in T : ~(<<y, x>> \in R)
  BY <1>1, WFMin
<1>4. \A y \in T : ~(y < x)
  BY <1>2, <1>3
<1>5. \A y \in T : y \in Nat
  OBVIOUS
<1>6. QED
  BY <1>3, <1>4, <1>5

LEMMA FunctionIsSeq ==
  ASSUME NEW S, NEW k \in Nat, NEW s \in [1 .. k -> S]
  PROVE  s \in Seq(S) /\ Len(s) = k
<1>1. s \in Seq(S)
  BY SeqDef
<1>2. DOMAIN s = 1 .. k /\ DOMAIN s = 1 .. Len(s) /\ Len(s) \in Nat
  BY <1>1, LenProperties
<1>3. QED
  BY <1>1, <1>2

\* An order of requests is a sequence without repetitions.
LEMMA OrdersAre ==
  ASSUME NEW s
  PROVE  s \in Orders <=> /\ s \in Seq(Nodes) /\ Len(s) <= Cardinality(Nodes)
                          /\ \A i, j \in 1 .. Len(s) : s[i] = s[j] => i = j
<1>1. Cardinality(Nodes) \in Nat
  BY FS_CardinalityType, SemaphoreAssumption
<1>2. ASSUME s \in Orders
      PROVE  s \in Seq(Nodes) /\ Len(s) <= Cardinality(Nodes)
  <2>1. PICK k \in 0 .. Cardinality(Nodes) : s \in [1 .. k -> Nodes]
    BY <1>2 DEF Orders
  <2>2. QED
    BY <1>1, <2>1, FunctionIsSeq
<1>3. ASSUME s \in Seq(Nodes), Len(s) <= Cardinality(Nodes)
      PROVE  s \in UNION {[1 .. k -> Nodes] : k \in 0 .. Cardinality(Nodes)}
  <2>1. Len(s) \in 0 .. Cardinality(Nodes) /\ s \in [1 .. Len(s) -> Nodes]
    BY <1>1, <1>3, LenProperties
  <2>2. QED
    BY <2>1
<1>4. QED
  BY <1>2, <1>3 DEF Orders

\* The requests of a sequence that has none twice are not more than the nodes.
LEMMA OrderFits ==
  ASSUME NEW s \in Seq(Nodes), \A i, j \in 1 .. Len(s) : s[i] = s[j] => i = j
  PROVE  Len(s) <= Cardinality(Nodes)
<1>1. Len(s) \in Nat /\ s \in [1 .. Len(s) -> Nodes]
  BY LenProperties
<1>2. s \in Injection(1 .. Len(s), Nodes)
  BY <1>1 DEF Injection, IsInjective
<1>3. Cardinality(1 .. Len(s)) <= Cardinality(Nodes)
  BY <1>2, FS_Injection, SemaphoreAssumption
<1>4. Cardinality(1 .. Len(s)) = IF 1 > Len(s) THEN 0 ELSE Len(s) - 1 + 1
  BY <1>1, FS_Interval
<1>5. QED
  BY <1>1, <1>3, <1>4

\* The links from head on spell one sequence: the first place where two differ does
\* not exist.
LEMMA ListsUnique ==
  ASSUME NEW s \in Orders, NEW t \in Orders, Lists(s), Lists(t)
  PROVE  s = t
<1>1. /\ s \in Seq(Nodes) /\ t \in Seq(Nodes) /\ Len(s) \in Nat /\ Len(t) \in Nat
      /\ \A i \in 1 .. Len(s) : s[i] \in Nodes
      /\ \A i \in 1 .. Len(t) : t[i] \in Nodes
  BY OrdersAre, LenProperties
<1>2. Null \notin Nodes
  BY NodeFacts
<1> DEFINE Differ == {i \in Nat : i >= 1 /\ \/ i <= Len(s) /\ i > Len(t)
                                            \/ i > Len(s) /\ i <= Len(t)
                                            \/ i <= Len(s) /\ i <= Len(t) /\ s[i] # t[i]}
<1>3. Differ = {}
  <2>1. SUFFICES ASSUME Differ # {} PROVE FALSE
    OBVIOUS
  <2>2. PICK k \in Differ : \A i \in Differ : k <= i
    BY <2>1, Least
  <2>3. k # 1
    <3>1. s = <<>> <=> Len(s) = 0
      BY <1>1, EmptySeq
    <3>2. t = <<>> <=> Len(t) = 0
      BY <1>1, EmptySeq
    <3>3. /\ First = IF Len(s) = 0 THEN Null ELSE s[1]
          /\ First = IF Len(t) = 0 THEN Null ELSE t[1]
      BY <3>1, <3>2 DEF Lists
    <3>4. QED
      BY <1>1, <1>2, <3>3
  <2>4. k - 1 \in Nat /\ k - 1 >= 1 /\ k - 1 \notin Differ /\ k - 1 + 1 = k
    BY <2>2, <2>3
  <2>5. k - 1 <= Len(s) /\ k - 1 <= Len(t) /\ s[k - 1] = t[k - 1]
    BY <1>1, <2>2, <2>4
  <2>6. /\ k - 1 \in 1 .. Len(s) /\ k - 1 \in 1 .. Len(t)
        /\ k - 1 < Len(s) <=> k <= Len(s)
        /\ k - 1 < Len(t) <=> k <= Len(t)
        /\ k - 1 + 1 = k /\ k >= 1
    BY <1>1, <2>2, <2>4, <2>5
  <2> HIDE DEF Differ
  <2>7. /\ Behind(s[k - 1]) = IF k <= Len(s) THEN s[k] ELSE Null
        /\ Behind(t[k - 1]) = IF k <= Len(t) THEN t[k] ELSE Null
    BY <2>6 DEF Lists
  <2>8. /\ k <= Len(s) => s[k] \in Nodes
        /\ k <= Len(t) => t[k] \in Nodes
    BY <1>1, <2>2, <2>6
  <2>9. (k <= Len(s) <=> k <= Len(t)) /\ (k <= Len(s) => s[k] = t[k])
    BY <1>2, <2>5, <2>7, <2>8
  <2>10. QED
    BY <1>1, <2>2, <2>9 DEF Differ
<1>4. Len(s) = Len(t)
  <2>1. \A i \in Nat : i >= 1 => (i <= Len(s) <=> i <= Len(t))
    BY <1>1, <1>3
  <2> HIDE DEF Differ
  <2>2. Len(s) + 1 \in Nat /\ Len(t) + 1 \in Nat
    BY <1>1
  <2>3. QED
    BY <1>1, <2>1, <2>2
<1>5. \A i \in 1 .. Len(s) : s[i] = t[i]
  BY <1>1, <1>3, <1>4
<1>6. QED
  BY <1>1, <1>4, <1>5, SeqEqual

-------------------------------------------------------------------------------
(* The sequence of requests in the queue. *)

\* Where the stub is in the queue, hi + 1 when it is not.
StubAt(q, lo, hi, t) == t \in lo .. hi + 1 /\ \A i \in lo .. hi : q[i] = Stub <=> i = t

\* The queue without the stub.
Count(lo, hi, t) == IF t = hi + 1 THEN hi - lo + 1 ELSE hi - lo
Place(lo, t, k) == IF lo + k - 1 < t THEN lo + k - 1 ELSE lo + k
Skip(q, lo, hi, t) == [k \in 1 .. Count(lo, hi, t) |-> q[Place(lo, t, k)]]

Distinct(q, lo, hi) == lo <= hi /\ \A i, j \in lo .. hi : q[i] = q[j] => i = j

LEMMA StubPlace ==
  ASSUME NEW q \in [Nat -> Nodes \cup {Stub}], NEW lo \in Nat, NEW hi \in Nat, Distinct(q, lo, hi)
  PROVE  \E t \in Nat : StubAt(q, lo, hi, t)
<1>1. CASE \E i \in lo .. hi : q[i] = Stub
  <2>1. PICK t \in lo .. hi : q[t] = Stub
    BY <1>1
  <2>2. t \in lo .. hi + 1 /\ t \in Nat
    OBVIOUS
  <2>3. QED
    BY <2>1, <2>2 DEF StubAt, Distinct
<1>2. CASE \A i \in lo .. hi : q[i] # Stub
  <2>1. hi + 1 \in lo .. hi + 1 /\ hi + 1 \in Nat /\ hi + 1 \notin lo .. hi
    BY DEF Distinct
  <2>2. QED
    BY <1>2, <2>1 DEF StubAt
<1>3. QED
  BY <1>1, <1>2

LEMMA SkipIs ==
  ASSUME NEW q \in [Nat -> Nodes \cup {Stub}], NEW lo \in Nat, NEW hi \in Nat,
         Distinct(q, lo, hi), NEW t, StubAt(q, lo, hi, t)
  PROVE  /\ Count(lo, hi, t) \in Nat /\ t \in Nat
         /\ Skip(q, lo, hi, t) \in Seq(Nodes) /\ Len(Skip(q, lo, hi, t)) = Count(lo, hi, t)
         /\ \A k \in 1 .. Count(lo, hi, t) :
              /\ Place(lo, t, k) \in lo .. hi
              /\ Skip(q, lo, hi, t)[k] = q[Place(lo, t, k)]
         /\ Skip(q, lo, hi, t) \in Orders
<1>1. Count(lo, hi, t) \in Nat /\ t \in Nat
  BY DEF Count, Distinct, StubAt
<1>2. \A k \in 1 .. Count(lo, hi, t) : Place(lo, t, k) \in lo .. hi /\ Place(lo, t, k) # t
  BY DEF Count, Place, Distinct, StubAt
<1>3. \A k \in 1 .. Count(lo, hi, t) : q[Place(lo, t, k)] \in Nodes
  <2>1. \A i \in lo .. hi : i # t => q[i] \in Nodes
    BY DEF StubAt
  <2>2. QED
    BY <1>2, <2>1
<1>4. Skip(q, lo, hi, t) \in [1 .. Count(lo, hi, t) -> Nodes]
  BY <1>3 DEF Skip
<1>5. Skip(q, lo, hi, t) \in Seq(Nodes) /\ Len(Skip(q, lo, hi, t)) = Count(lo, hi, t)
  BY <1>1, <1>4, FunctionIsSeq
<1>6. \A k \in 1 .. Count(lo, hi, t) : Skip(q, lo, hi, t)[k] = q[Place(lo, t, k)]
  BY DEF Skip
<1>7. \A j, k \in 1 .. Count(lo, hi, t) : Skip(q, lo, hi, t)[j] = Skip(q, lo, hi, t)[k] => j = k
  <2>1. \A j, k \in 1 .. Count(lo, hi, t) : Place(lo, t, j) = Place(lo, t, k) => j = k
    BY <1>1 DEF Place
  <2>2. QED
    BY <1>2, <1>6, <2>1 DEF Distinct
<1>8. Skip(q, lo, hi, t) \in Orders
  BY <1>5, <1>7, OrderFits, OrdersAre
<1>9. QED
  BY <1>1, <1>2, <1>5, <1>6, <1>8

\* A node added at the tail is the last request.
LEMMA SkipPushNode ==
  ASSUME NEW q \in [Nat -> Nodes \cup {Stub}], NEW lo \in Nat, NEW hi \in Nat,
         Distinct(q, lo, hi), NEW t, StubAt(q, lo, hi, t),
         NEW p \in [Nat -> Nodes \cup {Stub}], Distinct(p, lo, hi + 1),
         \A i \in lo .. hi : p[i] = q[i], p[hi + 1] # Stub
  PROVE  \E u \in Nat : /\ StubAt(p, lo, hi + 1, u)
                        /\ Skip(p, lo, hi + 1, u) = Append(Skip(q, lo, hi, t), p[hi + 1])
<1> DEFINE u == IF t = hi + 1 THEN hi + 2 ELSE t
           s == Skip(q, lo, hi, t)
           r == Skip(p, lo, hi + 1, u)
<1>1. t \in Nat /\ lo <= hi /\ t \in lo .. hi + 1
  BY DEF StubAt, Distinct
<1>2. u \in Nat /\ hi + 1 \in Nat /\ u \in lo .. hi + 1 + 1
  BY <1>1
<1>3. lo .. hi + 1 = (lo .. hi) \cup {hi + 1} /\ hi + 1 \notin lo .. hi
  BY <1>1
<1>4. StubAt(p, lo, hi + 1, u)
  BY <1>1, <1>2, <1>3 DEF StubAt
<1>5. /\ Count(lo, hi, t) \in Nat /\ s \in Seq(Nodes) /\ Len(s) = Count(lo, hi, t)
      /\ \A k \in 1 .. Count(lo, hi, t) : Place(lo, t, k) \in lo .. hi
                                          /\ s[k] = q[Place(lo, t, k)]
  BY SkipIs
<1>6. /\ Count(lo, hi + 1, u) \in Nat /\ r \in Seq(Nodes) /\ Len(r) = Count(lo, hi + 1, u)
      /\ \A k \in 1 .. Count(lo, hi + 1, u) : r[k] = p[Place(lo, u, k)]
  BY <1>2, <1>4, SkipIs
<1>7. Count(lo, hi + 1, u) = Count(lo, hi, t) + 1
  BY <1>1 DEF Count
<1>8. \A k \in 1 .. Count(lo, hi, t) : Place(lo, u, k) = Place(lo, t, k)
  BY <1>1 DEF Place, Count
<1>9. Place(lo, u, Count(lo, hi, t) + 1) = hi + 1
  BY <1>1 DEF Place, Count
<1>10. p[hi + 1] \in Nodes
  BY <1>2
<1> HIDE DEF s, r, u
<1>11. /\ Append(s, p[hi + 1]) \in Seq(Nodes) /\ Len(Append(s, p[hi + 1])) = Len(s) + 1
       /\ \A k \in 1 .. Len(s) : Append(s, p[hi + 1])[k] = s[k]
       /\ Append(s, p[hi + 1])[Len(s) + 1] = p[hi + 1]
  BY <1>5, <1>10
<1>12. \A k \in 1 .. Len(r) : r[k] = Append(s, p[hi + 1])[k]
  <2> TAKE k \in 1 .. Len(r)
  <2>1. CASE k = Len(s) + 1
    BY <1>5, <1>6, <1>7, <1>9, <1>11, <2>1
  <2>2. CASE k # Len(s) + 1
    <3>1. k \in 1 .. Count(lo, hi, t) /\ k \in 1 .. Len(s)
      BY <1>5, <1>6, <1>7, <2>2
    <3>2. QED
      BY <1>5, <1>6, <1>8, <1>11, <3>1
  <2>3. QED
    BY <2>1, <2>2
<1>13. r = Append(s, p[hi + 1])
  BY <1>5, <1>6, <1>7, <1>11, <1>12, SeqEqual
<1>14. QED
  BY <1>2, <1>4, <1>13 DEF s, r

\* The stub added at the tail is none.
LEMMA SkipPushStub ==
  ASSUME NEW q \in [Nat -> Nodes \cup {Stub}], NEW lo \in Nat, NEW hi \in Nat,
         Distinct(q, lo, hi), StubAt(q, lo, hi, hi + 1),
         NEW p \in [Nat -> Nodes \cup {Stub}],
         \A i \in lo .. hi : p[i] = q[i], p[hi + 1] = Stub
  PROVE  /\ StubAt(p, lo, hi + 1, hi + 1)
         /\ Skip(p, lo, hi + 1, hi + 1) = Skip(q, lo, hi, hi + 1)
<1>1. lo .. hi + 1 = (lo .. hi) \cup {hi + 1} /\ hi + 1 \notin lo .. hi
      /\ hi + 1 \in lo .. hi + 1 + 1
  BY DEF Distinct
<1>2. StubAt(p, lo, hi + 1, hi + 1)
  BY <1>1 DEF StubAt
<1>3. Count(lo, hi + 1, hi + 1) = Count(lo, hi, hi + 1)
  BY DEF Count
<1>4. \A k \in 1 .. Count(lo, hi, hi + 1) : Place(lo, hi + 1, k) \in lo .. hi
  BY SkipIs
<1>5. QED
  BY <1>2, <1>3, <1>4 DEF Skip

\* The node at the head is the first request.
LEMMA SkipFrontNode ==
  ASSUME NEW q \in [Nat -> Nodes \cup {Stub}], NEW lo \in Nat, NEW hi \in Nat,
         Distinct(q, lo, hi), lo < hi, NEW t, StubAt(q, lo, hi, t), q[lo] # Stub
  PROVE  /\ StubAt(q, lo + 1, hi, t)
         /\ Skip(q, lo, hi, t) = <<q[lo]>> \o Skip(q, lo + 1, hi, t)
<1> DEFINE s == Skip(q, lo + 1, hi, t)
           r == Skip(q, lo, hi, t)
<1>1. t \in Nat /\ t \in lo .. hi + 1 /\ t # lo /\ lo + 1 \in Nat
  BY DEF StubAt
<1>2. StubAt(q, lo + 1, hi, t) /\ Distinct(q, lo + 1, hi)
  BY <1>1 DEF StubAt, Distinct
<1>3. /\ Count(lo + 1, hi, t) \in Nat /\ s \in Seq(Nodes) /\ Len(s) = Count(lo + 1, hi, t)
      /\ \A k \in 1 .. Count(lo + 1, hi, t) : s[k] = q[Place(lo + 1, t, k)]
  BY <1>1, <1>2, SkipIs
<1>4. /\ Count(lo, hi, t) \in Nat /\ r \in Seq(Nodes) /\ Len(r) = Count(lo, hi, t)
      /\ \A k \in 1 .. Count(lo, hi, t) : r[k] = q[Place(lo, t, k)]
  BY SkipIs
<1>5. Count(lo, hi, t) = Count(lo + 1, hi, t) + 1 /\ Place(lo, t, 1) = lo
  BY <1>1 DEF Count, Place
<1>6. \A k \in 1 .. Count(lo + 1, hi, t) : Place(lo, t, k + 1) = Place(lo + 1, t, k)
  BY <1>1 DEF Place
<1>7. q[lo] \in Nodes
  OBVIOUS
<1> HIDE DEF s, r
<1>8. <<q[lo]>> \in Seq(Nodes) /\ Len(<<q[lo]>>) = 1 /\ <<q[lo]>>[1] = q[lo]
  BY <1>7
<1>9. /\ <<q[lo]>> \o s \in Seq(Nodes) /\ Len(<<q[lo]>> \o s) = 1 + Len(s)
      /\ \A k \in 1 .. 1 + Len(s) :
           (<<q[lo]>> \o s)[k] = IF k <= 1 THEN <<q[lo]>>[k] ELSE s[k - 1]
  BY <1>3, <1>8, ConcatProperties
<1>10. \A k \in 1 .. Len(r) : r[k] = (<<q[lo]>> \o s)[k]
  <2> TAKE k \in 1 .. Len(r)
  <2>1. CASE k = 1
    BY <1>3, <1>4, <1>5, <1>8, <1>9, <2>1
  <2>2. CASE k # 1
    <3>1. k - 1 \in 1 .. Count(lo + 1, hi, t) /\ k - 1 + 1 = k
      BY <1>3, <1>4, <1>5, <2>2
    <3>2. r[k] = s[k - 1]
      BY <1>3, <1>4, <1>6, <3>1
    <3>3. QED
      BY <1>3, <1>4, <1>5, <1>9, <2>2, <3>2
  <2>3. QED
    BY <2>1, <2>2
<1>11. r = <<q[lo]>> \o s
  BY <1>3, <1>4, <1>5, <1>9, <1>10, SeqEqual
<1>12. QED
  BY <1>2, <1>11 DEF s, r

\* The stub at the head is none.
LEMMA SkipFrontStub ==
  ASSUME NEW q \in [Nat -> Nodes \cup {Stub}], NEW lo \in Nat, NEW hi \in Nat,
         Distinct(q, lo, hi), lo < hi, StubAt(q, lo, hi, lo)
  PROVE  /\ StubAt(q, lo + 1, hi, hi + 1)
         /\ Skip(q, lo + 1, hi, hi + 1) = Skip(q, lo, hi, lo)
<1>1. StubAt(q, lo + 1, hi, hi + 1)
  BY DEF StubAt
<1>2. Count(lo + 1, hi, hi + 1) = Count(lo, hi, lo)
  BY DEF Count
<1>3. \A k \in 1 .. Count(lo, hi, lo) : Place(lo + 1, hi + 1, k) = Place(lo, lo, k)
  BY DEF Count, Place
<1>4. QED
  BY <1>1, <1>2, <1>3 DEF Skip

-------------------------------------------------------------------------------
(* The sequence that the pointers spell is the queue without the stub. *)

LEMMA SuccOf ==
  ASSUME NEW q \in [Nat -> Nodes \cup {Stub}], NEW lo \in Nat, NEW hi \in Nat,
         QueueFits(q, lo, hi), NEW i \in lo .. hi
  PROVE  Succ(q[i]) = IF i < hi THEN q[i + 1] ELSE Null
<1>1. /\ lo <= hi /\ i \in Nat /\ i <= hi
      /\ \A j \in lo .. hi : q[j] = q[i] => j = i
      /\ \A j \in lo .. hi - 1 : j \in lo .. hi /\ next[q[j]] \in {q[j + 1], Null}
      /\ next[q[hi]] = Null
  BY DEF QueueFits, Shape
<1>2. ASSUME NEW a \in Linking(q[i])
      PROVE  i < hi /\ q[i + 1] = IF pc[a] = "link" THEN waiter[a] ELSE Stub
  <2>1. a \in Actors /\ pc[a] \in {"link", "sublink"} /\ curr[a] = Ptr(q[i])
    BY <1>2 DEF Linking
  <2>2. Links(q, lo, hi, a, IF pc[a] = "link" THEN waiter[a] ELSE Stub)
    BY <2>1 DEF QueueFits, Linkers
  <2>3. PICK j \in lo .. hi - 1 :
          curr[a] = Ptr(q[j]) /\ q[j + 1] = IF pc[a] = "link" THEN waiter[a] ELSE Stub
    BY <2>2 DEF Links
  <2>4. j = i
    BY <1>1, <2>1, <2>3, WordFacts, ZenonT(60)
  <2>5. QED
    BY <2>3, <2>4
<1>3. CASE i < hi
  <2>1. i \in lo .. hi - 1 /\ q[i + 1] # Null
    <3>1. i \in lo .. hi - 1 /\ q[i + 1] \in Nodes \cup {Stub}
      BY <1>1, <1>3
    <3>2. QED
      BY <3>1, NodeFacts
  <2>2. CASE next[q[i]] # Null
    BY <1>1, <1>3, <2>1, <2>2 DEF Succ
  <2>3. CASE next[q[i]] = Null
    <3> DEFINE b == CHOOSE a \in Linking(q[i]) : TRUE
    <3>1. Linking(q[i]) # {}
      BY <2>1, <2>3 DEF QueueFits, Linked, Linking
    <3>2. b \in Linking(q[i])
      BY <3>1
    <3>3. Succ(q[i]) = IF pc[b] = "link" THEN waiter[b] ELSE Stub
      BY <2>3, <3>1 DEF Succ
    <3> HIDE DEF b
    <3>4. QED
      BY <1>2, <1>3, <3>2, <3>3
  <2>4. QED
    BY <2>2, <2>3
<1>4. CASE ~(i < hi)
  <2>1. i = hi
    BY <1>1, <1>4
  <2>2. Linking(q[i]) = {}
    BY <1>2, <1>4
  <2>3. QED
    BY <1>1, <1>4, <2>1, <2>2 DEF Succ
<1>5. QED
  BY <1>3, <1>4

LEMMA SkipLists ==
  ASSUME NEW q \in [Nat -> Nodes \cup {Stub}], NEW lo \in Nat, NEW hi \in Nat,
         QueueFits(q, lo, hi), NEW t, StubAt(q, lo, hi, t)
  PROVE  Lists(Skip(q, lo, hi, t))
<1> DEFINE s == Skip(q, lo, hi, t)
           N == Count(lo, hi, t)
<1>1. /\ Distinct(q, lo, hi) /\ lo <= hi /\ head = q[lo]
      /\ \A i \in lo .. hi : Succ(q[i]) = IF i < hi THEN q[i + 1] ELSE Null
  BY SuccOf DEF QueueFits, Shape, Distinct
<1>2. /\ N \in Nat /\ t \in Nat /\ s \in Seq(Nodes) /\ Len(s) = N
      /\ \A k \in 1 .. N : Place(lo, t, k) \in lo .. hi /\ s[k] = q[Place(lo, t, k)]
  BY <1>1, SkipIs
<1>3. s = <<>> <=> N = 0
  BY <1>2, EmptySeq
<1>4. /\ t \in lo .. hi + 1 /\ \A i \in lo .. hi : q[i] = Stub <=> i = t
      /\ \A i \in lo .. hi : q[i] \in Nodes \cup {Stub}
      /\ Stub # Null
  BY NodeFacts DEF StubAt
<1> HIDE DEF s
<1>5. First = IF s = <<>> THEN Null ELSE s[1]
  <2>1. lo \in lo .. hi
    BY <1>1
  <2>2. CASE t = lo
    <3>1. First = IF lo < hi THEN q[lo + 1] ELSE Null
      BY <1>1, <1>4, <2>1, <2>2 DEF First
    <3>2. N = hi - lo
      BY <1>1, <2>2 DEF Count
    <3>3. CASE lo < hi
      <4>1. N # 0 /\ 1 \in 1 .. N /\ Place(lo, t, 1) = lo + 1
        BY <2>2, <3>2, <3>3 DEF Place
      <4>2. QED
        BY <1>2, <1>3, <3>1, <3>3, <4>1
    <3>4. CASE ~(lo < hi)
      <4>1. N = 0
        BY <1>1, <3>2, <3>4
      <4>2. QED
        BY <1>3, <3>1, <3>4, <4>1
    <3>5. QED
      BY <3>3, <3>4
  <2>3. CASE t # lo
    <3>1. First = q[lo]
      BY <1>1, <1>4, <2>1, <2>3 DEF First
    <3>2. N # 0 /\ 1 \in 1 .. N /\ Place(lo, t, 1) = lo
      BY <1>1, <1>4, <2>3 DEF Count, Place
    <3>3. QED
      BY <1>2, <1>3, <3>1, <3>2
  <2>4. QED
    BY <2>2, <2>3
<1>6. ASSUME NEW k \in 1 .. N
      PROVE  Behind(s[k]) = IF k < N THEN s[k + 1] ELSE Null
  <2> DEFINE i == Place(lo, t, k)
  <2>1. i \in lo .. hi /\ s[k] = q[i] /\ i \in Nat /\ i + 1 \in Nat
    BY <1>2
  <2>2. Succ(s[k]) = IF i < hi THEN q[i + 1] ELSE Null
    BY <1>1, <2>1
  <2>3. CASE i + 1 = t /\ t <= hi
    <3>1. t \in lo .. hi /\ Succ(Stub) = IF t < hi THEN q[t + 1] ELSE Null
      BY <1>1, <1>4, <2>1, <2>3
    <3>2. Behind(s[k]) = IF t < hi THEN q[t + 1] ELSE Null
      BY <1>4, <2>1, <2>2, <2>3, <3>1 DEF Behind
    <3>3. (t < hi <=> k < N) /\ (k < N => Place(lo, t, k + 1) = t + 1)
      BY <1>1, <1>2, <2>3 DEF Place, Count
    <3>4. k < N => k + 1 \in 1 .. N
      BY <1>2
    <3>5. QED
      BY <1>2, <3>2, <3>3, <3>4
  <2>4. CASE ~(i + 1 = t /\ t <= hi)
    <3>1. Succ(s[k]) # Stub
      <4>1. CASE i < hi
        <5>1. i + 1 \in lo .. hi /\ i + 1 # t
          BY <2>1, <2>4, <4>1
        <5>2. QED
          BY <1>4, <2>2, <4>1, <5>1
      <4>2. CASE ~(i < hi)
        BY <1>4, <2>2, <4>2
      <4>3. QED
        BY <4>1, <4>2
    <3>2. (i < hi <=> k < N) /\ (k < N => Place(lo, t, k + 1) = i + 1)
      BY <1>1, <1>2, <1>4, <2>1, <2>4 DEF Place, Count
    <3>3. k < N => k + 1 \in 1 .. N
      BY <1>2
    <3>4. QED
      BY <1>2, <2>2, <3>1, <3>2, <3>3 DEF Behind
  <2>5. QED
    BY <2>3, <2>4
<1>7. QED
  BY <1>2, <1>5, <1>6 DEF s, Lists

QueueIs ==
  \A q \in [Nat -> Nodes \cup {Stub}], lo, hi, t \in Nat :
    Base /\ QueueFits(q, lo, hi) /\ StubAt(q, lo, hi, t) =>
      /\ (\A a \in Actors : pc[a] # "notify") => Queue = Skip(q, lo, hi, t)
      /\ \A a \in Actors : pc[a] = "notify" => Queue = <<hd[a]>> \o Skip(q, lo, hi, t)

LEMMA QueueOf == QueueIs
<1> SUFFICES ASSUME NEW q \in [Nat -> Nodes \cup {Stub}], NEW lo \in Nat, NEW hi \in Nat,
                    NEW t \in Nat, Base, QueueFits(q, lo, hi), StubAt(q, lo, hi, t)
             PROVE  /\ (\A a \in Actors : pc[a] # "notify") => Queue = Skip(q, lo, hi, t)
                    /\ \A a \in Actors : pc[a] = "notify" =>
                         Queue = <<hd[a]>> \o Skip(q, lo, hi, t)
  BY DEF QueueIs
<1> DEFINE s == Skip(q, lo, hi, t)
<1>1. s \in Orders /\ s \in Seq(Nodes)
  <2>1. Distinct(q, lo, hi)
    BY DEF QueueFits, Shape, Distinct
  <2>2. QED
    BY <2>1, SkipIs
<1>2. Lists(s)
  BY SkipLists
<1> HIDE DEF s
<1>3. Enqueued = s
  <2>1. \E r \in Orders : Lists(r)
    BY <1>1, <1>2
  <2>2. Enqueued \in Orders /\ Lists(Enqueued)
    BY <2>1 DEF Enqueued
  <2>3. QED
    BY <1>1, <1>2, <2>2, ListsUnique
<1>4. ASSUME \A a \in Actors : pc[a] # "notify"
      PROVE  Queue = s
  <2>1. Notified = {}
    BY <1>4 DEF Notified
  <2>2. Queue = <<>> \o s
    BY <1>3, <2>1 DEF Queue
  <2>3. QED
    BY <1>1, <2>2, ConcatEmptySeq
<1>5. ASSUME NEW a \in Actors, pc[a] = "notify"
      PROVE  Queue = <<hd[a]>> \o s
  <2>1. \A b \in Actors : pc[b] = "notify" => b = a
    BY <1>5, Alone DEF Releasing
  <2>2. Notified = {hd[a]}
    BY <1>5, <2>1 DEF Notified
  <2>3. (CHOOSE x \in Notified : TRUE) = hd[a]
    BY <2>2
  <2>4. QED
    BY <1>3, <2>2, <2>3 DEF Queue
<1>6. QED
  BY <1>4, <1>5 DEF s

LEMMA QueueOfNext == QueueIs'
<1>1. QueueIs
  BY QueueOf
<1>2. QED
  BY <1>1, QueueOf, PTL

-------------------------------------------------------------------------------
(* What a step does to the queue of requests. *)

LEMMA FrontFacts ==
  ASSUME NEW x \in Nodes, NEW s \in Seq(Nodes)
  PROVE  /\ <<x>> \o s \in Seq(Nodes) /\ <<x>> \o s # <<>>
         /\ Head(<<x>> \o s) = x /\ Tail(<<x>> \o s) = s
         /\ \A y \in Nodes : Append(<<x>> \o s, y) = <<x>> \o Append(s, y)
<1> DEFINE r == <<x>> \o s
<1>1. <<x>> \in Seq(Nodes) /\ Len(<<x>>) = 1 /\ <<x>>[1] = x /\ Len(s) \in Nat
  BY LenProperties
<1>2. /\ r \in Seq(Nodes) /\ Len(r) = 1 + Len(s)
      /\ \A i \in 1 .. 1 + Len(s) : r[i] = IF i <= 1 THEN <<x>>[i] ELSE s[i - 1]
  BY <1>1, ConcatProperties
<1>3. r # <<>>
  BY <1>1, <1>2, EmptySeq
<1>4. r[1] = x /\ \A i \in 1 .. Len(s) : r[i + 1] = s[i]
  BY <1>1, <1>2
<1>5. \A y \in Nodes : Append(r, y) = <<x>> \o Append(s, y)
  <2> TAKE y \in Nodes
  <2>1. <<y>> \in Seq(Nodes) /\ Append(r, y) = r \o <<y>> /\ Append(s, y) = s \o <<y>>
    BY <1>2, AppendIsConcat
  <2>2. QED
    BY <1>1, <2>1, ConcatAssociative
<1> HIDE DEF r
<1>6. Head(r) = x
  BY <1>3, <1>4 DEF Head
<1>7. Tail(r) = s
  <2>1. /\ Tail(r) \in Seq(Nodes) /\ Len(Tail(r)) = Len(s)
        /\ \A i \in 1 .. Len(s) : Tail(r)[i] = s[i]
    BY <1>1, <1>2, <1>3, <1>4, HeadTailProperties
  <2>2. QED
    BY <2>1, SeqEqual
<1>8. QED
  BY <1>2, <1>3, <1>5, <1>6, <1>7 DEF r

\* No node is popped, and none that was popped is notified.
Quietly ==
  \A b \in Actors : /\ pc'[b] = "notify" <=> pc[b] = "notify"
                    /\ pc[b] = "notify" => hd'[b] = hd[b]

LEMMA QueueSame ==
  ASSUME Base, Base', Quietly,
         NEW q \in [Nat -> Nodes \cup {Stub}], NEW lo \in Nat, NEW hi \in Nat,
         QueueFits(q, lo, hi), NEW t \in Nat, StubAt(q, lo, hi, t),
         NEW p \in [Nat -> Nodes \cup {Stub}], NEW l \in Nat, NEW h \in Nat,
         QueueFits(p, l, h)', NEW u \in Nat, StubAt(p, l, h, u),
         Skip(p, l, h, u) = Skip(q, lo, hi, t)
  PROVE  Queue' = Queue
<1>1. /\ (\A a \in Actors : pc[a] # "notify") => Queue = Skip(q, lo, hi, t)
      /\ \A a \in Actors : pc[a] = "notify" => Queue = <<hd[a]>> \o Skip(q, lo, hi, t)
  BY QueueOf, ZenonT(60) DEF QueueIs
<1>2. /\ (\A a \in Actors : pc'[a] # "notify") => Queue' = Skip(p, l, h, u)
      /\ \A a \in Actors : pc'[a] = "notify" => Queue' = <<hd'[a]>> \o Skip(p, l, h, u)
  BY QueueOfNext, SMTT(30) DEF QueueIs
<1>3. QED
  BY <1>1, <1>2 DEF Quietly

LEMMA QueueKept ==
  ASSUME Base, Base', Quietly,
         NEW q \in [Nat -> Nodes \cup {Stub}], NEW lo \in Nat, NEW hi \in Nat,
         QueueFits(q, lo, hi), QueueFits(q, lo, hi)'
  PROVE  Queue' = Queue
<1>1. PICK t \in Nat : StubAt(q, lo, hi, t)
  BY StubPlace DEF QueueFits, Shape, Distinct
<1>2. QED
  BY <1>1, QueueSame

\* Nobody is in the queue when it ends at its head and that is the stub.
LEMMA QueueEmpty ==
  ASSUME Base, NEW q \in [Nat -> Nodes \cup {Stub}], NEW lo \in Nat, NEW hi \in Nat,
         QueueFits(q, lo, hi), q[hi] = Stub, head = Stub,
         \A a \in Actors : pc[a] # "notify"
  PROVE  Queue = <<>>
<1>1. lo = hi /\ Distinct(q, lo, hi)
  BY DEF QueueFits, Shape, Distinct
<1>2. StubAt(q, lo, hi, hi)
  BY <1>1 DEF StubAt
<1>3. Count(lo, hi, hi) = 0
  BY <1>1 DEF Count
<1>4. Skip(q, lo, hi, hi) \in Seq(Nodes) /\ Len(Skip(q, lo, hi, hi)) = 0
  BY <1>1, <1>2, <1>3, SkipIs
<1>5. Skip(q, lo, hi, hi) = <<>>
  BY <1>4, EmptySeq
<1>6. QED
  BY <1>2, <1>5, QueueOf DEF QueueIs

\* The node popped from the head stays the first request until it is notified.
LEMMA QueuePopped ==
  ASSUME Base, Base', NEW q \in [Nat -> Nodes \cup {Stub}], NEW lo \in Nat, NEW hi \in Nat,
         QueueFits(q, lo, hi), lo + 1 \in Nat, QueueFits(q, lo + 1, hi)', head # Stub,
         \A a \in Actors : pc[a] # "notify",
         NEW a \in Actors, pc'[a] = "notify", hd'[a] = head
  PROVE  Queue' = Queue
<1>1. Distinct(q, lo, hi) /\ q[lo] = head
  BY DEF QueueFits, Shape, Distinct
<1>2. lo < hi
  BY DEF QueueFits, Shape
<1>3. PICK t \in Nat : StubAt(q, lo, hi, t)
  BY <1>1, StubPlace
<1>4. StubAt(q, lo + 1, hi, t) /\ Skip(q, lo, hi, t) = <<head>> \o Skip(q, lo + 1, hi, t)
  BY <1>1, <1>2, <1>3, SkipFrontNode
<1>5. Queue = Skip(q, lo, hi, t)
  BY <1>3, QueueOf DEF QueueIs
<1>6. Queue' = <<hd'[a]>> \o Skip(q, lo + 1, hi, t)
  BY <1>4, QueueOfNext, ZenonT(60) DEF QueueIs
<1>7. QED
  BY <1>4, <1>5, <1>6

\* A node pushed is the last request.
LEMMA QueuePushed ==
  ASSUME Base, Base', Quietly,
         NEW q \in [Nat -> Nodes \cup {Stub}], NEW lo \in Nat, NEW hi \in Nat,
         QueueFits(q, lo, hi),
         NEW p \in [Nat -> Nodes \cup {Stub}], hi + 1 \in Nat, QueueFits(p, lo, hi + 1)',
         NEW x \in Nodes, p[hi + 1] = x, \A i \in lo .. hi : p[i] = q[i]
  PROVE  Queue' = Append(Queue, x) /\ Queue' # Queue
<1>1. Distinct(q, lo, hi) /\ Distinct(p, lo, hi + 1) /\ x # Stub
  BY NodeFacts DEF QueueFits, Shape, Distinct
<1>2. PICK t \in Nat : StubAt(q, lo, hi, t)
  BY <1>1, StubPlace
<1>3. PICK u \in Nat : /\ StubAt(p, lo, hi + 1, u)
                       /\ Skip(p, lo, hi + 1, u) = Append(Skip(q, lo, hi, t), x)
  BY <1>1, <1>2, SkipPushNode
<1>4. /\ (\A a \in Actors : pc[a] # "notify") => Queue = Skip(q, lo, hi, t)
      /\ \A a \in Actors : pc[a] = "notify" => Queue = <<hd[a]>> \o Skip(q, lo, hi, t)
  BY <1>2, QueueOf, Zenon DEF QueueIs
<1>5. /\ (\A a \in Actors : pc'[a] # "notify") => Queue' = Skip(p, lo, hi + 1, u)
      /\ \A a \in Actors : pc'[a] = "notify" => Queue' = <<hd'[a]>> \o Skip(p, lo, hi + 1, u)
  BY <1>3, QueueOfNext, ZenonT(60) DEF QueueIs
<1>6. Skip(q, lo, hi, t) \in Seq(Nodes)
  BY <1>1, <1>2, SkipIs
<1>7. Queue \in Seq(Nodes) /\ Queue' = Append(Queue, x)
  <2>1. CASE \A a \in Actors : pc[a] # "notify"
    BY <1>3, <1>4, <1>5, <1>6, <2>1 DEF Quietly
  <2>2. CASE ~(\A a \in Actors : pc[a] # "notify")
    <3>1. PICK a \in Actors : pc[a] = "notify"
      BY <2>2
    <3>2. hd[a] \in Nodes
      BY <3>1 DEF Base, PopsFit, Popping
    <3>3. pc'[a] = "notify" /\ hd'[a] = hd[a]
      BY <3>1 DEF Quietly
    <3>4. /\ Queue = <<hd[a]>> \o Skip(q, lo, hi, t)
          /\ Queue' = <<hd[a]>> \o Append(Skip(q, lo, hi, t), x)
      BY <1>3, <1>4, <1>5, <3>1, <3>3
    <3>5. QED
      BY <1>6, <3>2, <3>4, FrontFacts, Zenon
  <2>3. QED
    BY <2>1, <2>2
<1>8. Len(Append(Queue, x)) = Len(Queue) + 1 /\ Len(Queue) \in Nat
  BY <1>7, LenProperties
<1>9. QED
  BY <1>7, <1>8

-------------------------------------------------------------------------------
(* What a step does, as a step of PermitQueue. *)

LEMMA Mapped ==
  ASSUME Moves(0, 0, 0), Served' = Served, Queue' = Queue, Base
  PROVE  UNCHANGED PQ!vars
<1>1. /\ AvailablePermits(state) \in Nat /\ Cardinality(Held) \in Nat /\ Pending \in Int
  BY Terms DEF Base
<1>2. /\ AvailablePermits(state') = AvailablePermits(state)
      /\ Cardinality(Held') = Cardinality(Held) /\ Pending' = Pending
  BY <1>1 DEF Moves
<1>3. QED
  BY <1>2 DEF PQ!vars, Served, AvailablePermits

LEMMA QuietSteps ==
  ASSUME Base, NEW a \in Actors,
         \/ Request(a) \/ Register(a) \/ Refused(a) \/ CasFails(a) \/ CasTakes(a)
         \/ CasPushes(a) \/ Link(a) \/ Revert(a) \/ ReleaseOne(a)
         \/ PopFront(a) /\ head = Stub
         \/ PopEnd(a) \/ EmptyLoad(a) \/ GiveFails(a) \/ Give(a) \/ TailLoad(a)
         \/ ResetStub(a) \/ SwapStub(a) \/ LinkStub(a)
         \/ PopLast(a) /\ next[hd[a]] = Null
         \/ Wake(a) \/ Sub(a) \/ Acquire(a) \/ DropWaiter(a)
  PROVE  Quietly
<1> USE DEF Quietly, Base, Types, Goto, Set, Return, locals, words, nodes
<1>1. CASE Request(a)
  BY <1>1 DEF Request, Poll, Decide
<1>2. CASE Register(a)
  BY <1>2 DEF Register
<1>3. CASE Refused(a)
  BY <1>3 DEF Refused
<1>4. CASE CasFails(a)
  BY <1>4 DEF CasFails, Decide
<1>5. CASE CasTakes(a)
  BY <1>5 DEF CasTakes
<1>6. CASE CasPushes(a)
  BY <1>6 DEF CasPushes
<1>7. CASE Link(a)
  BY <1>7 DEF Link
<1>8. CASE Revert(a)
  BY <1>8 DEF Revert
<1>9. CASE ReleaseOne(a)
  BY <1>9 DEF ReleaseOne
<1>10. CASE PopFront(a) /\ head = Stub
  BY <1>10 DEF PopFront
<1>11. CASE PopEnd(a)
  BY <1>11 DEF PopEnd
<1>12. CASE EmptyLoad(a)
  BY <1>12 DEF EmptyLoad, SeeEmpty
<1>13. CASE GiveFails(a)
  BY <1>13 DEF GiveFails, SeeEmpty
<1>14. CASE Give(a)
  BY <1>14 DEF Give
<1>15. CASE TailLoad(a)
  BY <1>15 DEF TailLoad
<1>16. CASE ResetStub(a)
  BY <1>16 DEF ResetStub
<1>17. CASE SwapStub(a)
  BY <1>17 DEF SwapStub
<1>18. CASE LinkStub(a)
  BY <1>18 DEF LinkStub
<1>19. CASE PopLast(a) /\ next[hd[a]] = Null
  BY <1>19 DEF PopLast
<1>20. CASE Wake(a)
  BY <1>20 DEF Wake
<1>21. CASE Sub(a)
  BY <1>21 DEF Sub
<1>22. CASE Acquire(a)
  BY <1>22 DEF Acquire, MayBePolled
<1>23. CASE DropWaiter(a)
  BY <1>23 DEF DropWaiter
<1>24. QED
  BY <1>1, <1>2, <1>3, <1>4, <1>5, <1>6, <1>7, <1>8, <1>9, <1>10, <1>11, <1>12, <1>13, <1>14,
     <1>15, <1>16, <1>17, <1>18, <1>19, <1>20, <1>21, <1>22, <1>23

\* While a call of release_one has permits to hand out, as many are given back.
LEMMA PendingBound ==
  ASSUME Base, NEW a \in Actors, pc[a] \in Releasing
  PROVE  Pending >= n[a] /\ Pending \in Int /\ n[a] \in Nat
<1>1. \A b \in Actors \ {a} : rem[b] = n[b]
  <2>1. \A b \in Actors \ {a} : pc[b] \notin Releasing
    BY Alone
  <2>2. QED
    BY <2>1 DEF Base, LockFits
<1>2. Pending = rxLock - (rem[a] - n[a])
  BY <1>1, PendingOf DEF PendingFits, Base
<1>3. rem[a] \in 1 .. rxLock /\ n[a] \in 0 .. rem[a]
  BY Alone
<1>4. QED
  BY <1>2, <1>3 DEF Base, Types

\* A poll takes a permit: nobody has been waiting for it.
LEMMA CasTakesTakes ==
  ASSUME Base, Conserved, NEW q \in [Nat -> Nodes \cup {Stub}], NEW lo \in Nat, NEW hi \in Nat,
         QueueFits(q, lo, hi), NEW a \in Actors, CasTakes(a)
  PROVE  PQ!Take
<1>1. ~IsWaiter(state) /\ state \in AllWords
  BY DEF CasTakes, Base, Types
<1>2. /\ Base' /\ QueueFits(q, lo, hi)' /\ Moves(-1, 1, 0) /\ Served' = Served
  BY CasTakesKeeps
<1>3. Queue' = Queue
  BY <1>2, QuietSteps, QueueKept
<1>4. Queue = <<>>
  <2>1. q[hi] = Stub /\ head = Stub
    BY <1>1 DEF QueueFits, Shape
  <2>2. \A b \in Actors : pc[b] # "notify"
    BY <1>1 DEF Base, PopsFit
  <2>3. QED
    BY <2>1, <2>2, QueueEmpty
<1>5. AvailablePermits(state) > 0
  BY <1>1, WordCases, WordFacts DEF AvailablePermits
<1>6. AvailablePermits(state) \in Nat /\ Cardinality(Held) \in Nat /\ Pending \in Int
  BY Terms DEF Base
<1>7. /\ AvailablePermits(state') = AvailablePermits(state) - 1
      /\ Cardinality(Held') = Cardinality(Held) + 1 /\ Pending' = Pending
  BY <1>2, <1>6 DEF Moves
<1>8. QED
  BY <1>2, <1>3, <1>4, <1>5, <1>7 DEF PQ!Take, Served, AvailablePermits

\* A poll joins the queue: there is no permit.
LEMMA CasPushesJoins ==
  ASSUME Base, Conserved, NEW q \in [Nat -> Nodes \cup {Stub}], NEW lo \in Nat, NEW hi \in Nat,
         QueueFits(q, lo, hi), NEW a \in Actors, CasPushes(a)
  PROVE  PQ!Join /\ waiter[a] \in Nodes /\ Queue' = Append(Queue, waiter[a])
<1>1. IsWaiter(state) /\ pc[a] = "cas"
  BY DEF CasPushes
<1>2. Base' /\ hi + 1 \in Nat /\ Moves(0, 0, 0) /\ Served' = Served
  BY CasPushesKeeps
<1>3. PICK p \in [Nat -> Nodes \cup {Stub}] :
        /\ QueueFits(p, lo, hi + 1)' /\ p[hi + 1] = waiter[a]
        /\ \A i \in lo .. hi : p[i] = q[i]
  BY CasPushesKeeps
<1>4. waiter[a] \in Nodes
  <2>1. curr[a] = state /\ Entering(a)
    BY <1>1 DEF CasPushes, Base, Types, WaitersFit, Entering
  <2>2. QED
    BY <2>1 DEF Base, Types, WaitersFit
<1>5. Queue' = Append(Queue, waiter[a]) /\ Queue' # Queue
  BY <1>2, <1>3, <1>4, QuietSteps, QueuePushed, SMTT(30)
<1>6. AvailablePermits(state) = 0
  BY <1>1 DEF AvailablePermits
<1>7. AvailablePermits(state) \in Nat /\ Cardinality(Held) \in Nat /\ Pending \in Int
  BY Terms DEF Base
<1>8. /\ AvailablePermits(state') = AvailablePermits(state)
      /\ Cardinality(Held') = Cardinality(Held) /\ Pending' = Pending
  BY <1>2, <1>7 DEF Moves
<1>9. QED
  BY <1>2, <1>4, <1>5, <1>6, <1>8 DEF PQ!Join, Served, AvailablePermits

LEMMA ReleaseOneGivesBack ==
  ASSUME Base, Conserved, NEW q \in [Nat -> Nodes \cup {Stub}], NEW lo \in Nat, NEW hi \in Nat,
         QueueFits(q, lo, hi), NEW a \in Actors, ReleaseOne(a)
  PROVE  PQ!GiveBack
<1>1. Base' /\ QueueFits(q, lo, hi)' /\ Moves(0, -1, 1) /\ Served' = Served
  BY ReleaseOneKeeps
<1>2. Queue' = Queue
  BY <1>1, QuietSteps, QueueKept
<1>3. AvailablePermits(state) \in Nat /\ Cardinality(Held) \in Nat /\ Pending \in Int
  BY Terms DEF Base
<1>4. /\ AvailablePermits(state') = AvailablePermits(state)
      /\ Cardinality(Held') = Cardinality(Held) - 1 /\ Pending' = Pending + 1
  BY <1>1, <1>3 DEF Moves
<1>5. Cardinality(Held) > 0
  <2>1. a \in Held /\ Held \in SUBSET Actors /\ {a} \in SUBSET Actors /\ {a} \subseteq Held
    BY DEF Held, ReleaseOne
  <2>2. Cardinality({a}) = 1
    BY FS_Singleton
  <2>3. QED
    BY <1>3, <2>1, <2>2, Sizes, SemaphoreAssumption
<1>6. QED
  BY <1>1, <1>2, <1>4, <1>5 DEF PQ!GiveBack, Served, AvailablePermits

\* The node notified is that of the first request.
LEMMA NotifyGrants ==
  ASSUME Base, Conserved, NEW q \in [Nat -> Nodes \cup {Stub}], NEW lo \in Nat, NEW hi \in Nat,
         QueueFits(q, lo, hi), NEW a \in Actors, Notify(a)
  PROVE  PQ!Grant /\ Queue # <<>> /\ Head(Queue) = hd[a] /\ Queue' = Tail(Queue)
<1>1. /\ pc[a] = "notify" /\ pc[a] \in Releasing /\ node[hd[a]] = "QueuedWaiting"
      /\ hd[a] \in Nodes
  BY DEF Notify, Base, PopsFit, Popping, Releasing
<1>2. /\ Base' /\ QueueFits(q, lo, hi)' /\ Moves(0, 0, -1)
      /\ Served' \in {Served, Served \cup {hd[a]}}
  BY NotifyKeeps
<1>3. \A b \in Actors : pc'[b] # "notify"
  <2>1. \A b \in Actors \ {a} : pc[b] # "notify"
    BY <1>1, Alone DEF Releasing
  <2>2. pc' = [pc EXCEPT ![a] = "wake"]
    BY <1>1 DEF Notify, Goto
  <2>3. QED
    BY <2>1, <2>2 DEF Base, Types
<1>4. PICK t \in Nat : StubAt(q, lo, hi, t)
  BY StubPlace DEF QueueFits, Shape, Distinct
<1>5. Queue = <<hd[a]>> \o Skip(q, lo, hi, t)
  BY <1>1, <1>4, QueueOf DEF QueueIs
<1>6. Queue' = Skip(q, lo, hi, t)
  BY <1>2, <1>3, <1>4, QueueOfNext DEF QueueIs
<1>7. Skip(q, lo, hi, t) \in Seq(Nodes)
  BY <1>4, SkipIs DEF QueueFits, Shape, Distinct
<1>8. Queue # <<>> /\ Head(Queue) = hd[a] /\ Queue' = Tail(Queue)
  BY <1>1, <1>5, <1>6, <1>7, FrontFacts
<1>9. Pending > 0
  BY <1>1, PendingBound, Alone
<1>10. AvailablePermits(state) \in Nat /\ Cardinality(Held) \in Nat /\ Pending \in Int
  BY Terms DEF Base
<1>11. /\ AvailablePermits(state') = AvailablePermits(state)
       /\ Cardinality(Held') = Cardinality(Held) /\ Pending' = Pending - 1
  BY <1>2, <1>10 DEF Moves
<1>12. QED
  BY <1>2, <1>8, <1>9, <1>11 DEF PQ!Grant, Served, AvailablePermits

\* Permits become available when nobody waits, and never fewer than are given.
LEMMA GiveSettles ==
  ASSUME Base, Conserved, NEW q \in [Nat -> Nodes \cup {Stub}], NEW lo \in Nat, NEW hi \in Nat,
         QueueFits(q, lo, hi), NEW a \in Actors, Give(a)
  PROVE  PQ!Settle
<1>1. /\ pc[a] = "give" /\ pc[a] \in Releasing /\ head = Stub /\ ~HasWaiter(state)
      /\ state \in AllWords
  BY DEF Give, Releasing, Base, Types, PopsFit
<1>2. Base' /\ QueueFits(q, lo, hi)' /\ Moves(n[a], 0, -n[a]) /\ Served' = Served
  BY GiveKeeps
<1>3. Queue' = Queue
  BY <1>2, QuietSteps, QueueKept
<1>4. Queue = <<>>
  <2>1. q[hi] = Stub
    <3>1. CASE IsWaiter(state)
      BY <1>1, <3>1, WordFacts, ZenonT(60) DEF HasWaiter, QueueFits, Shape
    <3>2. CASE ~IsWaiter(state)
      BY <3>2 DEF QueueFits, Shape
    <3>3. QED
      BY <3>1, <3>2
  <2>2. \A b \in Actors : pc[b] # "notify"
    BY <1>1, Alone DEF Releasing
  <2>3. QED
    BY <1>1, <2>1, <2>2, QueueEmpty
<1>5. Pending >= n[a] /\ Pending \in Int /\ n[a] \in Nat /\ n[a] >= 1
  BY <1>1, PendingBound, Alone
<1>6. AvailablePermits(state) \in Nat /\ Cardinality(Held) \in Nat
  BY Terms DEF Base
<1>7. /\ AvailablePermits(state') = AvailablePermits(state) + (Pending - Pending')
      /\ Pending' \in 0 .. Pending - 1 /\ Cardinality(Held') = Cardinality(Held)
  BY <1>2, <1>5, <1>6 DEF Moves
<1>8. QED
  BY <1>2, <1>3, <1>4, <1>7 DEF PQ!Settle, Served, AvailablePermits

LEMMA AcquireCollects ==
  ASSUME Base, Conserved, NEW q \in [Nat -> Nodes \cup {Stub}], NEW lo \in Nat, NEW hi \in Nat,
         QueueFits(q, lo, hi), NEW a \in Actors, Acquire(a), node[waiter[a]] = "Assigned"
  PROVE  \E x \in Nodes : PQ!Collect(x)
<1>1. /\ Base' /\ QueueFits(q, lo, hi)' /\ Moves(0, 1, 0)
      /\ Served' = Served \ {waiter[a]} /\ waiter[a] \in Served
  BY AcquireGrantedKeeps
<1>2. Queue' = Queue
  BY <1>1, QuietSteps, QueueKept
<1>3. AvailablePermits(state) \in Nat /\ Cardinality(Held) \in Nat /\ Pending \in Int
  BY Terms DEF Base
<1>4. /\ AvailablePermits(state') = AvailablePermits(state)
      /\ Cardinality(Held') = Cardinality(Held) + 1 /\ Pending' = Pending
  BY <1>1, <1>3 DEF Moves
<1>5. waiter[a] \in Nodes
  BY <1>1 DEF Served
<1>6. PQ!Collect(waiter[a])
  BY <1>1, <1>2, <1>4 DEF PQ!Collect, Served, AvailablePermits
<1>7. QED
  BY <1>5, <1>6 DEF PQ!Collect

LEMMA DropWaiterAbandons ==
  ASSUME Base, Conserved, NEW q \in [Nat -> Nodes \cup {Stub}], NEW lo \in Nat, NEW hi \in Nat,
         QueueFits(q, lo, hi), NEW a \in Actors, DropWaiter(a)
  PROVE  UNCHANGED PQ!vars \/ \E x \in Nodes : PQ!Abandon(x)
<1>1. /\ Base' /\ QueueFits(q, lo, hi)' /\ Moves(0, 0, 0) /\ Served' = Served \ {waiter[a]}
  BY DropWaiterKeeps
<1>2. Queue' = Queue
  BY <1>1, QuietSteps, QueueKept
<1>3. CASE waiter[a] \notin Served
  BY <1>1, <1>2, <1>3, Mapped
<1>4. CASE waiter[a] \in Served
  <2>1. AvailablePermits(state) \in Nat /\ Cardinality(Held) \in Nat /\ Pending \in Int
    BY Terms DEF Base
  <2>2. /\ AvailablePermits(state') = AvailablePermits(state)
        /\ Cardinality(Held') = Cardinality(Held) /\ Pending' = Pending
    BY <1>1, <2>1 DEF Moves
  <2>3. waiter[a] \in Nodes
    BY <1>4 DEF Served
  <2>4. \E x \in Nodes : PQ!Abandon(x)
    BY <1>1, <1>2, <1>4, <2>2, <2>3 DEF PQ!Abandon, Served, AvailablePermits
  <2>5. QED
    BY <2>4
<1>5. QED
  BY <1>3, <1>4

\* push_stub makes the stub the tail: no request joins.
LEMMA SwapStubHides ==
  ASSUME Base, Conserved, NEW q \in [Nat -> Nodes \cup {Stub}], NEW lo \in Nat, NEW hi \in Nat,
         QueueFits(q, lo, hi), NEW a \in Actors, SwapStub(a)
  PROVE  UNCHANGED PQ!vars
<1>1. Base' /\ hi + 1 \in Nat /\ Moves(0, 0, 0) /\ Served' = Served
  BY SwapStubKeeps
<1>2. PICK p \in [Nat -> Nodes \cup {Stub}] :
        /\ QueueFits(p, lo, hi + 1)' /\ p[hi + 1] = Stub
        /\ \A i \in lo .. hi : p[i] = q[i]
  BY SwapStubKeeps
<1>3. StubAt(q, lo, hi, hi + 1) /\ Distinct(q, lo, hi)
  <2>1. ~Listed(q, lo, hi, Stub)
    BY DEF SwapStub, QueueFits, Members
  <2>2. lo <= hi /\ hi + 1 \in lo .. hi + 1 /\ hi + 1 \notin lo .. hi
    BY DEF QueueFits, Shape
  <2>3. QED
    BY <2>1, <2>2 DEF StubAt, Listed, QueueFits, Shape, Distinct
<1>4. /\ StubAt(p, lo, hi + 1, hi + 1)
      /\ Skip(p, lo, hi + 1, hi + 1) = Skip(q, lo, hi, hi + 1)
  BY <1>2, <1>3, SkipPushStub
<1>5. Queue' = Queue
  BY <1>1, <1>2, <1>3, <1>4, QuietSteps, QueueSame
<1>6. QED
  BY <1>1, <1>5, Mapped

\* What pop takes from the head is the stub, or still the first request.
LEMMA PopFrontHides ==
  ASSUME Base, Conserved, NEW q \in [Nat -> Nodes \cup {Stub}], NEW lo \in Nat, NEW hi \in Nat,
         QueueFits(q, lo, hi), NEW a \in Actors, PopFront(a)
  PROVE  UNCHANGED PQ!vars
<1>1. Base' /\ lo + 1 \in Nat /\ QueueFits(q, lo + 1, hi)' /\ Moves(0, 0, 0) /\ Served' = Served
  BY PopFrontKeeps
<1>2. pc[a] = "pop" /\ next[head] # Null
  BY DEF PopFront
<1>3. /\ Distinct(q, lo, hi) /\ q[lo] = head /\ lo < hi
  BY <1>2 DEF QueueFits, Shape, Distinct
<1>4. CASE head = Stub
  <2>1. StubAt(q, lo, hi, lo)
    BY <1>3, <1>4 DEF StubAt, Distinct
  <2>2. StubAt(q, lo + 1, hi, hi + 1) /\ Skip(q, lo + 1, hi, hi + 1) = Skip(q, lo, hi, lo)
    BY <1>3, <2>1, SkipFrontStub
  <2>3. hi + 1 \in Nat
    OBVIOUS
  <2>4. Queue' = Queue
    BY <1>1, <1>4, <2>1, <2>2, <2>3, QuietSteps, QueueSame
  <2>5. QED
    BY <1>1, <2>4, Mapped
<1>5. CASE head # Stub
  <2>1. \A b \in Actors : pc[b] # "notify"
    BY <1>2, Alone DEF Releasing
  <2>2. pc'[a] = "notify" /\ hd'[a] = head
    BY <1>5 DEF PopFront, Goto, Set, Base, Types
  <2>3. Queue' = Queue
    BY <1>1, <1>5, <2>1, <2>2, QueuePopped DEF QueueFits, Shape
  <2>4. QED
    BY <1>1, <2>3, Mapped
<1>6. QED
  BY <1>4, <1>5

LEMMA PopLastHides ==
  ASSUME Base, Conserved, NEW q \in [Nat -> Nodes \cup {Stub}], NEW lo \in Nat, NEW hi \in Nat,
         QueueFits(q, lo, hi), NEW a \in Actors, PopLast(a)
  PROVE  UNCHANGED PQ!vars
<1>1. CASE next[hd[a]] = Null
  <2>1. Base' /\ QueueFits(q, lo, hi)' /\ Moves(0, 0, 0) /\ Served' = Served
    BY <1>1, PopLastWaitsKeeps
  <2>2. Queue' = Queue
    BY <1>1, <2>1, QuietSteps, QueueKept
  <2>3. QED
    BY <2>1, <2>2, Mapped
<1>2. CASE next[hd[a]] # Null
  <2>1. /\ Base' /\ lo + 1 \in Nat /\ QueueFits(q, lo + 1, hi)'
        /\ Moves(0, 0, 0) /\ Served' = Served
    BY <1>2, PopLastPopsKeeps
  <2>2. hd[a] = head /\ head # Stub /\ pc[a] = "again"
    BY DEF PopLast, Base, PopsFit
  <2>3. \A b \in Actors : pc[b] # "notify"
    BY <2>2, Alone DEF Releasing
  <2>4. pc'[a] = "notify" /\ hd'[a] = head
    BY <1>2, <2>2 DEF PopLast, Goto, locals, Base, Types
  <2>5. Queue' = Queue
    BY <2>1, <2>2, <2>3, <2>4, QueuePopped
  <2>6. QED
    BY <2>1, <2>5, Mapped
<1>3. QED
  BY <1>1, <1>2

\* What changes only which tasks are registered and woken.
LEMMA Untouched ==
  ASSUME Base, NEW q \in [Nat -> Nodes \cup {Stub}], NEW lo \in Nat, NEW hi \in Nat,
         QueueFits(q, lo, hi),
         UNCHANGED <<state, head, rxLock, node, next, raw, waiter, pc, curr, strong, rem, n, hd,
                     cancels>>
  PROVE  UNCHANGED PQ!vars
<1>1. Base'
  BY DEF Base, Types, LockFits, OneReleaser, WaitersFit, Entering, Owned, PopsFit,
         ArcsFit, Waits, Popped, NoPanic
<1>2. QueueFits(q, lo, hi)'
  BY DEF QueueFits, Shape, Linkers, Links, Linked, Members
<1>3. Moves(0, 0, 0) /\ Served' = Served
  <2>1. Held' = Held /\ Pending' = Pending /\ Served' = Served
    BY DEF Held, Served, Owned, Pending, Serving
  <2>2. AvailablePermits(state) \in Nat /\ Cardinality(Held) \in Nat /\ Pending \in Int
    BY Terms DEF Base
  <2>3. QED
    BY <2>1, <2>2 DEF Moves
<1>4. Queue' = Queue
  BY <1>1, <1>2, QueueKept DEF Quietly
<1>5. QED
  BY <1>3, <1>4, Mapped

LEMMA InitMaps == Init => PQ!Init
<1> SUFFICES ASSUME Init PROVE PQ!Init
  OBVIOUS
<1>1. Base
  BY InitIInv DEF IInv
<1>2. PICK q \in [Nat -> Nodes \cup {Stub}], lo \in Nat, hi \in Nat : QueueFits(q, lo, hi)
  BY InitIInv DEF IInv
<1>3. Queue = <<>>
  <2>1. ~IsWaiter(state) /\ head = Stub /\ \A a \in Actors : pc[a] # "notify"
    BY WordFacts DEF Init
  <2>2. q[hi] = Stub
    BY <1>2, <2>1 DEF QueueFits, Shape
  <2>3. QED
    BY <1>1, <1>2, <2>1, <2>2, QueueEmpty
<1>4. Served = {} /\ Held = {} /\ Serving = {}
  BY DEF Init, Served, Held, Serving
<1>5. Cardinality({}) = 0
  BY FS_EmptySet
<1>6. Pending = 0 /\ AvailablePermits(state) = Permits
  BY <1>4, WordFacts DEF Pending, AvailablePermits, Init
<1>7. QED
  BY <1>3, <1>4, <1>5, <1>6 DEF PQ!Init, Served

\* The steps of a call that PermitQueue does not see.
LEMMA Hidden ==
  ASSUME Base, Conserved, NEW q \in [Nat -> Nodes \cup {Stub}], NEW lo \in Nat, NEW hi \in Nat,
         QueueFits(q, lo, hi), NEW a \in Actors,
         \/ Request(a) \/ Register(a) \/ Refused(a) \/ CasFails(a) \/ Link(a) \/ Revert(a)
         \/ PopEnd(a) \/ EmptyLoad(a) \/ GiveFails(a) \/ TailLoad(a) \/ ResetStub(a)
         \/ LinkStub(a) \/ Wake(a) \/ Sub(a)
  PROVE  UNCHANGED PQ!vars
<1>1. Base' /\ QueueFits(q, lo, hi)' /\ Moves(0, 0, 0) /\ Served' = Served
  <2>1. CASE Request(a)
    BY <2>1, RequestKeeps
  <2>2. CASE Register(a)
    BY <2>2, RegisterKeeps
  <2>3. CASE Refused(a)
    BY <2>3, RefusedKeeps
  <2>4. CASE CasFails(a)
    BY <2>4, CasFailsKeeps
  <2>5. CASE Link(a)
    BY <2>5, LinkKeeps
  <2>6. CASE Revert(a)
    BY <2>6, RevertKeeps
  <2>7. CASE PopEnd(a)
    BY <2>7, PopEndKeeps
  <2>8. CASE EmptyLoad(a)
    BY <2>8, EmptyLoadKeeps
  <2>9. CASE GiveFails(a)
    BY <2>9, GiveFailsKeeps
  <2>10. CASE TailLoad(a)
    BY <2>10, TailLoadKeeps
  <2>11. CASE ResetStub(a)
    BY <2>11, ResetStubKeeps
  <2>12. CASE LinkStub(a)
    BY <2>12, LinkStubKeeps
  <2>13. CASE Wake(a)
    BY <2>13, WakeKeeps
  <2>14. CASE Sub(a)
    BY <2>14, SubKeeps
  <2>15. QED
    BY <2>1, <2>2, <2>3, <2>4, <2>5, <2>6, <2>7, <2>8,
       <2>9, <2>10, <2>11, <2>12, <2>13, <2>14
<1>2. Queue' = Queue
  BY <1>1, QuietSteps, QueueKept
<1>3. QED
  BY <1>1, <1>2, Mapped

LEMMA NextMaps == IInv /\ [Next]_vars => [PQ!Next]_PQ!vars
<1> SUFFICES ASSUME IInv, [Next]_vars PROVE [PQ!Next]_PQ!vars
  OBVIOUS
<1>1. Base /\ Conserved
  BY DEF IInv
<1>2. PICK q \in [Nat -> Nodes \cup {Stub}], lo \in Nat, hi \in Nat : QueueFits(q, lo, hi)
  BY DEF IInv
<1>3. CASE UNCHANGED vars
  BY <1>1, <1>2, <1>3, Untouched DEF vars, words, nodes, locals
<1>4. CASE Next
  <2>1. PICK a \in Actors : CallStep(a) \/ Acquire(a) \/ DropWaiter(a)
    BY <1>4 DEF Next
  <2>2. CASE \/ Request(a) \/ Register(a) \/ Refused(a) \/ CasFails(a) \/ Link(a) \/ Revert(a)
             \/ PopEnd(a) \/ EmptyLoad(a) \/ GiveFails(a) \/ TailLoad(a) \/ ResetStub(a)
             \/ LinkStub(a) \/ Wake(a) \/ Sub(a)
    BY <1>1, <1>2, <2>2, Hidden
  <2>3. CASE CasTakes(a)
    BY <1>1, <1>2, <2>3, CasTakesTakes DEF PQ!Next
  <2>4. CASE CasPushes(a)
    BY <1>1, <1>2, <2>4, CasPushesJoins DEF PQ!Next
  <2>5. CASE ReleaseOne(a)
    BY <1>1, <1>2, <2>5, ReleaseOneGivesBack DEF PQ!Next
  <2>6. CASE Notify(a)
    BY <1>1, <1>2, <2>6, NotifyGrants DEF PQ!Next
  <2>7. CASE Give(a)
    BY <1>1, <1>2, <2>7, GiveSettles DEF PQ!Next
  <2>8. CASE PopFront(a) \/ PopLast(a) \/ SwapStub(a)
    BY <1>1, <1>2, <2>8, PopFrontHides, PopLastHides, SwapStubHides
  <2>9. CASE Acquire(a)
    <3>1. CASE node[waiter[a]] = "Assigned"
      BY <1>1, <1>2, <2>9, <3>1, AcquireCollects DEF PQ!Next
    <3>2. CASE node[waiter[a]] # "Assigned"
      BY <1>1, <1>2, <2>9, <3>2, Untouched DEF Acquire, words, locals
    <3>3. QED
      BY <3>1, <3>2
  <2>10. CASE DropWaiter(a)
    BY <1>1, <1>2, <2>10, DropWaiterAbandons DEF PQ!Next
  <2>11. QED
    BY <2>1, <2>2, <2>3, <2>4, <2>5, <2>6, <2>7, <2>8, <2>9, <2>10
       DEF CallStep, PollStep, ReleaseStep
<1>5. QED
  BY <1>3, <1>4

-------------------------------------------------------------------------------
(* The theorem. *)

\* Semaphore, its swaps, gaps and stub included, is a queue of requests served first
\* come first served: no step of any interleaving is one that PermitQueue has not.
THEOREM SemaphoreRefines == Spec => ImplementsPermitQueue
BY InitMaps, NextMaps, Invariance, PTL DEF Spec, ImplementsPermitQueue, PQ!Spec

-------------------------------------------------------------------------------
(* Who waits is in the queue, and who has locked it comes out again. *)

Member(s, x) == \E i \in 1 .. Len(s) : s[i] = x

\* The node has been made the tail, and nobody has been assigned the permit it asks for.
Requesting(x) ==
  node[x] = "QueuedWaiting" /\ \A a \in Actors : waiter[a] = x => ~Entering(a)

Enlisted == \A x \in Nodes : Requesting(x) => Member(Queue, x)

\* Releases that are counted in rx_lock are somebody's business.
LockHeld == rxLock > 0 => \E a \in Actors : pc[a] \in Releasing

QueuedFit ==
  \A a \in Actors :
    pc[a] \in {"link", "queued"} => node[waiter[a]] \in {"QueuedWaiting", "Assigned"}

LEMMA LastMember ==
  ASSUME NEW s \in Seq(Nodes), NEW y \in Nodes
  PROVE  Member(Append(s, y), y) /\ \A x : Member(s, x) => Member(Append(s, y), x)
<1>1. /\ Len(Append(s, y)) = Len(s) + 1 /\ Len(s) \in Nat
      /\ \A i \in 1 .. Len(s) : Append(s, y)[i] = s[i]
      /\ Append(s, y)[Len(s) + 1] = y
  BY AppendProperties
<1>2. Len(s) + 1 \in 1 .. Len(s) + 1 /\ \A i \in 1 .. Len(s) : i \in 1 .. Len(s) + 1
  BY <1>1
<1>3. QED
  BY <1>1, <1>2 DEF Member

LEMMA TailMember ==
  ASSUME NEW s \in Seq(Nodes), s # <<>>
  PROVE  \A x : Member(s, x) => x = Head(s) \/ Member(Tail(s), x)
<1> SUFFICES ASSUME NEW i \in 1 .. Len(s), s[i] # Head(s) PROVE Member(Tail(s), s[i])
  BY DEF Member
<1>1. /\ Head(s) = s[1] /\ Len(Tail(s)) = Len(s) - 1 /\ Len(s) \in Nat
      /\ \A j \in 1 .. Len(Tail(s)) : Tail(s)[j] = s[j + 1]
  BY HeadTailProperties, LenProperties
<1>2. i - 1 \in 1 .. Len(Tail(s)) /\ Tail(s)[i - 1] = s[i]
  BY <1>1
<1>3. QED
  BY <1>2 DEF Member

LEMMA QueueTyped == IInv => Queue \in Seq(Nodes)
<1> SUFFICES ASSUME IInv PROVE Queue \in Seq(Nodes)
  OBVIOUS
<1>1. Base
  BY DEF IInv
<1>2. PICK q \in [Nat -> Nodes \cup {Stub}], lo \in Nat, hi \in Nat : QueueFits(q, lo, hi)
  BY DEF IInv
<1>3. Distinct(q, lo, hi)
  BY <1>2 DEF QueueFits, Shape, Distinct
<1>4. PICK t \in Nat : StubAt(q, lo, hi, t)
  BY <1>3, StubPlace
<1>5. Skip(q, lo, hi, t) \in Seq(Nodes)
  BY <1>3, <1>4, SkipIs
<1>6. /\ (\A a \in Actors : pc[a] # "notify") => Queue = Skip(q, lo, hi, t)
      /\ \A a \in Actors : pc[a] = "notify" => Queue = <<hd[a]>> \o Skip(q, lo, hi, t)
  BY <1>1, <1>2, <1>4, QueueOf, ZenonT(60) DEF QueueIs
<1>7. \A a \in Actors : pc[a] = "notify" => <<hd[a]>> \o Skip(q, lo, hi, t) \in Seq(Nodes)
  BY <1>1, <1>5, FrontFacts DEF Base, PopsFit, Popping
<1>8. QED
  BY <1>5, <1>6, <1>7

LEMMA RegisterTakes ==
  ASSUME Base, NEW a \in Actors, Register(a)
  PROVE  \E y \in Nodes :
           /\ waiter' = [waiter EXCEPT ![a] = y] /\ node' = [node EXCEPT ![y] = "QueuedWaiting"]
           /\ pc[a] = "register" /\ pc' = [pc EXCEPT ![a] = "cas"]
           /\ strong' = [strong EXCEPT ![a] = TRUE] /\ node[y] = "Idle"
           /\ waiter[a] \in {Null, y} /\ \A b \in Actors \ {a} : waiter[b] # y
<1>1. PICK y \in NodesFor(a) :
        /\ waiter' = [waiter EXCEPT ![a] = y]
        /\ IF DebugAsserts /\ node[y] \notin {"Idle", "Queued"}
           THEN Goto(a, "panicked") /\ UNCHANGED <<node, next, raw, locals>>
           ELSE /\ node' = [node EXCEPT ![y] = "QueuedWaiting"]
                /\ IF node[y] \in {"Queued", "QueuedWaiting"}
                   THEN Return(a, "queued") /\ UNCHANGED <<next, raw>>
                   ELSE strong' = [strong EXCEPT ![a] = TRUE] /\ pc' = [pc EXCEPT ![a] = "cas"]
  BY DEF Register, Set, Goto
<1>2. pc[a] = "register"
  BY DEF Register
<1>3. y \in Nodes /\ node[y] = "Idle" /\ waiter[a] \in {Null, y}
  BY <1>2, SemaphoreAssumption DEF NodesFor, Allocated, Base, Types, WaitersFit, Entering
<1>4. \A b \in Actors \ {a} : waiter[b] # y
  BY <1>2, <1>3, NodeFacts DEF NodesFor, Allocated, Owned, Base, Types, WaitersFit
<1>5. QED
  BY <1>1, <1>2, <1>3, <1>4

\* No step but CasPushes makes a node one that asks.
LEMMA NoNewRequests ==
  ASSUME Base, NEW a \in Actors,
         \/ Request(a) \/ Register(a) \/ Refused(a) \/ CasFails(a) \/ CasTakes(a)
         \/ Link(a) \/ Revert(a) \/ ReleaseOne(a) \/ ReleaseStep(a)
         \/ Acquire(a) \/ DropWaiter(a)
  PROVE  \A x \in Nodes : Requesting(x)' => Requesting(x)
<1> TAKE x \in Nodes
<1> USE NodeFacts
    DEF Requesting, Entering, Base, Types, Goto, Set, Return, locals, words, nodes
<1>1. CASE Request(a)
  BY <1>1 DEF Request, Poll, Decide
<1>2. CASE Register(a)
  <2>1. PICK y \in Nodes :
          /\ waiter' = [waiter EXCEPT ![a] = y] /\ node' = [node EXCEPT ![y] = "QueuedWaiting"]
          /\ pc[a] = "register" /\ pc' = [pc EXCEPT ![a] = "cas"]
          /\ strong' = [strong EXCEPT ![a] = TRUE] /\ node[y] = "Idle"
          /\ waiter[a] \in {Null, y} /\ \A b \in Actors \ {a} : waiter[b] # y
    BY <1>2, RegisterTakes
  <2>2. CASE x = y
    BY <2>1, <2>2
  <2>3. CASE x # y
    BY <2>1, <2>3
  <2>4. QED
    BY <2>2, <2>3
<1>3. CASE Refused(a)
  BY <1>3 DEF Refused
<1>4. CASE CasFails(a)
  BY <1>4 DEF CasFails, Decide, WaitersFit
<1>5. CASE CasTakes(a)
  BY <1>5 DEF CasTakes
<1>6. CASE Link(a)
  BY <1>6 DEF Link
<1>7. CASE Revert(a)
  BY <1>7 DEF Revert, WaitersFit
<1>8. CASE ReleaseOne(a)
  BY <1>8 DEF ReleaseOne
<1>9. CASE ReleaseStep(a)
  <2>1. CASE PopFront(a)
    BY <2>1 DEF PopFront
  <2>2. CASE PopEnd(a)
    BY <2>2 DEF PopEnd
  <2>3. CASE EmptyLoad(a) \/ GiveFails(a)
    BY <2>3 DEF EmptyLoad, GiveFails, SeeEmpty
  <2>4. CASE Give(a)
    BY <2>4 DEF Give
  <2>5. CASE TailLoad(a)
    BY <2>5 DEF TailLoad
  <2>6. CASE ResetStub(a)
    BY <2>6 DEF ResetStub
  <2>7. CASE SwapStub(a)
    BY <2>7 DEF SwapStub
  <2>8. CASE LinkStub(a)
    BY <2>8 DEF LinkStub
  <2>9. CASE PopLast(a)
    BY <2>9 DEF PopLast
  <2>10. CASE Notify(a)
    BY <2>10 DEF Notify
  <2>11. CASE Wake(a)
    BY <2>11 DEF Wake
  <2>12. CASE Sub(a)
    BY <2>12 DEF Sub
  <2>13. QED
    BY <1>9, <2>1, <2>2, <2>3, <2>4, <2>5, <2>6, <2>7, <2>8, <2>9, <2>10, <2>11, <2>12
       DEF ReleaseStep
<1>10. CASE Acquire(a)
  BY <1>10 DEF Acquire, MayBePolled
<1>11. CASE DropWaiter(a)
  BY <1>11 DEF DropWaiter
<1>12. QED
  BY <1>1, <1>2, <1>3, <1>4, <1>5, <1>6, <1>7, <1>8, <1>9, <1>10, <1>11

\* What no step but CasPushes and Notify does to the queue.
LEMMA QueueStays ==
  ASSUME IInv, NEW a \in Actors, CallStep(a) \/ Acquire(a) \/ DropWaiter(a),
         ~CasPushes(a), ~Notify(a)
  PROVE  Queue' = Queue
<1>1. Base /\ Conserved
  BY DEF IInv
<1>2. PICK q \in [Nat -> Nodes \cup {Stub}], lo \in Nat, hi \in Nat : QueueFits(q, lo, hi)
  BY DEF IInv
<1>3. UNCHANGED PQ!vars => Queue' = Queue
  BY DEF PQ!vars
<1>4. CASE \/ Request(a) \/ Register(a) \/ Refused(a) \/ CasFails(a) \/ Link(a) \/ Revert(a)
           \/ PopEnd(a) \/ EmptyLoad(a) \/ GiveFails(a) \/ TailLoad(a) \/ ResetStub(a)
           \/ LinkStub(a) \/ Wake(a) \/ Sub(a)
  BY <1>1, <1>2, <1>3, <1>4, Hidden
<1>5. CASE CasTakes(a) \/ Give(a)
  BY <1>1, <1>2, <1>5, CasTakesTakes, GiveSettles DEF PQ!Take, PQ!Settle
<1>6. CASE ReleaseOne(a)
  BY <1>1, <1>2, <1>6, ReleaseOneGivesBack DEF PQ!GiveBack
<1>7. CASE PopFront(a) \/ PopLast(a) \/ SwapStub(a)
  BY <1>1, <1>2, <1>3, <1>7, PopFrontHides, PopLastHides, SwapStubHides
<1>8. CASE Acquire(a)
  <2>1. CASE node[waiter[a]] = "Assigned"
    BY <1>1, <1>2, <1>8, <2>1, AcquireCollects DEF PQ!Collect
  <2>2. CASE node[waiter[a]] # "Assigned"
    BY <1>1, <1>2, <1>3, <1>8, <2>2, Untouched DEF Acquire, words, locals
  <2>3. QED
    BY <2>1, <2>2
<1>9. CASE DropWaiter(a)
  BY <1>1, <1>2, <1>3, <1>9, DropWaiterAbandons DEF PQ!Abandon
<1>10. QED
  BY <1>4, <1>5, <1>6, <1>7, <1>8, <1>9 DEF CallStep, PollStep, ReleaseStep

LEMMA NextEnlisted ==
  ASSUME IInv, Enlisted, NEW a \in Actors, CallStep(a) \/ Acquire(a) \/ DropWaiter(a)
  PROVE  Enlisted'
<1>1. Base /\ Conserved /\ Queue \in Seq(Nodes)
  BY QueueTyped DEF IInv
<1>2. PICK q \in [Nat -> Nodes \cup {Stub}], lo \in Nat, hi \in Nat : QueueFits(q, lo, hi)
  BY DEF IInv
<1>3. CASE CasPushes(a)
  <2>1. waiter[a] \in Nodes /\ Queue' = Append(Queue, waiter[a])
    BY <1>1, <1>2, <1>3, CasPushesJoins
  <2>2. \A x \in Nodes : Requesting(x)' => Requesting(x) \/ x = waiter[a]
    BY <1>1, <1>3 DEF CasPushes, Requesting, Entering, Base, Types, Goto, locals, nodes
  <2>3. QED
    BY <1>1, <2>1, <2>2, LastMember DEF Enlisted
<1>4. CASE Notify(a)
  <2>1. Queue # <<>> /\ Head(Queue) = hd[a] /\ Queue' = Tail(Queue)
    BY <1>1, <1>2, <1>4, NotifyGrants
  <2>2. \A x \in Nodes : x = hd[a] => ~Requesting(x)'
    BY <1>1, <1>4 DEF Notify, Requesting, Base, Types, PopsFit, Popping, Set
  <2>3. \A x \in Nodes : Requesting(x)' => Requesting(x)
    BY <1>1, <1>4, NoNewRequests DEF ReleaseStep
  <2>4. \A x : Member(Queue, x) => x = hd[a] \/ Member(Tail(Queue), x)
    BY <1>1, <2>1, TailMember
  <2>5. ASSUME NEW x \in Nodes, Requesting(x)' PROVE Member(Tail(Queue), x)
    BY <2>2, <2>3, <2>4, <2>5 DEF Enlisted
  <2>6. QED
    BY <2>1, <2>5 DEF Enlisted, Member
<1>5. CASE ~CasPushes(a) /\ ~Notify(a)
  <2>1. Queue' = Queue
    BY <1>5, QueueStays
  <2>2. \A x \in Nodes : Requesting(x)' => Requesting(x)
    BY <1>1, <1>5, NoNewRequests DEF CallStep, PollStep
  <2>3. QED
    BY <2>1, <2>2 DEF Enlisted
<1>6. QED
  BY <1>3, <1>4, <1>5

LEMMA NextLockHeld ==
  ASSUME IInv, IInv', LockHeld, NEW a \in Actors, CallStep(a) \/ Acquire(a) \/ DropWaiter(a)
  PROVE  LockHeld'
<1> USE DEF LockHeld, IInv, Base, NoPanic, Types, Goto, Set, Return, locals, words, nodes,
            Releasing
<1>1. CASE \/ Request(a) \/ Register(a) \/ Refused(a) \/ CasFails(a) \/ CasTakes(a)
           \/ CasPushes(a) \/ Link(a) \/ Revert(a) \/ Acquire(a) \/ DropWaiter(a)
  <2>1. pc[a] \notin Releasing /\ rxLock' = rxLock /\ \A b \in Actors \ {a} : pc'[b] = pc[b]
    BY <1>1
       DEF Request, Poll, Decide, Register, Refused, CasFails, CasTakes, CasPushes, Link,
           Revert, Acquire, MayBePolled, DropWaiter
  <2>2. QED
    BY <2>1
<1>2. CASE ReleaseOne(a)
  BY <1>2 DEF ReleaseOne
<1>3. CASE Sub(a)
  BY <1>3 DEF Sub
<1>4. CASE \/ PopFront(a) \/ PopEnd(a) \/ EmptyLoad(a) \/ GiveFails(a) \/ Give(a)
           \/ TailLoad(a) \/ ResetStub(a) \/ SwapStub(a) \/ LinkStub(a) \/ PopLast(a)
           \/ Notify(a) \/ Wake(a)
  <2>1. pc'[a] \in Releasing
    BY <1>4
       DEF PopFront, PopEnd, EmptyLoad, GiveFails, SeeEmpty, Give, TailLoad, ResetStub,
           SwapStub, LinkStub, PopLast, Notify, Wake
  <2>2. QED
    BY <2>1
<1>5. QED
  BY <1>1, <1>2, <1>3, <1>4 DEF CallStep, PollStep, ReleaseStep

LEMMA NextQueuedFit ==
  ASSUME IInv, QueuedFit, NEW a \in Actors, CallStep(a) \/ Acquire(a) \/ DropWaiter(a)
  PROVE  QueuedFit'
<1> USE NodeFacts
    DEF QueuedFit, IInv, Base, Types, Goto, Set, Return, locals, words, nodes
<1>1. CASE \/ Request(a) \/ Refused(a) \/ CasFails(a) \/ CasTakes(a) \/ CasPushes(a)
           \/ Link(a) \/ ReleaseOne(a) \/ Sub(a)
           \/ PopFront(a) \/ PopEnd(a) \/ EmptyLoad(a) \/ GiveFails(a) \/ Give(a)
           \/ TailLoad(a) \/ ResetStub(a) \/ SwapStub(a) \/ LinkStub(a) \/ PopLast(a)
  <2>1. node' = node /\ waiter' = waiter
    BY <1>1
       DEF Request, Poll, Decide, Refused, CasFails, CasTakes, CasPushes, Link, ReleaseOne, Sub,
           PopFront, PopEnd, EmptyLoad, GiveFails, SeeEmpty, Give, TailLoad, ResetStub,
           SwapStub, LinkStub, PopLast
  <2>2. \A b \in Actors : pc'[b] \in {"link", "queued"} =>
          pc[b] \in {"link", "queued"} \/ (CasPushes(a) /\ b = a)
    BY <1>1
       DEF Request, Poll, Decide, Refused, CasFails, CasTakes, CasPushes, Link, ReleaseOne, Sub,
           PopFront, PopEnd, EmptyLoad, GiveFails, SeeEmpty, Give, TailLoad, ResetStub,
           SwapStub, LinkStub, PopLast
  <2>3. CasPushes(a) => node[waiter[a]] = "QueuedWaiting"
    BY DEF CasPushes, WaitersFit, Entering
  <2>4. QED
    BY <2>1, <2>2, <2>3
<1>2. CASE Register(a)
  <2>1. PICK y \in Nodes :
          /\ waiter' = [waiter EXCEPT ![a] = y] /\ node' = [node EXCEPT ![y] = "QueuedWaiting"]
          /\ pc' = [pc EXCEPT ![a] = "cas"] /\ \A b \in Actors \ {a} : waiter[b] # y
    BY <1>2, RegisterTakes
  <2>2. QED
    BY <2>1
<1>3. CASE Revert(a)
  BY <1>3 DEF Revert, WaitersFit, Entering
<1>4. CASE Notify(a)
  <2>1. node[hd[a]] = "QueuedWaiting" /\ hd[a] \in Nodes
    BY <1>4 DEF Notify, PopsFit, Popping
  <2>2. /\ node' = [node EXCEPT ![hd[a]] = "Assigned"] /\ pc' = [pc EXCEPT ![a] = "wake"]
        /\ waiter' = waiter
    BY <1>4, <2>1 DEF Notify
  <2>3. QED
    BY <2>1, <2>2
<1>5. CASE Wake(a)
  BY <1>5 DEF Wake, Owned, WaitersFit
<1>6. CASE Acquire(a)
  BY <1>6 DEF Acquire, MayBePolled, WaitersFit
<1>7. CASE DropWaiter(a)
  BY <1>7 DEF DropWaiter, WaitersFit
<1>8. QED
  BY <1>1, <1>2, <1>3, <1>4, <1>5, <1>6, <1>7 DEF CallStep, PollStep, ReleaseStep

\* Everything together.
Ordered == IInv /\ Enlisted /\ LockHeld /\ QueuedFit

LEMMA OrderedHolds == Spec => []Ordered
<1>1. Init => Ordered
  BY InitIInv
     DEF Init, Ordered, Enlisted, Requesting, LockHeld, QueuedFit
<1>2. Ordered /\ [Next]_vars => Ordered'
  <2> SUFFICES ASSUME Ordered, [Next]_vars PROVE Ordered'
    OBVIOUS
  <2>1. IInv /\ IInv'
    BY NextIInv DEF Ordered
  <2>2. CASE Next
    BY <2>1, <2>2, NextEnlisted, NextLockHeld, NextQueuedFit DEF Next, Ordered
  <2>3. CASE UNCHANGED vars
    <3>1. UNCHANGED PQ!vars
      BY <2>1, <2>3, Untouched DEF IInv, vars, words, nodes, locals
    <3>2. Queue' = Queue
      BY <3>1 DEF PQ!vars
    <3>3. QED
      BY <2>1, <2>3, <3>2
         DEF Ordered, Enlisted, Requesting, Entering, LockHeld, QueuedFit, vars, words, nodes,
             locals
  <2>4. QED
    BY <2>2, <2>3
<1>3. QED
  BY <1>1, <1>2, PTL DEF Spec

LEMMA WhoWaits ==
  ASSUME Ordered, NEW a \in Actors, pc[a] = "queued", node[waiter[a]] = "QueuedWaiting"
  PROVE  WaitersFirst
<1>1. Base /\ Conserved
  BY DEF Ordered, IInv
<1>2. AvailablePermits(state) = 0
  <2>1. waiter[a] \in Nodes /\ Requesting(waiter[a])
    BY <1>1 DEF Requesting, Entering, Base, Types, WaitersFit
  <2>2. Queue # <<>>
    <3>1. Member(Queue, waiter[a])
      BY <2>1 DEF Ordered, Enlisted
    <3>2. Queue = <<>> => ~Member(Queue, waiter[a])
      BY DEF Member
    <3>3. QED
      BY <3>1, <3>2
  <2>3. PICK q \in [Nat -> Nodes \cup {Stub}], lo \in Nat, hi \in Nat : QueueFits(q, lo, hi)
    BY DEF Ordered, IInv
  <2>4. CASE ~IsWaiter(state)
    <3>1. q[hi] = Stub /\ head = Stub
      BY <2>3, <2>4 DEF QueueFits, Shape
    <3>2. \A b \in Actors : pc[b] # "notify"
      BY <1>1, <2>4 DEF Base, PopsFit
    <3>3. QED
      BY <1>1, <2>2, <2>3, <3>1, <3>2, QueueEmpty
  <2>5. QED
    BY <2>4 DEF AvailablePermits
<1>3. ASSUME \A b \in Actors : pc[b] \in {"idle", "queued"}
      PROVE  Cardinality(Granted) >= Permits - cancels
  <2>1. Held = {} /\ \A b \in Actors : pc[b] \notin Releasing
    BY <1>3 DEF Held, Releasing
  <2>2. Serving = {}
    BY <1>1, <2>1 DEF Serving, Base, LockFits
  <2>3. rxLock = 0
    BY <1>1, <2>1 DEF Ordered, LockHeld, Base, Types
  <2>4. Pending = 0 /\ Cardinality(Held) = 0
    BY <2>1, <2>2, <2>3, FS_EmptySet DEF Pending
  <2>5. /\ Cardinality(Granted) \in Nat /\ Cardinality(Doomed) \in Nat
        /\ cancels \in Nat /\ Permits \in Nat
    BY <1>1, Terms DEF Base
  <2>6. PermitsInUse = Cardinality(Granted)
    BY <1>2, <2>4, <2>5 DEF PermitsInUse
  <2>7. QED
    BY <1>1, <2>5, <2>6 DEF Conserved
<1>4. QED
  BY <1>2, <1>3 DEF WaitersFirst

\* Nobody waits while there are permits, and when all is quiet every permit is somebody's
\* (release_one does not return before what it pops, or the word, has taken its permits;
\* poll_permit joins the queue only by an exchange on a word without permits).
THEOREM PermitsReachWaiters == Spec => []WaitersFirst
<1>1. Ordered => WaitersFirst
  <2> SUFFICES ASSUME Ordered PROVE WaitersFirst
    OBVIOUS
  <2>1. CASE \E a \in Actors : pc[a] = "queued" /\ node[waiter[a]] = "QueuedWaiting"
    BY <2>1, WhoWaits
  <2>2. CASE ~\E a \in Actors : pc[a] = "queued" /\ node[waiter[a]] = "QueuedWaiting"
    BY <2>2 DEF WaitersFirst
  <2>3. QED
    BY <2>1, <2>2
<1>2. QED
  BY OrderedHolds, <1>1, PTL

\* The tasks never all wait for each other, where they are polled only when woken and until
\* a Waiter is dropped while it waits: some call is going on, some permit is held, or some
\* task has been woken and will find its permit.
THEOREM DeadlockFreedom ==
  ASSUME ~Repolls
  PROVE  Spec => [](cancels = 0 => NobodyStranded)
<1>1. ASSUME Ordered, Announced, cancels = 0 PROVE NobodyStranded
  <2> SUFFICES ASSUME NEW a \in Actors, pc[a] = "queued",
                      \A b \in Actors : pc[b] \in {"idle", "queued", "panicked"}
               PROVE  \E b \in Actors : b \in woken /\ node[waiter[b]] = "Assigned"
    BY DEF NobodyStranded
  <2>1. \A b \in Actors : pc[b] \in {"idle", "queued"}
    BY <1>1 DEF Ordered, IInv, Base, NoPanic
  <2>2. ASSUME NEW b \in Actors, pc[b] = "queued", node[waiter[b]] = "Assigned"
        PROVE  b \in woken
    BY <1>1, <2>1, <2>2 DEF Announced, Calm, GrantIsAnnounced
  <2>3. CASE node[waiter[a]] = "Assigned"
    BY <2>2, <2>3
  <2>4. CASE node[waiter[a]] = "QueuedWaiting"
    <3>1. Cardinality(Granted) >= Permits - 0
      BY <1>1, <2>1, <2>4, WhoWaits DEF WaitersFirst
    <3>2. Permits \in Nat \ {0} /\ Cardinality({}) = 0
      BY NodeFacts, FS_EmptySet
    <3>3. Granted # {}
      BY <3>1, <3>2
    <3>4. PICK b \in Actors : waiter[b] # Null /\ node[waiter[b]] = "Assigned"
      BY <3>3 DEF Granted
    <3>5. pc[b] = "queued"
      BY <1>1, <2>1, <3>4 DEF Ordered, IInv, Base, WaitersFit, Entering
    <3>6. QED
      BY <2>2, <3>4, <3>5
  <2>5. QED
    BY <1>1, <2>3, <2>4 DEF Ordered, QueuedFit
<1>2. Ordered /\ Announced => (cancels = 0 => NobodyStranded)
  BY <1>1
<1>3. QED
  BY OrderedHolds, AnnouncedHolds, <1>2, PTL
===============================================================================
