-------------------------------- MODULE Memory --------------------------------
(***************************************************************************)
(* The simulated memory of the fuzz engine: what src/syncbox-fuzz/src/sync/ *)
(* atomic/{atomic,usize}.rs, sync/causal.rs, sync/mutex.rs,                 *)
(* rt/{synchronize,execution}.rs do to causality.  Each action is one       *)
(* operation by thread t, from the return of its branch point on.           *)
(***************************************************************************)
EXTENDS VersionVec, Integers, Sequences, SequencesExt

CONSTANTS Atomics, Cells

VARIABLES causality,   \* Thread.causality
          scCausality, \* Execution.seq_cst_causality
          writes,      \* Atomic.writes, oldest first
          cells        \* CausalCell.version

memory == <<causality, scCausality, writes, cells>>

Unseen == -1
Acquires(ord) == ord \in {"Acquire", "AcqRel", "SeqCst"}
Releases(ord) == ord \in {"Release", "AcqRel", "SeqCst"}

MemoryTypeOK ==
  /\ causality \in [Threads -> Vectors] /\ scCausality \in Vectors
  /\ writes \in [Atomics -> Seq([value : Nat, sync : Vectors, seqCst : BOOLEAN,
                                 firstSeen : [Threads -> Nat \cup {Unseen}]])]
  /\ cells \in [Cells -> Vectors]

\* FirstSeen::touch by t whose causality is c; FirstSeen::new is a touch of nothing.
Touched(seen, t, c) == [seen EXCEPT ![t] = IF @ = Unseen THEN c[t] ELSE @]
Never == [t \in Threads |-> Unseen]

\* The root makes every object before it spawns a thread: Atomic::new, CausalCell::new.
Fresh == <<[value |-> 0, sync |-> Zero, seqCst |-> FALSE,
            firstSeen |-> Touched(Never, Root, Zero)]>>

MemoryInit ==
  /\ causality = [t \in Threads |-> Zero] /\ scCausality = Zero
  /\ writes = [a \in Atomics |-> Fresh] /\ cells = [c \in Cells |-> Zero]

\* Execution::step forgets the iteration.
MemoryReset ==
  /\ causality' = [t \in Threads |-> Zero] /\ scCausality' = Zero
  /\ writes' = [a \in Atomics |-> Fresh] /\ cells' = [c \in Cells |-> Zero]

-------------------------------------------------------------------------------
\* What a thread knows while it is in an operation: its own causality and the
\* global one.
View(t) == [own |-> causality[t], sc |-> scCausality]

\* Execution::seq_cst
SeqCst(v) == LET c == Join(v.own, v.sc) IN [own |-> c, sc |-> c]

\* Mutant of SyncRead: an Acquire load does not synchronize.
MutSyncReadNot(v, sync, ord) == IF ord = "SeqCst" THEN SeqCst(v) ELSE v

\* Synchronize::sync_read of the clock sync
SyncRead(v, sync, ord) ==
  LET known == IF Acquires(ord) THEN [v EXCEPT !.own = Join(@, sync)] ELSE v IN
  IF ord = "SeqCst" THEN SeqCst(known) ELSE known

\* Synchronize::sync_write: the clock it leaves, and what the thread knows then.
SyncWrite(v, sync, ord) == IF Releases(ord) THEN Join(sync, v.own) ELSE sync
AfterWrite(v, ord) == IF ord = "SeqCst" THEN SeqCst(v) ELSE v

\* do_write: the clock starts as the one of the write before, whatever the order.
Write(ws, t, v, val, ord) ==
  Append(ws, [value |-> val, sync |-> SyncWrite(v, Last(ws).sync, ord), seqCst |-> ord = "SeqCst",
              firstSeen |-> Touched(Never, t, v.own)])

\* synchronize(): the operation ends, t's version is incremented.
Conclude(t, v) ==
  /\ causality' = [causality EXCEPT ![t] = Inc(v.own, t)]
  /\ scCausality' = v.sc
  /\ UNCHANGED cells

-------------------------------------------------------------------------------
\* Mutant of IsSeenBy: < for <=.
MutIsSeenByLater(seen, c) == \E u \in Threads : seen[u] # Unseen /\ seen[u] < c[u]

\* FirstSeen::is_seen_by a thread whose causality is c
IsSeenBy(seen, c) == \E u \in Threads : seen[u] # Unseen /\ seen[u] <= c[u]

\* pick_write: the writes a load may be given, newest first, back to the first that
\* is in the thread's causality (or is SeqCst, as the load).
Candidates(t, a, ord) ==
  LET ws == writes[a]
      ends == {i \in DOMAIN ws : \/ IsSeenBy(ws[i].firstSeen, causality[t])
                                 \/ ord = "SeqCst" /\ ws[i].seqCst}
  IN  Reverse([n \in 1 .. Len(ws) - Max({1} \cup ends) + 1 |-> Max({1} \cup ends) + n - 1])

\* Atomic::load, given write k.
Load(t, a, ord, k) ==
  /\ writes' = [writes EXCEPT ![a][k].firstSeen = Touched(@, t, causality[t])]
  /\ Conclude(t, SyncRead(View(t), writes[a][k].sync, ord))

Store(t, a, val, ord) ==
  /\ writes' = [writes EXCEPT ![a] = Write(@, t, View(t), val, ord)]
  /\ Conclude(t, AfterWrite(View(t), ord))

\* Atomic::rmw, and compare_exchange when it succeeds: on the newest write.
Rmw(t, a, val, ord) ==
  LET n == Len(writes[a])
      v == SyncRead(View(t), writes[a][n].sync, ord)
      touched == [writes[a] EXCEPT ![n].firstSeen = Touched(@, t, causality[t])]
  IN  /\ writes' = [writes EXCEPT ![a] = Write(touched, t, v, val, ord)]
      /\ Conclude(t, AfterWrite(v, ord))

\* CausalCell::with and with_mut; only with_mut leaves a mark.
Races(t, c) == ~Leq(cells[c], causality[t])
WithMut(t, c) ==
  /\ cells' = [cells EXCEPT ![c] = Join(@, causality[t])]
  /\ UNCHANGED <<causality, scCausality, writes>>

\* Mutex::acquire and release, branch_park and branch_unpark: seq_cst() alone.
Fence(t) ==
  /\ causality' = [causality EXCEPT ![t] = SeqCst(View(t)).own]
  /\ scCausality' = SeqCst(View(t)).sc
  /\ UNCHANGED <<writes, cells>>

\* Execution::new_thread
Inherit(t, u) ==
  /\ causality' = [causality EXCEPT ![u] = Inc(Join(@, causality[t]), u)]
  /\ UNCHANGED <<scCausality, writes, cells>>

\* Execution::unpark_thread
Hand(t, u) ==
  /\ causality' = [causality EXCEPT ![u] = Join(@, causality[t])]
  /\ UNCHANGED <<scCausality, writes, cells>>
===============================================================================
