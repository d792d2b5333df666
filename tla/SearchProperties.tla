--------------------------- MODULE SearchProperties ---------------------------
(***************************************************************************)
(* What the search of the fuzz engine promises about the program it is      *)
(* given, stated over Search.  The order of events is defined here from the *)
(* history alone, without version vectors, for the engine's to be compared  *)
(* with.                                                                    *)
(***************************************************************************)
EXTENDS Search

Accesses == [path : Nat, dpor : Vectors]

TypeOK ==
  /\ MemoryTypeOK
  /\ phase \in {"start", "next", "saving", "search", "audit",
                "failed", "refuted", "panicked", "unreadable"}
  /\ status \in [Threads -> {"Absent", "Runnable", "Blocked", "Terminated"}]
  /\ active \in Threads \cup {None} /\ owner \in [Mutexes -> Threads \cup {None}]
  /\ stage \in [Threads -> {"client", "branched", "parked"}]
  /\ \A t \in Threads : /\ pc[t] \in 1 .. Len(program[t]) + 1
                        /\ operation[t] \in {NoOp} \cup ToSet(program[t])
  /\ dpor \in [Threads -> Vectors]
  /\ last \in [Objects -> [{"load", "store", "any"} -> Accesses]]
  /\ ArePath(branches) /\ pos \in 0 .. Len(branches)
  /\ iteration \in 0 .. Interval - 1 /\ crashes \in 0 .. MaxCrashes
  /\ file.is \in {"absent", "torn", "whole"} /\ ArePath(file.branches)
  /\ overlooked \in BOOLEAN

Uses(t, kinds) == \E i \in DOMAIN program[t] : program[t][i].kind \in kinds

\* A replay goes the way the path says: the branch it meets is of the kind it is at,
\* the thread chosen there can run (again), and backtracking finds the schedule it
\* marks.  Only a thread that spawns another one after the program has forked can make
\* the engine mark a thread in a schedule recorded before there was one (path.rs:185).
ReplayFits ==
  /\ phase = "panicked" => \E t \in Threads \ {Root} : Uses(t, {"spawn"})
  /\ phase = "search" /\ active # None => status[active] = "Runnable"

\* No execution is run twice, but for those a crash made the process forget: every
\* iteration decides otherwise somewhere than all those before it.
NoExecutionTwice ==
  phase = "search" /\ active = None => Decisions \notin executed

\* Execution d went along the path to its branch i, and decided v there.
Went(d, i, v) ==
  i \in DOMAIN d /\ d[i] = v /\ \A j \in 1 .. i - 1 : d[j] = Chosen(branches[j])

\* Nothing is given up untried: an execution has gone by each thread that a schedule on
\* the path is through with, and when a load is replayed, each write it is offered is
\* still to be read there or has been read by an execution that came the same way.
NothingSkipped ==
  /\ phase \in {"start", "next", "saving", "search"} =>
       \A i \in DOMAIN branches : branches[i].kind = "Schedule" =>
         \A t \in Marked(branches[i].threads, "Visited") : \E d \in executed : Went(d, i, t)
  /\ \A t \in Threads :
       phase = "search" /\ At(t, "load", "branched") /\ pos < Len(branches) =>
         \A k \in ToSet(Candidates(t, Op(t).obj, Op(t).ord)) :
           \/ k \in ToSet(branches[pos + 1].writes)
           \/ \E d \in executed : Went(d, pos + 1, k)

\* The search comes to an end, or to the program's failure, whatever the crashes.
Over == phase \in {"audit", "failed", "refuted", "panicked", "unreadable"}
SearchEnds == <>Over

\* A search that ended without a failure has seen all the program can do, across the
\* restarts too: no interleaving of it, with any choice of the writes its loads may
\* read, fails or returns other values.  The exception is a program one of whose races
\* schedule() overlooked.
Exhaustive ==
  overlooked \/ /\ phase # "refuted"
                /\ phase = "audit" /\ active = None => Outcome \in visited

-------------------------------------------------------------------------------
\* The order of the events of the trace.
IsSeqCst(e) ==
  \/ e.op.kind \in {"lock", "unlock", "send", "join"}
  \/ e.rf + e.wr > 0 /\ e.op.ord = "SeqCst"

\* Writes f.rf, which f reads, belongs to the release sequence that e heads.
Synchronizes(e, f) ==
  /\ e.wr > 0 /\ f.rf >= e.wr /\ e.op.obj = f.op.obj
  /\ Releases(e.op.ord) /\ Acquires(f.op.ord)
  /\ \A i \in DOMAIN trace :
       LET g == trace[i] IN
       g.wr \in e.wr + 1 .. f.rf /\ g.op.obj = e.op.obj => g.rf > 0 \/ g.by = e.by

Starts(e, t) == e.op.kind = "spawn" /\ e.val = t

\* After the first n events of the trace thread t knows of event i, other than by
\* reading what it wrote: seq_cst() passes on what its callers know, in their order.
Tells(i, t, n) ==
  \/ trace[i].by = t \/ Starts(trace[i], t)
  \/ /\ IsSeqCst(trace[i])
     /\ \E k \in i + 1 .. n : trace[k].by = t /\ IsSeqCst(trace[k])

\* Event i happens before event j for no other between them.  A store leaves what its
\* thread knows before it calls seq_cst().
Directly(i, j) ==
  LET f == trace[j] IN
  \/ Tells(i, f.by, IF f.op.kind = "store" THEN j - 1 ELSE j)
  \/ Synchronizes(trace[i], f)

\* The events that happen before event j, itself included.
Past[j \in DOMAIN trace] ==
  {j} \cup UNION {Past[i] : i \in {k \in 1 .. j - 1 : Directly(k, j)}}

\* ... and those before what t does next.
Known(t) == UNION {Past[i] : i \in {k \in DOMAIN trace : Tells(k, t, Len(trace))}}

\* The writes a load may read: those after which none is known to t, or is SeqCst as
\* the load is.
Allowed(t, a, ord) ==
  {k \in DOMAIN writes[a] :
     \A j \in k + 1 .. Len(writes[a]) :
       /\ ~(ord = "SeqCst" /\ writes[a][j].seqCst)
       /\ \A i \in Known(t) : ~(j \in {trace[i].rf, trace[i].wr} /\ trace[i].op.obj = a)}

Writing == {"store", "rmw", "cas"}

\* Where the engine's causality is the order of events and no more: no seq_cst() that
\* does not end in an increment, no operation of a thread after it has spawned one, and
\* no store to an atomic that another thread writes, which would go on with its release
\* sequence.
Precise ==
  /\ \A t \in Threads : ~Uses(t, {"lock", "unlock", "send", "join"})
  /\ \A i \in DOMAIN program[Root] : program[Root][i].kind = "spawn"
  /\ \A t \in Threads \ {Root} : ~Uses(t, {"spawn"})
  /\ \A t, u \in Threads : \A i \in DOMAIN program[t], j \in DOMAIN program[u] :
       LET o == program[t][i]  p == program[u][j] IN
       o.kind = "store" /\ p.kind \in Writing /\ o.obj = p.obj => t = u

\* A load is offered no write older than one its thread must know of, so that the
\* failures the search reports are the program's, ...
NothingStale ==
  \A t \in Threads :
    At(t, "load", "branched") =>
      ToSet(Candidates(t, Op(t).obj, Op(t).ord)) \subseteq Allowed(t, Op(t).obj, Op(t).ord)

\* ... and, where causality is exact, every write it may read.
LoadsAreAllowed ==
  /\ NothingStale
  /\ Precise =>
       \A t \in Threads :
         At(t, "load", "branched") =>
           ToSet(Candidates(t, Op(t).obj, Op(t).ord)) = Allowed(t, Op(t).obj, Op(t).ord)

\* An access to a CausalCell that panics is a race: another thread wrote the cell, and
\* nothing orders that write before this access.
RacesAreReal ==
  \A t \in Threads :
    (At(t, "get", "client") \/ At(t, "set", "client")) /\ Races(t, Op(t).obj) =>
      \E i \in DOMAIN trace \ Known(t) :
        trace[i].op.kind = "set" /\ trace[i].op.obj = Op(t).obj
===============================================================================
