----------------------------- MODULE ReplayProofs -----------------------------
(***************************************************************************)
(* Theorems about Search: an iteration that replays the path meets the      *)
(* branches that are on it (ReplayFits), and the search gives nothing up    *)
(* untried (NothingSkipped, AllRead).                                       *)
(*                                                                          *)
(* What an execution does is a function of what the path decides at each    *)
(* branch point (Led).  The path is good when there is a set of points of   *)
(* executions, the beginning in it, where each branch met is of its kind    *)
(* and whose points lead to points of the set (Closed).  Conversely, the    *)
(* points that given decisions pass are those in every such set (Passes),   *)
(* so that past executions can be spoken of by their decisions alone        *)
(* (Thorough).                                                              *)
(***************************************************************************)
EXTENDS SearchProofs

\* The memory and the threads of the execution.
Mem == [causality |-> causality, sc |-> scCausality, writes |-> writes, cells |-> cells]
Run == [status |-> status, operation |-> operation, active |-> active, pc |-> pc,
        stage |-> stage, owner |-> owner, mem |-> Mem]

\* ... at its beginning,
FirstMem == [causality |-> [t \in Threads |-> Zero], sc |-> Zero,
             writes |-> [a \in Atomics |-> Fresh], cells |-> [c \in Cells |-> Zero]]
FirstRun == [status |-> OnlyRoot, operation |-> All(NoOp), active |-> Root, pc |-> All(1),
             stage |-> All("client"), owner |-> [x \in Mutexes |-> None], mem |-> FirstMem]

\* ... and after each operation on the memory m.
ViewIn(m, t) == [own |-> m.causality[t], sc |-> m.sc]
Concluded(m, t, v, ws) ==
  [causality |-> [m.causality EXCEPT ![t] = Inc(v.own, t)], sc |-> v.sc, writes |-> ws,
   cells |-> m.cells]
Loaded(m, t, a, ord, k) ==
  Concluded(m, t, SyncRead(ViewIn(m, t), m.writes[a][k].sync, ord),
            [m.writes EXCEPT ![a][k].firstSeen = Touched(@, t, m.causality[t])])
Stored(m, t, a, val, ord) ==
  Concluded(m, t, AfterWrite(ViewIn(m, t), ord),
            [m.writes EXCEPT ![a] = Write(@, t, ViewIn(m, t), val, ord)])
Replaced(m, t, a, val, ord) ==
  LET n == Len(m.writes[a])
      v == SyncRead(ViewIn(m, t), m.writes[a][n].sync, ord)
      touched == [m.writes[a] EXCEPT ![n].firstSeen = Touched(@, t, m.causality[t])]
  IN  Concluded(m, t, AfterWrite(v, ord),
                [m.writes EXCEPT ![a] = Write(touched, t, v, val, ord)])
Barred(m, t) ==
  [causality |-> [m.causality EXCEPT ![t] = SeqCst(ViewIn(m, t)).own],
   sc |-> SeqCst(ViewIn(m, t)).sc, writes |-> m.writes, cells |-> m.cells]
Handed(m, u, c) ==
  [causality |-> [m.causality EXCEPT ![u] = c], sc |-> m.sc, writes |-> m.writes,
   cells |-> m.cells]
Changed(m, t, c) ==
  [causality |-> m.causality, sc |-> m.sc, writes |-> m.writes,
   cells |-> [m.cells EXCEPT ![c] = Join(@, m.causality[t])]]

\* What the active thread of the run r does next, in program p.
OverIn(p, r, t) == r.pc[t] > Len(p[t])
Doing(p, r) == IF OverIn(p, r, r.active) THEN [kind |-> "end"] ELSE p[r.active][r.pc[r.active]]
Where(r) == r.stage[r.active]

\* It is at a branch point, or it is given a write.
Deciding(p, r) ==
  /\ r.active # None
  /\ \/ Doing(p, r).kind = "end"
     \/ Doing(p, r).kind \in Branching /\ Where(r) = "client"
     \/ Doing(p, r).kind = "join" /\ Where(r) = "parked" /\ OverIn(p, r, Doing(p, r).obj)
Reading(p, r) == r.active # None /\ Doing(p, r).kind = "load" /\ Where(r) = "branched"

\* The run that follows when the path decides d.
Turned(r, st, op, where, mem, d) ==
  [status |-> [r.status EXCEPT ![r.active] = st],
   operation |-> [r.operation EXCEPT ![r.active] = op], active |-> d, pc |-> r.pc,
   stage |-> [r.stage EXCEPT ![r.active] = where], owner |-> r.owner, mem |-> mem]
Joined(p, r) == Doing(p, r).kind = "send" \/ OverIn(p, r, Doing(p, r).obj)
Switched(p, r, d) ==
  LET o == Doing(p, r) IN
  CASE o.kind = "end" -> Turned(r, "Terminated", NoOp, "client", r.mem, d)
    [] o.kind = "lock" ->
         Turned(r, IF r.owner[o.obj] = None THEN "Runnable" ELSE "Blocked", o, "branched",
                r.mem, d)
    [] o.kind \in {"load", "store", "rmw", "cas"} ->
         Turned(r, "Runnable", o, "branched", r.mem, d)
    [] o.kind \in {"send", "join"} ->
         IF Joined(p, r) THEN Turned(r, "Runnable", o, "branched", Barred(r.mem, r.active), d)
         ELSE Turned(r, "Blocked", NoOp, "parked", r.mem, d)

Returned(r, st, own, mem, n) ==
  [status |-> st, operation |-> r.operation, active |-> r.active,
   pc |-> [r.pc EXCEPT ![r.active] = n], stage |-> [r.stage EXCEPT ![r.active] = "client"],
   owner |-> own, mem |-> mem]
Read(p, r, k) ==
  LET o == Doing(p, r) IN
  Returned(r, r.status, r.owner, Loaded(r.mem, r.active, o.obj, o.ord, k),
           IF r.mem.writes[o.obj][k].value \in o.leaves THEN Len(p[r.active]) + 1
           ELSE r.pc[r.active] + 1)

\* ... and the run that follows an operation for which nothing is to decide.
Contending(p, r, st) ==
  [u \in Threads |->
     IF u # r.active /\ r.operation[u] # NoOp /\ r.operation[u].obj = Doing(p, r).obj
     THEN st ELSE r.status[u]]
Receivers(p, r) == {u \in Threads : r.stage[u] = "parked" /\ p[u][r.pc[u]].obj = r.active}
Alone(p, r) ==
  LET t == r.active  o == Doing(p, r)  m == r.mem  ws == m.writes[o.obj]
      u == IF o.kind = "spawn" THEN Cardinality({x \in Threads : r.status[x] # "Absent"})
           ELSE Min(Receivers(p, r))
      back(st, own, mem) == Returned(r, st, own, mem, r.pc[t] + 1)
      same(mem) == back(r.status, r.owner, mem)
      woken(c) == back([r.status EXCEPT ![u] = "Runnable"], r.owner, Handed(m, u, c))
      known == Join(m.causality[u], m.causality[t])
  IN
  CASE o.kind = "store" -> same(Stored(m, t, o.obj, o.val, o.ord))
    [] o.kind = "rmw" -> same(Replaced(m, t, o.obj, ws[Len(ws)].value + 1, o.ord))
    [] o.kind = "cas" ->
         same(IF ws[Len(ws)].value = o.cur THEN Replaced(m, t, o.obj, o.val, o.ord)
              ELSE Loaded(m, t, o.obj, OnFailure(o.ord), Len(ws)))
    [] o.kind = "lock" ->
         back(Contending(p, r, "Blocked"), [r.owner EXCEPT ![o.obj] = t], Barred(m, t))
    [] o.kind = "unlock" ->
         back(Contending(p, r, "Runnable"), [r.owner EXCEPT ![o.obj] = None], Barred(m, t))
    [] o.kind \in {"get", "join"} -> same(m)
    [] o.kind = "set" -> same(Changed(m, t, o.obj))
    [] o.kind = "spawn" -> woken(Inc(known, u))
    [] o.kind = "send" -> IF Receivers(p, r) = {} THEN same(m) ELSE woken(known)

-------------------------------------------------------------------------------
(* The steps of an iteration. *)

LEMMA MemoryRuns ==
  /\ \A t, a, ord, k : Load(t, a, ord, k) => Mem' = Loaded(Mem, t, a, ord, k)
  /\ \A t, a, val, ord : Store(t, a, val, ord) => Mem' = Stored(Mem, t, a, val, ord)
  /\ \A t, a, val, ord : Rmw(t, a, val, ord) => Mem' = Replaced(Mem, t, a, val, ord)
  /\ \A t : Fence(t) => Mem' = Barred(Mem, t)
  /\ \A t, c : WithMut(t, c) => Mem' = Changed(Mem, t, c)
  /\ \A t, u : Inherit(t, u) => Mem' = Handed(Mem, u, Inc(Join(causality[u], causality[t]), u))
  /\ \A t, u : Hand(t, u) => Mem' = Handed(Mem, u, Join(causality[u], causality[t]))
  /\ UNCHANGED memory => Mem' = Mem
<1>1. ASSUME NEW t PROVE ViewIn(Mem, t) = View(t)
  BY DEF ViewIn, View, Mem
<1>2. ASSUME NEW t, NEW a, NEW ord, NEW k, Load(t, a, ord, k)
      PROVE  Mem' = Loaded(Mem, t, a, ord, k)
  BY <1>1, <1>2 DEF Load, Loaded, Conclude, Concluded, Mem
<1>3. ASSUME NEW t, NEW a, NEW val, NEW ord, Store(t, a, val, ord)
      PROVE  Mem' = Stored(Mem, t, a, val, ord)
  BY <1>1, <1>3 DEF Store, Stored, Conclude, Concluded, Mem
<1>4. ASSUME NEW t, NEW a, NEW val, NEW ord, Rmw(t, a, val, ord)
      PROVE  Mem' = Replaced(Mem, t, a, val, ord)
  BY <1>1, <1>4 DEF Rmw, Replaced, Conclude, Concluded, Mem
<1>5. ASSUME NEW t, Fence(t) PROVE Mem' = Barred(Mem, t)
  BY <1>1, <1>5 DEF Fence, Barred, Mem
<1>6. ASSUME NEW t, NEW c, WithMut(t, c) PROVE Mem' = Changed(Mem, t, c)
  BY <1>6 DEF WithMut, Changed, Mem
<1>7. ASSUME NEW t, NEW u, Inherit(t, u)
      PROVE  Mem' = Handed(Mem, u, Inc(Join(causality[u], causality[t]), u))
  BY <1>7 DEF Inherit, Handed, Mem
<1>8. ASSUME NEW t, NEW u, Hand(t, u)
      PROVE  Mem' = Handed(Mem, u, Join(causality[u], causality[t]))
  BY <1>8 DEF Hand, Handed, Mem
<1>9. QED
  BY <1>2, <1>3, <1>4, <1>5, <1>6, <1>7, <1>8 DEF memory, Mem

LEMMA Here ==
  ASSUME NEW t \in Threads, NEW kind, NEW where, At(t, kind, where)
  PROVE  /\ Run.active = t /\ t # None /\ active = t
         /\ Doing(program, Run) = Op(t) /\ Op(t).kind = kind /\ Where(Run) = where
         /\ ~AtEnd(t) /\ phase \in {"search", "audit"}
BY NoneAssumption DEF At, Run, Doing, OverIn, AtEnd, Op, Where

LEMMA Back ==
  ASSUME NEW t, active = t, Return(t), UNCHANGED <<operation, active>>
  PROVE  Run' = Returned(Run, status', owner', Mem', Run.pc[t] + 1)
BY DEF Return, Returned, Run

LEMMA RunIs ==
  /\ Run.status = status /\ Run.operation = operation /\ Run.active = active /\ Run.pc = pc
  /\ Run.stage = stage /\ Run.owner = owner /\ Run.mem = Mem
  /\ Mem.writes = writes /\ Mem.causality = causality /\ Mem.sc = scCausality
  /\ Mem.cells = cells
BY DEF Run, Mem

\* The kinds at which nothing is to decide.
Plain == {"store", "rmw", "cas", "lock", "unlock", "get", "set", "spawn", "send", "join"}

LEMMA PlainIs ==
  ASSUME NEW t \in Threads, NEW kind \in Plain, NEW where \in {"client", "branched"},
         At(t, kind, where), where = "client" => kind \in {"unlock", "get", "set", "spawn"}
  PROVE  ~Deciding(program, Run) /\ ~Reading(program, Run)
<1>1. Doing(program, Run).kind = kind /\ Where(Run) = where
  BY Here
<1>2. QED
  BY <1>1 DEF Deciding, Reading, Plain, Branching

LEMMA AtomicRuns ==
  ASSUME NEW t \in Threads, StoreEnds(t) \/ RmwEnds(t) \/ CasEnds(t)
  PROVE  /\ Run' = Alone(program, Run)
         /\ ~Deciding(program, Run) /\ ~Reading(program, Run)
<1> DEFINE a == Op(t).obj
           n == Len(writes[a])
<1>1. CASE StoreEnds(t)
  <2>1. At(t, "store", "branched") /\ Store(t, a, Op(t).val, Op(t).ord) /\ Return(t)
        /\ UNCHANGED <<status, operation, active, owner>>
    BY <1>1 DEF StoreEnds
  <2>2. Run' = Returned(Run, status, owner, Stored(Mem, t, a, Op(t).val, Op(t).ord), Run.pc[t] + 1)
    BY <2>1, Here, Back, MemoryRuns
  <2>3. QED
    BY <2>1, <2>2, Here, PlainIs, RunIs DEF Alone, Plain
<1>2. CASE RmwEnds(t)
  <2>1. At(t, "rmw", "branched") /\ Rmw(t, a, writes[a][n].value + 1, Op(t).ord) /\ Return(t)
        /\ UNCHANGED <<status, operation, active, owner>>
    BY <1>2 DEF RmwEnds
  <2>2. Run' = Returned(Run, status, owner, Replaced(Mem, t, a, writes[a][n].value + 1, Op(t).ord),
                        Run.pc[t] + 1)
    BY <2>1, Here, Back, MemoryRuns
  <2>3. QED
    BY <2>1, <2>2, Here, PlainIs, RunIs DEF Alone, Plain
<1>3. CASE CasEnds(t)
  <2> DEFINE mem == IF writes[a][n].value = Op(t).cur THEN Replaced(Mem, t, a, Op(t).val, Op(t).ord)
                    ELSE Loaded(Mem, t, a, OnFailure(Op(t).ord), n)
  <2>1. At(t, "cas", "branched") /\ Return(t) /\ UNCHANGED <<status, operation, active, owner>>
    BY <1>3 DEF CasEnds
  <2>2. IF writes[a][n].value = Op(t).cur THEN Rmw(t, a, Op(t).val, Op(t).ord)
        ELSE Load(t, a, OnFailure(Op(t).ord), n)
    BY <1>3 DEF CasEnds
  <2>3. Mem' = mem
    BY <2>2, MemoryRuns
  <2>4. Run' = Returned(Run, status, owner, mem, Run.pc[t] + 1)
    BY <2>1, <2>3, Here, Back
  <2>5. QED
    BY <2>1, <2>4, Here, PlainIs, RunIs DEF Alone, Plain
<1>4. QED
  BY <1>1, <1>2, <1>3

LEMMA LocksRun ==
  ASSUME NEW t \in Threads, LockEnds(t) \/ UnlockEnds(t)
  PROVE  /\ Run' = Alone(program, Run)
         /\ ~Deciding(program, Run) /\ ~Reading(program, Run)
<1>1. ASSUME NEW st, At(t, "lock", "branched") \/ At(t, "unlock", "client")
      PROVE  Contenders(t, st) = Contending(program, Run, st)
  BY <1>1, Here, RunIs DEF Contenders, Contending
<1>2. CASE LockEnds(t)
  <2>1. At(t, "lock", "branched") /\ Fence(t) /\ Return(t) /\ UNCHANGED <<operation, active>>
        /\ status' = Contenders(t, "Blocked") /\ owner' = [owner EXCEPT ![Op(t).obj] = t]
    BY <1>2 DEF LockEnds
  <2>2. Run' = Returned(Run, Contending(program, Run, "Blocked"), [owner EXCEPT ![Op(t).obj] = t],
                        Barred(Mem, t), Run.pc[t] + 1)
    BY <1>1, <2>1, Here, Back, MemoryRuns
  <2>3. /\ Run.active = t /\ Doing(program, Run) = Op(t) /\ Op(t).kind = "lock"
        /\ ~Deciding(program, Run) /\ ~Reading(program, Run)
    BY <2>1, Here, PlainIs DEF Plain
  <2>4. QED
    BY <2>2, <2>3, RunIs DEF Alone
<1>3. CASE UnlockEnds(t)
  <2>1. At(t, "unlock", "client") /\ Fence(t) /\ Return(t) /\ UNCHANGED <<operation, active>>
        /\ status' = Contenders(t, "Runnable") /\ owner' = [owner EXCEPT ![Op(t).obj] = None]
    BY <1>3 DEF UnlockEnds
  <2>2. Run' = Returned(Run, Contending(program, Run, "Runnable"),
                        [owner EXCEPT ![Op(t).obj] = None], Barred(Mem, t), Run.pc[t] + 1)
    BY <1>1, <2>1, Here, Back, MemoryRuns
  <2>3. /\ Run.active = t /\ Doing(program, Run) = Op(t) /\ Op(t).kind = "unlock"
        /\ ~Deciding(program, Run) /\ ~Reading(program, Run)
    BY <2>1, Here, PlainIs DEF Plain
  <2>4. QED
    BY <2>2, <2>3, RunIs DEF Alone
<1>4. QED
  BY <1>2, <1>3

LEMMA CellsRun ==
  ASSUME NEW t \in Threads, CellAccess(t), phase' \in {"search", "audit"}
  PROVE  /\ Run' = Alone(program, Run)
         /\ ~Deciding(program, Run) /\ ~Reading(program, Run)
<1>1. /\ At(t, "get", "client") \/ At(t, "set", "client")
      /\ IF Op(t).kind = "set" THEN WithMut(t, Op(t).obj) ELSE UNCHANGED memory
      /\ Return(t) /\ UNCHANGED <<status, operation, active, owner>>
  BY DEF CellAccess
<1>2. Mem' = IF Op(t).kind = "set" THEN Changed(Mem, t, Op(t).obj) ELSE Mem
  BY <1>1, MemoryRuns
<1>3. Run' = Returned(Run, status, owner, Mem', Run.pc[t] + 1)
  BY <1>1, Here, Back
<1>4. QED
  BY <1>1, <1>2, <1>3, Here, PlainIs, RunIs DEF Alone, Plain

LEMMA SpawnRuns ==
  ASSUME NEW t \in Threads, SpawnEnds(t)
  PROVE  /\ Run' = Alone(program, Run)
         /\ ~Deciding(program, Run) /\ ~Reading(program, Run)
<1> DEFINE u == Cardinality(Created)
<1>1. /\ At(t, "spawn", "client") /\ Inherit(t, u) /\ Return(t)
      /\ status' = [status EXCEPT ![u] = "Runnable"] /\ UNCHANGED <<operation, active, owner>>
  BY DEF SpawnEnds
<1>2. Run' = Returned(Run, [status EXCEPT ![u] = "Runnable"], owner,
                      Handed(Mem, u, Inc(Join(causality[u], causality[t]), u)), Run.pc[t] + 1)
  BY <1>1, Here, Back, MemoryRuns
<1>3. u = Cardinality({x \in Threads : Run.status[x] # "Absent"})
  BY RunIs DEF Created
<1>4. /\ Run.active = t /\ Doing(program, Run) = Op(t) /\ Op(t).kind = "spawn"
      /\ ~Deciding(program, Run) /\ ~Reading(program, Run)
  BY <1>1, Here, PlainIs DEF Plain
<1>5. QED
  BY <1>2, <1>3, <1>4, RunIs DEF Alone

LEMMA SendRuns ==
  ASSUME NEW t \in Threads, SendEnds(t) \/ JoinEnds(t)
  PROVE  /\ Run' = Alone(program, Run)
         /\ ~Deciding(program, Run) /\ ~Reading(program, Run)
<1>1. CASE SendEnds(t)
  <2> DEFINE rx == {u \in Threads : stage[u] = "parked" /\ Op(u).obj = t}
             u == Min(rx)
  <2>1. /\ At(t, "send", "branched") /\ Return(t) /\ UNCHANGED <<operation, active, owner>>
        /\ IF rx = {} THEN UNCHANGED <<memory, status>>
           ELSE Hand(t, u) /\ status' = [status EXCEPT ![u] = "Runnable"]
    BY <1>1 DEF SendEnds
  <2>2. rx = Receivers(program, Run)
    BY <2>1, Here, RunIs DEF Receivers, Op
  <2> HIDE DEF rx
  <2>3. Run' = Returned(Run, status', owner, Mem', Run.pc[t] + 1)
    BY <2>1, Here, Back
  <2>4. Mem' = IF rx = {} THEN Mem ELSE Handed(Mem, u, Join(causality[u], causality[t]))
    BY <2>1, MemoryRuns
  <2>5. /\ Run.active = t /\ Doing(program, Run) = Op(t) /\ Op(t).kind = "send"
        /\ ~Deciding(program, Run) /\ ~Reading(program, Run)
    BY <2>1, Here, PlainIs DEF Plain
  <2>6. status' = IF rx = {} THEN status ELSE [status EXCEPT ![u] = "Runnable"]
    BY <2>1
  <2>7. QED
    BY <2>2, <2>3, <2>4, <2>5, <2>6, RunIs DEF Alone
<1>2. CASE JoinEnds(t)
  <2>1. /\ At(t, "join", "branched") /\ Return(t)
        /\ UNCHANGED <<memory, status, operation, active, owner>>
    BY <1>2 DEF JoinEnds
  <2>2. Run' = Returned(Run, status, owner, Mem, Run.pc[t] + 1)
    BY <2>1, Here, Back, MemoryRuns
  <2>3. QED
    BY <2>1, <2>2, Here, PlainIs, RunIs DEF Alone, Plain
<1>3. QED
  BY <1>1, <1>2

\* A branch point: the thread t is to be in state st, with the operation op.
LEMMA BranchTurns ==
  ASSUME NEW t, NEW st, NEW op, NEW where, Branch(t, st, op, where), active = t,
         phase = "search"
  PROVE  LET ops == [operation EXCEPT ![t] = op]  states == [status EXCEPT ![t] = st] IN
         \/ Unprepared(ops) /\ Panic
         \/ /\ ~Unprepared(ops) /\ Schedule(states, ops) /\ UNCHANGED process
            /\ Run' = Turned(Run, st, op, where, Mem', active')
<1> DEFINE ops == [operation EXCEPT ![t] = op]
           states == [status EXCEPT ![t] = st]
<1>1. CASE Unprepared(ops)
  BY <1>1 DEF Branch
<1>2. CASE ~Unprepared(ops)
  <2>1. /\ status' = states /\ operation' = ops /\ Schedule(states, ops)
        /\ stage' = [stage EXCEPT ![t] = where] /\ UNCHANGED <<pc, owner, process>>
    BY <1>2 DEF Branch, Switch
  <2>2. Run' = Turned(Run, st, op, where, Mem', active')
    BY <2>1, RunIs DEF Turned, Run
  <2>3. QED
    BY <1>2, <2>1, <2>2
<1>3. QED
  BY <1>1, <1>2

Branches(t) ==
  BranchAtomic(t) \/ BranchLock(t) \/ BranchSend(t) \/ JoinParks(t) \/ BranchJoin(t) \/ Finish(t)

\* What the thread t asks for at its branch point: st, op and where as above.
Turns(t, st, op, where) ==
  /\ Branch(t, st, op, where)
  /\ \A d : Switched(program, Run, d) = Turned(Run, st, op, where, Mem', d)
Asking(t, st, op, where) ==
  \/ st = "Terminated" /\ op = NoOp /\ where = "client"
  \/ st = "Blocked" /\ op = NoOp /\ where = "parked"
  \/ st \in {"Runnable", "Blocked"} /\ ~AtEnd(t) /\ op = Op(t) /\ op.kind \in Branching
     /\ where = "branched"

LEMMA BranchesTurn ==
  ASSUME NEW t \in Threads, Branches(t)
  PROVE  /\ active = t /\ t # None /\ Deciding(program, Run)
         /\ \E st, op, where : Turns(t, st, op, where) /\ Asking(t, st, op, where)
<1> DEFINE o == Op(t)
<1>1. ASSUME UNCHANGED memory PROVE Mem' = Mem
  BY <1>1, MemoryRuns
<1>2. ASSUME Fence(t) PROVE Mem' = Barred(Mem, t)
  BY <1>2, MemoryRuns
<1>3. CASE BranchAtomic(t)
  <2>1. PICK kind \in {"load", "store", "rmw", "cas"} : At(t, kind, "client")
    BY <1>3 DEF BranchAtomic
  <2>2. Branch(t, "Runnable", o, "branched") /\ Mem' = Mem
    BY <1>1, <1>3 DEF BranchAtomic
  <2>3. /\ Run.active = t /\ t # None /\ active = t /\ Doing(program, Run) = o /\ o.kind = kind
        /\ Where(Run) = "client" /\ ~AtEnd(t)
    BY <2>1, Here
  <2>4. \A d : Switched(program, Run, d) = Turned(Run, "Runnable", o, "branched", Mem', d)
    BY <2>2, <2>3, RunIs DEF Switched
  <2>5. Deciding(program, Run) /\ kind \in Branching
    BY <2>3 DEF Deciding, Branching
  <2>6. QED
    BY <2>2, <2>3, <2>4, <2>5 DEF Turns, Asking
<1>4. CASE BranchLock(t)
  <2> DEFINE st == IF owner[o.obj] = None THEN "Runnable" ELSE "Blocked"
  <2>1. At(t, "lock", "client") /\ Branch(t, st, o, "branched") /\ Mem' = Mem
    BY <1>1, <1>4 DEF BranchLock
  <2>2. /\ Run.active = t /\ t # None /\ active = t /\ Doing(program, Run) = o /\ o.kind = "lock"
        /\ Where(Run) = "client" /\ ~AtEnd(t)
    BY <2>1, Here
  <2>3. \A d : Switched(program, Run, d) = Turned(Run, st, o, "branched", Mem', d)
    BY <2>1, <2>2, RunIs DEF Switched
  <2>4. Deciding(program, Run) /\ o.kind \in Branching
    BY <2>2 DEF Deciding, Branching
  <2>5. st \in {"Runnable", "Blocked"}
    OBVIOUS
  <2> HIDE DEF st
  <2>6. QED
    BY <2>1, <2>2, <2>3, <2>4, <2>5 DEF Turns, Asking
<1>5. CASE BranchSend(t)
  <2>1. At(t, "send", "client") /\ Branch(t, "Runnable", o, "branched") /\ Mem' = Barred(Mem, t)
    BY <1>2, <1>5 DEF BranchSend
  <2>2. /\ Run.active = t /\ t # None /\ active = t /\ Doing(program, Run) = o /\ o.kind = "send"
        /\ Where(Run) = "client" /\ ~AtEnd(t)
    BY <2>1, Here
  <2>3. \A d : Switched(program, Run, d) = Turned(Run, "Runnable", o, "branched", Mem', d)
    BY <2>1, <2>2, RunIs DEF Switched, Joined
  <2>4. Deciding(program, Run) /\ o.kind \in Branching
    BY <2>2 DEF Deciding, Branching
  <2>5. QED
    BY <2>1, <2>2, <2>3, <2>4 DEF Turns, Asking
<1>6. CASE JoinParks(t)
  <2>1. At(t, "join", "client") /\ ~AtEnd(o.obj) /\ Branch(t, "Blocked", NoOp, "parked") /\ Mem' = Mem
    BY <1>1, <1>6 DEF JoinParks
  <2>2. /\ Run.active = t /\ t # None /\ active = t /\ Doing(program, Run) = o /\ o.kind = "join"
        /\ Where(Run) = "client" /\ ~AtEnd(t)
    BY <2>1, Here
  <2>3. ~OverIn(program, Run, o.obj)
    BY <2>1, RunIs DEF OverIn, AtEnd
  <2>4. \A d : Switched(program, Run, d) = Turned(Run, "Blocked", NoOp, "parked", Mem', d)
    BY <2>1, <2>2, <2>3, RunIs DEF Switched, Joined
  <2>5. Deciding(program, Run)
    BY <2>2 DEF Deciding, Branching
  <2>6. QED
    BY <2>1, <2>2, <2>4, <2>5 DEF Turns, Asking
<1>7. CASE BranchJoin(t)
  <2>1. PICK w \in {"client", "parked"} : At(t, "join", w)
    BY <1>7 DEF BranchJoin
  <2>2. AtEnd(o.obj) /\ Branch(t, "Runnable", o, "branched") /\ Mem' = Barred(Mem, t)
    BY <1>2, <1>7 DEF BranchJoin
  <2>3. /\ Run.active = t /\ t # None /\ active = t /\ Doing(program, Run) = o /\ o.kind = "join"
        /\ Where(Run) = w /\ ~AtEnd(t)
    BY <2>1, Here
  <2>4. OverIn(program, Run, o.obj)
    BY <2>2, RunIs DEF OverIn, AtEnd
  <2>5. \A d : Switched(program, Run, d) = Turned(Run, "Runnable", o, "branched", Mem', d)
    BY <2>2, <2>3, <2>4, RunIs DEF Switched, Joined
  <2>6. Deciding(program, Run) /\ o.kind \in Branching
    BY <2>3, <2>4 DEF Deciding, Branching
  <2>7. QED
    BY <2>2, <2>3, <2>5, <2>6 DEF Turns, Asking
<1>8. CASE Finish(t)
  <2>1. active = t /\ AtEnd(t) /\ Branch(t, "Terminated", NoOp, "client") /\ Mem' = Mem
    BY <1>1, <1>8 DEF Finish
  <2>2. t # None /\ Run.active = t /\ Doing(program, Run) = [kind |-> "end"]
    BY <2>1, NoneAssumption, RunIs DEF Doing, OverIn, AtEnd
  <2>3. \A d : Switched(program, Run, d) = Turned(Run, "Terminated", NoOp, "client", Mem', d)
    BY <2>1, <2>2, RunIs DEF Switched
  <2>4. Deciding(program, Run)
    BY <2>2 DEF Deciding
  <2>5. QED
    BY <2>1, <2>2, <2>3, <2>4 DEF Turns, Asking
<1>9. QED
  BY <1>3, <1>4, <1>5, <1>6, <1>7, <1>8 DEF Branches

LEMMA ReadRuns ==
  ASSUME NEW t \in Threads, NEW k, At(t, "load", "branched"), Given(t, k)
  PROVE  Run' = Read(program, Run, k)
<1> DEFINE o == Op(t)
           n == IF writes[o.obj][k].value \in o.leaves THEN Len(program[t]) + 1 ELSE pc[t] + 1
<1>1. /\ Run.active = t /\ Doing(program, Run) = o
  BY Here
<1>2. /\ Load(t, o.obj, o.ord, k) /\ UNCHANGED <<status, operation, active, owner>>
      /\ stage' = [stage EXCEPT ![t] = "client"] /\ pc' = [pc EXCEPT ![t] = n]
  BY DEF Given
<1>3. Mem' = Loaded(Mem, t, o.obj, o.ord, k)
  BY <1>2, MemoryRuns
<1>4. QED
  BY <1>1, <1>2, <1>3, RunIs DEF Read, Returned, Run

-------------------------------------------------------------------------------
(* Paths and the executions they lead. *)

Meets(p, r) == Deciding(p, r) \/ Reading(p, r)

\* The branch b is of the kind that r meets, and what it may come to decide is there.
Suits(p, r, b) ==
  /\ Deciding(p, r) =>
       LET st == Switched(p, r, None).status IN
       /\ b.kind = "Schedule" /\ DOMAIN b.threads = {t \in Threads : st[t] # "Absent"}
       /\ \A t \in DOMAIN b.threads : b.threads[t] # "Disabled" => st[t] = "Runnable"
  /\ Reading(p, r) =>
       b.kind = "Write" /\ ToSet(b.writes) \subseteq DOMAIN r.mem.writes[Doing(p, r).obj]

\* A point is a run and its place on the path; the path leads it to the next.
Point(r, n) == [run |-> r, pos |-> n]
Begins == Point(FirstRun, 0)
Led(p, q, bs) ==
  LET d == Chosen(bs[q.pos + 1]) IN
  IF Deciding(p, q.run) THEN Point(Switched(p, q.run, d), q.pos + 1)
  ELSE IF Reading(p, q.run) THEN Point(Read(p, q.run, d), q.pos + 1)
  ELSE Point(Alone(p, q.run), q.pos)

\* The path bs has been made by executions through the points Q, the last of which is
\* at e.  No two of them meet a branch at one place.
Closed(p, Q, e, bs) ==
  /\ Begins \in Q /\ e.pos = Len(bs) /\ \A q \in Q : q.pos \in 0 .. Len(bs)
  /\ \A q \in Q \ {e} :
       /\ Meets(p, q.run) => q.pos < Len(bs) /\ Suits(p, q.run, bs[q.pos + 1])
       /\ Led(p, q, bs) \in Q
  /\ \A q, x \in Q : q.pos = x.pos /\ Meets(p, q.run) /\ Meets(p, x.run) => q = x

LEMMA PointIs ==
  ASSUME NEW r, NEW n
  PROVE  Point(r, n).run = r /\ Point(r, n).pos = n
BY DEF Point

LEMMA LedIs ==
  ASSUME NEW p, NEW q, NEW bs
  PROVE  /\ Meets(p, q.run) => Led(p, q, bs).pos = q.pos + 1
         /\ ~Meets(p, q.run) => Led(p, q, bs) = Point(Alone(p, q.run), q.pos)
         /\ \A cs : (Meets(p, q.run) => Chosen(bs[q.pos + 1]) = Chosen(cs[q.pos + 1]))
              => Led(p, q, bs) = Led(p, q, cs)
BY PointIs DEF Led, Meets

\* The path is another one, with the same decisions.
LEMMA SameDecisions ==
  ASSUME NEW p, NEW Q, NEW e, NEW bs, NEW cs, Closed(p, Q, e, bs), Len(bs) \in Nat,
         Len(cs) = Len(bs),
         \A i \in 1 .. Len(bs) : /\ Chosen(cs[i]) = Chosen(bs[i])
                                 /\ \A r : Suits(p, r, bs[i]) => Suits(p, r, cs[i])
  PROVE  Closed(p, Q, e, cs)
<1>1. ASSUME NEW q \in Q \ {e}
      PROVE  /\ Meets(p, q.run) => q.pos < Len(cs) /\ Suits(p, q.run, cs[q.pos + 1])
             /\ Led(p, q, cs) \in Q
  <2>1. /\ q.pos \in 0 .. Len(bs) /\ Led(p, q, bs) \in Q
        /\ Meets(p, q.run) => q.pos < Len(bs) /\ Suits(p, q.run, bs[q.pos + 1])
    BY DEF Closed
  <2>2. CASE Meets(p, q.run)
    <3>1. q.pos + 1 \in 1 .. Len(bs)
      BY <2>1, <2>2
    <3>2. Led(p, q, cs) = Led(p, q, bs)
      BY <3>1, LedIs
    <3>3. QED
      BY <2>1, <2>2, <3>1, <3>2
  <2>3. CASE ~Meets(p, q.run)
    BY <2>1, <2>3, LedIs
  <2>4. QED
    BY <2>2, <2>3
<1>2. QED
  BY <1>1 DEF Closed

\* The execution at the end goes on to a point q of the path cs, which begins with bs.
LEMMA GoesOn ==
  ASSUME NEW p, NEW Q, NEW e \in Q, NEW bs, NEW cs, NEW q, Closed(p, Q, e, bs),
         Len(bs) \in Nat, Len(cs) \in Nat, Len(bs) <= Len(cs),
         \A i \in 1 .. Len(bs) : cs[i] = bs[i],
         q = Led(p, e, cs), q.pos = Len(cs),
         Meets(p, e.run) => e.pos < Len(cs) /\ Suits(p, e.run, cs[e.pos + 1])
  PROVE  Closed(p, Q \cup {q}, q, cs)
<1>1. ASSUME NEW x \in Q \ {e}
      PROVE  /\ x.pos \in 0 .. Len(bs) /\ Led(p, x, cs) \in Q
             /\ Meets(p, x.run) => x.pos < Len(bs) /\ Suits(p, x.run, cs[x.pos + 1])
  <2>1. /\ x.pos \in 0 .. Len(bs) /\ Led(p, x, bs) \in Q
        /\ Meets(p, x.run) => x.pos < Len(bs) /\ Suits(p, x.run, bs[x.pos + 1])
    BY DEF Closed
  <2>2. CASE Meets(p, x.run)
    <3>1. x.pos + 1 \in 1 .. Len(bs)
      BY <2>1, <2>2
    <3>2. Led(p, x, cs) = Led(p, x, bs)
      BY <3>1, LedIs
    <3>3. QED
      BY <2>1, <2>2, <3>1, <3>2
  <2>3. CASE ~Meets(p, x.run)
    BY <2>1, <2>3, LedIs
  <2>4. QED
    BY <2>2, <2>3
<1>2. e.pos = Len(bs) /\ Begins \in Q
  BY DEF Closed
<1>3. ASSUME NEW x \in Q, x # q, Meets(p, x.run), Meets(p, q.run), x.pos = q.pos
      PROVE  FALSE
  <2>1. CASE x = e
    <3>1. e.pos < Len(cs)
      BY <1>3, <2>1
    <3>2. QED
      BY <1>2, <1>3, <2>1, <3>1
  <2>2. CASE x # e
    BY <1>1, <1>3, <2>2
  <2>3. QED
    BY <2>1, <2>2
<1>4. \A x, y \in Q : x.pos = y.pos /\ Meets(p, x.run) /\ Meets(p, y.run) => x = y
  BY DEF Closed
<1>5. \A x, y \in Q \cup {q} : x.pos = y.pos /\ Meets(p, x.run) /\ Meets(p, y.run) => x = y
  BY <1>3, <1>4
<1>6. \A x \in Q \cup {q} : x.pos \in 0 .. Len(cs)
  BY <1>1, <1>2
<1>7. ASSUME NEW x \in (Q \cup {q}) \ {q}
      PROVE  /\ Meets(p, x.run) => x.pos < Len(cs) /\ Suits(p, x.run, cs[x.pos + 1])
             /\ Led(p, x, cs) \in Q \cup {q}
  BY <1>1, <1>7
<1>8. QED
  BY <1>2, <1>5, <1>6, <1>7 DEF Closed

\* The path is cut after n branches, the last of which decides anew.
LEMMA CutShort ==
  ASSUME NEW p, NEW Q, NEW e, NEW bs, NEW cs, NEW n \in 1 .. Len(bs), Closed(p, Q, e, bs),
         Len(bs) \in Nat, Len(cs) = n, \A i \in 1 .. n - 1 : cs[i] = bs[i],
         \A r : Suits(p, r, bs[n]) => Suits(p, r, cs[n])
  PROVE  \E R, x : Closed(p, R, x, cs)
<1> DEFINE Ends(q) == q \in Q /\ q.pos = n - 1 /\ Meets(p, q.run)
           final == CHOOSE q \in Q : Ends(q)
           x == IF \E q \in Q : Ends(q) THEN Led(p, final, cs) ELSE Point(FirstRun, n)
           R == {q \in Q : q.pos < n} \cup {x}
<1>0. n \in Nat /\ n > 0 /\ n - 1 \in Nat
  OBVIOUS
<1>1. \A q \in Q : Ends(q) => q = final
  BY DEF Closed
<1>2. x.pos = n
  <2>1. CASE \E q \in Q : Ends(q)
    BY <1>0, <1>1, <2>1, LedIs
  <2>2. CASE ~(\E q \in Q : Ends(q))
    BY <2>2, PointIs
  <2>3. QED
    BY <2>1, <2>2
<1>3. ASSUME NEW q \in R \ {x}
      PROVE  /\ q.pos < n /\ (Meets(p, q.run) => Suits(p, q.run, cs[q.pos + 1]))
             /\ Led(p, q, cs) \in R
  <2>1. /\ q \in Q /\ q.pos < n /\ e.pos = Len(bs)
    BY DEF Closed
  <2>2. /\ q.pos \in 0 .. Len(bs) /\ Led(p, q, bs) \in Q
        /\ Meets(p, q.run) => Suits(p, q.run, bs[q.pos + 1])
    BY <2>1 DEF Closed
  <2>3. CASE ~Meets(p, q.run)
    <3>1. Led(p, q, cs) = Led(p, q, bs) /\ Led(p, q, bs).pos = q.pos
      BY <2>3, LedIs, PointIs
    <3>2. QED
      BY <2>1, <2>2, <2>3, <3>1
  <2>4. CASE Meets(p, q.run) /\ q.pos + 1 < n
    <3>1. q.pos + 1 \in 1 .. n - 1
      BY <1>0, <2>2, <2>4
    <3>2. Led(p, q, cs) = Led(p, q, bs) /\ Led(p, q, bs).pos = q.pos + 1
      BY <2>4, <3>1, LedIs
    <3>3. QED
      BY <2>1, <2>2, <2>4, <3>1, <3>2
  <2>5. CASE Meets(p, q.run) /\ ~(q.pos + 1 < n)
    <3>1. q.pos = n - 1
      BY <1>0, <2>1, <2>2, <2>5
    <3>2. Ends(q)
      BY <2>1, <2>5, <3>1
    <3>3. x = Led(p, q, cs)
      BY <1>1, <2>1, <3>2
    <3>4. Suits(p, q.run, cs[n])
      BY <1>0, <2>2, <2>5, <3>1
    <3>5. QED
      BY <1>0, <2>1, <3>1, <3>3, <3>4
  <2>6. QED
    BY <2>3, <2>4, <2>5
<1>4. Begins \in Q /\ Begins.pos = 0
  BY PointIs DEF Closed, Begins
<1>5. \A q \in Q : q.pos \in 0 .. Len(bs)
  BY DEF Closed
<1>6. \A q, y \in Q : q.pos = y.pos /\ Meets(p, q.run) /\ Meets(p, y.run) => q = y
  BY DEF Closed
<1> HIDE DEF x
<1>7. \A q, y \in R : q.pos = y.pos /\ Meets(p, q.run) /\ Meets(p, y.run) => q = y
  BY <1>0, <1>2, <1>5, <1>6
<1>8. Begins \in R /\ \A q \in R : q.pos \in 0 .. n
  BY <1>0, <1>2, <1>4, <1>5
<1> HIDE DEF R
<1>9. Closed(p, R, x, cs)
  BY <1>2, <1>3, <1>7, <1>8 DEF Closed
<1>10. QED
  BY <1>9

LEMMA NothingMade ==
  ASSUME NEW p
  PROVE  Closed(p, {Begins}, Begins, <<>>)
BY PointIs DEF Closed, Begins

-------------------------------------------------------------------------------
(* What the search does to the path. *)

LEMMA SuitsToo ==
  ASSUME NEW b, NEW c, c.kind = b.kind,
         b.kind = "Schedule" =>
           /\ DOMAIN c.threads = DOMAIN b.threads
           /\ \A t \in DOMAIN b.threads : c.threads[t] # "Disabled" => b.threads[t] # "Disabled",
         b.kind = "Write" => ToSet(c.writes) \subseteq ToSet(b.writes)
  PROVE  \A p, r : Suits(p, r, b) => Suits(p, r, c)
BY DEF Suits

LEMMA BacktrackSuits ==
  ASSUME branches \in Paths, NEW ops, NEW i \in DOMAIN branches
  PROVE  \A p, r : Suits(p, r, branches[i]) => Suits(p, r, Backtrack(ops)[i])
<1> DEFINE b == branches[i]
           c == Backtrack(ops)[i]
           th == b.threads
           new == Backtracked(th, [t \in DOMAIN th |-> Asked(ops, i, t)])
<1>1. b \in Schedules \cup Reads
  BY PathIs
<1>2. CASE b \in Reads
  <2>1. c = b
    BY <1>2, Kinds DEF Backtrack
  <2>2. QED
    BY <2>1
<1>3. CASE b \in Schedules
  <2>1. b.kind = "Schedule" /\ th \in [DOMAIN th -> Marks] /\ b = [kind |-> "Schedule", threads |-> th]
    BY <1>3, Kinds
  <2>2. c = [b EXCEPT !.threads = new]
    BY <2>1 DEF Backtrack
  <2>3. /\ new \in [DOMAIN th -> Marks]
        /\ Marked(new, "Active") = Marked(th, "Active")
        /\ Marked(new, "Visited") = Marked(th, "Visited")
        /\ Marked(new, "Skip") \cup Marked(new, "Pending")
             = Marked(th, "Skip") \cup Marked(th, "Pending")
    BY <2>1, BacktrackedIs
  <2> HIDE DEF b, c, th, new
  <2>4. c.kind = "Schedule" /\ c.threads = new
    BY <2>1, <2>2
  <2>5. DOMAIN new = DOMAIN th
    BY <2>3
  <2>6. ASSUME NEW t \in DOMAIN th, new[t] # "Disabled" PROVE th[t] # "Disabled"
    <3>1. new[t] \in Marks /\ th[t] \in Marks
      BY <2>1, <2>3
    <3>2. t \in Marked(th, "Active") \cup Marked(th, "Visited")
                  \cup (Marked(th, "Skip") \cup Marked(th, "Pending"))
      BY <2>3, <2>5, <2>6, <3>1 DEF Marks, Marked
    <3>3. QED
      BY <3>2 DEF Marked
  <2>7. \A p, r : Suits(p, r, b) => Suits(p, r, c)
    BY <2>1, <2>4, <2>5, <2>6, SuitsToo DEF th
  <2>8. QED
    BY <2>7 DEF b, c
<1>4. QED
  BY <1>1, <1>2, <1>3

LEMMA AdvancedSuits ==
  ASSUME NEW b \in Schedules \cup Reads, Orderly(b), HasMore(b)
  PROVE  \A p, r : Suits(p, r, b) => Suits(p, r, Advanced(b))
<1> DEFINE c == Advanced(b)
<1>1. CASE b \in Reads
  <2>1. b.kind = "Write" /\ b = [kind |-> "Write", writes |-> b.writes]
    BY <1>1, Kinds
  <2>2. c = [b EXCEPT !.writes = Tail(@)]
    BY <2>1 DEF Advanced
  <2>3. c.kind = "Write"
    BY <2>1, <2>2
  <2>4. \A d : Spent(b, d) => Spent(c, d)
    BY AdvancedIs
  <2> HIDE DEF c
  <2>5. ToSet(c.writes) \subseteq ToSet(b.writes)
    BY <2>1, <2>3, <2>4 DEF Spent
  <2>6. \A p, r : Suits(p, r, b) => Suits(p, r, c)
    BY <2>1, <2>3, <2>5, SuitsToo
  <2>7. QED
    BY <2>6 DEF c
<1>2. CASE b \in Schedules
  <2> DEFINE th == b.threads
             m == Min(Marked(th, "Pending"))
             new == [t \in DOMAIN th |-> IF t = m THEN "Active"
                                         ELSE IF th[t] = "Active" THEN "Visited" ELSE th[t]]
  <2>1. /\ b.kind = "Schedule" /\ DOMAIN th \subseteq Threads
        /\ b = [kind |-> "Schedule", threads |-> th]
    BY <1>2, Kinds
  <2>2. m \in Marked(th, "Pending")
    <3>1. Marked(th, "Pending") \subseteq Nat /\ Marked(th, "Pending") # {}
      BY <2>1, ThreadsAreNumbers DEF Marked, HasMore
    <3>2. QED
      BY <3>1, Least
  <2>3. c = [b EXCEPT !.threads = new]
    BY <2>1 DEF Advanced
  <2> HIDE DEF c, m, th
  <2>4. c.kind = "Schedule" /\ c.threads = new
    BY <2>1, <2>3
  <2>5. \A t \in DOMAIN th : new[t] # "Disabled" => th[t] # "Disabled"
    BY <2>2 DEF Marked
  <2>6. DOMAIN new = DOMAIN th
    OBVIOUS
  <2> HIDE DEF new
  <2>7. \A p, r : Suits(p, r, b) => Suits(p, r, c)
    BY <2>1, <2>4, <2>5, <2>6, SuitsToo DEF th
  <2>8. QED
    BY <2>7 DEF c
<1>3. QED
  BY <1>1, <1>2

LEMMA SteppedCloses ==
  ASSUME NEW p, NEW Q, NEW e, NEW bs \in Paths, Closed(p, Q, e, bs)
  PROVE  \E R, x : Closed(p, R, x, Stepped(bs))
<1>1. /\ Len(bs) \in Nat /\ DOMAIN bs = 1 .. Len(bs)
      /\ \A i \in DOMAIN bs : bs[i] \in Schedules \cup Reads /\ Orderly(bs[i])
      /\ bs \in Seq(Schedules \cup Reads)
  BY PathIs DEF Paths
<1>2. CASE Open(bs) = {}
  <2>1. Stepped(bs) = <<>>
    BY <1>2 DEF Stepped
  <2>2. QED
    BY <2>1, NothingMade
<1>3. CASE Open(bs) # {}
  <2> DEFINE n == Max(Open(bs))
             top == SubSeq(bs, 1, n)
             cs == [top EXCEPT ![n] = Advanced(@)]
  <2>1. Stepped(bs) = cs
    BY <1>3 DEF Stepped
  <2>2. n \in 1 .. Len(bs) /\ HasMore(bs[n])
    <3>1. Open(bs) \subseteq 0 .. Len(bs)
      BY <1>1 DEF Open
    <3>2. n \in Open(bs)
      BY <1>1, <1>3, <3>1, Greatest
    <3>3. QED
      BY <1>1, <3>2 DEF Open
  <2> HIDE DEF n
  <2>3. n \in Nat /\ n >= 1 /\ n <= Len(bs)
    BY <1>1, <2>2
  <2>4. top = [i \in 1 .. n |-> bs[i]]
    BY <1>1, <2>3
  <2> HIDE DEF top
  <2>5. /\ DOMAIN cs = 1 .. n
        /\ \A i \in 1 .. n : cs[i] = IF i = n THEN Advanced(bs[n]) ELSE bs[i]
        /\ cs = [i \in 1 .. n |-> cs[i]]
    BY <2>3, <2>4
  <2> HIDE DEF cs
  <2>6. cs \in Paths
    BY <2>1, SteppedIs
  <2>7. Len(cs) = n
    BY <2>3, <2>5, <2>6, PathIs
  <2>8. \A i \in 1 .. n - 1 : cs[i] = bs[i]
    BY <2>3, <2>5
  <2>9. \A r : Suits(p, r, bs[n]) => Suits(p, r, cs[n])
    <3>1. cs[n] = Advanced(bs[n]) /\ n \in DOMAIN bs
      BY <1>1, <2>3, <2>5
    <3>2. QED
      BY <1>1, <2>2, <3>1, AdvancedSuits
  <2>10. \E R, x : Closed(p, R, x, cs)
    BY <1>1, <2>2, <2>7, <2>8, <2>9, CutShort
  <2>11. QED
    BY <2>1, <2>10
<1>4. QED
  BY <1>2, <1>3

\* A run that meets a branch is led by the path, or makes the branch.
LEMMA BranchMet ==
  ASSUME NEW p, NEW Q, NEW e, NEW r, NEW S, NEW bs \in Seq(S), NEW n, NEW seed \in S,
         Closed(p, Q, e, bs), Point(r, n) \in Q, Meets(p, r), Suits(p, r, seed)
  PROVE  LET cs == Branched(bs, n, seed) IN
         /\ \E R, x : Closed(p, R, x, cs) /\ {Point(r, n), Led(p, Point(r, n), cs)} \subseteq R
         /\ Suits(p, r, cs[n + 1])
<1> DEFINE q == Point(r, n)
           cs == Branched(bs, n, seed)
<1>1. q.run = r /\ q.pos = n /\ Len(bs) \in Nat
  BY PointIs, LenProperties
<1>2. CASE q # e
  <2>1. q.pos < Len(bs) /\ Suits(p, q.run, bs[q.pos + 1]) /\ Led(p, q, bs) \in Q
    BY <1>1, <1>2 DEF Closed
  <2>2. cs = bs
    BY <1>1, <2>1 DEF Branched
  <2>3. QED
    BY <1>1, <2>1, <2>2
<1>3. CASE q = e
  <2>1. n = Len(bs)
    BY <1>1, <1>3 DEF Closed
  <2>2. cs = Append(bs, seed)
    BY <2>1 DEF Branched
  <2>3. /\ Len(cs) = Len(bs) + 1 /\ cs[n + 1] = seed
        /\ \A i \in 1 .. Len(bs) : cs[i] = bs[i]
    BY <2>1, <2>2, AppendProperties
  <2> DEFINE x == Led(p, q, cs)
  <2>4. x.pos = Len(cs)
    BY <1>1, <2>1, <2>3, LedIs
  <2> HIDE DEF x, q, cs
  <2>5. Closed(p, Q \cup {x}, x, cs)
    <3>1. e \in Q /\ x = Led(p, e, cs) /\ e.run = r /\ e.pos = n
      BY <1>1, <1>3 DEF x, q
    <3>2. Len(cs) \in Nat /\ Len(bs) <= Len(cs) /\ n < Len(cs)
      BY <1>1, <2>1, <2>3
    <3>3. QED
      BY <1>1, <2>3, <2>4, <3>1, <3>2, GoesOn
  <2>6. QED
    BY <2>3, <2>5 DEF x, q, cs
<1>4. QED
  BY <1>2, <1>3

\* A run that meets none goes on, on the path or at its end.
LEMMA NoneMet ==
  ASSUME NEW p, NEW Q, NEW e, NEW r, NEW bs, NEW n, Len(bs) \in Nat,
         Closed(p, Q, e, bs), Point(r, n) \in Q, ~Meets(p, r)
  PROVE  \E R, x : Closed(p, R, x, bs) /\ Point(Alone(p, r), n) \in R
<1> DEFINE q == Point(r, n)
           x == Led(p, q, bs)
<1>1. q.run = r /\ q.pos = n /\ x = Point(Alone(p, r), n) /\ x.pos = n
  BY PointIs, LedIs
<1>2. CASE q # e
  BY <1>1, <1>2 DEF Closed
<1>3. CASE q = e
  <2>1. e \in Q /\ x = Led(p, e, bs) /\ ~Meets(p, e.run) /\ x.pos = Len(bs)
    BY <1>1, <1>3 DEF Closed
  <2> HIDE DEF q, x
  <2>2. Closed(p, Q \cup {x}, x, bs)
    BY <2>1, GoesOn
  <2>3. QED
    BY <1>1, <2>2
<1>4. QED
  BY <1>2, <1>3

-------------------------------------------------------------------------------
(* The invariant. *)

\* The path, and the one in the file, have been made by executions, among them the one
\* that is at it.
Replays ==
  /\ phase \in Searching =>
       \E Q, e : Closed(program, Q, e, branches) /\ Point(Run, pos) \in Q
  /\ phase \in Searching \ {"search"} => Run = FirstRun
  /\ \E Q, e : Closed(program, Q, e, file.branches)

\* The thread chosen can run.
Awake == phase = "search" /\ active # None => status[active] = "Runnable"

LEMMA ChosenAwake ==
  ASSUME NEW r, NEW b \in Schedules, Suits(program, r, b), Deciding(program, r),
         Chosen(b) # None
  PROVE  /\ Chosen(b) \in Threads
         /\ Switched(program, r, None).status[Chosen(b)] = "Runnable"
<1> DEFINE c == Chosen(b)
<1>1. b.kind = "Schedule" /\ DOMAIN b.threads \subseteq Threads
  BY Kinds
<1>2. c = Min(Marked(b.threads, "Active")) /\ Marked(b.threads, "Active") # {}
  BY <1>1 DEF Chosen
<1>3. Marked(b.threads, "Active") \subseteq Nat
  BY <1>1, ThreadsAreNumbers DEF Marked
<1>4. c \in Marked(b.threads, "Active")
  BY <1>2, <1>3, Least
<1>5. c \in DOMAIN b.threads /\ b.threads[c] = "Active"
  BY <1>4 DEF Marked
<1>6. QED
  BY <1>1, <1>5 DEF Suits

LEMMA SeedSuits ==
  ASSUME ThreadTypes, Spawned, NEW t \in Created, Run.active = t, Deciding(program, Run),
         NEW st \in {"Runnable", "Blocked", "Terminated"},
         Switched(program, Run, None).status = [status EXCEPT ![t] = st]
  PROVE  Suits(program, Run, Seed([status EXCEPT ![t] = st]))
<1> DEFINE states == [status EXCEPT ![t] = st]
           b == Seed(states)
<1>1. ~Reading(program, Run)
  BY DEF Deciding, Reading, Branching
<1>2. b.kind = "Schedule" /\ DOMAIN b.threads = Created
  BY DEF Seed
<1>3. \A u \in Created : b.threads[u] # "Disabled" => states[u] = "Runnable"
  BY DEF Seed
<1>4. Created = {u \in Threads : states[u] # "Absent"}
  BY DEF Created, ThreadTypes
<1> HIDE DEF states, b
<1>5. QED
  BY <1>1, <1>2, <1>3, <1>4 DEF Suits, states, b

\* The conditions under which steps are looked at, and what they have to keep.
Conditions == IInv /\ Spawned /\ Types /\ Replays /\ phase = "search"

LEMMA ConditionsAre ==
  ASSUME Conditions
  PROVE  /\ IInv /\ Spawned /\ Types /\ MemoryTypes /\ ThreadTypes /\ DporTypes
         /\ phase = "search"
         /\ branches \in Paths /\ branches \in Seq(Schedules \cup Reads)
         /\ Len(branches) \in Nat /\ DOMAIN branches = 1 .. Len(branches)
         /\ pos \in 0 .. Len(branches)
         /\ \E Q, e : Closed(program, Q, e, branches) /\ Point(Run, pos) \in Q
         /\ \E Q, e : Closed(program, Q, e, file.branches)
<1>1. branches \in Paths /\ pos \in 0 .. Len(branches)
  BY DEF Conditions, IInv
<1>2. /\ Len(branches) \in Nat /\ DOMAIN branches = 1 .. Len(branches)
      /\ branches \in Seq(Schedules \cup Reads)
  BY <1>1, PathIs DEF Paths
<1>3. QED
  BY <1>1, <1>2 DEF Conditions, Types, Replays, Searching

\* It is enough to say where the execution is in the end.
LEMMA ReplaysNext ==
  ASSUME Conditions, UNCHANGED <<program, file>>, phase' \notin Searching \ {"search"},
         \E Q, e : Closed(program, Q, e, branches') /\ Point(Run', pos') \in Q
  PROVE  Replays'
BY ConditionsAre DEF Replays

LEMMA BranchReplays ==
  ASSUME Conditions, NEW t \in Threads, Branches(t), phase' # "panicked"
  PROVE  /\ Replays' /\ Awake'
         /\ Deciding(program, Run) /\ Suits(program, Run, branches'[pos'])
         /\ pos' = pos + 1 /\ branches' \in Paths /\ pos' \in DOMAIN branches'
         /\ \E ops, st : branches' = Branched(Backtrack(ops), pos, Seed(st))
         /\ \E Q, e : Closed(program, Q, e, branches') /\ Point(Run, pos) \in Q
         /\ Point(Run', pos') = Led(program, Point(Run, pos), branches')
         /\ UNCHANGED <<program, file, executed>> /\ phase' \in {"search", "failed"}
<1>1. PICK st, op, where : Turns(t, st, op, where) /\ Asking(t, st, op, where)
  BY BranchesTurn
<1>2. active = t /\ t # None /\ Deciding(program, Run) /\ Run.active = t
  BY BranchesTurn, RunIs
<1> DEFINE ops == [operation EXCEPT ![t] = op]
           states == [status EXCEPT ![t] = st]
           bs == Backtrack(ops)
           seed == Seed(states)
           S == Schedules \cup Reads
<1>3. /\ Schedule(states, ops) /\ UNCHANGED process
      /\ Run' = Turned(Run, st, op, where, Mem', active')
  <2>1. Branch(t, st, op, where) /\ phase = "search"
    BY <1>1, ConditionsAre DEF Turns
  <2>2. ~Panic
    BY DEF Panic
  <2>3. QED
    BY <1>2, <2>1, <2>2, BranchTurns
<1>4. Run' = Switched(program, Run, active')
  BY <1>1, <1>3 DEF Turns
<1>5. /\ pos' = pos + 1 /\ branches' = Branched(bs, pos, seed)
      /\ active' = Chosen(branches'[pos + 1])
      /\ phase' \in {"search", "failed"}
      /\ UNCHANGED <<program, file, executed>>
  BY <1>3, ConditionsAre DEF Schedule, Nobody, process
<1>6. Switched(program, Run, None).status = states
  BY <1>1, <1>2, RunIs DEF Turns, Turned
<1>7. st \in {"Runnable", "Blocked", "Terminated"}
  BY <1>1 DEF Asking
<1>8. t \in Created /\ \E n \in Threads : Created = 0 .. n
  BY <1>2, ConditionsAre DEF Spawned
<1>9. Suits(program, Run, seed)
  BY <1>2, <1>6, <1>7, <1>8, ConditionsAre, SeedSuits
<1>10. seed \in S /\ Orderly(seed)
  BY <1>8, SeedIs
<1>11. PICK Q, e : Closed(program, Q, e, branches) /\ Point(Run, pos) \in Q
  BY ConditionsAre
<1>12. /\ bs \in Paths /\ Len(bs) = Len(branches) /\ bs \in Seq(S)
       /\ \A i \in DOMAIN branches : Chosen(bs[i]) = Chosen(branches[i])
       /\ \A i \in DOMAIN branches : \A r : Suits(program, r, branches[i]) => Suits(program, r, bs[i])
  BY ConditionsAre, BacktrackIs, BacktrackSuits DEF Paths
<1> HIDE DEF bs, seed, S
<1>13. Closed(program, Q, e, bs)
  BY <1>11, <1>12, ConditionsAre, SameDecisions
<1>14. Meets(program, Run)
  BY <1>2 DEF Meets
<1>15. /\ \E R, x : /\ Closed(program, R, x, branches') /\ Point(Run, pos) \in R
                    /\ Led(program, Point(Run, pos), branches') \in R
       /\ Suits(program, Run, branches'[pos + 1])
  BY <1>5, <1>9, <1>10, <1>11, <1>12, <1>13, <1>14, BranchMet
<1>16. Led(program, Point(Run, pos), branches') = Point(Run', pos')
  BY <1>2, <1>4, <1>5, PointIs DEF Led
<1>17. Replays'
  BY <1>5, <1>15, <1>16, ConditionsAre, ReplaysNext DEF Searching
<1>18. branches' \in Paths /\ pos + 1 \in DOMAIN branches'
  BY <1>5, <1>10, <1>12, ConditionsAre, BranchedIs DEF S
<1>19. Awake'
  <2> SUFFICES ASSUME active' # None PROVE status'[active'] = "Runnable"
    BY DEF Awake
  <2>1. branches'[pos + 1] \in Schedules
    <3>1. branches'[pos + 1] \in Schedules \cup Reads
      BY <1>18, PathIs
    <3>2. branches'[pos + 1].kind = "Schedule"
      BY <1>2, <1>15 DEF Suits
    <3>3. QED
      BY <3>1, <3>2, Kinds
  <2>2. states[active'] = "Runnable"
    BY <1>2, <1>5, <1>6, <1>15, <2>1, ChosenAwake
  <2>3. status' = states
    BY <1>3, <1>2, RunIs DEF Turned, Run
  <2>4. QED
    BY <2>2, <2>3
<1>20. \E o, s : branches' = Branched(Backtrack(o), pos, Seed(s))
  BY <1>5 DEF bs, seed
<1>21. QED
  BY <1>2, <1>5, <1>15, <1>16, <1>17, <1>18, <1>19, <1>20, ConditionsAre

LEMMA LoadReplays ==
  ASSUME Conditions, NEW t \in Threads, LoadEnds(t)
  PROVE  /\ Replays' /\ phase' = phase /\ pos' = pos + 1
         /\ UNCHANGED <<status, operation, active, dpor, last>>
         /\ (\E k : Given(t, k)) /\ At(t, "load", "branched") /\ Reading(program, Run)
         /\ branches' = Branched(branches, pos,
                                 [kind |-> "Write", writes |-> Candidates(t, Op(t).obj, Op(t).ord)])
         /\ \E Q, e : Closed(program, Q, e, branches') /\ Point(Run, pos) \in Q
         /\ Point(Run', pos') = Led(program, Point(Run, pos), branches')
         /\ UNCHANGED <<program, file, executed>>
         /\ branches' \in Paths /\ \A i \in DOMAIN branches : i \in DOMAIN branches' /\ branches'[i] = branches[i]
<1> DEFINE o == Op(t)
           offered == Candidates(t, o.obj, o.ord)
           seed == [kind |-> "Write", writes |-> offered]
           path == Branched(branches, pos, seed)
           S == Schedules \cup Reads
<1>1. At(t, "load", "branched") /\ phase = "search"
  BY ConditionsAre DEF LoadEnds
<1>2. /\ Run.active = t /\ t # None /\ Doing(program, Run) = o /\ o.kind = "load"
      /\ Where(Run) = "branched" /\ ~AtEnd(t)
  BY <1>1, Here
<1>3. Reading(program, Run) /\ ~Deciding(program, Run) /\ Meets(program, Run)
  BY <1>2 DEF Reading, Deciding, Meets, Branching
<1>4. o.obj \in Atomics
  BY <1>2, ConditionsAre, OperationIs DEF Fits
<1>5. /\ offered \in Seq(Nat) /\ offered # <<>> /\ ToSet(offered) \subseteq DOMAIN writes[o.obj]
      /\ \A i, j \in DOMAIN offered : offered[i] = offered[j] => i = j
  BY <1>4, ConditionsAre, CandidatesAre DEF IInv
<1> HIDE DEF offered
<1>6. /\ seed \in S /\ Orderly(seed) /\ seed.kind = "Write" /\ seed.writes = offered
  BY <1>5 DEF Reads, Orderly
<1> HIDE DEF seed
<1>7. Suits(program, Run, seed)
  BY <1>2, <1>3, <1>5, <1>6, RunIs DEF Suits
<1>8. PICK Q, e : Closed(program, Q, e, branches) /\ Point(Run, pos) \in Q
  BY ConditionsAre
<1>9. branches \in Seq(S)
  BY ConditionsAre
<1> HIDE DEF S
<1>10. /\ \E R, x : /\ Closed(program, R, x, path) /\ Point(Run, pos) \in R
                    /\ Led(program, Point(Run, pos), path) \in R
       /\ Suits(program, Run, path[pos + 1])
  BY <1>3, <1>6, <1>7, <1>8, <1>9, BranchMet
<1>11. path \in Paths /\ pos + 1 \in DOMAIN path
       /\ \A i \in DOMAIN branches : i \in DOMAIN path /\ path[i] = branches[i]
  <2>1. path \in Paths /\ pos + 1 \in DOMAIN path
    BY <1>6, ConditionsAre, BranchedIs DEF S
  <2>2. CASE pos = Len(branches)
    <3>1. path = Append(branches, seed)
      BY <2>2 DEF Branched
    <3>2. /\ Len(path) = Len(branches) + 1 /\ \A i \in 1 .. Len(branches) : path[i] = branches[i]
      BY <1>6, <1>9, <3>1, AppendProperties
    <3>3. DOMAIN path = 1 .. Len(branches) + 1 /\ DOMAIN branches = 1 .. Len(branches)
          /\ Len(branches) \in Nat
      BY <2>1, <3>2, PathIs, ConditionsAre
    <3>4. QED
      BY <2>1, <3>2, <3>3
  <2>3. CASE pos # Len(branches)
    BY <2>1, <2>3 DEF Branched
  <2>4. QED
    BY <2>2, <2>3
<1>12. path[pos + 1].kind = "Write" /\ Chosen(path[pos + 1]) \in DOMAIN writes[o.obj]
  <2>1. path[pos + 1].kind = "Write"
        /\ ToSet(path[pos + 1].writes) \subseteq DOMAIN writes[o.obj]
    BY <1>2, <1>3, <1>10, RunIs DEF Suits
  <2>2. path[pos + 1] \in Schedules \cup Reads /\ Orderly(path[pos + 1])
    BY <1>11, PathIs
  <2> HIDE DEF path
  <2>3. path[pos + 1].writes \in Seq(Nat) /\ path[pos + 1].writes # <<>>
    BY <2>1, <2>2, Kinds DEF Orderly
  <2>4. Head(path[pos + 1].writes) \in ToSet(path[pos + 1].writes)
    <3>1. /\ Head(path[pos + 1].writes) = path[pos + 1].writes[1]
          /\ 1 \in DOMAIN path[pos + 1].writes
      BY <2>3, LenProperties, EmptySeq
    <3>2. QED
      BY <3>1 DEF ToSet
  <2>5. QED
    BY <2>1, <2>4 DEF Chosen
<1>13. /\ branches' = path /\ pos' = pos + 1 /\ Given(t, Chosen(path[pos + 1]))
  <2>1. path[pos + 1].kind # "Schedule"
    BY <1>12
  <2>2. QED
    BY <1>1, <1>12, <2>1 DEF LoadEnds, seed, offered
<1>14. /\ Run' = Read(program, Run, Chosen(path[pos + 1]))
  BY <1>1, <1>13, ReadRuns
<1>15. Led(program, Point(Run, pos), path) = Point(Run', pos')
  BY <1>3, <1>13, <1>14, PointIs DEF Led
<1>16. UNCHANGED <<program, file, executed, phase, status, operation, active, dpor, last>>
  BY <1>13 DEF Given, process
<1>17. path = Branched(branches, pos, [kind |-> "Write", writes |-> Candidates(t, o.obj, o.ord)])
  BY DEF path, seed, offered
<1> HIDE DEF path
<1>18. Replays'
  BY <1>10, <1>13, <1>15, <1>16, ConditionsAre, ReplaysNext
<1>19. QED
  BY <1>1, <1>3, <1>10, <1>11, <1>13, <1>15, <1>16, <1>17, <1>18

Undecided(t) ==
  \/ StoreEnds(t) \/ RmwEnds(t) \/ CasEnds(t) \/ LockEnds(t) \/ UnlockEnds(t)
  \/ CellAccess(t) \/ SpawnEnds(t) \/ SendEnds(t) \/ JoinEnds(t)

LEMMA QuietIs ==
  ASSUME NEW t \in Threads, Undecided(t), phase = "search"
  PROVE  /\ active = t /\ UNCHANGED <<branches, pos, program, file, executed>>
         /\ phase' \in {"search", "failed"}
         /\ phase' = "search" =>
              /\ Run' = Alone(program, Run) /\ ~Meets(program, Run)
              /\ active' = active /\ operation' = operation
              /\ stage' = [stage EXCEPT ![t] = "client"] /\ stage[t] # "parked"
<1>1. ASSUME StoreEnds(t) \/ RmwEnds(t) \/ CasEnds(t) \/ LockEnds(t) \/ UnlockEnds(t)
             \/ SpawnEnds(t) \/ SendEnds(t) \/ JoinEnds(t)
      PROVE  /\ UNCHANGED <<branches, pos, program, file, executed, phase, active, operation>>
             /\ Return(t)
             /\ active = t
             /\ \E kind, where : where # "parked" /\ At(t, kind, where)
  BY <1>1 DEF StoreEnds, RmwEnds, CasEnds, LockEnds, UnlockEnds, SpawnEnds, SendEnds, JoinEnds,
              search, process, At
<1>2. ASSUME CellAccess(t)
      PROVE  /\ UNCHANGED <<branches, pos, program, file, executed>> /\ active = t
             /\ phase' \in {"search", "failed"}
             /\ phase' = "search" => UNCHANGED <<active, operation>> /\ Return(t)
             /\ \E kind, where : where # "parked" /\ At(t, kind, where)
  BY <1>2 DEF CellAccess, search, process, At
<1>3. phase' = "search" => Run' = Alone(program, Run) /\ ~Meets(program, Run)
  BY AtomicRuns, LocksRun, CellsRun, SpawnRuns, SendRuns DEF Undecided, Meets
<1>4. QED
  BY <1>1, <1>2, <1>3 DEF Undecided, Return, At

LEMMA QuietReplays ==
  ASSUME Conditions, Awake, NEW t \in Threads, Undecided(t)
  PROVE  Replays' /\ Awake'
<1>1. /\ active = t /\ UNCHANGED <<branches, pos, program, file>>
      /\ phase' \in {"search", "failed"}
      /\ phase' = "search" =>
           Run' = Alone(program, Run) /\ ~Meets(program, Run) /\ active' = active
  BY QuietIs, ConditionsAre
<1>2. CASE phase' = "failed"
  BY <1>1, <1>2, ConditionsAre DEF Replays, Awake, Searching
<1>3. CASE phase' = "search"
  <2>1. PICK Q, e : Closed(program, Q, e, branches) /\ Point(Run, pos) \in Q
    BY ConditionsAre
  <2>2. \E R, x : Closed(program, R, x, branches) /\ Point(Alone(program, Run), pos) \in R
    BY <1>1, <1>3, <2>1, ConditionsAre, NoneMet
  <2>3. Replays'
    BY <1>1, <1>3, <2>2, ReplaysNext
  <2>4. status[t] = "Runnable" /\ status \in [Threads -> {"Absent", "Runnable", "Blocked", "Terminated"}]
    BY <1>1, NoneAssumption, ConditionsAre DEF Awake, ThreadTypes
  <2>5. status'[t] = "Runnable"
    <3>1. CASE UNCHANGED status
      BY <2>4, <3>1
    <3>2. ASSUME NEW st, status' = Contenders(t, st) PROVE status'[t] = "Runnable"
      BY <2>4, <3>2 DEF Contenders
    <3>3. ASSUME NEW u, status' = [status EXCEPT ![u] = "Runnable"]
          PROVE  status'[t] = "Runnable"
      BY <2>4, <3>3
    <3>4. \/ UNCHANGED status \/ \E st : status' = Contenders(t, st)
          \/ \E u : status' = [status EXCEPT ![u] = "Runnable"]
      <4>1. CASE StoreEnds(t) \/ RmwEnds(t) \/ CasEnds(t) \/ JoinEnds(t)
        BY <4>1 DEF StoreEnds, RmwEnds, CasEnds, JoinEnds
      <4>2. CASE LockEnds(t) \/ UnlockEnds(t)
        BY <4>2 DEF LockEnds, UnlockEnds
      <4>3. CASE CellAccess(t)
        BY <4>3 DEF CellAccess, threads
      <4>4. CASE SpawnEnds(t)
        BY <4>4 DEF SpawnEnds
      <4>5. CASE SendEnds(t)
        BY <4>5 DEF SendEnds
      <4>6. QED
        BY <4>1, <4>2, <4>3, <4>4, <4>5 DEF Undecided
    <3>5. QED
      BY <3>1, <3>2, <3>3, <3>4
  <2>6. QED
    BY <1>1, <2>3, <2>5 DEF Awake
<1>4. QED
  BY <1>1, <1>2, <1>3

\* The rest: the audit, the loop of iterations, the file and the crashes.
LEMMA FirstRunIs ==
  /\ Init => Run = FirstRun
  /\ Reset => Run' = FirstRun
BY DEF Init, MemoryInit, Reset, MemoryReset, Run, Mem, FirstRun, FirstMem

LEMMA AtTheBeginning ==
  ASSUME NEW p, NEW bs, NEW Q, NEW e, Closed(p, Q, e, bs)
  PROVE  Point(FirstRun, 0) \in Q
BY DEF Closed, Begins

LEMMA NothingReplays ==
  ASSUME NEW p
  PROVE  \E Q, e : Closed(p, Q, e, <<>>) /\ Point(FirstRun, 0) \in Q
BY NothingMade, AtTheBeginning

LEMMA InitReplays ==
  ASSUME Init
  PROVE  Replays /\ Awake
<1>1. /\ branches = <<>> /\ file.branches = <<>> /\ pos = 0 /\ phase = "start"
      /\ Run = FirstRun
  BY FirstRunIs DEF Init, NoFile
<1>2. QED
  BY <1>1, NothingReplays DEF Replays, Awake

LEMMA RestReplays ==
  ASSUME IInv, Replays, Awake,
         Start \/ BeginIteration \/ Save \/ EndIteration \/ Crash
  PROVE  Replays' /\ Awake'
<1>1. program' = program
  BY DEF Start, BeginIteration, Save, EndIteration, Crash
<1>2. branches \in Paths /\ (phase \in Searching \ {"search"} => pos = 0)
  BY DEF IInv
<1>3. PICK F, y : Closed(program, F, y, file.branches)
  BY DEF Replays
<1>4. CASE Start
  <2>1. /\ phase = "start" /\ branches' = file.branches /\ phase' # "search"
        /\ UNCHANGED <<memory, threads, pos, file>>
    BY <1>4 DEF Start
  <2>2. Run' = FirstRun /\ pos' = 0
    BY <1>2, <2>1 DEF Replays, Searching, Run, Mem, memory, threads
  <2>3. QED
    BY <1>1, <1>3, <2>1, <2>2, AtTheBeginning DEF Replays, Awake
<1>5. CASE BeginIteration \/ Save
  <2>1. /\ phase \in {"next", "saving"} /\ phase' \in {"search", "saving"}
        /\ UNCHANGED <<memory, threads, branches, pos>>
        /\ file'.branches \in {<<>>, branches} \/ file' = file
    BY <1>5 DEF BeginIteration, Save, search, Torn
  <2>2. PICK Q, e : Closed(program, Q, e, branches) /\ Point(Run, pos) \in Q
    BY <2>1 DEF Replays, Searching
  <2>3. Run = FirstRun /\ Run' = Run
    BY <2>1 DEF Replays, Searching, Run, Mem, memory, threads
  <2>4. \E R, x : Closed(program, R, x, file'.branches)
    BY <1>3, <2>1, <2>2, NothingMade
  <2>5. status[active] = "Runnable"
    BY <2>3, ThreadsAreNumbers, RunIs DEF FirstRun, OnlyRoot, All
  <2>6. QED
    BY <1>1, <2>1, <2>2, <2>3, <2>4, <2>5 DEF Replays, Awake, threads
<1>6. CASE EndIteration
  <2>1. /\ phase = "search" /\ branches' = Stepped(branches) /\ phase' \in {"audit", "next"}
        /\ Reset /\ file' = file
    BY <1>6 DEF EndIteration
  <2>2. Run' = FirstRun /\ pos' = 0
    BY <2>1, FirstRunIs DEF Reset
  <2>3. \E R, x : Closed(program, R, x, branches')
    BY <1>2, <2>1, SteppedCloses DEF Replays, Searching
  <2>4. QED
    BY <1>1, <1>3, <2>1, <2>2, <2>3, AtTheBeginning DEF Replays, Awake
<1>7. CASE Crash
  <2>1. branches' = <<>> /\ phase' = "start" /\ Reset /\ file' = file
    BY <1>7 DEF Crash
  <2>2. Run' = FirstRun /\ pos' = 0
    BY <2>1, FirstRunIs DEF Reset
  <2>3. QED
    BY <1>1, <1>3, <2>1, <2>2, NothingReplays DEF Replays, Awake
<1>8. QED
  BY <1>4, <1>5, <1>6, <1>7

-------------------------------------------------------------------------------
(* The accesses a branch point asks about. *)

LEMMA LeqStays ==
  ASSUME NEW a \in Vectors, NEW b \in Vectors, NEW c \in Vectors, Leq(a, b), Before(b, c)
  PROVE  Leq(a, c)
<1> SUFFICES ASSUME NEW t \in Threads, \A u \in 0 .. t - 1 : a[u] = c[u] PROVE a[t] <= c[t]
  BY DEF Leq
<1> DEFINE D == {u \in 0 .. t : a[u] # b[u]}
<1>1. /\ t \in Nat /\ \A u \in 0 .. t : u \in Threads /\ u \in Nat
      /\ \A u \in Threads : a[u] \in Nat /\ b[u] \in Nat /\ c[u] \in Nat
  BY MaxThreadsAssumption DEF Threads, Vectors
<1>2. \A u \in Threads : b[u] <= c[u]
  BY DEF Before
<1>3. CASE D = {}
  <2>1. a[t] = b[t]
    BY <1>1, <1>3
  <2>2. QED
    BY <1>2, <2>1
<1>4. CASE D # {}
  <2> DEFINE m == Min(D)
  <2>1. m \in D /\ \A u \in D : m <= u
    <3>1. D \subseteq Nat
      BY <1>1
    <3>2. QED
      BY <1>4, <3>1, Least
  <2> HIDE DEF m
  <2>2. m \in 0 .. t /\ m \in Threads /\ a[m] # b[m]
    BY <1>1, <2>1
  <2>3. \A u \in 0 .. m - 1 : a[u] = b[u]
    <3> SUFFICES ASSUME NEW u \in 0 .. m - 1, a[u] # b[u] PROVE FALSE
      OBVIOUS
    <3>1. u \in 0 .. t /\ ~(m <= u)
      BY <1>1, <2>2
    <3>2. QED
      BY <2>1, <3>1
  <2>4. a[m] <= b[m]
    BY <2>2, <2>3 DEF Leq
  <2>5. a[m] < c[m]
    BY <1>1, <1>2, <2>2, <2>4
  <2>6. m = t
    <3>1. CASE m \in 0 .. t - 1
      BY <1>1, <2>2, <2>5, <3>1
    <3>2. CASE m \notin 0 .. t - 1
      BY <1>1, <2>2, <3>2
    <3>3. QED
      BY <3>1, <3>2
  <2>7. QED
    BY <1>1, <2>2, <2>5, <2>6
<1>5. QED
  BY <1>3, <1>4

LEMMA LeqStarts ==
  ASSUME NEW a \in Vectors, NEW b \in Vectors
  PROVE  (a[Root] < b[Root] \/ a = b) => Leq(a, b)
<1>1. ASSUME NEW t \in Threads, a[Root] < b[Root], \A u \in 0 .. t - 1 : a[u] = b[u]
      PROVE  a[t] <= b[t]
  <2>1. t \in Nat /\ a[Root] \in Nat /\ b[Root] \in Nat
    BY ThreadsAreNumbers DEF Vectors
  <2>2. CASE t = Root
    BY <1>1, <2>1, <2>2
  <2>3. CASE t # Root
    <3>1. Root \in 0 .. t - 1
      BY <2>1, <2>3 DEF Root
    <3>2. QED
      BY <1>1, <2>1, <3>1
  <2>4. QED
    BY <2>2, <2>3
<1>2. ASSUME a = b PROVE Leq(a, b)
  BY <1>2, ThreadsAreNumbers DEF Leq, Vectors
<1>3. QED
  BY <1>1, <1>2 DEF Leq

\* An access moves its thread on: past the root thread's own count if it is the root
\* thread's, else not.
LEMMA AccessEffect ==
  ASSUME DporTypes, NEW op, op # NoOp, op.obj \in Objects, NEW i \in Nat, NEW t \in Threads,
         Access(op, i, t)
  PROVE  /\ \A u \in Threads : /\ Before(dpor[u], dpor'[u])
                               /\ u # t => dpor'[u] = dpor[u]
         /\ \A o \in Objects, f \in {"load", "store", "any"} :
              \/ last'[o][f] = last[o][f]
              \/ last'[o][f].path = i /\ last'[o][f].dpor = dpor'[t]
         /\ t = Root => dpor[Root][Root] < dpor'[Root][Root]
         /\ t # Root =>
              \/ dpor'[t][Root] = dpor[t][Root]
              \/ \E f \in {"load", "store", "any"} : dpor'[t][Root] = last[op.obj][f].dpor[Root]
<1> DEFINE Fields == {"load", "store", "any"}
           new == [u \in Threads |->
                Max({dpor[t][u]} \cup {last[op.obj][f].dpor[u] : f \in DependsOn(op)})]
<1>1. /\ dpor' = [dpor EXCEPT ![t] = Inc(new, t)]
      /\ last' = [last EXCEPT ![op.obj] = [f \in DOMAIN last[op.obj] |->
            IF f \in Replaces(op) THEN [path |-> i, dpor |-> dpor'[t]] ELSE last[op.obj][f]]]
  BY DEF Access
<1>2. last \in [Objects -> [Fields -> Accesses]] /\ dpor \in [Threads -> Vectors]
  BY DEF DporTypes
<1>3. DependsOn(op) \subseteq Fields
  BY DEF DependsOn
<1>4. ASSUME NEW u \in Threads
      PROVE  /\ new[u] \in Nat /\ dpor[t][u] <= new[u]
             /\ new[u] = dpor[t][u] \/ \E f \in Fields : new[u] = last[op.obj][f].dpor[u]
  <2> DEFINE x == dpor[t][u]
             g(f) == last[op.obj][f].dpor[u]
             S == {x} \cup {g(f) : f \in DependsOn(op)}
             N == x + g("load") + g("store") + g("any")
  <2>1. x \in Nat /\ \A f \in Fields : g(f) \in Nat
    BY <1>2 DEF Accesses, Vectors
  <2>2. new[u] = Max(S)
    OBVIOUS
  <2>3. \A y \in S : y = x \/ \E f \in Fields : y = g(f)
    BY <1>3
  <2>4. x \in S
    OBVIOUS
  <2> HIDE DEF S, x, g, new
  <2>5. N \in Nat /\ x \in 0 .. N /\ \A f \in Fields : g(f) \in 0 .. N
    BY <2>1
  <2> HIDE DEF N
  <2>6. S \subseteq 0 .. N /\ S # {}
    BY <2>3, <2>4, <2>5
  <2>7. Max(S) \in S /\ x <= Max(S)
    BY <2>4, <2>5, <2>6, Greatest
  <2>8. /\ new[u] \in Nat /\ x <= new[u]
        /\ new[u] = x \/ \E f \in Fields : new[u] = g(f)
    BY <2>1, <2>2, <2>3, <2>7
  <2>9. QED
    BY <2>8 DEF x, g
<1>5. new \in Vectors
  BY <1>4 DEF Vectors
<1> HIDE DEF new
<1>6. dpor'[t] = Inc(new, t) /\ Inc(new, t) \in Vectors /\ Before(new, Inc(new, t))
  BY <1>1, <1>2, <1>5, IncIs
<1>7. \A u \in Threads : Inc(new, t)[u] = IF u = t THEN new[u] + 1 ELSE new[u]
  BY <1>5 DEF Inc, Vectors
<1>8. \A u \in Threads : u # t => dpor'[u] = dpor[u]
  BY <1>1, <1>2
<1>9. Before(dpor[t], dpor'[t])
  <2>1. Before(dpor[t], new)
    BY <1>4 DEF Before
  <2>2. QED
    BY <1>2, <1>5, <1>6, <2>1, BeforeOrders
<1>10. \A u \in Threads : Before(dpor[u], dpor'[u])
  BY <1>2, <1>8, <1>9, BeforeOrders
<1>11. \A o \in Objects, f \in Fields :
         \/ last'[o][f] = last[o][f]
         \/ last'[o][f].path = i /\ last'[o][f].dpor = dpor'[t]
  BY <1>1, <1>2
<1>12. Root \in Threads /\ dpor[t][Root] \in Nat /\ new[Root] \in Nat
  BY <1>2, <1>5, ThreadsAreNumbers DEF Vectors
<1>13. t = Root => dpor[Root][Root] < dpor'[Root][Root]
  BY <1>4, <1>6, <1>7, <1>12
<1>14. t # Root =>
         \/ dpor'[t][Root] = dpor[t][Root]
         \/ \E f \in Fields : dpor'[t][Root] = last[op.obj][f].dpor[Root]
  BY <1>4, <1>6, <1>7, <1>12
<1>15. QED
  BY <1>8, <1>10, <1>11, <1>13, <1>14

\* A thread other than the root thread spawns none.
RootSpawns == \A t \in Threads \ {Root} : ~Uses(t, {"spawn"})

\* The last accesses were made at schedules of this iteration, and a thread that is not
\* in the schedule knows of the access.
Lasting ==
  \A o \in Objects, f \in {"load", "store", "any"} :
    LET l == last[o][f] IN
    l.path # 0 =>
      /\ l.path \in 1 .. pos /\ branches[l.path].kind = "Schedule"
      /\ RootSpawns =>
           \A t \in Created : t \in DOMAIN branches[l.path].threads \/ Leq(l.dpor, dpor[t])

\* No thread counts more of the root thread's accesses than it does, and while it runs its
\* vector is the greatest: the counters are compared from its own on.
Rooted ==
  /\ \A t \in Threads : dpor[t][Root] <= dpor[Root][Root]
  /\ \A o \in Objects, f \in {"load", "store", "any"} :
       last[o][f].dpor[Root] <= dpor[Root][Root]
  /\ active = Root /\ stage[Root] # "parked" =>
       \A o \in Objects, f \in {"load", "store", "any"} : Leq(last[o][f].dpor, dpor[Root])
  /\ active # Root /\ status[Root] = "Runnable" /\ stage[Root] # "parked" =>
       operation[Root] # NoOp

\* What a branch point does.
LEMMA BranchIs ==
  ASSUME Conditions, NEW t \in Threads, Branches(t), phase' # "panicked"
  PROVE  \E st, op, where :
           LET ops == [operation EXCEPT ![t] = op]  states == [status EXCEPT ![t] = st] IN
           /\ Asking(t, st, op, where) /\ Schedule(states, ops)
           /\ status' = states /\ operation' = ops /\ stage' = [stage EXCEPT ![t] = where]
           /\ Switched(program, Run, None).status = states
           /\ UNCHANGED <<program, file>>
<1>1. PICK st, op, where : Turns(t, st, op, where) /\ Asking(t, st, op, where)
  BY BranchesTurn
<1>2. active = t /\ t # None /\ Run.active = t
  BY BranchesTurn, RunIs
<1> DEFINE ops == [operation EXCEPT ![t] = op]
           states == [status EXCEPT ![t] = st]
<1>3. /\ Schedule(states, ops) /\ UNCHANGED process
      /\ Run' = Turned(Run, st, op, where, Mem', active')
  <2>1. Branch(t, st, op, where) /\ phase = "search"
    BY <1>1, ConditionsAre DEF Turns
  <2>2. ~Panic
    BY DEF Panic
  <2>3. QED
    BY <1>2, <2>1, <2>2, BranchTurns
<1>4. status' = states /\ operation' = ops /\ stage' = [stage EXCEPT ![t] = where]
  BY <1>2, <1>3, RunIs DEF Turned, Run
<1>5. Switched(program, Run, None).status = states
  BY <1>1, <1>2, RunIs DEF Turns, Turned
<1>6. UNCHANGED <<program, file>>
  BY <1>3 DEF process
<1>7. QED
  BY <1>1, <1>3, <1>4, <1>5, <1>6

\* Backtracking, and going on, leave each schedule the threads it is about.
LEMMA BacktrackStays ==
  ASSUME branches \in Paths, NEW ops, NEW i \in DOMAIN branches, branches[i].kind = "Schedule"
  PROVE  /\ Backtrack(ops)[i].kind = "Schedule"
         /\ DOMAIN Backtrack(ops)[i].threads = DOMAIN branches[i].threads
<1> DEFINE th == branches[i].threads
           new == Backtracked(th, [t \in DOMAIN th |-> Asked(ops, i, t)])
<1>1. branches[i] = [kind |-> "Schedule", threads |-> th] /\ th \in [DOMAIN th -> Marks]
  BY PathIs, Kinds
<1>2. Backtrack(ops)[i] = [branches[i] EXCEPT !.threads = new]
  BY <1>1 DEF Backtrack
<1>3. new \in [DOMAIN th -> Marks]
  BY <1>1, BacktrackedIs
<1> HIDE DEF th, new
<1>4. Backtrack(ops)[i].kind = "Schedule" /\ Backtrack(ops)[i].threads = new
  BY <1>1, <1>2
<1>5. QED
  BY <1>3, <1>4 DEF th

LEMMA BranchedStays ==
  ASSUME NEW S, NEW bs \in Seq(S), NEW n, NEW seed \in S
  PROVE  \A i \in 1 .. Len(bs) : Branched(bs, n, seed)[i] = bs[i]
BY AppendProperties DEF Branched

\* A branch point, for the accesses.  Some thread is chosen at it, or none.
LEMMA ScheduleAccesses ==
  ASSUME Conditions, NEW st, NEW ops, Schedule(st, ops), active' \in Threads \cup {None},
         \A t \in Threads : ops[t] = NoOp \/ ops[t].obj \in Objects
  PROVE  \/ UNCHANGED <<dpor, last>> /\ (active' = None \/ ops[active'] = NoOp)
         \/ /\ active' \in Threads /\ ops[active'] # NoOp
            /\ ops[active'].obj \in Objects /\ pos' \in Nat
            /\ Access(ops[active'], pos', active')
<1>1. pos' = pos + 1 /\ pos \in Nat
  BY ConditionsAre DEF Schedule
<1>2. CASE active' = None
  BY <1>2 DEF Schedule
<1>3. CASE active' # None
  <2>1. Access(ops[active'], pos', active') /\ active' \in Threads
    BY <1>3 DEF Schedule
  <2>2. CASE ops[active'] = NoOp
    <3>1. UNCHANGED <<dpor, last>>
      BY <2>1, <2>2 DEF Access
    <3>2. QED
      BY <2>2, <3>1
  <2>3. CASE ops[active'] # NoOp
    BY <1>1, <2>1, <2>3
  <2>4. QED
    BY <2>2, <2>3
<1>4. QED
  BY <1>2, <1>3

LEMMA AskedObjects ==
  ASSUME Conditions, NEW t \in Threads, NEW st, NEW op, NEW where, Asking(t, st, op, where)
  PROVE  /\ \A u \in Threads : LET o == [operation EXCEPT ![t] = op][u] IN
                               o = NoOp \/ (o # NoOp /\ o.kind \in Branching /\ o.obj \in Objects)
         /\ op # NoOp => st \in {"Runnable", "Blocked"}
         /\ st = "Runnable" => op # NoOp
         /\ st \in {"Runnable", "Blocked", "Terminated"}
<1>1. \A o : Fits(o) /\ o.kind \in Branching => o.obj \in Objects /\ o # NoOp
  BY DEF Fits, Branching, Objects, NoOp
<1>2. ASSUME NEW u \in Threads
      PROVE  operation[u] = NoOp
             \/ (operation[u] # NoOp /\ operation[u].kind \in Branching /\ operation[u].obj \in Objects)
  <2>1. operation[u] = NoOp \/ (operation[u] \in ToSet(program[u]) /\ operation[u].kind \in Branching)
    BY ConditionsAre DEF ThreadTypes
  <2>2. program \in Programs
    BY ConditionsAre DEF IInv
  <2>3. QED
    BY <1>1, <2>1, <2>2, ProgramsAssumption
<1>3. op = NoOp \/ (op # NoOp /\ op.kind \in Branching /\ op.obj \in Objects)
  <2>1. CASE op = NoOp
    BY <2>1
  <2>2. CASE op # NoOp
    <3>1. ~AtEnd(t) /\ op = Op(t) /\ op.kind \in Branching
      BY <2>2 DEF Asking
    <3>2. Fits(op)
      BY <3>1, ConditionsAre, OperationIs
    <3>3. QED
      BY <1>1, <3>1, <3>2
  <2>3. QED
    BY <2>1, <2>2
<1>4. /\ op # NoOp => st \in {"Runnable", "Blocked"}
      /\ st = "Runnable" => op # NoOp
      /\ st \in {"Runnable", "Blocked", "Terminated"}
  <2>1. \A o : o.kind \in Branching => o # NoOp
    BY DEF Branching, NoOp
  <2>2. QED
    BY <2>1 DEF Asking
<1>5. DOMAIN operation = Threads
  BY ConditionsAre DEF ThreadTypes
<1>6. QED
  BY <1>2, <1>3, <1>4, <1>5

LEMMA BranchLasts ==
  ASSUME Conditions, Lasting, NEW t \in Threads, Branches(t), phase' # "panicked"
  PROVE  Lasting'
<1>1. PICK st, op, where :
        LET ops == [operation EXCEPT ![t] = op]  states == [status EXCEPT ![t] = st] IN
        /\ Asking(t, st, op, where) /\ Schedule(states, ops)
        /\ status' = states /\ Switched(program, Run, None).status = states
        /\ UNCHANGED <<program, file>>
  BY BranchIs
<1> DEFINE ops == [operation EXCEPT ![t] = op]
           states == [status EXCEPT ![t] = st]
<1>2. /\ Deciding(program, Run) /\ Suits(program, Run, branches'[pos'])
      /\ pos' = pos + 1 /\ branches' \in Paths /\ pos' \in DOMAIN branches'
  BY BranchReplays
<1>3. active = t /\ t # None
  BY BranchesTurn
<1>4. /\ st \in {"Runnable", "Blocked", "Terminated"}
      /\ \A u \in Threads : ops[u] = NoOp \/ ops[u].obj \in Objects
  BY <1>1, AskedObjects
<1>5. Created' = Created
  <2>1. t \in Created
    BY <1>3, ConditionsAre DEF Spawned
  <2>2. QED
    BY <1>1, <1>4, <2>1, ConditionsAre DEF Created, ThreadTypes
<1>6. /\ branches'[pos'].kind = "Schedule" /\ DOMAIN branches'[pos'].threads = Created'
  BY <1>1, <1>2 DEF Suits, Created
<1>7. ASSUME NEW i \in 1 .. pos, branches[i].kind = "Schedule"
      PROVE  branches'[i].kind = "Schedule"
             /\ DOMAIN branches'[i].threads = DOMAIN branches[i].threads
  <2>1. i \in DOMAIN branches
    BY ConditionsAre
  <2>2. /\ Backtrack(ops)[i].kind = "Schedule"
        /\ DOMAIN Backtrack(ops)[i].threads = DOMAIN branches[i].threads
    BY <1>7, <2>1, ConditionsAre, BacktrackStays
  <2>3. branches' = Branched(Backtrack(ops), pos, Seed(states))
    BY <1>1 DEF Schedule
  <2>4. Backtrack(ops) \in Seq(Schedules \cup Reads) /\ Len(Backtrack(ops)) = Len(branches)
    BY ConditionsAre, BacktrackIs DEF Paths
  <2>5. Seed(states) \in Schedules \cup Reads
    BY ConditionsAre, SeedIs DEF Spawned
  <2>6. branches'[i] = Backtrack(ops)[i]
    BY <2>1, <2>3, <2>4, <2>5, ConditionsAre, BranchedStays
  <2>7. QED
    BY <2>2, <2>6
<1>8. active' \in Threads \cup {None}
  <2>1. active' = Chosen(branches'[pos'])
    BY <1>1 DEF Schedule
  <2>2. QED
    BY <1>2, <1>6, <2>1, PathIs, ChosenStands
<1> HIDE DEF ops, states
<1>9. /\ \A u \in Threads : Before(dpor[u], dpor'[u])
      /\ \A o \in Objects, f \in {"load", "store", "any"} :
           last'[o][f] = last[o][f] \/ last'[o][f].path = pos'
  <2>1. CASE UNCHANGED <<dpor, last>>
    BY <2>1, ConditionsAre, BeforeOrders DEF DporTypes
  <2>2. CASE /\ active' \in Threads /\ ops[active'] # NoOp
             /\ ops[active'].obj \in Objects /\ pos' \in Nat
             /\ Access(ops[active'], pos', active')
    BY <2>2, ConditionsAre, AccessEffect
  <2>3. QED
    BY <1>1, <1>4, <1>8, <2>1, <2>2, ScheduleAccesses DEF ops, states
<1>10. DporTypes'
  <2>1. CASE UNCHANGED <<dpor, last>>
    BY <2>1, ConditionsAre DEF DporTypes
  <2>2. CASE /\ active' \in Threads /\ ops[active'] # NoOp
             /\ ops[active'].obj \in Objects /\ pos' \in Nat
             /\ Access(ops[active'], pos', active')
    BY <2>2, ConditionsAre, AccessTypes
  <2>3. QED
    BY <1>1, <1>4, <1>8, <2>1, <2>2, ScheduleAccesses DEF ops, states
<1>11. RootSpawns' <=> RootSpawns
  BY <1>1 DEF RootSpawns, Uses
<1>12. ASSUME NEW o \in Objects, NEW f \in {"load", "store", "any"}, last'[o][f].path # 0
       PROVE  /\ last'[o][f].path \in 1 .. pos'
              /\ branches'[last'[o][f].path].kind = "Schedule"
              /\ RootSpawns =>
                   \A u \in Created' : \/ u \in DOMAIN branches'[last'[o][f].path].threads
                                       \/ Leq(last'[o][f].dpor, dpor'[u])
  <2>1. CASE last'[o][f].path = pos'
    <3>1. pos' \in 1 .. pos'
      BY <1>2, ConditionsAre
    <3>2. QED
      BY <1>6, <2>1, <3>1
  <2>2. CASE last'[o][f] = last[o][f]
    <3> DEFINE l == last[o][f]
    <3>1. /\ l.path \in 1 .. pos /\ branches[l.path].kind = "Schedule"
          /\ RootSpawns =>
               \A u \in Created : u \in DOMAIN branches[l.path].threads \/ Leq(l.dpor, dpor[u])
      BY <1>12, <2>2 DEF Lasting
    <3>2. /\ branches'[l.path].kind = "Schedule"
          /\ DOMAIN branches'[l.path].threads = DOMAIN branches[l.path].threads
      BY <1>7, <3>1
    <3>3. l.dpor \in Vectors
      BY ConditionsAre DEF DporTypes, Accesses
    <3>4. ASSUME NEW u \in Created, Leq(l.dpor, dpor[u]) PROVE Leq(l.dpor, dpor'[u])
      <4>1. u \in Threads /\ dpor[u] \in Vectors /\ dpor'[u] \in Vectors
        BY <1>10, ConditionsAre DEF DporTypes, Created
      <4>2. QED
        BY <1>9, <3>3, <3>4, <4>1, LeqStays
    <3>5. l.path \in 1 .. pos'
      BY <1>2, <3>1, ConditionsAre
    <3> HIDE DEF l
    <3>6. last'[o][f] = l
      BY <2>2 DEF l
    <3>7. QED
      BY <1>5, <3>1, <3>2, <3>4, <3>5, <3>6
  <2>3. QED
    BY <1>9, <2>1, <2>2
<1>13. QED
  BY <1>11, <1>12 DEF Lasting

LEMMA BranchRoots ==
  ASSUME Conditions, Rooted, NEW t \in Threads, Branches(t), phase' # "panicked"
  PROVE  Rooted'
<1> DEFINE Fields == {"load", "store", "any"}
<1>1. PICK st, op, where :
        LET ops == [operation EXCEPT ![t] = op]  states == [status EXCEPT ![t] = st] IN
        /\ Asking(t, st, op, where) /\ Schedule(states, ops)
        /\ status' = states /\ operation' = ops /\ stage' = [stage EXCEPT ![t] = where]
        /\ Switched(program, Run, None).status = states
        /\ UNCHANGED <<program, file>>
  BY BranchIs
<1> DEFINE ops == [operation EXCEPT ![t] = op]
           states == [status EXCEPT ![t] = st]
<1>2. /\ Deciding(program, Run) /\ Suits(program, Run, branches'[pos'])
      /\ pos' = pos + 1 /\ branches' \in Paths /\ pos' \in DOMAIN branches' /\ Awake'
  BY BranchReplays
<1>3. active = t /\ t # None
  BY BranchesTurn
<1>4. /\ st = "Runnable" => op # NoOp
      /\ \A u \in Threads : ops[u] = NoOp \/ ops[u].obj \in Objects
  BY <1>1, AskedObjects
<1>5. active' \in Threads \cup {None} /\ active' = Chosen(branches'[pos'])
  <2>1. active' = Chosen(branches'[pos'])
    BY <1>1 DEF Schedule
  <2>2. branches'[pos'].kind = "Schedule"
    BY <1>2 DEF Suits
  <2>3. QED
    BY <1>2, <2>1, <2>2, PathIs, ChosenStands
<1>6. /\ Root \in Threads /\ Root # None
      /\ \A u \in Threads : dpor[u][Root] \in Nat
      /\ \A o \in Objects, f \in Fields : last[o][f].dpor[Root] \in Nat
  <2>1. Root \in Threads /\ Root # None
    BY NoneAssumption, ThreadsAreNumbers
  <2>2. DporTypes
    BY ConditionsAre
  <2>3. QED
    BY <2>1, <2>2 DEF DporTypes, Accesses, Vectors
\* The root thread has an operation as soon as it waits for its turn.
<1>7. status'[Root] = "Runnable" /\ stage'[Root] # "parked" => ops[Root] # NoOp
  <2> SUFFICES ASSUME status'[Root] = "Runnable", stage'[Root] # "parked" PROVE ops[Root] # NoOp
    OBVIOUS
  <2>1. CASE t = Root
    <3>1. status'[Root] = st
      BY <1>1, <2>1, ConditionsAre DEF ThreadTypes
    <3>2. ops[Root] = op
      BY <2>1, ConditionsAre DEF ThreadTypes
    <3>3. QED
      BY <1>4, <3>1, <3>2
  <2>2. CASE t # Root
    BY <1>1, <1>3, <1>6, <2>2 DEF Rooted
  <2>3. QED
    BY <2>1, <2>2
<1> HIDE DEF ops, states
<1>8. DporTypes'
  <2>1. CASE UNCHANGED <<dpor, last>>
    BY <2>1, ConditionsAre DEF DporTypes
  <2>2. CASE /\ active' \in Threads /\ ops[active'] # NoOp
             /\ ops[active'].obj \in Objects /\ pos' \in Nat
             /\ Access(ops[active'], pos', active')
    BY <2>2, ConditionsAre, AccessTypes
  <2>3. QED
    BY <1>1, <1>4, <1>5, <2>1, <2>2, ScheduleAccesses DEF ops, states
<1>9. active' # Root /\ status'[Root] = "Runnable" /\ stage'[Root] # "parked" => operation'[Root] # NoOp
  BY <1>1, <1>7 DEF ops
<1>10. CASE UNCHANGED <<dpor, last>> /\ (active' = None \/ ops[active'] = NoOp)
  <2>1. ~(active' = Root /\ stage'[Root] # "parked")
    <3> SUFFICES ASSUME active' = Root, stage'[Root] # "parked" PROVE FALSE
      OBVIOUS
    <3>1. status'[Root] = "Runnable"
      <4>1. phase' = "search" \/ active' = None
        BY <1>1, ConditionsAre DEF Schedule
      <4>2. QED
        BY <1>2, <1>6, <4>1 DEF Awake
    <3>2. QED
      BY <1>6, <1>7, <1>10, <3>1
  <2>2. QED
    BY <1>9, <1>10, <2>1 DEF Rooted
<1>11. CASE /\ active' \in Threads /\ ops[active'] # NoOp
            /\ ops[active'].obj \in Objects /\ pos' \in Nat
            /\ Access(ops[active'], pos', active')
  <2> DEFINE a == active'
             obj == ops[a].obj
  <2>1. /\ \A u \in Threads : u # a => dpor'[u] = dpor[u]
        /\ \A o \in Objects, f \in Fields :
             last'[o][f] = last[o][f] \/ last'[o][f].dpor = dpor'[a]
        /\ a = Root => dpor[Root][Root] < dpor'[Root][Root]
        /\ a # Root => \/ dpor'[a][Root] = dpor[a][Root]
                       \/ \E f \in Fields : dpor'[a][Root] = last[obj][f].dpor[Root]
    BY <1>11, ConditionsAre, AccessEffect
  <2>2. a \in Threads /\ obj \in Objects
    BY <1>11
  <2>3. /\ \A u \in Threads : dpor'[u] \in Vectors /\ dpor'[u][Root] \in Nat
        /\ \A o \in Objects, f \in Fields : last'[o][f].dpor \in Vectors
    BY <1>6, <1>8 DEF DporTypes, Accesses, Vectors
  <2> HIDE DEF a, obj
  <2>4. /\ \A u \in Threads : dpor[u][Root] <= dpor[Root][Root]
        /\ \A o \in Objects, f \in Fields : last[o][f].dpor[Root] <= dpor[Root][Root]
    BY DEF Rooted
  <2>5. dpor[Root][Root] <= dpor'[Root][Root]
    BY <1>6, <2>1, <2>3
  <2>6. dpor'[a][Root] <= dpor'[Root][Root]
    <3>1. CASE a = Root
      BY <1>6, <2>3, <3>1
    <3>2. CASE a # Root
      BY <1>6, <2>1, <2>2, <2>3, <2>4, <3>2
    <3>3. QED
      BY <3>1, <3>2
  <2>7. \A u \in Threads : dpor'[u][Root] <= dpor'[Root][Root]
    BY <1>6, <2>1, <2>3, <2>4, <2>5, <2>6
  <2>8. \A o \in Objects, f \in Fields : last'[o][f].dpor[Root] <= dpor'[Root][Root]
    BY <1>6, <2>1, <2>3, <2>4, <2>5, <2>6
  <2>9. ASSUME a = Root, NEW o \in Objects, NEW f \in Fields
        PROVE  Leq(last'[o][f].dpor, dpor'[Root])
    <3>1. CASE last'[o][f] = last[o][f]
      <4>1. last'[o][f].dpor[Root] < dpor'[Root][Root]
        BY <1>6, <2>1, <2>3, <2>4, <2>9, <3>1
      <4>2. QED
        BY <1>6, <2>3, <4>1, LeqStarts
    <3>2. CASE last'[o][f].dpor = dpor'[a]
      BY <1>6, <2>3, <2>9, <3>2, LeqStarts
    <3>3. QED
      BY <2>1, <3>1, <3>2
  <2>10. QED
    BY <1>9, <2>7, <2>8, <2>9 DEF Rooted, a
<1>12. QED
  BY <1>1, <1>4, <1>5, <1>10, <1>11, ScheduleAccesses DEF ops, states

\* It is prepared for what is asked of it when only the root thread spawns.
LEMMA BranchPrepared ==
  ASSUME Conditions, Lasting, RootSpawns, NEW t \in Threads, Branches(t)
  PROVE  phase' # "panicked"
<1> SUFFICES ASSUME phase' = "panicked" PROVE FALSE
  OBVIOUS
<1>1. PICK st, op, where : Turns(t, st, op, where) /\ Asking(t, st, op, where)
  BY BranchesTurn
<1>2. active = t /\ t # None /\ Deciding(program, Run) /\ Run.active = t
  BY BranchesTurn, RunIs
<1> DEFINE ops == [operation EXCEPT ![t] = op]
           states == [status EXCEPT ![t] = st]
<1>3. /\ st \in {"Runnable", "Blocked", "Terminated"}
      /\ \A u \in Threads : ops[u] = NoOp \/ ops[u].obj \in Objects
  BY <1>1, AskedObjects
<1>4. Unprepared(ops)
  <2>1. Branch(t, st, op, where) /\ phase = "search"
    BY <1>1, ConditionsAre DEF Turns
  <2>2. CASE ~Unprepared(ops)
    <3>1. Schedule(states, ops)
      BY <1>2, <2>1, <2>2, BranchTurns
    <3>2. phase' \in {"search", "refuted", "failed"}
      BY <2>1, <3>1 DEF Schedule, Nobody
    <3>3. QED
      BY <3>2
  <2>3. QED
    BY <2>2
<1>5. t \in Created
  BY <1>2, ConditionsAre DEF Spawned
<1>6. ASSUME NEW i \in DOMAIN branches, NEW u \in Threads, Asked(ops, i, u) > 0
      PROVE  branches[i].kind = "Schedule" /\ u \in DOMAIN branches[i].threads
  <2> DEFINE fs == {f \in DependsOn(ops[u]) :
                      LET access == last[ops[u].obj][f] IN
                      access.path = i /\ ~Leq(access.dpor, dpor[u])}
  <2>1. PICK f \in fs : TRUE
    <3>1. Cardinality(fs) > 0
      BY <1>6 DEF Asked
    <3>2. fs # {}
      <4>1. Cardinality({}) = 0
        BY FS_EmptySet
      <4> HIDE DEF fs
      <4>2. QED
        BY <3>1, <4>1
    <3>3. QED
      BY <3>2
  <2>2. ops[u] # NoOp /\ f \in {"load", "store", "any"}
    BY <2>1 DEF DependsOn, NoOp
  <2>3. ops[u].obj \in Objects
    BY <1>3, <2>2
  <2>4. u \in Created
    <3>1. CASE u = t
      BY <1>5, <3>1
    <3>2. CASE u # t
      BY <2>2, <3>2, ConditionsAre DEF Spawned
    <3>3. QED
      BY <3>1, <3>2
  <2>5. i # 0
    BY ConditionsAre
  <2> DEFINE l == last[ops[u].obj][f]
  <2>6. l.path = i /\ ~Leq(l.dpor, dpor[u])
    BY <2>1
  <2>7. QED
    BY <2>2, <2>3, <2>4, <2>5, <2>6 DEF Lasting
<1>7. ASSUME pos < Len(branches)
      PROVE  branches[pos + 1].kind = "Schedule" /\ Chosen(branches[pos + 1]) \in Created \cup {None}
  <2>1. PICK Q, e : Closed(program, Q, e, branches) /\ Point(Run, pos) \in Q
    BY ConditionsAre
  <2>2. e.pos = Len(branches) /\ Point(Run, pos).pos = pos /\ Point(Run, pos).run = Run
    BY <2>1, PointIs DEF Closed
  <2>3. Point(Run, pos) # e
    BY <1>7, <2>2, ConditionsAre
  <2>4. Suits(program, Run, branches[pos + 1])
    BY <1>2, <2>1, <2>2, <2>3 DEF Closed, Meets
  <2>5. branches[pos + 1].kind = "Schedule"
    BY <1>2, <2>4 DEF Suits
  <2>6. branches[pos + 1] \in Schedules
    <3>1. pos + 1 \in DOMAIN branches
      BY <1>7, ConditionsAre
    <3>2. QED
      BY <2>5, <3>1, ConditionsAre, PathIs, Kinds
  <2>7. Switched(program, Run, None).status = states
    BY <1>1, <1>2, RunIs DEF Turns, Turned
  <2>8. CASE Chosen(branches[pos + 1]) # None
    <3> DEFINE c == Chosen(branches[pos + 1])
    <3>1. c \in Threads /\ states[c] = "Runnable"
      BY <1>2, <2>4, <2>6, <2>7, <2>8, ChosenAwake
    <3> HIDE DEF c
    <3>2. c = t \/ states[c] = status[c]
      OBVIOUS
    <3>3. c \in Created
      BY <1>5, <3>1, <3>2 DEF Created
    <3>4. QED
      BY <2>5, <3>3 DEF c
  <2>9. QED
    BY <2>5, <2>8
<1> HIDE DEF ops
<1>8. \A i \in DOMAIN branches, u \in Threads :
        Asked(ops, i, u) > 0 =>
          branches[i].kind = "Schedule" /\ u \in DOMAIN branches[i].threads
  BY <1>6
<1>9. QED
  BY <1>4, <1>7, <1>8 DEF Unprepared

\* Between branch points.
LEMMA UndecidedEffect ==
  ASSUME Conditions, NEW t \in Threads, Undecided(t), phase' = "search"
  PROVE  \/ /\ UNCHANGED <<dpor, last>> /\ Created' = Created
            /\ \/ status'[Root] = status[Root] \/ status'[Root] = "Blocked"
               \/ operation[Root] # NoOp \/ stage[Root] = "parked"
         \/ /\ At(t, "spawn", "client") /\ last' = last
            /\ dpor' = [dpor EXCEPT ![Cardinality(Created)] = Join(@, dpor[t])]
            /\ status' = [status EXCEPT ![Cardinality(Created)] = "Runnable"]
<1>1. CASE StoreEnds(t) \/ RmwEnds(t) \/ CasEnds(t) \/ JoinEnds(t) \/ CellAccess(t)
  <2>1. UNCHANGED <<status, search>>
    BY <1>1 DEF StoreEnds, RmwEnds, CasEnds, JoinEnds, CellAccess, threads
  <2>2. QED
    BY <2>1 DEF search, Created
<1>2. ASSUME NEW st \in {"Runnable", "Blocked"}, status' = Contenders(t, st), UNCHANGED search
      PROVE  /\ UNCHANGED <<dpor, last>> /\ Created' = Created
             /\ status'[Root] = status[Root] \/ operation[Root] # NoOp
  <2>1. Created' = Created
    BY <1>2, ConditionsAre, ContendersAre
  <2>2. status'[Root] = status[Root] \/ operation[Root] # NoOp
    BY <1>2, ThreadsAreNumbers DEF Contenders
  <2>3. QED
    BY <1>2, <2>1, <2>2 DEF search
<1>3. CASE LockEnds(t)
  BY <1>2, <1>3 DEF LockEnds
<1>4. CASE UnlockEnds(t)
  BY <1>2, <1>4 DEF UnlockEnds
<1>5. CASE SendEnds(t)
  <2> DEFINE rx == {u \in Threads : stage[u] = "parked" /\ Op(u).obj = t}
  <2>1. /\ UNCHANGED search
        /\ IF rx = {} THEN UNCHANGED <<memory, status>>
           ELSE Hand(t, Min(rx)) /\ status' = [status EXCEPT ![Min(rx)] = "Runnable"]
    BY <1>5 DEF SendEnds
  <2>2. CASE rx = {}
    BY <2>1, <2>2 DEF search, Created
  <2>3. CASE rx # {}
    <3>1. Min(rx) \in rx
      <4>1. rx \subseteq Nat
        BY ThreadsAreNumbers
      <4>2. QED
        BY <2>3, <4>1, Least
    <3> DEFINE u == Min(rx)
    <3>2. u \in Threads /\ stage[u] = "parked"
      BY <3>1
    <3>3. status' = [status EXCEPT ![u] = "Runnable"]
      BY <2>1, <2>3
    <3> HIDE DEF u, rx
    <3>4. u \in Created
      BY <3>2, ConditionsAre DEF Spawned
    <3>5. Created' = Created
      BY <3>3, <3>4, ConditionsAre DEF Created, ThreadTypes
    <3>6. status'[Root] = status[Root] \/ stage[Root] = "parked"
      BY <3>2, <3>3
    <3>7. QED
      BY <2>1, <3>5, <3>6 DEF search
  <2>4. QED
    BY <2>2, <2>3
<1>6. CASE SpawnEnds(t)
  BY <1>6 DEF SpawnEnds
<1>7. QED
  BY <1>1, <1>3, <1>4, <1>5, <1>6 DEF Undecided

LEMMA UndecidedRoots ==
  ASSUME Conditions, Lasting, Rooted, NEW t \in Threads, Undecided(t), phase' = "search"
  PROVE  Lasting' /\ Rooted'
<1> DEFINE Fields == {"load", "store", "any"}
           n == Cardinality(Created)
<1>1. /\ active = t /\ UNCHANGED <<branches, pos, program, active, operation>>
      /\ stage' = [stage EXCEPT ![t] = "client"] /\ stage[t] # "parked"
  BY QuietIs, ConditionsAre
<1>2. /\ Root \in Threads /\ Root = 0 /\ stage \in [Threads -> {"client", "branched", "parked"}]
      /\ status \in [Threads -> {"Absent", "Runnable", "Blocked", "Terminated"}]
      /\ dpor \in [Threads -> Vectors]
      /\ \A u \in Threads : dpor[u] \in Vectors /\ dpor[u][Root] \in Nat
      /\ \A o \in Objects, f \in Fields : last[o][f].dpor \in Vectors
  <2>1. stage \in [Threads -> {"client", "branched", "parked"}]
        /\ status \in [Threads -> {"Absent", "Runnable", "Blocked", "Terminated"}]
    BY ConditionsAre DEF ThreadTypes
  <2>2. /\ dpor \in [Threads -> Vectors]
        /\ last \in [Objects -> [Fields -> Accesses]]
    BY ConditionsAre DEF DporTypes
  <2>3. Root \in Threads /\ Root = 0
    BY ThreadsAreNumbers DEF Root
  <2>4. \A u \in Threads : dpor[u] \in Vectors /\ dpor[u][Root] \in Nat
    BY <2>2, <2>3 DEF Vectors
  <2>5. \A o \in Objects, f \in Fields : last[o][f].dpor \in Vectors
    BY <2>2 DEF Accesses
  <2>6. QED
    BY <2>1, <2>2, <2>3, <2>4, <2>5
<1>3. RootSpawns' <=> RootSpawns
  BY <1>1 DEF RootSpawns, Uses
<1>4. active # Root => stage'[Root] = stage[Root]
  BY <1>1, <1>2
<1>5. CASE /\ UNCHANGED <<dpor, last>> /\ Created' = Created
           /\ \/ status'[Root] = status[Root] \/ status'[Root] = "Blocked"
              \/ operation[Root] # NoOp \/ stage[Root] = "parked"
  <2>1. Lasting'
    BY <1>1, <1>3, <1>5 DEF Lasting
  <2>2. active' # Root /\ status'[Root] = "Runnable" /\ stage'[Root] # "parked" => operation'[Root] # NoOp
    BY <1>1, <1>4, <1>5 DEF Rooted
  <2>3. active' = Root /\ stage'[Root] # "parked" =>
          \A o \in Objects, f \in Fields : Leq(last'[o][f].dpor, dpor'[Root])
    BY <1>1, <1>5 DEF Rooted
  <2>4. Rooted'
    BY <1>5, <2>2, <2>3 DEF Rooted
  <2>5. QED
    BY <2>1, <2>4
<1>6. CASE /\ At(t, "spawn", "client") /\ last' = last
           /\ dpor' = [dpor EXCEPT ![n] = Join(@, dpor[t])]
           /\ status' = [status EXCEPT ![n] = "Runnable"]
  <2>1. n # Root
    <3>1. PICK m \in Threads : Created = 0 .. m
      BY ConditionsAre DEF Spawned
    <3>2. m \in Nat
      BY ThreadsAreNumbers
    <3>3. n = m + 1
      <4>1. Cardinality(0 .. m) = IF 0 > m THEN 0 ELSE m - 0 + 1
        BY <3>2, FS_Interval
      <4>2. QED
        BY <3>1, <3>2, <4>1
    <3> HIDE DEF n
    <3>4. QED
      BY <1>2, <3>2, <3>3
  <2> HIDE DEF n
  <2>2. \A u \in Threads : dpor'[u] = IF u = n THEN Join(dpor[u], dpor[t]) ELSE dpor[u]
    BY <1>2, <1>6
  <2>3. \A u \in Threads : dpor'[u] \in Vectors /\ Before(dpor[u], dpor'[u])
    BY <1>2, <2>2, JoinIs, BeforeOrders
  <2>4. n \in Threads => Before(dpor[t], dpor'[n])
    BY <1>2, <2>2, JoinIs
  <2>5. \A u \in Created' : u \in Threads /\ (u \in Created \/ u = n)
    BY <1>2, <1>6 DEF Created
  <2>6. dpor'[Root] = dpor[Root] /\ status'[Root] = status[Root]
    BY <1>2, <1>6, <2>1, <2>2
  <2>7. Rooted'
    <3>1. \A u \in Threads : dpor'[u][Root] <= dpor'[Root][Root]
      <4>1. \A u \in Threads : dpor'[u][Root] \in {dpor[u][Root], dpor[t][Root]}
        BY <1>2, <2>2 DEF Join
      <4>2. QED
        BY <2>6, <4>1 DEF Rooted
    <3>2. \A o \in Objects, f \in Fields : last'[o][f].dpor[Root] <= dpor'[Root][Root]
      BY <1>6, <2>6 DEF Rooted
    <3>3. active' = Root /\ stage'[Root] # "parked" =>
            \A o \in Objects, f \in Fields : Leq(last'[o][f].dpor, dpor'[Root])
      BY <1>1, <1>6, <2>6 DEF Rooted
    <3>4. active' # Root /\ status'[Root] = "Runnable" /\ stage'[Root] # "parked" => operation'[Root] # NoOp
      BY <1>1, <1>4, <2>6 DEF Rooted
    <3>5. QED
      BY <3>1, <3>2, <3>3, <3>4 DEF Rooted
  <2>8. RootSpawns => t = Root
    <3>1. ~AtEnd(t) /\ Op(t).kind = "spawn"
      BY <1>6, Here
    <3>2. Len(program[t]) \in Nat /\ pc[t] \in 1 .. Len(program[t])
      BY <3>1, ConditionsAre, OperationIs
    <3>3. program \in Programs
      BY ConditionsAre DEF IInv
    <3>4. pc[t] \in DOMAIN program[t]
      <4>1. program[t] \in Seq(ToSet(program[t]))
        BY <3>3, ProgramsAssumption
      <4>2. QED
        BY <3>2, <4>1, LenProperties
    <3>5. Uses(t, {"spawn"})
      BY <3>1, <3>4 DEF Uses, Op
    <3>6. QED
      BY <3>5 DEF RootSpawns
  <2>9. stage[t] = "client"
    BY <1>6, Here, RunIs DEF Where
  <2>10. ASSUME NEW o \in Objects, NEW f \in Fields, last'[o][f].path # 0
         PROVE  /\ last'[o][f].path \in 1 .. pos'
                /\ branches'[last'[o][f].path].kind = "Schedule"
                /\ RootSpawns =>
                     \A u \in Created' : \/ u \in DOMAIN branches'[last'[o][f].path].threads
                                         \/ Leq(last'[o][f].dpor, dpor'[u])
    <3> DEFINE l == last[o][f]
    <3>1. last'[o][f] = l /\ l.dpor \in Vectors
      BY <1>2, <1>6
    <3>2. /\ l.path \in 1 .. pos /\ branches[l.path].kind = "Schedule"
          /\ RootSpawns =>
               \A u \in Created : u \in DOMAIN branches[l.path].threads \/ Leq(l.dpor, dpor[u])
      BY <2>10, <3>1 DEF Lasting
    <3>3. RootSpawns => Leq(l.dpor, dpor[t])
      BY <1>1, <2>8, <2>9 DEF Rooted
    <3> HIDE DEF l
    <3>4. ASSUME NEW u \in Created', RootSpawns
          PROVE  u \in DOMAIN branches[l.path].threads \/ Leq(l.dpor, dpor'[u])
      <4>1. CASE u \in Created /\ u \notin DOMAIN branches[l.path].threads
        <5>1. Leq(l.dpor, dpor[u]) /\ u \in Threads
          BY <2>5, <3>2, <3>4, <4>1
        <5>2. QED
          BY <1>2, <2>3, <3>1, <5>1, LeqStays
      <4>2. CASE u = n
        <5>1. Leq(l.dpor, dpor[t]) /\ u \in Threads
          BY <2>5, <3>3, <3>4
        <5>2. QED
          BY <1>2, <2>3, <2>4, <3>1, <4>2, <5>1, LeqStays
      <4>3. QED
        BY <2>5, <4>1, <4>2
    <3>5. QED
      BY <1>1, <3>1, <3>2, <3>4
  <2>11. QED
    BY <1>3, <2>7, <2>10 DEF Lasting
<1>7. QED
  BY <1>5, <1>6, UndecidedEffect

LEMMA LoadRoots ==
  ASSUME Conditions, Awake, Lasting, Rooted, NEW t \in Threads, LoadEnds(t)
  PROVE  Awake' /\ Lasting' /\ Rooted'
<1>1. /\ phase' = phase /\ pos' = pos + 1 /\ At(t, "load", "branched")
      /\ UNCHANGED <<status, operation, active, dpor, last>>
      /\ \A i \in DOMAIN branches : i \in DOMAIN branches' /\ branches'[i] = branches[i]
  BY LoadReplays
<1>2. /\ stage' = [stage EXCEPT ![t] = "client"] /\ program' = program
  <2>1. PICK k : Given(t, k)
    BY LoadReplays
  <2>2. QED
    BY <2>1 DEF Given, process
<1>3. /\ active = t /\ stage[t] = "branched"
  BY <1>1, Here, RunIs DEF Where
<1>4. Awake'
  BY <1>1 DEF Awake
<1>5. RootSpawns' <=> RootSpawns
  BY <1>2 DEF RootSpawns, Uses
<1>6. Created' = Created
  BY <1>1 DEF Created
<1>7. \A i \in 1 .. pos : i \in 1 .. pos' /\ branches'[i] = branches[i]
  BY <1>1, ConditionsAre
<1>8. Lasting'
  BY <1>1, <1>5, <1>6, <1>7 DEF Lasting
<1>9. stage'[Root] = IF Root = t THEN "client" ELSE stage[Root]
  BY <1>2, ThreadsAreNumbers, ConditionsAre DEF ThreadTypes
<1>10. Rooted'
  BY <1>1, <1>3, <1>9 DEF Rooted
<1>11. QED
  BY <1>4, <1>8, <1>10

-------------------------------------------------------------------------------
(* The inductive invariant holds. *)

Fitting ==
  /\ Replays /\ Awake
  /\ phase \in Searching => Lasting /\ Rooted
  /\ phase = "panicked" => ~RootSpawns

LEMMA FirstRoots ==
  /\ dpor = All(Zero) /\ last = NoAccesses /\ active = Root => Lasting /\ Rooted
  /\ dpor' = All(Zero) /\ last' = NoAccesses /\ active' = Root => Lasting' /\ Rooted'
<1>1. \A u \in Threads : All(Zero)[u] = Zero
  BY DEF All
<1>2. \A o \in Objects, f \in {"load", "store", "any"} :
        NoAccesses[o][f].path = 0 /\ NoAccesses[o][f].dpor = Zero
  BY DEF NoAccesses, NoAccess
<1>3. Zero \in Vectors /\ Zero[Root] = 0 /\ Leq(Zero, Zero) /\ Root \in Threads
  BY ZeroIs, ThreadsAreNumbers, LeqStarts DEF Zero
<1>4. ASSUME dpor = All(Zero), last = NoAccesses, active = Root PROVE Lasting /\ Rooted
  BY <1>1, <1>2, <1>3, <1>4 DEF Lasting, Rooted
<1>5. ASSUME dpor' = All(Zero), last' = NoAccesses, active' = Root PROVE Lasting' /\ Rooted'
  BY <1>1, <1>2, <1>3, <1>5 DEF Lasting, Rooted
<1>6. QED
  BY <1>4, <1>5

LEMMA RestRoots ==
  ASSUME IInv, Lasting, Rooted, Start \/ BeginIteration \/ Save \/ EndIteration \/ Crash
  PROVE  Lasting' /\ Rooted'
<1>1. CASE Start \/ BeginIteration \/ Save
  <2>1. phase \in Searching \ {"search"} /\ UNCHANGED <<threads, dpor, last, pos>>
    BY <1>1 DEF Start, BeginIteration, Save, search, Searching
  <2>2. pos = 0
    BY <2>1 DEF IInv
  <2>3. \A o \in Objects, f \in {"load", "store", "any"} : last[o][f].path = 0
    BY <2>2 DEF Lasting
  <2>4. Lasting'
    BY <2>1, <2>3 DEF Lasting
  <2>5. Rooted'
    BY <2>1 DEF Rooted, threads
  <2>6. QED
    BY <2>4, <2>5
<1>2. CASE EndIteration \/ Crash
  BY <1>2, FirstRoots DEF EndIteration, Crash, Reset
<1>3. QED
  BY <1>1, <1>2

\* The audit leaves the path and the file alone.
LEMMA AuditStays ==
  ASSUME phase # "search", NEW t \in Threads, Step(t)
  PROVE  /\ phase = "audit" /\ phase' \in {"audit", "refuted"}
         /\ UNCHANGED <<program, file, executed>>
<1>1. ASSUME NEW kind, NEW where, At(t, kind, where) PROVE phase = "audit"
  BY <1>1 DEF At
<1>2. ASSUME NEW st, NEW op, NEW where, phase = "audit", Branch(t, st, op, where)
      PROVE  phase' \in {"audit", "refuted"} /\ UNCHANGED <<program, file, executed>>
  <2>1. Free([status EXCEPT ![t] = st]) /\ UNCHANGED process
    BY <1>2 DEF Branch, Switch
  <2>2. QED
    BY <1>2, <2>1 DEF Free, Nobody, process
<1>3. CASE BranchAtomic(t)
  BY <1>1, <1>2, <1>3 DEF BranchAtomic
<1>4. CASE BranchLock(t)
  BY <1>1, <1>2, <1>4 DEF BranchLock
<1>5. CASE BranchSend(t) \/ JoinParks(t) \/ BranchJoin(t)
  BY <1>1, <1>2, <1>5 DEF BranchSend, JoinParks, BranchJoin
<1>6. CASE Finish(t)
  <2>1. phase = "audit" /\ Branch(t, "Terminated", NoOp, "client")
    BY <1>6 DEF Finish
  <2>2. QED
    BY <1>2, <2>1
<1>7. CASE LoadEnds(t)
  <2>1. phase = "audit" /\ \E k : Given(t, k)
    BY <1>1, <1>7 DEF LoadEnds
  <2>2. QED
    BY <2>1 DEF Given, process
<1>8. CASE CellAccess(t)
  BY <1>1, <1>8 DEF CellAccess, process
<1>9. CASE StoreEnds(t) \/ RmwEnds(t) \/ CasEnds(t)
  BY <1>1, <1>9 DEF StoreEnds, RmwEnds, CasEnds, process
<1>10. CASE LockEnds(t) \/ UnlockEnds(t) \/ SpawnEnds(t) \/ SendEnds(t) \/ JoinEnds(t)
  BY <1>1, <1>10 DEF LockEnds, UnlockEnds, SpawnEnds, SendEnds, JoinEnds, process
<1>11. QED
  BY <1>3, <1>4, <1>5, <1>6, <1>7, <1>8, <1>9, <1>10 DEF Step

\* A step of a thread in the search.
LEMMA SearchFits ==
  ASSUME IInv, Spawned, Types, Fitting, phase = "search", NEW t \in Threads, Step(t)
  PROVE  Fitting'
<1>1. Conditions /\ Awake /\ Lasting /\ Rooted
  BY DEF Conditions, Fitting, Searching
<1>2. CASE Branches(t)
  <2>1. RootSpawns => phase' # "panicked"
    BY <1>1, <1>2, BranchPrepared
  <2>2. UNCHANGED <<program, file>>
    <3>1. PICK st, op, where : Turns(t, st, op, where)
      BY <1>2, BranchesTurn
    <3>2. UNCHANGED process
      BY <3>1 DEF Turns, Branch, Panic
    <3>3. QED
      BY <3>2 DEF process
  <2>3. RootSpawns' <=> RootSpawns
    BY <2>2 DEF RootSpawns, Uses
  <2>4. CASE phase' = "panicked"
    BY <1>1, <2>1, <2>2, <2>3, <2>4, ConditionsAre DEF Fitting, Replays, Awake, Searching
  <2>5. CASE phase' # "panicked"
    BY <1>1, <1>2, <2>5, BranchReplays, BranchLasts, BranchRoots DEF Fitting
  <2>6. QED
    BY <2>4, <2>5
<1>3. CASE LoadEnds(t)
  BY <1>1, <1>3, LoadReplays, LoadRoots DEF Fitting
<1>4. CASE Undecided(t)
  <2>1. Replays' /\ Awake' /\ phase' \in {"search", "failed"}
    BY <1>1, <1>4, QuietReplays, QuietIs
  <2>2. QED
    BY <1>1, <1>4, <2>1, UndecidedRoots DEF Fitting, Searching
<1>5. QED
  BY <1>2, <1>3, <1>4 DEF Step, Branches, Undecided

LEMMA NextFits ==
  ASSUME IInv, Spawned, Types, Fitting, [Next]_vars
  PROVE  Fitting'
<1>1. CASE Start \/ BeginIteration \/ Save \/ EndIteration \/ Crash
  <2>1. phase \in Searching /\ phase' # "panicked"
    BY <1>1 DEF Start, BeginIteration, Save, EndIteration, Crash, Searching
  <2>2. QED
    BY <1>1, <2>1, RestReplays, RestRoots DEF Fitting
<1>2. ASSUME NEW t \in Threads, Step(t) PROVE Fitting'
  <2>1. CASE phase = "search"
    BY <1>2, <2>1, SearchFits
  <2>2. CASE phase # "search"
    <3>1. phase' \in {"audit", "refuted"} /\ UNCHANGED <<program, file>>
      BY <1>2, <2>2, AuditStays
    <3>2. QED
      BY <3>1 DEF Fitting, Replays, Awake, Searching
  <2>3. QED
    BY <2>1, <2>2
<1>3. CASE UNCHANGED vars
  <2>1. Run' = Run
    BY <1>3 DEF vars, memory, threads, Run, Mem
  <2>2. RootSpawns' <=> RootSpawns
    BY <1>3 DEF vars, process, RootSpawns, Uses
  <2>3. Replays' /\ Awake'
    BY <1>3, <2>1 DEF vars, process, search, threads, Fitting, Replays, Awake
  <2>4. Created' = Created
    BY <1>3 DEF vars, threads, Created
  <2>5. Lasting' <=> Lasting
    BY <1>3, <2>2, <2>4 DEF vars, search, Lasting
  <2>6. Rooted' <=> Rooted
    BY <1>3 DEF vars, threads, search, Rooted
  <2>7. QED
    BY <1>3, <2>2, <2>3, <2>5, <2>6 DEF Fitting, vars
<1>4. QED
  BY <1>1, <1>2, <1>3 DEF Next, Work

\* Only a program in which a thread other than the root thread spawns can make the engine
\* panic in a replay, and the thread a branch point chooses can run: the branches an
\* iteration meets are those that are on its path (path.rs branch_thread, branch_write and
\* schedule_mut; execution.rs schedule).
THEOREM ReplaysAreFaithful == Spec => []ReplayFits
<1>1. Init => Fitting
  <2> SUFFICES ASSUME Init PROVE Fitting
    OBVIOUS
  <2>1. Replays /\ Awake
    BY InitReplays
  <2>2. Lasting /\ Rooted /\ phase = "start"
    BY FirstRoots DEF Init
  <2>3. QED
    BY <2>1, <2>2 DEF Fitting
<1>2. IInv /\ Spawned /\ Types /\ Fitting /\ [Next]_vars => Fitting'
  BY NextFits
<1>3. Fitting => ReplayFits
  BY DEF Fitting, Awake, RootSpawns, ReplayFits
<1>4. QED
  BY <1>1, <1>2, <1>3, Invariant, PTL DEF Spec

-------------------------------------------------------------------------------
(* What the executions of the past decided, and what is left to try of them. *)

\* What pick_write offers the run r: Candidates, with its memory.
Offered(p, r) ==
  LET o == Doing(p, r)  ws == r.mem.writes[o.obj]
      ends == {i \in DOMAIN ws : \/ IsSeenBy(ws[i].firstSeen, r.mem.causality[r.active])
                                 \/ o.ord = "SeqCst" /\ ws[i].seqCst}
  IN  ToSet(Reverse([n \in 1 .. Len(ws) - Max({1} \cup ends) + 1 |-> Max({1} \cup ends) + n - 1]))

\* The decisions of a path; decisions d lead a point to the next.
Decided(bs) == [i \in DOMAIN bs |-> Chosen(bs[i])]
LedBy(p, d, q) ==
  IF Deciding(p, q.run) THEN Point(Switched(p, q.run, d[q.pos + 1]), q.pos + 1)
  ELSE IF Reading(p, q.run) THEN Point(Read(p, q.run, d[q.pos + 1]), q.pos + 1)
  ELSE Point(Alone(p, q.run), q.pos)

\* An execution that decides d passes the point q: q is in every set that holds the
\* beginning and where the first decisions lead from a point of it that is not an end.
Leads(p, d, n, Q) ==
  /\ Begins \in Q
  /\ \A x \in Q : x.run.active # None /\ (Meets(p, x.run) => x.pos \in 0 .. n - 1)
                    => LedBy(p, d, x) \in Q
Passes(p, d, q) == \A Q : Leads(p, d, q.pos, Q) => q \in Q

\* Execution e decides v at the branch i, to which it goes as d does.
Forks(e, d, i, v) == i \in DOMAIN e /\ e[i] = v /\ \A j \in 1 .. i - 1 : e[j] = d[j]

\* On the path, what a branch is through with has been executed: the thread it chose, it
\* has one, and the writes that are no longer on it.
Single(b) == b.kind = "Schedule" => \A t, u \in Marked(b.threads, "Active") : t = u
Tried(bs, ds) ==
  \A i \in DOMAIN bs :
    /\ Single(bs[i])
    /\ bs[i].kind = "Schedule" =>
         \A t \in Marked(bs[i].threads, "Visited") : \E d \in ds : Forks(d, Decided(bs), i, t)
Covered(p, bs, ds) ==
  \A q : Reading(p, q.run) /\ q.pos \in 0 .. Len(bs) - 1 /\ Passes(p, Decided(bs), q) =>
    /\ bs[q.pos + 1].kind = "Write"
    /\ \A k \in Offered(p, q.run) :
         \/ k \in ToSet(bs[q.pos + 1].writes)
         \/ \E d \in ds : Forks(d, Decided(bs), q.pos + 1, k)

\* ... and each execution of the past has, at each of its loads, a variant for every write
\* it was offered there, or the path is to come to it.
Due(bs, d, i, k) ==
  /\ i \in DOMAIN bs /\ \A j \in 1 .. i - 1 : d[j] = Chosen(bs[j])
  /\ bs[i].kind = "Write" /\ k \in ToSet(bs[i].writes)
Varied(p, bs, ds) ==
  \A d \in ds : \A q :
    Reading(p, q.run) /\ q.pos \in Nat /\ q.pos + 1 \in DOMAIN d /\ Passes(p, d, q) =>
      \A k \in Offered(p, q.run) :
        (\E e \in ds : Forks(e, d, q.pos + 1, k)) \/ Due(bs, d, q.pos + 1, k)

Thorough(p, bs, ds) == Tried(bs, ds) /\ Covered(p, bs, ds) /\ Varied(p, bs, ds)

LEMMA NothingDue == \A p : Thorough(p, <<>>, {})
<1>1. DOMAIN <<>> = {} /\ Len(<<>>) = 0
  BY EmptySeq, LenProperties
<1>2. QED
  BY <1>1 DEF Thorough, Tried, Covered, Varied

LEMMA LedByIs ==
  ASSUME NEW p, NEW d, NEW q
  PROVE  /\ Meets(p, q.run) => LedBy(p, d, q).pos = q.pos + 1
         /\ ~Meets(p, q.run) => LedBy(p, d, q).pos = q.pos
         /\ \A e : (Meets(p, q.run) => d[q.pos + 1] = e[q.pos + 1]) => LedBy(p, d, q) = LedBy(p, e, q)
BY PointIs DEF LedBy, Meets

LEMMA LedIsLedBy ==
  ASSUME NEW p, NEW bs, NEW q, Meets(p, q.run) => q.pos + 1 \in DOMAIN bs
  PROVE  Led(p, q, bs) = LedBy(p, Decided(bs), q)
BY DEF Led, LedBy, Decided, Meets

LEMMA WayBegins == \A p, d : Passes(p, d, Begins)
BY DEF Passes, Leads

\* Only the decisions before a point matter.
LEMMA SameWay ==
  ASSUME NEW p, NEW d, NEW e, NEW q, q.pos \in Nat, \A j \in 1 .. q.pos : d[j] = e[j],
         Passes(p, d, q)
  PROVE  Passes(p, e, q)
<1> SUFFICES ASSUME NEW Q, Leads(p, e, q.pos, Q) PROVE Leads(p, d, q.pos, Q)
  BY DEF Passes
<1>1. ASSUME NEW x \in Q, x.run.active # None, Meets(p, x.run) => x.pos \in 0 .. q.pos - 1
      PROVE  LedBy(p, d, x) \in Q
  <2>1. LedBy(p, e, x) \in Q
    BY <1>1 DEF Leads
  <2>2. Meets(p, x.run) => d[x.pos + 1] = e[x.pos + 1]
    <3> SUFFICES ASSUME Meets(p, x.run) PROVE d[x.pos + 1] = e[x.pos + 1]
      OBVIOUS
    <3>1. x.pos + 1 \in 1 .. q.pos
      BY <1>1
    <3>2. QED
      BY <3>1
  <2>3. QED
    BY <2>1, <2>2, LedByIs
<1>2. QED
  BY <1>1 DEF Leads

LEMMA WayGoesOn ==
  ASSUME NEW p, NEW d, NEW x, Passes(p, d, x), x.run.active # None, x.pos \in Nat
  PROVE  Passes(p, d, LedBy(p, d, x))
<1> DEFINE y == LedBy(p, d, x)
<1> SUFFICES ASSUME NEW Q, Leads(p, d, y.pos, Q) PROVE y \in Q
  BY DEF Passes
<1>1. /\ Meets(p, x.run) => y.pos = x.pos + 1
      /\ ~Meets(p, x.run) => y.pos = x.pos
  BY LedByIs
<1>2. y.pos \in Nat /\ x.pos <= y.pos /\ (Meets(p, x.run) => x.pos \in 0 .. y.pos - 1)
  BY <1>1
<1> HIDE DEF y
<1>3. Leads(p, d, x.pos, Q)
  <2>1. \A z \in 0 .. x.pos - 1 : z \in 0 .. y.pos - 1
    BY <1>2
  <2>2. QED
    BY <2>1 DEF Leads
<1>4. x \in Q
  BY <1>3 DEF Passes
<1>5. QED
  BY <1>2, <1>4 DEF Leads, y

\* The points that are passed on the path are points of it.
LEMMA WayOfPath ==
  ASSUME NEW p, NEW Q, NEW e, NEW bs, Closed(p, Q, e, bs), Len(bs) \in Nat,
         DOMAIN bs = 1 .. Len(bs), NEW q, q.pos \in 0 .. Len(bs) - 1, Passes(p, Decided(bs), q)
  PROVE  q \in Q
<1> DEFINE R == {x \in Q : x.pos <= q.pos}
<1>1. Begins \in R
  BY PointIs DEF Closed, Begins
<1>2. ASSUME NEW x \in R, Meets(p, x.run) => x.pos \in 0 .. q.pos - 1
      PROVE  LedBy(p, Decided(bs), x) \in R
  <2>1. x \in Q /\ x.pos <= q.pos /\ x.pos \in 0 .. Len(bs) /\ e.pos = Len(bs)
    BY DEF Closed
  <2>2. x # e
    BY <2>1
  <2>3. Led(p, x, bs) \in Q
    BY <2>1, <2>2 DEF Closed
  <2>4. Meets(p, x.run) => x.pos + 1 \in DOMAIN bs
    BY <1>2, <2>1
  <2>5. LedBy(p, Decided(bs), x) \in Q
    BY <2>3, <2>4, LedIsLedBy
  <2>6. LedBy(p, Decided(bs), x).pos <= q.pos
    <3>1. CASE Meets(p, x.run)
      <4>1. x.pos + 1 <= q.pos
        BY <1>2, <3>1
      <4>2. QED
        BY <3>1, <4>1, LedByIs
    <3>2. CASE ~Meets(p, x.run)
      BY <2>1, <3>2, LedByIs
    <3>3. QED
      BY <3>1, <3>2
  <2>7. QED
    BY <2>5, <2>6
<1> HIDE DEF R
<1>3. Leads(p, Decided(bs), q.pos, R)
  BY <1>1, <1>2 DEF Leads
<1>4. q \in R
  BY <1>3 DEF Passes
<1>5. QED
  BY <1>4 DEF R

\* The path goes on to one more branch at most, and leaves what was decided, as requests
\* do; a branch of a load begins with all it is offered.
Continues(bs, cs) ==
  /\ Len(cs) \in {Len(bs), Len(bs) + 1}
  /\ \A i \in DOMAIN bs :
       /\ Chosen(cs[i]) = Chosen(bs[i]) /\ cs[i].kind = bs[i].kind
       /\ bs[i].kind = "Write" => cs[i] = bs[i]
       /\ bs[i].kind = "Schedule" => \A mark \in {"Active", "Visited"} :
            Marked(cs[i].threads, mark) = Marked(bs[i].threads, mark)
Begun(p, bs, b) ==
  /\ Single(b)
  /\ b.kind = "Schedule" => Marked(b.threads, "Visited") = {}
  /\ \A q : Reading(p, q.run) /\ q.pos \in Nat /\ q.pos + 1 = Len(bs)
            /\ Passes(p, Decided(bs), q) =>
       b.kind = "Write" /\ Offered(p, q.run) \subseteq ToSet(b.writes)

LEMMA ThoroughGrows ==
  ASSUME NEW p, NEW bs \in Paths, NEW cs \in Paths, NEW ds, Thorough(p, bs, ds),
         Continues(bs, cs), Len(cs) = Len(bs) + 1 => Begun(p, cs, cs[Len(cs)])
  PROVE  Thorough(p, cs, ds)
<1>1. PICK n \in Nat, m \in Nat : /\ Len(bs) = n /\ DOMAIN bs = 1 .. n
                                /\ Len(cs) = m /\ DOMAIN cs = 1 .. m
  BY PathIs
<1>2. m \in {n, n + 1} /\ \A i \in DOMAIN bs : i \in DOMAIN cs
  <2>1. m \in {n, n + 1}
    BY <1>1 DEF Continues
  <2>2. \A i \in 1 .. n : i \in 1 .. m
    BY <2>1
  <2>3. QED
    BY <1>1, <2>1, <2>2
<1>3. \A i \in DOMAIN bs : Decided(cs)[i] = Decided(bs)[i]
  BY <1>2 DEF Continues, Decided
<1>4. \A i \in DOMAIN bs : \A j \in 1 .. i - 1 : j \in DOMAIN bs
  <2>1. \A i \in 1 .. n : \A j \in 1 .. i - 1 : j \in 1 .. n
    OBVIOUS
  <2>2. QED
    BY <1>1, <2>1
<1>5. \A i \in DOMAIN bs : \A d, v : Forks(d, Decided(bs), i, v) => Forks(d, Decided(cs), i, v)
  BY <1>3, <1>4 DEF Forks
<1>6. ASSUME NEW i \in DOMAIN cs, i \notin DOMAIN bs
      PROVE  i = m /\ Begun(p, cs, cs[i])
  <2>1. i \in 1 .. m /\ i \notin 1 .. n
    BY <1>1, <1>6
  <2>2. i = m /\ m = n + 1
    BY <1>2, <2>1
  <2>3. QED
    BY <1>1, <2>2
<1>7. Tried(cs, ds)
  <2> SUFFICES ASSUME NEW i \in DOMAIN cs
               PROVE  /\ Single(cs[i])
                      /\ cs[i].kind = "Schedule" => \A t \in Marked(cs[i].threads, "Visited") :
                           \E d \in ds : Forks(d, Decided(cs), i, t)
    BY DEF Tried
  <2>1. CASE i \in DOMAIN bs
    <3>1. /\ cs[i].kind = bs[i].kind
          /\ bs[i].kind = "Schedule" => \A mark \in {"Active", "Visited"} :
               Marked(cs[i].threads, mark) = Marked(bs[i].threads, mark)
      BY <2>1 DEF Continues
    <3>2. /\ Single(bs[i])
          /\ bs[i].kind = "Schedule" => \A t \in Marked(bs[i].threads, "Visited") :
               \E d \in ds : Forks(d, Decided(bs), i, t)
      BY <2>1 DEF Thorough, Tried
    <3>3. Single(cs[i])
      BY <3>1, <3>2 DEF Single
    <3>4. QED
      BY <1>5, <2>1, <3>1, <3>2, <3>3
  <2>2. CASE i \notin DOMAIN bs
    BY <1>6, <2>2 DEF Begun
  <2>3. QED
    BY <2>1, <2>2
<1>8. Covered(p, cs, ds)
  <2> SUFFICES ASSUME NEW q, Reading(p, q.run), q.pos \in 0 .. Len(cs) - 1,
                      Passes(p, Decided(cs), q)
               PROVE  /\ cs[q.pos + 1].kind = "Write"
                      /\ \A k \in Offered(p, q.run) :
                           \/ k \in ToSet(cs[q.pos + 1].writes)
                           \/ \E d \in ds : Forks(d, Decided(cs), q.pos + 1, k)
    BY DEF Covered
  <2> DEFINE l == q.pos
  <2>0. l \in 0 .. m - 1
    BY <1>1
  <2>1. l \in Nat /\ l + 1 \in DOMAIN cs
    <3> HIDE DEF l
    <3>1. l \in Nat /\ l + 1 \in 1 .. m
      BY <2>0
    <3>2. QED
      BY <1>1, <3>1
  <2>2. CASE q.pos + 1 \in DOMAIN bs
    <3>0. l \in 0 .. n - 1 /\ \A j \in 1 .. l : j \in 1 .. n
      <4>1. l \in Nat /\ l + 1 \in 1 .. n
        BY <1>1, <2>1, <2>2
      <4> HIDE DEF l
      <4>2. QED
        BY <4>1
    <3>1. q.pos \in 0 .. Len(bs) - 1 /\ \A j \in 1 .. q.pos : j \in DOMAIN bs
      BY <1>1, <3>0
    <3>2. Passes(p, Decided(bs), q)
      BY <1>3, <2>1, <3>1, SameWay
    <3>3. /\ bs[q.pos + 1].kind = "Write"
          /\ \A k \in Offered(p, q.run) :
               \/ k \in ToSet(bs[q.pos + 1].writes)
               \/ \E d \in ds : Forks(d, Decided(bs), q.pos + 1, k)
      BY <3>1, <3>2 DEF Thorough, Covered
    <3>4. cs[q.pos + 1] = bs[q.pos + 1]
      BY <2>2, <3>3 DEF Continues
    <3>5. QED
      BY <1>5, <2>2, <3>3, <3>4
  <2>3. CASE q.pos + 1 \notin DOMAIN bs
    <3>1. q.pos + 1 = Len(cs) /\ Begun(p, cs, cs[q.pos + 1])
      BY <1>1, <1>6, <2>1, <2>3
    <3>2. QED
      BY <2>1, <3>1 DEF Begun
  <2>4. QED
    BY <2>2, <2>3
<1>9. Varied(p, cs, ds)
  <2>1. ASSUME NEW d, NEW i, NEW k, Due(bs, d, i, k) PROVE Due(cs, d, i, k)
    <3>1. /\ i \in DOMAIN bs /\ \A j \in 1 .. i - 1 : d[j] = Chosen(bs[j])
          /\ bs[i].kind = "Write" /\ k \in ToSet(bs[i].writes)
      BY <2>1 DEF Due
    <3>2. cs[i] = bs[i] /\ i \in DOMAIN cs
      BY <1>2, <3>1 DEF Continues
    <3>3. \A j \in 1 .. i - 1 : Chosen(cs[j]) = Chosen(bs[j])
      BY <1>4, <3>1 DEF Continues
    <3>4. QED
      BY <3>1, <3>2, <3>3 DEF Due
  <2>2. QED
    BY <2>1 DEF Thorough, Varied
<1>10. QED
  BY <1>7, <1>8, <1>9 DEF Thorough

\* What a branch of the path decides, or has left, is there when the path has been
\* executed and stepped: if it is given up, the execution was the one that decides it.
LEMMA AdvancedLeaves ==
  ASSUME NEW b \in Schedules \cup Reads, Orderly(b), Single(b)
  PROVE  /\ HasMore(b) => Advanced(b).kind = b.kind /\ Single(Advanced(b))
         /\ HasMore(b) /\ b.kind = "Schedule" =>
              Marked(Advanced(b).threads, "Visited")
                \subseteq Marked(b.threads, "Visited") \cup {Chosen(b)}
         /\ b.kind = "Write" => \A k \in ToSet(b.writes) :
              k = Chosen(b) \/ (HasMore(b) /\ k \in ToSet(Advanced(b).writes))
<1>1. CASE b \in Reads
  <2> DEFINE ws == b.writes
  <2>1. b.kind = "Write" /\ ws \in Seq(Nat) /\ ws # <<>> /\ b = [kind |-> "Write", writes |-> ws]
    BY <1>1, Kinds DEF Orderly
  <2>2. Advanced(b) = [b EXCEPT !.writes = Tail(ws)]
    BY <2>1 DEF Advanced
  <2>3. Advanced(b).kind = "Write" /\ Advanced(b).writes = Tail(ws) /\ Single(Advanced(b))
    BY <2>1, <2>2 DEF Single
  <2>4. Chosen(b) = ws[1] /\ Len(ws) \in Nat /\ DOMAIN ws = 1 .. Len(ws)
    BY <2>1, LenProperties DEF Chosen
  <2> HIDE DEF ws
  <2>5. ASSUME NEW k \in ToSet(ws) PROVE k = Chosen(b) \/ (HasMore(b) /\ k \in ToSet(Tail(ws)))
    <3> SUFFICES ASSUME k # ws[1] PROVE HasMore(b) /\ k \in ToSet(Tail(ws))
      BY <2>4
    <3>1. PICK i \in 1 .. Len(ws) : k = ws[i]
      BY <2>4 DEF ToSet
    <3>2. i > 1 /\ Len(ws) > 1 /\ i - 1 \in 1 .. Len(ws) - 1 /\ (i - 1) + 1 = i
      BY <2>4, <3>1
    <3>3. Len(Tail(ws)) = Len(ws) - 1 /\ \A j \in 1 .. Len(Tail(ws)) : Tail(ws)[j] = ws[j + 1]
          /\ Tail(ws) \in Seq(Nat)
      BY <2>1, HeadTailProperties
    <3>4. Tail(ws)[i - 1] = k /\ i - 1 \in DOMAIN Tail(ws)
      BY <3>1, <3>2, <3>3, LenProperties
    <3>5. HasMore(b)
      BY <2>1, <3>2 DEF HasMore, ws
    <3>6. QED
      BY <3>4, <3>5 DEF ToSet
  <2>6. QED
    BY <2>1, <2>3, <2>5 DEF ws
<1>2. CASE b \in Schedules
  <2> DEFINE th == b.threads
             m == Min(Marked(th, "Pending"))
             new == [t \in DOMAIN th |-> IF t = m THEN "Active"
                                         ELSE IF th[t] = "Active" THEN "Visited" ELSE th[t]]
  <2>1. /\ b.kind = "Schedule" /\ DOMAIN th \subseteq Threads /\ \E n \in Threads : DOMAIN th = 0 .. n
        /\ b = [kind |-> "Schedule", threads |-> th]
    BY <1>2, Kinds
  <2>2. Advanced(b) = [b EXCEPT !.threads = new]
    BY <2>1 DEF Advanced
  <2> HIDE DEF m, th
  <2>3. Advanced(b).kind = "Schedule" /\ Advanced(b).threads = new
    BY <2>1, <2>2
  <2>4. ASSUME NEW t \in Marked(new, "Visited"), t \notin Marked(th, "Visited")
        PROVE  t \in Marked(th, "Active")
    BY <2>4 DEF Marked
  <2>5. ASSUME NEW t \in Marked(th, "Active") PROVE t = Chosen(b)
    <3>1. Min(Marked(th, "Active")) \in Marked(th, "Active")
      BY <2>1, <2>5, Least, ThreadsAreNumbers DEF Marked
    <3>2. Chosen(b) = Min(Marked(th, "Active"))
      BY <2>1, <2>5 DEF Chosen, th
    <3>3. QED
      BY <2>1, <2>5, <3>1, <3>2 DEF Single, th
  <2>6. \A t \in Marked(new, "Active") : t = m
    BY DEF Marked
  <2>7. Single(Advanced(b))
    BY <2>3, <2>6 DEF Single
  <2>8. QED
    BY <2>1, <2>3, <2>4, <2>5, <2>7 DEF th
<1>3. QED
  BY <1>1, <1>2

\* Path::step keeps the branches up to the last that has more, which goes on.
LEMMA SteppedShape ==
  ASSUME NEW bs \in Paths, NEW m \in Nat, Len(bs) = m
  PROVE  \E n \in 0 .. m :
           /\ DOMAIN Stepped(bs) = 1 .. n /\ Len(Stepped(bs)) = n
           /\ n # 0 => HasMore(bs[n]) /\ Stepped(bs)[n] = Advanced(bs[n])
           /\ \A i \in 1 .. n - 1 : Stepped(bs)[i] = bs[i]
           /\ \A i \in n + 1 .. m : ~HasMore(bs[i])
<1>1. bs \in Seq(Schedules \cup Reads) /\ DOMAIN bs = 1 .. m
  BY PathIs DEF Paths
<1>2. CASE Open(bs) = {}
  <2>1. Stepped(bs) = <<>>
    BY <1>2 DEF Stepped
  <2>2. DOMAIN <<>> = 1 .. 0 /\ Len(<<>>) = 0
    BY EmptySeq, LenProperties
  <2>3. \A i \in 0 + 1 .. m : ~HasMore(bs[i])
    BY <1>1, <1>2 DEF Open
  <2>4. QED
    BY <2>1, <2>2, <2>3
<1>3. CASE Open(bs) # {}
  <2> DEFINE n == Max(Open(bs))
             top == SubSeq(bs, 1, n)
             cs == [top EXCEPT ![n] = Advanced(@)]
  <2>1. Stepped(bs) = cs
    BY <1>3 DEF Stepped
  <2>2. n \in 1 .. m /\ HasMore(bs[n]) /\ \A i \in n + 1 .. m : ~HasMore(bs[i])
    <3>1. Open(bs) \subseteq 0 .. m
      BY <1>1 DEF Open
    <3>2. n \in Open(bs) /\ \A i \in Open(bs) : i <= n
      BY <1>3, <3>1, Greatest
    <3>3. n \in 1 .. m /\ HasMore(bs[n])
      BY <1>1, <3>2 DEF Open
    <3>4. ASSUME NEW i \in n + 1 .. m PROVE ~HasMore(bs[i])
      <4> HIDE DEF n
      <4>1. i \in 1 .. m /\ ~(i <= n)
        BY <3>3
      <4>2. QED
        BY <1>1, <3>2, <4>1 DEF Open
    <3>5. QED
      BY <3>3, <3>4
  <2> HIDE DEF n
  <2>3. n \in Nat /\ n >= 1 /\ n <= m
    BY <2>2
  <2>4. top = [i \in 1 .. n |-> bs[i]]
    BY <1>1, <2>3
  <2> HIDE DEF top
  <2>5. /\ DOMAIN cs = 1 .. n
        /\ \A i \in 1 .. n : cs[i] = IF i = n THEN Advanced(bs[n]) ELSE bs[i]
    BY <2>3, <2>4
  <2> HIDE DEF cs
  <2>6. Len(cs) = n
    <3>1. cs \in Paths
      BY <2>1, SteppedIs
    <3>2. Len(cs) \in Nat /\ 1 .. Len(cs) = 1 .. n
      BY <2>5, <3>1, PathIs
    <3>3. QED
      BY <2>3, <3>2
  <2>7. \A i \in 1 .. n - 1 : i \in 1 .. n /\ i # n
    BY <2>3
  <2>8. cs[n] = Advanced(bs[n]) /\ n \in 0 .. m
    BY <2>3, <2>5
  <2>9. QED
    BY <2>1, <2>2, <2>5, <2>6, <2>7, <2>8
<1>4. QED
  BY <1>2, <1>3

LEMMA ThoroughSteps ==
  ASSUME NEW p, NEW bs \in Paths, NEW ds, Thorough(p, bs, ds)
  PROVE  Thorough(p, Stepped(bs), ds \cup {Decided(bs)})
<1> DEFINE cs == Stepped(bs)
           now == Decided(bs)
           es == ds \cup {now}
<1>1. PICK m \in Nat : /\ Len(bs) = m /\ DOMAIN bs = 1 .. m
                       /\ \A i \in 1 .. m : bs[i] \in Schedules \cup Reads /\ Orderly(bs[i])
  BY PathIs
<1>2. PICK n \in 0 .. m : /\ DOMAIN cs = 1 .. n /\ Len(cs) = n
                          /\ n # 0 => HasMore(bs[n]) /\ cs[n] = Advanced(bs[n])
                          /\ \A i \in 1 .. n - 1 : cs[i] = bs[i]
                          /\ \A i \in n + 1 .. m : ~HasMore(bs[i])
  BY <1>1, SteppedShape
<1> HIDE DEF cs
<1>3. /\ \A i \in 1 .. n : i \in 1 .. m /\ \A j \in 1 .. i - 1 : j \in 1 .. n - 1
      /\ \A i \in 1 .. n - 1 : i \in 1 .. n /\ i \in 1 .. m
      /\ \A i \in 1 .. m : \A j \in 1 .. i - 1 : j \in 1 .. m
      /\ \A i \in 1 .. m : i \in 1 .. n - 1 \/ i = n \/ i \in n + 1 .. m
  OBVIOUS
<1>4. /\ DOMAIN now = 1 .. m /\ \A i \in 1 .. m : now[i] = Chosen(bs[i])
      /\ \A i \in 1 .. n - 1 : Decided(cs)[i] = now[i] /\ Chosen(cs[i]) = Chosen(bs[i])
  BY <1>1, <1>2, <1>3 DEF Decided
<1> HIDE DEF now
<1>5. ASSUME NEW i \in 1 .. n, NEW d, NEW v, Forks(d, now, i, v) PROVE Forks(d, Decided(cs), i, v)
  BY <1>3, <1>4, <1>5 DEF Forks
<1>6. ASSUME NEW i \in 1 .. m
      PROVE  /\ Single(bs[i])
             /\ bs[i].kind = "Schedule" =>
                  \A t \in Marked(bs[i].threads, "Visited") : \E d \in ds : Forks(d, now, i, t)
  BY <1>1 DEF Thorough, Tried, now
<1>7. ASSUME NEW i \in 1 .. m
      PROVE  /\ HasMore(bs[i]) => Advanced(bs[i]).kind = bs[i].kind /\ Single(Advanced(bs[i]))
             /\ HasMore(bs[i]) /\ bs[i].kind = "Schedule" =>
                  Marked(Advanced(bs[i]).threads, "Visited")
                    \subseteq Marked(bs[i].threads, "Visited") \cup {Chosen(bs[i])}
             /\ bs[i].kind = "Write" => \A k \in ToSet(bs[i].writes) :
                  k = Chosen(bs[i]) \/ (HasMore(bs[i]) /\ k \in ToSet(Advanced(bs[i]).writes))
  BY <1>1, <1>6, AdvancedLeaves
\* What was due on the path is due on the next, or has just been done.
<1>8. ASSUME NEW d, NEW i, NEW k, Due(bs, d, i, k) PROVE Due(cs, d, i, k) \/ Forks(now, d, i, k)
  <2>1. /\ i \in 1 .. m /\ \A j \in 1 .. i - 1 : d[j] = Chosen(bs[j])
        /\ bs[i].kind = "Write" /\ k \in ToSet(bs[i].writes)
    BY <1>1, <1>8 DEF Due
  <2>2. CASE k = Chosen(bs[i])
    <3>1. now[i] = k /\ i \in DOMAIN now /\ \A j \in 1 .. i - 1 : now[j] = d[j]
      BY <1>3, <1>4, <2>1, <2>2
    <3>2. QED
      BY <3>1 DEF Forks
  <2>3. CASE k # Chosen(bs[i])
    <3>1. HasMore(bs[i]) /\ k \in ToSet(Advanced(bs[i]).writes) /\ Advanced(bs[i]).kind = "Write"
      BY <1>7, <2>1, <2>3
    <3>2. i \in 1 .. n - 1 \/ i = n
      BY <1>2, <1>3, <2>1, <3>1
    <3>3. i \in 1 .. n
      BY <1>3, <2>1, <3>2
    <3>4. \A j \in 1 .. i - 1 : d[j] = Chosen(cs[j])
      BY <1>3, <1>4, <2>1, <3>3
    <3>5. cs[i].kind = "Write" /\ k \in ToSet(cs[i].writes)
      BY <1>2, <2>1, <3>1, <3>2, <3>3
    <3>6. QED
      BY <1>2, <3>3, <3>4, <3>5 DEF Due
  <2>4. QED
    BY <2>2, <2>3
<1>9. Tried(cs, es)
  <2> SUFFICES ASSUME NEW i \in 1 .. n
               PROVE  /\ Single(cs[i])
                      /\ cs[i].kind = "Schedule" => \A t \in Marked(cs[i].threads, "Visited") :
                           \E d \in es : Forks(d, Decided(cs), i, t)
    BY <1>2 DEF Tried
  <2>1. i \in 1 .. m
    BY <1>3
  <2>2. CASE i \in 1 .. n - 1
    <3>1. cs[i] = bs[i]
      BY <1>2, <2>2
    <3>2. QED
      BY <1>5, <1>6, <2>1, <3>1
  <2>3. CASE i \notin 1 .. n - 1
    <3>1. i = n /\ n # 0
      BY <2>3
    <3>2. HasMore(bs[i]) /\ cs[i] = Advanced(bs[i])
      BY <1>2, <3>1
    <3>3. ASSUME cs[i].kind = "Schedule", NEW t \in Marked(cs[i].threads, "Visited")
          PROVE  \E d \in es : Forks(d, Decided(cs), i, t)
      <4>1. bs[i].kind = "Schedule" /\ t \in Marked(bs[i].threads, "Visited") \cup {Chosen(bs[i])}
        BY <1>7, <2>1, <3>2, <3>3
      <4>2. CASE t = Chosen(bs[i])
        <5>1. Forks(now, now, i, t)
          BY <1>4, <2>1, <4>2 DEF Forks
        <5>2. QED
          BY <1>5, <5>1
      <4>3. CASE t \in Marked(bs[i].threads, "Visited")
        BY <1>5, <1>6, <2>1, <4>1, <4>3
      <4>4. QED
        BY <4>1, <4>2, <4>3
    <3>4. QED
      BY <1>7, <2>1, <3>2, <3>3
  <2>4. QED
    BY <2>2, <2>3
\* Of the path that has been executed: what a load was offered is due or has been read.
<1>10. ASSUME NEW q, Reading(p, q.run), q.pos \in Nat, q.pos + 1 \in 1 .. m, Passes(p, now, q)
       PROVE  /\ bs[q.pos + 1].kind = "Write"
              /\ \A k \in Offered(p, q.run) :
                   Due(cs, now, q.pos + 1, k) \/ \E d \in es : Forks(d, now, q.pos + 1, k)
  <2>1. q.pos \in 0 .. Len(bs) - 1
    <3> DEFINE l == q.pos
    <3>1. l \in Nat /\ l + 1 \in 1 .. m
      BY <1>10
    <3> HIDE DEF l
    <3>2. l \in 0 .. m - 1
      BY <3>1
    <3>3. QED
      BY <1>1, <3>2 DEF l
  <2>2. /\ bs[q.pos + 1].kind = "Write"
        /\ \A k \in Offered(p, q.run) :
             \/ k \in ToSet(bs[q.pos + 1].writes)
             \/ \E d \in ds : Forks(d, now, q.pos + 1, k)
    BY <1>10, <2>1 DEF Thorough, Covered, now
  <2>3. ASSUME NEW k \in ToSet(bs[q.pos + 1].writes) PROVE Due(bs, now, q.pos + 1, k)
    BY <1>1, <1>3, <1>4, <1>10, <2>2 DEF Due
  <2>4. QED
    BY <1>8, <2>2, <2>3
<1>11. Covered(p, cs, es)
  <2> SUFFICES ASSUME NEW q, Reading(p, q.run), q.pos \in 0 .. n - 1, Passes(p, Decided(cs), q)
               PROVE  /\ cs[q.pos + 1].kind = "Write"
                      /\ \A k \in Offered(p, q.run) :
                           \/ k \in ToSet(cs[q.pos + 1].writes)
                           \/ \E d \in es : Forks(d, Decided(cs), q.pos + 1, k)
    BY <1>2 DEF Covered
  <2>1. /\ q.pos \in Nat /\ q.pos + 1 \in 1 .. n
        /\ \A j \in 1 .. q.pos : j \in 1 .. n - 1
    <3> DEFINE l == q.pos
    <3>1. l \in 0 .. n - 1
      OBVIOUS
    <3> HIDE DEF l
    <3>2. l \in Nat /\ l + 1 \in 1 .. n /\ \A j \in 1 .. l : j \in 1 .. n - 1
      BY <3>1
    <3>3. QED
      BY <3>2 DEF l
  <2>2. Passes(p, now, q)
    BY <1>4, <2>1, SameWay
  <2>3. /\ bs[q.pos + 1].kind = "Write"
        /\ \A k \in Offered(p, q.run) :
             Due(cs, now, q.pos + 1, k) \/ \E d \in es : Forks(d, now, q.pos + 1, k)
    BY <1>3, <1>10, <2>1, <2>2
  <2>4. cs[q.pos + 1].kind = "Write"
    <3>1. CASE q.pos + 1 = n
      BY <1>2, <1>3, <1>7, <2>1, <2>3, <3>1
    <3>2. CASE q.pos + 1 # n
      <4>1. q.pos + 1 \in 1 .. n - 1
        <5> DEFINE i == q.pos + 1
        <5>1. i \in 1 .. n /\ i # n
          BY <2>1, <3>2
        <5> HIDE DEF i
        <5>2. i \in 1 .. n - 1
          BY <5>1
        <5>3. QED
          BY <5>2 DEF i
      <4>2. QED
        BY <1>2, <2>3, <4>1
    <3>3. QED
      BY <3>1, <3>2
  <2>5. QED
    BY <1>5, <2>1, <2>3, <2>4 DEF Due
<1>12. Varied(p, cs, es)
  <2> SUFFICES ASSUME NEW d \in es, NEW q, Reading(p, q.run), q.pos \in Nat,
                      q.pos + 1 \in DOMAIN d, Passes(p, d, q), NEW k \in Offered(p, q.run)
               PROVE  (\E e \in es : Forks(e, d, q.pos + 1, k)) \/ Due(cs, d, q.pos + 1, k)
    BY DEF Varied
  <2>1. CASE d \in ds
    <3>1. (\E e \in ds : Forks(e, d, q.pos + 1, k)) \/ Due(bs, d, q.pos + 1, k)
      BY <2>1 DEF Thorough, Varied
    <3>2. QED
      BY <1>8, <3>1
  <2>2. CASE d = now
    BY <1>4, <1>10, <2>2
  <2>3. QED
    BY <2>1, <2>2
<1>13. QED
  BY <1>9, <1>11, <1>12 DEF Thorough, cs, now

\* The path after the requests of a branch point, and after the branch point.
LEMMA BacktrackContinues ==
  ASSUME branches \in Paths, NEW ops
  PROVE  Continues(branches, Backtrack(ops))
<1> DEFINE bs == Backtrack(ops)
<1>1. /\ Len(bs) = Len(branches)
      /\ \A i \in DOMAIN branches : Chosen(bs[i]) = Chosen(branches[i])
  BY BacktrackIs
<1>2. ASSUME NEW i \in DOMAIN branches
      PROVE  /\ bs[i].kind = branches[i].kind
             /\ branches[i].kind = "Write" => bs[i] = branches[i]
             /\ branches[i].kind = "Schedule" => \A mark \in {"Active", "Visited"} :
                  Marked(bs[i].threads, mark) = Marked(branches[i].threads, mark)
  <2> DEFINE th == branches[i].threads
             new == Backtracked(th, [t \in DOMAIN th |-> Asked(ops, i, t)])
  <2>1. branches[i] \in Schedules \cup Reads
    BY PathIs
  <2>2. CASE branches[i] \in Reads
    <3>1. branches[i].kind = "Write" /\ bs[i] = branches[i]
      BY <2>2, Kinds DEF Backtrack
    <3>2. QED
      BY <3>1
  <2>3. CASE branches[i] \in Schedules
    <3>1. /\ branches[i].kind = "Schedule" /\ th \in [DOMAIN th -> Marks]
          /\ branches[i] = [kind |-> "Schedule", threads |-> th]
      BY <2>3, Kinds
    <3>2. bs[i] = [branches[i] EXCEPT !.threads = new]
      BY <3>1 DEF Backtrack
    <3>3. /\ Marked(new, "Active") = Marked(th, "Active")
          /\ Marked(new, "Visited") = Marked(th, "Visited")
      BY <3>1, BacktrackedIs
    <3> HIDE DEF bs, th, new
    <3>4. bs[i].kind = "Schedule" /\ bs[i].threads = new
      BY <3>1, <3>2
    <3>5. QED
      BY <3>1, <3>3, <3>4 DEF th
  <2>4. QED
    BY <2>1, <2>2, <2>3
<1> HIDE DEF bs
<1>3. QED
  BY <1>1, <1>2 DEF Continues, bs

LEMMA BranchedContinues ==
  ASSUME NEW bs \in Paths, NEW p \in 0 .. Len(bs), NEW seed \in Schedules \cup Reads, Orderly(seed)
  PROVE  LET cs == Branched(bs, p, seed) IN
         /\ cs \in Paths /\ p + 1 \in DOMAIN cs /\ Continues(bs, cs)
         /\ Len(cs) = Len(bs) + 1 => p = Len(bs) /\ cs[Len(cs)] = seed
<1> DEFINE cs == Branched(bs, p, seed)
<1>1. bs \in Seq(Schedules \cup Reads) /\ Len(bs) \in Nat /\ DOMAIN bs = 1 .. Len(bs)
  BY PathIs DEF Paths
<1>2. cs \in Paths /\ p + 1 \in DOMAIN cs
  BY BranchedIs
<1>3. CASE p = Len(bs)
  <2>1. cs = Append(bs, seed)
    BY <1>3 DEF Branched
  <2>2. /\ Len(cs) = Len(bs) + 1 /\ cs[Len(bs) + 1] = seed
        /\ \A i \in 1 .. Len(bs) : cs[i] = bs[i]
    BY <1>1, <2>1, AppendProperties
  <2> HIDE DEF cs
  <2>3. Continues(bs, cs)
    BY <1>1, <2>2 DEF Continues
  <2>4. QED
    BY <1>2, <1>3, <2>2, <2>3 DEF cs
<1>4. CASE p # Len(bs)
  <2>1. cs = bs
    BY <1>4 DEF Branched
  <2>2. Continues(bs, bs)
    BY <1>1 DEF Continues
  <2>3. Len(bs) # Len(bs) + 1
    <3>1. \A n \in Nat : n # n + 1
      OBVIOUS
    <3>2. QED
      BY <1>1, <3>1
  <2>4. QED
    BY <1>2, <2>1, <2>2, <2>3
<1>5. QED
  BY <1>3, <1>4

LEMMA ContinuesDecided ==
  ASSUME NEW bs \in Paths, NEW cs \in Paths, Continues(bs, cs)
  PROVE  \A i \in 1 .. Len(bs) : Decided(cs)[i] = Decided(bs)[i]
<1>1. PICK n \in Nat, m \in Nat : /\ Len(bs) = n /\ DOMAIN bs = 1 .. n
                                /\ Len(cs) = m /\ DOMAIN cs = 1 .. m
  BY PathIs
<1>2. m \in {n, n + 1} /\ \A i \in 1 .. n : Chosen(cs[i]) = Chosen(bs[i])
  BY <1>1 DEF Continues
<1>3. \A i \in 1 .. n : i \in 1 .. m
  BY <1>2
<1>4. QED
  BY <1>1, <1>2, <1>3 DEF Decided

\* On the path there is one point at which the execution meets its last branch.
LEMMA LastMet ==
  ASSUME NEW p, NEW Q, NEW e, NEW bs \in Paths, Closed(p, Q, e, bs), NEW x \in Q,
         Meets(p, x.run), x.pos \in Nat, NEW q, Meets(p, q.run), q.pos = x.pos,
         x.pos + 1 = Len(bs), Passes(p, Decided(bs), q)
  PROVE  q = x
<1>1. Len(bs) \in Nat /\ DOMAIN bs = 1 .. Len(bs)
  BY PathIs
<1>2. q.pos \in 0 .. Len(bs) - 1
  <2> DEFINE l == x.pos
  <2>1. l \in 0 .. (l + 1) - 1
    OBVIOUS
  <2>2. QED
    BY <2>1
<1>3. q \in Q
  BY <1>1, <1>2, WayOfPath
<1>4. QED
  BY <1>3 DEF Closed

\* The branch that the run r has made, at the end of its path.
LEMMA SeedBegins ==
  ASSUME NEW p, NEW cs \in Paths, NEW r, NEW n \in Nat, n + 1 = Len(cs), Meets(p, r), NEW b,
         \E Q, e : Closed(p, Q, e, cs) /\ Point(r, n) \in Q,
         Single(b), b.kind = "Schedule" => Marked(b.threads, "Visited") = {},
         Reading(p, r) => b.kind = "Write" /\ Offered(p, r) \subseteq ToSet(b.writes)
  PROVE  Begun(p, cs, b)
<1> SUFFICES ASSUME NEW q, Reading(p, q.run), q.pos \in Nat, q.pos + 1 = Len(cs),
                    Passes(p, Decided(cs), q)
             PROVE  b.kind = "Write" /\ Offered(p, q.run) \subseteq ToSet(b.writes)
  BY DEF Begun
<1> DEFINE x == Point(r, n)
<1>1. x.run = r /\ x.pos = n
  BY PointIs
<1>2. PICK Q, e : Closed(p, Q, e, cs) /\ x \in Q
  OBVIOUS
<1> HIDE DEF x
<1>3. q.pos = x.pos /\ Meets(p, q.run) /\ Meets(p, x.run) /\ x.pos + 1 = Len(cs) /\ x.pos \in Nat
  BY <1>1 DEF Meets
<1>4. q = x
  BY <1>2, <1>3, LastMet
<1>5. QED
  BY <1>1, <1>4

\* The execution goes on where its path leads it.
LEMMA WayOn ==
  ASSUME NEW p, NEW bs \in Paths, NEW cs \in Paths, NEW r, NEW n \in 0 .. Len(bs),
         Passes(p, Decided(bs), Point(r, n)), n + 1 \in DOMAIN cs, r.active # None,
         \A i \in 1 .. Len(bs) : Decided(cs)[i] = Decided(bs)[i]
  PROVE  Passes(p, Decided(cs), Led(p, Point(r, n), cs))
<1> DEFINE x == Point(r, n)
<1>1. x.run = r /\ x.pos = n
  BY PointIs
<1>2. Len(bs) \in Nat
  BY PathIs
<1>3. n \in Nat /\ \A j \in 1 .. n : j \in 1 .. Len(bs)
  BY <1>2
<1> HIDE DEF x
<1>4. Passes(p, Decided(bs), x) /\ x.pos \in Nat
      /\ \A j \in 1 .. x.pos : Decided(bs)[j] = Decided(cs)[j]
  BY <1>1, <1>3 DEF x
<1>5. Passes(p, Decided(cs), x)
  BY <1>4, SameWay
<1>6. Passes(p, Decided(cs), LedBy(p, Decided(cs), x))
  BY <1>1, <1>4, <1>5, WayGoesOn
<1>7. LedBy(p, Decided(cs), x) = Led(p, x, cs)
  BY <1>1, LedIsLedBy
<1>8. QED
  BY <1>6, <1>7 DEF x

-------------------------------------------------------------------------------
(* It is so of the path, of the one in the file, and of a search that has ended; the    *)
(* execution under way passes the points to which its path leads it.                    *)
Thoroughness ==
  /\ phase \in Searching => Thorough(program, branches, executed)
  /\ Thorough(program, file.branches, file.executed)
  /\ phase = "search" => Passes(program, Decided(branches), Point(Run, pos))
  /\ phase \in {"audit", "refuted"} => Varied(program, <<>>, executed)

\* What the path is after a branch point or a load.
LEMMA PathThorough ==
  ASSUME Conditions, Thoroughness, Run.active # None, Meets(program, Run),
         NEW bs \in Paths, Continues(branches, bs), Len(bs) = Len(branches),
         NEW seed \in Schedules \cup Reads, Orderly(seed), branches' = Branched(bs, pos, seed),
         Single(seed), seed.kind = "Schedule" => Marked(seed.threads, "Visited") = {},
         Reading(program, Run) =>
           seed.kind = "Write" /\ Offered(program, Run) \subseteq ToSet(seed.writes),
         \E Q, e : Closed(program, Q, e, branches') /\ Point(Run, pos) \in Q,
         Point(Run', pos') = Led(program, Point(Run, pos), branches'),
         UNCHANGED <<program, file, executed>>, phase' \in {"search", "failed"}
  PROVE  Thoroughness'
<1>1. /\ phase = "search" /\ branches \in Paths /\ Len(branches) \in Nat
      /\ pos \in 0 .. Len(branches)
  BY ConditionsAre
<1>2. /\ Thorough(program, branches, executed)
      /\ Passes(program, Decided(branches), Point(Run, pos))
      /\ Thorough(program, file.branches, file.executed)
  BY <1>1 DEF Thoroughness, Searching
<1>3. Len(bs) # Len(branches) + 1
  BY <1>1
<1>4. Thorough(program, bs, executed)
  BY <1>1, <1>2, <1>3, ThoroughGrows
<1>5. pos \in 0 .. Len(bs)
  BY <1>1
<1>6. /\ branches' \in Paths /\ pos + 1 \in DOMAIN branches' /\ Continues(bs, branches')
      /\ Len(branches') = Len(bs) + 1 => pos = Len(bs) /\ branches'[Len(branches')] = seed
  BY <1>5, BranchedContinues
<1>7. ASSUME Len(branches') = Len(bs) + 1
      PROVE  Begun(program, branches', branches'[Len(branches')])
  <2>1. pos \in Nat /\ pos + 1 = Len(branches') /\ branches'[Len(branches')] = seed
    BY <1>1, <1>6, <1>7
  <2>2. Begun(program, branches', seed)
    BY <1>6, <2>1, SeedBegins
  <2>3. QED
    BY <2>1, <2>2
<1>8. Thorough(program, branches', executed)
  BY <1>4, <1>6, <1>7, ThoroughGrows
<1>9. \A i \in 1 .. Len(branches) : Decided(branches')[i] = Decided(branches)[i]
  <2>1. \A i \in 1 .. Len(branches) : Decided(bs)[i] = Decided(branches)[i]
    BY <1>1, ContinuesDecided
  <2>2. \A i \in 1 .. Len(bs) : Decided(branches')[i] = Decided(bs)[i]
    BY <1>6, ContinuesDecided
  <2>3. QED
    BY <2>1, <2>2
<1>10. Passes(program, Decided(branches'), Point(Run', pos'))
  BY <1>1, <1>2, <1>6, <1>9, WayOn
<1>11. QED
  BY <1>2, <1>8, <1>10 DEF Thoroughness

LEMMA BranchThorough ==
  ASSUME Conditions, Thoroughness, NEW t \in Threads, Branches(t), phase' # "panicked"
  PROVE  Thoroughness'
<1>1. /\ Deciding(program, Run) /\ pos' = pos + 1
      /\ \E Q, e : Closed(program, Q, e, branches') /\ Point(Run, pos) \in Q
      /\ Point(Run', pos') = Led(program, Point(Run, pos), branches')
      /\ UNCHANGED <<program, file, executed>> /\ phase' \in {"search", "failed"}
  BY BranchReplays
<1>2. PICK ops, st : branches' = Branched(Backtrack(ops), pos, Seed(st))
  BY BranchReplays
<1> DEFINE bs == Backtrack(ops)
           seed == Seed(st)
<1>3. Run.active = t /\ Run.active # None /\ t \in Created
  BY BranchesTurn, RunIs, ConditionsAre DEF Spawned
<1>4. seed \in Schedules \cup Reads /\ Orderly(seed)
  BY ConditionsAre, SeedIs DEF Spawned
<1>5. /\ seed.kind = "Schedule" /\ Marked(seed.threads, "Visited") = {} /\ Single(seed)
  BY DEF Seed, Marked, Single
<1>6. bs \in Paths /\ Continues(branches, bs) /\ Len(bs) = Len(branches)
  BY ConditionsAre, BacktrackIs, BacktrackContinues
<1>7. Meets(program, Run) /\ ~Reading(program, Run)
  BY <1>1 DEF Meets, Deciding, Reading, Branching
<1> HIDE DEF bs, seed
<1>8. branches' = Branched(bs, pos, seed)
  BY <1>2 DEF bs, seed
<1>9. QED
  BY <1>1, <1>3, <1>4, <1>5, <1>6, <1>7, <1>8, PathThorough

LEMMA OfferedIs ==
  ASSUME NEW t \in Threads, At(t, "load", "branched")
  PROVE  Offered(program, Run) = ToSet(Candidates(t, Op(t).obj, Op(t).ord))
<1>1. Run.active = t /\ Doing(program, Run) = Op(t)
  BY Here
<1>2. QED
  BY <1>1, RunIs DEF Offered, Candidates

LEMMA LoadThorough ==
  ASSUME Conditions, Thoroughness, NEW t \in Threads, LoadEnds(t)
  PROVE  Thoroughness'
<1> DEFINE o == Op(t)
           offered == Candidates(t, o.obj, o.ord)
           seed == [kind |-> "Write", writes |-> offered]
<1>1. /\ phase' = phase /\ pos' = pos + 1
      /\ At(t, "load", "branched") /\ Reading(program, Run)
      /\ branches' = Branched(branches, pos, seed)
      /\ \E Q, e : Closed(program, Q, e, branches') /\ Point(Run, pos) \in Q
      /\ Point(Run', pos') = Led(program, Point(Run, pos), branches')
      /\ UNCHANGED <<program, file, executed>>
  BY LoadReplays
<1>2. Run.active = t /\ Run.active # None /\ o.kind = "load" /\ ~AtEnd(t)
  BY <1>1, Here
<1>3. o.obj \in Atomics
  BY <1>2, ConditionsAre, OperationIs DEF Fits
<1>4. /\ offered \in Seq(Nat) /\ offered # <<>>
      /\ \A i, j \in DOMAIN offered : offered[i] = offered[j] => i = j
  BY <1>3, ConditionsAre, CandidatesAre DEF IInv
<1>5. Offered(program, Run) = ToSet(offered)
  BY <1>1, OfferedIs
<1> HIDE DEF offered
<1>6. /\ seed \in Schedules \cup Reads /\ Orderly(seed) /\ seed.kind = "Write"
      /\ seed.writes = offered /\ Single(seed)
  BY <1>4 DEF Reads, Orderly, Single
<1>7. branches \in Paths /\ Continues(branches, branches) /\ Len(branches) = Len(branches)
  BY ConditionsAre DEF Continues
<1>8. Meets(program, Run) /\ phase' = "search"
  BY <1>1, ConditionsAre DEF Meets
<1> HIDE DEF seed
<1>9. QED
  BY <1>1, <1>2, <1>5, <1>6, <1>7, <1>8, PathThorough

LEMMA QuietThorough ==
  ASSUME Conditions, Thoroughness, NEW t \in Threads, Undecided(t)
  PROVE  Thoroughness'
<1>1. /\ active = t /\ UNCHANGED <<branches, pos, program, file, executed>>
      /\ phase' \in {"search", "failed"}
      /\ phase' = "search" => Run' = Alone(program, Run) /\ ~Meets(program, Run)
  BY QuietIs, ConditionsAre
<1>2. /\ Thorough(program, branches, executed) /\ pos \in Nat
      /\ Passes(program, Decided(branches), Point(Run, pos))
      /\ Thorough(program, file.branches, file.executed)
  BY ConditionsAre DEF Thoroughness, Searching
<1>3. ASSUME phase' = "search" PROVE Passes(program, Decided(branches), Point(Run', pos))
  <2> DEFINE x == Point(Run, pos)
  <2>1. x.run = Run /\ x.pos = pos /\ Run.active # None
    BY <1>1, PointIs, RunIs, NoneAssumption
  <2>2. LedBy(program, Decided(branches), x) = Point(Run', pos)
    BY <1>1, <1>3, <2>1 DEF LedBy, Meets
  <2> HIDE DEF x
  <2>3. Passes(program, Decided(branches), LedBy(program, Decided(branches), x))
    BY <1>2, <2>1, WayGoesOn DEF x
  <2>4. QED
    BY <2>2, <2>3
<1>4. QED
  BY <1>1, <1>2, <1>3 DEF Thoroughness, Searching

\* The rest: the loop of iterations, the file, the crashes and the audit.
LEMMA RestThorough ==
  ASSUME IInv, Replays, Thoroughness, Start \/ BeginIteration \/ Save \/ EndIteration \/ Crash
  PROVE  Thoroughness'
<1>1. /\ phase \in Searching /\ Thorough(program, branches, executed) /\ program' = program
      /\ Thorough(program, file.branches, file.executed)
  BY DEF Start, BeginIteration, Save, EndIteration, Crash, Searching, Thoroughness
<1>2. Thorough(program, <<>>, {})
  BY NothingDue
<1>3. CASE Start
  <2>1. /\ branches' = file.branches /\ executed' = file.executed /\ file' = file
        /\ phase' \in {"unreadable", "next"}
    BY <1>3 DEF Start
  <2>2. QED
    BY <1>1, <2>1 DEF Thoroughness
<1>4. CASE BeginIteration \/ Save
  <2>1. /\ phase \in {"next", "saving"} /\ phase' \in {"search", "saving"}
        /\ UNCHANGED <<memory, threads, branches, pos, executed>>
        /\ \/ file' = file
           \/ file'.branches = <<>> /\ file'.executed = {}
           \/ file'.branches = branches /\ file'.executed = executed
    BY <1>4 DEF BeginIteration, Save, search, Torn
  <2>2. Run = FirstRun /\ Run' = Run /\ pos = 0
    BY <2>1 DEF Replays, IInv, Searching, Run, Mem, memory, threads
  <2>3. Passes(program, Decided(branches), Point(Run', pos'))
    BY <2>1, <2>2, WayBegins DEF Begins
  <2>4. Thorough(program, file'.branches, file'.executed)
    BY <1>1, <1>2, <2>1
  <2>5. QED
    BY <1>1, <2>1, <2>3, <2>4 DEF Thoroughness
<1>5. CASE EndIteration
  <2>1. /\ branches' = Stepped(branches) /\ executed' = executed \cup {Decisions} /\ file' = file
        /\ phase' = IF branches' = <<>> THEN "audit" ELSE "next"
    BY <1>5 DEF EndIteration
  <2>2. Decisions = Decided(branches) /\ branches \in Paths
    BY DEF Decisions, Decided, IInv
  <2>3. Thorough(program, branches', executed')
    BY <1>1, <2>1, <2>2, ThoroughSteps
  <2>4. QED
    BY <1>1, <2>1, <2>3 DEF Thoroughness, Thorough
<1>6. CASE Crash
  <2>1. branches' = <<>> /\ executed' = {} /\ phase' = "start" /\ file' = file
    BY <1>6 DEF Crash
  <2>2. QED
    BY <1>1, <1>2, <2>1 DEF Thoroughness
<1>7. QED
  BY <1>3, <1>4, <1>5, <1>6

LEMMA NextThorough ==
  ASSUME IInv, Spawned, Types, Fitting, Thoroughness, [Next]_vars
  PROVE  Thoroughness'
<1>1. CASE Start \/ BeginIteration \/ Save \/ EndIteration \/ Crash
  BY <1>1, RestThorough DEF Fitting
<1>2. ASSUME NEW t \in Threads, Step(t), phase = "search" PROVE Thoroughness'
  <2>1. Conditions
    BY <1>2 DEF Conditions, Fitting
  <2>2. CASE Branches(t)
    <3>1. CASE phase' = "panicked"
      <4>1. PICK st, op, where : Turns(t, st, op, where)
        BY <2>2, BranchesTurn
      <4>2. UNCHANGED process
        BY <4>1 DEF Turns, Branch, Panic
      <4>3. QED
        BY <3>1, <4>2 DEF Thoroughness, Searching, process
    <3>2. CASE phase' # "panicked"
      BY <2>1, <2>2, <3>2, BranchThorough
    <3>3. QED
      BY <3>1, <3>2
  <2>3. CASE LoadEnds(t)
    BY <2>1, <2>3, LoadThorough
  <2>4. CASE Undecided(t)
    BY <2>1, <2>4, QuietThorough
  <2>5. QED
    BY <1>2, <2>2, <2>3, <2>4 DEF Step, Branches, Undecided
<1>3. ASSUME NEW t \in Threads, Step(t), phase # "search" PROVE Thoroughness'
  <2>1. /\ phase = "audit" /\ phase' \in {"audit", "refuted"}
        /\ UNCHANGED <<program, file, executed>>
    BY <1>3, AuditStays
  <2>2. QED
    BY <2>1 DEF Thoroughness, Searching
<1>4. CASE UNCHANGED vars
  <2>1. Run' = Run
    BY <1>4 DEF vars, memory, threads, Run, Mem
  <2>2. QED
    BY <1>4, <2>1 DEF vars, process, search, Thoroughness
<1>5. QED
  BY <1>1, <1>2, <1>3, <1>4 DEF Next, Work

LEMMA InitThorough ==
  ASSUME Init
  PROVE  Thoroughness
<1>1. /\ phase = "start" /\ branches = <<>> /\ executed = {}
      /\ file.branches = <<>> /\ file.executed = {}
  BY DEF Init, NoFile
<1>2. QED
  BY <1>1, NothingDue DEF Thoroughness

LEMMA ThoroughAlways == Spec => [](IInv /\ Spawned /\ Types /\ Fitting /\ Thoroughness)
<1>1. Init => Fitting /\ Thoroughness
  <2> SUFFICES ASSUME Init PROVE Fitting /\ Thoroughness
    OBVIOUS
  <2>1. Replays /\ Awake
    BY InitReplays
  <2>2. Lasting /\ Rooted /\ phase = "start"
    BY FirstRoots DEF Init
  <2>3. QED
    BY <2>1, <2>2, InitThorough DEF Fitting
<1>2. IInv /\ Spawned /\ Types /\ Fitting /\ Thoroughness /\ [Next]_vars
        => Fitting' /\ Thoroughness'
  BY NextFits, NextThorough
<1>3. QED
  BY <1>1, <1>2, Invariant, PTL DEF Spec

\* Nothing is given up untried: Path::step takes a thread off a schedule, and a write off
\* the ones a load was offered, only when an execution has gone that way (path.rs step,
\* branch_thread and branch_write; execution.rs schedule, atomic.rs pick_write), and the
\* checkpoint file keeps it so across a crash (fuzz.rs).
THEOREM NothingIsSkipped == Spec => []NothingSkipped
<1>1. ASSUME IInv, Spawned, Types, Fitting, Thoroughness PROVE NothingSkipped
  <2>1. branches \in Paths /\ pos \in 0 .. Len(branches) /\ Len(branches) \in Nat
        /\ DOMAIN branches = 1 .. Len(branches)
    BY <1>1, PathIs DEF IInv
  <2>2. ASSUME NEW d, NEW i \in DOMAIN branches, NEW v, Forks(d, Decided(branches), i, v)
        PROVE  Went(d, i, v)
    <3>1. \A j \in 1 .. i - 1 : Decided(branches)[j] = Chosen(branches[j])
      <4>1. \A l \in 1 .. Len(branches) : \A j \in 1 .. l - 1 : j \in 1 .. Len(branches)
        BY <2>1
      <4>2. QED
        BY <2>1, <4>1 DEF Decided
    <3>2. QED
      BY <2>2, <3>1 DEF Forks, Went
  <2>3. ASSUME phase \in Searching, NEW i \in DOMAIN branches, branches[i].kind = "Schedule",
               NEW t \in Marked(branches[i].threads, "Visited")
        PROVE  \E d \in executed : Went(d, i, t)
    BY <1>1, <2>2, <2>3 DEF Thoroughness, Thorough, Tried
  <2>4. ASSUME NEW t \in Threads, phase = "search", At(t, "load", "branched"),
               pos < Len(branches), NEW k \in ToSet(Candidates(t, Op(t).obj, Op(t).ord))
        PROVE  \/ k \in ToSet(branches[pos + 1].writes)
               \/ \E d \in executed : Went(d, pos + 1, k)
    <3> DEFINE x == Point(Run, pos)
    <3>1. x.run = Run /\ x.pos = pos
      BY PointIs
    <3>2. Reading(program, Run) /\ k \in Offered(program, Run)
      BY <2>4, Here, OfferedIs, RunIs DEF Reading
    <3>3. Passes(program, Decided(branches), x) /\ Covered(program, branches, executed)
      BY <1>1, <2>4 DEF Thoroughness, Thorough, Searching
    <3>4. pos \in 0 .. Len(branches) - 1 /\ pos + 1 \in DOMAIN branches
      BY <2>1, <2>4
    <3> HIDE DEF x
    <3>5. \/ k \in ToSet(branches[pos + 1].writes)
          \/ \E d \in executed : Forks(d, Decided(branches), pos + 1, k)
      BY <3>1, <3>2, <3>3, <3>4 DEF Covered
    <3>6. QED
      BY <2>2, <3>4, <3>5
  <2>5. QED
    BY <2>3, <2>4 DEF NothingSkipped, Searching
<1>2. QED
  BY <1>1, ThoroughAlways, PTL

\* When the search is over, each load of each execution has been given every write that it
\* was offered: there is an execution that came there the same way and read that write.
AllRead ==
  \A d \in executed : \A q :
    Reading(program, q.run) /\ q.pos \in Nat /\ q.pos + 1 \in DOMAIN d /\ Passes(program, d, q) =>
      \A k \in Offered(program, q.run) : \E e \in executed : Forks(e, d, q.pos + 1, k)

\* A search that ends has done so for whatever path, file and crashes: the writes that
\* pick_write offers are all given, one execution each, before Path::step says that none is
\* left (atomic.rs pick_write and load, path.rs branch_write and step, fuzz.rs).
THEOREM EveryWriteIsRead == Spec => [](phase \in {"audit", "refuted"} => AllRead)
<1>1. ASSUME Thoroughness, phase \in {"audit", "refuted"} PROVE AllRead
  <2> SUFFICES ASSUME NEW d \in executed, NEW q, Reading(program, q.run), q.pos \in Nat,
                      q.pos + 1 \in DOMAIN d, Passes(program, d, q),
                      NEW k \in Offered(program, q.run)
               PROVE  \E e \in executed : Forks(e, d, q.pos + 1, k)
    BY DEF AllRead
  <2>1. (\E e \in executed : Forks(e, d, q.pos + 1, k)) \/ Due(<<>>, d, q.pos + 1, k)
    BY <1>1 DEF Thoroughness, Varied
  <2>2. DOMAIN <<>> = {}
    BY EmptySeq
  <2>3. ~Due(<<>>, d, q.pos + 1, k)
    BY <2>2 DEF Due
  <2>4. QED
    BY <2>1, <2>3
<1>2. QED
  BY <1>1, ThoroughAlways, PTL
===============================================================================
