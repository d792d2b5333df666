-------------------------------- MODULE Search --------------------------------
(***************************************************************************)
(* The search of the fuzz engine over the executions of a program:          *)
(* src/syncbox-fuzz/src/fuzz.rs (the loop and its checkpoint file),         *)
(* rt/{mod,execution,object}.rs (branch points and the dynamic partial      *)
(* order reduction), on top of Path and Memory.                             *)
(*                                                                          *)
(* A program is one sequence of operations per thread.  When its search has *)
(* ended it is run once more under a free scheduler (phase "audit"), with   *)
(* the same operations: the search promises that no such run can show what  *)
(* it has not seen.                                                         *)
(***************************************************************************)
EXTENDS Path, Memory

CONSTANTS Mutexes,
          Programs,    \* the programs tried, [Threads -> sequences of operations]
          Interval,    \* Builder.checkpoint_interval
          MaxCrashes   \* bound: crashes of the process

ASSUME SearchAssumption == Interval \in Nat \ {0} /\ MaxCrashes \in Nat

\* An operation is one on an object of its kind.
Fits(op) ==
  /\ op.kind \in {"load", "store", "rmw", "cas"} =>
       op.obj \in Atomics /\ op.ord \in {"Relaxed", "Release", "Acquire", "AcqRel", "SeqCst"}
  /\ op.kind \in {"store", "cas"} => op.val \in Nat
  /\ op.kind \in {"lock", "unlock"} => op.obj \in Mutexes
  /\ op.kind \in {"get", "set"} => op.obj \in Cells
  /\ op.kind \in {"send", "join"} => op.obj \in Threads

ASSUME ProgramsAssumption ==
  \A p \in Programs :
    /\ DOMAIN p = Threads
    /\ \A t \in Threads : p[t] \in Seq(ToSet(p[t])) /\ \A op \in ToSet(p[t]) : Fits(op)

VARIABLES program, phase,
          status,     \* Thread.state, "Absent" before new_thread
          operation,  \* Thread.operation
          active,     \* Set.active
          pc, stage,  \* where each thread is in its program, and in that operation
          owner,      \* Mutex.lock
          dpor,       \* Thread.dpor_vv
          last,       \* object::Set: the last accesses of each object
          branches,   \* Path ...
          pos,        \* ... and how many of them this iteration went through
          iteration,  \* i of Builder::fuzz, modulo the interval
          file,       \* the checkpoint file
          crashes,
          trace,      \* history: what the iteration has done
          accesses,   \* history: the accesses of the iteration, with their vectors
          overlooked, \* history: whether a race went without a request
          visited,    \* history: the outcomes of the iterations that ended
          executed    \* history: the decisions of the iterations before this path

threads == <<status, operation, active, pc, stage, owner>>
search == <<dpor, last, branches, pos>>
process == <<program, iteration, file, crashes, visited, executed>>
marks == <<accesses, overlooked>>
vars == <<memory, threads, search, process, phase, trace, marks>>

Objects == Atomics \cup Mutexes \cup Threads
Created == {t \in Threads : status[t] # "Absent"}
AtEnd(t) == pc[t] > Len(program[t])
Op(t) == program[t][pc[t]]
NoOp == [kind |-> "none"]

\* object::Access; path 0 is None, and its vector that of an access before all.
NoAccess == [path |-> 0, dpor |-> Zero]

\* last_dependent_accesses: the accesses of its object an operation depends on, and
\* set_last_access: those it takes the place of.  A mutex and a thread keep one.
DependsOn(op) ==
  CASE op.kind = "none" -> {} [] op.kind = "load" -> {"store"} [] op.kind = "store" -> {"load"}
    [] op.kind \in {"rmw", "cas"} -> {"load", "store"} [] OTHER -> {"any"}
Replaces(op) ==
  CASE op.kind \in {"load", "store"} -> {op.kind}
    [] op.kind \in {"rmw", "cas"} -> {"load", "store"} [] OTHER -> {"any"}

-------------------------------------------------------------------------------
Panic ==
  /\ phase' = "panicked"
  /\ UNCHANGED <<threads, search, process, marks>>

\* How often the next operation of t (of ops) asks to be tried at branch i: once for
\* each access it depends on that was made there and is not known to come before.
Asked(ops, i, t) ==
  Cardinality({f \in DependsOn(ops[t]) :
                 LET access == last[ops[t].obj][f] IN
                 access.path = i /\ ~Leq(access.dpor, dpor[t])})

\* History: the next operation of some thread races with an access a of the
\* iteration, and at no access it asks for, a or one that a comes before, is the
\* thread one that could have run.  Loads do not race, nor does a join with the send it
\* waits for.
Overlooks(ops) ==
  \E t \in Threads, a \in accesses :
    /\ ops[t] # NoOp /\ ops[t].obj = a.obj /\ {a.kind, ops[t].kind} \notin {{"load"}, {"send", "join"}}
    /\ ~Before(a.dpor, dpor[t])
    /\ \A f \in DependsOn(ops[t]) :
         LET l == last[a.obj][f] IN
         \/ Leq(l.dpor, dpor[t]) \/ ~Before(a.dpor, l.dpor)
         \/ branches[l.path].threads[t] = "Disabled"

Backtrack(ops) ==
  [i \in DOMAIN branches |->
     IF branches[i].kind = "Write" THEN branches[i]
     ELSE [branches[i] EXCEPT !.threads =
             Backtracked(@, [t \in DOMAIN @ |-> Asked(ops, i, t)])]]

\* The threads a new schedule begins with: the active one goes on if it can.
Seed(st) ==
  LET ready == {t \in Created : st[t] = "Runnable"} IN
  [kind |-> "Schedule", threads |->
     [t \in Created |->
        IF t \notin ready THEN "Disabled"
        ELSE IF t = IF active \in ready THEN active ELSE Min(ready) THEN "Active"
        ELSE "Skip"]]

\* Mutant of Access: the thread's own counter is not incremented.
MutAccessNoInc(op, i, t) ==
  IF op = NoOp THEN UNCHANGED <<dpor, last, accesses>>
  ELSE /\ dpor' = [dpor EXCEPT ![t] = [u \in Threads |->
            Max({@[u]} \cup {last[op.obj][f].dpor[u] : f \in DependsOn(op)})]]
       /\ last' = [last EXCEPT ![op.obj] = [f \in DOMAIN @ |->
            IF f \in Replaces(op) THEN [path |-> i, dpor |-> dpor'[t]] ELSE @[f]]]
       /\ accesses' = accesses \cup {[obj |-> op.obj, kind |-> op.kind, dpor |-> dpor'[t]]}

\* The thread t, chosen at branch i, accesses the object of its operation.
Access(op, i, t) ==
  IF op = NoOp THEN UNCHANGED <<dpor, last, accesses>>
  ELSE /\ dpor' = [dpor EXCEPT ![t] = Inc([u \in Threads |->
            Max({@[u]} \cup {last[op.obj][f].dpor[u] : f \in DependsOn(op)})], t)]
       /\ last' = [last EXCEPT ![op.obj] = [f \in DOMAIN @ |->
            IF f \in Replaces(op) THEN [path |-> i, dpor |-> dpor'[t]] ELSE @[f]]]
       /\ accesses' = accesses \cup {[obj |-> op.obj, kind |-> op.kind, dpor |-> dpor'[t]]}

Nobody(st) == IF \A t \in Threads : st[t] \in {"Absent", "Terminated"} THEN phase
              ELSE IF phase = "audit" THEN "refuted" ELSE "failed"

\* Execution::schedule, with the states st and the operations ops of the threads.
\* schedule_mut and backtrack panic when a thread is asked for at a branch that is
\* older than the thread; branch_thread when the replay meets another kind of branch;
\* and Set::active when the replay chooses a thread that is not there.
Schedule(st, ops) ==
  /\ pos' = pos + 1
  /\ branches' = Branched(Backtrack(ops), pos, Seed(st))
  /\ active' = Chosen(branches'[pos'])
  /\ overlooked' = (overlooked \/ Overlooks(ops))
  /\ IF active' = None THEN phase' = Nobody(st) /\ UNCHANGED <<dpor, last, accesses>>
     ELSE Access(ops[active'], pos', active') /\ UNCHANGED phase

Unprepared(ops) ==
  \/ \E i \in DOMAIN branches, t \in Threads :
       /\ Asked(ops, i, t) > 0
       /\ branches[i].kind = "Write" \/ t \notin DOMAIN branches[i].threads
  \/ /\ pos < Len(branches)
     /\ \/ branches[pos + 1].kind = "Write"
        \/ Chosen(branches[pos + 1]) \notin Created \cup {None}

\* The audit picks any thread that can run.
Free(st) ==
  LET ready == {t \in Created : st[t] = "Runnable"} IN
  /\ \/ active' \in ready /\ UNCHANGED phase
     \/ ready = {} /\ active' = None /\ phase' = Nobody(st)
  /\ UNCHANGED <<search, marks>>

Switch(st, ops) ==
  IF phase = "audit" THEN Free(st) ELSE Schedule(st, ops)

-------------------------------------------------------------------------------
\* The active thread is at an operation of the kind, at that stage of it: in its
\* program, before the branch point; parked (join only); or after the branch point.
At(t, kind, where) ==
  /\ phase \in {"search", "audit"} /\ active = t /\ ~AtEnd(t)
  /\ Op(t).kind = kind /\ stage[t] = where

\* What happened, for the history: rf is the write that was read and wr the one that
\* was made, by their places in Atomic.writes; 0 is none.
Event(t, rf, wr, val) ==
  [by |-> t, op |-> Op(t), rf |-> rf, wr |-> wr, val |-> val]
Did(t, rf, wr, val) == trace' = Append(trace, Event(t, rf, wr, val))

\* The operation returns to the program.
Return(t) ==
  /\ pc' = [pc EXCEPT ![t] = @ + 1] /\ stage' = [stage EXCEPT ![t] = "client"]

\* rt::branch, rt::park and rt::thread_done: thread t is to be in state st, with the
\* operation op, when it switches.
Branch(t, st, op, where) ==
  LET ops == [operation EXCEPT ![t] = op]  states == [status EXCEPT ![t] = st] IN
  IF phase = "search" /\ Unprepared(ops) THEN Panic
  ELSE /\ status' = states /\ operation' = ops /\ Switch(states, ops)
       /\ stage' = [stage EXCEPT ![t] = where]
       /\ UNCHANGED <<pc, owner, process>>

\* branch_load, branch_store, branch_rmw
BranchAtomic(t) ==
  /\ \E kind \in {"load", "store", "rmw", "cas"} : At(t, kind, "client")
  /\ Branch(t, "Runnable", Op(t), "branched") /\ UNCHANGED <<memory, trace>>

\* branch_acquire(is_locked)
BranchLock(t) ==
  /\ At(t, "lock", "client")
  /\ Branch(t, IF owner[Op(t).obj] = None THEN "Runnable" ELSE "Blocked", Op(t), "branched")
  /\ UNCHANGED <<memory, trace>>

-------------------------------------------------------------------------------
\* Atomic::load, given write k.  The program may return on what it reads.  branch_write
\* panics when the replay meets another kind of branch, and the load when the write it
\* was given before is not there.
Given(t, k) ==
  LET val == writes[Op(t).obj][k].value IN
  /\ Load(t, Op(t).obj, Op(t).ord, k) /\ Did(t, k, 0, val)
  /\ IF val \in Op(t).leaves THEN pc' = [pc EXCEPT ![t] = Len(program[t]) + 1]
     ELSE pc' = [pc EXCEPT ![t] = @ + 1]
  /\ stage' = [stage EXCEPT ![t] = "client"]
  /\ UNCHANGED <<marks, phase, status, operation, active, owner, dpor, last, process>>

LoadEnds(t) ==
  LET a == Op(t).obj
      offered == Candidates(t, a, Op(t).ord)
      path == Branched(branches, pos, [kind |-> "Write", writes |-> offered])
      next == path[pos + 1]
  IN  /\ At(t, "load", "branched")
      /\ IF phase = "audit"
         THEN /\ \E n \in DOMAIN offered : Given(t, offered[n])
              /\ UNCHANGED <<branches, pos>>
         ELSE IF next.kind = "Schedule" \/ Chosen(next) \notin DOMAIN writes[a]
         THEN Panic /\ UNCHANGED <<memory, trace>>
         ELSE branches' = path /\ pos' = pos + 1 /\ Given(t, Chosen(next))

StoreEnds(t) ==
  LET a == Op(t).obj IN
  /\ At(t, "store", "branched")
  /\ Store(t, a, Op(t).val, Op(t).ord)
  /\ Did(t, 0, Len(writes[a]) + 1, 0) /\ Return(t)
  /\ UNCHANGED <<marks, phase, status, operation, active, owner, search, process>>

\* fetch_add(1), for every rmw
RmwEnds(t) ==
  LET a == Op(t).obj  n == Len(writes[a]) IN
  /\ At(t, "rmw", "branched")
  /\ Rmw(t, a, writes[a][n].value + 1, Op(t).ord)
  /\ Did(t, n, n + 1, writes[a][n].value) /\ Return(t)
  /\ UNCHANGED <<marks, phase, status, operation, active, owner, search, process>>

\* compare_and_swap: its order when it fails is the one it loads with.
OnFailure(ord) ==
  CASE ord \in {"Relaxed", "Release"} -> "Relaxed"
    [] ord \in {"Acquire", "AcqRel"} -> "Acquire" [] OTHER -> "SeqCst"

CasEnds(t) ==
  LET a == Op(t).obj  n == Len(writes[a])  found == writes[a][n].value = Op(t).cur IN
  /\ At(t, "cas", "branched")
  /\ IF found THEN Rmw(t, a, Op(t).val, Op(t).ord) ELSE Load(t, a, OnFailure(Op(t).ord), n)
  /\ Did(t, n, IF found THEN n + 1 ELSE 0, writes[a][n].value) /\ Return(t)
  /\ UNCHANGED <<marks, phase, status, operation, active, owner, search, process>>

\* The loops of Mutex::acquire and Mutex::release over the threads whose operation is
\* on the mutex.
Contenders(t, st) ==
  [u \in Threads |-> IF u # t /\ operation[u] # NoOp /\ operation[u].obj = Op(t).obj
                     THEN st ELSE status[u]]

LockEnds(t) ==
  /\ At(t, "lock", "branched")
  /\ Fence(t) /\ status' = Contenders(t, "Blocked")
  /\ owner' = [owner EXCEPT ![Op(t).obj] = t]
  /\ Did(t, 0, 0, 0) /\ Return(t)
  /\ UNCHANGED <<marks, phase, operation, active, search, process>>

UnlockEnds(t) ==
  /\ At(t, "unlock", "client")
  /\ Fence(t) /\ status' = Contenders(t, "Runnable")
  /\ owner' = [owner EXCEPT ![Op(t).obj] = None]
  /\ Did(t, 0, 0, 0) /\ Return(t)
  /\ UNCHANGED <<marks, phase, operation, active, search, process>>

\* CausalCell::with and with_mut panic on an access they hold to be a race.
CellAccess(t) ==
  LET c == Op(t).obj IN
  /\ At(t, "get", "client") \/ At(t, "set", "client")
  /\ IF Races(t, c)
     THEN /\ phase' = IF phase = "audit" THEN "refuted" ELSE "failed"
          /\ UNCHANGED <<memory, threads, search, process, trace, marks>>
     ELSE /\ IF Op(t).kind = "set" THEN WithMut(t, c) ELSE UNCHANGED memory
          /\ Did(t, 0, 0, 0) /\ Return(t)
          /\ UNCHANGED <<marks, phase, status, operation, active, owner, search, process>>

-------------------------------------------------------------------------------
\* rt::spawn: the next thread id.
SpawnEnds(t) ==
  LET u == Cardinality(Created) IN
  /\ At(t, "spawn", "client")
  /\ Inherit(t, u) /\ dpor' = [dpor EXCEPT ![u] = Join(@, dpor[t])]
  /\ status' = [status EXCEPT ![u] = "Runnable"]
  /\ Did(t, 0, 0, u) /\ Return(t)
  /\ UNCHANGED <<marks, phase, operation, active, owner, last, branches, pos, process>>

\* The end of a thread::spawn closure: branch_unpark(true), ...
BranchSend(t) ==
  /\ At(t, "send", "client") /\ Fence(t) /\ Did(t, 0, 0, 0)
  /\ Branch(t, "Runnable", Op(t), "branched")

\* ... then Sender::send, which unparks the thread that is in recv.
SendEnds(t) ==
  LET rx == {u \in Threads : stage[u] = "parked" /\ Op(u).obj = t} IN
  /\ At(t, "send", "branched") /\ Return(t)
  /\ IF rx = {} THEN UNCHANGED <<memory, status>>
     ELSE Hand(t, Min(rx)) /\ status' = [status EXCEPT ![Min(rx)] = "Runnable"]
  /\ UNCHANGED <<marks, phase, operation, active, owner, search, process, trace>>

\* recv parks when nothing is sent yet, ...
JoinParks(t) ==
  /\ At(t, "join", "client") /\ ~AtEnd(Op(t).obj)
  /\ Branch(t, "Blocked", NoOp, "parked") /\ UNCHANGED <<memory, trace>>

\* ... and branch_park(true) follows.
BranchJoin(t) ==
  /\ At(t, "join", "client") \/ At(t, "join", "parked")
  /\ AtEnd(Op(t).obj)
  /\ Fence(t) /\ Did(t, 0, 0, 0)
  /\ Branch(t, "Runnable", Op(t), "branched")

JoinEnds(t) ==
  /\ At(t, "join", "branched") /\ Return(t)
  /\ UNCHANGED <<memory, phase, status, operation, active, owner, search, process, trace, marks>>

\* rt::thread_done
Finish(t) ==
  /\ phase \in {"search", "audit"} /\ active = t /\ AtEnd(t)
  /\ Branch(t, "Terminated", NoOp, "client") /\ UNCHANGED <<memory, trace>>

Step(t) ==
  \/ BranchAtomic(t) \/ BranchLock(t) \/ BranchSend(t) \/ JoinParks(t) \/ BranchJoin(t)
  \/ LoadEnds(t) \/ StoreEnds(t) \/ RmwEnds(t) \/ CasEnds(t)
  \/ LockEnds(t) \/ UnlockEnds(t) \/ CellAccess(t)
  \/ SpawnEnds(t) \/ SendEnds(t) \/ JoinEnds(t) \/ Finish(t)

-------------------------------------------------------------------------------
\* Execution::new and Execution::step: an iteration starts with the root thread.
All(value) == [t \in Threads |-> value]
OnlyRoot == [All("Absent") EXCEPT ![Root] = "Runnable"]
NoAccesses == [o \in Objects |-> [f \in {"load", "store", "any"} |-> NoAccess]]

Reset ==
  /\ status' = OnlyRoot /\ operation' = All(NoOp) /\ active' = Root
  /\ pc' = All(1) /\ stage' = All("client") /\ owner' = [m \in Mutexes |-> None]
  /\ dpor' = All(Zero) /\ last' = NoAccesses /\ pos' = 0 /\ trace' = <<>> /\ accesses' = {}
  /\ MemoryReset

NoFile == [is |-> "absent", branches |-> <<>>, executed |-> {}]
Torn == [is |-> "torn", branches |-> <<>>, executed |-> {}]

Init ==
  /\ program \in Programs /\ phase = "start"
  /\ status = OnlyRoot /\ operation = All(NoOp) /\ active = Root
  /\ pc = All(1) /\ stage = All("client") /\ owner = [m \in Mutexes |-> None]
  /\ dpor = All(Zero) /\ last = NoAccesses /\ pos = 0 /\ trace = <<>> /\ accesses = {}
  /\ overlooked = FALSE
  /\ MemoryInit
  /\ branches = <<>> /\ iteration = 0 /\ file = NoFile /\ crashes = 0
  /\ visited = {} /\ executed = {}

\* Builder::fuzz before its loop: the path is the file's.  An empty file does not
\* parse, and unwrap panics.
Start ==
  /\ phase = "start"
  /\ phase' = IF file.is = "torn" THEN "unreadable" ELSE "next"
  /\ branches' = file.branches /\ executed' = file.executed /\ iteration' = 0
  /\ UNCHANGED <<memory, threads, dpor, last, pos, program, file, crashes, visited, trace, marks>>

\* The top of the loop: File::create empties the checkpoint file ...
BeginIteration ==
  /\ phase = "next" /\ iteration' = (iteration + 1) % Interval
  /\ IF iteration' = 0 THEN phase' = "saving" /\ file' = Torn
     ELSE phase' = "search" /\ UNCHANGED file
  /\ UNCHANGED <<memory, threads, search, program, crashes, visited, executed, trace, marks>>

\* Mutant of Save: what is saved is the path after this iteration.
MutSaveAhead ==
  /\ phase = "saving" /\ phase' = "search"
  /\ file' = [is |-> "whole", branches |-> Stepped(branches), executed |-> executed]
  /\ UNCHANGED <<memory, threads, search, program, iteration, crashes, visited, executed,
                 trace, marks>>

\* ... and write_all fills it.
Save ==
  /\ phase = "saving" /\ phase' = "search"
  /\ file' = [is |-> "whole", branches |-> branches, executed |-> executed]
  /\ UNCHANGED <<memory, threads, search, program, iteration, crashes, visited, executed,
                 trace, marks>>

\* What a program can tell of a run: the values its operations returned.
Outcome ==
  [t \in Threads |-> LET mine(e) == e.by = t /\ e.rf > 0
                         seen == SelectSeq(trace, mine)
                     IN [i \in DOMAIN seen |-> seen[i].val]]

Decisions == [i \in DOMAIN branches |-> Chosen(branches[i])]

\* The bottom of the loop: Execution::step.  A search that is over is audited.
EndIteration ==
  /\ phase = "search" /\ active = None
  /\ visited' = visited \cup {Outcome} /\ executed' = executed \cup {Decisions}
  /\ branches' = Stepped(branches)
  /\ phase' = IF branches' = <<>> THEN "audit" ELSE "next"
  /\ Reset
  /\ UNCHANGED <<program, iteration, file, crashes, overlooked>>

\* The process is killed, and started again.
Crash ==
  /\ phase \in {"next", "saving", "search"} /\ crashes < MaxCrashes
  /\ crashes' = crashes + 1 /\ phase' = "start"
  /\ branches' = <<>> /\ executed' = {} /\ iteration' = 0
  /\ Reset
  /\ UNCHANGED <<program, file, visited, overlooked>>

Work == Start \/ BeginIteration \/ Save \/ EndIteration \/ \E t \in Threads : Step(t)
Next == Work \/ Crash

Spec == Init /\ [][Next]_vars /\ WF_vars(Work)
===============================================================================
