--------------------------------- MODULE Path ---------------------------------
(***************************************************************************)
(* The path of an execution, src/syncbox-fuzz/src/rt/path.rs: a stack of    *)
(* branch points with what is left to try at each.  A branch carries its    *)
(* entry of `schedules` or `writes`: those two stacks are pushed and popped *)
(* together with `branches`, so an index is always the entry's own place.   *)
(***************************************************************************)
EXTENDS VersionVec, Sequences, FiniteSetsExt

CONSTANT None   \* no thread can run

ASSUME NoneAssumption == None \notin Threads

Marks == {"Disabled", "Skip", "Pending", "Active", "Visited"}

\* Branch::Schedule: the marks of the threads that exist at the branch point.
\* Branch::Write: the writes a load may still be given, the current one first.
IsBranch(b) ==
  \/ b.kind = "Schedule" /\ \E n \in Threads : b.threads \in [0 .. n -> Marks]
  \/ b.kind = "Write" /\ b.writes \in Seq(Nat) /\ b.writes # <<>>
ArePath(bs) == \A i \in DOMAIN bs : IsBranch(bs[i])

Marked(threads, m) == {t \in DOMAIN threads : threads[t] = m}

\* What a branch point currently decides: a thread, or none, or a
\* write.
Chosen(b) ==
  IF b.kind = "Write" THEN Head(b.writes)
  ELSE IF Marked(b.threads, "Active") = {} THEN None
       ELSE Min(Marked(b.threads, "Active"))

\* branch_thread and branch_write: at the end of the path the seed is pushed;
\* elsewhere the execution is a replay and the seed is not looked at.
Branched(branches, pos, seed) ==
  IF pos = Len(branches) THEN Append(branches, seed) ELSE branches

-------------------------------------------------------------------------------
\* Mutant of Explore: a thread that was tried is tried again.
MutExploreVisited(threads, ts) ==
  [t \in DOMAIN threads |->
     IF t \in ts /\ threads[t] \in {"Skip", "Visited"} THEN "Pending" ELSE threads[t]]

\* Thread::explore, of the threads ts
Explore(threads, ts) ==
  [t \in DOMAIN threads |-> IF t \in ts /\ threads[t] = "Skip" THEN "Pending" ELSE threads[t]]

\* Schedule::backtrack, for every thread t as often as asked[t] says.  A request
\* that finds its thread Pending already explores them all (is_enabled is
\* !is_pending); one for a Disabled thread has no effect.
Backtracked(threads, asked) ==
  LET again == {t \in DOMAIN threads :
                  \/ threads[t] = "Pending" /\ asked[t] > 0
                  \/ threads[t] = "Skip" /\ asked[t] > 1} IN
  Explore(threads, IF again = {} THEN {t \in DOMAIN threads : asked[t] > 0}
                   ELSE DOMAIN threads)

\* Mutant of HasMore: the last write is popped too, and its branch is left.
MutHasMoreAny(b) ==
  IF b.kind = "Write" THEN b.writes # <<>> ELSE Marked(b.threads, "Pending") # {}

\* Path::step, of the top branch: the decision after the current one.
HasMore(b) ==
  IF b.kind = "Write" THEN Len(b.writes) > 1 ELSE Marked(b.threads, "Pending") # {}

Advanced(b) ==
  IF b.kind = "Write" THEN [b EXCEPT !.writes = Tail(@)]
  ELSE [b EXCEPT !.threads =
          [t \in DOMAIN @ |->
             IF t = Min(Marked(@, "Pending")) THEN "Active"
             ELSE IF @[t] = "Active" THEN "Visited" ELSE @[t]]]

Open(branches) == {i \in DOMAIN branches : HasMore(branches[i])}

\* Mutant of Stepped: the branches after the one that changes are not popped.
MutSteppedKeep(branches) ==
  IF Open(branches) = {} THEN <<>>
  ELSE [branches EXCEPT ![Max(Open(branches))] = Advanced(@)]

\* Path::step: branches with nothing left to try are popped; the path is empty
\* when the search is over.
Stepped(branches) ==
  IF Open(branches) = {} THEN <<>>
  ELSE LET n == Max(Open(branches)) IN
       [SubSeq(branches, 1, n) EXCEPT ![n] = Advanced(@)]
===============================================================================
