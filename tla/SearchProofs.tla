------------------------------ MODULE SearchProofs ------------------------------
(***************************************************************************)
(* For any programs, any number of threads and any crashes:                 *)
(*                                                                          *)
(* - the search runs no execution twice, within a process or after it       *)
(*   resumed from its checkpoint file.  The argument is about the path      *)
(*   alone: each execution of the past has left it by a decision that is    *)
(*   marked as given up, and no request of the reduction and no step of the *)
(*   path takes one up again;                                               *)
(* - no load is offered a write it must not read, and no race is reported   *)
(*   that is none.  There are vectors, one for each event of the history,   *)
(*   that grow along the order of events, and the engine's clocks are above *)
(*   those of what they hand on.                                            *)
(***************************************************************************)
EXTENDS SearchProperties, FiniteSetTheorems, SequenceTheorems, WellFoundedInduction, TLAPS

-------------------------------------------------------------------------------
(* The inductive invariant. *)

\* What a branch point can be: a schedule, in which a thread waits to be tried only
\* where one runs, or the writes left for a load, none of them twice.
Schedules == [kind : {"Schedule"}, threads : UNION {[0 .. n -> Marks] : n \in Threads}]
Reads == [kind : {"Write"}, writes : Seq(Nat)]

Orderly(b) ==
  \/ /\ b \in Schedules
     /\ Marked(b.threads, "Skip") \cup Marked(b.threads, "Pending") # {}
          => Marked(b.threads, "Active") # {}
  \/ /\ b \in Reads /\ b.writes # <<>>
     /\ \A i, j \in DOMAIN b.writes : b.writes[i] = b.writes[j] => i = j

Paths == {bs \in Seq(Schedules \cup Reads) : \A i \in DOMAIN bs : Orderly(bs[i])}

\* A decision that was made at the branch and given up.
Spent(b, d) ==
  IF b.kind = "Write" THEN d \notin ToSet(b.writes) ELSE d \in Marked(b.threads, "Visited")

\* Each execution of the past left the path at a branch, by a decision given up there.
Diverges(bs, d) ==
  \E i \in DOMAIN bs : (\A j \in 1 .. i - 1 : d[j] = Chosen(bs[j])) /\ Spent(bs[i], d[i])
Anew(bs, ds) == \A d \in ds : Diverges(bs, d)

Searching == {"start", "next", "saving", "search"}

\* The writes of each atomic, oldest first: there always is one.
Histories ==
  /\ DOMAIN writes = Atomics
  /\ \A a \in Atomics : writes[a] # <<>> /\ writes[a] \in Seq(ToSet(writes[a]))

IInv ==
  /\ program \in Programs /\ pc \in [Threads -> Nat \ {0}] /\ Histories
  /\ branches \in Paths /\ pos \in 0 .. Len(branches)
  /\ phase \in Searching \ {"search"} => pos = 0
  /\ file.branches \in Paths
  /\ phase \in Searching => Anew(branches, executed)
  /\ Anew(file.branches, file.executed)

\* The threads that exist are the first ones, and only they have done something.
Spawned ==
  /\ \E n \in Threads : Created = 0 .. n
  /\ active \in Created \cup {None}
  /\ \A t \in Threads \ Created : operation[t] = NoOp /\ stage[t] = "client"

Stamps == [Threads -> Nat \cup {Unseen}]
Writes == [value : Nat, sync : Vectors, seqCst : BOOLEAN, firstSeen : Stamps]
Views == [own : Vectors, sc : Vectors]

Branching == {"load", "store", "rmw", "cas", "lock", "send", "join"}

\* The types of TypeOK, but for the path's.
MemoryTypes ==
  /\ causality \in [Threads -> Vectors] /\ scCausality \in Vectors
  /\ writes \in [Atomics -> Seq(Writes)]
  /\ cells \in [Cells -> Vectors]
ThreadTypes ==
  /\ status \in [Threads -> {"Absent", "Runnable", "Blocked", "Terminated"}]
  /\ stage \in [Threads -> {"client", "branched", "parked"}]
  /\ owner \in [Mutexes -> Threads \cup {None}] /\ DOMAIN operation = Threads
  /\ \A t \in Threads : /\ pc[t] <= Len(program[t]) + 1
                        /\ \/ operation[t] = NoOp
                           \/ /\ operation[t] \in ToSet(program[t])
                              /\ operation[t].kind \in Branching
DporTypes ==
  /\ dpor \in [Threads -> Vectors]
  /\ last \in [Objects -> [{"load", "store", "any"} -> Accesses]]
ProcessTypes ==
  /\ phase \in {"start", "next", "saving", "search", "audit",
                "failed", "refuted", "panicked", "unreadable"}
  /\ iteration \in 0 .. Interval - 1 /\ crashes \in 0 .. MaxCrashes
  /\ file.is \in {"absent", "torn", "whole"} /\ overlooked \in BOOLEAN
Types == MemoryTypes /\ ThreadTypes /\ DporTypes /\ ProcessTypes

-------------------------------------------------------------------------------
(* Numbers and sequences. *)

LEMMA Least ==
  ASSUME NEW S, S \subseteq Nat, S # {}
  PROVE  Min(S) \in S /\ \A y \in S : Min(S) <= y
<1> DEFINE R == OpToRel(<, Nat)
<1>1. IsWellFoundedOn(R, Nat)
  BY NatLessThanWellFounded
<1>2. \A x, y \in Nat : <<x, y>> \in R <=> x < y
  BY DEF OpToRel
<1> HIDE DEF R
<1>3. PICK x \in S : \A y \in S : ~(<<y, x>> \in R)
  BY <1>1, WFMin
<1>4. \A y \in S : y \in Nat /\ ~(y < x)
  BY <1>2, <1>3
<1>5. \A y \in S : x <= y
  BY <1>3, <1>4
<1>6. QED
  BY <1>3, <1>5 DEF Min

LEMMA Greatest ==
  ASSUME NEW n \in Nat, NEW S, S \subseteq 0 .. n, S # {}
  PROVE  Max(S) \in S /\ \A y \in S : y <= Max(S)
<1> DEFINE D == {n - x : x \in S}
<1>0. \A x \in S : x \in 0 .. n /\ n - x \in Nat
  OBVIOUS
<1>1. D \subseteq Nat /\ D # {}
  <2>1. D \subseteq Nat
    BY <1>0
  <2>2. PICK x : x \in S
    OBVIOUS
  <2>3. n - x \in D
    BY <2>2
  <2>4. QED
    BY <2>1, <2>3
<1>2. PICK d \in D : \A e \in D : d <= e
  BY <1>1, Least
<1>3. PICK x \in S : d = n - x
  OBVIOUS
<1>4. \A y \in S : n - y \in D /\ y \in Nat
  OBVIOUS
<1>5. ASSUME NEW y \in S PROVE x >= y
  <2>1. n - x <= n - y
    BY <1>2, <1>3, <1>4
  <2>2. x \in 0 .. n /\ y \in 0 .. n
    BY <1>0
  <2>3. QED
    BY <2>1, <2>2
<1>6. \E z \in S : \A y \in S : z >= y
  BY <1>5
<1>7. QED
  BY <1>4, <1>6 DEF Max

LEMMA FunctionIsSeq ==
  ASSUME NEW S, NEW k \in Nat, NEW s \in [1 .. k -> S]
  PROVE  s \in Seq(S) /\ Len(s) = k
<1>1. s \in Seq(S)
  BY SeqDef
<1>2. DOMAIN s = 1 .. k /\ DOMAIN s = 1 .. Len(s) /\ Len(s) \in Nat
  BY <1>1, LenProperties
<1>3. QED
  BY <1>1, <1>2

LEMMA ThreadsAreNumbers == Threads \subseteq Nat /\ Root \in Threads
BY MaxThreadsAssumption DEF Threads, Root

-------------------------------------------------------------------------------
(* Branch points and paths. *)

LEMMA PathIs ==
  ASSUME NEW bs \in Paths
  PROVE  /\ Len(bs) \in Nat /\ DOMAIN bs = 1 .. Len(bs)
         /\ \A i \in DOMAIN bs : bs[i] \in Schedules \cup Reads /\ Orderly(bs[i])
BY LenProperties DEF Paths

LEMMA Kinds ==
  /\ \A b \in Schedules : /\ b.kind = "Schedule" /\ b.threads \in [DOMAIN b.threads -> Marks]
                          /\ \E n \in Threads : DOMAIN b.threads = 0 .. n
                          /\ DOMAIN b.threads \subseteq Threads
                          /\ b = [kind |-> "Schedule", threads |-> b.threads]
  /\ \A b \in Reads : /\ b.kind = "Write" /\ b.writes \in Seq(Nat)
                      /\ b = [kind |-> "Write", writes |-> b.writes]
BY MaxThreadsAssumption DEF Schedules, Reads, Threads

\* What a branch point decides has not been given up there.
LEMMA ChosenStands ==
  ASSUME NEW b \in Schedules \cup Reads, Orderly(b)
  PROVE  /\ ~Spent(b, Chosen(b))
         /\ b.kind = "Schedule" => Chosen(b) \in Threads \cup {None}
<1>1. CASE b \in Reads
  <2>1. b.kind = "Write" /\ b.writes \in Seq(Nat) /\ b.writes # <<>>
    BY <1>1, Kinds DEF Orderly
  <2>2. Head(b.writes) = b.writes[1] /\ 1 \in DOMAIN b.writes
    BY <2>1, LenProperties, EmptySeq
  <2>3. QED
    BY <2>1, <2>2 DEF Spent, Chosen, ToSet
<1>2. CASE b \in Schedules
  <2>1. /\ b.kind = "Schedule" /\ DOMAIN b.threads \subseteq Threads
        /\ Marked(b.threads, "Active") \subseteq DOMAIN b.threads
    BY <1>2, Kinds DEF Marked
  <2>2. CASE Marked(b.threads, "Active") = {}
    BY <2>1, <2>2, NoneAssumption DEF Spent, Chosen, Marked
  <2>3. CASE Marked(b.threads, "Active") # {}
    <3>1. Min(Marked(b.threads, "Active")) \in Marked(b.threads, "Active")
      BY <2>1, <2>3, Least, ThreadsAreNumbers
    <3>2. Chosen(b) \in Marked(b.threads, "Active")
      BY <2>1, <2>3, <3>1 DEF Chosen
    <3>3. QED
      BY <2>1, <3>2 DEF Spent, Marked
  <2>4. QED
    BY <2>2, <2>3
<1>3. QED
  BY <1>1, <1>2

\* A path that decides as another did, and has given up what it had, has left the past
\* where the other had.
LEMMA AnewFollows ==
  ASSUME NEW bs, NEW cs, NEW ds, Anew(bs, ds), DOMAIN bs \subseteq DOMAIN cs,
         \A i \in DOMAIN bs : \A j \in 1 .. i - 1 : j \in DOMAIN bs,
         \A i \in DOMAIN bs : /\ Chosen(cs[i]) = Chosen(bs[i])
                              /\ \A d : Spent(bs[i], d) => Spent(cs[i], d)
  PROVE  Anew(cs, ds)
<1> SUFFICES ASSUME NEW d \in ds PROVE Diverges(cs, d)
  BY DEF Anew
<1>1. PICK i \in DOMAIN bs : (\A j \in 1 .. i - 1 : d[j] = Chosen(bs[j])) /\ Spent(bs[i], d[i])
  BY DEF Anew, Diverges
<1>2. \A j \in 1 .. i - 1 : d[j] = Chosen(cs[j])
  BY <1>1
<1>3. QED
  BY <1>1, <1>2 DEF Diverges

\* branch_thread and branch_write.
LEMMA BranchedIs ==
  ASSUME NEW bs \in Paths, NEW p \in 0 .. Len(bs), NEW seed \in Schedules \cup Reads, Orderly(seed)
  PROVE  /\ Branched(bs, p, seed) \in Paths
         /\ p + 1 \in 0 .. Len(Branched(bs, p, seed)) /\ p + 1 \in DOMAIN Branched(bs, p, seed)
         /\ Branched(bs, p, seed)[p + 1] = IF p = Len(bs) THEN seed ELSE bs[p + 1]
         /\ \A ds : Anew(bs, ds) => Anew(Branched(bs, p, seed), ds)
<1> DEFINE cs == Branched(bs, p, seed)
<1>1. /\ bs \in Seq(Schedules \cup Reads) /\ Len(bs) \in Nat /\ DOMAIN bs = 1 .. Len(bs)
      /\ \A i \in DOMAIN bs : bs[i] \in Schedules \cup Reads /\ Orderly(bs[i])
  BY PathIs DEF Paths
<1>2. CASE p = Len(bs)
  <2>1. cs = Append(bs, seed)
    BY <1>2 DEF Branched
  <2>2. /\ cs \in Seq(Schedules \cup Reads) /\ Len(cs) = Len(bs) + 1
        /\ \A i \in 1 .. Len(bs) : cs[i] = bs[i]
        /\ cs[Len(bs) + 1] = seed
    BY <1>1, <2>1, AppendProperties
  <2>3. DOMAIN cs = 1 .. Len(bs) + 1
    BY <2>2, LenProperties
  <2>4. \A i \in DOMAIN cs : Orderly(cs[i])
    <3> TAKE i \in DOMAIN cs
    <3>1. i \in 1 .. Len(bs) \/ i = Len(bs) + 1
      BY <1>1, <2>3
    <3>2. QED
      BY <1>1, <2>2, <3>1
  <2>5. cs \in Paths
    BY <2>2, <2>4 DEF Paths
  <2>6. \A ds : Anew(bs, ds) => Anew(cs, ds)
    <3>1. DOMAIN bs \subseteq DOMAIN cs
      BY <1>1, <2>3
    <3>2. \A i \in DOMAIN bs : \A j \in 1 .. i - 1 : j \in DOMAIN bs
      BY <1>1
    <3>3. \A i \in DOMAIN bs : cs[i] = bs[i]
      BY <1>1, <2>2
    <3> HIDE DEF cs
    <3>4. QED
      BY <3>1, <3>2, <3>3, AnewFollows
  <2>7. QED
    BY <1>1, <1>2, <2>2, <2>3, <2>5, <2>6
<1>3. CASE p # Len(bs)
  <2>1. cs = bs
    BY <1>3, SMTT(30) DEF Branched
  <2>2. p + 1 \in 1 .. Len(bs) /\ p + 1 \in 0 .. Len(bs)
    <3>1. \A n \in Nat : \A q \in 0 .. n : q # n => q + 1 \in 1 .. n /\ q + 1 \in 0 .. n
      OBVIOUS
    <3>2. QED
      BY <1>1, <1>3, <3>1
  <2>3. bs \in Paths
    OBVIOUS
  <2> HIDE DEF cs
  <2>4. /\ cs \in Paths /\ p + 1 \in 0 .. Len(cs) /\ p + 1 \in DOMAIN cs
        /\ cs[p + 1] = bs[p + 1] /\ \A ds : Anew(bs, ds) => Anew(cs, ds)
    BY <1>1, <2>1, <2>2, <2>3
  <2>5. QED
    BY <1>3, <2>4 DEF cs
<1>4. QED
  BY <1>2, <1>3

\* Schedule::backtrack: it asks for threads that were passed over.
LEMMA BacktrackedIs ==
  ASSUME NEW D, NEW th \in [D -> Marks], NEW asked
  PROVE  /\ Backtracked(th, asked) \in [D -> Marks]
         /\ Marked(Backtracked(th, asked), "Active") = Marked(th, "Active")
         /\ Marked(Backtracked(th, asked), "Visited") = Marked(th, "Visited")
         /\ Marked(Backtracked(th, asked), "Skip") \cup Marked(Backtracked(th, asked), "Pending")
              = Marked(th, "Skip") \cup Marked(th, "Pending")
<1>1. PICK ts : Backtracked(th, asked) = Explore(th, ts)
  BY DEF Backtracked
<1>2. /\ DOMAIN Explore(th, ts) = D /\ DOMAIN th = D
      /\ \A t \in D : Explore(th, ts)[t] =
                        IF t \in ts /\ th[t] = "Skip" THEN "Pending" ELSE th[t]
  BY DEF Explore
<1>3. Explore(th, ts) \in [D -> Marks]
  BY DEF Explore, Marks
<1>4. QED
  BY <1>1, <1>2, <1>3 DEF Marked

LEMMA BacktrackIs ==
  ASSUME branches \in Paths, NEW ops
  PROVE  /\ Backtrack(ops) \in Paths /\ Len(Backtrack(ops)) = Len(branches)
         /\ \A i \in DOMAIN branches : Chosen(Backtrack(ops)[i]) = Chosen(branches[i])
         /\ \A ds : Anew(branches, ds) => Anew(Backtrack(ops), ds)
<1> DEFINE bs == Backtrack(ops)
<1>1. /\ Len(branches) \in Nat /\ DOMAIN branches = 1 .. Len(branches)
      /\ \A i \in DOMAIN branches : /\ branches[i] \in Schedules \cup Reads
                                    /\ Orderly(branches[i])
  BY PathIs
<1>2. ASSUME NEW i \in DOMAIN branches
      PROVE  /\ bs[i] \in Schedules \cup Reads /\ Orderly(bs[i])
             /\ Chosen(bs[i]) = Chosen(branches[i])
             /\ \A d : Spent(branches[i], d) => Spent(bs[i], d)
  <2>1. CASE branches[i] \in Reads
    <3>1. bs[i] = branches[i]
      BY <2>1, Kinds DEF Backtrack
    <3>2. QED
      BY <1>1, <3>1
  <2>2. CASE branches[i] \in Schedules
    <3> DEFINE th == branches[i].threads
               D == DOMAIN th
               asked == [t \in D |-> Asked(ops, i, t)]
    <3>1. /\ branches[i].kind = "Schedule" /\ th \in [D -> Marks] /\ \E n \in Threads : D = 0 .. n
          /\ branches[i] = [kind |-> "Schedule", threads |-> th]
      BY <2>2, Kinds
    <3>2. bs[i] = [branches[i] EXCEPT !.threads = Backtracked(th, asked)]
      BY <3>1 DEF Backtrack
    <3> DEFINE new == Backtracked(th, asked)
    <3> HIDE DEF bs, th, asked, D, new
    <3>3. bs[i] = [kind |-> "Schedule", threads |-> new]
      BY <3>1, <3>2 DEF new
    <3>4. /\ new \in [D -> Marks]
          /\ Marked(new, "Active") = Marked(th, "Active")
          /\ Marked(new, "Visited") = Marked(th, "Visited")
          /\ Marked(new, "Skip") \cup Marked(new, "Pending")
               = Marked(th, "Skip") \cup Marked(th, "Pending")
      BY <3>1, BacktrackedIs, ZenonT(60) DEF new
    <3>5. bs[i] \in Schedules
      BY <3>1, <3>3, <3>4 DEF Schedules
    <3>6. bs[i].kind = "Schedule" /\ bs[i].threads = new
      BY <3>3
    <3>7. Orderly(bs[i])
      <4>1. Marked(th, "Skip") \cup Marked(th, "Pending") # {} => Marked(th, "Active") # {}
        BY <1>1, <2>2, <3>1, Kinds DEF Orderly, th, Reads
      <4>2. QED
        BY <3>4, <3>5, <3>6, <4>1 DEF Orderly
    <3>8. Chosen(bs[i]) = Chosen(branches[i])
      BY <3>1, <3>4, <3>6 DEF Chosen, th
    <3>9. \A d : Spent(branches[i], d) => Spent(bs[i], d)
      BY <3>1, <3>4, <3>6 DEF Spent, th
    <3>10. QED
      BY <3>5, <3>7, <3>8, <3>9
  <2>3. QED
    BY <1>1, <2>1, <2>2
<1>3. DOMAIN bs = 1 .. Len(branches)
  BY <1>1 DEF Backtrack
<1>4. bs = [i \in 1 .. Len(branches) |-> bs[i]]
  BY <1>1, <1>3 DEF Backtrack
<1> HIDE DEF bs
<1>5. bs \in [1 .. Len(branches) -> Schedules \cup Reads]
  BY <1>1, <1>2, <1>4
<1>6. bs \in Seq(Schedules \cup Reads) /\ Len(bs) = Len(branches)
  BY <1>1, <1>5, FunctionIsSeq
<1>7. bs \in Paths
  BY <1>1, <1>2, <1>3, <1>6 DEF Paths
<1>8. \A ds : Anew(branches, ds) => Anew(bs, ds)
  <2>1. DOMAIN branches \subseteq DOMAIN bs
    BY <1>1, <1>3
  <2>2. \A i \in DOMAIN branches : \A j \in 1 .. i - 1 : j \in DOMAIN branches
    BY <1>1
  <2>3. QED
    BY <1>2, <2>1, <2>2, AnewFollows
<1>9. QED
  BY <1>2, <1>6, <1>7, <1>8 DEF bs

-------------------------------------------------------------------------------
(* Path::step. *)

\* The branch that changes takes its next decision and gives up the one before.
LEMMA AdvancedIs ==
  ASSUME NEW b \in Schedules \cup Reads, Orderly(b), HasMore(b)
  PROVE  /\ Advanced(b) \in Schedules \cup Reads /\ Orderly(Advanced(b))
         /\ \A d : Spent(b, d) => Spent(Advanced(b), d)
         /\ Spent(Advanced(b), Chosen(b))
<1> DEFINE c == Advanced(b)
<1>1. CASE b \in Reads
  <2> DEFINE ws == b.writes
             rest == Tail(ws)
  <2>1. /\ b.kind = "Write" /\ ws \in Seq(Nat) /\ ws # <<>>
        /\ b = [kind |-> "Write", writes |-> ws]
        /\ \A i, j \in DOMAIN ws : ws[i] = ws[j] => i = j
    BY <1>1, Kinds DEF Orderly, Schedules
  <2>2. Len(ws) > 1
    BY <2>1 DEF HasMore
  <2>3. c = [b EXCEPT !.writes = rest]
    BY <2>1 DEF Advanced
  <2> HIDE DEF ws, c
  <2>4. /\ rest \in Seq(Nat) /\ Len(rest) = Len(ws) - 1 /\ Head(ws) = ws[1]
        /\ \A i \in 1 .. Len(rest) : rest[i] = ws[i + 1]
    BY <2>1, HeadTailProperties
  <2>5. /\ Len(ws) \in Nat /\ DOMAIN ws = 1 .. Len(ws) /\ DOMAIN rest = 1 .. Len(ws) - 1
        /\ Len(rest) = Len(ws) - 1
    BY <2>1, <2>4, LenProperties
  <2> HIDE DEF rest
  <2>6. c = [kind |-> "Write", writes |-> rest]
    BY <2>1, <2>3
  <2>7. c \in Reads /\ c.kind = "Write" /\ c.writes = rest
    BY <2>4, <2>6 DEF Reads
  <2>8. \A i \in DOMAIN rest : i + 1 \in DOMAIN ws /\ rest[i] = ws[i + 1] /\ i + 1 # 1 /\ i \in Nat
    BY <2>4, <2>5
  <2>9. \A i, j \in DOMAIN rest : rest[i] = rest[j] => i = j
    <3> SUFFICES ASSUME NEW i \in DOMAIN rest, NEW j \in DOMAIN rest, rest[i] = rest[j]
                 PROVE  i = j
      OBVIOUS
    <3>1. i + 1 = j + 1 /\ i \in Nat /\ j \in Nat
      BY <2>1, <2>8
    <3>2. QED
      BY <3>1
  <2>10. rest # <<>>
    BY <2>2, <2>4, <2>5, EmptySeq
  <2>11. Orderly(c)
    BY <2>7, <2>9, <2>10 DEF Orderly
  <2>12. ToSet(rest) \subseteq ToSet(ws)
    BY <2>8 DEF ToSet
  <2>13. \A d : Spent(b, d) => Spent(c, d)
    BY <2>1, <2>7, <2>12 DEF Spent, ws
  <2>14. ws[1] \notin ToSet(rest)
    <3>1. 1 \in DOMAIN ws
      BY <2>2, <2>5
    <3>2. QED
      BY <2>1, <2>8, <3>1 DEF ToSet
  <2>15. Chosen(b) = ws[1]
    BY <2>1, <2>4 DEF Chosen, ws
  <2>16. Spent(c, Chosen(b))
    BY <2>7, <2>14, <2>15 DEF Spent
  <2>17. QED
    BY <2>7, <2>11, <2>13, <2>16 DEF c
<1>2. CASE b \in Schedules
  <2> DEFINE th == b.threads
             D == DOMAIN th
             new == [t \in D |-> IF t = Min(Marked(th, "Pending")) THEN "Active"
                                 ELSE IF th[t] = "Active" THEN "Visited" ELSE th[t]]
  <2>1. /\ b.kind = "Schedule" /\ th \in [D -> Marks] /\ \E n \in Threads : D = 0 .. n
        /\ b = [kind |-> "Schedule", threads |-> th]
    BY <1>2, Kinds
  <2>2. Marked(th, "Pending") # {}
    BY <2>1 DEF HasMore
  <2>3. Marked(th, "Active") # {}
    <3>1. Marked(th, "Skip") \cup Marked(th, "Pending") # {} => Marked(th, "Active") # {}
      BY <1>2, Kinds DEF Orderly, Reads
    <3>2. QED
      BY <2>2, <3>1
  <2>4. c = [b EXCEPT !.threads = new]
    BY <2>1 DEF Advanced
  <2>5. PICK m \in D : m = Min(Marked(th, "Pending")) /\ th[m] = "Pending"
    <3>1. Marked(th, "Pending") \subseteq Nat
      BY <2>1, ThreadsAreNumbers DEF Marked
    <3>2. Min(Marked(th, "Pending")) \in Marked(th, "Pending")
      BY <2>2, <3>1, Least
    <3>3. QED
      BY <3>2 DEF Marked
  <2>6. PICK a \in D : a = Min(Marked(th, "Active")) /\ th[a] = "Active"
    <3>1. Marked(th, "Active") \subseteq Nat
      BY <2>1, ThreadsAreNumbers DEF Marked
    <3>2. Min(Marked(th, "Active")) \in Marked(th, "Active")
      BY <2>3, <3>1, Least
    <3>3. QED
      BY <3>2 DEF Marked
  <2>7. Chosen(b) = a
    BY <2>1, <2>3, <2>6 DEF Chosen
  <2>8. /\ new \in [D -> Marks] /\ new[m] = "Active" /\ new[a] = "Visited"
        /\ \A t \in D : th[t] = "Visited" => new[t] = "Visited"
    BY <2>1, <2>5, <2>6 DEF Marks
  <2>9. DOMAIN new = D
    OBVIOUS
  <2> HIDE DEF c, new, th, D
  <2>10. c = [kind |-> "Schedule", threads |-> new]
    BY <2>1, <2>4
  <2>11. c \in Schedules /\ c.kind = "Schedule" /\ c.threads = new
    BY <2>1, <2>8, <2>10 DEF Schedules
  <2>12. Orderly(c)
    <3>1. m \in Marked(new, "Active")
      BY <2>5, <2>8, <2>9 DEF Marked
    <3>2. QED
      BY <2>11, <3>1 DEF Orderly
  <2>13. \A d : Spent(b, d) => Spent(c, d)
    BY <2>1, <2>8, <2>9, <2>11 DEF Spent, Marked, th, D
  <2>14. Spent(c, Chosen(b))
    BY <2>6, <2>7, <2>8, <2>9, <2>11 DEF Spent, Marked
  <2>15. QED
    BY <2>11, <2>12, <2>13, <2>14 DEF c
<1>3. QED
  BY <1>1, <1>2

\* The path after the iteration has left the past, and the iteration, behind.
LEMMA SteppedIs ==
  ASSUME NEW bs \in Paths
  PROVE  /\ Stepped(bs) \in Paths
         /\ \A ds : Anew(bs, ds) /\ Stepped(bs) # <<>>
              => Anew(Stepped(bs), ds \cup {[i \in DOMAIN bs |-> Chosen(bs[i])]})
<1>1. /\ bs \in Seq(Schedules \cup Reads) /\ Len(bs) \in Nat /\ DOMAIN bs = 1 .. Len(bs)
      /\ \A i \in DOMAIN bs : bs[i] \in Schedules \cup Reads /\ Orderly(bs[i])
  BY PathIs DEF Paths
<1>2. CASE Open(bs) = {}
  <2>1. Stepped(bs) = <<>>
    BY <1>2 DEF Stepped
  <2>2. <<>> \in Seq(Schedules \cup Reads) /\ DOMAIN <<>> = {}
    BY EmptySeq, LenProperties
  <2>3. QED
    BY <2>1, <2>2 DEF Paths
<1>3. CASE Open(bs) # {}
  <2> DEFINE n == Max(Open(bs))
             top == SubSeq(bs, 1, n)
             cs == [top EXCEPT ![n] = Advanced(@)]
             now == [i \in DOMAIN bs |-> Chosen(bs[i])]
  <2>1. Stepped(bs) = cs
    BY <1>3 DEF Stepped
  <2>2. n \in 1 .. Len(bs) /\ HasMore(bs[n])
    <3>1. Open(bs) \subseteq 0 .. Len(bs)
      BY <1>1 DEF Open
    <3>2. n \in Open(bs)
      BY <1>1, <1>3, <3>1, Greatest
    <3>3. QED
      BY <1>1, <3>2 DEF Open
  <2> HIDE DEF n
  <2>3. n \in Nat /\ n >= 1 /\ n <= Len(bs)
    BY <1>1, <2>2
  <2>4. top = [i \in 1 .. n |-> bs[i]]
    BY <1>1, <2>3
  <2>5. /\ bs[n] \in Schedules \cup Reads /\ Orderly(bs[n])
        /\ Advanced(bs[n]) \in Schedules \cup Reads /\ Orderly(Advanced(bs[n]))
        /\ \A d : Spent(bs[n], d) => Spent(Advanced(bs[n]), d)
        /\ Spent(Advanced(bs[n]), Chosen(bs[n]))
    <3>1. n \in DOMAIN bs
      BY <1>1, <2>2
    <3>2. QED
      BY <1>1, <2>2, <3>1, AdvancedIs
  <2> HIDE DEF top
  <2>6. /\ DOMAIN cs = 1 .. n
        /\ \A i \in 1 .. n : cs[i] = IF i = n THEN Advanced(bs[n]) ELSE bs[i]
        /\ cs = [i \in 1 .. n |-> cs[i]]
    BY <2>3, <2>4
  <2>7. \A i \in 1 .. n : i \in DOMAIN bs /\ cs[i] \in Schedules \cup Reads /\ Orderly(cs[i])
    <3> TAKE i \in 1 .. n
    <3>1. i \in DOMAIN bs
      BY <1>1, <2>3
    <3>2. QED
      BY <1>1, <2>5, <2>6, <3>1
  <2> HIDE DEF cs
  <2>8. cs \in [1 .. n -> Schedules \cup Reads]
    BY <2>6, <2>7
  <2>9. cs \in Seq(Schedules \cup Reads)
    BY <2>3, <2>8, FunctionIsSeq
  <2>10. cs \in Paths
    BY <2>6, <2>7, <2>9 DEF Paths
  <2>11. ASSUME NEW ds, Anew(bs, ds), NEW d \in ds \cup {now}
         PROVE  Diverges(cs, d)
    <3>1. n \in DOMAIN cs /\ cs[n] = Advanced(bs[n])
      BY <2>3, <2>6
    <3>2. \A j \in 1 .. n - 1 : j \in 1 .. n /\ cs[j] = bs[j]
      BY <2>3, <2>6
    <3>3. CASE d = now
      <4>1. now[n] = Chosen(bs[n]) /\ \A j \in 1 .. n - 1 : now[j] = Chosen(bs[j])
        BY <1>1, <2>2, <2>7, <3>2
      <4>2. Spent(cs[n], d[n])
        BY <2>5, <3>1, <3>3, <4>1
      <4>3. \A j \in 1 .. n - 1 : d[j] = Chosen(cs[j])
        BY <3>2, <3>3, <4>1
      <4>4. QED
        BY <3>1, <4>2, <4>3 DEF Diverges
    <3>4. CASE d \in ds
      <4>1. PICK i \in DOMAIN bs :
              (\A j \in 1 .. i - 1 : d[j] = Chosen(bs[j])) /\ Spent(bs[i], d[i])
        BY <2>11, <3>4 DEF Anew, Diverges
      <4>2. i \in Nat /\ i >= 1 /\ i <= Len(bs)
        BY <1>1
      <4>3. CASE i < n
        <5>1. i \in 1 .. n - 1 /\ \A j \in 1 .. i - 1 : j \in 1 .. n - 1
          BY <2>3, <4>2, <4>3
        <5>2. i \in DOMAIN cs /\ cs[i] = bs[i]
          BY <2>6, <3>2, <5>1
        <5>3. \A j \in 1 .. i - 1 : d[j] = Chosen(cs[j])
          BY <3>2, <4>1, <5>1
        <5>4. QED
          BY <4>1, <5>2, <5>3 DEF Diverges
      <4>4. CASE i = n
        <5>1. Spent(cs[n], d[n])
          BY <2>5, <3>1, <4>1, <4>4
        <5>2. \A j \in 1 .. n - 1 : d[j] = Chosen(cs[j])
          BY <3>2, <4>1, <4>4
        <5>3. QED
          BY <3>1, <5>1, <5>2 DEF Diverges
      <4>5. CASE i > n
        <5>1. n \in 1 .. i - 1 /\ \A j \in 1 .. n - 1 : j \in 1 .. i - 1
          BY <2>3, <4>2, <4>5
        <5>2. Spent(cs[n], d[n])
          BY <2>5, <3>1, <4>1, <5>1
        <5>3. \A j \in 1 .. n - 1 : d[j] = Chosen(cs[j])
          BY <3>2, <4>1, <5>1
        <5>4. QED
          BY <3>1, <5>2, <5>3 DEF Diverges
      <4>6. QED
        BY <2>3, <4>2, <4>3, <4>4, <4>5
    <3>5. QED
      BY <2>11, <3>3, <3>4
  <2>12. \A ds : Anew(bs, ds) => Anew(cs, ds \cup {now})
    BY <2>11 DEF Anew
  <2>13. QED
    BY <2>1, <2>10, <2>12
<1>4. QED
  BY <1>2, <1>3

-------------------------------------------------------------------------------
(* What a branch point begins with. *)

LEMMA SeedIs ==
  ASSUME NEW st, \E n \in Threads : Created = 0 .. n
  PROVE  Seed(st) \in Schedules /\ Orderly(Seed(st))
<1> DEFINE ready == {t \in Created : st[t] = "Runnable"}
           first == IF active \in ready THEN active ELSE Min(ready)
           th == [t \in Created |-> IF t \notin ready THEN "Disabled"
                                    ELSE IF t = first THEN "Active" ELSE "Skip"]
<1>1. Seed(st) = [kind |-> "Schedule", threads |-> th]
  BY DEF Seed
<1>2. Created \in SUBSET Threads
  BY DEF Created
<1>3. th \in [Created -> Marks]
  BY DEF Marks
<1>4. DOMAIN th = Created
  OBVIOUS
<1>5. Marked(th, "Skip") \cup Marked(th, "Pending") # {} => Marked(th, "Active") # {}
  <2> SUFFICES ASSUME NEW t \in Created, th[t] \in {"Skip", "Pending"}
               PROVE  Marked(th, "Active") # {}
    BY <1>4 DEF Marked
  <2>1. ready # {}
    OBVIOUS
  <2>2. ready \subseteq Nat
    BY <1>2, ThreadsAreNumbers
  <2>3. first \in ready
    <3>1. Min(ready) \in ready
      BY <2>1, <2>2, Least
    <3>2. QED
      BY <3>1
  <2>4. first \in Created /\ th[first] = "Active"
    BY <2>3
  <2>5. QED
    BY <1>4, <2>4 DEF Marked
<1> HIDE DEF th
<1>6. Seed(st) \in Schedules /\ Seed(st).kind = "Schedule" /\ Seed(st).threads = th
  BY <1>1, <1>2, <1>3 DEF Schedules
<1>7. QED
  BY <1>5, <1>6 DEF Orderly

\* pick_write offers some write, and none twice.
LEMMA CandidatesAre ==
  ASSUME Histories, NEW a \in Atomics, NEW t, NEW ord
  PROVE  LET offered == Candidates(t, a, ord) IN
         /\ offered \in Seq(Nat) /\ offered # <<>> /\ ToSet(offered) \subseteq DOMAIN writes[a]
         /\ \A i, j \in DOMAIN offered : offered[i] = offered[j] => i = j
<1> DEFINE ws == writes[a]
           ends == {i \in DOMAIN ws : \/ IsSeenBy(ws[i].firstSeen, causality[t])
                                      \/ ord = "SeqCst" /\ ws[i].seqCst}
           from == Max({1} \cup ends)
           n == Len(ws) - from + 1
           up == [k \in 1 .. n |-> from + k - 1]
           offered == Candidates(t, a, ord)
<1>1. offered = Reverse(up)
  BY DEF Candidates
<1>2. ws \in Seq(ToSet(ws)) /\ ws # <<>>
  BY DEF Histories
<1>3. Len(ws) \in Nat /\ DOMAIN ws = 1 .. Len(ws) /\ Len(ws) >= 1
  <2> HIDE DEF ws
  <2>1. Len(ws) \in Nat /\ DOMAIN ws = 1 .. Len(ws) /\ Len(ws) # 0
    BY <1>2, LenProperties, EmptySeq
  <2>2. QED
    BY <2>1
<1>4. from \in 1 .. Len(ws)
  <2>1. ends \subseteq 1 .. Len(ws)
    BY <1>3
  <2> HIDE DEF ends, ws
  <2>2. {1} \cup ends \subseteq 1 .. Len(ws) /\ {1} \cup ends \subseteq 0 .. Len(ws)
    BY <1>3, <2>1
  <2>3. from \in {1} \cup ends
    BY <1>3, <2>2, Greatest
  <2>4. QED
    BY <2>2, <2>3
<1> HIDE DEF ws, ends, from
<1>5. n \in Nat /\ n >= 1 /\ n <= Len(ws) /\ from + n - 1 = Len(ws)
  BY <1>3, <1>4
<1>6. up \in [1 .. n -> Nat]
  BY <1>4, <1>5
<1>7. up \in Seq(Nat) /\ Len(up) = n
  <2> HIDE DEF up, n
  <2>1. QED
    BY <1>5, <1>6, FunctionIsSeq
<1>8. Reverse(up) = [i \in 1 .. n |-> up[n - i + 1]]
  BY <1>5, <1>7 DEF Reverse
<1>9. \A i \in 1 .. n : Reverse(up)[i] = Len(ws) + 1 - i /\ Reverse(up)[i] \in 1 .. Len(ws)
  <2> TAKE i \in 1 .. n
  <2>1. n - i + 1 \in 1 .. n
    BY <1>5
  <2>2. Reverse(up)[i] = from + (n - i + 1) - 1
    BY <1>8, <2>1
  <2>3. QED
    BY <1>3, <1>4, <1>5, <2>2
<1> HIDE DEF up, n
<1>10. offered \in [1 .. n -> Nat]
  BY <1>1, <1>3, <1>8, <1>9
<1>11. offered \in Seq(Nat) /\ Len(offered) = n /\ DOMAIN offered = 1 .. n
  BY <1>5, <1>10, FunctionIsSeq
<1> HIDE DEF offered
<1>12. offered # <<>>
  BY <1>5, <1>11, EmptySeq
<1>13. \A i, j \in DOMAIN offered : offered[i] = offered[j] => i = j
  <2> SUFFICES ASSUME NEW i \in 1 .. n, NEW j \in 1 .. n, offered[i] = offered[j] PROVE i = j
    BY <1>11
  <2>1. Len(ws) + 1 - i = Len(ws) + 1 - j
    BY <1>1, <1>9
  <2>2. QED
    BY <1>3, <1>5, <2>1
<1>14. ToSet(offered) \subseteq DOMAIN ws
  BY <1>1, <1>3, <1>9, <1>11 DEF ToSet
<1>15. QED
  BY <1>11, <1>12, <1>13, <1>14 DEF offered, ws

-------------------------------------------------------------------------------
(* The writes of the atomics. *)

IsSeq(s) == s \in Seq(ToSet(s)) /\ s # <<>>

LEMMA SeqOfItself ==
  ASSUME NEW S, NEW s \in Seq(S)
  PROVE  s \in Seq(ToSet(s))
<1>1. Len(s) \in Nat /\ DOMAIN s = 1 .. Len(s) /\ s = [i \in 1 .. Len(s) |-> s[i]]
  BY LenProperties
<1>2. s \in [1 .. Len(s) -> ToSet(s)]
  BY <1>1 DEF ToSet
<1>3. QED
  BY <1>1, <1>2, FunctionIsSeq

LEMMA AppendIsSeq ==
  ASSUME NEW s, IsSeq(s), NEW e
  PROVE  IsSeq(Append(s, e))
<1> DEFINE S == ToSet(s) \cup {e}
<1>1. s \in Seq(S)
  BY SeqMonotonic DEF IsSeq
<1>2. Append(s, e) \in Seq(S) /\ Len(Append(s, e)) = Len(s) + 1 /\ Len(s) \in Nat
  BY <1>1, AppendProperties, LenProperties
<1>3. Append(s, e) # <<>>
  <2>1. Len(Append(s, e)) # 0
    BY <1>2
  <2>2. QED
    BY <2>1, EmptySeq
<1> HIDE DEF S
<1>4. QED
  BY <1>2, <1>3, SeqOfItself DEF IsSeq

LEMMA ExceptIsSeq ==
  ASSUME NEW s, IsSeq(s), NEW k, NEW v
  PROVE  IsSeq([s EXCEPT ![k] = v])
<1> DEFINE r == [s EXCEPT ![k] = v]
<1>1. /\ Len(s) \in Nat /\ DOMAIN s = 1 .. Len(s) /\ Len(s) # 0
      /\ s = [i \in 1 .. Len(s) |-> s[i]]
  BY LenProperties, EmptySeq DEF IsSeq
<1>2. DOMAIN r = 1 .. Len(s) /\ r = [i \in 1 .. Len(s) |-> r[i]]
  BY <1>1
<1> HIDE DEF r
<1>3. r \in [1 .. Len(s) -> ToSet(r)]
  BY <1>2 DEF ToSet
<1>4. r \in Seq(ToSet(r)) /\ Len(r) = Len(s)
  BY <1>1, <1>3, FunctionIsSeq
<1>5. r # <<>>
  BY <1>1, <1>4, EmptySeq
<1>6. QED
  BY <1>4, <1>5 DEF IsSeq, r

LEMMA HistoriesAre == Histories <=> DOMAIN writes = Atomics /\ \A a \in Atomics : IsSeq(writes[a])
BY DEF Histories, IsSeq

LEMMA HistoriesNext ==
  ASSUME DOMAIN writes' = Atomics, \A a \in Atomics : IsSeq(writes'[a])
  PROVE  Histories'
BY DEF Histories, IsSeq

LEMMA LoadKeeps ==
  ASSUME Histories, NEW t, NEW a, NEW ord, NEW k, Load(t, a, ord, k)
  PROVE  Histories'
<1> DEFINE new == [writes[a][k] EXCEPT !.firstSeen = Touched(@, t, causality[t])]
<1>1. writes' = [writes EXCEPT ![a] = [writes[a] EXCEPT ![k] = new]]
  BY DEF Load
<1> HIDE DEF new
<1>2. DOMAIN writes = Atomics /\ \A b \in Atomics : IsSeq(writes[b])
  BY HistoriesAre
<1>3. ASSUME NEW b \in Atomics PROVE IsSeq(writes'[b])
  <2>1. CASE b = a
    <3>1. writes'[b] = [writes[a] EXCEPT ![k] = new]
      BY <1>1, <1>2, <2>1
    <3>2. QED
      BY <1>2, <2>1, <3>1, ExceptIsSeq
  <2>2. CASE b # a
    BY <1>1, <1>2, <2>2
  <2>3. QED
    BY <2>1, <2>2
<1>4. QED
  BY <1>1, <1>2, <1>3, HistoriesNext

LEMMA WriteKeeps ==
  ASSUME Histories, NEW a, NEW ws, a \in Atomics => IsSeq(ws), NEW e,
         writes' = [writes EXCEPT ![a] = Append(ws, e)]
  PROVE  Histories'
<1>1. DOMAIN writes = Atomics /\ \A b \in Atomics : IsSeq(writes[b])
  BY HistoriesAre
<1>2. ASSUME NEW b \in Atomics PROVE IsSeq(writes'[b])
  <2>1. CASE b = a
    <3>1. writes'[b] = Append(ws, e)
      BY <1>1, <2>1
    <3>2. QED
      BY <2>1, <3>1, AppendIsSeq
  <2>2. CASE b # a
    BY <1>1, <2>2
  <2>3. QED
    BY <2>1, <2>2
<1>3. QED
  BY <1>1, <1>2, HistoriesNext

LEMMA StoreKeeps ==
  ASSUME Histories, NEW t, NEW a, NEW val, NEW ord, Store(t, a, val, ord)
  PROVE  Histories'
<1>1. \E e : writes' = [writes EXCEPT ![a] = Append(writes[a], e)]
  BY DEF Store, Write
<1>2. a \in Atomics => IsSeq(writes[a])
  BY HistoriesAre
<1>3. QED
  BY <1>1, <1>2, WriteKeeps

LEMMA RmwKeeps ==
  ASSUME Histories, NEW t, NEW a, NEW val, NEW ord, Rmw(t, a, val, ord)
  PROVE  Histories'
<1> DEFINE n == Len(writes[a])
           new == [writes[a][n] EXCEPT !.firstSeen = Touched(@, t, causality[t])]
           touched == [writes[a] EXCEPT ![n] = new]
<1>1. \E e : writes' = [writes EXCEPT ![a] = Append(touched, e)]
  BY DEF Rmw, Write
<1> HIDE DEF n, new
<1>2. a \in Atomics => IsSeq(touched)
  BY HistoriesAre, ExceptIsSeq
<1> HIDE DEF touched
<1>3. QED
  BY <1>1, <1>2, WriteKeeps

LEMMA FreshIsSeq ==
  IsSeq(Fresh)
<1> DEFINE w == [value |-> 0, sync |-> Zero, seqCst |-> FALSE,
                 firstSeen |-> Touched(Never, Root, Zero)]
<1>1. Fresh = <<w>>
  BY DEF Fresh
<1> HIDE DEF w
<1>2. Fresh \in Seq({w}) /\ Fresh # <<>>
  BY <1>1
<1>3. QED
  BY <1>2, SeqOfItself DEF IsSeq

LEMMA ResetKeeps ==
  ASSUME MemoryReset
  PROVE  Histories'
<1>1. writes' = [a \in Atomics |-> Fresh]
  BY DEF MemoryReset
<1> HIDE DEF Fresh
<1>2. DOMAIN writes' = Atomics /\ \A a \in Atomics : IsSeq(writes'[a])
  BY <1>1, FreshIsSeq
<1>3. QED
  BY <1>2, HistoriesNext

-------------------------------------------------------------------------------
(* The steps. *)

\* Operations are counted from 1, and one on an atomic has an atomic.
LEMMA OperationIs ==
  ASSUME IInv, NEW t \in Threads, ~AtEnd(t)
  PROVE  /\ Len(program[t]) \in Nat /\ pc[t] \in 1 .. Len(program[t])
         /\ Op(t) \in ToSet(program[t]) /\ Fits(Op(t))
<1>1. program[t] \in Seq(ToSet(program[t])) /\ pc[t] \in Nat \ {0}
  BY ProgramsAssumption DEF IInv
<1>2. Len(program[t]) \in Nat /\ DOMAIN program[t] = 1 .. Len(program[t])
  BY <1>1, LenProperties
<1>3. pc[t] \in DOMAIN program[t]
  BY <1>1, <1>2 DEF AtEnd
<1>4. Op(t) \in ToSet(program[t])
  BY <1>3 DEF Op, ToSet
<1>5. QED
  BY <1>2, <1>3, <1>4, ProgramsAssumption DEF IInv

\* A step that leaves the path alone.
LEMMA Aside ==
  ASSUME IInv, UNCHANGED <<program, branches, pos, file, executed>>,
         pc' \in [Threads -> Nat \ {0}], Histories',
         phase' = phase \/ phase' \notin Searching
  PROVE  IInv'
<1>1. Anew(branches, executed)' = Anew(branches, executed)
  BY DEF Anew
<1>2. Anew(file.branches, file.executed)' = Anew(file.branches, file.executed)
  BY DEF Anew
<1>3. QED
  BY <1>1, <1>2 DEF IInv, Searching

LEMMA SameHistories ==
  ASSUME Histories, UNCHANGED writes
  PROVE  Histories'
BY DEF Histories

LEMMA ReturnCounts ==
  ASSUME IInv, NEW t \in Threads, Return(t)
  PROVE  pc' \in [Threads -> Nat \ {0}]
<1>1. pc \in [Threads -> Nat \ {0}] /\ pc' = [pc EXCEPT ![t] = @ + 1]
  BY DEF IInv, Return
<1>2. QED
  BY <1>1

\* An iteration goes one branch on: it makes the branch, or is led by it.
LEMMA Onward ==
  ASSUME IInv, phase = "search", NEW bs \in Paths, Len(bs) = Len(branches),
         \A ds : Anew(branches, ds) => Anew(bs, ds),
         NEW seed \in Schedules \cup Reads, Orderly(seed),
         branches' = Branched(bs, pos, seed), pos' = pos + 1,
         UNCHANGED <<program, file, executed>>, pc' \in [Threads -> Nat \ {0}], Histories',
         phase' = phase \/ phase' \notin Searching
  PROVE  IInv'
<1>1. pos \in 0 .. Len(bs)
  BY DEF IInv
<1>2. /\ branches' \in Paths /\ pos' \in 0 .. Len(branches')
      /\ \A ds : Anew(bs, ds) => Anew(branches', ds)
  BY <1>1, BranchedIs
<1>3. Anew(branches, executed)
  BY DEF IInv, Searching
<1>4. Anew(branches', executed')
  BY <1>2, <1>3
<1>5. Anew(file.branches, file.executed)'
  BY DEF IInv, Anew
<1>6. QED
  BY <1>2, <1>4, <1>5 DEF IInv, Searching, Anew

LEMMA ScheduleKeeps ==
  ASSUME IInv, Spawned, phase = "search", NEW st, NEW ops, Schedule(st, ops),
         UNCHANGED <<program, file, executed, pc>>, Histories'
  PROVE  IInv'
<1>1. /\ pos' = pos + 1 /\ branches' = Branched(Backtrack(ops), pos, Seed(st))
  BY DEF Schedule
<1>2. phase' = phase \/ phase' \notin Searching
  BY DEF Schedule, Nobody, Searching
<1>3. /\ Backtrack(ops) \in Paths /\ Len(Backtrack(ops)) = Len(branches)
      /\ \A ds : Anew(branches, ds) => Anew(Backtrack(ops), ds)
  BY BacktrackIs DEF IInv
<1>4. Seed(st) \in Schedules \cup Reads /\ Orderly(Seed(st))
  BY SeedIs DEF Spawned
<1>5. pc' \in [Threads -> Nat \ {0}]
  BY DEF IInv
<1>6. QED
  BY <1>1, <1>2, <1>3, <1>4, <1>5, Onward

\* rt::branch
LEMMA BranchKeeps ==
  ASSUME IInv, Spawned, NEW t, NEW st, NEW op, NEW where, Branch(t, st, op, where),
         phase \in {"search", "audit"}, UNCHANGED writes
  PROVE  IInv'
<1> DEFINE ops == [operation EXCEPT ![t] = op]
           states == [status EXCEPT ![t] = st]
<1>1. Histories'
  BY SameHistories DEF IInv
<1>2. CASE phase = "search" /\ Unprepared(ops)
  <2>1. Panic
    BY <1>2 DEF Branch
  <2>2. /\ UNCHANGED <<program, branches, pos, file, executed, pc>> /\ phase' \notin Searching
    BY <2>1 DEF Panic, threads, search, process, Searching
  <2>3. pc' \in [Threads -> Nat \ {0}]
    BY <2>2 DEF IInv
  <2>4. QED
    BY <1>1, <2>2, <2>3, Aside
<1>3. CASE ~(phase = "search" /\ Unprepared(ops))
  <2>1. Switch(states, ops) /\ UNCHANGED <<pc, owner, process>>
    BY <1>3 DEF Branch
  <2>2. UNCHANGED <<program, file, executed, pc>> /\ pc' \in [Threads -> Nat \ {0}]
    BY <2>1 DEF process, IInv
  <2>3. CASE phase = "audit"
    <3>1. Free(states)
      BY <2>1, <2>3 DEF Switch
    <3>2. UNCHANGED <<branches, pos>> /\ (phase' = phase \/ phase' \notin Searching)
      BY <2>3, <3>1 DEF Free, search, Nobody, Searching
    <3>3. QED
      BY <1>1, <2>2, <3>2, Aside
  <2>4. CASE phase = "search"
    <3>1. Schedule(states, ops)
      BY <2>1, <2>4 DEF Switch
    <3>2. QED
      BY <1>1, <2>2, <2>4, <3>1, ScheduleKeeps
  <2>5. QED
    BY <2>3, <2>4
<1>4. QED
  BY <1>2, <1>3

LEMMA GivenKeeps ==
  ASSUME IInv, NEW t \in Threads, NEW k, Given(t, k)
  PROVE  /\ Histories' /\ pc' \in [Threads -> Nat \ {0}]
         /\ UNCHANGED <<program, file, executed, phase>>
<1>1. Histories'
  BY LoadKeeps DEF Given, IInv
<1>2. pc \in [Threads -> Nat \ {0}] /\ Len(program[t]) \in Nat
  BY ProgramsAssumption, LenProperties DEF IInv
<1>3. \/ pc' = [pc EXCEPT ![t] = Len(program[t]) + 1]
      \/ pc' = [pc EXCEPT ![t] = @ + 1]
  BY DEF Given
<1>4. pc' \in [Threads -> Nat \ {0}]
  BY <1>2, <1>3
<1>5. QED
  BY <1>1, <1>4 DEF Given, process

LEMMA LoadEndsKeeps ==
  ASSUME IInv, NEW t \in Threads, LoadEnds(t)
  PROVE  IInv'
<1> DEFINE offered == Candidates(t, Op(t).obj, Op(t).ord)
           seed == [kind |-> "Write", writes |-> offered]
           path == Branched(branches, pos, seed)
<1>1. phase \in {"search", "audit"} /\ ~AtEnd(t) /\ Op(t).kind = "load"
  BY DEF LoadEnds, At
<1>2. CASE phase = "audit"
  <2>1. (\E k : Given(t, k)) /\ UNCHANGED <<branches, pos>>
    BY <1>2 DEF LoadEnds
  <2>2. QED
    BY <2>1, GivenKeeps, Aside
<1>3. CASE phase = "search"
  <2>1. Op(t).obj \in Atomics
    BY <1>1, OperationIs DEF Fits
  <2>2. /\ offered \in Seq(Nat) /\ offered # <<>>
        /\ \A i, j \in DOMAIN offered : offered[i] = offered[j] => i = j
    BY <2>1, CandidatesAre DEF IInv
  <2>3. \/ Panic /\ UNCHANGED memory
        \/ /\ branches' = path /\ pos' = pos + 1
           /\ Given(t, Chosen(branches'[pos']))
    BY <1>3 DEF LoadEnds
  <2> HIDE DEF offered
  <2>4. seed \in Schedules \cup Reads /\ Orderly(seed)
    BY <2>2 DEF Reads, Orderly
  <2> HIDE DEF seed
  <2>5. CASE Panic /\ UNCHANGED memory
    <3>1. /\ UNCHANGED <<program, branches, pos, file, executed, pc, writes>>
          /\ phase' \notin Searching
      BY <2>5 DEF Panic, threads, search, process, memory, Searching
    <3>2. Histories' /\ pc' \in [Threads -> Nat \ {0}]
      BY <3>1, SameHistories DEF IInv
    <3>3. QED
      BY <3>1, <3>2, Aside
  <2>6. CASE branches' = path /\ pos' = pos + 1 /\ Given(t, Chosen(branches'[pos']))
    <3>1. /\ Histories' /\ pc' \in [Threads -> Nat \ {0}]
          /\ UNCHANGED <<program, file, executed, phase>>
      BY <2>6, GivenKeeps
    <3>2. branches \in Paths
      BY DEF IInv
    <3>3. QED
      BY <1>3, <2>4, <2>6, <3>1, <3>2, Onward
  <2>7. QED
    BY <2>3, <2>5, <2>6
<1>4. QED
  BY <1>1, <1>2, <1>3

LEMMA StepKeeps ==
  ASSUME IInv, Spawned, NEW t \in Threads, Step(t)
  PROVE  IInv'
<1> DEFINE Kept == UNCHANGED <<program, branches, pos, file, executed>> /\ phase' = phase
           Active == phase \in {"search", "audit"}
<1>0. Histories
  BY DEF IInv
<1>1. CASE BranchAtomic(t)
  <2>1. Active /\ Branch(t, "Runnable", Op(t), "branched") /\ UNCHANGED writes
    BY <1>1 DEF BranchAtomic, At, memory
  <2>2. QED
    BY <2>1, BranchKeeps
<1>2. CASE BranchLock(t)
  <2>1. Active /\ (\E st : Branch(t, st, Op(t), "branched")) /\ UNCHANGED writes
    BY <1>2 DEF BranchLock, At, memory
  <2>2. QED
    BY <2>1, BranchKeeps
<1>3. CASE BranchSend(t)
  <2>1. Active /\ Branch(t, "Runnable", Op(t), "branched") /\ UNCHANGED writes
    BY <1>3 DEF BranchSend, At, Fence
  <2>2. QED
    BY <2>1, BranchKeeps
<1>4. CASE JoinParks(t)
  <2>1. Active /\ Branch(t, "Blocked", NoOp, "parked") /\ UNCHANGED writes
    BY <1>4 DEF JoinParks, At, memory
  <2>2. QED
    BY <2>1, BranchKeeps
<1>5. CASE BranchJoin(t)
  <2>1. Active /\ Branch(t, "Runnable", Op(t), "branched") /\ UNCHANGED writes
    BY <1>5 DEF BranchJoin, At, Fence
  <2>2. QED
    BY <2>1, BranchKeeps
<1>6. CASE LoadEnds(t)
  BY <1>6, LoadEndsKeeps
<1>7. CASE StoreEnds(t)
  <2>1. Return(t) /\ Kept /\ \E a, val, ord : Store(t, a, val, ord)
    BY <1>7 DEF StoreEnds, search, process
  <2>2. QED
    BY <1>0, <2>1, StoreKeeps, ReturnCounts, Aside
<1>8. CASE RmwEnds(t)
  <2>1. Return(t) /\ Kept /\ \E a, val, ord : Rmw(t, a, val, ord)
    BY <1>8 DEF RmwEnds, search, process
  <2>2. QED
    BY <1>0, <2>1, RmwKeeps, ReturnCounts, Aside
<1>9. CASE CasEnds(t)
  <2>1. /\ Return(t) /\ Kept
        /\ \/ \E a, val, ord : Rmw(t, a, val, ord)
           \/ \E a, ord, k : Load(t, a, ord, k)
    BY <1>9 DEF CasEnds, search, process
  <2>2. QED
    BY <1>0, <2>1, RmwKeeps, LoadKeeps, ReturnCounts, Aside
<1>10. CASE LockEnds(t)
  <2>1. Return(t) /\ Kept /\ UNCHANGED writes
    BY <1>10 DEF LockEnds, search, process, Fence
  <2>2. QED
    BY <1>0, <2>1, SameHistories, ReturnCounts, Aside
<1>11. CASE UnlockEnds(t)
  <2>1. Return(t) /\ Kept /\ UNCHANGED writes
    BY <1>11 DEF UnlockEnds, search, process, Fence
  <2>2. QED
    BY <1>0, <2>1, SameHistories, ReturnCounts, Aside
<1>12. CASE CellAccess(t)
  <2>1. \/ Return(t) /\ Kept /\ UNCHANGED writes
        \/ /\ UNCHANGED <<program, branches, pos, file, executed, pc, writes>>
           /\ phase' \notin Searching
    BY <1>12 DEF CellAccess, search, process, WithMut, memory, threads, Searching
  <2>2. CASE Return(t) /\ Kept /\ UNCHANGED writes
    BY <1>0, <2>2, SameHistories, ReturnCounts, Aside
  <2>3. CASE /\ UNCHANGED <<program, branches, pos, file, executed, pc, writes>>
             /\ phase' \notin Searching
    <3>1. pc' \in [Threads -> Nat \ {0}]
      BY <2>3 DEF IInv
    <3>2. QED
      BY <1>0, <2>3, <3>1, SameHistories, Aside
  <2>4. QED
    BY <2>1, <2>2, <2>3
<1>13. CASE SpawnEnds(t)
  <2>1. Return(t) /\ Kept /\ UNCHANGED writes
    BY <1>13 DEF SpawnEnds, process, Inherit
  <2>2. QED
    BY <1>0, <2>1, SameHistories, ReturnCounts, Aside
<1>14. CASE SendEnds(t)
  <2>1. Return(t) /\ Kept /\ UNCHANGED writes
    BY <1>14 DEF SendEnds, search, process, Hand, memory
  <2>2. QED
    BY <1>0, <2>1, SameHistories, ReturnCounts, Aside
<1>15. CASE JoinEnds(t)
  <2>1. Return(t) /\ Kept /\ UNCHANGED writes
    BY <1>15 DEF JoinEnds, search, process, memory
  <2>2. QED
    BY <1>0, <2>1, SameHistories, ReturnCounts, Aside
<1>16. CASE Finish(t)
  <2>1. Active /\ Branch(t, "Terminated", NoOp, "client") /\ UNCHANGED writes
    BY <1>16 DEF Finish, memory
  <2>2. QED
    BY <2>1, BranchKeeps
<1>17. QED
  BY <1>1, <1>2, <1>3, <1>4, <1>5, <1>6, <1>7, <1>8, <1>9, <1>10, <1>11, <1>12, <1>13,
     <1>14, <1>15, <1>16 DEF Step

\* The bottom of the loop, and a crash.
LEMMA ResetIs ==
  ASSUME Reset
  PROVE  pc' \in [Threads -> Nat \ {0}] /\ pos' = 0 /\ Histories'
BY ResetKeeps DEF Reset, All

LEMMA EndIterationKeeps ==
  ASSUME IInv, EndIteration
  PROVE  IInv'
<1>1. /\ phase = "search" /\ branches' = Stepped(branches)
      /\ executed' = executed \cup {Decisions}
      /\ phase' = IF branches' = <<>> THEN "audit" ELSE "next"
      /\ Reset /\ UNCHANGED <<program, file>>
  BY DEF EndIteration
<1>2. branches \in Paths /\ Anew(branches, executed)
  BY <1>1 DEF IInv, Searching
<1>3. branches' \in Paths /\ (branches' # <<>> => Anew(branches', executed'))
  BY <1>1, <1>2, SteppedIs DEF Decisions
<1>4. pos' \in 0 .. Len(branches') /\ pos' = 0
  <2>1. Len(branches') \in Nat
    BY <1>3, PathIs
  <2>2. QED
    BY <1>1, <2>1, ResetIs
<1>5. Anew(file.branches, file.executed)'
  BY <1>1 DEF IInv, Anew
<1>6. phase' \in Searching => branches' # <<>>
  BY <1>1 DEF Searching
<1>7. QED
  BY <1>1, <1>3, <1>4, <1>5, <1>6, ResetIs DEF IInv, Anew

LEMMA NothingLeft == <<>> \in Paths /\ Len(<<>>) = 0 /\ \A bs : Anew(bs, {})
<1>1. <<>> \in Seq(Schedules \cup Reads) /\ DOMAIN <<>> = {} /\ Len(<<>>) = 0
  BY EmptySeq, LenProperties
<1>2. QED
  BY <1>1 DEF Paths, Anew

LEMMA CrashKeeps ==
  ASSUME IInv, Crash
  PROVE  IInv'
<1>1. branches' = <<>> /\ executed' = {} /\ Reset /\ UNCHANGED <<program, file>>
  BY DEF Crash
<1>2. branches' \in Paths /\ pos' \in 0 .. Len(branches') /\ pos' = 0
  BY <1>1, NothingLeft, ResetIs
<1>3. Anew(branches', executed')
  BY <1>1, NothingLeft
<1>4. Anew(file.branches, file.executed)'
  BY <1>1 DEF IInv, Anew
<1>5. QED
  BY <1>1, <1>2, <1>3, <1>4, ResetIs DEF IInv, Anew

\* The top of the loop.
LEMMA StartKeeps ==
  ASSUME IInv, Start
  PROVE  IInv'
<1>1. /\ phase = "start" /\ branches' = file.branches /\ executed' = file.executed
      /\ UNCHANGED <<program, pc, pos, file, writes>>
  BY DEF Start, threads, memory
<1>2. file.branches \in Paths /\ Anew(file.branches, file.executed) /\ pos = 0
  BY <1>1 DEF IInv, Searching
<1>3. pos' \in 0 .. Len(branches')
  <2>1. Len(file.branches) \in Nat
    BY <1>2, PathIs
  <2>2. QED
    BY <1>1, <1>2, <2>1
<1>4. Histories'
  BY <1>1, SameHistories DEF IInv
<1>5. Anew(branches', executed') /\ Anew(file.branches, file.executed)'
  BY <1>1, <1>2 DEF Anew
<1>6. QED
  BY <1>1, <1>2, <1>3, <1>4, <1>5 DEF IInv, Anew

\* The checkpoint file is empty, or holds the path it was given with its past.
LEMMA SavingKeeps ==
  ASSUME IInv, phase \in Searching \ {"search"}, phase' \in Searching,
         UNCHANGED <<program, pc, writes, branches, pos, executed>>,
         \/ file' = file \/ file' = Torn
         \/ file'.branches = branches /\ file'.executed = executed
  PROVE  IInv'
<1>1. Histories'
  BY SameHistories DEF IInv
<1>2. Anew(branches, executed)' /\ Anew(branches, executed) /\ pos' = 0
  BY DEF IInv, Anew, Searching
<1>3. file'.branches \in Paths /\ Anew(file'.branches, file'.executed)
  <2>1. Torn.branches = <<>> /\ Torn.executed = {}
    BY DEF Torn
  <2>2. CASE file' = Torn
    BY <2>1, <2>2, NothingLeft
  <2>3. CASE file' # Torn
    BY <1>2, <2>3 DEF IInv
  <2>4. QED
    BY <2>2, <2>3
<1>4. QED
  BY <1>1, <1>2, <1>3 DEF IInv, Anew

LEMMA InitHolds ==
  ASSUME Init
  PROVE  IInv
<1>1. /\ program \in Programs /\ pc = All(1) /\ branches = <<>> /\ pos = 0 /\ executed = {}
      /\ file = NoFile /\ writes = [a \in Atomics |-> Fresh]
  BY DEF Init, MemoryInit
<1>2. pc \in [Threads -> Nat \ {0}]
  BY <1>1 DEF All
<1>3. Histories
  BY <1>1, FreshIsSeq, HistoriesAre
<1>4. file.branches = <<>> /\ file.executed = {}
  BY <1>1 DEF NoFile
<1>5. pos \in 0 .. Len(branches)
  BY <1>1, NothingLeft
<1>6. QED
  BY <1>1, <1>2, <1>3, <1>4, <1>5, NothingLeft DEF IInv

-------------------------------------------------------------------------------
(* Types: of the memory, ... *)

LEMMA JoinIs ==
  ASSUME NEW v \in Vectors, NEW w \in Vectors
  PROVE  /\ Join(v, w) \in Vectors /\ Before(v, Join(v, w)) /\ Before(w, Join(v, w))
         /\ \A x \in Vectors : Before(v, x) /\ Before(w, x) => Before(Join(v, w), x)
BY DEF Join, Vectors, Before

LEMMA IncIs ==
  ASSUME NEW v \in Vectors, NEW t
  PROVE  Inc(v, t) \in Vectors /\ Before(v, Inc(v, t))
<1>1. Inc(v, t) = [u \in Threads |-> IF u = t THEN v[u] + 1 ELSE v[u]]
  BY DEF Inc, Vectors
<1>2. QED
  BY <1>1 DEF Vectors, Before

LEMMA BeforeOrders ==
  /\ \A v \in Vectors : Before(v, v)
  /\ \A v, w, x \in Vectors : Before(v, w) /\ Before(w, x) => Before(v, x)
BY DEF Before, Vectors

LEMMA ZeroIs == Zero \in Vectors /\ \A v \in Vectors : Before(Zero, v)
BY DEF Zero, Vectors, Before

\* What a thread knows while it is in an operation only grows.
LEMMA SeqCstIs ==
  ASSUME NEW v \in Views
  PROVE  /\ SeqCst(v) \in Views
         /\ Before(v.own, SeqCst(v).own) /\ Before(v.sc, SeqCst(v).own)
         /\ Before(v.sc, SeqCst(v).sc) /\ SeqCst(v).own = SeqCst(v).sc
<1>1. v.own \in Vectors /\ v.sc \in Vectors
  BY DEF Views
<1>2. SeqCst(v) = [own |-> Join(v.own, v.sc), sc |-> Join(v.own, v.sc)]
  BY DEF SeqCst
<1>3. QED
  BY <1>1, <1>2, JoinIs DEF Views

LEMMA SyncReadIs ==
  ASSUME NEW v \in Views, NEW sync \in Vectors, NEW ord
  PROVE  LET r == SyncRead(v, sync, ord) IN
         /\ r \in Views
         /\ Before(v.own, r.own) /\ Before(v.sc, r.sc)
         /\ Acquires(ord) => Before(sync, r.own)
         /\ ord = "SeqCst" => Before(v.sc, r.own) /\ r.sc = r.own
<1> DEFINE known == IF Acquires(ord) THEN [v EXCEPT !.own = Join(@, sync)] ELSE v
<1>1. v.own \in Vectors /\ v.sc \in Vectors
  BY DEF Views
<1>2. /\ known \in Views /\ Before(v.own, known.own) /\ known.sc = v.sc
      /\ Acquires(ord) => Before(sync, known.own)
  <2>1. CASE Acquires(ord)
    <3>1. known = [own |-> Join(v.own, sync), sc |-> v.sc]
      BY <2>1 DEF Views
    <3>2. QED
      BY <1>1, <3>1, JoinIs DEF Views
  <2>2. CASE ~Acquires(ord)
    BY <1>1, <2>2, BeforeOrders
  <2>3. QED
    BY <2>1, <2>2
<1>3. SyncRead(v, sync, ord) = IF ord = "SeqCst" THEN SeqCst(known) ELSE known
  BY DEF SyncRead
<1> HIDE DEF known
<1>4. known.own \in Vectors /\ known.sc \in Vectors
  BY <1>2 DEF Views
<1>5. CASE ord = "SeqCst"
  <2>1. /\ SeqCst(known) \in Views /\ Before(known.own, SeqCst(known).own)
        /\ Before(known.sc, SeqCst(known).own)
        /\ Before(known.sc, SeqCst(known).sc) /\ SeqCst(known).own = SeqCst(known).sc
    BY <1>2, SeqCstIs
  <2>2. SeqCst(known).own \in Vectors
    BY <2>1 DEF Views
  <2> HIDE DEF SeqCst
  <2>3. SyncRead(v, sync, ord) = SeqCst(known)
    BY <1>3, <1>5
  <2>4. QED
    BY <1>1, <1>2, <1>4, <2>1, <2>2, <2>3, BeforeOrders
<1>6. CASE ord # "SeqCst"
  <2>1. SyncRead(v, sync, ord) = known
    BY <1>3, <1>6
  <2>2. QED
    BY <1>1, <1>2, <1>6, <2>1, BeforeOrders
<1>7. QED
  BY <1>5, <1>6

LEMMA AfterWriteIs ==
  ASSUME NEW v \in Views, NEW ord
  PROVE  LET r == AfterWrite(v, ord) IN
         /\ r \in Views
         /\ Before(v.own, r.own) /\ Before(v.sc, r.sc)
         /\ ord = "SeqCst" => Before(v.sc, r.own) /\ Before(v.own, r.sc)
<1>1. v.own \in Vectors /\ v.sc \in Vectors
  BY DEF Views
<1>2. CASE ord = "SeqCst"
  BY <1>2, SeqCstIs DEF AfterWrite
<1>3. CASE ord # "SeqCst"
  BY <1>1, <1>3, BeforeOrders DEF AfterWrite
<1>4. QED
  BY <1>2, <1>3

LEMMA TouchedIs ==
  ASSUME NEW seen \in Stamps, NEW t \in Threads, NEW c \in Vectors
  PROVE  /\ Touched(seen, t, c) \in Stamps
         /\ Touched(seen, t, c) = [seen EXCEPT ![t] = IF seen[t] = Unseen THEN c[t] ELSE seen[t]]
<1>1. c[t] \in Nat
  BY DEF Vectors
<1>2. QED
  BY <1>1 DEF Touched, Stamps

\* The write that do_write adds to the others.
LEMMA WriteIs ==
  ASSUME NEW ws \in Seq(Writes), ws # <<>>, NEW t \in Threads, NEW v \in Views,
         NEW val \in Nat, NEW ord
  PROVE  LET n == Len(ws)
             new == Write(ws, t, v, val, ord)
             added == new[n + 1]
         IN  /\ n \in Nat \ {0} /\ new \in Seq(Writes) /\ Len(new) = n + 1
             /\ \A i \in 1 .. n : new[i] = ws[i]
             /\ added.firstSeen[t] = v.own[t] /\ added.seqCst = (ord = "SeqCst")
             /\ Before(ws[n].sync, added.sync)
             /\ Releases(ord) => Before(v.own, added.sync)
<1> DEFINE n == Len(ws)
           sync == SyncWrite(v, Last(ws).sync, ord)
           seen == Touched(Never, t, v.own)
           added == [value |-> val, sync |-> sync, seqCst |-> ord = "SeqCst", firstSeen |-> seen]
<1>1. n \in Nat /\ n # 0 /\ DOMAIN ws = 1 .. n
  BY LenProperties, EmptySeq
<1>2. ws[n] \in Writes /\ Last(ws) = ws[n]
  BY <1>1, ElementOfSeq DEF Last
<1>3. v.own \in Vectors /\ v.own[t] \in Nat /\ ws[n].sync \in Vectors
  BY <1>2 DEF Views, Writes, Vectors
<1>4. /\ sync \in Vectors /\ Before(ws[n].sync, sync)
      /\ Releases(ord) => Before(v.own, sync)
  <2>1. CASE Releases(ord)
    BY <1>2, <1>3, <2>1, JoinIs DEF SyncWrite
  <2>2. CASE ~Releases(ord)
    BY <1>2, <1>3, <2>2, BeforeOrders DEF SyncWrite
  <2>3. QED
    BY <2>1, <2>2
<1>5. seen \in Stamps /\ seen[t] = v.own[t]
  <2>1. Never \in Stamps /\ Never[t] = Unseen
    BY DEF Never, Stamps
  <2>2. /\ seen \in Stamps
        /\ seen = [Never EXCEPT ![t] = IF Never[t] = Unseen THEN v.own[t] ELSE Never[t]]
    BY <1>3, <2>1, TouchedIs
  <2> HIDE DEF seen
  <2>3. QED
    BY <2>1, <2>2 DEF Stamps
<1>6. Write(ws, t, v, val, ord) = Append(ws, added)
  BY DEF Write
<1> HIDE DEF sync, seen
<1>7. /\ added \in Writes /\ added.sync = sync /\ added.firstSeen = seen
      /\ added.seqCst = (ord = "SeqCst")
  BY <1>4, <1>5 DEF Writes
<1> HIDE DEF added
<1>8. /\ Append(ws, added) \in Seq(Writes) /\ Len(Append(ws, added)) = n + 1
      /\ \A i \in 1 .. n : Append(ws, added)[i] = ws[i]
      /\ Append(ws, added)[n + 1] = added
  BY <1>7, AppendProperties
<1>9. QED
  BY <1>1, <1>4, <1>5, <1>6, <1>7, <1>8

\* The writes xs are the writes ws after an operation of t that knows c.
Grown(ws, xs, t, c) ==
  /\ Len(ws) <= Len(xs)
  /\ \A i \in 1 .. Len(ws) :
       /\ xs[i].sync = ws[i].sync
       /\ \A u \in Threads :
            ws[i].firstSeen[u] # Unseen => xs[i].firstSeen[u] = ws[i].firstSeen[u]
  /\ \A i \in 1 .. Len(xs), u \in Threads : xs[i].firstSeen[u] # Unseen =>
       \/ i <= Len(ws) /\ xs[i].firstSeen[u] = ws[i].firstSeen[u]
       \/ u = t /\ xs[i].firstSeen[u] <= c[t]
  /\ \A i \in Len(ws) + 1 .. Len(xs) : i > 1 /\ Before(xs[i - 1].sync, xs[i].sync)

LEMMA GrownMore ==
  ASSUME NEW ws \in Seq(Writes), NEW xs \in Seq(Writes), NEW t \in Threads,
         NEW c \in Vectors, NEW d \in Vectors, Grown(ws, xs, t, c), Before(c, d)
  PROVE  Grown(ws, xs, t, d)
<1>1. c[t] \in Nat /\ d[t] \in Nat /\ c[t] <= d[t]
  BY DEF Vectors, Before
<1>2. \A i \in 1 .. Len(xs), u \in Threads :
        xs[i].firstSeen[u] # Unseen => xs[i].firstSeen[u] \in Nat
  <2>1. \A i \in 1 .. Len(xs) : xs[i] \in Writes
    BY ElementOfSeq
  <2>2. QED
    BY <2>1 DEF Writes, Stamps
<1>3. QED
  BY <1>1, <1>2 DEF Grown

LEMMA GrownTwice ==
  ASSUME NEW ws \in Seq(Writes), NEW xs \in Seq(Writes), NEW ys \in Seq(Writes), NEW t, NEW c,
         Len(ws) = Len(xs), Grown(ws, xs, t, c), Grown(xs, ys, t, c)
  PROVE  Grown(ws, ys, t, c)
<1>1. Len(ws) \in Nat /\ Len(ys) \in Nat /\ Len(ws) <= Len(ys)
  BY LenProperties DEF Grown
<1>2. ASSUME NEW i \in 1 .. Len(ws)
      PROVE  /\ ys[i].sync = ws[i].sync
             /\ \A u \in Threads :
                  ws[i].firstSeen[u] # Unseen => ys[i].firstSeen[u] = ws[i].firstSeen[u]
  BY SMTT(30) DEF Grown
<1>3. ASSUME NEW i \in 1 .. Len(ys), NEW u \in Threads, ys[i].firstSeen[u] # Unseen
      PROVE  \/ i <= Len(ws) /\ ys[i].firstSeen[u] = ws[i].firstSeen[u]
             \/ u = t /\ ys[i].firstSeen[u] <= c[t]
  <2>1. \/ i <= Len(xs) /\ ys[i].firstSeen[u] = xs[i].firstSeen[u]
        \/ u = t /\ ys[i].firstSeen[u] <= c[t]
    BY <1>3 DEF Grown
  <2>2. CASE i <= Len(xs) /\ ys[i].firstSeen[u] = xs[i].firstSeen[u]
    <3>1. i \in 1 .. Len(xs) /\ xs[i].firstSeen[u] # Unseen
      BY <1>1, <1>3, <2>2
    <3>2. \/ i <= Len(ws) /\ xs[i].firstSeen[u] = ws[i].firstSeen[u]
          \/ u = t /\ xs[i].firstSeen[u] <= c[t]
      BY <3>1 DEF Grown
    <3>3. QED
      BY <2>2, <3>2
  <2>3. QED
    BY <2>1, <2>2
<1>4. \A i \in Len(ws) + 1 .. Len(ys) : i > 1 /\ Before(ys[i - 1].sync, ys[i].sync)
  BY DEF Grown
<1>5. QED
  BY <1>1, <1>2, <1>3, <1>4 DEF Grown

\* FirstSeen::touch of one write.
LEMMA TouchGrows ==
  ASSUME NEW ws \in Seq(Writes), NEW k \in 1 .. Len(ws), NEW t \in Threads, NEW c \in Vectors
  PROVE  LET xs == [ws EXCEPT ![k].firstSeen = Touched(@, t, c)] IN
         /\ xs \in Seq(Writes) /\ Len(xs) = Len(ws)
         /\ Grown(ws, xs, t, c) /\ xs[k].firstSeen[t] # Unseen
<1> DEFINE new == [ws[k] EXCEPT !.firstSeen = Touched(@, t, c)]
           xs == [ws EXCEPT ![k] = new]
           seen == Touched(ws[k].firstSeen, t, c)
<1>1. Len(ws) \in Nat /\ DOMAIN ws = 1 .. Len(ws) /\ \A i \in 1 .. Len(ws) : ws[i] \in Writes
  BY LenProperties, ElementOfSeq
<1>2. ws[k] \in Writes /\ ws[k].firstSeen \in Stamps /\ c[t] \in Nat
  BY <1>1 DEF Writes, Vectors
<1>3. /\ seen \in Stamps
      /\ seen = [ws[k].firstSeen EXCEPT ![t] = IF ws[k].firstSeen[t] = Unseen THEN c[t]
                                               ELSE ws[k].firstSeen[t]]
  BY <1>2, TouchedIs
<1>4. /\ seen[t] = IF ws[k].firstSeen[t] = Unseen THEN c[t] ELSE ws[k].firstSeen[t]
      /\ seen[t] # Unseen
      /\ \A u \in Threads : u # t => seen[u] = ws[k].firstSeen[u]
  <2>1. Unseen \notin Nat
    BY DEF Unseen
  <2>2. QED
    BY <1>2, <1>3, <2>1 DEF Stamps
<1>5. /\ new \in Writes /\ new.sync = ws[k].sync /\ new.firstSeen = seen
  BY <1>2, <1>3 DEF Writes
<1> HIDE DEF new, seen
<1>6. xs = [i \in 1 .. Len(ws) |-> IF i = k THEN new ELSE ws[i]]
  BY <1>1
<1>7. xs \in [1 .. Len(ws) -> Writes]
  BY <1>1, <1>5, <1>6
<1>8. /\ xs[k] = new
      /\ \A i \in 1 .. Len(ws) : i # k => xs[i] = ws[i]
  BY <1>6
<1> HIDE DEF xs
<1>9. xs \in Seq(Writes) /\ Len(xs) = Len(ws)
  BY <1>1, <1>7, FunctionIsSeq
<1>10. ASSUME NEW i \in 1 .. Len(ws)
       PROVE  /\ xs[i].sync = ws[i].sync
              /\ \A u \in Threads :
                   /\ ws[i].firstSeen[u] # Unseen => xs[i].firstSeen[u] = ws[i].firstSeen[u]
                   /\ xs[i].firstSeen[u] # Unseen =>
                        \/ i <= Len(ws) /\ xs[i].firstSeen[u] = ws[i].firstSeen[u]
                        \/ u = t /\ xs[i].firstSeen[u] <= c[t]
  <2>0. i <= Len(ws)
    BY <1>1
  <2>1. CASE i = k
    BY <1>2, <1>4, <1>5, <1>8, <2>0, <2>1
  <2>2. CASE i # k
    BY <1>8, <2>0, <2>2
  <2>3. QED
    BY <2>1, <2>2
<1>11. Grown(ws, xs, t, c)
  <2>1. Len(ws) <= Len(xs) /\ \A i \in Len(ws) + 1 .. Len(xs) : FALSE
    BY <1>1, <1>9
  <2>2. QED
    BY <1>9, <1>10, <2>1 DEF Grown
<1>12. QED
  BY <1>4, <1>5, <1>8, <1>9, <1>11 DEF xs, new

LEMMA WriteGrows ==
  ASSUME NEW ws \in Seq(Writes), ws # <<>>, NEW t \in Threads, NEW v \in Views,
         NEW val \in Nat, NEW ord
  PROVE  LET n == Len(ws)
             xs == Write(ws, t, v, val, ord)
         IN  /\ n \in Nat \ {0} /\ xs \in Seq(Writes) /\ Len(xs) = n + 1
             /\ Grown(ws, xs, t, v.own) /\ xs[n + 1].firstSeen[t] # Unseen
             /\ Releases(ord) => Before(v.own, xs[n + 1].sync)
<1> DEFINE n == Len(ws)
           xs == Write(ws, t, v, val, ord)
           added == xs[n + 1]
<1>1. /\ n \in Nat \ {0} /\ xs \in Seq(Writes) /\ Len(xs) = n + 1
      /\ \A i \in 1 .. n : xs[i] = ws[i]
      /\ added.firstSeen[t] = v.own[t]
      /\ Before(ws[n].sync, added.sync) /\ (Releases(ord) => Before(v.own, added.sync))
  BY WriteIs
<1>2. \A u \in Threads : u # t => added.firstSeen[u] = Unseen
  <2>1. added = [value |-> val, sync |-> SyncWrite(v, Last(ws).sync, ord),
                 seqCst |-> ord = "SeqCst", firstSeen |-> Touched(Never, t, v.own)]
    BY AppendProperties DEF Write
  <2>2. added.firstSeen = Touched(Never, t, v.own)
    BY <2>1
  <2>3. QED
    BY <2>2 DEF Touched, Never
<1>3. v.own[t] \in Nat /\ Unseen \notin Nat
  BY DEF Views, Vectors, Unseen
<1> HIDE DEF xs
<1>4. ASSUME NEW i \in 1 .. Len(xs), NEW u \in Threads, xs[i].firstSeen[u] # Unseen
      PROVE  \/ i <= n /\ xs[i].firstSeen[u] = ws[i].firstSeen[u]
             \/ u = t /\ xs[i].firstSeen[u] <= v.own[t]
  <2>1. i \in 1 .. n \/ i = n + 1
    BY <1>1
  <2>2. CASE i \in 1 .. n
    BY <1>1, <2>2
  <2>3. CASE i = n + 1
    BY <1>1, <1>2, <1>3, <1>4, <2>3
  <2>4. QED
    BY <2>1, <2>2, <2>3
<1>5. \A i \in n + 1 .. Len(xs) : i > 1 /\ Before(xs[i - 1].sync, xs[i].sync)
  <2> TAKE i \in n + 1 .. Len(xs)
  <2>1. i = n + 1 /\ i > 1 /\ i - 1 = n /\ n \in 1 .. n
    BY <1>1
  <2>2. xs[i - 1] = ws[n]
    BY <1>1, <2>1
  <2>3. QED
    BY <1>1, <2>1, <2>2
<1>6. Grown(ws, xs, t, v.own)
  BY <1>1, <1>4, <1>5 DEF Grown
<1>7. QED
  BY <1>1, <1>3, <1>6 DEF xs

-------------------------------------------------------------------------------
(* The operations on the memory, each by a thread t that knows c in it, before its *)
(* own counter is incremented.                                                     *)

LEMMA MemoryIs == MemoryTypeOK <=> MemoryTypes
BY DEF MemoryTypeOK, MemoryTypes, Writes, Stamps

LEMMA MemoryNextIs == MemoryTypes' => MemoryTypeOK'
BY DEF MemoryTypeOK, MemoryTypes, Writes, Stamps

LEMMA ViewIs ==
  ASSUME MemoryTypes, NEW t \in Threads
  PROVE  View(t) \in Views /\ View(t).own = causality[t] /\ View(t).sc = scCausality
BY DEF MemoryTypes, View, Views

LEMMA ConcludeIs ==
  ASSUME MemoryTypes, NEW t \in Threads, NEW v \in Views, Conclude(t, v)
  PROVE  /\ causality' \in [Threads -> Vectors] /\ scCausality' \in Vectors
         /\ cells' \in [Cells -> Vectors] /\ cells' = cells /\ scCausality' = v.sc
         /\ Before(v.own, causality'[t])
         /\ \A u \in Threads : u # t => causality'[u] = causality[u]
<1>1. Inc(v.own, t) \in Vectors /\ Before(v.own, Inc(v.own, t)) /\ v.sc \in Vectors
  BY IncIs DEF Views
<1>2. /\ causality' = [causality EXCEPT ![t] = Inc(v.own, t)] /\ scCausality' = v.sc
      /\ cells' = cells
  BY DEF Conclude
<1> HIDE DEF Inc
<1>3. QED
  BY <1>1, <1>2 DEF MemoryTypes

\* What every operation does, an operation that is a point of sequential consistency
\* (q), and one that leaves what it knows only before it (s).
Learns(t, c, q, s) ==
  /\ c \in Vectors /\ Before(causality[t], c) /\ Before(c, causality'[t])
  /\ \A u \in Threads : Before(causality[u], causality'[u])
  /\ Before(scCausality, scCausality')
  /\ q => /\ Before(c, scCausality') /\ Before(scCausality, causality'[t])
          /\ ~s => Before(scCausality, c)

AllGrown(t, c) ==
  \A b \in Atomics : /\ Grown(writes[b], writes'[b], t, c)
                     /\ Len(writes[b]) \in Nat /\ Len(writes'[b]) \in Nat

LEMMA SameGrown ==
  ASSUME MemoryTypes, writes' = writes, NEW t, NEW c
  PROVE  AllGrown(t, c)
<1> SUFFICES ASSUME NEW b \in Atomics
             PROVE  /\ Grown(writes[b], writes[b], t, c)
                    /\ Len(writes[b]) \in Nat
  BY DEF AllGrown
<1>1. Len(writes[b]) \in Nat
  BY LenProperties DEF MemoryTypes
<1>2. QED
  BY <1>1 DEF Grown

LEMMA LoadEffect ==
  ASSUME MemoryTypes, NEW t \in Threads, NEW a \in Atomics, NEW ord, NEW k \in DOMAIN writes[a],
         Load(t, a, ord, k)
  PROVE  /\ MemoryTypes'
         /\ \E c : /\ Learns(t, c, ord = "SeqCst", FALSE) /\ AllGrown(t, c)
                   /\ Acquires(ord) => Before(writes[a][k].sync, c)
         /\ \A b \in Atomics : Len(writes'[b]) = Len(writes[b])
         /\ cells' = cells /\ k \in 1 .. Len(writes[a]) /\ k > 0
         /\ writes'[a][k].firstSeen[t] # Unseen
<1> DEFINE ws == writes[a]
           xs == [ws EXCEPT ![k].firstSeen = Touched(@, t, causality[t])]
           v == View(t)
           r == SyncRead(v, ws[k].sync, ord)
<1>1. /\ ws \in Seq(Writes) /\ k \in 1 .. Len(ws) /\ Len(ws) \in Nat
      /\ causality[t] \in Vectors /\ scCausality \in Vectors
  BY LenProperties DEF MemoryTypes
<1>2. v \in Views /\ v.own = causality[t] /\ v.sc = scCausality
  BY ViewIs
<1>3. ws[k] \in Writes /\ ws[k].sync \in Vectors
  <2>1. ws[k] \in Writes
    BY <1>1, ElementOfSeq
  <2>2. QED
    BY <2>1 DEF Writes
<1>4. /\ xs \in Seq(Writes) /\ Len(xs) = Len(ws)
      /\ Grown(ws, xs, t, causality[t]) /\ xs[k].firstSeen[t] # Unseen
  BY <1>1, TouchGrows
<1>5. writes' = [writes EXCEPT ![a] = xs] /\ Conclude(t, r)
  BY DEF Load
<1> HIDE DEF xs, ws, v, r
<1>6. /\ r \in Views
      /\ Before(v.own, r.own) /\ Before(v.sc, r.sc)
      /\ Acquires(ord) => Before(ws[k].sync, r.own)
      /\ ord = "SeqCst" => Before(v.sc, r.own) /\ r.sc = r.own
  BY <1>2, <1>3, SyncReadIs DEF r
<1>7. r.own \in Vectors /\ r.sc \in Vectors
  BY <1>6 DEF Views
<1>8. /\ causality' \in [Threads -> Vectors] /\ scCausality' \in Vectors
      /\ cells' \in [Cells -> Vectors] /\ cells' = cells /\ scCausality' = r.sc
      /\ Before(r.own, causality'[t])
      /\ \A u \in Threads : u # t => causality'[u] = causality[u]
  BY <1>5, <1>6, ConcludeIs
<1>9. writes' \in [Atomics -> Seq(Writes)]
  BY <1>4, <1>5 DEF MemoryTypes
<1>10. Learns(t, r.own, ord = "SeqCst", FALSE)
  <2>1. Before(causality[t], causality'[t]) /\ causality'[t] \in Vectors
    BY <1>1, <1>2, <1>6, <1>7, <1>8, BeforeOrders
  <2>2. \A u \in Threads : Before(causality[u], causality'[u])
    BY <1>8, <2>1, BeforeOrders DEF MemoryTypes
  <2>3. ord = "SeqCst" => /\ Before(r.own, scCausality') /\ Before(scCausality, causality'[t])
                          /\ Before(scCausality, r.own)
    BY <1>1, <1>2, <1>6, <1>7, <1>8, <2>1, BeforeOrders
  <2>4. QED
    BY <1>2, <1>6, <1>7, <1>8, <2>2, <2>3 DEF Learns
<1>11. AllGrown(t, r.own)
  <2>1. Grown(ws, xs, t, r.own)
    BY <1>1, <1>2, <1>4, <1>6, <1>7, GrownMore
  <2>2. ASSUME NEW b \in Atomics, b # a
        PROVE  writes'[b] = writes[b] /\ Len(writes[b]) \in Nat
    BY <1>5, <2>2, LenProperties DEF MemoryTypes
  <2>3. ASSUME NEW b \in Atomics, b # a
        PROVE  Grown(writes[b], writes'[b], t, r.own)
    BY <2>2, <2>3 DEF Grown
  <2>4. writes'[a] = xs
    BY <1>5 DEF MemoryTypes
  <2>5. QED
    BY <1>1, <1>4, <2>1, <2>2, <2>3, <2>4 DEF AllGrown, ws
<1>12. \A b \in Atomics : Len(writes'[b]) = Len(writes[b])
  BY <1>4, <1>5 DEF MemoryTypes, ws
<1>13. writes'[a][k].firstSeen[t] # Unseen
  BY <1>4, <1>5 DEF MemoryTypes
<1>14. MemoryTypes' /\ k > 0
  BY <1>1, <1>8, <1>9 DEF MemoryTypes
<1>15. Acquires(ord) => Before(writes[a][k].sync, r.own)
  BY <1>6 DEF ws
<1>16. QED
  BY <1>1, <1>8, <1>10, <1>11, <1>12, <1>13, <1>14, <1>15 DEF ws

\* do_write, by a thread that knows v, of the writes ws (those of a, or what the read
\* before it made of them).
LEMMA WriteEffect ==
  ASSUME MemoryTypes, NEW t \in Threads, NEW a \in Atomics, NEW val \in Nat, NEW ord,
         NEW v \in Views, NEW ws \in Seq(Writes), ws # <<>>, Len(ws) = Len(writes[a]),
         Grown(writes[a], ws, t, v.own),
         Before(causality[t], v.own), Before(scCausality, v.sc),
         writes' = [writes EXCEPT ![a] = Write(ws, t, v, val, ord)],
         Conclude(t, AfterWrite(v, ord))
  PROVE  LET n == Len(writes[a]) IN
         /\ MemoryTypes' /\ n \in Nat \ {0}
         /\ \A s : (ord = "SeqCst" /\ ~s => Before(scCausality, v.own))
              => Learns(t, v.own, ord = "SeqCst", s)
         /\ AllGrown(t, v.own)
         /\ Releases(ord) => Before(v.own, writes'[a][n + 1].sync)
         /\ Len(writes'[a]) = n + 1 /\ writes'[a][n + 1].firstSeen[t] # Unseen
         /\ \A i \in 1 .. n : writes'[a][i] = ws[i]
         /\ \A b \in Atomics : b # a => Len(writes'[b]) = Len(writes[b])
         /\ cells' = cells
<1> DEFINE n == Len(writes[a])
           xs == Write(ws, t, v, val, ord)
           r == AfterWrite(v, ord)
<1>1. /\ n \in Nat \ {0} /\ xs \in Seq(Writes) /\ Len(xs) = n + 1
      /\ Grown(ws, xs, t, v.own) /\ xs[n + 1].firstSeen[t] # Unseen
      /\ Releases(ord) => Before(v.own, xs[n + 1].sync)
      /\ \A i \in 1 .. n : xs[i] = ws[i]
  BY WriteGrows, WriteIs, SMTT(30)
<1>2. /\ writes[a] \in Seq(Writes) /\ causality[t] \in Vectors /\ scCausality \in Vectors
      /\ v.own \in Vectors /\ v.sc \in Vectors
  BY DEF MemoryTypes, Views
<1>3. /\ r \in Views /\ Before(v.own, r.own) /\ Before(v.sc, r.sc)
      /\ ord = "SeqCst" => Before(v.sc, r.own) /\ Before(v.own, r.sc)
  BY AfterWriteIs
<1>4. r.own \in Vectors /\ r.sc \in Vectors
  BY <1>3 DEF Views
<1>5. writes' = [writes EXCEPT ![a] = xs] /\ Conclude(t, r)
  OBVIOUS
<1> HIDE DEF xs, r
<1>6. /\ causality' \in [Threads -> Vectors] /\ scCausality' \in Vectors
      /\ cells' \in [Cells -> Vectors] /\ cells' = cells /\ scCausality' = r.sc
      /\ Before(r.own, causality'[t])
      /\ \A u \in Threads : u # t => causality'[u] = causality[u]
  BY <1>3, <1>5, ConcludeIs
<1>7. writes' \in [Atomics -> Seq(Writes)] /\ writes'[a] = xs
  BY <1>1, <1>5 DEF MemoryTypes
<1>8. causality'[t] \in Vectors /\ Before(v.own, causality'[t])
  BY <1>2, <1>3, <1>4, <1>6, BeforeOrders
<1>9. ASSUME NEW s, ord = "SeqCst" /\ ~s => Before(scCausality, v.own)
      PROVE  Learns(t, v.own, ord = "SeqCst", s)
  <2>1. Before(causality[t], causality'[t])
    BY <1>2, <1>8, BeforeOrders
  <2>2. \A u \in Threads : Before(causality[u], causality'[u])
    BY <1>6, <2>1, BeforeOrders DEF MemoryTypes
  <2>3. Before(scCausality, scCausality')
    BY <1>2, <1>3, <1>4, <1>6, BeforeOrders
  <2>4. ord = "SeqCst" => Before(v.own, scCausality') /\ Before(scCausality, causality'[t])
    <3>1. ord = "SeqCst" => Before(scCausality, r.own)
      BY <1>2, <1>3, <1>4, BeforeOrders
    <3>2. QED
      BY <1>2, <1>3, <1>4, <1>6, <1>8, <3>1, BeforeOrders
  <2>5. QED
    BY <1>2, <1>8, <1>9, <2>2, <2>3, <2>4 DEF Learns
<1>10. AllGrown(t, v.own)
  <2>1. Grown(writes[a], xs, t, v.own)
    BY <1>1, <1>2, GrownTwice
  <2>2. ASSUME NEW b \in Atomics, b # a
        PROVE  writes'[b] = writes[b] /\ Len(writes[b]) \in Nat
    BY <1>5, <2>2, LenProperties DEF MemoryTypes
  <2>3. ASSUME NEW b \in Atomics, b # a
        PROVE  Grown(writes[b], writes'[b], t, v.own)
    BY <2>2, <2>3 DEF Grown
  <2>4. n + 1 \in Nat
    BY <1>1
  <2>5. QED
    BY <1>1, <1>7, <2>1, <2>2, <2>3, <2>4 DEF AllGrown
<1>11. \A b \in Atomics : b # a => Len(writes'[b]) = Len(writes[b])
  BY <1>5 DEF MemoryTypes
<1>12. MemoryTypes'
  BY <1>6, <1>7 DEF MemoryTypes
<1>13. QED
  BY <1>1, <1>6, <1>7, <1>9, <1>10, <1>11, <1>12 DEF xs

LEMMA StoreEffect ==
  ASSUME MemoryTypes, NEW t \in Threads, NEW a \in Atomics, writes[a] # <<>>,
         NEW val \in Nat, NEW ord, Store(t, a, val, ord)
  PROVE  LET n == Len(writes[a]) IN
         /\ MemoryTypes' /\ n \in Nat \ {0}
         /\ \E c : /\ Learns(t, c, ord = "SeqCst", TRUE) /\ AllGrown(t, c)
                   /\ Releases(ord) => Before(c, writes'[a][n + 1].sync)
         /\ Len(writes'[a]) = n + 1 /\ writes'[a][n + 1].firstSeen[t] # Unseen
         /\ \A b \in Atomics : b # a => Len(writes'[b]) = Len(writes[b])
         /\ cells' = cells
<1> DEFINE v == View(t)
           ws == writes[a]
<1>1. v \in Views /\ v.own = causality[t] /\ v.sc = scCausality
  BY ViewIs
<1>2. writes' = [writes EXCEPT ![a] = Write(ws, t, v, val, ord)] /\ Conclude(t, AfterWrite(v, ord))
  BY DEF Store
<1> HIDE DEF v
<1>3. ws \in Seq(Writes) /\ ws # <<>> /\ causality[t] \in Vectors /\ scCausality \in Vectors
  BY DEF MemoryTypes
<1>4. Len(ws) \in Nat /\ Grown(writes[a], ws, t, v.own)
  BY <1>3, LenProperties DEF Grown
<1>5. Before(causality[t], v.own) /\ Before(scCausality, v.sc)
  BY <1>1, <1>3, BeforeOrders
<1> HIDE DEF ws
<1>6. LET n == Len(writes[a]) IN
      /\ MemoryTypes' /\ n \in Nat \ {0}
      /\ \A s : (ord = "SeqCst" /\ ~s => Before(scCausality, v.own))
           => Learns(t, v.own, ord = "SeqCst", s)
      /\ AllGrown(t, v.own)
      /\ Releases(ord) => Before(v.own, writes'[a][n + 1].sync)
      /\ Len(writes'[a]) = n + 1 /\ writes'[a][n + 1].firstSeen[t] # Unseen
      /\ \A b \in Atomics : b # a => Len(writes'[b]) = Len(writes[b])
      /\ cells' = cells
  <2>1. Len(ws) = Len(writes[a])
    BY DEF ws
  <2>2. QED
    BY <1>1, <1>2, <1>3, <1>4, <1>5, <2>1, WriteEffect, Zenon
<1>7. Learns(t, v.own, ord = "SeqCst", TRUE)
  BY <1>6
<1>8. QED
  BY <1>6, <1>7

LEMMA RmwEffect ==
  ASSUME MemoryTypes, NEW t \in Threads, NEW a \in Atomics, writes[a] # <<>>,
         NEW val \in Nat, NEW ord, Rmw(t, a, val, ord)
  PROVE  LET n == Len(writes[a]) IN
         /\ MemoryTypes' /\ n \in Nat \ {0}
         /\ \E c : /\ Learns(t, c, ord = "SeqCst", FALSE) /\ AllGrown(t, c)
                   /\ Releases(ord) => Before(c, writes'[a][n + 1].sync)
                   /\ Acquires(ord) => Before(writes[a][n].sync, c)
         /\ Len(writes'[a]) = n + 1 /\ writes'[a][n + 1].firstSeen[t] # Unseen
         /\ writes'[a][n].firstSeen[t] # Unseen
         /\ \A b \in Atomics : b # a => Len(writes'[b]) = Len(writes[b])
         /\ cells' = cells
<1> DEFINE n == Len(writes[a])
           old == writes[a]
           ws == [old EXCEPT ![n].firstSeen = Touched(@, t, causality[t])]
           v == SyncRead(View(t), old[n].sync, ord)
<1>1. /\ View(t) \in Views /\ View(t).own = causality[t] /\ View(t).sc = scCausality
      /\ old \in Seq(Writes) /\ causality[t] \in Vectors /\ scCausality \in Vectors
  BY ViewIs DEF MemoryTypes
<1>2. n \in Nat \ {0} /\ n \in 1 .. Len(old)
  <2>1. n \in Nat /\ n # 0
    BY <1>1, LenProperties, EmptySeq
  <2>2. QED
    BY <2>1
<1>3. old[n].sync \in Vectors
  <2>1. old[n] \in Writes
    BY <1>1, <1>2, ElementOfSeq
  <2>2. QED
    BY <2>1 DEF Writes
<1>4. /\ v \in Views
      /\ Before(causality[t], v.own) /\ Before(scCausality, v.sc)
      /\ Acquires(ord) => Before(old[n].sync, v.own)
      /\ ord = "SeqCst" => Before(scCausality, v.own) /\ v.sc = v.own
  BY <1>1, <1>3, SyncReadIs
<1>5. writes' = [writes EXCEPT ![a] = Write(ws, t, v, val, ord)] /\ Conclude(t, AfterWrite(v, ord))
  BY DEF Rmw
<1>6. /\ ws \in Seq(Writes) /\ Len(ws) = n
      /\ Grown(old, ws, t, causality[t]) /\ ws[n].firstSeen[t] # Unseen
  <2>1. Len(old) = n
    OBVIOUS
  <2> HIDE DEF old, n
  <2>2. /\ ws \in Seq(Writes) /\ Len(ws) = Len(old)
        /\ Grown(old, ws, t, causality[t]) /\ ws[n].firstSeen[t] # Unseen
    BY <1>1, <1>2, TouchGrows
  <2>3. QED
    BY <2>1, <2>2
<1> HIDE DEF v, ws
<1>7. v.own \in Vectors
  BY <1>4 DEF Views
<1>8. Grown(old, ws, t, v.own)
  BY <1>1, <1>4, <1>6, <1>7, GrownMore
<1>9. ws # <<>>
  BY <1>2, <1>6, EmptySeq
<1>10. /\ MemoryTypes' /\ n \in Nat \ {0}
       /\ \A s : (ord = "SeqCst" /\ ~s => Before(scCausality, v.own))
            => Learns(t, v.own, ord = "SeqCst", s)
       /\ AllGrown(t, v.own)
       /\ Releases(ord) => Before(v.own, writes'[a][n + 1].sync)
       /\ Len(writes'[a]) = n + 1 /\ writes'[a][n + 1].firstSeen[t] # Unseen
       /\ \A i \in 1 .. n : writes'[a][i] = ws[i]
       /\ \A b \in Atomics : b # a => Len(writes'[b]) = Len(writes[b])
       /\ cells' = cells
  <2>1. Len(ws) = Len(writes[a]) /\ Grown(writes[a], ws, t, v.own)
    BY <1>6, <1>8
  <2>2. ws \in Seq(Writes)
    BY <1>6
  <2> HIDE DEF old
  <2>3. QED
    BY <1>4, <1>5, <1>9, <2>1, <2>2, WriteEffect
<1>11. Learns(t, v.own, ord = "SeqCst", FALSE)
  BY <1>4, <1>10
<1>12. writes'[a][n].firstSeen[t] # Unseen
  BY <1>2, <1>6, <1>10
<1>13. QED
  BY <1>2, <1>4, <1>10, <1>11, <1>12

\* seq_cst() alone
LEMMA FenceEffect ==
  ASSUME MemoryTypes, NEW t \in Threads, Fence(t)
  PROVE  /\ MemoryTypes' /\ writes' = writes /\ cells' = cells
         /\ \E c : Learns(t, c, TRUE, FALSE)
<1> DEFINE r == SeqCst(View(t))
<1>1. /\ View(t) \in Views /\ View(t).own = causality[t] /\ View(t).sc = scCausality
      /\ causality[t] \in Vectors /\ scCausality \in Vectors
  BY ViewIs DEF MemoryTypes
<1>2. /\ r \in Views
      /\ Before(causality[t], r.own) /\ Before(scCausality, r.own)
      /\ Before(scCausality, r.sc) /\ r.own = r.sc
  BY <1>1, SeqCstIs
<1>3. /\ causality' = [causality EXCEPT ![t] = r.own] /\ scCausality' = r.sc
      /\ writes' = writes /\ cells' = cells
  BY DEF Fence
<1> HIDE DEF r
<1>4. r.own \in Vectors /\ r.sc \in Vectors
  BY <1>2 DEF Views
<1>5. causality'[t] = r.own /\ \A u \in Threads : u # t => causality'[u] = causality[u]
  BY <1>3 DEF MemoryTypes
<1>6. MemoryTypes'
  BY <1>3, <1>4 DEF MemoryTypes
<1>7. \A u \in Threads : Before(causality[u], causality'[u])
  BY <1>2, <1>5, BeforeOrders DEF MemoryTypes
<1>8. Learns(t, r.own, TRUE, FALSE)
  BY <1>2, <1>3, <1>4, <1>5, <1>7, BeforeOrders DEF Learns
<1>9. QED
  BY <1>3, <1>6, <1>8

\* The others only make a thread know more.
LEMMA HandEffect ==
  ASSUME MemoryTypes, NEW t \in Threads, NEW u, Hand(t, u)
  PROVE  /\ MemoryTypes' /\ writes' = writes /\ cells' = cells /\ scCausality' = scCausality
         /\ \A w \in Threads : Before(causality[w], causality'[w])
<1>1. /\ causality' = [causality EXCEPT ![u] = Join(causality[u], causality[t])]
      /\ scCausality' = scCausality /\ writes' = writes /\ cells' = cells
  BY DEF Hand
<1>2. ASSUME NEW w \in Threads
      PROVE  causality'[w] \in Vectors /\ Before(causality[w], causality'[w])
  <2>1. causality[w] \in Vectors /\ causality[t] \in Vectors
    BY DEF MemoryTypes
  <2>2. CASE w = u
    <3>1. causality'[w] = Join(causality[w], causality[t])
      BY <1>1, <2>2 DEF MemoryTypes
    <3>2. QED
      BY <2>1, <3>1, JoinIs
  <2>3. CASE w # u
    BY <1>1, <2>1, <2>3, BeforeOrders DEF MemoryTypes
  <2>4. QED
    BY <2>2, <2>3
<1>3. causality' \in [Threads -> Vectors]
  BY <1>1, <1>2 DEF MemoryTypes
<1>4. QED
  BY <1>1, <1>2, <1>3 DEF MemoryTypes

LEMMA InheritEffect ==
  ASSUME MemoryTypes, NEW t \in Threads, NEW u, Inherit(t, u)
  PROVE  /\ MemoryTypes' /\ writes' = writes /\ cells' = cells
         /\ Learns(t, causality[t], FALSE, FALSE)
         /\ u \in Threads => Before(causality[t], causality'[u])
<1> DEFINE new == Inc(Join(causality[u], causality[t]), u)
<1>1. /\ causality' = [causality EXCEPT ![u] = new]
      /\ scCausality' = scCausality /\ writes' = writes /\ cells' = cells
  BY DEF Inherit
<1>2. ASSUME u \in Threads
      PROVE  new \in Vectors /\ Before(causality[u], new) /\ Before(causality[t], new)
  <2>1. causality[u] \in Vectors /\ causality[t] \in Vectors
    BY <1>2 DEF MemoryTypes
  <2>2. /\ Join(causality[u], causality[t]) \in Vectors
        /\ Before(causality[u], Join(causality[u], causality[t]))
        /\ Before(causality[t], Join(causality[u], causality[t]))
    BY <2>1, JoinIs
  <2> HIDE DEF Join
  <2>3. /\ new \in Vectors /\ Before(Join(causality[u], causality[t]), new)
    BY <2>2, IncIs
  <2> HIDE DEF new
  <2>4. QED
    BY <2>1, <2>2, <2>3, BeforeOrders
<1> HIDE DEF new
<1>3. ASSUME NEW w \in Threads
      PROVE  causality'[w] \in Vectors /\ Before(causality[w], causality'[w])
  <2>1. causality[w] \in Vectors
    BY DEF MemoryTypes
  <2>2. CASE w = u
    <3>1. causality'[w] = new
      BY <1>1, <2>2 DEF MemoryTypes
    <3>2. QED
      BY <1>2, <2>2, <3>1
  <2>3. CASE w # u
    BY <1>1, <2>1, <2>3, BeforeOrders DEF MemoryTypes
  <2>4. QED
    BY <2>2, <2>3
<1>4. causality' \in [Threads -> Vectors]
  BY <1>1, <1>3 DEF MemoryTypes
<1>5. u \in Threads => Before(causality[t], causality'[u])
  BY <1>1, <1>2 DEF MemoryTypes
<1>6. causality[t] \in Vectors /\ Before(causality[t], causality[t])
      /\ Before(scCausality, scCausality') /\ scCausality \in Vectors
  BY <1>1, BeforeOrders DEF MemoryTypes
<1>7. Learns(t, causality[t], FALSE, FALSE)
  BY <1>3, <1>6 DEF Learns
<1>8. QED
  BY <1>1, <1>4, <1>5, <1>7 DEF MemoryTypes

-------------------------------------------------------------------------------
(* Types: ... of the threads and of the partial order reduction. *)

\* A branch decides for a thread that has a mark there.
LEMMA ChosenIs ==
  ASSUME NEW b \in Schedules
  PROVE  Chosen(b) \in DOMAIN b.threads \cup {None}
<1>1. b.kind = "Schedule" /\ DOMAIN b.threads \subseteq Nat
  BY Kinds, ThreadsAreNumbers
<1>2. Marked(b.threads, "Active") \subseteq DOMAIN b.threads
  BY DEF Marked
<1>3. CASE Marked(b.threads, "Active") = {}
  BY <1>1, <1>3 DEF Chosen
<1>4. CASE Marked(b.threads, "Active") # {}
  <2>1. Min(Marked(b.threads, "Active")) \in Marked(b.threads, "Active")
    BY <1>1, <1>2, <1>4, Least
  <2>2. QED
    BY <1>1, <1>2, <1>4, <2>1 DEF Chosen
<1>5. QED
  BY <1>3, <1>4

LEMMA MaxIs ==
  ASSUME NEW x \in Nat, NEW D, D \subseteq {"load", "store", "any"},
         NEW g, \A f \in {"load", "store", "any"} : g[f] \in Nat
  PROVE  Max({x} \cup {g[f] : f \in D}) \in Nat
<1> DEFINE S == {x} \cup {g[f] : f \in D}
           N == x + g["load"] + g["store"] + g["any"]
<1>1. g["load"] \in Nat /\ g["store"] \in Nat /\ g["any"] \in Nat
  OBVIOUS
<1>2. \A f \in D : g[f] \in 0 .. N
  BY <1>1
<1>3. N \in Nat /\ x \in 0 .. N
  BY <1>1
<1> HIDE DEF N
<1>4. S \subseteq 0 .. N /\ S # {}
  BY <1>2, <1>3
<1> HIDE DEF S
<1>5. Max(S) \in S
  BY <1>3, <1>4, Greatest
<1>6. QED
  BY <1>4, <1>5 DEF S

LEMMA AccessTypes ==
  ASSUME DporTypes, NEW op, op = NoOp \/ op.obj \in Objects, NEW i \in Nat, NEW t \in Threads,
         Access(op, i, t)
  PROVE  DporTypes'
<1>1. CASE op = NoOp
  BY <1>1 DEF Access, DporTypes
<1>2. CASE op # NoOp
  <2> DEFINE new == [u \in Threads |->
                Max({dpor[t][u]} \cup {last[op.obj][f].dpor[u] : f \in DependsOn(op)})]
  <2>1. /\ dpor' = [dpor EXCEPT ![t] = Inc(new, t)]
        /\ last' = [last EXCEPT ![op.obj] = [f \in DOMAIN last[op.obj] |->
              IF f \in Replaces(op) THEN [path |-> i, dpor |-> dpor'[t]] ELSE last[op.obj][f]]]
    BY <1>2 DEF Access
  <2>2. op.obj \in Objects /\ last[op.obj] \in [{"load", "store", "any"} -> Accesses]
    BY <1>2 DEF DporTypes
  <2>3. DependsOn(op) \subseteq {"load", "store", "any"}
    BY DEF DependsOn
  <2>4. new \in Vectors
    <3> SUFFICES ASSUME NEW u \in Threads
                 PROVE  Max({dpor[t][u]} \cup {last[op.obj][f].dpor[u] : f \in DependsOn(op)}) \in Nat
      BY DEF Vectors
    <3> DEFINE g == [f \in {"load", "store", "any"} |-> last[op.obj][f].dpor[u]]
    <3>1. dpor[t][u] \in Nat
      BY DEF DporTypes, Vectors
    <3>2. \A f \in {"load", "store", "any"} : g[f] \in Nat
      BY <2>2 DEF Accesses, Vectors
    <3>3. {g[f] : f \in DependsOn(op)} = {last[op.obj][f].dpor[u] : f \in DependsOn(op)}
      BY <2>3
    <3> HIDE DEF g
    <3>4. Max({dpor[t][u]} \cup {g[f] : f \in DependsOn(op)}) \in Nat
      BY <2>3, <3>1, <3>2, MaxIs, SMTT(30)
    <3>5. QED
      BY <3>3, <3>4
  <2> HIDE DEF new
  <2>5. Inc(new, t) \in Vectors
    BY <2>4, IncIs
  <2>6. dpor' \in [Threads -> Vectors] /\ dpor'[t] \in Vectors
    BY <2>1, <2>5 DEF DporTypes
  <2>7. [f \in DOMAIN last[op.obj] |->
            IF f \in Replaces(op) THEN [path |-> i, dpor |-> dpor'[t]] ELSE last[op.obj][f]]
          \in [{"load", "store", "any"} -> Accesses]
    BY <2>2, <2>6 DEF Accesses
  <2>8. last' \in [Objects -> [{"load", "store", "any"} -> Accesses]]
    BY <2>1, <2>7 DEF DporTypes
  <2>9. QED
    BY <2>6, <2>8 DEF DporTypes
<1>3. QED
  BY <1>1, <1>2

\* A branch point, of thread t in the state st from then on.
LEMMA BranchTypes ==
  ASSUME IInv, Spawned, ThreadTypes, DporTypes, ProcessTypes, NEW t \in Threads, active = t,
         NEW st \in {"Runnable", "Blocked", "Terminated"},
         NEW op, op = NoOp \/ (op \in ToSet(program[t]) /\ op.kind \in Branching),
         NEW where \in {"client", "branched", "parked"},
         phase \in {"search", "audit"}, Branch(t, st, op, where)
  PROVE  Spawned' /\ ThreadTypes' /\ DporTypes' /\ ProcessTypes'
<1> DEFINE ops == [operation EXCEPT ![t] = op]
           states == [status EXCEPT ![t] = st]
<1>1. CASE phase = "search" /\ Unprepared(ops)
  <2>1. Panic
    BY <1>1 DEF Branch
  <2>2. /\ UNCHANGED <<status, operation, active, pc, stage, owner, dpor, last, program>>
        /\ UNCHANGED <<iteration, file, crashes, overlooked>> /\ phase' = "panicked"
    BY <2>1 DEF Panic, threads, search, process, marks
  <2>3. QED
    BY <2>2 DEF Spawned, ThreadTypes, DporTypes, ProcessTypes, Created
<1>2. CASE ~(phase = "search" /\ Unprepared(ops))
  <2>1. /\ status' = states /\ operation' = ops /\ Switch(states, ops)
        /\ stage' = [stage EXCEPT ![t] = where]
        /\ UNCHANGED <<pc, owner, program, iteration, file, crashes>>
    BY <1>2 DEF Branch, process
  <2>2. t \in Created /\ Created \subseteq Threads
    BY NoneAssumption DEF Spawned, Created
  <2>3. Created' = Created
    BY <2>1, <2>2 DEF Created, ThreadTypes
  <2>4. ThreadTypes'
    BY <2>1 DEF ThreadTypes
  <2>5. \A u \in Threads : ops[u] = NoOp \/ ops[u].obj \in Objects
    <3> TAKE u \in Threads
    <3>1. \/ ops[u] = NoOp
          \/ ops[u] \in ToSet(program[u]) /\ ops[u].kind \in Branching
      BY DEF ThreadTypes
    <3>2. ops[u] \in ToSet(program[u]) => Fits(ops[u])
      BY ProgramsAssumption DEF IInv
    <3>3. QED
      BY <3>1, <3>2 DEF Fits, Branching, Objects
  <2>6. /\ active' \in Created \cup {None} /\ DporTypes'
        /\ phase' \in {phase, "refuted", "failed"} /\ overlooked' \in BOOLEAN
    <3>1. CASE phase = "audit"
      <4>1. Free(states)
        BY <2>1, <3>1 DEF Switch
      <4>2. active' \in Created \cup {None} /\ phase' \in {phase, "refuted", "failed"}
        BY <4>1 DEF Free, Nobody
      <4>3. UNCHANGED <<dpor, last, overlooked>>
        BY <4>1 DEF Free, search, marks
      <4>4. QED
        BY <4>2, <4>3 DEF DporTypes, ProcessTypes
    <3>2. CASE phase = "search"
      <4> DEFINE bs == Backtrack(ops)
                 seed == Seed(states)
      <4>1. Schedule(states, ops) /\ ~Unprepared(ops)
        BY <1>2, <2>1, <3>2 DEF Switch
      <4>2. /\ pos' = pos + 1 /\ branches' = Branched(bs, pos, seed)
            /\ active' = Chosen(branches'[pos'])
            /\ overlooked' = (overlooked \/ Overlooks(ops))
            /\ active' = None => phase' = Nobody(states) /\ UNCHANGED <<dpor, last>>
            /\ active' # None => Access(ops[active'], pos', active') /\ UNCHANGED phase
        BY <4>1 DEF Schedule
      <4>3. /\ bs \in Paths /\ Len(bs) = Len(branches) /\ Len(branches) \in Nat
            /\ \A i \in DOMAIN branches : Chosen(bs[i]) = Chosen(branches[i])
            /\ pos \in 0 .. Len(bs) /\ DOMAIN branches = 1 .. Len(branches)
        BY BacktrackIs, PathIs DEF IInv
      <4>4. seed \in Schedules /\ Orderly(seed)
        BY SeedIs DEF Spawned
      <4>5. branches'[pos'] = IF pos = Len(bs) THEN seed ELSE bs[pos + 1]
        BY <4>2, <4>3, <4>4, BranchedIs
      <4>6. active' \in Created \cup {None}
        <5>1. CASE pos = Len(bs)
          <6>1. active' \in DOMAIN seed.threads \cup {None}
            BY <4>2, <4>4, <4>5, <5>1, ChosenIs
          <6>2. DOMAIN seed.threads = Created
            BY DEF Seed
          <6>3. QED
            BY <6>1, <6>2
        <5>2. CASE pos # Len(bs)
          <6>1. pos + 1 \in DOMAIN branches /\ pos < Len(branches)
            BY <4>3, <5>2
          <6>2. Chosen(branches[pos + 1]) \in Created \cup {None}
            BY <4>1, <6>1 DEF Unprepared
          <6> HIDE DEF bs
          <6>3. Chosen(bs[pos + 1]) \in Created \cup {None}
            BY <4>3, <6>1, <6>2
          <6>4. QED
            BY <4>2, <4>5, <5>2, <6>3
        <5>3. QED
          BY <5>1, <5>2
      <4>7. DporTypes'
        <5>1. CASE active' = None
          BY <4>2, <5>1 DEF DporTypes
        <5>2. CASE active' # None
          <6>1. active' \in Threads /\ pos' \in Nat
            BY <2>2, <4>2, <4>3, <4>6, <5>2
          <6>2. Access(ops[active'], pos', active')
            BY <4>2, <5>2
          <6>3. ops[active'] = NoOp \/ ops[active'].obj \in Objects
            BY <2>5, <6>1
          <6> HIDE DEF ops
          <6>4. QED
            BY <6>1, <6>2, <6>3, AccessTypes
        <5>3. QED
          BY <5>1, <5>2
      <4>8. phase' \in {phase, "refuted", "failed"}
        BY <4>2 DEF Nobody
      <4>9. overlooked' \in BOOLEAN
        BY <4>2
      <4>10. QED
        BY <4>6, <4>7, <4>8, <4>9
    <3>3. QED
      BY <3>1, <3>2
  <2>7. Spawned'
    <3>1. \A u \in Threads \ Created : operation'[u] = NoOp /\ stage'[u] = "client"
      BY <2>1, <2>2 DEF Spawned, ThreadTypes
    <3>2. QED
      BY <2>3, <2>6, <3>1 DEF Spawned
  <2>8. ProcessTypes'
    BY <2>1, <2>6 DEF ProcessTypes
  <2>9. QED
    BY <2>4, <2>6, <2>7, <2>8
<1>3. QED
  BY <1>1, <1>2

\* A step of the active thread t that is not at a branch point: it leaves t at place p of
\* its program, and the threads with the states it gives them.
LEMMA PlacedTypes ==
  ASSUME IInv, Spawned, ThreadTypes, ProcessTypes, NEW t \in Threads, active = t,
         NEW p \in Nat, p <= Len(program[t]) + 1,
         pc' = [pc EXCEPT ![t] = p], stage' = [stage EXCEPT ![t] = "client"],
         UNCHANGED <<operation, active, program, iteration, file, crashes, overlooked, phase>>,
         owner' \in [Mutexes -> Threads \cup {None}],
         status' \in [Threads -> {"Absent", "Runnable", "Blocked", "Terminated"}],
         Created \subseteq Created', \E n \in Threads : Created' = 0 .. n
  PROVE  Spawned' /\ ThreadTypes' /\ ProcessTypes'
<1>1. t \in Created /\ Created \subseteq Threads
  BY NoneAssumption DEF Spawned, Created
<1>2. stage' \in [Threads -> {"client", "branched", "parked"}]
  BY DEF ThreadTypes
<1>3. ThreadTypes'
  <2>1. \A u \in Threads : pc'[u] <= Len(program'[u]) + 1
    BY DEF IInv, ThreadTypes
  <2>2. \A u \in Threads : \/ operation'[u] = NoOp
                           \/ /\ operation'[u] \in ToSet(program'[u])
                              /\ operation'[u].kind \in Branching
    BY DEF ThreadTypes
  <2>3. QED
    BY <1>2, <2>1, <2>2 DEF ThreadTypes
<1>4. \A u \in Threads \ Created' : operation'[u] = NoOp /\ stage'[u] = "client"
  BY <1>1 DEF Spawned, ThreadTypes
<1>5. active' \in Created' \cup {None}
  BY <1>1
<1>6. Spawned'
  BY <1>4, <1>5 DEF Spawned
<1>7. QED
  BY <1>3, <1>6 DEF ProcessTypes

LEMMA ReturnPlaces ==
  ASSUME IInv, NEW t \in Threads, ~AtEnd(t), Return(t)
  PROVE  \E p \in Nat : /\ p <= Len(program[t]) + 1 /\ pc' = [pc EXCEPT ![t] = p]
                        /\ stage' = [stage EXCEPT ![t] = "client"]
<1>1. Len(program[t]) \in Nat /\ pc[t] \in 1 .. Len(program[t])
  BY OperationIs
<1>2. pc[t] + 1 \in Nat /\ pc[t] + 1 <= Len(program[t]) + 1
  BY <1>1
<1>3. QED
  BY <1>2 DEF Return

\* The threads whose operation is on the mutex exist.
LEMMA ContendersAre ==
  ASSUME Spawned, ThreadTypes, NEW t, NEW st \in {"Runnable", "Blocked"},
         status' = Contenders(t, st)
  PROVE  /\ status' \in [Threads -> {"Absent", "Runnable", "Blocked", "Terminated"}]
         /\ Created' = Created
<1>1. \A u \in Threads : status'[u] = IF u # t /\ operation[u] # NoOp /\ operation[u].obj = Op(t).obj
                                      THEN st ELSE status[u]
  BY DEF Contenders
<1>2. DOMAIN status' = Threads /\ status' = [u \in Threads |-> status'[u]]
  BY DEF Contenders
<1>3. \A u \in Threads : operation[u] # NoOp => status[u] # "Absent"
  BY DEF Spawned, Created
<1>4. Created' = Created
  BY <1>1, <1>3 DEF Created
<1>5. status' \in [Threads -> {"Absent", "Runnable", "Blocked", "Terminated"}]
  BY <1>1, <1>2 DEF ThreadTypes
<1>6. QED
  BY <1>4, <1>5

\* new_thread gives the next id.
LEMMA CreatedGrows ==
  ASSUME Spawned, ThreadTypes, status' = [status EXCEPT ![Cardinality(Created)] = "Runnable"]
  PROVE  /\ status' \in [Threads -> {"Absent", "Runnable", "Blocked", "Terminated"}]
         /\ Created \subseteq Created' /\ \E n \in Threads : Created' = 0 .. n
<1>1. PICK n \in Threads : Created = 0 .. n
  BY DEF Spawned
<1>2. n \in Nat /\ Threads \subseteq Nat
  BY ThreadsAreNumbers
<1>3. Cardinality(Created) = n + 1
  <2>1. Cardinality(0 .. n) = IF 0 > n THEN 0 ELSE n - 0 + 1
    BY <1>2, FS_Interval
  <2>2. QED
    BY <1>1, <1>2, <2>1
<1>4. status' = [status EXCEPT ![n + 1] = "Runnable"]
  BY <1>3
<1>5. status' \in [Threads -> {"Absent", "Runnable", "Blocked", "Terminated"}]
  BY <1>4 DEF ThreadTypes
<1>6. CASE n + 1 \in Threads
  <2>1. Created' = Created \cup {n + 1}
    BY <1>4, <1>6 DEF Created, ThreadTypes
  <2>2. 0 .. n + 1 = (0 .. n) \cup {n + 1}
    BY <1>2
  <2>3. QED
    BY <1>1, <1>5, <1>6, <2>1, <2>2
<1>7. CASE n + 1 \notin Threads
  <2>1. Created' = Created
    BY <1>4, <1>7 DEF Created, ThreadTypes
  <2>2. QED
    BY <1>1, <1>5, <2>1
<1>8. QED
  BY <1>6, <1>7

LEMMA SameCreated ==
  ASSUME Spawned, UNCHANGED status
  PROVE  Created' = Created /\ \E n \in Threads : Created' = 0 .. n
BY DEF Created, Spawned

LEMMA StepTypes ==
  ASSUME IInv, Spawned, ThreadTypes, DporTypes, ProcessTypes, NEW t \in Threads, Step(t)
  PROVE  Spawned' /\ ThreadTypes' /\ DporTypes' /\ ProcessTypes'
<1> DEFINE Active == active = t /\ phase \in {"search", "audit"}
           Stays == /\ Active /\ ~AtEnd(t) /\ Return(t)
                    /\ UNCHANGED <<operation, active, program, iteration, file, crashes, overlooked,
                                   phase>>
<1>a. ASSUME NEW st \in {"Runnable", "Blocked", "Terminated"},
             NEW op, op = NoOp \/ (~AtEnd(t) /\ op = Op(t) /\ op.kind \in Branching),
             NEW where \in {"client", "branched", "parked"}, Active, Branch(t, st, op, where)
      PROVE  Spawned' /\ ThreadTypes' /\ DporTypes' /\ ProcessTypes'
  <2>1. CASE ~AtEnd(t)
    <3>1. Op(t) \in ToSet(program[t])
      BY <2>1, OperationIs
    <3>2. op = NoOp \/ (op \in ToSet(program[t]) /\ op.kind \in Branching)
      BY <1>a, <3>1
    <3>3. QED
      BY <1>a, <3>2, BranchTypes
  <2>2. CASE AtEnd(t)
    <3>1. op = NoOp
      BY <1>a, <2>2
    <3>2. QED
      BY <1>a, <3>1, BranchTypes
  <2>3. QED
    BY <2>1, <2>2
<1>b. ASSUME Stays, owner' \in [Mutexes -> Threads \cup {None}],
             status' \in [Threads -> {"Absent", "Runnable", "Blocked", "Terminated"}],
             Created \subseteq Created', \E n \in Threads : Created' = 0 .. n, DporTypes'
      PROVE  Spawned' /\ ThreadTypes' /\ DporTypes' /\ ProcessTypes'
  <2>1. \E p \in Nat : /\ p <= Len(program[t]) + 1 /\ pc' = [pc EXCEPT ![t] = p]
                       /\ stage' = [stage EXCEPT ![t] = "client"]
    BY <1>b, ReturnPlaces
  <2>2. QED
    BY <1>b, <2>1, PlacedTypes
<1>c. ASSUME Stays, UNCHANGED <<owner, status, dpor, last>>
      PROVE  Spawned' /\ ThreadTypes' /\ DporTypes' /\ ProcessTypes'
  <2>1. /\ owner' \in [Mutexes -> Threads \cup {None}]
        /\ status' \in [Threads -> {"Absent", "Runnable", "Blocked", "Terminated"}]
        /\ DporTypes'
    BY <1>c DEF ThreadTypes, DporTypes
  <2>2. Created' = Created /\ \E n \in Threads : Created' = 0 .. n
    BY <1>c, SameCreated
  <2>3. QED
    BY <1>b, <1>c, <2>1, <2>2
<1>d. UNCHANGED <<dpor, last>> => DporTypes'
  BY DEF DporTypes
<1>1. CASE BranchAtomic(t)
  <2>1. /\ Active /\ ~AtEnd(t) /\ Op(t).kind \in Branching
        /\ Branch(t, "Runnable", Op(t), "branched")
    BY <1>1 DEF BranchAtomic, At, Branching
  <2>2. QED
    BY <1>a, <2>1
<1>2. CASE BranchLock(t)
  <2>1. /\ Active /\ ~AtEnd(t) /\ Op(t).kind \in Branching
        /\ \/ Branch(t, "Runnable", Op(t), "branched")
           \/ Branch(t, "Blocked", Op(t), "branched")
    BY <1>2 DEF BranchLock, At, Branching
  <2>2. QED
    BY <1>a, <2>1
<1>3. CASE BranchSend(t)
  <2>1. /\ Active /\ ~AtEnd(t) /\ Op(t).kind \in Branching
        /\ Branch(t, "Runnable", Op(t), "branched")
    BY <1>3 DEF BranchSend, At, Branching
  <2>2. QED
    BY <1>a, <2>1
<1>4. CASE JoinParks(t)
  <2>1. Active /\ Branch(t, "Blocked", NoOp, "parked")
    BY <1>4 DEF JoinParks, At
  <2>2. QED
    BY <1>a, <2>1
<1>5. CASE BranchJoin(t)
  <2>1. /\ Active /\ ~AtEnd(t) /\ Op(t).kind \in Branching
        /\ Branch(t, "Runnable", Op(t), "branched")
    BY <1>5 DEF BranchJoin, At, Branching
  <2>2. QED
    BY <1>a, <2>1
<1>6. CASE LoadEnds(t)
  <2>0. Active /\ ~AtEnd(t)
    BY <1>6 DEF LoadEnds, At
  <2>1. CASE Panic
    <3>1. /\ UNCHANGED <<status, operation, active, pc, stage, owner, dpor, last, program>>
          /\ UNCHANGED <<iteration, file, crashes, overlooked>> /\ phase' = "panicked"
      BY <2>1 DEF Panic, threads, search, process, marks
    <3>2. QED
      BY <3>1 DEF Spawned, ThreadTypes, DporTypes, ProcessTypes, Created
  <2>2. CASE \E k : Given(t, k)
    <3>1. /\ UNCHANGED <<operation, active, program, iteration, file, crashes, overlooked, phase,
                         status, owner, dpor, last>>
          /\ stage' = [stage EXCEPT ![t] = "client"]
          /\ \/ pc' = [pc EXCEPT ![t] = Len(program[t]) + 1]
             \/ pc' = [pc EXCEPT ![t] = pc[t] + 1]
      BY <2>2 DEF Given, marks, process
    <3>2. Len(program[t]) \in Nat /\ pc[t] \in 1 .. Len(program[t])
      BY <2>0, OperationIs
    <3>3. \E p \in Nat : p <= Len(program[t]) + 1 /\ pc' = [pc EXCEPT ![t] = p]
      <4>1. /\ Len(program[t]) + 1 \in Nat /\ Len(program[t]) + 1 <= Len(program[t]) + 1
            /\ pc[t] + 1 \in Nat /\ pc[t] + 1 <= Len(program[t]) + 1
        BY <3>2
      <4>2. QED
        BY <3>1, <4>1
    <3>4. /\ owner' \in [Mutexes -> Threads \cup {None}]
          /\ status' \in [Threads -> {"Absent", "Runnable", "Blocked", "Terminated"}]
      BY <3>1 DEF ThreadTypes
    <3>5. Created' = Created /\ \E n \in Threads : Created' = 0 .. n
      BY <3>1, SameCreated
    <3>6. Spawned' /\ ThreadTypes' /\ ProcessTypes'
      BY <2>0, <3>1, <3>3, <3>4, <3>5, PlacedTypes
    <3>7. QED
      BY <1>d, <3>1, <3>6
  <2>3. QED
    BY <1>6, <2>1, <2>2 DEF LoadEnds
<1>7. CASE StoreEnds(t)
  <2>1. Stays /\ UNCHANGED <<owner, status, dpor, last>>
    BY <1>7 DEF StoreEnds, At, search, process, marks
  <2>2. QED
    BY <1>c, <2>1
<1>8. CASE RmwEnds(t)
  <2>1. Stays /\ UNCHANGED <<owner, status, dpor, last>>
    BY <1>8 DEF RmwEnds, At, search, process, marks
  <2>2. QED
    BY <1>c, <2>1
<1>9. CASE CasEnds(t)
  <2>1. Stays /\ UNCHANGED <<owner, status, dpor, last>>
    BY <1>9 DEF CasEnds, At, search, process, marks
  <2>2. QED
    BY <1>c, <2>1
<1>10. CASE LockEnds(t)
  <2>1. /\ Stays /\ UNCHANGED <<dpor, last>> /\ status' = Contenders(t, "Blocked")
        /\ owner' = [owner EXCEPT ![Op(t).obj] = t]
    BY <1>10 DEF LockEnds, At, search, process, marks
  <2>2. owner' \in [Mutexes -> Threads \cup {None}]
    BY <2>1 DEF ThreadTypes
  <2>3. /\ status' \in [Threads -> {"Absent", "Runnable", "Blocked", "Terminated"}]
        /\ Created' = Created
    BY <2>1, ContendersAre
  <2>4. QED
    BY <1>b, <1>d, <2>1, <2>2, <2>3 DEF Spawned
<1>11. CASE UnlockEnds(t)
  <2>1. /\ Stays /\ UNCHANGED <<dpor, last>> /\ status' = Contenders(t, "Runnable")
        /\ owner' = [owner EXCEPT ![Op(t).obj] = None]
    BY <1>11 DEF UnlockEnds, At, search, process, marks
  <2>2. owner' \in [Mutexes -> Threads \cup {None}]
    BY <2>1 DEF ThreadTypes
  <2>3. /\ status' \in [Threads -> {"Absent", "Runnable", "Blocked", "Terminated"}]
        /\ Created' = Created
    BY <2>1, ContendersAre
  <2>4. QED
    BY <1>b, <1>d, <2>1, <2>2, <2>3 DEF Spawned
<1>12. CASE CellAccess(t)
  <2>1. \/ Stays /\ UNCHANGED <<owner, status, dpor, last>>
        \/ /\ UNCHANGED <<status, operation, active, pc, stage, owner, dpor, last, program>>
           /\ UNCHANGED <<iteration, file, crashes, overlooked>>
           /\ phase' \in {"refuted", "failed"}
    BY <1>12 DEF CellAccess, At, threads, search, process, marks
  <2>2. CASE /\ UNCHANGED <<status, operation, active, pc, stage, owner, dpor, last, program>>
             /\ UNCHANGED <<iteration, file, crashes, overlooked>>
             /\ phase' \in {"refuted", "failed"}
    BY <2>2 DEF Spawned, ThreadTypes, DporTypes, ProcessTypes, Created
  <2>3. QED
    BY <1>c, <2>1, <2>2
<1>13. CASE SpawnEnds(t)
  <2> DEFINE u == Cardinality(Created)
  <2>1. /\ Stays /\ UNCHANGED <<owner, last>> /\ status' = [status EXCEPT ![u] = "Runnable"]
        /\ dpor' = [dpor EXCEPT ![u] = Join(dpor[u], dpor[t])]
    BY <1>13 DEF SpawnEnds, At, process, marks
  <2>2. /\ status' \in [Threads -> {"Absent", "Runnable", "Blocked", "Terminated"}]
        /\ Created \subseteq Created' /\ \E n \in Threads : Created' = 0 .. n
    BY <2>1, CreatedGrows
  <2> HIDE DEF u
  <2>3. DporTypes'
    <3>1. u \in Threads => Join(dpor[u], dpor[t]) \in Vectors
      BY JoinIs DEF DporTypes
    <3> HIDE DEF Join
    <3>2. QED
      BY <2>1, <3>1 DEF DporTypes
  <2>4. owner' \in [Mutexes -> Threads \cup {None}]
    BY <2>1 DEF ThreadTypes
  <2>5. QED
    BY <1>b, <2>1, <2>2, <2>3, <2>4
<1>14. CASE SendEnds(t)
  <2> DEFINE rx == {u \in Threads : stage[u] = "parked" /\ Op(u).obj = t}
  <2>1. /\ Stays /\ UNCHANGED <<owner, dpor, last>>
        /\ IF rx = {} THEN UNCHANGED status ELSE status' = [status EXCEPT ![Min(rx)] = "Runnable"]
    BY <1>14 DEF SendEnds, At, search, process, marks
  <2>2. CASE rx = {}
    BY <1>c, <2>1, <2>2
  <2>3. CASE rx # {}
    <3>1. rx \subseteq Nat /\ rx \subseteq Created
      BY ThreadsAreNumbers DEF Spawned
    <3>2. Min(rx) \in Created
      <4> HIDE DEF rx
      <4>1. QED
        BY <2>3, <3>1, Least
    <3> HIDE DEF rx
    <3>3. status' = [status EXCEPT ![Min(rx)] = "Runnable"]
      BY <2>1, <2>3
    <3>4. /\ status' \in [Threads -> {"Absent", "Runnable", "Blocked", "Terminated"}]
          /\ Created' = Created
      BY <3>2, <3>3 DEF ThreadTypes, Created
    <3>5. owner' \in [Mutexes -> Threads \cup {None}]
      BY <2>1 DEF ThreadTypes
    <3>6. QED
      BY <1>b, <1>d, <2>1, <3>4, <3>5 DEF Spawned
  <2>4. QED
    BY <2>2, <2>3
<1>15. CASE JoinEnds(t)
  <2>1. Stays /\ UNCHANGED <<owner, status, dpor, last>>
    BY <1>15 DEF JoinEnds, At, search, process, marks
  <2>2. QED
    BY <1>c, <2>1
<1>16. CASE Finish(t)
  <2>1. Active /\ Branch(t, "Terminated", NoOp, "client")
    BY <1>16 DEF Finish
  <2>2. QED
    BY <1>a, <2>1
<1>17. QED
  BY <1>1, <1>2, <1>3, <1>4, <1>5, <1>6, <1>7, <1>8, <1>9, <1>10, <1>11, <1>12, <1>13,
     <1>14, <1>15, <1>16 DEF Step

-------------------------------------------------------------------------------
(* What a step does to the memory and to the history. *)

Ops == UNION {ToSet(p[t]) : p \in Programs, t \in Threads}
Events == [by : Threads, op : Ops, rf : Nat, wr : Nat, val : Nat]

LEMMA OpsFit == \A op \in Ops : Fits(op)
<1> SUFFICES ASSUME NEW op \in Ops PROVE Fits(op)
  OBVIOUS
<1>1. PICK p \in Programs, t \in Threads : op \in ToSet(p[t])
  BY DEF Ops
<1>2. QED
  BY <1>1, ProgramsAssumption

\* Nothing is recorded, and threads can only have learned more.
Quiet ==
  /\ UNCHANGED <<trace, writes, cells>> /\ MemoryTypes'
  /\ Before(scCausality, scCausality')
  /\ \A u \in Threads : Before(causality[u], causality'[u])

\* Event e is recorded: an operation in which thread e.by knows c.
Recorded(e, c) ==
  LET t == e.by  a == e.op.obj IN
  /\ e \in Events /\ trace' = Append(trace, e) /\ MemoryTypes'
  /\ Learns(t, c, IsSeqCst(e), e.op.kind = "store") /\ AllGrown(t, c)
  /\ \A u \in Threads : Starts(e, u) => Before(c, causality'[u])
  /\ \A b \in Atomics : Len(writes'[b]) <= Len(writes[b]) + 1
  /\ \A m \in {e.rf, e.wr} : m > 0 =>
       a \in Atomics /\ m \in 1 .. Len(writes'[a]) /\ writes'[a][m].firstSeen[t] # Unseen
  /\ e.rf > 0 => e.rf \in 1 .. Len(writes[a])
  /\ e.rf > 0 /\ Acquires(e.op.ord) => Before(writes[a][e.rf].sync, c)
  /\ e.wr > 0 => e.wr = Len(writes'[a])
  /\ e.wr > 0 /\ Releases(e.op.ord) => Before(c, writes'[a][e.wr].sync)
  /\ \/ cells' = cells
     \/ e.op.kind = "set" /\ cells' = [cells EXCEPT ![a] = Join(cells[a], causality[t])]

LEMMA SameMemory ==
  ASSUME MemoryTypes, UNCHANGED memory
  PROVE  /\ UNCHANGED <<writes, cells>> /\ MemoryTypes'
         /\ Before(scCausality, scCausality')
         /\ \A u \in Threads : Before(causality[u], causality'[u])
         /\ \A t \in Threads : Learns(t, causality[t], FALSE, FALSE)
<1>1. UNCHANGED <<causality, scCausality, writes, cells>>
  BY DEF memory
<1>2. /\ \A u \in Threads : Before(causality[u], causality[u]) /\ causality[u] \in Vectors
      /\ Before(scCausality, scCausality)
  BY BeforeOrders DEF MemoryTypes
<1>3. QED
  BY <1>1, <1>2 DEF MemoryTypes, Learns

\* The event of thread t at its operation.
LEMMA EventIs ==
  ASSUME IInv, NEW t \in Threads, ~AtEnd(t), NEW rf \in Nat, NEW wr \in Nat, NEW val \in Nat,
         Did(t, rf, wr, val)
  PROVE  LET e == Event(t, rf, wr, val) IN
         /\ e \in Events /\ trace' = Append(trace, e) /\ Fits(Op(t))
         /\ e.by = t /\ e.op = Op(t) /\ e.rf = rf /\ e.wr = wr /\ e.val = val
<1>1. Op(t) \in ToSet(program[t]) /\ Fits(Op(t)) /\ program \in Programs
  BY OperationIs DEF IInv
<1>2. Op(t) \in Ops
  BY <1>1, SMTT(30) DEF Ops
<1>3. QED
  BY <1>1, <1>2 DEF Event, Events, Did

\* An event that is not an access to an atomic.
LEMMA ApartRecorded ==
  ASSUME IInv, MemoryTypes, NEW t \in Threads, ~AtEnd(t), NEW val \in Nat, Did(t, 0, 0, val),
         MemoryTypes', writes' = writes, NEW c,
         Learns(t, c, Op(t).kind \in {"lock", "unlock", "send", "join"}, FALSE),
         \A u \in Threads : Op(t).kind = "spawn" /\ val = u => Before(c, causality'[u]),
         \/ cells' = cells
         \/ /\ Op(t).kind = "set"
            /\ cells' = [cells EXCEPT ![Op(t).obj] = Join(cells[Op(t).obj], causality[t])]
  PROVE  \E e : Recorded(e, c)
<1> DEFINE e == Event(t, 0, 0, val)
<1>1. /\ e \in Events /\ trace' = Append(trace, e)
      /\ e.by = t /\ e.op = Op(t) /\ e.rf = 0 /\ e.wr = 0 /\ e.val = val
  BY EventIs
<1> HIDE DEF e
<1>2. IsSeqCst(e) <=> Op(t).kind \in {"lock", "unlock", "send", "join"}
  BY <1>1 DEF IsSeqCst
<1>3. Learns(t, c, IsSeqCst(e), e.op.kind = "store")
  BY <1>1, <1>2 DEF Learns
<1>4. AllGrown(t, c)
  BY SameGrown
<1>5. \A b \in Atomics : Len(writes'[b]) <= Len(writes[b]) + 1
  BY <1>4 DEF AllGrown
<1>6. \A u \in Threads : Starts(e, u) => Before(c, causality'[u])
  BY <1>1 DEF Starts
<1>7. QED
  BY <1>1, <1>3, <1>4, <1>5, <1>6 DEF Recorded

LEMMA FenceRecorded ==
  ASSUME IInv, MemoryTypes, NEW t \in Threads, ~AtEnd(t), Fence(t), Did(t, 0, 0, 0),
         Op(t).kind # "spawn"
  PROVE  \E e, c : Recorded(e, c)
<1>1. PICK c : Learns(t, c, TRUE, FALSE)
  BY FenceEffect
<1>2. MemoryTypes' /\ writes' = writes /\ cells' = cells
  BY FenceEffect, Zenon
<1>3. Learns(t, c, Op(t).kind \in {"lock", "unlock", "send", "join"}, FALSE)
  BY <1>1 DEF Learns
<1>4. QED
  BY <1>2, <1>3, ApartRecorded

LEMMA LoadRecorded ==
  ASSUME IInv, MemoryTypes, NEW t \in Threads, ~AtEnd(t),
         Op(t).obj \in Atomics, Op(t).kind \in {"load", "cas"},
         NEW ord, Acquires(Op(t).ord) => Acquires(ord), Op(t).ord = "SeqCst" => ord = "SeqCst",
         NEW k \in DOMAIN writes[Op(t).obj], Load(t, Op(t).obj, ord, k),
         Did(t, k, 0, writes[Op(t).obj][k].value)
  PROVE  \E e, c : Recorded(e, c)
<1> DEFINE a == Op(t).obj
           e == Event(t, k, 0, writes[a][k].value)
<1>1. /\ MemoryTypes'
      /\ \A b \in Atomics : Len(writes'[b]) = Len(writes[b])
      /\ cells' = cells /\ k \in 1 .. Len(writes[a]) /\ k > 0
      /\ writes'[a][k].firstSeen[t] # Unseen
  BY LoadEffect
<1>2. PICK c : /\ Learns(t, c, ord = "SeqCst", FALSE) /\ AllGrown(t, c)
               /\ Acquires(ord) => Before(writes[a][k].sync, c)
  BY LoadEffect
<1>3. Len(writes[a]) \in Nat /\ k \in Nat /\ writes[a][k].value \in Nat
  <2>1. writes[a] \in Seq(Writes)
    BY DEF MemoryTypes
  <2>2. Len(writes[a]) \in Nat /\ writes[a][k] \in Writes
    BY <1>1, <2>1, LenProperties, ElementOfSeq
  <2>3. QED
    BY <1>1, <2>2 DEF Writes
<1>4. /\ e \in Events /\ trace' = Append(trace, e)
      /\ e.by = t /\ e.op = Op(t) /\ e.rf = k /\ e.wr = 0
  BY <1>3, EventIs
<1> HIDE DEF e
<1>5. IsSeqCst(e) => ord = "SeqCst"
  BY <1>4 DEF IsSeqCst
<1>6. Learns(t, c, IsSeqCst(e), e.op.kind = "store")
  BY <1>2, <1>4, <1>5 DEF Learns
<1>7. \A u \in Threads : ~Starts(e, u)
  BY <1>4 DEF Starts
<1>8. \A b \in Atomics : Len(writes'[b]) <= Len(writes[b]) + 1
  BY <1>1, <1>2 DEF AllGrown
<1>9. \A m \in {e.rf, e.wr} : m > 0 =>
        e.op.obj \in Atomics /\ m \in 1 .. Len(writes'[e.op.obj])
          /\ writes'[e.op.obj][m].firstSeen[e.by] # Unseen
  BY <1>1, <1>4
<1>10. e.rf \in 1 .. Len(writes[e.op.obj]) /\ ~(e.wr > 0)
  BY <1>1, <1>4
<1>11. Acquires(e.op.ord) => Before(writes[e.op.obj][e.rf].sync, c)
  BY <1>2, <1>4, SMTT(30)
<1>12. QED
  BY <1>1, <1>2, <1>4, <1>6, <1>7, <1>8, <1>9, <1>10, <1>11, Zenon DEF Recorded

LEMMA StoreRecorded ==
  ASSUME IInv, MemoryTypes, NEW t \in Threads, ~AtEnd(t),
         Op(t).obj \in Atomics, Op(t).kind = "store", Op(t).val \in Nat,
         Store(t, Op(t).obj, Op(t).val, Op(t).ord), Did(t, 0, Len(writes[Op(t).obj]) + 1, 0)
  PROVE  \E e, c : Recorded(e, c)
<1> DEFINE a == Op(t).obj
           n == Len(writes[a])
           e == Event(t, 0, n + 1, 0)
<1>1. writes[a] # <<>>
  BY DEF IInv, Histories
<1>2. /\ MemoryTypes' /\ n \in Nat \ {0}
      /\ Len(writes'[a]) = n + 1 /\ writes'[a][n + 1].firstSeen[t] # Unseen
      /\ \A b \in Atomics : b # a => Len(writes'[b]) = Len(writes[b])
      /\ cells' = cells
  BY <1>1, StoreEffect
<1>3. PICK c : /\ Learns(t, c, Op(t).ord = "SeqCst", TRUE) /\ AllGrown(t, c)
               /\ Releases(Op(t).ord) => Before(c, writes'[a][n + 1].sync)
  BY <1>1, StoreEffect
<1>4. n + 1 \in Nat /\ n + 1 > 0 /\ n + 1 \in 1 .. n + 1
  BY <1>2
<1>5. /\ e \in Events /\ trace' = Append(trace, e)
      /\ e.by = t /\ e.op = Op(t) /\ e.rf = 0 /\ e.wr = n + 1
  <2> HIDE DEF n
  <2>1. n + 1 \in Nat /\ Did(t, 0, n + 1, 0)
    BY <1>4 DEF n
  <2>2. QED
    BY <2>1, EventIs
<1> HIDE DEF e, n
<1>6. IsSeqCst(e) => Op(t).ord = "SeqCst"
  BY <1>5 DEF IsSeqCst
<1>7. Learns(t, c, IsSeqCst(e), e.op.kind = "store")
  BY <1>3, <1>5, <1>6 DEF Learns
<1>8. \A u \in Threads : ~Starts(e, u)
  BY <1>5 DEF Starts
<1>9. \A b \in Atomics : Len(writes'[b]) <= Len(writes[b]) + 1
  <2>1. \A b \in Atomics : Len(writes[b]) \in Nat /\ Len(writes'[b]) \in Nat
    BY <1>3 DEF AllGrown
  <2>2. QED
    BY <1>2, <2>1 DEF n
<1>10. \A m \in {e.rf, e.wr} : m > 0 =>
        e.op.obj \in Atomics /\ m \in 1 .. Len(writes'[e.op.obj])
          /\ writes'[e.op.obj][m].firstSeen[e.by] # Unseen
  BY <1>2, <1>4, <1>5
<1>11. ~(e.rf > 0) /\ e.wr = Len(writes'[e.op.obj])
  BY <1>2, <1>5
<1>12. Releases(e.op.ord) => Before(c, writes'[e.op.obj][e.wr].sync)
  BY <1>3, <1>5, SMTT(30)
<1>13. QED
  BY <1>2, <1>3, <1>5, <1>7, <1>8, <1>9, <1>10, <1>11, <1>12 DEF Recorded

LEMMA RmwRecorded ==
  ASSUME IInv, MemoryTypes, NEW t \in Threads, ~AtEnd(t),
         Op(t).obj \in Atomics, Op(t).kind \in {"rmw", "cas"}, NEW val \in Nat,
         LET a == Op(t).obj  n == Len(writes[a]) IN
           Rmw(t, a, val, Op(t).ord) /\ Did(t, n, n + 1, writes[a][n].value)
  PROVE  \E e, c : Recorded(e, c)
<1> DEFINE a == Op(t).obj
           n == Len(writes[a])
           e == Event(t, n, n + 1, writes[a][n].value)
<1>1. writes[a] # <<>> /\ Rmw(t, a, val, Op(t).ord)
  BY DEF IInv, Histories
<1>2. /\ MemoryTypes' /\ n \in Nat \ {0}
      /\ Len(writes'[a]) = n + 1 /\ writes'[a][n + 1].firstSeen[t] # Unseen
      /\ writes'[a][n].firstSeen[t] # Unseen
      /\ \A b \in Atomics : b # a => Len(writes'[b]) = Len(writes[b])
      /\ cells' = cells
  BY <1>1, RmwEffect
<1>3. PICK c : /\ Learns(t, c, Op(t).ord = "SeqCst", FALSE) /\ AllGrown(t, c)
               /\ Releases(Op(t).ord) => Before(c, writes'[a][n + 1].sync)
               /\ Acquires(Op(t).ord) => Before(writes[a][n].sync, c)
  BY <1>1, RmwEffect
<1>4. /\ n + 1 \in Nat /\ n + 1 > 0 /\ n + 1 \in 1 .. n + 1
      /\ n \in Nat /\ n > 0 /\ n \in 1 .. n + 1 /\ n \in 1 .. n
  BY <1>2
<1>5. writes[a][n].value \in Nat
  <2>1. writes[a] \in Seq(Writes)
    BY DEF MemoryTypes
  <2>2. writes[a][n] \in Writes
    BY <1>4, <2>1, ElementOfSeq, SMTT(30)
  <2>3. QED
    BY <2>2 DEF Writes
<1>6. /\ e \in Events /\ trace' = Append(trace, e)
      /\ e.by = t /\ e.op = Op(t) /\ e.rf = n /\ e.wr = n + 1
  <2>1. PICK m, x : m = n + 1 /\ x = writes[a][n].value
    OBVIOUS
  <2>2. Did(t, n, m, x) /\ e = Event(t, n, m, x) /\ n \in Nat /\ m \in Nat /\ x \in Nat
    BY <1>4, <1>5, <2>1
  <2> HIDE DEF n, e
  <2>3. /\ Event(t, n, m, x) \in Events /\ trace' = Append(trace, Event(t, n, m, x))
        /\ Event(t, n, m, x).by = t /\ Event(t, n, m, x).op = Op(t)
        /\ Event(t, n, m, x).rf = n /\ Event(t, n, m, x).wr = m
    BY <2>2, EventIs
  <2>4. QED
    BY <2>1, <2>2, <2>3
<1> HIDE DEF e
<1>7. IsSeqCst(e) => Op(t).ord = "SeqCst"
  BY <1>6 DEF IsSeqCst
<1>8. Learns(t, c, IsSeqCst(e), e.op.kind = "store")
  BY <1>3, <1>6, <1>7 DEF Learns
<1>9. \A u \in Threads : ~Starts(e, u)
  BY <1>6 DEF Starts
<1>10. \A b \in Atomics : Len(writes'[b]) <= Len(writes[b]) + 1
  <2>1. \A b \in Atomics : Len(writes[b]) \in Nat /\ Len(writes'[b]) \in Nat
    BY <1>3 DEF AllGrown
  <2>2. QED
    BY <1>2, <2>1
<1>11. e.rf \in 1 .. Len(writes[e.op.obj])
  BY <1>4, <1>6
<1> HIDE DEF n
<1>12. \A m \in {e.rf, e.wr} : m > 0 =>
        e.op.obj \in Atomics /\ m \in 1 .. Len(writes'[e.op.obj])
          /\ writes'[e.op.obj][m].firstSeen[e.by] # Unseen
  BY <1>2, <1>4, <1>6
<1>13. e.wr = Len(writes'[e.op.obj])
  BY <1>2, <1>6
<1>14. /\ Releases(e.op.ord) => Before(c, writes'[e.op.obj][e.wr].sync)
       /\ Acquires(e.op.ord) => Before(writes[e.op.obj][e.rf].sync, c)
  BY <1>3, <1>6
<1>15. QED
  BY <1>2, <1>3, <1>6, <1>8, <1>9, <1>10, <1>11, <1>12, <1>13, <1>14, Zenon DEF Recorded

LEMMA Deeds ==
  ASSUME IInv, Spawned, MemoryTypes, NEW t \in Threads, Step(t)
  PROVE  Quiet \/ \E e, c : Recorded(e, c)
<1>a. UNCHANGED <<memory, trace>> => Quiet
  BY SameMemory DEF Quiet
<1>b. ~AtEnd(t) => Fits(Op(t))
  BY OperationIs
<1>1. CASE BranchAtomic(t)
  BY <1>1, <1>a DEF BranchAtomic
<1>2. CASE BranchLock(t)
  BY <1>2, <1>a DEF BranchLock
<1>3. CASE BranchSend(t)
  <2>1. ~AtEnd(t) /\ Op(t).kind = "send" /\ Fence(t) /\ Did(t, 0, 0, 0)
    BY <1>3 DEF BranchSend, At
  <2>2. QED
    BY <2>1, FenceRecorded
<1>4. CASE JoinParks(t)
  BY <1>4, <1>a DEF JoinParks
<1>5. CASE BranchJoin(t)
  <2>1. ~AtEnd(t) /\ Op(t).kind = "join" /\ Fence(t) /\ Did(t, 0, 0, 0)
    BY <1>5 DEF BranchJoin, At
  <2>2. QED
    BY <2>1, FenceRecorded
<1>6. CASE LoadEnds(t)
  <2>0. ~AtEnd(t) /\ Op(t).kind = "load" /\ Op(t).obj \in Atomics
    BY <1>6, <1>b DEF LoadEnds, At, Fits
  <2>1. CASE UNCHANGED <<memory, trace>>
    BY <1>a, <2>1
  <2>2. CASE \E k \in DOMAIN writes[Op(t).obj] : Given(t, k)
    <3>1. PICK k \in DOMAIN writes[Op(t).obj] : Given(t, k)
      BY <2>2
    <3>2. Load(t, Op(t).obj, Op(t).ord, k) /\ Did(t, k, 0, writes[Op(t).obj][k].value)
      BY <3>1 DEF Given
    <3>3. QED
      BY <2>0, <3>2, LoadRecorded
  <2>3. CASE phase = "audit"
    <3>1. PICK n \in DOMAIN Candidates(t, Op(t).obj, Op(t).ord) :
            Given(t, Candidates(t, Op(t).obj, Op(t).ord)[n])
      BY <1>6, <2>3 DEF LoadEnds
    <3>2. Candidates(t, Op(t).obj, Op(t).ord)[n] \in DOMAIN writes[Op(t).obj]
      BY <2>0, CandidatesAre DEF IInv, ToSet
    <3>3. QED
      BY <2>2, <3>1, <3>2
  <2>4. QED
    BY <1>6, <2>1, <2>2, <2>3 DEF LoadEnds
<1>7. CASE StoreEnds(t)
  <2>1. /\ ~AtEnd(t) /\ Op(t).kind = "store" /\ Op(t).obj \in Atomics /\ Op(t).val \in Nat
        /\ Store(t, Op(t).obj, Op(t).val, Op(t).ord) /\ Did(t, 0, Len(writes[Op(t).obj]) + 1, 0)
    BY <1>7, <1>b DEF StoreEnds, At, Fits
  <2>2. QED
    BY <2>1, StoreRecorded
<1>8. CASE RmwEnds(t)
  <2> DEFINE a == Op(t).obj
             n == Len(writes[a])
  <2>1. /\ ~AtEnd(t) /\ Op(t).kind = "rmw" /\ a \in Atomics
        /\ Rmw(t, a, writes[a][n].value + 1, Op(t).ord) /\ Did(t, n, n + 1, writes[a][n].value)
    BY <1>8, <1>b DEF RmwEnds, At, Fits
  <2>2. writes[a][n].value + 1 \in Nat
    <3>1. writes[a] \in Seq(Writes) /\ writes[a] # <<>>
      BY <2>1 DEF MemoryTypes, IInv, Histories
    <3>2. n \in 1 .. n
      BY <3>1, LenProperties, EmptySeq
    <3>3. writes[a][n] \in Writes
      BY <3>1, <3>2, ElementOfSeq
    <3>4. QED
      BY <3>3 DEF Writes
  <2>3. QED
    BY <2>1, <2>2, RmwRecorded
<1>9. CASE CasEnds(t)
  <2> DEFINE a == Op(t).obj
             n == Len(writes[a])
             found == writes[a][n].value = Op(t).cur
  <2>1. /\ ~AtEnd(t) /\ Op(t).kind = "cas" /\ a \in Atomics /\ Op(t).val \in Nat
        /\ IF found THEN Rmw(t, a, Op(t).val, Op(t).ord) ELSE Load(t, a, OnFailure(Op(t).ord), n)
        /\ Did(t, n, IF found THEN n + 1 ELSE 0, writes[a][n].value)
    BY <1>9, <1>b DEF CasEnds, At, Fits
  <2>2. CASE found
    BY <2>1, <2>2, RmwRecorded
  <2>3. CASE ~found
    <3>1. n \in DOMAIN writes[a]
      <4>1. writes[a] \in Seq(Writes) /\ writes[a] # <<>>
        BY <2>1 DEF MemoryTypes, IInv, Histories
      <4>2. QED
        BY <4>1, LenProperties, EmptySeq
    <3>2. /\ Acquires(Op(t).ord) => Acquires(OnFailure(Op(t).ord))
          /\ Op(t).ord = "SeqCst" => OnFailure(Op(t).ord) = "SeqCst"
      BY DEF Acquires, OnFailure
    <3>3. Load(t, a, OnFailure(Op(t).ord), n) /\ Did(t, n, 0, writes[a][n].value)
      BY <2>1, <2>3
    <3> HIDE DEF n
    <3>4. QED
      BY <2>1, <3>1, <3>2, <3>3, LoadRecorded
  <2>4. QED
    BY <2>2, <2>3
<1>10. CASE LockEnds(t)
  <2>1. ~AtEnd(t) /\ Op(t).kind = "lock" /\ Fence(t) /\ Did(t, 0, 0, 0)
    BY <1>10 DEF LockEnds, At
  <2>2. QED
    BY <2>1, FenceRecorded
<1>11. CASE UnlockEnds(t)
  <2>1. ~AtEnd(t) /\ Op(t).kind = "unlock" /\ Fence(t) /\ Did(t, 0, 0, 0)
    BY <1>11 DEF UnlockEnds, At
  <2>2. QED
    BY <2>1, FenceRecorded
<1>12. CASE CellAccess(t)
  <2>1. CASE Races(t, Op(t).obj)
    BY <1>12, <1>a, <2>1 DEF CellAccess
  <2>2. CASE ~Races(t, Op(t).obj)
    <3>1. /\ ~AtEnd(t) /\ Op(t).kind \in {"get", "set"} /\ Op(t).obj \in Cells
          /\ IF Op(t).kind = "set" THEN WithMut(t, Op(t).obj) ELSE UNCHANGED memory
          /\ Did(t, 0, 0, 0)
      BY <1>12, <1>b, <2>2 DEF CellAccess, At, Fits
    <3>2. CASE Op(t).kind = "get"
      <4>1. UNCHANGED memory /\ Learns(t, causality[t], FALSE, FALSE)
        BY <3>1, <3>2, SameMemory
      <4>2. Learns(t, causality[t], Op(t).kind \in {"lock", "unlock", "send", "join"}, FALSE)
        BY <3>2, <4>1 DEF Learns
      <4>3. MemoryTypes' /\ writes' = writes /\ cells' = cells
        BY <4>1, SameMemory
      <4>4. QED
        BY <3>1, <3>2, <4>2, <4>3, ApartRecorded
    <3>3. CASE Op(t).kind = "set"
      <4> DEFINE new == Join(cells[Op(t).obj], causality[t])
      <4>1. /\ cells' = [cells EXCEPT ![Op(t).obj] = new]
            /\ UNCHANGED <<causality, scCausality, writes>>
        BY <3>1, <3>3 DEF WithMut
      <4>2. new \in Vectors
        BY <3>1, JoinIs DEF MemoryTypes
      <4> HIDE DEF new
      <4>3. MemoryTypes'
        BY <4>1, <4>2 DEF MemoryTypes
      <4>4. Learns(t, causality[t], FALSE, FALSE)
        BY <4>1, BeforeOrders DEF MemoryTypes, Learns
      <4>5. Learns(t, causality[t], Op(t).kind \in {"lock", "unlock", "send", "join"}, FALSE)
        BY <3>3, <4>4 DEF Learns
      <4>6. cells' = [cells EXCEPT ![Op(t).obj] = Join(cells[Op(t).obj], causality[t])]
        BY <4>1 DEF new
      <4>7. QED
        BY <3>1, <3>3, <4>1, <4>3, <4>5, <4>6, ApartRecorded
    <3>4. QED
      BY <3>1, <3>2, <3>3
  <2>3. QED
    BY <2>1, <2>2
<1>13. CASE SpawnEnds(t)
  <2> DEFINE u == Cardinality(Created)
  <2>1. ~AtEnd(t) /\ Op(t).kind = "spawn" /\ Inherit(t, u) /\ Did(t, 0, 0, u)
    BY <1>13 DEF SpawnEnds, At
  <2>2. u \in Nat
    <3>1. PICK n \in Threads : Created = 0 .. n
      BY DEF Spawned
    <3>2. n \in Nat
      BY ThreadsAreNumbers
    <3>3. QED
      BY <3>1, <3>2, FS_Interval, FS_CardinalityType
  <2> HIDE DEF u
  <2>3. /\ MemoryTypes' /\ writes' = writes /\ cells' = cells
        /\ Learns(t, causality[t], FALSE, FALSE)
        /\ u \in Threads => Before(causality[t], causality'[u])
    BY <2>1, InheritEffect
  <2>4. Learns(t, causality[t], Op(t).kind \in {"lock", "unlock", "send", "join"}, FALSE)
    BY <2>1, <2>3 DEF Learns
  <2>5. \A w \in Threads : Op(t).kind = "spawn" /\ u = w => Before(causality[t], causality'[w])
    BY <2>3
  <2>6. QED
    BY <2>1, <2>2, <2>3, <2>4, <2>5, ApartRecorded
<1>14. CASE SendEnds(t)
  <2>1. \/ UNCHANGED <<memory, trace>>
        \/ UNCHANGED trace /\ \E u : Hand(t, u)
    BY <1>14 DEF SendEnds
  <2>2. CASE UNCHANGED trace /\ \E u : Hand(t, u)
    <3>1. /\ MemoryTypes' /\ UNCHANGED <<writes, cells, scCausality>>
          /\ \A w \in Threads : Before(causality[w], causality'[w])
      BY <2>2, HandEffect
    <3>2. Before(scCausality, scCausality')
      BY <3>1, BeforeOrders DEF MemoryTypes
    <3>3. QED
      BY <2>2, <3>1, <3>2 DEF Quiet
  <2>3. QED
    BY <1>a, <2>1, <2>2
<1>15. CASE JoinEnds(t)
  BY <1>15, <1>a DEF JoinEnds
<1>16. CASE Finish(t)
  BY <1>16, <1>a DEF Finish
<1>17. QED
  BY <1>1, <1>2, <1>3, <1>4, <1>5, <1>6, <1>7, <1>8, <1>9, <1>10, <1>11, <1>12, <1>13,
     <1>14, <1>15, <1>16 DEF Step

LEMMA NextKeeps ==
  ASSUME IInv, Spawned, [Next]_vars
  PROVE  IInv'
<1>1. CASE Start
  BY <1>1, StartKeeps
<1>2. CASE BeginIteration
  <2>1. /\ phase = "next" /\ phase' \in {"saving", "search"}
        /\ UNCHANGED <<program, pc, writes, branches, pos, executed>>
        /\ file' = file \/ file' = Torn
    BY <1>2 DEF BeginIteration, threads, search, memory
  <2>2. QED
    BY <2>1, SavingKeeps DEF Searching
<1>3. CASE Save
  <2>1. /\ phase = "saving" /\ phase' = "search"
        /\ UNCHANGED <<program, pc, writes, branches, pos, executed>>
        /\ file'.branches = branches /\ file'.executed = executed
    BY <1>3 DEF Save, threads, search, memory
  <2>2. QED
    BY <2>1, SavingKeeps DEF Searching
<1>4. CASE EndIteration
  BY <1>4, EndIterationKeeps
<1>5. CASE \E t \in Threads : Step(t)
  BY <1>5, StepKeeps
<1>6. CASE Crash
  BY <1>6, CrashKeeps
<1>7. CASE UNCHANGED vars
  <2>1. UNCHANGED <<program, branches, pos, file, executed, phase, pc, writes>>
    BY <1>7 DEF vars, memory, threads, search, process
  <2>2. Histories' /\ pc' \in [Threads -> Nat \ {0}]
    BY <2>1, SameHistories DEF IInv
  <2>3. QED
    BY <2>1, <2>2, Aside
<1>8. QED
  BY <1>1, <1>2, <1>3, <1>4, <1>5, <1>6, <1>7 DEF Next, Work

-------------------------------------------------------------------------------
(* Types: ... of the whole. *)

LEMMA FreshIs ==
  /\ Fresh \in Seq(Writes) /\ Len(Fresh) = 1
  /\ \A u \in Threads : Fresh[1].firstSeen[u] # Unseen => Fresh[1].firstSeen[u] = 0
<1> DEFINE seen == Touched(Never, Root, Zero)
           w == [value |-> 0, sync |-> Zero, seqCst |-> FALSE, firstSeen |-> seen]
<1>1. seen = [u \in Threads |-> IF u = Root THEN 0 ELSE Unseen]
  BY ThreadsAreNumbers DEF Touched, Never, Zero
<1>2. seen \in Stamps /\ \A u \in Threads : seen[u] # Unseen => seen[u] = 0
  BY <1>1 DEF Stamps
<1> HIDE DEF seen
<1>3. w \in Writes /\ w.firstSeen = seen
  BY <1>2, ZeroIs DEF Writes
<1>4. Fresh = <<w>>
  BY DEF Fresh, seen
<1> HIDE DEF w
<1>5. QED
  BY <1>2, <1>3, <1>4

LEMMA CreatedFirst ==
  ASSUME status = OnlyRoot
  PROVE  Created = 0 .. 0 /\ status \in [Threads -> {"Absent", "Runnable", "Blocked", "Terminated"}]
<1>1. \A t \in Threads : status[t] = IF t = 0 THEN "Runnable" ELSE "Absent"
  BY DEF OnlyRoot, All, Root
<1>2. Created = {0}
  BY <1>1, ThreadsAreNumbers DEF Created, Root
<1>3. {0} = 0 .. 0
  OBVIOUS
<1>4. QED
  BY <1>2, <1>3 DEF OnlyRoot, All

\* The state in which an iteration starts.
LEMMA FirstTypes ==
  ASSUME program \in Programs, status = OnlyRoot, operation = All(NoOp), active = Root, pc = All(1),
         stage = All("client"), owner = [m \in Mutexes |-> None],
         dpor = All(Zero), last = NoAccesses,
         causality = [t \in Threads |-> Zero], scCausality = Zero,
         writes = [a \in Atomics |-> Fresh], cells = [c \in Cells |-> Zero]
  PROVE  Spawned /\ MemoryTypes /\ ThreadTypes /\ DporTypes
<1>1. MemoryTypes
  BY FreshIs, ZeroIs DEF MemoryTypes
<1>2. ThreadTypes
  <2>1. status \in [Threads -> {"Absent", "Runnable", "Blocked", "Terminated"}]
    BY CreatedFirst
  <2>2. ASSUME NEW t \in Threads PROVE pc[t] <= Len(program[t]) + 1
    <3>1. program[t] \in Seq(ToSet(program[t]))
      BY ProgramsAssumption
    <3>2. Len(program[t]) \in Nat /\ pc[t] = 1
      BY <3>1, LenProperties DEF All
    <3>3. QED
      BY <3>2
  <2>3. DOMAIN operation = Threads /\ \A t \in Threads : operation[t] = NoOp
    BY DEF All
  <2>4. stage \in [Threads -> {"client", "branched", "parked"}]
    BY DEF All
  <2>5. QED
    BY <2>1, <2>2, <2>3, <2>4 DEF ThreadTypes
<1>3. DporTypes
  <2>1. NoAccess \in Accesses
    BY ZeroIs DEF NoAccess, Accesses
  <2>2. QED
    BY <2>1, ZeroIs DEF DporTypes, All, NoAccesses
<1>4. Spawned
  <2>1. Created = 0 .. 0 /\ 0 \in Threads
    BY CreatedFirst, ThreadsAreNumbers DEF Root
  <2>2. active \in Created
    BY <2>1, ThreadsAreNumbers DEF Root
  <2>3. \A t \in Threads : operation[t] = NoOp /\ stage[t] = "client"
    BY DEF All
  <2>4. QED
    BY <2>1, <2>2, <2>3 DEF Spawned
<1>5. QED
  BY <1>1, <1>2, <1>3, <1>4

LEMMA ResetTypes ==
  ASSUME program' \in Programs, Reset
  PROVE  Spawned' /\ MemoryTypes' /\ ThreadTypes' /\ DporTypes'
<1>1. MemoryTypes'
  BY FreshIs, ZeroIs DEF MemoryTypes, Reset, MemoryReset
<1>2. ThreadTypes'
  <2>1. status' \in [Threads -> {"Absent", "Runnable", "Blocked", "Terminated"}]
    BY DEF Reset, OnlyRoot, All
  <2>2. ASSUME NEW t \in Threads PROVE pc'[t] <= Len(program'[t]) + 1
    <3>1. program'[t] \in Seq(ToSet(program'[t]))
      BY ProgramsAssumption
    <3>2. Len(program'[t]) \in Nat /\ pc'[t] = 1
      BY <3>1, LenProperties DEF All, Reset
    <3>3. QED
      BY <3>2
  <2>3. DOMAIN operation' = Threads /\ \A t \in Threads : operation'[t] = NoOp
    BY DEF Reset, All
  <2>4. stage' \in [Threads -> {"client", "branched", "parked"}]
    BY DEF Reset, All
  <2>5. owner' \in [Mutexes -> Threads \cup {None}]
    BY DEF Reset
  <2>6. QED
    BY <2>1, <2>2, <2>3, <2>4, <2>5 DEF ThreadTypes
<1>3. DporTypes'
  <2>1. NoAccess \in Accesses
    BY ZeroIs DEF NoAccess, Accesses
  <2>2. QED
    BY <2>1, ZeroIs DEF DporTypes, All, NoAccesses, Reset
<1>4. Spawned'
  <2>1. \A t \in Threads : status'[t] = IF t = 0 THEN "Runnable" ELSE "Absent"
    BY DEF OnlyRoot, All, Root, Reset
  <2>2. Created' = {0} /\ 0 \in Threads
    BY <2>1, ThreadsAreNumbers DEF Created, Root
  <2>3. active' \in Created' /\ {0} = 0 .. 0
    BY <2>2 DEF Reset, Root
  <2>4. \A t \in Threads : operation'[t] = NoOp /\ stage'[t] = "client"
    BY DEF Reset, All
  <2>5. QED
    BY <2>2, <2>3, <2>4 DEF Spawned
<1>5. QED
  BY <1>1, <1>2, <1>3, <1>4

LEMMA SameThreads ==
  ASSUME Spawned, MemoryTypes, ThreadTypes, DporTypes,
         UNCHANGED <<memory, threads, dpor, last, program>>
  PROVE  Spawned' /\ MemoryTypes' /\ ThreadTypes' /\ DporTypes'
<1>1. UNCHANGED <<causality, scCausality, writes, cells, status, operation, active, pc, stage, owner,
                  dpor, last, program>>
  BY DEF memory, threads
<1>2. MemoryTypes' /\ DporTypes'
  BY <1>1 DEF MemoryTypes, DporTypes
<1>3. ThreadTypes'
  BY <1>1 DEF ThreadTypes
<1>4. Created' = Created
  BY <1>1 DEF Created
<1>5. Spawned'
  BY <1>1, <1>4 DEF Spawned
<1>6. QED
  BY <1>2, <1>3, <1>5

LEMMA InitTypes ==
  ASSUME Init
  PROVE  Spawned /\ Types
<1>1. Spawned /\ MemoryTypes /\ ThreadTypes /\ DporTypes
  BY FirstTypes DEF Init, MemoryInit
<1>2. ProcessTypes
  <2>1. /\ phase = "start" /\ iteration = 0 /\ crashes = 0
        /\ file.is = "absent" /\ overlooked = FALSE
    BY DEF Init, NoFile
  <2>2. 0 \in 0 .. Interval - 1 /\ 0 \in 0 .. MaxCrashes
    BY SearchAssumption
  <2>3. QED
    BY <2>1, <2>2 DEF ProcessTypes
<1>3. QED
  BY <1>1, <1>2 DEF Types

LEMMA NextTypes ==
  ASSUME IInv, Spawned, Types, [Next]_vars
  PROVE  Spawned' /\ Types'
<1>0. program \in Programs /\ MemoryTypes /\ ThreadTypes /\ DporTypes /\ ProcessTypes
  BY DEF IInv, Types
<1>a. ASSUME UNCHANGED <<memory, threads, dpor, last, program>>, ProcessTypes'
      PROVE  Spawned' /\ Types'
  BY <1>0, <1>a, SameThreads DEF Types
<1>b. ASSUME Reset, program' = program, ProcessTypes'
      PROVE  Spawned' /\ Types'
  BY <1>0, <1>b, ResetTypes DEF Types
<1>1. CASE Start
  <2>1. /\ UNCHANGED <<memory, threads, dpor, last, program>> /\ UNCHANGED <<file, crashes, overlooked>>
        /\ phase' \in {"unreadable", "next"} /\ iteration' = 0
    BY <1>1 DEF Start, marks
  <2>2. ProcessTypes'
    BY <1>0, <2>1, SearchAssumption DEF ProcessTypes
  <2>3. QED
    BY <1>a, <2>1, <2>2
<1>2. CASE BeginIteration
  <2>1. /\ UNCHANGED <<memory, threads, dpor, last, program>> /\ UNCHANGED <<crashes, overlooked>>
        /\ phase' \in {"saving", "search"} /\ iteration' = (iteration + 1) % Interval
        /\ file' \in {file, Torn}
    BY <1>2 DEF BeginIteration, marks, search
  <2>2. iteration' \in 0 .. Interval - 1
    <3>1. \A i \in Nat, n \in Nat \ {0} : (i + 1) % n \in 0 .. n - 1
      OBVIOUS
    <3>2. iteration \in Nat
      BY <1>0 DEF ProcessTypes
    <3>3. QED
      BY <2>1, <3>1, <3>2, SearchAssumption
  <2>3. ProcessTypes'
    BY <1>0, <2>1, <2>2 DEF ProcessTypes, Torn
  <2>4. QED
    BY <1>a, <2>1, <2>3
<1>3. CASE Save
  <2>1. /\ UNCHANGED <<memory, threads, dpor, last, program>>
        /\ UNCHANGED <<iteration, crashes, overlooked>>
        /\ phase' = "search" /\ file'.is = "whole"
    BY <1>3 DEF Save, marks, search
  <2>2. ProcessTypes'
    BY <1>0, <2>1 DEF ProcessTypes
  <2>3. QED
    BY <1>a, <2>1, <2>2
<1>4. CASE EndIteration
  <2>1. /\ Reset /\ UNCHANGED <<program, iteration, file, crashes, overlooked>>
        /\ phase' \in {"audit", "next"}
    BY <1>4 DEF EndIteration
  <2>2. ProcessTypes'
    BY <1>0, <2>1 DEF ProcessTypes
  <2>3. QED
    BY <1>b, <2>1, <2>2
<1>5. CASE \E t \in Threads : Step(t)
  <2>1. PICK t \in Threads : Step(t)
    BY <1>5
  <2>2. Spawned' /\ ThreadTypes' /\ DporTypes' /\ ProcessTypes'
    BY <1>0, <2>1, StepTypes
  <2>3. MemoryTypes'
    BY <1>0, <2>1, Deeds DEF Quiet, Recorded
  <2>4. QED
    BY <2>2, <2>3 DEF Types
<1>6. CASE Crash
  <2>1. /\ Reset /\ UNCHANGED <<program, file, overlooked>>
        /\ crashes < MaxCrashes /\ crashes' = crashes + 1 /\ phase' = "start" /\ iteration' = 0
    BY <1>6 DEF Crash
  <2>2. ProcessTypes'
    BY <1>0, <2>1, SearchAssumption DEF ProcessTypes
  <2>3. QED
    BY <1>b, <2>1, <2>2
<1>7. CASE UNCHANGED vars
  <2>1. /\ UNCHANGED <<memory, threads, dpor, last, program>>
        /\ UNCHANGED <<phase, iteration, file, crashes, overlooked>>
    BY <1>7 DEF vars, search, process, marks
  <2>2. ProcessTypes'
    BY <1>0, <2>1 DEF ProcessTypes
  <2>3. QED
    BY <1>a, <2>1, <2>2
<1>8. QED
  BY <1>1, <1>2, <1>3, <1>4, <1>5, <1>6, <1>7 DEF Next, Work

\* The inductive invariant holds.
LEMMA Invariant == Spec => [](IInv /\ Spawned /\ Types)
<1>1. Init => IInv /\ Spawned /\ Types
  BY InitHolds, InitTypes
<1>2. IInv /\ Spawned /\ Types /\ [Next]_vars => IInv' /\ Spawned' /\ Types'
  BY NextKeeps, NextTypes
<1>3. QED
  BY <1>1, <1>2, PTL DEF Spec

-------------------------------------------------------------------------------
(* The engine's causality and the order of events. *)

\* There are vectors, one for each event, that grow along the order of events and are
\* what the memory keeps of it: V[i] is what the thread of event i knew in it.
Ordered(V) == \A i, j \in DOMAIN trace : i < j /\ Directly(i, j) => Before(V[i], V[j])
Told(V) == \A i \in DOMAIN trace, t \in Threads :
             Tells(i, t, Len(trace)) => Before(V[i], causality[t])
Fenced(V) == \A i \in DOMAIN trace : IsSeqCst(trace[i]) => Before(V[i], scCausality)
Released(V) ==
  \A i \in DOMAIN trace :
    LET a == trace[i].op.obj IN
    trace[i].wr > 0 /\ Releases(trace[i].op.ord) =>
      \A k \in trace[i].wr .. Len(writes[a]) : Before(V[i], writes[a][k].sync)
Seen(V) ==
  \A i \in DOMAIN trace : \A m \in {trace[i].rf, trace[i].wr} :
    LET a == trace[i].op.obj  t == trace[i].by IN
    m > 0 => /\ a \in Atomics /\ m \in 1 .. Len(writes[a])
             /\ writes[a][m].firstSeen[t] # Unseen /\ writes[a][m].firstSeen[t] <= V[i][t]
Left(V) ==
  \A c \in Cells, u \in Threads :
    \/ cells[c][u] = 0
    \/ \E i \in DOMAIN trace :
         trace[i].op.kind = "set" /\ trace[i].op.obj = c /\ cells[c][u] <= V[i][u]
Explains(V) ==
  V \in [DOMAIN trace -> Vectors] /\ Ordered(V) /\ Told(V) /\ Fenced(V) /\ Released(V) /\ Seen(V)
    /\ Left(V)

\* A thread has seen a write by when it knows of.
Stamped ==
  \A a \in Atomics : \A i \in 1 .. Len(writes[a]), u \in Threads :
    writes[a][i].firstSeen[u] # Unseen => writes[a][i].firstSeen[u] <= causality[u][u]

Causal == trace \in Seq(Events) /\ Stamped /\ \E V : Explains(V)

-------------------------------------------------------------------------------
LEMMA TraceGrows ==
  ASSUME trace \in Seq(Events), NEW e \in Events, trace' = Append(trace, e)
  PROVE  /\ Len(trace) \in Nat /\ DOMAIN trace = 1 .. Len(trace)
         /\ trace' \in Seq(Events) /\ Len(trace') = Len(trace) + 1
         /\ DOMAIN trace' = 1 .. Len(trace) + 1
         /\ \A i \in 1 .. Len(trace) : trace'[i] = trace[i] /\ trace[i] \in Events
         /\ trace'[Len(trace) + 1] = e
<1>1. Len(trace) \in Nat /\ DOMAIN trace = 1 .. Len(trace)
  BY LenProperties
<1>2. /\ trace' \in Seq(Events) /\ Len(trace') = Len(trace) + 1
      /\ \A i \in 1 .. Len(trace) : trace'[i] = trace[i]
      /\ trace'[Len(trace) + 1] = e
  BY AppendProperties
<1>3. DOMAIN trace' = 1 .. Len(trace) + 1
  BY <1>2, LenProperties
<1>4. \A i \in 1 .. Len(trace) : trace[i] \in Events
  BY ElementOfSeq
<1>5. QED
  BY <1>1, <1>2, <1>3, <1>4

\* One more event tells a thread of the others only as a point of sequential
\* consistency.
LEMMA TellsGrows ==
  ASSUME trace \in Seq(Events), NEW e \in Events, trace' = Append(trace, e),
         NEW n, n = Len(trace), NEW u
  PROVE  /\ \A i \in 1 .. n, m \in 0 .. n : Tells(i, u, m)' => Tells(i, u, m)
         /\ \A i \in 1 .. n : Tells(i, u, n + 1)' =>
              Tells(i, u, n) \/ (e.by = u /\ IsSeqCst(trace[i]) /\ IsSeqCst(e))
         /\ Tells(n + 1, u, n + 1)' => e.by = u \/ Starts(e, u)
<1>1. /\ n \in Nat /\ trace'[n + 1] = e
      /\ \A i \in 1 .. n : trace'[i] = trace[i]
  BY TraceGrows
<1>2. ASSUME NEW i \in 1 .. n, NEW m \in 0 .. n, Tells(i, u, m)'
      PROVE  Tells(i, u, m)
  <2>1. \A k \in i + 1 .. m : k \in 1 .. n
    BY <1>1
  <2>2. QED
    BY <1>1, <1>2, <2>1 DEF Tells, IsSeqCst
<1>3. ASSUME NEW i \in 1 .. n, Tells(i, u, n + 1)', ~Tells(i, u, n)
      PROVE  e.by = u /\ IsSeqCst(trace[i]) /\ IsSeqCst(e)
  <2>1. trace'[i] = trace[i] /\ trace[i].by # u /\ ~Starts(trace[i], u)
    BY <1>1, <1>3 DEF Tells
  <2>2. IsSeqCst(trace[i]) /\ \E k \in i + 1 .. n + 1 : trace'[k].by = u /\ IsSeqCst(trace'[k])
    BY <1>3, <2>1 DEF Tells, IsSeqCst
  <2>3. PICK k \in i + 1 .. n + 1 : trace'[k].by = u /\ IsSeqCst(trace'[k])
    BY <2>2
  <2>4. CASE k \in i + 1 .. n
    <3>1. k \in 1 .. n
      BY <1>1, <2>4
    <3>2. trace[k].by = u /\ IsSeqCst(trace[k])
      BY <1>1, <2>3, <3>1
    <3>3. Tells(i, u, n)
      BY <2>2, <2>4, <3>2 DEF Tells
    <3>4. QED
      BY <1>3, <3>3
  <2>5. CASE k = n + 1
    BY <1>1, <2>2, <2>3, <2>5
  <2>6. QED
    BY <1>1, <2>3, <2>4, <2>5
<1>4. ASSUME Tells(n + 1, u, n + 1)'
      PROVE  e.by = u \/ Starts(e, u)
  <2>1. (n + 1) + 1 .. n + 1 = {}
    BY <1>1
  <2>2. QED
    BY <1>1, <1>4, <2>1 DEF Tells, Starts
<1>5. QED
  BY <1>2, <1>3, <1>4

LEMMA SynchronizesGrows ==
  ASSUME trace \in Seq(Events), NEW e \in Events, trace' = Append(trace, e), NEW x, NEW y,
         Synchronizes(x, y)'
  PROVE  Synchronizes(x, y)
<1>1. /\ DOMAIN trace \subseteq DOMAIN trace'
      /\ \A i \in DOMAIN trace : trace'[i] = trace[i]
  BY TraceGrows
<1>2. QED
  BY <1>1 DEF Synchronizes

LEMMA DirectlyGrows ==
  ASSUME trace \in Seq(Events), NEW e \in Events, trace' = Append(trace, e),
         NEW n, n = Len(trace)
  PROVE  /\ \A i, j \in 1 .. n : i < j /\ Directly(i, j)' => Directly(i, j)
         /\ \A i \in 1 .. n : Directly(i, n + 1)' =>
              \/ Tells(i, e.by, n)
              \/ IsSeqCst(trace[i]) /\ IsSeqCst(e) /\ e.op.kind # "store"
              \/ /\ trace[i].wr > 0 /\ e.rf >= trace[i].wr /\ trace[i].op.obj = e.op.obj
                 /\ Releases(trace[i].op.ord) /\ Acquires(e.op.ord)
<1>1. /\ n \in Nat /\ trace'[n + 1] = e
      /\ \A i \in 1 .. n : trace'[i] = trace[i]
  BY TraceGrows
<1>2. ASSUME NEW i \in 1 .. n, NEW j \in 1 .. n, i < j, Directly(i, j)'
      PROVE  Directly(i, j)
  <2>1. PICK m : m = IF trace[j].op.kind = "store" THEN j - 1 ELSE j
    OBVIOUS
  <2>2. m \in 0 .. n
    BY <1>1, <2>1
  <2>3. trace'[i] = trace[i] /\ trace'[j] = trace[j]
    BY <1>1
  <2>4. PICK f : f = trace[j]
    OBVIOUS
  <2>5. PICK x : x = trace[i]
    OBVIOUS
  <2>6. Tells(i, f.by, m)' \/ Synchronizes(x, f)'
    BY <1>2, <2>1, <2>3, <2>4, <2>5 DEF Directly
  <2>7. Tells(i, f.by, m) \/ Synchronizes(x, f)
    BY <2>2, <2>6, TellsGrows, SynchronizesGrows
  <2>8. QED
    BY <2>1, <2>4, <2>5, <2>7 DEF Directly
<1>3. ASSUME NEW i \in 1 .. n, Directly(i, n + 1)', ~Tells(i, e.by, n)
      PROVE  \/ IsSeqCst(trace[i]) /\ IsSeqCst(e) /\ e.op.kind # "store"
             \/ /\ trace[i].wr > 0 /\ e.rf >= trace[i].wr /\ trace[i].op.obj = e.op.obj
                /\ Releases(trace[i].op.ord) /\ Acquires(e.op.ord)
  <2>1. trace'[i] = trace[i] /\ (n + 1) - 1 = n
    BY <1>1
  <2>2. PICK x : x = trace[i]
    OBVIOUS
  <2>3. \/ e.op.kind = "store" /\ Tells(i, e.by, n)'
        \/ e.op.kind # "store" /\ Tells(i, e.by, n + 1)'
        \/ Synchronizes(x, e)'
    BY <1>1, <1>3, <2>1, <2>2 DEF Directly
  <2>4. n \in 0 .. n
    BY <1>1
  <2>5. \/ IsSeqCst(trace[i]) /\ IsSeqCst(e) /\ e.op.kind # "store"
        \/ Synchronizes(x, e)
    BY <1>3, <2>3, <2>4, TellsGrows, SynchronizesGrows
  <2>6. QED
    BY <2>2, <2>5 DEF Synchronizes
<1>4. QED
  BY <1>2, <1>3

LEMMA QuietKeeps ==
  ASSUME Causal, MemoryTypes, Quiet
  PROVE  Causal'
<1>1. /\ trace' = trace /\ writes' = writes /\ cells' = cells /\ MemoryTypes'
      /\ Before(scCausality, scCausality')
      /\ \A u \in Threads : Before(causality[u], causality'[u])
  BY DEF Quiet
<1>2. trace \in Seq(Events) /\ Stamped /\ \E V : Explains(V)
  BY DEF Causal
<1>3. PICK V : Explains(V)
  BY <1>2
<1>4. /\ \A u \in Threads : causality[u] \in Vectors /\ causality'[u] \in Vectors
      /\ scCausality \in Vectors /\ scCausality' \in Vectors
      /\ \A i \in DOMAIN trace : V[i] \in Vectors
  BY <1>1, <1>3 DEF MemoryTypes, Explains
<1>5. Ordered(V)' /\ Released(V)' /\ Seen(V)' /\ Left(V)'
  <2>1. \A i, j : Directly(i, j)' <=> Directly(i, j)
    BY <1>1 DEF Directly, Tells, Synchronizes
  <2>2. Ordered(V) /\ Released(V) /\ Seen(V) /\ Left(V)
    BY <1>3 DEF Explains
  <2>3. Ordered(V)'
    BY <1>1, <2>1, <2>2 DEF Ordered
  <2>4. Released(V)'
    BY <1>1, <2>2, SMTT(30) DEF Released
  <2>5. Seen(V)'
    BY <1>1, <2>2 DEF Seen
  <2>6. Left(V)'
    BY <1>1, <2>2 DEF Left
  <2>7. QED
    BY <2>3, <2>4, <2>5, <2>6
<1>6. Told(V)'
  <2>1. \A i, u, m : Tells(i, u, m)' <=> Tells(i, u, m)
    BY <1>1 DEF Tells
  <2>2. Told(V)
    BY <1>3 DEF Explains
  <2>3. ASSUME NEW i \in DOMAIN trace, NEW u \in Threads, Tells(i, u, Len(trace))
        PROVE  Before(V[i], causality'[u])
    <3>1. Before(V[i], causality[u])
      BY <2>2, <2>3 DEF Told
    <3>2. QED
      BY <1>1, <1>4, <3>1, BeforeOrders
  <2>4. PICK n : n = Len(trace)
    OBVIOUS
  <2>5. Len(trace') = n
    BY <1>1, <2>4
  <2>6. \A i \in DOMAIN trace, u \in Threads : Tells(i, u, n)' => Before(V[i], causality'[u])
    BY <2>1, <2>3, <2>4
  <2>7. QED
    BY <1>1, <2>5, <2>6 DEF Told
<1>7. Fenced(V)'
  <2>1. \A i \in DOMAIN trace : IsSeqCst(trace[i]) => Before(V[i], scCausality)
    BY <1>3 DEF Explains, Fenced
  <2>2. \A i \in DOMAIN trace : IsSeqCst(trace[i]) => Before(V[i], scCausality')
    BY <1>1, <1>4, <2>1, BeforeOrders
  <2>3. QED
    BY <1>1, <2>2 DEF Fenced, IsSeqCst
<1>8. Stamped'
  <2> SUFFICES ASSUME NEW a \in Atomics, NEW i \in 1 .. Len(writes[a]), NEW u \in Threads,
                      writes[a][i].firstSeen[u] # Unseen
               PROVE  writes[a][i].firstSeen[u] <= causality'[u][u]
    BY <1>1 DEF Stamped
  <2>1. writes[a][i].firstSeen[u] <= causality[u][u]
    BY <1>2 DEF Stamped
  <2>2. causality[u][u] <= causality'[u][u] /\ causality[u][u] \in Nat /\ causality'[u][u] \in Nat
    BY <1>1, <1>4 DEF Before, Vectors
  <2>3. writes[a][i].firstSeen[u] \in Nat
    <3>1. writes[a] \in Seq(Writes)
      BY DEF MemoryTypes
    <3>2. writes[a][i] \in Writes
      BY <3>1, ElementOfSeq
    <3>3. QED
      BY <3>2 DEF Writes, Stamps
  <2>4. QED
    BY <2>1, <2>2, <2>3
<1>9. (V \in [DOMAIN trace -> Vectors])'
  BY <1>1, <1>3 DEF Explains
<1>10. Explains(V)'
  BY <1>5, <1>6, <1>7, <1>9 DEF Explains
<1>11. QED
  BY <1>1, <1>2, <1>8, <1>10 DEF Causal

\* An event is explained by what its thread knew in it.
LEMMA RecordedKeeps ==
  ASSUME Causal, MemoryTypes, NEW e, NEW c, Recorded(e, c)
  PROVE  Causal'
<1>0. PICK t, a, n : t = e.by /\ a = e.op.obj /\ n = Len(trace)
  OBVIOUS
<1>1. /\ trace \in Seq(Events) /\ Stamped /\ \E V : Explains(V)
      /\ e \in Events /\ trace' = Append(trace, e) /\ MemoryTypes'
      /\ Learns(t, c, IsSeqCst(e), e.op.kind = "store") /\ AllGrown(t, c)
      /\ t \in Threads
  BY <1>0 DEF Causal, Recorded, Events
<1>2. /\ n \in Nat /\ DOMAIN trace = 1 .. n
      /\ trace' \in Seq(Events) /\ Len(trace') = n + 1 /\ DOMAIN trace' = 1 .. n + 1
      /\ \A i \in 1 .. n : trace'[i] = trace[i] /\ trace[i] \in Events
      /\ trace'[n + 1] = e
  BY <1>0, <1>1, TraceGrows
<1>3. PICK V : Explains(V)
  BY <1>1
<1>4. PICK W : W = [i \in 1 .. n + 1 |-> IF i = n + 1 THEN c ELSE V[i]]
  OBVIOUS
<1>5. /\ c \in Vectors /\ Before(causality[t], c) /\ Before(c, causality'[t])
      /\ Before(scCausality, scCausality')
      /\ \A u \in Threads : Before(causality[u], causality'[u])
  BY <1>1 DEF Learns
<1>6. /\ \A u \in Threads : causality[u] \in Vectors /\ causality'[u] \in Vectors
      /\ scCausality \in Vectors /\ scCausality' \in Vectors
      /\ \A i \in 1 .. n : V[i] \in Vectors
  BY <1>1, <1>2, <1>3 DEF MemoryTypes, Explains
<1>7. /\ W \in [1 .. n + 1 -> Vectors] /\ W[n + 1] = c
      /\ \A i \in 1 .. n : W[i] = V[i]
      /\ \A i \in 1 .. n + 1 : i \in 1 .. n \/ i = n + 1
  BY <1>2, <1>4, <1>5, <1>6
<1>8. /\ \A i \in 1 .. n, u \in Threads : Tells(i, u, n) => Before(V[i], causality[u])
      /\ \A i \in 1 .. n : IsSeqCst(trace[i]) => Before(V[i], scCausality)
  BY <1>0, <1>2, <1>3 DEF Explains, Told, Fenced
<1>9. /\ IsSeqCst(e) => Before(c, scCausality') /\ Before(scCausality, causality'[t])
      /\ IsSeqCst(e) /\ e.op.kind # "store" => Before(scCausality, c)
  BY <1>1 DEF Learns
<1>10. Ordered(W)'
  <2>1. ASSUME NEW i \in 1 .. n, NEW j \in 1 .. n, i < j, Directly(i, j)'
        PROVE  Before(V[i], V[j])
    <3>1. Directly(i, j)
      BY <1>0, <1>1, <2>1, DirectlyGrows
    <3>2. QED
      BY <1>2, <1>3, <2>1, <3>1 DEF Explains, Ordered
  <2>2. ASSUME NEW i \in 1 .. n, Directly(i, n + 1)'
        PROVE  Before(V[i], c)
    <3>1. \/ Tells(i, e.by, n)
          \/ IsSeqCst(trace[i]) /\ IsSeqCst(e) /\ e.op.kind # "store"
          \/ /\ trace[i].wr > 0 /\ e.rf >= trace[i].wr /\ trace[i].op.obj = e.op.obj
             /\ Releases(trace[i].op.ord) /\ Acquires(e.op.ord)
      BY <1>0, <1>1, <2>2, DirectlyGrows
    <3>2. CASE Tells(i, e.by, n)
      <4>1. Before(V[i], causality[t])
        BY <1>0, <1>1, <1>8, <3>2
      <4>2. QED
        BY <1>1, <1>5, <1>6, <4>1, BeforeOrders
    <3>3. CASE IsSeqCst(trace[i]) /\ IsSeqCst(e) /\ e.op.kind # "store"
      <4>1. Before(V[i], scCausality) /\ Before(scCausality, c)
        BY <1>8, <1>9, <3>3
      <4>2. QED
        BY <1>5, <1>6, <4>1, BeforeOrders
    <3>4. CASE /\ trace[i].wr > 0 /\ e.rf >= trace[i].wr /\ trace[i].op.obj = e.op.obj
               /\ Releases(trace[i].op.ord) /\ Acquires(e.op.ord)
      <4>1. trace[i].wr \in Nat /\ e.rf \in Nat
        BY <1>1, <1>2, SMTT(30) DEF Events
      <4>2. e.rf > 0 /\ e.rf \in 1 .. Len(writes[a]) /\ Before(writes[a][e.rf].sync, c)
        BY <1>0, <3>4, <4>1 DEF Recorded
      <4>3. e.rf \in trace[i].wr .. Len(writes[a])
        BY <3>4, <4>1, <4>2
      <4>4. Before(V[i], writes[a][e.rf].sync)
        BY <1>0, <1>2, <1>3, <3>4, <4>3 DEF Explains, Released
      <4>5. a \in Atomics
        BY <1>0, <4>2 DEF Recorded
      <4>6. writes[a][e.rf].sync \in Vectors
        <5>1. writes[a] \in Seq(Writes)
          BY <4>5 DEF MemoryTypes
        <5>2. writes[a][e.rf] \in Writes
          BY <4>2, <5>1, ElementOfSeq
        <5>3. QED
          BY <5>2 DEF Writes
      <4>7. QED
        BY <1>5, <1>6, <4>2, <4>4, <4>6, BeforeOrders
    <3>5. QED
      BY <3>1, <3>2, <3>3, <3>4
  <2>3. ASSUME NEW i \in 1 .. n + 1, NEW j \in 1 .. n + 1, i < j, Directly(i, j)'
        PROVE  Before(W[i], W[j])
    <3>1. i \in 1 .. n
      BY <1>2, <2>3
    <3>2. CASE j \in 1 .. n
      BY <1>7, <2>1, <2>3, <3>1, <3>2
    <3>3. CASE j = n + 1
      BY <1>7, <2>2, <2>3, <3>1, <3>3
    <3>4. QED
      BY <1>7, <3>2, <3>3
  <2>4. QED
    BY <1>2, <2>3 DEF Ordered
<1>11. Told(W)'
  <2>1. ASSUME NEW i \in 1 .. n, NEW u \in Threads, Tells(i, u, n + 1)'
        PROVE  Before(V[i], causality'[u])
    <3>1. Tells(i, u, n) \/ (e.by = u /\ IsSeqCst(trace[i]) /\ IsSeqCst(e))
      BY <1>0, <1>1, <2>1, TellsGrows
    <3>2. CASE Tells(i, u, n)
      <4>1. Before(V[i], causality[u])
        BY <1>8, <3>2
      <4>2. QED
        BY <1>5, <1>6, <4>1, BeforeOrders
    <3>3. CASE e.by = u /\ IsSeqCst(trace[i]) /\ IsSeqCst(e)
      <4>1. Before(V[i], scCausality) /\ Before(scCausality, causality'[u])
        BY <1>0, <1>8, <1>9, <3>3
      <4>2. QED
        BY <1>6, <4>1, BeforeOrders
    <3>4. QED
      BY <3>1, <3>2, <3>3
  <2>2. ASSUME NEW u \in Threads, Tells(n + 1, u, n + 1)'
        PROVE  Before(c, causality'[u])
    <3>1. e.by = u \/ Starts(e, u)
      BY <1>0, <1>1, <2>2, TellsGrows, SMTT(30)
    <3>2. Starts(e, u) => Before(c, causality'[u])
      BY DEF Recorded
    <3>3. QED
      BY <1>0, <1>5, <3>1, <3>2
  <2>3. \A i \in 1 .. n + 1, u \in Threads : Tells(i, u, n + 1)' => Before(W[i], causality'[u])
    BY <1>7, <2>1, <2>2
  <2>4. QED
    BY <1>2, <2>3 DEF Told
<1>12. Fenced(W)'
  <2>1. ASSUME NEW i \in 1 .. n, IsSeqCst(trace[i]) PROVE Before(V[i], scCausality')
    BY <1>5, <1>6, <1>8, <2>1, BeforeOrders
  <2>2. \A i \in 1 .. n + 1 : IsSeqCst(trace'[i]) => Before(W[i], scCausality')
    <3> TAKE i \in 1 .. n + 1
    <3>1. CASE i \in 1 .. n
      <4>1. trace'[i] = trace[i]
        BY <1>2, <3>1
      <4>2. QED
        BY <1>7, <2>1, <3>1, <4>1
    <3>2. CASE i = n + 1
      BY <1>2, <1>7, <1>9, <3>2
    <3>3. QED
      BY <1>7, <3>1, <3>2
  <2>3. QED
    BY <1>2, <2>2 DEF Fenced, IsSeqCst
<1>13. Released(W)'
  <2>1. ASSUME NEW i \in 1 .. n, trace[i].wr > 0, Releases(trace[i].op.ord),
               NEW k \in trace[i].wr .. Len(writes'[trace[i].op.obj])
        PROVE  Before(V[i], writes'[trace[i].op.obj][k].sync)
    <3>1. PICK b, w : b = trace[i].op.obj /\ w = trace[i].wr
      BY Zenon
    <3>2. b \in Atomics /\ w \in 1 .. Len(writes[b]) /\ w \in Nat
      BY <1>2, <1>3, <2>1, <3>1, ZenonT(60) DEF Explains, Seen, Events
    <3>3. /\ Grown(writes[b], writes'[b], t, c) /\ Len(writes[b]) \in Nat
          /\ Len(writes'[b]) \in Nat /\ Len(writes'[b]) <= Len(writes[b]) + 1
      BY <1>1, <3>2 DEF AllGrown, Recorded
    <3>4. \A j \in w .. Len(writes[b]) : Before(V[i], writes[b][j].sync)
      BY <1>2, <1>3, <2>1, <3>1 DEF Explains, Released
    <3>5. \A j \in w .. Len(writes[b]) : Before(V[i], writes'[b][j].sync)
      <4>1. \A j \in w .. Len(writes[b]) : j \in 1 .. Len(writes[b])
        BY <3>2, <3>3
      <4>2. \A j \in 1 .. Len(writes[b]) : writes'[b][j].sync = writes[b][j].sync
        BY <3>3 DEF Grown
      <4>3. QED
        BY <3>4, <4>1, <4>2
    <3>6. CASE k <= Len(writes[b])
      BY <2>1, <3>1, <3>2, <3>3, <3>5, <3>6, SMTT(30)
    <3>7. CASE ~(k <= Len(writes[b]))
      <4>1. /\ k = Len(writes[b]) + 1 /\ k - 1 \in w .. Len(writes[b])
            /\ k \in Len(writes[b]) + 1 .. Len(writes'[b])
            /\ k \in 1 .. Len(writes'[b]) /\ k - 1 \in 1 .. Len(writes'[b])
        <5>1. \A l, m \in Nat : \A j \in 1 .. l : \A h \in j .. m : m <= l + 1 /\ ~(h <= l) =>
                /\ h = l + 1 /\ h - 1 \in j .. l /\ h \in l + 1 .. m
                /\ h \in 1 .. m /\ h - 1 \in 1 .. m
          OBVIOUS
        <5>2. k \in w .. Len(writes'[b])
          BY <2>1, <3>1
        <5>3. QED
          BY <3>2, <3>3, <3>7, <5>1, <5>2
      <4>2. Before(writes'[b][k - 1].sync, writes'[b][k].sync)
        BY <3>3, <4>1 DEF Grown
      <4>3. Before(V[i], writes'[b][k - 1].sync)
        BY <3>5, <4>1
      <4>4. writes'[b][k - 1].sync \in Vectors /\ writes'[b][k].sync \in Vectors
        <5>1. writes'[b] \in Seq(Writes)
          BY <1>1, <3>2 DEF MemoryTypes
        <5>2. writes'[b][k - 1] \in Writes /\ writes'[b][k] \in Writes
          BY <4>1, <5>1, ElementOfSeq
        <5>3. QED
          BY <5>2 DEF Writes
      <4>5. QED
        BY <1>6, <3>1, <4>2, <4>3, <4>4, BeforeOrders
    <3>8. QED
      BY <3>6, <3>7
  <2>2. ASSUME e.wr > 0, Releases(e.op.ord), NEW k \in e.wr .. Len(writes'[a])
        PROVE  Before(c, writes'[a][k].sync)
    <3>1. e.wr = Len(writes'[a]) /\ Before(c, writes'[a][e.wr].sync) /\ e.wr \in Nat
      BY <1>0, <1>1, <2>2 DEF Recorded, Events
    <3>2. k = e.wr
      BY <2>2, <3>1
    <3>3. QED
      BY <3>1, <3>2, SMTT(30)
  <2>3. ASSUME NEW i \in 1 .. n + 1, NEW x, x = trace'[i], x.wr > 0, Releases(x.op.ord),
               NEW k \in x.wr .. Len(writes'[x.op.obj])
        PROVE  Before(W[i], writes'[x.op.obj][k].sync)
    <3>1. CASE i \in 1 .. n
      <4>1. x = trace[i] /\ W[i] = V[i]
        BY <1>2, <1>7, <2>3, <3>1
      <4>2. QED
        BY <2>1, <2>3, <3>1, <4>1
    <3>2. CASE i = n + 1
      <4>1. x = e /\ W[i] = c
        BY <1>2, <1>7, <2>3, <3>2, SMTT(30)
      <4>2. QED
        BY <1>0, <2>2, <2>3, <4>1
    <3>3. QED
      BY <1>7, <3>1, <3>2
  <2>4. QED
    BY <1>2, <2>3 DEF Released
<1>14. Seen(W)'
  <2>1. ASSUME NEW i \in 1 .. n, NEW m \in {trace[i].rf, trace[i].wr}, m > 0
        PROVE  LET b == trace[i].op.obj  u == trace[i].by IN
               /\ b \in Atomics /\ m \in 1 .. Len(writes'[b])
               /\ writes'[b][m].firstSeen[u] # Unseen /\ writes'[b][m].firstSeen[u] <= V[i][u]
    <3>1. PICK b, u : b = trace[i].op.obj /\ u = trace[i].by
      BY SMTT(30)
    <3>2. /\ b \in Atomics /\ m \in 1 .. Len(writes[b])
          /\ writes[b][m].firstSeen[u] # Unseen /\ writes[b][m].firstSeen[u] <= V[i][u]
      BY <1>2, <1>3, <2>1, <3>1, ZenonT(60) DEF Explains, Seen
    <3>3. /\ Grown(writes[b], writes'[b], t, c) /\ Len(writes[b]) \in Nat
          /\ Len(writes'[b]) \in Nat /\ u \in Threads
      BY <1>1, <1>2, <3>1, <3>2 DEF AllGrown, Events
    <3>4. Len(writes[b]) <= Len(writes'[b]) /\ writes'[b][m].firstSeen[u] = writes[b][m].firstSeen[u]
      BY <3>2, <3>3 DEF Grown
    <3>5. m \in 1 .. Len(writes'[b])
      BY <3>2, <3>3, <3>4
    <3>6. QED
      BY <3>1, <3>2, <3>4, <3>5
  <2>2. ASSUME NEW m \in {e.rf, e.wr}, m > 0
        PROVE  /\ a \in Atomics /\ m \in 1 .. Len(writes'[a])
               /\ writes'[a][m].firstSeen[t] # Unseen /\ writes'[a][m].firstSeen[t] <= c[t]
    <3>1. /\ a \in Atomics /\ m \in 1 .. Len(writes'[a])
          /\ writes'[a][m].firstSeen[t] # Unseen
      BY <1>0, <2>2 DEF Recorded
    <3>2. Grown(writes[a], writes'[a], t, c) /\ Len(writes[a]) \in Nat /\ Len(writes'[a]) \in Nat
      BY <1>1, <3>1 DEF AllGrown
    <3>3. \/ m <= Len(writes[a]) /\ writes'[a][m].firstSeen[t] = writes[a][m].firstSeen[t]
          \/ writes'[a][m].firstSeen[t] <= c[t]
      BY <1>1, <3>1, <3>2 DEF Grown
    <3>4. CASE m <= Len(writes[a]) /\ writes'[a][m].firstSeen[t] = writes[a][m].firstSeen[t]
      <4>1. m \in 1 .. Len(writes[a])
        BY <3>1, <3>2, <3>4
      <4>2. writes[a][m].firstSeen[t] # Unseen
        BY <3>1, <3>4
      <4>3. writes[a][m].firstSeen[t] <= causality[t][t]
        BY <1>1, <3>1, <4>1, <4>2 DEF Stamped
      <4>4. writes[a][m].firstSeen[t] \in Nat
        <5>1. writes[a] \in Seq(Writes)
          BY <3>1 DEF MemoryTypes
        <5>2. writes[a][m] \in Writes
          BY <4>1, <5>1, ElementOfSeq
        <5>3. QED
          BY <1>1, <4>2, <5>2 DEF Writes, Stamps
      <4>5. causality[t][t] <= c[t] /\ causality[t][t] \in Nat /\ c[t] \in Nat
        BY <1>1, <1>5, <1>6 DEF Before, Vectors
      <4>6. QED
        BY <3>1, <3>4, <4>3, <4>4, <4>5
    <3>5. QED
      BY <3>1, <3>3, <3>4, SMTT(30)
  <2>3. ASSUME NEW i \in 1 .. n + 1, NEW x, x = trace'[i], NEW m \in {x.rf, x.wr}, m > 0
        PROVE  /\ x.op.obj \in Atomics /\ m \in 1 .. Len(writes'[x.op.obj])
               /\ writes'[x.op.obj][m].firstSeen[x.by] # Unseen
               /\ writes'[x.op.obj][m].firstSeen[x.by] <= W[i][x.by]
    <3>1. CASE i \in 1 .. n
      <4>1. x = trace[i] /\ W[i] = V[i]
        BY <1>2, <1>7, <2>3, <3>1
      <4>2. QED
        BY <2>1, <2>3, <3>1, <4>1, ZenonT(60)
    <3>2. CASE i = n + 1
      <4>1. x = e /\ W[i] = c
        BY <1>2, <1>7, <2>3, <3>2
      <4>2. QED
        BY <1>0, <2>2, <2>3, <4>1
    <3>3. QED
      BY <1>7, <3>1, <3>2, SMTT(30)
  <2>4. QED
    BY <1>2, <2>3 DEF Seen
<1>15. Left(W)'
  <2> SUFFICES ASSUME NEW x \in Cells, NEW u \in Threads, cells'[x][u] # 0
               PROVE  \E i \in 1 .. n + 1 : /\ trace'[i].op.kind = "set" /\ trace'[i].op.obj = x
                                            /\ cells'[x][u] <= W[i][u]
    BY <1>2 DEF Left
  <2>1. CASE cells'[x][u] = cells[x][u]
    <3>1. PICK i \in 1 .. n : /\ trace[i].op.kind = "set" /\ trace[i].op.obj = x
                              /\ cells[x][u] <= V[i][u]
      BY <1>2, <1>3, <2>1 DEF Explains, Left
    <3>2. i \in 1 .. n + 1 /\ trace'[i] = trace[i] /\ W[i] = V[i]
      BY <1>2, <1>7
    <3>3. QED
      BY <2>1, <3>1, <3>2
  <2>2. CASE cells'[x][u] # cells[x][u]
    <3>1. e.op.kind = "set" /\ cells' = [cells EXCEPT ![a] = Join(cells[a], causality[t])]
      BY <1>0, <2>2 DEF Recorded
    <3>2. x = a /\ cells'[x] = Join(cells[a], causality[t])
      BY <2>2, <3>1 DEF MemoryTypes
    <3>3. cells'[x][u] = causality[t][u]
      BY <2>2, <3>2 DEF Join
    <3>4. causality[t][u] <= c[u]
      BY <1>5 DEF Before
    <3>5. n + 1 \in 1 .. n + 1
      BY <1>2
    <3>6. QED
      BY <1>0, <1>2, <1>7, <3>1, <3>2, <3>3, <3>4, <3>5
  <2>3. QED
    BY <2>1, <2>2
<1>16. Stamped'
  <2> SUFFICES ASSUME NEW b \in Atomics, NEW i \in 1 .. Len(writes'[b]), NEW u \in Threads,
                      writes'[b][i].firstSeen[u] # Unseen
               PROVE  writes'[b][i].firstSeen[u] <= causality'[u][u]
    BY DEF Stamped
  <2>1. Grown(writes[b], writes'[b], t, c) /\ Len(writes[b]) \in Nat /\ Len(writes'[b]) \in Nat
    BY <1>1 DEF AllGrown
  <2>2. writes'[b][i].firstSeen[u] \in Nat
    <3>1. writes'[b] \in Seq(Writes)
      BY <1>1 DEF MemoryTypes
    <3>2. writes'[b][i] \in Writes
      BY <3>1, ElementOfSeq
    <3>3. QED
      BY <3>2 DEF Writes, Stamps
  <2>3. /\ causality[u][u] <= causality'[u][u] /\ causality[u][u] \in Nat /\ causality'[u][u] \in Nat
        /\ c[t] <= causality'[t][t] /\ c[t] \in Nat /\ causality'[t][t] \in Nat
    BY <1>1, <1>5, <1>6 DEF Before, Vectors
  <2>4. \/ i <= Len(writes[b]) /\ writes'[b][i].firstSeen[u] = writes[b][i].firstSeen[u]
        \/ u = t /\ writes'[b][i].firstSeen[u] <= c[t]
    BY <2>1 DEF Grown
  <2>5. CASE i <= Len(writes[b]) /\ writes'[b][i].firstSeen[u] = writes[b][i].firstSeen[u]
    <3>1. i \in 1 .. Len(writes[b])
      BY <2>1, <2>5
    <3>2. writes[b][i].firstSeen[u] <= causality[u][u]
      BY <1>1, <2>5, <3>1 DEF Stamped
    <3>3. QED
      BY <2>2, <2>3, <2>5, <3>2
  <2>6. CASE u = t /\ writes'[b][i].firstSeen[u] <= c[t]
    BY <2>2, <2>3, <2>6
  <2>7. QED
    BY <2>4, <2>5, <2>6
<1>17. (W \in [DOMAIN trace -> Vectors])'
  BY <1>2, <1>7
<1>18. Explains(W)'
  BY <1>10, <1>11, <1>12, <1>13, <1>14, <1>15, <1>17 DEF Explains
<1>19. QED
  BY <1>2, <1>16, <1>18 DEF Causal

\* An iteration starts with nothing to explain.
LEMMA NothingToExplain ==
  ASSUME trace = <<>>, writes = [a \in Atomics |-> Fresh], cells = [c \in Cells |-> Zero],
         causality = [t \in Threads |-> Zero]
  PROVE  Causal
<1>1. trace \in Seq(Events) /\ DOMAIN trace = {}
  BY EmptySeq, LenProperties
<1>2. Stamped
  <2> SUFFICES ASSUME NEW a \in Atomics, NEW i \in 1 .. Len(writes[a]), NEW u \in Threads,
                      writes[a][i].firstSeen[u] # Unseen
               PROVE  writes[a][i].firstSeen[u] <= causality[u][u]
    BY DEF Stamped
  <2>1. writes[a] = Fresh /\ i = 1
    <3>1. writes[a] = Fresh
      OBVIOUS
    <3>2. i \in 1 .. 1
      BY <3>1, FreshIs
    <3>3. QED
      BY <3>1, <3>2
  <2>2. writes[a][i].firstSeen[u] = 0 /\ causality[u][u] = 0
    BY <2>1, FreshIs DEF Zero
  <2>3. QED
    BY <2>2
<1>3. PICK V : V = [i \in {} |-> Zero]
  OBVIOUS
<1>4. Left(V)
  BY DEF Left, Zero
<1>5. Explains(V)
  BY <1>1, <1>3, <1>4 DEF Explains, Ordered, Told, Fenced, Released, Seen
<1>6. QED
  BY <1>1, <1>2, <1>5 DEF Causal

LEMMA ResetExplains ==
  ASSUME Reset
  PROVE  Causal'
<1>1. /\ trace' = <<>> /\ writes' = [a \in Atomics |-> Fresh] /\ cells' = [c \in Cells |-> Zero]
      /\ causality' = [t \in Threads |-> Zero]
  BY DEF Reset, MemoryReset
<1>2. trace' \in Seq(Events) /\ DOMAIN trace' = {}
  BY <1>1, EmptySeq, LenProperties
<1>3. Stamped'
  <2> SUFFICES ASSUME NEW a \in Atomics, NEW i \in 1 .. Len(writes'[a]), NEW u \in Threads,
                      writes'[a][i].firstSeen[u] # Unseen
               PROVE  writes'[a][i].firstSeen[u] <= causality'[u][u]
    BY DEF Stamped
  <2>1. writes'[a] = Fresh /\ i = 1
    <3>1. writes'[a] = Fresh
      BY <1>1
    <3>2. i \in 1 .. 1
      BY <3>1, FreshIs
    <3>3. QED
      BY <3>1, <3>2
  <2>2. writes'[a][i].firstSeen[u] = 0 /\ causality'[u][u] = 0
    BY <1>1, <2>1, FreshIs DEF Zero
  <2>3. QED
    BY <2>2
<1>4. PICK V : V = [i \in {} |-> Zero]
  OBVIOUS
<1>5. Left(V)'
  BY <1>1 DEF Left, Zero
<1>6. Explains(V)'
  BY <1>2, <1>4, <1>5 DEF Explains, Ordered, Told, Fenced, Released, Seen
<1>7. QED
  BY <1>2, <1>3, <1>6 DEF Causal

LEMMA NextExplains ==
  ASSUME IInv, Spawned, Types, Causal, [Next]_vars
  PROVE  Causal'
<1>0. MemoryTypes
  BY DEF Types
<1>a. UNCHANGED <<memory, trace>> => Causal'
  BY <1>0, SameMemory, QuietKeeps DEF Quiet
<1>1. CASE Start \/ BeginIteration \/ Save \/ UNCHANGED vars
  BY <1>1, <1>a DEF Start, BeginIteration, Save, vars
<1>2. CASE EndIteration \/ Crash
  BY <1>2, ResetExplains DEF EndIteration, Crash
<1>3. CASE \E t \in Threads : Step(t)
  BY <1>3, <1>0, Deeds, QuietKeeps, RecordedKeeps
<1>4. QED
  BY <1>1, <1>2, <1>3 DEF Next, Work

LEMMA CausalHolds == Spec => [](IInv /\ Spawned /\ Types /\ Causal)
<1>1. Init => Causal
  BY NothingToExplain DEF Init, MemoryInit
<1>2. IInv /\ Spawned /\ Types /\ Causal /\ [Next]_vars => Causal'
  BY NextExplains
<1>3. QED
  BY <1>1, <1>2, Invariant, PTL DEF Spec

-------------------------------------------------------------------------------
(* What a thread knows of. *)

\* The equation of Past.
LEMMA PastIs ==
  ASSUME trace \in Seq(Events)
  PROVE  \A j \in DOMAIN trace :
           Past[j] = {j} \cup UNION {Past[i] : i \in {k \in 1 .. j - 1 : Directly(k, j)}}
<1> DEFINE Body(f, j) == {j} \cup UNION {f[i] : i \in {k \in 1 .. j - 1 : Directly(k, j)}}
           Solves(f, n) == f = [j \in 1 .. n |-> Body(f, j)]
           S == {n \in Nat : ~ \E f : Solves(f, n)}
<1>1. \A n \in Nat : \E f : Solves(f, n)
  <2> SUFFICES ASSUME S # {} PROVE FALSE
    OBVIOUS
  <2>1. PICK n \in S : \A m \in S : n <= m
    BY Least
  <2>2. n \in Nat /\ ~ \E f : Solves(f, n)
    OBVIOUS
  <2>3. CASE n = 0
    <3>1. Solves([j \in 1 .. 0 |-> {}], 0)
      OBVIOUS
    <3>2. QED
      BY <2>2, <2>3, <3>1
  <2>4. CASE n # 0
    <3>1. n - 1 \in Nat /\ ~(n <= n - 1)
      BY <2>2, <2>4
    <3>2. PICK f : Solves(f, n - 1)
      BY <2>1, <3>1, Zenon
    <3> DEFINE g == [j \in 1 .. n |-> Body(f, j)]
    <3>3. ASSUME NEW j \in 1 .. n PROVE Body(g, j) = Body(f, j)
      <4>1. \A i \in 1 .. j - 1 : i \in 1 .. n /\ i \in 1 .. n - 1
        BY <2>2
      <4>2. \A i \in 1 .. j - 1 : g[i] = f[i]
        <5> TAKE i \in 1 .. j - 1
        <5>1. g[i] = Body(f, i)
          BY <4>1
        <5>2. f[i] = Body(f, i)
          <6> HIDE DEF Body
          <6>1. f = [h \in 1 .. n - 1 |-> Body(f, h)]
            BY <3>2
          <6>2. QED
            BY <4>1, <6>1
        <5>3. QED
          BY <5>1, <5>2
      <4> HIDE DEF g
      <4>3. QED
        BY <4>2
    <3> HIDE DEF Body
    <3>4. g = [j \in 1 .. n |-> Body(g, j)]
      BY <3>3
    <3>5. QED
      BY <2>2, <3>4
  <2>5. QED
    BY <2>3, <2>4
<1>2. Len(trace) \in Nat /\ DOMAIN trace = 1 .. Len(trace)
  BY LenProperties
<1>3. \E f : f = [j \in DOMAIN trace |-> Body(f, j)]
  <2>1. PICK f : Solves(f, Len(trace))
    BY <1>1, <1>2
  <2> HIDE DEF Body
  <2>2. f = [j \in DOMAIN trace |-> Body(f, j)]
    BY <1>2, <2>1
  <2>3. QED
    BY <2>2
<1>4. Past = [j \in DOMAIN trace |-> Body(Past, j)]
  BY <1>3 DEF Past
<1> HIDE DEF Body
<1>5. \A j \in DOMAIN trace : Past[j] = Body(Past, j)
  BY <1>4
<1>6. QED
  BY <1>5 DEF Body

\* The events a thread knows of are counted in its causality.
LEMMA KnownIs ==
  ASSUME trace \in Seq(Events), NEW V, Explains(V), causality \in [Threads -> Vectors],
         NEW t \in Threads, NEW i \in Known(t)
  PROVE  i \in DOMAIN trace /\ Before(V[i], causality[t])
<1>1. Len(trace) \in Nat /\ DOMAIN trace = 1 .. Len(trace)
  BY LenProperties
<1>2. \A j \in DOMAIN trace : V[j] \in Vectors
  BY DEF Explains
<1>3. \A j \in DOMAIN trace : \A h \in Past[j] : h \in DOMAIN trace /\ Before(V[h], V[j])
  <2> DEFINE S == {j \in DOMAIN trace : ~ \A h \in Past[j] : h \in DOMAIN trace /\ Before(V[h], V[j])}
  <2> SUFFICES ASSUME S # {} PROVE FALSE
    OBVIOUS
  <2>1. S \subseteq Nat
    BY <1>1
  <2>2. PICK j \in S : \A m \in S : j <= m
    BY <2>1, Least
  <2>3. j \in DOMAIN trace /\ j \in 1 .. Len(trace)
    BY <1>1
  <2>4. PICK h \in Past[j] : ~(h \in DOMAIN trace /\ Before(V[h], V[j]))
    OBVIOUS
  <2>5. h # j
    BY <1>2, <2>3, <2>4, BeforeOrders
  <2>6. PICK k \in 1 .. j - 1 : Directly(k, j) /\ h \in Past[k]
    BY <2>3, <2>4, <2>5, PastIs
  <2>7. k \in DOMAIN trace /\ k < j /\ ~(j <= k)
    BY <1>1, <2>3
  <2>8. h \in DOMAIN trace /\ Before(V[h], V[k])
    BY <2>2, <2>6, <2>7
  <2>9. Before(V[k], V[j])
    BY <2>3, <2>6, <2>7 DEF Explains, Ordered
  <2>10. QED
    BY <1>2, <2>3, <2>4, <2>7, <2>8, <2>9, BeforeOrders
<1>4. PICK k \in DOMAIN trace : Tells(k, t, Len(trace)) /\ i \in Past[k]
  BY DEF Known
<1>5. Before(V[k], causality[t])
  BY <1>4 DEF Explains, Told
<1>6. QED
  BY <1>2, <1>3, <1>4, <1>5, BeforeOrders

\* pick_write goes back no further than a write that is seen.
LEMMA NewerUnseen ==
  ASSUME Histories, NEW a \in Atomics, NEW t, NEW ord,
         NEW k \in ToSet(Candidates(t, a, ord))
  PROVE  /\ k \in DOMAIN writes[a]
         /\ \A j \in k + 1 .. Len(writes[a]) :
              ~IsSeenBy(writes[a][j].firstSeen, causality[t]) /\ ~(ord = "SeqCst" /\ writes[a][j].seqCst)
<1> DEFINE ws == writes[a]
           ends == {i \in DOMAIN ws : \/ IsSeenBy(ws[i].firstSeen, causality[t])
                                      \/ ord = "SeqCst" /\ ws[i].seqCst}
           from == Max({1} \cup ends)
           n == Len(ws) - from + 1
           up == [i \in 1 .. n |-> from + i - 1]
<1>1. Candidates(t, a, ord) = Reverse(up)
  BY DEF Candidates
<1>2. k \in DOMAIN writes[a]
  BY CandidatesAre
<1>3. ws \in Seq(ToSet(ws)) /\ ws # <<>>
  BY DEF Histories
<1>4. Len(ws) \in Nat /\ DOMAIN ws = 1 .. Len(ws) /\ Len(ws) >= 1
  <2> HIDE DEF ws
  <2>1. Len(ws) \in Nat /\ DOMAIN ws = 1 .. Len(ws) /\ Len(ws) # 0
    BY <1>3, LenProperties, EmptySeq
  <2>2. QED
    BY <2>1
<1>5. from \in 1 .. Len(ws) /\ \A j \in ends : j <= from
  <2>1. ends \subseteq 1 .. Len(ws)
    BY <1>4
  <2> HIDE DEF ends, ws
  <2>2. {1} \cup ends \subseteq 1 .. Len(ws) /\ {1} \cup ends \subseteq 0 .. Len(ws)
    BY <1>4, <2>1
  <2>3. from \in {1} \cup ends /\ \A y \in {1} \cup ends : y <= from
    BY <1>4, <2>2, Greatest
  <2>4. QED
    BY <2>2, <2>3
<1> HIDE DEF from
<1>6. k >= from
  <2> HIDE DEF ws
  <2>1. n \in Nat /\ up \in [1 .. n -> Nat] /\ \A i \in 1 .. n : up[i] >= from
    BY <1>4, <1>5
  <2>2. up \in Seq(Nat) /\ Len(up) = n
    <3> HIDE DEF up, n
    <3>1. QED
      BY <2>1, FunctionIsSeq
  <2> HIDE DEF n
  <2>3. Reverse(up) = [i \in 1 .. n |-> up[(n - i) + 1]]
    <3> HIDE DEF up
    <3>1. QED
      BY <2>2 DEF Reverse
  <2> HIDE DEF up
  <2>4. PICK i \in 1 .. n : k = up[(n - i) + 1]
    BY <1>1, <2>3 DEF ToSet
  <2>5. (n - i) + 1 \in 1 .. n
    BY <2>1
  <2>6. QED
    BY <2>1, <2>4, <2>5
<1>7. ASSUME NEW j \in k + 1 .. Len(ws) PROVE j \notin ends /\ j \in DOMAIN ws
  <2> HIDE DEF ends, ws
  <2>1. k \in Nat /\ from \in Nat /\ j > k /\ j \in 1 .. Len(ws)
    BY <1>2, <1>4, <1>5 DEF ws
  <2>2. QED
    BY <1>4, <1>5, <1>6, <2>1
<1>8. QED
  BY <1>2, <1>7

-------------------------------------------------------------------------------
(* The search runs no execution twice: whatever the programs, the threads, the
   interval between checkpoints and the crashes, an iteration that ended decides
   otherwise somewhere than every iteration its process knows of, those before the
   checkpoint it resumed from included (Path::step and Schedule::backtrack). *)
THEOREM ExecutionsDiffer == Spec => []NoExecutionTwice
<1>1. IInv => NoExecutionTwice
  <2> SUFFICES ASSUME IInv, phase = "search", Decisions \in executed
               PROVE  FALSE
    BY DEF NoExecutionTwice
  <2>1. Diverges(branches, Decisions) /\ branches \in Paths
    BY DEF IInv, Anew, Searching
  <2>2. PICK i \in DOMAIN branches : Spent(branches[i], Decisions[i])
    BY <2>1 DEF Diverges
  <2>3. ~Spent(branches[i], Chosen(branches[i]))
    BY <2>1, PathIs, ChosenStands
  <2>4. QED
    BY <2>2, <2>3 DEF Decisions
<1>2. QED
  BY <1>1, Invariant, PTL

\* Every variable keeps its type (sources of Search, Path, Memory and VersionVec).
THEOREM TypeCorrect == Spec => []TypeOK
<1>1. IInv /\ Spawned /\ Types => TypeOK
  <2> SUFFICES ASSUME IInv, Spawned, Types PROVE TypeOK
    OBVIOUS
  <2>1. MemoryTypes /\ ThreadTypes /\ DporTypes /\ ProcessTypes
    BY DEF Types
  <2>2. ASSUME NEW bs \in Paths PROVE ArePath(bs)
    <3> SUFFICES ASSUME NEW i \in DOMAIN bs PROVE IsBranch(bs[i])
      BY DEF ArePath
    <3>1. bs[i] \in Schedules \cup Reads /\ Orderly(bs[i])
      BY PathIs
    <3>2. CASE bs[i] \in Schedules
      BY <3>2 DEF Schedules, IsBranch
    <3>3. CASE bs[i] \in Reads
      <4>1. bs[i].kind = "Write" /\ bs[i].writes \in Seq(Nat) /\ bs[i].writes # <<>>
        BY <3>1, <3>3, Kinds DEF Orderly
      <4>2. QED
        BY <4>1 DEF IsBranch
    <3>4. QED
      BY <3>1, <3>2, <3>3
  <2>3. ASSUME NEW t \in Threads
        PROVE  pc[t] \in 1 .. Len(program[t]) + 1 /\ operation[t] \in {NoOp} \cup ToSet(program[t])
    <3>1. program[t] \in Seq(ToSet(program[t])) /\ pc[t] \in Nat \ {0}
      BY ProgramsAssumption DEF IInv
    <3>2. Len(program[t]) \in Nat /\ pc[t] <= Len(program[t]) + 1
      BY <2>1, <3>1, LenProperties DEF ThreadTypes
    <3>3. QED
      BY <2>1, <3>1, <3>2 DEF ThreadTypes
  <2>4. active \in Threads \cup {None}
    BY DEF Spawned, Created
  <2>5. QED
    BY <2>1, <2>2, <2>3, <2>4, MemoryIs DEF TypeOK, IInv, ThreadTypes, DporTypes, ProcessTypes
<1>2. QED
  BY <1>1, Invariant, PTL

\* An access to a CausalCell that panics (CausalCell::with and with_mut, causal.rs) is
\* one that another write of the cell is not ordered before: no program without a data
\* race is reported.
THEOREM RaceReportsAreRight == Spec => []RacesAreReal
<1>1. IInv /\ Spawned /\ Types /\ Causal => RacesAreReal
  <2> SUFFICES ASSUME IInv, Types, Causal, NEW t \in Threads,
                      At(t, "get", "client") \/ At(t, "set", "client"), Races(t, Op(t).obj)
               PROVE  \E i \in DOMAIN trace \ Known(t) :
                        trace[i].op.kind = "set" /\ trace[i].op.obj = Op(t).obj
    BY DEF RacesAreReal
  <2>1. PICK x : x = Op(t).obj
    OBVIOUS
  <2>2. x \in Cells /\ trace \in Seq(Events) /\ causality \in [Threads -> Vectors]
        /\ cells \in [Cells -> Vectors]
    BY <2>1, OperationIs DEF At, Fits, Causal, Types, MemoryTypes
  <2>3. PICK u \in Threads : ~(cells[x][u] <= causality[t][u])
    BY <2>1 DEF Races, Leq
  <2>4. cells[x][u] \in Nat /\ causality[t][u] \in Nat
    BY <2>2 DEF Vectors
  <2>5. PICK V : Explains(V)
    BY DEF Causal
  <2>6. PICK i \in DOMAIN trace :
          trace[i].op.kind = "set" /\ trace[i].op.obj = x /\ cells[x][u] <= V[i][u]
    BY <2>2, <2>3, <2>4, <2>5 DEF Explains, Left
  <2>7. V[i][u] \in Nat
    BY <2>5 DEF Explains, Vectors
  <2>8. ~(V[i][u] <= causality[t][u])
    BY <2>3, <2>4, <2>6, <2>7
  <2>9. i \notin Known(t)
    BY <2>2, <2>5, <2>8, KnownIs DEF Before
  <2>10. QED
    BY <2>1, <2>6, <2>9
<1>2. QED
  BY <1>1, CausalHolds, PTL

\* A load is offered no write that is older than one its thread must know of
\* (Atomic::pick_write, FirstSeen::is_seen_by, atomic.rs).
THEOREM OffersAreAllowed == Spec => []NothingStale
<1>1. IInv /\ Spawned /\ Types /\ Causal => NothingStale
  <2> SUFFICES ASSUME IInv, Types, Causal, NEW t \in Threads, At(t, "load", "branched"),
                      NEW k \in ToSet(Candidates(t, Op(t).obj, Op(t).ord))
               PROVE  k \in Allowed(t, Op(t).obj, Op(t).ord)
    BY DEF NothingStale
  <2>1. PICK a, ord : a = Op(t).obj /\ ord = Op(t).ord
    OBVIOUS
  <2>2. a \in Atomics /\ trace \in Seq(Events) /\ causality \in [Threads -> Vectors]
        /\ writes \in [Atomics -> Seq(Writes)] /\ Histories
    BY <2>1, OperationIs DEF At, Fits, Causal, Types, MemoryTypes, IInv
  <2>3. /\ k \in DOMAIN writes[a]
        /\ \A j \in k + 1 .. Len(writes[a]) :
             ~IsSeenBy(writes[a][j].firstSeen, causality[t]) /\ ~(ord = "SeqCst" /\ writes[a][j].seqCst)
    BY <2>1, <2>2, NewerUnseen
  <2>4. PICK V : Explains(V)
    BY DEF Causal
  <2>5. ASSUME NEW j \in k + 1 .. Len(writes[a]), NEW i \in Known(t),
               j \in {trace[i].rf, trace[i].wr}, trace[i].op.obj = a
        PROVE  FALSE
    <3>1. i \in DOMAIN trace /\ Before(V[i], causality[t])
      BY <2>2, <2>4, KnownIs
    <3>2. PICK u : u = trace[i].by
      OBVIOUS
    <3>3. u \in Threads /\ V[i] \in Vectors
      <4>1. trace[i] \in Events
        BY <2>2, <3>1, LenProperties, ElementOfSeq
      <4>2. QED
        BY <2>4, <3>1, <3>2, <4>1 DEF Events, Explains
    <3>4. j > 0 /\ j \in 1 .. Len(writes[a]) /\ j \in Nat
      <4>1. Len(writes[a]) \in Nat /\ k \in 1 .. Len(writes[a])
        BY <2>2, <2>3, LenProperties, SMTT(30)
      <4>2. QED
        BY <4>1
    <3>5. writes[a][j].firstSeen[u] # Unseen /\ writes[a][j].firstSeen[u] <= V[i][u]
      BY <2>4, <2>5, <3>1, <3>2, <3>4 DEF Explains, Seen
    <3>6. writes[a][j].firstSeen[u] \in Nat
      <4>1. writes[a] \in Seq(Writes)
        BY <2>2
      <4>2. writes[a][j] \in Writes
        BY <3>4, <4>1, ElementOfSeq
      <4>3. QED
        BY <3>3, <3>5, <4>2 DEF Writes, Stamps
    <3>7. V[i][u] <= causality[t][u] /\ V[i][u] \in Nat /\ causality[t][u] \in Nat
      BY <2>2, <3>1, <3>3 DEF Before, Vectors
    <3>8. writes[a][j].firstSeen[u] <= causality[t][u]
      BY <3>5, <3>6, <3>7
    <3>9. IsSeenBy(writes[a][j].firstSeen, causality[t])
      BY <3>3, <3>5, <3>8 DEF IsSeenBy
    <3>10. QED
      BY <2>3, <3>9
  <2>6. QED
    BY <2>1, <2>3, <2>5 DEF Allowed
<1>2. QED
  BY <1>1, CausalHolds, PTL
===============================================================================
