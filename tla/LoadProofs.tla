------------------------------ MODULE LoadProofs ------------------------------
(***************************************************************************)
(* Where causality is exact (Precise), a load is offered every write it may *)
(* read.  There is a date for each event, the counter of its thread before  *)
(* it, and a clock that has reached the date of an event belongs to one who *)
(* knows of the event.  It is the converse of what SearchProofs shows, that *)
(* the clocks count all that their owners know of.                          *)
(***************************************************************************)
EXTENDS SearchProofs

-------------------------------------------------------------------------------
(* Where what the memory keeps comes from. *)

LEMMA JoinFrom ==
  ASSUME NEW v \in Vectors, NEW w \in Vectors, NEW u \in Threads
  PROVE  Join(v, w)[u] \in {v[u], w[u]}
BY DEF Join

\* What seq_cst() and sync_read() make a thread know was known to it, to the global
\* clock or to the clock that it reads.
LEMMA SeqCstFrom ==
  ASSUME NEW v \in Views, NEW u \in Threads
  PROVE  /\ SeqCst(v).own[u] \in {v.own[u], v.sc[u]}
         /\ SeqCst(v).sc[u] \in {v.own[u], v.sc[u]}
<1>1. v.own \in Vectors /\ v.sc \in Vectors
  BY DEF Views
<1>2. SeqCst(v) = [own |-> Join(v.own, v.sc), sc |-> Join(v.own, v.sc)]
  BY DEF SeqCst
<1>3. QED
  BY <1>1, <1>2, JoinFrom

LEMMA SyncReadFrom ==
  ASSUME NEW v \in Views, NEW sync \in Vectors, NEW ord, NEW u \in Threads
  PROVE  LET r == SyncRead(v, sync, ord) IN
         /\ \/ r.own[u] = v.own[u]
            \/ Acquires(ord) /\ r.own[u] = sync[u]
            \/ ord = "SeqCst" /\ r.own[u] = v.sc[u]
         /\ r.sc[u] = v.sc[u] \/ (ord = "SeqCst" /\ r.sc = r.own)
<1> DEFINE known == IF Acquires(ord) THEN [v EXCEPT !.own = Join(@, sync)] ELSE v
<1>1. v.own \in Vectors /\ v.sc \in Vectors
  BY DEF Views
<1>2. /\ known \in Views /\ known.sc = v.sc
      /\ known.own[u] = v.own[u] \/ (Acquires(ord) /\ known.own[u] = sync[u])
  <2>1. CASE Acquires(ord)
    <3>1. known = [own |-> Join(v.own, sync), sc |-> v.sc]
      BY <2>1 DEF Views
    <3>2. Join(v.own, sync) \in Vectors /\ Join(v.own, sync)[u] \in {v.own[u], sync[u]}
      BY <1>1, JoinIs, JoinFrom
    <3>3. QED
      BY <1>1, <2>1, <3>1, <3>2 DEF Views
  <2>2. CASE ~Acquires(ord)
    BY <2>2
  <2>3. QED
    BY <2>1, <2>2
<1>3. SyncRead(v, sync, ord) = IF ord = "SeqCst" THEN SeqCst(known) ELSE known
  BY DEF SyncRead
<1> HIDE DEF known
<1>4. CASE ord = "SeqCst"
  <2>1. /\ SeqCst(known).own[u] \in {known.own[u], known.sc[u]}
        /\ SeqCst(known).own = SeqCst(known).sc
    BY <1>2, SeqCstFrom, SeqCstIs
  <2>2. QED
    BY <1>2, <1>3, <1>4, <2>1
<1>5. CASE ord # "SeqCst"
  BY <1>2, <1>3, <1>5
<1>6. QED
  BY <1>4, <1>5

LEMMA AfterWriteFrom ==
  ASSUME NEW v \in Views, NEW ord, NEW u \in Threads
  PROVE  LET r == AfterWrite(v, ord) IN
         /\ r.own[u] = v.own[u] \/ (ord = "SeqCst" /\ r.own[u] = v.sc[u])
         /\ r.sc[u] = v.sc[u] \/ (ord = "SeqCst" /\ r.sc[u] = v.own[u])
<1>1. CASE ord = "SeqCst"
  BY <1>1, SeqCstFrom DEF AfterWrite
<1>2. CASE ord # "SeqCst"
  BY <1>2 DEF AfterWrite
<1>3. QED
  BY <1>1, <1>2

\* What thread t knows when an operation ends in which it knew v.
LEMMA ConcludeFrom ==
  ASSUME MemoryTypes, NEW t \in Threads, NEW v \in Views, Conclude(t, v)
  PROVE  /\ v.own[t] \in Nat /\ causality'[t][t] = v.own[t] + 1 /\ scCausality' = v.sc
         /\ \A u \in Threads \ {t} : causality'[u] = causality[u] /\ causality'[t][u] = v.own[u]
<1>1. v.own \in Vectors
  BY DEF Views
<1>2. causality' = [causality EXCEPT ![t] = Inc(v.own, t)] /\ scCausality' = v.sc
  BY DEF Conclude
<1>3. causality'[t] = [v.own EXCEPT ![t] = @ + 1]
  BY <1>2 DEF MemoryTypes, Inc
<1>4. QED
  BY <1>1, <1>2, <1>3 DEF MemoryTypes, Vectors

\* The writes xs of an atomic were the writes ws before an operation of t, which knew
\* that it was at d and which knows c, and read or wrote those of K.
From(ws, xs, t, d, c, ord, K) ==
  \A k \in 1 .. Len(xs) :
    /\ \/ k \in 1 .. Len(ws) /\ xs[k].sync = ws[k].sync
       \/ /\ k = Len(ws) + 1 /\ k \in K
          /\ \A u \in Threads : \/ xs[k].sync[u] = ws[k - 1].sync[u]
                                \/ Releases(ord) /\ xs[k].sync[u] = c[u]
    /\ \A u \in Threads : xs[k].firstSeen[u] # Unseen =>
         \/ k \in 1 .. Len(ws) /\ xs[k].firstSeen[u] = ws[k].firstSeen[u]
         \/ u = t /\ k \in K /\ d <= xs[k].firstSeen[u]

LEMMA TouchFrom ==
  ASSUME NEW ws \in Seq(Writes), NEW k \in 1 .. Len(ws), NEW t \in Threads, NEW c \in Vectors,
         NEW ord
  PROVE  LET xs == [ws EXCEPT ![k].firstSeen = Touched(@, t, c)] IN
         From(ws, xs, t, c[t], c, ord, {k})
<1> DEFINE new == [ws[k] EXCEPT !.firstSeen = Touched(@, t, c)]
           xs == [ws EXCEPT ![k] = new]
           seen == Touched(ws[k].firstSeen, t, c)
<1>1. Len(ws) \in Nat /\ DOMAIN ws = 1 .. Len(ws) /\ \A i \in 1 .. Len(ws) : ws[i] \in Writes
  BY LenProperties, ElementOfSeq
<1>2. ws[k] \in Writes /\ ws[k].firstSeen \in Stamps /\ c[t] \in Nat
  BY <1>1 DEF Writes, Vectors
<1>3. seen = [ws[k].firstSeen EXCEPT ![t] = IF ws[k].firstSeen[t] = Unseen THEN c[t]
                                            ELSE ws[k].firstSeen[t]]
  BY <1>2, TouchedIs
<1>4. /\ seen[t] = ws[k].firstSeen[t] \/ seen[t] = c[t]
      /\ \A u \in Threads : u # t => seen[u] = ws[k].firstSeen[u]
  BY <1>2, <1>3 DEF Stamps
<1>5. /\ new.sync = ws[k].sync /\ new.firstSeen = seen
  BY <1>2 DEF Writes
<1> HIDE DEF new, seen
<1>6. xs = [i \in 1 .. Len(ws) |-> IF i = k THEN new ELSE ws[i]]
  BY <1>1
<1>7. xs[k] = new /\ \A i \in 1 .. Len(ws) : i # k => xs[i] = ws[i]
  BY <1>6
<1>8. Len(xs) = Len(ws)
  BY <1>1, <1>6
<1> HIDE DEF xs
<1>9. ASSUME NEW i \in 1 .. Len(ws)
      PROVE  /\ xs[i].sync = ws[i].sync
             /\ \A u \in Threads : xs[i].firstSeen[u] # Unseen =>
                  \/ xs[i].firstSeen[u] = ws[i].firstSeen[u]
                  \/ u = t /\ i \in {k} /\ c[t] <= xs[i].firstSeen[u]
  <2>1. CASE i = k
    BY <1>2, <1>4, <1>5, <1>7, <2>1
  <2>2. CASE i # k
    BY <1>7, <2>2
  <2>3. QED
    BY <2>1, <2>2
<1>10. From(ws, xs, t, c[t], c, ord, {k})
  BY <1>8, <1>9 DEF From
<1>11. QED
  BY <1>10 DEF xs, new

\* A write that is added to ws, which are the writes old but for what was seen.
LEMMA WriteFrom ==
  ASSUME NEW old \in Seq(Writes), NEW ws \in Seq(Writes), ws # <<>>, Len(ws) = Len(old),
         NEW t \in Threads, NEW v \in Views, NEW val \in Nat, NEW ord, NEW d \in Nat,
         d <= v.own[t], NEW K, NEW b, From(old, ws, t, d, b, ord, K)
  PROVE  From(old, Write(ws, t, v, val, ord), t, d, v.own, ord, K \cup {Len(old) + 1})
<1> DEFINE n == Len(ws)
           xs == Write(ws, t, v, val, ord)
           added == [value |-> val, sync |-> SyncWrite(v, Last(ws).sync, ord),
                     seqCst |-> ord = "SeqCst", firstSeen |-> Touched(Never, t, v.own)]
<1>1. /\ n \in Nat \ {0} /\ xs \in Seq(Writes) /\ Len(xs) = n + 1
      /\ \A i \in 1 .. n : xs[i] = ws[i]
  BY WriteIs
<1>2. v.own \in Vectors /\ v.own[t] \in Nat
  BY DEF Views, Vectors
<1>3. xs[n + 1] = added
  BY AppendProperties DEF Write
<1>4. /\ ws[n] \in Writes /\ Last(ws) = ws[n] /\ ws[n].sync \in Vectors
      /\ ws[n].sync = old[n].sync
  <2>1. n \in 1 .. n
    BY <1>1
  <2>2. ws[n].sync = old[n].sync
    <3>1. n # Len(old) + 1
      BY <1>1
    <3>2. QED
      BY <2>1, <3>1 DEF From
  <2>3. ws[n] \in Writes
    BY <2>1, ElementOfSeq
  <2>4. QED
    BY <2>2, <2>3 DEF Last, Writes
<1>5. ASSUME NEW u \in Threads
      PROVE  \/ added.sync[u] = old[n].sync[u]
             \/ Releases(ord) /\ added.sync[u] = v.own[u]
  <2>1. added.sync = IF Releases(ord) THEN Join(ws[n].sync, v.own) ELSE ws[n].sync
    BY <1>4 DEF SyncWrite
  <2>2. Join(ws[n].sync, v.own)[u] \in {ws[n].sync[u], v.own[u]}
    BY <1>2, <1>4, JoinFrom
  <2> HIDE DEF added
  <2>3. QED
    BY <1>4, <2>1, <2>2
<1>6. \A u \in Threads : added.firstSeen[u] # Unseen => u = t /\ d <= added.firstSeen[u]
  <2>1. added.firstSeen = Touched(Never, t, v.own)
    OBVIOUS
  <2>2. QED
    BY <1>2, <2>1 DEF Touched, Never
<1> HIDE DEF xs, added
<1>7. ASSUME NEW k \in 1 .. Len(xs)
      PROVE  LET x == xs[k]  L == K \cup {Len(old) + 1} IN
             /\ \/ k \in 1 .. Len(old) /\ x.sync = old[k].sync
                \/ /\ k = Len(old) + 1 /\ k \in L
                   /\ \A u \in Threads : \/ x.sync[u] = old[k - 1].sync[u]
                                         \/ Releases(ord) /\ x.sync[u] = v.own[u]
             /\ \A u \in Threads : x.firstSeen[u] # Unseen =>
                  \/ k \in 1 .. Len(old) /\ x.firstSeen[u] = old[k].firstSeen[u]
                  \/ u = t /\ k \in L /\ d <= x.firstSeen[u]
  <2>1. k \in 1 .. n \/ (k = n + 1 /\ k - 1 = n)
    BY <1>1
  <2>2. CASE k \in 1 .. n
    <3>1. xs[k] = ws[k] /\ k \in 1 .. Len(old) /\ k # Len(old) + 1
      BY <1>1, <2>2
    <3>2. ws[k].sync = old[k].sync
      BY <2>2, <3>1 DEF From
    <3>3. \A u \in Threads : ws[k].firstSeen[u] # Unseen =>
            \/ k \in 1 .. Len(old) /\ ws[k].firstSeen[u] = old[k].firstSeen[u]
            \/ u = t /\ k \in K /\ d <= ws[k].firstSeen[u]
      BY <2>2 DEF From
    <3>4. QED
      BY <3>1, <3>2, <3>3
  <2>3. CASE k = n + 1 /\ k - 1 = n
    <3>1. xs[k] = added /\ k = Len(old) + 1
      BY <1>3, <2>3
    <3>2. QED
      BY <1>5, <1>6, <2>3, <3>1
  <2>4. QED
    BY <2>1, <2>2, <2>3
<1>8. From(old, xs, t, d, v.own, ord, K \cup {Len(old) + 1})
  BY <1>7 DEF From
<1>9. QED
  BY <1>8 DEF xs

-------------------------------------------------------------------------------
(* The order of events, as a function P that grows with the history: P[j] are the *)
(* events before event j.                                                         *)

Follows(P) ==
  /\ P \in [DOMAIN trace -> SUBSET DOMAIN trace]
  /\ \A j \in DOMAIN trace :
       P[j] = {j} \cup UNION {P[i] : i \in {k \in 1 .. j - 1 : Directly(k, j)}}

\* ... and those before what t does next.
Knows(P, t) == UNION {P[i] : i \in {k \in DOMAIN trace : Tells(k, t, Len(trace))}}

\* Only a later write could break a release sequence that is read from.
Newest(e) ==
  \A j \in DOMAIN trace : e.wr > 0 /\ trace[j].op.obj = e.op.obj => trace[j].rf < e.wr

LEMMA TellsStays ==
  ASSUME trace \in Seq(Events), NEW e \in Events, trace' = Append(trace, e),
         NEW n, n = Len(trace), NEW u
  PROVE  /\ \A i \in 1 .. n, m \in 0 .. n : Tells(i, u, m) => Tells(i, u, m)'
         /\ \A i \in 1 .. n : Tells(i, u, n) => Tells(i, u, n + 1)'
         /\ \A i \in 1 .. n : IsSeqCst(trace[i]) /\ IsSeqCst(e) /\ e.by = u => Tells(i, u, n + 1)'
         /\ e.by = u \/ Starts(e, u) => Tells(n + 1, u, n + 1)'
<1>1. /\ n \in Nat /\ trace'[n + 1] = e
      /\ \A i \in 1 .. n : trace'[i] = trace[i]
  BY TraceGrows
<1>2. ASSUME NEW i \in 1 .. n, NEW m \in 0 .. n, Tells(i, u, m)
      PROVE  Tells(i, u, m)' /\ Tells(i, u, m + 1)'
  <2>1. \A k \in i + 1 .. m : k \in 1 .. n /\ k \in i + 1 .. m + 1
    BY <1>1
  <2>2. QED
    BY <1>1, <1>2, <2>1 DEF Tells, IsSeqCst
<1>3. ASSUME NEW i \in 1 .. n, IsSeqCst(trace[i]), IsSeqCst(e), e.by = u
      PROVE  Tells(i, u, n + 1)'
  <2>1. n + 1 \in i + 1 .. n + 1
    BY <1>1
  <2>2. QED
    BY <1>1, <1>3, <2>1 DEF Tells, IsSeqCst
<1>4. e.by = u \/ Starts(e, u) => Tells(n + 1, u, n + 1)'
  BY <1>1 DEF Tells, Starts
<1>5. n \in 0 .. n
  BY <1>1
<1>6. QED
  BY <1>2, <1>3, <1>4, <1>5

LEMMA SynchronizesStays ==
  ASSUME trace \in Seq(Events), NEW e \in Events, trace' = Append(trace, e), Newest(e),
         NEW i \in DOMAIN trace, NEW j \in DOMAIN trace, Synchronizes(trace[i], trace[j])
  PROVE  Synchronizes(trace[i], trace[j])'
<1>1. PICK n : n = Len(trace)
  OBVIOUS
<1>2. /\ n \in Nat /\ DOMAIN trace = 1 .. n /\ DOMAIN trace' = 1 .. n + 1
      /\ trace'[n + 1] = e /\ \A k \in 1 .. n : trace'[k] = trace[k] /\ trace[k] \in Events
  BY <1>1, TraceGrows
<1>3. trace'[i] = trace[i] /\ trace'[j] = trace[j]
  BY <1>2
<1>4. PICK x, y : x = trace[i] /\ y = trace[j]
  OBVIOUS
<1>5. x.wr \in Nat /\ y.rf \in Nat /\ e.wr \in Nat /\ Synchronizes(x, y)
  BY <1>2, <1>4 DEF Events
<1>6. ~(e.wr \in x.wr + 1 .. y.rf /\ e.op.obj = x.op.obj)
  <2>1. SUFFICES ASSUME e.wr \in x.wr + 1 .. y.rf, e.op.obj = x.op.obj PROVE FALSE
    OBVIOUS
  <2>2. e.wr > 0 /\ y.op.obj = e.op.obj
    BY <1>5, <2>1 DEF Synchronizes
  <2>3. y.rf < e.wr
    BY <1>4, <2>2 DEF Newest
  <2>4. QED
    BY <1>5, <2>1, <2>3
<1>7. \A k \in 1 .. n + 1 : k \in 1 .. n \/ k = n + 1
  BY <1>2
<1>8. \A k \in 1 .. n + 1 : trace'[k].wr \in x.wr + 1 .. y.rf /\ trace'[k].op.obj = x.op.obj =>
        trace'[k].rf > 0 \/ trace'[k].by = x.by
  BY <1>2, <1>5, <1>6, <1>7 DEF Synchronizes
<1>9. Synchronizes(x, y)'
  BY <1>2, <1>5, <1>8 DEF Synchronizes
<1>10. QED
  BY <1>3, <1>4, <1>9 DEF Synchronizes

LEMMA DirectlyStays ==
  ASSUME trace \in Seq(Events), NEW e \in Events, trace' = Append(trace, e), Newest(e),
         NEW n, n = Len(trace)
  PROVE  /\ \A i, j \in 1 .. n : i < j => (Directly(i, j)' <=> Directly(i, j))
         /\ \A i \in 1 .. n : Tells(i, e.by, n) => Directly(i, n + 1)'
         /\ \A i \in 1 .. n : IsSeqCst(trace[i]) /\ IsSeqCst(e) /\ e.op.kind # "store"
              => Directly(i, n + 1)'
<1>1. /\ n \in Nat /\ trace'[n + 1] = e /\ DOMAIN trace = 1 .. n
      /\ \A i \in 1 .. n : trace'[i] = trace[i]
  BY TraceGrows
<1>2. ASSUME NEW i \in 1 .. n, NEW j \in 1 .. n, i < j, Directly(i, j)
      PROVE  Directly(i, j)'
  <2>1. PICK m : m = IF trace[j].op.kind = "store" THEN j - 1 ELSE j
    OBVIOUS
  <2>2. m \in 0 .. n
    BY <1>1, <2>1
  <2>3. trace'[i] = trace[i] /\ trace'[j] = trace[j]
    BY <1>1
  <2>4. PICK u : u = trace[j].by
    OBVIOUS
  <2>5. Tells(i, u, m) \/ Synchronizes(trace[i], trace[j])
    BY <1>2, <2>1, <2>4 DEF Directly
  <2>6. Tells(i, u, m)' \/ Synchronizes(trace[i], trace[j])'
    BY <1>1, <2>2, <2>5, TellsStays, SynchronizesStays
  <2>7. QED
    BY <2>1, <2>3, <2>4, <2>6 DEF Directly
<1>3. \A i, j \in 1 .. n : i < j /\ Directly(i, j)' => Directly(i, j)
  BY DirectlyGrows
<1>4. ASSUME NEW i \in 1 .. n,
             \/ Tells(i, e.by, n)
             \/ IsSeqCst(trace[i]) /\ IsSeqCst(e) /\ e.op.kind # "store"
      PROVE  Directly(i, n + 1)'
  <2>1. (n + 1) - 1 = n /\ n \in 0 .. n
    BY <1>1
  <2>2. PICK u : u = e.by
    OBVIOUS
  <2>3. Tells(i, u, n) => Tells(i, u, n)' /\ Tells(i, u, n + 1)'
    BY <2>1, TellsStays
  <2>4. IsSeqCst(trace[i]) /\ IsSeqCst(e) => Tells(i, u, n + 1)'
    BY <2>2, TellsStays
  <2>5. (Tells(i, u, n)' /\ Tells(i, u, n + 1)') \/ (e.op.kind # "store" /\ Tells(i, u, n + 1)')
    BY <1>4, <2>2, <2>3, <2>4
  <2>6. QED
    BY <1>1, <2>1, <2>2, <2>5 DEF Directly
<1>5. QED
  BY <1>2, <1>3, <1>4

\* P goes on with the events before the new one.
Onto(P, n) ==
  [j \in 1 .. n + 1 |-> IF j = n + 1 THEN {j} \cup UNION {P[i] : i \in {k \in 1 .. n : Directly(k, j)'}}
                        ELSE P[j]]

LEMMA OrderGrows ==
  ASSUME trace \in Seq(Events), NEW e \in Events, trace' = Append(trace, e), Newest(e),
         NEW n, n = Len(trace), NEW P, Follows(P), NEW Q, Q = Onto(P, n)
  PROVE  /\ Follows(Q)'
         /\ \A j \in 1 .. n : Q[j] = P[j]
         /\ n + 1 \in Q[n + 1]
         /\ \A i \in 1 .. n : Directly(i, n + 1)' => P[i] \subseteq Q[n + 1]
         /\ Knows(P, e.by) \subseteq Q[n + 1]
         /\ \A i \in 1 .. n : trace[i].by = e.by => i \in Q[n + 1]
         /\ \A u : Knows(P, u) \subseteq Knows(Q, u)'
         /\ \A u : e.by = u \/ Starts(e, u) => Q[n + 1] \subseteq Knows(Q, u)'
         /\ \A i \in 1 .. n : IsSeqCst(trace[i]) /\ IsSeqCst(e) => P[i] \subseteq Knows(Q, e.by)'
<1>1. /\ n \in Nat /\ DOMAIN trace = 1 .. n /\ DOMAIN trace' = 1 .. n + 1
      /\ Len(trace') = n + 1 /\ trace'[n + 1] = e
      /\ \A i \in 1 .. n : trace'[i] = trace[i] /\ trace[i] \in Events
  BY TraceGrows
<1>2. /\ P \in [1 .. n -> SUBSET (1 .. n)]
      /\ \A j \in 1 .. n : P[j] = {j} \cup UNION {P[i] : i \in {k \in 1 .. j - 1 : Directly(k, j)}}
  BY <1>1 DEF Follows
<1>3. PICK D : D = {k \in 1 .. n : Directly(k, n + 1)'}
  OBVIOUS
<1>4. /\ \A j \in 1 .. n : Q[j] = P[j]
      /\ Q[n + 1] = {n + 1} \cup UNION {P[i] : i \in D}
      /\ DOMAIN Q = 1 .. n + 1
      /\ \A j \in 1 .. n + 1 : j \in 1 .. n \/ j = n + 1
  <2>1. n + 1 \in 1 .. n + 1 /\ \A j \in 1 .. n : j \in 1 .. n + 1 /\ j # n + 1
    BY <1>1
  <2>2. \A j \in 1 .. n + 1 : j \in 1 .. n \/ j = n + 1
    BY <1>1
  <2>3. QED
    BY <1>3, <2>1, <2>2 DEF Onto
<1>5. Q \in [1 .. n + 1 -> SUBSET (1 .. n + 1)]
  <2>1. \A j \in 1 .. n : P[j] \subseteq 1 .. n + 1
    BY <1>1, <1>2
  <2>2. Q[n + 1] \subseteq 1 .. n + 1
    BY <1>1, <1>3, <1>4, <2>1
  <2>3. Q = [j \in 1 .. n + 1 |-> Q[j]]
    BY DEF Onto
  <2>4. QED
    BY <1>4, <2>1, <2>2, <2>3
<1>6. ASSUME NEW j \in 1 .. n + 1
      PROVE  Q[j] = {j} \cup UNION {Q[i] : i \in {k \in 1 .. j - 1 : Directly(k, j)'}}
  <2>1. CASE j \in 1 .. n
    <3>1. \A k \in 1 .. j - 1 : k \in 1 .. n /\ (Directly(k, j)' <=> Directly(k, j)) /\ Q[k] = P[k]
      <4>1. \A k \in 1 .. j - 1 : k \in 1 .. n /\ k < j
        BY <1>1, <2>1
      <4>2. QED
        BY <1>4, <2>1, <4>1, DirectlyStays
    <3>2. {k \in 1 .. j - 1 : Directly(k, j)'} = {k \in 1 .. j - 1 : Directly(k, j)}
      BY <3>1
    <3>3. Q[j] = P[j]
      BY <1>4, <2>1
    <3>4. P[j] = {j} \cup UNION {P[i] : i \in {k \in 1 .. j - 1 : Directly(k, j)}}
      BY <1>2, <2>1
    <3>5. PICK E : E = {k \in 1 .. j - 1 : Directly(k, j)}
      OBVIOUS
    <3>6. {Q[i] : i \in E} = {P[i] : i \in E}
      BY <3>1, <3>5
    <3>7. QED
      BY <3>2, <3>3, <3>4, <3>5, <3>6
  <2>2. CASE j = n + 1
    <3>1. j - 1 = n
      BY <1>1, <2>2
    <3>2. {k \in 1 .. j - 1 : Directly(k, j)'} = D
      BY <1>3, <2>2, <3>1
    <3>3. {Q[i] : i \in D} = {P[i] : i \in D}
      BY <1>3, <1>4
    <3>4. QED
      BY <1>4, <2>2, <3>2, <3>3
  <2>3. QED
    BY <1>4, <2>1, <2>2
<1>7. Follows(Q)'
  BY <1>1, <1>5, <1>6 DEF Follows
<1>8. \A i \in 1 .. n : Directly(i, n + 1)' => P[i] \subseteq Q[n + 1]
  BY <1>3, <1>4
<1>9. \A i \in 1 .. n : i \in P[i]
  BY <1>2
<1>10. Knows(P, e.by) \subseteq Q[n + 1]
  <2> SUFFICES ASSUME NEW i \in Knows(P, e.by) PROVE i \in Q[n + 1]
    OBVIOUS
  <2>1. PICK k \in 1 .. n : Tells(k, e.by, n) /\ i \in P[k]
    BY <1>1 DEF Knows
  <2>2. Directly(k, n + 1)'
    BY <2>1, DirectlyStays
  <2>3. QED
    BY <1>8, <2>1, <2>2
<1>11. ASSUME NEW i \in 1 .. n, trace[i].by = e.by
       PROVE  i \in Q[n + 1]
  <2>1. Tells(i, e.by, n)
    BY <1>11 DEF Tells
  <2>2. Directly(i, n + 1)'
    BY <2>1, DirectlyStays
  <2>3. QED
    BY <1>8, <1>9, <2>2
<1>12. \A u, k : k \in 1 .. n + 1 /\ Tells(k, u, n + 1)' => Q[k] \subseteq Knows(Q, u)'
  BY <1>1 DEF Knows
<1>13. \A u, k : k \in 1 .. n /\ Tells(k, u, n + 1)' => P[k] \subseteq Knows(Q, u)'
  <2>1. \A k \in 1 .. n : k \in 1 .. n + 1
    BY <1>1
  <2>2. QED
    BY <1>4, <1>12, <2>1
<1>14. ASSUME NEW u, NEW i \in Knows(P, u)
       PROVE  i \in Knows(Q, u)'
  <2>1. PICK k \in 1 .. n : Tells(k, u, n) /\ i \in P[k]
    BY <1>1, <1>14 DEF Knows
  <2>2. Tells(k, u, n + 1)'
    BY <2>1, TellsStays
  <2>3. QED
    BY <1>13, <2>1, <2>2
<1>15. ASSUME NEW u, e.by = u \/ Starts(e, u)
       PROVE  Q[n + 1] \subseteq Knows(Q, u)'
  <2>1. Tells(n + 1, u, n + 1)'
    BY <1>15, TellsStays
  <2>2. n + 1 \in 1 .. n + 1
    BY <1>1
  <2>3. QED
    BY <1>12, <2>1, <2>2
<1>16. ASSUME NEW i \in 1 .. n, IsSeqCst(trace[i]), IsSeqCst(e)
       PROVE  P[i] \subseteq Knows(Q, e.by)'
  <2>1. Tells(i, e.by, n + 1)'
    <3>1. PICK u : u = e.by
      OBVIOUS
    <3>2. Tells(i, u, n + 1)'
      BY <1>16, <3>1, TellsStays
    <3>3. QED
      BY <3>1, <3>2
  <2>2. QED
    BY <1>13, <2>1
<1>17. QED
  BY <1>4, <1>7, <1>8, <1>10, <1>11, <1>14, <1>15, <1>16

-------------------------------------------------------------------------------
(* Where the engine's causality is exact, a clock counts an operation only if the   *)
(* event of the operation is one that it stands for.                               *)

\* Of a thread's counter the others have only earlier values: it is incremented when an
\* operation has handed it on.
Below(x, u) == x = 0 \/ x < causality[u][u]
Ahead ==
  \A u \in Threads \ {Root} :
    /\ u \in Created => causality[u][u] > 0
    /\ \A w \in Threads \ {u} : Below(causality[w][u], u)
    /\ Below(scCausality[u], u)
    /\ \A a \in Atomics : \A k \in 1 .. Len(writes[a]) : Below(writes[a][k].sync[u], u)

\* The events are operations of the program.
Drawn ==
  \A i \in DOMAIN trace : /\ trace[i].op \in ToSet(program[trace[i].by])
                          /\ trace[i].wr > 0 => trace[i].op.kind \in Writing

\* Write k of a is in the release sequence that event h heads.
Heads(h, a, k) ==
  /\ trace[h].wr \in 1 .. k /\ trace[h].op.obj = a /\ Releases(trace[h].op.ord)
  /\ \A i \in DOMAIN trace :
       trace[i].wr \in trace[h].wr + 1 .. k /\ trace[i].op.obj = a
         => trace[i].rf > 0 \/ trace[i].by = trace[h].by

\* S[i] is the counter of the thread of event i before it.  The clock v counts event i.
Counts(S, v, i) == trace[i].by # Root /\ S[i] <= v[trace[i].by]

Heard(S, P) ==
  \A t \in Threads : \A i \in DOMAIN trace : Counts(S, causality[t], i) => i \in Knows(P, t)
Agreed(S, P) ==
  \A i \in DOMAIN trace : Counts(S, scCausality, i) =>
    \E h \in DOMAIN trace : IsSeqCst(trace[h]) /\ i \in P[h]
Carried(S, P) ==
  \A a \in Atomics : \A k \in 1 .. Len(writes[a]), i \in DOMAIN trace :
    Counts(S, writes[a][k].sync, i) => \E h \in DOMAIN trace : Heads(h, a, k) /\ i \in P[h]
Noted(S) ==
  \A a \in Atomics, u \in Threads : \A k \in 1 .. Len(writes[a]) :
    k > 1 /\ writes[a][k].firstSeen[u] # Unseen =>
      \E i \in DOMAIN trace :
        /\ u # Root /\ trace[i].by = u /\ trace[i].op.obj = a /\ k \in {trace[i].rf, trace[i].wr}
        /\ S[i] <= writes[a][k].firstSeen[u]

Dated(S, P) ==
  /\ S \in [DOMAIN trace -> Nat] /\ \A i \in DOMAIN trace : trace[i].by # Root => S[i] > 0
  /\ Follows(P) /\ Heard(S, P) /\ Agreed(S, P) /\ Carried(S, P) /\ Noted(S)

Exact == Precise => Ahead /\ Drawn /\ \E S, P : Dated(S, P)

\* Event e is recorded: an access to an atomic in which thread e.by knows c, and what the
\* memory keeps of it.
Accessed(e, c) ==
  LET t == e.by  a == e.op.obj  s == causality[e.by][e.by] IN
  /\ e \in Events /\ trace' = Append(trace, e) /\ MemoryTypes' /\ program' = program
  /\ Created' \subseteq Created /\ t \in Created \ {Root} /\ e.op \in ToSet(program[t])
  /\ a \in Atomics /\ e.rf + e.wr > 0
  /\ e.rf > 0 => e.rf \in 1 .. Len(writes[a])
  /\ e.wr > 0 => /\ e.wr = Len(writes[a]) + 1 /\ e.op.kind \in Writing
                 /\ e.rf > 0 \/ e.op.kind = "store"
  /\ c \in Vectors /\ s <= c[t] /\ c[t] < causality'[t][t]
  /\ \A u \in Threads :
       /\ \/ c[u] = causality[t][u]
          \/ e.rf > 0 /\ Acquires(e.op.ord) /\ c[u] = writes[a][e.rf].sync[u]
          \/ IsSeqCst(e) /\ e.op.kind # "store" /\ c[u] = scCausality[u]
       /\ scCausality'[u] = scCausality[u] \/ (IsSeqCst(e) /\ scCausality'[u] = c[u])
  /\ \A u \in Threads \ {t} :
       /\ causality'[u] = causality[u]
       /\ causality'[t][u] = c[u] \/ (IsSeqCst(e) /\ causality'[t][u] = scCausality[u])
  /\ From(writes[a], writes'[a], t, s, c, e.op.ord, {e.rf, e.wr})
  /\ \A b \in Atomics : b # a => writes'[b] = writes[b]

\* Event e is recorded: a get or set, or the root spawns a thread.
Apart(e) ==
  LET t == e.by IN
  /\ e \in Events /\ trace' = Append(trace, e) /\ MemoryTypes' /\ program' = program
  /\ UNCHANGED <<writes, scCausality>> /\ e.op \in ToSet(program[t])
  /\ e.rf = 0 /\ e.wr = 0
  /\ \/ t \in Created \ {Root} /\ causality' = causality /\ Created' \subseteq Created
     \/ /\ t = Root /\ Created' \subseteq Created \cup {e.val}
        /\ \A w \in Threads :
             /\ causality[w][w] <= causality'[w][w]
             /\ Starts(e, w) => causality'[w][w] > 0
             /\ \A u \in Threads \ {w} :
                  \/ causality'[w][u] = causality[w][u]
                  \/ Starts(e, w) /\ causality'[w][u] = causality[Root][u]
        /\ \A w \in Threads : w = e.val => Starts(e, w)

-------------------------------------------------------------------------------
LEMMA StoresAlone ==
  ASSUME Precise, NEW t \in Threads, NEW u \in Threads,
         NEW o \in ToSet(program[t]), NEW p \in ToSet(program[u]),
         o.kind = "store", p.kind \in Writing, o.obj = p.obj
  PROVE  t = u
<1>1. PICK i \in DOMAIN program[t] : o = program[t][i]
  BY DEF ToSet
<1>2. PICK j \in DOMAIN program[u] : p = program[u][j]
  BY DEF ToSet
<1>3. QED
  BY <1>1, <1>2 DEF Precise

\* The write is of an atomic, and the clocks are vectors.
LEMMA SyncIs ==
  ASSUME MemoryTypes, NEW a \in Atomics, NEW k \in 1 .. Len(writes[a])
  PROVE  /\ writes[a][k].sync \in Vectors
         /\ \A u \in Threads : writes[a][k].firstSeen[u] \in Nat \cup {Unseen}
<1>1. writes[a] \in Seq(Writes)
  BY DEF MemoryTypes
<1>2. writes[a][k] \in Writes
  BY <1>1, ElementOfSeq
<1>3. QED
  BY <1>2 DEF Writes, Stamps

\* One more write breaks no release sequence up to the writes there are.
LEMMA HeadsStay ==
  ASSUME trace \in Seq(Events), NEW e \in Events, trace' = Append(trace, e),
         NEW h \in DOMAIN trace, NEW a, NEW k \in Nat, Heads(h, a, k),
         e.wr > k \/ e.op.obj # a \/ e.rf > 0 \/ e.by = trace[h].by \/ e.wr = 0
  PROVE  Heads(h, a, k)'
<1>1. PICK n : n = Len(trace)
  OBVIOUS
<1>2. /\ n \in Nat /\ DOMAIN trace = 1 .. n /\ DOMAIN trace' = 1 .. n + 1
      /\ trace'[n + 1] = e /\ \A i \in 1 .. n : trace'[i] = trace[i] /\ trace[i] \in Events
  BY <1>1, TraceGrows
<1>3. PICK x : x = trace[h] /\ trace'[h] = x
  BY <1>2
<1>4. x.wr \in Nat /\ e.wr \in Nat
  BY <1>2, <1>3 DEF Events
<1>5. \A i \in 1 .. n + 1 : i \in 1 .. n \/ i = n + 1
  BY <1>2
<1>6. /\ x.wr \in 1 .. k /\ x.op.obj = a /\ Releases(x.op.ord)
      /\ \A i \in 1 .. n : trace[i].wr \in x.wr + 1 .. k /\ trace[i].op.obj = a
           => trace[i].rf > 0 \/ trace[i].by = x.by
  BY <1>2, <1>3 DEF Heads
<1>7. e.wr \in x.wr + 1 .. k /\ e.op.obj = a => e.rf > 0 \/ e.by = x.by
  BY <1>3, <1>4
<1>8. \A i \in 1 .. n + 1 : trace'[i].wr \in x.wr + 1 .. k /\ trace'[i].op.obj = a
           => trace'[i].rf > 0 \/ trace'[i].by = x.by
  BY <1>2, <1>5, <1>6, <1>7
<1>9. QED
  BY <1>2, <1>3, <1>6, <1>8 DEF Heads

\* The writes that the events of the history read and made are there.
LEMMA ReadsAreOld ==
  ASSUME Causal, NEW e, e.wr > 0 => /\ e.op.obj \in Atomics /\ Len(writes[e.op.obj]) \in Nat
                                     /\ e.wr = Len(writes[e.op.obj]) + 1
  PROVE  Newest(e)
<1> SUFFICES ASSUME NEW j \in DOMAIN trace, e.wr > 0, trace[j].op.obj = e.op.obj
             PROVE  trace[j].rf < e.wr
  BY DEF Newest
<1>1. PICK V : Explains(V)
  BY DEF Causal
<1>2. trace[j] \in Events
  BY ElementOfSeq, LenProperties DEF Causal
<1>3. trace[j].rf \in Nat
  BY <1>2, SMTT(30) DEF Events
<1>4. trace[j].rf > 0 => trace[j].rf \in 1 .. Len(writes[e.op.obj])
  BY <1>1 DEF Explains, Seen
<1>5. QED
  BY <1>3, <1>4

LEMMA AccessedKeeps ==
  ASSUME Precise, Ahead, Drawn, Causal, MemoryTypes, Histories,
         NEW S, NEW P, Dated(S, P), NEW e, NEW c, Accessed(e, c)
  PROVE  Ahead' /\ Drawn' /\ \E T, Q : Dated(T, Q)'
<1>0. PICK t, a, n, s : t = e.by /\ a = e.op.obj /\ n = Len(trace) /\ s = causality[t][t]
  OBVIOUS
<1>1. /\ e \in Events /\ trace' = Append(trace, e) /\ MemoryTypes' /\ program' = program
      /\ Created' \subseteq Created /\ t \in Created \ {Root} /\ e.op \in ToSet(program[t])
      /\ a \in Atomics /\ e.rf + e.wr > 0
      /\ e.rf > 0 => e.rf \in 1 .. Len(writes[a])
      /\ e.wr > 0 => /\ e.wr = Len(writes[a]) + 1 /\ e.op.kind \in Writing
                     /\ e.rf > 0 \/ e.op.kind = "store"
      /\ c \in Vectors /\ s <= c[t] /\ c[t] < causality'[t][t]
  BY <1>0 DEF Accessed
<1>2. ASSUME NEW u \in Threads
      PROVE  /\ \/ c[u] = causality[t][u]
                \/ e.rf > 0 /\ Acquires(e.op.ord) /\ c[u] = writes[a][e.rf].sync[u]
                \/ IsSeqCst(e) /\ e.op.kind # "store" /\ c[u] = scCausality[u]
             /\ scCausality'[u] = scCausality[u] \/ (IsSeqCst(e) /\ scCausality'[u] = c[u])
  BY <1>0 DEF Accessed
<1>3. ASSUME NEW u \in Threads \ {t}
      PROVE  /\ causality'[u] = causality[u]
             /\ causality'[t][u] = c[u] \/ (IsSeqCst(e) /\ causality'[t][u] = scCausality[u])
  BY <1>0 DEF Accessed
<1>4. /\ n \in Nat /\ DOMAIN trace = 1 .. n /\ DOMAIN trace' = 1 .. n + 1
      /\ Len(trace') = n + 1 /\ trace'[n + 1] = e
      /\ \A i \in 1 .. n : trace'[i] = trace[i] /\ trace[i] \in Events
      /\ \A i \in 1 .. n + 1 : i \in 1 .. n \/ i = n + 1
      /\ trace \in Seq(Events)
  <2>1. trace \in Seq(Events)
    BY DEF Causal
  <2>2. QED
    BY <1>0, <1>1, <2>1, TraceGrows
<1>5. t \in Threads /\ e.rf \in Nat /\ e.wr \in Nat
  BY <1>0, <1>1 DEF Events
<1>6. \A b \in Atomics : Len(writes[b]) \in Nat
  BY LenProperties DEF MemoryTypes
<1>7. Newest(e)
  BY <1>0, <1>1, <1>6, ReadsAreOld
<1>8. Follows(P) /\ Heard(S, P) /\ Agreed(S, P) /\ Carried(S, P) /\ Noted(S)
      /\ S \in [1 .. n -> Nat] /\ \A i \in 1 .. n : trace[i].by # Root => S[i] > 0
  BY <1>4 DEF Dated
<1>9. PICK Q : Q = Onto(P, n)
  OBVIOUS
<1>10. /\ Follows(Q)' /\ n + 1 \in Q[n + 1]
       /\ \A j \in 1 .. n : Q[j] = P[j]
       /\ \A i \in 1 .. n : Directly(i, n + 1)' => P[i] \subseteq Q[n + 1]
       /\ Knows(P, t) \subseteq Q[n + 1]
       /\ \A i \in 1 .. n : trace[i].by = t => i \in Q[n + 1]
       /\ \A u : Knows(P, u) \subseteq Knows(Q, u)'
       /\ Q[n + 1] \subseteq Knows(Q, t)'
       /\ \A i \in 1 .. n : IsSeqCst(trace[i]) /\ IsSeqCst(e) => P[i] \subseteq Knows(Q, t)'
  BY <1>0, <1>1, <1>4, <1>7, <1>8, <1>9, OrderGrows, SMTT(30)
<1>11. /\ \A u \in Threads : causality[u] \in Vectors /\ causality'[u] \in Vectors
       /\ scCausality \in Vectors /\ scCausality' \in Vectors
  BY <1>1 DEF MemoryTypes
<1>12. s \in Nat /\ s > 0
  BY <1>0, <1>1, <1>5, <1>11 DEF Ahead, Vectors
<1>13. PICK T : T = [i \in 1 .. n + 1 |-> IF i = n + 1 THEN s ELSE S[i]]
  OBVIOUS
<1>14. /\ T \in [1 .. n + 1 -> Nat] /\ T[n + 1] = s
       /\ \A i \in 1 .. n : T[i] = S[i] /\ i # n + 1
       /\ \A i \in 1 .. n + 1 : trace'[i].by # Root => T[i] > 0
  BY <1>0, <1>4, <1>8, <1>12, <1>13
<1>15. \A i \in 1 .. n : trace[i].by \in Threads
  BY <1>4 DEF Events
\* No clock but that of t counts the event yet.
<1>16. /\ \A u \in Threads \ {t} : ~(s <= causality[u][t])
       /\ ~(s <= scCausality[t])
       /\ \A b \in Atomics : \A k \in 1 .. Len(writes[b]) : ~(s <= writes[b][k].sync[t])
  <2>1. \A x \in Nat : Below(x, t) => ~(s <= x)
    BY <1>0, <1>12 DEF Below
  <2>2. \A u \in Threads \ {t} : causality[u][t] \in Nat
    BY <1>5, <1>11 DEF Vectors
  <2>3. scCausality[t] \in Nat
    BY <1>5, <1>11 DEF Vectors
  <2>4. \A b \in Atomics : \A k \in 1 .. Len(writes[b]) : writes[b][k].sync[t] \in Nat
    BY <1>5, SyncIs DEF Vectors
  <2>5. /\ \A u \in Threads \ {t} : Below(causality[u][t], t)
        /\ Below(scCausality[t], t)
        /\ \A b \in Atomics : \A k \in 1 .. Len(writes[b]) : Below(writes[b][k].sync[t], t)
    BY <1>1, <1>5 DEF Ahead
  <2>6. QED
    BY <2>1, <2>2, <2>3, <2>4, <2>5
\* What is counted by the clock of write k of b, up to now, is before the head of a release
\* sequence that goes up to it.
<1>17. ASSUME NEW b \in Atomics, NEW k \in 1 .. Len(writes[b]), NEW i \in 1 .. n + 1,
              trace'[i].by # Root, T[i] <= writes[b][k].sync[trace'[i].by]
       PROVE  \E h \in 1 .. n : Heads(h, b, k) /\ i \in P[h]
  <2>1. i \in 1 .. n
    <3>1. i # n + 1
      BY <1>0, <1>4, <1>14, <1>16, <1>17
    <3>2. QED
      BY <1>4, <3>1
  <2>2. Counts(S, writes[b][k].sync, i)
    BY <1>4, <1>14, <1>17, <2>1 DEF Counts
  <2>3. QED
    BY <1>4, <1>8, <2>1, <2>2 DEF Carried
<1>18. ASSUME NEW i \in 1 .. n + 1, trace'[i].by # Root, T[i] <= scCausality[trace'[i].by]
       PROVE  \E h \in 1 .. n : IsSeqCst(trace[h]) /\ i \in P[h]
  <2>1. i \in 1 .. n
    <3>1. i # n + 1
      BY <1>0, <1>4, <1>14, <1>16, <1>18
    <3>2. QED
      BY <1>4, <3>1
  <2>2. Counts(S, scCausality, i)
    BY <1>4, <1>14, <1>18, <2>1 DEF Counts
  <2>3. QED
    BY <1>4, <1>8, <2>1, <2>2 DEF Agreed
\* What the thread knows in the event is before it.
<1>19. ASSUME NEW i \in 1 .. n + 1, trace'[i].by # Root, T[i] <= c[trace'[i].by]
       PROVE  i \in Q[n + 1]
  <2>1. CASE i = n + 1
    BY <1>10, <2>1
  <2>2. CASE i \in 1 .. n
    <3>1. PICK u : u = trace[i].by
      OBVIOUS
    <3>2. u \in Threads /\ u # Root /\ trace'[i].by = u /\ T[i] = S[i]
      BY <1>4, <1>14, <1>15, <1>19, <2>2, <3>1
    <3>3. \/ c[u] = causality[t][u]
          \/ e.rf > 0 /\ Acquires(e.op.ord) /\ c[u] = writes[a][e.rf].sync[u]
          \/ IsSeqCst(e) /\ e.op.kind # "store" /\ c[u] = scCausality[u]
      BY <1>2, <3>2
    <3>4. CASE c[u] = causality[t][u]
      <4>1. Counts(S, causality[t], i)
        BY <1>19, <3>1, <3>2, <3>4 DEF Counts
      <4>2. i \in Knows(P, t)
        BY <1>4, <1>5, <1>8, <2>2, <4>1 DEF Heard
      <4>3. QED
        BY <1>10, <4>2
    <3>5. CASE e.rf > 0 /\ Acquires(e.op.ord) /\ c[u] = writes[a][e.rf].sync[u]
      <4>1. e.rf \in 1 .. Len(writes[a])
        BY <1>1, <3>5
      <4>2. PICK h \in 1 .. n : Heads(h, a, e.rf) /\ i \in P[h]
        BY <1>1, <1>17, <1>19, <3>2, <3>5, <4>1
      <4>3. Heads(h, a, e.rf)'
        <5>1. e.wr > e.rf \/ e.wr = 0
          BY <1>1, <1>5, <1>6, <4>1
        <5>2. QED
          BY <1>1, <1>4, <1>5, <4>2, <5>1, HeadsStay
      <4>4. PICK x : x = trace[h] /\ trace'[h] = x
        BY <1>4
      <4>5. x.wr \in Nat
        BY <1>4, <4>4 DEF Events
      <4>6. Synchronizes(x, e)'
        <5>1. x.wr > 0 /\ e.rf >= x.wr /\ x.op.obj = a /\ Releases(x.op.ord)
          BY <1>5, <4>2, <4>4, <4>5 DEF Heads
        <5>2. \A j \in 1 .. n + 1 : trace'[j].wr \in x.wr + 1 .. e.rf /\ trace'[j].op.obj = a
                => trace'[j].rf > 0 \/ trace'[j].by = x.by
          BY <1>4, <4>3, <4>4 DEF Heads
        <5>3. QED
          BY <1>0, <1>4, <3>5, <5>1, <5>2 DEF Synchronizes
      <4>7. Directly(h, n + 1)'
        BY <1>4, <4>4, <4>6 DEF Directly
      <4>8. QED
        BY <1>10, <4>2, <4>7
    <3>6. CASE IsSeqCst(e) /\ e.op.kind # "store" /\ c[u] = scCausality[u]
      <4>1. PICK h \in 1 .. n : IsSeqCst(trace[h]) /\ i \in P[h]
        BY <1>18, <1>19, <3>2, <3>6
      <4>2. Directly(h, n + 1)'
        BY <1>0, <1>1, <1>4, <1>7, <3>6, <4>1, DirectlyStays
      <4>3. QED
        BY <1>10, <4>1, <4>2
    <3>7. QED
      BY <3>3, <3>4, <3>5, <3>6
  <2>3. QED
    BY <1>4, <2>1, <2>2
<1>20. Heard(T, Q)'
  <2> SUFFICES ASSUME NEW w \in Threads, NEW i \in 1 .. n + 1,
                      trace'[i].by # Root, T[i] <= causality'[w][trace'[i].by]
               PROVE  i \in Knows(Q, w)'
    BY <1>4 DEF Heard, Counts
  <2>0. PICK u : u = trace'[i].by
    OBVIOUS
  <2>1. u \in Threads
    BY <1>0, <1>4, <1>5, <1>15, <2>0
  <2>2. CASE w # t
    <3>1. T[i] <= causality[w][u]
      BY <1>3, <2>0, <2>2
    <3>2. i \in 1 .. n
      <4>1. i # n + 1
        BY <1>0, <1>4, <1>14, <1>16, <2>0, <2>2, <3>1
      <4>2. QED
        BY <1>4, <4>1
    <3>3. Counts(S, causality[w], i)
      BY <1>4, <1>14, <2>0, <3>1, <3>2 DEF Counts
    <3>4. i \in Knows(P, w)
      BY <1>4, <1>8, <3>2, <3>3 DEF Heard
    <3>5. QED
      BY <1>10, <3>4
  <2>3. CASE w = t /\ u = t
    <3>1. i \in Q[n + 1]
      BY <1>4, <1>10, <2>0, <2>3
    <3>2. QED
      BY <1>10, <2>3, <3>1
  <2>4. CASE w = t /\ u # t
    <3>1. causality'[t][u] = c[u] \/ (IsSeqCst(e) /\ causality'[t][u] = scCausality[u])
      BY <1>3, <2>1, <2>4
    <3>2. CASE causality'[t][u] = c[u]
      <4>1. i \in Q[n + 1]
        BY <1>19, <2>0, <2>4, <3>2
      <4>2. QED
        BY <1>10, <2>4, <4>1
    <3>3. CASE IsSeqCst(e) /\ causality'[t][u] = scCausality[u]
      <4>1. PICK h \in 1 .. n : IsSeqCst(trace[h]) /\ i \in P[h]
        BY <1>18, <2>0, <2>4, <3>3
      <4>2. QED
        BY <1>10, <2>4, <3>3, <4>1
    <3>4. QED
      BY <3>1, <3>2, <3>3
  <2>5. QED
    BY <2>2, <2>3, <2>4
<1>21. Agreed(T, Q)'
  <2> SUFFICES ASSUME NEW i \in 1 .. n + 1,
                      trace'[i].by # Root, T[i] <= scCausality'[trace'[i].by]
               PROVE  \E h \in 1 .. n + 1 : IsSeqCst(trace[h])' /\ i \in Q[h]
    BY <1>4 DEF Agreed, Counts
  <2>0. PICK u : u = trace'[i].by
    OBVIOUS
  <2>1. u \in Threads
    BY <1>0, <1>4, <1>5, <1>15, <2>0
  <2>2. scCausality'[u] = scCausality[u] \/ (IsSeqCst(e) /\ scCausality'[u] = c[u])
    BY <1>2, <2>1
  <2>3. CASE scCausality'[u] = scCausality[u]
    <3>1. PICK h \in 1 .. n : IsSeqCst(trace[h]) /\ i \in P[h]
      BY <1>18, <2>0, <2>3
    <3>2. h \in 1 .. n + 1 /\ IsSeqCst(trace[h])' /\ i \in Q[h]
      BY <1>4, <1>10, <3>1 DEF IsSeqCst
    <3>3. QED
      BY <3>2
  <2>4. CASE IsSeqCst(e) /\ scCausality'[u] = c[u]
    <3>1. i \in Q[n + 1]
      BY <1>19, <2>0, <2>4
    <3>2. IsSeqCst(trace[n + 1])' /\ n + 1 \in 1 .. n + 1
      BY <1>4, <2>4 DEF IsSeqCst
    <3>3. QED
      BY <3>1, <3>2
  <2>5. QED
    BY <2>2, <2>3, <2>4

<1>22. ASSUME NEW k \in 1 .. Len(writes'[a])
       PROVE  /\ \/ k \in 1 .. Len(writes[a]) /\ writes'[a][k].sync = writes[a][k].sync
                 \/ /\ k = Len(writes[a]) + 1 /\ k \in {e.rf, e.wr}
                    /\ \A u \in Threads :
                         \/ writes'[a][k].sync[u] = writes[a][k - 1].sync[u]
                         \/ Releases(e.op.ord) /\ writes'[a][k].sync[u] = c[u]
              /\ \A u \in Threads : writes'[a][k].firstSeen[u] # Unseen =>
                   \/ k \in 1 .. Len(writes[a]) /\ writes'[a][k].firstSeen[u] = writes[a][k].firstSeen[u]
                   \/ u = t /\ k \in {e.rf, e.wr} /\ s <= writes'[a][k].firstSeen[u]
  <2>1. From(writes[a], writes'[a], t, s, c, e.op.ord, {e.rf, e.wr})
    BY <1>0 DEF Accessed
  <2>2. QED
    BY <2>1 DEF From
<1>23. \A b \in Atomics : b # a => writes'[b] = writes[b]
  BY <1>0 DEF Accessed
\* The clock of the write that is added.
<1>24. ASSUME NEW k \in 1 .. Len(writes'[a]), k = Len(writes[a]) + 1
       PROVE  /\ k = e.wr /\ k - 1 \in 1 .. Len(writes[a])
              /\ e.rf > 0 \/ e.op.kind = "store"
              /\ e.op.kind \in Writing
              /\ \A u \in Threads :
                   \/ writes'[a][k].sync[u] = writes[a][k - 1].sync[u]
                   \/ Releases(e.op.ord) /\ writes'[a][k].sync[u] = c[u]
  <2>1. Len(writes[a]) \in Nat /\ Len(writes[a]) # 0
    <3>1. writes[a] \in Seq(Writes) /\ writes[a] # <<>>
      BY <1>1 DEF MemoryTypes, Histories
    <3>2. QED
      BY <3>1, LenProperties, EmptySeq
  <2>2. k \notin 1 .. Len(writes[a]) /\ k - 1 \in 1 .. Len(writes[a]) /\ k > 0 /\ k \in Nat
    BY <1>24, <2>1
  <2>3. /\ k \in {e.rf, e.wr}
        /\ \A u \in Threads : \/ writes'[a][k].sync[u] = writes[a][k - 1].sync[u]
                              \/ Releases(e.op.ord) /\ writes'[a][k].sync[u] = c[u]
    BY <1>22, <2>2
  <2>4. k # e.rf
    BY <1>1, <1>5, <2>2
  <2>5. e.wr > 0 /\ k = e.wr
    BY <2>2, <2>3, <2>4
  <2>6. QED
    BY <1>1, <2>2, <2>3, <2>5

<1>25. \A b \in Atomics : \A k \in 1 .. Len(writes[b]) : k \in Nat /\ (b = a /\ e.wr > 0 => e.wr > k)
  BY <1>1, <1>5, <1>6
<1>26. Carried(T, Q)'
  <2> SUFFICES ASSUME NEW b \in Atomics, NEW k \in 1 .. Len(writes'[b]), NEW i \in 1 .. n + 1,
                      trace'[i].by # Root, T[i] <= writes'[b][k].sync[trace'[i].by]
               PROVE  \E h \in 1 .. n + 1 : Heads(h, b, k)' /\ i \in Q[h]
    BY <1>4 DEF Carried, Counts
  <2>0. PICK u : u = trace'[i].by
    OBVIOUS
  <2>1. u \in Threads
    BY <1>0, <1>4, <1>5, <1>15, <2>0
  <2>2. CASE k \in 1 .. Len(writes[b]) /\ writes'[b][k].sync = writes[b][k].sync
    <3>1. PICK h \in 1 .. n : Heads(h, b, k) /\ i \in P[h]
      BY <1>17, <2>2
    <3>2. Heads(h, b, k)'
      BY <1>0, <1>1, <1>4, <1>5, <1>25, <2>2, <3>1, HeadsStay
    <3>3. h \in 1 .. n + 1 /\ i \in Q[h]
      BY <1>4, <1>10, <3>1
    <3>4. QED
      BY <3>2, <3>3
  <2>3. CASE b = a /\ k = Len(writes[a]) + 1
    <3>0. k \in 1 .. Len(writes'[a])
      BY <2>3
    <3>1. /\ k = e.wr /\ k - 1 \in 1 .. Len(writes[a]) /\ k \in Nat /\ k - 1 \in Nat /\ k > k - 1
          /\ e.rf > 0 \/ e.op.kind = "store"
          /\ e.op.kind \in Writing
      BY <1>5, <1>24, <2>3, <3>0
    <3>2. \/ writes'[a][k].sync[u] = writes[a][k - 1].sync[u]
          \/ Releases(e.op.ord) /\ writes'[a][k].sync[u] = c[u]
      BY <1>24, <2>1, <2>3, <3>0
    <3>3. CASE writes'[a][k].sync[u] = writes[a][k - 1].sync[u]
      <4>1. PICK h \in 1 .. n : Heads(h, a, k - 1) /\ i \in P[h]
        BY <1>1, <1>17, <2>0, <2>3, <3>1, <3>3, Zenon
      <4>2. PICK x : x = trace[h] /\ trace'[h] = x
        BY <1>4
      <4>3. x \in Events /\ x.wr \in 1 .. k - 1 /\ x.op.obj = a /\ Releases(x.op.ord)
        BY <1>4, <4>1, <4>2 DEF Heads
      <4>4. e.rf > 0 \/ t = x.by
        <5>1. CASE e.rf > 0
          BY <5>1
        <5>2. CASE e.op.kind = "store"
          <6>0. trace[h].wr > 0 /\ h \in DOMAIN trace /\ x.by \in Threads
            BY <1>4, <3>1, <4>2, <4>3 DEF Events
          <6>1. x.op \in ToSet(program[x.by]) /\ x.op.kind \in Writing /\ x.by \in Threads
            BY <4>2, <6>0 DEF Drawn
          <6>2. QED
            BY <1>0, <1>1, <1>5, <4>3, <5>2, <6>1, StoresAlone
        <5>3. QED
          BY <3>1, <5>1, <5>2
      <4>5. Heads(h, a, k - 1)'
        BY <1>0, <1>1, <1>4, <3>1, <4>1, <4>2, <4>4, HeadsStay
      <4>6. \A j \in 1 .. n : trace'[j].op.obj = a => trace'[j].wr # k
        <5> SUFFICES ASSUME NEW j \in 1 .. n, trace[j].op.obj = a, trace[j].wr = k
                     PROVE  FALSE
          BY <1>4
        <5>1. PICK V : Explains(V)
          BY DEF Causal
        <5>2. trace[j].wr > 0 /\ j \in DOMAIN trace
          BY <1>4, <3>1, SMTT(30)
        <5>3. trace[j].wr \in 1 .. Len(writes[a])
          BY <5>1, <5>2, Zenon DEF Explains, Seen
        <5>4. QED
          BY <1>1, <1>6, <2>3, <5>3
      <4>7. Heads(h, a, k)'
        <5>1. \A m \in x.wr + 1 .. k : m \in x.wr + 1 .. k - 1 \/ m = k
          BY <3>1, <4>3
        <5>2. \A j \in 1 .. n + 1 : trace'[j].wr \in x.wr + 1 .. k - 1 /\ trace'[j].op.obj = a
                => trace'[j].rf > 0 \/ trace'[j].by = x.by
          BY <1>4, <4>2, <4>5 DEF Heads
        <5>3. \A j \in 1 .. n + 1 : trace'[j].wr \in x.wr + 1 .. k /\ trace'[j].op.obj = a
                => trace'[j].rf > 0 \/ trace'[j].by = x.by
          BY <1>0, <1>4, <4>4, <4>6, <5>1, <5>2
        <5>4. x.wr \in 1 .. k
          BY <3>1, <4>3
        <5>5. QED
          BY <1>4, <4>2, <4>3, <5>3, <5>4 DEF Heads
      <4>8. h \in 1 .. n + 1 /\ i \in Q[h]
        BY <1>4, <1>10, <4>1
      <4>9. QED
        BY <2>3, <4>7, <4>8, SMTT(30)
    <3>4. CASE Releases(e.op.ord) /\ writes'[a][k].sync[u] = c[u]
      <4>1. i \in Q[n + 1]
        BY <1>19, <2>0, <2>3, <3>4
      <4>2. Heads(n + 1, a, k)'
        <5>1. e.wr \in 1 .. k /\ \A m : m \notin e.wr + 1 .. k
          BY <1>5, <3>0, <3>1
        <5>2. QED
          BY <1>0, <1>4, <3>4, <5>1 DEF Heads
      <4>3. n + 1 \in 1 .. n + 1
        BY <1>4
      <4>4. QED
        BY <2>3, <4>1, <4>2, <4>3
    <3>5. QED
      BY <3>2, <3>3, <3>4
  <2>4. QED
    BY <1>22, <1>23, <2>2, <2>3
<1>27. Noted(T)'
  <2> SUFFICES ASSUME NEW b \in Atomics, NEW u \in Threads, NEW k \in 1 .. Len(writes'[b]),
                      k > 1, writes'[b][k].firstSeen[u] # Unseen
               PROVE  \E i \in 1 .. n + 1 :
                        /\ u # Root /\ trace'[i].by = u /\ trace'[i].op.obj = b
                        /\ k \in {trace'[i].rf, trace'[i].wr}
                        /\ T[i] <= writes'[b][k].firstSeen[u]
    BY <1>4 DEF Noted
  <2>1. CASE k \in 1 .. Len(writes[b]) /\ writes'[b][k].firstSeen[u] = writes[b][k].firstSeen[u]
    <3>1. PICK i \in 1 .. n : /\ u # Root /\ trace[i].by = u /\ trace[i].op.obj = b
                              /\ k \in {trace[i].rf, trace[i].wr}
                              /\ S[i] <= writes[b][k].firstSeen[u]
      BY <1>4, <1>8, <2>1, SMTT(30) DEF Noted
    <3>2. i \in 1 .. n + 1 /\ trace'[i] = trace[i] /\ T[i] = S[i]
      BY <1>4, <1>14
    <3>3. QED
      BY <2>1, <3>1, <3>2
  <2>2. CASE b = a /\ u = t /\ k \in {e.rf, e.wr} /\ s <= writes'[a][k].firstSeen[u]
    <3>1. n + 1 \in 1 .. n + 1 /\ u # Root
      BY <1>1, <1>4, <2>2
    <3>2. QED
      BY <1>0, <1>4, <1>14, <2>2, <3>1
  <2>3. QED
    BY <1>22, <1>23, <2>1, <2>2
<1>28. Dated(T, Q)'
  BY <1>4, <1>10, <1>14, <1>20, <1>21, <1>26, <1>27 DEF Dated
<1>29. Drawn'
  <2>1. \A i \in 1 .. n + 1 : /\ trace'[i].op \in ToSet(program[trace'[i].by])
                              /\ trace'[i].wr > 0 => trace'[i].op.kind \in Writing
    BY <1>0, <1>1, <1>4 DEF Drawn
  <2>2. QED
    BY <1>1, <1>4, <2>1 DEF Drawn
<1>30. Ahead'
  <2> DEFINE Under(x, u) == x = 0 \/ x < causality'[u][u]
  <2> SUFFICES ASSUME NEW u \in Threads \ {Root}
               PROVE  /\ u \in Created' => causality'[u][u] > 0
                      /\ \A w \in Threads \ {u} : Under(causality'[w][u], u)
                      /\ Under(scCausality'[u], u)
                      /\ \A b \in Atomics : \A k \in 1 .. Len(writes'[b]) :
                           Under(writes'[b][k].sync[u], u)
    BY DEF Ahead, Below
  <2>0. u \in Threads
    OBVIOUS
  <2>1. /\ u \in Created => causality[u][u] > 0
        /\ \A w \in Threads \ {u} : Below(causality[w][u], u)
        /\ Below(scCausality[u], u)
        /\ \A b \in Atomics : \A k \in 1 .. Len(writes[b]) : Below(writes[b][k].sync[u], u)
    BY DEF Ahead
  <2>2. causality[u][u] \in Nat /\ causality'[u][u] \in Nat /\ c[u] \in Nat
    BY <1>1, <1>11 DEF Vectors
  <2>3. causality[u][u] <= causality'[u][u] /\ (u = t => c[u] < causality'[u][u])
    <3>1. CASE u = t
      BY <1>0, <1>1, <1>12, <2>2, <3>1
    <3>2. CASE u # t
      BY <1>3, <2>2, <3>2
    <3>3. QED
      BY <3>1, <3>2
  <2>4. \A x \in Nat : Below(x, u) => Under(x, u)
    BY <2>2, <2>3 DEF Below
  <2>5. /\ \A w \in Threads : causality[w][u] \in Nat /\ causality'[w][u] \in Nat
        /\ scCausality[u] \in Nat /\ scCausality'[u] \in Nat
    BY <1>11 DEF Vectors
  <2>6. ASSUME NEW b \in Atomics, NEW k \in 1 .. Len(writes[b])
        PROVE  writes[b][k].sync[u] \in Nat /\ Under(writes[b][k].sync[u], u)
    <3>1. writes[b][k].sync[u] \in Nat
      BY SyncIs DEF Vectors
    <3>2. QED
      BY <2>1, <2>4, <3>1
  <2>7. Under(scCausality[u], u)
    BY <2>1, <2>4, <2>5
  <2>8. Under(c[u], u)
    <3>1. CASE u = t
      BY <2>3, <3>1
    <3>2. CASE u # t
      <4>1. \/ c[u] = causality[t][u]
            \/ e.rf > 0 /\ c[u] = writes[a][e.rf].sync[u]
            \/ c[u] = scCausality[u]
        BY <1>2
      <4>2. Under(causality[t][u], u)
        BY <1>5, <2>1, <2>4, <2>5, <3>2
      <4>3. e.rf > 0 => Under(writes[a][e.rf].sync[u], u)
        BY <1>1, <2>6
      <4>4. QED
        BY <2>7, <4>1, <4>2, <4>3
    <3>3. QED
      BY <3>1, <3>2
  <2>9. ASSUME NEW w \in Threads \ {u}
        PROVE  Under(causality'[w][u], u)
    <3>1. CASE w = t
      <4>1. causality'[t][u] = c[u] \/ causality'[t][u] = scCausality[u]
        BY <1>3, <3>1
      <4>2. QED
        BY <2>7, <2>8, <3>1, <4>1
    <3>2. CASE w # t
      <4>1. causality'[w] = causality[w]
        BY <1>3, <3>2
      <4>2. Under(causality[w][u], u)
        BY <2>1, <2>4, <2>5
      <4>3. QED
        BY <4>1, <4>2
    <3>3. QED
      BY <3>1, <3>2
  <2>10. Under(scCausality'[u], u)
    <3>1. scCausality'[u] = scCausality[u] \/ scCausality'[u] = c[u]
      BY <1>2
    <3>2. QED
      BY <2>7, <2>8, <3>1
  <2>11. ASSUME NEW b \in Atomics, NEW k \in 1 .. Len(writes'[b])
         PROVE  Under(writes'[b][k].sync[u], u)
    <3>1. CASE k \in 1 .. Len(writes[b]) /\ writes'[b][k].sync = writes[b][k].sync
      <4>1. Under(writes[b][k].sync[u], u)
        BY <2>6, <3>1
      <4>2. QED
        BY <3>1, <4>1
    <3>2. CASE b = a /\ k = Len(writes[a]) + 1
      <4>1. k - 1 \in 1 .. Len(writes[a])
        BY <1>24, <2>11, <3>2
      <4>2. writes'[a][k].sync[u] = writes[a][k - 1].sync[u] \/ writes'[a][k].sync[u] = c[u]
        BY <1>24, <2>0, <2>11, <3>2
      <4>3. Under(writes[a][k - 1].sync[u], u)
        BY <1>1, <2>6, <4>1
      <4>4. QED
        BY <2>8, <3>2, <4>2, <4>3
    <3>3. QED
      BY <1>22, <1>23, <2>11, <3>1, <3>2
  <2>12. QED
    BY <1>1, <2>1, <2>2, <2>3, <2>9, <2>10, <2>11
<1>31. QED
  BY <1>28, <1>29, <1>30

LEMMA ApartKeeps ==
  ASSUME Ahead, Drawn, Causal, MemoryTypes, NEW S, NEW P, Dated(S, P), NEW e, Apart(e)
  PROVE  Ahead' /\ Drawn' /\ \E T, Q : Dated(T, Q)'
<1>0. PICK t, n, s : t = e.by /\ n = Len(trace) /\ s = causality[t][t]
  OBVIOUS
<1>1. /\ e \in Events /\ trace' = Append(trace, e) /\ MemoryTypes' /\ program' = program
      /\ writes' = writes /\ scCausality' = scCausality /\ e.op \in ToSet(program[t])
      /\ e.rf = 0 /\ e.wr = 0
  BY <1>0 DEF Apart
<1>2. \/ t \in Created \ {Root} /\ causality' = causality /\ Created' \subseteq Created
      \/ /\ t = Root /\ Created' \subseteq Created \cup {e.val}
         /\ \A w \in Threads :
              /\ causality[w][w] <= causality'[w][w]
              /\ Starts(e, w) => causality'[w][w] > 0
              /\ \A u \in Threads \ {w} :
                   \/ causality'[w][u] = causality[w][u]
                   \/ Starts(e, w) /\ causality'[w][u] = causality[Root][u]
         /\ \A w \in Threads : w = e.val => Starts(e, w)
  BY <1>0 DEF Apart
<1>3. /\ n \in Nat /\ DOMAIN trace = 1 .. n /\ DOMAIN trace' = 1 .. n + 1
      /\ Len(trace') = n + 1 /\ trace'[n + 1] = e
      /\ \A i \in 1 .. n : trace'[i] = trace[i] /\ trace[i] \in Events /\ i \in 1 .. n + 1
      /\ \A i \in 1 .. n + 1 : i \in 1 .. n \/ i = n + 1
      /\ trace \in Seq(Events)
  <2>1. trace \in Seq(Events)
    BY DEF Causal
  <2>2. QED
    BY <1>0, <1>1, <2>1, TraceGrows
<1>4. t \in Threads /\ \A i \in 1 .. n : trace[i].by \in Threads
  BY <1>0, <1>1, <1>3 DEF Events
<1>5. Newest(e)
  BY <1>1 DEF Newest
<1>6. Follows(P) /\ Heard(S, P) /\ Agreed(S, P) /\ Carried(S, P) /\ Noted(S)
      /\ S \in [1 .. n -> Nat] /\ \A i \in 1 .. n : trace[i].by # Root => S[i] > 0
  BY <1>3 DEF Dated
<1>7. PICK Q : Q = Onto(P, n)
  OBVIOUS
<1>8. /\ Follows(Q)' /\ n + 1 \in Q[n + 1]
      /\ \A j \in 1 .. n : Q[j] = P[j]
      /\ Knows(P, t) \subseteq Q[n + 1]
      /\ \A u : Knows(P, u) \subseteq Knows(Q, u)'
      /\ \A u : t = u \/ Starts(e, u) => Q[n + 1] \subseteq Knows(Q, u)'
  BY <1>0, <1>1, <1>3, <1>5, <1>6, <1>7, OrderGrows
<1>9. /\ \A u \in Threads : causality[u] \in Vectors /\ causality'[u] \in Vectors
      /\ scCausality \in Vectors
  BY <1>1 DEF MemoryTypes
<1>10. s \in Nat /\ (t # Root => s > 0)
  <2>1. t # Root => t \in Created
    BY <1>2
  <2>2. QED
    BY <1>0, <1>4, <1>9, <2>1 DEF Ahead, Vectors
<1>11. PICK T : T = [i \in 1 .. n + 1 |-> IF i = n + 1 THEN s ELSE S[i]]
  OBVIOUS
<1>12. /\ T \in [1 .. n + 1 -> Nat] /\ T[n + 1] = s
       /\ \A i \in 1 .. n : T[i] = S[i] /\ i # n + 1
       /\ \A i \in 1 .. n + 1 : trace'[i].by # Root => T[i] > 0
  BY <1>0, <1>3, <1>6, <1>10, <1>11
<1>13. t # Root =>
         /\ \A u \in Threads \ {t} : ~(s <= causality[u][t])
         /\ ~(s <= scCausality[t])
         /\ \A b \in Atomics : \A k \in 1 .. Len(writes[b]) : ~(s <= writes[b][k].sync[t])
  <2> SUFFICES ASSUME t # Root
               PROVE  /\ \A u \in Threads \ {t} : ~(s <= causality[u][t])
                      /\ ~(s <= scCausality[t])
                      /\ \A b \in Atomics : \A k \in 1 .. Len(writes[b]) : ~(s <= writes[b][k].sync[t])
    OBVIOUS
  <2>1. \A x \in Nat : Below(x, t) => ~(s <= x)
    BY <1>0, <1>10 DEF Below
  <2>2. \A u \in Threads \ {t} : causality[u][t] \in Nat
    BY <1>4, <1>9 DEF Vectors
  <2>3. scCausality[t] \in Nat
    BY <1>4, <1>9 DEF Vectors
  <2>4. \A b \in Atomics : \A k \in 1 .. Len(writes[b]) : writes[b][k].sync[t] \in Nat
    BY <1>4, SyncIs DEF Vectors
  <2>5. /\ \A u \in Threads \ {t} : Below(causality[u][t], t)
        /\ Below(scCausality[t], t)
        /\ \A b \in Atomics : \A k \in 1 .. Len(writes[b]) : Below(writes[b][k].sync[t], t)
    BY <1>4 DEF Ahead
  <2>6. QED
    BY <2>1, <2>2, <2>3, <2>4, <2>5
<1>14. \A i \in 1 .. n : i \in Knows(P, trace[i].by)
  <2> TAKE i \in 1 .. n
  <2>1. Tells(i, trace[i].by, Len(trace)) /\ i \in P[i]
    BY <1>3, <1>6 DEF Tells, Follows
  <2>2. QED
    BY <1>3, <2>1 DEF Knows
<1>15. Heard(T, Q)'
  <2> SUFFICES ASSUME NEW w \in Threads, NEW i \in 1 .. n + 1,
                      trace'[i].by # Root, T[i] <= causality'[w][trace'[i].by]
               PROVE  i \in Knows(Q, w)'
    BY <1>3 DEF Heard, Counts
  <2>0. PICK u : u = trace'[i].by
    OBVIOUS
  <2>1. CASE i = n + 1
    <3>1. u = t /\ t # Root /\ causality' = causality /\ T[i] = s
      BY <1>0, <1>2, <1>3, <1>12, <2>0, <2>1
    <3>2. w = t
      BY <1>13, <2>0, <3>1
    <3>3. QED
      BY <1>8, <2>1, <3>2
  <2>2. CASE i \in 1 .. n
    <3>1. u = trace[i].by /\ u \in Threads /\ u # Root /\ T[i] = S[i]
      BY <1>3, <1>4, <1>12, <2>0, <2>2
    <3>2. CASE u = w
      BY <1>8, <1>14, <2>2, <3>1, <3>2
    <3>3. CASE u # w /\ causality'[w][u] = causality[w][u]
      <4>1. Counts(S, causality[w], i)
        BY <2>0, <3>1, <3>3 DEF Counts
      <4>2. i \in Knows(P, w)
        BY <1>3, <1>6, <2>2, <4>1 DEF Heard
      <4>3. QED
        BY <1>8, <4>2
    <3>4. CASE t = Root /\ Starts(e, w) /\ causality'[w][u] = causality[Root][u]
      <4>1. Counts(S, causality[Root], i)
        BY <2>0, <3>1, <3>4 DEF Counts
      <4>2. i \in Knows(P, Root)
        BY <1>3, <1>4, <1>6, <2>2, <3>4, <4>1 DEF Heard
      <4>3. QED
        BY <1>8, <3>4, <4>2
    <3>5. QED
      BY <1>2, <3>1, <3>2, <3>3, <3>4
  <2>3. QED
    BY <1>3, <2>1, <2>2
<1>16. ASSUME NEW i \in 1 .. n + 1, NEW v, trace'[i].by # Root, T[i] <= v[trace'[i].by],
              t # Root => ~(s <= v[t])
       PROVE  i \in 1 .. n /\ Counts(S, v, i)
  <2>1. i # n + 1
    BY <1>0, <1>3, <1>12, <1>16
  <2>2. i \in 1 .. n
    BY <1>3, <2>1
  <2>3. QED
    BY <1>3, <1>12, <1>16, <2>2 DEF Counts
<1>17. Agreed(T, Q)'
  <2> SUFFICES ASSUME NEW i \in 1 .. n + 1,
                      trace'[i].by # Root, T[i] <= scCausality[trace'[i].by]
               PROVE  \E h \in 1 .. n + 1 : IsSeqCst(trace[h])' /\ i \in Q[h]
    BY <1>1, <1>3 DEF Agreed, Counts
  <2>1. i \in 1 .. n /\ Counts(S, scCausality, i)
    BY <1>13, <1>16
  <2>2. PICK h \in 1 .. n : IsSeqCst(trace[h]) /\ i \in P[h]
    BY <1>3, <1>6, <2>1 DEF Agreed
  <2>3. h \in 1 .. n + 1 /\ IsSeqCst(trace[h])' /\ i \in Q[h]
    BY <1>3, <1>8, <2>2 DEF IsSeqCst
  <2>4. QED
    BY <2>3
<1>18. Carried(T, Q)'
  <2> SUFFICES ASSUME NEW b \in Atomics, NEW k \in 1 .. Len(writes[b]), NEW i \in 1 .. n + 1,
                      trace'[i].by # Root, T[i] <= writes[b][k].sync[trace'[i].by]
               PROVE  \E h \in 1 .. n + 1 : Heads(h, b, k)' /\ i \in Q[h]
    BY <1>1, <1>3 DEF Carried, Counts
  <2>1. i \in 1 .. n /\ Counts(S, writes[b][k].sync, i)
    <3>1. PICK v : v = writes[b][k].sync
      OBVIOUS
    <3>2. T[i] <= v[trace'[i].by] /\ (t # Root => ~(s <= v[t]))
      BY <1>13, <3>1
    <3>3. QED
      BY <1>16, <3>1, <3>2
  <2>2. PICK h \in 1 .. n : Heads(h, b, k) /\ i \in P[h]
    BY <1>3, <1>6, <2>1 DEF Carried
  <2>3. Heads(h, b, k)'
    <3>1. k \in Nat
      BY LenProperties DEF MemoryTypes
    <3>2. QED
      BY <1>1, <1>3, <2>2, <3>1, HeadsStay
  <2>4. h \in 1 .. n + 1 /\ i \in Q[h]
    BY <1>3, <1>8, <2>2
  <2>5. QED
    BY <2>3, <2>4
<1>19. Noted(T)'
  <2> SUFFICES ASSUME NEW b \in Atomics, NEW u \in Threads, NEW k \in 1 .. Len(writes[b]),
                      k > 1, writes[b][k].firstSeen[u] # Unseen
               PROVE  \E i \in 1 .. n + 1 :
                        /\ u # Root /\ trace'[i].by = u /\ trace'[i].op.obj = b
                        /\ k \in {trace'[i].rf, trace'[i].wr}
                        /\ T[i] <= writes[b][k].firstSeen[u]
    BY <1>1, <1>3 DEF Noted
  <2>1. PICK i \in 1 .. n : /\ u # Root /\ trace[i].by = u /\ trace[i].op.obj = b
                            /\ k \in {trace[i].rf, trace[i].wr}
                            /\ S[i] <= writes[b][k].firstSeen[u]
    BY <1>3, <1>6 DEF Noted
  <2>2. i \in 1 .. n + 1 /\ trace'[i] = trace[i] /\ T[i] = S[i]
    BY <1>3, <1>12
  <2>3. QED
    BY <2>1, <2>2
<1>20. Dated(T, Q)'
  BY <1>3, <1>8, <1>12, <1>15, <1>17, <1>18, <1>19 DEF Dated
<1>21. Drawn'
  <2>1. \A i \in 1 .. n + 1 : /\ trace'[i].op \in ToSet(program[trace'[i].by])
                              /\ trace'[i].wr > 0 => trace'[i].op.kind \in Writing
    BY <1>0, <1>1, <1>3 DEF Drawn
  <2>2. QED
    BY <1>1, <1>3, <2>1 DEF Drawn
<1>22. Ahead'
  <2>1. CASE t \in Created \ {Root} /\ causality' = causality /\ Created' \subseteq Created
    BY <1>1, <2>1 DEF Ahead, Below
  <2>2. CASE t = Root
    <3> DEFINE Under(x, u) == x = 0 \/ x < causality'[u][u]
    <3> SUFFICES ASSUME NEW u \in Threads \ {Root}
                 PROVE  /\ u \in Created' => causality'[u][u] > 0
                        /\ \A w \in Threads \ {u} : Under(causality'[w][u], u)
                        /\ Under(scCausality[u], u)
                        /\ \A b \in Atomics : \A k \in 1 .. Len(writes[b]) :
                             Under(writes[b][k].sync[u], u)
      BY <1>1 DEF Ahead, Below
    <3>1. /\ u \in Created => causality[u][u] > 0
          /\ \A w \in Threads \ {u} : Below(causality[w][u], u)
          /\ Below(scCausality[u], u)
          /\ \A b \in Atomics : \A k \in 1 .. Len(writes[b]) : Below(writes[b][k].sync[u], u)
      BY DEF Ahead
    <3>2. /\ causality[u][u] \in Nat /\ causality'[u][u] \in Nat
          /\ causality[u][u] <= causality'[u][u] /\ (Starts(e, u) => causality'[u][u] > 0)
          /\ u = e.val => Starts(e, u)
      BY <1>2, <1>9, <2>2 DEF Vectors
    <3>3. \A x \in Nat : Below(x, u) => Under(x, u)
      BY <3>2 DEF Below
    <3>4. /\ \A w \in Threads : causality[w][u] \in Nat
          /\ scCausality[u] \in Nat
          /\ \A b \in Atomics : \A k \in 1 .. Len(writes[b]) : writes[b][k].sync[u] \in Nat
      BY <1>9, SyncIs DEF Vectors
    <3>5. ASSUME NEW w \in Threads \ {u}
          PROVE  Under(causality'[w][u], u)
      <4>1. causality'[w][u] = causality[w][u] \/ causality'[w][u] = causality[Root][u]
        BY <1>2, <2>2
      <4>2. Under(causality[w][u], u)
        BY <3>1, <3>3, <3>4
      <4>3. Under(causality[Root][u], u)
        BY <1>4, <2>2, <3>1, <3>3, <3>4
      <4>4. QED
        BY <4>1, <4>2, <4>3
    <3>6. u \in Created' => causality'[u][u] > 0
      BY <1>2, <2>2, <3>1, <3>2
    <3>7. QED
      BY <3>1, <3>3, <3>4, <3>5, <3>6
  <2>3. QED
    BY <1>2, <2>1, <2>2
<1>23. QED
  BY <1>20, <1>21, <1>22

-------------------------------------------------------------------------------
\* Exact programs: the root spawns the threads, and they access the memory.
LEMMA RootSpawns ==
  ASSUME Precise, IInv, NEW t \in Threads, ~AtEnd(t)
  PROVE  /\ Op(t).kind \notin {"lock", "unlock", "send", "join"}
         /\ t = Root <=> Op(t).kind = "spawn"
<1>1. program[t] \in Seq(ToSet(program[t])) /\ pc[t] \in 1 .. Len(program[t])
  BY OperationIs, ProgramsAssumption DEF IInv
<1>2. pc[t] \in DOMAIN program[t]
  BY <1>1, LenProperties
<1>3. QED
  BY <1>2 DEF Precise, Uses, Op

\* The event of an access to an atomic.
LEMMA AccessIs ==
  ASSUME IInv, Precise, NEW t \in Threads, ~AtEnd(t),
         Op(t).kind \in {"load", "store", "rmw", "cas"},
         NEW rf \in Nat, NEW wr \in Nat, rf + wr > 0, NEW val \in Nat, Did(t, rf, wr, val)
  PROVE  \E e \in Events :
           /\ trace' = Append(trace, e) /\ t # Root /\ e.op \in ToSet(program[t])
           /\ e.by = t /\ e.op = Op(t) /\ e.rf = rf /\ e.wr = wr
           /\ IsSeqCst(e) <=> Op(t).ord = "SeqCst"
<1> DEFINE e == Event(t, rf, wr, val)
<1>1. /\ e \in Events /\ trace' = Append(trace, e)
      /\ e.by = t /\ e.op = Op(t) /\ e.rf = rf /\ e.wr = wr
  BY EventIs
<1> HIDE DEF e
<1>2. t # Root /\ e.op \in ToSet(program[t])
  BY <1>1, RootSpawns, OperationIs
<1>3. IsSeqCst(e) <=> Op(t).ord = "SeqCst"
  BY <1>1 DEF IsSeqCst
<1>4. QED
  BY <1>1, <1>2, <1>3

LEMMA LoadAccessed ==
  ASSUME IInv, Spawned, MemoryTypes, Precise, NEW t \in Created, ~AtEnd(t),
         Op(t).obj \in Atomics, Op(t).kind \in {"load", "cas"},
         program' = program, status' = status,
         NEW ord, Acquires(ord) => Acquires(Op(t).ord), ord = "SeqCst" => Op(t).ord = "SeqCst",
         NEW k \in DOMAIN writes[Op(t).obj], Load(t, Op(t).obj, ord, k),
         Did(t, k, 0, writes[Op(t).obj][k].value)
  PROVE  \E e, c : Accessed(e, c)
<1>1. PICK a : a = Op(t).obj
  OBVIOUS
<1> DEFINE ws == writes[a]
           v == View(t)
           r == SyncRead(v, ws[k].sync, ord)
           xs == [ws EXCEPT ![k].firstSeen = Touched(@, t, causality[t])]
<1>2. t \in Threads /\ a \in Atomics /\ Created' = Created
  BY <1>1 DEF Created
<1>3. /\ MemoryTypes' /\ k \in 1 .. Len(ws) /\ k > 0 /\ k \in Nat
      /\ ws \in Seq(Writes) /\ causality[t] \in Vectors /\ scCausality \in Vectors
  <2>1. Load(t, a, ord, k) /\ k \in DOMAIN writes[a]
    BY <1>1
  <2>2. MemoryTypes' /\ k \in 1 .. Len(writes[a]) /\ k > 0
    BY <1>2, <2>1, LoadEffect
  <2>3. ws \in Seq(Writes) /\ causality[t] \in Vectors /\ scCausality \in Vectors
    BY <1>2 DEF MemoryTypes
  <2>4. k \in Nat
    BY <2>2, <2>3, LenProperties
  <2>5. QED
    BY <2>2, <2>3, <2>4
<1>4. v \in Views /\ v.own = causality[t] /\ v.sc = scCausality
  BY <1>2, <1>3, ViewIs
<1>5. ws[k] \in Writes /\ ws[k].sync \in Vectors /\ ws[k].value \in Nat
  <2>1. ws[k] \in Writes
    BY <1>3, ElementOfSeq
  <2>2. QED
    BY <2>1 DEF Writes
<1>6. /\ r \in Views /\ Before(v.own, r.own)
      /\ \A u \in Threads :
           /\ \/ r.own[u] = v.own[u]
              \/ Acquires(ord) /\ r.own[u] = ws[k].sync[u]
              \/ ord = "SeqCst" /\ r.own[u] = v.sc[u]
           /\ r.sc[u] = v.sc[u] \/ (ord = "SeqCst" /\ r.sc = r.own)
  BY <1>4, <1>5, SyncReadIs, SyncReadFrom, SMTT(30)
<1>7. writes' = [writes EXCEPT ![a] = xs] /\ Conclude(t, r)
  BY <1>1 DEF Load
<1>8. From(ws, xs, t, causality[t][t], causality[t], ord, {k})
  BY <1>2, <1>3, TouchFrom
<1> HIDE DEF r, v
<1>9. /\ r.own \in Vectors /\ causality'[t][t] = r.own[t] + 1 /\ scCausality' = r.sc
      /\ \A u \in Threads \ {t} : causality'[u] = causality[u] /\ causality'[t][u] = r.own[u]
  BY <1>2, <1>6, <1>7, ConcludeFrom DEF Views
<1>10. causality[t][t] <= r.own[t] /\ r.own[t] < causality'[t][t]
  <2>1. r.own[t] \in Nat
    BY <1>2, <1>9 DEF Vectors
  <2>2. QED
    BY <1>2, <1>4, <1>6, <1>9, <2>1 DEF Before
<1>11. /\ writes'[a] = xs /\ \A b \in Atomics : b # a => writes'[b] = writes[b]
       /\ Len(xs) = Len(ws)
  BY <1>2, <1>3, <1>7, TouchGrows DEF MemoryTypes
<1> HIDE DEF xs
<1>12. From(ws, writes'[a], t, causality[t][t], r.own, Op(t).ord, {k, 0})
  <2>1. \A i \in 1 .. Len(xs) : i \in 1 .. Len(ws) /\ i # Len(ws) + 1
    BY <1>3, <1>11, LenProperties
  <2>2. QED
    BY <1>8, <1>11, <2>1 DEF From
<1>13. PICK e \in Events :
         /\ trace' = Append(trace, e) /\ t # Root /\ e.op \in ToSet(program[t])
         /\ e.by = t /\ e.op = Op(t) /\ e.rf = k /\ e.wr = 0
         /\ IsSeqCst(e) <=> Op(t).ord = "SeqCst"
  BY <1>1, <1>2, <1>3, <1>5, AccessIs
<1>14. ASSUME NEW u \in Threads
       PROVE  /\ \/ r.own[u] = causality[t][u]
                 \/ e.rf > 0 /\ Acquires(e.op.ord) /\ r.own[u] = writes[a][e.rf].sync[u]
                 \/ IsSeqCst(e) /\ e.op.kind # "store" /\ r.own[u] = scCausality[u]
              /\ scCausality'[u] = scCausality[u] \/ (IsSeqCst(e) /\ scCausality'[u] = r.own[u])
  BY <1>3, <1>4, <1>6, <1>9, <1>13
<1>15. /\ e.rf + e.wr > 0 /\ e.rf \in 1 .. Len(writes[a]) /\ ~(e.wr > 0) /\ e.op.obj = a
       /\ From(writes[a], writes'[a], t, causality[t][t], r.own, e.op.ord, {e.rf, e.wr})
  BY <1>1, <1>3, <1>12, <1>13
<1> HIDE DEF ws
<1>16. Accessed(e, r.own)
  BY <1>2, <1>3, <1>9, <1>10, <1>11, <1>13, <1>14, <1>15 DEF Accessed
<1>17. QED
  BY <1>16

LEMMA FromMore ==
  ASSUME NEW ws, NEW xs, NEW t, NEW d, NEW c, NEW ord, NEW K, NEW L, K \subseteq L,
         From(ws, xs, t, d, c, ord, K)
  PROVE  From(ws, xs, t, d, c, ord, L)
<1> SUFFICES ASSUME NEW k \in 1 .. Len(xs)
             PROVE  /\ \/ k \in 1 .. Len(ws) /\ xs[k].sync = ws[k].sync
                       \/ /\ k = Len(ws) + 1 /\ k \in L
                          /\ \A u \in Threads : \/ xs[k].sync[u] = ws[k - 1].sync[u]
                                                \/ Releases(ord) /\ xs[k].sync[u] = c[u]
                    /\ \A u \in Threads : xs[k].firstSeen[u] # Unseen =>
                         \/ k \in 1 .. Len(ws) /\ xs[k].firstSeen[u] = ws[k].firstSeen[u]
                         \/ u = t /\ k \in L /\ d <= xs[k].firstSeen[u]
  BY DEF From
<1>1. k \in K => k \in L
  OBVIOUS
<1>2. QED
  BY <1>1 DEF From

\* A write is added: by a thread that knows v, to the writes ws that are those there
\* were but for what was seen.
LEMMA WriteAccessed ==
  ASSUME IInv, Spawned, MemoryTypes, Precise, NEW t \in Created, ~AtEnd(t),
         NEW a \in Atomics, a = Op(t).obj, NEW n, n = Len(writes[a]),
         Op(t).kind \in Writing, program' = program, status' = status, MemoryTypes',
         NEW rf \in Nat, (rf = 0 /\ Op(t).kind = "store") \/ rf = n,
         NEW res \in Nat, Did(t, rf, n + 1, res),
         NEW v \in Views, causality[t][t] <= v.own[t],
         \A u \in Threads :
           /\ \/ v.own[u] = causality[t][u]
              \/ rf > 0 /\ Acquires(Op(t).ord) /\ v.own[u] = writes[a][rf].sync[u]
              \/ Op(t).ord = "SeqCst" /\ Op(t).kind # "store" /\ v.own[u] = scCausality[u]
           /\ v.sc[u] = scCausality[u] \/ (Op(t).ord = "SeqCst" /\ v.sc[u] = v.own[u]),
         NEW ws \in Seq(Writes), Len(ws) = n, NEW b, NEW K, K \subseteq {rf},
         From(writes[a], ws, t, causality[t][t], b, Op(t).ord, K), NEW val \in Nat,
         writes' = [writes EXCEPT ![a] = Write(ws, t, v, val, Op(t).ord)],
         Conclude(t, AfterWrite(v, Op(t).ord))
  PROVE  \E e, c : Accessed(e, c)
<1> DEFINE r == AfterWrite(v, Op(t).ord)
           xs == Write(ws, t, v, val, Op(t).ord)
<1>1. t \in Threads /\ Created' = Created
  BY DEF Created
<1>2. /\ writes[a] \in Seq(Writes) /\ writes[a] # <<>>
      /\ causality[t] \in Vectors /\ scCausality \in Vectors
  BY <1>1 DEF MemoryTypes, IInv, Histories
<1>3. n \in Nat /\ n > 0 /\ n \in 1 .. n /\ ws # <<>>
  <2>1. n \in Nat /\ n # 0
    BY <1>2, LenProperties, EmptySeq
  <2>2. QED
    BY <2>1, EmptySeq
<1>4. v.own \in Vectors /\ v.sc \in Vectors /\ v.own[t] \in Nat /\ causality[t][t] \in Nat
  BY <1>1, <1>2 DEF Views, Vectors
<1>5. /\ r \in Views /\ Before(v.own, r.own)
      /\ \A u \in Threads :
           /\ r.own[u] = v.own[u] \/ (Op(t).ord = "SeqCst" /\ r.own[u] = v.sc[u])
           /\ r.sc[u] = v.sc[u] \/ (Op(t).ord = "SeqCst" /\ r.sc[u] = v.own[u])
  BY AfterWriteIs, AfterWriteFrom
<1>6. From(writes[a], xs, t, causality[t][t], v.own, Op(t).ord, K \cup {n + 1})
  BY <1>1, <1>2, <1>3, <1>4, WriteFrom
<1>7. /\ writes'[a] = xs /\ \A d \in Atomics : d # a => writes'[d] = writes[d]
  BY DEF MemoryTypes
<1> HIDE DEF r, xs
<1>8. /\ r.own[t] \in Nat /\ causality'[t][t] = r.own[t] + 1 /\ scCausality' = r.sc
      /\ \A u \in Threads \ {t} : causality'[u] = causality[u] /\ causality'[t][u] = r.own[u]
  <2>1. Conclude(t, r)
    BY DEF r
  <2>2. QED
    BY <1>1, <1>5, <2>1, ConcludeFrom
<1>9. v.own[t] < causality'[t][t]
  BY <1>1, <1>4, <1>5, <1>8, SMTT(30) DEF Before
<1>10. From(writes[a], writes'[a], t, causality[t][t], v.own, Op(t).ord, {rf, n + 1})
  <2>0. PICK L, M, d, ys : /\ L = K \cup {n + 1} /\ M = {rf, n + 1}
                           /\ d = causality[t][t] /\ ys = writes'[a]
    OBVIOUS
  <2>1. L = K \cup {n + 1} /\ M = {rf, n + 1} /\ L \subseteq M /\ d = causality[t][t] /\ ys = writes'[a]
    BY <2>0
  <2>2. From(writes[a], ys, t, d, v.own, Op(t).ord, L)
    BY <1>6, <1>7, <2>1
  <2>3. From(writes[a], ys, t, d, v.own, Op(t).ord, M)
    BY <2>1, <2>2, FromMore
  <2>4. QED
    BY <2>1, <2>3
<1>11. PICK e \in Events :
         /\ trace' = Append(trace, e) /\ t # Root /\ e.op \in ToSet(program[t])
         /\ e.by = t /\ e.op = Op(t) /\ e.rf = rf /\ e.wr = n + 1
         /\ IsSeqCst(e) <=> Op(t).ord = "SeqCst"
  <2>1. n + 1 \in Nat /\ rf + (n + 1) > 0 /\ Op(t).kind \in {"load", "store", "rmw", "cas"}
    BY <1>3 DEF Writing
  <2>2. QED
    BY <1>1, <2>1, AccessIs
<1>12. ASSUME NEW u \in Threads
       PROVE  /\ \/ v.own[u] = causality[t][u]
                 \/ e.rf > 0 /\ Acquires(e.op.ord) /\ v.own[u] = writes[a][e.rf].sync[u]
                 \/ IsSeqCst(e) /\ e.op.kind # "store" /\ v.own[u] = scCausality[u]
              /\ scCausality'[u] = scCausality[u] \/ (IsSeqCst(e) /\ scCausality'[u] = v.own[u])
  BY <1>5, <1>8, <1>11
<1>13. ASSUME NEW u \in Threads \ {t}
       PROVE  /\ causality'[u] = causality[u]
              /\ causality'[t][u] = v.own[u] \/ (IsSeqCst(e) /\ causality'[t][u] = scCausality[u])
  BY <1>5, <1>8, <1>11
<1>14. /\ e.rf + e.wr > 0 /\ e.op.obj = a
       /\ e.rf > 0 => e.rf \in 1 .. Len(writes[a])
       /\ e.wr = Len(writes[a]) + 1 /\ e.op.kind \in Writing
       /\ e.rf > 0 \/ e.op.kind = "store"
       /\ From(writes[a], writes'[a], t, causality[t][t], v.own, e.op.ord, {e.rf, e.wr})
  BY <1>3, <1>10, <1>11
<1>15. Accessed(e, v.own)
  BY <1>1, <1>4, <1>7, <1>9, <1>11, <1>12, <1>13, <1>14 DEF Accessed
<1>16. QED
  BY <1>15

LEMMA StoreAccessed ==
  ASSUME IInv, Spawned, MemoryTypes, Precise, NEW t \in Created, ~AtEnd(t),
         Op(t).obj \in Atomics, Op(t).kind = "store", Op(t).val \in Nat,
         program' = program, status' = status,
         Store(t, Op(t).obj, Op(t).val, Op(t).ord), Did(t, 0, Len(writes[Op(t).obj]) + 1, 0)
  PROVE  \E e, c : Accessed(e, c)
<1>1. PICK a, n, v : a = Op(t).obj /\ n = Len(writes[a]) /\ v = View(t)
  OBVIOUS
<1>2. t \in Threads /\ a \in Atomics
  BY <1>1 DEF Created
<1>3. writes[a] \in Seq(Writes) /\ writes[a] # <<>>
  BY <1>2 DEF MemoryTypes, IInv, Histories
<1>4. /\ v \in Views /\ v.own = causality[t] /\ v.sc = scCausality
      /\ causality[t] \in Vectors /\ causality[t][t] \in Nat
  BY <1>1, <1>2, ViewIs DEF MemoryTypes, Vectors
<1>5. MemoryTypes' /\ Op(t).kind \in Writing
  BY <1>1, <1>2, <1>3, StoreEffect DEF Writing
<1>6. From(writes[a], writes[a], t, causality[t][t], causality[t], Op(t).ord, {})
  BY DEF From
<1>7. /\ writes' = [writes EXCEPT ![a] = Write(writes[a], t, v, Op(t).val, Op(t).ord)]
      /\ Conclude(t, AfterWrite(v, Op(t).ord))
  BY <1>1 DEF Store
<1>8. PICK rf, K : rf = 0 /\ K = {}
  BY SMTT(30)
<1>9. /\ \A u \in Threads :
           /\ \/ v.own[u] = causality[t][u]
              \/ rf > 0 /\ Acquires(Op(t).ord) /\ v.own[u] = writes[a][rf].sync[u]
              \/ Op(t).ord = "SeqCst" /\ Op(t).kind # "store" /\ v.own[u] = scCausality[u]
           /\ v.sc[u] = scCausality[u] \/ (Op(t).ord = "SeqCst" /\ v.sc[u] = v.own[u])
      /\ Did(t, rf, n + 1, rf) /\ rf \in Nat /\ K \subseteq {rf} /\ causality[t][t] <= v.own[t]
      /\ (rf = 0 /\ Op(t).kind = "store") \/ rf = n
      /\ From(writes[a], writes[a], t, causality[t][t], causality[t], Op(t).ord, K)
  BY <1>1, <1>4, <1>6, <1>8
<1>10. QED
  BY <1>1, <1>2, <1>3, <1>4, <1>5, <1>7, <1>9, WriteAccessed

LEMMA RmwAccessed ==
  ASSUME IInv, Spawned, MemoryTypes, Precise, NEW t \in Created, ~AtEnd(t),
         Op(t).obj \in Atomics, Op(t).kind \in {"rmw", "cas"}, NEW val \in Nat,
         program' = program, status' = status,
         LET a == Op(t).obj  n == Len(writes[a]) IN
           Rmw(t, a, val, Op(t).ord) /\ Did(t, n, n + 1, writes[a][n].value)
  PROVE  \E e, c : Accessed(e, c)
<1>1. PICK a, n : a = Op(t).obj /\ n = Len(writes[a])
  OBVIOUS
<1> DEFINE old == writes[a]
           ws == [old EXCEPT ![n].firstSeen = Touched(@, t, causality[t])]
           v == SyncRead(View(t), old[n].sync, Op(t).ord)
<1>2. t \in Threads /\ a \in Atomics
  BY <1>1 DEF Created
<1>3. old \in Seq(Writes) /\ old # <<>>
  BY <1>2 DEF MemoryTypes, IInv, Histories
<1>4. n \in Nat /\ n \in 1 .. Len(old)
  <2>1. n \in Nat /\ n # 0
    BY <1>1, <1>3, LenProperties, EmptySeq
  <2>2. QED
    BY <1>1, <2>1
<1>5. old[n].sync \in Vectors /\ old[n].value \in Nat
  <2>1. old[n] \in Writes
    BY <1>3, <1>4, ElementOfSeq
  <2>2. QED
    BY <2>1 DEF Writes
<1>6. /\ View(t) \in Views /\ View(t).own = causality[t] /\ View(t).sc = scCausality
      /\ causality[t] \in Vectors
  BY <1>2, ViewIs DEF MemoryTypes
<1>7. /\ v \in Views /\ Before(causality[t], v.own)
      /\ \A u \in Threads :
           /\ \/ v.own[u] = causality[t][u]
              \/ Acquires(Op(t).ord) /\ v.own[u] = old[n].sync[u]
              \/ Op(t).ord = "SeqCst" /\ v.own[u] = scCausality[u]
           /\ v.sc[u] = scCausality[u] \/ (Op(t).ord = "SeqCst" /\ v.sc = v.own)
  <2>1. v \in Views /\ Before(View(t).own, v.own)
    BY <1>5, <1>6, SyncReadIs
  <2>2. \A u \in Threads :
          /\ \/ v.own[u] = View(t).own[u]
             \/ Acquires(Op(t).ord) /\ v.own[u] = old[n].sync[u]
             \/ Op(t).ord = "SeqCst" /\ v.own[u] = View(t).sc[u]
          /\ v.sc[u] = View(t).sc[u] \/ (Op(t).ord = "SeqCst" /\ v.sc = v.own)
    BY <1>5, <1>6, SyncReadFrom
  <2> HIDE DEF v, old
  <2>3. QED
    BY <1>6, <2>1, <2>2
<1>8. /\ writes' = [writes EXCEPT ![a] = Write(ws, t, v, val, Op(t).ord)]
      /\ Conclude(t, AfterWrite(v, Op(t).ord))
  BY <1>1 DEF Rmw
<1>9. /\ From(old, ws, t, causality[t][t], causality[t], Op(t).ord, {n})
      /\ ws \in Seq(Writes) /\ Len(ws) = n
  <2>1. From(old, ws, t, causality[t][t], causality[t], Op(t).ord, {n})
    BY <1>2, <1>3, <1>4, <1>6, TouchFrom
  <2>2. ws \in Seq(Writes) /\ Len(ws) = Len(old)
    <3>1. n \in 1 .. Len(old) /\ old \in Seq(Writes) /\ causality[t] \in Vectors
      BY <1>3, <1>4, <1>6
    <3>2. /\ ws \in Seq(Writes) /\ Len(ws) = Len(old)
          /\ Grown(old, ws, t, causality[t]) /\ ws[n].firstSeen[t] # Unseen
      BY <1>2, <3>1, TouchGrows
    <3>3. QED
      BY <3>2
  <2>3. QED
    BY <1>1, <2>1, <2>2
<1>10. MemoryTypes' /\ Op(t).kind \in Writing /\ Op(t).kind # "store"
  BY <1>1, <1>2, <1>3, RmwEffect, Zenon DEF Writing
<1>11. Did(t, n, n + 1, old[n].value) /\ causality[t][t] <= v.own[t]
  BY <1>1, <1>2, <1>7, Zenon DEF Before
<1> HIDE DEF ws, v
<1>12. \A u \in Threads :
         /\ \/ v.own[u] = causality[t][u]
            \/ n > 0 /\ Acquires(Op(t).ord) /\ v.own[u] = writes[a][n].sync[u]
            \/ Op(t).ord = "SeqCst" /\ Op(t).kind # "store" /\ v.own[u] = scCausality[u]
         /\ v.sc[u] = scCausality[u] \/ (Op(t).ord = "SeqCst" /\ v.sc[u] = v.own[u])
  BY <1>4, <1>7, <1>10
<1> HIDE DEF old
<1>13. From(writes[a], ws, t, causality[t][t], causality[t], Op(t).ord, {n})
  BY <1>9 DEF old
<1>14. QED
  BY <1>1, <1>2, <1>4, <1>5, <1>7, <1>8, <1>9, <1>10, <1>11, <1>12, <1>13, WriteAccessed, Zenon

\* The root spawns the next thread.
LEMMA SpawnApart ==
  ASSUME IInv, Spawned, MemoryTypes, Precise, NEW t \in Created, ~AtEnd(t), Op(t).kind = "spawn",
         NEW u \in Nat, Inherit(t, u), Did(t, 0, 0, u), program' = program,
         status' = [status EXCEPT ![u] = "Runnable"]
  PROVE  \E e : Apart(e)
<1> DEFINE e == Event(t, 0, 0, u)
           new == Inc(Join(causality[u], causality[t]), u)
<1>1. t \in Threads /\ t = Root /\ Op(t) \in ToSet(program[t])
  BY RootSpawns, OperationIs DEF Created
<1>2. /\ e \in Events /\ trace' = Append(trace, e)
      /\ e.by = t /\ e.op = Op(t) /\ e.rf = 0 /\ e.wr = 0 /\ e.val = u
  BY <1>1, EventIs
<1> HIDE DEF e
<1>3. MemoryTypes' /\ writes' = writes /\ scCausality' = scCausality
  BY <1>1, InheritEffect DEF Inherit
<1>4. Created' \subseteq Created \cup {u}
  BY DEF Created
<1>5. ASSUME NEW w \in Threads
      PROVE  /\ causality[w][w] <= causality'[w][w]
             /\ Starts(e, w) => causality'[w][w] > 0
             /\ \A x \in Threads \ {w} :
                  \/ causality'[w][x] = causality[w][x]
                  \/ Starts(e, w) /\ causality'[w][x] = causality[Root][x]
  <2>1. causality[w] \in Vectors /\ causality[w][w] \in Nat
    BY DEF MemoryTypes, Vectors
  <2>2. CASE w # u
    <3>1. causality'[w] = causality[w] /\ ~Starts(e, w)
      BY <1>2, <2>2 DEF MemoryTypes, Inherit, Starts
    <3>2. QED
      BY <2>1, <3>1
  <2>3. CASE w = u
    <3>1. causality'[w] = new /\ Starts(e, w)
      BY <1>2, <2>3 DEF MemoryTypes, Inherit, Starts
    <3>2. PICK v : v = Join(causality[u], causality[t])
      OBVIOUS
    <3>3. /\ v \in Vectors /\ v[w] \in Nat /\ causality[w][w] <= v[w]
          /\ \A x \in Threads : v[x] \in {causality[w][x], causality[Root][x]}
      <4>1. causality[t] \in Vectors
        BY <1>1 DEF MemoryTypes
      <4>2. v \in Vectors /\ Before(causality[w], v)
        BY <2>1, <2>3, <3>2, <4>1, JoinIs
      <4>3. \A x \in Threads : v[x] \in {causality[w][x], causality[Root][x]}
        BY <1>1, <2>1, <2>3, <3>2, <4>1, JoinFrom
      <4>4. QED
        BY <4>2, <4>3 DEF Vectors, Before
    <3>4. new = [v EXCEPT ![w] = @ + 1]
      BY <2>3, <3>2 DEF Inc
    <3>5. new[w] = v[w] + 1 /\ \A x \in Threads : x # w => new[x] = v[x]
      BY <3>3, <3>4 DEF Vectors
    <3> HIDE DEF new
    <3>6. QED
      BY <2>1, <3>1, <3>3, <3>5
  <2>4. QED
    BY <2>2, <2>3
<1>6. \A w \in Threads : w = e.val => Starts(e, w)
  BY <1>2 DEF Starts
<1>7. Apart(e)
  BY <1>1, <1>2, <1>3, <1>4, <1>5, <1>6 DEF Apart
<1>8. QED
  BY <1>7

\* What a step does where causality is exact.
Idle == UNCHANGED <<memory, trace, program>> /\ Created' \subseteq Created

LEMMA BranchIdle ==
  ASSUME ThreadTypes, NEW t \in Created, NEW st, st # "Absent", NEW op, NEW where,
         Branch(t, st, op, where)
  PROVE  program' = program /\ Created' \subseteq Created
<1>1. program' = program /\ (status' = status \/ status' = [status EXCEPT ![t] = st])
  BY DEF Branch, Panic, threads, process
<1>2. QED
  BY <1>1 DEF Created, ThreadTypes

LEMMA PreciseDeeds ==
  ASSUME IInv, Spawned, Types, Precise, NEW t \in Threads, Step(t)
  PROVE  Idle \/ (\E e, c : Accessed(e, c)) \/ \E e : Apart(e)
<1>0. MemoryTypes /\ ThreadTypes
  BY DEF Types
<1>a. active = t => t \in Created
  BY NoneAssumption DEF Spawned
<1>b. ~AtEnd(t) => /\ Fits(Op(t)) /\ Op(t).kind \notin {"lock", "unlock", "send", "join"}
                   /\ t = Root <=> Op(t).kind = "spawn"
  BY OperationIs, RootSpawns
<1>c. UNCHANGED <<status, process>> => program' = program /\ status' = status /\ Created' = Created
  BY DEF process, Created
<1>1. CASE BranchAtomic(t)
  <2>1. active = t /\ Branch(t, "Runnable", Op(t), "branched") /\ UNCHANGED <<memory, trace>>
    BY <1>1 DEF BranchAtomic, At
  <2>2. QED
    BY <1>0, <1>a, <2>1, BranchIdle DEF Idle
<1>2. CASE \/ BranchLock(t) \/ BranchSend(t) \/ JoinParks(t) \/ BranchJoin(t)
           \/ LockEnds(t) \/ UnlockEnds(t) \/ SendEnds(t) \/ JoinEnds(t)
  BY <1>2, <1>b DEF BranchLock, BranchSend, JoinParks, BranchJoin, LockEnds, UnlockEnds,
                    SendEnds, JoinEnds, At
<1>3. CASE LoadEnds(t)
  <2>0. t \in Created /\ ~AtEnd(t) /\ Op(t).kind = "load" /\ Op(t).obj \in Atomics
    BY <1>3, <1>a, <1>b DEF LoadEnds, At, Fits
  <2>1. CASE Panic /\ UNCHANGED <<memory, trace>>
    <3>1. UNCHANGED <<status, process>>
      BY <2>1 DEF Panic, threads
    <3>2. QED
      BY <1>c, <2>1, <3>1 DEF Idle
  <2>2. CASE \E k \in DOMAIN writes[Op(t).obj] : Given(t, k)
    <3>1. PICK k \in DOMAIN writes[Op(t).obj] : Given(t, k)
      BY <2>2
    <3>2. /\ Load(t, Op(t).obj, Op(t).ord, k) /\ Did(t, k, 0, writes[Op(t).obj][k].value)
          /\ UNCHANGED <<status, process>>
      BY <3>1 DEF Given
    <3>3. QED
      BY <1>0, <1>c, <2>0, <3>2, LoadAccessed
  <2>3. CASE phase = "audit"
    <3>1. PICK n \in DOMAIN Candidates(t, Op(t).obj, Op(t).ord) :
            Given(t, Candidates(t, Op(t).obj, Op(t).ord)[n])
      BY <1>3, <2>3 DEF LoadEnds
    <3>2. Candidates(t, Op(t).obj, Op(t).ord)[n] \in DOMAIN writes[Op(t).obj]
      BY <2>0, CandidatesAre DEF IInv, ToSet
    <3>3. QED
      BY <2>2, <3>1, <3>2
  <2>4. QED
    BY <1>3, <2>1, <2>2, <2>3 DEF LoadEnds
<1>4. CASE StoreEnds(t)
  <2>1. /\ t \in Created /\ ~AtEnd(t) /\ Op(t).kind = "store" /\ Op(t).obj \in Atomics
        /\ Op(t).val \in Nat
        /\ Store(t, Op(t).obj, Op(t).val, Op(t).ord) /\ Did(t, 0, Len(writes[Op(t).obj]) + 1, 0)
        /\ UNCHANGED <<status, process>>
    BY <1>4, <1>a, <1>b DEF StoreEnds, At, Fits
  <2>2. QED
    BY <1>0, <1>c, <2>1, StoreAccessed
<1>5. CASE RmwEnds(t)
  <2> DEFINE a == Op(t).obj
             n == Len(writes[a])
  <2>1. /\ t \in Created /\ ~AtEnd(t) /\ Op(t).kind = "rmw" /\ a \in Atomics
        /\ Rmw(t, a, writes[a][n].value + 1, Op(t).ord) /\ Did(t, n, n + 1, writes[a][n].value)
        /\ UNCHANGED <<status, process>>
    BY <1>5, <1>a, <1>b DEF RmwEnds, At, Fits
  <2>2. writes[a][n].value + 1 \in Nat
    <3>1. writes[a] \in Seq(Writes) /\ writes[a] # <<>>
      BY <1>0, <2>1 DEF MemoryTypes, IInv, Histories
    <3>2. n \in 1 .. n
      BY <3>1, LenProperties, EmptySeq
    <3>3. writes[a][n] \in Writes
      BY <3>1, <3>2, ElementOfSeq
    <3>4. QED
      BY <3>3 DEF Writes
  <2>3. QED
    BY <1>0, <1>c, <2>1, <2>2, RmwAccessed
<1>6. CASE CasEnds(t)
  <2> DEFINE a == Op(t).obj
             n == Len(writes[a])
             found == writes[a][n].value = Op(t).cur
  <2>1. /\ t \in Created /\ ~AtEnd(t) /\ Op(t).kind = "cas" /\ a \in Atomics /\ Op(t).val \in Nat
        /\ IF found THEN Rmw(t, a, Op(t).val, Op(t).ord) ELSE Load(t, a, OnFailure(Op(t).ord), n)
        /\ Did(t, n, IF found THEN n + 1 ELSE 0, writes[a][n].value)
        /\ UNCHANGED <<status, process>>
    BY <1>6, <1>a, <1>b DEF CasEnds, At, Fits
  <2>2. CASE found
    BY <1>0, <1>c, <2>1, <2>2, RmwAccessed
  <2>3. CASE ~found
    <3>1. n \in DOMAIN writes[a]
      <4>1. writes[a] \in Seq(Writes) /\ writes[a] # <<>>
        BY <1>0, <2>1 DEF MemoryTypes, IInv, Histories
      <4>2. QED
        BY <4>1, LenProperties, EmptySeq
    <3>2. Op(t).ord \in {"Relaxed", "Release", "Acquire", "AcqRel", "SeqCst"}
      BY <1>b, <2>1 DEF Fits
    <3>3. /\ Acquires(OnFailure(Op(t).ord)) => Acquires(Op(t).ord)
          /\ OnFailure(Op(t).ord) = "SeqCst" => Op(t).ord = "SeqCst"
      BY <3>2 DEF Acquires, OnFailure
    <3>4. Load(t, a, OnFailure(Op(t).ord), n) /\ Did(t, n, 0, writes[a][n].value)
      BY <2>1, <2>3
    <3> HIDE DEF n
    <3>5. QED
      BY <1>0, <1>c, <2>1, <3>1, <3>3, <3>4, LoadAccessed
  <2>4. QED
    BY <2>2, <2>3
<1>7. CASE CellAccess(t)
  <2>1. CASE Races(t, Op(t).obj)
    <3>1. UNCHANGED <<memory, trace, status, process>>
      BY <1>7, <2>1 DEF CellAccess, threads
    <3>2. QED
      BY <1>c, <3>1 DEF Idle
  <2>2. CASE ~Races(t, Op(t).obj)
    <3>1. /\ t \in Created /\ ~AtEnd(t) /\ Op(t).kind \in {"get", "set"} /\ Op(t).obj \in Cells
          /\ IF Op(t).kind = "set" THEN WithMut(t, Op(t).obj) ELSE UNCHANGED memory
          /\ Did(t, 0, 0, 0) /\ UNCHANGED <<status, process>>
      BY <1>7, <1>a, <1>b, <2>2 DEF CellAccess, At, Fits
    <3>2. UNCHANGED <<causality, scCausality, writes>> /\ MemoryTypes'
      <4>1. CASE Op(t).kind = "get"
        BY <1>0, <3>1, <4>1, SameMemory DEF memory
      <4>2. CASE Op(t).kind = "set"
        <5> DEFINE new == Join(cells[Op(t).obj], causality[t])
        <5>1. /\ cells' = [cells EXCEPT ![Op(t).obj] = new]
              /\ UNCHANGED <<causality, scCausality, writes>>
          BY <3>1, <4>2 DEF WithMut
        <5>2. new \in Vectors
          BY <1>0, <3>1, JoinIs DEF MemoryTypes
        <5> HIDE DEF new
        <5>3. QED
          BY <1>0, <5>1, <5>2 DEF MemoryTypes
      <4>3. QED
        BY <3>1, <4>1, <4>2
    <3> DEFINE e == Event(t, 0, 0, 0)
    <3>3. /\ e \in Events /\ trace' = Append(trace, e)
          /\ e.by = t /\ e.op = Op(t) /\ e.rf = 0 /\ e.wr = 0
      BY <3>1, EventIs
    <3> HIDE DEF e
    <3>4. t # Root /\ Op(t) \in ToSet(program[t])
      BY <1>b, <3>1, OperationIs
    <3>5. Apart(e)
      BY <1>c, <3>1, <3>2, <3>3, <3>4 DEF Apart
    <3>6. QED
      BY <3>5
  <2>3. QED
    BY <2>1, <2>2
<1>8. CASE SpawnEnds(t)
  <2>1. PICK u : u = Cardinality(Created)
    OBVIOUS
  <2>2. /\ t \in Created /\ ~AtEnd(t) /\ Op(t).kind = "spawn" /\ Inherit(t, u) /\ Did(t, 0, 0, u)
        /\ status' = [status EXCEPT ![u] = "Runnable"] /\ program' = program
    BY <1>8, <1>a, <2>1 DEF SpawnEnds, At, process
  <2>3. u \in Nat
    <3>1. PICK n \in Threads : Created = 0 .. n
      BY DEF Spawned
    <3>2. n \in Nat
      BY ThreadsAreNumbers
    <3>3. QED
      BY <2>1, <3>1, <3>2, FS_Interval, FS_CardinalityType
  <2>4. QED
    BY <1>0, <2>2, <2>3, SpawnApart
<1>9. CASE Finish(t)
  <2>1. active = t /\ Branch(t, "Terminated", NoOp, "client") /\ UNCHANGED <<memory, trace>>
    BY <1>9 DEF Finish
  <2>2. QED
    BY <1>0, <1>a, <2>1, BranchIdle DEF Idle
<1>10. QED
  BY <1>1, <1>2, <1>3, <1>4, <1>5, <1>6, <1>7, <1>8, <1>9 DEF Step

LEMMA StepProgram ==
  ASSUME NEW t \in Threads, Step(t)
  PROVE  program' = program
<1>1. \A st, op, where : Branch(t, st, op, where) => program' = program
  BY DEF Branch, Panic, process
<1>2. CASE BranchAtomic(t) \/ BranchLock(t) \/ BranchSend(t) \/ JoinParks(t) \/ BranchJoin(t) \/ Finish(t)
  BY <1>1, <1>2 DEF BranchAtomic, BranchLock, BranchSend, JoinParks, BranchJoin, Finish
<1>3. CASE LoadEnds(t)
  BY <1>3 DEF LoadEnds, Given, Panic, process
<1>4. CASE \/ StoreEnds(t) \/ RmwEnds(t) \/ CasEnds(t) \/ LockEnds(t) \/ UnlockEnds(t)
           \/ CellAccess(t) \/ SpawnEnds(t) \/ SendEnds(t) \/ JoinEnds(t)
  BY <1>4 DEF StoreEnds, RmwEnds, CasEnds, LockEnds, UnlockEnds, CellAccess, SpawnEnds, SendEnds,
              JoinEnds, process
<1>5. QED
  BY <1>2, <1>3, <1>4 DEF Step

\* The memory and the history stay as they are.
LEMMA IdleKeeps ==
  ASSUME Exact, Idle
  PROVE  Exact'
<1>1. /\ UNCHANGED <<causality, scCausality, writes, trace, program>> /\ Created' \subseteq Created
  BY DEF Idle, memory
<1>2. Precise' => Precise
  BY <1>1 DEF Precise, Uses
<1> SUFFICES ASSUME Precise PROVE Ahead' /\ Drawn' /\ \E S, P : Dated(S, P)'
  BY <1>2 DEF Exact
<1>3. Ahead /\ Drawn /\ \E S, P : Dated(S, P)
  BY DEF Exact
<1>4. Ahead'
  BY <1>1, <1>3 DEF Ahead, Below
<1>5. Drawn'
  BY <1>1, <1>3 DEF Drawn
<1>6. ASSUME NEW S, NEW P, Dated(S, P)
      PROVE  Dated(S, P)'
  <2>1. \A i, j : Directly(i, j)' <=> Directly(i, j)
    BY <1>1 DEF Directly, Tells, Synchronizes, IsSeqCst
  <2>2. Follows(P)'
    <3>1. /\ P \in [DOMAIN trace' -> SUBSET DOMAIN trace']
          /\ \A j \in DOMAIN trace :
               P[j] = {j} \cup UNION {P[i] : i \in {k \in 1 .. j - 1 : Directly(k, j)}}
      BY <1>1, <1>6 DEF Dated, Follows
    <3>2. \A j : {k \in 1 .. j - 1 : Directly(k, j)'} = {k \in 1 .. j - 1 : Directly(k, j)}
      BY <2>1
    <3>3. \A j \in DOMAIN trace' :
            P[j] = {j} \cup UNION {P[i] : i \in {k \in 1 .. j - 1 : Directly(k, j)'}}
      BY <1>1, <3>1, <3>2
    <3>4. QED
      BY <3>1, <3>3 DEF Follows
  <2>3. Heard(S, P)'
    BY <1>1, <1>6 DEF Dated, Heard, Counts, Knows, Tells, IsSeqCst
  <2>4. Agreed(S, P)' /\ Carried(S, P)' /\ Noted(S)'
    BY <1>1, <1>6 DEF Dated, Agreed, Carried, Noted, Counts, Heads, IsSeqCst
  <2>5. QED
    BY <1>1, <1>6, <2>2, <2>3, <2>4 DEF Dated
<1>7. QED
  BY <1>3, <1>4, <1>5, <1>6

\* An iteration starts.
LEMMA FreshExact ==
  ASSUME trace = <<>>, writes = [a \in Atomics |-> Fresh], scCausality = Zero,
         causality = [t \in Threads |-> Zero], status = OnlyRoot
  PROVE  Exact
<1>1. DOMAIN trace = {}
  OBVIOUS
<1>2. Created = {Root}
  BY CreatedFirst DEF Root
<1>3. \A a \in Atomics : Len(writes[a]) = 1 /\ writes[a][1].sync = Zero
  BY FreshIs DEF Fresh
<1>4. Ahead
  BY <1>2, <1>3 DEF Ahead, Below, Zero
<1>5. Drawn
  BY <1>1 DEF Drawn
<1>6. PICK f : f = [i \in {} |-> {}]
  OBVIOUS
<1>7. f \in [DOMAIN trace -> Nat] /\ f \in [DOMAIN trace -> SUBSET DOMAIN trace]
  BY <1>1, <1>6
<1>8. Follows(f) /\ Heard(f, f) /\ Agreed(f, f) /\ Carried(f, f)
  BY <1>1, <1>7 DEF Follows, Heard, Agreed, Carried
<1>9. Noted(f)
  BY <1>3 DEF Noted
<1>10. Dated(f, f)
  BY <1>1, <1>7, <1>8, <1>9 DEF Dated
<1>11. QED
  BY <1>4, <1>5, <1>10 DEF Exact

LEMMA ResetExact ==
  ASSUME Reset
  PROVE  Exact'
<1>1. /\ trace' = <<>> /\ writes' = [a \in Atomics |-> Fresh] /\ scCausality' = Zero
      /\ causality' = [t \in Threads |-> Zero] /\ status' = OnlyRoot
  BY DEF Reset, MemoryReset
<1>2. DOMAIN trace' = {}
  BY <1>1
<1>3. Created' = {Root}
  BY <1>1, ThreadsAreNumbers DEF Created, OnlyRoot, All
<1>4. \A a \in Atomics : Len(writes'[a]) = 1 /\ writes'[a][1].sync = Zero
  BY <1>1, FreshIs DEF Fresh
<1>5. Ahead'
  BY <1>1, <1>3, <1>4 DEF Ahead, Below, Zero
<1>6. Drawn'
  BY <1>2 DEF Drawn
<1>7. PICK f : f = [i \in {} |-> {}]
  OBVIOUS
<1>8. f \in [DOMAIN trace' -> Nat] /\ f \in [DOMAIN trace' -> SUBSET DOMAIN trace']
  BY <1>2, <1>7
<1>9. Follows(f)' /\ Heard(f, f)' /\ Agreed(f, f)' /\ Carried(f, f)'
  BY <1>2, <1>8 DEF Follows, Heard, Agreed, Carried
<1>10. Noted(f)'
  BY <1>4 DEF Noted
<1>11. Dated(f, f)'
  BY <1>2, <1>8, <1>9, <1>10 DEF Dated
<1>12. QED
  BY <1>5, <1>6, <1>11 DEF Exact

LEMMA NextExact ==
  ASSUME IInv, Spawned, Types, Causal, Exact, [Next]_vars
  PROVE  Exact'
<1>0. MemoryTypes /\ Histories
  BY DEF Types, IInv
<1>1. CASE Start \/ BeginIteration \/ Save \/ UNCHANGED vars
  <2>1. UNCHANGED <<memory, trace, program, status>>
    BY <1>1 DEF Start, BeginIteration, Save, vars, threads, process
  <2>2. QED
    BY <2>1, IdleKeeps DEF Idle, Created
<1>2. CASE EndIteration \/ Crash
  BY <1>2, ResetExact DEF EndIteration, Crash
<1>3. ASSUME NEW t \in Threads, Step(t)
      PROVE  Exact'
  <2>1. program' = program
    BY <1>3, StepProgram
  <2>2. Precise' => Precise
    BY <2>1 DEF Precise, Uses
  <2> SUFFICES ASSUME Precise PROVE Exact'
    BY <2>2 DEF Exact
  <2>3. Ahead /\ Drawn
    BY DEF Exact
  <2>4. PICK S, P : Dated(S, P)
    BY DEF Exact
  <2>5. CASE \E e, c : Accessed(e, c)
    BY <1>0, <2>3, <2>4, <2>5, AccessedKeeps DEF Exact
  <2>6. CASE \E e : Apart(e)
    BY <1>0, <2>3, <2>4, <2>6, ApartKeeps DEF Exact
  <2>7. CASE Idle
    BY <2>7, IdleKeeps
  <2>8. QED
    BY <1>3, <2>5, <2>6, <2>7, PreciseDeeds
<1>4. QED
  BY <1>1, <1>2, <1>3 DEF Next, Work

LEMMA ExactHolds == Spec => [](IInv /\ Spawned /\ Types /\ Causal /\ Exact)
<1>1. Init => Exact
  BY FreshExact DEF Init, MemoryInit
<1>2. IInv /\ Spawned /\ Types /\ Causal /\ Exact /\ [Next]_vars => Exact'
  BY NextExact
<1>3. QED
  BY <1>1, <1>2, CausalHolds, PTL DEF Spec

-------------------------------------------------------------------------------
\* pick_write goes back to the last write that is seen.
LEMMA UnseenOffered ==
  ASSUME Histories, NEW a \in Atomics, NEW t, NEW ord, NEW k \in DOMAIN writes[a],
         \A j \in k + 1 .. Len(writes[a]) :
           ~IsSeenBy(writes[a][j].firstSeen, causality[t]) /\ ~(ord = "SeqCst" /\ writes[a][j].seqCst)
  PROVE  k \in ToSet(Candidates(t, a, ord))
<1> DEFINE ws == writes[a]
           ends == {i \in DOMAIN ws : \/ IsSeenBy(ws[i].firstSeen, causality[t])
                                      \/ ord = "SeqCst" /\ ws[i].seqCst}
           from == Max({1} \cup ends)
           n == Len(ws) - from + 1
           up == [i \in 1 .. n |-> from + i - 1]
<1>1. Candidates(t, a, ord) = Reverse(up)
  BY DEF Candidates
<1>2. ws \in Seq(ToSet(ws)) /\ ws # <<>>
  BY DEF Histories
<1>3. Len(ws) \in Nat /\ DOMAIN ws = 1 .. Len(ws) /\ Len(ws) >= 1
  <2> HIDE DEF ws
  <2>1. Len(ws) \in Nat /\ DOMAIN ws = 1 .. Len(ws) /\ Len(ws) # 0
    BY <1>2, LenProperties, EmptySeq
  <2>2. QED
    BY <2>1
<1>4. k \in 1 .. Len(ws) /\ \A j \in ends : j \in 1 .. Len(ws) /\ j <= k
  <2>1. k \in 1 .. Len(ws)
    BY <1>3
  <2>2. ASSUME NEW j \in ends PROVE j \in 1 .. Len(ws) /\ j <= k
    <3>1. j \in 1 .. Len(ws) /\ j \notin k + 1 .. Len(ws)
      BY <1>3
    <3> HIDE DEF ends, ws
    <3>2. QED
      BY <1>3, <2>1, <3>1
  <2>3. QED
    BY <2>1, <2>2
<1>5. from \in 1 .. k
  <2> HIDE DEF ends, ws
  <2>1. {1} \cup ends \subseteq 1 .. k /\ {1} \cup ends \subseteq 0 .. Len(ws)
    BY <1>3, <1>4
  <2>2. from \in {1} \cup ends
    BY <1>3, <2>1, Greatest
  <2>3. QED
    BY <2>1, <2>2
<1> HIDE DEF ws, from
<1>6. n \in Nat /\ up \in [1 .. n -> Nat]
  BY <1>3, <1>4, <1>5
<1>7. up \in Seq(Nat) /\ Len(up) = n
  <2> HIDE DEF up, n
  <2>1. QED
    BY <1>6, FunctionIsSeq
<1>8. Len(ws) + 1 - k \in 1 .. n /\ n - (Len(ws) + 1 - k) + 1 \in 1 .. n
      /\ up[n - (Len(ws) + 1 - k) + 1] = k
  <2>1. Len(ws) + 1 - k \in 1 .. n /\ n - (Len(ws) + 1 - k) + 1 \in 1 .. n
        /\ from + (n - (Len(ws) + 1 - k) + 1) - 1 = k
    BY <1>3, <1>4, <1>5
  <2> HIDE DEF n
  <2>2. QED
    BY <2>1
<1>9. Reverse(up) = [i \in 1 .. n |-> up[n - i + 1]]
  <2> HIDE DEF up, n
  <2>1. QED
    BY <1>7 DEF Reverse
<1> HIDE DEF up, n
<1>10. PICK i \in 1 .. n : up[n - i + 1] = k
  BY <1>8
<1>11. QED
  BY <1>1, <1>9, <1>10 DEF ToSet

\* What is known by the order P is known.
LEMMA KnowsIs ==
  ASSUME trace \in Seq(Events), NEW P, Follows(P), NEW t
  PROVE  Knows(P, t) = Known(t)
<1>1. Len(trace) \in Nat /\ DOMAIN trace = 1 .. Len(trace)
  BY LenProperties
<1>2. \A j \in DOMAIN trace : P[j] = Past[j]
  <2> DEFINE S == {j \in DOMAIN trace : P[j] # Past[j]}
  <2> SUFFICES ASSUME S # {} PROVE FALSE
    OBVIOUS
  <2>1. S \subseteq Nat
    BY <1>1
  <2>2. PICK j \in S : \A m \in S : j <= m
    BY <2>1, Least
  <2>3. j \in 1 .. Len(trace) /\ P[j] # Past[j]
    BY <1>1
  <2>4. \A k \in 1 .. j - 1 : k \in DOMAIN trace /\ ~(j <= k)
    BY <1>1, <2>3
  <2>5. \A k \in 1 .. j - 1 : P[k] = Past[k]
    BY <2>2, <2>4
  <2>6. PICK D : D = {k \in 1 .. j - 1 : Directly(k, j)}
    OBVIOUS
  <2>7. {P[i] : i \in D} = {Past[i] : i \in D}
    BY <2>5, <2>6
  <2>8. P[j] = {j} \cup UNION {P[i] : i \in D}
    BY <1>1, <2>3, <2>6 DEF Follows
  <2>9. Past[j] = {j} \cup UNION {Past[i] : i \in D}
    BY <1>1, <2>3, <2>6, PastIs
  <2>10. QED
    BY <2>3, <2>7, <2>8, <2>9
<1>3. PICK D : D = {k \in DOMAIN trace : Tells(k, t, Len(trace))}
  OBVIOUS
<1>4. {P[i] : i \in D} = {Past[i] : i \in D}
  BY <1>2, <1>3
<1>5. QED
  BY <1>3, <1>4 DEF Knows, Known

-------------------------------------------------------------------------------
\* Where causality is exact a load is offered every write it may read: none that the
\* program could return is left out of the search (Atomic::pick_write,
\* FirstSeen::is_seen_by, atomic.rs; Synchronize, synchronize.rs).
THEOREM LoadsAllowed == Spec => []LoadsAreAllowed
<1>1. IInv /\ Spawned /\ Types /\ Causal /\ Exact =>
        (Precise => \A t \in Threads : At(t, "load", "branched") =>
           Allowed(t, Op(t).obj, Op(t).ord) \subseteq ToSet(Candidates(t, Op(t).obj, Op(t).ord)))
  <2> SUFFICES ASSUME IInv, Types, Causal, Exact, Precise,
                      NEW t \in Threads, At(t, "load", "branched"),
                      NEW k \in Allowed(t, Op(t).obj, Op(t).ord)
               PROVE  k \in ToSet(Candidates(t, Op(t).obj, Op(t).ord))
    OBVIOUS
  <2>1. PICK a, ord : a = Op(t).obj /\ ord = Op(t).ord
    OBVIOUS
  <2>2. /\ a \in Atomics /\ trace \in Seq(Events) /\ Histories
        /\ causality \in [Threads -> Vectors] /\ MemoryTypes
    BY <2>1, OperationIs DEF At, Fits, Causal, Types, MemoryTypes, IInv
  <2>3. /\ k \in DOMAIN writes[a]
        /\ \A j \in k + 1 .. Len(writes[a]) :
             /\ ~(ord = "SeqCst" /\ writes[a][j].seqCst)
             /\ \A i \in Known(t) : ~(j \in {trace[i].rf, trace[i].wr} /\ trace[i].op.obj = a)
    BY <2>1 DEF Allowed
  <2>4. PICK S, P : Dated(S, P)
    BY DEF Exact
  <2>5. ASSUME NEW j \in k + 1 .. Len(writes[a]), IsSeenBy(writes[a][j].firstSeen, causality[t])
        PROVE  FALSE
    <3>1. k \in 1 .. Len(writes[a]) /\ j \in 1 .. Len(writes[a]) /\ j > 1
      <4>1. Len(writes[a]) \in Nat /\ DOMAIN writes[a] = 1 .. Len(writes[a])
        BY <2>2, LenProperties DEF MemoryTypes
      <4>2. k \in 1 .. Len(writes[a])
        BY <2>3, <4>1
      <4>3. QED
        BY <4>1, <4>2
    <3>2. PICK u \in Threads :
            writes[a][j].firstSeen[u] # Unseen /\ writes[a][j].firstSeen[u] <= causality[t][u]
      BY <2>5 DEF IsSeenBy
    <3>3. PICK i \in DOMAIN trace :
            /\ u # Root /\ trace[i].by = u /\ trace[i].op.obj = a
            /\ j \in {trace[i].rf, trace[i].wr} /\ S[i] <= writes[a][j].firstSeen[u]
      BY <2>2, <2>4, <3>1, <3>2 DEF Dated, Noted
    <3>4. S[i] <= causality[t][u]
      <4>1. writes[a][j].firstSeen[u] \in Nat
        BY <2>2, <3>1, <3>2, SyncIs
      <4>2. S[i] \in Nat /\ causality[t][u] \in Nat
        BY <2>2, <2>4 DEF Dated, Vectors
      <4>3. QED
        BY <3>2, <3>3, <4>1, <4>2
    <3>5. i \in Knows(P, t)
      BY <2>4, <3>3, <3>4 DEF Dated, Heard, Counts
    <3>6. i \in Known(t)
      BY <2>2, <2>4, <3>5, KnowsIs DEF Dated
    <3>7. QED
      BY <2>3, <3>3, <3>6
  <2>6. k \in ToSet(Candidates(t, a, ord))
    BY <2>2, <2>3, <2>5, UnseenOffered
  <2>7. QED
    BY <2>1, <2>6
<1>2. NothingStale /\ (Precise => \A t \in Threads : At(t, "load", "branched") =>
        Allowed(t, Op(t).obj, Op(t).ord) \subseteq ToSet(Candidates(t, Op(t).obj, Op(t).ord)))
          => LoadsAreAllowed
  BY DEF LoadsAreAllowed, NothingStale
<1>3. QED
  BY <1>1, <1>2, ExactHolds, OffersAreAllowed, PTL
===============================================================================
