------------------------------- MODULE MCSearch -------------------------------
EXTENDS SearchProperties, TLC

CONSTANTS AX, AY, MU, MV, CE

Ld(a, ord) == [kind |-> "load", obj |-> a, ord |-> ord, leaves |-> {}]
If(a, ord) == [kind |-> "load", obj |-> a, ord |-> ord, leaves |-> {0}]
St(a, val, ord) == [kind |-> "store", obj |-> a, ord |-> ord, val |-> val]
Add(a, ord) == [kind |-> "rmw", obj |-> a, ord |-> ord]
Cas(a, cur, val, ord) == [kind |-> "cas", obj |-> a, ord |-> ord, cur |-> cur, val |-> val]
Lock(m) == [kind |-> "lock", obj |-> m]
Unlock(m) == [kind |-> "unlock", obj |-> m]
Get == [kind |-> "get", obj |-> CE]
Set == [kind |-> "set", obj |-> CE]
Spawn == [kind |-> "spawn"]
Send(t) == [kind |-> "send", obj |-> t]
Joins(t) == [kind |-> "join", obj |-> t]

Program(root, first, second) == (0 :> root) @@ (1 :> first) @@ (2 :> second)
Two(first, second) == Program(<<Spawn, Spawn>>, first, second)

\* Two threads of two operations each on two atomics.
Small == {Two(p, q) : p \in [1 .. 2 -> {Ld(AX, "Relaxed"), St(AX, 1, "Relaxed"), Add(AY, "AcqRel")}],
                      q \in [1 .. 2 -> {Ld(AX, "Acquire"), St(AX, 2, "Release"),
                                        St(AY, 2, "SeqCst"), Ld(AY, "SeqCst")}]}

\* Message passing: what the first load tells the thread decides what the second may read.
Passed == {Two(<<St(AX, 1, put)>> \o more, <<Ld(AY, take), Ld(AX, "Relaxed")>>) :
             put \in {"Relaxed", "SeqCst"}, more \in {<<>>, <<St(AY, 1, "Release")>>},
             take \in {"Relaxed", "Acquire", "SeqCst"}}

\* Passing a value through a cell, with and without what orders the accesses.
Handed == {Two(<<Set, St(AX, 1, put)>>, <<If(AX, take), o>>) :
             put \in {"Relaxed", "Release", "SeqCst"}, take \in {"Relaxed", "Acquire", "SeqCst"},
             o \in {Get, Set}}
Locked(op, m) == <<Lock(m), op, Unlock(m)>>
Locks == {Two(Locked(p, m), Locked(q, n)) :
            m \in {MU, MV}, n \in {MU}, p \in {Set, Add(AX, "Relaxed")},
            q \in {Get, Set, Ld(AX, "Relaxed")}}
   \cup {Two(<<Lock(MU), Lock(MV), Unlock(MV), Unlock(MU)>>,
             <<Lock(m), Lock(n), Unlock(n), Unlock(m)>>) : m \in {MU, MV}, n \in {MV}}

Three == {Program(<<Spawn, Spawn, o>>, <<p>>, <<q>>) :
            o \in {Ld(AX, "Relaxed"), Add(AX, "SeqCst"), St(AX, 3, "Relaxed")},
            p \in {St(AX, 1, "Release"), Cas(AX, 0, 1, "AcqRel")},
            q \in {Cas(AX, 1, 2, "Acquire"), Cas(AX, 0, 2, "Release"), Ld(AX, "SeqCst")}}

Joined == {Program(<<Spawn, Spawn, o, Joins(1), p>>, <<q, Send(1)>>, <<r>>) :
             o \in {Ld(AX, "Relaxed"), Lock(MU)}, p \in {Get, Ld(AX, "Relaxed"), Unlock(MU)},
             q \in {Set, St(AX, 1, "Relaxed")}, r \in {Add(AX, "Relaxed")}}

Nested == {Program(<<Spawn, o>>, <<Spawn, Ld(AX, "Relaxed")>>, <<p>>) :
             o \in {Ld(AX, "Relaxed"), Ld(AY, "Relaxed")}, p \in {Add(AX, "Relaxed")}}

\* A root that goes on between its spawns.
Late == {Program(<<Spawn, o, Spawn>>, <<p>>, <<q>>) :
           o \in {Ld(AX, "Relaxed"), Add(AY, "SeqCst")},
           p \in {St(AX, 1, "Release"), Add(AY, "AcqRel")},
           q \in {Ld(AX, "Acquire"), St(AY, 2, "Relaxed")}}

\* What seq_cst() passes on: with a store it comes too late for those who read it.
Chained ==
  {Program(<<Spawn, Spawn, St(AX, 1, "SeqCst")>>, <<p, Ld(AX, "SeqCst")>>,
           <<If(AX, "Acquire"), q>>) : p \in {Set, St(AY, 1, "Relaxed")},
                                       q \in {Get, Ld(AY, "Relaxed")}} \cup
  {Two(<<St(AY, 1, "Relaxed"), Ld(AX, "SeqCst")>>, <<St(AX, 1, "SeqCst"), Ld(AY, take)>>) :
     take \in {"Relaxed", "SeqCst"}} \cup
  {Two(<<St(AX, 1, "Relaxed"), Ld(AX, "Acquire"), Ld(AY, "Relaxed")>>,
       <<St(AY, 1, "Relaxed"), Add(AX, "Release")>>)}

\* A thread unlocks what it has locked.
Fair(p) == \A t \in DOMAIN p : \A m \in {MU, MV} :
  \A i \in DOMAIN p[t] : p[t][i] \in {Lock(m), Unlock(m)} =>
     \E j \in DOMAIN p[t] : {p[t][i], p[t][j]} = {Lock(m), Unlock(m)}
MCPrograms == {p \in Small \cup Passed \cup Handed \cup Locks \cup Three \cup Joined \cup Nested
                     \cup Chained \cup Late : Fair(p)}
===============================================================================
