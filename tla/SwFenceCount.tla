---------------------------- MODULE SwFenceCount ----------------------------
(***************************************************************************)
(* The count of a software fence is exact in every reachable state.        *)
(*                                                                         *)
(* fence->pending is compared with what is owed to the fence, which is     *)
(* spread over wait queues, chains, callback lists and threads: each step  *)
(* moves one of these or takes it away together with the count.  CountIInv *)
(* is inductive by itself.                                                 *)
(***************************************************************************)
EXTENDS SwFenceInv

-----------------------------------------------------------------------------
(* The count.                                                              *)

Exact == \A f \in Fences : Owed(f) = IF f \in fired THEN 0 ELSE pending[f]

\* A wake-up is of fences that have fired.
FiredOK(t) ==
    /\ run[t].at \in {"wake", "scan", "nested", "nestedwake"} => run[t].root \in fired
    /\ run[t].at = "nestedwake" => run[t].cur \in fired

FiredInv == \A t \in Threads : FiredOK(t)

\* What is owed is a number, and no part of it is more than the whole.
LEMMA Parts ==
    ASSUME Shape, NEW f \in Fences
    PROVE  /\ OnLists(f) \in Nat
           /\ \A s \in Fences : Num(f, list[s]) \in Nat /\ Num(f, list[s]) <= OnLists(f)
           /\ OnChains(f) \in Nat
           /\ OnDmas(f) \in Nat
           /\ \A d \in Untimed(f) : Num(f, cbs[d]) \in Nat /\ Num(f, cbs[d]) <= OnDmas(f)
           /\ OnTimers(f) \in Nat
           /\ \A p \in owner : p[1] = f => OnTimers(f) >= 1
           /\ ByThreads(f) \in Nat
           /\ \A t \in Threads : Counting(t, f) => ByThreads(f) >= 1
           /\ ByHolder(f) \in {0, 1} /\ ByBuilder(f) \in {0, 1, 2}
           /\ f \notin committed => ByBuilder(f) >= 1
<1>1. /\ OnLists(f) \in Nat
      /\ \A s \in Fences : Num(f, list[s]) \in Nat /\ Num(f, list[s]) <= OnLists(f)
  <2> DEFINE F == [s \in Fences |-> At(f, list[s])]
  <2>1. DOMAIN F = Fences /\ IsFiniteSet(Fences) /\ \A s \in Fences : IsFiniteSet(F[s])
    BY AtFinite, DepsAssumption, Zenon DEF Shape
  <2>2. \A s \in Fences : Num(f, list[s]) = Cardinality(F[s])
    BY Zenon DEF Num
  <2>3. OnLists(f) = Cardinality(Spread(F))
    BY Zenon DEF OnLists
  <2> HIDE DEF F
  <2>4. Cardinality(Spread(F)) \in Nat
    BY <2>1, SpreadFinite, Zenon
  <2>5. ASSUME NEW s \in Fences
        PROVE  Cardinality(F[s]) \in Nat /\ Cardinality(Spread(F)) >= Cardinality(F[s])
    BY <2>1, SpreadStep, Zenon
  <2> QED
    BY <2>2, <2>3, <2>4, <2>5, Zenon
<1>2. OnChains(f) \in Nat
  <2> DEFINE F == [t \in Threads |-> At(f, run[t].extra)]
  <2>1. DOMAIN F = Threads /\ IsFiniteSet(Threads) /\ \A t \in Threads : IsFiniteSet(F[t])
    <3>1. \A t \in Threads : run[t].extra \in Seq(Fences)
      BY Zenon DEF Shape, Runs
    <3> QED
      BY <3>1, AtFinite, Finite, Zenon
  <2>2. OnChains(f) = Cardinality(Spread(F))
    BY Zenon DEF OnChains
  <2> HIDE DEF F
  <2> QED
    BY <2>1, <2>2, SpreadFinite, Zenon
<1>3. /\ OnDmas(f) \in Nat
      /\ \A d \in Untimed(f) : Num(f, cbs[d]) \in Nat /\ Num(f, cbs[d]) <= OnDmas(f)
  <2> DEFINE I == Untimed(f)
             F == [d \in I |-> At(f, cbs[d])]
  <2>1. I \subseteq Dmas /\ IsFiniteSet(I)
    BY Finite, Zenon DEF Untimed
  <2>2. DOMAIN F = I /\ \A d \in I : IsFiniteSet(F[d])
    BY <2>1, AtFinite, Zenon DEF Shape
  <2>3. \A d \in I : Num(f, cbs[d]) = Cardinality(F[d])
    BY Zenon DEF Num
  <2>4. OnDmas(f) = Cardinality(Spread(F))
    BY Zenon DEF OnDmas
  <2> HIDE DEF F
  <2>5. Cardinality(Spread(F)) \in Nat
    BY <2>1, <2>2, SpreadFinite, Zenon
  <2>6. ASSUME NEW d \in I
        PROVE  Cardinality(F[d]) \in Nat /\ Cardinality(Spread(F)) >= Cardinality(F[d])
    <3> HIDE DEF I
    <3> QED
      BY <2>1, <2>2, SpreadStep, Zenon
  <2> QED
    BY <2>3, <2>4, <2>5, <2>6, Zenon
<1>4. /\ OnTimers(f) \in Nat
      /\ \A p \in owner : p[1] = f => OnTimers(f) >= 1
  <2> DEFINE A == {p \in owner : p[1] = f}
  <2>1. A \in SUBSET Timed /\ \A p \in owner : p[1] = f => A # {}
    BY Zenon DEF Shape
  <2>2. OnTimers(f) = Cardinality(A)
    BY Zenon DEF OnTimers
  <2> HIDE DEF A
  <2>3. IsFiniteSet(A) /\ Cardinality(A) \in Nat
    BY <2>1, Finite, FS_Subset, FS_CardinalityType, ZenonT(60)
  <2>4. A # {} => Cardinality(A) >= 1
    BY <2>3, FS_EmptySet
  <2> QED
    BY <2>1, <2>2, <2>3, <2>4, Zenon
<1>5. /\ ByThreads(f) \in Nat
      /\ \A t \in Threads : Counting(t, f) => ByThreads(f) >= 1
  <2> DEFINE A == {t \in Threads : Counting(t, f)}
  <2>1. A \in SUBSET Threads /\ \A t \in Threads : Counting(t, f) => A # {}
    BY Zenon
  <2>2. ByThreads(f) = Cardinality(A)
    BY Zenon DEF ByThreads
  <2> HIDE DEF A
  <2>3. IsFiniteSet(A) /\ Cardinality(A) \in Nat
    BY <2>1, Finite, FS_Subset, FS_CardinalityType, ZenonT(60)
  <2>4. A # {} => Cardinality(A) >= 1
    BY <2>3, FS_EmptySet
  <2> QED
    BY <2>1, <2>2, <2>3, <2>4, Zenon
<1>6. /\ ByHolder(f) \in {0, 1} /\ ByBuilder(f) \in {0, 1, 2}
      /\ f \notin committed => ByBuilder(f) >= 1
  BY DEF ByHolder, ByBuilder
<1> QED
  BY <1>1, <1>2, <1>3, <1>4, <1>5, <1>6, Zenon

\* A fence to which something is owed has not fired, and counts at least that.
LEMMA Unfired ==
    ASSUME Shape, Exact, NEW f \in Fences,
           \/ \E s \in Fences : At(f, list[s]) # {}
           \/ \E d \in Untimed(f) : At(f, cbs[d]) # {}
           \/ \E p \in owner : p[1] = f
           \/ \E t \in Threads : Counting(t, f)
           \/ f \notin committed
           \/ ByHolder(f) = 1 \/ ByBuilder(f) = 1
    PROVE  f \notin fired /\ pending[f] = Owed(f) /\ pending[f] >= 1
<1>1. Owed(f) \in Nat /\ Owed(f) >= 1
  <2>1. ASSUME NEW s \in Fences, At(f, list[s]) # {}
        PROVE  Num(f, list[s]) >= 1
    <3>1. list[s] \in Seq(Fences)
      BY Zenon DEF Shape
    <3> QED
      BY <2>1, <3>1, AtSome, Zenon DEF Num
  <2>2. ASSUME NEW d \in Untimed(f), At(f, cbs[d]) # {}
        PROVE  Num(f, cbs[d]) >= 1
    <3>1. cbs[d] \in Seq(Fences)
      BY Zenon DEF Shape, Untimed
    <3> QED
      BY <2>2, <3>1, AtSome, Zenon DEF Num
  <2>3. \/ OnLists(f) >= 1 \/ OnDmas(f) >= 1 \/ OnTimers(f) >= 1 \/ ByThreads(f) >= 1
        \/ ByHolder(f) >= 1 \/ ByBuilder(f) >= 1
    <3>1. CASE \E s \in Fences : At(f, list[s]) # {}
      BY <2>1, <3>1, Parts, SMTT(40)
    <3>2. CASE \E d \in Untimed(f) : At(f, cbs[d]) # {}
      BY <2>2, <3>2, Parts, SMTT(40)
    <3>3. CASE \E p \in owner : p[1] = f
      BY <3>3, Parts, Zenon
    <3>4. CASE \E t \in Threads : Counting(t, f)
      BY <3>4, Parts, ZenonT(60)
    <3>5. CASE f \notin committed \/ ByHolder(f) = 1 \/ ByBuilder(f) = 1
      BY <3>5, Parts
    <3> QED
      BY <3>1, <3>2, <3>3, <3>4, <3>5, ZenonT(60)
  <2>4. /\ OnLists(f) \in Nat /\ OnChains(f) \in Nat /\ OnDmas(f) \in Nat
        /\ OnTimers(f) \in Nat /\ ByThreads(f) \in Nat
    BY Parts, Zenon
  <2>5. ByHolder(f) \in Nat /\ ByBuilder(f) \in Nat
    BY Parts
  <2> QED
    BY <2>3, <2>4, <2>5, SMTT(40) DEF Owed
<1>2. Owed(f) = IF f \in fired THEN 0 ELSE pending[f]
  BY Zenon DEF Exact
<1> QED
  BY <1>1, <1>2, SMTT(40)

\* What a step leaves alone.
LEMMA Same ==
    ASSUME NEW f \in Fences
    PROVE  /\ list' = list => OnLists(f)' = OnLists(f)
           /\ run' = run => OnChains(f)' = OnChains(f) /\ ByThreads(f)' = ByThreads(f)
           /\ cbs' = cbs => OnDmas(f)' = OnDmas(f)
           /\ owner' = owner => OnTimers(f)' = OnTimers(f)
           /\ hold' = hold => ByHolder(f)' = ByHolder(f)
           /\ build'[f] = build[f] /\ (f \in committed' <=> f \in committed) =>
                ByBuilder(f)' = ByBuilder(f)
<1>1. list' = list => OnLists(f)' = OnLists(f)
  BY DEF OnLists, Spread, At
<1>2. run' = run => OnChains(f)' = OnChains(f)
  BY DEF OnChains, Spread, At
<1>3. run' = run => ByThreads(f)' = ByThreads(f)
  BY Zenon DEF ByThreads, Counting
<1>4. cbs' = cbs => OnDmas(f)' = OnDmas(f)
  BY DEF OnDmas, Spread, At, Untimed
<1>5. owner' = owner => OnTimers(f)' = OnTimers(f)
  BY Zenon DEF OnTimers
<1>6. hold' = hold => ByHolder(f)' = ByHolder(f)
  BY Zenon DEF ByHolder
<1>7. build'[f] = build[f] /\ (f \in committed' <=> f \in committed) =>
        ByBuilder(f)' = ByBuilder(f)
  BY Zenon DEF ByBuilder, Untimed
<1> QED
  BY <1>1, <1>2, <1>3, <1>4, <1>5, <1>6, <1>7, ZenonT(60)

\* The parts of the count that a thread's step can change.
LEMMA ThreadParts ==
    ASSUME Shape, Shape', NEW t \in Threads, NEW f \in Fences,
           \A u \in Threads \ {t} : run'[u] = run[u]
    PROVE  /\ OnChains(f)' = OnChains(f) - Num(f, run[t].extra) + Num(f, run'[t].extra)
           /\ Num(f, run[t].extra) \in Nat /\ Num(f, run'[t].extra) \in Nat
           /\ ByThreads(f)' = ByThreads(f) - (IF Counting(t, f) THEN 1 ELSE 0)
                                           + (IF Counting(t, f)' THEN 1 ELSE 0)
<1>1. \A u \in Threads : run[u].extra \in Seq(Fences) /\ run'[u].extra \in Seq(Fences)
  BY DEF Shape, Runs
<1> QED
  BY <1>1, RunStep, ZenonT(60)

\* What is owed to f, from the parts of it that a step changes.
Rest(f) == OnDmas(f) + OnTimers(f) + ByHolder(f) + ByBuilder(f)

OwedSum ==
    \A f \in Fences :
        /\ Owed(f) = OnLists(f) + OnChains(f) + ByThreads(f) + Rest(f)
        /\ Owed(f) \in Nat /\ Rest(f) \in Nat
        /\ OnLists(f) \in Nat /\ OnChains(f) \in Nat /\ ByThreads(f) \in Nat

\* What is owed, as the thread's parts and a rest that it leaves alone,
LEMMA OwedRest == Shape => OwedSum
<1> SUFFICES ASSUME Shape, NEW f \in Fences
             PROVE  /\ Owed(f) = OnLists(f) + OnChains(f) + ByThreads(f) + Rest(f)
                    /\ Owed(f) \in Nat /\ Rest(f) \in Nat
                    /\ OnLists(f) \in Nat /\ OnChains(f) \in Nat /\ ByThreads(f) \in Nat
  BY Zenon DEF OwedSum
<1>1. /\ OnLists(f) \in Nat /\ OnChains(f) \in Nat /\ OnDmas(f) \in Nat
      /\ OnTimers(f) \in Nat /\ ByThreads(f) \in Nat
  BY Parts, Zenon
<1>2. ByHolder(f) \in Nat /\ ByBuilder(f) \in Nat
  BY Parts
<1> QED
  BY <1>1, <1>2 DEF Owed, Rest

\* ... after the step too.
LEMMA OwedRestNext == Shape' => OwedSum'
BY OwedRest, PTL

\* __i915_sw_fence_complete() takes away the count that the thread owed.
LEMMA CompleteExact ==
    ASSUME Shape, Shape', RunInv, Exact, NEW t \in Threads, Complete(t)
    PROVE  Exact'
<1> DEFINE f == run[t].root
<1>1. /\ Stands(t, "dec")
      /\ pending' = [pending EXCEPT ![f] = IF Done(f) THEN @ ELSE @ - 1]
      /\ \/ pending[f] = 1 /\ fired' = fired \cup {f}
         \/ pending[f] # 1 /\ fired' = fired
      /\ UNCHANGED <<list, build, hold, cbs, owner, committed>>
  BY CompleteMoves, Zenon
<1>2. f \in Fences /\ run[t].extra = <<>> /\ pending \in [Fences -> Int]
      /\ \A g \in Fences : Counting(t, g) <=> g = f
  BY <1>1, Zenon DEF Stands, Counting, Shape
<1>3. f \notin fired /\ pending[f] = Owed(f) /\ pending[f] >= 1
  BY <1>2, Unfired, Zenon
<1>4. /\ run'[t].extra = <<>> /\ run'[t].at \in {"wake", "idle"}
      /\ \A u \in Threads \ {t} : run'[u] = run[u]
  <2>1. \/ Moves(t, "wake", f, None, <<>>, run[t].then)
        \/ Moves(t, "idle", None, None, <<>>, None)
    BY CompleteMoves, ReturnMoves, ZenonT(60)
  <2> QED
    BY <2>1, Zenon DEF Moves
<1> HIDE DEF f
<1>5. \A g \in Fences : pending'[g] = IF g = f THEN pending[g] - 1 ELSE pending[g]
  <2>1. ~Done(f)
    BY <1>2, <1>3, SMTT(40) DEF Done
  <2> QED
    BY <1>1, <1>2, <2>1, ZenonT(60)
<1>6. ASSUME NEW g \in Fences
      PROVE  Owed(g)' = IF g \in fired' THEN 0 ELSE pending'[g]
  <2>1. ~Counting(t, g)'
    BY <1>4, Zenon DEF Counting
  <2>2. OnChains(g)' = OnChains(g) - Num(g, <<>>) + Num(g, <<>>) /\ Num(g, <<>>) \in Nat
    BY <1>2, <1>4, ThreadParts, Zenon
  <2>3. ByThreads(g)' = ByThreads(g) - (IF g = f THEN 1 ELSE 0)
    <3>1. ByThreads(g)' = ByThreads(g) - (IF g = f THEN 1 ELSE 0) + 0
      BY <1>2, <1>4, <2>1, ThreadParts, Zenon
    <3> QED
      BY <3>1, OwedRest DEF OwedSum
  <2>4. OnLists(g)' = OnLists(g) /\ Rest(g)' = Rest(g)
    BY <1>1, Same, Zenon DEF Rest
  <2>5. Owed(g)' = OnLists(g)' + OnChains(g)' + ByThreads(g)' + Rest(g)'
    BY OwedRestNext, Zenon DEF OwedSum
  <2>6. /\ Owed(g) = OnLists(g) + OnChains(g) + ByThreads(g) + Rest(g)
        /\ OnLists(g) \in Nat /\ OnChains(g) \in Nat /\ ByThreads(g) \in Nat
        /\ Rest(g) \in Nat
    BY OwedRest, Zenon DEF OwedSum
  <2>7. Owed(g)' = Owed(g) - (IF g = f THEN 1 ELSE 0)
    BY <2>2, <2>3, <2>4, <2>5, <2>6, SMTT(40)
  <2>8. Owed(g) = IF g \in fired THEN 0 ELSE pending[g]
    BY Zenon DEF Exact
  <2> QED
    BY <1>1, <1>2, <1>3, <1>5, <2>7, <2>8, SMTT(40)
<1> QED
  BY <1>6, Zenon DEF Exact

\* The threads that do not move wake up what they did.
LEMMA OthersFired ==
    ASSUME FiredInv, fired \subseteq fired', NEW t \in Threads, FiredOK(t)',
           \A u \in Threads \ {t} : run'[u] = run[u]
    PROVE  FiredInv'
<1>1. ASSUME NEW u \in Threads, u # t
      PROVE  FiredOK(u)'
  <2>1. run'[u] = run[u] /\ FiredOK(u)
    BY <1>1, Zenon DEF FiredInv
  <2> QED
    BY <2>1, Zenon DEF FiredOK
<1> QED
  BY <1>1, Zenon DEF FiredInv

\* A fence that it fires was not fired before, and its wake-up begins.
LEMMA CompleteFired ==
    ASSUME Shape, RunInv, FiredInv, NEW t \in Threads, Complete(t)
    PROVE  FiredInv'
<1>1. \/ /\ fired' = fired \cup {run[t].root}
         /\ Moves(t, "wake", run[t].root, None, <<>>, run[t].then)
      \/ fired' = fired /\ Moves(t, "idle", None, None, <<>>, None)
  BY CompleteMoves, ReturnMoves, Zenon
<1>2. fired \subseteq fired' /\ FiredOK(t)' /\ \A u \in Threads \ {t} : run'[u] = run[u]
  BY <1>1, Zenon DEF Moves, FiredOK
<1> QED
  BY <1>2, OthersFired, Zenon

\* The wake-up of the first fence changes no count.
LEMMA WakeUpAllExact ==
    ASSUME Shape, Shape', RunInv, FiredInv, Exact, NEW t \in Threads, WakeUpAll(t)
    PROVE  Exact' /\ FiredInv'
<1> DEFINE f == run[t].root
<1>1. /\ Stands(t, "wake")
      /\ pending' = [pending EXCEPT ![f] = -1]
      /\ Moves(t, "scan", f, None, <<>>, run[t].then)
      /\ UNCHANGED <<list, build, hold, cbs, owner, committed, fired>>
  BY WakeUpAllMoves, Zenon DEF device, history
<1>2. /\ f \in Fences /\ f \in fired /\ run[t].extra = <<>>
      /\ pending \in [Fences -> Int]
      /\ \A g \in Fences : ~Counting(t, g) /\ ~Counting(t, g)'
  BY <1>1, Zenon DEF Stands, Moves, Counting, Shape, FiredInv, FiredOK
<1>3. run'[t].extra = <<>> /\ \A u \in Threads \ {t} : run'[u] = run[u]
  BY <1>1, Zenon DEF Moves
<1>4. FiredInv'
  <2>1. FiredOK(t)' /\ fired \subseteq fired'
    BY <1>1, <1>2, Zenon DEF Moves, FiredOK
  <2> QED
    BY <1>3, <2>1, OthersFired, Zenon
<1> HIDE DEF f
<1>5. ASSUME NEW g \in Fences
      PROVE  Owed(g)' = IF g \in fired' THEN 0 ELSE pending'[g]
  <2>1. /\ OnChains(g)' = OnChains(g) - Num(g, <<>>) + Num(g, <<>>) /\ Num(g, <<>>) \in Nat
        /\ ByThreads(g)' = ByThreads(g) - 0 + 0
    BY <1>2, <1>3, ThreadParts, Zenon
  <2>2. OnLists(g)' = OnLists(g) /\ Rest(g)' = Rest(g)
    BY <1>1, Same, Zenon DEF Rest
  <2>3. Owed(g)' = OnLists(g)' + OnChains(g)' + ByThreads(g)' + Rest(g)'
    BY OwedRestNext, Zenon DEF OwedSum
  <2>4. /\ Owed(g) = OnLists(g) + OnChains(g) + ByThreads(g) + Rest(g)
        /\ OnLists(g) \in Nat /\ OnChains(g) \in Nat /\ ByThreads(g) \in Nat
        /\ Rest(g) \in Nat
    BY OwedRest, Zenon DEF OwedSum
  <2>5. Owed(g)' = Owed(g)
    BY <2>1, <2>2, <2>3, <2>4, SMTT(40)
  <2>6. Owed(g) = IF g \in fired THEN 0 ELSE pending[g]
    BY Zenon DEF Exact
  <2>7. pending'[g] = IF g = f THEN -1 ELSE pending[g]
    BY <1>1, <1>2, SMTT(40)
  <2> QED
    BY <1>1, <1>2, <2>5, <2>6, <2>7, SMTT(40)
<1> QED
  BY <1>4, <1>5, Zenon DEF Exact

\* An entry that leaves the queue is owed by the thread instead.
LEMMA WakeEntryExact ==
    ASSUME Shape, Shape', RunInv, FiredInv, Exact, NEW t \in Threads, WakeEntry(t)
    PROVE  Exact' /\ FiredInv'
<1> DEFINE f == run[t].root
           h == Head(list[f])
<1>1. /\ Stands(t, "scan")
      /\ list[f] # <<>> /\ h \in Fences
      /\ list' = [list EXCEPT ![f] = Tail(@)]
      /\ Moves(t, "nested", f, h, run[t].extra, run[t].then)
      /\ UNCHANGED <<pending, build, hold, cbs, owner, committed, fired>>
  BY WakeEntryMoves, Zenon DEF device, history
<1>2. /\ f \in Fences /\ f \in fired /\ list \in [Fences -> Seq(Fences)]
      /\ \A g \in Fences : ~Counting(t, g) /\ (Counting(t, g)' <=> g = h)
  BY <1>1, Zenon DEF Stands, Moves, Counting, Shape, FiredInv, FiredOK
<1>3. run'[t].extra = run[t].extra /\ \A u \in Threads \ {t} : run'[u] = run[u]
  BY <1>1, Zenon DEF Moves
<1>4. FiredInv'
  <2>1. FiredOK(t)' /\ fired \subseteq fired'
    BY <1>1, <1>2, ZenonT(60) DEF Moves, FiredOK
  <2> QED
    BY <1>3, <2>1, OthersFired, Zenon
<1>5. /\ list' \in [Fences -> Seq(Fences)] /\ list'[f] = Tail(list[f])
      /\ \A s \in Fences \ {f} : list'[s] = list[s]
  BY <1>1, <1>2 DEF Shape
<1>6. \A g \in Fences : Num(g, Tail(list[f])) = Num(g, list[f]) - (IF g = h THEN 1 ELSE 0)
  BY <1>1, <1>2, AtTail, Zenon DEF Num
<1> HIDE DEF f, h
<1>7. ASSUME NEW g \in Fences
      PROVE  Owed(g)' = IF g \in fired' THEN 0 ELSE pending'[g]
  <2>1. /\ OnChains(g)' = OnChains(g) - Num(g, run[t].extra) + Num(g, run[t].extra)
        /\ Num(g, run[t].extra) \in Nat
        /\ ByThreads(g)' = ByThreads(g) - 0 + (IF g = h THEN 1 ELSE 0)
    BY <1>2, <1>3, ThreadParts, Zenon
  <2>2. Rest(g)' = Rest(g)
    BY <1>1, Same, Zenon DEF Rest
  <2>3. /\ OnLists(g)' = OnLists(g) - Num(g, list[f]) + Num(g, Tail(list[f]))
        /\ Num(g, list[f]) \in Nat
    BY <1>2, <1>5, ListStep, ZenonT(60)
  <2>4. Owed(g)' = OnLists(g)' + OnChains(g)' + ByThreads(g)' + Rest(g)'
    BY OwedRestNext, Zenon DEF OwedSum
  <2>5. /\ Owed(g) = OnLists(g) + OnChains(g) + ByThreads(g) + Rest(g)
        /\ OnLists(g) \in Nat /\ OnChains(g) \in Nat /\ ByThreads(g) \in Nat
        /\ Rest(g) \in Nat
    BY OwedRest, Zenon DEF OwedSum
  <2>6. Owed(g)' = Owed(g)
    BY <1>6, <2>1, <2>2, <2>3, <2>4, <2>5, SMTT(40)
  <2>7. Owed(g) = IF g \in fired THEN 0 ELSE pending[g]
    BY Zenon DEF Exact
  <2> QED
    BY <1>1, <2>6, <2>7, Zenon
<1> QED
  BY <1>4, <1>7, Zenon DEF Exact

\* The fence behind the entry loses the count that the thread owed.
LEMMA NestedCompleteExact ==
    ASSUME Shape, Shape', RunInv, FiredInv, Exact, NEW t \in Threads, NestedComplete(t)
    PROVE  Exact' /\ FiredInv'
<1> DEFINE f == run[t].root
           h == run[t].cur
<1>1. /\ Stands(t, "nested")
      /\ pending' = [pending EXCEPT ![h] = @ - 1]
      /\ \/ pending[h] = 1 /\ fired' = fired \cup {h}
         \/ pending[h] # 1 /\ fired' = fired
      /\ UNCHANGED <<list, build, hold, cbs, owner, committed>>
  BY NestedCompleteMoves, Zenon DEF device
<1>2. \/ /\ Moves(t, "nestedwake", f, h, run[t].extra, run[t].then)
         /\ fired' = fired \cup {h}
      \/ Moves(t, "scan", f, None, run[t].extra, run[t].then)
  BY NestedCompleteMoves, Zenon
<1>3. /\ h \in Fences /\ f \in fired /\ pending \in [Fences -> Int]
      /\ \A g \in Fences : (Counting(t, g) <=> g = h) /\ ~Counting(t, g)'
  BY <1>1, <1>2, Zenon DEF Stands, Moves, Counting, Shape, FiredInv, FiredOK
<1>4. run'[t].extra = run[t].extra /\ \A u \in Threads \ {t} : run'[u] = run[u]
  BY <1>2, Zenon DEF Moves
<1>5. FiredInv'
  <2>1. FiredOK(t)' /\ fired \subseteq fired'
    BY <1>1, <1>2, <1>3, Zenon DEF Moves, FiredOK
  <2> QED
    BY <1>4, <2>1, OthersFired, Zenon
<1>6. h \notin fired /\ pending[h] = Owed(h) /\ pending[h] >= 1
  BY <1>3, Unfired, Zenon
<1> HIDE DEF f, h
<1>7. ASSUME NEW g \in Fences
      PROVE  Owed(g)' = IF g \in fired' THEN 0 ELSE pending'[g]
  <2>1. /\ OnChains(g)' = OnChains(g) - Num(g, run[t].extra) + Num(g, run[t].extra)
        /\ Num(g, run[t].extra) \in Nat
        /\ ByThreads(g)' = ByThreads(g) - (IF g = h THEN 1 ELSE 0) + 0
    BY <1>3, <1>4, ThreadParts, Zenon
  <2>2. OnLists(g)' = OnLists(g) /\ Rest(g)' = Rest(g)
    BY <1>1, Same, ZenonT(60) DEF Rest
  <2>3. Owed(g)' = OnLists(g)' + OnChains(g)' + ByThreads(g)' + Rest(g)'
    BY OwedRestNext, Zenon DEF OwedSum
  <2>4. /\ Owed(g) = OnLists(g) + OnChains(g) + ByThreads(g) + Rest(g)
        /\ OnLists(g) \in Nat /\ OnChains(g) \in Nat /\ ByThreads(g) \in Nat
        /\ Rest(g) \in Nat
    BY OwedRest, Zenon DEF OwedSum
  <2>5. Owed(g)' = Owed(g) - (IF g = h THEN 1 ELSE 0)
    BY <2>1, <2>2, <2>3, <2>4, SMTT(40)
  <2>6. Owed(g) = IF g \in fired THEN 0 ELSE pending[g]
    BY Zenon DEF Exact
  <2>7. pending'[g] = IF g = h THEN pending[g] - 1 ELSE pending[g]
    BY <1>1, <1>3, Zenon
  <2> QED
    BY <1>1, <1>3, <1>6, <2>5, <2>6, <2>7, SMTT(40)
<1> QED
  BY <1>5, <1>7, Zenon DEF Exact

\* The entries of a nested fence move into the chain.
LEMMA NestedWakeUpAllExact ==
    ASSUME Shape, Shape', RunInv, FiredInv, Exact, NEW t \in Threads, NestedWakeUpAll(t)
    PROVE  Exact' /\ FiredInv'
<1> DEFINE f == run[t].root
           h == run[t].cur
           e == run[t].extra
           m == e \o list[h]
<1>1. /\ Stands(t, "nestedwake")
      /\ pending' = [pending EXCEPT ![h] = -1]
      /\ Moves(t, "scan", f, None, m, run[t].then)
      /\ list' = [list EXCEPT ![h] = <<>>]
      /\ UNCHANGED <<build, hold, cbs, owner, committed, fired>>
  BY NestedWakeUpAllMoves, Zenon DEF device
<1>2. /\ h \in Fences /\ h \in fired /\ f \in fired /\ e \in Seq(Fences)
      /\ pending \in [Fences -> Int] /\ list \in [Fences -> Seq(Fences)]
  BY <1>1, Zenon DEF Stands, Shape, FiredInv, FiredOK
<1>3. \A g \in Fences : Num(g, m) = Num(g, e) + Num(g, list[h])
  BY <1>2, AtConcat, Zenon DEF Num
<1> HIDE DEF f, h, e, m
<1>4. /\ run'[t].extra = m /\ \A u \in Threads \ {t} : run'[u] = run[u]
      /\ \A g \in Fences : ~Counting(t, g) /\ ~Counting(t, g)'
  BY <1>1, Zenon DEF Stands, Moves, Counting
<1>5. FiredInv'
  <2>1. FiredOK(t)' /\ fired \subseteq fired'
    BY <1>1, <1>2, ZenonT(60) DEF Moves, FiredOK
  <2> QED
    BY <1>4, <2>1, OthersFired, Zenon
<1>6. /\ list' \in [Fences -> Seq(Fences)] /\ list'[h] = <<>>
      /\ \A s \in Fences \ {h} : list'[s] = list[s]
  BY <1>1, <1>2 DEF Shape
<1>7. ASSUME NEW g \in Fences
      PROVE  Owed(g)' = IF g \in fired' THEN 0 ELSE pending'[g]
  <2>1. /\ OnChains(g)' = OnChains(g) - Num(g, e) + Num(g, m)
        /\ Num(g, e) \in Nat /\ Num(g, m) \in Nat
        /\ ByThreads(g)' = ByThreads(g) - 0 + 0
    BY <1>4, ThreadParts, Zenon DEF e
  <2>2. Rest(g)' = Rest(g)
    BY <1>1, Same, Zenon DEF Rest
  <2>3. /\ OnLists(g)' = OnLists(g) - Num(g, list[h]) + Num(g, <<>>)
        /\ Num(g, list[h]) \in Nat
    BY <1>2, <1>6, ListStep, Zenon
  <2>4. Num(g, <<>>) = 0
    BY AtEmpty, ZenonT(60) DEF Num
  <2>5. Owed(g)' = OnLists(g)' + OnChains(g)' + ByThreads(g)' + Rest(g)'
    BY OwedRestNext, Zenon DEF OwedSum
  <2>6. /\ Owed(g) = OnLists(g) + OnChains(g) + ByThreads(g) + Rest(g)
        /\ OnLists(g) \in Nat /\ OnChains(g) \in Nat /\ ByThreads(g) \in Nat
        /\ Rest(g) \in Nat
    BY OwedRest, Zenon DEF OwedSum
  <2>7. Owed(g)' = Owed(g)
    BY <1>3, <2>1, <2>2, <2>3, <2>4, <2>5, <2>6, SMTT(40)
  <2>8. Owed(g) = IF g \in fired THEN 0 ELSE pending[g]
    BY Zenon DEF Exact
  <2>9. pending'[g] = IF g = h THEN -1 ELSE pending[g]
    BY <1>1, <1>2, Zenon
  <2> QED
    BY <1>1, <1>2, <2>7, <2>8, <2>9, ZenonT(60)
<1> QED
  BY <1>5, <1>7, Zenon DEF Exact

\* The entries of the chain move back to the queue of the first fence.
LEMMA SpliceExact ==
    ASSUME Shape, Shape', RunInv, FiredInv, Exact, NEW t \in Threads, Splice(t)
    PROVE  Exact' /\ FiredInv'
<1> DEFINE f == run[t].root
           e == run[t].extra
<1>1. /\ Stands(t, "scan") /\ list[f] = <<>>
      /\ \/ /\ e = <<>> /\ list' = list
            /\ Moves(t, "idle", None, None, <<>>, None)
         \/ /\ list' = [list EXCEPT ![f] = e]
            /\ Moves(t, "scan", f, None, <<>>, run[t].then)
      /\ UNCHANGED <<pending, build, hold, cbs, owner, committed, fired>>
  BY SpliceMoves, ReturnMoves, Zenon
<1>2. /\ f \in Fences /\ f \in fired /\ e \in Seq(Fences)
      /\ list \in [Fences -> Seq(Fences)]
  BY <1>1, Zenon DEF Stands, Shape, FiredInv, FiredOK
<1> HIDE DEF f, e
<1>3. /\ run'[t].extra = <<>> /\ \A u \in Threads \ {t} : run'[u] = run[u]
      /\ \A g \in Fences : ~Counting(t, g) /\ ~Counting(t, g)'
  BY <1>1, Zenon DEF Stands, Moves, Counting
<1>4. FiredInv'
  <2>1. FiredOK(t)' /\ fired \subseteq fired'
    BY <1>1, <1>2, ZenonT(60) DEF Moves, FiredOK
  <2> QED
    BY <1>3, <2>1, OthersFired, Zenon
<1>5. /\ list' \in [Fences -> Seq(Fences)] /\ list'[f] = e
      /\ \A s \in Fences \ {f} : list'[s] = list[s]
  BY <1>1, <1>2 DEF Shape
<1>6. ASSUME NEW g \in Fences
      PROVE  Owed(g)' = IF g \in fired' THEN 0 ELSE pending'[g]
  <2>1. /\ OnChains(g)' = OnChains(g) - Num(g, e) + Num(g, <<>>)
        /\ Num(g, e) \in Nat
        /\ ByThreads(g)' = ByThreads(g) - 0 + 0
    BY <1>3, ThreadParts, Zenon DEF e
  <2>2. Rest(g)' = Rest(g)
    BY <1>1, Same, Zenon DEF Rest
  <2>3. OnLists(g)' = OnLists(g) - Num(g, <<>>) + Num(g, e)
    BY <1>1, <1>2, <1>5, ListStep, ZenonT(60)
  <2>4. Num(g, <<>>) = 0
    BY AtEmpty, Zenon DEF Num
  <2>5. Owed(g)' = OnLists(g)' + OnChains(g)' + ByThreads(g)' + Rest(g)'
    BY OwedRestNext, Zenon DEF OwedSum
  <2>6. /\ Owed(g) = OnLists(g) + OnChains(g) + ByThreads(g) + Rest(g)
        /\ OnLists(g) \in Nat /\ OnChains(g) \in Nat /\ ByThreads(g) \in Nat
        /\ Rest(g) \in Nat
    BY OwedRest, Zenon DEF OwedSum
  <2>7. Owed(g)' = Owed(g)
    BY <2>1, <2>2, <2>3, <2>4, <2>5, <2>6, SMTT(40)
  <2>8. Owed(g) = IF g \in fired THEN 0 ELSE pending[g]
    BY Zenon DEF Exact
  <2> QED
    BY <1>1, <2>7, <2>8, Zenon
<1> QED
  BY <1>4, <1>6, Zenon DEF Exact

-----------------------------------------------------------------------------
(* The count, and builders.                                                *)

\* The sum of what is owed, for a step outside the completion code.
LEMMA OwedNow ==
    ASSUME Shape, NEW f \in Fences
    PROVE  /\ Owed(f) = OnLists(f) + OnChains(f) + OnDmas(f) + OnTimers(f)
                          + ByThreads(f) + ByHolder(f) + ByBuilder(f)
           /\ OnLists(f) \in Nat /\ OnChains(f) \in Nat /\ OnDmas(f) \in Nat
           /\ OnTimers(f) \in Nat /\ ByThreads(f) \in Nat
           /\ ByHolder(f) \in Nat /\ ByBuilder(f) \in Nat
<1>1. /\ OnLists(f) \in Nat /\ OnChains(f) \in Nat /\ OnDmas(f) \in Nat
      /\ OnTimers(f) \in Nat /\ ByThreads(f) \in Nat
  BY Parts, Zenon
<1>2. ByHolder(f) \in Nat /\ ByBuilder(f) \in Nat
  BY Parts
<1> QED
  BY <1>1, <1>2, Zenon DEF Owed

PartsNat ==
    \A f \in Fences :
        /\ OnLists(f) \in Nat /\ OnChains(f) \in Nat /\ OnDmas(f) \in Nat
        /\ OnTimers(f) \in Nat /\ ByThreads(f) \in Nat
        /\ ByHolder(f) \in Nat /\ ByBuilder(f) \in Nat

\* Every part of what is owed is a natural number,
LEMMA PartsType == Shape => PartsNat
BY OwedNow, Zenon DEF PartsNat

\* ... after a step too.
LEMMA PartsTypeNext == Shape' => PartsNat'
BY PartsType, PTL

\* What is owed after a step, as the sum of its parts.
LEMMA OwedThen ==
    ASSUME Shape', NEW f \in Fences
    PROVE  /\ Owed(f)' = OnLists(f)' + OnChains(f)' + OnDmas(f)' + OnTimers(f)'
                            + ByThreads(f)' + ByHolder(f)' + ByBuilder(f)'
           /\ OnTimers(f)' \in Nat /\ ByBuilder(f)' \in Nat
           /\ OnDmas(f)' \in Nat /\ OnLists(f)' \in Nat
<1>1. Owed(f)' = OnLists(f)' + OnChains(f)' + OnDmas(f)' + OnTimers(f)'
                   + ByThreads(f)' + ByHolder(f)' + ByBuilder(f)'
  BY Zenon DEF Owed
<1> QED
  BY <1>1, PartsTypeNext, Zenon DEF PartsNat

\* A builder that awaits one more.
LEMMA AwaitSwFenceExact ==
    ASSUME Shape, Shape', ControlInv, Exact, NEW f \in Fences, NEW s \in Fences,
           AwaitSwFence(f, s)
    PROVE  Exact'
<1>1. /\ Building(f, "next", None)
      /\ \/ UNCHANGED <<pending, build>>
         \/ build' = [build EXCEPT ![f] = <<"swwait", s>>] /\ pending' = pending
         \/ /\ build' = [build EXCEPT ![f] = <<"link", s>>]
            /\ pending' = [pending EXCEPT ![f] = @ + 1]
      /\ UNCHANGED <<list, run, hold, cbs, owner, committed, fired>>
  BY ZenonT(60) DEF AwaitSwFence, device
<1>2. /\ build[f][1] = "next" /\ pending \in [Fences -> Int] /\ build \in [Fences -> Builds]
  BY <1>1 DEF Building, Shape
<1>3. f \notin committed
  BY <1>2, Zenon DEF ControlInv, BuildInv
<1>4. f \notin fired
  BY <1>3, Unfired, Zenon
<1>5. ASSUME NEW g \in Fences
      PROVE  Owed(g)' = IF g \in fired' THEN 0 ELSE pending'[g]
  <2>1. /\ OnLists(g)' = OnLists(g) /\ OnChains(g)' = OnChains(g)
        /\ OnDmas(g)' = OnDmas(g) /\ OnTimers(g)' = OnTimers(g)
        /\ ByThreads(g)' = ByThreads(g) /\ ByHolder(g)' = ByHolder(g)
    BY <1>1, Same, Zenon
  <2>2. ByBuilder(g)' = ByBuilder(g) + (pending'[g] - pending[g])
    <3>1. CASE g # f
      <4>1. build'[g] = build[g] /\ pending'[g] = pending[g] /\ pending[g] \in Int
        BY <1>1, <1>2, <3>1, Zenon
      <4>2. ByBuilder(g)' = ByBuilder(g) /\ ByBuilder(g) \in Nat
        BY <1>1, <4>1, Same, OwedNow, ZenonT(60)
      <4> QED
        BY <4>1, <4>2
    <3>2. CASE g = f
      <4>1. ByBuilder(f) = 1
        BY <1>2, <1>3, SMTT(40) DEF ByBuilder
      <4>2. \/ build'[f][1] \in {"next", "swwait"} /\ pending'[f] = pending[f]
            \/ build'[f][1] = "link" /\ pending'[f] = pending[f] + 1
        BY <1>1, <1>2
      <4>3. f \notin committed' /\ pending[f] \in Int
        BY <1>1, <1>2, <1>3, ZenonT(60)
      <4>4. ByBuilder(f)' = IF build'[f][1] = "link" THEN 2 ELSE 1
        BY <4>2, <4>3, SMTT(40) DEF ByBuilder
      <4> QED
        BY <3>2, <4>1, <4>2, <4>3, <4>4, SMTT(40)
    <3> QED
      BY <3>1, <3>2, Zenon
  <2>3. Owed(g) = IF g \in fired THEN 0 ELSE pending[g]
    BY ZenonT(60) DEF Exact
  <2>4. Owed(g)' = Owed(g) + (pending'[g] - pending[g])
    <3>1. pending[g] \in Int /\ pending'[g] \in Int
      BY ZenonT(60) DEF Shape
    <3> QED
      BY <2>1, <2>2, <3>1, OwedNow, OwedThen, SMTT(40)
  <2>5. pending[g] \in Int /\ pending'[g] \in Int /\ (g # f => pending'[g] = pending[g])
    <3>1. pending[g] \in Int /\ pending'[g] \in Int
      BY ZenonT(60) DEF Shape
    <3> QED
      BY <1>1, <1>2, <3>1, ZenonT(60)
  <2>6. fired' = fired
    BY <1>1, Zenon
  <2> QED
    BY <1>4, <2>3, <2>4, <2>5, <2>6, SMTT(40)
<1> QED
  BY <1>5, Zenon DEF Exact

\* A DMA fence to await adds a count that its callback, timer or builder owes.
LEMMA AwaitDmaFenceExact ==
    ASSUME Shape, Shape', ControlInv, Exact, NEW f \in Fences, NEW d \in Dmas,
           AwaitDmaFence(f, d)
    PROVE  Exact'
<1>1. /\ Building(f, "next", None) /\ <<f, d>> \in todo[f]
      /\ \/ UNCHANGED <<pending, build, owner>>
         \/ /\ build' = [build EXCEPT ![f] = <<"dmawait", d>>]
            /\ UNCHANGED <<pending, owner>>
         \/ /\ build' = [build EXCEPT ![f] = <<"addcb", d>>]
            /\ pending' = [pending EXCEPT ![f] = @ + 1]
            /\ owner' = IF <<f, d>> \in Timed THEN owner \cup {<<f, d>>} ELSE owner
      /\ UNCHANGED <<list, run, hold, cbs, committed, fired>>
  BY ZenonT(60) DEF AwaitDmaFence
<1>2. /\ build[f][1] = "next" /\ pending \in [Fences -> Int] /\ build \in [Fences -> Builds]
  BY <1>1 DEF Building, Shape
<1>3. f \notin committed
  BY <1>2, Zenon DEF ControlInv, BuildInv
<1>4. f \notin fired
  BY <1>3, Unfired, Zenon
<1>5. <<f, d>> \in Timed => <<f, d>> \notin owner
  BY <1>1, ZenonT(60) DEF ControlInv, BuildInv, TimerInv
<1>6. ASSUME NEW g \in Fences
      PROVE  Owed(g)' = IF g \in fired' THEN 0 ELSE pending'[g]
  <2>1. /\ OnLists(g)' = OnLists(g) /\ OnChains(g)' = OnChains(g)
        /\ OnDmas(g)' = OnDmas(g)
        /\ ByThreads(g)' = ByThreads(g) /\ ByHolder(g)' = ByHolder(g)
    BY <1>1, Same, ZenonT(60)
  <2>2. pending[g] \in Int /\ pending'[g] \in Int /\ (g # f => pending'[g] = pending[g])
    <3>1. pending[g] \in Int /\ pending'[g] \in Int
      BY ZenonT(60) DEF Shape
    <3> QED
      BY <1>1, <1>2, <3>1, ZenonT(60)
  <2>3. OnTimers(g)' + ByBuilder(g)' = OnTimers(g) + ByBuilder(g) + (pending'[g] - pending[g])
    <3>1. CASE g # f
      <4>1. build'[g] = build[g]
        BY <1>1, <1>2, <3>1, ZenonT(60)
      <4>2. ByBuilder(g)' = ByBuilder(g) /\ ByBuilder(g) \in Nat
        BY <1>1, <4>1, Same, OwedNow, Zenon
      <4>3. OnTimers(g)' = OnTimers(g) /\ OnTimers(g) \in Nat
        <5>1. CASE owner' = owner
          BY <5>1, Same, OwedNow, ZenonT(60)
        <5>2. CASE <<f, d>> \in Timed /\ owner' = owner \cup {<<f, d>>}
          <6>1. /\ owner \subseteq Timed /\ owner' \ {<<f, d>>} = owner \ {<<f, d>>}
                /\ <<f, d>>[1] # g
            BY <3>1, <5>2, ZenonT(60) DEF Shape
          <6>2. OnTimers(g)' = OnTimers(g) - 0 + 0
            BY <5>2, <6>1, OwnerStep, Zenon
          <6> QED
            BY <6>2, OwedNow, SMTT(40)
        <5> QED
          BY <1>1, <5>1, <5>2, Zenon
      <4> QED
        BY <2>2, <3>1, <4>2, <4>3, SMTT(40)
    <3>2. CASE g = f
      <4>1. ByBuilder(f) = 1 /\ f \notin committed'
        BY <1>1, <1>2, <1>3, SMTT(40) DEF ByBuilder
      <4>2. CASE UNCHANGED <<pending, owner>>
        <5>1. build'[f][1] \in {"next", "dmawait"}
          BY <1>1, <1>2, <4>2, SMTT(40)
        <5>2. ByBuilder(f)' = 1
          BY <4>1, <5>1, SMTT(40) DEF ByBuilder
        <5>3. OnTimers(f)' = OnTimers(f) /\ OnTimers(f) \in Nat
          BY <4>2, Same, OwedNow, ZenonT(60)
        <5>4. pending'[f] = pending[f]
          BY <4>2, Zenon
        <5> QED
          BY <2>2, <3>2, <4>1, <5>2, <5>3, <5>4, SMTT(40)
      <4>3. CASE /\ build' = [build EXCEPT ![f] = <<"addcb", d>>]
                 /\ pending' = [pending EXCEPT ![f] = @ + 1]
                 /\ owner' = IF <<f, d>> \in Timed THEN owner \cup {<<f, d>>} ELSE owner
        <5>1. build'[f] = <<"addcb", d>> /\ pending'[f] = pending[f] + 1
          BY <1>2, <4>3, ZenonT(60)
        <5>2. ByBuilder(f)' = IF <<f, d>> \in Timed THEN 1 ELSE 2
          BY <4>1, <5>1, SMTT(40) DEF ByBuilder, Untimed
        <5>3. OnTimers(f)' = IF <<f, d>> \in Timed THEN OnTimers(f) + 1 ELSE OnTimers(f)
          <6>1. CASE <<f, d>> \in Timed
            <7>1. /\ owner \subseteq Timed /\ owner' \ {<<f, d>>} = owner \ {<<f, d>>}
                  /\ <<f, d>> \in owner' /\ <<f, d>>[1] = f
              BY <4>3, <6>1, ZenonT(60) DEF Shape
            <7>2. OnTimers(f)' = OnTimers(f) - 0 + 1
              BY <1>5, <6>1, <7>1, OwnerStep, Zenon
            <7> QED
              BY <6>1, <7>2, OwedNow, SMTT(40)
          <6>2. CASE <<f, d>> \notin Timed
            BY <4>3, <6>2, Same, Zenon
          <6> QED
            BY <6>1, <6>2, ZenonT(60)
        <5>4. OnTimers(f) \in Nat
          BY OwedNow, Zenon
        <5> QED
          BY <2>2, <3>2, <4>1, <5>1, <5>2, <5>3, <5>4, SMTT(40)
      <4> QED
        BY <1>1, <4>2, <4>3, Zenon
    <3> QED
      BY <3>1, <3>2, ZenonT(60)
  <2>4. Owed(g) = IF g \in fired THEN 0 ELSE pending[g]
    BY Zenon DEF Exact
  <2>5. OnTimers(g)' \in Nat /\ ByBuilder(g)' \in Nat
    BY OwedThen, ZenonT(60)
  <2>6. Owed(g)' = Owed(g) + (pending'[g] - pending[g])
    BY <2>1, <2>2, <2>3, <2>5, OwedNow, OwedThen, SMTT(40)
  <2> QED
    BY <1>1, <1>4, <2>2, <2>4, <2>6, SMTT(40)
<1> QED
  BY <1>6, Zenon DEF Exact

\* The entry the builder owed is queued, or counted down when the fence is done.
LEMMA LinkExact ==
    ASSUME Shape, Shape', ControlInv, Exact, NEW f \in Fences, Link(f)
    PROVE  Exact'
<1>1. PICK s \in Fences :
        /\ Building(f, "link", s)
        /\ build' = [build EXCEPT ![f] = <<"next", None>>]
        /\ \/ list' = [list EXCEPT ![s] = Append(@, f)] /\ pending' = pending
           \/ list' = list /\ pending' = [pending EXCEPT ![f] = @ - 1]
  BY Zenon DEF Link
<1>2. UNCHANGED <<run, hold, cbs, owner, committed, fired>>
  BY Zenon DEF Link, device, history
<1>3. /\ build[f][1] = "link" /\ build'[f][1] = "next"
      /\ \A g \in Fences \ {f} : build'[g] = build[g]
      /\ pending \in [Fences -> Int] /\ list \in [Fences -> Seq(Fences)]
  BY <1>1 DEF Building, Shape
<1>4. f \notin committed
  BY <1>3, Zenon DEF ControlInv, BuildInv
<1>5. f \notin fired
  BY <1>4, Unfired, Zenon
<1>6. ASSUME NEW g \in Fences
      PROVE  Owed(g)' = IF g \in fired' THEN 0 ELSE pending'[g]
  <2>1. /\ OnChains(g)' = OnChains(g) /\ OnDmas(g)' = OnDmas(g)
        /\ OnTimers(g)' = OnTimers(g)
        /\ ByThreads(g)' = ByThreads(g) /\ ByHolder(g)' = ByHolder(g)
    BY <1>2, Same, Zenon
  <2>2. pending[g] \in Int /\ pending'[g] \in Int
    BY DEF Shape
  <2>3. ByBuilder(g)' = ByBuilder(g) - (IF g = f THEN 1 ELSE 0)
    <3>1. CASE g # f
      <4>1. ByBuilder(g)' = ByBuilder(g) /\ ByBuilder(g) \in Nat
        BY <1>2, <1>3, <3>1, Same, OwedNow, Zenon
      <4> QED
        BY <3>1, <4>1
    <3>2. CASE g = f
      <4>1. ByBuilder(f) = 2
        BY <1>3, <1>4 DEF ByBuilder
      <4>2. ByBuilder(f)' = 1
        BY <1>2, <1>3, <1>4 DEF ByBuilder
      <4> QED
        BY <3>2, <4>1, <4>2
    <3> QED
      BY <3>1, <3>2, Zenon
  <2>4. Owed(g) = IF g \in fired THEN 0 ELSE pending[g]
    BY Zenon DEF Exact
  <2>5. CASE list' = [list EXCEPT ![s] = Append(@, f)] /\ pending' = pending
    <3>1. /\ list' \in [Fences -> Seq(Fences)] /\ list'[s] = Append(list[s], f)
          /\ \A r \in Fences \ {s} : list'[r] = list[r]
      BY <1>3, <2>5 DEF Shape
    <3>2. /\ OnLists(g)' = OnLists(g) - Num(g, list[s]) + Num(g, Append(list[s], f))
          /\ Num(g, list[s]) \in Nat
      BY <1>3, <3>1, ListStep, ZenonT(30)
    <3>3. Num(g, Append(list[s], f)) = Num(g, list[s]) + (IF f = g THEN 1 ELSE 0)
      BY <1>3, AtAppend, Zenon DEF Num
    <3>4. Owed(g)' = Owed(g)
      BY <2>1, <2>3, <3>2, <3>3, OwedNow, OwedThen, SMTT(40)
    <3> QED
      BY <1>2, <2>4, <2>5, <3>4, ZenonT(60)
  <2>6. CASE list' = list /\ pending' = [pending EXCEPT ![f] = @ - 1]
    <3>1. OnLists(g)' = OnLists(g)
      BY <2>6, Same, Zenon
    <3>2. Owed(g)' = Owed(g) - (IF g = f THEN 1 ELSE 0)
      BY <2>1, <2>3, <3>1, OwedNow, OwedThen, SMTT(40)
    <3>3. pending'[g] = IF g = f THEN pending[g] - 1 ELSE pending[g]
      BY <1>3, <2>6, Zenon
    <3> QED
      BY <1>2, <1>5, <2>2, <2>4, <3>2, <3>3, SMTT(40)
  <2> QED
    BY <1>1, <2>5, <2>6, Zenon
<1> QED
  BY <1>6, Zenon DEF Exact

\* Sleeping on a fence, without memory for an entry, leaves the counts alone.
LEMMA SleepExact ==
    ASSUME Shape, Shape', ControlInv, Exact, NEW f \in Fences,
           SleepOnSwFence(f) \/ SleepOnDmaFence(f)
    PROVE  Exact'
<1>1. PICK x : /\ \E at \in {"swwait", "swunlock", "dmawait"} : Building(f, at, x)
               /\ \/ build' = [build EXCEPT ![f] = <<"next", None>>]
                  \/ build' = [build EXCEPT ![f] = <<"swunlock", x>>]
  BY Zenon DEF SleepOnSwFence, SleepOnDmaFence
<1>2. UNCHANGED <<pending, list, run, hold, cbs, owner, committed, fired>>
  BY Zenon DEF SleepOnSwFence, SleepOnDmaFence, device, history
<1>3. /\ build[f][1] \in {"swwait", "swunlock", "dmawait"}
      /\ build'[f][1] \in {"next", "swunlock"}
      /\ \A g \in Fences \ {f} : build'[g] = build[g]
  BY <1>1 DEF Building, Shape
<1>4. ASSUME NEW g \in Fences
      PROVE  Owed(g)' = Owed(g)
  <2>1. /\ OnLists(g)' = OnLists(g) /\ OnChains(g)' = OnChains(g)
        /\ OnDmas(g)' = OnDmas(g) /\ OnTimers(g)' = OnTimers(g)
        /\ ByThreads(g)' = ByThreads(g) /\ ByHolder(g)' = ByHolder(g)
    BY <1>2, Same, Zenon
  <2>2. ByBuilder(g)' = ByBuilder(g)
    <3>1. CASE g # f
      BY <1>2, <1>3, <3>1, Same, ZenonT(60)
    <3>2. CASE g = f
      BY <1>2, <1>3, <3>2, Zenon DEF ByBuilder
    <3> QED
      BY <3>1, <3>2, Zenon
  <2> QED
    BY <2>1, <2>2, Zenon DEF Owed
<1> QED
  BY <1>2, <1>4, Zenon DEF Exact

\* The builder's entry on a DMA fence becomes a callback, or is over.
LEMMA AddCallbackExact ==
    ASSUME Shape, Shape', ControlInv, Exact, NEW f \in Fences, AddCallback(f)
    PROVE  Exact'
<1>1. PICK d \in Dmas :
        /\ Building(f, "addcb", d)
        /\ build' = [build EXCEPT ![f] = <<"next", None>>]
        /\ \/ cbs' = [cbs EXCEPT ![d] = Append(@, f)] /\ UNCHANGED <<pending, owner>>
           \/ /\ cbs' = cbs /\ owner' = owner \ {<<f, d>>}
              /\ pending' = [pending EXCEPT ![f] =
                               IF <<f, d>> \notin Timed \/ <<f, d>> \in owner
                               THEN @ - 1 ELSE @]
  BY Zenon DEF AddCallback
<1> DEFINE p == <<f, d>>
<1>2. UNCHANGED <<list, run, hold, committed, fired>>
  BY Zenon DEF AddCallback, history
<1>3. /\ build[f] = <<"addcb", d>> /\ build[f][1] = "addcb" /\ build[f][2] = d
      /\ build'[f][1] = "next"
      /\ \A g \in Fences \ {f} : build'[g] = build[g]
      /\ pending \in [Fences -> Int] /\ cbs \in [Dmas -> Seq(Fences)]
      /\ owner \subseteq Timed
  BY <1>1 DEF Building, Shape
<1>4. f \notin committed
  BY <1>3, Zenon DEF ControlInv, BuildInv
<1>5. f \notin fired
  BY <1>4, Unfired, Zenon
<1>6. p \in Timed <=> d \notin Untimed(f)
  BY Zenon DEF Untimed
<1>7. ASSUME NEW g \in Fences
      PROVE  Owed(g)' = IF g \in fired' THEN 0 ELSE pending'[g]
  <2>1. /\ OnLists(g)' = OnLists(g) /\ OnChains(g)' = OnChains(g)
        /\ ByThreads(g)' = ByThreads(g) /\ ByHolder(g)' = ByHolder(g)
    BY <1>2, Same, ZenonT(60)
  <2>2. pending[g] \in Int /\ pending'[g] \in Int
    BY DEF Shape
  <2>3. ByBuilder(g)' = ByBuilder(g) - (IF g = f /\ p \notin Timed THEN 1 ELSE 0)
    <3>1. CASE g # f
      <4>1. ByBuilder(g)' = ByBuilder(g) /\ ByBuilder(g) \in Nat
        BY <1>2, <1>3, <3>1, Same, OwedNow, ZenonT(60)
      <4> QED
        BY <3>1, <4>1, SMTT(40)
    <3>2. CASE g = f
      <4>1. ByBuilder(f) = IF p \in Timed THEN 1 ELSE 2
        BY <1>3, <1>4, <1>6, SMTT(40) DEF ByBuilder
      <4>2. ByBuilder(f)' = 1
        BY <1>2, <1>3, <1>4, SMTT(40) DEF ByBuilder
      <4> QED
        BY <3>2, <4>1, <4>2, SMTT(40)
    <3> QED
      BY <3>1, <3>2, Zenon
  <2>4. Owed(g) = IF g \in fired THEN 0 ELSE pending[g]
    BY Zenon DEF Exact
  <2>5. CASE cbs' = [cbs EXCEPT ![d] = Append(@, f)] /\ UNCHANGED <<pending, owner>>
    <3>1. /\ cbs' \in [Dmas -> Seq(Fences)] /\ cbs'[d] = Append(cbs[d], f)
          /\ \A e \in Dmas \ {d} : cbs'[e] = cbs[e]
      BY <1>3, <2>5, SMTT(40) DEF Shape
    <3>2. /\ OnDmas(g)' = OnDmas(g) +
               IF d \in Untimed(g) THEN Num(g, Append(cbs[d], f)) - Num(g, cbs[d]) ELSE 0
          /\ Num(g, cbs[d]) \in Nat
      BY <1>3, <3>1, DmaStep, Zenon
    <3>3. Num(g, Append(cbs[d], f)) = Num(g, cbs[d]) + (IF f = g THEN 1 ELSE 0)
      BY <1>3, AtAppend, SMTT(40) DEF Num
    <3>4. OnDmas(g)' = OnDmas(g) + (IF g = f /\ p \notin Timed THEN 1 ELSE 0)
      <4> HIDE DEF p
      <4> QED
        BY <1>6, <3>2, <3>3, OwedNow, SMTT(40)
    <3>5. OnTimers(g)' = OnTimers(g)
      BY <2>5, Same, ZenonT(60)
    <3>6. Owed(g)' = Owed(g)
      <4> HIDE DEF p
      <4> QED
        BY <2>1, <2>3, <3>4, <3>5, OwedNow, OwedThen, SMTT(40)
    <3> QED
      BY <1>2, <2>4, <2>5, <3>6, ZenonT(60)
  <2>6. CASE /\ cbs' = cbs /\ owner' = owner \ {p}
             /\ pending' = [pending EXCEPT ![f] =
                              IF p \notin Timed \/ p \in owner THEN @ - 1 ELSE @]
    <3>1. OnDmas(g)' = OnDmas(g)
      BY <2>6, Same, Zenon
    <3>2. OnTimers(g)' = OnTimers(g) - (IF g = f /\ p \in owner THEN 1 ELSE 0)
      <4>1. CASE p \in Timed
        <5>1. /\ owner' \ {p} = owner \ {p} /\ p \notin owner' /\ p[1] = f
          BY <2>6, Zenon
        <5>2. OnTimers(g)' = OnTimers(g) - (IF p \in owner /\ f = g THEN 1 ELSE 0) + 0
          BY <1>3, <4>1, <5>1, OwnerStep, ZenonT(60)
        <5> QED
          BY <5>2, OwedNow, SMTT(40)
      <4>2. CASE p \notin Timed
        <5>1. owner' = owner /\ p \notin owner
          BY <1>3, <2>6, <4>2, ZenonT(60)
        <5>2. OnTimers(g)' = OnTimers(g) /\ OnTimers(g) \in Nat
          BY <5>1, Same, OwedNow, Zenon
        <5> QED
          BY <5>1, <5>2, SMTT(40)
      <4> QED
        BY <4>1, <4>2, ZenonT(60)
    <3>3. pending'[g] = IF g = f /\ (p \notin Timed \/ p \in owner)
                        THEN pending[g] - 1 ELSE pending[g]
      BY <1>3, <2>6, Zenon
    <3>4. p \in owner => p \in Timed
      BY <1>3, Zenon
    <3> HIDE DEF p
    <3>5. Owed(g)' = Owed(g) - (IF g = f /\ (p \notin Timed \/ p \in owner) THEN 1 ELSE 0)
      BY <2>1, <2>3, <3>1, <3>2, <3>4, OwedNow, OwedThen, SMTT(40)
    <3> QED
      BY <1>2, <1>5, <2>2, <2>4, <3>3, <3>5, SMTT(40)
  <2> QED
    BY <1>1, <2>5, <2>6, Zenon
<1> QED
  BY <1>7, Zenon DEF Exact

\* A thread that starts to count f down.
LEMMA CallParts ==
    ASSUME Shape, Shape', NEW t \in Threads, NEW f \in Fences, NEW then,
           run[t] = Idle, Call(t, f, then), NEW g \in Fences
    PROVE  /\ OnChains(g)' = OnChains(g)
           /\ ByThreads(g)' = ByThreads(g) + (IF g = f THEN 1 ELSE 0)
<1>1. /\ run'[t].at = "dec" /\ run'[t].root = f /\ run'[t].cur = None
      /\ run'[t].extra = <<>>
      /\ \A u \in Threads \ {t} : run'[u] = run[u]
  BY CallMoves, Zenon DEF Moves
<1>2. run[t].at = "idle" /\ run[t].extra = <<>>
  BY DEF Idle
<1>3. ~Counting(t, g) /\ (Counting(t, g)' <=> g = f)
  BY <1>1, <1>2, Zenon DEF Counting
<1>4. /\ OnChains(g)' = OnChains(g) - Num(g, <<>>) + Num(g, <<>>)
      /\ Num(g, <<>>) \in Nat
      /\ ByThreads(g)' = ByThreads(g) - 0 + (IF g = f THEN 1 ELSE 0)
  BY <1>1, <1>2, <1>3, ThreadParts, Zenon
<1>5. OnChains(g) \in Nat /\ ByThreads(g) \in Nat
  BY OwedNow, Zenon
<1> QED
  BY <1>4, <1>5

\* A call of i915_sw_fence_complete() keeps the wake-ups those of fired fences.
LEMMA CallFired ==
    ASSUME Shape, FiredInv, NEW t \in Threads, NEW f, NEW then, Call(t, f, then),
           fired' = fired
    PROVE  FiredInv'
<1>1. run'[t].at = "dec" /\ \A u \in Threads \ {t} : run'[u] = run[u]
  BY CallMoves, Zenon DEF Moves
<1>2. FiredOK(t)' /\ fired \subseteq fired'
  BY <1>1, Zenon DEF FiredOK
<1> QED
  BY <1>1, <1>2, OthersFired, Zenon

\* Commit takes over the builder's own count.
LEMMA CommitExact ==
    ASSUME Shape, Shape', ControlInv, FiredInv, Exact, NEW f \in Fences, Commit(f)
    PROVE  Exact' /\ FiredInv'
<1> DEFINE t == <<"build", f>>
<1>1. /\ Building(f, "next", None)
      /\ build' = [build EXCEPT ![f] = <<"done", None>>]
      /\ committed' = committed \cup {f}
      /\ Call(t, f, None)
      /\ UNCHANGED <<pending, list, hold, cbs, owner, fired>>
  BY Zenon DEF Commit, device
<1>2. /\ build[f][1] = "next" /\ build'[f][1] = "done"
      /\ \A g \in Fences \ {f} : build'[g] = build[g]
  BY <1>1 DEF Building, Shape
<1>3. f \notin committed /\ f \in committed'
      /\ \A g \in Fences \ {f} : g \in committed' <=> g \in committed
  BY <1>1, <1>2, Zenon DEF ControlInv, BuildInv
<1>4. t \in Threads /\ run[t] = Idle
  BY <1>3, Zenon DEF ControlInv, BuildInv, Threads
<1> HIDE DEF t
<1>5. FiredInv'
  BY <1>1, <1>4, CallFired, Zenon
<1>6. ASSUME NEW g \in Fences
      PROVE  Owed(g)' = Owed(g)
  <2>1. /\ OnLists(g)' = OnLists(g) /\ OnDmas(g)' = OnDmas(g)
        /\ OnTimers(g)' = OnTimers(g) /\ ByHolder(g)' = ByHolder(g)
    BY <1>1, Same, Zenon
  <2>2. /\ OnChains(g)' = OnChains(g)
        /\ ByThreads(g)' = ByThreads(g) + (IF g = f THEN 1 ELSE 0)
    BY <1>1, <1>4, CallParts, Zenon
  <2>3. ByBuilder(g)' = ByBuilder(g) - (IF g = f THEN 1 ELSE 0)
    <3>1. CASE g # f
      <4>1. ByBuilder(g)' = ByBuilder(g) /\ ByBuilder(g) \in Nat
        BY <1>2, <1>3, <3>1, Same, OwedNow, ZenonT(60)
      <4> QED
        BY <3>1, <4>1, SMTT(40)
    <3>2. CASE g = f
      <4>1. ByBuilder(f) = 1
        BY <1>2, <1>3 DEF ByBuilder
      <4>2. ByBuilder(f)' = 0
        BY <1>2, <1>3 DEF ByBuilder
      <4> QED
        BY <3>2, <4>1, <4>2, SMTT(40)
    <3> QED
      BY <3>1, <3>2, Zenon
  <2> QED
    BY <2>1, <2>2, <2>3, OwedNow, OwedThen, SMTT(40)
<1> QED
  BY <1>1, <1>5, <1>6, Zenon DEF Exact

\* A step that moves no thread keeps the wake-ups those of fired fences.
LEMMA StillFired ==
    ASSUME FiredInv, run' = run, fired' = fired
    PROVE  FiredInv'
BY Zenon DEF FiredInv, FiredOK

\* Every step of a builder keeps the count exact.
LEMMA BuilderExact ==
    ASSUME Shape, Shape', ControlInv, FiredInv, Exact, NEW f \in Fences, Builder(f)
    PROVE  Exact' /\ FiredInv'
<1>1. CASE Commit(f)
  BY <1>1, CommitExact, Zenon
<1>2. CASE Link(f) \/ SleepOnSwFence(f) \/ AddCallback(f) \/ SleepOnDmaFence(f)
  <2>1. Exact'
    BY <1>2, LinkExact, SleepExact, AddCallbackExact, Zenon
  <2>2. UNCHANGED <<run, fired>>
    BY <1>2, Zenon DEF Link, SleepOnSwFence, AddCallback, SleepOnDmaFence, history
  <2> QED
    BY <2>1, <2>2, StillFired, ZenonT(60)
<1>3. CASE \E p \in SwDeps : AwaitSwFence(f, p[2])
  <2>1. PICK p \in SwDeps : AwaitSwFence(f, p[2])
    BY <1>3, Zenon
  <2>2. p[2] \in Fences
    BY DepsAssumption, Zenon
  <2>3. UNCHANGED <<run, fired>>
    BY <2>1, Zenon DEF AwaitSwFence
  <2> QED
    BY <2>1, <2>2, <2>3, AwaitSwFenceExact, StillFired, ZenonT(60)
<1>4. CASE \E p \in DmaDeps : AwaitDmaFence(f, p[2])
  <2>1. PICK p \in DmaDeps : AwaitDmaFence(f, p[2])
    BY <1>4, Zenon
  <2>2. p[2] \in Dmas
    BY DepsAssumption, Zenon
  <2>3. UNCHANGED <<run, fired>>
    BY <2>1, Zenon DEF AwaitDmaFence
  <2> QED
    BY <2>1, <2>2, <2>3, AwaitDmaFenceExact, StillFired, ZenonT(60)
<1> QED
  BY <1>1, <1>2, <1>3, <1>4, ZenonT(60) DEF Builder

\* A fence that has fired never counts again.
SpentInv == \A f \in fired : pending[f] \in {0, -1}

\* A holder that finds a count adds its own, atomically.
LEMMA HoldExact ==
    ASSUME Shape, Shape', ControlInv, FiredInv, Exact, SpentInv, NEW f \in Holders,
           HoldRead(f) \/ HoldExchange(f)
    PROVE  Exact' /\ FiredInv'
<1>1. /\ f \in Fences /\ pending \in [Fences -> Int] /\ hold \in [Holders -> Holds]
  BY DepsAssumption, Zenon DEF Shape
<1>2. UNCHANGED <<list, run, cbs, owner, build, committed, fired>>
  BY Zenon DEF HoldRead, HoldExchange, device, history
<1>3. /\ hold[f][1] \in {"idle", "cas"}
      /\ \/ /\ hold[f][1] = "cas" /\ pending[f] = hold[f][2]
            /\ pending' = [pending EXCEPT ![f] = @ + 1]
            /\ hold' = [hold EXCEPT ![f] = <<"held", 0>>]
         \/ /\ pending' = pending
            /\ \/ hold' = [hold EXCEPT ![f] = <<"late", 0>>]
               \/ hold' = [hold EXCEPT ![f] = <<"cas", pending[f]>>]
  BY Zenon DEF HoldRead, HoldExchange
<1>4. ByHolder(f) = 0
  BY <1>3, Zenon DEF ByHolder
<1>5. ASSUME NEW g \in Fences, g # f
      PROVE  ByHolder(g)' = ByHolder(g)
  <2>1. g \in Holders => hold'[g] = hold[g]
    BY <1>1, <1>3, <1>5, Zenon
  <2> QED
    BY <2>1, Zenon DEF ByHolder
<1>6. ASSUME NEW g \in Fences
      PROVE  /\ OnLists(g)' = OnLists(g) /\ OnChains(g)' = OnChains(g)
             /\ OnDmas(g)' = OnDmas(g) /\ OnTimers(g)' = OnTimers(g)
             /\ ByThreads(g)' = ByThreads(g) /\ ByBuilder(g)' = ByBuilder(g)
  BY <1>2, Same, Zenon
<1>7. FiredInv'
  BY <1>2, StillFired, Zenon
<1>8. CASE /\ hold[f][1] = "cas" /\ pending[f] = hold[f][2]
           /\ pending' = [pending EXCEPT ![f] = @ + 1]
           /\ hold' = [hold EXCEPT ![f] = <<"held", 0>>]
  <2>1. hold[f][2] >= 1
    BY <1>8, Zenon DEF ControlInv, HoldInv
  <2>2. pending[f] >= 1
    BY <1>8, <2>1, Zenon
  <2>3. f \notin fired
    BY <2>2 DEF SpentInv
  <2>4. ByHolder(f)' = 1
    BY <1>1, <1>8, Zenon DEF ByHolder
  <2>5. ASSUME NEW g \in Fences
        PROVE  Owed(g)' = IF g \in fired' THEN 0 ELSE pending'[g]
    <3>1. pending'[g] = (IF g = f THEN pending[g] + 1 ELSE pending[g]) /\ pending[g] \in Int
      BY <1>1, <1>8, Zenon
    <3>2. Owed(g)' = Owed(g) + (IF g = f THEN 1 ELSE 0)
      BY <1>4, <1>5, <1>6, <2>4, OwedNow, OwedThen, SMTT(40)
    <3>3. Owed(g) = IF g \in fired THEN 0 ELSE pending[g]
      BY Zenon DEF Exact
    <3> QED
      BY <1>2, <2>3, <3>1, <3>2, <3>3, SMTT(40)
  <2> QED
    BY <1>7, <2>5, Zenon DEF Exact
<1>9. CASE /\ pending' = pending
           /\ \/ hold' = [hold EXCEPT ![f] = <<"late", 0>>]
              \/ hold' = [hold EXCEPT ![f] = <<"cas", pending[f]>>]
  <2>1. hold'[f][1] \in {"late", "cas"}
    BY <1>1, <1>9
  <2>2. ByHolder(f)' = 0
    BY <2>1, Zenon DEF ByHolder
  <2>3. ASSUME NEW g \in Fences
        PROVE  Owed(g)' = Owed(g)
    <3>1. ByHolder(g)' = ByHolder(g)
      BY <1>4, <1>5, <2>2, Zenon
    <3> QED
      BY <1>6, <3>1, Zenon DEF Owed
  <2> QED
    BY <1>2, <1>7, <1>9, <2>3, Zenon DEF Exact
<1> QED
  BY <1>3, <1>8, <1>9, Zenon

\* The holder's count becomes one that its thread owes.
LEMMA HoldDropExact ==
    ASSUME Shape, Shape', ControlInv, FiredInv, Exact, NEW f \in Holders, HoldDrop(f)
    PROVE  Exact' /\ FiredInv'
<1> DEFINE t == <<"hold", f>>
<1>1. /\ hold[f][1] = "held"
      /\ hold' = [hold EXCEPT ![f] = <<"dropped", 0>>]
      /\ Call(t, f, None)
      /\ UNCHANGED <<pending, list, cbs, owner, build, committed, fired>>
  BY Zenon DEF HoldDrop, device
<1>2. f \in Fences /\ t \in Threads /\ run[t] = Idle /\ hold \in [Holders -> Holds]
  BY <1>1, DepsAssumption, Zenon DEF ControlInv, HoldInv, Shape, Threads
<1> HIDE DEF t
<1>3. ByHolder(f) = 1 /\ ByHolder(f)' = 0
  BY <1>1, <1>2, Zenon DEF ByHolder
<1>4. ASSUME NEW g \in Fences, g # f
      PROVE  ByHolder(g)' = ByHolder(g)
  <2>1. g \in Holders => hold'[g] = hold[g]
    BY <1>1, <1>2, <1>4, ZenonT(60)
  <2> QED
    BY <2>1, Zenon DEF ByHolder
<1>5. ASSUME NEW g \in Fences
      PROVE  Owed(g)' = Owed(g)
  <2>1. /\ OnLists(g)' = OnLists(g) /\ OnDmas(g)' = OnDmas(g)
        /\ OnTimers(g)' = OnTimers(g) /\ ByBuilder(g)' = ByBuilder(g)
    BY <1>1, Same, Zenon
  <2>2. /\ OnChains(g)' = OnChains(g)
        /\ ByThreads(g)' = ByThreads(g) + (IF g = f THEN 1 ELSE 0)
    BY <1>1, <1>2, CallParts, Zenon
  <2> QED
    BY <1>3, <1>4, <2>1, <2>2, OwedNow, OwedThen, SMTT(40)
<1>6. FiredInv'
  BY <1>1, <1>2, CallFired, Zenon
<1> QED
  BY <1>1, <1>5, <1>6, Zenon DEF Exact

\* A callback that runs hands its count to the thread that runs it.
LEMMA DmaWakeExact ==
    ASSUME Shape, Shape', ControlInv, FiredInv, Exact, NEW d \in Dmas, DmaWake(d)
    PROVE  Exact' /\ FiredInv'
<1> DEFINE t == <<"dma", d>>
           f == Head(cbs[d])
           p == <<f, d>>
           mine == p \notin Timed \/ p \in owner
<1>1. /\ cbs[d] # <<>> /\ run[t] = Idle
      /\ cbs' = [cbs EXCEPT ![d] = Tail(@)]
      /\ owner' = owner \ {p}
      /\ \/ mine /\ Call(t, f, IF p \in Timed THEN p ELSE None)
         \/ ~mine /\ run' = run
      /\ UNCHANGED <<pending, list, hold, build, committed, fired>>
  BY Zenon DEF DmaWake, history
<1>2. /\ cbs \in [Dmas -> Seq(Fences)] /\ cbs' \in [Dmas -> Seq(Fences)]
      /\ owner \subseteq Timed
  BY Zenon DEF Shape
<1>3. /\ t \in Threads /\ f \in Fences /\ cbs[d] \in Seq(Fences)
      /\ cbs'[d] = Tail(cbs[d]) /\ \A e \in Dmas \ {d} : cbs'[e] = cbs[e]
  BY <1>1, <1>2 DEF Threads
<1>4. /\ p \in Timed <=> d \notin Untimed(f)
      /\ p[1] = f /\ owner' \ {p} = owner \ {p} /\ p \notin owner'
  BY <1>1, Zenon DEF Untimed
<1>5. FiredInv'
  BY <1>1, <1>3, CallFired, StillFired, ZenonT(60)
<1>6. ASSUME NEW g \in Fences
      PROVE  Owed(g)' = Owed(g)
  <2>1. /\ OnLists(g)' = OnLists(g) /\ ByHolder(g)' = ByHolder(g)
        /\ ByBuilder(g)' = ByBuilder(g)
    BY <1>1, Same, Zenon
  <2>2. OnDmas(g)' = OnDmas(g) - (IF g = f /\ p \notin Timed THEN 1 ELSE 0)
    <3>1. /\ OnDmas(g)' = OnDmas(g) +
                IF d \in Untimed(g) THEN Num(g, Tail(cbs[d])) - Num(g, cbs[d]) ELSE 0
          /\ Num(g, cbs[d]) \in Nat
      BY <1>2, <1>3, DmaStep, Zenon
    <3>2. Num(g, Tail(cbs[d])) = Num(g, cbs[d]) - (IF f = g THEN 1 ELSE 0)
      BY <1>1, <1>3, AtTail, Zenon DEF Num
    <3> HIDE DEF p, f
    <3> QED
      BY <1>4, <3>1, <3>2, OwedNow, SMTT(40)
  <2>3. OnTimers(g)' = OnTimers(g) - (IF g = f /\ p \in owner THEN 1 ELSE 0)
    <3>1. CASE p \in Timed
      <4> HIDE DEF p, f
      <4>1. OnTimers(g)' = OnTimers(g) - (IF p \in owner /\ f = g THEN 1 ELSE 0) + 0
        BY <1>2, <1>4, <3>1, OwnerStep, ZenonT(60)
      <4> QED
        BY <4>1, OwedNow, SMTT(40)
    <3>2. CASE p \notin Timed
      <4>1. owner' = owner /\ p \notin owner
        BY <1>1, <1>2, <3>2, ZenonT(60)
      <4>2. OnTimers(g)' = OnTimers(g) /\ OnTimers(g) \in Nat
        BY <4>1, Same, OwedNow, Zenon
      <4> QED
        BY <4>1, <4>2, SMTT(40)
    <3> QED
      BY <3>1, <3>2, ZenonT(60)
  <2>4. /\ OnChains(g)' = OnChains(g)
        /\ ByThreads(g)' = ByThreads(g) + (IF g = f /\ mine THEN 1 ELSE 0)
    <3>1. CASE mine /\ Call(t, f, IF p \in Timed THEN p ELSE None)
      <4>1. /\ OnChains(g)' = OnChains(g)
            /\ ByThreads(g)' = ByThreads(g) + (IF g = f THEN 1 ELSE 0)
        BY <1>1, <1>3, <3>1, CallParts, Zenon
      <4> HIDE DEF mine, f
      <4> QED
        BY <3>1, <4>1, Zenon
    <3>2. CASE ~mine /\ run' = run
      <4>1. /\ OnChains(g)' = OnChains(g) /\ ByThreads(g)' = ByThreads(g)
            /\ ByThreads(g) \in Nat
        BY <3>2, Same, OwedNow, Zenon
      <4> HIDE DEF mine, f
      <4> QED
        BY <3>2, <4>1
    <3> QED
      BY <1>1, <3>1, <3>2, Zenon
  <2>5. p \in owner => p \in Timed
    BY <1>2, Zenon
  <2> HIDE DEF p, f, t
  <2> QED
    BY <2>1, <2>2, <2>3, <2>4, <2>5, OwedNow, OwedThen, SMTT(40)
<1> QED
  BY <1>1, <1>5, <1>6, Zenon DEF Exact

\* So does a timer that expires before its DMA fence signals.
LEMMA TimerWakeExact ==
    ASSUME Shape, Shape', ControlInv, FiredInv, Exact, NEW p \in Timed, TimerWake(p)
    PROVE  Exact' /\ FiredInv'
<1> DEFINE t == <<"timer", p>>
           f == p[1]
<1>1. /\ timer[p] = "armed"
      /\ \/ p \in owner /\ owner' = owner \ {p} /\ Call(t, f, None)
         \/ UNCHANGED <<owner, run>>
      /\ UNCHANGED <<pending, list, hold, build, cbs, committed, fired>>
  BY ZenonT(60) DEF TimerWake
<1>2. t \in Threads /\ f \in Fences /\ owner \subseteq Timed
  BY DepsAssumption DEF Shape, Threads
<1>3. run[t] = Idle
  BY <1>1, Zenon DEF ControlInv, TimerInv
<1> HIDE DEF t, f
<1>4. FiredInv'
  BY <1>1, <1>2, CallFired, StillFired, Zenon
<1>5. ASSUME NEW g \in Fences
      PROVE  Owed(g)' = Owed(g)
  <2>1. /\ OnLists(g)' = OnLists(g) /\ ByHolder(g)' = ByHolder(g)
        /\ OnDmas(g)' = OnDmas(g) /\ ByBuilder(g)' = ByBuilder(g)
    BY <1>1, Same, Zenon
  <2>2. CASE p \in owner /\ owner' = owner \ {p} /\ Call(t, f, None)
    <3>1. /\ OnChains(g)' = OnChains(g)
          /\ ByThreads(g)' = ByThreads(g) + (IF g = f THEN 1 ELSE 0)
      BY <1>2, <1>3, <2>2, CallParts, Zenon
    <3>2. /\ owner' \ {p} = owner \ {p} /\ p \notin owner' /\ p[1] = f
      BY <2>2, Zenon DEF f
    <3>3. OnTimers(g)' = OnTimers(g) - (IF f = g THEN 1 ELSE 0) + 0
      BY <1>2, <2>2, <3>2, OwnerStep, Zenon
    <3> QED
      BY <2>1, <3>1, <3>3, OwedNow, OwedThen, SMTT(40)
  <2>3. CASE UNCHANGED <<owner, run>>
    <3>1. /\ OnTimers(g)' = OnTimers(g) /\ OnChains(g)' = OnChains(g)
          /\ ByThreads(g)' = ByThreads(g)
      BY <2>3, Same, Zenon
    <3> QED
      BY <2>1, <3>1, Zenon DEF Owed
  <2> QED
    BY <1>1, <2>2, <2>3, Zenon
<1> QED
  BY <1>1, <1>4, <1>5, Zenon DEF Exact

\* Waiters, signals and the freeing of callbacks change no count.
LEMMA OtherExact ==
    ASSUME Shape, Shape', ControlInv, FiredInv, Exact, SpentInv,
           \/ \E f \in Sleepers : Wait(f)
           \/ \E f \in Holders : HoldRead(f) \/ HoldExchange(f) \/ HoldDrop(f)
           \/ \E d \in Dmas : DmaWake(d) \/ Signal(d)
           \/ \E p \in Timed : TimerWake(p) \/ IrqWork(p)
    PROVE  Exact' /\ FiredInv'
<1>1. CASE \/ \E f \in Sleepers : Wait(f)
           \/ \E d \in Dmas : Signal(d)
           \/ \E p \in Timed : IrqWork(p)
  <2>1. UNCHANGED <<pending, list, run, build, hold, cbs, owner, committed, fired>>
    BY <1>1, Zenon DEF Wait, Signal, IrqWork, device, history
  <2>2. ASSUME NEW f \in Fences
        PROVE  Owed(f)' = Owed(f)
    BY <2>1, Same, Zenon DEF Owed
  <2> QED
    BY <2>1, <2>2, StillFired, Zenon DEF Exact
<1>2. CASE \E f \in Holders : HoldRead(f) \/ HoldExchange(f) \/ HoldDrop(f)
  BY <1>2, HoldExact, HoldDropExact, Zenon
<1>3. CASE \E d \in Dmas : DmaWake(d)
  BY <1>3, DmaWakeExact, Zenon
<1>4. CASE \E p \in Timed : TimerWake(p)
  BY <1>4, TimerWakeExact, Zenon
<1> QED
  BY <1>1, <1>2, <1>3, <1>4, Zenon

\* Every step of a completion keeps the count exact.
LEMMA CompletionExact ==
    ASSUME Shape, Shape', RunInv, FiredInv, Exact, NEW t \in Threads, Completion(t)
    PROVE  Exact' /\ FiredInv'
BY CompleteExact, CompleteFired, WakeUpAllExact, WakeEntryExact, NestedCompleteExact,
   NestedWakeUpAllExact, SpliceExact, ZenonT(60) DEF Completion

-----------------------------------------------------------------------------
(* The whole invariant.                                                    *)

\* A builder that awaits one more leaves every other fence as it is, and changes
\* the count of its own only before it is done.
LEMMA BuilderFrame ==
    ASSUME Shape, NEW f \in Fences, Builder(f)
    PROVE  /\ UNCHANGED <<lock, fired, freed, waiter>>
           /\ \A g \in Fences \ {f} : pending'[g] = pending[g]
           /\ pending' = pending \/ build[f][1] # "done"
           /\ run' = run \/ Commit(f)
<1> DEFINE Kept == UNCHANGED <<lock, fired, freed, waiter, run>>
<1>1. ASSUME NEW a, NEW x, NEW n, build[f] = <<a, x>>, a # "done",
             pending' = pending \/ pending' = [pending EXCEPT ![f] = n]
      PROVE  /\ \A g \in Fences \ {f} : pending'[g] = pending[g]
             /\ build[f][1] # "done"
  <2>1. pending \in [Fences -> Int]
    BY ZenonT(60) DEF Shape
  <2>2. \A g \in Fences \ {f} : pending'[g] = pending[g]
    BY <1>1, <2>1, ZenonT(60)
  <2>3. build[f][1] = a
    <3>1. <<a, x>>[1] = a
      BY SMTT(40)
    <3> QED
      BY <1>1, <3>1, ZenonT(60)
  <2> QED
    BY <1>1, <2>2, <2>3, ZenonT(60)
<1>2. CASE \E p \in SwDeps : AwaitSwFence(f, p[2])
  <2>1. /\ Kept /\ build[f] = <<"next", None>>
        /\ pending' = pending \/ pending' = [pending EXCEPT ![f] = pending[f] + 1]
    BY <1>2, ZenonT(60) DEF AwaitSwFence, Building
  <2> QED
    BY <1>1, <2>1, ZenonT(60)
<1>3. CASE \E p \in DmaDeps : AwaitDmaFence(f, p[2])
  <2>1. /\ Kept /\ build[f] = <<"next", None>>
        /\ pending' = pending \/ pending' = [pending EXCEPT ![f] = pending[f] + 1]
    BY <1>3, ZenonT(60) DEF AwaitDmaFence, Building
  <2> QED
    BY <1>1, <2>1, ZenonT(60)
<1>4. CASE Link(f)
  <2>1. PICK s \in Fences :
          /\ Kept /\ build[f] = <<"link", s>>
          /\ pending' = pending \/ pending' = [pending EXCEPT ![f] = pending[f] - 1]
    BY <1>4, ZenonT(60) DEF Link, Building, history
  <2> QED
    BY <1>1, <2>1, ZenonT(60)
<1>5. CASE AddCallback(f)
  <2>1. PICK d \in Dmas :
          /\ Kept /\ build[f] = <<"addcb", d>>
          /\ \/ pending' = pending
             \/ \E n : pending' = [pending EXCEPT ![f] = n]
    BY <1>5, ZenonT(60) DEF AddCallback, Building, history
  <2>2. PICK n : pending' = pending \/ pending' = [pending EXCEPT ![f] = n]
    BY <2>1, ZenonT(60)
  <2> QED
    BY <1>1, <2>1, <2>2, ZenonT(60)
<1>6. CASE SleepOnSwFence(f) \/ SleepOnDmaFence(f) \/ Commit(f)
  BY <1>6, ZenonT(60) DEF SleepOnSwFence, SleepOnDmaFence, Commit, history
<1> QED
  BY <1>2, <1>3, <1>4, <1>5, <1>6, ZenonT(60) DEF Builder

\* A fence that counts down has not fired, and one that has fired stays spent.
LEMMA SpentStep ==
    ASSUME Shape, Shape', ControlInv, FiredInv, Exact, SpentInv, Next
    PROVE  SpentInv'
<1>0. pending \in [Fences -> Int] /\ fired \subseteq Fences
  BY Zenon DEF Shape
<1>1. ASSUME NEW t \in Threads, Completion(t)
      PROVE  SpentInv'
  <2> USE DEF ControlInv
  <2>1. CASE Complete(t)
    <3>1. Stands(t, "dec")
      BY <2>1, CompleteMoves, Zenon
    <3>2. run[t].root \in Fences /\ Counting(t, run[t].root)
      BY <3>1, Zenon DEF Stands, Counting
    <3>3. run[t].root \notin fired /\ pending[run[t].root] >= 1
      BY <3>2, Unfired, Zenon
    <3>4. /\ pending' = [pending EXCEPT ![run[t].root] = IF Done(run[t].root) THEN @ ELSE @ - 1]
          /\ \/ pending[run[t].root] = 1 /\ fired' = fired \cup {run[t].root}
             \/ fired' = fired
      BY <2>1, CompleteMoves, Zenon
    <3> QED
      BY <1>0, <3>2, <3>3, <3>4, SMTT(40) DEF SpentInv, Done
  <2>2. CASE WakeUpAll(t)
    <3>1. pending' = [pending EXCEPT ![run[t].root] = -1] /\ fired' = fired
      BY <2>2, Zenon DEF WakeUpAll, history
    <3> QED
      BY <1>0, <3>1, Zenon DEF SpentInv
  <2>3. CASE WakeEntry(t) \/ Splice(t)
    <3>1. pending' = pending /\ fired' = fired
      BY <2>3, Zenon DEF WakeEntry, Splice, history
    <3> QED
      BY <3>1, Zenon DEF SpentInv
  <2>4. CASE NestedComplete(t)
    <3>1. Stands(t, "nested")
      BY <2>4, NestedCompleteMoves, Zenon
    <3>2. run[t].cur \in Fences /\ Counting(t, run[t].cur)
      BY <3>1, Zenon DEF Stands, Counting
    <3>3. run[t].cur \notin fired /\ pending[run[t].cur] >= 1
      BY <3>2, Unfired, Zenon
    <3>4. /\ pending' = [pending EXCEPT ![run[t].cur] = @ - 1]
          /\ fired' = IF pending[run[t].cur] = 1 THEN fired \cup {run[t].cur} ELSE fired
      BY <2>4, Zenon DEF NestedComplete
    <3> QED
      BY <1>0, <3>2, <3>3, <3>4, SMTT(40) DEF SpentInv
  <2>5. CASE NestedWakeUpAll(t)
    <3>1. pending' = [pending EXCEPT ![run[t].cur] = -1] /\ fired' = fired
      BY <2>5, Zenon DEF NestedWakeUpAll
    <3> QED
      BY <1>0, <3>1, Zenon DEF SpentInv
  <2> QED
    BY <1>1, <2>1, <2>2, <2>3, <2>4, <2>5, ZenonT(60) DEF Completion
<1>2. ASSUME NEW f \in Fences, Builder(f)
      PROVE  SpentInv'
  <2>1. /\ fired' = fired
        /\ \A g \in Fences \ {f} : pending'[g] = pending[g]
        /\ pending' = pending \/ build[f][1] # "done"
    BY <1>2, BuilderFrame, ZenonT(60)
  <2>2. build[f][1] # "done" => f \notin fired
    <3>1. build[f][1] # "done" => f \notin committed
      BY Zenon DEF ControlInv, BuildInv
    <3> QED
      BY <3>1, Unfired, Zenon
  <2> QED
    BY <1>0, <2>1, <2>2, Zenon DEF SpentInv
<1>3. ASSUME NEW f \in Holders, HoldRead(f) \/ HoldExchange(f) \/ HoldDrop(f)
      PROVE  SpentInv'
  <2>1. /\ fired' = fired
        /\ \/ pending' = pending
           \/ /\ pending' = [pending EXCEPT ![f] = @ + 1]
              /\ hold[f][1] = "cas" /\ pending[f] = hold[f][2]
    BY <1>3, Zenon DEF HoldRead, HoldExchange, HoldDrop, history
  <2>2. hold[f][1] = "cas" => hold[f][2] >= 1
    BY Zenon DEF ControlInv, HoldInv
  <2> QED
    BY <1>0, <2>1, <2>2, SMTT(40) DEF SpentInv
<1>4. CASE \/ \E f \in Sleepers : Wait(f)
           \/ \E d \in Dmas : DmaWake(d) \/ Signal(d)
           \/ \E p \in Timed : TimerWake(p) \/ IrqWork(p)
  <2>1. pending' = pending /\ fired' = fired
    BY <1>4, Zenon DEF Wait, DmaWake, Signal, TimerWake, IrqWork, history
  <2> QED
    BY <2>1, Zenon DEF SpentInv
<1> QED
  BY <1>1, <1>2, <1>3, <1>4, Zenon DEF Next, Running

-----------------------------------------------------------------------------
(* The invariant of the count.                                             *)

\* The most that may still be added to the count of f.
Extra(f) == IF f \in Holders /\ hold[f][1] \in {"held", "dropped"} THEN 1 ELSE 0

\* Each await adds at most one count, and a holder one.
LEMMA BoundStep ==
    ASSUME Shape, Shape', ControlInv, FiredInv, Exact, SpentInv, BoundInv, Next
    PROVE  BoundInv'
<1> DEFINE N == Cardinality(SwDeps \cup DmaDeps)
<1>0. /\ pending \in [Fences -> Int] /\ pending' \in [Fences -> Int]
      /\ hold \in [Holders -> Holds] /\ fired \subseteq Fences
  BY Zenon DEF Shape
<1>1. ASSUME NEW f \in Fences
      PROVE  /\ Cardinality(todo[f]) \in Nat /\ IsFiniteSet(todo[f])
             /\ Extra(f) \in {0, 1} /\ Extra(f)' \in {0, 1}
  <2>1. todo[f] \subseteq SwDeps \cup DmaDeps
    BY Zenon DEF Shape
  <2>2. IsFiniteSet(todo[f])
    BY <2>1, Finite, FS_Subset, ZenonT(60)
  <2>3. Cardinality(todo[f]) \in Nat
    BY <2>2, FS_CardinalityType, Zenon
  <2> QED
    BY <2>2, <2>3, Zenon DEF Extra
<1>2. N \in Nat
  BY Finite, Zenon
<1> HIDE DEF N
<1>3. \A f \in Fences : pending[f] + Cardinality(todo[f]) <= N + 1 + Extra(f)
  BY Zenon DEF BoundInv, Extra, N
<1>4. SUFFICES \A f \in Fences :
                  pending'[f] + Cardinality(todo'[f]) <= N + 1 + Extra(f)'
  BY Zenon DEF BoundInv, Extra, N
<1>5. ASSUME UNCHANGED <<todo, hold>>,
             \A f \in Fences : pending'[f] <= pending[f]
      PROVE  \A f \in Fences :
                pending'[f] + Cardinality(todo'[f]) <= N + 1 + Extra(f)'
  <2> SUFFICES ASSUME NEW f \in Fences
               PROVE  pending'[f] + Cardinality(todo'[f]) <= N + 1 + Extra(f)'
    BY Zenon
  <2>1. Cardinality(todo'[f]) = Cardinality(todo[f]) /\ Extra(f)' = Extra(f)
    BY <1>5, Zenon DEF Extra
  <2>2. pending'[f] <= pending[f] /\ pending[f] \in Int /\ pending'[f] \in Int
    BY <1>0, <1>5, Zenon
  <2> QED
    BY <1>1, <1>2, <1>3, <2>1, <2>2, SMTT(40)
<1>6. ASSUME NEW t \in Threads, Completion(t)
      PROVE  \A f \in Fences : pending'[f] + Cardinality(todo'[f]) <= N + 1 + Extra(f)'
  <2>1. UNCHANGED <<todo, hold>>
    BY <1>6, CompletionFrame, Zenon DEF ControlInv
  <2>2. \A f \in Fences : pending'[f] <= pending[f]
    <3>1. CASE Complete(t)
      <4>1. pending' = [pending EXCEPT ![run[t].root] = IF Done(run[t].root) THEN @ ELSE @ - 1]
        BY <3>1, Zenon DEF Complete
      <4> QED
        BY <1>0, <4>1
    <3>2. CASE WakeUpAll(t)
      <4>1. Stands(t, "wake") /\ pending' = [pending EXCEPT ![run[t].root] = -1]
        BY <3>2, WakeUpAllMoves, Zenon DEF ControlInv
      <4>2. run[t].root \in fired
        BY <4>1, Zenon DEF Stands, FiredInv, FiredOK
      <4> QED
        BY <1>0, <4>1, <4>2, SMTT(40) DEF SpentInv
    <3>3. CASE WakeEntry(t) \/ Splice(t)
      <4>1. pending' = pending
        BY <3>3, Zenon DEF WakeEntry, Splice
      <4> QED
        BY <1>0, <4>1
    <3>4. CASE NestedComplete(t)
      <4>1. pending' = [pending EXCEPT ![run[t].cur] = @ - 1]
        BY <3>4, Zenon DEF NestedComplete
      <4> QED
        BY <1>0, <4>1, SMTT(40)
    <3>5. CASE NestedWakeUpAll(t)
      <4>1. Stands(t, "nestedwake") /\ pending' = [pending EXCEPT ![run[t].cur] = -1]
        BY <3>5, NestedWakeUpAllMoves, Zenon DEF ControlInv
      <4>2. run[t].cur \in fired
        BY <4>1, Zenon DEF Stands, FiredInv, FiredOK
      <4> QED
        BY <1>0, <4>1, <4>2, SMTT(40) DEF SpentInv
    <3> QED
      BY <1>6, <3>1, <3>2, <3>3, <3>4, <3>5, ZenonT(60) DEF Completion
  <2> QED
    BY <1>5, <2>1, <2>2, Zenon
<1>7. ASSUME NEW f \in Fences, NEW x, <<f, x>> \in todo[f],
             todo' = [todo EXCEPT ![f] = @ \ {<<f, x>>}], hold' = hold,
             pending' = pending \/ pending' = [pending EXCEPT ![f] = @ + 1]
      PROVE  \A g \in Fences :
                pending'[g] + Cardinality(todo'[g]) <= N + 1 + Extra(g)'
  <2> SUFFICES ASSUME NEW g \in Fences
               PROVE  pending'[g] + Cardinality(todo'[g]) <= N + 1 + Extra(g)'
    BY Zenon
  <2>1. Extra(g)' = Extra(g)
    BY <1>7, Zenon DEF Extra
  <2>2. pending[g] \in Int /\ pending'[g] \in Int
        /\ pending'[g] <= IF g = f THEN pending[g] + 1 ELSE pending[g]
    <3>1. /\ pending[g] \in Int
          /\ pending'[g] = pending[g] \/ (g = f /\ pending'[g] = pending[g] + 1)
      BY <1>0, <1>7, ZenonT(60)
    <3> QED
      BY <3>1, SMTT(40)
  <2>3. g # f => todo'[g] = todo[g]
    BY <1>7 DEF Shape
  <2>4. Cardinality(todo[f] \ {<<f, x>>}) = Cardinality(todo[f]) - 1
    BY <1>1, <1>7, FS_RemoveElement, ZenonT(60)
  <2>5. todo'[f] = todo[f] \ {<<f, x>>}
    BY <1>7 DEF Shape
  <2>6. pending[g] + Cardinality(todo[g]) <= N + 1 + Extra(g)
    BY <1>3, Zenon
  <2>7. CASE g = f
    <3>1. /\ Cardinality(todo'[f]) = Cardinality(todo[f]) - 1
          /\ Cardinality(todo[f]) \in Nat /\ Extra(f) \in {0, 1}
      BY <1>1, <2>4, <2>5, Zenon
    <3>2. /\ pending[f] \in Int /\ pending'[f] \in Int /\ pending'[f] <= pending[f] + 1
          /\ pending[f] + Cardinality(todo[f]) <= N + 1 + Extra(f)
          /\ Extra(f)' = Extra(f)
      BY <2>1, <2>2, <2>6, <2>7, ZenonT(60)
    <3> QED
      BY <1>2, <2>7, <3>1, <3>2, SMTT(40)
  <2>8. CASE g # f
    BY <1>1, <1>2, <2>1, <2>2, <2>3, <2>6, <2>8, SMTT(40)
  <2> QED
    BY <2>7, <2>8, Zenon
<1>8. ASSUME NEW f \in Fences, Builder(f)
      PROVE  \A g \in Fences : pending'[g] + Cardinality(todo'[g]) <= N + 1 + Extra(g)'
  <2>1. CASE \E p \in SwDeps : AwaitSwFence(f, p[2])
    BY <1>7, <2>1, Zenon DEF AwaitSwFence
  <2>2. CASE \E p \in DmaDeps : AwaitDmaFence(f, p[2])
    BY <1>7, <2>2, Zenon DEF AwaitDmaFence
  <2>3. CASE Link(f)
    <3>1. /\ UNCHANGED <<todo, hold>>
          /\ pending' = pending \/ pending' = [pending EXCEPT ![f] = @ - 1]
      BY <2>3, Zenon DEF Link
    <3>2. \A g \in Fences : pending'[g] <= pending[g]
      BY <1>0, <3>1
    <3> QED
      BY <1>5, <3>1, <3>2, Zenon
  <2>4. CASE AddCallback(f)
    <3>1. /\ UNCHANGED <<todo, hold>>
          /\ \/ pending' = pending
             \/ \E mine \in BOOLEAN :
                  pending' = [pending EXCEPT ![f] = IF mine THEN @ - 1 ELSE @]
      <4>1. PICK d \in Dmas :
              \/ pending' = pending
              \/ pending' = [pending EXCEPT ![f] = IF <<f, d>> \notin Timed \/ <<f, d>> \in owner
                                                   THEN @ - 1 ELSE @]
        BY <2>4, Zenon DEF AddCallback
      <4>2. UNCHANGED <<todo, hold>>
        BY <2>4, Zenon DEF AddCallback
      <4> QED
        BY <4>1, <4>2, Zenon
    <3>2. \A g \in Fences : pending'[g] <= pending[g]
      BY <1>0, <3>1
    <3> QED
      BY <1>5, <3>1, <3>2, Zenon
  <2>5. CASE SleepOnSwFence(f) \/ SleepOnDmaFence(f) \/ Commit(f)
    <3>1. UNCHANGED <<pending, todo, hold>>
      BY <2>5, Zenon DEF SleepOnSwFence, SleepOnDmaFence, Commit
    <3>2. \A g \in Fences : pending'[g] <= pending[g]
      BY <1>0, <3>1, SMTT(40)
    <3> QED
      BY <1>5, <3>1, <3>2, ZenonT(60)
  <2> QED
    BY <1>8, <2>1, <2>2, <2>3, <2>4, <2>5, ZenonT(60) DEF Builder
<1>9. ASSUME NEW f \in Holders, HoldRead(f) \/ HoldExchange(f) \/ HoldDrop(f)
      PROVE  \A g \in Fences : pending'[g] + Cardinality(todo'[g]) <= N + 1 + Extra(g)'
  <2>1. /\ todo' = todo
        /\ \/ /\ pending' = pending /\ hold[f][1] \in {"idle", "cas"}
              /\ \/ hold' = [hold EXCEPT ![f] = <<"late", 0>>]
                 \/ hold' = [hold EXCEPT ![f] = <<"cas", pending[f]>>]
           \/ /\ pending' = pending
              /\ hold' = [hold EXCEPT ![f] = <<"dropped", 0>>]
           \/ /\ pending' = [pending EXCEPT ![f] = @ + 1]
              /\ hold[f][1] = "cas"
              /\ hold' = [hold EXCEPT ![f] = <<"held", 0>>]
    BY <1>9, Zenon DEF HoldRead, HoldExchange, HoldDrop
  <2>2. /\ \A h \in Holders \ {f} : hold'[h] = hold[h]
        /\ \/ pending' = pending /\ hold[f][1] \in {"idle", "cas"}
           \/ pending' = pending /\ hold'[f][1] = "dropped"
           \/ /\ pending' = [pending EXCEPT ![f] = @ + 1]
              /\ hold[f][1] = "cas" /\ hold'[f][1] = "held"
    BY <1>0, <2>1
  <2> SUFFICES ASSUME NEW g \in Fences
               PROVE  pending'[g] + Cardinality(todo'[g]) <= N + 1 + Extra(g)'
    BY Zenon
  <2>3. pending'[g] - Extra(g)' <= pending[g] - Extra(g)
        /\ pending[g] \in Int /\ pending'[g] \in Int
    <3>1. CASE g # f
      <4>1. pending'[g] = pending[g] /\ Extra(g)' = Extra(g)
        BY <1>0, <2>2, <3>1, ZenonT(60) DEF Extra
      <4> QED
        BY <1>0, <1>1, <4>1, SMTT(40)
    <3>2. CASE g = f
      BY <1>0, <2>2, <3>2, SMTT(40) DEF Extra
    <3> QED
      BY <3>1, <3>2, Zenon
  <2> QED
    BY <1>1, <1>2, <1>3, <2>1, <2>3, SMTT(40)
<1>10. CASE \/ \E f \in Sleepers : Wait(f)
            \/ \E d \in Dmas : DmaWake(d) \/ Signal(d)
            \/ \E p \in Timed : TimerWake(p) \/ IrqWork(p)
  <2>1. UNCHANGED <<pending, todo, hold>>
    BY <1>10, Zenon DEF Wait, DmaWake, Signal, TimerWake, IrqWork
  <2>2. \A g \in Fences : pending'[g] <= pending[g]
    BY <1>0, <2>1
  <2> QED
    BY <1>5, <2>1, <2>2, ZenonT(60)
<1> QED
  BY <1>6, <1>8, <1>9, <1>10, ZenonT(60) DEF Next, Running

-----------------------------------------------------------------------------
(* The inductive invariant of the count.                                   *)

CountIInv == Shape /\ ControlInv /\ FiredInv /\ Exact /\ SpentInv /\ BoundInv

\* What is counted is never negative: nor is a count that can still fall.
LEMMA CountType == CountIInv => CountExact
<1> SUFFICES ASSUME CountIInv
             PROVE  CountExact
  BY Zenon
<1> USE DEF CountIInv
<1>1. ASSUME NEW f \in Fences
      PROVE  pending[f] \in -1 .. Cardinality(SwDeps \cup DmaDeps) + 2
  <2>1. pending[f] \in Int /\ pending[f] >= -1
    <3>1. CASE f \in fired
      BY <3>1 DEF SpentInv
    <3>2. CASE f \notin fired
      <4>1. pending[f] = Owed(f)
        BY <3>2, Zenon DEF Exact
      <4>2. Owed(f) \in Nat
        BY OwedRest, Zenon DEF OwedSum
      <4> QED
        BY <4>1, <4>2
    <3> QED
      BY <3>1, <3>2, Zenon
  <2>2. todo[f] \subseteq SwDeps \cup DmaDeps
    BY Zenon DEF Shape
  <2>3. Cardinality(todo[f]) \in Nat /\ Cardinality(SwDeps \cup DmaDeps) \in Nat
    BY <2>2, Finite, FS_Subset, FS_CardinalityType, Zenon
  <2>4. pending[f] + Cardinality(todo[f]) <= Cardinality(SwDeps \cup DmaDeps) + 1 + Extra(f)
    BY Zenon DEF BoundInv, Extra
  <2>5. Extra(f) \in {0, 1}
    BY Zenon DEF Extra
  <2> QED
    BY <2>1, <2>3, <2>4, <2>5, SMTT(40)
<1>2. pending \in [Fences -> -1 .. Cardinality(SwDeps \cup DmaDeps) + 2]
  BY <1>1, Zenon DEF Shape
<1>3. TypeOK
  BY <1>2, Zenon DEF Shape, TypeOK, Runs, Builds, Holds
<1> QED
  BY <1>3, Zenon DEF CountExact, Exact

\* Every step keeps the invariant of the count,
LEMMA CountNext == CountIInv /\ [Next]_vars => CountIInv'
<1> SUFFICES ASSUME CountIInv, [Next]_vars
             PROVE  CountIInv'
  BY Zenon
<1> USE DEF CountIInv
<1>1. CASE Next
  <2>1. \/ \E t \in Threads : Completion(t)
        \/ \E f \in Fences : Builder(f)
        \/ \E f \in Sleepers : Wait(f)
        \/ \E f \in Holders : HoldRead(f) \/ HoldExchange(f) \/ HoldDrop(f)
        \/ \E d \in Dmas : DmaWake(d) \/ Signal(d)
        \/ \E p \in Timed : TimerWake(p) \/ IrqWork(p)
    BY <1>1, Zenon DEF Next, Running
  <2>2. Shape' /\ ControlInv'
    BY <2>1, CompletionShape, BuilderShape, OtherShape, CompletionControl,
       BuilderControl, OtherControl, ZenonT(60) DEF ControlInv
  <2>3. Exact' /\ FiredInv'
    BY <2>1, <2>2, CompletionExact, BuilderExact, OtherExact, ZenonT(60) DEF ControlInv
  <2> QED
    BY <1>1, <2>2, <2>3, SpentStep, BoundStep, ZenonT(60)
<1>2. CASE UNCHANGED vars
  <2>1. UNCHANGED <<pending, error, list, lock, run, build, todo, hold, waiter, dma,
                    cbs, owner, timer, work, awaits, committed, released, fired, freed>>
    BY <1>2, Zenon DEF vars, device, history
  <2>2. Shape'
    BY <2>1, Zenon DEF Shape
  <2>3. ControlInv'
    BY <2>1, Zenon DEF ControlInv, RunInv, RunOK, BuildInv, HoldInv, TimerInv
  <2>4. FiredInv' /\ SpentInv' /\ BoundInv'
    BY <2>1, Zenon DEF FiredInv, FiredOK, SpentInv, BoundInv
  <2>5. ASSUME NEW f \in Fences
        PROVE  Owed(f)' = Owed(f)
    BY <2>1, Same, Zenon DEF Owed
  <2>6. Exact'
    BY <2>1, <2>5, Zenon DEF Exact
  <2> QED
    BY <2>2, <2>3, <2>4, <2>6, ZenonT(60)
<1> QED
  BY <1>1, <1>2, Zenon

\* ... it holds initially,
LEMMA CountInit == Init => CountIInv
<1> SUFFICES ASSUME Init
             PROVE  CountIInv
  BY ZenonT(60)
<1>1. Shape
  BY DEF Init, Shape, Runs, Builds, Holds, Idle
<1>2. /\ run = [t \in Threads |-> Idle] /\ Idle.at = "idle" /\ Idle.then = None
      /\ Idle.extra = <<>>
  BY Zenon DEF Init, Idle
<1>3. RunInv /\ FiredInv
  BY <1>2, Zenon DEF RunInv, RunOK, FiredInv, FiredOK
<1>4. BuildInv
  BY <1>2, Zenon DEF Init, BuildInv, Threads
<1>5. HoldInv /\ TimerInv
  BY <1>2, Zenon DEF Init, HoldInv, TimerInv, Threads
<1>6. SpentInv
  BY Zenon DEF Init, SpentInv
<1>7. BoundInv
  <2> SUFFICES ASSUME NEW f \in Fences
               PROVE  pending[f] + Cardinality(todo[f])
                        <= Cardinality(SwDeps \cup DmaDeps) + 1 + Extra(f)
    BY Zenon DEF BoundInv, Extra
  <2>1. todo[f] \subseteq SwDeps \cup DmaDeps
    BY <1>1, Zenon DEF Shape
  <2>2. /\ Cardinality(todo[f]) \in Nat /\ Cardinality(SwDeps \cup DmaDeps) \in Nat
        /\ Cardinality(todo[f]) <= Cardinality(SwDeps \cup DmaDeps)
    BY <2>1, Finite, FS_Subset, FS_CardinalityType, ZenonT(60)
  <2>3. Extra(f) \in {0, 1} /\ pending[f] = 1
    BY Zenon DEF Extra, Init
  <2> QED
    BY <2>2, <2>3
<1>8. Exact
  <2> SUFFICES ASSUME NEW f \in Fences
               PROVE  Owed(f) = 1
    BY Zenon DEF Exact, Init
  <2>0. \A F : (\A i \in DOMAIN F : F[i] = {}) => Cardinality(Spread(F)) = 0
    <3> SUFFICES ASSUME NEW F, \A i \in DOMAIN F : F[i] = {}
                 PROVE  Cardinality(Spread(F)) = 0
      BY Zenon
    <3>1. Spread(F) = {}
      BY Zenon DEF Spread
    <3> QED
      BY <3>1, FS_EmptySet, Zenon
  <2>1. At(f, <<>>) = {}
    BY DEF At
  <2>2. OnLists(f) = 0
    <3> DEFINE F == [s \in Fences |-> At(f, list[s])]
    <3>1. \A s \in DOMAIN F : F[s] = {}
      BY <2>1, Zenon DEF Init
    <3> HIDE DEF F
    <3>2. Cardinality(Spread(F)) = 0
      BY <2>0, <3>1, Zenon
    <3> QED
      BY <3>2, Zenon DEF OnLists, F
  <2>3. OnChains(f) = 0
    <3> DEFINE F == [t \in Threads |-> At(f, run[t].extra)]
    <3>1. \A t \in DOMAIN F : F[t] = {}
      BY <1>2, <2>1, ZenonT(60)
    <3> HIDE DEF F
    <3>2. Cardinality(Spread(F)) = 0
      BY <2>0, <3>1, Zenon
    <3> QED
      BY <3>2, Zenon DEF OnChains, F
  <2>4. OnDmas(f) = 0
    <3> DEFINE F == [d \in Untimed(f) |-> At(f, cbs[d])]
    <3>1. \A d \in DOMAIN F : F[d] = {}
      BY <2>1, ZenonT(60) DEF Init, Untimed
    <3> HIDE DEF F
    <3>2. Cardinality(Spread(F)) = 0
      BY <2>0, <3>1, Zenon
    <3> QED
      BY <3>2, Zenon DEF OnDmas, F
  <2>5. OnTimers(f) = 0
    <3>1. {p \in owner : p[1] = f} = {}
      BY Zenon DEF Init
    <3> QED
      BY <3>1, FS_EmptySet, Zenon DEF OnTimers
  <2>6. ByThreads(f) = 0
    <3>1. \A t \in Threads : ~Counting(t, f)
      BY <1>2, Zenon DEF Counting
    <3>2. {t \in Threads : Counting(t, f)} = {}
      BY <3>1, Zenon
    <3> QED
      BY <3>2, FS_EmptySet, Zenon DEF ByThreads
  <2>7. ByHolder(f) = 0 /\ ByBuilder(f) = 1
    BY DEF Init, ByHolder, ByBuilder
  <2> QED
    BY <2>2, <2>3, <2>4, <2>5, <2>6, <2>7, SMTT(40) DEF Owed
<1> QED
  BY <1>1, <1>3, <1>4, <1>5, <1>6, <1>7, <1>8, ZenonT(60) DEF CountIInv, ControlInv

\* ... and so always.
LEMMA CountAlways == Spec => []CountIInv
BY CountInit, CountNext, PTL DEF Spec

\* The count of a fence is exactly what is still owed to it, for any set of
\* fences and dependencies: i915_sw_fence_complete() can neither fire a fence
\* early nor be called once too often (i915_sw_fence.c).
THEOREM CountIsExact == Spec => []CountExact
BY CountAlways, CountType, PTL
=============================================================================
