----------------------------- MODULE SwFenceInv -----------------------------
(***************************************************************************)
(* Facts that the proofs about SwFence rest on: how sets of waiters are    *)
(* counted, what each step of a completion does, and the type of every     *)
(* variable and the place of every thread.                                 *)
(***************************************************************************)
EXTENDS SwFence, FiniteSetTheorems, TLAPS

\* A thread's place in the completion code agrees with the fences it names.
RunOK(t) ==
    /\ run[t].at = "idle" => run[t] = Idle
    /\ run[t].at # "idle" => run[t].root \in Fences
    /\ run[t].at \in {"nested", "nestedwake"} => run[t].cur \in Fences
    /\ run[t].at \in {"dec", "wake", "scan"} => run[t].cur = None
    /\ run[t].at \in {"dec", "wake"} => run[t].extra = <<>>
    /\ run[t].then # None => t = <<"dma", run[t].then[2]>>

RunInv == \A t \in Threads : RunOK(t)

\* A builder completes its fence once, after it has awaited everything, and
\* awaits nothing twice.
BuildInv ==
    \A f \in Fences :
        /\ f \in committed <=> build[f][1] = "done"
        /\ f \notin committed => run[<<"build", f>>] = Idle
        /\ \A p \in todo[f] : p[1] = f /\ p \notin awaits

\* A holder completes the fence once, if it got a count.
HoldInv ==
    \A f \in Holders :
        /\ hold[f][1] # "dropped" => run[<<"hold", f>>] = Idle
        /\ hold[f][1] = "cas" => hold[f][2] >= 1
        /\ hold[f][1] = "held" => <<f, Hold(f)>> \in awaits

\* A timer completes the fence once.
TimerInv ==
    \A p \in Timed :
        /\ timer[p] # "running" => run[<<"timer", p>>] = Idle
        /\ p \in owner => p \in awaits
        /\ p \notin awaits => timer[p] = "off"

\* The count never exceeds what the builder and the holder may add.
BoundInv ==
    \A f \in Fences :
        pending[f] + Cardinality(todo[f])
            <= Cardinality(SwDeps \cup DmaDeps) + 1
                 + (IF f \in Holders /\ hold[f][1] \in {"held", "dropped"}
                    THEN 1 ELSE 0)

ControlInv == RunInv /\ BuildInv /\ HoldInv /\ TimerInv

-----------------------------------------------------------------------------
(* Counting.                                                               *)

\* A set that differs from another in at most one member has its size, up to
\* that member.
LEMMA OneMember ==
    ASSUME NEW A, NEW B, NEW x, IsFiniteSet(A), A \ {x} = B \ {x}
    PROVE  /\ IsFiniteSet(B)
           /\ Cardinality(B) = Cardinality(A) - (IF x \in A THEN 1 ELSE 0)
                                              + (IF x \in B THEN 1 ELSE 0)
<1> DEFINE C == A \ {x}
<1>1. IsFiniteSet(C) /\ Cardinality(C) = Cardinality(A) - (IF x \in A THEN 1 ELSE 0)
  <2>1. Cardinality(A) \in Nat
    BY FS_CardinalityType, Zenon
  <2>2. IsFiniteSet(C) /\ Cardinality(C) = IF x \in A THEN Cardinality(A) - 1 ELSE Cardinality(A)
    BY FS_RemoveElement, Zenon
  <2> QED
    BY <2>1, <2>2
<1>2. Cardinality(C) \in Nat /\ Cardinality(A) \in Nat
  BY <1>1, FS_CardinalityType, Zenon
<1>3. CASE x \in B
  <2>1. B = C \cup {x} /\ x \notin C
    BY <1>3, Zenon
  <2> HIDE DEF C
  <2>2. IsFiniteSet(B) /\ Cardinality(B) = Cardinality(C) + 1
    BY <2>1, <1>1, FS_AddElement, Zenon
  <2> QED
    BY <2>2, <1>1, <1>2, <1>3, Zenon
<1>4. CASE x \notin B
  <2>1. B = C
    BY <1>4, Zenon
  <2> HIDE DEF C
  <2> QED
    BY <2>1, <1>1, <1>2, <1>4
<1> QED
  BY <1>3, <1>4, Zenon

\* A finite family of finite sets has finitely many members.
LEMMA SpreadFinite ==
    ASSUME NEW F, IsFiniteSet(DOMAIN F), \A i \in DOMAIN F : IsFiniteSet(F[i])
    PROVE  IsFiniteSet(Spread(F)) /\ Cardinality(Spread(F)) \in Nat
<1> DEFINE g == [i \in DOMAIN F |-> {i} \X F[i]]
           T == {{i} \X F[i] : i \in DOMAIN F}
<1>1. g \in Surjection(DOMAIN F, T)
  BY Zenon DEF Surjection
<1>2. IsFiniteSet(T)
  <2> HIDE DEF g, T
  <2> QED
    BY <1>1, FS_Surjection, Zenon
<1>3. ASSUME NEW S \in T
      PROVE  IsFiniteSet(S)
  <2>1. PICK i \in DOMAIN F : S = {i} \X F[i]
    BY Zenon
  <2>2. IsFiniteSet({i})
    BY FS_Singleton, Zenon
  <2> QED
    BY <2>1, <2>2, FS_Product, Zenon
<1>4. IsFiniteSet(UNION T)
  <2> HIDE DEF T
  <2> QED
    BY <1>2, <1>3, FS_UNION, Zenon
<1>5. Spread(F) = UNION T
  BY Zenon DEF Spread
<1>6. IsFiniteSet(Spread(F))
  BY <1>4, <1>5, Zenon
<1> QED
  BY <1>6, FS_CardinalityType, Zenon

\* One set of the family, apart from the others.
LEMMA SpreadSplit ==
    ASSUME NEW F, NEW G, IsFiniteSet(DOMAIN F), NEW j \in DOMAIN F,
           \A i \in DOMAIN F : IsFiniteSet(F[i]),
           G = [i \in DOMAIN F \ {j} |-> F[i]]
    PROVE  /\ Cardinality(Spread(F)) = Cardinality(Spread(G)) + Cardinality(F[j])
           /\ Cardinality(Spread(G)) \in Nat
           /\ Cardinality(F[j]) \in Nat
<1>1. DOMAIN G = DOMAIN F \ {j} /\ \A i \in DOMAIN G : G[i] = F[i]
  BY Zenon
<1>2. IsFiniteSet(DOMAIN G)
  BY <1>1, FS_RemoveElement, Zenon
<1>3. IsFiniteSet(Spread(G)) /\ Cardinality(Spread(G)) \in Nat
  BY <1>1, <1>2, SpreadFinite, Zenon
<1> DEFINE J == {j} \X F[j]
<1>4. IsFiniteSet({j}) /\ Cardinality({j}) = 1
  BY FS_Singleton, Zenon
<1>5. IsFiniteSet(F[j]) /\ Cardinality(F[j]) \in Nat
  BY FS_CardinalityType, Zenon
<1>6. IsFiniteSet(J) /\ Cardinality(J) = Cardinality({j}) * Cardinality(F[j])
  BY <1>4, <1>5, FS_Product, Zenon
<1>7. Cardinality(J) = Cardinality(F[j])
  BY <1>4, <1>5, <1>6
<1>8. Spread(F) = Spread(G) \cup J
  BY <1>1 DEF Spread
<1>9. Spread(G) \cap J = {}
  BY <1>1 DEF Spread
<1>10. Cardinality({}) = 0
  BY FS_EmptySet, Zenon
<1> HIDE DEF J
<1>11. Cardinality(Spread(F)) = Cardinality(Spread(G)) + Cardinality(J) - Cardinality(Spread(G) \cap J)
  BY <1>3, <1>6, <1>8, FS_Union, ZenonT(60)
<1>12. Cardinality(Spread(G) \cap J) = 0
  BY <1>9, <1>10, Zenon
<1>13. Cardinality(Spread(F)) = Cardinality(Spread(G)) + Cardinality(F[j]) - 0
  BY <1>7, <1>11, <1>12, Zenon
<1> QED
  BY <1>3, <1>5, <1>13

\* What one set of a family gains or loses, the family does.
LEMMA SpreadStep ==
    ASSUME NEW F, NEW G, NEW I, DOMAIN F = I, DOMAIN G = I, IsFiniteSet(I),
           NEW j \in I,
           \A i \in I : IsFiniteSet(F[i]) /\ IsFiniteSet(G[i]),
           \A i \in I \ {j} : G[i] = F[i]
    PROVE  /\ Cardinality(Spread(G)) = Cardinality(Spread(F)) - Cardinality(F[j])
                                         + Cardinality(G[j])
           /\ Cardinality(Spread(F)) \in Nat
           /\ Cardinality(F[j]) \in Nat /\ Cardinality(G[j]) \in Nat
           /\ Cardinality(Spread(F)) >= Cardinality(F[j])
<1> DEFINE R == [i \in I \ {j} |-> F[i]]
<1>1. R = [i \in DOMAIN F \ {j} |-> F[i]] /\ R = [i \in DOMAIN G \ {j} |-> G[i]]
  BY Zenon
<1> HIDE DEF R
<1>2. /\ Cardinality(Spread(F)) = Cardinality(Spread(R)) + Cardinality(F[j])
      /\ Cardinality(Spread(R)) \in Nat
      /\ Cardinality(F[j]) \in Nat
  BY <1>1, SpreadSplit, Zenon
<1>3. /\ Cardinality(Spread(G)) = Cardinality(Spread(R)) + Cardinality(G[j])
      /\ Cardinality(G[j]) \in Nat
  BY <1>1, SpreadSplit, Zenon
<1> QED
  BY <1>2, <1>3

\* The places of f in a sequence.
LEMMA AtFinite ==
    ASSUME NEW f, NEW s \in Seq(Fences)
    PROVE  IsFiniteSet(At(f, s)) /\ Cardinality(At(f, s)) \in Nat
<1>1. At(f, s) \in SUBSET (1 .. Len(s)) /\ Len(s) \in Nat
  BY DEF At
<1>2. IsFiniteSet(1 .. Len(s))
  BY <1>1, FS_Interval
<1>3. IsFiniteSet(At(f, s))
  BY <1>1, <1>2, FS_Subset, Zenon
<1> QED
  BY <1>3, FS_CardinalityType, Zenon

\* A place there is, is counted.
LEMMA AtSome ==
    ASSUME NEW f, NEW s \in Seq(Fences)
    PROVE  /\ At(f, s) # {} <=> Cardinality(At(f, s)) >= 1
           /\ s # <<>> /\ f = Head(s) => 1 \in At(f, s)
<1>1. IsFiniteSet(At(f, s)) /\ Cardinality(At(f, s)) \in Nat
  BY AtFinite, Zenon
<1>2. Cardinality(At(f, s)) = 0 <=> At(f, s) = {}
  BY <1>1, FS_EmptySet, Zenon
<1>3. s # <<>> /\ f = Head(s) => 1 \in At(f, s)
  BY DEF At
<1> QED
  BY <1>1, <1>2, <1>3

\* Nothing is at a place of the empty queue.
LEMMA AtEmpty ==
    ASSUME NEW f
    PROVE  Cardinality(At(f, <<>>)) = 0
<1>1. At(f, <<>>) = {}
  BY DEF At
<1> QED
  BY <1>1, FS_EmptySet, Zenon

\* Appending an entry adds one place, of that entry.
LEMMA AtAppend ==
    ASSUME NEW f, NEW s \in Seq(Fences), NEW x \in Fences
    PROVE  Cardinality(At(f, Append(s, x)))
             = Cardinality(At(f, s)) + (IF x = f THEN 1 ELSE 0)
<1> DEFINE n == Len(s) + 1
<1>1. /\ At(f, s) \ {n} = At(f, Append(s, x)) \ {n}
      /\ n \notin At(f, s)
      /\ n \in At(f, Append(s, x)) <=> x = f
  BY DEF At
<1>2. IsFiniteSet(At(f, s)) /\ Cardinality(At(f, s)) \in Nat
  BY AtFinite, Zenon
<1> HIDE DEF n
<1>3. Cardinality(At(f, Append(s, x)))
        = Cardinality(At(f, s)) - (IF n \in At(f, s) THEN 1 ELSE 0)
            + (IF n \in At(f, Append(s, x)) THEN 1 ELSE 0)
  BY <1>1, <1>2, OneMember
<1> QED
  BY <1>1, <1>2, <1>3

\* Places moved by k are as many.
LEMMA Shift ==
    ASSUME NEW A, NEW B, NEW k \in Int, IsFiniteSet(A), A \subseteq Int, B \subseteq Int,
           \A i \in A : i + k \in B, \A j \in B : j - k \in A
    PROVE  IsFiniteSet(B) /\ Cardinality(B) = Cardinality(A)
<1> DEFINE g == [i \in A |-> i + k]
<1>1. g \in Bijection(A, B)
  <2>1. g \in Injection(A, B)
    BY DEF Injection, IsInjective
  <2>2. g \in Surjection(A, B)
    BY DEF Surjection
  <2> QED
    BY <2>1, <2>2, Zenon DEF Bijection
<1>2. ExistsBijection(A, B)
  BY <1>1, Zenon DEF ExistsBijection
<1> QED
  BY <1>2, FS_Bijection, Zenon

\* Taking the head off a queue takes one place away, of the head.
LEMMA AtTail ==
    ASSUME NEW f, NEW s \in Seq(Fences), s # <<>>
    PROVE  Cardinality(At(f, Tail(s)))
             = Cardinality(At(f, s)) - (IF f = Head(s) THEN 1 ELSE 0)
<1>1. /\ Tail(s) \in Seq(Fences)
      /\ Len(s) \in Nat /\ Len(s) >= 1
      /\ Len(Tail(s)) = Len(s) - 1
      /\ \A i \in 1 .. Len(Tail(s)) : Tail(s)[i] = s[i + 1]
  OBVIOUS
<1>2. IsFiniteSet(At(f, s)) /\ Cardinality(At(f, s)) \in Nat
  BY AtFinite, Zenon
<1>3. /\ \A i \in At(f, Tail(s)) : i + 1 \in At(f, s) \ {1}
      /\ \A j \in At(f, s) \ {1} : j - 1 \in At(f, Tail(s))
      /\ At(f, Tail(s)) \subseteq Int /\ At(f, s) \ {1} \subseteq Int
  BY <1>1 DEF At
<1>4. 1 \in At(f, s) <=> f = Head(s)
  BY <1>1 DEF At
<1>5. IsFiniteSet(At(f, Tail(s)))
  BY <1>1, AtFinite, Zenon
<1>6. Cardinality(At(f, s) \ {1}) = Cardinality(At(f, Tail(s)))
  <2>1. 1 \in Int
    OBVIOUS
  <2> QED
    BY <1>3, <1>5, <2>1, Shift, Zenon
<1>7. Cardinality(At(f, s) \ {1}) = IF 1 \in At(f, s) THEN Cardinality(At(f, s)) - 1
                                                     ELSE Cardinality(At(f, s))
  BY <1>2, FS_RemoveElement, Zenon
<1> QED
  BY <1>2, <1>4, <1>6, <1>7

\* Splicing a chain into another adds up their places.
LEMMA AtConcat ==
    ASSUME NEW f, NEW s \in Seq(Fences), NEW u \in Seq(Fences)
    PROVE  Cardinality(At(f, s \o u)) = Cardinality(At(f, s)) + Cardinality(At(f, u))
<1>1. /\ s \o u \in Seq(Fences)
      /\ Len(s) \in Nat /\ Len(u) \in Nat
      /\ Len(s \o u) = Len(s) + Len(u)
      /\ \A i \in 1 .. Len(s) : (s \o u)[i] = s[i]
      /\ \A i \in 1 .. Len(u) : (s \o u)[i + Len(s)] = u[i]
  OBVIOUS
<1> DEFINE B == {i + Len(s) : i \in At(f, u)}
<1>2. At(f, s \o u) = At(f, s) \cup B
  <2>1. ASSUME NEW k \in At(f, s \o u), k \notin At(f, s)
        PROVE  k - Len(s) \in At(f, u) /\ k = (k - Len(s)) + Len(s)
    BY <1>1, <2>1 DEF At
  <2>2. At(f, s) \subseteq At(f, s \o u)
    BY <1>1 DEF At
  <2>3. ASSUME NEW i \in At(f, u)
        PROVE  i + Len(s) \in At(f, s \o u)
    BY <1>1 DEF At
  <2> QED
    BY <2>1, <2>2, <2>3, Zenon
<1>3. At(f, s) \cap B = {}
  BY <1>1 DEF At
<1>4. IsFiniteSet(At(f, s)) /\ Cardinality(At(f, s)) \in Nat
  BY AtFinite, Zenon
<1>5. IsFiniteSet(At(f, u)) /\ Cardinality(At(f, u)) \in Nat
  BY AtFinite, Zenon
<1>6. IsFiniteSet(B) /\ Cardinality(B) = Cardinality(At(f, u))
  <2>1. /\ At(f, u) \subseteq Int /\ B \subseteq Int
        /\ \A i \in At(f, u) : i + Len(s) \in B
        /\ \A j \in B : j - Len(s) \in At(f, u)
    BY <1>1 DEF At
  <2> HIDE DEF B
  <2>2. Len(s) \in Int
    BY <1>1
  <2> QED
    BY <1>5, <2>1, <2>2, Shift, Zenon
<1> HIDE DEF B
<1>7. Cardinality(At(f, s \o u)) = Cardinality(At(f, s)) + Cardinality(B) - Cardinality({})
  BY <1>2, <1>3, <1>4, <1>6, FS_Union
<1>8. Cardinality({}) = 0
  BY FS_EmptySet, Zenon
<1> QED
  BY <1>4, <1>5, <1>6, <1>7, <1>8

-----------------------------------------------------------------------------
(* What is owed, and how a step changes it.                                *)

\* The number of places of f in a queue or chain.
Num(f, s) == Cardinality(At(f, s))

\* All the sets that are counted are finite.
LEMMA Finite ==
    /\ IsFiniteSet(Threads) /\ IsFiniteSet(Timed)
    /\ IsFiniteSet(SwDeps \cup DmaDeps) /\ Cardinality(SwDeps \cup DmaDeps) \in Nat
    /\ \A f \in Fences : IsFiniteSet(Untimed(f))
<1>1. IsFiniteSet(Fences \X Fences) /\ IsFiniteSet(Fences \X Dmas)
  BY DepsAssumption, FS_Product, Zenon
<1>2. IsFiniteSet(SwDeps) /\ IsFiniteSet(DmaDeps)
  BY <1>1, DepsAssumption, FS_Subset, Zenon
<1>3. IsFiniteSet(Timed) /\ IsFiniteSet(Holders)
  BY <1>2, DepsAssumption, FS_Subset, Zenon
<1>4. IsFiniteSet(SwDeps \cup DmaDeps)
  BY <1>2, FS_Union, Zenon
<1>5. Cardinality(SwDeps \cup DmaDeps) \in Nat
  BY <1>4, FS_CardinalityType, Zenon
<1>6. ASSUME NEW f \in Fences
      PROVE  IsFiniteSet(Untimed(f))
  <2>1. Untimed(f) \in SUBSET Dmas
    BY Zenon DEF Untimed
  <2> QED
    BY <2>1, DepsAssumption, FS_Subset, Zenon
<1>7. \A x : IsFiniteSet({x})
  BY FS_Singleton, Zenon
<1>8. /\ IsFiniteSet({"build"} \X Fences) /\ IsFiniteSet({"hold"} \X Holders)
      /\ IsFiniteSet({"dma"} \X Dmas) /\ IsFiniteSet({"timer"} \X Timed)
  <2>1. IsFiniteSet({"build"} \X Fences)
    BY <1>7, DepsAssumption, FS_Product, Zenon
  <2>2. IsFiniteSet({"hold"} \X Holders)
    BY <1>7, <1>3, FS_Product, Zenon
  <2>3. IsFiniteSet({"dma"} \X Dmas)
    BY <1>7, DepsAssumption, FS_Product, Zenon
  <2>4. IsFiniteSet({"timer"} \X Timed)
    BY <1>7, <1>3, FS_Product, Zenon
  <2> QED
    BY <2>1, <2>2, <2>3, <2>4, Zenon
<1>9. IsFiniteSet(Threads)
  <2>1. IsFiniteSet(({"build"} \X Fences) \cup ({"hold"} \X Holders))
    BY <1>8, FS_Union, Zenon
  <2>2. IsFiniteSet(({"build"} \X Fences) \cup ({"hold"} \X Holders) \cup ({"dma"} \X Dmas))
    BY <1>8, <2>1, FS_Union, Zenon
  <2>3. IsFiniteSet(({"build"} \X Fences) \cup ({"hold"} \X Holders) \cup ({"dma"} \X Dmas)
                      \cup ({"timer"} \X Timed))
    BY <1>8, <2>2, FS_Union, Zenon
  <2> QED
    BY <2>3, Zenon DEF Threads
<1> QED
  BY <1>3, <1>4, <1>5, <1>6, <1>9, Zenon

\* A step that changes one wait queue.
LEMMA ListStep ==
    ASSUME NEW f \in Fences, NEW j \in Fences,
           list \in [Fences -> Seq(Fences)], list' \in [Fences -> Seq(Fences)],
           \A s \in Fences \ {j} : list'[s] = list[s]
    PROVE  /\ OnLists(f)' = OnLists(f) - Num(f, list[j]) + Num(f, list'[j])
           /\ OnLists(f) \in Nat /\ OnLists(f) >= Num(f, list[j])
           /\ Num(f, list[j]) \in Nat /\ Num(f, list'[j]) \in Nat
<1> DEFINE F == [s \in Fences |-> At(f, list[s])]
           G == [s \in Fences |-> At(f, list'[s])]
<1>1. OnLists(f) = Cardinality(Spread(F)) /\ OnLists(f)' = Cardinality(Spread(G))
  BY Zenon DEF OnLists, Spread, At
<1>2. DOMAIN F = Fences /\ DOMAIN G = Fences /\ IsFiniteSet(Fences)
  BY DepsAssumption, Zenon
<1>3. \A s \in Fences : IsFiniteSet(F[s]) /\ IsFiniteSet(G[s])
  BY AtFinite, Zenon
<1>4. /\ \A s \in Fences \ {j} : G[s] = F[s]
      /\ Cardinality(F[j]) = Num(f, list[j]) /\ Cardinality(G[j]) = Num(f, list'[j])
  BY Zenon DEF Num
<1> HIDE DEF F, G
<1>5. /\ Cardinality(Spread(G)) = Cardinality(Spread(F)) - Cardinality(F[j])
                                    + Cardinality(G[j])
      /\ Cardinality(Spread(F)) \in Nat
      /\ Cardinality(F[j]) \in Nat /\ Cardinality(G[j]) \in Nat
      /\ Cardinality(Spread(F)) >= Cardinality(F[j])
  BY <1>2, <1>3, <1>4, SpreadStep, Zenon
<1> QED
  BY <1>1, <1>4, <1>5, Zenon

\* A step of the thread t.
LEMMA RunStep ==
    ASSUME NEW f \in Fences, NEW t \in Threads,
           \A u \in Threads : /\ run[u].extra \in Seq(Fences)
                              /\ run'[u].extra \in Seq(Fences),
           \A u \in Threads \ {t} : run'[u] = run[u]
    PROVE  /\ OnChains(f)' = OnChains(f) - Num(f, run[t].extra) + Num(f, run'[t].extra)
           /\ OnChains(f) \in Nat /\ OnChains(f) >= Num(f, run[t].extra)
           /\ Num(f, run[t].extra) \in Nat /\ Num(f, run'[t].extra) \in Nat
           /\ ByThreads(f)' = ByThreads(f) - (IF Counting(t, f) THEN 1 ELSE 0)
                                           + (IF Counting(t, f)' THEN 1 ELSE 0)
           /\ ByThreads(f) \in Nat /\ (Counting(t, f) => ByThreads(f) >= 1)
<1> DEFINE F == [u \in Threads |-> At(f, run[u].extra)]
           G == [u \in Threads |-> At(f, run'[u].extra)]
           A == {u \in Threads : Counting(u, f)}
           B == {u \in Threads : Counting(u, f)'}
<1>1. OnChains(f) = Cardinality(Spread(F)) /\ OnChains(f)' = Cardinality(Spread(G))
  BY Zenon DEF OnChains, Spread, At
<1>2. DOMAIN F = Threads /\ DOMAIN G = Threads /\ IsFiniteSet(Threads)
  BY Finite, Zenon
<1>3. \A u \in Threads : IsFiniteSet(F[u]) /\ IsFiniteSet(G[u])
  BY AtFinite, Zenon
<1>4. /\ \A u \in Threads \ {t} : G[u] = F[u]
      /\ Cardinality(F[t]) = Num(f, run[t].extra)
      /\ Cardinality(G[t]) = Num(f, run'[t].extra)
  BY Zenon DEF Num
<1>5. ByThreads(f) = Cardinality(A) /\ ByThreads(f)' = Cardinality(B)
  BY Zenon DEF ByThreads
<1>6. /\ A \ {t} = B \ {t}
      /\ t \in A <=> Counting(t, f)
      /\ t \in B <=> Counting(t, f)'
  BY Zenon DEF Counting
<1>7. A \in SUBSET Threads
  BY Zenon
<1> HIDE DEF F, G, A, B
<1>8. /\ Cardinality(Spread(G)) = Cardinality(Spread(F)) - Cardinality(F[t])
                                    + Cardinality(G[t])
      /\ Cardinality(Spread(F)) \in Nat
      /\ Cardinality(F[t]) \in Nat /\ Cardinality(G[t]) \in Nat
      /\ Cardinality(Spread(F)) >= Cardinality(F[t])
  BY <1>2, <1>3, <1>4, SpreadStep, Zenon
<1>9. IsFiniteSet(A) /\ Cardinality(A) \in Nat
  BY <1>2, <1>7, FS_Subset, FS_CardinalityType, Zenon
<1>10. Cardinality(B) = Cardinality(A) - (IF t \in A THEN 1 ELSE 0)
                                       + (IF t \in B THEN 1 ELSE 0)
  BY <1>6, <1>9, OneMember, ZenonT(60)
<1>11. t \in A => Cardinality(A) >= 1
  BY <1>9, FS_EmptySet
<1> QED
  BY <1>1, <1>4, <1>5, <1>6, <1>8, <1>9, <1>10, <1>11, Zenon

\* A step that changes the callbacks of the DMA fence d.
LEMMA DmaStep ==
    ASSUME NEW f \in Fences, NEW d \in Dmas,
           cbs \in [Dmas -> Seq(Fences)], cbs' \in [Dmas -> Seq(Fences)],
           \A e \in Dmas \ {d} : cbs'[e] = cbs[e]
    PROVE  /\ OnDmas(f)' = OnDmas(f) +
                 IF d \in Untimed(f) THEN Num(f, cbs'[d]) - Num(f, cbs[d]) ELSE 0
           /\ OnDmas(f) \in Nat /\ (d \in Untimed(f) => OnDmas(f) >= Num(f, cbs[d]))
           /\ Num(f, cbs[d]) \in Nat /\ Num(f, cbs'[d]) \in Nat
<1> DEFINE I == Untimed(f)
           F == [e \in I |-> At(f, cbs[e])]
           G == [e \in I |-> At(f, cbs'[e])]
<1>1. OnDmas(f) = Cardinality(Spread(F)) /\ OnDmas(f)' = Cardinality(Spread(G))
  BY Zenon DEF OnDmas, Spread, At, Untimed
<1>2. DOMAIN F = I /\ DOMAIN G = I /\ IsFiniteSet(I) /\ I \subseteq Dmas
  BY Finite, Zenon DEF Untimed
<1>3. \A e \in I : IsFiniteSet(F[e]) /\ IsFiniteSet(G[e])
  BY <1>2, AtFinite, Zenon
<1>4. /\ \A e \in I \ {d} : G[e] = F[e]
      /\ d \in I => /\ Cardinality(F[d]) = Num(f, cbs[d])
                    /\ Cardinality(G[d]) = Num(f, cbs'[d])
      /\ d \notin I => F = G
  BY <1>2, Zenon DEF Num
<1>5. Num(f, cbs[d]) \in Nat /\ Num(f, cbs'[d]) \in Nat
  BY AtFinite, Zenon DEF Num
<1> HIDE DEF F, G, I
<1>6. Cardinality(Spread(F)) \in Nat
  BY <1>2, <1>3, SpreadFinite, Zenon
<1>7. CASE d \in I
  <2>1. /\ Cardinality(Spread(G)) = Cardinality(Spread(F)) - Cardinality(F[d])
                                      + Cardinality(G[d])
        /\ Cardinality(Spread(F)) >= Cardinality(F[d])
    BY <1>2, <1>3, <1>4, <1>7, SpreadStep, SMTT(40)
  <2> QED
    BY <1>1, <1>4, <1>5, <1>6, <1>7, <2>1, SMTT(40) DEF I
<1>8. CASE d \notin I
  BY <1>1, <1>4, <1>5, <1>6, <1>8 DEF I
<1> QED
  BY <1>7, <1>8, Zenon

\* A step that gives the timed callback p an owner, or takes it away.
LEMMA OwnerStep ==
    ASSUME NEW f \in Fences, NEW p \in Timed, owner \subseteq Timed,
           owner' \ {p} = owner \ {p}
    PROVE  /\ OnTimers(f)' = OnTimers(f)
                 - (IF p \in owner /\ p[1] = f THEN 1 ELSE 0)
                 + (IF p \in owner' /\ p[1] = f THEN 1 ELSE 0)
           /\ OnTimers(f) \in Nat
           /\ p \in owner /\ p[1] = f => OnTimers(f) >= 1
<1> DEFINE A == {q \in owner : q[1] = f}
           B == {q \in owner' : q[1] = f}
<1>1. OnTimers(f) = Cardinality(A) /\ OnTimers(f)' = Cardinality(B)
  BY Zenon DEF OnTimers
<1>2. /\ A \ {p} = B \ {p} /\ A \in SUBSET Timed
      /\ p \in A <=> p \in owner /\ p[1] = f
      /\ p \in B <=> p \in owner' /\ p[1] = f
  BY Zenon
<1> HIDE DEF A, B
<1>3. IsFiniteSet(A) /\ Cardinality(A) \in Nat
  BY <1>2, Finite, FS_Subset, FS_CardinalityType, Zenon
<1>4. Cardinality(B) = Cardinality(A) - (IF p \in A THEN 1 ELSE 0)
                                      + (IF p \in B THEN 1 ELSE 0)
  BY <1>2, <1>3, OneMember
<1>5. p \in A => Cardinality(A) >= 1
  BY <1>3, FS_EmptySet
<1> QED
  BY <1>1, <1>2, <1>3, <1>4, <1>5, Zenon

-----------------------------------------------------------------------------
(* Types.                                                                  *)

Runs == [at : {"idle", "dec", "wake", "scan", "nested", "nestedwake"},
         root : Fences \cup {None}, cur : Fences \cup {None},
         extra : Seq(Fences), then : Timed \cup {None}]
Builds == {"next", "link", "swwait", "swunlock", "addcb", "dmawait", "done"}
            \X (Fences \cup Dmas \cup {None})
Holds == {"idle", "late", "cas", "held", "dropped"} \X Nat

\* TypeOK, but for the bounds of the count.
Shape ==
    /\ pending \in [Fences -> Int]
    /\ error \in [Fences -> BOOLEAN]
    /\ list \in [Fences -> Seq(Fences)]
    /\ lock \in [Fences -> Threads \cup {None}]
    /\ run \in [Threads -> Runs]
    /\ build \in [Fences -> Builds]
    /\ todo \in [Fences -> SUBSET (SwDeps \cup DmaDeps)]
    /\ hold \in [Holders -> Holds]
    /\ waiter \in [Sleepers -> {"asleep", "unlock", "returned"}]
    /\ dma \in [Dmas -> {"pending", "ok", "failed"}]
    /\ cbs \in [Dmas -> Seq(Fences)]
    /\ owner \subseteq Timed
    /\ timer \in [Timed -> {"off", "armed", "running"}]
    /\ work \in [Timed -> {"none", "queued", "freed"}]
    /\ awaits \subseteq SwDeps \cup DmaDeps \cup {<<h, Hold(h)>> : h \in Holders}
    /\ released \subseteq awaits
    /\ committed \subseteq Fences /\ fired \subseteq Fences /\ freed \subseteq Fences

\* A thread that returns from a completion has its type.
LEMMA ReturnShape ==
    ASSUME Shape, NEW t \in Threads, Return(t)
    PROVE  /\ run' \in [Threads -> Runs]
           /\ timer' \in [Timed -> {"off", "armed", "running"}]
           /\ work' \in [Timed -> {"none", "queued", "freed"}]
<1>1. run' \in [Threads -> Runs]
  BY DEF Shape, Return, Idle, Runs
<1>2. timer' \in [Timed -> {"off", "armed", "running"}]
  BY Zenon DEF Shape, Return
<1>3. run[t].then \in Timed \cup {None}
  BY Zenon DEF Shape, Runs
<1>4. work' \in [Timed -> {"none", "queued", "freed"}]
  BY <1>3, Zenon DEF Shape, Return
<1> QED
  BY <1>1, <1>2, <1>4, Zenon

\* So has one that calls i915_sw_fence_complete().
LEMMA CallShape ==
    ASSUME Shape, NEW t \in Threads, NEW f \in Fences, NEW then \in Timed \cup {None},
           Call(t, f, then)
    PROVE  run' \in [Threads -> Runs]
<1>1. [Idle EXCEPT !.at = "dec", !.root = f, !.then = then] \in Runs
  <2>1. <<>> \in Seq(Fences)
    OBVIOUS
  <2> QED
    BY <2>1, Zenon DEF Idle, Runs
<1>2. run \in [Threads -> Runs]
  BY Zenon DEF Shape
<1> QED
  BY <1>1, <1>2, Zenon DEF Call

\* Every step of a completion keeps the types of the variables,
LEMMA CompletionShape ==
    ASSUME Shape, RunInv, NEW t \in Threads, Completion(t)
    PROVE  Shape'
<1> DEFINE f == run[t].root
           g == run[t].cur
<1>0. /\ run[t].at # "idle" => f \in Fences
      /\ run[t].at \in {"nested", "nestedwake"} => g \in Fences
      /\ run[t] \in Runs /\ run[t].extra \in Seq(Fences)
  BY Zenon DEF RunInv, RunOK, Shape, Runs
<1>1. CASE Complete(t)
  <2>1. /\ run' \in [Threads -> Runs]
        /\ timer' \in [Timed -> {"off", "armed", "running"}]
        /\ work' \in [Timed -> {"none", "queued", "freed"}]
    <3>1. CASE Return(t)
      BY <3>1, ReturnShape, Zenon
    <3>2. CASE run' = [run EXCEPT ![t].at = "wake"] /\ UNCHANGED <<timer, work>>
      <4>1. run \in [Threads -> Runs]
        BY Zenon DEF Shape
      <4>2. run' \in [Threads -> Runs]
        BY <3>2, <4>1, ZenonT(60) DEF Runs
      <4> QED
        BY <3>2, <4>2, Zenon DEF Shape
    <3> QED
      BY <1>1, <3>1, <3>2, Zenon DEF Complete
  <2>2. pending' \in [Fences -> Int]
    BY <1>0, <1>1 DEF Shape, Complete, Done
  <2>3. fired' \subseteq Fences
    BY <1>0, <1>1 DEF Shape, Complete
  <2>4. UNCHANGED <<error, list, lock, build, todo, hold, waiter, dma, cbs,
                    owner, awaits, committed, released, freed>>
    BY <1>1, Zenon DEF Complete
  <2> QED
    BY <2>1, <2>2, <2>3, <2>4, Zenon DEF Shape
<1>2. CASE WakeUpAll(t)
  <2>1. pending' \in [Fences -> Int]
    BY <1>0, <1>2 DEF Shape, WakeUpAll
  <2>2. lock' \in [Fences -> Threads \cup {None}]
    BY <1>0, <1>2, Zenon DEF Shape, WakeUpAll
  <2>3. run' \in [Threads -> Runs]
    BY <1>0, <1>2, Zenon DEF Shape, WakeUpAll, Runs
  <2>4. UNCHANGED <<error, list, build, todo, hold, waiter, dma, cbs, owner,
                   timer, work, awaits, released, committed, fired, freed>>
    BY <1>0, <1>2, Zenon DEF WakeUpAll, device, history
  <2> QED
    BY <2>1, <2>2, <2>3, <2>4, Zenon DEF Shape
<1>3. CASE WakeEntry(t)
  <2>1. error' \in [Fences -> BOOLEAN]
    BY <1>0, <1>3, Zenon DEF Shape, WakeEntry, SetError
  <2>2. list' \in [Fences -> Seq(Fences)]
    BY <1>0, <1>3 DEF Shape, WakeEntry
  <2>3. run' \in [Threads -> Runs]
    <3>1. run \in [Threads -> Runs] /\ Head(list[f]) \in Fences
      BY <1>0, <1>3 DEF Shape, WakeEntry
    <3>2. run' = [run EXCEPT ![t].at = "nested", ![t].cur = Head(list[f])]
      BY <1>3, Zenon DEF WakeEntry
    <3> QED
      BY <3>1, <3>2, ZenonT(30) DEF Runs
  <2>4. UNCHANGED <<pending, lock, build, todo, hold, waiter, dma, cbs, owner,
                   timer, work, awaits, released, committed, fired, freed>>
    BY <1>0, <1>3, Zenon DEF WakeEntry, device, history
  <2> QED
    BY <2>1, <2>2, <2>3, <2>4, Zenon DEF Shape
<1>4. CASE NestedComplete(t)
  <2>1. pending' \in [Fences -> Int]
    BY <1>0, <1>4 DEF Shape, NestedComplete
  <2>2. run' \in [Threads -> Runs]
    BY <1>0, <1>4, ZenonT(60) DEF Shape, NestedComplete, Runs
  <2>3. fired' \subseteq Fences
    BY <1>0, <1>4, Zenon DEF Shape, NestedComplete
  <2>4. UNCHANGED <<error, list, lock, build, todo, hold, waiter, dma, cbs,
                   owner, timer, work, awaits, released, committed, freed>>
    BY <1>0, <1>4, Zenon DEF NestedComplete, device
  <2> QED
    BY <2>1, <2>2, <2>3, <2>4, Zenon DEF Shape
<1>5. CASE NestedWakeUpAll(t)
  <2>1. pending' \in [Fences -> Int]
    BY <1>0, <1>5, SMTT(40) DEF Shape, NestedWakeUpAll
  <2>2. list' \in [Fences -> Seq(Fences)]
    BY <1>0, <1>5 DEF Shape, NestedWakeUpAll
  <2>3. run' \in [Threads -> Runs]
    <3>1. run \in [Threads -> Runs] /\ run[t].extra \o list[g] \in Seq(Fences)
      BY <1>0, <1>5 DEF Shape, NestedWakeUpAll
    <3> DEFINE e == run[t].extra \o list[g]
               r == [run[t] EXCEPT !.at = "scan", !.cur = None, !.extra = e]
    <3>2. run' = [run EXCEPT ![t] = r]
      BY <1>5, <3>1, Zenon DEF NestedWakeUpAll
    <3>3. r \in Runs
      <4>1. e \in Seq(Fences)
        BY <3>1, Zenon
      <4> HIDE DEF e
      <4> QED
        BY <1>0, <4>1, Zenon DEF Runs
    <3> HIDE DEF r
    <3> QED
      BY <3>1, <3>2, <3>3, Zenon
  <2>4. freed' \subseteq Fences
    BY <1>0, <1>5, Zenon DEF Shape, NestedWakeUpAll
  <2>5. UNCHANGED <<error, lock, build, todo, hold, waiter, dma, cbs, owner,
                   timer, work, awaits, released, committed, fired>>
    BY <1>0, <1>5, Zenon DEF NestedWakeUpAll, device
  <2> QED
    BY <2>1, <2>2, <2>3, <2>4, <2>5, ZenonT(60) DEF Shape
<1>6. CASE Splice(t)
  <2>1. CASE run[t].extra = <<>>
    <3>1. /\ run' \in [Threads -> Runs]
          /\ timer' \in [Timed -> {"off", "armed", "running"}]
          /\ work' \in [Timed -> {"none", "queued", "freed"}]
      BY <1>6, <2>1, ReturnShape, Zenon DEF Splice
    <3>2. lock' \in [Fences -> Threads \cup {None}] /\ freed' \subseteq Fences
      <4>1. /\ f \in Fences /\ lock' = [lock EXCEPT ![f] = None]
            /\ freed' = freed \cup {f}
        BY <1>0, <1>6, <2>1, Zenon DEF Splice
      <4>2. lock \in [Fences -> Threads \cup {None}] /\ freed \subseteq Fences
        BY Zenon DEF Shape
      <4> QED
        BY <4>1, <4>2, Zenon
    <3>3. UNCHANGED <<pending, error, list, build, todo, hold, waiter, dma, cbs,
                      owner, awaits, committed, released, fired>>
      BY <1>6, <2>1, Zenon DEF Splice
    <3> QED
      BY <3>1, <3>2, <3>3, Zenon DEF Shape
  <2>2. CASE run[t].extra # <<>>
    <3>1. run' \in [Threads -> Runs] /\ list' \in [Fences -> Seq(Fences)]
      <4>1. /\ run' = [run EXCEPT ![t].extra = <<>>]
            /\ list' = [list EXCEPT ![f] = run[t].extra]
        BY <1>6, <2>2, Zenon DEF Splice
      <4>2. run \in [Threads -> Runs] /\ list \in [Fences -> Seq(Fences)]
        BY Zenon DEF Shape
      <4>3. run' \in [Threads -> Runs]
        <5>1. <<>> \in Seq(Fences)
          OBVIOUS
        <5> QED
          BY <4>1, <4>2, <5>1, ZenonT(60) DEF Runs
      <4> QED
        BY <1>0, <4>1, <4>2, <4>3, Zenon
    <3>2. UNCHANGED <<pending, error, lock, build, todo, hold, waiter, dma, cbs,
                      owner, timer, work, history>>
      BY <1>6, <2>2, Zenon DEF Splice, history
    <3> QED
      BY <3>1, <3>2, Zenon DEF Shape, history
  <2> QED
    BY <2>1, <2>2, Zenon
<1> QED
  BY <1>1, <1>2, <1>3, <1>4, <1>5, <1>6, Zenon DEF Completion

\* ... every step of a builder,
LEMMA BuilderShape ==
    ASSUME Shape, NEW f \in Fences, Builder(f)
    PROVE  Shape'
<1>1. CASE \E p \in SwDeps : AwaitSwFence(f, p[2])
  <2>1. PICK p \in SwDeps : AwaitSwFence(f, p[2])
    BY <1>1, Zenon
  <2> DEFINE s == p[2]
  <2>2. s \in Fences
    BY DepsAssumption, Zenon
  <2>3. <<f, s>> \in SwDeps
    BY <2>1, <2>2, DepsAssumption DEF AwaitSwFence, Shape
  <2> HIDE DEF s
  <2>4. AwaitSwFence(f, s)
    BY <2>1, Zenon DEF s
  <2>5. pending' \in [Fences -> Int]
    BY <2>2, <2>3, <2>4 DEF Shape, AwaitSwFence
  <2>6. error' \in [Fences -> BOOLEAN]
    BY <2>2, <2>3, <2>4, ZenonT(60) DEF Shape, AwaitSwFence, SetError
  <2>7. build' \in [Fences -> Builds]
    BY <2>2, <2>3, <2>4 DEF Shape, AwaitSwFence, Builds
  <2>8. todo' \in [Fences -> SUBSET (SwDeps \cup DmaDeps)]
    BY <2>2, <2>3, <2>4, Zenon DEF Shape, AwaitSwFence
  <2>9. awaits' \subseteq SwDeps \cup DmaDeps \cup {<<h, Hold(h)>> : h \in Holders}
    BY <2>2, <2>3, <2>4, ZenonT(60) DEF Shape, AwaitSwFence, Hold
  <2>10. released' \subseteq awaits'
    BY <2>2, <2>3, <2>4, Zenon DEF Shape, AwaitSwFence
  <2>11. UNCHANGED <<list, lock, run, hold, waiter, dma, cbs, owner, timer,
                   work, committed, fired, freed>>
    BY <2>2, <2>3, <2>4, Zenon DEF AwaitSwFence, device
  <2> QED
    BY <2>5, <2>6, <2>7, <2>8, <2>9, <2>10, <2>11, Zenon DEF Shape
<1>2. CASE \E p \in DmaDeps : AwaitDmaFence(f, p[2])
  <2>1. PICK p \in DmaDeps : AwaitDmaFence(f, p[2])
    BY <1>2, Zenon
  <2> DEFINE d == p[2]
  <2>2. d \in Dmas
    BY DepsAssumption, Zenon
  <2>3. <<f, d>> \in SwDeps \cup DmaDeps
    BY <2>1, Zenon DEF AwaitDmaFence, Shape
  <2> HIDE DEF d
  <2>4. AwaitDmaFence(f, d)
    BY <2>1, Zenon DEF d
  <2>5. pending' \in [Fences -> Int]
    BY <2>2, <2>3, <2>4 DEF Shape, AwaitDmaFence
  <2>6. error' \in [Fences -> BOOLEAN]
    BY <2>2, <2>3, <2>4, Zenon DEF Shape, AwaitDmaFence, SetError
  <2>7. build' \in [Fences -> Builds]
    BY <2>2, <2>3, <2>4 DEF Shape, AwaitDmaFence, Builds
  <2>8. todo' \in [Fences -> SUBSET (SwDeps \cup DmaDeps)]
    BY <2>2, <2>3, <2>4, Zenon DEF Shape, AwaitDmaFence
  <2>9. owner' \subseteq Timed
    <3>1. \/ owner' = owner
          \/ <<f, d>> \in Timed /\ owner' = owner \cup {<<f, d>>}
      BY <2>4, Zenon DEF AwaitDmaFence
    <3> QED
      BY <3>1, Zenon DEF Shape
  <2>10. timer' \in [Timed -> {"off", "armed", "running"}]
    BY <2>2, <2>3, <2>4, ZenonT(60) DEF Shape, AwaitDmaFence
  <2>11. awaits' \subseteq SwDeps \cup DmaDeps \cup {<<h, Hold(h)>> : h \in Holders}
    BY <2>2, <2>3, <2>4, ZenonT(60) DEF Shape, AwaitDmaFence, Hold
  <2>12. released' \subseteq awaits'
    BY <2>2, <2>3, <2>4, Zenon DEF Shape, AwaitDmaFence
  <2>13. UNCHANGED <<list, lock, run, hold, waiter, dma, cbs, work, committed,
                   fired, freed>>
    BY <2>2, <2>3, <2>4, Zenon DEF AwaitDmaFence, device
  <2> QED
    BY <2>5, <2>6, <2>7, <2>8, <2>9, <2>10, <2>11, <2>12, <2>13, Zenon DEF Shape
<1>3. CASE Link(f)
  <2>1. PICK s \in Fences :
          /\ build' = [build EXCEPT ![f] = <<"next", None>>]
          /\ \/ /\ list' = [list EXCEPT ![s] = Append(@, f)]
                /\ UNCHANGED <<pending, error>>
             \/ /\ SetError(f, error[s])
                /\ pending' = [pending EXCEPT ![f] = @ - 1]
                /\ UNCHANGED list
    BY <1>3, Zenon DEF Link
  <2>2. build' \in [Fences -> Builds]
    BY <2>1, Zenon DEF Shape, Builds
  <2>3. list' \in [Fences -> Seq(Fences)]
    <3>1. list \in [Fences -> Seq(Fences)]
      BY Zenon DEF Shape
    <3>2. Append(list[s], f) \in Seq(Fences)
      BY <3>1, SMTT(40)
    <3> QED
      BY <2>1, <3>1, <3>2, Zenon
  <2>4. pending' \in [Fences -> Int]
    BY <2>1 DEF Shape
  <2>5. error' \in [Fences -> BOOLEAN]
    BY <2>1, Zenon DEF Shape, SetError
  <2>6. UNCHANGED <<lock, run, todo, hold, waiter, device, history>>
    BY <1>3, Zenon DEF Link
  <2> QED
    BY <2>2, <2>3, <2>4, <2>5, <2>6, Zenon DEF Shape, device, history
<1>4. CASE SleepOnSwFence(f)
  <2>1. PICK s \in Fences :
          /\ \/ build' = [build EXCEPT ![f] = <<"swunlock", s>>]
             \/ build' = [build EXCEPT ![f] = <<"next", None>>]
          /\ UNCHANGED error \/ SetError(f, error[s])
    BY <1>4, Zenon DEF SleepOnSwFence
  <2>2. build' \in [Fences -> Builds]
    <3>1. <<"swunlock", s>> \in Builds /\ <<"next", None>> \in Builds
      BY Zenon DEF Builds
    <3>2. build \in [Fences -> Builds]
      BY Zenon DEF Shape
    <3> QED
      BY <2>1, <3>1, <3>2, Zenon
  <2>3. error' \in [Fences -> BOOLEAN]
    BY <2>1, ZenonT(60) DEF Shape, SetError
  <2>4. UNCHANGED <<pending, list, lock, run, todo, hold, waiter, device, history>>
    BY <1>4, Zenon DEF SleepOnSwFence
  <2> QED
    BY <2>2, <2>3, <2>4, Zenon DEF Shape, device, history
<1>5. CASE AddCallback(f)
  <2>1. PICK d \in Dmas :
          /\ build' = [build EXCEPT ![f] = <<"next", None>>]
          /\ \/ /\ cbs' = [cbs EXCEPT ![d] = Append(@, f)]
                /\ UNCHANGED <<pending, error, owner, work>>
             \/ /\ \E mine \in BOOLEAN :
                      /\ SetError(f, mine /\ dma[d] = "failed")
                      /\ pending' = [pending EXCEPT ![f] = IF mine THEN @ - 1 ELSE @]
                /\ owner' = owner \ {<<f, d>>}
                /\ work' = [q \in Timed |-> IF q = <<f, d>> THEN "queued" ELSE work[q]]
                /\ UNCHANGED cbs
    BY <1>5, Zenon DEF AddCallback
  <2>2. build' \in [Fences -> Builds]
    BY <2>1, Zenon DEF Shape, Builds
  <2>3. cbs' \in [Dmas -> Seq(Fences)]
    <3>1. cbs \in [Dmas -> Seq(Fences)]
      BY Zenon DEF Shape
    <3>2. Append(cbs[d], f) \in Seq(Fences)
      BY <3>1
    <3> QED
      BY <2>1, <3>1, <3>2, Zenon
  <2>4. pending' \in [Fences -> Int]
    BY <2>1 DEF Shape
  <2>5. error' \in [Fences -> BOOLEAN]
    BY <2>1, Zenon DEF Shape, SetError
  <2>6. owner' \subseteq Timed
    BY <2>1, Zenon DEF Shape
  <2>7. work' \in [Timed -> {"none", "queued", "freed"}]
    BY <2>1 DEF Shape
  <2>8. UNCHANGED <<list, lock, run, todo, hold, waiter, dma, timer, history>>
    BY <1>5, Zenon DEF AddCallback
  <2> QED
    BY <2>2, <2>3, <2>4, <2>5, <2>6, <2>7, <2>8, Zenon DEF Shape, history
<1>6. CASE SleepOnDmaFence(f)
  <2>1. PICK d \in Dmas :
          /\ build' = [build EXCEPT ![f] = <<"next", None>>]
          /\ SetError(f, dma[d] = "failed")
    BY <1>6, Zenon DEF SleepOnDmaFence
  <2>2. build' \in [Fences -> Builds]
    BY <2>1, Zenon DEF Shape, Builds
  <2>3. error' \in [Fences -> BOOLEAN]
    BY <2>1, Zenon DEF Shape, SetError
  <2>4. UNCHANGED <<pending, list, lock, run, todo, hold, waiter, device, history>>
    BY <1>6, Zenon DEF SleepOnDmaFence
  <2> QED
    BY <2>2, <2>3, <2>4, Zenon DEF Shape, device, history
<1>7. CASE Commit(f)
  <2>1. run' \in [Threads -> Runs]
    <3>1. <<"build", f>> \in Threads
      BY Zenon DEF Threads
    <3> QED
      BY <1>7, <3>1, CallShape, Zenon DEF Commit
  <2>2. build' \in [Fences -> Builds]
    BY <1>7, Zenon DEF Shape, Commit, Builds
  <2>3. committed' \subseteq Fences
    BY <1>7, Zenon DEF Shape, Commit
  <2>4. UNCHANGED <<pending, error, list, lock, todo, hold, waiter, dma, cbs,
                   owner, timer, work, awaits, released, fired, freed>>
    BY <1>7, Zenon DEF Commit, device
  <2> QED
    BY <2>1, <2>2, <2>3, <2>4, Zenon DEF Shape
<1> QED
  BY <1>1, <1>2, <1>3, <1>4, <1>5, <1>6, <1>7, Zenon DEF Builder

\* ... and every step of waiters, holders, DMA fences and timers.
LEMMA OtherShape ==
    ASSUME Shape, HoldInv, TimerInv,
           \/ \E f \in Sleepers : Wait(f)
           \/ \E f \in Holders : HoldRead(f) \/ HoldExchange(f) \/ HoldDrop(f)
           \/ \E d \in Dmas : DmaWake(d) \/ Signal(d)
           \/ \E p \in Timed : TimerWake(p) \/ IrqWork(p)
    PROVE  Shape'
<1>1. ASSUME NEW f \in Sleepers, Wait(f)
      PROVE  Shape'
  <2>1. waiter' \in [Sleepers -> {"asleep", "unlock", "returned"}]
    <3>1. \E x \in {"unlock", "returned"} : waiter' = [waiter EXCEPT ![f] = x]
      BY <1>1, Zenon DEF Wait
    <3>2. waiter \in [Sleepers -> {"asleep", "unlock", "returned"}]
      BY Zenon DEF Shape
    <3> QED
      BY <3>1, <3>2
  <2>2. UNCHANGED <<pending, error, list, lock, run, build, todo, hold, dma,
                   cbs, owner, timer, work, awaits, released, committed, fired, freed>>
    BY <1>1, Zenon DEF Wait, device, history
  <2> QED
    BY <2>1, <2>2, Zenon DEF Shape
<1>2. ASSUME NEW f \in Holders, HoldRead(f)
      PROVE  Shape'
  <2>1. hold' \in [Holders -> Holds]
    BY <1>2, DepsAssumption DEF Shape, HoldRead, Holds
  <2>2. UNCHANGED <<pending, error, list, lock, run, build, todo, waiter, dma,
                   cbs, owner, timer, work, awaits, released, committed, fired, freed>>
    BY <1>2, DepsAssumption, Zenon DEF HoldRead, device, history
  <2> QED
    BY <2>1, <2>2, Zenon DEF Shape
<1>3. ASSUME NEW f \in Holders, HoldExchange(f)
      PROVE  Shape'
  <2>1. pending' \in [Fences -> Int]
    BY <1>3, DepsAssumption, SMTT(40) DEF Shape, HoldExchange
  <2>2. hold' \in [Holders -> Holds]
    BY <1>3, DepsAssumption, SMTT(40) DEF Shape, HoldExchange, Holds
  <2>3. awaits' \subseteq SwDeps \cup DmaDeps \cup {<<h, Hold(h)>> : h \in Holders}
    BY <1>3, DepsAssumption, SMTT(40) DEF Shape, HoldExchange, Hold
  <2>4. released' \subseteq awaits'
    BY <1>3, DepsAssumption DEF Shape, HoldExchange
  <2>5. UNCHANGED <<error, list, lock, run, build, todo, waiter, dma, cbs,
                   owner, timer, work, committed, fired, freed>>
    BY <1>3, DepsAssumption, Zenon DEF HoldExchange, device
  <2> QED
    BY <2>1, <2>2, <2>3, <2>4, <2>5, ZenonT(60) DEF Shape
<1>4. ASSUME NEW f \in Holders, HoldDrop(f)
      PROVE  Shape'
  <2>1. run' \in [Threads -> Runs]
    <3>1. <<"hold", f>> \in Threads /\ f \in Fences
      BY DepsAssumption, Zenon DEF Threads
    <3> QED
      BY <1>4, <3>1, CallShape, Zenon DEF HoldDrop
  <2>2. hold' \in [Holders -> Holds]
    BY <1>4, DepsAssumption, Zenon DEF Shape, HoldDrop, Holds
  <2>3. released' \subseteq awaits'
    <3>1. /\ released' = released \cup {<<f, Hold(f)>>} /\ awaits' = awaits
          /\ <<f, Hold(f)>> \in awaits
      BY <1>4, Zenon DEF HoldDrop, HoldInv
    <3> QED
      BY <3>1, Zenon DEF Shape
  <2>4. UNCHANGED <<pending, error, list, lock, build, todo, waiter, dma, cbs,
                   owner, timer, work, awaits, committed, fired, freed>>
    BY <1>4, DepsAssumption, Zenon DEF HoldDrop, device
  <2> QED
    BY <2>1, <2>2, <2>3, <2>4, Zenon DEF Shape
<1>5. ASSUME NEW d \in Dmas, DmaWake(d)
      PROVE  Shape'
  <2>1. error' \in [Fences -> BOOLEAN]
    BY <1>5, DepsAssumption, Zenon DEF Shape, DmaWake, SetError
  <2>2. run' \in [Threads -> Runs]
    <3> DEFINE f == Head(cbs[d])
    <3>1. <<"dma", d>> \in Threads /\ f \in Fences /\ run \in [Threads -> Runs]
      BY <1>5 DEF Threads, DmaWake, Shape
    <3> HIDE DEF f
    <3>2. \/ \E then \in Timed \cup {None} : Call(<<"dma", d>>, f, then)
          \/ UNCHANGED run
      BY <1>5, Zenon DEF DmaWake, f
    <3> QED
      BY <3>1, <3>2, CallShape, ZenonT(60)
  <2>3. cbs' \in [Dmas -> Seq(Fences)]
    <3>1. cbs' = [cbs EXCEPT ![d] = Tail(@)] /\ cbs[d] # <<>>
      BY <1>5, Zenon DEF DmaWake
    <3>2. cbs \in [Dmas -> Seq(Fences)]
      BY Zenon DEF Shape
    <3> QED
      BY <3>1, <3>2
  <2>4. owner' \subseteq Timed
    BY <1>5, DepsAssumption, Zenon DEF Shape, DmaWake
  <2>5. work' \in [Timed -> {"none", "queued", "freed"}]
    BY <1>5, Zenon DEF Shape, DmaWake
  <2>6. UNCHANGED <<pending, list, lock, build, todo, hold, waiter, dma,
                   timer, awaits, released, committed, fired, freed>>
    BY <1>5, DepsAssumption, Zenon DEF DmaWake, device, history
  <2> QED
    BY <2>1, <2>2, <2>3, <2>4, <2>5, <2>6, Zenon DEF Shape
<1>6. ASSUME NEW d \in Dmas, Signal(d)
      PROVE  Shape'
  <2>1. dma' \in [Dmas -> {"pending", "ok", "failed"}]
    BY <1>6, Zenon DEF Shape, Signal
  <2>2. released' \subseteq awaits'
    BY <1>6, Zenon DEF Shape, Signal
  <2>3. UNCHANGED <<pending, error, list, lock, run, build, todo, hold,
                   waiter, cbs, owner, timer, work, awaits, committed, fired, freed>>
    BY <1>6, Zenon DEF Signal, device, history
  <2> QED
    BY <2>1, <2>2, <2>3, Zenon DEF Shape
<1>7. ASSUME NEW p \in Timed, TimerWake(p)
      PROVE  Shape'
  <2>1. error' \in [Fences -> BOOLEAN]
    BY <1>7, DepsAssumption, ZenonT(60) DEF Shape, TimerWake, SetError
  <2>2. run' \in [Threads -> Runs]
    <3>1. <<"timer", p>> \in Threads /\ p[1] \in Fences /\ run \in [Threads -> Runs]
      BY DepsAssumption DEF Threads, Shape
    <3>2. Call(<<"timer", p>>, p[1], None) \/ UNCHANGED run
      BY <1>7, Zenon DEF TimerWake
    <3> QED
      BY <3>1, <3>2, CallShape, Zenon
  <2>3. owner' \subseteq Timed
    BY <1>7, DepsAssumption, ZenonT(60) DEF Shape, TimerWake
  <2>4. timer' \in [Timed -> {"off", "armed", "running"}]
    <3>1. \E x \in {"running", "off"} : timer' = [timer EXCEPT ![p] = x]
      BY <1>7, Zenon DEF TimerWake
    <3>2. timer \in [Timed -> {"off", "armed", "running"}]
      BY Zenon DEF Shape
    <3> QED
      BY <3>1, <3>2
  <2>5. released' \subseteq awaits'
    <3>1. /\ released' = released \/ (p \in owner /\ released' = released \cup {p})
          /\ awaits' = awaits
      BY <1>7, Zenon DEF TimerWake
    <3>2. released \subseteq awaits
      BY Zenon DEF Shape
    <3>3. p \in owner => p \in awaits
      BY Zenon DEF TimerInv
    <3> QED
      BY <3>1, <3>2, <3>3, Zenon
  <2>6. UNCHANGED <<pending, list, lock, build, todo, hold, waiter, dma, cbs,
                   work, awaits, committed, fired, freed>>
    BY <1>7, DepsAssumption, Zenon DEF TimerWake, device, history
  <2> QED
    BY <2>1, <2>2, <2>3, <2>4, <2>5, <2>6, Zenon DEF Shape
<1>8. ASSUME NEW p \in Timed, IrqWork(p)
      PROVE  Shape'
  <2>1. timer' \in [Timed -> {"off", "armed", "running"}]
    BY <1>8, Zenon DEF Shape, IrqWork
  <2>2. work' \in [Timed -> {"none", "queued", "freed"}]
    BY <1>8, Zenon DEF Shape, IrqWork
  <2>3. UNCHANGED <<pending, error, list, lock, run, build, todo, hold,
                   waiter, dma, cbs, owner, awaits, released, committed, fired, freed>>
    BY <1>8, Zenon DEF IrqWork, device, history
  <2> QED
    BY <2>1, <2>2, <2>3, Zenon DEF Shape
<1> QED
  BY <1>1, <1>2, <1>3, <1>4, <1>5, <1>6, <1>7, <1>8, Zenon

-----------------------------------------------------------------------------
(* What a step does to the thread that takes it.                           *)

\* The thread t, and no other, is now at this place.
Moves(t, at, root, cur, extra, then) ==
    /\ run'[t].at = at /\ run'[t].root = root /\ run'[t].cur = cur
    /\ run'[t].extra = extra /\ run'[t].then = then
    /\ \A u \in Threads \ {t} : run'[u] = run[u]

\* The thread t is in the completion code, at a place of this name.
Stands(t, at) ==
    /\ run[t].at = at /\ run[t] # Idle
    /\ run[t].root \in Fences
    /\ run[t].extra \in Seq(Fences) /\ run[t].then \in Timed \cup {None}
    /\ IF at \in {"nested", "nestedwake"} THEN run[t].cur \in Fences
                                          ELSE run[t].cur = None
    /\ at \in {"dec", "wake"} => run[t].extra = <<>>
    /\ run[t].then # None => t = <<"dma", run[t].then[2]>>

\* Where a thread stands, by its place in the code.
LEMMA StandsAt ==
    ASSUME Shape, RunInv, NEW t \in Threads, NEW at, run[t].at = at, at # "idle"
    PROVE  Stands(t, at)
<1>1. RunOK(t) /\ run[t] \in Runs
  BY Zenon DEF RunInv, Shape
<1>2. run[t].at \in {"idle", "dec", "wake", "scan", "nested", "nestedwake"}
  BY <1>1, Zenon DEF Runs
<1>3. run[t].extra \in Seq(Fences) /\ run[t].then \in Timed \cup {None}
  BY <1>1, Zenon DEF Runs
<1>4. run[t] # Idle
  BY DEF Idle
<1> QED
  BY <1>1, <1>2, <1>3, <1>4, Zenon DEF Stands, RunOK

\* A call of i915_sw_fence_complete() puts the thread before its count.
LEMMA CallMoves ==
    ASSUME Shape, NEW t \in Threads, NEW f, NEW then, Call(t, f, then)
    PROVE  Moves(t, "dec", f, None, <<>>, then)
<1>1. run \in [Threads -> Runs]
  BY Zenon DEF Shape
<1> QED
  BY <1>1, Zenon DEF Call, Moves, Idle

\* The thread that returns goes idle, or on to what it does then.
LEMMA ReturnMoves ==
    ASSUME Shape, NEW t \in Threads, Return(t)
    PROVE  /\ Moves(t, "idle", None, None, <<>>, None)
           /\ run'[t] = Idle
<1>1. run \in [Threads -> Runs]
  BY Zenon DEF Shape
<1> QED
  BY <1>1, Zenon DEF Return, Moves, Idle

\* Where __i915_sw_fence_complete() takes the thread,
LEMMA CompleteMoves ==
    ASSUME Shape, RunInv, NEW t \in Threads, Complete(t)
    PROVE  LET f == run[t].root
           IN  /\ Stands(t, "dec")
               /\ pending' = [pending EXCEPT ![f] = IF Done(f) THEN @ ELSE @ - 1]
               /\ \/ /\ pending[f] = 1
                     /\ fired' = fired \cup {f}
                     /\ Moves(t, "wake", f, None, <<>>, run[t].then)
                     /\ UNCHANGED <<timer, work>>
                  \/ /\ pending[f] # 1
                     /\ Return(t) /\ fired' = fired
               /\ UNCHANGED <<error, list, lock, build, todo, hold, waiter, dma,
                              cbs, owner, awaits, committed, released, freed>>
<1> DEFINE f == run[t].root
<1>1. run \in [Threads -> Runs] /\ run[t].at = "dec"
  BY Zenon DEF Shape, Complete
<1>2. Stands(t, "dec")
  BY <1>1, StandsAt, Zenon
<1>3. ASSUME run' = [run EXCEPT ![t].at = "wake"]
      PROVE  Moves(t, "wake", f, None, <<>>, run[t].then)
  BY <1>1, <1>2, <1>3, Zenon DEF Moves, Stands, Runs
<1> QED
  BY <1>2, <1>3, Zenon DEF Complete

\* ... the wake-up of the first fence,
LEMMA WakeUpAllMoves ==
    ASSUME Shape, RunInv, NEW t \in Threads, WakeUpAll(t)
    PROVE  LET f == run[t].root
           IN  /\ Stands(t, "wake")
               /\ lock[f] = None
               /\ lock' = [lock EXCEPT ![f] = t]
               /\ pending' = [pending EXCEPT ![f] = -1]
               /\ Moves(t, "scan", f, None, <<>>, run[t].then)
               /\ UNCHANGED <<error, list, build, todo, hold, waiter, device, history>>
<1> DEFINE f == run[t].root
<1>1. run \in [Threads -> Runs] /\ run[t].at = "wake"
  BY Zenon DEF Shape, WakeUpAll
<1>2. Stands(t, "wake")
  BY <1>1, StandsAt, Zenon
<1>3. ASSUME run' = [run EXCEPT ![t].at = "scan"]
      PROVE  Moves(t, "scan", f, None, <<>>, run[t].then)
  BY <1>1, <1>2, <1>3, Zenon DEF Moves, Stands, Runs
<1> QED
  BY <1>2, <1>3, Zenon DEF WakeUpAll

\* ... the next entry of its queue,
LEMMA WakeEntryMoves ==
    ASSUME Shape, RunInv, NEW t \in Threads, WakeEntry(t)
    PROVE  LET f == run[t].root
               g == Head(list[f])
           IN  /\ Stands(t, "scan")
               /\ list[f] # <<>> /\ g \in Fences
               /\ SetError(g, error[f])
               /\ list' = [list EXCEPT ![f] = Tail(@)]
               /\ Moves(t, "nested", f, g, run[t].extra, run[t].then)
               /\ UNCHANGED <<pending, lock, build, todo, hold, waiter, device, history>>
<1> DEFINE f == run[t].root
           g == Head(list[f])
<1>1. run \in [Threads -> Runs] /\ run[t].at = "scan" /\ list[f] # <<>>
  BY Zenon DEF Shape, WakeEntry
<1>2. Stands(t, "scan")
  BY <1>1, StandsAt, Zenon
<1>3. ASSUME run' = [run EXCEPT ![t].at = "nested", ![t].cur = g]
      PROVE  Moves(t, "nested", f, g, run[t].extra, run[t].then)
  BY <1>1, <1>2, <1>3, Zenon DEF Moves, Stands, Runs
<1>4. g \in Fences
  <2>1. list[f] \in Seq(Fences)
    BY <1>2, Zenon DEF Stands, Shape
  <2> QED
    BY <1>1, <2>1
<1> QED
  BY <1>1, <1>2, <1>3, <1>4, Zenon DEF WakeEntry

\* ... the completion of the fence behind that entry,
LEMMA NestedCompleteMoves ==
    ASSUME Shape, RunInv, NEW t \in Threads, NestedComplete(t)
    PROVE  LET f == run[t].root
               g == run[t].cur
           IN  /\ Stands(t, "nested")
               /\ pending' = [pending EXCEPT ![g] = @ - 1]
               /\ \/ /\ pending[g] = 1
                     /\ fired' = fired \cup {g}
                     /\ Moves(t, "nestedwake", f, g, run[t].extra, run[t].then)
                  \/ /\ pending[g] # 1
                     /\ fired' = fired
                     /\ Moves(t, "scan", f, None, run[t].extra, run[t].then)
               /\ UNCHANGED <<error, list, lock, build, todo, hold, waiter, device,
                              awaits, committed, released, freed>>
<1> DEFINE f == run[t].root
           g == run[t].cur
<1>1. run \in [Threads -> Runs] /\ run[t].at = "nested"
  BY Zenon DEF Shape, NestedComplete
<1>2. Stands(t, "nested")
  BY <1>1, StandsAt, Zenon
<1>3. ASSUME run' = [run EXCEPT ![t].at = "nestedwake"]
      PROVE  Moves(t, "nestedwake", f, g, run[t].extra, run[t].then)
  BY <1>1, <1>2, <1>3, Zenon DEF Moves, Stands, Runs
<1>4. ASSUME run' = [run EXCEPT ![t].at = "scan", ![t].cur = None]
      PROVE  Moves(t, "scan", f, None, run[t].extra, run[t].then)
  BY <1>1, <1>2, <1>4, Zenon DEF Moves, Stands, Runs
<1> QED
  BY <1>2, <1>3, <1>4, Zenon DEF NestedComplete

\* ... the wake-up of that fence, whose queue joins the chain,
LEMMA NestedWakeUpAllMoves ==
    ASSUME Shape, RunInv, NEW t \in Threads, NestedWakeUpAll(t)
    PROVE  LET f == run[t].root
               g == run[t].cur
           IN  /\ Stands(t, "nestedwake")
               /\ lock[g] = None
               /\ pending' = [pending EXCEPT ![g] = -1]
               /\ Moves(t, "scan", f, None, run[t].extra \o list[g], run[t].then)
               /\ list' = [list EXCEPT ![g] = <<>>]
               /\ freed' = freed \cup {g}
               /\ UNCHANGED <<error, lock, build, todo, hold, waiter, device, awaits,
                              committed, released, fired>>
<1> DEFINE f == run[t].root
           g == run[t].cur
           e == run[t].extra \o list[g]
<1>1. run \in [Threads -> Runs] /\ run[t].at = "nestedwake"
  BY Zenon DEF Shape, NestedWakeUpAll
<1>2. Stands(t, "nestedwake")
  BY <1>1, StandsAt, Zenon
<1>3. run' = [run EXCEPT ![t].at = "scan", ![t].cur = None, ![t].extra = e]
  BY <1>1, Zenon DEF NestedWakeUpAll, Runs
<1>4. Moves(t, "scan", f, None, e, run[t].then)
  <2> HIDE DEF e
  <2> QED
    BY <1>1, <1>2, <1>3 DEF Moves, Stands, Runs
<1> QED
  BY <1>2, <1>4, Zenon DEF NestedWakeUpAll

\* ... and the turn to the chain.
LEMMA SpliceMoves ==
    ASSUME Shape, RunInv, NEW t \in Threads, Splice(t)
    PROVE  LET f == run[t].root
           IN  /\ Stands(t, "scan")
               /\ list[f] = <<>>
               /\ \/ /\ run[t].extra = <<>>
                     /\ lock' = [lock EXCEPT ![f] = None]
                     /\ freed' = freed \cup {f}
                     /\ Return(t)
                     /\ list' = list
                  \/ /\ list' = [list EXCEPT ![f] = run[t].extra]
                     /\ Moves(t, "scan", f, None, <<>>, run[t].then)
                     /\ UNCHANGED <<lock, freed, timer, work>>
               /\ UNCHANGED <<pending, error, build, todo, hold, waiter, dma, cbs,
                              owner, awaits, committed, released, fired>>
<1> DEFINE f == run[t].root
<1>1. run \in [Threads -> Runs] /\ run[t].at = "scan" /\ list[f] = <<>>
  BY Zenon DEF Shape, Splice
<1>2. Stands(t, "scan")
  BY <1>1, StandsAt, Zenon
<1>3. ASSUME run' = [run EXCEPT ![t].extra = <<>>]
      PROVE  Moves(t, "scan", f, None, <<>>, run[t].then)
  BY <1>1, <1>2, <1>3, Zenon DEF Moves, Stands, Runs
<1> QED
  BY <1>1, <1>2, <1>3, Zenon DEF Splice

-----------------------------------------------------------------------------
(* Control.                                                                *)

\* The completion code moves its own thread, and leaves builders, holders and
\* the owners of callbacks alone.
LEMMA CompletionFrame ==
    ASSUME Shape, RunInv, NEW t \in Threads, Completion(t)
    PROVE  /\ run[t] # Idle /\ run[t].at # "idle"
           /\ \A u \in Threads \ {t} : run'[u] = run[u]
           /\ RunOK(t)'
           /\ UNCHANGED <<build, todo, hold, waiter, dma, cbs, owner, awaits,
                          committed, released>>
           /\ \/ UNCHANGED <<timer, work>>
              \/ Return(t) /\ run'[t] = Idle
<1>1. CASE Complete(t)
  <2>1. Stands(t, "dec") /\ (Return(t) \/ UNCHANGED <<timer, work>>)
    BY <1>1, CompleteMoves, Zenon
  <2>2. \/ Moves(t, "wake", run[t].root, None, <<>>, run[t].then)
        \/ Return(t)
    BY <1>1, CompleteMoves, Zenon
  <2>3. ASSUME Return(t)
        PROVE  /\ RunOK(t)' /\ run'[t] = Idle
               /\ \A u \in Threads \ {t} : run'[u] = run[u]
    BY <2>3, ReturnMoves, Zenon DEF Moves, RunOK, Idle
  <2>4. ASSUME Moves(t, "wake", run[t].root, None, <<>>, run[t].then)
        PROVE  RunOK(t)' /\ \A u \in Threads \ {t} : run'[u] = run[u]
    BY <2>1, <2>4, Zenon DEF Moves, RunOK, Stands
  <2>5. UNCHANGED <<build, todo, hold, waiter, dma, cbs, owner, awaits, committed,
                    released>>
    BY <1>1, Zenon DEF Complete
  <2>6. run[t] # Idle /\ run[t].at # "idle"
    BY <2>1, Zenon DEF Stands
  <2> QED
    BY <2>1, <2>2, <2>3, <2>4, <2>5, <2>6, Zenon
<1>2. CASE WakeUpAll(t)
  <2>1. /\ Stands(t, "wake")
        /\ Moves(t, "scan", run[t].root, None, <<>>, run[t].then)
        /\ UNCHANGED <<build, todo, hold, waiter, device, history>>
    BY <1>2, WakeUpAllMoves, Zenon
  <2>2. RunOK(t)' /\ run[t].at # "idle"
    BY <2>1, Zenon DEF Moves, RunOK, Stands
  <2> QED
    BY <2>1, <2>2, Zenon DEF Moves, Stands, device, history
<1>3. CASE WakeEntry(t)
  <2> DEFINE g == Head(list[run[t].root])
  <2>1. /\ Stands(t, "scan") /\ g \in Fences
        /\ Moves(t, "nested", run[t].root, g, run[t].extra, run[t].then)
        /\ UNCHANGED <<build, todo, hold, waiter, device, history>>
    BY <1>3, WakeEntryMoves, Zenon
  <2> HIDE DEF g
  <2>2. RunOK(t)' /\ run[t].at # "idle"
    BY <2>1, Zenon DEF Moves, RunOK, Stands
  <2> QED
    BY <2>1, <2>2, Zenon DEF Moves, Stands, device, history
<1>4. CASE NestedComplete(t)
  <2>1. /\ Stands(t, "nested")
        /\ \/ Moves(t, "nestedwake", run[t].root, run[t].cur, run[t].extra, run[t].then)
           \/ Moves(t, "scan", run[t].root, None, run[t].extra, run[t].then)
        /\ UNCHANGED <<build, todo, hold, waiter, device, awaits, committed, released>>
    BY <1>4, NestedCompleteMoves, Zenon
  <2>2. RunOK(t)' /\ run[t].at # "idle"
    BY <2>1, Zenon DEF Moves, RunOK, Stands
  <2> QED
    BY <2>1, <2>2, Zenon DEF Moves, Stands, device
<1>5. CASE NestedWakeUpAll(t)
  <2> DEFINE e == run[t].extra \o list[run[t].cur]
  <2>1. /\ Stands(t, "nestedwake")
        /\ Moves(t, "scan", run[t].root, None, e, run[t].then)
        /\ UNCHANGED <<build, todo, hold, waiter, device, awaits, committed, released>>
    BY <1>5, NestedWakeUpAllMoves, Zenon
  <2> HIDE DEF e
  <2>2. RunOK(t)' /\ run[t].at # "idle"
    BY <2>1, Zenon DEF Moves, RunOK, Stands
  <2> QED
    BY <2>1, <2>2, Zenon DEF Moves, Stands, device
<1>6. CASE Splice(t)
  <2>1. Stands(t, "scan") /\ (Return(t) \/ UNCHANGED <<timer, work>>)
    BY <1>6, SpliceMoves, Zenon
  <2>2. \/ Moves(t, "scan", run[t].root, None, <<>>, run[t].then)
        \/ Return(t)
    BY <1>6, SpliceMoves, Zenon
  <2>3. ASSUME Return(t)
        PROVE  /\ RunOK(t)' /\ run'[t] = Idle
               /\ \A u \in Threads \ {t} : run'[u] = run[u]
    BY <2>3, ReturnMoves, Zenon DEF Moves, RunOK, Idle
  <2>4. ASSUME Moves(t, "scan", run[t].root, None, <<>>, run[t].then)
        PROVE  RunOK(t)' /\ \A u \in Threads \ {t} : run'[u] = run[u]
    BY <2>1, <2>4, Zenon DEF Moves, RunOK, Stands
  <2>5. UNCHANGED <<build, todo, hold, waiter, dma, cbs, owner, awaits, committed,
                    released>>
    BY <1>6, Zenon DEF Splice
  <2>6. run[t] # Idle /\ run[t].at # "idle"
    BY <2>1, Zenon DEF Stands
  <2> QED
    BY <2>1, <2>2, <2>3, <2>4, <2>5, <2>6, Zenon
<1> QED
  BY <1>1, <1>2, <1>3, <1>4, <1>5, <1>6, Zenon DEF Completion

\* A thread that steps leaves the others where they are.
LEMMA OthersRun ==
    ASSUME RunInv, NEW t \in Threads, RunOK(t)',
           \A u \in Threads \ {t} : run'[u] = run[u]
    PROVE  RunInv'
<1>1. ASSUME NEW u \in Threads, u # t
      PROVE  RunOK(u)'
  <2>1. run'[u] = run[u] /\ RunOK(u)
    BY <1>1, Zenon DEF RunInv
  <2> QED
    BY <2>1, Zenon DEF RunOK
<1> QED
  BY <1>1, Zenon DEF RunInv

\* Every step of a completion keeps the control invariant,
LEMMA CompletionControl ==
    ASSUME Shape, ControlInv, NEW t \in Threads, Completion(t)
    PROVE  ControlInv'
<1> USE DEF ControlInv
<1>0. /\ run[t] # Idle /\ run[t].at # "idle"
      /\ \A u \in Threads \ {t} : run'[u] = run[u]
      /\ RunOK(t)'
      /\ UNCHANGED <<build, todo, hold, waiter, dma, cbs, owner, awaits,
                     committed, released>>
      /\ \/ UNCHANGED <<timer, work>>
         \/ Return(t) /\ run'[t] = Idle
  BY CompletionFrame, Zenon
<1>1. RunInv'
  BY <1>0, OthersRun, Zenon
<1>2. BuildInv'
  <2>1. \A f \in Fences : <<"build", f>> \in Threads
    BY Zenon DEF Threads
  <2>2. ASSUME NEW f \in Fences, f \notin committed
        PROVE  run'[<<"build", f>>] = Idle
    BY <1>0, <2>1, <2>2, Zenon DEF BuildInv
  <2> QED
    BY <1>0, <2>2, Zenon DEF BuildInv
<1>3. HoldInv'
  <2>1. \A f \in Holders : <<"hold", f>> \in Threads
    BY Zenon DEF Threads
  <2>2. ASSUME NEW f \in Holders, hold[f][1] # "dropped"
        PROVE  run'[<<"hold", f>>] = Idle
    BY <1>0, <2>1, <2>2, Zenon DEF HoldInv
  <2> QED
    BY <1>0, <2>2, Zenon DEF HoldInv, Hold
<1>4. TimerInv'
  <2>1. \A p \in Timed : <<"timer", p>> \in Threads
    BY Zenon DEF Threads
  <2>2. ASSUME NEW p \in Timed
        PROVE  timer'[p] = timer[p] \/ (timer'[p] = "off" /\ t = <<"timer", p>>)
    <3>1. CASE UNCHANGED <<timer, work>>
      BY <3>1, Zenon
    <3>2. CASE Return(t)
      <4>1. CASE t[1] = "timer"
        <5>1. PICK q \in Timed : t = <<"timer", q>>
          BY <4>1 DEF Threads
        <5>2. timer' = [timer EXCEPT ![q] = "off"] /\ timer \in [Timed -> {"off", "armed", "running"}]
          BY <3>2, <4>1, <5>1, Zenon DEF Return, Shape
        <5> QED
          BY <5>1, <5>2, Zenon
      <4>2. CASE t[1] # "timer"
        BY <3>2, <4>2, Zenon DEF Return
      <4> QED
        BY <4>1, <4>2, Zenon
    <3> QED
      BY <1>0, <3>1, <3>2, Zenon
  <2>3. ASSUME NEW p \in Timed, timer'[p] # "running"
        PROVE  run'[<<"timer", p>>] = Idle
    <3>1. CASE t = <<"timer", p>>
      <4>1. timer[p] = "running"
        BY <1>0, <3>1, Zenon DEF TimerInv
      <4>2. ~UNCHANGED timer
        BY <2>3, <4>1, Zenon
      <4> QED
        BY <1>0, <3>1, <4>2, Zenon
    <3>2. CASE t # <<"timer", p>>
      BY <1>0, <2>1, <2>2, <2>3, <3>2, Zenon DEF TimerInv
    <3> QED
      BY <3>1, <3>2, Zenon
  <2> QED
    BY <1>0, <2>2, <2>3, Zenon DEF TimerInv
<1> QED
  BY <1>1, <1>2, <1>3, <1>4, Zenon

\* A builder that has not committed yet moves on by itself.
LEMMA BuildStep ==
    ASSUME Shape, BuildInv, NEW f \in Fences, NEW at, NEW x, NEW b,
           Building(f, at, x), at # "done",
           build' = build \/ build' = [build EXCEPT ![f] = b], b[1] # "done"
    PROVE  /\ f \notin committed
           /\ \A g \in Fences : build'[g][1] = "done" <=> build[g][1] = "done"
           /\ \A g \in Fences \ {f} : build'[g] = build[g]
<1>1. build[f][1] = at /\ build \in [Fences -> Builds]
  BY DEF Building, Shape
<1>2. f \notin committed
  BY <1>1, Zenon DEF BuildInv
<1> QED
  BY <1>1, <1>2, Zenon

\* ... await on a software fence does,
LEMMA AwaitSwFenceControl ==
    ASSUME Shape, ControlInv, NEW f \in Fences, NEW s \in Fences, AwaitSwFence(f, s)
    PROVE  ControlInv'
<1> USE DEF ControlInv
<1>1. /\ Building(f, "next", None) /\ <<f, s>> \in todo[f]
      /\ todo' = [todo EXCEPT ![f] = @ \ {<<f, s>>}]
      /\ \/ build' = build
         \/ build' = [build EXCEPT ![f] = <<"swwait", s>>]
         \/ build' = [build EXCEPT ![f] = <<"link", s>>]
      /\ awaits' = awaits \/ awaits' = awaits \cup {<<f, s>>}
      /\ UNCHANGED <<run, hold, owner, timer, committed>>
  BY Zenon DEF AwaitSwFence, device
<1>2. \A g \in Fences : build'[g][1] = "done" <=> build[g][1] = "done"
  BY <1>1, BuildStep, Zenon
<1>3. BuildInv'
  <2>1. ASSUME NEW g \in Fences, NEW p \in todo'[g]
        PROVE  p \in todo[g] /\ p # <<f, s>>
    <3>1. todo \in [Fences -> SUBSET (SwDeps \cup DmaDeps)]
      BY Zenon DEF Shape
    <3>2. p \in todo[g] /\ (g = f => p # <<f, s>>)
      BY <1>1, <2>1, <3>1, Zenon
    <3>3. g # f => p # <<f, s>>
      <4>1. p[1] = g
        BY <3>2, Zenon DEF BuildInv
      <4> QED
        BY <4>1
    <3> QED
      BY <3>2, <3>3, Zenon
  <2>2. ASSUME NEW g \in Fences, NEW p \in todo'[g]
        PROVE  p[1] = g /\ p \notin awaits'
    <3>1. p \in todo[g] /\ p # <<f, s>>
      BY <2>1, Zenon
    <3>2. p[1] = g /\ p \notin awaits
      BY <3>1, Zenon DEF BuildInv
    <3> QED
      BY <1>1, <3>1, <3>2, Zenon
  <2> QED
    BY <1>1, <1>2, <2>2, Zenon DEF BuildInv
<1>4. RunInv'
  BY <1>1, Zenon DEF RunInv, RunOK
<1>5. awaits \subseteq awaits'
  BY <1>1, Zenon
<1>6. HoldInv' /\ TimerInv'
  BY <1>1, <1>5, Zenon DEF HoldInv, TimerInv, Hold
<1> QED
  BY <1>3, <1>4, <1>6, Zenon

\* ... and await on a DMA fence.
LEMMA AwaitDmaFenceControl ==
    ASSUME Shape, ControlInv, NEW f \in Fences, NEW d \in Dmas, AwaitDmaFence(f, d)
    PROVE  ControlInv'
<1> USE DEF ControlInv
<1>1. /\ Building(f, "next", None) /\ <<f, d>> \in todo[f]
      /\ todo' = [todo EXCEPT ![f] = @ \ {<<f, d>>}]
      /\ \/ build' = build
         \/ build' = [build EXCEPT ![f] = <<"dmawait", d>>]
         \/ build' = [build EXCEPT ![f] = <<"addcb", d>>]
      /\ \/ UNCHANGED <<awaits, owner, timer>>
         \/ /\ awaits' = awaits \cup {<<f, d>>}
            /\ UNCHANGED <<owner, timer>>
         \/ /\ awaits' = awaits \cup {<<f, d>>}
            /\ <<f, d>> \in Timed
            /\ owner' = owner \cup {<<f, d>>}
            /\ timer' = [timer EXCEPT ![<<f, d>>] = "armed"]
      /\ UNCHANGED <<run, hold, committed>>
  BY Zenon DEF AwaitDmaFence
<1>2. \A g \in Fences : build'[g][1] = "done" <=> build[g][1] = "done"
  BY <1>1, BuildStep
<1>3. BuildInv'
  <2>1. ASSUME NEW g \in Fences, NEW p \in todo'[g]
        PROVE  p \in todo[g] /\ p # <<f, d>>
    <3>1. todo \in [Fences -> SUBSET (SwDeps \cup DmaDeps)]
      BY Zenon DEF Shape
    <3>2. p \in todo[g] /\ (g = f => p # <<f, d>>)
      BY <1>1, <2>1, <3>1, Zenon
    <3>3. g # f => p # <<f, d>>
      <4>1. p[1] = g
        BY <3>2, Zenon DEF BuildInv
      <4> QED
        BY <4>1
    <3> QED
      BY <3>2, <3>3, Zenon
  <2>2. ASSUME NEW g \in Fences, NEW p \in todo'[g]
        PROVE  p[1] = g /\ p \notin awaits'
    <3>1. p \in todo[g] /\ p # <<f, d>>
      BY <2>1, Zenon
    <3>2. p[1] = g /\ p \notin awaits
      BY <3>1, Zenon DEF BuildInv
    <3> QED
      BY <1>1, <3>1, <3>2, Zenon
  <2> QED
    BY <1>1, <1>2, <2>2, Zenon DEF BuildInv
<1>4. RunInv'
  BY <1>1, Zenon DEF RunInv, RunOK
<1>5. awaits \subseteq awaits'
  BY <1>1, Zenon
<1>6. HoldInv'
  BY <1>1, <1>5, Zenon DEF HoldInv, Hold
<1>7. TimerInv'
  <2>1. CASE UNCHANGED <<owner, timer>>
    BY <1>1, <1>5, <2>1, Zenon DEF TimerInv
  <2>2. CASE /\ awaits' = awaits \cup {<<f, d>>}
             /\ <<f, d>> \in Timed
             /\ owner' = owner \cup {<<f, d>>}
             /\ timer' = [timer EXCEPT ![<<f, d>>] = "armed"]
    <3>1. <<f, d>> \notin awaits
      BY <1>1, Zenon DEF BuildInv
    <3>2. timer[<<f, d>>] = "off" /\ run[<<"timer", <<f, d>>>>] = Idle
      <4>1. timer[<<f, d>>] = "off"
        BY <2>2, <3>1, Zenon DEF TimerInv
      <4>2. timer[<<f, d>>] # "running"
        BY <4>1, Zenon
      <4> QED
        BY <2>2, <4>1, <4>2, Zenon DEF TimerInv
    <3>3. \A p \in Timed \ {<<f, d>>} : timer'[p] = timer[p]
      BY <2>2, Zenon DEF Shape
    <3>4. ASSUME NEW p \in Timed
          PROVE  /\ timer'[p] # "running" => run'[<<"timer", p>>] = Idle
                 /\ p \in owner' => p \in awaits'
                 /\ p \notin awaits' => timer'[p] = "off"
      <4>1. CASE p = <<f, d>>
        BY <1>1, <2>2, <3>2, <4>1, Zenon
      <4>2. CASE p # <<f, d>>
        BY <1>1, <2>2, <3>3, <4>2, Zenon DEF TimerInv
      <4> QED
        BY <4>1, <4>2, Zenon
    <3> QED
      BY <3>4, Zenon DEF TimerInv
  <2> QED
    BY <1>1, <2>1, <2>2, Zenon
<1> QED
  BY <1>3, <1>4, <1>6, <1>7, Zenon

\* So does a call of i915_sw_fence_complete() by its builder, holder or timer.
LEMMA CallControl ==
    ASSUME Shape, RunInv, NEW t \in Threads, NEW f \in Fences,
           NEW then \in Timed \cup {None}, Call(t, f, then),
           then # None => t = <<"dma", then[2]>>
    PROVE  /\ RunInv'
           /\ \A u \in Threads \ {t} : run'[u] = run[u]
<1>1. Moves(t, "dec", f, None, <<>>, then)
  BY CallMoves, Zenon
<1>2. RunOK(t)'
  BY <1>1, Zenon DEF Moves, RunOK
<1>3. \A u \in Threads \ {t} : run'[u] = run[u]
  BY <1>1, Zenon DEF Moves
<1> QED
  BY <1>2, <1>3, OthersRun, Zenon

\* Every step of a builder keeps the control invariant,
LEMMA BuilderControl ==
    ASSUME Shape, ControlInv, NEW f \in Fences, Builder(f)
    PROVE  ControlInv'
<1> USE DEF ControlInv
<1>1. CASE \E p \in SwDeps : AwaitSwFence(f, p[2])
  BY <1>1, AwaitSwFenceControl, DepsAssumption, Zenon
<1>2. CASE \E p \in DmaDeps : AwaitDmaFence(f, p[2])
  BY <1>2, AwaitDmaFenceControl, DepsAssumption, Zenon
<1>3. CASE Link(f) \/ SleepOnSwFence(f) \/ AddCallback(f) \/ SleepOnDmaFence(f)
  <2>1. \E x : /\ \E at \in {"link", "swwait", "swunlock", "addcb", "dmawait"} :
                     Building(f, at, x)
               /\ \/ build' = [build EXCEPT ![f] = <<"next", None>>]
                  \/ build' = [build EXCEPT ![f] = <<"swunlock", x>>]
    BY <1>3, Zenon DEF Link, SleepOnSwFence, AddCallback, SleepOnDmaFence
  <2>2. owner' = owner \/ \E p : owner' = owner \ {p}
    BY <1>3, Zenon DEF Link, SleepOnSwFence, AddCallback, SleepOnDmaFence, device
  <2>3. UNCHANGED <<run, hold, todo, timer, awaits, committed>>
    BY <1>3, Zenon DEF Link, SleepOnSwFence, AddCallback, SleepOnDmaFence, device, history
  <2>4. \A g \in Fences : build'[g][1] = "done" <=> build[g][1] = "done"
    BY <2>1, BuildStep, Zenon
  <2>5. BuildInv'
    BY <2>3, <2>4, Zenon DEF BuildInv
  <2>6. RunInv' /\ HoldInv'
    BY <2>3, Zenon DEF RunInv, RunOK, HoldInv, Hold
  <2>7. owner' \subseteq owner
    BY <2>2, Zenon
  <2>8. TimerInv'
    BY <2>3, <2>7, Zenon DEF TimerInv
  <2> QED
    BY <2>5, <2>6, <2>8, Zenon
<1>4. CASE Commit(f)
  <2> DEFINE t == <<"build", f>>
  <2>1. /\ build[f] = <<"next", None>> /\ todo[f] = {}
        /\ build' = [build EXCEPT ![f] = <<"done", None>>]
        /\ committed' = committed \cup {f}
        /\ Call(t, f, None)
        /\ UNCHANGED <<hold, todo, owner, timer, awaits>>
    BY <1>4, Zenon DEF Commit, Building, device
  <2>2. t \in Threads
    BY Zenon DEF Threads
  <2>3. RunInv' /\ \A u \in Threads \ {t} : run'[u] = run[u]
    BY <2>1, <2>2, CallControl, Zenon
  <2>4. \A g \in Fences : (build'[g][1] = "done" <=> build[g][1] = "done" \/ g = f)
    BY <2>1, Zenon DEF Shape
  <2>5. \A g \in Fences \ {f} : <<"build", g>> \in Threads \ {t}
    BY Zenon DEF Threads
  <2>6. \A g \in Fences : g \in committed' <=> g \in committed \/ g = f
    BY <2>1, Zenon
  <2>7. BuildInv'
    BY <2>1, <2>3, <2>4, <2>5, <2>6, Zenon DEF BuildInv
  <2>8. \A h \in Holders : <<"hold", h>> \in Threads \ {t}
    BY Zenon DEF Threads
  <2>9. \A p \in Timed : <<"timer", p>> \in Threads \ {t}
    BY Zenon DEF Threads
  <2> HIDE DEF t
  <2>10. HoldInv'
    BY <2>1, <2>3, <2>8, Zenon DEF HoldInv, Hold
  <2>11. TimerInv'
    BY <2>1, <2>3, <2>9, Zenon DEF TimerInv
  <2> QED
    BY <2>3, <2>7, <2>10, <2>11, Zenon
<1> QED
  BY <1>1, <1>2, <1>3, <1>4, Zenon DEF Builder

\* ... and every step of waiters, holders, DMA fences and timers.
LEMMA OtherControl ==
    ASSUME Shape, ControlInv,
           \/ \E f \in Sleepers : Wait(f)
           \/ \E f \in Holders : HoldRead(f) \/ HoldExchange(f) \/ HoldDrop(f)
           \/ \E d \in Dmas : DmaWake(d) \/ Signal(d)
           \/ \E p \in Timed : TimerWake(p) \/ IrqWork(p)
    PROVE  ControlInv'
<1> USE DEF ControlInv
<1>1. CASE (\E f \in Sleepers : Wait(f)) \/ (\E d \in Dmas : Signal(d))
  <2>1. UNCHANGED <<run, build, hold, todo, owner, timer, awaits, committed>>
    BY <1>1, Zenon DEF Wait, Signal, device, history
  <2> QED
    BY <2>1, Zenon DEF RunInv, RunOK, BuildInv, HoldInv, TimerInv, Hold
<1>2. ASSUME NEW f \in Holders, HoldRead(f) \/ HoldExchange(f)
      PROVE  ControlInv'
  <2>1. f \in Fences /\ pending[f] \in Int /\ hold \in [Holders -> Holds]
    BY DepsAssumption, Zenon DEF Shape
  <2>2. \/ /\ hold' = [hold EXCEPT ![f] = <<"late", 0>>] /\ awaits' = awaits
        \/ /\ hold' = [hold EXCEPT ![f] = <<"cas", pending[f]>>]
           /\ ~(pending[f] < 1) /\ awaits' = awaits
        \/ /\ hold' = [hold EXCEPT ![f] = <<"held", 0>>]
           /\ awaits' = awaits \cup {<<f, Hold(f)>>}
    BY <1>2, Zenon DEF HoldRead, HoldExchange, history
  <2>3. hold[f][1] # "dropped"
    BY <1>2, Zenon DEF HoldRead, HoldExchange
  <2>4. UNCHANGED <<run, build, todo, owner, timer, committed>>
    BY <1>2, Zenon DEF HoldRead, HoldExchange, device, history
  <2>5. HoldInv'
    <3>1. run[<<"hold", f>>] = Idle
      BY <2>3, Zenon DEF HoldInv
    <3>2. \A h \in Holders \ {f} : hold'[h] = hold[h]
      BY <2>1, <2>2, Zenon
    <3>3. /\ hold'[f][1] = "cas" => hold'[f][2] >= 1
          /\ hold'[f][1] = "held" => <<f, Hold(f)>> \in awaits'
      BY <2>1, <2>2
    <3>4. awaits \subseteq awaits'
      BY <2>2, Zenon
    <3>5. ASSUME NEW h \in Holders
          PROVE  /\ hold'[h][1] # "dropped" => run'[<<"hold", h>>] = Idle
                 /\ hold'[h][1] = "cas" => hold'[h][2] >= 1
                 /\ hold'[h][1] = "held" => <<h, Hold(h)>> \in awaits'
      BY <2>4, <3>1, <3>2, <3>3, <3>4, ZenonT(60) DEF HoldInv
    <3> QED
      BY <3>5, Zenon DEF HoldInv, Hold
  <2>6. BuildInv'
    <3>1. \A g \in Fences : <<f, Hold(f)>> \notin todo[g]
      BY DepsAssumption, <2>1, SMTT(40) DEF Shape, Hold
    <3>2. ASSUME NEW g \in Fences, NEW p \in todo[g]
          PROVE  p[1] = g /\ p \notin awaits'
      <4>1. p[1] = g /\ p \notin awaits /\ p # <<f, Hold(f)>>
        BY <3>1, Zenon DEF BuildInv
      <4> QED
        BY <2>2, <4>1, Zenon
    <3> QED
      BY <2>4, <3>2, Zenon DEF BuildInv
  <2>7. RunInv'
    BY <2>4, Zenon DEF RunInv, RunOK
  <2>8. awaits \subseteq awaits'
    BY <2>2, Zenon
  <2>9. TimerInv'
    BY <2>4, <2>8, Zenon DEF TimerInv
  <2> QED
    BY <2>5, <2>6, <2>7, <2>9, Zenon
<1>3. ASSUME NEW f \in Holders, HoldDrop(f)
      PROVE  ControlInv'
  <2> DEFINE t == <<"hold", f>>
  <2>1. /\ hold' = [hold EXCEPT ![f] = <<"dropped", 0>>]
        /\ Call(t, f, None)
        /\ UNCHANGED <<build, todo, owner, timer, awaits, committed>>
    BY <1>3, Zenon DEF HoldDrop, device
  <2>2. t \in Threads /\ f \in Fences /\ hold \in [Holders -> Holds]
    BY DepsAssumption, Zenon DEF Threads, Shape
  <2>3. RunInv' /\ \A u \in Threads \ {t} : run'[u] = run[u]
    BY <2>1, <2>2, CallControl, Zenon
  <2>4. /\ \A g \in Fences : <<"build", g>> \in Threads \ {t}
        /\ \A h \in Holders \ {f} : <<"hold", h>> \in Threads \ {t}
        /\ \A p \in Timed : <<"timer", p>> \in Threads \ {t}
    BY Zenon DEF Threads
  <2> HIDE DEF t
  <2>5. BuildInv' /\ TimerInv'
    BY <2>1, <2>3, <2>4, Zenon DEF BuildInv, TimerInv
  <2>6. hold'[f][1] = "dropped" /\ \A h \in Holders \ {f} : hold'[h] = hold[h]
    BY <2>1, <2>2, Zenon
  <2>7. hold'[f][1] # "cas" /\ hold'[f][1] # "held"
    BY <2>6, Zenon
  <2>8. HoldInv'
    BY <2>1, <2>3, <2>4, <2>6, <2>7, Zenon DEF HoldInv, Hold
  <2> QED
    BY <2>3, <2>5, <2>8, Zenon
<1>4. ASSUME NEW d \in Dmas, DmaWake(d)
      PROVE  ControlInv'
  <2> DEFINE t == <<"dma", d>>
             f == Head(cbs[d])
  <2>1. t \in Threads /\ f \in Fences
    BY <1>4 DEF Threads, DmaWake, Shape
  <2>2. \/ Call(t, f, IF <<f, d>> \in Timed THEN <<f, d>> ELSE None)
        \/ UNCHANGED run
    BY <1>4, Zenon DEF DmaWake
  <2>3. UNCHANGED <<build, hold, todo, timer, awaits, committed>>
    BY <1>4, Zenon DEF DmaWake, history
  <2>4. owner' \subseteq owner
    BY <1>4, Zenon DEF DmaWake
  <2>5. RunInv' /\ \A u \in Threads \ {t} : run'[u] = run[u]
    <3>1. CASE UNCHANGED run
      BY <3>1, Zenon DEF RunInv, RunOK
    <3>2. CASE Call(t, f, IF <<f, d>> \in Timed THEN <<f, d>> ELSE None)
      <4> DEFINE then == IF <<f, d>> \in Timed THEN <<f, d>> ELSE None
      <4>1. then \in Timed \cup {None} /\ (then # None => t = <<"dma", then[2]>>)
        BY Zenon
      <4> HIDE DEF t, f, then
      <4> QED
        BY <2>1, <3>2, <4>1, CallControl, Zenon DEF then
    <3> QED
      BY <2>2, <3>1, <3>2, Zenon
  <2>6. /\ \A g \in Fences : <<"build", g>> \in Threads \ {t}
        /\ \A h \in Holders : <<"hold", h>> \in Threads \ {t}
        /\ \A p \in Timed : <<"timer", p>> \in Threads \ {t}
    BY Zenon DEF Threads
  <2> HIDE DEF t, f
  <2>7. BuildInv' /\ HoldInv'
    BY <2>3, <2>5, <2>6, Zenon DEF BuildInv, HoldInv, Hold
  <2>8. TimerInv'
    BY <2>3, <2>4, <2>5, <2>6, Zenon DEF TimerInv
  <2> QED
    BY <2>5, <2>7, <2>8, ZenonT(60)
<1>5. ASSUME NEW p \in Timed, TimerWake(p)
      PROVE  ControlInv'
  <2> DEFINE t == <<"timer", p>>
  <2>1. /\ timer[p] = "armed"
        /\ \/ /\ timer' = [timer EXCEPT ![p] = "running"]
              /\ Call(t, p[1], None)
           \/ /\ timer' = [timer EXCEPT ![p] = "off"]
              /\ UNCHANGED run
        /\ UNCHANGED <<build, hold, todo, awaits, committed>>
    BY <1>5, Zenon DEF TimerWake
  <2>2. owner' \subseteq owner
    BY <1>5, Zenon DEF TimerWake
  <2>3. t \in Threads /\ p[1] \in Fences
    BY DepsAssumption, Zenon DEF Threads
  <2>4. RunInv' /\ \A u \in Threads \ {t} : run'[u] = run[u]
    <3>1. CASE UNCHANGED run
      BY <3>1, Zenon DEF RunInv, RunOK
    <3>2. CASE Call(t, p[1], None)
      BY <2>3, <3>2, CallControl, Zenon
    <3> QED
      BY <2>1, <3>1, <3>2, Zenon
  <2>5. /\ \A g \in Fences : <<"build", g>> \in Threads \ {t}
        /\ \A h \in Holders : <<"hold", h>> \in Threads \ {t}
        /\ \A q \in Timed \ {p} : <<"timer", q>> \in Threads \ {t}
    BY Zenon DEF Threads
  <2>6. BuildInv' /\ HoldInv'
    BY <2>1, <2>4, <2>5, Zenon DEF BuildInv, HoldInv, Hold
  <2>7. /\ \A q \in Timed \ {p} : timer'[q] = timer[q]
        /\ timer'[p] # "running" => UNCHANGED run
    BY <2>1, Zenon DEF Shape
  <2>8. p \in awaits /\ run[t] = Idle
    <3>1. timer[p] # "off" /\ timer[p] # "running"
      BY <2>1, Zenon
    <3> QED
      BY <3>1, Zenon DEF TimerInv
  <2>9. ASSUME NEW q \in Timed
        PROVE  /\ timer'[q] # "running" => run'[<<"timer", q>>] = Idle
               /\ q \in owner' => q \in awaits'
               /\ q \notin awaits' => timer'[q] = "off"
    <3>1. CASE q = p
      BY <2>1, <2>7, <2>8, <3>1, Zenon
    <3>2. CASE q # p
      BY <2>1, <2>2, <2>4, <2>5, <2>7, <3>2, Zenon DEF TimerInv
    <3> QED
      BY <3>1, <3>2, Zenon
  <2>10. TimerInv'
    BY <2>9, Zenon DEF TimerInv
  <2> QED
    BY <2>4, <2>6, <2>10, Zenon
<1>6. ASSUME NEW p \in Timed, IrqWork(p)
      PROVE  ControlInv'
  <2>1. /\ timer[p] # "running"
        /\ timer' = [timer EXCEPT ![p] = "off"]
        /\ UNCHANGED <<run, build, hold, todo, owner, awaits, committed>>
    BY <1>6, Zenon DEF IrqWork, history
  <2>2. timer'[p] = "off" /\ \A q \in Timed \ {p} : timer'[q] = timer[q]
    BY <2>1, Zenon DEF Shape
  <2>3. TimerInv'
    BY <2>1, <2>2, Zenon DEF TimerInv
  <2>4. RunInv' /\ BuildInv' /\ HoldInv'
    BY <2>1, Zenon DEF RunInv, RunOK, BuildInv, HoldInv, Hold
  <2> QED
    BY <2>3, <2>4, Zenon
<1> QED
  BY <1>1, <1>2, <1>3, <1>4, <1>5, <1>6, Zenon
=============================================================================
