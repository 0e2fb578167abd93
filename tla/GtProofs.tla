------------------------------ MODULE GtProofs ------------------------------
(***************************************************************************)
(* Proofs about what a GT keeps: its power references and its TLBs.        *)
(*                                                                         *)
(* Wakeref: whatever the number of users, the count is the number of       *)
(* owners, one release of the last reference is under way at a time, and   *)
(* whoever owns a reference finds the device awake. TlbRange: the block is *)
(* right for every page size and address space. GucTlb: for every number   *)
(* of threads, resets and parks, a sync ends only when the invalidation is *)
(* done.                                                                   *)
(***************************************************************************)
EXTENDS Wakeref, TlbRange, GucTlb, FiniteSetTheorems, TLAPS

-----------------------------------------------------------------------------
(* Wakerefs: the invariant.                                                *)

\* Who gives a reference to the layer below back at the end of its call.
Owners == {p \in Procs : own[p]}

\* The mutex is held exactly where the code is between locking and unlocking.
MutexInv ==
    \A p \in Procs :
        place[p] \in {"unpark", "inc", "unlock", "unlock_held", "last", "park"}
        <=> wf_mutex = p

\* A process has a reference to the layer below only inside a call.
OwnInv ==
    \A p \in Procs :
        /\ own[p] => place[p] \in {"first", "inc", "unlock", "unlock_held"}
        /\ place[p] = "first" => own[p]

\* The wakeref is active while there is an owner or a callback runs, and the
\* callbacks run when there is no owner.
ActiveInv ==
    /\ Holders # {} => active /\ ~parked
    /\ active => \/ Holders # {}
                 \/ \E p \in Procs : place[p] \in {"unpark", "inc", "park"}
    /\ \A p \in Procs :
           /\ place[p] = "inc" => active /\ ~parked
           /\ place[p] = "unpark" => active /\ count = 0
           /\ place[p] = "park" => active /\ ~parked /\ count = 0

\* A request that is retired owns a reference or does nothing.
RetireInv == place[Retire] \in {"idle", "held", "put_last"}

WfIInv ==
    /\ WfTypeOK /\ CountExact /\ OneReleaser
    /\ MutexInv /\ OwnInv /\ ActiveInv /\ RetireInv /\ PmBalanced

-----------------------------------------------------------------------------
(* Counting.                                                               *)

\* There are finitely many threads,
LEMMA ProcsFinite == IsFiniteSet(Procs)
<1>1. IsFiniteSet({Worker, Retire})
  <2>1. IsFiniteSet({Worker})
    BY FS_Singleton, Zenon
  <2>2. {Worker, Retire} = {Worker} \cup {Retire}
    BY Zenon
  <2> QED BY <2>1, <2>2, FS_AddElement, Zenon
<1> QED BY <1>1, UsersAssumption, FS_Union, Zenon DEF Procs

\* hence finitely many holders of a reference,
LEMMA HoldersFinite == IsFiniteSet(Holders)
<1>1. IsFiniteSet(Procs \cup {Work})
  BY ProcsFinite, FS_AddElement, Zenon
<1>2. Holders \subseteq Procs \cup {Work}
  BY Zenon DEF Holders
<1> QED BY <1>1, <1>2, FS_Subset, Zenon

\* and of a reference of the layer below.
LEMMA OwnersFinite == IsFiniteSet(Owners)
<1>1. Owners \subseteq Procs
  BY Zenon DEF Owners
<1> QED BY <1>1, ProcsFinite, FS_Subset, Zenon

\* One more element, one less.
LEMMA CardUp ==
    ASSUME NEW S, IsFiniteSet(S), NEW x, x \notin S
    PROVE  Cardinality(S \cup {x}) = Cardinality(S) + 1
BY FS_AddElement, Zenon

\* One element fewer, one less.
LEMMA CardDown ==
    ASSUME NEW S, IsFiniteSet(S), NEW x \in S
    PROVE  Cardinality(S \ {x}) = Cardinality(S) - 1
BY FS_RemoveElement, Zenon

\* The count is a natural number, zero when there is no owner, and one only
\* when there is a single owner.
LEMMA CountFacts ==
    ASSUME CountExact
    PROVE  /\ count \in Nat
           /\ count = 0 <=> Holders = {}
           /\ \A x \in Holders : count = 1 => Holders = {x}
           /\ \A x \in Holders : count # 1 => Holders \ {x} # {}
<1>1. Cardinality(Holders) \in Nat
  BY HoldersFinite, FS_CardinalityType, Zenon
<1>2. Cardinality(Holders) = 0 <=> Holders = {}
  BY HoldersFinite, FS_EmptySet, Zenon
<1>3. ASSUME NEW x \in Holders
      PROVE  count = 1 <=> Holders \ {x} = {}
  <2>1. /\ IsFiniteSet(Holders \ {x})
        /\ Cardinality(Holders \ {x}) = Cardinality(Holders) - 1
    BY HoldersFinite, FS_RemoveElement, Zenon
  <2>2. Cardinality(Holders \ {x}) = 0 <=> Holders \ {x} = {}
    BY <2>1, FS_EmptySet, Zenon
  <2> QED BY <1>1, <2>1, <2>2 DEF CountExact
<1> QED BY <1>1, <1>2, <1>3, Zenon DEF CountExact

\* After a step, too, a count of zero means that there is no holder.
LEMMA CountNext ==
    ASSUME CountExact'
    PROVE  count' \in Nat /\ (count' = 0 <=> Holders' = {})
<1>1. (CountExact => count \in Nat /\ (count = 0 <=> Holders = {}))'
  BY CountFacts, PTL
<1> QED BY <1>1, Zenon

\* How the owners and the count may change together.
LEMMA CountSame ==
    ASSUME CountExact, Holders' = Holders, count' = count
    PROVE  CountExact'
BY Zenon DEF CountExact

\* A new holder with a count one higher keeps the count exact,
LEMMA CountUp ==
    ASSUME CountExact, NEW x, x \notin Holders, Holders' = Holders \cup {x},
           count' = count + 1
    PROVE  CountExact'
BY CardUp, HoldersFinite, Zenon DEF CountExact

\* as does a holder that leaves with a count one lower,
LEMMA CountDown ==
    ASSUME CountExact, NEW x \in Holders, Holders' = Holders \ {x},
           count' = count - 1
    PROVE  CountExact'
BY CardDown, HoldersFinite, Zenon DEF CountExact

\* and a reference handed on with the count unchanged.
LEMMA CountMove ==
    ASSUME CountExact, NEW x \in Holders, NEW y, y \notin Holders,
           Holders' = (Holders \ {x}) \cup {y}, count' = count
    PROVE  CountExact'
<1> DEFINE S == Holders \ {x}
<1>1. IsFiniteSet(S) /\ Cardinality(S) = Cardinality(Holders) - 1
  BY HoldersFinite, FS_RemoveElement, Zenon
<1>2. Cardinality(S \cup {y}) = Cardinality(S) + 1
  BY <1>1, CardUp, Zenon
<1>3. Cardinality(Holders) \in Nat
  BY HoldersFinite, FS_CardinalityType, Zenon
<1> QED BY <1>1, <1>2, <1>3 DEF CountExact

\* How the references to the layer below may change.
LEMMA PmFacts ==
    PmBalanced <=> rpm = (IF active THEN 1 ELSE 0) + Cardinality(Owners)
BY Zenon DEF PmBalanced, Owners

\* The number of owners is a natural number.
LEMMA OwnersCard == Cardinality(Owners) \in Nat
BY OwnersFinite, FS_CardinalityType, Zenon

\* Steps that leave the layer below alone keep its balance,
LEMMA PmSame ==
    ASSUME PmBalanced, own' = own, active' = active, rpm' = rpm
    PROVE  PmBalanced'
BY Zenon DEF PmBalanced

\* as does a new owner that takes a reference,
LEMMA PmFirst ==
    ASSUME PmBalanced, NEW x, x \notin Owners, Owners' = Owners \cup {x},
           active' = active, rpm' = rpm + 1
    PROVE  PmBalanced'
<1>1. Cardinality(Owners') = Cardinality(Owners) + 1
  BY CardUp, OwnersFinite, Zenon
<1>2. PmBalanced' <=>
        rpm' = (IF active' THEN 1 ELSE 0) + Cardinality(Owners')
  BY Zenon DEF PmBalanced, Owners
<1> QED BY <1>1, <1>2, PmFacts, OwnersCard

\* and an owner that returns its own.
LEMMA PmPut ==
    ASSUME PmBalanced, NEW x \in Owners, Owners' = Owners \ {x},
           active' = active, rpm' = rpm - 1
    PROVE  PmBalanced'
<1>1. Cardinality(Owners') = Cardinality(Owners) - 1
  BY CardDown, OwnersFinite, Zenon
<1>2. PmBalanced' <=>
        rpm' = (IF active' THEN 1 ELSE 0) + Cardinality(Owners')
  BY Zenon DEF PmBalanced, Owners
<1> QED BY <1>1, <1>2, PmFacts, OwnersCard

\* The wakeref takes the reference of a process over ...
LEMMA PmGive ==
    ASSUME PmBalanced, NEW x \in Owners, Owners' = Owners \ {x},
           ~active, active', rpm' = rpm
    PROVE  PmBalanced'
<1>1. Cardinality(Owners') = Cardinality(Owners) - 1
  BY CardDown, OwnersFinite, Zenon
<1>2. PmBalanced' <=>
        rpm' = (IF active' THEN 1 ELSE 0) + Cardinality(Owners')
  BY Zenon DEF PmBalanced, Owners
<1> QED BY <1>1, <1>2, PmFacts, OwnersCard

\* ... and hands it back.
LEMMA PmTake ==
    ASSUME PmBalanced, NEW x, x \notin Owners, Owners' = Owners \cup {x},
           active, ~active', rpm' = rpm
    PROVE  PmBalanced'
<1>1. Cardinality(Owners') = Cardinality(Owners) + 1
  BY CardUp, OwnersFinite, Zenon
<1>2. PmBalanced' <=>
        rpm' = (IF active' THEN 1 ELSE 0) + Cardinality(Owners')
  BY Zenon DEF PmBalanced, Owners
<1> QED BY <1>1, <1>2, PmFacts, OwnersCard

-----------------------------------------------------------------------------
(* The invariant is inductive.                                             *)

\* The invariant holds initially.
LEMMA InitIInv == WfInit => WfIInv
<1> SUFFICES ASSUME WfInit PROVE WfIInv
  BY Zenon
<1>1. Holders = {} /\ Releasers = {} /\ Owners = {}
  BY Zenon DEF WfInit, Holders, Releasers, Owners
<1>2. Cardinality({}) = 0
  BY FS_EmptySet, Zenon
<1>3. WfTypeOK
  <2>1. /\ place \in [Procs -> {"idle"}]
        /\ own \in [Procs -> BOOLEAN]
    BY Zenon DEF WfInit
  <2>2. count = 0 /\ rpm = 0 /\ ngets = 0 /\ ndefers = 0
    BY Zenon DEF WfInit
  <2>3. /\ count \in Nat /\ rpm \in Int
        /\ ngets \in 0..MaxGets /\ ndefers \in 0..MaxDefers
    BY <2>2, WfBoundsAssumption
  <2> QED BY <2>1, <2>3, Zenon DEF WfInit, WfTypeOK
<1>4. CountExact
  BY <1>1, <1>2, Zenon DEF WfInit, CountExact
<1>5. OneReleaser
  BY <1>1, Zenon DEF OneReleaser
<1>6. MutexInv
  BY NamesAssumption, Zenon DEF WfInit, MutexInv
<1>7. OwnInv
  BY Zenon DEF WfInit, OwnInv
<1>8. ActiveInv
  BY <1>1, Zenon DEF WfInit, ActiveInv
<1>9. RetireInv
  BY Zenon DEF WfInit, RetireInv, Procs
<1>10. PmBalanced
  BY <1>1, <1>2, PmFacts DEF WfInit
<1> QED
  BY <1>3, <1>4, <1>5, <1>6, <1>7, <1>8, <1>9, <1>10, Zenon DEF WfIInv

\* A user takes a reference of an active wakeref.
LEMMA GetIInv ==
    ASSUME WfIInv, NEW u \in Users, Get(u)
    PROVE  WfIInv'
<1> USE DEF WfIInv
<1>0. u \in Procs /\ Work \notin Procs /\ Nobody \notin Procs
      /\ Retire \in Procs /\ Worker \in Procs
      /\ u # Retire
  BY NamesAssumption, Zenon DEF Procs
<1>1. WfIInv'
  <2>1. /\ place[u] = "idle" /\ place'[u] = "held"
        /\ \A q \in Procs \ {u} : place'[q] = place[q]
    BY <1>0, Zenon DEF Get, WfTypeOK
  <2>2. u \notin Holders /\ Holders' = Holders \cup {u}
    BY <1>0, <2>1, Zenon DEF Holders, Get
  <2>3. CountExact'
    BY <2>2, CountUp, Zenon DEF Get
  <2>4. OneReleaser'
    <3>1. Releasers' \subseteq Releasers
      BY <1>0, <2>1, Zenon DEF Releasers, Get
    <3> QED BY <3>1, Zenon DEF OneReleaser
  <2>5. MutexInv'
    BY <1>0, <2>1, Zenon DEF MutexInv, Get
  <2>6. OwnInv'
    BY <1>0, <2>1, Zenon DEF OwnInv, WfTypeOK, Get
  <2>7. RetireInv'
    BY <1>0, <2>1, Zenon DEF RetireInv, Get
  <2>8. ActiveInv'
    BY <1>0, <2>1, <2>2, <2>3, CountFacts, CountNext
    DEF ActiveInv, MutexInv, Get
  <2>9. PmBalanced'
    BY <1>0, <2>1, PmSame, Zenon DEF Get
  <2>10. WfTypeOK'
    BY <1>0, <2>3, CountNext, WfBoundsAssumption
    DEF WfTypeOK, Get, WokenWaiter, bounds
  <2> QED BY <2>2, <2>3, <2>4, <2>5, <2>6, <2>7, <2>8, <2>9, <2>10, Zenon
<1> QED BY <1>1, Zenon

\* A user finds no reference and takes one of the layer below.
LEMMA GetFirstIInv ==
    ASSUME WfIInv, NEW u \in Users, GetFirst(u)
    PROVE  WfIInv'
<1> USE DEF WfIInv
<1>0. u \in Procs /\ Work \notin Procs /\ Nobody \notin Procs
      /\ Retire \in Procs /\ Worker \in Procs
      /\ u # Retire
  BY NamesAssumption, Zenon DEF Procs
<1>1. WfIInv'
  <2>1. /\ place[u] = "idle" /\ place'[u] = "first"
        /\ \A q \in Procs \ {u} : place'[q] = place[q]
    BY <1>0, Zenon DEF GetFirst, WfTypeOK
  <2>2. Holders' = Holders
    BY <1>0, <2>1, Zenon DEF Holders, GetFirst
  <2>3. CountExact'
    BY <2>2, CountSame, Zenon DEF GetFirst
  <2>4. OneReleaser'
    <3>1. Releasers' \subseteq Releasers
      BY <1>0, <2>1, Zenon DEF Releasers, GetFirst
    <3> QED BY <3>1, Zenon DEF OneReleaser
  <2>5. MutexInv'
    BY <1>0, <2>1, Zenon DEF MutexInv, GetFirst
  <2>6. OwnInv'
    BY <1>0, <2>1, Zenon DEF OwnInv, WfTypeOK, GetFirst
  <2>7. RetireInv'
    BY <1>0, <2>1, Zenon DEF RetireInv, GetFirst
  <2>8. ActiveInv'
    BY <1>0, <2>1, <2>2, <2>3, CountFacts, CountNext, Zenon
    DEF ActiveInv, MutexInv, GetFirst
  <2>9. PmBalanced'
    <3>1. u \notin Owners /\ Owners' = Owners \cup {u}
      BY <1>0, <2>1, Zenon DEF Owners, OwnInv, GetFirst, WfTypeOK
    <3> QED BY <1>0, <3>1, PmFirst, Zenon DEF GetFirst
  <2>10. WfTypeOK'
    BY <1>0, <2>3, CountNext, WfBoundsAssumption
    DEF WfTypeOK, GetFirst, WokenWaiter, bounds
  <2> QED BY <2>2, <2>3, <2>4, <2>5, <2>6, <2>7, <2>8, <2>9, <2>10, Zenon
<1> QED BY <1>1, Zenon

\* The mutex is locked for the first reference.
LEMMA FirstLockIInv ==
    ASSUME WfIInv, NEW u \in Users, FirstLock(u)
    PROVE  WfIInv'
<1> USE DEF WfIInv
<1>0. u \in Procs /\ Work \notin Procs /\ Nobody \notin Procs
      /\ Retire \in Procs /\ Worker \in Procs
      /\ u # Retire
  BY NamesAssumption, Zenon DEF Procs
<1>1. CASE count = 0
  <2>1. /\ place[u] = "first" /\ place'[u] = "unpark"
        /\ \A q \in Procs \ {u} : place'[q] = place[q]
    BY <1>1, <1>0, Zenon DEF FirstLock, WfTypeOK
  <2>2. Holders' = Holders
    BY <1>1, <1>0, <2>1, Zenon DEF Holders, FirstLock
  <2>3. CountExact'
    BY <1>1, <2>2, CountSame, Zenon DEF FirstLock
  <2>4. OneReleaser'
    <3>1. Releasers' \subseteq Releasers
      BY <1>1, <1>0, <2>1, Zenon DEF Releasers, FirstLock
    <3> QED BY <3>1, Zenon DEF OneReleaser
  <2>5. MutexInv'
    BY <1>1, <1>0, <2>1, Zenon DEF MutexInv, FirstLock
  <2>6. OwnInv'
    BY <1>1, <1>0, <2>1, Zenon DEF OwnInv, WfTypeOK, FirstLock
  <2>7. RetireInv'
    BY <1>1, <1>0, <2>1, Zenon DEF RetireInv, FirstLock
  <2>8. ActiveInv'
    BY <1>1, <1>0, <2>1, <2>2, <2>3, CountFacts, CountNext, Zenon
    DEF ActiveInv, MutexInv, FirstLock
  <2>9. PmBalanced'
    <3>1. u \in Owners /\ Owners' = Owners \ {u}
      BY <1>1, <1>0, <2>1, Zenon DEF Owners, OwnInv, FirstLock, WfTypeOK
    <3>2. ~active
      BY <1>1, <1>0, <2>1, CountFacts, Zenon DEF ActiveInv, MutexInv, FirstLock
    <3> QED BY <1>1, <1>0, <3>1, <3>2, PmGive, Zenon DEF FirstLock
  <2>10. WfTypeOK'
    BY <1>1, <1>0, <2>3, CountNext, WfBoundsAssumption, Zenon
    DEF WfTypeOK, FirstLock, WokenWaiter, bounds
  <2> QED BY <2>2, <2>3, <2>4, <2>5, <2>6, <2>7, <2>8, <2>9, <2>10, Zenon
<1>2. CASE count # 0
  <2>1. /\ place[u] = "first" /\ place'[u] = "inc"
        /\ \A q \in Procs \ {u} : place'[q] = place[q]
    BY <1>2, <1>0, Zenon DEF FirstLock, WfTypeOK
  <2>2. Holders' = Holders
    BY <1>2, <1>0, <2>1, Zenon DEF Holders, FirstLock
  <2>3. CountExact'
    BY <1>2, <2>2, CountSame, Zenon DEF FirstLock
  <2>4. OneReleaser'
    <3>1. Releasers' \subseteq Releasers
      BY <1>2, <1>0, <2>1, Zenon DEF Releasers, FirstLock
    <3> QED BY <3>1, Zenon DEF OneReleaser
  <2>5. MutexInv'
    BY <1>2, <1>0, <2>1, Zenon DEF MutexInv, FirstLock
  <2>6. OwnInv'
    BY <1>2, <1>0, <2>1, Zenon DEF OwnInv, WfTypeOK, FirstLock
  <2>7. RetireInv'
    BY <1>2, <1>0, <2>1, Zenon DEF RetireInv, FirstLock
  <2>8. ActiveInv'
    BY <1>2, <1>0, <2>1, <2>2, <2>3, CountFacts, CountNext, Zenon
    DEF ActiveInv, MutexInv, FirstLock
  <2>9. PmBalanced'
    BY <1>2, <1>0, <2>1, PmSame, Zenon DEF FirstLock
  <2>10. WfTypeOK'
    BY <1>2, <1>0, <2>3, CountNext, WfBoundsAssumption, Zenon
    DEF WfTypeOK, FirstLock, WokenWaiter, bounds
  <2> QED BY <2>2, <2>3, <2>4, <2>5, <2>6, <2>7, <2>8, <2>9, <2>10, Zenon
<1> QED BY <1>1, <1>2, <1>0, Zenon DEF FirstLock

\* The unpark callback succeeds or fails.
LEMMA UnparkIInv ==
    ASSUME WfIInv, NEW u \in Users, UnparkDevice(u)
    PROVE  WfIInv'
<1> USE DEF WfIInv
<1>0. u \in Procs /\ Work \notin Procs /\ Nobody \notin Procs
      /\ Retire \in Procs /\ Worker \in Procs
      /\ u # Retire
  BY NamesAssumption, Zenon DEF Procs
<1>1. CASE parked' = FALSE /\ place' = [place EXCEPT ![u] = "inc"] /\ UNCHANGED
   <<active, own, waiter>>
  <2>1. /\ place[u] = "unpark" /\ place'[u] = "inc"
        /\ \A q \in Procs \ {u} : place'[q] = place[q]
    BY <1>1, <1>0, Zenon DEF UnparkDevice, WfTypeOK
  <2>2. Holders' = Holders
    BY <1>1, <1>0, <2>1, Zenon DEF Holders, UnparkDevice
  <2>3. CountExact'
    BY <1>1, <2>2, CountSame, Zenon DEF UnparkDevice
  <2>4. OneReleaser'
    <3>1. Releasers' \subseteq Releasers
      BY <1>1, <1>0, <2>1, Zenon DEF Releasers, UnparkDevice
    <3> QED BY <3>1, Zenon DEF OneReleaser
  <2>5. MutexInv'
    BY <1>1, <1>0, <2>1, Zenon DEF MutexInv, UnparkDevice
  <2>6. OwnInv'
    BY <1>1, <1>0, <2>1, Zenon DEF OwnInv, WfTypeOK, UnparkDevice
  <2>7. RetireInv'
    BY <1>1, <1>0, <2>1, Zenon DEF RetireInv, UnparkDevice
  <2>8. ActiveInv'
    BY <1>1, <1>0, <2>1, <2>2, <2>3, CountFacts, CountNext, Zenon
    DEF ActiveInv, MutexInv, UnparkDevice
  <2>9. PmBalanced'
    BY <1>1, <1>0, <2>1, PmSame, Zenon DEF UnparkDevice
  <2>10. WfTypeOK'
    BY <1>1, <1>0, <2>3, CountNext, WfBoundsAssumption, Zenon
    DEF WfTypeOK, UnparkDevice, WokenWaiter, bounds
  <2> QED BY <2>2, <2>3, <2>4, <2>5, <2>6, <2>7, <2>8, <2>9, <2>10, Zenon
<1>2. CASE active' = FALSE /\ own' = [own EXCEPT ![u] = TRUE] /\ waiter' = WokenWaiter
   /\ place' = [place EXCEPT ![u] = "unlock"] /\ UNCHANGED parked
  <2>1. /\ place[u] = "unpark" /\ place'[u] = "unlock"
        /\ \A q \in Procs \ {u} : place'[q] = place[q]
    BY <1>2, <1>0, Zenon DEF UnparkDevice, WfTypeOK
  <2>2. Holders' = Holders
    BY <1>2, <1>0, <2>1, Zenon DEF Holders, UnparkDevice
  <2>3. CountExact'
    BY <1>2, <2>2, CountSame, Zenon DEF UnparkDevice
  <2>4. OneReleaser'
    <3>1. Releasers' \subseteq Releasers
      BY <1>2, <1>0, <2>1, Zenon DEF Releasers, UnparkDevice
    <3> QED BY <3>1, Zenon DEF OneReleaser
  <2>5. MutexInv'
    BY <1>2, <1>0, <2>1, Zenon DEF MutexInv, UnparkDevice
  <2>6. OwnInv'
    BY <1>2, <1>0, <2>1, Zenon DEF OwnInv, WfTypeOK, UnparkDevice
  <2>7. RetireInv'
    BY <1>2, <1>0, <2>1, Zenon DEF RetireInv, UnparkDevice
  <2>8. ActiveInv'
    BY <1>2, <1>0, <2>1, <2>2, <2>3, CountFacts, CountNext, ZenonT(60)
    DEF ActiveInv, MutexInv, UnparkDevice
  <2>9. PmBalanced'
    <3>1. u \notin Owners /\ Owners' = Owners \cup {u}
      BY <1>2, <1>0, <2>1, ZenonT(60) DEF Owners, OwnInv, UnparkDevice, WfTypeOK
    <3>2. active
      BY <1>2, <1>0, <2>1, Zenon DEF ActiveInv
    <3> QED BY <1>2, <1>0, <3>1, <3>2, PmTake, Zenon DEF UnparkDevice
  <2>10. WfTypeOK'
    BY <1>2, <1>0, <2>3, CountNext, WfBoundsAssumption, Zenon
    DEF WfTypeOK, UnparkDevice, WokenWaiter, bounds
  <2> QED BY <2>2, <2>3, <2>4, <2>5, <2>6, <2>7, <2>8, <2>9, <2>10, Zenon
<1> QED BY <1>1, <1>2, <1>0, Zenon DEF UnparkDevice

\* The first reference is counted.
LEMMA FirstIncIInv ==
    ASSUME WfIInv, NEW u \in Users, FirstInc(u)
    PROVE  WfIInv'
<1> USE DEF WfIInv
<1>0. u \in Procs /\ Work \notin Procs /\ Nobody \notin Procs
      /\ Retire \in Procs /\ Worker \in Procs
      /\ u # Retire
  BY NamesAssumption, Zenon DEF Procs
<1>1. WfIInv'
  <2>1. /\ place[u] = "inc" /\ place'[u] = "unlock_held"
        /\ \A q \in Procs \ {u} : place'[q] = place[q]
    BY <1>0, Zenon DEF FirstInc, WfTypeOK
  <2>2. u \notin Holders /\ Holders' = Holders \cup {u}
    BY <1>0, <2>1, Zenon DEF Holders, FirstInc
  <2>3. CountExact'
    BY <2>2, CountUp, Zenon DEF FirstInc
  <2>4. OneReleaser'
    <3>1. Releasers' \subseteq Releasers
      BY <1>0, <2>1, Zenon DEF Releasers, FirstInc
    <3> QED BY <3>1, Zenon DEF OneReleaser
  <2>5. MutexInv'
    BY <1>0, <2>1, Zenon DEF MutexInv, FirstInc
  <2>6. OwnInv'
    BY <1>0, <2>1, Zenon DEF OwnInv, WfTypeOK, FirstInc
  <2>7. RetireInv'
    BY <1>0, <2>1, Zenon DEF RetireInv, FirstInc
  <2>8. ActiveInv'
    BY <1>0, <2>1, <2>2, <2>3, CountFacts, CountNext, ZenonT(60)
    DEF ActiveInv, MutexInv, FirstInc
  <2>9. PmBalanced'
    BY <1>0, <2>1, PmSame, Zenon DEF FirstInc
  <2>10. WfTypeOK'
    BY <1>0, <2>3, CountNext, WfBoundsAssumption, Zenon
    DEF WfTypeOK, FirstInc, WokenWaiter, bounds
  <2> QED BY <2>2, <2>3, <2>4, <2>5, <2>6, <2>7, <2>8, <2>9, <2>10, Zenon
<1> QED BY <1>1, Zenon

\* The mutex is unlocked and a local reference given back.
LEMMA UnlockIInv ==
    ASSUME WfIInv, NEW p \in Procs, Unlock(p)
    PROVE  WfIInv'
<1> USE DEF WfIInv
<1>0. p \in Procs /\ Work \notin Procs /\ Nobody \notin Procs
      /\ Retire \in Procs /\ Worker \in Procs
  BY NamesAssumption, Zenon DEF Procs
<1>1. CASE place[p] = "unlock"
  <2>1. /\ place[p] = "unlock" /\ place'[p] = "idle"
        /\ \A q \in Procs \ {p} : place'[q] = place[q]
    BY <1>1, <1>0, Zenon DEF Unlock, WfTypeOK
  <2>2. Holders' = Holders
    BY <1>1, <1>0, <2>1, Zenon DEF Holders, Unlock
  <2>3. CountExact'
    BY <1>1, <2>2, CountSame, Zenon DEF Unlock
  <2>4. OneReleaser'
    <3>1. Releasers' \subseteq Releasers
      BY <1>1, <1>0, <2>1, Zenon DEF Releasers, Unlock
    <3> QED BY <3>1, Zenon DEF OneReleaser
  <2>5. MutexInv'
    BY <1>1, <1>0, <2>1, Zenon DEF MutexInv, Unlock
  <2>6. OwnInv'
    BY <1>1, <1>0, <2>1, Zenon DEF OwnInv, WfTypeOK, Unlock
  <2>7. RetireInv'
    BY <1>1, <1>0, <2>1, Zenon DEF RetireInv, Unlock
  <2>8. ActiveInv'
    BY <1>1, <1>0, <2>1, <2>2, <2>3, CountFacts, CountNext, ZenonT(60)
    DEF ActiveInv, MutexInv, Unlock
  <2>9. PmBalanced'
    <3>1. CASE own[p]
      <4>1. p \in Owners /\ Owners' = Owners \ {p}
        BY <1>1, <1>0, <3>1, Zenon DEF Owners, Unlock, WfTypeOK
      <4> QED BY <1>1, <3>1, <4>1, PmPut, Zenon DEF Unlock
    <3>2. CASE ~own[p]
      <4>1. Owners' = Owners
        BY <1>1, <1>0, <3>2, Zenon DEF Owners, Unlock, WfTypeOK
      <4>2. rpm' = rpm /\ active' = active
        BY <1>1, <3>2, Zenon DEF Unlock
      <4>3. PmBalanced' <=> rpm' = (IF active' THEN 1 ELSE 0)
                                  + Cardinality(Owners')
        BY Zenon DEF PmBalanced, Owners
      <4> QED BY <4>1, <4>2, <4>3, PmFacts, Zenon
    <3> QED BY <3>1, <3>2, Zenon
  <2>10. WfTypeOK'
    BY <1>1, <1>0, <2>3, CountNext, WfBoundsAssumption, SMTT(40)
    DEF WfTypeOK, Unlock, WokenWaiter, bounds
  <2> QED BY <2>2, <2>3, <2>4, <2>5, <2>6, <2>7, <2>8, <2>9, <2>10, Zenon
<1>2. CASE place[p] = "unlock_held"
  <2>1. /\ place[p] = "unlock_held" /\ place'[p] = "held"
        /\ \A q \in Procs \ {p} : place'[q] = place[q]
    BY <1>2, <1>0, Zenon DEF Unlock, WfTypeOK
  <2>2. Holders' = Holders
    BY <1>2, <1>0, <2>1, Zenon DEF Holders, Unlock
  <2>3. CountExact'
    BY <1>2, <2>2, CountSame, Zenon DEF Unlock
  <2>4. OneReleaser'
    <3>1. Releasers' \subseteq Releasers
      BY <1>2, <1>0, <2>1, Zenon DEF Releasers, Unlock
    <3> QED BY <3>1, Zenon DEF OneReleaser
  <2>5. MutexInv'
    BY <1>2, <1>0, <2>1, Zenon DEF MutexInv, Unlock
  <2>6. OwnInv'
    BY <1>2, <1>0, <2>1, Zenon DEF OwnInv, WfTypeOK, Unlock
  <2>7. RetireInv'
    BY <1>2, <1>0, <2>1, Zenon DEF RetireInv, Unlock
  <2>8. ActiveInv'
    BY <1>2, <1>0, <2>1, <2>2, <2>3, CountFacts, CountNext, Zenon
    DEF ActiveInv, MutexInv, Unlock
  <2>9. PmBalanced'
    <3>1. CASE own[p]
      <4>1. p \in Owners /\ Owners' = Owners \ {p}
        BY <1>2, <1>0, <3>1, Zenon DEF Owners, Unlock, WfTypeOK
      <4> QED BY <1>2, <3>1, <4>1, PmPut, Zenon DEF Unlock
    <3>2. CASE ~own[p]
      <4>1. Owners' = Owners
        BY <1>2, <1>0, <3>2, Zenon DEF Owners, Unlock, WfTypeOK
      <4>2. rpm' = rpm /\ active' = active
        BY <1>2, <3>2, Zenon DEF Unlock
      <4>3. PmBalanced' <=> rpm' = (IF active' THEN 1 ELSE 0)
                                  + Cardinality(Owners')
        BY Zenon DEF PmBalanced, Owners
      <4> QED BY <4>1, <4>2, <4>3, PmFacts, Zenon
    <3> QED BY <3>1, <3>2, Zenon
  <2>10. WfTypeOK'
    BY <1>2, <1>0, <2>3, CountNext, WfBoundsAssumption
    DEF WfTypeOK, Unlock, WokenWaiter, bounds
  <2> QED BY <2>2, <2>3, <2>4, <2>5, <2>6, <2>7, <2>8, <2>9, <2>10, Zenon
<1> QED BY <1>1, <1>2, <1>0, Zenon DEF Unlock

\* A reference is put.
LEMMA PutIInv ==
    ASSUME WfIInv, NEW p \in Procs, Put(p)
    PROVE  WfIInv'
<1> USE DEF WfIInv
<1>0. p \in Procs /\ Work \notin Procs /\ Nobody \notin Procs
      /\ Retire \in Procs /\ Worker \in Procs
  BY NamesAssumption, Zenon DEF Procs
<1>1. CASE count # 1
  <2>1. /\ place[p] = "held" /\ place'[p] = "idle"
        /\ \A q \in Procs \ {p} : place'[q] = place[q]
    BY <1>1, <1>0, Zenon DEF Put, WfTypeOK
  <2>2. p \in Holders /\ Holders' = Holders \ {p}
    BY <1>1, <1>0, <2>1, Zenon DEF Holders, Put
  <2>3. CountExact'
    BY <1>1, <2>2, CountDown, Zenon DEF Put
  <2>4. OneReleaser'
    <3>1. Releasers' \subseteq Releasers
      BY <1>1, <1>0, <2>1, Zenon DEF Releasers, Put
    <3> QED BY <3>1, Zenon DEF OneReleaser
  <2>5. MutexInv'
    BY <1>1, <1>0, <2>1, Zenon DEF MutexInv, Put
  <2>6. OwnInv'
    BY <1>1, <1>0, <2>1, Zenon DEF OwnInv, WfTypeOK, Put
  <2>7. RetireInv'
    BY <1>1, <1>0, <2>1, Zenon DEF RetireInv, Put
  <2>8. ActiveInv'
    BY <1>1, <1>0, <2>1, <2>2, <2>3, CountFacts, CountNext, Zenon
    DEF ActiveInv, MutexInv, Put
  <2>9. PmBalanced'
    BY <1>1, <1>0, <2>1, PmSame, Zenon DEF Put
  <2>10. WfTypeOK'
    BY <1>1, <1>0, <2>3, CountNext, WfBoundsAssumption, Zenon
    DEF WfTypeOK, Put, WokenWaiter, bounds
  <2> QED BY <2>2, <2>3, <2>4, <2>5, <2>6, <2>7, <2>8, <2>9, <2>10, Zenon
<1>2. CASE count = 1
  <2>1. /\ place[p] = "held" /\ place'[p] = "put_last"
        /\ \A q \in Procs \ {p} : place'[q] = place[q]
    BY <1>2, <1>0, Zenon DEF Put, WfTypeOK
  <2>2. Holders' = Holders
    BY <1>2, <1>0, <2>1, Zenon DEF Holders, Put
  <2>3. CountExact'
    BY <1>2, <2>2, CountSame, Zenon DEF Put
  <2>4. OneReleaser'
    <3>1. Holders = {p}
      BY <1>2, <1>0, <2>1, CountFacts, Zenon DEF Holders
    <3>2. Releasers' \subseteq {p}
      BY <1>2, <1>0, <2>1, <3>1, Zenon DEF Releasers, Holders, Put
    <3> QED BY <3>2, Zenon DEF OneReleaser
  <2>5. MutexInv'
    BY <1>2, <1>0, <2>1, Zenon DEF MutexInv, Put
  <2>6. OwnInv'
    BY <1>2, <1>0, <2>1, Zenon DEF OwnInv, WfTypeOK, Put
  <2>7. RetireInv'
    BY <1>2, <1>0, <2>1, Zenon DEF RetireInv, Put
  <2>8. ActiveInv'
    BY <1>2, <1>0, <2>1, <2>2, <2>3, CountFacts, CountNext, Zenon
    DEF ActiveInv, MutexInv, Put
  <2>9. PmBalanced'
    BY <1>2, <1>0, <2>1, PmSame, Zenon DEF Put
  <2>10. WfTypeOK'
    BY <1>2, <1>0, <2>3, CountNext, WfBoundsAssumption, Zenon
    DEF WfTypeOK, Put, WokenWaiter, bounds
  <2> QED BY <2>2, <2>3, <2>4, <2>5, <2>6, <2>7, <2>8, <2>9, <2>10, Zenon
<1> QED BY <1>1, <1>2, <1>0, Zenon DEF Put

\* The work item takes the last reference over.
LEMMA PutQueueIInv ==
    ASSUME WfIInv, NEW p \in Procs, PutQueue(p)
    PROVE  WfIInv'
<1> USE DEF WfIInv
<1>0. p \in Procs /\ Work \notin Procs /\ Nobody \notin Procs
      /\ Retire \in Procs /\ Worker \in Procs
  BY NamesAssumption, Zenon DEF Procs
<1>1. WfIInv'
  <2>1. /\ place[p] = "put_last" /\ place'[p] = "idle"
        /\ \A q \in Procs \ {p} : place'[q] = place[q]
    BY <1>0, Zenon DEF PutQueue, WfTypeOK
  <2>2. /\ p \in Holders /\ Work \notin Holders
        /\ Holders' = (Holders \ {p}) \cup {Work}
    <3>1. ~work
      BY <1>0, <2>1 DEF OneReleaser, Releasers
    <3> QED BY <1>0, <2>1, <3>1, Zenon DEF Holders, PutQueue
  <2>3. CountExact'
    BY <2>2, CountMove, Zenon DEF PutQueue
  <2>4. OneReleaser'
    <3>1. Releasers \subseteq {p}
      BY <1>0, <2>1, Zenon DEF Releasers, OneReleaser, PutQueue
    <3>2. Releasers' \subseteq {Work}
      BY <1>0, <2>1, <3>1, Zenon DEF Releasers, PutQueue
    <3> QED BY <3>2, Zenon DEF OneReleaser
  <2>5. MutexInv'
    BY <1>0, <2>1, Zenon DEF MutexInv, PutQueue
  <2>6. OwnInv'
    BY <1>0, <2>1, Zenon DEF OwnInv, WfTypeOK, PutQueue
  <2>7. RetireInv'
    BY <1>0, <2>1, Zenon DEF RetireInv, PutQueue
  <2>8. ActiveInv'
    BY <1>0, <2>1, <2>2, <2>3, CountFacts, CountNext, Zenon
    DEF ActiveInv, MutexInv, PutQueue
  <2>9. PmBalanced'
    BY <1>0, <2>1, PmSame, Zenon DEF PutQueue
  <2>10. WfTypeOK'
    BY <1>0, <2>3, CountNext, WfBoundsAssumption, Zenon
    DEF WfTypeOK, PutQueue, WokenWaiter, bounds
  <2> QED BY <2>2, <2>3, <2>4, <2>5, <2>6, <2>7, <2>8, <2>9, <2>10, Zenon
<1> QED BY <1>1, Zenon

\* The mutex is locked to put the last reference.
LEMMA PutTrylockIInv ==
    ASSUME WfIInv, NEW u \in Users, PutTrylock(u)
    PROVE  WfIInv'
<1> USE DEF WfIInv
<1>0. u \in Procs /\ Work \notin Procs /\ Nobody \notin Procs
      /\ Retire \in Procs /\ Worker \in Procs
      /\ u # Retire
  BY NamesAssumption, Zenon DEF Procs
<1>1. WfIInv'
  <2>1. /\ place[u] = "put_last" /\ place'[u] = "last"
        /\ \A q \in Procs \ {u} : place'[q] = place[q]
    BY <1>0, Zenon DEF PutTrylock, WfTypeOK
  <2>2. Holders' = Holders
    BY <1>0, <2>1, Zenon DEF Holders, PutTrylock
  <2>3. CountExact'
    BY <2>2, CountSame, Zenon DEF PutTrylock
  <2>4. OneReleaser'
    <3>1. Releasers' \subseteq Releasers
      BY <1>0, <2>1, Zenon DEF Releasers, PutTrylock
    <3> QED BY <3>1, Zenon DEF OneReleaser
  <2>5. MutexInv'
    BY <1>0, <2>1, Zenon DEF MutexInv, PutTrylock
  <2>6. OwnInv'
    BY <1>0, <2>1, Zenon DEF OwnInv, WfTypeOK, PutTrylock
  <2>7. RetireInv'
    BY <1>0, <2>1, Zenon DEF RetireInv, PutTrylock
  <2>8. ActiveInv'
    BY <1>0, <2>1, <2>2, <2>3, CountFacts, CountNext, Zenon
    DEF ActiveInv, MutexInv, PutTrylock
  <2>9. PmBalanced'
    BY <1>0, <2>1, PmSame, Zenon DEF PutTrylock
  <2>10. WfTypeOK'
    BY <1>0, <2>3, CountNext, WfBoundsAssumption, Zenon
    DEF WfTypeOK, PutTrylock, WokenWaiter, bounds
  <2> QED BY <2>2, <2>3, <2>4, <2>5, <2>6, <2>7, <2>8, <2>9, <2>10, Zenon
<1> QED BY <1>1, Zenon

\* The work item begins to run.
LEMMA WorkStartIInv == WfIInv /\ WorkStart => WfIInv'
<1> SUFFICES ASSUME WfIInv, WorkStart PROVE WfIInv'
  BY Zenon
<1> USE DEF WfIInv
<1>0. Worker \in Procs /\ Work \notin Procs /\ Nobody \notin Procs
      /\ Retire \in Procs /\ Worker \in Procs
      /\ Worker # Retire
  BY NamesAssumption, Zenon DEF Procs
<1>1. WfIInv'
  <2>1. /\ place[Worker] = "idle" /\ place'[Worker] = "work"
        /\ \A q \in Procs \ {Worker} : place'[q] = place[q]
    BY <1>0, Zenon DEF WorkStart, WfTypeOK
  <2>2. /\ Work \in Holders /\ Worker \notin Holders
        /\ Holders' = (Holders \ {Work}) \cup {Worker}
    BY <1>0, <2>1, Zenon DEF Holders, WorkStart
  <2>3. CountExact'
    BY <2>2, CountMove, Zenon DEF WorkStart
  <2>4. OneReleaser'
    <3>1. Releasers \subseteq {Work}
      BY <1>0, <2>1, Zenon DEF Releasers, OneReleaser, WorkStart
    <3>2. Releasers' \subseteq {Worker}
      BY <1>0, <2>1, <3>1, Zenon DEF Releasers, WorkStart
    <3> QED BY <3>2, Zenon DEF OneReleaser
  <2>5. MutexInv'
    BY <1>0, <2>1, Zenon DEF MutexInv, WorkStart
  <2>6. OwnInv'
    BY <1>0, <2>1, Zenon DEF OwnInv, WfTypeOK, WorkStart
  <2>7. RetireInv'
    BY <1>0, <2>1, Zenon DEF RetireInv, WorkStart
  <2>8. ActiveInv'
    BY <1>0, <2>1, <2>2, <2>3, CountFacts, CountNext, Zenon
    DEF ActiveInv, MutexInv, WorkStart
  <2>9. PmBalanced'
    BY <1>0, <2>1, PmSame, Zenon DEF WorkStart
  <2>10. WfTypeOK'
    BY <1>0, <2>3, CountNext, WfBoundsAssumption, Zenon
    DEF WfTypeOK, WorkStart, WokenWaiter, bounds
  <2> QED BY <2>2, <2>3, <2>4, <2>5, <2>6, <2>7, <2>8, <2>9, <2>10, Zenon
<1> QED BY <1>1, Zenon

\* The work item puts its reference.
LEMMA WorkPutIInv == WfIInv /\ WorkPut => WfIInv'
<1> SUFFICES ASSUME WfIInv, WorkPut PROVE WfIInv'
  BY Zenon
<1> USE DEF WfIInv
<1>0. Worker \in Procs /\ Work \notin Procs /\ Nobody \notin Procs
      /\ Retire \in Procs /\ Worker \in Procs
      /\ Worker # Retire
  BY NamesAssumption, Zenon DEF Procs
<1>1. CASE count # 1
  <2>1. /\ place[Worker] = "work" /\ place'[Worker] = "idle"
        /\ \A q \in Procs \ {Worker} : place'[q] = place[q]
    BY <1>1, <1>0, Zenon DEF WorkPut, WfTypeOK
  <2>2. Worker \in Holders /\ Holders' = Holders \ {Worker}
    BY <1>1, <1>0, <2>1, Zenon DEF Holders, WorkPut
  <2>3. CountExact'
    BY <1>1, <2>2, CountDown, Zenon DEF WorkPut
  <2>4. OneReleaser'
    <3>1. Releasers' \subseteq Releasers
      BY <1>1, <1>0, <2>1, Zenon DEF Releasers, WorkPut
    <3> QED BY <3>1, Zenon DEF OneReleaser
  <2>5. MutexInv'
    BY <1>1, <1>0, <2>1, Zenon DEF MutexInv, WorkPut
  <2>6. OwnInv'
    BY <1>1, <1>0, <2>1, Zenon DEF OwnInv, WfTypeOK, WorkPut
  <2>7. RetireInv'
    BY <1>1, <1>0, <2>1, Zenon DEF RetireInv, WorkPut
  <2>8. ActiveInv'
    BY <1>1, <1>0, <2>1, <2>2, <2>3, CountFacts, CountNext, Zenon
    DEF ActiveInv, MutexInv, WorkPut
  <2>9. PmBalanced'
    BY <1>1, <1>0, <2>1, PmSame, Zenon DEF WorkPut
  <2>10. WfTypeOK'
    BY <1>1, <1>0, <2>3, CountNext, WfBoundsAssumption, Zenon
    DEF WfTypeOK, WorkPut, WokenWaiter, bounds
  <2> QED BY <2>2, <2>3, <2>4, <2>5, <2>6, <2>7, <2>8, <2>9, <2>10, Zenon
<1>2. CASE count = 1
  <2>1. /\ place[Worker] = "work" /\ place'[Worker] = "lock"
        /\ \A q \in Procs \ {Worker} : place'[q] = place[q]
    BY <1>2, <1>0, Zenon DEF WorkPut, WfTypeOK
  <2>2. Holders' = Holders
    BY <1>2, <1>0, <2>1, Zenon DEF Holders, WorkPut
  <2>3. CountExact'
    BY <1>2, <2>2, CountSame, Zenon DEF WorkPut
  <2>4. OneReleaser'
    <3>1. Releasers' \subseteq Releasers
      BY <1>2, <1>0, <2>1, Zenon DEF Releasers, WorkPut
    <3> QED BY <3>1, Zenon DEF OneReleaser
  <2>5. MutexInv'
    BY <1>2, <1>0, <2>1, Zenon DEF MutexInv, WorkPut
  <2>6. OwnInv'
    BY <1>2, <1>0, <2>1, Zenon DEF OwnInv, WfTypeOK, WorkPut
  <2>7. RetireInv'
    BY <1>2, <1>0, <2>1, Zenon DEF RetireInv, WorkPut
  <2>8. ActiveInv'
    BY <1>2, <1>0, <2>1, <2>2, <2>3, CountFacts, CountNext, Zenon
    DEF ActiveInv, MutexInv, WorkPut
  <2>9. PmBalanced'
    BY <1>2, <1>0, <2>1, PmSame, Zenon DEF WorkPut
  <2>10. WfTypeOK'
    BY <1>2, <1>0, <2>3, CountNext, WfBoundsAssumption, ZenonT(60)
    DEF WfTypeOK, WorkPut, WokenWaiter, bounds
  <2> QED BY <2>2, <2>3, <2>4, <2>5, <2>6, <2>7, <2>8, <2>9, <2>10, Zenon
<1> QED BY <1>1, <1>2, <1>0, Zenon DEF WorkPut

\* The work item locks the mutex.
LEMMA WorkLockIInv == WfIInv /\ WorkLock => WfIInv'
<1> SUFFICES ASSUME WfIInv, WorkLock PROVE WfIInv'
  BY Zenon
<1> USE DEF WfIInv
<1>0. Worker \in Procs /\ Work \notin Procs /\ Nobody \notin Procs
      /\ Retire \in Procs /\ Worker \in Procs
      /\ Worker # Retire
  BY NamesAssumption, Zenon DEF Procs
<1>1. WfIInv'
  <2>1. /\ place[Worker] = "lock" /\ place'[Worker] = "last"
        /\ \A q \in Procs \ {Worker} : place'[q] = place[q]
    BY <1>0, Zenon DEF WorkLock, WfTypeOK
  <2>2. Holders' = Holders
    BY <1>0, <2>1, Zenon DEF Holders, WorkLock
  <2>3. CountExact'
    BY <2>2, CountSame, Zenon DEF WorkLock
  <2>4. OneReleaser'
    <3>1. Releasers' \subseteq Releasers
      BY <1>0, <2>1, Zenon DEF Releasers, WorkLock
    <3> QED BY <3>1, Zenon DEF OneReleaser
  <2>5. MutexInv'
    BY <1>0, <2>1, Zenon DEF MutexInv, WorkLock
  <2>6. OwnInv'
    BY <1>0, <2>1, Zenon DEF OwnInv, WfTypeOK, WorkLock
  <2>7. RetireInv'
    BY <1>0, <2>1, Zenon DEF RetireInv, WorkLock
  <2>8. ActiveInv'
    BY <1>0, <2>1, <2>2, <2>3, CountFacts, CountNext, Zenon
    DEF ActiveInv, MutexInv, WorkLock
  <2>9. PmBalanced'
    BY <1>0, <2>1, PmSame, Zenon DEF WorkLock
  <2>10. WfTypeOK'
    BY <1>0, <2>3, CountNext, WfBoundsAssumption, Zenon
    DEF WfTypeOK, WorkLock, WokenWaiter, bounds
  <2> QED BY <2>2, <2>3, <2>4, <2>5, <2>6, <2>7, <2>8, <2>9, <2>10, Zenon
<1> QED BY <1>1, Zenon

\* The reference is put under the mutex.
LEMMA LastIInv ==
    ASSUME WfIInv, NEW p \in Procs, PutLast(p)
    PROVE  WfIInv'
<1> USE DEF WfIInv
<1>0. p \in Procs /\ Work \notin Procs /\ Nobody \notin Procs
      /\ Retire \in Procs /\ Worker \in Procs
  BY NamesAssumption, Zenon DEF Procs
<1>1. CASE count = 1
  <2>1. /\ place[p] = "last" /\ place'[p] = "park"
        /\ \A q \in Procs \ {p} : place'[q] = place[q]
    BY <1>1, <1>0, Zenon DEF PutLast, WfTypeOK
  <2>2. p \in Holders /\ Holders' = Holders \ {p}
    BY <1>1, <1>0, <2>1, Zenon DEF Holders, PutLast
  <2>3. CountExact'
    BY <1>1, <2>2, CountDown, Zenon DEF PutLast
  <2>4. OneReleaser'
    <3>1. Releasers' \subseteq Releasers
      BY <1>1, <1>0, <2>1, Zenon DEF Releasers, PutLast
    <3> QED BY <3>1, Zenon DEF OneReleaser
  <2>5. MutexInv'
    BY <1>1, <1>0, <2>1, Zenon DEF MutexInv, PutLast
  <2>6. OwnInv'
    BY <1>1, <1>0, <2>1, Zenon DEF OwnInv, WfTypeOK, PutLast
  <2>7. RetireInv'
    BY <1>1, <1>0, <2>1, Zenon DEF RetireInv, PutLast
  <2>8. ActiveInv'
    BY <1>1, <1>0, <2>1, <2>2, <2>3, CountFacts, CountNext, Zenon
    DEF ActiveInv, MutexInv, PutLast
  <2>9. PmBalanced'
    BY <1>1, <1>0, <2>1, PmSame, Zenon DEF PutLast
  <2>10. WfTypeOK'
    BY <1>1, <1>0, <2>3, CountNext, WfBoundsAssumption, Zenon
    DEF WfTypeOK, PutLast, WokenWaiter, bounds
  <2> QED BY <2>2, <2>3, <2>4, <2>5, <2>6, <2>7, <2>8, <2>9, <2>10, Zenon
<1>2. CASE count # 1
  <2>1. /\ place[p] = "last" /\ place'[p] = "unlock"
        /\ \A q \in Procs \ {p} : place'[q] = place[q]
    BY <1>2, <1>0, Zenon DEF PutLast, WfTypeOK
  <2>2. p \in Holders /\ Holders' = Holders \ {p}
    BY <1>2, <1>0, <2>1, Zenon DEF Holders, PutLast
  <2>3. CountExact'
    BY <1>2, <2>2, CountDown, Zenon DEF PutLast
  <2>4. OneReleaser'
    <3>1. Releasers' \subseteq Releasers
      BY <1>2, <1>0, <2>1, Zenon DEF Releasers, PutLast
    <3> QED BY <3>1, Zenon DEF OneReleaser
  <2>5. MutexInv'
    BY <1>2, <1>0, <2>1, Zenon DEF MutexInv, PutLast
  <2>6. OwnInv'
    BY <1>2, <1>0, <2>1, Zenon DEF OwnInv, WfTypeOK, PutLast
  <2>7. RetireInv'
    BY <1>2, <1>0, <2>1, Zenon DEF RetireInv, PutLast
  <2>8. ActiveInv'
    BY <1>2, <1>0, <2>1, <2>2, <2>3, CountFacts, CountNext, Zenon
    DEF ActiveInv, MutexInv, PutLast
  <2>9. PmBalanced'
    BY <1>2, <1>0, <2>1, PmSame, Zenon DEF PutLast
  <2>10. WfTypeOK'
    BY <1>2, <1>0, <2>3, CountNext, WfBoundsAssumption, Zenon
    DEF WfTypeOK, PutLast, WokenWaiter, bounds
  <2> QED BY <2>2, <2>3, <2>4, <2>5, <2>6, <2>7, <2>8, <2>9, <2>10, Zenon
<1> QED BY <1>1, <1>2, <1>0, Zenon DEF PutLast

\* The park callback succeeds.
LEMMA ParkIInv ==
    ASSUME WfIInv, NEW p \in Procs, ParkDevice(p)
    PROVE  WfIInv'
<1> USE DEF WfIInv
<1>0. p \in Procs /\ Work \notin Procs /\ Nobody \notin Procs
      /\ Retire \in Procs /\ Worker \in Procs
  BY NamesAssumption, Zenon DEF Procs
<1>1. WfIInv'
  <2>1. /\ place[p] = "park" /\ place'[p] = "unlock"
        /\ \A q \in Procs \ {p} : place'[q] = place[q]
    BY <1>0, Zenon DEF ParkDevice, WfTypeOK
  <2>2. Holders' = Holders
    BY <1>0, <2>1, Zenon DEF Holders, ParkDevice
  <2>3. CountExact'
    BY <2>2, CountSame, Zenon DEF ParkDevice
  <2>4. OneReleaser'
    <3>1. Releasers' \subseteq Releasers
      BY <1>0, <2>1, Zenon DEF Releasers, ParkDevice
    <3> QED BY <3>1, Zenon DEF OneReleaser
  <2>5. MutexInv'
    BY <1>0, <2>1, Zenon DEF MutexInv, ParkDevice
  <2>6. OwnInv'
    BY <1>0, <2>1, Zenon DEF OwnInv, WfTypeOK, ParkDevice
  <2>7. RetireInv'
    BY <1>0, <2>1, Zenon DEF RetireInv, ParkDevice
  <2>8. ActiveInv'
    BY <1>0, <2>1, <2>2, <2>3, CountFacts, CountNext, Zenon
    DEF ActiveInv, MutexInv, ParkDevice
  <2>9. PmBalanced'
    <3>1. p \notin Owners /\ Owners' = Owners \cup {p}
      BY <1>0, <2>1, ZenonT(60) DEF Owners, OwnInv, ParkDevice, WfTypeOK
    <3>2. active
      BY <1>0, <2>1, Zenon DEF ActiveInv
    <3> QED BY <1>0, <3>1, <3>2, PmTake, Zenon DEF ParkDevice
  <2>10. WfTypeOK'
    BY <1>0, <2>3, CountNext, WfBoundsAssumption, Zenon
    DEF WfTypeOK, ParkDevice, WokenWaiter, bounds
  <2> QED BY <2>2, <2>3, <2>4, <2>5, <2>6, <2>7, <2>8, <2>9, <2>10, Zenon
<1> QED BY <1>1, Zenon

\* A parking engine hands its reference to a request.
LEMMA ParkEngineIInv ==
    ASSUME WfIInv, NEW p \in Procs, ParkEngine(p)
    PROVE  WfIInv'
<1> USE DEF WfIInv
<1>0. p \in Procs /\ Work \notin Procs /\ Nobody \notin Procs
      /\ Retire \in Procs /\ Worker \in Procs
  BY NamesAssumption, Zenon DEF Procs
<1>1. WfIInv'
  <2>1. /\ place[p] = "park" /\ place'[p] = "unlock" /\ p # Retire
        /\ place'[Retire] = "held"
        /\ \A q \in Procs \ {p, Retire} : place'[q] = place[q]
    <3>1. place[p] = "park" /\ p # Retire
      BY <1>0, Zenon DEF ParkEngine, RetireInv
    <3> QED BY <1>0, <3>1, Zenon DEF ParkEngine, WfTypeOK
  <2>2. Holders = {}
    BY <1>0, <2>1, CountFacts, Zenon DEF ActiveInv
  <2>3. Retire \notin Holders /\ Holders' = Holders \cup {Retire}
    BY <1>0, <2>2, <2>1, Zenon DEF Holders, ParkEngine
  <2>4. count' = count + 1
    BY <1>0, <2>2, CountFacts DEF ParkEngine
  <2>5. CountExact'
    BY <2>3, <2>4, CountUp, Zenon
  <2>6. OneReleaser'
    <3>1. Releasers' \subseteq Releasers
      BY <1>0, <2>1, Zenon DEF Releasers, ParkEngine
    <3> QED BY <3>1, Zenon DEF OneReleaser
  <2>7. MutexInv'
    BY <1>0, <2>1, Zenon DEF MutexInv, ParkEngine
  <2>8. OwnInv'
    BY <1>0, <2>1, Zenon DEF OwnInv, RetireInv, WfTypeOK, ParkEngine
  <2>9. RetireInv'
    BY <1>0, <2>1, Zenon DEF RetireInv, ParkEngine
  <2>10. ActiveInv'
    BY <1>0, <2>2, <2>1, <2>3, <2>5, CountFacts, CountNext, Zenon
    DEF ActiveInv, MutexInv, ParkEngine
  <2>11. PmBalanced'
    BY <1>0, <2>1, PmSame, Zenon DEF ParkEngine
  <2>12. WfTypeOK'
    BY <1>0, <2>5, CountNext, WfBoundsAssumption
    DEF WfTypeOK, ParkEngine, WokenWaiter, bounds
  <2> QED BY <2>2, <2>3, <2>4, <2>5, <2>6, <2>7, <2>8, <2>9, <2>10, <2>11,
     <2>12, Zenon
<1> QED BY <1>1, Zenon

\* A parking GT clears memory without the mutex.
LEMMA ParkClearIInv ==
    ASSUME WfIInv, NEW p \in Procs, ParkClear(p)
    PROVE  WfIInv'
<1> USE DEF WfIInv
<1>0. p \in Procs /\ Work \notin Procs /\ Nobody \notin Procs
      /\ Retire \in Procs /\ Worker \in Procs
  BY NamesAssumption, Zenon DEF Procs
<1>1. WfIInv'
  <2>1. /\ place[p] = "park" /\ place'[p] = "clearing"
        /\ \A q \in Procs \ {p} : place'[q] = place[q]
    BY <1>0, Zenon DEF ParkClear, WfTypeOK
  <2>2. Holders = {}
    BY <1>0, <2>1, CountFacts, Zenon DEF ActiveInv
  <2>3. p \notin Holders /\ Holders' = Holders \cup {p}
    BY <1>0, <2>2, <2>1, Zenon DEF Holders, ParkClear
  <2>4. count' = count + 1
    BY <1>0, <2>2, CountFacts DEF ParkClear
  <2>5. CountExact'
    BY <2>3, <2>4, CountUp, Zenon
  <2>6. OneReleaser'
    <3>1. Releasers' \subseteq Releasers
      BY <1>0, <2>1, Zenon DEF Releasers, ParkClear
    <3> QED BY <3>1, Zenon DEF OneReleaser
  <2>7. MutexInv'
    BY <1>0, <2>1, Zenon DEF MutexInv, ParkClear
  <2>8. OwnInv'
    BY <1>0, <2>1, Zenon DEF OwnInv, WfTypeOK, ParkClear
  <2>9. RetireInv'
    BY <1>0, <2>1, Zenon DEF RetireInv, ParkClear
  <2>10. ActiveInv'
    BY <1>0, <2>2, <2>1, <2>3, <2>5, CountFacts, CountNext, Zenon
    DEF ActiveInv, MutexInv, ParkClear
  <2>11. PmBalanced'
    BY <1>0, <2>1, PmSame, Zenon DEF ParkClear
  <2>12. WfTypeOK'
    BY <1>0, <2>5, CountNext, WfBoundsAssumption
    DEF WfTypeOK, ParkClear, WokenWaiter, bounds
  <2> QED BY <2>2, <2>3, <2>4, <2>5, <2>6, <2>7, <2>8, <2>9, <2>10, <2>11,
     <2>12, Zenon
<1> QED BY <1>1, Zenon

\* Parking goes on after memory was cleared.
LEMMA ResumeParkIInv ==
    ASSUME WfIInv, NEW p \in Procs, ResumePark(p)
    PROVE  WfIInv'
<1> USE DEF WfIInv
<1>0. p \in Procs /\ Work \notin Procs /\ Nobody \notin Procs
      /\ Retire \in Procs /\ Worker \in Procs
  BY NamesAssumption, Zenon DEF Procs
<1>1. CASE count > 1
  <2>1. /\ place[p] = "clearing" /\ place'[p] = "unlock"
        /\ \A q \in Procs \ {p} : place'[q] = place[q]
    BY <1>1, <1>0, Zenon DEF ResumePark, WfTypeOK
  <2>2. p \in Holders /\ Holders' = Holders \ {p}
    BY <1>1, <1>0, <2>1, Zenon DEF Holders, ResumePark
  <2>3. CountExact'
    BY <1>1, <2>2, CountDown, Zenon DEF ResumePark
  <2>4. OneReleaser'
    <3>1. Releasers' \subseteq Releasers
      BY <1>1, <1>0, <2>1, Zenon DEF Releasers, ResumePark
    <3> QED BY <3>1, Zenon DEF OneReleaser
  <2>5. MutexInv'
    BY <1>1, <1>0, <2>1, Zenon DEF MutexInv, ResumePark
  <2>6. OwnInv'
    BY <1>1, <1>0, <2>1, Zenon DEF OwnInv, WfTypeOK, ResumePark
  <2>7. RetireInv'
    BY <1>1, <1>0, <2>1, Zenon DEF RetireInv, ResumePark
  <2>8. ActiveInv'
    BY <1>1, <1>0, <2>1, <2>2, <2>3, CountFacts, CountNext
    DEF ActiveInv, MutexInv, ResumePark
  <2>9. PmBalanced'
    BY <1>1, <1>0, <2>1, PmSame, Zenon DEF ResumePark
  <2>10. WfTypeOK'
    BY <1>1, <1>0, <2>3, CountNext, WfBoundsAssumption, Zenon
    DEF WfTypeOK, ResumePark, WokenWaiter, bounds
  <2> QED BY <2>2, <2>3, <2>4, <2>5, <2>6, <2>7, <2>8, <2>9, <2>10, Zenon
<1>2. CASE ~(count > 1)
  <2>1. /\ place[p] = "clearing" /\ place'[p] = "park"
        /\ \A q \in Procs \ {p} : place'[q] = place[q]
    BY <1>2, <1>0, Zenon DEF ResumePark, WfTypeOK
  <2>2. p \in Holders /\ Holders' = Holders \ {p}
    BY <1>2, <1>0, <2>1, Zenon DEF Holders, ResumePark
  <2>3. CountExact'
    BY <1>2, <2>2, CountDown, Zenon DEF ResumePark
  <2>4. OneReleaser'
    <3>1. Releasers' \subseteq Releasers
      BY <1>2, <1>0, <2>1, Zenon DEF Releasers, ResumePark
    <3> QED BY <3>1, Zenon DEF OneReleaser
  <2>5. MutexInv'
    BY <1>2, <1>0, <2>1, Zenon DEF MutexInv, ResumePark
  <2>6. OwnInv'
    BY <1>2, <1>0, <2>1, Zenon DEF OwnInv, WfTypeOK, ResumePark
  <2>7. RetireInv'
    BY <1>2, <1>0, <2>1, Zenon DEF RetireInv, ResumePark
  <2>8. ActiveInv'
    BY <1>2, <1>0, <2>1, <2>2, <2>3, CountFacts, CountNext
    DEF ActiveInv, MutexInv, ResumePark
  <2>9. PmBalanced'
    BY <1>2, <1>0, <2>1, PmSame, Zenon DEF ResumePark
  <2>10. WfTypeOK'
    BY <1>2, <1>0, <2>3, CountNext, WfBoundsAssumption, Zenon
    DEF WfTypeOK, ResumePark, WokenWaiter, bounds
  <2> QED BY <2>2, <2>3, <2>4, <2>5, <2>6, <2>7, <2>8, <2>9, <2>10, Zenon
<1> QED BY <1>1, <1>2, <1>0, Zenon DEF ResumePark

\* The thread that waits for idle changes nothing of this.
LEMMA WaitIInv ==
    ASSUME WfIInv, WaitForIdle
    PROVE  WfIInv'
<1>1. /\ UNCHANGED <<count, wf_mutex, active, work, parked, rpm, place, own, bounds>>
      /\ waiter' \in {"lock", "flush", "check", "asleep", "done"}
  BY Zenon DEF WaitForIdle, WaitStart, WaitLock, WaitFlush, WaitCheck
<1>2. Holders' = Holders /\ Releasers' = Releasers
  BY <1>1, Zenon DEF Holders, Releasers
<1>3. WfTypeOK'
  BY <1>1, Zenon DEF WfIInv, WfTypeOK, bounds
<1>4. CountExact' /\ OneReleaser'
  BY <1>1, <1>2, Zenon DEF WfIInv, CountExact, OneReleaser
<1>5. MutexInv' /\ OwnInv' /\ RetireInv' /\ PmBalanced'
  BY <1>1, Zenon DEF WfIInv, MutexInv, OwnInv, RetireInv, PmBalanced
<1>6. ActiveInv'
  BY <1>1, <1>2, Zenon DEF WfIInv, ActiveInv
<1> QED BY <1>3, <1>4, <1>5, <1>6, Zenon DEF WfIInv

\* A step that changes nothing keeps it.
LEMMA StutterIInv ==
    ASSUME WfIInv, UNCHANGED wf_vars
    PROVE  WfIInv'
<1>1. UNCHANGED <<count, wf_mutex, active, work, parked, rpm, place, own, waiter,
                  ngets, ndefers>>
  BY Zenon DEF wf_vars, bounds
<1>2. Holders' = Holders /\ Releasers' = Releasers
  BY <1>1, Zenon DEF Holders, Releasers
<1>3. WfTypeOK'
  BY <1>1, Zenon DEF WfIInv, WfTypeOK
<1>4. CountExact' /\ OneReleaser'
  BY <1>1, <1>2, Zenon DEF WfIInv, CountExact, OneReleaser
<1>5. MutexInv' /\ OwnInv' /\ RetireInv' /\ PmBalanced'
  BY <1>1, Zenon DEF WfIInv, MutexInv, OwnInv, RetireInv, PmBalanced
<1>6. ActiveInv'
  BY <1>1, <1>2, Zenon DEF WfIInv, ActiveInv
<1> QED BY <1>3, <1>4, <1>5, <1>6, Zenon DEF WfIInv

\* Every step keeps it.
LEMMA NextIInv == WfIInv /\ [WfNext]_wf_vars => WfIInv'
<1> SUFFICES ASSUME WfIInv, [WfNext]_wf_vars PROVE WfIInv'
  BY Zenon
<1>1. ASSUME NEW u \in Users, Take(u) PROVE WfIInv'
  BY <1>1, GetIInv, GetFirstIInv, FirstLockIInv, UnparkIInv, FirstIncIInv,
     Zenon
  DEF Take
<1>2. ASSUME NEW p \in Procs, Release(p) PROVE WfIInv'
  BY <1>2, PutIInv, PutQueueIInv, LastIInv, UnlockIInv, ParkIInv,
     ParkEngineIInv, ParkClearIInv, ResumeParkIInv, Zenon
  DEF Release
<1>3. ASSUME WorkItem PROVE WfIInv'
  BY <1>3, WorkStartIInv, WorkPutIInv, WorkLockIInv, Zenon DEF WorkItem
<1> QED
  BY <1>1, <1>2, <1>3, PutTrylockIInv, WaitIInv, StutterIInv, Zenon DEF WfNext

\* So it always holds.
LEMMA Inductive == WfSpec => []WfIInv
BY InitIInv, NextIInv, PTL DEF WfSpec

-----------------------------------------------------------------------------
\* Every variable keeps its type.
THEOREM WfTypeCorrect == WfSpec => []WfTypeOK
<1>1. WfIInv => WfTypeOK
  BY Zenon DEF WfIInv
<1> QED BY <1>1, Inductive, PTL

\* The count of a wakeref is the number of its owners, for any number of
\* users: no release is lost or done twice by intel_wakeref_put() and its
\* work item.
THEOREM CountIsExact == WfSpec => []CountExact
<1>1. WfIInv => CountExact
  BY Zenon DEF WfIInv
<1> QED BY <1>1, Inductive, PTL

\* __intel_wakeref_put_last() is never entered while the work item is
\* pending, which its assertion demands.
THEOREM ReleaseOnce == WfSpec => []OneReleaser
<1>1. WfIInv => OneReleaser
  BY Zenon DEF WfIInv
<1> QED BY <1>1, Inductive, PTL

\* intel_wakeref_get() and the park callbacks balance the references to the
\* layer below: those held are the one of an active wakeref and those of
\* threads that have yet to hand theirs over or give it back.
THEOREM PmIsBalanced == WfSpec => []PmBalanced
<1>1. WfIInv => PmBalanced
  BY Zenon DEF WfIInv
<1> QED BY <1>1, Inductive, PTL

\* Whoever owns a reference finds the device unparked and the layer below
\* awake.
THEOREM OwnersAwake == WfSpec => []HeldAwake
<1>1. ASSUME WfIInv, Holders # {} PROVE active /\ ~parked /\ rpm > 0
  <2>1. active /\ ~parked
    BY <1>1, Zenon DEF WfIInv, ActiveInv
  <2>2. rpm = 1 + Cardinality(Owners)
    BY <1>1, <2>1, PmFacts, Zenon DEF WfIInv
  <2> QED BY <2>1, <2>2, OwnersCard
<1>2. WfIInv => HeldAwake
  BY <1>1, Zenon DEF HeldAwake
<1> QED BY <1>2, Inductive, PTL

-----------------------------------------------------------------------------
(* Ranges of the TLB.                                                      *)

\* Rounding down gives a natural number that is not above the argument.
LEMMA RoundDown ==
    ASSUME NEW a \in Nat, NEW l \in Nat \ {0}
    PROVE  round_down(a, l) \in Nat /\ round_down(a, l) <= a
<1>1. a % l \in 0..(l - 1)
  OBVIOUS
<1>2. a % l <= a
  <2>1. a = l * (a \div l) + (a % l)
    OBVIOUS
  <2>2. a \div l \in Nat
    OBVIOUS
  <2>3. l * (a \div l) \in Nat
    BY <2>2
  <2> QED BY <1>1, <2>1, <2>3
<1> QED BY <1>1, <1>2 DEF round_down

\* Rounding down gives a multiple.
LEMMA RoundDownAligned ==
    ASSUME NEW a \in Nat, NEW l \in Nat \ {0}
    PROVE  /\ round_down(a, l) = l * (a \div l)
           /\ a \div l \in Nat
           /\ round_down(a, l) % l = 0
<1>1. a = l * (a \div l) + (a % l) /\ a \div l \in Nat /\ a % l \in Nat
  OBVIOUS
<1>2. l * (a \div l) \in Nat
  BY <1>1
<1>3. round_down(a, l) = l * (a \div l)
  BY <1>1, <1>2 DEF round_down
<1>4. ASSUME NEW k \in Nat PROVE (l * k) % l = 0
  OBVIOUS
<1> QED BY <1>1, <1>3, <1>4, Zenon

\* A block that begins below a multiple of its size ends at or below it.
LEMMA BlockInside ==
    ASSUME NEW l \in Nat \ {0}, NEW i \in Nat, NEW k \in Nat, l * i < k * l
    PROVE  l * i + l <= k * l
<1>1. i < k
  <2>1. ASSUME k <= i PROVE FALSE
    <3>1. PICK d \in Nat : i = k + d
      BY <2>1
    <3>2. l * i = k * l + l * d
      BY <3>1
    <3>3. l * d \in Nat /\ k * l \in Nat
      BY <3>1
    <3> QED BY <3>2, <3>3
  <2> QED BY <2>1
<1>2. PICK d \in Nat : k = i + 1 + d
  <2>1. k - i - 1 \in Nat
    BY <1>1
  <2> QED BY <2>1
<1>3. k * l = l * i + l + d * l
  BY <1>2
<1>4. d * l \in Nat /\ l * i \in Nat
  BY <1>2
<1> QED BY <1>3, <1>4

\* The size the search begins with is one the GuC can be given.
LEMMA FirstSize ==
    ASSUME NEW n \in 1..vm_total
    PROVE  /\ first_size(n) \in Sizes
           /\ first_size(n) >= SZ_4K
           /\ first_size(n) <= vm_total
<1> DEFINE r == roundup_pow_of_two(n)
<1>1. r \in Sizes /\ \A q \in Sizes : q >= n => r <= q
  BY SizesAssumption, Zenon DEF roundup_pow_of_two
<1>2. vm_total \in Sizes /\ vm_total >= n
  BY PagesAssumption, SizesAssumption
<1>3. r <= vm_total
  BY <1>1, <1>2, Zenon
<1>0. /\ Sizes \subseteq Nat
      /\ SZ_4K \in Sizes /\ SZ_2M \in Sizes /\ SZ_16M \in Sizes
      /\ vm_total \in Sizes
  BY PagesAssumption, SizesAssumption, Zenon
<1>4. /\ Sizes \subseteq Nat
      /\ SZ_4K \in Sizes /\ SZ_16M \in Sizes
      /\ SZ_4K <= SZ_2M /\ SZ_2M <= SZ_16M /\ SZ_16M <= vm_total
      /\ SZ_2M \in Nat /\ SZ_4K <= vm_total
  BY <1>0, PagesAssumption
<1> HIDE DEF r
<1> DEFINE l == max(r, SZ_4K)
<1>5. l \in Sizes /\ l >= SZ_4K /\ l <= vm_total
  BY <1>1, <1>2, <1>3, <1>4 DEF max
<1> HIDE DEF l
<1>6. first_size(n) = IF l >= SZ_2M THEN max(SZ_16M, l) ELSE l
  BY Zenon DEF first_size, l, r
<1> QED BY <1>2, <1>4, <1>5, <1>6 DEF max

\* No size below n that the search may choose has an aligned block around
\* the range.
SmallerFail(n) ==
    \A l \in Sizes :
        first_size(end - addr) <= l /\ l < n => round_down(addr, l) + l < end

(***************************************************************************)
(* The inductive invariant: from the first step on the block is the        *)
(* aligned one around the first address, of a size the GuC can be given,   *)
(* and every smaller size has been found too small.                        *)
(***************************************************************************)
RangeIInv ==
    /\ RangeTypeOK
    /\ end <= vm_total
    /\ at = "begin" => length = end - addr
    /\ at # "begin" =>
           /\ length \in Sizes /\ length >= SZ_4K /\ length <= vm_total
           /\ start = round_down(addr, length)
    /\ at = "done" => end <= start + length
    /\ at # "begin" => SmallerFail(length)

\* The invariant holds initially.
LEMMA RangeInitIInv == RangeInit => RangeIInv
<1>1. vm_total \in Nat
  BY SizesAssumption, PagesAssumption, Zenon
<1> QED BY <1>1 DEF RangeInit, RangeIInv, RangeTypeOK

\* Every step of the search keeps it.
LEMMA RangeNextIInv == RangeIInv /\ [RangeNext]_range_vars => RangeIInv'
<1> SUFFICES ASSUME RangeIInv, [RangeNext]_range_vars
             PROVE  RangeIInv'
  BY Zenon
<1> USE DEF RangeIInv, RangeTypeOK
<1>0. vm_total \in Nat /\ SZ_4K \in Nat /\ Sizes \subseteq Nat \ {0}
  BY SizesAssumption, PagesAssumption, Zenon
<1>1. CASE Begin
  <2>1. length \in 1..vm_total
    BY <1>0, <1>1 DEF Begin
  <2>2. /\ length' \in Sizes /\ length' >= SZ_4K /\ length' <= vm_total
    BY <1>1, <2>1, FirstSize, Zenon DEF Begin
  <2>3. start' = round_down(addr, length') /\ start' \in Nat /\ start' <= addr
    BY <1>0, <1>1, <2>2, RoundDown, Zenon DEF Begin
  <2>4. SmallerFail(length)'
    <3>1. length' = first_size(end - addr) /\ UNCHANGED <<addr, end>>
      BY <1>1, Zenon DEF Begin
    <3>2. length' \in Nat
      BY <1>0, <2>2, Zenon
    <3> QED BY <1>0, <3>1, <3>2 DEF SmallerFail
  <2> QED BY <1>0, <1>1, <2>2, <2>3, <2>4, Zenon DEF Begin
<1>2. CASE Double
  <2>1. length < vm_total
    BY <1>0, <1>2 DEF Double
  <2>2. length' \in Sizes /\ length' >= SZ_4K /\ length' <= vm_total
    BY <1>0, <1>2, <2>1, SizesAssumption DEF Double
  <2>3. start' = round_down(addr, length') /\ start' \in Nat /\ start' <= addr
    BY <1>0, <1>2, <2>2, RoundDown, Zenon DEF Double
  <2>4. SmallerFail(length)'
    <3>1. length' = 2 * length /\ UNCHANGED <<addr, end>> /\ length \in Sizes
          /\ SmallerFail(length) /\ round_down(addr, length) + length < end
      BY <1>2, Zenon DEF Double
    <3>2. \A l \in Sizes : l < 2 * length => l < length \/ l = length
      BY <1>0, <3>1, SizesAssumption
    <3> QED BY <1>0, <3>1, <3>2, Zenon DEF SmallerFail
  <2> QED BY <1>0, <1>2, <2>2, <2>3, <2>4, Zenon DEF Double
<1>3. CASE Finish
  BY <1>0, <1>3, Zenon DEF Finish, SmallerFail
<1>4. CASE UNCHANGED range_vars
  BY <1>4, Zenon DEF range_vars, SmallerFail
<1> QED BY <1>1, <1>2, <1>3, <1>4, Zenon DEF RangeNext

\* So it always holds.
LEMMA RangeInductive == RangeSpec => []RangeIInv
BY RangeInitIInv, RangeNextIInv, PTL DEF RangeSpec

\* The search keeps a positive size and a start at or below the range.
THEOREM RangeTypeCorrect == RangeSpec => []RangeTypeOK
<1>1. RangeIInv => RangeTypeOK
  BY Zenon DEF RangeIInv
<1> QED BY <1>1, RangeInductive, PTL

\* Whatever the range, the block tlb_page_selective_size() returns contains
\* every address of it.
THEOREM RangeCovered == RangeSpec => []Covers
<1>1. RangeIInv => Covers
  BY Zenon DEF RangeIInv, RangeTypeOK, Covers
<1> QED BY <1>1, RangeInductive, PTL

\* Whatever the range, the block is the smallest one that the search of
\* tlb_page_selective_size() could have returned for it.
THEOREM BlockSmallest == RangeSpec => []Smallest
<1>1. RangeIInv => Smallest
  BY Zenon DEF RangeIInv, SmallerFail, Smallest
<1> QED BY <1>1, RangeInductive, PTL

\* Whatever the range, the block satisfies the assertions made before it is
\* encoded for the GuC: a power of two, at least a page, aligned, and inside
\* the address space.
THEOREM BlockEncodable == RangeSpec => []Encodable
<1>1. ASSUME RangeIInv, at = "done"
      PROVE  /\ length \in Sizes /\ length >= SZ_4K
             /\ start % length = 0
             /\ start + length <= vm_total
  <2>1. length \in Nat \ {0} /\ addr \in Nat /\ start <= addr
        /\ addr < vm_total /\ vm_total \in Nat
    BY <1>1, SizesAssumption, PagesAssumption DEF RangeIInv, RangeTypeOK
  <2>2. /\ length \in Sizes /\ length >= SZ_4K /\ length <= vm_total
        /\ start = round_down(addr, length)
    BY <1>1, Zenon DEF RangeIInv
  <2> DEFINE i == addr \div length
  <2>3. start = length * i /\ i \in Nat /\ start % length = 0
    BY <2>1, <2>2, RoundDownAligned, Zenon
  <2>4. PICK k \in 1..vm_total : vm_total = k * length
    BY <2>2, SizesAssumption, Zenon
  <2> HIDE DEF i
  <2>5. length * i < k * length
    BY <1>1, <2>1, <2>3, <2>4 DEF RangeIInv, RangeTypeOK
  <2>6. length * i + length <= k * length
    BY <2>1, <2>3, <2>4, <2>5, BlockInside
  <2> QED BY <2>2, <2>3, <2>4, <2>6, Zenon
<1>2. RangeIInv => Encodable
  BY <1>1, Zenon DEF Encodable
<1> QED BY <1>2, RangeInductive, PTL
-----------------------------------------------------------------------------
(* Sequence numbers that wrap.                                             *)

\* The difference of two numbers, without a remainder.
LEMMA Difference ==
    ASSUME NEW a \in Seqnos, NEW b \in Seqnos
    PROVE  (a - b) % Modulus = IF a >= b THEN a - b ELSE a - b + Modulus
<1>1. Modulus \in Nat /\ Modulus > 3 /\ a \in 0..(Modulus - 1) /\ b \in 0..(Modulus - 1)
  BY ModulusAssumption DEF Seqnos
<1>2. ASSUME NEW x \in 0..(Modulus - 1) PROVE x % Modulus = x
  BY <1>1, <1>2
<1>3. ASSUME NEW x \in 0..(Modulus - 1) PROVE (x - Modulus) % Modulus = x
  BY <1>1, <1>3
<1>4. CASE a >= b
  BY <1>1, <1>2, <1>4
<1>5. CASE a < b
  <2>1. a - b + Modulus \in 0..(Modulus - 1) /\ (a - b + Modulus) - Modulus = a - b
    BY <1>1, <1>5
  <2>2. ((a - b + Modulus) - Modulus) % Modulus = a - b + Modulus
    BY <2>1, <1>3, Zenon
  <2> QED BY <1>1, <1>5, <2>1, <2>2
<1> QED BY <1>1, <1>4, <1>5

\* The half of the numbers.
LEMMA Half ==
    /\ Modulus \in Nat /\ Modulus > 3
    /\ Modulus \div 2 \in Nat /\ Modulus = 2 * (Modulus \div 2)
    /\ Modulus \div 2 >= 2
BY ModulusAssumption

\* The age of s when n was handed out last.
AgeAt(n, s) == (n - s) % Modulus

\* What an age is.
LEMMA AgeFacts ==
    ASSUME NEW n \in Seqnos
    PROVE  /\ \A s \in Seqnos : AgeAt(n, s) \in 0..(Modulus - 1)
           /\ AgeAt(n, n) = 0
BY Difference, Half DEF AgeAt, Seqnos

\* Of two numbers in use one has passed the other if it is not the older one.
LEMMA PassedAge ==
    ASSUME NEW n \in Seqnos, NEW a \in Seqnos, NEW b \in Seqnos,
           AgeAt(n, a) < Modulus \div 2, AgeAt(n, b) < Modulus \div 2
    PROVE  Passed(a, b) <=> AgeAt(n, a) <= AgeAt(n, b)
<1>1. /\ AgeAt(n, a) = IF n >= a THEN n - a ELSE n - a + Modulus
      /\ AgeAt(n, b) = IF n >= b THEN n - b ELSE n - b + Modulus
      /\ (a - b) % Modulus = IF a >= b THEN a - b ELSE a - b + Modulus
  BY Difference, Zenon DEF AgeAt
<1>2. /\ n \in 0..(Modulus - 1) /\ a \in 0..(Modulus - 1) /\ b \in 0..(Modulus - 1)
  BY DEF Seqnos
<1> QED BY <1>1, <1>2, Half DEF Passed

\* The number handed out next.
LEMMA NextSeqno ==
    ASSUME next_seqno \in Seqnos
    PROVE  /\ intel_tlb_next_seqno \in Seqnos \ {0}
           /\ intel_tlb_next_seqno =
                 IF next_seqno = Modulus - 1 THEN 1 ELSE next_seqno + 1
<1>1. next_seqno \in 0..(Modulus - 1) /\ Modulus \in Nat /\ Modulus > 3
  BY Half DEF Seqnos
<1>2. CASE next_seqno = Modulus - 1
  <2>1. (next_seqno + 1) % Modulus = 0
    BY <1>1, <1>2
  <2> QED BY <1>1, <1>2, <2>1 DEF intel_tlb_next_seqno, Seqnos
<1>3. CASE next_seqno # Modulus - 1
  <2>1. (next_seqno + 1) % Modulus = next_seqno + 1
    BY <1>1, <1>3
  <2> QED BY <1>1, <1>3, <2>1 DEF intel_tlb_next_seqno, Seqnos
<1> QED BY <1>2, <1>3

\* Handing it out makes every number in use older by the same amount.
LEMMA AgesGrow ==
    ASSUME next_seqno \in Seqnos
    PROVE  \E d \in {1, 2} : \A s \in Seqnos :
              AgeAt(next_seqno, s) < Modulus \div 2
              => AgeAt(intel_tlb_next_seqno, s) = AgeAt(next_seqno, s) + d
<1> DEFINE n == next_seqno
           m == intel_tlb_next_seqno
           d == IF n = Modulus - 1 THEN 2 ELSE 1
<1>1. m \in Seqnos /\ m = IF n = Modulus - 1 THEN 1 ELSE n + 1
  BY NextSeqno
<1>2. n \in 0..(Modulus - 1)
  BY DEF Seqnos
<1> HIDE DEF m, n
<1>3. ASSUME NEW s \in Seqnos, AgeAt(n, s) < Modulus \div 2
      PROVE  AgeAt(m, s) = AgeAt(n, s) + d
  <2>1. /\ AgeAt(n, s) = IF n >= s THEN n - s ELSE n - s + Modulus
        /\ AgeAt(m, s) = IF m >= s THEN m - s ELSE m - s + Modulus
    BY <1>1, Difference DEF AgeAt, n
  <2>2. s \in 0..(Modulus - 1)
    BY DEF Seqnos
  <2> QED BY <1>1, <1>2, <1>3, <2>1, <2>2, Half
<1>4. d \in {1, 2}
  OBVIOUS
<1> QED BY <1>3, <1>4, Zenon DEF n, m
-----------------------------------------------------------------------------
(* The inductive invariant.                                                *)

\* The update of a thread.
Mine(t) == <<t, round[t]>>

\* A thread that runs has made an update, one in the queue sleeps, and one
\* that has the mutex has the number handed out last.
ThreadInv ==
    /\ \A t \in Threads : pc[t] # "idle" => round[t] # 0
    /\ \A t \in wq : pc[t] = "asleep"
    /\ \A t \in Threads : pc[t] = "send" =>
          mutex = t /\ my[t] = next_seqno /\ my[t] # 0

\* The ring is in the order of the numbers, and while one of them waits to be
\* sent it has only older ones.
RingInv ==
    /\ \A i, j \in 1..Len(h2g) : i < j => Age(h2g[i].seqno) > Age(h2g[j].seqno)
    /\ \A t \in Threads : pc[t] = "send" =>
          \A i \in 1..Len(h2g) : Age(h2g[i].seqno) > 0

\* What a reset and a park have done; the number that the revoke has read is
\* not older than the completed one.
ResetInv ==
    /\ ~ct_enabled \/ wedged \/ rpc # "none" => nresets # 0
    /\ wedged \/ ~awake \/ rpc \notin {"none", "prepared"} => stale = {}
    /\ rpc = "revoke" => g2h = <<>> /\ Age(rev) <= Age(seqno)

Listed(t) == \E i \in 1..Len(h2g) : h2g[i].by = Mine(t) /\ h2g[i].seqno = my[t]

\* Nothing that completed, or that the GuC has reported, is as new as the
\* number of t.
Behind(t) ==
    /\ Age(my[t]) < Age(seqno)
    /\ \A i \in 1..Len(g2h) : Age(my[t]) < Age(g2h[i])

\* An update that a TLB may still hold has not been sent, has been refused by
\* a reset, or has a number that is not completed and is on its way to the GuC
\* or was lost with the ring.
StaleOK(t) ==
    \/ pc[t] \in {"range", "lock"}
    \/ my[t] = 0 /\ nresets # 0 /\ pc[t] \notin {"send", "atomic"}
    \/ /\ Asking(t) /\ Behind(t)
       /\ pc[t] = "send" \/ rpc = "prepared" \/ Listed(t)
       /\ pc[t] = "atomic" => want[t] = my[t]

StaleInv ==
    \A t \in Threads : caller[t] = "ufence" /\ Mine(t) \in stale => StaleOK(t)

TlbIInv == TypeOK /\ ThreadInv /\ RingInv /\ ResetInv /\ StaleInv

\* It holds initially.
LEMMA TlbInit == Init => TlbIInv
<1> SUFFICES ASSUME Init PROVE TlbIInv
  BY Zenon
<1>1. 0 \in Seqnos
  BY Half DEF Seqnos
<1>2. TypeOK
  <2>1. h2g = <<>> /\ g2h = <<>> /\ stale = {} /\ wq = {} /\ nresets = 0 /\ nparks = 0
    BY Zenon DEF Init
  <2>2. /\ h2g \in Seq([seqno : Seqnos \ {0}, by : Threads \X (1..MaxRounds)])
        /\ g2h \in Seq(Seqnos \ {0})
    BY <2>1
  <2>3. 0 \in 0..MaxRounds /\ 0 \in 0..MaxResets /\ 0 \in 0..MaxParks
    BY BoundsAssumption
  <2>4. stale \subseteq Threads \X (1..MaxRounds) /\ wq \subseteq Threads
    BY <2>1
  <2> QED BY <1>1, <2>1, <2>2, <2>3, <2>4, StartAssumption, Zenon DEF Init, TypeOK
<1>3. ThreadInv /\ StaleInv
  BY DEF Init, ThreadInv, StaleInv
<1>4. RingInv /\ ResetInv
  BY DEF Init, RingInv, ResetInv
<1> QED BY <1>2, <1>3, <1>4, Zenon DEF TlbIInv

\* What taking the first entry of a ring, and adding one at its end, leave.
LEMMA TailEntries ==
    ASSUME NEW S, NEW s \in Seq(S), s # <<>>
    PROVE  /\ Head(s) = s[1] /\ Head(s) \in S /\ Tail(s) \in Seq(S)
           /\ 1 \in 1..Len(s) /\ Len(s) \in Nat
           /\ \A i \in 1..Len(Tail(s)) : /\ i + 1 \in 1..Len(s)
                                         /\ Tail(s)[i] = s[i + 1]
           /\ \A i \in 1..Len(s) : i # 1 => /\ i - 1 \in 1..Len(Tail(s))
                                            /\ Tail(s)[i - 1] = s[i]
OBVIOUS

\* The entries of a sequence after one was added.
LEMMA AppendEntries ==
    ASSUME NEW S, NEW s \in Seq(S), NEW e \in S
    PROVE  /\ Append(s, e) \in Seq(S)
           /\ Len(s) + 1 \in 1..Len(Append(s, e)) /\ Append(s, e)[Len(s) + 1] = e
           /\ \A i \in 1..Len(s) : i \in 1..Len(Append(s, e)) /\ Append(s, e)[i] = s[i]
           /\ \A i \in 1..Len(Append(s, e)) : i \in 1..Len(s) \/ i = Len(s) + 1
OBVIOUS

\* The steps of a thread that are its own: it looks at the numbers and moves.
LocalStep(t) == InvalidateRange(t) \/ Sync(t)

\* What a step of one thread that sends nothing leaves alone.
LEMMA LocalFacts ==
    ASSUME TypeOK, NEW t \in Threads, LocalStep(t)
    PROVE  /\ UNCHANGED <<seqno, next_seqno, mutex, wedged, awake, ct_enabled, rpc,
                          rev, nresets, nparks, h2g, g2h, stale, caller, my, round>>
           /\ pc[t] \notin {"idle", "lock", "send", "asleep", "done"}
           /\ \E x \in {"lock", "sync", "atomic", "busy_wait", "wait_event",
                        "asleep", "last", "done"} :
                 /\ pc' = [pc EXCEPT ![t] = x]
                 /\ wq' = IF x = "asleep" THEN wq \cup {t} ELSE wq
           /\ want' \in [Threads -> Seqnos]
           /\ \A u \in Threads \ {t} : want'[u] = want[u]
<1>0. want \in [Threads -> Seqnos] /\ my \in [Threads -> Seqnos]
  BY Zenon DEF TypeOK
<1>1. CASE InvalidateRange(t)
  BY <1>0, <1>1, Zenon DEF InvalidateRange, tlb_vars, gt_vars, chan_vars
<1>2. CASE SyncStart(t)
  <2> DEFINE w == IF caller[t] = "release" THEN (my[t] - 1) % Modulus ELSE my[t]
  <2>1. w \in Seqnos
    <3>1. my[t] \in 0..(Modulus - 1) /\ Modulus \in Nat /\ Modulus > 3
      BY <1>0, Half DEF Seqnos
    <3>2. (my[t] - 1) % Modulus \in 0..(Modulus - 1)
      BY <3>1
    <3> QED BY <1>0, <3>2 DEF Seqnos
  <2> HIDE DEF w
  <2>2. want' = want \/ want' = [want EXCEPT ![t] = w]
    BY <1>2, Zenon DEF SyncStart, w
  <2>3. want' \in [Threads -> Seqnos] /\ \A u \in Threads \ {t} : want'[u] = want[u]
    BY <1>0, <2>1, <2>2, Zenon
  <2> QED BY <1>2, <2>3, Zenon DEF SyncStart, tlb_vars, gt_vars, chan_vars
<1>3. CASE Atomic(t) \/ BusyWait(t) \/ WaitEvent(t) \/ Last(t)
  BY <1>0, <1>3, Zenon DEF Atomic, BusyWait, WaitEvent, Last, tlb_vars, gt_vars,
                           chan_vars
<1> QED BY <1>1, <1>2, <1>3, Zenon DEF LocalStep, Sync

\* Every step keeps the types.
LEMMA TlbTypes ==
    ASSUME TypeOK, ThreadInv, [Next]_vars
    PROVE  TypeOK'
<1> DEFINE H == [seqno : Seqnos \ {0}, by : Threads \X (1..MaxRounds)]
           G == Seqnos \ {0}
           PCs == {"idle", "range", "lock", "send", "sync", "atomic", "busy_wait",
                   "wait_event", "asleep", "last", "done"}
<1>1. ASSUME NEW t \in Threads, Update(t) PROVE TypeOK'
  <2>1. 0 \in Seqnos /\ MaxRounds \in Nat
    BY Half, BoundsAssumption DEF Seqnos
  <2>2. round[t] \in 0..MaxRounds /\ round[t] < MaxRounds
    BY <1>1, Zenon DEF TypeOK, Update
  <2>3. round[t] + 1 \in 1..MaxRounds /\ round[t] + 1 \in 0..MaxRounds
    BY <2>1, <2>2
  <2>4. round' \in [Threads -> 0..MaxRounds] /\ round'[t] = round[t] + 1
    BY <1>1, <2>3, Zenon DEF TypeOK, Update
  <2>5. stale' \subseteq Threads \X (1..MaxRounds)
    <3>1. <<t, round'[t]>> \in Threads \X (1..MaxRounds)
      BY <2>3, <2>4, Zenon
    <3>2. stale' = stale \/ stale' = stale \cup {<<t, round'[t]>>}
      BY <1>1, Zenon DEF Update
    <3> QED BY <3>1, <3>2 DEF TypeOK
  <2> QED BY <1>1, <2>1, <2>4, <2>5, Zenon DEF TypeOK, Update, tlb_vars, gt_vars,
                                              chan_vars
<1>2. ASSUME NEW t \in Threads, LocalStep(t) PROVE TypeOK'
  <2>1. PICK x \in PCs : /\ pc' = [pc EXCEPT ![t] = x]
                         /\ wq' = wq \/ wq' = wq \cup {t}
    BY <1>2, LocalFacts, Zenon
  <2>2. pc' \in [Threads -> PCs] /\ wq' \subseteq Threads
    BY <2>1, Zenon DEF TypeOK
  <2> QED BY <1>2, <2>2, LocalFacts, Zenon DEF TypeOK
<1>3. ASSUME NEW t \in Threads, Alloc(t) PROVE TypeOK'
  <2>1. intel_tlb_next_seqno \in Seqnos
    BY NextSeqno, Zenon DEF TypeOK
  <2> QED BY <1>3, <2>1, Zenon DEF TypeOK, Alloc, gt_vars, chan_vars
<1>4. ASSUME NEW t \in Threads, Send(t) PROVE TypeOK'
  <2>1. 0 \in Seqnos /\ MaxRounds \in Nat
    BY Half, BoundsAssumption DEF Seqnos
  <2>2. my[t] \in Seqnos \ {0} /\ round[t] \in 0..MaxRounds /\ round[t] # 0
    BY <1>4, Zenon DEF TypeOK, ThreadInv, Send
  <2>3. round[t] \in 1..MaxRounds
    BY <2>1, <2>2
  <2>4. [seqno |-> my[t], by |-> <<t, round[t]>>] \in H
    BY <2>2, <2>3, Zenon
  <2>5. Append(h2g, [seqno |-> my[t], by |-> <<t, round[t]>>]) \in Seq(H)
    <3>1. PICK e \in H : e = [seqno |-> my[t], by |-> <<t, round[t]>>]
      BY <2>4, Zenon
    <3>2. Append(h2g, e) \in Seq(H)
      BY AppendEntries, Zenon DEF TypeOK
    <3> QED BY <3>1, <3>2, Zenon
  <2>6. h2g' \in Seq(H) /\ my' \in [Threads -> Seqnos]
    BY <1>4, <2>1, <2>5, Zenon DEF TypeOK, Send
  <2> QED BY <1>4, <2>6, Zenon DEF TypeOK, Send, tlb_vars, gt_vars
<1>5. CASE GucInvalidate
  <2>1. h2g \in Seq(H) /\ g2h \in Seq(G) /\ h2g # <<>>
    BY <1>5, Zenon DEF TypeOK, GucInvalidate
  <2>2. Head(h2g) \in H /\ Tail(h2g) \in Seq(H)
    BY <2>1, TailEntries, Zenon
  <2>3. Head(h2g).seqno \in G
    BY <2>2, Zenon
  <2>4. Append(g2h, Head(h2g).seqno) \in Seq(G)
    BY <2>1, <2>3, AppendEntries, Zenon
  <2> QED BY <1>5, <2>2, <2>4, Zenon DEF TypeOK, GucInvalidate, tlb_vars, gt_vars,
                                         thread_vars
<1>6. Woken \in [Threads -> PCs]
  BY Zenon DEF TypeOK, Woken
<1>7. CASE Done
  <2>1. g2h \in Seq(G) /\ g2h # <<>>
    BY <1>7, Zenon DEF TypeOK, Done
  <2>2. Head(g2h) \in G /\ Tail(g2h) \in Seq(G)
    BY <2>1, TailEntries, Zenon
  <2>3. seqno' \in Seqnos /\ wq' \subseteq Threads /\ pc' \in [Threads -> PCs]
    BY <1>6, <1>7, <2>2, Zenon DEF Done, Advance, TypeOK
  <2> QED BY <1>7, <2>2, <2>3, Zenon DEF TypeOK, Done, gt_vars
<1>8. CASE Park
  <2>1. nparks' \in 0..MaxParks
    BY <1>8, BoundsAssumption DEF TypeOK, Park
  <2> QED BY <1>6, <1>8, <2>1, Zenon DEF TypeOK, Park, chan_vars
<1>9. CASE Unpark
  BY <1>9, Zenon DEF TypeOK, Unpark, tlb_vars, chan_vars, thread_vars
<1>10. CASE ResetPrepare
  <2>1. nresets' \in 0..MaxResets /\ h2g' \in Seq(H)
    BY <1>10, BoundsAssumption DEF TypeOK, ResetPrepare
  <2> QED BY <1>10, <2>1, Zenon DEF TypeOK, ResetPrepare, tlb_vars, thread_vars
<1>11. CASE HwReset \/ RevokeRead
  BY <1>11, Zenon DEF TypeOK, HwReset, RevokeRead, tlb_vars, chan_vars, thread_vars
<1>12. CASE RevokeStore \/ SetWedged
  BY <1>6, <1>12, Zenon DEF TypeOK, RevokeStore, SetWedged, chan_vars
<1>13. CASE Restart
  BY <1>13, Zenon DEF TypeOK, Restart, tlb_vars, chan_vars, thread_vars
<1>14. CASE UNCHANGED vars
  BY <1>14, Zenon DEF TypeOK, vars, tlb_vars, gt_vars, chan_vars, thread_vars
<1> QED BY <1>1, <1>2, <1>3, <1>4, <1>5, <1>7, <1>8, <1>9, <1>10, <1>11, <1>12,
           <1>13, <1>14, Zenon DEF Next, Invalidate, Reset, LocalStep

\* The steps of the GuC, of its completions, of a park and of a reset: they
\* give no numbers out, and move no thread but those they wake.
Steady ==
    /\ UNCHANGED <<next_seqno, mutex, caller, my, want, round>>
    /\ wq' \subseteq wq
    /\ \A t \in Threads :
          \/ pc'[t] = pc[t]
          \/ pc[t] = "asleep" /\ pc'[t] = "wait_event" /\ t \notin wq'

\* What the steps of the GuC, of parking and of a reset leave alone.
LEMMA SteadySteps ==
    ASSUME TypeOK, ThreadInv,
           GucInvalidate \/ Done \/ Park \/ Unpark \/ Reset \/ UNCHANGED vars
    PROVE  Steady
<1>1. ASSUME pc' = Woken, wq' = {}
      PROVE  /\ wq' \subseteq wq
             /\ \A t \in Threads :
                   \/ pc'[t] = pc[t]
                   \/ pc[t] = "asleep" /\ pc'[t] = "wait_event" /\ t \notin wq'
  BY <1>1, Zenon DEF Woken, ThreadInv
<1>2. CASE Done
  BY <1>1, <1>2, Zenon DEF Done, Advance, Steady
<1>3. CASE Park
  BY <1>1, <1>3, Zenon DEF Park, Steady
<1>4. CASE RevokeStore
  BY <1>1, <1>4, Zenon DEF RevokeStore, Steady
<1>5. CASE SetWedged
  BY <1>1, <1>5, Zenon DEF SetWedged, Steady
<1>6. CASE UNCHANGED <<tlb_vars, mutex, thread_vars>>
  BY <1>6, Zenon DEF tlb_vars, thread_vars, Steady
<1>7. CASE GucInvalidate \/ Unpark \/ ResetPrepare \/ HwReset \/ RevokeRead \/ Restart
  BY <1>6, <1>7, Zenon DEF GucInvalidate, Unpark, ResetPrepare, HwReset, RevokeRead,
                           Restart
<1>8. CASE UNCHANGED vars
  BY <1>6, <1>8, Zenon DEF vars
<1> QED BY <1>2, <1>3, <1>4, <1>5, <1>7, <1>8, Zenon DEF Reset

\* The kinds of steps there are.
LEMMA StepKinds ==
    ASSUME TypeOK, ThreadInv, [Next]_vars
    PROVE  \/ \E t \in Threads : Update(t) \/ LocalStep(t) \/ Alloc(t) \/ Send(t)
           \/ /\ Steady
              /\ GucInvalidate \/ Done \/ Park \/ Unpark \/ Reset \/ UNCHANGED vars
BY SteadySteps, Zenon DEF Next, Invalidate, LocalStep

\* Every step keeps what is said of the threads.
LEMMA TlbThreads ==
    ASSUME TypeOK, ThreadInv, [Next]_vars
    PROVE  ThreadInv'
<1>0. /\ pc \in [Threads -> {"idle", "range", "lock", "send", "sync", "atomic",
                             "busy_wait", "wait_event", "asleep", "last", "done"}]
      /\ round \in [Threads -> 0..MaxRounds] /\ my \in [Threads -> Seqnos]
      /\ wq \subseteq Threads /\ None \notin Threads
  BY ThreadsAssumption, Zenon DEF TypeOK
<1>1. ASSUME NEW t \in Threads, Update(t) PROVE ThreadInv'
  <2>1. round[t] + 1 # 0
    BY <1>0, BoundsAssumption
  <2>2. /\ pc' = [pc EXCEPT ![t] = "range"] /\ round' = [round EXCEPT ![t] = round[t] + 1]
        /\ my' = [my EXCEPT ![t] = 0]
        /\ UNCHANGED <<wq, mutex, next_seqno>> /\ pc[t] \in {"idle", "done"}
    BY <1>1, Zenon DEF Update, tlb_vars
  <2>3. \A u \in Threads : pc'[u] # "idle" => round'[u] # 0
    BY <1>0, <2>1, <2>2, Zenon DEF ThreadInv
  <2>4. \A u \in wq' : pc'[u] = "asleep"
    BY <1>0, <2>2, Zenon DEF ThreadInv
  <2>5. \A u \in Threads : pc'[u] = "send" =>
           mutex' = u /\ my'[u] = next_seqno' /\ my'[u] # 0
    BY <1>0, <2>2, Zenon DEF ThreadInv
  <2> QED BY <2>3, <2>4, <2>5, Zenon DEF ThreadInv
<1>2. ASSUME NEW t \in Threads, LocalStep(t) PROVE ThreadInv'
  <2>1. PICK x \in {"lock", "sync", "atomic", "busy_wait", "wait_event",
                    "asleep", "last", "done"} :
           /\ pc' = [pc EXCEPT ![t] = x]
           /\ wq' = IF x = "asleep" THEN wq \cup {t} ELSE wq
    BY <1>2, LocalFacts, Zenon
  <2>2. /\ UNCHANGED <<mutex, next_seqno, my, round>>
        /\ pc[t] \notin {"idle", "lock", "send", "asleep", "done"}
    BY <1>2, LocalFacts, Zenon
  <2>3. \A u \in Threads : pc'[u] # "idle" => round'[u] # 0
    BY <1>0, <2>1, <2>2, Zenon DEF ThreadInv
  <2>4. \A u \in wq' : pc'[u] = "asleep"
    BY <1>0, <2>1, <2>2, Zenon DEF ThreadInv
  <2>5. \A u \in Threads : pc'[u] = "send" =>
           mutex' = u /\ my'[u] = next_seqno' /\ my'[u] # 0
    BY <1>0, <2>1, <2>2, Zenon DEF ThreadInv
  <2> QED BY <2>3, <2>4, <2>5, Zenon DEF ThreadInv
<1>3. ASSUME NEW t \in Threads, Alloc(t) PROVE ThreadInv'
  <2>1. intel_tlb_next_seqno \in Seqnos \ {0}
    BY NextSeqno, Zenon DEF TypeOK
  <2>2. /\ pc' = [pc EXCEPT ![t] = "send"] /\ next_seqno' = intel_tlb_next_seqno
        /\ my' = [my EXCEPT ![t] = intel_tlb_next_seqno]
        /\ UNCHANGED <<wq, round>> /\ pc[t] = "lock" /\ mutex = None /\ mutex' = t
    BY <1>3, Zenon DEF Alloc
  <2>3. \A u \in Threads : pc'[u] # "idle" => round'[u] # 0
    BY <1>0, <2>2, Zenon DEF ThreadInv
  <2>4. \A u \in wq' : pc'[u] = "asleep"
    BY <1>0, <2>2, Zenon DEF ThreadInv
  <2>5. \A u \in Threads : pc[u] # "send"
    BY <1>0, <2>2, Zenon DEF ThreadInv
  <2>6. \A u \in Threads : pc'[u] = "send" =>
           mutex' = u /\ my'[u] = next_seqno' /\ my'[u] # 0
    BY <1>0, <2>1, <2>2, <2>5, Zenon
  <2> QED BY <2>3, <2>4, <2>6, Zenon DEF ThreadInv
<1>4. ASSUME NEW t \in Threads, Send(t) PROVE ThreadInv'
  <2>1. /\ pc' = [pc EXCEPT ![t] = "sync"] /\ pc[t] = "send"
        /\ UNCHANGED <<wq, round>>
    BY <1>4, Zenon DEF Send, tlb_vars
  <2>2. \A u \in Threads : pc'[u] # "idle" => round'[u] # 0
    BY <1>0, <2>1, Zenon DEF ThreadInv
  <2>3. \A u \in wq' : pc'[u] = "asleep"
    BY <1>0, <2>1, Zenon DEF ThreadInv
  <2>4. \A u \in Threads : pc'[u] # "send"
    BY <1>0, <2>1, Zenon DEF ThreadInv
  <2> QED BY <2>2, <2>3, <2>4, Zenon DEF ThreadInv
<1>5. CASE Steady
  <2>1. \A u \in Threads : pc'[u] # "idle" => round'[u] # 0
    BY <1>5, Zenon DEF ThreadInv, Steady
  <2>2. \A u \in wq' : pc'[u] = "asleep"
    BY <1>0, <1>5, Zenon DEF ThreadInv, Steady
  <2>3. \A u \in Threads : pc'[u] = "send" =>
           mutex' = u /\ my'[u] = next_seqno' /\ my'[u] # 0
    BY <1>5, Zenon DEF ThreadInv, Steady
  <2> QED BY <2>1, <2>2, <2>3, Zenon DEF ThreadInv
<1> QED BY <1>1, <1>2, <1>3, <1>4, <1>5, StepKinds, Zenon

\* The numbers in the rings.
LEMMA RingNumbers ==
    ASSUME TypeOK
    PROVE  /\ \A i \in 1..Len(h2g) : h2g[i].seqno \in Seqnos
           /\ \A i \in 1..Len(g2h) : g2h[i] \in Seqnos
<1> DEFINE H == [seqno : Seqnos \ {0}, by : Threads \X (1..MaxRounds)]
<1>0. h2g \in Seq(H)
  BY Zenon DEF TypeOK
<1>1. ASSUME NEW i \in 1..Len(h2g) PROVE h2g[i].seqno \in Seqnos
  <2>1. h2g[i] \in H
    <3> HIDE DEF H
    <3> QED BY <1>0, <1>1
  <2> QED BY <2>1
<1>2. ASSUME NEW i \in 1..Len(g2h) PROVE g2h[i] \in Seqnos
  BY <1>2 DEF TypeOK
<1> QED BY <1>1, <1>2, Zenon

\* Ages when a number is handed out.
LEMMA AllocAges ==
    ASSUME TypeOK, next_seqno' = intel_tlb_next_seqno
    PROVE  \E d \in {1, 2} : \A s \in Seqnos :
              /\ Age(s) \in Nat
              /\ Age(s) < Modulus \div 2 =>
                    (next_seqno' - s) % Modulus = Age(s) + d
<1>1. next_seqno \in Seqnos
  BY Zenon DEF TypeOK
<1>2. PICK d \in {1, 2} : \A s \in Seqnos :
              AgeAt(next_seqno, s) < Modulus \div 2
              => AgeAt(intel_tlb_next_seqno, s) = AgeAt(next_seqno, s) + d
  BY <1>1, AgesGrow, Zenon
<1>3. \A s \in Seqnos : AgeAt(next_seqno, s) \in 0..(Modulus - 1)
  BY <1>1, AgeFacts, Zenon
<1>4. \A s \in Seqnos : AgeAt(next_seqno, s) \in Nat
  BY <1>3, Half
<1> QED BY <1>2, <1>4, Zenon DEF Age, AgeAt

\* Every step keeps the ring in order.
LEMMA TlbRing ==
    ASSUME TypeOK, ThreadInv, RingInv, Near, [Next]_vars
    PROVE  RingInv'
<1> DEFINE Order(h, n) ==
              \A i, j \in 1..Len(h) : i < j =>
                 (n - h[i].seqno) % Modulus > (n - h[j].seqno) % Modulus
           Older(h, n) == \A i \in 1..Len(h) : (n - h[i].seqno) % Modulus > 0
<1>0. /\ pc \in [Threads -> {"idle", "range", "lock", "send", "sync", "atomic",
                             "busy_wait", "wait_event", "asleep", "last", "done"}]
      /\ next_seqno \in Seqnos
      /\ h2g \in Seq([seqno : Seqnos \ {0}, by : Threads \X (1..MaxRounds)])
  BY Zenon DEF TypeOK
<1>1. Order(h2g, next_seqno)
  BY Zenon DEF RingInv, Age
<1>2. ASSUME Order(h2g', next_seqno'),
             \A t \in Threads : pc'[t] = "send" => Older(h2g', next_seqno')
      PROVE  RingInv'
  BY <1>2, Zenon DEF RingInv, Age
<1>3. ASSUME UNCHANGED <<h2g, next_seqno>>,
             \A t \in Threads : pc'[t] = "send" => pc[t] = "send"
      PROVE  RingInv'
  BY <1>3, Zenon DEF RingInv, Age
<1>4. ASSUME NEW t \in Threads, Update(t) \/ LocalStep(t) PROVE RingInv'
  <2>1. CASE Update(t)
    <3>1. UNCHANGED <<h2g, next_seqno>> /\ pc' = [pc EXCEPT ![t] = "range"]
      BY <2>1, Zenon DEF Update, tlb_vars, chan_vars
    <3>2. \A u \in Threads : pc'[u] = "send" => pc[u] = "send"
      BY <1>0, <3>1, Zenon
    <3> QED BY <1>3, <3>1, <3>2, Zenon
  <2>2. CASE LocalStep(t)
    <3>1. PICK x : pc' = [pc EXCEPT ![t] = x] /\ x # "send"
      BY <2>2, LocalFacts, Zenon
    <3>2. \A u \in Threads : pc'[u] = "send" => pc[u] = "send"
      BY <1>0, <3>1, Zenon
    <3>3. UNCHANGED <<h2g, next_seqno>>
      BY <2>2, LocalFacts, Zenon
    <3> QED BY <1>3, <3>2, <3>3, Zenon
  <2> QED BY <1>4, <2>1, <2>2, Zenon
<1>5. ASSUME NEW t \in Threads, Alloc(t) PROVE RingInv'
  <2>1. h2g' = h2g /\ next_seqno' = intel_tlb_next_seqno
    BY <1>5, Zenon DEF Alloc, chan_vars
  <2>2. PICK d \in {1, 2} : \A s \in Seqnos :
              /\ Age(s) \in Nat
              /\ Age(s) < Modulus \div 2 =>
                    (next_seqno' - s) % Modulus = Age(s) + d
    BY <2>1, AllocAges, Zenon
  <2>3. \A i \in 1..Len(h2g) : /\ Age(h2g[i].seqno) \in Nat
                               /\ (next_seqno' - h2g[i].seqno) % Modulus
                                     = Age(h2g[i].seqno) + d
    BY <2>2, RingNumbers, Zenon DEF Near
  <2>4. ASSUME NEW i \in 1..Len(h2g), NEW j \in 1..Len(h2g), i < j
        PROVE  (next_seqno' - h2g[i].seqno) % Modulus
                  > (next_seqno' - h2g[j].seqno) % Modulus
    <3>1. Age(h2g[i].seqno) > Age(h2g[j].seqno)
      BY <2>4, Zenon DEF RingInv
    <3>2. \A a, b \in Nat : a > b => a + d > b + d
      OBVIOUS
    <3> QED BY <2>3, <3>1, <3>2, Zenon
  <2>5. ASSUME NEW i \in 1..Len(h2g)
        PROVE  (next_seqno' - h2g[i].seqno) % Modulus > 0
    <3>1. \A a \in Nat : a + d > 0
      OBVIOUS
    <3> QED BY <2>3, <3>1, Zenon
  <2>6. Order(h2g', next_seqno') /\ Older(h2g', next_seqno')
    BY <2>1, <2>4, <2>5, Zenon
  <2> HIDE DEF Order, Older
  <2> QED BY <1>2, <2>6, Zenon
<1>6. ASSUME NEW t \in Threads, Send(t) PROVE RingInv'
  <2>1. /\ pc' = [pc EXCEPT ![t] = "sync"] /\ pc[t] = "send" /\ next_seqno' = next_seqno
    BY <1>6, Zenon DEF Send, tlb_vars
  <2>2. \A u \in Threads : pc'[u] # "send"
    BY <1>0, <2>1, Zenon DEF ThreadInv
  <2>3. CASE h2g' = h2g
    BY <1>3, <2>1, <2>2, <2>3, Zenon
  <2>4. CASE h2g' # h2g
    <3>1. PICK e : /\ e = [seqno |-> my[t], by |-> <<t, round[t]>>]
                   /\ h2g' = Append(h2g, e)
      BY <1>6, <2>4, Zenon DEF Send
    <3>2. e.seqno = next_seqno
      BY <2>1, <3>1, Zenon DEF ThreadInv
    <3>3. \A i \in 1..Len(h2g) : Age(h2g[i].seqno) > 0
      BY <2>1, Zenon DEF RingInv
    <3>4. Age(next_seqno) = 0
      BY <1>0, AgeFacts, Zenon DEF Age, AgeAt
    <3>5. /\ Len(h2g) \in Nat /\ h2g'[Len(h2g) + 1] = e
          /\ \A i \in 1..Len(h2g) : h2g'[i] = h2g[i]
          /\ \A i \in 1..Len(h2g') : i \in 1..Len(h2g) \/ i = Len(h2g) + 1
      BY <1>0, <3>1
    <3>6. ASSUME NEW i \in 1..Len(h2g'), NEW j \in 1..Len(h2g'), i < j
          PROVE  Age(h2g'[i].seqno) > Age(h2g'[j].seqno)
      <4>1. i \in 1..Len(h2g)
        BY <3>5, <3>6
      <4>2. CASE j \in 1..Len(h2g)
        BY <3>5, <3>6, <4>1, <4>2, Zenon DEF RingInv
      <4>3. CASE j = Len(h2g) + 1
        BY <3>2, <3>3, <3>4, <3>5, <4>1, <4>3, Zenon
      <4> QED BY <3>5, <4>2, <4>3, Zenon
    <3>7. Order(h2g', next_seqno')
      BY <2>1, <3>6, Zenon DEF Age
    <3> HIDE DEF Order, Older
    <3> QED BY <1>2, <2>2, <3>7, Zenon
  <2> QED BY <2>3, <2>4, Zenon
<1>7. ASSUME Steady PROVE /\ next_seqno' = next_seqno
                          /\ \A t \in Threads : pc'[t] = "send" => pc[t] = "send"
  BY <1>7, Zenon DEF Steady
<1>8. ASSUME Steady, UNCHANGED h2g PROVE RingInv'
  BY <1>3, <1>7, <1>8, Zenon
<1>9. ASSUME Steady, GucInvalidate PROVE RingInv'
  <2>1. h2g # <<>> /\ h2g' = Tail(h2g) /\ next_seqno' = next_seqno
    BY <1>7, <1>9, Zenon DEF GucInvalidate
  <2>2. \A i \in 1..Len(h2g') : i + 1 \in 1..Len(h2g) /\ h2g'[i] = h2g[i + 1]
    BY <1>0, <2>1, TailEntries, Zenon
  <2>3. \A i, j \in 1..Len(h2g') : i < j => i + 1 < j + 1
    OBVIOUS
  <2>4. Order(h2g', next_seqno')
    BY <1>1, <2>1, <2>2, <2>3, Zenon
  <2>5. ASSUME NEW u \in Threads, pc'[u] = "send" PROVE Older(h2g', next_seqno')
    <3>1. \A i \in 1..Len(h2g) : Age(h2g[i].seqno) > 0
      BY <1>7, <1>9, <2>5, Zenon DEF RingInv
    <3> QED BY <2>1, <2>2, <3>1, Zenon DEF Age
  <2> HIDE DEF Order, Older
  <2> QED BY <1>2, <2>4, <2>5, Zenon
<1>10. ASSUME Steady, ResetPrepare PROVE RingInv'
  <2>1. h2g' = <<>>
    BY <1>10, Zenon DEF ResetPrepare
  <2>2. \A i \in 1..Len(h2g') : FALSE
    BY <2>1
  <2> QED BY <1>2, <2>2, Zenon
<1>11. ASSUME Done \/ Park \/ Unpark \/ HwReset \/ RevokeRead \/ RevokeStore
              \/ Restart \/ SetWedged \/ UNCHANGED vars
       PROVE  UNCHANGED h2g
  BY <1>11, Zenon DEF Done, Park, Unpark, HwReset, RevokeRead, RevokeStore, Restart,
                      SetWedged, vars, chan_vars
<1> QED BY <1>4, <1>5, <1>6, <1>8, <1>9, <1>10, <1>11, StepKinds, Zenon DEF Reset

\* Every step keeps what is said of resets and parks.
LEMMA TlbResets ==
    ASSUME TypeOK, ThreadInv, ResetInv, Near, [Next]_vars
    PROVE  ResetInv'
<1>0. /\ next_seqno \in Seqnos /\ seqno \in Seqnos /\ rev \in Seqnos
  BY Zenon DEF TypeOK
<1>1. ASSUME UNCHANGED <<ct_enabled, wedged, rpc, nresets, awake>>, stale' \subseteq stale,
             rpc = "revoke" => UNCHANGED <<g2h, seqno, rev, next_seqno>>
      PROVE  ResetInv'
  BY <1>1, Zenon DEF ResetInv, Age
<1>2. ASSUME NEW t \in Threads, Update(t) PROVE ResetInv'
  <2>1. CASE Executing
    BY <1>2, <2>1, Zenon DEF Update, ResetInv, Executing, Age, tlb_vars, gt_vars,
                             chan_vars
  <2>2. CASE ~Executing
    BY <1>1, <1>2, <2>2, Zenon DEF Update, tlb_vars, gt_vars, chan_vars
  <2> QED BY <2>1, <2>2, Zenon
<1>3. ASSUME NEW t \in Threads, LocalStep(t) PROVE ResetInv'
  BY <1>1, <1>3, LocalFacts, Zenon
<1>4. ASSUME NEW t \in Threads, Alloc(t) PROVE ResetInv'
  <2>1. /\ UNCHANGED <<ct_enabled, wedged, rpc, nresets, awake, stale, g2h, seqno, rev>>
        /\ next_seqno' = intel_tlb_next_seqno
    BY <1>4, Zenon DEF Alloc, gt_vars, chan_vars
  <2>2. CASE rpc # "revoke"
    BY <1>1, <2>1, <2>2, Zenon
  <2>3. CASE rpc = "revoke"
    <3>1. PICK d \in {1, 2} : \A s \in Seqnos :
              /\ Age(s) \in Nat
              /\ Age(s) < Modulus \div 2 =>
                    (next_seqno' - s) % Modulus = Age(s) + d
      BY <2>1, AllocAges, Zenon
    <3>2. /\ Age(rev) \in Nat /\ Age(seqno) \in Nat /\ Age(rev) <= Age(seqno)
          /\ (next_seqno' - rev') % Modulus = Age(rev) + d
          /\ (next_seqno' - seqno') % Modulus = Age(seqno) + d
      BY <1>0, <2>1, <2>3, <3>1, Zenon DEF Near, ResetInv
    <3>3. (next_seqno' - rev') % Modulus <= (next_seqno' - seqno') % Modulus
      BY <3>2
    <3> QED BY <2>1, <3>3, Zenon DEF ResetInv, Age
  <2> QED BY <2>2, <2>3, Zenon
<1>5. ASSUME NEW t \in Threads, Send(t) PROVE ResetInv'
  BY <1>1, <1>5, Zenon DEF Send, tlb_vars, gt_vars
<1>6. CASE GucInvalidate
  <2>1. /\ UNCHANGED <<ct_enabled, wedged, rpc, nresets, awake>>
        /\ rpc # "revoke" /\ stale' \subseteq stale
    BY <1>6, Zenon DEF GucInvalidate, gt_vars
  <2> QED BY <1>1, <2>1, Zenon
<1>7. CASE Done
  <2>1. /\ UNCHANGED <<ct_enabled, wedged, rpc, nresets, awake, stale>>
        /\ g2h # <<>>
    BY <1>7, Zenon DEF Done, gt_vars
  <2> QED BY <1>1, <2>1, Zenon DEF ResetInv
<1>8. CASE Park
  BY <1>8, Zenon DEF Park, ResetInv, chan_vars
<1>9. CASE Unpark
  BY <1>9, Zenon DEF Unpark, ResetInv, Age, tlb_vars, chan_vars
<1>10. CASE ResetPrepare
  <2>1. nresets' # 0
    BY <1>10, BoundsAssumption DEF ResetPrepare, TypeOK
  <2> QED BY <1>10, <2>1, Zenon DEF ResetPrepare, ResetInv
<1>11. CASE HwReset
  BY <1>11, Zenon DEF HwReset, ResetInv
<1>12. CASE RevokeRead
  <2>1. /\ g2h' = <<>> /\ rev' = next_seqno /\ rpc = "reset" /\ rpc' = "revoke"
        /\ UNCHANGED <<ct_enabled, wedged, nresets, awake, stale, seqno, next_seqno>>
    BY <1>12, Zenon DEF RevokeRead, tlb_vars, chan_vars
  <2>2. AgeAt(next_seqno, next_seqno) = 0 /\ AgeAt(next_seqno, seqno) \in 0..(Modulus - 1)
    BY <1>0, AgeFacts, Zenon
  <2>3. AgeAt(next_seqno, next_seqno) <= AgeAt(next_seqno, seqno)
    BY <2>2, Half
  <2> QED BY <2>1, <2>3, Zenon DEF ResetInv, Age, AgeAt
<1>13. CASE RevokeStore \/ Restart \/ SetWedged
  BY <1>13, Zenon DEF RevokeStore, Restart, SetWedged, ResetInv
<1>14. CASE UNCHANGED vars
  BY <1>1, <1>14, Zenon DEF vars, tlb_vars, gt_vars, chan_vars
<1> QED BY <1>2, <1>3, <1>4, <1>5, <1>6, <1>7, <1>8, <1>9, <1>10, <1>11, <1>12,
           <1>13, <1>14, StepKinds, ZenonT(60) DEF Reset

\* What is said of an update stays true while its thread stays where it is, or
\* is woken, and what it is said to wait for stays.
LEMMA StaleKept ==
    ASSUME NEW u \in Threads, StaleOK(u),
           my'[u] = my[u], want'[u] = want[u], nresets # 0 => nresets' # 0,
           \/ pc'[u] = pc[u]
           \/ pc[u] = "asleep" /\ pc'[u] = "wait_event",
           Asking(u) /\ Behind(u) => Behind(u)',
           /\ Asking(u) /\ Behind(u)
           /\ pc[u] = "send" \/ rpc = "prepared" \/ Listed(u)
           => pc'[u] = "send" \/ rpc' = "prepared" \/ Listed(u)'
    PROVE  StaleOK(u)'
<1>1. CASE pc[u] \in {"range", "lock"}
  BY <1>1, Zenon DEF StaleOK
<1>2. CASE my[u] = 0 /\ nresets # 0 /\ pc[u] \notin {"send", "atomic"}
  BY <1>2, Zenon DEF StaleOK
<1>3. CASE /\ Asking(u) /\ Behind(u)
           /\ pc[u] = "send" \/ rpc = "prepared" \/ Listed(u)
           /\ pc[u] = "atomic" => want[u] = my[u]
  <2>1. pc'[u] = pc[u]
    BY <1>3, Zenon DEF Asking
  <2>2. Asking(u)'
    BY <1>3, <2>1, Zenon DEF Asking
  <2>3. Behind(u)' /\ (pc'[u] = "send" \/ rpc' = "prepared" \/ Listed(u)')
    BY <1>3, Zenon
  <2> QED BY <1>3, <2>1, <2>2, <2>3, Zenon DEF StaleOK
<1> QED BY <1>1, <1>2, <1>3, Zenon DEF StaleOK

\* A thread that looks at the numbers does not go on before its update is
\* gone.
LEMMA StaleLocal ==
    ASSUME TypeOK, ResetInv, Near, NEW t \in Threads, LocalStep(t),
           caller[t] = "ufence", Mine(t) \in stale, StaleOK(t)
    PROVE  StaleOK(t)'
<1>0. /\ pc \in [Threads -> {"idle", "range", "lock", "send", "sync", "atomic",
                             "busy_wait", "wait_event", "asleep", "last", "done"}]
      /\ my \in [Threads -> Seqnos] /\ want \in [Threads -> Seqnos]
      /\ seqno \in Seqnos /\ next_seqno \in Seqnos
  BY Zenon DEF TypeOK
<1>1. ~wedged /\ awake
  BY Zenon DEF ResetInv
<1>2. UNCHANGED <<seqno, next_seqno, rpc, nresets, h2g, g2h, my, round>>
  BY LocalFacts, Zenon
<1>3. ASSUME Asking(t), Behind(t)
      PROVE  Passed(next_seqno, my[t]) /\ ~Passed(seqno, my[t])
  <2>1. /\ AgeAt(next_seqno, my[t]) < Modulus \div 2
        /\ AgeAt(next_seqno, seqno) < Modulus \div 2
        /\ AgeAt(next_seqno, my[t]) < AgeAt(next_seqno, seqno)
    BY <1>3, Zenon DEF Near, Age, AgeAt, Behind
  <2>2. my[t] \in Seqnos
    BY <1>0, Zenon
  <2>3. /\ AgeAt(next_seqno, next_seqno) = 0
        /\ AgeAt(next_seqno, my[t]) \in 0..(Modulus - 1)
        /\ AgeAt(next_seqno, seqno) \in 0..(Modulus - 1)
    BY <1>0, <2>2, AgeFacts, Zenon
  <2>4. 0 < Modulus \div 2 /\ Modulus \in Nat
    BY Half
  <2>5. /\ AgeAt(next_seqno, next_seqno) < Modulus \div 2
        /\ AgeAt(next_seqno, next_seqno) <= AgeAt(next_seqno, my[t])
        /\ ~(AgeAt(next_seqno, seqno) <= AgeAt(next_seqno, my[t]))
    BY <2>1, <2>3, <2>4
  <2>6. Passed(next_seqno, my[t])
    BY <1>0, <2>1, <2>2, <2>5, PassedAge, Zenon
  <2>7. ~Passed(seqno, my[t])
    BY <1>0, <2>1, <2>2, <2>5, PassedAge, Zenon
  <2> QED BY <2>6, <2>7, Zenon
<1>4. ASSUME my[t] = 0, nresets # 0, pc'[t] \notin {"send", "atomic"} PROVE StaleOK(t)'
  BY <1>2, <1>4, Zenon DEF StaleOK
<1>5. CASE InvalidateRange(t)
  <2>1. pc'[t] = "lock"
    BY <1>0, <1>1, <1>5, Zenon DEF InvalidateRange
  <2> QED BY <2>1, Zenon DEF StaleOK
<1>6. CASE SyncStart(t)
  <2>1. CASE my[t] = 0
    <3>1. pc[t] = "sync" /\ pc'[t] = "done"
      BY <1>0, <1>6, <2>1, Zenon DEF SyncStart
    <3>2. nresets # 0
      BY <2>1, <3>1, Zenon DEF StaleOK, Asking
    <3> QED BY <1>4, <2>1, <3>1, <3>2, Zenon
  <2>2. CASE my[t] # 0
    <3>1. pc[t] = "sync"
      BY <1>6, Zenon DEF SyncStart
    <3>2. Asking(t) /\ Behind(t) /\ (rpc = "prepared" \/ Listed(t))
      BY <2>2, <3>1, Zenon DEF StaleOK
    <3>3. Passed(next_seqno, my[t]) /\ ~tlb_seqno_passed(my[t])
      BY <1>1, <1>3, <3>2, Zenon DEF tlb_seqno_passed
    <3>4. pc'[t] = "atomic" /\ want'[t] = my[t]
      BY <1>0, <1>6, <2>2, <3>3, Zenon DEF SyncStart
    <3>5. Asking(t)' /\ Behind(t)' /\ (rpc' = "prepared" \/ Listed(t)')
      BY <1>2, <2>2, <3>2, <3>4, Zenon DEF Asking, Behind, Listed, Mine, Age
    <3> QED BY <1>2, <3>4, <3>5, Zenon DEF StaleOK
  <2> QED BY <2>1, <2>2, Zenon
<1>7. CASE Atomic(t)
  <2>1. pc[t] = "atomic" /\ tlb_seqno_passed(want[t])
    BY <1>7, Zenon DEF Atomic
  <2>2. Asking(t) /\ Behind(t) /\ want[t] = my[t]
    BY <2>1, Zenon DEF StaleOK
  <2> QED BY <1>1, <1>3, <2>1, <2>2, Zenon DEF tlb_seqno_passed
<1>8. CASE BusyWait(t) \/ WaitEvent(t) \/ Last(t)
  <2>1. pc[t] \in {"busy_wait", "wait_event", "last"} /\ pc'[t] \notin {"send", "atomic"}
    BY <1>0, <1>8, Zenon DEF BusyWait, WaitEvent, Last
  <2>2. my[t] = 0 /\ nresets # 0
    BY <2>1, Zenon DEF StaleOK, Asking
  <2> QED BY <1>4, <2>1, <2>2, Zenon
<1> QED BY <1>5, <1>6, <1>7, <1>8, Zenon DEF LocalStep, Sync

\* A number that is handed out is newer than all others.
LEMMA StaleAlloc ==
    ASSUME TypeOK, Near, NEW t \in Threads, Alloc(t), NEW u \in Threads,
           u # t => StaleOK(u)
    PROVE  StaleOK(u)'
<1>0. /\ pc \in [Threads -> {"idle", "range", "lock", "send", "sync", "atomic",
                             "busy_wait", "wait_event", "asleep", "last", "done"}]
      /\ my \in [Threads -> Seqnos] /\ seqno \in Seqnos
  BY Zenon DEF TypeOK
<1>1. /\ UNCHANGED <<seqno, rpc, nresets, h2g, g2h, want, round>>
      /\ next_seqno' = intel_tlb_next_seqno
      /\ my' = [my EXCEPT ![t] = next_seqno'] /\ pc' = [pc EXCEPT ![t] = "send"]
  BY Zenon DEF Alloc, gt_vars, chan_vars
<1>2. PICK d \in {1, 2} : \A s \in Seqnos :
              /\ Age(s) \in Nat
              /\ Age(s) < Modulus \div 2 =>
                    (next_seqno' - s) % Modulus = Age(s) + d
  BY <1>1, AllocAges, Zenon
<1>3. /\ Age(seqno) \in Nat /\ (next_seqno' - seqno) % Modulus = Age(seqno) + d
      /\ \A i \in 1..Len(g2h) :
            Age(g2h[i]) \in Nat /\ (next_seqno' - g2h[i]) % Modulus = Age(g2h[i]) + d
  BY <1>0, <1>2, RingNumbers, Zenon DEF Near
<1>4. CASE u # t
  <2>1. my'[u] = my[u] /\ pc'[u] = pc[u] /\ my[u] \in Seqnos
    BY <1>0, <1>1, <1>4, Zenon
  <2>2. ASSUME Asking(u), Behind(u) PROVE Behind(u)'
    <3>1. Age(my[u]) \in Nat /\ (next_seqno' - my[u]) % Modulus = Age(my[u]) + d
      BY <1>2, <2>1, <2>2, Zenon DEF Near
    <3>2. \A a, b \in Nat : a < b => a + d < b + d
      OBVIOUS
    <3>3. (next_seqno' - my'[u]) % Modulus < (next_seqno' - seqno') % Modulus
      BY <1>1, <1>3, <2>1, <2>2, <3>1, <3>2, Zenon DEF Behind
    <3>4. \A i \in 1..Len(g2h') :
             (next_seqno' - my'[u]) % Modulus < (next_seqno' - g2h'[i]) % Modulus
      BY <1>1, <1>3, <2>1, <2>2, <3>1, <3>2, Zenon DEF Behind
    <3> QED BY <3>3, <3>4, Zenon DEF Behind, Age
  <2>3. Listed(u) => Listed(u)'
    BY <1>1, <2>1, Zenon DEF Listed, Mine
  <2> QED BY <1>1, <1>4, <2>1, <2>2, <2>3, StaleKept, Zenon
<1>5. CASE u = t
  <2>1. my'[t] = next_seqno' /\ pc'[t] = "send"
    BY <1>0, <1>1, Zenon
  <2>2. next_seqno' \in Seqnos /\ next_seqno' # 0
    BY <1>1, NextSeqno, Zenon DEF TypeOK
  <2>3. (next_seqno' - my'[t]) % Modulus = 0
    BY <2>1, <2>2, AgeFacts, Zenon DEF AgeAt
  <2>4. \A a \in Nat : 0 < a + d
    OBVIOUS
  <2>5. (next_seqno' - my'[t]) % Modulus < (next_seqno' - seqno') % Modulus
    BY <1>1, <1>3, <2>3, <2>4, Zenon
  <2>6. \A i \in 1..Len(g2h') :
           (next_seqno' - my'[t]) % Modulus < (next_seqno' - g2h'[i]) % Modulus
    BY <1>1, <1>3, <2>3, <2>4, Zenon
  <2>7. Behind(t)'
    BY <2>5, <2>6, Zenon DEF Behind, Age
  <2>8. Asking(t)'
    BY <2>1, <2>2, Zenon DEF Asking
  <2> QED BY <1>5, <2>1, <2>7, <2>8, Zenon DEF StaleOK
<1> QED BY <1>4, <1>5, Zenon

\* A number that was sent is in the ring; one that was refused is forgotten.
LEMMA StaleSend ==
    ASSUME TypeOK, ResetInv, NEW t \in Threads, Send(t), NEW u \in Threads, StaleOK(u)
    PROVE  StaleOK(u)'
<1> DEFINE H == [seqno : Seqnos \ {0}, by : Threads \X (1..MaxRounds)]
<1>0. /\ pc \in [Threads -> {"idle", "range", "lock", "send", "sync", "atomic",
                             "busy_wait", "wait_event", "asleep", "last", "done"}]
      /\ my \in [Threads -> Seqnos] /\ h2g \in Seq(H)
  BY Zenon DEF TypeOK
<1>1. /\ UNCHANGED <<seqno, next_seqno, rpc, nresets, g2h, want, round>>
      /\ pc[t] = "send" /\ pc' = [pc EXCEPT ![t] = "sync"]
  BY Zenon DEF Send, tlb_vars, gt_vars
<1>2. \/ /\ h2g' = Append(h2g, [seqno |-> my[t], by |-> Mine(t)])
         /\ my' = my
      \/ ~ct_enabled /\ my' = [my EXCEPT ![t] = 0] /\ h2g' = h2g
  BY Zenon DEF Send, Mine
<1>3. ASSUME NEW e, h2g' = Append(h2g, e)
      PROVE  /\ \A i \in 1..Len(h2g) : i \in 1..Len(h2g') /\ h2g'[i] = h2g[i]
             /\ Len(h2g) + 1 \in 1..Len(h2g') /\ h2g'[Len(h2g) + 1] = e
  BY <1>0, <1>3
<1>4. \A i \in 1..Len(h2g) : i \in 1..Len(h2g') /\ h2g'[i] = h2g[i]
  <2>1. CASE h2g' = h2g
    BY <2>1, Zenon
  <2>2. CASE h2g' # h2g
    <3>1. PICK e : h2g' = Append(h2g, e)
      BY <1>2, <2>2, Zenon
    <3> QED BY <1>3, <3>1, Zenon
  <2> QED BY <2>1, <2>2, Zenon
<1>5. CASE u # t
  <2>1. my'[u] = my[u] /\ pc'[u] = pc[u]
    BY <1>0, <1>1, <1>2, <1>5, Zenon
  <2>2. Behind(u) => Behind(u)'
    BY <1>1, <2>1, Zenon DEF Behind, Age
  <2>3. Listed(u) => Listed(u)'
    BY <1>1, <1>4, <2>1, Zenon DEF Listed, Mine
  <2> QED BY <1>1, <2>1, <2>2, <2>3, StaleKept, Zenon
<1>6. CASE u = t
  <2>1. Asking(t) /\ Behind(t) /\ my[t] # 0 /\ pc'[t] = "sync"
    BY <1>0, <1>1, <1>6, Zenon DEF StaleOK, Asking
  <2>2. CASE my' = my /\ h2g' = Append(h2g, [seqno |-> my[t], by |-> Mine(t)])
    <3>1. PICK e : e = [seqno |-> my[t], by |-> Mine(t)]
      BY Zenon
    <3>2. e.seqno = my[t] /\ e.by = Mine(t)
      BY <3>1, Zenon
    <3>3. Len(h2g) + 1 \in 1..Len(h2g') /\ h2g'[Len(h2g) + 1] = e
      BY <1>3, <2>2, <3>1, Zenon
    <3>4. Mine(t)' = Mine(t)
      BY <1>1, Zenon DEF Mine
    <3>5. Listed(t)'
      BY <2>2, <3>2, <3>3, <3>4, Zenon DEF Listed
    <3>6. Asking(t)' /\ Behind(t)'
      BY <1>1, <2>1, <2>2, Zenon DEF Asking, Behind, Age
    <3> QED BY <1>6, <2>1, <3>5, <3>6, Zenon DEF StaleOK
  <2>3. CASE ~ct_enabled /\ my' = [my EXCEPT ![t] = 0]
    <3>1. my'[t] = 0 /\ nresets' # 0
      BY <1>0, <1>1, <2>3, Zenon DEF ResetInv
    <3> QED BY <1>6, <2>1, <3>1, Zenon DEF StaleOK
  <2> QED BY <1>2, <2>2, <2>3, Zenon
<1> QED BY <1>5, <1>6, Zenon

\* What the GuC reports is older than every number whose update it has not yet
\* removed.
LEMMA StaleGuc ==
    ASSUME TypeOK, ThreadInv, RingInv, Steady, GucInvalidate, NEW u \in Threads,
           StaleOK(u), Mine(u)' \in stale'
    PROVE  StaleOK(u)'
<1> DEFINE H == [seqno : Seqnos \ {0}, by : Threads \X (1..MaxRounds)]
           G == Seqnos \ {0}
<1>0. h2g \in Seq(H) /\ g2h \in Seq(G) /\ next_seqno \in Seqnos
  BY Zenon DEF TypeOK
<1>1. /\ h2g # <<>> /\ rpc = "none" /\ stale' = stale \ {Head(h2g).by}
      /\ h2g' = Tail(h2g) /\ g2h' = Append(g2h, Head(h2g).seqno)
      /\ UNCHANGED <<seqno, rpc, nresets, pc>>
  BY Zenon DEF GucInvalidate, tlb_vars, gt_vars, thread_vars
<1>2. UNCHANGED <<next_seqno, my, want, round>>
  BY Zenon DEF Steady
<1>3. /\ Head(h2g) = h2g[1] /\ 1 \in 1..Len(h2g)
      /\ \A i \in 1..Len(h2g) : i # 1 => /\ i - 1 \in 1..Len(h2g')
                                         /\ h2g'[i - 1] = h2g[i]
  <2> HIDE DEF H
  <2> QED BY <1>0, <1>1, TailEntries, Zenon
<1>4. \A i \in 1..Len(g2h') : \/ i \in 1..Len(g2h) /\ g2h'[i] = g2h[i]
                              \/ g2h'[i] = Head(h2g).seqno
  <2>1. PICK e : e = Head(h2g).seqno
    BY Zenon
  <2>2. g2h' = Append(g2h, e)
    BY <1>1, <2>1, Zenon
  <2>3. \A i \in 1..Len(g2h') : \/ i \in 1..Len(g2h) /\ g2h'[i] = g2h[i]
                                \/ g2h'[i] = e
    BY <1>0, <2>2
  <2> QED BY <2>1, <2>3, Zenon
<1>5. ASSUME NEW i \in 1..Len(h2g), h2g[i].by = Mine(u) PROVE i # 1
  BY <1>1, <1>2, <1>3, <1>5, Zenon DEF Mine
<1>6. ASSUME Asking(u), pc[u] = "send" \/ Listed(u)
      PROVE  Age(my[u]) < Age(Head(h2g).seqno)
  <2>1. CASE pc[u] = "send"
    <3>1. my[u] = next_seqno
      BY <2>1, Zenon DEF ThreadInv
    <3>2. Age(my[u]) = 0
      BY <1>0, <3>1, AgeFacts, Zenon DEF Age, AgeAt
    <3>3. Age(h2g[1].seqno) > 0
      BY <1>3, <2>1, Zenon DEF RingInv
    <3> QED BY <1>3, <3>2, <3>3, Zenon
  <2>2. CASE Listed(u)
    <3>1. PICK i \in 1..Len(h2g) : h2g[i].by = Mine(u) /\ h2g[i].seqno = my[u]
      BY <2>2, Zenon DEF Listed
    <3>2. 1 < i
      BY <1>5, <3>1
    <3>3. Age(h2g[1].seqno) > Age(h2g[i].seqno)
      BY <1>3, <3>2, Zenon DEF RingInv
    <3> QED BY <1>3, <3>1, <3>3, Zenon
  <2> QED BY <1>6, <2>1, <2>2, Zenon
<1>7. ASSUME Asking(u), Behind(u), pc[u] = "send" \/ Listed(u) PROVE Behind(u)'
  <2>1. Age(my[u]) < Age(Head(h2g).seqno)
    BY <1>6, <1>7, Zenon
  <2>2. \A i \in 1..Len(g2h') : Age(my[u]) < Age(g2h'[i])
    BY <1>4, <1>7, <2>1, Zenon DEF Behind
  <2>3. Age(my[u]) < Age(seqno)
    BY <1>7, Zenon DEF Behind
  <2> QED BY <1>1, <1>2, <2>2, <2>3, Zenon DEF Behind, Age
<1>8. ASSUME Listed(u) PROVE Listed(u)'
  <2>1. PICK i \in 1..Len(h2g) : h2g[i].by = Mine(u) /\ h2g[i].seqno = my[u]
    BY <1>8, Zenon DEF Listed
  <2>2. i - 1 \in 1..Len(h2g') /\ h2g'[i - 1] = h2g[i]
    BY <1>3, <1>5, <2>1, Zenon
  <2> QED BY <1>2, <2>1, <2>2, Zenon DEF Listed, Mine
<1>9. CASE pc[u] \in {"range", "lock"}
  BY <1>1, <1>9, Zenon DEF StaleOK
<1>10. CASE my[u] = 0 /\ nresets # 0 /\ pc[u] \notin {"send", "atomic"}
  BY <1>1, <1>2, <1>10, Zenon DEF StaleOK
<1>11. CASE /\ Asking(u) /\ Behind(u)
            /\ pc[u] = "send" \/ Listed(u)
            /\ pc[u] = "atomic" => want[u] = my[u]
  <2>1. Behind(u)' /\ (pc'[u] = "send" \/ Listed(u)')
    BY <1>1, <1>7, <1>8, <1>11, Zenon
  <2>2. Asking(u)' /\ (pc'[u] = "atomic" => want'[u] = my'[u])
    BY <1>1, <1>2, <1>11, Zenon DEF Asking
  <2> QED BY <2>1, <2>2, Zenon DEF StaleOK
<1>12. rpc # "prepared"
  BY <1>1
<1> QED BY <1>9, <1>10, <1>11, <1>12, Zenon DEF StaleOK

\* A completion is one of those that the GuC has reported.
LEMMA StaleDone ==
    ASSUME TypeOK, Steady, Done, NEW u \in Threads, StaleOK(u)
    PROVE  StaleOK(u)'
<1> DEFINE G == Seqnos \ {0}
<1>0. g2h \in Seq(G)
  BY Zenon DEF TypeOK
<1>1. /\ g2h # <<>> /\ g2h' = Tail(g2h) /\ seqno' \in {seqno, Head(g2h)}
      /\ UNCHANGED <<h2g, rpc, nresets>>
  BY Zenon DEF Done, Advance, gt_vars
<1>2. UNCHANGED <<next_seqno, my, want, round>>
  BY Zenon DEF Steady
<1>3. /\ Head(g2h) = g2h[1] /\ 1 \in 1..Len(g2h)
      /\ \A i \in 1..Len(g2h') : i + 1 \in 1..Len(g2h) /\ g2h'[i] = g2h[i + 1]
  <2> HIDE DEF G
  <2> QED BY <1>0, <1>1, TailEntries, Zenon
<1>4. ASSUME Behind(u) PROVE Behind(u)'
  <2>1. Age(my[u]) < Age(seqno')
    BY <1>1, <1>3, <1>4, Zenon DEF Behind
  <2>2. \A i \in 1..Len(g2h') : Age(my[u]) < Age(g2h'[i])
    BY <1>3, <1>4, Zenon DEF Behind
  <2> QED BY <1>2, <2>1, <2>2, Zenon DEF Behind, Age
<1>5. Listed(u) => Listed(u)'
  BY <1>1, <1>2, Zenon DEF Listed, Mine
<1>6. pc'[u] = pc[u] \/ (pc[u] = "asleep" /\ pc'[u] = "wait_event")
  BY Zenon DEF Steady
<1>7. pc[u] = "send" => pc'[u] = "send"
  BY <1>6, Zenon
<1> QED BY <1>1, <1>2, <1>4, <1>5, <1>6, <1>7, StaleKept, Zenon

\* Every step keeps what is said of the updates.
LEMMA TlbStale ==
    ASSUME TypeOK, ThreadInv, RingInv, ResetInv, StaleInv, Near, [Next]_vars
    PROVE  StaleInv'
<1>0. /\ pc \in [Threads -> {"idle", "range", "lock", "send", "sync", "atomic",
                             "busy_wait", "wait_event", "asleep", "last", "done"}]
      /\ my \in [Threads -> Seqnos] /\ round \in [Threads -> 0..MaxRounds]
  BY Zenon DEF TypeOK
<1> SUFFICES ASSUME NEW u \in Threads, caller'[u] = "ufence", Mine(u)' \in stale'
             PROVE  StaleOK(u)'
  BY Zenon DEF StaleInv
<1>1. ASSUME stale' \subseteq stale, round'[u] = round[u], caller'[u] = caller[u]
      PROVE  caller[u] = "ufence" /\ Mine(u) \in stale /\ StaleOK(u)
  BY <1>1, Zenon DEF StaleInv, Mine
<1>2. ASSUME StaleOK(u), my'[u] = my[u], want'[u] = want[u], round'[u] = round[u],
             \/ pc'[u] = pc[u]
             \/ pc[u] = "asleep" /\ pc'[u] = "wait_event",
             UNCHANGED <<seqno, next_seqno, rpc, nresets, h2g, g2h>>
      PROVE  StaleOK(u)'
  <2>1. Behind(u) => Behind(u)'
    BY <1>2, Zenon DEF Behind, Age
  <2>2. Listed(u) => Listed(u)'
    BY <1>2, Zenon DEF Listed, Mine
  <2>3. pc[u] = "send" => pc'[u] = "send"
    BY <1>2, Zenon
  <2> QED BY <1>2, <2>1, <2>2, <2>3, StaleKept, Zenon
<1>3. ASSUME NEW t \in Threads, Update(t) PROVE StaleOK(u)'
  <2>1. /\ UNCHANGED <<seqno, next_seqno, rpc, nresets, h2g, g2h, caller, want>>
        /\ pc' = [pc EXCEPT ![t] = "range"] /\ my' = [my EXCEPT ![t] = 0]
        /\ round' = [round EXCEPT ![t] = round[t] + 1]
        /\ stale' \subseteq stale \cup {<<t, round'[t]>>}
    BY <1>3, Zenon DEF Update, tlb_vars, gt_vars, chan_vars
  <2>2. CASE u = t
    BY <1>0, <2>1, <2>2, Zenon DEF StaleOK
  <2>3. CASE u # t
    <3>1. my'[u] = my[u] /\ round'[u] = round[u] /\ pc'[u] = pc[u]
      BY <1>0, <2>1, <2>3, Zenon
    <3>2. <<u, round[u]>> # <<t, round'[t]>>
      BY <2>3
    <3>3. Mine(u) \in stale
      BY <2>1, <3>1, <3>2, Zenon DEF Mine
    <3>4. StaleOK(u)
      BY <2>1, <3>3, Zenon DEF StaleInv
    <3> QED BY <1>2, <2>1, <3>1, <3>4, Zenon
  <2> QED BY <2>2, <2>3, Zenon
<1>4. ASSUME NEW t \in Threads, LocalStep(t) PROVE StaleOK(u)'
  <2>1. /\ UNCHANGED <<seqno, next_seqno, rpc, nresets, h2g, g2h, caller, my, round, stale>>
        /\ u # t => want'[u] = want[u]
    BY <1>4, LocalFacts, Zenon
  <2>2. caller[u] = "ufence" /\ Mine(u) \in stale /\ StaleOK(u)
    BY <1>1, <2>1, Zenon
  <2>3. CASE u = t
    BY <1>4, <2>2, <2>3, StaleLocal, Zenon
  <2>4. CASE u # t
    <3>1. PICK x : pc' = [pc EXCEPT ![t] = x]
      BY <1>4, LocalFacts, Zenon
    <3>2. pc'[u] = pc[u]
      BY <1>0, <2>4, <3>1, Zenon
    <3> QED BY <1>2, <2>1, <2>2, <2>4, <3>2, Zenon
  <2> QED BY <2>3, <2>4, Zenon
<1>5. ASSUME NEW t \in Threads, Alloc(t) PROVE StaleOK(u)'
  <2>1. UNCHANGED <<caller, round, stale>>
    BY <1>5, Zenon DEF Alloc
  <2> QED BY <1>1, <1>5, <2>1, StaleAlloc, Zenon
<1>6. ASSUME NEW t \in Threads, Send(t) PROVE StaleOK(u)'
  <2>1. UNCHANGED <<caller, round, stale>>
    BY <1>6, Zenon DEF Send
  <2> QED BY <1>1, <1>6, <2>1, StaleSend, Zenon
<1>7. ASSUME Steady, stale' \subseteq stale PROVE StaleOK(u) /\ Mine(u) \in stale
  BY <1>1, <1>7, Zenon DEF Steady
<1>8. ASSUME Steady, GucInvalidate PROVE StaleOK(u)'
  <2>1. stale' \subseteq stale
    BY <1>8, Zenon DEF GucInvalidate
  <2> QED BY <1>7, <1>8, <2>1, StaleGuc, Zenon
<1>9. ASSUME Steady, Done PROVE StaleOK(u)'
  <2>1. stale' \subseteq stale
    BY <1>9, Zenon DEF Done
  <2> QED BY <1>7, <1>9, <2>1, StaleDone, Zenon
<1>10. ASSUME Steady, UNCHANGED <<seqno, rpc, nresets, h2g, g2h, stale>>
       PROVE  StaleOK(u)'
  BY <1>2, <1>7, <1>10, Zenon DEF Steady
<1>11. ASSUME Unpark \/ UNCHANGED vars
       PROVE  UNCHANGED <<seqno, rpc, nresets, h2g, g2h, stale>>
  BY <1>11, Zenon DEF Unpark, vars, tlb_vars, gt_vars, chan_vars
<1>12. ASSUME Steady, ResetPrepare PROVE StaleOK(u)'
  <2>1. /\ UNCHANGED <<seqno, g2h, stale>> /\ rpc' = "prepared"
    BY <1>12, Zenon DEF ResetPrepare, tlb_vars
  <2>2. nresets # 0 => nresets' # 0
    BY <1>12, BoundsAssumption DEF ResetPrepare, TypeOK
  <2>3. Behind(u) => Behind(u)'
    BY <1>12, <2>1, Zenon DEF Behind, Age, Steady
  <2>4. StaleOK(u)
    BY <1>7, <1>12, <2>1, Zenon
  <2>5. /\ my'[u] = my[u] /\ want'[u] = want[u]
        /\ pc'[u] = pc[u] \/ (pc[u] = "asleep" /\ pc'[u] = "wait_event")
    BY <1>12, Zenon DEF Steady
  <2> QED BY <2>1, <2>2, <2>3, <2>4, <2>5, StaleKept, Zenon
<1>13. ASSUME Park \/ HwReset PROVE FALSE
  BY <1>13, Zenon DEF Park, HwReset
<1>14. ASSUME RevokeRead \/ RevokeStore \/ Restart \/ SetWedged PROVE FALSE
  <2>1. stale' = stale /\ rpc \in {"reset", "revoke", "revoked", "failed"}
    BY <1>14, Zenon DEF RevokeRead, RevokeStore, Restart, SetWedged
  <2>2. rpc \notin {"none", "prepared"}
    BY <2>1
  <2> QED BY <2>1, <2>2, Zenon DEF ResetInv
<1> QED BY <1>3, <1>4, <1>5, <1>6, <1>8, <1>9, <1>10, <1>11, <1>12, <1>13, <1>14,
           StepKinds, Zenon DEF Reset

\* Together.
LEMMA TlbStep ==
    ASSUME TlbIInv, Near, [Next]_vars
    PROVE  TlbIInv'
BY TlbTypes, TlbThreads, TlbRing, TlbResets, TlbStale, Zenon DEF TlbIInv

\* The invariant holds as long as the numbers are near.
LEMMA TlbInductive == Spec /\ []Near => []TlbIInv
BY TlbInit, TlbStep, PTL DEF Spec

\* The types do not depend on how old a number may be.
THEOREM TlbTypeCorrect == Spec => []TypeOK
<1>1. Init => TypeOK /\ ThreadInv
  BY TlbInit, Zenon DEF TlbIInv
<1>2. TypeOK /\ ThreadInv /\ [Next]_vars => (TypeOK /\ ThreadInv)'
  BY TlbTypes, TlbThreads, Zenon
<1> QED BY <1>1, <1>2, PTL DEF Spec

\* When ufence_sync() goes on no TLB holds the old translation any more, for
\* every number of threads, resets and parks and wherever the numbers wrap, as
\* long as no number in use is half of the number space old.
THEOREM SyncIsClean == Spec /\ []Near => []SyncedClean
<1>1. ASSUME TlbIInv PROVE SyncedClean
  <2>1. ASSUME NEW t \in Threads, pc[t] = "done", caller[t] = "ufence",
               my[t] # 0 \/ nresets = 0, <<t, round[t]>> \in stale
        PROVE  FALSE
    <3>1. StaleOK(t)
      BY <1>1, <2>1, Zenon DEF TlbIInv, StaleInv, Mine
    <3> QED BY <2>1, <3>1, Zenon DEF StaleOK, Asking
  <2> QED BY <1>1, <2>1, Zenon DEF SyncedClean, TlbIInv
<1> QED BY <1>1, TlbInductive, PTL

\* intel_tlb_advance() and the revokes of a park, a reset and a wedge never
\* take the completed number backwards, under the same condition.
THEOREM NeverBackwards == Spec /\ []Near => SeqnoForward
<1>1. ASSUME TlbIInv, Near, [Next]_vars PROVE Passed(seqno', seqno) \/ UNCHANGED vars
  <2>0. /\ seqno \in Seqnos /\ next_seqno \in Seqnos /\ rev \in Seqnos
        /\ g2h \in Seq(Seqnos \ {0})
    BY <1>1, Zenon DEF TlbIInv, TypeOK
  <2>1. /\ AgeAt(next_seqno, next_seqno) = 0
        /\ AgeAt(next_seqno, seqno) \in 0..(Modulus - 1)
        /\ AgeAt(next_seqno, seqno) < Modulus \div 2
        /\ Modulus \in Nat /\ 0 < Modulus \div 2
    <3>1. AgeAt(next_seqno, seqno) < Modulus \div 2
      BY <1>1, Zenon DEF Near, Age, AgeAt
    <3>2. Modulus \in Nat /\ 0 < Modulus \div 2
      BY Half
    <3> QED BY <2>0, <3>1, <3>2, AgeFacts, Zenon
  <2>2. ASSUME seqno' \in Seqnos, AgeAt(next_seqno, seqno') < Modulus \div 2,
               AgeAt(next_seqno, seqno') <= AgeAt(next_seqno, seqno)
        PROVE  Passed(seqno', seqno)
    BY <2>0, <2>1, <2>2, PassedAge, Zenon
  <2>3. CASE seqno' = seqno
    <3>1. AgeAt(next_seqno, seqno) <= AgeAt(next_seqno, seqno)
      BY <2>1
    <3> QED BY <2>0, <2>1, <2>2, <2>3, <3>1, Zenon
  <2>4. CASE seqno' = next_seqno
    <3>1. AgeAt(next_seqno, next_seqno) <= AgeAt(next_seqno, seqno)
      BY <2>1
    <3> QED BY <2>0, <2>1, <2>2, <2>4, <3>1, Zenon
  <2>5. CASE RevokeStore
    <3>1. seqno' = rev /\ rpc = "revoke"
      BY <2>5, Zenon DEF RevokeStore
    <3>2. /\ AgeAt(next_seqno, rev) <= AgeAt(next_seqno, seqno)
          /\ AgeAt(next_seqno, rev) < Modulus \div 2
      BY <1>1, <3>1, Zenon DEF TlbIInv, ResetInv, Near, Age, AgeAt
    <3> QED BY <2>0, <2>2, <3>1, <3>2, Zenon
  <2>6. CASE Done
    <3>1. CASE seqno' # seqno
      <4>1. g2h # <<>> /\ seqno' = Head(g2h) /\ ~Passed(seqno, Head(g2h))
        BY <2>6, <3>1, Zenon DEF Done, Advance
      <4>2. Head(g2h) = g2h[1] /\ 1 \in 1..Len(g2h)
        BY <2>0, <4>1
      <4>3. Head(g2h) \in Seqnos /\ AgeAt(next_seqno, Head(g2h)) < Modulus \div 2
        BY <1>1, <4>2, RingNumbers, Zenon DEF TlbIInv, Near, Age, AgeAt
      <4>4. ~(AgeAt(next_seqno, seqno) <= AgeAt(next_seqno, Head(g2h)))
        BY <2>0, <2>1, <4>1, <4>3, PassedAge, Zenon
      <4>5. AgeAt(next_seqno, Head(g2h)) \in 0..(Modulus - 1)
        BY <2>0, <4>3, AgeFacts, Zenon
      <4>6. AgeAt(next_seqno, Head(g2h)) <= AgeAt(next_seqno, seqno)
        BY <2>1, <4>4, <4>5
      <4> QED BY <2>2, <4>1, <4>3, <4>6, Zenon
    <3> QED BY <2>3, <3>1, Zenon
  <2>7. CASE Park \/ SetWedged
    BY <2>3, <2>4, <2>7, Zenon DEF Park, SetWedged
  <2>8. CASE GucInvalidate \/ Unpark \/ ResetPrepare \/ HwReset \/ RevokeRead \/ Restart
    BY <2>3, <2>8, Zenon DEF GucInvalidate, Unpark, ResetPrepare, HwReset, RevokeRead,
                             Restart, tlb_vars
  <2>9. ASSUME NEW t \in Threads, Update(t) \/ LocalStep(t) \/ Alloc(t) \/ Send(t)
        PROVE  seqno' = seqno
    BY <1>1, <2>9, LocalFacts, Zenon DEF TlbIInv, Update, Alloc, Send, tlb_vars
  <2> QED BY <1>1, <2>3, <2>5, <2>6, <2>7, <2>8, <2>9, StepKinds, Zenon
          DEF TlbIInv, Reset
<1>2. TlbIInv /\ Near /\ [Next]_vars => [Passed(seqno', seqno)]_vars
  BY <1>1, Zenon
<1> QED BY <1>2, TlbInductive, PTL DEF Spec, SeqnoForward
-----------------------------------------------------------------------------
(* Numbers stay near while few are handed out.                             *)

\* Fewer updates than a quarter of the numbers, of which each takes one number
\* or, where they wrap, two.
FewUpdates ==
    /\ IsFiniteSet(Threads)
    /\ 4 * Cardinality(Threads \X (1..MaxRounds)) < Modulus

\* The updates that have their number, or go on without one.
Made ==
    {x \in Threads \X (1..MaxRounds) :
        /\ x[2] <= round[x[1]]
        /\ x[2] = round[x[1]] => pc[x[1]] \notin {"range", "lock"}}

\* No number in use is older than the first.
SinceStart(s) == Age(s) <= Age(Start)

WindowInv ==
    /\ SinceStart(seqno)
    /\ rpc = "revoke" => SinceStart(rev)
    /\ \A i \in 1..Len(h2g) : SinceStart(h2g[i].seqno)
    /\ \A i \in 1..Len(g2h) : SinceStart(g2h[i])
    /\ \A t \in Threads : Asking(t) => SinceStart(my[t])
    /\ \A t \in Threads : pc[t] = "range" => my[t] = 0

FewIInv ==
    TypeOK /\ ThreadInv /\ WindowInv /\ Age(Start) <= 2 * Cardinality(Made)

\* How many updates there are.
LEMMA MadeFew ==
    ASSUME FewUpdates
    PROVE  /\ IsFiniteSet(Made) /\ Cardinality(Made) \in Nat
           /\ 2 * Cardinality(Made) < Modulus \div 2
<1> DEFINE All == Threads \X (1..MaxRounds)
<1>1. IsFiniteSet(All)
  <2>1. IsFiniteSet(1..MaxRounds)
    BY FS_Interval, BoundsAssumption
  <2> QED BY <2>1, FS_Product, Zenon DEF FewUpdates
<1>2. Made \in SUBSET All
  BY DEF Made
<1>3. 4 * Cardinality(All) < Modulus
  BY Zenon DEF FewUpdates
<1> HIDE DEF All
<1>4. IsFiniteSet(Made) /\ Cardinality(Made) <= Cardinality(All)
  BY <1>1, <1>2, FS_Subset, Zenon
<1>5. Cardinality(Made) \in Nat /\ Cardinality(All) \in Nat
  BY <1>1, <1>4, FS_CardinalityType, Zenon
<1> QED BY <1>3, <1>4, <1>5, Half

\* So the first number is near, and all others are.
LEMMA FewNear ==
    ASSUME FewUpdates, FewIInv
    PROVE  Near /\ Age(Start) < Modulus \div 2
<1>1. next_seqno \in Seqnos /\ seqno \in Seqnos /\ rev \in Seqnos
      /\ my \in [Threads -> Seqnos]
  BY Zenon DEF FewIInv, TypeOK
<1>2. \A s \in Seqnos : Age(s) \in 0..(Modulus - 1)
  BY <1>1, AgeFacts, Zenon DEF Age, AgeAt
<1>3. Age(Start) < Modulus \div 2
  <2>1. Age(Start) \in 0..(Modulus - 1) /\ Age(Start) <= 2 * Cardinality(Made)
    BY <1>2, StartAssumption, Zenon DEF FewIInv
  <2> HIDE DEF Made
  <2> QED BY <2>1, MadeFew, Half
<1>4. ASSUME NEW s \in Seqnos, SinceStart(s) PROVE Age(s) < Modulus \div 2
  <2>1. Age(s) \in 0..(Modulus - 1) /\ Age(Start) \in 0..(Modulus - 1)
    BY <1>2, StartAssumption, Zenon
  <2>2. Age(s) <= Age(Start)
    BY <1>4, Zenon DEF SinceStart
  <2> QED BY <1>3, <2>1, <2>2, Half
<1>5. /\ \A i \in 1..Len(h2g) : h2g[i].seqno \in Seqnos
      /\ \A i \in 1..Len(g2h) : g2h[i] \in Seqnos
  BY RingNumbers, Zenon DEF FewIInv
<1>6. \A t \in Threads : my[t] \in Seqnos
  BY <1>1, Zenon
<1> QED BY <1>1, <1>3, <1>4, <1>5, <1>6, Zenon DEF Near, FewIInv, WindowInv

\* A step that hands out no number keeps the window when all numbers in use
\* were in use before.
LEMMA WindowKept ==
    ASSUME WindowInv, next_seqno' = next_seqno,
           SinceStart(seqno'),
           rpc' = "revoke" => SinceStart(rev'),
           \A i \in 1..Len(h2g') : SinceStart(h2g'[i].seqno),
           \A i \in 1..Len(g2h') : SinceStart(g2h'[i]),
           \A t \in Threads : Asking(t)' => SinceStart(my'[t]),
           \A t \in Threads : pc'[t] = "range" => my'[t] = 0
    PROVE  WindowInv'
BY Zenon DEF WindowInv, SinceStart, Age

\* Handing out a number keeps it as well.
LEMMA WindowAlloc ==
    ASSUME TypeOK, WindowInv, Age(Start) < Modulus \div 2, NEW t \in Threads, Alloc(t)
    PROVE  WindowInv' /\ Age(Start)' \in Nat /\ Age(Start)' <= Age(Start) + 2
<1>0. /\ pc \in [Threads -> {"idle", "range", "lock", "send", "sync", "atomic",
                             "busy_wait", "wait_event", "asleep", "last", "done"}]
      /\ my \in [Threads -> Seqnos] /\ seqno \in Seqnos /\ rev \in Seqnos
      /\ next_seqno \in Seqnos /\ Start \in Seqnos
  BY StartAssumption, Zenon DEF TypeOK
<1>1. /\ UNCHANGED <<seqno, rpc, rev, h2g, g2h>>
      /\ next_seqno' = intel_tlb_next_seqno
      /\ my' = [my EXCEPT ![t] = next_seqno'] /\ pc' = [pc EXCEPT ![t] = "send"]
  BY Zenon DEF Alloc, gt_vars, chan_vars
<1>2. PICK d \in {1, 2} : \A s \in Seqnos :
              /\ Age(s) \in Nat
              /\ Age(s) < Modulus \div 2 =>
                    (next_seqno' - s) % Modulus = Age(s) + d
  BY <1>1, AllocAges, Zenon
<1>3. Age(Start) \in Nat /\ (next_seqno' - Start) % Modulus = Age(Start) + d
  BY <1>0, <1>2, Zenon
<1>4. ASSUME NEW s \in Seqnos, SinceStart(s)
      PROVE  (next_seqno' - s) % Modulus <= (next_seqno' - Start) % Modulus
  <2>1. Age(s) \in Nat /\ Age(s) <= Age(Start)
    BY <1>2, <1>4, Zenon DEF SinceStart
  <2>2. Age(s) < Modulus \div 2
    BY <1>3, <2>1, Half
  <2>3. (next_seqno' - s) % Modulus = Age(s) + d
    BY <1>2, <2>2, Zenon
  <2> QED BY <1>3, <2>1, <2>3
<1>5. (next_seqno' - next_seqno') % Modulus <= (next_seqno' - Start) % Modulus
  <2>1. next_seqno' \in Seqnos
    BY <1>0, <1>1, NextSeqno, Zenon
  <2>2. (next_seqno' - next_seqno') % Modulus = 0
    BY <2>1, AgeFacts, Zenon DEF AgeAt
  <2> QED BY <1>3, <2>2
<1>6. /\ SinceStart(seqno)' /\ (rpc' = "revoke" => SinceStart(rev)')
  BY <1>0, <1>1, <1>4, Zenon DEF WindowInv, SinceStart, Age
<1>7. \A i \in 1..Len(h2g') : SinceStart(h2g[i].seqno)'
  BY <1>1, <1>4, RingNumbers, Zenon DEF WindowInv, SinceStart, Age
<1>8. \A i \in 1..Len(g2h') : SinceStart(g2h[i])'
  BY <1>1, <1>4, RingNumbers, Zenon DEF WindowInv, SinceStart, Age
<1>9. ASSUME NEW u \in Threads
      PROVE  /\ Asking(u)' => SinceStart(my[u])'
             /\ pc'[u] = "range" => my'[u] = 0
  <2>1. CASE u = t
    <3>1. my'[u] = next_seqno' /\ pc'[u] = "send"
      BY <1>0, <1>1, <2>1, Zenon
    <3> QED BY <1>5, <3>1, Zenon DEF SinceStart, Age
  <2>2. CASE u # t
    <3>1. my'[u] = my[u] /\ pc'[u] = pc[u] /\ my[u] \in Seqnos
      BY <1>0, <1>1, <2>2, Zenon
    <3> QED BY <1>4, <3>1, Zenon DEF WindowInv, SinceStart, Age, Asking
  <2> QED BY <2>1, <2>2, Zenon
<1>10. WindowInv'
  BY <1>6, <1>7, <1>8, <1>9, Zenon DEF WindowInv
<1>11. Age(Start)' = Age(Start) + d
  BY <1>3, Zenon DEF Age
<1> QED BY <1>3, <1>10, <1>11

\* Every step keeps the window.
LEMMA WindowStep ==
    ASSUME TypeOK, ThreadInv, WindowInv, Age(Start) < Modulus \div 2, [Next]_vars
    PROVE  WindowInv'
<1> DEFINE H == [seqno : Seqnos \ {0}, by : Threads \X (1..MaxRounds)]
           G == Seqnos \ {0}
<1>0. /\ pc \in [Threads -> {"idle", "range", "lock", "send", "sync", "atomic",
                             "busy_wait", "wait_event", "asleep", "last", "done"}]
      /\ my \in [Threads -> Seqnos] /\ h2g \in Seq(H) /\ g2h \in Seq(G)
      /\ next_seqno \in Seqnos
  BY Zenon DEF TypeOK
<1>1. SinceStart(next_seqno)
  <2>1. /\ AgeAt(next_seqno, next_seqno) = 0
        /\ AgeAt(next_seqno, Start) \in 0..(Modulus - 1)
    BY <1>0, AgeFacts, StartAssumption, Zenon
  <2>2. AgeAt(next_seqno, next_seqno) <= AgeAt(next_seqno, Start)
    BY <2>1, Half
  <2> QED BY <2>2, Zenon DEF SinceStart, Age, AgeAt
<1>2. ASSUME UNCHANGED <<next_seqno, seqno, rpc, rev, h2g, g2h>>,
             \A t \in Threads : /\ Asking(t)' => Asking(t) /\ my'[t] = my[t]
                                /\ pc'[t] = "range" => my'[t] = 0
      PROVE  WindowInv'
  BY <1>2, WindowKept, Zenon DEF WindowInv
<1>3. ASSUME NEW t \in Threads, Update(t) PROVE WindowInv'
  <2>1. /\ UNCHANGED <<next_seqno, seqno, rpc, rev, h2g, g2h>>
        /\ my' = [my EXCEPT ![t] = 0] /\ pc' = [pc EXCEPT ![t] = "range"]
    BY <1>3, Zenon DEF Update, tlb_vars, gt_vars, chan_vars
  <2>2. \A u \in Threads : /\ Asking(u)' => Asking(u) /\ my'[u] = my[u]
                           /\ pc'[u] = "range" => my'[u] = 0
    BY <1>0, <2>1, Zenon DEF Asking, WindowInv
  <2> QED BY <1>2, <2>1, <2>2, Zenon
<1>4. ASSUME NEW t \in Threads, LocalStep(t) PROVE WindowInv'
  <2>1. UNCHANGED <<next_seqno, seqno, rpc, rev, h2g, g2h, my>>
    BY <1>4, LocalFacts, Zenon
  <2>2. PICK x : pc' = [pc EXCEPT ![t] = x] /\ x # "range" /\ x # "send"
    BY <1>4, LocalFacts, Zenon
  <2>3. x \in {"sync", "atomic"} => pc[t] \in {"range", "sync"}
    <3>1. pc'[t] = x
      BY <1>0, <2>2, Zenon
    <3> QED BY <1>0, <1>4, <3>1, Zenon DEF LocalStep, InvalidateRange, Sync, SyncStart,
                             Atomic, BusyWait, WaitEvent, Last
  <2>4. ASSUME NEW u \in Threads
        PROVE  /\ Asking(u)' => Asking(u) /\ my'[u] = my[u]
               /\ pc'[u] = "range" => my'[u] = 0
    <3>1. CASE u = t
      <4>1. pc'[u] = x
        BY <1>0, <2>2, <3>1, Zenon
      <4> QED BY <2>1, <2>2, <2>3, <3>1, <4>1, Zenon DEF Asking, WindowInv
    <3>2. CASE u # t
      <4>1. pc'[u] = pc[u]
        BY <1>0, <2>2, <3>2, Zenon
      <4> QED BY <2>1, <4>1, Zenon DEF Asking, WindowInv
    <3> QED BY <3>1, <3>2, Zenon
  <2> QED BY <1>2, <2>1, <2>4, Zenon
<1>5. ASSUME NEW t \in Threads, Alloc(t) PROVE WindowInv'
  BY <1>5, WindowAlloc, Zenon
<1>6. ASSUME NEW t \in Threads, Send(t) PROVE WindowInv'
  <2>1. /\ UNCHANGED <<next_seqno, seqno, rpc, rev, g2h>>
        /\ pc[t] = "send" /\ pc' = [pc EXCEPT ![t] = "sync"]
        /\ my' = my \/ my' = [my EXCEPT ![t] = 0]
    BY <1>6, Zenon DEF Send, tlb_vars, gt_vars
  <2>2. SinceStart(my[t])
    BY <2>1, Zenon DEF WindowInv, Asking, ThreadInv
  <2>3. ASSUME NEW i \in 1..Len(h2g') PROVE SinceStart(h2g'[i].seqno)
    <3>1. CASE h2g' = h2g
      BY <2>3, <3>1, Zenon DEF WindowInv
    <3>2. CASE h2g' # h2g
      <4>1. PICK e : e = [seqno |-> my[t], by |-> <<t, round[t]>>] /\ h2g' = Append(h2g, e)
        BY <1>6, <3>2, Zenon DEF Send
      <4>2. (i \in 1..Len(h2g) /\ h2g'[i] = h2g[i]) \/ h2g'[i] = e
        BY <1>0, <2>3, <4>1
      <4>3. e.seqno = my[t]
        BY <4>1, Zenon
      <4> QED BY <2>2, <4>2, <4>3, Zenon DEF WindowInv
    <3> QED BY <3>1, <3>2, Zenon
  <2>4. ASSUME NEW u \in Threads
        PROVE  /\ Asking(u)' => SinceStart(my'[u])
               /\ pc'[u] = "range" => my'[u] = 0
    <3>1. CASE u = t
      <4>1. pc'[u] = "sync" /\ my'[u] \in {my[u], 0}
        BY <1>0, <2>1, <3>1, Zenon
      <4> QED BY <2>2, <3>1, <4>1, Zenon DEF Asking
    <3>2. CASE u # t
      <4>1. pc'[u] = pc[u] /\ my'[u] = my[u]
        BY <1>0, <2>1, <3>2, Zenon
      <4> QED BY <4>1, Zenon DEF WindowInv, Asking
    <3> QED BY <3>1, <3>2, Zenon
  <2>5. \A i \in 1..Len(g2h') : SinceStart(g2h'[i])
    BY <2>1, Zenon DEF WindowInv
  <2>6. SinceStart(seqno') /\ (rpc' = "revoke" => SinceStart(rev'))
    BY <2>1, Zenon DEF WindowInv
  <2> QED BY <2>1, <2>3, <2>4, <2>5, <2>6, WindowKept, Zenon
<1>7. ASSUME Steady,
             SinceStart(seqno'),
             rpc' = "revoke" => SinceStart(rev'),
             \A i \in 1..Len(h2g') : SinceStart(h2g'[i].seqno),
             \A i \in 1..Len(g2h') : SinceStart(g2h'[i])
      PROVE  WindowInv'
  <2>1. next_seqno' = next_seqno /\ my' = my
    BY <1>7, Zenon DEF Steady
  <2>2. \A u \in Threads : /\ Asking(u)' => Asking(u)
                           /\ pc'[u] = "range" => pc[u] = "range"
    BY <1>7, Zenon DEF Steady, Asking
  <2>3. \A u \in Threads : /\ Asking(u)' => SinceStart(my'[u])
                           /\ pc'[u] = "range" => my'[u] = 0
    BY <2>1, <2>2, Zenon DEF WindowInv
  <2> QED BY <1>7, <2>1, <2>3, WindowKept, Zenon
<1>8. ASSUME UNCHANGED h2g PROVE \A i \in 1..Len(h2g') : SinceStart(h2g'[i].seqno)
  BY <1>8, Zenon DEF WindowInv
<1>9. ASSUME UNCHANGED g2h PROVE \A i \in 1..Len(g2h') : SinceStart(g2h'[i])
  BY <1>9, Zenon DEF WindowInv
<1>10. ASSUME Steady, GucInvalidate PROVE WindowInv'
  <2>1. /\ UNCHANGED <<seqno, rpc, rev>> /\ h2g # <<>> /\ h2g' = Tail(h2g)
        /\ g2h' = Append(g2h, Head(h2g).seqno)
    BY <1>10, Zenon DEF GucInvalidate, tlb_vars, gt_vars
  <2>2. /\ Head(h2g) = h2g[1] /\ 1 \in 1..Len(h2g)
        /\ \A i \in 1..Len(h2g') : i + 1 \in 1..Len(h2g) /\ h2g'[i] = h2g[i + 1]
    <3> HIDE DEF H
    <3> QED BY <1>0, <2>1, TailEntries, Zenon
  <2>3. PICK e : e = Head(h2g).seqno
    BY Zenon
  <2>4. g2h' = Append(g2h, e) /\ SinceStart(e)
    BY <2>1, <2>2, <2>3, Zenon DEF WindowInv
  <2>5. \A i \in 1..Len(g2h') : (i \in 1..Len(g2h) /\ g2h'[i] = g2h[i]) \/ g2h'[i] = e
    BY <1>0, <2>4
  <2>6. \A i \in 1..Len(g2h') : SinceStart(g2h'[i])
    BY <2>4, <2>5, Zenon DEF WindowInv
  <2>7. \A i \in 1..Len(h2g') : SinceStart(h2g'[i].seqno)
    BY <2>2, Zenon DEF WindowInv
  <2>8. SinceStart(seqno') /\ (rpc' = "revoke" => SinceStart(rev'))
    BY <2>1, Zenon DEF WindowInv
  <2> QED BY <1>7, <1>10, <2>6, <2>7, <2>8, Zenon
<1>11. ASSUME Steady, Done PROVE WindowInv'
  <2>1. /\ UNCHANGED <<h2g, rpc, rev>> /\ g2h # <<>> /\ g2h' = Tail(g2h)
        /\ seqno' \in {seqno, Head(g2h)}
    BY <1>11, Zenon DEF Done, Advance, gt_vars
  <2>2. /\ Head(g2h) = g2h[1] /\ 1 \in 1..Len(g2h)
        /\ \A i \in 1..Len(g2h') : i + 1 \in 1..Len(g2h) /\ g2h'[i] = g2h[i + 1]
    <3> HIDE DEF G
    <3> QED BY <1>0, <2>1, TailEntries, Zenon
  <2>3. \A i \in 1..Len(g2h') : SinceStart(g2h'[i])
    BY <2>2, Zenon DEF WindowInv
  <2>4. SinceStart(seqno') /\ (rpc' = "revoke" => SinceStart(rev'))
    BY <2>1, <2>2, Zenon DEF WindowInv
  <2> QED BY <1>7, <1>8, <1>11, <2>1, <2>3, <2>4, ZenonT(60)
<1>12. ASSUME Steady, ResetPrepare PROVE WindowInv'
  <2>1. UNCHANGED <<seqno, g2h>> /\ rpc' = "prepared" /\ h2g' = <<>>
    BY <1>12, Zenon DEF ResetPrepare, tlb_vars
  <2>2. \A i \in 1..Len(h2g') : FALSE
    BY <2>1
  <2>3. SinceStart(seqno') /\ rpc' # "revoke"
    BY <2>1, Zenon DEF WindowInv
  <2> QED BY <1>7, <1>9, <1>12, <2>1, <2>2, <2>3, Zenon
<1>13. ASSUME Steady, \/ Park \/ Unpark \/ HwReset \/ RevokeRead \/ RevokeStore
                      \/ Restart \/ SetWedged \/ UNCHANGED vars
       PROVE  WindowInv'
  <2>1. UNCHANGED <<h2g, g2h>>
    BY <1>13, Zenon DEF Park, Unpark, HwReset, RevokeRead, RevokeStore, Restart,
                        SetWedged, vars, chan_vars
  <2>2. SinceStart(seqno')
    BY <1>1, <1>13, Zenon DEF Park, Unpark, HwReset, RevokeRead, RevokeStore, Restart,
                              SetWedged, vars, tlb_vars, WindowInv
  <2>3. rpc' = "revoke" => SinceStart(rev')
    BY <1>1, <1>13, Zenon DEF Park, Unpark, HwReset, RevokeRead, RevokeStore, Restart,
                              SetWedged, vars, gt_vars, WindowInv
  <2> QED BY <1>7, <1>8, <1>9, <1>13, <2>1, <2>2, <2>3, Zenon
<1> QED BY <1>3, <1>4, <1>5, <1>6, <1>10, <1>11, <1>12, <1>13, StepKinds, ZenonT(60) DEF Reset

\* Updates stay made, and one that gets its number was not.
LEMMA MadeGrows ==
    ASSUME TypeOK, ThreadInv, [Next]_vars
    PROVE  /\ Made \subseteq Made'
           /\ \A t \in Threads : Alloc(t) => \E x \in Made' : x \notin Made
<1>0. /\ pc \in [Threads -> {"idle", "range", "lock", "send", "sync", "atomic",
                             "busy_wait", "wait_event", "asleep", "last", "done"}]
      /\ round \in [Threads -> 0..MaxRounds]
  BY Zenon DEF TypeOK
<1>1. ASSUME NEW u \in Threads, NEW r \in 1..MaxRounds, r <= round[u],
             r = round[u] => pc[u] \notin {"range", "lock"}
      PROVE  /\ r <= round'[u]
             /\ r = round'[u] => pc'[u] \notin {"range", "lock"}
  <2>1. ASSUME round' = round, pc'[u] \in {"range", "lock"} => pc[u] \in {"range", "lock"}
        PROVE  /\ r <= round'[u]
               /\ r = round'[u] => pc'[u] \notin {"range", "lock"}
    BY <1>1, <2>1, Zenon
  <2>2. ASSUME NEW t \in Threads, Update(t)
        PROVE  /\ r <= round'[u]
               /\ r = round'[u] => pc'[u] \notin {"range", "lock"}
    <3>1. /\ round' = [round EXCEPT ![t] = round[t] + 1]
          /\ pc' = [pc EXCEPT ![t] = "range"]
      BY <2>2, Zenon DEF Update
    <3>2. CASE u # t
      BY <1>0, <1>1, <3>1, <3>2, Zenon
    <3>3. CASE u = t
      <4>1. round'[u] = round[u] + 1 /\ round[u] \in 0..MaxRounds
        BY <1>0, <3>1, <3>3, Zenon
      <4>2. r <= round'[u] /\ r # round'[u]
        BY <1>1, <4>1, BoundsAssumption
      <4> QED BY <4>2, Zenon
    <3> QED BY <3>2, <3>3, Zenon
  <2>3. ASSUME NEW t \in Threads, LocalStep(t)
        PROVE  round' = round /\ (pc'[u] \in {"range", "lock"} => pc[u] \in {"range", "lock"})
    <3>1. round' = round
      BY <2>3, LocalFacts, Zenon
    <3>2. PICK x : pc' = [pc EXCEPT ![t] = x] /\ x # "range"
      BY <2>3, LocalFacts, Zenon
    <3>3. x = "lock" => pc[t] = "range"
      <4>1. pc'[t] = x
        BY <1>0, <3>2, Zenon
      <4> QED BY <1>0, <2>3, <4>1, Zenon DEF LocalStep, InvalidateRange, Sync, SyncStart,
                               Atomic, BusyWait, WaitEvent, Last
    <3> QED BY <1>0, <3>1, <3>2, <3>3, Zenon
  <2>4. ASSUME NEW t \in Threads, Alloc(t) \/ Send(t)
        PROVE  round' = round /\ (pc'[u] \in {"range", "lock"} => pc[u] \in {"range", "lock"})
    BY <1>0, <2>4, Zenon DEF Alloc, Send
  <2>5. ASSUME Steady
        PROVE  round' = round /\ (pc'[u] \in {"range", "lock"} => pc[u] \in {"range", "lock"})
    BY <2>5, Zenon DEF Steady
  <2> QED BY <2>1, <2>2, <2>3, <2>4, <2>5, StepKinds, Zenon
<1>2. ASSUME NEW x \in Made PROVE x \in Made'
  <2>1. PICK u \in Threads, r \in 1..MaxRounds : x = <<u, r>>
    BY <1>2 DEF Made
  <2>2. x[1] = u /\ x[2] = r
    BY <2>1
  <2>3. r <= round[u] /\ (r = round[u] => pc[u] \notin {"range", "lock"})
    BY <1>2, <2>2, Zenon DEF Made
  <2>4. r <= round'[u] /\ (r = round'[u] => pc'[u] \notin {"range", "lock"})
    BY <1>1, <2>3, Zenon
  <2>5. x \in Threads \X (1..MaxRounds)
    BY <2>1
  <2> QED BY <2>2, <2>4, <2>5, Zenon DEF Made
<1>3. ASSUME NEW t \in Threads, Alloc(t) PROVE \E x \in Made' : x \notin Made
  <2>1. PICK x : x = <<t, round[t]>>
    BY Zenon
  <2>2. x[1] = t /\ x[2] = round[t]
    BY <2>1
  <2>3. round' = round /\ pc[t] = "lock" /\ pc'[t] = "send"
    BY <1>0, <1>3, Zenon DEF Alloc
  <2>4. round[t] \in 1..MaxRounds /\ round[t] <= round[t]
    <3>1. round[t] \in 0..MaxRounds /\ round[t] # 0
      BY <1>0, <2>3, Zenon DEF ThreadInv
    <3> QED BY <3>1, BoundsAssumption
  <2>5. x \in Threads \X (1..MaxRounds)
    BY <2>1, <2>4
  <2>6. x \in Made'
    BY <2>2, <2>3, <2>4, <2>5, Zenon DEF Made
  <2>7. x \notin Made
    BY <2>2, <2>3, Zenon DEF Made
  <2> QED BY <2>6, <2>7, Zenon
<1> QED BY <1>2, <1>3, Zenon

\* The first number is the only one in use at first.
LEMMA FewInit ==
    ASSUME FewUpdates, Init
    PROVE  FewIInv
<1>1. TypeOK /\ ThreadInv
  BY TlbInit, Zenon DEF TlbIInv
<1>2. seqno = Start /\ next_seqno = Start /\ h2g = <<>> /\ g2h = <<>> /\ rpc = "none"
      /\ pc = [t \in Threads |-> "idle"]
  BY Zenon DEF Init
<1>3. Age(Start) = 0
  BY <1>2, AgeFacts, StartAssumption, Zenon DEF Age, AgeAt
<1>4. SinceStart(seqno)
  <2>1. Age(Start) <= Age(Start)
    BY <1>3
  <2> QED BY <1>2, <2>1, Zenon DEF SinceStart
<1>5. /\ \A i \in 1..Len(h2g) : FALSE
      /\ \A i \in 1..Len(g2h) : FALSE
  BY <1>2
<1>6. rpc # "revoke" /\ \A t \in Threads : ~Asking(t) /\ pc[t] # "range"
  BY <1>2 DEF Asking
<1>7. WindowInv
  BY <1>4, <1>5, <1>6, Zenon DEF WindowInv
<1>8. Age(Start) <= 2 * Cardinality(Made)
  <2> HIDE DEF Made
  <2> QED BY <1>3, MadeFew
<1> QED BY <1>1, <1>7, <1>8, Zenon DEF FewIInv

\* Every step keeps the number of updates above half the age of the first
\* number.
LEMMA FewStep ==
    ASSUME FewUpdates, FewIInv, [Next]_vars
    PROVE  FewIInv'
<1>1. TypeOK /\ ThreadInv /\ WindowInv /\ Age(Start) <= 2 * Cardinality(Made)
      /\ Age(Start) < Modulus \div 2
  BY FewNear, Zenon DEF FewIInv
<1>2. TypeOK' /\ ThreadInv' /\ WindowInv'
  BY <1>1, TlbTypes, TlbThreads, WindowStep, Zenon
<1>3. IsFiniteSet(Made) /\ Cardinality(Made) \in Nat
  BY MadeFew, Zenon
<1>4. IsFiniteSet(Made') /\ Cardinality(Made') \in Nat
  <2> DEFINE All == Threads \X (1..MaxRounds)
  <2>1. IsFiniteSet(1..MaxRounds)
    BY FS_Interval, BoundsAssumption
  <2>2. IsFiniteSet(All)
    BY <2>1, FS_Product, Zenon DEF FewUpdates
  <2>3. Made' \in SUBSET All
    BY DEF Made
  <2> HIDE DEF All
  <2>4. IsFiniteSet(Made')
    BY <2>2, <2>3, FS_Subset, Zenon
  <2> QED BY <2>4, FS_CardinalityType, Zenon
<1>5. Made \in SUBSET Made'
  BY <1>1, MadeGrows, Zenon
<1>6. Cardinality(Made) <= Cardinality(Made')
  BY <1>4, <1>5, FS_Subset, Zenon
<1>7. ASSUME NEW t \in Threads, Alloc(t) PROVE Age(Start)' <= 2 * Cardinality(Made')
  <2>1. PICK x \in Made' : x \notin Made
    BY <1>1, <1>7, MadeGrows, Zenon
  <2>2. Cardinality(Made) # Cardinality(Made')
    BY <1>4, <1>5, <2>1, FS_Subset, Zenon
  <2>3. Age(Start)' \in Nat /\ Age(Start)' <= Age(Start) + 2
    BY <1>1, <1>7, WindowAlloc, Zenon
  <2>4. Age(Start) \in 0..(Modulus - 1)
    BY <1>1, AgeFacts, StartAssumption, ZenonT(60) DEF TypeOK, Age, AgeAt
  <2>5. PICK a, b, c, e : /\ a = Age(Start) /\ b = Age(Start)'
                          /\ c = Cardinality(Made) /\ e = Cardinality(Made')
    BY Zenon
  <2>6. /\ a \in 0..(Modulus - 1) /\ b \in Nat /\ c \in Nat /\ e \in Nat
        /\ b <= a + 2 /\ a <= 2 * c /\ c <= e /\ c # e
    BY <1>1, <1>3, <1>4, <1>6, <2>2, <2>3, <2>4, <2>5, ZenonT(60)
  <2>7. b <= 2 * e
    BY <2>6, Half
  <2> QED BY <2>5, <2>7, Zenon
<1>8. ASSUME next_seqno' = next_seqno PROVE Age(Start)' <= 2 * Cardinality(Made')
  <2>1. Age(Start)' = Age(Start)
    BY <1>8, Zenon DEF Age
  <2>2. Age(Start) \in 0..(Modulus - 1)
    BY <1>1, AgeFacts, StartAssumption, ZenonT(60) DEF TypeOK, Age, AgeAt
  <2>3. PICK a, c, e : a = Age(Start) /\ c = Cardinality(Made) /\ e = Cardinality(Made')
    BY Zenon
  <2>4. a \in 0..(Modulus - 1) /\ c \in Nat /\ e \in Nat /\ a <= 2 * c /\ c <= e
    BY <1>1, <1>3, <1>4, <1>6, <2>2, <2>3, Zenon
  <2>5. a <= 2 * e
    BY <2>4, Half
  <2> QED BY <2>1, <2>3, <2>5, Zenon
<1>9. next_seqno' = next_seqno \/ \E t \in Threads : Alloc(t)
  <2>1. ASSUME NEW t \in Threads, Update(t) \/ LocalStep(t) \/ Send(t)
        PROVE  next_seqno' = next_seqno
    BY <1>1, <2>1, LocalFacts, Zenon DEF Update, Send, tlb_vars
  <2>2. ASSUME Steady PROVE next_seqno' = next_seqno
    BY <2>2, Zenon DEF Steady
  <2> QED BY <1>1, <2>1, <2>2, StepKinds, Zenon
<1> QED BY <1>2, <1>7, <1>8, <1>9, Zenon DEF FewIInv

\* With fewer updates than a quarter of the 32-bit numbers the condition on
\* their age is met, so that every comparison of i915_seqno_passed() compares
\* numbers less than half of them apart.
THEOREM NumbersStayNear == ASSUME FewUpdates PROVE Spec => []Near
<1>1. Init => FewIInv
  BY FewInit, Zenon
<1>2. FewIInv /\ [Next]_vars => FewIInv'
  BY FewStep, Zenon
<1>3. FewIInv => Near
  BY FewNear, Zenon
<1> QED BY <1>1, <1>2, <1>3, PTL DEF Spec

\* So ufence_sync() never goes on while a TLB holds the old translation.
THEOREM FewSyncsClean == ASSUME FewUpdates PROVE Spec => []SyncedClean
BY NumbersStayNear, SyncIsClean, PTL

\* And with so few updates the completed number, which intel_tlb_advance() and
\* the revoke store, never moves backwards.
THEOREM FewNeverBackwards == ASSUME FewUpdates PROVE Spec => SeqnoForward
BY NumbersStayNear, NeverBackwards, PTL
=============================================================================
