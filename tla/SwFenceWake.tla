---------------------------- MODULE SwFenceWake -----------------------------
(***************************************************************************)
(* Who may still touch a software fence that has fired, and when the       *)
(* callback of a timed wait is freed.                                      *)
(*                                                                         *)
(* WakeInv builds on the exact count the order of a wake-up: one thread    *)
(* wakes up the waiters of a fence, keeps the lock of the first fence of   *)
(* its chain to the end, and leaves.  CallbackInv follows the callback of  *)
(* a timed wait from its queueing to its end.                              *)
(***************************************************************************)
EXTENDS SwFenceCount

-----------------------------------------------------------------------------
(* The order of a wake-up.                                                 *)

\* Thread t is the one that wakes up the waiters of f.
Waking(t, f) ==
    \/ run[t].at \in {"wake", "scan", "nested", "nestedwake"} /\ run[t].root = f
    \/ run[t].at = "nestedwake" /\ run[t].cur = f

\* Thread t goes through the entries of f, the first fence of its chain.
Locks(t, f) == run[t].at \in {"scan", "nested", "nestedwake"} /\ run[t].root = f

\* The count of a fence that has fired is 0 until its wake-up has got there, and
\* then -1; the lock of the first fence of a chain is kept to the end.
WakeOK(t) ==
    /\ run[t].at = "wake" => pending[run[t].root] = 0
    /\ run[t].at = "nestedwake" => pending[run[t].cur] = 0
    /\ run[t].at \in {"scan", "nested", "nestedwake"} =>
          pending[run[t].root] = -1 /\ lock[run[t].root] = t

WaitOK(f) ==
    /\ waiter[f] # "asleep" => pending[f] = -1
    /\ waiter[f] = "returned" => lock[f] = None

\* One thread wakes up the waiters of a fence that has fired, and is the last to
\* touch it.
WakeInv ==
    /\ \A t \in Threads : WakeOK(t)
    /\ \A f \in Fences, t, u \in Threads : Waking(t, f) /\ Waking(u, f) => t = u
    /\ \A f \in Fences : lock[f] # None => Locks(lock[f], f)
    /\ \A f \in freed : f \in fired /\ pending[f] = -1
                          /\ \A t \in Threads : ~Waking(t, f)
    /\ \A f \in Sleepers : WaitOK(f)

\* The fence whose waiters a thread wakes up has fired.
LEMMA WakesFired ==
    ASSUME FiredInv, NEW t \in Threads, NEW f, Waking(t, f)
    PROVE  f \in fired
BY Zenon DEF FiredInv, FiredOK, Waking

\* The thread that goes through a queue is the one that wakes it up.
LEMMA LocksWaking ==
    ASSUME NEW t, NEW f, Locks(t, f)
    PROVE  Waking(t, f)
BY Zenon DEF Locks, Waking

\* A step of thread t of a wake-up, which touches no fence but h.
LEMMA WakeStep ==
    ASSUME Shape, FiredInv, WakeInv, NEW t \in Threads, NEW h \in Fences,
           \A u \in Threads \ {t} : run'[u] = run[u] /\ ~Waking(u, h),
           \A g \in Fences \ {h} : pending'[g] = pending[g] /\ lock'[g] = lock[g],
           \A g \in Fences : Waking(t, g)' => Waking(t, g) \/ g = h,
           WakeOK(t)',
           lock'[h] = None \/ (lock'[h] = t /\ Locks(t, h)'),
           \A g \in Fences \ {h} : lock[g] # None /\ lock[g] = t => Locks(t, g)',
           fired \subseteq fired',
           \A g \in freed' : \/ g \in freed /\ g # h
                             \/ /\ g = h /\ h \in fired' /\ pending'[h] = -1
                                /\ ~Waking(t, h)',
           waiter' = waiter,
           h \in Sleepers => WaitOK(h)'
    PROVE  WakeInv'
<1>1. ASSUME NEW u \in Threads, u # t, NEW g \in Fences
      PROVE  (Waking(u, g)' <=> Waking(u, g)) /\ (Locks(u, g)' <=> Locks(u, g))
  <2>1. run'[u] = run[u]
    BY <1>1, Zenon
  <2> QED
    BY <2>1, Zenon DEF Waking, Locks
<1>2. ASSUME NEW u \in Threads
      PROVE  WakeOK(u)'
  <2>1. CASE u = t
    BY <2>1, ZenonT(60)
  <2>2. CASE u # t
    <3>1. run'[u] = run[u] /\ ~Waking(u, h) /\ WakeOK(u) /\ FiredOK(u)
      BY <2>2, Zenon DEF WakeInv, FiredInv
    <3>2. fired \subseteq Fences
      BY Zenon DEF Shape
    <3>3. ASSUME run[u].at \in {"wake", "scan", "nested", "nestedwake"}
          PROVE  run[u].root \in Fences \ {h}
      BY <3>1, <3>2, <3>3, Zenon DEF Waking, FiredOK
    <3>4. ASSUME run[u].at = "nestedwake"
          PROVE  run[u].cur \in Fences \ {h}
      BY <3>1, <3>2, <3>4, Zenon DEF Waking, FiredOK
    <3> QED
      BY <3>1, <3>3, <3>4, SMTT(40) DEF WakeOK
  <2> QED
    BY <2>1, <2>2, Zenon
<1>3. ASSUME NEW g \in Fences, NEW u \in Threads, NEW v \in Threads,
             Waking(u, g)', Waking(v, g)'
      PROVE  u = v
  <2>1. ASSUME NEW w \in Threads, w # t, Waking(w, g)', Waking(t, g)'
        PROVE  FALSE
    <3>1. Waking(w, g) /\ g # h
      BY <1>1, <2>1, Zenon
    <3>2. Waking(t, g)
      BY <2>1, <3>1, Zenon
    <3> QED
      BY <2>1, <3>1, <3>2, ZenonT(60) DEF WakeInv
  <2>2. CASE u # t /\ v # t
    BY <1>1, <1>3, <2>2, Zenon DEF WakeInv
  <2> QED
    BY <1>3, <2>1, <2>2, ZenonT(60)
<1>4. ASSUME NEW g \in Fences, lock'[g] # None
      PROVE  Locks(lock[g], g)'
  <2>1. CASE g = h
    BY <1>4, <2>1, ZenonT(60) DEF Locks
  <2>2. CASE g # h
    <3>1. lock'[g] = lock[g] /\ lock[g] # None /\ Locks(lock[g], g)
      BY <1>4, <2>2, ZenonT(60) DEF WakeInv
    <3>2. lock[g] \in Threads
      BY <3>1 DEF Shape
    <3>3. CASE lock[g] = t
      <4>1. Locks(t, g)'
        BY <2>2, <3>1, <3>3, Zenon
      <4> QED
        BY <3>1, <3>3, <4>1, Zenon DEF Locks
    <3>4. CASE lock[g] # t
      <4>1. run'[lock[g]] = run[lock[g]]
        BY <3>2, <3>4, Zenon
      <4> QED
        BY <3>1, <4>1, Zenon DEF Locks
    <3> QED
      BY <3>3, <3>4
  <2> QED
    BY <2>1, <2>2, Zenon
<1>5. ASSUME NEW g \in freed'
      PROVE  g \in fired' /\ pending'[g] = -1 /\ \A u \in Threads : ~Waking(u, g)'
  <2>1. CASE g \in freed /\ g # h
    <3>1. g \in Fences /\ g \in fired /\ pending[g] = -1
      BY <2>1, Zenon DEF WakeInv, Shape
    <3>2. g \in fired' /\ pending'[g] = -1
      BY <2>1, <3>1, Zenon
    <3>3. ASSUME NEW u \in Threads
          PROVE  ~Waking(u, g)'
      BY <1>1, <2>1, <3>1, Zenon DEF WakeInv
    <3> QED
      BY <3>2, <3>3, Zenon
  <2>2. CASE g = h /\ h \in fired' /\ pending'[h] = -1 /\ ~Waking(t, h)'
    <3>1. ASSUME NEW u \in Threads
          PROVE  ~Waking(u, g)'
      BY <1>1, <2>2, Zenon
    <3> QED
      BY <2>2, <3>1, Zenon
  <2> QED
    BY <2>1, <2>2, Zenon
<1>6. ASSUME NEW g \in Sleepers
      PROVE  WaitOK(g)'
  <2>1. CASE g # h
    <3>1. WaitOK(g) /\ g \in Fences
      BY DepsAssumption, Zenon DEF WakeInv
    <3> QED
      BY <2>1, <3>1, Zenon DEF WaitOK
  <2> QED
    BY <2>1, Zenon
<1> QED
  BY <1>2, <1>3, <1>4, <1>5, <1>6, ZenonT(60) DEF WakeInv

\* A fence that still counts something is nobody's to wake up, and not locked.
LEMMA Untaken ==
    ASSUME Shape, FiredInv, WakeInv, NEW f \in Fences, f \notin fired
    PROVE  /\ \A t \in Threads : ~Waking(t, f)
           /\ lock[f] = None /\ f \notin freed
<1>1. \A t \in Threads : ~Waking(t, f)
  BY WakesFired, Zenon
<1>2. lock[f] = None
  <2> SUFFICES ASSUME lock[f] # None
               PROVE  FALSE
    BY Zenon
  <2>1. lock[f] \in Threads
    BY Zenon DEF Shape
  <2> QED
    BY <1>1, <2>1, LocksWaking, Zenon DEF WakeInv
<1> QED
  BY <1>1, <1>2, Zenon DEF WakeInv

\* What a thread of the completion code wakes up, from its place.
LEMMA WakingAt ==
    ASSUME NEW t, NEW f
    PROVE  /\ run[t].at \in {"idle", "dec"} => ~Waking(t, f)
           /\ run[t].at \in {"wake", "scan", "nested"} => (Waking(t, f) <=> f = run[t].root)
           /\ run[t].at = "nestedwake" =>
                (Waking(t, f) <=> f = run[t].root \/ f = run[t].cur)
           /\ run'[t].at \in {"idle", "dec"} => ~Waking(t, f)'
           /\ run'[t].at \in {"wake", "scan", "nested"} => (Waking(t, f)' <=> f = run'[t].root)
           /\ run'[t].at = "nestedwake" =>
                (Waking(t, f)' <=> f = run'[t].root \/ f = run'[t].cur)
BY Zenon DEF Waking

\* The thread that fires a fence is the only one to wake its waiters up.
LEMMA CompleteWake ==
    ASSUME CountIInv, WakeInv, NEW t \in Threads, Complete(t)
    PROVE  WakeInv'
<1> SUFFICES ASSUME NEW h, h = run[t].root
             PROVE  WakeInv'
  BY Zenon
<1> USE DEF CountIInv, ControlInv
<1>1. /\ Stands(t, "dec")
      /\ pending' = [pending EXCEPT ![h] = IF Done(h) THEN @ ELSE @ - 1]
      /\ \/ pending[h] = 1 /\ fired' = fired \cup {h} /\ Moves(t, "wake", h, None, <<>>, run[t].then)
         \/ pending[h] # 1 /\ fired' = fired /\ Moves(t, "idle", None, None, <<>>, None)
      /\ UNCHANGED <<list, lock, freed, waiter>>
  BY CompleteMoves, ReturnMoves, Zenon
<1>2. h \in Fences /\ Counting(t, h) /\ run[t].at = "dec"
  BY <1>1, Zenon DEF Stands, Counting
<1>3. h \notin fired /\ pending[h] >= 1 /\ pending[h] \in Int
  BY <1>2, Unfired, Zenon DEF Shape
<1>4. (\A u \in Threads : ~Waking(u, h)) /\ lock[h] = None /\ h \notin freed
  BY <1>2, <1>3, Untaken, ZenonT(60)
<1>5. /\ \A u \in Threads \ {t} : run'[u] = run[u]
      /\ \/ run'[t].at = "wake" /\ run'[t].root = h /\ pending[h] = 1
         \/ run'[t].at = "idle"
  BY <1>1, ZenonT(60) DEF Moves
<1>6. /\ \A g \in Fences \ {h} : pending'[g] = pending[g] /\ lock'[g] = lock[g]
      /\ pending'[h] = pending[h] - 1
  BY <1>1, <1>2, <1>3, SMTT(40) DEF Shape, Done
<1>7. WakeOK(t)'
  BY <1>3, <1>5, <1>6, SMTT(40) DEF WakeOK
<1>8. \A g \in Fences : lock[g] # None => lock[g] # t
  BY <1>2, Zenon DEF WakeInv, Locks
<1>9. h \in Sleepers => WaitOK(h)'
  <2>1. h \in Sleepers => waiter[h] = "asleep"
    BY <1>3, SMTT(40) DEF WakeInv, WaitOK
  <2> QED
    BY <1>1, <2>1, ZenonT(60) DEF WaitOK
<1>10. fired \subseteq fired' /\ freed' = freed /\ waiter' = waiter /\ lock'[h] = None
  BY <1>1, <1>4, Zenon
<1>11. \A g \in Fences : Waking(t, g)' => g = h
  BY <1>5, WakingAt, ZenonT(60)
<1> QED
  BY <1>2, <1>4, <1>5, <1>6, <1>7, <1>8, <1>9, <1>10, <1>11, WakeStep, ZenonT(60)

\* The wake-up takes the lock of its first fence,
LEMMA WakeUpAllWake ==
    ASSUME CountIInv, WakeInv, NEW t \in Threads, WakeUpAll(t)
    PROVE  WakeInv'
<1> SUFFICES ASSUME NEW h, h = run[t].root
             PROVE  WakeInv'
  BY Zenon
<1> USE DEF CountIInv, ControlInv
<1>1. /\ Stands(t, "wake")
      /\ lock[h] = None /\ lock' = [lock EXCEPT ![h] = t]
      /\ pending' = [pending EXCEPT ![h] = -1]
      /\ Moves(t, "scan", h, None, <<>>, run[t].then)
      /\ UNCHANGED <<waiter, fired, freed>>
  BY WakeUpAllMoves, Zenon DEF history
<1>2. h \in Fences /\ run[t].at = "wake" /\ Waking(t, h)
  BY <1>1, Zenon DEF Stands, Waking
<1>3. pending[h] = 0 /\ h \in fired
  BY <1>2, WakesFired, Zenon DEF WakeInv, WakeOK
<1>4. \A u \in Threads \ {t} : ~Waking(u, h)
  BY <1>2, Zenon DEF WakeInv
<1>5. /\ \A u \in Threads \ {t} : run'[u] = run[u]
      /\ run'[t].at = "scan" /\ run'[t].root = h
  BY <1>1, Zenon DEF Moves
<1>6. /\ \A g \in Fences \ {h} : pending'[g] = pending[g] /\ lock'[g] = lock[g]
      /\ pending'[h] = -1 /\ lock'[h] = t
  BY <1>1, <1>2, ZenonT(60) DEF Shape
<1>7. WakeOK(t)' /\ Locks(t, h)'
  BY <1>5, <1>6, Zenon DEF WakeOK, Locks
<1>8. \A g \in Fences : lock[g] # None => lock[g] # t
  BY <1>2, Zenon DEF WakeInv, Locks
<1>9. h \in Sleepers => WaitOK(h)'
  <2>1. h \in Sleepers => waiter[h] = "asleep"
    BY <1>3, SMTT(40) DEF WakeInv, WaitOK
  <2> QED
    BY <1>1, <2>1, ZenonT(60) DEF WaitOK
<1>10. h \notin freed /\ fired \subseteq fired' /\ freed' = freed /\ waiter' = waiter
  BY <1>1, <1>2, ZenonT(60) DEF WakeInv
<1>11. \A g \in Fences : Waking(t, g)' => g = h
  BY <1>5, WakingAt, ZenonT(60)
<1> QED
  BY <1>2, <1>4, <1>5, <1>6, <1>7, <1>8, <1>9, <1>10, <1>11, WakeStep, ZenonT(60)

\* ... keeps it while it takes an entry,
LEMMA WakeEntryWake ==
    ASSUME CountIInv, WakeInv, NEW t \in Threads, WakeEntry(t)
    PROVE  WakeInv'
<1> SUFFICES ASSUME NEW h, NEW c, h = run[t].root, c = Head(list[h])
             PROVE  WakeInv'
  BY Zenon
<1> USE DEF CountIInv, ControlInv
<1>1. /\ Stands(t, "scan")
      /\ Moves(t, "nested", h, c, run[t].extra, run[t].then)
      /\ UNCHANGED <<pending, lock, waiter, fired, freed>>
  BY WakeEntryMoves, Zenon DEF history
<1>2. h \in Fences /\ run[t].at = "scan" /\ Waking(t, h)
  BY <1>1, Zenon DEF Stands, Waking
<1>3. pending[h] = -1 /\ lock[h] = t
  BY <1>2, Zenon DEF WakeInv, WakeOK
<1>4. \A u \in Threads \ {t} : ~Waking(u, h)
  BY <1>2, Zenon DEF WakeInv
<1>5. /\ \A u \in Threads \ {t} : run'[u] = run[u]
      /\ run'[t].at = "nested" /\ run'[t].root = h
  BY <1>1, Zenon DEF Moves
<1>6. \A g \in Fences : pending'[g] = pending[g] /\ lock'[g] = lock[g]
  BY <1>1, Zenon
<1>7. WakeOK(t)' /\ Locks(t, h)'
  BY <1>2, <1>3, <1>5, <1>6, ZenonT(60) DEF WakeOK, Locks
<1>8. \A g \in Fences \ {h} : lock[g] # None => lock[g] # t
  BY <1>2, ZenonT(60) DEF WakeInv, Locks
<1>9. h \in Sleepers => WaitOK(h)'
  <2>1. h \in Sleepers => WaitOK(h)
    BY Zenon DEF WakeInv
  <2> QED
    BY <1>1, <2>1, ZenonT(60) DEF WaitOK
<1>10. h \notin freed /\ fired \subseteq fired' /\ freed' = freed /\ waiter' = waiter
  BY <1>1, <1>2, ZenonT(60) DEF WakeInv
<1>11. \A g \in Fences : Waking(t, g)' => g = h
  BY <1>5, WakingAt, ZenonT(60)
<1> QED
  BY <1>2, <1>3, <1>4, <1>5, <1>6, <1>7, <1>8, <1>9, <1>10, <1>11, WakeStep, ZenonT(60)

\* ... completes the fence behind that entry,
LEMMA NestedCompleteWake ==
    ASSUME CountIInv, WakeInv, NEW t \in Threads, NestedComplete(t)
    PROVE  WakeInv'
<1> SUFFICES ASSUME NEW r, NEW h, r = run[t].root, h = run[t].cur
             PROVE  WakeInv'
  BY Zenon
<1> USE DEF CountIInv, ControlInv
<1>1. /\ Stands(t, "nested")
      /\ pending' = [pending EXCEPT ![h] = @ - 1]
      /\ \/ /\ pending[h] = 1 /\ fired' = fired \cup {h}
            /\ Moves(t, "nestedwake", r, h, run[t].extra, run[t].then)
         \/ /\ fired' = fired
            /\ Moves(t, "scan", r, None, run[t].extra, run[t].then)
      /\ UNCHANGED <<lock, waiter, freed>>
  BY NestedCompleteMoves, ZenonT(60)
<1>2. /\ h \in Fences /\ r \in Fences /\ run[t].at = "nested" /\ Waking(t, r)
      /\ Counting(t, h)
  BY <1>1, ZenonT(60) DEF Stands, Waking, Counting
<1>3. /\ h \notin fired /\ pending[h] >= 1 /\ pending[h] \in Int
      /\ pending[r] = -1 /\ lock[r] = t /\ r # h
  <2>1. h \notin fired /\ pending[h] >= 1
    BY <1>2, Unfired, ZenonT(60)
  <2>2. pending[h] \in Int
    BY <1>2, ZenonT(60) DEF Shape
  <2>3. pending[r] = -1 /\ lock[r] = t
    BY <1>2, ZenonT(60) DEF WakeInv, WakeOK
  <2>4. r # h
    BY <2>1, <2>3, SMTT(40)
  <2> QED
    BY <2>1, <2>2, <2>3, <2>4, ZenonT(60)
<1>4. (\A u \in Threads : ~Waking(u, h)) /\ lock[h] = None /\ h \notin freed
  BY <1>2, <1>3, Untaken, Zenon
<1>5. /\ \A u \in Threads \ {t} : run'[u] = run[u]
      /\ run'[t].root = r
      /\ \/ run'[t].at = "nestedwake" /\ run'[t].cur = h /\ pending[h] = 1
         \/ run'[t].at = "scan"
  BY <1>1, Zenon DEF Moves
<1>6. /\ \A g \in Fences \ {h} : pending'[g] = pending[g] /\ lock'[g] = lock[g]
      /\ pending'[h] = pending[h] - 1 /\ lock' = lock
  BY <1>1, <1>2, <1>3, Zenon DEF Shape
<1>7. WakeOK(t)' /\ Locks(t, r)'
  BY <1>2, <1>3, <1>5, <1>6, SMTT(40) DEF WakeOK, Locks
<1>8. \A g \in Fences : lock[g] # None /\ lock[g] = t => g = r
  BY <1>2, Zenon DEF WakeInv, Locks
<1>9. h \in Sleepers => WaitOK(h)'
  <2>1. h \in Sleepers => waiter[h] = "asleep"
    BY <1>3, SMTT(40) DEF WakeInv, WaitOK
  <2> QED
    BY <1>1, <2>1, ZenonT(60) DEF WaitOK
<1>10. fired \subseteq fired' /\ freed' = freed /\ waiter' = waiter /\ lock'[h] = None
  BY <1>1, <1>4, ZenonT(60)
<1>11. \A g \in Fences : Waking(t, g)' => g = h \/ g = r
  BY <1>5, WakingAt, ZenonT(60)
<1> QED
  BY <1>2, <1>4, <1>5, <1>6, <1>7, <1>8, <1>9, <1>10, <1>11, WakeStep, ZenonT(60)

\* ... moves the queue of that fence into the chain and is done with it,
LEMMA NestedWakeUpAllWake ==
    ASSUME CountIInv, WakeInv, NEW t \in Threads, NestedWakeUpAll(t)
    PROVE  WakeInv'
<1> SUFFICES ASSUME NEW r, NEW h, r = run[t].root, h = run[t].cur
             PROVE  WakeInv'
  BY Zenon
<1> USE DEF CountIInv, ControlInv
<1>1. /\ Stands(t, "nestedwake")
      /\ lock[h] = None
      /\ pending' = [pending EXCEPT ![h] = -1]
      /\ Moves(t, "scan", r, None, run[t].extra \o list[h], run[t].then)
      /\ freed' = freed \cup {h}
      /\ UNCHANGED <<lock, waiter, fired>>
  BY NestedWakeUpAllMoves, Zenon
<1>2. /\ h \in Fences /\ r \in Fences /\ run[t].at = "nestedwake" /\ Waking(t, r)
      /\ Waking(t, h)
  BY <1>1, ZenonT(60) DEF Stands, Waking
<1>3. pending[h] = 0 /\ pending[r] = -1 /\ lock[r] = t /\ r # h /\ h \in fired
  BY <1>2, WakesFired, SMTT(40) DEF WakeInv, WakeOK
<1>4. \A u \in Threads \ {t} : ~Waking(u, h)
  BY <1>2, Zenon DEF WakeInv
<1>5. /\ \A u \in Threads \ {t} : run'[u] = run[u]
      /\ run'[t].at = "scan" /\ run'[t].root = r
  BY <1>1, ZenonT(60) DEF Moves
<1>6. /\ \A g \in Fences \ {h} : pending'[g] = pending[g] /\ lock'[g] = lock[g]
      /\ pending'[h] = -1 /\ lock' = lock
  BY <1>1, <1>2, ZenonT(60) DEF Shape
<1>7. WakeOK(t)' /\ Locks(t, r)'
  BY <1>2, <1>3, <1>5, <1>6, ZenonT(60) DEF WakeOK, Locks
<1>8. \A g \in Fences : lock[g] # None /\ lock[g] = t => g = r
  BY <1>2, Zenon DEF WakeInv, Locks
<1>9. h \in Sleepers => WaitOK(h)'
  <2>1. h \in Sleepers => waiter[h] = "asleep"
    BY <1>3 DEF WakeInv, WaitOK
  <2> QED
    BY <1>1, <2>1, ZenonT(60) DEF WaitOK
<1>10. /\ fired' = fired /\ freed' = freed \cup {h} /\ waiter' = waiter
       /\ lock'[h] = None /\ h \in fired' /\ h \notin freed
  BY <1>1, <1>2, <1>3, ZenonT(60) DEF WakeInv
<1>11. \A g \in Fences : Waking(t, g)' => g = r
  BY <1>5, WakingAt, Zenon
<1>12. ~Waking(t, h)' /\ fired \subseteq fired'
  BY <1>2, <1>3, <1>10, <1>11, ZenonT(60)
<1>13. \A g \in freed' : \/ g \in freed /\ g # h
                         \/ g = h /\ h \in fired' /\ pending'[h] = -1 /\ ~Waking(t, h)'
  BY <1>6, <1>10, <1>12, ZenonT(60)
<1> QED
  BY <1>2, <1>4, <1>5, <1>6, <1>7, <1>8, <1>9, <1>10, <1>11, <1>12, <1>13, WakeStep, ZenonT(60)

\* ... and drops it when queue and chain are empty.
LEMMA SpliceWake ==
    ASSUME CountIInv, WakeInv, NEW t \in Threads, Splice(t)
    PROVE  WakeInv'
<1> SUFFICES ASSUME NEW h, h = run[t].root
             PROVE  WakeInv'
  BY Zenon
<1> USE DEF CountIInv, ControlInv
<1>1. /\ Stands(t, "scan")
      /\ \/ /\ lock' = [lock EXCEPT ![h] = None] /\ freed' = freed \cup {h}
            /\ Moves(t, "idle", None, None, <<>>, None)
         \/ /\ UNCHANGED <<lock, freed>>
            /\ Moves(t, "scan", h, None, <<>>, run[t].then)
      /\ UNCHANGED <<pending, waiter, fired>>
  BY SpliceMoves, ReturnMoves, Zenon
<1>2. h \in Fences /\ run[t].at = "scan" /\ Waking(t, h)
  BY <1>1, Zenon DEF Stands, Waking
<1>3. pending[h] = -1 /\ lock[h] = t /\ h \in fired /\ h \notin freed
  BY <1>2, WakesFired, ZenonT(60) DEF WakeInv, WakeOK
<1>4. \A u \in Threads \ {t} : ~Waking(u, h)
  BY <1>2, Zenon DEF WakeInv
<1>5. /\ \A u \in Threads \ {t} : run'[u] = run[u]
      /\ \/ run'[t].at = "scan" /\ run'[t].root = h /\ UNCHANGED <<lock, freed>>
         \/ /\ run'[t].at = "idle" /\ freed' = freed \cup {h}
            /\ lock' = [lock EXCEPT ![h] = None]
  BY <1>1, ZenonT(60) DEF Moves
<1>6. /\ \A g \in Fences \ {h} : pending'[g] = pending[g] /\ lock'[g] = lock[g]
      /\ pending'[h] = -1
  BY <1>1, <1>2, <1>3, ZenonT(60) DEF Shape
<1>7. lock'[h] = None \/ (lock'[h] = t /\ Locks(t, h)')
  BY <1>2, <1>3, <1>5, SMTT(40) DEF Locks, Shape
<1>8. WakeOK(t)'
  BY <1>3, <1>5, <1>6, ZenonT(60) DEF WakeOK
<1>9. \A g \in Fences : lock[g] # None /\ lock[g] = t => g = h
  BY <1>2, Zenon DEF WakeInv, Locks
<1>10. h \in Sleepers => WaitOK(h)'
  <2>1. h \in Sleepers => WaitOK(h)
    BY ZenonT(60) DEF WakeInv
  <2>2. lock'[h] = lock[h] \/ lock'[h] = None
    BY <1>2, <1>5, SMTT(40) DEF Shape
  <2> QED
    BY <1>1, <2>1, <2>2, ZenonT(60) DEF WaitOK
<1>11. fired' = fired /\ waiter' = waiter
  BY <1>1, Zenon
<1>12. /\ \A g \in Fences : Waking(t, g)' => g = h
       /\ freed' = freed \/ (freed' = freed \cup {h} /\ ~Waking(t, h)')
  <2>1. CASE run'[t].at = "scan" /\ run'[t].root = h /\ UNCHANGED <<lock, freed>>
    <3>1. freed' = freed
      BY <2>1, Zenon
    <3>2. \A g \in Fences : Waking(t, g)' => g = h
      <4>1. run'[t].at \in {"wake", "scan", "nested"}
        BY <2>1, Zenon
      <4> QED
        BY <2>1, <4>1, WakingAt, ZenonT(60)
    <3> QED
      BY <3>1, <3>2, ZenonT(60)
  <2>2. CASE run'[t].at = "idle" /\ freed' = freed \cup {h}
    BY <2>2, WakingAt, ZenonT(60)
  <2> QED
    BY <1>5, <2>1, <2>2, ZenonT(60)
<1>13. \A g \in freed' : \/ g \in freed /\ g # h
                         \/ g = h /\ h \in fired' /\ pending'[h] = -1 /\ ~Waking(t, h)'
  BY <1>3, <1>6, <1>11, <1>12, ZenonT(60)
<1>14. fired \subseteq fired' /\ \A g \in Fences \ {h} : ~(lock[g] # None /\ lock[g] = t)
  BY <1>9, <1>11, ZenonT(60)
<1> QED
  BY <1>2, <1>4, <1>5, <1>6, <1>7, <1>8, <1>10, <1>11, <1>12, <1>13, <1>14, WakeStep, ZenonT(60)

\* A count of -1 is that of a fence that has fired.
LEMMA DoneFired ==
    ASSUME CountIInv, NEW f \in Fences, pending[f] < 0
    PROVE  f \in fired /\ pending[f] = -1
<1> USE DEF CountIInv
<1>1. Owed(f) \in Nat /\ Owed(f) = IF f \in fired THEN 0 ELSE pending[f]
  BY OwedRest, Zenon DEF OwedSum, Exact
<1> QED
  BY <1>1 DEF SpentInv

\* The steps of a builder, a holder, a DMA fence or a timer, which at most let a
\* thread begin to count down.
LEMMA QuietWake ==
    ASSUME CountIInv, WakeInv, UNCHANGED <<lock, fired, freed>>,
           \A f \in fired : pending'[f] = pending[f],
           \A t \in Threads : run'[t] = run[t] \/ (run[t] = Idle /\ run'[t].at = "dec"),
           \A f \in Sleepers : waiter'[f] = waiter[f] \/ WaitOK(f)'
    PROVE  WakeInv'
<1> USE DEF CountIInv
<1>0. fired \subseteq Fences /\ freed \subseteq fired /\ Sleepers \subseteq Fences
  BY DepsAssumption, Zenon DEF Shape, WakeInv
<1>1. ASSUME NEW t \in Threads, NEW f
      PROVE  (Waking(t, f)' <=> Waking(t, f)) /\ (Locks(t, f) => Locks(t, f)')
  <2>1. CASE run'[t] = run[t]
    BY <2>1, ZenonT(60) DEF Waking, Locks
  <2>2. CASE run[t] = Idle /\ run'[t].at = "dec"
    BY <2>2, SMTT(40) DEF Waking, Locks, Idle
  <2> QED
    BY <2>1, <2>2, ZenonT(60)
<1>2. ASSUME NEW t \in Threads
      PROVE  WakeOK(t)'
  <2>1. CASE run'[t] = run[t]
    <3>1. WakeOK(t) /\ FiredOK(t)
      BY Zenon DEF WakeInv, FiredInv
    <3> QED
      BY <2>1, <3>1, ZenonT(60) DEF WakeOK, FiredOK
  <2>2. CASE run'[t].at = "dec"
    BY <2>2, Zenon DEF WakeOK
  <2> QED
    BY <2>1, <2>2, ZenonT(60)
<1>3. \A f \in Fences, t, u \in Threads : Waking(t, f)' /\ Waking(u, f)' => t = u
  BY <1>1, Zenon DEF WakeInv
<1>4. ASSUME NEW f \in Fences, lock'[f] # None
      PROVE  Locks(lock[f], f)'
  <2>1. lock'[f] = lock[f] /\ Locks(lock[f], f)
    BY <1>4, ZenonT(60) DEF WakeInv
  <2>2. lock[f] \in Threads
    BY <1>4, <2>1, SMTT(40) DEF Shape
  <2> SUFFICES ASSUME NEW t \in Threads, t = lock[f]
               PROVE  Locks(t, f)'
    BY <2>1, <2>2, ZenonT(60) DEF Locks
  <2> QED
    BY <1>1, <2>1, ZenonT(60)
<1>5. ASSUME NEW f \in freed'
      PROVE  f \in fired' /\ pending'[f] = -1 /\ \A t \in Threads : ~Waking(t, f)'
  BY <1>1, Zenon DEF WakeInv
<1>6. ASSUME NEW f \in Sleepers
      PROVE  WaitOK(f)'
  <2>1. CASE waiter'[f] = waiter[f]
    <3>1. WaitOK(f) /\ f \in Fences
      BY <1>0, ZenonT(60) DEF WakeInv
    <3>2. pending[f] = -1 => pending'[f] = -1
      BY <3>1, DoneFired, SMTT(40)
    <3> QED
      BY <2>1, <3>1, <3>2, ZenonT(60) DEF WaitOK
  <2> QED
    BY <2>1, Zenon
<1> QED
  BY <1>2, <1>3, <1>4, <1>5, <1>6, ZenonT(60) DEF WakeInv

\* Every step keeps the order of wake-ups,
LEMMA WakeNext ==
    ASSUME CountIInv, WakeInv, Next
    PROVE  WakeInv'
<1>0. /\ pending \in [Fences -> Int] /\ fired \subseteq Fences /\ run \in [Threads -> Runs]
      /\ Sleepers \subseteq Fences /\ Holders \subseteq Fences /\ Shape /\ ControlInv
      /\ SpentInv /\ Exact
  BY DepsAssumption, Zenon DEF CountIInv, Shape
<1>1. ASSUME NEW t \in Threads, Completion(t)
      PROVE  WakeInv'
  BY <1>1, CompleteWake, WakeUpAllWake, WakeEntryWake, NestedCompleteWake,
     NestedWakeUpAllWake, SpliceWake, ZenonT(60) DEF Completion
<1>2. ASSUME NEW f \in Fences, Builder(f)
      PROVE  WakeInv'
  <2>1. /\ UNCHANGED <<lock, fired, freed, waiter>>
        /\ \A g \in Fences \ {f} : pending'[g] = pending[g]
        /\ pending' = pending \/ build[f][1] # "done"
        /\ run' = run \/ Commit(f)
    BY <1>0, <1>2, BuilderFrame, ZenonT(60)
  <2>2. build[f][1] # "done" => f \notin fired
    <3>1. build[f][1] # "done" => f \notin committed
      BY <1>0, Zenon DEF ControlInv, BuildInv
    <3> QED
      BY <1>0, <3>1, Unfired, ZenonT(60)
  <2>3. \A g \in fired : pending'[g] = pending[g]
    BY <1>0, <2>1, <2>2, ZenonT(60)
  <2>4. ASSUME NEW t \in Threads
        PROVE  run'[t] = run[t] \/ (run[t] = Idle /\ run'[t].at = "dec")
    <3>1. CASE Commit(f)
      <4>1. /\ Call(<<"build", f>>, f, None) /\ build[f][1] # "done"
            /\ <<"build", f>> \in Threads
        BY <3>1, SMTT(40) DEF Commit, Building, Threads
      <4>2. run[<<"build", f>>] = Idle
        BY <1>0, <4>1, ZenonT(60) DEF ControlInv, BuildInv
      <4>3. /\ run'[<<"build", f>>].at = "dec"
            /\ \A u \in Threads \ {<<"build", f>>} : run'[u] = run[u]
        BY <1>0, <4>1, CallMoves, ZenonT(60) DEF Moves
      <4> QED
        BY <4>2, <4>3, ZenonT(60)
    <3> QED
      BY <2>1, <3>1, ZenonT(60)
  <2> QED
    BY <2>1, <2>3, <2>4, QuietWake, ZenonT(60)
<1>3. ASSUME NEW f \in Holders, HoldRead(f) \/ HoldExchange(f) \/ HoldDrop(f)
      PROVE  WakeInv'
  <2>1. /\ UNCHANGED <<lock, fired, freed, waiter>>
        /\ \/ pending' = pending
           \/ /\ pending' = [pending EXCEPT ![f] = @ + 1]
              /\ hold[f][1] = "cas" /\ pending[f] = hold[f][2]
        /\ \/ run' = run
           \/ hold[f][1] = "held" /\ Call(<<"hold", f>>, f, None)
    BY <1>3, Zenon DEF HoldRead, HoldExchange, HoldDrop, history
  <2>2. hold[f][1] = "cas" => hold[f][2] >= 1
    BY <1>0, ZenonT(60) DEF ControlInv, HoldInv
  <2>3. \A g \in fired : pending'[g] = pending[g]
    BY <1>0, <2>1, <2>2, SMTT(40) DEF SpentInv
  <2>4. ASSUME NEW t \in Threads
        PROVE  run'[t] = run[t] \/ (run[t] = Idle /\ run'[t].at = "dec")
    <3>1. CASE hold[f][1] = "held" /\ Call(<<"hold", f>>, f, None)
      <4>1. <<"hold", f>> \in Threads /\ hold[f][1] # "dropped"
        BY <3>1, Zenon DEF Threads
      <4>2. run[<<"hold", f>>] = Idle
        BY <1>0, <4>1, ZenonT(60) DEF ControlInv, HoldInv
      <4>3. /\ run'[<<"hold", f>>].at = "dec"
            /\ \A u \in Threads \ {<<"hold", f>>} : run'[u] = run[u]
        BY <1>0, <3>1, <4>1, CallMoves, ZenonT(60) DEF Moves
      <4> QED
        BY <4>2, <4>3, ZenonT(60)
    <3> QED
      BY <2>1, <3>1, Zenon
  <2> QED
    BY <2>1, <2>3, <2>4, QuietWake, ZenonT(60)
<1>4. ASSUME NEW d \in Dmas, DmaWake(d)
      PROVE  WakeInv'
  <2>1. /\ UNCHANGED <<lock, fired, freed, waiter, pending>>
        /\ run[<<"dma", d>>] = Idle
        /\ run' = run \/ \E g, then : Call(<<"dma", d>>, g, then)
    BY <1>4, Zenon DEF DmaWake, history
  <2>2. <<"dma", d>> \in Threads
    BY Zenon DEF Threads
  <2>3. ASSUME NEW t \in Threads
        PROVE  run'[t] = run[t] \/ (run[t] = Idle /\ run'[t].at = "dec")
    <3>1. ASSUME NEW g, NEW then, Call(<<"dma", d>>, g, then)
          PROVE  /\ run'[<<"dma", d>>].at = "dec"
                 /\ \A u \in Threads \ {<<"dma", d>>} : run'[u] = run[u]
      BY <1>0, <2>2, <3>1, CallMoves, ZenonT(60) DEF Moves
    <3> QED
      BY <2>1, <3>1, ZenonT(60)
  <2> QED
    BY <2>1, <2>3, QuietWake, ZenonT(60)
<1>5. ASSUME NEW p \in Timed, TimerWake(p)
      PROVE  WakeInv'
  <2>1. /\ UNCHANGED <<lock, fired, freed, waiter, pending>>
        /\ timer[p] = "armed"
        /\ run' = run \/ Call(<<"timer", p>>, p[1], None)
    BY <1>5, Zenon DEF TimerWake
  <2>2. <<"timer", p>> \in Threads /\ timer[p] # "running"
    BY <2>1, ZenonT(60) DEF Threads
  <2>3. run[<<"timer", p>>] = Idle
    BY <1>0, <2>2, ZenonT(60) DEF ControlInv, TimerInv
  <2>4. ASSUME NEW t \in Threads
        PROVE  run'[t] = run[t] \/ (run[t] = Idle /\ run'[t].at = "dec")
    <3>1. CASE Call(<<"timer", p>>, p[1], None)
      <4>1. /\ run'[<<"timer", p>>].at = "dec"
            /\ \A u \in Threads \ {<<"timer", p>>} : run'[u] = run[u]
        BY <1>0, <2>2, <3>1, CallMoves, ZenonT(60) DEF Moves
      <4> QED
        BY <2>3, <4>1, ZenonT(60)
    <3> QED
      BY <2>1, <3>1, ZenonT(60)
  <2> QED
    BY <2>1, <2>4, QuietWake, ZenonT(60)
<1>6. ASSUME NEW f \in Sleepers, Wait(f)
      PROVE  WakeInv'
  <2>1. UNCHANGED <<lock, fired, freed, pending, run>>
    BY <1>6, ZenonT(60) DEF Wait, history
  <2>2. /\ \A g \in Sleepers \ {f} : waiter'[g] = waiter[g]
        /\ \/ Done(f) /\ waiter'[f] = "unlock"
           \/ waiter[f] = "unlock" /\ lock[f] = None /\ waiter'[f] = "returned"
    <3>1. waiter \in [Sleepers -> {"asleep", "unlock", "returned"}]
      BY <1>0, ZenonT(60) DEF Shape
    <3> QED
      BY <1>6, <3>1, ZenonT(60) DEF Wait
  <2>3. WaitOK(f)'
    <3>1. Done(f) => pending[f] = -1
      BY <1>0, DoneFired, ZenonT(60) DEF Done
    <3>2. waiter[f] = "unlock" => pending[f] = -1
      BY Zenon DEF WakeInv, WaitOK
    <3> QED
      BY <2>1, <2>2, <3>1, <3>2, SMTT(40) DEF WaitOK
  <2> QED
    BY <2>1, <2>2, <2>3, QuietWake, ZenonT(60)
<1>7. CASE (\E d \in Dmas : Signal(d)) \/ (\E p \in Timed : IrqWork(p))
  <2>1. UNCHANGED <<lock, fired, freed, pending, run, waiter>>
    BY <1>7, Zenon DEF Signal, IrqWork, history
  <2> QED
    BY <2>1, QuietWake, ZenonT(60)
<1> QED
  BY <1>1, <1>2, <1>3, <1>4, <1>5, <1>6, <1>7, ZenonT(60) DEF Next, Running

\* Whoever waits for a fence or frees it is the last to touch it.
LEMMA WakeUntouched ==
    ASSUME CountIInv, WakeInv
    PROVE  Untouched
<1> SUFFICES ASSUME NEW f \in Fences,
                    f \in freed \/ (f \in Sleepers /\ waiter[f] = "returned")
             PROVE  /\ lock[f] = None
                    /\ \A t \in Threads : run[t].root # f /\ run[t].cur # f
  BY Zenon DEF Untouched
<1> USE DEF CountIInv, ControlInv
<1>1. f \in fired /\ pending[f] = -1
  <2>1. pending[f] = -1
    BY Zenon DEF WakeInv, WaitOK
  <2> QED
    BY <2>1, DoneFired, SMTT(40)
<1>2. lock[f] = None
  <2>1. CASE f \in freed
    <3> SUFFICES ASSUME lock[f] # None
                 PROVE  FALSE
      BY Zenon
    <3>1. lock[f] \in Threads /\ Locks(lock[f], f)
      BY Zenon DEF WakeInv, Shape
    <3> QED
      BY <2>1, <3>1, LocksWaking, ZenonT(60) DEF WakeInv
  <2>2. CASE f \in Sleepers /\ waiter[f] = "returned"
    BY <2>2, Zenon DEF WakeInv, WaitOK
  <2> QED
    BY <2>1, <2>2, Zenon
<1>3. ASSUME NEW t \in Threads
      PROVE  ~Waking(t, f) /\ ~Counting(t, f)
  <2>1. ~Counting(t, f)
    BY <1>1, Unfired, ZenonT(60)
  <2>2. t # None
    BY DepsAssumption, ZenonT(60)
  <2>3. ~Waking(t, f)
    <3>1. WakeOK(t)
      BY ZenonT(60) DEF WakeInv
    <3> QED
      BY <1>1, <1>2, <2>2, <3>1, SMTT(40) DEF Waking, WakeOK
  <2> QED
    BY <2>1, <2>3, ZenonT(60)
<1>4. ASSUME NEW t \in Threads
      PROVE  run[t].root # f /\ run[t].cur # f
  <2>1. ~Waking(t, f) /\ ~Counting(t, f) /\ RunOK(t) /\ run[t] \in Runs
    BY <1>3, ZenonT(60) DEF RunInv, Shape
  <2>2. run[t].at \in {"idle", "dec", "wake", "scan", "nested", "nestedwake"}
    BY <2>1, Zenon DEF Runs
  <2>3. f # None
    BY DepsAssumption, Zenon
  <2> QED
    <3>1. CASE run[t].at = "idle"
      <4>1. run[t].root = None /\ run[t].cur = None
        <5>1. run[t] = Idle
          BY <2>1, <3>1, ZenonT(60) DEF RunOK
        <5> QED
          BY <5>1, SMTT(40) DEF Idle
      <4> QED
        BY <2>3, <4>1, ZenonT(60)
    <3>2. CASE run[t].at # "idle"
      <4>1. run[t].root # f
        BY <2>1, <2>2, <3>2, ZenonT(60) DEF Waking, Counting
      <4>2. run[t].cur # f
        BY <2>1, <2>2, <2>3, <3>2, ZenonT(60) DEF Waking, Counting, RunOK
      <4> QED
        BY <4>1, <4>2, ZenonT(60)
    <3> QED
      BY <3>1, <3>2, ZenonT(60)
<1> QED
  BY <1>2, <1>4, Zenon

\* ... which holds initially.
LEMMA WakeInit == Init => WakeInv
<1> SUFFICES ASSUME Init
             PROVE  WakeInv
  BY Zenon
<1>1. \A t \in Threads : run[t].at = "idle"
  BY Zenon DEF Init, Idle
<1>2. freed = {} /\ (\A f \in Fences : lock[f] = None)
      /\ \A f \in Sleepers : waiter[f] = "asleep"
  BY Zenon DEF Init
<1> QED
  BY <1>1, <1>2, ZenonT(60) DEF WakeInv, WakeOK, WaitOK, Waking

-----------------------------------------------------------------------------
(* The callback of a timed wait.                                           *)

\* The DMA fence or the builder still knows the callback of p.
Known(p) == At(p[1], cbs[p[2]]) # {} \/ build[p[1]] = <<"addcb", p[2]>>

\* The callback of a timed wait is queued once, run once and then freed once.
CallbackOK(p) ==
    /\ \A i, j \in At(p[1], cbs[p[2]]) : i = j
    /\ build[p[1]] = <<"addcb", p[2]>> => At(p[1], cbs[p[2]]) = {}
    /\ p \notin awaits => ~Known(p) /\ work[p] = "none"
    /\ \A t \in Threads : run[t].then = p =>
          p \in awaits /\ ~Known(p) /\ p \notin owner /\ work[p] = "none"
    /\ work[p] # "none" => p \in awaits /\ ~Known(p) /\ p \notin owner
    /\ work[p] = "freed" => timer[p] = "off"

CallbackInv == \A p \in Timed : CallbackOK(p)

\* A step that touches nothing of the callback of p.
LEMMA CallbackKept ==
    ASSUME NEW p \in Timed, CallbackOK(p),
           cbs'[p[2]] = cbs[p[2]],
           build'[p[1]] = <<"addcb", p[2]>> <=> build[p[1]] = <<"addcb", p[2]>>,
           p \in awaits => p \in awaits', p \in awaits' => p \in awaits,
           p \in owner' => p \in owner,
           work'[p] = work[p],
           work[p] = "freed" /\ timer[p] = "off" => timer'[p] = "off",
           \A t \in Threads : run'[t].then = p => run[t].then = p
    PROVE  CallbackOK(p)'
<1>1. At(p[1], cbs[p[2]])' = At(p[1], cbs[p[2]])
  BY Zenon DEF At
<1>2. Known(p)' <=> Known(p)
  BY <1>1, Zenon DEF Known
<1> QED
  BY <1>1, <1>2, Zenon DEF CallbackOK

\* A completion hands the callback of a timed wait to the irq work at most once.
LEMMA CompletionCallback ==
    ASSUME CountIInv, CallbackInv, NEW t \in Threads, Completion(t)
    PROVE  CallbackInv'
<1> USE DEF CountIInv, ControlInv
<1> SUFFICES ASSUME NEW p \in Timed
             PROVE  CallbackOK(p)'
  BY Zenon DEF CallbackInv
<1>0. CallbackOK(p)
  BY Zenon DEF CallbackInv
<1>1. /\ \A u \in Threads \ {t} : run'[u] = run[u]
      /\ UNCHANGED <<build, cbs, owner, awaits>>
      /\ \/ UNCHANGED <<timer, work>>
         \/ Return(t) /\ run'[t] = Idle
  BY CompletionFrame, Zenon
<1>2. run'[t].then = run[t].then \/ run'[t] = Idle
  BY CompleteMoves, WakeUpAllMoves, WakeEntryMoves, NestedCompleteMoves,
     NestedWakeUpAllMoves, SpliceMoves, ReturnMoves, ZenonT(60) DEF Completion, Moves
<1>3. p # None /\ Idle.then = None
  BY DepsAssumption, Zenon DEF Idle
<1>4. \A u \in Threads : run'[u].then = p => run[u].then = p
  BY <1>1, <1>2, <1>3, Zenon
<1>5. CASE UNCHANGED <<timer, work>>
  BY <1>0, <1>1, <1>4, <1>5, CallbackKept, ZenonT(60)
<1>6. CASE Return(t) /\ run'[t] = Idle
  <2>1. /\ timer \in [Timed -> {"off", "armed", "running"}]
        /\ work \in [Timed -> {"none", "queued", "freed"}]
    BY Zenon DEF Shape
  <2>2. timer[p] = "off" => timer'[p] = "off"
    BY <1>6, <2>1, Zenon DEF Return
  <2>3. CASE t[1] = "dma" /\ run[t].then = p
    <3>1. work'[p] = "queued"
      BY <1>3, <1>6, <2>1, <2>3, ZenonT(60) DEF Return
    <3>2. p \in awaits /\ ~Known(p) /\ p \notin owner /\ work[p] = "none"
      BY <1>0, <2>3, Zenon DEF CallbackOK
    <3>3. At(p[1], cbs[p[2]])' = At(p[1], cbs[p[2]]) /\ (Known(p)' <=> Known(p))
      BY <1>1, Zenon DEF At, Known
    <3>4. ASSUME NEW u \in Threads
          PROVE  run'[u].then # p
      <4>1. RunOK(t) /\ RunOK(u)
        BY Zenon DEF RunInv
      <4>2. t = <<"dma", p[2]>>
        BY <1>3, <2>3, <4>1, ZenonT(60) DEF RunOK
      <4>3. run[u].then = p => u = t
        BY <1>3, <4>1, <4>2, Zenon DEF RunOK
      <4> QED
        BY <1>1, <1>3, <1>6, <4>3, ZenonT(60)
    <3>5. work'[p] # "none" /\ work'[p] # "freed"
      BY <3>1, Zenon
    <3> QED
      BY <1>0, <1>1, <3>2, <3>3, <3>4, <3>5, ZenonT(60) DEF CallbackOK
  <2>4. CASE ~(t[1] = "dma" /\ run[t].then = p)
    <3>1. work'[p] = work[p]
      BY <1>6, <2>1, <2>4, SMTT(40) DEF Return
    <3> QED
      BY <1>0, <1>1, <1>4, <2>2, <3>1, CallbackKept, ZenonT(60)
  <2> QED
    BY <2>3, <2>4, SMTT(40)
<1> QED
  BY <1>1, <1>5, <1>6, SMTT(40)

\* A new wait has a callback nobody knows yet but its builder.
LEMMA AwaitDmaFenceCallback ==
    ASSUME CountIInv, CallbackInv, NEW f \in Fences, NEW d \in Dmas, AwaitDmaFence(f, d)
    PROVE  CallbackInv'
<1> USE DEF CountIInv, ControlInv
<1> SUFFICES ASSUME NEW p \in Timed
             PROVE  CallbackOK(p)'
  BY Zenon DEF CallbackInv
<1>0. CallbackOK(p) /\ p = <<p[1], p[2]>> /\ p[1] \in Fences /\ p[2] \in Dmas
  BY DepsAssumption DEF CallbackInv
<1>1. /\ Building(f, "next", None) /\ <<f, d>> \in todo[f]
      /\ UNCHANGED <<cbs, work, run>>
      /\ \/ UNCHANGED <<build, owner, timer, awaits>>
         \/ /\ build' = [build EXCEPT ![f] = <<"dmawait", d>>]
            /\ UNCHANGED <<owner, timer, awaits>>
         \/ /\ build' = [build EXCEPT ![f] = <<"addcb", d>>]
            /\ awaits' = awaits \cup {<<f, d>>}
            /\ \/ /\ <<f, d>> \in Timed /\ owner' = owner \cup {<<f, d>>}
                  /\ timer' = [timer EXCEPT ![<<f, d>>] = "armed"]
               \/ UNCHANGED <<owner, timer>>
  BY Zenon DEF AwaitDmaFence
<1>2. build \in [Fences -> Builds] /\ build[f] = <<"next", None>> /\ <<f, d>> \notin awaits
  BY <1>1, Zenon DEF Shape, Building, BuildInv
<1>3. CASE p # <<f, d>>
  <2>1. build'[p[1]] = <<"addcb", p[2]>> <=> build[p[1]] = <<"addcb", p[2]>>
    BY <1>0, <1>1, <1>2, <1>3, SMTT(40)
  <2>2. /\ p \in awaits' <=> p \in awaits
        /\ p \in owner' => p \in owner
    BY <1>1, <1>3, Zenon
  <2>3. timer'[p] = timer[p]
    BY <1>1, <1>3, Zenon DEF Shape
  <2> QED
    BY <1>0, <1>1, <2>1, <2>2, <2>3, CallbackKept, ZenonT(60)
<1>4. CASE p = <<f, d>>
  <2>1. ~Known(p) /\ work[p] = "none" /\ p \notin awaits
    BY <1>0, <1>2, <1>4, ZenonT(60) DEF CallbackOK
  <2>2. \A t \in Threads : run[t].then # p
    BY <1>0, <2>1, Zenon DEF CallbackOK
  <2>3. At(p[1], cbs[p[2]])' = {}
    BY <1>1, <2>1, Zenon DEF At, Known
  <2>4. CASE awaits' = awaits
    <3>1. build'[p[1]] # <<"addcb", p[2]>>
      BY <1>1, <1>2, <1>4, <2>1, <2>4, SMTT(40)
    <3>2. ~Known(p)'
      BY <2>3, <3>1, ZenonT(60) DEF Known
    <3>3. work'[p] # "freed"
      BY <1>1, <2>1, ZenonT(60)
    <3> QED
      BY <1>1, <2>1, <2>2, <2>3, <2>4, <3>2, <3>3, ZenonT(60) DEF CallbackOK
  <2>5. CASE awaits' # awaits
    <3>1. p \in awaits'
      BY <1>1, <1>4, <2>5, ZenonT(60)
    <3>2. work'[p] = "none" /\ work'[p] # "freed" /\ \A t \in Threads : run'[t].then # p
      BY <1>1, <2>1, <2>2, Zenon
    <3> QED
      BY <2>3, <3>1, <3>2, ZenonT(60) DEF CallbackOK
  <2> QED
    BY <2>4, <2>5, Zenon
<1> QED
  BY <1>3, <1>4, Zenon

\* The builder gives the callback to the DMA fence, or drops it, once.
LEMMA AddCallbackCallback ==
    ASSUME CountIInv, CallbackInv, NEW f \in Fences, AddCallback(f)
    PROVE  CallbackInv'
<1> USE DEF CountIInv, ControlInv
<1> SUFFICES ASSUME NEW p \in Timed
             PROVE  CallbackOK(p)'
  BY Zenon DEF CallbackInv
<1>0. CallbackOK(p) /\ p = <<p[1], p[2]>> /\ p[1] \in Fences /\ p[2] \in Dmas
  BY DepsAssumption, SMTT(40) DEF CallbackInv
<1>1. PICK d \in Dmas :
        /\ Building(f, "addcb", d)
        /\ build' = [build EXCEPT ![f] = <<"next", None>>]
        /\ \/ /\ cbs' = [cbs EXCEPT ![d] = Append(@, f)] /\ UNCHANGED <<owner, work>>
           \/ /\ owner' = owner \ {<<f, d>>} /\ cbs' = cbs
              /\ work' = [q \in Timed |-> IF q = <<f, d>> THEN "queued" ELSE work[q]]
        /\ UNCHANGED <<run, timer, awaits>>
  BY Zenon DEF AddCallback, history
<1>2. /\ build \in [Fences -> Builds] /\ build[f] = <<"addcb", d>>
      /\ cbs \in [Dmas -> Seq(Fences)]
      /\ work \in [Timed -> {"none", "queued", "freed"}]
  BY <1>1, Zenon DEF Shape, Building
<1>3. CASE p # <<f, d>>
  <2>1. build'[p[1]] = <<"addcb", p[2]>> <=> build[p[1]] = <<"addcb", p[2]>>
    BY <1>0, <1>1, <1>2, <1>3, SMTT(40)
  <2>2. work'[p] = work[p] /\ (p \in owner' => p \in owner)
    BY <1>1, <1>3, Zenon
  <2>3. CASE cbs'[p[2]] = cbs[p[2]]
    BY <1>0, <1>1, <2>1, <2>2, <2>3, CallbackKept, ZenonT(60)
  <2>4. CASE cbs'[p[2]] # cbs[p[2]]
    <3>1. p[2] = d /\ p[1] # f /\ cbs'[d] = Append(cbs[d], f)
      BY <1>0, <1>1, <1>2, <1>3, <2>4, SMTT(40)
    <3>2. At(p[1], Append(cbs[d], f)) = At(p[1], cbs[d])
      BY <1>2, <3>1, SMTT(40) DEF At
    <3>3. At(p[1], cbs[p[2]])' = At(p[1], cbs[p[2]])
      BY <3>1, <3>2, ZenonT(60) DEF At
    <3>4. Known(p)' <=> Known(p)
      BY <2>1, <3>3, ZenonT(60) DEF Known
    <3> QED
      BY <1>0, <1>1, <2>1, <2>2, <3>3, <3>4, ZenonT(60) DEF CallbackOK
  <2> QED
    BY <2>3, <2>4, ZenonT(60)
<1>4. CASE p = <<f, d>>
  <2>1. Known(p) /\ At(f, cbs[d]) = {}
    BY <1>0, <1>2, <1>4, ZenonT(60) DEF CallbackOK, Known
  <2>2. work[p] = "none" /\ p \in awaits /\ \A t \in Threads : run[t].then # p
    BY <1>0, <2>1, ZenonT(60) DEF CallbackOK
  <2>3. build'[p[1]] # <<"addcb", p[2]>>
    BY <1>1, <1>2, <1>4, SMTT(40)
  <2>4. CASE cbs' = [cbs EXCEPT ![d] = Append(@, f)] /\ UNCHANGED <<owner, work>>
    <3>1. cbs'[d] = Append(cbs[d], f)
      BY <1>2, <2>4, SMTT(40)
    <3>2. \A i, j \in At(f, Append(cbs[d], f)) : i = j
      BY <1>2, <2>1, SMTT(40) DEF At
    <3>3. \A i, j \in At(p[1], cbs[p[2]])' : i = j
      BY <1>4, <3>1, <3>2, Zenon DEF At
    <3>4. work'[p] = "none" /\ work'[p] # "freed"
      BY <2>2, <2>4, Zenon
    <3> QED
      BY <1>1, <2>2, <2>3, <3>3, <3>4, ZenonT(60) DEF CallbackOK
  <2>5. CASE /\ owner' = owner \ {<<f, d>>} /\ cbs' = cbs
             /\ work' = [q \in Timed |-> IF q = <<f, d>> THEN "queued" ELSE work[q]]
    <3>1. work'[p] = "queued" /\ work'[p] # "freed" /\ p \notin owner'
      BY <1>4, <2>5, SMTT(40)
    <3>2. At(p[1], cbs[p[2]])' = {}
      BY <1>4, <2>1, <2>5, SMTT(40) DEF At
    <3>3. ~Known(p)'
      BY <2>3, <3>2, ZenonT(60) DEF Known
    <3> QED
      BY <1>1, <2>2, <3>1, <3>2, <3>3, ZenonT(60) DEF CallbackOK
  <2> QED
    BY <1>1, <2>4, <2>5, ZenonT(60)
<1> QED
  BY <1>3, <1>4, Zenon

\* The builder's steps that have nothing to do with a callback.
Plain(f) ==
    \/ \E p \in SwDeps : AwaitSwFence(f, p[2])
    \/ Link(f) \/ SleepOnSwFence(f) \/ SleepOnDmaFence(f) \/ Commit(f)

\* A builder is busy with one callback at a time.
LEMMA NotAdding ==
    ASSUME Shape, NEW f \in Fences, Plain(f)
    PROVE  /\ build[f][1] # "addcb" /\ build'[f][1] # "addcb"
           /\ \A g \in Fences \ {f} : build'[g] = build[g]
           /\ UNCHANGED <<cbs, owner, work, timer>>
<1>0. UNCHANGED <<cbs, owner, work, timer>>
  BY Zenon DEF Plain, AwaitSwFence, Link, SleepOnSwFence, SleepOnDmaFence, Commit, device
<1> SUFFICES /\ build[f][1] # "addcb" /\ build'[f][1] # "addcb"
             /\ \A g \in Fences \ {f} : build'[g] = build[g]
  BY <1>0, Zenon
<1>1. build \in [Fences -> Builds]
  BY Zenon DEF Shape
<1>2. CASE \E q \in SwDeps : AwaitSwFence(f, q[2])
  <2>1. PICK q \in SwDeps :
          /\ build[f] = <<"next", None>>
          /\ \/ build' = build
             \/ build' = [build EXCEPT ![f] = <<"swwait", q[2]>>]
             \/ build' = [build EXCEPT ![f] = <<"link", q[2]>>]
    BY <1>2, Zenon DEF AwaitSwFence, Building
  <2> QED
    BY <1>1, <2>1, SMTT(40)
<1>3. CASE Commit(f)
  <2>1. build[f] = <<"next", None>> /\ build' = [build EXCEPT ![f] = <<"done", None>>]
    BY <1>3, Zenon DEF Commit, Building
  <2> QED
    BY <1>1, <2>1, SMTT(40)
<1>4. CASE Link(f) \/ SleepOnSwFence(f) \/ SleepOnDmaFence(f)
  <2>1. PICK x : /\ \/ build[f] = <<"link", x>> \/ build[f] = <<"swwait", x>>
                    \/ build[f] = <<"swunlock", x>> \/ build[f] = <<"dmawait", x>>
                 /\ \/ build' = [build EXCEPT ![f] = <<"next", None>>]
                    \/ build' = [build EXCEPT ![f] = <<"swunlock", x>>]
    BY <1>4, Zenon DEF Link, SleepOnSwFence, SleepOnDmaFence, Building
  <2> QED
    BY <1>1, <2>1, SMTT(40)
<1> QED
  BY <1>2, <1>3, <1>4, SMTT(40) DEF Plain

\* Every step of a builder keeps the callbacks alive.
LEMMA BuilderCallback ==
    ASSUME CountIInv, CallbackInv, NEW f \in Fences, Builder(f)
    PROVE  CallbackInv'
<1> USE DEF CountIInv, ControlInv
<1>1. CASE \E p \in DmaDeps : AwaitDmaFence(f, p[2])
  <2>1. PICK p \in DmaDeps : AwaitDmaFence(f, p[2])
    BY <1>1, Zenon
  <2>2. p[2] \in Dmas
    BY DepsAssumption, Zenon
  <2> QED
    BY <2>1, <2>2, AwaitDmaFenceCallback, Zenon
<1>2. CASE AddCallback(f)
  BY <1>2, AddCallbackCallback, Zenon
<1>3. CASE (\E p \in SwDeps : AwaitSwFence(f, p[2])) \/ Link(f) \/ SleepOnSwFence(f)
             \/ SleepOnDmaFence(f) \/ Commit(f)
  <2> SUFFICES ASSUME NEW p \in Timed
               PROVE  CallbackOK(p)'
    BY Zenon DEF CallbackInv
  <2>0. CallbackOK(p) /\ p[1] \in Fences
    BY DepsAssumption, Zenon DEF CallbackInv
  <2>1. UNCHANGED <<cbs, owner, work, timer>>
    BY <1>3, Zenon DEF AwaitSwFence, Link, SleepOnSwFence, SleepOnDmaFence, Commit, device
  <2>2. /\ build[f][1] # "addcb" /\ build'[f][1] # "addcb"
        /\ \A g \in Fences \ {f} : build'[g] = build[g]
    BY <1>3, NotAdding, Zenon DEF Plain
  <2>3. build'[p[1]] = <<"addcb", p[2]>> <=> build[p[1]] = <<"addcb", p[2]>>
    <3>1. CASE p[1] = f
      BY <2>2, <3>1, SMTT(40)
    <3>2. CASE p[1] # f
      BY <2>0, <2>2, <3>2, ZenonT(60)
    <3> QED
      BY <3>1, <3>2, Zenon
  <2>4. p \in awaits' <=> p \in awaits
    <3>1. CASE \E q \in SwDeps : AwaitSwFence(f, q[2])
      <4>1. PICK q \in SwDeps : AwaitSwFence(f, q[2])
        BY <3>1, Zenon
      <4>2. p # <<f, q[2]>>
        BY DepsAssumption
      <4>3. awaits' = awaits \/ awaits' = awaits \cup {<<f, q[2]>>}
        BY <4>1, Zenon DEF AwaitSwFence
      <4> QED
        BY <4>2, <4>3, Zenon
    <3>2. CASE Link(f) \/ SleepOnSwFence(f) \/ SleepOnDmaFence(f) \/ Commit(f)
      BY <3>2, Zenon DEF Link, SleepOnSwFence, SleepOnDmaFence, Commit, history
    <3> QED
      BY <1>3, <3>1, <3>2, ZenonT(60)
  <2>5. \A t \in Threads : run'[t].then = p => run[t].then = p
    <3>1. CASE Commit(f)
      <4>1. Call(<<"build", f>>, f, None) /\ <<"build", f>> \in Threads /\ p # None
        BY <3>1, DepsAssumption, ZenonT(60) DEF Commit, Threads
      <4>2. /\ run'[<<"build", f>>].then = None
            /\ \A u \in Threads \ {<<"build", f>>} : run'[u] = run[u]
        BY <4>1, CallMoves, ZenonT(60) DEF Moves
      <4> QED
        BY <4>1, <4>2, Zenon
    <3>2. CASE ~Commit(f)
      <4>1. run' = run
        BY <1>3, <3>2, ZenonT(60) DEF AwaitSwFence, Link, SleepOnSwFence, SleepOnDmaFence
      <4> QED
        BY <4>1, Zenon
    <3> QED
      BY <3>1, <3>2, Zenon
  <2> QED
    BY <2>0, <2>1, <2>3, <2>4, <2>5, CallbackKept, ZenonT(60)
<1> QED
  BY <1>1, <1>2, <1>3, Zenon DEF Builder

\* The other fences of a list whose head is taken.
LEMMA TailOther ==
    ASSUME NEW s \in Seq(Fences), s # <<>>, NEW f \in Fences, f # Head(s)
    PROVE  /\ At(f, Tail(s)) = {} <=> At(f, s) = {}
           /\ (\A i, j \in At(f, s) : i = j) => \A i, j \in At(f, Tail(s)) : i = j
<1>1. /\ Len(s) \in Nat /\ Len(s) >= 1 /\ DOMAIN s = 1 .. Len(s)
      /\ DOMAIN Tail(s) = 1 .. (Len(s) - 1)
      /\ \A i \in 1 .. (Len(s) - 1) : Tail(s)[i] = s[i + 1]
      /\ s[1] # f
  OBVIOUS
<1>2. \A i \in At(f, Tail(s)) : i \in Nat /\ i + 1 \in At(f, s)
  BY <1>1 DEF At
<1>3. \A i \in At(f, s) : i \in Int /\ i - 1 \in At(f, Tail(s))
  <2> SUFFICES ASSUME NEW i \in At(f, s)
               PROVE  i \in Int /\ i - 1 \in At(f, Tail(s))
    BY Zenon
  <2>1. i \in 1 .. Len(s) /\ s[i] = f
    BY <1>1, Zenon DEF At
  <2>2. i # 1
    BY <1>1, <2>1, Zenon
  <2>3. i - 1 \in 1 .. (Len(s) - 1) /\ (i - 1) + 1 = i
    BY <1>1, <2>1, <2>2, SMTT(40)
  <2>4. Tail(s)[i - 1] = s[i]
    BY <1>1, <2>3, Zenon
  <2> QED
    BY <1>1, <2>1, <2>3, <2>4, SMTT(40) DEF At
<1>4. \A i, j \in Nat : i + 1 = j + 1 => i = j
  OBVIOUS
<1> QED
  BY <1>2, <1>3, <1>4, ZenonT(60)

\* A callback that runs is off the list of its DMA fence for good.
LEMMA DmaWakeCallback ==
    ASSUME CountIInv, CallbackInv, NEW d \in Dmas, DmaWake(d)
    PROVE  CallbackInv'
<1> USE DEF CountIInv, ControlInv
<1> SUFFICES ASSUME NEW p \in Timed
             PROVE  CallbackOK(p)'
  BY Zenon DEF CallbackInv
<1> SUFFICES ASSUME NEW t, NEW f, t = <<"dma", d>>, f = Head(cbs[d])
             PROVE  CallbackOK(p)'
  BY Zenon
<1>0. CallbackOK(p) /\ p = <<p[1], p[2]>> /\ p[1] \in Fences /\ p[2] \in Dmas /\ p # None
  BY DepsAssumption, SMTT(40) DEF CallbackInv
<1>1. /\ cbs[d] # <<>> /\ run[t] = Idle
      /\ cbs' = [cbs EXCEPT ![d] = Tail(@)]
      /\ owner' = owner \ {<<f, d>>}
      /\ \/ /\ <<f, d>> \notin Timed \/ <<f, d>> \in owner
            /\ Call(t, f, IF <<f, d>> \in Timed THEN <<f, d>> ELSE None)
            /\ work' = work
         \/ /\ <<f, d>> \in Timed /\ <<f, d>> \notin owner
            /\ work' = [work EXCEPT ![<<f, d>>] = "queued"]
            /\ run' = run
      /\ UNCHANGED <<build, timer, awaits>>
  BY ZenonT(60) DEF DmaWake, history
<1>2. /\ cbs \in [Dmas -> Seq(Fences)] /\ work \in [Timed -> {"none", "queued", "freed"}]
      /\ t \in Threads
  BY ZenonT(60) DEF Shape, Threads
<1>3. cbs[d] \in Seq(Fences) /\ cbs'[d] = Tail(cbs[d]) /\ cbs[d][1] = f
      /\ \A e \in Dmas \ {d} : cbs'[e] = cbs[e]
  BY <1>1, <1>2, SMTT(40)
<1>4. /\ \A u \in Threads \ {t} : run'[u] = run[u]
      /\ run'[t].then = None \/ run'[t].then = <<f, d>> \/ run'[t] = run[t]
  <2>1. CASE run' = run
    BY <2>1, Zenon
  <2>2. CASE Call(t, f, IF <<f, d>> \in Timed THEN <<f, d>> ELSE None)
    <3>1. /\ run'[t].then = IF <<f, d>> \in Timed THEN <<f, d>> ELSE None
          /\ \A u \in Threads \ {t} : run'[u] = run[u]
      BY <1>2, <2>2, CallMoves, ZenonT(60) DEF Moves
    <3> QED
      BY <3>1, Zenon
  <2> QED
    BY <1>1, <2>1, <2>2, ZenonT(60)
<1>5. CASE p # <<f, d>>
  <2>1. work'[p] = work[p] /\ (p \in owner' => p \in owner)
    BY <1>1, <1>2, <1>5, Zenon
  <2>2. \A u \in Threads : run'[u].then = p => run[u].then = p
    BY <1>0, <1>4, <1>5, Zenon
  <2>3. CASE p[2] # d
    <3>1. cbs'[p[2]] = cbs[p[2]]
      BY <1>0, <1>3, <2>3, SMTT(40)
    <3> QED
      BY <1>0, <1>1, <2>1, <2>2, <3>1, CallbackKept, Zenon
  <2>4. CASE p[2] = d
    <3>1. p[1] # f
      BY <1>0, <1>5, <2>4, SMTT(40)
    <3>2. /\ At(p[1], Tail(cbs[d])) = {} <=> At(p[1], cbs[d]) = {}
          /\ (\A i, j \in At(p[1], cbs[d]) : i = j) =>
                \A i, j \in At(p[1], Tail(cbs[d])) : i = j
      BY <1>0, <1>1, <1>3, <3>1, TailOther, ZenonT(60)
    <3>3. At(p[1], cbs[p[2]])' = At(p[1], Tail(cbs[d]))
      BY <1>3, <2>4, Zenon DEF At
    <3>4. Known(p)' <=> Known(p)
      BY <1>1, <2>4, <3>2, <3>3, ZenonT(60) DEF Known
    <3>5. /\ \A i, j \in At(p[1], cbs[p[2]])' : i = j
          /\ build'[p[1]] = <<"addcb", p[2]>> => At(p[1], cbs[p[2]])' = {}
      BY <1>0, <1>1, <2>4, <3>2, <3>3, ZenonT(60) DEF CallbackOK
    <3> QED
      BY <1>0, <1>1, <2>1, <2>2, <3>4, <3>5, ZenonT(60) DEF CallbackOK
  <2> QED
    BY <2>3, <2>4, Zenon
<1>6. CASE p = <<f, d>>
  <2>0. p[1] = f /\ p[2] = d
    BY <1>6, Zenon
  <2>1. 1 \in At(f, cbs[d])
    BY <1>1, <1>3, SMTT(40) DEF At
  <2>2. Known(p)
    BY <2>0, <2>1, Zenon DEF Known
  <2>3. /\ p \in awaits /\ work[p] = "none" /\ build[f] # <<"addcb", d>>
        /\ \A u \in Threads : run[u].then # p
        /\ \A i \in At(f, cbs[d]) : i = 1
    BY <1>0, <2>0, <2>1, <2>2, ZenonT(60) DEF CallbackOK
  <2>4. At(f, Tail(cbs[d])) = {}
    <3> SUFFICES ASSUME NEW i \in At(f, Tail(cbs[d]))
                 PROVE  FALSE
      BY Zenon
    <3>1. i \in Nat \ {0} /\ i + 1 \in At(f, cbs[d])
      BY <1>1, <1>3, SMTT(40) DEF At
    <3> QED
      BY <2>3, <3>1, SMTT(40)
  <2>5. At(p[1], cbs[p[2]])' = {}
    BY <1>3, <2>0, <2>4, ZenonT(60) DEF At
  <2>6. ~Known(p)' /\ build'[p[1]] # <<"addcb", p[2]>>
    BY <1>1, <2>0, <2>3, <2>5, ZenonT(60) DEF Known
  <2>7. p \notin owner'
    BY <1>1, <1>6, ZenonT(60)
  <2>8. CASE work' = work
    <3>1. work'[p] = "none" /\ work'[p] # "freed"
      BY <2>3, <2>8, ZenonT(60)
    <3> QED
      BY <1>1, <2>3, <2>5, <2>6, <2>7, <3>1, ZenonT(60) DEF CallbackOK
  <2>9. CASE work' = [work EXCEPT ![<<f, d>>] = "queued"] /\ run' = run
    <3>1. work'[p] = "queued" /\ work'[p] # "freed"
      BY <1>2, <1>6, <2>9, SMTT(40)
    <3> QED
      BY <1>1, <2>3, <2>5, <2>6, <2>7, <2>9, <3>1, ZenonT(60) DEF CallbackOK
  <2> QED
    BY <1>1, <2>8, <2>9, SMTT(40)
<1> QED
  BY <1>5, <1>6, ZenonT(60)

\* A timer that expires leaves the callback to the DMA fence.
LEMMA TimerWakeCallback ==
    ASSUME CountIInv, CallbackInv, NEW q \in Timed, TimerWake(q)
    PROVE  CallbackInv'
<1> USE DEF CountIInv, ControlInv
<1> SUFFICES ASSUME NEW p \in Timed
             PROVE  CallbackOK(p)'
  BY Zenon DEF CallbackInv
<1>0. CallbackOK(p) /\ p # None
  BY DepsAssumption, Zenon DEF CallbackInv
<1>1. /\ timer[q] = "armed"
      /\ \/ /\ timer' = [timer EXCEPT ![q] = "running"] /\ owner' = owner \ {q}
            /\ Call(<<"timer", q>>, q[1], None)
         \/ /\ timer' = [timer EXCEPT ![q] = "off"] /\ UNCHANGED <<owner, run>>
      /\ UNCHANGED <<build, cbs, work, awaits>>
  BY Zenon DEF TimerWake
<1>2. timer \in [Timed -> {"off", "armed", "running"}] /\ <<"timer", q>> \in Threads
  BY Zenon DEF Shape, Threads
<1>3. timer[p] = "off" => timer'[p] = "off"
  BY <1>1, <1>2, Zenon
<1>4. p \in owner' => p \in owner
  BY <1>1, Zenon
<1>5. \A u \in Threads : run'[u].then = p => run[u].then = p
  <2>1. CASE run' = run
    BY <2>1, Zenon
  <2>2. CASE Call(<<"timer", q>>, q[1], None)
    <3>1. /\ run'[<<"timer", q>>].then = None
          /\ \A u \in Threads \ {<<"timer", q>>} : run'[u] = run[u]
      BY <1>2, <2>2, CallMoves, ZenonT(60) DEF Moves
    <3> QED
      BY <1>0, <3>1, Zenon
  <2> QED
    BY <1>1, <2>1, <2>2, ZenonT(60)
<1> QED
  BY <1>0, <1>1, <1>3, <1>4, <1>5, CallbackKept, ZenonT(60)

\* Every step keeps the invariant of the callbacks,
LEMMA CallbackNext ==
    ASSUME CountIInv, CallbackInv, Next
    PROVE  CallbackInv'
<1> USE DEF CountIInv, ControlInv
<1>1. CASE \E t \in Threads : Completion(t)
  BY <1>1, CompletionCallback, Zenon
<1>2. CASE \E f \in Fences : Builder(f)
  BY <1>2, BuilderCallback, Zenon
<1>3. CASE \E d \in Dmas : DmaWake(d)
  BY <1>3, DmaWakeCallback, ZenonT(60)
<1>4. CASE \E p \in Timed : TimerWake(p)
  BY <1>4, TimerWakeCallback, Zenon
<1>5. CASE \/ \E f \in Sleepers : Wait(f)
           \/ \E f \in Holders : HoldRead(f) \/ HoldExchange(f) \/ HoldDrop(f)
           \/ \E d \in Dmas : Signal(d)
  <2> SUFFICES ASSUME NEW p \in Timed
               PROVE  CallbackOK(p)'
    BY Zenon DEF CallbackInv
  <2>0. CallbackOK(p) /\ p # None
    BY DepsAssumption, Zenon DEF CallbackInv
  <2>1. UNCHANGED <<build, cbs, owner, work, timer>>
    BY <1>5, Zenon DEF Wait, HoldRead, HoldExchange, HoldDrop, Signal, device
  <2>2. p \in awaits' <=> p \in awaits
    <3>1. \A f \in Holders : p # <<f, Hold(f)>>
      <4>1. p[2] \in Dmas
        BY DepsAssumption, Zenon
      <4>2. \A f \in Holders : Hold(f) \notin Dmas
        BY DepsAssumption, Zenon DEF Hold
      <4> QED
        BY <4>1, <4>2, SMTT(40)
    <3>2. awaits' = awaits \/ \E f \in Holders : awaits' = awaits \cup {<<f, Hold(f)>>}
      BY <1>5, Zenon DEF Wait, HoldRead, HoldExchange, HoldDrop, Signal, history
    <3> QED
      BY <3>1, <3>2, Zenon
  <2>3. \A t \in Threads : run'[t].then = p => run[t].then = p
    <3>1. CASE run' = run
      BY <3>1, Zenon
    <3>2. ASSUME NEW f \in Holders, Call(<<"hold", f>>, f, None)
          PROVE  \A t \in Threads : run'[t].then = p => run[t].then = p
      <4>1. <<"hold", f>> \in Threads
        BY Zenon DEF Threads
      <4>2. /\ run'[<<"hold", f>>].then = None
            /\ \A u \in Threads \ {<<"hold", f>>} : run'[u] = run[u]
        BY <3>2, <4>1, CallMoves, ZenonT(60) DEF Moves
      <4> QED
        BY <2>0, <4>2, ZenonT(60)
    <3>3. run' = run \/ \E f \in Holders : Call(<<"hold", f>>, f, None)
      BY <1>5, ZenonT(60) DEF Wait, HoldRead, HoldExchange, HoldDrop, Signal
    <3> QED
      BY <3>1, <3>2, <3>3, ZenonT(60)
  <2> QED
    BY <2>0, <2>1, <2>2, <2>3, CallbackKept, ZenonT(60)
<1>6. ASSUME NEW q \in Timed, IrqWork(q)
      PROVE  CallbackInv'
  <2> SUFFICES ASSUME NEW p \in Timed
               PROVE  CallbackOK(p)'
    BY Zenon DEF CallbackInv
  <2>0. CallbackOK(p)
    BY Zenon DEF CallbackInv
  <2>1. /\ work[q] = "queued" /\ timer' = [timer EXCEPT ![q] = "off"]
        /\ work' = [work EXCEPT ![q] = "freed"]
        /\ UNCHANGED <<run, build, cbs, owner, awaits>>
    BY <1>6, Zenon DEF IrqWork, history
  <2>2. /\ timer \in [Timed -> {"off", "armed", "running"}]
        /\ work \in [Timed -> {"none", "queued", "freed"}]
    BY Zenon DEF Shape
  <2>3. CASE p # q
    <3>1. work'[p] = work[p] /\ timer'[p] = timer[p]
      BY <2>1, <2>2, <2>3, ZenonT(60)
    <3> QED
      BY <2>0, <2>1, <3>1, CallbackKept, ZenonT(60)
  <2>4. CASE p = q
    <3>1. work'[p] = "freed" /\ timer'[p] = "off" /\ work[p] # "none"
      BY <2>1, <2>2, <2>4, ZenonT(60)
    <3>2. At(p[1], cbs[p[2]])' = At(p[1], cbs[p[2]]) /\ (Known(p)' <=> Known(p))
      BY <2>1, Zenon DEF At, Known
    <3>3. p \in awaits /\ ~Known(p) /\ p \notin owner /\ \A t \in Threads : run[t].then # p
      BY <2>0, <3>1, ZenonT(60) DEF CallbackOK
    <3> QED
      BY <2>0, <2>1, <3>1, <3>2, <3>3, ZenonT(60) DEF CallbackOK
  <2> QED
    BY <2>3, <2>4, Zenon
<1> QED
  BY <1>1, <1>2, <1>3, <1>4, <1>5, <1>6, Zenon DEF Next, Running

\* ... it holds initially,
LEMMA CallbackInit == Init => CallbackInv
<1> SUFFICES ASSUME Init, NEW p \in Timed
             PROVE  CallbackOK(p)
  BY Zenon DEF CallbackInv
<1>0. p[1] \in Fences /\ p[2] \in Dmas /\ p # None
  BY DepsAssumption, Zenon
<1>1. At(p[1], cbs[p[2]]) = {} /\ build[p[1]] # <<"addcb", p[2]>> /\ work[p] = "none"
  BY <1>0 DEF Init, At
<1>2. \A t \in Threads : run[t].then # p
  BY <1>0, Zenon DEF Init, Idle
<1> QED
  BY <1>1, <1>2, Zenon DEF CallbackOK, Known

\* ... and says what CallbackAlive does.
LEMMA CallbackLives == CallbackInv => CallbackAlive
BY Zenon DEF CallbackInv, CallbackOK, CallbackAlive, Known
=============================================================================
