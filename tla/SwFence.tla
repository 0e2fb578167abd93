------------------------------- MODULE SwFence -------------------------------
(***************************************************************************)
(* i915_sw_fence: the counted fences from which the driver builds the graph *)
(* of what a request waits for (i915_sw_fence.c and .h).  Each fence has a  *)
(* builder, which makes it wait for other software fences, for DMA fences   *)
(* with or without a timeout, and then commits it; holders take and drop a  *)
(* reference of their own, and a task may sleep until the fence is done.    *)
(* Builders, DMA fence callbacks, timers and holders all run the completion *)
(* code, on any CPU.                                                        *)
(***************************************************************************)
EXTENDS Integers, Sequences, FiniteSets

CONSTANTS
    Fences,
    Dmas,       \* DMA fences (external)
    SwDeps,     \* the pairs <<f, s>>: the builder of f awaits the fence s
    DmaDeps,    \* the pairs <<f, d>>: the builder of f awaits the DMA fence d
    Timed,      \* the pairs of DmaDeps that are awaited with a timeout
    Holders,    \* the fences on which a holder may call i915_sw_fence_await()
    Sleepers,   \* the fences a task calls i915_sw_fence_wait() on
    NoMem,      \* kmalloc() of a wait entry may fail
    None

Threads == ({"build"} \X Fences) \cup ({"hold"} \X Holders)
             \cup ({"dma"} \X Dmas) \cup ({"timer"} \X Timed)

ASSUME DepsAssumption ==
    /\ SwDeps \subseteq Fences \X Fences
    /\ DmaDeps \subseteq Fences \X Dmas
    /\ Timed \subseteq DmaDeps
    /\ Holders \subseteq Fences /\ Sleepers \subseteq Fences
    /\ Fences \cap Dmas = {}
    /\ IsFiniteSet(Fences) /\ IsFiniteSet(Dmas)
    /\ NoMem \in BOOLEAN
    /\ None \notin Fences \cup Dmas \cup Timed \cup Threads
    /\ \A f \in Fences : <<"hold", f>> \notin Fences \cup Dmas

Hold(f) == <<"hold", f>>    \* what a fence awaits while a holder keeps it

VARIABLES
    pending,    \* fence->pending
    error,      \* fence->error, as whether it is set
    list,       \* fence->wait.head: the fences whose entries are queued on it
    lock,       \* fence->wait.lock
    run,        \* each thread's place in __i915_sw_fence_complete()
    build,      \* each builder's place in its await calls
    todo,       \* what each builder has still to await
    hold,       \* each holder's place, and the count it read
    waiter,     \* a task in i915_sw_fence_wait(), for each fence
    dma,        \* external: each DMA fence, and its error
    cbs,        \* external: the callbacks queued on each DMA fence
    owner,      \* the timed callbacks whose cb->fence is still set
    timer,      \* external: the timer of each timed callback
    work,       \* external: the irq_work of each timed callback
    awaits, committed, released, fired, freed   \* what has happened so far

history == <<awaits, committed, released, fired, freed>>
device == <<dma, cbs, owner, timer, work>>
vars == <<pending, error, list, lock, run, build, todo, hold, waiter, device,
          history>>

Idle == [at |-> "idle", root |-> None, cur |-> None, extra |-> <<>>,
         then |-> None]

Init ==
    /\ pending = [f \in Fences |-> 1]
    /\ error = [f \in Fences |-> FALSE]
    /\ list = [f \in Fences |-> <<>>]
    /\ lock = [f \in Fences |-> None]
    /\ run = [t \in Threads |-> Idle]
    /\ build = [f \in Fences |-> <<"next", None>>]
    /\ todo = [f \in Fences |-> {p \in SwDeps \cup DmaDeps : p[1] = f}]
    /\ hold = [f \in Holders |-> <<"idle", 0>>]
    /\ waiter = [f \in Sleepers |-> "asleep"]
    /\ dma = [d \in Dmas |-> "pending"]
    /\ cbs = [d \in Dmas |-> <<>>]
    /\ owner = {}
    /\ timer = [p \in Timed |-> "off"]
    /\ work = [p \in Timed |-> "none"]
    /\ awaits = {} /\ committed = {} /\ released = {}
    /\ fired = {} /\ freed = {}

Done(f) == pending[f] < 0                        \* i915_sw_fence_done()
Signaled(d) == dma[d] # "pending"                \* dma_fence_is_signaled()

\* i915_sw_fence_set_error_once()
SetError(f, err) == error' = [error EXCEPT ![f] = @ \/ err]

-----------------------------------------------------------------------------
(* __i915_sw_fence_complete() and __i915_sw_fence_wake_up_all().           *)

\* The thread t calls i915_sw_fence_complete(f), and does `then' afterwards.
Call(t, f, then) ==
    run' = [run EXCEPT ![t] = [Idle EXCEPT !.at = "dec", !.root = f,
                                           !.then = then]]

\* i915_sw_fence_complete() returns into its caller: the caller of the
\* DMA callback of a timed pair queues the irq_work that frees the callback,
\* a timer handler ends.
Return(t) ==
    /\ run' = [run EXCEPT ![t] = Idle]
    /\ work' = IF t[1] = "dma" /\ run[t].then # None
                 THEN [work EXCEPT ![run[t].then] = "queued"] ELSE work
    /\ timer' = IF t[1] = "timer" THEN [timer EXCEPT ![t[2]] = "off"] ELSE timer

\* i915_sw_fence_complete() down to the FENCE_COMPLETE callback.
Complete(t) ==
    LET f == run[t].root
    IN  /\ run[t].at = "dec"
        /\ pending' = [pending EXCEPT ![f] = IF Done(f) THEN @ ELSE @ - 1]
        /\ IF pending[f] = 1
             THEN /\ fired' = fired \cup {f}
                  /\ run' = [run EXCEPT ![t].at = "wake"]
                  /\ UNCHANGED <<timer, work>>
             ELSE Return(t) /\ UNCHANGED fired
        /\ UNCHANGED <<error, list, lock, build, todo, hold, waiter, dma, cbs,
                       owner, awaits, committed, released, freed>>

\* __i915_sw_fence_wake_up_all() takes the lock of the first fence of a chain,
\* and keeps it until every entry has been woken.
WakeUpAll(t) ==
    LET f == run[t].root
    IN  /\ run[t].at = "wake"
        /\ lock[f] = None
        /\ lock' = [lock EXCEPT ![f] = t]
        /\ pending' = [pending EXCEPT ![f] = -1]
        /\ run' = [run EXCEPT ![t].at = "scan"]
        /\ UNCHANGED <<error, list, build, todo, hold, waiter, device, history>>

\* i915_sw_fence_wake() on the next entry: hand on the error of the first
\* fence, unlink the entry.
WakeEntry(t) ==
    LET f == run[t].root
        g == Head(list[f])
    IN  /\ run[t].at = "scan"
        /\ list[f] # <<>>
        /\ SetError(g, error[f])
        /\ list' = [list EXCEPT ![f] = Tail(@)]
        /\ run' = [run EXCEPT ![t].at = "nested", ![t].cur = g]
        /\ UNCHANGED <<pending, lock, build, todo, hold, waiter, device, history>>

\* ... and __i915_sw_fence_complete() on the fence of the entry.
NestedComplete(t) ==
    LET g == run[t].cur
    IN  /\ run[t].at = "nested"
        /\ pending' = [pending EXCEPT ![g] = @ - 1]
        /\ fired' = IF pending[g] = 1 THEN fired \cup {g} ELSE fired
        /\ run' = IF pending[g] = 1
                    THEN [run EXCEPT ![t].at = "nestedwake"]
                    ELSE [run EXCEPT ![t].at = "scan", ![t].cur = None]
        /\ UNCHANGED <<error, list, lock, build, todo, hold, waiter, device,
                       awaits, committed, released, freed>>

\* Mutant: the fence is never marked as done.
NestedWakeUpAllQuiet(t) ==
    LET g == run[t].cur
    IN  /\ run[t].at = "nestedwake"
        /\ lock[g] = None
        /\ run' = [run EXCEPT ![t].at = "scan", ![t].cur = None,
                              ![t].extra = @ \o list[g]]
        /\ list' = [list EXCEPT ![g] = <<>>]
        /\ freed' = freed \cup {g}
        /\ UNCHANGED <<pending, error, lock, build, todo, hold, waiter, device,
                       awaits, committed, released, fired>>

\* A fence that becomes ready in the chain gives its entries to the loop of
\* the first fence instead of recursing, and is done with: FENCE_FREE.
NestedWakeUpAll(t) ==
    LET g == run[t].cur
    IN  /\ run[t].at = "nestedwake"
        /\ lock[g] = None
        /\ pending' = [pending EXCEPT ![g] = -1]
        /\ run' = [run EXCEPT ![t].at = "scan", ![t].cur = None,
                              ![t].extra = @ \o list[g]]
        /\ list' = [list EXCEPT ![g] = <<>>]
        /\ freed' = freed \cup {g}
        /\ UNCHANGED <<error, lock, build, todo, hold, waiter, device, awaits,
                       committed, released, fired>>

\* The end of a round of the loop: another one with the entries of the chain,
\* or else the lock is dropped and FENCE_FREE called.
Splice(t) ==
    LET f == run[t].root
    IN  /\ run[t].at = "scan"
        /\ list[f] = <<>>
        /\ IF run[t].extra = <<>>
             THEN /\ lock' = [lock EXCEPT ![f] = None]
                  /\ freed' = freed \cup {f}
                  /\ Return(t)
                  /\ UNCHANGED list
             ELSE /\ list' = [list EXCEPT ![f] = run[t].extra]
                  /\ run' = [run EXCEPT ![t].extra = <<>>]
                  /\ UNCHANGED <<lock, freed, timer, work>>
        /\ UNCHANGED <<pending, error, build, todo, hold, waiter, dma, cbs, owner,
                       awaits, committed, released, fired>>

Completion(t) ==
    \/ Complete(t) \/ WakeUpAll(t) \/ WakeEntry(t) \/ NestedComplete(t)
    \/ NestedWakeUpAll(t) \/ Splice(t)

-----------------------------------------------------------------------------
(* The builder of f: i915_sw_fence_await_sw_fence_gfp() and                *)
(* i915_sw_fence_await_dma_fence() for each dependency, then               *)
(* i915_sw_fence_commit().                                                 *)

Building(f, at, d) == build[f] = <<at, d>>

\* __i915_sw_fence_await_sw_fence() up to the lock of the signaler: nothing to
\* wait for, no memory for the entry and a sleep instead, or one more count.
AwaitSwFence(f, s) ==
    /\ Building(f, "next", None)
    /\ <<f, s>> \in todo[f]
    /\ todo' = [todo EXCEPT ![f] = @ \ {<<f, s>>}]
    /\ \/ /\ Done(s)
          /\ SetError(f, error[s])
          /\ UNCHANGED <<pending, build, awaits>>
       \/ /\ ~Done(s) /\ NoMem
          /\ build' = [build EXCEPT ![f] = <<"swwait", s>>]
          /\ UNCHANGED <<pending, error, awaits>>
       \/ /\ ~Done(s)
          /\ pending' = [pending EXCEPT ![f] = @ + 1]
          /\ build' = [build EXCEPT ![f] = <<"link", s>>]
          /\ awaits' = awaits \cup {<<f, s>>}
          /\ UNCHANGED error
    /\ UNCHANGED <<list, lock, run, hold, waiter, device, committed, released,
                   fired, freed>>

\* Mutant: the signaler is not looked at again under its lock.
LinkUnchecked(f) ==
    \E s \in Fences :
        /\ Building(f, "link", s)
        /\ lock[s] = None
        /\ build' = [build EXCEPT ![f] = <<"next", None>>]
        /\ list' = [list EXCEPT ![s] = Append(@, f)]
        /\ UNCHANGED <<pending, error, lock, run, todo, hold, waiter, device,
                       history>>

\* The section under signaler->wait.lock: queue the entry, or wake it on the
\* spot when the signaler was done meanwhile.
Link(f) ==
    \E s \in Fences :
        /\ Building(f, "link", s)
        /\ lock[s] = None
        /\ build' = [build EXCEPT ![f] = <<"next", None>>]
        /\ IF ~Done(s)
             THEN /\ list' = [list EXCEPT ![s] = Append(@, f)]
                  /\ UNCHANGED <<pending, error>>
             ELSE /\ SetError(f, error[s])
                  /\ pending' = [pending EXCEPT ![f] = @ - 1]
                  /\ UNCHANGED list
        /\ UNCHANGED <<lock, run, todo, hold, waiter, device, history>>

\* i915_sw_fence_wait(signaler) when there was no memory.
SleepOnSwFence(f) ==
    \E s \in Fences :
        /\ \/ /\ Building(f, "swwait", s) /\ Done(s)
              /\ build' = [build EXCEPT ![f] = <<"swunlock", s>>]
              /\ UNCHANGED error
           \/ /\ Building(f, "swunlock", s) /\ lock[s] = None
              /\ build' = [build EXCEPT ![f] = <<"next", None>>]
              /\ SetError(f, error[s])
        /\ UNCHANGED <<pending, list, lock, run, todo, hold, waiter, device,
                       history>>

\* i915_sw_fence_await_dma_fence() up to dma_fence_add_callback(): the timer of
\* a timed callback already runs.
AwaitDmaFence(f, d) ==
    /\ Building(f, "next", None)
    /\ <<f, d>> \in todo[f]
    /\ todo' = [todo EXCEPT ![f] = @ \ {<<f, d>>}]
    /\ \/ /\ Signaled(d)
          /\ SetError(f, dma[d] = "failed")
          /\ UNCHANGED <<pending, build, owner, timer, awaits>>
       \/ /\ ~Signaled(d) /\ NoMem
          /\ build' = [build EXCEPT ![f] = <<"dmawait", d>>]
          /\ UNCHANGED <<pending, error, owner, timer, awaits>>
       \/ /\ ~Signaled(d)
          /\ pending' = [pending EXCEPT ![f] = @ + 1]
          /\ build' = [build EXCEPT ![f] = <<"addcb", d>>]
          /\ awaits' = awaits \cup {<<f, d>>}
          /\ IF <<f, d>> \in Timed
               THEN /\ owner' = owner \cup {<<f, d>>}
                    /\ timer' = [timer EXCEPT ![<<f, d>>] = "armed"]
               ELSE UNCHANGED <<owner, timer>>
          /\ UNCHANGED error
    /\ UNCHANGED <<list, lock, run, hold, waiter, dma, cbs, work, committed,
                   released, fired, freed>>

\* dma_fence_add_callback(), or the callback itself when it is too late for
\* that.  The builder's own count keeps the fence from firing here.
AddCallback(f) ==
    \E d \in Dmas :
        LET p == <<f, d>>
            mine == p \notin Timed \/ p \in owner   \* xchg(&cb->fence, NULL)
        IN  /\ Building(f, "addcb", d)
            /\ build' = [build EXCEPT ![f] = <<"next", None>>]
            /\ IF ~Signaled(d)
                 THEN /\ cbs' = [cbs EXCEPT ![d] = Append(@, f)]
                      /\ UNCHANGED <<pending, error, owner, work>>
                 ELSE /\ SetError(f, mine /\ dma[d] = "failed")
                      /\ pending' = [pending EXCEPT ![f] = IF mine THEN @ - 1 ELSE @]
                      /\ owner' = owner \ {p}
                      /\ work' = [q \in Timed |-> IF q = p THEN "queued" ELSE work[q]]
                      /\ UNCHANGED cbs
            /\ UNCHANGED <<list, lock, run, todo, hold, waiter, dma, timer, history>>

\* dma_fence_wait() when there was no memory.
SleepOnDmaFence(f) ==
    \E d \in Dmas :
        /\ Building(f, "dmawait", d)
        /\ Signaled(d)
        /\ build' = [build EXCEPT ![f] = <<"next", None>>]
        /\ SetError(f, dma[d] = "failed")
        /\ UNCHANGED <<pending, list, lock, run, todo, hold, waiter, device, history>>

\* i915_sw_fence_commit()
Commit(f) ==
    /\ Building(f, "next", None)
    /\ todo[f] = {}
    /\ build' = [build EXCEPT ![f] = <<"done", None>>]
    /\ committed' = committed \cup {f}
    /\ Call(<<"build", f>>, f, None)
    /\ UNCHANGED <<pending, error, list, lock, todo, hold, waiter, device, awaits,
                   released, fired, freed>>

Builder(f) ==
    \/ \E p \in SwDeps : AwaitSwFence(f, p[2])
    \/ \E p \in DmaDeps : AwaitDmaFence(f, p[2])
    \/ Link(f) \/ SleepOnSwFence(f) \/ AddCallback(f) \/ SleepOnDmaFence(f)
    \/ Commit(f)

-----------------------------------------------------------------------------
(* Holders, sleepers, DMA fences and timers.                               *)

\* i915_sw_fence_await(): the read, and each turn of the compare and exchange.
HoldRead(f) ==
    /\ hold[f][1] = "idle"
    /\ hold' = [hold EXCEPT ![f] = IF pending[f] < 1 THEN <<"late", 0>>
                                   ELSE <<"cas", pending[f]>>]
    /\ UNCHANGED <<pending, error, list, lock, run, build, todo, waiter, device,
                   history>>

\* Mutant: the count is raised whatever it is by now.
HoldExchangeBlind(f) ==
    /\ hold[f][1] = "cas"
    /\ pending' = [pending EXCEPT ![f] = @ + 1]
    /\ hold' = [hold EXCEPT ![f] = <<"held", 0>>]
    /\ awaits' = awaits \cup {<<f, Hold(f)>>}
    /\ UNCHANGED <<error, list, lock, run, build, todo, waiter, device, committed,
                   released, fired, freed>>

HoldExchange(f) ==
    /\ hold[f][1] = "cas"
    /\ IF pending[f] = hold[f][2]
         THEN /\ pending' = [pending EXCEPT ![f] = @ + 1]
              /\ hold' = [hold EXCEPT ![f] = <<"held", 0>>]
              /\ awaits' = awaits \cup {<<f, Hold(f)>>}
         ELSE /\ hold' = [hold EXCEPT ![f] = IF pending[f] < 1 THEN <<"late", 0>>
                                             ELSE <<"cas", pending[f]>>]
              /\ UNCHANGED <<pending, awaits>>
    /\ UNCHANGED <<error, list, lock, run, build, todo, waiter, device, committed,
                   released, fired, freed>>

\* The holder's own i915_sw_fence_complete().
HoldDrop(f) ==
    /\ hold[f][1] = "held"
    /\ hold' = [hold EXCEPT ![f] = <<"dropped", 0>>]
    /\ released' = released \cup {<<f, Hold(f)>>}
    /\ Call(<<"hold", f>>, f, None)
    /\ UNCHANGED <<pending, error, list, lock, build, todo, waiter, device, awaits,
                   committed, fired, freed>>

\* Mutant: i915_sw_fence_unlock_wait() is left out.
WaitUnlocked(f) ==
    /\ waiter[f] = "asleep" /\ Done(f)
    /\ waiter' = [waiter EXCEPT ![f] = "returned"]
    /\ UNCHANGED <<pending, error, list, lock, run, build, todo, hold, device,
                   history>>

\* i915_sw_fence_wait(): sleep until done, then i915_sw_fence_unlock_wait().
Wait(f) ==
    /\ \/ /\ waiter[f] = "asleep" /\ Done(f)
          /\ waiter' = [waiter EXCEPT ![f] = "unlock"]
       \/ /\ waiter[f] = "unlock" /\ lock[f] = None
          /\ waiter' = [waiter EXCEPT ![f] = "returned"]
    /\ UNCHANGED <<pending, error, list, lock, run, build, todo, hold, device,
                   history>>

\* dma_fence_signal() (external)
Signal(d) ==
    /\ ~Signaled(d)
    /\ \E how \in {"ok", "failed"} : dma' = [dma EXCEPT ![d] = how]
    /\ released' = released \cup {p \in awaits : p[2] = d}
    /\ UNCHANGED <<pending, error, list, lock, run, build, todo, hold, waiter, cbs,
                   owner, timer, work, awaits, committed, fired, freed>>

\* Mutant: the error of the DMA fence is not handed on.
DmaWakeQuiet(d) ==
    LET t == <<"dma", d>>
        f == Head(cbs[d])
        p == <<f, d>>
        mine == p \notin Timed \/ p \in owner
    IN  /\ Signaled(d) /\ cbs[d] # <<>> /\ run[t] = Idle
        /\ cbs' = [cbs EXCEPT ![d] = Tail(@)]
        /\ owner' = owner \ {p}
        /\ IF mine
             THEN /\ Call(t, f, IF p \in Timed THEN p ELSE None)
                  /\ UNCHANGED work
             ELSE /\ work' = [work EXCEPT ![p] = "queued"]
                  /\ UNCHANGED run
        /\ UNCHANGED <<pending, error, list, lock, build, todo, hold, waiter, dma,
                       timer, history>>

\* dma_i915_sw_fence_wake() or dma_i915_sw_fence_wake_timer() on the next
\* callback of a signalled DMA fence.
DmaWake(d) ==
    LET t == <<"dma", d>>
        f == Head(cbs[d])
        p == <<f, d>>
        mine == p \notin Timed \/ p \in owner       \* xchg(&cb->fence, NULL)
    IN  /\ Signaled(d) /\ cbs[d] # <<>> /\ run[t] = Idle
        /\ cbs' = [cbs EXCEPT ![d] = Tail(@)]
        /\ owner' = owner \ {p}
        /\ SetError(f, mine /\ dma[d] = "failed")
        /\ IF mine
             THEN /\ Call(t, f, IF p \in Timed THEN p ELSE None)
                  /\ UNCHANGED work
             ELSE /\ work' = [work EXCEPT ![p] = "queued"]
                  /\ UNCHANGED run
        /\ UNCHANGED <<pending, list, lock, build, todo, hold, waiter, dma, timer,
                       history>>

\* timer_i915_sw_fence_wake(): the timeout, unless the DMA fence came first.
TimerWake(p) ==
    /\ timer[p] = "armed"
    /\ IF p \in owner
         THEN /\ timer' = [timer EXCEPT ![p] = "running"]
              /\ owner' = owner \ {p}
              /\ released' = released \cup {p}
              /\ SetError(p[1], TRUE)
              /\ Call(<<"timer", p>>, p[1], None)
         ELSE /\ timer' = [timer EXCEPT ![p] = "off"]
              /\ UNCHANGED <<owner, released, error, run>>
    /\ UNCHANGED <<pending, list, lock, build, todo, hold, waiter, dma, cbs, work,
                   awaits, committed, fired, freed>>

\* Mutant: del_timer() does not wait for the handler.
IrqWorkAsync(p) ==
    /\ work[p] = "queued"
    /\ timer' = [timer EXCEPT ![p] = IF @ = "running" THEN @ ELSE "off"]
    /\ work' = [work EXCEPT ![p] = "freed"]
    /\ UNCHANGED <<pending, error, list, lock, run, build, todo, hold, waiter, dma,
                   cbs, owner, history>>

\* irq_i915_sw_fence_work(): del_timer_sync() waits for a running handler, then
\* the callback is freed.
IrqWork(p) ==
    /\ work[p] = "queued"
    /\ timer[p] # "running"
    /\ timer' = [timer EXCEPT ![p] = "off"]
    /\ work' = [work EXCEPT ![p] = "freed"]
    /\ UNCHANGED <<pending, error, list, lock, run, build, todo, hold, waiter, dma,
                   cbs, owner, history>>

\* What the CPUs run by themselves.
Running ==
    \/ \E t \in Threads : Completion(t)
    \/ \E f \in Fences : Builder(f)
    \/ \E f \in Sleepers : Wait(f)
    \/ \E f \in Holders : HoldExchange(f) \/ HoldDrop(f)
    \/ \E d \in Dmas : DmaWake(d)
    \/ \E p \in Timed : TimerWake(p) \/ IrqWork(p)

Next ==
    \/ Running
    \/ \E f \in Holders : HoldRead(f)
    \/ \E d \in Dmas : Signal(d)

\* Only a DMA fence may never signal, and a holder never come.  A thread takes
\* a bounded number of steps, so that none can keep another from running: to be
\* fair to all of them together is to be fair to each.
Fairness == WF_vars(Running)

Spec == Init /\ [][Next]_vars /\ Fairness

-----------------------------------------------------------------------------
(* Properties.                                                             *)

\* The state has its type; in particular fence->pending never falls below the
\* -1 of a fence that is done, and a callback has one owner.
TypeOK ==
    /\ pending \in [Fences -> -1 .. Cardinality(SwDeps \cup DmaDeps) + 2]
    /\ error \in [Fences -> BOOLEAN]
    /\ list \in [Fences -> Seq(Fences)]
    /\ lock \in [Fences -> Threads \cup {None}]
    /\ run \in [Threads -> [at : {"idle", "dec", "wake", "scan", "nested", "nestedwake"},
                            root : Fences \cup {None}, cur : Fences \cup {None},
                            extra : Seq(Fences), then : Timed \cup {None}]]
    /\ build \in [Fences -> {"next", "link", "swwait", "swunlock", "addcb", "dmawait",
                             "done"} \X (Fences \cup Dmas \cup {None})]
    /\ todo \in [Fences -> SUBSET (SwDeps \cup DmaDeps)]
    /\ hold \in [Holders -> {"idle", "late", "cas", "held", "dropped"} \X Nat]
    /\ waiter \in [Sleepers -> {"asleep", "unlock", "returned"}]
    /\ dma \in [Dmas -> {"pending", "ok", "failed"}]
    /\ cbs \in [Dmas -> Seq(Fences)]
    /\ owner \subseteq Timed
    /\ timer \in [Timed -> {"off", "armed", "running"}]
    /\ work \in [Timed -> {"none", "queued", "freed"}]
    /\ awaits \subseteq SwDeps \cup DmaDeps \cup {<<f, Hold(f)>> : f \in Holders}
    /\ released \subseteq awaits
    /\ committed \subseteq Fences /\ fired \subseteq Fences /\ freed \subseteq Fences

At(f, s) == {i \in DOMAIN s : s[i] = f}

\* The members of all sets of the family F, each with its index.
Spread(F) == UNION {{i} \X F[i] : i \in DOMAIN F}

Untimed(f) == {d \in Dmas : <<f, d>> \notin Timed}

\* Thread t is about to count f down.
Counting(t, f) ==
    \/ run[t].at = "dec" /\ run[t].root = f
    \/ run[t].at = "nested" /\ run[t].cur = f

\* What will still count f down: entries queued on other fences, or in the
\* chain of a wake-up, callbacks of DMA fences, threads that are just about to,
OnLists(f) == Cardinality(Spread([s \in Fences |-> At(f, list[s])]))
OnChains(f) == Cardinality(Spread([t \in Threads |-> At(f, run[t].extra)]))
OnDmas(f) == Cardinality(Spread([d \in Untimed(f) |-> At(f, cbs[d])]))
OnTimers(f) == Cardinality({p \in owner : p[1] = f})
ByThreads(f) == Cardinality({t \in Threads : Counting(t, f)})

\* ... the holder, and the builder: for itself, and for an entry not queued yet.
ByHolder(f) == IF f \in Holders /\ hold[f][1] = "held" THEN 1 ELSE 0
ByBuilder(f) ==
    (IF f \in committed THEN 0 ELSE 1)
      + (IF \/ build[f][1] = "link"
            \/ build[f][1] = "addcb" /\ build[f][2] \in Untimed(f) THEN 1 ELSE 0)

Owed(f) ==
    OnLists(f) + OnChains(f) + OnDmas(f) + OnTimers(f) + ByThreads(f)
      + ByHolder(f) + ByBuilder(f)

\* The count of a fence is exactly what is still owed to it, so that it can
\* neither fire early nor be completed once too often: nothing is owed any more
\* to a fence that has fired (fence->pending in i915_sw_fence.c).
CountExact ==
    /\ TypeOK
    /\ \A f \in Fences : Owed(f) = IF f \in fired THEN 0 ELSE pending[f]

\* Once i915_sw_fence_wait() has returned, or the FENCE_FREE callback has been
\* called, no thread touches the fence again: the memory may be gone
\* (i915_sw_fence_unlock_wait, __i915_sw_fence_complete).
Untouched ==
    \A f \in Fences :
        f \in freed \/ (f \in Sleepers /\ waiter[f] = "returned") =>
            /\ lock[f] = None
            /\ \A t \in Threads : run[t].root # f /\ run[t].cur # f

\* The callback of a timed wait is freed once: not before its timer handler has
\* ended, nor while the DMA fence or the builder still knows it
\* (irq_i915_sw_fence_work).
CallbackAlive ==
    \A p \in Timed : work[p] # "none" =>
        /\ p \notin owner
        /\ At(p[1], cbs[p[2]]) = {}
        /\ build[p[1]] # <<"addcb", p[2]>>
        /\ work[p] = "freed" => timer[p] = "off"

\* A fence that waited for a DMA fence that failed, or gave up waiting for it,
\* carries the error by the time it fires: the error is stored before the count
\* goes down (dma_i915_sw_fence_wake and its variants).
ErrorFirst ==
    \A p \in DmaDeps \cap awaits :
        p[1] \in fired /\ (dma[p[2]] = "failed" \/ ~Signaled(p[2])) => error[p[1]]

\* The fences implement the graph they stand for: each fires once, when it has
\* been committed and all it awaits is over, and then does fire.
Graph == INSTANCE FenceGraph WITH Events <- Dmas \cup {Hold(f) : f \in Holders}
Implements == Graph!Spec

\* Whoever sleeps in i915_sw_fence_wait() on a fence that is ready gets to run.
WaiterReturns == \A f \in Sleepers : f \in fired ~> waiter[f] = "returned"
=============================================================================
