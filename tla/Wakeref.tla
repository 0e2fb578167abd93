------------------------------- MODULE Wakeref -------------------------------
(***************************************************************************)
(* The counted power references of the driver (intel_wakeref.c and .h),    *)
(* which keep an engine or a GT awake. The first user takes a reference of *)
(* the layer below and runs the unpark callback, the last one runs the     *)
(* park callback, directly or from a work item. The two park callbacks of  *)
(* the driver that put the release off are modelled: an engine that has to *)
(* switch to the kernel context first (gt/intel_engine_pm.c), and a GT     *)
(* that clears memory while idle (gem/i915_gem_lmem.c, i915_gem_shmem.c).  *)
(***************************************************************************)
EXTENDS Integers, FiniteSets

CONSTANTS
    Users,
    Worker,      \* runs __intel_wakeref_put_work()
    Retire,      \* retires the request that switches to the kernel context
    Work,        \* the queued work item, as the owner of a reference
    Nobody,
    MaxGets,     \* bound: references taken by users
    MaxDefers,   \* bound: times the park callback puts the release off
    GetFails     \* the unpark callback may fail

Procs == Users \cup {Worker, Retire}

ASSUME UsersAssumption == IsFiniteSet(Users)
ASSUME NamesAssumption ==
    /\ Worker \notin Users /\ Retire \notin Users /\ Worker # Retire
    /\ Work \notin Procs /\ Nobody \notin Procs
ASSUME WfBoundsAssumption ==
    MaxGets \in Nat /\ MaxDefers \in Nat /\ GetFails \in BOOLEAN

VARIABLES
    count,     \* wf->count
    wf_mutex,  \* wf->mutex
    active,    \* wf->wakeref is set
    work,      \* wf->work is pending
    parked,    \* what the callbacks switch
    rpm,       \* references to the layer below
    place,     \* where each process is
    own,       \* the local wakeref of each process is set
    waiter,    \* a thread in intel_wakeref_wait_for_idle()
    ngets,
    ndefers

bounds == <<ngets, ndefers>>
wf_vars == <<count, wf_mutex, active, work, parked, rpm, place, own, waiter, bounds>>

WfInit ==
    /\ count = 0 /\ wf_mutex = Nobody /\ active = FALSE /\ work = FALSE
    /\ parked = TRUE /\ rpm = 0
    /\ place = [p \in Procs |-> "idle"]
    /\ own = [p \in Procs |-> FALSE]
    /\ waiter = "idle" /\ ngets = 0 /\ ndefers = 0

\* wake_up_var(&wf->wakeref)
WokenWaiter == IF waiter = "asleep" THEN "lock" ELSE waiter

-----------------------------------------------------------------------------
(* intel_wakeref_get().                                                    *)

\* atomic_inc_not_zero(), which is also all of intel_wakeref_get_if_active()
Get(u) ==
    /\ place[u] = "idle"
    /\ ngets < MaxGets
    /\ count > 0
    /\ ngets' = ngets + 1
    /\ count' = count + 1
    /\ place' = [place EXCEPT ![u] = "held"]
    /\ UNCHANGED <<wf_mutex, active, work, parked, rpm, own, waiter, ndefers>>

\* __intel_wakeref_get_first(): pm_get()
GetFirst(u) ==
    /\ place[u] = "idle"
    /\ ngets < MaxGets
    /\ count = 0
    /\ ngets' = ngets + 1
    /\ rpm' = rpm + 1
    /\ own' = [own EXCEPT ![u] = TRUE]
    /\ place' = [place EXCEPT ![u] = "first"]
    /\ UNCHANGED <<count, wf_mutex, active, work, parked, waiter, ndefers>>

\* Under the mutex the count is read again: somebody may have been first.
FirstLock(u) ==
    /\ place[u] = "first"
    /\ wf_mutex = Nobody
    /\ wf_mutex' = u
    /\ \/ /\ count = 0
          /\ active' = TRUE
          /\ own' = [own EXCEPT ![u] = FALSE]
          /\ place' = [place EXCEPT ![u] = "unpark"]
       \/ /\ count # 0
          /\ place' = [place EXCEPT ![u] = "inc"]
          /\ UNCHANGED <<active, own>>
    /\ UNCHANGED <<count, work, parked, rpm, waiter, bounds>>

\* ops->get(); a failure is unwound.
UnparkDevice(u) ==
    /\ place[u] = "unpark"
    /\ \/ /\ parked' = FALSE
          /\ place' = [place EXCEPT ![u] = "inc"]
          /\ UNCHANGED <<active, own, waiter>>
       \/ /\ GetFails
          /\ active' = FALSE
          /\ own' = [own EXCEPT ![u] = TRUE]
          /\ waiter' = WokenWaiter
          /\ place' = [place EXCEPT ![u] = "unlock"]
          /\ UNCHANGED parked
    /\ UNCHANGED <<count, wf_mutex, work, rpm, bounds>>

FirstInc(u) ==
    /\ place[u] = "inc"
    /\ count' = count + 1
    /\ place' = [place EXCEPT ![u] = "unlock_held"]
    /\ UNCHANGED <<wf_mutex, active, work, parked, rpm, own, waiter, bounds>>

\* Mutant: the reference to the layer below is kept.
UnlockKeepsPm(p) ==
    /\ place[p] \in {"unlock", "unlock_held"}
    /\ wf_mutex' = Nobody
    /\ own' = [own EXCEPT ![p] = FALSE]
    /\ UNCHANGED rpm
    /\ place' = [place EXCEPT ![p] = IF place[p] = "unlock" THEN "idle" ELSE "held"]
    /\ UNCHANGED <<count, active, work, parked, waiter, bounds>>

\* The common end of taking and releasing: mutex_unlock(), pm_put().
Unlock(p) ==
    /\ place[p] \in {"unlock", "unlock_held"}
    /\ wf_mutex' = Nobody
    /\ own' = [own EXCEPT ![p] = FALSE]
    /\ rpm' = IF own[p] THEN rpm - 1 ELSE rpm
    /\ place' = [place EXCEPT ![p] = IF place[p] = "unlock" THEN "idle" ELSE "held"]
    /\ UNCHANGED <<count, active, work, parked, waiter, bounds>>

-----------------------------------------------------------------------------
(* __intel_wakeref_put().                                                  *)

\* Mutant: the count is compared with the wrong number, so two users can
\* both believe to be the last.
PutEither(p) ==
    /\ place[p] = "held"
    /\ \/ /\ count > 2
          /\ count' = count - 1
          /\ place' = [place EXCEPT ![p] = "idle"]
       \/ /\ count <= 2
          /\ place' = [place EXCEPT ![p] = "put_last"]
          /\ UNCHANGED count
    /\ UNCHANGED <<wf_mutex, active, work, parked, rpm, own, waiter, bounds>>

\* atomic_add_unless(&wf->count, -1, 1)
Put(p) ==
    /\ place[p] = "held"
    /\ \/ /\ count # 1
          /\ count' = count - 1
          /\ place' = [place EXCEPT ![p] = "idle"]
       \/ /\ count = 1
          /\ place' = [place EXCEPT ![p] = "put_last"]
          /\ UNCHANGED count
    /\ UNCHANGED <<wf_mutex, active, work, parked, rpm, own, waiter, bounds>>

\* __intel_wakeref_put_last(): the work item takes the reference over, asked
\* for or because the mutex is taken.
PutQueue(p) ==
    /\ place[p] = "put_last"
    /\ work' = TRUE
    /\ place' = [place EXCEPT ![p] = "idle"]
    /\ UNCHANGED <<count, wf_mutex, active, parked, rpm, own, waiter, bounds>>

\* Retirement of a request only releases asynchronously.
PutTrylock(u) ==
    /\ place[u] = "put_last"
    /\ wf_mutex = Nobody
    /\ wf_mutex' = u
    /\ place' = [place EXCEPT ![u] = "last"]
    /\ UNCHANGED <<count, active, work, parked, rpm, own, waiter, bounds>>

\* The work item runs.
WorkStart ==
    /\ work
    /\ place[Worker] = "idle"
    /\ work' = FALSE
    /\ place' = [place EXCEPT ![Worker] = "work"]
    /\ UNCHANGED <<count, wf_mutex, active, parked, rpm, own, waiter, bounds>>

\* __intel_wakeref_put_work()
WorkPut ==
    /\ place[Worker] = "work"
    /\ \/ /\ count # 1
          /\ count' = count - 1
          /\ place' = [place EXCEPT ![Worker] = "idle"]
       \/ /\ count = 1
          /\ place' = [place EXCEPT ![Worker] = "lock"]
          /\ UNCHANGED count
    /\ UNCHANGED <<wf_mutex, active, work, parked, rpm, own, waiter, bounds>>

WorkLock ==
    /\ place[Worker] = "lock"
    /\ wf_mutex = Nobody
    /\ wf_mutex' = Worker
    /\ place' = [place EXCEPT ![Worker] = "last"]
    /\ UNCHANGED <<count, active, work, parked, rpm, own, waiter, bounds>>

\* Mutant: the park callback is run without looking at the count again.
LastBlindly(p) ==
    /\ place[p] = "last"
    /\ count' = count - 1
    /\ place' = [place EXCEPT ![p] = "park"]
    /\ UNCHANGED <<wf_mutex, active, work, parked, rpm, own, waiter, bounds>>

\* ____intel_wakeref_put_last(): somebody may have taken a reference since.
PutLast(p) ==
    /\ place[p] = "last"
    /\ count' = count - 1
    /\ place' = [place EXCEPT ![p] = IF count = 1 THEN "park" ELSE "unlock"]
    /\ UNCHANGED <<wf_mutex, active, work, parked, rpm, own, waiter, bounds>>

\* Mutant: nobody is told.
ParkSilently(p) ==
    /\ place[p] = "park"
    /\ parked' = TRUE
    /\ active' = FALSE
    /\ own' = [own EXCEPT ![p] = TRUE]
    /\ place' = [place EXCEPT ![p] = "unlock"]
    /\ UNCHANGED <<count, wf_mutex, work, rpm, waiter, bounds>>

\* ops->put() succeeds: the reference to the layer below is given back.
ParkDevice(p) ==
    /\ place[p] = "park"
    /\ parked' = TRUE
    /\ active' = FALSE
    /\ own' = [own EXCEPT ![p] = TRUE]
    /\ waiter' = WokenWaiter
    /\ place' = [place EXCEPT ![p] = "unlock"]
    /\ UNCHANGED <<count, wf_mutex, work, rpm, bounds>>

\* __engine_park(): the request that switches to the kernel context gets the
\* reference (__intel_wakeref_defer_park()) and the engine stays awake.
ParkEngine(p) ==
    /\ place[p] = "park"
    /\ ndefers < MaxDefers
    /\ ndefers' = ndefers + 1
    /\ count' = 1
    /\ place' = [place EXCEPT ![p] = "unlock", ![Retire] = "held"]
    /\ UNCHANGED <<wf_mutex, active, work, parked, rpm, own, waiter, ngets>>

\* i915_gem_lmem_park(), i915_gem_shmem_park(): the reference is revived and
\* memory cleared with the mutex dropped ...
ParkClear(p) ==
    /\ place[p] = "park"
    /\ ndefers < MaxDefers
    /\ ndefers' = ndefers + 1
    /\ count' = 1
    /\ wf_mutex' = Nobody
    /\ place' = [place EXCEPT ![p] = "clearing"]
    /\ UNCHANGED <<active, work, parked, rpm, own, waiter, ngets>>

\* ... then __intel_wakeref_resume_park(): parking goes on unless there is a
\* new user.
ResumePark(p) ==
    /\ place[p] = "clearing"
    /\ wf_mutex = Nobody
    /\ wf_mutex' = p
    /\ count' = count - 1
    /\ place' = [place EXCEPT ![p] = IF count > 1 THEN "unlock" ELSE "park"]
    /\ UNCHANGED <<active, work, parked, rpm, own, waiter, bounds>>

-----------------------------------------------------------------------------
(* intel_wakeref_wait_for_idle().                                          *)

WaitStart ==
    /\ waiter = "idle"
    /\ waiter' = "lock"
    /\ UNCHANGED <<count, wf_mutex, active, work, parked, rpm, place, own, bounds>>

\* intel_wakeref_unlock_wait(): through the mutex ...
WaitLock ==
    /\ waiter = "lock"
    /\ wf_mutex = Nobody
    /\ waiter' = "flush"
    /\ UNCHANGED <<count, wf_mutex, active, work, parked, rpm, place, own, bounds>>

\* ... and after the work item
WaitFlush ==
    /\ waiter = "flush"
    /\ ~work /\ place[Worker] = "idle"
    /\ waiter' = "check"
    /\ UNCHANGED <<count, wf_mutex, active, work, parked, rpm, place, own, bounds>>

WaitCheck ==
    /\ waiter = "check"
    /\ waiter' = IF active THEN "asleep" ELSE "done"
    /\ UNCHANGED <<count, wf_mutex, active, work, parked, rpm, place, own, bounds>>

-----------------------------------------------------------------------------
Take(u) ==
    Get(u) \/ GetFirst(u) \/ FirstLock(u) \/ UnparkDevice(u) \/ FirstInc(u)

Release(p) ==
    \/ Put(p) \/ PutQueue(p) \/ PutLast(p) \/ Unlock(p)
    \/ ParkDevice(p) \/ ParkEngine(p) \/ ParkClear(p) \/ ResumePark(p)

WorkItem == WorkStart \/ WorkPut \/ WorkLock

WaitForIdle == WaitStart \/ WaitLock \/ WaitFlush \/ WaitCheck

WfNext ==
    \/ \E u \in Users : Take(u) \/ PutTrylock(u)
    \/ \E p \in Procs : Release(p)
    \/ WorkItem
    \/ WaitForIdle

WfSpec == WfInit /\ [][WfNext]_wf_vars

(* Whoever is inside the code goes on, users release what they hold, queued *)
(* work runs and mutexes are granted in turn; nobody has to take a          *)
(* reference.                                                               *)
WfFairness ==
    /\ \A p \in Procs : WF_wf_vars(Release(p)) /\ SF_wf_vars(ResumePark(p))
    /\ \A u \in Users :
           SF_wf_vars(FirstLock(u)) /\ WF_wf_vars(UnparkDevice(u) \/ FirstInc(u))
    /\ WF_wf_vars(WorkStart) /\ WF_wf_vars(WorkPut) /\ SF_wf_vars(WorkLock)
    /\ SF_wf_vars(WaitLock) /\ SF_wf_vars(WaitFlush) /\ WF_wf_vars(WaitCheck)

WfFairSpec == WfSpec /\ WfFairness

-----------------------------------------------------------------------------
(* Properties.                                                             *)

\* Every variable keeps its type.
WfTypeOK ==
    /\ count \in Nat /\ rpm \in Int
    /\ wf_mutex \in Procs \cup {Nobody}
    /\ active \in BOOLEAN /\ work \in BOOLEAN /\ parked \in BOOLEAN
    /\ place \in [Procs -> {"idle", "first", "unpark", "inc", "unlock",
                         "unlock_held", "held", "put_last", "last", "park",
                         "clearing", "work", "lock"}]
    /\ own \in [Procs -> BOOLEAN]
    /\ waiter \in {"idle", "lock", "flush", "check", "asleep", "done"}
    /\ ngets \in 0..MaxGets /\ ndefers \in 0..MaxDefers

\* Who owns a reference: users, a release on its way, the queued work item,
\* the request of a parking engine, the clearing of memory.
Holders ==
    {p \in Procs : place[p] \in {"held", "unlock_held", "put_last", "last",
                              "clearing", "work", "lock"}}
    \cup (IF work THEN {Work} ELSE {})

\* Who has set out to release the last reference.
Releasers ==
    {p \in Procs : place[p] \in {"put_last", "last", "work", "lock"}}
    \cup (IF work THEN {Work} ELSE {})

\* The count is the number of owners: no reference is lost when releases are
\* handed to the work item, and none is released twice.
CountExact == count = Cardinality(Holders)

\* Only one release of the last reference is under way, so the work item is
\* never queued while it is pending (which would lose a reference).
OneReleaser == \A a, b \in Releasers : a = b

\* While anybody owns a reference that it was told of, the wakeref is
\* active, the callback has unparked the device, and the layer below is held
\* awake.
HeldAwake == Holders # {} => active /\ ~parked /\ rpm > 0

\* The references to the layer below are the one of an active wakeref and
\* those in the hands of a process, so a first user that lost the race, or
\* whose unpark failed, gives its own back.
PmBalanced ==
    rpm = (IF active THEN 1 ELSE 0) + Cardinality({p \in Procs : own[p]})

\* Once everybody has released, the device is parked for good, through
\* whatever deferrals, the reference below is gone, and a thread that waits
\* for the wakeref to become idle has been told.
EventuallyParked ==
    <>[](parked /\ ~active /\ rpm = 0 /\ waiter \in {"idle", "done"})

=============================================================================
