------------------------------- MODULE GucTlb -------------------------------
(***************************************************************************)
(* TLB invalidation through the GuC (gt/intel_tlb.c, intel_tlb.h and the   *)
(* TLB part of gt/uc/intel_guc.c). A thread that changed a page table asks *)
(* the GuC for an invalidation, which is given a 32-bit sequence number,   *)
(* and before the pages are reused waits until that number has completed.  *)
(* Parking the GT and a full GT reset revoke what is outstanding.          *)
(*                                                                         *)
(* "stale" records the updates whose old translation the GPU may still     *)
(* hold. The GuC performs invalidations in the order of the H2G ring, and  *)
(* starting to execute after a park or a reset begins with empty TLBs.     *)
(***************************************************************************)
EXTENDS Integers, Sequences

CONSTANTS
    Threads,
    None,
    Modulus,     \* 2^32: sequence numbers wrap
    Start,       \* the sequence number the behaviour begins with
    Callers,     \* which of the callers of the sync are modelled
    MaxRounds,   \* bound: page table updates of each thread
    MaxResets,   \* bound: full GT resets
    MaxParks,    \* bound: times the GT parks
    ResetFails   \* the hardware reset may fail, which wedges the GT

Seqnos == 0..(Modulus - 1)

ASSUME ThreadsAssumption == None \notin Threads
ASSUME ModulusAssumption ==
    Modulus \in Nat /\ Modulus > 3 /\ Modulus % 2 = 0
ASSUME StartAssumption == Start \in Seqnos
ASSUME CallersAssumption == Callers \subseteq {"ufence", "fault", "release"}
ASSUME BoundsAssumption ==
    /\ MaxRounds \in Nat /\ MaxResets \in Nat /\ MaxParks \in Nat
    /\ ResetFails \in BOOLEAN

VARIABLES
    seqno,       \* gt->tlb.seqno: completed
    next_seqno,  \* gt->tlb.next_seqno: handed out last
    mutex,       \* gt->tlb.mutex
    wq,          \* gt->tlb.wq
    wedged,      \* I915_WEDGED
    awake,       \* the GT has a wakeref
    ct_enabled,  \* the command transport accepts messages
    h2g,         \* invalidations sent to the GuC
    g2h,         \* completions not yet received
    stale,       \* updates whose old translation may be in a TLB
    pc,          \* where each thread is
    caller,      \* who is asking
    my,          \* the number the invalidation was given, 0 for none
    want,        \* the argument of intel_gt_invalidate_tlb_sync()
    round,       \* updates each thread has made
    rpc,         \* where a full GT reset is
    rev,         \* the number the revoke has read
    nresets,
    nparks

tlb_vars == <<seqno, next_seqno, wq>>
gt_vars == <<wedged, awake, ct_enabled, rpc, rev, nresets, nparks>>
chan_vars == <<h2g, g2h>>
thread_vars == <<pc, caller, my, want, round>>
vars == <<tlb_vars, mutex, gt_vars, chan_vars, stale, thread_vars>>

\* i915_seqno_passed(): the sign of the 32-bit difference.
Passed(a, b) == (a - b) % Modulus < Modulus \div 2

tlb_seqno_passed(s) == wedged \/ Passed(seqno, s)

\* The GPU executes and fills its TLBs.
Executing == awake /\ ~wedged /\ rpc \in {"none", "prepared"}

Init ==
    /\ seqno = Start /\ next_seqno = Start /\ mutex = None /\ wq = {}
    /\ wedged = FALSE /\ awake = TRUE /\ ct_enabled = TRUE
    /\ h2g = <<>> /\ g2h = <<>> /\ stale = {}
    /\ pc = [t \in Threads |-> "idle"]
    /\ caller \in [Threads -> Callers]
    /\ my = [t \in Threads |-> 0] /\ want = [t \in Threads |-> 0]
    /\ round = [t \in Threads |-> 0]
    /\ rpc = "none" /\ rev = 0 /\ nresets = 0 /\ nparks = 0

-----------------------------------------------------------------------------
(* Asking for an invalidation.                                             *)

\* The caller changes a page table, before it calls
\* intel_gt_invalidate_tlb_range().
Update(t) ==
    /\ pc[t] \in {"idle", "done"}
    /\ round[t] < MaxRounds
    /\ round' = [round EXCEPT ![t] = @ + 1]
    /\ stale' = IF Executing THEN stale \cup {<<t, round'[t]>>} ELSE stale
    /\ my' = [my EXCEPT ![t] = 0]
    /\ pc' = [pc EXCEPT ![t] = "range"]
    /\ UNCHANGED <<tlb_vars, mutex, gt_vars, chan_vars, caller, want>>

\* intel_gt_invalidate_tlb_range(): nothing to do on a wedged or sleeping GT.
\* Otherwise the GT is kept awake until the message is sent.
InvalidateRange(t) ==
    /\ pc[t] = "range"
    /\ pc' = [pc EXCEPT ![t] = IF wedged \/ ~awake THEN "sync" ELSE "lock"]
    /\ UNCHANGED <<tlb_vars, mutex, gt_vars, chan_vars, stale, caller, my,
                   want, round>>

\* intel_tlb_next_seqno(): zero means no invalidation and is skipped.
intel_tlb_next_seqno ==
    IF (next_seqno + 1) % Modulus = 0 THEN 1 ELSE (next_seqno + 1) % Modulus

\* Mutant: numbers are handed out without the mutex.
AllocUnlocked(t) ==
    /\ pc[t] = "lock"
    /\ next_seqno' = intel_tlb_next_seqno
    /\ my' = [my EXCEPT ![t] = intel_tlb_next_seqno]
    /\ pc' = [pc EXCEPT ![t] = "send"]
    /\ UNCHANGED <<seqno, wq, mutex, gt_vars, chan_vars, stale, caller, want,
                   round>>

\* intel_guc_invalidate_tlb_page_selective(): the number is handed out and
\* the message sent under gt->tlb.mutex.
Alloc(t) ==
    /\ pc[t] = "lock"
    /\ mutex = None
    /\ mutex' = t
    /\ next_seqno' = intel_tlb_next_seqno
    /\ my' = [my EXCEPT ![t] = intel_tlb_next_seqno]
    /\ pc' = [pc EXCEPT ![t] = "send"]
    /\ UNCHANGED <<seqno, wq, gt_vars, chan_vars, stale, caller, want, round>>

\* guc_send_invalidate_tlb(): a transport that is off makes the caller
\* return 0.
Send(t) ==
    /\ pc[t] = "send"
    /\ \/ /\ ct_enabled
          /\ h2g' = Append(h2g, [seqno |-> my[t], by |-> <<t, round[t]>>])
          /\ UNCHANGED my
       \/ /\ ~ct_enabled
          /\ my' = [my EXCEPT ![t] = 0]
          /\ UNCHANGED h2g
    /\ mutex' = None
    /\ pc' = [pc EXCEPT ![t] = "sync"]
    /\ UNCHANGED <<tlb_vars, gt_vars, g2h, stale, caller, want, round>>

-----------------------------------------------------------------------------
(* The GuC, and the completion.                                            *)

GucInvalidate ==
    /\ h2g # <<>>
    /\ rpc = "none" /\ ~wedged
    /\ stale' = stale \ {Head(h2g).by}
    /\ g2h' = Append(g2h, Head(h2g).seqno)
    /\ h2g' = Tail(h2g)
    /\ UNCHANGED <<tlb_vars, mutex, gt_vars, thread_vars>>

Woken == [t \in Threads |-> IF t \in wq THEN "wait_event" ELSE pc[t]]

\* Mutant: a completion moves the number wherever it points.
AdvanceAlways(s) ==
    /\ seqno' = s
    /\ wq' = {}
    /\ pc' = Woken

\* Mutant: nobody is woken.
AdvanceSilently(s) ==
    /\ seqno' = IF Passed(seqno, s) THEN seqno ELSE s
    /\ UNCHANGED <<wq, pc>>

\* intel_tlb_advance(): only forwards. A number that advanced wakes the
\* waiters.
Advance(s) ==
    \/ /\ s = 0 \/ Passed(seqno, s)
       /\ UNCHANGED <<seqno, wq, pc>>
    \/ /\ s # 0 /\ ~Passed(seqno, s)
       /\ seqno' = s
       /\ wq' = {}
       /\ pc' = Woken

\* intel_tlb_invalidation_done(), called for a message of the GuC by whoever
\* reads the G2H ring.
Done ==
    /\ g2h # <<>>
    /\ Advance(Head(g2h))
    /\ g2h' = Tail(g2h)
    /\ UNCHANGED <<next_seqno, mutex, gt_vars, h2g, stale, caller, my, want,
                   round>>

-----------------------------------------------------------------------------
(* intel_gt_invalidate_tlb_sync().                                         *)

\* ufence_sync() skips a zero and spins, repair_fault() passes what it got,
\* intel_tlb_sync() skips a zero and asks for the number before its own.
SyncStart(t) ==
    LET w == IF caller[t] = "release" THEN (my[t] - 1) % Modulus ELSE my[t]
    IN  /\ pc[t] = "sync"
        /\ \/ /\ \/ caller[t] # "fault" /\ my[t] = 0
                 \/ ~Passed(next_seqno, w)
                 \/ tlb_seqno_passed(w)
              /\ pc' = [pc EXCEPT ![t] = "done"]
              /\ UNCHANGED want
           \/ /\ caller[t] # "fault" => my[t] # 0
              /\ Passed(next_seqno, w)
              /\ ~tlb_seqno_passed(w)
              /\ want' = [want EXCEPT ![t] = w]
              /\ pc' = [pc EXCEPT ![t] = IF caller[t] = "ufence"
                                         THEN "atomic" ELSE "busy_wait"]
        /\ UNCHANGED <<tlb_vars, mutex, gt_vars, chan_vars, stale, caller, my,
                       round>>

\* while (atomic)
Atomic(t) ==
    /\ pc[t] = "atomic"
    /\ tlb_seqno_passed(want[t])
    /\ pc' = [pc EXCEPT ![t] = "done"]
    /\ UNCHANGED <<tlb_vars, mutex, gt_vars, chan_vars, stale, caller, my,
                   want, round>>

\* busy_wait(gt, seqno - 1): when it finds that number completed the sync is
\* over, otherwise it stops after a while.
BusyWait(t) ==
    LET before == (want[t] - 1) % Modulus
        served == tlb_seqno_passed((want[t] - 2) % Modulus)
    IN  /\ pc[t] = "busy_wait"
        /\ pc' = [pc EXCEPT ![t] = IF served /\ tlb_seqno_passed(before)
                                   THEN "done" ELSE "wait_event"]
        /\ UNCHANGED <<tlb_vars, mutex, gt_vars, chan_vars, stale, caller, my,
                       want, round>>

\* wait_event_cmd() for the number before
WaitEvent(t) ==
    /\ pc[t] = "wait_event"
    /\ \/ /\ tlb_seqno_passed((want[t] - 1) % Modulus)
          /\ pc' = [pc EXCEPT ![t] = "last"]
          /\ UNCHANGED wq
       \/ /\ ~tlb_seqno_passed((want[t] - 1) % Modulus)
          /\ wq' = wq \cup {t}
          /\ pc' = [pc EXCEPT ![t] = "asleep"]
    /\ UNCHANGED <<seqno, next_seqno, mutex, gt_vars, chan_vars, stale,
                   caller, my, want, round>>

\* The final loop
Last(t) ==
    /\ pc[t] = "last"
    /\ tlb_seqno_passed(want[t])
    /\ pc' = [pc EXCEPT ![t] = "done"]
    /\ UNCHANGED <<tlb_vars, mutex, gt_vars, chan_vars, stale, caller, my,
                   want, round>>

-----------------------------------------------------------------------------
(* Parking, resets and wedging.                                            *)

\* __gt_park(): nobody keeps the GT awake. The TLBs will be empty when
\* execution restarts.
Park ==
    /\ awake /\ rpc = "none"
    /\ nparks < MaxParks
    /\ \A t \in Threads : pc[t] \notin {"lock", "send"}
    /\ awake' = FALSE
    /\ stale' = {}
    /\ seqno' = next_seqno
    /\ wq' = {}
    /\ pc' = Woken
    /\ nparks' = nparks + 1
    /\ UNCHANGED <<next_seqno, mutex, wedged, ct_enabled, rpc, rev, nresets,
                   chan_vars, caller, my, want, round>>

Unpark ==
    /\ ~awake
    /\ awake' = TRUE
    /\ UNCHANGED <<tlb_vars, mutex, wedged, ct_enabled, rpc, rev, nresets,
                   nparks, chan_vars, stale, thread_vars>>

\* reset_prepare(): intel_uc_sanitize() turns the transport off and resets
\* the GuC, while the engines may still execute.
ResetPrepare ==
    /\ rpc = "none" /\ awake /\ ~wedged
    /\ nresets < MaxResets
    /\ nresets' = nresets + 1
    /\ ct_enabled' = FALSE
    /\ h2g' = <<>>
    /\ rpc' = "prepared"
    /\ UNCHANGED <<tlb_vars, mutex, wedged, awake, rev, nparks, g2h, stale,
                   thread_vars>>

\* do_reset(): __intel_gt_reset() stops the engines and empties the TLBs.
HwReset ==
    /\ rpc = "prepared"
    /\ stale' = {}
    /\ \/ rpc' = "reset"
       \/ ResetFails /\ rpc' = "failed"
    /\ UNCHANGED <<tlb_vars, mutex, wedged, awake, ct_enabled, rev, nresets,
                   nparks, chan_vars, thread_vars>>

\* gt_reset(): intel_uc_reset() drains the G2H ring, then the revoke reads
\* the number handed out last ...
RevokeRead ==
    /\ rpc = "reset"
    /\ g2h = <<>>
    /\ rev' = next_seqno
    /\ rpc' = "revoke"
    /\ UNCHANGED <<tlb_vars, mutex, wedged, awake, ct_enabled, nresets,
                   nparks, chan_vars, stale, thread_vars>>

\* ... and completes everything up to it.
RevokeStore ==
    /\ rpc = "revoke"
    /\ seqno' = rev
    /\ wq' = {}
    /\ pc' = Woken
    /\ rpc' = "revoked"
    /\ UNCHANGED <<next_seqno, mutex, wedged, awake, ct_enabled, rev, nresets,
                   nparks, chan_vars, stale, caller, my, want, round>>

\* intel_gt_init_hw() and resume(): the GuC is loaded again, which may fail.
Restart ==
    /\ rpc = "revoked"
    /\ \/ ct_enabled' = TRUE /\ rpc' = "none"
       \/ ResetFails /\ rpc' = "failed" /\ UNCHANGED ct_enabled
    /\ UNCHANGED <<tlb_vars, mutex, wedged, awake, rev, nresets, nparks,
                   chan_vars, stale, thread_vars>>

\* __intel_gt_set_wedged(), when the reset or the restart failed: the device
\* is reset once more, and only if that succeeds gt_reset() revokes.
SetWedged ==
    /\ rpc = "failed"
    /\ \/ /\ g2h = <<>>
          /\ seqno' = next_seqno
          /\ wq' = {}
          /\ pc' = Woken
       \/ UNCHANGED <<seqno, wq, pc>>
    /\ wedged' = TRUE
    /\ rpc' = "none"
    /\ UNCHANGED <<next_seqno, mutex, awake, ct_enabled, rev, nresets, nparks,
                   chan_vars, stale, caller, my, want, round>>

-----------------------------------------------------------------------------
Invalidate(t) == InvalidateRange(t) \/ Alloc(t) \/ Send(t)

Sync(t) ==
    SyncStart(t) \/ Atomic(t) \/ BusyWait(t) \/ WaitEvent(t) \/ Last(t)

Reset ==
    \/ ResetPrepare \/ HwReset \/ RevokeRead \/ RevokeStore \/ Restart
    \/ SetWedged

Next ==
    \/ \E t \in Threads : Update(t) \/ Invalidate(t) \/ Sync(t)
    \/ GucInvalidate \/ Done
    \/ Park \/ Unpark \/ Reset

Spec == Init /\ [][Next]_vars

(* Threads inside the driver keep running, the GuC performs what it is sent, *)
(* completions are received (every waiter reads the G2H ring before it       *)
(* sleeps and the GuC raises an interrupt for each) and a reset, once        *)
(* begun, goes on. Nobody has to change a page table, park or reset.         *)
Fairness ==
    /\ \A t \in Threads : WF_vars(Invalidate(t) \/ Sync(t))
    /\ WF_vars(GucInvalidate) /\ WF_vars(Done)
    /\ WF_vars(HwReset \/ RevokeRead \/ RevokeStore \/ Restart \/ SetWedged)

FairSpec == Spec /\ Fairness

-----------------------------------------------------------------------------
(* Properties.                                                             *)

\* Every variable keeps its type; the number handed to the GuC is never the
\* zero that means no invalidation.
TypeOK ==
    /\ seqno \in Seqnos /\ next_seqno \in Seqnos /\ rev \in Seqnos
    /\ mutex \in Threads \cup {None} /\ wq \subseteq Threads
    /\ wedged \in BOOLEAN /\ awake \in BOOLEAN /\ ct_enabled \in BOOLEAN
    /\ h2g \in Seq([seqno : Seqnos \ {0}, by : Threads \X (1..MaxRounds)])
    /\ g2h \in Seq(Seqnos \ {0})
    /\ stale \subseteq Threads \X (1..MaxRounds)
    /\ pc \in [Threads -> {"idle", "range", "lock", "send", "sync", "atomic",
                           "busy_wait", "wait_event", "asleep", "last",
                           "done"}]
    /\ caller \in [Threads -> Callers]
    /\ my \in [Threads -> Seqnos] /\ want \in [Threads -> Seqnos]
    /\ round \in [Threads -> 0..MaxRounds]
    /\ rpc \in {"none", "prepared", "reset", "failed", "revoke", "revoked"}
    /\ nresets \in 0..MaxResets /\ nparks \in 0..MaxParks

\* How many numbers lie between s and the one handed out last.
Age(s) == (next_seqno - s) % Modulus

\* A thread that has a number and has not yet gone on.
Asking(t) == pc[t] \in {"send", "sync", "atomic"} /\ my[t] # 0

\* Every number still in use is less than half of the numbers old, which is
\* what the comparison of i915_seqno_passed() presupposes.
Near ==
    /\ Age(seqno) < Modulus \div 2
    /\ rpc = "revoke" => Age(rev) < Modulus \div 2
    /\ \A i \in 1..Len(h2g) : Age(h2g[i].seqno) < Modulus \div 2
    /\ \A i \in 1..Len(g2h) : Age(g2h[i]) < Modulus \div 2
    /\ \A t \in Threads : Asking(t) => Age(my[t]) < Modulus \div 2

\* When ufence_sync() goes on, no TLB holds the old translation any more,
\* whatever completed, parked or was reset in between and although numbers
\* wrap; also when nothing was sent because the GT was parked, unless a reset
\* has begun. The other callers go on once the number before theirs has
\* completed.
SyncedClean ==
    /\ TypeOK
    /\ \A t \in Threads :
          pc[t] = "done" /\ caller[t] = "ufence" /\ (my[t] # 0 \/ nresets = 0)
              => <<t, round[t]>> \notin stale

\* Once any caller goes on, no TLB holds the old translation any more.
ReleasedClean ==
    \A t \in Threads : pc[t] = "done" => <<t, round[t]>> \notin stale

\* The completed number never moves backwards, so a wait that is over stays
\* over: not by a completion that a revoke overtook, and not by the revoke
\* storing a number it read earlier.
SeqnoForward == [][Passed(seqno', seqno)]_vars

\* Every wait for an invalidation ends, also when the GuC that should have
\* completed it was reset; only on a GT that is wedged may a waiter sleep on.
SyncReturns ==
    <>[](wedged \/ \A t \in Threads :
             pc[t] \notin {"atomic", "busy_wait", "wait_event", "asleep",
                           "last"})

=============================================================================
