----------------------------- MODULE GucCtRecv -----------------------------
(***************************************************************************)
(* The receive half of the GuC command transport (gt/uc/intel_guc_ct.c):   *)
(* the G2H ring the GuC firmware writes, intel_guc_ct_receive() called     *)
(* concurrently by the interrupt handler, by threads that poll while they  *)
(* wait, by the deferred worker and by the reset path, and the hand-off of *)
(* the messages that cannot be handled in interrupt context to the worker  *)
(* ct_incoming_request() through a lockless list and an i915_tbb task.     *)
(*                                                                         *)
(* A message is a number (the order in which the GuC wrote it) and a kind: *)
(*   "inline"  an event ct_handle_msg() consumes at once (returns 0),      *)
(*   "defer"   an event it refuses with -EBUSY, queued for the worker,     *)
(*   "bad"     a message it rejects with any other error,                  *)
(*   "short"   a header that claims more than the ring holds (UNDERFLOW).  *)
(* One message takes one slot of the ring, and offsets wrap at Size.       *)
(***************************************************************************)
EXTENDS Integers, Sequences

CONSTANTS
    Irq,        \* the context that runs intel_guc_ct_event_handler()
    Pollers,    \* threads that call intel_guc_ct_receive() while waiting
    Workers,    \* i915_tbb threads able to run ct_incoming_request()
    Resetter,   \* the thread that runs intel_guc_ct_reset() and _enable()
    None,       \* NULL
    Size,       \* ctb->size
    MaxMsgs,    \* bound: messages the GuC writes in a behaviour
    MaxResets,  \* bound: full resets in a behaviour
    Kinds       \* kinds of message the GuC writes

Procs == {Irq, Resetter} \cup Pollers \cup Workers
Runners == Workers \cup {Resetter}

ASSUME ProcsAssumption ==
    /\ Irq # Resetter
    /\ {Irq, Resetter} \cap (Pollers \cup Workers) = {}
    /\ Pollers \cap Workers = {}
    /\ None \notin Procs
ASSUME SizeAssumption == Size \in Nat /\ Size > 1
ASSUME BoundsAssumption == MaxMsgs \in Nat /\ MaxResets \in Nat
ASSUME KindsAssumption == Kinds \subseteq {"inline", "defer", "bad", "short"}

VARIABLES
    head,         \* ctb->head: local shadow, everything before it is claimed
    broken,       \* ctb->broken
    lock,         \* ctb->lock: its holder, or None
    desc,         \* the shared descriptor: head, tail and status
    cmds,         \* the ring itself, written by the GuC
    guc_running,  \* the firmware may write messages
    nwritten,     \* messages written so far; also names the next one
    irq,          \* a GuC-to-host interrupt is pending
    pc,           \* where each process is inside intel_guc_ct_receive()
    rhead,        \* the locals head and tail of ct_read()
    rtail,
    mq,           \* the local list mq, oldest first
    mq_tail,      \* the local tail # NULL
    incoming,     \* ct->requests.incoming, oldest first
    tbb_link,     \* the task is on the list of runnable tasks
    tbb_tsk,      \* task->tsk: the thread that dispatched it last
    wpc,          \* where each runner is inside ct_incoming_request()
    batch,        \* the list it took and has not finished with
    rpc,          \* where the reset thread is
    rwait,        \* processes whose RCU read section a reset waits for
    nresets,      \* full resets so far
    last_read,    \* history: number of the message ct_read() handled last
    deferred,     \* history: numbers of the messages put on some mq
    done          \* history: how often the worker processed each message

ring_vars == <<desc, cmds, guc_running, nwritten, irq>>
ctb_vars == <<head, broken, lock>>
local_vars == <<pc, rhead, rtail, mq, mq_tail>>
task_vars == <<incoming, tbb_link, tbb_tsk>>
work_vars == <<wpc, batch, done>>
reset_vars == <<rpc, rwait, nresets>>
hist_vars == <<last_read, deferred>>
vars == <<ring_vars, ctb_vars, local_vars, task_vars, work_vars, reset_vars,
          hist_vars>>

Ids == 1..MaxMsgs
Offsets == 0..(Size - 1)
NoMsg == [id |-> 0, kind |-> "none"]
Msg == [id : Ids, kind : {"inline", "defer", "bad", "short"}] \cup {NoMsg}

\* CIRC_SPACE() of linux/circ_buf.h
CircSpace(t, h) == (h - (t + 1)) % Size

Init ==
    /\ head = 0 /\ broken = FALSE /\ lock = None
    /\ desc = [head |-> 0, tail |-> 0, status |-> FALSE]
    /\ cmds = [s \in Offsets |-> NoMsg]
    /\ guc_running = TRUE /\ nwritten = 0 /\ irq = FALSE
    /\ pc = [p \in Procs |-> "idle"]
    /\ rhead = [p \in Procs |-> 0] /\ rtail = [p \in Procs |-> 0]
    /\ mq = [p \in Procs |-> <<>>] /\ mq_tail = [p \in Procs |-> FALSE]
    /\ incoming = <<>> /\ tbb_link = FALSE /\ tbb_tsk = None
    /\ wpc = [w \in Runners |-> "off"] /\ batch = [w \in Runners |-> <<>>]
    /\ done = [i \in Ids |-> 0]
    /\ rpc = "none" /\ rwait = {} /\ nresets = 0
    /\ last_read = 0 /\ deferred = {}

-----------------------------------------------------------------------------
(* The GuC firmware. It keeps one slot free and never overwrites a slot    *)
(* before the host has published a head past it; each write raises an      *)
(* interrupt.                                                              *)
GucWrite ==
    /\ guc_running
    /\ nwritten < MaxMsgs
    /\ CircSpace(desc.tail, desc.head) >= 1
    /\ \E k \in Kinds :
          cmds' = [cmds EXCEPT ![desc.tail] =
                                   [id |-> nwritten + 1, kind |-> k]]
    /\ desc' = [desc EXCEPT !.tail = (@ + 1) % Size]
    /\ nwritten' = nwritten + 1
    /\ irq' = TRUE
    /\ UNCHANGED <<guc_running, ctb_vars, local_vars, task_vars, work_vars,
                   reset_vars, hist_vars>>

-----------------------------------------------------------------------------
(* intel_guc_ct_receive(), one action per atomic step.                     *)

\* The unlocked test at the top of the function. The process is not yet in
\* the RCU read section, which it enters with its first spin_trylock().
Enter(p) ==
    pc' = IF head = desc.tail THEN pc ELSE [pc EXCEPT ![p] = "enter"]

\* A process leaves the RCU read section.
Leave(p) ==
    /\ pc' = [pc EXCEPT ![p] = "idle"]
    /\ rwait' = rwait \ {p}

\* intel_guc_ct_event_handler(): the hard interrupt. The reset path masks it
\* (guc->interrupts.enabled) until the transport is enabled again.
EventHandler ==
    /\ irq
    /\ rpc = "none"
    /\ pc[Irq] = "idle"
    /\ irq' = FALSE
    /\ Enter(Irq)
    /\ UNCHANGED <<desc, cmds, guc_running, nwritten, ctb_vars, rhead, rtail,
                   mq, mq_tail, task_vars, work_vars, reset_vars, hist_vars>>

\* A thread waiting for a reply, for room or for a TLB invalidation polls.
Poll(p) ==
    /\ pc[p] = "idle"
    /\ head # desc.tail
    /\ Enter(p)
    /\ UNCHANGED <<ring_vars, ctb_vars, rhead, rtail, mq, mq_tail, task_vars,
                   work_vars, reset_vars, hist_vars>>

\* Mutant: the lock is not tried, everybody reads.
TrylockIgnored(p) ==
    /\ pc[p] \in {"enter", "trylock"}
    /\ lock' = p
    /\ pc' = [pc EXCEPT ![p] = "ct_read"]
    /\ UNCHANGED <<ring_vars, head, broken, rhead, rtail, mq, mq_tail,
                   task_vars, work_vars, reset_vars, hist_vars>>

\* spin_trylock(&ctb->lock); a failure breaks out of the loop.
Trylock(p) ==
    /\ pc[p] \in {"enter", "trylock"}
    /\ \/ /\ lock = None
          /\ lock' = p
          /\ pc' = [pc EXCEPT ![p] = "ct_read"]
       \/ /\ lock # None
          /\ pc' = [pc EXCEPT ![p] = "flush"]
          /\ UNCHANGED lock
    /\ UNCHANGED <<ring_vars, head, broken, rhead, rtail, mq, mq_tail,
                   task_vars, work_vars, reset_vars, hist_vars>>

\* ct_read() up to its loop: take the shadow head and the shared tail, claim
\* everything up to the tail, give up on a bad status.
ReadBegin(p) ==
    /\ pc[p] = "ct_read"
    /\ \/ /\ head = desc.tail              \* "return NULL"
          /\ mq_tail' = [mq_tail EXCEPT ![p] = FALSE]
          /\ pc' = [pc EXCEPT ![p] = "unlock"]
          /\ UNCHANGED <<head, broken, rhead, rtail>>
       \/ /\ head # desc.tail
          /\ head' = desc.tail
          /\ \/ /\ desc.status
                /\ broken' = TRUE
                /\ pc' = [pc EXCEPT ![p] = "unlock"]
                /\ UNCHANGED <<rhead, rtail>>
             \/ /\ ~desc.status
                /\ rhead' = [rhead EXCEPT ![p] = head]
                /\ rtail' = [rtail EXCEPT ![p] = desc.tail]
                /\ pc' = [pc EXCEPT ![p] = "msg"]
                /\ UNCHANGED broken
          /\ UNCHANGED mq_tail
    /\ UNCHANGED <<ring_vars, lock, mq, task_vars, work_vars, reset_vars,
                   hist_vars>>

\* The end of an iteration: step over the message and, at the tail, publish
\* the head to the GuC and look for a new tail.
Advance(p) ==
    LET h == (rhead[p] + 1) % Size
    IN  /\ rhead' = [rhead EXCEPT ![p] = h]
        /\ \/ /\ h # rtail[p]
              /\ UNCHANGED <<desc, head, rtail, pc>>
           \/ /\ h = rtail[p]
              /\ desc' = [desc EXCEPT !.head = h]
              /\ \/ /\ h = desc.tail
                    /\ pc' = [pc EXCEPT ![p] = "unlock"]
                    /\ UNCHANGED <<head, rtail>>
                 \/ /\ h # desc.tail
                    /\ head' = desc.tail
                    /\ rtail' = [rtail EXCEPT ![p] = desc.tail]
                    /\ UNCHANGED pc

\* The -EBUSY case of ct_read(): mq_tail is only set by the first message
\* put on an empty list.
QueueDeferred(p, id) ==
    /\ mq' = [mq EXCEPT ![p] = Append(@, id)]
    /\ mq_tail' = [mq_tail EXCEPT ![p] = @ \/ mq[p] = <<>>]
    /\ deferred' = deferred \cup {id}

\* One iteration of the loop of ct_read().
ReadMsg(p) ==
    LET m == cmds[rhead[p]]
    IN  /\ pc[p] = "msg"
        /\ last_read' = m.id
        /\ \/ /\ m.kind = "inline"
              /\ Advance(p)
              /\ UNCHANGED <<broken, mq, mq_tail, deferred>>
           \/ /\ m.kind = "defer"
              /\ QueueDeferred(p, m.id)
              /\ Advance(p)
              /\ UNCHANGED broken
           \/ /\ m.kind \in {"bad", "short", "none"}
              /\ broken' = TRUE
              /\ desc' = [desc EXCEPT !.status = @ \/ m.kind = "short"]
              /\ pc' = [pc EXCEPT ![p] = "unlock"]
              /\ UNCHANGED <<head, rhead, rtail, mq, mq_tail, deferred>>
        /\ UNCHANGED <<cmds, guc_running, nwritten, irq, lock, task_vars,
                       work_vars, reset_vars>>

\* spin_unlock(&ctb->lock)
Unlock(p) ==
    /\ pc[p] = "unlock"
    /\ lock' = None
    /\ pc' = [pc EXCEPT ![p] = "recheck"]
    /\ UNCHANGED <<ring_vars, head, broken, rhead, rtail, mq, mq_tail,
                   task_vars, work_vars, reset_vars, hist_vars>>

\* Mutant: one pass of the loop only.
RecheckNever(p) ==
    /\ pc[p] = "recheck"
    /\ pc' = [pc EXCEPT ![p] = "flush"]
    /\ UNCHANGED <<ring_vars, ctb_vars, rhead, rtail, mq, mq_tail, task_vars,
                   work_vars, reset_vars, hist_vars>>

\* while (ctb->head != ctb->desc->tail)
Recheck(p) ==
    /\ pc[p] = "recheck"
    /\ pc' = [pc EXCEPT ![p] = IF head # desc.tail THEN "trylock" ELSE "flush"]
    /\ UNCHANGED <<ring_vars, ctb_vars, rhead, rtail, mq, mq_tail, task_vars,
                   work_vars, reset_vars, hist_vars>>

\* Mutant: the emptiness of the shared list is tested after the addition.
FlushTestsLate(p) ==
    /\ pc[p] = "flush"
    /\ incoming' = IF mq_tail[p] THEN incoming \o mq[p] ELSE incoming
    /\ tbb_link' = (tbb_link \/ (mq_tail[p] /\ incoming' = <<>>))
    /\ mq' = [mq EXCEPT ![p] = <<>>]
    /\ mq_tail' = [mq_tail EXCEPT ![p] = FALSE]
    /\ Leave(p)
    /\ UNCHANGED <<ring_vars, ctb_vars, rhead, rtail, tbb_tsk, work_vars, rpc,
                   nresets, hist_vars>>

\* Hand the local list over; the one who finds the shared list empty queues
\* the task. A list whose tail was lost is dropped.
Flush(p) ==
    /\ pc[p] = "flush"
    /\ incoming' = IF mq_tail[p] THEN incoming \o mq[p] ELSE incoming
    /\ tbb_link' = (tbb_link \/ (mq_tail[p] /\ incoming = <<>>))
    /\ mq' = [mq EXCEPT ![p] = <<>>]
    /\ mq_tail' = [mq_tail EXCEPT ![p] = FALSE]
    /\ Leave(p)
    /\ UNCHANGED <<ring_vars, ctb_vars, rhead, rtail, tbb_tsk, work_vars, rpc,
                   nresets, hist_vars>>

-----------------------------------------------------------------------------
(* The deferred worker.                                                    *)

\* tbb_dispatch(): take the task off the list, then run it. The task may be
\* queued again, and dispatched by another thread, while it runs.
Dispatch(w) ==
    /\ tbb_link
    /\ wpc[w] = "off"
    /\ tbb_link' = FALSE
    /\ tbb_tsk' = w
    /\ wpc' = [wpc EXCEPT ![w] = "take"]
    /\ UNCHANGED <<ring_vars, ctb_vars, local_vars, incoming, batch, done,
                   reset_vars, hist_vars>>

\* Mutant: the list is walked without being taken off ct->requests.incoming.
TakeShared(w) ==
    /\ wpc[w] = "take"
    /\ pc[w] = "idle"
    /\ batch' = [batch EXCEPT ![w] = incoming]
    /\ wpc' = [wpc EXCEPT ![w] = IF incoming = <<>> THEN "off" ELSE "proc"]
    /\ UNCHANGED <<ring_vars, ctb_vars, local_vars, task_vars, done,
                   reset_vars, hist_vars>>

\* while ((ll = llist_del_all(&ct->requests.incoming)))
Take(w) ==
    /\ wpc[w] = "take"
    /\ pc[w] = "idle"
    /\ batch' = [batch EXCEPT ![w] = incoming]
    /\ incoming' = <<>>
    /\ wpc' = [wpc EXCEPT ![w] = IF incoming = <<>> THEN "off" ELSE "proc"]
    /\ UNCHANGED <<ring_vars, ctb_vars, local_vars, tbb_link, tbb_tsk, done,
                   reset_vars, hist_vars>>

\* ct_process_request() on the next message, then ct_free_msg().
Process(w) ==
    /\ wpc[w] = "proc"
    /\ batch[w] # <<>>
    /\ done' = [done EXCEPT ![Head(batch[w])] = @ + 1]
    /\ batch' = [batch EXCEPT ![w] = Tail(@)]
    /\ UNCHANGED <<ring_vars, ctb_vars, local_vars, task_vars, wpc,
                   reset_vars, hist_vars>>

\* The call of intel_guc_ct_receive() at the end of a round.
WorkerReceive(w) ==
    /\ wpc[w] = "proc"
    /\ batch[w] = <<>>
    /\ wpc' = [wpc EXCEPT ![w] = "take"]
    /\ Enter(w)
    /\ UNCHANGED <<ring_vars, ctb_vars, rhead, rtail, mq, mq_tail, task_vars,
                   batch, done, reset_vars, hist_vars>>

-----------------------------------------------------------------------------
(* intel_guc_ct_reset() and the intel_guc_ct_enable() that follows it.     *)

\* The GPU has been reset: the firmware no longer runs.
ResetStart ==
    /\ rpc = "none"
    /\ nresets < MaxResets
    /\ guc_running' = FALSE
    /\ nresets' = nresets + 1
    /\ rpc' = "synchronize_hardirq"
    /\ UNCHANGED <<desc, cmds, nwritten, irq, ctb_vars, local_vars, task_vars,
                   work_vars, rwait, hist_vars>>

\* Flush the CT interrupt handlers, then drain.
ResetDrain ==
    /\ rpc = "synchronize_hardirq"
    /\ pc[Irq] = "idle"
    /\ Enter(Resetter)
    /\ rpc' = "drained"
    /\ UNCHANGED <<ring_vars, ctb_vars, rhead, rtail, mq, mq_tail, task_vars,
                   work_vars, rwait, nresets, hist_vars>>

\* synchronize_rcu_expedited(): wait for the sections open at the call.
ResetRcuBegin ==
    /\ rpc = "drained"
    /\ pc[Resetter] = "idle"
    /\ rwait' = {p \in Procs : pc[p] \notin {"idle", "enter"}}
    /\ rpc' = "synchronize_rcu"
    /\ UNCHANGED <<ring_vars, ctb_vars, local_vars, task_vars, work_vars,
                   nresets, hist_vars>>

\* i915_tbb_cancel_task(): a queued task is taken off the list; otherwise the
\* thread that dispatched it last is parked, which waits for it to return.
CancelTask ==
    /\ rpc = "synchronize_rcu"
    /\ rwait = {}
    /\ tbb_link' = FALSE
    /\ \/ /\ tbb_link
          /\ rpc' = "cancelled"
          /\ UNCHANGED tbb_tsk
       \/ /\ ~tbb_link
          /\ tbb_tsk' = None
          /\ rpc' = IF tbb_tsk # None /\ wpc[tbb_tsk] # "off"
                    THEN "kthread_park" ELSE "cancelled"
    /\ rwait' = IF rpc' = "kthread_park" THEN {tbb_tsk} ELSE {}
    /\ UNCHANGED <<ring_vars, ctb_vars, local_vars, incoming, work_vars,
                   nresets, hist_vars>>

ResetParked ==
    /\ rpc = "kthread_park"
    /\ \A w \in rwait : wpc[w] = "off"
    /\ rpc' = "cancelled"
    /\ rwait' = {}
    /\ UNCHANGED <<ring_vars, ctb_vars, local_vars, task_vars, work_vars,
                   nresets, hist_vars>>

\* Finish processing the messages: run ct_incoming_request() directly.
ResetFinish ==
    /\ rpc = "cancelled"
    /\ wpc' = [wpc EXCEPT ![Resetter] = "take"]
    /\ rpc' = "finish"
    /\ UNCHANGED <<ring_vars, ctb_vars, local_vars, task_vars, batch, done,
                   rwait, nresets, hist_vars>>

ResetReturn ==
    /\ rpc = "finish"
    /\ wpc[Resetter] = "off"
    /\ rpc' = "returned"
    /\ UNCHANGED <<ring_vars, ctb_vars, local_vars, task_vars, work_vars,
                   rwait, nresets, hist_vars>>

\* intel_guc_ct_enable(), guc_ct_buffer_reset() of the recv buffer: the local
\* copy is reset first, then the descriptor is cleared.
EnableResetLocal ==
    /\ rpc = "returned"
    /\ broken' = FALSE
    /\ head' = 0
    /\ rpc' = "enabling"
    /\ UNCHANGED <<ring_vars, lock, local_vars, task_vars, work_vars, rwait,
                   nresets, hist_vars>>

\* The caller unmasks the interrupt and runs the handler once, for messages
\* that came before.
EnableResetDesc ==
    /\ rpc = "enabling"
    /\ desc' = [head |-> 0, tail |-> 0, status |-> FALSE]
    /\ guc_running' = TRUE
    /\ irq' = TRUE
    /\ rpc' = "none"
    /\ UNCHANGED <<cmds, nwritten, ctb_vars, local_vars, task_vars,
                   work_vars, rwait, nresets, hist_vars>>

-----------------------------------------------------------------------------
Receive(p) ==
    \/ Trylock(p) \/ ReadBegin(p) \/ ReadMsg(p) \/ Unlock(p) \/ Recheck(p)
    \/ Flush(p)

Incoming(w) == Take(w) \/ Process(w) \/ WorkerReceive(w)

Reset ==
    \/ ResetStart \/ ResetDrain \/ ResetRcuBegin \/ CancelTask \/ ResetParked
    \/ ResetFinish \/ ResetReturn \/ EnableResetLocal \/ EnableResetDesc

Next ==
    \/ GucWrite
    \/ EventHandler
    \/ \E p \in Pollers : Poll(p)
    \/ \E p \in Procs : Receive(p)
    \/ \E w \in Workers : Dispatch(w)
    \/ \E w \in Runners : Incoming(w)
    \/ Reset

Spec == Init /\ [][Next]_vars

(* A thread inside intel_guc_ct_receive() or ct_incoming_request() keeps    *)
(* running, a pending interrupt is delivered and a queued task is           *)
(* dispatched. Nothing obliges a thread to poll, the GuC to write, or       *)
(* anybody to reset the device.                                             *)
Fairness ==
    /\ WF_vars(EventHandler)
    /\ \A p \in Procs : WF_vars(Receive(p))
    /\ \A w \in Runners : WF_vars(Incoming(w))
    /\ WF_vars(\E w \in Workers : Dispatch(w))

FairSpec == Spec /\ Fairness

-----------------------------------------------------------------------------
(* Properties.                                                             *)

TypeRing ==
    /\ desc \in [head : Offsets, tail : Offsets, status : BOOLEAN]
    /\ cmds \in [Offsets -> Msg]
    /\ guc_running \in BOOLEAN /\ nwritten \in 0..MaxMsgs /\ irq \in BOOLEAN

TypeCtb ==
    head \in Offsets /\ broken \in BOOLEAN /\ lock \in Procs \cup {None}

TypeLocal ==
    /\ pc \in [Procs -> {"idle", "enter", "trylock", "ct_read", "msg",
                         "unlock", "recheck", "flush"}]
    /\ rhead \in [Procs -> Offsets] /\ rtail \in [Procs -> Offsets]
    /\ mq \in [Procs -> Seq(Ids)] /\ mq_tail \in [Procs -> BOOLEAN]

TypeTask ==
    /\ incoming \in Seq(Ids) /\ tbb_link \in BOOLEAN
    /\ tbb_tsk \in Workers \cup {None}

TypeWork ==
    /\ wpc \in [Runners -> {"off", "take", "proc"}]
    /\ batch \in [Runners -> Seq(Ids)]
    /\ done \in [Ids -> Nat]

TypeReset ==
    /\ rpc \in {"none", "synchronize_hardirq", "drained", "synchronize_rcu",
                "kthread_park", "cancelled", "finish", "returned",
                "enabling"}
    /\ rwait \subseteq Procs /\ nresets \in 0..MaxResets

TypeHist == last_read \in 0..MaxMsgs /\ deferred \subseteq Ids

\* Every variable of the receive path keeps its type; in particular every
\* ring offset stays inside the ring although the code only masks it.
TypeOK ==
    /\ TypeRing /\ TypeCtb /\ TypeLocal /\ TypeTask /\ TypeWork /\ TypeReset
    /\ TypeHist

\* ct_read() hands every message on exactly once and in the order in which
\* the GuC wrote it, whichever contexts call intel_guc_ct_receive(): none is
\* skipped, repeated, or overwritten in the ring before it was read. Only
\* after an error may messages be skipped.
ReadInOrder ==
    [][last_read' # last_read =>
          \/ last_read' = last_read + 1
          \/ broken /\ last_read' > last_read]_vars

\* A deferred message is never stranded on ct->requests.incoming: the task is
\* queued, or somebody is still inside ct_incoming_request() and will look at
\* the list again, or a reset has taken the task over.
HandOff ==
    incoming # <<>> =>
        \/ tbb_link
        \/ \E w \in Runners : wpc[w] # "off"
        \/ rpc \in {"kthread_park", "cancelled"}

Occurs(s, i) == \E k \in DOMAIN s : s[k] = i

Held(i) ==
    \/ \E p \in Procs : mq_tail[p] /\ Occurs(mq[p], i)
    \/ Occurs(incoming, i)
    \/ \E w \in Runners : Occurs(batch[w], i)

Reenabled == nresets > 1 \/ (nresets = 1 /\ rpc \in {"none", "enabling"})

\* Until the transport is enabled again after a reset, ct_incoming_request()
\* processes a deferred message at most once although i915_tbb threads and
\* the reset may run it at the same time, and a message it has freed is on no
\* list any more.
ProcessedOnce ==
    ~Reenabled =>
        \A i \in Ids : done[i] <= 1 /\ (done[i] = 1 => ~Held(i))

\* A message intel_guc_ct_receive() took out of the ring for the worker is
\* kept on some list until the worker has processed it.
NoDeferredLost == \A i \in deferred : done[i] > 0 \/ Held(i)

\* When intel_guc_ct_reset() returns, every message the stopped GuC had
\* written has been read out of the ring.
ResetDrained == rpc = "returned" => head = desc.tail

\* When intel_guc_ct_reset() returns, no message of the stopped GuC is left
\* behind: the ring has been drained, also when the reset found it locked, or
\* a reader that came during the grace period is still in the loop.
ResetLeavesNone ==
    rpc = "returned" =>
        \/ head = desc.tail
        \/ \E p \in Procs : pc[p] \notin {"idle", "flush"}

\* When intel_guc_ct_reset() returns, no worker still has messages of the old
\* GuC to process.
ResetFinishes ==
    rpc = "returned" => \A w \in Workers : batch[w] = <<>>

\* A message the GuC writes is eventually read, even when its interrupt found
\* the lock held by a thread that had already seen an empty ring; and one that
\* reached ct->requests.incoming is eventually processed.
EventuallyHandled ==
    \A i \in Ids :
        /\ nwritten >= i ~> (last_read >= i \/ broken \/ ~guc_running)
        /\ Occurs(incoming, i) ~> done[i] > 0

=============================================================================
