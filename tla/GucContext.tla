----------------------------- MODULE GucContext -----------------------------
(***************************************************************************)
(* GuC submission: the scheduling state of a context, its guc_id and the   *)
(* messages that register, enable, disable and deregister it              *)
(* (gt/uc/intel_guc_submission.c, gt/intel_context.[ch],                    *)
(* i915_suspend_fence.c).                                                   *)
(*                                                                         *)
(* A context is pinned by its requests and by a disable in flight, and is  *)
(* kept alive by its owner, by being pinned, by every answer the GuC owes  *)
(* about it and by its suspend fences.  The driver changes the state under *)
(* guc_state.lock, drops the lock and only then sends the message: such a  *)
(* thread is a member of calls.  The answers come back in order and are    *)
(* handled one at a time.  A reset loses the messages, and the driver      *)
(* finishes by itself what the lost answers would have finished.           *)
(*                                                                         *)
(* Everything the handlers change on the driver's side is the record w, so *)
(* that a handler is the composition of the functions it calls.            *)
(***************************************************************************)
EXTENDS Integers, Sequences, FiniteSets, SequencesExt

CONSTANTS
    Contexts,    \* struct intel_context, one engine, not parallel
    Requests,    \* struct i915_request, each used once
    None,        \* no context, no request
    NIds,        \* num_guc_ids
    Threshold,   \* sched_disable_gucid_threshold
    MaxActs,     \* bound on bans, closes, suspends, hangs, full buffers, resets
    Acts,        \* which of them happen
    Overtake     \* may a thread be overtaken between changing and sending?

ASSUME ContextAssumption ==
    /\ NIds \in Nat \ {0} /\ Threshold \in Nat /\ MaxActs \in Nat
    /\ Acts \subseteq {"ban", "close", "block", "hang", "busy", "reset"}
    /\ Overtake \in BOOLEAN

VARIABLES
    w,       \* the driver's state: contexts, ids, lookup, counters
    rq,      \* where each request is, and its context
    calls,   \* threads that have left the lock and not yet sent
    sched,   \* the context being submitted under sched_engine->lock
    stall,   \* guc->stalled_request, by its context
    h2g,     \* messages to the GuC
    g2h,     \* answers of the GuC
    rx,      \* the context whose disable answer is half handled
    guc,     \* what the GuC knows of each guc_id
    hung,    \* contexts whose reset notification is not yet handled
    phase,   \* where a reset is
    left     \* disturbances still to come

vars == <<w, rq, calls, sched, stall, h2g, g2h, rx, guc, hung, phase, left>>

Ids == 1 .. NIds
NoId == 0

(* SCHED_STATE_*; the blocked count is a field of its own.                 *)
Flags == {"wait_dereg", "destroyed", "pending_disable", "banned", "enabled",
          "pending_enable", "registered", "closed"}

Fresh == [flags |-> {}, blocked |-> 0, id |-> NoId, idref |-> 0, pins |-> 0,
          ref |-> 1, fence |-> TRUE, delay |-> FALSE, owned |-> TRUE,
          closed |-> FALSE, banned |-> FALSE, freed |-> FALSE]

NotRegistered == [ce |-> None, enabled |-> FALSE, hung |-> FALSE]

-----------------------------------------------------------------------------
(* Functions of the driver's state.                                        *)

Has(s, ce, f) == f \in s.c[ce].flags
SetFlags(s, ce, fs) == [s EXCEPT !.c[ce].flags = @ \cup fs]
ClrFlags(s, ce, fs) == [s EXCEPT !.c[ce].flags = @ \ fs]
Waits(s, ce) == Has(s, ce, "wait_dereg") \/ Has(s, ce, "pending_disable")

\* Mutant: what was pending is kept.
InitSchedStateKeepsPending(s, ce) == ClrFlags(s, ce, {"enabled", "registered"})
InitSchedState(s, ce) == [s EXCEPT !.c[ce].flags = {}]

Mapped(s, ce) == s.c[ce].id # NoId /\ s.lookup[s.c[ce].id] # None
Get(s, ce) == [s EXCEPT !.c[ce].ref = @ + 1]
Incr(s) == [s EXCEPT !.out = @ + 1]
Decr(s) == [s EXCEPT !.out = @ - 1]

Free(s, ce) == [s EXCEPT !.c[ce].freed = TRUE]

\* Mutant: the mapping of the id is left behind.
ReleaseGucIdStillMapped(s, ce) ==
    [s EXCEPT !.used = @ \ {s.c[ce].id}, !.c[ce].id = NoId,
              !.idlist = SelectSeq(@, LAMBDA x : x # ce)]

ReleaseGucId(s, ce) ==
    LET i == s.c[ce].id
        t == IF i = NoId THEN s
             ELSE [s EXCEPT !.used = @ \ {i}, !.lookup[i] = None, !.c[ce].id = NoId]
    IN  [t EXCEPT !.idlist = SelectSeq(@, LAMBDA x : x # ce)]

GucContextDestroy(s, ce) ==
    IF ~s.on \/ ~Mapped(s, ce) THEN Free(ReleaseGucId(s, ce), ce)
    ELSE [s EXCEPT !.idlist = SelectSeq(@, LAMBDA x : x # ce), !.dead = Append(@, ce)]

Put(s, ce) ==
    LET t == [s EXCEPT !.c[ce].ref = @ - 1]
    IN  IF t.c[ce].ref = 0 THEN GucContextDestroy(t, ce) ELSE t

UnpinGucId(s, ce) ==
    IF s.c[ce].id # NoId /\ s.c[ce].idref = 0 /\ ~Contains(s.idlist, ce)
    THEN [s EXCEPT !.idlist = Append(@, ce)] ELSE s

SchedDisableUnpin(s, ce) ==
    LET t == [s EXCEPT !.c[ce].pins = @ - 2]
    IN  IF t.c[ce].pins = 0 THEN Put(UnpinGucId(t, ce), ce) ELSE t

\* Mutant: the blocked fence is not armed again.
PrepPendingDisableNoFence(s, ce) ==
    Get(SetFlags(ClrFlags(s, ce, {"enabled"}), ce, {"pending_disable"}), ce)

PrepPendingDisable(s, ce) ==
    Get([SetFlags(ClrFlags(s, ce, {"enabled"}), ce, {"pending_disable"})
         EXCEPT !.c[ce].fence = FALSE], ce)

(* late is a history: the contexts enabled while an answer was awaited, or *)
(* whose reset notice came when the GuC had enabled them again.            *)
Enabling(s, ce) ==
    Get(SetFlags([s EXCEPT !.late = @ \cup (IF Waits(s, ce) THEN {ce} ELSE {})],
                 ce, {"enabled", "pending_enable"}), ce)

BlockedFenceComplete(s, ce) == [s EXCEPT !.c[ce].fence = TRUE]

Pin(s, ce) ==
    IF s.c[ce].pins = 0 THEN Get([s EXCEPT !.c[ce].pins = 1], ce)
    ELSE [s EXCEPT !.c[ce].pins = @ + 1]

\* Mutant: the victim keeps the guc_id stolen from it.
AssignGucIdShared(s, ce) ==
    LET i == IF s.used # Ids THEN CHOOSE j \in Ids \ s.used : TRUE
             ELSE s.c[Head(s.idlist)].id
    IN  [s EXCEPT !.used = @ \cup {i}, !.c[ce].id = i,
                  !.idlist = IF s.used # Ids THEN @ ELSE Tail(@)]

(* new_guc_id, or the least recently idle owner loses its id.              *)
AssignGucId(s, ce) ==
    IF s.used # Ids
    THEN LET i == CHOOSE j \in Ids \ s.used : \A k \in Ids \ s.used : j <= k
         IN  [s EXCEPT !.used = @ \cup {i}, !.c[ce].id = i]
    ELSE LET cn == Head(s.idlist)
         IN  [ClrFlags(s, cn, {"registered"}) EXCEPT
                !.idlist = Tail(@), !.c[ce].id = s.c[cn].id, !.c[cn].id = NoId]

PinGucId(s, ce) ==
    LET t == IF s.c[ce].id = NoId THEN AssignGucId(s, ce) ELSE s
    IN  [t EXCEPT !.idlist = SelectSeq(@, LAMBDA x : x # ce), !.c[ce].idref = @ + 1]

CanPinGucId(s, ce) == s.c[ce].id # NoId \/ s.used # Ids \/ s.idlist # <<>>

-----------------------------------------------------------------------------
(* Requests, threads and messages.                                         *)

Of(ce) == {r \in Requests : rq[r].ce = ce}
In(ce, ph) == {r \in Of(ce) : rq[r].ph = ph}
Active(ce) == \E r \in Of(ce) : rq[r].ph # "retired"
Move(rs, ph) == [r \in Requests |-> IF r \in rs THEN [rq[r] EXCEPT !.ph = ph] ELSE rq[r]]

Call(op, who, s, ce) == [op |-> op, who |-> who, ce |-> ce, id |-> s.c[ce].id,
                         rq |-> None, old |-> None]
CallsOf(ce) == {k \in calls : k.ce = ce}
By(ce, who) == {k \in CallsOf(ce) : k.who = who} # {}

(* guc_state.lock of ce can be taken; unless threads may be overtaken, the *)
(* thread that held it last has sent its message.                          *)
Steady(ce) == Overtake \/ (CallsOf(ce) = {} /\ sched # ce)

CtOn == phase # "lost"
Msg(op, i, ce) == [op |-> op, id |-> i, ce |-> ce]
Spend(act) == act \in Acts /\ left > 0 /\ left' = left - 1

Init ==
    /\ w = [c |-> [ce \in Contexts |-> Fresh], used |-> {}, idlist |-> <<>>,
            lookup |-> [i \in Ids |-> None], dead |-> <<>>, out |-> 0, on |-> TRUE,
            late |-> {}]
    /\ rq = [r \in Requests |-> [ph |-> "new", ce |-> None]]
    /\ calls = {} /\ sched = None /\ stall = None
    /\ h2g = <<>> /\ g2h = <<>> /\ rx = None
    /\ guc = [i \in Ids |-> NotRegistered] /\ hung = {}
    /\ phase = "run" /\ left = MaxActs

-----------------------------------------------------------------------------
(* guc_request_alloc.                                                      *)

(* The context is pinned and a delayed disable of it cancelled.            *)
Awakened(ce) ==
    LET s == Pin(w, ce)
    IN  IF s.c[ce].delay THEN SchedDisableUnpin([s EXCEPT !.c[ce].delay = FALSE], ce) ELSE s

Ready(s, ce) == IF Waits(s, ce) THEN "fenced" ELSE "ready"

MayCreate(r, ce) ==
    /\ rq[r].ph = "new"
    /\ w.c[ce].owned /\ ~w.c[ce].banned
    /\ w.c[ce].pins > 0 \/ ~w.c[ce].closed
    /\ In(ce, "alloc") = {} /\ ~By(ce, "delayed") /\ ~By(ce, "close")
    /\ Steady(ce)

NewRequest(r, ce) ==
    LET s == Awakened(ce)
        pinned == s.c[ce].idref > 0
        t == IF pinned THEN [s EXCEPT !.c[ce].idref = @ + 1] ELSE PinGucId(s, ce)
        i == t.c[ce].id
        register == ~pinned /\ (s.c[ce].id = NoId \/ ~Mapped(t, ce)) /\ t.on
        old == t.lookup[i]
        m == [t EXCEPT !.lookup[i] = ce]
    IN  /\ MayCreate(r, ce)
        /\ pinned \/ CanPinGucId(s, ce)
        /\ \/ /\ ~register
              /\ w' = t
              /\ rq' = [rq EXCEPT ![r] = [ph |-> Ready(t, ce), ce |-> ce]]
              /\ UNCHANGED <<calls, h2g>>
           \/ /\ register /\ old = None
              /\ w' = SetFlags(m, ce, {"registered"})
              /\ h2g' = Append(h2g, Msg("register", i, ce))
              /\ rq' = [rq EXCEPT ![r] = [ph |-> Ready(t, ce), ce |-> ce]]
              /\ UNCHANGED calls
           \/ /\ register /\ old # None
              /\ w' = Get(SetFlags(m, ce, {"wait_dereg"}), ce)
              /\ calls' = calls \cup {[Call("dereg", "alloc", m, ce) EXCEPT !.rq = r, !.old = old]}
              /\ rq' = [rq EXCEPT ![r] = [ph |-> "alloc", ce |-> ce]]
              /\ UNCHANGED h2g
        /\ UNCHANGED <<sched, stall, g2h, rx, guc, hung, phase, left>>

(* No guc_id to be had: -EAGAIN after the retries.                         *)
NoGucId(r, ce) ==
    /\ MayCreate(r, ce) /\ w.c[ce].idref = 0 /\ ~CanPinGucId(w, ce)
    /\ rq' = [rq EXCEPT ![r] = [ph |-> "retired", ce |-> ce]]
    /\ UNCHANGED <<w, calls, sched, stall, h2g, g2h, rx, guc, hung, phase, left>>

-----------------------------------------------------------------------------
(* Submission, under sched_engine->lock.                                   *)

NeedTasklet(ce) ==
    \/ ~w.on \/ stall # None \/ ~Mapped(w, ce)
    \/ \E r \in Requests : rq[r].ph = "queued"

(* __guc_add_request, up to the send.                                      *)
AddRequest(s, ce) ==
    IF s.c[ce].blocked > 0 \/ Has(s, ce, "enabled") \/ Has(s, ce, "pending_enable")
    THEN w' = s /\ sched' = None
    ELSE w' = Incr(Enabling(s, ce)) /\ sched' = ce

SubmitRequest(r) ==
    LET ce == rq[r].ce IN
    /\ rq[r].ph = "ready" /\ sched = None /\ Steady(ce)
    /\ \/ NeedTasklet(ce) /\ rq' = Move({r}, "queued") /\ UNCHANGED <<w, sched>>
       \/ ~NeedTasklet(ce) /\ rq' = Move({r}, "running") /\ AddRequest(w, ce)
    /\ UNCHANGED <<calls, stall, h2g, g2h, rx, guc, hung, phase, left>>

\* Mutant: the count is not taken back when the buffer is full.
SendEnableKeepsCount ==
    /\ sched # None /\ sched' = None
    /\ \/ /\ h2g' = Append(h2g, Msg("enable", w.c[sched].id, None))
          /\ UNCHANGED <<w, stall, left>>
       \/ /\ Spend("busy")
          /\ w' = Put(ClrFlags(w, sched, {"enabled", "pending_enable"}), sched)
          /\ stall' = sched
          /\ UNCHANGED h2g
    /\ UNCHANGED <<rq, calls, g2h, rx, guc, hung, phase>>

(* The end of __guc_add_request: sent, or the buffer is full.              *)
SendEnable ==
    /\ sched # None /\ sched' = None
    /\ \/ /\ h2g' = Append(h2g, Msg("enable", w.c[sched].id, None))
          /\ UNCHANGED <<w, stall, left>>
       \/ /\ Spend("busy")
          /\ w' = Put(ClrFlags(Decr(w), sched, {"enabled", "pending_enable"}), sched)
          /\ stall' = sched
          /\ UNCHANGED h2g
    /\ UNCHANGED <<rq, calls, g2h, rx, guc, hung, phase>>

(* guc_dequeue_one_context: the stalled request, or a queued context.      *)
Tasklet(ce) ==
    LET i == w.c[ce].id
        todo == IF stall = None THEN In(ce, "queued") ELSE {}
    IN  /\ w.on /\ sched = None /\ Steady(ce) /\ w.c[ce].idref > 0
        /\ stall = ce \/ (stall = None /\ todo # {})
        /\ rq' = Move(todo, IF w.c[ce].banned THEN "done" ELSE "running")
        /\ \/ /\ Mapped(w, ce)
              /\ AddRequest(w, ce) /\ stall' = None
              /\ UNCHANGED <<h2g, left>>
           \/ /\ ~Mapped(w, ce)
              /\ AddRequest(SetFlags([w EXCEPT !.lookup[i] = ce], ce, {"registered"}), ce)
              /\ h2g' = Append(h2g, Msg("register", i, ce)) /\ stall' = None
              /\ UNCHANGED left
           \/ /\ ~Mapped(w, ce) /\ Spend("busy")
              /\ stall' = ce
              /\ UNCHANGED <<w, sched, h2g>>
        /\ UNCHANGED <<calls, g2h, rx, guc, hung, phase>>

-----------------------------------------------------------------------------
(* Retiring, and the disabling of an idle context.                         *)

(* i915_request_retire, up to the lock of guc_context_sched_disable.       *)
Retire(r) ==
    LET ce == rq[r].ce
        s == [w EXCEPT !.c[ce].idref = @ - 1]
        last == s.c[ce].pins = 1
    IN  /\ rq[r].ph = "done" /\ In(ce, "alloc") = {} /\ Steady(ce)
        /\ rq' = Move({r}, "retired")
        /\ w' = [s EXCEPT !.c[ce].pins = IF last THEN 2 ELSE @ - 1]
        /\ calls' = IF last THEN calls \cup {Call("unpin", "unpin", s, ce)} ELSE calls
        /\ UNCHANGED <<sched, stall, h2g, g2h, rx, guc, hung, phase, left>>

\* Mutant: a disabled context is disabled again.
BypassSchedDisableEnabled(s, ce) == ~s.on \/ ~Mapped(s, ce)
BypassSchedDisable(s, ce) == ~s.on \/ ~Mapped(s, ce) \/ ~Has(s, ce, "enabled")
Bypassed(s, ce) ==
    SchedDisableUnpin(IF ~s.on \/ ~Mapped(s, ce) THEN ClrFlags(s, ce, {"enabled"}) ELSE s, ce)
GucIdPressure == Cardinality(w.used) > Threshold

SchedDisable(k) ==
    LET ce == k.ce IN
    /\ k \in calls /\ k.op = "unpin"
    /\ Overtake \/ (CallsOf(ce) = {k} /\ sched # ce)
    /\ \/ /\ BypassSchedDisable(w, ce)
          /\ w' = Bypassed(w, ce) /\ calls' = calls \ {k}
       \/ /\ ~BypassSchedDisable(w, ce) /\ ~w.c[ce].closed /\ ~GucIdPressure
          /\ w' = [w EXCEPT !.c[ce].delay = TRUE] /\ calls' = calls \ {k}
       \/ /\ ~BypassSchedDisable(w, ce) /\ (w.c[ce].closed \/ GucIdPressure)
          /\ w' = PrepPendingDisable(w, ce)
          /\ calls' = (calls \ {k}) \cup {Call("disable", "unpin", w, ce)}
    /\ UNCHANGED <<rq, sched, stall, h2g, g2h, rx, guc, hung, phase, left>>

(* __delay_sched_disable, from the work item and from guc_context_close.   *)
DelaySchedDisable(s, ce, who) ==
    IF BypassSchedDisable(s, ce) THEN w' = Bypassed(s, ce) /\ UNCHANGED calls
    ELSE w' = PrepPendingDisable(s, ce) /\ calls' = calls \cup {Call("disable", who, s, ce)}

DelayedWork(ce) ==
    /\ w.c[ce].delay /\ Steady(ce)
    /\ DelaySchedDisable([w EXCEPT !.c[ce].delay = FALSE], ce, "delayed")
    /\ UNCHANGED <<rq, sched, stall, h2g, g2h, rx, guc, hung, phase, left>>

(* intel_context_close, up to the send.                                    *)
Close(ce) ==
    LET s == [w EXCEPT !.c[ce].closed = TRUE, !.c[ce].delay = FALSE] IN
    /\ Spend("close") /\ w.c[ce].owned /\ ~w.c[ce].closed /\ Steady(ce)
    /\ \/ /\ w.c[ce].delay /\ ~BypassSchedDisable(s, ce)
          /\ DelaySchedDisable(s, ce, "close")
       \/ /\ w.c[ce].delay /\ BypassSchedDisable(s, ce)
          /\ w' = SetFlags(Bypassed(s, ce), ce, {"closed"}) /\ UNCHANGED calls
       \/ ~w.c[ce].delay /\ w' = SetFlags(s, ce, {"closed"}) /\ UNCHANGED calls
    /\ UNCHANGED <<rq, sched, stall, h2g, g2h, rx, guc, hung, phase>>

(* The owner drops a closed context.                                       *)
Drop(ce) ==
    /\ w.c[ce].owned /\ w.c[ce].closed /\ CallsOf(ce) = {}
    /\ w' = Put([w EXCEPT !.c[ce].owned = FALSE], ce)
    /\ UNCHANGED <<rq, calls, sched, stall, h2g, g2h, rx, guc, hung, phase, left>>

(* deregister_destroyed_contexts, guc_lrc_desc_unpin.                      *)
DestroyedWorker ==
    LET ce == Head(w.dead)
        s == [w EXCEPT !.dead = Tail(@)]
    IN  /\ w.dead # <<>>
        /\ \/ ~w.on /\ w' = Free(ReleaseGucId(s, ce), ce) /\ UNCHANGED calls
           \/ /\ w.on
              /\ w' = ClrFlags(SetFlags(s, ce, {"destroyed"}), ce, {"registered"})
              /\ calls' = calls \cup {Call("dereg", "worker", s, ce)}
        /\ UNCHANGED <<rq, sched, stall, h2g, g2h, rx, guc, hung, phase, left>>

-----------------------------------------------------------------------------
(* Suspend fences and bans.                                                *)

(* guc_context_block for a new suspend fence, which holds a reference.     *)
Block(ce) ==
    LET s == Get([w EXCEPT !.c[ce].blocked = @ + 1], ce)
        p == [s EXCEPT !.c[ce].pins = @ + 2]
    IN  /\ Spend("block") /\ Active(ce) /\ Steady(ce)
        /\ \/ /\ Has(w, ce, "enabled") /\ w.on
              /\ w' = PrepPendingDisable(p, ce)
              /\ calls' = calls \cup {Call("disable", "block", s, ce)}
           \/ /\ ~Has(w, ce, "enabled") \/ ~w.on
              /\ w' = ClrFlags(s, ce, {"enabled"})
              /\ UNCHANGED calls
        /\ UNCHANGED <<rq, sched, stall, h2g, g2h, rx, guc, hung, phase>>

CantUnblock(s, ce) ==
    \/ Has(s, ce, "pending_disable") \/ Has(s, ce, "banned")
    \/ ~Mapped(s, ce) \/ s.c[ce].pins = 0 \/ s.c[ce].blocked > 0

(* The blocked fence is complete: guc_context_unblock, then the fence's    *)
(* reference is dropped.                                                   *)
Unblock(ce) ==
    LET s == [w EXCEPT !.c[ce].blocked = @ - 1] IN
    /\ w.c[ce].blocked > 0 /\ w.c[ce].fence /\ ~By(ce, "block") /\ Steady(ce)
    /\ \/ /\ ~w.on \/ CantUnblock(s, ce)
          /\ w' = Put(s, ce) /\ UNCHANGED calls
       \/ /\ w.on /\ ~CantUnblock(s, ce)
          /\ w' = Enabling(s, ce)
          /\ calls' = calls \cup {Call("enable", "unblock", s, ce)}
    /\ UNCHANGED <<rq, sched, stall, h2g, g2h, rx, guc, hung, phase, left>>

(* guc_cancel_context_requests.                                            *)
CancelRequests(ce) ==
    /\ rq' = Move(In(ce, "running"), "done")
    /\ stall' = IF stall = ce THEN None ELSE stall

(* intel_context_ban of a context that has been used, up to the send.      *)
Ban(ce) ==
    LET s == [w EXCEPT !.c[ce].banned = TRUE]
        b == SetFlags(s, ce, {"banned"})
        disable == w.on /\ Has(w, ce, "enabled") /\ Active(ce)
    IN  /\ Spend("ban") /\ ~w.c[ce].banned /\ Of(ce) # {} /\ w.c[ce].owned /\ Steady(ce)
        /\ \/ /\ disable
              /\ w' = PrepPendingDisable([b EXCEPT !.c[ce].pins = @ + 2], ce)
              /\ calls' = calls \cup {Call("disable", "ban", b, ce)}
              /\ UNCHANGED <<rq, stall>>
           \/ /\ ~disable /\ sched = None
              /\ w' = IF w.on THEN b ELSE s
              /\ CancelRequests(ce)
              /\ UNCHANGED calls
        /\ UNCHANGED <<sched, h2g, g2h, rx, guc, hung, phase>>

-----------------------------------------------------------------------------
(* What a thread does after the lock: send, and the rest of its function.  *)

(* deregister_context in try_context_registration, with its unwinding, and *)
(* the end of guc_request_alloc.                                           *)
Deregistering(k) ==
    LET u == [w EXCEPT !.lookup[k.id] = k.old]
        s == IF CtOn THEN Incr(w)
             ELSE IF Has(u, k.ce, "wait_dereg")
                  THEN Put(ClrFlags(u, k.ce, {"wait_dereg"}), k.ce) ELSE u
    IN  /\ w' = s
        /\ rq' = [rq EXCEPT ![k.rq].ph = Ready(s, k.ce)]
        /\ UNCHANGED stall

Send(k) ==
    LET s == IF CtOn THEN Incr(w) ELSE w IN
    /\ k \in calls /\ k.op # "unpin"
    /\ calls' = calls \ {k}
    /\ h2g' = IF CtOn THEN Append(h2g, Msg(k.op, k.id, None)) ELSE h2g
    /\ \/ k.who = "alloc" /\ Deregistering(k)
       \/ k.who = "close" /\ w' = SetFlags(s, k.ce, {"closed"}) /\ UNCHANGED <<rq, stall>>
       \/ k.who = "unblock" /\ w' = Put(s, k.ce) /\ UNCHANGED <<rq, stall>>
       \/ k.who = "ban" /\ sched = None /\ w' = s /\ CancelRequests(k.ce)
       \/ k.who \in {"unpin", "delayed", "block", "worker"} /\ w' = s /\ UNCHANGED <<rq, stall>>
    /\ UNCHANGED <<sched, g2h, rx, guc, hung, phase, left>>

-----------------------------------------------------------------------------
(* Answers of the GuC.                                                     *)

\* Mutant: the requests that wait for the answer are forgotten.
SignalledNone(ce) == rq
Signalled(ce) == Move(In(ce, "fenced"), "ready")

\* Mutant: the reference of the enable is not dropped.
SchedEnableDoneKeepsRef(ce) ==
    /\ IF Has(w, ce, "pending_enable") /\ ~Has(w, ce, "destroyed")
       THEN w' = Decr(ClrFlags(w, ce, {"pending_enable"}))
       ELSE UNCHANGED w
    /\ UNCHANGED <<rq, h2g, rx>>

SchedEnableDone(ce) ==
    /\ IF Has(w, ce, "pending_enable") /\ ~Has(w, ce, "destroyed")
       THEN w' = Put(Decr(ClrFlags(w, ce, {"pending_enable"})), ce)
       ELSE UNCHANGED w
    /\ UNCHANGED <<rq, h2g, rx>>

(* The unpin comes before the requests that wait are released.             *)
SchedDisableDone(ce) ==
    /\ IF Has(w, ce, "pending_disable") /\ ~Has(w, ce, "destroyed")
       THEN w' = SchedDisableUnpin(w, ce) /\ rx' = ce
       ELSE UNCHANGED <<w, rx>>
    /\ UNCHANGED <<rq, h2g>>

DeregisterDone(ce, i) ==
    /\ \/ /\ Has(w, ce, "wait_dereg")
          /\ w' = Decr(Put(ClrFlags(SetFlags(w, ce, {"registered"}), ce, {"wait_dereg"}), ce))
          /\ h2g' = Append(h2g, Msg("register", i, ce))
          /\ rq' = Signalled(ce)
       \/ /\ ~Has(w, ce, "wait_dereg")
          /\ w' = Decr(IF Has(w, ce, "destroyed") THEN Free(ReleaseGucId(w, ce), ce) ELSE w)
          /\ UNCHANGED <<h2g, rq>>
    /\ UNCHANGED rx

HandleG2H ==
    LET m == Head(g2h)
        ce == w.lookup[m.id]
    IN  /\ g2h # <<>> /\ rx = None /\ g2h' = Tail(g2h)
        /\ hung' = IF m.op = "reset" THEN hung \cup {m.id} ELSE hung
        /\ ce # None => Steady(ce)
        /\ \/ (ce = None \/ m.op = "reset") /\ UNCHANGED <<w, rq, h2g, rx>>
           \/ ce # None /\ m.op = "enable" /\ SchedEnableDone(ce)
           \/ ce # None /\ m.op = "disable" /\ SchedDisableDone(ce)
           \/ ce # None /\ m.op = "dereg" /\ DeregisterDone(ce, m.id)
        /\ UNCHANGED <<calls, sched, stall, guc, phase, left>>

SchedDisableDoneEnd ==
    LET ce == rx
        s == BlockedFenceComplete(ClrFlags(w, ce, {"banned", "pending_disable"}), ce)
        banned == Has(w, ce, "banned")
        moved == Signalled(ce)
    IN  /\ rx # None /\ rx' = None
        /\ Steady(ce) /\ (banned => sched = None)
        /\ w' = Put(Decr(s), ce)
        /\ rq' = IF banned
                 THEN [r \in Requests |-> IF r \in In(ce, "running")
                                          THEN [rq[r] EXCEPT !.ph = "done"] ELSE moved[r]]
                 ELSE moved
        /\ stall' = IF banned /\ stall = ce THEN None ELSE stall
        /\ UNCHANGED <<calls, sched, h2g, g2h, guc, hung, phase, left>>

(* __guc_reset_context: a NOP when an enable is in flight; otherwise the   *)
(* requests the GuC had go back to the queue.                              *)
ResetContext(i, ce) ==
    IF Has(w, ce, "pending_enable") THEN UNCHANGED <<w, rq>>
    ELSE /\ w' = ClrFlags([w EXCEPT !.late = @ \cup (IF guc[i].enabled THEN {ce} ELSE {})],
                          ce, {"enabled"})
         /\ rq' = Move(In(ce, "running"), "queued")

(* guc_handle_context_reset.                                               *)
HandleContextReset(i) ==
    LET ce == w.lookup[i]
        replay == ce # None /\ ~w.c[ce].banned /\ w.c[ce].blocked = 0
    IN  /\ i \in hung /\ hung' = hung \ {i}
        /\ ce # None => Steady(ce)
        /\ \/ ~replay /\ UNCHANGED <<w, rq>>
           \/ replay /\ sched = None /\ ResetContext(i, ce)
        /\ UNCHANGED <<calls, sched, stall, h2g, g2h, rx, guc, phase, left>>

-----------------------------------------------------------------------------
(* Reset.                                                                  *)

(* intel_guc_submission_reset_prepare, with guc_flush_destroyed_contexts.  *)
ResetPrepare ==
    /\ Spend("reset") /\ phase = "run" /\ sched = None
    /\ phase' = "prepared"
    /\ w' = FoldLeft(LAMBDA s, ce : Free(ReleaseGucId(s, ce), ce),
                     [w EXCEPT !.on = FALSE, !.dead = <<>>], w.dead)
    /\ UNCHANGED <<rq, calls, sched, stall, h2g, g2h, rx, guc, hung>>

(* intel_guc_sanitize: the buffers are disabled and what is in them lost.  *)
Sanitize ==
    /\ phase = "prepared" /\ rx = None
    /\ Overtake \/ calls = {}
    /\ phase' = "lost" /\ h2g' = <<>> /\ g2h' = <<>> /\ hung' = {}
    /\ guc' = [i \in Ids |-> NotRegistered]
    /\ UNCHANGED <<w, rq, calls, sched, stall, rx, left>>

(* scrub_guc_desc_for_outstanding_g2h for one context.                     *)
Scrub(s0, ce) ==
    LET alive == s0.c[ce].ref > 0
        s1 == IF alive THEN Get(s0, ce) ELSE s0
        s2 == IF s1.c[ce].delay
              THEN SchedDisableUnpin([s1 EXCEPT !.c[ce].delay = FALSE], ce) ELSE s1
        was == s2.c[ce].flags
        s3 == InitSchedState(s2, ce)
        s4 == IF was \cap {"pending_enable", "destroyed", "wait_dereg"} = {} THEN s3 ELSE Decr(s3)
        s5 == IF "destroyed" \in was THEN Free(ReleaseGucId(s4, ce), ce) ELSE s4
        s6 == IF was \cap {"pending_enable", "wait_dereg"} = {} THEN s5 ELSE Put(s5, ce)
        s7 == IF "pending_disable" \in was
              THEN Put(BlockedFenceComplete(Decr(SchedDisableUnpin(s6, ce)), ce), ce) ELSE s6
    IN  IF alive THEN Put(s7, ce) ELSE s7

(* intel_guc_submission_reset: clear_context_state, then every request the *)
(* GuC had is queued again.                                                *)
ScrubAndUnwind ==
    LET known == {w.lookup[i] : i \in Ids} \ {None}
        s == FoldSet(LAMBDA ce, t : Scrub(t, ce), w, known)
        cancelled(ce) == ce \in known /\ {"pending_disable", "banned"} \subseteq w.c[ce].flags
        After(r) == CASE r.ph = "fenced" /\ r.ce \in known -> "ready"
                      [] r.ph = "running" -> IF cancelled(r.ce) THEN "done" ELSE "queued"
                      [] OTHER -> r.ph
    IN  /\ phase = "lost" /\ phase' = "scrubbed"
        /\ w' = [s EXCEPT !.out = IF @ > 0 THEN 0 ELSE @, !.lookup = [i \in Ids |-> None]]
        /\ rq' = [r \in Requests |-> [rq[r] EXCEPT !.ph = After(rq[r])]]
        /\ UNCHANGED <<calls, sched, stall, h2g, g2h, rx, guc, hung, left>>

(* The firmware is loaded, guc_init_submission, then                       *)
(* intel_guc_submission_reset_finish.                                      *)
ResetFinish ==
    /\ phase = "scrubbed" /\ phase' = "run"
    /\ w' = [w EXCEPT !.on = TRUE] /\ stall' = None
    /\ UNCHANGED <<rq, calls, sched, h2g, g2h, rx, guc, hung, left>>

-----------------------------------------------------------------------------
(* The GuC, as the driver uses it.                                         *)

(* It ignores a message about a guc_id nobody registered.                  *)
GucReceives ==
    LET m == Head(h2g)
        known == m.id # NoId /\ (m.op = "register" \/ guc[m.id].ce # None)
    IN  /\ h2g # <<>> /\ h2g' = Tail(h2g)
        /\ g2h' = IF known /\ m.op # "register" THEN Append(g2h, m) ELSE g2h
        /\ guc' = IF ~known THEN guc ELSE [guc EXCEPT ![m.id] =
                    CASE m.op = "register" -> [NotRegistered EXCEPT !.ce = m.ce]
                      [] m.op = "enable"   -> [@ EXCEPT !.enabled = TRUE, !.hung = FALSE]
                      [] m.op = "disable"  -> [@ EXCEPT !.enabled = FALSE]
                      [] m.op = "dereg"    -> NotRegistered]
        /\ UNCHANGED <<w, rq, calls, sched, stall, rx, hung, phase, left>>

Runs(ce) == \E i \in Ids : guc[i].ce = ce /\ guc[i].enabled /\ ~guc[i].hung

Execute(r) ==
    /\ rq[r].ph = "running" /\ Runs(rq[r].ce)
    /\ rq' = Move({r}, "done")
    /\ UNCHANGED <<w, calls, sched, stall, h2g, g2h, rx, guc, hung, phase, left>>

(* The GuC gives up on a hung context, resets it and tells the driver; the *)
(* requests submitted for a banned one do nothing and cannot hang.         *)
Hang(i) ==
    /\ Spend("hang") /\ guc[i].enabled /\ ~guc[i].hung
    /\ In(guc[i].ce, "running") # {} /\ ~w.c[guc[i].ce].banned
    /\ guc' = [guc EXCEPT ![i].enabled = FALSE, ![i].hung = TRUE]
    /\ g2h' = Append(g2h, Msg("reset", i, None))
    /\ UNCHANGED <<w, rq, calls, sched, stall, h2g, rx, hung, phase>>

-----------------------------------------------------------------------------
(* What the driver's threads and the GuC do without being asked again.     *)
Progress ==
    \/ \E r \in Requests : SubmitRequest(r) \/ Execute(r) \/ Retire(r)
    \/ \E ce \in Contexts : Tasklet(ce) \/ DelayedWork(ce) \/ Unblock(ce)
    \/ \E k \in calls : SchedDisable(k) \/ Send(k)
    \/ SendEnable \/ DestroyedWorker \/ GucReceives \/ HandleG2H \/ SchedDisableDoneEnd
    \/ \E i \in Ids : HandleContextReset(i)
    \/ Sanitize \/ ScrubAndUnwind \/ ResetFinish

Next ==
    \/ Progress
    \/ \E r \in Requests, ce \in Contexts : NewRequest(r, ce) \/ NoGucId(r, ce)
    \/ \E ce \in Contexts : Block(ce) \/ Ban(ce) \/ Close(ce) \/ Drop(ce)
    \/ \E i \in Ids : Hang(i)
    \/ ResetPrepare

Spec == Init /\ [][Next]_vars /\ WF_vars(Progress)

-----------------------------------------------------------------------------
(* No enable has been issued while an answer about the context was awaited *)
(* and no reset notice came late; see InOrder for what the code does then. *)
InStep == ~Overtake /\ w.late = {}

(* The state has its type; the pin counts, reference counts, block counts  *)
(* and the count of answers owed (outstanding_submission_g2h) never go     *)
(* below zero.                                                             *)
TypeOK ==
    /\ \A ce \in Contexts :
        /\ w.c[ce].flags \subseteq Flags /\ w.c[ce].id \in Ids \cup {NoId}
        /\ w.c[ce].blocked >= 0 /\ w.c[ce].idref >= 0 /\ w.c[ce].pins >= 0
        /\ InStep => w.c[ce].ref >= 0
    /\ w.used \subseteq Ids /\ w.lookup \in [Ids -> Contexts \cup {None}]
    /\ InStep => w.out >= 0
    /\ phase \in {"run", "prepared", "lost", "scrubbed"} /\ left \in 0 .. MaxActs

Owing(m) == m.op \notin {"register", "reset"}
One(p) == IF p THEN 1 ELSE 0

(* outstanding_submission_g2h is the number of answers really on their     *)
(* way: every message that will be answered was counted once, every answer *)
(* handled is uncounted once, and a reset that loses messages leaves no    *)
(* remainder, which wait_for_idle would wait on for ever.                  *)
OutExact ==
    InStep /\ phase # "lost" =>
        w.out = Len(SelectSeq(h2g, Owing)) + Len(SelectSeq(g2h, Owing))
                + One(rx # None) + One(sched # None)

(* The reference count of a context is exactly its owner, its pins, the    *)
(* answers owed about it and its suspend fences, so that it is destroyed   *)
(* neither early nor never, also when a reset ends the waiting.            *)
RefsExact ==
    TypeOK /\ (InStep => \A ce \in Contexts :
        w.c[ce].ref = One(w.c[ce].owned) + One(w.c[ce].pins > 0)
                      + w.c[ce].blocked + One(By(ce, "unblock"))
                      + Cardinality(w.c[ce].flags \cap {"wait_dereg", "pending_enable", "pending_disable"}))

(* A guc_id in use belongs to exactly one context, and one nobody has is   *)
(* free: allocation, stealing, destruction and reset neither share nor     *)
(* leak ids.                                                               *)
IdOwned ==
    /\ \A ce, cn \in Contexts : ce # cn /\ w.c[ce].id = w.c[cn].id => w.c[ce].id = NoId
    /\ w.used = {w.c[ce].id : ce \in Contexts} \ {NoId}

(* The GuC runs only what it may.  It never schedules a context the driver *)
(* has unpinned: the unpin waits for the answer to the disable, and comes  *)
(* before the waiting requests are let go ("it is safe to unpin the        *)
(* context").  A context behind a suspend fence is not enabled, asserted   *)
(* in guc_context_unblock, however blocks, bans, submissions and resets    *)
(* mix; and once the fence guc_context_block returns has signalled, the    *)
(* GuC has stopped running it and does not start it until it is unblocked. *)
RunsAllowed ==
    /\ InStep /\ w.on => \A i \in Ids : guc[i].enabled => w.c[guc[i].ce].pins > 0
    /\ \A ce \in Contexts : w.c[ce].blocked > 0 =>
        /\ ~Has(w, ce, "enabled")
        /\ InStep /\ w.on /\ w.c[ce].fence => ~Runs(ce)

(* While submission is on, context_lookup names no freed context, so that  *)
(* an answer of the GuC never reaches one; and a context on the list of    *)
(* destroyed ones still has its guc_id and its place in context_lookup and *)
(* is not enabled, as guc_lrc_desc_unpin asserts.                          *)
LookupLive ==
    /\ w.on => \A i \in Ids : w.lookup[i] # None => ~w.c[w.lookup[i]].freed
    /\ InStep => \A n \in DOMAIN w.dead :
        LET ce == w.dead[n] IN
        w.c[ce].id # NoId /\ w.lookup[w.c[ce].id] = ce /\ ~Has(w, ce, "enabled")

(* The GuC gets no message it would refuse: it registers a free guc_id,    *)
(* enables a registered and disabled context, disables an enabled one and  *)
(* deregisters a disabled one.                                             *)
Orderly ==
    InStep /\ h2g # <<>> =>
        LET m == Head(h2g)
            g == guc[m.id]
        IN  CASE m.op = "register" -> g.ce = None
              [] m.op = "enable"   -> g.ce # None /\ ~g.enabled
              [] m.op = "disable"  -> g.enabled \/ g.hung
              [] m.op = "dereg"    -> g.ce # None /\ ~g.enabled

(* A context is registered from its initial scheduling state, as           *)
(* try_context_registration asserts: nothing is left of what a lost answer *)
(* or an earlier owner of the guc_id had begun.  The assertion does not    *)
(* allow for a ban of a context that waits to be registered again.         *)
RegistersInit ==
    [][\A i \in Ids, ce \in Contexts :
        InStep /\ w.lookup[i] # ce /\ w'.lookup[i] = ce
            => w.c[ce].flags \subseteq {"closed", "registered", "banned"}]_vars

(* guc_state.lock "ensures that a context is in the correct state before   *)
(* issuing a H2G ... we don't issue a schedule enable when a schedule      *)
(* disable is in flight": no context is both enabled and waiting for the   *)
(* answer to a disable or a deregistration.                                *)
InOrder == \A ce \in Contexts : Has(w, ce, "enabled") => ~Waits(w, ce)

(* The stalled request still holds its guc_id, as __guc_add_request        *)
(* asserts when the tasklet takes it up again.                             *)
StalledAlive == stall # None => w.c[stall].idref > 0

(* A request submitted for a banned context behind a suspend fence.        *)
BanStuck(r) ==
    rq[r].ph = "running" /\ Has(w, rq[r].ce, "banned") /\ ~Has(w, rq[r].ce, "enabled")

(* Every request is retired, no answer stays owed and no destroyed context *)
(* is left over, whatever is stalled, stolen, suspended, closed, hung or   *)
(* reset on the way; apart from BanStuck and from ~StalledAlive.           *)
Settles ==
    <>[](\/ /\ \A r \in Requests : rq[r].ph \in {"new", "retired"} \/ BanStuck(r)
            /\ calls = {} /\ w.out = 0 /\ w.dead = <<>>
         \/ ~StalledAlive \/ ~InStep)
=============================================================================
