------------------------------ MODULE IovRelay ------------------------------
(***************************************************************************)
(* The relay of messages between the PF driver and its VF drivers through   *)
(* the GuC (gt/iov/intel_iov_relay.c).  A call takes a fence, puts a        *)
(* pending_relay that lives on its stack on a list, sends its request and   *)
(* waits; the reply handler of the node finds the pending_relay by target   *)
(* and fence.  A peer may also answer "busy" (a reply will follow) or       *)
(* "retry" (send again).  The GuC keeps the order of the messages between   *)
(* two nodes and may drop any of them (a VF reset, a GuC reset).            *)
(***************************************************************************)
EXTENDS Naturals, Sequences, FiniteSets

CONSTANTS
    PF, VFs,
    Calls,          \* the calls that may be made
    Caller, Target, \* the two nodes of each call
    Room,           \* buf_size of each call
    Requests,       \* what a call may ask
    Replies,        \* sequences of dwords
    FenceMax,       \* the largest relay fence: 2^32 - 1 in the code
    FirstFence,     \* relay->last_fence when the calls begin
    MaxPutOff,      \* bound on the busy and retry answers of the peers
    Failed, None

Nodes == {PF} \cup VFs
Links == ({PF} \X VFs) \cup (VFs \X {PF})

ASSUME RelayAssumption ==
    /\ PF \notin VFs
    /\ Caller \in [Calls -> Nodes] /\ Target \in [Calls -> Nodes]
    /\ \A c \in Calls : <<Caller[c], Target[c]>> \in Links
    /\ Room \in [Calls -> Nat]
    /\ FenceMax \in Nat \ {0} /\ FirstFence \in 0..FenceMax
    /\ MaxPutOff \in Nat
    /\ None \notin Replies /\ Failed \notin Replies /\ Failed # None

VARIABLES
    last,       \* relay->last_fence of each node
    pending,    \* relay->pending_relays of all nodes, as a set of calls
    pc,         \* each call's place in relay_send_and_wait()
    fence,      \* the relay_id of each call
    done,       \* pending.done
    reply,      \* pending.reply
    buf,        \* pending.response, as the reply copied into it
    seen,       \* the value of pending.reply read at the first check
    ret,        \* what the call is about to return
    chan,       \* external: the messages under way on each link
    owed,       \* external: the requests the peer has answered "busy" to
    putoffs,    \* the busy and retry answers given
    served      \* the pairs <<c, v>> such that c was served with v (history)

frame == <<fence, done, reply, buf, seen, ret>>
peer == <<owed, putoffs, served>>
vars == <<last, pending, pc, frame, chan, peer>>

Codes == {"none", "ok", "error", "busy", "retry"}
Messages == [type : {"request"}, fence : 1..FenceMax, of : Calls, body : Requests]
              \cup [type : {"ok"}, fence : 1..FenceMax, of : Calls, body : Replies]
              \cup [type : {"fail", "busy", "retry"}, fence : 1..FenceMax,
                    of : Calls, body : {None}]
Message(type, f, c, body) == [type |-> type, fence |-> f, of |-> c, body |-> body]
InFlight == UNION {{chan[l][i] : i \in 1..Len(chan[l])} : l \in Links}

Init ==
    /\ last = [n \in Nodes |-> FirstFence]
    /\ pending = {}
    /\ pc = [c \in Calls |-> "idle"]
    /\ fence = [c \in Calls |-> 0]
    /\ done = [c \in Calls |-> FALSE]
    /\ reply = [c \in Calls |-> "none"]
    /\ buf = [c \in Calls |-> None]
    /\ seen = [c \in Calls |-> "none"]
    /\ ret = [c \in Calls |-> "none"]
    /\ chan = [l \in Links |-> <<>>]
    /\ owed = {}
    /\ putoffs = 0
    /\ served = {}
-----------------------------------------------------------------------------
\* A call of the node n, from intel_iov_relay_send_to_pf() or _to_vf().

Active(c) == pc[c] \notin {"idle", "done"}

\* A fence comes round again after 2^32 - 1 calls; by then the call that had
\* it, and every message of that call, is gone.
Recycled(n, f) ==
    /\ \A c \in Calls : Caller[c] = n /\ Active(c) => fence[c] # f
    /\ \A m \in InFlight \cup owed : Caller[m.of] = n => m.fence # f

NextFence(f) == IF f = FenceMax THEN 1 ELSE f + 1

GetNextFence(c) ==
    /\ pc[c] = "idle"
    /\ LET f == NextFence(last[Caller[c]]) IN
       /\ Recycled(Caller[c], f)
       /\ last' = [last EXCEPT ![Caller[c]] = f]
       /\ fence' = [fence EXCEPT ![c] = f]
    /\ pc' = [pc EXCEPT ![c] = "add"]
    /\ UNCHANGED <<pending, done, reply, buf, seen, ret, chan, peer>>

AddPending(c) ==
    /\ pc[c] = "add"
    /\ pending' = pending \cup {c}
    /\ pc' = [pc EXCEPT ![c] = "send"]
    /\ UNCHANGED <<last, frame, chan, peer>>

\* relay_send(): it repeats while the CT buffer is full; when it fails for
\* another reason nothing is sent.
RelaySend(ch, l, m) == [ch EXCEPT ![l] = Append(@, m)]

Send(c, r) ==
    /\ pc[c] = "send"
    /\ \/ /\ pc' = [pc EXCEPT ![c] = "wait"]
          /\ chan' = RelaySend(chan, <<Caller[c], Target[c]>>,
                               Message("request", fence[c], c, r))
          /\ UNCHANGED ret
       \/ /\ pc' = [pc EXCEPT ![c] = "unlink"]
          /\ ret' = [ret EXCEPT ![c] = "error"]
          /\ UNCHANGED chan
    /\ UNCHANGED <<last, pending, fence, done, reply, buf, seen, peer>>

Wake(c) ==
    /\ pc[c] = "wait"
    /\ done[c]
    /\ pc' = [pc EXCEPT ![c] = "check"]
    /\ UNCHANGED <<last, pending, frame, chan, peer>>

\* Mutant: a timed out call returns without taking its entry off the list.
TimeoutListed(c) ==
    /\ pc[c] = "wait"
    /\ ~done[c]
    /\ pc' = [pc EXCEPT ![c] = "done"]
    /\ ret' = [ret EXCEPT ![c] = "error"]
    /\ UNCHANGED <<last, pending, fence, done, reply, buf, seen, chan, peer>>

\* Mutant: the wait is not bounded.
TimeoutNever(c) ==
    /\ pc[c] = "wait"
    /\ ~done[c]
    /\ UNCHANGED vars

Timeout(c) ==
    /\ pc[c] = "wait"
    /\ ~done[c]
    /\ pc' = [pc EXCEPT ![c] = "unlink"]
    /\ ret' = [ret EXCEPT ![c] = "error"]
    /\ UNCHANGED <<last, pending, fence, done, reply, buf, seen, chan, peer>>

Check(c) ==
    /\ pc[c] = "check"
    /\ seen' = [seen EXCEPT ![c] = reply[c]]
    /\ IF reply[c] = "ok"
       THEN /\ pc' = [pc EXCEPT ![c] = "unlink"]
            /\ ret' = [ret EXCEPT ![c] = "ok"]
       ELSE /\ pc' = [pc EXCEPT ![c] = "reinit"]
            /\ UNCHANGED ret
    /\ UNCHANGED <<last, pending, fence, done, reply, buf, chan, peer>>

Reinit(c) ==
    /\ pc[c] = "reinit"
    /\ done' = [done EXCEPT ![c] = FALSE]
    /\ pc' = [pc EXCEPT ![c] = "decide"]
    /\ UNCHANGED <<last, pending, fence, reply, buf, seen, ret, chan, peer>>

\* Mutant: a busy answer is taken for a request to send again.
DecideResend(c) ==
    /\ pc[c] = "decide"
    /\ \E code \in {seen[c], reply[c]} :
         /\ pc' = [pc EXCEPT ![c] = IF code \in {"retry", "busy"} THEN "send"
                                    ELSE "unlink"]
         /\ ret' = [ret EXCEPT ![c] = CASE code = "ok" -> "empty"
                                        [] code \in {"error", "none"} -> "error"
                                        [] OTHER -> @]
    /\ UNCHANGED <<last, pending, fence, done, reply, buf, seen, chan, peer>>

\* pending.reply is read again without the lock: the compiler may keep the
\* value of the first read, or the handler may have stored another.
Decide(c) ==
    /\ pc[c] = "decide"
    /\ \E code \in {seen[c], reply[c]} :
         /\ pc' = [pc EXCEPT ![c] = CASE code = "retry" -> "send"
                                      [] code = "busy" -> "wait"
                                      [] OTHER -> "unlink"]
         /\ ret' = [ret EXCEPT ![c] = CASE code = "ok" -> "empty"
                                        [] code \in {"error", "none"} -> "error"
                                        [] OTHER -> @]
    /\ UNCHANGED <<last, pending, fence, done, reply, buf, seen, chan, peer>>

\* The frame of the call is gone, but for what it returns.
Unlink(c) ==
    /\ pc[c] = "unlink"
    /\ pending' = pending \ {c}
    /\ pc' = [pc EXCEPT ![c] = "done"]
    /\ fence' = [fence EXCEPT ![c] = 0]
    /\ done' = [done EXCEPT ![c] = FALSE]
    /\ reply' = [reply EXCEPT ![c] = "none"]
    /\ seen' = [seen EXCEPT ![c] = "none"]
    /\ UNCHANGED <<last, buf, ret, chan, peer>>

\* The steps of a call after its first, of which Send takes the request.
Wait(c) ==
    \/ AddPending(c)
    \/ Wake(c)
    \/ Timeout(c)
    \/ Check(c)
    \/ Reinit(c)
    \/ Decide(c)
    \/ Unlink(c)
-----------------------------------------------------------------------------
\* The message handler of the node l[2], for the first message on link l.

Back(l) == <<l[2], l[1]>>

\* relay_handle_reply(): the pending call of this node with that target and
\* fence is given the reply and completed.  A message for none is dropped.
Matching(l, m) == {c \in pending : /\ Caller[c] = l[2] /\ Target[c] = l[1]
                                   /\ fence[c] = m.fence}

Complete(l, m, code) ==
    /\ \/ /\ Matching(l, m) = {}
          /\ UNCHANGED <<done, reply, buf>>
       \/ \E c \in Matching(l, m) :
            LET fits == code = "ok" /\ Len(m.body) <= Room[c] IN
            /\ reply' = [reply EXCEPT ![c] = IF code = "ok" /\ ~fits
                                             THEN "error" ELSE code]
            /\ buf' = [buf EXCEPT ![c] = IF fits THEN m.body ELSE @]
            /\ done' = [done EXCEPT ![c] = TRUE]
    /\ chan' = [chan EXCEPT ![l] = Tail(@)]
    /\ UNCHANGED <<last, pending, pc, fence, seen, ret, peer>>

HandleReply(l) ==
    /\ chan[l] # <<>>
    /\ Head(chan[l]).type \in {"ok", "busy", "retry"}
    /\ Complete(l, Head(chan[l]), Head(chan[l]).type)

\* Mutant: the code of a failure is stored as it came.
HandleFailureRaw(l) ==
    /\ chan[l] # <<>>
    /\ Head(chan[l]).type = "fail"
    /\ \E code \in {"ok", "error"} :
         Complete(l, [Head(chan[l]) EXCEPT !.body = <<>>], code)

\* A failure without an error code is given one (-ERFKILL), so that the
\* caller never takes it for a success.
HandleFailure(l) ==
    /\ chan[l] # <<>>
    /\ Head(chan[l]).type = "fail"
    /\ Complete(l, Head(chan[l]), "error")

\* The first message on l is taken and one of the answers is sent, or none.
Answer(l, answers) ==
    LET taken == [chan EXCEPT ![l] = Tail(@)] IN
    \/ chan' = taken
    \/ \E a \in answers : chan' = RelaySend(taken, Back(l), a)

\* relay_handle_request() on the PF, when the service has a reply v.  If the
\* reply cannot be sent the failure of that is sent instead.
Serve(l, v) ==
    /\ l[2] = PF
    /\ chan[l] # <<>>
    /\ LET m == Head(chan[l]) IN
       /\ m.type = "request"
       /\ Answer(l, {Message("ok", m.fence, m.of, v),
                     Message("fail", m.fence, m.of, None)})
       /\ served' = served \cup {<<m.of, v>>}
    /\ UNCHANGED <<last, pending, pc, frame, owed, putoffs>>

\* The service has an error; on a VF there is no service at all.
Refuse(l) ==
    /\ chan[l] # <<>>
    /\ LET m == Head(chan[l]) IN
       /\ m.type = "request"
       /\ Answer(l, {Message("fail", m.fence, m.of, None)})
    /\ UNCHANGED <<last, pending, pc, frame, peer>>

\* External: a peer that puts the request off.  The PF service of this driver
\* never does, its callers are ready for a peer that does.
PutOff(l) ==
    /\ putoffs < MaxPutOff
    /\ chan[l] # <<>>
    /\ LET m == Head(chan[l]) IN
       /\ m.type = "request"
       /\ \E type \in {"busy", "retry"} :
            /\ Answer(l, {Message(type, m.fence, m.of, None)})
            /\ owed' = IF type = "busy" THEN owed \cup {m} ELSE owed
    /\ putoffs' = putoffs + 1
    /\ UNCHANGED <<last, pending, pc, frame, served>>

\* External: the reply that a busy peer owed.
Settle(m, v) ==
    LET l == <<Target[m.of], Caller[m.of]>> IN
    /\ m \in owed
    /\ owed' = owed \ {m}
    /\ \/ /\ chan' = RelaySend(chan, l, Message("ok", m.fence, m.of, v))
          /\ served' = served \cup {<<m.of, v>>}
       \/ /\ chan' = RelaySend(chan, l, Message("fail", m.fence, m.of, None))
          /\ UNCHANGED served
    /\ UNCHANGED <<last, pending, pc, frame, putoffs>>

\* External: the GuC drops a message, because a VF or the GuC is reset.
Lose(l) ==
    /\ chan[l] # <<>>
    /\ chan' = [chan EXCEPT ![l] = Tail(@)]
    /\ UNCHANGED <<last, pending, pc, frame, peer>>
-----------------------------------------------------------------------------
Next ==
    \/ \E c \in Calls : GetNextFence(c) \/ Wait(c)
    \/ \E c \in Calls, r \in Requests : Send(c, r)
    \/ \E l \in Links : HandleReply(l) \/ HandleFailure(l) \/ Refuse(l)
                          \/ PutOff(l) \/ Lose(l)
    \/ \E l \in Links, v \in Replies : Serve(l, v)
    \/ \E m \in owed, v \in Replies : Settle(m, v)

Spec == Init /\ [][Next]_vars
-----------------------------------------------------------------------------
\* The state has its type; in particular no message carries a fence of zero,
\* which relay_get_next_fence() skips when its counter wraps.
TypeOK ==
    /\ last \in [Nodes -> 0..FenceMax]
    /\ pending \subseteq Calls
    /\ pc \in [Calls -> {"idle", "add", "send", "wait", "check", "reinit",
                         "decide", "unlink", "done"}]
    /\ fence \in [Calls -> 0..FenceMax]
    /\ done \in [Calls -> BOOLEAN]
    /\ reply \in [Calls -> Codes]
    /\ buf \in [Calls -> Replies \cup {None}]
    /\ seen \in [Calls -> Codes]
    /\ ret \in [Calls -> {"none", "ok", "error", "empty"}]
    /\ chan \in [Links -> Seq(Messages)]
    /\ owed \subseteq Messages
    /\ putoffs \in 0..MaxPutOff
    /\ served \subseteq Calls \X Replies

\* The entry the reply handler writes to lives on the stack of its call: it is
\* on the list only while relay_send_and_wait() has not returned, whatever the
\* timeout, the late answer and the list lock do in between.
PendingAlive == \A c \in pending : Active(c)

\* No request can be served a second time: once the peer has served a call,
\* no copy of its request is under way or owed a reply.
ServedOnce ==
    \A m \in InFlight \cup owed :
        m.type = "request" => \A v \in Replies : <<m.of, v>> \notin served

\* What the caller gets.  The callers take a reply that is too short for a
\* failure (-EPROTO), a length of 0 always is.
Result(c) == IF pc[c] # "done" THEN None
             ELSE IF ret[c] = "ok" THEN buf[c] ELSE Failed

Call == INSTANCE RelayCall WITH
            asked <- {c \in Calls : pc[c] # "idle"},
            result <- [c \in Calls |-> Result(c)]

\* A call returns the reply its peer gave to that very call, or a failure:
\* losses, late answers, timeouts, resends and fences that come round again
\* included.
Implements == Call!Spec
=============================================================================
