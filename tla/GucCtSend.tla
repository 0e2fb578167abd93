----------------------------- MODULE GucCtSend -----------------------------
(***************************************************************************)
(* The send half of the GuC command transport (gt/uc/intel_guc_ct.c):      *)
(* blocking requests that allocate a fence, wait for room, write the H2G   *)
(* ring and wait for the reply (ct_send), non-blocking requests that only  *)
(* reserve room for the event they will cause (ct_send_nb, called from     *)
(* intel_guc_ct_send_busy_loop), the credits that keep the GuC from        *)
(* running out of G2H space, the wait queue of the senders, and the        *)
(* transport being turned off and on under them.                           *)
(*                                                                         *)
(* Lengths are in units of one H2G message. A request is answered by one   *)
(* response, a non-blocking request by one event. How the G2H ring is read *)
(* message by message is in GucCtRecv; here a reader holds the lock of the *)
(* ring while it handles one message after the other.                      *)
(***************************************************************************)
EXTENDS Integers, Sequences, FiniteSets

CONSTANTS
    Threads,     \* threads that send blocking requests
    Posters,     \* threads in intel_guc_ct_send_busy_loop(loop = true)
    NFences,     \* ARRAY_SIZE(ct->requests.fences)
    Stride,      \* the 17 of ct_get_next_fence()
    Hash,        \* hash_ptr() of a thread's request
    Nobody,      \* no thread, no request
    H2GSpace,    \* CIRC_SPACE() of an empty H2G ring
    G2HSpace,    \* the same for G2H, less resv_space
    MaxLen,      \* GUC_CTB_HXG_MSG_MAX_LEN: room reserved for a response
    EventLen,    \* room reserved for the event of a non-blocking request
    Responses,   \* types of response the GuC may send
    GiveUps,     \* errors that may end a request early
    MaxTx,       \* bound: transmissions of a thread
    MaxPosts,    \* bound: messages of a poster, at most MaxTx
    MaxToggles   \* bound: times the transport is turned off or on

Fences == 0..(NFences - 1)
Senders == Threads \cup Posters

ASSUME SendersAssumption ==
    Threads \cap Posters = {} /\ Nobody \notin Senders
ASSUME FencesAssumption ==
    NFences \in Nat \ {0} /\ Stride \in Nat /\ Hash \in [Threads -> Fences]
ASSUME LengthsAssumption ==
    /\ H2GSpace \in Nat /\ G2HSpace \in Nat
    /\ MaxLen \in Nat \ {0} /\ EventLen \in Nat \ {0}
ASSUME ChoicesAssumption ==
    /\ Responses \subseteq {"SUCCESS", "FAILURE", "RETRY"}
    /\ GiveUps \subseteq {"ERESTARTSYS", "ETIME", "EPIPE"}
ASSUME SendBoundsAssumption ==
    MaxTx \in Nat /\ MaxPosts \in 0..MaxTx /\ MaxToggles \in Nat

VARIABLES
    enabled,     \* ct->enabled
    fences,      \* ct->requests.fences: the thread whose request it names
    h2g,         \* messages written and not yet fetched by the GuC
    h2g_space,   \* ctbs.send.space, a cached lower bound of the free room
    h2g_status,  \* the GuC flagged an error in the H2G descriptor
    g2h_space,   \* ctbs.recv.space: the credits for replies
    wq,          \* ct->wq: exclusive waiters, in order
    wq_nb,       \* ct->wq: the posters waiting there
    at,          \* where each sender is
    rq,          \* each thread's struct ct_request: fence, status and tsk
    err,         \* each thread's local err
    guc,         \* messages the GuC has fetched and not yet answered
    g2h,         \* the G2H ring, oldest first
    guc_irq,     \* a GuC-to-host interrupt is pending
    reader,      \* who reads the G2H ring: nobody, an interrupt or a poller
    found,       \* the response at hand and the request it was matched with
    ntx,         \* transmissions of each sender; also number them
    ntoggles     \* times the transport was turned off or on

chan_vars == <<h2g, h2g_space, h2g_status, guc, g2h, guc_irq>>
wait_vars == <<wq, wq_nb>>
recv_vars == <<reader, found>>
send_vars == <<enabled, fences, chan_vars, g2h_space, wait_vars, at, rq, err,
               recv_vars, ntx, ntoggles>>

NoStatus == [type |-> "none", of |-> <<Nobody, 0>>]

SendInit ==
    /\ enabled = TRUE
    /\ fences = [f \in Fences |-> Nobody]
    /\ h2g = <<>> /\ h2g_space = H2GSpace /\ h2g_status = FALSE
    /\ guc = {} /\ g2h = <<>> /\ guc_irq = FALSE
    /\ g2h_space = G2HSpace
    /\ wq = <<>> /\ wq_nb = {}
    /\ at = [s \in Senders |-> "idle"]
    /\ rq = [t \in Threads |-> [fence |-> 0, status |-> NoStatus,
                                tsk |-> FALSE]]
    /\ err = [t \in Threads |-> "0"]
    /\ reader = "none" /\ found = Nobody
    /\ ntx = [s \in Senders |-> 0] /\ ntoggles = 0

-----------------------------------------------------------------------------
(* Room.                                                                   *)

h2g_has_room == h2g_space >= 1 \/ H2GSpace - Len(h2g) >= 1

\* Mutant: any credit will do.
g2h_has_some_room(len) == g2h_space > 0

g2h_has_room(len) == g2h_space >= len

has_room_nb(len) == h2g_has_room /\ g2h_has_room(len)

\* wake_up(&ct->wq): every poster and the first exclusive waiter.
WakeUp ==
    /\ wq_nb' = {}
    /\ wq' = IF wq = <<>> THEN wq ELSE Tail(wq)

WakeUpAll == wq_nb' = {} /\ wq' = <<>>

Asleep(t) == \E i \in DOMAIN wq : wq[i] = t

\* ct_write() with the lock held, when no error is flagged.
ct_write(s, kind, f) ==
    /\ h2g' = Append(h2g, [from |-> s, tx |-> ntx[s] + 1, kind |-> kind,
                           fence |-> f])
    /\ h2g_space' = H2GSpace - Len(h2g')
    /\ ntx' = [ntx EXCEPT ![s] = @ + 1]

-----------------------------------------------------------------------------
(* ct_send().                                                              *)

\* The slots ct_get_next_fence() tries, in order, and the tries that succeed.
Slot(t, k) == (Hash[t] + k * Stride) % NFences

FreeTries(t) == {k \in Fences : fences[Slot(t, k)] = Nobody}

\* Mutant: the slot is taken without looking whether it is free.
NextFenceTaken(t) == {Slot(t, 0)}

\* ct_get_next_fence(): the first free slot from the hash on, if there is one.
NextFence(t) ==
    {Slot(t, k) : k \in {i \in FreeTries(t) :
                             \A j \in FreeTries(t) : i <= j}}

\* intel_guc_ct_send() without INTEL_GUC_CT_SEND_NB: a disabled transport
\* refuses the request.
SendCheck(t) ==
    /\ at[t] = "idle"
    /\ enabled
    /\ ntx[t] < MaxTx
    /\ at' = [at EXCEPT ![t] = "checked"]
    /\ UNCHANGED <<enabled, fences, chan_vars, g2h_space, wait_vars, rq, err,
                   recv_vars, ntx, ntoggles>>

\* ct_send() up to "resend"; without a free fence it spins.
SendStart(t) ==
    /\ at[t] = "checked"
    /\ \E f \in NextFence(t) :
          /\ fences' = [fences EXCEPT ![f] = t]
          /\ rq' = [rq EXCEPT ![t] = [fence |-> f, status |-> NoStatus,
                                      tsk |-> FALSE]]
    /\ at' = [at EXCEPT ![t] = "resend"]
    /\ UNCHANGED <<enabled, chan_vars, g2h_space, wait_vars, err, recv_vars,
                   ntx, ntoggles>>

\* has_room(), and the sleep on ct->wq when the spin did not help: the waiter
\* puts itself on the queue before it looks for room the last time.
WaitForRoom(t) ==
    /\ at[t] = "resend"
    /\ ~Asleep(t)
    /\ ~has_room_nb(MaxLen)
    /\ wq' = Append(wq, t)
    /\ UNCHANGED <<enabled, fences, chan_vars, g2h_space, wq_nb, at, rq, err,
                   recv_vars, ntx, ntoggles>>

\* A signal ends the sleep; the fence is erased without waking anybody.
RoomSignal(t) ==
    /\ at[t] = "resend"
    /\ "ERESTARTSYS" \in GiveUps
    /\ Asleep(t)
    /\ wq' = SelectSeq(wq, LAMBDA u : u # t)
    /\ err' = [err EXCEPT ![t] = "ERESTARTSYS"]
    /\ at' = [at EXCEPT ![t] = "erase"]
    /\ UNCHANGED <<enabled, fences, chan_vars, g2h_space, wq_nb, rq,
                   recv_vars, ntx, ntoggles>>

\* Under ctbs.send.lock: look for room again, reserve, write.
Write(t) ==
    /\ at[t] = "resend"
    /\ ~Asleep(t)
    /\ has_room_nb(MaxLen)
    /\ ntx[t] < MaxTx
    /\ g2h_space' = g2h_space - MaxLen
    /\ \/ /\ ~h2g_status
          /\ ct_write(t, "REQUEST", rq[t].fence)
          /\ err' = [err EXCEPT ![t] = "0"]
          /\ at' = [at EXCEPT ![t] = "wait"]
       \/ /\ h2g_status
          /\ err' = [err EXCEPT ![t] = "EPIPE"]
          /\ at' = [at EXCEPT ![t] = "release"]
          /\ UNCHANGED <<h2g, h2g_space, ntx>>
    /\ UNCHANGED <<enabled, fences, h2g_status, guc, g2h, guc_irq, wait_vars,
                   rq, recv_vars, ntoggles>>

\* wait_for_ct_request_update(): a response is there.
WaitDone(t) ==
    /\ at[t] = "wait"
    /\ rq[t].status.type # "none"
    /\ rq' = [rq EXCEPT ![t].tsk = FALSE]
    /\ at' = [at EXCEPT ![t] = "release"]
    /\ UNCHANGED <<enabled, fences, chan_vars, g2h_space, wait_vars, err,
                   recv_vars, ntx, ntoggles>>

\* The spin ended: the thread registers itself and goes to sleep.
WaitSleep(t) ==
    /\ at[t] = "wait"
    /\ rq[t].status.type = "none"
    /\ enabled
    /\ rq' = [rq EXCEPT ![t].tsk = TRUE]
    /\ at' = [at EXCEPT ![t] = "asleep"]
    /\ UNCHANGED <<enabled, fences, chan_vars, g2h_space, wait_vars, err,
                   recv_vars, ntx, ntoggles>>

\* The wait ends without a response: the transport is off, a signal came, or
\* the thread slept for 10 seconds.
WaitFails(t) ==
    /\ rq[t].status.type = "none"
    /\ \/ /\ at[t] = "wait"
          /\ ~enabled
          /\ err' = [err EXCEPT ![t] = "ENODEV"]
       \/ /\ \/ at[t] = "asleep" /\ GiveUps \cap {"ETIME", "ERESTARTSYS"} # {}
             \/ at[t] = "wait" /\ enabled /\ "ERESTARTSYS" \in GiveUps
          /\ \E e \in GiveUps \cap {"ETIME", "ERESTARTSYS"} :
                /\ at[t] = "wait" => e = "ERESTARTSYS"
                /\ err' = [err EXCEPT ![t] = IF enabled THEN e ELSE "ENODEV"]
    /\ rq' = [rq EXCEPT ![t].tsk = FALSE]
    /\ at' = [at EXCEPT ![t] = "release"]
    /\ UNCHANGED <<enabled, fences, chan_vars, g2h_space, wait_vars,
                   recv_vars, ntx, ntoggles>>

\* Mutant: a request that failed keeps its credits.
ReleaseOnSuccess(t) ==
    /\ at[t] = "release"
    /\ g2h_space' = IF err[t] = "0" THEN g2h_space + MaxLen ELSE g2h_space
    /\ at' = [at EXCEPT ![t] = "unlink"]
    /\ UNCHANGED <<enabled, fences, chan_vars, wait_vars, rq, err, recv_vars,
                   ntx, ntoggles>>

\* g2h_release_space(), then retry the request, or finish with it.
Release(t) ==
    /\ at[t] = "release"
    /\ g2h_space' = g2h_space + MaxLen
    /\ \/ /\ err[t] = "0" /\ rq[t].status.type = "RETRY"
          /\ at' = [at EXCEPT ![t] = "resend"]
          /\ UNCHANGED err
       \/ /\ ~(err[t] = "0" /\ rq[t].status.type = "RETRY")
          /\ at' = [at EXCEPT ![t] = "unlink"]
          /\ err' = [err EXCEPT ![t] =
                        IF @ = "0" /\ rq[t].status.type = "FAILURE"
                        THEN "EIO" ELSE @]
    /\ UNCHANGED <<enabled, fences, chan_vars, wait_vars, rq, recv_vars, ntx,
                   ntoggles>>

\* Kick the next waiter.
Unlink(t) ==
    /\ at[t] = "unlink"
    /\ WakeUp
    /\ at' = [at EXCEPT ![t] = "erase"]
    /\ UNCHANGED <<enabled, fences, chan_vars, g2h_space, rq, err, recv_vars,
                   ntx, ntoggles>>

Erase(t) ==
    /\ at[t] = "erase"
    /\ fences' = [fences EXCEPT ![rq[t].fence] = Nobody]
    /\ at' = [at EXCEPT ![t] = "idle"]
    /\ UNCHANGED <<enabled, chan_vars, g2h_space, wait_vars, rq, err,
                   recv_vars, ntx, ntoggles>>

-----------------------------------------------------------------------------
(* intel_guc_ct_send_busy_loop() and ct_send_nb().                         *)

PostStart(n) ==
    /\ at[n] = "idle"
    /\ ntx[n] < MaxPosts
    /\ at' = [at EXCEPT ![n] = "retry"]
    /\ UNCHANGED <<enabled, fences, chan_vars, g2h_space, wait_vars, rq, err,
                   recv_vars, ntx, ntoggles>>

\* A disabled transport refuses; without room the poster sleeps on ct->wq,
\* having looked again after it queued itself; with room it takes the lock.
PostCheck(n) ==
    /\ at[n] = "retry"
    /\ n \notin wq_nb
    /\ \/ /\ ~enabled
          /\ at' = [at EXCEPT ![n] = "idle"]
          /\ UNCHANGED wq_nb
       \/ /\ enabled
          /\ has_room_nb(EventLen)
          /\ at' = [at EXCEPT ![n] = "nb_lock"]
          /\ UNCHANGED wq_nb
       \/ /\ enabled
          /\ ~has_room_nb(EventLen)
          /\ wq_nb' = wq_nb \cup {n}
          /\ UNCHANGED at
    /\ UNCHANGED <<enabled, fences, chan_vars, g2h_space, wq, rq, err,
                   recv_vars, ntx, ntoggles>>

\* Under ctbs.send.lock: reserve and write, or give the reservation back.
\* The wait queue is woken either way.
PostLocked(n) ==
    /\ at[n] = "nb_lock"
    /\ \/ /\ has_room_nb(EventLen) /\ ~h2g_status
          /\ g2h_space' = g2h_space - EventLen
          /\ ct_write(n, "FAST_REQUEST", 0)
          /\ at' = [at EXCEPT ![n] = "idle"]
       \/ /\ has_room_nb(EventLen) /\ h2g_status
          /\ at' = [at EXCEPT ![n] = "idle"]
          /\ UNCHANGED <<g2h_space, h2g, h2g_space, ntx>>
       \/ /\ ~has_room_nb(EventLen)
          /\ at' = [at EXCEPT ![n] = "retry"]
          /\ UNCHANGED <<g2h_space, h2g, h2g_space, ntx>>
    /\ WakeUp
    /\ UNCHANGED <<enabled, fences, h2g_status, guc, g2h, guc_irq, rq, err,
                   recv_vars, ntoggles>>

-----------------------------------------------------------------------------
(* The GuC.                                                                *)

GucFetch ==
    /\ h2g # <<>>
    /\ guc' = guc \cup {Head(h2g)}
    /\ h2g' = Tail(h2g)
    /\ UNCHANGED <<enabled, fences, h2g_space, h2g_status, g2h, guc_irq,
                   g2h_space, wait_vars, at, rq, err, recv_vars, ntx,
                   ntoggles>>

\* Requests are answered in any order.
GucReply ==
    /\ \E m \in guc :
          /\ guc' = guc \ {m}
          /\ \E r \in Responses \cup {"EVENT"} :
                /\ (r = "EVENT") = (m.kind = "FAST_REQUEST")
                /\ g2h' = Append(g2h, [type |-> r, fence |-> m.fence,
                                       of |-> <<m.from, m.tx>>])
    /\ guc_irq' = TRUE
    /\ UNCHANGED <<enabled, fences, h2g, h2g_space, h2g_status, g2h_space,
                   wait_vars, at, rq, err, recv_vars, ntx, ntoggles>>

\* The GuC finds the H2G ring corrupt.
GucError ==
    /\ "EPIPE" \in GiveUps
    /\ ~h2g_status
    /\ h2g_status' = TRUE
    /\ UNCHANGED <<enabled, fences, h2g, h2g_space, guc, g2h, guc_irq,
                   g2h_space, wait_vars, at, rq, err, recv_vars, ntx,
                   ntoggles>>

-----------------------------------------------------------------------------
(* Reading the G2H ring.                                                   *)

\* intel_guc_ct_event_handler(): a handler that finds nothing to read, or the
\* ring locked by a poller, goes straight to wake_up().
Interrupt ==
    /\ guc_irq
    /\ reader # "irq"
    /\ guc_irq' = FALSE
    /\ \/ /\ reader = "none" /\ g2h # <<>>
          /\ reader' = "irq"
          /\ UNCHANGED wait_vars
       \/ /\ ~(reader = "none" /\ g2h # <<>>)
          /\ WakeUp
          /\ UNCHANGED reader
    /\ UNCHANGED <<enabled, fences, h2g, h2g_space, h2g_status, guc, g2h,
                   g2h_space, at, rq, err, found, ntx, ntoggles>>

\* Any thread that waits, for a response, for room or for a TLB invalidation,
\* and the deferred worker call intel_guc_ct_receive().
PollReceive ==
    /\ reader = "none"
    /\ g2h # <<>>
    /\ reader' = "poll"
    /\ UNCHANGED <<enabled, fences, chan_vars, g2h_space, wait_vars, at, rq,
                   err, found, ntx, ntoggles>>

\* ct_handle_event() returns the credit in the reader's context;
\* ct_handle_response() looks the request up.
HandleMsg ==
    /\ reader # "none"
    /\ found = Nobody
    /\ g2h # <<>>
    /\ g2h' = Tail(g2h)
    /\ LET m == Head(g2h)
       IN  IF m.type = "EVENT"
           THEN g2h_space' = g2h_space + EventLen /\ UNCHANGED found
           ELSE /\ found' = IF fences[m.fence] = Nobody THEN Nobody
                            ELSE [to |-> fences[m.fence], type |-> m.type,
                                  of |-> m.of]
                /\ UNCHANGED g2h_space
    /\ UNCHANGED <<enabled, fences, h2g, h2g_space, h2g_status, guc, guc_irq,
                   wait_vars, at, rq, err, reader, ntx, ntoggles>>

\* Mutant: the owner of the request is not woken.
DeliverSilently ==
    /\ found # Nobody
    /\ rq' = [rq EXCEPT ![found.to].status = [type |-> found.type,
                                              of |-> found.of]]
    /\ found' = Nobody
    /\ UNCHANGED <<enabled, fences, chan_vars, g2h_space, wait_vars, at, err,
                   reader, ntx, ntoggles>>

\* The rest of ct_handle_response(), on the pointer it found.
Deliver ==
    /\ found # Nobody
    /\ LET t == found.to
       IN  /\ rq' = [rq EXCEPT ![t].status = [type |-> found.type,
                                              of |-> found.of]]
           /\ at' = IF rq[t].tsk /\ at[t] = "asleep"
                    THEN [at EXCEPT ![t] = "wait"] ELSE at
    /\ found' = Nobody
    /\ UNCHANGED <<enabled, fences, chan_vars, g2h_space, wait_vars, err,
                   reader, ntx, ntoggles>>

\* The reader leaves; an interrupt handler then wakes the senders.
ReadEnd ==
    /\ reader # "none"
    /\ found = Nobody
    /\ g2h = <<>>
    /\ reader' = "none"
    /\ IF reader = "irq" THEN WakeUp ELSE UNCHANGED wait_vars
    /\ UNCHANGED <<enabled, fences, chan_vars, g2h_space, at, rq, err, found,
                   ntx, ntoggles>>

-----------------------------------------------------------------------------
(* Turning the transport off and on.                                       *)

\* intel_guc_ct_disable(): wakes the owner of every fence.
Disable ==
    /\ enabled
    /\ ntoggles < MaxToggles
    /\ enabled' = FALSE
    /\ at' = [s \in Senders |-> IF at[s] = "asleep" THEN "wait" ELSE at[s]]
    /\ WakeUpAll
    /\ ntoggles' = ntoggles + 1
    /\ UNCHANGED <<fences, chan_vars, g2h_space, rq, err, recv_vars, ntx>>

\* intel_guc_ct_sanitize(), on the way to a reset: wakes ct->wq only.
Sanitize ==
    /\ enabled
    /\ ntoggles < MaxToggles
    /\ enabled' = FALSE
    /\ WakeUpAll
    /\ ntoggles' = ntoggles + 1
    /\ UNCHANGED <<fences, chan_vars, g2h_space, at, rq, err, recv_vars, ntx>>

\* intel_guc_ct_enable(): both buffers are reset and a fresh GuC started, once
\* intel_guc_ct_reset() has waited for the readers.
Enable ==
    /\ ~enabled
    /\ reader = "none"
    /\ ntoggles < MaxToggles
    /\ enabled' = TRUE
    /\ h2g' = <<>> /\ h2g_space' = H2GSpace /\ h2g_status' = FALSE
    /\ g2h' = <<>> /\ g2h_space' = G2HSpace /\ guc' = {}
    /\ ntoggles' = ntoggles + 1
    /\ UNCHANGED <<fences, guc_irq, wait_vars, at, rq, err, recv_vars, ntx>>

-----------------------------------------------------------------------------
Send(t) ==
    \/ SendCheck(t) \/ SendStart(t) \/ WaitForRoom(t) \/ RoomSignal(t)
    \/ Write(t) \/ WaitDone(t) \/ WaitSleep(t) \/ WaitFails(t) \/ Release(t)
    \/ Unlink(t) \/ Erase(t)

Post(n) == PostStart(n) \/ PostCheck(n) \/ PostLocked(n)

Read == HandleMsg \/ Deliver \/ ReadEnd

SendNext ==
    \/ \E t \in Threads : Send(t)
    \/ \E n \in Posters : Post(n)
    \/ GucFetch \/ GucReply \/ GucError
    \/ Interrupt \/ PollReceive \/ Read
    \/ Disable \/ Sanitize \/ Enable

SendSpec == SendInit /\ [][SendNext]_send_vars

(* A sender that is not asleep keeps running, the GuC fetches and answers    *)
(* what it is sent, interrupts are delivered and a reader finishes. Nobody   *)
(* is obliged to start a request or to poll.                                 *)
SendFairness ==
    /\ \A t \in Threads :
          /\ WF_send_vars(SendStart(t) \/ WaitForRoom(t) \/ Write(t))
          /\ WF_send_vars(WaitDone(t) \/ WaitSleep(t))
          /\ WF_send_vars(Release(t) \/ Unlink(t) \/ Erase(t))
    /\ \A n \in Posters : WF_send_vars(PostCheck(n) \/ PostLocked(n))
    /\ WF_send_vars(GucFetch) /\ WF_send_vars(GucReply)
    /\ WF_send_vars(Interrupt) /\ WF_send_vars(Read)

SendFairSpec == SendSpec /\ SendFairness

-----------------------------------------------------------------------------
(* Properties.                                                             *)

Message == [from : Senders, tx : 1..MaxTx, kind : {"REQUEST", "FAST_REQUEST"},
            fence : Fences]
Status == [type : {"none", "SUCCESS", "FAILURE", "RETRY"},
           of : (Senders \cup {Nobody}) \X (0..MaxTx)]

\* Every variable of the send path keeps its type; in particular the number
\* of free credits never becomes negative, as g2h_reserve_space() asserts.
SendTypeOK ==
    /\ enabled \in BOOLEAN /\ fences \in [Fences -> Threads \cup {Nobody}]
    /\ h2g \in Seq(Message) /\ h2g_space \in 0..H2GSpace
    /\ h2g_status \in BOOLEAN /\ guc \subseteq Message /\ guc_irq \in BOOLEAN
    /\ g2h_space \in Nat
    /\ wq_nb \subseteq Posters /\ wq \in Seq(Threads)
    /\ at \in [Senders -> {"idle", "checked", "resend", "wait", "asleep",
                           "release", "unlink", "erase", "retry", "nb_lock"}]
    /\ rq \in [Threads -> [fence : Fences, status : Status, tsk : BOOLEAN]]
    /\ err \in [Threads -> {"0", "EPIPE", "ENODEV", "ETIME", "ERESTARTSYS",
                            "EIO"}]
    /\ reader \in {"none", "irq", "poll"}
    /\ ntx \in [Senders -> 0..MaxTx] /\ ntoggles \in 0..MaxToggles

Linked(t) == at[t] \notin {"idle", "checked"}

Holding == {t \in Threads : at[t] \in {"wait", "asleep", "release"}}

Events(s) == {i \in DOMAIN s : s[i].of[1] \in Posters}

EventsOwed ==
    Cardinality({i \in DOMAIN h2g : h2g[i].kind = "FAST_REQUEST"})
    + Cardinality({m \in guc : m.kind = "FAST_REQUEST"})

\* Credits are neither lost nor invented: what is missing from
\* ctbs.recv.space is what requests in flight and events still to be read
\* have reserved, however requests end and also while the transport is
\* being turned off. Enabling it again starts a new account. The cached space
\* of the H2G ring in turn never promises more than there is, so a write never
\* overruns messages the GuC has not fetched.
RoomTrue ==
    /\ ntoggles < 2 =>
          g2h_space + MaxLen * Cardinality(Holding)
              + EventLen * (EventsOwed + Cardinality(Events(g2h))) = G2HSpace
    /\ h2g_space <= H2GSpace - Len(h2g)

\* What the GuC has written or still owes fits in the part of the G2H ring
\* that is not set aside for unexpected messages.
ReserveKept ==
    LET requests == {i \in DOMAIN h2g : h2g[i].kind = "REQUEST"}
        responses == DOMAIN g2h \ Events(g2h)
    IN  MaxLen * (Cardinality(requests) + Cardinality(responses)
                  + Cardinality({m \in guc : m.kind = "REQUEST"}))
        + EventLen * (EventsOwed + Cardinality(Events(g2h))) <= G2HSpace

\* The local copy of the G2H space never exceeds the space of the ring.
SpaceBounded == g2h_space <= G2HSpace

\* Answers find their requests: every request in flight owns the fence it was
\* given, so no two share one; ct_handle_response() writes only into a request
\* that is still in flight; and when a wait ends with success, the status is
\* that of a response to this very transmission of the request.
ResponseMatches ==
    /\ SendTypeOK
    /\ \A t \in Threads : Linked(t) => fences[rq[t].fence] = t
    /\ found # Nobody => Linked(found.to)
    /\ \A t \in Threads :
          at[t] = "release" /\ err[t] = "0" => rq[t].status.of = <<t, ntx[t]>>

\* ct_send() is only entered with the transport enabled.
EnabledOnEntry == \A t \in Threads : at[t] = "checked" => enabled

\* Every request that was written is eventually answered and returns, whoever
\* reads the answer: none of the senders stays in its wait or behind it.
RequestReturns ==
    <>[](\A t \in Threads :
             at[t] \notin {"wait", "asleep", "release", "unlink", "erase"})

\* A sender that waits for room eventually gets it.
RoomFound == \A t \in Threads : at[t] = "resend" ~> at[t] # "resend"

=============================================================================
