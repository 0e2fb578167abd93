-------------------------- MODULE GucCtSendProofs ---------------------------
(***************************************************************************)
(* Proofs about the send path of the GuC command transport, for any number *)
(* of threads and posters, any table of fences and any lengths: the        *)
(* account of the G2H credits, that an answer finds the request it         *)
(* answers, and that what the GuC owes fits in the ring.                   *)
(*                                                                         *)
(* RoomIInv holds whatever goes wrong.  CalmIInv adds where a request in   *)
(* flight is, which holds as long as none is abandoned.                    *)
(***************************************************************************)
EXTENDS GucCtSend, FiniteSetTheorems, TLAPS

-----------------------------------------------------------------------------
(* Counting.                                                               *)

Marked(s, P) == {i \in 1..Len(s) : s[i] \in P}

Unit(b) == IF b THEN 1 ELSE 0

\* A set of entries of a sequence is finite.
LEMMA MarkedFinite ==
    ASSUME NEW S, NEW P, NEW s \in Seq(S)
    PROVE  IsFiniteSet(Marked(s, P)) /\ Cardinality(Marked(s, P)) \in Nat
<1>1. Len(s) \in Nat
  OBVIOUS
<1>2. IsFiniteSet(1..Len(s))
  BY <1>1, FS_Interval
<1>3. Marked(s, P) \in SUBSET (1..Len(s))
  BY DEF Marked
<1>4. IsFiniteSet(Marked(s, P))
  BY <1>2, <1>3, FS_Subset, Zenon
<1> QED BY <1>4, FS_CardinalityType, Zenon

\* The empty sequence has no entries.
LEMMA MarkedEmpty ==
    ASSUME NEW P PROVE Cardinality(Marked(<<>>, P)) = 0
<1>1. Marked(<<>>, P) = {}
  BY DEF Marked
<1> QED BY <1>1, FS_EmptySet, Zenon

\* Adding an entry counts it.
LEMMA MarkedAppend ==
    ASSUME NEW S, NEW P, NEW s \in Seq(S), NEW e \in S
    PROVE  Cardinality(Marked(Append(s, e), P))
              = Cardinality(Marked(s, P)) + Unit(e \in P)
<1>0. /\ Len(s) \in Nat /\ Len(Append(s, e)) = Len(s) + 1
      /\ Append(s, e)[Len(s) + 1] = e
      /\ \A i \in 1..Len(s) : Append(s, e)[i] = s[i]
  OBVIOUS
<1>1. IsFiniteSet(Marked(s, P)) /\ Cardinality(Marked(s, P)) \in Nat
  BY MarkedFinite, Zenon
<1>2. \A i : i \in 1..(Len(s) + 1) <=> i \in 1..Len(s) \/ i = Len(s) + 1
  BY <1>0
<1>3. Len(s) + 1 \notin 1..Len(s)
  BY <1>0
<1>4. CASE e \in P
  <2>1. Marked(Append(s, e), P) = Marked(s, P) \cup {Len(s) + 1}
    BY <1>0, <1>2, <1>4, Zenon DEF Marked
  <2>2. Len(s) + 1 \notin Marked(s, P)
    BY <1>3, Zenon DEF Marked
  <2>3. Cardinality(Marked(s, P) \cup {Len(s) + 1}) = Cardinality(Marked(s, P)) + 1
    BY <1>1, <2>2, FS_AddElement, Zenon
  <2> QED BY <1>4, <2>1, <2>3, Zenon DEF Unit
<1>5. CASE e \notin P
  <2>1. Marked(Append(s, e), P) = Marked(s, P)
    BY <1>0, <1>2, <1>3, <1>5, Zenon DEF Marked
  <2>2. Unit(e \in P) = 0
    BY <1>5, Zenon DEF Unit
  <2> QED BY <1>1, <2>1, <2>2
<1> QED BY <1>4, <1>5, Zenon

\* Taking the first entry uncounts it.
LEMMA MarkedTail ==
    ASSUME NEW S, NEW P, NEW s \in Seq(S), s # <<>>
    PROVE  Cardinality(Marked(s, P))
              = Cardinality(Marked(Tail(s), P)) + Unit(Head(s) \in P)
<1> DEFINE A == Marked(s, P)
           B == Marked(Tail(s), P)
           f == [i \in B |-> i + 1]
<1>0. /\ Len(s) \in Nat /\ Len(s) # 0 /\ Len(Tail(s)) = Len(s) - 1 /\ Head(s) = s[1]
      /\ Tail(s) \in Seq(S)
      /\ \A i \in 1..(Len(s) - 1) : Tail(s)[i] = s[i + 1]
  OBVIOUS
<1>1. /\ IsFiniteSet(A) /\ Cardinality(A) \in Nat
      /\ IsFiniteSet(B) /\ Cardinality(B) \in Nat
  BY <1>0, MarkedFinite, Zenon
<1>2. ASSUME NEW i \in B PROVE i \in Nat /\ i + 1 \in A \ {1}
  <2>1. i \in 1..(Len(s) - 1) /\ Tail(s)[i] \in P
    BY <1>0, <1>2, Zenon DEF Marked
  <2>2. i \in Nat /\ i + 1 \in 1..Len(s) /\ i + 1 # 1
    BY <1>0, <2>1
  <2> QED BY <1>0, <2>1, <2>2, Zenon DEF Marked
<1>3. ASSUME NEW j \in A \ {1} PROVE \E i \in B : i + 1 = j
  <2>1. j \in 1..Len(s) /\ s[j] \in P /\ j # 1
    BY <1>3, Zenon DEF Marked
  <2>2. j - 1 \in 1..(Len(s) - 1) /\ (j - 1) + 1 = j
    BY <1>0, <2>1
  <2>3. j - 1 \in B
    BY <1>0, <2>1, <2>2, Zenon DEF Marked
  <2> QED BY <2>2, <2>3, Zenon
<1> HIDE DEF A, B
<1>4. f \in Bijection(B, A \ {1})
  <2>1. f \in [B -> A \ {1}]
    BY <1>2, Zenon
  <2>2. \A i, j \in B : f[i] = f[j] => i = j
    BY <1>2
  <2>3. \A j \in A \ {1} : \E i \in B : f[i] = j
    BY <1>3, Zenon
  <2> QED BY <2>1, <2>2, <2>3, Zenon DEF Bijection, Injection, Surjection, IsInjective
<1>5. IsFiniteSet(A \ {1})
        /\ Cardinality(A \ {1}) = IF 1 \in A THEN Cardinality(A) - 1 ELSE Cardinality(A)
  BY <1>1, FS_RemoveElement, Zenon
<1>6. Cardinality(B) = Cardinality(A \ {1})
  BY <1>1, <1>4, <1>5, FS_Bijection, Zenon DEF ExistsBijection
<1>7. 1 \in A <=> Head(s) \in P
  BY <1>0 DEF A, Marked
<1>8. Cardinality(A) = Cardinality(B) + Unit(Head(s) \in P)
  <2>1. CASE Head(s) \in P
    BY <1>1, <1>5, <1>6, <1>7, <2>1 DEF Unit
  <2>2. CASE Head(s) \notin P
    BY <1>1, <1>5, <1>6, <1>7, <2>2 DEF Unit
  <2> QED BY <2>1, <2>2, Zenon
<1> QED BY <1>8, Zenon DEF A, B

\* The same for the part of a finite set in P.
LEMMA PartFinite ==
    ASSUME NEW S, NEW P, IsFiniteSet(S)
    PROVE  IsFiniteSet(S \cap P) /\ Cardinality(S \cap P) \in Nat
<1>1. IsFiniteSet(S \cap P)
  BY FS_Subset, S \cap P \in SUBSET S
<1> QED BY <1>1, FS_CardinalityType, Zenon

\* Counting a part of a set when a member is added,
LEMMA PartAdd ==
    ASSUME NEW S, NEW P, IsFiniteSet(S), NEW x, x \notin S
    PROVE  Cardinality((S \cup {x}) \cap P) = Cardinality(S \cap P) + Unit(x \in P)
<1>1. IsFiniteSet(S \cap P) /\ Cardinality(S \cap P) \in Nat
  BY PartFinite, Zenon
<1>2. CASE x \in P
  <2>1. (S \cup {x}) \cap P = (S \cap P) \cup {x} /\ x \notin S \cap P
    BY <1>2, Zenon
  <2> QED BY <1>1, <1>2, <2>1, FS_AddElement, Zenon DEF Unit
<1>3. CASE x \notin P
  <2>1. (S \cup {x}) \cap P = S \cap P
    BY <1>3, Zenon
  <2>2. Unit(x \in P) = 0
    BY <1>3, Zenon DEF Unit
  <2>3. PICK c \in Nat : c = Cardinality(S \cap P)
    BY <1>1, Zenon
  <2>4. c + 0 = c
    OBVIOUS
  <2> QED BY <2>1, <2>2, <2>3, <2>4, Zenon
<1> QED BY <1>2, <1>3, Zenon

\* ... and when one is taken away.
LEMMA PartRemove ==
    ASSUME NEW S, NEW P, IsFiniteSet(S), NEW x \in S
    PROVE  Cardinality(S \cap P) = Cardinality((S \ {x}) \cap P) + Unit(x \in P)
<1>1. IsFiniteSet(S \ {x})
  BY FS_RemoveElement, Zenon
<1>2. (S \ {x}) \cup {x} = S /\ x \notin S \ {x}
  BY Zenon
<1> QED BY <1>1, <1>2, PartAdd, Zenon


\* The slot that ct_get_next_fence() takes is one of the table and free.
LEMMA SlotInRange ==
    ASSUME NEW t \in Threads, NEW f \in NextFence(t)
    PROVE  f \in Fences /\ fences[f] = Nobody
<1>0. NFences \in Nat /\ NFences # 0 /\ Stride \in Nat /\ Hash[t] \in 0..(NFences - 1)
  BY FencesAssumption DEF Fences
<1>1. PICK k \in Fences : f = Slot(t, k) /\ fences[Slot(t, k)] = Nobody
  BY Zenon DEF NextFence, FreeTries
<1>2. Slot(t, k) \in Fences
  <2>1. k \in Nat
    BY <1>0 DEF Fences
  <2>2. k * Stride \in Nat
    BY <1>0, <2>1
  <2>3. Hash[t] + k * Stride \in Nat
    BY <1>0, <2>2
  <2>4. \A a \in Nat : a % NFences \in 0..(NFences - 1)
    BY <1>0
  <2> QED BY <2>3, <2>4, Zenon DEF Slot, Fences
<1> QED BY <1>1, <1>2, Zenon

-----------------------------------------------------------------------------
(* The types of the send path.                                             *)

Places == {"idle", "checked", "resend", "wait", "asleep", "release", "unlink",
           "erase", "retry", "nb_lock"}

Request == [fence : Fences, status : Status, tsk : BOOLEAN]
Errors == {"0", "EPIPE", "ENODEV", "ETIME", "ERESTARTSYS", "EIO"}
Answer == [type : Responses \cup {"EVENT"}, fence : Fences,
           of : Senders \X (1..MaxTx)]
Match == [to : Threads, type : Responses, of : Senders \X (1..MaxTx)]

\* A poster in its loop has a message left.
AtOK ==
    /\ at \in [Senders -> Places] /\ ntx \in [Senders -> 0..MaxTx]
    /\ \A n \in Posters : at[n] \in {"retry", "nb_lock"} => ntx[n] < MaxPosts

RqOK ==
    /\ rq \in [Threads -> Request] /\ err \in [Threads -> Errors]
    /\ found # Nobody => found \in Match

\* The cached space never promises more than there is.
ChanOK ==
    /\ h2g \in Seq(Message) /\ guc \subseteq Message /\ g2h \in Seq(Answer)
    /\ h2g_space \in 0..H2GSpace /\ h2g_space <= H2GSpace - Len(h2g)
    /\ g2h_space \in Nat

MiscOK ==
    /\ enabled \in BOOLEAN /\ h2g_status \in BOOLEAN /\ guc_irq \in BOOLEAN
    /\ fences \in [Fences -> Threads \cup {Nobody}]
    /\ wq_nb \subseteq Posters /\ reader \in {"none", "irq", "poll"}
    /\ ntoggles \in 0..MaxToggles

SendTypes == AtOK /\ RqOK /\ ChanOK /\ MiscOK

\* The steps of a thread, of a poster and of the rest that only move them.
LEMMA SendInitTypes == SendInit => SendTypes
<1> SUFFICES ASSUME SendInit PROVE SendTypes
  BY Zenon
<1>1. AtOK
  <2>1. 0 \in 0..MaxTx
    BY SendBoundsAssumption
  <2>2. at \in [Senders -> Places] /\ ntx \in [Senders -> 0..MaxTx]
    BY <2>1, Zenon DEF SendInit, Places
  <2>3. \A n \in Posters : at[n] = "idle"
    BY Zenon DEF SendInit, Senders
  <2>4. \A n \in Posters : at[n] \notin {"retry", "nb_lock"}
    BY <2>3, Zenon
  <2> QED BY <2>2, <2>4, Zenon DEF AtOK
<1>2. RqOK
  <2>1. 0 \in Fences /\ 0 \in 0..MaxTx
    BY FencesAssumption, SendBoundsAssumption DEF Fences
  <2>2. NoStatus \in Status
    BY <2>1 DEF NoStatus, Status
  <2>3. [fence |-> 0, status |-> NoStatus, tsk |-> FALSE] \in Request
    BY <2>1, <2>2 DEF Request
  <2> QED BY <2>3, Zenon DEF SendInit, RqOK, Errors
<1>3. ChanOK
  <2>1. h2g = <<>> /\ g2h = <<>> /\ guc = {} /\ h2g_space = H2GSpace /\ g2h_space = G2HSpace
    BY Zenon DEF SendInit
  <2> QED BY <2>1, LengthsAssumption DEF ChanOK
<1>4. MiscOK
  <2>1. 0 \in 0..MaxToggles
    BY SendBoundsAssumption
  <2>2. wq_nb = {}
    BY Zenon DEF SendInit
  <2>3. wq_nb \subseteq Posters
    BY <2>2
  <2> QED BY <2>1, <2>3, Zenon DEF SendInit, MiscOK
<1> QED BY <1>1, <1>2, <1>3, <1>4, Zenon DEF SendTypes

\* Where the senders may go, and how many messages they have sent.
LEMMA AtStep ==
    ASSUME AtOK, [SendNext]_send_vars
    PROVE  AtOK'
<1>0. /\ at \in [Senders -> Places] /\ ntx \in [Senders -> 0..MaxTx]
      /\ Threads \subseteq Senders /\ Posters \subseteq Senders
      /\ \A t \in Threads : t \notin Posters
  BY SendersAssumption, Zenon DEF AtOK, Senders
<1>1. ASSUME NEW t \in Threads, NEW x \in Places, at' = [at EXCEPT ![t] = x], ntx' = ntx
      PROVE  AtOK'
  <2>1. at' \in [Senders -> Places]
    BY <1>0, <1>1, Zenon
  <2>2. \A n \in Posters : at'[n] = at[n]
    BY <1>0, <1>1, Zenon
  <2> QED BY <1>1, <2>1, <2>2, Zenon DEF AtOK
<1>2. ASSUME NEW s \in Senders, ntx[s] < MaxTx, ntx' = [ntx EXCEPT ![s] = @ + 1]
      PROVE  ntx' \in [Senders -> 0..MaxTx]
  <2>1. ntx[s] + 1 \in 0..MaxTx
    <3>1. ntx[s] \in 0..MaxTx
      BY <1>0, Zenon
    <3> QED BY <1>2, <3>1, SendBoundsAssumption
  <2> QED BY <1>0, <1>2, <2>1, Zenon
<1>3. ASSUME NEW t \in Threads, Write(t) PROVE AtOK'
  <2>1. CASE h2g_status
    <3>1. at' = [at EXCEPT ![t] = "release"] /\ ntx' = ntx
      BY <1>3, <2>1, Zenon DEF Write
    <3> QED BY <1>1, <3>1, Zenon DEF Places
  <2>2. CASE ~h2g_status
    <3>1. /\ at' = [at EXCEPT ![t] = "wait"] /\ ntx' = [ntx EXCEPT ![t] = @ + 1]
          /\ ntx[t] < MaxTx
      BY <1>3, <2>2, Zenon DEF Write, ct_write
    <3>2. ntx' \in [Senders -> 0..MaxTx]
      BY <1>0, <1>2, <3>1, Zenon
    <3>3. at' \in [Senders -> Places]
      BY <1>0, <3>1, Zenon DEF Places
    <3>4. \A n \in Posters : at'[n] = at[n] /\ ntx'[n] = ntx[n]
      BY <1>0, <3>1, Zenon
    <3> QED BY <3>2, <3>3, <3>4, Zenon DEF AtOK
  <2> QED BY <2>1, <2>2, Zenon
<1>4. ASSUME NEW t \in Threads, Send(t), ~Write(t) PROVE AtOK'
  <2>1. ntx' = ntx
    BY <1>4, Zenon DEF Send, SendCheck, SendStart, WaitForRoom, RoomSignal, WaitDone,
                       WaitSleep, WaitFails, Release, Unlink, Erase
  <2>2. at' = at \/ \E x \in Places : at' = [at EXCEPT ![t] = x]
    BY <1>4, Zenon DEF Send, SendCheck, SendStart, WaitForRoom, RoomSignal, WaitDone,
                       WaitSleep, WaitFails, Release, Unlink, Erase, Places
  <2>3. CASE at' = at
    BY <2>1, <2>3, Zenon DEF AtOK
  <2> QED BY <1>1, <2>1, <2>2, <2>3, Zenon
<1>5. ASSUME NEW n \in Posters, Post(n) PROVE AtOK'
  <2>1. ASSUME NEW x \in Places, at' = [at EXCEPT ![n] = x], ntx' = ntx,
               x \in {"retry", "nb_lock"} => ntx[n] < MaxPosts
        PROVE  AtOK'
    <3>1. at' \in [Senders -> Places]
      BY <1>0, <2>1, Zenon
    <3>2. \A u \in Posters : u # n => at'[u] = at[u]
      BY <1>0, <2>1, Zenon
    <3>3. at'[n] = x
      BY <1>0, <2>1, Zenon
    <3> QED BY <2>1, <3>1, <3>2, <3>3, Zenon DEF AtOK
  <2>2. CASE PostStart(n)
    BY <2>1, <2>2, Zenon DEF PostStart, Places
  <2>3. CASE PostCheck(n)
    <3>1. ntx' = ntx /\ ntx[n] < MaxPosts
      BY <2>3, Zenon DEF PostCheck, AtOK
    <3>2. at' = at \/ at' = [at EXCEPT ![n] = "idle"] \/ at' = [at EXCEPT ![n] = "nb_lock"]
      BY <2>3, Zenon DEF PostCheck
    <3>3. CASE at' = at
      BY <3>1, <3>3, Zenon DEF AtOK
    <3> QED BY <2>1, <3>1, <3>2, <3>3, Zenon DEF Places
  <2>4. CASE PostLocked(n)
    <3>1. ntx[n] < MaxPosts
      BY <2>4, Zenon DEF PostLocked, AtOK
    <3>2. CASE ntx' = ntx
      BY <2>1, <2>4, <3>1, <3>2, Zenon DEF PostLocked, Places
    <3>3. CASE ntx' # ntx
      <4>1. ntx' = [ntx EXCEPT ![n] = @ + 1] /\ at' = [at EXCEPT ![n] = "idle"]
        BY <2>4, <3>3, Zenon DEF PostLocked, ct_write
      <4>2. ntx[n] < MaxTx
        <5>1. ntx[n] \in 0..MaxTx
          BY <1>0, Zenon
        <5> QED BY <3>1, <5>1, SendBoundsAssumption
      <4>3. ntx' \in [Senders -> 0..MaxTx]
        BY <1>0, <1>2, <4>1, <4>2, Zenon
      <4>4. at' \in [Senders -> Places]
        BY <1>0, <4>1, Zenon DEF Places
      <4>5. \A u \in Posters : u # n => at'[u] = at[u] /\ ntx'[u] = ntx[u]
        BY <1>0, <4>1, Zenon
      <4>6. at'[n] = "idle"
        BY <1>0, <4>1, Zenon
      <4>7. \A u \in Posters : at'[u] \in {"retry", "nb_lock"} => ntx'[u] < MaxPosts
        BY <4>5, <4>6, Zenon DEF AtOK
      <4> QED BY <4>3, <4>4, <4>7, Zenon DEF AtOK
    <3> QED BY <3>2, <3>3, Zenon
  <2> QED BY <1>5, <2>2, <2>3, <2>4, Zenon DEF Post
<1>6. CASE UNCHANGED <<at, ntx>>
  BY <1>6, Zenon DEF AtOK
<1>7. CASE GucFetch \/ GucReply \/ GucError \/ Interrupt \/ PollReceive \/ HandleMsg \/ ReadEnd
           \/ Sanitize \/ Enable
  BY <1>6, <1>7, Zenon DEF GucFetch, GucReply, GucError, Interrupt, PollReceive, HandleMsg,
                           ReadEnd, Sanitize, Enable
<1>8. ASSUME ntx' = ntx, at' \in [Senders -> Places],
             \A n \in Posters : at[n] # "asleep" => at'[n] = at[n],
             \A n \in Posters : at[n] = "asleep" => at'[n] \in {"asleep", "wait"}
      PROVE  AtOK'
  <2>1. \A n \in Posters : at'[n] \in {"retry", "nb_lock"} => at'[n] = at[n]
    BY <1>8, Zenon
  <2> QED BY <1>8, <2>1, Zenon DEF AtOK
<1>9. CASE Deliver
  <2>1. ntx' = ntx /\ (at' = at \/ at' = [at EXCEPT ![found.to] = "wait"])
    BY <1>9, Zenon DEF Deliver
  <2>2. at' # at => at[found.to] = "asleep"
    BY <1>9, Zenon DEF Deliver
  <2>3. CASE at' = at
    BY <1>6, <2>1, <2>3, Zenon
  <2>4. CASE at' # at
    <3>1. at' \in [Senders -> Places]
      BY <1>0, <2>1, <2>4, Zenon DEF Places
    <3>2. \A n \in Posters : n # found.to => at'[n] = at[n]
      BY <1>0, <2>1, <2>4, Zenon
    <3>3. \A n \in Posters : n = found.to => at'[n] = "wait"
      BY <1>0, <2>1, <2>4, Zenon
    <3> QED BY <1>8, <2>1, <2>2, <2>4, <3>1, <3>2, <3>3, Zenon
  <2> QED BY <2>3, <2>4, Zenon
<1>10. CASE Disable
  <2>1. /\ ntx' = ntx
        /\ at' = [s \in Senders |-> IF at[s] = "asleep" THEN "wait" ELSE at[s]]
    BY <1>10, Zenon DEF Disable
  <2>2. \A s \in Senders : (IF at[s] = "asleep" THEN "wait" ELSE at[s]) \in Places
    BY <1>0, Zenon DEF Places
  <2>3. at' \in [Senders -> Places]
    BY <2>1, <2>2, Zenon
  <2> QED BY <1>0, <1>8, <2>1, <2>3, Zenon
<1>11. CASE UNCHANGED send_vars
  BY <1>6, <1>11, Zenon DEF send_vars
<1> QED BY <1>3, <1>4, <1>5, <1>7, <1>9, <1>10, <1>11, Zenon DEF SendNext, Read

\* What the requests and the answer at hand are.
LEMMA RqStep ==
    ASSUME SendTypes, [SendNext]_send_vars
    PROVE  RqOK'
<1>0. /\ rq \in [Threads -> Request] /\ err \in [Threads -> Errors]
      /\ found # Nobody => found \in Match
  BY Zenon DEF SendTypes, RqOK
<1>1. CASE UNCHANGED <<rq, err, found>>
  BY <1>0, <1>1, Zenon DEF RqOK
<1>2. ASSUME NEW t \in Threads, NEW r \in Request, rq' = [rq EXCEPT ![t] = r], found' = found,
             err' \in [Threads -> Errors]
      PROVE  RqOK'
  <2>1. rq' \in [Threads -> Request]
    BY <1>0, <1>2, Zenon
  <2> QED BY <1>0, <1>2, <2>1, Zenon DEF RqOK
<1>3. ASSUME NEW t \in Threads, NEW b \in BOOLEAN, rq' = [rq EXCEPT ![t].tsk = b],
             found' = found, err' \in [Threads -> Errors]
      PROVE  RqOK'
  <2>1. PICK r : r = [rq[t] EXCEPT !.tsk = b]
    BY Zenon
  <2>2. rq[t] \in Request
    BY <1>0, Zenon
  <2>3. r \in Request
    BY <2>1, <2>2, <1>3 DEF Request
  <2>4. rq' = [rq EXCEPT ![t] = r]
    BY <1>3, <2>1, Zenon
  <2> QED BY <1>2, <1>3, <2>3, <2>4, Zenon
<1>4. ASSUME NEW t \in Threads, SendStart(t) PROVE RqOK'
  <2>1. PICK f \in NextFence(t) :
            rq' = [rq EXCEPT ![t] = [fence |-> f, status |-> NoStatus, tsk |-> FALSE]]
    BY <1>4, Zenon DEF SendStart
  <2>2. found' = found /\ err' = err
    BY <1>4, Zenon DEF SendStart, recv_vars
  <2>3. f \in Fences
    BY SlotInRange, Zenon
  <2>4. NoStatus \in Status
    BY SendBoundsAssumption DEF NoStatus, Status
  <2>5. [fence |-> f, status |-> NoStatus, tsk |-> FALSE] \in Request
    BY <2>3, <2>4 DEF Request
  <2> QED BY <1>0, <1>2, <2>1, <2>2, <2>5, Zenon
<1>5. ASSUME NEW t \in Threads, WaitDone(t) \/ WaitSleep(t) \/ WaitFails(t) PROVE RqOK'
  <2>1. /\ found' = found
        /\ rq' = [rq EXCEPT ![t].tsk = TRUE] \/ rq' = [rq EXCEPT ![t].tsk = FALSE]
    BY <1>5, Zenon DEF WaitDone, WaitSleep, WaitFails, recv_vars
  <2>2. err' \in [Threads -> Errors]
    <3>1. CASE WaitDone(t) \/ WaitSleep(t)
      BY <1>0, <3>1, Zenon DEF WaitDone, WaitSleep
    <3>2. CASE WaitFails(t)
      <4>1. PICK e : e \in Errors /\ err' = [err EXCEPT ![t] = e]
        BY <3>2, ChoicesAssumption, Zenon DEF WaitFails, Errors
      <4> QED BY <1>0, <4>1, Zenon
    <3> QED BY <1>5, <3>1, <3>2, Zenon
  <2> QED BY <1>3, <2>1, <2>2, Zenon
<1>6. ASSUME UNCHANGED <<rq, found>>, err' \in [Threads -> Errors] PROVE RqOK'
  BY <1>0, <1>6, Zenon DEF RqOK
<1>7. ASSUME NEW t \in Threads, RoomSignal(t) \/ Write(t) PROVE RqOK'
  <2>1. UNCHANGED <<rq, found>>
    BY <1>7, Zenon DEF RoomSignal, Write, recv_vars
  <2>2. \E e \in Errors : err' = [err EXCEPT ![t] = e]
    BY <1>7, Zenon DEF RoomSignal, Write, Errors
  <2>3. err' \in [Threads -> Errors]
    BY <1>0, <2>2, Zenon
  <2> QED BY <1>6, <2>1, <2>3, Zenon
<1>8. ASSUME NEW t \in Threads, Release(t) PROVE RqOK'
  <2>1. UNCHANGED <<rq, found>>
    BY <1>8, Zenon DEF Release, recv_vars
  <2>2. err' = err \/ \E e \in Errors : err' = [err EXCEPT ![t] = e]
    BY <1>0, <1>8, Zenon DEF Release, Errors
  <2>3. err' \in [Threads -> Errors]
    BY <1>0, <2>2, Zenon
  <2> QED BY <1>6, <2>1, <2>3, Zenon
<1>9. ASSUME NEW t \in Threads, SendCheck(t) \/ WaitForRoom(t) \/ Unlink(t) \/ Erase(t)
      PROVE  RqOK'
  BY <1>1, <1>9, Zenon DEF SendCheck, WaitForRoom, Unlink, Erase, recv_vars
<1>10. ASSUME NEW n \in Posters, Post(n) PROVE RqOK'
  BY <1>1, <1>10, Zenon DEF Post, PostStart, PostCheck, PostLocked, recv_vars
<1>11. CASE GucFetch \/ GucReply \/ GucError \/ Interrupt \/ PollReceive \/ ReadEnd
            \/ Disable \/ Sanitize \/ Enable
  BY <1>1, <1>11, Zenon DEF GucFetch, GucReply, GucError, Interrupt, PollReceive, ReadEnd,
                            Disable, Sanitize, Enable, recv_vars
<1>12. CASE HandleMsg
  <2>1. UNCHANGED <<rq, err>>
    BY <1>12, Zenon DEF HandleMsg
  <2>2. PICK m : m = Head(g2h)
    BY Zenon
  <2>3. m \in Answer
    <3>1. g2h \in Seq(Answer) /\ g2h # <<>>
      BY <1>12, Zenon DEF HandleMsg, SendTypes, ChanOK
    <3> QED BY <2>2, <3>1
  <2>4. m.type \in Responses \cup {"EVENT"} /\ m.fence \in Fences /\ m.of \in Senders \X (1..MaxTx)
    BY <2>3 DEF Answer
  <2>5. fences[m.fence] \in Threads \cup {Nobody}
    BY <2>4, Zenon DEF SendTypes, MiscOK
  <2>6. CASE found' = found
    BY <1>1, <2>1, <2>6, Zenon
  <2>7. CASE found' = Nobody
    BY <1>0, <2>1, <2>7, Zenon DEF RqOK
  <2>8. CASE /\ m.type # "EVENT" /\ fences[m.fence] # Nobody
             /\ found' = [to |-> fences[m.fence], type |-> m.type, of |-> m.of]
    <3>1. fences[m.fence] \in Threads /\ m.type \in Responses
      BY <2>4, <2>5, <2>8, Zenon
    <3>2. found' \in Match
      BY <2>4, <2>8, <3>1 DEF Match
    <3> QED BY <1>0, <2>1, <3>2, Zenon DEF RqOK
  <2> QED BY <1>12, <2>2, <2>6, <2>7, <2>8, Zenon DEF HandleMsg
<1>13. CASE Deliver
  <2>1. found # Nobody /\ found' = Nobody /\ err' = err
        /\ rq' = [rq EXCEPT ![found.to].status = [type |-> found.type, of |-> found.of]]
    BY <1>13, Zenon DEF Deliver
  <2>2. found.to \in Threads /\ found.type \in Responses /\ found.of \in Senders \X (1..MaxTx)
    BY <1>0, <2>1 DEF Match
  <2>3. PICK x : x = [type |-> found.type, of |-> found.of]
    BY Zenon
  <2>4. x \in Status
    <3>1. found.type \in {"none", "SUCCESS", "FAILURE", "RETRY"}
      BY <2>2, ChoicesAssumption, ZenonT(60)
    <3>2. found.of \in (Senders \cup {Nobody}) \X (0..MaxTx)
      BY <2>2, SendBoundsAssumption
    <3> QED BY <2>3, <3>1, <3>2 DEF Status
  <2>5. PICK r : r = [rq[found.to] EXCEPT !.status = x]
    BY Zenon
  <2>6. rq[found.to] \in Request
    BY <1>0, <2>2, Zenon
  <2>7. r \in Request
    BY <2>4, <2>5, <2>6 DEF Request
  <2>8. rq' = [rq EXCEPT ![found.to] = r]
    BY <2>1, <2>3, <2>5, Zenon
  <2>9. rq' \in [Threads -> Request]
    BY <1>0, <2>2, <2>7, <2>8, Zenon
  <2> QED BY <1>0, <2>1, <2>9, Zenon DEF RqOK
<1>14. CASE UNCHANGED send_vars
  BY <1>1, <1>14, Zenon DEF send_vars, recv_vars
<1> QED BY <1>4, <1>5, <1>7, <1>8, <1>9, <1>10, <1>11, <1>12, <1>13, <1>14, Zenon
        DEF SendNext, Send, Read

Written(m, s, k, f) ==
    /\ m.from = s /\ m.tx = ntx[s] + 1 /\ m.kind = k /\ m.fence = f
    /\ h2g' = Append(h2g, m) /\ h2g' \in Seq(Message)
    /\ h2g_space' \in 0..H2GSpace /\ h2g_space' <= H2GSpace - Len(h2g')

\* What ct_write() puts on the ring.
LEMMA WriteShape ==
    ASSUME SendTypes, NEW s \in Senders, NEW k \in {"REQUEST", "FAST_REQUEST"},
           NEW f \in Fences, ntx[s] < MaxTx, h2g_has_room, ct_write(s, k, f)
    PROVE  \E m \in Message : Written(m, s, k, f)
<1>1. PICK m : m = [from |-> s, tx |-> ntx[s] + 1, kind |-> k, fence |-> f]
  BY Zenon
<1>2. ntx[s] + 1 \in 1..MaxTx
  <2>1. ntx[s] \in 0..MaxTx
    BY Zenon DEF SendTypes, AtOK
  <2> QED BY <2>1, SendBoundsAssumption
<1>3. m \in Message /\ m.from = s /\ m.tx = ntx[s] + 1 /\ m.kind = k /\ m.fence = f
  BY <1>1, <1>2 DEF Message
<1>4. h2g' = Append(h2g, m) /\ h2g_space' = H2GSpace - Len(h2g')
  BY <1>1, Zenon DEF ct_write
<1>5. /\ h2g \in Seq(Message) /\ h2g_space \in 0..H2GSpace
      /\ h2g_space <= H2GSpace - Len(h2g)
  BY Zenon DEF SendTypes, ChanOK
<1>6. Len(h2g) \in Nat /\ h2g' \in Seq(Message) /\ Len(h2g') = Len(h2g) + 1
  BY <1>3, <1>4, <1>5
<1>7. h2g_space' \in 0..H2GSpace /\ h2g_space' <= H2GSpace - Len(h2g')
  BY <1>4, <1>5, <1>6, LengthsAssumption DEF h2g_has_room
<1> QED BY <1>3, <1>4, <1>6, <1>7, Zenon DEF Written

\* The steps that only move senders leave the rings and the credits alone.
LEMMA ChanFrame ==
    ASSUME [SendNext]_send_vars,
           \A t \in Threads : ~Write(t) /\ ~Release(t),
           \A n \in Posters : ~PostLocked(n),
           ~GucFetch, ~GucReply, ~HandleMsg, ~Enable
    PROVE  UNCHANGED <<h2g, h2g_space, guc, g2h, g2h_space>>
<1>1. ASSUME NEW t \in Threads, Send(t)
      PROVE  UNCHANGED <<h2g, h2g_space, guc, g2h, g2h_space>>
  BY <1>1, Zenon DEF Send, SendCheck, SendStart, WaitForRoom, RoomSignal, WaitDone,
                     WaitSleep, WaitFails, Unlink, Erase, chan_vars
<1>2. ASSUME NEW n \in Posters, Post(n)
      PROVE  UNCHANGED <<h2g, h2g_space, guc, g2h, g2h_space>>
  BY <1>2, Zenon DEF Post, PostStart, PostCheck, chan_vars
<1>3. CASE GucError \/ Interrupt \/ PollReceive \/ Deliver \/ ReadEnd \/ Disable \/ Sanitize
           \/ UNCHANGED send_vars
  BY <1>3, Zenon DEF GucError, Interrupt, PollReceive, Deliver, ReadEnd, Disable, Sanitize,
                     send_vars, chan_vars
<1> QED BY <1>1, <1>2, <1>3, Zenon DEF SendNext, Read

\* The rings keep their types, and credits are never overdrawn.
LEMMA ChanStep ==
    ASSUME SendTypes, [SendNext]_send_vars
    PROVE  ChanOK'
<1>0. /\ h2g \in Seq(Message) /\ guc \subseteq Message /\ g2h \in Seq(Answer)
      /\ h2g_space \in 0..H2GSpace /\ h2g_space <= H2GSpace - Len(h2g)
      /\ g2h_space \in Nat
  BY Zenon DEF SendTypes, ChanOK
<1>1. CASE UNCHANGED <<h2g, h2g_space, guc, g2h, g2h_space>>
  BY <1>0, <1>1, Zenon DEF ChanOK
<1>2. ASSUME NEW t \in Threads, Write(t) PROVE ChanOK'
  <2>1. /\ g2h_space' = g2h_space - MaxLen /\ g2h_space >= MaxLen /\ h2g_has_room
        /\ ntx[t] < MaxTx /\ guc' = guc /\ g2h' = g2h
    BY <1>2, Zenon DEF Write, has_room_nb, g2h_has_room
  <2>2. g2h_space' \in Nat
    BY <1>0, <2>1, LengthsAssumption
  <2>3. CASE UNCHANGED <<h2g, h2g_space>>
    BY <1>0, <2>1, <2>2, <2>3, Zenon DEF ChanOK
  <2>4. CASE ct_write(t, "REQUEST", rq[t].fence)
    <3>1. rq[t].fence \in Fences /\ t \in Senders
      BY DEF SendTypes, RqOK, Request, Senders
    <3>2. h2g' \in Seq(Message) /\ h2g_space' \in 0..H2GSpace
            /\ h2g_space' <= H2GSpace - Len(h2g')
      BY <2>1, <2>4, <3>1, WriteShape, Zenon DEF Written
    <3> QED BY <1>0, <2>1, <2>2, <3>2, Zenon DEF ChanOK
  <2> QED BY <1>2, <2>3, <2>4, Zenon DEF Write
<1>3. ASSUME NEW n \in Posters, PostLocked(n) PROVE ChanOK'
  <2>1. guc' = guc /\ g2h' = g2h
    BY <1>3, Zenon DEF PostLocked
  <2>2. CASE UNCHANGED <<g2h_space, h2g, h2g_space>>
    BY <1>0, <2>1, <2>2, Zenon DEF ChanOK
  <2>3. CASE /\ has_room_nb(EventLen) /\ g2h_space' = g2h_space - EventLen
             /\ ct_write(n, "FAST_REQUEST", 0)
    <3>1. n \in Senders /\ 0 \in Fences
      BY FencesAssumption DEF Senders, Fences
    <3>2. ntx[n] < MaxTx
      <4>1. ntx[n] < MaxPosts /\ ntx[n] \in 0..MaxTx
        BY <1>3, <3>1, Zenon DEF PostLocked, SendTypes, AtOK
      <4> QED BY <4>1, SendBoundsAssumption
    <3>3. h2g_has_room /\ g2h_space >= EventLen
      BY <2>3, Zenon DEF has_room_nb, g2h_has_room
    <3>4. h2g' \in Seq(Message) /\ h2g_space' \in 0..H2GSpace
            /\ h2g_space' <= H2GSpace - Len(h2g')
      BY <2>3, <3>1, <3>2, <3>3, WriteShape, Zenon DEF Written
    <3>5. g2h_space' \in Nat
      BY <1>0, <2>3, <3>3, LengthsAssumption
    <3> QED BY <1>0, <2>1, <3>4, <3>5, Zenon DEF ChanOK
  <2> QED BY <1>3, <2>2, <2>3, Zenon DEF PostLocked
<1>4. ASSUME NEW t \in Threads, Release(t) PROVE ChanOK'
  <2>1. g2h_space' = g2h_space + MaxLen /\ UNCHANGED <<h2g, h2g_space, guc, g2h>>
    BY <1>4, Zenon DEF Release, chan_vars
  <2>2. g2h_space' \in Nat
    BY <1>0, <2>1, LengthsAssumption
  <2> QED BY <1>0, <2>1, <2>2, Zenon DEF ChanOK
<1>5. CASE GucFetch
  <2>1. /\ h2g # <<>> /\ guc' = guc \cup {Head(h2g)} /\ h2g' = Tail(h2g)
        /\ UNCHANGED <<h2g_space, g2h, g2h_space>>
    BY <1>5, Zenon DEF GucFetch
  <2>2. Head(h2g) \in Message /\ Tail(h2g) \in Seq(Message) /\ Len(Tail(h2g)) = Len(h2g) - 1
        /\ Len(h2g) \in Nat
    BY <1>0, <2>1
  <2>3. h2g_space' <= H2GSpace - Len(h2g')
    BY <1>0, <2>1, <2>2, LengthsAssumption
  <2>4. guc' \subseteq Message
    BY <1>0, <2>1, <2>2, Zenon
  <2> QED BY <1>0, <2>1, <2>2, <2>3, <2>4, Zenon DEF ChanOK
<1>6. CASE GucReply
  <2>1. PICK m \in guc, r \in Responses \cup {"EVENT"} :
            /\ guc' = guc \ {m}
            /\ g2h' = Append(g2h, [type |-> r, fence |-> m.fence, of |-> <<m.from, m.tx>>])
    BY <1>6, Zenon DEF GucReply
  <2>2. UNCHANGED <<h2g, h2g_space, g2h_space>>
    BY <1>6, Zenon DEF GucReply
  <2>3. m \in Message
    BY <1>0, Zenon
  <2>4. m.fence \in Fences /\ <<m.from, m.tx>> \in Senders \X (1..MaxTx)
    BY <2>3 DEF Message
  <2>5. PICK a : a = [type |-> r, fence |-> m.fence, of |-> <<m.from, m.tx>>]
    BY Zenon
  <2>6. a \in Answer
    BY <2>4, <2>5 DEF Answer
  <2>7. g2h' \in Seq(Answer)
    <3>1. g2h' = Append(g2h, a)
      BY <2>1, <2>5, Zenon
    <3> QED BY <1>0, <2>6, <3>1
  <2>8. guc' \subseteq Message
    BY <1>0, <2>1, Zenon
  <2> QED BY <1>0, <2>2, <2>7, <2>8, Zenon DEF ChanOK
<1>7. CASE HandleMsg
  <2>1. /\ g2h # <<>> /\ g2h' = Tail(g2h) /\ UNCHANGED <<h2g, h2g_space, guc>>
        /\ g2h_space' = g2h_space \/ g2h_space' = g2h_space + EventLen
    BY <1>7, Zenon DEF HandleMsg
  <2>2. g2h' \in Seq(Answer)
    BY <1>0, <2>1
  <2>3. g2h_space' \in Nat
    BY <1>0, <2>1, LengthsAssumption
  <2> QED BY <1>0, <2>1, <2>2, <2>3, Zenon DEF ChanOK
<1>8. CASE Enable
  <2>1. /\ h2g' = <<>> /\ h2g_space' = H2GSpace /\ g2h' = <<>> /\ g2h_space' = G2HSpace
        /\ guc' = {}
    BY <1>8, Zenon DEF Enable
  <2> QED BY <2>1, LengthsAssumption DEF ChanOK
<1> QED BY <1>1, <1>2, <1>3, <1>4, <1>5, <1>6, <1>7, <1>8, ChanFrame, Zenon

\* The remaining variables.
LEMMA MiscStep ==
    ASSUME SendTypes, [SendNext]_send_vars
    PROVE  MiscOK'
<1>0. /\ enabled \in BOOLEAN /\ h2g_status \in BOOLEAN /\ guc_irq \in BOOLEAN
      /\ fences \in [Fences -> Threads \cup {Nobody}]
      /\ wq_nb \subseteq Posters /\ reader \in {"none", "irq", "poll"}
      /\ ntoggles \in 0..MaxToggles
  BY Zenon DEF SendTypes, MiscOK
<1>1. ASSUME UNCHANGED <<enabled, ntoggles, h2g_status>>, guc_irq' \in BOOLEAN,
             wq_nb' \subseteq Posters, reader' \in {"none", "irq", "poll"},
             fences' \in [Fences -> Threads \cup {Nobody}]
      PROVE  MiscOK'
  BY <1>0, <1>1, Zenon DEF MiscOK
<1>2. {} \subseteq Posters
  OBVIOUS
<1>3. ASSUME NEW t \in Threads, SendStart(t) PROVE MiscOK'
  <2>1. PICK f \in NextFence(t) : fences' = [fences EXCEPT ![f] = t]
    BY <1>3, Zenon DEF SendStart
  <2>2. fences' \in [Fences -> Threads \cup {Nobody}]
    BY <1>0, <2>1, Zenon
  <2> QED BY <1>0, <1>1, <1>3, <2>2, Zenon DEF SendStart, chan_vars, wait_vars, recv_vars
<1>4. ASSUME NEW t \in Threads, Erase(t) PROVE MiscOK'
  <2>1. fences' = [fences EXCEPT ![rq[t].fence] = Nobody]
    BY <1>4, Zenon DEF Erase
  <2>2. fences' \in [Fences -> Threads \cup {Nobody}]
    BY <1>0, <2>1, Zenon
  <2> QED BY <1>0, <1>1, <1>4, <2>2, Zenon DEF Erase, chan_vars, wait_vars, recv_vars
<1>5. ASSUME NEW t \in Threads, Send(t), ~SendStart(t), ~Erase(t) PROVE MiscOK'
  <2>1. UNCHANGED <<enabled, ntoggles, h2g_status, guc_irq, reader, fences>>
        /\ (wq_nb' = wq_nb \/ wq_nb' = {})
    BY <1>5, Zenon DEF Send, SendCheck, WaitForRoom, RoomSignal, Write, WaitDone, WaitSleep,
                       WaitFails, Release, Unlink, WakeUp, chan_vars, wait_vars, recv_vars
  <2> QED BY <1>0, <1>1, <1>2, <2>1, Zenon
<1>6. ASSUME NEW n \in Posters, Post(n) PROVE MiscOK'
  <2>1. UNCHANGED <<enabled, ntoggles, h2g_status, guc_irq, reader, fences>>
        /\ (wq_nb' = wq_nb \/ wq_nb' = {} \/ wq_nb' = wq_nb \cup {n})
    BY <1>6, Zenon DEF Post, PostStart, PostCheck, PostLocked, WakeUp, chan_vars, wait_vars,
                       recv_vars
  <2>2. wq_nb' \subseteq Posters
    BY <1>0, <2>1
  <2> QED BY <1>0, <1>1, <2>1, <2>2, Zenon
<1>7. CASE GucFetch \/ GucReply \/ PollReceive \/ HandleMsg \/ Deliver \/ UNCHANGED send_vars
  BY <1>0, <1>1, <1>7, Zenon DEF GucFetch, GucReply, PollReceive, HandleMsg, Deliver, send_vars,
                                 chan_vars, wait_vars, recv_vars
<1>8. CASE Interrupt \/ ReadEnd
  <2>1. UNCHANGED <<enabled, ntoggles, h2g_status, fences>> /\ guc_irq' \in BOOLEAN
        /\ (wq_nb' = wq_nb \/ wq_nb' = {}) /\ reader' \in {"none", "irq", "poll"}
    BY <1>0, <1>8, Zenon DEF Interrupt, ReadEnd, WakeUp, chan_vars, wait_vars, recv_vars
  <2> QED BY <1>0, <1>1, <1>2, <2>1, Zenon
<1>9. CASE GucError
  BY <1>0, <1>9, Zenon DEF GucError, MiscOK, chan_vars, wait_vars, recv_vars
<1>10. CASE Disable \/ Sanitize \/ Enable
  <2>1. ntoggles < MaxToggles /\ ntoggles' = ntoggles + 1
    BY <1>10, Zenon DEF Disable, Sanitize, Enable
  <2>2. ntoggles' \in 0..MaxToggles
    BY <1>0, <2>1, SendBoundsAssumption
  <2>3. /\ enabled' \in BOOLEAN /\ h2g_status' \in BOOLEAN
        /\ UNCHANGED <<guc_irq, reader, fences>> /\ (wq_nb' = wq_nb \/ wq_nb' = {})
    BY <1>0, <1>10, Zenon DEF Disable, Sanitize, Enable, WakeUpAll, chan_vars, wait_vars,
                              recv_vars
  <2> QED BY <1>0, <1>2, <2>2, <2>3, Zenon DEF MiscOK
<1> QED BY <1>3, <1>4, <1>5, <1>6, <1>7, <1>8, <1>9, <1>10, Zenon DEF SendNext, Read

\* Every step keeps the types.
LEMMA SendTypesStep ==
    ASSUME SendTypes, [SendNext]_send_vars PROVE SendTypes'
BY AtStep, RqStep, ChanStep, MiscStep, Zenon DEF SendTypes

-----------------------------------------------------------------------------
(* The account of the credits.                                             *)

FastMsgs == {m \in Message : m.kind = "FAST_REQUEST"}
EventAnswers == {a \in Answer : a.of[1] \in Posters}

\* Messages are numbered in the order in which a sender writes them and the
\* GuC fetches them, so that no message is fetched twice; blocking requests
\* come from threads and the others from posters, and so for the answers.
MsgInv ==
    /\ \A i \in 1..Len(h2g) :
          /\ h2g[i].tx <= ntx[h2g[i].from]
          /\ h2g[i].kind = "FAST_REQUEST" <=> h2g[i].from \in Posters
    /\ \A i, j \in 1..Len(h2g) :
          i < j /\ h2g[i].from = h2g[j].from => h2g[i].tx < h2g[j].tx
    /\ \A m \in guc :
          /\ m.tx <= ntx[m.from]
          /\ m.kind = "FAST_REQUEST" <=> m.from \in Posters
          /\ \A i \in 1..Len(h2g) : m.from = h2g[i].from => m.tx < h2g[i].tx
    /\ \A i \in 1..Len(g2h) : g2h[i].type = "EVENT" <=> g2h[i].of[1] \in Posters

\* The credits, counted over the sets of the model. Once the transport has
\* been turned off it takes a second toggle to turn it on, when the account
\* starts again.
AccountInv ==
    /\ IsFiniteSet(guc) /\ IsFiniteSet(Holding)
    /\ ~enabled => ntoggles >= 1
    /\ ntoggles < 2 =>
          g2h_space + MaxLen * Cardinality(Holding)
            + EventLen * (Cardinality(Marked(h2g, FastMsgs))
                          + Cardinality(guc \cap FastMsgs)
                          + Cardinality(Marked(g2h, EventAnswers))) = G2HSpace

RoomIInv == SendTypes /\ MsgInv /\ AccountInv

\* The order of the messages holds of empty rings,
LEMMA MsgInit == SendInit => MsgInv
<1> SUFFICES ASSUME SendInit PROVE MsgInv
  BY Zenon
<1>1. h2g = <<>> /\ g2h = <<>> /\ guc = {}
  BY Zenon DEF SendInit
<1> QED BY <1>1 DEF MsgInv

\* A message that is written is younger than every other of its sender.
LEMMA MsgWrite ==
    ASSUME SendTypes, MsgInv, NEW m \in Message, NEW s \in Senders,
           m.from = s, m.tx = ntx[s] + 1, m.kind = "FAST_REQUEST" <=> s \in Posters,
           h2g' = Append(h2g, m), ntx' = [ntx EXCEPT ![s] = @ + 1],
           UNCHANGED <<guc, g2h>>
    PROVE  MsgInv'
<1>0. /\ h2g \in Seq(Message) /\ guc \subseteq Message /\ ntx \in [Senders -> 0..MaxTx]
  BY Zenon DEF SendTypes, ChanOK, AtOK
<1>1. /\ Len(h2g) \in Nat /\ Len(h2g') = Len(h2g) + 1 /\ h2g'[Len(h2g) + 1] = m
      /\ \A i \in 1..Len(h2g) : h2g'[i] = h2g[i] /\ h2g[i] \in Message
  BY <1>0
<1>2. \A i \in 1..Len(h2g') : i \in 1..Len(h2g) \/ i = Len(h2g) + 1
  BY <1>1
<1>3. /\ \A u \in Senders : ntx[u] \in Nat /\ ntx'[u] \in Nat /\ ntx[u] <= ntx'[u]
      /\ ntx'[s] = ntx[s] + 1
  <2>1. \A u \in Senders : ntx[u] \in 0..MaxTx
    BY <1>0, Zenon
  <2>2. ntx'[s] = ntx[s] + 1 /\ \A u \in Senders : u # s => ntx'[u] = ntx[u]
    BY <1>0, Zenon
  <2> QED BY <2>1, <2>2, SendBoundsAssumption
<1>4. \A x \in Message : x.from \in Senders /\ x.tx \in Nat
  BY SendBoundsAssumption DEF Message
<1>5. ASSUME NEW i \in 1..Len(h2g')
      PROVE  /\ h2g'[i].tx <= ntx'[h2g'[i].from]
             /\ h2g'[i].kind = "FAST_REQUEST" <=> h2g'[i].from \in Posters
  <2>1. CASE i \in 1..Len(h2g)
    <3>1. /\ h2g'[i] = h2g[i] /\ h2g[i].tx <= ntx[h2g[i].from]
          /\ h2g[i].kind = "FAST_REQUEST" <=> h2g[i].from \in Posters
      BY <1>1, <2>1, Zenon DEF MsgInv
    <3>2. h2g[i].from \in Senders /\ h2g[i].tx \in Nat
      BY <1>1, <1>4, <2>1, Zenon
    <3>3. h2g[i].tx <= ntx'[h2g[i].from]
      BY <1>3, <3>1, <3>2, SMTT(40)
    <3> QED BY <3>1, <3>3, Zenon
  <2>2. CASE i = Len(h2g) + 1
    <3>1. h2g'[i] = m
      BY <1>1, <2>2, Zenon
    <3>2. m.tx <= ntx'[m.from]
      BY <1>3
    <3> QED BY <3>1, <3>2, Zenon
  <2> QED BY <1>2, <2>1, <2>2, Zenon
<1>6. ASSUME NEW i \in 1..Len(h2g'), NEW j \in 1..Len(h2g'), i < j,
             h2g'[i].from = h2g'[j].from
      PROVE  h2g'[i].tx < h2g'[j].tx
  <2>1. i \in 1..Len(h2g)
    BY <1>1, <1>6
  <2>2. CASE j \in 1..Len(h2g)
    <3>1. h2g'[i] = h2g[i] /\ h2g'[j] = h2g[j]
      BY <1>1, <2>1, <2>2, Zenon
    <3> QED BY <1>6, <2>1, <2>2, <3>1, Zenon DEF MsgInv
  <2>3. CASE j = Len(h2g) + 1
    <3>1. h2g'[i] = h2g[i] /\ h2g'[j] = m
      BY <1>1, <2>1, <2>3, Zenon
    <3>2. h2g[i].from = s /\ h2g[i].tx <= ntx[s] /\ h2g[i].tx \in Nat
      BY <1>1, <1>4, <1>6, <2>1, <3>1, Zenon DEF MsgInv
    <3>3. h2g[i].tx < m.tx
      BY <1>3, <3>2
    <3> QED BY <3>1, <3>3, Zenon
  <2> QED BY <1>2, <2>2, <2>3, Zenon
<1>7. ASSUME NEW x \in guc'
      PROVE  /\ x.tx <= ntx'[x.from]
             /\ x.kind = "FAST_REQUEST" <=> x.from \in Posters
             /\ \A i \in 1..Len(h2g') : x.from = h2g'[i].from => x.tx < h2g'[i].tx
  <2>1. /\ x \in guc /\ x.from \in Senders /\ x.tx \in Nat /\ x.tx <= ntx[x.from]
        /\ x.kind = "FAST_REQUEST" <=> x.from \in Posters
    BY <1>0, <1>4, <1>7, Zenon DEF MsgInv
  <2>2. x.tx <= ntx'[x.from]
    BY <1>3, <2>1
  <2>3. ASSUME NEW i \in 1..Len(h2g'), x.from = h2g'[i].from PROVE x.tx < h2g'[i].tx
    <3>1. CASE i \in 1..Len(h2g)
      BY <1>1, <2>1, <2>3, <3>1, Zenon DEF MsgInv
    <3>2. CASE i = Len(h2g) + 1
      <4>1. h2g'[i] = m
        BY <1>1, <3>2, Zenon
      <4>2. x.from = s
        BY <2>3, <4>1, Zenon
      <4>3. x.tx < m.tx
        BY <1>3, <2>1, <4>2
      <4> QED BY <4>1, <4>3, Zenon
    <3> QED BY <1>2, <3>1, <3>2, Zenon
  <2> QED BY <2>1, <2>2, <2>3, Zenon
<1>8. \A i \in 1..Len(g2h') : g2h'[i].type = "EVENT" <=> g2h'[i].of[1] \in Posters
  BY Zenon DEF MsgInv
<1> QED BY <1>5, <1>6, <1>7, <1>8, Zenon DEF MsgInv

\* Fetching keeps the order.
LEMMA MsgFetch ==
    ASSUME SendTypes, MsgInv, GucFetch
    PROVE  MsgInv' /\ Head(h2g) \notin guc /\ Head(h2g) \in Message
<1>0. /\ h2g \in Seq(Message) /\ guc \subseteq Message /\ h2g # <<>>
      /\ guc' = guc \cup {Head(h2g)} /\ h2g' = Tail(h2g) /\ UNCHANGED <<ntx, g2h>>
  BY Zenon DEF SendTypes, ChanOK, GucFetch
<1>1. /\ Len(h2g) \in Nat /\ Len(h2g) >= 1 /\ Len(h2g') = Len(h2g) - 1 /\ Head(h2g) = h2g[1]
      /\ \A i \in 1..Len(h2g') : h2g'[i] = h2g[i + 1]
      /\ \A i \in 1..Len(h2g) : h2g[i] \in Message
  BY <1>0
<1>2. 1 \in 1..Len(h2g) /\ \A i \in 1..Len(h2g') : i + 1 \in 1..Len(h2g) /\ 1 < i + 1
  BY <1>1
<1>3. \A i, j \in 1..Len(h2g') : i < j => i + 1 < j + 1
  BY <1>1
<1>4. Head(h2g) \notin guc /\ Head(h2g) \in Message
  <2>1. h2g[1].tx \in Nat
    BY <1>1, <1>2, SendBoundsAssumption DEF Message
  <2>2. ~(h2g[1].tx < h2g[1].tx)
    BY <2>1
  <2>3. h2g[1] \notin guc
    BY <1>2, <2>2, Zenon DEF MsgInv
  <2> QED BY <1>1, <1>2, <2>3, Zenon
<1>5. ASSUME NEW i \in 1..Len(h2g')
      PROVE  /\ h2g'[i].tx <= ntx'[h2g'[i].from]
             /\ h2g'[i].kind = "FAST_REQUEST" <=> h2g'[i].from \in Posters
  BY <1>0, <1>1, <1>2, ZenonT(60) DEF MsgInv
<1>6. ASSUME NEW i \in 1..Len(h2g'), NEW j \in 1..Len(h2g'), i < j,
             h2g'[i].from = h2g'[j].from
      PROVE  h2g'[i].tx < h2g'[j].tx
  BY <1>1, <1>2, <1>3, <1>6, Zenon DEF MsgInv
<1>7. ASSUME NEW x \in guc'
      PROVE  /\ x.tx <= ntx'[x.from]
             /\ x.kind = "FAST_REQUEST" <=> x.from \in Posters
             /\ \A i \in 1..Len(h2g') : x.from = h2g'[i].from => x.tx < h2g'[i].tx
  <2>1. CASE x \in guc
    BY <1>0, <1>1, <1>2, <2>1, Zenon DEF MsgInv
  <2>2. CASE x = h2g[1]
    BY <1>0, <1>1, <1>2, <2>2, ZenonT(60) DEF MsgInv
  <2> QED BY <1>0, <1>1, <1>7, <2>1, <2>2, Zenon
<1>8. \A i \in 1..Len(g2h') : g2h'[i].type = "EVENT" <=> g2h'[i].of[1] \in Posters
  BY <1>0, Zenon DEF MsgInv
<1> QED BY <1>4, <1>5, <1>6, <1>7, <1>8, Zenon DEF MsgInv

\* What a reply is.
LEMMA ReplyShape ==
    ASSUME SendTypes, MsgInv, GucReply
    PROVE  \E m \in guc, a \in Answer :
              /\ guc' = guc \ {m} /\ g2h' = Append(g2h, a)
              /\ a.fence = m.fence /\ a.of = <<m.from, m.tx>> /\ m \in Message
              /\ a.type \in Responses \cup {"EVENT"}
              /\ a.type = "EVENT" <=> m.from \in Posters
              /\ m.kind = "FAST_REQUEST" <=> m.from \in Posters
<1>1. PICK m \in guc, r \in Responses \cup {"EVENT"} :
            /\ guc' = guc \ {m} /\ (r = "EVENT") = (m.kind = "FAST_REQUEST")
            /\ g2h' = Append(g2h, [type |-> r, fence |-> m.fence, of |-> <<m.from, m.tx>>])
  BY Zenon DEF GucReply
<1>2. m \in Message /\ (m.kind = "FAST_REQUEST" <=> m.from \in Posters)
  BY Zenon DEF SendTypes, ChanOK, MsgInv
<1>3. m.fence \in Fences /\ <<m.from, m.tx>> \in Senders \X (1..MaxTx)
  BY <1>2 DEF Message
<1>4. PICK a : a = [type |-> r, fence |-> m.fence, of |-> <<m.from, m.tx>>]
  BY Zenon
<1>5. a \in Answer /\ a.type = r /\ a.fence = m.fence /\ a.of = <<m.from, m.tx>>
  BY <1>3, <1>4 DEF Answer
<1> QED BY <1>1, <1>2, <1>4, <1>5, Zenon

\* ... and every step keeps it.
LEMMA MsgStep ==
    ASSUME SendTypes, MsgInv, [SendNext]_send_vars
    PROVE  MsgInv'
<1>0. /\ h2g \in Seq(Message) /\ guc \subseteq Message /\ g2h \in Seq(Answer)
      /\ ntx \in [Senders -> 0..MaxTx]
      /\ Threads \subseteq Senders /\ Posters \subseteq Senders
      /\ \A t \in Threads : t \notin Posters
  BY SendersAssumption, Zenon DEF SendTypes, ChanOK, AtOK, Senders
<1>1. CASE UNCHANGED <<h2g, guc, g2h, ntx>>
  BY <1>1, Zenon DEF MsgInv
<1>2. ASSUME NEW t \in Threads, Write(t) PROVE MsgInv'
  <2>1. CASE UNCHANGED <<h2g, ntx>>
    BY <1>1, <1>2, <2>1, Zenon DEF Write
  <2>2. CASE ct_write(t, "REQUEST", rq[t].fence)
    <3>1. rq[t].fence \in Fences
      BY DEF SendTypes, RqOK, Request
    <3>2. ntx[t] < MaxTx /\ h2g_has_room /\ UNCHANGED <<guc, g2h>>
      BY <1>2, Zenon DEF Write, has_room_nb
    <3>3. PICK m \in Message : Written(m, t, "REQUEST", rq[t].fence)
      BY <1>0, <2>2, <3>1, <3>2, WriteShape, Zenon
    <3>4. ntx' = [ntx EXCEPT ![t] = @ + 1]
      BY <2>2, Zenon DEF ct_write
    <3>5. m.kind = "FAST_REQUEST" <=> t \in Posters
      BY <1>0, <3>3, Zenon DEF Written
    <3> QED BY <1>0, <3>2, <3>3, <3>4, <3>5, MsgWrite, Zenon DEF Written
  <2> QED BY <1>2, <2>1, <2>2, Zenon DEF Write
<1>3. ASSUME NEW n \in Posters, PostLocked(n) PROVE MsgInv'
  <2>1. CASE UNCHANGED <<h2g, ntx>>
    BY <1>1, <1>3, <2>1, Zenon DEF PostLocked
  <2>2. CASE has_room_nb(EventLen) /\ ct_write(n, "FAST_REQUEST", 0)
    <3>1. 0 \in Fences
      BY FencesAssumption DEF Fences
    <3>2. h2g_has_room /\ UNCHANGED <<guc, g2h>>
      BY <1>3, <2>2, Zenon DEF PostLocked, has_room_nb
    <3>3. ntx[n] < MaxTx
      <4>1. ntx[n] < MaxPosts /\ ntx[n] \in 0..MaxTx
        BY <1>0, <1>3, Zenon DEF PostLocked, SendTypes, AtOK
      <4> QED BY <4>1, SendBoundsAssumption
    <3>4. PICK m \in Message : Written(m, n, "FAST_REQUEST", 0)
      BY <1>0, <2>2, <3>1, <3>2, <3>3, WriteShape, Zenon
    <3>5. ntx' = [ntx EXCEPT ![n] = @ + 1]
      BY <2>2, Zenon DEF ct_write
    <3> QED BY <1>0, <3>2, <3>4, <3>5, MsgWrite, Zenon DEF Written
  <2> QED BY <1>3, <2>1, <2>2, Zenon DEF PostLocked
<1>4. ASSUME NEW t \in Threads, Release(t) PROVE MsgInv'
  BY <1>1, <1>4, Zenon DEF Release, chan_vars
<1>5. CASE GucFetch
  BY <1>5, MsgFetch, Zenon
<1>6. CASE GucReply
  <2>1. PICK m \in guc, a \in Answer :
            /\ guc' = guc \ {m} /\ g2h' = Append(g2h, a) /\ a.of = <<m.from, m.tx>>
            /\ a.type = "EVENT" <=> m.from \in Posters
    BY <1>6, ReplyShape, Zenon
  <2>2. UNCHANGED <<h2g, ntx>>
    BY <1>6, Zenon DEF GucReply
  <2>3. a.of[1] = m.from
    BY <2>1
  <2>4. /\ Len(g2h) \in Nat /\ Len(g2h') = Len(g2h) + 1 /\ g2h'[Len(g2h) + 1] = a
        /\ \A i \in 1..Len(g2h) : g2h'[i] = g2h[i]
    BY <1>0, <2>1
  <2>5. \A i \in 1..Len(g2h') : i \in 1..Len(g2h) \/ i = Len(g2h) + 1
    BY <2>4
  <2>6. \A i \in 1..Len(g2h') : g2h'[i].type = "EVENT" <=> g2h'[i].of[1] \in Posters
    BY <2>1, <2>3, <2>4, <2>5, ZenonT(60) DEF MsgInv
  <2>7. \A x \in guc' : x \in guc
    BY <2>1, Zenon
  <2> QED BY <2>2, <2>6, <2>7, Zenon DEF MsgInv
<1>7. CASE HandleMsg
  <2>1. g2h # <<>> /\ g2h' = Tail(g2h) /\ UNCHANGED <<h2g, guc, ntx>>
    BY <1>7, Zenon DEF HandleMsg
  <2>2. \A i \in 1..Len(g2h') : i + 1 \in 1..Len(g2h) /\ g2h'[i] = g2h[i + 1]
    BY <1>0, <2>1
  <2>3. \A i \in 1..Len(g2h') : g2h'[i].type = "EVENT" <=> g2h'[i].of[1] \in Posters
    BY <2>2, Zenon DEF MsgInv
  <2> QED BY <2>1, <2>3, Zenon DEF MsgInv
<1>8. CASE Enable
  <2>1. h2g' = <<>> /\ g2h' = <<>> /\ guc' = {}
    BY <1>8, Zenon DEF Enable
  <2> QED BY <2>1 DEF MsgInv
<1>9. ASSUME \A t \in Threads : ~Write(t), \A n \in Posters : ~PostLocked(n)
      PROVE  ntx' = ntx
  <2>1. ASSUME NEW t \in Threads, Send(t) PROVE ntx' = ntx
    BY <1>9, <2>1, Zenon DEF Send, SendCheck, SendStart, WaitForRoom, RoomSignal, WaitDone,
                             WaitSleep, WaitFails, Release, Unlink, Erase
  <2>2. ASSUME NEW n \in Posters, Post(n) PROVE ntx' = ntx
    BY <1>9, <2>2, Zenon DEF Post, PostStart, PostCheck
  <2>3. CASE \/ GucFetch \/ GucReply \/ GucError \/ Interrupt \/ PollReceive \/ HandleMsg
             \/ Deliver \/ ReadEnd \/ Disable \/ Sanitize \/ Enable \/ UNCHANGED send_vars
    BY <2>3, Zenon DEF GucFetch, GucReply, GucError, Interrupt, PollReceive, HandleMsg, Deliver,
                       ReadEnd, Disable, Sanitize, Enable, send_vars
  <2> QED BY <2>1, <2>2, <2>3, Zenon DEF SendNext, Read
<1> QED BY <1>1, <1>2, <1>3, <1>4, <1>5, <1>6, <1>7, <1>8, <1>9, ChanFrame, Zenon

Owed == Cardinality(Marked(h2g, FastMsgs)) + Cardinality(guc \cap FastMsgs)
            + Cardinality(Marked(g2h, EventAnswers))

\* One more of the same.
LEMMA TimesMore ==
    ASSUME NEW a \in Nat, NEW n \in Nat
    PROVE  a * n \in Nat /\ a * (n + 1) = a * n + a
OBVIOUS

\* Who holds credits for a response.
LEMMA HoldingStep ==
    ASSUME SendTypes, [SendNext]_send_vars
    PROVE  /\ \A t \in Threads : Write(t) => t \notin Holding /\ Holding' = Holding \cup {t}
           /\ \A t \in Threads : Release(t) => t \in Holding /\ Holding' = Holding \ {t}
           /\ (\A t \in Threads : ~Write(t) /\ ~Release(t)) => Holding' = Holding
<1> DEFINE H == {"wait", "asleep", "release"}
<1>0. /\ at \in [Senders -> Places] /\ Threads \subseteq Senders
      /\ \A t \in Threads : t \notin Posters
  BY SendersAssumption, Zenon DEF SendTypes, AtOK, Senders
<1>1. ASSUME NEW t \in Threads, NEW x, at' = [at EXCEPT ![t] = x]
      PROVE  \A u \in Threads : (u \in Holding' <=> IF u = t THEN x \in H ELSE u \in Holding)
  <2>1. at'[t] = x /\ \A u \in Threads : u # t => at'[u] = at[u]
    BY <1>0, <1>1, Zenon
  <2> QED BY <2>1, Zenon DEF Holding
<1>2. Holding \subseteq Threads /\ Holding' \subseteq Threads
  BY Zenon DEF Holding
<1>3. ASSUME NEW t \in Threads, Write(t) PROVE t \notin Holding /\ Holding' = Holding \cup {t}
  <2>1. at[t] = "resend" /\ \E x \in H : at' = [at EXCEPT ![t] = x]
    BY <1>3, Zenon DEF Write
  <2>2. t \notin Holding
    BY <2>1, Zenon DEF Holding
  <2>3. \A u \in Threads : (u \in Holding' <=> u = t \/ u \in Holding)
    BY <1>1, <2>1, Zenon
  <2> QED BY <1>2, <2>2, <2>3, Zenon
<1>4. ASSUME NEW t \in Threads, Release(t) PROVE t \in Holding /\ Holding' = Holding \ {t}
  <2>1. at[t] = "release" /\ \E x \in {"resend", "unlink"} : at' = [at EXCEPT ![t] = x]
    BY <1>4, Zenon DEF Release
  <2>2. t \in Holding
    BY <2>1, Zenon DEF Holding
  <2>3. \A u \in Threads : (u \in Holding' <=> u # t /\ u \in Holding)
    BY <1>1, <2>1, Zenon
  <2> QED BY <1>2, <2>2, <2>3, Zenon
<1>5. ASSUME \A t \in Threads : ~Write(t) /\ ~Release(t) PROVE Holding' = Holding
  <2>1. CASE at' = at
    BY <2>1, Zenon DEF Holding
  <2>2. ASSUME NEW t \in Threads, NEW x, at' = [at EXCEPT ![t] = x], at[t] \in H <=> x \in H
        PROVE  Holding' = Holding
    <3>1. t \in Holding <=> x \in H
      BY <2>2, Zenon DEF Holding
    <3> QED BY <1>1, <1>2, <2>2, <3>1, Zenon
  <2>3. ASSUME NEW n \in Posters, NEW x, at' = [at EXCEPT ![n] = x] PROVE Holding' = Holding
    <3>1. \A u \in Threads : at'[u] = at[u]
      BY <1>0, <2>3, Zenon
    <3> QED BY <3>1, Zenon DEF Holding
  <2>4. ASSUME NEW t \in Threads, Send(t) PROVE Holding' = Holding
    <3>1. CASE SendCheck(t)
      BY <2>2, <3>1, Zenon DEF SendCheck
    <3>2. CASE SendStart(t)
      BY <2>2, <3>2, Zenon DEF SendStart
    <3>3. CASE RoomSignal(t)
      BY <2>2, <3>3, Zenon DEF RoomSignal
    <3>4. CASE WaitDone(t) \/ WaitSleep(t)
      BY <2>2, <3>4, Zenon DEF WaitDone, WaitSleep
    <3>5. CASE WaitFails(t)
      BY <2>2, <3>5, Zenon DEF WaitFails
    <3>6. CASE Unlink(t)
      BY <2>2, <3>6, Zenon DEF Unlink
    <3>7. CASE Erase(t)
      BY <2>2, <3>7, Zenon DEF Erase
    <3>8. CASE WaitForRoom(t)
      BY <2>1, <3>8, Zenon DEF WaitForRoom
    <3> QED BY <1>5, <2>4, <3>1, <3>2, <3>3, <3>4, <3>5, <3>6, <3>7, <3>8, ZenonT(60) DEF Send
  <2>5. ASSUME NEW n \in Posters, Post(n) PROVE Holding' = Holding
    BY <2>1, <2>3, <2>5, Zenon DEF Post, PostStart, PostCheck, PostLocked
  <2>6. CASE Deliver
    <3>1. CASE at' = at
      BY <2>1, <3>1, Zenon
    <3>2. CASE at' # at
      <4>1. at[found.to] = "asleep" /\ at' = [at EXCEPT ![found.to] = "wait"]
        BY <2>6, <3>2, Zenon DEF Deliver
      <4>2. \A u \in Threads : u # found.to => at'[u] = at[u]
        BY <1>0, <4>1, Zenon
      <4>3. \A u \in Threads : u = found.to => at'[u] = "wait" /\ at[u] = "asleep"
        BY <1>0, <4>1, Zenon
      <4>4. \A u \in Threads : at'[u] \in H <=> at[u] \in H
        BY <4>2, <4>3, Zenon
      <4> QED BY <4>4, Zenon DEF Holding
    <3> QED BY <3>1, <3>2, Zenon
  <2>7. CASE Disable
    <3>1. at' = [s \in Senders |-> IF at[s] = "asleep" THEN "wait" ELSE at[s]]
      BY <2>7, Zenon DEF Disable
    <3>2. \A u \in Threads : at'[u] \in H <=> at[u] \in H
      BY <1>0, <3>1, Zenon
    <3> QED BY <3>2, Zenon DEF Holding
  <2>8. CASE GucFetch \/ GucReply \/ GucError \/ Interrupt \/ PollReceive \/ HandleMsg \/ ReadEnd
             \/ Sanitize \/ Enable \/ UNCHANGED send_vars
    BY <2>1, <2>8, Zenon DEF GucFetch, GucReply, GucError, Interrupt, PollReceive, HandleMsg,
                             ReadEnd, Sanitize, Enable, send_vars
  <2> QED BY <2>4, <2>5, <2>6, <2>7, <2>8, Zenon DEF SendNext, Read
<1> QED BY <1>3, <1>4, <1>5, Zenon

\* What is owed changes with the posters, and when an event is read.
LEMMA OwedStep ==
    ASSUME SendTypes, MsgInv, IsFiniteSet(guc), [SendNext]_send_vars
    PROVE  /\ Owed \in Nat
           /\ \A n \in Posters : PostLocked(n) =>
                 \/ Owed' = Owed /\ g2h_space' = g2h_space
                 \/ Owed' = Owed + 1 /\ g2h_space' = g2h_space - EventLen
           /\ HandleMsg =>
                 \/ Owed' = Owed /\ g2h_space' = g2h_space
                 \/ Owed = Owed' + 1 /\ g2h_space' = g2h_space + EventLen
           /\ (\A n \in Posters : ~PostLocked(n)) /\ ~HandleMsg /\ ~Enable => Owed' = Owed
<1>0. /\ h2g \in Seq(Message) /\ guc \subseteq Message /\ g2h \in Seq(Answer)
      /\ Threads \subseteq Senders /\ Posters \subseteq Senders
      /\ \A t \in Threads : t \notin Posters
      /\ ntx \in [Senders -> 0..MaxTx]
  BY SendersAssumption, Zenon DEF SendTypes, ChanOK, AtOK, Senders
<1>1. PICK a : a = Cardinality(Marked(h2g, FastMsgs))
  BY Zenon
<1>2. PICK b : b = Cardinality(guc \cap FastMsgs)
  BY Zenon
<1>3. PICK c : c = Cardinality(Marked(g2h, EventAnswers))
  BY Zenon
<1>4. a \in Nat /\ b \in Nat /\ c \in Nat
  BY <1>0, <1>1, <1>2, <1>3, MarkedFinite, PartFinite, Zenon
<1>5. Owed = a + b + c
  BY <1>1, <1>2, <1>3, Zenon DEF Owed
<1>6. PICK d : d = Cardinality(Marked(h2g', FastMsgs))
  BY Zenon
<1>7. PICK e : e = Cardinality(guc' \cap FastMsgs)
  BY Zenon
<1>8. PICK g : g = Cardinality(Marked(g2h', EventAnswers))
  BY Zenon
<1>9. Owed' = d + e + g
  BY <1>6, <1>7, <1>8, Zenon DEF Owed, Marked, FastMsgs, EventAnswers, Message, Answer
<1>10. /\ h2g' = h2g => d = a
       /\ guc' = guc => e = b
       /\ g2h' = g2h => g = c
  BY <1>1, <1>2, <1>3, <1>6, <1>7, <1>8, Zenon
<1>11. ASSUME UNCHANGED <<h2g, guc, g2h>> PROVE Owed' = Owed
  BY <1>5, <1>9, <1>10, <1>11, Zenon
<1>12. ASSUME NEW n \in Posters, PostLocked(n)
       PROVE  \/ Owed' = Owed /\ g2h_space' = g2h_space
              \/ Owed' = Owed + 1 /\ g2h_space' = g2h_space - EventLen
  <2>1. UNCHANGED <<guc, g2h>>
    BY <1>12, Zenon DEF PostLocked
  <2>2. CASE UNCHANGED <<g2h_space, h2g>>
    BY <1>11, <2>1, <2>2, Zenon
  <2>3. CASE /\ has_room_nb(EventLen) /\ ct_write(n, "FAST_REQUEST", 0)
             /\ g2h_space' = g2h_space - EventLen
    <3>1. 0 \in Fences
      BY FencesAssumption DEF Fences
    <3>2. h2g_has_room
      BY <2>3, Zenon DEF has_room_nb
    <3>3. ntx[n] < MaxTx
      <4>1. ntx[n] < MaxPosts /\ ntx[n] \in 0..MaxTx
        BY <1>0, <1>12, Zenon DEF PostLocked, SendTypes, AtOK
      <4> QED BY <4>1, SendBoundsAssumption
    <3>4. PICK m \in Message : Written(m, n, "FAST_REQUEST", 0)
      BY <1>0, <2>3, <3>1, <3>2, <3>3, WriteShape, Zenon
    <3>5. m \in FastMsgs
      BY <3>4, Zenon DEF Written, FastMsgs
    <3>6. d = a + Unit(m \in FastMsgs)
      BY <1>0, <1>1, <1>6, <3>4, MarkedAppend, ZenonT(60) DEF Written
    <3>7. d = a + 1
      BY <3>5, <3>6, Zenon DEF Unit
    <3> QED BY <1>4, <1>5, <1>9, <1>10, <2>1, <2>3, <3>7, SMTT(40)
  <2> QED BY <1>12, <2>2, <2>3, Zenon DEF PostLocked
<1>13. ASSUME HandleMsg
       PROVE  \/ Owed' = Owed /\ g2h_space' = g2h_space
              \/ Owed = Owed' + 1 /\ g2h_space' = g2h_space + EventLen
  <2>1. g2h # <<>> /\ g2h' = Tail(g2h) /\ UNCHANGED <<h2g, guc>>
    BY <1>13, Zenon DEF HandleMsg
  <2>2. g2h' \in Seq(Answer) /\ Head(g2h) \in Answer /\ Head(g2h) = g2h[1] /\ 1 \in 1..Len(g2h)
    BY <1>0, <2>1
  <2>3. g \in Nat
    BY <1>8, <2>2, MarkedFinite, Zenon
  <2>4. c = g + Unit(Head(g2h) \in EventAnswers)
    BY <1>0, <1>3, <1>8, <2>1, MarkedTail, Zenon
  <2>5. Head(g2h) \in EventAnswers <=> Head(g2h).type = "EVENT"
    BY <2>2, Zenon DEF MsgInv, EventAnswers
  <2>6. CASE Head(g2h).type = "EVENT"
    <3>1. g2h_space' = g2h_space + EventLen
      BY <1>13, <2>6, Zenon DEF HandleMsg
    <3>2. Unit(Head(g2h) \in EventAnswers) = 1
      BY <2>5, <2>6, Zenon DEF Unit
    <3>3. c = g + 1
      BY <2>4, <3>2, Zenon
    <3> QED BY <1>4, <1>5, <1>9, <1>10, <2>1, <2>3, <3>1, <3>3
  <2>7. CASE Head(g2h).type # "EVENT"
    <3>1. g2h_space' = g2h_space
      BY <1>13, <2>7, Zenon DEF HandleMsg
    <3>2. Unit(Head(g2h) \in EventAnswers) = 0
      BY <2>5, <2>7, Zenon DEF Unit
    <3>3. c = g + 0
      BY <2>4, <3>2, Zenon
    <3> QED BY <1>4, <1>5, <1>9, <1>10, <2>1, <2>3, <3>1, <3>3, SMTT(40)
  <2> QED BY <2>6, <2>7, Zenon
<1>14. ASSUME NEW t \in Threads, Write(t) PROVE Owed' = Owed
  <2>1. UNCHANGED <<guc, g2h>>
    BY <1>14, Zenon DEF Write
  <2>2. CASE h2g' = h2g
    BY <1>11, <2>1, <2>2, Zenon
  <2>3. CASE ct_write(t, "REQUEST", rq[t].fence)
    <3>1. rq[t].fence \in Fences
      BY DEF SendTypes, RqOK, Request
    <3>2. h2g_has_room /\ ntx[t] < MaxTx
      BY <1>14, Zenon DEF Write, has_room_nb
    <3>4. PICK m \in Message : Written(m, t, "REQUEST", rq[t].fence)
      BY <1>0, <2>3, <3>1, <3>2, WriteShape, Zenon
    <3>5. m \notin FastMsgs
      BY <3>4, Zenon DEF Written, FastMsgs
    <3>6. d = a + Unit(m \in FastMsgs)
      BY <1>0, <1>1, <1>6, <3>4, MarkedAppend, ZenonT(60) DEF Written
    <3>7. d = a + 0
      BY <3>5, <3>6, Zenon DEF Unit
    <3> QED BY <1>4, <1>5, <1>9, <1>10, <2>1, <3>7, SMTT(40)
  <2> QED BY <1>14, <2>2, <2>3, Zenon DEF Write
<1>15. ASSUME GucFetch PROVE Owed' = Owed
  <2>1. /\ h2g # <<>> /\ guc' = guc \cup {Head(h2g)} /\ h2g' = Tail(h2g) /\ g2h' = g2h
    BY <1>15, Zenon DEF GucFetch
  <2>2. Head(h2g) \notin guc
    BY <1>15, MsgFetch, Zenon
  <2>3. a = d + Unit(Head(h2g) \in FastMsgs)
    BY <1>0, <1>1, <1>6, <2>1, MarkedTail, Zenon
  <2>4. e = b + Unit(Head(h2g) \in FastMsgs)
    BY <1>2, <1>7, <2>1, <2>2, PartAdd, Zenon
  <2>5. h2g' \in Seq(Message)
    BY <1>0, <2>1
  <2>6. d \in Nat
    BY <1>6, <2>5, MarkedFinite, Zenon
  <2>7. PICK u : u = Unit(Head(h2g) \in FastMsgs)
    BY Zenon
  <2>8. u \in Nat
    BY <2>7 DEF Unit
  <2> QED BY <1>4, <1>5, <1>9, <1>10, <2>1, <2>3, <2>4, <2>6, <2>7, <2>8, SMTT(40)
<1>16. ASSUME GucReply PROVE Owed' = Owed
  <2>1. PICK m \in guc, x \in Answer :
            /\ guc' = guc \ {m} /\ g2h' = Append(g2h, x) /\ x.of = <<m.from, m.tx>>
            /\ m.kind = "FAST_REQUEST" <=> m.from \in Posters
    BY <1>16, ReplyShape, Zenon
  <2>2. h2g' = h2g
    BY <1>16, Zenon DEF GucReply
  <2>3. x.of[1] = m.from
    BY <2>1
  <2>4. m \in FastMsgs <=> x \in EventAnswers
    BY <1>0, <2>1, <2>3, Zenon DEF FastMsgs, EventAnswers
  <2>5. Unit(m \in FastMsgs) = Unit(x \in EventAnswers)
    BY <2>4, Zenon DEF Unit
  <2>6. b = e + Unit(m \in FastMsgs)
    BY <1>2, <1>7, <2>1, PartRemove, Zenon
  <2>7. g = c + Unit(x \in EventAnswers)
    BY <1>0, <1>3, <1>8, <2>1, MarkedAppend, ZenonT(60)
  <2>8. e \in Nat
    <3>1. IsFiniteSet(guc \ {m})
      BY FS_RemoveElement, Zenon
    <3> QED BY <1>7, <2>1, <3>1, PartFinite, Zenon
  <2>9. PICK u : u = Unit(m \in FastMsgs) /\ u = Unit(x \in EventAnswers)
    BY <2>5, Zenon
  <2>10. u \in Nat
    BY <2>9 DEF Unit
  <2> QED BY <1>4, <1>5, <1>9, <1>10, <2>2, <2>6, <2>7, <2>8, <2>9, <2>10, SMTT(40)
<1>17. ASSUME NEW t \in Threads, Release(t) PROVE Owed' = Owed
  BY <1>11, <1>17, Zenon DEF Release, chan_vars
<1>18. Owed \in Nat
  BY <1>4, <1>5
<1>19. (\A n \in Posters : ~PostLocked(n)) /\ ~HandleMsg /\ ~Enable => Owed' = Owed
  BY <1>11, <1>14, <1>15, <1>16, <1>17, ChanFrame, Zenon
<1> QED BY <1>12, <1>13, <1>18, <1>19, Zenon

\* Every step keeps the account: what g2h_reserve_space() takes,
\* g2h_release_space() gives back or a message under way stands for.
LEMMA AccountStep ==
    ASSUME RoomIInv, [SendNext]_send_vars
    PROVE  AccountInv'
<1>0. /\ SendTypes /\ MsgInv /\ IsFiniteSet(guc) /\ IsFiniteSet(Holding)
      /\ ~enabled => ntoggles >= 1
      /\ g2h_space \in Nat /\ ntoggles \in Nat
      /\ ntoggles < 2 => g2h_space + MaxLen * Cardinality(Holding) + EventLen * Owed = G2HSpace
  <2>1. /\ SendTypes /\ MsgInv /\ AccountInv
    BY Zenon DEF RoomIInv
  <2>2. g2h_space \in Nat /\ ntoggles \in Nat
    BY <2>1, SendBoundsAssumption DEF SendTypes, MiscOK, ChanOK
  <2> QED BY <2>1, <2>2, Zenon DEF AccountInv, Owed
<1>1. Owed \in Nat
  BY <1>0, OwedStep, Zenon
<1>2. PICK h : h = Cardinality(Holding)
  BY Zenon
<1>3. h \in Nat
  BY <1>0, <1>2, FS_CardinalityType, Zenon
<1>4. PICK h2 : h2 = Cardinality(Holding')
  BY Zenon
<1>5. g2h_space' \in Nat
  BY <1>0, ChanStep, Zenon DEF ChanOK
<1>6. IsFiniteSet(guc')
  <2>1. CASE guc' = guc
    BY <1>0, <2>1, Zenon
  <2>2. CASE GucFetch
    <3>1. guc' = guc \cup {Head(h2g)}
      BY <2>2, Zenon DEF GucFetch
    <3> QED BY <1>0, <3>1, FS_AddElement, Zenon
  <2>3. CASE GucReply
    <3>1. PICK m : guc' = guc \ {m}
      BY <2>3, Zenon DEF GucReply
    <3> QED BY <1>0, <3>1, FS_RemoveElement, Zenon
  <2>4. CASE Enable
    BY <2>4, FS_EmptySet, Zenon DEF Enable
  <2>5. ASSUME NEW t \in Threads, Write(t) \/ Release(t) PROVE guc' = guc
    BY <2>5, Zenon DEF Write, Release, chan_vars
  <2>6. ASSUME NEW n \in Posters, PostLocked(n) PROVE guc' = guc
    BY <2>6, Zenon DEF PostLocked
  <2>7. HandleMsg => guc' = guc
    BY Zenon DEF HandleMsg
  <2> QED BY <2>1, <2>2, <2>3, <2>4, <2>5, <2>6, <2>7, ChanFrame, Zenon
<1>7. IsFiniteSet(Holding')
  <2>1. ASSUME NEW t \in Threads, Write(t) PROVE IsFiniteSet(Holding')
    <3>1. Holding' = Holding \cup {t}
      BY <1>0, <2>1, HoldingStep, Zenon
    <3> QED BY <1>0, <3>1, FS_AddElement, Zenon
  <2>2. ASSUME NEW t \in Threads, Release(t) PROVE IsFiniteSet(Holding')
    BY <1>0, <2>2, HoldingStep, FS_RemoveElement, ZenonT(60)
  <2> QED BY <1>0, <2>1, <2>2, HoldingStep, Zenon
<1>8. \/ UNCHANGED <<enabled, ntoggles>>
      \/ enabled /\ ntoggles' = ntoggles + 1 /\ (Disable \/ Sanitize)
      \/ ~enabled /\ enabled' /\ ntoggles' = ntoggles + 1 /\ Enable
  <2>1. ASSUME NEW t \in Threads, Send(t) PROVE UNCHANGED <<enabled, ntoggles>>
    BY <2>1, Zenon DEF Send, SendCheck, SendStart, WaitForRoom, RoomSignal, Write, WaitDone,
                       WaitSleep, WaitFails, Release, Unlink, Erase
  <2>2. ASSUME NEW n \in Posters, Post(n) PROVE UNCHANGED <<enabled, ntoggles>>
    BY <2>2, Zenon DEF Post, PostStart, PostCheck, PostLocked
  <2>3. CASE \/ GucFetch \/ GucReply \/ GucError \/ Interrupt \/ PollReceive \/ HandleMsg
             \/ Deliver \/ ReadEnd \/ UNCHANGED send_vars
    BY <2>3, Zenon DEF GucFetch, GucReply, GucError, Interrupt, PollReceive, HandleMsg, Deliver,
                       ReadEnd, send_vars
  <2>4. CASE Disable \/ Sanitize
    BY <2>4, Zenon DEF Disable, Sanitize
  <2>5. CASE Enable
    BY <2>5, Zenon DEF Enable
  <2> QED BY <2>1, <2>2, <2>3, <2>4, <2>5, Zenon DEF SendNext, Read
<1>9. ~enabled' => ntoggles' >= 1
  BY <1>0, <1>8
<1>10. ASSUME ntoggles' < 2 PROVE ntoggles < 2 /\ ~Enable
  <2>1. Enable => ~enabled /\ ntoggles' = ntoggles + 1
    BY Zenon DEF Enable
  <2> QED BY <1>0, <1>8, <1>10, <2>1
<1>11. ASSUME ntoggles' < 2
       PROVE  g2h_space' + MaxLen * h2 + EventLen * Owed' = G2HSpace
  <2>0. g2h_space + MaxLen * h + EventLen * Owed = G2HSpace /\ ~Enable
    BY <1>0, <1>2, <1>10, <1>11, Zenon
  <2>1. /\ MaxLen \in Nat /\ EventLen \in Nat /\ MaxLen * h \in Nat /\ EventLen * Owed \in Nat
        /\ MaxLen * (h + 1) = MaxLen * h + MaxLen
        /\ EventLen * (Owed + 1) = EventLen * Owed + EventLen
    BY <1>1, <1>3, LengthsAssumption, TimesMore, SMTT(40)
  <2>2. ASSUME NEW t \in Threads, Write(t)
        PROVE  g2h_space' + MaxLen * h2 + EventLen * Owed' = G2HSpace
    <3>1. h2 = h + 1
      BY <1>0, <1>2, <1>4, <2>2, HoldingStep, FS_AddElement, Zenon
    <3>2. Owed' = Owed
      <4>1. \A n \in Posters : ~PostLocked(n)
        <5>1. at[t] = "resend" /\ t \notin Posters /\ guc' = guc /\ g2h_space' = g2h_space - MaxLen
          BY <2>2, SendersAssumption, Zenon DEF Write
        <5>2. \A n \in Posters : PostLocked(n) => at'[t] = at[t]
          BY <1>0, <5>1, SendersAssumption, Zenon DEF PostLocked, SendTypes, AtOK, Senders
        <5>3. at'[t] # "resend"
          <6>1. t \in Senders /\ at \in [Senders -> Places]
            BY <1>0, Zenon DEF SendTypes, AtOK, Senders
          <6> QED BY <2>2, <6>1, Zenon DEF Write
        <5> QED BY <5>1, <5>2, <5>3, Zenon
      <4>2. ~HandleMsg
        <5>1. at'[t] # at[t]
          <6>1. t \in Senders /\ at \in [Senders -> Places]
            BY <1>0, Zenon DEF SendTypes, AtOK, Senders
          <6> QED BY <2>2, <6>1, Zenon DEF Write
        <5> QED BY <5>1, Zenon DEF HandleMsg
      <4> QED BY <1>0, <2>0, <4>1, <4>2, OwedStep, Zenon
    <3>3. g2h_space' = g2h_space - MaxLen
      BY <2>2, Zenon DEF Write
    <3> QED BY <1>0, <2>0, <2>1, <3>1, <3>2, <3>3, SMTT(40)
  <2>3. ASSUME NEW t \in Threads, Release(t)
        PROVE  g2h_space' + MaxLen * h2 + EventLen * Owed' = G2HSpace
    <3>1. h = h2 + 1 /\ h2 \in Nat
      <4>1. t \in Holding /\ Holding' = Holding \ {t}
        BY <1>0, <2>3, HoldingStep, Zenon
      <4>2. h2 = h - 1
        BY <1>0, <1>2, <1>4, <4>1, FS_RemoveElement, Zenon
      <4>3. h2 \in Nat
        BY <1>4, <1>7, FS_CardinalityType, Zenon
      <4> QED BY <1>3, <4>2, <4>3
    <3>2. Owed' = Owed
      <4>1. UNCHANGED <<h2g, guc, g2h>>
        BY <2>3, Zenon DEF Release, chan_vars
      <4> QED BY <4>1, Zenon DEF Owed, Marked
    <3>3. g2h_space' = g2h_space + MaxLen
      BY <2>3, Zenon DEF Release
    <3>4. MaxLen * h = MaxLen * h2 + MaxLen /\ MaxLen * h2 \in Nat
      BY <2>1, <3>1, TimesMore
    <3> QED BY <1>0, <2>0, <2>1, <3>2, <3>3, <3>4, SMTT(40)
  <2>4. ASSUME Owed' = Owed, g2h_space' = g2h_space, h2 = h
        PROVE  g2h_space' + MaxLen * h2 + EventLen * Owed' = G2HSpace
    BY <2>0, <2>4, Zenon
  <2>5. (\A t \in Threads : ~Write(t) /\ ~Release(t)) => h2 = h
    BY <1>0, <1>2, <1>4, HoldingStep, Zenon
  <2>6. ASSUME \A t \in Threads : ~Write(t) /\ ~Release(t), NEW n \in Posters, PostLocked(n)
        PROVE  g2h_space' + MaxLen * h2 + EventLen * Owed' = G2HSpace
    <3>1. CASE Owed' = Owed /\ g2h_space' = g2h_space
      BY <2>4, <2>5, <2>6, <3>1, Zenon
    <3>2. CASE Owed' = Owed + 1 /\ g2h_space' = g2h_space - EventLen
      <4>1. h2 = h
        BY <2>5, <2>6, Zenon
      <4> QED BY <1>0, <2>0, <2>1, <3>2, <4>1, SMTT(40)
    <3> QED BY <1>0, <2>6, <3>1, <3>2, OwedStep, Zenon
  <2>7. ASSUME \A t \in Threads : ~Write(t) /\ ~Release(t), HandleMsg
        PROVE  g2h_space' + MaxLen * h2 + EventLen * Owed' = G2HSpace
    <3>1. CASE Owed' = Owed /\ g2h_space' = g2h_space
      BY <2>4, <2>5, <2>7, <3>1, Zenon
    <3>2. CASE Owed = Owed' + 1 /\ g2h_space' = g2h_space + EventLen
      <4>1. h2 = h
        BY <2>5, <2>7, Zenon
      <4>2. Owed' \in Nat
        <5>1. h2g' \in Seq(Message) /\ g2h' \in Seq(Answer)
          BY <1>0, ChanStep, Zenon DEF ChanOK
        <5>2. PICK x : x = Cardinality(Marked(h2g', FastMsgs))
          BY Zenon
        <5>3. PICK y : y = Cardinality(guc' \cap FastMsgs)
          BY Zenon
        <5>4. PICK z : z = Cardinality(Marked(g2h', EventAnswers))
          BY Zenon
        <5>5. x \in Nat /\ y \in Nat /\ z \in Nat
          BY <1>6, <5>1, <5>2, <5>3, <5>4, MarkedFinite, PartFinite, ZenonT(60)
        <5>6. Owed' = x + y + z
          BY <5>2, <5>3, <5>4, Zenon DEF Owed, Marked, FastMsgs, EventAnswers, Message, Answer
        <5> QED BY <5>5, <5>6
      <4>3. EventLen * Owed = EventLen * Owed' + EventLen /\ EventLen * Owed' \in Nat
        BY <2>1, <3>2, <4>2, TimesMore, ZenonT(60)
      <4> QED BY <1>0, <2>0, <2>1, <3>2, <4>1, <4>3, SMTT(40)
    <3> QED BY <1>0, <2>7, <3>1, <3>2, OwedStep, Zenon
  <2>8. ASSUME \A t \in Threads : ~Write(t) /\ ~Release(t), \A n \in Posters : ~PostLocked(n),
               ~HandleMsg
        PROVE  g2h_space' + MaxLen * h2 + EventLen * Owed' = G2HSpace
    <3>1. Owed' = Owed
      BY <1>0, <2>0, <2>8, OwedStep, Zenon
    <3>2. g2h_space' = g2h_space
      <4>1. CASE GucFetch \/ GucReply
        BY <4>1, Zenon DEF GucFetch, GucReply
      <4> QED BY <2>0, <2>8, <4>1, ChanFrame, Zenon
    <3> QED BY <2>4, <2>5, <2>8, <3>1, <3>2, Zenon
  <2> QED BY <2>2, <2>3, <2>6, <2>7, <2>8, Zenon
<1> QED BY <1>4, <1>6, <1>7, <1>9, <1>11, Zenon
        DEF AccountInv, Owed, Holding, Marked, FastMsgs, EventAnswers, Message, Answer

\* The account is right when all credits are in the counter.
LEMMA AccountInit == SendInit => AccountInv
<1> SUFFICES ASSUME SendInit PROVE AccountInv
  BY Zenon
<1>1. /\ h2g = <<>> /\ g2h = <<>> /\ guc = {} /\ g2h_space = G2HSpace /\ enabled
      /\ ntoggles = 0 /\ at = [s \in Senders |-> "idle"]
  BY Zenon DEF SendInit
<1>2. Holding = {}
  BY <1>1, Zenon DEF Holding, Senders
<1>3. Cardinality(Marked(h2g, FastMsgs)) = 0 /\ Cardinality(Marked(g2h, EventAnswers)) = 0
  BY <1>1, MarkedEmpty, Zenon
<1>4. guc \cap FastMsgs = {}
  BY <1>1, Zenon
<1>5. Cardinality(guc \cap FastMsgs) = 0 /\ Cardinality(Holding) = 0
      /\ IsFiniteSet(guc) /\ IsFiniteSet(Holding)
  BY <1>1, <1>2, <1>4, FS_EmptySet, Zenon
<1>6. G2HSpace + MaxLen * 0 + EventLen * (0 + 0 + 0) = G2HSpace
  BY LengthsAssumption
<1> QED BY <1>1, <1>3, <1>5, <1>6, Zenon DEF AccountInv

\* The sets that RoomTrue counts are those of the account.
LEMMA EventSets ==
    ASSUME SendTypes
    PROVE  /\ {i \in DOMAIN h2g : h2g[i].kind = "FAST_REQUEST"} = Marked(h2g, FastMsgs)
           /\ {m \in guc : m.kind = "FAST_REQUEST"} = guc \cap FastMsgs
           /\ Events(g2h) = Marked(g2h, EventAnswers)
<1>0. h2g \in Seq(Message) /\ guc \subseteq Message /\ g2h \in Seq(Answer)
  BY Zenon DEF SendTypes, ChanOK
<1>1. /\ DOMAIN h2g = 1..Len(h2g) /\ \A i \in 1..Len(h2g) : h2g[i] \in Message
      /\ DOMAIN g2h = 1..Len(g2h) /\ \A i \in 1..Len(g2h) : g2h[i] \in Answer
  BY <1>0
<1>2. {i \in DOMAIN h2g : h2g[i].kind = "FAST_REQUEST"} = Marked(h2g, FastMsgs)
  BY <1>1, Zenon DEF Marked, FastMsgs
<1>3. {m \in guc : m.kind = "FAST_REQUEST"} = guc \cap FastMsgs
  BY <1>0, Zenon DEF FastMsgs
<1>4. Events(g2h) = Marked(g2h, EventAnswers)
  BY <1>1, Zenon DEF Events, Marked, EventAnswers
<1> QED BY <1>2, <1>3, <1>4, Zenon

\* The invariant of the account, which needs no hypothesis.
LEMMA RoomIInvInvariant == SendSpec => []RoomIInv
<1>1. SendInit => RoomIInv
  BY SendInitTypes, MsgInit, AccountInit, Zenon DEF RoomIInv
<1>2. RoomIInv /\ [SendNext]_send_vars => RoomIInv'
  BY SendTypesStep, MsgStep, AccountStep, Zenon DEF RoomIInv
<1> QED BY <1>1, <1>2, PTL DEF SendSpec

\* The account of the credits is right and the cached space of the H2G ring
\* honest, for any number of threads and posters, any lengths and answers,
\* whatever errors end the requests, until a disabled transport is enabled
\* again: g2h_reserve_space() and g2h_release_space() balance.
THEOREM CreditsBalance == SendSpec => []RoomTrue
<1>1. RoomIInv => RoomTrue
  <2> SUFFICES ASSUME RoomIInv PROVE RoomTrue
    BY Zenon
  <2>0. SendTypes /\ AccountInv
    BY Zenon DEF RoomIInv
  <2>1. h2g_space <= H2GSpace - Len(h2g)
    BY <2>0, Zenon DEF SendTypes, ChanOK
  <2>2. EventsOwed + Cardinality(Events(g2h))
          = Cardinality(Marked(h2g, FastMsgs)) + Cardinality(guc \cap FastMsgs)
              + Cardinality(Marked(g2h, EventAnswers))
    BY <2>0, EventSets, Zenon DEF EventsOwed
  <2> QED BY <2>0, <2>1, <2>2, Zenon DEF AccountInv, RoomTrue
<1> QED BY <1>1, RoomIInvInvariant, PTL

-----------------------------------------------------------------------------
(* Answers and requests. As long as the transport stays on, no request is  *)
(* abandoned and the GuC asks for no retry, a request is in exactly one    *)
(* place from the write to the response.                                   *)

\* Requests end early only because the descriptor is flagged, before they are
\* written, and are never sent twice.
Calm == GiveUps \subseteq {"EPIPE"} /\ "RETRY" \notin Responses

InFlight(t) == at[t] \in {"wait", "asleep"} /\ rq[t].status.type = "none"

InH2G(t) == \E i \in 1..Len(h2g) : h2g[i].from = t
InGuc(t) == \E m \in guc : m.from = t
InG2H(t) == \E i \in 1..Len(g2h) : g2h[i].of[1] = t
InHand(t) == found # Nobody /\ found.to = t

\* Only a request in flight is anywhere, in one place and once.
OnePlace(t) ==
    /\ InH2G(t) => InFlight(t) /\ ~InGuc(t) /\ ~InG2H(t) /\ ~InHand(t)
    /\ InGuc(t) => InFlight(t) /\ ~InG2H(t) /\ ~InHand(t)
    /\ InG2H(t) => InFlight(t) /\ ~InHand(t)
    /\ InHand(t) => InFlight(t)

Once(t) ==
    /\ \A i, j \in 1..Len(h2g) : h2g[i].from = t /\ h2g[j].from = t => i = j
    /\ \A m, n \in guc : m.from = t /\ n.from = t => m = n
    /\ \A i, j \in 1..Len(g2h) : g2h[i].of[1] = t /\ g2h[j].of[1] = t => i = j

PlaceInv == \A t \in Threads : OnePlace(t) /\ Once(t)

\* It carries the fence of the request and the number of its transmission.
CarryInv ==
    \A t \in Threads :
        /\ \A i \in 1..Len(h2g) :
              h2g[i].from = t => h2g[i].tx = ntx[t] /\ h2g[i].fence = rq[t].fence
        /\ \A m \in guc : m.from = t => m.tx = ntx[t] /\ m.fence = rq[t].fence
        /\ \A i \in 1..Len(g2h) :
              g2h[i].of[1] = t => g2h[i].of[2] = ntx[t] /\ g2h[i].fence = rq[t].fence
        /\ InHand(t) => found.of = <<t, ntx[t]>>

LinkInv == \A t \in Threads : Linked(t) => fences[rq[t].fence] = t

\* A status is that of the transmission that is waited for.
StatusOf(t) ==
    /\ at[t] = "resend" => rq[t].status.type = "none"
    /\ at[t] \in {"wait", "asleep"} => err[t] = "0"
    /\ at[t] \in {"wait", "asleep"} /\ rq[t].status.type # "none" =>
          rq[t].status.of = <<t, ntx[t]>>
    /\ at[t] = "release" /\ err[t] = "0" => rq[t].status.of = <<t, ntx[t]>>
    /\ rq[t].status.type # "RETRY"

StatusInv == \A t \in Threads : StatusOf(t)

FlightInv == PlaceInv /\ CarryInv

CalmInv == wq \in Seq(Threads) /\ LinkInv /\ StatusInv /\ FlightInv
CalmIInv == RoomIInv /\ (ntoggles = 0 => CalmInv)

Flights == {t \in Threads : InFlight(t)}
ReqMsgs == {m \in Message : m.kind = "REQUEST"}
Replies == {a \in Answer : a.of[1] \notin Posters}

\* There are no more requests and responses under way than requests in flight.
UnderWay == Cardinality(Marked(h2g, ReqMsgs)) + Cardinality(guc \cap ReqMsgs)
               + Cardinality(Marked(g2h, Replies)) + Unit(found # Nobody)
CountInv == ntoggles = 0 => UnderWay <= Cardinality(Flights)

\* The other threads stay where they are.
Others(t) ==
    \A u \in Threads : u # t => /\ at'[u] = at[u] /\ rq'[u] = rq[u]
                                /\ err'[u] = err[u] /\ ntx'[u] = ntx[u]

\* Then only the status of t has to be looked at,
LEMMA OthersStatus ==
    ASSUME StatusInv, NEW t \in Threads, Others(t), StatusOf(t)'
    PROVE  StatusInv'
<1>1. ASSUME NEW u \in Threads, u # t PROVE StatusOf(u)'
  <2>1. StatusOf(u)
    BY Zenon DEF StatusInv
  <2>2. at'[u] = at[u] /\ rq'[u] = rq[u] /\ err'[u] = err[u] /\ ntx'[u] = ntx[u]
    BY <1>1, Zenon DEF Others
  <2> QED BY <2>1, <2>2, Zenon DEF StatusOf
<1> QED BY <1>1, Zenon DEF StatusInv

\* ... and only the slot of t.
LEMMA OthersLinked ==
    ASSUME LinkInv, NEW t \in Threads, Others(t), fences' = fences,
           Linked(t)' => Linked(t) /\ rq'[t].fence = rq[t].fence
    PROVE  LinkInv'
<1>1. ASSUME NEW u \in Threads, Linked(u)' PROVE Linked(u) /\ rq'[u].fence = rq[u].fence
  BY <1>1, Zenon DEF Others, Linked
<1> QED BY <1>1, Zenon DEF LinkInv

\* A step that moves no message keeps the requests in flight in place, as long
\* as they stay in flight.
LEMMA FlightFrame ==
    ASSUME FlightInv, UNCHANGED <<h2g, guc, g2h, found>>,
           \A t \in Threads : InFlight(t) =>
               InFlight(t)' /\ ntx'[t] = ntx[t] /\ rq'[t].fence = rq[t].fence
    PROVE  FlightInv'
<1>1. ASSUME NEW t \in Threads
      PROVE  /\ InH2G(t)' <=> InH2G(t)
             /\ InGuc(t)' <=> InGuc(t)
             /\ InG2H(t)' <=> InG2H(t)
             /\ InHand(t)' <=> InHand(t)
  BY Zenon DEF InH2G, InGuc, InG2H, InHand
<1>2. PlaceInv'
  <2>1. \A t \in Threads : OnePlace(t) /\ Once(t)
    BY Zenon DEF FlightInv, PlaceInv
  <2>2. ASSUME NEW t \in Threads PROVE OnePlace(t)'
    BY <1>1, <2>1, ZenonT(60) DEF OnePlace
  <2>3. ASSUME NEW t \in Threads PROVE Once(t)'
    <3>1. Once(t) /\ h2g' = h2g /\ guc' = guc /\ g2h' = g2h
      BY <2>1, Zenon
    <3> QED BY <3>1 DEF Once
  <2> QED BY <2>2, <2>3, Zenon DEF PlaceInv
<1>3. CarryInv'
  <2> SUFFICES ASSUME NEW t \in Threads
      PROVE  /\ \A i \in 1..Len(h2g) :
                   h2g[i].from = t => h2g[i].tx = ntx'[t] /\ h2g[i].fence = rq'[t].fence
             /\ \A m \in guc : m.from = t => m.tx = ntx'[t] /\ m.fence = rq'[t].fence
             /\ \A i \in 1..Len(g2h) :
                   g2h[i].of[1] = t => g2h[i].of[2] = ntx'[t] /\ g2h[i].fence = rq'[t].fence
             /\ InHand(t) => found.of = <<t, ntx'[t]>>
    BY <1>1, ZenonT(60) DEF CarryInv
  <2>1. InH2G(t) \/ InGuc(t) \/ InG2H(t) \/ InHand(t) =>
            ntx'[t] = ntx[t] /\ rq'[t].fence = rq[t].fence
    BY Zenon DEF FlightInv, PlaceInv, OnePlace
  <2>2. /\ \A i \in 1..Len(h2g) : h2g[i].from = t => InH2G(t)
        /\ \A m \in guc : m.from = t => InGuc(t)
        /\ \A i \in 1..Len(g2h) : g2h[i].of[1] = t => InG2H(t)
    BY Zenon DEF InH2G, InGuc, InG2H
  <2> QED BY <2>1, <2>2, Zenon DEF FlightInv, CarryInv
<1> QED BY <1>2, <1>3, Zenon DEF FlightInv

\* The same for the step of one thread.
LEMMA FlightOthers ==
    ASSUME FlightInv, UNCHANGED <<h2g, guc, g2h, found>>, NEW t \in Threads, Others(t),
           InFlight(t) => InFlight(t)' /\ ntx'[t] = ntx[t] /\ rq'[t].fence = rq[t].fence
    PROVE  FlightInv'
<1>1. ASSUME NEW u \in Threads, InFlight(u)
      PROVE  InFlight(u)' /\ ntx'[u] = ntx[u] /\ rq'[u].fence = rq[u].fence
  BY <1>1, Zenon DEF Others, InFlight
<1> QED BY <1>1, FlightFrame, Zenon

\* The steps of a thread, the write that succeeds apart.
LEMMA CalmThread ==
    ASSUME Calm, SendTypes, LinkInv, StatusInv, FlightInv, enabled, NEW t \in Threads,
           Send(t), h2g' = h2g
    PROVE  LinkInv' /\ StatusInv' /\ FlightInv'
<1>0. /\ at \in [Senders -> Places] /\ rq \in [Threads -> Request]
      /\ err \in [Threads -> Errors] /\ ntx \in [Senders -> 0..MaxTx]
      /\ fences \in [Fences -> Threads \cup {Nobody}]
      /\ h2g \in Seq(Message) /\ Threads \subseteq Senders
      /\ "ERESTARTSYS" \notin GiveUps /\ "ETIME" \notin GiveUps
      /\ StatusOf(t) /\ Nobody \notin Threads
  BY SendersAssumption, Zenon
     DEF SendTypes, AtOK, RqOK, MiscOK, ChanOK, Senders, Calm, StatusInv
<1>1. ASSUME NEW x \in Places, at' = [at EXCEPT ![t] = x], UNCHANGED <<rq, err, ntx>>
      PROVE  Others(t) /\ at'[t] = x
  BY <1>0, <1>1, Zenon DEF Others
<1>2. CASE SendCheck(t)
  <2>1. /\ at[t] = "idle" /\ at' = [at EXCEPT ![t] = "checked"]
        /\ UNCHANGED <<rq, err, ntx, fences, h2g, guc, g2h, found>>
    BY <1>2, Zenon DEF SendCheck, chan_vars, recv_vars
  <2>2. Others(t) /\ at'[t] = "checked"
    BY <1>1, <2>1, Zenon DEF Places
  <2>3. LinkInv'
    BY <2>1, <2>2, OthersLinked, Zenon DEF Linked
  <2>4. StatusOf(t)'
    BY <1>0, <2>1, <2>2, Zenon DEF StatusOf
  <2>5. FlightInv'
    BY <2>1, <2>2, FlightOthers, Zenon DEF InFlight
  <2> QED BY <2>2, <2>3, <2>4, <2>5, OthersStatus, Zenon
<1>3. CASE SendStart(t)
  <2>1. PICK f \in NextFence(t) :
            /\ fences' = [fences EXCEPT ![f] = t]
            /\ rq' = [rq EXCEPT ![t] = [fence |-> f, status |-> NoStatus, tsk |-> FALSE]]
    BY <1>3, Zenon DEF SendStart
  <2>2. /\ at[t] = "checked" /\ at' = [at EXCEPT ![t] = "resend"]
        /\ UNCHANGED <<err, ntx, h2g, guc, g2h, found>>
    BY <1>3, Zenon DEF SendStart, chan_vars, recv_vars
  <2>3. f \in Fences /\ fences[f] = Nobody
    BY SlotInRange, Zenon
  <2>4. Others(t) /\ at'[t] = "resend"
    BY <1>0, <2>1, <2>2, Zenon DEF Others
  <2>5. rq'[t].fence = f /\ rq'[t].status.type = "none"
    BY <1>0, <2>1 DEF NoStatus
  <2>6. LinkInv'
    <3>1. fences'[f] = t /\ \A g \in Fences : g # f => fences'[g] = fences[g]
      BY <1>0, <2>1, <2>3, Zenon
    <3>2. ASSUME NEW u \in Threads, u # t, Linked(u)' PROVE fences'[rq'[u].fence] = u
      <4>1. Linked(u) /\ rq'[u] = rq[u]
        BY <2>4, <3>2, Zenon DEF Others, Linked
      <4>2. fences[rq[u].fence] = u /\ rq[u].fence # f
        BY <1>0, <2>3, <4>1, Zenon DEF LinkInv
      <4>3. rq[u].fence \in Fences
        BY <1>0 DEF Request
      <4> QED BY <3>1, <4>1, <4>2, <4>3, Zenon
    <3> QED BY <2>5, <3>1, <3>2, Zenon DEF LinkInv
  <2>7. StatusOf(t)'
    BY <2>4, <2>5, Zenon DEF StatusOf
  <2>8. FlightInv'
    BY <2>2, <2>4, FlightOthers, Zenon DEF InFlight
  <2> QED BY <2>4, <2>6, <2>7, <2>8, OthersStatus, Zenon
<1>4. CASE WaitForRoom(t)
  <2>1. UNCHANGED <<at, rq, err, ntx, fences, h2g, guc, g2h, found>>
    BY <1>4, Zenon DEF WaitForRoom, chan_vars, recv_vars
  <2>2. Others(t)
    BY <2>1, Zenon DEF Others
  <2>3. LinkInv'
    BY <2>1, Zenon DEF LinkInv, Linked
  <2>4. StatusOf(t)'
    BY <1>0, <2>1, Zenon DEF StatusOf
  <2>5. FlightInv'
    BY <2>1, <2>2, FlightOthers, Zenon DEF InFlight
  <2> QED BY <2>2, <2>3, <2>4, <2>5, OthersStatus, Zenon
<1>5. CASE Write(t)
  <2>1. h2g_status
    <3>1. ~h2g_status => \E m : h2g' = Append(h2g, m)
      BY <1>5, Zenon DEF Write, ct_write
    <3>2. \A m : Append(h2g, m) # h2g
      <4> SUFFICES ASSUME NEW m PROVE Append(h2g, m) # h2g
        BY Zenon
      <4>1. Len(h2g) \in Nat /\ Len(Append(h2g, m)) = Len(h2g) + 1
        BY <1>0
      <4> QED BY <4>1
    <3> QED BY <3>1, <3>2, Zenon
  <2>2. /\ at[t] = "resend" /\ at' = [at EXCEPT ![t] = "release"]
        /\ err' = [err EXCEPT ![t] = "EPIPE"]
        /\ UNCHANGED <<rq, ntx, fences, h2g, guc, g2h, found>>
    BY <1>5, <2>1, Zenon DEF Write, recv_vars
  <2>3. Others(t) /\ at'[t] = "release" /\ err'[t] = "EPIPE"
    BY <1>0, <2>2, Zenon DEF Others
  <2>4. LinkInv'
    BY <2>2, <2>3, OthersLinked, Zenon DEF Linked
  <2>5. StatusOf(t)'
    BY <1>0, <2>2, <2>3, Zenon DEF StatusOf
  <2>6. FlightInv'
    BY <2>2, <2>3, FlightOthers, Zenon DEF InFlight
  <2> QED BY <2>3, <2>4, <2>5, <2>6, OthersStatus, Zenon
<1>6. ASSUME NEW b \in BOOLEAN, rq' = [rq EXCEPT ![t].tsk = b]
      PROVE  /\ rq'[t].fence = rq[t].fence /\ rq'[t].status = rq[t].status
             /\ \A u \in Threads : u # t => rq'[u] = rq[u]
  <2>1. PICK r : r = [rq[t] EXCEPT !.tsk = b]
    BY Zenon
  <2>2. rq[t] \in Request
    BY <1>0, Zenon
  <2>3. r.fence = rq[t].fence /\ r.status = rq[t].status
    BY <2>1, <2>2 DEF Request
  <2>4. rq' = [rq EXCEPT ![t] = r]
    BY <1>6, <2>1, Zenon
  <2> QED BY <1>0, <2>3, <2>4, Zenon
<1>7. CASE WaitDone(t)
  <2>1. /\ at[t] = "wait" /\ rq[t].status.type # "none" /\ rq' = [rq EXCEPT ![t].tsk = FALSE]
        /\ at' = [at EXCEPT ![t] = "release"]
        /\ UNCHANGED <<err, ntx, fences, h2g, guc, g2h, found>>
    BY <1>7, Zenon DEF WaitDone, chan_vars, recv_vars
  <2>2. rq'[t].fence = rq[t].fence /\ rq'[t].status = rq[t].status
    BY <1>6, <2>1, Zenon
  <2>3. Others(t) /\ at'[t] = "release"
    BY <1>0, <1>6, <2>1, Zenon DEF Others
  <2>4. LinkInv'
    BY <2>1, <2>2, <2>3, OthersLinked, Zenon DEF Linked
  <2>5. StatusOf(t)'
    BY <1>0, <2>1, <2>2, <2>3, Zenon DEF StatusOf
  <2>6. FlightInv'
    BY <2>1, <2>3, FlightOthers, Zenon DEF InFlight
  <2> QED BY <2>3, <2>4, <2>5, <2>6, OthersStatus, Zenon
<1>8. CASE WaitSleep(t)
  <2>1. /\ at[t] = "wait" /\ rq[t].status.type = "none" /\ rq' = [rq EXCEPT ![t].tsk = TRUE]
        /\ at' = [at EXCEPT ![t] = "asleep"]
        /\ UNCHANGED <<err, ntx, fences, h2g, guc, g2h, found>>
    BY <1>8, Zenon DEF WaitSleep, chan_vars, recv_vars
  <2>2. rq'[t].fence = rq[t].fence /\ rq'[t].status = rq[t].status
    BY <1>6, <2>1, Zenon
  <2>3. Others(t) /\ at'[t] = "asleep"
    BY <1>0, <1>6, <2>1, Zenon DEF Others
  <2>4. LinkInv'
    BY <2>1, <2>2, <2>3, OthersLinked, Zenon DEF Linked
  <2>5. StatusOf(t)'
    BY <1>0, <2>1, <2>2, <2>3, Zenon DEF StatusOf
  <2>6. FlightInv'
    BY <2>1, <2>2, <2>3, FlightOthers, Zenon DEF InFlight
  <2> QED BY <2>3, <2>4, <2>5, <2>6, OthersStatus, Zenon
<1>9. ~WaitFails(t) /\ ~RoomSignal(t)
  BY <1>0, Zenon DEF WaitFails, RoomSignal
<1>10. CASE Release(t)
  <2>1. rq[t].status.type # "RETRY"
    BY <1>0, Zenon DEF StatusOf
  <2>2. PICK e : err' = [err EXCEPT ![t] = e]
    BY <1>10, <2>1, Zenon DEF Release
  <2>3. /\ at[t] = "release" /\ at' = [at EXCEPT ![t] = "unlink"]
        /\ UNCHANGED <<rq, ntx, fences, h2g, guc, g2h, found>>
    BY <1>10, <2>1, Zenon DEF Release, chan_vars, recv_vars
  <2>4. Others(t) /\ at'[t] = "unlink"
    BY <1>0, <2>2, <2>3, Zenon DEF Others
  <2>5. LinkInv'
    BY <2>3, <2>4, OthersLinked, Zenon DEF Linked
  <2>6. StatusOf(t)'
    BY <1>0, <2>3, <2>4, Zenon DEF StatusOf
  <2>7. FlightInv'
    BY <2>3, <2>4, FlightOthers, Zenon DEF InFlight
  <2> QED BY <2>4, <2>5, <2>6, <2>7, OthersStatus, Zenon
<1>11. CASE Unlink(t)
  <2>1. /\ at[t] = "unlink" /\ at' = [at EXCEPT ![t] = "erase"]
        /\ UNCHANGED <<rq, err, ntx, fences, h2g, guc, g2h, found>>
    BY <1>11, Zenon DEF Unlink, chan_vars, recv_vars
  <2>2. Others(t) /\ at'[t] = "erase"
    BY <1>1, <2>1, Zenon DEF Places
  <2>3. LinkInv'
    BY <2>1, <2>2, OthersLinked, Zenon DEF Linked
  <2>4. StatusOf(t)'
    BY <1>0, <2>1, <2>2, Zenon DEF StatusOf
  <2>5. FlightInv'
    BY <2>1, <2>2, FlightOthers, Zenon DEF InFlight
  <2> QED BY <2>2, <2>3, <2>4, <2>5, OthersStatus, Zenon
<1>12. CASE Erase(t)
  <2>1. /\ at[t] = "erase" /\ at' = [at EXCEPT ![t] = "idle"]
        /\ fences' = [fences EXCEPT ![rq[t].fence] = Nobody]
        /\ UNCHANGED <<rq, err, ntx, h2g, guc, g2h, found>>
    BY <1>12, Zenon DEF Erase, chan_vars, recv_vars
  <2>2. Others(t) /\ at'[t] = "idle"
    BY <1>1, <2>1, Zenon DEF Places
  <2>3. LinkInv'
    <3>1. fences[rq[t].fence] = t
      BY <2>1, Zenon DEF LinkInv, Linked
    <3>2. ASSUME NEW u \in Threads, Linked(u)' PROVE fences'[rq'[u].fence] = u
      <4>1. u # t /\ Linked(u) /\ rq'[u] = rq[u]
        BY <2>2, <3>2, Zenon DEF Others, Linked
      <4>2. fences[rq[u].fence] = u
        BY <4>1, Zenon DEF LinkInv
      <4>3. rq[u].fence \in Fences
        BY <1>0 DEF Request
      <4>4. rq[u].fence # rq[t].fence
        BY <3>1, <4>1, <4>2, Zenon
      <4> QED BY <1>0, <2>1, <4>1, <4>2, <4>3, <4>4, ZenonT(60)
    <3> QED BY <3>2, Zenon DEF LinkInv
  <2>4. StatusOf(t)'
    BY <1>0, <2>1, <2>2, Zenon DEF StatusOf
  <2>5. FlightInv'
    BY <2>1, <2>2, FlightOthers, Zenon DEF InFlight
  <2> QED BY <2>2, <2>3, <2>4, <2>5, OthersStatus, ZenonT(60)
<1> QED BY <1>2, <1>3, <1>4, <1>5, <1>7, <1>8, <1>9, <1>10, <1>11, <1>12, ZenonT(60) DEF Send

\* A message of a thread that is not in flight is nowhere.
LEMMA NotInFlight ==
    ASSUME PlaceInv, NEW t \in Threads, ~InFlight(t)
    PROVE  ~InH2G(t) /\ ~InGuc(t) /\ ~InG2H(t) /\ ~InHand(t)
BY Zenon DEF PlaceInv, OnePlace

\* Writing a request puts it in flight, on the ring.
LEMMA CalmWrite ==
    ASSUME SendTypes, LinkInv, StatusInv, FlightInv, NEW t \in Threads, Write(t), ~h2g_status
    PROVE  /\ LinkInv' /\ StatusInv' /\ FlightInv'
           /\ \A u \in Threads : InFlight(u)' <=> u = t \/ InFlight(u)
           /\ ~InFlight(t)
<1>0. /\ at \in [Senders -> Places] /\ rq \in [Threads -> Request]
      /\ err \in [Threads -> Errors] /\ ntx \in [Senders -> 0..MaxTx]
      /\ h2g \in Seq(Message) /\ Threads \subseteq Senders
      /\ StatusOf(t) /\ PlaceInv /\ CarryInv
  BY Zenon DEF SendTypes, AtOK, RqOK, ChanOK, Senders, StatusInv, FlightInv
<1>1. /\ at[t] = "resend" /\ at' = [at EXCEPT ![t] = "wait"] /\ err' = [err EXCEPT ![t] = "0"]
      /\ ct_write(t, "REQUEST", rq[t].fence) /\ h2g_has_room /\ ntx[t] < MaxTx
      /\ UNCHANGED <<rq, fences, guc, g2h, found>>
  BY Zenon DEF Write, recv_vars, has_room_nb
<1>2. ntx' = [ntx EXCEPT ![t] = @ + 1]
  BY <1>1, Zenon DEF ct_write
<1>3. Others(t) /\ at'[t] = "wait" /\ err'[t] = "0" /\ ntx'[t] = ntx[t] + 1 /\ t \in Senders
  BY <1>0, <1>1, <1>2, Zenon DEF Others
<1>4. rq[t].fence \in Fences
  BY <1>0 DEF Request
<1>5. PICK m \in Message : Written(m, t, "REQUEST", rq[t].fence)
  BY <1>1, <1>3, <1>4, WriteShape, Zenon
<1>6. m.from = t /\ m.tx = ntx'[t] /\ m.fence = rq'[t].fence /\ h2g' = Append(h2g, m)
  BY <1>1, <1>3, <1>5, Zenon DEF Written
<1>7. LinkInv'
  BY <1>1, <1>3, OthersLinked, Zenon DEF Linked
<1>8. rq[t].status.type = "none"
  BY <1>0, <1>1, Zenon DEF StatusOf
<1>9. StatusInv'
  <2>1. StatusOf(t)'
    BY <1>0, <1>1, <1>3, <1>8, Zenon DEF StatusOf
  <2> QED BY <1>3, <2>1, OthersStatus, Zenon
<1>10. ~InFlight(t) /\ InFlight(t)'
  BY <1>1, <1>3, <1>8, Zenon DEF InFlight
<1>11. \A u \in Threads : u # t => (InFlight(u)' <=> InFlight(u))
  BY <1>3, Zenon DEF InFlight, Others
<1>12. ~InH2G(t) /\ ~InGuc(t) /\ ~InG2H(t) /\ ~InHand(t)
  BY <1>0, <1>10, NotInFlight, Zenon
<1>13. /\ Len(h2g) \in Nat /\ Len(h2g') = Len(h2g) + 1 /\ h2g'[Len(h2g) + 1] = m
       /\ \A i \in 1..Len(h2g) : h2g'[i] = h2g[i] /\ i \in 1..Len(h2g')
  BY <1>0, <1>6
<1>14. /\ \A i \in 1..Len(h2g') : i \in 1..Len(h2g) \/ i = Len(h2g) + 1
       /\ Len(h2g) + 1 \in 1..Len(h2g')
  BY <1>13
<1>15. ASSUME NEW u \in Threads
       PROVE  /\ InH2G(u)' <=> u = t \/ InH2G(u)
              /\ InGuc(u)' <=> InGuc(u)
              /\ InG2H(u)' <=> InG2H(u)
              /\ InHand(u)' <=> InHand(u)
  <2>1. InH2G(u)' <=> u = t \/ InH2G(u)
    BY <1>6, <1>13, <1>14, Zenon DEF InH2G
  <2> QED BY <1>1, <2>1, Zenon DEF InGuc, InG2H, InHand
<1>16. ASSUME NEW u \in Threads PROVE OnePlace(u)'
  <2>1. CASE u = t
    BY <1>10, <1>12, <1>15, <2>1, Zenon DEF OnePlace
  <2>2. CASE u # t
    <3>1. OnePlace(u)
      BY <1>0, Zenon DEF PlaceInv
    <3> QED BY <1>11, <1>15, <2>2, <3>1, Zenon DEF OnePlace
  <2> QED BY <2>1, <2>2, Zenon
<1>17. ASSUME NEW u \in Threads PROVE Once(u)'
  <2>1. Once(u)
    BY <1>0, Zenon DEF PlaceInv
  <2>2. ASSUME NEW i \in 1..Len(h2g'), NEW j \in 1..Len(h2g'), h2g'[i].from = u, h2g'[j].from = u
        PROVE  i = j
    <3>1. CASE u = t
      <4>1. \A k \in 1..Len(h2g) : h2g[k].from # t
        BY <1>12, Zenon DEF InH2G
      <4> QED BY <1>13, <1>14, <2>2, <3>1, <4>1, Zenon
    <3>2. CASE u # t
      <4>1. i \in 1..Len(h2g) /\ j \in 1..Len(h2g)
        BY <1>6, <1>13, <1>14, <2>2, <3>2, Zenon
      <4> QED BY <1>13, <2>1, <2>2, <4>1, Zenon DEF Once
    <3> QED BY <3>1, <3>2, Zenon
  <2> QED BY <1>1, <2>1, <2>2, Zenon DEF Once
<1>18. CarryInv'
  <2>1. ASSUME NEW u \in Threads, NEW i \in 1..Len(h2g'), h2g'[i].from = u
        PROVE  h2g'[i].tx = ntx'[u] /\ h2g'[i].fence = rq'[u].fence
    <3>1. CASE i = Len(h2g) + 1
      BY <1>6, <1>13, <2>1, <3>1, Zenon
    <3>2. CASE i \in 1..Len(h2g)
      <4>1. h2g[i].from = u /\ u # t
        BY <1>12, <1>13, <2>1, <3>2, Zenon DEF InH2G
      <4>2. h2g[i].tx = ntx[u] /\ h2g[i].fence = rq[u].fence
        BY <1>0, <3>2, <4>1, Zenon DEF CarryInv
      <4> QED BY <1>1, <1>3, <1>13, <3>2, <4>1, <4>2, ZenonT(60) DEF Others
    <3> QED BY <1>14, <3>1, <3>2, Zenon
  <2>2. ASSUME NEW u \in Threads, NEW x \in guc', x.from = u
        PROVE  x.tx = ntx'[u] /\ x.fence = rq'[u].fence
    <3>1. u # t /\ x \in guc
      BY <1>1, <1>12, <2>2, Zenon DEF InGuc
    <3> QED BY <1>0, <1>1, <1>3, <2>2, <3>1, ZenonT(60) DEF CarryInv, Others
  <2>3. ASSUME NEW u \in Threads, NEW i \in 1..Len(g2h'), g2h'[i].of[1] = u
        PROVE  g2h'[i].of[2] = ntx'[u] /\ g2h'[i].fence = rq'[u].fence
    <3>1. u # t
      BY <1>1, <1>12, <2>3, Zenon DEF InG2H
    <3> QED BY <1>0, <1>1, <1>3, <2>3, <3>1, ZenonT(60) DEF CarryInv, Others
  <2>4. ASSUME NEW u \in Threads, InHand(u)' PROVE found' .of = <<u, ntx'[u]>>
    <3>1. u # t /\ InHand(u)
      BY <1>12, <1>15, <2>4, Zenon
    <3>2. found.of = <<u, ntx[u]>>
      BY <1>0, <3>1, Zenon DEF CarryInv
    <3> QED BY <1>1, <1>3, <3>1, <3>2, Zenon DEF Others
  <2> QED BY <2>1, <2>2, <2>3, <2>4, Zenon DEF CarryInv
<1>19. FlightInv'
  BY <1>16, <1>17, <1>18, Zenon DEF FlightInv, PlaceInv
<1> QED BY <1>7, <1>9, <1>10, <1>11, <1>19, ZenonT(60)

\* Posters do not disturb the requests.
LEMMA CalmPost ==
    ASSUME SendTypes, LinkInv, StatusInv, FlightInv, NEW n \in Posters, Post(n)
    PROVE  /\ LinkInv' /\ StatusInv' /\ FlightInv'
           /\ \A u \in Threads : InFlight(u)' <=> InFlight(u)
<1>0. /\ at \in [Senders -> Places] /\ ntx \in [Senders -> 0..MaxTx]
      /\ h2g \in Seq(Message) /\ Threads \subseteq Senders /\ Posters \subseteq Senders
      /\ \A t \in Threads : t \notin Posters
      /\ PlaceInv /\ CarryInv
  BY SendersAssumption, Zenon DEF SendTypes, AtOK, ChanOK, Senders, FlightInv
<1>1. /\ UNCHANGED <<rq, err, fences, guc, g2h, found>>
      /\ at' = at \/ \E x : at' = [at EXCEPT ![n] = x]
      /\ \/ UNCHANGED <<h2g, ntx>>
         \/ /\ ct_write(n, "FAST_REQUEST", 0) /\ has_room_nb(EventLen)
            /\ at[n] = "nb_lock"
  BY Zenon DEF Post, PostStart, PostCheck, PostLocked, chan_vars, recv_vars
<1>2. \A u \in Threads : at'[u] = at[u]
  BY <1>0, <1>1, Zenon
<1>3. \A u \in Threads : ntx'[u] = ntx[u]
  BY <1>0, <1>1, Zenon DEF ct_write
<1>4. LinkInv'
  BY <1>1, <1>2, Zenon DEF LinkInv, Linked
<1>5. StatusInv'
  <2>1. ASSUME NEW u \in Threads PROVE StatusOf(u)'
    <3>1. StatusOf(u)
      BY Zenon DEF StatusInv
    <3> QED BY <1>1, <1>2, <1>3, <3>1, Zenon DEF StatusOf
  <2> QED BY <2>1, Zenon DEF StatusInv
<1>6. \A u \in Threads : InFlight(u)' <=> InFlight(u)
  BY <1>1, <1>2, Zenon DEF InFlight
<1>7. CASE h2g' = h2g
  <2>1. FlightInv'
    BY <1>1, <1>3, <1>6, <1>7, FlightFrame, Zenon
  <2> QED BY <1>4, <1>5, <1>6, <2>1, Zenon
<1>8. CASE ct_write(n, "FAST_REQUEST", 0) /\ has_room_nb(EventLen) /\ at[n] = "nb_lock"
  <2>1. 0 \in Fences
    BY FencesAssumption DEF Fences
  <2>2. ntx[n] < MaxTx
    <3>1. ntx[n] < MaxPosts /\ ntx[n] \in 0..MaxTx
      BY <1>0, <1>8, Zenon DEF SendTypes, AtOK
    <3> QED BY <3>1, SendBoundsAssumption
  <2>3. PICK m \in Message : Written(m, n, "FAST_REQUEST", 0)
    BY <1>0, <1>8, <2>1, <2>2, WriteShape, Zenon DEF has_room_nb
  <2>4. m.from \notin Threads /\ h2g' = Append(h2g, m)
    BY <1>0, <2>3, Zenon DEF Written
  <2>5. /\ Len(h2g) \in Nat /\ Len(h2g') = Len(h2g) + 1 /\ h2g'[Len(h2g) + 1] = m
        /\ \A i \in 1..Len(h2g) : h2g'[i] = h2g[i] /\ i \in 1..Len(h2g')
    BY <1>0, <2>4, SMTT(40)
  <2>6. \A i \in 1..Len(h2g') : i \in 1..Len(h2g) \/ i = Len(h2g) + 1
    BY <2>5
  <2>7. \A i \in 1..Len(h2g') : h2g'[i].from \in Threads => i \in 1..Len(h2g) /\ h2g'[i] = h2g[i]
    BY <2>4, <2>5, <2>6, Zenon
  <2>8. ASSUME NEW u \in Threads
        PROVE  /\ InH2G(u)' <=> InH2G(u)
               /\ InGuc(u)' <=> InGuc(u)
               /\ InG2H(u)' <=> InG2H(u)
               /\ InHand(u)' <=> InHand(u)
    <3>1. InH2G(u)' <=> InH2G(u)
      BY <2>5, <2>7, Zenon DEF InH2G
    <3> QED BY <1>1, <3>1, Zenon DEF InGuc, InG2H, InHand
  <2>9. ASSUME NEW u \in Threads PROVE OnePlace(u)'
    <3>1. OnePlace(u)
      BY <1>0, Zenon DEF PlaceInv
    <3> QED BY <1>6, <2>8, <3>1, Zenon DEF OnePlace
  <2>10. ASSUME NEW u \in Threads PROVE Once(u)'
    <3>1. Once(u)
      BY <1>0, Zenon DEF PlaceInv
    <3>2. \A i, j \in 1..Len(h2g') : h2g'[i].from = u /\ h2g'[j].from = u => i = j
      BY <2>7, <3>1, Zenon DEF Once
    <3> QED BY <1>1, <3>1, <3>2, Zenon DEF Once
  <2>11. CarryInv'
    <3>1. ASSUME NEW u \in Threads, NEW i \in 1..Len(h2g'), h2g'[i].from = u
          PROVE  h2g'[i].tx = ntx'[u] /\ h2g'[i].fence = rq'[u].fence
      <4>1. i \in 1..Len(h2g) /\ h2g'[i] = h2g[i] /\ h2g[i].from = u
        BY <2>7, <3>1, Zenon
      <4>2. h2g[i].tx = ntx[u] /\ h2g[i].fence = rq[u].fence
        BY <1>0, <4>1, Zenon DEF CarryInv
      <4> QED BY <1>1, <1>3, <4>1, <4>2, ZenonT(60)
    <3>2. ASSUME NEW u \in Threads
          PROVE  /\ \A x \in guc' : x.from = u => x.tx = ntx'[u] /\ x.fence = rq'[u].fence
                 /\ \A i \in 1..Len(g2h') : g2h'[i].of[1] = u =>
                        g2h'[i].of[2] = ntx'[u] /\ g2h'[i].fence = rq'[u].fence
      BY <1>0, <1>1, <1>3, Zenon DEF CarryInv
    <3>3. ASSUME NEW u \in Threads, InHand(u)' PROVE found' .of = <<u, ntx'[u]>>
      BY <1>0, <1>1, <1>3, <2>8, <3>3, ZenonT(60) DEF CarryInv
    <3> QED BY <3>1, <3>2, <3>3, Zenon DEF CarryInv
  <2>12. FlightInv'
    BY <2>9, <2>10, <2>11, Zenon DEF FlightInv, PlaceInv
  <2> QED BY <1>4, <1>5, <1>6, <2>12, Zenon
<1> QED BY <1>1, <1>7, <1>8, Zenon

\* The GuC fetches a request: it leaves the ring for the GuC.
LEMMA CalmFetch ==
    ASSUME SendTypes, LinkInv, StatusInv, FlightInv, GucFetch
    PROVE  /\ LinkInv' /\ StatusInv' /\ FlightInv'
           /\ \A u \in Threads : InFlight(u)' <=> InFlight(u)
<1>0. /\ h2g \in Seq(Message) /\ PlaceInv /\ CarryInv
  BY Zenon DEF SendTypes, ChanOK, FlightInv
<1>1. /\ h2g # <<>> /\ guc' = guc \cup {Head(h2g)} /\ h2g' = Tail(h2g)
      /\ UNCHANGED <<at, rq, err, ntx, fences, g2h, found>>
  BY Zenon DEF GucFetch, recv_vars
<1>2. PICK m : m = Head(h2g)
  BY Zenon
<1>3. /\ Len(h2g) \in Nat /\ Len(h2g) >= 1 /\ Len(h2g') = Len(h2g) - 1 /\ m = h2g[1]
      /\ \A i \in 1..Len(h2g') : h2g'[i] = h2g[i + 1]
  BY <1>0, <1>1, <1>2, SMTT(40)
<1>4. /\ 1 \in 1..Len(h2g) /\ \A i \in 1..Len(h2g') : i + 1 \in 1..Len(h2g) /\ i + 1 # 1
      /\ \A i, j \in 1..Len(h2g') : i + 1 = j + 1 => i = j
      /\ \A i \in 1..Len(h2g) : i = 1 \/ (i - 1 \in 1..Len(h2g') /\ (i - 1) + 1 = i)
  BY <1>3
<1>5. guc' = guc \cup {m}
  BY <1>1, <1>2, Zenon
<1>6. LinkInv'
  BY <1>1, Zenon DEF LinkInv, Linked
<1>7. StatusInv'
  <2>1. ASSUME NEW u \in Threads PROVE StatusOf(u)'
    <3>1. StatusOf(u)
      BY Zenon DEF StatusInv
    <3> QED BY <1>1, <3>1, Zenon DEF StatusOf
  <2> QED BY <2>1, Zenon DEF StatusInv
<1>8. \A u \in Threads : InFlight(u)' <=> InFlight(u)
  BY <1>1, Zenon DEF InFlight
<1>9. ASSUME NEW u \in Threads
      PROVE  /\ InH2G(u)' => InH2G(u) /\ u # m.from
             /\ InGuc(u)' => InGuc(u) \/ u = m.from
             /\ InG2H(u)' <=> InG2H(u)
             /\ InHand(u)' <=> InHand(u)
             /\ u = m.from => InH2G(u)
  <2>1. ASSUME InH2G(u)' PROVE InH2G(u) /\ u # m.from
    <3>1. PICK i \in 1..Len(h2g') : h2g'[i].from = u
      BY <2>1, Zenon DEF InH2G
    <3>2. i + 1 \in 1..Len(h2g) /\ h2g[i + 1].from = u /\ i + 1 # 1
      BY <1>3, <1>4, <3>1, Zenon
    <3>3. u = m.from => i + 1 = 1
      BY <1>0, <1>3, <1>4, <3>2, Zenon DEF PlaceInv, Once
    <3> QED BY <3>2, <3>3, Zenon DEF InH2G
  <2>2. InGuc(u)' => InGuc(u) \/ u = m.from
    BY <1>5, Zenon DEF InGuc
  <2>3. u = m.from => InH2G(u)
    BY <1>3, <1>4, Zenon DEF InH2G
  <2> QED BY <1>1, <2>1, <2>2, <2>3, ZenonT(60) DEF InG2H, InHand
<1>10. ASSUME NEW u \in Threads PROVE OnePlace(u)'
  <2>1. OnePlace(u)
    BY <1>0, Zenon DEF PlaceInv
  <2>2. CASE u = m.from
    BY <1>8, <1>9, <2>1, <2>2, ZenonT(60) DEF OnePlace
  <2>3. CASE u # m.from
    BY <1>8, <1>9, <2>1, <2>3, Zenon DEF OnePlace
  <2> QED BY <2>2, <2>3, Zenon
<1>11. ASSUME NEW u \in Threads PROVE Once(u)'
  <2>1. Once(u) /\ OnePlace(u)
    BY <1>0, Zenon DEF PlaceInv
  <2>2. ASSUME NEW i \in 1..Len(h2g'), NEW j \in 1..Len(h2g'), h2g'[i].from = u, h2g'[j].from = u
        PROVE  i = j
    <3>0. /\ i + 1 \in 1..Len(h2g) /\ h2g[i + 1].from = u
          /\ j + 1 \in 1..Len(h2g) /\ h2g[j + 1].from = u
      BY <1>3, <1>4, <2>2, Zenon
    <3>1. i + 1 = j + 1
      BY <2>1, <3>0, Zenon DEF Once
    <3> QED BY <1>4, <3>1, Zenon
  <2>3. ASSUME NEW x \in guc', NEW y \in guc', x.from = u, y.from = u PROVE x = y
    <3>1. CASE u = m.from
      <4>1. ~InGuc(u)
        BY <1>9, <2>1, <3>1, Zenon DEF OnePlace
      <4>2. x \notin guc /\ y \notin guc
        BY <2>3, <4>1, Zenon DEF InGuc
      <4> QED BY <1>5, <4>2, Zenon
    <3>2. CASE u # m.from
      <4>1. x \in guc /\ y \in guc
        BY <1>5, <2>3, <3>2, Zenon
      <4> QED BY <2>1, <2>3, <4>1, Zenon DEF Once
    <3> QED BY <3>1, <3>2, Zenon
  <2> QED BY <1>1, <2>1, <2>2, <2>3, Zenon DEF Once
<1>12. CarryInv'
  <2>1. ASSUME NEW u \in Threads, NEW i \in 1..Len(h2g'), h2g'[i].from = u
        PROVE  h2g'[i].tx = ntx'[u] /\ h2g'[i].fence = rq'[u].fence
    <3>1. h2g'[i] = h2g[i + 1] /\ i + 1 \in 1..Len(h2g) /\ h2g[i + 1].from = u
      BY <1>3, <1>4, <2>1, Zenon
    <3>2. h2g[i + 1].tx = ntx[u] /\ h2g[i + 1].fence = rq[u].fence
      BY <1>0, <3>1, Zenon DEF CarryInv
    <3> QED BY <1>1, <3>1, <3>2, Zenon
  <2>2. ASSUME NEW u \in Threads, NEW x \in guc', x.from = u
        PROVE  x.tx = ntx'[u] /\ x.fence = rq'[u].fence
    <3>1. CASE x \in guc
      BY <1>0, <1>1, <2>2, <3>1, Zenon DEF CarryInv
    <3>2. CASE x = m
      BY <1>0, <1>1, <1>3, <1>4, <2>2, <3>2, ZenonT(60) DEF CarryInv
    <3> QED BY <1>5, <3>1, <3>2, Zenon
  <2>3. ASSUME NEW u \in Threads
        PROVE  /\ \A i \in 1..Len(g2h') : g2h'[i].of[1] = u =>
                     g2h'[i].of[2] = ntx'[u] /\ g2h'[i].fence = rq'[u].fence
               /\ InHand(u)' => found' .of = <<u, ntx'[u]>>
    BY <1>0, <1>1, <1>9, Zenon DEF CarryInv
  <2> QED BY <2>1, <2>2, <2>3, Zenon DEF CarryInv
<1>13. FlightInv'
  BY <1>10, <1>11, <1>12, Zenon DEF FlightInv, PlaceInv
<1> QED BY <1>6, <1>7, <1>8, <1>13, Zenon

\* The GuC answers: the request leaves it for the G2H ring.
LEMMA CalmReply ==
    ASSUME SendTypes, MsgInv, LinkInv, StatusInv, FlightInv, GucReply
    PROVE  /\ LinkInv' /\ StatusInv' /\ FlightInv'
           /\ \A u \in Threads : InFlight(u)' <=> InFlight(u)
<1>0. /\ g2h \in Seq(Answer) /\ PlaceInv /\ CarryInv
  BY Zenon DEF SendTypes, ChanOK, FlightInv
<1>1. PICK m \in guc, a \in Answer :
          /\ guc' = guc \ {m} /\ g2h' = Append(g2h, a)
          /\ a.fence = m.fence /\ a.of = <<m.from, m.tx>>
  BY ReplyShape, Zenon
<1>2. UNCHANGED <<at, rq, err, ntx, fences, h2g, found>>
  BY Zenon DEF GucReply, recv_vars
<1>3. a.of[1] = m.from /\ a.of[2] = m.tx
  BY <1>1
<1>4. /\ Len(g2h) \in Nat /\ Len(g2h') = Len(g2h) + 1 /\ g2h'[Len(g2h) + 1] = a
      /\ \A i \in 1..Len(g2h) : g2h'[i] = g2h[i]
  BY <1>0, <1>1
<1>5. \A i \in 1..Len(g2h') : i \in 1..Len(g2h) \/ i = Len(g2h) + 1
  BY <1>4
<1>6. LinkInv'
  BY <1>2, Zenon DEF LinkInv, Linked
<1>7. StatusInv'
  <2>1. ASSUME NEW u \in Threads PROVE StatusOf(u)'
    <3>1. StatusOf(u)
      BY Zenon DEF StatusInv
    <3> QED BY <1>2, <3>1, Zenon DEF StatusOf
  <2> QED BY <2>1, Zenon DEF StatusInv
<1>8. \A u \in Threads : InFlight(u)' <=> InFlight(u)
  BY <1>2, Zenon DEF InFlight
<1>9. ASSUME NEW u \in Threads
      PROVE  /\ InH2G(u)' <=> InH2G(u)
             /\ InGuc(u)' => InGuc(u) /\ u # m.from
             /\ InG2H(u)' => InG2H(u) \/ u = m.from
             /\ InHand(u)' <=> InHand(u)
             /\ u = m.from => InGuc(u)
  <2>1. ASSUME InGuc(u)' PROVE InGuc(u) /\ u # m.from
    <3>1. PICK x \in guc' : x.from = u
      BY <2>1, Zenon DEF InGuc
    <3>2. x \in guc /\ x # m
      BY <1>1, Zenon
    <3>3. u # m.from
      BY <1>0, <3>1, <3>2, Zenon DEF PlaceInv, Once
    <3> QED BY <3>1, <3>2, <3>3, Zenon DEF InGuc
  <2>2. InG2H(u)' => InG2H(u) \/ u = m.from
    BY <1>3, <1>4, <1>5, Zenon DEF InG2H
  <2>3. u = m.from => InGuc(u)
    BY Zenon DEF InGuc
  <2> QED BY <1>2, <2>1, <2>2, <2>3, Zenon DEF InH2G, InHand
<1>10. ASSUME NEW u \in Threads PROVE OnePlace(u)'
  <2>1. OnePlace(u)
    BY <1>0, Zenon DEF PlaceInv
  <2>2. CASE u = m.from
    BY <1>8, <1>9, <2>1, <2>2, Zenon DEF OnePlace
  <2>3. CASE u # m.from
    BY <1>8, <1>9, <2>1, <2>3, Zenon DEF OnePlace
  <2> QED BY <2>2, <2>3, Zenon
<1>11. ASSUME NEW u \in Threads PROVE Once(u)'
  <2>1. Once(u) /\ OnePlace(u)
    BY <1>0, Zenon DEF PlaceInv
  <2>2. ASSUME NEW i \in 1..Len(g2h'), NEW j \in 1..Len(g2h'),
               g2h'[i].of[1] = u, g2h'[j].of[1] = u
        PROVE  i = j
    <3>1. CASE u = m.from
      <4>1. ~InG2H(u)
        BY <1>9, <2>1, <3>1, Zenon DEF OnePlace
      <4>2. i \notin 1..Len(g2h) /\ j \notin 1..Len(g2h)
        BY <1>4, <2>2, <4>1, Zenon DEF InG2H
      <4> QED BY <1>5, <4>2, Zenon
    <3>2. CASE u # m.from
      <4>1. i \in 1..Len(g2h) /\ j \in 1..Len(g2h)
        BY <1>3, <1>4, <1>5, <2>2, <3>2, ZenonT(60)
      <4> QED BY <1>4, <2>1, <2>2, <4>1, Zenon DEF Once
    <3> QED BY <3>1, <3>2, Zenon
  <2>3. \A x, y \in guc' : x.from = u /\ y.from = u => x = y
    BY <1>1, <2>1, Zenon DEF Once
  <2>4. \A i, j \in 1..Len(h2g') : h2g'[i].from = u /\ h2g'[j].from = u => i = j
    BY <1>2, <2>1, Zenon DEF Once
  <2> QED BY <2>2, <2>3, <2>4, Zenon DEF Once
<1>12. CarryInv'
  <2>1. ASSUME NEW u \in Threads, NEW i \in 1..Len(g2h'), g2h'[i].of[1] = u
        PROVE  g2h'[i].of[2] = ntx'[u] /\ g2h'[i].fence = rq'[u].fence
    <3>1. CASE i \in 1..Len(g2h)
      <4>1. g2h'[i] = g2h[i] /\ g2h[i].of[1] = u
        BY <1>4, <2>1, <3>1, Zenon
      <4>2. g2h[i].of[2] = ntx[u] /\ g2h[i].fence = rq[u].fence
        BY <1>0, <3>1, <4>1, Zenon DEF CarryInv
      <4> QED BY <1>2, <4>1, <4>2, Zenon
    <3>2. CASE i = Len(g2h) + 1
      <4>1. g2h'[i] = a /\ m.from = u
        BY <1>3, <1>4, <2>1, <3>2, Zenon
      <4>2. m.tx = ntx[u] /\ m.fence = rq[u].fence
        BY <1>0, <4>1, Zenon DEF CarryInv
      <4> QED BY <1>1, <1>2, <1>3, <4>1, <4>2, ZenonT(60)
    <3> QED BY <1>5, <3>1, <3>2, Zenon
  <2>2. ASSUME NEW u \in Threads, NEW x \in guc', x.from = u
        PROVE  x.tx = ntx'[u] /\ x.fence = rq'[u].fence
    <3>1. x \in guc
      BY <1>1, Zenon
    <3> QED BY <1>0, <1>2, <2>2, <3>1, Zenon DEF CarryInv
  <2>3. ASSUME NEW u \in Threads
        PROVE  /\ \A i \in 1..Len(h2g') : h2g'[i].from = u =>
                     h2g'[i].tx = ntx'[u] /\ h2g'[i].fence = rq'[u].fence
               /\ InHand(u)' => found' .of = <<u, ntx'[u]>>
    BY <1>0, <1>2, <1>9, Zenon DEF CarryInv
  <2> QED BY <2>1, <2>2, <2>3, Zenon DEF CarryInv
<1>13. FlightInv'
  BY <1>10, <1>11, <1>12, Zenon DEF FlightInv, PlaceInv
<1> QED BY <1>6, <1>7, <1>8, <1>13, Zenon

\* The response at the head of the ring finds its request, since the request is
\* in flight and so its fence is still its own.
LEMMA FoundOwner ==
    ASSUME SendTypes, MsgInv, LinkInv, FlightInv, g2h # <<>>, NEW m, m = Head(g2h),
           m.type # "EVENT"
    PROVE  \E t \in Threads :
              /\ m.of = <<t, ntx[t]>> /\ m.of[1] = t /\ InG2H(t) /\ InFlight(t)
              /\ m.fence = rq[t].fence /\ fences[m.fence] = t
<1>0. g2h \in Seq(Answer) /\ PlaceInv /\ CarryInv
  BY Zenon DEF SendTypes, ChanOK, FlightInv
<1>1. 1 \in 1..Len(g2h) /\ m = g2h[1] /\ m \in Answer
  BY <1>0
<1>2. m.of[1] \notin Posters
  BY <1>1, Zenon DEF MsgInv
<1>3. m.of \in Senders \X (1..MaxTx)
  BY <1>1 DEF Answer
<1>4. m.of[1] \in Senders /\ m.of = <<m.of[1], m.of[2]>>
  BY <1>3
<1>5. PICK t \in Threads : m.of[1] = t
  BY <1>2, <1>4, Zenon DEF Senders
<1>6. InG2H(t)
  BY <1>1, <1>5, Zenon DEF InG2H
<1>7. InFlight(t)
  BY <1>0, <1>6, Zenon DEF PlaceInv, OnePlace
<1>8. m.of[2] = ntx[t] /\ m.fence = rq[t].fence
  <2>1. g2h[1].of[1] = t
    BY <1>1, <1>5, Zenon
  <2>2. g2h[1].of[2] = ntx[t] /\ g2h[1].fence = rq[t].fence
    BY <1>0, <1>1, <2>1, Zenon DEF CarryInv
  <2> QED BY <1>1, <2>2, Zenon
<1>9. fences[rq[t].fence] = t
  BY <1>7, Zenon DEF LinkInv, Linked, InFlight
<1> QED BY <1>4, <1>5, <1>6, <1>7, <1>8, <1>9, Zenon

\* ct_handle_response() takes the response in hand.
LEMMA CalmHandle ==
    ASSUME SendTypes, MsgInv, LinkInv, StatusInv, FlightInv, HandleMsg
    PROVE  /\ LinkInv' /\ StatusInv' /\ FlightInv'
           /\ \A u \in Threads : InFlight(u)' <=> InFlight(u)
<1>0. /\ g2h \in Seq(Answer) /\ PlaceInv /\ CarryInv
  BY Zenon DEF SendTypes, ChanOK, FlightInv
<1>1. /\ found = Nobody /\ g2h # <<>> /\ g2h' = Tail(g2h)
      /\ UNCHANGED <<at, rq, err, ntx, fences, h2g, guc>>
  BY Zenon DEF HandleMsg
<1>2. PICK m : m = Head(g2h)
  BY Zenon
<1>3. /\ Len(g2h) \in Nat /\ Len(g2h) >= 1 /\ Len(g2h') = Len(g2h) - 1 /\ m = g2h[1]
      /\ \A i \in 1..Len(g2h') : g2h'[i] = g2h[i + 1]
  BY <1>0, <1>1, <1>2, SMTT(40)
<1>4. /\ 1 \in 1..Len(g2h) /\ \A i \in 1..Len(g2h') : i + 1 \in 1..Len(g2h) /\ i + 1 # 1
      /\ \A i, j \in 1..Len(g2h') : i + 1 = j + 1 => i = j
  BY <1>3
<1>5. LinkInv'
  BY <1>1, Zenon DEF LinkInv, Linked
<1>6. StatusInv'
  <2>1. ASSUME NEW u \in Threads PROVE StatusOf(u)'
    <3>1. StatusOf(u)
      BY Zenon DEF StatusInv
    <3> QED BY <1>1, <3>1, Zenon DEF StatusOf
  <2> QED BY <2>1, Zenon DEF StatusInv
<1>7. \A u \in Threads : InFlight(u)' <=> InFlight(u)
  BY <1>1, Zenon DEF InFlight
<1>8. ASSUME NEW u \in Threads, InHand(u)'
      PROVE  u = m.of[1] /\ InG2H(u) /\ found' .of = <<u, ntx[u]>>
  <2>1. found' # Nobody /\ found' .to = u
    BY <1>8, Zenon DEF InHand
  <2>2. m.type # "EVENT"
    BY <1>1, <1>2, <2>1, Zenon DEF HandleMsg
  <2>3. PICK t \in Threads : /\ m.of = <<t, ntx[t]>> /\ m.of[1] = t /\ InG2H(t)
                             /\ fences[m.fence] = t
    BY <1>1, <1>2, <2>2, FoundOwner, Zenon
  <2>4. found' = [to |-> t, type |-> m.type, of |-> m.of]
    <3>1. found' = IF fences[m.fence] = Nobody THEN Nobody
                   ELSE [to |-> fences[m.fence], type |-> m.type, of |-> m.of]
      BY <1>2, <2>2, Zenon DEF HandleMsg
    <3> QED BY <2>1, <2>3, <3>1, Zenon
  <2>5. found' .to = t /\ found' .of = m.of
    BY <2>4
  <2> QED BY <2>1, <2>3, <2>5, Zenon
<1>9. ASSUME NEW u \in Threads
      PROVE  /\ InH2G(u)' <=> InH2G(u)
             /\ InGuc(u)' <=> InGuc(u)
             /\ InG2H(u)' => InG2H(u) /\ u # m.of[1]
  <2>1. ASSUME InG2H(u)' PROVE InG2H(u) /\ u # m.of[1]
    <3>1. PICK i \in 1..Len(g2h') : g2h'[i].of[1] = u
      BY <2>1, Zenon DEF InG2H
    <3>2. i + 1 \in 1..Len(g2h) /\ g2h[i + 1].of[1] = u /\ i + 1 # 1
      BY <1>3, <1>4, <3>1, Zenon
    <3>3. u = m.of[1] => i + 1 = 1
      BY <1>0, <1>3, <1>4, <3>2, Zenon DEF PlaceInv, Once
    <3> QED BY <3>2, <3>3, Zenon DEF InG2H
  <2> QED BY <1>1, <2>1, Zenon DEF InH2G, InGuc
<1>10. ASSUME NEW u \in Threads PROVE OnePlace(u)'
  <2>1. OnePlace(u)
    BY <1>0, Zenon DEF PlaceInv
  <2>2. CASE InHand(u)'
    <3>1. u = m.of[1] /\ InG2H(u)
      BY <1>8, <2>2, Zenon
    <3>2. InFlight(u) /\ ~InH2G(u) /\ ~InGuc(u)
      BY <2>1, <3>1, Zenon DEF OnePlace
    <3> QED BY <1>7, <1>9, <3>1, <3>2, Zenon DEF OnePlace
  <2>3. CASE ~InHand(u)'
    BY <1>7, <1>9, <2>1, <2>3, Zenon DEF OnePlace
  <2> QED BY <2>2, <2>3, Zenon
<1>11. ASSUME NEW u \in Threads PROVE Once(u)'
  <2>1. Once(u)
    BY <1>0, Zenon DEF PlaceInv
  <2>2. ASSUME NEW i \in 1..Len(g2h'), NEW j \in 1..Len(g2h'),
               g2h'[i].of[1] = u, g2h'[j].of[1] = u
        PROVE  i = j
    <3>0. /\ i + 1 \in 1..Len(g2h) /\ g2h[i + 1].of[1] = u
          /\ j + 1 \in 1..Len(g2h) /\ g2h[j + 1].of[1] = u
      BY <1>3, <1>4, <2>2, Zenon
    <3>1. i + 1 = j + 1
      BY <2>1, <3>0, Zenon DEF Once
    <3> QED BY <1>4, <3>1, Zenon
  <2>3. /\ \A i, j \in 1..Len(h2g') : h2g'[i].from = u /\ h2g'[j].from = u => i = j
        /\ \A x, y \in guc' : x.from = u /\ y.from = u => x = y
    BY <1>1, <2>1, Zenon DEF Once
  <2> QED BY <2>2, <2>3, Zenon DEF Once
<1>12. CarryInv'
  <2>1. ASSUME NEW u \in Threads, NEW i \in 1..Len(g2h'), g2h'[i].of[1] = u
        PROVE  g2h'[i].of[2] = ntx'[u] /\ g2h'[i].fence = rq'[u].fence
    <3>1. g2h'[i] = g2h[i + 1] /\ i + 1 \in 1..Len(g2h) /\ g2h[i + 1].of[1] = u
      BY <1>3, <1>4, <2>1, Zenon
    <3>2. g2h[i + 1].of[2] = ntx[u] /\ g2h[i + 1].fence = rq[u].fence
      BY <1>0, <3>1, Zenon DEF CarryInv
    <3> QED BY <1>1, <3>1, <3>2, Zenon
  <2>2. ASSUME NEW u \in Threads
        PROVE  /\ \A i \in 1..Len(h2g') : h2g'[i].from = u =>
                     h2g'[i].tx = ntx'[u] /\ h2g'[i].fence = rq'[u].fence
               /\ \A x \in guc' : x.from = u => x.tx = ntx'[u] /\ x.fence = rq'[u].fence
    BY <1>0, <1>1, Zenon DEF CarryInv
  <2>3. ASSUME NEW u \in Threads, InHand(u)' PROVE found' .of = <<u, ntx'[u]>>
    BY <1>1, <1>8, <2>3, Zenon
  <2> QED BY <2>1, <2>2, <2>3, Zenon DEF CarryInv
<1>13. FlightInv'
  BY <1>10, <1>11, <1>12, Zenon DEF FlightInv, PlaceInv
<1> QED BY <1>5, <1>6, <1>7, <1>13, Zenon

\* The response ends the flight of its request.
LEMMA CalmDeliver ==
    ASSUME Calm, SendTypes, LinkInv, StatusInv, FlightInv, Deliver
    PROVE  /\ LinkInv' /\ StatusInv' /\ FlightInv'
           /\ found.to \in Threads /\ InFlight(found.to)
           /\ \A u \in Threads : InFlight(u)' <=> u # found.to /\ InFlight(u)
<1>1. PICK t : t = found.to
  BY Zenon
<1>2. /\ found # Nobody /\ found' = Nobody
      /\ rq' = [rq EXCEPT ![t].status = [type |-> found.type, of |-> found.of]]
      /\ at' = at \/ (at' = [at EXCEPT ![t] = "wait"] /\ at[t] = "asleep")
      /\ UNCHANGED <<err, ntx, fences, h2g, guc, g2h>>
  BY <1>1, Zenon DEF Deliver, chan_vars
<1>3. t \in Threads /\ found.type \in Responses
  <2>1. found \in Match
    BY <1>2, Zenon DEF SendTypes, RqOK
  <2> QED BY <1>1, <2>1 DEF Match
<1>4. /\ at \in [Senders -> Places] /\ rq \in [Threads -> Request] /\ t \in Senders
      /\ Threads \subseteq Senders /\ PlaceInv /\ CarryInv /\ StatusOf(t)
  BY <1>3, Zenon DEF SendTypes, AtOK, RqOK, Senders, FlightInv, StatusInv
<1>5. InHand(t)
  BY <1>1, <1>2, Zenon DEF InHand
<1>6. InFlight(t) /\ ~InH2G(t) /\ ~InGuc(t) /\ ~InG2H(t) /\ found.of = <<t, ntx[t]>>
  BY <1>3, <1>4, <1>5, Zenon DEF PlaceInv, OnePlace, CarryInv
<1>7. PICK x : x = [type |-> found.type, of |-> found.of]
  BY Zenon
<1>8. PICK r : r = [rq[t] EXCEPT !.status = x]
  BY Zenon
<1>9. rq[t] \in Request
  BY <1>3, <1>4, Zenon
<1>10. r.fence = rq[t].fence /\ r.status = x
  BY <1>8, <1>9 DEF Request
<1>11. x.type = found.type /\ x.of = found.of
  BY <1>7
<1>12. rq' = [rq EXCEPT ![t] = r]
  BY <1>2, <1>7, <1>8, Zenon
<1>13. rq'[t] = r /\ \A u \in Threads : u # t => rq'[u] = rq[u]
  BY <1>3, <1>4, <1>12, Zenon
<1>14. /\ \A u \in Threads : u # t => at'[u] = at[u]
       /\ at[t] \in {"wait", "asleep"} /\ at'[t] \in {"wait", "asleep"}
  <2>1. at[t] \in {"wait", "asleep"}
    BY <1>6, Zenon DEF InFlight
  <2> QED BY <1>2, <1>4, <2>1, Zenon
<1>15. Others(t)
  BY <1>2, <1>13, <1>14, Zenon DEF Others
<1>16. found.type # "none" /\ found.type # "RETRY"
  BY <1>3, ChoicesAssumption, Zenon DEF Calm
<1>17. LinkInv'
  <2>1. Linked(t)
    BY <1>14, Zenon DEF Linked
  <2>2. rq'[t].fence = rq[t].fence
    BY <1>10, <1>13, Zenon
  <2> QED BY <1>2, <1>3, <1>15, <2>1, <2>2, OthersLinked, Zenon
<1>18. StatusInv'
  <2>1. rq'[t].status.type = found.type /\ rq'[t].status.of = <<t, ntx'[t]>>
    BY <1>2, <1>6, <1>10, <1>11, <1>13, ZenonT(60)
  <2>2. err'[t] = "0"
    BY <1>2, <1>4, <1>14, Zenon DEF StatusOf
  <2>3. StatusOf(t)'
    BY <1>14, <1>16, <2>1, <2>2, Zenon DEF StatusOf
  <2> QED BY <1>3, <1>15, <2>3, OthersStatus, Zenon
<1>19. \A u \in Threads : InFlight(u)' <=> u # t /\ InFlight(u)
  <2>1. ~InFlight(t)'
    BY <1>10, <1>11, <1>13, <1>16, Zenon DEF InFlight
  <2> QED BY <1>15, <2>1, Zenon DEF InFlight, Others
<1>20. ASSUME NEW u \in Threads
       PROVE  /\ InH2G(u)' <=> InH2G(u)
              /\ InGuc(u)' <=> InGuc(u)
              /\ InG2H(u)' <=> InG2H(u)
              /\ ~InHand(u)'
  BY <1>2, Zenon DEF InH2G, InGuc, InG2H, InHand
<1>21. ASSUME NEW u \in Threads PROVE OnePlace(u)'
  <2>1. OnePlace(u)
    BY <1>4, Zenon DEF PlaceInv
  <2>2. CASE u = t
    BY <1>6, <1>20, <2>2, Zenon DEF OnePlace
  <2>3. CASE u # t
    BY <1>19, <1>20, <2>1, <2>3, ZenonT(60) DEF OnePlace
  <2> QED BY <2>2, <2>3, Zenon
<1>22. ASSUME NEW u \in Threads PROVE Once(u)'
  <2>1. Once(u) /\ h2g' = h2g /\ guc' = guc /\ g2h' = g2h
    BY <1>2, <1>4, Zenon DEF PlaceInv
  <2> QED BY <2>1 DEF Once
<1>23. CarryInv'
  <2>1. \A u \in Threads : rq'[u].fence = rq[u].fence
    BY <1>10, <1>13, Zenon
  <2>2. ASSUME NEW u \in Threads, NEW i \in 1..Len(h2g'), h2g'[i].from = u
        PROVE  h2g'[i].tx = ntx'[u] /\ h2g'[i].fence = rq'[u].fence
    BY <1>2, <1>4, <2>1, <2>2, ZenonT(60) DEF CarryInv
  <2>3. ASSUME NEW u \in Threads, NEW y \in guc', y.from = u
        PROVE  y.tx = ntx'[u] /\ y.fence = rq'[u].fence
    BY <1>2, <1>4, <2>1, <2>3, ZenonT(60) DEF CarryInv
  <2>4. ASSUME NEW u \in Threads, NEW i \in 1..Len(g2h'), g2h'[i].of[1] = u
        PROVE  g2h'[i].of[2] = ntx'[u] /\ g2h'[i].fence = rq'[u].fence
    BY <1>2, <1>4, <2>1, <2>4, ZenonT(60) DEF CarryInv
  <2> QED BY <1>20, <2>2, <2>3, <2>4, Zenon DEF CarryInv
<1>24. FlightInv'
  BY <1>21, <1>22, <1>23, Zenon DEF FlightInv, PlaceInv
<1> QED BY <1>1, <1>3, <1>6, <1>17, <1>18, <1>19, <1>24, ZenonT(60)

\* No request is in flight at first.
LEMMA CalmInit == SendInit => CalmInv
<1> SUFFICES ASSUME SendInit PROVE CalmInv
  BY Zenon
<1>1. /\ h2g = <<>> /\ g2h = <<>> /\ guc = {} /\ wq = <<>> /\ found = Nobody
      /\ at = [s \in Senders |-> "idle"]
      /\ rq = [t \in Threads |-> [fence |-> 0, status |-> NoStatus, tsk |-> FALSE]]
  BY Zenon DEF SendInit
<1>2. \A t \in Threads : at[t] = "idle" /\ rq[t].status.type = "none"
  <2>1. \A t \in Threads : at[t] = "idle"
    BY <1>1, Zenon DEF Senders
  <2>2. \A t \in Threads : rq[t].status.type = "none"
    BY <1>1 DEF NoStatus
  <2> QED BY <2>1, <2>2, Zenon
<1>3. wq \in Seq(Threads)
  BY <1>1
<1>4. LinkInv
  BY <1>2, Zenon DEF LinkInv, Linked
<1>5. StatusInv
  BY <1>2, Zenon DEF StatusInv, StatusOf
<1>6. \A t \in Threads : ~InH2G(t) /\ ~InGuc(t) /\ ~InG2H(t) /\ ~InHand(t)
  BY <1>1 DEF InH2G, InGuc, InG2H, InHand
<1>7. \A t \in Threads : OnePlace(t)
  BY <1>6, Zenon DEF OnePlace
<1>8. \A t \in Threads : Once(t)
  BY <1>1 DEF Once
<1>9. CarryInv
  BY <1>6, Zenon DEF CarryInv, InH2G, InGuc, InG2H
<1> QED BY <1>3, <1>4, <1>5, <1>7, <1>8, <1>9, ZenonT(60) DEF CalmInv, FlightInv, PlaceInv

\* A sender that waits for room is a thread.
LEMMA CalmQueue ==
    ASSUME Calm, wq \in Seq(Threads), [SendNext]_send_vars
    PROVE  wq' \in Seq(Threads)
<1>1. "ERESTARTSYS" \notin GiveUps
  BY Zenon DEF Calm
<1>2. CASE wq' = wq
  BY <1>2, Zenon
<1>3. CASE WakeUp
  <2>1. CASE wq = <<>>
    BY <1>3, <2>1, Zenon DEF WakeUp
  <2>2. CASE wq # <<>>
    <3>1. wq' = Tail(wq)
      BY <1>3, <2>2, Zenon DEF WakeUp
    <3> QED BY <2>2, <3>1
  <2> QED BY <2>1, <2>2, Zenon
<1>4. CASE WakeUpAll
  <2>1. wq' = <<>>
    BY <1>4, Zenon DEF WakeUpAll
  <2> QED BY <2>1
<1>5. ASSUME NEW t \in Threads, WaitForRoom(t) PROVE wq' \in Seq(Threads)
  <2>1. wq' = Append(wq, t)
    BY <1>5, Zenon DEF WaitForRoom
  <2> QED BY <2>1
<1>6. ASSUME NEW t \in Threads, Send(t) PROVE wq' \in Seq(Threads)
  BY <1>1, <1>2, <1>3, <1>5, <1>6, ZenonT(60)
     DEF Send, SendCheck, SendStart, RoomSignal, Write, WaitDone, WaitSleep, WaitFails, Release,
         Unlink, Erase, wait_vars
<1>7. ASSUME NEW n \in Posters, Post(n) PROVE wq' \in Seq(Threads)
  BY <1>2, <1>3, <1>7, ZenonT(60) DEF Post, PostStart, PostCheck, PostLocked, wait_vars
<1>8. CASE \/ GucFetch \/ GucReply \/ GucError \/ Interrupt \/ PollReceive \/ HandleMsg \/ Deliver
           \/ ReadEnd \/ UNCHANGED send_vars
  BY <1>2, <1>3, <1>8, Zenon DEF GucFetch, GucReply, GucError, Interrupt, PollReceive, HandleMsg,
                                 Deliver, ReadEnd, wait_vars, send_vars
<1>9. CASE Disable \/ Sanitize \/ Enable
  BY <1>2, <1>4, <1>9, Zenon DEF Disable, Sanitize, Enable, wait_vars
<1> QED BY <1>6, <1>7, <1>8, <1>9, Zenon DEF SendNext, Read

\* What a step does while the transport stays on: the steps that move a request,
\* and the others.
LEMMA CalmMoves ==
    ASSUME Calm, SendTypes, enabled, ntoggles = 0, ntoggles' = 0, [SendNext]_send_vars
    PROVE  \/ \E t \in Threads : Write(t) /\ ~h2g_status
           \/ \E t \in Threads : Send(t) /\ h2g' = h2g /\ ~(Write(t) /\ ~h2g_status)
           \/ \E n \in Posters : Post(n)
           \/ GucFetch \/ GucReply \/ HandleMsg \/ Deliver
           \/ UNCHANGED <<at, rq, err, ntx, fences, h2g, guc, g2h, found>>
<1>1. ~Disable /\ ~Sanitize /\ ~Enable
  <2>1. ntoggles' # ntoggles + 1
    OBVIOUS
  <2> QED BY <2>1, Zenon DEF Disable, Sanitize, Enable
<1>2. ASSUME NEW t \in Threads, Send(t), ~(Write(t) /\ ~h2g_status) PROVE h2g' = h2g
  <2>1. CASE Write(t)
    BY <1>2, <2>1, Zenon DEF Write
  <2>2. CASE ~Write(t)
    BY <1>2, <2>2, Zenon DEF Send, SendCheck, SendStart, WaitForRoom, RoomSignal, WaitDone,
                             WaitSleep, WaitFails, Release, Unlink, Erase, chan_vars
  <2> QED BY <2>1, <2>2, Zenon
<1>3. CASE GucError \/ Interrupt \/ PollReceive \/ ReadEnd \/ UNCHANGED send_vars
  BY <1>3, Zenon DEF GucError, Interrupt, PollReceive, ReadEnd, send_vars, chan_vars, recv_vars
<1> QED BY <1>1, <1>2, <1>3, Zenon DEF SendNext, Read

\* As long as the transport stays on, every step keeps a request in one place.
LEMMA CalmStep ==
    ASSUME Calm, RoomIInv, CalmInv, ntoggles = 0, ntoggles' = 0, [SendNext]_send_vars
    PROVE  CalmInv'
<1>0. /\ SendTypes /\ MsgInv /\ enabled /\ wq \in Seq(Threads) /\ LinkInv /\ StatusInv /\ FlightInv
  <2>1. ~(0 >= 1)
    OBVIOUS
  <2> QED BY <2>1, Zenon DEF RoomIInv, AccountInv, CalmInv
<1>1. wq' \in Seq(Threads)
  BY <1>0, CalmQueue, Zenon
<1>2. CASE UNCHANGED <<at, rq, err, ntx, fences, h2g, guc, g2h, found>>
  <2>1. LinkInv'
    BY <1>0, <1>2, Zenon DEF LinkInv, Linked
  <2>2. StatusInv'
    BY <1>0, <1>2, Zenon DEF StatusInv, StatusOf
  <2>3. \A t \in Threads : InFlight(t) =>
            InFlight(t)' /\ ntx'[t] = ntx[t] /\ rq'[t].fence = rq[t].fence
    BY <1>2, Zenon DEF InFlight
  <2>4. FlightInv'
    BY <1>0, <1>2, <2>3, FlightFrame, Zenon
  <2> QED BY <1>1, <2>1, <2>2, <2>4, Zenon DEF CalmInv
<1>3. CASE ~UNCHANGED <<at, rq, err, ntx, fences, h2g, guc, g2h, found>>
  BY <1>0, <1>1, <1>3, CalmMoves, CalmWrite, CalmThread, CalmPost, CalmFetch, CalmReply,
     CalmHandle, CalmDeliver, ZenonT(60) DEF CalmInv
<1> QED BY <1>2, <1>3, Zenon

\* A transport that has not been turned off was not turned off before.
LEMMA TogglesGrow ==
    ASSUME SendTypes, [SendNext]_send_vars, ntoggles' = 0 PROVE ntoggles = 0
<1>0. ntoggles \in Nat
  BY SendBoundsAssumption DEF SendTypes, MiscOK
<1>1. ntoggles' = ntoggles \/ ntoggles' = ntoggles + 1
  <2>1. ASSUME NEW t \in Threads, Send(t) PROVE ntoggles' = ntoggles
    BY <2>1, Zenon DEF Send, SendCheck, SendStart, WaitForRoom, RoomSignal, Write, WaitDone,
                       WaitSleep, WaitFails, Release, Unlink, Erase
  <2>2. ASSUME NEW n \in Posters, Post(n) PROVE ntoggles' = ntoggles
    BY <2>2, Zenon DEF Post, PostStart, PostCheck, PostLocked
  <2>3. CASE \/ GucFetch \/ GucReply \/ GucError \/ Interrupt \/ PollReceive \/ HandleMsg
             \/ Deliver \/ ReadEnd \/ UNCHANGED send_vars
    BY <2>3, Zenon DEF GucFetch, GucReply, GucError, Interrupt, PollReceive, HandleMsg, Deliver,
                       ReadEnd, send_vars
  <2>4. CASE Disable \/ Sanitize \/ Enable
    BY <2>4, Zenon DEF Disable, Sanitize, Enable
  <2> QED BY <2>1, <2>2, <2>3, <2>4, ZenonT(60) DEF SendNext, Read
<1> QED BY <1>0, <1>1

\* The invariant of requests in flight.
LEMMA CalmIInvInvariant ==
    ASSUME Calm PROVE SendSpec => []CalmIInv
<1>1. SendInit => CalmIInv
  BY SendInitTypes, MsgInit, AccountInit, CalmInit, Zenon DEF CalmIInv, RoomIInv
<1>2. CalmIInv /\ [SendNext]_send_vars => CalmIInv'
  <2> SUFFICES ASSUME CalmIInv, [SendNext]_send_vars PROVE CalmIInv'
    BY Zenon
  <2>1. RoomIInv /\ SendTypes /\ MsgInv
    BY Zenon DEF CalmIInv, RoomIInv
  <2>2. RoomIInv'
    BY <2>1, SendTypesStep, MsgStep, AccountStep, Zenon DEF RoomIInv
  <2>3. ASSUME ntoggles' = 0 PROVE CalmInv'
    <3>1. ntoggles = 0
      BY <2>1, <2>3, TogglesGrow, Zenon
    <3> QED BY <2>1, <2>3, <3>1, CalmStep, Zenon DEF CalmIInv
  <2> QED BY <2>2, <2>3, Zenon DEF CalmIInv
<1> QED BY <1>1, <1>2, PTL DEF SendSpec

\* Answers find their requests. As long as the transport has not been turned
\* off, no request is given up and the GuC asks for no retry, and whatever the
\* number of threads and slots and the order of the answers: no two requests
\* share a fence, ct_handle_response() only writes into a request in flight,
\* and a wait that succeeds returns the answer to its own transmission.
THEOREM AnswersMatch ==
    ASSUME Calm PROVE SendSpec => [](ntoggles = 0 => ResponseMatches)
<1>1. CalmIInv => (ntoggles = 0 => ResponseMatches)
  <2> SUFFICES ASSUME CalmIInv, ntoggles = 0 PROVE ResponseMatches
    BY Zenon
  <2>0. SendTypes /\ wq \in Seq(Threads) /\ LinkInv /\ StatusInv /\ PlaceInv
    BY Zenon DEF CalmIInv, CalmInv, RoomIInv, FlightInv
  <2>1. SendTypeOK
    BY <2>0, Zenon DEF SendTypes, AtOK, RqOK, ChanOK, MiscOK, SendTypeOK, Places, Request, Errors
  <2>2. found # Nobody => Linked(found.to)
    <3> SUFFICES ASSUME found # Nobody PROVE Linked(found.to)
      BY Zenon
    <3>1. found \in Match
      BY <2>0, Zenon DEF SendTypes, RqOK
    <3>2. found.to \in Threads
      BY <3>1 DEF Match
    <3>3. InFlight(found.to)
      BY <2>0, <3>2, Zenon DEF PlaceInv, OnePlace, InHand
    <3> QED BY <3>3, Zenon DEF InFlight, Linked
  <2>3. \A t \in Threads :
          at[t] = "release" /\ err[t] = "0" => rq[t].status.of = <<t, ntx[t]>>
    BY <2>0, Zenon DEF StatusInv, StatusOf
  <2> QED BY <2>0, <2>1, <2>2, <2>3, Zenon DEF ResponseMatches, LinkInv
<1> QED BY <1>1, CalmIInvInvariant, PTL

\* A request stays in flight until its response comes.
LEMMA FlightStays ==
    ASSUME Calm, SendTypes, enabled, NEW t \in Threads, Send(t)
    PROVE  \A u \in Threads : InFlight(u) => InFlight(u)'
<1>0. /\ at \in [Senders -> Places] /\ rq \in [Threads -> Request] /\ Threads \subseteq Senders
      /\ "ERESTARTSYS" \notin GiveUps /\ "ETIME" \notin GiveUps
  BY Zenon DEF SendTypes, AtOK, RqOK, Senders, Calm
<1>1. /\ at' = at \/ \E x : at' = [at EXCEPT ![t] = x]
      /\ rq' = rq \/ \E r : rq' = [rq EXCEPT ![t] = r]
  BY Zenon DEF Send, SendCheck, SendStart, WaitForRoom, RoomSignal, Write, WaitDone, WaitSleep,
               WaitFails, Release, Unlink, Erase
<1>2. ASSUME NEW u \in Threads, u # t, InFlight(u) PROVE InFlight(u)'
  <2>1. at'[u] = at[u] /\ rq'[u] = rq[u]
    BY <1>0, <1>1, <1>2, Zenon
  <2> QED BY <1>2, <2>1, Zenon DEF InFlight
<1>3. ASSUME InFlight(t) PROVE InFlight(t)'
  <2>1. at[t] \in {"wait", "asleep"} /\ rq[t].status.type = "none"
    BY <1>3, Zenon DEF InFlight
  <2>2. WaitSleep(t)
    BY <1>0, <2>1, ZenonT(60) DEF Send, SendCheck, SendStart, WaitForRoom, RoomSignal, Write,
                             WaitDone, WaitFails, Release, Unlink, Erase
  <2>3. at' = [at EXCEPT ![t] = "asleep"] /\ rq' = [rq EXCEPT ![t].tsk = TRUE]
    BY <2>2, Zenon DEF WaitSleep
  <2>4. PICK r : r = [rq[t] EXCEPT !.tsk = TRUE]
    BY Zenon
  <2>5. rq[t] \in Request
    BY <1>0, Zenon
  <2>6. r.status = rq[t].status
    BY <2>4, <2>5, SMTT(40) DEF Request
  <2>7. rq' = [rq EXCEPT ![t] = r]
    BY <2>3, <2>4, Zenon
  <2>8. at'[t] = "asleep" /\ rq'[t] = r
    BY <1>0, <2>3, <2>7, Zenon
  <2> QED BY <2>1, <2>6, <2>8, Zenon DEF InFlight
<1> QED BY <1>2, <1>3, Zenon

\* How the four places where a request may be change together.
LEMMA UnderWayStep ==
    ASSUME Calm, SendTypes, MsgInv, CalmInv, IsFiniteSet(guc), enabled, ntoggles = 0,
           ntoggles' = 0, [SendNext]_send_vars
    PROVE  /\ UnderWay \in Nat
           /\ \/ UnderWay' <= UnderWay /\ \A u \in Threads : InFlight(u) => InFlight(u)'
              \/ /\ UnderWay' = UnderWay + 1
                 /\ \E t \in Threads : ~InFlight(t) /\ Flights' = Flights \cup {t}
              \/ /\ UnderWay = UnderWay' + 1
                 /\ \E t \in Threads : InFlight(t) /\ Flights' = Flights \ {t}
<1>0. /\ h2g \in Seq(Message) /\ guc \subseteq Message /\ g2h \in Seq(Answer)
      /\ Threads \subseteq Senders /\ Posters \subseteq Senders
      /\ \A t \in Threads : t \notin Posters
      /\ LinkInv /\ StatusInv /\ FlightInv
  BY SendersAssumption, Zenon DEF SendTypes, ChanOK, Senders, CalmInv
<1>1. PICK a : a = Cardinality(Marked(h2g, ReqMsgs))
  BY Zenon
<1>2. PICK b : b = Cardinality(guc \cap ReqMsgs)
  BY Zenon
<1>3. PICK c : c = Cardinality(Marked(g2h, Replies))
  BY Zenon
<1>4. PICK w : w = Unit(found # Nobody)
  BY Zenon
<1>5. a \in Nat /\ b \in Nat /\ c \in Nat
  BY <1>0, <1>1, <1>2, <1>3, MarkedFinite, PartFinite, ZenonT(60)
<1>6. w \in Nat
  BY <1>4 DEF Unit
<1>7. UnderWay = a + b + c + w
  BY <1>1, <1>2, <1>3, <1>4, ZenonT(60) DEF UnderWay
<1>8. PICK d : d = Cardinality(Marked(h2g', ReqMsgs))
  BY Zenon
<1>9. PICK e : e = Cardinality(guc' \cap ReqMsgs)
  BY Zenon
<1>10. PICK g : g = Cardinality(Marked(g2h', Replies))
  BY Zenon
<1>11. PICK z : z = Unit(found' # Nobody)
  BY Zenon
<1>12. UnderWay' = d + e + g + z
  BY <1>8, <1>9, <1>10, <1>11, ZenonT(60) DEF UnderWay, Marked, ReqMsgs, Replies, Message, Answer,
     Unit
<1>13. /\ h2g' = h2g => d = a
       /\ guc' = guc => e = b
       /\ g2h' = g2h => g = c
       /\ found' = found => z = w
  BY <1>1, <1>2, <1>3, <1>4, <1>8, <1>9, <1>10, <1>11, ZenonT(60)
<1>14. UnderWay \in Nat
  BY <1>5, <1>6, <1>7, SMTT(40)
<1>15. ASSUME UNCHANGED <<h2g, guc, g2h, found>> PROVE UnderWay' <= UnderWay
  BY <1>5, <1>6, <1>7, <1>12, <1>13, <1>15, SMTT(40)
<1>16. ASSUME NEW t \in Threads, Write(t), ~h2g_status
       PROVE  /\ UnderWay' = UnderWay + 1
              /\ ~InFlight(t) /\ Flights' = Flights \cup {t}
  <2>1. /\ ct_write(t, "REQUEST", rq[t].fence) /\ h2g_has_room /\ ntx[t] < MaxTx
        /\ UNCHANGED <<guc, g2h, found>>
    BY <1>16, Zenon DEF Write, has_room_nb, recv_vars
  <2>2. rq[t].fence \in Fences
    BY DEF SendTypes, RqOK, Request
  <2>3. PICK m \in Message : Written(m, t, "REQUEST", rq[t].fence)
    BY <1>0, <2>1, <2>2, WriteShape, ZenonT(60)
  <2>4. m \in ReqMsgs
    BY <2>3, Zenon DEF Written, ReqMsgs
  <2>5. d = a + Unit(m \in ReqMsgs)
    BY <1>0, <1>1, <1>8, <2>3, MarkedAppend, ZenonT(60) DEF Written
  <2>6. d = a + 1
    BY <2>4, <2>5, ZenonT(60) DEF Unit
  <2>7. UnderWay' = UnderWay + 1
    BY <1>5, <1>6, <1>7, <1>12, <1>13, <2>1, <2>6, SMTT(40)
  <2>8. ~InFlight(t) /\ \A u \in Threads : InFlight(u)' <=> u = t \/ InFlight(u)
    BY <1>0, <1>16, CalmWrite, ZenonT(60)
  <2>9. Flights' = Flights \cup {t}
    BY <2>8, Zenon DEF Flights
  <2> QED BY <2>7, <2>8, <2>9, ZenonT(60)
<1>17. ASSUME NEW t \in Threads, Send(t), h2g' = h2g
       PROVE  UnderWay' <= UnderWay /\ \A u \in Threads : InFlight(u) => InFlight(u)'
  <2>1. UNCHANGED <<guc, g2h, found>>
    BY <1>17, ZenonT(60) DEF Send, SendCheck, SendStart, WaitForRoom, RoomSignal, Write, WaitDone,
                        WaitSleep, WaitFails, Release, Unlink, Erase, chan_vars, recv_vars
  <2> QED BY <1>15, <1>17, <2>1, FlightStays, ZenonT(60)
<1>18. ASSUME NEW n \in Posters, Post(n)
       PROVE  UnderWay' <= UnderWay /\ \A u \in Threads : InFlight(u) => InFlight(u)'
  <2>1. \A u \in Threads : InFlight(u) => InFlight(u)'
    BY <1>0, <1>18, CalmPost, ZenonT(60)
  <2>2. UNCHANGED <<guc, g2h, found>>
    BY <1>18, Zenon DEF Post, PostStart, PostCheck, PostLocked, chan_vars, recv_vars
  <2>3. CASE h2g' = h2g
    BY <1>15, <2>1, <2>2, <2>3, ZenonT(60)
  <2>4. CASE h2g' # h2g
    <3>1. at[n] = "nb_lock" /\ has_room_nb(EventLen) /\ ct_write(n, "FAST_REQUEST", 0)
      BY <1>18, <2>4, ZenonT(60) DEF Post, PostStart, PostCheck, PostLocked, chan_vars
    <3>2. 0 \in Fences
      BY FencesAssumption DEF Fences
    <3>3. ntx[n] < MaxTx
      <4>1. ntx[n] < MaxPosts /\ ntx[n] \in 0..MaxTx
        BY <1>0, <3>1, Zenon DEF SendTypes, AtOK
      <4> QED BY <4>1, SendBoundsAssumption, SMTT(40)
    <3>4. PICK m \in Message : Written(m, n, "FAST_REQUEST", 0)
      BY <1>0, <3>1, <3>2, <3>3, WriteShape, ZenonT(60) DEF has_room_nb
    <3>5. m \notin ReqMsgs
      BY <3>4, Zenon DEF Written, ReqMsgs
    <3>6. d = a + Unit(m \in ReqMsgs)
      BY <1>0, <1>1, <1>8, <3>4, MarkedAppend, ZenonT(60) DEF Written
    <3>7. d = a + 0
      BY <3>5, <3>6, ZenonT(60) DEF Unit
    <3>8. UnderWay' <= UnderWay
      BY <1>5, <1>6, <1>7, <1>12, <1>13, <2>2, <3>7, SMTT(40)
    <3> QED BY <2>1, <3>8, Zenon
  <2> QED BY <2>3, <2>4, Zenon
<1>19. ASSUME GucFetch
       PROVE  UnderWay' <= UnderWay /\ \A u \in Threads : InFlight(u) => InFlight(u)'
  <2>1. /\ h2g # <<>> /\ guc' = guc \cup {Head(h2g)} /\ h2g' = Tail(h2g)
        /\ UNCHANGED <<g2h, found>>
    BY <1>19, Zenon DEF GucFetch, recv_vars
  <2>2. Head(h2g) \notin guc
    BY <1>19, MsgFetch, Zenon
  <2>3. a = d + Unit(Head(h2g) \in ReqMsgs)
    BY <1>0, <1>1, <1>8, <2>1, MarkedTail, ZenonT(60)
  <2>4. e = b + Unit(Head(h2g) \in ReqMsgs)
    BY <1>2, <1>9, <2>1, <2>2, PartAdd, ZenonT(60)
  <2>5. h2g' \in Seq(Message)
    BY <1>0, <2>1, SMTT(40)
  <2>6. d \in Nat
    BY <1>8, <2>5, MarkedFinite, Zenon
  <2>7. PICK k : k = Unit(Head(h2g) \in ReqMsgs)
    BY Zenon
  <2>8. k \in Nat
    BY <2>7, SMTT(40) DEF Unit
  <2>9. UnderWay' <= UnderWay
    BY <1>5, <1>6, <1>7, <1>12, <1>13, <2>1, <2>3, <2>4, <2>6, <2>7, <2>8, SMTT(40)
  <2> QED BY <1>0, <1>19, <2>9, CalmFetch, ZenonT(60)
<1>20. ASSUME GucReply
       PROVE  UnderWay' <= UnderWay /\ \A u \in Threads : InFlight(u) => InFlight(u)'
  <2>1. PICK m \in guc, x \in Answer :
            /\ guc' = guc \ {m} /\ g2h' = Append(g2h, x) /\ x.of = <<m.from, m.tx>>
            /\ m.kind = "FAST_REQUEST" <=> m.from \in Posters
    BY <1>20, ReplyShape, Zenon
  <2>2. h2g' = h2g /\ found' = found
    BY <1>20, Zenon DEF GucReply, recv_vars
  <2>3. x.of[1] = m.from
    BY <2>1, SMTT(40)
  <2>4. m.kind \in {"REQUEST", "FAST_REQUEST"}
    BY <1>0 DEF Message
  <2>5. m \in ReqMsgs <=> x \in Replies
    BY <1>0, <2>1, <2>3, <2>4, ZenonT(60) DEF ReqMsgs, Replies
  <2>6. Unit(m \in ReqMsgs) = Unit(x \in Replies)
    BY <2>5, Zenon DEF Unit
  <2>7. b = e + Unit(m \in ReqMsgs)
    BY <1>2, <1>9, <2>1, PartRemove, ZenonT(60)
  <2>8. g = c + Unit(x \in Replies)
    BY <1>0, <1>3, <1>10, <2>1, MarkedAppend, ZenonT(60)
  <2>9. e \in Nat
    <3>1. IsFiniteSet(guc \ {m})
      BY FS_RemoveElement, Zenon
    <3> QED BY <1>9, <2>1, <3>1, PartFinite, ZenonT(60)
  <2>10. PICK k : k = Unit(m \in ReqMsgs) /\ k = Unit(x \in Replies)
    BY <2>6, Zenon
  <2>11. k \in Nat
    BY <2>10, SMTT(40) DEF Unit
  <2>12. UnderWay' <= UnderWay
    BY <1>5, <1>6, <1>7, <1>12, <1>13, <2>2, <2>7, <2>8, <2>9, <2>10, <2>11, SMTT(40)
  <2> QED BY <1>0, <1>20, <2>12, CalmReply, ZenonT(60)
<1>21. ASSUME HandleMsg
       PROVE  UnderWay' <= UnderWay /\ \A u \in Threads : InFlight(u) => InFlight(u)'
  <2>1. found = Nobody /\ g2h # <<>> /\ g2h' = Tail(g2h) /\ UNCHANGED <<h2g, guc>>
    BY <1>21, Zenon DEF HandleMsg
  <2>2. g2h' \in Seq(Answer) /\ Head(g2h) \in Answer /\ Head(g2h) = g2h[1] /\ 1 \in 1..Len(g2h)
    BY <1>0, <2>1, SMTT(40)
  <2>3. g \in Nat
    BY <1>10, <2>2, MarkedFinite, ZenonT(60)
  <2>4. c = g + Unit(Head(g2h) \in Replies)
    BY <1>0, <1>3, <1>10, <2>1, MarkedTail, ZenonT(60)
  <2>5. Head(g2h) \in Replies <=> Head(g2h).type # "EVENT"
    BY <2>2, Zenon DEF MsgInv, Replies
  <2>6. w = 0 /\ z \in 0..1
    BY <1>4, <1>11, <2>1, SMTT(40) DEF Unit
  <2>7. CASE Head(g2h).type = "EVENT"
    <3>1. found' = found
      BY <1>21, <2>7, Zenon DEF HandleMsg
    <3>2. Unit(Head(g2h) \in Replies) = 0
      BY <2>5, <2>7, Zenon DEF Unit
    <3>3. c = g + 0
      BY <2>4, <3>2, Zenon
    <3>4. UnderWay' <= UnderWay
      BY <1>5, <1>6, <1>7, <1>12, <1>13, <2>1, <2>3, <3>1, <3>3, SMTT(40)
    <3> QED BY <1>0, <1>21, <3>4, CalmHandle, ZenonT(60)
  <2>8. CASE Head(g2h).type # "EVENT"
    <3>2. Unit(Head(g2h) \in Replies) = 1
      BY <2>5, <2>8, Zenon DEF Unit
    <3>3. c = g + 1
      BY <2>4, <3>2, Zenon
    <3>4. UnderWay' <= UnderWay
      BY <1>5, <1>7, <1>12, <1>13, <2>1, <2>3, <2>6, <3>3, SMTT(40)
    <3> QED BY <1>0, <1>21, <3>4, CalmHandle, Zenon
  <2> QED BY <2>7, <2>8, Zenon
<1>22. ASSUME Deliver
       PROVE  /\ UnderWay = UnderWay' + 1
              /\ \E t \in Threads : InFlight(t) /\ Flights' = Flights \ {t}
  <2>1. found # Nobody /\ found' = Nobody /\ UNCHANGED <<h2g, guc, g2h>>
    BY <1>22, Zenon DEF Deliver, chan_vars
  <2>2. w = 1 /\ z = 0
    BY <1>4, <1>11, <2>1, ZenonT(60) DEF Unit
  <2>3. UnderWay = UnderWay' + 1
    BY <1>5, <1>7, <1>12, <1>13, <2>1, <2>2, SMTT(40)
  <2>4. PICK t : t = found.to
    BY Zenon
  <2>5. t \in Threads /\ InFlight(t) /\ \A u \in Threads : InFlight(u)' <=> u # t /\ InFlight(u)
    BY <1>0, <1>22, <2>4, CalmDeliver, ZenonT(60)
  <2>6. Flights' = Flights \ {t}
    BY <2>5, Zenon DEF Flights
  <2> QED BY <2>3, <2>5, <2>6, Zenon
<1>23. ASSUME UNCHANGED <<at, rq, err, ntx, fences, h2g, guc, g2h, found>>
       PROVE  UnderWay' <= UnderWay /\ \A u \in Threads : InFlight(u) => InFlight(u)'
  BY <1>15, <1>23, Zenon DEF InFlight
<1> QED BY <1>14, <1>16, <1>17, <1>18, <1>19, <1>20, <1>21, <1>22, <1>23, CalmMoves, ZenonT(60)

\* Every step keeps the number of messages under way at or below that of the
\* requests in flight.
LEMMA CountStep ==
    ASSUME Calm, CalmIInv, CalmIInv', CountInv, [SendNext]_send_vars
    PROVE  CountInv'
<1> SUFFICES ASSUME ntoggles' = 0 PROVE UnderWay' <= Cardinality(Flights')
  BY Zenon DEF CountInv, Flights, InFlight
<1>0. /\ SendTypes /\ MsgInv /\ IsFiniteSet(guc) /\ IsFiniteSet(Holding)
      /\ IsFiniteSet(Holding') /\ (~enabled => ntoggles >= 1)
  BY Zenon DEF CalmIInv, RoomIInv, AccountInv, Holding
<1>1. ntoggles = 0
  BY <1>0, TogglesGrow, Zenon
<1>2. enabled
  BY <1>0, <1>1
<1>3. CalmInv /\ UnderWay <= Cardinality(Flights)
  BY <1>1, Zenon DEF CalmIInv, CountInv
<1>4. Flights \in SUBSET Holding /\ Flights' \in SUBSET Holding'
  BY Zenon DEF Flights, Holding, InFlight
<1>5. /\ IsFiniteSet(Flights) /\ Cardinality(Flights) \in Nat
      /\ IsFiniteSet(Flights') /\ Cardinality(Flights') \in Nat
  BY <1>0, <1>4, FS_Subset, FS_CardinalityType, Zenon
<1>6. PICK k : k = Cardinality(Flights) /\ k \in Nat
  BY <1>5, Zenon
<1>7. PICK l : l = Cardinality(Flights') /\ l \in Nat
  BY <1>5, Zenon
<1>8. UnderWay \in Nat
  BY <1>0, <1>1, <1>2, <1>3, UnderWayStep, ZenonT(60)
<1>9. UnderWay' \in Int
  <2>1. h2g' \in Seq(Message) /\ g2h' \in Seq(Answer) /\ IsFiniteSet(guc')
    BY Zenon DEF CalmIInv, RoomIInv, SendTypes, ChanOK, AccountInv, Message, Answer
  <2>2. PICK w : w = Cardinality(Marked(h2g', ReqMsgs))
    BY Zenon
  <2>3. PICK x : x = Cardinality(guc' \cap ReqMsgs)
    BY Zenon
  <2>4. PICK y : y = Cardinality(Marked(g2h', Replies))
    BY Zenon
  <2>5. PICK z : z = Unit(found' # Nobody)
    BY Zenon
  <2>6. w \in Nat /\ x \in Nat /\ y \in Nat
    BY <2>1, <2>2, <2>3, <2>4, MarkedFinite, PartFinite, ZenonT(60)
  <2>7. z \in Nat
    BY <2>5 DEF Unit
  <2>8. UnderWay' = w + x + y + z
    BY <2>2, <2>3, <2>4, <2>5, ZenonT(60)
       DEF UnderWay, Marked, ReqMsgs, Replies, Message, Answer, Unit
  <2> QED BY <2>6, <2>7, <2>8, SMTT(40)
<1>10. ASSUME UnderWay' <= UnderWay, \A u \in Threads : InFlight(u) => InFlight(u)'
      PROVE  UnderWay' <= l
  <2>1. Flights \in SUBSET Flights'
    BY <1>10, Zenon DEF Flights
  <2>2. k <= l
    BY <1>5, <1>6, <1>7, <2>1, FS_Subset, ZenonT(60)
  <2> QED BY <1>3, <1>6, <1>7, <1>8, <1>10, <1>9, <2>2, SMTT(40)
<1>11. ASSUME UnderWay' = UnderWay + 1,
              NEW t \in Threads, ~InFlight(t), Flights' = Flights \cup {t}
       PROVE  UnderWay' <= l
  <2>1. t \notin Flights
    BY <1>11, Zenon DEF Flights
  <2>2. l = k + 1
    BY <1>5, <1>6, <1>7, <1>11, <2>1, FS_AddElement, ZenonT(60)
  <2> QED BY <1>3, <1>6, <1>8, <1>11, <2>2, SMTT(40)
<1>12. ASSUME UnderWay = UnderWay' + 1,
              NEW t \in Threads, InFlight(t), Flights' = Flights \ {t}
       PROVE  UnderWay' <= l
  <2>1. t \in Flights
    BY <1>12, Zenon DEF Flights
  <2>2. l = k - 1
    BY <1>5, <1>6, <1>7, <1>12, <2>1, FS_RemoveElement, ZenonT(60)
  <2>3. ASSUME NEW v, UnderWay = v + 1, v \in Int PROVE v <= l
    BY <1>3, <1>6, <1>8, <2>2, <2>3, SMTT(40)
  <2> QED BY <1>12, <1>9, <2>3, Zenon
<1>13. UnderWay' <= l
  BY <1>0, <1>1, <1>2, <1>3, <1>10, <1>11, <1>12, UnderWayStep, ZenonT(60)
<1> QED BY <1>7, <1>13, Zenon

\* More of the same is not less.
LEMMA TimesMonotone ==
    ASSUME NEW a \in Nat, NEW m \in Nat, NEW n \in Nat, m <= n
    PROVE  a * m <= a * n /\ a * m \in Nat /\ a * n \in Nat
OBVIOUS

\* The GuC never runs out of room for what it owes: under the same conditions
\* everything written to the G2H ring and still to be written there fits in
\* the part of it that is not set aside for unexpected messages.
THEOREM ReserveIsKept ==
    ASSUME Calm PROVE SendSpec => [](ntoggles = 0 => ReserveKept)
<1>1. SendInit => CountInv
  <2> SUFFICES ASSUME SendInit PROVE UnderWay <= Cardinality(Flights)
    BY Zenon DEF CountInv
  <2>1. /\ h2g = <<>> /\ g2h = <<>> /\ guc = {} /\ found = Nobody
        /\ at = [s \in Senders |-> "idle"]
    BY Zenon DEF SendInit
  <2>2. Cardinality(Marked(h2g, ReqMsgs)) = 0 /\ Cardinality(Marked(g2h, Replies)) = 0
    BY <2>1, MarkedEmpty, Zenon
  <2>3. guc \cap ReqMsgs = {}
    BY <2>1, Zenon
  <2>4. Flights = {}
    BY <2>1, Zenon DEF Flights, InFlight, Senders
  <2>5. Cardinality(guc \cap ReqMsgs) = 0 /\ Cardinality(Flights) = 0
    BY <2>3, <2>4, FS_EmptySet, Zenon
  <2>6. Unit(found # Nobody) = 0
    BY <2>1, Zenon DEF Unit
  <2>7. 0 + 0 + 0 + 0 <= 0
    OBVIOUS
  <2> QED BY <2>2, <2>5, <2>6, <2>7, ZenonT(60) DEF UnderWay
<1>2. CalmIInv /\ CalmIInv' /\ CountInv /\ [SendNext]_send_vars => CountInv'
  BY CountStep, Zenon
<1>3. CalmIInv /\ CountInv => (ntoggles = 0 => ReserveKept)
  <2> SUFFICES ASSUME CalmIInv, CountInv, ntoggles = 0 PROVE ReserveKept
    BY Zenon
  <2>0. /\ SendTypes /\ AccountInv /\ MsgInv /\ UnderWay <= Cardinality(Flights)
        /\ h2g \in Seq(Message) /\ guc \subseteq Message /\ g2h \in Seq(Answer)
        /\ IsFiniteSet(guc) /\ IsFiniteSet(Holding) /\ g2h_space \in Nat
    BY Zenon DEF CalmIInv, RoomIInv, CountInv, SendTypes, ChanOK, AccountInv
  <2>1. /\ DOMAIN h2g = 1..Len(h2g) /\ \A i \in 1..Len(h2g) : h2g[i] \in Message
        /\ DOMAIN g2h = 1..Len(g2h) /\ \A i \in 1..Len(g2h) : g2h[i] \in Answer
    BY <2>0
  <2>2. {i \in DOMAIN h2g : h2g[i].kind = "REQUEST"} = Marked(h2g, ReqMsgs)
    BY <2>1, Zenon DEF Marked, ReqMsgs
  <2>3. {m \in guc : m.kind = "REQUEST"} = guc \cap ReqMsgs
    BY <2>0, Zenon DEF ReqMsgs
  <2>4. DOMAIN g2h \ Events(g2h) = Marked(g2h, Replies)
    BY <2>1, Zenon DEF Events, Marked, Replies
  <2>5. EventsOwed + Cardinality(Events(g2h)) = Owed
    BY <2>0, EventSets, Zenon DEF EventsOwed, Owed
  <2>6. PICK a : a = Cardinality(Marked(h2g, ReqMsgs))
    BY Zenon
  <2>7. PICK b : b = Cardinality(guc \cap ReqMsgs)
    BY Zenon
  <2>8. PICK c : c = Cardinality(Marked(g2h, Replies))
    BY Zenon
  <2>9. PICK w : w = Unit(found # Nobody)
    BY Zenon
  <2>10. PICK h : h = Cardinality(Holding)
    BY Zenon
  <2>11. PICK l : l = Cardinality(Flights)
    BY Zenon
  <2>12. a \in Nat /\ b \in Nat /\ c \in Nat /\ h \in Nat
    BY <2>0, <2>6, <2>7, <2>8, <2>10, MarkedFinite, PartFinite, FS_CardinalityType, ZenonT(60)
  <2>13. w \in Nat
    BY <2>9, SMTT(40) DEF Unit
  <2>14. l <= h /\ l \in Nat
    <3>1. Flights \in SUBSET Holding
      BY Zenon DEF Flights, Holding, InFlight
    <3>2. IsFiniteSet(Flights) /\ l <= h
      BY <2>0, <2>10, <2>11, <3>1, FS_Subset, ZenonT(60)
    <3> QED BY <2>11, <3>2, FS_CardinalityType, Zenon
  <2>15. a + b + c + w <= l
    BY <2>0, <2>6, <2>7, <2>8, <2>9, <2>11, ZenonT(60) DEF UnderWay
  <2>16. a + c + b \in Nat /\ a + c + b <= h
    BY <2>12, <2>13, <2>14, <2>15, SMTT(40)
  <2>17. PICK o : o = EventLen * Owed
    BY Zenon
  <2>18. g2h_space + MaxLen * h + o = G2HSpace
    <3>1. ntoggles < 2
      OBVIOUS
    <3> QED BY <2>0, <2>10, <2>17, <3>1, ZenonT(60) DEF AccountInv, Owed
  <2>19. o \in Nat
    <3>1. PICK x : x = Cardinality(Marked(h2g, FastMsgs))
      BY Zenon
    <3>2. PICK y : y = Cardinality(guc \cap FastMsgs)
      BY Zenon
    <3>3. PICK z : z = Cardinality(Marked(g2h, EventAnswers))
      BY Zenon
    <3>4. x \in Nat /\ y \in Nat /\ z \in Nat
      BY <2>0, <3>1, <3>2, <3>3, MarkedFinite, PartFinite, ZenonT(60)
    <3>5. Owed = x + y + z
      BY <3>1, <3>2, <3>3, ZenonT(60) DEF Owed
    <3>6. Owed \in Nat
      BY <3>4, <3>5, SMTT(40)
    <3> QED BY <2>17, <3>6, LengthsAssumption, TimesMore, SMTT(40)
  <2>20. PICK p : p = MaxLen * (a + c + b)
    BY Zenon
  <2>21. PICK q : q = MaxLen * h
    BY Zenon
  <2>22. p <= q /\ p \in Nat /\ q \in Nat
    BY <2>12, <2>16, <2>20, <2>21, LengthsAssumption, TimesMonotone, SMTT(40)
  <2>23. p + o <= G2HSpace
    BY <2>0, <2>18, <2>19, <2>21, <2>22, SMTT(40)
  <2> QED BY <2>2, <2>3, <2>4, <2>5, <2>6, <2>7, <2>8, <2>17, <2>20, <2>23,
             ZenonT(60) DEF ReserveKept
<1> QED BY <1>1, <1>2, <1>3, CalmIInvInvariant, PTL DEF SendSpec
=============================================================================
