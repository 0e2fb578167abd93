----------------------------- MODULE IovProofs -----------------------------
(***************************************************************************)
(* Proofs about the SR-IOV code: the state machine of a VF (IovState), the *)
(* relay (IovRelay) and the bringup of a VF over it (IovBoot).             *)
(*                                                                         *)
(* IovState, for any number of gts, VFs and user threads: the PF and the   *)
(* GuC of a gt go through an FLR in step, and the only notification of an  *)
(* FLR that is dropped is one that comes during the FINISH of the FLR      *)
(* before.  The end of an FLR is a token: the GuC makes it with its        *)
(* FLR_DONE, which the handler turns into FLR_DONE_RECEIVED, the worker    *)
(* into NEEDS_FLR_FINISH and then into its FINISH.  TokenOK says that      *)
(* there is one at most, and only while the GuC waits for the FINISH; it   *)
(* survives failed commands.  PhaseOK ties the bits to the GuC's state as  *)
(* long as no command has failed.                                          *)
(*                                                                         *)
(* IovRelay and IovBoot, for any calls, nodes, fence range and peers: the  *)
(* relay implements RelayCall, no reply is ever written to a call that has *)
(* returned, and a request is served once; and a VF that has come up over  *)
(* this relay has the register table of its PF.  The turn of a call is     *)
(* with the caller while it may still send its request, with the request   *)
(* on a link, or with the "retry" that makes the caller send again; any    *)
(* other answer ends it.  OnceInv says that there is never more than one   *)
(* turn and none once the call was served; together with IInv it is        *)
(* inductive.                                                              *)
(***************************************************************************)
EXTENDS IovState, IovBoot, TLAPS

-----------------------------------------------------------------------------
(* The state machine of a VF.                                              *)


\* The places of the FLR_DONE of VF v among the events of gt g.
DoneAt(g, v) ==
    {i \in 1..Len(events[g]) : events[g][i] = [ev |-> "FLR_DONE", vf |-> v]}

CallsFor(g, v, cmd) == call[g].cmd = cmd /\ call[g].vf = v

InFlr(g, v) == guc[g][v] \in {"flr", "done"}

\* The worker of a gt sends its own gt FLR commands, the threads send others.
CallInv ==
    /\ \A g \in Gts : \/ call[g] = NoCall
                      \/ /\ call[g].gt = g /\ call[g].cmd \in {"START", "FINISH"}
                         /\ call[g].res # "none"
    /\ \A t \in Threads : call[t].cmd \in {"PAUSE", "RESUME", "STOP", "none"}

\* The end of the FLR of v waits in one place.
TokenOK(g, v) ==
    /\ \A i, j \in DoneAt(g, v) : i = j
    /\ DoneAt(g, v) # {} => ~Has(g, v, "FLR_DONE_RECEIVED")
    /\ DoneAt(g, v) # {} \/ Has(g, v, "FLR_DONE_RECEIVED")
          => guc[g][v] = "done" /\ ~Has(g, v, "NEEDS_FLR_FINISH")
    /\ DoneAt(g, v) # {} \/ Has(g, v, "FLR_DONE_RECEIVED") \/ Has(g, v, "NEEDS_FLR_FINISH")
          => guc[g][v] = "done" /\ ~CallsFor(g, v, "FINISH")
    /\ CallsFor(g, v, "FINISH") => IF call[g].res = "ok" THEN ~InFlr(g, v)
                                                      ELSE guc[g][v] = "done"
    /\ CallsFor(g, v, "START") /\ call[g].res = "ok" => InFlr(g, v)
    /\ Has(g, v, "FLR_IN_PROGRESS")
          => StartToCome(g, v) \/ CallsFor(g, v, "FINISH") \/ InFlr(g, v)

\* As long as no command failed, an FLR is in progress from the notification to
\* the answer of the FINISH, and its START comes before the GuC's part of it.
PhaseOK(g, v) ==
    /\ \/ Has(g, v, "NEEDS_FLR_START") \/ InFlr(g, v)
       \/ CallsFor(g, v, "START") \/ CallsFor(g, v, "FINISH")
       => Has(g, v, "FLR_IN_PROGRESS")
    /\ Has(g, v, "NEEDS_FLR_START")
          => ~InFlr(g, v) /\ ~CallsFor(g, v, "START") /\ ~CallsFor(g, v, "FINISH")
    /\ CallsFor(g, v, "START") /\ call[g].res # "ok" => ~InFlr(g, v)

FlrOK(g, v) == TokenOK(g, v) /\ (Has(g, v, "FLR_FAILED") \/ PhaseOK(g, v))

FlrInv == \A g \in Gts : g \in wiped \/ \A v \in VfIds : FlrOK(g, v)

StateIInv == StateTypeOK /\ CallInv /\ FlrInv
-----------------------------------------------------------------------------
(* Types.                                                                  *)

WorkerStates == [queued : BOOLEAN, more : BOOLEAN, vf : 0..NVF]
CmdCalls == [cmd : Commands \cup {"none"}, gt : Gts, vf : VfIds,
             res : {"none", "sent", "ok", "busy", "error"}]
Places == [op : {"none", "pause", "resume", "stop", "suspend", "restore"},
           pc : {"idle", "sync", "check", "set", "call", "wait", "asleep"},
           gt : Gts, vf : VfIds]
Notices == [ev : Events, vf : VfIds]

\* The gts and the threads are different callers.
LEMMA Apart ==
    /\ Gts \cap Threads = {} /\ Gts \subseteq Callers /\ Threads \subseteq Callers
    /\ Root \in Gts /\ Pm \in Threads /\ Hosts \subseteq Threads
    /\ 1 \in VfIds /\ Guests \subseteq VfIds
<1> USE StateAssumption
<1>1. \A g \in Gts : g < NGT
  BY DEF Gts
<1>2. \A t \in Threads : t >= NGT
  BY DEF Threads, Hosts, Pm
<1>3. Root \in Gts /\ 1 \in VfIds /\ Guests \subseteq VfIds
  BY DEF Root, Gts, VfIds
<1>4. Gts \subseteq Int /\ Threads \subseteq Int
  BY DEF Gts, Threads, Hosts, Pm
<1>5. Gts \cap Threads = {}
  BY <1>1, <1>2, <1>4
<1> QED
  BY <1>3, <1>5, Zenon DEF Callers, Threads

\* The idle records have their types.
LEMMA Idles == NoCall \in CmdCalls /\ Idle \in Places
BY Apart, Zenon DEF NoCall, Idle, CmdCalls, Places

\* The sets of bits that are set and cleared in an FLR.
LEMMA BitSets ==
    /\ {} \in SUBSET Bits /\ {"FLR_IN_PROGRESS"} \in SUBSET Bits
    /\ {"NEEDS_FLR_START"} \in SUBSET Bits /\ {"FLR_DONE_RECEIVED"} \in SUBSET Bits
    /\ {"NEEDS_FLR_FINISH"} \in SUBSET Bits /\ {"PAUSE_IN_PROGRESS"} \in SUBSET Bits
    /\ {"FLR_FAILED"} \in SUBSET Bits
BY Zenon DEF Bits

\* What setting and clearing bits of one VF on one gt does to them,
LEMMA PutBits ==
    ASSUME bits \in [Gts -> [VfIds -> SUBSET Bits]], NEW g \in Gts, NEW v \in VfIds,
           NEW add \in SUBSET Bits, NEW del, Put(g, v, add, del)
    PROVE  /\ bits' \in [Gts -> [VfIds -> SUBSET Bits]]
           /\ \A b : b \in bits'[g][v] <=> (b \in bits[g][v] /\ b \notin del) \/ b \in add
<1> DEFINE new == [bits[g] EXCEPT ![v] = (bits[g][v] \ del) \cup add]
<1>1. bits' = [bits EXCEPT ![g] = new]
  BY Zenon DEF Put
<1>2. bits[g] \in [VfIds -> SUBSET Bits] /\ bits[g][v] \subseteq Bits
  BY Zenon
<1>3. new \in [VfIds -> SUBSET Bits] /\ new[v] = (bits[g][v] \ del) \cup add
  BY <1>2, Zenon
<1> HIDE DEF new
<1> QED
  BY <1>1, <1>3, Zenon

\* and to all others.
LEMMA PutElsewhere ==
    ASSUME bits \in [Gts -> [VfIds -> SUBSET Bits]], NEW g \in Gts, NEW v \in VfIds,
           NEW add, NEW del, Put(g, v, add, del)
    PROVE  \A h \in Gts, w \in VfIds : h # g \/ w # v => bits'[h][w] = bits[h][w]
<1> DEFINE new == [bits[g] EXCEPT ![v] = (bits[g][v] \ del) \cup add]
<1>1. bits' = [bits EXCEPT ![g] = new]
  BY Zenon DEF Put
<1>2. \A w \in VfIds : w # v => new[w] = bits[g][w]
  BY Zenon
<1> HIDE DEF new
<1> QED
  BY <1>1, <1>2, Zenon

\* What starting the FLRs of the VFs V does.
LEMMA StartBits ==
    ASSUME bits \in [Gts -> [VfIds -> SUBSET Bits]], worker \in [Gts -> WorkerStates],
           NEW V \in SUBSET VfIds, InitVfFlr(V)
    PROVE  /\ bits' \in [Gts -> [VfIds -> SUBSET Bits]]
           /\ worker' \in [Gts -> WorkerStates]
           /\ \A g \in Gts, v \in VfIds :
                bits'[g][v] = IF v \in V /\ NoFlr(g, v)
                              THEN bits[g][v] \cup {"FLR_IN_PROGRESS", "NEEDS_FLR_START"}
                              ELSE bits[g][v]
<1> DEFINE New(g, v) == IF v \in V /\ NoFlr(g, v)
                        THEN bits[g][v] \cup {"FLR_IN_PROGRESS", "NEEDS_FLR_START"}
                        ELSE bits[g][v]
<1>1. \A g \in Gts, v \in VfIds : New(g, v) \in SUBSET Bits
  <2>1. {"FLR_IN_PROGRESS", "NEEDS_FLR_START"} \subseteq Bits
    BY Zenon DEF Bits
  <2> QED
    BY <2>1, Zenon
<1>2. bits' = [g \in Gts |-> [v \in VfIds |-> New(g, v)]]
  BY Zenon DEF InitVfFlr
<1> HIDE DEF New
<1>3. /\ bits' \in [Gts -> [VfIds -> SUBSET Bits]]
      /\ \A g \in Gts, v \in VfIds : bits'[g][v] = New(g, v)
  BY <1>1, <1>2, Zenon
<1>4. worker' \in [Gts -> WorkerStates]
  <2>1. worker' = [g \in Gts |->
                    [worker[g] EXCEPT !.queued = @ \/ \E v \in V : NoFlr(g, v)]]
    BY Zenon DEF InitVfFlr
  <2> QED
    BY <2>1, Zenon DEF WorkerStates
<1> QED
  BY <1>3, <1>4, Zenon DEF New

\* The worker's turn to the next VF keeps its type.
LEMMA ProcessedType ==
    ASSUME worker \in [Gts -> WorkerStates], NEW g \in Gts, NEW m \in BOOLEAN,
           Processed(g, m)
    PROVE  worker' \in [Gts -> WorkerStates]
<1> DEFINE w == worker[g]
           new == IF w.vf < NVF
                  THEN [w EXCEPT !.vf = @ + 1, !.more = w.more \/ m]
                  ELSE [w EXCEPT !.vf = 0, !.more = FALSE, !.queued = @ \/ (w.more \/ m)]
<1>1. worker' = [worker EXCEPT ![g] = new]
  BY Zenon DEF Processed
<1>2. new \in WorkerStates
  <2>0. w \in WorkerStates
    BY Zenon
  <2>1. w.vf \in 0..NVF /\ (w.vf < NVF => w.vf + 1 \in 0..NVF) /\ 0 \in 0..NVF
    BY <2>0, StateAssumption DEF WorkerStates
  <2>2. ASSUME NEW n \in 0..NVF, NEW x \in BOOLEAN
        PROVE  [w EXCEPT !.vf = n, !.more = x] \in WorkerStates
    BY <2>0, Zenon DEF WorkerStates
  <2>3. ASSUME NEW n \in 0..NVF, NEW x \in BOOLEAN, NEW y \in BOOLEAN
        PROVE  [w EXCEPT !.vf = n, !.more = x, !.queued = y] \in WorkerStates
    BY <2>0, Zenon DEF WorkerStates
  <2>4. w.more \in BOOLEAN /\ w.queued \in BOOLEAN
    BY <2>0, Zenon DEF WorkerStates
  <2>5. CASE w.vf < NVF
    <3>1. new = [w EXCEPT !.vf = w.vf + 1, !.more = w.more \/ m]
      BY <2>5, Zenon
    <3> QED
      BY <2>1, <2>2, <2>4, <2>5, <3>1, Zenon
  <2>6. CASE ~(w.vf < NVF)
    <3>1. new = [w EXCEPT !.vf = 0, !.more = FALSE, !.queued = w.queued \/ (w.more \/ m)]
      BY <2>6, Zenon
    <3> QED
      BY <2>1, <2>3, <2>4, <2>6, <3>1, Zenon
  <2> QED
    BY <2>5, <2>6, Zenon
<1> HIDE DEF new
<1> QED
  BY <1>1, <1>2, Zenon

\* So does a command sent to a gt.
LEMMA SendType ==
    ASSUME call \in [Callers -> CmdCalls], NEW c \in Callers, NEW cmd \in Commands,
           NEW g \in Gts, NEW v \in VfIds, SendCmd(c, cmd, g, v)
    PROVE  /\ call' \in [Callers -> CmdCalls]
           /\ call'[c].cmd = cmd /\ call'[c].gt = g /\ call'[c].vf = v /\ call'[c].res = "sent"
           /\ \A d \in Callers : d # c => call'[d] = call[d]
<1> DEFINE new == [cmd |-> cmd, gt |-> g, vf |-> v, res |-> "sent"]
<1>1. new \in CmdCalls /\ new.cmd = cmd /\ new.gt = g /\ new.vf = v /\ new.res = "sent"
  BY Zenon DEF CmdCalls
<1>2. call' = [call EXCEPT ![c] = new]
  BY Zenon DEF SendCmd
<1> HIDE DEF new
<1> QED
  BY <1>1, <1>2, Zenon

\* Where a thread goes next is a place of a thread.
LEMMA NextPlace ==
    ASSUME thread \in [Threads -> Places], NEW t \in Threads
    PROVE  NextGt(t) \in Places /\ AfterError(t) \in Places
<1> DEFINE s == thread[t]
           first == [pause |-> "check", resume |-> "set", stop |-> "set",
                     suspend |-> "sync", restore |-> "sync", none |-> "idle"]
<1>0. s \in Places
  BY ZenonT(60)
<1>1. first[s.op] \in {"check", "set", "sync", "idle"}
  BY <1>0 DEF Places
<1>2. [Idle EXCEPT !.op = "suspend", !.pc = "asleep"] \in Places /\ Idle \in Places
  BY Idles, Zenon DEF Places
<1>3. ASSUME s.gt < NGT - 1, NEW x \in {"check", "set", "sync", "idle"}
      PROVE  [s EXCEPT !.gt = @ + 1, !.pc = x] \in Places
  <2>1. s.gt + 1 \in Gts
    BY <1>0, <1>3, StateAssumption DEF Places, Gts
  <2>2. \A y \in Gts : [s EXCEPT !.gt = y, !.pc = x] \in Places
    BY <1>0, Zenon DEF Places
  <2> QED
    BY <2>1, <2>2, Zenon
<1>4. ASSUME s.vf < NVF, NEW x \in {"check", "set", "sync", "idle"}
      PROVE  [s EXCEPT !.vf = @ + 1, !.gt = Root, !.pc = x] \in Places
  <2>1. s.vf + 1 \in VfIds /\ Root \in Gts
    BY <1>0, <1>4, Apart, StateAssumption DEF Places, VfIds
  <2>2. \A y \in VfIds, z \in Gts : [s EXCEPT !.vf = y, !.gt = z, !.pc = x] \in Places
    BY <1>0, Zenon DEF Places
  <2> QED
    BY <2>1, <2>2, Zenon
<1>5. NextGt(t) \in Places
  <2>1. CASE s.gt < NGT - 1
    <3>1. NextGt(t) = [s EXCEPT !.gt = @ + 1, !.pc = first[s.op]]
      BY <1>0, <2>1, StateAssumption DEF NextGt, Places, Gts
    <3> QED
      BY <1>1, <1>3, <2>1, <3>1, Zenon
  <2>2. CASE ~(s.gt < NGT - 1) /\ s.gt = NGT - 1 /\ t = Pm /\ s.vf < NVF
    <3>1. NextGt(t) = [s EXCEPT !.vf = @ + 1, !.gt = Root, !.pc = first[s.op]]
      BY <1>0, <2>2, StateAssumption, Zenon DEF NextGt, Places, Gts
    <3> QED
      BY <1>1, <1>4, <2>2, <3>1, Zenon
  <2>3. CASE ~(s.gt < NGT - 1) /\ ~(s.gt = NGT - 1 /\ t = Pm /\ s.vf < NVF)
    <3>1. NextGt(t) = IF s.op = "suspend"
                      THEN [Idle EXCEPT !.op = "suspend", !.pc = "asleep"] ELSE Idle
      BY <2>3, Zenon DEF NextGt
    <3> QED
      BY <1>2, <3>1, Zenon
  <2> QED
    BY <2>1, <2>2, <2>3, Zenon
<1>6. AfterError(t) \in Places
  <2>1. CASE s.op = "suspend"
    BY <1>2, <2>1, Zenon DEF AfterError
  <2>2. CASE s.op = "restore"
    <3>1. AfterError(t) = IF s.vf < NVF
                          THEN [s EXCEPT !.vf = @ + 1, !.gt = Root, !.pc = "sync"]
                          ELSE Idle
      BY <2>2, Zenon DEF AfterError
    <3> QED
      BY <1>2, <1>4, <3>1, Zenon
  <2>3. CASE s.op # "suspend" /\ s.op # "restore"
    BY <1>5, <2>3, Zenon DEF AfterError
  <2> QED
    BY <2>1, <2>2, <2>3, Zenon
<1> QED
  BY <1>5, <1>6, Zenon

\* StateTypeOK in terms of the sets above.
LEMMA Types ==
    StateTypeOK <=> /\ bits \in [Gts -> [VfIds -> SUBSET Bits]]
                    /\ paused \in [Gts -> [VfIds -> BOOLEAN]]
                    /\ worker \in [Gts -> WorkerStates]
                    /\ call \in [Callers -> CmdCalls]
                    /\ thread \in [Threads -> Places]
                    /\ guc \in [Gts -> [VfIds -> GucStates]]
                    /\ events \in [Gts -> Seq(Notices)]
                    /\ left \in [flr : 0..MaxFlr, acts : 0..MaxActs]
                    /\ wiped \subseteq Gts
                    /\ inferred \subseteq Gts \X VfIds
BY Zenon DEF StateTypeOK, WorkerStates, CmdCalls, Places, Notices

\* The same of the next state.
LEMMA TypesNext ==
    StateTypeOK' <=> /\ bits' \in [Gts -> [VfIds -> SUBSET Bits]]
                     /\ paused' \in [Gts -> [VfIds -> BOOLEAN]]
                     /\ worker' \in [Gts -> WorkerStates]
                     /\ call' \in [Callers -> CmdCalls]
                     /\ thread' \in [Threads -> Places]
                     /\ guc' \in [Gts -> [VfIds -> GucStates]]
                     /\ events' \in [Gts -> Seq(Notices)]
                     /\ left' \in [flr : 0..MaxFlr, acts : 0..MaxActs]
                     /\ wiped' \subseteq Gts
                     /\ inferred' \subseteq Gts \X VfIds
BY Zenon DEF StateTypeOK, WorkerStates, CmdCalls, Places, Notices

\* An operation uses up one of the bound.
LEMMA ActUsed ==
    ASSUME StateTypeOK, left.acts > 0, left' = [left EXCEPT !.acts = @ - 1]
    PROVE  left' \in [flr : 0..MaxFlr, acts : 0..MaxActs]
<1>1. left \in [flr : 0..MaxFlr, acts : 0..MaxActs]
  BY Types, Zenon
<1>2. left.acts - 1 \in 0..MaxActs
  BY <1>1, StateAssumption
<1>3. \A n \in 0..MaxActs : [left EXCEPT !.acts = n] \in [flr : 0..MaxFlr, acts : 0..MaxActs]
  BY <1>1, Zenon
<1> QED
  BY <1>2, <1>3, Zenon

\* Setting `paused' of one VF on one gt keeps its type.
LEMMA PauseType ==
    ASSUME paused \in [Gts -> [VfIds -> BOOLEAN]], NEW g \in Gts, NEW v \in VfIds,
           \E b \in BOOLEAN : paused' = [paused EXCEPT ![g][v] = b]
    PROVE  paused' \in [Gts -> [VfIds -> BOOLEAN]]
<1>1. PICK b \in BOOLEAN : paused' = [paused EXCEPT ![g] = [paused[g] EXCEPT ![v] = b]]
  BY Zenon
<1>2. [paused[g] EXCEPT ![v] = b] \in [VfIds -> BOOLEAN]
  BY Zenon
<1> QED
  BY <1>1, <1>2, Zenon

\* Every step of the worker and of the event handler keeps the types,
LEMMA WorkerTypes ==
    ASSUME StateTypeOK, CallInv, NEW g \in Gts,
           WorkerStart(g) \/ ProcessVf(g) \/ WorkerAnswered(g) \/ HandleEvent(g)
    PROVE  StateTypeOK'
<1>0. /\ bits \in [Gts -> [VfIds -> SUBSET Bits]] /\ paused \in [Gts -> [VfIds -> BOOLEAN]]
      /\ worker \in [Gts -> WorkerStates] /\ call \in [Callers -> CmdCalls]
      /\ events \in [Gts -> Seq(Notices)] /\ g \in Callers
  BY Types, Apart, Zenon
<1>1. CASE WorkerStart(g)
  <2>1. worker' \in [Gts -> WorkerStates]
    <3>1. [queued |-> FALSE, more |-> FALSE, vf |-> 1] \in WorkerStates
      BY StateAssumption DEF WorkerStates
    <3> QED
      BY <1>0, <1>1, <3>1, ZenonT(60) DEF WorkerStart
  <2> QED
    BY <1>1, <2>1, Types, TypesNext, Zenon DEF WorkerStart
<1>2. CASE ProcessVf(g)
  <2> DEFINE v == worker[g].vf
  <2>1. v \in VfIds
    BY <1>0, <1>2, StateAssumption DEF ProcessVf, WorkerStates, VfIds
  <2>2. UNCHANGED <<paused, thread, guc, events, left, wiped, inferred>>
    BY <1>2, Zenon DEF ProcessVf
  <2>3. \/ \E add \in SUBSET Bits, del \in SUBSET Bits, cmd \in Commands :
              Put(g, v, add, del) /\ SendCmd(g, cmd, g, v) /\ UNCHANGED worker
        \/ \E add \in SUBSET Bits, del \in SUBSET Bits :
              Put(g, v, add, del) /\ Processed(g, TRUE) /\ UNCHANGED call
        \/ Processed(g, FALSE) /\ UNCHANGED <<bits, call>>
    <3>1. /\ {} \in SUBSET Bits /\ {"NEEDS_FLR_START"} \in SUBSET Bits
          /\ {"NEEDS_FLR_FINISH"} \in SUBSET Bits /\ {"FLR_DONE_RECEIVED"} \in SUBSET Bits
          /\ "START" \in Commands /\ "FINISH" \in Commands
      BY Zenon DEF Bits, Commands
    <3>2. \/ Put(g, v, {}, {"NEEDS_FLR_START"}) /\ SendCmd(g, "START", g, v) /\ UNCHANGED worker
          \/ /\ Put(g, v, {"NEEDS_FLR_FINISH"}, {"FLR_DONE_RECEIVED"})
             /\ Processed(g, TRUE) /\ UNCHANGED call
          \/ Put(g, v, {}, {"NEEDS_FLR_FINISH"}) /\ SendCmd(g, "FINISH", g, v) /\ UNCHANGED worker
          \/ Processed(g, FALSE) /\ UNCHANGED <<bits, call>>
      BY <1>2, Zenon DEF ProcessVf
    <3> QED
      BY <3>1, <3>2, Zenon
  <2> HIDE DEF v
  <2>4. bits' \in [Gts -> [VfIds -> SUBSET Bits]]
    BY <1>0, <2>1, <2>3, PutBits, Zenon
  <2>5. worker' \in [Gts -> WorkerStates] /\ call' \in [Callers -> CmdCalls]
    <3>1. TRUE \in BOOLEAN /\ FALSE \in BOOLEAN
      BY Zenon
    <3> QED
      BY <1>0, <2>1, <2>3, <3>1, ProcessedType, SendType, Zenon
  <2> QED
    BY <2>2, <2>4, <2>5, Types, TypesNext, ZenonT(60)
<1>3. CASE WorkerAnswered(g)
  <2>1. call[g].vf \in VfIds
    BY <1>0, Zenon DEF CmdCalls
  <2>2. \E add \in SUBSET Bits, del \in SUBSET Bits : Put(g, call[g].vf, add, del)
    <3>1. /\ {"NEEDS_FLR_START"} \in SUBSET Bits /\ {"NEEDS_FLR_FINISH"} \in SUBSET Bits
          /\ {} \in SUBSET Bits /\ {"FLR_FAILED"} \in SUBSET Bits
          /\ {"FLR_IN_PROGRESS"} \in SUBSET Bits /\ {"PAUSE_IN_PROGRESS"} \in SUBSET Bits
      BY Zenon DEF Bits
    <3>2. call[g].res \in {"ok", "busy", "error"}
      <4>1. call[g].cmd \in {"START", "FINISH"} /\ call[g].res # "sent"
        BY <1>3, ZenonT(60) DEF WorkerAnswered, Answered
      <4>2. call[g].res # "none"
        BY <4>1 DEF CallInv, NoCall
      <4> QED
        BY <1>0, <4>1, <4>2, Zenon DEF CmdCalls
    <3> QED
      BY <1>3, <3>1, <3>2, Zenon DEF WorkerAnswered
  <2>3. bits' \in [Gts -> [VfIds -> SUBSET Bits]]
    BY <1>0, <2>1, <2>2, PutBits, Zenon
  <2>4. worker' \in [Gts -> WorkerStates]
    BY <1>0, <1>3, ProcessedType, Zenon DEF WorkerAnswered
  <2>5. call' \in [Callers -> CmdCalls]
    BY <1>0, <1>3, Idles, Zenon DEF WorkerAnswered
  <2> QED
    BY <1>3, <2>3, <2>4, <2>5, Types, TypesNext, Zenon DEF WorkerAnswered
<1>4. CASE HandleEvent(g)
  <2> DEFINE e == Head(events[g])
  <2>1. e \in Notices /\ e.vf \in VfIds
    <3>1. events[g] \in Seq(Notices) /\ events[g] # <<>>
      BY <1>0, <1>4, ZenonT(60) DEF HandleEvent
    <3>2. e \in Notices
      BY <3>1, SMTT(40)
    <3> QED
      BY <3>2, Zenon DEF Notices
  <2>2. events' \in [Gts -> Seq(Notices)]
    BY <1>0, <1>4 DEF HandleEvent
  <2>3. \/ paused' = [paused EXCEPT ![g][e.vf] = FALSE] /\ InitVfFlr({e.vf})
        \/ /\ Put(g, e.vf, {"FLR_DONE_RECEIVED"}, {})
           /\ worker' = [worker EXCEPT ![g].queued = TRUE] /\ UNCHANGED paused
        \/ /\ paused' = [paused EXCEPT ![g][e.vf] = TRUE]
           /\ Put(g, e.vf, {}, {"PAUSE_IN_PROGRESS"}) /\ UNCHANGED worker
    <3>1. e.ev = "FLR" \/ e.ev = "FLR_DONE" \/ e.ev = "PAUSE_DONE"
      BY <2>1, Zenon DEF Notices, Events
    <3> QED
      BY <1>4, <3>1, Zenon DEF HandleEvent
  <2> HIDE DEF e
  <2>4. bits' \in [Gts -> [VfIds -> SUBSET Bits]] /\ worker' \in [Gts -> WorkerStates]
    <3>1. {"FLR_DONE_RECEIVED"} \in SUBSET Bits /\ {} \in SUBSET Bits /\ {e.vf} \in SUBSET VfIds
      BY <2>1, Zenon DEF Bits
    <3>2. [worker EXCEPT ![g].queued = TRUE] \in [Gts -> WorkerStates]
      BY <1>0, Zenon DEF WorkerStates
    <3> QED
      BY <1>0, <2>1, <2>3, <3>1, <3>2, PutBits, StartBits, Zenon
  <2>5. paused' \in [Gts -> [VfIds -> BOOLEAN]]
    BY <1>0, <2>1, <2>3, PauseType, Zenon
  <2> QED
    BY <1>4, <2>2, <2>4, <2>5, Types, TypesNext, Zenon DEF HandleEvent
<1> QED
  BY <1>1, <1>2, <1>3, <1>4, Zenon

\* ... every step of a thread that pauses, resumes, stops or suspends,
LEMMA ThreadTypes ==
    ASSUME StateTypeOK, NEW t \in Threads, PauseCheck(t) \/ Command(t) \/ ThreadAnswered(t)
    PROVE  StateTypeOK'
<1> DEFINE s == thread[t]
<1>0. /\ bits \in [Gts -> [VfIds -> SUBSET Bits]] /\ paused \in [Gts -> [VfIds -> BOOLEAN]]
      /\ call \in [Callers -> CmdCalls] /\ thread \in [Threads -> Places] /\ t \in Callers
      /\ NextGt(t) \in Places /\ AfterError(t) \in Places
  BY Types, Apart, NextPlace, Zenon
<1>1. s \in Places /\ s.gt \in Gts /\ s.vf \in VfIds
  BY <1>0, Zenon DEF Places
<1>2. \A x \in {"set", "call", "wait", "check"} : [s EXCEPT !.pc = x] \in Places
  BY <1>1, Zenon DEF Places
<1>3. CASE PauseCheck(t)
  <2>1. thread' \in [Threads -> Places]
    <3>1. thread' = [thread EXCEPT ![t] = [s EXCEPT !.pc = "set"]]
            \/ thread' = [thread EXCEPT ![t] = AfterError(t)]
      BY <1>3, Zenon DEF PauseCheck
    <3> QED
      BY <1>0, <1>2, <3>1, Zenon
  <2> QED
    BY <1>3, <2>1, Types, TypesNext, Zenon DEF PauseCheck
<1>4. CASE Command(t)
  <2>1. \/ thread' = [thread EXCEPT ![t] = AfterError(t)] /\ UNCHANGED <<bits, call>>
        \/ /\ thread' = [thread EXCEPT ![t].pc = "call"]
           /\ \E add \in {{"PAUSE_IN_PROGRESS"}, {}} : Put(s.gt, s.vf, add, {})
           /\ \E cmd \in {"PAUSE", "STOP", "RESUME"} : SendCmd(t, cmd, s.gt, s.vf)
    BY <1>4, Zenon DEF Command
  <2>2. (\A x \in {{"PAUSE_IN_PROGRESS"}, {}} : x \in SUBSET Bits)
        /\ (\A x \in {"PAUSE", "STOP", "RESUME"} : x \in Commands)
    BY Zenon DEF Bits, Commands
  <2>3. bits' \in [Gts -> [VfIds -> SUBSET Bits]]
    BY <1>0, <1>1, <2>1, <2>2, PutBits, Zenon
  <2>4. call' \in [Callers -> CmdCalls]
    BY <1>0, <1>1, <2>1, <2>2, SendType, Zenon
  <2>5. thread' \in [Threads -> Places]
    BY <1>0, <1>2, <2>1, Zenon
  <2> QED
    BY <1>4, <2>3, <2>4, <2>5, Types, TypesNext, Zenon DEF Command
<1>5. CASE ThreadAnswered(t)
  <2>1. \/ Put(s.gt, s.vf, {}, {"PAUSE_IN_PROGRESS"})
        \/ Put(s.gt, s.vf, {"PAUSE_BY_SUSPEND"}, {})
        \/ UNCHANGED bits
    BY <1>5, Zenon DEF ThreadAnswered
  <2>2. {} \in SUBSET Bits /\ {"PAUSE_BY_SUSPEND"} \in SUBSET Bits
    BY Zenon DEF Bits
  <2>3. bits' \in [Gts -> [VfIds -> SUBSET Bits]]
    BY <1>0, <1>1, <2>1, <2>2, PutBits, Zenon
  <2>4. \E x \in Places : thread' = [thread EXCEPT ![t] = x]
    <3>1. \/ thread' = [thread EXCEPT ![t] = AfterError(t)]
          \/ thread' = [thread EXCEPT ![t] = [s EXCEPT !.pc = "wait"]]
          \/ thread' = [thread EXCEPT ![t] = NextGt(t)]
      BY <1>5, Zenon DEF ThreadAnswered
    <3> QED
      BY <1>0, <1>2, <3>1, Zenon
  <2>5. thread' \in [Threads -> Places]
    BY <1>0, <2>4, Zenon
  <2>6. paused' \in [Gts -> [VfIds -> BOOLEAN]]
    <3>1. paused' = [paused EXCEPT ![s.gt][s.vf] = FALSE] \/ paused' = paused
      BY <1>5, Zenon DEF ThreadAnswered
    <3> QED
      BY <1>0, <1>1, <3>1, PauseType, Zenon
  <2>7. call' \in [Callers -> CmdCalls]
    BY <1>0, <1>5, Idles, Zenon DEF ThreadAnswered
  <2> QED
    BY <1>5, <2>3, <2>5, <2>6, <2>7, Types, TypesNext, Zenon DEF ThreadAnswered
<1> QED
  BY <1>3, <1>4, <1>5, Zenon

\* ... every step of the power management thread,
LEMMA SuspendTypes ==
    ASSUME StateTypeOK,
           SuspendPrepare \/ PauseSync \/ PauseWaited \/ SystemResume \/ RestoreRunning
    PROVE  StateTypeOK'
<1> DEFINE s == thread[Pm]
<1>0. /\ bits \in [Gts -> [VfIds -> SUBSET Bits]] /\ paused \in [Gts -> [VfIds -> BOOLEAN]]
      /\ call \in [Callers -> CmdCalls] /\ thread \in [Threads -> Places]
      /\ guc \in [Gts -> [VfIds -> GucStates]] /\ events \in [Gts -> Seq(Notices)]
      /\ Pm \in Threads /\ NextGt(Pm) \in Places /\ AfterError(Pm) \in Places
  BY Types, Apart, NextPlace, Zenon
<1>1. s \in Places /\ s.gt \in Gts /\ s.vf \in VfIds
  BY <1>0, Zenon DEF Places
<1>2. \A x \in {"set", "wait", "check"} : [s EXCEPT !.pc = x] \in Places
  BY <1>1, Zenon DEF Places
<1>3. \A x \in {"suspend", "restore"} :
        [op |-> x, pc |-> "sync", gt |-> Root, vf |-> 1] \in Places
  BY Apart, Zenon DEF Places
<1>4. ASSUME \E x \in Places : thread' = [thread EXCEPT ![Pm] = x]
      PROVE  thread' \in [Threads -> Places]
  BY <1>0, <1>4, Zenon
<1>5. CASE SuspendPrepare
  <2>1. thread' \in [Threads -> Places]
    BY <1>3, <1>4, <1>5, Zenon DEF SuspendPrepare
  <2>2. left' \in [flr : 0..MaxFlr, acts : 0..MaxActs]
    BY <1>5, ActUsed, Zenon DEF SuspendPrepare
  <2>3. inferred' \subseteq Gts \X VfIds
    BY <1>5, Zenon DEF SuspendPrepare
  <2> QED
    BY <1>5, <2>1, <2>2, <2>3, Types, TypesNext, Zenon DEF SuspendPrepare
<1>6. CASE PauseSync
  <2>1. \E x \in Places : thread' = [thread EXCEPT ![Pm] = x]
    BY <1>0, <1>2, <1>6, Zenon DEF PauseSync
  <2>2. thread' \in [Threads -> Places]
    BY <1>4, <2>1, Zenon
  <2> QED
    BY <1>6, <2>2, Types, TypesNext, Zenon DEF PauseSync
<1>7. CASE PauseWaited
  <2>1. \E x \in Places : thread' = [thread EXCEPT ![Pm] = x]
    BY <1>0, <1>7, Zenon DEF PauseWaited
  <2>2. thread' \in [Threads -> Places]
    BY <1>4, <2>1, Zenon
  <2>3. inferred' \subseteq Gts \X VfIds
    <3>1. inferred' = inferred \/ inferred' = inferred \cup {<<s.gt, s.vf>>}
      BY <1>7, Zenon DEF PauseWaited
    <3>2. inferred \subseteq Gts \X VfIds
      BY Types, Zenon
    <3> QED
      BY <1>1, <3>1, <3>2
  <2> QED
    BY <1>7, <2>2, <2>3, Types, TypesNext, Zenon DEF PauseWaited
<1>8. CASE SystemResume
  <2>1. thread' \in [Threads -> Places]
    BY <1>3, <1>4, <1>8, Zenon DEF SystemResume
  <2>2. bits' \in [Gts -> [VfIds -> SUBSET Bits]] /\ paused' \in [Gts -> [VfIds -> BOOLEAN]]
    BY <1>8, Zenon DEF SystemResume, StateReset
  <2>3. guc' \in [Gts -> [VfIds -> GucStates]]
    <3>1. guc' = [g \in Gts |-> [v \in VfIds |-> IF Kept(g, v) THEN "paused" ELSE "run"]]
      BY <1>8, Zenon DEF SystemResume
    <3>2. "paused" \in GucStates /\ "run" \in GucStates
      BY Zenon DEF GucStates
    <3> QED
      BY <3>1, <3>2, Zenon
  <2>4. events' \in [Gts -> Seq(Notices)]
    <3>1. PICK n \in [Gts -> 0..3] :
            /\ \A g \in Gts : n[g] <= Len(events[g])
            /\ events' = [g \in Gts |-> SubSeq(events[g], 1, n[g])]
      BY <1>8, Zenon DEF SystemResume
    <3>2. ASSUME NEW g \in Gts
          PROVE  SubSeq(events[g], 1, n[g]) \in Seq(Notices)
      <4>1. events[g] \in Seq(Notices) /\ n[g] <= Len(events[g])
        BY <1>0, <3>1, Zenon
      <4>2. n[g] \in Nat
        BY <3>1
      <4> QED
        BY <4>1, <4>2
    <3> QED
      BY <3>1, <3>2, Zenon
  <2>5. call' \in [Callers -> CmdCalls]
    <3>1. call' = [c \in Callers |-> IF call[c].res = "sent"
                                     THEN [call[c] EXCEPT !.res = "error"] ELSE call[c]]
      BY <1>8, Zenon DEF SystemResume
    <3>2. \A r \in CmdCalls : [r EXCEPT !.res = "error"] \in CmdCalls
      BY Zenon DEF CmdCalls
    <3> QED
      BY <1>0, <3>1, <3>2, Zenon
  <2>6. wiped' \subseteq Gts
    BY <1>8, Types, Zenon DEF SystemResume
  <2> QED
    BY <1>8, <2>1, <2>2, <2>3, <2>4, <2>5, <2>6, Types, TypesNext, ZenonT(60) DEF SystemResume
<1>9. CASE RestoreRunning
  <2>1. \E x \in Places : thread' = [thread EXCEPT ![Pm] = x]
    BY <1>0, <1>2, <1>9, Zenon DEF RestoreRunning
  <2>2. thread' \in [Threads -> Places]
    BY <1>4, <2>1, Zenon
  <2>3. bits' \in [Gts -> [VfIds -> SUBSET Bits]]
    <3>1. Put(s.gt, s.vf, {}, {"PAUSE_BY_SUSPEND"}) /\ {} \in SUBSET Bits
      BY <1>9, Zenon DEF RestoreRunning
    <3> QED
      BY <1>0, <1>1, <3>1, PutBits, Zenon
  <2> QED
    BY <1>9, <2>2, <2>3, Types, TypesNext, Zenon DEF RestoreRunning
<1> QED
  BY <1>5, <1>6, <1>7, <1>8, <1>9, Zenon

\* Where a command leads is a state of the GuC.
LEMMA EffectType ==
    ASSUME NEW cmd, NEW x, Effect(cmd, x) # "refused"
    PROVE  Effect(cmd, x) \in GucStates
BY Zenon DEF Effect, GucStates

\* ... and every step of users, of the GuC and of the PCI function.
LEMMA OutsideTypes ==
    ASSUME StateTypeOK,
           \/ \E h \in Hosts, v \in VfIds, op \in {"pause", "resume", "stop"} :
                  Control(h, op, v)
           \/ \E h \in Hosts : DisableVfs(h)
           \/ \E c \in Callers : GucRefuses(c) \/ GucExecutes(c)
           \/ \E v \in VfIds : PciFlr(v)
           \/ \E g \in Gts, v \in VfIds : GucDone(g, v)
    PROVE  StateTypeOK'
<1>0. /\ bits \in [Gts -> [VfIds -> SUBSET Bits]] /\ worker \in [Gts -> WorkerStates]
      /\ call \in [Callers -> CmdCalls] /\ thread \in [Threads -> Places]
      /\ guc \in [Gts -> [VfIds -> GucStates]] /\ events \in [Gts -> Seq(Notices)]
  BY Types, Zenon
<1>1. \A c \in Callers : \A x \in {"busy", "error", "ok"} :
         [call EXCEPT ![c].res = x] \in [Callers -> CmdCalls]
  <2>1. \A r \in CmdCalls : \A x \in {"busy", "error", "ok"} : [r EXCEPT !.res = x] \in CmdCalls
    BY Zenon DEF CmdCalls
  <2> QED
    BY <1>0, <2>1, Zenon
<1>2. \A g \in Gts, v \in VfIds : \A x \in GucStates :
         [guc EXCEPT ![g][v] = x] \in [Gts -> [VfIds -> GucStates]]
  BY <1>0, Zenon
<1>3. \A g \in Gts : \A e \in Notices :
         [events EXCEPT ![g] = Append(@, e)] \in [Gts -> Seq(Notices)]
  BY <1>0
<1>4. ASSUME NEW h \in Hosts, NEW v \in VfIds, NEW op \in {"pause", "resume", "stop"},
             Control(h, op, v)
      PROVE  StateTypeOK'
  <2>1. \A x \in {"check", "set"} : [op |-> op, vf |-> v, gt |-> Root, pc |-> x] \in Places
    BY Apart, Zenon DEF Places
  <2>2. \E x \in Places : thread' = [thread EXCEPT ![h] = x]
    BY <1>4, <2>1, Zenon DEF Control
  <2>3. thread' \in [Threads -> Places]
    BY <1>0, <2>2, Apart, Zenon
  <2>4. left' \in [flr : 0..MaxFlr, acts : 0..MaxActs]
    BY <1>4, ActUsed, Zenon DEF Control
  <2> QED
    BY <1>4, <2>3, <2>4, Types, TypesNext, Zenon DEF Control
<1>5. ASSUME NEW h \in Hosts, DisableVfs(h)
      PROVE  StateTypeOK'
  <2>1. left' \in [flr : 0..MaxFlr, acts : 0..MaxActs]
    BY <1>5, ActUsed, Zenon DEF DisableVfs
  <2>2. bits' \in [Gts -> [VfIds -> SUBSET Bits]] /\ worker' \in [Gts -> WorkerStates]
    <3>1. VfIds \in SUBSET VfIds
      BY Zenon
    <3> QED
      BY <1>0, <1>5, <3>1, StartBits, Zenon DEF DisableVfs
  <2> QED
    BY <1>5, <2>1, <2>2, Types, TypesNext, Zenon DEF DisableVfs
<1>6. ASSUME NEW c \in Callers, GucRefuses(c)
      PROVE  StateTypeOK'
  <2>1. left' \in [flr : 0..MaxFlr, acts : 0..MaxActs]
    BY <1>6, ActUsed, Zenon DEF GucRefuses
  <2>2. PICK x \in {"busy", "error"} : call' = [call EXCEPT ![c].res = x]
    BY <1>6, Zenon DEF GucRefuses
  <2>3. x \in {"busy", "error", "ok"}
    BY Zenon
  <2>4. call' \in [Callers -> CmdCalls]
    BY <1>1, <2>2, <2>3, Zenon
  <2> QED
    BY <1>6, <2>1, <2>4, Types, TypesNext, Zenon DEF GucRefuses
<1>7. ASSUME NEW c \in Callers, GucExecutes(c)
      PROVE  StateTypeOK'
  <2>1. call[c].gt \in Gts /\ call[c].vf \in VfIds
    BY <1>0, Zenon DEF CmdCalls
  <2>2. guc' \in [Gts -> [VfIds -> GucStates]]
    BY <1>0, <1>2, <1>7, <2>1, EffectType, ZenonT(60) DEF GucExecutes
  <2>3. call' \in [Callers -> CmdCalls]
    BY <1>1, <1>7, Zenon DEF GucExecutes
  <2> QED
    BY <1>7, <2>2, <2>3, Types, TypesNext, Zenon DEF GucExecutes
<1>8. ASSUME NEW v \in VfIds, PciFlr(v)
      PROVE  StateTypeOK'
  <2>1. left' \in [flr : 0..MaxFlr, acts : 0..MaxActs]
    <3>1. left \in [flr : 0..MaxFlr, acts : 0..MaxActs]
      BY Types, Zenon
    <3>2. left.flr > 0 /\ left' = [left EXCEPT !.flr = left.flr - 1]
      BY <1>8, Zenon DEF PciFlr
    <3>3. left.flr - 1 \in 0..MaxFlr
      BY <3>1, <3>2, StateAssumption
    <3>4. \A n \in 0..MaxFlr :
            [left EXCEPT !.flr = n] \in [flr : 0..MaxFlr, acts : 0..MaxActs]
      BY <3>1, Zenon
    <3> QED
      BY <3>2, <3>3, <3>4, Zenon
  <2>2. [ev |-> "FLR", vf |-> v] \in Notices /\ "notified" \in GucStates
    BY Zenon DEF Notices, Events, GucStates
  <2>3. guc' \in [Gts -> [VfIds -> GucStates]] /\ events' \in [Gts -> Seq(Notices)]
    BY <1>2, <1>3, <1>8, <2>2, Apart, Zenon DEF PciFlr
  <2> QED
    BY <1>8, <2>1, <2>3, Types, TypesNext, Zenon DEF PciFlr
<1>9. ASSUME NEW g \in Gts, NEW v \in VfIds, GucDone(g, v)
      PROVE  StateTypeOK'
  <2>1. /\ "done" \in GucStates /\ "paused" \in GucStates
        /\ [ev |-> "FLR_DONE", vf |-> v] \in Notices
        /\ [ev |-> "PAUSE_DONE", vf |-> v] \in Notices
    BY Zenon DEF Notices, Events, GucStates
  <2>2. \/ guc' = [guc EXCEPT ![g][v] = "done"]
        \/ guc' = [guc EXCEPT ![g][v] = "paused"]
    BY <1>0, <1>9, Zenon DEF GucDone
  <2>3. guc' \in [Gts -> [VfIds -> GucStates]]
    <3>1. /\ [guc EXCEPT ![g][v] = "done"] \in [Gts -> [VfIds -> GucStates]]
          /\ [guc EXCEPT ![g][v] = "paused"] \in [Gts -> [VfIds -> GucStates]]
      BY <1>2, <2>1, Zenon
    <3> QED
      BY <2>2, <3>1, Zenon
  <2>4. events' = [events EXCEPT ![g] = Append(@, [ev |-> "FLR_DONE", vf |-> v])]
          \/ events' = [events EXCEPT ![g] = Append(@, [ev |-> "PAUSE_DONE", vf |-> v])]
    BY <1>9, Zenon DEF GucDone
  <2>5. events' \in [Gts -> Seq(Notices)]
    <3>1. /\ [events EXCEPT ![g] = Append(@, [ev |-> "FLR_DONE", vf |-> v])]
               \in [Gts -> Seq(Notices)]
          /\ [events EXCEPT ![g] = Append(@, [ev |-> "PAUSE_DONE", vf |-> v])]
               \in [Gts -> Seq(Notices)]
      BY <1>3, <2>1, Zenon
    <3> QED
      BY <2>4, <3>1, Zenon
  <2> QED
    BY <1>9, <2>3, <2>5, Types, TypesNext, ZenonT(60) DEF GucDone
<1> QED
  BY <1>4, <1>5, <1>6, <1>7, <1>8, <1>9, Zenon

-----------------------------------------------------------------------------
(* Commands.                                                               *)

\* The answer to a command changes nothing else of it.
LEMMA ResultSet ==
    ASSUME call \in [Callers -> CmdCalls], NEW c \in Callers, NEW x,
           call' = [call EXCEPT ![c].res = x]
    PROVE  /\ call'[c].cmd = call[c].cmd /\ call'[c].gt = call[c].gt
           /\ call'[c].vf = call[c].vf /\ call'[c].res = x
           /\ \A d \in Callers : d # c => call'[d] = call[d]
<1> DEFINE new == [call[c] EXCEPT !.res = x]
<1>1. call[c] \in CmdCalls
  BY Zenon
<1>2. new.cmd = call[c].cmd /\ new.gt = call[c].gt /\ new.vf = call[c].vf /\ new.res = x
  BY <1>1, Zenon DEF CmdCalls
<1>3. call' = [call EXCEPT ![c] = new]
  BY Zenon
<1> HIDE DEF new
<1> QED
  BY <1>2, <1>3, Zenon

\* A command that has been dealt with leaves the others alone.
LEMMA CallDropped ==
    ASSUME call \in [Callers -> CmdCalls], NEW c \in Callers,
           call' = [call EXCEPT ![c] = NoCall]
    PROVE  /\ call'[c] = NoCall /\ call'[c].cmd = "none" /\ call'[c].res = "none"
           /\ \A d \in Callers : d # c => call'[d] = call[d]
<1>1. NoCall.cmd = "none" /\ NoCall.res = "none"
  BY Zenon DEF NoCall
<1> QED
  BY <1>1, Zenon

\* Every step keeps who sends what.
LEMMA CallNext ==
    ASSUME StateTypeOK, CallInv, StateNext
    PROVE  CallInv'
<1>0. call \in [Callers -> CmdCalls] /\ thread \in [Threads -> Places]
      /\ worker \in [Gts -> WorkerStates]
  BY Types, Zenon
<1>1. NoCall.cmd = "none" /\ NoCall.res = "none"
  BY Zenon DEF NoCall
<1>2. ASSUME NEW c \in Callers,
             \A d \in Callers : d # c => call'[d] = call[d],
             c \in Gts => \/ call'[c] = NoCall
                          \/ /\ call'[c].gt = c /\ call'[c].cmd \in {"START", "FINISH"}
                             /\ call'[c].res # "none",
             c \in Threads => call'[c].cmd \in {"PAUSE", "RESUME", "STOP", "none"}
      PROVE  CallInv'
  <2>1. ASSUME NEW g \in Gts
        PROVE  \/ call'[g] = NoCall
               \/ /\ call'[g].gt = g /\ call'[g].cmd \in {"START", "FINISH"}
                  /\ call'[g].res # "none"
    BY <1>2, Apart, ZenonT(60) DEF CallInv
  <2>2. ASSUME NEW t \in Threads
        PROVE  call'[t].cmd \in {"PAUSE", "RESUME", "STOP", "none"}
    BY <1>2, Apart, ZenonT(60) DEF CallInv
  <2> QED
    BY <2>1, <2>2, Zenon DEF CallInv
<1>3. ASSUME call' = call
      PROVE  CallInv'
  BY <1>3, Zenon DEF CallInv
<1>4. ASSUME NEW c \in Callers, call' = [call EXCEPT ![c] = NoCall]
      PROVE  CallInv'
  BY <1>0, <1>1, <1>2, <1>4, CallDropped, Zenon
<1>5. ASSUME NEW c \in Callers, NEW x \in {"busy", "error", "ok"}, call[c].res = "sent",
             call' = [call EXCEPT ![c].res = x]
      PROVE  CallInv'
  <2>1. call[c] # NoCall /\ x # "none"
    BY <1>1, <1>5, Zenon
  <2>2. /\ call'[c].cmd = call[c].cmd /\ call'[c].gt = call[c].gt /\ call'[c].res = x
        /\ \A d \in Callers : d # c => call'[d] = call[d]
    BY <1>0, <1>5, ResultSet, Zenon
  <2>3. c \in Gts => /\ call'[c].gt = c /\ call'[c].cmd \in {"START", "FINISH"}
                     /\ call'[c].res # "none"
    BY <2>1, <2>2, Zenon DEF CallInv
  <2>4. c \in Threads => call'[c].cmd \in {"PAUSE", "RESUME", "STOP", "none"}
    BY <2>2, Zenon DEF CallInv
  <2> QED
    BY <1>2, <2>2, <2>3, <2>4, Zenon
<1>6. ASSUME NEW g \in Gts, ProcessVf(g)
      PROVE  CallInv'
  <2>1. CASE call' = call
    BY <1>3, <2>1, Zenon
  <2>2. CASE SendCmd(g, "START", g, worker[g].vf)
    <3>1. call'[g].cmd = "START" /\ call'[g].gt = g /\ call'[g].res = "sent"
          /\ \A d \in Callers : d # g => call'[d] = call[d]
      BY <1>0, <2>2, Apart, Zenon DEF SendCmd
    <3> QED
      BY <1>2, <3>1, Apart, Zenon
  <2>3. CASE SendCmd(g, "FINISH", g, worker[g].vf)
    <3>1. call'[g].cmd = "FINISH" /\ call'[g].gt = g /\ call'[g].res = "sent"
          /\ \A d \in Callers : d # g => call'[d] = call[d]
      BY <1>0, <2>3, Apart, Zenon DEF SendCmd
    <3> QED
      BY <1>2, <3>1, Apart, Zenon
  <2> QED
    BY <1>6, <2>1, <2>2, <2>3, Zenon DEF ProcessVf
<1>7. ASSUME NEW t \in Threads, Command(t)
      PROVE  CallInv'
  <2>1. CASE call' = call
    BY <1>3, <2>1, Zenon
  <2>2. CASE \E cmd \in {"PAUSE", "RESUME", "STOP"} : SendCmd(t, cmd, thread[t].gt, thread[t].vf)
    <3>1. call'[t].cmd \in {"PAUSE", "RESUME", "STOP"}
          /\ \A d \in Callers : d # t => call'[d] = call[d]
      BY <1>0, <2>2, Apart, SMTT(40) DEF SendCmd
    <3> QED
      BY <1>2, <3>1, Apart, ZenonT(60)
  <2>3. call' = call
          \/ \E cmd \in {"PAUSE", "RESUME", "STOP"} : SendCmd(t, cmd, thread[t].gt, thread[t].vf)
    BY <1>7, Zenon DEF Command
  <2> QED
    BY <2>1, <2>2, <2>3, ZenonT(60)
<1>8. ASSUME SystemResume
      PROVE  CallInv'
  <2>1. call' = [c \in Callers |-> IF call[c].res = "sent"
                                   THEN [call[c] EXCEPT !.res = "error"] ELSE call[c]]
    BY <1>8, Zenon DEF SystemResume
  <2>2. ASSUME NEW c \in Callers
        PROVE  \/ call'[c] = call[c]
               \/ /\ call[c] # NoCall
                  /\ call'[c].cmd = call[c].cmd /\ call'[c].gt = call[c].gt
                  /\ call'[c].res # "none"
    <3>1. CASE call[c].res = "sent"
      <4>1. call'[c] = [call[c] EXCEPT !.res = "error"] /\ call[c] \in CmdCalls
        BY <1>0, <2>1, <3>1, Zenon
      <4> QED
        BY <1>1, <3>1, <4>1, Zenon DEF CmdCalls
    <3>2. CASE call[c].res # "sent"
      BY <2>1, <3>2, Zenon
    <3> QED
      BY <3>1, <3>2, Zenon
  <2> QED
    BY <2>2, Apart, ZenonT(60) DEF CallInv
<1>9. ASSUME NEW c \in Callers, GucExecutes(c)
      PROVE  CallInv'
  <2>1. \E x \in {"error", "ok"} : call' = [call EXCEPT ![c].res = x]
    BY <1>9, Zenon DEF GucExecutes
  <2>2. call[c].res = "sent"
    BY <1>9, Zenon DEF GucExecutes
  <2> QED
    BY <1>5, <2>1, <2>2, Zenon
<1>10. ASSUME NEW c \in Callers, GucRefuses(c)
       PROVE  CallInv'
  <2>1. PICK x \in {"busy", "error"} : call' = [call EXCEPT ![c].res = x]
    BY <1>10, Zenon DEF GucRefuses
  <2>2. call[c].res = "sent"
    BY <1>10, Zenon DEF GucRefuses
  <2> QED
    BY <1>5, <2>1, <2>2, Zenon
<1>11. ASSUME NEW g \in Gts, WorkerAnswered(g)
       PROVE  CallInv'
  BY <1>4, <1>11, Apart, Zenon DEF WorkerAnswered
<1>12. ASSUME NEW t \in Threads, ThreadAnswered(t)
       PROVE  CallInv'
  BY <1>4, <1>12, Apart, Zenon DEF ThreadAnswered
<1>13. CASE Step
  <2>1. ASSUME NEW g \in Gts, WorkerStart(g) \/ HandleEvent(g)
        PROVE  CallInv'
    BY <1>3, <2>1, Zenon DEF WorkerStart, HandleEvent
  <2>2. ASSUME NEW t \in Threads, PauseCheck(t)
        PROVE  CallInv'
    BY <1>3, <2>2, Zenon DEF PauseCheck
  <2>3. ASSUME PauseSync \/ PauseWaited \/ RestoreRunning
        PROVE  CallInv'
    BY <1>3, <2>3, Zenon DEF PauseSync, PauseWaited, RestoreRunning
  <2>4. ASSUME NEW g \in Gts, NEW v \in VfIds, GucDone(g, v)
        PROVE  CallInv'
    BY <1>3, <2>4, Zenon DEF GucDone
  <2> QED
    BY <1>6, <1>7, <1>8, <1>9, <1>11, <1>12, <1>13, <2>1, <2>2, <2>3, <2>4, ZenonT(60) DEF Step
<1>14. CASE Environment
  <2>1. ASSUME NEW h \in Hosts, NEW v \in VfIds, NEW op \in {"pause", "resume", "stop"},
               Control(h, op, v)
        PROVE  CallInv'
    BY <1>3, <2>1, Zenon DEF Control
  <2>2. ASSUME NEW h \in Hosts, DisableVfs(h)
        PROVE  CallInv'
    BY <1>3, <2>2, Zenon DEF DisableVfs
  <2>3. ASSUME NEW v \in VfIds, PciFlr(v)
        PROVE  CallInv'
    BY <1>3, <2>3, Zenon DEF PciFlr
  <2>4. ASSUME SuspendPrepare
        PROVE  CallInv'
    BY <1>3, <2>4, Zenon DEF SuspendPrepare
  <2> QED
    BY <1>10, <1>14, <2>1, <2>2, <2>3, <2>4, Zenon DEF Environment
<1> QED
  BY <1>13, <1>14, Zenon DEF StateNext

-----------------------------------------------------------------------------
(* The frame: what leaves the FLR of a VF where it is.                     *)

FlrBits == {"FLR_IN_PROGRESS", "NEEDS_FLR_START", "FLR_DONE_RECEIVED",
            "NEEDS_FLR_FINISH", "FLR_FAILED"}

PauseBits == {"PAUSE_IN_PROGRESS", "PAUSE_BY_SUSPEND"}

OneDone(g, v) == \A i, j \in DoneAt(g, v) : i = j

\* No FLR_DONE of v comes in, and a single one stays a single one.
NoneAdded(g, v) ==
    /\ DoneAt(g, v)' # {} => DoneAt(g, v) # {}
    /\ OneDone(g, v) => OneDone(g, v)'

Still(g, v) ==
    /\ \A cmd \in {"START", "FINISH"} : CallsFor(g, v, cmd)' <=> CallsFor(g, v, cmd)
    /\ CallsFor(g, v, "START") \/ CallsFor(g, v, "FINISH") => call'[g].res = call[g].res
    /\ \A b \in FlrBits : Has(g, v, b)' <=> Has(g, v, b)
    /\ guc'[g][v] = guc[g][v] \/ (~InFlr(g, v) /\ ~InFlr(g, v)')
    /\ NoneAdded(g, v)

\* The frame rule.
LEMMA StillOK ==
    ASSUME NEW g \in Gts, NEW v \in VfIds, FlrOK(g, v), Still(g, v)
    PROVE  FlrOK(g, v)'
<1>1. /\ CallsFor(g, v, "START")' <=> CallsFor(g, v, "START")
      /\ CallsFor(g, v, "FINISH")' <=> CallsFor(g, v, "FINISH")
      /\ CallsFor(g, v, "START") \/ CallsFor(g, v, "FINISH") => call'[g].res = call[g].res
  BY Zenon DEF Still
<1>2. /\ Has(g, v, "FLR_IN_PROGRESS")' <=> Has(g, v, "FLR_IN_PROGRESS")
      /\ Has(g, v, "NEEDS_FLR_START")' <=> Has(g, v, "NEEDS_FLR_START")
      /\ Has(g, v, "FLR_DONE_RECEIVED")' <=> Has(g, v, "FLR_DONE_RECEIVED")
      /\ Has(g, v, "NEEDS_FLR_FINISH")' <=> Has(g, v, "NEEDS_FLR_FINISH")
      /\ Has(g, v, "FLR_FAILED")' <=> Has(g, v, "FLR_FAILED")
  BY Zenon DEF Still, FlrBits
<1>3. /\ InFlr(g, v)' <=> InFlr(g, v)
      /\ guc[g][v] = "done" => guc'[g][v] = "done"
  BY Zenon DEF Still, InFlr
<1>4. NoneAdded(g, v)
  BY Zenon DEF Still
<1>5. StartToCome(g, v)' <=> StartToCome(g, v)
  BY <1>1, <1>2, Zenon DEF StartToCome, CallsFor
<1>6. TokenOK(g, v) /\ (Has(g, v, "FLR_FAILED") \/ PhaseOK(g, v))
  BY Zenon DEF FlrOK
<1>7. TokenOK(g, v)'
  <2>1. OneDone(g, v)'
    BY <1>4, <1>6, Zenon DEF NoneAdded, OneDone, TokenOK
  <2>2. /\ DoneAt(g, v)' # {} => ~Has(g, v, "FLR_DONE_RECEIVED")'
        /\ DoneAt(g, v)' # {} \/ Has(g, v, "FLR_DONE_RECEIVED")'
              => guc'[g][v] = "done" /\ ~Has(g, v, "NEEDS_FLR_FINISH")'
        /\ DoneAt(g, v)' # {} \/ Has(g, v, "FLR_DONE_RECEIVED")'
              \/ Has(g, v, "NEEDS_FLR_FINISH")'
              => guc'[g][v] = "done" /\ ~CallsFor(g, v, "FINISH")'
    BY <1>1, <1>2, <1>3, <1>4, <1>6, ZenonT(60) DEF NoneAdded, TokenOK
  <2>3. CallsFor(g, v, "FINISH")' => IF call'[g].res = "ok" THEN ~InFlr(g, v)'
                                                         ELSE guc'[g][v] = "done"
    BY <1>1, <1>3, <1>6, Zenon DEF TokenOK
  <2>4. CallsFor(g, v, "START")' /\ call'[g].res = "ok" => InFlr(g, v)'
    BY <1>1, <1>3, <1>6, Zenon DEF TokenOK
  <2>5. Has(g, v, "FLR_IN_PROGRESS")'
          => StartToCome(g, v)' \/ CallsFor(g, v, "FINISH")' \/ InFlr(g, v)'
    BY <1>1, <1>2, <1>3, <1>5, <1>6, ZenonT(60) DEF TokenOK
  <2> QED
    BY <2>1, <2>2, <2>3, <2>4, <2>5, Zenon DEF TokenOK, OneDone
<1>8. PhaseOK(g, v) => PhaseOK(g, v)'
  BY <1>1, <1>2, <1>3, Zenon DEF PhaseOK
<1> QED
  BY <1>2, <1>6, <1>7, <1>8, Zenon DEF FlrOK

\* A step keeps FlrInv if it keeps FlrOK of every VF on every gt.
LEMMA FlrFrom ==
    ASSUME FlrInv, wiped' = wiped,
           \A g \in Gts, v \in VfIds : FlrOK(g, v) => Still(g, v) \/ FlrOK(g, v)'
    PROVE  FlrInv'
<1>1. \A g \in Gts, v \in VfIds : FlrOK(g, v) => FlrOK(g, v)'
  BY StillOK, Zenon
<1> QED
  BY <1>1, Zenon DEF FlrInv

\* Same events, same tokens.
LEMMA SameDone ==
    ASSUME NEW g, NEW v, events'[g] = events[g]
    PROVE  DoneAt(g, v)' = DoneAt(g, v) /\ NoneAdded(g, v)
<1>1. DoneAt(g, v)' = DoneAt(g, v)
  BY Zenon DEF DoneAt
<1> QED
  BY <1>1, Zenon DEF NoneAdded, OneDone

\* A new event comes after the others.
LEMMA AppendDone ==
    ASSUME events \in [Gts -> Seq(Notices)], NEW g \in Gts, NEW v \in VfIds,
           NEW e \in Notices, events'[g] = Append(events[g], e)
    PROVE  /\ e # [ev |-> "FLR_DONE", vf |-> v] => NoneAdded(g, v)
           /\ e = [ev |-> "FLR_DONE", vf |-> v] /\ DoneAt(g, v) = {}
                => OneDone(g, v)'
<1> DEFINE q == events[g]
           d == [ev |-> "FLR_DONE", vf |-> v]
<1>1. q \in Seq(Notices) /\ Len(q) \in Nat
  OBVIOUS
<1>2. DoneAt(g, v) = {i \in 1..Len(q) : q[i] = d}
  BY Zenon DEF DoneAt
<1>3. DoneAt(g, v)' = {i \in 1..Len(Append(q, e)) : Append(q, e)[i] = d}
  BY Zenon DEF DoneAt
<1> HIDE DEF d
<1>4. /\ Len(Append(q, e)) = Len(q) + 1 /\ Append(q, e)[Len(q) + 1] = e
      /\ \A i \in 1..Len(q) : Append(q, e)[i] = q[i]
  BY <1>1
<1>5. CASE e # d
  <2>1. DoneAt(g, v)' = DoneAt(g, v)
    BY <1>1, <1>2, <1>3, <1>4, <1>5, SMTT(40)
  <2> QED
    BY <1>5, <2>1, ZenonT(60) DEF NoneAdded, OneDone, d
<1>6. CASE e = d /\ DoneAt(g, v) = {}
  <2>1. \A i \in DoneAt(g, v)' : i = Len(q) + 1
    BY <1>1, <1>2, <1>3, <1>4, <1>6, SMTT(40)
  <2> QED
    BY <1>6, <2>1, ZenonT(60) DEF OneDone, d
<1> QED
  BY <1>5, <1>6, Zenon DEF d

\* The handler takes the first event.
LEMMA TailDone ==
    ASSUME events \in [Gts -> Seq(Notices)], NEW g \in Gts, NEW v \in VfIds,
           events[g] # <<>>, events'[g] = Tail(events[g])
    PROVE  /\ NoneAdded(g, v)
           /\ Head(events[g]) = [ev |-> "FLR_DONE", vf |-> v] /\ OneDone(g, v)
                => DoneAt(g, v) # {} /\ DoneAt(g, v)' = {}
<1> DEFINE q == events[g]
           d == [ev |-> "FLR_DONE", vf |-> v]
<1>1. q \in Seq(Notices) /\ Len(q) \in Nat /\ Len(q) # 0
  OBVIOUS
<1>2. DoneAt(g, v) = {i \in 1..Len(q) : q[i] = d}
  BY Zenon DEF DoneAt
<1>3. DoneAt(g, v)' = {i \in 1..Len(Tail(q)) : Tail(q)[i] = d}
  BY Zenon DEF DoneAt
<1> HIDE DEF d
<1>4. /\ Len(Tail(q)) = Len(q) - 1 /\ Head(q) = q[1]
      /\ \A i \in 1..(Len(q) - 1) : Tail(q)[i] = q[i + 1]
  BY <1>1
<1>5. \A i \in DoneAt(g, v)' : i \in Nat /\ i # 0 /\ i + 1 \in DoneAt(g, v)
  BY <1>1, <1>2, <1>3, <1>4
<1>6. NoneAdded(g, v)
  <2>1. DoneAt(g, v)' # {} => DoneAt(g, v) # {}
    BY <1>5, Zenon
  <2>2. ASSUME OneDone(g, v), NEW i \in DoneAt(g, v)', NEW j \in DoneAt(g, v)'
        PROVE  i = j
    <3>1. i + 1 = j + 1 /\ i \in Nat /\ j \in Nat
      BY <1>5, <2>2, Zenon DEF OneDone
    <3> QED
      BY <3>1
  <2>3. OneDone(g, v) => OneDone(g, v)'
    BY <2>2, Zenon DEF OneDone
  <2> QED
    BY <2>1, <2>3, Zenon DEF NoneAdded
<1>7. CASE Head(q) = d /\ OneDone(g, v)
  <2>1. 1 \in DoneAt(g, v)
    BY <1>1, <1>2, <1>4, <1>7, SMTT(40)
  <2>2. ASSUME NEW i \in DoneAt(g, v)'
        PROVE  FALSE
    <3>1. i + 1 = 1 /\ i \in Nat /\ i # 0
      BY <1>5, <1>7, <2>1, Zenon DEF OneDone
    <3> QED
      BY <3>1
  <2> QED
    BY <1>6, <2>1, <2>2, ZenonT(60)
<1> QED
  BY <1>6, <1>7, Zenon DEF d

\* Where bits of an FLR, commands of the gts, the GuC and the events stay,
LEMMA QuietFlr ==
    ASSUME NEW g, NEW v, call'[g] = call[g], guc'[g][v] = guc[g][v],
           \A b \in FlrBits : b \in bits'[g][v] <=> b \in bits[g][v],
           NoneAdded(g, v)
    PROVE  Still(g, v)
<1>1. \A cmd \in {"START", "FINISH"} : CallsFor(g, v, cmd)' <=> CallsFor(g, v, cmd)
  BY Zenon DEF CallsFor
<1>2. \A b \in FlrBits : Has(g, v, b)' <=> Has(g, v, b)
  BY Zenon DEF Has
<1> QED
  BY <1>1, <1>2, Zenon DEF Still

\* What setting the GuC's state of one VF does.
LEMMA GucSet ==
    ASSUME guc \in [Gts -> [VfIds -> GucStates]], NEW g \in Gts, NEW v \in VfIds,
           NEW x, guc' = [guc EXCEPT ![g][v] = x]
    PROVE  /\ guc'[g][v] = x
           /\ \A h \in Gts, w \in VfIds : h # g \/ w # v => guc'[h][w] = guc[h][w]
<1> DEFINE new == [guc[g] EXCEPT ![v] = x]
<1>1. guc' = [guc EXCEPT ![g] = new]
  BY Zenon
<1>2. new[v] = x /\ \A w \in VfIds : w # v => new[w] = guc[g][w]
  BY Zenon
<1> HIDE DEF new
<1> QED
  BY <1>1, <1>2, Zenon

-----------------------------------------------------------------------------
(* The steps that leave every FLR where it is.                             *)

\* The bits of a pause are none of an FLR's.
LEMMA PutQuiet ==
    ASSUME bits \in [Gts -> [VfIds -> SUBSET Bits]], NEW h \in Gts, NEW w \in VfIds,
           NEW add \in SUBSET PauseBits, NEW del \in SUBSET PauseBits, Put(h, w, add, del)
    PROVE  \A g \in Gts, v \in VfIds, b \in FlrBits : b \in bits'[g][v] <=> b \in bits[g][v]
<1>1. add \in SUBSET Bits /\ \A b \in FlrBits : b \notin add /\ b \notin del
  BY Zenon DEF PauseBits, FlrBits, Bits
<1>2. \A b : b \in bits'[h][w] <=> (b \in bits[h][w] /\ b \notin del) \/ b \in add
  BY <1>1, PutBits, Zenon
<1>3. \A g \in Gts, v \in VfIds : g # h \/ v # w => bits'[g][v] = bits[g][v]
  BY PutElsewhere, Zenon
<1> QED
  BY <1>1, <1>2, <1>3, Zenon

\* The threads that pause, resume and stop do not touch an FLR.
LEMMA ThreadFlr ==
    ASSUME StateTypeOK, CallInv, FlrInv, NEW t \in Threads,
           PauseCheck(t) \/ Command(t) \/ ThreadAnswered(t) \/ (t = Pm /\ RestoreRunning)
    PROVE  FlrInv'
<1> DEFINE s == thread[t]
<1>0. /\ bits \in [Gts -> [VfIds -> SUBSET Bits]] /\ call \in [Callers -> CmdCalls]
      /\ s.gt \in Gts /\ s.vf \in VfIds
  <2>1. bits \in [Gts -> [VfIds -> SUBSET Bits]] /\ call \in [Callers -> CmdCalls]
        /\ thread \in [Threads -> Places]
    BY Types, Zenon
  <2> QED
    BY <2>1, Zenon DEF Places
<1>1. wiped' = wiped /\ guc' = guc /\ events' = events
  BY Zenon DEF PauseCheck, Command, ThreadAnswered, RestoreRunning
<1>2. call' = call \/ \E x : call' = [call EXCEPT ![t] = x]
  BY Zenon DEF PauseCheck, Command, ThreadAnswered, RestoreRunning, SendCmd
<1>3. \A g \in Gts : call'[g] = call[g]
  BY <1>0, <1>2, Apart, Zenon
<1>4. \/ bits' = bits
      \/ \E add, del \in SUBSET PauseBits : Put(s.gt, s.vf, add, del)
  <2>1. {} \in SUBSET PauseBits /\ {"PAUSE_IN_PROGRESS"} \in SUBSET PauseBits
        /\ {"PAUSE_BY_SUSPEND"} \in SUBSET PauseBits
    BY Zenon DEF PauseBits
  <2>2. CASE PauseCheck(t) \/ ThreadAnswered(t) \/ (t = Pm /\ RestoreRunning)
    BY <2>1, <2>2, Zenon DEF PauseCheck, ThreadAnswered, RestoreRunning
  <2>3. CASE Command(t)
    BY <2>1, <2>3, Zenon DEF Command
  <2> QED
    BY <2>2, <2>3, Zenon
<1>5. \A g \in Gts, v \in VfIds, b \in FlrBits : b \in bits'[g][v] <=> b \in bits[g][v]
  <2>1. CASE bits' = bits
    BY <2>1, Zenon
  <2>2. CASE bits' # bits
    <3>1. PICK add, del \in SUBSET PauseBits : Put(s.gt, s.vf, add, del)
      BY <1>4, <2>2, Zenon
    <3> QED
      BY <1>0, <3>1, PutQuiet, Zenon
  <2> QED
    BY <2>1, <2>2, Zenon
<1>6. \A g \in Gts, v \in VfIds : Still(g, v)
  BY <1>1, <1>3, <1>5, SameDone, QuietFlr, ZenonT(60)
<1> QED
  BY <1>1, <1>6, FlrFrom, Zenon

\* Neither do the steps that change no part of an FLR,
LEMMA IdleFlr ==
    ASSUME FlrInv,
           \/ \E g \in Gts : WorkerStart(g)
           \/ \E h \in Hosts, v \in VfIds, op \in {"pause", "resume", "stop"} :
                  Control(h, op, v)
           \/ PauseSync \/ PauseWaited \/ SuspendPrepare
    PROVE  FlrInv'
<1>1. UNCHANGED <<wiped, bits, call, guc, events>>
  BY Zenon DEF WorkerStart, Control, PauseSync, PauseWaited, SuspendPrepare
<1>2. \A g \in Gts, v \in VfIds : Still(g, v)
  BY <1>1, SameDone, QuietFlr, Zenon
<1> QED
  BY <1>1, <1>2, FlrFrom, Zenon

\* and the PCI function, which resets a VF only between FLRs.
LEMMA PciFlrOK ==
    ASSUME StateTypeOK, FlrInv, NEW v \in VfIds, PciFlr(v)
    PROVE  FlrInv'
<1>0. /\ guc \in [Gts -> [VfIds -> GucStates]] /\ events \in [Gts -> Seq(Notices)]
      /\ Root \in Gts
  BY Types, Apart, Zenon
<1> DEFINE e == [ev |-> "FLR", vf |-> v]
<1>1. e \in Notices /\ \A w \in VfIds : e # [ev |-> "FLR_DONE", vf |-> w]
  BY Zenon DEF Notices, Events
<1>2. UNCHANGED <<wiped, bits, call>>
  BY Zenon DEF PciFlr
<1>3. events' = [events EXCEPT ![Root] = Append(events[Root], e)]
  BY Zenon DEF PciFlr
<1> HIDE DEF e
<1>4. /\ events'[Root] = Append(events[Root], e)
      /\ \A g \in Gts : g # Root => events'[g] = events[g]
  BY <1>0, <1>3, Zenon
<1>5. \A g \in Gts, w \in VfIds : NoneAdded(g, w)
  BY <1>0, <1>1, <1>4, SameDone, AppendDone, ZenonT(60)
<1>6. /\ guc'[Root][v] = "notified" /\ guc[Root][v] \notin {"flr", "done"}
      /\ \A h \in Gts, w \in VfIds : h # Root \/ w # v => guc'[h][w] = guc[h][w]
  <2>1. guc' = [guc EXCEPT ![Root][v] = "notified"]
        /\ guc[Root][v] \notin {"notified", "flr", "done"}
    BY Zenon DEF PciFlr
  <2> QED
    BY <1>0, <2>1, GucSet, SMTT(40)
<1>7. ASSUME NEW g \in Gts, NEW w \in VfIds
      PROVE  Still(g, w)
  <2>1. guc'[g][w] = guc[g][w] \/ (~InFlr(g, w) /\ ~InFlr(g, w)')
    BY <1>6, Zenon DEF InFlr
  <2>2. \A cmd \in {"START", "FINISH"} : CallsFor(g, w, cmd)' <=> CallsFor(g, w, cmd)
    BY <1>2, Zenon DEF CallsFor
  <2>3. \A b \in FlrBits : Has(g, w, b)' <=> Has(g, w, b)
    BY <1>2, Zenon DEF Has
  <2> QED
    BY <1>2, <1>5, <2>1, <2>2, <2>3, ZenonT(60) DEF Still
<1> QED
  BY <1>2, <1>7, FlrFrom, Zenon

-----------------------------------------------------------------------------
(* The steps of an FLR.                                                    *)

\* What else FlrOK is about when neither the GuC nor the commands change.
LEMMA SameCalls ==
    ASSUME NEW g, NEW v, call'[g] = call[g], guc'[g][v] = guc[g][v]
    PROVE  /\ \A cmd : CallsFor(g, v, cmd)' <=> CallsFor(g, v, cmd)
           /\ InFlr(g, v)' <=> InFlr(g, v)
BY Zenon DEF CallsFor, InFlr

\* pf_init_vf_flr(): the FLR of v is begun.
LEMMA BeginOK ==
    ASSUME NEW g \in Gts, NEW v \in VfIds, FlrOK(g, v), NoFlr(g, v),
           call'[g] = call[g], guc'[g][v] = guc[g][v], NoneAdded(g, v),
           bits'[g][v] = bits[g][v] \cup {"FLR_IN_PROGRESS", "NEEDS_FLR_START"}
    PROVE  FlrOK(g, v)'
<1>1. /\ Has(g, v, "FLR_IN_PROGRESS")' /\ Has(g, v, "NEEDS_FLR_START")'
      /\ Has(g, v, "FLR_DONE_RECEIVED")' <=> Has(g, v, "FLR_DONE_RECEIVED")
      /\ Has(g, v, "NEEDS_FLR_FINISH")' <=> Has(g, v, "NEEDS_FLR_FINISH")
      /\ Has(g, v, "FLR_FAILED")' <=> Has(g, v, "FLR_FAILED")
  BY Zenon DEF Has
<1>2. /\ CallsFor(g, v, "START")' <=> CallsFor(g, v, "START")
      /\ CallsFor(g, v, "FINISH")' <=> CallsFor(g, v, "FINISH")
      /\ InFlr(g, v)' <=> InFlr(g, v)
  BY SameCalls, Zenon
<1>3. TokenOK(g, v) /\ (Has(g, v, "FLR_FAILED") \/ PhaseOK(g, v))
  BY Zenon DEF FlrOK
<1>4. OneDone(g, v)' /\ (DoneAt(g, v)' # {} => DoneAt(g, v) # {})
  BY <1>3, Zenon DEF TokenOK, OneDone, NoneAdded
<1>5. TokenOK(g, v)'
  BY <1>1, <1>2, <1>3, <1>4, ZenonT(60) DEF TokenOK, OneDone, StartToCome
<1>6. PhaseOK(g, v) => PhaseOK(g, v)'
  BY <1>1, <1>2, Zenon DEF PhaseOK, NoFlr
<1> QED
  BY <1>1, <1>3, <1>5, <1>6, Zenon DEF FlrOK

\* Disabling the VFs begins their FLRs on all gts.
LEMMA DisableFlr ==
    ASSUME StateTypeOK, FlrInv, NEW h \in Hosts, DisableVfs(h)
    PROVE  FlrInv'
<1>0. bits \in [Gts -> [VfIds -> SUBSET Bits]] /\ worker \in [Gts -> WorkerStates]
      /\ VfIds \in SUBSET VfIds
  BY Types, Zenon
<1>1. InitVfFlr(VfIds) /\ UNCHANGED <<wiped, call, guc, events>>
  BY Zenon DEF DisableVfs
<1>2. \A g \in Gts, v \in VfIds :
         bits'[g][v] = IF v \in VfIds /\ NoFlr(g, v)
                       THEN bits[g][v] \cup {"FLR_IN_PROGRESS", "NEEDS_FLR_START"}
                       ELSE bits[g][v]
  BY <1>0, <1>1, StartBits, Zenon
<1>3. ASSUME NEW g \in Gts, NEW v \in VfIds, FlrOK(g, v)
      PROVE  Still(g, v) \/ FlrOK(g, v)'
  <2>1. CASE NoFlr(g, v)
    <3>1. bits'[g][v] = bits[g][v] \cup {"FLR_IN_PROGRESS", "NEEDS_FLR_START"}
      BY <1>2, <2>1, Zenon
    <3> QED
      BY <1>1, <1>3, <2>1, <3>1, BeginOK, SameDone, ZenonT(60)
  <2>2. CASE ~NoFlr(g, v)
    <3>1. bits'[g][v] = bits[g][v]
      BY <1>2, <2>2, Zenon
    <3> QED
      BY <1>1, <3>1, SameDone, QuietFlr, Zenon
  <2> QED
    BY <2>1, <2>2, Zenon
<1> QED
  BY <1>1, <1>3, FlrFrom, Zenon

\* The events handled: an FLR is begun, has been done, or is none of it.
LEMMA EventFlr ==
    ASSUME StateTypeOK, FlrInv, NEW g \in Gts, HandleEvent(g)
    PROVE  FlrInv'
<1>0. /\ bits \in [Gts -> [VfIds -> SUBSET Bits]] /\ worker \in [Gts -> WorkerStates]
      /\ events \in [Gts -> Seq(Notices)]
  BY Types, Zenon
<1>1. events[g] # <<>> /\ UNCHANGED <<wiped, call, guc>>
      /\ events' = [events EXCEPT ![g] = Tail(events[g])]
  BY Zenon DEF HandleEvent
<1>2. PICK e \in Notices : e = Head(events[g])
  <2>1. events[g] \in Seq(Notices)
    BY <1>0, Zenon
  <2> QED
    BY <1>1, <2>1
<1>3. e.vf \in VfIds /\ e.ev \in Events
  BY Zenon DEF Notices
<1>4. /\ events'[g] = Tail(events[g])
      /\ \A h \in Gts : h # g => events'[h] = events[h]
  BY <1>0, <1>1, Zenon
<1>5. \A h \in Gts, v \in VfIds : NoneAdded(h, v)
  BY <1>0, <1>1, <1>4, SameDone, TailDone, ZenonT(60)
<1>6. CASE e.ev = "FLR"
  <2>1. InitVfFlr({e.vf})
    BY <1>2, <1>6, Zenon DEF HandleEvent
  <2>2. {e.vf} \in SUBSET VfIds
    BY <1>3, Zenon
  <2>3. \A h \in Gts, v \in VfIds :
           bits'[h][v] = IF v \in {e.vf} /\ NoFlr(h, v)
                         THEN bits[h][v] \cup {"FLR_IN_PROGRESS", "NEEDS_FLR_START"}
                         ELSE bits[h][v]
    BY <1>0, <2>1, <2>2, StartBits, Zenon
  <2>4. ASSUME NEW h \in Gts, NEW v \in VfIds, FlrOK(h, v)
        PROVE  Still(h, v) \/ FlrOK(h, v)'
    <3>1. CASE v \in {e.vf} /\ NoFlr(h, v)
      <4>1. bits'[h][v] = bits[h][v] \cup {"FLR_IN_PROGRESS", "NEEDS_FLR_START"}
        BY <2>3, <3>1, Zenon
      <4> QED
        BY <1>1, <1>5, <2>4, <3>1, <4>1, BeginOK, ZenonT(60)
    <3>2. CASE ~(v \in {e.vf} /\ NoFlr(h, v))
      <4>1. bits'[h][v] = bits[h][v]
        BY <2>3, <3>2, Zenon
      <4> QED
        BY <1>1, <1>5, <4>1, QuietFlr, Zenon
    <3> QED
      BY <3>1, <3>2, Zenon
  <2> QED
    BY <1>1, <2>4, FlrFrom, Zenon
<1>7. CASE e.ev = "PAUSE_DONE"
  <2>1. Put(g, e.vf, {}, {"PAUSE_IN_PROGRESS"})
    BY <1>2, <1>7, Zenon DEF HandleEvent
  <2>2. {} \in SUBSET PauseBits /\ {"PAUSE_IN_PROGRESS"} \in SUBSET PauseBits
    BY Zenon DEF PauseBits
  <2>3. \A h \in Gts, v \in VfIds, b \in FlrBits : b \in bits'[h][v] <=> b \in bits[h][v]
    BY <1>0, <1>3, <2>1, <2>2, PutQuiet, ZenonT(60)
  <2>4. \A h \in Gts, v \in VfIds : Still(h, v)
    BY <1>1, <1>5, <2>3, QuietFlr, Zenon
  <2> QED
    BY <1>1, <2>4, FlrFrom, Zenon
<1>8. CASE e.ev = "FLR_DONE"
  <2>0. PICK v \in VfIds : v = e.vf
    BY <1>3, Zenon
  <2>1. Put(g, v, {"FLR_DONE_RECEIVED"}, {})
    BY <1>2, <1>8, <2>0, Zenon DEF HandleEvent
  <2>3. \A b : b \in bits'[g][v] <=> b \in bits[g][v] \/ b \in {"FLR_DONE_RECEIVED"}
    <3>1. PICK add, del \in SUBSET Bits :
            add = {"FLR_DONE_RECEIVED"} /\ del = {} /\ Put(g, v, add, del)
      BY <2>1, BitSets, Zenon
    <3>2. \A b : b \in bits'[g][v] <=> (b \in bits[g][v] /\ b \notin del) \/ b \in add
      <4>1. Put(g, v, add, del)
        BY <3>1, Zenon
      <4> QED
        BY <1>0, <4>1, PutBits, Zenon
    <3> QED
      BY <3>1, <3>2, Zenon
  <2>4. \A h \in Gts, w \in VfIds : h # g \/ w # v => bits'[h][w] = bits[h][w]
    BY <1>0, <2>1, PutElsewhere, Zenon
  <2>5. \A h \in Gts, w \in VfIds : h # g \/ w # v => Still(h, w)
    BY <1>1, <1>5, <2>4, QuietFlr, Zenon
  <2>6. ASSUME FlrOK(g, v)
        PROVE  FlrOK(g, v)'
    <3>1. Head(events[g]) = [ev |-> "FLR_DONE", vf |-> v]
      BY <1>2, <1>8, <2>0, Zenon DEF Notices
    <3>2. TokenOK(g, v) /\ (Has(g, v, "FLR_FAILED") \/ PhaseOK(g, v))
      BY <2>6, Zenon DEF FlrOK
    <3>3. OneDone(g, v)
      BY <3>2, Zenon DEF TokenOK, OneDone
    <3>4. DoneAt(g, v) # {} /\ DoneAt(g, v)' = {}
      BY <1>0, <1>1, <1>4, <3>1, <3>3, TailDone, ZenonT(60)
    <3>5. /\ Has(g, v, "FLR_IN_PROGRESS")' <=> Has(g, v, "FLR_IN_PROGRESS")
          /\ Has(g, v, "NEEDS_FLR_START")' <=> Has(g, v, "NEEDS_FLR_START")
          /\ Has(g, v, "FLR_DONE_RECEIVED")'
          /\ Has(g, v, "NEEDS_FLR_FINISH")' <=> Has(g, v, "NEEDS_FLR_FINISH")
          /\ Has(g, v, "FLR_FAILED")' <=> Has(g, v, "FLR_FAILED")
      BY <2>3 DEF Has
    <3>6. /\ CallsFor(g, v, "START")' <=> CallsFor(g, v, "START")
          /\ CallsFor(g, v, "FINISH")' <=> CallsFor(g, v, "FINISH")
          /\ InFlr(g, v)' <=> InFlr(g, v)
      BY <1>1, SameCalls, Zenon
    <3>7. TokenOK(g, v)'
      BY <1>1, <3>2, <3>4, <3>5, <3>6, ZenonT(60) DEF TokenOK, StartToCome, CallsFor
    <3>8. PhaseOK(g, v) => PhaseOK(g, v)'
      BY <1>1, <3>5, <3>6, Zenon DEF PhaseOK
    <3> QED
      BY <3>2, <3>5, <3>7, <3>8, Zenon DEF FlrOK
  <2> QED
    BY <1>1, <2>5, <2>6, FlrFrom, Zenon
<1> QED
  BY <1>3, <1>6, <1>7, <1>8, Zenon DEF Events

\* A step of the worker of gt g, or of the GuC for it, is about one VF.
LEMMA OneVf ==
    ASSUME FlrInv, NEW g \in Gts, NEW v \in VfIds, wiped' = wiped, events' = events,
           \A h \in Gts, w \in VfIds : h # g \/ w # v => bits'[h][w] = bits[h][w],
           \A h \in Gts, w \in VfIds : h # g \/ w # v => guc'[h][w] = guc[h][w],
           \A h \in Gts : h # g => call'[h] = call[h],
           call[g] = NoCall \/ call[g].vf = v, call'[g] = NoCall \/ call'[g].vf = v,
           FlrOK(g, v) => FlrOK(g, v)'
    PROVE  FlrInv'
<1>1. NoCall.cmd \notin {"START", "FINISH"}
  BY Zenon DEF NoCall
<1>2. ASSUME NEW h \in Gts, NEW w \in VfIds, h # g
      PROVE  Still(h, w)
  BY <1>2, SameDone, QuietFlr, ZenonT(60)
<1>3. ASSUME NEW w \in VfIds, w # v
      PROVE  Still(g, w)
  <2>1. \A cmd \in {"START", "FINISH"} : ~CallsFor(g, w, cmd) /\ ~CallsFor(g, w, cmd)'
    BY <1>1, <1>3, Zenon DEF CallsFor
  <2>2. ~CallsFor(g, w, "START") /\ ~CallsFor(g, w, "FINISH")
    BY <2>1, Zenon
  <2>3. \A b \in FlrBits : Has(g, w, b)' <=> Has(g, w, b)
    BY <1>3, Zenon DEF Has
  <2>4. guc'[g][w] = guc[g][w] /\ NoneAdded(g, w)
    BY <1>3, SameDone, Zenon
  <2> QED
    BY <2>1, <2>2, <2>3, <2>4, Zenon DEF Still
<1> QED
  BY <1>2, <1>3, FlrFrom, Zenon

\* The worker takes up what the bits of one VF ask for.
LEMMA ProcessFlr ==
    ASSUME StateTypeOK, FlrInv, NEW g \in Gts, ProcessVf(g)
    PROVE  FlrInv'
<1>0. /\ bits \in [Gts -> [VfIds -> SUBSET Bits]] /\ call \in [Callers -> CmdCalls]
      /\ worker \in [Gts -> WorkerStates] /\ g \in Callers
  BY Types, Apart, ZenonT(60)
<1>1. PICK v \in VfIds : v = worker[g].vf
  <2>1. worker[g].vf \in 0..NVF /\ worker[g].vf # 0
    BY <1>0, Zenon DEF ProcessVf, WorkerStates
  <2> QED
    BY <2>1, StateAssumption DEF VfIds
<1>2. call[g] = NoCall /\ UNCHANGED <<wiped, guc, events>>
  BY ZenonT(60) DEF ProcessVf
<1>3. ~CallsFor(g, v, "START") /\ ~CallsFor(g, v, "FINISH")
  BY <1>2 DEF CallsFor, NoCall
<1>4. (InFlr(g, v)' <=> InFlr(g, v)) /\ guc'[g][v] = guc[g][v]
      /\ DoneAt(g, v)' = DoneAt(g, v)
  BY <1>2, SameDone, Zenon DEF InFlr
<1>5. ASSUME NEW cmd \in {"START", "FINISH"}, SendCmd(g, cmd, g, v)
      PROVE  /\ \A h \in Gts : h # g => call'[h] = call[h]
             /\ call'[g].vf = v /\ call'[g].res = "sent" /\ CallsFor(g, v, cmd)'
             /\ \A x : x # cmd => ~CallsFor(g, v, x)'
  <2>1. cmd \in Commands
    BY Zenon DEF Commands
  <2>2. /\ \A h \in Callers : h # g => call'[h] = call[h]
        /\ call'[g].vf = v /\ call'[g].res = "sent" /\ call'[g].cmd = cmd
    BY <1>0, <1>5, <2>1, SendType, ZenonT(60)
  <2> QED
    BY <2>2, Apart, Zenon DEF CallsFor
<1>6. CASE bits' = bits /\ call' = call
  <2>1. \A h \in Gts, w \in VfIds : Still(h, w)
    BY <1>2, <1>6, SameDone, QuietFlr, Zenon
  <2> QED
    BY <1>2, <2>1, FlrFrom, Zenon
<1>7. CASE /\ Has(g, v, "NEEDS_FLR_START") /\ Put(g, v, {}, {"NEEDS_FLR_START"})
           /\ SendCmd(g, "START", g, v)
  <2>1. /\ \A h \in Gts : h # g => call'[h] = call[h]
        /\ call'[g].vf = v /\ call'[g].res = "sent" /\ CallsFor(g, v, "START")'
        /\ ~CallsFor(g, v, "FINISH")'
    BY <1>5, <1>7, Zenon
  <2>2. PICK add, del \in SUBSET Bits :
          add = {} /\ del = {"NEEDS_FLR_START"} /\ Put(g, v, add, del)
    BY <1>7, BitSets, Zenon
  <2>3. Put(g, v, add, del)
    BY <2>2, Zenon
  <2>4. \A h \in Gts, w \in VfIds : h # g \/ w # v => bits'[h][w] = bits[h][w]
    BY <1>0, <2>3, PutElsewhere, Zenon
  <2>5. \A b : b \in bits'[g][v] <=> (b \in bits[g][v] /\ b \notin del) \/ b \in add
    BY <1>0, <2>3, PutBits, Zenon
  <2>6. /\ Has(g, v, "FLR_IN_PROGRESS")' <=> Has(g, v, "FLR_IN_PROGRESS")
        /\ ~Has(g, v, "NEEDS_FLR_START")'
        /\ Has(g, v, "FLR_DONE_RECEIVED")' <=> Has(g, v, "FLR_DONE_RECEIVED")
        /\ Has(g, v, "NEEDS_FLR_FINISH")' <=> Has(g, v, "NEEDS_FLR_FINISH")
        /\ Has(g, v, "FLR_FAILED")' <=> Has(g, v, "FLR_FAILED")
    BY <2>2, <2>5, Zenon DEF Has
  <2>7. TokenOK(g, v) => TokenOK(g, v)'
    BY <1>4, <2>1, <2>6, Zenon DEF TokenOK, StartToCome, CallsFor
  <2>8. PhaseOK(g, v) => PhaseOK(g, v)'
    BY <1>4, <1>7, <2>1, <2>6, Zenon DEF PhaseOK
  <2>9. FlrOK(g, v) => FlrOK(g, v)'
    BY <2>6, <2>7, <2>8, Zenon DEF FlrOK
  <2> QED
    BY <1>2, <2>1, <2>4, <2>9, OneVf, Zenon
<1>8. CASE /\ Has(g, v, "FLR_DONE_RECEIVED") /\ call' = call
           /\ Put(g, v, {"NEEDS_FLR_FINISH"}, {"FLR_DONE_RECEIVED"})
  <2>2. PICK add, del \in SUBSET Bits :
          add = {"NEEDS_FLR_FINISH"} /\ del = {"FLR_DONE_RECEIVED"} /\ Put(g, v, add, del)
    BY <1>8, BitSets, Zenon
  <2>3. Put(g, v, add, del)
    BY <2>2, ZenonT(60)
  <2>4. \A h \in Gts, w \in VfIds : h # g \/ w # v => bits'[h][w] = bits[h][w]
    BY <1>0, <2>3, PutElsewhere, Zenon
  <2>5. \A b : b \in bits'[g][v] <=> (b \in bits[g][v] /\ b \notin del) \/ b \in add
    BY <1>0, <2>3, PutBits, Zenon
  <2>6. /\ Has(g, v, "FLR_IN_PROGRESS")' <=> Has(g, v, "FLR_IN_PROGRESS")
        /\ Has(g, v, "NEEDS_FLR_START")' <=> Has(g, v, "NEEDS_FLR_START")
        /\ ~Has(g, v, "FLR_DONE_RECEIVED")' /\ Has(g, v, "NEEDS_FLR_FINISH")'
        /\ Has(g, v, "FLR_FAILED")' <=> Has(g, v, "FLR_FAILED")
    BY <2>2, <2>5, SMTT(40) DEF Has
  <2>7. ~CallsFor(g, v, "START")' /\ ~CallsFor(g, v, "FINISH")'
    BY <1>3, <1>8, Zenon DEF CallsFor
  <2>8. TokenOK(g, v) => TokenOK(g, v)'
    BY <1>3, <1>4, <1>8, <2>6, <2>7, ZenonT(60) DEF TokenOK, StartToCome, CallsFor
  <2>9. PhaseOK(g, v) => PhaseOK(g, v)'
    BY <1>3, <1>4, <2>6, <2>7, ZenonT(60) DEF PhaseOK
  <2>10. FlrOK(g, v) => FlrOK(g, v)'
    BY <2>6, <2>8, <2>9, Zenon DEF FlrOK
  <2> QED
    BY <1>2, <1>8, <2>4, <2>10, OneVf, ZenonT(60)
<1>9. CASE /\ Has(g, v, "NEEDS_FLR_FINISH") /\ ~Has(g, v, "NEEDS_FLR_START")
           /\ Put(g, v, {}, {"NEEDS_FLR_FINISH"})
           /\ SendCmd(g, "FINISH", g, v)
  <2>1. /\ \A h \in Gts : h # g => call'[h] = call[h]
        /\ call'[g].vf = v /\ call'[g].res = "sent" /\ CallsFor(g, v, "FINISH")'
        /\ ~CallsFor(g, v, "START")'
    BY <1>5, <1>9, Zenon
  <2>2. PICK add, del \in SUBSET Bits :
          add = {} /\ del = {"NEEDS_FLR_FINISH"} /\ Put(g, v, add, del)
    BY <1>9, BitSets, Zenon
  <2>3. Put(g, v, add, del)
    BY <2>2, ZenonT(60)
  <2>4. \A h \in Gts, w \in VfIds : h # g \/ w # v => bits'[h][w] = bits[h][w]
    BY <1>0, <2>3, PutElsewhere, Zenon
  <2>5. \A b : b \in bits'[g][v] <=> (b \in bits[g][v] /\ b \notin del) \/ b \in add
    BY <1>0, <2>3, PutBits, Zenon
  <2>6. /\ Has(g, v, "FLR_IN_PROGRESS")' <=> Has(g, v, "FLR_IN_PROGRESS")
        /\ Has(g, v, "NEEDS_FLR_START")' <=> Has(g, v, "NEEDS_FLR_START")
        /\ Has(g, v, "FLR_DONE_RECEIVED")' <=> Has(g, v, "FLR_DONE_RECEIVED")
        /\ ~Has(g, v, "NEEDS_FLR_FINISH")'
        /\ Has(g, v, "FLR_FAILED")' <=> Has(g, v, "FLR_FAILED")
    BY <2>2, <2>5, Zenon DEF Has
  <2>7. ASSUME TokenOK(g, v)
        PROVE  TokenOK(g, v)' /\ InFlr(g, v)
    <3>1. guc[g][v] = "done" /\ DoneAt(g, v) = {} /\ ~Has(g, v, "FLR_DONE_RECEIVED")
      BY <1>9, <2>7, Zenon DEF TokenOK
    <3>2. InFlr(g, v)
      BY <3>1, Zenon DEF InFlr
    <3> QED
      BY <1>4, <2>1, <2>6, <3>1, <3>2, ZenonT(60) DEF TokenOK, StartToCome, CallsFor
  <2>8. PhaseOK(g, v) /\ InFlr(g, v) => PhaseOK(g, v)'
    BY <1>4, <1>9, <2>1, <2>6, ZenonT(60) DEF PhaseOK
  <2>9. FlrOK(g, v) => FlrOK(g, v)'
    BY <2>6, <2>7, <2>8, ZenonT(60) DEF FlrOK
  <2> QED
    BY <1>2, <2>1, <2>4, <2>9, OneVf, ZenonT(60)
<1>10. \/ bits' = bits /\ call' = call
       \/ /\ Has(g, v, "NEEDS_FLR_START") /\ Put(g, v, {}, {"NEEDS_FLR_START"})
          /\ SendCmd(g, "START", g, v)
       \/ /\ Has(g, v, "FLR_DONE_RECEIVED") /\ call' = call
          /\ Put(g, v, {"NEEDS_FLR_FINISH"}, {"FLR_DONE_RECEIVED"})
       \/ /\ Has(g, v, "NEEDS_FLR_FINISH")
          /\ bits[g][v] \cap {"NEEDS_FLR_START", "FLR_DONE_RECEIVED"} = {}
          /\ Put(g, v, {}, {"NEEDS_FLR_FINISH"})
          /\ SendCmd(g, "FINISH", g, v)
  BY <1>1, Zenon DEF ProcessVf
<1>11. bits[g][v] \cap {"NEEDS_FLR_START", "FLR_DONE_RECEIVED"} = {}
         => ~Has(g, v, "NEEDS_FLR_START")
  BY Zenon DEF Has
<1> QED
  BY <1>6, <1>7, <1>8, <1>9, <1>10, <1>11, ZenonT(60)

\* The worker deals with the answer to its command.
LEMMA AnswerFlr ==
    ASSUME StateTypeOK, CallInv, FlrInv, NEW g \in Gts, WorkerAnswered(g)
    PROVE  FlrInv'
<1>0. /\ bits \in [Gts -> [VfIds -> SUBSET Bits]] /\ call \in [Callers -> CmdCalls]
      /\ g \in Callers
  BY Types, Apart, Zenon
<1>1. PICK v \in VfIds : v = call[g].vf
  BY <1>0, Zenon DEF CmdCalls
<1>2. /\ call[g].cmd \in {"START", "FINISH"} /\ call[g].res # "sent"
      /\ call' = [call EXCEPT ![g] = NoCall] /\ UNCHANGED <<wiped, guc, events>>
  BY Zenon DEF WorkerAnswered, Answered
<1>3. call[g].res \in {"ok", "busy", "error"}
  <2>1. call[g] # NoCall
    BY <1>2 DEF NoCall
  <2>2. call[g].res # "none" /\ call[g] \in CmdCalls
    BY <1>0, <2>1, Zenon DEF CallInv
  <2> QED
    BY <1>2, <2>2, ZenonT(60) DEF CmdCalls
<1>4. /\ call'[g] = NoCall /\ ~CallsFor(g, v, "START")' /\ ~CallsFor(g, v, "FINISH")'
      /\ \A h \in Gts : h # g => call'[h] = call[h]
  <2>1. /\ call'[g] = NoCall /\ call'[g].cmd = "none"
        /\ \A h \in Callers : h # g => call'[h] = call[h]
    BY <1>0, <1>2, CallDropped, Zenon
  <2> QED
    BY <2>1, Apart, Zenon DEF CallsFor
<1>5. /\ (InFlr(g, v)' <=> InFlr(g, v)) /\ guc'[g][v] = guc[g][v]
      /\ DoneAt(g, v)' = DoneAt(g, v)
  BY <1>2, SameDone, Zenon DEF InFlr
<1>6. CallsFor(g, v, "START") \/ CallsFor(g, v, "FINISH")
  BY <1>1, <1>2, Zenon DEF CallsFor
<1>8. ASSUME NEW add \in SUBSET Bits, NEW del \in SUBSET Bits, Put(g, v, add, del),
             FlrOK(g, v) => FlrOK(g, v)'
      PROVE  FlrInv'
  <2>1. \A h \in Gts, w \in VfIds : h # g \/ w # v => bits'[h][w] = bits[h][w]
    BY <1>0, <1>8, PutElsewhere, Zenon
  <2> QED
    BY <1>1, <1>2, <1>4, <1>8, <2>1, OneVf, ZenonT(60)
<1>9. CASE CallsFor(g, v, "START") /\ call[g].res = "busy"
  <2>1. PICK add, del \in SUBSET Bits :
          add = {"NEEDS_FLR_START"} /\ del = {} /\ Put(g, v, add, del)
    <3>1. Put(g, v, {"NEEDS_FLR_START"}, {})
      BY <1>1, <1>9, Zenon DEF WorkerAnswered, CallsFor
    <3> QED
      BY <3>1, BitSets, Zenon
  <2>2. Put(g, v, add, del)
    BY <2>1, Zenon
  <2>3. \A b : b \in bits'[g][v] <=> (b \in bits[g][v] /\ b \notin del) \/ b \in add
    BY <1>0, <2>2, PutBits, ZenonT(60)
  <2>4. /\ Has(g, v, "FLR_IN_PROGRESS")' <=> Has(g, v, "FLR_IN_PROGRESS")
        /\ Has(g, v, "NEEDS_FLR_START")'
        /\ Has(g, v, "FLR_DONE_RECEIVED")' <=> Has(g, v, "FLR_DONE_RECEIVED")
        /\ Has(g, v, "NEEDS_FLR_FINISH")' <=> Has(g, v, "NEEDS_FLR_FINISH")
        /\ Has(g, v, "FLR_FAILED")' <=> Has(g, v, "FLR_FAILED")
    BY <2>1, <2>3 DEF Has
  <2>5. TokenOK(g, v) => TokenOK(g, v)'
    BY <1>4, <1>5, <2>4, Zenon DEF TokenOK, StartToCome
  <2>6. PhaseOK(g, v) => PhaseOK(g, v)'
    BY <1>4, <1>5, <1>9, <2>4, Zenon DEF PhaseOK
  <2> QED
    BY <1>8, <2>2, <2>4, <2>5, <2>6, ZenonT(60) DEF FlrOK
<1>10. CASE CallsFor(g, v, "FINISH") /\ call[g].res = "busy"
  <2>1. PICK add, del \in SUBSET Bits :
          add = {"NEEDS_FLR_FINISH"} /\ del = {} /\ Put(g, v, add, del)
    <3>1. Put(g, v, {"NEEDS_FLR_FINISH"}, {})
      BY <1>1, <1>10, Zenon DEF WorkerAnswered, CallsFor
    <3> QED
      BY <3>1, BitSets, Zenon
  <2>2. Put(g, v, add, del)
    BY <2>1, ZenonT(60)
  <2>3. \A b : b \in bits'[g][v] <=> (b \in bits[g][v] /\ b \notin del) \/ b \in add
    BY <1>0, <2>2, PutBits, Zenon
  <2>4. /\ Has(g, v, "FLR_IN_PROGRESS")' <=> Has(g, v, "FLR_IN_PROGRESS")
        /\ Has(g, v, "NEEDS_FLR_START")' <=> Has(g, v, "NEEDS_FLR_START")
        /\ Has(g, v, "FLR_DONE_RECEIVED")' <=> Has(g, v, "FLR_DONE_RECEIVED")
        /\ Has(g, v, "NEEDS_FLR_FINISH")'
        /\ Has(g, v, "FLR_FAILED")' <=> Has(g, v, "FLR_FAILED")
    BY <2>1, <2>3 DEF Has
  <2>5. ASSUME TokenOK(g, v)
        PROVE  TokenOK(g, v)'
    <3>1. guc[g][v] = "done" /\ DoneAt(g, v) = {} /\ ~Has(g, v, "FLR_DONE_RECEIVED")
      BY <1>10, <2>5, Zenon DEF TokenOK
    <3>2. InFlr(g, v)
      BY <3>1, Zenon DEF InFlr
    <3> QED
      BY <1>4, <1>5, <2>4, <3>1, <3>2, ZenonT(60) DEF TokenOK
  <2>6. PhaseOK(g, v) => PhaseOK(g, v)'
    BY <1>4, <1>5, <1>10, <2>4, ZenonT(60) DEF PhaseOK
  <2> QED
    BY <1>8, <2>2, <2>4, <2>5, <2>6, ZenonT(60) DEF FlrOK
<1>11. CASE call[g].res = "error"
  <2>1. PICK add, del \in SUBSET Bits :
          add = {"FLR_FAILED"} /\ del = {"FLR_IN_PROGRESS"} /\ Put(g, v, add, del)
    <3>1. Put(g, v, {"FLR_FAILED"}, {"FLR_IN_PROGRESS"})
      BY <1>1, <1>11, Zenon DEF WorkerAnswered
    <3> QED
      BY <3>1, BitSets, Zenon
  <2>2. Put(g, v, add, del)
    BY <2>1, ZenonT(60)
  <2>3. \A b : b \in bits'[g][v] <=> (b \in bits[g][v] /\ b \notin del) \/ b \in add
    BY <1>0, <2>2, PutBits, Zenon
  <2>4. /\ ~Has(g, v, "FLR_IN_PROGRESS")'
        /\ Has(g, v, "FLR_DONE_RECEIVED")' <=> Has(g, v, "FLR_DONE_RECEIVED")
        /\ Has(g, v, "NEEDS_FLR_FINISH")' <=> Has(g, v, "NEEDS_FLR_FINISH")
        /\ Has(g, v, "FLR_FAILED")'
    BY <2>1, <2>3 DEF Has
  <2>5. TokenOK(g, v) => TokenOK(g, v)'
    BY <1>4, <1>5, <2>4, Zenon DEF TokenOK
  <2> QED
    BY <1>8, <2>2, <2>4, <2>5, ZenonT(60) DEF FlrOK
<1>12. CASE CallsFor(g, v, "START") /\ call[g].res = "ok"
  <2>1. PICK add, del \in SUBSET Bits :
          add = {} /\ del = {"PAUSE_IN_PROGRESS"} /\ Put(g, v, add, del)
    <3>1. Put(g, v, {}, {"PAUSE_IN_PROGRESS"})
      BY <1>1, <1>12, Zenon DEF WorkerAnswered, CallsFor
    <3> QED
      BY <3>1, BitSets, Zenon
  <2>2. Put(g, v, add, del)
    BY <2>1, ZenonT(60)
  <2>3. \A b : b \in bits'[g][v] <=> (b \in bits[g][v] /\ b \notin del) \/ b \in add
    BY <1>0, <2>2, PutBits, Zenon
  <2>4. /\ Has(g, v, "FLR_IN_PROGRESS")' <=> Has(g, v, "FLR_IN_PROGRESS")
        /\ Has(g, v, "NEEDS_FLR_START")' <=> Has(g, v, "NEEDS_FLR_START")
        /\ Has(g, v, "FLR_DONE_RECEIVED")' <=> Has(g, v, "FLR_DONE_RECEIVED")
        /\ Has(g, v, "NEEDS_FLR_FINISH")' <=> Has(g, v, "NEEDS_FLR_FINISH")
        /\ Has(g, v, "FLR_FAILED")' <=> Has(g, v, "FLR_FAILED")
    BY <2>1, <2>3, Zenon DEF Has
  <2>5. TokenOK(g, v) => TokenOK(g, v)' /\ InFlr(g, v)
    BY <1>4, <1>5, <1>12, <2>4, ZenonT(60) DEF TokenOK
  <2>6. PhaseOK(g, v) /\ InFlr(g, v) => PhaseOK(g, v)'
    BY <1>4, <1>5, <1>12, <2>4, ZenonT(60) DEF PhaseOK
  <2> QED
    BY <1>8, <2>2, <2>4, <2>5, <2>6, ZenonT(60) DEF FlrOK
<1>13. CASE CallsFor(g, v, "FINISH") /\ call[g].res = "ok"
  <2>1. PICK add, del \in SUBSET Bits :
          add = {} /\ del = {"FLR_IN_PROGRESS"} /\ Put(g, v, add, del)
    <3>1. Put(g, v, {}, {"FLR_IN_PROGRESS"})
      BY <1>1, <1>13, Zenon DEF WorkerAnswered, CallsFor
    <3> QED
      BY <3>1, BitSets, Zenon
  <2>2. Put(g, v, add, del)
    BY <2>1, Zenon
  <2>3. \A b : b \in bits'[g][v] <=> (b \in bits[g][v] /\ b \notin del) \/ b \in add
    BY <1>0, <2>2, PutBits, Zenon
  <2>4. /\ ~Has(g, v, "FLR_IN_PROGRESS")'
        /\ Has(g, v, "NEEDS_FLR_START")' <=> Has(g, v, "NEEDS_FLR_START")
        /\ Has(g, v, "FLR_DONE_RECEIVED")' <=> Has(g, v, "FLR_DONE_RECEIVED")
        /\ Has(g, v, "NEEDS_FLR_FINISH")' <=> Has(g, v, "NEEDS_FLR_FINISH")
        /\ Has(g, v, "FLR_FAILED")' <=> Has(g, v, "FLR_FAILED")
    BY <2>1, <2>3, Zenon DEF Has
  <2>5. TokenOK(g, v) => TokenOK(g, v)' /\ ~InFlr(g, v)
    BY <1>4, <1>5, <1>13, <2>4, Zenon DEF TokenOK
  <2>6. PhaseOK(g, v) /\ ~InFlr(g, v) => PhaseOK(g, v)'
    BY <1>4, <1>5, <1>13, <2>4, ZenonT(60) DEF PhaseOK
  <2> QED
    BY <1>8, <2>2, <2>4, <2>5, <2>6, ZenonT(60) DEF FlrOK
<1> QED
  BY <1>3, <1>6, <1>9, <1>10, <1>11, <1>12, <1>13, ZenonT(60)

\* The GuC answers a thread: no FLR is touched.
LEMMA GucForThread ==
    ASSUME StateTypeOK, CallInv, FlrInv, NEW t \in Threads, GucExecutes(t) \/ GucRefuses(t)
    PROVE  FlrInv'
<1>0. /\ guc \in [Gts -> [VfIds -> GucStates]] /\ call \in [Callers -> CmdCalls]
      /\ t \in Callers /\ t \notin Gts
  BY Types, Apart, Zenon
<1>1. UNCHANGED <<wiped, bits, events>>
  BY Zenon DEF GucExecutes, GucRefuses
<1>2. \E x : call' = [call EXCEPT ![t].res = x]
  BY Zenon DEF GucExecutes, GucRefuses
<1>3. \A g \in Gts : call'[g] = call[g]
  BY <1>0, <1>2, ResultSet, Apart, Zenon
<1>4. PICK h \in Gts, w \in VfIds : h = call[t].gt /\ w = call[t].vf
  BY <1>0, Zenon DEF CmdCalls
<1>5. \/ guc' = guc
      \/ \E x : guc' = [guc EXCEPT ![h][w] = x]
                /\ x \notin {"flr", "done"} /\ guc[h][w] \notin {"flr", "done"}
  <2>1. CASE GucRefuses(t)
    BY <2>1, Zenon DEF GucRefuses
  <2>2. CASE GucExecutes(t)
    <3>1. call[t].cmd \in {"PAUSE", "RESUME", "STOP", "none"}
      BY Zenon DEF CallInv
    <3>2. \A x \in GucStates : Effect(call[t].cmd, x) # "refused"
             => x \notin {"flr", "done"} /\ Effect(call[t].cmd, x) \notin {"flr", "done"}
      BY <3>1, Zenon DEF Effect
    <3>3. guc[h][w] \in GucStates
      BY <1>0, Zenon
    <3>4. guc' = IF Effect(call[t].cmd, guc[h][w]) = "refused" THEN guc
                 ELSE [guc EXCEPT ![h][w] = Effect(call[t].cmd, guc[h][w])]
      BY <1>4, <2>2, Zenon DEF GucExecutes
    <3> QED
      BY <3>2, <3>3, <3>4, Zenon
  <2> QED
    BY <2>1, <2>2, Zenon
<1>6. ASSUME NEW g \in Gts, NEW v \in VfIds
      PROVE  Still(g, v)
  <2>1. guc'[g][v] = guc[g][v] \/ (~InFlr(g, v) /\ ~InFlr(g, v)')
    <3>1. CASE guc' = guc
      BY <3>1, Zenon
    <3>2. ASSUME NEW x, guc' = [guc EXCEPT ![h][w] = x],
                 x \notin {"flr", "done"}, guc[h][w] \notin {"flr", "done"}
          PROVE  guc'[g][v] = guc[g][v] \/ (~InFlr(g, v) /\ ~InFlr(g, v)')
      <4>0. guc' = [guc EXCEPT ![h][w] = x]
        BY <3>2, Zenon
      <4>1. guc'[h][w] = x
        BY <1>0, <4>0, GucSet, ZenonT(60)
      <4>2. \A d \in Gts, u \in VfIds : d # h \/ u # w => guc'[d][u] = guc[d][u]
        BY <1>0, <4>0, GucSet
      <4> QED
        BY <3>2, <4>1, <4>2, ZenonT(60) DEF InFlr
    <3> QED
      BY <1>5, <3>1, <3>2, Zenon
  <2>2. \A cmd \in {"START", "FINISH"} : CallsFor(g, v, cmd)' <=> CallsFor(g, v, cmd)
    BY <1>3, Zenon DEF CallsFor
  <2>3. \A b \in FlrBits : Has(g, v, b)' <=> Has(g, v, b)
    BY <1>1, Zenon DEF Has
  <2> QED
    BY <1>1, <1>3, <2>1, <2>2, <2>3, SameDone, ZenonT(60) DEF Still
<1> QED
  BY <1>1, <1>6, FlrFrom, Zenon

\* The GuC answers the worker: it starts or finishes the FLR, or fails.
LEMMA GucForWorker ==
    ASSUME StateTypeOK, CallInv, FlrInv, NEW g \in Gts, GucExecutes(g) \/ GucRefuses(g)
    PROVE  FlrInv'
<1>0. /\ guc \in [Gts -> [VfIds -> GucStates]] /\ call \in [Callers -> CmdCalls]
      /\ g \in Callers
  BY Types, Apart, Zenon
<1>1. call[g].res = "sent" /\ UNCHANGED <<wiped, bits, events>>
  BY Zenon DEF GucExecutes, GucRefuses
<1>2. call[g].gt = g /\ call[g].cmd \in {"START", "FINISH"}
  <2>1. call[g] # NoCall
    BY <1>1 DEF NoCall
  <2> QED
    BY <2>1, ZenonT(60) DEF CallInv
<1>3. PICK v \in VfIds : v = call[g].vf
  BY <1>0, Zenon DEF CmdCalls
<1>4. /\ Has(g, v, "FLR_IN_PROGRESS")' <=> Has(g, v, "FLR_IN_PROGRESS")
      /\ Has(g, v, "NEEDS_FLR_START")' <=> Has(g, v, "NEEDS_FLR_START")
      /\ Has(g, v, "FLR_DONE_RECEIVED")' <=> Has(g, v, "FLR_DONE_RECEIVED")
      /\ Has(g, v, "NEEDS_FLR_FINISH")' <=> Has(g, v, "NEEDS_FLR_FINISH")
      /\ Has(g, v, "FLR_FAILED")' <=> Has(g, v, "FLR_FAILED")
  BY <1>1, Zenon DEF Has
<1>5. DoneAt(g, v)' = DoneAt(g, v)
  BY <1>1, SameDone, Zenon
<1>6. ASSUME NEW x \in {"busy", "error", "ok"}, call' = [call EXCEPT ![g].res = x],
             \A h \in Gts, w \in VfIds : h # g \/ w # v => guc'[h][w] = guc[h][w],
             ASSUME call'[g].res = x,
                    CallsFor(g, v, "START")' <=> CallsFor(g, v, "START"),
                    CallsFor(g, v, "FINISH")' <=> CallsFor(g, v, "FINISH"),
                    StartToCome(g, v)' <=> StartToCome(g, v),
                    TokenOK(g, v), Has(g, v, "FLR_FAILED") \/ PhaseOK(g, v)
             PROVE  TokenOK(g, v)' /\ (Has(g, v, "FLR_FAILED") \/ PhaseOK(g, v)')
      PROVE  FlrInv'
  <2>1. /\ call'[g].cmd = call[g].cmd /\ call'[g].vf = call[g].vf /\ call'[g].res = x
        /\ \A h \in Callers : h # g => call'[h] = call[h]
    BY <1>0, <1>6, ResultSet, ZenonT(60)
  <2>2. /\ CallsFor(g, v, "START")' <=> CallsFor(g, v, "START")
        /\ CallsFor(g, v, "FINISH")' <=> CallsFor(g, v, "FINISH")
    BY <2>1, Zenon DEF CallsFor
  <2>3. StartToCome(g, v)' <=> StartToCome(g, v)
    BY <1>4, <2>1, ZenonT(60) DEF StartToCome
  <2>4. FlrOK(g, v) => FlrOK(g, v)'
    BY <1>4, <1>6, <2>1, <2>2, <2>3, ZenonT(60) DEF FlrOK
  <2>5. \A h \in Gts : h # g => call'[h] = call[h]
    BY <2>1, Apart, Zenon
  <2>6. \A h \in Gts, w \in VfIds : h # g \/ w # v => bits'[h][w] = bits[h][w]
    BY <1>1, Zenon
  <2> QED
    BY <1>1, <1>3, <1>6, <2>1, <2>4, <2>5, <2>6, OneVf, ZenonT(60)
<1>8. ASSUME NEW x \in {"busy", "error"}, call' = [call EXCEPT ![g].res = x], guc' = guc
      PROVE  FlrInv'
  <2>0. x \in {"busy", "error", "ok"} /\ x # "ok"
    BY Zenon
  <2>1. \A h \in Gts, w \in VfIds : guc'[h][w] = guc[h][w]
    BY <1>8, Zenon
  <2>2. InFlr(g, v)' <=> InFlr(g, v)
    BY <1>8, Zenon DEF InFlr
  <2>3. call[g].res # "ok"
    BY <1>1, Zenon
  <2>4. ASSUME call'[g].res = x,
               CallsFor(g, v, "START")' <=> CallsFor(g, v, "START"),
               CallsFor(g, v, "FINISH")' <=> CallsFor(g, v, "FINISH"),
               StartToCome(g, v)' <=> StartToCome(g, v),
               TokenOK(g, v), Has(g, v, "FLR_FAILED") \/ PhaseOK(g, v)
        PROVE  TokenOK(g, v)' /\ (Has(g, v, "FLR_FAILED") \/ PhaseOK(g, v)')
    <3>1. TokenOK(g, v)'
      BY <1>4, <1>5, <2>0, <2>1, <2>2, <2>3, <2>4, ZenonT(60) DEF TokenOK
    <3>2. PhaseOK(g, v) => PhaseOK(g, v)'
      BY <1>4, <2>2, <2>3, <2>4, ZenonT(60) DEF PhaseOK
    <3> QED
      BY <2>4, <3>1, <3>2, ZenonT(60)
  <2> QED
    BY <1>6, <1>8, <2>0, <2>1, <2>4, ZenonT(60)
<1>9. CASE GucRefuses(g)
  <2>1. PICK x \in {"busy", "error"} : call' = [call EXCEPT ![g].res = x]
    BY <1>9, Zenon DEF GucRefuses
  <2>2. guc' = guc
    BY <1>9, Zenon DEF GucRefuses
  <2> QED
    BY <1>8, <2>1, <2>2, ZenonT(60)
<1>10. CASE GucExecutes(g)
  <2> DEFINE to == Effect(call[g].cmd, guc[g][v])
  <2>0. guc[g][v] \in GucStates
    BY <1>0, Zenon
  <2>1. /\ guc' = IF to = "refused" THEN guc ELSE [guc EXCEPT ![g][v] = to]
        /\ call' = [call EXCEPT ![g].res = IF to = "refused" THEN "error" ELSE "ok"]
    BY <1>2, <1>3, <1>10, ZenonT(60) DEF GucExecutes
  <2>2. CASE to = "refused"
    <3>1. guc' = guc /\ call' = [call EXCEPT ![g].res = "error"]
      BY <2>1, <2>2, Zenon
    <3> QED
      BY <1>8, <3>1, Zenon
  <2>3. CASE to # "refused"
    <3>1. guc' = [guc EXCEPT ![g][v] = to] /\ call' = [call EXCEPT ![g].res = "ok"]
      BY <2>1, <2>3, Zenon
    <3>2. "ok" \in {"busy", "error", "ok"} /\ call[g].res # "ok"
      BY <1>1, Zenon
    <3>3. /\ guc'[g][v] = to
          /\ \A h \in Gts, w \in VfIds : h # g \/ w # v => guc'[h][w] = guc[h][w]
      BY <1>0, <3>1, GucSet, ZenonT(60)
    <3>4. CASE call[g].cmd = "START"
      <4>1. to = "flr" /\ guc[g][v] \notin {"flr", "done"}
        BY <2>0, <2>3, <3>4, Zenon DEF Effect
      <4>2. /\ CallsFor(g, v, "START") /\ ~CallsFor(g, v, "FINISH")
            /\ ~InFlr(g, v) /\ InFlr(g, v)' /\ guc[g][v] # "done"
        BY <1>3, <3>3, <3>4, <4>1, Zenon DEF CallsFor, InFlr
      <4>3. ASSUME call'[g].res = "ok",
                   CallsFor(g, v, "START")' <=> CallsFor(g, v, "START"),
                   CallsFor(g, v, "FINISH")' <=> CallsFor(g, v, "FINISH"),
                   StartToCome(g, v)' <=> StartToCome(g, v),
                   TokenOK(g, v), Has(g, v, "FLR_FAILED") \/ PhaseOK(g, v)
            PROVE  TokenOK(g, v)' /\ (Has(g, v, "FLR_FAILED") \/ PhaseOK(g, v)')
        <5>1. TokenOK(g, v)'
          BY <1>4, <1>5, <4>2, <4>3, ZenonT(60) DEF TokenOK
        <5>2. PhaseOK(g, v) => PhaseOK(g, v)'
          BY <1>4, <4>2, <4>3, ZenonT(60) DEF PhaseOK
        <5> QED
          BY <4>3, <5>1, <5>2, Zenon
      <4> QED
        BY <1>6, <3>1, <3>2, <3>3, <4>3, Zenon
    <3>5. CASE call[g].cmd = "FINISH"
      <4>1. to = "run"
        BY <2>0, <2>3, <3>5, ZenonT(60) DEF Effect
      <4>2. /\ ~CallsFor(g, v, "START") /\ CallsFor(g, v, "FINISH")
            /\ ~InFlr(g, v)'
        BY <1>3, <3>3, <3>5, <4>1, ZenonT(60) DEF CallsFor, InFlr
      <4>3. ASSUME call'[g].res = "ok",
                   CallsFor(g, v, "START")' <=> CallsFor(g, v, "START"),
                   CallsFor(g, v, "FINISH")' <=> CallsFor(g, v, "FINISH"),
                   StartToCome(g, v)' <=> StartToCome(g, v),
                   TokenOK(g, v), Has(g, v, "FLR_FAILED") \/ PhaseOK(g, v)
            PROVE  TokenOK(g, v)' /\ (Has(g, v, "FLR_FAILED") \/ PhaseOK(g, v)')
        <5>1. TokenOK(g, v)'
          BY <1>4, <1>5, <4>2, <4>3, ZenonT(60) DEF TokenOK
        <5>2. PhaseOK(g, v) => PhaseOK(g, v)'
          BY <1>4, <4>2, <4>3, ZenonT(60) DEF PhaseOK
        <5> QED
          BY <4>3, <5>1, <5>2, Zenon
      <4> QED
        BY <1>6, <3>1, <3>2, <3>3, <4>3, Zenon
    <3> QED
      BY <1>2, <3>4, <3>5, Zenon
  <2> QED
    BY <2>2, <2>3, Zenon
<1> QED
  BY <1>9, <1>10, Zenon

\* The GuC reports the end of its part of an FLR, or of a pause.
LEMMA DoneFlr ==
    ASSUME StateTypeOK, FlrInv, NEW g \in Gts, NEW v \in VfIds, GucDone(g, v)
    PROVE  FlrInv'
<1>0. /\ guc \in [Gts -> [VfIds -> GucStates]] /\ events \in [Gts -> Seq(Notices)]
  BY Types, Zenon
<1>1. guc[g][v] \in {"flr", "pausing"} /\ UNCHANGED <<wiped, bits, call>>
  BY Zenon DEF GucDone
<1>2. PICK e \in Notices :
        /\ e = [ev |-> IF guc[g][v] = "flr" THEN "FLR_DONE" ELSE "PAUSE_DONE", vf |-> v]
        /\ events' = [events EXCEPT ![g] = Append(events[g], e)]
  <2>1. [ev |-> IF guc[g][v] = "flr" THEN "FLR_DONE" ELSE "PAUSE_DONE", vf |-> v] \in Notices
    BY Zenon DEF Notices, Events
  <2> QED
    BY <2>1, Zenon DEF GucDone
<1>3. events'[g] = Append(events[g], e) /\ \A h \in Gts : h # g => events'[h] = events[h]
  <2>1. events' = [events EXCEPT ![g] = Append(events[g], e)]
    BY <1>2, Zenon
  <2> QED
    BY <1>0, <2>1, Zenon
<1>4. PICK x \in {"done", "paused"} :
        /\ x = IF guc[g][v] = "flr" THEN "done" ELSE "paused"
        /\ guc' = [guc EXCEPT ![g][v] = x]
  <2>1. guc' = [guc EXCEPT ![g][v] = IF guc[g][v] = "flr" THEN "done" ELSE "paused"]
    BY Zenon DEF GucDone
  <2>2. (IF guc[g][v] = "flr" THEN "done" ELSE "paused") \in {"done", "paused"}
    BY Zenon
  <2> QED
    BY <2>1, <2>2, Zenon
<1>5. guc'[g][v] = x /\ \A h \in Gts, w \in VfIds : h # g \/ w # v => guc'[h][w] = guc[h][w]
  <2>1. guc' = [guc EXCEPT ![g][v] = x]
    BY <1>4, Zenon
  <2>2. guc'[g][v] = x
    BY <1>0, <2>1, GucSet, ZenonT(60)
  <2>3. \A h \in Gts, w \in VfIds : h # g \/ w # v => guc'[h][w] = guc[h][w]
    BY <1>0, <2>1, GucSet, ZenonT(60)
  <2> QED
    BY <2>2, <2>3, Zenon
<1>6. \A w \in VfIds : w # v => e # [ev |-> "FLR_DONE", vf |-> w]
  BY <1>2, Zenon
<1>7. \A h \in Gts, w \in VfIds : h # g \/ w # v => Still(h, w)
  <2>1. \A h \in Gts, w \in VfIds : h # g => Still(h, w)
    BY <1>1, <1>3, <1>5, SameDone, QuietFlr, Zenon
  <2>2. \A w \in VfIds : w # v => NoneAdded(g, w)
    BY <1>0, <1>3, <1>6, AppendDone, Zenon
  <2>3. \A w \in VfIds : w # v => Still(g, w)
    BY <1>1, <1>5, <2>2, QuietFlr, Zenon
  <2> QED
    BY <2>1, <2>3, Zenon
<1>8. /\ Has(g, v, "FLR_IN_PROGRESS")' <=> Has(g, v, "FLR_IN_PROGRESS")
      /\ Has(g, v, "NEEDS_FLR_START")' <=> Has(g, v, "NEEDS_FLR_START")
      /\ Has(g, v, "FLR_DONE_RECEIVED")' <=> Has(g, v, "FLR_DONE_RECEIVED")
      /\ Has(g, v, "NEEDS_FLR_FINISH")' <=> Has(g, v, "NEEDS_FLR_FINISH")
      /\ Has(g, v, "FLR_FAILED")' <=> Has(g, v, "FLR_FAILED")
  BY <1>1, Zenon DEF Has
<1>9. /\ CallsFor(g, v, "START")' <=> CallsFor(g, v, "START")
      /\ CallsFor(g, v, "FINISH")' <=> CallsFor(g, v, "FINISH")
      /\ call'[g] = call[g]
  BY <1>1, Zenon DEF CallsFor
<1>10. CASE guc[g][v] = "flr"
  <2>1. e = [ev |-> "FLR_DONE", vf |-> v] /\ guc'[g][v] = "done"
    BY <1>2, <1>4, <1>5, <1>10, ZenonT(60)
  <2>2. InFlr(g, v)' /\ InFlr(g, v) /\ guc[g][v] # "done"
    BY <1>10, <2>1, Zenon DEF InFlr
  <2>3. ASSUME TokenOK(g, v)
        PROVE  TokenOK(g, v)'
    <3>1. /\ DoneAt(g, v) = {} /\ ~Has(g, v, "FLR_DONE_RECEIVED")
          /\ ~Has(g, v, "NEEDS_FLR_FINISH") /\ ~CallsFor(g, v, "FINISH")
      BY <2>2, <2>3, Zenon DEF TokenOK
    <3>2. OneDone(g, v)'
      BY <1>0, <1>3, <2>1, <3>1, AppendDone, ZenonT(60)
    <3> QED
      BY <1>8, <1>9, <2>1, <2>2, <3>1, <3>2, ZenonT(60) DEF TokenOK, OneDone
  <2>4. PhaseOK(g, v) => PhaseOK(g, v)'
    BY <1>8, <1>9, <2>2, ZenonT(60) DEF PhaseOK
  <2>5. FlrOK(g, v) => FlrOK(g, v)'
    BY <1>8, <2>3, <2>4, ZenonT(60) DEF FlrOK
  <2> QED
    BY <1>1, <1>7, <2>5, FlrFrom, ZenonT(60)
<1>11. CASE guc[g][v] = "pausing"
  <2>1. e # [ev |-> "FLR_DONE", vf |-> v]
    BY <1>2, <1>11, Zenon
  <2>2. ~InFlr(g, v) /\ ~InFlr(g, v)'
    BY <1>4, <1>5, <1>11, ZenonT(60) DEF InFlr
  <2>3. NoneAdded(g, v)
    BY <1>0, <1>3, <2>1, AppendDone, ZenonT(60)
  <2>4. Still(g, v)
    BY <1>8, <1>9, <2>2, <2>3, ZenonT(60) DEF Still, FlrBits
  <2> QED
    BY <1>1, <1>7, <2>4, FlrFrom, ZenonT(60)
<1> QED
  BY <1>1, <1>10, <1>11, Zenon

\* A resume begins again with no FLR on the gts where none was in flight.
LEMMA WakeFlr ==
    ASSUME StateTypeOK, FlrInv, SystemResume
    PROVE  FlrInv'
<1>0. call \in [Callers -> CmdCalls] /\ events \in [Gts -> Seq(Notices)]
  BY Types, Zenon
<1>1. SUFFICES ASSUME NEW g \in Gts, g \notin wiped', NEW v \in VfIds
               PROVE  FlrOK(g, v)'
  BY Zenon DEF FlrInv
<1>2. ~FlrInFlight(g)
  BY <1>1, Zenon DEF SystemResume
<1>3. events[g] = <<>> /\ call[g] = NoCall
  BY <1>2, ZenonT(60) DEF FlrInFlight
<1>4. DoneAt(g, v)' = {}
  <2>1. PICK n \in [Gts -> 0..3] :
            /\ \A h \in Gts : n[h] <= Len(events[h])
            /\ events' = [h \in Gts |-> SubSeq(events[h], 1, n[h])]
    BY Zenon DEF SystemResume
  <2>2. events'[g] = SubSeq(<<>>, 1, n[g]) /\ n[g] <= Len(<<>>) /\ n[g] \in 0..3
    BY <1>3, <2>1, Zenon
  <2>3. Len(events'[g]) = 0
    BY <2>2
  <2> QED
    BY <2>3 DEF DoneAt
<1>5. ~CallsFor(g, v, "START")' /\ ~CallsFor(g, v, "FINISH")'
  <2>1. call' = [c \in Callers |-> IF call[c].res = "sent"
                                   THEN [call[c] EXCEPT !.res = "error"] ELSE call[c]]
    BY Zenon DEF SystemResume
  <2>2. NoCall.res # "sent" /\ NoCall.cmd = "none"
    BY Zenon DEF NoCall
  <2>3. call'[g].cmd = "none"
    BY <1>3, <2>1, <2>2, Apart, Zenon
  <2> QED
    BY <2>3, Zenon DEF CallsFor
<1>6. \A b : ~Has(g, v, b)'
  <2>1. bits' = [h \in Gts |-> [w \in VfIds |-> {}]]
    BY Zenon DEF SystemResume, StateReset
  <2> QED
    BY <2>1, Zenon DEF Has
<1>7. ~InFlr(g, v)'
  <2>1. guc' = [h \in Gts |-> [w \in VfIds |-> IF Kept(h, w) THEN "paused" ELSE "run"]]
    BY Zenon DEF SystemResume
  <2>2. guc'[g][v] = "paused" \/ guc'[g][v] = "run"
    BY <2>1, Zenon
  <2> QED
    BY <2>2, Zenon DEF InFlr
<1>8. TokenOK(g, v)'
  BY <1>4, <1>5, <1>6, Zenon DEF TokenOK
<1>9. PhaseOK(g, v)'
  BY <1>5, <1>6, <1>7, Zenon DEF PhaseOK
<1> QED
  BY <1>8, <1>9, Zenon DEF FlrOK

-----------------------------------------------------------------------------
(* The invariant and the theorems.                                         *)

\* Every VF begins without an FLR.
LEMMA StateInitIInv == StateInit => StateIInv
<1> SUFFICES ASSUME StateInit
             PROVE  StateIInv
  BY Zenon
<1>1. StateTypeOK
  <2>1. /\ bits \in [Gts -> [VfIds -> SUBSET Bits]] /\ paused \in [Gts -> [VfIds -> BOOLEAN]]
        /\ wiped \subseteq Gts /\ inferred \subseteq Gts \X VfIds
    BY Zenon DEF StateInit
  <2>2. worker \in [Gts -> WorkerStates]
    <3>1. [queued |-> FALSE, more |-> FALSE, vf |-> 0] \in WorkerStates
      BY StateAssumption DEF WorkerStates
    <3> QED
      BY <3>1, Zenon DEF StateInit
  <2>3. call \in [Callers -> CmdCalls] /\ thread \in [Threads -> Places]
    BY Idles, Zenon DEF StateInit
  <2>4. guc \in [Gts -> [VfIds -> GucStates]]
    <3>1. "run" \in GucStates
      BY ZenonT(60) DEF GucStates
    <3> QED
      BY <3>1, Zenon DEF StateInit
  <2>5. events \in [Gts -> Seq(Notices)]
    BY SMTT(40) DEF StateInit
  <2>6. left \in [flr : 0..MaxFlr, acts : 0..MaxActs]
    BY StateAssumption DEF StateInit
  <2> QED
    BY <2>1, <2>2, <2>3, <2>4, <2>5, <2>6, Types, ZenonT(60)
<1>2. \A c \in Callers : call[c] = NoCall
  BY Zenon DEF StateInit
<1>3. NoCall.cmd = "none"
  BY Zenon DEF NoCall
<1>4. CallInv
  BY <1>2, <1>3, Apart, Zenon DEF CallInv
<1>5. ASSUME NEW g \in Gts, NEW v \in VfIds
      PROVE  FlrOK(g, v)
  <2>1. \A b : ~Has(g, v, b)
    BY Zenon DEF StateInit, Has
  <2>2. ~CallsFor(g, v, "START") /\ ~CallsFor(g, v, "FINISH")
    BY <1>2, <1>3, Apart, Zenon DEF CallsFor
  <2>3. ~InFlr(g, v)
    BY ZenonT(60) DEF StateInit, InFlr
  <2>4. DoneAt(g, v) = {}
    BY DEF StateInit, DoneAt
  <2>5. TokenOK(g, v)
    BY <2>1, <2>2, <2>4, Zenon DEF TokenOK
  <2>6. PhaseOK(g, v)
    BY <2>1, <2>2, <2>3, Zenon DEF PhaseOK
  <2> QED
    BY <2>5, <2>6, Zenon DEF FlrOK
<1> QED
  BY <1>1, <1>4, <1>5, ZenonT(60) DEF StateIInv, FlrInv

\* Every step keeps the types,
LEMMA TypeNext ==
    ASSUME StateTypeOK, CallInv, StateNext
    PROVE  StateTypeOK'
<1>1. CASE Step
  BY <1>1, WorkerTypes, ThreadTypes, SuspendTypes, OutsideTypes, ZenonT(60) DEF Step
<1>2. CASE Environment
  BY <1>2, SuspendTypes, OutsideTypes, ZenonT(60) DEF Environment
<1> QED
  BY <1>1, <1>2, Zenon DEF StateNext

\* and the order of every FLR.
LEMMA FlrNext ==
    ASSUME StateTypeOK, CallInv, FlrInv, StateNext
    PROVE  FlrInv'
<1>1. ASSUME NEW c \in Callers, GucExecutes(c) \/ GucRefuses(c)
      PROVE  FlrInv'
  <2>1. c \in Gts \/ c \in Threads
    BY Zenon DEF Callers
  <2> QED
    BY <1>1, <2>1, GucForThread, GucForWorker, ZenonT(60)
<1>2. ASSUME RestoreRunning
      PROVE  FlrInv'
  BY <1>2, ThreadFlr, Apart, Zenon
<1>3. CASE Step
  BY <1>1, <1>2, <1>3, IdleFlr, ProcessFlr, AnswerFlr, EventFlr, ThreadFlr, WakeFlr,
     DoneFlr, ZenonT(60) DEF Step
<1>4. CASE Environment
  BY <1>1, <1>4, IdleFlr, DisableFlr, PciFlrOK, ZenonT(60) DEF Environment
<1> QED
  BY <1>3, <1>4, Zenon DEF StateNext

\* A step that changes nothing keeps all of it.
LEMMA StateStutter ==
    ASSUME StateIInv, UNCHANGED state_vars
    PROVE  StateIInv'
<1>1. /\ bits' = bits /\ paused' = paused /\ worker' = worker /\ call' = call
      /\ thread' = thread /\ guc' = guc /\ events' = events /\ left' = left
      /\ wiped' = wiped /\ inferred' = inferred
  BY Zenon DEF state_vars
<1>2. StateTypeOK'
  BY <1>1, Zenon DEF StateIInv, StateTypeOK
<1>3. CallInv'
  BY <1>1, Zenon DEF StateIInv, CallInv
<1>4. \A g \in Gts, v \in VfIds : Still(g, v)
  BY <1>1, SameDone, QuietFlr, Zenon
<1>5. FlrInv'
  BY <1>1, <1>4, FlrFrom, Zenon DEF StateIInv
<1> QED
  BY <1>2, <1>3, <1>5, Zenon DEF StateIInv

\* The invariant holds in every reachable state.
LEMMA StateAlways == StateSpec => []StateIInv
<1>1. StateIInv /\ [StateNext]_state_vars => StateIInv'
  <2>1. ASSUME StateIInv, StateNext
        PROVE  StateIInv'
    BY <2>1, TypeNext, CallNext, FlrNext, ZenonT(60) DEF StateIInv
  <2> QED
    BY <2>1, StateStutter, Zenon
<1> QED
  BY <1>1, StateInitIInv, PTL DEF StateSpec

\* The worker walks the VFs and never past the last (pf_process_all_vfs), and
\* every other part of the state has its type.
THEOREM StateTypeCorrect == StateSpec => []StateTypeOK
<1>1. StateIInv => StateTypeOK
  BY Zenon DEF StateIInv
<1> QED
  BY <1>1, StateAlways, PTL

\* The PF and the GuC go through an FLR in step (pf_process_vf): the worker's
\* command is a FINISH exactly when the GuC has started the FLR of that VF, and
\* then the GuC is done with its part.
THEOREM FlrStaysInStep == StateSpec => []FlrInStep
<1>1. ASSUME StateIInv
      PROVE  FlrInStep
  <2>0. StateTypeOK /\ CallInv /\ FlrInv /\ call \in [Callers -> CmdCalls]
    BY <1>1, Types, Zenon DEF StateIInv
  <2>1. ASSUME NEW g \in Gts, call[g].res = "sent", ~Has(g, call[g].vf, "FLR_FAILED"),
               g \notin wiped
        PROVE  /\ call[g].cmd = "FINISH" <=> guc[g][call[g].vf] \in {"flr", "done"}
               /\ guc[g][call[g].vf] # "flr"
    <3>1. PICK v \in VfIds : v = call[g].vf
      BY <2>0, Apart, ZenonT(60) DEF CmdCalls
    <3>2. call[g] # NoCall
      BY <2>1 DEF NoCall
    <3>3. call[g].cmd \in {"START", "FINISH"}
      BY <2>0, <3>2, Zenon DEF CallInv
    <3>4. TokenOK(g, v) /\ PhaseOK(g, v)
      BY <2>0, <2>1, <3>1, ZenonT(60) DEF FlrInv, FlrOK
    <3>5. CASE call[g].cmd = "START"
      <4>1. ~InFlr(g, v)
        BY <2>1, <3>1, <3>4, <3>5, ZenonT(60) DEF PhaseOK, CallsFor
      <4> QED
        BY <3>1, <3>5, <4>1, Zenon DEF InFlr
    <3>6. CASE call[g].cmd = "FINISH"
      <4>1. guc[g][v] = "done"
        BY <2>1, <3>1, <3>4, <3>6, ZenonT(60) DEF TokenOK, CallsFor
      <4> QED
        BY <3>1, <3>6, <4>1, Zenon
    <3> QED
      BY <3>3, <3>5, <3>6, ZenonT(60)
  <2> QED
    BY <2>0, <2>1, Zenon DEF FlrInStep
<1> QED
  BY <1>1, StateAlways, PTL

\* Only a step that handles the first event of the root gt, or a resume, takes
\* events away.
LEMMA Shorter ==
    ASSUME StateTypeOK, StateNext, Len(events'[Root]) < Len(events[Root])
    PROVE  HandleEvent(Root) \/ SystemResume
<1>0. events \in [Gts -> Seq(Notices)] /\ Root \in Gts /\ Len(events[Root]) \in Nat
  <2>1. events \in [Gts -> Seq(Notices)] /\ Root \in Gts
    BY Types, Apart, Zenon
  <2> QED
    BY <2>1
<1>1. events' # events
  BY <1>0, SMTT(40)
<1>2. ASSUME NEW g \in Gts, NEW e, events' = [events EXCEPT ![g] = Append(events[g], e)]
      PROVE  FALSE
  <2>1. events'[Root] = events[Root] \/ events'[Root] = Append(events[Root], e)
    BY <1>0, <1>2, Zenon
  <2>2. events[Root] \in Seq(Notices) /\ Len(Append(events[Root], e)) = Len(events[Root]) + 1
    BY <1>0, SMTT(40)
  <2> QED
    BY <1>0, <2>1, <2>2, SMTT(40)
<1>3. ASSUME NEW g \in Gts, g # Root, HandleEvent(g)
      PROVE  FALSE
  <2>1. events' = [events EXCEPT ![g] = Tail(events[g])]
    BY <1>3, Zenon DEF HandleEvent
  <2>2. events'[Root] = events[Root]
    BY <1>0, <1>3, <2>1, ZenonT(60)
  <2> QED
    BY <1>0, <2>2, SMTT(40)
<1>4. CASE Step
  <2>1. \A g \in Gts, v \in VfIds : ~GucDone(g, v)
    BY <1>2, Zenon DEF GucDone
  <2> QED
    BY <1>1, <1>3, <1>4, <2>1, ZenonT(60) DEF Step, WorkerStart, ProcessVf, WorkerAnswered,
       PauseCheck, Command, ThreadAnswered, PauseSync, PauseWaited, RestoreRunning, GucExecutes
<1>5. CASE Environment
  <2>1. \A v \in VfIds : ~PciFlr(v)
    BY <1>2, Apart, Zenon DEF PciFlr
  <2> QED
    BY <1>1, <1>5, <2>1, ZenonT(60) DEF Environment, Control, DisableVfs, GucRefuses,
       SuspendPrepare
<1> QED
  BY <1>4, <1>5, Zenon DEF StateNext

\* pf_init_vf_flr() drops the notification of an FLR that is still to be started
\* only while the worker is on the FINISH of the FLR before.
THEOREM OnlyFinishDrops == StateSpec => DropOnlyAtFinish
<1> DEFINE Drops(v) ==
        /\ events[Root] # <<>>
        /\ Len(events'[Root]) < Len(events[Root])
        /\ Head(events[Root]) = [ev |-> "FLR", vf |-> v]
        /\ guc[Root][v] = "notified"
        /\ ~StartToCome(Root, v)'
<1>1. ASSUME StateIInv, StateNext, NEW v \in VfIds, Drops(v)
      PROVE  (call[Root].cmd = "FINISH" /\ call[Root].vf = v) \/ Root \in wiped'
  <2>0. /\ StateTypeOK /\ FlrInv /\ Root \in Gts
        /\ bits \in [Gts -> [VfIds -> SUBSET Bits]] /\ worker \in [Gts -> WorkerStates]
    BY <1>1, Apart, Types, Zenon DEF StateIInv
  <2>1. HandleEvent(Root) \/ SystemResume
    BY <1>1, <2>0, Shorter, Zenon
  <2>2. CASE SystemResume
    <3>1. FlrInFlight(Root)
      BY <1>1, Zenon DEF FlrInFlight
    <3> QED
      BY <2>0, <2>2, <3>1, Zenon DEF SystemResume
  <2>3. CASE HandleEvent(Root)
    <3>1. InitVfFlr({v}) /\ call' = call /\ wiped' = wiped
      <4>1. Head(events[Root]).ev = "FLR" /\ Head(events[Root]).vf = v
        BY <1>1
      <4> QED
        BY <2>3, <4>1, ZenonT(60) DEF HandleEvent
    <3>2. bits'[Root][v] = IF v \in {v} /\ NoFlr(Root, v)
                           THEN bits[Root][v] \cup {"FLR_IN_PROGRESS", "NEEDS_FLR_START"}
                           ELSE bits[Root][v]
      <4>1. {v} \in SUBSET VfIds
        BY Zenon
      <4> QED
        BY <2>0, <3>1, <4>1, StartBits, Zenon
    <3>3. ~Has(Root, v, "NEEDS_FLR_START")'
      BY <1>1, Zenon DEF StartToCome
    <3>4. bits'[Root][v] = bits[Root][v] /\ Has(Root, v, "FLR_IN_PROGRESS")
      BY <3>2, <3>3, Zenon DEF Has, NoFlr
    <3>5. ~StartToCome(Root, v)
      BY <1>1, <3>1, <3>4, Zenon DEF StartToCome, Has
    <3>6. ~InFlr(Root, v)
      BY <1>1, Zenon DEF InFlr
    <3>7. Root \in wiped \/ TokenOK(Root, v)
      BY <2>0, Zenon DEF FlrInv, FlrOK
    <3> QED
      BY <3>1, <3>4, <3>5, <3>6, <3>7, ZenonT(60) DEF TokenOK, CallsFor
  <2> QED
    BY <2>1, <2>2, <2>3, Zenon
<1>2. StateIInv /\ [StateNext]_state_vars =>
        [\A v \in VfIds : Drops(v)
            => (call[Root].cmd = "FINISH" /\ call[Root].vf = v) \/ Root \in wiped']_state_vars
  BY <1>1, Zenon
<1> QED
  BY <1>2, StateAlways, PTL DEF StateSpec, DropOnlyAtFinish

-----------------------------------------------------------------------------
(* The inductive invariant, and the steps of a caller.                     *)

\* The messages under way on a link.
On(l) == {chan[l][i] : i \in 1..Len(chan[l])}

\* A message goes from its caller to its target if it is a request, and back
\* otherwise.
Route(m) == IF m.type = "request" THEN <<Caller[m.of], Target[m.of]>>
                                  ELSE <<Target[m.of], Caller[m.of]>>

\* A message belongs to a call that was made, a reply was given to that call,
\* and no other running call of the same node has its fence.
Sound(m) ==
    /\ m \in Messages
    /\ pc[m.of] # "idle"
    /\ m.type = "ok" => <<m.of, m.body>> \in served
    /\ \A c \in Calls :
          Active(c) /\ Caller[c] = Caller[m.of] /\ fence[c] = m.fence
          => c = m.of

MsgInv ==
    /\ \A l \in Links : \A m \in On(l) : Route(m) = l /\ Sound(m)
    /\ \A m \in owed : m.type = "request" /\ Sound(m)

\* What a call has in its buffer was given to that call, and a success is
\* only reported with the buffer filled.
BufInv ==
    \A c \in Calls : /\ buf[c] # None => <<c, buf[c]>> \in served
                     /\ reply[c] = "ok" \/ ret[c] = "ok" => buf[c] # None

\* Running calls of a node have fences of their own.
FenceInv ==
    /\ \A c \in Calls : Active(c) => fence[c] \in 1..FenceMax
    /\ \A c, d \in Calls :
          Active(c) /\ Active(d) /\ Caller[c] = Caller[d] /\ fence[c] = fence[d]
          => c = d

IInv == TypeOK /\ PendingAlive /\ FenceInv /\ BufInv /\ MsgInv
-----------------------------------------------------------------------------
(* Messages and channels.                                                  *)

\* What the fields of a message are.
LEMMA MessageFields ==
    ASSUME NEW m \in Messages
    PROVE  /\ m.of \in Calls /\ m.fence \in 1..FenceMax
           /\ m.type \in {"request", "ok", "fail", "busy", "retry"}
           /\ m.type = "ok" => m.body \in Replies
BY Zenon DEF Messages

\* The messages the relay builds are of their type.
LEMMA MessageMade ==
    ASSUME NEW c \in Calls, NEW f \in 1..FenceMax
    PROVE  /\ \A r \in Requests : Message("request", f, c, r) \in Messages
           /\ \A v \in Replies : Message("ok", f, c, v) \in Messages
           /\ \A t \in {"fail", "busy", "retry"} :
                 Message(t, f, c, None) \in Messages
BY Zenon DEF Messages, Message

\* The way back of a link is a link.
LEMMA LinkBack ==
    ASSUME NEW l \in Links
    PROVE  /\ Back(l) \in Links /\ l = <<l[1], l[2]>>
           /\ l[1] \in Nodes /\ l[2] \in Nodes
BY DEF Links, Back, Nodes

\* A call uses a link and its way back.
LEMMA CallLinks ==
    ASSUME NEW c \in Calls
    PROVE  /\ <<Caller[c], Target[c]>> \in Links
           /\ <<Target[c], Caller[c]>> \in Links
<1>1. <<Caller[c], Target[c]>> \in Links
  BY RelayAssumption, Zenon
<1> QED BY <1>1, Zenon DEF Links

\* What taking the first entry of a list, and adding one at its end, leave.
LEMMA HeadTailFacts ==
    ASSUME NEW S, NEW s \in Seq(S), s # <<>>
    PROVE  /\ Head(s) = s[1] /\ Head(s) \in S /\ Tail(s) \in Seq(S)
           /\ Len(s) \in Nat \ {0} /\ Len(Tail(s)) = Len(s) - 1
           /\ \A i \in 1..Len(Tail(s)) : Tail(s)[i] = s[i + 1]
  OBVIOUS

\* What appending a message does to a channel.
LEMMA AppendFacts ==
    ASSUME NEW S, NEW s \in Seq(S), NEW e \in S
    PROVE  /\ Append(s, e) \in Seq(S)
           /\ Len(Append(s, e)) = Len(s) + 1
           /\ \A i \in 1..Len(s) : Append(s, e)[i] = s[i]
           /\ Append(s, e)[Len(s) + 1] = e
  OBVIOUS

\* Taking the first message of a link leaves only messages that were there.
LEMMA TakeFirst ==
    ASSUME NEW ch \in [Links -> Seq(Messages)], NEW l \in Links, ch[l] # <<>>
    PROVE  LET new == [ch EXCEPT ![l] = Tail(@)] IN
           /\ new \in [Links -> Seq(Messages)]
           /\ Head(ch[l]) = ch[l][1] /\ Head(ch[l]) \in Messages
           /\ 1 \in 1..Len(ch[l])
           /\ \A k \in Links : \A i \in 1..Len(new[k]) :
                 \E j \in 1..Len(ch[k]) : new[k][i] = ch[k][j]
<1> DEFINE new == [ch EXCEPT ![l] = Tail(@)]
<1>1. ch[l] \in Seq(Messages)
  BY Zenon
<1>2. /\ Head(ch[l]) \in Messages /\ Tail(ch[l]) \in Seq(Messages)
      /\ Len(Tail(ch[l])) = Len(ch[l]) - 1
      /\ \A i \in 1..Len(Tail(ch[l])) : Tail(ch[l])[i] = ch[l][i+1]
  BY <1>1, HeadTailFacts, Zenon
<1>3. Head(ch[l]) = ch[l][1] /\ Len(ch[l]) \in Nat /\ Len(ch[l]) # 0
  BY <1>1, HeadTailFacts, Zenon
<1>4. \A k \in Links : \A i \in 1..Len(new[k]) :
          \E j \in 1..Len(ch[k]) : new[k][i] = ch[k][j]
  <2> TAKE k \in Links
  <2> TAKE i \in 1..Len(new[k])
  <2>1. CASE k = l
    <3>1. new[k] = Tail(ch[l])
      BY <2>1, Zenon
    <3>2. i \in 1..Len(Tail(ch[l]))
      BY <3>1, Zenon
    <3>3. i + 1 \in 1..Len(ch[l]) /\ Tail(ch[l])[i] = ch[l][i + 1]
      BY <3>2, <1>2, <1>3
    <3> QED BY <3>1, <3>3, <2>1, Zenon
  <2>2. CASE k # l
    BY <2>2, Zenon
  <2> QED BY <2>1, <2>2, Zenon
<1>5. new \in [Links -> Seq(Messages)]
  BY <1>2, Zenon
<1> QED BY <1>2, <1>3, <1>4, <1>5

\* relay_send() adds its message at the end of one link and nowhere else.
LEMMA SendLast ==
    ASSUME NEW ch \in [Links -> Seq(Messages)], NEW l \in Links,
           NEW m \in Messages
    PROVE  LET new == RelaySend(ch, l, m) IN
           /\ new \in [Links -> Seq(Messages)]
           /\ \A k \in Links : \A i \in 1..Len(new[k]) :
                 \/ k = l /\ new[k][i] = m
                 \/ \E j \in 1..Len(ch[k]) : new[k][i] = ch[k][j]
<1> DEFINE new == RelaySend(ch, l, m)
<1>1. ch[l] \in Seq(Messages) /\ Len(ch[l]) \in Nat
  OBVIOUS
<1>2. /\ Append(ch[l], m) \in Seq(Messages)
      /\ Len(Append(ch[l], m)) = Len(ch[l]) + 1
      /\ \A i \in 1..Len(ch[l]) : Append(ch[l], m)[i] = ch[l][i]
      /\ Append(ch[l], m)[Len(ch[l]) + 1] = m
  BY <1>1, AppendFacts
<1>3. \A k \in Links : \A i \in 1..Len(new[k]) :
          \/ k = l /\ new[k][i] = m
          \/ \E j \in 1..Len(ch[k]) : new[k][i] = ch[k][j]
  <2> TAKE k \in Links
  <2> TAKE i \in 1..Len(new[k])
  <2>1. CASE k = l
    <3>1. new[k] = Append(ch[l], m)
      BY <2>1, Zenon DEF RelaySend
    <3>2. i \in 1..Len(ch[l]) \/ i = Len(ch[l]) + 1
      BY <3>1, <1>1, <1>2
    <3> QED BY <3>1, <3>2, <1>2, <2>1, Zenon
  <2>2. CASE k # l
    BY <2>2, Zenon DEF RelaySend
  <2> QED BY <2>1, <2>2, Zenon
<1>4. new \in [Links -> Seq(Messages)]
  BY <1>2, Zenon DEF RelaySend
<1> QED BY <1>3, <1>4, Zenon

-----------------------------------------------------------------------------
(* Steps that start no call.                                               *)

\* No call is started anew, nothing that was served is forgotten.
Quiet ==
    /\ \A c \in Calls : pc[c] # "idle" => pc'[c] # "idle"
    /\ \A c \in Calls : Active(c)' => Active(c) /\ fence'[c] = fence[c]
    /\ served \subseteq served'

\* A sound message stays sound in a quiet step.
LEMMA SoundKept ==
    ASSUME Quiet, NEW m, Sound(m)
    PROVE  Sound(m)'
<1>1. m.of \in Calls
  BY MessageFields, Zenon DEF Sound
<1>2. ASSUME NEW c \in Calls, Active(c)', Caller[c] = Caller[m.of],
             fence'[c] = m.fence
      PROVE  c = m.of
  BY <1>2, Zenon DEF Quiet, Sound
<1> QED BY <1>1, <1>2, Zenon DEF Sound, Quiet, Active

\* A quiet step gives no two active calls of a node the same fence.
LEMMA FenceKept ==
    ASSUME Quiet, FenceInv
    PROVE  FenceInv'
BY Zenon DEF Quiet, FenceInv, Active

\* If every message that is under way or owed was so before, or is sound and
\* on its way, the messages are in order.
LEMMA MsgKept ==
    ASSUME IInv, Quiet,
           \A k \in Links : \A m \in On(k)' :
              m \in On(k) \/ (Route(m) = k /\ Sound(m)'),
           \A m \in owed' : m \in owed \/ (m.type = "request" /\ Sound(m)')
    PROVE  MsgInv'
<1>1. ASSUME NEW k \in Links, NEW m \in On(k)'
      PROVE  Route(m)' = k /\ Sound(m)'
  <2>1. CASE m \in On(k)
    <3>1. Route(m) = k /\ Sound(m)
      BY <2>1, Zenon DEF IInv, MsgInv
    <3> QED BY <3>1, SoundKept, Zenon DEF Route
  <2>2. CASE Route(m) = k /\ Sound(m)'
    BY <2>2, Zenon DEF Route
  <2> QED BY <1>1, <2>1, <2>2, Zenon
<1>2. ASSUME NEW m \in owed'
      PROVE  m.type = "request" /\ Sound(m)'
  BY <1>2, SoundKept, Zenon DEF IInv, MsgInv
<1> QED BY <1>1, <1>2, Zenon DEF MsgInv

\* The same for a step that touches no message.
LEMMA MsgUnchanged ==
    ASSUME IInv, Quiet, UNCHANGED <<chan, owed>>
    PROVE  MsgInv'
BY MsgKept, Zenon DEF On

-----------------------------------------------------------------------------
(* The invariant is inductive.                                             *)

\* The invariant holds initially.
LEMMA InitInv == Init => IInv
<1> SUFFICES ASSUME Init PROVE IInv
  BY Zenon
<1>1. TypeOK
  BY RelayAssumption DEF Init, TypeOK, Codes
<1>2. PendingAlive /\ FenceInv /\ BufInv
  BY Zenon DEF Init, PendingAlive, FenceInv, BufInv, Active
<1>3. MsgInv
  BY DEF Init, MsgInv, On
<1> QED BY <1>1, <1>2, <1>3, Zenon DEF IInv

\* The steps of a call that touch no message and no fence.
LEMMA WaitInv ==
    ASSUME IInv, NEW c \in Calls, Wait(c)
    PROVE  IInv'
<1> USE DEF IInv
<1>1. CASE AddPending(c)
  <2>1. Quiet /\ UNCHANGED <<chan, owed>>
    BY <1>1, Zenon DEF AddPending, Quiet, Active, TypeOK, frame, peer
  <2>2. TypeOK' /\ PendingAlive' /\ BufInv'
    BY <1>1, Zenon
       DEF AddPending, TypeOK, PendingAlive, BufInv, Active, frame, peer
  <2> QED BY <2>1, <2>2, FenceKept, MsgUnchanged, Zenon
<1>2. CASE Wake(c)
  <2>1. Quiet /\ UNCHANGED <<chan, owed>>
    BY <1>2, Zenon DEF Wake, Quiet, Active, TypeOK, frame, peer
  <2>2. TypeOK' /\ PendingAlive' /\ BufInv'
    BY <1>2, Zenon DEF Wake, TypeOK, PendingAlive, BufInv, Active, frame, peer
  <2> QED BY <2>1, <2>2, FenceKept, MsgUnchanged, Zenon
<1>3. CASE Timeout(c)
  <2>1. Quiet /\ UNCHANGED <<chan, owed>>
    BY <1>3, Zenon DEF Timeout, Quiet, Active, TypeOK, peer
  <2>2. TypeOK' /\ PendingAlive' /\ BufInv'
    BY <1>3, Zenon DEF Timeout, TypeOK, PendingAlive, BufInv, Active, peer
  <2> QED BY <2>1, <2>2, FenceKept, MsgUnchanged, Zenon
<1>4. CASE Check(c)
  <2>1. Quiet /\ UNCHANGED <<chan, owed>>
    BY <1>4, Zenon DEF Check, Quiet, Active, TypeOK, peer
  <2>2. TypeOK' /\ PendingAlive' /\ BufInv'
    BY <1>4, ZenonT(60) DEF Check, TypeOK, PendingAlive, BufInv, Active, peer
  <2> QED BY <2>1, <2>2, FenceKept, MsgUnchanged, Zenon
<1>5. CASE Reinit(c)
  <2>1. Quiet /\ UNCHANGED <<chan, owed>>
    BY <1>5, Zenon DEF Reinit, Quiet, Active, TypeOK, peer
  <2>2. TypeOK' /\ PendingAlive' /\ BufInv'
    BY <1>5, Zenon DEF Reinit, TypeOK, PendingAlive, BufInv, Active, peer
  <2> QED BY <2>1, <2>2, FenceKept, MsgUnchanged, Zenon
<1>6. CASE Decide(c)
  <2>1. PICK code \in {seen[c], reply[c]} :
           /\ pc' = [pc EXCEPT ![c] = CASE code = "retry" -> "send"
                                        [] code = "busy" -> "wait"
                                        [] OTHER -> "unlink"]
           /\ ret' = [ret EXCEPT ![c] = CASE code = "ok" -> "empty"
                                          [] code \in {"error", "none"} -> "error"
                                          [] OTHER -> @]
    BY <1>6, Zenon DEF Decide
  <2>2. pc'[c] \in {"send", "wait", "unlink"} /\ \A d \in Calls \ {c} : pc'[d] = pc[d]
    BY <2>1, Zenon DEF TypeOK
  <2>3. /\ ret'[c] \in {"empty", "error", ret[c]}
        /\ \A d \in Calls \ {c} : ret'[d] = ret[d]
    BY <2>1, Zenon DEF TypeOK
  <2>4. Quiet /\ UNCHANGED <<chan, owed>>
    BY <1>6, <2>2, Zenon DEF Decide, Quiet, Active, TypeOK, peer
  <2>5. /\ pc' \in [Calls -> {"idle", "add", "send", "wait", "check", "reinit",
                              "decide", "unlink", "done"}]
        /\ ret' \in [Calls -> {"none", "ok", "error", "empty"}]
    BY <2>1, <2>2, <2>3, Zenon DEF TypeOK
  <2>6. TypeOK' /\ PendingAlive' /\ BufInv'
    BY <1>6, <2>2, <2>3, <2>5, ZenonT(60)
       DEF Decide, TypeOK, PendingAlive, BufInv, Active, peer
  <2> QED BY <2>4, <2>6, FenceKept, MsgUnchanged, Zenon
<1>7. CASE Unlink(c)
  <2>1. Quiet /\ UNCHANGED <<chan, owed>>
    BY <1>7, Zenon DEF Unlink, Quiet, Active, TypeOK, peer
  <2>2. TypeOK' /\ PendingAlive' /\ BufInv'
    BY <1>7, RelayAssumption, SMTT(40) DEF Unlink, TypeOK, PendingAlive, BufInv, Active, peer, Codes
  <2> QED BY <2>1, <2>2, FenceKept, MsgUnchanged, Zenon
<1> QED BY <1>1, <1>2, <1>3, <1>4, <1>5, <1>6, <1>7, Zenon DEF Wait

\* A call that starts takes a fence nobody of its node has a message or a call
\* for.
LEMMA GetNextFenceInv ==
    ASSUME IInv, NEW c \in Calls, GetNextFence(c)
    PROVE  IInv'
<1> DEFINE f == NextFence(last[Caller[c]])
<1>0. Caller[c] \in Nodes /\ last[Caller[c]] \in 0..FenceMax
  BY RelayAssumption, Zenon DEF IInv, TypeOK
<1>1. f \in 1..FenceMax /\ Recycled(Caller[c], f)
  <2>1. f \in 1..FenceMax
    BY <1>0, RelayAssumption DEF NextFence
  <2>2. Recycled(Caller[c], f)
    BY Zenon DEF GetNextFence
  <2> QED BY <2>1, <2>2, Zenon
<1>2. /\ fence' = [fence EXCEPT ![c] = f] /\ pc' = [pc EXCEPT ![c] = "add"]
      /\ pc[c] = "idle" /\ last' = [last EXCEPT ![Caller[c]] = f]
      /\ UNCHANGED <<pending, done, reply, buf, seen, ret, chan, owed, putoffs, served>>
  BY Zenon DEF GetNextFence, peer
<1> HIDE DEF f
<1>3. TypeOK' /\ PendingAlive' /\ BufInv'
  <2>1. f \in 0..FenceMax
    BY <1>1
  <2>2. TypeOK'
    BY <1>0, <1>2, <2>1, Zenon DEF IInv, TypeOK
  <2>3. PendingAlive' /\ BufInv'
    BY <1>2, Zenon DEF IInv, TypeOK, PendingAlive, BufInv, Active
  <2> QED BY <2>2, <2>3, Zenon
<1>4. ASSUME NEW d \in Calls, d # c
      PROVE  (Active(d)' <=> Active(d)) /\ fence'[d] = fence[d]
  BY <1>2, <1>4, Zenon DEF IInv, TypeOK, Active
<1>5. FenceInv'
  <2>1. fence'[c] = f
    BY <1>2, Zenon DEF IInv, TypeOK
  <2>2. ASSUME NEW d \in Calls, d # c, Active(d), Caller[d] = Caller[c]
        PROVE  fence[d] # f
    BY <1>1, <2>2, Zenon DEF Recycled
  <2>3. \A d \in Calls : Active(d)' => fence'[d] \in 1..FenceMax
    BY <1>1, <1>4, <2>1, Zenon DEF IInv, FenceInv
  <2>4. ASSUME NEW d \in Calls, NEW e \in Calls, Active(d)', Active(e)',
               Caller[d] = Caller[e], fence'[d] = fence'[e]
        PROVE  d = e
    BY <1>4, <2>1, <2>2, <2>4, Zenon DEF IInv, FenceInv
  <2> QED BY <2>3, <2>4, Zenon DEF FenceInv
<1>6. ASSUME NEW m, Sound(m), m \in InFlight \cup owed
      PROVE  Sound(m)'
  <2>1. m \in Messages /\ m.of \in Calls
    BY <1>6, MessageFields, Zenon DEF Sound
  <2>2. Caller[m.of] = Caller[c] => m.fence # f
    BY <1>1, <1>6, Zenon DEF Recycled
  <2>3. ASSUME NEW d \in Calls, Active(d)', Caller[d] = Caller[m.of],
               fence'[d] = m.fence
        PROVE  d = m.of
    <3>1. CASE d = c
      BY <1>2, <2>2, <2>3, <3>1, Zenon DEF IInv, TypeOK
    <3>2. CASE d # c
      BY <1>4, <1>6, <2>3, <3>2, Zenon DEF Sound
    <3> QED BY <3>1, <3>2, Zenon
  <2>4. pc'[m.of] # "idle"
    BY <1>2, <1>6, <2>1, Zenon DEF IInv, TypeOK, Sound
  <2>5. m.type = "ok" => <<m.of, m.body>> \in served'
    BY <1>2, <1>6, Zenon DEF Sound
  <2> QED BY <2>1, <2>3, <2>4, <2>5, Zenon DEF Sound, Active
<1>7. MsgInv'
  <2>1. \A l \in Links : On(l)' = On(l) /\ On(l) \subseteq InFlight
    BY <1>2, Zenon DEF On, InFlight
  <2>2. ASSUME NEW l \in Links, NEW m \in On(l)
        PROVE  Route(m)' = l /\ Sound(m)'
    <3>1. m \in InFlight \cup owed /\ Route(m) = l /\ Sound(m)
      BY <2>1, <2>2, Zenon DEF IInv, MsgInv
    <3> QED BY <3>1, <1>6, Zenon DEF Route
  <2>3. ASSUME NEW m \in owed
        PROVE  m.type = "request" /\ Sound(m)'
    BY <1>6, <2>3, Zenon DEF IInv, MsgInv
  <2> QED BY <1>2, <2>1, <2>2, <2>3, Zenon DEF MsgInv
<1> QED BY <1>3, <1>5, <1>7, Zenon DEF IInv

\* A new message of a call that has its fence is sound.
LEMMA NewSound ==
    ASSUME IInv, NEW c \in Calls, NEW f \in 1..FenceMax, pc'[c] # "idle",
           \A d \in Calls : Active(d)' /\ Caller[d] = Caller[c] /\ fence'[d] = f
                             => d = c
    PROVE  /\ \A r \in Requests : Sound(Message("request", f, c, r))'
           /\ \A t \in {"fail", "busy", "retry"} : Sound(Message(t, f, c, None))'
           /\ \A v \in Replies : <<c, v>> \in served'
                                 => Sound(Message("ok", f, c, v))'
<1>1. ASSUME NEW t, NEW b, Message(t, f, c, b) \in Messages,
             t = "ok" => <<c, b>> \in served'
      PROVE  Sound(Message(t, f, c, b))'
  <2>1. /\ Message(t, f, c, b).of = c /\ Message(t, f, c, b).fence = f
        /\ Message(t, f, c, b).type = t /\ Message(t, f, c, b).body = b
    BY Zenon DEF Message
  <2> QED BY <1>1, <2>1, Zenon DEF Sound, Active, Message
<1>2. ASSUME NEW r \in Requests PROVE Sound(Message("request", f, c, r))'
  BY <1>1, MessageMade, Zenon
<1>3. ASSUME NEW t \in {"fail", "busy", "retry"} PROVE Sound(Message(t, f, c, None))'
  BY <1>1, MessageMade, Zenon
<1>4. ASSUME NEW v \in Replies, <<c, v>> \in served'
      PROVE  Sound(Message("ok", f, c, v))'
  BY <1>1, <1>4, MessageMade, Zenon
<1> QED BY <1>2, <1>3, <1>4, Zenon

\* Sending the request keeps it.
LEMMA SendInv ==
    ASSUME IInv, NEW c \in Calls, NEW r \in Requests, Send(c, r)
    PROVE  IInv'
<1>1. Quiet /\ UNCHANGED owed
  BY Zenon DEF Send, IInv, TypeOK, Quiet, Active, peer
<1>2. fence[c] \in 1..FenceMax /\ Active(c) /\ pc'[c] # "idle"
  BY Zenon DEF IInv, FenceInv, Send, Active, TypeOK
<1>3. PendingAlive' /\ BufInv'
  BY ZenonT(60) DEF Send, IInv, TypeOK, PendingAlive, BufInv, Active, peer
<1>4. /\ pc' \in [Calls -> {"idle", "add", "send", "wait", "check", "reinit",
                            "decide", "unlink", "done"}]
      /\ ret' \in [Calls -> {"none", "ok", "error", "empty"}]
      /\ UNCHANGED <<last, pending, fence, done, reply, buf, seen, owed, putoffs, served>>
  BY Zenon DEF Send, IInv, TypeOK, peer
<1>5. CASE UNCHANGED chan
  <2>1. TypeOK'
    BY <1>4, <1>5, Zenon DEF IInv, TypeOK
  <2> QED BY <1>1, <1>3, <1>5, <2>1, FenceKept, MsgUnchanged, Zenon DEF IInv
<1>6. CASE chan' = RelaySend(chan, <<Caller[c], Target[c]>>,
                             Message("request", fence[c], c, r))
  <2> DEFINE m == Message("request", fence[c], c, r)
             l == <<Caller[c], Target[c]>>
  <2>1. m \in Messages /\ l \in Links /\ Route(m) = l
    <3>1. m \in Messages /\ l \in Links
      BY <1>2, MessageMade, CallLinks, Zenon
    <3>2. m.type = "request" /\ m.of = c
      BY Zenon DEF Message
    <3> QED BY <3>1, <3>2, Zenon DEF Route
  <2>2. ASSUME NEW x, x = m
        PROVE  Sound(x)'
    <3>1. PICK f \in 1..FenceMax : f = fence[c]
      BY <1>2, Zenon
    <3>2. \A d \in Calls : Active(d)' /\ Caller[d] = Caller[c] /\ fence'[d] = f
                            => d = c
      BY <1>1, <1>2, <3>1, Zenon DEF Quiet, IInv, FenceInv
    <3>3. Sound(Message("request", f, c, r))'
      BY <1>2, <3>2, NewSound, Zenon
    <3> QED BY <2>2, <3>1, <3>3, Zenon
  <2> HIDE DEF m, l
  <2>3. /\ chan' \in [Links -> Seq(Messages)]
        /\ \A k \in Links : \A i \in 1..Len(chan'[k]) :
              \/ k = l /\ chan'[k][i] = m
              \/ \E j \in 1..Len(chan[k]) : chan'[k][i] = chan[k][j]
    <3>1. chan \in [Links -> Seq(Messages)] /\ chan' = RelaySend(chan, l, m)
      BY <1>6, Zenon DEF IInv, TypeOK, m, l
    <3> QED BY <2>1, <3>1, SendLast
  <2>4. \A k \in Links : \A x \in On(k)' : x \in On(k) \/ (x = m /\ k = l)
    BY <2>3 DEF On
  <2>5. TypeOK'
    BY <1>4, <2>3, Zenon DEF IInv, TypeOK
  <2> QED BY <1>1, <1>3, <2>1, <2>2, <2>4, <2>5, FenceKept, MsgKept, Zenon
     DEF IInv
<1> QED BY <1>5, <1>6, Zenon DEF Send

\* The first message of a link is a sound one.
LEMMA HeadSound ==
    ASSUME IInv, NEW l \in Links, chan[l] # <<>>
    PROVE  Head(chan[l]) \in On(l) /\ Route(Head(chan[l])) = l /\ Sound(Head(chan[l]))
<1>1. Head(chan[l]) = chan[l][1] /\ 1 \in 1..Len(chan[l])
  BY TakeFirst, Zenon DEF IInv, TypeOK
<1> QED BY <1>1, Zenon DEF On, IInv, MsgInv

-----------------------------------------------------------------------------
(* A request is served once.                                               *)

\* The messages that carry the turn of their call.
Turn(m) == m.type \in {"request", "retry"}

\* A message with the turn is the only message of its call.
Alone(ch, l, i) ==
    \A k \in Links : \A j \in 1..Len(ch[k]) :
        ch[k][j].of = ch[l][i].of => k = l /\ j = i

Unique(ch) ==
    \A l \in Links : \A i \in 1..Len(ch[l]) : Turn(ch[l][i]) => Alone(ch, l, i)

Carries(ch, c) == \E l \in Links : \E i \in 1..Len(ch[l]) : ch[l][i].of = c

HasTurn(ch, c) ==
    \E l \in Links : \E i \in 1..Len(ch[l]) : ch[l][i].of = c /\ Turn(ch[l][i])

Owed(c) == \E m \in owed : m.of = c
WasServed(c) == \E v \in Replies : <<c, v>> \in served

\* The caller has an answer it has not acted upon, and which.
HasAnswer(c) ==
    pc[c] \in {"check", "reinit", "decide"} \/ (pc[c] = "wait" /\ done[c])

Code(c) == IF pc[c] \in {"reinit", "decide"} THEN seen[c] ELSE reply[c]

\* The caller has the turn.
ToSend(c) ==
    pc[c] \in {"idle", "add", "send"} \/ (HasAnswer(c) /\ Code(c) = "retry")

CallOnce(c) ==
    /\ ToSend(c) => ~Carries(chan, c) /\ ~Owed(c) /\ ~WasServed(c)
    /\ HasTurn(chan, c) => ~Owed(c) /\ ~WasServed(c) /\ ~HasAnswer(c)
    /\ Owed(c) => ~WasServed(c)

\* What the caller reads again after it has cleared pending.done is what it
\* read before, as far as a "retry" is concerned.
FrameOnce(c) ==
    /\ pc[c] \in {"reinit", "decide"} => (seen[c] = "retry" <=> reply[c] = "retry")
    /\ pc[c] \in {"idle", "add", "send"} => ~done[c]
    /\ pc[c] = "decide" /\ seen[c] = "retry" => ~done[c]

OnceInv ==
    /\ Unique(chan)
    /\ \A m, n \in owed : m.of = n.of => m = n
    /\ \A c \in Calls : CallOnce(c) /\ FrameOnce(c)

-----------------------------------------------------------------------------
\* Where the messages are after the first one of a link was taken.
LEMMA TakeSlots ==
    ASSUME NEW ch \in [Links -> Seq(Messages)], NEW l \in Links, ch[l] # <<>>,
           NEW k \in Links, NEW i \in 1..Len([ch EXCEPT ![l] = Tail(@)][k])
    PROVE  LET new == [ch EXCEPT ![l] = Tail(@)]
               j == IF k = l THEN i + 1 ELSE i
           IN  j \in 1..Len(ch[k]) /\ new[k][i] = ch[k][j]
<1>1. ch[l] \in Seq(Messages)
  BY Zenon
<1>2. /\ Len(Tail(ch[l])) = Len(ch[l]) - 1 /\ Len(ch[l]) \in Nat
      /\ \A n \in 1..Len(Tail(ch[l])) : Tail(ch[l])[n] = ch[l][n+1]
  BY <1>1, HeadTailFacts, Zenon
<1>3. CASE k = l
  <2>1. [ch EXCEPT ![l] = Tail(@)][k] = Tail(ch[l])
    BY <1>3, Zenon
  <2>2. i \in 1..Len(Tail(ch[l]))
    BY <2>1, Zenon
  <2>3. i + 1 \in 1..Len(ch[l]) /\ Tail(ch[l])[i] = ch[l][i + 1]
    BY <2>2, <1>2
  <2> QED BY <1>3, <2>1, <2>3, Zenon
<1>4. CASE k # l
  BY <1>4, Zenon
<1> QED BY <1>3, <1>4, Zenon

\* Where they are after one was sent.
LEMMA SendSlots ==
    ASSUME NEW ch \in [Links -> Seq(Messages)], NEW l \in Links,
           NEW m \in Messages,
           NEW k \in Links, NEW i \in 1..Len(RelaySend(ch, l, m)[k])
    PROVE  LET new == RelaySend(ch, l, m) IN
           \/ i \in 1..Len(ch[k]) /\ new[k][i] = ch[k][i]
           \/ k = l /\ i = Len(ch[l]) + 1 /\ new[k][i] = m
<1>1. ch[l] \in Seq(Messages) /\ Len(ch[l]) \in Nat
  OBVIOUS
<1>2. /\ Len(Append(ch[l], m)) = Len(ch[l]) + 1
      /\ \A n \in 1..Len(ch[l]) : Append(ch[l], m)[n] = ch[l][n]
      /\ Append(ch[l], m)[Len(ch[l]) + 1] = m
  BY <1>1, AppendFacts
<1>3. CASE k = l
  <2>1. RelaySend(ch, l, m)[k] = Append(ch[l], m)
    BY <1>3, Zenon DEF RelaySend
  <2>2. i \in 1..Len(ch[l]) \/ i = Len(ch[l]) + 1
    BY <2>1, <1>1, <1>2
  <2> QED BY <1>3, <2>1, <2>2, <1>2, Zenon
<1>4. CASE k # l
  BY <1>4, Zenon DEF RelaySend
<1> QED BY <1>3, <1>4, Zenon

\* Taking a message leaves the others where they are; if it had the turn of
\* its call, no message of that call is left.
LEMMA TakeUnique ==
    ASSUME NEW ch \in [Links -> Seq(Messages)], NEW l \in Links, ch[l] # <<>>,
           Unique(ch)
    PROVE  LET new == [ch EXCEPT ![l] = Tail(@)]
               m == Head(ch[l])
           IN  /\ Unique(new)
               /\ \A c : Carries(new, c) => Carries(ch, c)
               /\ \A c : HasTurn(new, c) => HasTurn(ch, c)
               /\ Carries(ch, m.of)
               /\ Turn(m) => HasTurn(ch, m.of) /\ ~Carries(new, m.of)
               /\ HasTurn(new, m.of) => FALSE
<1> DEFINE new == [ch EXCEPT ![l] = Tail(@)]
           m == Head(ch[l])
           At(k, i) == IF k = l THEN i + 1 ELSE i
<1>1. \A k \in Links : \A i \in 1..Len(new[k]) :
         At(k, i) \in 1..Len(ch[k]) /\ new[k][i] = ch[k][At(k, i)]
  BY TakeSlots, Zenon
<1>2. m = ch[l][1] /\ 1 \in 1..Len(ch[l])
  BY TakeFirst, Zenon
<1>3. \A k \in Links : \A i \in 1..Len(new[k]) : i \in Nat \ {0}
  <2>1. new \in [Links -> Seq(Messages)]
    BY TakeFirst, Zenon
  <2> QED BY <2>1
<1> HIDE DEF new, m
<1>4. Unique(new)
  <2> SUFFICES ASSUME NEW k \in Links, NEW i \in 1..Len(new[k]), Turn(new[k][i]),
                      NEW h \in Links, NEW j \in 1..Len(new[h]),
                      new[h][j].of = new[k][i].of
               PROVE  h = k /\ j = i
    BY Zenon DEF Unique, Alone
  <2>1. /\ At(k, i) \in 1..Len(ch[k]) /\ new[k][i] = ch[k][At(k, i)]
        /\ At(h, j) \in 1..Len(ch[h]) /\ new[h][j] = ch[h][At(h, j)]
    BY <1>1, Zenon
  <2>2. h = k /\ At(h, j) = At(k, i)
    <3> HIDE DEF At
    <3>1. Alone(ch, k, At(k, i))
      BY <2>1, Zenon DEF Unique
    <3> QED BY <2>1, <3>1, Zenon DEF Alone
  <2> QED BY <2>2, <1>3
<1>5. \A c : Carries(new, c) => Carries(ch, c)
  BY <1>1 DEF Carries
<1>6. \A c : HasTurn(new, c) => HasTurn(ch, c)
  <2> SUFFICES ASSUME NEW c, NEW k \in Links, NEW i \in 1..Len(new[k]),
                      new[k][i].of = c, Turn(new[k][i])
               PROVE  HasTurn(ch, c)
    BY Zenon DEF HasTurn
  <2>1. At(k, i) \in 1..Len(ch[k]) /\ new[k][i] = ch[k][At(k, i)]
    BY <1>1, Zenon
  <2> HIDE DEF At
  <2> QED BY <2>1, Zenon DEF HasTurn
<1>7. Carries(ch, m.of) /\ (Turn(m) => HasTurn(ch, m.of))
  BY <1>2, Zenon DEF Carries, HasTurn
<1>8. ASSUME NEW k \in Links, NEW i \in 1..Len(new[k]), new[k][i].of = m.of,
             Turn(m) \/ Turn(new[k][i])
      PROVE  FALSE
  <2>1. At(k, i) \in 1..Len(ch[k]) /\ new[k][i] = ch[k][At(k, i)]
    BY <1>1, Zenon
  <2>2. k = l /\ At(k, i) = 1
    <3> HIDE DEF At
    <3>1. Alone(ch, l, 1) \/ Alone(ch, k, At(k, i))
      BY <1>2, <1>8, <2>1, Zenon DEF Unique
    <3> QED BY <1>2, <1>8, <2>1, <3>1, Zenon DEF Alone
  <2> QED BY <2>2, <1>3
<1>9. (Turn(m) => ~Carries(new, m.of)) /\ ~HasTurn(new, m.of)
  BY <1>8, Zenon DEF Carries, HasTurn
<1> QED BY <1>4, <1>5, <1>6, <1>7, <1>9, Zenon DEF new, m

\* So does sending one, if it may have the turn it carries.
LEMMA SendUnique ==
    ASSUME NEW ch \in [Links -> Seq(Messages)], NEW l \in Links,
           NEW m \in Messages, Unique(ch), ~HasTurn(ch, m.of),
           Turn(m) => ~Carries(ch, m.of)
    PROVE  LET new == RelaySend(ch, l, m) IN
           /\ Unique(new)
           /\ \A c : Carries(new, c) => Carries(ch, c) \/ c = m.of
           /\ \A c : HasTurn(new, c) => HasTurn(ch, c) \/ (c = m.of /\ Turn(m))
<1> DEFINE new == RelaySend(ch, l, m)
           Old(k, i) == i \in 1..Len(ch[k]) /\ new[k][i] = ch[k][i]
           New(k, i) == k = l /\ i = Len(ch[l]) + 1 /\ new[k][i] = m
<1>1. \A k \in Links : \A i \in 1..Len(new[k]) : Old(k, i) \/ New(k, i)
  BY SendSlots
<1> HIDE DEF new
<1>2. Unique(new)
  <2> SUFFICES ASSUME NEW k \in Links, NEW i \in 1..Len(new[k]), Turn(new[k][i]),
                      NEW h \in Links, NEW j \in 1..Len(new[h]),
                      new[h][j].of = new[k][i].of
               PROVE  h = k /\ j = i
    BY Zenon DEF Unique, Alone
  <2>1. CASE Old(k, i) /\ Old(h, j)
    <3>1. /\ i \in 1..Len(ch[k]) /\ j \in 1..Len(ch[h])
          /\ Turn(ch[k][i]) /\ ch[h][j].of = ch[k][i].of
      BY <2>1, Zenon
    <3>2. Alone(ch, k, i)
      BY <3>1, Zenon DEF Unique
    <3> QED BY <3>1, <3>2, Zenon DEF Alone
  <2>2. CASE Old(k, i) /\ New(h, j)
    BY <2>2, Zenon DEF HasTurn
  <2>3. CASE New(k, i) /\ Old(h, j)
    BY <2>3, Zenon DEF Carries
  <2>4. CASE New(k, i) /\ New(h, j)
    BY <2>4, Zenon
  <2> QED BY <1>1, <2>1, <2>2, <2>3, <2>4, Zenon
<1>3. \A c : Carries(new, c) => Carries(ch, c) \/ c = m.of
  BY <1>1, Zenon DEF Carries
<1>4. ASSUME NEW c, HasTurn(new, c)
      PROVE  HasTurn(ch, c) \/ (c = m.of /\ Turn(m))
  <2>1. PICK k \in Links : \E i \in 1..Len(new[k]) :
           new[k][i].of = c /\ Turn(new[k][i])
    BY <1>4, Zenon DEF HasTurn
  <2>2. PICK i \in 1..Len(new[k]) : new[k][i].of = c /\ Turn(new[k][i])
    BY <2>1, Zenon
  <2>3. CASE Old(k, i)
    BY <2>2, <2>3, Zenon DEF HasTurn
  <2>4. CASE New(k, i)
    BY <2>2, <2>4, Zenon
  <2> QED BY <1>1, <2>3, <2>4, Zenon
<1> QED BY <1>2, <1>3, <1>4, Zenon DEF new

-----------------------------------------------------------------------------
\* A step concerns one call: the others keep their frame, and no message,
\* debt or service is added for them.
LEMMA OthersKept ==
    ASSUME OnceInv, NEW c \in Calls,
           \A d \in Calls \ {c} :
              UNCHANGED <<pc[d], done[d], reply[d], seen[d]>>,
           \A d \in Calls \ {c} :
              /\ Carries(chan', d) => Carries(chan, d)
              /\ HasTurn(chan', d) => HasTurn(chan, d)
              /\ Owed(d)' => Owed(d)
              /\ WasServed(d)' => WasServed(d),
           Unique(chan'), \A m, n \in owed' : m.of = n.of => m = n,
           CallOnce(c)', FrameOnce(c)'
    PROVE  OnceInv'
<1>1. ASSUME NEW d \in Calls \ {c}
      PROVE  CallOnce(d)' /\ FrameOnce(d)'
  <2>1. (ToSend(d)' <=> ToSend(d)) /\ (HasAnswer(d)' <=> HasAnswer(d))
    BY <1>1, Zenon DEF ToSend, HasAnswer, Code
  <2>2. CallOnce(d) /\ FrameOnce(d)
    BY <1>1, Zenon DEF OnceInv
  <2>3. CallOnce(d)'
    BY <1>1, <2>1, <2>2, Zenon DEF CallOnce
  <2>4. FrameOnce(d)'
    BY <1>1, <2>2, Zenon DEF FrameOnce
  <2> QED BY <2>3, <2>4, Zenon
<1> QED BY <1>1, Zenon DEF OnceInv

\* A step of the caller that sends nothing and does not take the turn.
LEMMA CallerOnce ==
    ASSUME OnceInv, NEW c \in Calls, UNCHANGED <<chan, owed, served>>,
           \A d \in Calls \ {c} :
              UNCHANGED <<pc[d], done[d], reply[d], seen[d]>>,
           ToSend(c)' => ToSend(c), HasAnswer(c)' => HasAnswer(c), FrameOnce(c)'
    PROVE  OnceInv'
<1>1. \A d \in Calls : Owed(d)' = Owed(d) /\ WasServed(d)' = WasServed(d)
  BY Zenon DEF Owed, WasServed
<1>2. CallOnce(c)'
  BY <1>1, Zenon DEF OnceInv, CallOnce
<1>3. Unique(chan') /\ \A m, n \in owed' : m.of = n.of => m = n
  BY Zenon DEF OnceInv
<1> QED BY <1>1, <1>2, <1>3, OthersKept, Zenon

\* The initial state.
LEMMA InitOnce == Init => OnceInv
<1> SUFFICES ASSUME Init PROVE OnceInv
  BY Zenon
<1>1. \A l \in Links : Len(chan[l]) = 0
  BY Zenon DEF Init
<1>2. Unique(chan) /\ \A c : ~Carries(chan, c) /\ ~HasTurn(chan, c)
  BY <1>1 DEF Unique, Carries, HasTurn
<1>3. \A c \in Calls : CallOnce(c) /\ FrameOnce(c)
  BY <1>2, Zenon DEF Init, CallOnce, FrameOnce, Owed, WasServed
<1> QED BY <1>2, <1>3, Zenon DEF OnceInv, Init

\* The steps of the caller.
LEMMA WaitOnce ==
    ASSUME IInv, OnceInv, NEW c \in Calls, Wait(c)
    PROVE  OnceInv'
<1>0. TypeOK /\ CallOnce(c) /\ FrameOnce(c)
  BY Zenon DEF IInv, OnceInv
<1>1. CASE AddPending(c)
  <2>1. /\ UNCHANGED <<chan, owed, served, done, reply, seen>>
        /\ pc[c] = "add" /\ pc' = [pc EXCEPT ![c] = "send"]
    BY <1>1, Zenon DEF AddPending, frame, peer
  <2> QED BY <1>0, <2>1, CallerOnce, Zenon
     DEF TypeOK, ToSend, HasAnswer, FrameOnce
<1>2. CASE Wake(c)
  <2>1. /\ UNCHANGED <<chan, owed, served, done, reply, seen>>
        /\ pc[c] = "wait" /\ done[c] /\ pc' = [pc EXCEPT ![c] = "check"]
    BY <1>2, Zenon DEF Wake, frame, peer
  <2> QED BY <1>0, <2>1, CallerOnce, Zenon DEF TypeOK, ToSend, HasAnswer, FrameOnce, Code
<1>3. CASE Timeout(c)
  <2>1. /\ UNCHANGED <<chan, owed, served, done, reply, seen>>
        /\ pc[c] = "wait" /\ pc' = [pc EXCEPT ![c] = "unlink"]
    BY <1>3, Zenon DEF Timeout, peer
  <2> QED BY <1>0, <2>1, CallerOnce, Zenon
     DEF TypeOK, ToSend, HasAnswer, FrameOnce
<1>4. CASE Check(c)
  <2>1. /\ UNCHANGED <<chan, owed, served, done, reply>> /\ pc[c] = "check"
        /\ seen' = [seen EXCEPT ![c] = reply[c]]
        /\ pc' = [pc EXCEPT ![c] = "unlink"] \/ pc' = [pc EXCEPT ![c] = "reinit"]
    BY <1>4, Zenon DEF Check, peer
  <2> QED BY <1>0, <2>1, CallerOnce, ZenonT(60) DEF TypeOK, ToSend, HasAnswer, FrameOnce, Code
<1>5. CASE Reinit(c)
  <2>1. /\ UNCHANGED <<chan, owed, served, reply, seen>> /\ pc[c] = "reinit"
        /\ done' = [done EXCEPT ![c] = FALSE] /\ pc' = [pc EXCEPT ![c] = "decide"]
    BY <1>5, Zenon DEF Reinit, peer
  <2> QED BY <1>0, <2>1, CallerOnce, Zenon DEF TypeOK, ToSend, HasAnswer, FrameOnce, Code
<1>6. CASE Decide(c)
  <2>1. /\ UNCHANGED <<chan, owed, served, reply, done, seen>> /\ pc[c] = "decide"
        /\ \E code \in {seen[c], reply[c]} :
              pc' = [pc EXCEPT ![c] = CASE code = "retry" -> "send"
                                       [] code = "busy" -> "wait"
                                       [] OTHER -> "unlink"]
    BY <1>6, Zenon DEF Decide, peer
  <2>2. /\ \A d \in Calls \ {c} : pc'[d] = pc[d]
        /\ \/ pc'[c] = "send" /\ seen[c] = "retry"
           \/ pc'[c] = "wait" /\ seen[c] # "retry" /\ reply[c] # "retry"
           \/ pc'[c] = "unlink"
    BY <1>0, <2>1, Zenon DEF TypeOK, FrameOnce
  <2> QED BY <1>0, <2>1, <2>2, CallerOnce, Zenon
     DEF ToSend, HasAnswer, FrameOnce, Code
<1>7. CASE Unlink(c)
  <2>1. /\ UNCHANGED <<chan, owed, served>> /\ pc' = [pc EXCEPT ![c] = "done"]
        /\ done' = [done EXCEPT ![c] = FALSE]
        /\ reply' = [reply EXCEPT ![c] = "none"]
        /\ seen' = [seen EXCEPT ![c] = "none"]
    BY <1>7, Zenon DEF Unlink, peer
  <2> QED BY <1>0, <2>1, CallerOnce, Zenon DEF TypeOK, ToSend, HasAnswer, FrameOnce
<1> QED BY <1>1, <1>2, <1>3, <1>4, <1>5, <1>6, <1>7, Zenon DEF Wait

\* Taking a fence.
LEMMA GetNextFenceOnce ==
    ASSUME IInv, OnceInv, NEW c \in Calls, GetNextFence(c)
    PROVE  OnceInv'
<1>1. TypeOK /\ FrameOnce(c)
  BY Zenon DEF IInv, OnceInv
<1>2. /\ UNCHANGED <<chan, owed, served, done, reply, seen>>
      /\ pc[c] = "idle" /\ pc' = [pc EXCEPT ![c] = "add"]
  BY Zenon DEF GetNextFence, peer
<1> QED BY <1>1, <1>2, CallerOnce, Zenon
   DEF TypeOK, ToSend, HasAnswer, FrameOnce

\* Sending the request: the turn goes with it.
LEMMA SendOnce ==
    ASSUME IInv, OnceInv, NEW c \in Calls, NEW r \in Requests, Send(c, r)
    PROVE  OnceInv'
<1>0. TypeOK /\ CallOnce(c) /\ FrameOnce(c) /\ Unique(chan)
  BY Zenon DEF IInv, OnceInv
<1>1. UNCHANGED <<owed, served, done, reply, seen>> /\ pc[c] = "send"
  BY Zenon DEF Send, peer
<1>2. CASE pc' = [pc EXCEPT ![c] = "unlink"] /\ UNCHANGED chan
  BY <1>0, <1>1, <1>2, CallerOnce, Zenon
     DEF TypeOK, ToSend, HasAnswer, FrameOnce
<1>3. CASE /\ pc' = [pc EXCEPT ![c] = "wait"]
           /\ chan' = RelaySend(chan, <<Caller[c], Target[c]>>,
                                Message("request", fence[c], c, r))
  <2>1. PICK m : m = Message("request", fence[c], c, r)
    BY Zenon
  <2>2. m \in Messages /\ m.of = c /\ <<Caller[c], Target[c]>> \in Links
    <3>1. fence[c] \in 1..FenceMax
      BY <1>1, Zenon DEF IInv, FenceInv, Active
    <3>2. m \in Messages
      BY <2>1, <3>1, MessageMade, Zenon
    <3> QED BY <2>1, <3>2, CallLinks, Zenon DEF Message
  <2>3. ~Carries(chan, c) /\ ~HasTurn(chan, c) /\ ~Owed(c) /\ ~WasServed(c) /\ ~done[c]
    BY <1>0, <1>1, Zenon DEF CallOnce, FrameOnce, ToSend, Carries, HasTurn
  <2>4. /\ Unique(chan')
        /\ \A d : Carries(chan', d) => Carries(chan, d) \/ d = c
        /\ \A d : HasTurn(chan', d) => HasTurn(chan, d) \/ d = c
    <3>1. PICK l \in Links : l = <<Caller[c], Target[c]>>
      BY <2>2, Zenon
    <3>2. chan \in [Links -> Seq(Messages)] /\ chan' = RelaySend(chan, l, m)
      BY <1>0, <1>3, <2>1, <3>1, Zenon DEF TypeOK
    <3>3. LET new == RelaySend(chan, l, m) IN
          /\ Unique(new)
          /\ \A d : Carries(new, d) => Carries(chan, d) \/ d = m.of
          /\ \A d : HasTurn(new, d) => HasTurn(chan, d) \/ (d = m.of /\ Turn(m))
      BY <1>0, <2>2, <2>3, <3>2, SendUnique, Zenon
    <3> QED BY <2>2, <3>2, <3>3, Zenon
  <2>5. \A d \in Calls : Owed(d)' = Owed(d) /\ WasServed(d)' = WasServed(d)
    BY <1>1, Zenon DEF Owed, WasServed
  <2>6. ~ToSend(c)' /\ ~HasAnswer(c)' /\ FrameOnce(c)'
    BY <1>0, <1>1, <1>3, <2>3, Zenon DEF TypeOK, ToSend, HasAnswer, FrameOnce
  <2>7. CallOnce(c)'
    BY <2>3, <2>5, <2>6, Zenon DEF CallOnce
  <2>8. \A d \in Calls \ {c} : UNCHANGED <<pc[d], done[d], reply[d], seen[d]>>
    BY <1>0, <1>1, <1>3, Zenon DEF TypeOK
  <2>9. \A m1, n1 \in owed' : m1.of = n1.of => m1 = n1
    BY <1>1, Zenon DEF OnceInv
  <2> QED BY <2>4, <2>5, <2>6, <2>7, <2>8, <2>9, OthersKept, Zenon
<1> QED BY <1>2, <1>3, Zenon DEF Send

\* Handling a reply or losing a message: the turn is gone, or with the caller
\* that was told to send again.
LEMMA CompleteOnce ==
    ASSUME IInv, OnceInv, NEW l \in Links, chan[l] # <<>>, NEW code \in Codes,
           Head(chan[l]).type # "request",
           code = "retry" <=> Head(chan[l]).type = "retry",
           Complete(l, Head(chan[l]), code)
    PROVE  OnceInv'
<1>0. TypeOK /\ Unique(chan)
  BY Zenon DEF IInv, OnceInv
<1>1. PICK m : m = Head(chan[l])
  BY Zenon
<1>2. /\ UNCHANGED <<pc, seen, owed, served>>
      /\ chan' = [chan EXCEPT ![l] = Tail(@)]
  BY Zenon DEF Complete, peer
<1>3. /\ Unique(chan')
      /\ \A d : Carries(chan', d) => Carries(chan, d)
      /\ \A d : HasTurn(chan', d) => HasTurn(chan, d)
      /\ Carries(chan, m.of)
      /\ Turn(m) => HasTurn(chan, m.of) /\ ~Carries(chan', m.of)
      /\ ~HasTurn(chan', m.of)
  BY <1>0, <1>1, <1>2, TakeUnique, Zenon DEF TypeOK
<1>4. m \in Messages /\ m.of \in Calls /\ Route(m) = l /\ Sound(m)
  BY <1>1, HeadSound, MessageFields, Zenon DEF Sound
<1>5. \A d \in Calls : Owed(d)' = Owed(d) /\ WasServed(d)' = WasServed(d)
  BY <1>2, Zenon DEF Owed, WasServed
<1>6. \A x, y \in owed' : x.of = y.of => x = y
  BY <1>2, Zenon DEF OnceInv
<1>7. CASE UNCHANGED <<done, reply>>
  <2>1. CallOnce(m.of) /\ FrameOnce(m.of)
    BY <1>4, Zenon DEF OnceInv
  <2>2. (ToSend(m.of)' <=> ToSend(m.of)) /\ (HasAnswer(m.of)' <=> HasAnswer(m.of))
    BY <1>2, <1>7, Zenon DEF ToSend, HasAnswer, Code
  <2>3. CallOnce(m.of)'
    BY <1>3, <1>4, <1>5, <2>1, <2>2, Zenon DEF CallOnce
  <2>4. FrameOnce(m.of)'
    BY <1>2, <1>7, <2>1, Zenon DEF FrameOnce
  <2> QED BY <1>2, <1>3, <1>4, <1>5, <1>6, <1>7, <2>3, <2>4, OthersKept, Zenon
<1>8. ASSUME NEW c \in Matching(l, m), NEW x \in Codes,
             reply' = [reply EXCEPT ![c] = x], done' = [done EXCEPT ![c] = TRUE],
             x = "retry" <=> m.type = "retry"
      PROVE  OnceInv'
  <2>1. /\ c \in Calls /\ Active(c) /\ Caller[c] = l[2] /\ fence[c] = m.fence
    BY <1>8, Zenon DEF Matching, IInv, PendingAlive, TypeOK
  <2>2. Caller[m.of] = l[2]
    BY <1>1, <1>4 DEF Route
  <2>3. m.of = c
    BY <1>4, <2>1, <2>2, Zenon DEF Sound
  <2>4. CallOnce(c) /\ FrameOnce(c) /\ ~ToSend(c)
    BY <1>3, <2>1, <2>3, Zenon DEF OnceInv, CallOnce
  <2>5. reply'[c] = x /\ done'[c] = TRUE /\ UNCHANGED <<pc[c], seen[c]>>
    BY <1>0, <1>2, <1>8, <2>1, Zenon DEF TypeOK
  <2>6. ASSUME m.type = "retry"
        PROVE  CallOnce(c)' /\ FrameOnce(c)'
    <3>1. /\ HasTurn(chan, c) /\ ~Carries(chan', c) /\ ~HasTurn(chan', c)
          /\ ~HasAnswer(c)
      BY <1>3, <2>3, <2>4, <2>6 DEF Turn, CallOnce, Carries, HasTurn
    <3>2. CallOnce(c)'
      BY <1>5, <2>1, <2>4, <3>1, Zenon DEF CallOnce
    <3>3. FrameOnce(c)'
      BY <2>4, <2>5, <3>1, Zenon DEF FrameOnce, HasAnswer, ToSend
    <3> QED BY <3>2, <3>3, ZenonT(60)
  <2>7. ASSUME m.type # "retry"
        PROVE  CallOnce(c)' /\ FrameOnce(c)'
    <3>1. ~ToSend(c)'
      BY <1>8, <2>4, <2>5, <2>7, Zenon DEF ToSend, HasAnswer, Code
    <3>2. CallOnce(c)'
      BY <1>3, <1>5, <2>1, <2>3, <2>4, <3>1, Zenon DEF CallOnce
    <3>3. FrameOnce(c)'
      BY <1>8, <2>4, <2>5, <2>7, Zenon DEF FrameOnce, HasAnswer, ToSend, Code
    <3> QED BY <3>2, <3>3, Zenon
  <2>8. CallOnce(c)' /\ FrameOnce(c)'
    BY <2>6, <2>7, Zenon
  <2>9. \A d \in Calls \ {c} : UNCHANGED <<pc[d], done[d], reply[d], seen[d]>>
    BY <1>0, <1>2, <1>8, Zenon DEF TypeOK
  <2> QED BY <1>3, <1>5, <1>6, <2>1, <2>8, <2>9, OthersKept, Zenon
<1> QED
  <2>1. ASSUME NEW c \in Matching(l, m),
               LET fits == code = "ok" /\ Len(m.body) <= Room[c] IN
               /\ reply' = [reply EXCEPT ![c] = IF code = "ok" /\ ~fits
                                                THEN "error" ELSE code]
               /\ done' = [done EXCEPT ![c] = TRUE]
        PROVE  OnceInv'
    <3>1. CASE code = "ok"
      <4>1. PICK x \in {"ok", "error"} : reply' = [reply EXCEPT ![c] = x]
        BY <2>1, <3>1, Zenon
      <4>2. m.type # "retry" /\ x # "retry" /\ x \in Codes
        BY <1>1, <3>1, Zenon DEF Codes
      <4> QED BY <1>8, <2>1, <4>1, <4>2, Zenon
    <3>2. CASE code # "ok"
      <4>1. reply' = [reply EXCEPT ![c] = code]
        BY <2>1, <3>2, Zenon
      <4> QED BY <1>1, <1>8, <2>1, <4>1, Zenon
    <3> QED BY <3>1, <3>2, Zenon
  <2>2. UNCHANGED <<done, reply>>
        \/ \E c \in Matching(l, m) :
              LET fits == code = "ok" /\ Len(m.body) <= Room[c] IN
              /\ reply' = [reply EXCEPT ![c] = IF code = "ok" /\ ~fits
                                               THEN "error" ELSE code]
              /\ done' = [done EXCEPT ![c] = TRUE]
    BY <1>1, Zenon DEF Complete
  <2> QED BY <1>7, <2>1, <2>2, Zenon

\* Losing a message loses the turn it had.
LEMMA LoseOnce ==
    ASSUME IInv, OnceInv, NEW l \in Links, Lose(l)
    PROVE  OnceInv'
<1>1. PICK m : m = Head(chan[l])
  BY Zenon
<1>2. /\ UNCHANGED <<pc, done, reply, seen, owed, served>> /\ chan[l] # <<>>
      /\ chan' = [chan EXCEPT ![l] = Tail(@)]
  BY Zenon DEF Lose, frame, peer
<1>3. m.of \in Calls /\ CallOnce(m.of) /\ FrameOnce(m.of)
  BY <1>1, <1>2, HeadSound, MessageFields, Zenon DEF Sound, OnceInv
<1>4. /\ Unique(chan')
      /\ \A d : Carries(chan', d) => Carries(chan, d)
      /\ \A d : HasTurn(chan', d) => HasTurn(chan, d)
  BY <1>2, TakeUnique, Zenon DEF IInv, TypeOK, OnceInv
<1>5. \A d \in Calls : Owed(d)' = Owed(d) /\ WasServed(d)' = WasServed(d)
  BY <1>2, Zenon DEF Owed, WasServed
<1>6. /\ ToSend(m.of)' <=> ToSend(m.of)
      /\ HasAnswer(m.of)' <=> HasAnswer(m.of)
      /\ FrameOnce(m.of)'
  BY <1>2, <1>3, Zenon DEF ToSend, HasAnswer, Code, FrameOnce
<1>7. CallOnce(m.of)'
  BY <1>3, <1>4, <1>5, <1>6, Zenon DEF CallOnce
<1>8. \A x, y \in owed' : x.of = y.of => x = y
  BY <1>2, Zenon DEF OnceInv
<1> QED BY <1>2, <1>3, <1>4, <1>5, <1>6, <1>7, <1>8, OthersKept, Zenon

\* A request that is handled is replaced by at most one answer.
LEMMA AnswerOnce ==
    ASSUME IInv, OnceInv, NEW l \in Links, chan[l] # <<>>, NEW A, Answer(l, A),
           NEW m, m = Head(chan[l]), m.type = "request",
           \A a \in A : a \in Messages /\ a.of = m.of
    PROVE  /\ m.of \in Calls
           /\ Unique(chan')
           /\ \A d : d # m.of => /\ Carries(chan', d) => Carries(chan, d)
                                 /\ HasTurn(chan', d) => HasTurn(chan, d)
           /\ HasTurn(chan', m.of) => \E a \in A : Turn(a)
           /\ ~ToSend(m.of) /\ ~HasAnswer(m.of) /\ ~Owed(m.of) /\ ~WasServed(m.of)
<1> DEFINE taken == [chan EXCEPT ![l] = Tail(@)]
<1>1. taken \in [Links -> Seq(Messages)]
  BY TakeFirst, Zenon DEF IInv, TypeOK
<1>2. /\ Unique(taken)
      /\ \A d : Carries(taken, d) => Carries(chan, d)
      /\ \A d : HasTurn(taken, d) => HasTurn(chan, d)
      /\ HasTurn(chan, m.of) /\ ~Carries(taken, m.of) /\ ~HasTurn(taken, m.of)
      /\ Carries(chan, m.of)
  BY TakeUnique, Zenon DEF IInv, TypeOK, OnceInv, Turn
<1>3. m.of \in Calls /\ CallOnce(m.of)
  BY HeadSound, MessageFields, Zenon DEF Sound, OnceInv
<1>4. ~ToSend(m.of) /\ ~HasAnswer(m.of) /\ ~Owed(m.of) /\ ~WasServed(m.of)
  BY <1>2, <1>3, Zenon DEF CallOnce
<1>5. chan' = taken \/ \E a \in A : chan' = RelaySend(taken, Back(l), a)
  BY Zenon DEF Answer
<1> HIDE DEF taken
<1>6. CASE chan' = taken
  BY <1>2, <1>3, <1>4, <1>6, Zenon
<1>7. ASSUME NEW a \in A, chan' = RelaySend(taken, Back(l), a)
      PROVE  /\ Unique(chan')
             /\ \A d : Carries(chan', d) => Carries(taken, d) \/ d = m.of
             /\ \A d : HasTurn(chan', d) => HasTurn(taken, d) \/ (d = m.of /\ Turn(a))
  <2>1. Back(l) \in Links /\ a \in Messages /\ a.of = m.of
    BY LinkBack, Zenon
  <2>2. LET new == RelaySend(taken, Back(l), a) IN
        /\ Unique(new)
        /\ \A d : Carries(new, d) => Carries(taken, d) \/ d = a.of
        /\ \A d : HasTurn(new, d) => HasTurn(taken, d) \/ (d = a.of /\ Turn(a))
    BY <1>1, <1>2, <2>1, SendUnique, Zenon
  <2> QED BY <1>7, <2>1, <2>2, Zenon
<1> QED BY <1>2, <1>3, <1>4, <1>5, <1>6, <1>7, Zenon

\* Handling a request that leaves the frames alone.
LEMMA HandledOnce ==
    ASSUME IInv, OnceInv, NEW l \in Links, chan[l] # <<>>, NEW A, Answer(l, A),
           NEW m, m = Head(chan[l]), m.type = "request",
           \A a \in A : a \in Messages /\ a.of = m.of,
           UNCHANGED <<pc, done, reply, seen>>,
           \A d : d # m.of => /\ Owed(d)' => Owed(d)
                              /\ WasServed(d)' => WasServed(d),
           \A x, y \in owed' : x.of = y.of => x = y,
           ~(Owed(m.of)' /\ WasServed(m.of)'),
           (\E a \in A : Turn(a)) => ~Owed(m.of)' /\ ~WasServed(m.of)'
    PROVE  OnceInv'
<1>1. /\ m.of \in Calls
      /\ Unique(chan')
      /\ \A d : d # m.of => /\ Carries(chan', d) => Carries(chan, d)
                            /\ HasTurn(chan', d) => HasTurn(chan, d)
      /\ HasTurn(chan', m.of) => \E a \in A : Turn(a)
      /\ ~ToSend(m.of) /\ ~HasAnswer(m.of)
  BY AnswerOnce, Zenon
<1>2. ~ToSend(m.of)' /\ ~HasAnswer(m.of)'
  BY <1>1, Zenon DEF ToSend, HasAnswer, Code
<1>3. CallOnce(m.of)'
  BY <1>1, <1>2, Zenon DEF CallOnce
<1>4. FrameOnce(m.of)'
  BY <1>1, Zenon DEF OnceInv, FrameOnce
<1> QED BY <1>1, <1>3, <1>4, OthersKept, Zenon

\* Serving a request: it is gone, and its answer has no turn.
LEMMA ServeOnce ==
    ASSUME IInv, OnceInv, NEW l \in Links, NEW v \in Replies, Serve(l, v)
    PROVE  OnceInv'
<1>1. PICK m : m = Head(chan[l])
  BY Zenon
<1>2. PICK A : A = {Message("ok", m.fence, m.of, v), Message("fail", m.fence, m.of, None)}
  BY Zenon
<1>3. /\ chan[l] # <<>> /\ m.type = "request" /\ Answer(l, A)
      /\ served' = served \cup {<<m.of, v>>}
      /\ UNCHANGED <<pc, done, reply, seen, owed>>
  BY <1>1, <1>2, Zenon DEF Serve, frame
<1>4. m.of \in Calls /\ m.fence \in 1..FenceMax
  BY <1>1, <1>3, HeadSound, MessageFields, Zenon DEF Sound
<1>5. \A a \in A : a \in Messages /\ a.of = m.of /\ ~Turn(a)
  <2>1. \A a \in A : a \in Messages
    BY <1>2, <1>4, MessageMade, Zenon
  <2> QED BY <1>2, <2>1 DEF Message, Turn
<1>6. ~Owed(m.of)
  BY <1>1, <1>3, <1>5, AnswerOnce, Zenon
<1>7. \A d : /\ Owed(d)' => Owed(d)
             /\ d # m.of => (WasServed(d)' => WasServed(d))
  BY <1>3, Zenon DEF Owed, WasServed
<1>8. \A x, y \in owed' : x.of = y.of => x = y
  BY <1>3, Zenon DEF OnceInv
<1> QED BY <1>1, <1>3, <1>5, <1>6, <1>7, <1>8, HandledOnce, Zenon

\* Refusing a request ends its turn.
LEMMA RefuseOnce ==
    ASSUME IInv, OnceInv, NEW l \in Links, Refuse(l)
    PROVE  OnceInv'
<1>1. PICK m : m = Head(chan[l])
  BY Zenon
<1>2. PICK A : A = {Message("fail", m.fence, m.of, None)}
  BY Zenon
<1>3. /\ chan[l] # <<>> /\ m.type = "request" /\ Answer(l, A)
      /\ UNCHANGED <<pc, done, reply, seen, owed, served>>
  BY <1>1, <1>2, Zenon DEF Refuse, frame, peer
<1>4. m.of \in Calls /\ m.fence \in 1..FenceMax
  BY <1>1, <1>3, HeadSound, MessageFields, Zenon DEF Sound
<1>5. \A a \in A : a \in Messages /\ a.of = m.of /\ ~Turn(a)
  <2>1. \A a \in A : a \in Messages
    BY <1>2, <1>4, MessageMade, Zenon
  <2> QED BY <1>2, <2>1 DEF Message, Turn
<1>6. ~Owed(m.of)
  BY <1>1, <1>3, <1>5, AnswerOnce, Zenon
<1>7. \A d : /\ Owed(d)' => Owed(d)
             /\ WasServed(d)' => WasServed(d)
  BY <1>3, Zenon DEF Owed, WasServed
<1>8. \A x, y \in owed' : x.of = y.of => x = y
  BY <1>3, Zenon DEF OnceInv
<1> QED BY <1>1, <1>3, <1>5, <1>6, <1>7, <1>8, HandledOnce, Zenon

\* A "busy" answer leaves the peer owing a reply, a "retry" carries the turn
\* back to the caller.
LEMMA PutOffOnce ==
    ASSUME IInv, OnceInv, NEW l \in Links, PutOff(l)
    PROVE  OnceInv'
<1>1. PICK m : m = Head(chan[l])
  BY Zenon
<1>2. PICK t \in {"busy", "retry"} :
         /\ Answer(l, {Message(t, m.fence, m.of, None)})
         /\ owed' = IF t = "busy" THEN owed \cup {m} ELSE owed
  BY <1>1, Zenon DEF PutOff
<1>3. PICK A : A = {Message(t, m.fence, m.of, None)}
  BY Zenon
<1>4. /\ chan[l] # <<>> /\ m.type = "request" /\ Answer(l, A)
      /\ UNCHANGED <<pc, done, reply, seen, served>>
  BY <1>1, <1>2, <1>3, Zenon DEF PutOff, frame
<1>5. m.of \in Calls /\ m.fence \in 1..FenceMax
  BY <1>1, <1>4, HeadSound, MessageFields, Zenon DEF Sound
<1>6. \A a \in A : a \in Messages /\ a.of = m.of /\ (Turn(a) => t = "retry")
  <2>1. \A a \in A : a \in Messages
    BY <1>3, <1>5, MessageMade, Zenon
  <2> QED BY <1>3, <2>1 DEF Message, Turn
<1>7. ~Owed(m.of) /\ ~WasServed(m.of)
  BY <1>1, <1>4, <1>6, AnswerOnce, Zenon
<1>8. \A d : WasServed(d)' => WasServed(d)
  BY <1>4, Zenon DEF WasServed
<1>9. \A d : d # m.of \/ t = "retry" => (Owed(d)' => Owed(d))
  BY <1>2, Zenon DEF Owed
<1>10. \A x, y \in owed' : x.of = y.of => x = y
  BY <1>2, <1>7, Zenon DEF OnceInv, Owed
<1> QED BY <1>1, <1>4, <1>6, <1>7, <1>8, <1>9, <1>10, HandledOnce, Zenon

\* The reply that was owed.
LEMMA SettleOnce ==
    ASSUME IInv, OnceInv, NEW m \in owed, NEW v \in Replies, Settle(m, v)
    PROVE  OnceInv'
<1>1. m.of \in Calls /\ m.fence \in 1..FenceMax
  BY MessageFields, Zenon DEF IInv, MsgInv, Sound
<1>2. PICK l \in Links : l = <<Target[m.of], Caller[m.of]>>
  BY <1>1, CallLinks, Zenon
<1>3. PICK a : /\ a = Message("ok", m.fence, m.of, v) \/ a = Message("fail", m.fence, m.of, None)
               /\ chan' = RelaySend(chan, l, a)
               /\ served' = served \cup {<<m.of, v>>} \/ served' = served
  BY <1>2, Zenon DEF Settle
<1>4. UNCHANGED <<pc, done, reply, seen>> /\ owed' = owed \ {m}
  BY Zenon DEF Settle, frame
<1>5. a \in Messages /\ a.of = m.of /\ ~Turn(a)
  <2>1. a \in Messages
    BY <1>1, <1>3, MessageMade, Zenon
  <2> QED BY <1>3, <2>1 DEF Message, Turn
<1>6. /\ Owed(m.of) /\ CallOnce(m.of) /\ FrameOnce(m.of)
      /\ Unique(chan) /\ chan \in [Links -> Seq(Messages)]
  BY <1>1, Zenon DEF Owed, OnceInv, IInv, TypeOK
<1>7. ~HasTurn(chan, m.of) /\ ~ToSend(m.of)
  BY <1>6, Zenon DEF CallOnce
<1>8. LET new == RelaySend(chan, l, a) IN
      /\ Unique(new)
      /\ \A d : Carries(new, d) => Carries(chan, d) \/ d = a.of
      /\ \A d : HasTurn(new, d) => HasTurn(chan, d) \/ (d = a.of /\ Turn(a))
  BY <1>5, <1>6, <1>7, SendUnique, Zenon
<1>9. /\ Unique(chan')
      /\ \A d : Carries(chan', d) => Carries(chan, d) \/ d = m.of
      /\ \A d : HasTurn(chan', d) => HasTurn(chan, d)
  BY <1>3, <1>5, <1>8, Zenon
<1>10. \A d : /\ Owed(d)' => Owed(d)
              /\ d # m.of => (WasServed(d)' => WasServed(d))
  BY <1>3, <1>4 DEF Owed, WasServed
<1>11. ~Owed(m.of)' /\ \A x, y \in owed' : x.of = y.of => x = y
  BY <1>4, Zenon DEF Owed, OnceInv
<1>12. ~ToSend(m.of)'
  BY <1>4, <1>7, Zenon DEF ToSend, HasAnswer, Code
<1>13. CallOnce(m.of)'
  BY <1>7, <1>9, <1>11, <1>12, Zenon DEF CallOnce
<1>14. FrameOnce(m.of)'
  BY <1>4, <1>6, Zenon DEF FrameOnce
<1> QED BY <1>1, <1>4, <1>9, <1>10, <1>11, <1>13, <1>14, OthersKept, Zenon

\* relay_handle_reply() and the failure of a send take one message for a caller.
LEMMA HandleOnce ==
    ASSUME IInv, OnceInv, NEW l \in Links, HandleReply(l) \/ HandleFailure(l)
    PROVE  OnceInv'
BY CompleteOnce, Zenon DEF HandleReply, HandleFailure, Codes

\* Every step keeps it.
LEMMA NextOnce ==
    ASSUME IInv, OnceInv, [Next]_vars
    PROVE  OnceInv'
<1>1. CASE UNCHANGED vars
  <2>1. UNCHANGED <<pc, done, reply, seen, chan, owed, served>>
    BY <1>1, Zenon DEF vars, frame, peer
  <2>2. \A c \in Calls : CallOnce(c)' = CallOnce(c) /\ FrameOnce(c)' = FrameOnce(c)
    BY <2>1 DEF CallOnce, FrameOnce, ToSend, HasAnswer, Code, Owed, WasServed
  <2> QED BY <2>1, <2>2, Zenon DEF OnceInv
<1>2. CASE \E c \in Calls : GetNextFence(c)
  BY <1>2, GetNextFenceOnce, Zenon
<1>3. CASE \E c \in Calls : Wait(c)
  BY <1>3, WaitOnce, Zenon
<1>4. CASE \E c \in Calls, r \in Requests : Send(c, r)
  BY <1>4, SendOnce, Zenon
<1>5. CASE \E l \in Links : HandleReply(l) \/ HandleFailure(l)
  BY <1>5, HandleOnce, Zenon
<1>6. CASE \E l \in Links : Refuse(l) \/ PutOff(l) \/ Lose(l)
  BY <1>6, RefuseOnce, PutOffOnce, LoseOnce, Zenon
<1>7. CASE \E l \in Links, v \in Replies : Serve(l, v)
  BY <1>7, ServeOnce, Zenon
<1>8. CASE \E m \in owed, v \in Replies : Settle(m, v)
  BY <1>8, SettleOnce, Zenon
<1> QED BY <1>1, <1>2, <1>3, <1>4, <1>5, <1>6, <1>7, <1>8, Zenon DEF Next

-----------------------------------------------------------------------------
(* The handlers of messages keep the inductive invariant.                  *)

\* A handler that takes the first message of its link, and sends a sound
\* answer back or none, keeps the messages in order.
LEMMA AnswerMsgs ==
    ASSUME IInv, Quiet, NEW l \in Links, chan[l] # <<>>, NEW A, Answer(l, A),
           \A a \in A : a \in Messages /\ Route(a) = Back(l) /\ Sound(a)',
           \A m \in owed' : m \in owed \/ (m.type = "request" /\ Sound(m)')
    PROVE  chan' \in [Links -> Seq(Messages)] /\ MsgInv'
<1> DEFINE taken == [chan EXCEPT ![l] = Tail(@)]
<1>1. /\ taken \in [Links -> Seq(Messages)]
      /\ \A k \in Links : \A i \in 1..Len(taken[k]) :
            \E j \in 1..Len(chan[k]) : taken[k][i] = chan[k][j]
  BY TakeFirst, Zenon DEF IInv, TypeOK
<1>2. chan' = taken \/ \E a \in A : chan' = RelaySend(taken, Back(l), a)
  BY Zenon DEF Answer
<1> HIDE DEF taken
<1>3. CASE chan' = taken
  <2>1. ASSUME NEW k \in Links, NEW m \in On(k)'
        PROVE  m \in On(k)
    <3>1. PICK i \in 1..Len(taken[k]) : m = taken[k][i]
      BY <1>3, <2>1, Zenon DEF On
    <3> QED BY <1>1, <3>1, Zenon DEF On
  <2> QED BY <1>1, <1>3, <2>1, MsgKept, Zenon
<1>4. ASSUME NEW a \in A, chan' = RelaySend(taken, Back(l), a)
      PROVE  chan' \in [Links -> Seq(Messages)] /\ MsgInv'
  <2>1. /\ chan' \in [Links -> Seq(Messages)]
        /\ \A k \in Links : \A i \in 1..Len(chan'[k]) :
              \/ k = Back(l) /\ chan'[k][i] = a
              \/ \E j \in 1..Len(taken[k]) : chan'[k][i] = taken[k][j]
    <3>1. Back(l) \in Links /\ a \in Messages
      BY LinkBack, Zenon
    <3>2. RelaySend(taken, Back(l), a) \in [Links -> Seq(Messages)]
      BY <1>1, <3>1, SendLast, Zenon
    <3>3. \A k \in Links : \A i \in 1..Len(RelaySend(taken, Back(l), a)[k]) :
             \/ k = Back(l) /\ RelaySend(taken, Back(l), a)[k][i] = a
             \/ \E j \in 1..Len(taken[k]) :
                   RelaySend(taken, Back(l), a)[k][i] = taken[k][j]
      BY <1>1, <3>1, SendLast, ZenonT(60)
    <3> QED BY <1>4, <3>2, <3>3, Zenon
  <2>2. ASSUME NEW k \in Links, NEW m \in On(k)'
        PROVE  m \in On(k) \/ (m = a /\ k = Back(l))
    <3>1. PICK i \in 1..Len(chan'[k]) : m = chan'[k][i]
      BY <2>2, Zenon DEF On
    <3>2. CASE \E j \in 1..Len(taken[k]) : m = taken[k][j]
      <4>1. PICK j \in 1..Len(taken[k]) : m = taken[k][j]
        BY <3>2, Zenon
      <4>2. PICK n \in 1..Len(chan[k]) : taken[k][j] = chan[k][n]
        BY <1>1, Zenon
      <4> QED BY <4>1, <4>2, Zenon DEF On
    <3> QED BY <2>1, <3>1, <3>2, Zenon
  <2>3. \A k \in Links : \A m \in On(k)' : m \in On(k) \/ (Route(m) = k /\ Sound(m)')
    BY <2>2, Zenon
  <2> QED BY <2>1, <2>3, MsgKept, Zenon
<1> QED BY <1>2, <1>3, <1>4, Zenon

\* A step that leaves the calls alone keeps what is known of them.
LEMMA CallsKept ==
    ASSUME IInv, UNCHANGED <<last, pending, pc, fence, done, reply, buf, seen, ret>>,
           chan' \in [Links -> Seq(Messages)], owed' \subseteq Messages,
           putoffs' \in 0..MaxPutOff,
           served \subseteq served', served' \subseteq Calls \X Replies
    PROVE  TypeOK' /\ PendingAlive' /\ BufInv'
<1>1. TypeOK'
  BY Zenon DEF IInv, TypeOK
<1>2. PendingAlive'
  BY Zenon DEF IInv, PendingAlive, Active
<1>3. BufInv'
  BY Zenon DEF IInv, BufInv
<1> QED BY <1>1, <1>2, <1>3, Zenon

\* Losing a message keeps it.
LEMMA LoseInv ==
    ASSUME IInv, NEW l \in Links, Lose(l)
    PROVE  IInv'
<1>1. Quiet /\ UNCHANGED <<last, pending, pc, fence, done, reply, buf, seen, ret,
                           owed, putoffs, served>>
  BY Zenon DEF Lose, Quiet, Active, frame, peer
<1>2. chan' \in [Links -> Seq(Messages)] /\ MsgInv'
  <2>1. Answer(l, {}) /\ chan[l] # <<>>
    BY Zenon DEF Lose, Answer
  <2>2. \A x \in owed' : x \in owed
    BY <1>1, Zenon
  <2> QED BY <1>1, <2>1, <2>2, AnswerMsgs
<1>3. TypeOK' /\ PendingAlive' /\ BufInv'
  <2>1. /\ owed' \subseteq Messages /\ putoffs' \in 0..MaxPutOff
        /\ served \subseteq served' /\ served' \subseteq Calls \X Replies
    BY <1>1, Zenon DEF IInv, TypeOK
  <2> QED BY <1>1, <1>2, <2>1, CallsKept, Zenon
<1> QED BY <1>1, <1>2, <1>3, FenceKept, Zenon DEF IInv

\* A reply reaches the call it was given to, while that call is running.
LEMMA CompleteInv ==
    ASSUME IInv, NEW l \in Links, chan[l] # <<>>, NEW code \in Codes,
           Head(chan[l]).type # "request",
           code = "ok" => Head(chan[l]).type = "ok",
           Complete(l, Head(chan[l]), code)
    PROVE  IInv'
<1> DEFINE m == Head(chan[l])
<1>1. UNCHANGED <<last, pending, pc, fence, seen, ret, owed, putoffs, served>>
  BY Zenon DEF Complete, peer
<1>2. Quiet
  BY <1>1, Zenon DEF Quiet, Active
<1>3. chan' \in [Links -> Seq(Messages)] /\ MsgInv'
  <2>1. Answer(l, {})
    BY Zenon DEF Complete, Answer
  <2>2. \A x \in owed' : x \in owed
    BY <1>1, Zenon
  <2> QED BY <1>2, <2>1, <2>2, AnswerMsgs
<1>4. PendingAlive'
  BY <1>1, Zenon DEF IInv, PendingAlive, Active
<1>5. CASE UNCHANGED <<done, reply, buf>>
  <2>1. TypeOK' /\ BufInv'
    BY <1>1, <1>3, <1>5, Zenon DEF IInv, TypeOK, BufInv
  <2> QED BY <1>2, <1>3, <1>4, <2>1, FenceKept, Zenon DEF IInv
<1>6. ASSUME NEW c \in Matching(l, m),
             LET fits == code = "ok" /\ Len(m.body) <= Room[c] IN
             /\ reply' = [reply EXCEPT ![c] = IF code = "ok" /\ ~fits
                                              THEN "error" ELSE code]
             /\ buf' = [buf EXCEPT ![c] = IF fits THEN m.body ELSE @]
             /\ done' = [done EXCEPT ![c] = TRUE]
      PROVE  IInv'
  <2>1. /\ c \in Calls /\ Active(c) /\ Caller[c] = l[2] /\ fence[c] = m.fence
    BY <1>6, Zenon DEF Matching, IInv, PendingAlive, TypeOK
  <2>2. m \in Messages /\ m.of \in Calls /\ Route(m) = l /\ Sound(m)
    BY HeadSound, MessageFields, Zenon DEF Sound
  <2>3. Caller[m.of] = l[2]
    BY <2>2 DEF Route
  <2>4. m.of = c
    BY <2>1, <2>2, <2>3, Zenon DEF Sound
  <2>5. code = "ok" => m.body \in Replies /\ <<c, m.body>> \in served
    BY <2>2, <2>4, MessageFields, Zenon DEF Sound
  <2> HIDE DEF m
  <2> DEFINE fits == code = "ok" /\ Len(m.body) <= Room[c]
  <2>6. CASE fits
    <3>1. /\ reply' = [reply EXCEPT ![c] = "ok"]
          /\ buf' = [buf EXCEPT ![c] = m.body]
          /\ done' = [done EXCEPT ![c] = TRUE]
      BY <1>6, <2>6, Zenon
    <3>2. m.body \in Replies /\ m.body # None /\ <<c, m.body>> \in served
      BY <2>5, <2>6, RelayAssumption, Zenon
    <3>3. TypeOK' /\ BufInv'
      BY <1>1, <1>3, <2>1, <3>1, <3>2, Zenon DEF IInv, TypeOK, BufInv, Codes
    <3> QED BY <1>2, <1>3, <1>4, <3>3, FenceKept, Zenon DEF IInv
  <2>7. CASE ~fits
    <3>1. PICK x \in Codes \ {"ok"} :
             /\ reply' = [reply EXCEPT ![c] = x]
             /\ buf' = [buf EXCEPT ![c] = @]
             /\ done' = [done EXCEPT ![c] = TRUE]
      <4>1. CASE code = "ok"
        <5>1. /\ reply' = [reply EXCEPT ![c] = "error"]
              /\ buf' = [buf EXCEPT ![c] = @]
              /\ done' = [done EXCEPT ![c] = TRUE]
          BY <1>6, <2>7, <4>1, Zenon
        <5> QED BY <5>1, Zenon DEF Codes
      <4>2. CASE code # "ok"
        BY <1>6, <2>7, <4>2, Zenon
      <4> QED BY <4>1, <4>2, Zenon
    <3>2. TypeOK' /\ BufInv'
      BY <1>1, <1>3, <2>1, <3>1, Zenon DEF IInv, TypeOK, BufInv
    <3> QED BY <1>2, <1>3, <1>4, <3>2, FenceKept, Zenon DEF IInv
  <2> QED BY <2>6, <2>7, Zenon
<1> QED BY <1>5, <1>6, Zenon DEF Complete

\* Handling a reply or a failure keeps it, also a late one.
LEMMA HandleInv ==
    ASSUME IInv, NEW l \in Links, HandleReply(l) \/ HandleFailure(l)
    PROVE  IInv'
BY CompleteInv, Zenon DEF HandleReply, HandleFailure, Codes


\* The answers to the request m that came by link l are sound.
LEMMA AnswersSound ==
    ASSUME IInv, Quiet, NEW l \in Links, NEW m, m.type = "request",
           Route(m) = l, Sound(m)
    PROVE  /\ \A t \in {"fail", "busy", "retry"} :
                 LET a == Message(t, m.fence, m.of, None) IN
                 a \in Messages /\ Route(a) = Back(l) /\ Sound(a)'
           /\ \A v \in Replies : <<m.of, v>> \in served' =>
                 LET a == Message("ok", m.fence, m.of, v) IN
                 a \in Messages /\ Route(a) = Back(l) /\ Sound(a)'
<1>1. m.of \in Calls /\ m.fence \in 1..FenceMax
  BY MessageFields, Zenon DEF Sound
<1>2. /\ pc'[m.of] # "idle"
      /\ \A d \in Calls : Active(d)' /\ Caller[d] = Caller[m.of]
                           /\ fence'[d] = m.fence => d = m.of
  BY <1>1, Zenon DEF Quiet, Sound
<1>3. Back(l) = <<Target[m.of], Caller[m.of]>>
  BY Zenon DEF Route, Back
<1>4. \A t, b : t # "request" => Route(Message(t, m.fence, m.of, b)) = Back(l)
  BY <1>3, Zenon DEF Route, Message
<1>5. /\ \A t \in {"fail", "busy", "retry"} : Sound(Message(t, m.fence, m.of, None))'
      /\ \A v \in Replies : <<m.of, v>> \in served'
                             => Sound(Message("ok", m.fence, m.of, v))'
  BY <1>1, <1>2, NewSound, Zenon
<1>6. /\ \A v \in Replies : Message("ok", m.fence, m.of, v) \in Messages
      /\ \A t \in {"fail", "busy", "retry"} :
            Message(t, m.fence, m.of, None) \in Messages
  BY <1>1, MessageMade, Zenon
<1> QED BY <1>4, <1>5, <1>6, Zenon

\* Serving a request keeps it.
LEMMA ServeInv ==
    ASSUME IInv, NEW l \in Links, NEW v \in Replies, Serve(l, v)
    PROVE  IInv'
<1>1. PICK m : m = Head(chan[l])
  BY Zenon
<1>2. /\ chan[l] # <<>> /\ m.type = "request"
      /\ Answer(l, {Message("ok", m.fence, m.of, v),
                    Message("fail", m.fence, m.of, None)})
      /\ served' = served \cup {<<m.of, v>>}
      /\ UNCHANGED <<last, pending, pc, fence, done, reply, buf, seen, ret, owed, putoffs>>
  BY <1>1, Zenon DEF Serve, frame
<1>3. Quiet
  BY <1>2, Zenon DEF Quiet, Active
<1>4. Route(m) = l /\ Sound(m) /\ m.of \in Calls
  BY <1>1, <1>2, HeadSound, MessageFields, Zenon DEF Sound
<1>5. chan' \in [Links -> Seq(Messages)] /\ MsgInv'
  <2>1. LET a == Message("ok", m.fence, m.of, v) IN
        a \in Messages /\ Route(a) = Back(l) /\ Sound(a)'
    <3>1. <<m.of, v>> \in served'
      BY <1>2, Zenon
    <3> QED BY <1>2, <1>3, <1>4, <3>1, AnswersSound, Zenon
  <2>2. LET a == Message("fail", m.fence, m.of, None) IN
        a \in Messages /\ Route(a) = Back(l) /\ Sound(a)'
    BY <1>2, <1>3, <1>4, AnswersSound, Zenon
  <2>3. \A a \in {Message("ok", m.fence, m.of, v), Message("fail", m.fence, m.of, None)} :
           a \in Messages /\ Route(a) = Back(l) /\ Sound(a)'
    BY <2>1, <2>2, Zenon
  <2>4. \A x \in owed' : x \in owed
    BY <1>2, Zenon
  <2> QED BY <1>2, <1>3, <2>3, <2>4, AnswerMsgs
<1>6. TypeOK' /\ PendingAlive' /\ BufInv'
  <2>1. /\ owed' \subseteq Messages /\ putoffs' \in 0..MaxPutOff
        /\ served \subseteq Calls \X Replies
    BY <1>2, Zenon DEF IInv, TypeOK
  <2>2. served \subseteq served' /\ served' \subseteq Calls \X Replies
    BY <1>2, <1>4, <2>1
  <2> QED BY <1>2, <1>5, <2>1, <2>2, CallsKept, Zenon
<1> QED BY <1>3, <1>5, <1>6, FenceKept, Zenon DEF IInv

\* Refusing a request keeps it.
LEMMA RefuseInv ==
    ASSUME IInv, NEW l \in Links, Refuse(l)
    PROVE  IInv'
<1>1. PICK m : m = Head(chan[l])
  BY Zenon
<1>2. /\ chan[l] # <<>> /\ m.type = "request"
      /\ Answer(l, {Message("fail", m.fence, m.of, None)})
      /\ UNCHANGED <<last, pending, pc, fence, done, reply, buf, seen, ret, owed,
                     putoffs, served>>
  BY <1>1, Zenon DEF Refuse, frame, peer
<1>3. Quiet
  BY <1>2, Zenon DEF Quiet, Active
<1>4. Route(m) = l /\ Sound(m)
  BY <1>1, <1>2, HeadSound, Zenon
<1>5. chan' \in [Links -> Seq(Messages)] /\ MsgInv'
  <2>1. \A a \in {Message("fail", m.fence, m.of, None)} :
           a \in Messages /\ Route(a) = Back(l) /\ Sound(a)'
    BY <1>2, <1>3, <1>4, AnswersSound
  <2>2. \A x \in owed' : x \in owed
    BY <1>2, Zenon
  <2> QED BY <1>2, <1>3, <2>1, <2>2, AnswerMsgs, SMTT(40)
<1>6. TypeOK' /\ PendingAlive' /\ BufInv'
  <2>1. /\ owed' \subseteq Messages /\ putoffs' \in 0..MaxPutOff
        /\ served \subseteq served' /\ served' \subseteq Calls \X Replies
    BY <1>2, Zenon DEF IInv, TypeOK
  <2> QED BY <1>2, <1>5, <2>1, CallsKept, Zenon
<1> QED BY <1>3, <1>5, <1>6, FenceKept, Zenon DEF IInv

\* Putting a request off keeps it.
LEMMA PutOffInv ==
    ASSUME IInv, NEW l \in Links, PutOff(l)
    PROVE  IInv'
<1>1. PICK m : m = Head(chan[l])
  BY Zenon
<1>2. /\ chan[l] # <<>> /\ m.type = "request"
      /\ putoffs < MaxPutOff /\ putoffs' = putoffs + 1
      /\ UNCHANGED <<last, pending, pc, fence, done, reply, buf, seen, ret, served>>
  BY <1>1, Zenon DEF PutOff, frame
<1>3. PICK t \in {"busy", "retry"} :
         /\ Answer(l, {Message(t, m.fence, m.of, None)})
         /\ owed' = IF t = "busy" THEN owed \cup {m} ELSE owed
  BY <1>1, Zenon DEF PutOff
<1>4. Quiet
  BY <1>2, Zenon DEF Quiet, Active
<1>5. Route(m) = l /\ Sound(m) /\ Sound(m)' /\ m \in Messages
  BY <1>1, <1>2, <1>4, HeadSound, SoundKept, Zenon DEF Sound
<1>6. chan' \in [Links -> Seq(Messages)] /\ MsgInv'
  <2>1. \A a \in {Message(t, m.fence, m.of, None)} :
           a \in Messages /\ Route(a) = Back(l) /\ Sound(a)'
    <3>1. \A x \in {"fail", "busy", "retry"} :
             LET a == Message(x, m.fence, m.of, None) IN
             a \in Messages /\ Route(a) = Back(l) /\ Sound(a)'
      BY <1>2, <1>4, <1>5, AnswersSound, Zenon
    <3> QED BY <3>1, Zenon
  <2>2. \A x \in owed' : x \in owed \/ (x.type = "request" /\ Sound(x)')
    BY <1>2, <1>3, <1>5, Zenon
  <2>3. PICK A : A = {Message(t, m.fence, m.of, None)}
    BY Zenon
  <2>4. Answer(l, A) /\ \A a \in A : a \in Messages /\ Route(a) = Back(l) /\ Sound(a)'
    BY <1>3, <2>1, <2>3, Zenon
  <2> QED BY <1>2, <1>4, <2>2, <2>4, AnswerMsgs, Zenon
<1>7. TypeOK' /\ PendingAlive' /\ BufInv'
  <2>1. owed' \subseteq Messages /\ putoffs' \in 0..MaxPutOff
    BY <1>2, <1>3, <1>5, RelayAssumption DEF IInv, TypeOK
  <2>2. served \subseteq served' /\ served' \subseteq Calls \X Replies
    BY <1>2, Zenon DEF IInv, TypeOK
  <2> QED BY <1>2, <1>6, <2>1, <2>2, CallsKept, Zenon
<1> QED BY <1>4, <1>6, <1>7, FenceKept, Zenon DEF IInv

\* The final reply to a request that was put off keeps it.
LEMMA SettleInv ==
    ASSUME IInv, NEW m \in owed, NEW v \in Replies, Settle(m, v)
    PROVE  IInv'
<1> DEFINE l == <<Target[m.of], Caller[m.of]>>
<1>1. /\ m.type = "request" /\ Sound(m) /\ m.of \in Calls /\ m \in Messages
      /\ Route(m) = <<Caller[m.of], Target[m.of]>>
  BY MessageFields, Zenon DEF IInv, MsgInv, Sound, Route
<1>2. UNCHANGED <<last, pending, pc, fence, done, reply, buf, seen, ret, putoffs>>
  BY Zenon DEF Settle, frame
<1>3. /\ owed' = owed \ {m}
      /\ \/ /\ chan' = RelaySend(chan, l, Message("ok", m.fence, m.of, v))
            /\ served' = served \cup {<<m.of, v>>}
         \/ /\ chan' = RelaySend(chan, l, Message("fail", m.fence, m.of, None))
            /\ served' = served
  BY Zenon DEF Settle
<1>4. Quiet
  BY <1>2, <1>3, Zenon DEF Quiet, Active
<1>5. l \in Links /\ <<Caller[m.of], Target[m.of]>> \in Links
      /\ Back(<<Caller[m.of], Target[m.of]>>) = l
  BY <1>1, CallLinks, Zenon DEF Back
<1>6. PICK a : /\ a \in Messages /\ Route(a) = l /\ Sound(a)'
               /\ chan' = RelaySend(chan, l, a)
  <2>1. /\ \A t \in {"fail", "busy", "retry"} :
              LET a == Message(t, m.fence, m.of, None) IN
              a \in Messages /\ Route(a) = l /\ Sound(a)'
        /\ \A x \in Replies : <<m.of, x>> \in served' =>
              LET a == Message("ok", m.fence, m.of, x) IN
              a \in Messages /\ Route(a) = l /\ Sound(a)'
    BY <1>1, <1>4, <1>5, AnswersSound, Zenon
  <2> QED BY <1>3, <2>1, Zenon
<1> HIDE DEF l
<1>7. chan' \in [Links -> Seq(Messages)] /\ MsgInv'
  <2>1. chan \in [Links -> Seq(Messages)]
    BY Zenon DEF IInv, TypeOK
  <2>2. /\ RelaySend(chan, l, a) \in [Links -> Seq(Messages)]
        /\ \A k \in Links : \A i \in 1..Len(RelaySend(chan, l, a)[k]) :
              \/ k = l /\ RelaySend(chan, l, a)[k][i] = a
              \/ \E j \in 1..Len(chan[k]) : RelaySend(chan, l, a)[k][i] = chan[k][j]
    BY <1>5, <1>6, <2>1, SendLast, Zenon
  <2>3. ASSUME NEW k \in Links, NEW x \in On(k)'
        PROVE  x \in On(k) \/ (Route(x) = k /\ Sound(x)')
    <3>1. PICK i \in 1..Len(chan'[k]) : x = chan'[k][i]
      BY <2>3, Zenon DEF On
    <3> QED BY <1>6, <2>2, <3>1, ZenonT(60) DEF On
  <2> QED BY <1>3, <1>4, <1>6, <2>2, <2>3, MsgKept, Zenon
<1>8. served \subseteq served' /\ served' \subseteq Calls \X Replies
      /\ owed' \subseteq Messages
  <2>1. served \subseteq Calls \X Replies /\ owed \subseteq Messages
    BY Zenon DEF IInv, TypeOK
  <2>2. owed' \subseteq owed /\ (served' = served \cup {<<m.of, v>>} \/ served' = served)
    BY <1>3, Zenon
  <2> QED BY <1>1, <2>1, <2>2
<1>9. TypeOK' /\ PendingAlive' /\ BufInv'
  <2>1. putoffs' \in 0..MaxPutOff
    BY <1>2, Zenon DEF IInv, TypeOK
  <2> QED BY <1>2, <1>7, <1>8, <2>1, CallsKept, Zenon
<1> QED BY <1>4, <1>7, <1>9, FenceKept, Zenon DEF IInv

\* Every step keeps it.
LEMMA NextInv ==
    ASSUME IInv, [Next]_vars
    PROVE  IInv'
<1>1. CASE UNCHANGED vars
  <2>1. UNCHANGED <<last, pending, pc, fence, done, reply, buf, seen, ret, chan,
                    owed, putoffs, served>>
    BY <1>1, Zenon DEF vars, frame, peer
  <2>2. Quiet
    BY <2>1, Zenon DEF Quiet, Active
  <2>3. TypeOK' /\ PendingAlive' /\ BufInv'
    BY <2>1, CallsKept, Zenon DEF IInv, TypeOK
  <2> QED BY <2>1, <2>2, <2>3, FenceKept, MsgUnchanged, Zenon DEF IInv
<1>2. CASE \E c \in Calls : GetNextFence(c)
  BY <1>2, GetNextFenceInv, Zenon
<1>3. CASE \E c \in Calls : Wait(c)
  BY <1>3, WaitInv, Zenon
<1>4. CASE \E c \in Calls, r \in Requests : Send(c, r)
  BY <1>4, SendInv, Zenon
<1>5. CASE \E l \in Links : HandleReply(l) \/ HandleFailure(l)
  BY <1>5, HandleInv, Zenon
<1>6. CASE \E l \in Links : Refuse(l) \/ PutOff(l) \/ Lose(l)
  BY <1>6, RefuseInv, PutOffInv, LoseInv, Zenon
<1>7. CASE \E l \in Links, v \in Replies : Serve(l, v)
  BY <1>7, ServeInv, Zenon
<1>8. CASE \E m \in owed, v \in Replies : Settle(m, v)
  BY <1>8, SettleInv, Zenon
<1> QED BY <1>1, <1>2, <1>3, <1>4, <1>5, <1>6, <1>7, <1>8, Zenon DEF Next
-----------------------------------------------------------------------------
(* What always holds.                                                     *)

\* relay_send_and_wait() and the message handlers keep the state of the relay
\* well formed: fences in range, messages with what their type calls for.
THEOREM TypeCorrect == Spec => []TypeOK
<1>1. IInv => TypeOK
  BY Zenon DEF IInv
<1> QED BY InitInv, NextInv, <1>1, PTL DEF Spec

\* relay_handle_reply() writes only to a pending_relay whose call has not
\* returned, whose stack frame it is.
THEOREM WritesAlive == Spec => []PendingAlive
<1>1. IInv => PendingAlive
  BY Zenon DEF IInv
<1> QED BY InitInv, NextInv, <1>1, PTL DEF Spec

\* Whatever is lost, put off, retried or timed out, once a peer has served a
\* call there is no copy of its request left that could be served again:
\* relay_send_and_wait() sends again only when it was told to and the request
\* it had sent is gone.
THEOREM RequestServedOnce == Spec => []ServedOnce
<1>1. IInv /\ OnceInv => ServedOnce
  <2> SUFFICES ASSUME IInv, OnceInv, NEW m \in InFlight \cup owed,
                      m.type = "request", NEW v \in Replies
               PROVE  <<m.of, v>> \notin served
    BY Zenon DEF ServedOnce
  <2>1. CASE m \in owed
    <3>1. m.of \in Calls /\ Owed(m.of)
      BY <2>1, MessageFields, Zenon DEF IInv, MsgInv, Sound, Owed
    <3> QED BY <3>1, Zenon DEF OnceInv, CallOnce, WasServed
  <2>2. CASE m \in InFlight
    <3>1. PICK l \in Links : \E i \in 1..Len(chan[l]) : m = chan[l][i]
      BY <2>2, Zenon DEF InFlight
    <3>2. m.of \in Calls /\ HasTurn(chan, m.of)
      BY <3>1, MessageFields, Zenon DEF IInv, MsgInv, On, Sound, HasTurn, Turn
    <3> QED BY <3>2, Zenon DEF OnceInv, CallOnce, WasServed
  <2> QED BY <2>1, <2>2, Zenon
<1> QED BY InitInv, NextInv, InitOnce, NextOnce, <1>1, PTL DEF Spec
-----------------------------------------------------------------------------
(* The refinement.                                                         *)

\* A step that starts, serves and ends no call is invisible to the callers.
LEMMA Invisible ==
    ASSUME IInv, UNCHANGED served,
           \A c \in Calls : /\ pc'[c] = "idle" <=> pc[c] = "idle"
                            /\ pc'[c] = "done" <=> pc[c] = "done"
                            /\ pc[c] = "done" => UNCHANGED <<ret[c], buf[c]>>
    PROVE  UNCHANGED Call!vars
<1>1. \A c \in Calls : Result(c)' = Result(c)
  BY Zenon DEF Result
<1> QED BY <1>1, Zenon DEF Call!vars

\* The steps of the waiting caller are steps of the abstract call or change
\* nothing it sees.
LEMMA WaitImplements ==
    ASSUME IInv, NEW c \in Calls, Wait(c)
    PROVE  [Call!Next]_(Call!vars)
<1>1. CASE Unlink(c)
  <2>1. /\ pc[c] = "unlink" /\ pc' = [pc EXCEPT ![c] = "done"]
        /\ UNCHANGED <<buf, ret, served>>
    BY <1>1, Zenon DEF Unlink, peer
  <2> DEFINE v == IF ret[c] = "ok" THEN buf[c] ELSE Failed
  <2>2. /\ Result(c) = None /\ Result(c)' = v
        /\ \A d \in Calls \ {c} : Result(d)' = Result(d)
    BY <2>1, Zenon DEF Result, IInv, TypeOK
  <2>3. <<c, v>> \in served \/ v = Failed
    BY Zenon DEF IInv, BufInv
  <2>4. v \in Replies \cup {Failed}
    BY Zenon DEF IInv, BufInv, TypeOK
  <2>5. {d \in Calls : pc'[d] # "idle"} = {d \in Calls : pc[d] # "idle"}
    BY <2>1, Zenon DEF IInv, TypeOK
  <2>6. [d \in Calls |-> Result(d)'] = [[d \in Calls |-> Result(d)] EXCEPT ![c] = v]
    BY <2>2, Zenon
  <2> HIDE DEF v
  <2>7. Call!Return(c, v)
    BY <2>1, <2>2, <2>3, <2>5, <2>6, Zenon DEF Call!Return
  <2> QED BY <2>4, <2>7, Zenon DEF Call!Next
<1>2. CASE Decide(c)
  <2>1. /\ pc[c] = "decide" /\ pc'[c] \in {"send", "wait", "unlink"}
        /\ \A d \in Calls \ {c} : pc'[d] = pc[d] /\ ret'[d] = ret[d]
        /\ UNCHANGED <<buf, served>>
    BY <1>2, ZenonT(60) DEF Decide, IInv, TypeOK, peer
  <2> QED BY <2>1, Invisible, Zenon
<1>3. CASE AddPending(c) \/ Wake(c) \/ Timeout(c) \/ Check(c) \/ Reinit(c)
  <2>1. /\ pc[c] \notin {"idle", "done"} /\ pc'[c] \notin {"idle", "done"}
        /\ \A d \in Calls \ {c} : pc'[d] = pc[d] /\ ret'[d] = ret[d]
        /\ UNCHANGED <<buf, served>>
    BY <1>3 DEF AddPending, Wake, Timeout, Check, Reinit, IInv, TypeOK, peer, frame
  <2> QED BY <2>1, Invisible, Zenon
<1> QED BY <1>1, <1>2, <1>3, Zenon DEF Wait

\* Starting a call is a step of the abstract call.
LEMMA StartImplements ==
    ASSUME IInv, NEW c \in Calls, GetNextFence(c)
    PROVE  [Call!Next]_(Call!vars)
<1>1. /\ pc[c] = "idle" /\ pc' = [pc EXCEPT ![c] = "add"]
      /\ UNCHANGED <<buf, ret, served>>
  BY Zenon DEF GetNextFence, peer
<1>2. \A d \in Calls : Result(d)' = Result(d)
  BY <1>1, Zenon DEF Result, IInv, TypeOK
<1>3. {d \in Calls : pc'[d] # "idle"} = {d \in Calls : pc[d] # "idle"} \cup {c}
  BY <1>1, Zenon DEF IInv, TypeOK
<1>4. Call!Ask(c)
  BY <1>1, <1>2, <1>3, Zenon DEF Call!Ask
<1> QED BY <1>4, Zenon DEF Call!Next

\* Sending the request is one, too.
LEMMA SendImplements ==
    ASSUME IInv, NEW c \in Calls, NEW r \in Requests, Send(c, r)
    PROVE  [Call!Next]_(Call!vars)
<1>1. /\ pc[c] = "send" /\ pc'[c] \in {"wait", "unlink"}
      /\ \A d \in Calls \ {c} : pc'[d] = pc[d] /\ ret'[d] = ret[d]
      /\ UNCHANGED <<buf, served>>
  BY Zenon DEF Send, IInv, TypeOK, peer
<1> QED BY <1>1, Invisible, Zenon

\* Handling a reply is invisible to the abstract call.
LEMMA HandleImplements ==
    ASSUME IInv, NEW l \in Links, NEW m, NEW code, Complete(l, m, code)
    PROVE  [Call!Next]_(Call!vars)
<1>1. UNCHANGED <<pc, ret, served>>
  BY Zenon DEF Complete, peer
<1>2. \A d \in Calls : pc[d] = "done" => buf'[d] = buf[d]
  BY DEF Complete, Matching, IInv, PendingAlive, Active, TypeOK
<1> QED BY <1>1, <1>2, Invisible, Zenon

\* Serving a call that was made is a step of the abstract peer.
LEMMA ServeImplements ==
    ASSUME IInv, NEW m, Sound(m), NEW v \in Replies,
           served' = served \cup {<<m.of, v>>}, UNCHANGED <<pc, ret, buf>>
    PROVE  [Call!Next]_(Call!vars)
<1>1. m.of \in Calls /\ pc[m.of] # "idle"
  BY MessageFields, Zenon DEF Sound
<1>2. \A d \in Calls : Result(d)' = Result(d)
  BY Zenon DEF Result
<1>3. Call!Serve(m.of, v)
  BY <1>1, <1>2, Zenon DEF Call!Serve
<1> QED BY <1>1, <1>3, Zenon DEF Call!Next

\* Every step of the relay is a step of the abstract call or changes nothing
\* it sees.
LEMMA StepImplements ==
    ASSUME IInv, [Next]_vars
    PROVE  [Call!Next]_(Call!vars)
<1>1. CASE UNCHANGED vars
  BY <1>1, Invisible, Zenon DEF vars, frame, peer
<1>2. CASE \E c \in Calls : GetNextFence(c)
  BY <1>2, StartImplements, Zenon
<1>3. CASE \E c \in Calls : Wait(c)
  BY <1>3, WaitImplements, Zenon
<1>4. CASE \E c \in Calls, r \in Requests : Send(c, r)
  BY <1>4, SendImplements, Zenon
<1>5. CASE \E l \in Links : HandleReply(l) \/ HandleFailure(l)
  BY <1>5, HandleImplements, Zenon DEF HandleReply, HandleFailure
<1>6. CASE \E l \in Links : Refuse(l) \/ PutOff(l) \/ Lose(l)
  BY <1>6, Invisible, Zenon DEF Refuse, PutOff, Lose, frame, peer
<1>7. ASSUME NEW l \in Links, NEW v \in Replies, Serve(l, v)
      PROVE  [Call!Next]_(Call!vars)
  <2>1. PICK m : m = Head(chan[l])
    BY Zenon
  <2>2. Sound(m)
    BY <1>7, <2>1, HeadSound, Zenon DEF Serve
  <2>3. served' = served \cup {<<m.of, v>>} /\ UNCHANGED <<pc, ret, buf>>
    BY <1>7, <2>1, Zenon DEF Serve, frame
  <2> QED BY <2>2, <2>3, ServeImplements, Zenon
<1>8. ASSUME NEW m \in owed, NEW v \in Replies, Settle(m, v)
      PROVE  [Call!Next]_(Call!vars)
  <2>1. Sound(m) /\ UNCHANGED <<pc, ret, buf>>
    BY <1>8, Zenon DEF Settle, frame, IInv, MsgInv
  <2>2. CASE served' = served \cup {<<m.of, v>>}
    BY <2>1, <2>2, ServeImplements, Zenon
  <2>3. CASE served' = served
    BY <2>1, <2>3, Invisible, Zenon
  <2> QED BY <1>8, <2>2, <2>3, Zenon DEF Settle
<1> QED BY <1>1, <1>2, <1>3, <1>4, <1>5, <1>6, <1>7, <1>8, Zenon DEF Next

\* Whatever is lost, late, put off or sent again, and however often the fences
\* come round (each when nothing of its last use is left),
\* relay_send_and_wait() returns a reply its peer gave to that very call, or a
\* failure, and returns once.
THEOREM RelayImplements == Spec => Implements
<1>1. Init => Call!Init
  BY ZenonT(60) DEF Init, Call!Init, Result
<1>2. Spec => []IInv
  BY InitInv, NextInv, PTL DEF Spec
<1>3. IInv /\ [Next]_vars => [Call!Next]_(Call!vars)
  BY StepImplements, Zenon
<1> QED BY <1>1, <1>2, <1>3, PTL DEF Spec, Implements, Call!Spec
-----------------------------------------------------------------------------
(* A VF that comes up over the relay.                                      *)

\* The i-th call of the VF asks for the i-th message of its bringup.
AskedOK(c, q) ==
    /\ c = BootCalls[1] => q \in Handshakes
    /\ \A i \in 2..Len(BootCalls) :
          c = BootCalls[i] => q = <<"runtime", (i - 2) * MaxChunk, MaxChunk>>

AllAsked(ch) ==
    \A k \in Links : \A i \in 1..Len(ch[k]) :
        ch[k][i].type = "request" => AskedOK(ch[k][i].of, ch[k][i].body)

\* Every request under way is what its call asks, and every call that was
\* served was served with what the service makes of that.
AskInv ==
    /\ AllAsked(chan)
    /\ \A m \in owed : AskedOK(m.of, m.body)
    /\ \A c \in Calls, v \in Replies :
          <<c, v>> \in served =>
             \E q \in Requests : AskedOK(c, q) /\ v = Service(q)

Agreed ==
    /\ version \in (0..15) \X (0..15)
    /\ AtMost(version, Latest) /\ version[1] >= BaseMajor

\* The table with the first n registers.
Filled(n) == [i \in 1..RegCount |-> IF i <= n THEN i ELSE None]

\* The VF asks for the registers in order, and has those it has asked for.
ClientInv ==
    /\ turn \in 1..Len(BootCalls)
    /\ step \in {"handshake", "query", "up", "failed"}
    /\ step = "handshake" => turn = 1 /\ version \in Wanted /\ start = 0
    /\ step = "query" =>
          /\ turn >= 2 /\ start = (turn - 2) * MaxChunk /\ start \in 0..RegCount
          /\ Agreed
          /\ start # 0 => regs = Filled(start)
    /\ step = "up" => Agreed /\ regs = [i \in 1..RegCount |-> i]
    /\ step = "failed" => regs = <<>>

BootIInv == IInv /\ AskInv /\ ClientInv

\* Taking the first message of a link leaves only such requests.
LEMMA TakeAsked ==
    ASSUME NEW ch \in [Links -> Seq(Messages)], NEW l \in Links, ch[l] # <<>>,
           AllAsked(ch)
    PROVE  AllAsked([ch EXCEPT ![l] = Tail(@)])
<1> DEFINE new == [ch EXCEPT ![l] = Tail(@)]
<1>1. \A k \in Links : \A i \in 1..Len(new[k]) :
         \E j \in 1..Len(ch[k]) : new[k][i] = ch[k][j]
  BY TakeFirst, Zenon
<1> HIDE DEF new
<1>2. ASSUME NEW k \in Links, NEW i \in 1..Len(new[k]), new[k][i].type = "request"
      PROVE  AskedOK(new[k][i].of, new[k][i].body)
  <2>1. PICK j \in 1..Len(ch[k]) : new[k][i] = ch[k][j]
    BY <1>1, Zenon
  <2>2. ch[k][j].type = "request"
    BY <1>2, <2>1, Zenon
  <2>3. AskedOK(ch[k][j].of, ch[k][j].body)
    BY <2>2, Zenon DEF AllAsked
  <2> QED BY <2>1, <2>3, Zenon
<1>3. AllAsked(new)
  BY <1>2, Zenon DEF AllAsked
<1> QED BY <1>3, Zenon DEF new

\* So does sending an answer, or a request that is one.
LEMMA SendAsked ==
    ASSUME NEW ch \in [Links -> Seq(Messages)], NEW l \in Links,
           NEW m \in Messages, AllAsked(ch),
           m.type = "request" => AskedOK(m.of, m.body)
    PROVE  AllAsked(RelaySend(ch, l, m))
<1> DEFINE new == RelaySend(ch, l, m)
<1>1. \A k \in Links : \A i \in 1..Len(new[k]) :
         (i \in 1..Len(ch[k]) /\ new[k][i] = ch[k][i]) \/ new[k][i] = m
  <2> SUFFICES ASSUME NEW k \in Links, NEW i \in 1..Len(new[k])
               PROVE  (i \in 1..Len(ch[k]) /\ new[k][i] = ch[k][i])
                        \/ new[k][i] = m
    BY Zenon
  <2> QED BY SendSlots
<1> HIDE DEF new
<1>2. AllAsked(new)
  BY <1>1, Zenon DEF AllAsked
<1> QED BY <1>2, Zenon DEF new

\* And handling a message with an answer, or without.
LEMMA AnswerAsked ==
    ASSUME chan \in [Links -> Seq(Messages)], NEW l \in Links, chan[l] # <<>>,
           AllAsked(chan), NEW answers \in SUBSET Messages,
           \A a \in answers : a.type # "request",
           Answer(l, answers)
    PROVE  AllAsked(chan')
<1> DEFINE taken == [chan EXCEPT ![l] = Tail(@)]
<1>1. AllAsked(taken) /\ taken \in [Links -> Seq(Messages)]
  BY TakeAsked, TakeFirst, Zenon
<1>2. CASE chan' = taken
  BY <1>1, <1>2, Zenon
<1>3. CASE \E a \in answers : chan' = RelaySend(taken, Back(l), a)
  <2>1. PICK a \in answers : chan' = RelaySend(taken, Back(l), a)
    BY <1>3
  <2>2. Back(l) \in Links /\ a \in Messages /\ a.type # "request"
    BY LinkBack, Zenon
  <2> HIDE DEF taken
  <2>3. AllAsked(RelaySend(taken, Back(l), a))
    BY <1>1, <2>2, SendAsked, Zenon
  <2> QED BY <2>1, <2>3, Zenon
<1> QED BY <1>2, <1>3, Zenon DEF Answer

\* The first message of a link, when it is a request.
LEMMA FirstRequest ==
    ASSUME IInv, AskInv, NEW l \in Links, chan[l] # <<>>,
           NEW m, m = Head(chan[l]), m.type = "request"
    PROVE  /\ m \in Messages /\ m.of \in Calls /\ m.fence \in 1..FenceMax
           /\ m.body \in Requests /\ AskedOK(m.of, m.body)
<1>1. chan \in [Links -> Seq(Messages)]
  BY Zenon DEF IInv, TypeOK
<1>2. m = chan[l][1] /\ m \in Messages /\ 1 \in 1..Len(chan[l])
  BY <1>1, TakeFirst, Zenon
<1>3. m.of \in Calls /\ m.fence \in 1..FenceMax
  BY <1>2, MessageFields, Zenon
<1>4. m.body \in Requests
  BY <1>2, Zenon DEF Messages
<1>5. AskedOK(m.of, m.body)
  BY <1>2, Zenon DEF AskInv, AllAsked
<1> QED BY <1>2, <1>3, <1>4, <1>5, Zenon

\* A request that is owed a reply.
LEMMA OwedRequest ==
    ASSUME IInv, AskInv, NEW m \in owed
    PROVE  /\ m \in Messages /\ m.of \in Calls /\ m.fence \in 1..FenceMax
           /\ m.body \in Requests /\ AskedOK(m.of, m.body)
<1>1. m \in Messages /\ m.type = "request"
  BY Zenon DEF IInv, MsgInv, Sound
<1>2. m.of \in Calls /\ m.fence \in 1..FenceMax
  BY <1>1, MessageFields, Zenon
<1>3. m.body \in Requests
  BY <1>1, Zenon DEF Messages
<1> QED BY <1>1, <1>2, <1>3, Zenon DEF AskInv

\* The call the VF makes, and what it asks with it.
LEMMA ThisAsked ==
    ASSUME ClientInv, step \in {"handshake", "query"}
    PROVE  This \in Calls /\ Request \in Requests /\ AskedOK(This, Request)
<1>1. /\ BootCalls \in Seq(Calls) /\ turn \in 1..Len(BootCalls)
      /\ 1 \in 1..Len(BootCalls) /\ 2..Len(BootCalls) \subseteq 1..Len(BootCalls)
      /\ \A i, j \in 1..Len(BootCalls) : BootCalls[i] = BootCalls[j] => i = j
  BY BootAssumption DEF ClientInv
<1>2. This \in Calls
  BY <1>1 DEF This
<1>3. CASE step = "handshake"
  <2>1. turn = 1 /\ Request \in Handshakes
    BY <1>3, Zenon DEF ClientInv, Request, Handshakes
  <2>2. This = BootCalls[1] /\ 1 \notin 2..Len(BootCalls)
    BY <2>1 DEF This
  <2>3. \A i \in 2..Len(BootCalls) : This # BootCalls[i]
    BY <1>1, <2>2, Zenon
  <2>4. AskedOK(This, Request)
    BY <2>1, <2>2, <2>3, Zenon DEF AskedOK
  <2> QED BY <1>2, <2>1, <2>4, MessageAssumption, Zenon
<1>4. CASE step = "query"
  <2>1. /\ turn >= 2 /\ start = (turn - 2) * MaxChunk /\ start \in 0..RegCount
        /\ Request = <<"runtime", start, MaxChunk>>
    BY <1>4 DEF ClientInv, Request
  <2>2. Request \in Requests
    BY <2>1, MessageAssumption, Zenon DEF Queries
  <2>3. This = BootCalls[turn] /\ turn # 1
    BY <2>1 DEF This
  <2>4. This # BootCalls[1] /\ \A i \in 2..Len(BootCalls) : This = BootCalls[i] => i = turn
    BY <1>1, <2>3, Zenon
  <2>5. \A i \in 2..Len(BootCalls) :
           This = BootCalls[i] => Request = <<"runtime", (i - 2) * MaxChunk, MaxChunk>>
    BY <2>1, <2>4, Zenon
  <2>6. AskedOK(This, Request)
    BY <2>4, <2>5, Zenon DEF AskedOK
  <2> QED BY <1>2, <2>2, <2>6, Zenon
<1> QED BY <1>3, <1>4, Zenon

\* Every step of the VF and its PF is a step of the relay or leaves it alone.
LEMMA BootStep ==
    ASSUME BootIInv, [BootNext]_bootVars
    PROVE  [Next]_vars
<1>1. CASE UNCHANGED bootVars
  BY <1>1, Zenon DEF bootVars
<1>2. CASE BootCall
  <2>1. This \in Calls /\ Request \in Requests
    BY <1>2, ThisAsked, Zenon DEF BootCall, BootIInv
  <2> QED BY <1>2, <2>1, Zenon DEF BootCall, Next
<1>3. CASE HandshakeReturn \/ ChunkReturn
  BY <1>3, Zenon DEF HandshakeReturn, ChunkReturn
<1>4. ASSUME NEW c \in Calls, Running(c) \/ OtherCall(c) PROVE Next
  <2>1. <<"ack">> \in Requests
    BY MessageAssumption, Zenon
  <2> QED BY <1>4, <2>1, Zenon DEF Running, OtherCall, Next
<1>5. ASSUME NEW l \in Links, Served(l) PROVE Next
  <2> DEFINE m == Head(chan[l])
  <2>1. chan[l] # <<>> /\ m.type = "request"
    BY <1>5, Zenon DEF Served
  <2>2. m.body \in Requests
    BY <2>1, FirstRequest, Zenon DEF BootIInv
  <2>3. Service(m.body) = Failed \/ Service(m.body) \in Replies
    BY <2>2, MessageAssumption, Zenon
  <2>4. Refuse(l) \/ (Serve(l, Service(m.body)) /\ Service(m.body) \in Replies)
    BY <1>5, <2>3, Zenon DEF Served
  <2> QED BY <2>4, Zenon DEF Next
<1>6. ASSUME NEW l \in Links, Network(l) PROVE Next
  BY <1>6, Zenon DEF Network, Next
<1>7. ASSUME NEW m \in owed, Settled(m) PROVE Next
  <2>1. m.body \in Requests
    BY OwedRequest, Zenon DEF BootIInv
  <2>2. <<0>> \in Replies /\ (Service(m.body) = Failed \/ Service(m.body) \in Replies)
    BY <2>1, MessageAssumption, Zenon
  <2>3. \E v \in Replies : Settle(m, v)
    BY <1>7, <2>2, Zenon DEF Settled
  <2> QED BY <2>3, Zenon DEF Next
<1> QED BY <1>1, <1>2, <1>3, <1>4, <1>5, <1>6, <1>7, Zenon DEF BootNext, Client

\* A step that serves nobody and owes nothing new.
LEMMA AskKept ==
    ASSUME AskInv, AllAsked(chan'), owed' \subseteq owed, UNCHANGED served
    PROVE  AskInv'
<1>1. \A m \in owed' : AskedOK(m.of, m.body)
  BY Zenon DEF AskInv
<1>2. \A c \in Calls, v \in Replies :
          <<c, v>> \in served' =>
             \E q \in Requests : AskedOK(c, q) /\ v = Service(q)
  BY Zenon DEF AskInv
<1> QED BY <1>1, <1>2, Zenon DEF AskInv

\* A step that serves the call c with what the service makes of its request.
LEMMA AskServed ==
    ASSUME AskInv, AllAsked(chan'), owed' \subseteq owed,
           NEW c \in Calls, NEW q \in Requests, AskedOK(c, q),
           served' = served \cup {<<c, Service(q)>>}
    PROVE  AskInv'
<1>1. \A m \in owed' : AskedOK(m.of, m.body)
  BY Zenon DEF AskInv
<1>2. ASSUME NEW d \in Calls, NEW v \in Replies, <<d, v>> \in served'
      PROVE  \E r \in Requests : AskedOK(d, r) /\ v = Service(r)
  <2>1. CASE <<d, v>> \in served
    BY <2>1, Zenon DEF AskInv
  <2>2. CASE d = c /\ v = Service(q)
    BY <2>2, Zenon
  <2>3. <<d, v>> \in served \/ <<d, v>> = <<c, Service(q)>>
    BY <1>2, Zenon
  <2> QED BY <2>1, <2>2, <2>3, Zenon
<1> QED BY <1>1, <1>2, Zenon DEF AskInv

\* Answers are messages and no requests.
LEMMA NoRequest ==
    ASSUME NEW c \in Calls, NEW f \in 1..FenceMax
    PROVE  /\ \A v \in Replies : /\ Message("ok", f, c, v) \in Messages
                                 /\ Message("ok", f, c, v).type # "request"
           /\ \A t \in {"fail", "busy", "retry"} :
                 /\ Message(t, f, c, None) \in Messages
                 /\ Message(t, f, c, None).type # "request"
<1>1. \A v \in Replies : Message("ok", f, c, v).type # "request"
  BY DEF Message
<1>2. \A t \in {"fail", "busy", "retry"} : Message(t, f, c, None).type # "request"
  BY DEF Message
<1> QED BY <1>1, <1>2, MessageMade, Zenon

\* The service of the PF takes requests, and answers them.
LEMMA ServedAsk ==
    ASSUME IInv, AskInv, NEW l \in Links, Served(l)
    PROVE  AskInv'
<1>1. PICK m : m = Head(chan[l])
  BY Zenon
<1>2. chan[l] # <<>> /\ m.type = "request"
  BY <1>1, Zenon DEF Served
<1>3. /\ m.of \in Calls /\ m.fence \in 1..FenceMax
      /\ m.body \in Requests /\ AskedOK(m.of, m.body)
  BY <1>1, <1>2, FirstRequest, Zenon
<1>4. chan \in [Links -> Seq(Messages)] /\ AllAsked(chan)
  BY Zenon DEF IInv, TypeOK, AskInv
<1>5. CASE Refuse(l)
  <2>1. PICK as : as = {Message("fail", m.fence, m.of, None)}
    BY Zenon
  <2>2. Answer(l, as) /\ UNCHANGED <<owed, served>>
    BY <1>1, <1>5, <2>1, Zenon DEF Refuse, peer
  <2>3. as \in SUBSET Messages /\ \A a \in as : a.type # "request"
    BY <1>3, <2>1, NoRequest, Zenon
  <2>4. AllAsked(chan')
    BY <1>2, <1>4, <2>2, <2>3, AnswerAsked, Zenon
  <2> QED BY <2>2, <2>4, AskKept, Zenon
<1>6. CASE ~Refuse(l)
  <2>1. Serve(l, Service(m.body)) /\ Service(m.body) # Failed
    BY <1>1, <1>6, Zenon DEF Served
  <2>2. PICK v \in Replies : v = Service(m.body)
    BY <1>3, <2>1, MessageAssumption, Zenon
  <2>3. PICK as : as = {Message("ok", m.fence, m.of, v),
                        Message("fail", m.fence, m.of, None)}
    BY Zenon
  <2>4. Answer(l, as) /\ UNCHANGED owed /\ served' = served \cup {<<m.of, v>>}
    BY <1>1, <2>1, <2>2, <2>3, Zenon DEF Serve
  <2>5. as \in SUBSET Messages /\ \A a \in as : a.type # "request"
    BY <1>3, <2>3, NoRequest, Zenon
  <2>6. AllAsked(chan')
    BY <1>2, <1>4, <2>4, <2>5, AnswerAsked, Zenon
  <2> QED BY <1>3, <2>2, <2>4, <2>6, AskServed, Zenon
<1> QED BY <1>5, <1>6, Zenon

\* So does a peer that owed the reply.
LEMMA SettledAsk ==
    ASSUME IInv, AskInv, NEW m \in owed, Settled(m)
    PROVE  AskInv'
<1>1. /\ m.of \in Calls /\ m.fence \in 1..FenceMax
      /\ m.body \in Requests /\ AskedOK(m.of, m.body)
  BY OwedRequest, Zenon
<1>2. chan \in [Links -> Seq(Messages)] /\ AllAsked(chan)
  BY Zenon DEF IInv, TypeOK, AskInv
<1>3. PICK l \in Links : l = <<Target[m.of], Caller[m.of]>>
  BY <1>1, CallLinks, Zenon
<1>4. ASSUME NEW a \in Messages, a.type # "request", chan' = RelaySend(chan, l, a)
      PROVE  AllAsked(chan')
  <2>1. AllAsked(RelaySend(chan, l, a))
    BY <1>2, <1>4, SendAsked, Zenon
  <2> QED BY <1>4, <2>1, Zenon
<1>5. ASSUME NEW v \in Replies, Settle(m, v)
      PROVE  /\ AllAsked(chan') /\ owed' \subseteq owed
             /\ served' = served \cup {<<m.of, v>>} \/ UNCHANGED served
  <2>1. PICK a : /\ a = Message("ok", m.fence, m.of, v)
                      \/ a = Message("fail", m.fence, m.of, None)
                 /\ chan' = RelaySend(chan, l, a)
    BY <1>3, <1>5, Zenon DEF Settle
  <2>2. a \in Messages /\ a.type # "request"
    BY <1>1, <2>1, NoRequest, Zenon
  <2>3. AllAsked(chan')
    BY <1>4, <2>1, <2>2, Zenon
  <2> QED BY <1>5, <2>3, Zenon DEF Settle
<1>6. CASE UNCHANGED served
  <2>1. PICK v \in Replies : Settle(m, v)
    <3>1. <<0>> \in Replies /\ (Service(m.body) = Failed \/ Service(m.body) \in Replies)
      BY <1>1, MessageAssumption, Zenon
    <3> QED BY <3>1, Zenon DEF Settled
  <2> QED BY <1>5, <1>6, <2>1, AskKept, Zenon
<1>7. CASE ~UNCHANGED served
  <2>1. Settle(m, Service(m.body)) /\ Service(m.body) # Failed
    BY <1>7, Zenon DEF Settled
  <2>2. PICK v \in Replies : v = Service(m.body)
    BY <1>1, <2>1, MessageAssumption, Zenon
  <2>3. /\ AllAsked(chan') /\ owed' \subseteq owed
        /\ served' = served \cup {<<m.of, v>>}
    BY <1>5, <1>7, <2>1, <2>2, Zenon
  <2> QED BY <1>1, <2>2, <2>3, AskServed, Zenon
<1> QED BY <1>6, <1>7, Zenon

\* A call sends only what it asks.
LEMMA SendAsk ==
    ASSUME IInv, AskInv, NEW c \in Calls, NEW q \in Requests, AskedOK(c, q),
           Send(c, q)
    PROVE  AskInv'
<1>1. chan \in [Links -> Seq(Messages)] /\ AllAsked(chan) /\ pc[c] = "send"
  BY Zenon DEF IInv, TypeOK, AskInv, Send
<1>2. UNCHANGED <<owed, served>>
  BY Zenon DEF Send, peer
<1>3. CASE UNCHANGED chan
  BY <1>1, <1>2, <1>3, AskKept, Zenon
<1>4. CASE ~UNCHANGED chan
  <2>1. PICK m : m = Message("request", fence[c], c, q)
    BY Zenon
  <2>2. PICK l \in Links : l = <<Caller[c], Target[c]>>
    BY CallLinks, Zenon
  <2>3. chan' = RelaySend(chan, l, m)
    BY <1>4, <2>1, <2>2, Zenon DEF Send
  <2>4. fence[c] \in 1..FenceMax
    BY <1>1, Zenon DEF IInv, FenceInv, Active
  <2>5. m \in Messages
    BY <2>1, <2>4, MessageMade, Zenon
  <2>6. m.of = c /\ m.body = q
    BY <2>1 DEF Message
  <2>7. AllAsked(RelaySend(chan, l, m))
    BY <1>1, <2>5, <2>6, SendAsked, Zenon
  <2> QED BY <1>2, <2>3, <2>7, AskKept, Zenon
<1> QED BY <1>3, <1>4, Zenon

\* The other messages that are taken.
LEMMA NetworkAsk ==
    ASSUME IInv, AskInv, NEW l \in Links, Network(l)
    PROVE  AskInv'
<1>1. chan \in [Links -> Seq(Messages)] /\ AllAsked(chan)
  BY Zenon DEF IInv, TypeOK, AskInv
<1>2. CASE HandleReply(l) \/ HandleFailure(l) \/ Lose(l)
  <2>1. /\ chan[l] # <<>> /\ chan' = [chan EXCEPT ![l] = Tail(@)]
        /\ UNCHANGED <<owed, served>>
    BY <1>2, Zenon DEF HandleReply, HandleFailure, Lose, Complete, peer
  <2> QED BY <1>1, <2>1, TakeAsked, AskKept, Zenon
<1>3. CASE PutOff(l)
  <2>1. PICK m : m = Head(chan[l])
    BY Zenon
  <2>2. chan[l] # <<>> /\ m.type = "request" /\ UNCHANGED served
    BY <1>3, <2>1, Zenon DEF PutOff
  <2>3. /\ m.of \in Calls /\ m.fence \in 1..FenceMax /\ AskedOK(m.of, m.body)
    BY <2>1, <2>2, FirstRequest, Zenon
  <2>4. PICK type \in {"busy", "retry"} :
           /\ Answer(l, {Message(type, m.fence, m.of, None)})
           /\ owed' = IF type = "busy" THEN owed \cup {m} ELSE owed
    BY <1>3, <2>1, Zenon DEF PutOff
  <2>5. PICK as : as = {Message(type, m.fence, m.of, None)}
    BY Zenon
  <2>6. as \in SUBSET Messages /\ \A a \in as : a.type # "request"
    BY <2>3, <2>5, NoRequest, Zenon
  <2>7. AllAsked(chan')
    BY <1>1, <2>2, <2>4, <2>5, <2>6, AnswerAsked, Zenon
  <2>8. \A n \in owed' : AskedOK(n.of, n.body)
    BY <2>3, <2>4, Zenon DEF AskInv
  <2>9. \A c \in Calls, v \in Replies :
          <<c, v>> \in served' =>
             \E q \in Requests : AskedOK(c, q) /\ v = Service(q)
    BY <2>2, Zenon DEF AskInv
  <2> QED BY <2>7, <2>8, <2>9, Zenon DEF AskInv
<1> QED BY <1>2, <1>3, Zenon DEF Network

\* Every step keeps it.
LEMMA BootAsk ==
    ASSUME BootIInv, [BootNext]_bootVars
    PROVE  AskInv'
<1>1. CASE UNCHANGED <<chan, owed, served>>
  BY <1>1, AskKept, Zenon DEF BootIInv, AskInv
<1>2. CASE UNCHANGED bootVars \/ HandshakeReturn \/ ChunkReturn
  <2>1. UNCHANGED vars
    BY <1>2, Zenon DEF bootVars, HandshakeReturn, ChunkReturn
  <2> QED BY <1>1, <2>1, Zenon DEF vars, peer
<1>3. ASSUME NEW c \in Calls, GetNextFence(c) \/ Wait(c) PROVE AskInv'
  <2>1. UNCHANGED <<chan, owed, served>>
    BY <1>3, Zenon DEF GetNextFence, Wait, AddPending, Wake, Timeout, Check,
                       Reinit, Decide, Unlink, peer
  <2> QED BY <1>1, <2>1, Zenon
<1>4. CASE BootCall
  <2>1. This \in Calls /\ Request \in Requests /\ AskedOK(This, Request)
    BY <1>4, ThisAsked, Zenon DEF BootCall, BootIInv
  <2> QED BY <1>3, <1>4, <2>1, SendAsk, Zenon DEF BootCall, BootIInv
<1>5. ASSUME NEW c \in Calls, OtherCall(c) PROVE AskInv'
  <2>1. <<"ack">> \in Requests
    BY MessageAssumption, Zenon
  <2>2. 1 \in 1..Len(BootCalls) /\ 2..Len(BootCalls) \subseteq 1..Len(BootCalls)
    BY BootAssumption
  <2>3. \A i \in 1..Len(BootCalls) : c # BootCalls[i]
    BY <1>5, Zenon DEF OtherCall, Booting
  <2>4. \A q : AskedOK(c, q)
    BY <2>2, <2>3, Zenon DEF AskedOK
  <2> QED BY <1>3, <1>5, <2>1, <2>4, SendAsk, ZenonT(60) DEF OtherCall, BootIInv
<1>6. ASSUME NEW c \in Calls, Running(c) PROVE AskInv'
  BY <1>3, <1>6, Zenon DEF Running
<1> QED BY <1>2, <1>4, <1>5, <1>6, ServedAsk, NetworkAsk, SettledAsk, Zenon
        DEF BootNext, Client, BootIInv

-----------------------------------------------------------------------------
(* What the service replies, and what the VF makes of it.                  *)

\* A version survives its packing into a dword.
LEMMA Halves ==
    ASSUME NEW v \in (0..15) \X (0..15)
    PROVE  Version(Dword(v)) = v
<1>1. PICK a \in 0..15, b \in 0..15 : v = <<a, b>>
  OBVIOUS
<1>2. (16 * a + b) \div 16 = a /\ (16 * a + b) % 16 = b
  OBVIOUS
<1> QED BY <1>1, <1>2 DEF Version, Dword, HalfSize

\* reply_handshake() agrees on no version but one the PF knows.
LEMMA NegotiateSound ==
    ASSUME NEW w \in Wanted, Negotiate(w) # Failed
    PROVE  /\ Negotiate(w) \in (0..15) \X (0..15)
           /\ AtMost(Negotiate(w), Latest) /\ Negotiate(w)[1] >= BaseMajor
<1>0. w \in (0..15) \X (0..15) /\ Latest \in (0..15) \X (0..15)
  BY BootAssumption, Zenon
<1>1. PICK a \in 0..15, b \in 0..15 : w = <<a, b>>
  BY <1>0, SMTT(40)
<1>2. PICK x \in 0..15, y \in 0..15 : Latest = <<x, y>>
  BY <1>0
<1>3. BaseMajor \in 0..x
  BY <1>2, BootAssumption
<1>4. CASE w = <<0, 0>> \/ a > x
  <2>1. Negotiate(w) = Latest
    BY <1>1, <1>2, <1>3, <1>4, SMTT(40) DEF Negotiate
  <2> QED BY <1>2, <1>3, <2>1, SMTT(40) DEF AtMost
<1>5. CASE w # <<0, 0>> /\ a < BaseMajor
  BY <1>1, <1>2, <1>3, <1>5, SMTT(40) DEF Negotiate
<1>6. CASE w # <<0, 0>> /\ a \in BaseMajor..(x - 1)
  <2>1. Negotiate(w) = w
    BY <1>1, <1>2, <1>3, <1>6, SMTT(40) DEF Negotiate
  <2> QED BY <1>1, <1>2, <1>3, <1>6, <2>1, SMTT(40) DEF AtMost
<1>7. CASE w # <<0, 0>> /\ a = x
  <2>1. Negotiate(w) = <<a, Lesser(y, b)>>
    BY <1>1, <1>2, <1>3, <1>7, SMTT(40) DEF Negotiate
  <2> QED BY <1>1, <1>2, <1>3, <1>7, <2>1, SMTT(40) DEF AtMost, Lesser
<1> QED BY <1>1, <1>2, <1>3, <1>4, <1>5, <1>6, <1>7, SMTT(40)

\* What the VF reads from the reply to its handshake.
LEMMA HandshakeReply ==
    ASSUME NEW q \in Handshakes, Service(q) # Failed
    PROVE  LET v == Version(Service(q)[2]) IN
           v \in (0..15) \X (0..15) /\ AtMost(v, Latest) /\ v[1] >= BaseMajor
<1>1. PICK w \in Wanted : q = <<"handshake", Dword(w)>>
  BY Zenon DEF Handshakes
<1>2. w \in (0..15) \X (0..15)
  BY BootAssumption, Zenon
<1>3. q[1] = "handshake" /\ Version(q[2]) = w
  BY <1>1, <1>2, Halves
<1>4. Service(q) = Handshake(w)
  BY <1>3 DEF Service
<1>5. Negotiate(w) # Failed /\ Service(q) = <<0, Dword(Negotiate(w))>>
  BY <1>4, Zenon DEF Handshake
<1>6. /\ Negotiate(w) \in (0..15) \X (0..15)
      /\ AtMost(Negotiate(w), Latest) /\ Negotiate(w)[1] >= BaseMajor
  BY <1>5, NegotiateSound, Zenon
<1>7. Service(q)[2] = Dword(Negotiate(w))
  BY <1>5
<1>8. Version(Service(q)[2]) = Negotiate(w)
  BY <1>6, <1>7, Halves, Zenon
<1> QED BY <1>6, <1>8, Zenon

\* What it reads from the reply to a query: the count, how many remain, and
\* the registers it has asked for.
LEMMA ChunkReply ==
    ASSUME NEW from \in 0..RegCount
    PROVE  LET r == Service(<<"runtime", from, MaxChunk>>)
               n == Lesser(RegCount - from, MaxChunk)
               chunk == SubSeq(r, 3, Len(r))
           IN  /\ n \in Nat /\ r[2] = RegCount - from - n
               /\ Len(chunk) = n /\ \A i \in 1..n : chunk[i] = from + i
<1> DEFINE q == <<"runtime", from, MaxChunk>>
           r == Service(q)
           n == Lesser(RegCount - from, MaxChunk)
           head == <<n, RegCount - from - n>>
           tail == [i \in 1..n |-> from + i]
           chunk == SubSeq(r, 3, Len(r))
<1>1. /\ RegCount \in Nat /\ MaxChunk \in Nat \ {0} /\ n \in Nat
      /\ Lesser(n, MaxChunk) = n /\ RegCount - from - n \in Nat
  BY BootAssumption DEF Lesser
<1>2. r = head \o tail
  <2>1. r = RuntimeQuery(from, MaxChunk)
    BY DEF Service
  <2>2. ~(from > RegCount) /\ MaxChunk # 0
    BY <1>1
  <2> QED BY <1>1, <2>1, <2>2, Zenon DEF RuntimeQuery
<1> HIDE DEF n, r
<1>3. head \in Seq(Nat) /\ tail \in Seq(Nat) /\ Len(head) = 2 /\ Len(tail) = n
  BY <1>1
<1>4. /\ r \in Seq(Nat) /\ Len(r) = n + 2
      /\ r[2] = RegCount - from - n
      /\ \A i \in 3..(n + 2) : r[i] = tail[i - 2]
  BY <1>1, <1>2, <1>3, SMTT(40)
<1>5. /\ Len(chunk) = n
      /\ \A i \in 1..n : chunk[i] = r[i + 2]
  BY <1>1, <1>4
<1>6. \A i \in 1..n : chunk[i] = from + i
  BY <1>1, <1>4, <1>5
<1> QED BY <1>1, <1>4, <1>5, <1>6, Zenon DEF r, n

\* A call that has returned a reply has that of the service to its request.
LEMMA ReplyOfCall ==
    ASSUME IInv, AskInv, NEW c \in Calls, pc[c] = "done", Result(c) # Failed
    PROVE  \E q \in Requests :
              /\ AskedOK(c, q) /\ Result(c) = Service(q) /\ Service(q) # Failed
<1>1. ret[c] = "ok" /\ Result(c) = buf[c]
  BY Zenon DEF Result
<1>2. buf[c] # None /\ <<c, buf[c]>> \in served
  BY <1>1, Zenon DEF IInv, BufInv
<1>3. buf[c] \in Replies
  BY <1>2, Zenon DEF IInv, TypeOK
<1>4. PICK q \in Requests : AskedOK(c, q) /\ buf[c] = Service(q)
  BY <1>2, <1>3, Zenon DEF AskInv
<1> QED BY <1>1, <1>4, Zenon

\* A VF that gives up keeps no registers.
LEMMA FailClient ==
    ASSUME ClientInv, Fail
    PROVE  ClientInv'
<1>1. step' = "failed" /\ regs' = <<>> /\ turn' = turn
  BY Zenon DEF Fail
<1> QED BY <1>1 DEF ClientInv

\* A VF that goes on after its handshake does so with a version of the PF.
LEMMA HandshakeClient ==
    ASSUME BootIInv, HandshakeReturn
    PROVE  ClientInv'
<1>1. CASE Fail
  BY <1>1, FailClient, Zenon DEF BootIInv
<1>2. CASE ~Fail
  <2>1. /\ step = "handshake" /\ pc[This] = "done" /\ Result(This) # Failed
        /\ version' = Version(Result(This)[2])
        /\ step' = "query" /\ turn' = turn + 1 /\ start' = start
    BY <1>2, Zenon DEF HandshakeReturn, Got
  <2>2. turn = 1 /\ start = 0 /\ This = BootCalls[1]
    BY <2>1 DEF BootIInv, ClientInv, This
  <2>3. This \in Calls
    BY <2>1, ThisAsked, Zenon DEF BootIInv
  <2>4. PICK q \in Requests : /\ AskedOK(This, q) /\ Result(This) = Service(q)
                              /\ Service(q) # Failed
    BY <2>1, <2>3, ReplyOfCall, Zenon DEF BootIInv
  <2>5. q \in Handshakes
    BY <2>2, <2>4, Zenon DEF AskedOK
  <2>6. version' = Version(Service(q)[2])
    BY <2>1, <2>4, Zenon
  <2>7. Agreed'
    BY <2>4, <2>5, <2>6, HandshakeReply, Zenon DEF Agreed
  <2>8. /\ turn' \in 1..Len(BootCalls) /\ turn' >= 2 /\ start' \in 0..RegCount
        /\ start' = (turn' - 2) * MaxChunk /\ start' = 0
    BY <2>1, <2>2, BootAssumption
  <2> QED BY <2>1, <2>7, <2>8, Zenon DEF ClientInv
<1> QED BY <1>1, <1>2, Zenon

\* A chunk is stored where it belongs.
LEMMA StoredChunk ==
    ASSUME NEW from \in 0..RegCount, NEW n \in Nat, from + n <= RegCount,
           NEW chunk, Len(chunk) = n, \A i \in 1..n : chunk[i] = from + i
    PROVE  Stored(Filled(from), from, chunk) = Filled(from + n)
<1> DEFINE table == Filled(from)
<1>1. RegCount \in Nat
  BY BootAssumption
<1>2. Len(table) = RegCount
  BY <1>1 DEF Filled
<1> DEFINE New(i) == IF i \in (from + 1)..(from + n) THEN chunk[i - from]
                                                    ELSE table[i]
<1>3. ASSUME NEW i \in 1..RegCount
      PROVE  New(i) = IF i <= from + n THEN i ELSE None
  <2>0. table[i] = IF i <= from THEN i ELSE None
    BY Zenon DEF Filled
  <2> HIDE DEF table
  <2>1. CASE i <= from
    BY <2>0, <2>1, <1>1, SMTT(40)
  <2>2. CASE i > from /\ i <= from + n
    <3>1. i - from \in 1..n /\ i \in (from + 1)..(from + n)
      BY <2>2, <1>1
    <3>2. chunk[i - from] = from + (i - from)
      BY <3>1
    <3> QED BY <2>2, <3>1, <3>2, <1>1, SMTT(40)
  <2>3. CASE i > from + n
    BY <2>0, <2>3, <1>1
  <2> QED BY <2>1, <2>2, <2>3, <1>1
<1>4. Stored(table, from, chunk) = [i \in 1..RegCount |-> New(i)]
  BY <1>2, Zenon DEF Stored
<1> HIDE DEF New
<1> QED BY <1>3, <1>4, Zenon DEF Filled

\* The VF that has read a chunk has all the registers up to its end, and
\* comes up when there are no more.
LEMMA ChunkClient ==
    ASSUME BootIInv, ChunkReturn
    PROVE  ClientInv'
<1>1. CASE Fail
  BY <1>1, FailClient, Zenon DEF BootIInv
<1>2. CASE ~Fail
  <2> DEFINE r == Result(This)
             chunk == SubSeq(r, 3, Len(r))
             n == Lesser(RegCount - start, MaxChunk)
             table == IF start = 0 THEN [i \in 1..(Len(chunk) + r[2]) |-> None]
                                   ELSE regs
  <2>1. /\ step = "query" /\ pc[This] = "done" /\ r # Failed
        /\ version' = version
        /\ regs' = Stored(table, start, chunk)
        /\ IF r[2] > 0 THEN /\ start' = start + Len(chunk)
                            /\ turn' = turn + 1 /\ step' = step
                       ELSE step' = "up" /\ start' = start /\ turn' = turn
    BY <1>2, Zenon DEF ChunkReturn, Got
  <2>2. /\ turn \in 2..Len(BootCalls) /\ This = BootCalls[turn] /\ Agreed
        /\ start = (turn - 2) * MaxChunk /\ start \in 0..RegCount
        /\ start # 0 => regs = Filled(start)
    BY <2>1, BootAssumption DEF BootIInv, ClientInv, This
  <2>3. This \in Calls
    BY <2>1, ThisAsked, Zenon DEF BootIInv
  <2>4. r = Service(<<"runtime", start, MaxChunk>>)
    <3>1. PICK q \in Requests : AskedOK(This, q) /\ Result(This) = Service(q)
      BY <2>1, <2>3, ReplyOfCall, Zenon DEF BootIInv
    <3>2. q = <<"runtime", (turn - 2) * MaxChunk, MaxChunk>>
      BY <2>2, <3>1, Zenon DEF AskedOK
    <3> QED BY <2>2, <3>1, <3>2, Zenon
  <2> HIDE DEF r
  <2>5. /\ n \in Nat /\ r[2] = RegCount - start - n
        /\ Len(chunk) = n /\ \A i \in 1..n : chunk[i] = start + i
    BY <2>2, <2>4, ChunkReply, Zenon
  <2>6. RegCount \in Nat /\ MaxChunk \in Nat \ {0}
    BY BootAssumption
  <2>7. /\ start + n <= RegCount
        /\ start + n < RegCount => n = MaxChunk
        /\ r[2] > 0 <=> start + n < RegCount
        /\ n + r[2] = RegCount - start
    BY <2>2, <2>5, <2>6 DEF Lesser
  <2> HIDE DEF chunk, n
  <2>8. table = Filled(start)
    <3>1. CASE start = 0
      <4>1. Len(chunk) + r[2] = RegCount
        BY <3>1, <2>5, <2>6, <2>7, SMTT(40)
      <4>2. \A i \in 1..RegCount : ~(i <= start)
        BY <3>1, <2>6
      <4>3. table = [i \in 1..RegCount |-> None]
        BY <3>1, <4>1, Zenon
      <4> QED BY <4>2, <4>3, Zenon DEF Filled
    <3> QED BY <3>1, <2>2, Zenon
  <2> HIDE DEF table
  <2>9. Stored(table, start, chunk) = Filled(start + n)
    <3>1. Stored(Filled(start), start, chunk) = Filled(start + n)
      BY <2>2, <2>5, <2>7, StoredChunk, SMTT(40)
    <3> QED BY <2>8, <3>1, Zenon
  <2>10. Agreed'
    BY <2>1, <2>2, Zenon DEF Agreed
  <2>11. CASE r[2] > 0
    <3>1. start' = start + n /\ turn' = turn + 1 /\ step' = "query" /\ n = MaxChunk
      BY <2>1, <2>5, <2>7, <2>11, Zenon
    <3>2. start' \in 0..RegCount /\ start' < RegCount
      BY <2>2, <2>5, <2>6, <2>7, <2>11, <3>1, SMTT(40)
    <3>3. start' = (turn' - 2) * MaxChunk
      BY <2>2, <2>6, <3>1, BootAssumption, SMTT(40)
    <3>4. turn # Len(BootCalls)
      <4> SUFFICES ASSUME turn = Len(BootCalls) PROVE FALSE
        OBVIOUS
      <4>1. turn' - 2 = Len(BootCalls) - 1
        BY <2>2, <3>1, BootAssumption, SMTT(40)
      <4>2. start' >= RegCount
        BY <3>3, <4>1, BootAssumption, SMTT(40)
      <4> QED BY <3>2, <4>2, <2>6
    <3>5. turn' \in 1..Len(BootCalls) /\ turn' >= 2
      BY <2>2, <3>1, <3>4, BootAssumption, SMTT(40)
    <3>6. regs' = Filled(start')
      BY <2>1, <2>9, <3>1, Zenon
    <3> QED BY <2>10, <3>1, <3>2, <3>3, <3>5, <3>6, Zenon DEF ClientInv
  <2>12. CASE ~(r[2] > 0)
    <3>1. step' = "up" /\ turn' = turn /\ start + n = RegCount
      BY <2>1, <2>2, <2>5, <2>6, <2>7, <2>12, SMTT(40)
    <3>2. \A i \in 1..RegCount : i <= RegCount
      BY <2>6
    <3>3. regs' = [i \in 1..RegCount |-> i]
      BY <2>1, <2>9, <3>1, <3>2, Zenon DEF Filled
    <3>4. turn' \in 1..Len(BootCalls)
      BY <3>1, Zenon DEF BootIInv, ClientInv
    <3> QED BY <2>10, <3>1, <3>3, <3>4, ZenonT(60) DEF ClientInv
  <2> QED BY <2>11, <2>12, Zenon
<1> QED BY <1>1, <1>2, Zenon

\* Every step keeps the three together.
LEMMA BootInv ==
    ASSUME BootIInv, [BootNext]_bootVars
    PROVE  BootIInv'
<1>1. IInv'
  BY BootStep, NextInv, Zenon DEF BootIInv
<1>2. AskInv'
  BY BootAsk, Zenon
<1>3. ClientInv'
  <2>1. CASE UNCHANGED client
    <3>1. UNCHANGED <<step, turn, version, start, regs>>
      BY <2>1, Zenon DEF client
    <3> QED BY <3>1, Zenon DEF BootIInv, ClientInv, Agreed
  <2>2. CASE ~UNCHANGED client
    <3>1. HandshakeReturn \/ ChunkReturn
      BY <2>2, Zenon DEF bootVars, BootNext, Client, BootCall, Running,
                         OtherCall, Served, Network, Settled
    <3> QED BY <3>1, HandshakeClient, ChunkClient, Zenon
  <2> QED BY <2>1, <2>2, Zenon
<1> QED BY <1>1, <1>2, <1>3, Zenon DEF BootIInv

\* It holds when the VF starts.
LEMMA InitBoot == BootInit => BootIInv
<1> SUFFICES ASSUME BootInit PROVE BootIInv
  BY Zenon
<1>1. IInv
  BY InitInv, Zenon DEF BootInit
<1>2. AllAsked(chan)
  BY DEF BootInit, Init, AllAsked
<1>3. AskInv
  BY <1>2, Zenon DEF BootInit, Init, AskInv
<1>4. ClientInv
  BY BootAssumption DEF BootInit, ClientInv
<1> QED BY <1>1, <1>3, <1>4, Zenon DEF BootIInv

\* The relay under a VF that comes up is the relay the theorems above are
\* about: intel_iov_query_version() and intel_iov_query_runtime(), and the
\* service of the PF, use it only as it may be used.  So no reply is written
\* to a call that has returned, no request is served twice, and every call
\* returns its own reply or a failure, in the composed system too.
THEOREM BootIsRelay == BootSpec => Spec
<1>1. BootInit => Init
  BY Zenon DEF BootInit
<1> QED BY <1>1, InitBoot, BootInv, BootStep, PTL DEF BootSpec, Spec

\* Whatever is lost, late, put off or retried, for any number of registers and
\* any size of a chunk: a VF goes on only with a version the PF knows, the
\* table that vf_get_runtime_info_relay() has put together when the VF is up is
\* the PF's, whole and in order, and a VF that gave up keeps none of it.
THEOREM TableIsWhole == BootSpec => []UpSound
<1>1. BootIInv => UpSound
  BY Zenon DEF BootIInv, ClientInv, Agreed, UpSound
<1> QED BY <1>1, InitBoot, BootInv, PTL DEF BootSpec
=============================================================================
