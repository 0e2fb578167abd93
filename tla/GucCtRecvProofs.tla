-------------------------- MODULE GucCtRecvProofs --------------------------
(***************************************************************************)
(* Proofs about GucCtRecv, for any number of pollers and workers, any ring *)
(* size, and any number of messages and resets: who is inside ct_read(),   *)
(* the hand-off to the worker, what a reset leaves in the ring, the order  *)
(* in which messages are handed on, and that a deferred message is         *)
(* processed once.                                                         *)
(***************************************************************************)
EXTENDS GucCtRecv, TLAPS


\* Only the holder of ctb->lock is inside ct_read().
ReadExclusive ==
    \A p \in Procs : pc[p] \in {"ct_read", "msg", "unlock"} => lock = p

-----------------------------------------------------------------------------
(* The operators and the constants.                                        *)

\* Stepping a ring offset and masking it stays inside the ring.
LEMMA OffsetStep == \A o \in Offsets : (o + 1) % Size \in Offsets
  BY SizeAssumption DEF Offsets

\* A ring has a first slot.
LEMMA ZeroOffset == 0 \in Offsets
  BY SizeAssumption DEF Offsets

\* Who takes part in what.
LEMMA ProcsFacts ==
    /\ Irq \in Procs /\ Resetter \in Procs /\ Resetter \in Runners
    /\ Workers \subseteq Procs /\ Pollers \subseteq Procs
    /\ Workers \subseteq Runners /\ Runners \subseteq Procs
    /\ None \notin Procs
  BY ProcsAssumption, Zenon DEF Procs, Runners

\* The number of a message in the ring is a number in range.
LEMMA MsgFacts ==
    /\ NoMsg \in Msg
    /\ \A m \in Msg : m.id \in 0..MaxMsgs
    /\ \A m \in Msg : m.kind # "none" => m.id \in Ids
  BY BoundsAssumption DEF Msg, NoMsg, Ids

-----------------------------------------------------------------------------
(* Type correctness.                                                       *)

\* The initial state is well typed.
LEMMA InitType == Init => TypeOK
  <1> SUFFICES ASSUME Init PROVE TypeOK
    BY Zenon
  <1>1. TypeRing
    <2>1. desc \in [head : Offsets, tail : Offsets, status : BOOLEAN]
      BY ZeroOffset, Zenon DEF Init
    <2>2. cmds \in [Offsets -> Msg]
      BY MsgFacts, Zenon DEF Init
    <2>3. nwritten \in 0..MaxMsgs
      BY BoundsAssumption DEF Init
    <2>4. guc_running \in BOOLEAN /\ irq \in BOOLEAN
      BY Zenon DEF Init
    <2> QED
      BY <2>1, <2>2, <2>3, <2>4, Zenon DEF TypeRing
  <1>2. TypeCtb
    BY ZeroOffset, Zenon DEF Init, TypeCtb
  <1>3. TypeLocal
    BY ZeroOffset DEF Init, TypeLocal
  <1>4. TypeTask
    <2>1. incoming \in Seq(Ids)
      BY DEF Init
    <2>2. tbb_link \in BOOLEAN /\ tbb_tsk \in Workers \cup {None}
      BY Zenon DEF Init
    <2> QED
      BY <2>1, <2>2, Zenon DEF TypeTask
  <1>5. TypeWork
    BY DEF Init, TypeWork
  <1>6. TypeReset /\ TypeHist
    BY BoundsAssumption DEF Init, TypeReset, TypeHist
  <1> QED
    BY <1>1, <1>2, <1>3, <1>4, <1>5, <1>6, Zenon DEF TypeOK

\* GucWrite keeps the types.
LEMMA GucWriteType ==
    ASSUME TypeOK, GucWrite
    PROVE  TypeOK'
  <1>1. TypeRing'
    BY OffsetStep, KindsAssumption, BoundsAssumption DEF GucWrite, TypeOK,
       TypeRing, Msg, Ids
  <1>2. TypeCtb' /\ TypeLocal' /\ TypeTask' /\ TypeWork' /\ TypeReset' /\
     TypeHist'
    BY Zenon DEF GucWrite, TypeOK, ctb_vars, TypeCtb, local_vars, TypeLocal,
       task_vars, TypeTask, work_vars, TypeWork, reset_vars, TypeReset,
       hist_vars, TypeHist
  <1> QED
    BY <1>1, <1>2, Zenon DEF TypeOK

\* EventHandler keeps the types.
LEMMA EventHandlerType ==
    ASSUME TypeOK, EventHandler
    PROVE  TypeOK'
  <1>1. TypeRing'
    BY Zenon DEF EventHandler, TypeOK, TypeRing
  <1>2. TypeLocal'
    BY ProcsFacts, Zenon DEF EventHandler, TypeOK, TypeLocal, Enter
  <1>3. TypeCtb' /\ TypeTask' /\ TypeWork' /\ TypeReset' /\ TypeHist'
    BY Zenon DEF EventHandler, TypeOK, ctb_vars, TypeCtb, task_vars, TypeTask,
       work_vars, TypeWork, reset_vars, TypeReset, hist_vars, TypeHist
  <1> QED
    BY <1>1, <1>2, <1>3, Zenon DEF TypeOK

\* Poll keeps the types.
LEMMA PollType ==
    ASSUME TypeOK, NEW p \in Pollers, Poll(p)
    PROVE  TypeOK'
  <1>1. TypeLocal'
    BY ProcsFacts, Zenon DEF Poll, TypeOK, TypeLocal, Enter
  <1>2. TypeRing' /\ TypeCtb' /\ TypeTask' /\ TypeWork' /\ TypeReset' /\
     TypeHist'
    BY DEF Poll, TypeOK, ring_vars, TypeRing, ctb_vars, TypeCtb, task_vars,
       TypeTask, work_vars, TypeWork, reset_vars, TypeReset, hist_vars,
       TypeHist
  <1> QED
    BY <1>1, <1>2, Zenon DEF TypeOK

\* Trylock keeps the types.
LEMMA TrylockType ==
    ASSUME TypeOK, NEW p \in Procs, Trylock(p)
    PROVE  TypeOK'
  <1>1. TypeCtb'
    BY Zenon DEF Trylock, TypeOK, TypeCtb
  <1>2. TypeLocal'
    BY Zenon DEF Trylock, TypeOK, TypeLocal
  <1>3. TypeRing' /\ TypeTask' /\ TypeWork' /\ TypeReset' /\ TypeHist'
    BY Zenon DEF Trylock, TypeOK, ring_vars, TypeRing, task_vars, TypeTask,
       work_vars, TypeWork, reset_vars, TypeReset, hist_vars, TypeHist
  <1> QED
    BY <1>1, <1>2, <1>3, Zenon DEF TypeOK

\* ReadBegin keeps the types.
LEMMA ReadBeginType ==
    ASSUME TypeOK, NEW p \in Procs, ReadBegin(p)
    PROVE  TypeOK'
  <1>1. TypeCtb'
    BY Zenon DEF ReadBegin, TypeOK, TypeCtb, TypeRing
  <1>2. TypeLocal'
    <2>1. pc' \in [Procs -> {"idle", "enter", "trylock", "ct_read", "msg",
                            "unlock", "recheck", "flush"}]
      BY Zenon DEF ReadBegin, TypeOK, TypeLocal
    <2>2. rhead' \in [Procs -> Offsets] /\ rtail' \in [Procs -> Offsets]
      <3>1. head \in Offsets /\ desc.tail \in Offsets
        BY Zenon DEF TypeOK, TypeRing, TypeCtb
      <3>2. rhead' = rhead \/ rhead' = [rhead EXCEPT ![p] = head]
        BY Zenon DEF ReadBegin
      <3>3. rtail' = rtail \/ rtail' = [rtail EXCEPT ![p] = desc.tail]
        BY Zenon DEF ReadBegin
      <3> QED
        BY <3>1, <3>2, <3>3, Zenon DEF TypeOK, TypeLocal
    <2>3. mq' \in [Procs -> Seq(Ids)]
      BY Zenon DEF ReadBegin, TypeOK, TypeLocal
    <2>4. mq_tail' \in [Procs -> BOOLEAN]
      BY Zenon DEF ReadBegin, TypeOK, TypeLocal
    <2> QED
      BY <2>1, <2>2, <2>3, <2>4, Zenon DEF TypeLocal
  <1>3. TypeRing' /\ TypeTask' /\ TypeWork' /\ TypeReset' /\ TypeHist'
    BY Zenon DEF ReadBegin, TypeOK, ring_vars, TypeRing, task_vars, TypeTask,
       work_vars, TypeWork, reset_vars, TypeReset, hist_vars, TypeHist
  <1> QED
    BY <1>1, <1>2, <1>3, Zenon DEF TypeOK

\* ReadMsg keeps the types.
LEMMA ReadMsgType ==
    ASSUME TypeOK, NEW p \in Procs, ReadMsg(p)
    PROVE  TypeOK'
  <1>1. TypeRing'
    BY OffsetStep, Zenon DEF ReadMsg, TypeOK, TypeRing, Advance, TypeLocal
  <1>2. TypeCtb'
    BY Zenon DEF ReadMsg, TypeOK, TypeCtb, Advance, TypeRing
  <1>3. TypeLocal'
    <2>1. pc' \in [Procs -> {"idle", "enter", "trylock", "ct_read", "msg",
                            "unlock", "recheck", "flush"}]
      BY Zenon DEF ReadMsg, Advance, TypeOK, TypeLocal
    <2>2. rhead' \in [Procs -> Offsets] /\ rtail' \in [Procs -> Offsets]
      <3>1. rhead' \in [Procs -> Offsets]
        <4>1. rhead' = rhead \/ rhead' = [rhead EXCEPT ![p] = (rhead[p] + 1) % Size]
          BY Zenon DEF ReadMsg, Advance
        <4>2. rhead \in [Procs -> Offsets] /\ (rhead[p] + 1) % Size \in Offsets
          BY OffsetStep, Zenon DEF TypeOK, TypeLocal
        <4> QED
          BY <4>1, <4>2, Zenon
      <3>2. rtail' \in [Procs -> Offsets]
        BY Zenon DEF ReadMsg, Advance, TypeOK, TypeLocal, TypeRing
      <3> QED
        BY <3>1, <3>2, Zenon
    <2>3. mq' \in [Procs -> Seq(Ids)]
      <3> DEFINE m == cmds[rhead[p]]
      <3>1. m \in Msg
        BY Zenon DEF TypeOK, TypeLocal, TypeRing
      <3>2. mq' = mq \/ (m.kind = "defer" /\ mq' = [mq EXCEPT ![p] = Append(@,
         m.id)])
        BY Zenon DEF ReadMsg, QueueDeferred
      <3>3. m.kind = "defer" => m.id \in Ids
        BY <3>1, MsgFacts, Zenon
      <3>4. mq \in [Procs -> Seq(Ids)]
        BY Zenon DEF TypeOK, TypeLocal
      <3> HIDE DEF m
      <3>5. m.id \in Ids => Append(mq[p], m.id) \in Seq(Ids)
        BY <3>4
      <3> QED
        BY <3>2, <3>3, <3>4, <3>5, Zenon
    <2>4. mq_tail' \in [Procs -> BOOLEAN]
      BY Zenon DEF ReadMsg, QueueDeferred, TypeOK, TypeLocal
    <2> QED
      BY <2>1, <2>2, <2>3, <2>4, Zenon DEF TypeLocal
  <1>4. TypeHist'
    BY MsgFacts, ZenonT(60) DEF ReadMsg, TypeOK, TypeHist, QueueDeferred, TypeRing,
       TypeLocal
  <1>5. TypeTask' /\ TypeWork' /\ TypeReset'
    BY Zenon DEF ReadMsg, TypeOK, task_vars, TypeTask, work_vars, TypeWork,
       reset_vars, TypeReset
  <1> QED
    BY <1>1, <1>2, <1>3, <1>4, <1>5, Zenon DEF TypeOK

\* Unlock keeps the types.
LEMMA UnlockType ==
    ASSUME TypeOK, NEW p \in Procs, Unlock(p)
    PROVE  TypeOK'
  <1>1. TypeCtb'
    BY Zenon DEF Unlock, TypeOK, TypeCtb
  <1>2. TypeLocal'
    BY Zenon DEF Unlock, TypeOK, TypeLocal
  <1>3. TypeRing' /\ TypeTask' /\ TypeWork' /\ TypeReset' /\ TypeHist'
    BY ZenonT(60) DEF Unlock, TypeOK, ring_vars, TypeRing, task_vars, TypeTask,
       work_vars, TypeWork, reset_vars, TypeReset, hist_vars, TypeHist
  <1> QED
    BY <1>1, <1>2, <1>3, Zenon DEF TypeOK

\* Recheck keeps the types.
LEMMA RecheckType ==
    ASSUME TypeOK, NEW p \in Procs, Recheck(p)
    PROVE  TypeOK'
  <1>1. TypeLocal'
    BY Zenon DEF Recheck, TypeOK, TypeLocal
  <1>2. TypeRing' /\ TypeCtb' /\ TypeTask' /\ TypeWork' /\ TypeReset' /\
     TypeHist'
    BY DEF Recheck, TypeOK, ring_vars, TypeRing, ctb_vars, TypeCtb, task_vars,
       TypeTask, work_vars, TypeWork, reset_vars, TypeReset, hist_vars,
       TypeHist
  <1> QED
    BY <1>1, <1>2, Zenon DEF TypeOK

\* Flush keeps the types.
LEMMA FlushType ==
    ASSUME TypeOK, NEW p \in Procs, Flush(p)
    PROVE  TypeOK'
  <1>1. TypeLocal'
    BY DEF Flush, TypeOK, TypeLocal, Leave
  <1>2. TypeTask'
    BY DEF Flush, TypeOK, TypeTask, TypeLocal
  <1>3. TypeReset'
    BY Zenon DEF Flush, TypeOK, TypeReset, Leave
  <1>4. TypeRing' /\ TypeCtb' /\ TypeWork' /\ TypeHist'
    BY Zenon
       DEF Flush, TypeOK, ring_vars, TypeRing, ctb_vars, TypeCtb, work_vars,
       TypeWork, hist_vars, TypeHist
  <1> QED
    BY <1>1, <1>2, <1>3, <1>4, Zenon DEF TypeOK

\* Dispatch keeps the types.
LEMMA DispatchType ==
    ASSUME TypeOK, NEW w \in Workers, Dispatch(w)
    PROVE  TypeOK'
  <1>1. TypeTask'
    BY Zenon DEF Dispatch, TypeOK, TypeTask
  <1>2. TypeWork'
    BY ProcsFacts, Zenon DEF Dispatch, TypeOK, TypeWork
  <1>3. TypeRing' /\ TypeCtb' /\ TypeLocal' /\ TypeReset' /\ TypeHist'
    BY Zenon DEF Dispatch, TypeOK, ring_vars, TypeRing, ctb_vars, TypeCtb,
       local_vars, TypeLocal, reset_vars, TypeReset, hist_vars, TypeHist
  <1> QED
    BY <1>1, <1>2, <1>3, Zenon DEF TypeOK

\* Take keeps the types.
LEMMA TakeType ==
    ASSUME TypeOK, NEW w \in Runners, Take(w)
    PROVE  TypeOK'
  <1>1. TypeTask'
    BY DEF Take, TypeOK, TypeTask
  <1>2. TypeWork'
    BY Zenon DEF Take, TypeOK, TypeWork, TypeTask
  <1>3. TypeRing' /\ TypeCtb' /\ TypeLocal' /\ TypeReset' /\ TypeHist'
    BY ZenonT(60)
       DEF Take, TypeOK, ring_vars, TypeRing, ctb_vars, TypeCtb, local_vars,
       TypeLocal, reset_vars, TypeReset, hist_vars, TypeHist
  <1> QED
    BY <1>1, <1>2, <1>3, Zenon DEF TypeOK

\* Process keeps the types.
LEMMA ProcessType ==
    ASSUME TypeOK, NEW w \in Runners, Process(w)
    PROVE  TypeOK'
  <1>1. TypeWork'
    BY DEF Process, TypeOK, TypeWork
  <1>2. TypeRing' /\ TypeCtb' /\ TypeLocal' /\ TypeTask' /\ TypeReset' /\
     TypeHist'
    BY DEF Process, TypeOK, ring_vars, TypeRing, ctb_vars, TypeCtb,
       local_vars, TypeLocal, task_vars, TypeTask, reset_vars, TypeReset,
       hist_vars, TypeHist
  <1> QED
    BY <1>1, <1>2, Zenon DEF TypeOK

\* WorkerReceive keeps the types.
LEMMA WorkerReceiveType ==
    ASSUME TypeOK, NEW w \in Runners, WorkerReceive(w)
    PROVE  TypeOK'
  <1>1. TypeLocal'
    BY ProcsFacts, Zenon DEF WorkerReceive, TypeOK, TypeLocal, Enter
  <1>2. TypeWork'
    BY Zenon DEF WorkerReceive, TypeOK, TypeWork
  <1>3. TypeRing' /\ TypeCtb' /\ TypeTask' /\ TypeReset' /\ TypeHist'
    BY DEF WorkerReceive, TypeOK, ring_vars, TypeRing, ctb_vars, TypeCtb,
       task_vars, TypeTask, reset_vars, TypeReset, hist_vars, TypeHist
  <1> QED
    BY <1>1, <1>2, <1>3, Zenon DEF TypeOK

\* ResetStart keeps the types.
LEMMA ResetStartType ==
    ASSUME TypeOK, ResetStart
    PROVE  TypeOK'
  <1>1. TypeRing'
    BY Zenon DEF ResetStart, TypeOK, TypeRing
  <1>2. TypeReset'
    BY BoundsAssumption DEF ResetStart, TypeOK, TypeReset
  <1>3. TypeCtb' /\ TypeLocal' /\ TypeTask' /\ TypeWork' /\ TypeHist'
    BY Zenon DEF ResetStart, TypeOK, ctb_vars, TypeCtb, local_vars, TypeLocal,
       task_vars, TypeTask, work_vars, TypeWork, hist_vars, TypeHist
  <1> QED
    BY <1>1, <1>2, <1>3, Zenon DEF TypeOK

\* ResetDrain keeps the types.
LEMMA ResetDrainType ==
    ASSUME TypeOK, ResetDrain
    PROVE  TypeOK'
  <1>1. TypeLocal'
    BY ProcsFacts, Zenon DEF ResetDrain, TypeOK, TypeLocal, Enter
  <1>2. TypeReset'
    BY Zenon DEF ResetDrain, TypeOK, TypeReset
  <1>3. TypeRing' /\ TypeCtb' /\ TypeTask' /\ TypeWork' /\ TypeHist'
    BY Zenon DEF ResetDrain, TypeOK, ring_vars, TypeRing, ctb_vars, TypeCtb,
       task_vars, TypeTask, work_vars, TypeWork, hist_vars, TypeHist
  <1> QED
    BY <1>1, <1>2, <1>3, Zenon DEF TypeOK

\* ResetRcuBegin keeps the types.
LEMMA ResetRcuBeginType ==
    ASSUME TypeOK, ResetRcuBegin
    PROVE  TypeOK'
  <1>1. TypeReset'
    BY Zenon DEF ResetRcuBegin, TypeOK, TypeReset
  <1>2. TypeRing' /\ TypeCtb' /\ TypeLocal' /\ TypeTask' /\ TypeWork' /\
     TypeHist'
    BY Zenon DEF ResetRcuBegin, TypeOK, ring_vars, TypeRing, ctb_vars, TypeCtb,
       local_vars, TypeLocal, task_vars, TypeTask, work_vars, TypeWork,
       hist_vars, TypeHist
  <1> QED
    BY <1>1, <1>2, Zenon DEF TypeOK

\* CancelTask keeps the types.
LEMMA CancelTaskType ==
    ASSUME TypeOK, CancelTask
    PROVE  TypeOK'
  <1>1. TypeTask'
    BY Zenon DEF CancelTask, TypeOK, TypeTask
  <1>2. TypeReset'
    BY ProcsFacts, Zenon DEF CancelTask, TypeOK, TypeReset, TypeTask
  <1>3. TypeRing' /\ TypeCtb' /\ TypeLocal' /\ TypeWork' /\ TypeHist'
    BY Zenon DEF CancelTask, TypeOK, ring_vars, TypeRing, ctb_vars, TypeCtb,
       local_vars, TypeLocal, work_vars, TypeWork, hist_vars, TypeHist
  <1> QED
    BY <1>1, <1>2, <1>3, Zenon DEF TypeOK

\* ResetParked keeps the types.
LEMMA ResetParkedType ==
    ASSUME TypeOK, ResetParked
    PROVE  TypeOK'
  <1>1. TypeReset'
    BY Zenon DEF ResetParked, TypeOK, TypeReset
  <1>2. TypeRing' /\ TypeCtb' /\ TypeLocal' /\ TypeTask' /\ TypeWork' /\
     TypeHist'
    BY Zenon DEF ResetParked, TypeOK, ring_vars, TypeRing, ctb_vars, TypeCtb,
       local_vars, TypeLocal, task_vars, TypeTask, work_vars, TypeWork,
       hist_vars, TypeHist
  <1> QED
    BY <1>1, <1>2, Zenon DEF TypeOK

\* ResetFinish keeps the types.
LEMMA ResetFinishType ==
    ASSUME TypeOK, ResetFinish
    PROVE  TypeOK'
  <1>1. TypeWork'
    BY ProcsFacts, Zenon DEF ResetFinish, TypeOK, TypeWork
  <1>2. TypeReset'
    BY Zenon DEF ResetFinish, TypeOK, TypeReset
  <1>3. TypeRing' /\ TypeCtb' /\ TypeLocal' /\ TypeTask' /\ TypeHist'
    BY Zenon DEF ResetFinish, TypeOK, ring_vars, TypeRing, ctb_vars, TypeCtb,
       local_vars, TypeLocal, task_vars, TypeTask, hist_vars, TypeHist
  <1> QED
    BY <1>1, <1>2, <1>3, Zenon DEF TypeOK

\* ResetReturn keeps the types.
LEMMA ResetReturnType ==
    ASSUME TypeOK, ResetReturn
    PROVE  TypeOK'
  <1>1. TypeReset'
    BY Zenon DEF ResetReturn, TypeOK, TypeReset
  <1>2. TypeRing' /\ TypeCtb' /\ TypeLocal' /\ TypeTask' /\ TypeWork' /\
     TypeHist'
    BY Zenon DEF ResetReturn, TypeOK, ring_vars, TypeRing, ctb_vars, TypeCtb,
       local_vars, TypeLocal, task_vars, TypeTask, work_vars, TypeWork,
       hist_vars, TypeHist
  <1> QED
    BY <1>1, <1>2, Zenon DEF TypeOK

\* EnableResetLocal keeps the types.
LEMMA EnableResetLocalType ==
    ASSUME TypeOK, EnableResetLocal
    PROVE  TypeOK'
  <1>1. TypeCtb'
    BY ZeroOffset, Zenon DEF EnableResetLocal, TypeOK, TypeCtb
  <1>2. TypeReset'
    BY Zenon DEF EnableResetLocal, TypeOK, TypeReset
  <1>3. TypeRing' /\ TypeLocal' /\ TypeTask' /\ TypeWork' /\ TypeHist'
    BY Zenon DEF EnableResetLocal, TypeOK, ring_vars, TypeRing, local_vars,
       TypeLocal, task_vars, TypeTask, work_vars, TypeWork, hist_vars,
       TypeHist
  <1> QED
    BY <1>1, <1>2, <1>3, Zenon DEF TypeOK

\* EnableResetDesc keeps the types.
LEMMA EnableResetDescType ==
    ASSUME TypeOK, EnableResetDesc
    PROVE  TypeOK'
  <1>1. TypeRing'
    BY ZeroOffset, Zenon DEF EnableResetDesc, TypeOK, TypeRing
  <1>2. TypeReset'
    BY Zenon DEF EnableResetDesc, TypeOK, TypeReset
  <1>3. TypeCtb' /\ TypeLocal' /\ TypeTask' /\ TypeWork' /\ TypeHist'
    BY Zenon
       DEF EnableResetDesc, TypeOK, ctb_vars, TypeCtb, local_vars, TypeLocal,
       task_vars, TypeTask, work_vars, TypeWork, hist_vars, TypeHist
  <1> QED
    BY <1>1, <1>2, <1>3, Zenon DEF TypeOK

\* A step that changes nothing.
LEMMA StutterType == ASSUME TypeOK, UNCHANGED vars PROVE TypeOK'
  BY DEF TypeOK, TypeRing, TypeCtb, TypeLocal, TypeTask, TypeWork, TypeReset,
         TypeHist, vars, ring_vars, ctb_vars, local_vars, task_vars,
            work_vars,
         reset_vars, hist_vars

\* Every step of the receive path keeps the types.
LEMMA NextType == ASSUME TypeOK, [Next]_vars PROVE TypeOK'
  <1>1. CASE GucWrite BY <1>1, GucWriteType, Zenon
  <1>2. CASE EventHandler BY <1>2, EventHandlerType, Zenon
  <1>3. CASE \E p \in Pollers : Poll(p) BY <1>3, PollType, Zenon
  <1>4. CASE \E p \in Procs : Receive(p)
    BY <1>4, TrylockType, ReadBeginType, ReadMsgType, UnlockType, RecheckType,
       FlushType, Zenon DEF Receive
  <1>5. CASE \E w \in Workers : Dispatch(w) BY <1>5, DispatchType, Zenon
  <1>6. CASE \E w \in Runners : Incoming(w)
    BY <1>6, TakeType, ProcessType, WorkerReceiveType, Zenon DEF Incoming
  <1>7. CASE Reset
    BY <1>7, ResetStartType, ResetDrainType, ResetRcuBeginType,
       CancelTaskType,
       ResetParkedType, ResetFinishType, ResetReturnType,
          EnableResetLocalType,
       EnableResetDescType, Zenon DEF Reset
  <1>8. CASE UNCHANGED vars BY <1>8, StutterType, Zenon
  <1> QED
    BY <1>1, <1>2, <1>3, <1>4, <1>5, <1>6, <1>7, <1>8, Zenon DEF Next

\* The receive path is well typed whatever the number of contexts, the size
\* of the ring and the number of resets: no offset ever leaves the ring.
THEOREM TypeCorrect == Spec => []TypeOK
  <1>1. Init => TypeOK
    BY InitType, Zenon
  <1>2. TypeOK /\ [Next]_vars => TypeOK'
    BY NextType, Zenon
  <1> QED
    BY <1>1, <1>2, PTL DEF Spec

-----------------------------------------------------------------------------
(* Mutual exclusion of the readers.                                        *)

\* ctb->lock serialises ct_read(): one step.
LEMMA NextExclusive ==
    ASSUME TypeOK, ReadExclusive, [Next]_vars
    PROVE  ReadExclusive'
  <1>1. CASE GucWrite
    BY <1>1, Zenon
       DEF GucWrite, ctb_vars, local_vars, TypeOK, TypeCtb, TypeLocal,
       ReadExclusive
  <1>2. CASE EventHandler
    BY <1>2, ProcsFacts, Zenon
       DEF EventHandler, ctb_vars, local_vars, Enter, TypeOK,
       TypeCtb, TypeLocal, ReadExclusive
  <1>3. CASE \E p \in Pollers : Poll(p)
    BY <1>3, ProcsFacts, Zenon DEF Poll, ctb_vars, local_vars, Enter, TypeOK,
       TypeCtb, TypeLocal, ReadExclusive
  <1>4. CASE \E p \in Procs : Trylock(p)
    BY <1>4, ProcsFacts DEF Trylock, ctb_vars, local_vars, TypeOK, TypeCtb,
       TypeLocal, ReadExclusive
  <1>5. CASE \E p \in Procs : ReadBegin(p)
    BY <1>5, Zenon
       DEF ReadBegin, ctb_vars, local_vars, TypeOK, TypeCtb, TypeLocal,
       ReadExclusive
  <1>6. CASE \E p \in Procs : ReadMsg(p)
    BY <1>6, Zenon DEF ReadMsg, Advance, ctb_vars, local_vars, TypeOK, TypeCtb,
       TypeLocal, ReadExclusive
  <1>7. CASE \E p \in Procs : Unlock(p)
    BY <1>7, Zenon
       DEF Unlock, ctb_vars, local_vars, TypeOK, TypeCtb, TypeLocal,
       ReadExclusive
  <1>8. CASE \E p \in Procs : Recheck(p)
    BY <1>8, Zenon
       DEF Recheck, ctb_vars, local_vars, TypeOK, TypeCtb, TypeLocal,
       ReadExclusive
  <1>9. CASE \E p \in Procs : Flush(p)
    BY <1>9, Zenon DEF Flush, Leave, ctb_vars, local_vars, TypeOK, TypeCtb,
       TypeLocal, ReadExclusive
  <1>10. CASE \E w \in Workers : Dispatch(w)
    BY <1>10, Zenon
       DEF Dispatch, ctb_vars, local_vars, TypeOK, TypeCtb, TypeLocal,
       ReadExclusive
  <1>11. CASE \E w \in Runners : Take(w)
    BY <1>11, Zenon DEF Take, ctb_vars, local_vars, TypeOK, TypeCtb, TypeLocal,
       ReadExclusive
  <1>12. CASE \E w \in Runners : Process(w)
    BY <1>12, Zenon
       DEF Process, ctb_vars, local_vars, TypeOK, TypeCtb, TypeLocal,
       ReadExclusive
  <1>13. CASE \E w \in Runners : WorkerReceive(w)
    BY <1>13, ProcsFacts DEF WorkerReceive, ctb_vars, local_vars, Enter,
       TypeOK, TypeCtb, TypeLocal, ReadExclusive
  <1>14. CASE ResetStart
    BY <1>14, Zenon
       DEF ResetStart, ctb_vars, local_vars, TypeOK, TypeCtb, TypeLocal,
       ReadExclusive
  <1>15. CASE ResetDrain
    BY <1>15, ProcsFacts, Zenon
       DEF ResetDrain, ctb_vars, local_vars, Enter, TypeOK,
       TypeCtb, TypeLocal, ReadExclusive
  <1>16. CASE ResetRcuBegin
    BY <1>16, Zenon DEF ResetRcuBegin, ctb_vars, local_vars, TypeOK, TypeCtb,
       TypeLocal, ReadExclusive
  <1>17. CASE CancelTask
    BY <1>17, Zenon
       DEF CancelTask, ctb_vars, local_vars, TypeOK, TypeCtb, TypeLocal,
       ReadExclusive
  <1>18. CASE ResetParked
    BY <1>18, Zenon DEF ResetParked, ctb_vars, local_vars, TypeOK, TypeCtb,
       TypeLocal, ReadExclusive
  <1>19. CASE ResetFinish
    BY <1>19, Zenon DEF ResetFinish, ctb_vars, local_vars, TypeOK, TypeCtb,
       TypeLocal, ReadExclusive
  <1>20. CASE ResetReturn
    BY <1>20, Zenon DEF ResetReturn, ctb_vars, local_vars, TypeOK, TypeCtb,
       TypeLocal, ReadExclusive
  <1>21. CASE EnableResetLocal
    BY <1>21, Zenon
       DEF EnableResetLocal, ctb_vars, local_vars, TypeOK, TypeCtb,
       TypeLocal, ReadExclusive
  <1>22. CASE EnableResetDesc
    BY <1>22, Zenon DEF EnableResetDesc, ctb_vars, local_vars, TypeOK, TypeCtb,
       TypeLocal, ReadExclusive
  <1>23. CASE UNCHANGED vars
    BY <1>23, Zenon
       DEF vars, ctb_vars, local_vars, task_vars, work_vars, reset_vars,
       TypeOK, TypeCtb, TypeLocal, ReadExclusive
  <1> QED
    BY <1>1, <1>2, <1>3, <1>4, <1>5, <1>6, <1>7, <1>8, <1>9, <1>10, <1>11,
       <1>12, <1>13, <1>14, <1>15, <1>16, <1>17, <1>18, <1>19, <1>20, <1>21,
       <1>22, <1>23, Zenon DEF Next, Receive, Incoming, Reset

\* However many contexts call intel_guc_ct_receive() at once, only the holder
\* of ctb->lock is inside ct_read() and moves the head of the ring.
THEOREM Exclusion == Spec => []ReadExclusive
  <1>1. Init => ReadExclusive
    BY ZenonT(60) DEF Init, ReadExclusive
  <1>2. TypeOK /\ ReadExclusive /\ [Next]_vars => ReadExclusive'
    BY NextExclusive, Zenon
  <1> QED
    BY <1>1, <1>2, TypeCorrect, PTL DEF Spec

-----------------------------------------------------------------------------
(* The hand-off to the worker.                                             *)

\* Nothing strands a message on ct->requests.incoming: one step.
LEMMA NextHandOff ==
    ASSUME TypeOK, HandOff, [Next]_vars
    PROVE  HandOff'
  <1>1. CASE GucWrite
    BY <1>1, Zenon
       DEF GucWrite, task_vars, work_vars, reset_vars, TypeOK, TypeTask,
       TypeWork, TypeReset, HandOff
  <1>2. CASE EventHandler
    BY <1>2, Zenon DEF EventHandler, task_vars, work_vars, reset_vars, TypeOK,
       TypeTask, TypeWork, TypeReset, HandOff
  <1>3. CASE \E p \in Pollers : Poll(p)
    BY <1>3 DEF Poll, task_vars, work_vars, reset_vars, TypeOK, TypeTask,
       TypeWork, TypeReset, HandOff
  <1>4. CASE \E p \in Procs : Trylock(p)
    BY <1>4 DEF Trylock, task_vars, work_vars, reset_vars, TypeOK, TypeTask,
       TypeWork, TypeReset, HandOff
  <1>5. CASE \E p \in Procs : ReadBegin(p)
    BY <1>5 DEF ReadBegin, task_vars, work_vars, reset_vars, TypeOK, TypeTask,
       TypeWork, TypeReset, HandOff
  <1>6. CASE \E p \in Procs : ReadMsg(p)
    BY <1>6 DEF ReadMsg, task_vars, work_vars, reset_vars, TypeOK, TypeTask,
       TypeWork, TypeReset, HandOff
  <1>7. CASE \E p \in Procs : Unlock(p)
    BY <1>7 DEF Unlock, task_vars, work_vars, reset_vars, TypeOK, TypeTask,
       TypeWork, TypeReset, HandOff
  <1>8. CASE \E p \in Procs : Recheck(p)
    BY <1>8 DEF Recheck, task_vars, work_vars, reset_vars, TypeOK, TypeTask,
       TypeWork, TypeReset, HandOff
  <1>9. CASE \E p \in Procs : Flush(p)
    BY <1>9, Zenon DEF Flush, Leave, task_vars, work_vars, reset_vars, TypeOK,
       TypeTask, TypeWork, TypeReset, HandOff
  <1>10. CASE \E w \in Workers : Dispatch(w)
    BY <1>10, ProcsFacts, Zenon DEF Dispatch, task_vars, work_vars, reset_vars,
       TypeOK, TypeTask, TypeWork, TypeReset, HandOff
  <1>11. CASE \E w \in Runners : Take(w)
    BY <1>11, Zenon
       DEF Take, task_vars, work_vars, reset_vars, TypeOK, TypeTask,
       TypeWork, TypeReset, HandOff
  <1>12. CASE \E w \in Runners : Process(w)
    BY <1>12, Zenon
       DEF Process, task_vars, work_vars, reset_vars, TypeOK, TypeTask,
       TypeWork, TypeReset, HandOff
  <1>13. CASE \E w \in Runners : WorkerReceive(w)
    BY <1>13, Zenon
       DEF WorkerReceive, task_vars, work_vars, reset_vars, TypeOK,
       TypeTask, TypeWork, TypeReset, HandOff
  <1>14. CASE ResetStart
    BY <1>14, Zenon DEF ResetStart, task_vars, work_vars, reset_vars, TypeOK,
       TypeTask, TypeWork, TypeReset, HandOff
  <1>15. CASE ResetDrain
    BY <1>15, Zenon DEF ResetDrain, task_vars, work_vars, reset_vars, TypeOK,
       TypeTask, TypeWork, TypeReset, HandOff
  <1>16. CASE ResetRcuBegin
    BY <1>16, Zenon
       DEF ResetRcuBegin, task_vars, work_vars, reset_vars, TypeOK,
       TypeTask, TypeWork, TypeReset, HandOff
  <1>17. CASE CancelTask
    BY <1>17, Zenon DEF CancelTask, task_vars, work_vars, reset_vars, TypeOK,
       TypeTask, TypeWork, TypeReset, HandOff
  <1>18. CASE ResetParked
    BY <1>18, Zenon DEF ResetParked, task_vars, work_vars, reset_vars, TypeOK,
       TypeTask, TypeWork, TypeReset, HandOff
  <1>19. CASE ResetFinish
    BY <1>19, ProcsFacts, Zenon
       DEF ResetFinish, task_vars, work_vars, reset_vars,
       TypeOK, TypeTask, TypeWork, TypeReset, HandOff
  <1>20. CASE ResetReturn
    BY <1>20, Zenon DEF ResetReturn, task_vars, work_vars, reset_vars, TypeOK,
       TypeTask, TypeWork, TypeReset, HandOff
  <1>21. CASE EnableResetLocal
    BY <1>21, Zenon
       DEF EnableResetLocal, task_vars, work_vars, reset_vars, TypeOK,
       TypeTask, TypeWork, TypeReset, HandOff
  <1>22. CASE EnableResetDesc
    BY <1>22, Zenon
       DEF EnableResetDesc, task_vars, work_vars, reset_vars, TypeOK,
       TypeTask, TypeWork, TypeReset, HandOff
  <1>23. CASE UNCHANGED vars
    BY <1>23, Zenon
       DEF vars, ctb_vars, local_vars, task_vars, work_vars, reset_vars,
       TypeOK, TypeTask, TypeWork, TypeReset, HandOff
  <1> QED
    BY <1>1, <1>2, <1>3, <1>4, <1>5, <1>6, <1>7, <1>8, <1>9, <1>10, <1>11,
       <1>12, <1>13, <1>14, <1>15, <1>16, <1>17, <1>18, <1>19, <1>20, <1>21,
       <1>22, <1>23, Zenon DEF Next, Receive, Incoming, Reset

\* A message deferred to the worker is never stranded: while the list is not
\* empty the task is queued, a runner will look at the list again, or a reset
\* is about to run ct_incoming_request() itself.
THEOREM HandOffSafe == Spec => []HandOff
  <1>1. Init => HandOff
    BY Zenon DEF Init, HandOff
  <1>2. TypeOK /\ HandOff /\ [Next]_vars => HandOff'
    BY NextHandOff, Zenon
  <1> QED
    BY <1>1, <1>2, TypeCorrect, PTL DEF Spec

-----------------------------------------------------------------------------
(* Draining the ring in a reset.                                           *)

\* A runner that has messages to process, and the reset thread elsewhere than
\* in its two calls, is outside intel_guc_ct_receive().
OutsideInv ==
    /\ \A w \in Runners : wpc[w] = "proc" => pc[w] = "idle"
    /\ wpc[Resetter] = "off" /\ rpc # "drained" => pc[Resetter] = "idle"
    /\ wpc[Resetter] # "off" => rpc = "finish"

\* The initial state is outside.
LEMMA InitOutside == Init => OutsideInv
  BY ProcsFacts, Zenon DEF Init, OutsideInv

\* Every step keeps it.
LEMMA NextOutside ==
    ASSUME TypeOK, OutsideInv, [Next]_vars
    PROVE  OutsideInv'
  <1> USE ProcsFacts DEF OutsideInv
  <1>1. CASE GucWrite
    BY <1>1, Zenon DEF GucWrite, local_vars, work_vars, reset_vars
  <1>2. CASE EventHandler
    BY <1>2, ProcsAssumption, Zenon
       DEF EventHandler, Enter, work_vars, reset_vars,
       Runners, TypeOK, TypeLocal
  <1>3. CASE \E p \in Pollers : Poll(p)
    BY <1>3, ProcsAssumption DEF Poll, Enter, work_vars, reset_vars,
       Runners, TypeOK, TypeLocal
  <1>4. ASSUME NEW p \in Procs, Receive(p)
        PROVE  OutsideInv'
    <2>1. /\ pc[p] # "idle" /\ UNCHANGED <<rpc, wpc>>
          /\ \A q \in Procs : q # p => pc'[q] = pc[q]
      BY <1>4, Zenon DEF Receive, Trylock, ReadBegin, ReadMsg, Advance, Unlock,
         Recheck, Flush, Leave, work_vars, reset_vars, TypeOK, TypeLocal
    <2> QED
      BY <2>1, Zenon
  <1>5. CASE \E w \in Workers : Dispatch(w)
    BY <1>5, ProcsAssumption, Zenon
       DEF Dispatch, local_vars, reset_vars, Runners,
       TypeOK, TypeWork
  <1>6. CASE \E w \in Runners : Take(w) \/ Process(w)
    BY <1>6, Zenon DEF Take, Process, local_vars, reset_vars, TypeOK, TypeWork
  <1>7. CASE \E w \in Runners : WorkerReceive(w)
    BY <1>7 DEF WorkerReceive, Enter, reset_vars, TypeOK, TypeWork, TypeLocal
  <1>8. CASE ResetDrain
    BY <1>8, Zenon DEF ResetDrain, Enter, work_vars, TypeOK, TypeLocal
  <1>9. CASE ResetFinish
    BY <1>9, Zenon DEF ResetFinish, local_vars, TypeOK, TypeWork
  <1>10. CASE \/ ResetStart \/ ResetRcuBegin \/ CancelTask \/ ResetParked
              \/ ResetReturn \/ EnableResetLocal \/ EnableResetDesc
              \/ UNCHANGED vars
    <2>1. /\ UNCHANGED <<pc, wpc>>
          /\ rpc' = rpc \/ rpc' # "drained"
          /\ rpc = "drained" => pc[Resetter] = "idle" \/ rpc' = rpc
          /\ rpc = "finish" => wpc[Resetter] = "off" \/ rpc' = rpc
      BY <1>10, Zenon DEF ResetStart, ResetRcuBegin, CancelTask, ResetParked,
         ResetReturn, EnableResetLocal, EnableResetDesc, vars, local_vars,
         work_vars, reset_vars
    <2> QED
      BY <2>1, Zenon
  <1> QED
    BY <1>1, <1>2, <1>3, <1>4, <1>5, <1>6, <1>7, <1>8, <1>9, <1>10, Zenon
       DEF Next, Incoming, Reset

\* While a reset runs the GuC writes nothing; ctb->lock is held only inside
\* ct_read(); and once the reset has looked at the ring it is drained, or
\* somebody is in the loop of intel_guc_ct_receive() and will look again.
DrainInv ==
    /\ nresets = 0 => rpc = "none"
    /\ rpc # "none" => ~guc_running
    /\ lock # None => pc[lock] \in {"ct_read", "msg", "unlock"}
    /\ rpc \notin {"none", "synchronize_hardirq", "enabling"} =>
          \/ head = desc.tail
          \/ \E p \in Procs : pc[p] \notin {"idle", "flush"}

\* Nothing is being reset in the initial state.
LEMMA InitDrain == Init => DrainInv
  BY Zenon DEF Init, DrainInv

\* The steps of intel_guc_ct_receive().
LEMMA ReceiveDrain ==
    ASSUME TypeOK, ReadExclusive, DrainInv, NEW p \in Procs, Receive(p)
    PROVE  DrainInv'
  <1> USE ProcsFacts
  <1>1. CASE Trylock(p)
    <2>1. UNCHANGED <<head, desc, guc_running, rpc, nresets>>
      BY <1>1, Zenon DEF Trylock, ring_vars, reset_vars
    <2>2. CASE lock = None
      <3>1. lock' = p /\ pc'[p] = "ct_read"
        BY <1>1, <2>2, Zenon DEF Trylock, TypeOK, TypeLocal
      <3> QED
        BY <2>1, <3>1, Zenon DEF DrainInv
    <2>3. CASE lock # None
      <3>1. /\ lock' = lock /\ lock \in Procs
            /\ pc[lock] \in {"ct_read", "msg", "unlock"}
        BY <1>1, <2>3, Zenon DEF Trylock, DrainInv, TypeOK, TypeCtb
      <3>2. pc'[lock] = pc[lock]
        BY <1>1, <3>1, Zenon DEF Trylock, TypeOK, TypeLocal
      <3> QED
        BY <2>1, <3>1, <3>2, Zenon DEF DrainInv
    <2> QED
      BY <2>2, <2>3, Zenon
  <1>2. CASE ReadBegin(p)
    BY <1>2, Zenon DEF ReadBegin, DrainInv, ReadExclusive, TypeOK, TypeLocal,
       TypeCtb, TypeReset, ring_vars, reset_vars
  <1>3. CASE ReadMsg(p)
    <2>1. pc' = pc \/ pc' = [pc EXCEPT ![p] = "unlock"]
      BY <1>3, Zenon DEF ReadMsg, Advance
    <2>2. pc[p] = "msg" /\ pc'[p] \in {"msg", "unlock"} /\ lock = p
      BY <1>3, <2>1, Zenon DEF ReadMsg, ReadExclusive, TypeOK, TypeLocal
    <2>3. UNCHANGED <<guc_running, lock, rpc, nresets>>
      BY <1>3, Zenon DEF ReadMsg, reset_vars
    <2> QED
      BY <2>2, <2>3, Zenon DEF DrainInv
  <1>4. CASE Unlock(p)
    BY <1>4, Zenon DEF Unlock, DrainInv, TypeOK, TypeLocal, TypeCtb, TypeReset,
       ring_vars, reset_vars
  <1>5. CASE Recheck(p)
    BY <1>5, Zenon
       DEF Recheck, DrainInv, ReadExclusive, TypeOK, TypeLocal, TypeCtb,
       TypeReset, ring_vars, reset_vars, ctb_vars
  <1>6. CASE Flush(p)
    BY <1>6, Zenon
       DEF Flush, Leave, DrainInv, ReadExclusive, TypeOK, TypeLocal,
       TypeCtb, TypeReset, ring_vars, ctb_vars
  <1> QED
    BY <1>1, <1>2, <1>3, <1>4, <1>5, <1>6, Zenon DEF Receive

\* A context that calls intel_guc_ct_receive() was outside of it before.
LEMMA EnterDrain ==
    ASSUME TypeOK, DrainInv, NEW p \in Procs, pc[p] = "idle", Enter(p),
           UNCHANGED <<desc, guc_running, ctb_vars, rpc, nresets>>
    PROVE  DrainInv'
  BY Zenon DEF Enter, DrainInv, TypeOK, TypeLocal, TypeCtb, ctb_vars

\* The steps of the reset.
LEMMA ResetDrains ==
    ASSUME TypeOK, OutsideInv, DrainInv, Reset
    PROVE  DrainInv'
  <1> USE ProcsFacts
  <1>1. CASE ResetStart
    BY <1>1 DEF ResetStart, DrainInv, TypeOK, TypeReset, ctb_vars, local_vars
  <1>2. CASE ResetDrain
    <2>1. CASE head = desc.tail
      BY <1>2, <2>1, Zenon DEF ResetDrain, Enter, DrainInv, ring_vars, ctb_vars
    <2>2. CASE head # desc.tail
      <3>1. /\ pc[Resetter] = "idle" /\ pc' = [pc EXCEPT ![Resetter] = "enter"]
            /\ UNCHANGED <<guc_running, lock, nresets>>
            /\ rpc = "synchronize_hardirq" /\ rpc' = "drained"
        BY <1>2, <2>2, Zenon
           DEF ResetDrain, Enter, OutsideInv, ring_vars, ctb_vars
      <3>2. pc'[Resetter] = "enter" /\ \A q \in Procs : q # Resetter => pc'[q] = pc[q]
        BY <3>1, Zenon DEF TypeOK, TypeLocal
      <3>3. lock' # None => pc'[lock'] \in {"ct_read", "msg", "unlock"}
        BY <3>1, <3>2, Zenon DEF DrainInv, TypeOK, TypeCtb
      <3> QED
        BY <3>1, <3>2, <3>3, Zenon DEF DrainInv
    <2> QED
      BY <2>1, <2>2, Zenon
  <1>3. CASE EnableResetLocal
    BY <1>3, Zenon DEF EnableResetLocal, DrainInv, ring_vars, local_vars
  <1>4. CASE EnableResetDesc
    BY <1>4, Zenon DEF EnableResetDesc, DrainInv, ctb_vars, local_vars
  <1>5. CASE ResetRcuBegin \/ CancelTask \/ ResetParked \/ ResetFinish
             \/ ResetReturn
    <2>1. /\ UNCHANGED <<ring_vars, ctb_vars, local_vars, nresets>>
          /\ rpc \notin {"none", "synchronize_hardirq", "enabling"}
          /\ rpc' \notin {"none", "synchronize_hardirq", "enabling"}
      BY <1>5, Zenon DEF ResetRcuBegin, CancelTask, ResetParked, ResetFinish,
         ResetReturn
    <2> QED
      BY <2>1, Zenon DEF DrainInv, ring_vars, ctb_vars, local_vars
  <1> QED
    BY <1>1, <1>2, <1>3, <1>4, <1>5, Zenon DEF Reset

\* Every step keeps it.
LEMMA NextDrain ==
    ASSUME TypeOK, ReadExclusive, OutsideInv, DrainInv, [Next]_vars
    PROVE  DrainInv'
  <1> USE ProcsFacts
  <1>1. CASE GucWrite
    BY <1>1, Zenon DEF GucWrite, DrainInv, ctb_vars, local_vars, reset_vars
  <1>2. CASE EventHandler
    BY <1>2, EnterDrain, Zenon DEF EventHandler, reset_vars
  <1>3. CASE \E p \in Pollers : Poll(p)
    BY <1>3, EnterDrain, Zenon DEF Poll, ring_vars, reset_vars
  <1>4. CASE \E p \in Procs : Receive(p)
    BY <1>4, ReceiveDrain, Zenon
  <1>5. CASE \E w \in Runners : WorkerReceive(w)
    BY <1>5, EnterDrain, Zenon
       DEF WorkerReceive, OutsideInv, ring_vars, reset_vars
  <1>6. CASE \/ \E w \in Workers : Dispatch(w)
             \/ \E w \in Runners : Take(w) \/ Process(w)
             \/ UNCHANGED vars
    <2>1. UNCHANGED <<ring_vars, ctb_vars, local_vars, reset_vars>>
      BY <1>6, Zenon DEF Dispatch, Take, Process, vars
    <2> QED
      BY <2>1, Zenon DEF DrainInv, ring_vars, ctb_vars, local_vars, reset_vars
  <1>7. CASE Reset
    BY <1>7, ResetDrains, Zenon
  <1> QED
    BY <1>1, <1>2, <1>3, <1>4, <1>5, <1>6, <1>7, Zenon DEF Next, Incoming

\* When intel_guc_ct_reset() returns, the ring of the stopped GuC has been
\* drained, or a context that came meanwhile is still in the loop that does.
THEOREM ResetDrainsRing == Spec => []ResetLeavesNone
  <1>1. DrainInv => ResetLeavesNone
    BY Zenon DEF DrainInv, ResetLeavesNone
  <1>2. TypeOK /\ ReadExclusive /\ OutsideInv /\ DrainInv /\ [Next]_vars
            => OutsideInv' /\ DrainInv'
    BY NextOutside, NextDrain, Zenon
  <1> QED
    BY <1>1, <1>2, InitOutside, InitDrain, TypeCorrect, Exclusion, PTL DEF Spec

-----------------------------------------------------------------------------
(* The order in which the ring is read.                                    *)

\* How many slots lie between offset a and offset b of the ring.
Dist(a, b) == IF a <= b THEN b - a ELSE b - a + Size

\* How many messages the GuC has written since offset o was its tail.
Left(o) == Dist(o, desc.tail)

\* The slots behind the tail hold the last messages the GuC wrote, in order.
SlotInv ==
    \A s \in Offsets :
        0 < Left(s) /\ Left(s) <= nwritten =>
            cmds[s].id = nwritten - Left(s) + 1 /\ cmds[s].kind # "none"

\* Offset o is where the message after last_read is, unless an error made
\* ct_read() skip some.
NextRead(o) ==
    /\ last_read <= nwritten - Left(o)
    /\ ~broken => last_read = nwritten - Left(o)

\* The unread messages lie between ctb->head and the tail, the claimed ones
\* before ctb->head, and the GuC has been told of none of them.
RingInv ==
    ~Reenabled =>
        /\ SlotInv
        /\ Left(head) <= Left(desc.head) /\ Left(desc.head) <= nwritten
        /\ \A p \in Procs : pc[p] = "msg" =>
              /\ head = rtail[p]
              /\ Left(rtail[p]) < Left(rhead[p])
              /\ Left(rhead[p]) <= Left(desc.head)
              /\ NextRead(rhead[p])
        /\ (\A p \in Procs : pc[p] # "msg") => NextRead(head)

\* Stepping an offset.
LEMMA StepOffset ==
    ASSUME NEW o \in Offsets
    PROVE  (o + 1) % Size = IF o + 1 = Size THEN 0 ELSE o + 1
  BY SizeAssumption DEF Offsets

\* Distances in the ring.
LEMMA DistFacts ==
    ASSUME NEW a \in Offsets, NEW b \in Offsets
    PROVE  /\ Dist(a, b) \in 0..(Size - 1)
           /\ Dist(a, b) = 0 <=> a = b
           /\ Dist(a, b) # 0 => Dist((a + 1) % Size, b) = Dist(a, b) - 1
           /\ Dist(a, b) < Size - 1 => Dist(a, (b + 1) % Size) = Dist(a, b) + 1
           /\ Dist(a, b) = Size - 1 => a = (b + 1) % Size
  <1>1. /\ (a + 1) % Size = IF a + 1 = Size THEN 0 ELSE a + 1
        /\ (b + 1) % Size = IF b + 1 = Size THEN 0 ELSE b + 1
    BY StepOffset, Zenon
  <1>2. /\ a \in Int /\ b \in Int /\ Size \in Int /\ Size > 1
        /\ 0 <= a /\ a < Size /\ 0 <= b /\ b < Size
    BY SizeAssumption DEF Offsets
  <1> QED
    BY <1>1, <1>2 DEF Dist

\* The GuC writes only where it leaves one slot free.
LEMMA SpaceFacts ==
    ASSUME NEW t \in Offsets, NEW h \in Offsets, CircSpace(t, h) >= 1
    PROVE  Dist(h, t) < Size - 1
  <1>1. /\ t \in Int /\ h \in Int /\ Size \in Int /\ Size > 1
        /\ 0 <= t /\ t < Size /\ 0 <= h /\ h < Size
    BY SizeAssumption DEF Offsets
  <1>2. CASE h = t + 1
    BY <1>1, <1>2 DEF CircSpace
  <1>3. CASE h = 0 /\ t = Size - 1
    <2>1. h - (t + 1) = 0 - Size
      BY <1>1, <1>3
    <2>2. (0 - Size) % Size = 0
      BY <1>1
    <2> QED
      BY <2>1, <2>2 DEF CircSpace
  <1> QED
    BY <1>1, <1>2, <1>3 DEF Dist

\* The initial ring is empty.
LEMMA InitRing == Init => RingInv
  <1> SUFFICES ASSUME Init PROVE RingInv
    BY Zenon
  <1>1. /\ desc.tail = 0 /\ desc.head = 0 /\ head = 0 /\ nwritten = 0
        /\ last_read = 0
        /\ \A p \in Procs : pc[p] # "msg"
    BY Zenon DEF Init
  <1>2. Left(0) = 0
    BY <1>1 DEF Left, Dist
  <1>3. SlotInv
    <2>1. \A s \in Offsets : Left(s) \in Int
      BY <1>1, DistFacts, ZeroOffset DEF Left
    <2> QED
      BY <1>1, <2>1 DEF SlotInv
  <1> QED
    BY <1>1, <1>2, <1>3 DEF RingInv, NextRead

\* Only the end of a reset enables the transport again.
LEMMA ReenabledStays ==
    ASSUME TypeOK, DrainInv, [Next]_vars, ~Reenabled'
    PROVE  /\ ~Reenabled
           /\ ~EnableResetLocal /\ ~EnableResetDesc
  <1> USE DEF Reenabled
  <1>1. CASE UNCHANGED <<rpc, nresets>>
    BY <1>1, Zenon DEF EnableResetLocal, EnableResetDesc
  <1>2. CASE ResetStart
    BY <1>2 DEF ResetStart, EnableResetLocal, EnableResetDesc, TypeOK,
       TypeReset
  <1>3. CASE EnableResetLocal \/ EnableResetDesc
    BY <1>3 DEF EnableResetLocal, EnableResetDesc, DrainInv, TypeOK,
       TypeReset
  <1>4. CASE ResetDrain \/ ResetRcuBegin \/ CancelTask \/ ResetParked
             \/ ResetFinish \/ ResetReturn
    BY <1>4, Zenon DEF ResetDrain, ResetRcuBegin, CancelTask, ResetParked,
       ResetFinish, ResetReturn, EnableResetLocal, EnableResetDesc
  <1>5. \/ UNCHANGED <<rpc, nresets>> \/ ResetStart
        \/ EnableResetLocal \/ EnableResetDesc
        \/ ResetDrain \/ ResetRcuBegin \/ CancelTask \/ ResetParked
        \/ ResetFinish \/ ResetReturn
    BY Zenon
       DEF Next, GucWrite, EventHandler, Poll, Receive, Trylock, ReadBegin,
       ReadMsg, Unlock, Recheck, Flush, Leave, Dispatch, Incoming, Take,
       Process, WorkerReceive, Reset, reset_vars, vars
  <1> QED
    BY <1>1, <1>2, <1>3, <1>4, <1>5, Zenon

\* What the steps that do not read or write the ring leave alone.
LEMMA RingKept ==
    ASSUME RingInv, ~Reenabled,
           UNCHANGED <<head, desc, cmds, nwritten, broken, last_read>>,
           \A p \in Procs :
              /\ pc'[p] = "msg" <=> pc[p] = "msg"
              /\ pc[p] = "msg" => UNCHANGED <<rhead[p], rtail[p]>>
    PROVE  RingInv'
  <1>1. \A o : Left(o)' = Left(o)
    BY Zenon DEF Left
  <1>2. SlotInv'
    BY <1>1, Zenon DEF RingInv, SlotInv
  <1>3. \A o : NextRead(o)' = NextRead(o)
    BY <1>1, Zenon DEF NextRead
  <1> QED
    BY <1>1, <1>2, <1>3, Zenon DEF RingInv

\* The GuC writes its next message at the tail, where nothing is unread.
LEMMA GucWriteRing ==
    ASSUME TypeOK, RingInv, ~Reenabled, GucWrite
    PROVE  RingInv'
  <1>1. /\ head \in Offsets /\ desc.head \in Offsets /\ desc.tail \in Offsets
        /\ rhead \in [Procs -> Offsets] /\ rtail \in [Procs -> Offsets]
        /\ nwritten \in Nat /\ Size \in Int
    BY SizeAssumption DEF TypeOK, TypeRing, TypeCtb, TypeLocal
  <1>2. /\ desc'.tail = (desc.tail + 1) % Size /\ desc'.head = desc.head
        /\ nwritten' = nwritten + 1
        /\ UNCHANGED <<head, broken, last_read, pc, rhead, rtail>>
        /\ CircSpace(desc.tail, desc.head) >= 1
    BY Zenon DEF GucWrite, ctb_vars, local_vars, hist_vars, TypeOK, TypeRing
  <1>3. Left(desc.head) < Size - 1
    BY <1>1, <1>2, SpaceFacts, Zenon DEF Left
  <1>4. \A o \in Offsets : Left(o) < Size - 1 => Left(o)' = Left(o) + 1
    BY <1>1, <1>2, DistFacts DEF Left
  <1>5. \A o \in Offsets : Left(o) \in 0..(Size - 1) /\ Left(o)' \in Int
    BY <1>1, <1>2, DistFacts, OffsetStep DEF Left
  <1>6. SlotInv'
    <2> SUFFICES ASSUME NEW s \in Offsets, 0 < Left(s)', Left(s)' <= nwritten'
                 PROVE  /\ cmds'[s].id = nwritten' - Left(s)' + 1
                        /\ cmds'[s].kind # "none"
      BY Zenon DEF SlotInv
    <2>1. PICK k \in Kinds :
             cmds' = [cmds EXCEPT ![desc.tail] =
                                     [id |-> nwritten + 1, kind |-> k]]
      BY Zenon DEF GucWrite
    <2>2. Left(s) < Size - 1
      <3>1. Left(s) = Size - 1 => s = (desc.tail + 1) % Size
        BY <1>1, DistFacts, Zenon DEF Left
      <3>2. s # desc'.tail
        BY <1>1, <1>2, OffsetStep, DistFacts, SMTT(40) DEF Left
      <3> QED
        BY <1>2, <1>5, <3>1, <3>2, <1>1
    <2>3. CASE s = desc.tail
      <3>1. Left(s) = 0
        BY <1>1, <2>3, DistFacts, ZenonT(60) DEF Left
      <3>2. cmds'[s] = [id |-> nwritten + 1, kind |-> k]
        BY <1>1, <2>1, <2>3, Zenon DEF TypeOK, TypeRing
      <3> QED
        BY <1>1, <1>2, <1>4, <2>2, <3>1, <3>2, KindsAssumption
    <2>4. CASE s # desc.tail
      <3>1. 0 < Left(s) /\ Left(s)' = Left(s) + 1
        BY <1>1, <1>4, <1>5, <2>2, <2>4, DistFacts DEF Left
      <3>2. cmds'[s] = cmds[s]
        BY <1>1, <2>1, <2>4, Zenon DEF TypeOK, TypeRing
      <3>3. cmds[s].id = nwritten - Left(s) + 1 /\ cmds[s].kind # "none"
        BY <1>1, <1>2, <1>5, <3>1, SMTT(40) DEF RingInv, SlotInv
      <3> QED
        BY <1>1, <1>2, <1>5, <3>1, <3>2, <3>3
    <2> QED
      BY <2>3, <2>4, Zenon
  <1>7. \A o \in Offsets : Left(o) <= Left(desc.head)
            => Left(o)' = Left(o) + 1 /\ (NextRead(o) => NextRead(o)')
    BY <1>1, <1>2, <1>3, <1>4, <1>5, SMTT(40) DEF NextRead, TypeOK, TypeHist
  <1>8. /\ Left(head)' <= Left(desc.head)' /\ Left(desc.head)' <= nwritten'
        /\ Left(desc.head)' = Left(desc.head) + 1
    BY <1>1, <1>2, <1>5, <1>7, SMTT(40) DEF RingInv
  <1>9. ASSUME NEW p \in Procs, pc'[p] = "msg"
        PROVE  /\ head' = rtail'[p] /\ Left(rtail[p])' < Left(rhead[p])'
               /\ Left(rhead[p])' <= Left(desc.head)'
               /\ NextRead(rhead[p])'
    BY <1>1, <1>2, <1>5, <1>7, <1>8, <1>9 DEF RingInv
  <1>10. (\A p \in Procs : pc'[p] # "msg") => NextRead(head)'
    BY <1>1, <1>2, <1>7, Zenon DEF RingInv
  <1> QED
    BY <1>2, <1>6, <1>8, <1>9, <1>10, Zenon DEF RingInv

\* ct_read() claims what lies before the tail.
LEMMA ReadBeginRing ==
    ASSUME TypeOK, ReadExclusive, RingInv, ~Reenabled, NEW p \in Procs,
           ReadBegin(p)
    PROVE  RingInv'
  <1>1. /\ head \in Offsets /\ desc.head \in Offsets /\ desc.tail \in Offsets
        /\ nwritten \in Nat /\ last_read \in Nat /\ Size \in Int
    BY SizeAssumption DEF TypeOK, TypeRing, TypeCtb, TypeHist
  <1>2. UNCHANGED <<desc, cmds, nwritten, last_read>>
    BY Zenon DEF ReadBegin, ring_vars, hist_vars
  <1>3. \A q \in Procs : pc[q] # "msg"
    BY Zenon DEF ReadExclusive, ReadBegin
  <1>4. \A q \in Procs : q # p => pc'[q] # "msg"
    BY <1>3, Zenon DEF ReadBegin, TypeOK, TypeLocal
  <1>5. \A o : Left(o)' = Left(o)
    BY <1>2, Zenon DEF Left
  <1>6. SlotInv'
    BY <1>2, <1>5, Zenon DEF RingInv, SlotInv
  <1>7. /\ Left(desc.tail) = 0
        /\ \A o \in Offsets : /\ Left(o) \in 0..(Size - 1)
                              /\ o # desc.tail => 0 < Left(o)
    BY <1>1, DistFacts DEF Left
  <1>8. NextRead(head) /\ Left(head) <= Left(desc.head) /\ Left(desc.head) <= nwritten
    BY <1>3, Zenon DEF RingInv
  <1>9. CASE head = desc.tail
    <2>1. UNCHANGED <<head, broken>> /\ pc'[p] # "msg"
      BY <1>9, Zenon DEF ReadBegin, TypeOK, TypeLocal
    <2> QED
      BY <1>2, <1>3, <1>4, <2>1, RingKept, Zenon
  <1>10. CASE head # desc.tail /\ desc.status
    <2>1. head' = desc.tail /\ broken' = TRUE /\ pc'[p] # "msg"
      BY <1>10, ZenonT(60) DEF ReadBegin, TypeOK, TypeLocal
    <2>2. NextRead(head)'
      BY <1>1, <1>2, <1>5, <1>7, <1>8, <2>1, SMTT(40) DEF NextRead
    <2>3. Left(head)' <= Left(desc.head)' /\ Left(desc.head)' <= nwritten'
      BY <1>1, <1>2, <1>5, <1>7, <1>8, <2>1
    <2> QED
      BY <1>4, <1>6, <2>1, <2>2, <2>3, Zenon DEF RingInv
  <1>11. CASE head # desc.tail /\ ~desc.status
    <2>1. /\ head' = desc.tail /\ broken' = broken /\ pc'[p] = "msg"
          /\ rhead'[p] = head /\ rtail'[p] = desc.tail
      BY <1>11, Zenon DEF ReadBegin, TypeOK, TypeLocal
    <2>2. Left(head)' = 0 /\ Left(rtail[p])' = 0 /\ Left(rhead[p])' = Left(head)
          /\ Left(desc.head)' = Left(desc.head)
      BY <1>2, <1>5, <1>7, <2>1, Zenon
    <2>3. NextRead(rhead[p])'
      BY <1>2, <1>8, <2>1, <2>2, ZenonT(60) DEF NextRead
    <2>4. /\ Left(rtail[p])' < Left(rhead[p])'
          /\ Left(rhead[p])' <= Left(desc.head)'
          /\ Left(head)' <= Left(desc.head)' /\ Left(desc.head)' <= nwritten'
          /\ head' = rtail'[p]
      BY <1>1, <1>2, <1>7, <1>8, <1>11, <2>1, <2>2, SMTT(40)
    <2> QED
      BY <1>4, <1>6, <2>1, <2>3, <2>4, Zenon DEF RingInv
  <1> QED
    BY <1>9, <1>10, <1>11, Zenon

\* What ct_read() finds at its head is the message that follows the one it
\* handled last, unless an error made it skip some.
LEMMA ReadNext ==
    ASSUME TypeOK, RingInv, ~Reenabled, NEW p \in Procs, pc[p] = "msg"
    PROVE  /\ cmds[rhead[p]].id = nwritten - Left(rhead[p]) + 1
           /\ cmds[rhead[p]].kind # "none"
           /\ cmds[rhead[p]].id > last_read
           /\ ~broken => cmds[rhead[p]].id = last_read + 1
  <1>1. /\ rhead[p] \in Offsets /\ rtail[p] \in Offsets /\ desc.head \in Offsets
        /\ desc.tail \in Offsets
        /\ nwritten \in Nat /\ last_read \in Nat /\ Size \in Int
    BY SizeAssumption DEF TypeOK, TypeRing, TypeLocal, TypeHist
  <1>2. \A o \in Offsets : Left(o) \in 0..(Size - 1)
    BY <1>1, DistFacts, ZenonT(60) DEF Left
  <1>3. 0 < Left(rhead[p]) /\ Left(rhead[p]) <= nwritten
    BY <1>1, <1>2 DEF RingInv
  <1>4. cmds[rhead[p]].id = nwritten - Left(rhead[p]) + 1 /\ cmds[rhead[p]].kind # "none"
    BY <1>1, <1>3, Zenon DEF RingInv, SlotInv
  <1>5. NextRead(rhead[p])
    BY Zenon DEF RingInv
  <1> QED
    BY <1>1, <1>2, <1>4, <1>5 DEF NextRead

\* One iteration of ct_read().
LEMMA ReadMsgRing ==
    ASSUME TypeOK, ReadExclusive, RingInv, ~Reenabled, NEW p \in Procs,
           ReadMsg(p)
    PROVE  RingInv'
  <1>1. /\ head \in Offsets /\ rhead[p] \in Offsets /\ rtail[p] \in Offsets
        /\ desc.head \in Offsets /\ desc.tail \in Offsets
        /\ nwritten \in Nat /\ last_read \in Nat /\ Size \in Int
    BY SizeAssumption DEF TypeOK, TypeRing, TypeLocal, TypeCtb, TypeHist
  <1>2. /\ UNCHANGED <<cmds, nwritten>> /\ pc[p] = "msg"
        /\ desc'.tail = desc.tail
        /\ last_read' = cmds[rhead[p]].id
    BY Zenon DEF ReadMsg, Advance, TypeOK, TypeRing
  <1>3. \A q \in Procs : q # p => pc[q] # "msg" /\ pc'[q] = pc[q]
    <2>1. \A q \in Procs : q # p => pc[q] # "msg"
      BY <1>2, Zenon DEF ReadExclusive
    <2>2. pc' = pc \/ pc' = [pc EXCEPT ![p] = "unlock"]
      BY Zenon DEF ReadMsg, Advance
    <2> QED
      BY <2>1, <2>2, Zenon DEF TypeOK, TypeLocal
  <1>4. \A o : Left(o)' = Left(o)
    BY <1>2, Zenon DEF Left
  <1>5. SlotInv'
    BY <1>2, <1>4, Zenon DEF RingInv, SlotInv
  <1>6. /\ Left(desc.tail) = 0
        /\ \A o \in Offsets : /\ Left(o) \in 0..(Size - 1)
                              /\ Left(o) = 0 <=> o = desc.tail
    BY <1>1, DistFacts, Zenon DEF Left
  <1>7. /\ head = rtail[p] /\ Left(rtail[p]) < Left(rhead[p])
        /\ Left(rhead[p]) <= Left(desc.head) /\ Left(desc.head) <= nwritten
    BY <1>2, Zenon DEF RingInv
  <1>8. /\ last_read' = nwritten - Left(rhead[p]) + 1
        /\ cmds[rhead[p]].kind # "none"
    BY <1>2, ReadNext, Zenon
  <1>9. CASE broken' = TRUE /\ UNCHANGED <<head, rhead, rtail>>
             /\ desc' = [desc EXCEPT !.status = @ \/ cmds[rhead[p]].kind = "short"]
             /\ pc' = [pc EXCEPT ![p] = "unlock"]
    <2>1. \A q \in Procs : pc'[q] # "msg"
      BY <1>3, <1>9, Zenon DEF TypeOK, TypeLocal
    <2>2. desc'.head = desc.head
      BY <1>9, Zenon DEF TypeOK, TypeRing
    <2>3. Left(head)' = Left(rtail[p]) /\ Left(desc.head)' = Left(desc.head)
      BY <1>4, <1>7, <1>9, <2>2, Zenon
    <2>4. NextRead(head)'
      BY <1>1, <1>2, <1>6, <1>7, <1>8, <1>9, <2>3, SMTT(40) DEF NextRead
    <2>5. Left(head)' <= Left(desc.head)' /\ Left(desc.head)' <= nwritten'
      BY <1>1, <1>2, <1>6, <1>7, <2>3
    <2> QED
      BY <1>5, <2>1, <2>4, <2>5, Zenon DEF RingInv
  <1>10. CASE Advance(p) /\ UNCHANGED broken
    <2> DEFINE h == (rhead[p] + 1) % Size
    <2>1. h \in Offsets /\ Left(h) = Left(rhead[p]) - 1
      BY <1>1, <1>6, <1>7, OffsetStep, DistFacts DEF Left
    <2>2. rhead'[p] = h
      BY <1>10, Zenon DEF Advance, TypeOK, TypeLocal
    <2>3. last_read' = nwritten - Left(h)
      BY <1>1, <1>6, <1>8, <2>1
    <2>4. CASE h # rtail[p]
      <3>1. UNCHANGED <<desc, head, rtail, pc>>
        BY <1>10, <2>4, Zenon DEF Advance
      <3>2. Left(h) # Left(rtail[p])
        <4>1. /\ 0 <= h /\ h < Size /\ 0 <= rtail[p] /\ rtail[p] < Size
              /\ 0 <= desc.tail /\ desc.tail < Size
              /\ h \in Int /\ rtail[p] \in Int /\ desc.tail \in Int
          BY <1>1, <2>1 DEF Offsets
        <4> HIDE DEF h
        <4> QED
          BY <1>1, <2>4, <4>1, SMTT(40) DEF Left, Dist
      <3> HIDE DEF h
      <3>3. /\ head' = rtail'[p] /\ Left(rhead[p])' = Left(h)
            /\ Left(rtail[p])' = Left(rtail[p]) /\ Left(head)' = Left(rtail[p])
            /\ Left(desc.head)' = Left(desc.head)
        BY <1>4, <1>7, <2>2, <3>1, Zenon
      <3>4. NextRead(rhead[p])'
        BY <1>1, <1>2, <1>6, <2>1, <2>3, <3>3, SMTT(40) DEF NextRead
      <3>5. /\ Left(rtail[p])' < Left(rhead[p])'
            /\ Left(rhead[p])' <= Left(desc.head)'
            /\ Left(head)' <= Left(desc.head)' /\ Left(desc.head)' <= nwritten'
        BY <1>1, <1>2, <1>6, <1>7, <2>1, <3>2, <3>3, SMTT(40)
      <3> QED
        BY <1>2, <1>3, <1>5, <3>1, <3>3, <3>4, <3>5, Zenon DEF RingInv
    <2>5. CASE h = rtail[p] /\ h = desc.tail
      <3>1. /\ desc'.head = h /\ UNCHANGED head /\ pc' = [pc EXCEPT ![p] = "unlock"]
        BY <1>10, <2>5, Zenon DEF Advance, TypeOK, TypeRing
      <3>2. \A q \in Procs : pc'[q] # "msg"
        BY <1>3, <3>1, Zenon DEF TypeOK, TypeLocal
      <3> HIDE DEF h
      <3>3. Left(head)' = 0 /\ Left(desc.head)' = 0 /\ Left(h) = 0
        BY <1>4, <1>6, <1>7, <2>5, <3>1, Zenon
      <3>4. NextRead(head)'
        BY <1>1, <1>2, <2>3, <3>3 DEF NextRead
      <3> QED
        BY <1>1, <1>2, <1>5, <3>2, <3>3, <3>4 DEF RingInv
    <2>6. CASE h = rtail[p] /\ h # desc.tail
      <3>1. /\ desc'.head = h /\ head' = desc.tail /\ UNCHANGED pc
            /\ rtail'[p] = desc.tail
        BY <1>10, <2>6, Zenon DEF Advance, TypeOK, TypeRing, TypeLocal
      <3> HIDE DEF h
      <3>2. /\ Left(head)' = 0 /\ Left(rtail[p])' = 0 /\ head' = rtail'[p]
            /\ Left(desc.head)' = Left(h) /\ Left(rhead[p])' = Left(h)
        BY <1>4, <1>6, <2>2, <3>1, ZenonT(60)
      <3>3. NextRead(rhead[p])'
        BY <1>1, <1>2, <1>6, <2>1, <2>3, <3>2, SMTT(40) DEF NextRead
      <3>4. 0 < Left(h) /\ Left(h) <= nwritten
        BY <1>1, <1>6, <1>7, <2>1, <2>6, SMTT(40)
      <3>5. /\ Left(rtail[p])' < Left(rhead[p])'
            /\ Left(rhead[p])' <= Left(desc.head)'
            /\ Left(head)' <= Left(desc.head)' /\ Left(desc.head)' <= nwritten'
        BY <1>2, <1>6, <2>1, <3>2, <3>4
      <3> QED
        BY <1>2, <1>3, <1>5, <3>1, <3>2, <3>3, <3>5, Zenon DEF RingInv
    <2> QED
      BY <2>4, <2>5, <2>6, ZenonT(60)
  <1> QED
    BY <1>8, <1>9, <1>10, Zenon DEF ReadMsg

\* Every step keeps the ring in order until the transport is enabled again.
LEMMA NextRing ==
    ASSUME TypeOK, ReadExclusive, OutsideInv, DrainInv, RingInv, [Next]_vars
    PROVE  RingInv'
  <1> SUFFICES ASSUME ~Reenabled'
               PROVE  RingInv'
    BY Zenon DEF RingInv
  <1> USE ProcsFacts
  <1>0. ~Reenabled /\ ~EnableResetLocal /\ ~EnableResetDesc
    BY ReenabledStays, Zenon
  <1>1. CASE GucWrite
    BY <1>0, <1>1, GucWriteRing, Zenon
  <1>2. CASE \E p \in Procs : ReadBegin(p)
    BY <1>0, <1>2, ReadBeginRing, Zenon
  <1>3. CASE \E p \in Procs : ReadMsg(p)
    BY <1>0, <1>3, ReadMsgRing, Zenon
  <1>4. CASE \/ EventHandler \/ \E p \in Pollers : Poll(p)
             \/ \E p \in Procs : Trylock(p) \/ Unlock(p) \/ Recheck(p) \/ Flush(p)
             \/ \E w \in Runners : WorkerReceive(w)
             \/ ResetDrain
    <2>1. UNCHANGED <<head, desc, cmds, nwritten, broken, last_read, rhead, rtail>>
      BY <1>4, Zenon DEF EventHandler, Poll, Trylock, Unlock, Recheck, Flush,
         WorkerReceive, ResetDrain, ring_vars, ctb_vars, hist_vars
    <2>2. ASSUME NEW p \in Procs, pc[p] = "idle", Enter(p)
          PROVE  \A q \in Procs : pc'[q] = "msg" <=> pc[q] = "msg"
      BY <2>2, Zenon DEF Enter, TypeOK, TypeLocal
    <2>3. \A q \in Procs : pc'[q] = "msg" <=> pc[q] = "msg"
      <3>1. CASE EventHandler
        BY <2>2, <3>1, Zenon DEF EventHandler
      <3>2. CASE \E p \in Pollers : Poll(p)
        BY <2>2, <3>2, Zenon DEF Poll
      <3>3. CASE \E p \in Procs : Trylock(p)
        BY <3>3, ZenonT(60) DEF Trylock, TypeOK, TypeLocal
      <3>4. CASE \E p \in Procs : Unlock(p) \/ Recheck(p) \/ Flush(p)
        BY <3>4 DEF Unlock, Recheck, Flush, Leave, TypeOK, TypeLocal
      <3>5. CASE \E w \in Runners : WorkerReceive(w)
        BY <2>2, <3>5, Zenon DEF WorkerReceive, OutsideInv
      <3>6. CASE ResetDrain
        <4>1. pc[Resetter] = "idle" /\ Enter(Resetter)
          BY <3>6, Zenon DEF ResetDrain, OutsideInv
        <4> QED
          BY <2>2, <4>1, Zenon
      <3> QED
        BY <3>1, <3>2, <3>3, <3>4, <3>5, <3>6, <1>4, Zenon
    <2> QED
      BY <1>0, <2>1, <2>3, RingKept, Zenon
  <1>5. CASE \/ \E w \in Workers : Dispatch(w)
             \/ \E w \in Runners : Take(w) \/ Process(w)
             \/ ResetStart \/ ResetRcuBegin \/ CancelTask \/ ResetParked
             \/ ResetFinish \/ ResetReturn \/ UNCHANGED vars
    <2>1. UNCHANGED <<head, desc, cmds, nwritten, broken, last_read, rhead, rtail, pc>>
      BY <1>5, Zenon DEF Dispatch, Take, Process, ResetStart, ResetRcuBegin,
         CancelTask, ResetParked, ResetFinish, ResetReturn, vars, ring_vars,
         ctb_vars, local_vars, hist_vars
    <2> QED
      BY <1>0, <2>1, RingKept, Zenon
  <1> QED
    BY <1>0, <1>1, <1>2, <1>3, <1>4, <1>5, Zenon
       DEF Next, Receive, Incoming, Reset

\* All that the proofs of the receive path rest on.
RecvInv == TypeOK /\ ReadExclusive /\ OutsideInv /\ DrainInv /\ RingInv

\* It holds initially, and every step keeps it.
LEMMA RecvInductive ==
    /\ Init => RecvInv
    /\ RecvInv /\ [Next]_vars => RecvInv'
  <1>1. Init => ReadExclusive
    BY Zenon DEF Init, ReadExclusive
  <1>2. Init => RecvInv
    BY <1>1, InitType, InitOutside, InitDrain, InitRing, Zenon DEF RecvInv
  <1>3. ASSUME RecvInv, [Next]_vars PROVE RecvInv'
    <2>1. TypeOK /\ ReadExclusive /\ OutsideInv /\ DrainInv /\ RingInv
      BY <1>3, Zenon DEF RecvInv
    <2> QED
      BY <1>3, <2>1, NextType, NextExclusive, NextOutside, NextDrain,
         NextRing, Zenon
         DEF RecvInv
  <1> QED
    BY <1>2, <1>3, Zenon

\* ct_read() hands on what the GuC wrote exactly once and in order.
ReadStep ==
    last_read' # last_read =>
        \/ last_read' = last_read + 1
        \/ broken /\ last_read' > last_read

\* One step.
LEMMA NextReads ==
    ASSUME RecvInv, ~Reenabled, [Next]_vars
    PROVE  ReadStep
  <1>1. CASE \E p \in Procs : ReadMsg(p)
    <2>1. PICK p \in Procs : ReadMsg(p)
      BY <1>1, Zenon
    <2>2. pc[p] = "msg" /\ last_read' = cmds[rhead[p]].id
      BY <2>1, Zenon DEF ReadMsg
    <2>3. TypeOK /\ RingInv
      BY Zenon DEF RecvInv
    <2> QED
      BY <2>2, <2>3, ReadNext, Zenon DEF ReadStep, TypeOK, TypeCtb
  <1>2. CASE UNCHANGED last_read
    BY <1>2, Zenon DEF ReadStep
  <1>3. UNCHANGED last_read \/ \E p \in Procs : ReadMsg(p)
    BY Zenon
       DEF Next, GucWrite, EventHandler, Poll, Receive, Trylock, ReadBegin,
       Unlock, Recheck, Flush, Dispatch, Incoming, Take, Process,
       WorkerReceive, Reset, ResetStart, ResetDrain, ResetRcuBegin,
       CancelTask, ResetParked, ResetFinish, ResetReturn, EnableResetLocal,
       EnableResetDesc, hist_vars, vars
  <1> QED
    BY <1>1, <1>2, <1>3, Zenon

\* Until the transport is enabled again after a reset, ct_read() hands on what
\* the GuC wrote once and in order, whoever calls it and however often the
\* offsets wrap; only after an error does it skip messages.
THEOREM ReadsOnce == Spec => [][~Reenabled => ReadStep]_vars
  <1>1. RecvInv /\ [Next]_vars => [~Reenabled => ReadStep]_vars
    BY NextReads, Zenon
  <1> QED
    BY <1>1, RecvInductive, PTL DEF Spec

\* Without resets that is the whole life of the transport.
THEOREM ReadsInOrder == MaxResets = 0 => (Spec => ReadInOrder)
  <1> SUFFICES ASSUME MaxResets = 0
               PROVE  Spec => ReadInOrder
    BY Zenon
  <1>1. RecvInv => ~Reenabled
    BY DEF RecvInv, TypeOK, TypeReset, Reenabled
  <1>2. RecvInv /\ [Next]_vars => [last_read' # last_read =>
          \/ last_read' = last_read + 1
          \/ broken /\ last_read' > last_read]_vars
    BY <1>1, NextReads, Zenon DEF ReadStep
  <1> QED
    BY <1>2, RecvInductive, PTL DEF Spec, ReadInOrder

-----------------------------------------------------------------------------
(* The lists of deferred messages.                                         *)

\* A list without repetitions.
Uniq(s) == \A j, k \in DOMAIN s : s[j] = s[k] => j = k

\* Where message i may be: on one list of one context, on the shared list,
\* with one runner, or processed; and in none of these before it was read.
IdInv(i) ==
    /\ \A p, q \in Procs : Occurs(mq[p], i) /\ Occurs(mq[q], i) => p = q
    /\ \A v, w \in Runners : Occurs(batch[v], i) /\ Occurs(batch[w], i) => v = w
    /\ \A p \in Procs, w \in Runners : ~(Occurs(mq[p], i) /\ Occurs(batch[w], i))
    /\ \A p \in Procs : Occurs(mq[p], i) =>
          ~Occurs(incoming, i) /\ done[i] = 0 /\ i <= last_read
    /\ \A w \in Runners : Occurs(batch[w], i) =>
          ~Occurs(incoming, i) /\ done[i] = 0 /\ i <= last_read
    /\ Occurs(incoming, i) => done[i] = 0 /\ i <= last_read
    /\ done[i] = 0 \/ (done[i] = 1 /\ i <= last_read)

\* No message is in two places.
ListInv ==
    ~Reenabled =>
        /\ Uniq(incoming)
        /\ \A p \in Procs : Uniq(mq[p])
        /\ \A w \in Runners : Uniq(batch[w])
        /\ \A i \in Ids : IdInv(i)

\* What is on a list after an addition at its end,
LEMMA AppendList ==
    ASSUME NEW s \in Seq(Ids), NEW e \in Ids
    PROVE  /\ \A i : Occurs(Append(s, e), i) <=> Occurs(s, i) \/ i = e
           /\ Uniq(s) /\ ~Occurs(s, e) => Uniq(Append(s, e))
  <1> DEFINE t == Append(s, e)
  <1>1. /\ Len(s) \in Nat /\ DOMAIN s = 1..Len(s)
        /\ DOMAIN t = 1..(Len(s) + 1) /\ t[Len(s) + 1] = e
        /\ \A k \in 1..Len(s) : t[k] = s[k]
    OBVIOUS
  <1> HIDE DEF t
  <1>2. \A k \in DOMAIN t : k \in DOMAIN s \/ k = Len(s) + 1
    BY <1>1, SMTT(40)
  <1>3. DOMAIN s \subseteq DOMAIN t /\ Len(s) + 1 \in DOMAIN t
    BY <1>1
  <1>4. ASSUME NEW i PROVE Occurs(t, i) <=> Occurs(s, i) \/ i = e
    BY <1>1, <1>2, <1>3, Zenon DEF Occurs
  <1>5. ASSUME Uniq(s), ~Occurs(s, e) PROVE Uniq(t)
    BY <1>1, <1>2, <1>5, Zenon DEF Uniq, Occurs
  <1> QED
    BY <1>4, <1>5, Zenon DEF t

\* after another list was added to it,
LEMMA ConcatList ==
    ASSUME NEW s \in Seq(Ids), NEW t \in Seq(Ids)
    PROVE  /\ \A i : Occurs(s \o t, i) <=> Occurs(s, i) \/ Occurs(t, i)
           /\ Uniq(s) /\ Uniq(t) /\ (\A i \in Ids : ~(Occurs(s, i) /\ Occurs(t, i)))
                 => Uniq(s \o t)
  <1> DEFINE u == s \o t
  <1>1. /\ Len(s) \in Nat /\ DOMAIN s = 1..Len(s)
        /\ Len(t) \in Nat /\ DOMAIN t = 1..Len(t)
        /\ DOMAIN u = 1..(Len(s) + Len(t))
        /\ \A k \in 1..Len(s) : u[k] = s[k] /\ s[k] \in Ids
        /\ \A k \in 1..Len(t) : u[Len(s) + k] = t[k] /\ t[k] \in Ids
    BY SMTT(40)
  <1> HIDE DEF u
  <1>2. \A k \in DOMAIN u :
           \/ k \in DOMAIN s /\ u[k] = s[k]
           \/ k - Len(s) \in DOMAIN t /\ u[k] = t[k - Len(s)]
    BY <1>1
  <1>3. \A k \in DOMAIN t : Len(s) + k \in DOMAIN u /\ u[Len(s) + k] = t[k]
    BY <1>1
  <1>4. \A k \in DOMAIN s : k \in DOMAIN u /\ u[k] = s[k]
    BY <1>1
  <1>5. ASSUME NEW i PROVE Occurs(u, i) <=> Occurs(s, i) \/ Occurs(t, i)
    BY <1>2, <1>3, <1>4, ZenonT(60) DEF Occurs
  <1>6. ASSUME Uniq(s), Uniq(t), \A i \in Ids : ~(Occurs(s, i) /\ Occurs(t, i)),
               NEW j \in DOMAIN u, NEW k \in DOMAIN u, u[j] = u[k]
        PROVE  j = k
    <2>1. CASE j \in DOMAIN s /\ u[j] = s[j]
      <3>1. CASE k \in DOMAIN s /\ u[k] = s[k]
        BY <1>6, <2>1, <3>1, Zenon DEF Uniq
      <3>2. CASE k - Len(s) \in DOMAIN t /\ u[k] = t[k - Len(s)]
        BY <1>1, <1>6, <2>1, <3>2, ZenonT(60) DEF Occurs
      <3> QED
        BY <1>2, <3>1, <3>2, Zenon
    <2>2. CASE j - Len(s) \in DOMAIN t /\ u[j] = t[j - Len(s)]
      <3>1. CASE k \in DOMAIN s /\ u[k] = s[k]
        BY <1>1, <1>6, <2>2, <3>1, Zenon DEF Occurs
      <3>2. CASE k - Len(s) \in DOMAIN t /\ u[k] = t[k - Len(s)]
        <4>1. j - Len(s) = k - Len(s)
          BY <1>6, <2>2, <3>2, Zenon DEF Uniq
        <4> QED
          BY <1>1, <4>1
      <3> QED
        BY <1>2, <3>1, <3>2, Zenon
    <2> QED
      BY <1>2, <2>1, <2>2, Zenon
  <1> QED
    BY <1>5, <1>6, Zenon DEF u, Uniq

\* and after its first message was taken off.
LEMMA TailList ==
    ASSUME NEW s \in Seq(Ids), s # <<>>
    PROVE  /\ Head(s) \in Ids /\ Occurs(s, Head(s))
           /\ \A i : Occurs(Tail(s), i) => Occurs(s, i)
           /\ Uniq(s) => Uniq(Tail(s)) /\ ~Occurs(Tail(s), Head(s))
  <1> DEFINE t == Tail(s)
             h == Head(s)
  <1>1. /\ Len(s) \in Nat \ {0} /\ DOMAIN s = 1..Len(s)
        /\ DOMAIN t = 1..(Len(s) - 1)
        /\ \A k \in 1..(Len(s) - 1) : t[k] = s[k + 1]
        /\ h = s[1] /\ h \in Ids
    OBVIOUS
  <1> HIDE DEF t, h
  <1>2. \A k \in DOMAIN t : k + 1 \in DOMAIN s /\ t[k] = s[k + 1] /\ k \in Int /\ k + 1 # 1
    BY <1>1
  <1>3. 1 \in DOMAIN s
    BY <1>1
  <1>4. Occurs(s, h) /\ \A i : Occurs(t, i) => Occurs(s, i)
    BY <1>1, <1>2, <1>3, Zenon DEF Occurs
  <1>5. ASSUME Uniq(s) PROVE Uniq(t) /\ ~Occurs(t, h)
    <2>1. Uniq(t)
      <3> SUFFICES ASSUME NEW j \in DOMAIN t, NEW k \in DOMAIN t, t[j] = t[k]
                   PROVE  j = k
        BY Zenon DEF Uniq
      <3>1. j + 1 = k + 1
        BY <1>2, <1>5, Zenon DEF Uniq
      <3> QED
        BY <1>2, <3>1
    <2>2. ~Occurs(t, h)
      BY <1>1, <1>2, <1>3, <1>5, ZenonT(60) DEF Occurs, Uniq
    <2> QED
      BY <2>1, <2>2, Zenon
  <1> QED
    BY <1>1, <1>4, <1>5, Zenon DEF t, h

\* Nothing is on an empty list.
LEMMA EmptyList == Uniq(<<>>) /\ \A i : ~Occurs(<<>>, i)
  BY DEF Uniq, Occurs

\* There are no messages initially.
LEMMA InitList == Init => ListInv
  <1> SUFFICES ASSUME Init PROVE ListInv
    BY Zenon
  <1>1. /\ incoming = <<>> /\ \A i \in Ids : done[i] = 0
        /\ \A p \in Procs : mq[p] = <<>>
        /\ \A w \in Runners : batch[w] = <<>>
    BY Zenon DEF Init
  <1> QED
    BY <1>1, EmptyList, Zenon DEF ListInv, IdInv

\* A step that moves no message.
LEMMA ListKept ==
    ASSUME TypeOK, ListInv, ~Reenabled, UNCHANGED <<mq, incoming, batch, done>>,
           last_read' \in Nat, last_read <= last_read'
    PROVE  ListInv'
  <1>1. last_read \in Nat /\ \A i \in Ids : i \in Nat
    BY DEF TypeOK, TypeHist, Ids
  <1>2. ASSUME NEW i \in Ids PROVE IdInv(i)'
    <2>1. i <= last_read => i <= last_read'
      BY <1>1
    <2>2. IdInv(i)
      BY Zenon DEF ListInv
    <2> QED
      BY <2>1, <2>2, Zenon DEF IdInv
  <1> QED
    BY <1>2, Zenon DEF ListInv

\* ct_read() adds a message that was in no place before to the list of its
\* caller.
LEMMA ReadMsgList ==
    ASSUME RecvInv, ListInv, ~Reenabled, NEW p \in Procs, ReadMsg(p)
    PROVE  ListInv'
  <1> DEFINE e == cmds[rhead[p]].id
  <1>1. TypeOK /\ RingInv
    BY Zenon DEF RecvInv
  <1>2. pc[p] = "msg" /\ last_read' = e /\ UNCHANGED <<incoming, batch, done>>
    BY Zenon DEF ReadMsg, task_vars, work_vars
  <1>3. e > last_read
    BY <1>1, <1>2, ReadNext, Zenon
  <1>4. last_read \in Nat /\ \A i \in Ids : i \in Nat
    BY <1>1 DEF TypeOK, TypeHist, Ids
  <1>5. cmds[rhead[p]] \in Msg
    BY <1>1, Zenon DEF TypeOK, TypeRing, TypeLocal
  <1>6. e \in Nat
    BY <1>5, MsgFacts, SMTT(40)
  <1>7. CASE UNCHANGED mq
    BY <1>1, <1>2, <1>3, <1>4, <1>6, <1>7, ListKept
  <1>8. CASE cmds[rhead[p]].kind = "defer" /\ mq' = [mq EXCEPT ![p] = Append(@, e)]
    <2>1. e \in Ids
      BY <1>5, <1>8, MsgFacts, Zenon
    <2> HIDE DEF e
    <2>2. mq[p] \in Seq(Ids) /\ mq'[p] = Append(mq[p], e)
          /\ \A q \in Procs : q # p => mq'[q] = mq[q]
      BY <1>1, <1>8, Zenon DEF TypeOK, TypeLocal
    <2>3. ~(e <= last_read)
      BY <1>3, <1>4, <1>6
    <2>4. /\ done[e] = 0 /\ ~Occurs(incoming, e)
          /\ \A q \in Procs : ~Occurs(mq[q], e)
          /\ \A w \in Runners : ~Occurs(batch[w], e)
      BY <2>1, <2>3, ZenonT(60) DEF ListInv, IdInv
    <2>5. /\ \A i : Occurs(mq'[p], i) <=> Occurs(mq[p], i) \/ i = e
          /\ Uniq(mq'[p])
      BY <2>1, <2>2, <2>4, AppendList DEF ListInv
    <2>6. \A q \in Procs, i \in Ids : i # e =>
             (Occurs(mq'[q], i) <=> Occurs(mq[q], i))
      BY <2>2, <2>5, Zenon
    <2>7. \A q \in Procs : Occurs(mq'[q], e) => q = p
      BY <2>2, <2>4, <2>5, Zenon
    <2>8. ASSUME NEW i \in Ids PROVE IdInv(i)'
      <3>1. IdInv(i) /\ (i <= last_read => i <= last_read') /\ e <= last_read'
        BY <1>2, <1>3, <1>4, <1>6 DEF ListInv
      <3>2. CASE i = e
        BY <1>2, <2>4, <2>7, <3>1, <3>2, Zenon DEF IdInv
      <3>3. CASE i # e
        BY <1>2, <2>6, <3>1, <3>3, Zenon DEF IdInv
      <3> QED
        BY <3>2, <3>3, ZenonT(60)
    <2>9. \A q \in Procs : Uniq(mq'[q])
      BY <2>2, <2>5, Zenon DEF ListInv
    <2> QED
      BY <1>2, <2>8, <2>9, Zenon DEF ListInv
  <1> QED
    BY <1>7, <1>8, Zenon DEF ReadMsg, QueueDeferred

\* intel_guc_ct_receive() hands its list over, or loses it.
LEMMA FlushList ==
    ASSUME TypeOK, ListInv, ~Reenabled, NEW p \in Procs, Flush(p)
    PROVE  ListInv'
  <1>1. /\ mq'[p] = <<>> /\ \A q \in Procs : q # p => mq'[q] = mq[q]
        /\ UNCHANGED <<batch, done, last_read>>
        /\ incoming' = incoming \/ incoming' = incoming \o mq[p]
    BY Zenon DEF Flush, work_vars, hist_vars, TypeOK, TypeLocal
  <1>2. \A q \in Procs, i \in Ids : Occurs(mq'[q], i) => Occurs(mq[q], i) /\ q # p
    BY <1>1, EmptyList, Zenon
  <1>3. /\ Uniq(incoming')
        /\ \A i \in Ids : Occurs(incoming', i) => Occurs(incoming, i) \/ Occurs(mq[p], i)
    <2>1. \A i \in Ids : ~(Occurs(incoming, i) /\ Occurs(mq[p], i))
      BY Zenon DEF ListInv, IdInv
    <2>2. Uniq(incoming) /\ Uniq(mq[p])
      BY Zenon DEF ListInv
    <2>3. incoming \in Seq(Ids) /\ mq[p] \in Seq(Ids)
      BY Zenon DEF TypeOK, TypeTask, TypeLocal
    <2>4. /\ Uniq(incoming \o mq[p])
          /\ \A i : Occurs(incoming \o mq[p], i)
                     <=> Occurs(incoming, i) \/ Occurs(mq[p], i)
      BY <2>1, <2>2, <2>3, ConcatList, Zenon
    <2> QED
      BY <1>1, <2>2, <2>4, Zenon
  <1>4. \A q \in Procs : Uniq(mq'[q])
    BY <1>1, EmptyList, Zenon DEF ListInv
  <1>5. ASSUME NEW i \in Ids PROVE IdInv(i)'
    <2>1. IdInv(i)
      BY Zenon DEF ListInv
    <2> QED
      BY <1>1, <1>2, <1>3, <2>1, Zenon DEF IdInv
  <1> QED
    BY <1>1, <1>3, <1>4, <1>5, Zenon DEF ListInv

\* ct_incoming_request() takes the whole shared list.
LEMMA TakeList ==
    ASSUME TypeOK, ListInv, ~Reenabled, NEW w \in Runners, Take(w)
    PROVE  ListInv'
  <1>1. /\ batch'[w] = incoming /\ \A v \in Runners : v # w => batch'[v] = batch[v]
        /\ UNCHANGED <<mq, done, last_read>> /\ incoming' = <<>>
    BY Zenon DEF Take, local_vars, hist_vars, TypeOK, TypeWork
  <1>2. ASSUME NEW i \in Ids PROVE IdInv(i)'
    <2>1. IdInv(i)
      BY Zenon DEF ListInv
    <2>2. ~Occurs(incoming', i)
      BY <1>1, EmptyList, Zenon
    <2> QED
      BY <1>1, <2>1, <2>2, Zenon DEF IdInv
  <1>3. Uniq(incoming') /\ \A v \in Runners : Uniq(batch'[v])
    BY <1>1, EmptyList, Zenon DEF ListInv
  <1> QED
    BY <1>1, <1>2, <1>3, Zenon DEF ListInv

\* ct_process_request() takes its message out of the batch.
LEMMA ProcessList ==
    ASSUME TypeOK, ListInv, ~Reenabled, NEW w \in Runners, Process(w)
    PROVE  ListInv'
  <1> DEFINE h == Head(batch[w])
  <1>1. batch[w] \in Seq(Ids) /\ batch[w] # <<>> /\ Uniq(batch[w])
    BY Zenon DEF Process, ListInv, TypeOK, TypeWork
  <1>2. /\ h \in Ids /\ Occurs(batch[w], h) /\ ~Occurs(Tail(batch[w]), h)
        /\ \A i : Occurs(Tail(batch[w]), i) => Occurs(batch[w], i)
        /\ Uniq(Tail(batch[w]))
    BY <1>1, TailList, Zenon
  <1>3. /\ batch'[w] = Tail(batch[w])
        /\ \A v \in Runners : v # w => batch'[v] = batch[v]
        /\ UNCHANGED <<mq, incoming, last_read>>
    BY Zenon DEF Process, local_vars, task_vars, hist_vars, TypeOK, TypeWork
  <1>4. done'[h] = done[h] + 1 /\ \A i \in Ids : i # h => done'[i] = done[i]
    BY <1>2, Zenon DEF Process, TypeOK, TypeWork
  <1> HIDE DEF h
  <1>5. \A v \in Runners, i \in Ids : Occurs(batch'[v], i) => Occurs(batch[v], i)
    BY <1>2, <1>3, ZenonT(60)
  <1>6. done'[h] = 1 /\ h <= last_read
    BY <1>2, <1>4 DEF ListInv, IdInv
  <1>7. /\ ~Occurs(incoming', h) /\ \A p \in Procs : ~Occurs(mq'[p], h)
        /\ \A v \in Runners : ~Occurs(batch'[v], h)
    BY <1>2, <1>3, Zenon DEF ListInv, IdInv
  <1>8. ASSUME NEW i \in Ids PROVE IdInv(i)'
    <2>1. CASE i = h
      BY <1>3, <1>6, <1>7, <2>1, Zenon DEF IdInv
    <2>2. CASE i # h
      <3>1. IdInv(i) /\ done'[i] = done[i]
        BY <1>4, <2>2, Zenon DEF ListInv
      <3> QED
        BY <1>3, <1>5, <3>1, Zenon DEF IdInv
    <2> QED
      BY <2>1, <2>2, Zenon
  <1>9. \A v \in Runners : Uniq(batch'[v])
    BY <1>2, <1>3, Zenon DEF ListInv
  <1> QED
    BY <1>3, <1>8, <1>9, Zenon DEF ListInv

\* Every step keeps the lists apart until the transport is enabled again.
LEMMA NextList ==
    ASSUME RecvInv, ListInv, [Next]_vars
    PROVE  ListInv'
  <1> SUFFICES ASSUME ~Reenabled'
               PROVE  ListInv'
    BY Zenon DEF ListInv
  <1>0. ~Reenabled /\ TypeOK
    BY ReenabledStays, Zenon DEF RecvInv
  <1>1. CASE \E p \in Procs : ReadMsg(p)
    BY <1>0, <1>1, ReadMsgList, Zenon
  <1>2. CASE \E p \in Procs : Flush(p)
    BY <1>0, <1>2, FlushList, Zenon
  <1>3. CASE \E w \in Runners : Take(w)
    BY <1>0, <1>3, TakeList, Zenon
  <1>4. CASE \E w \in Runners : Process(w)
    BY <1>0, <1>4, ProcessList, Zenon
  <1>5. CASE UNCHANGED <<mq, incoming, batch, done, last_read>>
    BY <1>0, <1>5, ListKept, SMTT(40) DEF TypeOK, TypeHist
  <1>6. \/ UNCHANGED <<mq, incoming, batch, done, last_read>>
        \/ \E p \in Procs : ReadMsg(p) \/ Flush(p)
        \/ \E w \in Runners : Take(w) \/ Process(w)
    BY ZenonT(60)
       DEF Next, GucWrite, EventHandler, Poll, Receive, Trylock, ReadBegin,
       Unlock, Recheck, Dispatch, Incoming, WorkerReceive, Reset, ResetStart,
       ResetDrain, ResetRcuBegin, CancelTask, ResetParked, ResetFinish,
       ResetReturn, EnableResetLocal, EnableResetDesc, local_vars, task_vars,
       work_vars, hist_vars, vars
  <1> QED
    BY <1>1, <1>2, <1>3, <1>4, <1>5, <1>6, Zenon

\* Until the transport is enabled again, ct_incoming_request() processes a
\* deferred message at most once and frees it off every list, however many
\* i915_tbb threads and resets run it at the same time.
THEOREM DeferredOnce == Spec => []ProcessedOnce
  <1>1. ListInv => ProcessedOnce
    <2> SUFFICES ASSUME ListInv, ~Reenabled, NEW i \in Ids
                 PROVE  done[i] <= 1 /\ (done[i] = 1 => ~Held(i))
      BY Zenon DEF ProcessedOnce
    <2>1. IdInv(i)
      BY Zenon DEF ListInv
    <2> QED
      BY <2>1 DEF IdInv, Held
  <1>2. RecvInv /\ ListInv /\ [Next]_vars => ListInv'
    BY NextList, Zenon
  <1> QED
    BY <1>1, <1>2, InitList, RecvInductive, PTL DEF Spec

=============================================================================
