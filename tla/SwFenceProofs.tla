--------------------------- MODULE SwFenceProofs ----------------------------
(***************************************************************************)
(* What the users of software fences rely on: that a fence given up is not *)
(* used, that a callback is not freed too early, that an error is stored   *)
(* before the fence fires, and that the fences implement the graph they    *)
(* stand for (FenceGraph).                                                 *)
(*                                                                         *)
(* FenceIInv gathers the invariants: the exact count (SwFenceCount), the   *)
(* order of a wake-up and the life of a callback (SwFenceWake), and that   *)
(* what a fence awaits is over or still owes it a count.                   *)
(***************************************************************************)
EXTENDS SwFenceWake

-----------------------------------------------------------------------------
(* What a fence awaits.                                                    *)

\* The count of the DMA wait p has not been taken back.
Open(p) == IF p \in Timed THEN p \in owner ELSE Known(p)

\* Whatever a fence awaits is over, or still owes it a count; a DMA wait that
\* is over has left its error.
SwOver(p) ==
    p[2] \in fired \/ build[p[1]] = <<"link", p[2]>> \/ At(p[1], list[p[2]]) # {}

DmaOver(p) ==
    /\ Open(p) \/ (p \in released /\ (error[p[1]] \/ dma[p[2]] = "ok"))
    /\ Signaled(p[2]) => p \in released

HoldOver(f) == <<f, Hold(f)>> \in released \/ hold[f][1] = "held"

OverInv ==
    /\ \A p \in SwDeps : p \in awaits => SwOver(p)
    /\ \A p \in DmaDeps : p \in awaits => DmaOver(p)
    /\ \A f \in Holders : <<f, Hold(f)>> \in awaits => HoldOver(f)

\* A fence does not fire while a DMA wait of its is open.
LEMMA OpenUnfired ==
    ASSUME CountIInv, NEW p \in DmaDeps, Open(p)
    PROVE  p[1] \notin fired
<1> USE DEF CountIInv, ControlInv
<1>0. p[1] \in Fences /\ p[2] \in Dmas /\ p = <<p[1], p[2]>>
  BY DepsAssumption
<1>1. CASE p \in Timed
  <2>1. p \in owner
    BY <1>1, Zenon DEF Open
  <2> QED
    BY <1>0, <2>1, Unfired, ZenonT(60)
<1>2. CASE p \notin Timed
  <2>1. Known(p) /\ p[2] \in Untimed(p[1])
    BY <1>0, <1>2, Zenon DEF Open, Untimed
  <2>2. CASE At(p[1], cbs[p[2]]) # {}
    BY <1>0, <2>1, <2>2, Unfired, SMTT(40)
  <2>3. CASE build[p[1]] = <<"addcb", p[2]>>
    <3>1. build[p[1]][1] # "done"
      BY <2>3
    <3>2. p[1] \notin committed
      BY <1>0, <3>1, ZenonT(60) DEF BuildInv
    <3> QED
      BY <1>0, <3>2, Unfired, ZenonT(60)
  <2> QED
    BY <2>1, <2>2, <2>3, ZenonT(60) DEF Known
<1> QED
  BY <1>1, <1>2, Zenon

\* How a DMA wait ends: its DMA fence has signalled, or its timer has expired.
Ended(p) ==
    \/ Signaled(p[2]) /\ (error'[p[1]] \/ dma[p[2]] = "ok")
    \/ p \in released' /\ error'[p[1]]

\* What dma_fence_add_callback() makes of a wait: it stays open, or has ended.
LEMMA AddCallbackOpen ==
    ASSUME CountIInv, NEW f \in Fences, AddCallback(f), NEW p \in DmaDeps, Open(p)
    PROVE  Open(p)' \/ Ended(p)
<1> USE DEF CountIInv, ControlInv
<1>0. p[1] \in Fences /\ p[2] \in Dmas /\ p = <<p[1], p[2]>>
  BY DepsAssumption
<1>1. PICK d \in Dmas :
        /\ Building(f, "addcb", d)
        /\ build' = [build EXCEPT ![f] = <<"next", None>>]
        /\ \/ /\ cbs' = [cbs EXCEPT ![d] = Append(@, f)] /\ UNCHANGED owner
           \/ /\ Signaled(d) /\ owner' = owner \ {<<f, d>>} /\ cbs' = cbs
              /\ SetError(f, (<<f, d>> \notin Timed \/ <<f, d>> \in owner) /\ dma[d] = "failed")
  BY Zenon DEF AddCallback
<1>2. /\ build \in [Fences -> Builds] /\ build[f] = <<"addcb", d>>
      /\ cbs \in [Dmas -> Seq(Fences)]
  BY <1>1, Zenon DEF Shape, Building
<1>3. ASSUME NEW g \in Fences, NEW e \in Dmas, At(g, cbs[e]) # {}
      PROVE  At(g, cbs'[e]) # {}
  <2>1. CASE cbs'[e] = cbs[e]
    BY <1>3, <2>1, ZenonT(60)
  <2>2. CASE cbs'[e] # cbs[e]
    <3>1. cbs'[e] = Append(cbs[e], f) /\ cbs[e] \in Seq(Fences)
      BY <1>1, <1>2, <2>2, ZenonT(60)
    <3>2. PICK i \in DOMAIN cbs[e] : cbs[e][i] = g
      BY <1>3, ZenonT(60) DEF At
    <3>3. i \in DOMAIN Append(cbs[e], f) /\ Append(cbs[e], f)[i] = g
      BY <3>1, <3>2, SMTT(40)
    <3> QED
      BY <3>1, <3>3, ZenonT(60) DEF At
  <2> QED
    BY <2>1, <2>2, Zenon
<1>4. CASE p # <<f, d>>
  <2>1. CASE p \in Timed
    <3>1. p \in owner'
      BY <1>1, <1>4, <2>1, SMTT(40) DEF Open
    <3> QED
      BY <2>1, <3>1, ZenonT(60) DEF Open
  <2>2. CASE p \notin Timed
    <3>1. Known(p)
      BY <2>2, ZenonT(60) DEF Open
    <3>2. build[p[1]] = <<"addcb", p[2]>> => build'[p[1]] = <<"addcb", p[2]>>
      BY <1>0, <1>1, <1>2, <1>4, SMTT(40)
    <3>3. At(p[1], cbs[p[2]]) # {} => At(p[1], cbs[p[2]])' # {}
      BY <1>0, <1>3, ZenonT(60) DEF At
    <3>4. Known(p)'
      BY <3>1, <3>2, <3>3, ZenonT(60) DEF Known
    <3> QED
      BY <2>2, <3>4, ZenonT(60) DEF Open
  <2> QED
    BY <2>1, <2>2, Zenon
<1>5. CASE p = <<f, d>>
  <2>0. p[1] = f /\ p[2] = d
    BY <1>5, ZenonT(60)
  <2>1. CASE cbs' = [cbs EXCEPT ![d] = Append(@, f)] /\ UNCHANGED owner
    <3>1. cbs'[d] = Append(cbs[d], f) /\ cbs[d] \in Seq(Fences)
      BY <1>2, <2>1, SMTT(40)
    <3>2. Len(cbs[d]) + 1 \in At(f, Append(cbs[d], f))
      BY <3>1, SMTT(40) DEF At
    <3>3. At(p[1], cbs[p[2]])' # {}
      BY <2>0, <3>1, <3>2, ZenonT(60) DEF At
    <3> QED
      BY <2>1, <3>3, ZenonT(60) DEF Open, Known
  <2>2. CASE /\ Signaled(d)
             /\ SetError(f, (p \notin Timed \/ p \in owner) /\ dma[d] = "failed")
    <3>1. p \notin Timed \/ p \in owner
      BY ZenonT(60) DEF Open
    <3>2. dma[d] \in {"ok", "failed"} /\ error \in [Fences -> BOOLEAN]
      BY <2>2, SMTT(40) DEF Signaled, Shape
    <3>3. error'[f] \/ dma[d] = "ok"
      BY <2>2, <3>1, <3>2, ZenonT(60) DEF SetError
    <3> QED
      BY <2>0, <2>2, <3>3, SMTT(40) DEF Ended
  <2> QED
    BY <1>1, <1>5, <2>1, <2>2, ZenonT(60)
<1> QED
  BY <1>4, <1>5, ZenonT(60)

\* The callback of a DMA fence ends its own wait and leaves the others open.
LEMMA DmaWakeOpen ==
    ASSUME CountIInv, NEW d \in Dmas, DmaWake(d), NEW p \in DmaDeps, Open(p)
    PROVE  Open(p)' \/ Ended(p)
<1> USE DEF CountIInv, ControlInv
<1>0. p[1] \in Fences /\ p[2] \in Dmas /\ p = <<p[1], p[2]>>
  BY DepsAssumption, SMTT(40)
<1> SUFFICES ASSUME NEW f, f = Head(cbs[d])
             PROVE  Open(p)' \/ Ended(p)
  BY Zenon
<1>1. /\ Signaled(d) /\ cbs[d] # <<>>
      /\ cbs' = [cbs EXCEPT ![d] = Tail(@)]
      /\ owner' = owner \ {<<f, d>>}
      /\ SetError(f, (<<f, d>> \notin Timed \/ <<f, d>> \in owner) /\ dma[d] = "failed")
      /\ build' = build
  BY Zenon DEF DmaWake
<1>2. cbs \in [Dmas -> Seq(Fences)] /\ cbs[d] \in Seq(Fences)
  BY Zenon DEF Shape
<1>3. f \in Fences /\ cbs'[d] = Tail(cbs[d]) /\ \A e \in Dmas \ {d} : cbs'[e] = cbs[e]
  BY <1>1, <1>2, SMTT(40)
<1>4. CASE p # <<f, d>>
  <2>1. CASE p \in Timed
    <3>1. p \in owner'
      BY <1>1, <1>4, <2>1, ZenonT(60) DEF Open
    <3> QED
      BY <2>1, <3>1, ZenonT(60) DEF Open
  <2>2. CASE p \notin Timed
    <3>1. At(p[1], cbs[p[2]]) # {} => At(p[1], cbs'[p[2]]) # {}
      <4>1. CASE p[2] # d
        BY <1>0, <1>3, <4>1, ZenonT(60)
      <4>2. CASE p[2] = d
        <5>1. p[1] # f
          BY <1>0, <1>4, <4>2, SMTT(40)
        <5> QED
          BY <1>0, <1>1, <1>2, <1>3, <4>2, <5>1, TailOther, ZenonT(60)
      <4> QED
        BY <4>1, <4>2, Zenon
    <3>2. At(p[1], cbs[p[2]]) # {} => At(p[1], cbs[p[2]])' # {}
      BY <3>1, Zenon DEF At
    <3> QED
      BY <1>1, <2>2, <3>2, ZenonT(60) DEF Open, Known
  <2> QED
    BY <2>1, <2>2, ZenonT(60)
<1>5. CASE p = <<f, d>>
  <2>0. p[1] = f /\ p[2] = d
    BY <1>5, Zenon
  <2>1. p \notin Timed \/ p \in owner
    BY Zenon DEF Open
  <2>2. dma[d] \in {"ok", "failed"} /\ error \in [Fences -> BOOLEAN]
    BY <1>1, Zenon DEF Signaled, Shape
  <2>3. error'[f] \/ dma[d] = "ok"
    BY <1>1, <1>3, <1>5, <2>1, <2>2, ZenonT(60) DEF SetError
  <2> QED
    BY <1>1, <2>0, <2>3, ZenonT(60) DEF Ended
<1> QED
  BY <1>4, <1>5, SMTT(40)

\* Every step leaves a DMA wait open, or it has ended.
LEMMA OpenKept ==
    ASSUME CountIInv, Next, NEW p \in DmaDeps, Open(p)
    PROVE  Open(p)' \/ Ended(p)
<1> USE DEF CountIInv, ControlInv
<1>0. p[1] \in Fences /\ p[2] \in Dmas /\ p = <<p[1], p[2]>>
  BY DepsAssumption
<1>1. CASE UNCHANGED <<cbs, build, owner>>
  BY <1>1, Zenon DEF Open, Known, At
<1>2. ASSUME NEW t \in Threads, Completion(t)
      PROVE  Open(p)'
  <2>1. UNCHANGED <<cbs, build, owner>>
    BY <1>2, CompletionFrame, Zenon
  <2> QED
    BY <2>1, Zenon DEF Open, Known, At
<1>3. CASE \/ \E f \in Sleepers : Wait(f)
           \/ \E f \in Holders : HoldRead(f) \/ HoldExchange(f) \/ HoldDrop(f)
           \/ \E d \in Dmas : Signal(d)
           \/ \E q \in Timed : IrqWork(q)
  <2>1. UNCHANGED <<cbs, build, owner>>
    BY <1>3, Zenon DEF Wait, HoldRead, HoldExchange, HoldDrop, Signal, IrqWork, device
  <2> QED
    BY <1>1, <2>1, Zenon
<1>4. ASSUME NEW f \in Fences, Plain(f)
      PROVE  Open(p)'
  <2>1. /\ build[f][1] # "addcb"
        /\ \A g \in Fences \ {f} : build'[g] = build[g]
        /\ UNCHANGED <<cbs, owner>>
    BY <1>4, NotAdding, Zenon
  <2>2. build[p[1]] = <<"addcb", p[2]>> => build'[p[1]] = <<"addcb", p[2]>>
    <3>1. CASE p[1] = f
      BY <2>1, <3>1, SMTT(40)
    <3>2. CASE p[1] # f
      BY <1>0, <2>1, <3>2, ZenonT(60)
    <3> QED
      BY <3>1, <3>2, ZenonT(60)
  <2> QED
    BY <2>1, <2>2, Zenon DEF Open, Known, At
<1>5. ASSUME NEW f \in Fences, NEW d, AwaitDmaFence(f, d)
      PROVE  Open(p)'
  <2>1. build[f] = <<"next", None>> /\ build \in [Fences -> Builds] /\ cbs' = cbs
    BY <1>5, ZenonT(60) DEF AwaitDmaFence, Building, Shape
  <2>2. owner \subseteq owner'
    BY <1>5, Zenon DEF AwaitDmaFence
  <2>3. \/ build' = build \/ build' = [build EXCEPT ![f] = <<"dmawait", d>>]
        \/ build' = [build EXCEPT ![f] = <<"addcb", d>>]
    BY <1>5, ZenonT(60) DEF AwaitDmaFence
  <2>4. build[p[1]] = <<"addcb", p[2]>> => build'[p[1]] = <<"addcb", p[2]>>
    BY <1>0, <2>1, <2>3, SMTT(40)
  <2> QED
    BY <2>1, <2>2, <2>4, ZenonT(60) DEF Open, Known, At
<1>6. ASSUME NEW q \in Timed, TimerWake(q)
      PROVE  Open(p)' \/ Ended(p)
  <2>1. /\ UNCHANGED <<cbs, build>>
        /\ \/ owner' = owner
           \/ owner' = owner \ {q} /\ released' = released \cup {q} /\ SetError(q[1], TRUE)
    BY <1>6, ZenonT(60) DEF TimerWake
  <2>2. CASE p # q \/ owner' = owner
    <3>1. p \in owner => p \in owner'
      BY <2>1, <2>2, ZenonT(60)
    <3> QED
      BY <2>1, <3>1, ZenonT(60) DEF Open, Known, At
  <2>3. CASE p = q /\ released' = released \cup {q} /\ SetError(q[1], TRUE)
    <3>1. error'[p[1]]
      BY <1>0, <2>3, ZenonT(60) DEF SetError, Shape
    <3> QED
      BY <2>3, <3>1, ZenonT(60) DEF Ended
  <2> QED
    BY <2>1, <2>2, <2>3, ZenonT(60)
<1>7. ASSUME NEW f \in Fences, Builder(f)
      PROVE  Open(p)' \/ Ended(p)
  BY <1>4, <1>5, <1>7, AddCallbackOpen, ZenonT(60) DEF Builder, Plain
<1> QED
  BY <1>2, <1>3, <1>6, <1>7, DmaWakeOpen, ZenonT(60) DEF Next, Running

\* What is over stays over.
LEMMA Onward ==
    ASSUME CountIInv, Next
    PROVE  /\ fired \subseteq fired' /\ released \subseteq released'
           /\ \A f \in Fences : error[f] => error'[f]
           /\ \A d \in Dmas : /\ dma[d] = "ok" => dma'[d] = "ok"
                              /\ Signaled(d) => Signaled(d)'
<1> USE DEF CountIInv, ControlInv
<1>1. error \in [Fences -> BOOLEAN] /\ dma \in [Dmas -> {"pending", "ok", "failed"}]
  BY Zenon DEF Shape
<1>2. ASSUME NEW g, NEW e, SetError(g, e)
      PROVE  \A f \in Fences : error[f] => error'[f]
  BY <1>1, <1>2, ZenonT(60) DEF SetError
<1>3. fired \subseteq fired' /\ released \subseteq released'
      /\ (error' = error \/ \E g, e : SetError(g, e))
      /\ (dma' = dma \/ \E d \in Dmas : Signal(d))
  <2>1. ASSUME NEW t \in Threads, Completion(t)
        PROVE  /\ fired \subseteq fired' /\ released' = released
               /\ (error' = error \/ \E g, e : SetError(g, e)) /\ dma' = dma
    <3>1. dma' = dma /\ released' = released
      BY <2>1, CompletionFrame, ZenonT(60)
    <3>2. error' = error \/ \E g, e : SetError(g, e)
      BY <2>1, ZenonT(60) DEF Completion, Complete, WakeUpAll, WakeEntry, NestedComplete,
         NestedWakeUpAll, Splice
    <3>3. fired' = fired \/ \E g : fired' = fired \cup {g}
      BY <2>1, ZenonT(60) DEF Completion, Complete, WakeUpAll, WakeEntry, NestedComplete,
         NestedWakeUpAll, Splice, history
    <3> QED
      BY <3>1, <3>2, <3>3, ZenonT(60)
  <2>2. ASSUME NEW f \in Fences, Builder(f)
        PROVE  /\ fired' = fired /\ released' = released
               /\ (error' = error \/ \E g, e : SetError(g, e)) /\ dma' = dma
    <3>1. CASE Plain(f)
      BY <3>1, ZenonT(60) DEF Plain, AwaitSwFence, Link, SleepOnSwFence, SleepOnDmaFence,
         Commit, history, device
    <3>2. CASE AddCallback(f) \/ \E p \in DmaDeps : AwaitDmaFence(f, p[2])
      BY <3>2, Zenon DEF AddCallback, AwaitDmaFence, history
    <3> QED
      BY <2>2, <3>1, <3>2, ZenonT(60) DEF Builder, Plain
  <2>3. CASE \/ \E f \in Sleepers : Wait(f)
             \/ \E f \in Holders : HoldRead(f) \/ HoldExchange(f)
             \/ \E d \in Dmas : DmaWake(d)
             \/ \E p \in Timed : IrqWork(p)
    <3>1. /\ fired' = fired /\ released' = released
          /\ (error' = error \/ \E g, e : SetError(g, e)) /\ dma' = dma
      BY <2>3, ZenonT(60) DEF Wait, HoldRead, HoldExchange, DmaWake, IrqWork, device, history
    <3> QED
      BY <3>1, Zenon
  <2>4. CASE \/ \E f \in Holders : HoldDrop(f)
             \/ \E d \in Dmas : Signal(d)
             \/ \E p \in Timed : TimerWake(p)
    <3>1. /\ fired' = fired /\ (released' = released \/ \E x : released' = released \cup x)
          /\ (error' = error \/ \E g, e : SetError(g, e))
          /\ (dma' = dma \/ \E d \in Dmas : Signal(d))
      BY <2>4, ZenonT(60) DEF HoldDrop, Signal, TimerWake, device
    <3> QED
      BY <3>1, ZenonT(60)
  <2> QED
    BY <2>1, <2>2, <2>3, <2>4, ZenonT(60) DEF Next, Running
<1>4. ASSUME NEW d \in Dmas
      PROVE  (dma[d] = "ok" => dma'[d] = "ok") /\ (Signaled(d) => Signaled(d)')
  <2>1. CASE dma' = dma
    BY <2>1, ZenonT(60) DEF Signaled
  <2>2. CASE \E e \in Dmas : Signal(e)
    <3>1. PICK e \in Dmas, how \in {"ok", "failed"} :
            dma[e] = "pending" /\ dma' = [dma EXCEPT ![e] = how]
      BY <2>2, ZenonT(60) DEF Signal, Signaled
    <3> QED
      BY <1>1, <3>1, ZenonT(60) DEF Signaled
  <2> QED
    BY <1>3, <2>1, <2>2, SMTT(40)
<1>5. \A f \in Fences : error[f] => error'[f]
  BY <1>2, <1>3, ZenonT(60)
<1> QED
  BY <1>3, <1>4, <1>5, SMTT(40)

\* What a fence is made to await, one at a time.
LEMMA Awaited ==
    ASSUME CountIInv, Next
    PROVE  \/ awaits' = awaits
           \/ \E f \in Fences, s \in Fences :
                 /\ awaits' = awaits \cup {<<f, s>>} /\ AwaitSwFence(f, s)
                 /\ build'[f] = <<"link", s>>
           \/ \E f \in Fences, d \in Dmas :
                 /\ awaits' = awaits \cup {<<f, d>>} /\ AwaitDmaFence(f, d)
                 /\ build'[f] = <<"addcb", d>> /\ ~Signaled(d) /\ dma' = dma
                 /\ <<f, d>> \in Timed => <<f, d>> \in owner'
           \/ \E f \in Holders :
                 /\ awaits' = awaits \cup {<<f, Hold(f)>>} /\ HoldExchange(f)
                 /\ hold'[f][1] = "held"
<1> USE DEF CountIInv, ControlInv
<1>1. ASSUME NEW t \in Threads, Completion(t)
      PROVE  awaits' = awaits
  BY <1>1, CompletionFrame, ZenonT(60)
<1>2. CASE \/ \E f \in Sleepers : Wait(f)
           \/ \E f \in Holders : HoldRead(f) \/ HoldDrop(f)
           \/ \E d \in Dmas : DmaWake(d) \/ Signal(d)
           \/ \E p \in Timed : TimerWake(p) \/ IrqWork(p)
  BY <1>2, ZenonT(60) DEF Wait, HoldRead, HoldDrop, DmaWake, Signal, TimerWake, IrqWork, history
<1>3. ASSUME NEW f \in Fences, Link(f) \/ SleepOnSwFence(f) \/ AddCallback(f)
                                \/ SleepOnDmaFence(f) \/ Commit(f)
      PROVE  awaits' = awaits
  BY <1>3, ZenonT(60) DEF Link, SleepOnSwFence, AddCallback, SleepOnDmaFence, Commit, history
<1>4. ASSUME NEW f \in Fences, NEW p \in SwDeps, AwaitSwFence(f, p[2])
      PROVE  \/ awaits' = awaits
             \/ awaits' = awaits \cup {<<f, p[2]>>} /\ build'[f] = <<"link", p[2]>>
  <2>1. \/ awaits' = awaits
        \/ /\ awaits' = awaits \cup {<<f, p[2]>>}
           /\ build' = [build EXCEPT ![f] = <<"link", p[2]>>]
    BY <1>4, ZenonT(60) DEF AwaitSwFence
  <2> QED
    BY <2>1, ZenonT(60) DEF Shape
<1>5. ASSUME NEW f \in Fences, NEW p \in DmaDeps, AwaitDmaFence(f, p[2])
      PROVE  \/ awaits' = awaits
             \/ /\ awaits' = awaits \cup {<<f, p[2]>>}
                /\ build'[f] = <<"addcb", p[2]>> /\ ~Signaled(p[2]) /\ dma' = dma
                /\ <<f, p[2]>> \in Timed => <<f, p[2]>> \in owner'
  <2>1. \/ awaits' = awaits
        \/ /\ awaits' = awaits \cup {<<f, p[2]>>} /\ ~Signaled(p[2]) /\ dma' = dma
           /\ build' = [build EXCEPT ![f] = <<"addcb", p[2]>>]
           /\ <<f, p[2]>> \in Timed => owner' = owner \cup {<<f, p[2]>>}
    BY <1>5, ZenonT(60) DEF AwaitDmaFence
  <2> QED
    BY <2>1, SMTT(40) DEF Shape
<1>6. ASSUME NEW f \in Holders, HoldExchange(f)
      PROVE  \/ awaits' = awaits
             \/ awaits' = awaits \cup {<<f, Hold(f)>>} /\ hold'[f][1] = "held"
  <2>1. \/ awaits' = awaits
        \/ awaits' = awaits \cup {<<f, Hold(f)>>} /\ hold' = [hold EXCEPT ![f] = <<"held", 0>>]
    BY <1>6, ZenonT(60) DEF HoldExchange
  <2> QED
    BY <2>1, SMTT(40) DEF Shape
<1>7. (\A p \in SwDeps : p[2] \in Fences) /\ (\A p \in DmaDeps : p[2] \in Dmas)
  BY DepsAssumption, ZenonT(60)
<1>8. ASSUME NEW f \in Fences, Builder(f)
      PROVE  \/ awaits' = awaits
             \/ \E s \in Fences :
                 /\ awaits' = awaits \cup {<<f, s>>} /\ AwaitSwFence(f, s)
                 /\ build'[f] = <<"link", s>>
             \/ \E d \in Dmas :
                 /\ awaits' = awaits \cup {<<f, d>>} /\ AwaitDmaFence(f, d)
                 /\ build'[f] = <<"addcb", d>> /\ ~Signaled(d) /\ dma' = dma
                 /\ <<f, d>> \in Timed => <<f, d>> \in owner'
  <2>1. CASE \E p \in SwDeps : AwaitSwFence(f, p[2])
    <3>1. PICK p \in SwDeps : AwaitSwFence(f, p[2])
      BY <2>1, ZenonT(60)
    <3> QED
      BY <1>4, <1>7, <3>1, ZenonT(60)
  <2>2. CASE \E p \in DmaDeps : AwaitDmaFence(f, p[2])
    <3>1. PICK p \in DmaDeps : AwaitDmaFence(f, p[2])
      BY <2>2, Zenon
    <3> QED
      BY <1>5, <1>7, <3>1, ZenonT(60)
  <2> QED
    BY <1>3, <1>8, <2>1, <2>2, ZenonT(60) DEF Builder
<1> QED
  BY <1>1, <1>2, <1>6, <1>8, ZenonT(60) DEF Next, Running

\* An entry stays queued, or about to be, until its signaler has fired.
LEMMA SwOverStep ==
    ASSUME CountIInv, Next, NEW p \in SwDeps, SwOver(p)
    PROVE  SwOver(p)'
<1> USE DEF CountIInv, ControlInv
<1>0. p[1] \in Fences /\ p[2] \in Fences
  BY DepsAssumption, Zenon
<1>1. fired \subseteq fired'
  BY Onward, ZenonT(60)
<1>2. CASE p[2] \in fired
  BY <1>1, <1>2, ZenonT(60) DEF SwOver
<1>3. ASSUME p[2] \notin fired,
             list'[p[2]] = list[p[2]],
             build[p[1]] = <<"link", p[2]>> => build'[p[1]] = <<"link", p[2]>>
      PROVE  SwOver(p)'
  BY <1>3, ZenonT(60) DEF SwOver, At
<1>4. ASSUME p[2] \notin fired, NEW t \in Threads, Completion(t)
      PROVE  SwOver(p)'
  <2>1. build' = build
    BY <1>4, CompletionFrame, ZenonT(60)
  <2>2. list' = list \/ \E g \in fired : \E x : list' = [list EXCEPT ![g] = x]
    <3>1. CASE Complete(t) \/ WakeUpAll(t) \/ NestedComplete(t)
      BY <3>1, ZenonT(60) DEF Complete, WakeUpAll, NestedComplete
    <3>2. CASE WakeEntry(t)
      <4>1. run[t].root \in fired /\ list' = [list EXCEPT ![run[t].root] = Tail(@)]
        BY <3>2, ZenonT(60) DEF WakeEntry, FiredInv, FiredOK
      <4> QED
        BY <4>1, Zenon
    <3>3. CASE NestedWakeUpAll(t)
      <4>1. run[t].cur \in fired /\ list' = [list EXCEPT ![run[t].cur] = <<>>]
        BY <3>3, ZenonT(60) DEF NestedWakeUpAll, FiredInv, FiredOK
      <4> QED
        BY <4>1, ZenonT(60)
    <3>4. CASE Splice(t)
      <4>1. /\ run[t].root \in fired
            /\ list' = list \/ list' = [list EXCEPT ![run[t].root] = run[t].extra]
        BY <3>4, ZenonT(60) DEF Splice, FiredInv, FiredOK
      <4> QED
        BY <4>1, ZenonT(60)
    <3> QED
      BY <1>4, <3>1, <3>2, <3>3, <3>4, ZenonT(60) DEF Completion
  <2>3. list'[p[2]] = list[p[2]]
    BY <1>0, <1>4, <2>2, SMTT(40) DEF Shape
  <2> QED
    BY <1>3, <1>4, <2>1, <2>3, SMTT(40)
<1>5. ASSUME p[2] \notin fired, NEW f \in Fences, Link(f)
      PROVE  SwOver(p)'
  <2>1. PICK s \in Fences :
          /\ build[f] = <<"link", s>> /\ build' = [build EXCEPT ![f] = <<"next", None>>]
          /\ \/ list' = [list EXCEPT ![s] = Append(@, f)]
             \/ Done(s) /\ list' = list
    BY <1>5, ZenonT(60) DEF Link, Building
  <2>2. build \in [Fences -> Builds] /\ list \in [Fences -> Seq(Fences)]
    BY Zenon DEF Shape
  <2>3. CASE p[1] = f /\ p[2] = s
    <3>1. ~Done(s)
      BY <1>0, <1>5, <2>3, DoneFired, ZenonT(60) DEF Done
    <3>2. list'[s] = Append(list[s], f) /\ list[s] \in Seq(Fences)
      BY <2>1, <2>2, <3>1, SMTT(40)
    <3>3. Len(list[s]) + 1 \in At(f, Append(list[s], f))
      BY <3>2, SMTT(40) DEF At
    <3>4. At(p[1], list[p[2]])' # {}
      BY <2>3, <3>2, <3>3, ZenonT(60) DEF At
    <3> QED
      BY <3>4, ZenonT(60) DEF SwOver
  <2>4. CASE ~(p[1] = f /\ p[2] = s)
    <3>1. build[p[1]] = <<"link", p[2]>> => build'[p[1]] = <<"link", p[2]>>
      BY <1>0, <2>1, <2>2, <2>4, SMTT(40)
    <3>2. At(p[1], list[p[2]]) # {} => At(p[1], list'[p[2]]) # {}
      <4>1. CASE list'[p[2]] = list[p[2]]
        BY <4>1, ZenonT(60)
      <4>2. CASE list'[p[2]] # list[p[2]]
        <5>1. list'[p[2]] = Append(list[p[2]], f) /\ list[p[2]] \in Seq(Fences)
          BY <1>0, <2>1, <2>2, <4>2, SMTT(40)
        <5> SUFFICES ASSUME At(p[1], list[p[2]]) # {}
                     PROVE  At(p[1], list'[p[2]]) # {}
          BY Zenon
        <5>2. PICK i \in DOMAIN list[p[2]] : list[p[2]][i] = p[1]
          BY ZenonT(60) DEF At
        <5>3. i \in DOMAIN Append(list[p[2]], f) /\ Append(list[p[2]], f)[i] = p[1]
          BY <5>1, <5>2, SMTT(40)
        <5> QED
          BY <5>1, <5>3, SMTT(40) DEF At
      <4> QED
        BY <4>1, <4>2, SMTT(40)
    <3>3. At(p[1], list[p[2]]) # {} => At(p[1], list[p[2]])' # {}
      BY <3>2, ZenonT(60) DEF At
    <3> QED
      BY <1>5, <3>1, <3>3, ZenonT(60) DEF SwOver
  <2> QED
    BY <2>3, <2>4, SMTT(40)
<1>6. ASSUME p[2] \notin fired, NEW f \in Fences, Builder(f), ~Link(f)
      PROVE  SwOver(p)'
  <2>1. list' = list
    BY <1>6, ZenonT(60) DEF Builder, AwaitSwFence, AwaitDmaFence, SleepOnSwFence, AddCallback,
       SleepOnDmaFence, Commit
  <2>2. /\ build[f][1] # "link"
        /\ \A g \in Fences \ {f} : build'[g] = build[g]
    <3>0. build \in [Fences -> Builds]
      BY Zenon DEF Shape
    <3>1. PICK x, b : /\ \/ build[f] = <<"next", x>> \/ build[f] = <<"swwait", x>>
                         \/ build[f] = <<"swunlock", x>> \/ build[f] = <<"addcb", x>>
                         \/ build[f] = <<"dmawait", x>>
                      /\ build' = build \/ build' = [build EXCEPT ![f] = b]
      <4>1. CASE \E q \in SwDeps : AwaitSwFence(f, q[2])
        BY <4>1, ZenonT(60) DEF AwaitSwFence, Building
      <4>2. CASE \E q \in DmaDeps : AwaitDmaFence(f, q[2])
        BY <4>2, ZenonT(60) DEF AwaitDmaFence, Building
      <4>3. CASE SleepOnSwFence(f) \/ AddCallback(f) \/ SleepOnDmaFence(f) \/ Commit(f)
        BY <4>3, ZenonT(60) DEF SleepOnSwFence, AddCallback, SleepOnDmaFence, Commit, Building
      <4> QED
        BY <1>6, <4>1, <4>2, <4>3, ZenonT(60) DEF Builder
    <3> QED
      BY <3>0, <3>1, SMTT(40)
  <2>3. build[p[1]] = <<"link", p[2]>> => build'[p[1]] = <<"link", p[2]>>
    <3>1. CASE p[1] = f
      BY <2>2, <3>1, SMTT(40)
    <3>2. CASE p[1] # f
      BY <1>0, <2>2, <3>2, ZenonT(60)
    <3> QED
      BY <3>1, <3>2, ZenonT(60)
  <2> QED
    BY <1>3, <1>6, <2>1, <2>3, SMTT(40)
<1>7. CASE \/ \E f \in Sleepers : Wait(f)
           \/ \E f \in Holders : HoldRead(f) \/ HoldExchange(f) \/ HoldDrop(f)
           \/ \E d \in Dmas : DmaWake(d) \/ Signal(d)
           \/ \E q \in Timed : TimerWake(q) \/ IrqWork(q)
  <2>1. UNCHANGED <<list, build>>
    BY <1>7, ZenonT(60) DEF Wait, HoldRead, HoldExchange, HoldDrop, DmaWake, Signal, TimerWake,
       IrqWork
  <2> QED
    BY <1>2, <1>3, <2>1, ZenonT(60)
<1> QED
  BY <1>2, <1>4, <1>5, <1>6, <1>7, ZenonT(60) DEF Next, Running

\* A DMA wait stays open until it is over, and leaves its error then.
LEMMA DmaOverStep ==
    ASSUME CountIInv, Next, NEW p \in DmaDeps, p \in awaits, DmaOver(p)
    PROVE  DmaOver(p)'
<1> USE DEF CountIInv, ControlInv
<1>0. p[1] \in Fences /\ p[2] \in Dmas
  BY DepsAssumption, ZenonT(60)
<1>1. /\ released \subseteq released' /\ (error[p[1]] => error'[p[1]])
      /\ (dma[p[2]] = "ok" => dma'[p[2]] = "ok") /\ (Signaled(p[2]) => Signaled(p[2])')
  BY <1>0, Onward, ZenonT(60)
<1>2. Signaled(p[2])' => p \in released'
  <2>1. CASE Signaled(p[2])
    BY <1>1, <2>1, ZenonT(60) DEF DmaOver
  <2>2. CASE ~Signaled(p[2]) /\ Signaled(p[2])'
    <3>1. dma' # dma
      BY <2>2, ZenonT(60) DEF Signaled
    <3>2. PICK d \in Dmas : Signal(d)
      <4>1. ASSUME NEW t \in Threads, Completion(t)
            PROVE  dma' = dma
        BY <4>1, CompletionFrame, ZenonT(60)
      <4>2. ASSUME NEW f \in Fences, Builder(f)
            PROVE  dma' = dma
        BY <4>2, ZenonT(60) DEF Builder, AwaitSwFence, AwaitDmaFence, Link, SleepOnSwFence,
           AddCallback, SleepOnDmaFence, Commit, device
      <4>3. ASSUME \/ \E f \in Sleepers : Wait(f)
                   \/ \E f \in Holders : HoldRead(f) \/ HoldExchange(f) \/ HoldDrop(f)
                   \/ \E d \in Dmas : DmaWake(d)
                   \/ \E q \in Timed : TimerWake(q) \/ IrqWork(q)
            PROVE  dma' = dma
        BY <4>3, ZenonT(60) DEF Wait, HoldRead, HoldExchange, HoldDrop, DmaWake, TimerWake,
           IrqWork, device
      <4> QED
        BY <3>1, <4>1, <4>2, <4>3, ZenonT(60) DEF Next, Running
    <3>3. p[2] = d
      BY <1>0, <2>2, <3>2, SMTT(40) DEF Signal, Signaled, Shape
    <3> QED
      BY <3>2, <3>3, SMTT(40) DEF Signal
  <2> QED
    BY <2>1, <2>2, SMTT(40)
<1>3. CASE Open(p)
  <2>1. Open(p)' \/ Ended(p)
    BY <1>3, OpenKept, ZenonT(60)
  <2>2. Ended(p) => p \in released' /\ (error'[p[1]] \/ dma'[p[2]] = "ok")
    BY <1>1, <1>2, ZenonT(60) DEF Ended
  <2> QED
    BY <1>2, <2>1, <2>2, ZenonT(60) DEF DmaOver
<1>4. CASE p \in released /\ (error[p[1]] \/ dma[p[2]] = "ok")
  BY <1>1, <1>2, <1>4, SMTT(40) DEF DmaOver
<1> QED
  BY <1>3, <1>4, ZenonT(60) DEF DmaOver

\* What a holder got is in force until it drops it.
LEMMA HoldOverStep ==
    ASSUME CountIInv, Next, NEW f \in Holders, HoldOver(f)
    PROVE  HoldOver(f)'
<1> USE DEF CountIInv, ControlInv
<1>1. released \subseteq released'
  BY Onward, Zenon
<1>2. CASE <<f, Hold(f)>> \in released
  BY <1>1, <1>2, ZenonT(60) DEF HoldOver, Hold
<1>3. CASE hold[f][1] = "held"
  <2>1. ASSUME hold' = hold
        PROVE  HoldOver(f)'
    BY <1>3, <2>1, ZenonT(60) DEF HoldOver
  <2>2. ASSUME NEW t \in Threads, Completion(t)
        PROVE  hold' = hold
    BY <2>2, CompletionFrame, ZenonT(60)
  <2>3. ASSUME NEW g \in Fences, Builder(g)
        PROVE  hold' = hold
    BY <2>3, ZenonT(60) DEF Builder, AwaitSwFence, AwaitDmaFence, Link, SleepOnSwFence,
       AddCallback, SleepOnDmaFence, Commit
  <2>4. ASSUME \/ \E g \in Sleepers : Wait(g)
               \/ \E d \in Dmas : DmaWake(d) \/ Signal(d)
               \/ \E q \in Timed : TimerWake(q) \/ IrqWork(q)
        PROVE  hold' = hold
    BY <2>4, ZenonT(60) DEF Wait, DmaWake, Signal, TimerWake, IrqWork
  <2>5. ASSUME NEW g \in Holders, HoldRead(g) \/ HoldExchange(g) \/ HoldDrop(g)
        PROVE  HoldOver(f)'
    <3>1. CASE g # f
      <4>1. \E x : hold' = [hold EXCEPT ![g] = x]
        BY <2>5, ZenonT(60) DEF HoldRead, HoldExchange, HoldDrop
      <4>2. hold'[f] = hold[f]
        BY <3>1, <4>1, SMTT(40) DEF Shape
      <4> QED
        BY <1>3, <4>2, SMTT(40) DEF HoldOver
    <3>2. CASE g = f
      <4>1. HoldDrop(f)
        BY <1>3, <2>5, <3>2, SMTT(40) DEF HoldRead, HoldExchange
      <4>2. <<f, Hold(f)>> \in released'
        BY <4>1, ZenonT(60) DEF HoldDrop
      <4> QED
        BY <4>2, ZenonT(60) DEF HoldOver, Hold
    <3> QED
      BY <3>1, <3>2, SMTT(40)
  <2> QED
    BY <2>1, <2>2, <2>3, <2>4, <2>5, ZenonT(60) DEF Next, Running
<1> QED
  BY <1>2, <1>3, SMTT(40) DEF HoldOver

\* Every step keeps what is said of the things a fence awaits,
LEMMA OverNext ==
    ASSUME CountIInv, OverInv, Next
    PROVE  OverInv'
<1>0. /\ SwDeps \cap DmaDeps = {}
      /\ \A f \in Holders : <<f, Hold(f)>> \notin SwDeps \cup DmaDeps
      /\ \A f, g \in Holders : <<f, Hold(f)>> = <<g, Hold(g)>> => f = g
  BY DepsAssumption, ZenonT(60) DEF Hold
<1>1. ASSUME NEW p \in SwDeps, p \in awaits'
      PROVE  SwOver(p)'
  <2>1. CASE p \in awaits
    BY <2>1, SwOverStep, ZenonT(60) DEF OverInv
  <2>2. CASE p \notin awaits
    <3>1. PICK f \in Fences, s \in Fences : p = <<f, s>> /\ build'[f] = <<"link", s>>
      <4>1. ASSUME NEW f \in Fences, NEW d \in Dmas
            PROVE  p # <<f, d>>
        BY DepsAssumption, SMTT(40)
      <4>2. ASSUME NEW f \in Holders
            PROVE  p # <<f, Hold(f)>>
        BY <1>0, Zenon
      <4>3. \A x : awaits' = awaits \cup {x} => p = x
        BY <1>1, <2>2, ZenonT(60)
      <4> QED
        BY <1>1, <2>2, <4>1, <4>2, <4>3, Awaited, ZenonT(60)
    <3>2. p[1] = f /\ p[2] = s
      BY <3>1, ZenonT(60)
    <3> QED
      BY <3>1, <3>2, ZenonT(60) DEF SwOver
  <2> QED
    BY <2>1, <2>2, ZenonT(60)
<1>2. ASSUME NEW p \in DmaDeps, p \in awaits'
      PROVE  DmaOver(p)'
  <2>1. CASE p \in awaits
    BY <2>1, DmaOverStep, ZenonT(60) DEF OverInv
  <2>2. CASE p \notin awaits
    <3>1. PICK f \in Fences, d \in Dmas :
            /\ p = <<f, d>> /\ build'[f] = <<"addcb", d>> /\ ~Signaled(d) /\ dma' = dma
            /\ p \in Timed => p \in owner'
      <4>1. ASSUME NEW f \in Fences, NEW s \in Fences
            PROVE  p # <<f, s>>
        BY DepsAssumption, SMTT(40)
      <4>2. ASSUME NEW f \in Holders
            PROVE  p # <<f, Hold(f)>>
        BY <1>0, ZenonT(60)
      <4>3. \A x : awaits' = awaits \cup {x} => p = x
        BY <1>2, <2>2, Zenon
      <4> QED
        BY <1>2, <2>2, <4>1, <4>2, <4>3, Awaited, ZenonT(60)
    <3>2. p[1] = f /\ p[2] = d
      BY <3>1, ZenonT(60)
    <3>3. Open(p)'
      BY <3>1, <3>2, ZenonT(60) DEF Open, Known
    <3>4. ~Signaled(p[2])'
      BY <3>1, <3>2, ZenonT(60) DEF Signaled
    <3> QED
      BY <3>3, <3>4, ZenonT(60) DEF DmaOver
  <2> QED
    BY <2>1, <2>2, Zenon
<1>3. ASSUME NEW f \in Holders, <<f, Hold(f)>> \in awaits'
      PROVE  HoldOver(f)'
  <2>1. CASE <<f, Hold(f)>> \in awaits
    BY <2>1, HoldOverStep, ZenonT(60) DEF OverInv
  <2>2. CASE <<f, Hold(f)>> \notin awaits
    <3>1. hold'[f][1] = "held"
      <4>1. ASSUME NEW g \in Fences, NEW x \in Fences \cup Dmas
            PROVE  <<f, Hold(f)>> # <<g, x>>
        BY DepsAssumption, Zenon DEF Hold
      <4>2. \A x : awaits' = awaits \cup {x} => <<f, Hold(f)>> = x
        BY <1>3, <2>2, ZenonT(60)
      <4>3. (\A s \in Fences : s \in Fences \cup Dmas) /\ (\A d \in Dmas : d \in Fences \cup Dmas)
        BY Zenon
      <4>4. \/ awaits' = awaits
            \/ \E g \in Fences : \E x \in Fences \cup Dmas : awaits' = awaits \cup {<<g, x>>}
            \/ \E g \in Holders : awaits' = awaits \cup {<<g, Hold(g)>>} /\ hold'[g][1] = "held"
        BY <4>3, Awaited, ZenonT(60)
      <4>5. PICK g \in Holders : awaits' = awaits \cup {<<g, Hold(g)>>} /\ hold'[g][1] = "held"
        BY <1>3, <2>2, <4>1, <4>2, <4>4, ZenonT(60)
      <4>6. g = f
        BY <1>0, <4>2, <4>5, ZenonT(60)
      <4> QED
        BY <4>5, <4>6, SMTT(40)
    <3> QED
      BY <3>1, Zenon DEF HoldOver
  <2> QED
    BY <2>1, <2>2, SMTT(40)
<1>4. \A f \in Holders : (<<f, Hold(f)>> \in awaits)' => HoldOver(f)'
  BY <1>3, Zenon DEF Hold
<1> QED
  BY <1>1, <1>2, <1>4, ZenonT(60) DEF OverInv, Hold

-----------------------------------------------------------------------------
(* The graph that the fences stand for.                                    *)

\* The thread that takes the last count of f away finds f committed and all it
\* awaits over.
LEMMA LastCount ==
    ASSUME CountIInv, OverInv, NEW t \in Threads, NEW f \in Fences, Counting(t, f),
           pending[f] = 1
    PROVE  f \notin fired /\ Graph!Ready(f)
<1> USE DEF CountIInv, ControlInv
<1>1. f \notin fired /\ Owed(f) = 1
  BY Unfired, ZenonT(60)
<1>2. /\ OnLists(f) = 0 /\ OnDmas(f) = 0 /\ OnTimers(f) = 0 /\ ByHolder(f) = 0
      /\ ByBuilder(f) = 0
  <2>1. ByThreads(f) >= 1
    BY Parts, ZenonT(60)
  <2> QED
    BY <1>1, <2>1, OwedNow, SMTT(40)
<1>3. f \in committed /\ build[f][1] = "done"
  <2>1. ~(0 >= 1)
    OBVIOUS
  <2>2. f \in committed
    BY <1>2, <2>1, Parts, ZenonT(60)
  <2> QED
    BY <2>2, ZenonT(60) DEF BuildInv
<1>4. ASSUME NEW p \in awaits, p[1] = f
      PROVE  p[2] \in fired \/ <<f, p[2]>> \in released
  <2>1. p \in SwDeps \/ p \in DmaDeps \/ \E h \in Holders : p = <<h, Hold(h)>>
    BY Zenon DEF Shape
  <2>2. CASE p \in SwDeps
    <3>0. p[2] \in Fences
      BY <2>2, DepsAssumption, SMTT(40)
    <3>1. SwOver(p)
      BY <2>2, ZenonT(60) DEF OverInv
    <3>2. build[f] # <<"link", p[2]>>
      BY <1>3, SMTT(40)
    <3>3. At(f, list[p[2]]) = {}
      <4>1. Num(f, list[p[2]]) \in Nat /\ Num(f, list[p[2]]) <= 0
        BY <1>2, <3>0, Parts, ZenonT(60)
      <4>2. list[p[2]] \in Seq(Fences)
        BY <3>0, ZenonT(60) DEF Shape
      <4> QED
        BY <4>1, <4>2, AtSome, SMTT(40) DEF Num
    <3> QED
      BY <1>4, <3>1, <3>2, <3>3, ZenonT(60) DEF SwOver
  <2>3. CASE p \in DmaDeps
    <3>0. p[2] \in Dmas /\ p = <<f, p[2]>>
      BY <1>4, <2>3, DepsAssumption, SMTT(40)
    <3>1. DmaOver(p)
      BY <2>3, ZenonT(60) DEF OverInv
    <3>2. ~Open(p)
      <4>1. CASE p \in Timed
        <5>1. p \in owner => OnTimers(f) >= 1
          BY <1>4, Parts, ZenonT(60)
        <5>2. p \notin owner
          BY <1>2, <5>1, SMTT(40)
        <5> QED
          BY <4>1, <5>2, ZenonT(60) DEF Open
      <4>2. CASE p \notin Timed
        <5>1. p[2] \in Untimed(f)
          BY <3>0, <4>2, SMTT(40) DEF Untimed
        <5>2. Num(f, cbs[p[2]]) \in Nat /\ Num(f, cbs[p[2]]) <= 0
          BY <1>2, <5>1, Parts, ZenonT(60)
        <5>3. cbs[p[2]] \in Seq(Fences)
          BY <3>0, SMTT(40) DEF Shape
        <5>4. At(f, cbs[p[2]]) = {}
          BY <5>2, <5>3, AtSome DEF Num
        <5>5. build[f] # <<"addcb", p[2]>>
          BY <1>3, SMTT(40)
        <5> QED
          BY <1>4, <4>2, <5>4, <5>5, ZenonT(60) DEF Open, Known
      <4> QED
        BY <4>1, <4>2, ZenonT(60)
    <3> QED
      BY <3>0, <3>1, <3>2, ZenonT(60) DEF DmaOver
  <2>4. CASE \E h \in Holders : p = <<h, Hold(h)>>
    <3>1. f \in Holders /\ p = <<f, Hold(f)>> /\ p[2] = Hold(f)
      BY <1>4, <2>4, SMTT(40)
    <3>2. HoldOver(f)
      BY <3>1, ZenonT(60) DEF OverInv
    <3>3. hold[f][1] # "held"
      BY <1>2, <3>1, SMTT(40) DEF ByHolder
    <3> QED
      BY <3>1, <3>2, <3>3, ZenonT(60) DEF HoldOver
  <2> QED
    BY <2>1, <2>2, <2>3, <2>4, SMTT(40)
<1> QED
  BY <1>1, <1>3, <1>4, ZenonT(60) DEF Graph!Ready, Graph!Over

\* Every step is one of the graph, or none.
LEMMA GraphStep ==
    ASSUME CountIInv, OverInv, Next
    PROVE  Graph!Next \/ UNCHANGED <<awaits, committed, released, fired>>
<1> USE DEF CountIInv, ControlInv
<1>1. ASSUME NEW t \in Threads, Completion(t)
      PROVE  (\E f \in Fences : Graph!Fire(f)) \/ fired' = fired
  <2>0. UNCHANGED <<awaits, committed, released>>
    BY <1>1, CompletionFrame, ZenonT(60)
  <2>1. ASSUME NEW f \in Fences, Counting(t, f), pending[f] = 1, fired' = fired \cup {f}
        PROVE  Graph!Fire(f)
    BY <2>0, <2>1, LastCount, ZenonT(60) DEF Graph!Fire
  <2>2. CASE Complete(t)
    <3>1. Stands(t, "dec")
      BY <2>2, CompleteMoves, ZenonT(60)
    <3>2. run[t].root \in Fences /\ Counting(t, run[t].root)
      BY <3>1, ZenonT(60) DEF Stands, Counting
    <3>3. fired' = fired \/ (pending[run[t].root] = 1 /\ fired' = fired \cup {run[t].root})
      BY <2>2, ZenonT(60) DEF Complete
    <3> QED
      BY <2>1, <3>2, <3>3, ZenonT(60)
  <2>3. CASE NestedComplete(t)
    <3>1. Stands(t, "nested")
      BY <2>3, NestedCompleteMoves, ZenonT(60)
    <3>2. run[t].cur \in Fences /\ Counting(t, run[t].cur)
      BY <3>1, ZenonT(60) DEF Stands, Counting
    <3>3. fired' = fired \/ (pending[run[t].cur] = 1 /\ fired' = fired \cup {run[t].cur})
      BY <2>3, ZenonT(60) DEF NestedComplete
    <3> QED
      BY <2>1, <3>2, <3>3, ZenonT(60)
  <2>4. CASE WakeUpAll(t) \/ WakeEntry(t) \/ NestedWakeUpAll(t) \/ Splice(t)
    BY <2>4, ZenonT(60) DEF WakeUpAll, WakeEntry, NestedWakeUpAll, Splice, history
  <2> QED
    BY <1>1, <2>2, <2>3, <2>4, ZenonT(60) DEF Completion
<1>2. ASSUME NEW t \in Threads, Completion(t)
      PROVE  UNCHANGED <<awaits, committed, released>>
  BY <1>2, CompletionFrame, Zenon
<1>3. ASSUME NEW f \in Fences, Builder(f)
      PROVE  Graph!Next \/ UNCHANGED <<awaits, committed, released, fired>>
  <2>1. CASE Commit(f)
    <3>1. build[f][1] # "done"
      BY <2>1, SMTT(40) DEF Commit, Building
    <3>2. f \notin committed
      BY <3>1, ZenonT(60) DEF BuildInv
    <3>3. Graph!Commit(f)
      BY <2>1, <3>2, ZenonT(60) DEF Commit, Graph!Commit
    <3> QED
      BY <3>3, ZenonT(60) DEF Graph!Next
  <2>2. ASSUME NEW x \in Fences \cup Dmas, AwaitSwFence(f, x) \/ AwaitDmaFence(f, x)
        PROVE  Graph!Next \/ UNCHANGED <<awaits, committed, released, fired>>
    <3>1. build[f][1] # "done"
      BY <2>2, SMTT(40) DEF AwaitSwFence, AwaitDmaFence, Building
    <3>2. f \notin committed
      BY <3>1, ZenonT(60) DEF BuildInv
    <3>3. f \notin fired
      BY <3>2, Unfired, ZenonT(60)
    <3>4. /\ awaits' = awaits \/ awaits' = awaits \cup {<<f, x>>}
          /\ UNCHANGED <<committed, released, fired>>
      BY <2>2, ZenonT(60) DEF AwaitSwFence, AwaitDmaFence
    <3>5. awaits' = awaits \/ Graph!Await(f, x)
      BY <3>3, <3>4, ZenonT(60) DEF Graph!Await
    <3>6. x \in Fences \cup (Dmas \cup {Hold(g) : g \in Holders})
      BY ZenonT(60)
    <3> QED
      BY <3>4, <3>5, <3>6, ZenonT(60) DEF Graph!Next
  <2>3. CASE Link(f) \/ SleepOnSwFence(f) \/ AddCallback(f) \/ SleepOnDmaFence(f)
    BY <2>3, ZenonT(60) DEF Link, SleepOnSwFence, AddCallback, SleepOnDmaFence, history
  <2>4. (\A p \in SwDeps : p[2] \in Fences \cup Dmas)
        /\ (\A p \in DmaDeps : p[2] \in Fences \cup Dmas)
    BY DepsAssumption, ZenonT(60)
  <2> QED
    BY <1>3, <2>1, <2>2, <2>3, <2>4, ZenonT(60) DEF Builder
<1>4. ASSUME NEW f \in Holders, HoldExchange(f)
      PROVE  Graph!Next \/ UNCHANGED <<awaits, committed, released, fired>>
  <2>1. /\ UNCHANGED <<committed, released, fired>>
        /\ \/ awaits' = awaits
           \/ /\ awaits' = awaits \cup {<<f, Hold(f)>>}
              /\ hold[f][1] = "cas" /\ pending[f] = hold[f][2]
    BY <1>4, ZenonT(60) DEF HoldExchange
  <2>2. hold[f][1] = "cas" => hold[f][2] >= 1
    BY ZenonT(60) DEF HoldInv
  <2>3. awaits' = awaits \/ f \notin fired
    BY <2>1, <2>2, SMTT(40) DEF SpentInv
  <2>4. awaits' = awaits \/ Graph!Await(f, Hold(f))
    BY <2>1, <2>3, ZenonT(60) DEF Graph!Await
  <2>5. f \in Fences /\ Hold(f) \in Fences \cup (Dmas \cup {Hold(g) : g \in Holders})
    BY DepsAssumption, ZenonT(60)
  <2> QED
    BY <2>1, <2>4, <2>5, ZenonT(60) DEF Graph!Next
<1>5. ASSUME UNCHANGED <<awaits, committed, fired>>, released \subseteq released',
             \A p \in released' \ released :
                p \in awaits /\ p[2] \in Dmas \cup {Hold(g) : g \in Holders}
      PROVE  Graph!Next
  <2>1. Graph!Release
    BY <1>5, ZenonT(60) DEF Graph!Release
  <2> QED
    BY <2>1, ZenonT(60) DEF Graph!Next
<1>6. ASSUME NEW f \in Holders, HoldDrop(f)
      PROVE  Graph!Next
  <2>1. <<f, Hold(f)>> \in awaits
    BY <1>6, ZenonT(60) DEF HoldDrop, HoldInv
  <2>2. released' = released \cup {<<f, Hold(f)>>} /\ UNCHANGED <<awaits, committed, fired>>
    BY <1>6, ZenonT(60) DEF HoldDrop
  <2>3. \A p \in released' \ released :
            p \in awaits /\ p[2] \in Dmas \cup {Hold(g) : g \in Holders}
    BY <2>1, <2>2, SMTT(40)
  <2> QED
    BY <1>5, <2>2, <2>3, SMTT(40)
<1>7. ASSUME NEW d \in Dmas, Signal(d)
      PROVE  Graph!Next
  <2>1. released' = released \cup {p \in awaits : p[2] = d} /\ UNCHANGED <<awaits, committed, fired>>
    BY <1>7, ZenonT(60) DEF Signal
  <2>2. \A p \in released' \ released :
            p \in awaits /\ p[2] \in Dmas \cup {Hold(g) : g \in Holders}
    BY <2>1, ZenonT(60)
  <2> QED
    BY <1>5, <2>1, <2>2, SMTT(40)
<1>8. ASSUME NEW p \in Timed, TimerWake(p)
      PROVE  Graph!Next \/ UNCHANGED <<awaits, committed, released, fired>>
  <2>1. /\ released' = released \/ (p \in owner /\ released' = released \cup {p})
        /\ UNCHANGED <<awaits, committed, fired>>
    BY <1>8, ZenonT(60) DEF TimerWake
  <2>2. p \in owner => p \in awaits
    BY ZenonT(60) DEF TimerInv
  <2>3. p[2] \in Dmas
    BY DepsAssumption, Zenon
  <2>4. \A q \in released' \ released :
            q \in awaits /\ q[2] \in Dmas \cup {Hold(g) : g \in Holders}
    BY <2>1, <2>2, <2>3, SMTT(40)
  <2> QED
    BY <1>5, <2>1, <2>4, SMTT(40)
<1>9. CASE \/ \E f \in Sleepers : Wait(f)
           \/ \E f \in Holders : HoldRead(f)
           \/ \E d \in Dmas : DmaWake(d)
           \/ \E p \in Timed : IrqWork(p)
  BY <1>9, ZenonT(60) DEF Wait, HoldRead, DmaWake, IrqWork, history
<1>10. (\E f \in Fences : Graph!Fire(f)) => Graph!Next
  BY Zenon DEF Graph!Next
<1> QED
  BY <1>1, <1>2, <1>3, <1>4, <1>6, <1>7, <1>8, <1>9, <1>10, ZenonT(60) DEF Next, Running

\* ... which holds initially.
LEMMA OverInit == Init => OverInv
BY Zenon DEF Init, OverInv

\* A fired fence has no wait open, so each of its DMA waits has left its error.
LEMMA OverError ==
    ASSUME CountIInv, OverInv
    PROVE  ErrorFirst
<1> SUFFICES ASSUME NEW p \in DmaDeps, p \in awaits, p[1] \in fired,
                    dma[p[2]] = "failed" \/ ~Signaled(p[2])
             PROVE  error[p[1]]
  BY Zenon DEF ErrorFirst
<1>1. DmaOver(p) /\ ~Open(p)
  BY OpenUnfired, ZenonT(60) DEF OverInv
<1>2. dma[p[2]] # "ok"
  BY Zenon DEF Signaled
<1> QED
  BY <1>1, <1>2, ZenonT(60) DEF DmaOver

-----------------------------------------------------------------------------
(* The inductive invariant of the fences, and what follows from it.        *)

FenceIInv == CountIInv /\ WakeInv /\ CallbackInv /\ OverInv

\* A step that changes nothing keeps all of it.
LEMMA FenceStutter ==
    ASSUME FenceIInv, UNCHANGED vars
    PROVE  FenceIInv'
<1>0. /\ pending' = pending /\ error' = error /\ list' = list /\ lock' = lock /\ run' = run
      /\ build' = build /\ todo' = todo /\ hold' = hold /\ waiter' = waiter
      /\ dma' = dma /\ cbs' = cbs /\ owner' = owner /\ timer' = timer /\ work' = work
      /\ awaits' = awaits /\ committed' = committed /\ released' = released
      /\ fired' = fired /\ freed' = freed
  BY Zenon DEF vars, device, history
<1>1. CountIInv'
  BY CountNext, ZenonT(60) DEF FenceIInv
<1>2. WakeInv'
  <2>1. WakeInv
    BY Zenon DEF FenceIInv
  <2>2. \A t \in Threads : WakeOK(t)' <=> WakeOK(t)
    BY <1>0, ZenonT(60) DEF WakeOK
  <2>3. \A f \in Fences, t \in Threads : Waking(t, f)' <=> Waking(t, f)
    BY <1>0, ZenonT(60) DEF Waking
  <2>4. \A f \in Fences : Locks(lock[f], f)' <=> Locks(lock[f], f)
    BY <1>0, ZenonT(60) DEF Locks
  <2>5. \A f \in Sleepers : WaitOK(f)' <=> WaitOK(f)
    BY <1>0, ZenonT(60) DEF WaitOK
  <2>6. freed \subseteq Fences
    BY ZenonT(60) DEF FenceIInv, CountIInv, Shape
  <2> QED
    BY <1>0, <2>1, <2>2, <2>3, <2>4, <2>5, <2>6, ZenonT(60) DEF WakeInv
<1>3. CallbackInv'
  <2>1. ASSUME NEW p \in Timed
        PROVE  CallbackOK(p)'
    <3>1. CallbackOK(p)
      BY Zenon DEF FenceIInv, CallbackInv
    <3> QED
      BY <1>0, <3>1, CallbackKept, ZenonT(60)
  <2> QED
    BY <2>1, ZenonT(60) DEF CallbackInv
<1>4. OverInv'
  BY <1>0, ZenonT(60) DEF FenceIInv, OverInv, SwOver, DmaOver, HoldOver, Open, Known, At,
     Signaled, Hold
<1> QED
  BY <1>1, <1>2, <1>3, <1>4, ZenonT(60) DEF FenceIInv

\* Every step keeps the invariant of the fences,
LEMMA FenceNext == FenceIInv /\ [Next]_vars => FenceIInv'
<1>1. ASSUME FenceIInv, Next
      PROVE  FenceIInv'
  <2>1. CountIInv'
    BY <1>1, CountNext, ZenonT(60) DEF FenceIInv
  <2>2. WakeInv' /\ CallbackInv' /\ OverInv'
    BY <1>1, WakeNext, CallbackNext, OverNext, ZenonT(60) DEF FenceIInv
  <2> QED
    BY <2>1, <2>2, ZenonT(60) DEF FenceIInv
<1> QED
  BY <1>1, FenceStutter, ZenonT(60)

\* ... and so it always holds.
LEMMA FenceAlways == Spec => []FenceIInv
<1>1. Init => FenceIInv
  BY CountInit, WakeInit, CallbackInit, OverInit, ZenonT(60) DEF FenceIInv
<1> QED
  BY <1>1, FenceNext, PTL DEF Spec

\* Once i915_sw_fence_wait() has returned, or FENCE_FREE has been called, no
\* thread holds the lock of the fence or is about to use it: the wait goes
\* through the lock once more, and a wake-up drops it last
\* (i915_sw_fence_unlock_wait, __i915_sw_fence_wake_up_all).
THEOREM NobodyTouches == Spec => []Untouched
<1>1. FenceIInv => Untouched
  BY WakeUntouched, ZenonT(60) DEF FenceIInv
<1> QED
  BY <1>1, FenceAlways, PTL

\* The callback of a timed wait is given to irq_i915_sw_fence_work() once, when
\* neither the DMA fence, the builder nor the timer can reach it any more.
THEOREM CallbackIsAlive == Spec => []CallbackAlive
<1>1. FenceIInv => CallbackAlive
  BY CallbackLives, ZenonT(60) DEF FenceIInv
<1> QED
  BY <1>1, FenceAlways, PTL

\* However signal, timeout and builder race, a fence that fires after a DMA fence
\* it awaited has failed or was given up carries the error
\* (i915_sw_fence_set_error_once before i915_sw_fence_complete).
THEOREM ErrorComesFirst == Spec => []ErrorFirst
<1>1. FenceIInv => ErrorFirst
  BY OverError, ZenonT(60) DEF FenceIInv
<1> QED
  BY <1>1, FenceAlways, PTL

\* The safety half of Implements: a fence fires once, when it has been committed
\* and all it awaits is over.  That it then does fire rests on fairness.
GraphSafe == Graph!Init /\ [][Graph!Next]_(Graph!vars)

\* Counting pending up and down implements the graph of fences, whatever the
\* interleaving of builders, wake-ups, signals, timers and holders
\* (__i915_sw_fence_complete, i915_sw_fence_commit).
THEOREM GraphRefined == Spec => GraphSafe
<1>1. Init => Graph!Init
  BY Zenon DEF Init, Graph!Init
<1>2. FenceIInv /\ [Next]_vars => [Graph!Next]_(Graph!vars)
  BY GraphStep, Zenon DEF FenceIInv, vars, history, Graph!vars
<1> QED
  BY <1>1, <1>2, FenceAlways, PTL DEF Spec, GraphSafe
=============================================================================
