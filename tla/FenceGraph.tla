----------------------------- MODULE FenceGraph -----------------------------
(***************************************************************************)
(* What a graph of software fences promises its users, with none of the    *)
(* counting that keeps the promise: a fence fires once, and only when its   *)
(* builder has committed it and everything it was made to wait for is over; *)
(* once that is so it does fire.  SwFence is shown to implement this.       *)
(***************************************************************************)
CONSTANTS
    Fences,     \* the software fences
    Events      \* everything else a fence may await: DMA fences, holders

VARIABLES
    awaits,     \* the pairs <<f, d>> such that fence f was made to wait for d
    committed,  \* the fences whose builder has called i915_sw_fence_commit
    released,   \* the pairs whose event is over: signalled, expired, dropped
    fired       \* the fences whose FENCE_COMPLETE callback has been called

vars == <<awaits, committed, released, fired>>

Over(f, d) == d \in fired \/ <<f, d>> \in released

Init ==
    /\ awaits = {}
    /\ committed = {}
    /\ released = {}
    /\ fired = {}

\* A fence may be given something more to wait for until it fires.
Await(f, d) ==
    /\ f \notin fired
    /\ awaits' = awaits \cup {<<f, d>>}
    /\ UNCHANGED <<committed, released, fired>>

Commit(f) ==
    /\ f \notin committed
    /\ committed' = committed \cup {f}
    /\ UNCHANGED <<awaits, released, fired>>

\* An event outside the graph happens, for every fence that awaits it.
Release ==
    /\ released \subseteq released'
    /\ \A p \in released' \ released : p \in awaits /\ p[2] \in Events
    /\ UNCHANGED <<awaits, committed, fired>>

Ready(f) ==
    /\ f \in committed
    /\ \A p \in awaits : p[1] = f => Over(f, p[2])

Fire(f) ==
    /\ f \notin fired
    /\ Ready(f)
    /\ fired' = fired \cup {f}
    /\ UNCHANGED <<awaits, committed, released>>

Next ==
    \/ \E f \in Fences, d \in Fences \cup Events : Await(f, d)
    \/ \E f \in Fences : Commit(f) \/ Fire(f)
    \/ Release

Spec == Init /\ [][Next]_vars /\ \A f \in Fences : WF_vars(Fire(f))
=============================================================================
