------------------------------ MODULE RelayCall ------------------------------
(***************************************************************************)
(* What a call over the relay between a PF and its VFs promises the caller: *)
(* it returns once, with a reply the peer gave to that very call or with a  *)
(* failure.  IovRelay is shown to implement this.                           *)
(***************************************************************************)
CONSTANTS Calls, Replies, Failed, None

VARIABLES
    asked,      \* the calls that have been made
    served,     \* the pairs <<c, v>>: the peer has served call c with reply v
    result      \* what each call has returned, None before

vars == <<asked, served, result>>

Init ==
    /\ asked = {}
    /\ served = {}
    /\ result = [c \in Calls |-> None]

Ask(c) ==
    /\ c \notin asked
    /\ asked' = asked \cup {c}
    /\ UNCHANGED <<served, result>>

Serve(c, v) ==
    /\ c \in asked
    /\ served' = served \cup {<<c, v>>}
    /\ UNCHANGED <<asked, result>>

Return(c, v) ==
    /\ c \in asked
    /\ result[c] = None
    /\ <<c, v>> \in served \/ v = Failed
    /\ result' = [result EXCEPT ![c] = v]
    /\ UNCHANGED <<asked, served>>

Next ==
    \E c \in Calls :
        \/ Ask(c)
        \/ \E v \in Replies : Serve(c, v)
        \/ \E v \in Replies \cup {Failed} : Return(c, v)

Spec == Init /\ [][Next]_vars
=============================================================================
