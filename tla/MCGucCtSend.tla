---------------------------- MODULE MCGucCtSend ----------------------------
(* Instances of GucCtSend for TLC.                                         *)
EXTENDS GucCtSend

\* Two requests whose stack addresses hash to the same slot.
SameHash == [t \in Threads |-> 0]

=============================================================================
