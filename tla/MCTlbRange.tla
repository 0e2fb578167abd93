----------------------------- MODULE MCTlbRange -----------------------------
(* An address space of 64 pages, in which a 2M page has 4 of them.         *)
EXTENDS TlbRange

Powers == {2 ^ k : k \in 0..7}

=============================================================================
