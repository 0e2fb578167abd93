------------------------------ MODULE TlbRange ------------------------------
(***************************************************************************)
(* tlb_page_selective_size() of gt/intel_tlb.c: the block of addresses     *)
(* that is invalidated for a range. The GuC takes a size that is a power   *)
(* of two and a start aligned to it, so the block is grown until it covers *)
(* the range. One behaviour is one call.                                   *)
(***************************************************************************)
EXTENDS Integers

CONSTANTS
    Sizes,      \* the powers of two
    SZ_4K,
    SZ_2M,
    SZ_16M,
    vm_total    \* size of the address space

\* What is used of the powers of two: every length has a least one above it,
\* and doubling leads from each to the next one and in the end to the size of
\* the address space, which each divides.
ASSUME SizesAssumption ==
    /\ Sizes \subseteq Nat \ {0}
    /\ \A n \in 1..vm_total :
           \E p \in Sizes : p >= n /\ \A q \in Sizes : q >= n => p <= q
    /\ \A p \in Sizes : p < vm_total => 2 * p \in Sizes /\ 2 * p <= vm_total
    /\ \A p, q \in Sizes : p < q => 2 * p <= q
    /\ \A p \in Sizes : p <= vm_total => \E k \in 1..vm_total : vm_total = k * p
ASSUME PagesAssumption ==
    /\ {SZ_4K, SZ_2M, SZ_16M, vm_total} \subseteq Sizes
    /\ SZ_4K <= SZ_2M /\ SZ_2M <= SZ_16M /\ SZ_16M <= vm_total

VARIABLES
    addr,     \* *addr, as passed
    end,      \* *addr + length, as passed
    start,
    length,
    at

range_vars == <<addr, end, start, length, at>>

max(a, b) == IF a >= b THEN a ELSE b

round_down(a, l) == a - (a % l)

roundup_pow_of_two(n) ==
    CHOOSE p \in Sizes : p >= n /\ \A q \in Sizes : q >= n => p <= q

\* The size the search begins with.
first_size(n) ==
    LET l == max(roundup_pow_of_two(n), SZ_4K)
    IN  IF l >= SZ_2M THEN max(SZ_16M, l) ELSE l

\* A range inside the address space.
RangeInit ==
    /\ addr \in 0..(vm_total - 1)
    /\ end \in (addr + 1)..vm_total
    /\ start = addr
    /\ length = end - addr
    /\ at = "begin"

Begin ==
    /\ at = "begin"
    /\ length' = first_size(length)
    /\ start' = round_down(addr, length')
    /\ at' = "loop"
    /\ UNCHANGED <<addr, end>>

\* Mutant: the loop doubles while the block ends where the range does.
DoubleTooOften ==
    /\ at = "loop"
    /\ start + length <= end
    /\ length < vm_total
    /\ length' = 2 * length
    /\ start' = round_down(addr, length')
    /\ UNCHANGED <<addr, end, at>>

Double ==
    /\ at = "loop"
    /\ start + length < end
    /\ length' = 2 * length
    /\ start' = round_down(addr, length')
    /\ UNCHANGED <<addr, end, at>>

\* Mutant: the first block is taken.
FinishEarly ==
    /\ at = "loop"
    /\ at' = "done"
    /\ UNCHANGED <<addr, end, start, length>>

Finish ==
    /\ at = "loop"
    /\ start + length >= end
    /\ at' = "done"
    /\ UNCHANGED <<addr, end, start, length>>

RangeNext == Begin \/ Double \/ Finish

RangeSpec == RangeInit /\ [][RangeNext]_range_vars

-----------------------------------------------------------------------------
\* The search keeps a block of a positive size that begins at or below the
\* range.
RangeTypeOK ==
    /\ addr \in Nat /\ end \in Nat /\ start \in Nat
    /\ length \in Nat \ {0}
    /\ addr < end
    /\ at \in {"begin", "loop", "done"}
    /\ start <= addr

\* The block that is invalidated contains every address of the range.
Covers == at = "done" => start <= addr /\ end <= start + length

\* What __guc_invalidate_tlb_page_selective() requires of the block: a power
\* of two of at least a page, aligned to its size, inside the address space.
Encodable ==
    at = "done" =>
        /\ length \in Sizes /\ length >= SZ_4K
        /\ start % length = 0
        /\ start + length <= vm_total

\* The block is the smallest there is: no smaller size that the search may
\* choose has an aligned block that contains the range.
Smallest ==
    at = "done" =>
        \A l \in Sizes :
            first_size(end - addr) <= l /\ l < length
            => round_down(addr, l) + l < end

\* The size of a block for 2M pages is at least the 16M the hardware expects.
MinimumSize == at = "done" /\ length >= SZ_2M => length >= SZ_16M

=============================================================================
