------------------------------ MODULE MCVmTree ------------------------------
(***************************************************************************)
(* VmTree for TLC: values of the constants.                                *)
(***************************************************************************)
EXTENDS VmTreeProps

B == INSTANCE Bitwise

\* The table is there to spare TLC the recursion over the bits.
AndTable == [x \in Addr, y \in Addr |-> B!&(x, y)]

BitAnd(x, y) == AndTable[x, y]

Req(sizes, aligns, starts, ends) ==
    [size : sizes, align : aligns, vstart : starts, vend : ends]

\* One-page requests that may be placed anywhere in the space.
UnitRequests == Req({1}, {1}, VSTART .. VEND - 1, {VEND})

\* The same, with a bound on the end as well.
BoundedRequests == UnitRequests \union Req({1, 2}, {1}, {VSTART}, {VSTART + 3})

\* Larger blocks, alignments above a page, one of them not a power of two, and
\* sizes that make the sums of the code wrap.
AlignedRequests ==
    Req({3, ULONG_MAX - 1}, {1, 3, 4}, {VSTART, VSTART + 5}, {VEND})
=============================================================================
