------------------------------- MODULE VmArea -------------------------------
(***************************************************************************)
(* Address arithmetic of vm/: unsigned longs of a fixed width, areas of    *)
(* addresses (struct vmap_area), alignment, and how a request fits in an   *)
(* area.  Sums are taken modulo ULONG wherever the C expression can wrap.  *)
(***************************************************************************)
EXTENDS VmPage, Integers

CONSTANTS ULONG,        \* number of values of an unsigned long
          And(_, _)     \* the & of C on two unsigned longs

ULONG_MAX == ULONG - 1

Addr == 0 .. ULONG_MAX

ASSUME UlongAssumption == ULONG \in Nat \ {0, 1}
ASSUME PageAssumption == PAGE_SIZE \in Addr \ {0}
ASSUME AndAssumption ==
    \A x, y \in Addr : And(x, y) \in Addr /\ And(x, y) <= x

\* struct vmap_area: the addresses start, ..., end - 1 (va_start, va_end).
VA == [start : Addr, end : Addr]

\* A request: the arguments of alloc_vmap_area().
Request == [size : Addr, align : Addr \ {0}, vstart : Addr, vend : Addr]

va_size(va) == (va.end - va.start) % ULONG

\* (x + a - 1) & ~(a - 1): rounds up to a multiple of a when a is a power of
\* two, which the macro does not check; the sum can wrap.
ALIGN(x, a) == And((x + a - 1) % ULONG, ULONG_MAX - (a - 1))

\* How much room an area must have for a request to be sure to fit in it.
Length(r) == IF r.align > PAGE_SIZE THEN (r.size + r.align - 1) % ULONG
                                    ELSE r.size

\* Where a request would start in va, no lower than from.
nva_start_addr(va, align, from) ==
    ALIGN(IF va.start > from THEN va.start ELSE from, align)

\* Mutant of is_within_this_va: no check that the end wraps.
is_within_this_va_NoWrap(va, size, align, from) ==
    LET nva == nva_start_addr(va, align, from)
    IN nva >= from /\ (nva + size) % ULONG <= va.end

is_within_this_va(va, size, align, from) ==
    LET nva == nva_start_addr(va, align, from)
        end == (nva + size) % ULONG
    IN /\ end >= nva                \* big size
       /\ nva >= from               \* big alignment
       /\ end <= va.end

\* classify_va_fit_type().
FitType(va, nva, size) ==
    LET end == (nva + size) % ULONG
    IN CASE nva < va.start \/ end > va.end -> "NOTHING_FIT"
         [] nva = va.start /\ end = va.end -> "FL_FIT"
         [] nva = va.start /\ end < va.end -> "LE_FIT"
         [] nva > va.start /\ end = va.end -> "RE_FIT"
         [] OTHER -> "NE_FIT"
=============================================================================
