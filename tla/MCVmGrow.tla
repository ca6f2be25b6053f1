------------------------------ MODULE MCVmGrow ------------------------------
(***************************************************************************)
(* VmTree on trees of three levels, with the variables of VmTree alone.    *)
(* The callers take one page at each address of a script, in its order,    *)
(* which cuts the space into areas of one page; then they free what they   *)
(* hold, in any order in which what is left is never the beginning of the  *)
(* script, so that what they hold tells which of the two they are doing.   *)
(* When they hold nothing they start again.                                *)
(***************************************************************************)
EXTENDS MCVmTree

CONSTANT Script         \* a sequence of addresses

Page(a) == [size |-> 1, align |-> 1, vstart |-> a, vend |-> VEND]

\* The addresses held are the first k of the script.
Beginning(held, k) == {b.start : b \in held} = Range(SubSeq(Script, 1, k))

Grow ==
    \E k \in 0 .. Len(Script) - 1 :
        Beginning(blocks, k) /\ AllocCall(Page(Script[k + 1]))

Shrink ==
    \E b \in blocks :
        /\ \A k \in 1 .. Len(Script) - 1 :
              ~Beginning(blocks, k) /\ ~Beginning(blocks \ {b}, k)
        /\ FreeCall(b)

GrowNext == Grow \/ Shrink \/ Step

GrowSpec == Init /\ [][GrowNext]_vars

\* Every second page, from the middle outwards.
Outwards ==
    LET up == [i \in 1 .. (VEND - VSTART - 1) \div 2 |-> VSTART + 2 * i - 1]
        half == Len(up) \div 2
    IN SubSeq(up, half + 1, Len(up)) \o Reverse(SubSeq(up, 1, half))
=============================================================================
