------------------------------ MODULE MCVmDeep ------------------------------
(***************************************************************************)
(* VmTree from a tree of three levels.  The callers first take one page at *)
(* each address of a script, which cuts the space into areas of one page;  *)
(* then they free what they hold, in every order, and may still take       *)
(* ALLOCS pages anywhere in between.                                       *)
(***************************************************************************)
EXTENDS MCVmTree

CONSTANTS Scripts,      \* sequences of addresses
          ALLOCS        \* bound on the allocations after the script

VARIABLES script,       \* what is left of the script
          allocs        \* allocations still to make

deep_vars == <<heap, root, list, op, blocks, script, allocs>>

Page(a) == [size |-> 1, align |-> 1, vstart |-> a, vend |-> VEND]

DeepInit ==
    /\ Init
    /\ script \in Scripts
    /\ allocs = ALLOCS

Scripted ==
    /\ script # <<>>
    /\ AllocCall(Page(Head(script)))
    /\ script' = Tail(script)
    /\ UNCHANGED allocs

FreeAny ==
    /\ script = <<>>
    /\ \E b \in blocks : FreeCall(b)
    /\ UNCHANGED <<script, allocs>>

AllocAny ==
    /\ script = <<>>
    /\ allocs > 0
    /\ \E q \in Requests : AllocCall(q)
    /\ allocs' = allocs - 1
    /\ UNCHANGED script

\* The callers have given everything back.
Stop ==
    /\ script = <<>> /\ op.pc = "idle" /\ blocks = {}
    /\ UNCHANGED deep_vars

DeepNext ==
    \/ Scripted \/ FreeAny \/ AllocAny \/ Stop
    \/ Step /\ UNCHANGED <<script, allocs>>

DeepSpec == DeepInit /\ [][DeepNext]_deep_vars

\* Every second page: from the bottom up, from the top down, and from the
\* middle outwards, which fill the nodes in different ways.
Up == [i \in 1 .. (VEND - VSTART - 1) \div 2 |-> VSTART + 2 * i - 1]
Down == Reverse(Up)
Outwards ==
    LET half == Len(Up) \div 2
    IN SubSeq(Up, half + 1, Len(Up)) \o Reverse(SubSeq(Up, 1, half))

DeepScripts == {Up, Down, Outwards}
=============================================================================
