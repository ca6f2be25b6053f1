--------------------------- MODULE MCMultiwayTrees ---------------------------
(***************************************************************************)
(* MultiwayTrees for TLC.  Each behaviour follows a plan.  Without an      *)
(* order, callers make any calls with a few keys.  With an order, they     *)
(* insert its keys one after the other, as the tests of the trees do; once *)
(* all are there they look keys up; then they remove them, in any order    *)
(* the plan allows.  The first one removed may be put back once, which     *)
(* do_sanity_check() does with the B+tree.  When nothing is left they      *)
(* begin again.                                                            *)
(***************************************************************************)
EXTENDS MultiwayTrees, Sequences, SequencesExt, FiniteSets, FiniteSetsExt

CONSTANT FewKeys    \* the keys of the plans without an order

VARIABLES plan,
          phase     \* of a plan with an order: grow, full, out, shrink

mcvars == <<vars, plan, phase>>

Up(n) == [i \in 1 .. n |-> i]
Down(n) == Reverse(Up(n))
\* The smallest, the greatest, and so on inwards.
Inwards(n) ==
    [i \in 1 .. n |-> IF i % 2 = 1 THEN (i + 1) \div 2 ELSE n + 1 - (i \div 2)]

\* Which keys may be removed next.
Ends(held) == {Min(held), Max(held)}
Middle(held) ==
    {k \in held : Cardinality({j \in held : j < k}) = Cardinality(held) \div 2}

Plan(kd, order, cut) == [kind |-> kd, order |-> order, cut |-> cut]

\* Three levels in every tree.
Plans ==
    {Plan(kd, <<>>, "any") : kd \in {"btree", "b+tree"}}
      \union {Plan("btree", Up(10), "any"), Plan("btree", Down(10), "middle"),
              Plan("b+tree", Inwards(9), "any"), Plan("b+tree", Down(9), "middle")}
      \union {Plan("blue", order, "middle") : order \in {Up(13), Inwards(13)}}
      \union {Plan("blue", Down(50), "ends")}

Removable ==
    CASE plan.cut = "any" -> InTree
      [] plan.cut = "ends" -> Ends(InTree)
      [] plan.cut = "middle" -> Ends(InTree) \union Middle(InTree)

MCInit ==
    /\ Init
    /\ plan \in Plans
    /\ plan.kind = kind
    /\ phase = "grow"

AnyCall ==
    /\ plan.order = <<>>
    /\ \E c \in {"insert", "remove", "lookup"}, k \in FewKeys : Call(c, k)
    /\ UNCHANGED <<plan, phase>>

Scripted == plan.order # <<>> /\ op.pc = "idle"

Grow ==
    LET k == plan.order[Cardinality(InTree) + 1]
    IN /\ Scripted /\ phase = "grow"
       /\ Call("insert", k)
       /\ phase' = IF k = Last(plan.order) THEN "full" ELSE "grow"
       /\ UNCHANGED plan

Lookup ==
    /\ Scripted /\ phase = "full"
    /\ kind # "blue"
    /\ \E k \in InTree : Call("lookup", k)
    /\ UNCHANGED <<plan, phase>>

PutBack ==
    /\ Scripted /\ phase = "out"
    /\ kind = "b+tree"
    /\ \E k \in Range(plan.order) \ InTree : Call("insert", k)
    /\ phase' = "shrink"
    /\ UNCHANGED plan

Shrink ==
    /\ Scripted /\ phase # "grow"
    /\ \E k \in Removable :
          /\ Call("remove", k)
          /\ phase' = CASE InTree = {k} -> "grow"
                        [] phase = "full" -> "out"
                        [] OTHER -> "shrink"
    /\ UNCHANGED plan

MCStep == Step /\ UNCHANGED <<plan, phase>>

MCNext == AnyCall \/ Grow \/ Lookup \/ PutBack \/ Shrink \/ MCStep

\* A call that has started runs to its end.
MCSpec ==
    /\ MCInit /\ [][MCNext]_mcvars
    /\ WF_mcvars(kind # "blue" /\ MCStep)
=============================================================================
