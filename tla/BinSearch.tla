------------------------------ MODULE BinSearch ------------------------------
(***************************************************************************)
(* bpn_bin_search() of vm/vm.h: the binary search every descent of the     *)
(* tree runs in a node.  One step is one iteration of its while loop.  The *)
(* keys of a node are arr[0 .. entries - 1]; l starts one before them and  *)
(* r one after, so neither end is ever read before a midpoint moved it.    *)
(***************************************************************************)
EXTENDS Integers, FiniteSets

CONSTANTS Keys,         \* the values of a key: addresses
          MAX_ENTRIES   \* slots of a node

ASSUME KeysAssumption == Keys \subseteq Nat
ASSUME EntriesAssumption == MAX_ENTRIES \in Nat \ {0}

VARIABLES entries,      \* n->entries
          arr,          \* the keys of the node, arr[0 .. entries - 1]
          key, l, r, pc,
          pos_cc        \* the position condition code returned with r

vars == <<entries, arr, key, l, r, pc, pos_cc>>

\* The keys of a node: increasing, no two alike.
Increasing(a, n) == \A i, j \in 0 .. n - 1 : i < j => a[i] < a[j]

-----------------------------------------------------------------------------
Init ==
    /\ entries \in 0 .. MAX_ENTRIES
    /\ arr \in [0 .. entries - 1 -> Keys]
    /\ Increasing(arr, entries)
    /\ key \in Keys
    /\ l = -1
    /\ r = entries
    /\ pc = "loop"
    /\ pos_cc = "none"

\* The midpoint is strictly between the two ends.
m == (l + r) \div 2

\* Mutant of Narrow: l goes past the middle.
NarrowPastL ==
    /\ pc = "loop"
    /\ l + 1 < r
    /\ IF arr[m] < key THEN l' = m + 1 /\ r' = r
                       ELSE r' = m /\ l' = l
    /\ UNCHANGED <<entries, arr, key, pc, pos_cc>>

Narrow ==
    /\ pc = "loop"
    /\ l + 1 < r
    /\ IF arr[m] < key THEN l' = m /\ r' = r
                       ELSE r' = m /\ l' = l
    /\ UNCHANGED <<entries, arr, key, pc, pos_cc>>

\* Mutant of CC.
CCNotLess == IF r < entries THEN IF arr[r] >= key THEN "EQ" ELSE "LT"
                            ELSE "GT"

\* The position condition code, from the slot the search stopped at.
CC == IF r < entries THEN IF arr[r] = key THEN "EQ" ELSE "LT"
                     ELSE "GT"

\* Mutant of Finish: waits for the ends to meet.
FinishLate ==
    /\ pc = "loop"
    /\ l >= r
    /\ pc' = "done"
    /\ pos_cc' = CC
    /\ UNCHANGED <<entries, arr, key, l, r>>

Finish ==
    /\ pc = "loop"
    /\ l + 1 >= r
    /\ pc' = "done"
    /\ pos_cc' = CC
    /\ UNCHANGED <<entries, arr, key, l, r>>

Next == Narrow \/ Finish

Spec == Init /\ [][Next]_vars /\ WF_vars(Next)

-----------------------------------------------------------------------------
(***************************************************************************)
(* Properties.                                                             *)
(***************************************************************************)
TypeOK ==
    /\ entries \in 0 .. MAX_ENTRIES
    /\ arr \in [0 .. entries - 1 -> Keys]
    /\ Increasing(arr, entries)
    /\ key \in Keys
    /\ l \in -1 .. MAX_ENTRIES
    /\ r \in 0 .. MAX_ENTRIES
    /\ pc \in {"loop", "done"}
    /\ pos_cc \in {"none", "EQ", "LT", "GT"}

\* The comment inside the loop, "invariant: a[lo] < key <= a[hi]", read with
\* an imaginary smallest entry at -1 and largest at entries; the ends never
\* meet, so every midpoint read is a live slot.
LoopInvariant ==
    /\ l < r
    /\ r <= entries
    /\ \A i \in 0 .. l : arr[i] < key
    /\ \A i \in r .. entries - 1 : key <= arr[i]

\* The result promised above the function: "an index j, such that
\* array[j-1] < key <= array[j]", and the condition code that tells the
\* callers to go left (LT, GT) or right (EQ) of separator j.
Correct ==
    pc = "done" =>
        /\ \A i \in 0 .. r - 1 : arr[i] < key
        /\ \A i \in r .. entries - 1 : key <= arr[i]
        /\ (pos_cc = "EQ") <=> (\E i \in 0 .. entries - 1 : arr[i] = key)
        /\ (pos_cc = "GT") <=> (\A i \in 0 .. entries - 1 : arr[i] < key)

\* What the tree's modules use in place of the loop: the position is the
\* number of keys below the one searched.
IsCountOfSmaller ==
    pc = "done" => r = Cardinality({i \in 0 .. entries - 1 : arr[i] < key})

\* Each iteration halves the distance of the ends, so the search ends.
Terminates == <>(pc = "done")
=============================================================================
