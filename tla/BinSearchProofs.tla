--------------------------- MODULE BinSearchProofs ---------------------------
(***************************************************************************)
(* Proofs about BinSearch, for every set of keys and every node size.      *)
(***************************************************************************)
EXTENDS BinSearch, FiniteSetTheorems, TLAPS

\* The inductive invariant: the loop invariant, the types, and the condition
\* code of a search that has ended.
IInv ==
    /\ TypeOK
    /\ LoopInvariant
    /\ pc = "loop" => pos_cc = "none"
    /\ pc = "done" => l + 1 >= r /\ pos_cc = CC

\* The midpoint of two ends that do not touch lies strictly between them.
LEMMA Midpoint ==
    ASSUME NEW x \in Int, NEW y \in Int, x + 1 < y
    PROVE  /\ (x + y) \div 2 \in Int
           /\ x < (x + y) \div 2
           /\ (x + y) \div 2 < y
  OBVIOUS

\* The types in the form the steps below use.
LEMMA TypeFacts ==
    ASSUME IInv
    PROVE  /\ entries \in Nat /\ key \in Nat
           /\ \A i \in 0 .. entries - 1 : arr[i] \in Nat
  <1>1. entries \in Nat
    BY EntriesAssumption DEF IInv, TypeOK
  <1>2. key \in Keys /\ \A i \in 0 .. entries - 1 : arr[i] \in Keys
    BY DEF IInv, TypeOK
  <1> QED BY <1>1, <1>2, KeysAssumption

\* A search that has ended has its two ends side by side.
LEMMA EndsMeet ==
    ASSUME IInv, pc = "done"
    PROVE  r \in 0 .. entries /\ l = r - 1
  BY EntriesAssumption DEF IInv, TypeOK, LoopInvariant

LEMMA IInvInit == Init => IInv
  BY EntriesAssumption DEF Init, IInv, TypeOK, LoopInvariant

LEMMA IInvNarrow == IInv /\ Narrow => IInv'
  <1> SUFFICES ASSUME IInv, Narrow PROVE IInv'
    OBVIOUS
  <1> USE EntriesAssumption, KeysAssumption
  <1>1. /\ l \in Int /\ r \in Int /\ entries \in Nat
        /\ l >= -1 /\ r <= entries /\ l + 1 < r
    BY DEF IInv, TypeOK, LoopInvariant, Narrow
  <1>2. m \in Int /\ l < m /\ m < r
    BY <1>1, Midpoint DEF m
  <1>0. /\ \A i \in 0 .. entries - 1 : arr[i] \in Nat
        /\ key \in Nat
    BY DEF IInv, TypeOK
  <1>3. m \in 0 .. entries - 1 /\ arr[m] \in Nat /\ key \in Nat
    <2>1. m \in 0 .. entries - 1
      BY <1>1, <1>2
    <2> QED BY <2>1, <1>0
  <1>4. CASE arr[m] < key
    <2>1. l' = m /\ r' = r /\ UNCHANGED <<entries, arr, key, pc, pos_cc>>
      BY <1>4 DEF Narrow
    <2>2. ASSUME NEW i \in 0 .. m PROVE arr[i] < key
      <3>1. arr[i] \in Nat
        <4>1. i \in 0 .. entries - 1
          BY <1>1, <1>2, <1>3
        <4> QED BY <4>1, <1>0
      <3>2. CASE i = m
        BY <3>2, <1>4
      <3>3. CASE i < m
        BY <3>1, <3>3, <1>2, <1>3, <1>4 DEF IInv, TypeOK, Increasing
      <3> QED BY <3>2, <3>3, <1>2
    <2> QED
      BY <2>1, <2>2, <1>1, <1>2, <1>3 DEF IInv, TypeOK, LoopInvariant, Narrow
  <1>5. CASE ~(arr[m] < key)
    <2>1. r' = m /\ l' = l /\ UNCHANGED <<entries, arr, key, pc, pos_cc>>
      BY <1>5 DEF Narrow
    <2>2. ASSUME NEW i \in m .. entries - 1 PROVE key <= arr[i]
      <3>1. arr[i] \in Nat
        <4>1. i \in 0 .. entries - 1
          BY <1>1, <1>2, <1>3
        <4> QED BY <4>1, <1>0
      <3>2. CASE i = m
        BY <3>2, <1>5, <1>3
      <3>3. CASE i > m
        BY <3>1, <3>3, <1>2, <1>3, <1>5 DEF IInv, TypeOK, Increasing
      <3> QED BY <3>2, <3>3, <1>2
    <2> QED
      BY <2>1, <2>2, <1>1, <1>2, <1>3 DEF IInv, TypeOK, LoopInvariant, Narrow
  <1> QED BY <1>4, <1>5

LEMMA IInvFinish == IInv /\ Finish => IInv'
  BY DEF IInv, TypeOK, LoopInvariant, Finish, CC

LEMMA IInvStutter == IInv /\ UNCHANGED vars => IInv'
  BY DEF IInv, TypeOK, LoopInvariant, CC, vars, Increasing

\* The inductive invariant holds of every search.
THEOREM Inductive == Spec => []IInv
  <1>1. IInv /\ [Next]_vars => IInv'
    BY IInvNarrow, IInvFinish, IInvStutter DEF Next
  <1> QED BY IInvInit, <1>1, PTL DEF Spec

\* bpn_bin_search() never reads a slot outside the node's entries and keeps
\* "a[lo] < key <= a[hi]", for every node size and set of keys.
THEOREM LoopInvariantHolds == Spec => []LoopInvariant
  <1>1. IInv => LoopInvariant
    BY DEF IInv
  <1> QED BY Inductive, <1>1, PTL

\* bpn_bin_search() returns the position and the condition code its comment
\* promises, for every node size and set of keys.
THEOREM ResultCorrect == Spec => []Correct
  <1>1. IInv => Correct
    <2> SUFFICES ASSUME IInv, pc = "done" PROVE Correct
      BY DEF Correct
    <2>1. /\ r \in 0 .. entries /\ entries \in Nat /\ l = r - 1
          /\ \A i \in 0 .. entries - 1 : arr[i] \in Nat
          /\ key \in Nat
      BY TypeFacts, EndsMeet
    <2>2. /\ \A i \in 0 .. r - 1 : arr[i] < key
          /\ \A i \in r .. entries - 1 : key <= arr[i]
      BY <2>1 DEF IInv, LoopInvariant
    <2>3. pos_cc = CC
      BY DEF IInv
    <2>4. CASE r < entries
      <3>1. \A i \in r + 1 .. entries - 1 : arr[r] < arr[i]
        BY <2>1, <2>4 DEF IInv, TypeOK, Increasing
      <3>2. r \in r .. entries - 1 /\ r \in 0 .. entries - 1
        BY <2>1, <2>4
      <3>3. key <= arr[r]
        BY <2>2, <3>2
      <3>4. CASE arr[r] = key
        BY <2>1, <2>2, <2>3, <2>4, <3>2, <3>4 DEF Correct, CC
      <3>5. CASE arr[r] # key
        <4>1. \A i \in 0 .. entries - 1 : arr[i] # key
          BY <2>1, <2>2, <3>1, <3>2, <3>3, <3>5
        <4> QED
          BY <2>1, <2>2, <2>3, <2>4, <3>2, <3>3, <3>5, <4>1 DEF Correct, CC
      <3> QED BY <3>4, <3>5
    <2>5. CASE r >= entries
      BY <2>1, <2>2, <2>3, <2>5 DEF Correct, CC
    <2> QED BY <2>1, <2>4, <2>5
  <1> QED BY Inductive, <1>1, PTL

\* The position is the number of smaller keys, which is how the modules of the
\* tree state the search.
THEOREM CountOfSmaller == Spec => []IsCountOfSmaller
  <1>1. IInv => IsCountOfSmaller
    <2> SUFFICES ASSUME IInv, pc = "done"
                 PROVE r = Cardinality({i \in 0 .. entries - 1 : arr[i] < key})
      BY DEF IsCountOfSmaller
    <2>1. /\ r \in 0 .. entries /\ entries \in Nat /\ l = r - 1
          /\ \A i \in 0 .. entries - 1 : arr[i] \in Nat
          /\ key \in Nat
      BY TypeFacts, EndsMeet
    <2>2. {i \in 0 .. entries - 1 : arr[i] < key} = 0 .. r - 1
      BY <2>1 DEF IInv, LoopInvariant
    <2>3. Cardinality(0 .. r - 1) = r
      BY <2>1, FS_Interval
    <2> QED BY <2>2, <2>3
  <1> QED BY Inductive, <1>1, PTL
=============================================================================
