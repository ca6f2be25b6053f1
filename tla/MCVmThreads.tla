----------------------------- MODULE MCVmThreads -----------------------------
(***************************************************************************)
(* VmThreads for TLC: values of the constants.                             *)
(***************************************************************************)
EXTENDS VmThreads

Size(n) == [size |-> n, align |-> 1, vstart |-> VSTART, vend |-> VEND]

SmallRequests == {Size(1), Size(2)}
=============================================================================
