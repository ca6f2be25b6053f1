------------------------------- MODULE VmPage -------------------------------
(***************************************************************************)
(* The size of a page, which both the allocator of vm/ and the threads     *)
(* that share it take from vm.h.                                           *)
(***************************************************************************)
CONSTANT PAGE_SIZE
=============================================================================
