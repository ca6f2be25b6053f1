# A TLA+ model of libalgo

libalgo is a collection of data structures in C.  Its most elaborate part is
`vm/`, an allocator of address ranges that keeps the free areas in a B+tree
whose inner nodes also record the largest free area under each child, and a
test in which threads hammer it under a spin lock.  This directory models that
part, the six trees of `libtree/` and the hash table; TLC checks the models on
small instances, and TLAPS proves parts of them for every value of the
constants.

`PROJECT.json` has the index: components, runs, the lines of C each definition
stands for, a mutant of the code for each property, hazards and theorems.

## The system

| part | state | operations | what makes it hard |
|---|---|---|---|
| `vm/` tree (`vm.c`, `vm_ops.c`, `vm.h`, `array.h`) | nodes with separators, links, parent, `ppos`, free sizes; list of leaves; root | `alloc_vmap_area`, `free_vmap_area`, `bpt_po_insert`, `bpt_po_delete`, lookups, fix-ups | a free can merge areas of two leaves, move a separator high up, delete, rebalance and descend again; stale `ppos`; sums that wrap |
| `vm/` test threads (`test.c`) | the lock, an array of blocks per thread | allocate, flush, join | interleavings, ownership of blocks, division by zero |
| `libtree/b+tree` | nodes as above without free sizes; list of leaves | insert, delete, lookup | splits and merges on the way down; separators of keys that are gone |
| `libtree/btree` | nodes with slots and links | insert, remove, lookup | preemptive splits; a removal that goes on with another key in a node that moved |
| `libtree/btree_blue` | head with height; nodes with decreasing keys, linked leaves | insert, remove, lookup, first, last, iterate | inserts and removals that call themselves a level up; bounds that follow the keys below; a threshold that leaves nodes thin |
| `libtree/avltree` | nodes with balance factor and parent | insert, lookup | rotations, a climb that stops early, parent links left stale |
| `libtree/bstree` | nodes with three links | insert, remove, lookup | removal of a node with two children |
| `libtree/splaytree` | nodes with `max_size` and parent | top-down splay, insert, remove | a tree taken apart into three and put together; `max_size` refreshed along two paths |
| `libhash` | buckets of doubly linked entries | add, delete, lookup, destroy, rehash | lists shared by colliding keys; loops over a list that the loop's body changes |
| `ewma.c`, `include/` | none | demonstration, timing and printing macros | nothing to check |

Nothing in the repository keeps data beyond the process or sends messages, so
there are no crashes to recover from and no messages to lose.  Only `vm/test.c`
is concurrent: its threads share one allocator, which has no lock of its own,
under `free_area_lock`.  Every other structure is used by one caller at a time.
What makes those hard is that one call is a sequence of loops over linked nodes,
each relying on what the loop before left behind, and that a mistake in one
call shows many calls later.

The parts call each other in `vm/` only: `test.c` calls `alloc_vmap_area()` and
`free_vmap_area()` (`vm_ops.c`), which look up and clip areas and call the tree
operations of `vm.c`, which work on nodes through `vm.h` and `array.h` and on
the list of leaves through `list.h`.

What makes each part correct:

- **vm tree.**  It does what an allocator promises (`VmAlloc`): no two blocks
  overlap, a request is served at the lowest fitting address, and refused only
  when nothing is sure to fit.  Underneath: free areas and blocks tile the space;
  free sizes in the inner nodes are exact; the tree is balanced, its links agree
  and the list of leaves runs in key order; no `BUG_ON()` is reached; calls end.
- **threads.**  One call at a time; every block has exactly one owner; the array
  does not overflow; nothing is left when all have ended; they do end.
- **trees and hash table.**  They are sets of keys (`KeySet`), at every moment
  of every call; the links that their own loops rely on are right when used.

## Modules

One step of a model is one iteration of a loop of the code, or the straight
code between two loops.  `op` is a record of the local variables of the call in
progress, and `op.pc` names the loop it is in.

| module | models | state and actions |
|---|---|---|
| `BinSearch` | `bpn_bin_search()` in `vm.h` | `l`, `r`, and the result; `Narrow` is an iteration, `Finish` what follows the loop |
| `VmPage` | `PAGE_SIZE` of `vm.h` | a constant |
| `VmArea` | areas and fit tests of `vm.h`, `vm_ops.c` | operators: `ALIGN`, `nva_start_addr`, `is_within_this_va`, `FitType`; sums are modulo `ULONG` |
| `VmNode` | nodes, `vm.c`, `array.h` | operators on a node or on the heap of nodes: `Split`, `ShiftLeft`, `ShiftRight`, `MergeSiblings`, bounds on entries, binary search by its result (`IsCountOfSmaller`) |
| `VmTree` | `vm.c`, `vm_ops.c`, `verify_meta_data()` | `heap`, `root`, `list`, `op`, `blocks`; one action per loop or branch of lookup, clip, insert, merge, delete and fix-up |
| `VmTreeProps` | | the properties of `VmTree`, and its mapping to `VmAlloc` |
| `VmAlloc` | what `alloc_vmap_area()`, `free_vmap_area()` promise | `blocks`, `req`; `Ask`, `Grant`, `Refuse`, `Free` |
| `VmThreads` | `thread_job()`, `test_alloc_free()` in `test.c` | `lock`, `pc`, `array`, `loops` of every thread, over an instance of `VmAlloc` |
| `KeySet` | what trees and hash table promise | `keys`, the call and its answer |
| `Avl`, `AvlProps` | `avltree/avl.c` | `node`, `root`, `op`; descent, climb, the four rotations, lookup |
| `Bst`, `BstProps` | `bstree/bstree.c` | `node`, `root`, `op`; insert, find, the shapes of removal |
| `Splay`, `SplayProps` | `splaytree/splay.c` with `SPLAY_AUGMENT` | `node` (and `head` of a splay among them), `root`, `op`; zig-zig and linking steps, assembling, the climbs that refresh `max_size`, insert, remove |
| `BinaryTrees` | the three above | `kind` says which tree the callers have; each is an instance |
| `BTree`, `BTreeProps` | `btree/btree.c` | `node`, `root`, `op`; descent with splits, search, the cases of removal |
| `BPlus`, `BPlusProps` | `b+tree/b+tree.c` | `node`, `root` with the list of leaves, `op`; descent, splits, shifts, merges, lookup |
| `BtreeBlue`, `BtreeBlueProps` | `btree_blue/btree_blue.c` | `node`, `root` with the height, `op`; insert and remove as operators that recurse up the levels as the code does, a whole call per step; lookup, first, last, `get_prev`, `get_next` as operators |
| `MultiwayTrees` | the three above | `kind`, as in `BinaryTrees` |
| `Hash`, `HashProps` | `libhash/src/hash.c` | `table`, `entry`, `op`; every call of `hash.h` |
| `TreeKeys` | the keys and sizes callers give to tree nodes | constants, and what is assumed of them |
| `VmProofs`, `BinSearchProofs`, `HashProofs`, `AvlProofs`, `BinaryTreesProofs`, `SplayPieces`, `SplayProofs` | | theorems: `VmProofs` about `VmThreads`, `VmAlloc` and `VmNode`; `AvlProofs` and `BinaryTreesProofs` about `BinaryTrees`; the two on the splay tree about `SplayProps`, which `BinaryTreesProofs` uses through an instance |
| `Linked` | | lemmas the proofs about linked structures share: nodes placed along a list, search trees whose `sub` tells what is under each node, a rotation as one turn of two nodes |
| `MCVmTree`, `MCVmDeep`, `MCVmGrow`, `MCVmThreads`, `MCHash`, `MCBinaryTrees`, `MCMultiwayTrees` | | values of constants, and callers that lead to deep trees |

`VmTree` implements `VmAlloc` (`Implements`), and `VmThreads` runs on
`VmAlloc`: the threads need only what the allocator promises, and the lock
gives the tree what it needs, one call at a time (`Serialised`).  `BinSearch`
shows that the search returns the count of smaller keys, which is how `VmNode`
states it.  `BinaryTrees`, `MultiwayTrees` and `Hash` implement `KeySet`, so that
callers of the AVL tree, the binary search tree, the splay tree, the B-tree, the
B+tree and the hash table see one specification.  Of `btree_blue` it covers
inserts and removals; its lookup may miss the smallest key, and what it does find
is said by `FindsAllButSmallest`.

Decisions a reader should know of:

- Addresses are counted in pages: `PAGE_SIZE` is 1 in the runs.  `ULONG` is the
  number of values of an `unsigned long`, 16 or 32, so that sums do wrap.
- `ORDER` is 4 in the runs instead of 24: the least for which the code's bounds
  make sense, and the one with the most splits and merges.
- `And` is a parameter, and is bitwise and in the `MC` modules only, so that
  modules with proofs do not reach it.
- The other multiway trees have their least sizes too: `MIN_DEGREE` 2 instead of
  16 in `BTree`, `ORDER` 4 in `BPlus`, and in `BtreeBlue` 9 slots in a leaf and 10
  in an inner node, which is what the smallest node `btree_blue_init()` accepts
  holds with keys of two words.
- `malloc()` does not fail (but for `btree_blue` the code does not handle it), and
  takes any free node name; which one cannot matter, so `Fresh` chooses.
- Requests have a size above 0, and callers free only what they hold: anything
  else is outside what the code accepts.  `InsertArea` nevertheless keeps the
  branch in which an overlapping area is refused with -1.
- A `BUG_ON()` is a property (`NoBug`): it must not be reached.
- `VerifyCall` is a call only with `DEBUG`; it is `verify_meta_data()` of the
  test, which looks up free areas by their start.
- The shuffle and the random mask of the test are free choices.  A flush with
  an empty array divides by zero, which ends the process: `Crash`.
- In `Avl`, `Bst`, `Splay` and `Hash` a node is named by its key, because a
  structure admits a key once.  A freed node or entry is all zero.
- In `BTree` the member `parent` is left out: it is written and never read.  In
  `BPlus` only whether `info.parent` is NULL is kept: nothing else is looked at.
- A lookup in the splay tree is `top_down_splay()`, as in its test, and changes the
  tree.
- Callers of `btree_blue` insert keys that are absent (a present one is a
  `BUG_ON`) and remove keys that are present; what the removal of an absent key
  does is a property, `AbsentRemovalTakesNeighbour`.  Its values are not modelled.
- Keys of the hash table are shorter than `KEY_SIZE`.  `hash_function` is any
  function of the key.  The branch of `hash_rehash()` that moves an entry is
  not modelled: `index` never differs from the bucket (`Lists`).
- Names that start like a definition and say what is wrong (`DescendLate`) are
  mutants: the definition as a plausible mistake would have it.  Only
  `PROJECT.json` uses them.

## Runs

| run | asks | instance, and why it is enough |
|---|---|---|
| `bin_search` | `LoopInvariant` (the comment in the code), `Correct`, `Terminates` | sorted nodes of up to 5 of 6 keys: empty, full, all positions |
| `vm_small` | `Implements`, `SameAsLinear`, `VerifyMetaData`, `TypeOK`, `CallsReturn` | all histories in 6 pages: up to 3 areas, which fill a leaf, so that trees of two levels come and go |
| `vm_aligned` | `Implements` | 15 pages, sizes 3 and `ULONG_MAX - 1`, alignments 1, 3, 4: wrapped sums, blocks with space left on both sides |
| `vm_deep` | `NoBug`, `LinksAgree`, `Balanced`, `LeafListInOrder`, `SeparatorsCutNothing` | three levels: 8 blocks in 17 pages, freed in nearly every order |
| `vm_mixed` | `AvailExact`, `Tiling`, `GivesUpOnlyWhenFull` | three levels grown in three ways, frees in every order, one allocation anywhere among them |
| `threads` | `Serialised`, `Owned`, `ArrayFits`, `AllReturned`, `Ends` | 2 threads, 3 rounds, arrays of 2, 4 pages: full arrays, refusals, flushes and the division by zero.  `Ends` says that nothing hangs; it takes the division by zero for an end and does not rule it out |
| `binary_trees` | `Ordered`, `LinksAgree`, `BalanceExact`, `MaxSizeExact`, `Implements`, `CallsReturn` | AVL: every order of inserting 8 keys, so all four rotations, at and below the root, double ones with all three leanings of the lower node.  BST and splay tree: every history of 6 keys, so successors that are the victim's child and that are not, with and without a child, at the root and below; splays that end on either side, after zig-zig and linking steps, with sizes in no order, one of them twice |
| `multiway_trees` | `NoBug`, `Balanced`, `InOrder`, `FindsAllButSmallest`, `AbsentRemovalTakesNeighbour`, `Implements`, `CallsReturn` | every history of 5 keys in the B-tree and the B+tree (splits and merges of the root), and trees of three levels in all three: see below |
| `hash` | `Lists`, `AllReached`, `Implements`, `CallsReturn` | 5 keys in 3 buckets: four keys in one, one in another, none in the third |
| `vm_lowest_leaf_comment` | `LowestLeafComment` is violated | see Findings |
| `hash_rehash` | `RehashSeesAll` is violated | see Findings |
| `blue_smallest` | `RightMostUpdated` is violated | see Findings; 10 keys fill the first leaf and split it |

Three levels are out of reach of all histories, so two modules lead there.
`MCVmDeep` first takes one page at every second address, in the order of a
script, and then frees in every order; it needs two variables of its own.
`MCVmGrow` tells what to do next from the addresses held, adds no variable, and
starts again when it holds nothing.  In both, the bounds are `Nodes` (never
exhausted: `Fresh` would fail in TLC), `VEND`, and the scripts; in `MCVmDeep`
`ALLOCS` also bounds the allocations after the script.  `LOOPS` and
`MAX_DEFER_FREE` are parameters of the test itself, as `hash_size` is of the
hash table.

`MCMultiwayTrees` follows plans: keys come in a given order, as in the tests of the
trees, and go in any order the plan allows until none is left; then it starts
again.  The B-tree gets 10 keys upwards, removed in every order, and downwards,
removed at the ends and in the middle; the B+tree 9 keys, from both ends inwards,
removed in every order, and downwards, and the first key removed may come back.
`btree_blue` gets 13 keys upwards and inwards (two levels, with merges, shifts of
bounds and emptied leaves) and 50 downwards, which make three levels; those are
removed at the ends.  `Nodes` is never exhausted.

`bin_search` checks no deadlock: a search stops when it has its result.

## Fairness

`WF(Step)` in `VmTree`, `BinaryTrees` and `Hash`, and for the B-tree and the B+tree
in `MCMultiwayTrees`: a call that has started runs
to its end, since it is ordinary sequential code; no fairness is put on the
callers.  `btree_blue` has none, as a call of it is one step.  In `VmThreads` every thread is scheduled again and again
(`WF(Thread(t))`), and so is `main` until it has released the lock.  The spin
lock is not fair, and none is assumed: the threads still end, because each
needs the lock a bounded number of times.  `BinSearch` has `WF` on its loop.

## Findings

- `LowestLeafComment`.  The comment above `bpt_lookup_lowest_leaf()` guarantees
  a large enough area in the leaf returned, unless it is the last.  The area may
  lie below `vstart`; `lookup_smallest_va()` makes up for it by a second descent
  (`GivesUpOnlyWhenFull` and `SameAsLinear` hold).
- `RehashSeesAll`.  `hash_rehash()` "picks up all entries".  Its inner loop never
  moves on from the first entry of a bucket with two, and its outer loop ends at
  the first empty bucket.
- `RightMostUpdated`.  "right-most key is too large, update it", says
  `find_level()` of `btree_blue`, and does it in the nodes above the level it looks
  for.  When a key below all others splits the root leaf there is no such node yet:
  the new root gets the old smallest key as its bound, the new key goes below it,
  and a lookup of that key finds nothing until an insertion or removal of a key as
  small lowers the bound.  Everything else is found (`FindsAllButSmallest`).
- `AbsentRemovalTakesNeighbour` holds and is worth knowing: `btree_blue_remove()` of
  a key that is not there may remove the next smaller one.
- Not runs, but met on the way: when a tree of three levels loses its root the
  new root is an internal node, not "a leaf node only" (`vm.c:493`); and link[2]
  of an AVL node is not always its parent, because double rotations leave it
  stale (`avl.c:207`).  Neither does harm: `Balanced`, `LinksAgree`,
  `PathLinked` and `BalanceExact` hold.  "Can be a leaf node only" (`b+tree.c:439`) is
  also reached with internal nodes, and is right for them.  "No two neighboring
  nodes can be merged" after a rebalance of `btree_blue` is not so, since nodes are
  looked at only when they get below half less two: they may stay thin, and are
  never empty (`Balanced`).  `btree_blue_first()` and `last()` of a tree that was
  emptied read a slot that is not there, because the empty root leaf stays;
  `get_next()` across leaves goes to the right key, but reads the value of slot 0;
  `btree_blue_destroy()` forgets the root and frees nothing.

## Proofs

| theorem | for every | along which argument |
|---|---|---|
| `VmProofs!CallsSerialised`, `BlocksOwned`, `EverythingReturned` | number of threads and rounds, array size, space, set of requests | one invariant, `IInv`: types, `Serialised`, `Owned`, a thread that has exited holds nothing, and the allocator's invariant.  `Owned` needs the last: only because blocks exclude each other is a block just granted in no array |
| `VmProofs!DeferredFit` | the same | there is room for one more block wherever an allocation may come, since only a thread whose array is not full leaves the flush without it (`Room`); needs `IInv`, so that a grant adds one block |
| `VmProofs!AllocExclusive` | space, set of requests | of the abstract allocator, for the sake of `BlocksOwned`: a candidate lies in free addresses; inductive once the pending request is a real one |
| `BinSearchProofs!LoopInvariantHolds`, `ResultCorrect`, `CountOfSmaller` | node size and set of keys | the loop invariant of the comment, and that a finished search has its ends side by side; the count is the cardinality of an interval |
| `HashProofs!ListsWhole` | set of keys, number of buckets, hash function | `Lists` speaks of neighbours only, but an entry may be appended only where a walk to the end has missed no key of the bucket.  `IInv` adds that there is a place for every entry (`Places`: distinct in a bucket, growing along `next`, least at the head), and that a walk has not gone past its key (`Ahead`).  The places are said to exist, not stored: an appended entry gets one behind the last, a deleted one leaves the others theirs |
| `HashProofs!HashIsSet` | the same | the table implements `KeySet` with the entries in use for its keys.  A walk that ends without its key has missed none: `Places` and `Ahead` again (`WalkTells`).  `SInv` adds what a call looks like at each point, and that the buckets `hash_destroy()` has left behind are empty, so that it ends with nothing in use |
| `HashProofs!NoneCutOff` | the same | `AllReached`, which recurses along `next`.  Of the entries in use that no walk meets take the one with the least place: what comes before it in its list is met, so it is too.  Freed entries have lost their links |
| `BinaryTreesProofs!BstLinks`, `BstOrder`, `BstIsSet` | set of keys | there is a `sub` that tells what is under each node (`SearchTree`), no two nodes link to one, links up and down agree, and a search has left nothing behind between it and its key (`OnWay`); the successor in a removal is below all other keys of the right sub-tree.  Each shape of the surgery unlinks a node with at most one child or puts one in the place of another (`UnlinkTree`, `SwapTree`) and gets a new `sub`.  As no two `sub` fit one tree, the one of the invariant is the recursive `Under` of the properties (`UnderIs`) |
| `AvlProofs!AvlLinks`, `AvlOrder`, `AvlBalance`, `AvlIsSet` | set of keys | `AvlInv`: there are a `sub` and heights `ht` that do not count what the climb has yet to tell of (`GrownOf`), for which all balance factors are exact; parent links lead back from the new key (`Traced`), those elsewhere may be stale; the climb is at the new leaf or at a node that leans, which is why what it stops at is even; only the node to be rotated leans by two.  A rotation is one turn, or two (`SingleTurn`, `DoubleTurn`), that gives the heights back their old value at the top (`Relevelled`), so that nothing above changes |
| `BinaryTreesProofs!SplayLinks`, `SplayOrder`, `SplayMaxSize`, `SplayIsSet` | set of keys, sizes of the nodes | `SplayInv`, see below |
| `BinaryTreesProofs!TreesLinked`, `TreesOrdered`, `TreesAreSets` | set of keys, whichever tree | the three trees' theorems together, `kind` being chosen at the start: the properties of the run `binary_trees` as they stand |
| `VmProofs!SplitLeafSizes`, `SplitInterSizes`, `MergeFits` | `ORDER` from 4 up | arithmetic of the bounds on entries (`Bounds`), odd orders included |

`SplayInv` says what a splay has made of the tree.  Some `sub` tells what is under
each node once the links are cut that the splay has yet to overwrite (`Cut`), so
that what is still to be looked at, the two trees under `head` and, in a removal,
what hangs below the victim are search trees that share no node (`Pieces`).  All
of a tree under `head` lies on its side of the key and of what is still to be
looked at, its last node at its end (`Sides`), which is why a node may be hung
there.  `Stale` says where the cut links lead: it takes no part in keeping the
pieces, but tells that none leads into a ring, so that `InTree` of the properties,
which follows them, is the keys of the pieces; the proof hangs the pieces back
one at a time (`GraftEnd`).  `Settled` tells at the end that a missing key would
be a child of the root, which makes the answer and the new root of an insertion
right.  `Sizes` lets `max_size` be wrong only above the nodes the two climbs start
from (and in the victim): each step of a climb moves that node up by one.
`SplayPieces` has the steps of the splay and the assembling, `SplayProofs` the
climbs, the calls and `SplayStep`, that every step keeps `SplayInv` and is one
`KeySet` allows.  `BinaryTreesProofs` shows that a step of `BinaryTrees` on this
tree is such a step, and that the properties of both are the same.

The assumptions are those named `...Assumption` in the modules, which TLC
evaluates in the runs; of an instance (`Alloc` in `VmThreads`, the trees in
`BinaryTrees`) they are shown to follow from those of the module that has it.
Each invariant was checked by TLC before it was proved.

The provers cannot use an induction theorem that takes an operator, so facts
about walks and trees of any size go by a least counterexample instead: the entry
with the least place (`LeastSet`), the node with no counterexample below it
(`LowestNode`).  `sub`, `ht` and the places of list entries are not state: the
invariants say that some exist, and each step is shown to leave some again.

Only model-checked: all liveness (`Terminates`, `CallsReturn`, `Ends`); that
`VmTree` implements `VmAlloc`, and the properties of its trees, which are about
paths of any length; those of the B-tree, the B+tree and `btree_blue`, whose
RECURSIVE operators the provers do not accept.

## What is not modelled

- Of `btree_blue`: values, and with them `btree_blue_update()`; a `malloc()` that
  fails half way up an insert; `btree_blue_destroy()`; trees of more than the eight
  levels `slot_vols[]` has, which take some hundred thousand keys.
- Areas in `vm/` that are not whole pages: with alignments at or below `PAGE_SIZE`
  the length looked for leaves no room for them, but no caller asks for such.
- `bpt_lookup()` and `bpt_root_destroy()` of `vm/`, `do_fix_balance_remove()`
  of the AVL tree, `augment_tree_propagate_from()` of the splay tree: nothing calls
  them; `bpt_root_destroy()` of the B+tree comes after an endless loop of its test.
  `avl_remove()`, `splay_lookup()` and `splay_remove()` are declared only.
- Dumps and statistics (`debug.c`, `hash_dump()`, `ewma.c`, `timer.h`) and the
  tests of the trees and the hash table, which time calls one after the other.

## Plan

1. Done: the allocator and its threads, all trees, the hash table.
2. Proofs: done for the threads, the node search, the hash table and the three
   binary trees; the leaf list of `VmTree` is open.
3. `btree_blue` with a failing `malloc()`, which wants its insert in steps.
