------------------------------- MODULE VmNode -------------------------------
(***************************************************************************)
(* The nodes of the augmented B+tree of vm/ and the operations on them.    *)
(* A node is a record; its three arrays are sequences of the live entries, *)
(* so n->entries is the length of slot.  Positions are those of the code,  *)
(* from 0.  A heap maps each node id to the node stored there; the         *)
(* operations that touch several nodes map a heap to a heap.               *)
(***************************************************************************)
EXTENDS VmArea, Sequences, FiniteSets, SequencesExt, FiniteSetsExt

CONSTANTS ORDER,        \* BPT_ORDER: most children a node may have
          Nodes         \* addresses of struct bpn, a set of numbers

NULL == 0

ASSUME OrderAssumption == ORDER \in Nat /\ ORDER >= 4
ASSUME NodesAssumption == Nodes \subseteq Nat \ {NULL}

MAX_ENTRIES == ORDER - 1
MAX_CHILDREN == ORDER
MIN_CHILDREN == ORDER \div 2
MIN_ENTRIES_EXTER == MAX_ENTRIES \div 2
MIN_ENTRIES_INTER == MIN_CHILDREN - 1

\* split(): half, the odd one up.
split(x) == (x \div 2) + (x % 2)

-----------------------------------------------------------------------------
(***************************************************************************)
(* One node.  slot holds areas in a leaf and separator keys in an internal *)
(* node; suba (SUB_AVAIL) and subl (SUB_LINKS) are empty in a leaf.  ppos  *)
(* is the child the last descent took.                                     *)
(***************************************************************************)
bpn_calloc_init(type) ==
    [type |-> type, parent |-> NULL, ppos |-> 0,
     slot |-> <<>>, suba |-> <<>>, subl |-> <<>>]

\* A node id that is not in use.
FreeNode == bpn_calloc_init("free")

IsInternal(n) == n.type = "inter"
IsExternal(n) == n.type = "exter"

Entries(n) == Len(n.slot)
IsFull(n) == Entries(n) = MAX_ENTRIES
MinEntries(n) == IF IsInternal(n) THEN MIN_ENTRIES_INTER
                                  ELSE MIN_ENTRIES_EXTER
\* Mutant of IsGtMin: a node at its minimum may give an entry away.
IsGeMin(n) == Entries(n) >= MinEntries(n)

IsGtMin(n) == Entries(n) > MinEntries(n)

\* bpn_get_key(): a leaf's key is in its record.
Key(n, pos) == IF IsExternal(n) THEN n.slot[pos + 1].start
                                ELSE n.slot[pos + 1]

\* Where bpn_bin_search() stops in a node with increasing keys: past the
\* smaller ones (BinSearch!IsCountOfSmaller).
BinPos(n, key) == Cardinality({i \in 0 .. Entries(n) - 1 : Key(n, i) < key})

\* Its condition code is POS_CC_EQ.
IsEQ(n, key) ==
    BinPos(n, key) < Entries(n) /\ Key(n, BinPos(n, key)) = key

\* The child a search for key follows: right of a separator equal to it.
ChildIndex(n, key) == BinPos(n, key) + (IF IsEQ(n, key) THEN 1 ELSE 0)

\* check_bpn_geometry() of a node that has a parent.
GeometryOK(n) == n.parent # NULL => Entries(n) >= MinEntries(n)

\* bpn_max_avail(): the largest free size under a node.
MaxAvail(n) ==
    Max({0} \union IF IsInternal(n)
                   THEN {n.suba[i] : i \in DOMAIN n.suba}
                   ELSE {va_size(n.slot[i]) : i \in DOMAIN n.slot})

-----------------------------------------------------------------------------
(***************************************************************************)
(* Arrays (vm/array.h) with positions from 0.                              *)
(***************************************************************************)
ArrInsert(a, pos, v) == InsertAt(a, pos + 1, v)
ArrRemove(a, pos) == RemoveAt(a, pos + 1)

-----------------------------------------------------------------------------
(***************************************************************************)
(* Two siblings and their separator.  pos is where the search stopped in   *)
(* the parent; past the last separator it means the last one.              *)
(***************************************************************************)
SepPos(p, pos) == IF pos < Entries(p) THEN pos ELSE pos - 1

bpn_get_left(p, pos) == p.subl[SepPos(p, pos) + 1]
bpn_get_right(p, pos) == p.subl[SepPos(p, pos) + 2]

\* The nodes of kids get a new parent.
Reparent(h, kids, p) ==
    [i \in DOMAIN h |-> IF i \in kids THEN [h[i] EXCEPT !.parent = p]
                                      ELSE h[i]]

CanShift(p, pos, to, from) ==
    SepPos(p, pos) \in 0 .. Entries(p) - 1 /\ ~IsFull(to) /\ IsGtMin(from)

\* bpn_try_shift_left() when it succeeds: the first entry of r goes to l.  In
\* an internal node it goes through the parent and takes a child along.
ShiftLeft(h, p, pos) ==
    LET l == bpn_get_left(h[p], pos)
        r == bpn_get_right(h[p], pos)
        s == SepPos(h[p], pos) + 1
        kid == Head(h[r].subl)
    IN IF IsInternal(h[l])
       THEN Reparent([h EXCEPT
                ![l].slot = Append(@, h[p].slot[s]),
                ![l].subl = Append(@, kid),
                ![l].suba = Append(@, Head(h[r].suba)),
                ![p].slot[s] = Head(h[r].slot),
                ![r].slot = Tail(@), ![r].subl = Tail(@), ![r].suba = Tail(@)],
              {kid}, l)
       ELSE [h EXCEPT
                ![l].slot = Append(@, Head(h[r].slot)),
                ![p].slot[s] = Key(h[r], 1),
                ![r].slot = Tail(@)]

\* bpn_try_shift_right() when it succeeds: the last entry of l goes to r.
ShiftRight(h, p, pos) ==
    LET l == bpn_get_left(h[p], pos)
        r == bpn_get_right(h[p], pos)
        s == SepPos(h[p], pos) + 1
        kid == Last(h[l].subl)
        last == Key(h[l], Entries(h[l]) - 1)
    IN IF IsInternal(h[l])
       THEN Reparent([h EXCEPT
                ![r].slot = <<h[p].slot[s]>> \o @,
                ![r].subl = <<kid>> \o @,
                ![r].suba = <<Last(h[l].suba)>> \o @,
                ![p].slot[s] = last,
                ![l].slot = Front(@), ![l].subl = Front(@), ![l].suba = Front(@)],
              {kid}, r)
       ELSE [h EXCEPT
                ![r].slot = <<Last(h[l].slot)>> \o @,
                ![p].slot[s] = last,
                ![l].slot = Front(@)]

\* Mutant of MergeSiblings: the children keep the parent they had.
MergeSiblingsOrphans(h, p, pos) ==
    LET l == bpn_get_left(h[p], pos)
        r == bpn_get_right(h[p], pos)
        s == SepPos(h[p], pos)
        down == IF IsInternal(h[l]) THEN <<h[p].slot[s + 1]>> ELSE <<>>
    IN [h EXCEPT
            ![l].slot = @ \o down \o h[r].slot,
            ![l].subl = @ \o h[r].subl,
            ![l].suba = @ \o h[r].suba,
            ![p].slot = ArrRemove(@, s),
            ![p].subl = ArrRemove(@, s + 1),
            ![p].suba = ArrRemove(@, s + 1),
            ![r] = FreeNode]

\* bpn_merge_siblings(): r is appended to l and freed.  An internal l takes
\* the separator down from the parent.
MergeSiblings(h, p, pos) ==
    LET l == bpn_get_left(h[p], pos)
        r == bpn_get_right(h[p], pos)
        s == SepPos(h[p], pos)
        down == IF IsInternal(h[l]) THEN <<h[p].slot[s + 1]>> ELSE <<>>
    IN Reparent([h EXCEPT
            ![l].slot = @ \o down \o h[r].slot,
            ![l].subl = @ \o h[r].subl,
            ![l].suba = @ \o h[r].suba,
            ![p].slot = ArrRemove(@, s),
            ![p].subl = ArrRemove(@, s + 1),
            ![p].suba = ArrRemove(@, s + 1),
            ![r] = FreeNode],
         Range(h[r].subl), l)

\* Mutant of LeftEntries: the odd entry goes to the left.
LeftEntriesUp == split(MAX_ENTRIES)

\* bpn_split_internal(), bpn_split_external(): the node to the left keeps the
\* lower entries, the new node to the right gets the upper ones.  The separator
\* is moved out of an internal node and copied from a leaf.
LeftEntries == MAX_ENTRIES - split(MAX_ENTRIES)

SplitLeft(n) ==
    IF IsInternal(n)
    THEN [n EXCEPT !.slot = SubSeq(@, 1, LeftEntries),
                   !.subl = SubSeq(@, 1, LeftEntries + 1),
                   !.suba = SubSeq(@, 1, LeftEntries + 1)]
    ELSE [n EXCEPT !.slot = SubSeq(@, 1, LeftEntries)]

SplitRight(n) ==
    IF IsInternal(n)
    THEN [bpn_calloc_init("inter") EXCEPT
            !.slot = SubSeq(n.slot, LeftEntries + 2, MAX_ENTRIES),
            !.subl = SubSeq(n.subl, LeftEntries + 2, MAX_CHILDREN),
            !.suba = SubSeq(n.suba, LeftEntries + 2, MAX_CHILDREN)]
    ELSE [bpn_calloc_init("exter") EXCEPT
            !.slot = SubSeq(n.slot, LeftEntries + 1, MAX_ENTRIES)]

\* Mutant of Split: the free size of the left half is not lowered.
SplitStale(h, n, p, pindex, r) ==
    LET left == SplitLeft(h[n])
        right == SplitRight(h[n])
    IN Reparent([h EXCEPT
            ![n] = [left EXCEPT !.parent = p],
            ![r] = [right EXCEPT !.parent = p],
            ![p].slot = ArrInsert(@, pindex, Key(h[n], LeftEntries)),
            ![p].subl = ArrInsert(@, pindex + 1, r),
            ![p].suba = ArrInsert(@, pindex + 1, MaxAvail(right))],
         Range(right.subl), r)

\* bpn_split(): splits the full node n; its upper half becomes the node r, the
\* child of p to the right of n at pindex + 1.
Split(h, n, p, pindex, r) ==
    LET left == SplitLeft(h[n])
        right == SplitRight(h[n])
    IN Reparent([h EXCEPT
            ![n] = [left EXCEPT !.parent = p],
            ![r] = [right EXCEPT !.parent = p],
            ![p].slot = ArrInsert(@, pindex, Key(h[n], LeftEntries)),
            ![p].subl = ArrInsert(@, pindex + 1, r),
            ![p].suba = [ArrInsert(@, pindex, MaxAvail(left))
                            EXCEPT ![pindex + 2] = MaxAvail(right)]],
         Range(right.subl), r)
=============================================================================
