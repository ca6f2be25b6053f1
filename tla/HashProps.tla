------------------------------ MODULE HashProps ------------------------------
(***************************************************************************)
(* What must hold of the hash table, and what it promises.                 *)
(***************************************************************************)
EXTENDS Hash

Used == {k \in Keys : entry[k].used}

TypeOK ==
    /\ table \in [Buckets -> Ref]
    /\ entry \in [Keys -> [used : BOOLEAN, next : Ref, prev : Ref,
                           index : Buckets]]
    /\ op \in [pc : {"idle", "add", "del", "del_entry", "lookup", "destroy",
                     "rehash", "queue", "more", "done"},
               call : {"none", "add", "del", "lookup", "destroy", "rehash"},
               key : Ref, cur : Ref, i : 0 .. hash_size, seen : SUBSET Keys,
               ret : {"none", "yes", "no"}]

\* The entries from x on, along next.
From(x) ==
    LET f[y \in Ref] == IF y = NULL THEN {} ELSE {y} \union f[entry[y].next]
    IN f[x]

\* At every step of every call: each entry in use hangs in the list of the one
\* bucket its key hashes to, between the entries its links name, and no freed
\* entry is linked.  index, by which hash_del_entry() finds the head and by which
\* hash_rehash() would move an entry, is that bucket.
Lists ==
    /\ \A b \in Buckets :
          table[b] # NULL =>
             /\ table[b] \in Used
             /\ hash_function[table[b]] = b
             /\ entry[table[b]].prev = NULL
    /\ \A k \in Used :
          LET e == entry[k]
          IN /\ e.index = hash_function[k]
             /\ e.next # NULL =>
                   e.next \in Used /\ entry[e.next].prev = k
                                   /\ entry[e.next].index = e.index
             /\ IF e.prev = NULL THEN table[e.index] = k
                                 ELSE e.prev \in Used /\ entry[e.prev].next = k

\* At every step the entries in use are those a walk from the heads meets: none is
\* cut off, and so leaked, in a ring of its own.
AllReached == Used = UNION {From(table[b]) : b \in Buckets}

\* The table does for its callers what KeySet says: a call that has walked past
\* others finds what is there, hash_destroy() ends with every entry freed, and
\* hash_rehash() leaves what the table holds as it is at every step.
Map ==
    INSTANCE KeySet WITH
        Ops <- {"insert", "remove", "lookup", "clear"},
        keys <- Used,
        call <- [op |-> CASE op.call = "add" -> "insert"
                          [] op.call = "del" -> "remove"
                          [] op.call = "destroy" -> "clear"
                          [] op.call = "rehash" -> "none"
                          [] OTHER -> op.call,
                 key |-> op.key],
        ans <- IF op.call = "rehash" THEN "none" ELSE op.ret

Implements == Map!Spec

\* Every call but hash_rehash() comes to its end.
CallsReturn == op.pc # "idle" /\ op.call # "rehash" ~> op.pc = "idle"

-----------------------------------------------------------------------------
\* The comment in hash_rehash(): "This routine ... picks up all entries, except
\* for marked as NULL": a call comes to a point where it has looked at each.
RehashSeesAll ==
    op.call = "rehash" ~> op.call = "rehash" /\ op.seen = Used
=============================================================================
