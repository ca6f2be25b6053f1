-------------------------------- MODULE Hash --------------------------------
(***************************************************************************)
(* The hash table of libhash/src/hash.c: buckets of doubly linked lists,   *)
(* one loop iteration per step, by a caller that runs one call at a time.  *)
(* An entry is named by its key, of which hash_add() admits one only.      *)
(* hash_function() is any function of the key to a bucket.                 *)
(***************************************************************************)
EXTENDS Naturals

CONSTANTS Keys,
          hash_size,
          hash_function

NULL == 0

Buckets == 0 .. hash_size - 1

ASSUME KeysAssumption == Keys \subseteq Nat \ {NULL}
ASSUME SizeAssumption == hash_size \in Nat \ {0}
ASSUME FunctionAssumption == hash_function \in [Keys -> Buckets]

VARIABLES table,    \* hash_table: the first entry of every bucket
          entry,    \* struct hash_entry
          op        \* the call in progress: its locals, and where it is

vars == <<table, entry, op>>

Ref == Keys \union {NULL}

\* used: the entry is allocated.
Unused == [used |-> FALSE, next |-> NULL, prev |-> NULL, index |-> 0]

\* i is the bucket of destroy and rehash, seen what rehash has looked at.
Idle == [pc |-> "idle", call |-> "none", key |-> NULL, cur |-> NULL, i |-> 0,
         seen |-> {}, ret |-> "none"]

\* hash_create().
Init ==
    /\ table = [b \in Buckets |-> NULL]
    /\ entry = [k \in Keys |-> Unused]
    /\ op = Idle

Done(ret) == op' = [op EXCEPT !.pc = "done", !.ret = ret]

-----------------------------------------------------------------------------
(***************************************************************************)
(* Walking a collision list: hash_add(), hash_del(), hash_lookup().        *)
(***************************************************************************)
Call(c, k) ==
    /\ op.pc = "idle"
    /\ op' = [Idle EXCEPT !.pc = c, !.call = c, !.key = k,
                          !.cur = table[hash_function[k]]]
    /\ UNCHANGED <<table, entry>>

\* hash_add() stops at the last entry, the others behind it.
Walk ==
    /\ op.pc \in {"add", "del", "lookup"}
    /\ op.cur \notin {NULL, op.key}
    /\ op.pc = "add" => entry[op.cur].next # NULL
    /\ op' = [op EXCEPT !.cur = entry[op.cur].next]
    /\ UNCHANGED <<table, entry>>

Node(prev) == [used |-> TRUE, next |-> NULL, prev |-> prev,
               index |-> hash_function[op.key]]

AddFirst ==
    /\ op.pc = "add" /\ op.cur = NULL
    /\ entry' = [entry EXCEPT ![op.key] = Node(NULL)]
    /\ table' = [table EXCEPT ![hash_function[op.key]] = op.key]
    /\ Done("yes")

\* Mutant of AddLast: the new entry does not know the one before.
AddLastNoPrev ==
    /\ op.pc = "add" /\ op.cur \notin {NULL, op.key}
    /\ entry[op.cur].next = NULL
    /\ entry' = [entry EXCEPT ![op.cur].next = op.key, ![op.key] = Node(NULL)]
    /\ Done("yes")
    /\ UNCHANGED table

AddLast ==
    /\ op.pc = "add" /\ op.cur \notin {NULL, op.key}
    /\ entry[op.cur].next = NULL
    /\ entry' = [entry EXCEPT ![op.cur].next = op.key, ![op.key] = Node(op.cur)]
    /\ Done("yes")
    /\ UNCHANGED table

\* The node allocated for the key is freed again.
AddRefuse ==
    /\ op.pc = "add" /\ op.cur = op.key
    /\ Done("no")
    /\ UNCHANGED <<table, entry>>

LookupEnd ==
    /\ op.pc = "lookup" /\ op.cur \in {NULL, op.key}
    /\ Done(IF op.cur = NULL THEN "no" ELSE "yes")
    /\ UNCHANGED <<table, entry>>

-----------------------------------------------------------------------------
(***************************************************************************)
(* hash_del_entry().                                                       *)
(***************************************************************************)
\* Mutants of hash_del_entry: the head is not shifted; the entry behind keeps
\* its link back; the entry is not freed.
hash_del_entry_NoHead(x) ==
    LET p == entry[x].prev
        n == entry[x].next
    IN /\ entry' = [k \in Keys |->
             CASE k = x -> Unused
               [] k = p -> [entry[k] EXCEPT !.next = n]
               [] k = n -> [entry[k] EXCEPT !.prev = p]
               [] OTHER -> entry[k]]
       /\ UNCHANGED table

hash_del_entry_NoBack(x) ==
    LET p == entry[x].prev
        n == entry[x].next
    IN /\ entry' = [k \in Keys |->
             CASE k = x -> Unused
               [] k = p -> [entry[k] EXCEPT !.next = n]
               [] OTHER -> entry[k]]
       /\ table' = IF p = NULL THEN [table EXCEPT ![entry[x].index] = n]
                               ELSE table

hash_del_entry_NoFree(x) ==
    LET p == entry[x].prev
        n == entry[x].next
    IN /\ entry' = [k \in Keys |->
             CASE k = p -> [entry[k] EXCEPT !.next = n]
               [] k = n -> [entry[k] EXCEPT !.prev = p]
               [] OTHER -> entry[k]]
       /\ table' = IF p = NULL THEN [table EXCEPT ![entry[x].index] = n]
                               ELSE table

hash_del_entry(x) ==
    LET p == entry[x].prev
        n == entry[x].next
    IN /\ entry' = [k \in Keys |->
             CASE k = x -> Unused
               [] k = p -> [entry[k] EXCEPT !.next = n]
               [] k = n -> [entry[k] EXCEPT !.prev = p]
               [] OTHER -> entry[k]]
       /\ table' = IF p = NULL THEN [table EXCEPT ![entry[x].index] = n]
                               ELSE table

DelFound ==
    /\ op.pc = "del" /\ op.cur = op.key
    /\ hash_del_entry(op.key)
    /\ Done("yes")

DelAbsent ==
    /\ op.pc = "del" /\ op.cur = NULL
    /\ Done("no")
    /\ UNCHANGED <<table, entry>>

\* The caller passes an entry that a lookup found.
DelEntryCall(k) ==
    /\ op.pc = "idle"
    /\ entry[k].used
    /\ op' = [Idle EXCEPT !.pc = "del_entry", !.call = "del", !.key = k]
    /\ UNCHANGED <<table, entry>>

DelEntry ==
    /\ op.pc = "del_entry"
    /\ hash_del_entry(op.key)
    /\ Done("yes")

-----------------------------------------------------------------------------
(***************************************************************************)
(* hash_destroy(): deletes the first entry of each bucket while there is   *)
(* one, by its key, which hash_del() finds at the head again.  The caller  *)
(* may then create the table anew.                                         *)
(***************************************************************************)
Start(c) ==
    /\ op.pc = "idle"
    /\ op' = [Idle EXCEPT !.pc = c, !.call = c]
    /\ UNCHANGED <<table, entry>>

DestroyFirst ==
    /\ op.pc = "destroy" /\ op.i < hash_size
    /\ table[op.i] # NULL
    /\ hash_del_entry(table[op.i])
    /\ UNCHANGED op

DestroyNext ==
    /\ op.pc = "destroy" /\ op.i < hash_size
    /\ table[op.i] = NULL
    /\ op' = [op EXCEPT !.i = @ + 1]
    /\ UNCHANGED <<table, entry>>

DestroyEnd ==
    /\ op.pc = "destroy" /\ op.i = hash_size
    /\ Done("yes")
    /\ UNCHANGED <<table, entry>>

-----------------------------------------------------------------------------
(***************************************************************************)
(* hash_rehash().  index is that of the first entry's key; it never        *)
(* differs from the index of an entry in the bucket (Lists, in HashProps), *)
(* so nothing is ever added and deleted.  The inner loop does not move     *)
(* from the first entry to the next.                                       *)
(***************************************************************************)
RehashBucket ==
    /\ op.pc = "rehash" /\ op.i < hash_size
    /\ table[op.i] # NULL
    /\ op' = [op EXCEPT !.pc = "queue", !.cur = table[op.i]]
    /\ UNCHANGED <<table, entry>>

RehashEntry ==
    /\ op.pc = "queue"
    /\ op' = [op EXCEPT !.pc = "more", !.seen = @ \union {op.cur}]
    /\ UNCHANGED <<table, entry>>

RehashMore ==
    /\ op.pc = "more"
    /\ op' = IF entry[op.cur].next # NULL
             THEN [op EXCEPT !.pc = "queue"]
             ELSE [op EXCEPT !.pc = "rehash", !.i = @ + 1]
    /\ UNCHANGED <<table, entry>>

RehashEnd ==
    /\ op.pc = "rehash"
    /\ op.i < hash_size => table[op.i] = NULL
    /\ Done("yes")
    /\ UNCHANGED <<table, entry>>

Return ==
    /\ op.pc = "done"
    /\ op' = Idle
    /\ UNCHANGED <<table, entry>>

-----------------------------------------------------------------------------
Step ==
    \/ Walk \/ AddFirst \/ AddLast \/ AddRefuse \/ LookupEnd
    \/ DelFound \/ DelAbsent \/ DelEntry
    \/ DestroyFirst \/ DestroyNext \/ DestroyEnd
    \/ RehashBucket \/ RehashEntry \/ RehashMore \/ RehashEnd
    \/ Return

Next ==
    \/ \E c \in {"add", "del", "lookup"}, k \in Keys : Call(c, k)
    \/ \E k \in Keys : DelEntryCall(k)
    \/ \E c \in {"destroy", "rehash"} : Start(c)
    \/ Step

\* A call that has started runs to its end.
Spec == Init /\ [][Next]_vars /\ WF_vars(Step)
=============================================================================
