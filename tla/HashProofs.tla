----------------------------- MODULE HashProofs -----------------------------
(***************************************************************************)
(* Proofs about the hash table, for every set of keys, number of buckets   *)
(* and hash function: its lists stay whole, none of its entries is cut     *)
(* off, and it implements a set of keys, KeySet.                           *)
(*                                                                         *)
(* Lists speaks of neighbours; that a walk which has come to the end of a  *)
(* list has met every entry of its bucket is about the whole list.  The    *)
(* inductive invariant says it with a place for every entry that grows     *)
(* along next: an ordering that exists.                                    *)
(***************************************************************************)
EXTENDS HashProps, Linked

Entry == [used : BOOLEAN, next : Ref, prev : Ref, index : Buckets]

\* TypeOK, of the call in progress.
OpOK ==
    op \in [pc : {"idle", "add", "del", "del_entry", "lookup", "destroy",
                  "rehash", "queue", "more", "done"},
            call : {"none", "add", "del", "lookup", "destroy", "rehash"},
            key : Ref, cur : Ref, i : 0 .. hash_size, seen : SUBSET Keys,
            ret : {"none", "yes", "no"}]

\* pos tells the places in the lists: no two entries of a bucket have the same,
\* the head has the least, and next leads to the next greater.
Places(pos) ==
    \A j, k \in Used : hash_function[j] = hash_function[k] =>
        /\ pos[j] = pos[k] => j = k
        /\ entry[k].next = NULL => pos[j] <= pos[k]
        /\ entry[k].next # NULL =>
              /\ pos[k] < pos[entry[k].next]
              /\ pos[k] < pos[j] => pos[entry[k].next] <= pos[j]
        /\ table[hash_function[k]] # NULL
        /\ table[hash_function[k]] = k => pos[k] <= pos[j]

Walking == op.pc \in {"add", "del", "lookup"}

\* A walk has not gone past the key it looks for.
Ahead(pos) ==
    Walking =>
        /\ op.key \in Keys
        /\ op.cur = NULL =>
              /\ op.key \notin Used
              /\ op.pc = "add" => table[hash_function[op.key]] = NULL
        /\ op.cur # NULL =>
              /\ op.cur \in Used
              /\ hash_function[op.cur] = hash_function[op.key]
              /\ op.key \in Used => pos[op.cur] <= pos[op.key]

\* What the other calls hold on to is in use.
Cursor ==
    /\ op.pc = "del_entry" => op.key \in Used
    /\ op.pc \in {"queue", "more"} => op.cur \in Used /\ op.i < hash_size

IInv ==
    /\ TypeOK
    /\ Lists
    /\ Cursor
    /\ \E pos \in [Keys -> Nat] : Places(pos) /\ Ahead(pos)

-----------------------------------------------------------------------------
\* hash_del_entry() takes one entry out and leaves the rest of its list, and all
\* others, as they were.
LEMMA DeleteKeeps ==
    ASSUME TypeOK, Lists,
           NEW pos \in [Keys -> Nat], Places(pos),
           NEW x \in Used, hash_del_entry(x)
    PROVE  /\ table' \in [Buckets -> Ref]
           /\ entry' \in [Keys -> Entry]
           /\ Used' = Used \ {x}
           /\ entry'[x] = Unused
           /\ \A k \in Keys \ Used : entry'[k] = entry[k]
           /\ Lists'
           /\ Places(pos)'
<1> DEFINE p == entry[x].prev
           n == entry[x].next
           b == hash_function[x]
<1>1. /\ \A k \in Used : k \in Keys /\ k # NULL /\ hash_function[k] \in Buckets
      /\ \A k \in Keys : k # NULL
      /\ hash_size \in Nat \ {0} /\ 0 \in Buckets /\ NULL \in Ref
      BY KeysAssumption, FunctionAssumption, SizeAssumption DEF Used, Ref, Buckets
<1>2. /\ table \in [Buckets -> Ref]
      /\ entry \in [Keys -> Entry]
      BY DEF TypeOK, Entry
<1>3. \A k \in Used :
        /\ entry[k].index = hash_function[k]
        /\ entry[k].next # NULL =>
              /\ entry[k].next \in Used
              /\ entry[entry[k].next].prev = k
              /\ hash_function[entry[k].next] = hash_function[k]
        /\ entry[k].prev # NULL =>
              /\ entry[k].prev \in Used
              /\ entry[entry[k].prev].next = k
        /\ entry[k].prev = NULL => table[hash_function[k]] = k
      BY DEF Lists
<1>4. \A k \in Used : entry[k].prev # NULL =>
        hash_function[entry[k].prev] = hash_function[k]
      BY <1>1, <1>3
<1>5. \A c \in Buckets : table[c] # NULL =>
        /\ table[c] \in Used
        /\ hash_function[table[c]] = c
        /\ entry[table[c]].prev = NULL
      BY DEF Lists
<1>6. \A k \in Used : pos[k] \in Nat
      BY <1>1
<1>7. \A k \in Used : entry[k].next # NULL => pos[k] < pos[entry[k].next]
      BY DEF Places
<1>8. /\ p # x /\ n # x
      /\ p = n => p = NULL
  <2>1. n # NULL => n \in Used /\ pos[x] < pos[n] /\ pos[n] \in Nat
        BY <1>3, <1>6, <1>7
  <2>2. p # NULL => p \in Used /\ pos[p] < pos[x] /\ pos[p] \in Nat
    <3>1. p # NULL => p \in Used /\ entry[p].next = x BY <1>3
    <3>2. x # NULL BY <1>1
    <3> QED BY <3>1, <3>2, <1>6, <1>7
  <2>3. x # NULL /\ pos[x] \in Nat BY <1>1, <1>6
  <2> QED BY <2>1, <2>2, <2>3
<1>9. /\ entry' = [k \in Keys |-> entry'[k]]
      /\ entry'[x] = Unused
      /\ p # NULL => entry'[p] = [entry[p] EXCEPT !.next = n]
      /\ n # NULL => entry'[n] = [entry[n] EXCEPT !.prev = p]
      /\ \A k \in Keys : k \notin {x, p, n} => entry'[k] = entry[k]
  <2>1. entry' = [k \in Keys |->
                    CASE k = x -> Unused
                      [] k = p -> [entry[k] EXCEPT !.next = n]
                      [] k = n -> [entry[k] EXCEPT !.prev = p]
                      [] OTHER -> entry[k]]
        BY DEF hash_del_entry
  <2>2. p # NULL => p \in Keys BY <1>1, <1>3
  <2>3. n # NULL => n \in Keys BY <1>1, <1>3
  <2> HIDE DEF p, n
  <2>4. x \in Keys BY <1>1
  <2> QED BY <2>1, <2>2, <2>3, <2>4, <1>8
<1>10. table' = IF p = NULL THEN [table EXCEPT ![b] = n] ELSE table
      BY <1>3 DEF hash_del_entry
<1>11. table' \in [Buckets -> Ref]
  <2>1. n \in Ref BY <1>1, <1>2 DEF Entry
  <2> QED BY <1>2, <1>10, <2>1
<1>12. entry' \in [Keys -> Entry]
  <2>1. p \in Ref /\ n \in Ref BY <1>1, <1>2 DEF Entry
  <2>2. entry'[x] \in Entry BY <1>1, <1>9 DEF Unused, Entry
  <2>3. p # NULL => entry'[p] \in Entry
        BY <1>1, <1>2, <1>3, <1>9, <2>1 DEF Entry
  <2>4. n # NULL => entry'[n] \in Entry
        BY <1>1, <1>2, <1>3, <1>9, <2>1 DEF Entry
  <2>5. \A k \in Keys : k # NULL /\ (k \notin {x, p, n} => entry'[k] \in Entry)
        BY <1>1, <1>2, <1>9
  <2>6. \A k \in Keys : entry'[k] \in Entry
        BY <2>2, <2>3, <2>4, <2>5
  <2> QED BY <1>9, <2>6
<1>13. \A k \in Keys : k # x =>
         /\ entry'[k].used = entry[k].used
         /\ entry'[k].index = entry[k].index
         /\ entry'[k].next = IF k = p THEN n ELSE entry[k].next
         /\ entry'[k].prev = IF k = n THEN p ELSE entry[k].prev
  <2> SUFFICES ASSUME NEW k \in Keys, k # x
               PROVE  /\ entry'[k].used = entry[k].used
                      /\ entry'[k].index = entry[k].index
                      /\ entry'[k].next = IF k = p THEN n ELSE entry[k].next
                      /\ entry'[k].prev = IF k = n THEN p ELSE entry[k].prev
      OBVIOUS
  <2>1. k # NULL /\ entry[k] \in Entry BY <1>1, <1>2
  <2>2. CASE k = p BY <2>1, <2>2, <1>8, <1>9 DEF Entry
  <2>3. CASE k = n BY <2>1, <2>3, <1>8, <1>9 DEF Entry
  <2>4. CASE k \notin {p, n} BY <2>4, <1>9
  <2> QED BY <2>2, <2>3, <2>4
<1>14. Used' = Used \ {x}
  <2>1. entry'[x].used = FALSE BY <1>9 DEF Unused
  <2>2. \A k \in Keys : entry'[k].used <=> k # x /\ entry[k].used
        BY <2>1, <1>13
  <2> QED BY <2>2 DEF Used
<1>15. \A k \in Used' :
         /\ k \in Used /\ k # x /\ k # NULL /\ k \in Keys
         /\ entry'[k].index = hash_function[k]
         /\ entry'[k].next = IF k = p THEN n ELSE entry[k].next
         /\ entry'[k].prev = IF k = n THEN p ELSE entry[k].prev
      BY <1>1, <1>3, <1>13, <1>14
<1>16. /\ p # NULL => /\ p \in Used' /\ entry[p].next = x
                       /\ hash_function[p] = b
       /\ n # NULL => /\ n \in Used' /\ entry[n].prev = x
                       /\ hash_function[n] = b
       /\ x # NULL /\ b \in Buckets
      BY <1>1, <1>3, <1>4, <1>8, <1>14
<1>17. \A c \in Buckets :
         table'[c] = IF p = NULL /\ c = b THEN n ELSE table[c]
      BY <1>2, <1>10
<1> HIDE DEF p, n, b
<1>18. Lists'
  <2>1. ASSUME NEW c \in Buckets, table'[c] # NULL
        PROVE  /\ table'[c] \in Used' /\ hash_function[table'[c]] = c
               /\ entry'[table'[c]].prev = NULL
    <3>1. CASE p = NULL /\ c = b
      <4>1. table'[c] = n /\ n # NULL BY <3>1, <2>1, <1>17
      <4> QED BY <4>1, <3>1, <1>15, <1>16
    <3>2. CASE ~(p = NULL /\ c = b)
      <4>1. table'[c] = table[c] BY <3>2, <1>17
      <4>2. /\ table[c] \in Used /\ hash_function[table[c]] = c
            /\ entry[table[c]].prev = NULL
            BY <4>1, <2>1, <1>5
      <4>3. table[c] # x BY <4>2, <3>2 DEF p, b
      <4>4. table[c] # n BY <4>1, <4>2, <2>1, <1>16
      <4> QED BY <4>1, <4>2, <4>3, <4>4, <1>14, <1>15
    <3> QED BY <3>1, <3>2
  <2>2. ASSUME NEW k \in Used', entry'[k].next # NULL
        PROVE  /\ entry'[k].next \in Used'
               /\ entry'[entry'[k].next].prev = k
               /\ entry'[entry'[k].next].index = entry'[k].index
    <3>1. CASE k = p
      <4>1. entry'[k].next = n /\ n # NULL BY <3>1, <2>2, <1>15
      <4>2. /\ n \in Used' /\ entry'[n].prev = p
            /\ hash_function[n] = b /\ hash_function[p] = b
            BY <4>1, <3>1, <1>15, <1>16
      <4> QED BY <4>1, <4>2, <3>1, <1>15
    <3>2. CASE k # p
      <4>1. entry'[k].next = entry[k].next /\ entry[k].next # NULL
            BY <3>2, <2>2, <1>15
      <4>2. /\ entry[k].next \in Used /\ entry[entry[k].next].prev = k
            /\ hash_function[entry[k].next] = hash_function[k]
            BY <4>1, <1>3, <1>15
      <4>3. entry[k].next # x BY <4>2, <3>2 DEF p
      <4>4. entry[k].next # n BY <4>1, <4>2, <1>15, <1>16
      <4> QED BY <4>1, <4>2, <4>3, <4>4, <1>14, <1>15
    <3> QED BY <3>1, <3>2
  <2>3. ASSUME NEW k \in Used', entry'[k].prev = NULL
        PROVE  table'[entry'[k].index] = k
    <3>1. CASE k = n
      <4>1. p = NULL /\ hash_function[n] = b BY <3>1, <2>3, <1>15, <1>16
      <4> QED BY <4>1, <3>1, <1>15, <1>16, <1>17
    <3>2. CASE k # n
      <4>1. entry[k].prev = NULL BY <3>2, <2>3, <1>15
      <4>2. table[hash_function[k]] = k BY <4>1, <1>3, <1>15
      <4>3. p = NULL => table[b] = x BY <1>3 DEF p, b
      <4>4. ~(p = NULL /\ hash_function[k] = b) BY <4>2, <4>3, <1>15
      <4>5. hash_function[k] \in Buckets BY <1>1, <1>15
      <4> QED BY <4>2, <4>4, <4>5, <1>15, <1>17
    <3> QED BY <3>1, <3>2
  <2>4. ASSUME NEW k \in Used', entry'[k].prev # NULL
        PROVE  entry'[k].prev \in Used' /\ entry'[entry'[k].prev].next = k
    <3>1. CASE k = n
      <4>1. entry'[k].prev = p /\ p # NULL BY <3>1, <2>4, <1>15
      <4> QED BY <4>1, <3>1, <1>15, <1>16
    <3>2. CASE k # n
      <4>1. entry'[k].prev = entry[k].prev /\ entry[k].prev # NULL
            BY <3>2, <2>4, <1>15
      <4>2. entry[k].prev \in Used /\ entry[entry[k].prev].next = k
            BY <4>1, <1>3, <1>15
      <4>3. entry[k].prev # x BY <4>2, <3>2 DEF n
      <4>4. entry[k].prev # p BY <4>1, <4>2, <1>15, <1>16
      <4> QED BY <4>1, <4>2, <4>3, <4>4, <1>14, <1>15
    <3> QED BY <3>1, <3>2
  <2>5. \A k \in Used' : entry'[k].index = hash_function[k] BY <1>15
  <2> QED BY <2>1, <2>2, <2>3, <2>4, <2>5 DEF Lists
<1>19. Places(pos)'
  <2> SUFFICES ASSUME NEW j \in Used', NEW k \in Used',
                      hash_function[j] = hash_function[k]
               PROVE  /\ pos[j] = pos[k] => j = k
                      /\ entry'[k].next = NULL => pos[j] <= pos[k]
                      /\ entry'[k].next # NULL =>
                            /\ pos[k] < pos[entry'[k].next]
                            /\ pos[k] < pos[j] => pos[entry'[k].next] <= pos[j]
                      /\ table'[hash_function[k]] # NULL
                      /\ table'[hash_function[k]] = k => pos[k] <= pos[j]
      BY DEF Places
  <2>1. /\ j \in Used /\ k \in Used /\ j # x /\ k # x
        /\ pos[j] \in Nat /\ pos[k] \in Nat /\ pos[x] \in Nat
        BY <1>6, <1>15
  <2>2. /\ pos[j] = pos[k] => j = k
        /\ entry[k].next = NULL => pos[j] <= pos[k]
        /\ entry[k].next # NULL =>
              /\ pos[k] < pos[entry[k].next]
              /\ pos[k] < pos[j] => pos[entry[k].next] <= pos[j]
        /\ table[hash_function[k]] # NULL
        /\ table[hash_function[k]] = k => pos[k] <= pos[j]
        BY <2>1 DEF Places
  <2>3. hash_function[j] = b =>
        /\ pos[j] # pos[x]
        /\ n = NULL => pos[j] < pos[x]
        /\ n # NULL => pos[x] < pos[n] /\ (pos[x] < pos[j] => pos[n] <= pos[j])
        /\ table[b] = x => pos[x] < pos[j]
    <3>1. hash_function[j] = b =>
          /\ pos[j] # pos[x]
          /\ n = NULL => pos[j] <= pos[x]
          /\ n # NULL => pos[x] < pos[n] /\ (pos[x] < pos[j] => pos[n] <= pos[j])
          /\ table[b] = x => pos[x] <= pos[j]
          BY <2>1 DEF Places, n, b
    <3> QED BY <3>1, <2>1
  <2>4. n # NULL => pos[n] \in Nat BY <1>6, <1>14, <1>16
  <2>5. /\ entry'[k].next = NULL => pos[j] <= pos[k]
        /\ entry'[k].next # NULL =>
              /\ pos[k] < pos[entry'[k].next]
              /\ pos[k] < pos[j] => pos[entry'[k].next] <= pos[j]
    <3>1. CASE k = p
      <4>1. entry'[k].next = n /\ entry[k].next = x /\ hash_function[k] = b
            BY <3>1, <1>15, <1>16
      <4>2. x # NULL BY <1>16
      <4>3. pos[k] < pos[x] /\ (pos[k] < pos[j] => pos[x] <= pos[j])
            BY <4>1, <4>2, <2>2
      <4> QED BY <4>1, <4>3, <2>1, <2>3, <2>4
    <3>2. CASE k # p
      <4>1. entry'[k].next = entry[k].next BY <3>2, <1>15
      <4> QED BY <4>1, <2>2
    <3> QED BY <3>1, <3>2
  <2>6. hash_function[k] \in Buckets BY <2>1, <1>1
  <2>7. CASE p = NULL /\ hash_function[k] = b
    <3>1. table'[hash_function[k]] = n BY <2>7, <2>6, <1>17
    <3>2. table[b] = x BY <2>7, <1>3 DEF p, b
    <3>3. n # NULL /\ pos[n] <= pos[j] BY <3>2, <2>7, <2>1, <2>3, <2>4
    <3> QED BY <2>2, <2>5, <3>1, <3>3
  <2>8. CASE ~(p = NULL /\ hash_function[k] = b)
    <3>1. table'[hash_function[k]] = table[hash_function[k]]
          BY <2>8, <2>6, <1>17
    <3> QED BY <2>2, <2>5, <3>1
  <2> QED BY <2>7, <2>8
<1>20. \A k \in Keys \ Used : entry'[k] = entry[k]
      BY <1>1, <1>9, <1>16, <1>14
<1> QED BY <1>9, <1>11, <1>12, <1>14, <1>18, <1>19, <1>20

-----------------------------------------------------------------------------
\* What the constants and the types say, in the form the steps below use.
LEMMA Facts ==
    ASSUME IInv
    PROVE  /\ \A k \in Keys : k # NULL /\ k \in Ref /\ hash_function[k] \in Buckets
           /\ Used \subseteq Keys
           /\ hash_size \in Nat /\ 0 \in 0 .. hash_size
           /\ 0 \in Buckets /\ NULL \in Ref
           /\ table \in [Buckets -> Ref] /\ entry \in [Keys -> Entry] /\ OpOK
  BY KeysAssumption, SizeAssumption, FunctionAssumption
     DEF IInv, TypeOK, OpOK, Entry, Used, Ref, Buckets

\* A step that leaves the table alone and does not leave a walk going on.
LEMMA QuietStep ==
    ASSUME IInv, UNCHANGED <<table, entry>>, OpOK', Cursor', ~Walking'
    PROVE  IInv'
  <1>1. TypeOK' BY DEF IInv, TypeOK, OpOK, Ref
  <1>2. Lists' BY DEF IInv, Lists, Used
  <1>3. \A pos : Places(pos) => Places(pos)' BY DEF Places, Used
  <1>4. \A pos : Ahead(pos)' BY DEF Ahead
  <1> QED BY <1>1, <1>2, <1>3, <1>4 DEF IInv

\* A step after which a walk goes on, the table left alone.
LEMMA WalkingStep ==
    ASSUME IInv, UNCHANGED <<table, entry>>, OpOK', Walking',
           NEW pos \in [Keys -> Nat], Places(pos), Ahead(pos)'
    PROVE  IInv'
  <1>1. TypeOK' BY DEF IInv, TypeOK, OpOK, Ref
  <1>2. Lists' BY DEF IInv, Lists, Used
  <1>3. Places(pos)' BY DEF Places, Used
  <1>4. Cursor' BY DEF Cursor, Walking
  <1> QED BY <1>1, <1>2, <1>3, <1>4 DEF IInv

\* The empty table.
LEMMA IInvInit == Init => IInv
  <1> SUFFICES ASSUME Init PROVE IInv
      OBVIOUS
  <1> USE KeysAssumption, SizeAssumption, FunctionAssumption
  <1>1. Used = {} BY DEF Init, Used, Unused
  <1>2. TypeOK BY DEF Init, TypeOK, Unused, Idle, Ref, Buckets
  <1>3. Lists BY <1>1 DEF Init, Lists
  <1>4. Cursor BY DEF Init, Idle, Cursor
  <1>5. [k \in Keys |-> 0] \in [Keys -> Nat] OBVIOUS
  <1>6. Places([k \in Keys |-> 0]) BY <1>1 DEF Places
  <1>7. Ahead([k \in Keys |-> 0]) BY DEF Init, Idle, Ahead, Walking
  <1> QED BY <1>2, <1>3, <1>4, <1>5, <1>6, <1>7 DEF IInv

\* Add, del and lookup start their walk at the head of the key's bucket.
LEMMA CallStep ==
    ASSUME IInv, NEW c \in {"add", "del", "lookup"}, NEW k \in Keys, Call(c, k)
    PROVE  IInv'
<1>1. PICK pos \in [Keys -> Nat] : Places(pos) BY DEF IInv
<1> DEFINE cur == table[hash_function[k]]
<1>2. op' = [Idle EXCEPT !.pc = c, !.call = c, !.key = k, !.cur = cur]
      BY DEF Call
<1>3. UNCHANGED <<table, entry>> BY DEF Call
<1>4. cur \in Ref /\ hash_function[k] \in Buckets BY Facts
<1>5. OpOK' BY <1>2, <1>4, Facts DEF OpOK, Idle
<1>6. op'.pc = c /\ op'.key = k /\ op'.cur = cur BY <1>2 DEF Idle
<1>7. cur = NULL => k \notin Used BY <1>1 DEF Places
<1>8. cur # NULL =>
        /\ cur \in Used
        /\ hash_function[cur] = hash_function[k]
        /\ k \in Used => pos[cur] <= pos[k]
      BY <1>1, <1>4 DEF IInv, Lists, Places
<1>9. Used' = Used BY <1>3 DEF Used
<1> HIDE DEF cur
<1>10. Ahead(pos)' BY <1>3, <1>6, <1>7, <1>8, <1>9 DEF Ahead, cur
<1>11. Walking' BY <1>6 DEF Walking
<1> QED BY <1>1, <1>3, <1>5, <1>10, <1>11, WalkingStep

\* get_entry() goes from an entry that is not the key's to the next of its list.
LEMMA WalkStep == IInv /\ Walk => IInv'
<1> SUFFICES ASSUME IInv, Walk PROVE IInv'
    OBVIOUS
<1>1. PICK pos \in [Keys -> Nat] : Places(pos) /\ Ahead(pos) BY DEF IInv
<1> DEFINE x == op.cur
           n == entry[op.cur].next
<1>2. /\ Walking /\ x # NULL /\ x # op.key
      /\ op.pc = "add" => n # NULL
      /\ op' = [op EXCEPT !.cur = n]
      /\ UNCHANGED <<table, entry>>
      BY DEF Walk, Walking
<1>3. /\ op.key \in Keys /\ x \in Used /\ x \in Keys
      /\ hash_function[x] = hash_function[op.key]
      /\ op.key \in Used => pos[x] <= pos[op.key]
      BY <1>1, <1>2, Facts DEF Ahead
<1>4. n \in Ref BY <1>3, Facts DEF Entry
<1>5. OpOK' BY <1>2, <1>4, Facts DEF OpOK
<1>6. op'.pc = op.pc /\ op'.key = op.key /\ op'.cur = n
      BY <1>2, Facts DEF OpOK
<1>7. op.key \in Used => pos[x] < pos[op.key]
  <2>1. op.key \in Used => pos[x] # pos[op.key]
        BY <1>1, <1>2, <1>3 DEF Places
  <2>2. pos[x] \in Nat /\ pos[op.key] \in Nat BY <1>3
  <2> QED BY <2>1, <2>2, <1>3
<1>8. op.key \in Used =>
        n # NULL /\ pos[n] <= pos[op.key]
  <2> SUFFICES ASSUME op.key \in Used PROVE n # NULL /\ pos[n] <= pos[op.key]
      OBVIOUS
  <2>1. n = NULL => pos[op.key] <= pos[x] BY <1>1, <1>3 DEF Places
  <2>2. n # NULL => pos[n] <= pos[op.key] BY <1>1, <1>3, <1>7 DEF Places
  <2>3. pos[x] \in Nat /\ pos[op.key] \in Nat BY <1>3
  <2> QED BY <2>1, <2>2, <2>3, <1>7
<1>9. n # NULL => n \in Used /\ hash_function[n] = hash_function[x]
  <2>1. n # NULL => n \in Used /\ entry[n].index = entry[x].index
        BY <1>3 DEF IInv, Lists
  <2>2. \A k \in Used : entry[k].index = hash_function[k] BY DEF IInv, Lists
  <2> QED BY <2>1, <2>2, <1>3
<1>10. Used' = Used BY <1>2 DEF Used
<1> HIDE DEF x, n
<1>11. Ahead(pos)' BY <1>2, <1>3, <1>6, <1>8, <1>9, <1>10 DEF Ahead
<1>12. Walking' BY <1>2, <1>6 DEF Walking
<1> QED BY <1>1, <1>2, <1>5, <1>11, <1>12, WalkingStep

-----------------------------------------------------------------------------
\* hash_add_entry() into an empty bucket: the new entry is the head, alone.
LEMMA AddFirstStep == IInv /\ AddFirst => IInv'
<1> SUFFICES ASSUME IInv, AddFirst PROVE IInv'
    OBVIOUS
<1>1. PICK pos \in [Keys -> Nat] : Places(pos) /\ Ahead(pos) BY DEF IInv
<1> DEFINE y == op.key
           b == hash_function[y]
<1>2. /\ op.pc = "add" /\ op.cur = NULL
      /\ entry' = [entry EXCEPT ![y] = Node(NULL)]
      /\ table' = [table EXCEPT ![b] = y]
      /\ op' = [op EXCEPT !.pc = "done", !.ret = "yes"]
      BY DEF AddFirst, Done
<1>3. y \in Keys /\ y # NULL /\ b \in Buckets /\ y \notin Used /\ table[b] = NULL
      BY <1>1, <1>2, Facts DEF Ahead, Walking
<1>4. Node(NULL) = [used |-> TRUE, next |-> NULL, prev |-> NULL, index |-> b]
      BY DEF Node
<1>5. /\ entry'[y] = Node(NULL)
      /\ \A k \in Used : k # y /\ entry'[k] = entry[k]
      /\ table'[b] = y
      /\ \A c \in Buckets : c # b => table'[c] = table[c]
      BY <1>2, <1>3, Facts
<1>6. Used' = Used \union {y}
      BY <1>2, <1>3, <1>4, Facts DEF Used
<1>7. TypeOK'
  <2>1. Node(NULL) \in Entry BY <1>3, <1>4, Facts DEF Entry
  <2>2. table' \in [Buckets -> Ref] BY <1>2, <1>3, Facts
  <2>3. entry' \in [Keys -> Entry] BY <1>2, <2>1, Facts
  <2>4. OpOK' BY <1>2, Facts DEF OpOK
  <2> QED BY <2>2, <2>3, <2>4 DEF TypeOK, OpOK, Entry, Ref
<1>8. \A k \in Used : hash_function[k] # b
      BY <1>1, <1>3 DEF Places
<1> HIDE DEF y, b
<1>9. Lists'
  <2>1. ASSUME NEW c \in Buckets, table'[c] # NULL
        PROVE  /\ table'[c] \in Used' /\ hash_function[table'[c]] = c
               /\ entry'[table'[c]].prev = NULL
    <3>1. CASE c = b BY <3>1, <1>4, <1>5, <1>6 DEF b
    <3>2. CASE c # b
      <4>1. table'[c] = table[c] BY <3>2, <1>5
      <4>2. /\ table[c] \in Used /\ hash_function[table[c]] = c
            /\ entry[table[c]].prev = NULL
            BY <4>1, <2>1 DEF IInv, Lists
      <4> QED BY <4>1, <4>2, <1>5, <1>6
    <3> QED BY <3>1, <3>2
  <2>2. ASSUME NEW k \in Used'
        PROVE  LET e == entry'[k]
               IN /\ e.index = hash_function[k]
                  /\ e.next # NULL =>
                       e.next \in Used' /\ entry'[e.next].prev = k
                                        /\ entry'[e.next].index = e.index
                  /\ IF e.prev = NULL THEN table'[e.index] = k
                     ELSE e.prev \in Used' /\ entry'[e.prev].next = k
    <3>1. CASE k = y BY <3>1, <1>4, <1>5 DEF b
    <3>2. CASE k # y
      <4>1. k \in Used /\ entry'[k] = entry[k] BY <3>2, <2>2, <1>5, <1>6
      <4>2. /\ entry[k].index = hash_function[k]
            /\ entry[k].next # NULL =>
                 /\ entry[k].next \in Used /\ entry[entry[k].next].prev = k
                 /\ entry[entry[k].next].index = entry[k].index
            /\ IF entry[k].prev = NULL THEN table[entry[k].index] = k
               ELSE entry[k].prev \in Used /\ entry[entry[k].prev].next = k
            BY <4>1 DEF IInv, Lists
      <4>3. hash_function[k] # b /\ hash_function[k] \in Buckets
            BY <4>1, <1>8, Facts
      <4>4. table'[hash_function[k]] = table[hash_function[k]] BY <4>3, <1>5
      <4> QED BY <4>1, <4>2, <4>4, <1>5, <1>6
    <3> QED BY <3>1, <3>2
  <2> QED BY <2>1, <2>2 DEF Lists
<1>10. PICK new \in [Keys -> Nat] :
          new[y] = 0 /\ \A k \in Used : new[k] = pos[k]
  <2> DEFINE new == [pos EXCEPT ![y] = 0]
  <2>1. \A k \in Used : k \in Keys /\ k # y BY <1>5, Facts
  <2>2. new \in [Keys -> Nat] /\ new[y] = 0 BY <1>3
  <2>3. \A k \in Used : new[k] = pos[k] BY <2>1
  <2> QED BY <2>2, <2>3
<1>11. Places(new)'
  <2> SUFFICES ASSUME NEW j \in Used', NEW k \in Used',
                      hash_function[j] = hash_function[k]
               PROVE  /\ new[j] = new[k] => j = k
                      /\ entry'[k].next = NULL => new[j] <= new[k]
                      /\ entry'[k].next # NULL =>
                            /\ new[k] < new[entry'[k].next]
                            /\ new[k] < new[j] => new[entry'[k].next] <= new[j]
                      /\ table'[hash_function[k]] # NULL
                      /\ table'[hash_function[k]] = k => new[k] <= new[j]
      BY DEF Places
  <2>1. CASE k = y
    <3>1. j = y BY <2>1, <1>6, <1>8 DEF b
    <3> QED BY <2>1, <3>1, <1>3, <1>4, <1>5, <1>10 DEF b
  <2>2. CASE k # y
    <3>1. k \in Used /\ j \in Used BY <2>2, <1>6, <1>8 DEF b
    <3>2. /\ pos[j] = pos[k] => j = k
          /\ entry[k].next = NULL => pos[j] <= pos[k]
          /\ entry[k].next # NULL =>
                /\ pos[k] < pos[entry[k].next]
                /\ pos[k] < pos[j] => pos[entry[k].next] <= pos[j]
          /\ table[hash_function[k]] # NULL
          /\ table[hash_function[k]] = k => pos[k] <= pos[j]
          BY <3>1, <1>1 DEF Places
    <3>3. entry[k].next # NULL => entry[k].next \in Used
          BY <3>1 DEF IInv, Lists
    <3>4. table'[hash_function[k]] = table[hash_function[k]]
          BY <3>1, <1>5, <1>8, Facts
    <3> QED BY <3>1, <3>2, <3>3, <3>4, <1>5, <1>10
  <2> QED BY <2>1, <2>2
<1>12. Cursor' /\ Ahead(new)'
      BY <1>2, Facts DEF Cursor, Ahead, Walking, OpOK
<1> QED BY <1>7, <1>9, <1>10, <1>11, <1>12 DEF IInv

\* hash_add_entry() behind the last entry: the new one has the greatest place.
LEMMA AddLastStep == IInv /\ AddLast => IInv'
<1> SUFFICES ASSUME IInv, AddLast PROVE IInv'
    OBVIOUS
<1>1. PICK pos \in [Keys -> Nat] : Places(pos) /\ Ahead(pos) BY DEF IInv
<1> DEFINE y == op.key
           x == op.cur
           b == hash_function[y]
<1>2. /\ op.pc = "add" /\ x # NULL /\ x # y /\ entry[x].next = NULL
      /\ entry' = [entry EXCEPT ![x].next = y, ![y] = Node(x)]
      /\ table' = table
      /\ op' = [op EXCEPT !.pc = "done", !.ret = "yes"]
      BY DEF AddLast, Done
<1>3. /\ y \in Keys /\ y # NULL /\ b \in Buckets
      /\ x \in Used /\ x \in Keys /\ hash_function[x] = b
      /\ y \in Used => pos[x] <= pos[y]
      BY <1>1, <1>2, Facts DEF Ahead, Walking
<1>4. \A k \in Used : hash_function[k] = b => pos[k] <= pos[x]
      BY <1>1, <1>2, <1>3 DEF Places
<1>5. y \notin Used
  <2>1. y \in Used => pos[x] # pos[y] BY <1>1, <1>2, <1>3 DEF Places
  <2>2. pos[x] \in Nat /\ pos[y] \in Nat BY <1>3
  <2> QED BY <2>1, <2>2, <1>3, <1>4
<1>6. Node(x) = [used |-> TRUE, next |-> NULL, prev |-> x, index |-> b]
      BY DEF Node
<1>7. /\ entry'[y] = Node(x)
      /\ entry'[x] = [entry[x] EXCEPT !.next = y]
      /\ \A k \in Keys \ {x, y} : entry'[k] = entry[k]
      BY <1>2, <1>3, Facts
<1>8. /\ entry'[x].used = entry[x].used /\ entry'[x].next = y
      /\ entry'[x].prev = entry[x].prev /\ entry'[x].index = entry[x].index
      BY <1>3, <1>7, Facts DEF Entry
<1>9. Used' = Used \union {y}
  <2>1. entry'[y].used = TRUE BY <1>6, <1>7
  <2>2. \A k \in Keys \ {y} : entry'[k].used = entry[k].used BY <1>7, <1>8
  <2> QED BY <2>1, <2>2, <1>3 DEF Used
<1>10. TypeOK'
  <2>1. Node(x) \in Entry BY <1>3, <1>6, Facts DEF Entry
  <2>2. [entry[x] EXCEPT !.next = y] \in Entry BY <1>3, Facts DEF Entry
  <2>3. entry' \in [Keys -> Entry] BY <1>2, <1>3, <2>1, <2>2, Facts
  <2>4. OpOK' BY <1>2, Facts DEF OpOK
  <2> QED BY <2>3, <2>4, <1>2, Facts DEF TypeOK, OpOK, Entry, Ref
<1> HIDE DEF y, x, b
<1>11. \A k \in Used :
         /\ k \in Keys /\ k # y
         /\ k # x => entry'[k] = entry[k]
      BY <1>5, <1>7, Facts
<1>12. Lists'
  <2>1. ASSUME NEW c \in Buckets, table'[c] # NULL
        PROVE  /\ table'[c] \in Used' /\ hash_function[table'[c]] = c
               /\ entry'[table'[c]].prev = NULL
    <3>1. /\ table[c] \in Used /\ hash_function[table[c]] = c
          /\ entry[table[c]].prev = NULL
          BY <1>2, <2>1 DEF IInv, Lists
    <3> QED BY <3>1, <1>2, <1>8, <1>9, <1>11
  <2>2. ASSUME NEW k \in Used'
        PROVE  LET e == entry'[k]
               IN /\ e.index = hash_function[k]
                  /\ e.next # NULL =>
                       e.next \in Used' /\ entry'[e.next].prev = k
                                        /\ entry'[e.next].index = e.index
                  /\ IF e.prev = NULL THEN table'[e.index] = k
                     ELSE e.prev \in Used' /\ entry'[e.prev].next = k
    <3>1. CASE k = y
      <4>1. /\ entry'[k].index = hash_function[k] /\ entry'[k].next = NULL
            /\ entry'[k].prev = x /\ x # NULL
            BY <3>1, <1>2, <1>6, <1>7 DEF b
      <4>2. x \in Used' /\ entry'[x].next = k BY <3>1, <1>3, <1>8, <1>9
      <4> QED BY <4>1, <4>2
    <3>2. ASSUME k # y
          PROVE  /\ k \in Used
                 /\ entry[k].index = hash_function[k]
                 /\ entry[k].next # NULL =>
                      /\ entry[k].next \in Used
                      /\ entry[entry[k].next].prev = k
                      /\ entry[entry[k].next].index = entry[k].index
                 /\ IF entry[k].prev = NULL THEN table[entry[k].index] = k
                    ELSE entry[k].prev \in Used /\ entry[entry[k].prev].next = k
          BY <3>2, <2>2, <1>9 DEF IInv, Lists
    <3>3. CASE k = x
      <4>1. k # y BY <3>3, <1>5, <1>3
      <4>2. entry[k].prev # NULL => entry[k].prev # x
            BY <4>1, <3>2, <3>3, <1>2
      <4>3. entry'[y].prev = x /\ entry'[y].index = b BY <1>6, <1>7
      <4>4. entry'[k].index = b BY <3>2, <3>3, <4>1, <1>3, <1>8
      <4>5. IF entry'[k].prev = NULL THEN table'[entry'[k].index] = k
            ELSE entry'[k].prev \in Used' /\ entry'[entry'[k].prev].next = k
        <5>1. /\ entry'[k].prev = entry[k].prev
              /\ entry'[k].index = entry[k].index
              BY <3>3, <1>8
        <5>2. CASE entry[k].prev = NULL BY <5>1, <5>2, <4>1, <3>2, <1>2
        <5>3. CASE entry[k].prev # NULL
          <6>1. /\ entry[k].prev \in Used /\ entry[k].prev # x
                /\ entry[entry[k].prev].next = k
                BY <5>3, <4>1, <4>2, <3>2
          <6>2. entry'[entry[k].prev].next = k BY <6>1, <1>11
          <6> QED BY <5>1, <5>3, <6>1, <6>2, <1>9
        <5> QED BY <5>2, <5>3
      <4> QED BY <4>3, <4>4, <4>5, <3>3, <1>3, <1>8, <1>9
    <3>4. CASE k # y /\ k # x
      <4>1. entry'[k] = entry[k] BY <3>2, <3>4, <1>11
      <4>2. entry[k].next # NULL =>
              /\ entry[k].next \in Used'
              /\ entry'[entry[k].next].prev = k
              /\ entry'[entry[k].next].index = entry[k].index
            BY <3>2, <3>4, <1>8, <1>9, <1>11
      <4>3. k # NULL BY <3>2, <3>4, <1>11, Facts
      <4>4. entry[k].prev # NULL =>
              /\ entry[k].prev \in Used' /\ entry[k].prev # x
              /\ entry'[entry[k].prev].next = k
        <5> SUFFICES ASSUME entry[k].prev # NULL
                     PROVE  /\ entry[k].prev \in Used' /\ entry[k].prev # x
                            /\ entry'[entry[k].prev].next = k
            OBVIOUS
        <5>1. entry[k].prev \in Used /\ entry[entry[k].prev].next = k
              BY <3>2, <3>4
        <5>2. entry[k].prev # x BY <5>1, <4>3, <1>2
        <5> QED BY <5>1, <5>2, <1>9, <1>11
      <4>5. entry[k].prev = NULL => table'[entry[k].index] = k
            BY <3>2, <3>4, <1>2
      <4>6. entry[k].index = hash_function[k] BY <3>2, <3>4
      <4> QED BY <4>1, <4>2, <4>4, <4>5, <4>6
    <3> QED BY <3>1, <3>3, <3>4
  <2> QED BY <2>1, <2>2 DEF Lists
<1>13. PICK new \in [Keys -> Nat] :
          new[y] = pos[x] + 1 /\ \A k \in Used : new[k] = pos[k]
  <2> DEFINE new == [pos EXCEPT ![y] = pos[x] + 1]
  <2>1. pos[x] + 1 \in Nat BY <1>3
  <2>2. new \in [Keys -> Nat] /\ new[y] = pos[x] + 1 BY <2>1, <1>3
  <2>3. \A k \in Used : new[k] = pos[k] BY <1>11
  <2> QED BY <2>2, <2>3
<1>14. Places(new)'
  <2> SUFFICES ASSUME NEW j \in Used', NEW k \in Used',
                      hash_function[j] = hash_function[k]
               PROVE  /\ new[j] = new[k] => j = k
                      /\ entry'[k].next = NULL => new[j] <= new[k]
                      /\ entry'[k].next # NULL =>
                            /\ new[k] < new[entry'[k].next]
                            /\ new[k] < new[j] => new[entry'[k].next] <= new[j]
                      /\ table'[hash_function[k]] # NULL
                      /\ table'[hash_function[k]] = k => new[k] <= new[j]
      BY DEF Places
  <2>1. /\ new[y] = pos[x] + 1 /\ new[x] = pos[x] /\ pos[x] \in Nat
        /\ \A i \in Used :
              /\ new[i] = pos[i] /\ pos[i] \in Nat
              /\ hash_function[i] = b => new[i] <= new[x]
        BY <1>3, <1>4, <1>13, Facts
  <2>2. table[b] # NULL /\ table[b] # y
    <3>1. table[b] # NULL BY <1>1, <1>3 DEF Places
    <3>2. table[b] \in Used BY <3>1, <1>3 DEF IInv, Lists
    <3> QED BY <3>1, <3>2, <1>5
  <2>3. j # y => j \in Used BY <1>9
  <2>4. CASE k = y
    <3>1. entry'[k].next = NULL BY <2>4, <1>6, <1>7
    <3>2. hash_function[j] = b BY <2>4 DEF b
    <3>3. new[j] <= new[k] /\ (j # y => new[j] < new[k])
      <4>1. CASE j = y BY <4>1, <2>1, <2>4
      <4>2. CASE j # y BY <4>2, <2>1, <2>3, <2>4, <3>2
      <4> QED BY <4>1, <4>2
    <3>4. j # y => new[j] \in Nat BY <2>1, <2>3
    <3>5. new[j] = new[k] => j = k BY <3>3, <3>4, <2>1, <2>4
    <3>6. table'[hash_function[k]] # NULL /\ table'[hash_function[k]] # k
          BY <2>2, <2>4, <1>2 DEF b
    <3> QED BY <3>1, <3>3, <3>5, <3>6
  <2>5. CASE k # y /\ j = y
    <3>1. k \in Used /\ hash_function[k] = b BY <2>5, <1>9 DEF b
    <3>2. new[k] = pos[k] /\ pos[k] \in Nat /\ new[k] < new[y]
          BY <3>1, <2>1
    <3>3. CASE k = x
          BY <3>1, <3>2, <3>3, <2>1, <2>2, <2>5, <1>2, <1>3, <1>8
    <3>4. CASE k # x
      <4>1. entry'[k] = entry[k] BY <3>1, <3>4, <1>11
      <4>2. entry[k].next # NULL
        <5>1. pos[k] # pos[x] BY <3>1, <3>4, <1>1, <1>3 DEF Places
        <5>2. entry[k].next = NULL => pos[x] <= pos[k]
              BY <3>1, <1>1, <1>3 DEF Places
        <5> QED BY <5>1, <5>2, <3>1, <2>1
      <4>3. entry[k].next \in Used /\ hash_function[entry[k].next] = b
        <5>1. /\ entry[k].next \in Used
              /\ entry[entry[k].next].index = entry[k].index
              BY <4>2, <3>1 DEF IInv, Lists
        <5>2. \A i \in Used : entry[i].index = hash_function[i]
              BY DEF IInv, Lists
        <5> QED BY <5>1, <5>2, <3>1
      <4>4. pos[k] < pos[entry[k].next] BY <4>2, <3>1, <1>1 DEF Places
      <4> QED BY <4>1, <4>2, <4>3, <4>4, <3>1, <3>2, <2>1, <2>2, <2>5, <1>2
    <3> QED BY <3>3, <3>4
  <2>6. CASE k # y /\ j # y
    <3>1. k \in Used /\ j \in Used BY <2>6, <1>9
    <3>2. /\ pos[j] = pos[k] => j = k
          /\ entry[k].next = NULL => pos[j] <= pos[k]
          /\ entry[k].next # NULL =>
                /\ pos[k] < pos[entry[k].next]
                /\ pos[k] < pos[j] => pos[entry[k].next] <= pos[j]
          /\ table[hash_function[k]] # NULL
          /\ table[hash_function[k]] = k => pos[k] <= pos[j]
          BY <3>1, <1>1 DEF Places
    <3>3. entry[k].next # NULL => entry[k].next \in Used
          BY <3>1 DEF IInv, Lists
    <3>4. CASE k = x
      <4>1. new[j] <= new[k] BY <3>1, <3>4, <2>1, <1>3
      <4> QED BY <3>1, <3>2, <3>4, <4>1, <2>1, <1>2, <1>3, <1>8
    <3>5. CASE k # x
      <4>1. entry'[k] = entry[k] BY <3>1, <3>5, <1>11
      <4> QED BY <4>1, <3>1, <3>2, <3>3, <2>1, <1>2
    <3> QED BY <3>4, <3>5
  <2> QED BY <2>4, <2>5, <2>6
<1>15. Cursor' /\ Ahead(new)'
      BY <1>2, Facts DEF Cursor, Ahead, Walking, OpOK
<1> QED BY <1>10, <1>12, <1>13, <1>14, <1>15 DEF IInv

-----------------------------------------------------------------------------
\* A step that takes one entry out, and leaves no walk going on.
LEMMA DeleteStep ==
    ASSUME IInv, NEW x \in Used, hash_del_entry(x), OpOK', Cursor', ~Walking'
    PROVE  IInv'
<1>1. PICK pos \in [Keys -> Nat] : Places(pos) BY DEF IInv
<1>2. /\ table' \in [Buckets -> Ref] /\ entry' \in [Keys -> Entry]
      /\ Lists' /\ Places(pos)'
      BY <1>1, DeleteKeeps DEF IInv
<1>3. TypeOK' BY <1>2 DEF TypeOK, OpOK, Entry, Ref
<1>4. Ahead(pos)' BY DEF Ahead
<1> QED BY <1>2, <1>3, <1>4 DEF IInv

\* The walk of hash_del() has found the entry and takes it out.
LEMMA DelFoundStep == IInv /\ DelFound => IInv'
<1> SUFFICES ASSUME IInv, DelFound PROVE IInv'
    OBVIOUS
<1>1. /\ op.pc = "del" /\ op.cur = op.key /\ hash_del_entry(op.key)
      /\ op' = [op EXCEPT !.pc = "done", !.ret = "yes"]
      BY DEF DelFound, Done
<1>2. op.key \in Used
  <2>1. PICK pos \in [Keys -> Nat] : Ahead(pos) BY DEF IInv
  <2> QED BY <2>1, <1>1, Facts DEF Ahead, Walking
<1>3. OpOK' BY <1>1, Facts DEF OpOK
<1>4. op'.pc = "done" BY <1>1, Facts DEF OpOK
<1>5. Cursor' /\ ~Walking' BY <1>4 DEF Cursor, Walking
<1> QED BY <1>1, <1>2, <1>3, <1>5, DeleteStep

\* hash_del_entry() called with the entry itself.
LEMMA DelEntryStep == IInv /\ DelEntry => IInv'
<1> SUFFICES ASSUME IInv, DelEntry PROVE IInv'
    OBVIOUS
<1>1. /\ op.pc = "del_entry" /\ hash_del_entry(op.key)
      /\ op' = [op EXCEPT !.pc = "done", !.ret = "yes"]
      BY DEF DelEntry, Done
<1>2. op.key \in Used BY <1>1 DEF IInv, Cursor
<1>3. OpOK' BY <1>1, Facts DEF OpOK
<1>4. op'.pc = "done" BY <1>1, Facts DEF OpOK
<1>5. Cursor' /\ ~Walking' BY <1>4 DEF Cursor, Walking
<1> QED BY <1>1, <1>2, <1>3, <1>5, DeleteStep

\* hash_destroy() takes out the head of the bucket it is at.
LEMMA DestroyFirstStep == IInv /\ DestroyFirst => IInv'
<1> SUFFICES ASSUME IInv, DestroyFirst PROVE IInv'
    OBVIOUS
<1>1. /\ op.pc = "destroy" /\ op.i < hash_size /\ table[op.i] # NULL
      /\ hash_del_entry(table[op.i]) /\ UNCHANGED op
      BY DEF DestroyFirst
<1>2. op.i \in Buckets BY <1>1, Facts DEF OpOK, Buckets
<1>3. table[op.i] \in Used BY <1>1, <1>2 DEF IInv, Lists
<1>4. OpOK' BY <1>1, Facts DEF OpOK, Ref
<1>5. Cursor' /\ ~Walking' BY <1>1 DEF Cursor, Walking
<1> QED BY <1>1, <1>3, <1>4, <1>5, DeleteStep

-----------------------------------------------------------------------------
\* The steps that leave the table alone and end a walk or are part of none.
LEMMA RestStep ==
    ASSUME IInv,
           \/ AddRefuse \/ LookupEnd \/ DelAbsent
           \/ \E k \in Keys : DelEntryCall(k)
           \/ \E c \in {"destroy", "rehash"} : Start(c)
           \/ DestroyNext \/ DestroyEnd
           \/ RehashBucket \/ RehashEntry \/ RehashMore \/ RehashEnd \/ Return
    PROVE  IInv'
<1>1. CASE AddRefuse \/ LookupEnd \/ DelAbsent \/ DestroyEnd \/ RehashEnd
  <2>1. /\ UNCHANGED <<table, entry>>
        /\ \E ret \in {"yes", "no"} :
              op' = [op EXCEPT !.pc = "done", !.ret = ret]
        BY <1>1 DEF AddRefuse, LookupEnd, DelAbsent, DestroyEnd, RehashEnd, Done
  <2>2. OpOK' /\ op'.pc = "done" BY <2>1, Facts DEF OpOK, Ref
  <2> QED BY <2>1, <2>2, QuietStep DEF Cursor, Walking
<1>2. ASSUME NEW k \in Keys, DelEntryCall(k) PROVE IInv'
  <2>1. /\ UNCHANGED <<table, entry>> /\ entry[k].used
        /\ op' = [Idle EXCEPT !.pc = "del_entry", !.call = "del", !.key = k]
        BY <1>2 DEF DelEntryCall
  <2>2. OpOK' BY <2>1, Facts DEF OpOK, Idle
  <2>3. op'.pc = "del_entry" /\ op'.key = k BY <2>1 DEF Idle
  <2>4. Cursor' BY <2>1, <2>3 DEF Cursor, Used
  <2> QED BY <2>1, <2>2, <2>3, <2>4, QuietStep DEF Walking
<1>3. ASSUME NEW c \in {"destroy", "rehash"}, Start(c) PROVE IInv'
  <2>1. /\ UNCHANGED <<table, entry>>
        /\ op' = [Idle EXCEPT !.pc = c, !.call = c]
        BY <1>3 DEF Start
  <2>2. OpOK' /\ op'.pc = c BY <2>1, Facts DEF OpOK, Idle
  <2> QED BY <2>1, <2>2, QuietStep DEF Cursor, Walking
<1>4. CASE DestroyNext
  <2>1. /\ UNCHANGED <<table, entry>> /\ op.pc = "destroy" /\ op.i < hash_size
        /\ op' = [op EXCEPT !.i = op.i + 1]
        BY <1>4 DEF DestroyNext
  <2>2. OpOK' /\ op'.pc = "destroy" BY <2>1, Facts DEF OpOK, Ref
  <2> QED BY <2>1, <2>2, QuietStep DEF Cursor, Walking
<1>5. CASE RehashBucket
  <2>1. /\ UNCHANGED <<table, entry>> /\ op.i < hash_size /\ table[op.i] # NULL
        /\ op' = [op EXCEPT !.pc = "queue", !.cur = table[op.i]]
        BY <1>5 DEF RehashBucket
  <2>2. op.i \in Buckets BY <2>1, Facts DEF OpOK, Buckets
  <2>3. table[op.i] \in Used BY <2>1, <2>2 DEF IInv, Lists
  <2>4. /\ OpOK' /\ op'.pc = "queue" /\ op'.cur = table[op.i] /\ op'.i = op.i
        BY <2>1, <2>2, Facts DEF OpOK, Ref
  <2>5. Cursor' BY <2>1, <2>3, <2>4 DEF Cursor, Used
  <2> QED BY <2>1, <2>4, <2>5, QuietStep DEF Walking
<1>6. CASE RehashEntry
  <2>1. /\ UNCHANGED <<table, entry>> /\ op.pc = "queue"
        /\ op' = [op EXCEPT !.pc = "more", !.seen = op.seen \union {op.cur}]
        BY <1>6 DEF RehashEntry
  <2>2. op.cur \in Used /\ op.i < hash_size BY <2>1 DEF IInv, Cursor
  <2>3. /\ OpOK' /\ op'.pc = "more" /\ op'.cur = op.cur /\ op'.i = op.i
        BY <2>1, <2>2, Facts DEF OpOK, Ref
  <2>4. Cursor' BY <2>1, <2>2, <2>3 DEF Cursor, Used
  <2> QED BY <2>1, <2>3, <2>4, QuietStep DEF Walking
<1>7. CASE RehashMore
  <2>1. UNCHANGED <<table, entry>> /\ op.pc = "more"
        BY <1>7 DEF RehashMore
  <2>2. op.cur \in Used /\ op.i < hash_size BY <2>1 DEF IInv, Cursor
  <2>3. CASE op' = [op EXCEPT !.pc = "queue"]
    <3>1. /\ OpOK' /\ op'.pc = "queue" /\ op'.cur = op.cur /\ op'.i = op.i
          BY <2>1, <2>3, Facts DEF OpOK, Ref
    <3>2. Cursor' BY <2>1, <2>2, <3>1 DEF Cursor, Used
    <3> QED BY <2>1, <3>1, <3>2, QuietStep DEF Walking
  <2>4. CASE op' = [op EXCEPT !.pc = "rehash", !.i = op.i + 1]
    <3>1. op.i + 1 \in 0 .. hash_size BY <2>2, Facts DEF OpOK
    <3>2. OpOK' /\ op'.pc = "rehash" BY <2>4, <3>1, Facts DEF OpOK, Ref
    <3> QED BY <2>1, <3>2, QuietStep DEF Cursor, Walking
  <2> QED BY <1>7, <2>3, <2>4 DEF RehashMore
<1>8. CASE Return
  <2>1. UNCHANGED <<table, entry>> /\ op' = Idle BY <1>8 DEF Return
  <2>2. OpOK' /\ op'.pc = "idle" BY <2>1, Facts DEF OpOK, Idle
  <2> QED BY <2>1, <2>2, QuietStep DEF Cursor, Walking
<1> QED BY <1>1, <1>2, <1>3, <1>4, <1>5, <1>6, <1>7, <1>8

\* Nothing changes.
LEMMA StutterStep == IInv /\ UNCHANGED vars => IInv'
<1> SUFFICES ASSUME IInv, UNCHANGED vars PROVE IInv'
    OBVIOUS
<1>1. TypeOK' BY DEF IInv, TypeOK, vars, Ref
<1>2. Lists' /\ Cursor' BY DEF IInv, Lists, Cursor, Used, vars
<1>3. \A pos : Places(pos) /\ Ahead(pos) => Places(pos)' /\ Ahead(pos)'
      BY DEF Places, Ahead, Walking, Used, vars
<1> QED BY <1>1, <1>2, <1>3 DEF IInv

\* Every step keeps the inductive invariant.
LEMMA IInvNext == IInv /\ [Next]_vars => IInv'
  BY CallStep, WalkStep, AddFirstStep, AddLastStep, DelFoundStep, DelEntryStep,
     DestroyFirstStep, RestStep, StutterStep DEF Next, Step

\* At every step of every call the doubly linked lists are whole, each entry in
\* use in the list of the bucket its key hashes to, for every set of keys, number
\* of buckets and hash function.
THEOREM ListsWhole == Spec => []Lists
  <1>1. IInv => Lists
    BY DEF IInv
  <1> QED BY IInvInit, IInvNext, <1>1, PTL DEF Spec

-----------------------------------------------------------------------------
(***************************************************************************)
(* The hash table implements KeySet: every step is a step of KeySet or     *)
(* changes nothing that KeySet speaks of.                                  *)
(***************************************************************************)
\* What a call is at each point of it, and that no answer is there before the
\* end.
CallOK ==
    /\ op.pc = "idle" => op.call = "none" /\ op.key = NULL /\ op.ret = "none"
    /\ Walking => op.call = op.pc
    /\ op.pc = "del_entry" => op.call = "del"
    /\ op.pc = "destroy" => op.call = "destroy"
    /\ op.pc \in {"rehash", "queue", "more"} => op.call = "rehash"
    /\ op.call \in {"destroy", "rehash"} => op.key = NULL
    /\ op.pc = "done" <=> op.ret # "none"

\* The buckets hash_destroy() has left behind are empty.
EmptyBelow ==
    op.pc = "destroy" => \A b \in Buckets : b < op.i => table[b] = NULL

SInv == IInv /\ CallOK /\ EmptyBelow

\* What KeySet sees of the call in progress.
AbsOp ==
    CASE op.call = "add" -> "insert"
      [] op.call = "del" -> "remove"
      [] op.call = "destroy" -> "clear"
      [] op.call = "rehash" -> "none"
      [] OTHER -> op.call

AbsCall == [op |-> AbsOp, key |-> op.key]

AbsAns == IF op.call = "rehash" THEN "none" ELSE op.ret

-----------------------------------------------------------------------------
LEMMA SInvInit == Init => SInv
<1> SUFFICES ASSUME Init PROVE SInv
    OBVIOUS
<1>1. IInv BY IInvInit
<1>2. op = Idle BY DEF Init
<1>3. CallOK /\ EmptyBelow BY <1>2 DEF Idle, CallOK, Walking, EmptyBelow
<1> QED BY <1>1, <1>3 DEF SInv

\* A walk that has met its key, or has come to the end, tells whether the key is
\* in the table.
LEMMA WalkTells ==
    ASSUME IInv, Walking
    PROVE  /\ op.key \in Keys
           /\ op.cur = NULL => op.key \notin Used
           /\ op.cur = op.key => op.key \in Used
           /\ op.cur \notin {NULL, op.key} /\ entry[op.cur].next = NULL =>
                 op.key \notin Used
<1>1. PICK pos \in [Keys -> Nat] : Places(pos) /\ Ahead(pos) BY DEF IInv
<1>2. /\ op.key \in Keys /\ op.key # NULL
      /\ op.cur = NULL => op.key \notin Used
      /\ op.cur # NULL =>
            /\ op.cur \in Used /\ op.cur \in Keys
            /\ hash_function[op.cur] = hash_function[op.key]
            /\ op.key \in Used => pos[op.cur] <= pos[op.key]
      BY <1>1, Facts DEF Ahead
<1>3. ASSUME op.cur \notin {NULL, op.key}, entry[op.cur].next = NULL,
             op.key \in Used
      PROVE  FALSE
  <2>1. pos[op.key] <= pos[op.cur] BY <1>1, <1>2, <1>3 DEF Places
  <2>2. pos[op.key] \in Nat /\ pos[op.cur] \in Nat BY <1>2, <1>3
  <2>3. pos[op.key] = pos[op.cur] BY <1>2, <1>3, <2>1, <2>2
  <2> QED BY <1>1, <1>2, <1>3, <2>3 DEF Places
<1> QED BY <1>2, <1>3

\* A removal takes its entry out of the table, and no head of another bucket.
LEMMA DeleteTakesOne ==
    ASSUME IInv, NEW x \in Used, hash_del_entry(x)
    PROVE  /\ Used' = Used \ {x}
           /\ \A b \in Buckets : b # hash_function[x] => table'[b] = table[b]
<1>1. PICK pos \in [Keys -> Nat] : Places(pos) BY DEF IInv
<1>2. Used' = Used \ {x} BY <1>1, DeleteKeeps DEF IInv
<1>3. entry[x].index = hash_function[x] BY DEF IInv, Lists
<1>4. \A b \in Buckets : b # hash_function[x] => table'[b] = table[b]
      BY <1>3, Facts DEF hash_del_entry
<1> QED BY <1>2, <1>4

-----------------------------------------------------------------------------
(***************************************************************************)
(* What each group of steps does to the call as KeySet sees it, and that   *)
(* it keeps the invariant.                                                 *)
(***************************************************************************)
\* A call is made.
LEMMA AskStep ==
    ASSUME SInv,
           NEW c \in {"add", "del", "lookup", "del_entry", "destroy", "rehash"},
           NEW k \in Ref,
           c \in {"destroy", "rehash"} <=> k = NULL,
           op.pc = "idle",
           op'.pc = c, op'.call = IF c = "del_entry" THEN "del" ELSE c,
           op'.key = k, op'.ret = "none", op'.i = 0,
           UNCHANGED <<table, entry>>
    PROVE  CallOK' /\ EmptyBelow' /\ [Map!Next]_(Map!vars)
<1>1. /\ op'.pc = c /\ op'.call = IF c = "del_entry" THEN "del" ELSE c
      /\ op'.key = k /\ op'.ret = "none" /\ op'.i = 0
      OBVIOUS
<1>2. CallOK' BY <1>1 DEF CallOK, Walking
<1>3. EmptyBelow' BY <1>1 DEF EmptyBelow, Buckets
<1>4. op.call = "none" /\ op.key = NULL /\ op.ret = "none"
      BY DEF SInv, CallOK
<1>5. Used' = Used BY DEF Used
<1>6. AbsCall = Map!NoCall /\ AbsAns = "none" /\ AbsAns' = "none"
      BY <1>1, <1>4 DEF AbsCall, AbsOp, AbsAns, Map!NoCall, NULL
<1>7. CASE c = "rehash"
  <2>1. AbsCall' = Map!NoCall
        BY <1>1, <1>7 DEF AbsCall, AbsOp, Map!NoCall, NULL
  <2> QED BY <1>2, <1>3, <1>5, <1>6, <2>1 DEF Map!vars, AbsCall, AbsOp, AbsAns
<1>8. CASE c = "destroy"
  <2>1. AbsCall' = [Map!NoCall EXCEPT !.op = "clear"]
        BY <1>1, <1>8 DEF AbsCall, AbsOp, Map!NoCall, NULL
  <2>2. Map!AskClear BY <1>5, <1>6, <2>1 DEF Map!AskClear, AbsCall, AbsOp, AbsAns
  <2> QED BY <1>2, <1>3, <2>2 DEF Map!Next
<1>9. CASE c \notin {"rehash", "destroy"}
  <2> DEFINE o == CASE c = "add" -> "insert"
                    [] c \in {"del", "del_entry"} -> "remove"
                    [] OTHER -> "lookup"
  <2>1. o \in {"insert", "remove", "lookup"} /\ k \in Keys
        BY <1>9 DEF Ref
  <2>2. AbsCall' = [op |-> o, key |-> k]
        BY <1>1, <1>9 DEF AbsCall, AbsOp
  <2> HIDE DEF o
  <2>3. Map!Ask(o, k) BY <1>5, <1>6, <2>2 DEF Map!Ask, AbsCall, AbsOp, AbsAns
  <2> QED BY <1>2, <1>3, <2>1, <2>3 DEF Map!Next
<1> QED BY <1>7, <1>8, <1>9

\* A call is answered.
LEMMA AnswerStep ==
    ASSUME SInv, NEW ret \in {"yes", "no"},
           op.pc \notin {"idle", "done"},
           op' = [op EXCEPT !.pc = "done", !.ret = ret],
           \/ op.call = "rehash" /\ Used' = Used
           \/ op.call = "add" /\ Used' = Used \union {op.key}
              /\ ret = Map!YesNo(op.key \notin Used)
           \/ op.call = "del" /\ Used' = Used \ {op.key}
              /\ ret = Map!YesNo(op.key \in Used)
           \/ op.call = "lookup" /\ Used' = Used
              /\ ret = Map!YesNo(op.key \in Used)
           \/ op.call = "destroy" /\ Used' = Used /\ Used = {} /\ ret = "yes"
    PROVE  CallOK' /\ EmptyBelow' /\ [Map!Next]_(Map!vars)
<1>1. /\ op'.pc = "done" /\ op'.ret = ret
      /\ op'.call = op.call /\ op'.key = op.key
      BY Facts DEF SInv, OpOK
<1>2. CallOK' BY <1>1 DEF SInv, CallOK, Walking
<1>3. EmptyBelow' BY <1>1 DEF EmptyBelow
<1>4. op.ret = "none" BY Facts DEF SInv, CallOK, OpOK
<1>5. AbsCall' = AbsCall BY <1>1 DEF AbsCall, AbsOp
<1>6. CASE op.call = "rehash"
      BY <1>1, <1>2, <1>3, <1>5, <1>6 DEF Map!vars, AbsCall, AbsOp, AbsAns
<1>7. CASE op.call = "add"
  <2>1. Map!Insert
        BY <1>1, <1>4, <1>5, <1>7
           DEF Map!Insert, Map!Pending, AbsCall, AbsOp, AbsAns
  <2> QED BY <1>2, <1>3, <2>1 DEF Map!Next
<1>8. CASE op.call = "del"
  <2>1. Map!Remove
        BY <1>1, <1>4, <1>5, <1>8
           DEF Map!Remove, Map!Pending, AbsCall, AbsOp, AbsAns
  <2> QED BY <1>2, <1>3, <2>1 DEF Map!Next
<1>9. CASE op.call = "lookup"
  <2>1. Map!Lookup
        BY <1>1, <1>4, <1>5, <1>9
           DEF Map!Lookup, Map!Pending, AbsCall, AbsOp, AbsAns
  <2> QED BY <1>2, <1>3, <2>1 DEF Map!Next
<1>10. CASE op.call = "destroy"
  <2>1. Map!ClearEnd
        BY <1>1, <1>4, <1>5, <1>10
           DEF Map!ClearEnd, Map!Pending, AbsCall, AbsOp, AbsAns
  <2> QED BY <1>2, <1>3, <2>1 DEF Map!Next
<1> QED BY <1>6, <1>7, <1>8, <1>9, <1>10

\* A call goes on, and nothing KeySet speaks of changes.
LEMMA SilentStep ==
    ASSUME SInv, UNCHANGED <<table, entry>>,
           op.pc \notin {"idle", "done"},
           op'.call = op.call, op'.key = op.key, op'.ret = op.ret,
           \/ op'.pc = op.pc
           \/ {op.pc, op'.pc} \subseteq {"rehash", "queue", "more"},
           EmptyBelow'
    PROVE  CallOK' /\ EmptyBelow' /\ [Map!Next]_(Map!vars)
<1>1. CallOK' BY DEF SInv, CallOK, Walking
<1>2. Used' = Used BY DEF Used
<1> QED BY <1>1, <1>2 DEF Map!vars

LEMMA CallSet ==
    ASSUME SInv,
           \/ \E c \in {"add", "del", "lookup"}, k \in Keys : Call(c, k)
           \/ \E k \in Keys : DelEntryCall(k)
           \/ \E c \in {"destroy", "rehash"} : Start(c)
    PROVE  CallOK' /\ EmptyBelow' /\ [Map!Next]_(Map!vars)
<1>0. \A k \in Keys : k \in Ref /\ k # NULL
      BY Facts DEF SInv
<1>1. ASSUME NEW c \in {"add", "del", "lookup"}, NEW k \in Keys, Call(c, k)
      PROVE  CallOK' /\ EmptyBelow' /\ [Map!Next]_(Map!vars)
  <2>1. /\ op.pc = "idle" /\ UNCHANGED <<table, entry>>
        /\ op'.pc = c /\ op'.call = c /\ op'.key = k
        /\ op'.ret = "none" /\ op'.i = 0
        BY <1>1 DEF Call, Idle
  <2> QED BY <1>0, <2>1, AskStep
<1>2. ASSUME NEW k \in Keys, DelEntryCall(k)
      PROVE  CallOK' /\ EmptyBelow' /\ [Map!Next]_(Map!vars)
  <2>1. /\ op.pc = "idle" /\ UNCHANGED <<table, entry>>
        /\ op'.pc = "del_entry" /\ op'.call = "del" /\ op'.key = k
        /\ op'.ret = "none" /\ op'.i = 0
        BY <1>2 DEF DelEntryCall, Idle
  <2> QED BY <1>0, <2>1, AskStep
<1>3. ASSUME NEW c \in {"destroy", "rehash"}, Start(c)
      PROVE  CallOK' /\ EmptyBelow' /\ [Map!Next]_(Map!vars)
  <2>1. /\ op.pc = "idle" /\ UNCHANGED <<table, entry>>
        /\ op'.pc = c /\ op'.call = c /\ op'.key = NULL
        /\ op'.ret = "none" /\ op'.i = 0
        BY <1>3 DEF Start, Idle
  <2>2. NULL \in Ref BY DEF Ref
  <2> QED BY <2>1, <2>2, AskStep
<1> QED BY <1>1, <1>2, <1>3

\* Additions, removals and lookups that come to their end.
LEMMA EndOfWalkSet ==
    ASSUME SInv,
           \/ AddFirst \/ AddLast \/ AddRefuse \/ LookupEnd
           \/ DelFound \/ DelAbsent \/ DelEntry
    PROVE  CallOK' /\ EmptyBelow' /\ [Map!Next]_(Map!vars)
<1> USE DEF SInv, Map!YesNo
<1>1. Walking => /\ op.key \in Keys /\ op.key # NULL
                 /\ op.call = op.pc
      BY WalkTells, Facts DEF CallOK
<1>2. CASE AddFirst \/ AddLast
  <2>1. Walking /\ op.pc = "add" /\ op.key \notin Used
        BY <1>2, WalkTells DEF AddFirst, AddLast, Walking
  <2>2. /\ op.key \in Keys /\ entry'[op.key].used
        /\ \A k \in Keys \ {op.key} : entry'[k].used = entry[k].used
    <3>1. CASE AddFirst
          BY <1>1, <2>1, <3>1, Facts DEF AddFirst, Node
    <3>2. CASE AddLast
      <4>1. op.cur \in Keys /\ op.cur # op.key /\ entry[op.cur] \in Entry
            BY <3>2, Facts DEF AddLast, OpOK, Ref
      <4>2. entry' = [entry EXCEPT ![op.cur].next = op.key,
                                   ![op.key] = Node(op.cur)]
            BY <3>2 DEF AddLast
      <4>3. entry'[op.cur].used = entry[op.cur].used
            BY <4>1, <4>2, Facts DEF Entry
      <4>4. \A k \in Keys \ {op.key, op.cur} : entry'[k] = entry[k]
            BY <4>1, <4>2, Facts
      <4>5. entry'[op.key].used
            BY <1>1, <2>1, <4>1, <4>2, Facts DEF Node
      <4> QED BY <1>1, <2>1, <4>3, <4>4, <4>5
    <3> QED BY <1>2, <3>1, <3>2
  <2>3. Used' = Used \union {op.key} BY <2>2 DEF Used
  <2>4. op' = [op EXCEPT !.pc = "done", !.ret = "yes"]
        BY <1>2 DEF AddFirst, AddLast, Done
  <2> QED BY <1>1, <2>1, <2>3, <2>4, AnswerStep
<1>3. CASE AddRefuse
  <2>1. /\ Walking /\ op.pc = "add" /\ op.key \in Used
        /\ UNCHANGED <<table, entry>>
        /\ op' = [op EXCEPT !.pc = "done", !.ret = "no"]
        BY <1>3, WalkTells DEF AddRefuse, Walking, Done
  <2>2. Used' = Used \union {op.key} BY <2>1 DEF Used
  <2> QED BY <1>1, <2>1, <2>2, AnswerStep
<1>4. CASE LookupEnd
  <2>1. /\ Walking /\ op.pc = "lookup" /\ UNCHANGED <<table, entry>>
        /\ op' = [op EXCEPT !.pc = "done",
                            !.ret = IF op.cur = NULL THEN "no" ELSE "yes"]
        BY <1>4 DEF LookupEnd, Walking, Done
  <2>2. op.cur = NULL <=> op.key \notin Used
        BY <1>1, <1>4, <2>1, WalkTells DEF LookupEnd
  <2>3. Used' = Used BY <2>1 DEF Used
  <2> QED BY <1>1, <2>1, <2>2, <2>3, AnswerStep
<1>5. CASE DelFound
  <2>1. /\ Walking /\ op.pc = "del" /\ op.key \in Used
        /\ hash_del_entry(op.key)
        /\ op' = [op EXCEPT !.pc = "done", !.ret = "yes"]
        BY <1>5, WalkTells DEF DelFound, Walking, Done
  <2>2. Used' = Used \ {op.key} BY <2>1, DeleteTakesOne
  <2> QED BY <1>1, <2>1, <2>2, AnswerStep
<1>6. CASE DelAbsent
  <2>1. /\ Walking /\ op.pc = "del" /\ op.key \notin Used
        /\ UNCHANGED <<table, entry>>
        /\ op' = [op EXCEPT !.pc = "done", !.ret = "no"]
        BY <1>6, WalkTells DEF DelAbsent, Walking, Done
  <2>2. Used' = Used \ {op.key} BY <2>1 DEF Used
  <2> QED BY <1>1, <2>1, <2>2, AnswerStep
<1>7. CASE DelEntry
  <2>1. /\ op.pc = "del_entry" /\ hash_del_entry(op.key)
        /\ op' = [op EXCEPT !.pc = "done", !.ret = "yes"]
        BY <1>7 DEF DelEntry, Done
  <2>2. op.key \in Used /\ op.call = "del" BY <2>1 DEF IInv, Cursor, CallOK
  <2>3. Used' = Used \ {op.key} BY <2>1, <2>2, DeleteTakesOne
  <2> QED BY <2>1, <2>2, <2>3, AnswerStep
<1> QED BY <1>2, <1>3, <1>4, <1>5, <1>6, <1>7

\* The steps of hash_destroy().
LEMMA DestroySet ==
    ASSUME SInv, DestroyFirst \/ DestroyNext \/ DestroyEnd
    PROVE  CallOK' /\ EmptyBelow' /\ [Map!Next]_(Map!vars)
<1> USE DEF SInv
<1>1. op.pc = "destroy" /\ op.call = "destroy" /\ op.ret = "none"
      /\ op.i \in 0 .. hash_size
      BY Facts DEF DestroyFirst, DestroyNext, DestroyEnd, CallOK, OpOK
<1>2. CASE DestroyFirst
  <2>1. /\ op.i \in Buckets /\ table[op.i] # NULL
        /\ hash_del_entry(table[op.i]) /\ UNCHANGED op
        BY <1>1, <1>2, Facts DEF DestroyFirst, Buckets
  <2>2. table[op.i] \in Used /\ hash_function[table[op.i]] = op.i
        BY <2>1 DEF IInv, Lists
  <2>3. /\ Used' = Used \ {table[op.i]}
        /\ \A b \in Buckets : b # op.i => table'[b] = table[b]
        BY <2>1, <2>2, DeleteTakesOne
  <2>4. CallOK' BY <2>1 DEF CallOK, Walking
  <2>5. \A b \in Buckets : b < op.i => b # op.i
        BY SizeAssumption DEF Buckets
  <2>6. EmptyBelow' BY <2>1, <2>3, <2>5 DEF EmptyBelow
  <2>7. Map!ClearOne
        BY <1>1, <2>1, <2>2, <2>3 DEF Map!ClearOne, Map!Pending
  <2> QED BY <2>4, <2>6, <2>7 DEF Map!Next
<1>3. CASE DestroyNext
  <2>1. /\ table[op.i] = NULL /\ UNCHANGED <<table, entry>>
        /\ op' = [op EXCEPT !.i = op.i + 1]
        BY <1>3 DEF DestroyNext
  <2>2. /\ op'.pc = op.pc /\ op'.call = op.call /\ op'.key = op.key
        /\ op'.ret = op.ret /\ op'.i = op.i + 1
        BY <2>1, Facts DEF OpOK
  <2>3. \A b \in Buckets : b < op.i + 1 => b < op.i \/ b = op.i
        BY <1>1, SizeAssumption DEF Buckets
  <2>4. EmptyBelow' BY <1>1, <2>1, <2>2, <2>3 DEF EmptyBelow
  <2> QED BY <1>1, <2>1, <2>2, <2>4, SilentStep
<1>4. CASE DestroyEnd
  <2>1. /\ op.i = hash_size /\ UNCHANGED <<table, entry>>
        /\ op' = [op EXCEPT !.pc = "done", !.ret = "yes"]
        BY <1>4 DEF DestroyEnd, Done
  <2>2. \A b \in Buckets : b < op.i
        BY <2>1, SizeAssumption DEF Buckets
  <2>3. \A b \in Buckets : table[b] = NULL
        BY <1>1, <2>2 DEF EmptyBelow
  <2>4. Used = {}
    <3>1. PICK pos \in [Keys -> Nat] : Places(pos) BY DEF IInv
    <3>2. \A k \in Used : table[hash_function[k]] # NULL
          BY <3>1 DEF Places
    <3> QED BY <2>3, <3>2, Facts
  <2>5. Used' = Used BY <2>1 DEF Used
  <2> QED BY <1>1, <2>1, <2>4, <2>5, AnswerStep
<1> QED BY <1>2, <1>3, <1>4

\* Steps that go on, the calls of hash_rehash() and the return.
LEMMA RestSet ==
    ASSUME SInv,
           \/ Walk
           \/ RehashBucket \/ RehashEntry \/ RehashMore \/ RehashEnd
           \/ Return
    PROVE  CallOK' /\ EmptyBelow' /\ [Map!Next]_(Map!vars)
<1> USE DEF SInv
<1>1. CASE Walk
  <2>1. /\ op.pc \in {"add", "del", "lookup"} /\ UNCHANGED <<table, entry>>
        /\ op' = [op EXCEPT !.cur = entry[op.cur].next]
        BY <1>1 DEF Walk
  <2>2. /\ op'.pc = op.pc /\ op'.call = op.call /\ op'.key = op.key
        /\ op'.ret = op.ret
        BY <2>1, Facts DEF OpOK
  <2>3. EmptyBelow' BY <2>1, <2>2 DEF EmptyBelow
  <2> QED BY <2>1, <2>2, <2>3, SilentStep
<1>2. CASE RehashBucket \/ RehashEntry \/ RehashMore
  <2>1. /\ op.pc \in {"rehash", "queue", "more"}
        /\ UNCHANGED <<table, entry>>
        /\ op'.pc \in {"rehash", "queue", "more"}
        /\ op'.call = op.call /\ op'.key = op.key /\ op'.ret = op.ret
        BY <1>2, Facts DEF RehashBucket, RehashEntry, RehashMore, OpOK
  <2>2. EmptyBelow' BY <2>1 DEF EmptyBelow
  <2> QED BY <2>1, <2>2, SilentStep
<1>3. CASE RehashEnd
  <2>1. /\ op.pc = "rehash" /\ UNCHANGED <<table, entry>>
        /\ op' = [op EXCEPT !.pc = "done", !.ret = "yes"]
        BY <1>3 DEF RehashEnd, Done
  <2>2. op.call = "rehash" /\ Used' = Used BY <2>1 DEF CallOK, Used
  <2> QED BY <2>1, <2>2, AnswerStep
<1>4. CASE Return
  <2>1. op.pc = "done" /\ op' = Idle /\ UNCHANGED <<table, entry>>
        BY <1>4 DEF Return
  <2>2. CallOK' /\ EmptyBelow' BY <2>1 DEF Idle, CallOK, Walking, EmptyBelow
  <2>3. Used' = Used BY <2>1 DEF Used
  <2>4. /\ AbsCall' = Map!NoCall /\ AbsAns' = "none"
        BY <2>1 DEF AbsCall, AbsOp, AbsAns, Idle, Map!NoCall, NULL
  <2>5. CASE op.call = "rehash"
    <3>1. AbsCall = Map!NoCall /\ AbsAns = "none"
          BY <2>5 DEF AbsCall, AbsOp, AbsAns, CallOK, Map!NoCall, NULL
    <3> QED BY <2>2, <2>3, <2>4, <3>1 DEF Map!vars, AbsCall, AbsOp, AbsAns
  <2>6. CASE op.call # "rehash"
    <3>1. AbsAns # "none" BY <2>1, <2>6 DEF AbsAns, CallOK
    <3>2. Map!Return
          BY <2>3, <2>4, <3>1 DEF Map!Return, AbsCall, AbsOp, AbsAns
    <3> QED BY <2>2, <3>2 DEF Map!Next
  <2> QED BY <2>5, <2>6
<1> QED BY <1>1, <1>2, <1>3, <1>4

-----------------------------------------------------------------------------
\* Every step keeps the invariant and is a step of KeySet or none.
LEMMA StepSet == SInv /\ [Next]_vars => SInv' /\ [Map!Next]_(Map!vars)
<1> SUFFICES ASSUME SInv, [Next]_vars
             PROVE  SInv' /\ [Map!Next]_(Map!vars)
    OBVIOUS
<1>1. IInv' BY IInvNext DEF SInv
<1>2. CASE Next
  <2>1. CallOK' /\ EmptyBelow' /\ [Map!Next]_(Map!vars)
        BY <1>2, CallSet, EndOfWalkSet, DestroySet, RestSet DEF Next, Step
  <2> QED BY <1>1, <2>1 DEF SInv
<1>3. CASE UNCHANGED vars
      BY <1>1, <1>3 DEF SInv, CallOK, EmptyBelow, Walking, vars, Map!vars, Used
<1> QED BY <1>2, <1>3

\* Whoever calls the hash table sees a set of keys: adds, removals and lookups
\* are answered as KeySet answers them, hash_destroy() empties it, hash_rehash()
\* changes nothing, for every set of keys, number of buckets and hash function.
THEOREM HashIsSet == Spec => Implements
<1>1. Init => Map!Init
  <2> SUFFICES ASSUME Init PROVE Map!Init
      OBVIOUS
  <2>1. Used = {} BY DEF Init, Used, Unused
  <2> QED BY <2>1 DEF Init, Idle, Map!Init, Map!NoCall, NULL
<1> QED BY <1>1, SInvInit, StepSet, PTL DEF Spec, Implements, Map!Spec

-----------------------------------------------------------------------------
(***************************************************************************)
(* The heads reach every entry in use, and nothing else.                   *)
(***************************************************************************)
\* A freed entry has no next, and the entries in use are finitely many: no list
\* goes on for ever.
Ends ==
    /\ IsFiniteSet(Used)
    /\ \A k \in Keys \ Used : entry[k].next = NULL

RInv == IInv /\ Ends

LEMMA RInvInit == Init => RInv
<1> SUFFICES ASSUME Init PROVE RInv
    OBVIOUS
<1>1. Used = {} BY DEF Init, Used, Unused
<1>2. \A k \in Keys : entry[k].next = NULL BY DEF Init, Unused
<1> QED BY <1>1, <1>2, IInvInit, FS_EmptySet DEF RInv, Ends

\* An addition puts one entry in use.
LEMMA AddEnds ==
    ASSUME RInv, AddFirst \/ AddLast
    PROVE  Ends'
<1>1. /\ op.pc = "add" /\ Walking
      /\ op.key \in Keys /\ op.key \notin Used
      BY WalkTells DEF RInv, AddFirst, AddLast, Walking
<1>2. \A k \in Keys \ {op.key} :
         /\ entry'[k].used = entry[k].used
         /\ k \notin Used => entry'[k].next = entry[k].next
  <2>1. CASE AddFirst
        BY <2>1, Facts DEF RInv, AddFirst
  <2>2. CASE AddLast
    <3>1. /\ op.cur \in Keys /\ op.cur # op.key /\ op.cur \in Used
          /\ entry' = [entry EXCEPT ![op.cur].next = op.key,
                                    ![op.key] = Node(op.cur)]
          BY <1>1, <2>2, Facts DEF RInv, IInv, Ahead, AddLast
    <3>2. entry[op.cur] \in Entry BY <3>1, Facts DEF RInv
    <3>3. entry'[op.cur].used = entry[op.cur].used
          BY <3>1, <3>2, <1>1, Facts DEF RInv, Entry
    <3>4. \A k \in Keys \ {op.key, op.cur} : entry'[k] = entry[k]
          BY <3>1, <1>1, Facts DEF RInv
    <3> QED BY <3>1, <3>3, <3>4
  <2> QED BY <2>1, <2>2
<1>3. Used' \subseteq Used \union {op.key}
      BY <1>2 DEF Used
<1>4. IsFiniteSet(Used')
      BY <1>3, FS_AddElement, FS_Subset DEF RInv, Ends
<1>5. op.key \in Used'
  <2>1. CASE AddFirst
        BY <1>1, <2>1, Facts DEF RInv, AddFirst, Node, Used
  <2>2. CASE AddLast
        BY <1>1, <2>2, Facts DEF RInv, AddLast, Node, Used
  <2> QED BY <2>1, <2>2
<1>6. \A k \in Keys \ Used' : entry'[k].next = NULL
      BY <1>2, <1>5 DEF RInv, Ends, Used
<1> QED BY <1>4, <1>6 DEF Ends

\* A deleted entry has no next any more.
LEMMA DeleteEnds ==
    ASSUME RInv, NEW x \in Used, hash_del_entry(x)
    PROVE  Ends'
<1>1. PICK pos \in [Keys -> Nat] : Places(pos) BY DEF RInv, IInv
<1>2. /\ Used' = Used \ {x} /\ entry'[x] = Unused
      /\ \A k \in Keys \ Used : entry'[k] = entry[k]
      BY <1>1, DeleteKeeps DEF RInv, IInv
<1>3. IsFiniteSet(Used') BY <1>2, FS_Subset DEF RInv, Ends
<1>4. \A k \in Keys \ Used' : entry'[k].next = NULL
      BY <1>2 DEF RInv, Ends, Unused
<1> QED BY <1>3, <1>4 DEF Ends

LEMMA RInvNext == RInv /\ [Next]_vars => RInv'
<1> SUFFICES ASSUME RInv, [Next]_vars PROVE RInv'
    OBVIOUS
<1>1. IInv' BY IInvNext DEF RInv
<1>2. CASE AddFirst \/ AddLast
      BY <1>1, <1>2, AddEnds DEF RInv
<1>3. CASE DelFound \/ DelEntry \/ DestroyFirst
  <2>1. PICK x \in Used : hash_del_entry(x)
    <3>1. CASE DelFound
          BY <3>1, WalkTells DEF RInv, DelFound, Walking
    <3>2. CASE DelEntry
          BY <3>2 DEF RInv, IInv, Cursor, DelEntry
    <3>3. CASE DestroyFirst
      <4>1. op.i \in Buckets
            BY <3>3, Facts DEF RInv, OpOK, Buckets, DestroyFirst
      <4> QED BY <3>3, <4>1 DEF RInv, IInv, Lists, DestroyFirst
    <3> QED BY <1>3, <3>1, <3>2, <3>3
  <2> QED BY <1>1, <2>1, DeleteEnds DEF RInv
<1>4. CASE UNCHANGED <<table, entry>>
  <2>1. Used' = Used BY <1>4 DEF Used
  <2> QED BY <1>1, <1>4, <2>1 DEF RInv, Ends
<1>5. \/ AddFirst \/ AddLast \/ DelFound \/ DelEntry \/ DestroyFirst
      \/ UNCHANGED <<table, entry>>
      BY DEF Next, Step, Call, Walk, AddRefuse, LookupEnd, DelAbsent,
             DelEntryCall, Start, DestroyNext, DestroyEnd, RehashBucket,
             RehashEntry, RehashMore, RehashEnd, Return, vars
<1> QED BY <1>2, <1>3, <1>4, <1>5

-----------------------------------------------------------------------------
\* From(x), for an entry in use, is what its bucket holds from its place on.
LEMMA FromIs ==
    ASSUME RInv, NEW pos \in [Keys -> Nat], Places(pos)
    PROVE  /\ From(NULL) = {}
           /\ \A k \in Used :
                 From(k) = {j \in Used : /\ hash_function[j] = hash_function[k]
                                         /\ pos[k] <= pos[j]}
<1> DEFINE Rest(k) == {j \in Used : /\ hash_function[j] = hash_function[k]
                                    /\ pos[k] <= pos[j]}
           Along(f) == [y \in Ref |-> IF y = NULL THEN {}
                                      ELSE {y} \union f[entry[y].next]]
           rest == [y \in Ref |-> CASE y = NULL -> {}
                                    [] y \in Used -> Rest(y)
                                    [] OTHER -> {y}]
<1>1. /\ NULL \in Ref /\ Used \subseteq Keys /\ Keys \subseteq Ref
      /\ \A k \in Keys : k # NULL /\ entry[k].next \in Ref
      /\ \A k \in Used : pos[k] \in Nat
      BY Facts DEF RInv, Entry, Ref
<1>2. ASSUME NEW k \in Used
      PROVE  /\ entry[k].next = NULL => Rest(k) = {k}
             /\ entry[k].next # NULL =>
                   /\ entry[k].next \in Used
                   /\ Rest(k) = {k} \union Rest(entry[k].next)
                   /\ k \notin Rest(entry[k].next)
  <2>1. \A j \in Used : hash_function[j] = hash_function[k] =>
           /\ pos[j] = pos[k] => j = k
           /\ entry[k].next = NULL => pos[j] <= pos[k]
           /\ entry[k].next # NULL =>
                 /\ pos[k] < pos[entry[k].next]
                 /\ pos[k] < pos[j] => pos[entry[k].next] <= pos[j]
        BY DEF Places
  <2>2. entry[k].next # NULL =>
           /\ entry[k].next \in Used
           /\ hash_function[entry[k].next] = hash_function[k]
        BY DEF RInv, IInv, Lists
  <2>3. CASE entry[k].next = NULL
        BY <1>1, <2>1, <2>3
  <2>4. CASE entry[k].next # NULL
    <3>1. pos[k] < pos[entry[k].next] /\ pos[entry[k].next] \in Nat
          BY <1>1, <2>1, <2>2, <2>4
    <3>2. \A j \in Used : hash_function[j] = hash_function[k] =>
             (pos[k] <= pos[j] <=> j = k \/ pos[entry[k].next] <= pos[j])
          BY <1>1, <2>1, <2>4, <3>1
    <3> QED BY <1>1, <2>2, <2>4, <3>1, <3>2
  <2> QED BY <2>3, <2>4
<1> HIDE DEF Rest
<1>3. rest = Along(rest)
  <2> SUFFICES ASSUME NEW y \in Ref PROVE rest[y] = Along(rest)[y]
      OBVIOUS
  <2>1. CASE y = NULL BY <1>1, <2>1
  <2>2. CASE y \in Used
    <3>1. entry[y].next = NULL => rest[entry[y].next] = {}
          BY <1>1
    <3>2. entry[y].next # NULL => rest[entry[y].next] = Rest(entry[y].next)
          BY <1>1, <1>2, <2>2
    <3>3. rest[y] = Rest(y) BY <1>1, <2>2
    <3> QED BY <1>1, <1>2, <2>2, <3>1, <3>2, <3>3
  <2>3. CASE y \notin Used /\ y # NULL
    <3>1. entry[y].next = NULL BY <2>3 DEF RInv, Ends, Ref
    <3> QED BY <1>1, <2>3, <3>1
  <2> QED BY <2>1, <2>2, <2>3
<1> DEFINE from == CHOOSE f : f = Along(f)
<1>4. from = Along(from)
  <2> HIDE DEF Along, rest
  <2> QED BY <1>3
<1>5. \A x : From(x) = from[x]
      BY DEF From
<1> HIDE DEF from, rest
<1>6. from[NULL] = {} /\ \A k \in Used : from[k] = {k} \union from[entry[k].next]
  <2> DEFINE g == from
  <2>1. g = Along(g) BY <1>4
  <2> HIDE DEF g
  <2>2. g[NULL] = {} BY <1>1, <2>1
  <2>3. \A k \in Used : g[k] = {k} \union g[entry[k].next]
        BY <1>1, <2>1
  <2> QED BY <2>2, <2>3 DEF g
<1>7. \A k \in Used : from[k] = Rest(k)
  <2> DEFINE S == {k \in Used : from[k] # Rest(k)}
             C == {Rest(k) : k \in S}
  <2>1. SUFFICES ASSUME S # {} PROVE FALSE
        OBVIOUS
  <2>2. \A c \in C : IsFiniteSet(c)
        BY FS_Subset DEF RInv, Ends, Rest
  <2>3. PICK k \in S : \A j \in S : Rest(j) \subseteq Rest(k) => Rest(j) = Rest(k)
    <3>1. C # {} BY <2>1
    <3> HIDE DEF C
    <3>2. PICK c \in C : \A d \in C : d \subseteq c => d = c
          BY <2>2, <3>1, LeastSet
    <3> QED BY <3>2 DEF C
  <2>4. k \in Used /\ from[k] # Rest(k)
        OBVIOUS
  <2>5. entry[k].next # NULL
    <3>1. from[k] = {k} \union from[entry[k].next] /\ from[NULL] = {}
          BY <1>6, <2>4
    <3>2. entry[k].next = NULL => Rest(k) = {k}
          BY <1>2, <2>4
    <3> HIDE DEF S, C
    <3> QED BY <2>4, <3>1, <3>2
  <2>6. /\ entry[k].next \in Used
        /\ Rest(k) = {k} \union Rest(entry[k].next)
        /\ k \notin Rest(entry[k].next)
        BY <1>2, <2>4, <2>5
  <2>7. entry[k].next \notin S
        BY <2>3, <2>4, <2>6
  <2> QED BY <1>6, <2>4, <2>6, <2>7
<1> QED BY <1>5, <1>6, <1>7 DEF Rest

\* The heads reach what is in use.
LEMMA Reached == RInv => AllReached
<1> SUFFICES ASSUME RInv PROVE AllReached
    OBVIOUS
<1>1. PICK pos \in [Keys -> Nat] : Places(pos) BY DEF RInv, IInv
<1>2. ASSUME NEW k \in Used
      PROVE  \E b \in Buckets : k \in From(table[b])
  <2>1. hash_function[k] \in Buckets /\ table[hash_function[k]] # NULL
        BY <1>1, Facts DEF RInv, Places
  <2>2. /\ table[hash_function[k]] \in Used
        /\ hash_function[table[hash_function[k]]] = hash_function[k]
        BY <2>1 DEF RInv, IInv, Lists
  <2>3. pos[table[hash_function[k]]] <= pos[k]
        BY <1>1, <2>2 DEF Places
  <2> QED BY <1>1, <2>1, <2>2, <2>3, FromIs
<1>3. ASSUME NEW b \in Buckets PROVE From(table[b]) \subseteq Used
  <2>1. table[b] = NULL \/ table[b] \in Used
        BY DEF RInv, IInv, Lists
  <2> QED BY <1>1, <2>1, FromIs
<1> QED BY <1>2, <1>3 DEF AllReached

\* At every step of every call a walk from the heads along next meets exactly the
\* entries in use: none is lost in a ring of its own, and none that was freed is
\* met, for every set of keys, number of buckets and hash function.
THEOREM NoneCutOff == Spec => []AllReached
  BY RInvInit, RInvNext, Reached, PTL DEF Spec
=============================================================================
