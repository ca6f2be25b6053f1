------------------------------ MODULE VmProofs ------------------------------
(***************************************************************************)
(* Proofs about the allocator of vm/.  Of the threads that share it, for   *)
(* every number of threads, array size, number of rounds, space and set of *)
(* requests; and of the nodes of its tree, for every ORDER from 4 up, odd  *)
(* ones included.                                                          *)
(***************************************************************************)
EXTENDS VmThreads, VmNode, FiniteSetTheorems, TLAPS

-----------------------------------------------------------------------------
(***************************************************************************)
(* The allocator the threads share, as VmAlloc has it.                     *)
(***************************************************************************)
\* Exclusive is inductive once the pending request is known to be a real one.
AllocInv ==
    /\ req \in Requests \union {Alloc!NoRequest}
    /\ Alloc!Exclusive

\* A block that satisfies a request lies in free addresses, and is not empty.
LEMMA CandidateFree ==
    ASSUME NEW q \in Requests, NEW b \in Alloc!Candidates(q)
    PROVE  /\ Alloc!Span(b) # {}
           /\ Alloc!Span(b) \subseteq Alloc!Space
           /\ \A c \in blocks : Alloc!Span(b) \intersect Alloc!Span(c) = {}
  <1>1. Alloc!Span(b) \subseteq Alloc!FreeAddr
    BY DEF Alloc!Candidates
  <1>2. PICK a \in Alloc!Space : b = [start |-> a, end |-> a + q.size]
    BY DEF Alloc!Candidates
  <1>3. a \in Int /\ q.size \in Nat /\ q.size > 0
    BY SpaceAssumption, SizeAssumption DEF Alloc!Space
  <1>4. a \in Alloc!Span(b)
    BY <1>2, <1>3 DEF Alloc!Span
  <1>5. Alloc!Span(b) \subseteq Alloc!Space
    BY <1>1 DEF Alloc!FreeAddr
  <1>6. \A c \in blocks : Alloc!Span(b) \intersect Alloc!Span(c) = {}
    BY <1>1 DEF Alloc!FreeAddr
  <1> QED BY <1>4, <1>5, <1>6

LEMMA AllocInit == Alloc!Init => AllocInv
  BY DEF Alloc!Init, AllocInv, Alloc!Exclusive

\* It stays true of every step of the allocator and of every step that leaves it
\* alone.
LEMMA AllocStep ==
    ASSUME AllocInv, [Alloc!Next]_<<blocks, req>>
    PROVE  AllocInv'
  <1>1. ASSUME NEW q \in Requests, Alloc!Ask(q) PROVE AllocInv'
    BY <1>1 DEF Alloc!Ask, AllocInv, Alloc!Exclusive
  <1>2. CASE Alloc!Grant
    <2>1. PICK b \in Alloc!Candidates(req) : blocks' = blocks \union {b}
      BY <1>2 DEF Alloc!Grant
    <2>2. req \in Requests /\ req' = Alloc!NoRequest
      BY <1>2 DEF Alloc!Grant, AllocInv
    <2>3. /\ Alloc!Span(b) # {}
          /\ Alloc!Span(b) \subseteq Alloc!Space
          /\ \A c \in blocks : Alloc!Span(b) \intersect Alloc!Span(c) = {}
      BY <2>1, <2>2, CandidateFree
    <2>4. Alloc!Exclusive'
      BY <2>1, <2>3 DEF AllocInv, Alloc!Exclusive
    <2> QED BY <2>2, <2>4 DEF AllocInv
  <1>3. CASE Alloc!Refuse
    BY <1>3 DEF Alloc!Refuse, AllocInv, Alloc!Exclusive
  <1>4. ASSUME NEW b \in blocks, Alloc!Free(b) PROVE AllocInv'
    BY <1>4 DEF Alloc!Free, AllocInv, Alloc!Exclusive
  <1>5. CASE UNCHANGED <<blocks, req>>
    BY <1>5 DEF AllocInv, Alloc!Exclusive
  <1> QED BY <1>1, <1>2, <1>3, <1>4, <1>5 DEF Alloc!Next

\* A block just granted was not in use.
LEMMA NewBlock ==
    ASSUME AllocInv, Alloc!Grant
    PROVE  \E b : b \notin blocks /\ blocks' = blocks \union {b}
  <1>1. PICK b \in Alloc!Candidates(req) : blocks' = blocks \union {b}
    BY DEF Alloc!Grant
  <1>2. req \in Requests
    BY DEF AllocInv, Alloc!Grant
  <1>3. /\ Alloc!Span(b) # {}
        /\ \A c \in blocks : Alloc!Span(b) \intersect Alloc!Span(c) = {}
    BY <1>2, CandidateFree
  <1>4. b \notin blocks
    BY <1>3
  <1> QED BY <1>1, <1>4

\* Whoever calls it, the allocator of VmAlloc never has two blocks in use that
\* share an address, and all lie in the space it was given.
THEOREM AllocExclusive == Alloc!Spec => []Alloc!Exclusive
  <1>1. AllocInv => Alloc!Exclusive
    BY DEF AllocInv
  <1>2. AllocInv /\ [Alloc!Next]_(Alloc!vars) => AllocInv'
    BY AllocStep DEF Alloc!vars
  <1> QED BY AllocInit, <1>1, <1>2, PTL DEF Alloc!Spec

-----------------------------------------------------------------------------
(***************************************************************************)
(* The threads.                                                            *)
(***************************************************************************)
\* The inductive invariant.  That the arrays are disjoint needs that a block
\* just granted is new, which needs that blocks exclude each other.
ExitEmpty == \A t \in Threads : pc[t] = "exit" => array[t] = {}

IInv ==
    /\ TypeOK
    /\ Serialised
    /\ Owned
    /\ ExitEmpty
    /\ AllocInv

LEMMA IInvInit == Init => IInv
  <1> SUFFICES ASSUME Init PROVE IInv
    OBVIOUS
  <1>1. TypeOK
    BY LoopsAssumption DEF Init, TypeOK
  <1>2. Serialised
    BY ThreadsAssumption DEF Init, Serialised, Critical, Alloc!Init, Alloc!NoRequest
  <1>3. Owned
    BY DEF Init, Owned, Alloc!Init
  <1>4. AllocInv
    BY AllocInit DEF Init
  <1>5. ExitEmpty
    BY DEF Init, ExitEmpty
  <1> QED BY <1>1, <1>2, <1>3, <1>4, <1>5 DEF IInv

-----------------------------------------------------------------------------
\* A thread that moves on leaves the others' arrays alone.
LEMMA ExitEmptyStep ==
    ASSUME IInv, NEW t \in Threads, NEW to,
           pc' = [pc EXCEPT ![t] = to],
           \A u \in Threads : u # t => array'[u] = array[u],
           to = "exit" => array'[t] = {}
    PROVE  ExitEmpty'
  BY DEF IInv, TypeOK, ExitEmpty

\* A step that only moves one thread on, outside the allocator and without
\* taking or giving back the lock.
LEMMA QuietStep ==
    ASSUME IInv, NEW t \in Threads, NEW to \in {"top", "flush", "sigfpe", "exit"},
           pc[t] \notin Critical, pc' = [pc EXCEPT ![t] = to],
           to = "exit" => array[t] = {},
           UNCHANGED <<blocks, req, lock, array, loops>>
    PROVE  IInv'
  <1>1. TypeOK'
    BY DEF IInv, TypeOK
  <1>2. Serialised'
    <2>1. \A u \in Threads : pc'[u] \in Critical <=> pc[u] \in Critical
      BY DEF IInv, TypeOK, Critical
    <2>2. \A u \in Threads : pc'[u] = "calling" <=> pc[u] = "calling"
      BY DEF IInv, TypeOK, Critical
    <2> QED BY <2>1, <2>2 DEF IInv, Serialised
  <1>3. Owned'
    BY DEF IInv, Owned
  <1>4. AllocInv'
    BY AllocStep DEF IInv
  <1>5. ExitEmpty'
    BY ExitEmptyStep
  <1> QED BY <1>1, <1>2, <1>3, <1>4, <1>5 DEF IInv

\* A step that takes the lock and enters the critical section.
LEMMA LockStep ==
    ASSUME IInv, NEW t \in Threads, NEW to \in {"alloc", "free"},
           Lock(t), pc' = [pc EXCEPT ![t] = to],
           loops' \in [Threads -> 0 .. LOOPS]
    PROVE  IInv'
  <1>1. TypeOK'
    BY DEF IInv, TypeOK, Lock, Critical
  <1>2. Serialised'
    <2>1. \A u \in Threads : pc[u] \notin Critical
      BY ThreadsAssumption DEF IInv, Serialised, Lock
    <2>2. \A u \in Threads : pc'[u] \in Critical <=> lock' = u
      BY <2>1 DEF IInv, TypeOK, Critical, Lock
    <2>3. \A u \in Threads : pc'[u] # "calling" /\ pc[u] # "calling"
      BY <2>1 DEF IInv, TypeOK, Critical
    <2>4. UNCHANGED req
      BY DEF Lock
    <2> QED BY <2>2, <2>3, <2>4 DEF IInv, Serialised
  <1>3. Owned'
    BY DEF IInv, Owned, Lock
  <1>4. AllocInv'
    BY AllocStep DEF IInv, Lock
  <1>5. ExitEmpty'
    BY ExitEmptyStep DEF Lock
  <1> QED BY <1>1, <1>2, <1>3, <1>4, <1>5 DEF IInv

\* A step that leaves the critical section and gives the lock back.
LEMMA UnlockStep ==
    ASSUME IInv, NEW t \in Threads, NEW to \in {"top", "flush"},
           pc[t] \in {"unlock", "free"},
           Unlock(t), pc' = [pc EXCEPT ![t] = to], UNCHANGED loops
    PROVE  IInv'
  <1>1. TypeOK'
    BY DEF IInv, TypeOK, Unlock
  <1>2. Serialised'
    <2>1. lock = t
      BY DEF IInv, Serialised, Critical
    <2>2. \A u \in Threads : pc'[u] \notin Critical
      BY <2>1 DEF IInv, TypeOK, Serialised, Critical
    <2>3. \A u \in Threads : pc[u] # "calling"
      BY <2>1 DEF IInv, Serialised, Critical
    <2>4. \A u \in Threads : lock' # u
      BY ThreadsAssumption DEF Unlock
    <2>5. UNCHANGED req
      BY DEF Unlock
    <2>6. \A u \in Threads : pc'[u] # "calling"
      BY <2>2 DEF Critical
    <2> QED BY <2>2, <2>3, <2>4, <2>5, <2>6 DEF IInv, Serialised
  <1>3. Owned'
    BY DEF IInv, Owned, Unlock
  <1>4. AllocInv'
    BY AllocStep DEF IInv, Unlock
  <1>5. ExitEmpty'
    BY ExitEmptyStep DEF Unlock
  <1> QED BY <1>1, <1>2, <1>3, <1>4, <1>5 DEF IInv

\* A step inside the critical section.
LEMMA InsideStep ==
    ASSUME IInv, NEW t \in Threads, NEW to \in Critical,
           pc[t] \in Critical, pc' = [pc EXCEPT ![t] = to],
           UNCHANGED <<lock, loops>>, DOMAIN array' = Threads,
           req' # Alloc!NoRequest <=> to = "calling"
    PROVE  TypeOK' /\ Serialised'
  <1>1. TypeOK'
    BY DEF IInv, TypeOK
  <1>2. lock = t
    BY DEF IInv, Serialised
  <1>3. \A u \in Threads : pc'[u] \in Critical <=> lock' = u
    BY <1>2 DEF IInv, TypeOK, Serialised
  <1>4. \A u \in Threads : pc'[u] = "calling" <=> u = t /\ to = "calling"
    BY <1>2 DEF IInv, TypeOK, Serialised, Critical
  <1>5. req' # Alloc!NoRequest <=> \E u \in Threads : pc'[u] = "calling"
    BY <1>4
  <1> QED BY <1>1, <1>3, <1>5 DEF Serialised
-----------------------------------------------------------------------------
LEMMA StartedStep == IInv /\ Started => IInv'
  <1> SUFFICES ASSUME IInv, Started PROVE IInv'
    OBVIOUS
  <1>1. TypeOK'
    BY DEF IInv, TypeOK, Started
  <1>2. Serialised'
    <2>1. \A u \in Threads : lock # u /\ lock' # u
      BY ThreadsAssumption DEF Started
    <2> QED BY <2>1 DEF IInv, Serialised, Started
  <1>3. Owned'
    BY DEF IInv, Owned, Started
  <1>4. AllocInv'
    BY AllocStep DEF IInv, Started
  <1>5. ExitEmpty'
    BY DEF IInv, ExitEmpty, Started
  <1> QED BY <1>1, <1>2, <1>3, <1>4, <1>5 DEF IInv

LEMMA CallAllocStep ==
    ASSUME IInv, NEW t \in Threads, CallAlloc(t)
    PROVE  IInv'
  <1>1. PICK q \in Requests : Alloc!Ask(q)
    BY DEF CallAlloc
  <1>2. /\ pc[t] = "alloc" /\ pc' = [pc EXCEPT ![t] = "calling"]
        /\ UNCHANGED <<lock, array, loops>> /\ UNCHANGED blocks /\ req' = q
    BY <1>1 DEF CallAlloc, Goto, Alloc!Ask
  <1>3. q # Alloc!NoRequest
    BY SizeAssumption DEF Alloc!NoRequest
  <1>4. TypeOK' /\ Serialised'
    BY <1>2, <1>3, InsideStep DEF IInv, TypeOK, Critical
  <1>5. Owned'
    BY <1>2 DEF IInv, Owned
  <1>6. AllocInv'
    BY <1>1, AllocStep DEF IInv, Alloc!Next
  <1>7. ExitEmpty'
    BY <1>2, ExitEmptyStep
  <1> QED BY <1>4, <1>5, <1>6, <1>7 DEF IInv

LEMMA AllocatedStep ==
    ASSUME IInv, NEW t \in Threads, Allocated(t)
    PROVE  IInv'
  <1>1. /\ pc[t] = "calling" /\ pc' = [pc EXCEPT ![t] = "unlock"]
        /\ UNCHANGED <<lock, loops>> /\ Alloc!Grant
        /\ array' = [array EXCEPT ![t] = @ \union (blocks' \ blocks)]
    BY DEF Allocated, Goto
  <1>2. req' = Alloc!NoRequest
    BY <1>1 DEF Alloc!Grant
  <1>3. TypeOK' /\ Serialised'
    BY <1>1, <1>2, InsideStep DEF IInv, TypeOK, Critical
  <1>4. PICK b : b \notin blocks /\ blocks' = blocks \union {b}
    BY <1>1, NewBlock DEF IInv
  <1>5. Owned'
    <2>1. DOMAIN array = Threads
      BY DEF IInv, TypeOK
    <2>2. array'[t] = array[t] \union {b}
      BY <1>1, <1>4, <2>1
    <2>3. \A u \in Threads : u # t => array'[u] = array[u]
      BY <1>1, <2>1
    <2>4. \A u \in Threads : b \notin array[u]
      BY <1>4 DEF IInv, Owned
    <2>5. blocks' = UNION {array'[u] : u \in Threads}
      BY <1>4, <2>2, <2>3 DEF IInv, Owned
    <2>6. \A u, v \in Threads : u # v => array'[u] \intersect array'[v] = {}
      BY <2>2, <2>3, <2>4 DEF IInv, Owned
    <2> QED BY <2>5, <2>6 DEF Owned
  <1>6. AllocInv'
    BY <1>1, AllocStep DEF IInv, Alloc!Next
  <1>7. ExitEmpty'
    BY <1>1, ExitEmptyStep DEF IInv, TypeOK
  <1> QED BY <1>3, <1>5, <1>6, <1>7 DEF IInv

LEMMA NotAllocatedStep ==
    ASSUME IInv, NEW t \in Threads, NotAllocated(t)
    PROVE  IInv'
  <1>1. /\ pc[t] = "calling" /\ pc' = [pc EXCEPT ![t] = "unlock"]
        /\ UNCHANGED <<lock, array, loops>> /\ Alloc!Refuse
        /\ req' = Alloc!NoRequest /\ UNCHANGED blocks
    BY DEF NotAllocated, Goto, Alloc!Refuse
  <1>2. TypeOK' /\ Serialised'
    BY <1>1, InsideStep DEF IInv, TypeOK, Critical
  <1>3. Owned'
    BY <1>1 DEF IInv, Owned
  <1>4. AllocInv'
    BY <1>1, AllocStep DEF IInv, Alloc!Next
  <1>5. ExitEmpty'
    BY <1>1, ExitEmptyStep
  <1> QED BY <1>2, <1>3, <1>4, <1>5 DEF IInv

LEMMA FreeOneStep ==
    ASSUME IInv, NEW t \in Threads, FreeOne(t)
    PROVE  IInv'
  <1>1. PICK b \in array[t] : /\ Alloc!Free(b)
                              /\ array' = [array EXCEPT ![t] = @ \ {b}]
    BY DEF FreeOne
  <1>2. /\ pc[t] = "free" /\ pc' = [pc EXCEPT ![t] = "free"]
        /\ UNCHANGED <<lock, loops>>
        /\ blocks' = blocks \ {b} /\ UNCHANGED req
        /\ req = Alloc!NoRequest
    BY <1>1 DEF FreeOne, Goto, Alloc!Free
  <1>3. TypeOK' /\ Serialised'
    BY <1>1, <1>2, InsideStep DEF IInv, TypeOK, Critical
  <1>4. Owned'
    <2>1. DOMAIN array = Threads
      BY DEF IInv, TypeOK
    <2>2. array'[t] = array[t] \ {b}
      BY <1>1, <2>1
    <2>3. \A u \in Threads : u # t => array'[u] = array[u]
      BY <1>1, <2>1
    <2>4. \A u \in Threads : u # t => b \notin array[u]
      BY <1>1 DEF IInv, Owned
    <2>5. blocks' = UNION {array'[u] : u \in Threads}
      BY <1>2, <2>2, <2>3, <2>4 DEF IInv, Owned
    <2>6. \A u, v \in Threads : u # v => array'[u] \intersect array'[v] = {}
      BY <2>2, <2>3 DEF IInv, Owned
    <2> QED BY <2>5, <2>6 DEF Owned
  <1>5. AllocInv'
    <2>1. b \in blocks
      BY <1>1 DEF IInv, Owned
    <2> QED BY <1>1, <2>1, AllocStep DEF IInv, Alloc!Next
  <1>6. ExitEmpty'
    BY <1>1, <1>2, ExitEmptyStep DEF IInv, TypeOK
  <1> QED BY <1>3, <1>4, <1>5, <1>6 DEF IInv

LEMMA ThreadStep ==
    ASSUME IInv, NEW t \in Threads, Thread(t)
    PROVE  IInv'
  <1> USE DEF Goto, Critical
  <1>1. CASE LockAlloc(t)
    <2>1. loops' \in [Threads -> 0 .. LOOPS]
      BY <1>1, LoopsAssumption DEF LockAlloc, IInv, TypeOK
    <2> QED BY <1>1, <2>1, LockStep DEF LockAlloc
  <1>2. CASE CallAlloc(t)
    BY <1>2, CallAllocStep
  <1>3. CASE Allocated(t)
    BY <1>3, AllocatedStep
  <1>4. CASE NotAllocated(t)
    BY <1>4, NotAllocatedStep
  <1>5. CASE UnlockAlloc(t)
    BY <1>5, UnlockStep DEF UnlockAlloc
  <1>6. CASE NoFlush(t)
    BY <1>6, QuietStep DEF NoFlush
  <1>7. CASE Crash(t)
    BY <1>7, QuietStep DEF Crash
  <1>8. CASE LockFlush(t)
    BY <1>8, LockStep DEF LockFlush, IInv, TypeOK
  <1>9. CASE LockLast(t)
    BY <1>9, LockStep DEF LockLast, IInv, TypeOK
  <1>10. CASE FreeOne(t)
    BY <1>10, FreeOneStep
  <1>11. CASE UnlockFlush(t)
    BY <1>11, UnlockStep DEF UnlockFlush
  <1>12. CASE Exit(t)
    BY <1>12, QuietStep DEF Exit
  <1> QED BY <1>1, <1>2, <1>3, <1>4, <1>5, <1>6, <1>7, <1>8, <1>9, <1>10,
             <1>11, <1>12 DEF Thread

LEMMA StutterStep == IInv /\ UNCHANGED vars => IInv'
  <1> SUFFICES ASSUME IInv, UNCHANGED vars PROVE IInv'
    OBVIOUS
  <1>1. AllocInv'
    BY AllocStep DEF IInv, vars
  <1> QED BY <1>1 DEF IInv, TypeOK, Serialised, Owned, ExitEmpty, vars

-----------------------------------------------------------------------------
\* The inductive invariant holds of every execution.
THEOREM Inductive == Spec => []IInv
  <1>1. IInv /\ [Next]_vars => IInv'
    BY StartedStep, ThreadStep, StutterStep DEF Next
  <1> QED BY IInvInit, <1>1, PTL DEF Spec

\* Only the holder of the lock is inside the allocator, and one call runs at a
\* time, for every number of threads.
THEOREM CallsSerialised == Spec => []Serialised
  <1>1. IInv => Serialised
    BY DEF IInv
  <1> QED BY Inductive, <1>1, PTL

\* Every block in use is in the array of exactly one thread, for every number
\* of threads, array size and space.
THEOREM BlocksOwned == Spec => []Owned
  <1>1. IInv => Owned
    BY DEF IInv
  <1> QED BY Inductive, <1>1, PTL

\* When all threads are gone the allocator has every block back.
THEOREM EverythingReturned == Spec => []AllReturned
  <1>1. IInv => AllReturned
    <2> SUFFICES ASSUME IInv, \A t \in Threads : pc[t] = "exit" PROVE blocks = {}
      BY DEF AllReturned
    <2> QED BY DEF IInv, Owned, ExitEmpty
  <1> QED BY Inductive, <1>1, PTL

-----------------------------------------------------------------------------
(***************************************************************************)
(* The array of deferred frees does not overflow.  ArrayFits is preserved  *)
(* because there is room for one more wherever an allocation may come:     *)
(* only a thread whose array is not full leaves the flush without it.      *)
(***************************************************************************)
Filling == {"top", "alloc", "calling"}

Room(t) ==
    /\ IsFiniteSet(array[t])
    /\ Cardinality(array[t]) <= MAX_DEFER_FREE
    /\ pc[t] \in Filling => Cardinality(array[t]) < MAX_DEFER_FREE

RoomInv == \A t \in Threads : Room(t)

LEMMA RoomInit == Init => RoomInv
  BY FS_EmptySet, DeferAssumption DEF Init, RoomInv, Room

\* A step of a thread that adds no block, and keeps out of Filling, or comes
\* from there, or has an array that is not full.
LEMMA RoomKept ==
    ASSUME IInv, RoomInv, NEW t \in Threads, NEW to,
           pc' = [pc EXCEPT ![t] = to],
           array'[t] \subseteq array[t],
           \A u \in Threads : u # t => array'[u] = array[u],
           \/ to \notin Filling
           \/ pc[t] \in Filling
           \/ Cardinality(array'[t]) # MAX_DEFER_FREE
    PROVE  RoomInv'
  <1>1. \A u \in Threads : u # t => Room(u)'
    BY DEF IInv, TypeOK, RoomInv, Room
  <1>2. pc'[t] = to
    BY DEF IInv, TypeOK
  <1>3. /\ IsFiniteSet(array[t])
        /\ Cardinality(array[t]) <= MAX_DEFER_FREE
        /\ pc[t] \in Filling => Cardinality(array[t]) < MAX_DEFER_FREE
    BY DEF RoomInv, Room
  <1>4. /\ IsFiniteSet(array'[t])
        /\ Cardinality(array'[t]) <= Cardinality(array[t])
    BY <1>3, FS_Subset
  <1>5. Cardinality(array[t]) \in Nat /\ Cardinality(array'[t]) \in Nat
    BY <1>3, <1>4, FS_CardinalityType
  <1>6. Room(t)'
    BY <1>2, <1>3, <1>4, <1>5, DeferAssumption DEF Room
  <1> QED BY <1>1, <1>6 DEF RoomInv

LEMMA RoomAllocated ==
    ASSUME IInv, RoomInv, NEW t \in Threads, Allocated(t)
    PROVE  RoomInv'
  <1>1. /\ pc[t] = "calling" /\ pc' = [pc EXCEPT ![t] = "unlock"]
        /\ Alloc!Grant
        /\ array' = [array EXCEPT ![t] = @ \union (blocks' \ blocks)]
    BY DEF Allocated, Goto
  <1>2. PICK b : b \notin blocks /\ blocks' = blocks \union {b}
    BY <1>1, NewBlock DEF IInv
  <1>3. /\ array'[t] = array[t] \union {b} /\ pc'[t] = "unlock"
        /\ \A u \in Threads : u # t => array'[u] = array[u] /\ pc'[u] = pc[u]
    BY <1>1, <1>2 DEF IInv, TypeOK
  <1>4. b \notin array[t]
    BY <1>2 DEF IInv, Owned
  <1>5. IsFiniteSet(array[t]) /\ Cardinality(array[t]) < MAX_DEFER_FREE
    BY <1>1 DEF RoomInv, Room, Filling
  <1>6. /\ IsFiniteSet(array'[t])
        /\ Cardinality(array'[t]) = Cardinality(array[t]) + 1
    BY <1>3, <1>4, <1>5, FS_AddElement
  <1>7. Cardinality(array'[t]) <= MAX_DEFER_FREE
    BY <1>5, <1>6, FS_CardinalityType, DeferAssumption
  <1>8. Room(t)'
    BY <1>3, <1>6, <1>7 DEF Room, Filling
  <1>9. \A u \in Threads : u # t => Room(u)'
    BY <1>3 DEF RoomInv, Room
  <1> QED BY <1>8, <1>9 DEF RoomInv

LEMMA RoomThread ==
    ASSUME IInv, RoomInv, NEW t \in Threads, Thread(t)
    PROVE  RoomInv'
  <1> USE DEF Goto, Filling
  <1>0. DOMAIN array = Threads
    BY DEF IInv, TypeOK
  <1>1. CASE LockAlloc(t)
    BY <1>1, RoomKept DEF LockAlloc, Lock
  <1>2. CASE CallAlloc(t)
    BY <1>2, RoomKept DEF CallAlloc
  <1>3. CASE Allocated(t)
    BY <1>3, RoomAllocated
  <1>4. CASE NotAllocated(t)
    BY <1>4, RoomKept DEF NotAllocated
  <1>5. CASE UnlockAlloc(t)
    BY <1>5, RoomKept DEF UnlockAlloc, Unlock
  <1>6. CASE NoFlush(t)
    BY <1>6, RoomKept DEF NoFlush
  <1>7. CASE Crash(t)
    BY <1>7, RoomKept DEF Crash
  <1>8. CASE LockFlush(t)
    BY <1>8, RoomKept DEF LockFlush, Lock
  <1>9. CASE LockLast(t)
    BY <1>9, RoomKept DEF LockLast, Lock
  <1>10. CASE FreeOne(t)
    <2>1. PICK b \in array[t] : array' = [array EXCEPT ![t] = @ \ {b}]
      BY <1>10 DEF FreeOne
    <2> QED BY <1>0, <1>10, <2>1, RoomKept DEF FreeOne
  <1>11. CASE UnlockFlush(t)
    <2>1. Cardinality(array[t]) # MAX_DEFER_FREE
      BY <1>11, FS_EmptySet, DeferAssumption DEF UnlockFlush
    <2> QED BY <1>11, <2>1, RoomKept DEF UnlockFlush, Unlock
  <1>12. CASE Exit(t)
    BY <1>12, RoomKept DEF Exit
  <1> QED BY <1>1, <1>2, <1>3, <1>4, <1>5, <1>6, <1>7, <1>8, <1>9, <1>10,
             <1>11, <1>12 DEF Thread

\* The array never holds more than calloc() made room for, for every number of
\* threads and rounds, array size and set of requests.
THEOREM DeferredFit == Spec => []ArrayFits
  <1>1. IInv /\ RoomInv /\ [Next]_vars => RoomInv'
    <2> SUFFICES ASSUME IInv, RoomInv, [Next]_vars PROVE RoomInv'
      OBVIOUS
    <2>1. CASE Started
      BY <2>1 DEF Started, RoomInv, Room
    <2>2. CASE \E t \in Threads : Thread(t)
      BY <2>2, RoomThread
    <2>3. CASE UNCHANGED vars
      BY <2>3 DEF vars, RoomInv, Room
    <2> QED BY <2>1, <2>2, <2>3 DEF Next
  <1>2. RoomInv => ArrayFits
    BY DEF RoomInv, Room, ArrayFits
  <1> QED BY Inductive, RoomInit, <1>1, <1>2, PTL DEF Spec

-----------------------------------------------------------------------------
(***************************************************************************)
(* The nodes: splits and merges keep the number of entries of a node       *)
(* within its bounds, so the descents that split and merge early never run *)
(* into a BUG_ON() for want of room.                                       *)
(***************************************************************************)
\* How the bounds on entries relate to each other.
LEMMA Bounds ==
    /\ MAX_ENTRIES \in Nat /\ MIN_ENTRIES_EXTER \in Nat /\ MIN_ENTRIES_INTER \in Nat
    /\ LeftEntries \in Nat
    /\ 1 <= MIN_ENTRIES_EXTER /\ MIN_ENTRIES_EXTER < MAX_ENTRIES
    /\ 1 <= MIN_ENTRIES_INTER /\ MIN_ENTRIES_INTER < MAX_ENTRIES
    /\ LeftEntries = MIN_ENTRIES_EXTER
    /\ MIN_ENTRIES_INTER <= LeftEntries
    /\ 2 * MIN_ENTRIES_EXTER <= MAX_ENTRIES
    /\ 2 * MIN_ENTRIES_INTER + 1 <= MAX_ENTRIES
    /\ MIN_ENTRIES_INTER <= MAX_ENTRIES - LeftEntries - 1
  <1>1. ORDER \in Int /\ ORDER >= 4
    BY OrderAssumption
  <1>2. PICK k \in Int : ORDER = 2 * k \/ ORDER = 2 * k + 1
    <2>1. ORDER = 2 * (ORDER \div 2) + (ORDER % 2) /\ ORDER % 2 \in 0 .. 1
      BY <1>1
    <2>2. ORDER \div 2 \in Int
      BY <1>1
    <2> QED BY <2>1, <2>2
  <1> QED BY <1>1, <1>2 DEF MAX_ENTRIES, MIN_ENTRIES_EXTER, MIN_ENTRIES_INTER,
             MIN_CHILDREN, LeftEntries, split

\* A node as it is just before bpn_split().
FullLeaf(n) ==
    /\ n.type = "exter"
    /\ n \in [type : {"exter"}, parent : Nat, ppos : Nat,
              slot : Seq(VA), suba : {<<>>}, subl : {<<>>}]
    /\ IsFull(n)

FullInter(n) ==
    /\ n \in [type : {"inter"}, parent : Nat, ppos : Nat,
              slot : Seq(Addr), suba : Seq(Addr), subl : Seq(Nodes)]
    /\ IsFull(n)
    /\ Len(n.subl) = MAX_CHILDREN /\ Len(n.suba) = MAX_CHILDREN

\* bpn_split_external(): both halves of a full leaf have at least the minimum,
\* both have room for one more, and no area is lost or doubled.
THEOREM SplitLeafSizes ==
    ASSUME NEW n, FullLeaf(n)
    PROVE  /\ Entries(SplitLeft(n)) \in MIN_ENTRIES_EXTER .. MAX_ENTRIES - 1
           /\ Entries(SplitRight(n)) \in MIN_ENTRIES_EXTER .. MAX_ENTRIES - 1
           /\ SplitLeft(n).slot \o SplitRight(n).slot = n.slot
  <1>1. /\ n.slot \in Seq(VA) /\ Len(n.slot) = MAX_ENTRIES
        /\ ~IsInternal(n)
    BY DEF FullLeaf, IsFull, Entries, IsInternal
  <1>2. /\ SplitLeft(n).slot = SubSeq(n.slot, 1, LeftEntries)
        /\ SplitRight(n).slot = SubSeq(n.slot, LeftEntries + 1, MAX_ENTRIES)
    BY <1>1 DEF SplitLeft, SplitRight, bpn_calloc_init, FullLeaf
  <1>3. /\ Len(SplitLeft(n).slot) = LeftEntries
        /\ Len(SplitRight(n).slot) = MAX_ENTRIES - LeftEntries
    BY <1>1, <1>2, Bounds
  <1>4. SplitLeft(n).slot \o SplitRight(n).slot = n.slot
    BY <1>1, <1>2, Bounds
  <1> QED BY <1>3, <1>4, Bounds DEF Entries

\* bpn_split_internal(): the same for a full internal node, whose middle
\* separator goes up; the children stay in order, one more than separators.
THEOREM SplitInterSizes ==
    ASSUME NEW n, FullInter(n)
    PROVE  /\ Entries(SplitLeft(n)) \in MIN_ENTRIES_INTER .. MAX_ENTRIES - 1
           /\ Entries(SplitRight(n)) \in MIN_ENTRIES_INTER .. MAX_ENTRIES - 1
           /\ Len(SplitLeft(n).subl) = Entries(SplitLeft(n)) + 1
           /\ Len(SplitRight(n).subl) = Entries(SplitRight(n)) + 1
           /\ SplitLeft(n).slot \o <<Key(n, LeftEntries)>> \o SplitRight(n).slot
                = n.slot
           /\ SplitLeft(n).subl \o SplitRight(n).subl = n.subl
  <1>1. /\ n.slot \in Seq(Addr) /\ Len(n.slot) = MAX_ENTRIES
        /\ n.subl \in Seq(Nodes) /\ Len(n.subl) = MAX_ENTRIES + 1
        /\ IsInternal(n) /\ ~IsExternal(n)
    BY OrderAssumption DEF FullInter, IsFull, Entries, IsInternal, IsExternal,
       MAX_CHILDREN, MAX_ENTRIES
  <1>2. /\ SplitLeft(n).slot = SubSeq(n.slot, 1, LeftEntries)
        /\ SplitLeft(n).subl = SubSeq(n.subl, 1, LeftEntries + 1)
    BY <1>1 DEF SplitLeft, FullInter
  <1>3. /\ SplitRight(n).slot = SubSeq(n.slot, LeftEntries + 2, MAX_ENTRIES)
        /\ SplitRight(n).subl = SubSeq(n.subl, LeftEntries + 2, MAX_CHILDREN)
    BY <1>1 DEF SplitRight, bpn_calloc_init
  <1>4. MAX_CHILDREN = MAX_ENTRIES + 1
    BY OrderAssumption DEF MAX_CHILDREN, MAX_ENTRIES
  <1>5. /\ Len(SplitLeft(n).slot) = LeftEntries
        /\ Len(SplitLeft(n).subl) = LeftEntries + 1
        /\ Len(SplitRight(n).slot) = MAX_ENTRIES - LeftEntries - 1
        /\ Len(SplitRight(n).subl) = MAX_ENTRIES - LeftEntries
    BY <1>1, <1>2, <1>3, <1>4, Bounds
  <1>6. SplitLeft(n).slot \o <<Key(n, LeftEntries)>> \o SplitRight(n).slot = n.slot
    BY <1>1, <1>2, <1>3, Bounds DEF Key
  <1>7. SplitLeft(n).subl \o SplitRight(n).subl = n.subl
    BY <1>1, <1>2, <1>3, <1>4, Bounds
  <1>8. /\ Len(SplitLeft(n).slot) \in MIN_ENTRIES_INTER .. MAX_ENTRIES - 1
        /\ Len(SplitRight(n).slot) \in MIN_ENTRIES_INTER .. MAX_ENTRIES - 1
        /\ Len(SplitLeft(n).subl) = Len(SplitLeft(n).slot) + 1
        /\ Len(SplitRight(n).subl) = Len(SplitRight(n).slot) + 1
    BY <1>5, Bounds
  <1> QED BY <1>6, <1>7, <1>8 DEF Entries

-----------------------------------------------------------------------------
\* bpt_po_delete() merges a child that is not above its minimum with a sibling
\* only when nothing could be shifted.  Then both fit into one node together
\* with the separator that comes down, and the BUG_ON of bpn_merge_siblings()
\* is never met.
THEOREM MergeFits ==
    ASSUME NEW p, NEW pos, NEW child, NEW sibling,
           p.slot \in Seq(Addr), Entries(p) >= 1,
           pos \in 0 .. Entries(p),
           Entries(child) \in Nat, Entries(sibling) \in Nat,
           child.type \in {"inter", "exter"}, sibling.type = child.type,
           ~IsGtMin(child), ~CanShift(p, pos, child, sibling)
    PROVE  Entries(child) + Entries(sibling)
              + (IF IsInternal(child) THEN 1 ELSE 0) <= MAX_ENTRIES
  <1>1. Entries(p) \in Nat
    BY DEF Entries
  <1>2. SepPos(p, pos) \in 0 .. Entries(p) - 1
    BY <1>1 DEF SepPos
  <1>3. MinEntries(sibling) = MinEntries(child)
    BY DEF MinEntries, IsInternal
  <1>4. MinEntries(child) \in Nat /\ MinEntries(child) < MAX_ENTRIES
    BY Bounds DEF MinEntries
  <1>5. Entries(child) <= MinEntries(child)
    BY <1>4 DEF IsGtMin
  <1>6. ~IsFull(child)
    BY <1>4, <1>5, Bounds DEF IsFull
  <1>7. Entries(sibling) <= MinEntries(child)
    BY <1>2, <1>3, <1>4, <1>6 DEF CanShift, IsGtMin
  <1>8. CASE IsInternal(child)
    BY <1>5, <1>7, <1>8, Bounds DEF MinEntries
  <1>9. CASE ~IsInternal(child)
    BY <1>5, <1>7, <1>9, Bounds DEF MinEntries
  <1> QED BY <1>8, <1>9
=============================================================================
