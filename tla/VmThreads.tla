------------------------------ MODULE VmThreads ------------------------------
(***************************************************************************)
(* thread_job() of vm/test.c: threads that share one allocator under a     *)
(* spin lock.  Each allocates LOOPS times, keeps what it got in an array,  *)
(* and frees the whole array under the lock now and then, in an order a    *)
(* shuffle makes arbitrary, so that the array is a set here.  The          *)
(* allocator is the abstract one, which VmTree implements.                 *)
(***************************************************************************)
EXTENDS VmPage, Integers, FiniteSets

CONSTANTS Threads,
          LOOPS,            \* allocations a thread makes
          MAX_DEFER_FREE,   \* capacity of the array
          VSTART, VEND, Requests

ASSUME LoopsAssumption == LOOPS \in Nat
ASSUME DeferAssumption == MAX_DEFER_FREE \in Nat \ {0}

ASSUME SpaceAssumption == VSTART \in Nat /\ VEND \in Nat /\ VSTART < VEND
ASSUME SizeAssumption == \A q \in Requests : q.size \in Nat \ {0}

\* The values of the lock besides the thread that holds it.
Free == "free"
Main == "main"

ASSUME ThreadsAssumption == Free \notin Threads /\ Main \notin Threads

VARIABLES blocks, req,  \* the allocator
          lock,         \* free_area_lock
          pc,           \* where each thread is
          array,        \* the blocks each thread holds
          loops         \* allocations each thread has made

vars == <<blocks, req, lock, pc, array, loops>>

Alloc == INSTANCE VmAlloc

\* A division by zero, on alloc_nsec / j with an empty array, ends the process.
Alive == \A t \in Threads : pc[t] # "sigfpe"

Goto(t, from, to) ==
    /\ Alive
    /\ pc[t] = from
    /\ pc' = [pc EXCEPT ![t] = to]

\* test_alloc_free(): main holds the lock until all threads are created.
Init ==
    /\ Alloc!Init
    /\ lock = Main
    /\ pc = [t \in Threads |-> "top"]
    /\ array = [t \in Threads |-> {}]
    /\ loops = [t \in Threads |-> 0]

Started ==
    /\ lock = Main
    /\ lock' = Free
    /\ UNCHANGED <<blocks, req, pc, array, loops>>

\* Mutant of Lock: it does not wait.
LockNoWait(t) ==
    /\ lock # Main
    /\ lock' = t
    /\ UNCHANGED <<blocks, req, array>>

Lock(t) ==
    /\ lock = Free
    /\ lock' = t
    /\ UNCHANGED <<blocks, req, array>>

Unlock(t) ==
    /\ lock' = Free
    /\ UNCHANGED <<blocks, req, array>>

-----------------------------------------------------------------------------
(* One round of the inner loop: allocate under the lock, ...               *)
\* Mutant of LockAlloc: the round is not counted.
LockAllocUncounted(t) ==
    /\ loops[t] < LOOPS
    /\ Goto(t, "top", "alloc")
    /\ Lock(t)
    /\ UNCHANGED loops

LockAlloc(t) ==
    /\ loops[t] < LOOPS
    /\ Goto(t, "top", "alloc")
    /\ Lock(t)
    /\ loops' = [loops EXCEPT ![t] = @ + 1]

CallAlloc(t) ==
    /\ Goto(t, "alloc", "calling")
    /\ \E q \in Requests : Alloc!Ask(q)
    /\ UNCHANGED <<lock, array, loops>>

Allocated(t) ==
    /\ Goto(t, "calling", "unlock")
    /\ Alloc!Grant
    /\ array' = [array EXCEPT ![t] = @ \union (blocks' \ blocks)]
    /\ UNCHANGED <<lock, loops>>

NotAllocated(t) ==
    /\ Goto(t, "calling", "unlock")
    /\ Alloc!Refuse
    /\ UNCHANGED <<lock, array, loops>>

UnlockAlloc(t) ==
    /\ Goto(t, "unlock", "flush")
    /\ Unlock(t)
    /\ UNCHANGED loops

(* ... then flush if the random mask says so or the array is full.         *)
\* Mutant of NoFlush: a full array is not flushed.
NoFlushFull(t) ==
    /\ Goto(t, "flush", "top")
    /\ UNCHANGED <<blocks, req, lock, array, loops>>

NoFlush(t) ==
    /\ Cardinality(array[t]) # MAX_DEFER_FREE
    /\ Goto(t, "flush", "top")
    /\ UNCHANGED <<blocks, req, lock, array, loops>>

Crash(t) ==
    /\ array[t] = {}
    /\ Goto(t, "flush", "sigfpe")
    /\ UNCHANGED <<blocks, req, lock, array, loops>>

LockFlush(t) ==
    /\ array[t] # {}
    /\ Goto(t, "flush", "free")
    /\ Lock(t)
    /\ UNCHANGED loops

\* After the last round what is left is freed as well.
LockLast(t) ==
    /\ loops[t] = LOOPS
    /\ array[t] # {}
    /\ Goto(t, "top", "free")
    /\ Lock(t)
    /\ UNCHANGED loops

\* Mutant of FreeOne: the block stays in the array.
FreeOneKept(t) ==
    /\ Goto(t, "free", "free")
    /\ \E b \in array[t] : Alloc!Free(b)
    /\ UNCHANGED <<lock, array, loops>>

FreeOne(t) ==
    /\ Goto(t, "free", "free")
    /\ \E b \in array[t] :
          /\ Alloc!Free(b)
          /\ array' = [array EXCEPT ![t] = @ \ {b}]
    /\ UNCHANGED <<lock, loops>>

UnlockFlush(t) ==
    /\ array[t] = {}
    /\ Goto(t, "free", "top")
    /\ Unlock(t)
    /\ UNCHANGED loops

\* Mutant of Exit: what is left in the array is forgotten.
ExitHolding(t) ==
    /\ loops[t] = LOOPS
    /\ Goto(t, "top", "exit")
    /\ UNCHANGED <<blocks, req, lock, array, loops>>

Exit(t) ==
    /\ loops[t] = LOOPS
    /\ array[t] = {}
    /\ Goto(t, "top", "exit")
    /\ UNCHANGED <<blocks, req, lock, array, loops>>

Thread(t) ==
    \/ LockAlloc(t) \/ CallAlloc(t) \/ Allocated(t) \/ NotAllocated(t)
    \/ UnlockAlloc(t)
    \/ NoFlush(t) \/ Crash(t)
    \/ LockFlush(t) \/ LockLast(t) \/ FreeOne(t) \/ UnlockFlush(t)
    \/ Exit(t)

\* pthread_join(): all threads are gone, or the process is.
Ended == ~Alive \/ \A t \in Threads : pc[t] = "exit"

Next ==
    \/ Started
    \/ \E t \in Threads : Thread(t)
    \/ Ended /\ UNCHANGED vars

\* Every thread is scheduled again and again; the lock itself is not fair.
Spec ==
    /\ Init /\ [][Next]_vars
    /\ WF_vars(Started) /\ \A t \in Threads : WF_vars(Thread(t))

-----------------------------------------------------------------------------
(***************************************************************************)
(* Properties.                                                             *)
(***************************************************************************)
\* Where a thread holds the lock.
Critical == {"alloc", "calling", "unlock", "free"}

TypeOK ==
    /\ lock \in Threads \union {Free, Main}
    /\ pc \in [Threads -> Critical \union {"top", "flush", "sigfpe", "exit"}]
    /\ DOMAIN array = Threads
    /\ loops \in [Threads -> 0 .. LOOPS]

\* Only the holder of the lock is inside the allocator, and nobody calls it
\* while another call is going on: VmTree runs one call at a time because of
\* this.
Serialised ==
    /\ \A t \in Threads : pc[t] \in Critical <=> lock = t
    /\ req # Alloc!NoRequest <=> \E t \in Threads : pc[t] = "calling"

\* Every block in use is in the array of exactly one thread: none is leaked by
\* a flush, none can be freed twice, none is freed by a thread that does not
\* hold it.
Owned ==
    /\ blocks = UNION {array[t] : t \in Threads}
    /\ \A t, u \in Threads : t # u => array[t] \intersect array[u] = {}

\* The array never holds more than calloc() made room for.
ArrayFits == \A t \in Threads : Cardinality(array[t]) <= MAX_DEFER_FREE

\* When all threads are gone the allocator has everything back.
AllReturned == (\A t \in Threads : pc[t] = "exit") => blocks = {}

\* main's pthread_join() returns, or the process dies of a division by zero,
\* which counts as an end: this says that nothing hangs, not that nothing crashes.
Ends == <>Ended
=============================================================================
