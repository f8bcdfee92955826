------------------------------ MODULE MemCache ------------------------------
(***************************************************************************)
(* The memory cache of src/src/mem/cache.c: named namespaces, each with a  *)
(* table of the blocks it has to free, and the pointers its callers hold.  *)
(* The C heap under it (malloc, realloc, free and the GLib containers) is  *)
(* external: it hands out any unused address, the one of a freed block     *)
(* too, and may fail.                                                      *)
(*                                                                         *)
(* A block table is a GArray searched linearly for a pointer; it is a set  *)
(* here because the order only matters for two blocks with one address,    *)
(* which EveryBlockTrackedOnce excludes.  Byte counts are left out.        *)
(***************************************************************************)
EXTENDS Naturals, FiniteSets

CONSTANTS
  Namespace,   \* the names of src/src/mem/cache.h:14-23
  Addr,        \* heap addresses
  Ref,         \* variables of the callers that hold a pointer
  NoAddr,      \* NULL
  MaxAllocs,   \* bound: allocations in a behaviour
  MaxCount     \* bound: reallocations and failures a namespace counts

ASSUME NoAddrAssumption == NoAddr \notin Addr
ASSUME BoundsAssumption == MaxAllocs \in Nat /\ MaxCount \in Nat

VARIABLES
  phase,       \* the process: "running", then "cleanup" (the atexit handler)
               \* and "done", or "crashed"
  nsState,     \* namespace -> "absent", "present" or "deleted"
  blocks,      \* namespace -> its set of MemoryBlock
  statistic,   \* namespace -> its MemoryNamespaceStatistic
  heap,        \* address -> the object that lives there, or Free
  allocated,   \* number of objects allocated so far, which numbers them
  faults,      \* what the cache has done to the heap that free() forbids
  refs         \* caller variable -> pointer and the object it stood for

vars == <<phase, nsState, blocks, statistic, heap, allocated, faults, refs>>

Kind      == {"GenericBlock", "GLIB_Array", "GLIB_HashTable"}
Free      == [id |-> 0, kind |-> "none"]
Null      == [ptr |-> NoAddr, id |-> 0]
Block     == [ptr : Addr, kind : Kind]
Statistic == [allocation_count : Nat, reallocation_count : Nat,
              manual_free_count : Nat, faulty_reallocations : Nat,
              faulty_allocations : Nat, purged_free_count : Nat]
NoStatistic == [allocation_count |-> 0, reallocation_count |-> 0,
                manual_free_count |-> 0, faulty_reallocations |-> 0,
                faulty_allocations |-> 0, purged_free_count |-> 0]

TypeOK ==
  /\ phase \in {"running", "cleanup", "done", "crashed"}
  /\ nsState \in [Namespace -> {"absent", "present", "deleted"}]
  /\ blocks \in [Namespace -> SUBSET Block]
  /\ statistic \in [Namespace -> Statistic]
  /\ heap \in [Addr -> [id : Nat, kind : Kind \cup {"none"}]]
  /\ allocated \in 0 .. MaxAllocs
  /\ faults \in SUBSET {"double_free", "wrong_destructor"}
  /\ refs \in [Ref -> [ptr : Addr \cup {NoAddr}, id : Nat]]

Init ==
  /\ phase = "running"
  /\ nsState = [ns \in Namespace |-> "absent"]
  /\ blocks = [ns \in Namespace |-> {}]
  /\ statistic = [ns \in Namespace |-> NoStatistic]
  /\ heap = [a \in Addr |-> Free]
  /\ allocated = 0
  /\ faults = {}
  /\ refs = [r \in Ref |-> Null]

-----------------------------------------------------------------------------
(* Internal operations.                                                    *)

\* The first use of a name creates its namespace, whatever the use is.
CheckNamespace(ns) == nsState' = [nsState EXCEPT ![ns] = "present"]

Find(ns, ptr) == {b \in blocks[ns] : b.ptr = ptr}

\* What happens to the heap when namespace_free_block runs on the blocks bs:
\* the destructor of the block's kind is called on its address.
FreeBlocks(bs) ==
  /\ heap' = [a \in Addr |-> IF \E b \in bs : b.ptr = a THEN Free ELSE heap[a]]
  /\ faults' = faults
       \cup (IF \E b \in bs : heap[b.ptr] = Free THEN {"double_free"} ELSE {})
       \cup (IF \E b \in bs : heap[b.ptr] # Free /\ heap[b.ptr].kind # b.kind
               THEN {"wrong_destructor"} ELSE {})

\* Mutant of NamespaceFree: the block is not counted.
NamespaceFreeUncounted(ns, b) ==
  /\ FreeBlocks({b})
  /\ blocks' = [blocks EXCEPT ![ns] = @ \ {b}]
  /\ UNCHANGED statistic

\* namespace_free on a pointer the namespace has: destroy the block, forget
\* it, count it.
NamespaceFree(ns, b) ==
  /\ FreeBlocks({b})
  /\ blocks' = [blocks EXCEPT ![ns] = @ \ {b}]
  /\ statistic' = [statistic EXCEPT ![ns].manual_free_count = @ + 1]

\* Mutant of NamespacePurge: the table still holds the blocks it freed.
NamespacePurgeKeepsTable(ns) ==
  /\ FreeBlocks(blocks[ns])
  /\ statistic' = [statistic EXCEPT ![ns].purged_free_count =
                     @ + Cardinality(blocks[ns])]
  /\ UNCHANGED blocks

NamespacePurge(ns) ==
  /\ FreeBlocks(blocks[ns])
  /\ blocks' = [blocks EXCEPT ![ns] = {}]
  /\ statistic' = [statistic EXCEPT ![ns].purged_free_count =
                     @ + Cardinality(blocks[ns])]

\* A new object of a kind at an unused address, tracked by ns and handed to r.
NewBlock(ns, kind, a, r) ==
  /\ heap[a] = Free
  /\ allocated < MaxAllocs
  /\ allocated' = allocated + 1
  /\ heap' = [heap EXCEPT ![a] = [id |-> allocated + 1, kind |-> kind]]
  /\ blocks' = [blocks EXCEPT ![ns] = @ \cup {[ptr |-> a, kind |-> kind]}]
  /\ statistic' = [statistic EXCEPT ![ns].allocation_count = @ + 1]
  /\ refs' = [refs EXCEPT ![r] = [ptr |-> a, id |-> allocated + 1]]
  /\ UNCHANGED <<phase, faults>>

-----------------------------------------------------------------------------
(* Operations of the callers.                                              *)

\* mem_alloc, and mem_strdup and mem_clone, which copy into the new block.
MemAlloc(ns, a, r) ==
  /\ phase = "running"
  /\ CheckNamespace(ns)
  /\ NewBlock(ns, "GenericBlock", a, r)

\* malloc fails: the failure is counted and the caller gets NULL.
MemAllocFails(ns, r) ==
  /\ phase = "running"
  /\ statistic[ns].faulty_allocations < MaxCount
  /\ CheckNamespace(ns)
  /\ statistic' = [statistic EXCEPT ![ns].faulty_allocations = @ + 1]
  /\ refs' = [refs EXCEPT ![r] = Null]
  /\ UNCHANGED <<phase, blocks, heap, allocated, faults>>

\* mem_clone does not look at the pointer it copies to: NULL ends the process.
MemCloneFails(ns) ==
  /\ phase = "running"
  /\ statistic[ns].faulty_allocations < MaxCount
  /\ CheckNamespace(ns)
  /\ statistic' = [statistic EXCEPT ![ns].faulty_allocations = @ + 1]
  /\ phase' = "crashed"
  /\ UNCHANGED <<blocks, heap, allocated, faults, refs>>

\* mem_new_g_array and mem_new_g_hash_table (GLib aborts when it has no memory).
MemNewGlib(ns, kind, a, r) ==
  /\ phase = "running"
  /\ CheckNamespace(ns)
  /\ NewBlock(ns, kind, a, r)

\* The callers of mem_realloc (src/src/sys/log.c:50, src/tests/cache/
\* cache_test.c:19) hold a block of mem_alloc that they have not freed.
Reallocatable(r) ==
  LET p == refs[r] IN
  p.id # 0 /\ heap[p.ptr] = [id |-> p.id, kind |-> "GenericBlock"]

\* Mutant of MemRealloc: a block that moved is added, the old one stays.
MemReallocKeepsOldBlock(ns, r, a, keep) ==
  LET old == refs[r].ptr IN
  /\ phase = "running"
  /\ Reallocatable(r)
  /\ \E b \in Find(ns, old) :
       /\ a = old \/ heap[a] = Free
       /\ statistic[ns].reallocation_count < MaxCount
       /\ heap' = [heap EXCEPT ![old] = Free, ![a] = heap[old]]
       /\ blocks' = [blocks EXCEPT ![ns] = @ \cup {[b EXCEPT !.ptr = a]}]
       /\ statistic' = [statistic EXCEPT ![ns].reallocation_count = @ + 1]
  /\ refs' = IF keep THEN [refs EXCEPT ![r].ptr = a] ELSE refs
  /\ UNCHANGED <<phase, nsState, allocated, faults>>

\* realloc succeeds, in place or at an unused address a.  The caller stores
\* the new pointer (keep) or, like the test, goes on with the old one.
MemRealloc(ns, r, a, keep) ==
  LET old == refs[r].ptr IN
  /\ phase = "running"
  /\ Reallocatable(r)
  /\ \E b \in Find(ns, old) :
       /\ a = old \/ heap[a] = Free
       /\ statistic[ns].reallocation_count < MaxCount
       /\ heap' = [heap EXCEPT ![old] = Free, ![a] = heap[old]]
       /\ blocks' = [blocks EXCEPT ![ns] =
                       (@ \ {b}) \cup {[b EXCEPT !.ptr = a]}]
       /\ statistic' = [statistic EXCEPT ![ns].reallocation_count = @ + 1]
  /\ refs' = IF keep THEN [refs EXCEPT ![r].ptr = a] ELSE refs
  /\ UNCHANGED <<phase, nsState, allocated, faults>>

\* Mutant of MemReallocFails: the table takes the NULL that realloc returned.
MemReallocFailsLosesBlock(ns, r, keep) ==
  /\ phase = "running"
  /\ Reallocatable(r)
  /\ statistic[ns].faulty_reallocations < MaxCount
  /\ \E b \in Find(ns, refs[r].ptr) :
       blocks' = [blocks EXCEPT ![ns] =
                    (@ \ {b}) \cup {[b EXCEPT !.ptr = NoAddr]}]
  /\ statistic' = [statistic EXCEPT ![ns].faulty_reallocations = @ + 1]
  /\ refs' = IF keep THEN [refs EXCEPT ![r] = Null] ELSE refs
  /\ UNCHANGED <<phase, nsState, heap, allocated, faults>>

\* realloc fails: the old block stays where it is and stays tracked, the
\* caller that stores the result is left with NULL.
MemReallocFails(ns, r, keep) ==
  /\ phase = "running"
  /\ Reallocatable(r)
  /\ Find(ns, refs[r].ptr) # {}
  /\ statistic[ns].faulty_reallocations < MaxCount
  /\ statistic' = [statistic EXCEPT ![ns].faulty_reallocations = @ + 1]
  /\ refs' = IF keep THEN [refs EXCEPT ![r] = Null] ELSE refs
  /\ UNCHANGED <<phase, nsState, blocks, heap, allocated, faults>>

\* mem_realloc in a namespace that does not have the pointer: NULL.
MemReallocUnknown(ns, r) ==
  /\ phase = "running"
  /\ Reallocatable(r)
  /\ Find(ns, refs[r].ptr) = {}
  /\ CheckNamespace(ns)
  /\ refs' = [refs EXCEPT ![r] = Null]
  /\ UNCHANGED <<phase, blocks, statistic, heap, allocated, faults>>

\* mem_free asks every namespace for the pointer and stops at the first that
\* has it; the order is the one of a hash table.
MemFree(r) ==
  /\ phase = "running"
  /\ \E ns \in Namespace :
       \E b \in Find(ns, refs[r].ptr) : NamespaceFree(ns, b)
  /\ UNCHANGED <<phase, nsState, allocated, refs>>

\* mem_free_from looks in one namespace only.
MemFreeFrom(ns, r) ==
  /\ phase = "running"
  /\ CheckNamespace(ns)
  /\ \/ \E b \in Find(ns, refs[r].ptr) : NamespaceFree(ns, b)
     \/ /\ Find(ns, refs[r].ptr) = {}
        /\ UNCHANGED <<blocks, statistic, heap, faults>>
  /\ UNCHANGED <<phase, allocated, refs>>

\* mem_purge_namespace; an unknown name only logs a warning.
MemPurgeNamespace(ns) ==
  /\ phase = "running"
  /\ nsState[ns] = "present"
  /\ NamespacePurge(ns)
  /\ UNCHANGED <<phase, nsState, allocated, refs>>

\* The process returns from main or calls exit (PANIC does): the handler that
\* mem_init registered first runs last.
Exit ==
  /\ phase = "running"
  /\ phase' = "cleanup"
  /\ UNCHANGED <<nsState, blocks, statistic, heap, allocated, faults, refs>>

\* One turn of cleanup's loop: purge and delete a namespace.
Cleanup(ns) ==
  /\ phase = "cleanup"
  /\ nsState[ns] = "present"
  /\ NamespacePurge(ns)
  /\ nsState' = [nsState EXCEPT ![ns] = "deleted"]
  /\ UNCHANGED <<phase, allocated, refs>>

\* Mutant of CleanupDone: the loop stops although a namespace is left.
CleanupDoneEarly ==
  /\ phase = "cleanup"
  /\ \E ns \in Namespace : nsState[ns] # "present"
  /\ phase' = "done"
  /\ UNCHANGED <<nsState, blocks, statistic, heap, allocated, faults, refs>>

CleanupDone ==
  /\ phase = "cleanup"
  /\ \A ns \in Namespace : nsState[ns] # "present"
  /\ phase' = "done"
  /\ UNCHANGED <<nsState, blocks, statistic, heap, allocated, faults, refs>>

-----------------------------------------------------------------------------
Next ==
  \/ \E ns \in Namespace, a \in Addr, r \in Ref : MemAlloc(ns, a, r)
  \/ \E ns \in Namespace, r \in Ref : MemAllocFails(ns, r)
  \/ \E ns \in Namespace : MemCloneFails(ns)
  \/ \E ns \in Namespace, kind \in {"GLIB_Array", "GLIB_HashTable"},
        a \in Addr, r \in Ref : MemNewGlib(ns, kind, a, r)
  \/ \E ns \in Namespace, r \in Ref, a \in Addr, keep \in BOOLEAN :
        MemRealloc(ns, r, a, keep)
  \/ \E ns \in Namespace, r \in Ref, keep \in BOOLEAN :
        MemReallocFails(ns, r, keep)
  \/ \E ns \in Namespace, r \in Ref : MemReallocUnknown(ns, r)
  \/ \E r \in Ref : MemFree(r)
  \/ \E ns \in Namespace, r \in Ref : MemFreeFrom(ns, r)
  \/ \E ns \in Namespace : MemPurgeNamespace(ns)
  \/ Exit
  \/ \E ns \in Namespace : Cleanup(ns)
  \/ CleanupDone

\* exit() runs the handler to its end; nothing obliges the program to exit.
Fairness == WF_vars(CleanupDone) /\ \A ns \in Namespace : WF_vars(Cleanup(ns))

Spec == Init /\ [][Next]_vars /\ Fairness

-----------------------------------------------------------------------------
(* Properties.                                                             *)

\* Every live object of the heap is in the table of exactly one namespace,
\* with its own kind, and every table entry is live: nothing is freed twice
\* and nothing is lost, whatever pointers the callers free.
NoDanglingBlock ==
  \A ns \in Namespace : \A b \in blocks[ns] :
    heap[b.ptr].id # 0 /\ heap[b.ptr].kind = b.kind
NoSharedBlock ==
  \A ns1, ns2 \in Namespace : \A b1 \in blocks[ns1], b2 \in blocks[ns2] :
    b1.ptr = b2.ptr => ns1 = ns2 /\ b1 = b2
NoLostBlock ==
  \A a \in Addr : heap[a].id # 0 =>
    \E ns \in Namespace : \E b \in blocks[ns] : b.ptr = a
EveryBlockTrackedOnce == NoDanglingBlock /\ NoSharedBlock /\ NoLostBlock

\* The cache never frees an address that is free, and never destroys an
\* object with the destructor of another kind.
NoHeapMisuse == faults = {}

\* print_memory_statistics tells the truth: what a namespace allocated is
\* what it still holds plus what was freed and purged, through reallocations
\* and failures.
StatisticsBalance ==
  \A ns \in Namespace :
    statistic[ns].allocation_count =
      Cardinality(blocks[ns]) + statistic[ns].manual_free_count
                              + statistic[ns].purged_free_count

\* The cache implements the ownership discipline of module Arena.
ObjectsOf(ns) == {heap[b.ptr].id : b \in blocks[ns]}

A == INSTANCE Arena WITH
       Region <- Namespace, Object <- 1 .. MaxAllocs,
       live <- [ns \in Namespace |-> ObjectsOf(ns)],
       used <- 1 .. allocated

ImplementsArena == A!Spec

\* Once the exit handler runs, every block of every namespace is given back.
CleanupReleasesEverything ==
  phase = "cleanup" ~> (phase = "done" /\ \A a \in Addr : heap[a] = Free)
=============================================================================
