--------------------------- MODULE MemCacheProofs ---------------------------
(***************************************************************************)
(* Proofs about MemCache, for every set of namespaces, addresses and       *)
(* caller variables and for every bound.                                   *)
(***************************************************************************)
EXTENDS MemCache, FiniteSetTheorems, TLAPS

\* A cell of the heap is either free or holds an object with a number that
\* has been given out; no two cells hold the same object.
HeapCells ==
  \A a \in Addr :
    /\ heap[a].id = 0 => heap[a] = Free
    /\ heap[a].id # 0 => heap[a].id \in 1 .. allocated /\ heap[a].kind \in Kind
DistinctObjects ==
  \A a, c \in Addr : heap[a].id = heap[c].id /\ heap[a].id # 0 => a = c

FiniteBlocks == \A ns \in Namespace : IsFiniteSet(blocks[ns])

HeapInv == HeapCells /\ DistinctObjects /\ EveryBlockTrackedOnce /\ NoHeapMisuse
StatInv == FiniteBlocks /\ StatisticsBalance
IInv    == TypeOK /\ HeapInv /\ StatInv

-----------------------------------------------------------------------------
\* Destroying a set of tracked blocks of one namespace frees their addresses
\* and does nothing that free() forbids.
LEMMA FreeBlocksEffect ==
  ASSUME TypeOK, HeapInv, NEW ns \in Namespace,
         NEW bs \in SUBSET blocks[ns], FreeBlocks(bs)
  PROVE  /\ faults' = {}
         /\ heap' \in [Addr -> [id : Nat, kind : Kind \cup {"none"}]]
         /\ \A a \in Addr : (\E b \in bs : b.ptr = a) => heap'[a] = Free
         /\ \A a \in Addr : ~(\E b \in bs : b.ptr = a) => heap'[a] = heap[a]
<1>1. \A b \in bs : b \in Block /\ heap[b.ptr].id # 0 /\ heap[b.ptr].kind = b.kind
  BY DEF TypeOK, HeapInv, EveryBlockTrackedOnce, NoDanglingBlock
<1>2. \A b \in bs : heap[b.ptr] # Free
  BY <1>1 DEF Free
<1>3. faults' = {}
  BY <1>1, <1>2 DEF FreeBlocks, HeapInv, NoHeapMisuse
<1>4. Free \in [id : Nat, kind : Kind \cup {"none"}]
  BY DEF Free
<1>. QED
  BY <1>3, <1>4 DEF FreeBlocks, TypeOK

\* Forgetting exactly the blocks that were destroyed keeps the heap and the
\* tables in agreement.
LEMMA ReleaseKeepsHeapInv ==
  ASSUME TypeOK, HeapInv, NEW ns \in Namespace,
         NEW bs \in SUBSET blocks[ns], FreeBlocks(bs),
         blocks' = [blocks EXCEPT ![ns] = @ \ bs], allocated' = allocated
  PROVE  HeapInv'
<1>1. /\ \A a \in Addr : (\E b \in bs : b.ptr = a) => heap'[a] = Free
      /\ \A a \in Addr : ~(\E b \in bs : b.ptr = a) => heap'[a] = heap[a]
      /\ faults' = {}
  BY FreeBlocksEffect
<1>2. \A m \in Namespace : blocks'[m] \subseteq blocks[m] /\ blocks[m] \subseteq Block
  BY DEF TypeOK
<1>3. Free.id = 0
  BY DEF Free
<1>4. \A m \in Namespace : \A c \in blocks'[m] : heap'[c.ptr] = heap[c.ptr]
  <2>. SUFFICES ASSUME NEW m \in Namespace, NEW c \in blocks'[m],
                       NEW b \in bs, b.ptr = c.ptr
                PROVE  FALSE
    BY <1>1, <1>2 DEF Block
  <2>1. c \in blocks[m] /\ b \in blocks[ns]
    BY <1>2
  <2>2. ns = m /\ b = c
    BY <2>1 DEF HeapInv, EveryBlockTrackedOnce, NoSharedBlock
  <2>. QED
    BY <2>2 DEF TypeOK
<1>5. HeapCells' /\ DistinctObjects'
  BY <1>1, <1>3 DEF HeapInv, HeapCells, DistinctObjects
<1>6. NoDanglingBlock'
  BY <1>2, <1>4 DEF HeapInv, EveryBlockTrackedOnce, NoDanglingBlock
<1>7. NoSharedBlock'
  BY <1>2 DEF HeapInv, EveryBlockTrackedOnce, NoSharedBlock
<1>8. NoLostBlock'
  <2>. SUFFICES ASSUME NEW a \in Addr, heap'[a].id # 0
                PROVE  \E m \in Namespace : \E c \in blocks'[m] : c.ptr = a
    BY DEF NoLostBlock
  <2>1. ~(\E b \in bs : b.ptr = a) /\ heap'[a] = heap[a]
    BY <1>1, <1>3
  <2>2. PICK m \in Namespace : \E c \in blocks[m] : c.ptr = a
    BY <2>1 DEF HeapInv, EveryBlockTrackedOnce, NoLostBlock
  <2>3. PICK c \in blocks[m] : c.ptr = a
    BY <2>2
  <2>4. c \in blocks'[m]
    BY <2>1, <2>3 DEF TypeOK
  <2>. QED
    BY <2>3, <2>4
<1>. QED
  BY <1>1, <1>5, <1>6, <1>7, <1>8 DEF HeapInv, EveryBlockTrackedOnce, NoHeapMisuse

LEMMA NamespaceFreeKeepsIInv ==
  ASSUME IInv, NEW ns \in Namespace, NEW b \in blocks[ns], NamespaceFree(ns, b),
         nsState' \in [Namespace -> {"absent", "present", "deleted"}],
         UNCHANGED <<phase, allocated, refs>>
  PROVE  IInv'
<1>1. HeapInv'
  BY ReleaseKeepsHeapInv DEF IInv, NamespaceFree
<1>2. TypeOK'
  <2>1. heap' \in [Addr -> [id : Nat, kind : Kind \cup {"none"}]] /\ faults' = {}
    BY FreeBlocksEffect DEF IInv, NamespaceFree
  <2>2. blocks' \in [Namespace -> SUBSET Block]
    BY DEF IInv, TypeOK, NamespaceFree
  <2>3. statistic' \in [Namespace -> Statistic]
    BY DEF IInv, TypeOK, NamespaceFree, Statistic
  <2>. QED
    BY <2>1, <2>2, <2>3 DEF IInv, TypeOK
<1>3. IsFiniteSet(blocks[ns]) /\ Cardinality(blocks[ns]) \in Nat
  BY FS_CardinalityType DEF IInv, StatInv, FiniteBlocks
<1>4. /\ IsFiniteSet(blocks[ns] \ {b})
      /\ Cardinality(blocks[ns] \ {b}) = Cardinality(blocks[ns]) - 1
  BY <1>3, FS_RemoveElement
<1>5. FiniteBlocks'
  BY <1>4 DEF IInv, TypeOK, StatInv, FiniteBlocks, NamespaceFree
<1>6. StatisticsBalance'
  <2>. SUFFICES ASSUME NEW m \in Namespace
                PROVE  statistic'[m].allocation_count =
                         Cardinality(blocks'[m]) + statistic'[m].manual_free_count
                                                 + statistic'[m].purged_free_count
    BY DEF StatisticsBalance
  <2>1. CASE m = ns
    BY <2>1, <1>3, <1>4 DEF IInv, TypeOK, StatInv, StatisticsBalance, NamespaceFree, Statistic
  <2>2. CASE m # ns
    BY <2>2 DEF IInv, TypeOK, StatInv, StatisticsBalance, NamespaceFree
  <2>. QED
    BY <2>1, <2>2
<1>. QED
  BY <1>1, <1>2, <1>5, <1>6 DEF IInv, StatInv

LEMMA NamespacePurgeKeepsIInv ==
  ASSUME IInv, NEW ns \in Namespace, NamespacePurge(ns),
         nsState' \in [Namespace -> {"absent", "present", "deleted"}],
         UNCHANGED <<phase, allocated, refs>>
  PROVE  IInv'
<1>0. blocks' = [blocks EXCEPT ![ns] = @ \ blocks[ns]]
  BY DEF NamespacePurge, IInv, TypeOK
<1>1. HeapInv'
  BY <1>0, ReleaseKeepsHeapInv DEF IInv, NamespacePurge
<1>2. IsFiniteSet(blocks[ns]) /\ Cardinality(blocks[ns]) \in Nat
  BY FS_CardinalityType DEF IInv, StatInv, FiniteBlocks
<1>3. TypeOK'
  <2>1. heap' \in [Addr -> [id : Nat, kind : Kind \cup {"none"}]] /\ faults' = {}
    BY FreeBlocksEffect DEF IInv, NamespacePurge
  <2>2. blocks' \in [Namespace -> SUBSET Block]
    BY DEF IInv, TypeOK, NamespacePurge
  <2>3. statistic' \in [Namespace -> Statistic]
    BY <1>2 DEF IInv, TypeOK, NamespacePurge, Statistic
  <2>. QED
    BY <2>1, <2>2, <2>3 DEF IInv, TypeOK
<1>4. IsFiniteSet({}) /\ Cardinality({}) = 0
  BY FS_EmptySet
<1>5. FiniteBlocks'
  BY <1>4 DEF IInv, TypeOK, StatInv, FiniteBlocks, NamespacePurge
<1>6. StatisticsBalance'
  <2>. SUFFICES ASSUME NEW m \in Namespace
                PROVE  statistic'[m].allocation_count =
                         Cardinality(blocks'[m]) + statistic'[m].manual_free_count
                                                 + statistic'[m].purged_free_count
    BY DEF StatisticsBalance
  <2>1. CASE m = ns
    BY <2>1, <1>2, <1>4 DEF IInv, TypeOK, StatInv, StatisticsBalance, NamespacePurge, Statistic
  <2>2. CASE m # ns
    BY <2>2 DEF IInv, TypeOK, StatInv, StatisticsBalance, NamespacePurge
  <2>. QED
    BY <2>1, <2>2
<1>. QED
  BY <1>1, <1>3, <1>5, <1>6 DEF IInv, StatInv

LEMMA NewBlockKeepsIInv ==
  ASSUME IInv, NEW ns \in Namespace, NEW kind \in Kind, NEW a \in Addr,
         NEW r \in Ref, NewBlock(ns, kind, a, r),
         nsState' \in [Namespace -> {"absent", "present", "deleted"}]
  PROVE  IInv'
<1>. DEFINE b == [ptr |-> a, kind |-> kind]
            o == [id |-> allocated + 1, kind |-> kind]
<1>1. b \in Block /\ allocated \in Nat /\ allocated' = allocated + 1
      /\ allocated' \in 0 .. MaxAllocs
  BY BoundsAssumption DEF IInv, TypeOK, NewBlock, Block
<1>2. /\ \A c \in Addr : c # a => heap'[c] = heap[c]
      /\ heap'[a] = o
      /\ heap[a].id = 0
      /\ faults' = faults
  BY DEF IInv, TypeOK, NewBlock, Free
<1>3. /\ \A m \in Namespace : m # ns => blocks'[m] = blocks[m]
      /\ blocks'[ns] = blocks[ns] \cup {b}
      /\ \A m \in Namespace : blocks[m] \subseteq Block
  BY DEF IInv, TypeOK, NewBlock
<1>4. \A m \in Namespace : \A c \in blocks[m] : c.ptr \in Addr /\ c.ptr # a
  BY <1>2, <1>3 DEF IInv, HeapInv, EveryBlockTrackedOnce, NoDanglingBlock, Block
<1>5. TypeOK'
  <2>1. heap' \in [Addr -> [id : Nat, kind : Kind \cup {"none"}]]
    BY <1>1 DEF IInv, TypeOK, NewBlock
  <2>2. blocks' \in [Namespace -> SUBSET Block]
    BY <1>1 DEF IInv, TypeOK, NewBlock
  <2>3. statistic' \in [Namespace -> Statistic]
    <3>1. [statistic[ns] EXCEPT !.allocation_count = @ + 1] \in Statistic
      BY DEF IInv, TypeOK, Statistic
    <3>. QED
      BY <3>1 DEF IInv, TypeOK, NewBlock
  <2>4. refs' \in [Ref -> [ptr : Addr \cup {NoAddr}, id : Nat]]
    BY <1>1 DEF IInv, TypeOK, NewBlock
  <2>. QED
    BY <1>1, <2>1, <2>2, <2>3, <2>4 DEF IInv, TypeOK, NewBlock
<1>6. HeapCells' /\ DistinctObjects'
  <2>1. o.id = allocated + 1 /\ o.kind \in Kind
    OBVIOUS
  <2>2. HeapCells'
    BY <1>1, <1>2, <2>1 DEF IInv, TypeOK, HeapInv, HeapCells
  <2>3. \A c \in Addr : heap[c].id # allocated + 1
    BY <1>1 DEF IInv, HeapInv, HeapCells
  <2>4. DistinctObjects'
    BY <1>2, <2>1, <2>3 DEF IInv, HeapInv, DistinctObjects
  <2>. QED
    BY <2>2, <2>4
<1>7. NoDanglingBlock'
  BY <1>1, <1>2, <1>3, <1>4 DEF IInv, HeapInv, EveryBlockTrackedOnce, NoDanglingBlock
<1>8. NoSharedBlock'
  BY <1>3, <1>4 DEF IInv, HeapInv, EveryBlockTrackedOnce, NoSharedBlock
<1>9. NoLostBlock'
  <2>. SUFFICES ASSUME NEW c \in Addr, heap'[c].id # 0
                PROVE  \E m \in Namespace : \E d \in blocks'[m] : d.ptr = c
    BY DEF NoLostBlock
  <2>1. CASE c = a
    <3>1. b \in blocks'[ns] /\ b.ptr = c
      BY <2>1, <1>3
    <3>. QED
      BY <3>1
  <2>2. CASE c # a
    <3>1. PICK m \in Namespace : \E d \in blocks[m] : d.ptr = c
      BY <2>2, <1>2 DEF IInv, HeapInv, EveryBlockTrackedOnce, NoLostBlock
    <3>. QED
      BY <3>1, <1>3
  <2>. QED
    BY <2>1, <2>2
<1>10. IsFiniteSet(blocks[ns]) /\ Cardinality(blocks[ns]) \in Nat
  BY FS_CardinalityType DEF IInv, StatInv, FiniteBlocks
<1>11. b \notin blocks[ns]
  BY <1>4
<1>12. /\ IsFiniteSet(blocks[ns] \cup {b})
       /\ Cardinality(blocks[ns] \cup {b}) = Cardinality(blocks[ns]) + 1
  BY <1>10, <1>11, FS_AddElement
<1>13. FiniteBlocks'
  BY <1>3, <1>12 DEF IInv, StatInv, FiniteBlocks
<1>14. StatisticsBalance'
  <2>. SUFFICES ASSUME NEW m \in Namespace
                PROVE  statistic'[m].allocation_count =
                         Cardinality(blocks'[m]) + statistic'[m].manual_free_count
                                                 + statistic'[m].purged_free_count
    BY DEF StatisticsBalance
  <2>1. CASE m = ns
    BY <2>1, <1>3, <1>10, <1>12
    DEF IInv, TypeOK, StatInv, StatisticsBalance, NewBlock, Statistic
  <2>2. CASE m # ns
    BY <2>2, <1>3 DEF IInv, TypeOK, StatInv, StatisticsBalance, NewBlock
  <2>. QED
    BY <2>1, <2>2
<1>. QED
  BY <1>2, <1>5, <1>6, <1>7, <1>8, <1>9, <1>13, <1>14
  DEF IInv, HeapInv, StatInv, EveryBlockTrackedOnce, NoHeapMisuse

\* A successful reallocation moves one object and the entry that tracks it.
LEMMA MemReallocKeepsIInv ==
  ASSUME IInv, NEW ns \in Namespace, NEW r \in Ref, NEW a \in Addr,
         NEW keep \in BOOLEAN, MemRealloc(ns, r, a, keep)
  PROVE  IInv'
<1>. DEFINE old == refs[r].ptr
<1>1. PICK b \in blocks[ns] :
        /\ b.ptr = old
        /\ a = old \/ heap[a] = Free
        /\ heap' = [heap EXCEPT ![old] = Free, ![a] = heap[old]]
        /\ blocks' = [blocks EXCEPT ![ns] = (@ \ {b}) \cup {[b EXCEPT !.ptr = a]}]
        /\ statistic' = [statistic EXCEPT ![ns].reallocation_count = @ + 1]
  BY DEF MemRealloc, Find
<1>. DEFINE c == [b EXCEPT !.ptr = a]
<1>2. /\ b \in Block /\ c \in Block /\ c.ptr = a /\ c.kind = b.kind
      /\ old \in Addr
      /\ \A m \in Namespace : blocks[m] \subseteq Block
  BY <1>1, SMTT(30) DEF IInv, TypeOK, Block
<1>3. /\ phase' = phase /\ nsState' = nsState /\ allocated' = allocated
      /\ faults' = faults
      /\ refs' = IF keep THEN [refs EXCEPT ![r].ptr = a] ELSE refs
  BY DEF MemRealloc
<1>4. heap[old].id # 0 /\ heap[old].kind = b.kind
  BY <1>1 DEF IInv, HeapInv, EveryBlockTrackedOnce, NoDanglingBlock
<1>5. /\ heap'[a] = heap[old]
      /\ a # old => heap'[old] = Free /\ heap[a] = Free
      /\ \A d \in Addr : d # a /\ d # old => heap'[d] = heap[d]
  BY <1>1, <1>2 DEF IInv, TypeOK
<1>6. /\ blocks'[ns] = (blocks[ns] \ {b}) \cup {c}
      /\ \A m \in Namespace : m # ns => blocks'[m] = blocks[m]
  BY <1>1 DEF IInv, TypeOK
<1>7. Free.id = 0
  BY DEF Free
\* the entry that moves is the only one at the old address
<1>8. \A m \in Namespace : \A d \in blocks[m] :
        d.ptr \in Addr /\ (d.ptr = old => m = ns /\ d = b)
  BY <1>1, <1>2 DEF IInv, HeapInv, EveryBlockTrackedOnce, NoSharedBlock, Block
<1>9. \A m \in Namespace : \A d \in blocks[m] : d.ptr = a => a = old
  BY <1>5, <1>7 DEF IInv, HeapInv, EveryBlockTrackedOnce, NoDanglingBlock
<1>10. TypeOK'
  <2>1. heap' \in [Addr -> [id : Nat, kind : Kind \cup {"none"}]]
    <3>1. Free \in [id : Nat, kind : Kind \cup {"none"}]
      BY DEF Free
    <3>. QED
      BY <1>1, <1>2, <3>1 DEF IInv, TypeOK
  <2>2. blocks' \in [Namespace -> SUBSET Block]
    BY <1>1, <1>2 DEF IInv, TypeOK
  <2>3. statistic' \in [Namespace -> Statistic]
    <3>1. [statistic[ns] EXCEPT !.reallocation_count = @ + 1] \in Statistic
      BY DEF IInv, TypeOK, Statistic
    <3>. QED
      BY <1>1, <3>1 DEF IInv, TypeOK
  <2>4. refs' \in [Ref -> [ptr : Addr \cup {NoAddr}, id : Nat]]
    BY <1>3 DEF IInv, TypeOK
  <2>. QED
    BY <1>3, <2>1, <2>2, <2>3, <2>4 DEF IInv, TypeOK
<1>11. HeapCells' /\ DistinctObjects'
  <2>1. HeapCells'
    BY <1>2, <1>3, <1>5, <1>7 DEF IInv, HeapInv, HeapCells
  <2>2. DistinctObjects'
    BY <1>2, <1>5, <1>7 DEF IInv, HeapInv, DistinctObjects
  <2>. QED
    BY <2>1, <2>2
<1>12. NoDanglingBlock'
  <2>. SUFFICES ASSUME NEW m \in Namespace, NEW d \in blocks'[m]
                PROVE  heap'[d.ptr].id # 0 /\ heap'[d.ptr].kind = d.kind
    BY DEF NoDanglingBlock
  <2>1. CASE d = c
    BY <2>1, <1>2, <1>4, <1>5
  <2>2. CASE d # c
    <3>1. d \in blocks[m] /\ d.ptr # old
      BY <2>2, <1>6, <1>8
    <3>2. d.ptr # a
      BY <3>1, <1>9
    <3>3. heap'[d.ptr] = heap[d.ptr]
      BY <3>1, <3>2, <1>5, <1>8
    <3>. QED
      BY <3>1, <3>3 DEF IInv, HeapInv, EveryBlockTrackedOnce, NoDanglingBlock
  <2>. QED
    BY <2>1, <2>2
<1>13. NoSharedBlock'
  <2>. SUFFICES ASSUME NEW m1 \in Namespace, NEW m2 \in Namespace,
                       NEW d1 \in blocks'[m1], NEW d2 \in blocks'[m2],
                       d1.ptr = d2.ptr
                PROVE  m1 = m2 /\ d1 = d2
    BY DEF NoSharedBlock
  <2>1. \A m \in Namespace : \A d \in blocks'[m] :
          \/ m = ns /\ d = c
          \/ d \in blocks[m] /\ d.ptr # old /\ d.ptr # a
    BY <1>6, <1>8, <1>9
  <2>2. CASE d1.ptr = a
    BY <2>1, <2>2
  <2>3. CASE d1.ptr # a
    <3>1. d1 # c /\ d2 # c
      BY <2>3, <1>2
    <3>2. d1 \in blocks[m1] /\ d2 \in blocks[m2]
      BY <2>1, <3>1
    <3>. QED
      BY <3>2 DEF IInv, HeapInv, EveryBlockTrackedOnce, NoSharedBlock
  <2>. QED
    BY <2>2, <2>3
<1>14. NoLostBlock'
  <2>. SUFFICES ASSUME NEW e \in Addr, heap'[e].id # 0
                PROVE  \E m \in Namespace : \E d \in blocks'[m] : d.ptr = e
    BY DEF NoLostBlock
  <2>1. CASE e = a
    BY <2>1, <1>2, <1>6
  <2>2. CASE e # a
    <3>1. e # old /\ heap'[e] = heap[e]
      BY <2>2, <1>2, <1>5, <1>7
    <3>2. PICK m \in Namespace : \E d \in blocks[m] : d.ptr = e
      BY <3>1 DEF IInv, HeapInv, EveryBlockTrackedOnce, NoLostBlock
    <3>3. PICK d \in blocks[m] : d.ptr = e
      BY <3>2
    <3>4. d # b
      BY <3>1, <3>3, <1>1
    <3>5. d \in blocks'[m]
      BY <3>3, <3>4, <1>6
    <3>. QED
      BY <3>3, <3>5
  <2>. QED
    BY <2>1, <2>2
<1>15. /\ IsFiniteSet(blocks[ns]) /\ Cardinality(blocks[ns]) \in Nat
       /\ IsFiniteSet(blocks[ns] \ {b})
       /\ Cardinality(blocks[ns] \ {b}) = Cardinality(blocks[ns]) - 1
  BY FS_CardinalityType, FS_RemoveElement DEF IInv, StatInv, FiniteBlocks
<1>16. c \notin blocks[ns] \ {b}
  BY <1>2, <1>8, <1>9
<1>17. /\ IsFiniteSet(blocks'[ns])
       /\ Cardinality(blocks'[ns]) = Cardinality(blocks[ns])
  <2>1. /\ IsFiniteSet((blocks[ns] \ {b}) \cup {c})
        /\ Cardinality((blocks[ns] \ {b}) \cup {c}) = Cardinality(blocks[ns] \ {b}) + 1
    BY <1>15, <1>16, FS_AddElement
  <2>. QED
    BY <1>6, <1>15, <2>1
<1>18. FiniteBlocks'
  BY <1>6, <1>17 DEF IInv, StatInv, FiniteBlocks
<1>19. StatisticsBalance'
  <2>. SUFFICES ASSUME NEW m \in Namespace
                PROVE  statistic'[m].allocation_count =
                         Cardinality(blocks'[m]) + statistic'[m].manual_free_count
                                                 + statistic'[m].purged_free_count
    BY DEF StatisticsBalance
  <2>1. Cardinality(blocks'[m]) = Cardinality(blocks[m])
    BY <1>6, <1>17
  <2>2. /\ statistic'[m].allocation_count = statistic[m].allocation_count
        /\ statistic'[m].manual_free_count = statistic[m].manual_free_count
        /\ statistic'[m].purged_free_count = statistic[m].purged_free_count
    BY <1>1 DEF IInv, TypeOK, Statistic
  <2>. QED
    BY <2>1, <2>2 DEF IInv, StatInv, StatisticsBalance
<1>. QED
  BY <1>3, <1>10, <1>11, <1>12, <1>13, <1>14, <1>18, <1>19
  DEF IInv, HeapInv, StatInv, EveryBlockTrackedOnce, NoHeapMisuse

-----------------------------------------------------------------------------
LEMMA CheckNamespaceType ==
  ASSUME TypeOK, NEW ns \in Namespace, CheckNamespace(ns)
  PROVE  nsState' \in [Namespace -> {"absent", "present", "deleted"}]
BY DEF TypeOK, CheckNamespace

\* A step that touches neither the heap nor a table, and no counter that the
\* balance is about.
LEMMA QuietStepKeepsIInv ==
  ASSUME IInv, TypeOK', UNCHANGED <<blocks, heap, allocated, faults>>,
         \A ns \in Namespace :
           /\ statistic'[ns].allocation_count = statistic[ns].allocation_count
           /\ statistic'[ns].manual_free_count = statistic[ns].manual_free_count
           /\ statistic'[ns].purged_free_count = statistic[ns].purged_free_count
  PROVE  IInv'
<1>1. HeapInv'
  BY DEF IInv, HeapInv, HeapCells, DistinctObjects, EveryBlockTrackedOnce,
         NoDanglingBlock, NoSharedBlock, NoLostBlock, NoHeapMisuse
<1>2. StatInv'
  BY DEF IInv, StatInv, FiniteBlocks, StatisticsBalance
<1>. QED
  BY <1>1, <1>2 DEF IInv

LEMMA NullRef == ASSUME TypeOK, NEW r \in Ref
                 PROVE  [refs EXCEPT ![r] = Null] \in [Ref -> [ptr : Addr \cup {NoAddr}, id : Nat]]
BY DEF TypeOK, Null

\* Every step of the cache, its callers and the exit handler keeps IInv.
LEMMA NextKeepsIInv == IInv /\ [Next]_vars => IInv'
<1>. SUFFICES ASSUME IInv, [Next]_vars PROVE IInv'
  OBVIOUS
<1>0. TypeOK
  BY DEF IInv
<1>1. ASSUME NEW ns \in Namespace, NEW a \in Addr, NEW r \in Ref, MemAlloc(ns, a, r)
      PROVE  IInv'
  BY <1>0, <1>1, CheckNamespaceType, NewBlockKeepsIInv DEF MemAlloc, Kind
<1>2. ASSUME NEW ns \in Namespace, NEW r \in Ref, MemAllocFails(ns, r)
      PROVE  IInv'
  <2>1. nsState' \in [Namespace -> {"absent", "present", "deleted"}]
    BY <1>0, <1>2, CheckNamespaceType DEF MemAllocFails
  <2>2. [statistic[ns] EXCEPT !.faulty_allocations = @ + 1] \in Statistic
    BY DEF IInv, TypeOK, Statistic
  <2>3. statistic' \in [Namespace -> Statistic]
    BY <1>2, <2>2 DEF IInv, TypeOK, MemAllocFails
  <2>4. TypeOK'
    BY <1>0, <1>2, <2>1, <2>3, NullRef DEF TypeOK, MemAllocFails
  <2>. QED
    BY <1>2, <2>4, QuietStepKeepsIInv DEF MemAllocFails, IInv, TypeOK, Statistic
<1>3. ASSUME NEW ns \in Namespace, MemCloneFails(ns)
      PROVE  IInv'
  <2>1. nsState' \in [Namespace -> {"absent", "present", "deleted"}]
    BY <1>0, <1>3, CheckNamespaceType DEF MemCloneFails
  <2>2. [statistic[ns] EXCEPT !.faulty_allocations = @ + 1] \in Statistic
    BY DEF IInv, TypeOK, Statistic
  <2>3. statistic' \in [Namespace -> Statistic]
    BY <1>3, <2>2 DEF IInv, TypeOK, MemCloneFails
  <2>4. TypeOK'
    BY <1>0, <1>3, <2>1, <2>3 DEF TypeOK, MemCloneFails
  <2>. QED
    BY <1>3, <2>4, QuietStepKeepsIInv DEF MemCloneFails, IInv, TypeOK, Statistic
<1>4. ASSUME NEW ns \in Namespace, NEW kind \in {"GLIB_Array", "GLIB_HashTable"},
             NEW a \in Addr, NEW r \in Ref, MemNewGlib(ns, kind, a, r)
      PROVE  IInv'
  BY <1>0, <1>4, CheckNamespaceType, NewBlockKeepsIInv DEF MemNewGlib, Kind
<1>5. ASSUME NEW ns \in Namespace, NEW r \in Ref, NEW a \in Addr,
             NEW keep \in BOOLEAN, MemRealloc(ns, r, a, keep)
      PROVE  IInv'
  BY <1>5, MemReallocKeepsIInv
<1>6. ASSUME NEW ns \in Namespace, NEW r \in Ref, NEW keep \in BOOLEAN,
             MemReallocFails(ns, r, keep)
      PROVE  IInv'
  <2>1. [statistic[ns] EXCEPT !.faulty_reallocations = @ + 1] \in Statistic
    BY DEF IInv, TypeOK, Statistic
  <2>2. statistic' \in [Namespace -> Statistic]
    BY <1>6, <2>1 DEF IInv, TypeOK, MemReallocFails
  <2>3. refs' \in [Ref -> [ptr : Addr \cup {NoAddr}, id : Nat]]
    BY <1>0, <1>6, NullRef DEF TypeOK, MemReallocFails
  <2>4. TypeOK'
    BY <1>0, <1>6, <2>2, <2>3 DEF TypeOK, MemReallocFails
  <2>. QED
    BY <1>6, <2>4, QuietStepKeepsIInv DEF MemReallocFails, IInv, TypeOK, Statistic
<1>7. ASSUME NEW ns \in Namespace, NEW r \in Ref, MemReallocUnknown(ns, r)
      PROVE  IInv'
  <2>1. nsState' \in [Namespace -> {"absent", "present", "deleted"}]
    BY <1>0, <1>7, CheckNamespaceType DEF MemReallocUnknown
  <2>2. TypeOK'
    BY <1>0, <1>7, <2>1, NullRef DEF TypeOK, MemReallocUnknown
  <2>. QED
    BY <1>7, <2>2, QuietStepKeepsIInv DEF MemReallocUnknown
<1>8. ASSUME NEW r \in Ref, MemFree(r)
      PROVE  IInv'
  <2>1. PICK ns \in Namespace : \E b \in Find(ns, refs[r].ptr) : NamespaceFree(ns, b)
    BY <1>8 DEF MemFree
  <2>2. PICK b \in blocks[ns] : NamespaceFree(ns, b)
    BY <2>1 DEF Find
  <2>3. nsState' \in [Namespace -> {"absent", "present", "deleted"}]
    BY <1>0, <1>8 DEF MemFree, TypeOK
  <2>4. UNCHANGED <<phase, allocated, refs>>
    BY <1>8 DEF MemFree
  <2>. QED
    BY <2>2, <2>3, <2>4, NamespaceFreeKeepsIInv
<1>9. ASSUME NEW ns \in Namespace, NEW r \in Ref, MemFreeFrom(ns, r)
      PROVE  IInv'
  <2>1. nsState' \in [Namespace -> {"absent", "present", "deleted"}]
    BY <1>0, <1>9, CheckNamespaceType DEF MemFreeFrom
  <2>2. UNCHANGED <<phase, allocated, refs>>
    BY <1>9 DEF MemFreeFrom
  <2>3. CASE \E b \in Find(ns, refs[r].ptr) : NamespaceFree(ns, b)
    <3>1. PICK b \in blocks[ns] : NamespaceFree(ns, b)
      BY <2>3 DEF Find
    <3>. QED
      BY <2>1, <2>2, <3>1, NamespaceFreeKeepsIInv
  <2>4. CASE UNCHANGED <<blocks, statistic, heap, faults>>
    <3>1. TypeOK'
      BY <1>0, <2>1, <2>2, <2>4 DEF TypeOK
    <3>. QED
      BY <2>2, <2>4, <3>1, QuietStepKeepsIInv
  <2>. QED
    BY <1>9, <2>3, <2>4 DEF MemFreeFrom
<1>10. ASSUME NEW ns \in Namespace, MemPurgeNamespace(ns)
       PROVE  IInv'
  <2>1. nsState' \in [Namespace -> {"absent", "present", "deleted"}]
    BY <1>0, <1>10 DEF MemPurgeNamespace, TypeOK
  <2>. QED
    BY <1>10, <2>1, NamespacePurgeKeepsIInv DEF MemPurgeNamespace
<1>11. CASE Exit
  <2>1. TypeOK'
    BY <1>0, <1>11 DEF TypeOK, Exit
  <2>. QED
    BY <1>11, <2>1, QuietStepKeepsIInv DEF Exit
<1>12. ASSUME NEW ns \in Namespace, Cleanup(ns)
       PROVE  IInv'
  <2>1. nsState' \in [Namespace -> {"absent", "present", "deleted"}]
    BY <1>0, <1>12 DEF Cleanup, TypeOK
  <2>. QED
    BY <1>12, <2>1, NamespacePurgeKeepsIInv DEF Cleanup
<1>13. CASE CleanupDone
  <2>1. TypeOK'
    BY <1>0, <1>13 DEF TypeOK, CleanupDone
  <2>. QED
    BY <1>13, <2>1, QuietStepKeepsIInv DEF CleanupDone
<1>14. CASE UNCHANGED vars
  <2>1. TypeOK'
    BY <1>0, <1>14 DEF TypeOK, vars
  <2>. QED
    BY <1>14, <2>1, QuietStepKeepsIInv DEF vars
<1>. QED
  BY <1>1, <1>2, <1>3, <1>4, <1>5, <1>6, <1>7, <1>8, <1>9, <1>10, <1>11,
     <1>12, <1>13, <1>14 DEF Next

LEMMA InitIInv == Init => IInv
<1>. SUFFICES ASSUME Init PROVE IInv
  OBVIOUS
<1>1. TypeOK
  <2>1. NoStatistic \in Statistic /\ 0 \in 0 .. MaxAllocs
    BY BoundsAssumption DEF NoStatistic, Statistic
  <2>. QED
    BY <2>1 DEF Init, TypeOK, Free, Null
<1>2. HeapInv
  BY DEF Init, HeapInv, HeapCells, DistinctObjects, EveryBlockTrackedOnce,
         NoDanglingBlock, NoSharedBlock, NoLostBlock, NoHeapMisuse, Free
<1>3. StatInv
  BY FS_EmptySet DEF Init, StatInv, FiniteBlocks, StatisticsBalance, NoStatistic
<1>. QED
  BY <1>1, <1>2, <1>3 DEF IInv

\* The inductive invariant holds in every reachable state.
THEOREM Invariance == Spec => []IInv
BY InitIInv, NextKeepsIInv, PTL DEF Spec

\* The variables of the cache keep their types (src/src/mem/cache.c:14-38).
THEOREM TypeCorrect == Spec => []TypeOK
<1>1. IInv => TypeOK
  BY DEF IInv
<1>. QED
  BY <1>1, Invariance, PTL

\* Whatever the callers free, reallocate or purge, every live object is in
\* the table of exactly one namespace and every table entry is live.
THEOREM TrackedOnce == Spec => []EveryBlockTrackedOnce
<1>1. IInv => EveryBlockTrackedOnce
  BY DEF IInv, HeapInv
<1>. QED
  BY <1>1, Invariance, PTL

\* The cache never frees a free address, not even for a pointer that a caller
\* frees twice, and never uses the destructor of another kind of block.
THEOREM HeapIsNeverMisused == Spec => []NoHeapMisuse
<1>1. IInv => NoHeapMisuse
  BY DEF IInv, HeapInv
<1>. QED
  BY <1>1, Invariance, PTL

\* The counters of a namespace account for every block it allocated.
THEOREM StatisticsAreBalanced == Spec => []StatisticsBalance
<1>1. IInv => StatisticsBalance
  BY DEF IInv, StatInv
<1>. QED
  BY <1>1, Invariance, PTL

-----------------------------------------------------------------------------
(* MemCache implements Arena: proof of the refinement that the run checks  *)
(* on an instance.                                                         *)

LEMMA InitRefines == Init => A!Init
<1>. SUFFICES ASSUME Init PROVE A!Init
  OBVIOUS
<1>1. \A ns \in Namespace : ObjectsOf(ns) = {}
  BY DEF Init, ObjectsOf
<1>2. 1 .. allocated = {}
  BY DEF Init
<1>. QED
  BY <1>1, <1>2 DEF A!Init

\* A step that keeps the objects of every namespace is a stutter.
LEMMA SameObjects ==
  ASSUME \A ns \in Namespace : ObjectsOf(ns)' = ObjectsOf(ns),
         allocated' = allocated
  PROVE  UNCHANGED A!vars
BY DEF A!vars

LEMMA NewBlockRefines ==
  ASSUME IInv, NEW ns \in Namespace, NEW kind \in Kind, NEW a \in Addr,
         NEW r \in Ref, NewBlock(ns, kind, a, r)
  PROVE  A!Next
<1>. DEFINE b == [ptr |-> a, kind |-> kind]
            o == allocated + 1
<1>1. /\ o \in 1 .. MaxAllocs
      /\ o \notin 1 .. allocated
      /\ 1 .. allocated' = (1 .. allocated) \cup {o}
  <2>1. allocated \in Nat /\ allocated < MaxAllocs /\ allocated' = allocated + 1
    BY BoundsAssumption DEF IInv, TypeOK, NewBlock
  <2>2. o \in 1 .. MaxAllocs /\ o \notin 1 .. allocated
    BY <2>1, BoundsAssumption
  <2>3. \A i \in Int : i \in 1 .. (allocated + 1) <=> i \in 1 .. allocated \/ i = o
    BY <2>1
  <2>4. 1 .. (allocated + 1) = (1 .. allocated) \cup {o}
    BY <2>1, <2>3
  <2>. QED
    BY <2>1, <2>2, <2>4
<1>2. heap'[a].id = o /\ \A c \in Addr : c # a => heap'[c] = heap[c]
  BY DEF IInv, TypeOK, NewBlock
<1>3. \A m \in Namespace : \A c \in blocks[m] : c.ptr \in Addr /\ c.ptr # a
  BY DEF IInv, TypeOK, HeapInv, EveryBlockTrackedOnce, NoDanglingBlock, NewBlock,
         Free, Block
<1>4. /\ blocks'[ns] = blocks[ns] \cup {b}
      /\ \A m \in Namespace : m # ns => blocks'[m] = blocks[m]
  BY DEF IInv, TypeOK, NewBlock
<1>5. \A m \in Namespace : \A c \in blocks[m] : heap'[c.ptr] = heap[c.ptr]
  BY <1>2, <1>3
<1>6. ObjectsOf(ns)' = ObjectsOf(ns) \cup {o}
  <2>1. ObjectsOf(ns)' = {heap'[c.ptr].id : c \in blocks[ns]} \cup {heap'[b.ptr].id}
    BY <1>4 DEF ObjectsOf
  <2>2. {heap'[c.ptr].id : c \in blocks[ns]} = ObjectsOf(ns)
    BY <1>5 DEF ObjectsOf
  <2>3. heap'[b.ptr].id = o
    BY <1>2
  <2>. QED
    BY <2>1, <2>2, <2>3
<1>7. \A m \in Namespace : m # ns => ObjectsOf(m)' = ObjectsOf(m)
  BY <1>4, <1>5 DEF ObjectsOf
<1>8. A!Create(ns, o)
  BY <1>1, <1>6, <1>7 DEF A!Create
<1>. QED
  BY <1>1, <1>8 DEF A!Next

\* Releasing a set of blocks of one namespace removes exactly their objects.
LEMMA ReleasedObjects ==
  ASSUME IInv, NEW ns \in Namespace, NEW bs \in SUBSET blocks[ns], FreeBlocks(bs),
         blocks' = [blocks EXCEPT ![ns] = @ \ bs]
  PROVE  /\ ObjectsOf(ns)' = ObjectsOf(ns) \ {heap[b.ptr].id : b \in bs}
         /\ \A m \in Namespace : m # ns => ObjectsOf(m)' = ObjectsOf(m)
<1>1. \A a \in Addr : ~(\E b \in bs : b.ptr = a) => heap'[a] = heap[a]
  BY FreeBlocksEffect DEF IInv
<1>2. /\ blocks'[ns] = blocks[ns] \ bs
      /\ \A m \in Namespace : m # ns => blocks'[m] = blocks[m]
      /\ \A m \in Namespace : \A b \in blocks[m] : b.ptr \in Addr
  BY DEF IInv, TypeOK, Block
<1>3. \A m \in Namespace : \A c \in blocks'[m] : \A b \in bs :
        c \in blocks[m] /\ b.ptr # c.ptr
  <2>. SUFFICES ASSUME NEW m \in Namespace, NEW c \in blocks'[m], NEW b \in bs,
                       b.ptr = c.ptr
                PROVE  FALSE
    BY <1>2
  <2>1. m = ns /\ b = c
    BY <1>2 DEF IInv, HeapInv, EveryBlockTrackedOnce, NoSharedBlock
  <2>. QED
    BY <1>2, <2>1
<1>4. \A m \in Namespace : \A c \in blocks'[m] :
        c \in blocks[m] /\ c.ptr \in Addr /\ heap'[c.ptr] = heap[c.ptr]
  BY <1>1, <1>2, <1>3
<1>5. \A c \in blocks[ns] \ bs : \A b \in bs : heap[c.ptr].id # heap[b.ptr].id
  <2>. SUFFICES ASSUME NEW c \in blocks[ns] \ bs, NEW b \in bs,
                       heap[c.ptr].id = heap[b.ptr].id
                PROVE  FALSE
    OBVIOUS
  <2>1. c.ptr = b.ptr
    BY <1>2 DEF IInv, HeapInv, DistinctObjects, EveryBlockTrackedOnce, NoDanglingBlock
  <2>. QED
    BY <1>2, <1>3, <2>1
<1>6. ObjectsOf(ns)' = {heap[c.ptr].id : c \in blocks[ns] \ bs}
  BY <1>2, <1>4 DEF ObjectsOf
<1>7. ObjectsOf(ns)' = ObjectsOf(ns) \ {heap[b.ptr].id : b \in bs}
  BY <1>5, <1>6 DEF ObjectsOf
<1>8. \A m \in Namespace : m # ns => ObjectsOf(m)' = ObjectsOf(m)
  BY <1>2, <1>4 DEF ObjectsOf
<1>. QED
  BY <1>7, <1>8

LEMMA NamespaceFreeRefines ==
  ASSUME IInv, NEW ns \in Namespace, NEW b \in blocks[ns], NamespaceFree(ns, b),
         allocated' = allocated
  PROVE  A!Next
<1>. DEFINE o == heap[b.ptr].id
<1>1. /\ ObjectsOf(ns)' = ObjectsOf(ns) \ {o}
      /\ \A m \in Namespace : m # ns => ObjectsOf(m)' = ObjectsOf(m)
  <2>1. /\ {b} \in SUBSET blocks[ns]
        /\ FreeBlocks({b})
        /\ blocks' = [blocks EXCEPT ![ns] = @ \ {b}]
    BY DEF NamespaceFree
  <2>2. {heap[c.ptr].id : c \in {b}} = {o}
    OBVIOUS
  <2>. QED
    BY <2>1, <2>2, ReleasedObjects
<1>2. o \in ObjectsOf(ns)
  BY DEF ObjectsOf
<1>3. b.ptr \in Addr /\ o # 0
  BY DEF IInv, TypeOK, Block, HeapInv, EveryBlockTrackedOnce, NoDanglingBlock
<1>4. o \in 1 .. MaxAllocs
  <2>1. o \in 1 .. allocated /\ allocated \in 0 .. MaxAllocs
    BY <1>3 DEF IInv, TypeOK, HeapInv, HeapCells
  <2>. QED
    BY <2>1, BoundsAssumption
<1>5. A!Release(ns, o)
  BY <1>1, <1>2 DEF A!Release
<1>. QED
  BY <1>4, <1>5 DEF A!Next

LEMMA NamespacePurgeRefines ==
  ASSUME IInv, NEW ns \in Namespace, NamespacePurge(ns), allocated' = allocated
  PROVE  A!Next
<1>1. blocks' = [blocks EXCEPT ![ns] = @ \ blocks[ns]]
  BY DEF NamespacePurge, IInv, TypeOK
<1>2. /\ ObjectsOf(ns)' = ObjectsOf(ns) \ {heap[b.ptr].id : b \in blocks[ns]}
      /\ \A m \in Namespace : m # ns => ObjectsOf(m)' = ObjectsOf(m)
  BY <1>1, ReleasedObjects DEF NamespacePurge
<1>3. ObjectsOf(ns)' = {}
  BY <1>2 DEF ObjectsOf
<1>4. A!ReleaseRegion(ns)
  BY <1>2, <1>3 DEF A!ReleaseRegion
<1>. QED
  BY <1>4 DEF A!Next

\* A reallocation moves an object, so it is invisible to the arena.
LEMMA MemReallocRefines ==
  ASSUME IInv, NEW ns \in Namespace, NEW r \in Ref, NEW a \in Addr,
         NEW keep \in BOOLEAN, MemRealloc(ns, r, a, keep)
  PROVE  UNCHANGED A!vars
<1>. DEFINE old == refs[r].ptr
<1>1. PICK b \in blocks[ns] :
        /\ b.ptr = old
        /\ a = old \/ heap[a] = Free
        /\ heap' = [heap EXCEPT ![old] = Free, ![a] = heap[old]]
        /\ blocks' = [blocks EXCEPT ![ns] = (@ \ {b}) \cup {[b EXCEPT !.ptr = a]}]
  BY DEF MemRealloc, Find
<1>. DEFINE c == [b EXCEPT !.ptr = a]
<1>2. b \in Block /\ c.ptr = a /\ old \in Addr
  BY <1>1 DEF IInv, TypeOK, Block
<1>3. /\ heap'[a] = heap[old]
      /\ \A d \in Addr : d # a /\ d # old => heap'[d] = heap[d]
      /\ a # old => heap[a].id = 0
  BY <1>1, <1>2 DEF IInv, TypeOK, Free
<1>4. \A m \in Namespace : \A d \in blocks[m] :
        d # b => d.ptr \in Addr /\ d.ptr # old /\ d.ptr # a
  BY <1>1, <1>2, <1>3
  DEF IInv, TypeOK, Block, HeapInv, EveryBlockTrackedOnce, NoDanglingBlock, NoSharedBlock
<1>5. /\ blocks'[ns] = (blocks[ns] \ {b}) \cup {c}
      /\ \A m \in Namespace : m # ns => blocks'[m] = blocks[m]
      /\ \A m \in Namespace : m # ns => b \notin blocks[m]
  BY <1>1 DEF IInv, TypeOK, HeapInv, EveryBlockTrackedOnce, NoSharedBlock
<1>6. \A m \in Namespace : \A d \in blocks[m] : d # b => heap'[d.ptr] = heap[d.ptr]
  BY <1>3, <1>4
<1>7. ObjectsOf(ns)' = ObjectsOf(ns)
  <2>1. ObjectsOf(ns)' = {heap'[d.ptr].id : d \in blocks[ns] \ {b}} \cup {heap'[c.ptr].id}
    BY <1>5 DEF ObjectsOf
  <2>2. {heap'[d.ptr].id : d \in blocks[ns] \ {b}} = {heap[d.ptr].id : d \in blocks[ns] \ {b}}
    BY <1>6
  <2>3. heap'[c.ptr].id = heap[b.ptr].id
    BY <1>1, <1>2, <1>3
  <2>4. ObjectsOf(ns) = {heap[d.ptr].id : d \in blocks[ns] \ {b}} \cup {heap[b.ptr].id}
    BY DEF ObjectsOf
  <2>. QED
    BY <2>1, <2>2, <2>3, <2>4
<1>8. \A m \in Namespace : m # ns => ObjectsOf(m)' = ObjectsOf(m)
  BY <1>5, <1>6 DEF ObjectsOf
<1>9. allocated' = allocated
  BY DEF MemRealloc
<1>. QED
  BY <1>7, <1>8, <1>9, SameObjects

LEMMA QuietStepRefines ==
  ASSUME UNCHANGED <<blocks, heap, allocated>>
  PROVE  UNCHANGED A!vars
BY SameObjects DEF ObjectsOf

-----------------------------------------------------------------------------
LEMMA NextRefines == IInv /\ [Next]_vars => [A!Next]_(A!vars)
<1>. SUFFICES ASSUME IInv, [Next]_vars PROVE A!Next \/ UNCHANGED A!vars
  OBVIOUS
<1>1. ASSUME NEW ns \in Namespace, NEW a \in Addr, NEW r \in Ref, MemAlloc(ns, a, r)
      PROVE  A!Next
  BY <1>1, NewBlockRefines DEF MemAlloc, Kind
<1>2. ASSUME NEW ns \in Namespace, NEW kind \in {"GLIB_Array", "GLIB_HashTable"},
             NEW a \in Addr, NEW r \in Ref, MemNewGlib(ns, kind, a, r)
      PROVE  A!Next
  BY <1>2, NewBlockRefines DEF MemNewGlib, Kind
<1>3. ASSUME NEW ns \in Namespace, NEW r \in Ref, NEW a \in Addr,
             NEW keep \in BOOLEAN, MemRealloc(ns, r, a, keep)
      PROVE  UNCHANGED A!vars
  BY <1>3, MemReallocRefines
<1>4. ASSUME NEW r \in Ref, MemFree(r)
      PROVE  A!Next
  <2>1. PICK ns \in Namespace : \E b \in blocks[ns] : NamespaceFree(ns, b)
    BY <1>4 DEF MemFree, Find
  <2>. QED
    BY <1>4, <2>1, NamespaceFreeRefines DEF MemFree
<1>5. ASSUME NEW ns \in Namespace, NEW r \in Ref, MemFreeFrom(ns, r)
      PROVE  A!Next \/ UNCHANGED A!vars
  <2>1. CASE \E b \in blocks[ns] : NamespaceFree(ns, b)
    BY <1>5, <2>1, NamespaceFreeRefines DEF MemFreeFrom
  <2>2. CASE UNCHANGED <<blocks, statistic, heap, faults>>
    BY <1>5, <2>2, QuietStepRefines DEF MemFreeFrom
  <2>. QED
    BY <1>5, <2>1, <2>2 DEF MemFreeFrom, Find
<1>6. ASSUME NEW ns \in Namespace, MemPurgeNamespace(ns)
      PROVE  A!Next
  BY <1>6, NamespacePurgeRefines DEF MemPurgeNamespace
<1>7. ASSUME NEW ns \in Namespace, Cleanup(ns)
      PROVE  A!Next
  BY <1>7, NamespacePurgeRefines DEF Cleanup
<1>8. ASSUME \/ \E ns \in Namespace, r \in Ref : MemAllocFails(ns, r)
             \/ \E ns \in Namespace : MemCloneFails(ns)
             \/ \E ns \in Namespace, r \in Ref, keep \in BOOLEAN : MemReallocFails(ns, r, keep)
             \/ \E ns \in Namespace, r \in Ref : MemReallocUnknown(ns, r)
             \/ Exit
             \/ CleanupDone
             \/ UNCHANGED vars
      PROVE  UNCHANGED A!vars
  <2>1. UNCHANGED <<blocks, heap, allocated>>
    BY <1>8 DEF MemAllocFails, MemCloneFails, MemReallocFails, MemReallocUnknown,
                Exit, CleanupDone, vars
  <2>. QED
    BY <2>1, QuietStepRefines
<1>. QED
  BY <1>1, <1>2, <1>3, <1>4, <1>5, <1>6, <1>7, <1>8 DEF Next

\* The cache implements the arena: an object belongs to one namespace from its
\* allocation to its release, reallocation does not change its identity, and a
\* purge releases exactly the objects of the namespace that is purged.
THEOREM Refinement == Spec => ImplementsArena
BY InitRefines, NextRefines, Invariance, PTL DEF Spec, ImplementsArena, A!Spec
=============================================================================
