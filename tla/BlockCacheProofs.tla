-------------------------- MODULE BlockCacheProofs --------------------------
(***************************************************************************)
(* Proofs that the multithreaded block cache is memory safe and hands out  *)
(* the right blocks, for any number of threads, keys, slots and blocks and *)
(* any hash function.                                                      *)
(***************************************************************************)
EXTENDS BlockCache, FiniteSetTheorems, TLAPS

-----------------------------------------------------------------------------
(* Facts about sets of threads, which is what references are counted by.   *)

(* Any set of threads is finite and is counted by a natural number that is *)
(* zero only for the empty set.                                            *)
LEMMA ThreadSetFinite ==
    ASSUME NEW S \in SUBSET Threads
    PROVE  /\ IsFiniteSet(S)
           /\ Cardinality(S) \in Nat
           /\ Cardinality(S) = 0 <=> S = {}
<1>1. IsFiniteSet(S)
  BY FS_Subset, ThreadsAssumption
<1>2. QED
  BY <1>1, FS_CardinalityType, FS_EmptySet

(* One more thread is one more reference.                                  *)
LEMMA AddThread ==
    ASSUME NEW S \in SUBSET Threads, NEW t \in Threads, t \notin S
    PROVE  Cardinality(S \cup {t}) = Cardinality(S) + 1
  BY ThreadSetFinite, FS_AddElement

(* One thread less is one reference less.                                  *)
LEMMA RemoveThread ==
    ASSUME NEW S \in SUBSET Threads, NEW t \in S
    PROVE  Cardinality(S \ {t}) = Cardinality(S) - 1
  BY ThreadSetFinite, FS_RemoveElement

-----------------------------------------------------------------------------
(* The inductive invariant holds initially: every slot is EMPTY and no     *)
(* thread is inside the library.                                           *)
LEMMA InitIInv == Init => IInv
<1> SUFFICES ASSUME Init PROVE IInv
  OBVIOUS
<1>1. TypeOK
  BY DEF Init, TypeOK, Steps
<1>2. ThreadsOK
  BY DEF Init, ThreadsOK, InSlot
<1>3. CacheCoherent /\ EntriesDistinct /\ HeldIsWanted /\ FreeingOK /\ ClosedOK
  BY DEF Init, CacheCoherent, EntriesDistinct, HeldIsWanted, FreeingOK, ClosedOK,
         Holding, Freeing
<1>4. CountOK
  <2>1. \A b \in Blocks : CacheRefs(b) = {} /\ ThreadRefs(b) = {}
    BY DEF Init, CacheRefs, ThreadRefs, Holding
  <2>2. \A b \in Blocks : CacheCount(b) = 0 /\ Cardinality(ThreadRefs(b)) = 0
    BY <2>1, FS_EmptySet DEF CacheCount
  <2>3. QED
    BY <2>2 DEF Init, CountOK
<1>5. HeapOK
  BY DEF Init, HeapOK, Freeing
<1>6. QED
  BY <1>1, <1>2, <1>3, <1>4, <1>5 DEF IInv

-----------------------------------------------------------------------------

(* A step that leaves FULL entries, references and blocks alone keeps the  *)
(* parts of the invariant that speak only of them.                         *)
Quiet ==
    /\ UNCHANGED <<state, heap, refcount, contents, held>>
    /\ \A s \in Slots : state[s] = "FULL" => idx'[s] = idx[s] /\ entry'[s] = entry[s]
    /\ \A u \in Threads : /\ Holding(u)' = Holding(u)
                          /\ Freeing(u)' = Freeing(u)
                          /\ Holding(u) => want'[u] = want[u]

BlocksOK == /\ CacheCoherent
            /\ EntriesDistinct
            /\ HeldIsWanted
            /\ CountOK
            /\ FreeingOK
            /\ HeapOK

LEMMA QuietStep == ASSUME IInv, Quiet PROVE BlocksOK'
<1> USE DEF IInv, Quiet
<1>1. CacheCoherent' /\ EntriesDistinct'
  BY DEF CacheCoherent, EntriesDistinct
<1>2. HeldIsWanted'
  BY DEF HeldIsWanted
<1>3. CountOK'
  <2>1. \A b : ThreadRefs(b)' = ThreadRefs(b) /\ CacheRefs(b)' = CacheRefs(b)
    BY DEF ThreadRefs, CacheRefs
  <2>2. QED
    BY <2>1 DEF CountOK, CacheCount
<1>4. FreeingOK' /\ HeapOK'
  BY DEF FreeingOK, HeapOK
<1>5. QED
  BY <1>1, <1>2, <1>3, <1>4 DEF BlocksOK

(* The actions that touch neither references nor FULL entries.             *)
LEMMA CallIInv == ASSUME IInv, NEW t \in Threads, Call(t) PROVE IInv'
<1> USE DEF IInv, Call, cacheVars, heapVars, Goto
<1>1. TypeOK'
  BY DEF TypeOK, Steps
<1>2. ThreadsOK'
  BY SlotOfAssumption, ThreadsAssumption DEF TypeOK, ThreadsOK, InSlot, SlotFor
<1>3. ClosedOK'
  BY DEF ClosedOK
<1>4. Quiet
  BY DEF Quiet, TypeOK, Holding, Freeing
<1>5. QED
  BY <1>1, <1>2, <1>3, <1>4, QuietStep DEF BlocksOK

LEMMA LockIInv == ASSUME IInv, NEW t \in Threads, Lock(t) PROVE IInv'
<1> USE DEF IInv, Lock, heapVars, Goto
<1>1. TypeOK'
  BY DEF TypeOK, Steps
<1>2. ThreadsOK'
  BY SlotOfAssumption, ThreadsAssumption DEF TypeOK, ThreadsOK, InSlot, SlotFor
<1>3. ClosedOK'
  BY DEF ClosedOK
<1>4. Quiet
  BY DEF Quiet, TypeOK, Holding, Freeing
<1>5. QED
  BY <1>1, <1>2, <1>3, <1>4, QuietStep DEF BlocksOK

LEMMA LookHitIInv == ASSUME IInv, NEW t \in Threads, LookHit(t) PROVE IInv'
<1> USE DEF IInv, LookHit, cacheVars, heapVars, Goto
<1>1. TypeOK'
  BY DEF TypeOK, Steps
<1>2. ThreadsOK'
  BY SlotOfAssumption, ThreadsAssumption DEF TypeOK, ThreadsOK, InSlot, SlotFor
<1>3. ClosedOK'
  BY DEF ClosedOK
<1>4. Quiet
  BY DEF Quiet, TypeOK, Holding, Freeing
<1>5. QED
  BY <1>1, <1>2, <1>3, <1>4, QuietStep DEF BlocksOK

LEMMA PutIInv == ASSUME IInv, NEW t \in Threads, Put(t) PROVE IInv'
<1> USE DEF IInv, Put, heapVars, Goto
<1>1. TypeOK'
  BY DEF TypeOK, Steps
<1>2. ThreadsOK'
  BY SlotOfAssumption, ThreadsAssumption DEF TypeOK, ThreadsOK, InSlot, SlotFor
<1>3. ClosedOK'
  BY DEF ClosedOK
<1>4. Quiet
  BY DEF Quiet, TypeOK, Holding, Freeing
<1>5. QED
  BY <1>1, <1>2, <1>3, <1>4, QuietStep DEF BlocksOK

LEMMA LookEmptyIInv == ASSUME IInv, NEW t \in Threads, LookEmpty(t) PROVE IInv'
<1> USE DEF IInv, LookEmpty, heapVars, Goto
<1>1. TypeOK'
  BY DEF TypeOK, Steps
<1>2. ThreadsOK'
  BY SlotOfAssumption, ThreadsAssumption DEF TypeOK, ThreadsOK, InSlot, SlotFor
<1>3. ClosedOK'
  BY DEF ClosedOK
<1>4. Quiet
  BY SlotOfAssumption DEF Quiet, TypeOK, Holding, Freeing, ThreadsOK, SlotFor
<1>5. QED
  BY <1>1, <1>2, <1>3, <1>4, QuietStep DEF BlocksOK

LEMMA ReadFailIInv == ASSUME IInv, NEW t \in Threads, ReadFail(t) PROVE IInv'
<1> USE DEF IInv, ReadFail, heapVars, Goto
<1>1. TypeOK'
  BY DEF TypeOK, Steps
<1>2. ThreadsOK'
  BY SlotOfAssumption, ThreadsAssumption DEF TypeOK, ThreadsOK, InSlot, SlotFor
<1>3. ClosedOK'
  BY DEF ClosedOK
<1>4. Quiet
  BY SlotOfAssumption DEF Quiet, TypeOK, Holding, Freeing, ThreadsOK, SlotFor
<1>5. QED
  BY <1>1, <1>2, <1>3, <1>4, QuietStep DEF BlocksOK

-----------------------------------------------------------------------------
(* A thread takes a reference: its slot is FULL, so the block is allocated *)
(* and its count goes from n to n + 1 with the thread's own membership.    *)
LEMMA RefIInv == ASSUME IInv, NEW t \in Threads, Ref(t) PROVE IInv'
<1> USE DEF IInv, Ref, cacheVars, Goto
<1> DEFINE s == SlotFor(t)
           b == entry[s]
<1>1. /\ s \in Slots /\ state[s] = "FULL" /\ idx[s] = want[t] /\ want[t] \in Keys
      /\ b \in heap /\ b \in Blocks /\ contents[b] = want[t]
  BY SlotOfAssumption DEF ThreadsOK, CacheCoherent, SlotFor, TypeOK
<1>2. TypeOK'
  BY <1>1 DEF TypeOK, Steps
<1>3. ThreadsOK'
  BY DEF TypeOK, ThreadsOK, InSlot, SlotFor
<1>4. CacheCoherent' /\ EntriesDistinct' /\ ClosedOK'
  BY DEF CacheCoherent, EntriesDistinct, ClosedOK
<1>5. HeldIsWanted'
  BY <1>1 DEF HeldIsWanted, Holding, TypeOK
<1>6. t \notin ThreadRefs(b)
  BY DEF ThreadRefs, Holding
<1>7. \A c \in Blocks :
         ThreadRefs(c)' = IF c = b THEN ThreadRefs(c) \cup {t} ELSE ThreadRefs(c)
  BY DEF ThreadRefs, Holding, TypeOK
<1>8. \A c \in Blocks : CacheCount(c)' = CacheCount(c)
  BY DEF CacheCount, CacheRefs
<1>9. \A c \in Blocks : Cardinality(ThreadRefs(c)) \in Nat
  BY ThreadSetFinite DEF ThreadRefs
<1>10. \A c \in Blocks : c = b =>
          Cardinality(ThreadRefs(c)') = Cardinality(ThreadRefs(c)) + 1
  <2>1. \A c \in Blocks : ThreadRefs(c) \in SUBSET Threads
    BY DEF ThreadRefs
  <2>2. QED
    BY <2>1, <1>6, <1>7, AddThread
<1>11. CountOK'
  <2> SUFFICES ASSUME NEW c \in Blocks
               PROVE  refcount'[c] = CacheCount(c)' + Cardinality(ThreadRefs(c)')
    BY DEF CountOK
  <2>1. CASE c = b
    BY <2>1, <1>1, <1>8, <1>9, <1>10 DEF CountOK, TypeOK, CacheCount
  <2>2. CASE c # b
    BY <2>2, <1>1, <1>7, <1>8 DEF CountOK, TypeOK
  <2>3. QED
    BY <2>1, <2>2
<1>12. \A u \in Threads : /\ Freeing(u)' = Freeing(u)
                          /\ Freeing(u) => held'[u] = held[u]
  BY DEF Freeing, TypeOK
<1>13. refcount[b] > 0
  BY <1>1, <1>9 DEF CountOK, CacheCount, CacheRefs, TypeOK
<1>14. FreeingOK'
  BY <1>12, <1>13 DEF FreeingOK, TypeOK
<1>15. HeapOK'
  BY <1>1, <1>12, <1>13 DEF HeapOK, TypeOK
<1>16. QED
  BY <1>2, <1>3, <1>4, <1>5, <1>11, <1>14, <1>15

-----------------------------------------------------------------------------
(* A caller drops its reference.  When that was the last one nobody else   *)
(* can reach the block, and the caller alone goes on to free it.           *)
LEMMA DisposeIInv == ASSUME IInv, NEW t \in Threads, Dispose(t) PROVE IInv'
<1> USE DEF IInv, Dispose, cacheVars, Goto, Deref, IsLast
<1> DEFINE b == held[t]
<1>1. Holding(t) /\ b \in heap /\ b \in Blocks
  BY DEF Holding, HeldIsWanted, TypeOK
<1>2. \A c \in Blocks : /\ Cardinality(ThreadRefs(c)) \in Nat
                        /\ ThreadRefs(c) \in SUBSET Threads
  BY ThreadSetFinite DEF ThreadRefs
<1>3. t \in ThreadRefs(b)
  BY <1>1 DEF ThreadRefs
<1>4. \A c \in Blocks :
         ThreadRefs(c)' = IF c = b THEN ThreadRefs(c) \ {t} ELSE ThreadRefs(c)
  BY DEF ThreadRefs, Holding, TypeOK
<1>5. \A c \in Blocks : c = b =>
         Cardinality(ThreadRefs(c)') = Cardinality(ThreadRefs(c)) - 1
  BY <1>2, <1>3, <1>4, RemoveThread
<1>6. \A c \in Blocks : CacheCount(c)' = CacheCount(c) /\ CacheCount(c) \in {0, 1}
  BY DEF CacheCount, CacheRefs
<1>7. refcount[b] > 0
  <2>1. Cardinality(ThreadRefs(b)) # 0
    BY <1>1, <1>2, <1>3, ThreadSetFinite
  <2>2. QED
    BY <2>1, <1>1, <1>2, <1>6 DEF CountOK
<1>8. TypeOK'
  BY <1>1, <1>7 DEF TypeOK, Steps
<1>9. ThreadsOK'
  BY DEF TypeOK, ThreadsOK, InSlot, SlotFor
<1>10. CacheCoherent' /\ EntriesDistinct' /\ ClosedOK'
  BY DEF CacheCoherent, EntriesDistinct, ClosedOK
<1>11. HeldIsWanted'
  BY DEF HeldIsWanted, Holding, TypeOK
<1>12. CountOK'
  <2> SUFFICES ASSUME NEW c \in Blocks
               PROVE  refcount'[c] = CacheCount(c)' + Cardinality(ThreadRefs(c)')
    BY DEF CountOK
  <2>1. CASE c = b
    BY <2>1, <1>1, <1>2, <1>5, <1>6 DEF CountOK, TypeOK
  <2>2. CASE c # b
    BY <2>2, <1>1, <1>4, <1>6 DEF CountOK, TypeOK
  <2>3. QED
    BY <2>1, <2>2
<1>13. \A u \in Threads \ {t} : /\ Freeing(u)' = Freeing(u)
                                /\ held'[u] = held[u]
  BY DEF Freeing, TypeOK
<1>14. Freeing(t)' <=> refcount'[b] = 0
  BY <1>1, <1>7 DEF Freeing, TypeOK
<1>15. Freeing(t)' => held'[t] = b
  BY <1>1, <1>7 DEF Freeing, TypeOK
<1>16. FreeingOK'
  BY <1>1, <1>7, <1>13, <1>14, <1>15 DEF FreeingOK, TypeOK
<1>17. HeapOK'
  <2> SUFFICES ASSUME NEW c \in Blocks
               PROVE  c \in heap <=> \/ refcount'[c] > 0
                                    \/ \E u \in Threads : Freeing(u)' /\ held'[u] = c
    BY DEF HeapOK
  <2>1. CASE c = b
    BY <2>1, <1>1, <1>7, <1>14, <1>15 DEF TypeOK
  <2>2. CASE c # b
    BY <2>2, <1>1, <1>13, <1>15 DEF HeapOK, TypeOK, Freeing
  <2>3. QED
    BY <2>1, <2>2
<1>18. QED
  BY <1>8, <1>9, <1>10, <1>11, <1>12, <1>16, <1>17

(* An eviction drops the cache's reference.  No other entry has the block, *)
(* so the block is out of the cache and its count is that of its holders.  *)
LEMMA LookCollisionIInv == ASSUME IInv, NEW t \in Threads, LookCollision(t) PROVE IInv'
<1> USE DEF IInv, LookCollision, Goto, Deref, IsLast
<1> DEFINE s == SlotFor(t)
           b == entry[s]
<1>1. /\ s \in Slots /\ want[t] \in Keys /\ lock[s] = t
      /\ b \in heap /\ b \in Blocks
  BY SlotOfAssumption DEF ThreadsOK, CacheCoherent, SlotFor, TypeOK, InSlot
<1>2. \A c \in Blocks : /\ Cardinality(ThreadRefs(c)) \in Nat
                        /\ ThreadRefs(c)' = ThreadRefs(c)
  BY ThreadSetFinite DEF ThreadRefs, Holding, TypeOK
<1>3. \A c \in Blocks : CacheCount(c)' = IF c = b THEN 0 ELSE CacheCount(c)
  BY <1>1 DEF CacheCount, CacheRefs, EntriesDistinct, TypeOK
<1>4. CacheCount(b) = 1
  BY <1>1 DEF CacheCount, CacheRefs
<1>5. refcount[b] > 0
  BY <1>1, <1>2, <1>4 DEF CountOK
<1>6. TypeOK'
  BY <1>1, <1>5 DEF TypeOK, Steps
<1>7. ThreadsOK'
  BY <1>1 DEF TypeOK, ThreadsOK, InSlot, SlotFor
<1>8. CacheCoherent' /\ EntriesDistinct' /\ ClosedOK'
  BY <1>1 DEF CacheCoherent, EntriesDistinct, ClosedOK, TypeOK
<1>9. HeldIsWanted'
  BY DEF HeldIsWanted, Holding, TypeOK
<1>10. CountOK'
  <2> SUFFICES ASSUME NEW c \in Blocks
               PROVE  refcount'[c] = CacheCount(c)' + Cardinality(ThreadRefs(c)')
    BY DEF CountOK
  <2>1. CASE c = b
    BY <2>1, <1>1, <1>2, <1>3, <1>4 DEF CountOK, TypeOK
  <2>2. CASE c # b
    BY <2>2, <1>1, <1>2, <1>3 DEF CountOK, TypeOK
  <2>3. QED
    BY <2>1, <2>2
<1>11. \A u \in Threads \ {t} : /\ Freeing(u)' = Freeing(u)
                                /\ held'[u] = held[u]
  BY DEF Freeing, TypeOK
<1>12. Freeing(t)' <=> refcount'[b] = 0
  BY <1>1, <1>5 DEF Freeing, TypeOK
<1>13. (Freeing(t)' => held'[t] = b) /\ ~Freeing(t)
  BY <1>1, <1>5 DEF Freeing, TypeOK
<1>14. FreeingOK'
  BY <1>1, <1>5, <1>11, <1>12, <1>13 DEF FreeingOK, TypeOK
<1>15. HeapOK'
  <2> SUFFICES ASSUME NEW c \in Blocks
               PROVE  c \in heap <=> \/ refcount'[c] > 0
                                    \/ \E u \in Threads : Freeing(u)' /\ held'[u] = c
    BY DEF HeapOK
  <2>1. CASE c = b
    BY <2>1, <1>1, <1>5, <1>12, <1>13 DEF TypeOK
  <2>2. CASE c # b
    BY <2>2, <1>1, <1>11, <1>13 DEF HeapOK, TypeOK
  <2>3. QED
    BY <2>1, <2>2
<1>16. QED
  BY <1>6, <1>7, <1>8, <1>9, <1>10, <1>14, <1>15

-----------------------------------------------------------------------------
(* A block whose count is zero is in no entry and in no caller's hands, so *)
(* freeing it leaves everybody else's blocks allocated.                    *)
LEMMA EvictFreeIInv == ASSUME IInv, NEW t \in Threads, EvictFree(t) PROVE IInv'
<1> USE DEF IInv, EvictFree, cacheVars, Goto
<1> DEFINE b == held[t]
<1>1. Freeing(t) /\ b \in Blocks /\ refcount[b] = 0
  BY DEF Freeing, FreeingOK
<1>2. \A c \in Blocks : ThreadRefs(c)' = ThreadRefs(c) /\ CacheRefs(c)' = CacheRefs(c)
  BY DEF ThreadRefs, CacheRefs, Holding, TypeOK
<1>3. CacheRefs(b) = {} /\ ThreadRefs(b) = {}
  <2>1. ThreadRefs(b) \in SUBSET Threads
    BY DEF ThreadRefs
  <2>2. Cardinality(ThreadRefs(b)) = 0 /\ CacheRefs(b) = {}
    BY <1>1, <2>1, ThreadSetFinite DEF CountOK, CacheCount
  <2>3. QED
    BY <2>1, <2>2, ThreadSetFinite
<1>4. TypeOK'
  BY DEF TypeOK, Steps
<1>5. ThreadsOK'
  BY DEF TypeOK, ThreadsOK, InSlot, SlotFor
<1>6. CacheCoherent'
  BY <1>1, <1>3 DEF CacheCoherent, CacheRefs
<1>7. EntriesDistinct' /\ ClosedOK'
  BY DEF EntriesDistinct, ClosedOK
<1>8. HeldIsWanted'
  BY <1>1, <1>3 DEF HeldIsWanted, ThreadRefs, Holding, TypeOK
<1>9. CountOK'
  BY <1>2 DEF CountOK, CacheCount
<1>10. /\ ~Freeing(t)'
       /\ \A u \in Threads \ {t} : /\ Freeing(u)' = Freeing(u)
                                     /\ held'[u] = held[u]
  BY DEF Freeing, TypeOK
<1>11. FreeingOK'
  BY <1>10 DEF FreeingOK
<1>12. HeapOK'
  BY <1>1, <1>10 DEF HeapOK, FreeingOK
<1>13. QED
  BY <1>4, <1>5, <1>6, <1>7, <1>8, <1>9, <1>11, <1>12

LEMMA FreeIInv == ASSUME IInv, NEW t \in Threads, Free(t) PROVE IInv'
<1> USE DEF IInv, Free, cacheVars, Goto
<1> DEFINE b == held[t]
<1>1. Freeing(t) /\ b \in Blocks /\ refcount[b] = 0
  BY DEF Freeing, FreeingOK
<1>2. \A c \in Blocks : ThreadRefs(c)' = ThreadRefs(c) /\ CacheRefs(c)' = CacheRefs(c)
  BY DEF ThreadRefs, CacheRefs, Holding, TypeOK
<1>3. CacheRefs(b) = {} /\ ThreadRefs(b) = {}
  <2>1. ThreadRefs(b) \in SUBSET Threads
    BY DEF ThreadRefs
  <2>2. Cardinality(ThreadRefs(b)) = 0 /\ CacheRefs(b) = {}
    BY <1>1, <2>1, ThreadSetFinite DEF CountOK, CacheCount
  <2>3. QED
    BY <2>1, <2>2, ThreadSetFinite
<1>4. TypeOK'
  BY DEF TypeOK, Steps
<1>5. ThreadsOK'
  BY DEF TypeOK, ThreadsOK, InSlot, SlotFor
<1>6. CacheCoherent'
  BY <1>1, <1>3 DEF CacheCoherent, CacheRefs
<1>7. EntriesDistinct' /\ ClosedOK'
  BY DEF EntriesDistinct, ClosedOK
<1>8. HeldIsWanted'
  BY <1>1, <1>3 DEF HeldIsWanted, ThreadRefs, Holding, TypeOK
<1>9. CountOK'
  BY <1>2 DEF CountOK, CacheCount
<1>10. /\ ~Freeing(t)'
       /\ \A u \in Threads \ {t} : /\ Freeing(u)' = Freeing(u)
                                     /\ held'[u] = held[u]
  BY DEF Freeing, TypeOK
<1>11. FreeingOK'
  BY <1>10 DEF FreeingOK
<1>12. HeapOK'
  BY <1>1, <1>10 DEF HeapOK, FreeingOK
<1>13. QED
  BY <1>4, <1>5, <1>6, <1>7, <1>8, <1>9, <1>11, <1>12

-----------------------------------------------------------------------------
(* A fresh block is not in the heap, hence in no entry and in nobody's     *)
(* hands; the slot it goes into was EMPTY.                                 *)
LEMMA ReadOkIInv == ASSUME IInv, NEW t \in Threads, ReadOk(t) PROVE IInv'
<1> USE DEF IInv, Goto
<1> DEFINE s == SlotFor(t)
<1>1. PICK b \in Blocks \ heap :
         /\ heap' = heap \cup {b}
         /\ refcount' = [refcount EXCEPT ![b] = 1]
         /\ contents' = [contents EXCEPT ![b] = want[t]]
         /\ entry' = [entry EXCEPT ![s] = b]
  BY DEF ReadOk
<1>2. /\ pc[t] = "read"
      /\ state' = [state EXCEPT ![s] = "FULL"]
      /\ pc' = [pc EXCEPT ![t] = "valid"]
      /\ UNCHANGED <<open, lock, idx, want, held>>
  BY DEF ReadOk
<1>3. /\ s \in Slots /\ want[t] \in Keys /\ SlotOf[want[t]] = s
      /\ lock[s] = t /\ state[s] = "EMPTY" /\ idx[s] = want[t]
  BY <1>2, SlotOfAssumption DEF ThreadsOK, SlotFor, InSlot
<1>4. refcount[b] = 0 /\ \A u \in Threads : ~(Freeing(u) /\ held[u] = b)
  BY DEF HeapOK, TypeOK
<1>5. \A c \in Blocks : ThreadRefs(c)' = ThreadRefs(c)
  BY <1>2 DEF ThreadRefs, Holding, TypeOK
<1>6. CacheRefs(b) = {} /\ ThreadRefs(b) = {}
  BY DEF CacheRefs, ThreadRefs, CacheCoherent, HeldIsWanted
<1>7. \A c \in Blocks : CacheCount(c)' = IF c = b THEN 1 ELSE CacheCount(c)
  BY <1>1, <1>2, <1>3 DEF CacheCount, CacheRefs, TypeOK
<1>8. TypeOK'
  BY <1>1, <1>2, <1>3 DEF TypeOK, Steps
<1>9. ThreadsOK'
  BY <1>2, <1>3 DEF TypeOK, ThreadsOK, InSlot, SlotFor
<1>10. CacheCoherent'
  BY <1>1, <1>2, <1>3 DEF CacheCoherent, TypeOK
<1>11. EntriesDistinct'
  BY <1>1, <1>2, <1>3 DEF EntriesDistinct, CacheCoherent, TypeOK
<1>12. HeldIsWanted'
  BY <1>1, <1>2 DEF HeldIsWanted, Holding, TypeOK
<1>13. CountOK'
  <2> SUFFICES ASSUME NEW c \in Blocks
               PROVE  refcount'[c] = CacheCount(c)' + Cardinality(ThreadRefs(c)')
    BY DEF CountOK
  <2>1. CASE c = b
    <3>1. Cardinality(ThreadRefs(c)') = 0
      BY <2>1, <1>5, <1>6, FS_EmptySet
    <3>2. QED
      BY <2>1, <3>1, <1>1, <1>7 DEF TypeOK
  <2>2. CASE c # b
    BY <2>2, <1>1, <1>5, <1>7 DEF CountOK, TypeOK
  <2>3. QED
    BY <2>1, <2>2
<1>14. \A u \in Threads : Freeing(u)' = Freeing(u) /\ held'[u] = held[u]
  BY <1>2 DEF Freeing, TypeOK
<1>15. FreeingOK'
  BY <1>1, <1>4, <1>14 DEF FreeingOK, TypeOK
<1>16. HeapOK'
  BY <1>1, <1>14 DEF HeapOK, TypeOK
<1>17. ClosedOK'
  BY <1>2 DEF ClosedOK
<1>18. QED
  BY <1>8, <1>9, <1>10, <1>11, <1>12, <1>13, <1>15, <1>16, <1>17

(* sqfs_destroy: with every thread outside the library the cache has the   *)
(* only references left, one per FULL entry.                               *)
LEMMA DestroyIInv == ASSUME IInv, Destroy PROVE IInv'
<1> USE DEF IInv, Destroy, threadVars
<1>1. \A b \in Blocks : ThreadRefs(b) = {} /\ ThreadRefs(b)' = {}
  BY DEF ThreadRefs, Holding
<1>2. \A b \in Blocks : Cardinality(ThreadRefs(b)) = 0 /\ Cardinality(ThreadRefs(b)') = 0
  BY <1>1, FS_EmptySet
<1>3. \A b \in Blocks : b \in CachedBlocks <=> CacheRefs(b) # {}
  BY DEF CachedBlocks, CacheRefs
<1>4. \A b \in Blocks : refcount[b] = IF b \in CachedBlocks THEN 1 ELSE 0
  BY <1>2, <1>3 DEF CountOK, CacheCount
<1>5. \A b \in Blocks : refcount'[b] = 0
  BY <1>4 DEF TypeOK
<1>6. \A b \in Blocks : CacheCount(b)' = 0
  BY DEF CacheCount, CacheRefs
<1>7. \A t \in Threads : ~Freeing(t) /\ ~Freeing(t)' /\ ~Holding(t)'
  BY DEF Freeing, Holding
<1>8. heap' = {}
  <2>1. \A b \in heap : b \in CachedBlocks /\ refcount[b] = 1
    BY <1>4, <1>7 DEF HeapOK, TypeOK
  <2>2. QED
    BY <2>1 DEF IsLast
<1>9. TypeOK'
  <2>1. refcount' \in [Blocks -> Nat]
    BY <1>5
  <2>2. QED
    BY <2>1, <1>8 DEF TypeOK
<1>10. ThreadsOK'
  BY DEF ThreadsOK, InSlot, SlotFor
<1>11. CacheCoherent' /\ EntriesDistinct' /\ HeldIsWanted' /\ ClosedOK' /\ FreeingOK'
  BY <1>7 DEF CacheCoherent, EntriesDistinct, HeldIsWanted, ClosedOK, FreeingOK
<1>12. CountOK'
  BY <1>2, <1>5, <1>6 DEF CountOK
<1>13. HeapOK'
  BY <1>5, <1>7, <1>8 DEF HeapOK
<1>14. QED
  BY <1>9, <1>10, <1>11, <1>12, <1>13

(* A step that changes nothing keeps the invariant.                        *)
LEMMA StutterIInv == ASSUME IInv, UNCHANGED vars PROVE IInv'
<1> USE DEF IInv, vars, cacheVars, heapVars, threadVars
<1>1. Quiet
  BY DEF Quiet, Holding, Freeing
<1>2. BlocksOK'
  BY <1>1, QuietStep
<1>3. TypeOK' /\ ThreadsOK' /\ ClosedOK'
  BY DEF TypeOK, ThreadsOK, ClosedOK, InSlot, SlotFor
<1>4. QED
  BY <1>2, <1>3 DEF BlocksOK

(* Every step of the cache preserves the invariant.                        *)
LEMMA NextIInv == IInv /\ [Next]_vars => IInv'
<1> SUFFICES ASSUME IInv, [Next]_vars PROVE IInv'
  OBVIOUS
<1>1. ASSUME NEW t \in Threads, Call(t) PROVE IInv'
  BY <1>1, CallIInv
<1>2. ASSUME NEW t \in Threads, Lock(t) PROVE IInv'
  BY <1>2, LockIInv
<1>3. ASSUME NEW t \in Threads, LookEmpty(t) PROVE IInv'
  BY <1>3, LookEmptyIInv
<1>4. ASSUME NEW t \in Threads, LookHit(t) PROVE IInv'
  BY <1>4, LookHitIInv
<1>5. ASSUME NEW t \in Threads, LookCollision(t) PROVE IInv'
  BY <1>5, LookCollisionIInv
<1>6. ASSUME NEW t \in Threads, EvictFree(t) PROVE IInv'
  BY <1>6, EvictFreeIInv
<1>7. ASSUME NEW t \in Threads, ReadOk(t) PROVE IInv'
  BY <1>7, ReadOkIInv
<1>8. ASSUME NEW t \in Threads, ReadFail(t) PROVE IInv'
  BY <1>8, ReadFailIInv
<1>9. ASSUME NEW t \in Threads, Ref(t) PROVE IInv'
  BY <1>9, RefIInv
<1>10. ASSUME NEW t \in Threads, Put(t) PROVE IInv'
  BY <1>10, PutIInv
<1>11. ASSUME NEW t \in Threads, Dispose(t) PROVE IInv'
  BY <1>11, DisposeIInv
<1>12. ASSUME NEW t \in Threads, Free(t) PROVE IInv'
  BY <1>12, FreeIInv
<1>13. CASE Destroy
  BY <1>13, DestroyIInv
<1>14. CASE Stopped \/ UNCHANGED vars
  BY <1>14, StutterIInv DEF Stopped
<1>15. QED
  BY <1>1, <1>2, <1>3, <1>4, <1>5, <1>6, <1>7, <1>8, <1>9, <1>10, <1>11, <1>12,
     <1>13, <1>14 DEF Next, Running

(* The inductive invariant holds in every state the cache can reach.       *)
THEOREM IInvAlways == Spec => []IInv
<1>1. Init => IInv
  BY InitIInv
<1>2. IInv /\ [Next]_vars => IInv'
  BY NextIInv
<1>3. QED
  BY <1>1, <1>2, PTL DEF Spec

-----------------------------------------------------------------------------
(* Every variable keeps its type; in particular no refcount goes negative. *)
THEOREM TypeCorrect == Spec => []TypeOK
  BY IInvAlways, PTL DEF IInv

(* Reference counts are exact, for any number of threads and slots.        *)
THEOREM RefcountCorrect == Spec => []RefcountExact
<1>1. IInv => RefcountExact
  <2> SUFFICES ASSUME IInv, NEW b \in Blocks
               PROVE  refcount[b] = Cardinality(CacheRefs(b)) + Cardinality(ThreadRefs(b))
    BY DEF RefcountExact
  <2>1. refcount[b] = CacheCount(b) + Cardinality(ThreadRefs(b))
    BY DEF IInv, CountOK
  <2>2. CASE CacheRefs(b) = {}
    <3>1. Cardinality(CacheRefs(b)) = 0
      BY <2>2, FS_EmptySet
    <3>2. QED
      BY <2>1, <2>2, <3>1 DEF CacheCount
  <2>3. CASE CacheRefs(b) # {}
    <3>1. PICK s \in Slots : s \in CacheRefs(b)
      BY <2>3 DEF CacheRefs
    <3>2. CacheRefs(b) = {s}
      BY <3>1 DEF CacheRefs, IInv, EntriesDistinct
    <3>3. Cardinality(CacheRefs(b)) = 1
      BY <3>2, FS_Singleton
    <3>4. QED
      BY <2>1, <2>3, <3>3 DEF CacheCount
  <2>4. QED
    BY <2>2, <2>3
<1>2. QED
  BY <1>1, IInvAlways, PTL

(* The heap holds what is referred to or being freed, and nothing else: no *)
(* use after free, no double free, no leak.                                *)
THEOREM HeapCorrect == Spec => []HeapExact
<1>1. IInv => HeapExact
  <2> SUFFICES ASSUME IInv PROVE HeapExact
    OBVIOUS
  <2>1. \A b \in Blocks : refcount[b] > 0 <=> CacheRefs(b) # {} \/ ThreadRefs(b) # {}
    <3> SUFFICES ASSUME NEW b \in Blocks
                 PROVE  refcount[b] > 0 <=> CacheRefs(b) # {} \/ ThreadRefs(b) # {}
      OBVIOUS
    <3>1. ThreadRefs(b) \in SUBSET Threads
      BY DEF ThreadRefs
    <3>2. /\ Cardinality(ThreadRefs(b)) \in Nat
          /\ Cardinality(ThreadRefs(b)) = 0 <=> ThreadRefs(b) = {}
      BY <3>1, ThreadSetFinite
    <3>3. refcount[b] = CacheCount(b) + Cardinality(ThreadRefs(b))
      BY DEF IInv, CountOK
    <3>4. QED
      BY <3>2, <3>3 DEF CacheCount
  <2>2. \A b \in Blocks :
           b \in heap <=> \/ CacheRefs(b) # {} \/ ThreadRefs(b) # {}
                         \/ \E t \in Threads : Freeing(t) /\ held[t] = b
    BY <2>1 DEF IInv, HeapOK
  <2>3. heap \subseteq Blocks /\ \A t \in Threads : Freeing(t) => held[t] \in Blocks
    BY DEF IInv, TypeOK, FreeingOK
  <2>4. heap = {b \in Blocks : CacheRefs(b) # {} \/ ThreadRefs(b) # {}}
                 \cup {held[t] : t \in {u \in Threads : Freeing(u)}}
    BY <2>2, <2>3
  <2>5. QED
    BY <2>4 DEF IInv, FreeingOK, HeapExact
<1>2. QED
  BY <1>1, IInvAlways, PTL

(* A caller reads the block it asked for, for as long as it holds it.      *)
THEOREM HeldCorrect == Spec => []HeldIsWanted
  BY IInvAlways, PTL DEF IInv

(* FULL entries hold the image's block for their key.                      *)
THEOREM CacheCorrect == Spec => []CacheCoherent
  BY IInvAlways, PTL DEF IInv

(* The asserts of cache_mt.c cannot fail.                                  *)
THEOREM AssertsCorrect == Spec => []AssertsHold
<1>1. IInv => AssertsHold
  BY DEF IInv, ThreadsOK, AssertsHold
<1>2. QED
  BY <1>1, IInvAlways, PTL

(* sqfs_destroy leaves nothing allocated.                                  *)
THEOREM DestroyFreesAll == Spec => []NothingLeaks
<1>1. IInv => NothingLeaks
  <2> SUFFICES ASSUME IInv, ~open PROVE heap = {}
    BY DEF NothingLeaks
  <2>1. \A b \in Blocks : CacheRefs(b) = {} /\ ThreadRefs(b) = {}
    BY DEF IInv, ClosedOK, CacheRefs, ThreadRefs, Holding
  <2>2. \A b \in Blocks : Cardinality(ThreadRefs(b)) = 0 /\ CacheCount(b) = 0
    BY <2>1, FS_EmptySet DEF CacheCount
  <2>3. \A b \in Blocks : refcount[b] = 0
    BY <2>2 DEF IInv, CountOK
  <2>4. QED
    BY <2>3 DEF IInv, HeapOK, ClosedOK, Freeing, TypeOK
<1>2. QED
  BY <1>1, IInvAlways, PTL

-----------------------------------------------------------------------------
(* What BlockStore sees of thread t's block.                               *)
View(t) == IF Holding(t) THEN contents[held[t]] ELSE NoKey

(* A step that changes neither a request nor what a caller reads is        *)
(* invisible to the callers.                                               *)
LEMMA Invisible ==
    ASSUME UNCHANGED <<open, want>>, \A t \in Threads : View(t)' = View(t)
    PROVE  UNCHANGED Store!absVars
  BY DEF View, Store!absVars

(* The cache implements BlockStore: every call of sqfs_md_cache or         *)
(* sqfs_data_cache answers with the block that was asked for or with an    *)
(* error, and the block stays what it was until it is disposed of.         *)
THEOREM ImplementsStore == Spec => StoreSpec
<1>1. Init => Store!AbsInit
  BY DEF Init, Store!AbsInit, Holding
<1>2. IInv /\ [Next]_vars => [Store!AbsNext]_(Store!absVars)
  <2> SUFFICES ASSUME IInv, [Next]_vars
               PROVE  Store!AbsNext \/ UNCHANGED Store!absVars
    OBVIOUS
  <2> USE DEF Goto, cacheVars, heapVars, IInv
  <2>1. ASSUME NEW t \in Threads, Call(t) PROVE Store!Ask(t)
    BY <2>1 DEF Call, Store!Ask, Holding, TypeOK, ThreadsOK
  <2>2. ASSUME NEW t \in Threads, Lock(t) \/ LookEmpty(t) \/ LookHit(t) \/ Put(t)
        PROVE  UNCHANGED Store!absVars
    <3>1. \A u \in Threads : View(u)' = View(u)
      BY <2>2 DEF Lock, LookEmpty, LookHit, Put, View, Holding, TypeOK
    <3>2. QED
      BY <2>2, <3>1, Invisible DEF Lock, LookEmpty, LookHit, Put
  <2>3. ASSUME NEW t \in Threads, LookCollision(t) \/ EvictFree(t) \/ Free(t)
        PROVE  UNCHANGED Store!absVars
    <3>1. \A u \in Threads : View(u)' = View(u)
      BY <2>3 DEF LookCollision, EvictFree, Free, View, Holding, TypeOK
    <3>2. QED
      BY <2>3, <3>1, Invisible DEF LookCollision, EvictFree, Free
  <2>4. ASSUME NEW t \in Threads, ReadOk(t) PROVE UNCHANGED Store!absVars
    <3>1. PICK b \in Blocks \ heap : contents' = [contents EXCEPT ![b] = want[t]]
      BY <2>4 DEF ReadOk
    <3>2. \A u \in Threads : View(u)' = View(u)
      BY <2>4, <3>1 DEF ReadOk, View, Holding, HeldIsWanted, TypeOK
    <3>3. QED
      BY <2>4, <3>2, Invisible DEF ReadOk
  <2>5. ASSUME NEW t \in Threads, ReadFail(t) PROVE Store!Refuse(t)
    <3>1. want[t] \in Keys /\ \A u \in Threads : View(u)' = View(u)
      BY <2>5 DEF ReadFail, View, Holding, TypeOK, ThreadsOK
    <3>2. ~Holding(t) /\ open' = open /\ want' = [want EXCEPT ![t] = NoKey]
      BY <2>5 DEF ReadFail, Holding
    <3>3. QED
      BY <3>1, <3>2, KeysAssumption DEF Store!Refuse, View
  <2>6. ASSUME NEW t \in Threads, Ref(t) PROVE Store!Deliver(t)
    <3>1. contents[entry[SlotFor(t)]] = want[t] /\ want[t] \in Keys
      BY <2>6, SlotOfAssumption DEF Ref, ThreadsOK, CacheCoherent, SlotFor
    <3>2. QED
      BY <2>6, <3>1, KeysAssumption DEF Ref, Store!Deliver, Holding, TypeOK
  <2>7. ASSUME NEW t \in Threads, Dispose(t) PROVE Store!GiveBack(t)
    <3>1. Holding(t) /\ contents[held[t]] = want[t] /\ want[t] \in Keys
      BY <2>7 DEF Dispose, Holding, HeldIsWanted, ThreadsOK
    <3>2. QED
      BY <2>7, <3>1, KeysAssumption DEF Dispose, Store!GiveBack, Holding, TypeOK
  <2>8. CASE Destroy
    BY <2>8 DEF Destroy, Store!AbsNext, Store!Close, Holding, ThreadsOK, threadVars
  <2>9. CASE Stopped \/ UNCHANGED vars
    BY <2>9 DEF Stopped, vars, threadVars, Store!absVars, Holding
  <2>10. QED
    BY <2>1, <2>2, <2>3, <2>4, <2>5, <2>6, <2>7, <2>8, <2>9
    DEF Next, Running, Store!AbsNext
<1>3. QED
  BY <1>1, <1>2, IInvAlways, PTL DEF Spec, StoreSpec, Store!AbsSpec
=============================================================================
