--------------------------- MODULE CacheSTProofs ---------------------------
(***************************************************************************)
(* Proofs that the single-threaded block cache is memory safe, keeps a     *)
(* block only once and implements BlockStore, for any number of entries,   *)
(* keys and blocks, with and without NDEBUG.                               *)
(***************************************************************************)
EXTENDS CacheST, FiniteSetTheorems, TLAPS

-----------------------------------------------------------------------------
(***************************************************************************)
(* The inductive invariant.                                                *)
(***************************************************************************)
Keyed == \A i, j \in Entries : idx[i] = idx[j] /\ idx[i] # NoKey => i = j

\* A valid entry has the block of its key, and no two have the same block.
EntriesOK ==
    /\ \A i \in Entries : valid[i] =>
         entry[i] \in Blocks /\ idx[i] \in Keys /\ contents[entry[i]] = idx[i]
    /\ \A i, j \in Entries : valid[i] /\ valid[j] /\ entry[i] = entry[j] => i = j

\* What the caller knows at each step of sqfs_md_cache or sqfs_data_cache.
CallerOK ==
    /\ pc = "idle" <=> want = NoKey
    /\ pc \in {"read", "valid"} => idx[cur] = want
    /\ pc = "read" => ~valid[cur]
    /\ pc = "valid" => valid[cur]
    /\ IF pc = "use" THEN held \in Blocks /\ contents[held] = want ELSE held = NoBlock
    /\ ~open => pc = "idle" /\ \A i \in Entries : ~valid[i]

\* A count is one for the cache and one for the caller.
Cached(b) == \E i \in Entries : valid[i] /\ entry[i] = b
Counted(b) == (IF Cached(b) THEN 1 ELSE 0) + (IF held = b THEN 1 ELSE 0)

CountOK == \A b \in Blocks : refcount[b] = Counted(b) /\ (b \in heap <=> refcount[b] > 0)

IInv == TypeOK /\ Keyed /\ EntriesOK /\ CallerOK /\ CountOK

-----------------------------------------------------------------------------
\* Initially every entry is empty and nothing is allocated.
LEMMA InitIInv == Init => IInv
<1> SUFFICES ASSUME Init PROVE IInv
  OBVIOUS
<1>1. 0 \in Entries
  BY CountAssumption DEF Entries
<1>2. TypeOK
  BY <1>1 DEF Init, TypeOK
<1>3. Keyed /\ EntriesOK /\ CallerOK
  BY STAssumption DEF Init, Keyed, EntriesOK, CallerOK
<1>4. CountOK
  BY STAssumption DEF Init, CountOK, Counted, Cached
<1>5. QED
  BY <1>2, <1>3, <1>4 DEF IInv

(* An entry that sqfs_cache_get finds has the key, and is the only one.    *)
LEMMA FirstIsMatch ==
    ASSUME IInv, want \in Keys, Matches # {}
    PROVE  First(Matches) \in Entries /\ idx[First(Matches)] = want
<1>1. PICK i : i \in Matches
  OBVIOUS
<1>2. i \in Entries /\ idx[i] = want
  BY <1>1 DEF Matches
<1>3. \A j \in Matches : j = i
  BY <1>2, STAssumption DEF Matches, IInv, Keyed
<1>4. \A j \in Matches : i <= j
  BY <1>2, <1>3, CountAssumption DEF Entries
<1>5. First(Matches) \in Matches
  BY <1>1, <1>4 DEF First
<1>6. QED
  BY <1>2, <1>3, <1>5

(* The round robin stays among the entries.                                *)
LEMMA AdvanceType == ASSUME NEW n \in Entries PROVE Advance(n) \in Entries
  BY CountAssumption DEF Advance, Entries

-----------------------------------------------------------------------------
(***************************************************************************)
(* Every action keeps the invariant.                                       *)
(***************************************************************************)
(* Calls, hits and failed asserts leave entries and blocks alone.          *)
Still == UNCHANGED <<valid, idx, entry, heap, refcount, contents, held>>

LEMMA StillStep == ASSUME IInv, Still PROVE Keyed' /\ EntriesOK' /\ CountOK'
<1>1. Keyed' /\ EntriesOK'
  BY DEF IInv, Still, Keyed, EntriesOK
<1>2. \A b : Counted(b)' = Counted(b)
  BY DEF Still, Counted, Cached
<1>3. QED
  BY <1>1, <1>2 DEF IInv, Still, CountOK

LEMMA CallIInv == ASSUME IInv, Call PROVE IInv'
<1>1. Still
  BY DEF Call, Still, cacheVars, heapVars
<1>2. TypeOK'
  BY DEF IInv, TypeOK, Call, cacheVars, heapVars
<1>3. CallerOK'
  BY STAssumption DEF IInv, TypeOK, CallerOK, Call, cacheVars, heapVars
<1>4. QED
  BY <1>1, <1>2, <1>3, StillStep DEF IInv

LEMMA FoundIInv == ASSUME IInv, Found PROVE IInv'
<1>1. Still
  BY DEF Found, Still, cacheVars, heapVars
<1>2. want \in Keys
  BY DEF IInv, TypeOK, CallerOK, Found
<1>3. First(Matches) \in Entries /\ idx[First(Matches)] = want
  BY <1>2, FirstIsMatch DEF Found
<1>4. TypeOK'
  BY <1>3 DEF IInv, TypeOK, Found, cacheVars, heapVars
<1>5. CallerOK'
  BY <1>2, <1>3 DEF IInv, TypeOK, CallerOK, Found, cacheVars, heapVars
<1>6. QED
  BY <1>1, <1>4, <1>5, StillStep DEF IInv

LEMMA AssertFailsIInv == ASSUME IInv, AssertFails PROVE IInv'
<1>1. Still
  BY DEF AssertFails, Still, cacheVars, heapVars
<1>2. TypeOK' /\ CallerOK'
  BY DEF IInv, TypeOK, CallerOK, AssertFails, cacheVars, heapVars
<1>3. QED
  BY <1>1, <1>2, StillStep DEF IInv

(* Eviction: the block of the entry loses the cache's reference.           *)
LEMMA MissIInv == ASSUME IInv, Miss PROVE IInv'
<1> USE DEF IInv, Miss
<1>1. want \in Keys /\ next \in Entries /\ held = NoBlock /\ open
  BY DEF TypeOK, CallerOK
<1>2. next' \in Entries
  BY <1>1, AdvanceType
<1>3. /\ \A i \in Entries : valid'[i] <=> i # next /\ valid[i]
      /\ \A i \in Entries : idx'[i] = IF i = next THEN want ELSE idx[i]
      /\ entry' = entry /\ contents' = contents /\ held' = held
  BY <1>1 DEF TypeOK
<1>4. Keyed'
  BY <1>1, <1>3 DEF Keyed, Matches
<1>5. EntriesOK'
  BY <1>3 DEF EntriesOK
<1>6. CallerOK'
  BY <1>1, <1>3 DEF CallerOK, TypeOK
<1>7. CountOK' /\ refcount' \in [Blocks -> Nat] /\ heap' \in SUBSET Blocks
  <2>1. CASE valid[next]
    <3>0. PICK e : e = entry[next]
      OBVIOUS
    <3>1. e \in Blocks /\ refcount' = [refcount EXCEPT ![e] = @ - 1]
          /\ heap' = IF refcount[e] = 1 THEN heap \ {e} ELSE heap
      BY <1>1, <2>1, <3>0 DEF BlockDispose, EntriesOK
    <3>2. Cached(e) /\ ~ Cached(e)'
      BY <1>1, <1>3, <2>1, <3>0 DEF Cached, EntriesOK
    <3>3. \A b \in Blocks \ {e} : Cached(b)' <=> Cached(b)
      BY <1>1, <1>3, <3>0 DEF Cached
    <3>4. refcount[e] = 1 /\ Counted(e)' = 0
      BY <1>1, <1>3, <3>1, <3>2, STAssumption DEF CountOK, Counted
    <3>5. \A b \in Blocks \ {e} : Counted(b)' = Counted(b)
      BY <1>3, <3>3 DEF Counted
    <3>6. QED
      BY <3>1, <3>4, <3>5 DEF CountOK, TypeOK
  <2>2. CASE ~ valid[next]
    <3>1. refcount' = refcount /\ heap' = heap
      BY <2>2
    <3>2. \A b : Cached(b)' <=> Cached(b)
      BY <1>3, <2>2 DEF Cached
    <3>3. \A b : Counted(b)' = Counted(b)
      BY <1>3, <3>2 DEF Counted
    <3>4. QED
      BY <3>1, <3>3 DEF CountOK, TypeOK
  <2>3. QED
    BY <2>1, <2>2
<1>8. TypeOK'
  BY <1>1, <1>2, <1>7 DEF TypeOK
<1>9. QED
  BY <1>4, <1>5, <1>6, <1>7, <1>8

(* A fresh block is nobody's, so the entry becomes its only reference.     *)
LEMMA ReadOkIInv == ASSUME IInv, ReadOk PROVE IInv'
<1> USE DEF IInv, ReadOk
<1>1. PICK b \in Blocks \ heap :
         /\ heap' = heap \cup {b}
         /\ refcount' = [refcount EXCEPT ![b] = 1]
         /\ contents' = [contents EXCEPT ![b] = want]
         /\ entry' = [entry EXCEPT ![cur] = b]
  OBVIOUS
<1>2. want \in Keys /\ cur \in Entries /\ held = NoBlock /\ idx[cur] = want /\ ~ valid[cur]
      /\ b # NoBlock
  BY STAssumption DEF TypeOK, CallerOK
<1>3. ~ Cached(b)
  BY <1>1, <1>2 DEF CountOK, Counted
<1>4. /\ \A i \in Entries : valid'[i] <=> i = cur \/ valid[i]
      /\ \A i \in Entries : entry'[i] = IF i = cur THEN b ELSE entry[i]
      /\ \A a \in Blocks : contents'[a] = IF a = b THEN want ELSE contents[a]
      /\ idx' = idx /\ held' = held
  BY <1>1, <1>2 DEF TypeOK
<1>5. TypeOK'
  BY <1>1, <1>2 DEF TypeOK
<1>6. Keyed' /\ CallerOK'
  BY <1>2, <1>4 DEF Keyed, CallerOK
<1>7. EntriesOK'
  BY <1>2, <1>3, <1>4 DEF EntriesOK, Cached
<1>8. CountOK'
  <2>1. Cached(b)'
    BY <1>2, <1>4 DEF Cached
  <2>2. \A a \in Blocks \ {b} : Cached(a)' <=> Cached(a)
    BY <1>2, <1>4 DEF Cached
  <2>3. Counted(b)' = 1 /\ \A a \in Blocks \ {b} : Counted(a)' = Counted(a)
    BY <1>2, <1>4, <2>1, <2>2 DEF Counted
  <2>4. QED
    BY <1>1, <2>3 DEF CountOK, TypeOK
<1>9. QED
  BY <1>5, <1>6, <1>7, <1>8

(* The entry of a failed read is not valid, whatever its pointer is.       *)
LEMMA ReadFailIInv == ASSUME IInv, ReadFail PROVE IInv'
<1> USE DEF IInv, ReadFail, heapVars
<1>1. cur \in Entries /\ ~ valid[cur] /\ open /\ held = NoBlock
  BY DEF TypeOK, CallerOK
<1>2. \A i \in Entries : valid[i] => entry'[i] = entry[i]
  BY <1>1 DEF TypeOK
<1>3. TypeOK'
  BY <1>1 DEF TypeOK
<1>4. Keyed' /\ EntriesOK' /\ CallerOK'
  BY <1>1, <1>2 DEF Keyed, EntriesOK, CallerOK
<1>5. \A b : Counted(b)' = Counted(b)
  BY <1>2 DEF Counted, Cached
<1>6. QED
  BY <1>3, <1>4, <1>5 DEF CountOK

LEMMA RefIInv == ASSUME IInv, Ref PROVE IInv'
<1> USE DEF IInv, Ref, cacheVars
<1> DEFINE b == entry[cur]
<1>1. b \in Blocks /\ b # NoBlock /\ contents[b] = want /\ held = NoBlock /\ Cached(b) /\ open
  BY STAssumption DEF TypeOK, CallerOK, EntriesOK, Cached
<1>2. Keyed' /\ EntriesOK'
  BY DEF Keyed, EntriesOK
<1>3. CallerOK'
  BY <1>1 DEF CallerOK
<1>4. \A a \in Blocks : Cached(a)' <=> Cached(a)
  BY DEF Cached
<1> HIDE DEF b
<1>5. held' = b /\ refcount' = [refcount EXCEPT ![b] = @ + 1]
  BY DEF b
<1>6. TypeOK'
  BY <1>1, <1>5 DEF TypeOK
<1>7. \A a \in Blocks : Counted(a)' = IF a = b THEN Counted(a) + 1 ELSE Counted(a)
  BY <1>1, <1>4, <1>5, STAssumption DEF Counted
<1>8. \A a \in Blocks : refcount'[a] = Counted(a)' /\ (a \in heap' <=> refcount'[a] > 0)
  BY <1>1, <1>5, <1>7 DEF CountOK, TypeOK, Counted
<1>9. QED
  BY <1>2, <1>3, <1>6, <1>8 DEF CountOK

LEMMA DisposeIInv == ASSUME IInv, Dispose PROVE IInv'
<1> USE DEF IInv, Dispose, cacheVars
<1> DEFINE b == held
<1>1. b \in Blocks /\ b # NoBlock /\ open
  BY STAssumption DEF CallerOK
<1>2. Keyed' /\ EntriesOK' /\ CallerOK'
  BY <1>1 DEF Keyed, EntriesOK, CallerOK
<1>3. \A a \in Blocks : Cached(a)' <=> Cached(a)
  BY DEF Cached
<1>4. \A a \in Blocks : Counted(a)' = IF a = b THEN Counted(a) - 1 ELSE Counted(a)
  BY <1>1, <1>3, STAssumption DEF Counted
<1>5. refcount[b] \in Nat \ {0}
  BY <1>1 DEF CountOK, Counted
<1>6. refcount' = [refcount EXCEPT ![b] = @ - 1] /\ heap' = IF refcount[b] = 1 THEN heap \ {b} ELSE heap
  BY DEF BlockDispose
<1> HIDE DEF b
<1>7. TypeOK'
  BY <1>1, <1>5, <1>6 DEF TypeOK
<1>8. \A a \in Blocks : refcount'[a] = Counted(a)' /\ (a \in heap' <=> refcount'[a] > 0)
  BY <1>1, <1>4, <1>5, <1>6 DEF CountOK, TypeOK
<1>9. QED
  BY <1>2, <1>7, <1>8 DEF CountOK

(* With no caller every block is the cache's alone and is freed.           *)
LEMMA DestroyIInv == ASSUME IInv, Destroy PROVE IInv' /\ heap' = {}
<1> USE DEF IInv, Destroy, callerVars
<1> DEFINE cached == {entry[i] : i \in {j \in Entries : valid[j]}}
<1>1. held = NoBlock
  BY DEF CallerOK
<1>2. \A b \in Blocks : b \in cached <=> Cached(b)
  BY DEF Cached
<1>3. \A b \in Blocks : Counted(b) = IF b \in cached THEN 1 ELSE 0
  BY <1>1, <1>2, STAssumption DEF Counted
<1>4. \A b \in Blocks : Counted(b)' = 0
  BY <1>1, STAssumption DEF Counted, Cached
<1>5. /\ refcount' = [b \in Blocks |-> IF b \in cached THEN refcount[b] - 1 ELSE refcount[b]]
      /\ heap' = heap \ {b \in cached : refcount[b] = 1}
  OBVIOUS
<1> HIDE DEF cached
<1>6. \A b \in Blocks : refcount'[b] = 0 /\ b \notin heap'
  BY <1>3, <1>5 DEF CountOK, TypeOK
<1>7. heap' = {} /\ refcount' \in [Blocks -> Nat]
  BY <1>5, <1>6 DEF TypeOK
<1>8. TypeOK' /\ Keyed' /\ EntriesOK' /\ CallerOK'
  BY <1>7 DEF TypeOK, Keyed, EntriesOK, CallerOK
<1>9. QED
  BY <1>4, <1>6, <1>7, <1>8 DEF CountOK

-----------------------------------------------------------------------------
(* The invariant holds in every state.                                     *)
THEOREM Inductive == Spec => []IInv
<1>1. ASSUME IInv, [Next]_vars PROVE IInv'
  <2>1. CASE UNCHANGED vars
    <3>1. Still
      BY <2>1 DEF vars, cacheVars, heapVars, callerVars, Still
    <3>2. TypeOK' /\ CallerOK'
      BY <1>1, <2>1 DEF vars, cacheVars, heapVars, callerVars, IInv, TypeOK, CallerOK
    <3>3. QED
      BY <1>1, <3>1, <3>2, StillStep DEF IInv
  <2>2. QED
    BY <1>1, <2>1, CallIInv, FoundIInv, AssertFailsIInv, MissIInv, ReadOkIInv, ReadFailIInv,
       RefIInv, DisposeIInv, DestroyIInv DEF Next, Stopped
<1>2. QED
  BY <1>1, InitIInv, PTL DEF Spec

(* Nothing is freed while it is referred to, freed twice or leaked, and    *)
(* the counts of sqfs_block_ref and sqfs_block_dispose are exact.          *)
THEOREM HeapCorrect == Spec => []HeapExact
<1>1. ASSUME IInv PROVE HeapExact
  <2>1. ASSUME NEW b \in Blocks PROVE References(b) = Counted(b)
    <3> DEFINE S == {i \in Entries : valid[i] /\ entry[i] = b}
    <3>1. CASE Cached(b)
      <4>1. PICK i \in Entries : valid[i] /\ entry[i] = b
        BY <3>1 DEF Cached
      <4>2. S = {i}
        BY <1>1, <4>1 DEF IInv, EntriesOK
      <4>3. Cardinality(S) = 1
        BY <4>2, FS_Singleton
      <4>4. QED
        BY <3>1, <4>3 DEF References, Counted
    <3>2. CASE ~ Cached(b)
      <4>1. S = {}
        BY <3>2 DEF Cached
      <4>2. Cardinality(S) = 0
        BY <4>1, FS_EmptySet
      <4>3. QED
        BY <3>2, <4>2 DEF References, Counted
    <3>3. QED
      BY <3>1, <3>2
  <2>2. QED
    BY <1>1, <2>1 DEF IInv, CountOK, HeapExact
<1>2. QED
  BY <1>1, Inductive, PTL

(* A key is in one entry at most, and the types are right.                 *)
THEOREM KeysCorrect == Spec => []UniqueKeys
<1>1. IInv => UniqueKeys
  BY DEF IInv, Keyed, UniqueKeys
<1>2. QED
  BY <1>1, Inductive, PTL

(* sqfs_destroy leaves no block behind: the last step of a cache's life.   *)
THEOREM DestroyFreesAll == Spec => [](~ open => heap = {})
<1>1. ASSUME IInv, ~ open PROVE heap = {}
  <2>1. \A b \in Blocks : Counted(b) = 0
    BY <1>1, STAssumption DEF IInv, CallerOK, Counted, Cached
  <2>2. QED
    BY <1>1, <2>1 DEF IInv, CountOK, TypeOK
<1>2. QED
  BY <1>1, Inductive, PTL

-----------------------------------------------------------------------------
(***************************************************************************)
(* The refinement.                                                         *)
(***************************************************************************)
(* The single-threaded cache implements what sqfs_md_cache and             *)
(* sqfs_data_cache promise (BlockStore).                                   *)
THEOREM ImplementsStore == Spec => StoreSpec
<1>1. Init => Store!AbsInit
  BY DEF Init, Store!AbsInit
<1>2. ASSUME IInv, IInv', [Next]_vars PROVE [Store!AbsNext]_(Store!absVars)
  <2> USE DEF Store!absVars
  <2>1. CASE Call
    <3>1. open /\ want = NoKey /\ want' \in Keys /\ open' = open /\ pc # "use" /\ pc' # "use"
      BY <1>2, <2>1 DEF Call, IInv, CallerOK
    <3>2. Store!Ask("caller")
      BY <3>1 DEF Store!Ask
    <3>3. QED
      BY <3>2 DEF Store!AbsNext
  <2>2. CASE Ref
    <3>1. /\ want \in Keys /\ want' = want /\ open' = open /\ pc = "valid" /\ pc' = "use"
          /\ contents'[held'] = want'
      BY <1>2, <2>2 DEF Ref, IInv, CallerOK, TypeOK
    <3>2. Store!Deliver("caller")
      BY <3>1, STAssumption DEF Store!Deliver
    <3>3. QED
      BY <3>2 DEF Store!AbsNext
  <2>3. CASE ReadFail
    <3>1. want \in Keys /\ want' = NoKey /\ open' = open /\ pc = "read" /\ pc' = "idle"
      BY <1>2, <2>3 DEF ReadFail, IInv, CallerOK, TypeOK
    <3>2. Store!Refuse("caller")
      BY <3>1, STAssumption DEF Store!Refuse
    <3>3. QED
      BY <3>2 DEF Store!AbsNext
  <2>4. CASE Dispose
    <3>1. /\ want \in Keys /\ want' = NoKey /\ open' = open /\ pc = "use" /\ pc' = "idle"
          /\ contents[held] = want
      BY <1>2, <2>4 DEF Dispose, IInv, CallerOK, TypeOK
    <3>2. Store!GiveBack("caller")
      BY <3>1, STAssumption DEF Store!GiveBack
    <3>3. QED
      BY <3>2 DEF Store!AbsNext
  <2>5. CASE Destroy
    <3>1. open /\ ~ open' /\ want = NoKey /\ want' = want /\ pc' = pc /\ pc = "idle"
      BY <1>2, <2>5 DEF Destroy, callerVars, IInv, CallerOK
    <3>2. Store!Close
      BY <3>1 DEF Store!Close
    <3>3. QED
      BY <3>2 DEF Store!AbsNext
  <2>6. CASE Found \/ AssertFails \/ Miss \/ ReadOk
    <3>1. want' = want /\ open' = open /\ pc # "use" /\ pc' # "use"
      BY <2>6 DEF Found, AssertFails, Miss, ReadOk
    <3>2. QED
      BY <3>1
  <2>7. CASE UNCHANGED vars
    <3>1. want' = want /\ open' = open /\ pc' = pc /\ contents' = contents /\ held' = held
      BY <2>7 DEF vars, heapVars, callerVars
    <3>2. QED
      BY <3>1
  <2>8. QED
    BY <1>2, <2>1, <2>2, <2>3, <2>4, <2>5, <2>6, <2>7 DEF Next, Stopped
<1>3. QED
  BY <1>1, <1>2, Inductive, PTL DEF Spec, StoreSpec, Store!AbsSpec
=============================================================================
