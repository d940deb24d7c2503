----------------------------- MODULE BlockCache -----------------------------
(***************************************************************************)
(* The block cache of a SQFS_MULTITHREADED build: cache_mt.c, and the      *)
(* block layer of fs.c that fills it (sqfs_md_cache, sqfs_data_cache,      *)
(* sqfs_block_read, sqfs_block_dispose).  md_cache, data_cache and         *)
(* frag_cache of a mounted image are three instances of it.                *)
(*                                                                         *)
(* The cache is a table of slots, each behind a mutex that sqfs_cache_get  *)
(* takes and sqfs_cache_put releases.  A key has one slot, and a slot one  *)
(* entry: a colliding key evicts.  An entry owns one reference to a heap   *)
(* block; each caller of sqfs_md_cache owns another, so that an eviction   *)
(* does not free a block somebody still reads.                             *)
(*                                                                         *)
(* One action is one step of one thread between two points at which        *)
(* another thread's step can matter.                                       *)
(***************************************************************************)
EXTENDS Integers, FiniteSets

CONSTANTS
    Threads,    \* FUSE worker threads
    Keys,       \* positions of blocks in the image
    Slots,      \* entries of the hash table
    SlotOf,     \* SlotOf[k] is MurmurRehash64A(k) % count
    Blocks,     \* heap addresses a block can be allocated at
    NoThread, NoKey, NoBlock

ASSUME ThreadsAssumption == IsFiniteSet(Threads) /\ NoThread \notin Threads
ASSUME KeysAssumption    == NoKey \notin Keys
ASSUME SlotOfAssumption  == SlotOf \in [Keys -> Slots]
ASSUME BlocksAssumption  == NoBlock \notin Blocks

VARIABLES
    open,       \* the sqfs has not been through sqfs_destroy
    lock,       \* lock[s]: owner of the slot's mutex
    state,      \* state[s]: hdr->state
    idx,        \* idx[s]: hdr->idx (calloc'ed: some key or none at first)
    entry,      \* entry[s]: entry->block, stale when the slot is EMPTY
    heap,       \* the blocks that are allocated
    refcount,   \* refcount[b]: block->refcount
    contents,   \* contents[b]: the key whose data block->data holds
    pc,         \* where each thread is
    want,       \* want[t]: the position the thread asked for
    held        \* held[t]: the block the thread holds, or is about to free

cacheVars  == <<lock, state, idx, entry>>
heapVars   == <<heap, refcount, contents>>
threadVars == <<pc, want, held>>
vars       == <<open, cacheVars, heapVars, threadVars>>

Steps == {"idle",    \* not inside the library
          "get",     \* sqfs_cache_get, before pthread_mutex_lock returns
          "look",    \* the mutex is held, the header not yet looked at
          "evict",   \* eviction dropped the last reference: free it
          "read",    \* the entry is not valid: reading the block
          "valid",   \* the entry is valid, no reference taken yet
          "put",     \* reference taken, sqfs_cache_put pending
          "use",     \* back in the caller, which reads the block
          "free"}    \* sqfs_block_dispose dropped the last reference

TypeOK ==
    /\ open \in BOOLEAN
    /\ lock \in [Slots -> Threads \cup {NoThread}]
    /\ state \in [Slots -> {"EMPTY", "FULL"}]
    /\ idx \in [Slots -> Keys \cup {NoKey}]
    /\ entry \in [Slots -> Blocks \cup {NoBlock}]
    /\ heap \in SUBSET Blocks
    /\ refcount \in [Blocks -> Nat]
    /\ contents \in [Blocks -> Keys \cup {NoKey}]
    /\ pc \in [Threads -> Steps]
    /\ want \in [Threads -> Keys \cup {NoKey}]
    /\ held \in [Threads -> Blocks \cup {NoBlock}]

Init ==
    /\ open = TRUE
    /\ lock = [s \in Slots |-> NoThread]
    /\ state = [s \in Slots |-> "EMPTY"]
    /\ idx = [s \in Slots |-> NoKey]
    /\ entry = [s \in Slots |-> NoBlock]
    /\ heap = {}
    /\ refcount = [b \in Blocks |-> 0]
    /\ contents = [b \in Blocks |-> NoKey]
    /\ pc = [t \in Threads |-> "idle"]
    /\ want = [t \in Threads |-> NoKey]
    /\ held = [t \in Threads |-> NoBlock]

-----------------------------------------------------------------------------
\* The slot of the key that thread t works on.
SlotFor(t) == SlotOf[want[t]]

Goto(t, step) == pc' = [pc EXCEPT ![t] = step]

(* sqfs_block_deref: one atomic decrement, whose result tells its caller   *)
(* alone whether that was the last reference.                              *)
Deref(b) == refcount' = [refcount EXCEPT ![b] = @ - 1]

\* (A faulty variant of IsLast: the test is off by one.)
IsLastEarly(b) == refcount[b] - 1 <= 1
IsLast(b) == refcount[b] - 1 = 0

-----------------------------------------------------------------------------
(***************************************************************************)
(* Faulty variants of the actions below.  No specification uses them; each *)
(* shows that a property notices the mistake it makes.                     *)
(***************************************************************************)
\* A hit that forgets to compare hdr->idx.
LookHitAnyKey(t) ==
    /\ pc[t] = "look"
    /\ state[SlotFor(t)] = "FULL"
    /\ Goto(t, "valid")
    /\ UNCHANGED <<open, cacheVars, heapVars, want, held>>

\* A collision that forgets to set hdr->idx.
LookCollisionOldKey(t) ==
    LET s == SlotFor(t)
        b == entry[s]
    IN /\ pc[t] = "look"
       /\ state[s] = "FULL"
       /\ idx[s] # want[t]
       /\ Deref(b)
       /\ state' = [state EXCEPT ![s] = "EMPTY"]
       /\ IF IsLast(b)
          THEN Goto(t, "evict") /\ held' = [held EXCEPT ![t] = b]
          ELSE Goto(t, "read") /\ UNCHANGED held
       /\ UNCHANGED <<open, lock, idx, entry, heap, contents, want>>

\* An error path that disposes of whatever entry->block points at.
ReadFailDisposes(t) ==
    LET s == SlotFor(t)
    IN /\ pc[t] = "read"
       /\ entry' = [entry EXCEPT ![s] = NoBlock]
       /\ IF entry[s] = NoBlock THEN UNCHANGED refcount ELSE Deref(entry[s])
       /\ lock' = [lock EXCEPT ![s] = NoThread]
       /\ want' = [want EXCEPT ![t] = NoKey]
       /\ Goto(t, "idle")
       /\ UNCHANGED <<open, state, idx, heap, contents, held>>

\* An error path that returns without sqfs_cache_put.
ReadFailNoPut(t) ==
    /\ pc[t] = "read"
    /\ want' = [want EXCEPT ![t] = NoKey]
    /\ Goto(t, "idle")
    /\ UNCHANGED <<open, cacheVars, heapVars, held>>

\* A lookup that hands out the block without a reference for the caller.
RefNotTaken(t) ==
    /\ pc[t] = "valid"
    /\ held' = [held EXCEPT ![t] = entry[SlotFor(t)]]
    /\ Goto(t, "put")
    /\ UNCHANGED <<open, cacheVars, heapVars, want>>

\* A lookup that releases the slot before it takes its reference.
ValidPutFirst(t) ==
    LET s == SlotFor(t)
    IN /\ pc[t] = "valid"
       /\ IF lock[s] = t
          THEN lock' = [lock EXCEPT ![s] = NoThread] /\ UNCHANGED <<pc, held, refcount>>
          ELSE /\ held' = [held EXCEPT ![t] = entry[s]]
               /\ refcount' = [refcount EXCEPT ![entry[s]] = @ + 1]
               /\ Goto(t, "put")
               /\ UNCHANGED lock
       /\ UNCHANGED <<open, state, idx, entry, heap, contents, want>>

-----------------------------------------------------------------------------
\* A caller enters sqfs_md_cache or sqfs_data_cache for some position.
Call(t) ==
    /\ open
    /\ pc[t] = "idle"
    /\ \E k \in Keys : want' = [want EXCEPT ![t] = k]
    /\ Goto(t, "get")
    /\ UNCHANGED <<open, cacheVars, heapVars, held>>

\* pthread_mutex_lock of the slot the key hashes to.
Lock(t) ==
    /\ pc[t] = "get"
    /\ lock[SlotFor(t)] = NoThread
    /\ lock' = [lock EXCEPT ![SlotFor(t)] = t]
    /\ Goto(t, "look")
    /\ UNCHANGED <<open, state, idx, entry, heapVars, want, held>>

\* The slot is EMPTY: claim it for the key.
LookEmpty(t) ==
    /\ pc[t] = "look"
    /\ state[SlotFor(t)] = "EMPTY"
    /\ idx' = [idx EXCEPT ![SlotFor(t)] = want[t]]
    /\ Goto(t, "read")
    /\ UNCHANGED <<open, lock, state, entry, heapVars, want, held>>

\* The slot is FULL and holds the key.
LookHit(t) ==
    /\ pc[t] = "look"
    /\ state[SlotFor(t)] = "FULL"
    /\ idx[SlotFor(t)] = want[t]
    /\ Goto(t, "valid")
    /\ UNCHANGED <<open, cacheVars, heapVars, want, held>>

(* The slot is FULL with another key: drop the cache's reference to its    *)
(* block, and free the block if nobody else has one.  The slot is EMPTY    *)
(* from here on; entry->block still has the old pointer.                   *)
LookCollision(t) ==
    LET s == SlotFor(t)
        b == entry[s]
    IN /\ pc[t] = "look"
       /\ state[s] = "FULL"
       /\ idx[s] # want[t]
       /\ Deref(b)
       /\ state' = [state EXCEPT ![s] = "EMPTY"]
       /\ idx' = [idx EXCEPT ![s] = want[t]]
       /\ IF IsLast(b)
          THEN Goto(t, "evict") /\ held' = [held EXCEPT ![t] = b]
          ELSE Goto(t, "read") /\ UNCHANGED held
       /\ UNCHANGED <<open, lock, entry, heap, contents, want>>

\* The two free() calls of the eviction.
EvictFree(t) ==
    /\ pc[t] = "evict"
    /\ heap' = heap \ {held[t]}
    /\ held' = [held EXCEPT ![t] = NoBlock]
    /\ Goto(t, "read")
    /\ UNCHANGED <<open, cacheVars, refcount, contents, want>>

(* sqfs_block_read succeeds, with refcount 1 for the cache, and            *)
(* sqfs_cache_entry_mark_valid makes the entry FULL.                       *)
ReadOk(t) ==
    LET s == SlotFor(t)
    IN /\ pc[t] = "read"
       /\ \E b \in Blocks \ heap :
            /\ heap' = heap \cup {b}
            /\ refcount' = [refcount EXCEPT ![b] = 1]
            /\ contents' = [contents EXCEPT ![b] = want[t]]
            /\ entry' = [entry EXCEPT ![s] = b]
       /\ state' = [state EXCEPT ![s] = "FULL"]
       /\ Goto(t, "valid")
       /\ UNCHANGED <<open, lock, idx, want, held>>

(* The read fails: out of memory, a short read or a decompression error    *)
(* inside sqfs_block_read, which leaves entry->block NULL; or a short read *)
(* of the header in sqfs_md_block_read, which leaves entry->block as it    *)
(* was.  The entry is put back EMPTY and the caller gets the error.        *)
ReadFail(t) ==
    LET s == SlotFor(t)
    IN /\ pc[t] = "read"
       /\ entry' \in {entry, [entry EXCEPT ![s] = NoBlock]}
       /\ lock' = [lock EXCEPT ![s] = NoThread]
       /\ want' = [want EXCEPT ![t] = NoKey]
       /\ Goto(t, "idle")
       /\ UNCHANGED <<open, state, idx, heapVars, held>>

\* *block = entry->block, and sqfs_block_ref on the caller's behalf.
Ref(t) ==
    LET b == entry[SlotFor(t)]
    IN /\ pc[t] = "valid"
       /\ held' = [held EXCEPT ![t] = b]
       /\ refcount' = [refcount EXCEPT ![b] = @ + 1]
       /\ Goto(t, "put")
       /\ UNCHANGED <<open, cacheVars, heap, contents, want>>

\* sqfs_cache_put: release the slot; from here on it may be evicted.
Put(t) ==
    /\ pc[t] = "put"
    /\ lock' = [lock EXCEPT ![SlotFor(t)] = NoThread]
    /\ Goto(t, "use")
    /\ UNCHANGED <<open, state, idx, entry, heapVars, want, held>>

\* The caller has copied what it needs and calls sqfs_block_dispose.
Dispose(t) ==
    LET b == held[t]
    IN /\ pc[t] = "use"
       /\ Deref(b)
       /\ want' = [want EXCEPT ![t] = NoKey]
       /\ IF IsLast(b)
          THEN Goto(t, "free") /\ UNCHANGED held
          ELSE Goto(t, "idle") /\ held' = [held EXCEPT ![t] = NoBlock]
       /\ UNCHANGED <<open, cacheVars, heap, contents>>

\* The two free() calls of sqfs_block_dispose.
Free(t) ==
    /\ pc[t] = "free"
    /\ heap' = heap \ {held[t]}
    /\ held' = [held EXCEPT ![t] = NoBlock]
    /\ Goto(t, "idle")
    /\ UNCHANGED <<open, cacheVars, refcount, contents, want>>

(* sqfs_cache_destroy, from sqfs_destroy: the session loop has returned,   *)
(* so no thread is inside the library.  Every FULL entry drops its         *)
(* reference; the table and its mutexes go with it.                        *)
CachedBlocks == {entry[s] : s \in {r \in Slots : state[r] = "FULL"}}

Destroy ==
    /\ open
    /\ \A t \in Threads : pc[t] = "idle"
    /\ open' = FALSE
    /\ refcount' = [b \in Blocks |->
                      IF b \in CachedBlocks THEN refcount[b] - 1 ELSE refcount[b]]
    /\ heap' = heap \ {b \in CachedBlocks : IsLast(b)}
    /\ state' = [s \in Slots |-> "EMPTY"]
    /\ UNCHANGED <<lock, idx, entry, contents, threadVars>>

\* After sqfs_destroy there is nothing left to do.
Stopped == ~open /\ UNCHANGED vars

-----------------------------------------------------------------------------
\* The steps a thread takes on its own once it holds a slot or a block.
Running(t) ==
    \/ LookEmpty(t) \/ LookHit(t) \/ LookCollision(t) \/ EvictFree(t)
    \/ ReadOk(t) \/ ReadFail(t) \/ Ref(t) \/ Put(t) \/ Dispose(t) \/ Free(t)

Next ==
    \/ \E t \in Threads : Call(t) \/ Lock(t) \/ Running(t)
    \/ Destroy
    \/ Stopped

Spec == Init /\ [][Next]_vars

(* The scheduler runs every thread that can run, and reads of the image    *)
(* return.  Nothing is assumed of who gets a contended mutex, nor that     *)
(* new requests arrive.                                                    *)
Fairness == \A t \in Threads : WF_vars(Running(t))

FairSpec == Spec /\ Fairness

-----------------------------------------------------------------------------
(***************************************************************************)
(* Properties                                                              *)
(***************************************************************************)
Holding(t)  == pc[t] \in {"put", "use"}
Freeing(t)  == pc[t] \in {"evict", "free"}

CacheRefs(b)  == {s \in Slots : state[s] = "FULL" /\ entry[s] = b}
ThreadRefs(b) == {t \in Threads : Holding(t) /\ held[t] = b}

(* A block's refcount is the number of FULL entries that point at it plus  *)
(* the number of callers that hold it: no path through sqfs_md_cache,      *)
(* eviction, a failed read or sqfs_block_dispose takes or drops a          *)
(* reference too many.                                                     *)
RefcountExact ==
    \A b \in Blocks :
        refcount[b] = Cardinality(CacheRefs(b)) + Cardinality(ThreadRefs(b))

(* The heap holds exactly the blocks somebody refers to and the ones a     *)
(* thread is about to free: nothing is freed while it is cached or held,   *)
(* nothing is freed twice, and nothing is forgotten.                       *)
HeapExact ==
    /\ heap = {b \in Blocks : CacheRefs(b) # {} \/ ThreadRefs(b) # {}}
              \cup {held[t] : t \in {u \in Threads : Freeing(u)}}
    /\ \A t, u \in Threads :
         Freeing(t) /\ Freeing(u) /\ held[t] = held[u] => t = u

(* What a caller reads through its block is what the image has at the      *)
(* position it asked for, from the moment it has the pointer until it      *)
(* disposes of it, whatever evictions happen meanwhile.                    *)
HeldIsWanted ==
    \A t \in Threads : Holding(t) => /\ held[t] \in heap
                                     /\ contents[held[t]] = want[t]

(* A FULL entry's block is allocated and is the image's block for the      *)
(* entry's key, and the key belongs in that slot.  An entry whose read     *)
(* failed, or whose eviction was followed by a failed read, is not FULL.   *)
CacheCoherent ==
    \A s \in Slots : state[s] = "FULL" =>
        /\ entry[s] \in heap
        /\ idx[s] \in Keys
        /\ SlotOf[idx[s]] = s
        /\ contents[entry[s]] = idx[s]

(* A thread between sqfs_cache_get and sqfs_cache_put owns its slot's      *)
(* mutex, and at sqfs_cache_entry_mark_valid the entry is EMPTY: the       *)
(* asserts of cache_mt.c.                                                  *)
InSlot(t) == pc[t] \in {"look", "evict", "read", "valid", "put"}

AssertsHold ==
    \A t \in Threads :
        /\ InSlot(t) => lock[SlotFor(t)] = t
        /\ pc[t] = "read" => state[SlotFor(t)] = "EMPTY"
        /\ pc[t] = "valid" => state[SlotFor(t)] = "FULL"

(* sqfs_destroy returns every block to the heap.                           *)
NothingLeaks == ~open => heap = {}

(* A slot that is locked is unlocked again, on the error paths too.        *)
LockReleased == \A s \in Slots : lock[s] # NoThread ~> lock[s] = NoThread

(* The cache implements BlockStore.                                        *)
Store == INSTANCE BlockStore WITH
    None   <- NoKey,
    asked  <- want,
    got    <- [t \in Threads |-> IF Holding(t) THEN contents[held[t]] ELSE NoKey],
    closed <- ~open

StoreSpec == Store!AbsSpec

-----------------------------------------------------------------------------
(***************************************************************************)
(* The inductive invariant behind the theorems of BlockCacheProofs.        *)
(***************************************************************************)
\* What a thread inside sqfs_md_cache knows about the slot it has locked.
ThreadsOK ==
    \A t \in Threads :
        /\ InSlot(t) => lock[SlotFor(t)] = t
        /\ IF pc[t] \in {"idle", "free"} THEN want[t] = NoKey ELSE want[t] \in Keys
        /\ pc[t] \in {"evict", "read"} => /\ state[SlotFor(t)] = "EMPTY"
                                         /\ idx[SlotFor(t)] = want[t]
        /\ pc[t] = "valid" => /\ state[SlotFor(t)] = "FULL"
                              /\ idx[SlotFor(t)] = want[t]

\* No two FULL entries share a block, so eviction drops one reference.
EntriesDistinct ==
    \A r, s \in Slots :
        state[r] = "FULL" /\ state[s] = "FULL" /\ entry[r] = entry[s] => r = s

CacheCount(b) == IF CacheRefs(b) = {} THEN 0 ELSE 1

CountOK == \A b \in Blocks :
              refcount[b] = CacheCount(b) + Cardinality(ThreadRefs(b))

\* A thread that frees has dropped the last reference, and is alone in it.
FreeingOK ==
    /\ \A t \in Threads : Freeing(t) => held[t] \in Blocks /\ refcount[held[t]] = 0
    /\ \A t, u \in Threads : Freeing(t) /\ Freeing(u) /\ held[t] = held[u] => t = u

HeapOK ==
    \A b \in Blocks :
        b \in heap <=> \/ refcount[b] > 0
                      \/ \E t \in Threads : Freeing(t) /\ held[t] = b

ClosedOK == ~open => /\ \A s \in Slots : state[s] = "EMPTY"
                     /\ \A t \in Threads : pc[t] = "idle"

IInv ==
    /\ TypeOK
    /\ ThreadsOK
    /\ CacheCoherent
    /\ EntriesDistinct
    /\ HeldIsWanted
    /\ CountOK
    /\ FreeingOK
    /\ HeapOK
    /\ ClosedOK
=============================================================================
