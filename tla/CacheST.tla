------------------------------ MODULE CacheST ------------------------------
(***************************************************************************)
(* The block cache of a single-threaded build: cache.c under the same      *)
(* block layer of fs.c as in BlockCache.  The entries are searched for the *)
(* key from the first on; a miss takes the next entry in round-robin order *)
(* and evicts what is there.  There is one caller and no locking.          *)
(*                                                                         *)
(* A key that is found but not valid fails an assert, which ends the       *)
(* program unless it was built with NDEBUG.                                *)
(***************************************************************************)
EXTENDS Integers, FiniteSets

CONSTANTS
    Keys,       \* positions of blocks in the image, never 0
    Count,      \* number of entries
    Blocks,     \* heap addresses a block can be allocated at
    NoKey,      \* the 0 that calloc leaves in hdr->idx
    NoBlock

ASSUME CountAssumption == Count \in Nat \ {0}
ASSUME STAssumption    == NoKey \notin Keys /\ NoBlock \notin Blocks

VARIABLES
    ndebug,     \* the build has its asserts compiled out
    open,       \* sqfs_destroy has not run
    next,       \* c->next: the next entry to evict
    valid,      \* valid[i]: hdr->valid
    idx,        \* idx[i]: hdr->idx
    entry,      \* entry[i]: entry->block
    heap, refcount, contents,   \* as in BlockCache
    pc,         \* where the caller is
    want,       \* the position it asked for
    cur,        \* the entry sqfs_cache_get returned
    held        \* the block it holds

cacheVars  == <<next, valid, idx, entry>>
heapVars   == <<heap, refcount, contents>>
callerVars == <<pc, want, cur, held>>
vars       == <<ndebug, open, cacheVars, heapVars, callerVars>>

Entries == 0 .. Count - 1

TypeOK ==
    /\ ndebug \in BOOLEAN /\ open \in BOOLEAN
    /\ next \in Entries
    /\ valid \in [Entries -> BOOLEAN]
    /\ idx \in [Entries -> Keys \cup {NoKey}]
    /\ entry \in [Entries -> Blocks \cup {NoBlock}]
    /\ heap \in SUBSET Blocks
    /\ refcount \in [Blocks -> Nat]
    /\ contents \in [Blocks -> Keys \cup {NoKey}]
    /\ pc \in {"idle", "get", "read", "valid", "use", "aborted"}
    /\ want \in Keys \cup {NoKey}
    /\ cur \in Entries
    /\ held \in Blocks \cup {NoBlock}

Init ==
    /\ ndebug \in BOOLEAN
    /\ open = TRUE
    /\ next = 0
    /\ valid = [i \in Entries |-> FALSE]
    /\ idx = [i \in Entries |-> NoKey]
    /\ entry = [i \in Entries |-> NoBlock]
    /\ heap = {}
    /\ refcount = [b \in Blocks |-> 0]
    /\ contents = [b \in Blocks |-> NoKey]
    /\ pc = "idle"
    /\ want = NoKey
    /\ cur = 0
    /\ held = NoBlock

-----------------------------------------------------------------------------
\* (A faulty variant of Matches: the key is not compared.)
MatchesAnyKey == {i \in Entries : valid[i]}

\* (A faulty variant of Matches: the search stops before the last entry.)
MatchesButLast == {i \in 0 .. Count - 2 : idx[i] = want}

\* The first entry with the key: what the loop of sqfs_cache_get stops at.
Matches == {i \in Entries : idx[i] = want}
First(S) == CHOOSE i \in S : \A j \in S : i <= j

\* sqfs_block_dispose: drop a reference, free the block if it was the last.
BlockDispose(b) ==
    /\ refcount' = [refcount EXCEPT ![b] = @ - 1]
    /\ heap' = IF refcount[b] = 1 THEN heap \ {b} ELSE heap

\* The next entry to evict.
Advance(n) == (n + 1) % Count

(* Faulty variants, which no specification uses.                           *)
\* A miss that reuses an entry without evicting what it held.
MissNoEvict ==
    /\ pc = "get"
    /\ Matches = {}
    /\ cur' = next
    /\ next' = Advance(next)
    /\ valid' = [valid EXCEPT ![next] = FALSE]
    /\ idx' = [idx EXCEPT ![next] = want]
    /\ pc' = "read"
    /\ UNCHANGED <<ndebug, open, entry, heapVars, want, held>>

-----------------------------------------------------------------------------
\* The caller enters sqfs_md_cache or sqfs_data_cache.
Call ==
    /\ open
    /\ pc = "idle"
    /\ want' \in Keys
    /\ pc' = "get"
    /\ UNCHANGED <<ndebug, open, cacheVars, heapVars, cur, held>>

\* sqfs_cache_get finds the key in an entry that is valid, or NDEBUG.
Found ==
    LET i == First(Matches)
    IN /\ pc = "get"
       /\ Matches # {}
       /\ valid[i] \/ ndebug
       /\ cur' = i
       /\ pc' = IF valid[i] THEN "valid" ELSE "read"
       /\ UNCHANGED <<ndebug, open, cacheVars, heapVars, want, held>>

\* assert(hdr->valid) fails and the process aborts.
AssertFails ==
    /\ pc = "get"
    /\ Matches # {}
    /\ ~valid[First(Matches)]
    /\ ~ndebug
    /\ pc' = "aborted"
    /\ UNCHANGED <<ndebug, open, cacheVars, heapVars, want, cur, held>>

\* sqfs_cache_get finds no entry: evict the next one and give it the key.
Miss ==
    /\ pc = "get"
    /\ Matches = {}
    /\ cur' = next
    /\ next' = Advance(next)
    /\ IF valid[next] THEN BlockDispose(entry[next]) ELSE UNCHANGED <<heap, refcount>>
    /\ valid' = [valid EXCEPT ![next] = FALSE]
    /\ idx' = [idx EXCEPT ![next] = want]
    /\ pc' = "read"
    /\ UNCHANGED <<ndebug, open, entry, contents, want, held>>

\* sqfs_block_read succeeds and the entry is marked valid.
ReadOk ==
    /\ pc = "read"
    /\ \E b \in Blocks \ heap :
         /\ heap' = heap \cup {b}
         /\ refcount' = [refcount EXCEPT ![b] = 1]
         /\ contents' = [contents EXCEPT ![b] = want]
         /\ entry' = [entry EXCEPT ![cur] = b]
    /\ valid' = [valid EXCEPT ![cur] = TRUE]
    /\ pc' = "valid"
    /\ UNCHANGED <<ndebug, open, next, idx, want, cur, held>>

(* The read fails, and the caller gets the error; entry->block is NULL, or *)
(* as it was when it is the metadata header that cannot be read.  Nothing  *)
(* takes the key out of the entry again.                                   *)
ReadFail ==
    /\ pc = "read"
    /\ entry' \in {entry, [entry EXCEPT ![cur] = NoBlock]}
    /\ want' = NoKey
    /\ pc' = "idle"
    /\ UNCHANGED <<ndebug, open, next, valid, idx, heapVars, cur, held>>

\* *block = entry->block, sqfs_block_ref, and sqfs_cache_put, which is empty.
Ref ==
    LET b == entry[cur]
    IN /\ pc = "valid"
       /\ held' = b
       /\ refcount' = [refcount EXCEPT ![b] = @ + 1]
       /\ pc' = "use"
       /\ UNCHANGED <<ndebug, open, cacheVars, heap, contents, want, cur>>

\* The caller is done with the block.
Dispose ==
    /\ pc = "use"
    /\ BlockDispose(held)
    /\ held' = NoBlock
    /\ want' = NoKey
    /\ pc' = "idle"
    /\ UNCHANGED <<ndebug, open, cacheVars, contents, cur>>

\* sqfs_cache_destroy.
Destroy ==
    LET cached == {entry[i] : i \in {j \in Entries : valid[j]}}
    IN /\ open
       /\ pc = "idle"
       /\ open' = FALSE
       /\ refcount' = [b \in Blocks |-> IF b \in cached THEN refcount[b] - 1 ELSE refcount[b]]
       /\ heap' = heap \ {b \in cached : refcount[b] = 1}
       /\ valid' = [i \in Entries |-> FALSE]
       /\ UNCHANGED <<ndebug, next, idx, entry, contents, callerVars>>

\* The image is closed, or the process is gone.
Stopped == (~open \/ pc = "aborted") /\ UNCHANGED vars

Next ==
    \/ Call \/ Found \/ AssertFails \/ Miss \/ ReadOk \/ ReadFail
    \/ Ref \/ Dispose \/ Destroy
    \/ Stopped

Spec == Init /\ [][Next]_vars

-----------------------------------------------------------------------------
\* Every block with the references to it: from valid entries and the caller.
References(b) ==
    Cardinality({i \in Entries : valid[i] /\ entry[i] = b}) + (IF held = b THEN 1 ELSE 0)

(* Counts are exact and a block is allocated just as long as it is         *)
(* referred to, through hits, evictions, failed reads and sqfs_destroy.    *)
HeapExact ==
    \A b \in Blocks : refcount[b] = References(b) /\ (b \in heap <=> References(b) > 0)

(* A key is in at most one entry, also after reads of it failed: a block   *)
(* is never cached twice, and the entry a search stops at is the only one. *)
(* Nothing has another type than it should.                                *)
UniqueKeys ==
    /\ TypeOK
    /\ \A i, j \in Entries : idx[i] = idx[j] /\ idx[i] # NoKey => i = j

(* cache.c:112, assert(hdr->valid): a key that is found has a valid entry. *)
NoAssertFailure == pc # "aborted"

(* The single-threaded cache implements BlockStore too.                    *)
Store == INSTANCE BlockStore WITH
    Threads <- {"caller"},
    None    <- NoKey,
    asked   <- [t \in {"caller"} |-> want],
    got     <- [t \in {"caller"} |-> IF pc = "use" THEN contents[held] ELSE NoKey],
    closed  <- ~open

StoreSpec == Store!AbsSpec
=============================================================================
