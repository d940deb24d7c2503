------------------------------ MODULE InodeMap ------------------------------
(***************************************************************************)
(* The inode map of squashfuse_ll where fuse_ino_t has 32 bits and the     *)
(* image has no export table (sqfs_ll_ino32_* of ll_inode.c), on the hash  *)
(* table of hash.c, under the lookup and forget handlers of ll.c.          *)
(*                                                                         *)
(* The kernel counts the lookups of an inode it got a reply for, and       *)
(* returns counts with forget messages.  Until it has returned them all it *)
(* may ask about the inode, and then the map must still know it.           *)
(*                                                                         *)
(* Handlers run in the threads of the session loop.  Nothing locks the     *)
(* table, so a handler is a sequence of steps: find the entry, then write  *)
(* it.  With one thread nothing comes between them.                        *)
(***************************************************************************)
EXTENDS InodeNumbers, Sequences, SequencesExt

CONSTANTS
    Threads,            \* threads of the session loop
    Root,               \* number of the root directory's inode
    Files,              \* numbers of the other inodes
    Cells,              \* heap addresses of hash buckets
    InitialCapacity,    \* SQFS_ICACHE_INITIAL, a power of two
    AllocFails,         \* malloc and calloc may fail
    MaxLookups,         \* bound on the lookups of a file not forgotten yet
    MaxLost,            \* bound on the replies that are lost
    NoCell

ASSUME FilesAssumption == /\ Root \in Nums
                          /\ Files \subseteq Nums \ {Root}
                          /\ Files # {}
                          /\ NoCell \notin Cells

ASSUME BoundsAssumption == /\ InitialCapacity \in Nat \ {0}
                           /\ MaxLookups \in Nat /\ MaxLost \in Nat

VARIABLES
    capacity,   \* h->capacity; 0 once a failed calloc wrecked the table
    size,       \* h->size
    chain,      \* chain[n]: the buckets with key n, the newest first
    cells,      \* allocated buckets
    refcount,   \* refcount[c]: the entry's refcount
    pc,         \* the step of each thread
    num,        \* num[t]: the inode number of the request
    refs,       \* refs[t]: nlookup of a forget
    ie,         \* ie[t]: the entry sqfs_hash_get returned
    seen,       \* seen[t]: the refcount read for ++ or -=
    result,     \* result[t]: what the lookup registered
    known,      \* known[n]: the kernel's lookup count
    sent,       \* sent[n]: forgets under way, in order
    negative,   \* files the kernel was told do not exist
    lost,       \* lost[n]: registered lookups whose reply did not arrive
    crashed,    \* a NULL table was dereferenced
    starved     \* history: an allocation has failed

tableVars  == <<capacity, size, chain, cells, refcount>>
threadVars == <<pc, num, refs, ie, seen, result>>
kernelVars == <<known, sent, negative, lost>>
outcome    == <<crashed, starved>>
vars == <<tableVars, threadVars, kernelVars, outcome>>

TypeOK ==
    /\ capacity \in Nat /\ size \in Nat
    /\ chain \in [Files -> Seq(Cells)]
    /\ cells \in SUBSET Cells
    /\ refcount \in [Cells -> Nat]
    /\ pc \in [Threads -> {"idle", "lget", "linc", "ladd", "lreply", "fget", "fdec"}]
    /\ num \in [Threads -> Files]
    /\ refs \in [Threads -> 0 .. MaxLookups]
    /\ ie \in [Threads -> Cells \cup {NoCell}]
    /\ seen \in [Threads -> Nat]
    /\ result \in [Threads -> Nums]
    /\ known \in [Files -> 0 .. MaxLookups]
    /\ sent \in [Files -> Seq(1 .. MaxLookups)]
    /\ negative \subseteq Files
    /\ lost \in [Files -> Nat]
    /\ crashed \in BOOLEAN /\ starved \in BOOLEAN

Init ==
    /\ capacity = InitialCapacity
    /\ size = 0
    /\ chain = [n \in Files |-> <<>>]
    /\ cells = {}
    /\ refcount = [c \in Cells |-> 0]
    /\ pc = [t \in Threads |-> "idle"]
    /\ num = [t \in Threads |-> CHOOSE n \in Files : TRUE]
    /\ refs = [t \in Threads |-> 0]
    /\ ie = [t \in Threads |-> NoCell]
    /\ seen = [t \in Threads |-> 0]
    /\ result = [t \in Threads |-> FUSE_INODE_NONE]
    /\ known = [n \in Files |-> 0]
    /\ sent = [n \in Files |-> <<>>]
    /\ negative = {}
    /\ lost = [n \in Files |-> 0]
    /\ crashed = FALSE /\ starved = FALSE

-----------------------------------------------------------------------------
\* Totals(s)[i]: the sum of the first i elements of s.
Totals(s) ==
    LET total[i \in 0 .. Len(s)] == IF i = 0 THEN 0 ELSE total[i - 1] + s[i] IN total

\* The lookups of a file that somebody still counts.
Pending(n) == Totals(sent[n])[Len(sent[n])]
InFlight(n) == {t \in Threads : num[t] = n /\ pc[t] \in {"lget", "linc", "ladd", "lreply"}}
Outstanding(n) == known[n] + Pending(n) + Cardinality(InFlight(n))

Goto(t, step) == pc' = [pc EXCEPT ![t] = step]

Bucket(n) == n % capacity

(* sqfs_hash_double rebuilds the table bucket by bucket, pushing each      *)
(* entry onto its new chain; two entries with one key change places.       *)
Doubled == [n \in Files |-> Reverse(chain[n])]

\* (A faulty variant of HashRemove: --h->size is missing.)
HashRemoveKeepsSize(n) ==
    IF chain[n] = <<>> THEN UNCHANGED <<size, chain, cells>>
    ELSE /\ chain' = [chain EXCEPT ![n] = Tail(@)]
         /\ cells' = cells \ {Head(chain[n])}
         /\ UNCHANGED size

\* sqfs_hash_remove unlinks and frees the first entry with the key, if any.
HashRemove(n) ==
    IF chain[n] = <<>> THEN UNCHANGED <<size, chain, cells>>
    ELSE /\ chain' = [chain EXCEPT ![n] = Tail(@)]
         /\ cells' = cells \ {Head(chain[n])}
         /\ size' = size - 1

-----------------------------------------------------------------------------
(* Faulty variants, which no specification uses.                           *)
\* A second lookup that finds the entry and does not count.
LookupIncMissing(t) ==
    /\ pc[t] = "linc"
    /\ result' = [result EXCEPT ![t] = num2fuse(Root, num[t])]
    /\ Goto(t, "lreply")
    /\ UNCHANGED <<tableVars, num, refs, ie, seen, kernelVars, outcome>>

\* A forget that drops the entry whatever its count.
ForgetDropsAlways(t) ==
    /\ pc[t] = "fdec"
    /\ HashRemove(num[t])
    /\ Goto(t, "idle")
    /\ ie' = [ie EXCEPT ![t] = NoCell]
    /\ seen' = [seen EXCEPT ![t] = 0]
    /\ refs' = [refs EXCEPT ![t] = 0]
    /\ UNCHANGED <<capacity, refcount, num, result, kernelVars, outcome>>

-----------------------------------------------------------------------------
(* lookup: sqfs_ll_op_lookup of a name that exists, from where it calls    *)
(* ino_register.                                                           *)

\* A request arrives; the kernel has no cached answer for the name.
LookupStart(t) ==
    /\ pc[t] = "idle"
    /\ \E n \in Files \ negative :
         /\ Outstanding(n) < MaxLookups
         /\ num' = [num EXCEPT ![t] = n]
    /\ Goto(t, "lget")
    /\ UNCHANGED <<tableVars, refs, ie, seen, result, kernelVars, outcome>>

\* sqfs_hash_get finds the entry, and ++ie->refcount reads the count ...
LookupFound(t) ==
    /\ pc[t] = "lget"
    /\ capacity > 0
    /\ chain[num[t]] # <<>>
    /\ ie' = [ie EXCEPT ![t] = Head(chain[num[t]])]
    /\ seen' = [seen EXCEPT ![t] = refcount[Head(chain[num[t]])]]
    /\ Goto(t, "linc")
    /\ UNCHANGED <<tableVars, num, refs, result, kernelVars, outcome>>

\* ... and writes it back, into freed memory if the entry is gone.
LookupInc(t) ==
    /\ pc[t] = "linc"
    /\ refcount' = [refcount EXCEPT ![ie[t]] = seen[t] + 1]
    /\ ie' = [ie EXCEPT ![t] = NoCell]
    /\ seen' = [seen EXCEPT ![t] = 0]
    /\ result' = [result EXCEPT ![t] = num2fuse(Root, num[t])]
    /\ Goto(t, "lreply")
    /\ UNCHANGED <<capacity, size, chain, cells, num, refs, kernelVars, outcome>>

\* sqfs_hash_get finds nothing.
LookupAbsent(t) ==
    /\ pc[t] = "lget"
    /\ capacity > 0
    /\ chain[num[t]] = <<>>
    /\ Goto(t, "ladd")
    /\ UNCHANGED <<tableVars, num, refs, ie, seen, result, kernelVars, outcome>>

MustDouble == size >= capacity

\* sqfs_hash_add: double a full table, push the entry onto its chain.
AddOk(t) ==
    /\ pc[t] = "ladd"
    /\ \E c \in Cells \ cells :
         /\ cells' = cells \cup {c}
         /\ refcount' = [refcount EXCEPT ![c] = 1]
         /\ chain' = [(IF MustDouble THEN Doubled ELSE chain) EXCEPT ![num[t]] = <<c>> \o @]
    /\ capacity' = IF MustDouble THEN 2 * capacity ELSE capacity
    /\ size' = size + 1
    /\ result' = [result EXCEPT ![t] = num2fuse(Root, num[t])]
    /\ Goto(t, "lreply")
    /\ UNCHANGED <<num, refs, ie, seen, kernelVars, outcome>>

\* Registration failed: ino_register returns FUSE_INODE_NONE.
AddFailed(t) ==
    /\ AllocFails
    /\ pc[t] = "ladd"
    /\ result' = [result EXCEPT ![t] = FUSE_INODE_NONE]
    /\ starved' = TRUE
    /\ Goto(t, "lreply")
    /\ UNCHANGED <<num, refs, ie, seen, kernelVars, crashed>>

\* No memory for the new bucket, after any doubling.
AddNoBucket(t) ==
    /\ AddFailed(t)
    /\ capacity' = IF MustDouble THEN 2 * capacity ELSE capacity
    /\ chain' = IF MustDouble THEN Doubled ELSE chain
    /\ UNCHANGED <<size, cells, refcount>>

\* No memory for the doubled table: sqfs_hash_init has cleared *h already.
AddNoTable(t) ==
    /\ AddFailed(t)
    /\ MustDouble
    /\ capacity' = 0
    /\ size' = 0
    /\ chain' = [n \in Files |-> <<>>]
    /\ UNCHANGED <<cells, refcount>>

\* No memory for a bucket while doubling: that entry and all after it go.
AddDropsRest(t) ==
    /\ AddFailed(t)
    /\ MustDouble
    /\ \E kept \in SUBSET {n \in Files : chain[n] # <<>>} :
         /\ \A a \in kept, b \in Files \ kept :
              chain[b] # <<>> => Bucket(a) <= Bucket(b)
         /\ \E b \in Files \ kept : chain[b] # <<>>
         /\ chain' = [n \in Files |-> IF n \in kept THEN Doubled[n] ELSE <<>>]
         /\ cells' = UNION {ToSet(chain[n]) : n \in kept}
         /\ size' = Cardinality(UNION {ToSet(chain[n]) : n \in kept})
    /\ capacity' = 2 * capacity
    /\ UNCHANGED refcount

(* fuse_reply_entry, with an infinite timeout.  The kernel counts the      *)
(* lookup, or, for inode 0, remembers that the name does not exist.        *)
Reply(t) ==
    /\ pc[t] = "lreply"
    /\ IF result[t] = FUSE_INODE_NONE
       THEN negative' = negative \cup {num[t]} /\ UNCHANGED known
       ELSE known' = [known EXCEPT ![num[t]] = @ + 1] /\ UNCHANGED negative
    /\ result' = [result EXCEPT ![t] = FUSE_INODE_NONE]
    /\ Goto(t, "idle")
    /\ UNCHANGED <<tableVars, num, refs, ie, seen, sent, lost, outcome>>

LostSoFar == MapThenSumSet(LAMBDA n : lost[n], Files)

\* The request was interrupted and the reply fails, which is not looked at.
ReplyLost(t) ==
    /\ pc[t] = "lreply"
    /\ result[t] # FUSE_INODE_NONE
    /\ LostSoFar < MaxLost
    /\ lost' = [lost EXCEPT ![num[t]] = @ + 1]
    /\ result' = [result EXCEPT ![t] = FUSE_INODE_NONE]
    /\ Goto(t, "idle")
    /\ UNCHANGED <<tableVars, num, refs, ie, seen, known, sent, negative, outcome>>

-----------------------------------------------------------------------------
(* forget.                                                                 *)

\* The kernel gives back some of its count (external).
SendForget(n) ==
    /\ \E r \in 1 .. known[n] :
         /\ known' = [known EXCEPT ![n] = @ - r]
         /\ sent' = [sent EXCEPT ![n] = Append(@, r)]
    /\ UNCHANGED <<tableVars, threadVars, negative, lost, outcome>>

\* The kernel drops a name it had remembered as missing (external).
DropNegative(n) ==
    /\ n \in negative
    /\ negative' = negative \ {n}
    /\ UNCHANGED <<tableVars, threadVars, known, sent, lost, outcome>>

\* sqfs_ll_op_forget: the fuse_ino_t is turned back into a number.
ForgetStart(t) ==
    /\ pc[t] = "idle"
    /\ \E n \in {m \in Files : sent[m] # <<>>} :
         /\ num' = [num EXCEPT ![t] = fuse2num(Root, num2fuse(Root, n))]
         /\ refs' = [refs EXCEPT ![t] = Head(sent[n])]
         /\ sent' = [sent EXCEPT ![n] = Tail(@)]
    /\ Goto(t, "fget")
    /\ UNCHANGED <<tableVars, ie, seen, result, known, negative, lost, outcome>>

\* No entry: nothing to do.
ForgetAbsent(t) ==
    /\ pc[t] = "fget"
    /\ capacity > 0
    /\ chain[num[t]] = <<>>
    /\ refs' = [refs EXCEPT ![t] = 0]
    /\ Goto(t, "idle")
    /\ UNCHANGED <<tableVars, num, ie, seen, result, kernelVars, outcome>>

ForgetFound(t) ==
    /\ pc[t] = "fget"
    /\ capacity > 0
    /\ chain[num[t]] # <<>>
    /\ ie' = [ie EXCEPT ![t] = Head(chain[num[t]])]
    /\ seen' = [seen EXCEPT ![t] = refcount[Head(chain[num[t]])]]
    /\ Goto(t, "fdec")
    /\ UNCHANGED <<tableVars, num, refs, result, kernelVars, outcome>>

\* Count down, or drop the entry when the count is used up.
ForgetDrop(t) ==
    /\ pc[t] = "fdec"
    /\ IF seen[t] > refs[t]
       THEN /\ refcount' = [refcount EXCEPT ![ie[t]] = seen[t] - refs[t]]
            /\ UNCHANGED <<size, chain, cells>>
       ELSE HashRemove(num[t]) /\ UNCHANGED refcount
    /\ Goto(t, "idle")
    /\ ie' = [ie EXCEPT ![t] = NoCell]
    /\ seen' = [seen EXCEPT ![t] = 0]
    /\ refs' = [refs EXCEPT ![t] = 0]
    /\ UNCHANGED <<capacity, num, result, kernelVars, outcome>>

\* Any search of a wrecked table reads through NULL.
Crash(t) ==
    /\ capacity = 0
    /\ pc[t] \in {"lget", "fget"}
    /\ crashed' = TRUE
    /\ UNCHANGED <<tableVars, threadVars, kernelVars, starved>>

-----------------------------------------------------------------------------
Lookup(t) ==
    \/ LookupStart(t) \/ LookupFound(t) \/ LookupInc(t) \/ LookupAbsent(t)
    \/ AddOk(t) \/ AddNoBucket(t) \/ AddNoTable(t) \/ AddDropsRest(t)
    \/ Reply(t) \/ ReplyLost(t)

Forget(t) == ForgetStart(t) \/ ForgetAbsent(t) \/ ForgetFound(t) \/ ForgetDrop(t)

Dead == crashed /\ UNCHANGED vars

Next ==
    \/ ~crashed /\ \E t \in Threads : Lookup(t) \/ Forget(t) \/ Crash(t)
    \/ ~crashed /\ \E n \in Files : SendForget(n) \/ DropNegative(n)
    \/ Dead

Spec == Init /\ [][Next]_vars

-----------------------------------------------------------------------------
(* ll_inode.c:65, "Find the inode data when FUSE asks us about a           *)
(* fuse_ino_t": a file the kernel holds a lookup of is in the map, under   *)
(* the number its fuse_ino_t turns back into, and no file that exists is   *)
(* remembered as missing; unless an allocation has failed, which may lose  *)
(* files from the map.                                                     *)
Resolves ==
    ~starved =>
        /\ negative = {}
        /\ \A n \in Files : known[n] > 0 =>
             /\ fuse2num(Root, num2fuse(Root, n)) = n
             /\ chain[n] # <<>>
             /\ Head(chain[n]) \in cells

(* Between requests an entry's count is the number of lookups the kernel   *)
(* has and has not given back; only lookups whose reply was lost stay      *)
(* counted for ever.                                                       *)
RefcountMatches ==
    ~starved /\ (\A t \in Threads : pc[t] = "idle") =>
        \A n \in Files :
            LET total == known[n] + Pending(n) + lost[n]
            IN IF chain[n] = <<>> THEN total = 0
               ELSE Len(chain[n]) = 1 /\ refcount[Head(chain[n])] = total

Chained == UNION {ToSet(chain[n]) : n \in Files}

(* hash.c: through adds, removals and doublings, and whatever allocation   *)
(* fails on the way, every entry in a chain is allocated, size counts the  *)
(* entries and the table is not overfull.  Without a failure no bucket is  *)
(* leaked.  The types are as declared.                                     *)
HashConsistent ==
    /\ TypeOK
    /\ Chained \subseteq cells
    /\ size = Cardinality(Chained)
    /\ size <= capacity
    /\ ~starved => cells = Chained
=============================================================================
