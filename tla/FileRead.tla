------------------------------ MODULE FileRead ------------------------------
(***************************************************************************)
(* Reading a range of a regular file: file.c (sqfs_read_range, the block   *)
(* list, the block index) and sqfs_md_read of fs.c, called by threads that *)
(* share the blockidx cache.                                               *)
(*                                                                         *)
(* The sizes of a file's blocks are a list that follows its inode in the   *)
(* metadata stream, which is cut into MD-blocks of MetaSize bytes.  The    *)
(* list may start anywhere in an MD-block, so an entry may straddle two.   *)
(* To reach block N without reading N sizes, a file with a long list has   *)
(* an index: for each further MD-block of its list, where that MD-block is *)
(* and where the data block is whose size comes first in it.               *)
(*                                                                         *)
(* An image is abstracted to the layout of its files.  MD-blocks are       *)
(* numbered from the one the inode is in, a stored data block takes one    *)
(* unit of the image, and a byte is named by its place in the file.  The   *)
(* caches below are BlockStores: they deliver the block or an error.       *)
(***************************************************************************)
EXTENDS Integers, Sequences, FiniteSets

CONSTANTS
    Threads,    \* FUSE worker threads
    Slots,      \* entries of the blockidx cache
    Files,      \* inodes of regular files
    Images,     \* the images to consider: functions from files to layouts
    Load,       \* for each image: the threads that read it, the largest
                \*   offset and the largest size they ask for
    SlotOf,     \* SlotOf[f]: the slot that inode_number + 1 hashes to
    MetaSize,   \* SQUASHFS_METADATA_SIZE
    EntrySize,  \* sizeof(sqfs_blocklist_entry)
    BlockSize,  \* sb.block_size
    Junk,       \* memory that was never written
    NoThread, NoFile

(* A layout: off is inode->next.offset; size the file's size; frag whether *)
(* it has a fragment; holes the blocks that are stored as holes.           *)
Layouts == [off : Nat, size : Nat, frag : BOOLEAN, holes : SUBSET Nat]

ASSUME ReadAssumption ==
    /\ EntrySize \in Nat \ {0} /\ BlockSize \in Nat \ {0}
    /\ MetaSize \in Nat /\ MetaSize >= EntrySize /\ MetaSize % EntrySize = 0
    /\ SlotOf \in [Files -> Slots]
    /\ NoThread \notin Threads /\ NoFile \notin Files

ASSUME ImageAssumption ==
    \A img \in Images : DOMAIN img \subseteq Files /\ \A f \in DOMAIN img :
        /\ img[f] \in Layouts
        /\ img[f].off < MetaSize
        /\ img[f].frag => img[f].size % BlockSize # 0

ASSUME LoadAssumption ==
    \A img \in Images : Load[img].start \in Nat /\ Load[img].size \in Nat

VARIABLES
    image,      \* the mounted image, which never changes
    lock,       \* lock[s]: owner of the slot of the blockidx cache
    key,        \* key[s]: the file whose index is in the slot, if FULL
    index,      \* index[s]: the index; meaningless if the slot is EMPTY
    pc, file, start,    \* of each thread: the read it does
    size,       \* *size: what is still to be read
    readOff,    \* read_off
    bl,         \* the block list
    build,      \* the index entries sqfs_blockidx_add has filled
    buf,        \* what was copied to the caller
    failed      \* a cache reported an error to this read

cacheVars == <<lock, key, index>>
readVars  == <<pc, file, start, size, readOff, bl, build, buf, failed>>
vars      == <<image, cacheVars, readVars>>

-----------------------------------------------------------------------------
(***************************************************************************)
(* The layout of a file.                                                   *)
(***************************************************************************)
\* sqfs_blocklist_count, for a layout.
BlocklistCount(l) ==
    IF l.frag THEN l.size \div BlockSize ELSE (l.size + BlockSize - 1) \div BlockSize

\* Where data block n of a file is stored: after those before it.
DataStart(l, n) == Cardinality(0 .. n - 1 \ l.holes)

\* The input_size that list entry n has: 0 for a hole.
StoredSize(l, n) == IF n \in l.holes THEN 0 ELSE 1

\* The byte at offset p of a file: a hole has zeros.
Byte(l, p) ==
    IF p \div BlockSize \in l.holes /\ p \div BlockSize < BlocklistCount(l) THEN 0 ELSE p + 1
Bytes(l, from, n) == [i \in 1 .. n |-> Byte(l, from + i - 1)]

Least(a, b) == IF a <= b THEN a ELSE b

-----------------------------------------------------------------------------
(***************************************************************************)
(* The block list and the block index, as operators on their records.      *)
(***************************************************************************)
\* sqfs_md_read: where the cursor is after n bytes.
MdAdvance(cur, n) ==
    [block  |-> cur.block + (cur.offset + n) \div MetaSize,
     offset |-> (cur.offset + n) % MetaSize]

(* The list entry at a cursor; anywhere else the metadata stream has some  *)
(* other data.                                                             *)
Garbage == 9
HeaderAt(l, cur) ==
    LET p == cur.block * MetaSize + cur.offset - l.off
    IN IF p >= 0 /\ p % EntrySize = 0 /\ p \div EntrySize < BlocklistCount(l)
       THEN StoredSize(l, p \div EntrySize)
       ELSE Garbage

\* sqfs_blocklist_init.  The data blocks of the file start at 0.
BlocklistInit(l) ==
    [remain |-> BlocklistCount(l), cur |-> [block |-> 0, offset |-> l.off],
     started |-> FALSE, pos |-> 0, block |-> 0, input_size |-> 0]

\* sqfs_blocklist_next, when remain is not 0 and the read succeeds.
BlocklistNext(l, b) ==
    [remain |-> b.remain - 1, cur |-> MdAdvance(b.cur, EntrySize), started |-> TRUE,
     pos |-> IF b.started THEN b.pos + BlockSize ELSE b.pos,
     block |-> b.block + b.input_size, input_size |-> HeaderAt(l, b.cur)]

\* sqfs_blockidx_indexable.
Indexable(l) == BlocklistCount(l) * EntrySize >= MetaSize

\* The number of index entries sqfs_blockidx_add allocates.
IndexCount(l) == (l.off + BlocklistCount(l) * EntrySize - 1) \div MetaSize

\* How many MD-blocks sqfs_blockidx_blocklist skips to reach a position.
Metablock(l, from) == (l.off + (from \div BlockSize) * EntrySize) \div MetaSize

\* (A faulty variant of Skipped: a list that starts within an MD-block.)
SkippedFromZero(l, metablock) == (metablock * MetaSize) \div EntrySize

\* How many list entries start before that MD-block.
Skipped(l, metablock) ==
    ((metablock * MetaSize) \div EntrySize) - (l.off \div EntrySize)

\* The iteration of sqfs_blockidx_add starts in a new MD-block.
NewMdBlock(l, b) == b.cur.offset < EntrySize /\ b.remain # BlocklistCount(l)

\* (A faulty variant of IndexEntry: input_size is not added.)
IndexEntryBehind(b) == [md_block |-> b.cur.block, data_block |-> b.block]
IndexEntry(b) == [md_block |-> b.cur.block, data_block |-> b.block + b.input_size]

\* blockidx[metablock - 1]: past the entries that were filled there is junk.
EntryOf(idx, metablock) ==
    IF metablock \in DOMAIN idx THEN idx[metablock]
    ELSE [md_block |-> Junk, data_block |-> Junk]

\* The block list that starts at the MD-block an index entry points at.
Seek(l, e, metablock) ==
    LET skipped == Skipped(l, metablock)
    IN [remain |-> BlocklistCount(l) - skipped,
        cur |-> [block |-> e.md_block, offset |-> l.off % EntrySize],
        started |-> FALSE, pos |-> skipped * BlockSize,
        block |-> e.data_block, input_size |-> 0]

-----------------------------------------------------------------------------
Steps == {"idle", "start", "get", "look", "build", "seek", "loop", "copy", "done", "error"}

Cursors == [block : Nat \cup {Junk}, offset : 0 .. MetaSize - 1]
Lists   == [remain : Nat, cur : Cursors, started : BOOLEAN, pos : Nat,
            block : Nat \cup {Junk}, input_size : Nat]
Indexes == Seq([md_block : Nat, data_block : Nat])

TypeOK ==
    /\ image \in Images
    /\ lock \in [Slots -> Threads \cup {NoThread}]
    /\ key \in [Slots -> Files \cup {NoFile}]
    /\ index \in [Slots -> Indexes]
    /\ pc \in [Threads -> Steps]
    /\ file \in [Threads -> Files \cup {NoFile}]
    /\ start \in [Threads -> 0 .. Load[image].start]
    /\ size \in [Threads -> 0 .. Load[image].size]
    /\ readOff \in [Threads -> 0 .. BlockSize - 1]
    /\ bl \in [Threads -> Lists]
    /\ build \in [Threads -> Indexes]
    /\ buf \in [Threads -> Seq(Nat)]
    /\ failed \in [Threads -> BOOLEAN]

NoList == [remain |-> 0, cur |-> [block |-> 0, offset |-> 0], started |-> FALSE,
           pos |-> 0, block |-> 0, input_size |-> 0]

Init ==
    /\ image \in Images
    /\ lock = [s \in Slots |-> NoThread]
    /\ key = [s \in Slots |-> NoFile]
    /\ index = [s \in Slots |-> <<>>]
    /\ pc = [t \in Threads |-> "idle"]
    /\ file = [t \in Threads |-> NoFile]
    /\ start = [t \in Threads |-> 0]
    /\ size = [t \in Threads |-> 0]
    /\ readOff = [t \in Threads |-> 0]
    /\ bl = [t \in Threads |-> NoList]
    /\ build = [t \in Threads |-> <<>>]
    /\ buf = [t \in Threads |-> <<>>]
    /\ failed = [t \in Threads |-> FALSE]

Layout(t) == image[file[t]]
Slot(t)   == SlotOf[file[t]]

Goto(t, step) == pc' = [pc EXCEPT ![t] = step]

\* The caller has its answer; what the read worked with is gone.
Forget(t) ==
    /\ file' = [file EXCEPT ![t] = NoFile]
    /\ start' = [start EXCEPT ![t] = 0]
    /\ size' = [size EXCEPT ![t] = 0]
    /\ readOff' = [readOff EXCEPT ![t] = 0]
    /\ bl' = [bl EXCEPT ![t] = NoList]
    /\ build' = [build EXCEPT ![t] = <<>>]
    /\ buf' = [buf EXCEPT ![t] = <<>>]
    /\ failed' = [failed EXCEPT ![t] = FALSE]

-----------------------------------------------------------------------------
(* sqfs_ll_op_read or sqfs_hl_op_read calls sqfs_read_range.               *)
Read(t) ==
    /\ pc[t] = "idle" /\ t \in Load[image].threads
    /\ \E f \in DOMAIN image : file' = [file EXCEPT ![t] = f]
    /\ \E from \in 0 .. Load[image].start : start' = [start EXCEPT ![t] = from]
    /\ \E n \in 1 .. Load[image].size : size' = [size EXCEPT ![t] = n]
    /\ Goto(t, "start")
    /\ UNCHANGED <<image, cacheVars, readOff, bl, build, buf, failed>>

\* start > file_size is an error, start = file_size the end of the file.
ReadOutside(t) ==
    /\ pc[t] = "start"
    /\ start[t] >= Layout(t).size
    /\ Goto(t, IF start[t] = Layout(t).size THEN "done" ELSE "error")
    /\ UNCHANGED <<image, cacheVars, file, start, size, readOff, bl, build, buf, failed>>

(* sqfs_blockidx_blocklist: the block list is read from its start, unless  *)
(* the position is behind its first MD-block and the file is indexed.      *)
Blocklist(t) ==
    LET l == Layout(t)
        b == BlocklistInit(l)
    IN /\ pc[t] = "start"
       /\ start[t] < l.size
       /\ readOff' = [readOff EXCEPT ![t] = start[t] % BlockSize]
       /\ IF start[t] \div BlockSize > b.remain
          THEN bl' = [bl EXCEPT ![t] = [b EXCEPT !.remain = 0]] /\ Goto(t, "loop")
          ELSE /\ bl' = [bl EXCEPT ![t] = b]
               /\ Goto(t, IF Metablock(l, start[t]) = 0 \/ ~Indexable(l) THEN "loop" ELSE "get")
       /\ UNCHANGED <<image, cacheVars, file, start, size, build, buf, failed>>

\* sqfs_cache_get(&fs->blockidx, inode_number + 1) takes the slot's mutex.
IndexLock(t) ==
    /\ pc[t] = "get"
    /\ lock[Slot(t)] = NoThread
    /\ lock' = [lock EXCEPT ![Slot(t)] = t]
    /\ Goto(t, "look")
    /\ UNCHANGED <<image, key, index, file, start, size, readOff, bl, build, buf, failed>>

\* (A faulty variant of IndexHit: sqfs_cache_put before the index is used.)
IndexHitPutsFirst(t) ==
    /\ pc[t] = "look"
    /\ key[Slot(t)] = file[t]
    /\ lock' = [lock EXCEPT ![Slot(t)] = NoThread]
    /\ Goto(t, "seek")
    /\ UNCHANGED <<image, key, index, file, start, size, readOff, bl, build, buf, failed>>

\* The slot has the file's index.
IndexHit(t) ==
    /\ pc[t] = "look"
    /\ key[Slot(t)] = file[t]
    /\ Goto(t, "seek")
    /\ UNCHANGED <<image, cacheVars, file, start, size, readOff, bl, build, buf, failed>>

(* The slot is EMPTY or has another file's index, which                    *)
(* sqfs_blockidx_dispose frees; sqfs_blockidx_add starts over the list.    *)
IndexMiss(t) ==
    /\ pc[t] = "look"
    /\ key[Slot(t)] # file[t]
    /\ key' = [key EXCEPT ![Slot(t)] = NoFile]
    /\ index' = [index EXCEPT ![Slot(t)] = <<>>]
    /\ bl' = [bl EXCEPT ![t] = BlocklistInit(Layout(t))]
    /\ Goto(t, "build")
    /\ UNCHANGED <<image, lock, file, start, size, readOff, build, buf, failed>>

Building(t) == bl[t].remain > 0 /\ Len(build[t]) < IndexCount(Layout(t))

\* (A faulty variant of IndexStep: the inode's own MD-block gets an entry.)
IndexStepFirst(t) ==
    LET b == bl[t]
    IN /\ pc[t] = "build"
       /\ Building(t)
       /\ build' = IF b.cur.offset < EntrySize
                   THEN [build EXCEPT ![t] = Append(@, IndexEntry(b))] ELSE build
       /\ bl' = [bl EXCEPT ![t] = BlocklistNext(Layout(t), b)]
       /\ UNCHANGED <<image, cacheVars, pc, file, start, size, readOff, buf, failed>>

\* One iteration of sqfs_blockidx_add.
IndexStep(t) ==
    LET b == bl[t]
    IN /\ pc[t] = "build"
       /\ Building(t)
       /\ build' = IF NewMdBlock(Layout(t), b)
                   THEN [build EXCEPT ![t] = Append(@, IndexEntry(b))] ELSE build
       /\ bl' = [bl EXCEPT ![t] = BlocklistNext(Layout(t), b)]
       /\ UNCHANGED <<image, cacheVars, pc, file, start, size, readOff, buf, failed>>

\* The loop is over: the index goes into the slot, which is marked valid.
IndexDone(t) ==
    /\ pc[t] = "build"
    /\ ~Building(t)
    /\ key' = [key EXCEPT ![Slot(t)] = file[t]]
    /\ index' = [index EXCEPT ![Slot(t)] = build[t]]
    /\ build' = [build EXCEPT ![t] = <<>>]
    /\ Goto(t, "seek")
    /\ UNCHANGED <<image, lock, file, start, size, readOff, bl, buf, failed>>

\* (A faulty variant of IndexFail: the index is tried again.)
IndexFailRetries(t) ==
    /\ pc[t] = "build"
    /\ lock' = [lock EXCEPT ![Slot(t)] = NoThread]
    /\ build' = [build EXCEPT ![t] = <<>>]
    /\ Goto(t, "get")
    /\ UNCHANGED <<image, key, index, file, start, size, readOff, bl, buf, failed>>

(* malloc fails, or the MD-block with the next list entry cannot be read:  *)
(* what was built is freed, the slot put back EMPTY, the read fails.       *)
IndexFail(t) ==
    /\ pc[t] = "build"
    /\ lock' = [lock EXCEPT ![Slot(t)] = NoThread]
    /\ build' = [build EXCEPT ![t] = <<>>]
    /\ failed' = [failed EXCEPT ![t] = TRUE]
    /\ Goto(t, "error")
    /\ UNCHANGED <<image, key, index, file, start, size, readOff, bl, buf>>

\* Take the position from the index entry, then sqfs_cache_put.
IndexSeek(t) ==
    LET l == Layout(t)
        m == Metablock(l, start[t])
    IN /\ pc[t] = "seek"
       /\ bl' = [bl EXCEPT ![t] = Seek(l, EntryOf(index[Slot(t)], m), m)]
       /\ lock' = [lock EXCEPT ![Slot(t)] = NoThread]
       /\ Goto(t, "loop")
       /\ UNCHANGED <<image, key, index, file, start, size, readOff, build, buf, failed>>

-----------------------------------------------------------------------------
(* The loop of sqfs_read_range.  A block that ends before start is         *)
(* skipped.                                                                *)
ListSkip(t) ==
    LET b == BlocklistNext(Layout(t), bl[t])
    IN /\ pc[t] = "loop"
       /\ size[t] > 0 /\ bl[t].remain > 0
       /\ b.pos + BlockSize <= start[t]
       /\ bl' = [bl EXCEPT ![t] = b]
       /\ UNCHANGED <<image, cacheVars, pc, file, start, size, readOff, build, buf, failed>>

\* A block with bytes to copy is found.
ListFind(t) ==
    LET b == BlocklistNext(Layout(t), bl[t])
    IN /\ pc[t] = "loop"
       /\ size[t] > 0 /\ bl[t].remain > 0
       /\ b.pos + BlockSize > start[t]
       /\ bl' = [bl EXCEPT ![t] = b]
       /\ Goto(t, "copy")
       /\ UNCHANGED <<image, cacheVars, file, start, size, readOff, build, buf, failed>>

(* The stored block at an address of the image, and the bytes in it: those *)
(* of the file's block n that is stored there.                             *)
BlockData(l, address) ==
    LET at == {n \in 0 .. BlocklistCount(l) - 1 : n \notin l.holes /\ DataStart(l, n) = address}
    IN IF at = {} THEN <<>>
       ELSE LET n == CHOOSE n \in at : TRUE
            IN Bytes(l, n * BlockSize, Least(BlockSize, l.size - n * BlockSize))

\* A hole reads as zeros up to the end of its block or of the file.
HoleData(l, pos) == [i \in 1 .. Least(BlockSize, l.size - pos) |-> 0]

\* The fragment's bytes: the file's last, partial block.
FragData(l) ==
    LET n == l.size % BlockSize IN Bytes(l, l.size - n, n)

\* How much of a block is taken: what is behind read_off, up to size.
Take(t, data) == Least(Len(data) - readOff[t], size[t])

\* memcpy or memset of the part that was asked for.
Deliver(t, data) ==
    LET take == Take(t, data)
    IN /\ buf' = [buf EXCEPT ![t] = @ \o SubSeq(data, readOff[t] + 1, readOff[t] + take)]
       /\ size' = [size EXCEPT ![t] = @ - take]
       /\ readOff' = [readOff EXCEPT ![t] = 0]

\* The hole, or the block that sqfs_data_cache delivered, is copied.
Copy(t) ==
    /\ pc[t] = "copy"
    /\ Deliver(t, IF bl[t].input_size = 0 THEN HoleData(Layout(t), bl[t].pos)
                  ELSE BlockData(Layout(t), bl[t].block))
    /\ Goto(t, "loop")
    /\ UNCHANGED <<image, cacheVars, file, start, bl, build, failed>>

\* Behind the list is the fragment, the last thing there is to copy.
CopyFragment(t) ==
    /\ pc[t] = "loop"
    /\ size[t] > 0 /\ bl[t].remain = 0
    /\ Layout(t).frag
    /\ Deliver(t, FragData(Layout(t)))
    /\ Goto(t, "done")
    /\ UNCHANGED <<image, cacheVars, file, start, bl, build, failed>>

\* All that was asked for is copied, or the file has no more.
LoopEnd(t) ==
    /\ pc[t] = "loop"
    /\ size[t] = 0 \/ (bl[t].remain = 0 /\ ~Layout(t).frag)
    /\ Goto(t, IF buf[t] = <<>> THEN "error" ELSE "done")
    /\ UNCHANGED <<image, cacheVars, file, start, size, readOff, bl, build, buf, failed>>

(* An MD-block, a data block, the fragment table or the fragment cannot be *)
(* read or decompressed.                                                   *)
LoopFail(t) ==
    /\ \/ pc[t] = "loop" /\ size[t] > 0 /\ (bl[t].remain > 0 \/ Layout(t).frag)
       \/ pc[t] = "copy" /\ bl[t].input_size # 0
    /\ failed' = [failed EXCEPT ![t] = TRUE]
    /\ Goto(t, "error")
    /\ UNCHANGED <<image, cacheVars, file, start, size, readOff, bl, build, buf>>

\* The reply goes to the kernel: the bytes, end of file, or EIO.
Reply(t) ==
    /\ pc[t] \in {"done", "error"}
    /\ Goto(t, "idle")
    /\ Forget(t)
    /\ UNCHANGED <<image, cacheVars>>

-----------------------------------------------------------------------------
Running(t) ==
    \/ ReadOutside(t) \/ Blocklist(t) \/ IndexHit(t) \/ IndexMiss(t) \/ IndexStep(t)
    \/ IndexDone(t) \/ IndexFail(t) \/ IndexSeek(t) \/ ListSkip(t) \/ ListFind(t)
    \/ Copy(t) \/ CopyFragment(t) \/ LoopEnd(t) \/ LoopFail(t) \/ Reply(t)

Next == \E t \in Threads : Read(t) \/ IndexLock(t) \/ Running(t)

Spec == Init /\ [][Next]_vars

(* Threads that can run are run and the reads of the image return.  A      *)
(* mutex that stays free is taken in the end; nothing is assumed of a      *)
(* contended one.                                                          *)
Fairness == \A t \in Threads : WF_vars(Running(t)) /\ WF_vars(IndexLock(t))

FairSpec == Spec /\ Fairness

-----------------------------------------------------------------------------
(***************************************************************************)
(* Properties                                                              *)
(***************************************************************************)
(* A read that succeeds has copied the bytes of the file from start on, as *)
(* many as were asked for or as the file has: through holes, the fragment, *)
(* straddling list entries, and lists entered through the index.  It fails *)
(* only if a cache reported an error to it or it starts behind the end of  *)
(* the file.                                                               *)
ReadCorrect ==
    \A t \in Threads :
        LET l     == Layout(t)
            asked == size[t] + Len(buf[t])
        IN /\ pc[t] = "done" =>
                buf[t] = Bytes(l, start[t], Least(asked, l.size - start[t]))
           /\ pc[t] = "error" => failed[t] \/ start[t] > l.size

\* A block list record is where a scan from the list's start would be.
Consistent(l, b) ==
    LET n == BlocklistCount(l) - b.remain
        p == l.off + n * EntrySize
    IN /\ n >= 0
       /\ b.cur = [block |-> p \div MetaSize, offset |-> p % MetaSize]
       /\ b.block + b.input_size = DataStart(l, n)
       /\ b.pos = (IF b.started THEN n - 1 ELSE n) * BlockSize

(* However a list was entered, as long as there are blocks left its cursor *)
(* is at the next block's size, and pos and block are that block's.  The   *)
(* types are as declared.                                                  *)
ListConsistent ==
    /\ TypeOK
    /\ \A t \in Threads : pc[t] \in {"loop", "build"} /\ bl[t].remain > 0 =>
        Consistent(Layout(t), bl[t])

(* The entries of a cached index are those of the file it is cached for:   *)
(* the MD-block, and the data block whose size is the first to start in    *)
(* that MD-block.                                                          *)
IndexCorrect ==
    \A s \in Slots : key[s] # NoFile =>
        LET l == image[key[s]]
        IN \A m \in DOMAIN index[s] :
             index[s][m] = [md_block |-> m, data_block |-> DataStart(l, Skipped(l, m))]

(* From sqfs_cache_get to sqfs_cache_put a thread owns the slot, and the   *)
(* index it is about to use is its file's: no other thread frees it.       *)
IndexOwned ==
    \A t \in Threads :
        /\ pc[t] \in {"look", "build", "seek"} => lock[Slot(t)] = t
        /\ pc[t] = "seek" => key[Slot(t)] = file[t]

(* A reader gets its answer once the others have stopped for good, in      *)
(* whatever way: the loops end, and nobody leaves the slot of an index     *)
(* locked.                                                                 *)
ReadEnds ==
    \A t \in Threads :
        (<>[](\A u \in Threads \ {t} : pc[u] = "idle")) => (pc[t] # "idle" ~> pc[t] = "idle")
=============================================================================
