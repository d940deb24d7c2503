# A TLA+ model of squashfuse

squashfuse mounts a SquashFS image, which never changes, through FUSE. It is a
library (`fs.c`, `cache*.c`, `file.c`, `dir.c`, `xattr.c`, ...) that finds its
way through the image, and front ends: `squashfuse_ll` (low-level FUSE API,
multi-threaded where the build has `SQFS_MULTITHREADED`), `squashfuse`
(high-level API), `squashfuse_ls` and `squashfuse_extract`.

Since the image is read-only, what can go wrong is in the program's own state:
caches that threads share, reference counts, positions that are computed by
arithmetic or handed to the kernel and come back, tables that follow the
kernel's counting, and timers that race with requests. That is what the modules
model. The contents of the image are abstracted to what tells two answers apart.

## 1. Inventory

| Component | State | Operations | Used by | What makes it correct |
|---|---|---|---|---|
| block cache, threads (`cache_mt.c`) | slots: mutex, EMPTY/FULL, key, entry | get (locks), mark_valid, put (unlocks), destroy | block layer, block index | the mutex covers the entry; a key's entry has the key's block; every lock is released |
| block cache, single-threaded (`cache.c`) | entries: valid, key, entry; next to evict | get, mark_valid, put (empty), destroy | as above | as above, without locks; no key twice |
| block layer (`fs.c`) | superblock, tables, three caches (`md`, `data`, `frag`), heap blocks with a `refcount` | block_read, md_cache, data_cache, block_dispose, md_read, inode_get, init, destroy | everything | counts are exact; no use after free, no leak, also on error paths |
| file reading (`file.c`) | block list cursor, block index, its cache | read_range, blocklist_next, blockidx_add, blockidx_blocklist | `ll.c`, `hl.c`, extract | the bytes read are the file's |
| directories (`dir.c`) | cursor, offset, header count | open, next, lookup, ff_offset, ff_name | readdir, lookup, traversal, path lookup | resuming at a cookie neither skips nor repeats; lookup finds exactly what is there |
| traversal (`traverse.c`, `stack.c`) | state machine, stack of levels, path buffer | open, next, prune, close | ls, extract | each item once, in order, with its path |
| low-level handlers (`ll.c`) | `last_access`, `open_refcount`, alarm | one handler per FUSE request, alarm_tick, mount, unmount | the kernel | ends the session only when idle, and then does |
| inode map (`ll_inode.c`, `hash.c`) | for 32-bit `fuse_ino_t` a hash table with counts | ino_register, ino_forget, sqfs_num, fuse_num | lookup, forget, every handler | every inode the kernel holds resolves |
| mounting, signals (`ll_main.c`, `hl.c`, `fuseprivate.c`, `util.c`) | what is allocated, the mount, signal dispositions, the FIFO | both `main`s, sigterm_handler, notify_mount_ready | the host | requests only see what was made; a failed start leaves nothing; SIGTERM waits for users and does end the session; the status told is true |
| high-level handlers (`hl.c`) | inodes kept in open handles | one handler per FUSE request | libfuse | as the low-level ones; handles leak nothing |
| inodes, tables, xattrs, stat (`fs.c`, `table.c`, `xattr.c`, `stat.c`) | position tables, the xattr iterator with its lazily known cursors | inode_get, readlink, table_get, xattr_open, read, name, value_size, value, find, lookup | `ll.c`, `hl.c` | what is answered is what the image says, whatever was called before |
| the rest (`swap.c`, `decompress.c`, `nonstd-*.c`, `ls.c`, `extract.c`, `win/`) | none of their own | conversions, wrappers, output | | not modelled, see 7 |

How they interact: a FUSE thread runs a handler of `ll.c`, which stamps
`last_access`, turns the `fuse_ino_t` back into an inode id, reads the inode
through the metadata cache and then lists (`dir.c`) or reads (`file.c`), both
through the caches. Threads meet in the cache slots, in the block counts, in
the block index, in the inode map and in the idle counters. The kernel is an
actor too: it counts lookups, sends them back in batches, keeps readdir
offsets, and may not receive a reply.

The hard behaviours, each listed under `hazards` in `PROJECT.json` with the
line where it bites: eviction under a reader; an error between claiming a slot
and filling it; the order of taking a reference and releasing a slot; entries
without references (the block index); nested slot locks; the idle check's three
separate reads; lost replies, of lookups and of opens, and late forgets; allocation failures in the middle
of rebuilding a table; list entries that straddle metadata blocks; a fragment
right behind an exactly filled metadata block; resuming at any offset; paths
cut back by remembered lengths; an iterator whose calls come in any order; a
start that goes on after a failure; signals that arrive before, between and after
the handlers are installed; a status written by one of two processes.

## 2. The modules

| Module | Models | Role |
|---|---|---|
| `BlockStore` | what the callers of `sqfs_md_cache`/`sqfs_data_cache` rely on | abstract specification |
| `BlockCache` | `cache_mt.c` under the block layer of `fs.c` | implements `BlockStore` |
| `BlockCacheProofs` | | theorems about `BlockCache` |
| `CacheST` | `cache.c` under the block layer | implements `BlockStore` |
| `CacheSTProofs` | | theorems about `CacheST` |
| `FileRead` | `file.c`, `sqfs_md_read`, the read handler | |
| `FileReadProofs` | | theorems about `FileRead` |
| `Directory` | `dir.c`, the readdir handlers of both front ends, lookup | |
| `DirectoryProofs` | | theorems about `Directory` |
| `Traverse` | `traverse.c`, `stack.c` | |
| `TraverseProofs` | | theorems about `Traverse` |
| `IdleTimeout` | the idle machinery of `ll.c` | |
| `InodeNumbers` | the conversions of `ll_inode.c` | operators |
| `InodeMap` | `sqfs_ll_ino32_*`, `hash.c`, lookup and forget | extends `InodeNumbers` |
| `InodeMapProofs` | | theorems about the conversions and about `InodeMap` |
| `Attributes` | `sqfs_inode_get`, `sqfs_readlink`, `table.c`, `stat.c`, `xattr.c`, the export-table inode numbers, the handlers over them | extends `InodeNumbers` |
| `HandlerProofs` | | theorems about `IdleTimeout` and `Attributes`: what is shared by all handlers, and what they answer |
| `Mount` | opening and destroying a file system, path walks, the inode strategies' set-up | |
| `FrontEnd` | both `main`s, signals, the notification, the users, the handles of `hl.c` | extends `Mount` |
| `FrontEndProofs` | | theorems about `FrontEnd` |
| `MC*` | | constants for TLC |

`map` in `PROJECT.json` gives the lines behind every definition. Definitions
whose comment calls them a faulty variant are used by no specification: put in
the place of the definition they vary, they make TLC find the property named
with them in `mutants` violated.

**BlockStore.** Each caller has asked for a position, or not, and has been given
the data of that position, or nothing; a request may fail; the store is closed
when nobody asks.

**BlockCache.** One step is what a thread does between two points where another
thread can interfere: waiting for the slot's mutex (`Lock`), looking at the
header (`LookEmpty`, `LookHit`, `LookCollision`), freeing what was evicted,
reading (`ReadOk`, `ReadFail`), taking the caller's reference (`Ref`),
`sqfs_cache_put` (`Put`), `sqfs_block_dispose` (`Dispose`, `Free`). The
decrement of a count and the test of its result are one atomic operation in the
code, and one step here. A freed address may be allocated again at once, and
`entry->block` keeps its stale pointer in an EMPTY slot, as in the code.
The callers' use of the block lies between `Put` and `Dispose`.

**CacheST.** The same block layer over the linear search and round-robin
eviction of `cache.c`. `ndebug` is chosen initially: without it the assert at
`cache.c:112` ends the program.

**FileRead.** An image is the layout of its files: where in a metadata block
the list of block sizes starts, the file size, whether it ends in a fragment,
which blocks are holes. A byte is named by its position, so that a wrong block,
a wrong offset and a missing zero are all seen. Each iteration of
`sqfs_blockidx_add` and of the loop of `sqfs_read_range` is a step; the slot of
the `blockidx` cache is locked as in `BlockCache`. The caches below are taken as
`BlockStore`s, which is what `BlockCache` and `CacheST` are shown to implement:
a request delivers the block or an error. A read of a list entry outside the
list gives a value no list entry has, a read of an index entry that was never
filled gives `Junk`.

**Directory.** A listing is its names in `strcmp` order and which of them begin
a run behind a header, at real sizes and positions; the index has any subset of the runs after the first, which is what
mksquashfs writes. A name is a sequence of bytes so that `strncmp` with its
prefix cases is what the code does. readdir starts at any cookie an earlier
readdir handed out, in either front end: they differ when a dot does not fit,
which ends the handler of `hl.c` and only the loop of that of `ll.c`. The `SQFS_BROKEN_DIR_OFFSETS` variant is left out.

**Traverse.** The path is a sequence with one element per byte, each naming the
node it belongs to, and it is cut by lengths as the code does it; capacities
grow as in the code. Every allocation and directory read may fail; the client
may prune, go on calling after the end or after an error, and close any time.

**IdleTimeout.** A handler stamps in two steps (reads the clock, stores it) and
counts handles. An open counts (`OpenCount`) and then replies (`OpenReply`); the
reply may be lost, which the code does not look at, and `lost` remembers it.
`alarm_tick` reads the count, the clock and the last access in
separate steps, in either order of the last two, which C leaves open. Times are
kept as ages, so the state space is finite while the clock runs for ever. Where
`Attributes`, whose proofs are in the same module, has a name as well, the one
here starts with `Idle`, and a worker's program counter is its `step`.

**InodeMap.** The kernel's side is modelled as the FUSE protocol has it: a
lookup counts when its reply arrives, a forget returns part of the count and may
be delayed. A handler is find-then-write without a lock, as in the code. The
table starts with its buckets; what happens when they could not be allocated is
in `Mount` and `FrontEnd`.

**Attributes.** An image is given the way a writer is given it (inodes with
their attributes, sets of extended attributes, a value that several share) and
stored as streams of cells, one per field, in the layouts of `squashfs_fs.h`;
tables are cut into metadata blocks. Behind the structure of an inode is its
target, its block list or its directory index (`tail`), of which only a target is
read here. The decoding operators only see the
streams, and the properties only the image as given. A request names its inode
in one of three ways: by a 64-bit `fuse_ino_t`, by a 32-bit one through the
export table, or by a path, which the high-level front end has already walked.
Every read may fail. When the iterator cannot be opened, `sqfs_listxattr` returns
`-EIO`: `ll.c` passes it on as an error (`OpenFail`; libfuse calls it a bad error
value and replies ERANGE), `hl.c` negates it once more and returns a length of 5
(`OpenFailNegated`). Besides the handlers there is a program that uses the
iterator of `xattr.h` directly and calls name, size, value and read in any order
and any number of times; it gives up when a call fails.

**Mount.** `live` is the set of what is allocated or open, so that error paths
can be compared with what was made. `MakeParts` lets any parts fail, and the
start goes on, as the code does; err is looked at in `Settle`. The lookup of
`subdir` is the loop of `sqfs_lookup_path_with_id`, name by name, and remembers
separately what `*id` was set to; the handlers of `hl.c` walk with the same
operators. `pipe` is `opts.notify_pipe`, which is not known before the arguments
are parsed, and after a wrong one perhaps never. `Maps` has both outcomes of the
`sqfs_hash_init` whose result `sqfs_ll_ino32_init` does not look at.

**FrontEnd.** One process, its helper children, and the outside. `int` and
`term` are what the two signals do at the moment; a signal is delivered between
any two steps. Every step of the start may fail. A child of `sigterm_handler`
runs later than the handler. It becomes a fusermount that unmounts
(`ChildUnmounts`) or that cannot and is noticed by nobody (`ChildRefused`, which
`refused` remembers), or there is none and it interrupts its parent
(`ChildFails`). A lookup in an `ino32` map without buckets ends the program
(`LookupCrash`). A writer on the FIFO waits for a reader, and main waits with it when it is the
writer. The session's loop returns when it was told to exit, or when the file
system was unmounted and is unused. `fuse_main` of the high-level front end is
taken to do what `ll_main.c` spells out, without `sigterm_handler`.

## 3. Runs

| Run | Shows | Instance |
|---|---|---|
| `cache_mt` | counts exact, heap exactly what is referred to, callers have what they asked for, entries coherent, asserts hold, implements `BlockStore`, slots released | 2 threads, 2 slots, 3 keys of which 2 collide, 4 blocks |
| `cache_st` | the same for `cache.c`, and no key twice | 3 keys, 2 entries, 3 blocks |
| `cache_st_assert` | (violation) the assert at `cache.c:112` | 1 entry |
| `idle` | handle count exact but for lost replies, no unjustified kill, idle unmounts if no reply to an open was lost, alarm dies out | 2 handlers, timeout 2 s, stall 1 s |
| `inode_map` | held inodes resolve, counts match, table consistent | 3 files, table 1 -> 2 -> 4, failing allocations |
| `inode_map_threads` | (violation) two threads lose an inode | 2 threads, 1 file |
| `file_read` | right bytes or a justified error; list state consistent; cached indexes right and owned while used; reads end | one reader of every layout up to 11 bytes in blocks of 2, every list offset; two readers of 2 files on 1 index slot |
| `directory` | readdir resumes, lookup exact, cursor and offset agree | up to 4 names that are prefixes of each other, every split and index |
| `traverse` | order, paths, buffers, termination of each call | every tree of 3 nodes below the root, names of 1 or 2 bytes |
| `attributes` | inodes decoded right, cursors right after any calls, answers are what the image says | three images: all ten inode layouts, tables of several blocks, shared and empty values, mount options uid and gid |
| `frontend` | requests see the tables and caches and the right root, failed starts leave nothing, handles leak nothing, SIGTERM is patient and effective, the status is true and is told | both programs, all inode strategies, 2 parts failing, 2 users, 2 SIGTERMs |
| `subdir_root` | (violation) `subdir=/` mounts an arbitrary inode | the same, the path `/` |

One type invariant per module is checked as a conjunct of the invariant that
needs it (`UniqueKeys`, `RefcountTracksHandles`, `HashConsistent`,
`CursorConsistent`, `BuffersFit`, `ListConsistent`).

Why the bounds are enough for the interesting cases. *Cache*: one thread can
hold a block while another evicts it and a third key lives in another slot; four
blocks are what two FULL slots and two holders need. Where section 5 has a
theorem the invariant holds for every value of the constants, and TLC's instance
is for finding mistakes early, and for liveness. *File*: metadata blocks of two list entries
make a list of five entries span up to four metadata blocks; offsets 0 to 7 give
aligned and straddling entries; five blocks give files with index entries in
front of, at and behind the read. Reads of size 0 are not enumerated: the kernel
does not send them. *Directory*: metadata blocks of 8 bytes with headers of 3
and entries of 2 make every entry straddle in some layout; starts 0, 3, 5, 6
cover aligned, odd, header-straddling and entry-straddling starts. *Traverse*:
three nodes below the root reach depth three and every shape; initial capacities
of 2 bytes and 1 level make both buffers grow more than once. *Idle*: two
handlers are the fewest that race each other while the alarm runs. *Inode map*:
three files make the table double twice; the number 0 and the root's number
change places in the conversion. *Attributes*: metadata blocks of 4 units make
ids fit four to a block, export entries two and xattr ids one, so that tables
fill their blocks exactly and spill over; buffer sizes are around the lengths of
the lists, values and targets. *FrontEnd*: one failing part and two differ, since
the start goes on; a second SIGTERM comes while the first child has not run; two
users make the last one's leaving matter.

`MaxStall`, `MaxOpen`, `MaxLookups`, `MaxLost`, `Load`, `Sizes`, `MaxFailed`,
`MaxUsers`, `MaxTerms`, `MaxRoom` and the `MaxFileSize`, `MaxLen` of the MC modules are bounds of the
model, not of the code. `MaxStall` is an assumption as well: a thread is not
stopped for more than that between reading the clock and using what it read;
`KillJustified` loses exactly that much precision.

Deadlock is checked in every run. A closed image, an aborted or crashed program
are final states and have an explicit stuttering step.

## 4. Fairness

- `BlockCache` and `FileRead`: a thread that can run does (`WF` on its steps
  once it is in a call), because the scheduler is fair and reads of the image
  return. `FileRead` also assumes that a mutex that stays free is taken; neither
  module assumes anything of who wins a contended mutex, nor that requests
  arrive. `LockReleased` and `ReadEnds` hold under that: no path, errors
  included, leaves a slot locked.
- The two together settle nested locking: a thread holds a `blockidx` slot while
  it waits for slots of the metadata cache, never the other way round, and
  nothing is waited for while a metadata slot is held. A metadata slot is always
  released (`LockReleased`), so the holder of the index slot gets on, and
  releases it (`ReadEnds`, where the metadata cache answers).
- `IdleTimeout`: handlers that have started go on, a due SIGALRM is delivered,
  time passes. Nothing is assumed of requests or of an unmount.
- `Traverse`: a call of `sqfs_traverse_next` goes on; the client may stop.
- `FrontEnd`: main and the children run, the kernel sends FUSE_INIT to a session
  that waits for it, a FIFO open at both ends is written to. Nothing makes
  readers, users or signals come. That users leave is a hypothesis of `TermEnds`,
  which also has a session go on when a fusermount that was started cannot
  unmount. `Answered` supposes that nobody kills
  the process or takes the mount away before FUSE_INIT, that it does not crash, and
  that no argument before `notify_pipe` was wrong (`Unheard`).
- `IdleUnmounts` supposes that no reply to an open was lost; after one the file
  system is never unmounted for being idle.

## 5. Theorems

`BlockCacheProofs` proves, for every set of threads (finite), keys, slots,
blocks and every hash function: `TypeOK`, `RefcountExact`, `HeapExact`,
`HeldIsWanted`, `CacheCoherent`, `AssertsHold`, that nothing stays allocated
after `sqfs_destroy`, and that the cache implements `BlockStore` (initial states
map to initial states, each step to a step of the store or to none).

Assumptions: `Threads` is finite, `SlotOf` maps keys to slots, and the null
values are not in their sets. The slots may be infinitely many; only the callers
of a block are counted with `Cardinality`.

The invariants are not inductive by themselves. `IInv` adds what each thread
knows about the slot it has locked (`ThreadsOK`: a slot being read into is EMPTY
and has the thread's key, a slot found valid is FULL with it), that no two FULL
entries share a block (`EntriesDistinct`: eviction drops the only reference the
cache has), that a count is 0 or 1 for the cache plus the callers that hold the
block (`CountOK`), that a block about to be freed has count 0 and one freeing
thread (`FreeingOK`), that allocated means counted or about to be freed
(`HeapOK`), and what is left after the close (`ClosedOK`). With `FreeingOK` and
`HeapOK` a block that `ReadOk` allocates is fresh: nobody points at it. There is
one lemma per action, and `QuietStep` for the actions that leave blocks and
references alone.

`CacheSTProofs` proves the same for `cache.c`, with any number of entries, with
and without its assert: `HeapExact`, `UniqueKeys`, an empty heap after
`sqfs_cache_destroy`, and that it too implements `BlockStore`. `UniqueKeys`
covers entries valid or not, since a failed read leaves its key behind and the
search finds the first entry with a key. `IInv` adds what the caller knows of
the entry it was given (`CallerOK`), that valid entries are of different blocks
(`EntriesOK`), and that a count is that of the valid entries and the caller
(`CountOK`).

`FileReadProofs` proves `ReadCorrect`, `ListConsistent`, `IndexCorrect` and
`IndexOwned` for every image, every size of blocks, metadata blocks and list
entries (which divide a metadata block), any load, threads and slots. The only
assumption on an image besides its types is that a fragment is shorter than a
block. `IInv` has one clause per step of a read: while the index is built, that
it is right as far as it goes and has as many entries as the list has passed
metadata blocks (`IndexTrue`, `Filled`); in the loop, that what was copied is the
start of what was asked for and where the list stands in relation to its end
(`LoopOK`); when a block was found, which block it is and which byte of it comes
next (`CopyOK`). `ReadCorrect` speaks only of the finished read, and nothing in it
carries from one block to the next. `SlotsOK` says that a FULL slot has the whole
index of its file; with `IndexOwned` another thread's eviction cannot change an
index that is being used. The arithmetic (which metadata block has entry `i` of a
list that starts anywhere in one, how far a list can be skipped) is in lemmas
about `\div` and `%`, which the provers only know for constants.

`DirectoryProofs` proves `ReaddirResumes`, `LookupCorrect` and
`CursorConsistent` for every listing, every way it is split into runs, every
choice of indexed runs, and all sizes of headers, entries, metadata blocks and
buffers. Assumptions: a name is a nonempty sequence of bytes that are not 0,
names are sorted by their bytes, the first entry is behind a header, and the
index has runs after the first. `IInv` says that a directory stands between two
entries (`Stands`: its offset is the end of the first `g` entries, its count what
is left of the run), without which `sqfs_dir_next` reads nonsense; that a
readdir has put into the buffer the entries from its cookie on and at each step
is about to go on behind them (`ReaddirOK`; when `..` did not fit in `ll.c` the list
is entered at the wrong place, which is harmless because there is no room
left); and that a lookup has not passed the name (`LookupOK`). `FfStands` shows that
a jump by the index leaves the directory standing, `StrncmpStops` that `strncmp`
over the length of the target, and then the lengths, decide the order of the
listing, so that a jump by name never goes behind it.

`TraverseProofs` proves `BuffersFit` and `PathCorrect` for every tree, names of
any length and any initial capacities. `IInv` ties the path to the stack
(`PathOK`): in the states between items the path is the one the directories on
the stack spell (`DirOf`), and while the client has an item, that path and the
item's name. `PathCorrect` alone says nothing in the states in which the path is
cut and extended. `Fit` has room for the terminating 0; `GrownPathFits` shows that
doubling until it fits does fit.

It also proves `InOrder`, for every tree and whatever the client prunes on the
way, under `RootedAssumption`: an entry is listed once, and no directory is below
itself. The code does not check either; in an image with a directory below itself
the walk has no end. The reference `Walk` is a recursive function over places, the
first `i` entries of a directory `d`; `PlaceInduct` is the induction over them,
from which `WalkExists` and what a walk consists of follow. `OrderOK` says what
`InOrder` does not: each level's directory is the entry that the level above took
last (`Line`), and what was given is, level by level, the entries done before it
(`Begins`) and then, by the state, none, the item, or all of the entry in progress
(`Progress`). Pruning changes the walk itself: that it changes nothing of what was
already given (`BeginsPruned`) holds because what is not on the way to the current
entry is closed under descent (`TakenOff`), and that is where an entry listed
twice would break it.

`HandlerProofs` proves `RefcountTracksHandles` for any workers and handles
(the count is what the kernel has open, what opens and releases in progress have
counted, and what was lost with a reply), and `KillJustified` for any timeout and any `MaxStall` under `NarrowTime = FALSE`;
with `NarrowTime = TRUE` it does not hold (section 6). `IdleIInv` bounds how old a
time that a worker has read and not stored can be (`StampOK`), what the recorded
access says about the activity while nothing is open (`FreshOK`), and what each
of the separate reads of `alarm_tick` can have seen (`TickOK`): the tick decides on
values that may all be out of date, and the invariant says by how much.

About `Attributes` it proves `InodeTrue`, `CursorsTrue` and `ReplyCorrect` for
every image, buffer size and name asked for. `InodeTrue` covers every field that
`sqfs_inode_get` fills in but mode and mtime, and where the cursor behind the
structure stands. `ReplyCorrect` says that the one
wrong answer is the five bytes of `OpenFailNegated`, and that only inodes that have
attributes get it (`ListNegated`). The assumptions are those on
`Images` in `IsImage` (references in range, inode numbers a permutation, a shared
value not itself shared, device numbers within the limits of their encoding),
that there are fewer inodes than the 32-bit conversion allows, and that an entry
of the xattr id table does not straddle two metadata blocks (`MetaSize` is a
multiple of its size, as 8192 is of 16). The argument has three layers.
*Storage*: a stream is the concatenation of what it stores, so that cell `k` of
the `i`-th thing is `k` cells behind the end of the one before (`StreamCell`, by
induction over `Ends` and `Heads`); with the fields of each of the nine structures
(`FieldsOf`) and the arithmetic of tables (`TableGetIs`) and of device numbers
(`DevRoundTrip`), `SqfsInodeIs` follows: whatever the layout, the inode read is the
inode stored. *Iterator*: `At(img, j, y)` says of an iterator that it is at
attribute `j` and that each position it says it knows is right; name, size, value
and the skipping of what was left unread keep it (`NameAt`, `ValueSizeAt`,
`ValueDoneAt`, `SkippedAt`) and a read goes from `j` to `j + 1` (`ReadAt`). *Handlers*:
`IInv` says at which attribute the iterator is, in terms of what remains
(`IterOK`), that a listing has copied the names of exactly the attributes passed
(`ListOK`), that a search has passed none that is wanted (`NoneBefore`), and that
from `InodeGet` on the inode is the right one (`InodeRight`). `ReplyCorrect` speaks
of the finished answer and `CursorsTrue` of one position; neither says what the
iterator is at, nor that the value it will find is that of the name compared.

`InodeMapProofs` proves for every limit and root that the 32-bit conversion
can be undone, is injective and never gives the reserved 0 for every number but
the last (the case the FIXME of `ll_inode.c:135` announces), that the last
number and no other becomes 0, and that the 64-bit conversion can be undone for
every id but 1 and 2, which no inode has: the first inode is at 0 and longer
than two bytes. About the map it proves `HashConsistent`, `Resolves` and
`RefcountMatches` for any files, initial capacity, failures of allocations,
lost replies and delayed forgets, under two hypotheses: one thread serves the
session (`Threads = {t}`; with two the run `inode_map_threads` shows an inode
lost), and no inode has the last number (`NumbersFit`). `IInv` is the balance of
the protocol (`CountOK`): as long as no allocation has failed, an entry counts
what the kernel knows, what it is giving back, what was lost with a reply, and
what the handler in progress has in its hand; with what a handler has found
between finding and writing (`HandlerOK`), that a file has at most one entry
(`ShapeOK`), and that the table's size is its number of entries (`TableOK`).

`FrontEndProofs` proves, for any image, options, users and signals, that a
status read from the FIFO is true (`StatusTrue`), that requests are only handled
while all tables and caches and the map exist (`PartsTrue`, which cannot promise
the buckets of the map), and that a session is only ended under
its users when it was told to exit at once (`Patience`). `IInv` has three parts.
`StatusInv`: nothing is mounted before `MountOk` nor from `out` on, a success is
only told after FUSE_INIT, a failure only by a `main` that is leaving;
`StatusTrue` alone does not exclude that a mount follows a failure. `ExitInv`:
the session is only told to exit by a SIGINT, by the fallback of the SIGTERM
handler or its child, or by a SIGTERM that came before that handler was
installed. `LiveInv`: what is allocated at each step of the start, and that
after `sqfs_init` every table and cache exists unless `err` is set; `PartsTrue` needs it
because the parts are made long before the first request.
It also proves that the handles of `squashfuse` are of what their paths lead to
and leak nothing (`HandlesRight`), and that the root is where `subdir` leads
(`RootIsSubdir`) if every `subdir` that is not empty has a name in it
(`NamesGiven`; without it `subdir_root` is a counterexample). Both rest on `Along`:
a walk that is in progress has consumed a prefix of the path and stands where
that prefix leads, and `*id`, which lags behind, is right once a name was found.

Where a definition recurs over a sequence it is a recursive function, and where
the proofs need induction they take a least counterexample (`Least`, `Induct`,
from the well-foundedness of `<`) of a set of numbers; that such a function
exists and satisfies its equation is proved the same way (`TrailUnfold`,
`TotalsUnfold`, `DoublingsUnfold`, `EndsUnfold`, `HeadsUnfold`, `PathsExist`, `WalkUnfold`), as is
that `FlattenSeq` of the community modules is the last of the `Heads` (`FlattenIs`).

Only model-checked: all liveness properties, which are beyond the prover. Every
invariant that a passing run checks is also a theorem. `InodeMap` with several
threads and `IdleTimeout` with a narrow `time_t` do not have the properties.

## 6. Where the code departs from what it says

With a run and an entry in `findings`: the assert of the single-threaded cache
after a failed read; the inode map that is not locked although sessions are
multi-threaded; the root of a file system mounted with `subdir=/`.

Reproduced by the models without a run of their own:

- `ll.c:128`, `ll.c:325`: the handle is counted before the reply to its open is
  sent, and the result of `fuse_reply_open` is not looked at. When that reply is
  lost no release comes and the count never returns to 0: the `automatic unmount`
  of `squashfuse_ll.1:54` does not happen any more. `RefcountTracksHandles` counts
  such handles apart (`lost`) and `IdleUnmounts` supposes there is none.
- `fuseprivate.c:45`: `sqfs_listxattr`, which is to "return an errno value"
  (`fuseprivate.h:37`), returns `-EIO` when the iterator cannot be opened and `EIO`
  elsewhere. `hl.c:267` negates it, and `squashfuse` answers with a list of five
  bytes that nobody wrote (`ListNegated` in `ReplyCorrect`).
- `ll_main.c:87`: only a failed exec falls back to SIGINT. A fusermount3 that
  starts and fails is noticed by nobody, and the session goes on after SIGTERM,
  although the comment at `ll_main.c:98` relies on the child "in one way or
  another" (`ChildRefused`; `TermEnds` names the outcome).
- `hash.c:51`: `sqfs_hash_double` clears the live table before it has a new one.
  A failed `calloc` leaves a table without buckets that the next lookup reads
  (`AddNoTable`, then `Crash`); a failed bucket drops that entry and all after
  it (`AddDropsRest`). `Resolves` is therefore stated until an allocation fails.
- `ll.c:292`: when registering fails, the reply has inode 0 and an infinite
  timeout: an existing file is reported missing for as long as the kernel
  remembers (`Reply` after `AddFailed`).
- `stack.c:81`: `sqfs_stack_init` sets neither size nor freer. If the path
  buffer of a fresh traversal cannot be allocated, `sqfs_traverse_close`
  destroys a stack of arbitrary size (`OpenNoPath`, `Crashed`).
- `ll.c:582`: the idle check compares a signed difference with an unsigned
  number. Where `time_t` has 32 bits and an access is recorded between the two
  reads of `alarm_tick`, -1 becomes huge and an active session is ended: with
  `NarrowTime = TRUE`, `KillJustified` fails.
- `file.c:281`: a read of the fragment behind a block list that ends where a
  metadata block does takes its position from an index entry one past the last.
  The position is not used, and `file_read` shows the right bytes.
- `fs.c:100`: the lookup of `subdir` runs although the metadata cache could not
  be made (`SubdirCrash`); `ll_inode.c:258` and `ll_inode.c:304` use what malloc
  returns unchecked (`NumbersCrash`).
- `fs.c:123`: `sqfs_destroy` never frees the xattr table; `ll.c:629` and
  `hl.c:317` leave the image file open when the root's inode cannot be read.
  `PartsTrue` names both exceptions.
- `ll_inode.c:260`: the result of `sqfs_hash_init` is not looked at, and the
  session is served with a map that has no buckets; the first lookup crashes
  (`Maps`, `LookupCrash`).
- `ll_main.c:181`: an argument that is wrong and comes before `notify_pipe` ends
  the program without a word on the FIFO (`ArgsFail`).
- `fs.c:103`: a `subdir` that leads to a regular file is accepted and mounted;
  `RootIsSubdir` only asks that the root is what the path leads to.
- `xattr.c:257`, `ll.c:440`, `hl.c:291`: an attribute with an empty value is
  reported as absent (`GetRight` has the exception).
- A `notify_pipe` reader can be told 'f' after 's', when the session's loop ends
  with an error; can be told 's' by the child after the file system is gone
  again; and is told nothing when the session is ended before FUSE_INIT without
  an error (`disturbed`).
- A SIGTERM between `fuse_set_signal_handlers` and `set_sigterm_handler` ends the
  session at once, and one after `fuse_remove_signal_handlers`, which leaves
  `sigterm_handler` installed, still starts a child (`RemoveHandlers`).

## 7. Not modelled

- `swap.c`: pure field conversion. `decompress.c`: external libraries; a failure
  is `ReadFail`. `nonstd-*.c`, `win/`: wrappers.
- `ls.c`, `extract.c`: clients of the traversal that print or write to the host.
- `statfs`, which copies fields of the super block, and the usage texts;
  `sqfs_ll_stat`, which nothing calls; the read handler of `hl.c`, which is the
  call of `sqfs_read_range` that `FileRead` models.
- What an iterator of `xattr.c` is after a call on it has failed: everything in
  the repository gives up then, and so does the client of `Attributes`.
- A `readlink` with a buffer of size 0, which libfuse does not pass on, and the
  use of the mount point's name by a SIGTERM after main has freed it.
- The idle timeout inside `FrontEnd`: its SIGINT is one of those that come at any
  time.
- `SQFS_BROKEN_DIR_OFFSETS`: what such a host passes as the offset is not in the
  repository.
- Corrupt images: positions in the image are taken to be those a writer would
  produce; unreadable and undecompressable blocks are modelled everywhere.

## 8. Plan

Done: the caches with their proofs, file reading, directories, traversal, the
idle timeout, the inode strategies, attributes, mounting and the front ends, and
the proofs of section 5.
Next, in this order:

1. The three inode strategies as implementations of one abstract map.
2. `squashfuse_extract` over the traversal, with the option of a path.
