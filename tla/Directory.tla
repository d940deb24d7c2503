----------------------------- MODULE Directory -----------------------------
(***************************************************************************)
(* Directories: dir.c, with the readdir handlers of ll.c and hl.c and the  *)
(* lookup that sqfs_ll_op_lookup and sqfs_lookup_path do.                  *)
(*                                                                         *)
(* The listing of a directory is a stretch of the metadata stream: runs of *)
(* entries, each run behind a header that has their number.  A large       *)
(* directory has an index in its inode, with the position and the first    *)
(* name of some of the runs.  readdir is stateless: the kernel passes the  *)
(* position to go on from, which it got with an earlier entry, and the     *)
(* handler finds its way there through the index and by reading entries.   *)
(*                                                                         *)
(* A listing is abstracted to its names, which are sequences of bytes,     *)
(* sorted as mksquashfs sorts them; sizes and positions are kept.          *)
(***************************************************************************)
EXTENDS Integers, Sequences, FiniteSetsExt, Functions

CONSTANTS
    Names,          \* names to look up, sequences of numbers above 0
    Layouts,        \* the directories to consider
    HeaderSize,     \* sizeof(struct squashfs_dir_header)
    EntrySize,      \* sizeof(struct squashfs_dir_entry), without the name
    MetaSize,       \* SQUASHFS_METADATA_SIZE
    MaxRoom         \* the largest buffer readdir is called with

\* strncmp(x, y, n) of two names: negative, zero or positive.
ByteOf(x, i) == IF i <= Len(x) THEN x[i] ELSE 0
Strncmp(x, y, n) ==
    LET differ == {i \in 1 .. n : ByteOf(x, i) # ByteOf(y, i)}
    IN IF differ = {} THEN 0 ELSE ByteOf(x, Min(differ)) - ByteOf(y, Min(differ))

\* The order of names in a directory, which is that of their bytes.
Sorted(x, y) ==
    \E k \in 1 .. Len(y) :
        ByteOf(x, k) < y[k] /\ \A j \in 1 .. k - 1 : ByteOf(x, j) = y[j]

(* A layout: start is where in its MD-block the listing starts; names its  *)
(* names in order; heads the first names of its runs, which are behind a   *)
(* header; indexed those of the runs that the index has.                   *)
IsLayout(l) ==
    /\ l.start \in 0 .. MetaSize - 1
    /\ l.names \in Seq(Names)
    /\ \A i, j \in DOMAIN l.names : i < j => Sorted(l.names[i], l.names[j])
    /\ l.heads \subseteq DOMAIN l.names /\ (l.names # <<>> => 1 \in l.heads)
    /\ l.indexed \subseteq l.heads \ {1}

ASSUME DirAssumption ==
    /\ HeaderSize \in Nat \ {0} /\ EntrySize \in Nat \ {0}
    /\ MetaSize \in Nat \ {0} /\ MaxRoom \in Nat \ {0}
    /\ \A n \in Names : n \in Seq(Nat \ {0}) /\ n # <<>>
    /\ \A l \in Layouts : IsLayout(l)

VARIABLES
    layout,     \* the directory, which never changes
    pc,
    off,        \* the position readdir was asked to go on from
    size,       \* the room left in the buffer
    dirOffset,  \* dir_offset of the handler
    target,     \* the name a lookup looks for
    dir,        \* the sqfs_dir
    out,        \* what readdir has put into the buffer
    found,      \* *found of sqfs_dir_lookup
    failed      \* a read of the image failed

vars == <<layout, pc, off, size, dirOffset, target, dir, out, found, failed>>

-----------------------------------------------------------------------------
(***************************************************************************)
(* The listing as it is stored.                                            *)
(***************************************************************************)
\* What entry i takes, with the header in front of it; and where it ends,
\* from the start of the listing.
Extent(l, i) == (IF i \in l.heads THEN HeaderSize ELSE 0) + EntrySize + Len(l.names[i])
Ends(l) ==
    LET end[i \in 0 .. Len(l.names)] == IF i = 0 THEN 0 ELSE end[i - 1] + Extent(l, i)
    IN end
Total(l) == Ends(l)[Len(l.names)]

\* The first entry after i that is behind a header; and the length of a run.
NextHead(l, i)  == Min({j \in l.heads \cup {Len(l.names) + 1} : j > i})
RunLength(l, i) == NextHead(l, i) - i

\* What the metadata stream has at a cursor.
At(l, cur) == cur.block * MetaSize + cur.offset - l.start

HeadersAt(l, cur) == {i \in l.heads : Ends(l)[i - 1] = At(l, cur)}
EntriesAt(l, cur) ==
    {i \in DOMAIN l.names : Ends(l)[i] - Len(l.names[i]) - EntrySize = At(l, cur)}

\* The index entry of a run: its position, its MD-block, its first name.
IndexOf(l, i) ==
    [index |-> Ends(l)[i - 1], name |-> l.names[i],
     start_block |-> (l.start + Ends(l)[i - 1]) \div MetaSize]

-----------------------------------------------------------------------------
(***************************************************************************)
(* dir.c                                                                   *)
(***************************************************************************)
MdAdvance(cur, n) ==
    [block  |-> cur.block + (cur.offset + n) \div MetaSize,
     offset |-> (cur.offset + n) % MetaSize]

\* sqfs_dir_open, before it fast-forwards.  count is header.count.
DirOpen(l) ==
    [cur |-> [block |-> 0, offset |-> l.start], offset |-> 0, count |-> 0,
     total |-> Total(l), name |-> <<>>]

\* sqfs_dir_md_read: the cursor and the offset move together.
Advance(d, n) == [d EXCEPT !.cur = MdAdvance(@, n), !.offset = @ + n]

\* sqfs_dir_next has no more entries.
AtEnd(d) == d.count = 0 /\ d.offset >= d.total

\* The header that is read when a run is used up, its count unbiased.
WithHeader(l, d) ==
    IF d.count # 0 THEN d
    ELSE [Advance(d, HeaderSize) EXCEPT
             !.count = IF HeadersAt(l, d.cur) = {} THEN 1
                       ELSE RunLength(l, CHOOSE i \in HeadersAt(l, d.cur) : TRUE)]

(* sqfs_dir_next, when the reads succeed: one entry on.  Away from any     *)
(* entry it reads nonsense, which is given an empty name here.             *)
DirNext(l, d) ==
    LET h  == WithHeader(l, d)
        at == EntriesAt(l, h.cur)
        n  == IF at = {} THEN <<>> ELSE l.names[CHOOSE i \in at : TRUE]
    IN [Advance(h, EntrySize + Len(n)) EXCEPT !.count = @ - 1, !.name = n]

\* The index entries that sqfs_dir_ff_header goes over until one stops it.
Before(l, stops) == {i \in l.indexed : \A k \in stops : i < k}

\* (A faulty variant of FfHeader: the cursor's offset is not moved.)
FfHeaderSameOffset(l, d, stops) ==
    IF Before(l, stops) = {} THEN d
    ELSE LET idx == IndexOf(l, Max(Before(l, stops)))
         IN [d EXCEPT !.cur.block = idx.start_block, !.offset = idx.index]

(* sqfs_dir_ff_header: go to the last index entry before the first that    *)
(* the callback stops at.                                                  *)
FfHeader(l, d, stops) ==
    IF Before(l, stops) = {} THEN d
    ELSE LET idx == IndexOf(l, Max(Before(l, stops)))
         IN [d EXCEPT !.cur = [block  |-> idx.start_block,
                               offset |-> (d.cur.offset + idx.index) % MetaSize],
                      !.offset = idx.index]

\* (A faulty variant of OffsetStops: it stops a header and an entry late.)
OffsetStopsLate(l, to) ==
    {i \in l.indexed : IndexOf(l, i).index >= to + HeaderSize + EntrySize}

\* sqfs_dir_ff_offset_f stops at these index entries.
OffsetStops(l, to) == {i \in l.indexed : IndexOf(l, i).index >= to}

\* sqfs_dir_ff_name_f stops at these index entries.
NameStops(l, name) ==
    {i \in l.indexed :
        LET order == Strncmp(IndexOf(l, i).name, name, Len(name))
        IN order > 0 \/ (order = 0 /\ Len(IndexOf(l, i).name) > Len(name))}

-----------------------------------------------------------------------------
(***************************************************************************)
(* The cookies of readdir: 0 is before ".", 1 before "..", 2 before the    *)
(* first entry, and 2 + e after the entry that ends at e.                  *)
(***************************************************************************)
Dots == <<<<0>>, <<0, 0>>>>
All(l)     == [k \in 1 .. Len(l.names) + 2 |-> IF k <= 2 THEN Dots[k] ELSE l.names[k - 2]]
Cookies(l) == [k \in 0 .. Len(l.names) + 2 |-> IF k <= 2 THEN k ELSE Ends(l)[k - 2] + 2]

\* How many of All(l) are before a cookie.
Passed(l, cookie) == CHOOSE k \in DOMAIN Cookies(l) : Cookies(l)[k] = cookie

\* The room an entry takes: the long names take more.
DirentSize(name) == IF name \in Range(Dots) THEN 1 ELSE Len(name)

Dirs ==
    [cur : [block : Nat, offset : 0 .. MetaSize - 1], offset : Nat, count : Nat,
     total : Nat, name : Names \cup {<<>>}]

TypeOK ==
    /\ pc \in {"idle", "dots", "hldots", "open", "ff", "list", "scan", "reply", "inval", "eio", "answer", "lost"}
    /\ off \in Range(Cookies(layout))
    /\ size \in 0 .. MaxRoom
    /\ dirOffset \in Nat
    /\ target \in Names \cup {<<>>}
    /\ dir \in Dirs /\ dir.offset <= dir.total /\ dir.total = Total(layout)
    /\ out \in Seq([name : Names \cup Range(Dots), cookie : Nat])
    /\ found \in BOOLEAN /\ failed \in BOOLEAN

Init ==
    /\ layout \in Layouts
    /\ pc = "idle"
    /\ off = 0 /\ size = 0 /\ dirOffset = 0
    /\ target = <<>>
    /\ dir = DirOpen(layout)
    /\ out = <<>>
    /\ found = FALSE /\ failed = FALSE

-----------------------------------------------------------------------------
(***************************************************************************)
(* sqfs_ll_op_readdir and sqfs_hl_op_readdir                               *)
(***************************************************************************)
(* The kernel asks for entries from a cookie on it was given earlier, with *)
(* room for at least the shortest.                                         *)
Readdir ==
    /\ pc = "idle"
    /\ off' \in Range(Cookies(layout))
    /\ size' \in 1 .. MaxRoom
    /\ dirOffset' = off'
    /\ pc' \in {"dots", "hldots"}
    /\ UNCHANGED <<layout, target, dir, out, found, failed>>

\* An entry is put into the buffer, which has room for it.
Put(name, cookie) ==
    /\ out' = Append(out, [name |-> name, cookie |-> cookie])
    /\ size' = size - DirentSize(name)

(* "." and "..", if the cookie is before them.  One that does not fit ends *)
(* this loop, not the handler.                                             *)
AddDot ==
    LET name == Dots[dirOffset + 1]
    IN /\ pc = "dots"
       /\ dirOffset < 2
       /\ dirOffset' = dirOffset + 1
       /\ IF DirentSize(name) > size
          THEN pc' = "open" /\ UNCHANGED <<size, out>>
          ELSE Put(name, dirOffset + 1) /\ UNCHANGED pc
       /\ UNCHANGED <<layout, off, target, dir, found, failed>>

\* In hl.c it ends the handler: libfuse's filler says that it is full.
HlAddDot ==
    LET name == Dots[dirOffset + 1]
    IN /\ pc = "hldots"
       /\ dirOffset < 2
       /\ dirOffset' = dirOffset + 1
       /\ IF DirentSize(name) > size
          THEN pc' = "reply" /\ UNCHANGED <<size, out>>
          ELSE Put(name, dirOffset + 1) /\ UNCHANGED pc
       /\ UNCHANGED <<layout, off, target, dir, found, failed>>

(* sqfs_dir_open at dir_offset - 2: from the start, or behind the index    *)
(* entries that are before it.                                             *)
OpenDir ==
    LET to == dirOffset - 2
        d  == DirOpen(layout)
    IN /\ pc = "open" \/ (pc \in {"dots", "hldots"} /\ dirOffset >= 2)
       /\ dirOffset' = to
       /\ dir' = IF to = 0 THEN d ELSE FfHeader(layout, d, OffsetStops(layout, to))
       /\ pc' = IF to = 0 THEN "list" ELSE "ff"
       /\ UNCHANGED <<layout, off, size, target, out, found, failed>>

\* The loop of sqfs_dir_ff_offset, which reads entries up to the offset.
FfScan ==
    /\ pc = "ff"
    /\ dir.offset < dirOffset
    /\ ~AtEnd(dir)
    /\ dir' = DirNext(layout, dir)
    /\ UNCHANGED <<layout, pc, off, size, dirOffset, target, out, found, failed>>

\* It is an error if the offset is not between two entries.
FfDone ==
    /\ pc = "ff"
    /\ dir.offset >= dirOffset \/ AtEnd(dir)
    /\ pc' = IF dir.offset = dirOffset THEN "list" ELSE "inval"
    /\ UNCHANGED <<layout, off, size, dirOffset, target, dir, out, found, failed>>

\* An entry is added to the buffer, or does not fit and ends the reply; from
\* here on the two handlers do the same.
ListEntry ==
    LET d == DirNext(layout, dir)
    IN /\ pc = "list"
       /\ ~AtEnd(dir)
       /\ dir' = d
       /\ IF DirentSize(d.name) > size
          THEN pc' = "reply" /\ UNCHANGED <<size, out>>
          ELSE Put(d.name, d.offset + 2) /\ UNCHANGED pc
       /\ UNCHANGED <<layout, off, dirOffset, target, found, failed>>

ListEnd ==
    /\ pc = "list"
    /\ AtEnd(dir)
    /\ pc' = "reply"
    /\ UNCHANGED <<layout, off, size, dirOffset, target, dir, out, found, failed>>

\* A metadata block cannot be read: EINVAL while opening, EIO in the list.
ReadFails ==
    /\ \/ pc = "list" /\ ~AtEnd(dir) /\ pc' = "eio"
       \/ pc = "ff" /\ pc' = "inval"
       \/ pc = "scan" /\ pc' = "lost"
    /\ failed' = TRUE
    /\ UNCHANGED <<layout, off, size, dirOffset, target, dir, out, found>>

-----------------------------------------------------------------------------
(***************************************************************************)
(* sqfs_dir_lookup                                                         *)
(***************************************************************************)
Lookup ==
    /\ pc = "idle"
    /\ \E n \in Names :
         /\ target' = n
         /\ dir' = FfHeader(layout, DirOpen(layout), NameStops(layout, n))
    /\ pc' = "scan"
    /\ UNCHANGED <<layout, off, size, dirOffset, out, found, failed>>

\* (A faulty variant of LookupEntry: the lengths are not compared.)
LookupEntryPrefix ==
    LET d     == DirNext(layout, dir)
        order == Strncmp(d.name, target, Len(target))
    IN /\ pc = "scan"
       /\ ~AtEnd(dir)
       /\ dir' = d
       /\ found' = (order = 0)
       /\ pc' = IF order >= 0 THEN "answer" ELSE "scan"
       /\ UNCHANGED <<layout, off, size, dirOffset, target, out, failed>>

\* Entries are read up to the first that is not before the name.
LookupEntry ==
    LET d     == DirNext(layout, dir)
        order == Strncmp(d.name, target, Len(target))
    IN /\ pc = "scan"
       /\ ~AtEnd(dir)
       /\ dir' = d
       /\ found' = (order = 0 /\ Len(d.name) = Len(target))
       /\ pc' = IF order >= 0 THEN "answer" ELSE "scan"
       /\ UNCHANGED <<layout, off, size, dirOffset, target, out, failed>>

LookupEnd ==
    /\ pc = "scan"
    /\ AtEnd(dir)
    /\ pc' = "answer"
    /\ UNCHANGED <<layout, off, size, dirOffset, target, dir, out, found, failed>>

\* The handler has replied.
Done ==
    /\ pc \in {"reply", "inval", "eio", "answer", "lost"}
    /\ pc' = "idle"
    /\ off' = 0 /\ size' = 0 /\ dirOffset' = 0
    /\ target' = <<>>
    /\ dir' = DirOpen(layout)
    /\ out' = <<>>
    /\ found' = FALSE /\ failed' = FALSE
    /\ UNCHANGED layout

Next ==
    \/ Readdir \/ AddDot \/ HlAddDot \/ OpenDir \/ FfScan \/ FfDone \/ ListEntry \/ ListEnd
    \/ Lookup \/ LookupEntry \/ LookupEnd
    \/ ReadFails \/ Done

Spec == Init /\ [][Next]_vars

-----------------------------------------------------------------------------
(***************************************************************************)
(* Properties                                                              *)
(***************************************************************************)
(* A readdir from any cookie continues the listing right behind the entry  *)
(* the cookie came with, in order, with the cookies that continue it, and  *)
(* makes progress unless it is at the end or an entry needs more room than *)
(* there is: a client that keeps reading sees every entry exactly once.    *)
(* A cookie is never refused; readdir fails only if the image cannot be    *)
(* read.                                                                   *)
ReaddirResumes ==
    LET all  == All(layout)
        from == Passed(layout, off)
    IN /\ pc = "reply" =>
            /\ \A k \in 1 .. Len(out) :
                 /\ out[k].name = all[from + k]
                 /\ out[k].cookie = Cookies(layout)[from + k]
            /\ out = <<>> => from = Len(all) \/ DirentSize(all[from + 1]) > size
       /\ pc \in {"inval", "eio"} => failed

(* A lookup that succeeds has found the name if and only if the directory  *)
(* has it, whether the search began at the start or at an indexed run, and *)
(* when one name is a prefix of another.                                   *)
LookupCorrect ==
    pc = "answer" =>
        /\ found <=> target \in Range(layout.names)
        /\ found => dir.name = target

(* However it got there, the cursor of a directory is offset bytes from    *)
(* the start of its listing; the types are as declared.                    *)
CursorConsistent == TypeOK /\ At(layout, dir.cur) = dir.offset
=============================================================================
