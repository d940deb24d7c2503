----------------------------- MODULE Attributes -----------------------------
(***************************************************************************)
(* What is asked of one inode: its attributes, the target of a symbolic    *)
(* link, its extended attributes.  The handlers of ll.c and hl.c, over     *)
(* sqfs_inode_get, sqfs_readlink and sqfs_export_inode of fs.c, stat.c,    *)
(* table.c, xattr.c and sqfs_listxattr of fuseprivate.c; and a program     *)
(* that uses the iterator of xattr.h directly, in any order.               *)
(*                                                                         *)
(* A metadata stream is a sequence of cells, each a number, and a cursor   *)
(* is the number of cells before it: that sqfs_md_read goes from one       *)
(* MD-block to the next is modelled in FileRead.  Reading cells may fail   *)
(* anywhere.  A table is cut into MD-blocks here, since sqfs_table_get     *)
(* does its own arithmetic.  A field of a structure is one cell, whatever  *)
(* its width; mode and mtime, which base_inode also has, are left out.     *)
(***************************************************************************)
EXTENDS Integers, Sequences, SequencesExt, FiniteSets, InodeNumbers

CONSTANTS
    Images,         \* the images to consider, see IsImage
    Sizes,          \* sizes of the buffers requests come with
    Wanted,         \* names, with their prefix, that are asked for
    MetaSize,       \* SQUASHFS_METADATA_SIZE: what an MD-block of a table holds
    MinorLow,       \* 2^8: the minor numbers in the low byte of a rdev
    MajorLimit,     \* 2^12
    MinorHigh       \* 2^12: what the upper part of a minor number can be

(* Inode types 1 to 14 of squashfs_fs.h; two of them may share a struct.   *)
Kind == <<"dir", "reg", "symlink", "dev", "dev", "ipc", "ipc",
          "ldir", "lreg", "symlink", "ldev", "ldev", "lipc", "lipc">>
IsDir(type)  == type \in {1, 8}
IsReg(type)  == type \in {2, 9}
IsLink(type) == type \in {3, 10}
IsDev(type)  == type \in {4, 5, 11, 12}
LSYMLINK     == 10
LDIR         == 8
Long(type)   == type >= 8

\* Behind its structure: the target, the block list, or the directory index.
HasTail(type) == IsLink(type) \/ IsReg(type) \/ type = LDIR

\* The fields that say where the data of a file or directory are.
DataFields == {"start_block", "fragment", "offset", "i_count", "parent_inode"}

NoXattr == 90       \* SQUASHFS_INVALID_XATTR
OOL     == 16       \* SQUASHFS_XATTR_VALUE_OOL, the flag in an entry's type
Junk    == 99       \* what is in memory that does not belong to a stream

\* sizeof of an id, of an inode id in the export table, of a squashfs_xattr_id.
IdSize == 1
ExportSize == 2
XattrIdSize == 4

(* What an inode and an extended attribute are before they are stored.  An *)
(* attribute may share the value of an earlier one, whose number it has.   *)
Inodes == [type : DOMAIN Kind, num : Nat, uid : Nat, guid : Nat, xattr : Nat, nlink : Nat,
           size : Nat, data : [DataFields -> Nat], tail : Seq(Nat), major : 0 .. MajorLimit - 1,
           minor : 0 .. MinorLow * MinorHigh - 1]
Attrs  == [prefix : 0 .. OOL - 1, name : Seq(Nat), value : Seq(Nat), shared : Nat]

(* An image: inodes in the order they are stored, the root one of them;    *)
(* the table of ids; the attributes in the order they are stored; the sets *)
(* of attributes that inodes refer to; the mount options uid and gid.      *)
IsImage(img) ==
    /\ img.inodes \in Seq(Inodes) /\ img.ids \in Seq(Nat) /\ img.attrs \in Seq(Attrs)
    /\ img.sets \in Seq([first : Nat \ {0}, count : Nat \ {0}])
    /\ img.asUid \in Nat /\ img.asGid \in Nat
    /\ \A i \in DOMAIN img.inodes :
         LET n == img.inodes[i]
         IN /\ {n.uid, n.guid} \subseteq 0 .. Len(img.ids) - 1
            /\ n.xattr # NoXattr => Long(n.type) /\ n.xattr < Len(img.sets)
            /\ n.num \in 1 .. Len(img.inodes) /\ Len(n.tail) > 0
    /\ img.root \in DOMAIN img.inodes /\ IsDir(img.inodes[img.root].type)
    /\ \A i, j \in DOMAIN img.inodes : i # j => img.inodes[i].num # img.inodes[j].num
    /\ \A j \in DOMAIN img.attrs :
         LET s == img.attrs[j].shared IN s # 0 => s < j /\ img.attrs[s].shared = 0
    /\ \A k \in DOMAIN img.sets : img.sets[k].first + img.sets[k].count - 1 \in DOMAIN img.attrs

ASSUME AttributesAssumption ==
    /\ {MinorLow, MajorLimit, MinorHigh} \subseteq Nat \ {0}
    /\ MetaSize \in Nat \ {0} /\ MetaSize % XattrIdSize = 0
    /\ \A img \in Images : IsImage(img) /\ Len(img.inodes) < Limit
    /\ Sizes \subseteq Nat /\ Wanted \subseteq Seq(Nat)

VARIABLES
    image,      \* the mounted image, which never changes
    pc,         \* the step of the handler
    req,        \* the request: operation, inode, how it is named, size, name
    inode,      \* the sqfs_inode
    x,          \* the sqfs_xattr
    count,      \* count of sqfs_listxattr
    out,        \* the buffer of the reply, or what the iterator delivered
    reply       \* <<kind, value>>, or <<>>

vars == <<image, pc, req, inode, x, count, out, reply>>

-----------------------------------------------------------------------------
(***************************************************************************)
(* The image as it is stored.                                              *)
(***************************************************************************)
Cell(s, at) == IF at + 1 \in DOMAIN s THEN s[at + 1] ELSE Junk
Cells(s, at, n) == [i \in 1 .. n |-> Cell(s, at + i - 1)]

\* Where each of a sequence of things of these lengths ends.
Ends(lens) ==
    LET end[i \in 0 .. Len(lens)] == IF i = 0 THEN 0 ELSE end[i - 1] + lens[i]
    IN end

BaseInode == <<"inode_type", "uid", "guid", "inode_number">>

\* The structures of squashfs_fs.h, field by field.
Struct ==
    [dir     |-> BaseInode \o <<"start_block", "nlink", "file_size", "offset", "parent_inode">>,
     reg     |-> BaseInode \o <<"start_block", "fragment", "offset", "file_size">>,
     symlink |-> BaseInode \o <<"nlink", "symlink_size">>,
     dev     |-> BaseInode \o <<"nlink", "rdev">>,
     ipc     |-> BaseInode \o <<"nlink">>,
     ldir    |-> BaseInode \o <<"nlink", "file_size", "start_block", "parent_inode", "i_count",
                                "offset", "xattr">>,
     lreg    |-> BaseInode \o <<"start_block", "file_size", "sparse", "nlink", "fragment",
                                "offset", "xattr">>,
     ldev    |-> BaseInode \o <<"nlink", "rdev", "xattr">>,
     lipc    |-> BaseInode \o <<"nlink", "xattr">>]

\* new_encode_dev of Linux, which is what mksquashfs stores.
EncodeDev(major, minor) ==
    (minor % MinorLow) + major * MinorLow
        + (minor \div MinorLow) * MinorLow * MajorLimit

Field(n, f) ==
    CASE f = "inode_type" -> n.type [] f = "uid" -> n.uid [] f = "guid" -> n.guid
      [] f = "inode_number" -> n.num [] f = "nlink" -> n.nlink
      [] f = "symlink_size" -> Len(n.tail) [] f = "file_size" -> n.size
      [] f = "rdev" -> EncodeDev(n.major, n.minor) [] f = "xattr" -> n.xattr
      [] f \in DataFields -> n.data[f] [] OTHER -> Junk

StoredInode(n) ==
    LET fields == Struct[Kind[n.type]]
    IN [i \in DOMAIN fields |-> Field(n, fields[i])]
         \o (IF HasTail(n.type) THEN n.tail ELSE <<>>)
         \o (IF n.type = LSYMLINK THEN <<n.xattr>> ELSE <<>>)

StoredInodes(img) == [i \in DOMAIN img.inodes |-> StoredInode(img.inodes[i])]
InodeTable(img)   == FlattenSeq(StoredInodes(img))
InodeId(img, i)   ==
    Ends([k \in DOMAIN img.inodes |-> Len(StoredInode(img.inodes[k]))])[i - 1]

\* An attribute: entry, name, size of the value, value or where it is.
ValueOf(img, j) ==
    LET s == img.attrs[j].shared IN IF s = 0 THEN img.attrs[j].value ELSE img.attrs[s].value

AttrLen(a)      == 2 + Len(a.name) + 1 + (IF a.shared = 0 THEN Len(a.value) ELSE 1)
AttrPos(img, j) == Ends([k \in DOMAIN img.attrs |-> AttrLen(img.attrs[k])])[j - 1]
SizePos(img, j) == AttrPos(img, j) + 2 + Len(img.attrs[j].name)

StoredAttr(img, a) ==
    <<a.prefix + (IF a.shared = 0 THEN 0 ELSE OOL), Len(a.name)>> \o a.name
        \o (IF a.shared = 0 THEN <<Len(a.value)>> \o a.value ELSE <<1, SizePos(img, a.shared)>>)
XattrTable(img) == FlattenSeq([j \in DOMAIN img.attrs |-> StoredAttr(img, img.attrs[j])])

-----------------------------------------------------------------------------
(***************************************************************************)
(* table.c, fs.c, stat.c                                                   *)
(***************************************************************************)
DivCeil(total, group) == (total \div group) + (IF total % group = 0 THEN 0 ELSE 1)

\* How many pointers to MD-blocks sqfs_table_init allocates and reads.
TableBlocks(each, entries) == DivCeil(each * Len(entries), MetaSize)

\* sqfs_table_get of an entry of size each; behind the pointers is junk.
TableGet(each, entries, idx) ==
    LET pos == idx * each
        bnum == pos \div MetaSize
        off == pos % MetaSize
    IN IF bnum < TableBlocks(each, entries)
       THEN Cell(entries, bnum * (MetaSize \div each) + (off \div each)) ELSE Junk

\* The export table as it is stored: for each inode number from 1 on, the
\* inode's id.
ExportTable(img) ==
    [n \in DOMAIN img.inodes |->
        InodeId(img, CHOOSE i \in DOMAIN img.inodes : img.inodes[i].num = n)]

\* sqfs_export_inode, which ino32exp only uses when sqfs_export_ok.
export_inode(img, n) == TableGet(ExportSize, ExportTable(img), n - 1)

\* sqfs_ll_ino32exp_sqfs, when the table can be read.
ino32exp_sqfs(img, i) ==
    IF i = FUSE_ROOT_ID THEN InodeId(img, img.root)
    ELSE export_inode(img, fuse2num(img.inodes[img.root].num, i))

(* The fuse_ino_t that the kernel has of an inode, and the inode id the    *)
(* handler finds for it; the high-level front end has the id from          *)
(* sqfs_lookup_path.                                                       *)
FuseIno(img, how, i) ==
    CASE how = "ino64" -> ino64_fuse(InodeId(img, img.root), InodeId(img, i))
      [] how = "ino32exp" -> num2fuse(img.inodes[img.root].num, img.inodes[i].num)
      [] how = "path" -> InodeId(img, i)

SqfsId(img, how, ino) ==
    CASE how = "ino64" -> ino64_sqfs(InodeId(img, img.root), ino)
      [] how = "ino32exp" -> ino32exp_sqfs(img, ino)
      [] how = "path" -> ino

\* sqfs_decode_dev
DecodeDev(rdev) ==
    <<(rdev \div MinorLow) % MajorLimit,
      (rdev % MinorLow) + ((rdev \div (MajorLimit * MinorLow)) % MinorHigh) * MinorLow>>

\* (A faulty variant of LinkXattr: the target is not skipped.)
LinkXattrUnskipped(table, next, size) == Cell(table, next)

\* The xattr of a long symbolic link comes behind its target.
LinkXattr(table, next, size) == Cell(table, next + size)

(* sqfs_inode_get, when the reads succeed.  next is where the list of      *)
(* block sizes, the directory index or the target of a link starts.  What  *)
(* a structure does not have stays 0: so the i_count of a short directory. *)
SqfsInode(img, id) ==
    LET table  == InodeTable(img)
        type   == Cell(table, id)
        fields == Struct[Kind[type]]
        Has(f) == f \in Range(fields)
        Get(f) == Cell(table, id + (CHOOSE i \in DOMAIN fields : fields[i] = f) - 1)
        next   == id + Len(fields)
        size   == IF IsLink(type) THEN Get("symlink_size")
                  ELSE IF Has("file_size") THEN Get("file_size") ELSE 0
    IN [type |-> type, uid |-> Get("uid"), guid |-> Get("guid"), num |-> Get("inode_number"),
        next |-> next, size |-> size,
        data |-> [f \in DataFields |-> IF Has(f) THEN Get(f) ELSE 0],
        nlink |-> IF Has("nlink") THEN Get("nlink") ELSE 1,
        dev |-> IF Has("rdev") THEN DecodeDev(Get("rdev")) ELSE <<0, 0>>,
        xattr |-> IF Has("xattr") THEN Get("xattr")
                  ELSE IF type = LSYMLINK THEN LinkXattr(table, next, size) ELSE NoXattr]

NoInode == [type |-> 0, uid |-> 0, guid |-> 0, num |-> 0, next |-> 0, size |-> 0,
            data |-> [f \in DataFields |-> 0], nlink |-> 0, dev |-> <<0, 0>>,
            xattr |-> NoXattr]

\* sqfs_stat: what it fills in.
Stat(img, n) ==
    [nlink |-> n.nlink,
     size  |-> IF IsReg(n.type) \/ IsLink(n.type) THEN n.size ELSE 0,
     rdev  |-> IF IsDev(n.type) THEN n.dev ELSE <<0, 0>>,
     uid   |-> IF img.asUid > 0 THEN img.asUid ELSE TableGet(IdSize, img.ids, n.uid),
     gid   |-> IF img.asGid > 0 THEN img.asGid ELSE TableGet(IdSize, img.ids, n.guid)]

\* sqfs_readlink with a buffer: how many characters it takes.
ReadlinkTake(n, size) == IF n.size > size - 1 THEN size - 1 ELSE n.size

-----------------------------------------------------------------------------
(***************************************************************************)
(* xattr.c, as operators on the iterator.  cursors is the set of those     *)
(* positions that are known: of the value's size, of the value, and of the *)
(* next attribute.                                                         *)
(***************************************************************************)
PrefixOf(type) == [i \in 1 .. type + 1 |-> 60 + type]      \* "user." and so on
PREFIX_MAX     == 2

NoIterator == [remain |-> 0, cursors |-> {}, c_name |-> 0, c_vsize |-> 0, c_val |-> 0,
               c_next |-> 0, type |-> 0, ool |-> FALSE, size |-> 0, vsize |-> 0]

\* sqfs_xattr_open, when the inode has attributes and the table is read.
XattrOpen(img, n) ==
    LET set == TableGet(XattrIdSize, img.sets, n.xattr)
    IN [NoIterator EXCEPT !.remain = set.count, !.c_next = AttrPos(img, set.first),
                          !.cursors = {"NEXT"}]

\* sqfs_xattr_name: the value's size is behind the name.
XattrName(y) == [y EXCEPT !.c_vsize = y.c_name + y.size, !.cursors = @ \cup {"VSIZE"}]
Named(y)     == IF "VSIZE" \in y.cursors THEN y ELSE XattrName(y)

\* The position that stands for a value kept elsewhere; next is behind it.
XattrFollow(y) == [y EXCEPT !.c_next = y.c_vsize + 2, !.cursors = @ \cup {"NEXT"}]

\* sqfs_xattr_value_size
XattrValueSize(img, y) ==
    LET t == XattrTable(img)
        n == Named(y)
        p == Cell(t, n.c_vsize + 1)
    IN IF y.ool
       THEN [XattrFollow(n) EXCEPT !.c_val = p + 1, !.vsize = Cell(t, p),
                                   !.cursors = @ \cup {"VAL"}]
       ELSE [n EXCEPT !.c_val = n.c_vsize + 1, !.vsize = Cell(t, n.c_vsize),
                      !.cursors = @ \cup {"VAL"}]
Sized(img, y) == IF "VAL" \in y.cursors THEN y ELSE XattrValueSize(img, y)

\* (A faulty variant of XattrValue: next is set for values kept elsewhere.)
XattrValueMoves(img, y) ==
    LET s == Sized(img, y)
    IN [s EXCEPT !.c_next = s.c_val + s.vsize, !.cursors = @ \cup {"NEXT"}]

\* sqfs_xattr_value: behind a value stored in place is the next attribute.
XattrValue(img, y) ==
    LET s == Sized(img, y)
    IN IF s.ool THEN s
       ELSE [s EXCEPT !.c_next = s.c_val + s.vsize, !.cursors = @ \cup {"NEXT"}]

\* sqfs_xattr_read first skips what is left of the current attribute.
Forced(y)       == [y EXCEPT !.ool = FALSE]
Skipped(img, y) == IF "NEXT" \in y.cursors THEN y ELSE XattrValue(img, Forced(y))

EntryType(img, y) == Cell(XattrTable(img), Skipped(img, y).c_next) % OOL

\* sqfs_xattr_read, for an entry with a prefix that is known.
XattrRead(img, y) ==
    LET s == Skipped(img, y)
        t == XattrTable(img)
    IN [s EXCEPT !.remain = @ - 1, !.cursors = {}, !.c_name = s.c_next + 2,
                 !.type = EntryType(img, y), !.ool = Cell(t, s.c_next) >= OOL,
                 !.size = Cell(t, s.c_next + 1)]

NameOf(img, y)  == PrefixOf(y.type) \o Cells(XattrTable(img), y.c_name, y.size)
ValueAt(img, y) == Cells(XattrTable(img), y.c_val, y.vsize)

\* sqfs_xattr_find_prefix
KnownPrefixes(name) == {p \in 0 .. PREFIX_MAX : IsPrefix(PrefixOf(p), name)}

\* (A faulty variant of Matches: the name's length is not compared.)
MatchesLonger(img, y, name) == y.type \in KnownPrefixes(name) /\ IsPrefix(name, NameOf(img, y))

\* The tests of sqfs_xattr_find.
Matches(img, y, name) ==
    /\ y.type \in KnownPrefixes(name)
    /\ y.size = Len(name) - Len(PrefixOf(y.type))
    /\ NameOf(img, y) = name

-----------------------------------------------------------------------------
(***************************************************************************)
(* The handlers.                                                           *)
(***************************************************************************)
NoRequest == [op |-> "none", of |-> 1, how |-> "path", size |-> 0, name |-> <<>>]

Init ==
    /\ image \in Images
    /\ pc = "idle" /\ req = NoRequest /\ inode = NoInode /\ x = NoIterator
    /\ count = 0 /\ out = <<>> /\ reply = <<>>

Requests ==
    LET Of(ops, sizes, names) == [op : ops, of : DOMAIN image.inodes,
            how : {"ino64", "ino32exp", "path"}, size : sizes, name : names]
    IN Of({"getattr", "client"}, {0}, {<<>>}) \cup Of({"readlink"}, Sizes \ {0}, {<<>>})
         \cup Of({"listxattr"}, Sizes, {<<>>}) \cup Of({"getxattr"}, Sizes, Wanted)

Answer(kind, value) == pc' = "done" /\ reply' = <<kind, value>>
Fails(errno)        == Answer("err", errno)

Request ==
    /\ pc = "idle"
    /\ req' \in Requests
    /\ pc' = "inode"
    /\ UNCHANGED <<image, inode, x, count, out, reply>>

\* sqfs_ll_iget or sqfs_hl_lookup finds the inode.
InodeGet ==
    /\ pc = "inode"
    /\ inode' = SqfsInode(image, SqfsId(image, req.how, FuseIno(image, req.how, req.of)))
    /\ pc' = req.op
    /\ UNCHANGED <<image, req, x, count, out, reply>>

(* The inode cannot be read.  SQFS_INODE_NONE, for an export table that    *)
(* cannot be read, leads to the same: there is no inode type at offset 1.  *)
InodeFail ==
    /\ pc = "inode"
    /\ Fails("ENOENT")
    /\ UNCHANGED <<image, req, inode, x, count, out>>

GetattrOk ==
    /\ pc = "getattr"
    /\ Answer("attr", Stat(image, inode))
    /\ UNCHANGED <<image, req, inode, x, count, out>>

\* The id table cannot be read.
GetattrFail ==
    /\ pc = "getattr"
    /\ image.asUid = 0 \/ image.asGid = 0
    /\ Fails("ENOENT")
    /\ UNCHANGED <<image, req, inode, x, count, out>>

\* ll.c asks for the size it needs, hl.c has the buffer it was given.
Readlink ==
    LET size == IF req.how = "path" THEN req.size ELSE inode.size + 1
    IN /\ pc = "readlink"
       /\ IF IsLink(inode.type)
          THEN Answer("buf", Cells(InodeTable(image), inode.next, ReadlinkTake(inode, size)))
          ELSE Fails("EINVAL")
       /\ UNCHANGED <<image, req, inode, x, count, out>>

ReadlinkFail ==
    /\ pc = "readlink"
    /\ IsLink(inode.type)
    /\ Fails("EIO") \/ (req.how # "path" /\ Fails("ENOMEM"))
    /\ UNCHANGED <<image, req, inode, x, count, out>>

\* sqfs_xattr_open; without attributes there is nothing left to iterate.
HasXattr == Len(image.sets) # 0 /\ inode.xattr # NoXattr

Open ==
    /\ pc \in {"listxattr", "getxattr", "client"}
    /\ x' = IF HasXattr THEN XattrOpen(image, inode) ELSE NoIterator
    /\ pc' = CASE pc = "listxattr" -> "list" [] pc = "getxattr" -> "find" [] OTHER -> "use"
    /\ UNCHANGED <<image, req, inode, count, out, reply>>

(* The table of xattr ids cannot be read, or malloc fails.  sqfs_listxattr *)
(* alone gives its errno with a minus sign, which ll.c passes on.          *)
OpenFail ==
    /\ \/ pc = "listxattr" /\ HasXattr /\ req.how # "path" /\ Fails("-EIO")
       \/ pc = "getxattr" /\ HasXattr /\ Fails("EIO")
       \/ pc = "listxattr" /\ req.how # "path" /\ req.size > 0 /\ Fails("ENOMEM")
       \/ pc = "getxattr" /\ req.how # "path" /\ Fails("ENOMEM")
    /\ UNCHANGED <<image, req, inode, x, count, out>>

(* hl.c negates the errno once more and returns EIO, a positive number:    *)
(* a list of that length, in a buffer that nothing was written to.         *)
EIO == 5

OpenFailNegated ==
    /\ pc = "listxattr" /\ HasXattr /\ req.how = "path"
    /\ reply' = IF req.size = 0 THEN <<"size", EIO>> ELSE <<"buf", [i \in 1 .. EIO |-> Junk]>>
    /\ pc' = "negated"
    /\ UNCHANGED <<image, req, inode, x, count, out>>

Readable == x.remain > 0 /\ EntryType(image, x) <= PREFIX_MAX

\* One attribute of sqfs_listxattr, which only counts if it has no buffer.
ListNext ==
    LET y    == XattrRead(image, x)
        name == NameOf(image, y)
        n    == count + Len(name) + 1
    IN /\ pc = "list" /\ Readable
       /\ count' = n
       /\ IF req.size = 0 THEN x' = y /\ UNCHANGED <<pc, out, reply>>
          ELSE IF n > req.size THEN x' = y /\ UNCHANGED out /\ Fails("ERANGE")
          ELSE x' = XattrName(y) /\ out' = out \o name \o <<0>> /\ UNCHANGED <<pc, reply>>
       /\ UNCHANGED <<image, req, inode>>

ListEnd ==
    /\ pc = "list" /\ x.remain = 0
    /\ IF req.size = 0 THEN Answer("size", count) ELSE Answer("buf", out)
    /\ UNCHANGED <<image, req, inode, x, count, out>>

(* A read of sqfs_xattr_read or sqfs_xattr_name fails, the prefix is       *)
(* unknown, or sqfs_xattr_find cannot allocate its buffer.                 *)
IterateFail ==
    /\ \/ pc = "list" /\ x.remain > 0
       \/ pc = "find" /\ KnownPrefixes(req.name) # {}
    /\ Fails("EIO")
    /\ UNCHANGED <<image, req, inode, x, count, out>>

\* One attribute of sqfs_xattr_find.
FindNext ==
    LET y == XattrRead(image, x)
    IN /\ pc = "find" /\ Readable /\ KnownPrefixes(req.name) # {}
       /\ IF y.type \in KnownPrefixes(req.name) /\ y.size = Len(req.name) - Len(PrefixOf(y.type))
          THEN x' = XattrName(y) ELSE x' = y
       /\ pc' = IF Matches(image, y, req.name) THEN "found" ELSE "find"
       /\ UNCHANGED <<image, req, inode, count, out, reply>>

\* What the getxattr handlers answer; 0 bytes stand for "not found".
GetxattrAnswer(real, value) ==
    IF real = 0 THEN Fails("ENOATTR")
    ELSE IF req.size = 0 THEN Answer("size", real)
    ELSE IF req.size < real THEN Fails("ERANGE")
    ELSE Answer("buf", value)

\* It is not there, or can have no known prefix: *size = 0.
FindEnd ==
    /\ pc = "find" /\ (x.remain = 0 \/ KnownPrefixes(req.name) = {})
    /\ GetxattrAnswer(0, <<>>)
    /\ UNCHANGED <<image, req, inode, x, count, out>>

\* The rest of sqfs_xattr_lookup, for an attribute that was found.
FoundReply ==
    LET y    == XattrValueSize(image, x)
        real == y.vsize
    IN /\ pc = "found"
       /\ x' = IF req.size >= real THEN XattrValue(image, y) ELSE y
       /\ GetxattrAnswer(real, ValueAt(image, y))
       /\ UNCHANGED <<image, req, inode, count, out>>

FoundFail ==
    /\ pc = "found"
    /\ Fails("EIO")
    /\ UNCHANGED <<image, req, inode, x, count, out>>

Done ==
    /\ pc \in {"done", "negated", "use", "have"}
    /\ pc' = "idle" /\ req' = NoRequest /\ inode' = NoInode /\ x' = NoIterator
    /\ count' = 0 /\ out' = <<>> /\ reply' = <<>>
    /\ UNCHANGED image

-----------------------------------------------------------------------------
(* A program that iterates by itself: "use" is before its first call of    *)
(* sqfs_xattr_read.  It gives up when a call fails (Done), as the code     *)
(* above does.                                                             *)
ClientRead ==
    /\ pc \in {"use", "have"} /\ Readable
    /\ x' = XattrRead(image, x)
    /\ pc' = "have" /\ out' = <<>>
    /\ UNCHANGED <<image, req, inode, count, reply>>

ClientName ==
    /\ pc = "have"
    /\ x' = XattrName(x)
    /\ out' = <<"name", NameOf(image, x)>>
    /\ UNCHANGED <<image, pc, req, inode, count, reply>>

ClientSize ==
    /\ pc = "have"
    /\ x' = XattrValueSize(image, x)
    /\ out' = <<"size", XattrValueSize(image, x).vsize>>
    /\ UNCHANGED <<image, pc, req, inode, count, reply>>

ClientValue ==
    /\ pc = "have"
    /\ x' = XattrValue(image, x)
    /\ out' = <<"value", ValueAt(image, Sized(image, x))>>
    /\ UNCHANGED <<image, pc, req, inode, count, reply>>

Next ==
    \/ Request \/ InodeGet \/ InodeFail \/ GetattrOk \/ GetattrFail \/ Readlink \/ ReadlinkFail
    \/ Open \/ OpenFail \/ OpenFailNegated \/ ListNext \/ ListEnd \/ IterateFail \/ FindNext \/ FindEnd
    \/ FoundReply \/ FoundFail \/ Done
    \/ ClientRead \/ ClientName \/ ClientSize \/ ClientValue

Spec == Init /\ [][Next]_vars

-----------------------------------------------------------------------------
(***************************************************************************)
(* Correctness.  What is right is said by the image as mksquashfs was      *)
(* given it, never by its streams of cells.                                *)
(***************************************************************************)
Asked == image.inodes[req.of]

\* The attributes of the inode asked about, as indices into image.attrs.
FirstAttr == image.sets[Asked.xattr + 1].first
AttrsOf   == IF Asked.xattr = NoXattr \/ image.sets = <<>> THEN {}
             ELSE FirstAttr .. FirstAttr + image.sets[Asked.xattr + 1].count - 1
Current   == FirstAttr + Cardinality(AttrsOf) - x.remain - 1

FullName(j) == PrefixOf(image.attrs[j].prefix) \o image.attrs[j].name
AllNames    == FlattenSeq([k \in 1 .. Cardinality(AttrsOf) |->
                              FullName(FirstAttr + k - 1) \o <<0>>])

\* What of data an inode of a type has.
DataOf(type) ==
    CASE IsReg(type) -> {"start_block", "fragment", "offset"}
      [] IsDir(type) -> {"start_block", "offset", "parent_inode"}
                          \cup (IF type = LDIR THEN {"i_count"} ELSE {})
      [] OTHER -> {}

(* sqfs_inode_get (fs.c) fills in the fields of the inode that the kernel  *)
(* or the path names, whichever of the three ways it is named and          *)
(* whichever of the nine structures it is stored in; the xattr index of a  *)
(* link is found behind its target; a short directory has no index; next   *)
(* is where the target, the block list or the directory index starts.      *)
InodeTrue ==
    inode # NoInode =>
        /\ <<inode.type, inode.uid, inode.guid, inode.num, inode.xattr>>
             = <<Asked.type, Asked.uid, Asked.guid, Asked.num, Asked.xattr>>
        /\ inode.nlink = IF Asked.type = 2 THEN 1 ELSE Asked.nlink
        /\ IsReg(inode.type) \/ IsDir(inode.type) => inode.size = Asked.size
        /\ \A f \in DataOf(inode.type) : inode.data[f] = Asked.data[f]
        /\ inode.type = 1 => inode.data["i_count"] = 0
        /\ IsLink(inode.type) => inode.size = Len(Asked.tail)
        /\ HasTail(inode.type) =>
             Cells(InodeTable(image), inode.next, Len(Asked.tail)) = Asked.tail
        /\ IsDev(inode.type) => inode.dev = <<Asked.major, Asked.minor>>

(* Whatever a user of the iterator of xattr.c has called or left out       *)
(* before, a position that x->cursors says is known is the right one: the  *)
(* current attribute's value size, its value (its own or a shared one), or *)
(* the start of the attribute behind it.                                   *)
CursorsTrue ==
    /\ x.remain <= Cardinality(AttrsOf)
    /\ pc \in {"list", "find", "found", "have"} /\ x.remain < Cardinality(AttrsOf) =>
        /\ "VSIZE" \in x.cursors => x.c_vsize = SizePos(image, Current)
        /\ "VAL" \in x.cursors => ValueAt(image, x) = ValueOf(image, Current)
        /\ "NEXT" \in x.cursors => x.c_next = AttrPos(image, Current) + AttrLen(image.attrs[Current])

Err(errno) == reply[1] = "err" /\ reply[2] = errno

ListRight ==
    /\ reply[1] = "size" => req.size = 0 /\ reply[2] = Len(AllNames)
    /\ reply[1] = "buf" => Len(AllNames) <= req.size /\ reply[2] = AllNames
    /\ Err("ERANGE") => 0 < req.size /\ req.size < Len(AllNames)

(* When sqfs_xattr_open fails, which it only does for an inode that has    *)
(* attributes, hl.c answers with EIO bytes instead of an error ("Return an *)
(* errno value", fuseprivate.h:37).                                        *)
ListNegated ==
    /\ req.how = "path" /\ AttrsOf # {}
    /\ reply = IF req.size = 0 THEN <<"size", EIO>> ELSE <<"buf", [i \in 1 .. EIO |-> Junk]>>

\* An attribute with an empty value is reported as absent, and one with an
\* unknown prefix has no name.
GetRight ==
    LET found == {j \in AttrsOf : image.attrs[j].prefix <= PREFIX_MAX /\ FullName(j) = req.name}
        value == IF found = {} THEN <<>> ELSE ValueOf(image, Min(found))
    IN /\ reply[1] = "size" => req.size = 0 /\ value # <<>> /\ reply[2] = Len(value)
       /\ reply[1] = "buf" => value # <<>> /\ Len(value) <= req.size /\ reply[2] = value
       /\ Err("ERANGE") => 0 < req.size /\ req.size < Len(value)
       /\ Err("ENOATTR") => value = <<>>

AttrRight ==
    reply[1] = "attr" =>
        reply[2] =
          [nlink |-> IF Asked.type = 2 THEN 1 ELSE Asked.nlink,
           size  |-> IF IsReg(Asked.type) THEN Asked.size
                     ELSE IF IsLink(Asked.type) THEN Len(Asked.tail) ELSE 0,
           rdev  |-> IF IsDev(Asked.type) THEN <<Asked.major, Asked.minor>> ELSE <<0, 0>>,
           uid   |-> IF image.asUid > 0 THEN image.asUid ELSE image.ids[Asked.uid + 1],
           gid   |-> IF image.asGid > 0 THEN image.asGid ELSE image.ids[Asked.guid + 1]]

\* ll.c has room for the whole target; hl.c cuts it to the caller's buffer.
LinkRight ==
    /\ reply[1] = "buf" => IsLink(Asked.type) /\ reply[2] =
         IF req.how = "path" /\ Len(Asked.tail) >= req.size
         THEN SubSeq(Asked.tail, 1, req.size - 1) ELSE Asked.tail
    /\ Err("EINVAL") => ~ IsLink(Asked.type)

(* What the handlers of ll.c and hl.c answer is what the image says of the *)
(* inode asked about: its attributes, with the owner from the id table     *)
(* unless the mount options name one; its target; the list of its          *)
(* attributes' names, or the list's length, or that the buffer is too      *)
(* small for it, only when it is; an attribute's value likewise.  And what *)
(* a program gets from the iterator is of the attribute it is at.  The one *)
(* wrong answer is ListNegated.                                            *)
ReplyCorrect ==
    /\ reply # <<>> =>
         CASE req.op = "getattr" -> AttrRight
           [] req.op = "readlink" -> LinkRight
           [] req.op = "listxattr" -> IF pc = "negated" THEN ListNegated ELSE ListRight
           [] req.op = "getxattr" -> GetRight
           [] OTHER -> Err("ENOENT")
    /\ req.op = "client" /\ out # <<>> =>
         out[2] = CASE out[1] = "name" -> FullName(Current)
                    [] out[1] = "size" -> Len(ValueOf(image, Current))
                    [] out[1] = "value" -> ValueOf(image, Current)
=============================================================================
