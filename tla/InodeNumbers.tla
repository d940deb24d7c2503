---------------------------- MODULE InodeNumbers ----------------------------
(***************************************************************************)
(* The conversions of ll_inode.c between squashfs inode identifiers and    *)
(* the fuse_ino_t the kernel is given.  0 means "no such file" to the      *)
(* kernel and 1 is its name for the root directory.                        *)
(***************************************************************************)
EXTENDS Integers

CONSTANT Limit      \* 2^32: how many values an sqfs_inode_num has

ASSUME LimitAssumption == Limit \in Nat /\ Limit > 2

FUSE_INODE_NONE == 0
FUSE_ROOT_ID    == 1

Nums == 0 .. Limit - 1

\* uint32_t arithmetic, for sums and differences of one step.
Wrap(x) == IF x >= Limit THEN x - Limit ELSE IF x < 0 THEN x + Limit ELSE x

-----------------------------------------------------------------------------
(* 32-bit fuse_ino_t: the inode number, moved up by one.                   *)

num2fuse(root, n) ==
    IF n = root THEN FUSE_ROOT_ID
    ELSE IF n = 0 THEN Wrap(root + 1)
    ELSE Wrap(n + 1)

fuse2num(root, i) ==
    IF i = FUSE_ROOT_ID THEN root
    ELSE IF i = Wrap(root + 1) THEN 0
    ELSE Wrap(i - 1)

(* 64-bit fuse_ino_t: the on-disk position of the inode itself.            *)
ino64_fuse(root, id) ==
    IF id = root THEN FUSE_ROOT_ID ELSE IF id = 0 THEN 2 ELSE id

ino64_sqfs(root, i) ==
    IF i = FUSE_ROOT_ID THEN root ELSE IF i = 2 THEN 0 ELSE i
=============================================================================
