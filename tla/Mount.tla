------------------------------- MODULE Mount -------------------------------
(***************************************************************************)
(* Opening an image: sqfs_open_image_with_subdir, sqfs_init_with_subdir    *)
(* and sqfs_destroy with the tables and caches they make, the walk along a *)
(* path (sqfs_lookup_path_with_id), and what squashfuse_ll and squashfuse  *)
(* make around it (sqfs_ll_open, sqfs_hl_open).                            *)
(*                                                                         *)
(* One process, no concurrency: what is hard is that every allocation and  *)
(* every read may fail, and that sqfs_init goes on after a failure and     *)
(* looks at err only at the end.  live is what is allocated or open.       *)
(***************************************************************************)
EXTENDS Integers, Sequences, SequencesExt, FiniteSets

CONSTANTS
    Children,       \* for each directory, the inodes of its names
    Root,           \* the root directory in the super block
    Subdirs,        \* values of the option subdir: sequences of names and "/"
    Nowhere,        \* no inode, or an inode id that leads to none
    MaxFailed       \* how many parts fail to be made in one sqfs_init

Dirs   == DOMAIN Children
Inodes == Dirs \cup UNION {Range(Children[d]) : d \in Dirs}

ASSUME MountAssumption ==
    /\ Root \in Dirs /\ Nowhere \notin Inodes /\ MaxFailed \in Nat
    /\ \A d \in Dirs : "/" \notin DOMAIN Children[d]
    /\ Subdirs \subseteq Seq(STRING)

VARIABLES
    opts,   \* the program, its inode numbers, the options subdir and notify
    pipe,   \* opts.notify_pipe, once it is parsed
    pc,     \* the step of main
    err,    \* err of main, and of sqfs_init_with_subdir while it runs
    live,   \* what is allocated or open
    root,   \* fs->sb.root_inode
    walk    \* the walk along subdir

mountVars == <<opts, pipe, live, root, walk>>

-----------------------------------------------------------------------------
(* A walk along a path.  id is what *id was set to, if it was.             *)
Walk(from, path) == [path |-> path, at |-> from, id |-> Nowhere, status |-> "walking"]

SkipSlashes(path) ==
    LET names == {i \in DOMAIN path : path[i] # "/"}
    IN IF names = {} THEN <<>> ELSE SubSeq(path, Min(names), Len(path))

\* (A faulty variant: *id is only set for the first name.)
EnterFirst(w, rest, child) ==
    [w EXCEPT !.path = Tail(rest), !.at = child, !.id = IF @ = Nowhere THEN child ELSE @]

\* The entry of a name is found and its inode read.
Enter(w, rest, child) == [w EXCEPT !.path = Tail(rest), !.at = child, !.id = child]

\* One component of sqfs_lookup_path_with_id: what the walk may become.
WalkSteps(w) ==
    LET rest == SkipSlashes(w.path)
        To(s) == [w EXCEPT !.status = s]
    IN IF rest = <<>> THEN {To("found")}
       ELSE {To("failed")} \cup
            (IF w.at \notin Dirs THEN {}
             ELSE IF Head(rest) \notin DOMAIN Children[w.at] THEN {To("missing")}
             ELSE {Enter(w, rest, Children[w.at][Head(rest)])})

-----------------------------------------------------------------------------
\* The tables and caches of a struct sqfs.
Exported == opts.ino # "ino32"
Parts    == {"id", "frag", "xattr", "md_cache", "data_cache", "frag_cache", "blockidx"}
              \cup (IF Exported THEN {"export"} ELSE {})

\* sqfs_destroy, which leaves the xattr table alone.
Destroyed(things) == things \ (Parts \ {"xattr"})

Init ==
    /\ opts \in [front : {"ll", "hl"}, ino : {"ino64", "ino32exp", "ino32"},
                 subdir : Subdirs, notify : {"none", "fifo", "bad"}]
    /\ opts.front = "hl" => opts.ino = "ino64"
    /\ pipe = "none" /\ pc = "args" /\ err = FALSE /\ live = {} /\ root = Root
    /\ walk = Walk(Nowhere, <<>>)

Goto(step) == pc' = step

\* fuse_opt_parse and fuse_parse_cmdline, with sqfs_opt_proc.
ArgsOk ==
    /\ pc = "args" /\ Goto("open")
    /\ pipe' = opts.notify
    /\ UNCHANGED <<opts, live, root, walk, err>>

\* They are parsed in order: the wrong one may come before notify_pipe.
ArgsFail ==
    /\ pc = "args" /\ Goto("out") /\ err' = TRUE
    /\ pipe' \in {"none", opts.notify}
    /\ UNCHANGED <<opts, live, root, walk>>

\* The struct of the front end, then the image file.
OpenOk ==
    /\ pc = "open" /\ Goto("super")
    /\ live' = {"front", "fd"}
    /\ UNCHANGED <<opts, pipe, err, root, walk>>

OpenFail ==
    /\ pc = "open" /\ Goto("failed")
    /\ UNCHANGED <<mountVars, err>>

\* Not an image, a version or a compression that is not supported.
SuperFail ==
    /\ pc = "super" /\ Goto("failed")
    /\ live' = {}
    /\ UNCHANGED <<opts, pipe, err, root, walk>>

\* The parts are made one after the other, whatever became of those before.
MakeParts ==
    /\ pc = "super"
    /\ \E failed \in SUBSET Parts :
         /\ Cardinality(failed) <= MaxFailed
         /\ live' = live \cup (Parts \ failed)
         /\ err' = (failed # {})
    /\ Goto(IF opts.subdir = <<>> THEN "settle" ELSE "subdir")
    /\ UNCHANGED <<opts, pipe, root, walk>>

\* The root's inode is read, or cannot be; without md_cache this crashes.
SubdirStart ==
    /\ pc = "subdir" /\ "md_cache" \in live
    /\ \E from \in {Root, Nowhere} :
         /\ walk' = Walk(from, opts.subdir)
         /\ err' = (err \/ from = Nowhere)
    /\ Goto("walk")
    /\ UNCHANGED <<opts, pipe, live, root>>

SubdirCrash ==
    /\ pc = "subdir" /\ "md_cache" \notin live /\ Goto("crashed")
    /\ UNCHANGED <<mountVars, err>>

SubdirStep ==
    /\ pc = "walk" /\ walk.status = "walking"
    /\ walk' \in WalkSteps(walk)
    /\ UNCHANGED <<opts, pipe, pc, err, live, root>>

(* A path without a name in it is found with new_root never set: the root  *)
(* is then what happens to be in memory.                                   *)
SubdirFound ==
    /\ pc = "walk" /\ walk.status = "found" /\ Goto("settle")
    /\ root' \in (IF walk.id = Nowhere THEN Inodes \cup {Nowhere} ELSE {walk.id})
    /\ UNCHANGED <<opts, pipe, err, live, walk>>

\* sqfs_destroy, then the file is closed and the struct freed.
SubdirMissing ==
    /\ pc = "walk" /\ walk.status \in {"missing", "failed"} /\ Goto("failed")
    /\ live' = Destroyed(live) \ {"fd", "front"}
    /\ UNCHANGED <<opts, pipe, err, root, walk>>

\* (A faulty variant: err is what the last part returned.)
SettleAnyway ==
    /\ pc = "settle" /\ Goto("numbers")
    /\ err' = FALSE
    /\ UNCHANGED mountVars

\* The end of sqfs_init_with_subdir.
Settle ==
    /\ pc = "settle"
    /\ Goto(IF err THEN "failed" ELSE "numbers")
    /\ live' = IF err THEN Destroyed(live) \ {"fd", "front"} ELSE live
    /\ err' = FALSE
    /\ UNCHANGED <<opts, pipe, root, walk>>

(* sqfs_ll_init picks how inodes are numbered and, with 32 bits, reads the *)
(* root's inode and allocates a map; sqfs_hl_open reads the root's inode.  *)
ReadsRoot == opts.front = "hl" \/ opts.ino # "ino64"

\* sqfs_ll_ino32_init does not look whether sqfs_hash_init got its buckets.
Maps ==
    CASE opts.ino = "ino64"    -> {{}}
      [] opts.ino = "ino32exp" -> {{"map"}}
      [] opts.ino = "ino32"    -> {{"map", "buckets"}, {"map"}}

Numbers ==
    /\ pc = "numbers" /\ Goto("mount")
    /\ ReadsRoot => root # Nowhere
    /\ \E map \in Maps : live' = live \cup map
    /\ err' = TRUE       \* err = -1, until the session's loop returns
    /\ UNCHANGED <<opts, pipe, root, walk>>

\* Only the struct and the parts are given back: the file stays open.
NumbersFail ==
    /\ pc = "numbers" /\ ReadsRoot /\ Goto("failed")
    /\ live' = Destroyed(live) \ {"front"}
    /\ UNCHANGED <<opts, pipe, err, root, walk>>

\* The result of malloc is used unchecked.
NumbersCrash ==
    /\ pc = "numbers" /\ opts.ino # "ino64" /\ Goto("crashed")
    /\ UNCHANGED <<mountVars, err>>

\* err = !ll
Failed ==
    /\ pc = "failed" /\ Goto("out") /\ err' = TRUE
    /\ UNCHANGED mountVars

MountStep ==
    \/ ArgsOk \/ ArgsFail \/ OpenOk \/ OpenFail \/ SuperFail \/ MakeParts
    \/ SubdirStart \/ SubdirCrash \/ SubdirStep \/ SubdirFound \/ SubdirMissing
    \/ Settle \/ Numbers \/ NumbersFail \/ NumbersCrash \/ Failed

-----------------------------------------------------------------------------
\* Where a part of a path leads from an inode.
Leads(at, part) ==
    IF part = "/" THEN at
    ELSE IF at \in Dirs /\ part \in DOMAIN Children[at] THEN Children[at][part]
    ELSE Nowhere

\* Where the first parts of a path lead, and the whole of it.
Trail(from, path) ==
    LET at[i \in 0 .. Len(path)] == IF i = 0 THEN from ELSE Leads(at[i - 1], path[i]) IN at

Resolve(from, path) == Trail(from, path)[Len(path)]

(* "mount subdirectory PATH as filesystem root" (squashfuse.1): an image   *)
(* that was opened shows the directory that the option subdir leads to.    *)
RootIsSubdir ==
    pc \in {"numbers", "mount", "loop"} => root = Resolve(Root, opts.subdir)
=============================================================================
