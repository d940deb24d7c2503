------------------------------ MODULE Traverse ------------------------------
(***************************************************************************)
(* The recursive traversal of a directory tree: traverse.c, with the stack *)
(* of stack.c that holds one level per directory it is in.  squashfuse_ls  *)
(* and squashfuse_extract are clients of it.                               *)
(*                                                                         *)
(* Besides the stack, the traversal keeps the path of the current item in  *)
(* one growing buffer that names and separators are appended to and cut    *)
(* off from again, by their lengths.  The path is modelled as a sequence   *)
(* with one element for each byte: a name of k bytes is k copies of its    *)
(* node.                                                                   *)
(*                                                                         *)
(* There is one client, which calls open, next, prune and close.  A step   *)
(* of sqfs_traverse_next is one iteration of its loop.  Any allocation and *)
(* any read of the image may fail.                                         *)
(***************************************************************************)
EXTENDS Integers, Sequences, SequencesExt

CONSTANTS
    Nodes,          \* the files and directories of an image
    Root,           \* the directory that is traversed
    Trees,          \* the trees to consider
    PathCapacity,   \* TRAVERSE_DEFAULT_PATH_CAP
    StackCapacity,  \* CAPACITY_DEFAULT
    NoNode

(* A tree: kids[d] lists directory d in order, dirs are its directories,   *)
(* and len[n] is the length of the name of n.                              *)
IsTree(tree) ==
    /\ tree.dirs \subseteq Nodes /\ Root \in tree.dirs
    /\ tree.kids \in [tree.dirs -> Seq(Nodes \ {Root})]
    /\ tree.len \in [Nodes -> Nat \ {0}]

ASSUME TraverseAssumption ==
    /\ Root \in Nodes /\ NoNode \notin Nodes
    /\ PathCapacity \in Nat \ {0} /\ StackCapacity \in Nat \ {0}
    /\ \A tree \in Trees : IsTree(tree)

(* An image is a tree: an entry is listed once, in one directory, and no   *)
(* directory is below itself, so that in every set of directories there is *)
(* one without an entry in the set.                                        *)
IsRooted(tree) ==
    /\ \A d, e \in tree.dirs :
          \A i \in 1 .. Len(tree.kids[d]), j \in 1 .. Len(tree.kids[e]) :
              tree.kids[d][i] = tree.kids[e][j] => d = e /\ i = j
    /\ \A S \in SUBSET tree.dirs \ {{}} :
          \E d \in S : \A i \in 1 .. Len(tree.kids[d]) : tree.kids[d][i] \notin S

ASSUME RootedAssumption == \A tree \in Trees : IsRooted(tree)

VARIABLES
    tree,       \* the image, which does not change
    call,       \* what the client is doing: "closed", "item" (it was given
                \*   an item, or has just opened), "next" (in a call),
                \*   "over" (told there are no more), "failed", "crashed"
    state,      \* trv->state
    dir_end,    \* trv->dir_end
    entry,      \* trv->entry: its inode
    path,       \* trv->path up to its terminator
    path_cap,   \* trv->path_cap; 0 when path is NULL
    last,       \* trv->path_last_size
    stack,      \* the levels: node, entries taken from it, name_size
    stack_cap,  \* stack.capacity
    sized,      \* stack.size has been given a value
    visited,    \* history: the items the client was given
    pruned      \* history: the directories it pruned

vars == <<tree, call, state, dir_end, entry, path, path_cap, last, stack, stack_cap,
          sized, visited, pruned>>

\* The sizes a name can have; the root has none.
Sizes  == {0} \cup {tree.len[n] : n \in Nodes}
Levels == [node : Nodes, at : Nat, name_size : Sizes]
Items  == [node : Nodes, leave : BOOLEAN]
Sep    == "/"

TypeOK ==
    /\ IsTree(tree)
    /\ call \in {"closed", "item", "next", "over", "failed", "crashed"}
    /\ state \in {"DESCEND", "NAME_REMOVE", "ERROR", "FINISHED", "ASCEND",
                  "NAME_ADD", "GET_ENTRY"}
    /\ dir_end \in BOOLEAN
    /\ entry \in Nodes \cup {NoNode}
    /\ path \in Seq(Nodes \cup {Sep})
    /\ path_cap \in Nat /\ last \in Sizes /\ stack_cap \in Nat
    /\ stack \in Seq(Levels)
    /\ sized \in BOOLEAN
    /\ visited \in Seq(Items)
    /\ pruned \subseteq Nodes

Init ==
    /\ tree \in Trees
    /\ call = "closed"
    /\ state = "ERROR"
    /\ dir_end = FALSE
    /\ entry = NoNode
    /\ path = <<>> /\ path_cap = 0 /\ last = 0
    /\ stack = <<>> /\ stack_cap = 0 /\ sized = FALSE
    /\ visited = <<>> /\ pruned = {}

-----------------------------------------------------------------------------
(***************************************************************************)
(* stack.c and the path buffer                                             *)
(***************************************************************************)
\* sqfs_stack_next_capacity.
NextCapacity(cap) ==
    IF cap = 0 THEN StackCapacity
    ELSE IF (cap * 3) \div 2 <= cap THEN cap + 1 ELSE (cap * 3) \div 2

Top == stack[Len(stack)]

\* (A faulty variant of GrownStack: the stack grows too late.)
GrownStackLate == IF Len(stack) > stack_cap THEN NextCapacity(stack_cap) ELSE stack_cap

\* sqfs_stack_grow: the capacity once another level is on the stack.
GrownStack == IF Len(stack) = stack_cap THEN NextCapacity(stack_cap) ELSE stack_cap

\* sqfs_stack_push of a new level, which sqfs_dir_open then fills.
Push(node, size) ==
    /\ stack' = Append(stack, [node |-> node, at |-> 0, name_size |-> size])
    /\ stack_cap' = GrownStack

\* The capacities that sqfs_traverse_path_add tries, doubling up to n times.
Doublings(cap, n) ==
    LET doubled[k \in 0 .. n] == IF k = 0 THEN cap ELSE 2 * doubled[k - 1] IN doubled

\* The first that has room for a path with n bytes and a terminator.
GrownPath(n) ==
    LET doubled == Doublings(path_cap, n)
        enough  == {k \in 0 .. n : doubled[k] >= n + 1}
    IN doubled[CHOOSE k \in enough : \A j \in enough : k <= j]

\* sqfs_traverse_path_add.
PathAdd(bytes) ==
    /\ path' = path \o bytes
    /\ path_cap' = GrownPath(Len(path) + Len(bytes))

\* sqfs_traverse_path_remove: what is left of the path.
PathCut(size) ==
    IF Len(path) + 1 > size THEN SubSeq(path, 1, Len(path) - size) ELSE <<>>

Name(n) == [i \in 1 .. tree.len[n] |-> n]

-----------------------------------------------------------------------------
\* sqfs_traverse_close: the stack is popped empty and freed, and the path.
CloseEffect ==
    /\ stack' = <<>> /\ stack_cap' = 0
    /\ path' = <<>> /\ path_cap' = 0
    /\ state' = "ERROR"

(* sqfs_traverse_open: the root's level is pushed, without a name and a    *)
(* separator.                                                              *)
Open ==
    /\ call = "closed"
    /\ path' = <<>> /\ path_cap' = PathCapacity
    /\ sized' = TRUE
    /\ Push(Root, 0)
    /\ last' = 0
    /\ state' = "NAME_REMOVE"
    /\ call' = "item"
    /\ visited' = <<>> /\ pruned' = {}
    /\ UNCHANGED <<tree, dir_end, entry>>

(* No memory for the path: sqfs_traverse_close, while nothing has set the  *)
(* stack's size yet.  In a fresh struct the size is arbitrary, and unless  *)
(* it is 0 sqfs_stack_destroy pops items that do not exist.                *)
OpenNoPath ==
    /\ call = "closed"
    /\ CloseEffect
    /\ call' \in IF sized THEN {"closed"} ELSE {"closed", "crashed"}
    /\ UNCHANGED <<tree, dir_end, entry, last, sized, visited, pruned>>

\* No memory for the stack, or not a directory: sqfs_traverse_close.
OpenFail ==
    /\ call = "closed"
    /\ sized' = TRUE
    /\ CloseEffect
    /\ UNCHANGED <<tree, call, dir_end, entry, last, visited, pruned>>

\* sqfs_traverse_close at any point during or after a traversal.
Close ==
    /\ call \in {"item", "over", "failed"}
    /\ CloseEffect
    /\ call' = "closed"
    /\ UNCHANGED <<tree, dir_end, entry, last, sized, visited, pruned>>

\* (A faulty variant of Prune: it has no effect.)
PruneIgnored ==
    /\ call = "item"
    /\ state = "DESCEND"
    /\ pruned' = pruned \cup {entry}
    /\ UNCHANGED <<tree, call, state, dir_end, entry, path, path_cap, last, stack,
                   stack_cap, sized, visited>>

\* sqfs_traverse_prune: do not recurse into the directory just returned.
Prune ==
    /\ call = "item"
    /\ state = "DESCEND"
    /\ state' = "NAME_REMOVE"
    /\ pruned' = pruned \cup {entry}
    /\ UNCHANGED <<tree, call, dir_end, entry, path, path_cap, last, stack, stack_cap,
                   sized, visited>>

\* The client calls sqfs_traverse_next, also when it had its last item.
CallNext ==
    /\ call \in {"item", "over", "failed"}
    /\ call' = "next"
    /\ UNCHANGED <<tree, state, dir_end, entry, path, path_cap, last, stack, stack_cap,
                   sized, visited, pruned>>

-----------------------------------------------------------------------------
(***************************************************************************)
(* The loop of sqfs_traverse_next, by trv->state.                          *)
(***************************************************************************)
In(s) == call = "next" /\ state = s

\* TRAVERSE_GET_ENTRY: sqfs_dir_next of the innermost level.
GetEntry ==
    LET kids == tree.kids[Top.node]
    IN /\ In("GET_ENTRY")
       /\ stack # <<>>
       /\ IF Top.at < Len(kids)
          THEN /\ stack' = [stack EXCEPT ![Len(stack)].at = @ + 1]
               /\ entry' = kids[Top.at + 1]
               /\ state' = "NAME_ADD"
          ELSE state' = "ASCEND" /\ UNCHANGED <<stack, entry>>
       /\ UNCHANGED <<tree, call, dir_end, path, path_cap, last, stack_cap, sized,
                      visited, pruned>>

\* (A faulty variant of NameAdd: path_last_size is not updated.)
NameAddStaleSize ==
    /\ In("NAME_ADD")
    /\ PathAdd(Name(entry))
    /\ state' = IF entry \in tree.dirs THEN "DESCEND" ELSE "NAME_REMOVE"
    /\ dir_end' = FALSE
    /\ call' = "item"
    /\ visited' = Append(visited, [node |-> entry, leave |-> FALSE])
    /\ UNCHANGED <<tree, entry, last, stack, stack_cap, sized, pruned>>

\* TRAVERSE_NAME_ADD: the entry is given to the client.
NameAdd ==
    /\ In("NAME_ADD")
    /\ last' = tree.len[entry]
    /\ PathAdd(Name(entry))
    /\ state' = IF entry \in tree.dirs THEN "DESCEND" ELSE "NAME_REMOVE"
    /\ dir_end' = FALSE
    /\ call' = "item"
    /\ visited' = Append(visited, [node |-> entry, leave |-> FALSE])
    /\ UNCHANGED <<tree, entry, stack, stack_cap, sized, pruned>>

\* TRAVERSE_NAME_REMOVE.
NameRemove ==
    /\ In("NAME_REMOVE")
    /\ path' = PathCut(last)
    /\ state' = "GET_ENTRY"
    /\ UNCHANGED <<tree, call, dir_end, entry, path_cap, last, stack, stack_cap, sized, visited, pruned>>

\* TRAVERSE_DESCEND: a level and a separator for the directory.
Descend ==
    /\ In("DESCEND")
    /\ Push(entry, tree.len[entry])
    /\ PathAdd(<<Sep>>)
    /\ state' = "GET_ENTRY"
    /\ UNCHANGED <<tree, call, dir_end, entry, last, sized, visited, pruned>>

\* The directory whose level is popped.
Left == Top.node

\* (A faulty variant of Ascend: the directory is entered again.)
AscendAgain ==
    /\ In("ASCEND")
    /\ state' = "GET_ENTRY"
    /\ stack' = [stack EXCEPT ![Len(stack)].at = 0]
    /\ UNCHANGED <<tree, call, dir_end, entry, path, path_cap, last, stack_cap, sized,
                   visited, pruned>>

(* TRAVERSE_ASCEND: the separator and the level go; the client is told     *)
(* that the directory is finished, unless it is the root.                  *)
Ascend ==
    /\ In("ASCEND")
    /\ path' = PathCut(1)
    /\ last' = Top.name_size
    /\ stack' = SubSeq(stack, 1, Len(stack) - 1)
    /\ IF Len(stack) > 1
       THEN /\ dir_end' = TRUE
            /\ state' = "NAME_REMOVE"
            /\ call' = "item"
            /\ visited' = Append(visited, [node |-> Left, leave |-> TRUE])
       ELSE state' = "FINISHED" /\ UNCHANGED <<dir_end, call, visited>>
    /\ UNCHANGED <<tree, entry, path_cap, stack_cap, sized, pruned>>

\* TRAVERSE_FINISHED: no more items.
Finished ==
    /\ In("FINISHED")
    /\ call' = "over"
    /\ UNCHANGED <<tree, state, dir_end, entry, path, path_cap, last, stack, stack_cap,
                   sized, visited, pruned>>

(* An error of the directory, of the inode or of an allocation ends the    *)
(* traversal.  How far the failing iteration got is seen in the stack: a   *)
(* descent may have pushed its level, and a failed name has set            *)
(* path_last_size.                                                         *)
Fail ==
    /\ In("GET_ENTRY") \/ In("NAME_ADD") \/ In("DESCEND") \/ In("ERROR")
    /\ \/ UNCHANGED <<stack, stack_cap, last>>
       \/ /\ state = "DESCEND"
          /\ Push(entry, tree.len[entry])
          /\ UNCHANGED last
       \/ /\ state = "NAME_ADD"
          /\ last' = tree.len[entry]
          /\ UNCHANGED <<stack, stack_cap>>
    /\ state' = "ERROR"
    /\ call' = "failed"
    /\ UNCHANGED <<tree, dir_end, entry, path, path_cap, sized, visited, pruned>>

Crashed == call = "crashed" /\ UNCHANGED vars

-----------------------------------------------------------------------------
Step ==
    \/ GetEntry \/ NameAdd \/ NameRemove \/ Descend \/ Ascend \/ Finished \/ Fail

Next ==
    \/ Open \/ OpenNoPath \/ OpenFail \/ Close \/ Prune \/ CallNext
    \/ Step
    \/ Crashed

Spec == Init /\ [][Next]_vars

\* A call that was made is carried on with; the client may stop calling.
FairSpec == Spec /\ WF_vars(Step)

-----------------------------------------------------------------------------
(***************************************************************************)
(* Properties                                                              *)
(***************************************************************************)
\* The path of the directories on the stack, each with its separator.
DirPath[k \in 0 .. Len(stack)] ==
    IF k <= 1 THEN <<>> ELSE DirPath[k - 1] \o Name(stack[k].node) \o <<Sep>>

\* The item the client was given last.
Given == visited[Len(visited)]

(* Whenever the client has an item, trv->path is the item's path from the  *)
(* root: all names cut off and put back by their lengths, however deep the *)
(* traversal has been and whatever was pruned.                             *)
PathCorrect ==
    call = "item" /\ visited # <<>> => path = DirPath[Len(stack)] \o Name(Given.node)

(* The path with its terminator fits the buffer, and the levels fit the    *)
(* stack, through every growth; the types are as declared.                 *)
BuffersFit ==
    /\ TypeOK
    /\ path_cap > 0 => Len(path) + 1 <= path_cap
    /\ Len(stack) <= stack_cap

\* What there is to give: the first i entries of a directory d.
Places == UNION {{d} \X (0 .. Len(tree.kids[d])) : d \in tree.dirs}

(* The items of a place, each directory before what is in it, and once     *)
(* more after it.                                                          *)
Walk[p \in Places] ==
    LET n == tree.kids[p[1]][p[2]]
    IN  IF p[2] = 0 THEN <<>>
        ELSE Walk[<<p[1], p[2] - 1>>] \o <<[node |-> n, leave |-> FALSE]>>
               \o IF n \in tree.dirs \ pruned
                  THEN Walk[<<n, Len(tree.kids[n])>>] \o <<[node |-> n, leave |-> TRUE]>>
                  ELSE <<>>

WholeWalk == Walk[<<Root, Len(tree.kids[Root])>>]

(* traverse.h: every sub-item of the directory is traversed in order, once *)
(* on the way in and directories once on the way out, except what is below *)
(* a pruned directory; the client is told that there are no more items     *)
(* only after the last.                                                    *)
InOrder ==
    /\ IsPrefix(visited, WholeWalk)
    /\ call = "over" => visited = WholeWalk

\* A call of sqfs_traverse_next returns.
NextReturns == call = "next" ~> call # "next"
=============================================================================
