--------------------------- MODULE TraverseProofs ---------------------------
(***************************************************************************)
(* Proofs about the traversal of a directory tree: the path and the stack  *)
(* fit their buffers, the path is that of the current item, and the items  *)
(* come in the order of the walk, for every tree, with names of any length *)
(* and directories nested to any depth.                                    *)
(***************************************************************************)
EXTENDS Traverse, SequenceTheorems, WellFoundedInduction, TLAPS

-----------------------------------------------------------------------------
(***************************************************************************)
(* Induction.                                                              *)
(***************************************************************************)
\* A set of natural numbers that is not empty has a least element.
LEMMA Least ==
    ASSUME NEW S \in SUBSET Nat, S # {}
    PROVE  \E n \in S : \A m \in S : n <= m
<1> DEFINE R == OpToRel(<, Nat)
<1>1. IsWellFoundedOn(R, Nat)
  BY NatLessThanWellFounded
<1>2. \A m, n \in Nat : <<m, n>> \in R <=> m < n
  BY DEF OpToRel
<1> HIDE DEF R
<1>3. PICK n \in S : \A m \in S : ~ (<<m, n>> \in R)
  BY <1>1, WFMin
<1>4. \A m \in S : m \in Nat /\ n \in Nat /\ ~ (m < n)
  BY <1>2, <1>3
<1>5. QED
  BY <1>4

\* Induction, for a set of numbers in the place of a predicate.
LEMMA Induct ==
    ASSUME NEW S, 0 \in S, \A n \in Nat : n \in S => n + 1 \in S
    PROVE  Nat \subseteq S
<1>1. SUFFICES ASSUME Nat \ S # {} PROVE FALSE
  OBVIOUS
<1>2. PICK n \in Nat \ S : \A m \in Nat \ S : n <= m
  BY <1>1, Least
<1>3. n # 0
  OBVIOUS
<1>4. n - 1 \in Nat /\ n - 1 \in S
  BY <1>2, <1>3
<1>5. (n - 1) + 1 = n
  OBVIOUS
<1>6. QED
  BY <1>2, <1>4, <1>5

-----------------------------------------------------------------------------
(***************************************************************************)
(* The buffers grow far enough.                                            *)
(***************************************************************************)
\* What it means that d doubles cap up to n times.
Doubles(d, cap, n) == d = [k \in 0 .. n |-> IF k = 0 THEN cap ELSE 2 * d[k - 1]]

LEMMA DoublingsUnfold ==
    ASSUME NEW cap, NEW n \in Nat
    PROVE  Doubles(Doublings(cap, n), cap, n)
<1> DEFINE S == {m \in Nat : \E d : Doubles(d, cap, m)}
<1>1. 0 \in S
  <2>1. Doubles([k \in 0 .. 0 |-> cap], cap, 0)
    BY DEF Doubles
  <2>2. QED
    BY <2>1
<1>2. ASSUME NEW m \in Nat, m \in S PROVE m + 1 \in S
  <2>1. PICK d : Doubles(d, cap, m)
    BY <1>2
  <2> DEFINE e == [k \in 0 .. m + 1 |-> IF k = 0 THEN cap ELSE 2 * d[k - 1]]
  <2>2. \A k \in 0 .. m : e[k] = d[k]
    BY <2>1 DEF Doubles
  <2>3. \A k \in 0 .. m + 1 : k # 0 => k - 1 \in 0 .. m
    OBVIOUS
  <2>4. \A k \in 0 .. m + 1 : k # 0 => d[k - 1] = e[k - 1]
    BY <2>2, <2>3
  <2>5. e = [k \in 0 .. m + 1 |-> IF k = 0 THEN cap ELSE 2 * e[k - 1]]
    BY <2>4, Zenon
  <2>6. \E f : Doubles(f, cap, m + 1)
    BY <2>5 DEF Doubles
  <2>7. QED
    BY <2>6
<1> HIDE DEF S
<1>3. n \in S
  BY <1>1, <1>2, Induct
<1>4. \E d : Doubles(d, cap, n)
  BY <1>3 DEF S
<1>5. Doublings(cap, n) = CHOOSE d : Doubles(d, cap, n)
  BY DEF Doublings, Doubles
<1>6. QED
  BY <1>4, <1>5

(* The doublings of sqfs_traverse_path_add stop, at a capacity that has    *)
(* room for what is to be added.                                           *)
LEMMA GrownPathFits ==
    ASSUME NEW n \in Nat, path_cap \in Nat \ {0}
    PROVE  GrownPath(n) \in Nat /\ GrownPath(n) >= n + 1
<1>0. PICK d : d = Doublings(path_cap, n)
  OBVIOUS
<1>1. d = [k \in 0 .. n |-> IF k = 0 THEN path_cap ELSE 2 * d[k - 1]]
  BY <1>0, DoublingsUnfold DEF Doubles
<1> DEFINE S == {k \in Nat : k <= n => d[k] \in Nat /\ d[k] >= k + 1}
<1>2. 0 \in S
  BY <1>1
<1>3. ASSUME NEW k \in Nat, k \in S PROVE k + 1 \in S
  <2>1. CASE k + 1 <= n
    <3>1. k \in 0 .. n /\ k + 1 \in 0 .. n /\ (k + 1) - 1 = k /\ k + 1 # 0
      BY <2>1
    <3>2. d[k + 1] = 2 * d[k]
      BY <1>1, <3>1
    <3>3. d[k] \in Nat /\ d[k] >= k + 1
      BY <1>3, <2>1
    <3>4. QED
      BY <3>2, <3>3
  <2>2. QED
    BY <2>1
<1> HIDE DEF S
<1>4. Nat \subseteq S
  BY <1>2, <1>3, Induct
<1>5. \A k \in 0 .. n : d[k] \in Nat /\ d[k] >= k + 1
  BY <1>4 DEF S
<1> DEFINE enough == {k \in 0 .. n : d[k] >= n + 1}
<1>6. n \in enough /\ enough \in SUBSET Nat
  BY <1>5
<1>7. \E k \in enough : \A j \in enough : k <= j
  BY <1>6, Least
<1> DEFINE k == CHOOSE i \in enough : \A j \in enough : i <= j
<1>8. k \in enough
  BY <1>7
<1>9. GrownPath(n) = d[k]
  BY <1>0 DEF GrownPath
<1> HIDE DEF k
<1>10. QED
  BY <1>5, <1>8, <1>9

(* sqfs_stack_next_capacity makes room for at least one more.              *)
LEMMA NextCapacityGrows ==
    ASSUME NEW cap \in Nat
    PROVE  NextCapacity(cap) \in Nat /\ NextCapacity(cap) > cap
  BY TraverseAssumption DEF NextCapacity

LEMMA GrownStackFits ==
    ASSUME stack_cap \in Nat, Len(stack) \in Nat, Len(stack) <= stack_cap
    PROVE  GrownStack \in Nat /\ GrownStack >= Len(stack) + 1
<1>1. NextCapacity(stack_cap) \in Nat /\ NextCapacity(stack_cap) > stack_cap
  BY NextCapacityGrows
<1>2. QED
  BY <1>1 DEF GrownStack

-----------------------------------------------------------------------------
(***************************************************************************)
(* The paths of the directories on a stack.                                *)
(***************************************************************************)
Named(len, n) == [i \in 1 .. len[n] |-> n]

\* What it means that p has the paths of the first n levels of a stack.
Paths(p, levels, n, len) ==
    p = [k \in 0 .. n |-> IF k <= 1 THEN <<>>
                          ELSE p[k - 1] \o Named(len, levels[k].node) \o <<Sep>>]

\* The path of the innermost directory of a stack.
DirOf(levels, len) == (CHOOSE p : Paths(p, levels, Len(levels), len))[Len(levels)]

\* There are such paths, so that what is chosen is one of them.
LEMMA PathsExist ==
    ASSUME NEW levels, NEW len, NEW n \in Nat
    PROVE  \E p : Paths(p, levels, n, len)
<1> DEFINE S == {m \in Nat : \E p : Paths(p, levels, m, len)}
<1>1. 0 \in S
  <2>1. Paths([k \in 0 .. 0 |-> <<>>], levels, 0, len)
    BY DEF Paths
  <2>2. QED
    BY <2>1
<1>2. ASSUME NEW m \in Nat, m \in S PROVE m + 1 \in S
  <2>1. PICK p : Paths(p, levels, m, len)
    BY <1>2
  <2> DEFINE q == [k \in 0 .. m + 1 |-> IF k <= 1 THEN <<>>
                          ELSE p[k - 1] \o Named(len, levels[k].node) \o <<Sep>>]
  <2>2. /\ \A k \in 0 .. m : k \in 0 .. m + 1
        /\ \A k \in 0 .. m + 1 : ~ (k <= 1) => k - 1 \in 0 .. m
    OBVIOUS
  <2>3. \A k \in 0 .. m : q[k] = p[k]
    BY <2>1, <2>2, Zenon DEF Paths
  <2>4. \A k \in 0 .. m + 1 : ~ (k <= 1) => p[k - 1] = q[k - 1]
    BY <2>2, <2>3
  <2>5. q = [k \in 0 .. m + 1 |-> IF k <= 1 THEN <<>>
                          ELSE q[k - 1] \o Named(len, levels[k].node) \o <<Sep>>]
    BY <2>4, Zenon
  <2>6. \E f : Paths(f, levels, m + 1, len)
    BY <2>5 DEF Paths
  <2>7. QED
    BY <2>6
<1> HIDE DEF S
<1>3. n \in S
  BY <1>1, <1>2, Induct
<1>4. QED
  BY <1>3 DEF S

\* Stacks with the same directories have the same paths.
LEMMA PathsAgree ==
    ASSUME NEW s, NEW t, NEW len, NEW p, NEW q, NEW a \in Nat, NEW b \in Nat, NEW n \in Nat,
           n <= a, n <= b, Paths(p, s, a, len), Paths(q, t, b, len),
           \A k \in 1 .. n : s[k].node = t[k].node
    PROVE  p[n] = q[n]
<1> DEFINE S == {k \in Nat : k <= n => p[k] = q[k]}
<1>1. 0 \in S
  BY DEF Paths
<1>2. ASSUME NEW k \in Nat, k \in S PROVE k + 1 \in S
  <2>1. SUFFICES ASSUME k + 1 <= n PROVE p[k + 1] = q[k + 1]
    OBVIOUS
  <2>2. /\ k + 1 \in 0 .. a /\ k + 1 \in 0 .. b /\ (k + 1) - 1 = k /\ k <= n
        /\ s[k + 1].node = t[k + 1].node
    BY <2>1
  <2>3. p[k] = q[k]
    BY <1>2, <2>2
  <2>4. p[k + 1] = IF k + 1 <= 1 THEN <<>> ELSE p[k] \o Named(len, s[k + 1].node) \o <<Sep>>
    BY <2>2, Zenon DEF Paths
  <2>5. q[k + 1] = IF k + 1 <= 1 THEN <<>> ELSE q[k] \o Named(len, t[k + 1].node) \o <<Sep>>
    BY <2>2, Zenon DEF Paths
  <2>6. QED
    BY <2>2, <2>3, <2>4, <2>5, Zenon
<1> HIDE DEF S
<1>3. n \in S
  BY <1>1, <1>2, Induct
<1>4. QED
  BY <1>3 DEF S

LEMMA DirOfPaths ==
    ASSUME NEW levels, NEW len, Len(levels) \in Nat
    PROVE  \E p : Paths(p, levels, Len(levels), len) /\ DirOf(levels, len) = p[Len(levels)]
<1>1. \E p : Paths(p, levels, Len(levels), len)
  BY PathsExist
<1>2. QED
  BY <1>1, Zenon DEF DirOf

\* The root has an empty path, ...
LEMMA DirOfRoot ==
    ASSUME NEW levels, NEW len, Len(levels) \in Nat, Len(levels) <= 1
    PROVE  DirOf(levels, len) = <<>>
<1>1. PICK p : Paths(p, levels, Len(levels), len) /\ DirOf(levels, len) = p[Len(levels)]
  BY DirOfPaths
<1>2. Len(levels) \in 0 .. Len(levels)
  OBVIOUS
<1>3. QED
  BY <1>1, <1>2, Zenon DEF Paths

\* ... a level's position in its directory does not matter, ...
LEMMA DirOfSame ==
    ASSUME NEW s, NEW t, NEW len, Len(s) \in Nat, Len(t) = Len(s),
           \A k \in 1 .. Len(s) : s[k].node = t[k].node
    PROVE  DirOf(s, len) = DirOf(t, len)
<1>1. PICK p : Paths(p, s, Len(s), len) /\ DirOf(s, len) = p[Len(s)]
  BY DirOfPaths
<1>2. PICK q : Paths(q, t, Len(t), len) /\ DirOf(t, len) = q[Len(t)]
  BY DirOfPaths
<1>3. p[Len(s)] = q[Len(s)]
  <2>1. PICK n \in Nat : n = Len(s) /\ n = Len(t) /\ n <= n
    OBVIOUS
  <2>2. Paths(p, s, n, len) /\ Paths(q, t, n, len) /\ \A k \in 1 .. n : s[k].node = t[k].node
    BY <1>1, <1>2, <2>1
  <2>3. \A a, b, c \in Nat : c <= a /\ c <= b /\ Paths(p, s, a, len) /\ Paths(q, t, b, len)
            /\ (\A k \in 1 .. c : s[k].node = t[k].node) => p[c] = q[c]
    BY PathsAgree
  <2>4. p[n] = q[n]
    BY <2>1, <2>2, <2>3, Zenon
  <2>5. QED
    BY <2>1, <2>4
<1>4. QED
  BY <1>1, <1>2, <1>3

\* ... and one more level adds its name and a separator.
LEMMA DirOfLonger ==
    ASSUME NEW s, NEW t, NEW len, Len(s) \in Nat \ {0}, Len(t) = Len(s) + 1,
           \A k \in 1 .. Len(s) : s[k].node = t[k].node
    PROVE  DirOf(t, len) = DirOf(s, len) \o Named(len, t[Len(t)].node) \o <<Sep>>
<1>1. PICK p : Paths(p, s, Len(s), len) /\ DirOf(s, len) = p[Len(s)]
  BY DirOfPaths
<1>2. PICK q : Paths(q, t, Len(t), len) /\ DirOf(t, len) = q[Len(t)]
  BY DirOfPaths
<1>3. p[Len(s)] = q[Len(s)]
  BY <1>1, <1>2, PathsAgree
<1>4. Len(t) \in 0 .. Len(t) /\ ~ (Len(t) <= 1) /\ Len(t) - 1 = Len(s)
  OBVIOUS
<1>5. q[Len(t)] = q[Len(s)] \o Named(len, t[Len(t)].node) \o <<Sep>>
  BY <1>2, <1>4, Zenon DEF Paths
<1>6. QED
  BY <1>1, <1>2, <1>3, <1>5

Bytes == Nodes \cup {Sep}

LEMMA NamedType ==
    ASSUME NEW len \in [Nodes -> Nat \ {0}], NEW n \in Nodes
    PROVE  Named(len, n) \in Seq(Bytes) /\ Len(Named(len, n)) = len[n]
  BY DEF Named, Bytes

LEMMA DirOfType ==
    ASSUME NEW levels, NEW len \in [Nodes -> Nat \ {0}], Len(levels) \in Nat,
           \A k \in 1 .. Len(levels) : levels[k].node \in Nodes
    PROVE  DirOf(levels, len) \in Seq(Bytes)
<1>1. PICK p : Paths(p, levels, Len(levels), len) /\ DirOf(levels, len) = p[Len(levels)]
  BY DirOfPaths
<1> DEFINE S == {k \in Nat : k <= Len(levels) => p[k] \in Seq(Bytes)}
<1>2. 0 \in S
  BY <1>1 DEF Paths
<1>3. ASSUME NEW k \in Nat, k \in S PROVE k + 1 \in S
  <2>1. SUFFICES ASSUME k + 1 <= Len(levels) PROVE p[k + 1] \in Seq(Bytes)
    OBVIOUS
  <2>2. k + 1 \in 0 .. Len(levels) /\ k + 1 \in 1 .. Len(levels) /\ (k + 1) - 1 = k
    BY <2>1
  <2>3. p[k] \in Seq(Bytes)
    BY <1>3, <2>1
  <2>4. p[k + 1] = IF k + 1 <= 1 THEN <<>> ELSE p[k] \o Named(len, levels[k + 1].node) \o <<Sep>>
    BY <1>1, <2>2, Zenon DEF Paths
  <2>5. Named(len, levels[k + 1].node) \in Seq(Bytes) /\ <<Sep>> \in Seq(Bytes)
        /\ <<>> \in Seq(Bytes)
    BY <2>2, NamedType DEF Bytes
  <2>6. p[k] \o Named(len, levels[k + 1].node) \o <<Sep>> \in Seq(Bytes)
    BY <2>3, <2>5, ConcatProperties
  <2>7. QED
    BY <2>4, <2>5, <2>6
<1> HIDE DEF S
<1>4. Len(levels) \in S
  BY <1>2, <1>3, Induct
<1>5. QED
  BY <1>1, <1>4 DEF S

\* Cutting off what was appended.
LEMMA CutConcat ==
    ASSUME NEW S, NEW s \in Seq(S), NEW t \in Seq(S)
    PROVE  SubSeq(s \o t, 1, Len(s \o t) - Len(t)) = s
<1>1. s \o t \in Seq(S) /\ Len(s \o t) = Len(s) + Len(t) /\ Len(s) \in Nat /\ Len(t) \in Nat
  BY ConcatProperties
<1>2. \A i \in 1 .. Len(s) : (s \o t)[i] = s[i]
  OBVIOUS
<1> DEFINE c == SubSeq(s \o t, 1, Len(s))
<1>3. c \in Seq(S) /\ Len(c) = Len(s) /\ \A i \in 1 .. Len(s) : c[i] = s[i]
  BY <1>1, <1>2
<1>4. c = s
  BY <1>3, SeqEqual
<1>5. QED
  BY <1>1, <1>4

-----------------------------------------------------------------------------
(***************************************************************************)
(* The inductive invariant.                                                *)
(***************************************************************************)
Walking == {"DESCEND", "NAME_REMOVE", "ASCEND", "NAME_ADD", "GET_ENTRY"}

\* The levels are those of directories, below the root with their names.
LevelsOK ==
    \A k \in 1 .. Len(stack) :
        /\ stack[k].node \in tree.dirs
        /\ k >= 2 => stack[k].name_size = tree.len[stack[k].node]

\* What the state of the traversal says of the rest.
StateOK ==
    /\ state # "ERROR" => path_cap > 0
    /\ state \in Walking => stack # <<>>
    /\ state = "DESCEND" => entry \in tree.dirs
    /\ state = "NAME_ADD" => entry \in Nodes
    /\ call = "item" => state \in {"DESCEND", "NAME_REMOVE"}
    /\ call \in {"closed", "crashed"} => stack = <<>> /\ state = "ERROR"

\* The path and the stack are within their buffers.
Fit ==
    /\ path_cap > 0 => Len(path) + 1 <= path_cap
    /\ Len(stack) <= stack_cap

(* The path: between items that of the innermost directory, and with the   *)
(* item's name, of path_last_size bytes, while there is an item.  Right    *)
(* after the opening there is none.                                        *)
PathOK ==
    /\ state \in {"GET_ENTRY", "NAME_ADD", "ASCEND"} => path = DirOf(stack, tree.len)
    /\ state = "DESCEND" => visited # <<>> /\ Given.node = entry
    /\ state \in {"DESCEND", "NAME_REMOVE"} /\ visited # <<>> =>
          /\ path = DirOf(stack, tree.len) \o Named(tree.len, Given.node)
          /\ last = tree.len[Given.node]
    /\ state \in {"DESCEND", "NAME_REMOVE"} /\ visited = <<>> =>
          path = <<>> /\ Len(stack) = 1 /\ last = 0

IInv == TypeOK /\ LevelsOK /\ StateOK /\ Fit /\ PathOK

LEMMA InitInvariant == Init => IInv
<1>1. SUFFICES ASSUME Init PROVE IInv
  OBVIOUS
<1>2. IsTree(tree)
  BY TraverseAssumption, <1>1 DEF Init
<1>3. TypeOK
  <2>1. path \in Seq(Nodes \cup {Sep}) /\ stack \in Seq(Levels) /\ visited \in Seq(Items)
    BY <1>1, EmptySeq DEF Init
  <2>2. QED
    BY <1>1, <1>2, <2>1 DEF Init, TypeOK, Sizes
<1>4. LevelsOK /\ StateOK /\ Fit /\ PathOK
  BY <1>1 DEF Init, LevelsOK, StateOK, Fit, PathOK, Walking
<1>5. QED
  BY <1>3, <1>4 DEF IInv

-----------------------------------------------------------------------------
(***************************************************************************)
(* Opening and closing.                                                    *)
(***************************************************************************)
LEMMA CloseKeeps ==
    ASSUME IInv, CloseEffect, tree' = tree, entry' = entry, last' = last,
           dir_end' = dir_end, visited' = visited, pruned' = pruned, sized' \in BOOLEAN,
           call' \in {"closed", "crashed"}
    PROVE  IInv'
<1>1. TypeOK'
  BY DEF IInv, TypeOK, CloseEffect, Sizes, Levels, Items
<1>2. LevelsOK' /\ StateOK' /\ Fit' /\ PathOK'
  BY DEF CloseEffect, LevelsOK, StateOK, Fit, PathOK, Walking
<1>3. QED
  BY <1>1, <1>2 DEF IInv

LEMMA OpenKeeps == ASSUME IInv, Open PROVE IInv'
<1> DEFINE new == [node |-> Root, at |-> 0, name_size |-> 0]
<1>1. stack = <<>> /\ stack' = <<new>> /\ tree' = tree /\ Root \in tree.dirs /\ Root \in Nodes
  BY DEF IInv, StateOK, Open, Push, TypeOK, IsTree
<1>2. Len(stack) = 0 /\ Len(stack') = 1 /\ stack'[1] = new
  BY <1>1
<1>3. stack_cap' \in Nat /\ stack_cap' >= 1
  BY <1>2, GrownStackFits DEF IInv, TypeOK, Fit, Open, Push
<1>4. TypeOK'
  <2>1. new \in Levels /\ Sizes' = Sizes
    BY <1>1 DEF Levels, Sizes
  <2>2. stack' \in Seq(Levels')
    BY <1>1, <2>1 DEF Levels
  <2>3. QED
    BY <1>1, <1>3, <2>2, TraverseAssumption DEF IInv, TypeOK, Open, Sizes, Items
<1>5. LevelsOK'
  BY <1>1, <1>2 DEF LevelsOK
<1>6. StateOK' /\ Fit' /\ PathOK'
  BY <1>1, <1>2, <1>3, TraverseAssumption DEF Open, StateOK, Fit, PathOK, Walking
<1>7. QED
  BY <1>4, <1>5, <1>6 DEF IInv

-----------------------------------------------------------------------------
(***************************************************************************)
(* Pushing a level and adding to the path.                                 *)
(***************************************************************************)
LEMMA PushLevel ==
    ASSUME IInv, tree' = tree, entry \in tree.dirs, stack # <<>>,
           Push(entry, tree.len[entry])
    PROVE  /\ stack' \in Seq(Levels') /\ stack_cap' \in Nat
           /\ Len(stack') = Len(stack) + 1 /\ Len(stack') <= stack_cap'
           /\ stack'[Len(stack')].node = entry
           /\ \A k \in 1 .. Len(stack) : stack'[k] = stack[k]
           /\ LevelsOK'
<1> DEFINE new == [node |-> entry, at |-> 0, name_size |-> tree.len[entry]]
<1>1. /\ entry \in Nodes /\ tree.len \in [Nodes -> Nat \ {0}] /\ stack \in Seq(Levels)
      /\ stack_cap \in Nat /\ Len(stack) <= stack_cap
  BY DEF IInv, TypeOK, IsTree, Fit
<1>2. new \in Levels
  BY <1>1 DEF Levels, Sizes
<1>3. Levels' = Levels
  BY DEF Levels, Sizes
<1>4. stack' = Append(stack, new) /\ stack_cap' = GrownStack
  BY DEF Push
<1> HIDE DEF new
<1>5. /\ stack' \in Seq(Levels) /\ Len(stack') = Len(stack) + 1 /\ Len(stack) \in Nat
      /\ Len(stack) # 0
      /\ stack'[Len(stack) + 1] = new /\ \A k \in 1 .. Len(stack) : stack'[k] = stack[k]
  BY <1>1, <1>2, <1>4
<1>6. stack_cap' \in Nat /\ Len(stack') <= stack_cap'
  BY <1>1, <1>4, <1>5, GrownStackFits
<1>7. new.node = entry /\ new.name_size = tree.len[entry]
  BY DEF new
<1>8. LevelsOK'
  <2>1. SUFFICES ASSUME NEW k \in 1 .. Len(stack')
                 PROVE  /\ stack'[k].node \in tree.dirs
                        /\ k >= 2 => stack'[k].name_size = tree.len[stack'[k].node]
    BY DEF LevelsOK
  <2>2. CASE k \in 1 .. Len(stack)
    BY <1>5, <2>2 DEF IInv, LevelsOK
  <2>3. CASE k = Len(stack) + 1
    BY <1>5, <1>7, <2>3
  <2>4. QED
    BY <1>5, <2>2, <2>3
<1>9. QED
  BY <1>3, <1>5, <1>6, <1>7, <1>8

LEMMA AddToPath ==
    ASSUME NEW bytes \in Seq(Bytes), path \in Seq(Bytes), path_cap \in Nat \ {0},
           PathAdd(bytes)
    PROVE  /\ path' \in Seq(Bytes) /\ path_cap' \in Nat /\ path_cap' > 0
           /\ Len(path') + 1 <= path_cap'
<1>1. /\ path' = path \o bytes /\ path_cap' = GrownPath(Len(path) + Len(bytes))
  BY DEF PathAdd
<1>2. path \o bytes \in Seq(Bytes) /\ Len(path \o bytes) = Len(path) + Len(bytes)
      /\ Len(path) + Len(bytes) \in Nat
  BY ConcatProperties
<1>3. PICK n \in Nat : n = Len(path) + Len(bytes)
  BY <1>2
<1>4. GrownPath(n) \in Nat /\ GrownPath(n) >= n + 1
  BY <1>3, GrownPathFits
<1>5. QED
  BY <1>1, <1>2, <1>3, <1>4

-----------------------------------------------------------------------------
(***************************************************************************)
(* The iterations of sqfs_traverse_next.                                   *)
(***************************************************************************)
\* The types of what the proofs below speak of.
LEMMA Types ==
    ASSUME IInv
    PROVE  /\ tree.len \in [Nodes -> Nat \ {0}] /\ tree.dirs \subseteq Nodes
           /\ tree.kids \in [tree.dirs -> Seq(Nodes \ {Root})]
           /\ path \in Seq(Bytes) /\ Len(path) \in Nat /\ path_cap \in Nat
           /\ stack \in Seq(Levels) /\ Len(stack) \in Nat /\ stack_cap \in Nat
           /\ stack # <<>> => Len(stack) >= 1 /\ Top \in Levels /\ Top.node \in tree.dirs
           /\ \A k \in 1 .. Len(stack) : stack[k].node \in Nodes
           /\ DirOf(stack, tree.len) \in Seq(Bytes)
<1>1. /\ tree.len \in [Nodes -> Nat \ {0}] /\ tree.dirs \subseteq Nodes
      /\ tree.kids \in [tree.dirs -> Seq(Nodes \ {Root})]
      /\ path \in Seq(Bytes) /\ path_cap \in Nat
      /\ stack \in Seq(Levels) /\ stack_cap \in Nat
  BY DEF IInv, TypeOK, IsTree, Bytes
<1>2. Len(path) \in Nat /\ Len(stack) \in Nat
  BY <1>1
<1>3. stack # <<>> => Len(stack) >= 1 /\ Top \in Levels
  BY <1>1, <1>2 DEF Top
<1>4. stack # <<>> => Top.node \in tree.dirs
  BY <1>2, <1>3 DEF IInv, LevelsOK, Top
<1>5. \A k \in 1 .. Len(stack) : stack[k].node \in Nodes
  BY <1>1 DEF IInv, LevelsOK
<1>6. DirOf(stack, tree.len) \in Seq(Bytes)
  BY <1>1, <1>2, <1>5, DirOfType
<1>7. QED
  BY <1>1, <1>2, <1>3, <1>4, <1>5, <1>6

LEMMA GetEntryKeeps == ASSUME IInv, GetEntry PROVE IInv'
<1>1. /\ call = "next" /\ state = "GET_ENTRY" /\ stack # <<>> /\ tree' = tree
      /\ UNCHANGED <<call, dir_end, path, path_cap, last, stack_cap, sized, visited, pruned>>
  BY DEF GetEntry, In
<1>2. Sizes' = Sizes /\ Levels' = Levels /\ IsTree(tree')
  BY <1>1 DEF Sizes, Levels, IInv, TypeOK
<1>3. CASE Top.at < Len(tree.kids[Top.node])
  <2>1. /\ stack' = [stack EXCEPT ![Len(stack)].at = @ + 1]
        /\ entry' = tree.kids[Top.node][Top.at + 1] /\ state' = "NAME_ADD"
    BY <1>3 DEF GetEntry
  <2>2. entry' \in Nodes
    <3>1. tree.kids[Top.node] \in Seq(Nodes \ {Root}) /\ Top.at \in Nat
      BY <1>1, Types DEF Levels
    <3>2. QED
      BY <1>3, <2>1, <3>1
  <2>3. /\ stack' \in Seq(Levels) /\ Len(stack') = Len(stack)
        /\ \A k \in 1 .. Len(stack) : /\ stack'[k].node = stack[k].node
                                      /\ stack'[k].name_size = stack[k].name_size
    <3>1. /\ Top = stack[Len(stack)] /\ Len(stack) \in 1 .. Len(stack)
      BY <1>1, Types DEF Top
    <3>2. [Top EXCEPT !.at = @ + 1] \in Levels
      <4>1. Top \in Levels
        BY <1>1, Types
      <4>2. \A l \in [node : Nodes, at : Nat, name_size : Sizes] :
               [l EXCEPT !.at = @ + 1] \in [node : Nodes, at : Nat, name_size : Sizes]
        OBVIOUS
      <4>3. QED
        BY <4>1, <4>2 DEF Levels
    <3>3. [Top EXCEPT !.at = @ + 1].node = Top.node
          /\ [Top EXCEPT !.at = @ + 1].name_size = Top.name_size
      BY <1>1, Types DEF Levels
    <3>4. PICK new : new = [Top EXCEPT !.at = @ + 1]
      OBVIOUS
    <3>5. stack' = [stack EXCEPT ![Len(stack)] = new]
      BY <2>1, <3>1, <3>4
    <3>6. /\ stack' \in Seq(Levels) /\ Len(stack') = Len(stack)
          /\ \A k \in 1 .. Len(stack) : stack'[k] = IF k = Len(stack) THEN new ELSE stack[k]
      <4>1. stack \in Seq(Levels) /\ new \in Levels
        BY <3>2, <3>4, Types
      <4>2. QED
        BY <3>1, <3>5, <4>1, ExceptSeq
    <3>7. QED
      BY <3>1, <3>3, <3>4, <3>6
  <2>4. DirOf(stack', tree.len) = DirOf(stack, tree.len)
    <3>1. PICK s : s = stack'
      OBVIOUS
    <3>2. DirOf(stack, tree.len) = DirOf(s, tree.len)
      BY <2>3, <3>1, Types, DirOfSame
    <3>3. QED
      BY <3>1, <3>2
  <2>5. TypeOK'
    BY <1>1, <1>2, <2>1, <2>2, <2>3 DEF IInv, TypeOK, Items
  <2>6. LevelsOK'
    BY <1>1, <2>3 DEF IInv, LevelsOK
  <2>7. StateOK' /\ Fit'
    BY <1>1, <2>1, <2>2, <2>3, Types DEF IInv, StateOK, Fit, Walking
  <2>8. PathOK'
    BY <1>1, <2>1, <2>4 DEF IInv, PathOK
  <2>9. QED
    BY <2>5, <2>6, <2>7, <2>8 DEF IInv
<1>4. CASE ~ (Top.at < Len(tree.kids[Top.node]))
  <2>1. state' = "ASCEND" /\ stack' = stack /\ entry' = entry
    BY <1>4 DEF GetEntry
  <2>2. TypeOK'
    BY <1>1, <1>2, <2>1 DEF IInv, TypeOK, Items
  <2>3. LevelsOK' /\ StateOK' /\ Fit' /\ PathOK'
    BY <1>1, <2>1 DEF IInv, LevelsOK, StateOK, Fit, PathOK, Walking
  <2>4. QED
    BY <2>2, <2>3 DEF IInv
<1>5. QED
  BY <1>3, <1>4

LEMMA NameAddKeeps == ASSUME IInv, NameAdd PROVE IInv'
<1>1. /\ state = "NAME_ADD" /\ tree' = tree /\ stack' = stack /\ entry' = entry
      /\ last' = tree.len[entry] /\ PathAdd(Name(entry)) /\ dir_end' = FALSE
      /\ state' = IF entry \in tree.dirs THEN "DESCEND" ELSE "NAME_REMOVE"
      /\ call' = "item" /\ visited' = Append(visited, [node |-> entry, leave |-> FALSE])
      /\ UNCHANGED <<stack_cap, sized, pruned>>
  BY DEF NameAdd, In
<1>2. entry \in Nodes /\ stack # <<>> /\ path_cap > 0 /\ path = DirOf(stack, tree.len)
  BY <1>1 DEF IInv, StateOK, PathOK, Walking
<1>3. Name(entry) = Named(tree.len, entry) /\ Name(entry) \in Seq(Bytes)
  BY <1>2, Types, NamedType DEF Name, Named
<1>4. /\ path' \in Seq(Bytes) /\ path_cap' \in Nat /\ path_cap' > 0
      /\ Len(path') + 1 <= path_cap'
  <2>1. path_cap \in Nat \ {0} /\ path \in Seq(Bytes)
    BY <1>2, Types
  <2>2. QED
    BY <1>1, <1>3, <2>1, AddToPath
<1>5. /\ visited' \in Seq(Items) /\ visited' # <<>>
      /\ visited'[Len(visited')].node = entry
  <2>1. visited \in Seq(Items) /\ [node |-> entry, leave |-> FALSE] \in Items
    BY <1>2 DEF IInv, TypeOK, Items
  <2>2. QED
    BY <1>1, <2>1
<1>6. path' = DirOf(stack, tree.len) \o Named(tree.len, entry)
  BY <1>1, <1>2, <1>3 DEF PathAdd
<1>7. TypeOK'
  BY <1>1, <1>2, <1>4, <1>5 DEF IInv, TypeOK, Sizes, Levels, Items, Bytes
<1>8. LevelsOK' /\ StateOK' /\ Fit'
  BY <1>1, <1>2, <1>4 DEF IInv, LevelsOK, StateOK, Fit, Walking
<1>9. PathOK'
  BY <1>1, <1>5, <1>6 DEF PathOK, Given
<1>10. QED
  BY <1>7, <1>8, <1>9 DEF IInv

LEMMA NameRemoveKeeps == ASSUME IInv, NameRemove PROVE IInv'
<1>1. /\ call = "next" /\ state = "NAME_REMOVE" /\ state' = "GET_ENTRY" /\ path' = PathCut(last)
      /\ UNCHANGED <<tree, call, dir_end, entry, path_cap, last, stack, stack_cap, sized,
                     visited, pruned>>
  BY DEF NameRemove, In
<1>2. stack # <<>> /\ path_cap > 0
  BY <1>1 DEF IInv, StateOK, Walking
<1>3. path' = DirOf(stack, tree.len) /\ Len(path') <= Len(path)
  <2>1. CASE visited = <<>>
    <3>1. path = <<>> /\ Len(stack) = 1 /\ last = 0
      BY <1>1, <2>1 DEF IInv, PathOK
    <3>2. DirOf(stack, tree.len) = <<>>
      BY <3>1, DirOfRoot
    <3>3. PathCut(last) = <<>>
      BY <3>1 DEF PathCut
    <3>4. QED
      BY <1>1, <3>1, <3>2, <3>3
  <2>2. CASE visited # <<>>
    <3>1. path = DirOf(stack, tree.len) \o Named(tree.len, Given.node)
          /\ last = tree.len[Given.node]
      BY <1>1, <2>2 DEF IInv, PathOK
    <3>2. Given.node \in Nodes
      <4>1. visited \in Seq(Items)
        BY DEF IInv, TypeOK
      <4>2. visited[Len(visited)] \in Items
        BY <2>2, <4>1
      <4>3. QED
        BY <4>2 DEF Items, Given
    <3>3. PICK d \in Seq(Bytes), n \in Seq(Bytes) :
             d = DirOf(stack, tree.len) /\ n = Named(tree.len, Given.node) /\ Len(n) = last
      BY <3>1, <3>2, Types, NamedType
    <3>4. path = d \o n /\ Len(path) = Len(d) + Len(n) /\ Len(d) \in Nat /\ Len(n) \in Nat
      <4>1. path = d \o n
        BY <3>1, <3>3
      <4>2. Len(d \o n) = Len(d) + Len(n)
        BY ConcatProperties
      <4>3. QED
        BY <4>1, <4>2
    <3>5. SubSeq(path, 1, Len(path) - last) = d
      BY <3>3, <3>4, CutConcat
    <3>6. PathCut(last) = d
      <4>1. Len(path) + 1 > last
        BY <3>3, <3>4
      <4>2. QED
        BY <3>5, <4>1 DEF PathCut
    <3>7. QED
      BY <1>1, <3>3, <3>4, <3>6
  <2>3. QED
    BY <2>1, <2>2
<1>4. TypeOK'
  BY <1>1, <1>3, Types DEF IInv, TypeOK, Sizes, Levels, Items, Bytes
<1>5. LevelsOK' /\ StateOK'
  BY <1>1, <1>2 DEF IInv, LevelsOK, StateOK, Walking
<1>6. Fit'
  <2>1. Len(path') \in Nat
    BY <1>3, Types
  <2>2. QED
    BY <1>1, <1>2, <1>3, <2>1, Types DEF IInv, Fit
<1>7. PathOK'
  BY <1>1, <1>3 DEF PathOK
<1>8. QED
  BY <1>4, <1>5, <1>6, <1>7 DEF IInv

LEMMA DescendKeeps == ASSUME IInv, Descend PROVE IInv'
<1>1. /\ call = "next" /\ state = "DESCEND" /\ state' = "GET_ENTRY" /\ tree' = tree
      /\ Push(entry, tree.len[entry]) /\ PathAdd(<<Sep>>)
      /\ UNCHANGED <<call, dir_end, entry, last, sized, visited, pruned>>
  BY DEF Descend, In
<1>2. /\ entry \in tree.dirs /\ stack # <<>> /\ path_cap > 0
      /\ path = DirOf(stack, tree.len) \o Named(tree.len, entry)
  BY <1>1 DEF IInv, StateOK, PathOK, Walking
<1>3. /\ path' \in Seq(Bytes) /\ path_cap' \in Nat /\ path_cap' > 0
      /\ Len(path') + 1 <= path_cap'
  <2>1. path_cap \in Nat \ {0} /\ path \in Seq(Bytes) /\ <<Sep>> \in Seq(Bytes)
    BY <1>2, Types DEF Bytes
  <2>2. QED
    BY <1>1, <2>1, AddToPath
<1>4. /\ stack' \in Seq(Levels') /\ stack_cap' \in Nat
      /\ Len(stack') = Len(stack) + 1 /\ Len(stack') <= stack_cap'
      /\ stack'[Len(stack')].node = entry
      /\ \A k \in 1 .. Len(stack) : stack'[k] = stack[k]
      /\ LevelsOK'
  BY <1>1, <1>2, PushLevel
<1>5. path' = DirOf(stack', tree.len)
  <2>1. PICK s : s = stack'
    OBVIOUS
  <2>2. Len(stack) \in Nat \ {0} /\ Len(s) = Len(stack) + 1 /\ s[Len(s)].node = entry
        /\ \A k \in 1 .. Len(stack) : stack[k].node = s[k].node
    BY <1>2, <1>4, <2>1, Types
  <2>3. DirOf(s, tree.len) = DirOf(stack, tree.len) \o Named(tree.len, s[Len(s)].node) \o <<Sep>>
    BY <2>2, DirOfLonger
  <2>4. path' = path \o <<Sep>>
    BY <1>1 DEF PathAdd
  <2>5. QED
    BY <1>2, <2>1, <2>2, <2>3, <2>4
<1>6. TypeOK'
  BY <1>1, <1>3, <1>4 DEF IInv, TypeOK, Sizes, Items, Bytes
<1>7. StateOK' /\ Fit'
  BY <1>1, <1>3, <1>4, Types DEF IInv, StateOK, Fit, Walking
<1>8. PathOK'
  BY <1>1, <1>5 DEF PathOK
<1>9. QED
  BY <1>4, <1>6, <1>7, <1>8 DEF IInv

LEMMA AscendKeeps == ASSUME IInv, Ascend PROVE IInv'
<1>1. /\ call = "next" /\ state = "ASCEND" /\ tree' = tree
      /\ path' = PathCut(1) /\ last' = Top.name_size
      /\ stack' = SubSeq(stack, 1, Len(stack) - 1)
      /\ UNCHANGED <<entry, path_cap, stack_cap, sized, pruned>>
  BY DEF Ascend, In
<1>2. stack # <<>> /\ path_cap > 0 /\ path = DirOf(stack, tree.len)
  BY <1>1 DEF IInv, StateOK, PathOK, Walking
<1>3. /\ Sizes' = Sizes /\ Levels' = Levels /\ IsTree(tree')
      /\ Len(stack) \in Nat /\ Len(stack) >= 1 /\ Top \in Levels
  BY <1>1, <1>2, Types DEF Sizes, Levels, IInv, TypeOK
<1>4. /\ stack' \in Seq(Levels) /\ Len(stack') = Len(stack) - 1
      /\ \A k \in 1 .. Len(stack') : k \in 1 .. Len(stack) /\ stack'[k] = stack[k]
  <2>1. stack \in Seq(Levels)
    BY Types
  <2>2. PICK n \in Nat : n = Len(stack) - 1
    BY <1>3
  <2>3. \A k \in 1 .. n : k \in 1 .. Len(stack)
    BY <2>2
  <2>4. /\ SubSeq(stack, 1, n) \in Seq(Levels) /\ Len(SubSeq(stack, 1, n)) = n
        /\ \A k \in 1 .. n : SubSeq(stack, 1, n)[k] = stack[k]
    BY <2>1, <2>2, <2>3
  <2>5. QED
    BY <1>1, <2>2, <2>3, <2>4
<1>5. LevelsOK'
  BY <1>1, <1>4 DEF IInv, LevelsOK
<1>6. last' \in Sizes
  BY <1>1, <1>3 DEF Levels
<1>7. CASE Len(stack) > 1
  <2>1. /\ state' = "NAME_REMOVE" /\ call' = "item" /\ dir_end' = TRUE
        /\ visited' = Append(visited, [node |-> Left, leave |-> TRUE])
    BY <1>7 DEF Ascend
  <2>2. /\ Left \in tree.dirs /\ Left \in Nodes /\ Left = stack[Len(stack)].node
        /\ last' = tree.len[Left]
    <3>1. Len(stack) \in 1 .. Len(stack) /\ Len(stack) >= 2
      BY <1>3, <1>7
    <3>2. QED
      BY <1>1, <3>1, Types DEF IInv, LevelsOK, Left, Top
  <2>3. /\ visited' \in Seq(Items) /\ visited' # <<>>
        /\ visited'[Len(visited')].node = Left
    <3>1. visited \in Seq(Items) /\ [node |-> Left, leave |-> TRUE] \in Items
      BY <2>2 DEF IInv, TypeOK, Items
    <3>2. QED
      BY <2>1, <3>1
  <2>4. PICK s : s = stack'
    OBVIOUS
  <2>5. /\ Len(s) \in Nat \ {0} /\ Len(stack) = Len(s) + 1
        /\ \A k \in 1 .. Len(s) : s[k].node = stack[k].node /\ s[k].node \in Nodes
    <3>1. \A k \in 1 .. Len(stack) : stack[k].node \in Nodes
      BY Types
    <3>2. /\ Len(s) = Len(stack) - 1
          /\ \A k \in 1 .. Len(s) : k \in 1 .. Len(stack) /\ s[k] = stack[k]
      BY <1>4, <2>4
    <3>3. Len(s) \in Nat \ {0} /\ Len(stack) = Len(s) + 1
      BY <1>3, <1>7, <3>2
    <3>4. QED
      BY <3>1, <3>2, <3>3
  <2>6. PICK d \in Seq(Bytes), n \in Seq(Bytes) :
           d = DirOf(s, tree.len) /\ n = Named(tree.len, Left)
    BY <2>2, <2>5, DirOfType, NamedType, Types
  <2>7. path = (d \o n) \o <<Sep>>
    <3>1. DirOf(stack, tree.len)
            = DirOf(s, tree.len) \o Named(tree.len, stack[Len(stack)].node) \o <<Sep>>
      BY <2>5, DirOfLonger
    <3>2. QED
      BY <1>2, <2>2, <2>6, <3>1
  <2>8. d \o n \in Seq(Bytes) /\ <<Sep>> \in Seq(Bytes) /\ Len(<<Sep>>) = 1
        /\ Len(d \o n) \in Nat
    BY ConcatProperties DEF Bytes
  <2>9. PICK p \in Seq(Bytes) : p = d \o n
    BY <2>8
  <2>10. Len(path) = Len(p) + 1 /\ Len(p) \in Nat /\ SubSeq(path, 1, Len(path) - 1) = p
    <3>1. Len(p \o <<Sep>>) = Len(p) + Len(<<Sep>>)
      BY <2>8, ConcatProperties
    <3>2. SubSeq(p \o <<Sep>>, 1, Len(p \o <<Sep>>) - Len(<<Sep>>)) = p
      BY <2>8, CutConcat
    <3>3. path = p \o <<Sep>>
      BY <2>7, <2>9
    <3>4. QED
      BY <2>8, <3>1, <3>2, <3>3
  <2>11. path' = p
    BY <1>1, <2>10 DEF PathCut
  <2>12. TypeOK'
    BY <1>1, <1>3, <1>4, <1>6, <2>1, <2>3, <2>11 DEF IInv, TypeOK, Items, Bytes
  <2>13. StateOK' /\ Fit'
    <3>1. stack' # <<>> /\ Len(stack') <= Len(stack) /\ Len(stack') \in Nat
      BY <1>3, <1>4, <1>7
    <3>2. StateOK'
      BY <1>1, <1>2, <2>1, <3>1 DEF StateOK
    <3>3. Len(stack') <= stack_cap
      BY <1>3, <3>1, Types DEF IInv, Fit
    <3>4. Len(path') + 1 <= path_cap
      BY <1>2, <2>10, <2>11, Types DEF IInv, Fit
    <3>5. QED
      BY <1>1, <3>2, <3>3, <3>4 DEF Fit
  <2>14. PathOK'
    <3>1. path' = DirOf(stack', tree'.len) \o Named(tree'.len, visited'[Len(visited')].node)
      BY <1>1, <2>3, <2>4, <2>6, <2>9, <2>11
    <3>2. QED
      BY <1>1, <2>1, <2>2, <2>3, <3>1 DEF PathOK, Given
  <2>15. QED
    BY <1>5, <2>12, <2>13, <2>14 DEF IInv
<1>8. CASE Len(stack) <= 1
  <2>1. state' = "FINISHED" /\ UNCHANGED <<dir_end, call, visited>>
    BY <1>3, <1>8 DEF Ascend
  <2>2. path = <<>>
    BY <1>2, <1>3, <1>8, DirOfRoot
  <2>3. path' = <<>>
    BY <1>1, <2>2 DEF PathCut
  <2>4. TypeOK'
    <3>1. path' \in Seq(Nodes \cup {Sep})
      BY <2>3
    <3>2. QED
      BY <1>1, <1>3, <1>4, <1>6, <2>1, <3>1 DEF IInv, TypeOK, Items
  <2>5. StateOK' /\ Fit' /\ PathOK'
    BY <1>1, <1>2, <1>3, <1>4, <2>1, <2>2, <2>3, Types
       DEF IInv, StateOK, Fit, PathOK, Walking
  <2>6. QED
    BY <1>5, <2>4, <2>5 DEF IInv
<1>9. QED
  BY <1>3, <1>7, <1>8

LEMMA FailKeeps == ASSUME IInv, Fail PROVE IInv'
<1>1. /\ call = "next" /\ state' = "ERROR" /\ call' = "failed"
      /\ UNCHANGED <<tree, dir_end, entry, path, path_cap, sized, visited, pruned>>
  BY DEF Fail, In
<1>2. StateOK' /\ PathOK'
  BY <1>1 DEF StateOK, PathOK, Walking
<1>3. /\ stack' \in Seq(Levels') /\ stack_cap' \in Nat /\ Len(stack') <= stack_cap'
      /\ LevelsOK' /\ last' \in Sizes'
  <2>1. CASE UNCHANGED <<stack, stack_cap, last>>
    BY <1>1, <2>1 DEF IInv, TypeOK, Fit, LevelsOK, Levels, Sizes
  <2>2. CASE state = "DESCEND" /\ Push(entry, tree.len[entry]) /\ UNCHANGED last
    <3>1. entry \in tree.dirs /\ stack # <<>>
      BY <2>2 DEF IInv, StateOK, Walking
    <3>2. QED
      BY <1>1, <2>2, <3>1, PushLevel DEF IInv, TypeOK, Sizes
  <2>3. CASE state = "NAME_ADD" /\ last' = tree.len[entry] /\ UNCHANGED <<stack, stack_cap>>
    BY <1>1, <2>3 DEF IInv, TypeOK, Fit, LevelsOK, Levels, Sizes, StateOK
  <2>4. QED
    BY <2>1, <2>2, <2>3 DEF Fail
<1>4. TypeOK' /\ Fit'
  BY <1>1, <1>3 DEF IInv, TypeOK, Fit, Items
<1>5. QED
  BY <1>2, <1>3, <1>4 DEF IInv

\* A step that changes only what the client is doing, or prunes.
LEMMA ClientKeeps ==
    ASSUME IInv, Prune \/ CallNext \/ Finished \/ UNCHANGED vars
    PROVE  IInv'
<1>1. /\ UNCHANGED <<tree, dir_end, entry, path, path_cap, last, stack, stack_cap,
                     sized, visited>>
      /\ pruned' \subseteq Nodes
      /\ \/ state' = state /\ call' \in {call, "next"}
         \/ state' = state /\ state = "FINISHED" /\ call' = "over"
         \/ state' = "NAME_REMOVE" /\ state = "DESCEND" /\ call' = call /\ call = "item"
  <2>1. CASE Prune
    <3>1. entry \in Nodes
      BY <2>1 DEF IInv, TypeOK, IsTree, StateOK, Prune
    <3>2. QED
      BY <2>1, <3>1 DEF IInv, TypeOK, Prune
  <2>2. QED
    BY <2>1 DEF IInv, TypeOK, CallNext, Finished, In, vars
<1>2. call' \in {"closed", "item", "next", "over", "failed", "crashed"}
      /\ Levels' = Levels /\ Sizes' = Sizes
  BY <1>1 DEF IInv, TypeOK, Levels, Sizes
<1>3. TypeOK'
  BY <1>1, <1>2 DEF IInv, TypeOK, Items
<1>4. LevelsOK' /\ Fit'
  BY <1>1 DEF IInv, LevelsOK, Fit
<1>5. StateOK'
  BY <1>1 DEF IInv, StateOK, Walking
<1>6. PathOK'
  BY <1>1 DEF IInv, PathOK, Given
<1>7. QED
  BY <1>3, <1>4, <1>5, <1>6 DEF IInv

-----------------------------------------------------------------------------
(***************************************************************************)
(* The theorems.                                                           *)
(***************************************************************************)
(* The invariant is inductive: every call of the client and every          *)
(* iteration of sqfs_traverse_next keeps it, failing ones too.             *)
THEOREM Inductive == Spec => []IInv
<1>1. Init => IInv
  BY InitInvariant
<1>2. IInv /\ [Next]_vars => IInv'
  <2>1. SUFFICES ASSUME IInv, [Next]_vars PROVE IInv'
    OBVIOUS
  <2>2. CASE Open
    BY <2>1, <2>2, OpenKeeps
  <2>3. CASE OpenNoPath \/ OpenFail \/ Close
    <3>1. /\ CloseEffect /\ UNCHANGED <<tree, dir_end, entry, last, visited, pruned>>
          /\ call' \in {"closed", "crashed"} /\ sized' \in BOOLEAN
      BY <2>1, <2>3 DEF OpenNoPath, OpenFail, Close, IInv, TypeOK
    <3>2. QED
      BY <2>1, <3>1, CloseKeeps
  <2>4. CASE Prune \/ CallNext \/ Finished \/ Crashed \/ UNCHANGED vars
    BY <2>1, <2>4, ClientKeeps DEF Crashed
  <2>5. CASE GetEntry
    BY <2>1, <2>5, GetEntryKeeps
  <2>6. CASE NameAdd
    BY <2>1, <2>6, NameAddKeeps
  <2>7. CASE NameRemove
    BY <2>1, <2>7, NameRemoveKeeps
  <2>8. CASE Descend
    BY <2>1, <2>8, DescendKeeps
  <2>9. CASE Ascend
    BY <2>1, <2>9, AscendKeeps
  <2>10. CASE Fail
    BY <2>1, <2>10, FailKeeps
  <2>11. QED
    BY <2>1, <2>2, <2>3, <2>4, <2>5, <2>6, <2>7, <2>8, <2>9, <2>10 DEF Next, Step
<1>3. QED
  BY <1>1, <1>2, PTL DEF Spec

(* traverse.c, stack.c: whatever the tree, the depth and the lengths of    *)
(* the names, the path with its terminator and the levels fit what         *)
(* sqfs_traverse_path_add and sqfs_stack_grow have allocated.              *)
THEOREM BuffersCorrect == Spec => []BuffersFit
<1>1. IInv => BuffersFit
  BY DEF IInv, BuffersFit, Fit
<1>2. QED
  BY <1>1, Inductive, PTL

(* traverse.c: in any tree, trv->path is the path of the item that the     *)
(* client has been given, after any history of descents, returns and       *)
(* prunings.                                                               *)
THEOREM PathsCorrect == Spec => []PathCorrect
<1>1. IInv => PathCorrect
  <2>1. SUFFICES ASSUME IInv, call = "item", visited # <<>>
                 PROVE  path = DirPath[Len(stack)] \o Name(Given.node)
    BY DEF PathCorrect
  <2>2. path = DirOf(stack, tree.len) \o Named(tree.len, Given.node)
    BY <2>1 DEF IInv, StateOK, PathOK
  <2>3. DirPath[Len(stack)] = DirOf(stack, tree.len)
    BY DEF DirPath, DirOf, Paths, Named, Name
  <2>4. QED
    BY <2>2, <2>3 DEF Name, Named
<1>2. QED
  BY <1>1, Inductive, PTL

-----------------------------------------------------------------------------
(***************************************************************************)
(* The walk of a tree.                                                     *)
(***************************************************************************)
PlacesOf(t) == UNION {{d} \X (0 .. Len(t.kids[d])) : d \in t.dirs}

\* The places whose items are part of those of a place, when pr is pruned.
Needs(t, pr, p) ==
    IF p[2] = 0 THEN {}
    ELSE {<<p[1], p[2] - 1>>}
           \cup (IF t.kids[p[1]][p[2]] \in t.dirs \ pr
                 THEN {<<t.kids[p[1]][p[2]], Len(t.kids[t.kids[p[1]][p[2]]])>>} ELSE {})

Enter(n) == [node |-> n, leave |-> FALSE]
Leave(n) == [node |-> n, leave |-> TRUE]

\* The items of a place, made of those of the places it needs.
WalkAt(w, t, pr, p) ==
    IF p[2] = 0 THEN <<>>
    ELSE w[<<p[1], p[2] - 1>>] \o <<Enter(t.kids[p[1]][p[2]])>>
           \o IF t.kids[p[1]][p[2]] \in t.dirs \ pr
              THEN w[<<t.kids[p[1]][p[2]], Len(t.kids[t.kids[p[1]][p[2]]])>>]
                     \o <<Leave(t.kids[p[1]][p[2]])>>
              ELSE <<>>

\* The walk of a tree, with pr pruned.
WalkOf(t, pr) == CHOOSE w : w = [p \in PlacesOf(t) |-> WalkAt(w, t, pr, p)]

Tree(t) == IsTree(t) /\ IsRooted(t)

\* The types of a tree.
LEMMA TreeTypes ==
    ASSUME NEW t, Tree(t), NEW d \in t.dirs
    PROVE  /\ d \in Nodes /\ t.kids[d] \in Seq(Nodes \ {Root}) /\ Len(t.kids[d]) \in Nat
           /\ \A i \in 1 .. Len(t.kids[d]) : t.kids[d][i] \in Nodes \ {Root}
<1>1. d \in Nodes /\ t.kids[d] \in Seq(Nodes \ {Root})
  BY DEF Tree, IsTree
<1>2. QED
  BY <1>1

LEMMA PlaceOf ==
    ASSUME NEW t, NEW d, NEW i
    PROVE  <<d, i>> \in PlacesOf(t) <=> d \in t.dirs /\ i \in 0 .. Len(t.kids[d])
  BY DEF PlacesOf

LEMMA PlaceIs ==
    ASSUME NEW t, NEW p \in PlacesOf(t)
    PROVE  /\ p = <<p[1], p[2]>> /\ p[1] \in t.dirs /\ p[2] \in 0 .. Len(t.kids[p[1]])
  BY DEF PlacesOf

LEMMA NeedsPlaces ==
    ASSUME NEW t, Tree(t), NEW pr, NEW p \in PlacesOf(t)
    PROVE  Needs(t, pr, p) \subseteq PlacesOf(t)
<1>1. /\ p[1] \in t.dirs /\ p[2] \in 0 .. Len(t.kids[p[1]]) /\ Len(t.kids[p[1]]) \in Nat
  BY PlaceIs, TreeTypes
<1>2. p[2] # 0 => <<p[1], p[2] - 1>> \in PlacesOf(t)
  BY <1>1, PlaceOf
<1>3. ASSUME NEW n \in t.dirs PROVE <<n, Len(t.kids[n])>> \in PlacesOf(t)
  <2>1. Len(t.kids[n]) \in 0 .. Len(t.kids[n])
    BY TreeTypes
  <2>2. QED
    BY <2>1, PlaceOf
<1>4. QED
  BY <1>2, <1>3 DEF Needs

\* Induction over the places of a tree.
LEMMA PlaceInduct ==
    ASSUME NEW t, Tree(t), NEW pr, NEW S,
           \A p \in PlacesOf(t) : Needs(t, pr, p) \subseteq S => p \in S
    PROVE  PlacesOf(t) \subseteq S
<1> DEFINE B == {d \in t.dirs : \E i \in 0 .. Len(t.kids[d]) : <<d, i>> \notin S}
<1>1. CASE B = {}
  <2>1. ASSUME NEW p \in PlacesOf(t) PROVE p \in S
    BY <1>1, PlaceIs
  <2>2. QED
    BY <2>1
<1>2. CASE B # {}
  <2>1. PICK d \in B : \A i \in 1 .. Len(t.kids[d]) : t.kids[d][i] \notin B
    BY <1>2 DEF Tree, IsRooted
  <2>2. d \in t.dirs /\ Len(t.kids[d]) \in Nat
    BY TreeTypes
  <2> DEFINE T == {i \in Nat : i <= Len(t.kids[d]) => <<d, i>> \in S}
  <2>3. 0 \in T
    <3>1. <<d, 0>> \in PlacesOf(t)
      BY <2>2, PlaceOf
    <3>2. Needs(t, pr, <<d, 0>>) = {}
      BY DEF Needs
    <3>3. QED
      BY <3>1, <3>2
  <2>4. ASSUME NEW i \in Nat, i \in T PROVE i + 1 \in T
    <3>1. SUFFICES ASSUME i + 1 <= Len(t.kids[d]) PROVE <<d, i + 1>> \in S
      OBVIOUS
    <3>2. /\ <<d, i>> \in S /\ i + 1 \in 1 .. Len(t.kids[d]) /\ i + 1 \in 0 .. Len(t.kids[d])
          /\ i + 1 # 0 /\ (i + 1) - 1 = i
      BY <2>2, <2>4, <3>1
    <3>3. PICK n : n = t.kids[d][i + 1]
      OBVIOUS
    <3>4. n \in t.dirs => <<n, Len(t.kids[n])>> \in S
      <4>1. n \notin B
        BY <2>1, <3>2, <3>3
      <4>2. n \in t.dirs => Len(t.kids[n]) \in 0 .. Len(t.kids[n])
        BY TreeTypes
      <4>3. QED
        BY <4>1, <4>2
    <3> DEFINE p == <<d, i + 1>>
    <3>5. p[1] = d /\ p[2] = i + 1
      OBVIOUS
    <3>6. p \in PlacesOf(t)
      BY <2>2, <3>2, PlaceOf
    <3>7. Needs(t, pr, p) \subseteq S
      <4> HIDE DEF p
      <4>1. QED
        BY <3>2, <3>3, <3>4, <3>5 DEF Needs
    <3>8. QED
      BY <3>6, <3>7
  <2> HIDE DEF T
  <2>5. Nat \subseteq T
    BY <2>3, <2>4, Induct
  <2>6. \A i \in 0 .. Len(t.kids[d]) : <<d, i>> \in S
    BY <2>2, <2>5 DEF T
  <2>7. QED
    BY <2>6
<1>3. QED
  BY <1>1, <1>2

\* What a place has depends only on what the places it needs have.
LEMMA WalkAtSame ==
    ASSUME NEW t, NEW pr, NEW p, NEW v, NEW w, \A q \in Needs(t, pr, p) : v[q] = w[q]
    PROVE  WalkAt(v, t, pr, p) = WalkAt(w, t, pr, p)
<1>1. CASE p[2] = 0
  BY <1>1 DEF WalkAt
<1>2. CASE p[2] # 0
  <2>1. v[<<p[1], p[2] - 1>>] = w[<<p[1], p[2] - 1>>]
    BY <1>2 DEF Needs
  <2>2. CASE t.kids[p[1]][p[2]] \in t.dirs \ pr
    <3>1. v[<<t.kids[p[1]][p[2]], Len(t.kids[t.kids[p[1]][p[2]]])>>]
            = w[<<t.kids[p[1]][p[2]], Len(t.kids[t.kids[p[1]][p[2]]])>>]
      BY <1>2, <2>2 DEF Needs
    <3>2. QED
      BY <2>1, <3>1, Zenon DEF WalkAt
  <2>3. CASE ~ (t.kids[p[1]][p[2]] \in t.dirs \ pr)
    BY <2>1, <2>3, Zenon DEF WalkAt
  <2>4. QED
    BY <2>2, <2>3
<1>3. QED
  BY <1>1, <1>2

\* w is the walk as far as the places of Q.
WalkIn(w, Q, t, pr) ==
    /\ Q \subseteq PlacesOf(t)
    /\ \A p \in Q : Needs(t, pr, p) \subseteq Q
    /\ w = [p \in Q |-> WalkAt(w, t, pr, p)]

LEMMA WalksAgree ==
    ASSUME NEW t, Tree(t), NEW pr, NEW v, NEW w, NEW Q, NEW R,
           WalkIn(v, Q, t, pr), WalkIn(w, R, t, pr), NEW p \in Q, p \in R
    PROVE  v[p] = w[p]
<1> DEFINE S == {q \in PlacesOf(t) : q \in Q /\ q \in R => v[q] = w[q]}
<1>1. ASSUME NEW q \in PlacesOf(t), Needs(t, pr, q) \subseteq S PROVE q \in S
  <2>1. SUFFICES ASSUME q \in Q, q \in R PROVE v[q] = w[q]
    OBVIOUS
  <2>2. \A x \in Needs(t, pr, q) : v[x] = w[x]
    BY <1>1, <2>1 DEF WalkIn
  <2>3. WalkAt(v, t, pr, q) = WalkAt(w, t, pr, q)
    BY <2>2, WalkAtSame
  <2>4. v[q] = WalkAt(v, t, pr, q) /\ w[q] = WalkAt(w, t, pr, q)
    BY <2>1, Zenon DEF WalkIn
  <2>5. QED
    BY <2>3, <2>4
<1> HIDE DEF S
<1>2. PlacesOf(t) \subseteq S
  BY <1>1, PlaceInduct
<1>3. p \in S
  BY <1>2 DEF WalkIn
<1>4. QED
  BY <1>3 DEF S

\* A tree has a walk.
LEMMA WalkExists ==
    ASSUME NEW t, Tree(t), NEW pr
    PROVE  \E w : WalkIn(w, PlacesOf(t), t, pr)
<1> DEFINE S == {p \in PlacesOf(t) : \E Q, w : WalkIn(w, Q, t, pr) /\ p \in Q}
           Pick(p) == CHOOSE w : \E Q : WalkIn(w, Q, t, pr) /\ p \in Q
           g == [p \in S |-> Pick(p)[p]]
<1>1. ASSUME NEW w, NEW Q, WalkIn(w, Q, t, pr), NEW p \in Q PROVE p \in S /\ g[p] = w[p]
  <2>1. p \in S
    BY <1>1 DEF WalkIn
  <2>2. \E R : WalkIn(Pick(p), R, t, pr) /\ p \in R
    <3>1. \E x : \E R : WalkIn(x, R, t, pr) /\ p \in R
      BY <1>1
    <3>2. QED
      BY <3>1, Zenon
  <2>3. PICK x, R : x = Pick(p) /\ WalkIn(x, R, t, pr) /\ p \in R
    BY <2>2
  <2>4. x[p] = w[p]
    BY <1>1, <2>3, WalksAgree
  <2>5. g[p] = x[p]
    BY <2>1, <2>3, Zenon
  <2>6. QED
    BY <2>1, <2>4, <2>5
<1>2. ASSUME NEW p \in S
      PROVE  Needs(t, pr, p) \subseteq S /\ g[p] = WalkAt(g, t, pr, p)
  <2>1. PICK Q, w : WalkIn(w, Q, t, pr) /\ p \in Q
    BY <1>2
  <2>2. Needs(t, pr, p) \subseteq Q
    BY <2>1 DEF WalkIn
  <2>3. \A q \in Q : q \in S /\ g[q] = w[q]
    BY <1>1, <2>1
  <2> HIDE DEF S, g
  <2>4. WalkAt(g, t, pr, p) = WalkAt(w, t, pr, p)
    <3>1. \A q \in Needs(t, pr, p) : g[q] = w[q]
      BY <2>2, <2>3
    <3>2. QED
      BY <3>1, WalkAtSame
  <2>5. w[p] = WalkAt(w, t, pr, p)
    BY <2>1, Zenon DEF WalkIn
  <2>6. QED
    BY <2>1, <2>2, <2>3, <2>4, <2>5
<1>3. ASSUME NEW p \in PlacesOf(t), Needs(t, pr, p) \subseteq S PROVE p \in S
  <2>1. SUFFICES ASSUME p \notin S PROVE FALSE
    OBVIOUS
  <2>2. p \notin Needs(t, pr, p)
    BY <1>3, <2>1
  <2> DEFINE Q == S \cup {p}
             h == [q \in Q |-> IF q \in S THEN g[q] ELSE WalkAt(g, t, pr, p)]
  <2>3. \A q \in S : h[q] = g[q] /\ q \in Q
    OBVIOUS
  <2>4. h[p] = WalkAt(g, t, pr, p)
    BY <2>1
  <2>5. ASSUME NEW q \in Q PROVE Needs(t, pr, q) \subseteq S /\ h[q] = WalkAt(h, t, pr, q)
    <3>1. Needs(t, pr, q) \subseteq S /\ h[q] = WalkAt(g, t, pr, q)
      BY <1>2, <1>3, <2>3, <2>4
    <3>2. \A x \in Needs(t, pr, q) : g[x] = h[x]
      BY <2>3, <3>1
    <3> HIDE DEF g, h, S
    <3>3. WalkAt(g, t, pr, q) = WalkAt(h, t, pr, q)
      BY <3>2, WalkAtSame
    <3>4. QED
      BY <3>1, <3>3
  <2>6. h = [q \in Q |-> WalkAt(h, t, pr, q)]
    <3>1. h = [q \in Q |-> h[q]]
      OBVIOUS
    <3> HIDE DEF h, Q
    <3>2. QED
      BY <2>5, <3>1, Zenon
  <2>7. WalkIn(h, Q, t, pr)
    <3>1. Q \subseteq PlacesOf(t)
      OBVIOUS
    <3> HIDE DEF h
    <3>2. QED
      BY <2>5, <2>6, <3>1 DEF WalkIn
  <2>8. QED
    <3>1. p \in Q
      OBVIOUS
    <3> HIDE DEF h, Q
    <3>2. \E R, w : WalkIn(w, R, t, pr) /\ p \in R
      BY <2>7, <3>1
    <3>3. QED
      BY <2>1, <3>2
<1>4. S \subseteq PlacesOf(t)
  OBVIOUS
<1>5. g = [p \in S |-> g[p]]
  OBVIOUS
<1> HIDE DEF S, g
<1>6. S = PlacesOf(t)
  BY <1>3, <1>4, PlaceInduct
<1>7. g = [p \in S |-> WalkAt(g, t, pr, p)]
  BY <1>2, <1>5, Zenon
<1>8. WalkIn(g, PlacesOf(t), t, pr)
  BY <1>2, <1>6, <1>7 DEF WalkIn
<1>9. QED
  BY <1>8

LEMMA WalkUnfold ==
    ASSUME NEW t, Tree(t), NEW pr, NEW p \in PlacesOf(t)
    PROVE  WalkOf(t, pr)[p] = WalkAt(WalkOf(t, pr), t, pr, p)
<1>1. \E w : w = [q \in PlacesOf(t) |-> WalkAt(w, t, pr, q)]
  BY WalkExists DEF WalkIn
<1>2. PICK v : v = WalkOf(t, pr)
  OBVIOUS
<1>3. v = [q \in PlacesOf(t) |-> WalkAt(v, t, pr, q)]
  BY <1>1, <1>2, Zenon DEF WalkOf
<1>4. v[p] = WalkAt(v, t, pr, p)
  BY <1>3, Zenon
<1>5. QED
  BY <1>2, <1>4

\* The items of the first i entries of d.
Upto(t, pr, d, i) == WalkOf(t, pr)[<<d, i>>]

\* All of d.
Whole(t, pr, d) == Upto(t, pr, d, Len(t.kids[d]))

\* The items of an entry n after its own, and with it.
Below(t, pr, n) == IF n \in t.dirs \ pr THEN Whole(t, pr, n) \o <<Leave(n)>> ELSE <<>>
EntryItems(t, pr, n) == <<Enter(n)>> \o Below(t, pr, n)

LEMMA Cat == \A s, t \in Seq(Items) : s \o t \in Seq(Items)
  BY ConcatProperties

LEMMA Assoc == \A s, t, u \in Seq(Items) : (s \o t) \o u = s \o (t \o u)
  BY ConcatAssociative

LEMMA CatEmpty == \A s \in Seq(Items) : s \o <<>> = s /\ <<>> \o s = s
  BY ConcatEmptySeq

LEMMA ItemType ==
    ASSUME NEW n \in Nodes
    PROVE  /\ Enter(n) \in Items /\ Leave(n) \in Items
           /\ <<Enter(n)>> \in Seq(Items) /\ <<Leave(n)>> \in Seq(Items)
           /\ Enter(n).node = n /\ Leave(n).node = n
<1>1. Enter(n) \in Items /\ Leave(n) \in Items /\ Enter(n).node = n /\ Leave(n).node = n
  BY DEF Enter, Leave, Items
<1>2. QED
  BY <1>1

LEMMA UptoZero ==
    ASSUME NEW t, Tree(t), NEW pr, NEW d \in t.dirs
    PROVE  Upto(t, pr, d, 0) = <<>>
<1>1. <<d, 0>> \in PlacesOf(t)
  BY TreeTypes, PlaceOf
<1>2. WalkAt(WalkOf(t, pr), t, pr, <<d, 0>>) = <<>>
  BY DEF WalkAt
<1>3. QED
  BY <1>1, <1>2, WalkUnfold DEF Upto

LEMMA UptoUnfold ==
    ASSUME NEW t, Tree(t), NEW pr, NEW d \in t.dirs, NEW i \in 1 .. Len(t.kids[d])
    PROVE  Upto(t, pr, d, i)
             = Upto(t, pr, d, i - 1) \o <<Enter(t.kids[d][i])>> \o Below(t, pr, t.kids[d][i])
<1> DEFINE p == <<d, i>>
<1>1. p[1] = d /\ p[2] = i /\ i # 0
  OBVIOUS
<1>2. p \in PlacesOf(t)
  BY TreeTypes, PlaceOf
<1>3. Upto(t, pr, d, i) = WalkAt(WalkOf(t, pr), t, pr, p)
  BY <1>2, WalkUnfold DEF Upto
<1> HIDE DEF p
<1>4. QED
  BY <1>1, <1>3 DEF WalkAt, Upto, Whole, Below

LEMMA PlaceSteps ==
    ASSUME NEW t, Tree(t), NEW d \in t.dirs, NEW i \in 1 .. Len(t.kids[d])
    PROVE  i \in Nat /\ i - 1 \in Nat /\ i - 1 \in 0 .. Len(t.kids[d]) /\ i \in 0 .. Len(t.kids[d])
           /\ i - 1 < i /\ (i - 1) + 1 = i
  BY TreeTypes

\* Every place has items.
LEMMA UptoType ==
    ASSUME NEW t, Tree(t), NEW pr, NEW d \in t.dirs, NEW i \in 0 .. Len(t.kids[d])
    PROVE  Upto(t, pr, d, i) \in Seq(Items)
<1> DEFINE S == {p \in PlacesOf(t) : WalkOf(t, pr)[p] \in Seq(Items)}
<1>1. ASSUME NEW p \in PlacesOf(t), Needs(t, pr, p) \subseteq S PROVE p \in S
  <2>1. PICK e, j : p = <<e, j>> /\ e \in t.dirs /\ j \in 0 .. Len(t.kids[e])
    BY PlaceIs
  <2>2. CASE j = 0
    <3>1. Upto(t, pr, e, 0) \in Seq(Items)
      <4>1. Upto(t, pr, e, 0) = <<>>
        BY <2>1, UptoZero
      <4>2. <<>> \in Seq(Items)
        OBVIOUS
      <4>3. QED
        BY <4>1, <4>2, Zenon
    <3>2. QED
      BY <2>1, <2>2, <3>1 DEF Upto
  <2>3. CASE j # 0
    <3>1. j \in 1 .. Len(t.kids[e])
      BY <2>1, <2>3, TreeTypes
    <3>2. PICK n \in Nodes : n = t.kids[e][j]
      BY <2>1, <3>1, TreeTypes
    <3>3. p[1] = e /\ p[2] = j
      BY <2>1
    <3>4. Upto(t, pr, e, j - 1) \in Seq(Items)
      BY <1>1, <2>3, <3>3 DEF Needs, Upto
    <3>5. n \in t.dirs \ pr => Whole(t, pr, n) \in Seq(Items)
      BY <1>1, <2>3, <3>2, <3>3 DEF Needs, Upto, Whole
    <3>6. Below(t, pr, n) \in Seq(Items)
      BY <3>5, Cat, ItemType, EmptySeq DEF Below
    <3>7. Upto(t, pr, e, j - 1) \o <<Enter(n)>> \in Seq(Items)
      BY <3>4, Cat, ItemType
    <3>8. Upto(t, pr, e, j) \in Seq(Items)
      <4>1. Upto(t, pr, e, j) = Upto(t, pr, e, j - 1) \o <<Enter(n)>> \o Below(t, pr, n)
        BY <2>1, <3>1, <3>2, UptoUnfold
      <4>2. QED
        BY <3>6, <3>7, <4>1, Cat, Zenon
    <3>9. QED
      BY <2>1, <3>8 DEF Upto
  <2>4. QED
    BY <2>2, <2>3
<1> HIDE DEF S
<1>2. PlacesOf(t) \subseteq S
  BY <1>1, PlaceInduct
<1>3. <<d, i>> \in S
  BY <1>2, PlaceOf
<1>4. QED
  BY <1>3 DEF S, Upto

LEMMA WholeType ==
    ASSUME NEW t, Tree(t), NEW pr, NEW d \in t.dirs
    PROVE  Whole(t, pr, d) \in Seq(Items)
<1>1. Len(t.kids[d]) \in 0 .. Len(t.kids[d])
  BY TreeTypes
<1>2. QED
  BY <1>1, UptoType DEF Whole

LEMMA EntryItemsType ==
    ASSUME NEW t, Tree(t), NEW pr, NEW n \in Nodes
    PROVE  EntryItems(t, pr, n) \in Seq(Items)
<1>1. Below(t, pr, n) \in Seq(Items)
  BY WholeType, Cat, ItemType, EmptySeq DEF Below
<1>2. QED
  BY <1>1, Cat, ItemType DEF EntryItems

\* One entry more.
LEMMA UptoNext ==
    ASSUME NEW t, Tree(t), NEW pr, NEW d \in t.dirs, NEW i \in 1 .. Len(t.kids[d])
    PROVE  Upto(t, pr, d, i) = Upto(t, pr, d, i - 1) \o EntryItems(t, pr, t.kids[d][i])
<1>1. PICK n \in Nodes : n = t.kids[d][i]
  BY TreeTypes
<1>2. Upto(t, pr, d, i - 1) \in Seq(Items)
  BY PlaceSteps, UptoType
<1>3. Below(t, pr, n) \in Seq(Items)
  BY WholeType, Cat, ItemType, EmptySeq DEF Below
<1>4. Upto(t, pr, d, i) = (Upto(t, pr, d, i - 1) \o <<Enter(n)>>) \o Below(t, pr, n)
  BY <1>1, UptoUnfold
<1>5. (Upto(t, pr, d, i - 1) \o <<Enter(n)>>) \o Below(t, pr, n)
         = Upto(t, pr, d, i - 1) \o (<<Enter(n)>> \o Below(t, pr, n))
  BY <1>2, <1>3, ItemType, Assoc
<1>6. QED
  BY <1>1, <1>4, <1>5 DEF EntryItems

\* The nodes of some items.
Shown(s) == {s[i].node : i \in 1 .. Len(s)}

LEMMA ShownCat == \A s, t \in Seq(Items) : Shown(s \o t) = Shown(s) \cup Shown(t)
<1>1. SUFFICES ASSUME NEW s \in Seq(Items), NEW t \in Seq(Items)
               PROVE  Shown(s \o t) = Shown(s) \cup Shown(t)
  OBVIOUS
<1>2. /\ Len(s) \in Nat /\ Len(t) \in Nat /\ Len(s \o t) = Len(s) + Len(t)
      /\ \A i \in 1 .. Len(s) + Len(t) :
            (s \o t)[i] = IF i <= Len(s) THEN s[i] ELSE t[i - Len(s)]
  BY ConcatProperties
<1>3. ASSUME NEW n, n \in Shown(s \o t) PROVE n \in Shown(s) \cup Shown(t)
  <2>1. PICK i \in 1 .. Len(s) + Len(t) : n = (s \o t)[i].node
    BY <1>2, <1>3 DEF Shown
  <2>2. CASE i <= Len(s)
    BY <1>2, <2>1, <2>2 DEF Shown
  <2>3. CASE ~ (i <= Len(s))
    <3>1. i - Len(s) \in 1 .. Len(t)
      BY <1>2, <2>1, <2>3
    <3>2. n = t[i - Len(s)].node
      BY <1>2, <2>1, <2>3
    <3>3. QED
      BY <3>1, <3>2 DEF Shown
  <2>4. QED
    BY <2>2, <2>3
<1>4. ASSUME NEW n, n \in Shown(s) PROVE n \in Shown(s \o t)
  <2>1. PICK i \in 1 .. Len(s) : n = s[i].node
    BY <1>4 DEF Shown
  <2>2. i \in 1 .. Len(s) + Len(t) /\ i <= Len(s)
    BY <1>2, <2>1
  <2>3. (s \o t)[i] = s[i]
    BY <1>2, <2>2
  <2>4. QED
    BY <1>2, <2>1, <2>2, <2>3 DEF Shown
<1>5. ASSUME NEW n, n \in Shown(t) PROVE n \in Shown(s \o t)
  <2>1. PICK i \in 1 .. Len(t) : n = t[i].node
    BY <1>5 DEF Shown
  <2>2. PICK k : k = Len(s) + i
    OBVIOUS
  <2>3. k \in 1 .. Len(s) + Len(t) /\ ~ (k <= Len(s)) /\ k - Len(s) = i
    BY <1>2, <2>1, <2>2
  <2>4. (s \o t)[k] = t[i]
    BY <1>2, <2>3
  <2>5. QED
    BY <1>2, <2>1, <2>3, <2>4 DEF Shown
<1>6. QED
  BY <1>3, <1>4, <1>5

LEMMA ShownOne ==
    ASSUME NEW n \in Nodes
    PROVE  /\ Shown(<<>>) = {} /\ Shown(<<Enter(n)>>) = {n} /\ Shown(<<Leave(n)>>) = {n}
<1>1. \A x : Len(<<x>>) = 1 /\ <<x>>[1] = x
  OBVIOUS
<1>2. 1 .. 1 = {1} /\ 1 .. 0 = {} /\ Len(<<>>) = 0
  OBVIOUS
<1>3. \A x : Shown(<<x>>) = {x.node}
  BY <1>1, <1>2 DEF Shown
<1>4. Shown(<<>>) = {}
  BY <1>2 DEF Shown
<1>5. QED
  BY <1>3, <1>4, ItemType

\* T has all that is below its members.
Closed(t, T) == \A d \in t.dirs : d \in T => \A i \in 1 .. Len(t.kids[d]) : t.kids[d][i] \in T

\* The first i entries of d are in T.
Inside(t, d, i, T) == \A j \in 1 .. i : t.kids[d][j] \in T

\* What is pruned in T is the same.
SameIn(T, pr, qr) == \A n \in T : n \in pr <=> n \in qr

(* The walk of entries inside T stays in T, and depends only on what is    *)
(* pruned there.                                                           *)
LEMMA UptoInside ==
    ASSUME NEW t, Tree(t), NEW pr, NEW qr, NEW T, Closed(t, T),
           SameIn(T, pr, qr), NEW d \in t.dirs, NEW i \in 0 .. Len(t.kids[d]),
           Inside(t, d, i, T)
    PROVE  Upto(t, pr, d, i) = Upto(t, qr, d, i) /\ Shown(Upto(t, pr, d, i)) \subseteq T
<1> DEFINE Good(e, j) == Inside(t, e, j, T) =>
                           /\ Upto(t, pr, e, j) = Upto(t, qr, e, j)
                           /\ Shown(Upto(t, pr, e, j)) \subseteq T
           S == {p \in PlacesOf(t) : Good(p[1], p[2])}
<1>1. ASSUME NEW p \in PlacesOf(t), Needs(t, pr, p) \subseteq S PROVE p \in S
  <2>1. PICK e, j : p = <<e, j>> /\ e \in t.dirs /\ j \in 0 .. Len(t.kids[e])
    BY PlaceIs
  <2>2. p[1] = e /\ p[2] = j
    BY <2>1
  <2>3. SUFFICES ASSUME Inside(t, e, j, T)
                 PROVE  /\ Upto(t, pr, e, j) = Upto(t, qr, e, j)
                        /\ Shown(Upto(t, pr, e, j)) \subseteq T
    BY <2>2
  <2>4. CASE j = 0
    <3>1. Upto(t, pr, e, 0) = <<>> /\ Upto(t, qr, e, 0) = <<>>
      BY <2>1, UptoZero
    <3>2. Shown(<<>>) = {}
      BY DEF Shown
    <3>3. QED
      BY <2>4, <3>1, <3>2
  <2>5. CASE j # 0
    <3>1. j \in 1 .. Len(t.kids[e])
      BY <2>1, <2>5, TreeTypes
    <3>2. PICK n \in Nodes : n = t.kids[e][j]
      BY <2>1, <3>1, TreeTypes
    <3>3. /\ j \in Nat /\ j - 1 \in Nat /\ j \in 1 .. j /\ j - 1 \in 0 .. Len(t.kids[e])
          /\ \A m \in 1 .. j - 1 : m \in 1 .. j
      BY <2>1, <3>1, PlaceSteps
    <3>4. n \in T
      BY <2>3, <3>2, <3>3 DEF Inside
    <3>5. <<e, j - 1>> \in S
      BY <1>1, <2>2, <2>5 DEF Needs
    <3>6. /\ Upto(t, pr, e, j - 1) = Upto(t, qr, e, j - 1)
          /\ Shown(Upto(t, pr, e, j - 1)) \subseteq T
      <4>1. Good(e, j - 1)
        BY <3>5
      <4>2. Inside(t, e, j - 1, T)
        BY <2>3, <3>3 DEF Inside
      <4>3. QED
        BY <4>1, <4>2
    <3>7. Below(t, pr, n) = Below(t, qr, n) /\ Shown(Below(t, pr, n)) \subseteq T
      <4>1. CASE n \in t.dirs \ pr
        <5>1. n \in t.dirs \ qr
          BY <3>4, <4>1 DEF SameIn
        <5>2. <<n, Len(t.kids[n])>> \in S
          BY <1>1, <2>2, <2>5, <3>2, <4>1 DEF Needs
        <5>3. Inside(t, n, Len(t.kids[n]), T)
          BY <3>4, <4>1 DEF Closed, Inside
        <5>4. Whole(t, pr, n) = Whole(t, qr, n) /\ Shown(Whole(t, pr, n)) \subseteq T
          <6>1. Good(n, Len(t.kids[n]))
            BY <5>2
          <6>2. QED
            BY <5>3, <6>1 DEF Whole
        <5>5. Shown(Whole(t, pr, n) \o <<Leave(n)>>) \subseteq T
          <6>1. Whole(t, pr, n) \in Seq(Items) /\ <<Leave(n)>> \in Seq(Items)
            BY <4>1, WholeType, ItemType
          <6>2. Shown(Whole(t, pr, n) \o <<Leave(n)>>)
                  = Shown(Whole(t, pr, n)) \cup Shown(<<Leave(n)>>)
            BY <6>1, ShownCat, Zenon
          <6>3. Shown(<<Leave(n)>>) = {n}
            BY ShownOne
          <6>4. QED
            BY <3>4, <5>4, <6>2, <6>3
        <5>6. QED
          BY <4>1, <5>1, <5>4, <5>5 DEF Below
      <4>2. CASE n \notin t.dirs \ pr
        <5>1. n \notin t.dirs \ qr
          BY <3>4, <4>2 DEF SameIn
        <5>2. QED
          BY <4>2, <5>1, ShownOne DEF Below
      <4>3. QED
        BY <4>1, <4>2
    <3>8. /\ Upto(t, pr, e, j) = Upto(t, pr, e, j - 1) \o EntryItems(t, pr, n)
          /\ Upto(t, qr, e, j) = Upto(t, qr, e, j - 1) \o EntryItems(t, qr, n)
      BY <2>1, <3>1, <3>2, UptoNext
    <3>9. EntryItems(t, pr, n) = EntryItems(t, qr, n) /\ Shown(EntryItems(t, pr, n)) \subseteq T
      <4>1. Below(t, pr, n) \in Seq(Items) /\ <<Enter(n)>> \in Seq(Items)
        BY WholeType, Cat, ItemType, EmptySeq DEF Below
      <4>2. Shown(<<Enter(n)>> \o Below(t, pr, n)) \subseteq T
        BY <3>4, <3>7, <4>1, ShownCat, ShownOne
      <4>3. QED
        BY <3>7, <4>2 DEF EntryItems
    <3>10. Upto(t, pr, e, j - 1) \in Seq(Items) /\ EntryItems(t, pr, n) \in Seq(Items)
      BY <2>1, <3>3, UptoType, EntryItemsType
    <3>11. Shown(Upto(t, pr, e, j)) = Shown(Upto(t, pr, e, j - 1)) \cup Shown(EntryItems(t, pr, n))
      BY <3>8, <3>10, ShownCat
    <3>12. QED
      BY <3>6, <3>8, <3>9, <3>11
  <2>6. QED
    BY <2>4, <2>5
<1> HIDE DEF S
<1>2. PlacesOf(t) \subseteq S
  BY <1>1, PlaceInduct
<1>3. <<d, i>> \in S
  BY <1>2, PlaceOf
<1>4. Good(d, i)
  BY <1>3 DEF S
<1>5. QED
  BY <1>4

\* t goes on from s.
Starts(s, t) == \E r \in Seq(Items) : t = s \o r

LEMMA StartsTrans ==
    ASSUME NEW s \in Seq(Items), NEW t, NEW u, Starts(s, t), Starts(t, u)
    PROVE  Starts(s, u)
<1>1. PICK q \in Seq(Items) : t = s \o q
  BY DEF Starts
<1>2. PICK r \in Seq(Items) : u = t \o r
  BY DEF Starts
<1>3. u = s \o (q \o r) /\ q \o r \in Seq(Items)
  BY <1>1, <1>2, Assoc, Cat
<1>4. QED
  BY <1>3 DEF Starts

LEMMA StartsSelf == ASSUME NEW s \in Seq(Items) PROVE Starts(s, s)
<1>1. s = s \o <<>> /\ <<>> \in Seq(Items)
  BY CatEmpty, EmptySeq
<1>2. QED
  BY <1>1 DEF Starts

LEMMA StartsAfter ==
    ASSUME NEW u \in Seq(Items), NEW s \in Seq(Items), NEW t, Starts(s, t)
    PROVE  Starts(u \o s, u \o t)
<1>1. PICK r \in Seq(Items) : t = s \o r
  BY DEF Starts
<1>2. u \o t = (u \o s) \o r
  BY <1>1, Assoc
<1>3. QED
  BY <1>2 DEF Starts

LEMMA StartsPrefix ==
    ASSUME NEW s \in Seq(Items), NEW t \in Seq(Items), Starts(s, t)
    PROVE  IsPrefix(s, t)
<1>1. PICK r \in Seq(Items) : t = s \o r
  BY DEF Starts
<1>2. Len(s) \in Nat /\ Len(t) = Len(s) + Len(r) /\ Len(r) \in Nat
  BY <1>1, ConcatProperties
<1>3. \A i \in 1 .. Len(s) : i \in 1 .. Len(t) /\ t[i] = s[i]
  BY <1>1, <1>2
<1>4. /\ SubSeq(s, 1, Len(s)) \in Seq(Items) /\ SubSeq(t, 1, Len(s)) \in Seq(Items)
      /\ Len(SubSeq(s, 1, Len(s))) = Len(s) /\ Len(SubSeq(t, 1, Len(s))) = Len(s)
      /\ \A i \in 1 .. Len(s) : SubSeq(s, 1, Len(s))[i] = s[i] /\ SubSeq(t, 1, Len(s))[i] = t[i]
  BY <1>2, <1>3
<1>5. SubSeq(s, 1, Len(s)) = SubSeq(t, 1, Len(s))
  BY <1>3, <1>4, SeqEqual
<1>6. QED
  BY <1>2, <1>5 DEF IsPrefix

\* A directory's items go on from those of its first entries.
LEMMA UptoStarts ==
    ASSUME NEW t, Tree(t), NEW pr, NEW d \in t.dirs, NEW i \in 0 .. Len(t.kids[d])
    PROVE  Starts(Upto(t, pr, d, i), Whole(t, pr, d))
<1>0. Len(t.kids[d]) \in Nat
  BY TreeTypes
<1> DEFINE S == {k \in Nat : i + k <= Len(t.kids[d])
                                => Starts(Upto(t, pr, d, i), Upto(t, pr, d, i + k))}
<1>1. 0 \in S
  <2>1. Starts(Upto(t, pr, d, i), Upto(t, pr, d, i)) /\ i + 0 = i
    BY <1>0, UptoType, StartsSelf
  <2>2. QED
    BY <2>1
<1>2. ASSUME NEW k \in Nat, k \in S PROVE k + 1 \in S
  <2>1. SUFFICES ASSUME i + (k + 1) <= Len(t.kids[d])
                 PROVE  Starts(Upto(t, pr, d, i), Upto(t, pr, d, i + (k + 1)))
    OBVIOUS
  <2>2. PICK j : j = i + (k + 1)
    OBVIOUS
  <2>3. j \in 1 .. Len(t.kids[d]) /\ j - 1 = i + k /\ i + k <= Len(t.kids[d])
    BY <1>0, <2>1, <2>2
  <2>4. Starts(Upto(t, pr, d, i), Upto(t, pr, d, j - 1))
    BY <1>2, <2>3
  <2>5. Upto(t, pr, d, j) = Upto(t, pr, d, j - 1) \o EntryItems(t, pr, t.kids[d][j])
        /\ EntryItems(t, pr, t.kids[d][j]) \in Seq(Items)
    BY <2>3, UptoNext, EntryItemsType, TreeTypes
  <2>6. Starts(Upto(t, pr, d, j - 1), Upto(t, pr, d, j))
    BY <2>5 DEF Starts
  <2>7. Upto(t, pr, d, i) \in Seq(Items)
    BY UptoType
  <2>8. QED
    BY <2>2, <2>4, <2>6, <2>7, StartsTrans
<1> HIDE DEF S
<1>3. Nat \subseteq S
  BY <1>1, <1>2, Induct
<1>4. PICK k \in Nat : i + k = Len(t.kids[d])
  <2>1. Len(t.kids[d]) - i \in Nat /\ i + (Len(t.kids[d]) - i) = Len(t.kids[d])
    BY <1>0
  <2>2. QED
    BY <2>1
<1>5. k \in S
  BY <1>3
<1>6. QED
  BY <1>0, <1>4, <1>5 DEF S, Whole

-----------------------------------------------------------------------------
(***************************************************************************)
(* The levels of a traversal in its tree.                                  *)
(***************************************************************************)
(* Each level's directory is the entry that the level above it has taken   *)
(* last, and was not pruned; no directory is on the stack twice.           *)
Line(t, pr, s) ==
    /\ Len(s) \in Nat
    /\ \A k \in 1 .. Len(s) : /\ s[k].node \in t.dirs
                              /\ s[k].at \in 0 .. Len(t.kids[s[k].node])
    /\ Len(s) >= 1 => s[1].node = Root
    /\ \A k \in 2 .. Len(s) : /\ s[k - 1].at >= 1
                              /\ s[k].node = t.kids[s[k - 1].node][s[k - 1].at]
                              /\ s[k].node \notin pr
    /\ \A j, k \in 1 .. Len(s) : s[j].node = s[k].node => j = k

\* e is the entry that the innermost level has taken last.
Taken(t, s, e) ==
    /\ Len(s) >= 1 /\ s[Len(s)].at >= 1
    /\ e = t.kids[s[Len(s)].node][s[Len(s)].at]

\* What is not on the way to e.
Off(s, e) == {n \in Nodes : n # e /\ \A k \in 1 .. Len(s) : s[k].node # n}

\* An entry is in one place only.
LEMMA OnePlace ==
    ASSUME NEW t, Tree(t), NEW d \in t.dirs, NEW e \in t.dirs,
           NEW i \in 1 .. Len(t.kids[d]), NEW j \in 1 .. Len(t.kids[e]),
           t.kids[d][i] = t.kids[e][j]
    PROVE  d = e /\ i = j
  BY DEF Tree, IsRooted

LEMMA LineTypes ==
    ASSUME NEW t, Tree(t), NEW pr, NEW s, Line(t, pr, s), NEW k \in 1 .. Len(s)
    PROVE  /\ s[k].node \in t.dirs /\ s[k].node \in Nodes /\ s[k].at \in Nat
           /\ Len(t.kids[s[k].node]) \in Nat /\ s[k].at <= Len(t.kids[s[k].node])
           /\ s[k].at >= 1 => s[k].at \in 1 .. Len(t.kids[s[k].node])
           /\ s[k].at >= 1 => s[k].at - 1 \in 0 .. Len(t.kids[s[k].node])
           /\ k >= 2 => /\ k - 1 \in 1 .. Len(s) /\ k \in 2 .. Len(s)
                        /\ s[k - 1].at \in 1 .. Len(t.kids[s[k - 1].node])
                        /\ s[k].node = t.kids[s[k - 1].node][s[k - 1].at]
                        /\ s[k].node \notin pr
           /\ ~ (k >= 2) => s[k].node = Root
<1>1. s[k].node \in t.dirs /\ s[k].at \in 0 .. Len(t.kids[s[k].node]) /\ Len(s) \in Nat
  BY DEF Line
<1>2. s[k].node \in Nodes /\ Len(t.kids[s[k].node]) \in Nat
  BY <1>1, TreeTypes
<1>3. ASSUME k >= 2
      PROVE  /\ k - 1 \in 1 .. Len(s) /\ k \in 2 .. Len(s)
             /\ s[k - 1].at \in 1 .. Len(t.kids[s[k - 1].node])
             /\ s[k].node = t.kids[s[k - 1].node][s[k - 1].at]
             /\ s[k].node \notin pr
  <2>1. k - 1 \in 1 .. Len(s) /\ k \in 2 .. Len(s)
    BY <1>1, <1>3
  <2>2. s[k - 1].node \in t.dirs /\ s[k - 1].at \in 0 .. Len(t.kids[s[k - 1].node])
    BY <2>1 DEF Line
  <2>3. Len(t.kids[s[k - 1].node]) \in Nat
    BY <2>2, TreeTypes
  <2>4. /\ s[k - 1].at >= 1 /\ s[k].node = t.kids[s[k - 1].node][s[k - 1].at]
        /\ s[k].node \notin pr
    BY <2>1 DEF Line
  <2>5. QED
    BY <2>1, <2>2, <2>3, <2>4
<1>4. ~ (k >= 2) => s[k].node = Root
  BY <1>1 DEF Line
<1>5. QED
  BY <1>1, <1>2, <1>3, <1>4

\* The entry taken last is new, and what else was taken is off the way to it.
LEMMA TakenOff ==
    ASSUME NEW t, Tree(t), NEW pr, NEW s, Line(t, pr, s), NEW e, Taken(t, s, e)
    PROVE  /\ e \in Nodes /\ e # Root /\ e \notin Off(s, e)
           /\ \A k \in 1 .. Len(s) : s[k].node # e
           /\ Closed(t, Off(s, e))
           /\ \A k \in 1 .. Len(s) : \A j \in 1 .. s[k].at - 1 :
                 t.kids[s[k].node][j] \in Off(s, e)
<1>1. PICK l \in 1 .. Len(s) : l = Len(s)
  BY DEF Line, Taken
<1>2. /\ s[l].node \in t.dirs /\ s[l].at \in 1 .. Len(t.kids[s[l].node])
      /\ e = t.kids[s[l].node][s[l].at]
  BY <1>1, LineTypes DEF Taken
<1>3. e \in Nodes /\ e # Root
  BY <1>2, TreeTypes
\* What is listed in d and is on the way has d on the way before it.
<1>4. ASSUME NEW d \in t.dirs, NEW i \in 1 .. Len(t.kids[d]), t.kids[d][i] \notin Off(s, e)
      PROVE  \E k \in 1 .. Len(s) : d = s[k].node /\ i = s[k].at
  <2>1. t.kids[d][i] \in Nodes \ {Root}
    BY TreeTypes
  <2>2. CASE t.kids[d][i] = e
    <3>1. d = s[l].node /\ i = s[l].at
      BY <1>2, <2>2, OnePlace
    <3>2. QED
      BY <2>2, <3>1
  <2>3. CASE t.kids[d][i] # e
    <3>1. PICK m \in 1 .. Len(s) : s[m].node = t.kids[d][i]
      BY <1>4, <2>1, <2>3 DEF Off
    <3>2. m >= 2
      BY <2>1, <3>1, LineTypes
    <3>3. PICK k \in 1 .. Len(s) : k = m - 1 /\ m = k + 1
      BY <3>2, LineTypes
    <3>4. s[k].node \in t.dirs /\ s[k].at \in 1 .. Len(t.kids[s[k].node])
          /\ s[m].node = t.kids[s[k].node][s[k].at]
      BY <3>2, <3>3, LineTypes
    <3>5. d = s[k].node /\ i = s[k].at
      <4>1. PICK f, j : f = s[k].node /\ j = s[k].at /\ f \in t.dirs /\ j \in 1 .. Len(t.kids[f])
        BY <3>4
      <4>2. t.kids[d][i] = t.kids[f][j]
        BY <3>1, <3>4, <4>1
      <4>3. QED
        BY <4>1, <4>2, OnePlace
    <3>6. QED
      BY <3>1, <3>3, <3>5
  <2>4. QED
    BY <2>2, <2>3
<1>5. ASSUME NEW k \in 1 .. Len(s) PROVE s[k].node # e
  <2>1. SUFFICES ASSUME s[k].node = e PROVE FALSE
    OBVIOUS
  <2>2. k >= 2
    BY <1>3, <2>1, LineTypes
  <2>3. PICK m \in 1 .. Len(s) : m = k - 1
    BY <2>2, LineTypes
  <2>4. s[m].node \in t.dirs /\ s[m].at \in 1 .. Len(t.kids[s[m].node])
        /\ s[k].node = t.kids[s[m].node][s[m].at]
    BY <2>2, <2>3, LineTypes
  <2>5. s[m].node = s[l].node
    <3>1. PICK f, j : f = s[m].node /\ j = s[m].at /\ f \in t.dirs /\ j \in 1 .. Len(t.kids[f])
      BY <2>4
    <3>2. PICK g, i : g = s[l].node /\ i = s[l].at /\ g \in t.dirs /\ i \in 1 .. Len(t.kids[g])
      BY <1>2
    <3>3. t.kids[f][j] = t.kids[g][i]
      BY <1>2, <2>1, <2>4, <3>1, <3>2
    <3>4. QED
      BY <3>1, <3>2, <3>3, OnePlace
  <2>6. m = l
    BY <2>5 DEF Line
  <2>7. QED
    BY <1>1, <2>3, <2>6 DEF Line
<1>6. Closed(t, Off(s, e))
  <2>1. SUFFICES ASSUME NEW d \in t.dirs, d \in Off(s, e), NEW i \in 1 .. Len(t.kids[d]),
                        t.kids[d][i] \notin Off(s, e)
                 PROVE  FALSE
    BY DEF Closed
  <2>2. \E k \in 1 .. Len(s) : d = s[k].node
    BY <1>4, <2>1
  <2>3. QED
    BY <2>1, <2>2 DEF Off
<1>7. ASSUME NEW k \in 1 .. Len(s), NEW j \in 1 .. s[k].at - 1
      PROVE  t.kids[s[k].node][j] \in Off(s, e)
  <2>1. s[k].node \in t.dirs /\ s[k].at \in Nat /\ s[k].at <= Len(t.kids[s[k].node])
        /\ Len(t.kids[s[k].node]) \in Nat
    BY LineTypes
  <2>2. j \in 1 .. Len(t.kids[s[k].node]) /\ j # s[k].at
    BY <2>1
  <2>3. SUFFICES ASSUME t.kids[s[k].node][j] \notin Off(s, e) PROVE FALSE
    OBVIOUS
  <2>4. PICK m \in 1 .. Len(s) : s[k].node = s[m].node /\ j = s[m].at
    <3>1. PICK d \in t.dirs : d = s[k].node
      BY <2>1
    <3>2. \E m \in 1 .. Len(s) : d = s[m].node /\ j = s[m].at
      BY <1>4, <2>2, <2>3, <3>1
    <3>3. QED
      BY <3>1, <3>2
  <2>5. m = k
    BY <2>4 DEF Line
  <2>6. QED
    BY <2>2, <2>4, <2>5
<1>8. e \notin Off(s, e)
  BY DEF Off
<1>9. QED
  BY <1>3, <1>5, <1>6, <1>7, <1>8

(* b[k] are the items given before the first entry of level k was taken:   *)
(* those of the level above up to its directory, and the directory itself. *)
Begins(t, pr, s, b) ==
    /\ b \in [1 .. Len(s) -> Seq(Items)]
    /\ Len(s) >= 1 => b[1] = <<>>
    /\ \A k \in 2 .. Len(s) :
          b[k] = b[k - 1] \o Upto(t, pr, s[k - 1].node, s[k - 1].at - 1) \o <<Enter(s[k].node)>>

LEMMA BeginsUpto ==
    ASSUME NEW t, Tree(t), NEW pr, NEW s, Line(t, pr, s), NEW k \in 2 .. Len(s)
    PROVE  Upto(t, pr, s[k - 1].node, s[k - 1].at - 1) \in Seq(Items)
<1>1. k \in 1 .. Len(s) /\ k >= 2
  BY DEF Line
<1>2. k - 1 \in 1 .. Len(s) /\ s[k - 1].at >= 1
  BY <1>1, LineTypes DEF Line
<1>3. s[k - 1].node \in t.dirs /\ s[k - 1].at - 1 \in 0 .. Len(t.kids[s[k - 1].node])
  BY <1>2, LineTypes
<1>4. QED
  BY <1>3, UptoType

\* The entry taken last has not been given before.
LEMMA BeginsNew ==
    ASSUME NEW t, Tree(t), NEW pr, NEW s, Line(t, pr, s), NEW b, Begins(t, pr, s, b),
           NEW e, Taken(t, s, e)
    PROVE  e \notin Shown(b[Len(s)] \o Upto(t, pr, s[Len(s)].node, s[Len(s)].at - 1))
<1>0. /\ Len(s) \in Nat /\ Len(s) >= 1 /\ Len(s) \in 1 .. Len(s) /\ s[Len(s)].at >= 1
  BY DEF Line, Taken
<1>1. ASSUME NEW k \in 1 .. Len(s), s[k].at >= 1
      PROVE  /\ e \notin Shown(Upto(t, pr, s[k].node, s[k].at - 1))
             /\ Upto(t, pr, s[k].node, s[k].at - 1) \in Seq(Items)
  <2>1. s[k].node \in t.dirs /\ s[k].at - 1 \in 0 .. Len(t.kids[s[k].node])
    BY <1>1, LineTypes
  <2>2. PICK d \in t.dirs, i \in Nat : d = s[k].node /\ i = s[k].at - 1
    BY <1>1, <2>1, LineTypes
  <2>3. /\ i \in 0 .. Len(t.kids[d]) /\ Inside(t, d, i, Off(s, e))
        /\ SameIn(Off(s, e), pr, pr) /\ Closed(t, Off(s, e))
    BY <2>1, <2>2, TakenOff DEF Inside, SameIn
  <2>4. Shown(Upto(t, pr, d, i)) \subseteq Off(s, e)
    BY <2>3, UptoInside
  <2>5. QED
    BY <2>1, <2>2, <2>4, TakenOff, UptoType
<1> DEFINE S == {k \in Nat : k + 1 <= Len(s) => e \notin Shown(b[k + 1])}
<1>2. 0 \in S
  <2>1. b[0 + 1] = <<>>
    BY <1>0 DEF Begins
  <2>2. QED
    BY <2>1, TakenOff, ShownOne
<1>3. ASSUME NEW k \in Nat, k \in S PROVE k + 1 \in S
  <2>1. SUFFICES ASSUME (k + 1) + 1 <= Len(s) PROVE e \notin Shown(b[(k + 1) + 1])
    OBVIOUS
  <2>2. PICK m : m = (k + 1) + 1
    OBVIOUS
  <2>3. /\ m \in 2 .. Len(s) /\ m \in 1 .. Len(s) /\ m >= 2 /\ m - 1 = k + 1
        /\ m - 1 \in 1 .. Len(s) /\ k + 1 <= Len(s)
    BY <1>0, <2>1, <2>2
  <2>4. b[m] = b[m - 1] \o Upto(t, pr, s[m - 1].node, s[m - 1].at - 1) \o <<Enter(s[m].node)>>
    BY <2>3 DEF Begins
  <2>5. b[m - 1] \in Seq(Items) /\ e \notin Shown(b[m - 1])
    BY <1>3, <2>3 DEF Begins
  <2>6. PICK u \in Seq(Items) :
           u = Upto(t, pr, s[m - 1].node, s[m - 1].at - 1) /\ e \notin Shown(u)
    <3>1. s[m - 1].at >= 1
      BY <2>3 DEF Line
    <3>2. QED
      BY <1>1, <2>3, <3>1
  <2>7. PICK n \in Nodes : n = s[m].node /\ n # e
    BY <2>3, LineTypes, TakenOff
  <2>8. /\ b[m - 1] \o u \in Seq(Items) /\ <<Enter(n)>> \in Seq(Items)
        /\ Shown(b[m - 1] \o u) = Shown(b[m - 1]) \cup Shown(u)
    BY <2>5, <2>6, Cat, ItemType, ShownCat
  <2>9. Shown((b[m - 1] \o u) \o <<Enter(n)>>) = Shown(b[m - 1] \o u) \cup Shown(<<Enter(n)>>)
    BY <2>8, ShownCat, Zenon
  <2>10. Shown(<<Enter(n)>>) = {n}
    BY ShownOne
  <2>11. b[m] = (b[m - 1] \o u) \o <<Enter(n)>>
    BY <2>4, <2>6, <2>7
  <2>12. e \notin Shown(b[m])
    BY <2>5, <2>6, <2>7, <2>8, <2>9, <2>10, <2>11
  <2>13. QED
    BY <2>2, <2>12
<1> HIDE DEF S
<1>4. Nat \subseteq S
  BY <1>2, <1>3, Induct
<1>5. e \notin Shown(b[Len(s)])
  <2>1. PICK k \in Nat : k + 1 = Len(s)
    <3>1. Len(s) - 1 \in Nat /\ (Len(s) - 1) + 1 = Len(s)
      BY <1>0
    <3>2. QED
      BY <3>1
  <2>2. k \in S /\ k + 1 <= Len(s)
    BY <1>0, <1>4, <2>1
  <2>3. QED
    BY <2>1, <2>2 DEF S
<1>6. b[Len(s)] \in Seq(Items)
  BY <1>0 DEF Begins
<1>7. QED
  BY <1>0, <1>1, <1>5, <1>6, ShownCat

(* What was given before the entry that was taken last does not depend on  *)
(* whether that is pruned.                                                 *)
LEMMA UptoBefore ==
    ASSUME NEW t, Tree(t), NEW pr, NEW s, Line(t, pr, s), NEW e, Taken(t, s, e),
           NEW qr, SameIn(Off(s, e), pr, qr),
           NEW k \in 1 .. Len(s), s[k].at >= 1
    PROVE  Upto(t, pr, s[k].node, s[k].at - 1) = Upto(t, qr, s[k].node, s[k].at - 1)
<1>1. s[k].node \in t.dirs /\ s[k].at - 1 \in 0 .. Len(t.kids[s[k].node])
  BY LineTypes
<1>2. PICK d \in t.dirs : d = s[k].node
  BY <1>1
<1>3. PICK i \in 0 .. Len(t.kids[d]) : i = s[k].at - 1
  BY <1>1, <1>2
<1>4. PICK T : T = Off(s, e)
  OBVIOUS
<1>5. Closed(t, T) /\ SameIn(T, pr, qr)
  BY <1>4, TakenOff
<1>6. Inside(t, d, i, T)
  BY <1>2, <1>3, <1>4, TakenOff DEF Inside
<1>7. Upto(t, pr, d, i) = Upto(t, qr, d, i)
  BY <1>5, <1>6, UptoInside
<1>8. QED
  BY <1>2, <1>3, <1>7

\* Pruning the entry taken last changes nothing of what was given before.
LEMMA BeginsPruned ==
    ASSUME NEW t, Tree(t), NEW pr, NEW s, Line(t, pr, s), NEW b, Begins(t, pr, s, b),
           NEW e, Taken(t, s, e), NEW qr, qr = pr \cup {e}
    PROVE  /\ Line(t, qr, s) /\ Begins(t, qr, s, b)
           /\ Upto(t, qr, s[Len(s)].node, s[Len(s)].at - 1)
                = Upto(t, pr, s[Len(s)].node, s[Len(s)].at - 1)
<1>0. Len(s) \in Nat /\ Len(s) >= 1 /\ Len(s) \in 1 .. Len(s) /\ s[Len(s)].at >= 1
  BY DEF Line, Taken
<1>1. ASSUME NEW k \in 1 .. Len(s), s[k].at >= 1
      PROVE  Upto(t, qr, s[k].node, s[k].at - 1) = Upto(t, pr, s[k].node, s[k].at - 1)
  <2>1. SameIn(Off(s, e), pr, qr)
    BY DEF SameIn, Off
  <2>2. QED
    BY <1>1, <2>1, UptoBefore
<1>2. Line(t, qr, s)
  <2>1. \A k \in 2 .. Len(s) : k \in 1 .. Len(s)
    BY <1>0
  <2>2. \A k \in 2 .. Len(s) : s[k].node \notin qr
    <3>1. \A k \in 1 .. Len(s) : s[k].node # e
      BY TakenOff
    <3>2. \A k \in 2 .. Len(s) : s[k].node \notin pr
      BY DEF Line
    <3>3. QED
      BY <2>1, <3>1, <3>2
  <2>3. QED
    BY <2>2 DEF Line
<1>3. Begins(t, qr, s, b)
  <2>1. ASSUME NEW k \in 2 .. Len(s)
        PROVE  b[k] = b[k - 1] \o Upto(t, qr, s[k - 1].node, s[k - 1].at - 1)
                        \o <<Enter(s[k].node)>>
    <3>1. k - 1 \in 1 .. Len(s) /\ s[k - 1].at >= 1
      BY <1>0 DEF Line
    <3>2. b[k] = b[k - 1] \o Upto(t, pr, s[k - 1].node, s[k - 1].at - 1) \o <<Enter(s[k].node)>>
      BY DEF Begins
    <3>3. QED
      BY <1>1, <3>1, <3>2
  <2>2. QED
    BY <2>1 DEF Begins
<1>4. QED
  BY <1>0, <1>1, <1>2, <1>3

\* The items of level m complete the entry that the level above has taken.
Completes(t, pr, s, b, m) ==
    b[m - 1] \o Upto(t, pr, s[m - 1].node, s[m - 1].at)
      = (b[m] \o Whole(t, pr, s[m].node)) \o <<Leave(s[m].node)>>

LEMMA LeaveLevel ==
    ASSUME NEW t, Tree(t), NEW pr, NEW s, Line(t, pr, s), NEW b, Begins(t, pr, s, b),
           NEW m \in 2 .. Len(s)
    PROVE  Completes(t, pr, s, b, m)
<1>1. PICK l : l = m - 1
  OBVIOUS
<1>2. m \in 1 .. Len(s) /\ m >= 2 /\ l \in 1 .. Len(s)
  BY <1>1 DEF Line
<1>3. PICK d, i, n : d = s[l].node /\ i = s[l].at /\ n = s[m].node
  OBVIOUS
<1>4. /\ d \in t.dirs /\ i \in 1 .. Len(t.kids[d]) /\ n = t.kids[d][i] /\ n \in t.dirs
      /\ n \notin pr /\ n \in Nodes
  BY <1>1, <1>2, <1>3, LineTypes
<1>5. b[l] \in Seq(Items)
  BY <1>2 DEF Begins
<1>6. PICK u \in Seq(Items), w \in Seq(Items) : u = Upto(t, pr, d, i - 1) /\ w = Whole(t, pr, n)
  BY <1>4, PlaceSteps, UptoType, WholeType
<1>7. PICK x \in Seq(Items), y \in Seq(Items) : x = <<Enter(n)>> /\ y = <<Leave(n)>>
  BY <1>4, ItemType
<1>8. b[m] = (b[l] \o u) \o x
  BY <1>1, <1>3, <1>6, <1>7 DEF Begins
<1>9. Upto(t, pr, d, i) = u \o (x \o (w \o y))
  <2>1. Upto(t, pr, d, i) = u \o EntryItems(t, pr, n)
    BY <1>4, <1>6, UptoNext
  <2>2. EntryItems(t, pr, n) = x \o (w \o y)
    BY <1>4, <1>6, <1>7 DEF EntryItems, Below
  <2>3. QED
    BY <2>1, <2>2
<1>10. /\ b[l] \o u \in Seq(Items) /\ w \o y \in Seq(Items)
       /\ (b[l] \o u) \o x \in Seq(Items) /\ x \o (w \o y) \in Seq(Items)
  BY <1>5, Cat, Zenon
<1>11. b[l] \o (u \o (x \o (w \o y))) = (b[l] \o u) \o (x \o (w \o y))
  BY <1>5, <1>10, Assoc, Zenon
<1>12. (b[l] \o u) \o (x \o (w \o y)) = ((b[l] \o u) \o x) \o (w \o y)
  <2>1. PICK p \in Seq(Items), q \in Seq(Items) : p = b[l] \o u /\ q = w \o y
    BY <1>10
  <2>2. (p \o x) \o q = p \o (x \o q)
    BY Assoc
  <2>3. QED
    BY <2>1, <2>2
<1>13. ((b[l] \o u) \o x) \o (w \o y) = (((b[l] \o u) \o x) \o w) \o y
  <2>1. PICK p \in Seq(Items) : p = (b[l] \o u) \o x
    BY <1>10
  <2>2. (p \o w) \o y = p \o (w \o y)
    BY Assoc
  <2>3. QED
    BY <2>1, <2>2
<1>14. b[l] \o Upto(t, pr, d, i) = (b[m] \o w) \o y
  BY <1>8, <1>9, <1>11, <1>12, <1>13, Zenon
<1>15. QED
  BY <1>1, <1>3, <1>6, <1>7, <1>14 DEF Completes

(* What was given at any level goes on to the walk of the root: at level k *)
(* the rest of its directory comes next.                                   *)
LEMMA BeginsStarts ==
    ASSUME NEW t, Tree(t), NEW pr, NEW s, Line(t, pr, s), NEW b, Begins(t, pr, s, b),
           Len(s) >= 1
    PROVE  Starts(b[Len(s)] \o Whole(t, pr, s[Len(s)].node), Whole(t, pr, Root))
<1>0. Len(s) \in Nat
  BY DEF Line
<1> DEFINE S == {k \in Nat : k + 1 <= Len(s) =>
                    Starts(b[k + 1] \o Whole(t, pr, s[k + 1].node), Whole(t, pr, Root))}
<1>1. 0 \in S
  <2>1. 1 \in 1 .. Len(s) /\ ~ (1 >= 2) /\ 0 + 1 = 1
    BY <1>0
  <2>2. b[1] = <<>> /\ s[1].node = Root /\ Root \in t.dirs
    <3>1. b[1] = <<>> /\ s[1].node = Root
      BY DEF Begins, Line
    <3>2. QED
      BY <3>1 DEF Tree, IsTree
  <2>3. Whole(t, pr, Root) \in Seq(Items)
    BY <2>2, WholeType
  <2>4. <<>> \o Whole(t, pr, Root) = Whole(t, pr, Root)
    BY <2>3, CatEmpty
  <2>5. QED
    BY <2>1, <2>2, <2>3, <2>4, StartsSelf
<1>2. ASSUME NEW k \in Nat, k \in S PROVE k + 1 \in S
  <2>1. SUFFICES ASSUME (k + 1) + 1 <= Len(s)
                 PROVE  Starts(b[(k + 1) + 1] \o Whole(t, pr, s[(k + 1) + 1].node),
                               Whole(t, pr, Root))
    OBVIOUS
  <2>2. PICK m, l : m = (k + 1) + 1 /\ l = k + 1
    OBVIOUS
  <2>3. /\ m \in 2 .. Len(s) /\ m \in 1 .. Len(s) /\ m >= 2 /\ m - 1 = l
        /\ l \in 1 .. Len(s) /\ l <= Len(s)
    BY <1>0, <2>1, <2>2
  <2>4. Starts(b[l] \o Whole(t, pr, s[l].node), Whole(t, pr, Root))
    BY <1>2, <2>2, <2>3
  <2>5. PICK d, i, n : d = s[l].node /\ i = s[l].at /\ n = s[m].node
    OBVIOUS
  <2>6. /\ d \in t.dirs /\ i \in 1 .. Len(t.kids[d]) /\ n = t.kids[d][i] /\ n \in t.dirs
        /\ n \notin pr /\ n \in Nodes
    BY <2>3, <2>5, LineTypes
  <2>7. b[l] \in Seq(Items)
    BY <2>3 DEF Begins
  <2>8. PICK w \in Seq(Items), y \in Seq(Items) : w = Whole(t, pr, n) /\ y = <<Leave(n)>>
    BY <2>6, WholeType, ItemType
  <2>9. b[l] \o Upto(t, pr, d, i) = (b[m] \o w) \o y
    <3>1. Completes(t, pr, s, b, m)
      BY <2>3, LeaveLevel
    <3>2. QED
      BY <2>3, <2>5, <2>8, <3>1 DEF Completes
  <2>10. b[m] \o w \in Seq(Items) /\ Upto(t, pr, d, i) \in Seq(Items)
    <3>1. b[m] \in Seq(Items)
      BY <2>3 DEF Begins
    <3>2. QED
      BY <2>6, <3>1, Cat, PlaceSteps, UptoType
  <2>11. Starts(b[m] \o w, b[l] \o Upto(t, pr, d, i))
    BY <2>9, Zenon DEF Starts
  <2>12. Starts(b[l] \o Upto(t, pr, d, i), b[l] \o Whole(t, pr, d))
    <3>1. Starts(Upto(t, pr, d, i), Whole(t, pr, d))
      BY <2>6, PlaceSteps, UptoStarts
    <3>2. QED
      BY <2>7, <2>10, <3>1, StartsAfter
  <2>13. b[l] \o Upto(t, pr, d, i) \in Seq(Items)
    BY <2>7, <2>10, Cat
  <2>14. Starts(b[m] \o w, Whole(t, pr, Root))
    <3>1. Starts(b[l] \o Upto(t, pr, d, i), Whole(t, pr, Root))
      BY <2>4, <2>5, <2>12, <2>13, StartsTrans
    <3>2. QED
      BY <2>10, <2>11, <3>1, StartsTrans
  <2>15. QED
    BY <2>2, <2>5, <2>8, <2>14
<1> HIDE DEF S
<1>3. Nat \subseteq S
  BY <1>1, <1>2, Induct
<1>4. PICK k \in Nat : k + 1 = Len(s)
  <2>1. Len(s) - 1 \in Nat /\ (Len(s) - 1) + 1 = Len(s)
    BY <1>0
  <2>2. QED
    BY <2>1
<1>5. k \in S /\ k + 1 <= Len(s)
  BY <1>0, <1>3, <1>4
<1>6. QED
  BY <1>4, <1>5 DEF S

\* The innermost level takes an entry.
Takes(t, s, r) ==
    /\ Len(r) = Len(s) /\ Len(s) >= 1 /\ s[Len(s)].at < Len(t.kids[s[Len(s)].node])
    /\ \A k \in 1 .. Len(s) : /\ r[k].node = s[k].node
                              /\ r[k].at = IF k = Len(s) THEN s[k].at + 1 ELSE s[k].at

LEMMA LineTake ==
    ASSUME NEW t, Tree(t), NEW pr, NEW s, Line(t, pr, s), NEW b, Begins(t, pr, s, b),
           NEW r, Takes(t, s, r)
    PROVE  /\ Line(t, pr, r) /\ Begins(t, pr, r, b) /\ r[Len(r)].at - 1 = s[Len(s)].at
           /\ Taken(t, r, t.kids[s[Len(s)].node][s[Len(s)].at + 1])
<1> USE DEF Takes
<1>1. Len(s) \in Nat /\ Len(s) \in 1 .. Len(s)
  BY DEF Line
<1>2. /\ s[Len(s)].node \in t.dirs /\ s[Len(s)].at \in Nat
      /\ Len(t.kids[s[Len(s)].node]) \in Nat
  BY <1>1, LineTypes
<1>3. /\ r[Len(s)].node = s[Len(s)].node /\ r[Len(s)].at = s[Len(s)].at + 1
  BY <1>1
<1>4. r[Len(r)].at - 1 = s[Len(s)].at /\ Taken(t, r, t.kids[s[Len(s)].node][s[Len(s)].at + 1])
  BY <1>1, <1>2, <1>3 DEF Taken
<1>5. \A k \in 2 .. Len(s) : /\ k \in 1 .. Len(s) /\ k - 1 \in 1 .. Len(s)
                             /\ r[k - 1].node = s[k - 1].node /\ r[k - 1].at = s[k - 1].at
                             /\ r[k].node = s[k].node
  BY <1>1
<1>6. Line(t, pr, r)
  <2>1. \A k \in 1 .. Len(r) : /\ r[k].node \in t.dirs
                               /\ r[k].at \in 0 .. Len(t.kids[r[k].node])
    <3>1. ASSUME NEW k \in 1 .. Len(s)
          PROVE  r[k].node \in t.dirs /\ r[k].at \in 0 .. Len(t.kids[r[k].node])
      <4>1. CASE k = Len(s)
        BY <1>2, <1>3, <4>1
      <4>2. CASE k # Len(s)
        BY <4>2 DEF Line
      <4>3. QED
        BY <4>1, <4>2
    <3>2. QED
      BY <3>1
  <2>2. r[1].node = Root
    BY <1>1 DEF Line
  <2>3. \A k \in 2 .. Len(r) : /\ r[k - 1].at >= 1
                               /\ r[k].node = t.kids[r[k - 1].node][r[k - 1].at]
                               /\ r[k].node \notin pr
    BY <1>5 DEF Line
  <2>4. \A j, k \in 1 .. Len(r) : r[j].node = r[k].node => j = k
    BY DEF Line
  <2>5. QED
    BY <1>1, <2>1, <2>2, <2>3, <2>4 DEF Line
<1>7. Begins(t, pr, r, b)
  BY <1>5 DEF Begins
<1>8. QED
  BY <1>4, <1>6, <1>7

\* A level is pushed for the entry taken last, e.
Pushes(s, e, r) ==
    /\ Len(r) = Len(s) + 1 /\ \A k \in 1 .. Len(s) : r[k] = s[k]
    /\ r[Len(r)].node = e /\ r[Len(r)].at = 0

\* Then what had been given before begins the new level.
BeginsPushed(t, pr, s, b, e, r) ==
    \E c : /\ Begins(t, pr, r, c)
           /\ c[Len(r)] = b[Len(s)] \o Upto(t, pr, s[Len(s)].node, s[Len(s)].at - 1)
                            \o <<Enter(e)>>

LEMMA LinePush ==
    ASSUME NEW t, Tree(t), NEW pr, NEW s, Line(t, pr, s), NEW e, Taken(t, s, e),
           e \in t.dirs, e \notin pr, NEW b, Begins(t, pr, s, b),
           NEW r, Pushes(s, e, r)
    PROVE  Line(t, pr, r) /\ BeginsPushed(t, pr, s, b, e, r)
<1> USE DEF Pushes
<1>1. PICK l : l = Len(s)
  OBVIOUS
<1>2. /\ l \in Nat /\ l >= 1 /\ l \in 1 .. l /\ Len(r) = l + 1 /\ l + 1 \in 1 .. l + 1
      /\ l + 1 \in Nat /\ (l + 1) - 1 = l
      /\ \A k \in 1 .. l + 1 : k = l + 1 \/ k \in 1 .. l
      /\ \A k \in 2 .. l + 1 : k - 1 \in 1 .. l /\ (k = l + 1 \/ k \in 2 .. l)
  BY <1>1 DEF Line, Taken
<1>3. \A k \in 1 .. l : r[k] = s[k]
  BY <1>1
<1>4. r[l + 1].node = e /\ r[l + 1].at = 0
  BY <1>2
<1>5. s[l].at >= 1 /\ e = t.kids[s[l].node][s[l].at] /\ s[l].node \in t.dirs
  BY <1>1, <1>2, LineTypes DEF Taken
<1>6. \A k \in 1 .. l : s[k].node # e
  BY <1>1, TakenOff
<1>7. Line(t, pr, r)
  <2>1. \A k \in 1 .. l + 1 : /\ r[k].node \in t.dirs
                              /\ r[k].at \in 0 .. Len(t.kids[r[k].node])
    <3>1. 0 \in 0 .. Len(t.kids[e])
      BY TreeTypes
    <3>2. \A k \in 1 .. l : s[k].node \in t.dirs /\ s[k].at \in 0 .. Len(t.kids[s[k].node])
      BY <1>1 DEF Line
    <3>3. QED
      BY <1>2, <1>3, <1>4, <3>1, <3>2
  <2>2. r[1].node = Root
    <3>1. s[1].node = Root /\ 1 \in 1 .. l
      BY <1>1, <1>2 DEF Line
    <3>2. QED
      BY <1>3, <3>1
  <2>3. ASSUME NEW k \in 2 .. l + 1
        PROVE  /\ r[k - 1].at >= 1 /\ r[k].node = t.kids[r[k - 1].node][r[k - 1].at]
               /\ r[k].node \notin pr
    <3>1. k - 1 \in 1 .. l /\ r[k - 1] = s[k - 1]
      BY <1>2, <1>3
    <3>2. CASE k = l + 1
      BY <1>2, <1>4, <1>5, <3>1, <3>2
    <3>3. CASE k \in 2 .. l
      <4>1. k \in 1 .. l /\ r[k] = s[k]
        BY <1>2, <1>3, <3>3
      <4>2. /\ s[k - 1].at >= 1 /\ s[k].node = t.kids[s[k - 1].node][s[k - 1].at]
            /\ s[k].node \notin pr
        BY <1>1, <3>3 DEF Line
      <4>3. QED
        BY <3>1, <4>1, <4>2
    <3>4. QED
      BY <1>2, <3>2, <3>3
  <2>4. \A j, k \in 1 .. l + 1 : r[j].node = r[k].node => j = k
    <3>1. \A j, k \in 1 .. l : s[j].node = s[k].node => j = k
      BY <1>1 DEF Line
    <3>2. QED
      BY <1>2, <1>3, <1>4, <1>6, <3>1
  <2>5. QED
    BY <1>2, <2>1, <2>2, <2>3, <2>4 DEF Line
<1>8. PICK new \in Seq(Items) :
         new = b[l] \o Upto(t, pr, s[l].node, s[l].at - 1) \o <<Enter(e)>>
  <2>1. b[l] \in Seq(Items)
    BY <1>1, <1>2 DEF Begins
  <2>2. Upto(t, pr, s[l].node, s[l].at - 1) \in Seq(Items)
    <3>1. s[l].at - 1 \in 0 .. Len(t.kids[s[l].node])
      BY <1>1, <1>2, <1>5, LineTypes
    <3>2. QED
      BY <1>5, <3>1, UptoType
  <2>3. <<Enter(e)>> \in Seq(Items)
    BY TakenOff, ItemType
  <2>4. QED
    BY <2>1, <2>2, <2>3, Cat, Zenon
<1> DEFINE c == [k \in 1 .. l + 1 |-> IF k = l + 1 THEN new ELSE b[k]]
<1>9. /\ c \in [1 .. l + 1 -> Seq(Items)] /\ c[l + 1] = new
      /\ \A k \in 1 .. l : c[k] = b[k]
  <2>1. \A k \in 1 .. l : k \in 1 .. l + 1 /\ k # l + 1 /\ b[k] \in Seq(Items)
    BY <1>1, <1>2 DEF Begins
  <2>2. QED
    BY <1>2, <2>1
<1> HIDE DEF c
<1>10. Begins(t, pr, r, c)
  <2>1. ASSUME NEW k \in 2 .. l + 1
        PROVE  c[k] = c[k - 1] \o Upto(t, pr, r[k - 1].node, r[k - 1].at - 1)
                        \o <<Enter(r[k].node)>>
    <3>1. k - 1 \in 1 .. l /\ r[k - 1] = s[k - 1] /\ c[k - 1] = b[k - 1]
      BY <1>2, <1>3, <1>9
    <3>2. CASE k = l + 1
      BY <1>2, <1>4, <1>8, <1>9, <3>1, <3>2
    <3>3. CASE k \in 2 .. l
      <4>1. k \in 1 .. l /\ r[k] = s[k] /\ c[k] = b[k]
        BY <1>2, <1>3, <1>9, <3>3
      <4>2. b[k] = b[k - 1] \o Upto(t, pr, s[k - 1].node, s[k - 1].at - 1) \o <<Enter(s[k].node)>>
        BY <1>1, <3>3 DEF Begins
      <4>3. QED
        BY <3>1, <4>1, <4>2
    <3>4. QED
      BY <1>2, <3>2, <3>3
  <2>2. c[1] = <<>>
    <3>1. b[1] = <<>> /\ 1 \in 1 .. l
      BY <1>1, <1>2 DEF Begins
    <3>2. QED
      BY <1>9, <3>1
  <2>3. QED
    BY <1>2, <1>9, <2>1, <2>2 DEF Begins
<1>11. QED
  BY <1>1, <1>2, <1>7, <1>8, <1>9, <1>10 DEF BeginsPushed

\* The innermost level is popped.
LEMMA LinePop ==
    ASSUME NEW t, Tree(t), NEW pr, NEW s, Line(t, pr, s), NEW b, Begins(t, pr, s, b),
           Len(s) >= 2, NEW r, Len(r) = Len(s) - 1, \A k \in 1 .. Len(r) : r[k] = s[k]
    PROVE  /\ Line(t, pr, r)
           /\ \E c : Begins(t, pr, r, c) /\ c[Len(r)] = b[Len(s) - 1]
<1>1. /\ Len(s) \in Nat /\ Len(r) \in Nat /\ Len(r) >= 1 /\ Len(r) \in 1 .. Len(r)
      /\ \A k \in 1 .. Len(r) : k \in 1 .. Len(s)
      /\ \A k \in 2 .. Len(r) : k \in 2 .. Len(s) /\ k \in 1 .. Len(r) /\ k - 1 \in 1 .. Len(r)
  BY DEF Line
<1>2. Line(t, pr, r)
  <2>1. \A k \in 1 .. Len(r) : /\ r[k].node \in t.dirs
                               /\ r[k].at \in 0 .. Len(t.kids[r[k].node])
    BY <1>1 DEF Line
  <2>2. r[1].node = Root
    BY <1>1 DEF Line
  <2>3. \A k \in 2 .. Len(r) : /\ r[k - 1].at >= 1
                               /\ r[k].node = t.kids[r[k - 1].node][r[k - 1].at]
                               /\ r[k].node \notin pr
    BY <1>1 DEF Line
  <2>4. \A j, k \in 1 .. Len(r) : r[j].node = r[k].node => j = k
    BY <1>1 DEF Line
  <2>5. QED
    BY <1>1, <2>1, <2>2, <2>3, <2>4 DEF Line
<1> DEFINE c == [k \in 1 .. Len(r) |-> b[k]]
<1>3. c \in [1 .. Len(r) -> Seq(Items)] /\ \A k \in 1 .. Len(r) : c[k] = b[k]
  BY <1>1 DEF Begins
<1> HIDE DEF c
<1>4. Begins(t, pr, r, c)
  <2>1. c[1] = <<>>
    BY <1>1, <1>3 DEF Begins
  <2>2. \A k \in 2 .. Len(r) :
           c[k] = c[k - 1] \o Upto(t, pr, r[k - 1].node, r[k - 1].at - 1) \o <<Enter(r[k].node)>>
    BY <1>1, <1>3 DEF Begins
  <2>3. QED
    BY <1>3, <2>1, <2>2 DEF Begins
<1>5. QED
  BY <1>1, <1>2, <1>3, <1>4

-----------------------------------------------------------------------------
(***************************************************************************)
(* The order of the items.                                                 *)
(***************************************************************************)
\* The items given when the innermost level has done i of its entries.
Done(t, pr, s, b, i) == b[Len(s)] \o Upto(t, pr, s[Len(s)].node, i)

(* What the client has been given while the traversal goes on, by the      *)
(* state: the entry taken last is not given in NAME_ADD, only itself in    *)
(* DESCEND, and is complete otherwise.                                     *)
Progress(t, pr, s, st, e, v) ==
    \E b : /\ Begins(t, pr, s, b)
           /\ st \in {"GET_ENTRY", "NAME_REMOVE", "ASCEND"} => v = Done(t, pr, s, b, s[Len(s)].at)
           /\ st = "NAME_ADD" => v = Done(t, pr, s, b, s[Len(s)].at - 1)
           /\ st = "DESCEND" => v = Done(t, pr, s, b, s[Len(s)].at - 1) \o <<Enter(e)>>

OrderOK ==
    /\ Tree(tree)
    /\ state \in Walking => /\ Line(tree, pruned, stack)
                            /\ Progress(tree, pruned, stack, state, entry, visited)
    /\ state \in {"NAME_ADD", "DESCEND"} => Taken(tree, stack, entry)
    /\ state = "DESCEND" => entry \notin pruned
    /\ state = "ASCEND" => Top.at = Len(tree.kids[Top.node])
    /\ pruned \subseteq Shown(visited)
    /\ state = "FINISHED" => visited = Whole(tree, pruned, Root)
    /\ state = "ERROR" => Starts(visited, Whole(tree, pruned, Root))
    /\ call = "over" => state = "FINISHED"

LEMMA DoneType ==
    ASSUME NEW t, Tree(t), NEW pr, NEW s, Line(t, pr, s), NEW b, Begins(t, pr, s, b),
           Len(s) >= 1, NEW i \in 0 .. Len(t.kids[s[Len(s)].node])
    PROVE  Done(t, pr, s, b, i) \in Seq(Items)
<1>1. Len(s) \in 1 .. Len(s)
  BY DEF Line
<1>2. s[Len(s)].node \in t.dirs
  BY <1>1, LineTypes
<1>3. b[Len(s)] \in Seq(Items) /\ Upto(t, pr, s[Len(s)].node, i) \in Seq(Items)
  BY <1>1, <1>2, UptoType DEF Begins
<1>4. QED
  BY <1>3, Cat DEF Done

\* It goes on to the walk of the root.
LEMMA DoneStarts ==
    ASSUME NEW t, Tree(t), NEW pr, NEW s, Line(t, pr, s), NEW b, Begins(t, pr, s, b),
           Len(s) >= 1, NEW i \in 0 .. Len(t.kids[s[Len(s)].node])
    PROVE  Starts(Done(t, pr, s, b, i), Whole(t, pr, Root))
<1>1. Len(s) \in 1 .. Len(s)
  BY DEF Line
<1>2. PICK d \in t.dirs : d = s[Len(s)].node
  BY <1>1, LineTypes
<1>3. b[Len(s)] \in Seq(Items) /\ Upto(t, pr, d, i) \in Seq(Items)
  BY <1>1, <1>2, UptoType DEF Begins
<1>4. Starts(Upto(t, pr, d, i), Whole(t, pr, d))
  BY <1>2, UptoStarts
<1>5. Starts(b[Len(s)] \o Upto(t, pr, d, i), b[Len(s)] \o Whole(t, pr, d))
  BY <1>3, <1>4, StartsAfter
<1>6. Starts(b[Len(s)] \o Whole(t, pr, d), Whole(t, pr, Root))
  BY <1>2, BeginsStarts
<1>7. b[Len(s)] \o Upto(t, pr, d, i) \in Seq(Items)
  BY <1>3, Cat
<1>8. Starts(b[Len(s)] \o Upto(t, pr, d, i), Whole(t, pr, Root))
  BY <1>5, <1>6, <1>7, StartsTrans
<1>9. QED
  BY <1>2, <1>8 DEF Done

\* One entry more is done when its own item and what is below it are given.
LEMMA DoneNext ==
    ASSUME NEW t, Tree(t), NEW pr, NEW s, Line(t, pr, s), NEW b, Begins(t, pr, s, b),
           NEW e, Taken(t, s, e)
    PROVE  /\ Done(t, pr, s, b, s[Len(s)].at - 1) \in Seq(Items)
           /\ <<Enter(e)>> \in Seq(Items) /\ Below(t, pr, e) \in Seq(Items)
           /\ Done(t, pr, s, b, s[Len(s)].at)
                = (Done(t, pr, s, b, s[Len(s)].at - 1) \o <<Enter(e)>>) \o Below(t, pr, e)
<1>1. Len(s) \in 1 .. Len(s)
  BY DEF Line, Taken
<1>2. PICK d \in t.dirs, i \in Nat : d = s[Len(s)].node /\ i = s[Len(s)].at
  BY <1>1, LineTypes
<1>3. i \in 1 .. Len(t.kids[d]) /\ e = t.kids[d][i] /\ i - 1 \in 0 .. Len(t.kids[d])
  BY <1>1, <1>2, LineTypes DEF Taken
<1>4. e \in Nodes
  BY TakenOff
<1>5. PICK x \in Seq(Items), y \in Seq(Items) : x = <<Enter(e)>> /\ y = Below(t, pr, e)
  <2>1. <<Enter(e)>> \in Seq(Items)
    BY <1>4, ItemType
  <2>2. Below(t, pr, e) \in Seq(Items)
    BY <1>4, WholeType, Cat, ItemType, EmptySeq DEF Below
  <2>3. QED
    BY <2>1, <2>2
<1>6. PICK p \in Seq(Items), u \in Seq(Items) : p = b[Len(s)] /\ u = Upto(t, pr, d, i - 1)
  BY <1>1, <1>3, UptoType DEF Begins
<1>7. Upto(t, pr, d, i) = u \o (x \o y)
  <2>1. Upto(t, pr, d, i) = Upto(t, pr, d, i - 1) \o EntryItems(t, pr, e)
    BY <1>3, UptoNext
  <2>2. QED
    BY <1>5, <1>6, <2>1 DEF EntryItems
<1>8. p \o (u \o (x \o y)) = ((p \o u) \o x) \o y /\ p \o u \in Seq(Items)
  <2>1. PICK q \in Seq(Items), z \in Seq(Items) : q = p \o u /\ z = x \o y
    BY Cat
  <2>2. (p \o u) \o z = p \o (u \o z)
    BY Assoc
  <2>3. (q \o x) \o y = q \o (x \o y)
    BY Assoc
  <2>4. QED
    BY <2>1, <2>2, <2>3
<1>9. Done(t, pr, s, b, i) = p \o (u \o (x \o y)) /\ Done(t, pr, s, b, i - 1) = p \o u
  BY <1>2, <1>6, <1>7 DEF Done
<1>10. QED
  BY <1>2, <1>5, <1>8, <1>9

(* In every state, what the client has been given goes on to the walk of   *)
(* the root.                                                               *)
LEMMA AlwaysStarts ==
    ASSUME IInv, OrderOK
    PROVE  Starts(visited, Whole(tree, pruned, Root))
<1>1. CASE state \in Walking
  <2>1. /\ Tree(tree) /\ Line(tree, pruned, stack)
        /\ Progress(tree, pruned, stack, state, entry, visited)
    BY <1>1 DEF OrderOK
  <2>2. PICK t, pr, s, v : t = tree /\ pr = pruned /\ s = stack /\ v = visited
    OBVIOUS
  <2>3. Tree(t) /\ Line(t, pr, s)
    BY <2>1, <2>2
  <2>4. PICK b : /\ Begins(t, pr, s, b)
                 /\ state \in {"GET_ENTRY", "NAME_REMOVE", "ASCEND"} =>
                       v = Done(t, pr, s, b, s[Len(s)].at)
                 /\ state = "NAME_ADD" => v = Done(t, pr, s, b, s[Len(s)].at - 1)
                 /\ state = "DESCEND" => v = Done(t, pr, s, b, s[Len(s)].at - 1) \o <<Enter(entry)>>
    BY <2>1, <2>2 DEF Progress
  <2>5. Len(s) >= 1 /\ Len(s) \in 1 .. Len(s)
    BY <1>1, <2>2, Types DEF IInv, StateOK
  <2>6. s[Len(s)].at \in 0 .. Len(t.kids[s[Len(s)].node])
    BY <2>3, <2>5 DEF Line
  <2>7. CASE state \in {"GET_ENTRY", "NAME_REMOVE", "ASCEND"}
    <3>1. Starts(v, Whole(t, pr, Root))
      BY <2>3, <2>4, <2>5, <2>6, <2>7, DoneStarts
    <3>2. QED
      BY <2>2, <3>1
  <2>8. CASE state \in {"NAME_ADD", "DESCEND"}
    <3>1. PICK e : e = entry /\ Taken(t, s, e)
      BY <2>2, <2>8 DEF OrderOK
    <3>2. s[Len(s)].at - 1 \in 0 .. Len(t.kids[s[Len(s)].node])
      BY <2>3, <2>5, <3>1, LineTypes DEF Taken
    <3>3. CASE state = "NAME_ADD"
      <4>1. Starts(v, Whole(t, pr, Root))
        BY <2>3, <2>4, <2>5, <3>2, <3>3, DoneStarts
      <4>2. QED
        BY <2>2, <4>1
    <3>4. CASE state = "DESCEND"
      <4>1. v = Done(t, pr, s, b, s[Len(s)].at - 1) \o <<Enter(e)>>
        BY <2>4, <3>1, <3>4
      <4>2. Done(t, pr, s, b, s[Len(s)].at) = v \o Below(t, pr, e) /\ Below(t, pr, e) \in Seq(Items)
        BY <2>3, <2>4, <3>1, <4>1, DoneNext
      <4>3. Starts(v, Done(t, pr, s, b, s[Len(s)].at))
        BY <4>2 DEF Starts
      <4>4. Starts(Done(t, pr, s, b, s[Len(s)].at), Whole(t, pr, Root))
        BY <2>3, <2>4, <2>5, <2>6, DoneStarts
      <4>5. v \in Seq(Items)
        BY <2>2 DEF IInv, TypeOK
      <4>6. QED
        BY <2>2, <4>3, <4>4, <4>5, StartsTrans
    <3>5. QED
      BY <2>8, <3>3, <3>4
  <2>9. QED
    BY <1>1, <2>7, <2>8 DEF Walking
<1>2. CASE state = "FINISHED"
  <2>1. visited = Whole(tree, pruned, Root) /\ visited \in Seq(Items)
    BY <1>2 DEF OrderOK, IInv, TypeOK
  <2>2. QED
    BY <2>1, StartsSelf
<1>3. CASE state = "ERROR"
  BY <1>3 DEF OrderOK
<1>4. QED
  BY <1>1, <1>2, <1>3 DEF IInv, TypeOK, Walking

LEMMA InitOrder == ASSUME Init PROVE OrderOK
<1>1. Tree(tree)
  BY TraverseAssumption, RootedAssumption DEF Init, Tree
<1>2. Whole(tree, pruned, Root) \in Seq(Items)
  <2>1. Root \in tree.dirs
    BY <1>1 DEF Tree, IsTree
  <2>2. QED
    BY <1>1, <2>1, WholeType
<1>3. Starts(visited, Whole(tree, pruned, Root))
  <2>1. visited \o Whole(tree, pruned, Root) = Whole(tree, pruned, Root)
    BY <1>2, CatEmpty DEF Init
  <2>2. QED
    BY <1>2, <2>1 DEF Starts
<1>4. QED
  BY <1>1, <1>3 DEF Init, OrderOK, Walking

\* A traversal that is closed, or fails, has given a part of the walk.
LEMMA StopOrder ==
    ASSUME IInv, OrderOK, state' = "ERROR", call' # "over", UNCHANGED <<tree, visited, pruned>>
    PROVE  OrderOK'
<1>1. Starts(visited, Whole(tree, pruned, Root))
  BY AlwaysStarts
<1>2. Tree(tree') /\ pruned' \subseteq Shown(visited')
  BY DEF OrderOK
<1>3. Starts(visited', Whole(tree', pruned', Root))
  BY <1>1
<1>4. QED
  BY <1>2, <1>3 DEF OrderOK, Walking

LEMMA OpenOrder == ASSUME IInv, OrderOK, Open PROVE OrderOK'
<1>1. /\ tree' = tree /\ visited' = <<>> /\ pruned' = {} /\ state' = "NAME_REMOVE" /\ call' = "item"
      /\ stack' = Append(stack, [node |-> Root, at |-> 0, name_size |-> 0])
  BY DEF Open, Push
<1>2. stack = <<>>
  BY DEF Open, IInv, StateOK
<1>3. PICK t, s : t = tree /\ s = stack'
  OBVIOUS
<1>4. Tree(t) /\ Root \in t.dirs
  BY <1>3 DEF OrderOK, Tree, IsTree
<1>5. Len(s) = 1 /\ s[1].node = Root /\ s[1].at = 0
  BY <1>1, <1>2, <1>3
<1>6. Line(t, {}, s)
  <2>1. 0 \in 0 .. Len(t.kids[Root])
    BY <1>4, TreeTypes
  <2>2. QED
    BY <1>4, <1>5, <2>1 DEF Line
<1> DEFINE b == [k \in 1 .. 1 |-> <<>>]
<1>7. b \in [1 .. 1 -> Seq(Items)] /\ b[1] = <<>>
  OBVIOUS
<1> HIDE DEF b
<1>8. Begins(t, {}, s, b)
  BY <1>5, <1>7 DEF Begins
<1>9. Done(t, {}, s, b, s[Len(s)].at) = <<>>
  <2>1. Upto(t, {}, Root, 0) = <<>>
    BY <1>4, UptoZero
  <2>2. <<>> \o <<>> = <<>>
    OBVIOUS
  <2>3. QED
    BY <1>5, <1>7, <2>1, <2>2 DEF Done
<1>10. Progress(t, {}, s, "NAME_REMOVE", entry', <<>>)
  BY <1>8, <1>9 DEF Progress
<1>11. QED
  BY <1>1, <1>3, <1>4, <1>6, <1>10 DEF OrderOK, Walking

\* The parts of the invariant while the traversal goes on.
LEMMA Going ==
    ASSUME IInv, OrderOK, state \in Walking
    PROVE  /\ Tree(tree) /\ Line(tree, pruned, stack)
           /\ Progress(tree, pruned, stack, state, entry, visited)
           /\ Len(stack) \in Nat /\ Len(stack) >= 1 /\ Len(stack) \in 1 .. Len(stack)
           /\ Top = stack[Len(stack)] /\ visited \in Seq(Items) /\ pruned \subseteq Shown(visited)
<1>1. Len(stack) \in Nat /\ Len(stack) >= 1
  BY Types DEF IInv, StateOK
<1>2. QED
  BY <1>1 DEF OrderOK, Top, IInv, TypeOK

LEMMA GetEntryOrder == ASSUME IInv, OrderOK, GetEntry PROVE OrderOK'
<1>1. /\ call = "next" /\ state = "GET_ENTRY" /\ state \in Walking
      /\ UNCHANGED <<tree, call, visited, pruned>>
  BY DEF GetEntry, In, Walking
<1>2. PICK t, pr, s, v : t = tree /\ pr = pruned /\ s = stack /\ v = visited
  OBVIOUS
<1>3. Tree(t) /\ Line(t, pr, s) /\ Len(s) \in Nat /\ Len(s) >= 1 /\ Len(s) \in 1 .. Len(s)
  BY <1>1, <1>2, Going
<1>4. PICK b : Begins(t, pr, s, b) /\ v = Done(t, pr, s, b, s[Len(s)].at)
  <2>1. Progress(t, pr, s, state, entry, v)
    BY <1>1, <1>2, Going
  <2>2. QED
    BY <1>1, <2>1 DEF Progress
<1>5. CASE Top.at < Len(tree.kids[Top.node])
  <2>1. PICK r : r = stack'
    OBVIOUS
  <2>2. /\ r = [s EXCEPT ![Len(s)].at = @ + 1]
        /\ entry' = t.kids[s[Len(s)].node][s[Len(s)].at + 1] /\ state' = "NAME_ADD"
        /\ s[Len(s)].at < Len(t.kids[s[Len(s)].node])
    BY <1>2, <1>5, <2>1 DEF GetEntry, Top
  <2>3. s \in Seq(Levels) /\ s[Len(s)] \in Levels
    BY <1>2, <1>3, Types
  <2>4. PICK new : new = [s[Len(s)] EXCEPT !.at = @ + 1]
    OBVIOUS
  <2>5. new \in Levels /\ new.node = s[Len(s)].node /\ new.at = s[Len(s)].at + 1
    <3>1. \A l \in [node : Nodes, at : Nat, name_size : Sizes] :
             /\ [l EXCEPT !.at = @ + 1] \in [node : Nodes, at : Nat, name_size : Sizes]
             /\ [l EXCEPT !.at = @ + 1].node = l.node /\ [l EXCEPT !.at = @ + 1].at = l.at + 1
      OBVIOUS
    <3>2. QED
      BY <2>3, <2>4, <3>1 DEF Levels
  <2>6. Len(r) = Len(s) /\ \A k \in 1 .. Len(s) : r[k] = IF k = Len(s) THEN new ELSE s[k]
    <3>1. r = [s EXCEPT ![Len(s)] = new]
      BY <1>3, <2>2, <2>4
    <3>2. QED
      BY <1>3, <2>3, <2>5, <3>1, ExceptSeq
  <2>7. \A k \in 1 .. Len(s) : /\ r[k].node = s[k].node
                               /\ r[k].at = IF k = Len(s) THEN s[k].at + 1 ELSE s[k].at
    BY <2>5, <2>6
  <2>8. /\ Line(t, pr, r) /\ r[Len(r)].at - 1 = s[Len(s)].at /\ Begins(t, pr, r, b)
        /\ Taken(t, r, t.kids[s[Len(s)].node][s[Len(s)].at + 1])
    <3>1. Takes(t, s, r)
      BY <1>3, <2>2, <2>6, <2>7 DEF Takes
    <3>2. QED
      BY <1>3, <1>4, <3>1, LineTake
  <2>9. v = Done(t, pr, r, b, r[Len(r)].at - 1)
    <3>1. r[Len(r)].node = s[Len(s)].node /\ Len(r) = Len(s)
      BY <1>3, <2>6, <2>7
    <3>2. QED
      BY <1>4, <2>8, <3>1 DEF Done
  <2>10. Progress(t, pr, r, "NAME_ADD", entry', v)
    BY <2>8, <2>9 DEF Progress
  <2>11. QED
    BY <1>1, <1>2, <2>1, <2>2, <2>8, <2>10 DEF OrderOK, Walking
<1>6. CASE ~ (Top.at < Len(tree.kids[Top.node]))
  <2>1. state' = "ASCEND" /\ stack' = stack /\ entry' = entry
    BY <1>6 DEF GetEntry
  <2>2. Top.at = Len(tree.kids[Top.node])
    <3>1. s[Len(s)].at \in Nat /\ Len(t.kids[s[Len(s)].node]) \in Nat
          /\ s[Len(s)].at <= Len(t.kids[s[Len(s)].node])
      BY <1>3, LineTypes
    <3>2. QED
      BY <1>2, <1>6, <3>1 DEF Top
  <2>3. Progress(t, pr, s, "ASCEND", entry', v)
    BY <1>4 DEF Progress
  <2>4. Line(tree, pruned, stack)
    BY <1>2, <1>3
  <2>5. QED
    BY <1>1, <1>2, <2>1, <2>2, <2>3, <2>4 DEF OrderOK, Walking, Top
<1>7. QED
  BY <1>5, <1>6

LEMMA NameAddOrder == ASSUME IInv, OrderOK, NameAdd PROVE OrderOK'
<1>1. /\ state = "NAME_ADD" /\ state \in Walking /\ call' = "item"
      /\ state' = IF entry \in tree.dirs THEN "DESCEND" ELSE "NAME_REMOVE"
      /\ visited' = Append(visited, Enter(entry))
      /\ UNCHANGED <<tree, stack, entry, pruned>>
  BY DEF NameAdd, In, Walking, Enter
<1>2. PICK t, pr, s, v, e : t = tree /\ pr = pruned /\ s = stack /\ v = visited /\ e = entry
  OBVIOUS
<1>3. Tree(t) /\ Line(t, pr, s) /\ v \in Seq(Items) /\ pr \subseteq Shown(v) /\ Taken(t, s, e)
  BY <1>1, <1>2, Going DEF OrderOK
<1>4. PICK b : Begins(t, pr, s, b) /\ v = Done(t, pr, s, b, s[Len(s)].at - 1)
  <2>1. Progress(t, pr, s, state, entry, v)
    BY <1>1, <1>2, Going
  <2>2. QED
    BY <1>1, <2>1 DEF Progress
<1>5. e \in Nodes /\ Enter(e) \in Items /\ <<Enter(e)>> \in Seq(Items)
  BY <1>3, TakenOff, ItemType
<1>6. visited' = v \o <<Enter(e)>>
  BY <1>1, <1>2, <1>3, <1>5, AppendIsConcat
<1>7. e \notin pr
  BY <1>3, <1>4, BeginsNew DEF Done
<1>8. pr \subseteq Shown(v \o <<Enter(e)>>)
  BY <1>3, <1>5, ShownCat
<1>9. Progress(t, pr, s, state', e, v \o <<Enter(e)>>)
  <2>1. CASE e \in t.dirs
    <3>1. state' = "DESCEND"
      BY <1>1, <1>2, <2>1
    <3>2. QED
      BY <1>4, <3>1 DEF Progress
  <2>2. CASE e \notin t.dirs
    <3>1. state' = "NAME_REMOVE"
      BY <1>1, <1>2, <2>2
    <3>2. Below(t, pr, e) = <<>>
      BY <2>2 DEF Below
    <3>3. Done(t, pr, s, b, s[Len(s)].at) = (v \o <<Enter(e)>>) \o <<>>
      BY <1>3, <1>4, <3>2, DoneNext
    <3>4. v \o <<Enter(e)>> \in Seq(Items)
      BY <1>3, <1>5, Cat
    <3>5. Done(t, pr, s, b, s[Len(s)].at) = v \o <<Enter(e)>>
      BY <3>3, <3>4, CatEmpty
    <3>6. QED
      BY <1>4, <3>1, <3>5 DEF Progress
  <2>3. QED
    BY <2>1, <2>2
<1>10. state' \in {"DESCEND", "NAME_REMOVE"}
  BY <1>1
<1>11. QED
  BY <1>1, <1>2, <1>3, <1>6, <1>7, <1>8, <1>9, <1>10 DEF OrderOK, Walking

LEMMA PruneOrder == ASSUME IInv, OrderOK, Prune PROVE OrderOK'
<1>1. /\ state = "DESCEND" /\ state \in Walking /\ call = "item" /\ state' = "NAME_REMOVE"
      /\ pruned' = pruned \cup {entry}
      /\ UNCHANGED <<tree, call, stack, entry, visited>>
  BY DEF Prune, Walking
<1>2. PICK t, pr, s, v, e : t = tree /\ pr = pruned /\ s = stack /\ v = visited /\ e = entry
  OBVIOUS
<1>3. Tree(t) /\ Line(t, pr, s) /\ v \in Seq(Items) /\ pr \subseteq Shown(v) /\ Taken(t, s, e)
  BY <1>1, <1>2, Going DEF OrderOK
<1>4. PICK b : Begins(t, pr, s, b) /\ v = Done(t, pr, s, b, s[Len(s)].at - 1) \o <<Enter(e)>>
  <2>1. Progress(t, pr, s, state, e, v)
    BY <1>1, <1>2, Going
  <2>2. QED
    BY <1>1, <2>1 DEF Progress
<1>5. PICK qr : qr = pr \cup {e}
  OBVIOUS
<1>6. /\ Line(t, qr, s) /\ Begins(t, qr, s, b)
      /\ Upto(t, qr, s[Len(s)].node, s[Len(s)].at - 1)
           = Upto(t, pr, s[Len(s)].node, s[Len(s)].at - 1)
  BY <1>3, <1>4, <1>5, BeginsPruned
<1>7. Done(t, qr, s, b, s[Len(s)].at - 1) = Done(t, pr, s, b, s[Len(s)].at - 1)
  BY <1>6 DEF Done
<1>8. Done(t, qr, s, b, s[Len(s)].at) = v
  <2>1. Below(t, qr, e) = <<>>
    BY <1>5 DEF Below
  <2>2. Done(t, qr, s, b, s[Len(s)].at)
          = (Done(t, qr, s, b, s[Len(s)].at - 1) \o <<Enter(e)>>) \o Below(t, qr, e)
    BY <1>3, <1>6, DoneNext
  <2>3. Done(t, qr, s, b, s[Len(s)].at) = v \o <<>>
    BY <1>4, <1>7, <2>1, <2>2
  <2>4. QED
    BY <1>3, <2>3, CatEmpty
<1>9. Progress(t, qr, s, "NAME_REMOVE", e, v)
  BY <1>6, <1>8 DEF Progress
<1>10. qr \subseteq Shown(v)
  <2>1. /\ Done(t, pr, s, b, s[Len(s)].at - 1) \in Seq(Items) /\ <<Enter(e)>> \in Seq(Items)
    BY <1>3, <1>4, DoneNext
  <2>2. Shown(v) = Shown(Done(t, pr, s, b, s[Len(s)].at - 1)) \cup Shown(<<Enter(e)>>)
    BY <1>4, <2>1, ShownCat
  <2>3. Shown(<<Enter(e)>>) = {e}
    BY <1>3, TakenOff, ShownOne
  <2>4. QED
    BY <1>3, <1>5, <2>2, <2>3
<1>11. QED
  BY <1>1, <1>2, <1>3, <1>5, <1>6, <1>9, <1>10 DEF OrderOK, Walking

LEMMA DescendOrder == ASSUME IInv, OrderOK, Descend PROVE OrderOK'
<1>1. /\ state = "DESCEND" /\ state \in Walking /\ state' = "GET_ENTRY" /\ call = "next"
      /\ stack' = Append(stack, [node |-> entry, at |-> 0, name_size |-> tree.len[entry]])
      /\ UNCHANGED <<tree, call, entry, visited, pruned>>
  BY DEF Descend, In, Walking, Push
<1>2. PICK t, pr, s, v, e : t = tree /\ pr = pruned /\ s = stack /\ v = visited /\ e = entry
  OBVIOUS
<1>3. /\ Tree(t) /\ Line(t, pr, s) /\ v \in Seq(Items) /\ Taken(t, s, e)
      /\ e \in t.dirs /\ e \notin pr
  BY <1>1, <1>2, Going DEF OrderOK, IInv, StateOK
<1>4. PICK b : Begins(t, pr, s, b) /\ v = Done(t, pr, s, b, s[Len(s)].at - 1) \o <<Enter(e)>>
  <2>1. Progress(t, pr, s, state, e, v)
    BY <1>1, <1>2, Going
  <2>2. QED
    BY <1>1, <2>1 DEF Progress
<1>5. PICK r : r = stack'
  OBVIOUS
<1>6. Pushes(s, e, r)
  <2>1. s \in Seq(Levels) /\ Len(s) \in Nat
    BY <1>2, Types
  <2>2. PICK new : new = [node |-> entry, at |-> 0, name_size |-> tree.len[entry]]
    OBVIOUS
  <2>3. new.node = e /\ new.at = 0
    BY <1>2, <2>2
  <2>4. r = Append(s, new)
    BY <1>1, <1>2, <1>5, <2>2
  <2>5. Len(r) = Len(s) + 1 /\ r[Len(s) + 1] = new /\ \A k \in 1 .. Len(s) : r[k] = s[k]
    BY <2>1, <2>4
  <2>6. QED
    BY <2>3, <2>5 DEF Pushes
<1>7. Line(t, pr, r) /\ BeginsPushed(t, pr, s, b, e, r)
  BY <1>3, <1>4, <1>6, LinePush
<1>8. PICK c : /\ Begins(t, pr, r, c)
               /\ c[Len(r)] = b[Len(s)] \o Upto(t, pr, s[Len(s)].node, s[Len(s)].at - 1)
                                \o <<Enter(e)>>
  BY <1>7 DEF BeginsPushed
<1>9. Done(t, pr, r, c, r[Len(r)].at) = v
  <2>1. Upto(t, pr, e, 0) = <<>>
    BY <1>3, UptoZero
  <2>2. c[Len(r)] = v
    BY <1>4, <1>8 DEF Done
  <2>3. QED
    BY <1>3, <1>6, <2>1, <2>2, CatEmpty DEF Done, Pushes
<1>10. Progress(t, pr, r, "GET_ENTRY", e, v)
  BY <1>8, <1>9 DEF Progress
<1>11. QED
  BY <1>1, <1>2, <1>3, <1>5, <1>7, <1>10 DEF OrderOK, Walking

LEMMA AscendOrder == ASSUME IInv, OrderOK, Ascend PROVE OrderOK'
<1>1. /\ state = "ASCEND" /\ state \in Walking /\ call = "next"
      /\ stack' = SubSeq(stack, 1, Len(stack) - 1)
      /\ UNCHANGED <<tree, entry, pruned>>
  BY DEF Ascend, In, Walking
<1>2. PICK t, pr, s, v : t = tree /\ pr = pruned /\ s = stack /\ v = visited
  OBVIOUS
<1>3. /\ Tree(t) /\ Line(t, pr, s) /\ v \in Seq(Items) /\ pr \subseteq Shown(v)
      /\ Len(s) \in Nat /\ Len(s) >= 1 /\ Len(s) \in 1 .. Len(s)
      /\ s[Len(s)].at = Len(t.kids[s[Len(s)].node])
  BY <1>1, <1>2, Going DEF OrderOK, Top
<1>4. PICK b : Begins(t, pr, s, b) /\ v = Done(t, pr, s, b, s[Len(s)].at)
  <2>1. Progress(t, pr, s, state, entry, v)
    BY <1>1, <1>2, Going
  <2>2. QED
    BY <1>1, <2>1 DEF Progress
<1>5. v = b[Len(s)] \o Whole(t, pr, s[Len(s)].node)
  BY <1>3, <1>4 DEF Done, Whole
<1>6. CASE Len(stack) > 1
  <2>1. PICK n : n = s[Len(s)].node
    OBVIOUS
  <2>2. state' = "NAME_REMOVE" /\ call' = "item" /\ visited' = Append(visited, Leave(n))
    BY <1>2, <1>6, <2>1 DEF Ascend, Left, Top, Leave
  <2>3. n \in Nodes /\ Leave(n) \in Items /\ <<Leave(n)>> \in Seq(Items)
    BY <1>3, <2>1, LineTypes, ItemType
  <2>4. visited' = v \o <<Leave(n)>> /\ v \o <<Leave(n)>> \in Seq(Items)
    BY <1>2, <1>3, <2>2, <2>3, AppendIsConcat, Cat
  <2>5. PICK r : r = stack'
    OBVIOUS
  <2>6. Len(r) = Len(s) - 1 /\ \A k \in 1 .. Len(r) : r[k] = s[k]
    <3>1. s \in Seq(Levels) /\ r = SubSeq(s, 1, Len(s) - 1)
      BY <1>1, <1>2, <2>5, Types
    <3>2. PICK m \in Nat : m = Len(s) - 1
      BY <1>3
    <3>3. \A k \in 1 .. m : k \in 1 .. Len(s)
      BY <1>3, <3>2
    <3>4. /\ Len(SubSeq(s, 1, m)) = m
          /\ \A k \in 1 .. m : SubSeq(s, 1, m)[k] = s[k]
      BY <3>1, <3>2, <3>3
    <3>5. QED
      BY <3>1, <3>2, <3>4
  <2>7. Len(s) >= 2 /\ Len(s) \in 2 .. Len(s)
    BY <1>2, <1>3, <1>6
  <2>8. Line(t, pr, r)
    BY <1>3, <1>4, <2>6, <2>7, LinePop
  <2>9. PICK c : Begins(t, pr, r, c) /\ c[Len(r)] = b[Len(s) - 1]
    BY <1>3, <1>4, <2>6, <2>7, LinePop
  <2>10. Completes(t, pr, s, b, Len(s))
    BY <1>3, <1>4, <2>7, LeaveLevel
  <2>11. Done(t, pr, r, c, r[Len(r)].at) = v \o <<Leave(n)>>
    <3>1. Len(r) \in 1 .. Len(r)
      BY <1>3, <2>6, <2>7
    <3>2. r[Len(r)] = s[Len(s) - 1]
      BY <2>6, <3>1
    <3>3. b[Len(s) - 1] \o Upto(t, pr, s[Len(s) - 1].node, s[Len(s) - 1].at)
             = (b[Len(s)] \o Whole(t, pr, s[Len(s)].node)) \o <<Leave(s[Len(s)].node)>>
      BY <2>10 DEF Completes
    <3>4. QED
      BY <1>5, <2>1, <2>9, <3>2, <3>3 DEF Done
  <2>12. Progress(t, pr, r, "NAME_REMOVE", entry', v \o <<Leave(n)>>)
    BY <2>9, <2>11 DEF Progress
  <2>13. pr \subseteq Shown(v \o <<Leave(n)>>)
    BY <1>3, <2>3, ShownCat
  <2>14. QED
    BY <1>1, <1>2, <1>3, <2>2, <2>4, <2>5, <2>8, <2>12, <2>13 DEF OrderOK, Walking
<1>7. CASE ~ (Len(stack) > 1)
  <2>1. state' = "FINISHED" /\ UNCHANGED <<call, visited>>
    BY <1>7 DEF Ascend
  <2>2. Len(s) = 1
    <3>1. ~ (Len(s) > 1)
      BY <1>2, <1>7
    <3>2. PICK n \in Nat : n = Len(s) /\ n >= 1 /\ ~ (n > 1)
      BY <1>3, <3>1
    <3>3. n = 1
      BY <3>2
    <3>4. QED
      BY <3>2, <3>3
  <2>3. b[1] = <<>> /\ s[1].node = Root /\ Root \in t.dirs
    BY <1>3, <1>4, <2>2 DEF Begins, Line, Tree, IsTree
  <2>4. v = Whole(t, pr, Root)
    <3>1. Whole(t, pr, Root) \in Seq(Items)
      BY <1>3, <2>3, WholeType
    <3>2. QED
      BY <1>5, <2>2, <2>3, <3>1, CatEmpty
  <2>5. QED
    BY <1>1, <1>2, <1>3, <2>1, <2>4 DEF OrderOK, Walking
<1>8. QED
  BY <1>6, <1>7

\* The remaining steps keep what was given and where the traversal is.
LEMMA StayOrder ==
    ASSUME IInv, OrderOK, NameRemove \/ CallNext \/ Finished \/ UNCHANGED vars
    PROVE  OrderOK'
<1>1. /\ UNCHANGED <<tree, stack, entry, visited, pruned>>
      /\ \/ state' = state /\ call' \in {call, "next"}
         \/ state' = state /\ state = "FINISHED"
         \/ state = "NAME_REMOVE" /\ state' = "GET_ENTRY" /\ call' = "next"
  BY DEF NameRemove, CallNext, Finished, In, vars
<1>2. CASE state' = state
  BY <1>1, <1>2 DEF OrderOK, Top
<1>3. CASE state = "NAME_REMOVE" /\ state' = "GET_ENTRY" /\ call' = "next"
  <2>1. Progress(tree, pruned, stack, "GET_ENTRY", entry, visited) /\ Line(tree, pruned, stack)
    <3>1. Progress(tree, pruned, stack, "NAME_REMOVE", entry, visited) /\ Line(tree, pruned, stack)
      BY <1>3, Going DEF Walking
    <3>2. QED
      BY <3>1 DEF Progress
  <2>2. QED
    BY <1>1, <1>3, <2>1 DEF OrderOK, Walking
<1>4. QED
  BY <1>1, <1>2, <1>3

(* What the client has been given is always a beginning of the walk, and   *)
(* the levels are in their places in the tree.                             *)
THEOREM OrderInductive == Spec => []OrderOK
<1>1. Init => OrderOK
  BY InitOrder
<1>2. IInv /\ OrderOK /\ [Next]_vars => OrderOK'
  <2>1. SUFFICES ASSUME IInv, OrderOK, [Next]_vars PROVE OrderOK'
    OBVIOUS
  <2>2. CASE Open
    BY <2>1, <2>2, OpenOrder
  <2>3. CASE OpenNoPath \/ OpenFail \/ Close \/ Fail
    <3>1. state' = "ERROR" /\ call' # "over" /\ UNCHANGED <<tree, visited, pruned>>
      BY <2>3 DEF OpenNoPath, OpenFail, Close, CloseEffect, Fail
    <3>2. QED
      BY <2>1, <3>1, StopOrder
  <2>4. CASE NameRemove \/ CallNext \/ Finished \/ Crashed \/ UNCHANGED vars
    BY <2>1, <2>4, StayOrder DEF Crashed
  <2>5. CASE Prune
    BY <2>1, <2>5, PruneOrder
  <2>6. CASE GetEntry
    BY <2>1, <2>6, GetEntryOrder
  <2>7. CASE NameAdd
    BY <2>1, <2>7, NameAddOrder
  <2>8. CASE Descend
    BY <2>1, <2>8, DescendOrder
  <2>9. CASE Ascend
    BY <2>1, <2>9, AscendOrder
  <2>10. QED
    BY <2>1, <2>2, <2>3, <2>4, <2>5, <2>6, <2>7, <2>8, <2>9 DEF Next, Step
<1>3. QED
  BY <1>1, <1>2, Inductive, PTL DEF Spec

(* traverse.h: in any tree, with anything pruned, the client is given      *)
(* every item in the order of the walk, a directory before and after what  *)
(* is in it, nothing twice and nothing left out; it is told that there are *)
(* no more items only when it has had them all.                            *)
THEOREM OrderCorrect == Spec => []InOrder
<1>1. IInv /\ OrderOK => InOrder
  <2>1. SUFFICES ASSUME IInv, OrderOK PROVE InOrder
    OBVIOUS
  <2>2. WholeWalk = Whole(tree, pruned, Root)
    BY DEF WholeWalk, Walk, Places, Whole, Upto, WalkOf, WalkAt, PlacesOf, Enter, Leave
  <2>3. Tree(tree) /\ Root \in tree.dirs /\ visited \in Seq(Items)
    BY <2>1 DEF OrderOK, Tree, IsTree, IInv, TypeOK
  <2>4. Whole(tree, pruned, Root) \in Seq(Items)
    BY <2>3, WholeType
  <2>5. IsPrefix(visited, Whole(tree, pruned, Root))
    BY <2>1, <2>3, <2>4, AlwaysStarts, StartsPrefix
  <2>6. call = "over" => visited = Whole(tree, pruned, Root)
    BY <2>1 DEF OrderOK
  <2>7. QED
    BY <2>2, <2>5, <2>6 DEF InOrder
<1>2. QED
  BY <1>1, Inductive, OrderInductive, PTL
=============================================================================
