--------------------------- MODULE InodeMapProofs ---------------------------
(***************************************************************************)
(* Proofs that the inode conversions of ll_inode.c lose nothing, for every *)
(* width of the integers and every root inode, and that the 32-bit inode   *)
(* map keeps what the kernel holds, for any files, table sizes and bounds, *)
(* as long as one thread serves the session.                               *)
(***************************************************************************)
EXTENDS InodeMap, FiniteSetTheorems, SequenceTheorems, WellFoundedInduction, TLAPS

-----------------------------------------------------------------------------
(***************************************************************************)
(* The conversions.                                                        *)
(***************************************************************************)
(* 32-bit conversion: every number but the very last turns into a non-zero *)
(* fuse_ino_t that turns back into it, and only the root is called 1.  The *)
(* last number is the one the FIXME of ll_inode.c:135 is about.            *)
THEOREM Ino32RoundTrip ==
    ASSUME NEW root \in 0 .. Limit - 2, NEW n \in 0 .. Limit - 2
    PROVE  /\ fuse2num(root, num2fuse(root, n)) = n
           /\ num2fuse(root, n) \in 1 .. Limit - 1
           /\ num2fuse(root, n) = FUSE_ROOT_ID <=> n = root
<1> USE LimitAssumption DEF num2fuse, fuse2num, Wrap, FUSE_ROOT_ID
<1>1. CASE n = root
  BY <1>1
<1>2. CASE n # root /\ n = 0
  BY <1>2
<1>3. CASE n # root /\ n # 0
  BY <1>3
<1>4. QED
  BY <1>1, <1>2, <1>3

(* Distinct inodes get distinct fuse_ino_t.                                *)
THEOREM Ino32Injective ==
    ASSUME NEW root \in 0 .. Limit - 2,
           NEW m \in 0 .. Limit - 2, NEW n \in 0 .. Limit - 2,
           num2fuse(root, m) = num2fuse(root, n)
    PROVE  m = n
  BY Ino32RoundTrip

(* The last inode number becomes 0, "no such file": the overflow that the  *)
(* comment of ll_inode.c announces is real, and it is the only one.        *)
THEOREM Ino32Overflow ==
    ASSUME NEW root \in 0 .. Limit - 2, NEW n \in Nums
    PROVE  num2fuse(root, n) = FUSE_INODE_NONE <=> n = Limit - 1
  BY LimitAssumption DEF num2fuse, Wrap, FUSE_ROOT_ID, FUSE_INODE_NONE, Nums

(* 64-bit conversion: exact for every id but 1 and 2, which no inode has   *)
(* because the first inode is at 0 and longer than two bytes.              *)
THEOREM Ino64RoundTrip ==
    ASSUME NEW root \in Nat \ {1, 2}, NEW id \in Nat \ {1, 2}
    PROVE  /\ ino64_sqfs(root, ino64_fuse(root, id)) = id
           /\ ino64_fuse(root, id) # FUSE_INODE_NONE
           /\ ino64_fuse(root, id) = FUSE_ROOT_ID <=> id = root
  BY DEF ino64_sqfs, ino64_fuse, FUSE_ROOT_ID, FUSE_INODE_NONE

-----------------------------------------------------------------------------
(***************************************************************************)
(* Sums of forgets.                                                        *)
(***************************************************************************)
\* Induction, for a set of numbers in the place of a predicate.
LEMMA Induct ==
    ASSUME NEW S, 0 \in S, \A n \in Nat : n \in S => n + 1 \in S
    PROVE  Nat \subseteq S
<1> DEFINE R == OpToRel(<, Nat)
           T == Nat \ S
<1>1. SUFFICES ASSUME T # {} PROVE FALSE
  OBVIOUS
<1>2. IsWellFoundedOn(R, Nat)
  BY NatLessThanWellFounded
<1>3. \A m, n \in Nat : <<m, n>> \in R <=> m < n
  BY DEF OpToRel
<1>4. T \in SUBSET Nat
  OBVIOUS
<1> HIDE DEF R, T
<1>5. PICK n \in T : \A m \in T : ~ (<<m, n>> \in R)
  BY <1>1, <1>2, <1>4, WFMin
<1>6. n \in Nat /\ n \notin S /\ n # 0
  BY <1>5 DEF T
<1>7. n - 1 \in Nat /\ n - 1 < n /\ (n - 1) + 1 = n
  BY <1>6
<1>8. n - 1 \in T
  BY <1>6, <1>7 DEF T
<1>9. QED
  BY <1>3, <1>5, <1>6, <1>7, <1>8

\* What it means that f has the sums of the first elements of s, up to m.
Sums(f, s, m) == f = [i \in 0 .. m |-> IF i = 0 THEN 0 ELSE f[i - 1] + s[i]]

LEMMA TotalsUnfold ==
    ASSUME NEW s, Len(s) \in Nat
    PROVE  Sums(Totals(s), s, Len(s))
<1> DEFINE S == {m \in Nat : \E f : Sums(f, s, m)}
<1>1. 0 \in S
  <2>1. Sums([i \in 0 .. 0 |-> 0], s, 0)
    BY DEF Sums
  <2>2. QED
    BY <2>1
<1>2. ASSUME NEW m \in Nat, m \in S PROVE m + 1 \in S
  <2>1. PICK f : Sums(f, s, m)
    BY <1>2
  <2> DEFINE g == [i \in 0 .. m + 1 |-> IF i = 0 THEN 0 ELSE f[i - 1] + s[i]]
  <2>2. \A i \in 0 .. m : g[i] = f[i]
    BY <2>1 DEF Sums
  <2>3. \A i \in 0 .. m + 1 : i # 0 => i - 1 \in 0 .. m
    OBVIOUS
  <2>4. \A i \in 0 .. m + 1 : i # 0 => f[i - 1] = g[i - 1]
    BY <2>2, <2>3
  <2>5. g = [i \in 0 .. m + 1 |-> IF i = 0 THEN 0 ELSE g[i - 1] + s[i]]
    BY <2>4, Zenon
  <2>6. \E f2 : Sums(f2, s, m + 1)
    BY <2>5 DEF Sums
  <2>7. QED
    BY <2>6
<1> HIDE DEF S
<1>3. Len(s) \in S
  BY <1>1, <1>2, Induct
<1>4. \E f : Sums(f, s, Len(s))
  BY <1>3 DEF S
<1>5. Totals(s) = CHOOSE f : Sums(f, s, Len(s))
  BY DEF Totals, Sums
<1>6. QED
  BY <1>4, <1>5

LEMMA TotalsStep ==
    ASSUME NEW s, Len(s) \in Nat
    PROVE  /\ Totals(s)[0] = 0
           /\ \A i \in 1 .. Len(s) : Totals(s)[i] = Totals(s)[i - 1] + s[i]
<1>1. PICK f : f = Totals(s)
  OBVIOUS
<1>2. f = [i \in 0 .. Len(s) |-> IF i = 0 THEN 0 ELSE f[i - 1] + s[i]]
  BY <1>1, TotalsUnfold DEF Sums
<1>3. f[0] = 0 /\ \A i \in 1 .. Len(s) : f[i] = f[i - 1] + s[i]
  BY <1>2
<1>4. QED
  BY <1>1, <1>3

LEMMA TotalsType ==
    ASSUME NEW s \in Seq(Nat)
    PROVE  \A i \in 0 .. Len(s) : Totals(s)[i] \in Nat
<1> DEFINE S == {i \in Nat : i <= Len(s) => Totals(s)[i] \in Nat}
<1>1. Len(s) \in Nat
  OBVIOUS
<1>2. 0 \in S
  BY <1>1, TotalsStep
<1>3. ASSUME NEW i \in Nat, i \in S PROVE i + 1 \in S
  <2>1. SUFFICES ASSUME i + 1 <= Len(s) PROVE Totals(s)[i + 1] \in Nat
    OBVIOUS
  <2>2. Totals(s)[i] \in Nat
    BY <1>1, <1>3, <2>1
  <2>3. i + 1 \in 1 .. Len(s) /\ (i + 1) - 1 = i
    BY <1>1, <2>1
  <2>4. Totals(s)[i + 1] = Totals(s)[i] + s[i + 1]
    BY <1>1, <2>3, TotalsStep
  <2>5. s[i + 1] \in Nat
    BY <2>3
  <2>6. QED
    BY <2>2, <2>4, <2>5
<1> HIDE DEF S
<1>4. Nat \subseteq S
  BY <1>2, <1>3, Induct
<1>5. QED
  BY <1>1, <1>4 DEF S

\* The sum of a sequence, as Pending takes it.
Sum0(s) == Totals(s)[Len(s)]

LEMMA SumType ==
    ASSUME NEW s \in Seq(Nat)
    PROVE  Sum0(s) \in Nat /\ Sum0(<<>>) = 0
<1>1. Len(s) \in 0 .. Len(s) /\ Len(<<>>) = 0
  OBVIOUS
<1>2. QED
  BY <1>1, TotalsType, TotalsStep DEF Sum0

LEMMA SumAppend ==
    ASSUME NEW s \in Seq(Nat), NEW r \in Nat
    PROVE  Sum0(Append(s, r)) = Sum0(s) + r
<1>1. PICK u \in Seq(Nat) : u = Append(s, r)
  BY AppendProperties
<1>2. /\ Len(s) \in Nat /\ Len(u) = Len(s) + 1 /\ u[Len(s) + 1] = r
      /\ \A i \in 1 .. Len(s) : u[i] = s[i]
  BY <1>1
<1> DEFINE S == {i \in Nat : i <= Len(s) => Totals(u)[i] = Totals(s)[i]}
<1>3. 0 \in S
  BY <1>2, TotalsStep
<1>4. ASSUME NEW i \in Nat, i \in S PROVE i + 1 \in S
  <2>1. SUFFICES ASSUME i + 1 <= Len(s) PROVE Totals(u)[i + 1] = Totals(s)[i + 1]
    OBVIOUS
  <2>2. /\ i + 1 \in 1 .. Len(s) /\ i + 1 \in 1 .. Len(u) /\ (i + 1) - 1 = i
        /\ Len(u) \in Nat
    BY <1>2, <2>1
  <2>3. Totals(u)[i] = Totals(s)[i]
    BY <1>2, <1>4, <2>1
  <2>4. Totals(u)[i + 1] = Totals(u)[i] + u[i + 1] /\ Totals(s)[i + 1] = Totals(s)[i] + s[i + 1]
    BY <1>2, <2>2, TotalsStep
  <2>5. u[i + 1] = s[i + 1]
    BY <1>2, <2>2
  <2>6. QED
    BY <2>3, <2>4, <2>5
<1> HIDE DEF S
<1>5. Nat \subseteq S
  BY <1>3, <1>4, Induct
<1>6. Totals(u)[Len(s)] = Totals(s)[Len(s)]
  BY <1>2, <1>5 DEF S
<1>7. Len(u) \in 1 .. Len(u) /\ Len(u) \in Nat /\ Len(u) - 1 = Len(s)
  BY <1>2
<1>8. Totals(u)[Len(u)] = Totals(u)[Len(u) - 1] + u[Len(u)]
  BY <1>7, TotalsStep
<1>9. Totals(u)[Len(u)] = Totals(s)[Len(s)] + r
  BY <1>2, <1>6, <1>7, <1>8
<1>10. QED
  BY <1>1, <1>9 DEF Sum0

LEMMA SumTail ==
    ASSUME NEW s \in Seq(Nat), s # <<>>
    PROVE  Head(s) \in Nat /\ Tail(s) \in Seq(Nat) /\ Sum0(s) = Sum0(Tail(s)) + Head(s)
<1>1. PICK u \in Seq(Nat), h \in Nat : u = Tail(s) /\ h = Head(s)
  BY HeadTailProperties
<1>2. /\ Len(u) \in Nat /\ Len(s) = Len(u) + 1 /\ s[1] = h
      /\ \A i \in 1 .. Len(u) : u[i] = s[i + 1]
  BY <1>1, HeadTailProperties
<1> DEFINE S == {i \in Nat : i <= Len(u) => Totals(s)[i + 1] = Totals(u)[i] + h}
<1>3. 0 \in S
  <2>1. 1 \in 1 .. Len(s) /\ 1 - 1 = 0 /\ 0 + 1 = 1 /\ Len(s) \in Nat
    BY <1>2
  <2>2. Totals(s)[1] = Totals(s)[0] + s[1] /\ Totals(s)[0] = 0 /\ Totals(u)[0] = 0
    BY <1>2, <2>1, TotalsStep
  <2>3. QED
    BY <1>2, <2>1, <2>2
<1>4. ASSUME NEW i \in Nat, i \in S PROVE i + 1 \in S
  <2>1. SUFFICES ASSUME i + 1 <= Len(u) PROVE Totals(s)[(i + 1) + 1] = Totals(u)[i + 1] + h
    OBVIOUS
  <2>2. /\ i + 1 \in 1 .. Len(u) /\ (i + 1) + 1 \in 1 .. Len(s) /\ Len(s) \in Nat
        /\ (i + 1) - 1 = i /\ ((i + 1) + 1) - 1 = i + 1
    BY <1>2, <2>1
  <2>3. Totals(s)[i + 1] = Totals(u)[i] + h
    BY <1>2, <1>4, <2>1
  <2>4. /\ Totals(u)[i + 1] = Totals(u)[i] + u[i + 1]
        /\ Totals(s)[(i + 1) + 1] = Totals(s)[i + 1] + s[(i + 1) + 1]
    BY <1>2, <2>2, TotalsStep
  <2>5. u[i + 1] = s[(i + 1) + 1] /\ u[i + 1] \in Nat
    BY <1>2, <2>2
  <2>6. Totals(u)[i] \in Nat
    BY <1>2, <2>1, TotalsType
  <2>7. QED
    BY <2>3, <2>4, <2>5, <2>6
<1> HIDE DEF S
<1>5. Nat \subseteq S
  BY <1>3, <1>4, Induct
<1>6. Totals(s)[Len(u) + 1] = Totals(u)[Len(u)] + h
  BY <1>2, <1>5 DEF S
<1>7. QED
  BY <1>1, <1>2, <1>6 DEF Sum0

-----------------------------------------------------------------------------
(***************************************************************************)
(* The inductive invariant, for the thread t that serves the session.      *)
(***************************************************************************)
\* No inode has the number that the conversion maps to 0.
NumbersFit == Limit - 1 \notin Files \cup {Root}

\* A file has at most one entry, and an entry belongs to one file.
ShapeOK ==
    /\ \A n \in Files : chain[n] = <<>> \/ \E c \in Cells : chain[n] = <<c>>
    /\ \A m, n \in Files : m # n /\ chain[m] # <<>> /\ chain[n] # <<>> => chain[m][1] # chain[n][1]

TableOK ==
    /\ Chained \subseteq cells
    /\ IsFiniteSet(Chained)
    /\ size = Cardinality(Chained)
    /\ size <= capacity
    /\ ~ starved => cells = Chained

\* What the handler has found still stands when it writes.
HandlerOK(t) ==
    /\ pc[t] \in {"linc", "ladd", "fdec"} => capacity > 0
    /\ pc[t] \in {"linc", "fdec"} =>
         /\ chain[num[t]] # <<>>
         /\ ie[t] = chain[num[t]][1] /\ seen[t] = refcount[ie[t]]
    /\ pc[t] = "ladd" => chain[num[t]] = <<>>
    /\ pc[t] = "lreply" => (result[t] = FUSE_INODE_NONE => starved)

\* A lookup that is being answered, as the bound counts it.
Looking(t, n) ==
    IF num[t] = n /\ pc[t] \in {"lget", "linc", "ladd", "lreply"} THEN 1 ELSE 0

BoundOK(t) == \A n \in Files : known[n] + Pending(n) + Looking(t, n) <= MaxLookups

\* The count of a file's entry, and what the handler has of it.
Counted(n) == IF chain[n] = <<>> THEN 0 ELSE refcount[chain[n][1]]

InHand(t, n) ==
    IF num[t] # n THEN 0
    ELSE IF pc[t] = "lreply" /\ result[t] # FUSE_INODE_NONE THEN 1
    ELSE IF pc[t] \in {"fget", "fdec"} THEN refs[t] ELSE 0

(* An entry counts the lookups the kernel has, those it is giving back,    *)
(* those in the handler and those that are lost.                           *)
CountOK(t) ==
    ~ starved =>
        /\ negative = {}
        /\ \A n \in Files : Counted(n) = known[n] + Pending(n) + lost[n] + InHand(t, n)

IInv(t) ==
    /\ TypeOK
    /\ ShapeOK
    /\ TableOK
    /\ HandlerOK(t)
    /\ BoundOK(t)
    /\ CountOK(t)

LEMMA NumbersType ==
    ASSUME NumbersFit, NEW n \in Files
    PROVE  /\ num2fuse(Root, n) \in Nums /\ num2fuse(Root, n) # FUSE_INODE_NONE
           /\ fuse2num(Root, num2fuse(Root, n)) = n
<1>1. Root \in 0 .. Limit - 2 /\ n \in 0 .. Limit - 2
  BY FilesAssumption, LimitAssumption DEF NumbersFit, Nums
<1>2. QED
  BY <1>1, Ino32RoundTrip, LimitAssumption DEF Nums, FUSE_INODE_NONE

LEMMA PendingIs ==
    ASSUME TypeOK, NEW n \in Files
    PROVE  /\ sent[n] \in Seq(Nat) /\ sent[n] \in Seq(1 .. MaxLookups)
           /\ Pending(n) = Sum0(sent[n]) /\ Pending(n) \in Nat
<1>1. sent[n] \in Seq(1 .. MaxLookups)
  BY DEF TypeOK
<1>2. sent[n] \in Seq(Nat)
  <2>1. Len(sent[n]) \in Nat /\ sent[n] \in [1 .. Len(sent[n]) -> 1 .. MaxLookups]
    BY <1>1, LenProperties
  <2>2. sent[n] \in [1 .. Len(sent[n]) -> Nat]
    BY <2>1, BoundsAssumption
  <2>3. QED
    BY <2>1, <2>2, SeqDef
<1>3. QED
  BY <1>1, <1>2, SumType DEF Pending, Sum0

LEMMA PendingKept ==
    ASSUME NEW n, sent'[n] = sent[n]
    PROVE  Pending(n)' = Pending(n)
  BY DEF Pending

\* The table of a session that one thread serves.
LEMMA EntriesIs ==
    ASSUME NEW ch \in [Files -> Seq(Cells)],
           \A n \in Files : ch[n] = <<>> \/ \E c \in Cells : ch[n] = <<c>>
    PROVE  /\ \A c : c \in UNION {ToSet(ch[n]) : n \in Files}
                       <=> \E n \in Files : ch[n] # <<>> /\ ch[n][1] = c
           /\ \A n \in Files : ch[n] # <<>> => ch[n][1] \in Cells
<1>1. \A n \in Files : ch[n] # <<>> => ToSet(ch[n]) = {ch[n][1]} /\ ch[n][1] \in Cells
  BY DEF ToSet
<1>2. \A n \in Files : ch[n] = <<>> => ToSet(ch[n]) = {}
  BY DEF ToSet
<1>3. \A c : c \in UNION {ToSet(ch[n]) : n \in Files} <=> \E n \in Files : c \in ToSet(ch[n])
  OBVIOUS
<1>4. \A c : \A n \in Files : c \in ToSet(ch[n]) <=> ch[n] # <<>> /\ ch[n][1] = c
  BY <1>1, <1>2
<1>5. QED
  BY <1>1, <1>3, <1>4

LEMMA ChainedIs ==
    ASSUME TypeOK, ShapeOK
    PROVE  /\ \A c : c \in Chained <=> \E n \in Files : chain[n] # <<>> /\ chain[n][1] = c
           /\ \A n \in Files : chain[n] # <<>> => chain[n][1] \in Cells
<1>1. chain \in [Files -> Seq(Cells)]
  BY DEF TypeOK
<1>2. \A n \in Files : chain[n] = <<>> \/ \E c \in Cells : chain[n] = <<c>>
  BY DEF ShapeOK
<1>3. QED
  BY <1>1, <1>2, EntriesIs DEF Chained

LEMMA ChainedNext ==
    ASSUME TypeOK', ShapeOK'
    PROVE  \A c : c \in Chained' <=> \E n \in Files : chain'[n] # <<>> /\ chain'[n][1] = c
<1>1. chain' \in [Files -> Seq(Cells)]
  BY DEF TypeOK
<1>2. \A n \in Files : chain'[n] = <<>> \/ \E c \in Cells : chain'[n] = <<c>>
  BY DEF ShapeOK
<1>3. QED
  BY <1>1, <1>2, EntriesIs DEF Chained

LEMMA CountsType ==
    ASSUME TypeOK, NEW n \in Files
    PROVE  known[n] \in Nat /\ Pending(n) \in Nat /\ lost[n] \in Nat /\ MaxLookups \in Nat
<1>1. known[n] \in 0 .. MaxLookups /\ lost[n] \in Nat
  BY DEF TypeOK
<1>2. QED
  BY <1>1, PendingIs, BoundsAssumption

LEMMA DoubledSame ==
    ASSUME TypeOK, ShapeOK
    PROVE  Doubled = chain
<1>1. \A n \in Files : Reverse(chain[n]) = chain[n]
  <2>1. Reverse(<<>>) = <<>>
    BY DEF Reverse
  <2>2. \A c \in Cells : Reverse(<<c>>) = <<c>>
    BY DEF Reverse
  <2>3. QED
    BY <2>1, <2>2 DEF ShapeOK
<1>2. QED
  BY <1>1 DEF Doubled, TypeOK

\* A step that leaves the table alone.
LEMMA TableKept ==
    ASSUME ShapeOK, TableOK, UNCHANGED <<capacity, size, chain, cells, starved>>
    PROVE  ShapeOK' /\ TableOK'
<1>1. ShapeOK'
  BY DEF ShapeOK
<1>2. Chained' = Chained
  BY DEF Chained
<1>3. QED
  BY <1>1, <1>2 DEF TableOK

\* Nothing that is counted changes.
LEMMA CountsKept ==
    ASSUME NEW t, BoundOK(t), CountOK(t),
           UNCHANGED <<chain, refcount, known, sent, negative, lost, starved>>,
           \A n \in Files : Looking(t, n)' = Looking(t, n) /\ InHand(t, n)' = InHand(t, n)
    PROVE  BoundOK(t)' /\ CountOK(t)'
<1>1. \A n : Pending(n)' = Pending(n) /\ Counted(n)' = Counted(n)
  BY DEF Pending, Counted
<1>2. BoundOK(t)'
  BY <1>1 DEF BoundOK
<1>3. CountOK(t)'
  BY <1>1 DEF CountOK
<1>4. QED
  BY <1>2, <1>3

LEMMA LookupStartKeeps ==
    ASSUME NEW t, Threads = {t}, IInv(t), LookupStart(t)
    PROVE  IInv(t)'
<1>1. TypeOK /\ ShapeOK /\ TableOK /\ HandlerOK(t) /\ BoundOK(t) /\ CountOK(t) /\ t \in Threads
  BY DEF IInv
<1>2. PICK n \in Files : Outstanding(n) < MaxLookups /\ num' = [num EXCEPT ![t] = n]
  BY DEF LookupStart
<1>3. /\ pc[t] = "idle" /\ pc'[t] = "lget" /\ num'[t] = n
      /\ UNCHANGED <<capacity, size, chain, cells, refcount, known, sent, negative, lost, starved>>
  BY <1>1, <1>2 DEF LookupStart, Goto, tableVars, kernelVars, outcome, TypeOK
<1>4. TypeOK'
  BY <1>1, <1>2 DEF LookupStart, Goto, tableVars, kernelVars, outcome, TypeOK
<1>5. ShapeOK' /\ TableOK'
  BY <1>1, <1>3, TableKept
<1>6. HandlerOK(t)'
  BY <1>3 DEF HandlerOK
<1>7. BoundOK(t)'
  <2>1. InFlight(n) = {}
    BY <1>3 DEF InFlight
  <2>2. Cardinality(InFlight(n)) = 0
    BY <2>1, FS_EmptySet
  <2>3. known[n] \in Nat /\ Pending(n) \in Nat /\ MaxLookups \in Nat
    BY <1>1, CountsType
  <2>4. known[n] + Pending(n) + 1 <= MaxLookups
    BY <1>2, <2>2, <2>3 DEF Outstanding
  <2>5. \A m \in Files : Pending(m)' = Pending(m) /\ known'[m] = known[m]
    BY <1>3, PendingKept
  <2>6. \A m \in Files : Looking(t, m)' = (IF m = n THEN 1 ELSE Looking(t, m))
    BY <1>3 DEF Looking
  <2>7. QED
    BY <1>1, <2>4, <2>5, <2>6 DEF BoundOK
<1>8. CountOK(t)'
  <2>1. \A m \in Files : InHand(t, m)' = 0 /\ InHand(t, m) = 0
    BY <1>3 DEF InHand
  <2>2. \A m \in Files : Pending(m)' = Pending(m) /\ Counted(m)' = Counted(m)
    BY <1>3 DEF Pending, Counted
  <2>3. QED
    BY <1>1, <1>3, <2>1, <2>2 DEF CountOK
<1>9. QED
  BY <1>4, <1>5, <1>6, <1>7, <1>8 DEF IInv

LEMMA LookupFoundKeeps ==
    ASSUME NEW t, Threads = {t}, IInv(t), LookupFound(t)
    PROVE  IInv(t)'
<1>1. TypeOK /\ ShapeOK /\ TableOK /\ HandlerOK(t) /\ BoundOK(t) /\ CountOK(t) /\ t \in Threads
  BY DEF IInv
<1>2. num[t] \in Files /\ chain[num[t]] \in Seq(Cells) /\ chain[num[t]] # <<>>
  BY <1>1 DEF LookupFound, TypeOK
<1>3. PICK c \in Cells : c = Head(chain[num[t]]) /\ c = chain[num[t]][1]
  BY <1>2
<1>4. /\ pc[t] = "lget" /\ pc'[t] = "linc" /\ ie'[t] = c /\ seen'[t] = refcount[c] /\ capacity > 0
      /\ UNCHANGED <<num, refs, result>>
      /\ UNCHANGED <<capacity, size, chain, cells, refcount, known, sent, negative, lost, starved>>
  BY <1>1, <1>3 DEF LookupFound, Goto, tableVars, kernelVars, outcome, TypeOK
<1>5. TypeOK'
  BY <1>1, <1>3 DEF LookupFound, Goto, tableVars, kernelVars, outcome, TypeOK
<1>6. ShapeOK' /\ TableOK'
  BY <1>1, <1>4, TableKept
<1>7. HandlerOK(t)'
  BY <1>2, <1>3, <1>4 DEF HandlerOK
<1>8. \A n \in Files : Looking(t, n)' = Looking(t, n) /\ InHand(t, n)' = InHand(t, n)
  BY <1>4 DEF Looking, InHand
<1>9. BoundOK(t)' /\ CountOK(t)'
  BY <1>1, <1>4, <1>8, CountsKept
<1>10. QED
  BY <1>5, <1>6, <1>7, <1>9 DEF IInv

LEMMA LookupAbsentKeeps ==
    ASSUME NEW t, Threads = {t}, IInv(t), LookupAbsent(t)
    PROVE  IInv(t)'
<1>1. TypeOK /\ ShapeOK /\ TableOK /\ HandlerOK(t) /\ BoundOK(t) /\ CountOK(t) /\ t \in Threads
  BY DEF IInv
<1>2. /\ pc[t] = "lget" /\ pc'[t] = "ladd" /\ capacity > 0 /\ chain[num[t]] = <<>>
      /\ UNCHANGED <<num, refs, result>>
      /\ UNCHANGED <<capacity, size, chain, cells, refcount, known, sent, negative, lost, starved>>
  BY <1>1 DEF LookupAbsent, Goto, tableVars, kernelVars, outcome, TypeOK
<1>3. TypeOK'
  BY <1>1 DEF LookupAbsent, Goto, tableVars, kernelVars, outcome, TypeOK
<1>4. ShapeOK' /\ TableOK'
  BY <1>1, <1>2, TableKept
<1>5. HandlerOK(t)'
  BY <1>2 DEF HandlerOK
<1>6. \A n \in Files : Looking(t, n)' = Looking(t, n) /\ InHand(t, n)' = InHand(t, n)
  BY <1>2 DEF Looking, InHand
<1>7. BoundOK(t)' /\ CountOK(t)'
  BY <1>1, <1>2, <1>6, CountsKept
<1>8. QED
  BY <1>3, <1>4, <1>5, <1>7 DEF IInv

LEMMA LookupIncKeeps ==
    ASSUME NEW t, Threads = {t}, NumbersFit, IInv(t), LookupInc(t)
    PROVE  IInv(t)'
<1>1. TypeOK /\ ShapeOK /\ TableOK /\ HandlerOK(t) /\ BoundOK(t) /\ CountOK(t) /\ t \in Threads
  BY DEF IInv
<1>2. PICK n \in Files : n = num[t]
  BY <1>1 DEF TypeOK
<1>3. /\ num2fuse(Root, n) \in Nums /\ num2fuse(Root, n) # FUSE_INODE_NONE
  BY NumbersType
<1>4. pc[t] = "linc"
  BY DEF LookupInc
<1>5. PICK c \in Cells : c = ie[t] /\ c = chain[n][1] /\ chain[n] # <<>> /\ seen[t] = refcount[c]
  BY <1>1, <1>2, <1>4, ChainedIs DEF HandlerOK
<1>6. refcount[c] \in Nat
  BY <1>1 DEF TypeOK
<1>7. /\ pc'[t] = "lreply" /\ result'[t] # FUSE_INODE_NONE
      /\ refcount' = [refcount EXCEPT ![c] = refcount[c] + 1]
      /\ UNCHANGED <<num, refs, capacity, size, chain, cells, known, sent, negative, lost, starved>>
  BY <1>1, <1>2, <1>3, <1>5 DEF LookupInc, Goto, kernelVars, outcome, TypeOK
<1>8. TypeOK'
  <2>1. refcount' \in [Cells -> Nat]
    BY <1>1, <1>6, <1>7 DEF TypeOK
  <2>2. QED
    BY <1>1, <1>2, <1>3, <2>1 DEF LookupInc, Goto, kernelVars, outcome, TypeOK
<1>9. ShapeOK' /\ TableOK'
  BY <1>1, <1>7, TableKept
<1>10. HandlerOK(t)'
  BY <1>7 DEF HandlerOK
<1>11. BoundOK(t)'
  <2>1. \A m \in Files : /\ Looking(t, m)' = Looking(t, m) /\ Pending(m)' = Pending(m)
                         /\ known'[m] = known[m]
    BY <1>4, <1>7 DEF Looking, Pending
  <2>2. QED
    BY <1>1, <2>1 DEF BoundOK
<1>12. CountOK(t)'
  <2>1. SUFFICES ASSUME ~ starved, NEW m \in Files
                 PROVE  Counted(m)' = known[m] + Pending(m) + lost[m] + InHand(t, m)'
    BY <1>1, <1>7 DEF CountOK, Pending
  <2>2. Counted(m) = known[m] + Pending(m) + lost[m] + InHand(t, m)
    BY <1>1, <2>1 DEF CountOK
  <2>3. known[m] \in Nat /\ Pending(m) \in Nat /\ lost[m] \in Nat
    BY <1>1, CountsType
  <2>4. CASE m = n
    <3>1. InHand(t, m) = 0 /\ InHand(t, m)' = 1
      BY <1>2, <1>4, <1>7, <2>4 DEF InHand
    <3>2. Counted(m)' = Counted(m) + 1
      BY <1>1, <1>5, <1>7, <2>4 DEF Counted, TypeOK
    <3>3. QED
      BY <2>2, <2>3, <3>1, <3>2
  <2>5. CASE m # n
    <3>1. InHand(t, m) = 0 /\ InHand(t, m)' = 0
      BY <1>2, <1>7, <2>5 DEF InHand
    <3>2. chain[m] # <<>> => chain[m][1] # c
      BY <1>1, <1>5, <2>5 DEF ShapeOK
    <3>3. chain[m] # <<>> => chain[m][1] \in Cells
      BY <1>1, ChainedIs
    <3>4. Counted(m)' = Counted(m)
      BY <1>1, <1>7, <3>2, <3>3 DEF Counted, TypeOK
    <3>5. QED
      BY <2>2, <2>3, <3>1, <3>4
  <2>6. QED
    BY <2>4, <2>5
<1>13. QED
  BY <1>8, <1>9, <1>10, <1>11, <1>12 DEF IInv

LEMMA AddOkKeeps ==
    ASSUME NEW t, Threads = {t}, NumbersFit, IInv(t), AddOk(t)
    PROVE  IInv(t)'
<1>1. TypeOK /\ ShapeOK /\ TableOK /\ HandlerOK(t) /\ BoundOK(t) /\ CountOK(t) /\ t \in Threads
  BY DEF IInv
<1>2. PICK n \in Files : n = num[t]
  BY <1>1 DEF TypeOK
<1>3. /\ num2fuse(Root, n) \in Nums /\ num2fuse(Root, n) # FUSE_INODE_NONE
  BY NumbersType
<1>4. pc[t] = "ladd" /\ chain[n] = <<>> /\ capacity > 0
  BY <1>1, <1>2 DEF AddOk, HandlerOK
<1>5. PICK c \in Cells \ cells :
         /\ cells' = cells \cup {c}
         /\ refcount' = [refcount EXCEPT ![c] = 1]
         /\ chain' = [(IF MustDouble THEN Doubled ELSE chain) EXCEPT ![n] = <<c>> \o @]
  BY <1>2 DEF AddOk
<1>6. chain' = [chain EXCEPT ![n] = <<c>>]
  <2>1. chain' = [chain EXCEPT ![n] = <<c>> \o chain[n]]
    BY <1>1, <1>5, DoubledSame
  <2>2. <<c>> \o chain[n] = <<c>>
    BY <1>4
  <2>3. QED
    BY <2>1, <2>2
<1>7. /\ capacity \in Nat /\ size \in Nat /\ chain'[n] = <<c>> /\ chain'[n] # <<>> /\ chain'[n][1] = c
      /\ \A m \in Files \ {n} : chain'[m] = chain[m]
  BY <1>1, <1>6 DEF TypeOK
<1>8. /\ pc'[t] = "lreply" /\ result'[t] # FUSE_INODE_NONE /\ size' = size + 1
      /\ capacity' = (IF MustDouble THEN 2 * capacity ELSE capacity)
      /\ UNCHANGED <<num, refs, known, sent, negative, lost, starved>>
  BY <1>1, <1>2, <1>3 DEF AddOk, Goto, kernelVars, outcome, TypeOK
<1>9. TypeOK'
  <2>1. capacity' \in Nat /\ size' \in Nat
    BY <1>7, <1>8
  <2>2. chain' \in [Files -> Seq(Cells)]
    BY <1>1, <1>6 DEF TypeOK
  <2>3. refcount' \in [Cells -> Nat] /\ cells' \in SUBSET Cells
    BY <1>1, <1>5 DEF TypeOK
  <2>4. QED
    BY <1>1, <1>2, <1>3, <2>1, <2>2, <2>3 DEF AddOk, Goto, kernelVars, outcome, TypeOK
<1>10. \A m \in Files : chain[m] # <<>> => chain[m][1] # c /\ chain[m][1] \in Cells
  BY <1>1, <1>5, ChainedIs DEF TableOK
<1>11. ShapeOK'
  BY <1>1, <1>5, <1>7, <1>10 DEF ShapeOK
<1>12. Chained' = Chained \cup {c} /\ c \notin Chained
  <2>1. \A d : d \in Chained' <=> \E m \in Files : chain'[m] # <<>> /\ chain'[m][1] = d
    BY <1>9, <1>11, ChainedNext
  <2>2. \A d : d \in Chained <=> \E m \in Files : chain[m] # <<>> /\ chain[m][1] = d
    BY <1>1, ChainedIs
  <2>3. \A d : d \in Chained' <=> d \in Chained \/ d = c
    BY <1>4, <1>7, <2>1, <2>2
  <2>4. QED
    BY <1>1, <1>5, <2>3 DEF TableOK
<1>13. TableOK'
  <2>1. IsFiniteSet(Chained') /\ Cardinality(Chained') = Cardinality(Chained) + 1
    BY <1>1, <1>12, FS_AddElement DEF TableOK
  <2>2. size' <= capacity'
    BY <1>1, <1>4, <1>7, <1>8 DEF TableOK, MustDouble
  <2>3. Chained' \subseteq cells' /\ (~ starved' => cells' = Chained')
    BY <1>1, <1>5, <1>8, <1>12 DEF TableOK
  <2>4. size' = Cardinality(Chained')
    BY <1>1, <1>8, <2>1 DEF TableOK
  <2>5. QED
    BY <2>1, <2>2, <2>3, <2>4 DEF TableOK
<1>14. HandlerOK(t)'
  BY <1>8 DEF HandlerOK
<1>15. BoundOK(t)'
  <2>1. \A m \in Files : /\ Looking(t, m)' = Looking(t, m) /\ Pending(m)' = Pending(m)
                         /\ known'[m] = known[m]
    BY <1>4, <1>8 DEF Looking, Pending
  <2>2. QED
    BY <1>1, <2>1 DEF BoundOK
<1>16. CountOK(t)'
  <2>1. SUFFICES ASSUME ~ starved, NEW m \in Files
                 PROVE  Counted(m)' = known[m] + Pending(m) + lost[m] + InHand(t, m)'
    BY <1>1, <1>8 DEF CountOK, Pending
  <2>2. Counted(m) = known[m] + Pending(m) + lost[m] + InHand(t, m)
    BY <1>1, <2>1 DEF CountOK
  <2>3. known[m] \in Nat /\ Pending(m) \in Nat /\ lost[m] \in Nat
    BY <1>1, CountsType
  <2>4. CASE m = n
    <3>1. InHand(t, m) = 0 /\ InHand(t, m)' = 1
      BY <1>2, <1>4, <1>8, <2>4 DEF InHand
    <3>2. Counted(m) = 0
      BY <1>4, <2>4 DEF Counted
    <3>3. Counted(m)' = 1
      BY <1>1, <1>5, <1>7, <2>4 DEF Counted, TypeOK
    <3>4. QED
      BY <2>2, <2>3, <3>1, <3>2, <3>3
  <2>5. CASE m # n
    <3>1. InHand(t, m) = 0 /\ InHand(t, m)' = 0
      BY <1>2, <1>8, <2>5 DEF InHand
    <3>2. Counted(m)' = Counted(m)
      <4>1. \A d \in Cells \ {c} : refcount'[d] = refcount[d]
        BY <1>1, <1>5 DEF TypeOK
      <4>2. QED
        BY <1>7, <1>10, <2>5, <4>1 DEF Counted
    <3>3. QED
      BY <2>2, <2>3, <3>1, <3>2
  <2>6. QED
    BY <2>4, <2>5
<1>17. QED
  BY <1>9, <1>11, <1>13, <1>14, <1>15, <1>16 DEF IInv

\* The failures of sqfs_hash_add: what is counted does not matter any more.
LEMMA AddFailedKeeps ==
    ASSUME NEW t, Threads = {t}, IInv(t), AddFailed(t)
    PROVE  /\ HandlerOK(t)' /\ BoundOK(t)' /\ CountOK(t)' /\ starved' /\ capacity > 0
           /\ (/\ capacity' \in Nat /\ size' \in Nat /\ chain' \in [Files -> Seq(Cells)]
               /\ cells' \in SUBSET Cells /\ refcount' \in [Cells -> Nat]) => TypeOK'
<1>1. TypeOK /\ ShapeOK /\ TableOK /\ HandlerOK(t) /\ BoundOK(t) /\ CountOK(t) /\ t \in Threads
  BY DEF IInv
<1>2. /\ pc[t] = "ladd" /\ pc'[t] = "lreply" /\ starved' = TRUE /\ num' = num
      /\ UNCHANGED <<known, sent>>
  BY <1>1 DEF AddFailed, Goto, kernelVars, TypeOK
<1>3. HandlerOK(t)'
  BY <1>2 DEF HandlerOK
<1>4. BoundOK(t)'
  <2>1. \A m \in Files : /\ Looking(t, m)' = Looking(t, m) /\ Pending(m)' = Pending(m)
                         /\ known'[m] = known[m]
    BY <1>2 DEF Looking, Pending
  <2>2. QED
    BY <1>1, <2>1 DEF BoundOK
<1>5. CountOK(t)'
  BY <1>2 DEF CountOK
<1>6. capacity > 0
  BY <1>1, <1>2 DEF HandlerOK
<1>7. ASSUME /\ capacity' \in Nat /\ size' \in Nat /\ chain' \in [Files -> Seq(Cells)]
             /\ cells' \in SUBSET Cells /\ refcount' \in [Cells -> Nat]
      PROVE  TypeOK'
  BY <1>1, <1>7, LimitAssumption DEF AddFailed, Goto, kernelVars, TypeOK, Nums, FUSE_INODE_NONE
<1>8. QED
  BY <1>2, <1>3, <1>4, <1>5, <1>6, <1>7

LEMMA AddNoBucketKeeps ==
    ASSUME NEW t, Threads = {t}, IInv(t), AddNoBucket(t)
    PROVE  IInv(t)'
<1>1. TypeOK /\ ShapeOK /\ TableOK /\ HandlerOK(t) /\ BoundOK(t) /\ CountOK(t) /\ t \in Threads
  BY DEF IInv
<1>2. AddFailed(t) /\ UNCHANGED <<size, cells, refcount>>
      /\ capacity' = (IF MustDouble THEN 2 * capacity ELSE capacity)
  BY DEF AddNoBucket
<1>3. chain' = chain
  BY <1>1, DoubledSame DEF AddNoBucket
<1>4. capacity \in Nat /\ size \in Nat /\ capacity' \in Nat /\ size <= capacity'
  BY <1>1, <1>2 DEF TypeOK, TableOK
<1>5. TypeOK'
  BY <1>1, <1>2, <1>3, <1>4, AddFailedKeeps DEF TypeOK
<1>6. ShapeOK'
  BY <1>1, <1>3 DEF ShapeOK
<1>7. Chained' = Chained
  BY <1>3 DEF Chained
<1>8. TableOK'
  BY <1>1, <1>2, <1>4, <1>7, AddFailedKeeps DEF TableOK
<1>9. QED
  BY <1>2, <1>5, <1>6, <1>8, AddFailedKeeps DEF IInv

LEMMA AddNoTableKeeps ==
    ASSUME NEW t, Threads = {t}, IInv(t), AddNoTable(t)
    PROVE  IInv(t)'
<1>1. TypeOK /\ ShapeOK /\ TableOK /\ HandlerOK(t) /\ BoundOK(t) /\ CountOK(t) /\ t \in Threads
  BY DEF IInv
<1>2. /\ AddFailed(t) /\ capacity' = 0 /\ size' = 0 /\ UNCHANGED <<cells, refcount>>
      /\ chain' = [n \in Files |-> <<>>]
  BY DEF AddNoTable
<1>3. TypeOK'
  <2>1. /\ capacity' \in Nat /\ size' \in Nat /\ chain' \in [Files -> Seq(Cells)]
        /\ cells' \in SUBSET Cells /\ refcount' \in [Cells -> Nat]
    BY <1>1, <1>2 DEF TypeOK
  <2>2. QED
    BY <1>2, <2>1, AddFailedKeeps
<1>4. ShapeOK'
  BY <1>2 DEF ShapeOK
<1>5. Chained' = {}
  BY <1>2, <1>3, <1>4, ChainedNext
<1>6. TableOK'
  BY <1>2, <1>5, FS_EmptySet, AddFailedKeeps DEF TableOK
<1>7. QED
  BY <1>2, <1>3, <1>4, <1>6, AddFailedKeeps DEF IInv

LEMMA AddDropsRestKeeps ==
    ASSUME NEW t, Threads = {t}, IInv(t), AddDropsRest(t)
    PROVE  IInv(t)'
<1>1. TypeOK /\ ShapeOK /\ TableOK /\ HandlerOK(t) /\ BoundOK(t) /\ CountOK(t) /\ t \in Threads
  BY DEF IInv
<1>2. PICK kept \in SUBSET {n \in Files : chain[n] # <<>>} :
         /\ chain' = [n \in Files |-> IF n \in kept THEN Doubled[n] ELSE <<>>]
         /\ cells' = UNION {ToSet(chain[n]) : n \in kept}
         /\ size' = Cardinality(UNION {ToSet(chain[n]) : n \in kept})
  BY DEF AddDropsRest
<1>3. AddFailed(t) /\ capacity' = 2 * capacity /\ refcount' = refcount
  BY DEF AddDropsRest
<1>4. chain' = [n \in Files |-> IF n \in kept THEN chain[n] ELSE <<>>]
  BY <1>1, <1>2, DoubledSame
<1>5. chain' \in [Files -> Seq(Cells)]
  BY <1>1, <1>4 DEF TypeOK
<1>6. cells' \in SUBSET Chained /\ Chained \in SUBSET Cells
  <2>1. cells' \in SUBSET Chained
    BY <1>2 DEF Chained
  <2>2. QED
    BY <1>1, <2>1 DEF TableOK, TypeOK
<1>7. IsFiniteSet(cells') /\ Cardinality(cells') <= Cardinality(Chained)
      /\ Cardinality(cells') \in Nat /\ Cardinality(Chained) \in Nat
  BY <1>1, <1>6, FS_Subset, FS_CardinalityType DEF TableOK
<1>8. size' = Cardinality(cells') /\ capacity \in Nat
  BY <1>1, <1>2 DEF TypeOK
<1>9. TypeOK'
  <2>1. cells' \in SUBSET Cells /\ size' \in Nat /\ capacity' \in Nat /\ refcount' \in [Cells -> Nat]
    BY <1>1, <1>3, <1>6, <1>7, <1>8 DEF TypeOK
  <2>2. QED
    BY <1>3, <1>5, <2>1, AddFailedKeeps
<1>10. ShapeOK'
  BY <1>1, <1>4 DEF ShapeOK
<1>11. Chained' = cells'
  <2>1. \A c : c \in Chained' <=> \E n \in Files : c \in ToSet(chain'[n])
    BY DEF Chained
  <2>2. \A n \in Files : ToSet(chain'[n]) = IF n \in kept THEN ToSet(chain[n]) ELSE {}
    BY <1>4 DEF ToSet
  <2>3. \A c : c \in Chained' <=> \E n \in kept : c \in ToSet(chain[n])
    BY <2>1, <2>2
  <2>4. QED
    BY <1>2, <2>3
<1>12. TableOK'
  <2>1. size' <= capacity'
    BY <1>1, <1>3, <1>7, <1>8 DEF TableOK
  <2>2. QED
    BY <1>3, <1>7, <1>8, <1>11, <2>1, AddFailedKeeps DEF TableOK
<1>13. QED
  BY <1>3, <1>9, <1>10, <1>12, AddFailedKeeps DEF IInv

LEMMA ReplyKeeps ==
    ASSUME NEW t, Threads = {t}, IInv(t), Reply(t)
    PROVE  IInv(t)'
<1>1. TypeOK /\ ShapeOK /\ TableOK /\ HandlerOK(t) /\ BoundOK(t) /\ CountOK(t) /\ t \in Threads
  BY DEF IInv
<1>2. PICK n \in Files : n = num[t]
  BY <1>1 DEF TypeOK
<1>3. /\ pc[t] = "lreply" /\ pc'[t] = "idle"
      /\ UNCHANGED <<num, refs, capacity, size, chain, cells, refcount, sent, lost, starved>>
  BY <1>1 DEF Reply, Goto, tableVars, outcome, TypeOK
<1>4. known[n] + Pending(n) + 1 <= MaxLookups
  BY <1>1, <1>2, <1>3 DEF BoundOK, Looking
<1>5. known[n] + 1 \in 0 .. MaxLookups
  BY <1>1, <1>4, CountsType
<1>6. IF result[t] = FUSE_INODE_NONE
      THEN negative' = negative \cup {n} /\ known' = known
      ELSE known' = [known EXCEPT ![n] = known[n] + 1] /\ negative' = negative
  BY <1>1, <1>2 DEF Reply, TypeOK
<1>7. /\ known' \in [Files -> 0 .. MaxLookups] /\ negative' \in SUBSET Files
      /\ \A m \in Files \ {n} : known'[m] = known[m]
      /\ known'[n] = IF result[t] = FUSE_INODE_NONE THEN known[n] ELSE known[n] + 1
  BY <1>1, <1>5, <1>6 DEF TypeOK
<1>8. TypeOK'
  BY <1>1, <1>7, LimitAssumption
     DEF Reply, Goto, tableVars, outcome, TypeOK, Nums, FUSE_INODE_NONE
<1>9. ShapeOK' /\ TableOK'
  BY <1>1, <1>3, TableKept
<1>10. HandlerOK(t)'
  BY <1>3 DEF HandlerOK
<1>11. BoundOK(t)'
  <2>1. SUFFICES ASSUME NEW m \in Files
                 PROVE  known'[m] + Pending(m)' + Looking(t, m)' <= MaxLookups
    BY DEF BoundOK
  <2>2. Looking(t, m)' = 0 /\ Pending(m)' = Pending(m)
    BY <1>3 DEF Looking, Pending
  <2>3. known[m] + Pending(m) + Looking(t, m) <= MaxLookups
    BY <1>1 DEF BoundOK
  <2>4. known[m] \in Nat /\ Pending(m) \in Nat /\ MaxLookups \in Nat
    BY <1>1, CountsType
  <2>5. Looking(t, m) = IF m = n THEN 1 ELSE 0
    BY <1>2, <1>3 DEF Looking
  <2>6. QED
    BY <1>7, <2>2, <2>3, <2>4, <2>5
<1>12. ~ starved => result[t] # FUSE_INODE_NONE
  BY <1>1, <1>3 DEF HandlerOK
<1>13. CountOK(t)'
  <2>1. SUFFICES ASSUME ~ starved, NEW m \in Files
                 PROVE  Counted(m)' = known'[m] + Pending(m)' + lost'[m] + InHand(t, m)'
    BY <1>1, <1>3, <1>6, <1>12 DEF CountOK
  <2>2. Counted(m) = known[m] + Pending(m) + lost[m] + InHand(t, m)
    BY <1>1, <2>1 DEF CountOK
  <2>3. known[m] \in Nat /\ Pending(m) \in Nat /\ lost[m] \in Nat
    BY <1>1, CountsType
  <2>4. Counted(m)' = Counted(m) /\ Pending(m)' = Pending(m) /\ lost'[m] = lost[m]
    BY <1>3 DEF Counted, Pending
  <2>5. InHand(t, m) = (IF m = n THEN 1 ELSE 0) /\ InHand(t, m)' = 0
    BY <1>2, <1>3, <1>12, <2>1 DEF InHand
  <2>6. QED
    BY <1>7, <1>12, <2>1, <2>2, <2>3, <2>4, <2>5
<1>14. QED
  BY <1>8, <1>9, <1>10, <1>11, <1>13 DEF IInv

LEMMA ReplyLostKeeps ==
    ASSUME NEW t, Threads = {t}, IInv(t), ReplyLost(t)
    PROVE  IInv(t)'
<1>1. TypeOK /\ ShapeOK /\ TableOK /\ HandlerOK(t) /\ BoundOK(t) /\ CountOK(t) /\ t \in Threads
  BY DEF IInv
<1>2. PICK n \in Files : n = num[t]
  BY <1>1 DEF TypeOK
<1>3. /\ pc[t] = "lreply" /\ pc'[t] = "idle" /\ result[t] # FUSE_INODE_NONE
      /\ lost' = [lost EXCEPT ![n] = lost[n] + 1]
      /\ UNCHANGED <<num, refs, capacity, size, chain, cells, refcount, sent, known, negative, starved>>
  BY <1>1, <1>2 DEF ReplyLost, Goto, tableVars, outcome, TypeOK
<1>4. /\ lost' \in [Files -> Nat] /\ lost'[n] = lost[n] + 1
      /\ \A m \in Files \ {n} : lost'[m] = lost[m]
  <2>1. lost \in [Files -> Nat]
    BY <1>1 DEF TypeOK
  <2>2. QED
    BY <1>3, <2>1
<1>5. TypeOK'
  BY <1>1, <1>4, LimitAssumption
     DEF ReplyLost, Goto, tableVars, outcome, TypeOK, Nums, FUSE_INODE_NONE
<1>6. ShapeOK' /\ TableOK'
  BY <1>1, <1>3, TableKept
<1>7. HandlerOK(t)'
  BY <1>3 DEF HandlerOK
<1>8. BoundOK(t)'
  <2>1. SUFFICES ASSUME NEW m \in Files
                 PROVE  known'[m] + Pending(m)' + Looking(t, m)' <= MaxLookups
    BY DEF BoundOK
  <2>2. Looking(t, m)' = 0 /\ Pending(m)' = Pending(m) /\ Looking(t, m) \in {0, 1}
    BY <1>3 DEF Looking, Pending
  <2>3. known[m] + Pending(m) + Looking(t, m) <= MaxLookups
    BY <1>1 DEF BoundOK
  <2>4. known[m] \in Nat /\ Pending(m) \in Nat /\ MaxLookups \in Nat
    BY <1>1, CountsType
  <2>5. QED
    BY <1>3, <2>2, <2>3, <2>4
<1>9. CountOK(t)'
  <2>1. SUFFICES ASSUME ~ starved, NEW m \in Files
                 PROVE  Counted(m)' = known'[m] + Pending(m)' + lost'[m] + InHand(t, m)'
    BY <1>1, <1>3 DEF CountOK
  <2>2. Counted(m) = known[m] + Pending(m) + lost[m] + InHand(t, m)
    BY <1>1, <2>1 DEF CountOK
  <2>3. known[m] \in Nat /\ Pending(m) \in Nat /\ lost[m] \in Nat
    BY <1>1, CountsType
  <2>4. Counted(m)' = Counted(m) /\ Pending(m)' = Pending(m) /\ known'[m] = known[m]
    BY <1>3 DEF Counted, Pending
  <2>5. InHand(t, m) = (IF m = n THEN 1 ELSE 0) /\ InHand(t, m)' = 0
    BY <1>2, <1>3 DEF InHand
  <2>6. QED
    BY <1>4, <2>2, <2>3, <2>4, <2>5
<1>10. QED
  BY <1>5, <1>6, <1>7, <1>8, <1>9 DEF IInv

LEMMA SendForgetKeeps ==
    ASSUME NEW t, Threads = {t}, IInv(t), NEW n \in Files, SendForget(n)
    PROVE  IInv(t)'
<1>1. TypeOK /\ ShapeOK /\ TableOK /\ HandlerOK(t) /\ BoundOK(t) /\ CountOK(t) /\ t \in Threads
  BY DEF IInv
<1>2. PICK r \in 1 .. known[n] :
         known' = [known EXCEPT ![n] = known[n] - r] /\ sent' = [sent EXCEPT ![n] = Append(sent[n], r)]
  BY <1>1 DEF SendForget, TypeOK
<1>3. known[n] \in 0 .. MaxLookups /\ MaxLookups \in Nat
  BY <1>1, BoundsAssumption DEF TypeOK
<1>4. /\ known' \in [Files -> 0 .. MaxLookups] /\ known'[n] = known[n] - r
      /\ \A m \in Files \ {n} : known'[m] = known[m]
  BY <1>1, <1>2, <1>3 DEF TypeOK
<1>5. sent \in [Files -> Seq(1 .. MaxLookups)] /\ r \in 1 .. MaxLookups
  BY <1>1, <1>3 DEF TypeOK
<1>6. /\ sent' \in [Files -> Seq(1 .. MaxLookups)] /\ sent'[n] = Append(sent[n], r)
      /\ \A m \in Files \ {n} : sent'[m] = sent[m]
  <2>1. Append(sent[n], r) \in Seq(1 .. MaxLookups)
    BY <1>5, AppendProperties
  <2>2. QED
    BY <1>2, <1>5, <2>1
<1>7. /\ UNCHANGED <<num, refs, pc, result, ie, seen>>
      /\ UNCHANGED <<capacity, size, chain, cells, refcount, lost, negative, starved>>
  BY DEF SendForget, tableVars, threadVars, outcome
<1>8. TypeOK'
  BY <1>1, <1>4, <1>6 DEF SendForget, tableVars, threadVars, outcome, TypeOK
<1>9. ShapeOK' /\ TableOK'
  BY <1>1, <1>7, TableKept
<1>10. HandlerOK(t)'
  BY <1>1, <1>7 DEF HandlerOK
<1>11. /\ Pending(n)' = Pending(n) + r
       /\ \A m \in Files \ {n} : Pending(m)' = Pending(m)
  <2>1. Sum0(Append(sent[n], r)) = Sum0(sent[n]) + r
    BY <1>1, <1>5, PendingIs, SumAppend
  <2>2. QED
    BY <1>6, <2>1 DEF Pending, Sum0
<1>12. \A m \in Files : Looking(t, m)' = Looking(t, m) /\ InHand(t, m)' = InHand(t, m)
  BY <1>7 DEF Looking, InHand
<1>13. \A m \in Files : known'[m] + Pending(m)' = known[m] + Pending(m)
  <2>1. SUFFICES ASSUME NEW m \in Files PROVE known'[m] + Pending(m)' = known[m] + Pending(m)
    OBVIOUS
  <2>2. known[m] \in Nat /\ Pending(m) \in Nat
    BY <1>1, CountsType
  <2>3. QED
    BY <1>4, <1>11, <2>2
<1>14. BoundOK(t)'
  BY <1>1, <1>12, <1>13 DEF BoundOK
<1>15. CountOK(t)'
  <2>1. \A m : Counted(m)' = Counted(m)
    BY <1>7 DEF Counted
  <2>2. QED
    BY <1>1, <1>7, <1>12, <1>13, <2>1 DEF CountOK
<1>16. QED
  BY <1>8, <1>9, <1>10, <1>14, <1>15 DEF IInv

LEMMA DropNegativeKeeps ==
    ASSUME NEW t, Threads = {t}, IInv(t), NEW n \in Files, DropNegative(n)
    PROVE  IInv(t)'
<1>1. TypeOK /\ ShapeOK /\ TableOK /\ HandlerOK(t) /\ BoundOK(t) /\ CountOK(t) /\ t \in Threads
  BY DEF IInv
<1>2. /\ UNCHANGED <<num, refs, pc, result, ie, seen, known, sent>>
      /\ UNCHANGED <<capacity, size, chain, cells, refcount, lost, starved>>
  BY DEF DropNegative, tableVars, threadVars, outcome
<1>3. TypeOK'
  BY <1>1 DEF DropNegative, tableVars, threadVars, outcome, TypeOK
<1>4. ShapeOK' /\ TableOK'
  BY <1>1, <1>2, TableKept
<1>5. HandlerOK(t)'
  BY <1>1, <1>2 DEF HandlerOK
<1>6. \A m : /\ Looking(t, m)' = Looking(t, m) /\ InHand(t, m)' = InHand(t, m)
             /\ Pending(m)' = Pending(m) /\ Counted(m)' = Counted(m)
  BY <1>2 DEF Looking, InHand, Pending, Counted
<1>7. BoundOK(t)'
  BY <1>1, <1>2, <1>6 DEF BoundOK
<1>8. negative = {} => negative' = {}
  BY DEF DropNegative
<1>9. CountOK(t)'
  BY <1>1, <1>2, <1>6, <1>8 DEF CountOK
<1>10. QED
  BY <1>3, <1>4, <1>5, <1>7, <1>9 DEF IInv

LEMMA ForgetStartKeeps ==
    ASSUME NEW t, Threads = {t}, NumbersFit, IInv(t), ForgetStart(t)
    PROVE  IInv(t)'
<1>1. TypeOK /\ ShapeOK /\ TableOK /\ HandlerOK(t) /\ BoundOK(t) /\ CountOK(t) /\ t \in Threads
  BY DEF IInv
<1>2. PICK n \in Files :
         /\ sent[n] # <<>> /\ num' = [num EXCEPT ![t] = fuse2num(Root, num2fuse(Root, n))]
         /\ refs' = [refs EXCEPT ![t] = Head(sent[n])]
         /\ sent' = [sent EXCEPT ![n] = Tail(sent[n])]
  BY <1>1 DEF ForgetStart, TypeOK
<1>3. fuse2num(Root, num2fuse(Root, n)) = n
  BY NumbersType
<1>4. sent \in [Files -> Seq(1 .. MaxLookups)] /\ sent[n] \in Seq(1 .. MaxLookups)
  BY <1>1 DEF TypeOK
<1>5. Head(sent[n]) \in 1 .. MaxLookups /\ Tail(sent[n]) \in Seq(1 .. MaxLookups)
  BY <1>2, <1>4, HeadTailProperties
<1>6. /\ sent' \in [Files -> Seq(1 .. MaxLookups)] /\ sent'[n] = Tail(sent[n])
      /\ \A m \in Files \ {n} : sent'[m] = sent[m]
  BY <1>2, <1>4, <1>5
<1>7. /\ pc[t] = "idle" /\ pc'[t] = "fget" /\ num'[t] = n /\ refs'[t] = Head(sent[n])
      /\ UNCHANGED <<capacity, size, chain, cells, refcount, known, lost, negative, starved>>
  BY <1>1, <1>2, <1>3 DEF ForgetStart, Goto, tableVars, outcome, TypeOK
<1>8. TypeOK'
  <2>1. num' \in [Threads -> Files] /\ refs' \in [Threads -> 0 .. MaxLookups]
    BY <1>1, <1>2, <1>3, <1>5 DEF TypeOK
  <2>2. QED
    BY <1>1, <1>6, <2>1 DEF ForgetStart, Goto, tableVars, outcome, TypeOK
<1>9. ShapeOK' /\ TableOK'
  BY <1>1, <1>7, TableKept
<1>10. HandlerOK(t)'
  BY <1>7 DEF HandlerOK
<1>11. /\ Pending(n) = Pending(n)' + Head(sent[n]) /\ Pending(n)' \in Nat /\ Head(sent[n]) \in Nat
       /\ \A m \in Files \ {n} : Pending(m)' = Pending(m)
  <2>1. /\ Sum0(sent[n]) = Sum0(Tail(sent[n])) + Head(sent[n])
        /\ Tail(sent[n]) \in Seq(Nat) /\ Head(sent[n]) \in Nat
    BY <1>1, <1>2, PendingIs, SumTail
  <2>2. Sum0(Tail(sent[n])) \in Nat
    BY <2>1, SumType
  <2>3. QED
    BY <1>6, <2>1, <2>2 DEF Pending, Sum0
<1>12. BoundOK(t)'
  <2>1. SUFFICES ASSUME NEW m \in Files
                 PROVE  known'[m] + Pending(m)' + Looking(t, m)' <= MaxLookups
    BY DEF BoundOK
  <2>2. Looking(t, m)' = 0 /\ Looking(t, m) = 0 /\ known'[m] = known[m]
    BY <1>7 DEF Looking
  <2>3. known[m] + Pending(m) + Looking(t, m) <= MaxLookups
    BY <1>1 DEF BoundOK
  <2>4. known[m] \in Nat /\ Pending(m) \in Nat /\ MaxLookups \in Nat
    BY <1>1, CountsType
  <2>5. QED
    BY <1>11, <2>2, <2>3, <2>4
<1>13. CountOK(t)'
  <2>1. SUFFICES ASSUME ~ starved, NEW m \in Files
                 PROVE  Counted(m)' = known'[m] + Pending(m)' + lost'[m] + InHand(t, m)'
    BY <1>1, <1>7 DEF CountOK
  <2>2. Counted(m) = known[m] + Pending(m) + lost[m] + InHand(t, m)
    BY <1>1, <2>1 DEF CountOK
  <2>3. known[m] \in Nat /\ Pending(m) \in Nat /\ lost[m] \in Nat
    BY <1>1, CountsType
  <2>4. Counted(m)' = Counted(m) /\ known'[m] = known[m] /\ lost'[m] = lost[m]
    BY <1>7 DEF Counted
  <2>5. InHand(t, m) = 0 /\ InHand(t, m)' = IF m = n THEN Head(sent[n]) ELSE 0
    BY <1>7 DEF InHand
  <2>6. QED
    BY <1>11, <2>2, <2>3, <2>4, <2>5
<1>14. QED
  BY <1>8, <1>9, <1>10, <1>12, <1>13 DEF IInv

LEMMA ForgetAbsentKeeps ==
    ASSUME NEW t, Threads = {t}, IInv(t), ForgetAbsent(t)
    PROVE  IInv(t)'
<1>1. TypeOK /\ ShapeOK /\ TableOK /\ HandlerOK(t) /\ BoundOK(t) /\ CountOK(t) /\ t \in Threads
  BY DEF IInv
<1>2. PICK n \in Files : n = num[t]
  BY <1>1 DEF TypeOK
<1>3. /\ pc[t] = "fget" /\ pc'[t] = "idle" /\ chain[n] = <<>> /\ num' = num
      /\ UNCHANGED <<capacity, size, chain, cells, refcount, known, sent, lost, negative, starved>>
  BY <1>1, <1>2 DEF ForgetAbsent, Goto, tableVars, kernelVars, outcome, TypeOK
<1>4. TypeOK'
  BY <1>1, BoundsAssumption DEF ForgetAbsent, Goto, tableVars, kernelVars, outcome, TypeOK
<1>5. ShapeOK' /\ TableOK'
  BY <1>1, <1>3, TableKept
<1>6. HandlerOK(t)'
  BY <1>3 DEF HandlerOK
<1>7. BoundOK(t)'
  <2>1. \A m \in Files : /\ Looking(t, m)' = Looking(t, m) /\ Pending(m)' = Pending(m)
                         /\ known'[m] = known[m]
    BY <1>3 DEF Looking, Pending
  <2>2. QED
    BY <1>1, <2>1 DEF BoundOK
<1>8. CountOK(t)'
  <2>1. SUFFICES ASSUME ~ starved, NEW m \in Files
                 PROVE  Counted(m)' = known'[m] + Pending(m)' + lost'[m] + InHand(t, m)'
    BY <1>1, <1>3 DEF CountOK
  <2>2. Counted(m) = known[m] + Pending(m) + lost[m] + InHand(t, m)
    BY <1>1, <2>1 DEF CountOK
  <2>3. known[m] \in Nat /\ Pending(m) \in Nat /\ lost[m] \in Nat
    BY <1>1, CountsType
  <2>4. /\ Counted(m)' = Counted(m) /\ known'[m] = known[m] /\ lost'[m] = lost[m]
        /\ Pending(m)' = Pending(m)
    BY <1>3 DEF Counted, Pending
  <2>5. InHand(t, m) = (IF m = n THEN refs[t] ELSE 0) /\ InHand(t, m)' = 0 /\ refs[t] \in Nat
    BY <1>1, <1>2, <1>3 DEF InHand, TypeOK
  <2>6. m = n => Counted(m) = 0
    BY <1>3 DEF Counted
  <2>7. QED
    BY <2>2, <2>3, <2>4, <2>5, <2>6
<1>9. QED
  BY <1>4, <1>5, <1>6, <1>7, <1>8 DEF IInv

LEMMA ForgetFoundKeeps ==
    ASSUME NEW t, Threads = {t}, IInv(t), ForgetFound(t)
    PROVE  IInv(t)'
<1>1. TypeOK /\ ShapeOK /\ TableOK /\ HandlerOK(t) /\ BoundOK(t) /\ CountOK(t) /\ t \in Threads
  BY DEF IInv
<1>2. num[t] \in Files /\ chain[num[t]] \in Seq(Cells) /\ chain[num[t]] # <<>>
  BY <1>1 DEF ForgetFound, TypeOK
<1>3. PICK c \in Cells : c = Head(chain[num[t]]) /\ c = chain[num[t]][1]
  BY <1>2
<1>4. /\ pc[t] = "fget" /\ pc'[t] = "fdec" /\ ie'[t] = c /\ seen'[t] = refcount[c] /\ capacity > 0
      /\ UNCHANGED <<num, refs, result>>
      /\ UNCHANGED <<capacity, size, chain, cells, refcount, known, sent, negative, lost, starved>>
  BY <1>1, <1>3 DEF ForgetFound, Goto, tableVars, kernelVars, outcome, TypeOK
<1>5. TypeOK'
  BY <1>1, <1>3 DEF ForgetFound, Goto, tableVars, kernelVars, outcome, TypeOK
<1>6. ShapeOK' /\ TableOK'
  BY <1>1, <1>4, TableKept
<1>7. HandlerOK(t)'
  BY <1>2, <1>3, <1>4 DEF HandlerOK
<1>8. \A n \in Files : Looking(t, n)' = Looking(t, n) /\ InHand(t, n)' = InHand(t, n)
  BY <1>4 DEF Looking, InHand
<1>9. BoundOK(t)' /\ CountOK(t)'
  BY <1>1, <1>4, <1>8, CountsKept
<1>10. QED
  BY <1>5, <1>6, <1>7, <1>9 DEF IInv

LEMMA ForgetDropKeeps ==
    ASSUME NEW t, Threads = {t}, IInv(t), ForgetDrop(t)
    PROVE  IInv(t)'
<1>1. TypeOK /\ ShapeOK /\ TableOK /\ HandlerOK(t) /\ BoundOK(t) /\ CountOK(t) /\ t \in Threads
  BY DEF IInv
<1>2. PICK n \in Files : n = num[t]
  BY <1>1 DEF TypeOK
<1>3. /\ pc[t] = "fdec" /\ pc'[t] = "idle" /\ num' = num
      /\ UNCHANGED <<capacity, known, sent, lost, negative, starved>>
  BY <1>1 DEF ForgetDrop, Goto, kernelVars, outcome, TypeOK
<1>4. PICK c \in Cells : c = ie[t] /\ c = chain[n][1] /\ chain[n] = <<c>> /\ seen[t] = refcount[c]
  BY <1>1, <1>2, <1>3, ChainedIs DEF HandlerOK, ShapeOK
<1>5. PICK r \in Nat : r = refs[t]
  BY <1>1, BoundsAssumption DEF TypeOK
<1>6. PICK s \in Nat : s = seen[t] /\ s = refcount[c]
  BY <1>1, <1>4 DEF TypeOK
<1>7. IF s > r THEN refcount' = [refcount EXCEPT ![c] = s - r] /\ UNCHANGED <<size, chain, cells>>
               ELSE /\ chain' = [chain EXCEPT ![n] = <<>>] /\ cells' = cells \ {c}
                    /\ size' = size - 1 /\ UNCHANGED refcount
  <2>1. CASE s > r
    BY <1>4, <1>5, <1>6, <2>1 DEF ForgetDrop
  <2>2. CASE ~ (s > r)
    <3>1. HashRemove(n) /\ UNCHANGED refcount
      BY <1>2, <1>5, <1>6, <2>2 DEF ForgetDrop
    <3>2. chain[n] # <<>> /\ Head(chain[n]) = c /\ Tail(chain[n]) = <<>>
      BY <1>4
    <3>3. chain' = [chain EXCEPT ![n] = Tail(chain[n])] /\ cells' = cells \ {c} /\ size' = size - 1
      BY <3>1, <3>2 DEF HashRemove
    <3>4. QED
      BY <2>2, <3>1, <3>2, <3>3
  <2>3. QED
    BY <2>1, <2>2
<1>8. \A m \in Files : /\ chain[m] # <<>> => chain[m][1] \in Cells
                       /\ m # n /\ chain[m] # <<>> => chain[m][1] # c
  <2>1. chain[n] # <<>>
    BY <1>4
  <2>2. \A m \in Files : chain[m] # <<>> => chain[m][1] \in Cells
    BY <1>1, ChainedIs
  <2>3. \A m \in Files : m # n /\ chain[m] # <<>> => chain[m][1] # chain[n][1]
    BY <1>1, <2>1, Zenon DEF ShapeOK
  <2>4. chain[n][1] = c
    BY <1>4
  <2>5. QED
    BY <2>2, <2>3, <2>4
<1>9. IsFiniteSet(Chained) /\ c \in Chained /\ Cardinality(Chained) \in Nat
  <2>1. chain[n] # <<>>
    BY <1>4
  <2>2. QED
    BY <1>1, <1>4, <2>1, ChainedIs, FS_CardinalityType DEF TableOK
<1>10. IsFiniteSet(Chained \ {c}) /\ Cardinality(Chained \ {c}) = Cardinality(Chained) - 1
       /\ Cardinality(Chained \ {c}) \in Nat
  BY <1>9, FS_RemoveElement, FS_CardinalityType
<1>11. TypeOK'
  <2>1. refcount' \in [Cells -> Nat]
    <3>1. s > r => s - r \in Nat
      BY <1>5, <1>6
    <3>2. QED
      BY <1>1, <1>7, <3>1 DEF TypeOK
  <2>2. chain' \in [Files -> Seq(Cells)] /\ cells' \in SUBSET Cells
    <3>1. CASE s > r
      BY <1>1, <1>7, <3>1 DEF TypeOK
    <3>2. CASE ~ (s > r)
      <4>1. <<>> \in Seq(Cells) /\ chain \in [Files -> Seq(Cells)] /\ cells \in SUBSET Cells
        BY <1>1 DEF TypeOK
      <4>2. QED
        BY <1>7, <3>2, <4>1
    <3>3. QED
      BY <3>1, <3>2
  <2>3. size' \in Nat
    BY <1>1, <1>7, <1>9, <1>10 DEF TypeOK, TableOK
  <2>4. /\ pc' = [pc EXCEPT ![t] = "idle"] /\ ie' = [ie EXCEPT ![t] = NoCell]
        /\ seen' = [seen EXCEPT ![t] = 0] /\ refs' = [refs EXCEPT ![t] = 0]
        /\ UNCHANGED <<capacity, num, result, known, sent, negative, lost, crashed, starved>>
    BY DEF ForgetDrop, Goto, kernelVars, outcome
  <2>5. /\ pc' \in [Threads -> {"idle", "lget", "linc", "ladd", "lreply", "fget", "fdec"}]
        /\ ie' \in [Threads -> Cells \cup {NoCell}] /\ seen' \in [Threads -> Nat]
    BY <1>1, <2>4 DEF TypeOK
  <2>6. refs' \in [Threads -> 0 .. MaxLookups]
    BY <1>1, <2>4, BoundsAssumption DEF TypeOK
  <2>7. QED
    BY <1>1, <2>1, <2>2, <2>3, <2>4, <2>5, <2>6 DEF TypeOK
<1>12. ShapeOK' /\ TableOK'
  <2>1. CASE s > r
    BY <1>1, <1>3, <1>7, <2>1, TableKept
  <2>2. CASE ~ (s > r)
    <3>1. /\ chain'[n] = <<>> /\ \A m \in Files \ {n} : chain'[m] = chain[m]
          /\ cells' = cells \ {c} /\ size' = size - 1
      BY <1>1, <1>7, <2>2 DEF TypeOK
    <3>2. ShapeOK'
      <4>1. \A m \in Files : chain'[m] = <<>> \/ chain'[m] = chain[m]
        BY <3>1
      <4>2. QED
        BY <1>1, <4>1 DEF ShapeOK
    <3>3. Chained' = Chained \ {c}
      <4>1. \A d : d \in Chained' <=> \E m \in Files : chain'[m] # <<>> /\ chain'[m][1] = d
        BY <1>11, <3>2, ChainedNext
      <4>2. \A d : d \in Chained <=> \E m \in Files : chain[m] # <<>> /\ chain[m][1] = d
        BY <1>1, ChainedIs
      <4>3. \A d : d \in Chained' <=> d \in Chained /\ d # c
        BY <1>4, <1>8, <3>1, <4>1, <4>2
      <4>4. QED
        BY <4>3
    <3>4. size' = Cardinality(Chained') /\ size' <= capacity'
      BY <1>1, <1>3, <1>9, <1>10, <3>1, <3>3 DEF TableOK, TypeOK
    <3>5. Chained' \subseteq cells' /\ (~ starved' => cells' = Chained')
      BY <1>1, <1>3, <3>1, <3>3 DEF TableOK
    <3>6. QED
      BY <1>10, <3>2, <3>3, <3>4, <3>5 DEF TableOK
  <2>3. QED
    BY <2>1, <2>2
<1>13. HandlerOK(t)'
  BY <1>3 DEF HandlerOK
<1>14. BoundOK(t)'
  <2>1. \A m \in Files : /\ Looking(t, m)' = Looking(t, m) /\ Pending(m)' = Pending(m)
                         /\ known'[m] = known[m]
    BY <1>3 DEF Looking, Pending
  <2>2. QED
    BY <1>1, <2>1 DEF BoundOK
<1>15. CountOK(t)'
  <2>1. SUFFICES ASSUME ~ starved, NEW m \in Files
                 PROVE  Counted(m)' = known'[m] + Pending(m)' + lost'[m] + InHand(t, m)'
    BY <1>1, <1>3 DEF CountOK
  <2>2. Counted(m) = known[m] + Pending(m) + lost[m] + InHand(t, m)
    BY <1>1, <2>1 DEF CountOK
  <2>3. known[m] \in Nat /\ Pending(m) \in Nat /\ lost[m] \in Nat
    BY <1>1, CountsType
  <2>4. known'[m] = known[m] /\ lost'[m] = lost[m] /\ Pending(m)' = Pending(m) /\ InHand(t, m)' = 0
    BY <1>3 DEF Pending, InHand
  <2>5. CASE m = n
    <3>1. InHand(t, m) = r
      BY <1>2, <1>3, <1>5, <2>5 DEF InHand
    <3>2. Counted(m) = s
      <4>1. chain[n] # <<>>
        BY <1>4
      <4>2. QED
        BY <1>4, <1>6, <2>5, <4>1 DEF Counted
    <3>3. Counted(m)' = IF s > r THEN s - r ELSE 0
      <4>1. CASE s > r
        <5>1. chain' = chain /\ refcount'[c] = s - r
          BY <1>1, <1>7, <4>1 DEF TypeOK
        <5>2. chain[n] # <<>>
          BY <1>4
        <5>3. QED
          BY <1>4, <2>5, <4>1, <5>1, <5>2 DEF Counted
      <4>2. CASE ~ (s > r)
        <5>1. chain'[n] = <<>>
          BY <1>1, <1>7, <4>2 DEF TypeOK
        <5>2. QED
          BY <2>5, <4>2, <5>1 DEF Counted
      <4>3. QED
        BY <4>1, <4>2
    <3>4. QED
      BY <1>5, <1>6, <2>2, <2>3, <2>4, <3>1, <3>2, <3>3
  <2>6. CASE m # n
    <3>1. InHand(t, m) = 0
      BY <1>2, <2>6 DEF InHand
    <3>2. chain'[m] = chain[m]
      BY <1>1, <1>7, <2>6 DEF TypeOK
    <3>3. chain[m] # <<>> => refcount'[chain[m][1]] = refcount[chain[m][1]]
      BY <1>1, <1>7, <1>8, <2>6 DEF TypeOK
    <3>4. Counted(m)' = Counted(m)
      BY <3>2, <3>3 DEF Counted
    <3>5. QED
      BY <2>2, <2>3, <2>4, <3>1, <3>4
  <2>7. QED
    BY <2>5, <2>6
<1>16. QED
  BY <1>11, <1>12, <1>13, <1>14, <1>15 DEF IInv

\* A step that only the process as a whole notices.
LEMMA IdleKeeps ==
    ASSUME NEW t, IInv(t), UNCHANGED <<tableVars, threadVars, kernelVars, starved>>,
           crashed' \in BOOLEAN
    PROVE  IInv(t)'
<1>1. TypeOK /\ ShapeOK /\ TableOK /\ HandlerOK(t) /\ BoundOK(t) /\ CountOK(t)
  BY DEF IInv
<1>2. /\ UNCHANGED <<capacity, size, chain, cells, refcount>>
      /\ UNCHANGED <<pc, num, refs, ie, seen, result>>
      /\ UNCHANGED <<known, sent, negative, lost, starved>>
  BY DEF tableVars, threadVars, kernelVars
<1>3. TypeOK'
  BY <1>1, <1>2 DEF TypeOK
<1>4. ShapeOK' /\ TableOK'
  BY <1>1, <1>2, TableKept
<1>5. HandlerOK(t)'
  BY <1>1, <1>2 DEF HandlerOK
<1>6. \A n \in Files : Looking(t, n)' = Looking(t, n) /\ InHand(t, n)' = InHand(t, n)
  BY <1>2 DEF Looking, InHand
<1>7. BoundOK(t)' /\ CountOK(t)'
  BY <1>1, <1>2, <1>6, CountsKept
<1>8. QED
  BY <1>3, <1>4, <1>5, <1>7 DEF IInv

LEMMA InitIInv ==
    ASSUME NEW t, Threads = {t}, Init
    PROVE  IInv(t)
<1>1. PICK f \in Files : f = CHOOSE n \in Files : TRUE
  BY FilesAssumption
<1>2. FUSE_INODE_NONE \in Nums
  BY LimitAssumption DEF Nums, FUSE_INODE_NONE
<1>3. TypeOK
  <2>1. capacity \in Nat /\ size \in Nat /\ refcount \in [Cells -> Nat] /\ cells \in SUBSET Cells
    BY BoundsAssumption DEF Init
  <2>2. chain \in [Files -> Seq(Cells)] /\ sent \in [Files -> Seq(1 .. MaxLookups)]
    BY DEF Init
  <2>3. num \in [Threads -> Files]
    BY <1>1 DEF Init
  <2>4. refs \in [Threads -> 0 .. MaxLookups] /\ known \in [Files -> 0 .. MaxLookups]
    BY BoundsAssumption DEF Init
  <2>5. /\ ie \in [Threads -> Cells \cup {NoCell}] /\ seen \in [Threads -> Nat]
        /\ result \in [Threads -> Nums] /\ lost \in [Files -> Nat]
    BY <1>2 DEF Init
  <2>6. pc \in [Threads -> {"idle", "lget", "linc", "ladd", "lreply", "fget", "fdec"}]
    BY DEF Init
  <2>7. QED
    BY <2>1, <2>2, <2>3, <2>4, <2>5, <2>6 DEF Init, TypeOK
<1>4. ShapeOK
  BY DEF Init, ShapeOK
<1>5. TableOK
  <2>1. Chained = {}
    BY <1>3, <1>4, ChainedIs DEF Init
  <2>2. QED
    BY <2>1, FS_EmptySet, BoundsAssumption DEF Init, TableOK
<1>6. HandlerOK(t)
  BY DEF Init, HandlerOK
<1>7. \A n \in Files : Pending(n) = 0
  <2>1. SUFFICES ASSUME NEW n \in Files PROVE Pending(n) = 0
    OBVIOUS
  <2>2. sent[n] = <<>> /\ Len(sent[n]) = 0
    BY DEF Init
  <2>3. QED
    BY <1>3, <2>2, PendingIs, SumType
<1>8. BoundOK(t)
  BY <1>7, BoundsAssumption DEF Init, BoundOK, Looking
<1>9. CountOK(t)
  BY <1>7 DEF Init, CountOK, Counted, InHand
<1>10. QED
  BY <1>3, <1>4, <1>5, <1>6, <1>8, <1>9 DEF IInv

LEMMA StepIInv ==
    ASSUME NEW t, Threads = {t}, NumbersFit, IInv(t), [Next]_vars
    PROVE  IInv(t)'
<1>1. crashed \in BOOLEAN
  BY DEF IInv, TypeOK
<1>2. CASE Lookup(t)
  BY <1>2, LookupStartKeeps, LookupFoundKeeps, LookupIncKeeps, LookupAbsentKeeps, AddOkKeeps,
     AddNoBucketKeeps, AddNoTableKeeps, AddDropsRestKeeps, ReplyKeeps, ReplyLostKeeps DEF Lookup
<1>3. CASE Forget(t)
  BY <1>3, ForgetStartKeeps, ForgetAbsentKeeps, ForgetFoundKeeps, ForgetDropKeeps DEF Forget
<1>4. CASE Crash(t)
  BY <1>4, IdleKeeps DEF Crash
<1>5. CASE \E n \in Files : SendForget(n) \/ DropNegative(n)
  BY <1>5, SendForgetKeeps, DropNegativeKeeps
<1>6. CASE UNCHANGED vars
  BY <1>1, <1>6, IdleKeeps DEF vars, outcome
<1>7. QED
  BY <1>2, <1>3, <1>4, <1>5, <1>6 DEF Next, Dead

(* Where one thread serves the session (squashfuse_ll -s, or a libfuse     *)
(* without fuse_session_loop_mt) and no inode has the number that wraps    *)
(* round to the kernel's 0, every step of a lookup, a forget or the kernel *)
(* keeps the invariant.                                                    *)
THEOREM Inductive ==
    ASSUME NEW t, Threads = {t}, NumbersFit
    PROVE  Spec => []IInv(t)
<1>1. Init => IInv(t)
  BY InitIInv
<1>2. IInv(t) /\ [Next]_vars => IInv(t)'
  BY StepIInv
<1>3. QED
  BY <1>1, <1>2, PTL DEF Spec

(* hash.c: through adds, removals and doublings, and whichever allocation  *)
(* fails on the way, size counts the entries, every entry in a chain is    *)
(* allocated, the table is not overfull and without a failure nothing is   *)
(* leaked.                                                                 *)
THEOREM HashCorrect ==
    ASSUME NEW t, Threads = {t}, NumbersFit
    PROVE  Spec => []HashConsistent
<1>1. IInv(t) => HashConsistent
  BY DEF IInv, TableOK, HashConsistent
<1>2. QED
  BY <1>1, Inductive, PTL

(* sqfs_ll_ino32_register and sqfs_ll_ino32_forget: a file the kernel      *)
(* still holds a lookup of is in the map, under the number its fuse_ino_t  *)
(* turns back into, as long as no allocation has failed.                   *)
THEOREM MapResolves ==
    ASSUME NEW t, Threads = {t}, NumbersFit
    PROVE  Spec => []Resolves
<1>1. IInv(t) => Resolves
  <2>1. SUFFICES ASSUME IInv(t), ~ starved, NEW n \in Files, known[n] > 0
                 PROVE  chain[n] # <<>> /\ Head(chain[n]) \in cells
    BY NumbersType DEF Resolves, IInv, CountOK
  <2>2. TypeOK /\ ShapeOK /\ TableOK /\ CountOK(t)
    BY <2>1 DEF IInv
  <2>3. known[n] \in Nat /\ Pending(n) \in Nat /\ lost[n] \in Nat
    BY <2>2, CountsType
  <2>4. InHand(t, n) \in Nat
    BY <2>2, BoundsAssumption DEF InHand, TypeOK
  <2>5. Counted(n) = known[n] + Pending(n) + lost[n] + InHand(t, n)
    BY <2>1, <2>2 DEF CountOK
  <2>6. chain[n] # <<>>
    BY <2>1, <2>3, <2>4, <2>5 DEF Counted
  <2>7. PICK c \in Cells : chain[n] = <<c>>
    BY <2>2, <2>6 DEF ShapeOK
  <2>8. Head(chain[n]) = c /\ chain[n][1] = c
    BY <2>7
  <2>9. c \in Chained
    BY <2>2, <2>6, <2>8, ChainedIs
  <2>10. QED
    BY <2>2, <2>6, <2>8, <2>9 DEF TableOK
<1>2. QED
  BY <1>1, Inductive, PTL

(* Between requests an entry's refcount is exactly the number of lookups   *)
(* the kernel has and has not given back, and those whose reply was lost;  *)
(* a file without an entry has none.                                       *)
THEOREM RefcountsMatch ==
    ASSUME NEW t, Threads = {t}, NumbersFit
    PROVE  Spec => []RefcountMatches
<1>1. IInv(t) => RefcountMatches
  <2>1. SUFFICES ASSUME IInv(t), ~ starved, pc[t] = "idle", NEW n \in Files
                 PROVE  LET total == known[n] + Pending(n) + lost[n]
                        IN IF chain[n] = <<>> THEN total = 0
                           ELSE Len(chain[n]) = 1 /\ refcount[Head(chain[n])] = total
    BY DEF RefcountMatches
  <2>2. TypeOK /\ ShapeOK /\ CountOK(t)
    BY <2>1 DEF IInv
  <2>3. known[n] \in Nat /\ Pending(n) \in Nat /\ lost[n] \in Nat
    BY <2>2, CountsType
  <2>4. InHand(t, n) = 0
    BY <2>1 DEF InHand
  <2>5. Counted(n) = known[n] + Pending(n) + lost[n]
    BY <2>1, <2>2, <2>3, <2>4 DEF CountOK
  <2>6. CASE chain[n] = <<>>
    BY <2>5, <2>6 DEF Counted
  <2>7. CASE chain[n] # <<>>
    <3>1. PICK c \in Cells : chain[n] = <<c>>
      BY <2>2, <2>7 DEF ShapeOK
    <3>2. Head(chain[n]) = c /\ chain[n][1] = c /\ Len(chain[n]) = 1
      BY <3>1
    <3>3. QED
      BY <2>5, <2>7, <3>2 DEF Counted
  <2>8. QED
    BY <2>6, <2>7
<1>2. QED
  BY <1>1, Inductive, PTL
=============================================================================
