-------------------------- MODULE DirectoryProofs --------------------------
(***************************************************************************)
(* Proofs about directories: readdir continues where its cookie says,      *)
(* lookup finds what is there, and a directory's cursor is where its       *)
(* offset says, for every listing and every way it is split into runs and  *)
(* indexed, and for all sizes of headers, entries and MD-blocks.           *)
(***************************************************************************)
EXTENDS Directory, SequenceTheorems, WellFoundedInduction, TLAPS

-----------------------------------------------------------------------------
(***************************************************************************)
(* Numbers.                                                                *)
(***************************************************************************)
\* A set of numbers has a least element.
LEMMA Least ==
    ASSUME NEW S \in SUBSET Nat, S # {}
    PROVE  \E n \in S : \A m \in S : n <= m
<1> DEFINE R == OpToRel(<, Nat)
<1>1. IsWellFoundedOn(R, Nat)
  BY NatLessThanWellFounded
<1>2. \A m, n \in Nat : <<m, n>> \in R <=> m < n
  BY DEF OpToRel
<1> HIDE DEF R
<1>3. PICK n \in S : \A m \in S : ~ (<<m, n>> \in R)
  BY <1>1, WFMin
<1>4. \A m \in S : m \in Nat /\ n \in Nat /\ ~ (m < n)
  BY <1>2, <1>3
<1>5. QED
  BY <1>4

\* Induction, for a set of numbers in the place of a predicate.
LEMMA Induct ==
    ASSUME NEW S, 0 \in S, \A n \in Nat : n \in S => n + 1 \in S
    PROVE  Nat \subseteq S
<1> DEFINE T == Nat \ S
<1>1. SUFFICES ASSUME T # {} PROVE FALSE
  OBVIOUS
<1>2. PICK n \in T : \A m \in T : n <= m
  BY <1>1, Least
<1>3. n - 1 \in Nat /\ (n - 1) + 1 = n
  BY <1>2
<1>4. n - 1 \notin T
  BY <1>2, <1>3
<1>5. QED
  BY <1>2, <1>3, <1>4

LEMMA MinIs ==
    ASSUME NEW S \in SUBSET Nat, S # {}
    PROVE  Min(S) \in S /\ \A m \in S : Min(S) <= m
<1>1. \E n \in S : \A m \in S : n =< m
  BY Least
<1>2. QED
  BY <1>1 DEF Min

\* A bounded set of numbers has a greatest element.
LEMMA MaxIs ==
    ASSUME NEW n \in Nat, NEW S \in SUBSET (0 .. n), S # {}
    PROVE  Max(S) \in S /\ \A m \in S : m <= Max(S)
<1> DEFINE T == {b \in Nat : \A m \in S : m <= b}
<1>1. PICK b \in T : \A c \in T : b <= c
  <2>1. n \in T /\ T \in SUBSET Nat
    OBVIOUS
  <2>2. QED
    BY <2>1, Least
<1>2. b \in S
  <2>1. SUFFICES ASSUME b \notin S PROVE FALSE
    OBVIOUS
  <2>2. \A m \in S : m \in Nat /\ m <= b /\ m # b
    BY <1>1, <2>1
  <2>3. b > 0
    <3>1. PICK m : m \in S
      OBVIOUS
    <3>2. QED
      BY <1>1, <2>2, <3>1
  <2>4. b - 1 \in Nat /\ \A m \in S : m <= b - 1
    BY <1>1, <2>2, <2>3
  <2>5. QED
    BY <1>1, <2>4
<1>3. \E x \in S : \A y \in S : x >= y
  BY <1>1, <1>2
<1>4. QED
  BY <1>3 DEF Max

\* A cursor that is moved on is that much further in the stream.
LEMMA AdvanceArith ==
    ASSUME NEW m \in Nat \ {0}, NEW block \in Nat, NEW o \in Nat
    PROVE  /\ block + o \div m \in Nat /\ o % m \in 0 .. m - 1
           /\ (block + o \div m) * m + (o % m) = block * m + o
<1>1. PICK x \in Nat, r \in 0 .. m - 1 : x = o \div m /\ r = o % m /\ o = m * x + r
  OBVIOUS
<1>2. PICK p \in Nat, q \in Nat : p = block * m /\ q = m * x /\ (block + x) * m = p + q
  OBVIOUS
<1>3. (block + x) * m + r = block * m + o
  BY <1>1, <1>2
<1>4. block + x \in Nat
  OBVIOUS
<1>5. QED
  BY <1>1, <1>3, <1>4

-----------------------------------------------------------------------------
(***************************************************************************)
(* The listing as it is stored.                                            *)
(***************************************************************************)
\* What it means that f has the ends of the entries, up to entry m.
AreEnds(f, l, m) == f = [i \in 0 .. m |-> IF i = 0 THEN 0 ELSE f[i - 1] + Extent(l, i)]

LEMMA EndsUnfold ==
    ASSUME NEW l, Len(l.names) \in Nat
    PROVE  AreEnds(Ends(l), l, Len(l.names))
<1> DEFINE S == {m \in Nat : \E f : AreEnds(f, l, m)}
<1>1. 0 \in S
  <2>1. AreEnds([i \in 0 .. 0 |-> 0], l, 0)
    BY DEF AreEnds
  <2>2. QED
    BY <2>1
<1>2. ASSUME NEW m \in Nat, m \in S PROVE m + 1 \in S
  <2>1. PICK f : AreEnds(f, l, m)
    BY <1>2
  <2> DEFINE g == [i \in 0 .. m + 1 |-> IF i = 0 THEN 0 ELSE f[i - 1] + Extent(l, i)]
  <2>2. \A i \in 0 .. m : g[i] = f[i]
    BY <2>1 DEF AreEnds
  <2>3. \A i \in 0 .. m + 1 : i # 0 => i - 1 \in 0 .. m
    OBVIOUS
  <2>4. \A i \in 0 .. m + 1 : i # 0 => f[i - 1] = g[i - 1]
    BY <2>2, <2>3
  <2>5. g = [i \in 0 .. m + 1 |-> IF i = 0 THEN 0 ELSE g[i - 1] + Extent(l, i)]
    BY <2>4, Zenon
  <2>6. \E f2 : AreEnds(f2, l, m + 1)
    BY <2>5 DEF AreEnds
  <2>7. QED
    BY <2>6
<1> HIDE DEF S
<1>3. Len(l.names) \in S
  BY <1>1, <1>2, Induct
<1>4. \E f : AreEnds(f, l, Len(l.names))
  BY <1>3 DEF S
<1>5. Ends(l) = CHOOSE f : AreEnds(f, l, Len(l.names))
  BY DEF Ends, AreEnds
<1>6. QED
  BY <1>4, <1>5

LEMMA EndsStep ==
    ASSUME NEW l, Len(l.names) \in Nat
    PROVE  /\ Ends(l)[0] = 0
           /\ \A i \in 1 .. Len(l.names) : Ends(l)[i] = Ends(l)[i - 1] + Extent(l, i)
<1>1. PICK f : f = Ends(l)
  OBVIOUS
<1>2. f = [i \in 0 .. Len(l.names) |-> IF i = 0 THEN 0 ELSE f[i - 1] + Extent(l, i)]
  BY <1>1, EndsUnfold DEF AreEnds
<1>3. f[0] = 0
  BY <1>2
<1>4. ASSUME NEW i \in 1 .. Len(l.names) PROVE f[i] = f[i - 1] + Extent(l, i)
  <2>1. i \in 0 .. Len(l.names) /\ i # 0
    OBVIOUS
  <2>2. QED
    BY <1>2, <2>1, Zenon
<1>5. QED
  BY <1>1, <1>3, <1>4

\* What a layout has.
LEMMA LayoutType ==
    ASSUME NEW l, IsLayout(l)
    PROVE  /\ Len(l.names) \in Nat /\ DOMAIN l.names = 1 .. Len(l.names)
           /\ \A i \in 1 .. Len(l.names) :
                /\ l.names[i] \in Names /\ Len(l.names[i]) \in Nat \ {0}
                /\ Extent(l, i) \in Nat \ {0}
<1>1. l.names \in Seq(Names)
  BY DEF IsLayout
<1>2. \A i \in 1 .. Len(l.names) : l.names[i] \in Names
  BY <1>1
<1>3. \A n \in Names : Len(n) \in Nat \ {0}
  <2>1. SUFFICES ASSUME NEW n \in Names PROVE Len(n) \in Nat \ {0}
    OBVIOUS
  <2>2. n \in Seq(Nat \ {0}) /\ n # <<>>
    BY DirAssumption
  <2>3. QED
    BY <2>2, EmptySeq
<1>4. ASSUME NEW i \in 1 .. Len(l.names) PROVE Extent(l, i) \in Nat \ {0}
  <2>1. PICK k \in Nat \ {0} : k = Len(l.names[i])
    BY <1>2, <1>3
  <2>2. HeaderSize \in Nat /\ EntrySize \in Nat
    BY DirAssumption
  <2>3. PICK h \in Nat : h = IF i \in l.heads THEN HeaderSize ELSE 0
    BY <2>2
  <2>4. Extent(l, i) = h + EntrySize + k
    BY <2>1, <2>3, Zenon DEF Extent
  <2>5. h + EntrySize + k \in Nat \ {0}
    BY <2>2
  <2>6. QED
    BY <2>4, <2>5
<1>5. QED
  BY <1>1, <1>2, <1>3, <1>4

LEMMA EndsType ==
    ASSUME NEW l, IsLayout(l)
    PROVE  \A i \in 0 .. Len(l.names) : Ends(l)[i] \in Nat
<1> DEFINE S == {i \in Nat : i <= Len(l.names) => Ends(l)[i] \in Nat}
<1>1. Len(l.names) \in Nat
  BY LayoutType
<1>2. 0 \in S
  BY <1>1, EndsStep
<1>3. ASSUME NEW i \in Nat, i \in S PROVE i + 1 \in S
  <2>1. SUFFICES ASSUME i + 1 <= Len(l.names) PROVE Ends(l)[i + 1] \in Nat
    OBVIOUS
  <2>2. Ends(l)[i] \in Nat
    BY <1>1, <1>3, <2>1
  <2>3. i + 1 \in 1 .. Len(l.names) /\ (i + 1) - 1 = i
    BY <1>1, <2>1
  <2>4. Ends(l)[i + 1] = Ends(l)[i] + Extent(l, i + 1) /\ Extent(l, i + 1) \in Nat
    BY <1>1, <2>3, EndsStep, LayoutType
  <2>5. QED
    BY <2>2, <2>4
<1> HIDE DEF S
<1>4. Nat \subseteq S
  BY <1>2, <1>3, Induct
<1>5. QED
  BY <1>1, <1>4 DEF S

\* Entries end one after the other.
LEMMA EndsLess ==
    ASSUME NEW l, IsLayout(l), NEW i \in 0 .. Len(l.names)
    PROVE  \A j \in i + 1 .. Len(l.names) : Ends(l)[i] < Ends(l)[j]
<1> DEFINE S == {k \in Nat : i + k + 1 <= Len(l.names) => Ends(l)[i] < Ends(l)[i + k + 1]}
<1>1. Len(l.names) \in Nat /\ i \in Nat
  BY LayoutType
<1>2. \A k \in 0 .. Len(l.names) - 1 :
         Ends(l)[k] \in Nat /\ Ends(l)[k + 1] \in Nat /\ Ends(l)[k] < Ends(l)[k + 1]
  <2>1. SUFFICES ASSUME NEW k \in 0 .. Len(l.names) - 1
                 PROVE  Ends(l)[k] \in Nat /\ Ends(l)[k + 1] \in Nat /\ Ends(l)[k] < Ends(l)[k + 1]
    OBVIOUS
  <2>2. k + 1 \in 1 .. Len(l.names) /\ (k + 1) - 1 = k /\ k \in 0 .. Len(l.names)
    BY <1>1
  <2>3. Ends(l)[k + 1] = Ends(l)[k] + Extent(l, k + 1) /\ Extent(l, k + 1) \in Nat \ {0}
    BY <1>1, <2>2, EndsStep, LayoutType
  <2>4. Ends(l)[k] \in Nat
    BY <2>2, EndsType
  <2>5. QED
    BY <2>3, <2>4
<1>3. 0 \in S
  BY <1>1, <1>2
<1>4. ASSUME NEW k \in Nat, k \in S PROVE k + 1 \in S
  <2>1. SUFFICES ASSUME i + (k + 1) + 1 <= Len(l.names) PROVE Ends(l)[i] < Ends(l)[i + (k + 1) + 1]
    OBVIOUS
  <2>2. Ends(l)[i] < Ends(l)[i + k + 1]
    BY <1>1, <1>4, <2>1
  <2>3. i \in 0 .. Len(l.names) - 1 /\ i + k + 1 \in 0 .. Len(l.names) - 1 /\ (i + k + 1) + 1 = i + (k + 1) + 1
    BY <1>1, <2>1
  <2>4. PICK a \in Nat, b \in Nat, c \in Nat :
          a = Ends(l)[i] /\ b = Ends(l)[i + k + 1] /\ c = Ends(l)[i + (k + 1) + 1] /\ b < c
    BY <1>2, <2>3
  <2>5. QED
    BY <2>2, <2>4
<1> HIDE DEF S
<1>5. Nat \subseteq S
  BY <1>3, <1>4, Induct
<1>6. ASSUME NEW j \in i + 1 .. Len(l.names) PROVE Ends(l)[i] < Ends(l)[j]
  <2>1. PICK k \in Nat : j = i + k + 1 /\ i + k + 1 <= Len(l.names)
    <3>1. j - i - 1 \in Nat /\ j = i + (j - i - 1) + 1 /\ j <= Len(l.names)
      BY <1>1
    <3>2. QED
      BY <3>1
  <2>2. QED
    BY <1>5, <2>1 DEF S
<1>7. QED
  BY <1>6

LEMMA EndsSame ==
    ASSUME NEW l, IsLayout(l), NEW i \in 0 .. Len(l.names), NEW j \in 0 .. Len(l.names)
    PROVE  /\ Ends(l)[i] = Ends(l)[j] => i = j
           /\ Ends(l)[i] < Ends(l)[j] => i < j
           /\ i <= j => Ends(l)[i] <= Ends(l)[j]
<1>1. Len(l.names) \in Nat
  BY LayoutType
<1>2. PICK a \in Nat, b \in Nat : a = Ends(l)[i] /\ b = Ends(l)[j]
  BY EndsType
<1>3. i < j => a < b
  <2>1. SUFFICES ASSUME i < j PROVE a < b
    OBVIOUS
  <2>2. j \in i + 1 .. Len(l.names)
    BY <1>1, <2>1
  <2>3. QED
    BY <1>2, <2>2, EndsLess
<1>4. j < i => b < a
  <2>1. SUFFICES ASSUME j < i PROVE b < a
    OBVIOUS
  <2>2. i \in j + 1 .. Len(l.names)
    BY <1>1, <2>1
  <2>3. QED
    BY <1>2, <2>2, EndsLess
<1>5. i \in Nat /\ j \in Nat
  BY <1>1
<1>6. i < j \/ i = j \/ j < i
  BY <1>5
<1>7. i = j => a = b
  BY <1>2
<1>8. a = b => i = j
  BY <1>3, <1>4, <1>6
<1>9. a < b => i < j
  BY <1>4, <1>6, <1>7
<1>10. i <= j => a <= b
  BY <1>3, <1>5, <1>6, <1>7
<1>11. QED
  BY <1>2, <1>8, <1>9, <1>10, Zenon

\* The next header after entry i.
LEMMA NextHeadIs ==
    ASSUME NEW l, IsLayout(l), NEW i \in 0 .. Len(l.names)
    PROVE  /\ NextHead(l, i) \in l.heads \cup {Len(l.names) + 1}
           /\ NextHead(l, i) \in i + 1 .. Len(l.names) + 1
           /\ \A j \in l.heads \cup {Len(l.names) + 1} : j > i => NextHead(l, i) <= j
<1> DEFINE S == {j \in l.heads \cup {Len(l.names) + 1} : j > i}
<1>1. Len(l.names) \in Nat /\ l.heads \subseteq 1 .. Len(l.names)
  BY LayoutType DEF IsLayout
<1>2. S \in SUBSET Nat /\ S # {} /\ \A j \in S : j \in i + 1 .. Len(l.names) + 1
  <2>1. PICK n \in Nat : n = Len(l.names)
    BY <1>1
  <2>2. i \in 0 .. n /\ l.heads \subseteq 1 .. n
    BY <1>1, <2>1
  <2>3. \A j \in S : j \in i + 1 .. n + 1 /\ j \in Nat
    BY <2>1, <2>2
  <2>4. n + 1 \in S
    BY <2>1, <2>2
  <2>5. QED
    BY <2>1, <2>3, <2>4
<1>3. Min(S) \in S /\ \A j \in S : Min(S) <= j
  BY <1>2, MinIs
<1>4. NextHead(l, i) = Min(S)
  BY DEF NextHead
<1> HIDE DEF S
<1>5. QED
  BY <1>2, <1>3, <1>4 DEF S

LEMMA NextHeadStep ==
    ASSUME NEW l, IsLayout(l), NEW i \in 0 .. Len(l.names) - 1
    PROVE  /\ i + 1 \in l.heads => NextHead(l, i) = i + 1
           /\ i + 1 \notin l.heads => NextHead(l, i) = NextHead(l, i + 1)
<1>1. Len(l.names) \in Nat /\ i \in 0 .. Len(l.names) /\ i + 1 \in 0 .. Len(l.names)
  BY LayoutType
<1>2. PICK a \in Nat : /\ a = NextHead(l, i) /\ a \in l.heads \cup {Len(l.names) + 1} /\ a > i
                       /\ \A j \in l.heads \cup {Len(l.names) + 1} : j > i => a <= j
  BY <1>1, NextHeadIs
<1>3. PICK b \in Nat : /\ b = NextHead(l, i + 1) /\ b \in l.heads \cup {Len(l.names) + 1} /\ b > i + 1
                       /\ \A j \in l.heads \cup {Len(l.names) + 1} : j > i + 1 => b <= j
  BY <1>1, NextHeadIs
<1>4. i + 1 \in l.heads => a = i + 1
  BY <1>1, <1>2
<1>5. i + 1 \notin l.heads => a = b
  <2>1. SUFFICES ASSUME i + 1 \notin l.heads PROVE a = b
    OBVIOUS
  <2>2. a # i + 1
    BY <1>1, <1>2, <2>1
  <2>3. b <= a /\ a <= b
    BY <1>1, <1>2, <1>3, <2>2
  <2>4. QED
    BY <2>3
<1>6. QED
  BY <1>2, <1>3, <1>4, <1>5

-----------------------------------------------------------------------------
(***************************************************************************)
(* The directory.                                                          *)
(***************************************************************************)
(* A directory stands behind entry g: its offset and its cursor agree, and *)
(* the count says how many entries are left before the next header.        *)
Stands(l, d, g) ==
    /\ g \in 0 .. Len(l.names)
    /\ d \in Dirs
    /\ d.total = Total(l)
    /\ d.offset = Ends(l)[g]
    /\ At(l, d.cur) = d.offset
    /\ d.count = NextHead(l, g) - g - 1

LEMMA AdvanceIs ==
    ASSUME NEW l, IsLayout(l), NEW d \in Dirs, NEW k \in Nat
    PROVE  /\ Advance(d, k) \in Dirs
           /\ Advance(d, k).offset = d.offset + k
           /\ At(l, Advance(d, k).cur) = At(l, d.cur) + k
           /\ Advance(d, k).count = d.count /\ Advance(d, k).total = d.total
           /\ Advance(d, k).name = d.name
<1>1. MetaSize \in Nat \ {0} /\ l.start \in Nat
  BY DirAssumption DEF IsLayout
<1>2. PICK block \in Nat, o \in 0 .. MetaSize - 1 : block = d.cur.block /\ o = d.cur.offset
  BY DEF Dirs
<1>3. PICK cur : cur = MdAdvance(d.cur, k)
  OBVIOUS
<1>4. cur = [block |-> block + (o + k) \div MetaSize, offset |-> (o + k) % MetaSize]
  BY <1>2, <1>3 DEF MdAdvance
<1>5. PICK v \in Nat : v = o + k
  BY <1>1
<1>6. PICK block2 \in Nat, o2 \in 0 .. MetaSize - 1 :
        /\ block2 = block + (o + k) \div MetaSize /\ o2 = (o + k) % MetaSize
        /\ block2 * MetaSize + o2 = block * MetaSize + (o + k)
  <2>1. /\ block + v \div MetaSize \in Nat /\ v % MetaSize \in 0 .. MetaSize - 1
        /\ (block + v \div MetaSize) * MetaSize + (v % MetaSize) = block * MetaSize + v
    BY <1>1, AdvanceArith
  <2>2. QED
    BY <1>5, <2>1, Zenon
<1>7. cur = [block |-> block2, offset |-> o2]
  BY <1>4, <1>6
<1>8. Advance(d, k) = [d EXCEPT !.cur = cur, !.offset = @ + k]
  BY <1>3 DEF Advance
<1>9. /\ Advance(d, k) \in Dirs /\ Advance(d, k).cur = cur
      /\ Advance(d, k).offset = d.offset + k
      /\ Advance(d, k).count = d.count /\ Advance(d, k).total = d.total
      /\ Advance(d, k).name = d.name
  <2>1. cur \in [block : Nat, offset : 0 .. MetaSize - 1]
    BY <1>7
  <2>2. d.offset + k \in Nat
    BY DEF Dirs
  <2>3. QED
    BY <1>8, <2>1, <2>2 DEF Dirs
<1>10. At(l, cur) = At(l, d.cur) + k
  <2>1. PICK p \in Nat, q \in Nat : p = block * MetaSize /\ q = block2 * MetaSize
    BY <1>1
  <2>2. At(l, cur) = q + o2 - l.start /\ At(l, d.cur) = p + o - l.start
    BY <1>2, <1>7, <2>1 DEF At
  <2>3. q + o2 = p + (o + k)
    BY <1>6, <2>1
  <2>4. QED
    BY <1>1, <2>2, <2>3
<1>11. QED
  BY <1>9, <1>10

LEMMA OpenStands ==
    ASSUME NEW l, IsLayout(l)
    PROVE  Stands(l, DirOpen(l), 0)
<1>1. Len(l.names) \in Nat /\ Ends(l)[0] = 0 /\ Total(l) \in Nat
  BY LayoutType, EndsStep, EndsType DEF Total
<1>2. l.start \in 0 .. MetaSize - 1 /\ MetaSize \in Nat \ {0}
  BY DirAssumption DEF IsLayout
<1>3. DirOpen(l) \in Dirs
  BY <1>1, <1>2 DEF DirOpen, Dirs
<1>4. At(l, DirOpen(l).cur) = 0
  BY <1>2 DEF At, DirOpen
<1>5. NextHead(l, 0) = 1
  <2>1. CASE Len(l.names) = 0
    BY <1>1, <2>1, NextHeadIs
  <2>2. CASE Len(l.names) # 0
    <3>1. 1 \in l.heads
      BY <2>2, EmptySeq DEF IsLayout
    <3>2. 0 \in 0 .. Len(l.names) - 1 /\ 0 + 1 = 1
      BY <1>1, <2>2
    <3>3. QED
      BY <3>1, <3>2, NextHeadStep
  <2>3. QED
    BY <2>1, <2>2
<1>6. QED
  BY <1>1, <1>3, <1>4, <1>5 DEF Stands, DirOpen

\* sqfs_dir_next has no more entries exactly behind the last.
LEMMA AtEndIs ==
    ASSUME NEW l, IsLayout(l), NEW d, NEW g, Stands(l, d, g)
    PROVE  AtEnd(d) <=> g = Len(l.names)
<1>1. Len(l.names) \in Nat /\ g \in 0 .. Len(l.names) /\ Len(l.names) \in 0 .. Len(l.names)
  BY LayoutType DEF Stands
<1>2. PICK a \in Nat, b \in Nat : a = d.offset /\ b = d.total /\ a = Ends(l)[g] /\ b = Ends(l)[Len(l.names)]
  BY <1>1, EndsType DEF Stands, Total
<1>3. ASSUME AtEnd(d) PROVE g = Len(l.names)
  <2>1. ~ (a < b)
    BY <1>2, <1>3 DEF AtEnd
  <2>2. ~ (g < Len(l.names))
    <3>1. SUFFICES ASSUME g < Len(l.names) PROVE a < b
      BY <2>1
    <3>2. Len(l.names) \in g + 1 .. Len(l.names)
      BY <1>1, <3>1
    <3>3. QED
      BY <1>1, <1>2, <3>2, EndsLess
  <2>3. QED
    BY <1>1, <2>2
<1>4. ASSUME g = Len(l.names) PROVE AtEnd(d)
  <2>1. NextHead(l, g) \in g + 1 .. Len(l.names) + 1
    BY <1>1, NextHeadIs
  <2>2. NextHead(l, g) = g + 1
    BY <1>1, <1>4, <2>1
  <2>3. d.count = 0
    BY <1>1, <2>2 DEF Stands
  <2>4. a = b
    BY <1>2, <1>4
  <2>5. QED
    BY <1>2, <2>3, <2>4 DEF AtEnd
<1>5. QED
  BY <1>3, <1>4

\* Where entry i is, behind the header that may be in front of it.
Pos(l, i) == Ends(l)[i] - Len(l.names[i]) - EntrySize

LEMMA PosIs ==
    ASSUME NEW l, IsLayout(l), NEW i \in 1 .. Len(l.names)
    PROVE  /\ Pos(l, i) \in Nat /\ Pos(l, i) < Ends(l)[i]
           /\ Pos(l, i) = Ends(l)[i - 1] + (IF i \in l.heads THEN HeaderSize ELSE 0)
           /\ Ends(l)[i - 1] <= Pos(l, i)
           /\ Pos(l, i) + EntrySize + Len(l.names[i]) = Ends(l)[i]
<1>1. Len(l.names) \in Nat
  BY LayoutType
<1>2. HeaderSize \in Nat /\ EntrySize \in Nat \ {0}
  BY DirAssumption
<1>3. i \in 0 .. Len(l.names) /\ i - 1 \in 0 .. Len(l.names)
  BY <1>1
<1>4. PICK a \in Nat, b \in Nat, k \in Nat, h \in Nat :
        /\ a = Ends(l)[i - 1] /\ b = Ends(l)[i] /\ k = Len(l.names[i])
        /\ h = IF i \in l.heads THEN HeaderSize ELSE 0
  BY <1>2, <1>3, EndsType, LayoutType
<1>5. b = a + Extent(l, i)
  BY <1>1, <1>4, EndsStep
<1>6. Extent(l, i) = h + EntrySize + k
  BY <1>4, Zenon DEF Extent
<1>7. Pos(l, i) = b - k - EntrySize
  BY <1>4, Zenon DEF Pos
<1>8. Pos(l, i) = a + h
  BY <1>2, <1>5, <1>6, <1>7
<1>9. a + h \in Nat /\ a + h < b /\ a <= a + h /\ (a + h) + EntrySize + k = b
  BY <1>2, <1>5, <1>6
<1>10. QED
  BY <1>4, <1>8, <1>9, Zenon

LEMMA PosLess ==
    ASSUME NEW l, IsLayout(l), NEW i \in 1 .. Len(l.names), NEW j \in 1 .. Len(l.names), i < j
    PROVE  Pos(l, i) < Pos(l, j)
<1>1. Len(l.names) \in Nat
  BY LayoutType
<1>2. i \in 0 .. Len(l.names) /\ j - 1 \in 0 .. Len(l.names) /\ i <= j - 1
  BY <1>1
<1>3. Ends(l)[i] <= Ends(l)[j - 1]
  BY <1>2, EndsSame
<1>4. PICK a \in Nat, b \in Nat : a = Ends(l)[i] /\ b = Ends(l)[j - 1]
  BY <1>2, EndsType
<1>5. PICK p \in Nat, q \in Nat : p = Pos(l, i) /\ q = Pos(l, j) /\ p < a /\ b <= q
  BY <1>4, PosIs
<1>6. a <= b
  BY <1>3, <1>4
<1>7. p < q
  BY <1>5, <1>6
<1>8. QED
  BY <1>5, <1>7

\* Behind the header, if there is one: at the next entry of its run.
LEMMA HeaderStep ==
    ASSUME NEW l, IsLayout(l), NEW d, NEW g, Stands(l, d, g), g # Len(l.names)
    PROVE  LET h == WithHeader(l, d)
           IN /\ h \in Dirs /\ h.total = d.total
              /\ h.offset = Pos(l, g + 1) /\ At(l, h.cur) = Pos(l, g + 1)
              /\ h.count = NextHead(l, g + 1) - g - 1
<1> DEFINE h == WithHeader(l, d)
<1>1. PICK n \in Nat : n = Len(l.names)
  BY LayoutType
<1>2. g \in 0 .. n - 1 /\ g + 1 \in 1 .. n /\ (g + 1) - 1 = g /\ g \in Nat /\ g \in 0 .. n /\ g + 1 \in 0 .. n
  BY <1>1 DEF Stands
<1>3. PICK a \in Nat : a = Ends(l)[g]
  BY <1>1, <1>2, EndsType
<1>4. d \in Dirs /\ d.offset = a /\ At(l, d.cur) = a
  BY <1>3 DEF Stands
<1>5. PICK x \in Nat, y \in Nat :
        /\ x = NextHead(l, g) /\ x \in l.heads \cup {n + 1} /\ x > g
        /\ y = NextHead(l, g + 1) /\ y > g + 1
        /\ (g + 1 \in l.heads => x = g + 1) /\ (g + 1 \notin l.heads => x = y)
  BY <1>1, <1>2, NextHeadIs, NextHeadStep
<1>6. d.count = x - g - 1
  BY <1>5 DEF Stands
<1>7. Pos(l, g + 1) = a + (IF g + 1 \in l.heads THEN HeaderSize ELSE 0)
  BY <1>1, <1>2, <1>3, PosIs
<1>8. CASE d.count # 0
  <2>1. g + 1 \notin l.heads
    BY <1>2, <1>5, <1>6, <1>8
  <2>2. h = d /\ Pos(l, g + 1) = a
    BY <1>3, <1>7, <1>8, <2>1 DEF WithHeader
  <2>3. d.count = y - g - 1
    BY <1>5, <1>6, <2>1
  <2>4. QED
    BY <1>4, <1>5, <2>2, <2>3
<1>9. CASE d.count = 0
  <2>1. g + 1 \in l.heads
    BY <1>2, <1>5, <1>6, <1>9
  <2>2. HeadersAt(l, d.cur) = {g + 1}
    <3>1. l.heads \subseteq 1 .. n
      BY <1>1, LayoutType DEF IsLayout
    <3>2. g + 1 \in HeadersAt(l, d.cur)
      BY <1>2, <1>3, <1>4, <2>1 DEF HeadersAt
    <3>3. ASSUME NEW i \in HeadersAt(l, d.cur) PROVE i = g + 1
      <4>1. i \in 1 .. n /\ Ends(l)[i - 1] = Ends(l)[g]
        BY <1>3, <1>4, <3>1 DEF HeadersAt
      <4>2. i - 1 \in 0 .. n
        BY <4>1
      <4>3. i - 1 = g
        BY <1>1, <1>2, <4>1, <4>2, EndsSame
      <4>4. QED
        BY <4>1, <4>3
    <3>4. QED
      BY <3>2, <3>3
  <2>3. HeaderSize \in Nat
    BY DirAssumption
  <2>4. PICK e : e = Advance(d, HeaderSize)
    OBVIOUS
  <2>5. e \in Dirs /\ e.total = d.total /\ e.offset = a + HeaderSize /\ At(l, e.cur) = a + HeaderSize
    <3>1. /\ e \in Dirs /\ e.offset = d.offset + HeaderSize
          /\ At(l, e.cur) = At(l, d.cur) + HeaderSize /\ e.total = d.total
      <4>1. d \in Dirs /\ HeaderSize \in Nat
        BY <1>4, <2>3
      <4>2. QED
        BY <2>4, <4>1, AdvanceIs
    <3>2. QED
      BY <1>4, <3>1
  <2>6. RunLength(l, CHOOSE i \in HeadersAt(l, d.cur) : TRUE) = y - (g + 1)
    BY <1>5, <2>2 DEF RunLength
  <2>7. h = [e EXCEPT !.count = y - (g + 1)]
    BY <1>9, <2>2, <2>4, <2>6 DEF WithHeader
  <2>8. y - (g + 1) \in Nat /\ y - (g + 1) = y - g - 1
    BY <1>2, <1>5
  <2>9. h \in Dirs /\ h.total = e.total /\ h.offset = e.offset /\ h.cur = e.cur /\ h.count = y - (g + 1)
    BY <2>5, <2>7, <2>8 DEF Dirs
  <2>10. Pos(l, g + 1) = a + HeaderSize
    BY <1>7, <2>1
  <2>11. QED
    BY <1>5, <2>5, <2>8, <2>9, <2>10
<1>10. QED
  BY <1>8, <1>9

\* sqfs_dir_next goes to the next entry, and no other.
LEMMA NextStands ==
    ASSUME NEW l, IsLayout(l), NEW d, NEW g, Stands(l, d, g), g # Len(l.names)
    PROVE  /\ Stands(l, DirNext(l, d), g + 1)
           /\ DirNext(l, d).name = l.names[g + 1] /\ g + 1 \in 1 .. Len(l.names)
<1>1. PICK n \in Nat : n = Len(l.names)
  BY LayoutType
<1>2. g + 1 \in 1 .. n /\ g \in Nat /\ g + 1 \in 0 .. n
  BY <1>1 DEF Stands
<1>3. PICK h : h = WithHeader(l, d)
  OBVIOUS
<1>4. PICK p \in Nat : p = Pos(l, g + 1) /\ p + EntrySize + Len(l.names[g + 1]) = Ends(l)[g + 1]
  BY <1>1, <1>2, PosIs
<1>5. /\ h \in Dirs /\ h.total = d.total /\ h.offset = p /\ At(l, h.cur) = p
      /\ h.count = NextHead(l, g + 1) - g - 1
  BY <1>3, <1>4, HeaderStep
<1>6. EntriesAt(l, h.cur) = {g + 1}
  <2>1. DOMAIN l.names = 1 .. n
    BY <1>1, LayoutType
  <2>2. g + 1 \in EntriesAt(l, h.cur)
    BY <1>2, <1>4, <1>5, <2>1 DEF EntriesAt, Pos
  <2>3. ASSUME NEW i \in EntriesAt(l, h.cur) PROVE i = g + 1
    <3>1. i \in 1 .. n /\ Pos(l, i) = p
      BY <1>5, <2>1 DEF EntriesAt, Pos
    <3>2. ~ (i < g + 1)
      <4>1. SUFFICES ASSUME i < g + 1 PROVE p < p
        OBVIOUS
      <4>2. QED
        BY <1>1, <1>2, <1>4, <3>1, <4>1, PosLess
    <3>3. ~ (g + 1 < i)
      <4>1. SUFFICES ASSUME g + 1 < i PROVE p < p
        OBVIOUS
      <4>2. QED
        BY <1>1, <1>2, <1>4, <3>1, <4>1, PosLess
    <3>4. QED
      BY <1>2, <3>1, <3>2, <3>3
  <2>4. QED
    BY <2>2, <2>3
<1>7. PICK name \in Names : name = l.names[g + 1]
  BY <1>1, <1>2, LayoutType
<1>8. PICK k \in Nat : k = EntrySize + Len(name)
  <2>1. EntrySize \in Nat /\ Len(name) \in Nat
    BY <1>1, <1>2, <1>7, DirAssumption, LayoutType
  <2>2. QED
    BY <2>1
<1>9. DirNext(l, d) = [Advance(h, k) EXCEPT !.count = @ - 1, !.name = name]
  BY <1>3, <1>6, <1>7, <1>8 DEF DirNext
<1>10. PICK e : e = Advance(h, k)
  OBVIOUS
<1>11. /\ e \in Dirs /\ e.total = d.total /\ e.offset = p + k /\ At(l, e.cur) = p + k
       /\ e.count = NextHead(l, g + 1) - g - 1
  <2>1. /\ e \in Dirs /\ e.offset = h.offset + k /\ At(l, e.cur) = At(l, h.cur) + k
        /\ e.count = h.count /\ e.total = h.total
    <3>1. h \in Dirs
      BY <1>5
    <3>2. QED
      BY <1>10, <3>1, AdvanceIs
  <2>2. QED
    BY <1>5, <2>1
<1>12. PICK y \in Nat : y = NextHead(l, g + 1) /\ y >= g + 2
  <2>1. NextHead(l, g + 1) \in (g + 1) + 1 .. n + 1
    BY <1>1, <1>2, NextHeadIs
  <2>2. QED
    BY <1>2, <2>1
<1>13. e.count - 1 = y - (g + 1) - 1 /\ e.count - 1 \in Nat
  BY <1>2, <1>11, <1>12
<1>14. p + k = Ends(l)[g + 1]
  <2>1. EntrySize \in Nat /\ Len(name) \in Nat
    BY <1>1, <1>2, <1>7, DirAssumption, LayoutType
  <2>2. p + EntrySize + Len(name) = Ends(l)[g + 1]
    BY <1>4, <1>7
  <2>3. QED
    BY <1>8, <2>1, <2>2
<1>15. PICK f : f = [e EXCEPT !.count = @ - 1, !.name = name]
  OBVIOUS
<1>16. /\ f \in Dirs /\ f.total = e.total /\ f.offset = e.offset /\ f.cur = e.cur
       /\ f.count = e.count - 1 /\ f.name = name
  BY <1>11, <1>13, <1>15 DEF Dirs
<1>17. f = DirNext(l, d)
  BY <1>9, <1>10, <1>15
<1>18. Stands(l, f, g + 1)
  BY <1>1, <1>2, <1>11, <1>12, <1>13, <1>14, <1>16 DEF Stands
<1>19. QED
  BY <1>1, <1>2, <1>7, <1>16, <1>17, <1>18

(* Going by the index ends at the start, or in front of a run whose index  *)
(* entry did not stop it.                                                  *)
LEMMA FfStands ==
    ASSUME NEW l, IsLayout(l), NEW stops
    PROVE  \E g \in 0 .. Len(l.names) :
             /\ Stands(l, FfHeader(l, DirOpen(l), stops), g)
             /\ g = 0 \/ (g + 1 \in l.indexed /\ g + 1 \notin stops)
<1>1. PICK n \in Nat : n = Len(l.names)
  BY LayoutType
<1>2. PICK d : d = DirOpen(l)
  OBVIOUS
<1>3. Stands(l, d, 0)
  BY <1>2, OpenStands
<1>4. CASE Before(l, stops) = {}
  BY <1>1, <1>2, <1>3, <1>4 DEF FfHeader
<1>5. CASE Before(l, stops) # {}
  <2>1. l.indexed \subseteq 1 .. n /\ l.indexed \subseteq l.heads
    BY <1>1, LayoutType DEF IsLayout
  <2>2. Before(l, stops) \in SUBSET (0 .. n)
    BY <2>1 DEF Before
  <2>3. PICK j : j = Max(Before(l, stops)) /\ j \in Before(l, stops)
    BY <1>5, <2>2, MaxIs
  <2>4. j \in l.indexed /\ j \in 1 .. n /\ j \in l.heads
    BY <2>1, <2>3 DEF Before
  <2>5. j \notin stops
    BY <2>3, <2>4 DEF Before
  <2>6. PICK g \in 0 .. n - 1 : j = g + 1 /\ g = j - 1 /\ g \in 0 .. n
    BY <2>4
  <2>7. PICK a \in Nat : a = Ends(l)[g]
    BY <1>1, <2>6, EndsType
  <2>8. PICK s \in Nat : s = l.start /\ s \in 0 .. MetaSize - 1
    BY DirAssumption DEF IsLayout
  <2>9. MetaSize \in Nat \ {0}
    BY DirAssumption
  <2>10. PICK f : f = FfHeader(l, d, stops)
    OBVIOUS
  <2>11. d.cur.offset = s
    BY <1>2, <2>8 DEF DirOpen
  <2>12. IndexOf(l, j).index = a /\ IndexOf(l, j).start_block = (s + a) \div MetaSize
    BY <2>6, <2>7, <2>8 DEF IndexOf
  <2>13. f = [d EXCEPT !.cur = [block |-> (s + a) \div MetaSize, offset |-> (s + a) % MetaSize],
                       !.offset = a]
    BY <1>5, <2>3, <2>10, <2>11, <2>12 DEF FfHeader
  <2>14. PICK v \in Nat : v = s + a
    OBVIOUS
  <2>15. PICK block \in Nat, o \in 0 .. MetaSize - 1 :
           block = v \div MetaSize /\ o = v % MetaSize /\ v = MetaSize * block + o
    BY <2>9
  <2>16. PICK cur : cur = [block |-> block, offset |-> o]
    OBVIOUS
  <2>17. cur \in [block : Nat, offset : 0 .. MetaSize - 1] /\ f = [d EXCEPT !.cur = cur, !.offset = a]
    BY <2>13, <2>14, <2>15, <2>16
  <2>18. /\ f \in Dirs /\ f.cur = cur /\ f.offset = a /\ f.count = d.count /\ f.total = d.total
    BY <1>3, <2>17 DEF Dirs, Stands
  <2>19. At(l, cur) = a
    <3>1. PICK p \in Nat : p = MetaSize * block /\ p = block * MetaSize
      BY <2>9
    <3>2. At(l, cur) = p + o - s
      BY <2>8, <2>16, <3>1 DEF At
    <3>3. QED
      BY <2>14, <2>15, <3>1, <3>2
  <2>20. d.count = 0 /\ d.total = Total(l)
    BY <1>2 DEF DirOpen
  <2>21. NextHead(l, g) - g - 1 = 0
    BY <1>1, <2>4, <2>6, NextHeadStep
  <2>22. Stands(l, f, g)
    BY <1>1, <2>6, <2>7, <2>18, <2>19, <2>20, <2>21 DEF Stands
  <2>23. QED
    BY <1>1, <1>2, <2>4, <2>5, <2>6, <2>10, <2>22
<1>6. QED
  BY <1>4, <1>5

-----------------------------------------------------------------------------
(***************************************************************************)
(* Comparing names.                                                        *)
(***************************************************************************)
LEMMA NameType ==
    ASSUME NEW x \in Names
    PROVE  /\ x \in Seq(Nat \ {0}) /\ Len(x) \in Nat \ {0}
           /\ \A i \in Nat \ {0} : ByteOf(x, i) \in Nat
           /\ \A i \in 1 .. Len(x) : ByteOf(x, i) = x[i] /\ ByteOf(x, i) > 0
<1>1. x \in Seq(Nat \ {0}) /\ x # <<>>
  BY DirAssumption
<1>2. Len(x) \in Nat \ {0}
  BY <1>1, EmptySeq
<1>3. \A i \in 1 .. Len(x) : x[i] \in Nat \ {0}
  BY <1>1
<1>4. \A i \in 1 .. Len(x) : ByteOf(x, i) = x[i]
  BY <1>2 DEF ByteOf
<1>5. ASSUME NEW i \in Nat \ {0} PROVE ByteOf(x, i) \in Nat
  <2>1. CASE i <= Len(x)
    BY <1>2, <1>3, <1>4, <2>1
  <2>2. CASE ~ (i <= Len(x))
    BY <2>2 DEF ByteOf
  <2>3. QED
    BY <2>1, <2>2
<1>6. QED
  BY <1>1, <1>2, <1>3, <1>4, <1>5

\* strncmp is decided by the first byte that differs.
LEMMA StrncmpFirst ==
    ASSUME NEW x \in Names, NEW y \in Names, NEW n \in Nat, NEW k \in 1 .. n,
           ByteOf(x, k) # ByteOf(y, k), \A j \in 1 .. k - 1 : ByteOf(x, j) = ByteOf(y, j)
    PROVE  Strncmp(x, y, n) = ByteOf(x, k) - ByteOf(y, k)
<1> DEFINE S == {i \in 1 .. n : ByteOf(x, i) # ByteOf(y, i)}
<1>1. S \in SUBSET Nat /\ k \in S
  OBVIOUS
<1>2. \A i \in S : i \in 1 .. n /\ ~ (i \in 1 .. k - 1)
  OBVIOUS
<1>3. Strncmp(x, y, n) = IF S = {} THEN 0 ELSE ByteOf(x, Min(S)) - ByteOf(y, Min(S))
  BY DEF Strncmp
<1> HIDE DEF S
<1>4. Min(S) \in S /\ Min(S) <= k
  BY <1>1, MinIs
<1>5. PICK m \in 1 .. n : m = Min(S) /\ m \in S
  BY <1>2, <1>4
<1>6. m = k
  BY <1>2, <1>4, <1>5
<1>7. QED
  BY <1>1, <1>3, <1>5, <1>6

LEMMA StrncmpZero ==
    ASSUME NEW x \in Names, NEW y \in Names, NEW n \in Nat
    PROVE  Strncmp(x, y, n) = 0 <=> \A i \in 1 .. n : ByteOf(x, i) = ByteOf(y, i)
<1> DEFINE S == {i \in 1 .. n : ByteOf(x, i) # ByteOf(y, i)}
<1>1. S \in SUBSET Nat /\ (S = {} <=> \A i \in 1 .. n : ByteOf(x, i) = ByteOf(y, i))
  OBVIOUS
<1>2. Strncmp(x, y, n) = IF S = {} THEN 0 ELSE ByteOf(x, Min(S)) - ByteOf(y, Min(S))
  BY DEF Strncmp
<1>3. S # {} => Min(S) \in S
  BY <1>1, MinIs
<1>4. ASSUME NEW m \in S PROVE ByteOf(x, m) - ByteOf(y, m) # 0
  <2>1. PICK a \in Nat, b \in Nat : a = ByteOf(x, m) /\ b = ByteOf(y, m)
    BY NameType
  <2>2. a # b
    BY <2>1
  <2>3. QED
    BY <2>1, <2>2
<1> HIDE DEF S
<1>5. QED
  BY <1>1, <1>2, <1>3, <1>4

LEMMA StrncmpType ==
    ASSUME NEW x \in Names, NEW y \in Names, NEW n \in Nat
    PROVE  Strncmp(x, y, n) \in Int
<1> DEFINE S == {i \in 1 .. n : ByteOf(x, i) # ByteOf(y, i)}
<1>1. S \in SUBSET Nat /\ \A i \in S : i \in Nat \ {0}
  OBVIOUS
<1>2. Strncmp(x, y, n) = IF S = {} THEN 0 ELSE ByteOf(x, Min(S)) - ByteOf(y, Min(S))
  BY DEF Strncmp
<1> HIDE DEF S
<1>3. CASE S = {}
  BY <1>2, <1>3
<1>4. CASE S # {}
  <2>1. Min(S) \in Nat \ {0}
    BY <1>1, <1>4, MinIs
  <2>2. ByteOf(x, Min(S)) \in Nat /\ ByteOf(y, Min(S)) \in Nat
    BY <2>1, NameType
  <2>3. QED
    BY <1>2, <1>4, <2>2
<1>5. QED
  BY <1>3, <1>4

\* Equal up to the length, and of that length: the same.
LEMMA StrncmpSame ==
    ASSUME NEW x \in Names, NEW y \in Names
    PROVE  Strncmp(x, y, Len(y)) = 0 /\ Len(x) = Len(y) <=> x = y
<1>1. Len(y) \in Nat /\ Len(x) \in Nat
  BY NameType
<1>2. ASSUME Strncmp(x, y, Len(y)) = 0, Len(x) = Len(y) PROVE x = y
  <2>1. \A i \in 1 .. Len(y) : ByteOf(x, i) = ByteOf(y, i)
    BY <1>1, <1>2, StrncmpZero
  <2>2. \A i \in 1 .. Len(x) : x[i] = y[i]
    BY <1>2, <2>1, NameType
  <2>3. x \in Seq(Nat \ {0}) /\ y \in Seq(Nat \ {0})
    BY NameType
  <2>4. QED
    BY <1>2, <2>2, <2>3, SeqEqual
<1>3. ASSUME x = y PROVE Strncmp(x, y, Len(y)) = 0 /\ Len(x) = Len(y)
  BY <1>1, <1>3, StrncmpZero
<1>4. QED
  BY <1>2, <1>3

\* A name before the one looked for compares as less.
LEMMA StrncmpLess ==
    ASSUME NEW x \in Names, NEW y \in Names, Sorted(x, y)
    PROVE  Strncmp(x, y, Len(y)) < 0
<1>1. Len(y) \in Nat
  BY NameType
<1>2. PICK k \in 1 .. Len(y) : ByteOf(x, k) < y[k] /\ \A j \in 1 .. k - 1 : ByteOf(x, j) = y[j]
  BY DEF Sorted
<1>3. \A j \in 1 .. k - 1 : j \in 1 .. Len(y)
  BY <1>1
<1>4. ByteOf(y, k) = y[k] /\ \A j \in 1 .. k - 1 : ByteOf(x, j) = ByteOf(y, j)
  BY <1>2, <1>3, NameType
<1>5. PICK a \in Nat, b \in Nat : a = ByteOf(x, k) /\ b = ByteOf(y, k) /\ a < b
  BY <1>1, <1>2, <1>4, NameType
<1>6. ByteOf(x, k) # ByteOf(y, k)
  BY <1>5
<1>7. Strncmp(x, y, Len(y)) = a - b
  BY <1>1, <1>4, <1>5, <1>6, StrncmpFirst
<1>8. QED
  BY <1>5, <1>7

\* One behind it stops the search of the index.
LEMMA StrncmpStops ==
    ASSUME NEW x \in Names, NEW y \in Names, Sorted(y, x)
    PROVE  LET order == Strncmp(x, y, Len(y)) IN order > 0 \/ (order = 0 /\ Len(x) > Len(y))
<1>1. Len(y) \in Nat /\ Len(x) \in Nat
  BY NameType
<1>2. PICK k \in 1 .. Len(x) : ByteOf(y, k) < x[k] /\ \A j \in 1 .. k - 1 : ByteOf(y, j) = x[j]
  BY DEF Sorted
<1>3. \A j \in 1 .. k - 1 : j \in 1 .. Len(x)
  BY <1>1
<1>4. ByteOf(x, k) = x[k] /\ \A j \in 1 .. k - 1 : ByteOf(x, j) = ByteOf(y, j)
  BY <1>2, <1>3, NameType
<1>5. PICK a \in Nat, b \in Nat : a = ByteOf(x, k) /\ b = ByteOf(y, k) /\ b < a
  BY <1>1, <1>2, <1>4, NameType
<1>6. CASE k <= Len(y)
  <2>1. k \in 1 .. Len(y) /\ ByteOf(x, k) # ByteOf(y, k)
    BY <1>1, <1>5, <1>6
  <2>2. Strncmp(x, y, Len(y)) = a - b
    BY <1>1, <1>4, <1>5, <2>1, StrncmpFirst
  <2>3. QED
    BY <1>5, <2>2
<1>7. CASE ~ (k <= Len(y))
  <2>1. \A i \in 1 .. Len(y) : i \in 1 .. k - 1
    BY <1>1, <1>7
  <2>2. Strncmp(x, y, Len(y)) = 0
    BY <1>1, <1>4, <2>1, StrncmpZero
  <2>3. Len(x) > Len(y)
    BY <1>1, <1>7
  <2>4. QED
    BY <2>2, <2>3
<1>8. QED
  BY <1>6, <1>7

-----------------------------------------------------------------------------
(***************************************************************************)
(* Cookies.                                                                *)
(***************************************************************************)
LEMMA CookiesAre ==
    ASSUME NEW l, IsLayout(l)
    PROVE  /\ DOMAIN Cookies(l) = 0 .. Len(l.names) + 2
           /\ \A k \in 0 .. Len(l.names) + 2 : Cookies(l)[k] \in Nat
           /\ Cookies(l)[0] = 0 /\ Cookies(l)[1] = 1 /\ Cookies(l)[2] = 2
           /\ \A k \in 0 .. Len(l.names) : Cookies(l)[k + 2] = Ends(l)[k] + 2
           /\ \A k \in 0 .. Len(l.names) + 2 : k < 2 <=> Cookies(l)[k] < 2
<1>1. PICK n \in Nat : n = Len(l.names)
  BY LayoutType
<1>2. \A k \in 0 .. n : Ends(l)[k] \in Nat
  BY <1>1, EndsType
<1>3. Ends(l)[0] = 0
  BY <1>1, EndsStep
<1>4. PICK c : c = Cookies(l)
  OBVIOUS
<1>5. c = [k \in 0 .. n + 2 |-> IF k <= 2 THEN k ELSE Ends(l)[k - 2] + 2]
  BY <1>1, <1>4 DEF Cookies
<1>6. c[0] = 0 /\ c[1] = 1 /\ c[2] = 2
  BY <1>5
<1>7. ASSUME NEW k \in 0 .. n PROVE c[k + 2] = Ends(l)[k] + 2
  <2>1. CASE k = 0
    BY <1>3, <1>6, <2>1
  <2>2. CASE k # 0
    BY <1>5, <2>2
  <2>3. QED
    BY <2>1, <2>2
<1>8. ASSUME NEW k \in 0 .. n + 2 PROVE c[k] \in Nat /\ (k < 2 <=> c[k] < 2)
  <2>1. CASE k < 2
    BY <1>5, <2>1
  <2>2. CASE ~ (k < 2)
    <3>1. PICK j \in 0 .. n : k = j + 2
      <4>1. k - 2 \in 0 .. n /\ k = (k - 2) + 2
        BY <2>2
      <4>2. QED
        BY <4>1
    <3>2. PICK a \in Nat : a = Ends(l)[j]
      BY <1>2
    <3>3. c[k] = a + 2
      BY <1>7, <3>1, <3>2
    <3>4. QED
      BY <2>2, <3>2, <3>3
  <2>3. QED
    BY <2>1, <2>2
<1>9. QED
  BY <1>1, <1>4, <1>5, <1>6, <1>7, <1>8

\* A cookie comes with one entry.
LEMMA PassedIs ==
    ASSUME NEW l, IsLayout(l), NEW k \in 0 .. Len(l.names) + 2
    PROVE  Passed(l, Cookies(l)[k]) = k
<1>1. PICK n \in Nat : n = Len(l.names)
  BY LayoutType
<1>2. ASSUME NEW i \in 0 .. n + 2, Cookies(l)[i] = Cookies(l)[k] PROVE i = k
  <2>1. CASE i < 2 /\ k < 2
    <3>1. (i = 0 \/ i = 1) /\ (k = 0 \/ k = 1)
      BY <1>1, <2>1
    <3>2. QED
      BY <1>2, <3>1, CookiesAre
  <2>2. CASE ~ (i < 2) /\ ~ (k < 2)
    <3>1. i - 2 \in 0 .. n /\ k - 2 \in 0 .. n /\ i = (i - 2) + 2 /\ k = (k - 2) + 2
      BY <1>1, <2>2
    <3>2. PICK a \in 0 .. n, b \in 0 .. n : a = i - 2 /\ b = k - 2 /\ i = a + 2 /\ k = b + 2
      BY <3>1
    <3>3. PICK x \in Nat, y \in Nat : x = Ends(l)[a] /\ y = Ends(l)[b]
      BY <1>1, EndsType
    <3>4. Cookies(l)[i] = x + 2 /\ Cookies(l)[k] = y + 2
      BY <1>1, <3>2, <3>3, CookiesAre
    <3>5. x + 2 = y + 2
      BY <1>2, <3>4, Zenon
    <3>6. x = y
      BY <3>5
    <3>7. a = b
      BY <1>1, <3>3, <3>6, EndsSame
    <3>8. QED
      BY <3>2, <3>7
  <2>3. i < 2 <=> k < 2
    <3>1. (i < 2 <=> Cookies(l)[i] < 2) /\ (k < 2 <=> Cookies(l)[k] < 2)
      BY <1>1, CookiesAre
    <3>2. QED
      BY <1>2, <3>1, Zenon
  <2>4. QED
    BY <2>1, <2>2, <2>3
<1>3. DOMAIN Cookies(l) = 0 .. n + 2
  BY <1>1, CookiesAre
<1>4. QED
  BY <1>1, <1>2, <1>3 DEF Passed

LEMMA AllAre ==
    ASSUME NEW l, IsLayout(l)
    PROVE  /\ DOMAIN All(l) = 1 .. Len(l.names) + 2
           /\ All(l)[1] = <<0>> /\ All(l)[2] = <<0, 0>>
           /\ \A k \in 1 .. Len(l.names) : All(l)[k + 2] = l.names[k]
<1>1. PICK n \in Nat : n = Len(l.names)
  BY LayoutType
<1>2. PICK a : a = All(l)
  OBVIOUS
<1>3. a = [k \in 1 .. n + 2 |-> IF k <= 2 THEN Dots[k] ELSE l.names[k - 2]]
  BY <1>1, <1>2 DEF All
<1>4. a[1] = <<0>> /\ a[2] = <<0, 0>>
  BY <1>3 DEF Dots
<1>5. ASSUME NEW k \in 1 .. n PROVE a[k + 2] = l.names[k]
  <2>1. k + 2 \in 1 .. n + 2 /\ ~ (k + 2 <= 2) /\ (k + 2) - 2 = k
    OBVIOUS
  <2>2. QED
    BY <1>3, <2>1
<1>6. QED
  BY <1>1, <1>2, <1>3, <1>4, <1>5

LEMMA DotsAre ==
    /\ Range(Dots) = {<<0>>, <<0, 0>>}
    /\ Dots[1] = <<0>> /\ Dots[2] = <<0, 0>>
  BY DEF Dots, Range

\* Every entry takes some room, and a dot as little as possible.
LEMMA DirentSizeIs ==
    ASSUME NEW name \in Names \cup Range(Dots)
    PROVE  DirentSize(name) \in Nat \ {0} /\ (name \in Range(Dots) => DirentSize(name) = 1)
<1>1. name \notin Range(Dots) => Len(name) \in Nat \ {0}
  BY NameType
<1>2. QED
  BY <1>1 DEF DirentSize

Replies == [name : Names \cup Range(Dots), cookie : Nat]

-----------------------------------------------------------------------------
(***************************************************************************)
(* The inductive invariant.                                                *)
(***************************************************************************)
\* The first Len(o) entries from the one that is numbered from.
Listed(l, from, o) ==
    /\ from + Len(o) <= Len(l.names) + 2
    /\ \A k \in 1 .. Len(o) : o[k] = [name |-> All(l)[from + k], cookie |-> Cookies(l)[from + k]]

(* A readdir that passes over the first from entries, at step p with this  *)
(* room, dir_offset, directory and reply.  Only ".." may be left out, and  *)
(* then there is no room for anything.                                     *)
ReaddirOK(l, p, from, room, to, d, o) ==
    /\ from \in 0 .. Len(l.names) + 2
    /\ Listed(l, from, o)
    /\ p \in {"dots", "hldots"} => to = Cookies(l)[from + Len(o)] /\ (o = <<>> => room > 0)
    /\ p = "open" => to = 2 /\ room = 0 /\ o # <<>>
    /\ p = "ff"   => from + Len(o) >= 2 /\ to + 2 = Cookies(l)[from + Len(o)] /\ d.offset <= to
    /\ p = "list" => \/ from + Len(o) >= 2 /\ d.offset + 2 = Cookies(l)[from + Len(o)]
                     \/ room = 0 /\ o # <<>>
    /\ p = "reply" /\ o = <<>> =>
          from = Len(l.names) + 2 \/ DirentSize(All(l)[from + 1]) > room

\* A lookup has not passed the name, and what it answers is right.
LookupOK(l, p, name, d, fnd) ==
    /\ p # "answer" => ~ fnd
    /\ p = "scan" =>
         name \in Names /\ \A q \in 1 .. Len(l.names) : l.names[q] = name => d.offset < Ends(l)[q]
    /\ p = "answer" =>
         /\ fnd <=> \E q \in 1 .. Len(l.names) : l.names[q] = name
         /\ fnd => d.name = name

Reading == {"dots", "hldots", "open", "ff", "list", "reply"}

IInv ==
    /\ layout \in Layouts
    /\ TypeOK
    /\ \E g \in 0 .. Len(layout.names) : Stands(layout, dir, g)
    /\ pc \in Reading =>
         \E from \in 0 .. Len(layout.names) + 2 :
             /\ off = Cookies(layout)[from]
             /\ ReaddirOK(layout, pc, from, size, dirOffset, dir, out)
    /\ LookupOK(layout, pc, target, dir, found)
    /\ pc = "idle" => out = <<>>
    /\ pc \in {"inval", "eio"} => failed

-----------------------------------------------------------------------------
(***************************************************************************)
(* What a step does to a readdir.                                          *)
(***************************************************************************)
\* The next entry of the listing is added to the reply.
LEMMA ListedAppend ==
    ASSUME NEW l, IsLayout(l), NEW o \in Seq(Replies), NEW from \in Nat, Listed(l, from, o),
           NEW e \in Replies, from + Len(o) < Len(l.names) + 2,
           e = [name |-> All(l)[from + Len(o) + 1], cookie |-> Cookies(l)[from + Len(o) + 1]]
    PROVE  /\ Append(o, e) \in Seq(Replies) /\ Len(Append(o, e)) = Len(o) + 1
           /\ Append(o, e) # <<>>
           /\ Listed(l, from, Append(o, e))
<1>1. PICK n \in Nat : n = Len(l.names)
  BY LayoutType
<1>2. PICK p : p = Append(o, e)
  OBVIOUS
<1>3. /\ p \in Seq(Replies) /\ Len(p) = Len(o) + 1 /\ Len(o) \in Nat
      /\ \A i \in 1 .. Len(o) : p[i] = o[i]
      /\ p[Len(o) + 1] = e
  BY <1>2, AppendProperties
<1>4. p # <<>>
  BY <1>3, EmptySeq
<1>5. from + Len(p) <= n + 2
  BY <1>1, <1>3
<1>6. ASSUME NEW k \in 1 .. Len(p)
      PROVE  p[k] = [name |-> All(l)[from + k], cookie |-> Cookies(l)[from + k]]
  <2>1. PICK len \in Nat : len = Len(o) /\ Len(p) = len + 1
    BY <1>3
  <2>2. k \in 1 .. len + 1
    BY <2>1
  <2>3. CASE k \in 1 .. len
    BY <1>3, <2>1, <2>3 DEF Listed
  <2>4. CASE k = len + 1
    <3>1. from + k = from + len + 1
      BY <2>4
    <3>2. QED
      BY <1>3, <2>1, <2>4, <3>1
  <2>5. k \in 1 .. len \/ k = len + 1
    BY <2>2
  <2>6. QED
    BY <2>3, <2>4, <2>5
<1>7. QED
  BY <1>1, <1>2, <1>3, <1>4, <1>5, <1>6 DEF Listed

\* A readdir as it starts.
LEMMA ReaddirStart ==
    ASSUME NEW l, IsLayout(l), NEW from \in 0 .. Len(l.names) + 2, NEW room \in Nat \ {0},
           NEW p \in {"dots", "hldots"}, NEW d
    PROVE  ReaddirOK(l, p, from, room, Cookies(l)[from], d, <<>>)
<1>1. Len(l.names) \in Nat /\ Len(<<>>) = 0 /\ from + 0 = from
  BY LayoutType
<1>2. Listed(l, from, <<>>)
  BY <1>1 DEF Listed
<1>3. QED
  BY <1>1, <1>2 DEF ReaddirOK

(* A dot that fits is the next entry.  One that does not fit is the        *)
(* second, and then there is no room.                                      *)
LEMMA DotStep ==
    ASSUME NEW l, IsLayout(l), NEW p \in {"dots", "hldots"}, NEW from, NEW room \in Nat,
           NEW to \in Nat, NEW d, NEW o \in Seq(Replies), to < 2,
           ReaddirOK(l, p, from, room, to, d, o)
    PROVE  LET e    == [name |-> Dots[to + 1], cookie |-> to + 1]
               next == Append(o, e)
           IN /\ DirentSize(Dots[to + 1]) = 1
              /\ ~ (1 > room) => /\ next \in Seq(Replies) /\ room - 1 \in 0 .. room
                                 /\ ReaddirOK(l, p, from, room - 1, to + 1, d, next)
              /\ 1 > room => /\ ReaddirOK(l, "open", from, room, to + 1, d, o)
                             /\ ReaddirOK(l, "reply", from, room, to + 1, d, o)
<1>1. PICK n \in Nat : n = Len(l.names)
  BY LayoutType
<1>2. from \in 0 .. n + 2 /\ from \in Nat /\ Len(o) \in Nat /\ Listed(l, from, o)
  BY <1>1 DEF ReaddirOK
<1>3. PICK m \in 0 .. n + 2 : m = from + Len(o) /\ m \in Nat
  BY <1>1, <1>2 DEF Listed
<1>4. to = Cookies(l)[m] /\ (o = <<>> => room > 0)
  BY <1>3 DEF ReaddirOK
<1>5. m < 2
  BY <1>1, <1>4, CookiesAre
<1>6. m = to /\ (m = 0 \/ m = 1)
  <2>1. m = 0 \/ m = 1
    BY <1>5
  <2>2. QED
    BY <1>4, <2>1, CookiesAre
<1>7. /\ Dots[to + 1] = All(l)[m + 1] /\ to + 1 = Cookies(l)[m + 1]
      /\ Dots[to + 1] \in Range(Dots) /\ m + 1 \in 0 .. n + 2 /\ m < n + 2
  <2>1. m + 1 \in 0 .. n + 2 /\ m < n + 2
    BY <1>6
  <2>2. CASE m = 0
    <3>1. to + 1 = 1 /\ m + 1 = 1
      BY <1>6, <2>2
    <3>2. QED
      BY <2>1, <3>1, CookiesAre, AllAre, DotsAre
  <2>3. CASE m = 1
    <3>1. to + 1 = 2 /\ m + 1 = 2
      BY <1>6, <2>3
    <3>2. QED
      BY <2>1, <3>1, CookiesAre, AllAre, DotsAre
  <2>4. QED
    BY <1>6, <2>2, <2>3
<1>8. DirentSize(Dots[to + 1]) = 1
  BY <1>7, DirentSizeIs
<1>9. ASSUME ~ (1 > room)
      PROVE  LET next == Append(o, [name |-> Dots[to + 1], cookie |-> to + 1])
             IN /\ next \in Seq(Replies) /\ room - 1 \in 0 .. room
                /\ ReaddirOK(l, p, from, room - 1, to + 1, d, next)
  <2>1. PICK e \in Replies : e = [name |-> Dots[to + 1], cookie |-> to + 1]
    <3>1. to + 1 \in Nat /\ Dots[to + 1] \in Names \cup Range(Dots)
      BY <1>7
    <3>2. QED
      BY <3>1 DEF Replies
  <2>2. e = [name |-> All(l)[from + Len(o) + 1], cookie |-> Cookies(l)[from + Len(o) + 1]]
    BY <1>3, <1>7, <2>1
  <2>3. PICK next : next = Append(o, e)
    OBVIOUS
  <2>4. from + Len(o) < Len(l.names) + 2
    BY <1>1, <1>3, <1>7
  <2>5. /\ next \in Seq(Replies) /\ Len(next) = Len(o) + 1 /\ next # <<>>
        /\ Listed(l, from, next)
    BY <1>2, <2>2, <2>3, <2>4, ListedAppend
  <2>6. from + Len(next) = m + 1
    BY <1>2, <1>3, <2>5
  <2>7. ReaddirOK(l, p, from, room - 1, to + 1, d, next)
    BY <1>1, <1>2, <1>7, <2>5, <2>6 DEF ReaddirOK
  <2>8. room - 1 \in 0 .. room
    BY <1>9
  <2>9. QED
    BY <2>1, <2>3, <2>5, <2>7, <2>8
<1>10. ASSUME 1 > room
       PROVE  /\ ReaddirOK(l, "open", from, room, to + 1, d, o)
              /\ ReaddirOK(l, "reply", from, room, to + 1, d, o)
  <2>1. room = 0 /\ o # <<>>
    BY <1>4, <1>10
  <2>2. Len(o) # 0
    BY <2>1, EmptySeq
  <2>3. to + 1 = 2
    BY <1>2, <1>3, <1>6, <2>2
  <2>4. QED
    BY <1>1, <1>2, <2>1, <2>3 DEF ReaddirOK
<1>11. QED
  BY <1>8, <1>9, <1>10

\* Where a readdir that is past the dots continues.
LEMMA PastDots ==
    ASSUME NEW l, IsLayout(l), NEW p, NEW from, NEW room, NEW to, NEW d, NEW o \in Seq(Replies),
           ReaddirOK(l, p, from, room, to, d, o), from + Len(o) >= 2
    PROVE  \E q \in 0 .. Len(l.names) :
              /\ from + Len(o) = q + 2 /\ Cookies(l)[from + Len(o)] = Ends(l)[q] + 2
              /\ Ends(l)[q] \in Nat
<1>1. PICK n \in Nat : n = Len(l.names)
  BY LayoutType
<1>2. from \in 0 .. n + 2 /\ from \in Nat /\ Len(o) \in Nat /\ Listed(l, from, o)
  BY <1>1 DEF ReaddirOK
<1>3. PICK m \in 0 .. n + 2 : m = from + Len(o)
  BY <1>1, <1>2 DEF Listed
<1>4. m - 2 \in 0 .. n /\ m = (m - 2) + 2
  BY <1>3
<1>5. PICK q \in 0 .. n : m = q + 2
  BY <1>4
<1>6. Cookies(l)[q + 2] = Ends(l)[q] + 2 /\ Ends(l)[q] \in Nat
  BY <1>1, CookiesAre, EndsType
<1>7. QED
  BY <1>1, <1>3, <1>5, <1>6

\* sqfs_dir_open is given the place to continue at.
LEMMA OpenStep ==
    ASSUME NEW l, IsLayout(l), NEW p, NEW from, NEW room \in Nat, NEW to \in Nat, NEW d,
           NEW o \in Seq(Replies), ReaddirOK(l, p, from, room, to, d, o),
           p = "open" \/ (p \in {"dots", "hldots"} /\ to >= 2)
    PROVE  LET t == to - 2
               f == FfHeader(l, DirOpen(l), OffsetStops(l, t))
           IN /\ t \in Nat
              /\ t = 0 => ReaddirOK(l, "list", from, room, t, DirOpen(l), o)
              /\ t # 0 => ReaddirOK(l, "ff", from, room, t, f, o)
<1>1. PICK n \in Nat : n = Len(l.names)
  BY LayoutType
<1>2. from \in 0 .. n + 2 /\ from \in Nat /\ Len(o) \in Nat /\ Listed(l, from, o)
  BY <1>1 DEF ReaddirOK
<1>3. CASE p = "open"
  <2>1. to = 2 /\ room = 0 /\ o # <<>>
    BY <1>3 DEF ReaddirOK
  <2>2. to - 2 = 0
    BY <2>1
  <2>3. QED
    BY <1>1, <1>2, <2>1, <2>2 DEF ReaddirOK
<1>4. CASE p # "open"
  <2>1. p \in {"dots", "hldots"} /\ to >= 2 /\ to = Cookies(l)[from + Len(o)]
    BY <1>4 DEF ReaddirOK
  <2>2. PICK m \in 0 .. n + 2 : m = from + Len(o)
    BY <1>1, <1>2 DEF Listed
  <2>3. from + Len(o) >= 2
    <3>1. ~ (Cookies(l)[m] < 2)
      BY <2>1, <2>2
    <3>2. ~ (m < 2)
      BY <1>1, <3>1, CookiesAre
    <3>3. QED
      BY <2>2, <3>2
  <2>4. PICK q \in 0 .. n : /\ from + Len(o) = q + 2 /\ Cookies(l)[from + Len(o)] = Ends(l)[q] + 2
                            /\ Ends(l)[q] \in Nat
    BY <1>1, <2>3, PastDots
  <2>5. PICK t \in Nat : t = to - 2 /\ t = Ends(l)[q] /\ to = t + 2
    BY <2>1, <2>4
  <2>6. ASSUME t = 0 PROVE ReaddirOK(l, "list", from, room, t, DirOpen(l), o)
    <3>1. DirOpen(l).offset + 2 = Cookies(l)[from + Len(o)]
      BY <2>1, <2>5, <2>6 DEF DirOpen
    <3>2. QED
      BY <1>1, <1>2, <2>3, <3>1 DEF ReaddirOK
  <2>7. ASSUME t # 0
        PROVE  ReaddirOK(l, "ff", from, room, t, FfHeader(l, DirOpen(l), OffsetStops(l, t)), o)
    <3>1. PICK f : f = FfHeader(l, DirOpen(l), OffsetStops(l, t))
      OBVIOUS
    <3>2. PICK g \in 0 .. n : /\ Stands(l, f, g)
                              /\ g = 0 \/ (g + 1 \in l.indexed /\ g + 1 \notin OffsetStops(l, t))
      BY <1>1, <3>1, FfStands
    <3>3. PICK a \in Nat : a = Ends(l)[g] /\ f.offset = a
      BY <1>1, <3>2, EndsType DEF Stands
    <3>4. a <= t
      <4>1. CASE g = 0
        <5>1. Ends(l)[0] = 0
          BY <1>1, EndsStep
        <5>2. QED
          BY <3>3, <4>1, <5>1
      <4>2. CASE g # 0
        <5>1. g + 1 \in l.indexed /\ g + 1 \notin OffsetStops(l, t)
          BY <3>2, <4>2
        <5>2. (g + 1) - 1 = g
          OBVIOUS
        <5>3. IndexOf(l, g + 1).index = a
          BY <3>3, <5>2 DEF IndexOf
        <5>4. ~ (a >= t)
          BY <5>1, <5>3 DEF OffsetStops
        <5>5. QED
          BY <5>4
      <4>3. QED
        BY <4>1, <4>2
    <3>5. t + 2 = Cookies(l)[from + Len(o)] /\ f.offset <= t
      BY <2>1, <2>5, <3>3, <3>4
    <3>6. QED
      BY <1>1, <1>2, <2>3, <3>1, <3>5 DEF ReaddirOK
  <2>8. QED
    BY <2>5, <2>6, <2>7
<1>5. QED
  BY <1>3, <1>4

\* Reading entries up to the offset does not go past it.
LEMMA FfStep ==
    ASSUME NEW l, IsLayout(l), NEW from, NEW room, NEW to \in Nat, NEW d, NEW o \in Seq(Replies),
           NEW g, Stands(l, d, g), ReaddirOK(l, "ff", from, room, to, d, o)
    PROVE  /\ d.offset < to =>
                g # Len(l.names) /\ ReaddirOK(l, "ff", from, room, to, DirNext(l, d), o)
           /\ d.offset >= to \/ AtEnd(d) =>
                d.offset = to /\ ReaddirOK(l, "list", from, room, to, d, o)
<1>1. PICK n \in Nat : n = Len(l.names)
  BY LayoutType
<1>2. /\ from \in 0 .. n + 2 /\ Listed(l, from, o) /\ from + Len(o) >= 2
      /\ to + 2 = Cookies(l)[from + Len(o)] /\ d.offset <= to
  BY <1>1 DEF ReaddirOK
<1>3. PICK q \in 0 .. n : Cookies(l)[from + Len(o)] = Ends(l)[q] + 2 /\ Ends(l)[q] \in Nat
  BY <1>1, <1>2, PastDots
<1>4. to = Ends(l)[q]
  BY <1>2, <1>3
<1>5. g \in 0 .. n
  BY <1>1 DEF Stands
<1>6. PICK a \in Nat : a = d.offset /\ a = Ends(l)[g]
  BY <1>1, <1>5, EndsType DEF Stands
<1>7. ASSUME d.offset < to
      PROVE  g # n /\ ReaddirOK(l, "ff", from, room, to, DirNext(l, d), o)
  <2>1. g < q
    BY <1>1, <1>4, <1>5, <1>6, <1>7, EndsSame
  <2>2. g # n /\ g + 1 \in 0 .. n /\ g + 1 <= q
    BY <1>5, <2>1
  <2>3. DirNext(l, d).offset = Ends(l)[g + 1]
    BY <1>1, <2>2, NextStands DEF Stands
  <2>4. Ends(l)[g + 1] <= Ends(l)[q]
    BY <1>1, <2>2, EndsSame
  <2>5. DirNext(l, d).offset <= to
    BY <1>4, <2>3, <2>4
  <2>6. QED
    BY <1>1, <1>2, <2>2, <2>5 DEF ReaddirOK
<1>8. ASSUME d.offset >= to \/ AtEnd(d)
      PROVE  d.offset = to /\ ReaddirOK(l, "list", from, room, to, d, o)
  <2>1. a >= to
    <3>1. CASE d.offset >= to
      BY <1>6, <3>1
    <3>2. CASE AtEnd(d)
      <4>1. g = n
        BY <1>1, <3>2, AtEndIs
      <4>2. q <= g
        BY <4>1
      <4>3. Ends(l)[q] <= Ends(l)[g]
        BY <1>1, <1>5, <4>2, EndsSame
      <4>4. QED
        BY <1>4, <1>6, <4>3
    <3>3. QED
      BY <1>8, <3>1, <3>2
  <2>2. d.offset = to
    BY <1>2, <1>6, <2>1
  <2>3. QED
    BY <1>1, <1>2, <2>2 DEF ReaddirOK
<1>9. QED
  BY <1>1, <1>7, <1>8

(* The entry that is read is the next of the listing, unless there is no   *)
(* room for any.                                                           *)
LEMMA ListStep ==
    ASSUME NEW l, IsLayout(l), NEW from, NEW room \in Nat, NEW to, NEW d,
           NEW o \in Seq(Replies), NEW g, Stands(l, d, g), g # Len(l.names),
           ReaddirOK(l, "list", from, room, to, d, o)
    PROVE  LET f    == DirNext(l, d)
               next == Append(o, [name |-> f.name, cookie |-> f.offset + 2])
               left == room - DirentSize(f.name)
           IN /\ DirentSize(f.name) > room => ReaddirOK(l, "reply", from, room, to, f, o)
              /\ ~ (DirentSize(f.name) > room) =>
                    /\ next \in Seq(Replies) /\ left \in 0 .. room
                    /\ ReaddirOK(l, "list", from, left, to, f, next)
<1>1. PICK n \in Nat : n = Len(l.names)
  BY LayoutType
<1>2. from \in 0 .. n + 2 /\ from \in Nat /\ Len(o) \in Nat /\ Listed(l, from, o)
  BY <1>1 DEF ReaddirOK
<1>3. PICK f : f = DirNext(l, d)
  OBVIOUS
<1>4. /\ g \in 0 .. n /\ g + 1 \in 1 .. n /\ g + 1 \in 0 .. n
      /\ f.name = l.names[g + 1] /\ f.offset = Ends(l)[g + 1] /\ d.offset = Ends(l)[g]
  BY <1>1, <1>3, NextStands DEF Stands
<1>5. f.name \in Names /\ f.offset \in Nat
  BY <1>1, <1>4, LayoutType, EndsType
<1>6. PICK takes \in Nat \ {0} : takes = DirentSize(f.name)
  BY <1>5, DirentSizeIs
<1>7. CASE room = 0 /\ o # <<>>
  <2>1. takes > room
    BY <1>7
  <2>2. ReaddirOK(l, "reply", from, room, to, f, o)
    BY <1>1, <1>2, <1>7 DEF ReaddirOK
  <2>3. QED
    BY <1>3, <1>6, <2>1, <2>2
<1>8. CASE ~ (room = 0 /\ o # <<>>)
  <2>1. from + Len(o) >= 2 /\ d.offset + 2 = Cookies(l)[from + Len(o)]
    BY <1>8 DEF ReaddirOK
  <2>2. PICK q \in 0 .. n : /\ from + Len(o) = q + 2 /\ Cookies(l)[from + Len(o)] = Ends(l)[q] + 2
                            /\ Ends(l)[q] \in Nat
    BY <1>1, <2>1, PastDots
  <2>3. q = g
    <3>1. PICK a \in Nat, b \in Nat : a = Ends(l)[g] /\ b = Ends(l)[q]
      BY <1>1, <1>4, EndsType
    <3>2. a + 2 = b + 2
      BY <1>4, <2>1, <2>2, <3>1, Zenon
    <3>3. a = b
      BY <3>2
    <3>4. QED
      BY <1>1, <1>4, <3>1, <3>3, EndsSame
  <2>4. PICK m \in Nat : m = from + Len(o) /\ m + 1 = (g + 1) + 2 /\ m < n + 2
    BY <1>2, <1>4, <2>2, <2>3
  <2>5. All(l)[m + 1] = f.name
    BY <1>1, <1>4, <2>4, AllAre
  <2>6. Cookies(l)[m + 1] = f.offset + 2
    BY <1>1, <1>4, <2>4, CookiesAre
  <2>7. ASSUME takes > room PROVE ReaddirOK(l, "reply", from, room, to, f, o)
    <3>1. o = <<>> => m = from
      BY <1>2, <2>4
    <3>2. o = <<>> => DirentSize(All(l)[from + 1]) > room
      BY <1>6, <2>5, <2>7, <3>1
    <3>3. QED
      BY <1>1, <1>2, <3>2 DEF ReaddirOK
  <2>8. ASSUME ~ (takes > room)
        PROVE  LET next == Append(o, [name |-> f.name, cookie |-> f.offset + 2])
               IN /\ next \in Seq(Replies) /\ room - takes \in 0 .. room
                  /\ ReaddirOK(l, "list", from, room - takes, to, f, next)
    <3>1. PICK e \in Replies : e = [name |-> f.name, cookie |-> f.offset + 2]
      <4>1. f.offset + 2 \in Nat
        BY <1>5
      <4>2. QED
        BY <1>5, <4>1 DEF Replies
    <3>2. PICK next : next = Append(o, e)
      OBVIOUS
    <3>3. e = [name |-> All(l)[from + Len(o) + 1], cookie |-> Cookies(l)[from + Len(o) + 1]]
      BY <2>4, <2>5, <2>6, <3>1
    <3>4. from + Len(o) < Len(l.names) + 2
      BY <1>1, <2>4
    <3>5. /\ next \in Seq(Replies) /\ Len(next) = Len(o) + 1
          /\ Listed(l, from, next)
      BY <1>2, <3>2, <3>3, <3>4, ListedAppend
    <3>6. from + Len(next) = m + 1 /\ from + Len(next) >= 2
      BY <1>2, <1>4, <2>4, <3>5
    <3>7. f.offset + 2 = Cookies(l)[from + Len(next)]
      BY <2>6, <3>6
    <3>8. ReaddirOK(l, "list", from, room - takes, to, f, next)
      BY <1>1, <1>2, <3>5, <3>6, <3>7 DEF ReaddirOK
    <3>9. room - takes \in 0 .. room
      BY <2>8
    <3>10. QED
      BY <3>1, <3>2, <3>5, <3>8, <3>9
  <2>9. QED
    BY <1>3, <1>6, <2>7, <2>8
<1>9. QED
  BY <1>7, <1>8

\* At the end everything was listed.
LEMMA EndStep ==
    ASSUME NEW l, IsLayout(l), NEW from, NEW room, NEW to, NEW d, NEW o \in Seq(Replies),
           NEW g, Stands(l, d, g), g = Len(l.names), ReaddirOK(l, "list", from, room, to, d, o)
    PROVE  ReaddirOK(l, "reply", from, room, to, d, o)
<1>1. PICK n \in Nat : n = Len(l.names)
  BY LayoutType
<1>2. from \in 0 .. n + 2 /\ from \in Nat /\ Listed(l, from, o)
  BY <1>1 DEF ReaddirOK
<1>3. ASSUME o = <<>> PROVE from = n + 2
  <2>1. from + Len(o) >= 2 /\ d.offset + 2 = Cookies(l)[from + Len(o)]
    BY <1>3 DEF ReaddirOK
  <2>2. PICK q \in 0 .. n : /\ from + Len(o) = q + 2 /\ Cookies(l)[from + Len(o)] = Ends(l)[q] + 2
    BY <1>1, <2>1, PastDots
  <2>3. PICK a \in Nat, b \in Nat : a = Ends(l)[n] /\ b = Ends(l)[q]
    BY <1>1, EndsType
  <2>4. a + 2 = b + 2
    BY <1>1, <2>1, <2>2, <2>3 DEF Stands
  <2>5. a = b
    BY <2>4
  <2>6. n \in 0 .. n
    OBVIOUS
  <2>7. q = n
    BY <1>1, <2>3, <2>5, <2>6, EndsSame
  <2>8. QED
    BY <1>2, <1>3, <2>2, <2>7
<1>4. QED
  BY <1>1, <1>2, <1>3 DEF ReaddirOK

-----------------------------------------------------------------------------
(***************************************************************************)
(* What a step does to a lookup.                                           *)
(***************************************************************************)
\* A run that the search of the index went to does not start behind the name.
LEMMA LookupStart ==
    ASSUME NEW l, IsLayout(l), NEW name \in Names
    PROVE  LET f == FfHeader(l, DirOpen(l), NameStops(l, name))
           IN /\ \E g \in 0 .. Len(l.names) : Stands(l, f, g)
              /\ LookupOK(l, "scan", name, f, FALSE)
<1>1. PICK n \in Nat : n = Len(l.names)
  BY LayoutType
<1>2. PICK f : f = FfHeader(l, DirOpen(l), NameStops(l, name))
  OBVIOUS
<1>3. PICK g \in 0 .. n : /\ Stands(l, f, g)
                          /\ g = 0 \/ (g + 1 \in l.indexed /\ g + 1 \notin NameStops(l, name))
  BY <1>1, <1>2, FfStands
<1>4. ASSUME NEW q \in 1 .. n, l.names[q] = name PROVE f.offset < Ends(l)[q]
  <2>1. g < q
    <3>1. CASE g = 0
      BY <3>1
    <3>2. CASE g # 0
      <4>1. SUFFICES ASSUME ~ (g < q) PROVE FALSE
        OBVIOUS
      <4>2. g + 1 \in l.indexed /\ g + 1 \notin NameStops(l, name)
        BY <1>3, <3>2
      <4>3. DOMAIN l.names = 1 .. n /\ l.indexed \subseteq 1 .. n
        BY <1>1, LayoutType DEF IsLayout
      <4>4. g + 1 \in 1 .. n /\ q < g + 1
        BY <4>1, <4>2, <4>3
      <4>5. PICK x \in Names : x = l.names[g + 1]
        BY <1>1, <4>4, LayoutType
      <4>6. Sorted(l.names[q], l.names[g + 1])
        BY <4>3, <4>4 DEF IsLayout
      <4>7. LET order == Strncmp(x, name, Len(name)) IN order > 0 \/ (order = 0 /\ Len(x) > Len(name))
        BY <1>4, <4>5, <4>6, StrncmpStops
      <4>8. IndexOf(l, g + 1).name = x
        BY <4>5 DEF IndexOf
      <4>9. g + 1 \in NameStops(l, name)
        BY <4>2, <4>7, <4>8 DEF NameStops
      <4>10. QED
        BY <4>2, <4>9
    <3>3. QED
      BY <3>1, <3>2
  <2>2. q \in g + 1 .. n
    BY <2>1
  <2>3. Ends(l)[g] < Ends(l)[q]
    BY <1>1, <2>2, EndsLess
  <2>4. QED
    BY <1>3, <2>3 DEF Stands
<1>5. QED
  BY <1>1, <1>2, <1>3, <1>4 DEF LookupOK

LEMMA LookupStep ==
    ASSUME NEW l, IsLayout(l), NEW name, NEW d, NEW g, Stands(l, d, g), g # Len(l.names),
           NEW fnd, LookupOK(l, "scan", name, d, fnd)
    PROVE  LET f     == DirNext(l, d)
               order == Strncmp(f.name, name, Len(name))
           IN LookupOK(l, IF order >= 0 THEN "answer" ELSE "scan", name, f,
                       order = 0 /\ Len(f.name) = Len(name))
<1>1. PICK n \in Nat : n = Len(l.names)
  BY LayoutType
<1>2. name \in Names /\ \A q \in 1 .. n : l.names[q] = name => d.offset < Ends(l)[q]
  BY <1>1 DEF LookupOK
<1>3. PICK f : f = DirNext(l, d)
  OBVIOUS
<1>4. /\ g \in 0 .. n /\ g + 1 \in 1 .. n /\ g + 1 \in 0 .. n /\ f.name = l.names[g + 1]
      /\ f.offset = Ends(l)[g + 1] /\ d.offset = Ends(l)[g]
  BY <1>1, <1>3, NextStands DEF Stands
<1>5. f.name \in Names
  BY <1>1, <1>4, LayoutType
<1>6. PICK order : order = Strncmp(f.name, name, Len(name))
  OBVIOUS
<1>7. order = 0 /\ Len(f.name) = Len(name) <=> f.name = name
  BY <1>2, <1>5, <1>6, StrncmpSame
<1>8. ASSUME NEW q \in 1 .. n, l.names[q] = name
      PROVE  g + 1 <= q /\ (g + 1 < q => order < 0)
  <2>1. Ends(l)[g] < Ends(l)[q] /\ q \in 0 .. n
    BY <1>2, <1>4, <1>8
  <2>2. g < q
    BY <1>1, <1>4, <2>1, EndsSame
  <2>3. g + 1 <= q
    BY <1>4, <2>2
  <2>4. ASSUME g + 1 < q PROVE order < 0
    <3>1. DOMAIN l.names = 1 .. n
      BY <1>1, LayoutType
    <3>2. Sorted(l.names[g + 1], l.names[q])
      BY <1>4, <2>4, <3>1 DEF IsLayout
    <3>3. QED
      BY <1>2, <1>4, <1>5, <1>6, <1>8, <3>2, StrncmpLess
  <2>5. QED
    BY <2>3, <2>4
<1>9. CASE order >= 0
  <2>1. f.name = name <=> \E q \in 1 .. n : l.names[q] = name
    <3>1. ASSUME NEW q \in 1 .. n, l.names[q] = name PROVE f.name = name
      <4>1. g + 1 <= q /\ (g + 1 < q => order < 0)
        BY <1>8, <3>1
      <4>2. ~ (g + 1 < q)
        <5>1. order < 0 => ~ (order >= 0)
          <6>1. order \in Int
            <7>1. Len(name) \in Nat
              BY <1>2, NameType
            <7>2. QED
              BY <1>2, <1>5, <1>6, <7>1, StrncmpType
          <6>2. QED
            BY <6>1
        <5>2. QED
          BY <1>9, <4>1, <5>1
      <4>3. q = g + 1
        BY <1>4, <4>1, <4>2
      <4>4. QED
        BY <1>4, <3>1, <4>3
    <3>2. QED
      BY <1>4, <3>1
  <2>2. LookupOK(l, "answer", name, f, order = 0 /\ Len(f.name) = Len(name))
    BY <1>1, <1>7, <2>1 DEF LookupOK
  <2>3. QED
    BY <1>3, <1>6, <1>9, <2>2
<1>10. CASE ~ (order >= 0)
  <2>1. ~ (order = 0 /\ Len(f.name) = Len(name))
    BY <1>10
  <2>2. ASSUME NEW q \in 1 .. n, l.names[q] = name PROVE f.offset < Ends(l)[q]
    <3>1. g + 1 <= q /\ q # g + 1
      BY <1>4, <1>7, <1>8, <2>1, <2>2
    <3>2. q \in (g + 1) + 1 .. n
      BY <1>4, <3>1
    <3>3. QED
      BY <1>1, <1>4, <3>2, EndsLess
  <2>3. LookupOK(l, "scan", name, f, order = 0 /\ Len(f.name) = Len(name))
    BY <1>1, <1>2, <2>1, <2>2 DEF LookupOK
  <2>4. QED
    BY <1>3, <1>6, <1>10, <2>3
<1>11. QED
  BY <1>9, <1>10

LEMMA LookupOver ==
    ASSUME NEW l, IsLayout(l), NEW name, NEW d, NEW g, Stands(l, d, g), g = Len(l.names),
           NEW fnd, LookupOK(l, "scan", name, d, fnd)
    PROVE  LookupOK(l, "answer", name, d, fnd)
<1>1. PICK n \in Nat : n = Len(l.names)
  BY LayoutType
<1>2. ~ fnd /\ \A q \in 1 .. n : l.names[q] = name => d.offset < Ends(l)[q]
  BY <1>1 DEF LookupOK
<1>3. ASSUME NEW q \in 1 .. n PROVE l.names[q] # name
  <2>1. q \in 0 .. n /\ g \in 0 .. n /\ q <= g /\ d.offset = Ends(l)[g]
    BY <1>1 DEF Stands
  <2>2. Ends(l)[q] <= Ends(l)[g] /\ Ends(l)[q] \in Nat /\ Ends(l)[g] \in Nat
    BY <1>1, <2>1, EndsSame, EndsType
  <2>3. ~ (d.offset < Ends(l)[q])
    BY <2>1, <2>2
  <2>4. QED
    BY <1>2, <2>3
<1>4. QED
  BY <1>1, <1>2, <1>3 DEF LookupOK

-----------------------------------------------------------------------------
(***************************************************************************)
(* Every action keeps the invariant.                                       *)
(***************************************************************************)
LEMMA Facts ==
    ASSUME IInv
    PROVE  /\ IsLayout(layout) /\ out \in Seq(Replies) /\ size \in Nat /\ dirOffset \in Nat
           /\ \E g \in 0 .. Len(layout.names) : Stands(layout, dir, g)
           /\ pc # "answer" => ~ found
           /\ pc \in Reading =>
                \E from \in 0 .. Len(layout.names) + 2 :
                    /\ off = Cookies(layout)[from]
                    /\ ReaddirOK(layout, pc, from, size, dirOffset, dir, out)
<1>1. layout \in Layouts /\ TypeOK
  BY DEF IInv
<1>2. IsLayout(layout)
  BY <1>1, DirAssumption
<1>3. out \in Seq(Replies) /\ dirOffset \in Nat
  BY <1>1 DEF TypeOK, Replies
<1>4. size \in Nat
  BY <1>1, DirAssumption DEF TypeOK
<1>5. QED
  BY <1>2, <1>3, <1>4 DEF IInv, LookupOK

\* A directory that stands behind an entry is as it is declared.
LEMMA StandsType ==
    ASSUME NEW l, IsLayout(l), NEW d, NEW g, Stands(l, d, g)
    PROVE  d \in Dirs /\ d.offset <= d.total /\ d.total = Total(l)
<1>1. Len(l.names) \in Nat /\ g \in 0 .. Len(l.names)
  BY LayoutType DEF Stands
<1>2. Len(l.names) \in 0 .. Len(l.names) /\ g <= Len(l.names)
  BY <1>1
<1>3. Ends(l)[g] <= Ends(l)[Len(l.names)]
  BY <1>1, <1>2, EndsSame
<1>4. QED
  BY <1>3 DEF Stands, Total

\* What is to be shown of a step of readdir.
LEMMA ReadingKept ==
    ASSUME IInv, layout' = layout, off' = off, target' = target, ~ found',
           pc' \in Reading, failed' \in BOOLEAN,
           size' \in 0 .. MaxRoom, dirOffset' \in Nat, out' \in Seq(Replies),
           \E g \in 0 .. Len(layout.names) : Stands(layout, dir', g),
           \E from \in 0 .. Len(layout.names) + 2 :
               /\ off = Cookies(layout)[from]
               /\ ReaddirOK(layout, pc', from, size', dirOffset', dir', out'),
           found' \in BOOLEAN
    PROVE  IInv'
<1>1. IsLayout(layout) /\ layout' \in Layouts
  BY Facts DEF IInv
<1>2. dir' \in Dirs /\ dir'.offset <= dir'.total /\ dir'.total = Total(layout)
  BY <1>1, StandsType
<1>3. TypeOK'
  BY <1>2 DEF IInv, TypeOK, Reading, Replies, Dirs
<1>4. LookupOK(layout', pc', target', dir', found')
  BY DEF LookupOK, Reading
<1>5. pc' \notin {"idle", "inval", "eio"}
  BY DEF Reading
<1>6. QED
  BY <1>1, <1>3, <1>4, <1>5 DEF IInv

LEMMA ReaddirKeeps == ASSUME IInv, Readdir PROVE IInv'
<1>1. /\ IsLayout(layout) /\ out = <<>> /\ ~ found
      /\ \E g \in 0 .. Len(layout.names) : Stands(layout, dir, g)
  BY Facts DEF IInv, Readdir
<1>2. PICK from \in 0 .. Len(layout.names) + 2 : off' = Cookies(layout)[from] /\ off' \in Nat
  <2>1. DOMAIN Cookies(layout) = 0 .. Len(layout.names) + 2
    BY <1>1, CookiesAre
  <2>2. PICK k \in 0 .. Len(layout.names) + 2 : off' = Cookies(layout)[k]
    BY <2>1 DEF Readdir, Range
  <2>3. QED
    BY <1>1, <2>2, CookiesAre
<1>3. size' \in Nat \ {0} /\ size' \in 0 .. MaxRoom /\ pc' \in {"dots", "hldots"}
  BY DirAssumption DEF Readdir
<1>4. ReaddirOK(layout, pc', from, size', Cookies(layout)[from], dir, <<>>)
  BY <1>1, <1>3, ReaddirStart
<1>5. /\ layout' = layout /\ dir' = dir /\ out' = out /\ target' = target
      /\ found' = found /\ failed' = failed /\ dirOffset' = off'
  BY DEF Readdir
<1>6. ReaddirOK(layout, pc', from, size', dirOffset', dir', out')
  BY <1>1, <1>2, <1>4, <1>5
<1>7. TypeOK'
  <2>1. off' \in Range(Cookies(layout))
    BY DEF Readdir
  <2>2. pc' \in {"idle", "dots", "hldots", "open", "ff", "list", "scan", "reply", "inval", "eio", "answer", "lost"}
    BY <1>3
  <2>3. QED
    BY <1>2, <1>3, <1>5, <2>1, <2>2 DEF IInv, TypeOK, Dirs
<1>8. LookupOK(layout', pc', target', dir', found')
  BY <1>1, <1>3, <1>5 DEF LookupOK
<1>9. pc' \notin {"idle", "inval", "eio"}
  BY <1>3
<1>10. layout' \in Layouts
  BY <1>5 DEF IInv
<1>11. QED
  BY <1>1, <1>2, <1>5, <1>6, <1>7, <1>8, <1>9, <1>10 DEF IInv

\* A dot, in either front end.
LEMMA AddDotKeeps == ASSUME IInv, AddDot \/ HlAddDot PROVE IInv'
<1>1. /\ IsLayout(layout) /\ out \in Seq(Replies) /\ size \in Nat /\ dirOffset \in Nat
      /\ \E g \in 0 .. Len(layout.names) : Stands(layout, dir, g)
  BY Facts
<1>2. /\ pc \in {"dots", "hldots"} /\ dirOffset < 2 /\ dirOffset' = dirOffset + 1
      /\ layout' = layout /\ off' = off /\ target' = target /\ dir' = dir
      /\ found' = found /\ failed' = failed
  BY DEF AddDot, HlAddDot
<1>3. PICK from \in 0 .. Len(layout.names) + 2 :
        /\ off = Cookies(layout)[from]
        /\ ReaddirOK(layout, pc, from, size, dirOffset, dir, out)
  BY <1>2, Facts DEF Reading
<1>4. ~ found /\ found \in BOOLEAN /\ failed \in BOOLEAN /\ size \in 0 .. MaxRoom /\ MaxRoom \in Nat
  BY <1>2, Facts, DirAssumption DEF IInv, TypeOK
<1>5. PICK name : name = Dots[dirOffset + 1]
  OBVIOUS
<1>6. PICK next : next = Append(out, [name |-> name, cookie |-> dirOffset + 1])
  OBVIOUS
<1>7. /\ DirentSize(name) = 1
      /\ ~ (1 > size) => /\ next \in Seq(Replies) /\ size - 1 \in 0 .. size
                         /\ ReaddirOK(layout, pc, from, size - 1, dirOffset + 1, dir, next)
      /\ 1 > size => /\ ReaddirOK(layout, "open", from, size, dirOffset + 1, dir, out)
                     /\ ReaddirOK(layout, "reply", from, size, dirOffset + 1, dir, out)
  BY <1>1, <1>2, <1>3, <1>5, <1>6, DotStep
<1>8. CASE 1 > size
  <2>1. pc' \in {"open", "reply"} /\ size' = size /\ out' = out
    BY <1>5, <1>7, <1>8 DEF AddDot, HlAddDot
  <2>2. ReaddirOK(layout, pc', from, size', dirOffset', dir', out')
    BY <1>2, <1>7, <1>8, <2>1
  <2>3. dirOffset' \in Nat /\ pc' \in Reading
    BY <1>1, <1>2, <2>1 DEF Reading
  <2>4. QED
    BY <1>1, <1>2, <1>3, <1>4, <2>1, <2>2, <2>3, ReadingKept
<1>9. CASE ~ (1 > size)
  <2>1. pc' = pc /\ size' = size - 1 /\ out' = next
    BY <1>5, <1>6, <1>7, <1>9 DEF AddDot, HlAddDot, Put
  <2>2. ReaddirOK(layout, pc', from, size', dirOffset', dir', out') /\ out' \in Seq(Replies)
    BY <1>2, <1>7, <1>9, <2>1
  <2>3. dirOffset' \in Nat /\ pc' \in Reading /\ size' \in 0 .. MaxRoom
    BY <1>1, <1>2, <1>4, <1>7, <1>9, <2>1 DEF Reading
  <2>4. QED
    BY <1>1, <1>2, <1>3, <1>4, <2>2, <2>3, ReadingKept
<1>10. QED
  BY <1>8, <1>9

LEMMA OpenDirKeeps == ASSUME IInv, OpenDir PROVE IInv'
<1>1. IsLayout(layout) /\ out \in Seq(Replies) /\ size \in Nat /\ dirOffset \in Nat
  BY Facts
<1>2. /\ pc = "open" \/ (pc \in {"dots", "hldots"} /\ dirOffset >= 2)
      /\ layout' = layout /\ off' = off /\ target' = target /\ size' = size /\ out' = out
      /\ found' = found /\ failed' = failed /\ dirOffset' = dirOffset - 2
  BY DEF OpenDir
<1>3. PICK from \in 0 .. Len(layout.names) + 2 :
        /\ off = Cookies(layout)[from]
        /\ ReaddirOK(layout, pc, from, size, dirOffset, dir, out)
  BY <1>2, Facts DEF Reading
<1>4. ~ found /\ found \in BOOLEAN /\ failed \in BOOLEAN /\ size \in 0 .. MaxRoom
  BY <1>2, Facts DEF IInv, TypeOK
<1>5. PICK f : f = FfHeader(layout, DirOpen(layout), OffsetStops(layout, dirOffset - 2))
  OBVIOUS
<1>6. /\ dirOffset - 2 \in Nat
      /\ dirOffset - 2 = 0 => ReaddirOK(layout, "list", from, size, dirOffset - 2, DirOpen(layout), out)
      /\ dirOffset - 2 # 0 => ReaddirOK(layout, "ff", from, size, dirOffset - 2, f, out)
  BY <1>1, <1>2, <1>3, <1>5, OpenStep
<1>7. CASE dirOffset - 2 = 0
  <2>1. pc' = "list" /\ dir' = DirOpen(layout)
    BY <1>7 DEF OpenDir
  <2>2. ReaddirOK(layout, pc', from, size', dirOffset', dir', out')
    BY <1>2, <1>6, <1>7, <2>1
  <2>3. 0 \in 0 .. Len(layout.names) /\ Stands(layout, dir', 0)
    BY <1>1, <2>1, OpenStands DEF Stands
  <2>4. pc' \in Reading
    BY <2>1 DEF Reading
  <2>5. QED
    BY <1>1, <1>2, <1>3, <1>4, <1>6, <2>2, <2>3, <2>4, ReadingKept
<1>8. CASE dirOffset - 2 # 0
  <2>1. pc' = "ff" /\ dir' = f
    BY <1>5, <1>8 DEF OpenDir
  <2>2. ReaddirOK(layout, pc', from, size', dirOffset', dir', out')
    BY <1>2, <1>6, <1>8, <2>1
  <2>3. \E g \in 0 .. Len(layout.names) : Stands(layout, dir', g)
    BY <1>1, <1>5, <2>1, FfStands
  <2>4. pc' \in Reading
    BY <2>1 DEF Reading
  <2>5. QED
    BY <1>1, <1>2, <1>3, <1>4, <1>6, <2>2, <2>3, <2>4, ReadingKept
<1>9. QED
  BY <1>7, <1>8

LEMMA FfKeeps == ASSUME IInv, FfScan \/ FfDone PROVE IInv'
<1>1. IsLayout(layout) /\ out \in Seq(Replies) /\ size \in Nat /\ dirOffset \in Nat
  BY Facts
<1>2. /\ pc = "ff" /\ layout' = layout /\ off' = off /\ target' = target /\ size' = size
      /\ out' = out /\ found' = found /\ failed' = failed /\ dirOffset' = dirOffset
  BY DEF FfScan, FfDone
<1>3. PICK from \in 0 .. Len(layout.names) + 2 :
        /\ off = Cookies(layout)[from]
        /\ ReaddirOK(layout, "ff", from, size, dirOffset, dir, out)
  BY <1>2, Facts DEF Reading
<1>4. ~ found /\ found \in BOOLEAN /\ failed \in BOOLEAN /\ size \in 0 .. MaxRoom
  BY <1>2, Facts DEF IInv, TypeOK
<1>5. PICK g \in 0 .. Len(layout.names) : Stands(layout, dir, g)
  BY Facts
<1>6. CASE FfScan
  <2>1. dir.offset < dirOffset /\ pc' = "ff" /\ dir' = DirNext(layout, dir)
    BY <1>2, <1>6 DEF FfScan
  <2>2. g # Len(layout.names) /\ ReaddirOK(layout, "ff", from, size, dirOffset, dir', out)
    BY <1>1, <1>3, <1>5, <2>1, FfStep
  <2>3. Stands(layout, dir', g + 1) /\ g + 1 \in 0 .. Len(layout.names)
    BY <1>1, <1>5, <2>1, <2>2, NextStands DEF Stands
  <2>4. ReaddirOK(layout, pc', from, size', dirOffset', dir', out') /\ pc' \in Reading
    BY <1>2, <2>1, <2>2 DEF Reading
  <2>5. QED
    BY <1>1, <1>2, <1>3, <1>4, <2>3, <2>4, ReadingKept
<1>7. CASE FfDone
  <2>1. (dir.offset >= dirOffset \/ AtEnd(dir)) /\ dir' = dir
    BY <1>7 DEF FfDone
  <2>2. dir.offset = dirOffset /\ ReaddirOK(layout, "list", from, size, dirOffset, dir, out)
    BY <1>1, <1>3, <1>5, <2>1, FfStep
  <2>3. pc' = "list"
    BY <1>7, <2>2 DEF FfDone
  <2>4. ReaddirOK(layout, pc', from, size', dirOffset', dir', out') /\ pc' \in Reading
    BY <1>2, <2>1, <2>2, <2>3 DEF Reading
  <2>5. QED
    BY <1>1, <1>2, <1>3, <1>4, <1>5, <2>1, <2>4, ReadingKept
<1>8. QED
  BY <1>6, <1>7

LEMMA ListKeeps == ASSUME IInv, ListEntry \/ ListEnd PROVE IInv'
<1>1. IsLayout(layout) /\ out \in Seq(Replies) /\ size \in Nat /\ dirOffset \in Nat
  BY Facts
<1>2. /\ pc = "list" /\ layout' = layout /\ off' = off /\ target' = target
      /\ found' = found /\ failed' = failed /\ dirOffset' = dirOffset
  BY DEF ListEntry, ListEnd
<1>3. PICK from \in 0 .. Len(layout.names) + 2 :
        /\ off = Cookies(layout)[from]
        /\ ReaddirOK(layout, "list", from, size, dirOffset, dir, out)
  BY <1>2, Facts DEF Reading
<1>4. ~ found /\ found \in BOOLEAN /\ failed \in BOOLEAN /\ size \in 0 .. MaxRoom /\ MaxRoom \in Nat
  BY <1>2, Facts, DirAssumption DEF IInv, TypeOK
<1>5. PICK g \in 0 .. Len(layout.names) : Stands(layout, dir, g)
  BY Facts
<1>6. CASE ListEntry
  <2>1. g # Len(layout.names)
    BY <1>1, <1>5, <1>6, AtEndIs DEF ListEntry
  <2>2. PICK f : f = DirNext(layout, dir)
    OBVIOUS
  <2>3. PICK next : next = Append(out, [name |-> f.name, cookie |-> f.offset + 2])
    OBVIOUS
  <2>4. /\ DirentSize(f.name) > size => ReaddirOK(layout, "reply", from, size, dirOffset, f, out)
        /\ ~ (DirentSize(f.name) > size) =>
              /\ next \in Seq(Replies) /\ size - DirentSize(f.name) \in 0 .. size
              /\ ReaddirOK(layout, "list", from, size - DirentSize(f.name), dirOffset, f, next)
    BY <1>1, <1>3, <1>5, <2>1, <2>2, <2>3, ListStep
  <2>5. dir' = f
    BY <1>6, <2>2 DEF ListEntry
  <2>6. \E h \in 0 .. Len(layout.names) : Stands(layout, dir', h)
    <3>1. Stands(layout, dir', g + 1) /\ g + 1 \in 0 .. Len(layout.names)
      BY <1>1, <1>5, <2>1, <2>2, <2>5, NextStands DEF Stands
    <3>2. QED
      BY <3>1
  <2>7. CASE DirentSize(f.name) > size
    <3>1. pc' = "reply" /\ size' = size /\ out' = out
      BY <1>6, <2>2, <2>7 DEF ListEntry
    <3>2. ReaddirOK(layout, pc', from, size', dirOffset', dir', out') /\ pc' \in Reading
      BY <1>2, <2>4, <2>5, <2>7, <3>1 DEF Reading
    <3>3. QED
      BY <1>1, <1>2, <1>3, <1>4, <2>6, <3>1, <3>2, ReadingKept
  <2>8. CASE ~ (DirentSize(f.name) > size)
    <3>1. pc' = "list" /\ size' = size - DirentSize(f.name) /\ out' = next
      BY <1>2, <1>6, <2>2, <2>3, <2>8 DEF ListEntry, Put
    <3>2. ReaddirOK(layout, pc', from, size', dirOffset', dir', out') /\ pc' \in Reading
      BY <1>2, <2>4, <2>5, <2>8, <3>1 DEF Reading
    <3>3. size' \in 0 .. MaxRoom /\ out' \in Seq(Replies)
      BY <1>4, <2>4, <2>8, <3>1
    <3>4. QED
      BY <1>1, <1>2, <1>3, <1>4, <2>6, <3>2, <3>3, ReadingKept
  <2>9. QED
    BY <2>7, <2>8
<1>7. CASE ListEnd
  <2>1. g = Len(layout.names)
    BY <1>1, <1>5, <1>7, AtEndIs DEF ListEnd
  <2>2. pc' = "reply" /\ dir' = dir /\ size' = size /\ out' = out
    BY <1>7 DEF ListEnd
  <2>3. ReaddirOK(layout, "reply", from, size, dirOffset, dir, out)
    BY <1>1, <1>3, <1>5, <2>1, EndStep
  <2>4. ReaddirOK(layout, pc', from, size', dirOffset', dir', out') /\ pc' \in Reading
    BY <1>2, <2>2, <2>3 DEF Reading
  <2>5. QED
    BY <1>1, <1>2, <1>3, <1>4, <1>5, <2>2, <2>4, ReadingKept
<1>8. QED
  BY <1>6, <1>7

LEMMA ReadFailsKeeps == ASSUME IInv, ReadFails PROVE IInv'
<1>1. /\ pc \in {"list", "ff", "scan"} /\ pc' \in {"eio", "inval", "lost"} /\ failed'
      /\ layout' = layout /\ off' = off /\ target' = target /\ size' = size /\ out' = out
      /\ found' = found /\ dirOffset' = dirOffset /\ dir' = dir /\ failed' \in BOOLEAN
  BY DEF ReadFails
<1>2. TypeOK'
  BY <1>1 DEF IInv, TypeOK, Dirs
<1>3. ~ found
  BY <1>1, Facts
<1>4. LookupOK(layout', pc', target', dir', found') /\ pc' \notin Reading /\ pc' # "idle"
  BY <1>1, <1>3 DEF LookupOK, Reading
<1>5. QED
  BY <1>1, <1>2, <1>4 DEF IInv

\* What is to be shown of a step of a lookup.
LEMMA ScanKept ==
    ASSUME IInv, layout' = layout, off' = off, size' = size, dirOffset' = dirOffset, out' = out,
           failed' = failed, found' \in BOOLEAN, target' \in Names, pc' \in {"scan", "answer"},
           \E g \in 0 .. Len(layout.names) : Stands(layout, dir', g),
           LookupOK(layout, pc', target', dir', found')
    PROVE  IInv'
<1>1. IsLayout(layout) /\ layout' \in Layouts
  BY Facts DEF IInv
<1>2. dir' \in Dirs /\ dir'.offset <= dir'.total /\ dir'.total = Total(layout)
  BY <1>1, StandsType
<1>3. TypeOK'
  BY <1>2 DEF IInv, TypeOK, Dirs
<1>4. pc' \notin {"idle", "inval", "eio"} /\ pc' \notin Reading
  BY DEF Reading
<1>5. QED
  BY <1>1, <1>3, <1>4 DEF IInv

LEMMA LookupKeeps == ASSUME IInv, Lookup \/ LookupEntry \/ LookupEnd PROVE IInv'
<1>1. IsLayout(layout)
  BY Facts
<1>2. /\ layout' = layout /\ off' = off /\ size' = size /\ dirOffset' = dirOffset /\ out' = out
      /\ failed' = failed
  BY DEF Lookup, LookupEntry, LookupEnd
<1>3. PICK g \in 0 .. Len(layout.names) : Stands(layout, dir, g)
  BY Facts
<1>4. CASE Lookup
  <2>1. PICK n \in Names :
          target' = n /\ dir' = FfHeader(layout, DirOpen(layout), NameStops(layout, n))
    BY <1>4 DEF Lookup
  <2>2. ~ found /\ found' = found /\ found \in BOOLEAN /\ pc' = "scan"
    BY <1>4, Facts DEF Lookup, IInv, TypeOK
  <2>3. /\ \E h \in 0 .. Len(layout.names) : Stands(layout, dir', h)
        /\ LookupOK(layout, "scan", n, dir', FALSE)
    BY <1>1, <2>1, LookupStart
  <2>4. LookupOK(layout, pc', target', dir', found')
    BY <2>1, <2>2, <2>3 DEF LookupOK
  <2>5. QED
    BY <1>2, <2>1, <2>2, <2>3, <2>4, ScanKept
<1>5. ASSUME pc = "scan" PROVE LookupOK(layout, "scan", target, dir, found) /\ target \in Names
  BY <1>5 DEF IInv, LookupOK
<1>6. CASE LookupEntry
  <2>1. pc = "scan" /\ g # Len(layout.names)
    BY <1>1, <1>3, <1>6, AtEndIs DEF LookupEntry
  <2>2. PICK f : f = DirNext(layout, dir)
    OBVIOUS
  <2>3. PICK order : order = Strncmp(f.name, target, Len(target))
    OBVIOUS
  <2>4. /\ dir' = f /\ target' = target
        /\ found' = (order = 0 /\ Len(f.name) = Len(target))
        /\ pc' = IF order >= 0 THEN "answer" ELSE "scan"
    BY <1>6, <2>2, <2>3 DEF LookupEntry
  <2>5. LookupOK(layout, IF order >= 0 THEN "answer" ELSE "scan", target, f,
                 order = 0 /\ Len(f.name) = Len(target))
    BY <1>1, <1>3, <1>5, <2>1, <2>2, <2>3, LookupStep
  <2>6. LookupOK(layout, pc', target', dir', found')
    BY <2>4, <2>5
  <2>7. \E h \in 0 .. Len(layout.names) : Stands(layout, dir', h)
    <3>1. Stands(layout, dir', g + 1) /\ g + 1 \in 0 .. Len(layout.names)
      BY <1>1, <1>3, <2>1, <2>2, <2>4, NextStands DEF Stands
    <3>2. QED
      BY <3>1
  <2>8. found' \in BOOLEAN /\ target' \in Names /\ pc' \in {"scan", "answer"}
    BY <1>5, <2>1, <2>4
  <2>9. QED
    BY <1>2, <2>6, <2>7, <2>8, ScanKept
<1>7. CASE LookupEnd
  <2>1. pc = "scan" /\ g = Len(layout.names)
    BY <1>1, <1>3, <1>7, AtEndIs DEF LookupEnd
  <2>2. dir' = dir /\ target' = target /\ found' = found /\ pc' = "answer" /\ found \in BOOLEAN
    BY <1>7 DEF LookupEnd, IInv, TypeOK
  <2>3. LookupOK(layout, "answer", target, dir, found)
    BY <1>1, <1>3, <1>5, <2>1, LookupOver
  <2>4. LookupOK(layout, pc', target', dir', found')
    BY <2>2, <2>3
  <2>5. QED
    BY <1>2, <1>3, <1>5, <2>1, <2>2, <2>4, ScanKept
<1>8. QED
  BY <1>4, <1>6, <1>7

\* Nothing is going on.
LEMMA Idle ==
    ASSUME NEW l \in Layouts
    PROVE  /\ IsLayout(l) /\ 0 \in Range(Cookies(l)) /\ 0 \in 0 .. MaxRoom
           /\ 0 \in 0 .. Len(l.names) /\ Stands(l, DirOpen(l), 0)
           /\ DirOpen(l) \in Dirs /\ DirOpen(l).offset <= DirOpen(l).total
           /\ DirOpen(l).total = Total(l)
           /\ LookupOK(l, "idle", <<>>, DirOpen(l), FALSE)
<1>1. IsLayout(l)
  BY DirAssumption
<1>2. Stands(l, DirOpen(l), 0) /\ 0 \in 0 .. Len(l.names)
  BY <1>1, OpenStands DEF Stands
<1>3. 0 \in Range(Cookies(l))
  <2>1. DOMAIN Cookies(l) = 0 .. Len(l.names) + 2 /\ Cookies(l)[0] = 0 /\ Len(l.names) \in Nat
    BY <1>1, CookiesAre, LayoutType
  <2>2. 0 \in DOMAIN Cookies(l)
    BY <2>1
  <2>3. QED
    BY <2>1, <2>2 DEF Range
<1>4. 0 \in 0 .. MaxRoom
  BY DirAssumption
<1>5. LookupOK(l, "idle", <<>>, DirOpen(l), FALSE)
  BY DEF LookupOK
<1>6. QED
  BY <1>1, <1>2, <1>3, <1>4, <1>5, StandsType

LEMMA DoneKeeps == ASSUME IInv, Done PROVE IInv'
<1>1. /\ pc' = "idle" /\ off' = 0 /\ size' = 0 /\ dirOffset' = 0 /\ target' = <<>>
      /\ dir' = DirOpen(layout) /\ out' = <<>> /\ found' = FALSE /\ failed' = FALSE
      /\ layout' = layout /\ layout \in Layouts
  BY DEF Done, IInv
<1>2. out' \in Seq(Replies)
  BY <1>1
<1>3. TypeOK'
  BY <1>1, <1>2, Idle DEF TypeOK, Replies, Dirs
<1>4. LookupOK(layout', pc', target', dir', found')
  BY <1>1, Idle
<1>5. \E g \in 0 .. Len(layout'.names) : Stands(layout', dir', g)
  BY <1>1, Idle
<1>6. QED
  BY <1>1, <1>3, <1>4, <1>5 DEF IInv, Reading

LEMMA InitIInv == Init => IInv
<1> SUFFICES ASSUME Init PROVE IInv
  OBVIOUS
<1>1. out \in Seq(Replies) /\ layout \in Layouts
  BY DEF Init
<1>2. TypeOK
  BY <1>1, Idle DEF Init, TypeOK, Replies
<1>3. LookupOK(layout, pc, target, dir, found)
  BY <1>1, Idle DEF Init
<1>4. \E g \in 0 .. Len(layout.names) : Stands(layout, dir, g)
  BY <1>1, Idle DEF Init
<1>5. QED
  BY <1>1, <1>2, <1>3, <1>4 DEF IInv, Init, Reading

-----------------------------------------------------------------------------
(***************************************************************************)
(* Theorems.                                                               *)
(***************************************************************************)
(* The directory always stands between two entries, a readdir has listed   *)
(* what follows its cookie, and a lookup has not passed the name.          *)
THEOREM Inductive == Spec => []IInv
<1>1. IInv /\ [Next]_vars => IInv'
  <2> SUFFICES ASSUME IInv, [Next]_vars PROVE IInv'
    OBVIOUS
  <2>1. CASE UNCHANGED vars
    <3>1. TypeOK'
      BY <2>1 DEF vars, IInv, TypeOK, Dirs
    <3>2. QED
      BY <2>1, <3>1 DEF vars, IInv
  <2>2. CASE Next
    BY <2>2, ReaddirKeeps, AddDotKeeps, OpenDirKeeps, FfKeeps, ListKeeps, ReadFailsKeeps,
       LookupKeeps, DoneKeeps DEF Next
  <2>3. QED
    BY <2>1, <2>2
<1>2. QED
  BY <1>1, InitIInv, PTL DEF Spec

(* A readdir from any cookie continues right behind the entry it came      *)
(* with, and its cookie is never refused, for any listing and index.       *)
THEOREM ResumesCorrect == Spec => []ReaddirResumes
<1>1. IInv => ReaddirResumes
  <2> SUFFICES ASSUME IInv PROVE ReaddirResumes
    OBVIOUS
  <2>1. PICK l : l = layout
    OBVIOUS
  <2>2. IsLayout(l)
    BY <2>1, Facts
  <2>3. PICK n \in Nat : n = Len(l.names)
    BY <2>2, LayoutType
  <2>4. ASSUME pc = "reply"
        PROVE  LET from == Passed(l, off)
               IN /\ \A k \in 1 .. Len(out) :
                       /\ out[k].name = All(l)[from + k]
                       /\ out[k].cookie = Cookies(l)[from + k]
                  /\ out = <<>> => from = Len(All(l)) \/ DirentSize(All(l)[from + 1]) > size
    <3>1. PICK from \in 0 .. n + 2 :
            off = Cookies(l)[from] /\ ReaddirOK(l, "reply", from, size, dirOffset, dir, out)
      BY <2>1, <2>3, <2>4, Facts DEF Reading
    <3>2. Passed(l, off) = from
      BY <2>2, <2>3, <3>1, PassedIs
    <3>3. Len(All(l)) = n + 2
      <4>1. DOMAIN All(l) = 1 .. n + 2
        BY <2>2, <2>3, AllAre
      <4>2. All(l) \in Seq(Range(All(l)))
        BY <2>3, <4>1 DEF Range, All
      <4>3. QED
        BY <4>1, <4>2
    <3>4. \A k \in 1 .. Len(out) :
             out[k].name = All(l)[from + k] /\ out[k].cookie = Cookies(l)[from + k]
      <4>1. Listed(l, from, out)
        BY <3>1 DEF ReaddirOK
      <4>2. SUFFICES ASSUME NEW k \in 1 .. Len(out)
                     PROVE  out[k].name = All(l)[from + k] /\ out[k].cookie = Cookies(l)[from + k]
        OBVIOUS
      <4>3. out[k] = [name |-> All(l)[from + k], cookie |-> Cookies(l)[from + k]]
        BY <4>1 DEF Listed
      <4>4. PICK a : a = All(l)[from + k]
        OBVIOUS
      <4>5. PICK b : b = Cookies(l)[from + k]
        OBVIOUS
      <4>6. out[k] = [name |-> a, cookie |-> b]
        BY <4>3, <4>4, <4>5
      <4>7. out[k].name = a /\ out[k].cookie = b
        BY <4>6
      <4>8. QED
        BY <4>4, <4>5, <4>7
    <3>5. out = <<>> => from = n + 2 \/ DirentSize(All(l)[from + 1]) > size
      BY <2>3, <3>1 DEF ReaddirOK
    <3>6. QED
      BY <3>2, <3>3, <3>4, <3>5
  <2>5. pc \in {"inval", "eio"} => failed
    BY DEF IInv
  <2>6. QED
    BY <2>1, <2>4, <2>5 DEF ReaddirResumes
<1>2. QED
  BY <1>1, Inductive, PTL

(* sqfs_dir_lookup finds a name if and only if the directory has it, for   *)
(* any listing, whichever runs the index has.                              *)
THEOREM LookupsCorrect == Spec => []LookupCorrect
<1>1. IInv => LookupCorrect
  <2> SUFFICES ASSUME IInv, pc = "answer"
               PROVE  (found <=> target \in Range(layout.names)) /\ (found => dir.name = target)
    BY DEF LookupCorrect
  <2>1. /\ found <=> \E q \in 1 .. Len(layout.names) : layout.names[q] = target
        /\ found => dir.name = target
    BY DEF IInv, LookupOK
  <2>2. DOMAIN layout.names = 1 .. Len(layout.names)
    BY Facts, LayoutType
  <2>3. QED
    BY <2>1, <2>2 DEF Range
<1>2. QED
  BY <1>1, Inductive, PTL

(* The cursor of a directory is where its offset says, also after it went  *)
(* by the index; and everything has its type.                              *)
THEOREM CursorCorrect == Spec => []CursorConsistent
<1>1. IInv => CursorConsistent
  BY DEF IInv, Stands, CursorConsistent
<1>2. QED
  BY <1>1, Inductive, PTL
=============================================================================
