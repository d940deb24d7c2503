--------------------------- MODULE FileReadProofs ---------------------------
(***************************************************************************)
(* Proofs about reading a range of a file: a read that succeeds delivers   *)
(* the file's bytes, and the block list and the block index it goes        *)
(* through are right, for every layout of a file, for all sizes of blocks, *)
(* MD-blocks and list entries, and for any number of threads and slots.    *)
(***************************************************************************)
EXTENDS FileRead, FiniteSetTheorems, SequenceTheorems, TLAPS

-----------------------------------------------------------------------------
(***************************************************************************)
(* Division.                                                               *)
(***************************************************************************)
LEMMA DivMod ==
    ASSUME NEW a \in Nat, NEW b \in Nat \ {0}
    PROVE  /\ a \div b \in Nat /\ a % b \in 0 .. b - 1
           /\ a = b * (a \div b) + (a % b)
  OBVIOUS

LEMMA Split ==
    ASSUME NEW a \in Nat, NEW b \in Nat \ {0}
    PROVE  \E x \in Nat, r \in 0 .. b - 1 : x = a \div b /\ r = a % b /\ a = b * x + r
  BY DivMod

LEMMA Product ==
    ASSUME NEW a \in Nat, NEW b \in Nat
    PROVE  a * b \in Nat /\ a * b = b * a
  OBVIOUS

LEMMA Grows ==
    ASSUME NEW b \in Nat \ {0}, NEW x \in Int, NEW y \in Int, x < y
    PROVE  b * x + b <= b * y /\ b * x \in Int /\ b * y \in Int
  OBVIOUS

\* Quotient and remainder are determined.
LEMMA DivUnique ==
    ASSUME NEW b \in Nat \ {0}, NEW x \in Int, NEW y \in Int,
           NEW r \in 0 .. b - 1, NEW s \in 0 .. b - 1, b * x + r = b * y + s
    PROVE  x = y /\ r = s
<1>1. ~ (x < y)
  BY Grows
<1>2. ~ (y < x)
  BY Grows
<1>3. QED
  BY <1>1, <1>2

LEMMA DivOf ==
    ASSUME NEW b \in Nat \ {0}, NEW x \in Nat, NEW r \in 0 .. b - 1
    PROVE  (b * x + r) \div b = x /\ (b * x + r) % b = r
<1>1. b * x \in Nat
  OBVIOUS
<1>2. PICK a \in Nat : a = b * x + r
  BY <1>1
<1>3. PICK y \in Int, s \in 0 .. b - 1 : y = a \div b /\ s = a % b /\ b * y + s = b * x + r
  BY <1>2, DivMod
<1>4. y = x /\ s = r
  BY <1>3, DivUnique
<1>5. QED
  BY <1>2, <1>3, <1>4

\* A quotient as a bound.
LEMMA DivBounds ==
    ASSUME NEW a \in Nat, NEW b \in Nat \ {0}, NEW x \in Nat
    PROVE  /\ b * x <= a <=> x <= a \div b
           /\ a < b * x <=> a \div b < x
<1>1. PICK y \in Nat, r \in 0 .. b - 1 : y = a \div b /\ a = b * y + r
  BY DivMod
<1>2. x <= y => b * x <= b * y
  <2>1. CASE x < y
    BY <2>1, Grows
  <2>2. QED
    BY <2>1
<1>3. y < x => b * y + b <= b * x
  BY Grows
<1>4. b * x \in Nat /\ b * y \in Nat
  OBVIOUS
<1>5. QED
  BY <1>1, <1>2, <1>3, <1>4

-----------------------------------------------------------------------------
(***************************************************************************)
(* The geometry of a block list.  MetaSize is PerMd entries; the list of a *)
(* layout starts in the place of entry First(l) of its MD-block.           *)
(***************************************************************************)
Sane(l) ==
    /\ l \in Layouts
    /\ l.off < MetaSize
    /\ l.frag => l.size % BlockSize # 0

PerMd    == MetaSize \div EntrySize
First(l) == l.off \div EntrySize

LEMMA SaneType ==
    ASSUME NEW l, Sane(l)
    PROVE  l.off \in Nat /\ l.size \in Nat /\ l.frag \in BOOLEAN /\ l.holes \in SUBSET Nat
  BY DEF Sane, Layouts

LEMMA Sizes == EntrySize \in Nat \ {0} /\ BlockSize \in Nat \ {0} /\ MetaSize \in Nat \ {0}
  BY ReadAssumption

LEMMA Units ==
    /\ EntrySize \in Nat \ {0} /\ MetaSize \in Nat \ {0}
    /\ PerMd \in Nat \ {0} /\ MetaSize = EntrySize * PerMd
<1>1. EntrySize \in Nat \ {0} /\ MetaSize \in Nat \ {0}
  BY Sizes
<1>2. PerMd \in Nat /\ MetaSize = EntrySize * PerMd + 0
  BY <1>1, DivMod, ReadAssumption DEF PerMd
<1>3. PerMd # 0
  BY <1>1, <1>2
<1>4. QED
  BY <1>1, <1>2, <1>3

LEMMA FirstType ==
    ASSUME NEW l, Sane(l)
    PROVE  /\ First(l) \in Nat /\ First(l) < PerMd
           /\ l.off % EntrySize \in 0 .. EntrySize - 1
           /\ l.off = EntrySize * First(l) + (l.off % EntrySize)
<1>1. /\ First(l) \in Nat /\ l.off % EntrySize \in 0 .. EntrySize - 1
      /\ l.off = EntrySize * First(l) + (l.off % EntrySize)
  BY Units, SaneType, DivMod DEF First
<1>2. First(l) < PerMd
  BY Units, SaneType, DivBounds DEF First, Sane
<1>3. QED
  BY <1>1, <1>2


\* Where entry n of a list is.
LEMMA EntryAt ==
    ASSUME NEW l, Sane(l), NEW n \in Nat
    PROVE  /\ l.off + n * EntrySize \in Nat
           /\ (l.off + n * EntrySize) \div MetaSize = (First(l) + n) \div PerMd
           /\ (l.off + n * EntrySize) % MetaSize
                = EntrySize * ((First(l) + n) % PerMd) + (l.off % EntrySize)
<1>1. PICK q \in Nat, r \in 0 .. EntrySize - 1 :
         q = First(l) /\ r = l.off % EntrySize /\ l.off = EntrySize * q + r
  BY FirstType
<1>2. PICK x \in Nat, y \in 0 .. PerMd - 1 :
         x = (q + n) \div PerMd /\ y = (q + n) % PerMd /\ q + n = PerMd * x + y
  <2>1. q + n \in Nat /\ PerMd \in Nat \ {0}
    BY Units
  <2>2. QED
    BY <2>1, Split
<1>3. EntrySize * y + r \in 0 .. MetaSize - 1
  <2>1. y < PerMd /\ y \in Int /\ PerMd \in Int
    BY Units, <1>2
  <2>2. EntrySize * y + EntrySize <= EntrySize * PerMd
    BY Units, <2>1, Grows
  <2>3. EntrySize * y \in Nat
    BY Units
  <2>4. QED
    BY Units, <2>2, <2>3
<1>4. l.off + n * EntrySize = MetaSize * x + (EntrySize * y + r)
  <2>1. EntrySize \in Nat /\ PerMd \in Nat /\ y \in Nat /\ r \in Nat
    BY Units
  <2>2. (EntrySize * q + r) + n * EntrySize = EntrySize * (q + n) + r
    BY <2>1
  <2>3. EntrySize * (q + n) = EntrySize * (PerMd * x + y)
    BY <1>2
  <2>4. EntrySize * (PerMd * x + y) = (EntrySize * PerMd) * x + EntrySize * y
    BY <2>1
  <2>5. EntrySize * (q + n) + r = (MetaSize * x + EntrySize * y) + r
    BY Units, <2>3, <2>4
  <2>6. MetaSize * x \in Nat /\ EntrySize * y \in Nat
    BY Sizes, <2>1, Product
  <2>7. QED
    BY <1>1, <2>1, <2>2, <2>5, <2>6
<1>5. PICK z \in 0 .. MetaSize - 1 : z = EntrySize * y + r
  BY <1>3
<1>6. (MetaSize * x + z) \div MetaSize = x /\ (MetaSize * x + z) % MetaSize = z
  BY Sizes, DivOf
<1>7. MetaSize * x + z \in Nat
  BY Sizes, Product
<1>8. QED
  BY <1>1, <1>2, <1>4, <1>5, <1>6, <1>7

LEMMA NextArith ==
    ASSUME NEW e \in Nat, NEW m \in Nat, NEW n \in Nat, NEW o \in Nat, NEW x \in Nat,
           NEW y \in Nat, NEW v \in Nat, NEW w \in Nat,
           o + n * e = m * x + y, y + e = m * v + w
    PROVE  o + (n + 1) * e = m * (x + v) + w
<1>1. (n + 1) * e = n * e + e /\ m * (x + v) = m * x + m * v
  OBVIOUS
<1>2. n * e \in Nat /\ m * x \in Nat /\ m * v \in Nat
  OBVIOUS
<1>3. QED
  BY <1>1, <1>2

\* sqfs_md_read of an entry leaves the cursor at the next one.
LEMMA NextEntry ==
    ASSUME NEW l, Sane(l), NEW n \in Nat, NEW cur,
           cur = [block  |-> (l.off + n * EntrySize) \div MetaSize,
                  offset |-> (l.off + n * EntrySize) % MetaSize]
    PROVE  MdAdvance(cur, EntrySize)
             = [block  |-> (l.off + (n + 1) * EntrySize) \div MetaSize,
                offset |-> (l.off + (n + 1) * EntrySize) % MetaSize]
<1>1. PICK p \in Nat : p = l.off + n * EntrySize
  BY EntryAt
<1>2. PICK x \in Nat, y \in 0 .. MetaSize - 1 :
         x = p \div MetaSize /\ y = p % MetaSize /\ p = MetaSize * x + y
  BY Sizes, Split
<1>3. y + EntrySize \in Nat
  BY Sizes
<1>4. PICK v \in Nat, w \in 0 .. MetaSize - 1 :
         /\ v = (y + EntrySize) \div MetaSize /\ w = (y + EntrySize) % MetaSize
         /\ y + EntrySize = MetaSize * v + w
  BY Sizes, <1>3, Split
<1>5. l.off + (n + 1) * EntrySize = MetaSize * (x + v) + w
  <2>1. /\ EntrySize \in Nat /\ MetaSize \in Nat /\ l.off \in Nat /\ y \in Nat /\ w \in Nat
        /\ l.off + n * EntrySize = MetaSize * x + y
    BY Sizes, SaneType, <1>1, <1>2
  <2>2. QED
    BY <1>4, <2>1, NextArith
<1>6. (MetaSize * (x + v) + w) \div MetaSize = x + v /\ (MetaSize * (x + v) + w) % MetaSize = w
  <2>1. x + v \in Nat
    OBVIOUS
  <2>2. QED
    BY Sizes, <2>1, DivOf
<1>7. cur.block = x /\ cur.offset = y
  BY <1>1, <1>2
<1>8. QED
  BY <1>4, <1>5, <1>6, <1>7 DEF MdAdvance

-----------------------------------------------------------------------------
(***************************************************************************)
(* The number of blocks.                                                   *)
(***************************************************************************)
LEMMA CountType ==
    ASSUME NEW l, Sane(l)
    PROVE  /\ BlocklistCount(l) \in Nat
           /\ l.frag => /\ BlocklistCount(l) * BlockSize < l.size
                        /\ l.size < BlocklistCount(l) * BlockSize + BlockSize
                        /\ l.size - (l.size % BlockSize) = BlocklistCount(l) * BlockSize
           /\ ~ l.frag => /\ l.size <= BlocklistCount(l) * BlockSize
                          /\ BlocklistCount(l) * BlockSize < l.size + BlockSize
<1>1. CASE l.frag
  <2>1. PICK c \in Nat, r \in 0 .. BlockSize - 1 :
           /\ c = l.size \div BlockSize /\ r = l.size % BlockSize
           /\ l.size = BlockSize * c + r
    BY Sizes, SaneType, Split
  <2>2. BlocklistCount(l) = c /\ r # 0
    BY <1>1, <2>1 DEF BlocklistCount, Sane
  <2>3. PICK p \in Nat : p = c * BlockSize /\ p = BlockSize * c
    BY Sizes, Product
  <2>4. p < l.size /\ l.size < p + BlockSize /\ l.size - r = p
    <3>1. l.size = p + r
      BY <2>1, <2>3
    <3>2. QED
      BY Sizes, <2>2, <3>1
  <2>5. QED
    BY <1>1, <2>1, <2>2, <2>3, <2>4
<1>2. CASE ~ l.frag
  <2>1. PICK a \in Nat : a = l.size + BlockSize - 1
    BY Sizes, SaneType
  <2>2. PICK c \in Nat, r \in 0 .. BlockSize - 1 :
           c = a \div BlockSize /\ a = BlockSize * c + r
    BY Sizes, Split
  <2>3. BlocklistCount(l) = c
    BY <1>2, <2>1, <2>2 DEF BlocklistCount
  <2>4. PICK p \in Nat : p = c * BlockSize /\ p = BlockSize * c
    BY Sizes, Product
  <2>5. l.size <= p /\ p < l.size + BlockSize
    BY Sizes, SaneType, <2>1, <2>2, <2>4
  <2>6. QED
    BY <1>2, <2>3, <2>4, <2>5
<1>3. QED
  BY <1>1, <1>2

\* A position in the file is in one of its blocks, or in the fragment.
LEMMA BlockOf ==
    ASSUME NEW l, Sane(l), NEW p \in Nat, p < l.size
    PROVE  /\ p \div BlockSize \in Nat /\ p % BlockSize \in 0 .. BlockSize - 1
           /\ p = (p \div BlockSize) * BlockSize + (p % BlockSize)
           /\ p \div BlockSize <= BlocklistCount(l)
           /\ ~ l.frag => p \div BlockSize < BlocklistCount(l)
<1>1. PICK j \in Nat, o \in 0 .. BlockSize - 1 :
         j = p \div BlockSize /\ o = p % BlockSize /\ p = BlockSize * j + o
  BY Sizes, Split
<1>2. PICK c \in Nat : c = BlocklistCount(l)
  BY CountType
<1>3. PICK y \in Nat : y = c * BlockSize /\ y = BlockSize * c
  BY Sizes, Product
<1>4. p < y + BlockSize /\ (~ l.frag => p < y)
  BY Sizes, SaneType, CountType, <1>2, <1>3
<1>5. /\ c + 1 \in Nat /\ BlockSize * (c + 1) = y + BlockSize
  BY Sizes, <1>3
<1>6. p < BlockSize * (c + 1) <=> j < c + 1
  BY Sizes, <1>1, <1>5, DivBounds
<1>7. p < y <=> j < c
  BY Sizes, <1>1, <1>3, DivBounds
<1>8. j <= c /\ (~ l.frag => j < c)
  BY <1>4, <1>5, <1>6, <1>7
<1>9. BlockSize * j = j * BlockSize
  BY Sizes, Product
<1>10. QED
  BY <1>1, <1>2, <1>8, <1>9

-----------------------------------------------------------------------------
(***************************************************************************)
(* Where the data blocks are.                                              *)
(***************************************************************************)
LEMMA DataStartType ==
    ASSUME NEW l, NEW n \in Nat
    PROVE  DataStart(l, n) \in Nat /\ IsFiniteSet(0 .. n - 1 \ l.holes)
<1>1. IsFiniteSet(0 .. n - 1)
  BY FS_Interval
<1>2. IsFiniteSet(0 .. n - 1 \ l.holes)
  BY <1>1, FS_Subset
<1>3. QED
  BY <1>2, FS_CardinalityType DEF DataStart

LEMMA DataStartNext ==
    ASSUME NEW l, NEW n \in Nat
    PROVE  DataStart(l, n + 1) = DataStart(l, n) + StoredSize(l, n)
<1> DEFINE S == 0 .. n - 1 \ l.holes
           T == 0 .. (n + 1) - 1 \ l.holes
<1>1. IsFiniteSet(S) /\ Cardinality(S) \in Nat
  BY DataStartType, FS_CardinalityType
<1>2. CASE n \in l.holes
  <2>1. T = S
    BY <1>2
  <2>2. DataStart(l, n + 1) = Cardinality(S) /\ DataStart(l, n) = Cardinality(S)
    BY <2>1 DEF DataStart
  <2>3. QED
    BY <1>1, <1>2, <2>2 DEF StoredSize
<1>3. CASE n \notin l.holes
  <2>1. T = S \cup {n} /\ n \notin S
    BY <1>3
  <2>2. Cardinality(S \cup {n}) = Cardinality(S) + 1
    BY <1>1, <2>1, FS_AddElement
  <2>3. QED
    BY <1>3, <2>1, <2>2 DEF DataStart, StoredSize
<1>4. QED
  BY <1>2, <1>3

\* No two stored blocks are in one place.
LEMMA DataStartLess ==
    ASSUME NEW l, NEW j \in Nat, NEW n \in Nat, j < n, j \notin l.holes
    PROVE  DataStart(l, j) < DataStart(l, n)
<1>1. /\ DataStart(l, j + 1) = DataStart(l, j) + 1
      /\ DataStart(l, j) \in Nat /\ DataStart(l, n) \in Nat /\ DataStart(l, j + 1) \in Nat
  <2>1. j + 1 \in Nat /\ StoredSize(l, j) = 1
    BY DEF StoredSize
  <2>2. QED
    BY <2>1, DataStartNext, DataStartType
<1>2. DataStart(l, j + 1) <= DataStart(l, n)
  <2>1. 0 .. (j + 1) - 1 \ l.holes \in SUBSET (0 .. n - 1 \ l.holes)
    OBVIOUS
  <2>2. QED
    BY <2>1, DataStartType, FS_Subset DEF DataStart
<1>3. QED
  BY <1>1, <1>2

-----------------------------------------------------------------------------
(***************************************************************************)
(* The bytes of a file.                                                    *)
(***************************************************************************)
LEMMA BytesType ==
    ASSUME NEW l, NEW from \in Nat, NEW n \in Nat
    PROVE  /\ Bytes(l, from, n) \in Seq(Nat) /\ Len(Bytes(l, from, n)) = n
           /\ \A i \in 1 .. n : Bytes(l, from, n)[i] = Byte(l, from + i - 1)
<1>1. \A i \in 1 .. n : Byte(l, from + i - 1) \in Nat
  BY DEF Byte
<1>2. QED
  BY <1>1 DEF Bytes

\* What Deliver does, as relations: the provers instantiate these, not equations.
IsJoin(s, t, joined)      == joined = s \o t
IsCut(s, from, till, cut) == cut = SubSeq(s, from, till)

LEMMA BytesConcat ==
    ASSUME NEW l, NEW from \in Nat, NEW n \in Nat, NEW k \in Nat
    PROVE  IsJoin(Bytes(l, from, n), Bytes(l, from + n, k), Bytes(l, from, n + k))
<1>1. PICK x \in Seq(Nat) : /\ x = Bytes(l, from, n) /\ Len(x) = n
                            /\ \A i \in 1 .. n : x[i] = Byte(l, from + i - 1)
  BY BytesType
<1>2. PICK y \in Seq(Nat) : /\ y = Bytes(l, from + n, k) /\ Len(y) = k
                            /\ \A i \in 1 .. k : y[i] = Byte(l, (from + n) + i - 1)
  <2>1. from + n \in Nat
    OBVIOUS
  <2>2. QED
    BY <2>1, BytesType
<1>3. PICK z \in Seq(Nat) : /\ z = Bytes(l, from, n + k) /\ Len(z) = n + k
                            /\ \A i \in 1 .. n + k : z[i] = Byte(l, from + i - 1)
  <2>1. n + k \in Nat
    OBVIOUS
  <2>2. QED
    BY <2>1, BytesType
<1>4. x \o y \in Seq(Nat) /\ Len(x \o y) = n + k
  BY <1>1, <1>2, ConcatProperties
<1>5. ASSUME NEW i \in 1 .. n + k PROVE (x \o y)[i] = z[i]
  <2>1. CASE i <= n
    BY <1>1, <1>3, <2>1
  <2>2. CASE i > n
    <3>1. (x \o y)[i] = y[i - n] /\ i - n \in 1 .. k
      <4>1. Len(x) = n /\ Len(y) = k
        BY <1>1, <1>2
      <4>2. i - n \in 1 .. k
        BY <2>2
      <4>3. i \in 1 .. Len(x) + Len(y) /\ ~ (i <= Len(x)) /\ i - Len(x) = i - n
        BY <2>2, <4>1
      <4>4. (x \o y)[i] = y[i - Len(x)]
        BY <4>3, ConcatProperties
      <4>5. QED
        BY <4>2, <4>3, <4>4
    <3>2. (from + n) + (i - n) - 1 = from + i - 1
      OBVIOUS
    <3>3. y[i - n] = Byte(l, (from + n) + (i - n) - 1)
      BY <1>2, <3>1
    <3>4. QED
      BY <1>3, <3>1, <3>2, <3>3
  <2>3. i <= n \/ i > n
    OBVIOUS
  <2>4. QED
    BY <2>1, <2>2, <2>3
<1>6. x \o y = z
  BY <1>3, <1>4, <1>5, SeqEqual
<1>7. QED
  BY <1>1, <1>2, <1>3, <1>6 DEF IsJoin

LEMMA BytesCut ==
    ASSUME NEW l, NEW from \in Nat, NEW n \in Nat, NEW o \in Nat, NEW k \in Nat, o + k <= n
    PROVE  IsCut(Bytes(l, from, n), o + 1, o + k, Bytes(l, from + o, k))
<1>1. PICK x \in Seq(Nat) : /\ x = Bytes(l, from, n) /\ Len(x) = n
                            /\ \A i \in 1 .. n : x[i] = Byte(l, from + i - 1)
  BY BytesType
<1>2. PICK y \in Seq(Nat) : /\ y = Bytes(l, from + o, k) /\ Len(y) = k
                            /\ \A i \in 1 .. k : y[i] = Byte(l, (from + o) + i - 1)
  <2>1. from + o \in Nat
    OBVIOUS
  <2>2. QED
    BY <2>1, BytesType
<1>3. PICK z : z = SubSeq(x, o + 1, o + k)
  OBVIOUS
<1>4. /\ z \in Seq(Nat) /\ Len(z) = k
      /\ \A i \in 1 .. k : z[i] = x[o + i]
  BY <1>1, <1>3
<1>5. ASSUME NEW i \in 1 .. k PROVE z[i] = y[i]
  <2>1. o + i \in 1 .. n /\ from + (o + i) - 1 = (from + o) + i - 1
    OBVIOUS
  <2>2. x[o + i] = Byte(l, from + (o + i) - 1)
    BY <1>1, <2>1
  <2>3. QED
    BY <1>2, <1>4, <2>1, <2>2
<1>6. z = y
  BY <1>2, <1>4, <1>5, SeqEqual
<1>7. QED
  BY <1>1, <1>2, <1>3, <1>6 DEF IsCut

\* How much of block j of a file there is.
Extent(l, j) == Least(BlockSize, l.size - j * BlockSize)

LEMMA ExtentType ==
    ASSUME NEW l, Sane(l), NEW j \in Nat, j < BlocklistCount(l)
    PROVE  /\ j * BlockSize \in Nat /\ j * BlockSize < l.size
           /\ Extent(l, j) \in 1 .. BlockSize /\ j * BlockSize + Extent(l, j) <= l.size
           /\ \/ Extent(l, j) = BlockSize
              \/ j * BlockSize + Extent(l, j) = l.size /\ l.size <= (j + 1) * BlockSize
<1>1. PICK c \in Nat : c = BlocklistCount(l)
  BY CountType
<1>2. BlockSize * j + BlockSize <= BlockSize * c
  BY <1>1, Sizes, Grows
<1>3. PICK x \in Nat, y \in Nat : /\ x = j * BlockSize /\ x = BlockSize * j
                                  /\ y = c * BlockSize /\ y = BlockSize * c
  BY Sizes, Product
<1>4. (j + 1) * BlockSize = x + BlockSize
  BY <1>3, Sizes
<1>5. x < l.size
  BY <1>1, <1>2, <1>3, CountType, Sizes, SaneType
<1>6. QED
  BY <1>3, <1>4, <1>5, Sizes, SaneType DEF Extent, Least

\* A hole reads as the file's bytes, ...
LEMMA HoleRight ==
    ASSUME NEW l, Sane(l), NEW j \in l.holes, j < BlocklistCount(l)
    PROVE  HoleData(l, j * BlockSize) = Bytes(l, j * BlockSize, Extent(l, j))
<1>1. j \in Nat
  BY SaneType
<1>2. PICK p \in Nat, n \in 1 .. BlockSize : p = j * BlockSize /\ n = Extent(l, j)
  BY <1>1, ExtentType
<1>3. ASSUME NEW i \in 1 .. n PROVE Byte(l, p + i - 1) = 0
  <2>1. i - 1 \in 0 .. BlockSize - 1
    BY Sizes
  <2>2. PICK o \in 0 .. BlockSize - 1 : o = i - 1
    BY <2>1
  <2>3. (BlockSize * j + o) \div BlockSize = j
    BY <1>1, Sizes, DivOf
  <2>4. p + i - 1 = BlockSize * j + o
    <3>1. p = BlockSize * j
      BY <1>1, <1>2, Sizes, Product
    <3>2. QED
      BY <2>2, <3>1, Sizes
  <2>5. QED
    BY <2>3, <2>4 DEF Byte
<1>4. HoleData(l, p) = [i \in 1 .. n |-> 0] /\ Bytes(l, p, n) = [i \in 1 .. n |-> Byte(l, p + i - 1)]
  BY <1>2 DEF HoleData, Bytes, Extent
<1>5. HoleData(l, p) = Bytes(l, p, n)
  BY <1>3, <1>4
<1>6. QED
  BY <1>2, <1>5

\* ... and so does the block that is stored where the list says.
LEMMA BlockRight ==
    ASSUME NEW l, Sane(l), NEW j \in Nat, j < BlocklistCount(l), j \notin l.holes
    PROVE  BlockData(l, DataStart(l, j)) = Bytes(l, j * BlockSize, Extent(l, j))
<1> DEFINE at == {n \in 0 .. BlocklistCount(l) - 1 :
                     n \notin l.holes /\ DataStart(l, n) = DataStart(l, j)}
<1>1. j \in 0 .. BlocklistCount(l) - 1
  BY CountType
<1>2. \A n \in Nat : n \notin l.holes /\ DataStart(l, n) = DataStart(l, j) => n = j
  <2>1. SUFFICES ASSUME NEW n \in Nat, n \notin l.holes, DataStart(l, n) = DataStart(l, j), n # j
                 PROVE  FALSE
    OBVIOUS
  <2>2. DataStart(l, n) \in Nat /\ DataStart(l, j) \in Nat
    BY DataStartType
  <2>3. CASE n < j
    BY <2>1, <2>2, <2>3, DataStartLess
  <2>4. CASE j < n
    BY <2>1, <2>2, <2>4, DataStartLess
  <2>5. QED
    BY <2>1, <2>3, <2>4
<1>3. at = {j}
  BY <1>1, <1>2
<1>4. (CHOOSE n \in at : TRUE) = j
  BY <1>3
<1>5. QED
  BY <1>3, <1>4 DEF BlockData, Extent

-----------------------------------------------------------------------------
(***************************************************************************)
(* The block list.                                                         *)
(***************************************************************************)
\* A block list record that is where a scan would be; nothing in it is junk.
Sound(l, b) ==
    /\ b \in Lists
    /\ b.remain <= BlocklistCount(l)
    /\ b.block \in Nat
    /\ Consistent(l, b)

\* The block that sqfs_blocklist_next goes to.
Ahead(l, b) == BlocklistCount(l) - b.remain

LEMMA CursorType ==
    ASSUME NEW l, Sane(l), NEW n \in Nat
    PROVE  [block  |-> (l.off + n * EntrySize) \div MetaSize,
            offset |-> (l.off + n * EntrySize) % MetaSize] \in Cursors
<1>1. PICK p \in Nat : p = l.off + n * EntrySize
  BY EntryAt
<1>2. p \div MetaSize \in Nat /\ p % MetaSize \in 0 .. MetaSize - 1
  BY Sizes, DivMod
<1>3. QED
  BY <1>1, <1>2 DEF Cursors

LEMMA InitSound ==
    ASSUME NEW l, Sane(l)
    PROVE  Sound(l, BlocklistInit(l)) /\ Ahead(l, BlocklistInit(l)) = 0
<1>1. PICK c \in Nat : c = BlocklistCount(l)
  BY CountType
<1>2. c - c = 0 /\ l.off + 0 * EntrySize = l.off /\ 0 * BlockSize = 0
  BY Sizes, SaneType
<1>3. [block |-> 0, offset |-> l.off]
        = [block |-> l.off \div MetaSize, offset |-> l.off % MetaSize]
  <2>1. l.off \in 0 .. MetaSize - 1 /\ MetaSize * 0 + l.off = l.off
    BY Sizes, SaneType DEF Sane
  <2>2. l.off \div MetaSize = 0 /\ l.off % MetaSize = l.off
    BY Sizes, <2>1, DivOf
  <2>3. QED
    BY <2>2
<1>4. DataStart(l, 0) = 0
  <2>1. 0 .. 0 - 1 \ l.holes = {}
    OBVIOUS
  <2>2. QED
    BY <2>1, FS_EmptySet DEF DataStart
<1>5. BlocklistInit(l) \in Lists
  <2>1. [block |-> 0, offset |-> l.off] \in Cursors
    BY Sizes, SaneType DEF Sane, Cursors
  <2>2. QED
    BY <1>1, <2>1 DEF BlocklistInit, Lists
<1>6. QED
  BY <1>1, <1>2, <1>3, <1>4, <1>5 DEF Sound, Consistent, BlocklistInit, Ahead

\* The header at the cursor is that of the next block.
LEMMA HeaderRight ==
    ASSUME NEW l, Sane(l), NEW n \in Nat, n < BlocklistCount(l), NEW cur,
           cur = [block  |-> (l.off + n * EntrySize) \div MetaSize,
                  offset |-> (l.off + n * EntrySize) % MetaSize]
    PROVE  HeaderAt(l, cur) = StoredSize(l, n)
<1>1. PICK p \in Nat : p = l.off + n * EntrySize
  BY EntryAt
<1>2. PICK x \in Nat, y \in 0 .. MetaSize - 1 :
         x = p \div MetaSize /\ y = p % MetaSize /\ p = MetaSize * x + y
  BY Sizes, Split
<1>3. cur.block = x /\ cur.offset = y /\ x * MetaSize = MetaSize * x /\ MetaSize * x \in Nat
  BY <1>1, <1>2, Sizes, Product
<1>4. PICK d \in Nat : d = n * EntrySize /\ d = EntrySize * n
  BY Sizes, Product
<1>5. cur.block * MetaSize + cur.offset - l.off = d
  BY <1>1, <1>2, <1>3, <1>4, SaneType
<1>6. d % EntrySize = 0 /\ d \div EntrySize = n
  <2>1. 0 \in 0 .. EntrySize - 1 /\ d = EntrySize * n + 0
    BY <1>4, Sizes
  <2>2. QED
    BY <2>1, Sizes, DivOf
<1>7. QED
  BY <1>5, <1>6 DEF HeaderAt

\* sqfs_blocklist_next.
LEMMA NextSound ==
    ASSUME NEW l, Sane(l), NEW b, Sound(l, b), b.remain > 0
    PROVE  LET c == BlocklistNext(l, b)
               n == Ahead(l, b)
           IN /\ Sound(l, c) /\ n \in Nat /\ n < BlocklistCount(l)
              /\ c.remain = b.remain - 1 /\ Ahead(l, c) = n + 1
              /\ c.pos = n * BlockSize
              /\ c.input_size = StoredSize(l, n) /\ c.block = DataStart(l, n)
<1>1. /\ b.remain \in Nat /\ BlocklistCount(l) \in Nat /\ b.pos \in Nat /\ b.input_size \in Nat
      /\ b.block \in Nat /\ b.started \in BOOLEAN
  BY CountType DEF Sound, Lists
<1>2. PICK n \in Nat : n = Ahead(l, b) /\ n < BlocklistCount(l)
  BY <1>1 DEF Ahead, Sound
<1>3. PICK c : c = BlocklistNext(l, b)
  OBVIOUS
<1>4. c.remain = b.remain - 1 /\ c.remain \in Nat /\ BlocklistCount(l) - c.remain = n + 1
  BY <1>1, <1>2, <1>3 DEF BlocklistNext, Ahead
<1>5. b.cur = [block  |-> (l.off + n * EntrySize) \div MetaSize,
               offset |-> (l.off + n * EntrySize) % MetaSize]
  BY <1>2 DEF Sound, Consistent, Ahead
<1>6. c.cur = [block  |-> (l.off + (n + 1) * EntrySize) \div MetaSize,
               offset |-> (l.off + (n + 1) * EntrySize) % MetaSize]
  BY <1>3, <1>5, NextEntry DEF BlocklistNext
<1>7. c.input_size = StoredSize(l, n)
  BY <1>2, <1>3, <1>5, HeaderRight DEF BlocklistNext
<1>8. c.block = DataStart(l, n) /\ c.block \in Nat
  BY <1>2, <1>3, DataStartType DEF BlocklistNext, Sound, Consistent, Ahead
<1>9. c.block + c.input_size = DataStart(l, n + 1)
  BY <1>7, <1>8, DataStartNext
<1>10. c.pos = n * BlockSize /\ c.pos \in Nat /\ c.started = TRUE
  <2>1. b.pos = (IF b.started THEN n - 1 ELSE n) * BlockSize
    BY <1>2 DEF Sound, Consistent, Ahead
  <2>2. (n - 1) * BlockSize + BlockSize = n * BlockSize /\ n * BlockSize \in Nat
    BY Sizes
  <2>3. c.pos = IF b.started THEN b.pos + BlockSize ELSE b.pos
    BY <1>3 DEF BlocklistNext
  <2>4. c.started = TRUE
    BY <1>3 DEF BlocklistNext
  <2>5. QED
    BY <2>1, <2>2, <2>3, <2>4
<1>11. c \in Lists
  <2>1. c.cur \in Cursors
    BY <1>6, CursorType
  <2>2. c.input_size \in Nat
    BY <1>7 DEF StoredSize
  <2>3. c = [remain |-> c.remain, cur |-> c.cur, started |-> c.started, pos |-> c.pos,
             block |-> c.block, input_size |-> c.input_size]
    BY <1>3 DEF BlocklistNext
  <2>4. QED
    BY <1>4, <1>8, <1>10, <2>1, <2>2, <2>3 DEF Lists
<1>12. Consistent(l, c)
  <2>1. (n + 1) - 1 = n /\ n + 1 >= 0
    OBVIOUS
  <2>2. QED
    BY <1>4, <1>6, <1>9, <1>10, <2>1 DEF Consistent
<1>13. Sound(l, c)
  BY <1>1, <1>4, <1>8, <1>11, <1>12 DEF Sound, Ahead
<1>14. QED
  BY <1>2, <1>3, <1>4, <1>7, <1>8, <1>10, <1>13 DEF Ahead

-----------------------------------------------------------------------------
(***************************************************************************)
(* The block index.                                                        *)
(***************************************************************************)
LEMMA DivNext ==
    ASSUME NEW a \in Nat, NEW b \in Nat \ {0}
    PROVE  (a + 1) \div b = IF (a + 1) % b = 0 THEN (a \div b) + 1 ELSE a \div b
<1>1. PICK x \in Nat, r \in 0 .. b - 1 : x = a \div b /\ a = b * x + r
  BY Split
<1>2. b * x \in Nat
  OBVIOUS
<1>3. CASE r = b - 1
  <2>1. b * (x + 1) + 0 = b * x + b /\ x + 1 \in Nat /\ 0 \in 0 .. b - 1
    OBVIOUS
  <2>2. (b * (x + 1) + 0) \div b = x + 1 /\ (b * (x + 1) + 0) % b = 0
    BY <2>1, DivOf
  <2>3. a + 1 = b * (x + 1) + 0
    BY <1>1, <1>2, <1>3, <2>1
  <2>4. QED
    BY <1>1, <2>2, <2>3
<1>4. CASE r # b - 1
  <2>1. r + 1 \in 0 .. b - 1 /\ r + 1 # 0
    BY <1>4
  <2>2. (b * x + (r + 1)) \div b = x /\ (b * x + (r + 1)) % b = r + 1
    BY <2>1, DivOf
  <2>3. a + 1 = b * x + (r + 1)
    BY <1>1, <1>2
  <2>4. QED
    BY <1>1, <2>1, <2>2, <2>3
<1>5. QED
  BY <1>3, <1>4

\* The entries that an index has, once n sizes of the list were read.
Filled(l, n) == IF n = 0 THEN 0 ELSE (First(l) + n - 1) \div PerMd

\* An index is right as far as it goes.
IndexTrue(l, idx) ==
    /\ idx \in Indexes
    /\ \A m \in DOMAIN idx :
         idx[m] = [md_block |-> m, data_block |-> DataStart(l, Skipped(l, m))]

LEMMA SkippedIs ==
    ASSUME NEW l, Sane(l), NEW m \in Nat
    PROVE  Skipped(l, m) = PerMd * m - First(l)
<1>1. PICK k \in Nat : k = PerMd * m
  BY Units, Product
<1>2. m * MetaSize = EntrySize * k + 0
  <2>1. m * MetaSize = m * (EntrySize * PerMd)
    BY Units
  <2>2. m * (EntrySize * PerMd) = EntrySize * (PerMd * m)
    BY Units
  <2>3. EntrySize * k \in Nat
    BY Sizes, Product
  <2>4. QED
    BY <1>1, <2>1, <2>2, <2>3
<1>3. 0 \in 0 .. EntrySize - 1
  BY Sizes
<1>4. (EntrySize * k + 0) \div EntrySize = k
  BY <1>3, Sizes, DivOf
<1>5. QED
  BY <1>1, <1>2, <1>4 DEF Skipped, First

\* An iteration of sqfs_blockidx_add.
LEMMA BuildStep ==
    ASSUME NEW l, Sane(l), NEW b, Sound(l, b), b.remain > 0,
           NEW idx, IndexTrue(l, idx), Len(idx) = Filled(l, Ahead(l, b)),
           NEW new, new = IF NewMdBlock(l, b) THEN Append(idx, IndexEntry(b)) ELSE idx
    PROVE  IndexTrue(l, new) /\ Len(new) = Filled(l, Ahead(l, b) + 1)
<1>1. PICK n \in Nat : n = Ahead(l, b) /\ n < BlocklistCount(l)
  BY NextSound
<1>2. PICK q \in Nat, r \in 0 .. EntrySize - 1 :
         q = First(l) /\ q < PerMd /\ r = l.off % EntrySize
  BY FirstType
<1>3. PICK m \in Nat, y \in 0 .. PerMd - 1 :
         m = (q + n) \div PerMd /\ y = (q + n) % PerMd /\ q + n = PerMd * m + y
  <2>1. q + n \in Nat /\ PerMd \in Nat \ {0}
    BY Units
  <2>2. QED
    BY <2>1, Split
<1>4. b.cur.block = m /\ b.cur.offset = EntrySize * y + r
  <2>1. b.cur = [block  |-> (l.off + n * EntrySize) \div MetaSize,
                 offset |-> (l.off + n * EntrySize) % MetaSize]
    BY <1>1 DEF Sound, Consistent, Ahead
  <2>2. QED
    BY <1>2, <1>3, <2>1, EntryAt
<1>5. b.cur.offset < EntrySize <=> y = 0
  <2>1. CASE y = 0
    BY <1>4, <2>1, Sizes
  <2>2. CASE y # 0
    <3>1. 0 < y /\ 0 \in Int /\ y \in Int
      BY <2>2
    <3>2. EntrySize * 0 + EntrySize <= EntrySize * y /\ EntrySize * y \in Int
      BY <3>1, Sizes, Grows
    <3>3. QED
      BY <1>4, <2>2, <3>2, Sizes
  <2>3. QED
    BY <2>1, <2>2
<1>6. b.remain = BlocklistCount(l) <=> n = 0
  <2>1. b.remain \in Nat /\ BlocklistCount(l) \in Nat
    BY CountType DEF Sound, Lists
  <2>2. QED
    BY <1>1, <2>1 DEF Ahead
<1>7. NewMdBlock(l, b) <=> y = 0 /\ n # 0
  BY <1>5, <1>6 DEF NewMdBlock
<1>8. Filled(l, n + 1) = m
  BY <1>2, <1>3 DEF Filled
<1>9. n # 0 => m = IF y = 0 THEN Filled(l, n) + 1 ELSE Filled(l, n)
  <2>1. SUFFICES ASSUME n # 0 PROVE m = IF y = 0 THEN Filled(l, n) + 1 ELSE Filled(l, n)
    OBVIOUS
  <2>2. PICK a \in Nat : a = q + n - 1 /\ a + 1 = q + n
    BY <2>1
  <2>3. (a + 1) \div PerMd = IF (a + 1) % PerMd = 0 THEN (a \div PerMd) + 1 ELSE a \div PerMd
    BY Units, DivNext
  <2>4. Filled(l, n) = a \div PerMd
    BY <1>2, <2>1, <2>2 DEF Filled
  <2>5. QED
    BY <1>3, <2>2, <2>3, <2>4
<1>10. n = 0 => m = 0
  <2>1. SUFFICES ASSUME n = 0 PROVE m = 0
    OBVIOUS
  <2>2. q \in 0 .. PerMd - 1 /\ PerMd * 0 + q = q
    BY <1>2, Units
  <2>3. q \div PerMd = 0
    BY <2>2, Units, DivOf
  <2>4. QED
    BY <1>3, <2>1, <2>3
<1>11. CASE NewMdBlock(l, b)
  <2>1. y = 0 /\ n # 0 /\ m = Len(idx) + 1
    BY <1>1, <1>7, <1>9, <1>11
  <2>2. Skipped(l, m) = n
    <3>1. PerMd * m \in Nat
      BY Units, Product
    <3>2. Skipped(l, m) = PerMd * m - q
      BY <1>2, SkippedIs
    <3>3. QED
      BY <1>3, <2>1, <3>1, <3>2
  <2>3. IndexEntry(b) = [md_block |-> m, data_block |-> DataStart(l, Skipped(l, m))]
    BY <1>1, <1>4, <2>2 DEF IndexEntry, Sound, Consistent, Ahead
  <2>4. DataStart(l, Skipped(l, m)) \in Nat
    BY <2>2, DataStartType
  <2>5. PICK e \in [md_block : Nat, data_block : Nat] :
           e = IndexEntry(b) /\ e = [md_block |-> m, data_block |-> DataStart(l, Skipped(l, m))]
    BY <2>3, <2>4
  <2>6. /\ new \in Indexes /\ Len(new) = m /\ new[m] = e
        /\ DOMAIN new = 1 .. m /\ \A k \in 1 .. Len(idx) : new[k] = idx[k]
    <3>1. PICK S : S = [md_block : Nat, data_block : Nat]
      OBVIOUS
    <3>2. idx \in Seq(S) /\ e \in S
      BY <3>1 DEF IndexTrue, Indexes
    <3>3. new = Append(idx, e)
      BY <1>11, <2>5
    <3>4. /\ new \in Seq(S) /\ Len(new) = Len(idx) + 1
          /\ new[Len(idx) + 1] = e /\ \A k \in 1 .. Len(idx) : new[k] = idx[k]
      BY <3>2, <3>3, AppendProperties
    <3>5. DOMAIN new = 1 .. Len(new)
      BY <3>4
    <3>6. QED
      BY <2>1, <3>1, <3>4, <3>5 DEF Indexes
  <2>7. DOMAIN idx = 1 .. Len(idx) /\ Len(idx) \in Nat
    BY DEF IndexTrue, Indexes
  <2>8. IndexTrue(l, new)
    <3>1. SUFFICES ASSUME NEW k \in 1 .. m
                   PROVE  new[k] = [md_block |-> k, data_block |-> DataStart(l, Skipped(l, k))]
      BY <2>6 DEF IndexTrue
    <3>2. CASE k = m
      BY <2>5, <2>6, <3>2
    <3>3. CASE k # m
      <4>1. k \in DOMAIN idx
        BY <2>1, <2>7, <3>3
      <4>2. QED
        BY <2>6, <2>7, <4>1 DEF IndexTrue
    <3>4. QED
      BY <3>2, <3>3
  <2>9. QED
    BY <1>1, <1>8, <2>6, <2>8
<1>12. CASE ~ NewMdBlock(l, b)
  <2>1. m = Len(idx)
    <3>1. CASE n = 0
      BY <1>1, <1>10, <3>1 DEF Filled
    <3>2. CASE n # 0
      BY <1>1, <1>7, <1>9, <1>12, <3>2
    <3>3. QED
      BY <3>1, <3>2
  <2>2. QED
    BY <1>1, <1>8, <1>12, <2>1
<1>13. QED
  BY <1>11, <1>12

\* The loop of sqfs_blockidx_add ends with an index of the whole list.
LEMMA BuildEnd ==
    ASSUME NEW l, Sane(l), NEW b, Sound(l, b), NEW n \in Nat, n = Filled(l, Ahead(l, b)),
           Indexable(l), b.remain = 0 \/ ~ (n < IndexCount(l))
    PROVE  n >= Filled(l, BlocklistCount(l))
<1>1. PICK c \in Nat : c = BlocklistCount(l)
  BY CountType
<1>2. CASE b.remain = 0
  BY <1>1, <1>2 DEF Ahead
<1>3. CASE ~ (n < IndexCount(l))
  <2>1. c # 0
    BY <1>1, Sizes DEF Indexable
  <2>2. PICK q \in Nat, r \in 0 .. EntrySize - 1 :
           q = First(l) /\ r = l.off % EntrySize /\ l.off = EntrySize * q + r
    BY FirstType
  <2>3. PICK x \in Nat, y \in 0 .. PerMd - 1 :
           x = (q + c - 1) \div PerMd /\ q + c - 1 = PerMd * x + y
    <3>1. q + c - 1 \in Nat /\ PerMd \in Nat \ {0}
      BY Units, <2>1
    <3>2. QED
      BY <3>1, Split
  <2>4. PICK a \in Nat : a = l.off + c * EntrySize - 1 /\ MetaSize * x <= a
    <3>1. PICK z \in Nat : z = EntrySize * (q + c - 1)
      BY <2>1, Sizes
    <3>2. l.off + c * EntrySize - 1 = z + (EntrySize - 1) + r
      <4>1. (EntrySize * q + r) + c * EntrySize = EntrySize * (q + c - 1) + EntrySize + r
        BY Sizes
      <4>2. QED
        BY <2>2, <3>1, <4>1, Sizes
    <3>3. MetaSize * x <= z
      <4>1. EntrySize * (q + c - 1) = EntrySize * (PerMd * x + y)
        BY <2>3
      <4>2. EntrySize * (PerMd * x + y) = (EntrySize * PerMd) * x + EntrySize * y
        BY Units
      <4>3. EntrySize * y \in Nat /\ MetaSize * x \in Nat
        BY Sizes, Product
      <4>4. z = MetaSize * x + EntrySize * y
        BY Units, <3>1, <4>1, <4>2
      <4>5. QED
        BY <4>3, <4>4
    <3>4. MetaSize * x \in Nat
      BY Sizes, Product
    <3>5. QED
      BY <3>2, <3>3, <3>4, Sizes
  <2>5. x <= a \div MetaSize /\ a \div MetaSize \in Nat
    BY <2>4, Sizes, DivBounds, DivMod
  <2>6. IndexCount(l) = a \div MetaSize
    BY <1>1, <2>4 DEF IndexCount
  <2>7. Filled(l, c) = x
    BY <2>1, <2>2, <2>3 DEF Filled
  <2>8. QED
    BY <1>1, <1>3, <2>5, <2>6, <2>7
<1>4. QED
  BY <1>2, <1>3

\* The index that is cached for a file.
IndexWhole(l, idx) ==
    /\ Indexable(l)
    /\ IndexTrue(l, idx)
    /\ Len(idx) >= Filled(l, BlocklistCount(l))

\* sqfs_blockidx_blocklist goes to the MD-block that has the position's size.
LEMMA SeekSound ==
    ASSUME NEW l, Sane(l), NEW idx, IndexWhole(l, idx), NEW from \in Nat, from < l.size,
           NEW m, m = Metablock(l, from), m # 0, NEW b, b = Seek(l, EntryOf(idx, m), m)
    PROVE  /\ b \in Lists /\ b.remain <= BlocklistCount(l)
           /\ b.remain > 0 => Sound(l, b)
           /\ Ahead(l, b) \in Nat /\ Ahead(l, b) <= from \div BlockSize
<1>1. PICK j \in Nat, c \in Nat : j = from \div BlockSize /\ c = BlocklistCount(l) /\ j <= c
  BY BlockOf, CountType
<1>2. PICK q \in Nat, r \in 0 .. EntrySize - 1 :
         q = First(l) /\ q < PerMd /\ r = l.off % EntrySize
  BY FirstType
<1>3. m = (q + j) \div PerMd
  BY <1>1, <1>2, EntryAt DEF Metablock
<1>4. PICK y \in 0 .. PerMd - 1 : m \in Nat /\ q + j = PerMd * m + y
  <2>1. q + j \in Nat /\ PerMd \in Nat \ {0}
    BY Units
  <2>2. PICK x \in Nat, y \in 0 .. PerMd - 1 :
           x = (q + j) \div PerMd /\ q + j = PerMd * x + y
    BY <2>1, Split
  <2>3. m = x
    BY <1>3, <2>2
  <2>4. QED
    BY <2>2, <2>3
<1>5. PICK k \in Nat : k = PerMd * m /\ k >= PerMd
  <2>1. 0 < m /\ m \in Int /\ 0 \in Int
    BY <1>4
  <2>2. PerMd * 0 + PerMd <= PerMd * m
    BY <2>1, Units, Grows
  <2>3. PerMd * m \in Nat
    BY <1>4, Units, Product
  <2>4. QED
    BY <2>2, <2>3, Units
<1>6. PICK n \in Nat : n = Skipped(l, m) /\ n = k - q /\ n <= j
  <2>1. Skipped(l, m) = k - q
    BY <1>2, <1>4, <1>5, SkippedIs
  <2>2. QED
    BY <1>2, <1>4, <1>5, <2>1, Units
<1>7. c - n \in Nat /\ c - n <= c /\ c - (c - n) = n
  BY <1>1, <1>6
<1>8. PICK e : e = EntryOf(idx, m)
  OBVIOUS
<1>9. b = [remain |-> c - n, cur |-> [block |-> e.md_block, offset |-> r],
           started |-> FALSE, pos |-> n * BlockSize, block |-> e.data_block,
           input_size |-> 0]
  BY <1>1, <1>2, <1>6, <1>8 DEF Seek
<1>10. DOMAIN idx = 1 .. Len(idx) /\ Len(idx) \in Nat
  BY DEF IndexWhole, IndexTrue, Indexes
<1>11. ASSUME c - n > 0 PROVE m \in DOMAIN idx
  <2>1. c # 0 /\ PerMd * m <= q + c - 1 /\ q + c - 1 \in Nat
    BY <1>1, <1>5, <1>6, <1>11
  <2>2. m <= (q + c - 1) \div PerMd
    BY <1>4, <2>1, Units, DivBounds
  <2>3. Filled(l, c) = (q + c - 1) \div PerMd /\ (q + c - 1) \div PerMd \in Nat
    BY <1>2, <2>1, Units, DivMod DEF Filled
  <2>4. QED
    BY <1>1, <1>4, <1>10, <2>2, <2>3 DEF IndexWhole
<1>12. m \in DOMAIN idx => /\ e.md_block = m /\ e.data_block = DataStart(l, n)
  <2>1. SUFFICES ASSUME m \in DOMAIN idx
                 PROVE  e.md_block = m /\ e.data_block = DataStart(l, n)
    OBVIOUS
  <2>2. e = idx[m]
    BY <1>8, <2>1 DEF EntryOf
  <2>3. idx[m] = [md_block |-> m, data_block |-> DataStart(l, Skipped(l, m))]
    BY <2>1 DEF IndexWhole, IndexTrue
  <2>4. e = [md_block |-> m, data_block |-> DataStart(l, n)]
    BY <1>6, <2>2, <2>3, Zenon
  <2>5. QED
    BY <2>4
<1>13. m \notin DOMAIN idx => e.md_block = Junk /\ e.data_block = Junk
  BY <1>8 DEF EntryOf
<1>14. n * BlockSize \in Nat /\ r \in 0 .. MetaSize - 1
  BY Sizes, ReadAssumption, Product
<1>15. b \in Lists
  <2>1. e.md_block \in Nat \cup {Junk} /\ e.data_block \in Nat \cup {Junk}
    BY <1>4, <1>12, <1>13, DataStartType
  <2>2. [block |-> e.md_block, offset |-> r] \in Cursors
    BY <1>14, <2>1 DEF Cursors
  <2>3. QED
    BY <1>7, <1>9, <1>14, <2>1, <2>2 DEF Lists
<1>16. ASSUME c - n > 0 PROVE Sound(l, b)
  <2>1. e.md_block = m /\ e.data_block = DataStart(l, n) /\ DataStart(l, n) \in Nat
    BY <1>11, <1>12, <1>16, DataStartType
  <2>2. q + n = k
    BY <1>6
  <2>3. (q + n) \div PerMd = m /\ (q + n) % PerMd = 0
    <3>1. 0 \in 0 .. PerMd - 1 /\ m \in Nat /\ PerMd \in Nat \ {0}
      BY <1>4, Units
    <3>2. (PerMd * m + 0) \div PerMd = m /\ (PerMd * m + 0) % PerMd = 0
      BY <3>1, DivOf
    <3>3. q + n = PerMd * m + 0
      BY <1>5, <2>2
    <3>4. QED
      BY <3>2, <3>3
  <2>4. (l.off + n * EntrySize) \div MetaSize = m /\ (l.off + n * EntrySize) % MetaSize = r
    <3>1. EntrySize * 0 + r = r
      BY Sizes
    <3>2. QED
      BY <1>2, <2>3, <3>1, EntryAt
  <2>5. Consistent(l, b)
    BY <1>1, <1>7, <1>9, <2>1, <2>4 DEF Consistent
  <2>6. QED
    BY <1>1, <1>7, <1>9, <1>15, <2>1, <2>5 DEF Sound
<1>17. QED
  BY <1>1, <1>6, <1>7, <1>9, <1>15, <1>16 DEF Ahead

-----------------------------------------------------------------------------
(***************************************************************************)
(* The loop of sqfs_read_range, on the values of one read: from is where   *)
(* it starts, n what is still to be read, o is read_off, b the block list  *)
(* and out what was copied.                                                *)
(***************************************************************************)
\* What was copied is the start of what was asked for.
OutOK(l, from, out) ==
    /\ from < l.size /\ from + Len(out) <= l.size
    /\ out = Bytes(l, from, Len(out))

(* Between two blocks: nothing was copied and the list is not behind the   *)
(* block of from, or the copy has reached the next block, or all that was  *)
(* asked for, or the end of the file.                                      *)
LoopOK(l, from, n, o, b, out) ==
    /\ OutOK(l, from, out)
    /\ b.remain <= BlocklistCount(l)
    /\ b.remain > 0 => Sound(l, b)
    /\ \/ /\ out = <<>> /\ n > 0
          /\ o = from % BlockSize
          /\ Ahead(l, b) <= from \div BlockSize
       \/ /\ out # <<>> /\ o = 0
          /\ \/ n = 0
             \/ from + Len(out) = Ahead(l, b) * BlockSize
             \/ from + Len(out) = l.size /\ l.size <= Ahead(l, b) * BlockSize

\* A block was found: block j of the file, with byte o of it to copy first.
Found(l, from, o, b, out, j) ==
    /\ j = Ahead(l, b) - 1 /\ j < BlocklistCount(l)
    /\ b.pos = j * BlockSize
    /\ b.input_size = StoredSize(l, j) /\ b.block = DataStart(l, j)
    /\ from + Len(out) = j * BlockSize + o
    /\ o < Extent(l, j)

CopyOK(l, from, n, o, b, out) ==
    /\ OutOK(l, from, out)
    /\ Sound(l, b)
    /\ n > 0
    /\ \E j \in Nat : Found(l, from, o, b, out, j)

LEMMA OutStart ==
    ASSUME NEW l, Sane(l), NEW from \in Nat, from < l.size
    PROVE  OutOK(l, from, <<>>)
<1>1. Bytes(l, from, 0) = <<>> /\ Len(<<>>) = 0
  BY BytesType, EmptySeq
<1>2. QED
  BY <1>1, SaneType DEF OutOK

LEMMA AheadType ==
    ASSUME NEW l, Sane(l), NEW b \in Lists, b.remain <= BlocklistCount(l)
    PROVE  Ahead(l, b) \in Nat /\ (b.remain = 0 => Ahead(l, b) = BlocklistCount(l))
<1>1. b.remain \in Nat /\ BlocklistCount(l) \in Nat
  BY CountType DEF Lists
<1>2. QED
  BY <1>1 DEF Ahead

LEMMA SkipKeeps ==
    ASSUME NEW l, Sane(l), NEW from \in Nat, NEW n \in Nat, NEW o \in Nat, NEW b \in Lists,
           NEW out \in Seq(Nat), LoopOK(l, from, n, o, b, out), n > 0, b.remain > 0,
           NEW c, c = BlocklistNext(l, b), c.pos + BlockSize <= from
    PROVE  c \in Lists /\ LoopOK(l, from, n, o, c, out)
<1>1. PICK a \in Nat : /\ a = Ahead(l, b) /\ Sound(l, c) /\ Ahead(l, c) = a + 1
                       /\ c.pos = a * BlockSize
  BY NextSound DEF LoopOK
<1>2. PICK p \in Nat : p = a * BlockSize /\ p = BlockSize * a
  BY Sizes, Product
<1>3. p + BlockSize <= from
  BY <1>1, <1>2
<1>4. out = <<>>
  <2>1. SUFFICES ASSUME out # <<>> PROVE FALSE
    OBVIOUS
  <2>2. from + Len(out) = p \/ (from + Len(out) = l.size /\ l.size <= p)
    BY <1>1, <1>2, <2>1 DEF LoopOK
  <2>3. from + Len(out) <= p /\ Len(out) \in Nat
    BY <2>2, SaneType
  <2>4. QED
    BY <1>3, <2>3, Sizes
<1>5. a + 1 <= from \div BlockSize
  <2>1. BlockSize * (a + 1) = p + BlockSize
    BY <1>2, Sizes
  <2>2. BlockSize * (a + 1) <= from /\ a + 1 \in Nat
    BY <1>3, <2>1
  <2>3. QED
    BY <2>2, Sizes, DivBounds
<1>6. QED
  BY <1>1, <1>4, <1>5 DEF LoopOK, Sound

LEMMA FindKeeps ==
    ASSUME NEW l, Sane(l), NEW from \in Nat, NEW n \in Nat, NEW o \in Nat, NEW b \in Lists,
           NEW out \in Seq(Nat), LoopOK(l, from, n, o, b, out), n > 0, b.remain > 0,
           NEW c, c = BlocklistNext(l, b), c.pos + BlockSize > from
    PROVE  c \in Lists /\ CopyOK(l, from, n, o, c, out)
<1>1. PICK a \in Nat : /\ a = Ahead(l, b) /\ a < BlocklistCount(l)
                       /\ Sound(l, c) /\ Ahead(l, c) = a + 1
                       /\ c.pos = a * BlockSize
                       /\ c.input_size = StoredSize(l, a) /\ c.block = DataStart(l, a)
  BY NextSound DEF LoopOK
<1>2. PICK p \in Nat : p = a * BlockSize /\ p = BlockSize * a
  BY Sizes, Product
<1>3. PICK x \in 1 .. BlockSize : x = Extent(l, a) /\ p < l.size
                                  /\ (x = BlockSize \/ p + x = l.size)
  BY <1>1, <1>2, ExtentType
<1>4. from + Len(out) = p + o /\ o < x
  <2>1. CASE out = <<>>
    <3>1. o = from % BlockSize /\ a <= from \div BlockSize /\ from < l.size
      BY <1>1, <2>1 DEF LoopOK, OutOK
    <3>2. from < BlockSize * (a + 1) /\ a + 1 \in Nat
      <4>1. BlockSize * (a + 1) = p + BlockSize
        BY <1>2, Sizes
      <4>2. QED
        BY <1>1, <1>2, <4>1
    <3>3. from \div BlockSize < a + 1 /\ from \div BlockSize \in Nat
      BY <3>2, Sizes, DivBounds, DivMod
    <3>4. from \div BlockSize = a
      BY <3>1, <3>3
    <3>5. from = a * BlockSize + o /\ o \in 0 .. BlockSize - 1
      BY <3>1, <3>4, BlockOf
    <3>6. Len(out) = 0 /\ from = p + o
      BY <1>2, <2>1, <3>5
    <3>7. QED
      BY <1>3, <3>1, <3>5, <3>6, SaneType, Sizes
  <2>2. CASE out # <<>>
    <3>1. o = 0 /\ (from + Len(out) = p \/ l.size <= p)
      BY <1>1, <1>2, <2>2 DEF LoopOK
    <3>2. QED
      BY <1>3, <3>1, SaneType
  <2>3. QED
    BY <2>1, <2>2
<1>5. Found(l, from, o, c, out, a)
  BY <1>1, <1>2, <1>3, <1>4 DEF Found
<1>6. QED
  BY <1>1, <1>5 DEF CopyOK, LoopOK, Sound

(* What there is of the file's bytes p .. p + x - 1 behind those in out, or *)
(* as many as are still to be read, is added to out.                       *)
Delivers(l, from, n, out, take, new, p, x) ==
    /\ take \in 1 .. n /\ n - take \in Nat
    /\ new \in Seq(Nat) /\ Len(new) = Len(out) + take /\ new # <<>>
    /\ OutOK(l, from, new)
    /\ n - take = 0 \/ from + Len(new) = p + x
    /\ Len(new) = Least(n + Len(out), p + x - from)

LEMMA Delivered ==
    ASSUME NEW l, Sane(l), NEW from \in Nat, NEW n \in Nat, n > 0, NEW o \in Nat,
           NEW out \in Seq(Nat), OutOK(l, from, out), NEW p \in Nat, NEW x \in Nat, o < x,
           from + Len(out) = p + o, p + x <= l.size
    PROVE  LET take == Least(Len(Bytes(l, p, x)) - o, n)
               new  == out \o SubSeq(Bytes(l, p, x), o + 1, o + take)
           IN Delivers(l, from, n, out, take, new, p, x)
<1> DEFINE take == Least(Len(Bytes(l, p, x)) - o, n)
           new  == out \o SubSeq(Bytes(l, p, x), o + 1, o + take)
<1>1. Len(Bytes(l, p, x)) = x /\ Len(out) \in Nat
  BY BytesType
<1>2. take \in 1 .. n /\ o + take <= x /\ (take = n \/ take = x - o)
  BY <1>1 DEF Least
<1> HIDE DEF take
<1>3. PICK d \in Nat : d = take /\ d \in 1 .. n /\ o + d <= x /\ (d = n \/ d = x - o)
  BY <1>2
<1>4. PICK k \in Nat : k = Len(out)
  BY <1>1
<1>5. out = Bytes(l, from, k) /\ p + o = from + k
  BY <1>4 DEF OutOK
<1>6. new = Bytes(l, from, k) \o Bytes(l, from + k, d)
  <2>1. IsCut(Bytes(l, p, x), o + 1, o + d, Bytes(l, p + o, d))
    BY <1>3, BytesCut
  <2>2. new = out \o Bytes(l, p + o, d)
    BY <1>3, <2>1, Zenon DEF IsCut
  <2>3. QED
    BY <1>5, <2>2, Zenon
<1> HIDE DEF new
<1>7. PICK e \in Nat : e = k + d
  OBVIOUS
<1>8. new = Bytes(l, from, e)
  <2>1. IsJoin(Bytes(l, from, k), Bytes(l, from + k, d), Bytes(l, from, k + d))
    BY BytesConcat
  <2>2. QED
    BY <1>6, <1>7, <2>1, Zenon DEF IsJoin
<1>9. new \in Seq(Nat) /\ Len(new) = e
  BY <1>8, BytesType
<1>10. new # <<>>
  <2>1. e # 0
    BY <1>3, <1>7
  <2>2. QED
    BY <1>9, <2>1
<1>11. OutOK(l, from, new)
  <2>1. from + e <= l.size
    BY <1>3, <1>5, <1>7, SaneType
  <2>2. QED
    BY <1>8, <1>9, <2>1 DEF OutOK
<1>12. e = Least(n + k, p + x - from)
  BY <1>3, <1>5, <1>7 DEF Least
<1>13. n - d \in Nat /\ (n - d = 0 \/ from + e = p + x)
  BY <1>3, <1>5, <1>7
<1>14. Delivers(l, from, n, out, take, new, p, x)
  BY <1>3, <1>4, <1>7, <1>9, <1>10, <1>11, <1>12, <1>13 DEF Delivers
<1>15. QED
  BY <1>14 DEF take, new

\* The block that was found is copied.
LEMMA CopyKeeps ==
    ASSUME NEW l, Sane(l), NEW from \in Nat, NEW n \in Nat, NEW o \in Nat, NEW b \in Lists,
           NEW out \in Seq(Nat), CopyOK(l, from, n, o, b, out)
    PROVE  LET data == IF b.input_size = 0 THEN HoleData(l, b.pos) ELSE BlockData(l, b.block)
               take == Least(Len(data) - o, n)
               new  == out \o SubSeq(data, o + 1, o + take)
           IN /\ n - take \in 0 .. n /\ new \in Seq(Nat)
              /\ LoopOK(l, from, n - take, 0, b, new)
<1>1. PICK j \in Nat : Found(l, from, o, b, out, j)
  BY DEF CopyOK
<1>2. Sound(l, b) /\ n > 0 /\ OutOK(l, from, out) /\ b.remain <= BlocklistCount(l)
  BY DEF CopyOK, Sound
<1>3. j < BlocklistCount(l) /\ b.pos = j * BlockSize /\ b.input_size = StoredSize(l, j)
      /\ b.block = DataStart(l, j)
  BY <1>1 DEF Found
<1>4. PICK p \in Nat, x \in Nat :
         /\ p = j * BlockSize /\ x = Extent(l, j) /\ p + x <= l.size
         /\ x = BlockSize \/ (p + x = l.size /\ l.size <= (j + 1) * BlockSize)
  BY <1>3, ExtentType
<1>5. from + Len(out) = p + o /\ o < x
  BY <1>1, <1>4 DEF Found
<1> DEFINE data == IF b.input_size = 0 THEN HoleData(l, b.pos) ELSE BlockData(l, b.block)
           take == Least(Len(data) - o, n)
           new  == out \o SubSeq(data, o + 1, o + take)
<1>6. data = Bytes(l, p, x)
  <2>1. CASE j \in l.holes
    <3>1. data = HoleData(l, j * BlockSize)
      BY <1>3, <2>1 DEF StoredSize
    <3>2. HoleData(l, j * BlockSize) = Bytes(l, j * BlockSize, Extent(l, j))
      BY <1>3, <2>1, HoleRight
    <3>3. QED
      BY <1>4, <3>1, <3>2, Zenon
  <2>2. CASE j \notin l.holes
    <3>1. data = BlockData(l, DataStart(l, j))
      BY <1>3, <2>2 DEF StoredSize
    <3>2. BlockData(l, DataStart(l, j)) = Bytes(l, j * BlockSize, Extent(l, j))
      BY <1>3, <2>2, BlockRight
    <3>3. QED
      BY <1>4, <3>1, <3>2, Zenon
  <2>3. QED
    BY <2>1, <2>2
<1> HIDE DEF data
<1>7. Delivers(l, from, n, out, take, new, p, x)
  <2>1. LET t == Least(Len(Bytes(l, p, x)) - o, n)
        IN Delivers(l, from, n, out, t, out \o SubSeq(Bytes(l, p, x), o + 1, o + t), p, x)
    BY <1>2, <1>4, <1>5, Delivered
  <2>2. QED
    BY <1>6, <2>1, Zenon
<1> HIDE DEF take, new
<1>8. Ahead(l, b) = j + 1
  <2>1. j = Ahead(l, b) - 1 /\ Ahead(l, b) \in Nat
    BY <1>1, <1>2, AheadType DEF Found
  <2>2. QED
    BY <2>1
<1>9. (j + 1) * BlockSize = p + BlockSize
  BY <1>4, Sizes
<1>10. \/ n - take = 0
       \/ from + Len(new) = Ahead(l, b) * BlockSize
       \/ from + Len(new) = l.size /\ l.size <= Ahead(l, b) * BlockSize
  BY <1>4, <1>7, <1>8, <1>9 DEF Delivers
<1>11. LoopOK(l, from, n - take, 0, b, new)
  BY <1>2, <1>7, <1>10 DEF LoopOK, Delivers
<1>12. n - take \in 0 .. n
  BY <1>7 DEF Delivers
<1>13. new \in Seq(Nat)
  BY <1>7 DEF Delivers
<1>14. QED
  BY <1>11, <1>12, <1>13 DEF data, take, new

\* What a read that succeeds has copied.
ReadRight(l, from, n, out) ==
    out = Bytes(l, from, Least(n + Len(out), l.size - from))

\* Behind the list the blocks are all read.
LEMMA ListEnd ==
    ASSUME NEW l, Sane(l), NEW from \in Nat, NEW n \in Nat, NEW o \in Nat, NEW b \in Lists,
           NEW out \in Seq(Nat), LoopOK(l, from, n, o, b, out), b.remain = 0, n > 0
    PROVE  IF l.frag
           THEN /\ o < l.size % BlockSize
                /\ from + Len(out) = (l.size - (l.size % BlockSize)) + o
           ELSE out # <<>> /\ from + Len(out) = l.size
<1>1. PICK c \in Nat : c = BlocklistCount(l) /\ Ahead(l, b) = c
  BY AheadType, CountType DEF LoopOK
<1>2. PICK y \in Nat : y = c * BlockSize /\ y = BlockSize * c
  BY Sizes, Product
<1>3. Len(out) \in Nat /\ l.size \in Nat /\ from < l.size /\ from + Len(out) <= l.size
  BY SaneType DEF LoopOK, OutOK
<1>4. ASSUME out = <<>>
      PROVE  l.frag /\ o \in Nat /\ from = y + o /\ Len(out) = 0
  <2>1. o = from % BlockSize /\ c <= from \div BlockSize
    BY <1>1, <1>4 DEF LoopOK
  <2>2. /\ from \div BlockSize \in Nat /\ from \div BlockSize <= c
        /\ ~ l.frag => from \div BlockSize < c
        /\ from = (from \div BlockSize) * BlockSize + (from % BlockSize)
    BY <1>1, <1>3, BlockOf
  <2>3. from \div BlockSize = c /\ l.frag
    BY <2>1, <2>2, SaneType
  <2>4. QED
    BY <1>2, <1>4, <2>1, <2>2, <2>3
<1>5. ASSUME out # <<>>
      PROVE  o = 0 /\ (from + Len(out) = y \/ (from + Len(out) = l.size /\ l.size <= y))
  BY <1>1, <1>2, <1>5 DEF LoopOK
<1>6. CASE l.frag
  <2>1. PICK r \in 0 .. BlockSize - 1 : r = l.size % BlockSize /\ l.size - r = y /\ y < l.size
    <3>1. l.size % BlockSize \in 0 .. BlockSize - 1
      BY Sizes, SaneType, DivMod
    <3>2. l.size - (l.size % BlockSize) = BlocklistCount(l) * BlockSize
          /\ BlocklistCount(l) * BlockSize < l.size
      BY <1>6, CountType
    <3>3. l.size - (l.size % BlockSize) = y /\ y < l.size
      BY <1>1, <1>2, <3>2, Zenon
    <3>4. QED
      BY <3>1, <3>3
  <2>2. o < r /\ from + Len(out) = y + o
    BY <1>3, <1>4, <1>5, <2>1
  <2>3. QED
    BY <1>6, <2>1, <2>2
<1>7. CASE ~ l.frag
  <2>1. l.size <= y
    BY <1>1, <1>2, <1>7, CountType
  <2>2. QED
    BY <1>3, <1>4, <1>5, <1>7, <2>1
<1>8. QED
  BY <1>6, <1>7

\* The fragment is copied.
LEMMA FragmentRight ==
    ASSUME NEW l, Sane(l), NEW from \in Nat, NEW n \in Nat, NEW o \in Nat, NEW b \in Lists,
           NEW out \in Seq(Nat), LoopOK(l, from, n, o, b, out), b.remain = 0, n > 0, l.frag
    PROVE  LET take == Least(Len(FragData(l)) - o, n)
               new  == out \o SubSeq(FragData(l), o + 1, o + take)
           IN /\ n - take \in 0 .. n /\ new \in Seq(Nat)
              /\ ReadRight(l, from, n - take, new)
<1>1. PICK x \in Nat, p \in Nat : x = l.size % BlockSize /\ p = l.size - x
  <2>1. l.size % BlockSize \in 0 .. BlockSize - 1
    BY Sizes, SaneType, DivMod
  <2>2. l.size - (l.size % BlockSize) = BlocklistCount(l) * BlockSize
    BY CountType
  <2>3. BlocklistCount(l) * BlockSize \in Nat
    BY Sizes, CountType, Product
  <2>4. QED
    BY <2>1, <2>2, <2>3
<1>2. o < x /\ from + Len(out) = p + o
  BY <1>1, ListEnd
<1>3. FragData(l) = Bytes(l, p, x)
  BY <1>1, Zenon DEF FragData
<1>4. OutOK(l, from, out) /\ p + x = l.size /\ p + x <= l.size /\ from < l.size
  BY <1>1, SaneType DEF LoopOK, OutOK
<1> DEFINE take == Least(Len(FragData(l)) - o, n)
           new  == out \o SubSeq(FragData(l), o + 1, o + take)
<1>5. Delivers(l, from, n, out, take, new, p, x)
  <2>1. LET t == Least(Len(Bytes(l, p, x)) - o, n)
        IN Delivers(l, from, n, out, t, out \o SubSeq(Bytes(l, p, x), o + 1, o + t), p, x)
    BY <1>2, <1>4, Delivered
  <2>2. QED
    BY <1>3, <2>1, Zenon
<1> HIDE DEF take, new
<1>6. Len(out) \in Nat /\ Len(new) \in Nat
  BY <1>5 DEF Delivers
<1>7. (n - take) + Len(new) = n + Len(out)
  BY <1>5, <1>6 DEF Delivers
<1>8. Len(new) = Least((n - take) + Len(new), l.size - from)
  <2>1. Len(new) = Least(n + Len(out), p + x - from)
    BY <1>5 DEF Delivers
  <2>2. p + x - from = l.size - from
    BY <1>4
  <2>3. Len(new) = Least((n - take) + Len(new), p + x - from)
    BY <1>7, <2>1, Zenon
  <2>4. QED
    BY <2>2, <2>3, Zenon
<1>9. new = Bytes(l, from, Len(new))
  BY <1>5 DEF Delivers, OutOK
<1>10. ReadRight(l, from, n - take, new)
  BY <1>8, <1>9, Zenon DEF ReadRight
<1>11. n - take \in 0 .. n /\ new \in Seq(Nat)
  BY <1>5 DEF Delivers
<1>12. QED
  BY <1>10, <1>11 DEF take, new

\* The loop ends where there is no more to copy, and something was copied.
LEMMA EndRight ==
    ASSUME NEW l, Sane(l), NEW from \in Nat, NEW n \in Nat, NEW o \in Nat, NEW b \in Lists,
           NEW out \in Seq(Nat), LoopOK(l, from, n, o, b, out),
           n = 0 \/ (b.remain = 0 /\ ~ l.frag)
    PROVE  out # <<>> /\ ReadRight(l, from, n, out)
<1>1. Len(out) \in Nat /\ from + Len(out) <= l.size /\ out = Bytes(l, from, Len(out))
  BY DEF LoopOK, OutOK
<1>2. out # <<>> /\ (n = 0 \/ from + Len(out) = l.size)
  <2>1. CASE n = 0
    BY <2>1 DEF LoopOK
  <2>2. CASE n # 0
    BY <2>2, ListEnd
  <2>3. QED
    BY <2>1, <2>2
<1>3. Len(out) = Least(n + Len(out), l.size - from)
  BY <1>1, <1>2, SaneType DEF Least
<1>4. QED
  BY <1>1, <1>2, <1>3, Zenon DEF ReadRight

-----------------------------------------------------------------------------
(***************************************************************************)
(* The inductive invariant.                                                *)
(***************************************************************************)
\* A read at step p, with the values of its variables.
ReadOK(p, img, f, from, n, o, b, idx, out, fl) ==
    LET l == img[f]
    IN /\ p # "idle" => f \in DOMAIN img
       /\ p \in {"idle", "start", "get", "look", "build", "seek"} => out = <<>>
       /\ p \in {"start", "get", "look", "build", "seek"} => n > 0
       /\ p # "build" => idx = <<>>
       /\ p \in {"get", "look", "build", "seek"} =>
            /\ from < l.size /\ o = from % BlockSize
            /\ Indexable(l) /\ Metablock(l, from) # 0
       /\ p = "build" => Sound(l, b) /\ IndexTrue(l, idx) /\ Len(idx) = Filled(l, Ahead(l, b))
       /\ p = "loop"  => LoopOK(l, from, n, o, b, out)
       /\ p = "copy"  => CopyOK(l, from, n, o, b, out)
       /\ p = "done"  => ReadRight(l, from, n, out)
       /\ p = "error" => fl \/ from > l.size

ThreadOK(t) ==
    ReadOK(pc[t], image, file[t], start[t], size[t], readOff[t], bl[t], build[t], buf[t], failed[t])

\* The slot of an index has the whole index of a file that may have one.
SlotsOK ==
    \A s \in Slots : key[s] # NoFile =>
        key[s] \in DOMAIN image /\ IndexWhole(image[key[s]], index[s])

IInv ==
    /\ TypeOK
    /\ \A t \in Threads : ThreadOK(t)
    /\ SlotsOK
    /\ IndexOwned

\* The values that the variables of a thread have.
LEMMA Values ==
    ASSUME TypeOK, NEW t \in Threads
    PROVE  /\ pc[t] \in Steps /\ file[t] \in Files \cup {NoFile}
           /\ start[t] \in Nat /\ size[t] \in Nat /\ size[t] \in 0 .. Load[image].size
           /\ readOff[t] \in Nat /\ readOff[t] \in 0 .. BlockSize - 1 /\ bl[t] \in Lists
           /\ build[t] \in Indexes /\ buf[t] \in Seq(Nat) /\ failed[t] \in BOOLEAN
  BY DEF TypeOK

LEMMA LayoutSane ==
    ASSUME TypeOK, NEW f \in DOMAIN image
    PROVE  f \in Files /\ f # NoFile /\ SlotOf[f] \in Slots /\ Sane(image[f])
  BY ImageAssumption, ReadAssumption DEF TypeOK, Sane

\* A step of one thread leaves the variables of the others alone.
Apart(t) ==
    /\ image' = image
    /\ \A u \in Threads \ {t} :
         /\ pc'[u] = pc[u] /\ file'[u] = file[u] /\ start'[u] = start[u]
         /\ size'[u] = size[u] /\ readOff'[u] = readOff[u] /\ bl'[u] = bl[u]
         /\ build'[u] = build[u] /\ buf'[u] = buf[u] /\ failed'[u] = failed[u]

LEMMA StepApart ==
    ASSUME TypeOK, NEW t \in Threads, Read(t) \/ IndexLock(t) \/ Running(t)
    PROVE  Apart(t)
<1>1. CASE Read(t)
  BY <1>1 DEF Read, Apart, TypeOK, Goto, cacheVars
<1>2. CASE IndexLock(t)
  BY <1>2 DEF IndexLock, Apart, TypeOK, Goto, cacheVars
<1>3. CASE ReadOutside(t)
  BY <1>3 DEF ReadOutside, Apart, TypeOK, Goto, cacheVars
<1>4. CASE Blocklist(t)
  BY <1>4 DEF Blocklist, Apart, TypeOK, Goto, cacheVars
<1>5. CASE IndexHit(t)
  BY <1>5 DEF IndexHit, Apart, TypeOK, Goto, cacheVars
<1>6. CASE IndexMiss(t)
  BY <1>6 DEF IndexMiss, Apart, TypeOK, Goto, cacheVars
<1>7. CASE IndexStep(t)
  BY <1>7 DEF IndexStep, Apart, TypeOK, Goto, cacheVars
<1>8. CASE IndexDone(t)
  BY <1>8 DEF IndexDone, Apart, TypeOK, Goto, cacheVars
<1>9. CASE IndexFail(t)
  BY <1>9 DEF IndexFail, Apart, TypeOK, Goto, cacheVars
<1>10. CASE IndexSeek(t)
  BY <1>10 DEF IndexSeek, Apart, TypeOK, Goto, cacheVars
<1>11. CASE ListSkip(t)
  BY <1>11 DEF ListSkip, Apart, TypeOK, Goto, cacheVars
<1>12. CASE ListFind(t)
  BY <1>12 DEF ListFind, Apart, TypeOK, Goto, cacheVars
<1>13. CASE Copy(t)
  BY <1>13 DEF Copy, Apart, TypeOK, Goto, cacheVars, Deliver
<1>14. CASE CopyFragment(t)
  BY <1>14 DEF CopyFragment, Apart, TypeOK, Goto, cacheVars, Deliver
<1>15. CASE LoopEnd(t)
  BY <1>15 DEF LoopEnd, Apart, TypeOK, Goto, cacheVars
<1>16. CASE LoopFail(t)
  BY <1>16 DEF LoopFail, Apart, TypeOK, Goto, cacheVars
<1>17. CASE Reply(t)
  BY <1>17 DEF Reply, Apart, TypeOK, Goto, cacheVars, Forget
<1>18. QED
  BY <1>1, <1>2, <1>3, <1>4, <1>5, <1>6, <1>7, <1>8, <1>9, <1>10, <1>11, <1>12, <1>13, <1>14, <1>15, <1>16, <1>17 DEF Running

LEMMA OthersKeep ==
    ASSUME NEW t \in Threads, \A u \in Threads : ThreadOK(u), Apart(t), ThreadOK(t)'
    PROVE  \A u \in Threads : ThreadOK(u)'
  BY DEF Apart, ThreadOK

\* What the slots have does not change with a step that leaves them alone.
LEMMA SlotsKeep ==
    ASSUME TypeOK, SlotsOK, IndexOwned, NEW t \in Threads, Apart(t), UNCHANGED cacheVars,
           \/ pc'[t] \notin {"look", "build", "seek"}
           \/ pc'[t] = pc[t] /\ file'[t] = file[t]
    PROVE  SlotsOK' /\ IndexOwned'
<1>1. image' = image /\ lock' = lock /\ key' = key /\ index' = index
  BY DEF Apart, cacheVars
<1>2. SlotsOK'
  BY <1>1 DEF SlotsOK
<1>3. IndexOwned'
  BY <1>1 DEF IndexOwned, Apart, Slot
<1>4. QED
  BY <1>2, <1>3

Kept(t) == TypeOK' /\ ThreadOK(t)' /\ SlotsOK' /\ IndexOwned'

\* What the invariant says of a thread that reads.
LEMMA Reading ==
    ASSUME IInv, NEW t \in Threads, pc[t] # "idle"
    PROVE  /\ file[t] \in DOMAIN image /\ file[t] \in Files /\ file[t] # NoFile
           /\ Slot(t) \in Slots /\ Sane(Layout(t))
<1>1. file[t] \in DOMAIN image
  BY DEF IInv, ThreadOK, ReadOK
<1>2. QED
  BY <1>1, LayoutSane DEF IInv, Slot, Layout

LEMMA ReadKeeps ==
    ASSUME IInv, NEW t \in Threads, Read(t)
    PROVE  Kept(t)
<1>1. TypeOK /\ Apart(t) /\ ThreadOK(t) /\ SlotsOK /\ IndexOwned
  BY StepApart DEF IInv
<1>2. PICK f \in DOMAIN image : file' = [file EXCEPT ![t] = f]
  BY DEF Read
<1>3. f \in Files
  BY <1>1, <1>2, LayoutSane
<1>4. TypeOK'
  BY <1>1, <1>2, <1>3 DEF Read, TypeOK, Goto, cacheVars, Steps
<1>5. pc[t] = "idle" /\ pc'[t] = "start" /\ UNCHANGED cacheVars
  BY <1>1 DEF Read, TypeOK, Goto
<1>6. ThreadOK(t)'
  <2>1. buf'[t] = <<>> /\ build'[t] = <<>>
    BY <1>1, <1>5 DEF Read, ThreadOK, ReadOK
  <2>2. size'[t] > 0 /\ file'[t] \in DOMAIN image'
    BY <1>1, <1>2 DEF Read, TypeOK
  <2>3. QED
    BY <1>5, <2>1, <2>2 DEF ThreadOK, ReadOK
<1>7. QED
  BY <1>1, <1>4, <1>5, <1>6, SlotsKeep DEF Kept

LEMMA ReadOutsideKeeps ==
    ASSUME IInv, NEW t \in Threads, ReadOutside(t)
    PROVE  Kept(t)
<1>1. TypeOK /\ Apart(t) /\ ThreadOK(t) /\ SlotsOK /\ IndexOwned
  BY StepApart DEF IInv, Running
<1>2. TypeOK'
  BY <1>1 DEF ReadOutside, TypeOK, Goto, cacheVars, Steps
<1>3. /\ pc[t] = "start" /\ UNCHANGED cacheVars
      /\ pc'[t] = IF start[t] = Layout(t).size THEN "done" ELSE "error"
  BY <1>1 DEF ReadOutside, TypeOK, Goto
<1>4. file[t] \in DOMAIN image /\ Sane(Layout(t))
  BY <1>3, Reading
<1>5. /\ image' = image /\ file'[t] = file[t] /\ start'[t] = start[t] /\ size'[t] = size[t]
      /\ buf'[t] = <<>> /\ build'[t] = <<>> /\ buf[t] = <<>>
  BY <1>1, <1>3 DEF ReadOutside, ThreadOK, ReadOK
<1>6. PICK l : l = Layout(t)
  OBVIOUS
<1>7. l.size \in Nat /\ start[t] \in Nat /\ size[t] \in Nat /\ start[t] >= l.size
  BY <1>1, <1>4, <1>6, SaneType, Values DEF ReadOutside
<1>8. start[t] = l.size => ReadRight(l, start[t], size[t], <<>>)
  <2>1. SUFFICES ASSUME start[t] = l.size PROVE ReadRight(l, l.size, size[t], <<>>)
    BY Zenon
  <2>2. Least(size[t] + Len(<<>>), l.size - l.size) = 0
    BY <1>7 DEF Least
  <2>3. Bytes(l, l.size, 0) = <<>>
    BY <1>7, BytesType, EmptySeq
  <2>4. QED
    BY <2>2, <2>3, Zenon DEF ReadRight
<1>9. ThreadOK(t)'
  BY <1>3, <1>4, <1>5, <1>6, <1>7, <1>8 DEF ThreadOK, ReadOK, Layout
<1>10. QED
  BY <1>1, <1>2, <1>3, <1>9, SlotsKeep DEF Kept

LEMMA BlocklistKeeps ==
    ASSUME IInv, NEW t \in Threads, Blocklist(t)
    PROVE  Kept(t)
<1>1. TypeOK /\ Apart(t) /\ ThreadOK(t) /\ SlotsOK /\ IndexOwned
  BY StepApart DEF IInv, Running
<1>2. PICK l : l = Layout(t)
  OBVIOUS
<1>3. pc[t] = "start" /\ UNCHANGED cacheVars /\ start[t] < l.size
  BY <1>2 DEF Blocklist
<1>4. file[t] \in DOMAIN image /\ Sane(l)
  BY <1>2, <1>3, Reading
<1>5. start[t] \in Nat /\ size[t] \in Nat /\ size[t] > 0 /\ buf[t] = <<>> /\ build[t] = <<>>
  BY <1>1, <1>3, Values DEF ThreadOK, ReadOK
<1>6. PICK b : b = BlocklistInit(l)
  OBVIOUS
<1>7. Sound(l, b) /\ Ahead(l, b) = 0 /\ b \in Lists /\ b.remain = BlocklistCount(l)
  BY <1>4, <1>6, InitSound DEF Sound, BlocklistInit
<1>8. /\ start[t] \div BlockSize \in Nat /\ ~ (start[t] \div BlockSize > b.remain)
      /\ start[t] % BlockSize \in 0 .. BlockSize - 1
  BY <1>3, <1>4, <1>5, <1>7, BlockOf, CountType
<1>9. /\ bl' = [bl EXCEPT ![t] = b]
      /\ readOff' = [readOff EXCEPT ![t] = start[t] % BlockSize]
      /\ Goto(t, IF Metablock(l, start[t]) = 0 \/ ~Indexable(l) THEN "loop" ELSE "get")
  BY <1>2, <1>6, <1>8 DEF Blocklist
<1>10. TypeOK'
  BY <1>1, <1>7, <1>8, <1>9 DEF Blocklist, TypeOK, Goto, cacheVars, Steps
<1>11. /\ pc'[t] = IF Metablock(l, start[t]) = 0 \/ ~Indexable(l) THEN "loop" ELSE "get"
       /\ bl'[t] = b /\ readOff'[t] = start[t] % BlockSize
  BY <1>1, <1>9 DEF TypeOK, Goto
<1>12. LoopOK(l, start[t], size[t], start[t] % BlockSize, b, <<>>)
  <2>1. OutOK(l, start[t], <<>>)
    BY <1>3, <1>4, <1>5, OutStart
  <2>2. QED
    BY <1>5, <1>6, <1>7, <1>8, <2>1 DEF LoopOK, Sound
<1>13. /\ image' = image /\ file'[t] = file[t] /\ start'[t] = start[t] /\ size'[t] = size[t]
       /\ buf'[t] = <<>> /\ build'[t] = <<>>
  BY <1>5 DEF Blocklist
<1>14. ThreadOK(t)'
  BY <1>2, <1>3, <1>4, <1>5, <1>11, <1>12, <1>13 DEF ThreadOK, ReadOK, Layout
<1>15. QED
  BY <1>1, <1>3, <1>10, <1>11, <1>14, SlotsKeep DEF Kept

\* What the invariant says of a thread between sqfs_cache_get and the seek.
LEMMA Indexing ==
    ASSUME IInv, NEW t \in Threads, pc[t] \in {"get", "look", "build", "seek"}
    PROVE  LET l == Layout(t)
           IN /\ start[t] < l.size /\ readOff[t] = start[t] % BlockSize
              /\ Indexable(l) /\ Metablock(l, start[t]) # 0
              /\ size[t] > 0 /\ buf[t] = <<>>
              /\ pc[t] # "get" => lock[Slot(t)] = t
  BY DEF IInv, ThreadOK, ReadOK, Layout, IndexOwned

LEMMA IndexLockKeeps ==
    ASSUME IInv, NEW t \in Threads, IndexLock(t)
    PROVE  Kept(t)
<1>1. TypeOK /\ Apart(t) /\ ThreadOK(t) /\ SlotsOK /\ IndexOwned
  BY StepApart DEF IInv
<1>2. pc[t] = "get" /\ Slot(t) \in Slots
  BY Reading DEF IndexLock
<1>3. TypeOK'
  BY <1>1, <1>2 DEF IndexLock, TypeOK, Goto, Steps
<1>4. pc'[t] = "look" /\ image' = image /\ file' = file /\ key' = key /\ index' = index
  BY <1>1 DEF IndexLock, TypeOK, Goto
<1>5. ThreadOK(t)'
  BY <1>1, <1>2, <1>4 DEF IndexLock, ThreadOK, ReadOK
<1>6. SlotsOK'
  BY <1>1, <1>4 DEF SlotsOK
<1>7. IndexOwned'
  <2>1. lock' = [lock EXCEPT ![Slot(t)] = t] /\ lock[Slot(t)] = NoThread /\ Slot(t)' = Slot(t)
    BY <1>4 DEF IndexLock, Slot
  <2>2. lock'[Slot(t)'] = t
    BY <1>1, <1>2, <2>1 DEF TypeOK
  <2>3. ASSUME NEW u \in Threads \ {t}, pc'[u] \in {"look", "build", "seek"}
        PROVE  lock'[Slot(u)'] = u /\ (pc'[u] = "seek" => key'[Slot(u)'] = file'[u])
    <3>1. pc[u] = pc'[u] /\ Slot(u)' = Slot(u)
      BY <1>1, <1>4 DEF Apart, Slot
    <3>2. lock[Slot(u)] = u /\ (pc[u] = "seek" => key[Slot(u)] = file[u])
      BY <1>1, <2>3, <3>1 DEF IndexOwned
    <3>3. Slot(u) # Slot(t) /\ Slot(u) \in Slots
      BY <2>1, <2>3, <3>1, <3>2, Reading, ReadAssumption
    <3>4. QED
      BY <1>1, <1>4, <2>1, <3>1, <3>2, <3>3 DEF TypeOK
  <2>4. QED
    BY <1>4, <2>2, <2>3 DEF IndexOwned
<1>8. QED
  BY <1>3, <1>5, <1>6, <1>7 DEF Kept

LEMMA IndexHitKeeps ==
    ASSUME IInv, NEW t \in Threads, IndexHit(t)
    PROVE  Kept(t)
<1>1. TypeOK /\ Apart(t) /\ ThreadOK(t) /\ SlotsOK /\ IndexOwned
  BY StepApart DEF IInv, Running
<1>2. TypeOK'
  BY <1>1 DEF IndexHit, TypeOK, Goto, cacheVars, Steps
<1>3. /\ pc[t] = "look" /\ pc'[t] = "seek" /\ key[Slot(t)] = file[t]
      /\ image' = image /\ file' = file /\ lock' = lock /\ key' = key /\ index' = index
  BY <1>1 DEF IndexHit, TypeOK, Goto, cacheVars
<1>4. ThreadOK(t)'
  BY <1>1, <1>3 DEF IndexHit, ThreadOK, ReadOK
<1>5. SlotsOK'
  BY <1>1, <1>3 DEF SlotsOK
<1>6. IndexOwned'
  BY <1>1, <1>3 DEF IndexOwned, Apart, Slot
<1>7. QED
  BY <1>2, <1>4, <1>5, <1>6 DEF Kept

\* A thread that owns a slot may change it: the other owners have others.
LEMMA OwnerAlone ==
    ASSUME IInv, NEW t \in Threads, pc[t] \in {"look", "build", "seek"}, Apart(t),
           NEW u \in Threads \ {t}, pc'[u] \in {"look", "build", "seek"}
    PROVE  /\ Slot(u)' = Slot(u) /\ Slot(u) \in Slots /\ Slot(u) # Slot(t)
           /\ lock[Slot(u)] = u /\ (pc'[u] = "seek" => key[Slot(u)] = file'[u])
<1>1. pc'[u] = pc[u] /\ Slot(u)' = Slot(u) /\ file'[u] = file[u]
  BY DEF Apart, Slot
<1>2. lock[Slot(u)] = u /\ lock[Slot(t)] = t /\ (pc[u] = "seek" => key[Slot(u)] = file[u])
  BY <1>1 DEF IInv, IndexOwned
<1>3. QED
  BY <1>1, <1>2, Reading

LEMMA IndexMissKeeps ==
    ASSUME IInv, NEW t \in Threads, IndexMiss(t)
    PROVE  Kept(t)
<1>1. TypeOK /\ Apart(t) /\ ThreadOK(t) /\ SlotsOK /\ IndexOwned
  BY StepApart DEF IInv, Running
<1>2. pc[t] = "look" /\ Slot(t) \in Slots /\ Sane(Layout(t))
  BY Reading DEF IndexMiss
<1>3. /\ pc'[t] = "build" /\ image' = image /\ file' = file /\ lock' = lock
      /\ key' = [key EXCEPT ![Slot(t)] = NoFile]
      /\ index' = [index EXCEPT ![Slot(t)] = <<>>]
      /\ bl' = [bl EXCEPT ![t] = BlocklistInit(Layout(t))]
  BY <1>1 DEF IndexMiss, TypeOK, Goto
<1>4. PICK b : b = BlocklistInit(Layout(t))
  OBVIOUS
<1>5. Sound(Layout(t), b) /\ Ahead(Layout(t), b) = 0 /\ b \in Lists
  BY <1>2, <1>4, InitSound DEF Sound
<1>6. <<>> \in Indexes
  BY DEF Indexes
<1>7. TypeOK'
  BY <1>1, <1>2, <1>3, <1>4, <1>5, <1>6 DEF IndexMiss, TypeOK, Goto, Steps
<1>8. ThreadOK(t)'
  <2>1. build'[t] = <<>> /\ bl'[t] = b
    BY <1>1, <1>2, <1>3, <1>4 DEF IndexMiss, ThreadOK, ReadOK, TypeOK
  <2>2. IndexTrue(Layout(t), <<>>) /\ Len(<<>>) = Filled(Layout(t), 0)
    BY <1>6 DEF IndexTrue, Filled
  <2>3. QED
    BY <1>1, <1>2, <1>3, <1>5, <2>1, <2>2 DEF IndexMiss, ThreadOK, ReadOK, Layout
<1>9. SlotsOK'
  <2>1. \A s \in Slots : key'[s] # NoFile => key'[s] = key[s] /\ index'[s] = index[s]
    BY <1>1, <1>3 DEF TypeOK
  <2>2. QED
    BY <1>1, <1>3, <2>1 DEF SlotsOK
<1>10. IndexOwned'
  <2>1. lock'[Slot(t)'] = t
    BY <1>1, <1>2, <1>3 DEF IndexOwned, Slot
  <2>2. ASSUME NEW u \in Threads \ {t}, pc'[u] \in {"look", "build", "seek"}
        PROVE  lock'[Slot(u)'] = u /\ (pc'[u] = "seek" => key'[Slot(u)'] = file'[u])
    BY <1>1, <1>2, <1>3, <2>2, OwnerAlone DEF TypeOK
  <2>3. QED
    BY <1>3, <2>1, <2>2 DEF IndexOwned
<1>11. QED
  BY <1>7, <1>8, <1>9, <1>10 DEF Kept

LEMMA IndexStepKeeps ==
    ASSUME IInv, NEW t \in Threads, IndexStep(t)
    PROVE  Kept(t)
<1>1. TypeOK /\ Apart(t) /\ ThreadOK(t) /\ SlotsOK /\ IndexOwned
  BY StepApart DEF IInv, Running
<1>2. PICK l, b : l = Layout(t) /\ b = bl[t]
  OBVIOUS
<1>3. pc[t] = "build" /\ UNCHANGED cacheVars /\ b.remain > 0 /\ pc' = pc /\ file' = file
  BY <1>2 DEF IndexStep, Building
<1>4. Sane(l) /\ Sound(l, b) /\ IndexTrue(l, build[t]) /\ Len(build[t]) = Filled(l, Ahead(l, b))
  BY <1>1, <1>2, <1>3, Reading DEF ThreadOK, ReadOK, Layout
<1>5. PICK c : c = BlocklistNext(l, b)
  OBVIOUS
<1>6. PICK new : new = IF NewMdBlock(l, b) THEN Append(build[t], IndexEntry(b)) ELSE build[t]
  OBVIOUS
<1>7. IndexTrue(l, new) /\ Len(new) = Filled(l, Ahead(l, c)) /\ Sound(l, c)
  <2>1. IndexTrue(l, new) /\ Len(new) = Filled(l, Ahead(l, b) + 1)
    BY <1>3, <1>4, <1>6, BuildStep
  <2>2. Sound(l, c) /\ Ahead(l, c) = Ahead(l, b) + 1
    BY <1>3, <1>4, <1>5, NextSound
  <2>3. QED
    BY <2>1, <2>2
<1>8. c \in Lists /\ new \in Indexes
  BY <1>7 DEF Sound, IndexTrue
<1>9. bl' = [bl EXCEPT ![t] = c] /\ build' = [build EXCEPT ![t] = new]
  BY <1>1, <1>2, <1>5, <1>6 DEF IndexStep, TypeOK
<1>10. TypeOK'
  BY <1>1, <1>8, <1>9 DEF IndexStep, TypeOK, cacheVars
<1>11. ThreadOK(t)'
  <2>1. bl'[t] = c /\ build'[t] = new
    BY <1>1, <1>9 DEF TypeOK
  <2>2. QED
    BY <1>1, <1>2, <1>3, <1>7, <2>1 DEF IndexStep, ThreadOK, ReadOK, Layout
<1>12. QED
  BY <1>1, <1>3, <1>10, <1>11, SlotsKeep DEF Kept

LEMMA IndexDoneKeeps ==
    ASSUME IInv, NEW t \in Threads, IndexDone(t)
    PROVE  Kept(t)
<1>1. TypeOK /\ Apart(t) /\ ThreadOK(t) /\ SlotsOK /\ IndexOwned
  BY StepApart DEF IInv, Running
<1>2. /\ pc[t] = "build" /\ Slot(t) \in Slots /\ file[t] \in Files
      /\ file[t] \in DOMAIN image /\ file[t] # NoFile
  BY Reading DEF IndexDone
<1>3. /\ pc'[t] = "seek" /\ image' = image /\ file' = file /\ lock' = lock
      /\ key' = [key EXCEPT ![Slot(t)] = file[t]]
      /\ index' = [index EXCEPT ![Slot(t)] = build[t]]
      /\ build' = [build EXCEPT ![t] = <<>>]
  BY <1>1 DEF IndexDone, TypeOK, Goto
<1>4. <<>> \in Indexes /\ build[t] \in Indexes
  BY <1>1, Values DEF Indexes
<1>5. TypeOK'
  BY <1>1, <1>2, <1>3, <1>4 DEF IndexDone, TypeOK, Goto, Steps
<1>6. ThreadOK(t)'
  <2>1. build'[t] = <<>>
    BY <1>1, <1>3 DEF TypeOK
  <2>2. QED
    BY <1>1, <1>2, <1>3, <2>1 DEF IndexDone, ThreadOK, ReadOK, Layout
<1>7. IndexWhole(Layout(t), build[t])
  <2>1. PICK l, b : l = Layout(t) /\ b = bl[t]
    OBVIOUS
  <2>2. /\ Sane(l) /\ Indexable(l) /\ Sound(l, b) /\ IndexTrue(l, build[t])
        /\ Len(build[t]) = Filled(l, Ahead(l, b)) /\ Len(build[t]) \in Nat
    BY <1>1, <1>2, <1>4, <2>1, Reading DEF ThreadOK, ReadOK, Layout, Indexes
  <2>3. b.remain = 0 \/ ~ (Len(build[t]) < IndexCount(l))
    <3>1. ~ (b.remain > 0 /\ Len(build[t]) < IndexCount(l))
      BY <2>1 DEF IndexDone, Building
    <3>2. b.remain \in Nat
      BY <2>2 DEF Sound, Lists
    <3>3. QED
      BY <3>1, <3>2
  <2>4. Len(build[t]) >= Filled(l, BlocklistCount(l))
    BY <2>2, <2>3, BuildEnd
  <2>5. QED
    BY <2>1, <2>2, <2>4 DEF IndexWhole
<1>8. SlotsOK'
  <2>1. SUFFICES ASSUME NEW s \in Slots, key'[s] # NoFile
                 PROVE  key'[s] \in DOMAIN image' /\ IndexWhole(image'[key'[s]], index'[s])
    BY DEF SlotsOK
  <2>2. CASE s = Slot(t)
    BY <1>1, <1>2, <1>3, <1>7, <2>2 DEF TypeOK, Layout
  <2>3. CASE s # Slot(t)
    <3>1. key'[s] = key[s] /\ index'[s] = index[s]
      BY <1>1, <1>3, <2>3 DEF TypeOK
    <3>2. QED
      BY <1>1, <1>3, <2>1, <3>1 DEF SlotsOK
  <2>4. QED
    BY <2>2, <2>3
<1>9. IndexOwned'
  <2>1. lock'[Slot(t)'] = t /\ key'[Slot(t)'] = file'[t]
    BY <1>1, <1>2, <1>3 DEF IndexOwned, Slot, TypeOK
  <2>2. ASSUME NEW u \in Threads \ {t}, pc'[u] \in {"look", "build", "seek"}
        PROVE  lock'[Slot(u)'] = u /\ (pc'[u] = "seek" => key'[Slot(u)'] = file'[u])
    BY <1>1, <1>2, <1>3, <2>2, OwnerAlone DEF TypeOK
  <2>3. QED
    BY <1>3, <2>1, <2>2 DEF IndexOwned
<1>10. QED
  BY <1>5, <1>6, <1>8, <1>9 DEF Kept

\* A thread that is done with a slot unlocks it.
LEMMA Unlocked ==
    ASSUME IInv, NEW t \in Threads, pc[t] \in {"look", "build", "seek"}, Apart(t),
           lock' = [lock EXCEPT ![Slot(t)] = NoThread], key' = key, index' = index,
           pc'[t] \notin {"look", "build", "seek"}
    PROVE  SlotsOK' /\ IndexOwned'
<1>1. TypeOK /\ SlotsOK /\ image' = image
  BY DEF IInv, Apart
<1>2. SlotsOK'
  BY <1>1 DEF SlotsOK
<1>3. ASSUME NEW u \in Threads \ {t}, pc'[u] \in {"look", "build", "seek"}
      PROVE  lock'[Slot(u)'] = u /\ (pc'[u] = "seek" => key'[Slot(u)'] = file'[u])
  BY <1>1, <1>3, OwnerAlone DEF TypeOK
<1>4. IndexOwned'
  BY <1>3 DEF IndexOwned
<1>5. QED
  BY <1>2, <1>4

LEMMA IndexFailKeeps ==
    ASSUME IInv, NEW t \in Threads, IndexFail(t)
    PROVE  Kept(t)
<1>1. TypeOK /\ Apart(t) /\ ThreadOK(t)
  BY StepApart DEF IInv, Running
<1>2. pc[t] = "build" /\ Slot(t) \in Slots /\ file[t] \in DOMAIN image
  BY Reading DEF IndexFail
<1>3. /\ pc'[t] = "error" /\ image' = image /\ file' = file /\ build'[t] = <<>>
      /\ failed'[t] = TRUE
  BY <1>1 DEF IndexFail, TypeOK, Goto
<1>4. TypeOK'
  <2>1. <<>> \in Indexes
    BY DEF Indexes
  <2>2. QED
    BY <1>1, <1>2, <2>1 DEF IndexFail, TypeOK, Goto, Steps
<1>5. ThreadOK(t)'
  BY <1>2, <1>3 DEF ThreadOK, ReadOK
<1>6. SlotsOK' /\ IndexOwned'
  BY <1>1, <1>2, <1>3, Unlocked DEF IndexFail
<1>7. QED
  BY <1>4, <1>5, <1>6 DEF Kept

LEMMA IndexSeekKeeps ==
    ASSUME IInv, NEW t \in Threads, IndexSeek(t)
    PROVE  Kept(t)
<1>1. TypeOK /\ Apart(t) /\ ThreadOK(t) /\ SlotsOK /\ IndexOwned
  BY StepApart DEF IInv, Running
<1>2. /\ pc[t] = "seek" /\ Slot(t) \in Slots /\ file[t] \in DOMAIN image
      /\ file[t] # NoFile /\ Sane(Layout(t))
  BY Reading DEF IndexSeek
<1>3. PICK l, idx, m : l = Layout(t) /\ idx = index[Slot(t)] /\ m = Metablock(l, start[t])
  OBVIOUS
<1>4. PICK b : b = Seek(l, EntryOf(idx, m), m)
  OBVIOUS
<1>5. /\ start[t] \in Nat /\ start[t] < l.size /\ readOff[t] = start[t] % BlockSize
      /\ m # 0 /\ size[t] \in Nat /\ size[t] > 0 /\ buf[t] = <<>>
  BY <1>1, <1>2, <1>3, Indexing, Values
<1>6. IndexWhole(l, idx)
  <2>1. key[Slot(t)] = file[t]
    BY <1>1, <1>2 DEF IndexOwned
  <2>2. QED
    BY <1>1, <1>2, <1>3, <2>1 DEF SlotsOK, Layout
<1>7. /\ b \in Lists /\ b.remain <= BlocklistCount(l) /\ (b.remain > 0 => Sound(l, b))
      /\ Ahead(l, b) <= start[t] \div BlockSize
  BY <1>2, <1>3, <1>4, <1>5, <1>6, SeekSound
<1>8. bl' = [bl EXCEPT ![t] = b]
  BY <1>3, <1>4 DEF IndexSeek
<1>9. TypeOK'
  BY <1>1, <1>2, <1>7, <1>8 DEF IndexSeek, TypeOK, Goto, Steps
<1>10. OutOK(l, start[t], <<>>)
  BY <1>2, <1>3, <1>5, OutStart
<1>11. LoopOK(l, start[t], size[t], readOff[t], b, <<>>)
  BY <1>5, <1>7, <1>10 DEF LoopOK
<1>12. /\ pc'[t] = "loop" /\ image' = image /\ file' = file /\ bl'[t] = b
       /\ build'[t] = <<>> /\ buf'[t] = <<>>
       /\ start' = start /\ size' = size /\ readOff' = readOff
  BY <1>1, <1>2, <1>5, <1>8 DEF IndexSeek, TypeOK, Goto, ThreadOK, ReadOK
<1>13. ThreadOK(t)'
  BY <1>2, <1>3, <1>11, <1>12 DEF ThreadOK, ReadOK, Layout
<1>14. SlotsOK' /\ IndexOwned'
  BY <1>1, <1>2, <1>12, Unlocked DEF IndexSeek
<1>15. QED
  BY <1>9, <1>13, <1>14 DEF Kept

LEMMA ListSkipKeeps ==
    ASSUME IInv, NEW t \in Threads, ListSkip(t)
    PROVE  Kept(t)
<1>1. TypeOK /\ Apart(t) /\ ThreadOK(t) /\ SlotsOK /\ IndexOwned
  BY StepApart DEF IInv, Running
<1>2. pc[t] = "loop" /\ file[t] \in DOMAIN image /\ Sane(Layout(t)) /\ UNCHANGED cacheVars
  BY Reading DEF ListSkip
<1>3. PICK l, b : l = Layout(t) /\ b = bl[t]
  OBVIOUS
<1>4. PICK c : c = BlocklistNext(l, b)
  OBVIOUS
<1>5. size[t] > 0 /\ b.remain > 0 /\ c.pos + BlockSize <= start[t]
  BY <1>3, <1>4 DEF ListSkip
<1>6. LoopOK(l, start[t], size[t], readOff[t], b, buf[t]) /\ build[t] = <<>>
  BY <1>1, <1>2, <1>3 DEF ThreadOK, ReadOK, Layout
<1>7. c \in Lists /\ LoopOK(l, start[t], size[t], readOff[t], c, buf[t])
  BY <1>1, <1>2, <1>3, <1>4, <1>5, <1>6, Values, SkipKeeps
<1>8. bl' = [bl EXCEPT ![t] = c]
  BY <1>3, <1>4 DEF ListSkip
<1>9. TypeOK'
  BY <1>1, <1>7, <1>8 DEF ListSkip, TypeOK, cacheVars
<1>10. /\ pc'[t] = "loop" /\ image' = image /\ file' = file /\ bl'[t] = c
       /\ build' = build /\ buf' = buf /\ start' = start /\ size' = size /\ readOff' = readOff
  BY <1>1, <1>2, <1>8 DEF ListSkip, TypeOK
<1>11. ThreadOK(t)'
  BY <1>2, <1>3, <1>6, <1>7, <1>10 DEF ThreadOK, ReadOK, Layout
<1>12. QED
  BY <1>1, <1>2, <1>9, <1>10, <1>11, SlotsKeep DEF Kept

LEMMA ListFindKeeps ==
    ASSUME IInv, NEW t \in Threads, ListFind(t)
    PROVE  Kept(t)
<1>1. TypeOK /\ Apart(t) /\ ThreadOK(t) /\ SlotsOK /\ IndexOwned
  BY StepApart DEF IInv, Running
<1>2. pc[t] = "loop" /\ file[t] \in DOMAIN image /\ Sane(Layout(t)) /\ UNCHANGED cacheVars
  BY Reading DEF ListFind
<1>3. PICK l, b : l = Layout(t) /\ b = bl[t]
  OBVIOUS
<1>4. PICK c : c = BlocklistNext(l, b)
  OBVIOUS
<1>5. size[t] > 0 /\ b.remain > 0 /\ c.pos + BlockSize > start[t]
  BY <1>3, <1>4 DEF ListFind
<1>6. LoopOK(l, start[t], size[t], readOff[t], b, buf[t]) /\ build[t] = <<>>
  BY <1>1, <1>2, <1>3 DEF ThreadOK, ReadOK, Layout
<1>7. c \in Lists /\ CopyOK(l, start[t], size[t], readOff[t], c, buf[t])
  BY <1>1, <1>2, <1>3, <1>4, <1>5, <1>6, Values, FindKeeps
<1>8. bl' = [bl EXCEPT ![t] = c]
  BY <1>3, <1>4 DEF ListFind
<1>9. TypeOK'
  BY <1>1, <1>7, <1>8 DEF ListFind, TypeOK, cacheVars, Goto, Steps
<1>10. /\ pc'[t] = "copy" /\ image' = image /\ file' = file /\ bl'[t] = c
       /\ build' = build /\ buf' = buf /\ start' = start /\ size' = size /\ readOff' = readOff
  BY <1>1, <1>2, <1>8 DEF ListFind, TypeOK, Goto
<1>11. ThreadOK(t)'
  BY <1>2, <1>3, <1>6, <1>7, <1>10 DEF ThreadOK, ReadOK, Layout
<1>12. QED
  BY <1>1, <1>2, <1>9, <1>10, <1>11, SlotsKeep DEF Kept

LEMMA CopyStepKeeps ==
    ASSUME IInv, NEW t \in Threads, Copy(t)
    PROVE  Kept(t)
<1>1. TypeOK /\ Apart(t) /\ ThreadOK(t) /\ SlotsOK /\ IndexOwned
  BY StepApart DEF IInv, Running
<1>2. pc[t] = "copy" /\ file[t] \in DOMAIN image /\ Sane(Layout(t)) /\ UNCHANGED cacheVars
  BY Reading DEF Copy
<1>3. PICK l, b : l = Layout(t) /\ b = bl[t]
  OBVIOUS
<1>4. PICK data : data = IF b.input_size = 0 THEN HoleData(l, b.pos) ELSE BlockData(l, b.block)
  OBVIOUS
<1>5. PICK take : take = Least(Len(data) - readOff[t], size[t])
  OBVIOUS
<1>6. PICK new : new = buf[t] \o SubSeq(data, readOff[t] + 1, readOff[t] + take)
  OBVIOUS
<1>7. CopyOK(l, start[t], size[t], readOff[t], b, buf[t]) /\ build[t] = <<>>
  BY <1>1, <1>2, <1>3 DEF ThreadOK, ReadOK, Layout
<1>8. /\ size[t] - take \in 0 .. size[t] /\ new \in Seq(Nat)
      /\ LoopOK(l, start[t], size[t] - take, 0, b, new)
  <2>1. /\ start[t] \in Nat /\ size[t] \in Nat /\ readOff[t] \in Nat /\ b \in Lists
        /\ buf[t] \in Seq(Nat) /\ Sane(l)
    BY <1>1, <1>2, <1>3, Values
  <2>2. LET d == IF b.input_size = 0 THEN HoleData(l, b.pos) ELSE BlockData(l, b.block)
            k == Least(Len(d) - readOff[t], size[t])
            w == buf[t] \o SubSeq(d, readOff[t] + 1, readOff[t] + k)
        IN /\ size[t] - k \in 0 .. size[t] /\ w \in Seq(Nat)
           /\ LoopOK(l, start[t], size[t] - k, 0, b, w)
    BY <1>7, <2>1, CopyKeeps
  <2>3. QED
    BY <1>4, <1>5, <1>6, <2>2, Zenon
<1>9. /\ buf' = [buf EXCEPT ![t] = new] /\ size' = [size EXCEPT ![t] = size[t] - take]
      /\ readOff' = [readOff EXCEPT ![t] = 0]
  <2>1. Deliver(t, data)
    BY <1>3, <1>4, Zenon DEF Copy
  <2>2. QED
    BY <1>5, <1>6, <2>1 DEF Deliver, Take
<1>10. TypeOK'
  <2>1. size[t] - take \in 0 .. Load[image].size
    BY <1>1, <1>8, Values, LoadAssumption DEF TypeOK
  <2>2. 0 \in 0 .. BlockSize - 1
    BY Sizes
  <2>3. QED
    BY <1>1, <1>8, <1>9, <2>1, <2>2 DEF Copy, TypeOK, cacheVars, Goto, Steps
<1>11. /\ pc'[t] = "loop" /\ image' = image /\ file' = file /\ start' = start /\ bl' = bl
       /\ build' = build /\ buf'[t] = new /\ size'[t] = size[t] - take /\ readOff'[t] = 0
  BY <1>1, <1>9 DEF Copy, TypeOK, Goto
<1>12. ThreadOK(t)'
  BY <1>2, <1>3, <1>7, <1>8, <1>11 DEF ThreadOK, ReadOK, Layout
<1>13. QED
  BY <1>1, <1>2, <1>10, <1>11, <1>12, SlotsKeep DEF Kept

LEMMA CopyFragmentKeeps ==
    ASSUME IInv, NEW t \in Threads, CopyFragment(t)
    PROVE  Kept(t)
<1>1. TypeOK /\ Apart(t) /\ ThreadOK(t) /\ SlotsOK /\ IndexOwned
  BY StepApart DEF IInv, Running
<1>2. pc[t] = "loop" /\ file[t] \in DOMAIN image /\ Sane(Layout(t)) /\ UNCHANGED cacheVars
  BY Reading DEF CopyFragment
<1>3. PICK l, b : l = Layout(t) /\ b = bl[t]
  OBVIOUS
<1>4. PICK take : take = Least(Len(FragData(l)) - readOff[t], size[t])
  OBVIOUS
<1>5. PICK new : new = buf[t] \o SubSeq(FragData(l), readOff[t] + 1, readOff[t] + take)
  OBVIOUS
<1>6. LoopOK(l, start[t], size[t], readOff[t], b, buf[t]) /\ build[t] = <<>>
  BY <1>1, <1>2, <1>3 DEF ThreadOK, ReadOK, Layout
<1>7. size[t] > 0 /\ b.remain = 0 /\ l.frag
  BY <1>3 DEF CopyFragment
<1>8. /\ size[t] - take \in 0 .. size[t] /\ new \in Seq(Nat)
      /\ ReadRight(l, start[t], size[t] - take, new)
  <2>1. /\ start[t] \in Nat /\ size[t] \in Nat /\ readOff[t] \in Nat /\ b \in Lists
        /\ buf[t] \in Seq(Nat) /\ Sane(l)
    BY <1>1, <1>2, <1>3, Values
  <2>2. LET k == Least(Len(FragData(l)) - readOff[t], size[t])
            w == buf[t] \o SubSeq(FragData(l), readOff[t] + 1, readOff[t] + k)
        IN /\ size[t] - k \in 0 .. size[t] /\ w \in Seq(Nat)
           /\ ReadRight(l, start[t], size[t] - k, w)
    BY <1>6, <1>7, <2>1, FragmentRight
  <2>3. QED
    BY <1>4, <1>5, <2>2, Zenon
<1>9. /\ buf' = [buf EXCEPT ![t] = new] /\ size' = [size EXCEPT ![t] = size[t] - take]
      /\ readOff' = [readOff EXCEPT ![t] = 0]
  <2>1. Deliver(t, FragData(l))
    BY <1>3, Zenon DEF CopyFragment
  <2>2. QED
    BY <1>4, <1>5, <2>1 DEF Deliver, Take
<1>10. TypeOK'
  <2>1. size[t] - take \in 0 .. Load[image].size
    BY <1>1, <1>8, Values, LoadAssumption DEF TypeOK
  <2>2. 0 \in 0 .. BlockSize - 1
    BY Sizes
  <2>3. QED
    BY <1>1, <1>8, <1>9, <2>1, <2>2 DEF CopyFragment, TypeOK, cacheVars, Goto, Steps
<1>11. /\ pc'[t] = "done" /\ image' = image /\ file' = file /\ start' = start
       /\ build' = build /\ buf'[t] = new /\ size'[t] = size[t] - take
  BY <1>1, <1>9 DEF CopyFragment, TypeOK, Goto
<1>12. ThreadOK(t)'
  BY <1>2, <1>3, <1>6, <1>8, <1>11 DEF ThreadOK, ReadOK, Layout
<1>13. QED
  BY <1>1, <1>2, <1>10, <1>11, <1>12, SlotsKeep DEF Kept

LEMMA LoopEndKeeps ==
    ASSUME IInv, NEW t \in Threads, LoopEnd(t)
    PROVE  Kept(t)
<1>1. TypeOK /\ Apart(t) /\ ThreadOK(t) /\ SlotsOK /\ IndexOwned
  BY StepApart DEF IInv, Running
<1>2. pc[t] = "loop" /\ file[t] \in DOMAIN image /\ Sane(Layout(t)) /\ UNCHANGED cacheVars
  BY Reading DEF LoopEnd
<1>3. PICK l, b : l = Layout(t) /\ b = bl[t]
  OBVIOUS
<1>4. LoopOK(l, start[t], size[t], readOff[t], b, buf[t]) /\ build[t] = <<>>
  BY <1>1, <1>2, <1>3 DEF ThreadOK, ReadOK, Layout
<1>5. size[t] = 0 \/ (b.remain = 0 /\ ~ l.frag)
  BY <1>3 DEF LoopEnd
<1>6. buf[t] # <<>> /\ ReadRight(l, start[t], size[t], buf[t])
  BY <1>1, <1>2, <1>3, <1>4, <1>5, Values, EndRight
<1>7. TypeOK'
  BY <1>1 DEF LoopEnd, TypeOK, cacheVars, Goto, Steps
<1>8. /\ pc'[t] = "done" /\ image' = image /\ file' = file /\ start' = start
      /\ build' = build /\ buf' = buf /\ size' = size
  BY <1>1, <1>6 DEF LoopEnd, TypeOK, Goto
<1>9. ThreadOK(t)'
  BY <1>2, <1>3, <1>4, <1>6, <1>8 DEF ThreadOK, ReadOK, Layout
<1>10. QED
  BY <1>1, <1>2, <1>7, <1>8, <1>9, SlotsKeep DEF Kept

LEMMA LoopFailKeeps ==
    ASSUME IInv, NEW t \in Threads, LoopFail(t)
    PROVE  Kept(t)
<1>1. TypeOK /\ Apart(t) /\ ThreadOK(t) /\ SlotsOK /\ IndexOwned
  BY StepApart DEF IInv, Running
<1>2. pc[t] \in {"loop", "copy"} /\ UNCHANGED cacheVars
  BY DEF LoopFail
<1>3. file[t] \in DOMAIN image
  BY <1>2, Reading
<1>4. TypeOK'
  BY <1>1 DEF LoopFail, TypeOK, cacheVars, Goto, Steps
<1>5. /\ pc'[t] = "error" /\ image' = image /\ file' = file /\ build'[t] = <<>>
      /\ failed'[t] = TRUE
  BY <1>1, <1>2 DEF LoopFail, TypeOK, Goto, ThreadOK, ReadOK
<1>6. ThreadOK(t)'
  BY <1>3, <1>5 DEF ThreadOK, ReadOK
<1>7. QED
  BY <1>1, <1>2, <1>4, <1>5, <1>6, SlotsKeep DEF Kept

LEMMA ReplyKeeps ==
    ASSUME IInv, NEW t \in Threads, Reply(t)
    PROVE  Kept(t)
<1>1. TypeOK /\ Apart(t) /\ ThreadOK(t) /\ SlotsOK /\ IndexOwned
  BY StepApart DEF IInv, Running
<1>2. NoList \in Lists
  BY Sizes DEF NoList, Lists, Cursors
<1>3. TypeOK'
  <2>1. <<>> \in Indexes /\ <<>> \in Seq(Nat) /\ 0 \in 0 .. BlockSize - 1
    BY Sizes DEF Indexes
  <2>2. 0 \in 0 .. Load[image].start /\ 0 \in 0 .. Load[image].size
    BY <1>1, LoadAssumption DEF TypeOK
  <2>3. QED
    BY <1>1, <1>2, <2>1, <2>2 DEF Reply, Forget, TypeOK, cacheVars, Goto, Steps
<1>4. pc'[t] = "idle" /\ build'[t] = <<>> /\ buf'[t] = <<>> /\ UNCHANGED cacheVars
  BY <1>1 DEF Reply, Forget, TypeOK, Goto
<1>5. ThreadOK(t)'
  BY <1>4 DEF ThreadOK, ReadOK
<1>6. QED
  BY <1>1, <1>3, <1>4, <1>5, SlotsKeep DEF Kept

LEMMA InitIInv ==
    ASSUME Init
    PROVE  IInv
<1>1. NoList \in Lists
  BY Sizes DEF NoList, Lists, Cursors
<1>2. TypeOK
  <2>1. <<>> \in Indexes /\ <<>> \in Seq(Nat) /\ 0 \in 0 .. BlockSize - 1
    BY Sizes DEF Indexes
  <2>2. 0 \in 0 .. Load[image].start /\ 0 \in 0 .. Load[image].size
    BY LoadAssumption DEF Init
  <2>3. QED
    BY <1>1, <2>1, <2>2 DEF Init, TypeOK, Steps
<1>3. \A t \in Threads : ThreadOK(t)
  BY DEF Init, ThreadOK, ReadOK
<1>4. SlotsOK /\ IndexOwned
  BY DEF Init, SlotsOK, IndexOwned
<1>5. QED
  BY <1>2, <1>3, <1>4 DEF IInv

LEMMA StepIInv ==
    ASSUME IInv, [Next]_vars
    PROVE  IInv'
<1>1. ASSUME NEW t \in Threads, Read(t) \/ IndexLock(t) \/ Running(t)
      PROVE  IInv'
  <2>1. Kept(t)
    <3>1. CASE Read(t)
      BY <3>1, ReadKeeps
    <3>2. CASE IndexLock(t)
      BY <3>2, IndexLockKeeps
    <3>3. CASE ReadOutside(t)
      BY <3>3, ReadOutsideKeeps
    <3>4. CASE Blocklist(t)
      BY <3>4, BlocklistKeeps
    <3>5. CASE IndexHit(t)
      BY <3>5, IndexHitKeeps
    <3>6. CASE IndexMiss(t)
      BY <3>6, IndexMissKeeps
    <3>7. CASE IndexStep(t)
      BY <3>7, IndexStepKeeps
    <3>8. CASE IndexDone(t)
      BY <3>8, IndexDoneKeeps
    <3>9. CASE IndexFail(t)
      BY <3>9, IndexFailKeeps
    <3>10. CASE IndexSeek(t)
      BY <3>10, IndexSeekKeeps
    <3>11. CASE ListSkip(t)
      BY <3>11, ListSkipKeeps
    <3>12. CASE ListFind(t)
      BY <3>12, ListFindKeeps
    <3>13. CASE Copy(t)
      BY <3>13, CopyStepKeeps
    <3>14. CASE CopyFragment(t)
      BY <3>14, CopyFragmentKeeps
    <3>15. CASE LoopEnd(t)
      BY <3>15, LoopEndKeeps
    <3>16. CASE LoopFail(t)
      BY <3>16, LoopFailKeeps
    <3>17. CASE Reply(t)
      BY <3>17, ReplyKeeps
    <3>18. QED
      BY <1>1, <3>1, <3>2, <3>3, <3>4, <3>5, <3>6, <3>7, <3>8,
         <3>9, <3>10, <3>11, <3>12, <3>13, <3>14, <3>15, <3>16, <3>17 DEF Running
  <2>2. Apart(t)
    BY <1>1, StepApart DEF IInv
  <2>3. \A u \in Threads : ThreadOK(u)'
    BY <2>1, <2>2, OthersKeep DEF IInv, Kept
  <2>4. QED
    BY <2>1, <2>3 DEF IInv, Kept
<1>2. CASE UNCHANGED vars
  <2>1. /\ image' = image /\ lock' = lock /\ key' = key /\ index' = index /\ pc' = pc
        /\ file' = file /\ start' = start /\ size' = size /\ readOff' = readOff /\ bl' = bl
        /\ build' = build /\ buf' = buf /\ failed' = failed
    BY <1>2 DEF vars, cacheVars, readVars
  <2>2. TypeOK'
    BY <2>1 DEF IInv, TypeOK
  <2>3. \A t \in Threads : ThreadOK(t)'
    BY <2>1 DEF IInv, ThreadOK
  <2>4. SlotsOK' /\ IndexOwned'
    BY <2>1 DEF IInv, SlotsOK, IndexOwned, Slot
  <2>5. QED
    BY <2>2, <2>3, <2>4 DEF IInv
<1>3. QED
  BY <1>1, <1>2 DEF Next

-----------------------------------------------------------------------------
(***************************************************************************)
(* The theorems.                                                           *)
(***************************************************************************)
(* Whatever sqfs_read_range, the block list, sqfs_blockidx_add and         *)
(* sqfs_blockidx_blocklist do in any number of threads, the invariant that *)
(* relates the cursor of every list, the entries of every index and the    *)
(* bytes copied so far to the layout of the file holds.                    *)
THEOREM Inductive == Spec => []IInv
<1>1. Init => IInv
  BY InitIInv
<1>2. IInv /\ [Next]_vars => IInv'
  BY StepIInv
<1>3. QED
  BY <1>1, <1>2, PTL DEF Spec

(* sqfs_read_range: for every layout of a file, every block size and every *)
(* range, what a successful read has copied are the bytes of the file from *)
(* start on, as many as there are; it fails only if a cache did, or if it  *)
(* starts behind the end of the file.                                      *)
THEOREM ReadsCorrect == Spec => []ReadCorrect
<1>1. IInv => ReadCorrect
  <2>1. SUFFICES ASSUME IInv, NEW t \in Threads
                 PROVE  /\ pc[t] = "done" =>
                             ReadRight(Layout(t), start[t], size[t], buf[t])
                        /\ pc[t] = "error" => failed[t] \/ start[t] > Layout(t).size
    BY DEF ReadCorrect, ReadRight
  <2>2. QED
    BY <2>1 DEF IInv, ThreadOK, ReadOK, Layout
<1>2. QED
  BY <1>1, Inductive, PTL

(* sqfs_blocklist_next and the seek of sqfs_blockidx_blocklist: a list     *)
(* with blocks left is where a scan from its start would be, also when its *)
(* entries straddle MD-blocks.                                             *)
THEOREM ListsCorrect == Spec => []ListConsistent
<1>1. IInv => ListConsistent
  <2>1. SUFFICES ASSUME IInv, NEW t \in Threads, pc[t] \in {"loop", "build"}, bl[t].remain > 0
                 PROVE  Consistent(Layout(t), bl[t])
    BY DEF ListConsistent, IInv
  <2>2. ThreadOK(t)
    BY <2>1 DEF IInv
  <2>3. Sound(Layout(t), bl[t])
    BY <2>1, <2>2 DEF ThreadOK, ReadOK, LoopOK, Layout
  <2>4. QED
    BY <2>3 DEF Sound
<1>2. QED
  BY <1>1, Inductive, PTL

(* sqfs_blockidx_add: every entry of a cached index is the MD-block it     *)
(* stands for and the data block whose size is the first in it.            *)
THEOREM IndexesCorrect == Spec => []IndexCorrect
<1>1. IInv => IndexCorrect
  BY DEF IInv, SlotsOK, IndexWhole, IndexTrue, IndexCorrect
<1>2. QED
  BY <1>1, Inductive, PTL

(* The block index is used under the lock of its slot: from sqfs_cache_get *)
(* to sqfs_cache_put no other thread disposes of it.                       *)
THEOREM OwnersCorrect == Spec => []IndexOwned
<1>1. IInv => IndexOwned
  BY DEF IInv
<1>2. QED
  BY <1>1, Inductive, PTL
=============================================================================
