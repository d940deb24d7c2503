--------------------------- MODULE FrontEndProofs ---------------------------
(***************************************************************************)
(* Proofs about the main programs, for any image, options, users and       *)
(* signals: requests only see tables and caches that exist, the status on  *)
(* the FIFO is true, SIGTERM does not end a session under its users, the   *)
(* root is the one asked for, and handles are of what their paths lead to. *)
(***************************************************************************)
EXTENDS FrontEnd, SequenceTheorems, WellFoundedInduction, TLAPS

-----------------------------------------------------------------------------
(* Reading one more status adds it to those read.                          *)
LEMMA RangeAppend ==
    ASSUME NEW S, NEW s \in Seq(S), NEW e \in S
    PROVE  /\ Append(s, e) \in Seq(S)
           /\ Range(Append(s, e)) = Range(s) \cup {e}
<1>1. Append(s, e) \in Seq(S) /\ Len(Append(s, e)) = Len(s) + 1
  OBVIOUS
<1>2. \A i \in 1 .. Len(s) : Append(s, e)[i] = s[i]
  OBVIOUS
<1>3. Append(s, e)[Len(s) + 1] = e
  OBVIOUS
<1>4. DOMAIN Append(s, e) = DOMAIN s \cup {Len(s) + 1}
  BY <1>1
<1>5. \A y : y \in Range(Append(s, e)) <=> y \in Range(s) \cup {e}
  BY <1>1, <1>2, <1>3, <1>4 DEF Range
<1>6. QED
  BY <1>1, <1>5

-----------------------------------------------------------------------------
(***************************************************************************)
(* Walking along a path.                                                   *)
(***************************************************************************)
\* A set of numbers has a least element.
LEMMA Least ==
    ASSUME NEW S \in SUBSET Nat, S # {}
    PROVE  \E n \in S : \A m \in S : n <= m
<1> DEFINE R == OpToRel(<, Nat)
<1>1. IsWellFoundedOn(R, Nat)
  BY NatLessThanWellFounded
<1>2. \A m, n \in Nat : <<m, n>> \in R <=> m < n
  BY DEF OpToRel
<1> HIDE DEF R
<1>3. PICK n \in S : \A m \in S : ~ (<<m, n>> \in R)
  BY <1>1, WFMin
<1>4. \A m \in S : m \in Nat /\ n \in Nat /\ ~ (m < n)
  BY <1>2, <1>3
<1>5. QED
  BY <1>4

\* Induction, for a set of numbers in the place of a predicate.
LEMMA Induct ==
    ASSUME NEW S, 0 \in S, \A n \in Nat : n \in S => n + 1 \in S
    PROVE  Nat \subseteq S
<1> DEFINE T == Nat \ S
<1>1. SUFFICES ASSUME T # {} PROVE FALSE
  OBVIOUS
<1>2. PICK n \in T : \A m \in T : n <= m
  BY <1>1, Least
<1>3. n - 1 \in Nat /\ (n - 1) + 1 = n
  BY <1>2
<1>4. n - 1 \notin T
  BY <1>2, <1>3
<1>5. QED
  BY <1>2, <1>3, <1>4

\* What it means that f has the inodes along a path, up to the m-th part.
Trails(f, from, path, m) ==
    f = [i \in 0 .. m |-> IF i = 0 THEN from ELSE Leads(f[i - 1], path[i])]

LEMMA TrailUnfold ==
    ASSUME NEW from, NEW path, Len(path) \in Nat
    PROVE  Trails(Trail(from, path), from, path, Len(path))
<1> DEFINE S == {m \in Nat : \E f : Trails(f, from, path, m)}
<1>1. 0 \in S
  <2>1. Trails([i \in 0 .. 0 |-> from], from, path, 0)
    BY DEF Trails
  <2>2. QED
    BY <2>1
<1>2. ASSUME NEW m \in Nat, m \in S PROVE m + 1 \in S
  <2>1. PICK f : Trails(f, from, path, m)
    BY <1>2
  <2> DEFINE g == [i \in 0 .. m + 1 |-> IF i = 0 THEN from ELSE Leads(f[i - 1], path[i])]
  <2>2. \A i \in 0 .. m : g[i] = f[i]
    BY <2>1 DEF Trails
  <2>3. \A i \in 0 .. m + 1 : i # 0 => i - 1 \in 0 .. m
    OBVIOUS
  <2>4. \A i \in 0 .. m + 1 : i # 0 => f[i - 1] = g[i - 1]
    BY <2>2, <2>3
  <2>5. g = [i \in 0 .. m + 1 |-> IF i = 0 THEN from ELSE Leads(g[i - 1], path[i])]
    BY <2>4, Zenon
  <2>6. \E f2 : Trails(f2, from, path, m + 1)
    BY <2>5 DEF Trails
  <2>7. QED
    BY <2>6
<1> HIDE DEF S
<1>3. Len(path) \in S
  BY <1>1, <1>2, Induct
<1>4. \E f : Trails(f, from, path, Len(path))
  BY <1>3 DEF S
<1>5. Trail(from, path) = CHOOSE f : Trails(f, from, path, Len(path))
  BY DEF Trail, Trails
<1>6. QED
  BY <1>4, <1>5

LEMMA TrailStep ==
    ASSUME NEW from, NEW path, Len(path) \in Nat
    PROVE  /\ Trail(from, path)[0] = from
           /\ \A i \in 1 .. Len(path) :
                Trail(from, path)[i] = Leads(Trail(from, path)[i - 1], path[i])
<1>1. PICK f : f = Trail(from, path)
  OBVIOUS
<1>2. f = [i \in 0 .. Len(path) |-> IF i = 0 THEN from ELSE Leads(f[i - 1], path[i])]
  BY <1>1, TrailUnfold DEF Trails
<1>3. f[0] = from /\ \A i \in 1 .. Len(path) : f[i] = Leads(f[i - 1], path[i])
  BY <1>2
<1>4. QED
  BY <1>1, <1>3

\* Slashes lead nowhere else.
LEMMA TrailSlashes ==
    ASSUME NEW from, NEW path \in Seq(STRING), NEW k \in 0 .. Len(path), NEW m \in k .. Len(path),
           \A i \in k + 1 .. m : path[i] = "/"
    PROVE  Trail(from, path)[m] = Trail(from, path)[k]
<1> DEFINE tr == Trail(from, path)
           S  == {n \in Nat : k + n <= m => tr[k + n] = tr[k]}
<1>1. Len(path) \in Nat /\ k \in Nat /\ m \in Nat /\ k <= m /\ m <= Len(path)
  OBVIOUS
<1>2. \A i \in 1 .. Len(path) : tr[i] = Leads(tr[i - 1], path[i])
  BY <1>1, TrailStep
<1> HIDE DEF tr
<1>3. 0 \in S
  BY <1>1
<1>4. ASSUME NEW n \in Nat, n \in S PROVE n + 1 \in S
  <2>1. SUFFICES ASSUME k + (n + 1) <= m PROVE tr[k + (n + 1)] = tr[k]
    OBVIOUS
  <2>2. k + n <= m /\ k + (n + 1) \in 1 .. Len(path) /\ (k + (n + 1)) - 1 = k + n
        /\ k + (n + 1) \in k + 1 .. m
    BY <1>1, <2>1
  <2>3. tr[k + n] = tr[k] /\ path[k + (n + 1)] = "/"
    BY <1>4, <2>2
  <2>4. tr[k + (n + 1)] = Leads(tr[k + n], "/")
    BY <1>2, <2>2, <2>3
  <2>5. QED
    BY <2>3, <2>4 DEF Leads
<1> HIDE DEF S
<1>5. Nat \subseteq S
  BY <1>3, <1>4, Induct
<1>6. m - k \in Nat /\ k + (m - k) = m
  BY <1>1
<1>7. m - k \in S
  BY <1>5, <1>6
<1>8. tr[m] = tr[k]
  BY <1>1, <1>6, <1>7 DEF S
<1>9. QED
  BY <1>8 DEF tr

\* The end of a sequence.
LEMMA EndIs ==
    ASSUME NEW S, NEW s \in Seq(S), NEW n \in Nat, n = Len(s), NEW m \in Nat, m <= n
    PROVE  /\ SubSeq(s, m + 1, n) \in Seq(S) /\ Len(SubSeq(s, m + 1, n)) = n - m
           /\ \A i \in 1 .. n - m : SubSeq(s, m + 1, n)[i] = s[m + i]
<1>1. \A i \in m + 1 .. n : s[i] \in S
  <2>1. \A i \in m + 1 .. n : i \in 1 .. Len(s)
    OBVIOUS
  <2>2. QED
    BY <2>1, ElementOfSeq
<1>2. SubSeq(s, m + 1, n) = [i \in 1 .. n - m |-> s[m + i]]
  <2>1. (1 + n) - (m + 1) = n - m
    OBVIOUS
  <2>2. \A i \in 1 .. n - m : i + (m + 1) - 1 = m + i
    OBVIOUS
  <2>3. QED
    BY <2>1, <2>2 DEF SubSeq
<1>3. QED
  BY <1>1, <1>2

(* What SkipSlashes leaves of the rest of a path: the parts from the next  *)
(* name on, or nothing.                                                    *)
LEMMA SkipIs ==
    ASSUME NEW path \in Seq(STRING), NEW k \in 0 .. Len(path)
    PROVE  \E m \in k .. Len(path) :
              /\ SkipSlashes(SubSeq(path, k + 1, Len(path))) = SubSeq(path, m + 1, Len(path))
              /\ \A i \in k + 1 .. m : path[i] = "/"
              /\ m < Len(path) => path[m + 1] # "/"
<1>1. PICK n \in Nat : n = Len(path)
  OBVIOUS
<1>2. k \in Nat /\ k <= n
  BY <1>1
<1>3. PICK w \in Seq(STRING) : w = SubSeq(path, k + 1, Len(path))
  BY <1>1, <1>2, EndIs
<1> DEFINE names == {i \in DOMAIN w : w[i] # "/"}
<1>4. /\ w \in Seq(STRING) /\ Len(w) = n - k /\ DOMAIN w = 1 .. n - k
      /\ \A i \in 1 .. n - k : w[i] = path[k + i]
  BY <1>1, <1>2, <1>3, EndIs
<1>5. CASE names = {}
  <2>1. SkipSlashes(w) = <<>>
    BY <1>5 DEF SkipSlashes
  <2>2. SubSeq(path, n + 1, n) = <<>>
    BY <1>1
  <2>3. \A i \in k + 1 .. n : path[i] = "/"
    <3>1. \A i \in k + 1 .. n : i - k \in 1 .. n - k /\ k + (i - k) = i
      BY <1>2
    <3>2. QED
      BY <1>4, <1>5, <3>1
  <2>4. n \in k .. Len(path) /\ ~ (n < Len(path))
    BY <1>1, <1>2
  <2>5. SkipSlashes(w) = SubSeq(path, n + 1, Len(path))
    BY <1>1, <2>1, <2>2
  <2>6. QED
    BY <1>3, <2>3, <2>4, <2>5
<1>6. CASE names # {}
  <2>1. names \in SUBSET Nat
    BY <1>4
  <2>2. PICK c \in Nat : c \in names /\ c = Min(names) /\ \A j \in names : c <= j
    BY <1>6, <2>1, Least DEF Min
  <2>3. c \in 1 .. n - k /\ w[c] # "/" /\ \A j \in 1 .. c - 1 : w[j] = "/"
    <3>1. c \in 1 .. n - k /\ w[c] # "/"
      BY <1>4, <2>2
    <3>2. \A j \in 1 .. c - 1 : j \in DOMAIN w /\ ~ (c <= j)
      BY <1>4, <3>1
    <3>3. QED
      BY <2>2, <3>1, <3>2
  <2>4. PICK m \in Nat : m = k + c - 1 /\ k <= m /\ m < n
    BY <1>2, <2>3
  <2>5. SkipSlashes(w) = SubSeq(w, c, Len(w))
    BY <1>6, <2>2 DEF SkipSlashes
  <2>6. SubSeq(w, c, Len(w)) = SubSeq(path, m + 1, n)
    <3>1. PICK e \in Nat : e = c - 1 /\ e <= n - k /\ e + 1 = c
      BY <2>3
    <3>2. PICK u \in Seq(STRING) : /\ u = SubSeq(w, c, Len(w)) /\ Len(u) = n - m
                                   /\ \A i \in 1 .. n - m : u[i] = w[e + i]
      <4>1. n - k \in Nat /\ (n - k) - e = n - m
        BY <1>2, <2>4, <3>1
      <4>2. /\ SubSeq(w, e + 1, n - k) \in Seq(STRING)
            /\ Len(SubSeq(w, e + 1, n - k)) = (n - k) - e
            /\ \A i \in 1 .. (n - k) - e : SubSeq(w, e + 1, n - k)[i] = w[e + i]
        BY <1>4, <3>1, <4>1, EndIs
      <4>3. QED
        BY <1>4, <3>1, <4>1, <4>2
    <3>3. PICK v \in Seq(STRING) : /\ v = SubSeq(path, m + 1, n) /\ Len(v) = n - m
                                   /\ \A i \in 1 .. n - m : v[i] = path[m + i]
      <4>1. m <= n /\ path \in Seq(STRING)
        BY <2>4
      <4>2. /\ SubSeq(path, m + 1, n) \in Seq(STRING) /\ Len(SubSeq(path, m + 1, n)) = n - m
            /\ \A i \in 1 .. n - m : SubSeq(path, m + 1, n)[i] = path[m + i]
        BY <1>1, <4>1, EndIs
      <4>3. QED
        BY <4>2
    <3>4. \A i \in 1 .. n - m : e + i \in 1 .. n - k /\ k + (e + i) = m + i
      BY <1>2, <2>3, <2>4, <3>1
    <3>5. \A i \in 1 .. Len(u) : u[i] = v[i]
      <4>1. \A i \in 1 .. n - m : w[e + i] = path[k + (e + i)]
        BY <1>4, <3>4
      <4>2. \A i \in 1 .. n - m : u[i] = v[i]
        BY <3>2, <3>3, <3>4, <4>1
      <4>3. QED
        BY <3>2, <4>2
    <3>6. u = v
      BY <3>2, <3>3, <3>5, SeqEqual
    <3>7. QED
      BY <3>2, <3>3, <3>6
  <2>7. \A i \in k + 1 .. m : path[i] = "/"
    <3>1. \A i \in k + 1 .. m : i - k \in 1 .. c - 1 /\ i - k \in 1 .. n - k /\ k + (i - k) = i
      BY <1>2, <2>3, <2>4
    <3>2. QED
      BY <1>4, <2>3, <3>1
  <2>8. path[m + 1] # "/"
    <3>1. k + c = m + 1
      BY <1>2, <2>3, <2>4
    <3>2. QED
      BY <1>4, <2>3, <3>1
  <2>9. m \in k .. Len(path) /\ SkipSlashes(w) = SubSeq(path, m + 1, Len(path))
    BY <1>1, <1>2, <2>4, <2>5, <2>6
  <2>10. QED
    BY <1>3, <2>7, <2>8, <2>9
<1>7. QED
  BY <1>5, <1>6

Ids   == Inodes \cup {Nowhere}
Walks == [path : Seq(STRING), at : Ids, id : Ids,
          status : {"walking", "found", "missing", "failed"}]

(* A walk along a path has come to the inode that the first k parts lead   *)
(* to, and *id was set to it if there was a name among them.               *)
Along(w, from, path) ==
    \E k \in 0 .. Len(path) :
        /\ w.path = SubSeq(path, k + 1, Len(path))
        /\ w.at = Trail(from, path)[k]
        /\ w.id = Nowhere => \A i \in 1 .. k : path[i] = "/"
        /\ w.id # Nowhere => w.id = w.at
        /\ w.status = "found" => \A i \in k + 1 .. Len(path) : path[i] = "/"

LEMMA AlongStart ==
    ASSUME NEW from \in Ids, NEW path \in Seq(STRING)
    PROVE  Walk(from, path) \in Walks /\ Along(Walk(from, path), from, path)
<1>1. Len(path) \in Nat /\ SubSeq(path, 1, Len(path)) = path
  OBVIOUS
<1>2. Trail(from, path)[0] = from
  BY <1>1, TrailStep
<1>3. PICK w \in Walks : /\ w = Walk(from, path)
                         /\ w.path = path /\ w.at = from /\ w.id = Nowhere /\ w.status = "walking"
  <2>1. Nowhere \in Ids
    BY DEF Ids
  <2>2. Walk(from, path) \in Walks
    BY <2>1 DEF Walk, Walks
  <2>3. /\ Walk(from, path).path = path /\ Walk(from, path).at = from
        /\ Walk(from, path).id = Nowhere /\ Walk(from, path).status = "walking"
    BY DEF Walk
  <2>4. QED
    BY <2>2, <2>3
<1>4. 0 \in 0 .. Len(path) /\ 0 + 1 = 1 /\ 1 .. 0 = {}
  BY <1>1
<1>5. Along(w, from, path)
  BY <1>1, <1>2, <1>3, <1>4 DEF Along
<1>6. QED
  BY <1>3, <1>5

\* The rest of a path is a path.
LEMMA SkipType ==
    ASSUME NEW path \in Seq(STRING)
    PROVE  SkipSlashes(path) \in Seq(STRING)
<1>1. PICK n \in Nat : n = Len(path)
  OBVIOUS
<1>2. SubSeq(path, 0 + 1, n) = path
  BY <1>1
<1>3. 0 \in 0 .. Len(path)
  BY <1>1
<1>4. PICK m \in 0 .. Len(path) : SkipSlashes(SubSeq(path, 0 + 1, Len(path)))
                                     = SubSeq(path, m + 1, Len(path))
  BY <1>3, SkipIs
<1>5. m \in Nat /\ m <= n
  BY <1>1, <1>4
<1>6. SubSeq(path, m + 1, n) \in Seq(STRING)
  BY <1>1, <1>5, EndIs
<1>7. QED
  BY <1>1, <1>2, <1>4, <1>6

LEMMA WalkType ==
    ASSUME NEW w \in Walks, NEW v \in WalkSteps(w)
    PROVE  v \in Walks
<1>1. PICK rest \in Seq(STRING) : rest = SkipSlashes(w.path)
  BY SkipType DEF Walks
<1>2. \A s \in {"found", "missing", "failed"} : [w EXCEPT !.status = s] \in Walks
  BY DEF Walks
<1>3. CASE \E s \in {"found", "missing", "failed"} : v = [w EXCEPT !.status = s]
  BY <1>2, <1>3
<1>4. CASE /\ rest # <<>> /\ w.at \in Dirs /\ Head(rest) \in DOMAIN Children[w.at]
           /\ v = Enter(w, rest, Children[w.at][Head(rest)])
  <2>1. Children[w.at][Head(rest)] \in Ids
    BY <1>4 DEF Ids, Inodes, Range
  <2>2. Tail(rest) \in Seq(STRING)
    BY <1>1, <1>4
  <2>3. QED
    BY <1>4, <2>1, <2>2 DEF Enter, Walks
<1>5. QED
  BY <1>1, <1>3, <1>4 DEF WalkSteps

\* One step of sqfs_lookup_path_with_id.
LEMMA AlongStep ==
    ASSUME NEW from \in Ids, NEW path \in Seq(STRING), NEW w \in Walks, NEW v \in WalkSteps(w),
           Along(w, from, path), w.status = "walking"
    PROVE  Along(v, from, path)
<1>1. PICK n \in Nat : n = Len(path)
  OBVIOUS
<1>2. PICK k \in Nat : /\ k <= n /\ w.path = SubSeq(path, k + 1, n)
                       /\ w.at = Trail(from, path)[k]
                       /\ w.id = Nowhere => \A i \in 1 .. k : path[i] = "/"
                       /\ w.id # Nowhere => w.id = w.at
  BY <1>1 DEF Along
<1>3. PICK m \in Nat : /\ k <= m /\ m <= n
                       /\ SkipSlashes(w.path) = SubSeq(path, m + 1, n)
                       /\ \A i \in k + 1 .. m : path[i] = "/"
                       /\ m < n => path[m + 1] # "/"
  <2>1. k \in 0 .. Len(path)
    BY <1>1, <1>2
  <2>2. PICK m \in k .. n : /\ SkipSlashes(SubSeq(path, k + 1, n)) = SubSeq(path, m + 1, n)
                            /\ \A i \in k + 1 .. m : path[i] = "/"
                            /\ m < n => path[m + 1] # "/"
    BY <1>1, <2>1, SkipIs
  <2>3. m \in Nat /\ k <= m /\ m <= n
    BY <1>2, <2>2
  <2>4. QED
    BY <1>2, <2>2, <2>3
<1>4. Trail(from, path)[m] = w.at
  <2>1. k \in 0 .. Len(path) /\ m \in k .. Len(path)
    BY <1>1, <1>2, <1>3
  <2>2. QED
    BY <1>2, <1>3, <2>1, TrailSlashes
<1>5. PICK rest \in Seq(STRING) : /\ rest = SubSeq(path, m + 1, n) /\ rest = SkipSlashes(w.path)
                                  /\ Len(rest) = n - m
                                  /\ \A i \in 1 .. n - m : rest[i] = path[m + i]
  <2>1. /\ SubSeq(path, m + 1, n) \in Seq(STRING) /\ Len(SubSeq(path, m + 1, n)) = n - m
        /\ \A i \in 1 .. n - m : SubSeq(path, m + 1, n)[i] = path[m + i]
    BY <1>1, <1>3, EndIs
  <2>2. QED
    BY <1>3, <2>1
<1>6. ASSUME NEW s \in {"found", "missing", "failed"}, v = [w EXCEPT !.status = s],
             s = "found" => rest = <<>>
      PROVE  Along(v, from, path)
  <2>1. v.path = w.path /\ v.at = w.at /\ v.id = w.id /\ v.status = s
    BY <1>6 DEF Walks
  <2>2. s = "found" => \A i \in k + 1 .. n : path[i] = "/"
    <3>1. s = "found" => m = n
      <4>1. rest = <<>> => Len(rest) = 0
        OBVIOUS
      <4>2. QED
        BY <1>3, <1>5, <1>6, <4>1
    <3>2. QED
      BY <1>3, <3>1
  <2>3. k \in 0 .. Len(path)
    BY <1>1, <1>2
  <2>4. QED
    BY <1>1, <1>2, <2>1, <2>2, <2>3 DEF Along
<1>7. ASSUME rest # <<>>, w.at \in Dirs, Head(rest) \in DOMAIN Children[w.at],
             v = Enter(w, rest, Children[w.at][Head(rest)])
      PROVE  Along(v, from, path)
  <2>1. m < n /\ Head(rest) = path[m + 1]
    BY <1>3, <1>5, <1>7
  <2>2. PICK j \in Nat : j = m + 1 /\ j <= n
    BY <1>3, <2>1
  <2>3. PICK c \in Inodes : c = Children[w.at][path[j]]
    BY <1>7, <2>1, <2>2 DEF Inodes, Range
  <2>4. v.path = Tail(rest) /\ v.at = c /\ v.id = c /\ v.status = "walking"
    BY <1>7, <2>1, <2>2, <2>3 DEF Enter, Walks
  <2>5. c # Nowhere
    BY <2>3, MountAssumption
  <2>6. Trail(from, path)[j] = c
    <3>1. j \in 1 .. Len(path) /\ j - 1 = m /\ Len(path) \in Nat
      BY <1>1, <1>3, <2>2
    <3>2. Trail(from, path)[j] = Leads(w.at, path[j])
      BY <1>4, <3>1, TrailStep
    <3>3. path[j] # "/" /\ path[j] \in DOMAIN Children[w.at]
      BY <1>3, <1>7, <2>1, <2>2
    <3>4. QED
      BY <1>7, <2>3, <3>2, <3>3 DEF Leads
  <2>7. Tail(rest) = SubSeq(path, j + 1, n)
    <3>1. PICK t \in Seq(STRING) : /\ t = Tail(rest) /\ Len(t) = n - j
                                   /\ \A i \in 1 .. n - j : t[i] = rest[i + 1]
      <4>1. /\ Tail(rest) \in Seq(STRING) /\ Len(Tail(rest)) = Len(rest) - 1
            /\ \A i \in 1 .. Len(Tail(rest)) : Tail(rest)[i] = rest[i + 1]
        BY <1>7, HeadTailProperties
      <4>2. Len(rest) - 1 = n - j
        BY <1>3, <1>5, <2>2
      <4>3. QED
        BY <4>1, <4>2
    <3>2. PICK u \in Seq(STRING) : /\ u = SubSeq(path, j + 1, n) /\ Len(u) = n - j
                                   /\ \A i \in 1 .. n - j : u[i] = path[j + i]
      <4>1. /\ SubSeq(path, j + 1, n) \in Seq(STRING) /\ Len(SubSeq(path, j + 1, n)) = n - j
            /\ \A i \in 1 .. n - j : SubSeq(path, j + 1, n)[i] = path[j + i]
        BY <1>1, <2>2, EndIs
      <4>2. QED
        BY <4>1
    <3>3. \A i \in 1 .. n - j : i + 1 \in 1 .. n - m /\ m + (i + 1) = j + i
      BY <2>2
    <3>4. \A i \in 1 .. n - j : t[i] = u[i]
      BY <1>5, <3>1, <3>2, <3>3
    <3>5. t = u
      BY <3>1, <3>2, <3>4, SeqEqual
    <3>6. QED
      BY <3>1, <3>2, <3>5
  <2>8. j \in 0 .. Len(path)
    BY <1>1, <2>2
  <2>9. QED
    BY <1>1, <2>4, <2>5, <2>6, <2>7, <2>8 DEF Along
<1>8. QED
  BY <1>5, <1>6, <1>7 DEF WalkSteps

\* A walk that has found its inode is where the path leads.
LEMMA AlongFound ==
    ASSUME NEW from \in Ids, NEW path \in Seq(STRING), NEW w,
           Along(w, from, path), w.status = "found"
    PROVE  /\ w.at = Resolve(from, path)
           /\ w.id = Nowhere => \A i \in 1 .. Len(path) : path[i] = "/"
           /\ w.id # Nowhere => w.id = w.at
<1>1. PICK k \in 0 .. Len(path) :
        /\ w.at = Trail(from, path)[k]
        /\ w.id = Nowhere => \A i \in 1 .. k : path[i] = "/"
        /\ w.id # Nowhere => w.id = w.at
        /\ \A i \in k + 1 .. Len(path) : path[i] = "/"
  BY DEF Along
<1>2. Len(path) \in k .. Len(path)
  BY <1>1
<1>3. Trail(from, path)[Len(path)] = Trail(from, path)[k]
  BY <1>1, <1>2, TrailSlashes
<1>4. \A i \in 1 .. Len(path) : i \in 1 .. k \/ i \in k + 1 .. Len(path)
  BY <1>1
<1>5. QED
  BY <1>1, <1>3, <1>4 DEF Resolve

-----------------------------------------------------------------------------
(***************************************************************************)
(* The inductive invariants.                                               *)
(***************************************************************************)
Starting == {"args", "open", "super", "subdir", "walk", "settle", "numbers", "failed", "mount"}
Leaving  == {"notify", "free", "exit"}
Told     == Range(got) \cup writers

(* Nothing is mounted before MountOk, nor once main has come to out, which *)
(* is before a failure can be told.                                        *)
StatusInv ==
    /\ got \in Seq({"s", "f"}) /\ writers \subseteq {"s", "f"}
    /\ pc \in Starting \cup {"out"} \cup Leaving => ~ attached
    /\ "s" \in Told => inited
    /\ "f" \in Told => ~ attached /\ pc \in Leaving \cup {"killed"}

\* The session is only told to exit by what counts as being told.
ExitInv == exiting => hard

Serving == {"mount", "daemonize", "handlers", "termhandler", "loop"}
Base    == {"front", "fd"}

(* What is allocated at each step of the start: after sqfs_init has gone   *)
(* through its parts, all of them unless err says otherwise.               *)
LiveInv ==
    /\ opts.ino \in {"ino64", "ino32exp", "ino32"}
    /\ pc \in {"args", "open"} => live = {}
    /\ pc = "super" => live = Base
    /\ pc \in {"subdir", "walk", "settle"} =>
         /\ Base \subseteq live /\ live \subseteq Base \cup Parts
         /\ ~ err => Parts \subseteq live
    /\ pc = "numbers" => live = Base \cup Parts
    /\ pc \in Serving => Base \cup Parts \subseteq live /\ (opts.ino # "ino64" => "map" \in live)
    /\ pc = "failed" => /\ live \subseteq {"xattr", "fd"}
                        /\ "fd" \in live => ReadsRoot /\ "xattr" \in live

IInv == StatusInv /\ ExitInv /\ LiveInv

\* All of them hold initially.
LEMMA InitIInv == FrontEndInit => IInv
<1> SUFFICES ASSUME FrontEndInit PROVE IInv
  OBVIOUS
<1>1. StatusInv
  BY DEF FrontEndInit, Init, StatusInv, Told, Range, Leaving
<1>2. ExitInv
  BY DEF FrontEndInit, ExitInv
<1>3. LiveInv
  BY DEF FrontEndInit, Init, LiveInv, Serving
<1>4. QED
  BY <1>1, <1>2, <1>3 DEF IInv

-----------------------------------------------------------------------------
(* The steps of the start leave the mount and the FIFO alone and end in    *)
(* the start, at out, or in a crash.                                       *)
LEMMA OpeningStarts ==
    ASSUME Opening
    PROVE  /\ pc \in Starting /\ pc' \in Starting \cup {"out", "crashed"}
           /\ UNCHANGED <<opts, attached, inited, exiting, hard, writers, got, users, handles>>
<1>1. MountStep /\ UNCHANGED <<attached, inited, exiting, hard, writers, got, users, handles>>
  BY DEF Opening, sigVars, notifyVars, useVars
<1>2. pc \in Starting /\ pc' \in Starting \cup {"out", "crashed"} /\ opts' = opts
  <2>1. CASE ArgsOk
    BY <2>1 DEF ArgsOk, Starting, Goto, mountVars
  <2>2. CASE ArgsFail
    BY <2>2 DEF ArgsFail, Starting, Goto, mountVars
  <2>3. CASE OpenOk
    BY <2>3 DEF OpenOk, Starting, Goto, mountVars
  <2>4. CASE OpenFail
    BY <2>4 DEF OpenFail, Starting, Goto, mountVars
  <2>5. CASE SuperFail
    BY <2>5 DEF SuperFail, Starting, Goto, mountVars
  <2>6. CASE MakeParts
    BY <2>6 DEF MakeParts, Starting, Goto, mountVars
  <2>7. CASE SubdirStart
    BY <2>7 DEF SubdirStart, Starting, Goto, mountVars
  <2>8. CASE SubdirCrash
    BY <2>8 DEF SubdirCrash, Starting, Goto, mountVars
  <2>9. CASE SubdirStep
    BY <2>9 DEF SubdirStep, Starting, Goto, mountVars
  <2>10. CASE SubdirFound
    BY <2>10 DEF SubdirFound, Starting, Goto, mountVars
  <2>11. CASE SubdirMissing
    BY <2>11 DEF SubdirMissing, Starting, Goto, mountVars
  <2>12. CASE Settle
    BY <2>12 DEF Settle, Starting, Goto, mountVars
  <2>13. CASE Numbers
    BY <2>13 DEF Numbers, Starting, Goto, mountVars
  <2>14. CASE NumbersFail
    BY <2>14 DEF NumbersFail, Starting, Goto, mountVars
  <2>15. CASE NumbersCrash
    BY <2>15 DEF NumbersCrash, Starting, Goto, mountVars
  <2>16. CASE Failed
    BY <2>16 DEF Failed, Starting, Goto, mountVars
  <2>17. QED
    BY <1>1, <2>1, <2>2, <2>3, <2>4, <2>5, <2>6, <2>7, <2>8, <2>9, <2>10, <2>11, <2>12, <2>13, <2>14, <2>15, <2>16 DEF MountStep
<1>3. QED
  BY <1>1, <1>2

(* A failure is only told from out, where nothing is mounted; a success    *)
(* only by the child that FUSE_INIT starts.                                *)
LEMMA StatusStep ==
    ASSUME StatusInv, [Next]_vars
    PROVE  StatusInv'
<1>1. CASE Opening
  <2>1. /\ pc \in Starting /\ pc' \in Starting \cup {"out", "crashed"}
         /\ attached' = attached /\ inited' = inited /\ writers' = writers /\ got' = got
    BY <1>1, OpeningStarts
  <2>2. "f" \notin Told /\ ~ attached
    BY <2>1 DEF StatusInv, Starting, Leaving
  <2>3. Told' = Told
    BY <2>1 DEF Told
  <2>4. QED
    BY <2>1, <2>2, <2>3 DEF StatusInv
<1>2. CASE MountOk
  BY <1>2 DEF MountOk, StatusInv, Told, Starting, Leaving, Goto, mountVars, sigVars, useVars, notifyVars
<1>3. CASE MountFail
  BY <1>3 DEF MountFail, StatusInv, Told, Starting, Leaving, Goto, mountVars, sigVars, useVars, notifyVars
<1>4. CASE DaemonizeOk
  BY <1>4 DEF DaemonizeOk, StatusInv, Told, Starting, Leaving, Goto, mountVars, sigVars, useVars, notifyVars
<1>5. CASE SetupFail
  BY <1>5 DEF SetupFail, StatusInv, Told, Starting, Leaving, Goto, mountVars, sigVars, useVars, notifyVars
<1>6. CASE SetHandlers
  BY <1>6 DEF SetHandlers, StatusInv, Told, Starting, Leaving, Goto, mountVars, sigVars, useVars, notifyVars
<1>7. CASE SetTermHandler
  BY <1>7 DEF SetTermHandler, StatusInv, Told, Starting, Leaving, Goto, mountVars, sigVars, useVars, notifyVars
<1>8. CASE LoopEnd
  BY <1>8 DEF LoopEnd, StatusInv, Told, Starting, Leaving, Goto, mountVars, sigVars, useVars, notifyVars
<1>9. CASE RemoveHandlers
  BY <1>9 DEF RemoveHandlers, StatusInv, Told, Starting, Leaving, Goto, mountVars, sigVars, useVars, notifyVars
<1>10. CASE DestroyFs
  BY <1>10 DEF DestroyFs, StatusInv, Told, Starting, Leaving, Goto, mountVars, sigVars, useVars, notifyVars
<1>11. CASE Unmount
  BY <1>11 DEF Unmount, StatusInv, Told, Starting, Leaving, Goto, mountVars, sigVars, useVars, notifyVars
<1>12. CASE Out
  <2>1. pc = "out" /\ ~ attached /\ attached' = attached /\ inited' = inited /\ got' = got
    BY <1>12 DEF Out, StatusInv
  <2>2. pc' \in Leaving /\ (writers' = writers \/ writers' = writers \cup {"f"})
    BY <1>12 DEF Out, Goto, Leaving
  <2>3. Told' = Told \/ Told' = Told \cup {"f"}
    BY <2>1, <2>2 DEF Told
  <2>4. QED
    BY <2>1, <2>2, <2>3 DEF StatusInv
<1>13. CASE NotifyDone
  BY <1>13 DEF NotifyDone, StatusInv, Told, Starting, Leaving, Goto, mountVars, sigVars, useVars, notifyVars
<1>14. CASE Exit
  BY <1>14 DEF Exit, StatusInv, Told, Starting, Leaving, Goto, mountVars, sigVars, useVars, notifyVars
<1>15. CASE InitMessage
  BY <1>15 DEF InitMessage, StatusInv, Told, Starting, Leaving, Goto, mountVars, sigVars, useVars, notifyVars
<1>16. CASE UserEnters
  BY <1>16 DEF UserEnters, StatusInv, Told, Starting, Leaving, Goto, mountVars, sigVars, useVars, notifyVars
<1>17. CASE UserLeaves
  BY <1>17 DEF UserLeaves, StatusInv, Told, Starting, Leaving, Goto, mountVars, sigVars, useVars, notifyVars
<1>18. CASE SomebodyUnmounts
  BY <1>18 DEF SomebodyUnmounts, StatusInv, Told, Starting, Leaving, Goto, mountVars, sigVars, useVars, notifyVars
<1>19. CASE ReaderComes
  BY <1>19 DEF ReaderComes, StatusInv, Told, Starting, Leaving, Goto, mountVars, sigVars, useVars, notifyVars
<1>20. CASE Write
  <2>1. PICK w \in writers : writers' = writers \ {w} /\ got' = Append(got, w)
    BY <1>20 DEF Write
  <2>2. got' \in Seq({"s", "f"}) /\ Range(got') = Range(got) \cup {w}
    BY <2>1, RangeAppend DEF StatusInv
  <2>3. Told' = Told
    BY <2>1, <2>2 DEF Told
  <2>4. QED
    BY <1>20, <2>1, <2>2, <2>3 DEF Write, StatusInv, mountVars, sigVars, useVars
<1>21. CASE SigInt
  BY <1>21 DEF SigInt, Interrupt, Die, ExitSession, Running, StatusInv, Told, Starting, Leaving, Goto, mountVars, sigVars, useVars, notifyVars
<1>22. CASE SigTerm
  BY <1>22 DEF SigTerm, Interrupt, Die, ExitSession, LazyUnmount, CanStart, Running, StatusInv, Told, Starting, Leaving, Goto, mountVars, sigVars, useVars, notifyVars
<1>23. CASE ChildUnmounts
  BY <1>23 DEF ChildUnmounts, StatusInv, Told, Starting, Leaving, Goto, mountVars, sigVars, useVars, notifyVars
<1>24. CASE ChildFails
  BY <1>24 DEF ChildFails, Interrupt, Die, ExitSession, Running, StatusInv, Told, Starting, Leaving, Goto, mountVars, sigVars, useVars, notifyVars
<1>25. CASE HlOpen
  BY <1>25 DEF HlOpen, StatusInv, Told, Starting, Leaving, Goto, mountVars, sigVars, useVars, notifyVars
<1>26. CASE HlWalk
  BY <1>26 DEF HlWalk, StatusInv, Told, Starting, Leaving, Goto, mountVars, sigVars, useVars, notifyVars
<1>27. CASE HlReturn
  BY <1>27 DEF HlReturn, StatusInv, Told, Starting, Leaving, Goto, mountVars, sigVars, useVars, notifyVars
<1>28. CASE HlRelease
  BY <1>28 DEF HlRelease, StatusInv, Told, Starting, Leaving, Goto, mountVars, sigVars, useVars, notifyVars
<1>29. CASE Ended
  BY <1>29 DEF Ended, vars, StatusInv, Told, Starting, Leaving, Goto, mountVars, sigVars, useVars, notifyVars
<1>30. CASE UNCHANGED vars
  BY <1>30 DEF vars, StatusInv, Told, Starting, Leaving, Goto, mountVars, sigVars, useVars, notifyVars
<1>31. CASE LookupCrash
  BY <1>31 DEF LookupCrash, StatusInv, Told, Starting, Leaving, Goto, mountVars, sigVars, useVars, notifyVars
<1>32. CASE ChildRefused
  BY <1>32 DEF ChildRefused, StatusInv, Told, Starting, Leaving, Goto, mountVars, sigVars, useVars, notifyVars
<1>33. QED
  BY <1>1, <1>2, <1>3, <1>4, <1>5, <1>6, <1>7, <1>8, <1>9, <1>10, <1>11, <1>12, <1>13, <1>14, <1>15, <1>16, <1>17, <1>18, <1>19, <1>20, <1>21, <1>22, <1>23, <1>24, <1>25, <1>26, <1>27, <1>28, <1>29, <1>30, <1>31, <1>32 DEF Next, MainStep, ChildStep, HlStep

\* Whoever calls fuse_session_exit counts.
LEMMA ExitStep ==
    ASSUME ExitInv, [Next]_vars
    PROVE  ExitInv'
<1>1. CASE Opening
  BY <1>1, OpeningStarts DEF ExitInv
<1>2. CASE MountOk
  BY <1>2 DEF MountOk, ExitInv, mountVars, sigVars, useVars, notifyVars
<1>3. CASE MountFail
  BY <1>3 DEF MountFail, ExitInv, mountVars, sigVars, useVars, notifyVars
<1>4. CASE DaemonizeOk
  BY <1>4 DEF DaemonizeOk, ExitInv, mountVars, sigVars, useVars, notifyVars
<1>5. CASE SetupFail
  BY <1>5 DEF SetupFail, ExitInv, mountVars, sigVars, useVars, notifyVars
<1>6. CASE SetHandlers
  BY <1>6 DEF SetHandlers, ExitInv, mountVars, sigVars, useVars, notifyVars
<1>7. CASE SetTermHandler
  BY <1>7 DEF SetTermHandler, ExitInv, mountVars, sigVars, useVars, notifyVars
<1>8. CASE LoopEnd
  BY <1>8 DEF LoopEnd, ExitInv, mountVars, sigVars, useVars, notifyVars
<1>9. CASE RemoveHandlers
  BY <1>9 DEF RemoveHandlers, ExitInv, mountVars, sigVars, useVars, notifyVars
<1>10. CASE DestroyFs
  BY <1>10 DEF DestroyFs, ExitInv, mountVars, sigVars, useVars, notifyVars
<1>11. CASE Unmount
  BY <1>11 DEF Unmount, ExitInv, mountVars, sigVars, useVars, notifyVars
<1>12. CASE Out
  BY <1>12 DEF Out, ExitInv, mountVars, sigVars, useVars, notifyVars
<1>13. CASE NotifyDone
  BY <1>13 DEF NotifyDone, ExitInv, mountVars, sigVars, useVars, notifyVars
<1>14. CASE Exit
  BY <1>14 DEF Exit, ExitInv, mountVars, sigVars, useVars, notifyVars
<1>15. CASE InitMessage
  BY <1>15 DEF InitMessage, ExitInv, mountVars, sigVars, useVars, notifyVars
<1>16. CASE UserEnters
  BY <1>16 DEF UserEnters, ExitInv, mountVars, sigVars, useVars, notifyVars
<1>17. CASE UserLeaves
  BY <1>17 DEF UserLeaves, ExitInv, mountVars, sigVars, useVars, notifyVars
<1>18. CASE SomebodyUnmounts
  BY <1>18 DEF SomebodyUnmounts, ExitInv, mountVars, sigVars, useVars, notifyVars
<1>19. CASE ReaderComes
  BY <1>19 DEF ReaderComes, ExitInv, mountVars, sigVars, useVars, notifyVars
<1>20. CASE Write
  BY <1>20 DEF Write, ExitInv, mountVars, sigVars, useVars, notifyVars
<1>21. CASE SigInt
  BY <1>21 DEF SigInt, Interrupt, Die, ExitSession, Running, ExitInv, mountVars, sigVars, useVars, notifyVars
<1>22. CASE SigTerm
  <2>1. CASE term = "default" /\ Die /\ UNCHANGED <<children, hard>>
    BY <2>1 DEF ExitInv, Die
  <2>2. CASE term = "exit" /\ ExitSession /\ hard' = TRUE /\ UNCHANGED children
    BY <2>2 DEF ExitInv
  <2>3. CASE \E started \in CanStart : LazyUnmount(started) /\ hard' = (hard \/ ~ started)
    <3>1. PICK started \in CanStart : LazyUnmount(started) /\ hard' = (hard \/ ~ started)
      BY <2>3
    <3>2. CASE started
      BY <3>1, <3>2 DEF LazyUnmount, ExitInv
    <3>3. CASE ~ started
      BY <3>1, <3>3 DEF ExitInv
    <3>4. QED
      BY <3>2, <3>3
  <2>4. QED
    BY <1>22, <2>1, <2>2, <2>3 DEF SigTerm
<1>23. CASE ChildUnmounts
  BY <1>23 DEF ChildUnmounts, ExitInv, mountVars, sigVars, useVars, notifyVars
<1>24. CASE ChildFails
  BY <1>24 DEF ChildFails, Interrupt, Die, ExitSession, Running, ExitInv, mountVars, sigVars, useVars, notifyVars
<1>25. CASE HlOpen
  BY <1>25 DEF HlOpen, ExitInv, mountVars, sigVars, useVars, notifyVars
<1>26. CASE HlWalk
  BY <1>26 DEF HlWalk, ExitInv, mountVars, sigVars, useVars, notifyVars
<1>27. CASE HlReturn
  BY <1>27 DEF HlReturn, ExitInv, mountVars, sigVars, useVars, notifyVars
<1>28. CASE HlRelease
  BY <1>28 DEF HlRelease, ExitInv, mountVars, sigVars, useVars, notifyVars
<1>29. CASE Ended
  BY <1>29 DEF Ended, vars, ExitInv, mountVars, sigVars, useVars, notifyVars
<1>30. CASE UNCHANGED vars
  BY <1>30 DEF vars, ExitInv, mountVars, sigVars, useVars, notifyVars
<1>31. CASE LookupCrash
  BY <1>31 DEF LookupCrash, ExitInv, mountVars, sigVars, useVars, notifyVars
<1>32. CASE ChildRefused
  BY <1>32 DEF ChildRefused, ExitInv, mountVars, sigVars, useVars, notifyVars
<1>33. QED
  BY <1>1, <1>2, <1>3, <1>4, <1>5, <1>6, <1>7, <1>8, <1>9, <1>10, <1>11, <1>12, <1>13, <1>14, <1>15, <1>16, <1>17, <1>18, <1>19, <1>20, <1>21, <1>22, <1>23, <1>24, <1>25, <1>26, <1>27, <1>28, <1>29, <1>30, <1>31, <1>32 DEF Next, MainStep, ChildStep, HlStep

(* A start that goes on has made everything; one that fails gives it back. *)
LEMMA LiveStep ==
    ASSUME LiveInv, [Next]_vars
    PROVE  LiveInv'
<1>1. CASE Opening
  <2> USE DEF LiveInv, Serving, Base, Parts, Exported, ReadsRoot, Destroyed, Goto, mountVars
  <2>0. MountStep
    BY <1>1 DEF Opening
  <2>1. CASE ArgsOk
    BY <2>1 DEF ArgsOk
  <2>2. CASE ArgsFail
    BY <2>2 DEF ArgsFail
  <2>3. CASE OpenOk
    BY <2>3 DEF OpenOk
  <2>4. CASE OpenFail
    BY <2>4 DEF OpenFail
  <2>5. CASE SuperFail
    BY <2>5 DEF SuperFail
  <2>6. CASE MakeParts
    BY <2>6 DEF MakeParts
  <2>7. CASE SubdirStart
    BY <2>7 DEF SubdirStart
  <2>8. CASE SubdirCrash
    BY <2>8 DEF SubdirCrash
  <2>9. CASE SubdirStep
    BY <2>9 DEF SubdirStep
  <2>10. CASE SubdirFound
    BY <2>10 DEF SubdirFound
  <2>11. CASE SubdirMissing
    BY <2>11 DEF SubdirMissing
  <2>12. CASE Settle
    BY <2>12 DEF Settle
  <2>13. CASE Numbers
    <3>1. PICK map \in Maps : live' = live \cup map
      BY <2>13 DEF Numbers
    <3>2. opts.ino \in {"ino32exp", "ino32"} => "map" \in map
      BY <3>1 DEF Maps
    <3>3. QED
      BY <2>13, <3>1, <3>2 DEF Numbers
  <2>14. CASE NumbersFail
    BY <2>14 DEF NumbersFail
  <2>15. CASE NumbersCrash
    BY <2>15 DEF NumbersCrash
  <2>16. CASE Failed
    BY <2>16 DEF Failed
  <2>17. QED
    BY <2>0, <2>1, <2>2, <2>3, <2>4, <2>5, <2>6, <2>7, <2>8, <2>9, <2>10, <2>11, <2>12, <2>13, <2>14, <2>15, <2>16 DEF MountStep
<1>2. CASE MountOk
  BY <1>2 DEF MountOk, LiveInv, Serving, Parts, Exported, ReadsRoot, Goto, mountVars, sigVars, useVars, notifyVars
<1>3. CASE MountFail
  BY <1>3 DEF MountFail, LiveInv, Serving, Parts, Exported, ReadsRoot, Goto, mountVars, sigVars, useVars, notifyVars
<1>4. CASE DaemonizeOk
  BY <1>4 DEF DaemonizeOk, LiveInv, Serving, Parts, Exported, ReadsRoot, Goto, mountVars, sigVars, useVars, notifyVars
<1>5. CASE SetupFail
  BY <1>5 DEF SetupFail, LiveInv, Serving, Parts, Exported, ReadsRoot, Goto, mountVars, sigVars, useVars, notifyVars
<1>6. CASE SetHandlers
  BY <1>6 DEF SetHandlers, LiveInv, Serving, Parts, Exported, ReadsRoot, Goto, mountVars, sigVars, useVars, notifyVars
<1>7. CASE SetTermHandler
  BY <1>7 DEF SetTermHandler, LiveInv, Serving, Parts, Exported, ReadsRoot, Goto, mountVars, sigVars, useVars, notifyVars
<1>8. CASE LoopEnd
  BY <1>8 DEF LoopEnd, LiveInv, Serving, Parts, Exported, ReadsRoot, Goto, mountVars, sigVars, useVars, notifyVars
<1>9. CASE RemoveHandlers
  BY <1>9 DEF RemoveHandlers, LiveInv, Serving, Parts, Exported, ReadsRoot, Goto, mountVars, sigVars, useVars, notifyVars
<1>10. CASE DestroyFs
  BY <1>10 DEF DestroyFs, LiveInv, Serving, Parts, Exported, ReadsRoot, Goto, mountVars, sigVars, useVars, notifyVars
<1>11. CASE Unmount
  BY <1>11 DEF Unmount, LiveInv, Serving, Parts, Exported, ReadsRoot, Goto, mountVars, sigVars, useVars, notifyVars
<1>12. CASE Out
  BY <1>12 DEF Out, LiveInv, Serving, Parts, Exported, ReadsRoot, Goto, mountVars, sigVars, useVars, notifyVars
<1>13. CASE NotifyDone
  BY <1>13 DEF NotifyDone, LiveInv, Serving, Parts, Exported, ReadsRoot, Goto, mountVars, sigVars, useVars, notifyVars
<1>14. CASE Exit
  BY <1>14 DEF Exit, LiveInv, Serving, Parts, Exported, ReadsRoot, Goto, mountVars, sigVars, useVars, notifyVars
<1>15. CASE InitMessage
  BY <1>15 DEF InitMessage, LiveInv, Serving, Parts, Exported, ReadsRoot, Goto, mountVars, sigVars, useVars, notifyVars
<1>16. CASE UserEnters
  BY <1>16 DEF UserEnters, LiveInv, Serving, Parts, Exported, ReadsRoot, Goto, mountVars, sigVars, useVars, notifyVars
<1>17. CASE UserLeaves
  BY <1>17 DEF UserLeaves, LiveInv, Serving, Parts, Exported, ReadsRoot, Goto, mountVars, sigVars, useVars, notifyVars
<1>18. CASE SomebodyUnmounts
  BY <1>18 DEF SomebodyUnmounts, LiveInv, Serving, Parts, Exported, ReadsRoot, Goto, mountVars, sigVars, useVars, notifyVars
<1>19. CASE ReaderComes
  BY <1>19 DEF ReaderComes, LiveInv, Serving, Parts, Exported, ReadsRoot, Goto, mountVars, sigVars, useVars, notifyVars
<1>20. CASE Write
  BY <1>20 DEF Write, LiveInv, Serving, Parts, Exported, ReadsRoot, Goto, mountVars, sigVars, useVars, notifyVars
<1>21. CASE SigInt
  BY <1>21 DEF SigInt, Interrupt, Die, ExitSession, Running, LiveInv, Serving, Parts, Exported, ReadsRoot, Goto, mountVars, sigVars, useVars, notifyVars
<1>22. CASE SigTerm
  BY <1>22 DEF SigTerm, Interrupt, Die, ExitSession, LazyUnmount, CanStart, Running, LiveInv, Serving, Parts, Exported, ReadsRoot, Goto, mountVars, sigVars, useVars, notifyVars
<1>23. CASE ChildUnmounts
  BY <1>23 DEF ChildUnmounts, LiveInv, Serving, Parts, Exported, ReadsRoot, Goto, mountVars, sigVars, useVars, notifyVars
<1>24. CASE ChildFails
  BY <1>24 DEF ChildFails, Interrupt, Die, ExitSession, Running, LiveInv, Serving, Parts, Exported, ReadsRoot, Goto, mountVars, sigVars, useVars, notifyVars
<1>25. CASE HlOpen
  BY <1>25 DEF HlOpen, LiveInv, Serving, Parts, Exported, ReadsRoot, Goto, mountVars, sigVars, useVars, notifyVars
<1>26. CASE HlWalk
  BY <1>26 DEF HlWalk, LiveInv, Serving, Parts, Exported, ReadsRoot, Goto, mountVars, sigVars, useVars, notifyVars
<1>27. CASE HlReturn
  BY <1>27 DEF HlReturn, LiveInv, Serving, Parts, Exported, ReadsRoot, Goto, mountVars, sigVars, useVars, notifyVars
<1>28. CASE HlRelease
  BY <1>28 DEF HlRelease, LiveInv, Serving, Parts, Exported, ReadsRoot, Goto, mountVars, sigVars, useVars, notifyVars
<1>29. CASE Ended
  BY <1>29 DEF Ended, vars, LiveInv, Serving, Parts, Exported, ReadsRoot, Goto, mountVars, sigVars, useVars, notifyVars
<1>30. CASE UNCHANGED vars
  BY <1>30 DEF vars, LiveInv, Serving, Parts, Exported, ReadsRoot, Goto, mountVars, sigVars, useVars, notifyVars
<1>31. CASE LookupCrash
  BY <1>31 DEF LookupCrash, LiveInv, Serving, Parts, Exported, ReadsRoot, Goto, mountVars, sigVars, useVars, notifyVars
<1>32. CASE ChildRefused
  BY <1>32 DEF ChildRefused, LiveInv, Serving, Parts, Exported, ReadsRoot, Goto, mountVars, sigVars, useVars, notifyVars
<1>33. QED
  BY <1>1, <1>2, <1>3, <1>4, <1>5, <1>6, <1>7, <1>8, <1>9, <1>10, <1>11, <1>12, <1>13, <1>14, <1>15, <1>16, <1>17, <1>18, <1>19, <1>20, <1>21, <1>22, <1>23, <1>24, <1>25, <1>26, <1>27, <1>28, <1>29, <1>30, <1>31, <1>32 DEF Next, MainStep, ChildStep, HlStep

-----------------------------------------------------------------------------
(***************************************************************************)
(* Where the root and the handles lead.                                    *)
(***************************************************************************)
\* The root is an inode id, and the walk along subdir a walk.
WalkInv ==
    /\ opts.subdir \in Subdirs
    /\ root \in Ids /\ walk \in Walks

(* Every path has a name in it, or is empty and not walked along: the      *)
(* walk along "/" never sets new_root (fs.c).                              *)
NamesGiven ==
    \A path \in Subdirs : path = <<>> \/ \E i \in 1 .. Len(path) : path[i] # "/"

\* The walk along subdir is on its way, or the root is where it has come to.
RootInv ==
    /\ pc \in {"args", "open", "super"} => root = Root
    /\ pc \in {"subdir", "walk"} => opts.subdir # <<>>
    /\ pc = "walk" /\ ~ err => Along(walk, Root, opts.subdir)
    /\ pc = "settle" /\ ~ err => root = Resolve(Root, opts.subdir)
    /\ pc \in {"numbers"} \cup Serving => root = Resolve(Root, opts.subdir)

HlOps     == [kind : {"none", "open", "opendir"}, walk : Walks, path : Seq(STRING)]
HlHandles == [kind : {"open", "opendir"}, path : Seq(STRING), inode : Ids]

HandleRight(h) ==
    h.inode = Resolve(root, h.path) /\ (h.inode \in Dirs <=> h.kind = "opendir")

(* Each handle has its inode, the request in progress walks from the root, *)
(* and there is none of either before the root is settled.                 *)
HandlesInv ==
    /\ handles \in Seq(HlHandles) /\ op \in HlOps
    /\ heap = Len(handles) + (IF op = NoOp THEN 0 ELSE 1)
    /\ \A i \in 1 .. Len(handles) : HandleRight(handles[i])
    /\ op # NoOp => op.kind \in {"open", "opendir"} /\ Along(op.walk, root, op.path)
    /\ pc \in Starting => op = NoOp /\ handles = <<>>

(* All other steps leave the root and the handles alone, and do not lead   *)
(* back into the start.                                                    *)
LEMMA OtherSteps ==
    ASSUME [Next]_vars
    PROVE  \/ Opening \/ HlOpen \/ HlWalk \/ HlReturn \/ HlRelease
           \/ /\ UNCHANGED <<opts, root, walk, op, handles, heap>>
              /\ \/ pc' = pc /\ err' = err
                 \/ pc' \notin Starting /\ (pc' \in Serving => pc \in Serving)
<1> USE DEF Starting, Serving, Goto, mountVars, useVars
<1>1. CASE MountOk
  BY <1>1 DEF MountOk
<1>2. CASE MountFail
  BY <1>2 DEF MountFail
<1>3. CASE DaemonizeOk
  BY <1>3 DEF DaemonizeOk
<1>4. CASE SetupFail
  BY <1>4 DEF SetupFail
<1>5. CASE SetHandlers
  BY <1>5 DEF SetHandlers
<1>6. CASE SetTermHandler
  BY <1>6 DEF SetTermHandler
<1>7. CASE LoopEnd
  BY <1>7 DEF LoopEnd
<1>8. CASE RemoveHandlers
  BY <1>8 DEF RemoveHandlers
<1>9. CASE DestroyFs
  BY <1>9 DEF DestroyFs
<1>10. CASE Unmount
  BY <1>10 DEF Unmount
<1>11. CASE Out
  BY <1>11 DEF Out
<1>12. CASE NotifyDone
  BY <1>12 DEF NotifyDone
<1>13. CASE Exit
  BY <1>13 DEF Exit
<1>14. CASE InitMessage
  BY <1>14 DEF InitMessage
<1>15. CASE UserEnters
  BY <1>15 DEF UserEnters
<1>16. CASE UserLeaves
  BY <1>16 DEF UserLeaves
<1>17. CASE SomebodyUnmounts
  BY <1>17 DEF SomebodyUnmounts
<1>18. CASE ReaderComes
  BY <1>18 DEF ReaderComes
<1>19. CASE Write
  BY <1>19 DEF Write
<1>20. CASE SigInt
  BY <1>20 DEF Interrupt, Die, ExitSession, Running, SigInt
<1>21. CASE SigTerm
  BY <1>21 DEF Interrupt, Die, ExitSession, LazyUnmount, CanStart, Running, SigTerm
<1>22. CASE ChildUnmounts
  BY <1>22 DEF ChildUnmounts
<1>23. CASE ChildFails
  BY <1>23 DEF Interrupt, Die, ExitSession, Running, ChildFails
<1>24. CASE Ended
  BY <1>24 DEF vars, Ended
<1>25. CASE UNCHANGED vars
  BY <1>25 DEF vars
<1>26. CASE LookupCrash
  BY <1>26 DEF LookupCrash
<1>27. CASE ChildRefused
  BY <1>27 DEF ChildRefused
<1> HIDE DEF Starting, Serving, Goto, mountVars, useVars
<1>28. QED
  BY <1>1, <1>2, <1>3, <1>4, <1>5, <1>6, <1>7, <1>8, <1>9, <1>10, <1>11, <1>12, <1>13,
     <1>14, <1>15, <1>16, <1>17, <1>18, <1>19, <1>20, <1>21, <1>22, <1>23, <1>24, <1>25, <1>26,
     <1>27
     DEF Next, MainStep, ChildStep, HlStep

\* The walk along subdir, and a root that is not set, stay typed.
LEMMA WalkInvStep ==
    ASSUME WalkInv, [Next]_vars
    PROVE  WalkInv'
<1>1. CASE Opening
  <2> USE DEF mountVars
  <2>0. MountStep
    BY <1>1 DEF Opening
  <2>1. CASE ArgsOk
    BY <2>1 DEF ArgsOk, WalkInv
  <2>2. CASE ArgsFail
    BY <2>2 DEF ArgsFail, WalkInv
  <2>3. CASE OpenOk
    BY <2>3 DEF OpenOk, WalkInv
  <2>4. CASE OpenFail
    BY <2>4 DEF OpenFail, WalkInv
  <2>5. CASE SuperFail
    BY <2>5 DEF SuperFail, WalkInv
  <2>6. CASE MakeParts
    BY <2>6 DEF MakeParts, WalkInv
  <2>7. CASE SubdirStart
    <3>1. PICK from \in {Root, Nowhere} : walk' = Walk(from, opts.subdir)
      BY <2>7 DEF SubdirStart
    <3>2. from \in Ids /\ opts.subdir \in Seq(STRING)
      BY MountAssumption DEF Ids, Inodes, WalkInv
    <3>3. QED
      BY <2>7, <3>1, <3>2, AlongStart DEF SubdirStart, WalkInv
  <2>8. CASE SubdirCrash
    BY <2>8 DEF SubdirCrash, WalkInv
  <2>9. CASE SubdirStep
    BY <2>9, WalkType DEF SubdirStep, WalkInv
  <2>10. CASE SubdirFound
    <3>1. walk.id \in Ids
      BY DEF WalkInv, Walks
    <3>2. QED
      BY <2>10, <3>1 DEF SubdirFound, WalkInv, Ids
  <2>11. CASE SubdirMissing
    BY <2>11 DEF SubdirMissing, WalkInv
  <2>12. CASE Settle
    BY <2>12 DEF Settle, WalkInv
  <2>13. CASE Numbers
    BY <2>13 DEF Numbers, WalkInv
  <2>14. CASE NumbersFail
    BY <2>14 DEF NumbersFail, WalkInv
  <2>15. CASE NumbersCrash
    BY <2>15 DEF NumbersCrash, WalkInv
  <2>16. CASE Failed
    BY <2>16 DEF Failed, WalkInv
  <2>17. QED
    BY <2>0, <2>1, <2>2, <2>3, <2>4, <2>5, <2>6, <2>7, <2>8, <2>9, <2>10, <2>11, <2>12, <2>13, <2>14, <2>15, <2>16 DEF MountStep
<1>2. CASE UNCHANGED <<opts, root, walk>>
  BY <1>2 DEF WalkInv
<1>3. HlOpen \/ HlWalk \/ HlReturn \/ HlRelease => UNCHANGED <<opts, root, walk>>
  BY DEF HlOpen, HlWalk, HlReturn, HlRelease, mountVars
<1>4. QED
  BY <1>1, <1>2, <1>3, OtherSteps

\* A start that goes on has the root that subdir leads to.
LEMMA RootInvStep ==
    ASSUME NamesGiven, WalkInv, RootInv, [Next]_vars
    PROVE  RootInv'
<1>1. Root \in Ids /\ opts.subdir \in Seq(STRING)
  BY MountAssumption DEF Ids, Inodes, WalkInv
<1>2. CASE Opening
  <2> USE DEF mountVars, Goto, Serving
  <2>0. MountStep
    BY <1>2 DEF Opening
  <2>1. CASE ArgsOk
    BY <2>1 DEF ArgsOk, RootInv
  <2>2. CASE ArgsFail
    BY <2>2 DEF ArgsFail, RootInv
  <2>3. CASE OpenOk
    BY <2>3 DEF OpenOk, RootInv
  <2>4. CASE OpenFail
    BY <2>4 DEF OpenFail, RootInv
  <2>5. CASE SuperFail
    BY <2>5 DEF SuperFail, RootInv
  <2>6. CASE MakeParts
    <3>1. root' = Root /\ opts' = opts /\ pc' = (IF opts.subdir = <<>> THEN "settle" ELSE "subdir")
      BY <2>6 DEF MakeParts, RootInv
    <3>2. opts.subdir = <<>> => Resolve(Root, opts.subdir) = Root
      <4>1. Len(<<>>) = 0
        OBVIOUS
      <4>2. QED
        BY <4>1, TrailStep DEF Resolve
    <3>3. QED
      BY <3>1, <3>2 DEF RootInv
  <2>7. CASE SubdirStart
    <3>1. /\ pc = "subdir" /\ pc' = "walk" /\ opts' = opts /\ root' = root
          /\ \E from \in {Root, Nowhere} : walk' = Walk(from, opts.subdir)
                                           /\ err' = (err \/ from = Nowhere)
      BY <2>7 DEF SubdirStart
    <3>2. ~ err' => walk' = Walk(Root, opts.subdir)
      BY <3>1
    <3>3. QED
      BY <1>1, <3>1, <3>2, AlongStart DEF RootInv
  <2>8. CASE SubdirCrash
    BY <2>8 DEF SubdirCrash, RootInv
  <2>9. CASE SubdirStep
    <3>1. /\ pc = "walk" /\ walk.status = "walking" /\ walk' \in WalkSteps(walk) /\ walk \in Walks
          /\ pc' = pc /\ err' = err /\ opts' = opts /\ root' = root
      BY <2>9 DEF SubdirStep, WalkInv
    <3>2. ~ err => Along(walk', Root, opts.subdir)
      BY <1>1, <3>1, AlongStep DEF RootInv
    <3>3. QED
      BY <3>1, <3>2 DEF RootInv
  <2>10. CASE SubdirFound
    <3>1. /\ pc = "walk" /\ walk.status = "found" /\ pc' = "settle" /\ err' = err /\ opts' = opts
          /\ walk.id # Nowhere => root' = walk.id
      BY <2>10 DEF SubdirFound
    <3>2. ASSUME ~ err PROVE root' = Resolve(Root, opts.subdir)
      <4>1. Along(walk, Root, opts.subdir) /\ opts.subdir # <<>>
        BY <3>1, <3>2 DEF RootInv
      <4>2. /\ walk.at = Resolve(Root, opts.subdir)
            /\ walk.id = Nowhere => \A i \in 1 .. Len(opts.subdir) : opts.subdir[i] = "/"
            /\ walk.id # Nowhere => walk.id = walk.at
        BY <1>1, <3>1, <4>1, AlongFound
      <4>3. walk.id # Nowhere
        BY <4>1, <4>2 DEF NamesGiven, WalkInv
      <4>4. QED
        BY <3>1, <4>2, <4>3
    <3>3. QED
      BY <3>1, <3>2 DEF RootInv
  <2>11. CASE SubdirMissing
    BY <2>11 DEF SubdirMissing, RootInv
  <2>12. CASE Settle
    BY <2>12 DEF Settle, RootInv
  <2>13. CASE Numbers
    BY <2>13 DEF Numbers, RootInv
  <2>14. CASE NumbersFail
    BY <2>14 DEF NumbersFail, RootInv
  <2>15. CASE NumbersCrash
    BY <2>15 DEF NumbersCrash, RootInv
  <2>16. CASE Failed
    BY <2>16 DEF Failed, RootInv
  <2>17. QED
    BY <2>0, <2>1, <2>2, <2>3, <2>4, <2>5, <2>6, <2>7, <2>8, <2>9, <2>10, <2>11, <2>12, <2>13, <2>14, <2>15, <2>16 DEF MountStep
<1>3. CASE UNCHANGED <<pc, err, opts, root, walk>>
  BY <1>3 DEF RootInv
<1>4. HlOpen \/ HlWalk \/ HlReturn \/ HlRelease => UNCHANGED <<pc, err, opts, root, walk>>
  BY DEF HlOpen, HlWalk, HlReturn, HlRelease, mountVars
<1>5. CASE UNCHANGED <<opts, root, walk>> /\ pc' \notin Starting /\ (pc' \in Serving => pc \in Serving)
  BY <1>5 DEF RootInv, Starting
<1>6. QED
  BY <1>2, <1>3, <1>4, <1>5, OtherSteps

\* The handles that are left when one is released.
LEMMA RemoveAtIs ==
    ASSUME NEW S, NEW s \in Seq(S), NEW i \in 1 .. Len(s)
    PROVE  /\ RemoveAt(s, i) \in Seq(S) /\ Len(RemoveAt(s, i)) = Len(s) - 1
           /\ \A j \in 1 .. Len(s) - 1 :
                RemoveAt(s, i)[j] = s[j] \/ RemoveAt(s, i)[j] = s[j + 1]
<1>1. PICK n \in Nat : n = Len(s)
  OBVIOUS
<1>2. i \in Nat /\ 1 <= i /\ i <= n
  BY <1>1
<1>3. PICK e \in Nat : e = i - 1 /\ e + 1 = i
  BY <1>2
<1>4. PICK a \in Seq(S) : /\ a = SubSeq(s, 1, i - 1) /\ Len(a) = e
                          /\ \A j \in 1 .. e : a[j] = s[j]
  <2>1. \A j \in 1 .. e : j \in 1 .. Len(s)
    BY <1>1, <1>2, <1>3
  <2>2. \A j \in 1 .. e : s[j] \in S
    BY <2>1, ElementOfSeq
  <2>3. SubSeq(s, 1, e) = [j \in 1 .. e |-> s[j]]
    <3>1. (1 + e) - 1 = e /\ \A j \in 1 .. e : j + 1 - 1 = j
      BY <1>3
    <3>2. QED
      BY <3>1 DEF SubSeq
  <2>4. PICK a : a = [j \in 1 .. e |-> s[j]]
    OBVIOUS
  <2>5. a \in Seq(S) /\ Len(a) = e /\ \A j \in 1 .. e : a[j] = s[j]
    BY <1>3, <2>2, <2>4
  <2>6. QED
    BY <1>3, <2>3, <2>4, <2>5
<1>5. PICK b \in Seq(S) : /\ b = SubSeq(s, i + 1, n) /\ Len(b) = n - i
                          /\ \A j \in 1 .. n - i : b[j] = s[i + j]
  <2>1. /\ SubSeq(s, i + 1, n) \in Seq(S) /\ Len(SubSeq(s, i + 1, n)) = n - i
        /\ \A j \in 1 .. n - i : SubSeq(s, i + 1, n)[j] = s[i + j]
    BY <1>1, <1>2, EndIs
  <2>2. QED
    BY <2>1
<1>6. PICK r \in Seq(S) : r = RemoveAt(s, i) /\ r = a \o b
  <2>1. RemoveAt(s, i) = a \o b
    BY <1>1, <1>4, <1>5 DEF RemoveAt
  <2>2. a \o b \in Seq(S)
    BY <1>4, <1>5, ConcatProperties
  <2>3. QED
    BY <2>1, <2>2
<1>7. /\ Len(r) = e + (n - i)
      /\ \A j \in 1 .. e + (n - i) : r[j] = IF j <= e THEN a[j] ELSE b[j - e]
  <2>1. /\ Len(a \o b) = Len(a) + Len(b)
        /\ \A j \in 1 .. Len(a) + Len(b) :
             (a \o b)[j] = IF j <= Len(a) THEN a[j] ELSE b[j - Len(a)]
    BY <1>4, <1>5, ConcatProperties
  <2>2. Len(a) = e /\ Len(b) = n - i
    BY <1>4, <1>5
  <2>3. QED
    BY <1>6, <2>1, <2>2
<1>8. e + (n - i) = n - 1 /\ n - 1 \in Nat
  BY <1>2, <1>3
<1>9. ASSUME NEW j \in 1 .. n - 1 PROVE r[j] = s[j] \/ r[j] = s[j + 1]
  <2>1. CASE j <= e
    BY <1>4, <1>7, <1>8, <2>1
  <2>2. CASE ~ (j <= e)
    <3>1. j - e \in 1 .. n - i /\ i + (j - e) = j + 1
      BY <1>2, <1>3, <1>9, <2>2
    <3>2. r[j] = b[j - e]
      BY <1>7, <1>8, <2>2
    <3>3. b[j - e] = s[i + (j - e)]
      BY <1>5, <3>1
    <3>4. QED
      BY <3>1, <3>2, <3>3
  <2>3. QED
    BY <2>1, <2>2
<1>10. QED
  BY <1>1, <1>6, <1>7, <1>8, <1>9

\* The handlers of hl.c, and everything else.
LEMMA HandlesInvStep ==
    ASSUME WalkInv, HandlesInv, [Next]_vars
    PROVE  HandlesInv'
<1>1. handles \in Seq(HlHandles) /\ op \in HlOps /\ Len(handles) \in Nat
  BY DEF HandlesInv
<1>2. CASE Opening
  <2>1. pc \in Starting /\ UNCHANGED <<handles, op, heap>>
    BY <1>2, OpeningStarts DEF Opening, useVars
  <2>2. op = NoOp /\ handles = <<>> /\ Len(handles) = 0
    BY <2>1 DEF HandlesInv
  <2>3. \A i : i \notin 1 .. 0
    OBVIOUS
  <2>4. QED
    BY <2>1, <2>2, <2>3 DEF HandlesInv
<1>3. CASE HlOpen
  <2>1. /\ pc = "loop" /\ op = NoOp /\ UNCHANGED <<pc, handles, root>> /\ heap' = heap + 1
        /\ \E kind \in {"open", "opendir"}, path \in Paths :
             op' = [kind |-> kind, path |-> path, walk |-> Walk(root, path)]
    BY <1>3 DEF HlOpen, mountVars
  <2>2. PICK kind \in {"open", "opendir"}, path \in Seq(STRING) :
             op' = [kind |-> kind, path |-> path, walk |-> Walk(root, path)]
    BY <2>1, FrontEndAssumption
  <2>3. Walk(root, path) \in Walks /\ Along(Walk(root, path), root, path)
    BY AlongStart DEF WalkInv
  <2>4. op'.kind = kind /\ op'.path = path /\ op'.walk = Walk(root, path) /\ op' \in HlOps
    BY <2>2, <2>3 DEF HlOps
  <2>5. op' # NoOp
    BY <2>4 DEF NoOp
  <2>6. heap' = Len(handles') + 1
    BY <1>1, <2>1 DEF HandlesInv
  <2>7. \A i \in 1 .. Len(handles') : HandleRight(handles[i])'
    BY <2>1 DEF HandlesInv, HandleRight
  <2>8. pc' \notin Starting
    BY <2>1 DEF Starting
  <2>9. QED
    BY <1>1, <2>1, <2>3, <2>4, <2>5, <2>6, <2>7, <2>8 DEF HandlesInv
<1>4. CASE HlWalk
  <2>1. /\ op # NoOp /\ op.walk.status = "walking" /\ UNCHANGED <<pc, handles, root, heap>>
        /\ \E w \in WalkSteps(op.walk) : op' = [op EXCEPT !.walk = w]
    BY <1>4 DEF HlWalk, mountVars
  <2>2. PICK w \in WalkSteps(op.walk) : op' = [op EXCEPT !.walk = w]
    BY <2>1
  <2>3. op.walk \in Walks /\ op.path \in Seq(STRING) /\ root \in Ids
    BY <1>1 DEF HlOps, WalkInv
  <2>4. w \in Walks /\ Along(w, root, op.path)
    BY <2>1, <2>3, WalkType, AlongStep DEF HandlesInv
  <2>5. op'.kind = op.kind /\ op'.path = op.path /\ op'.walk = w /\ op' \in HlOps
    BY <1>1, <2>2, <2>4 DEF HlOps
  <2>6. op' # NoOp /\ op'.kind \in {"open", "opendir"}
    BY <2>1, <2>5 DEF NoOp, HandlesInv
  <2>7. \A i \in 1 .. Len(handles') : HandleRight(handles[i])'
    BY <2>1 DEF HandlesInv, HandleRight
  <2>8. pc' \notin Starting
    BY <2>1 DEF HandlesInv
  <2>9. QED
    BY <1>1, <2>1, <2>4, <2>5, <2>6, <2>7, <2>8 DEF HandlesInv
<1>5. CASE HlReturn
  <2>1. /\ op # NoOp /\ op' = NoOp /\ UNCHANGED <<pc, root>> /\ pc' \notin Starting
        /\ heap = Len(handles) + 1 /\ op.walk.status # "walking"
    BY <1>5 DEF HlReturn, mountVars, HandlesInv
  <2>2. NoOp \in HlOps
    <3>1. Nowhere \in Ids /\ <<>> \in Seq(STRING)
      BY DEF Ids
    <3>2. Walk(Nowhere, <<>>) \in Walks
      BY <3>1, AlongStart
    <3>3. QED
      BY <3>1, <3>2 DEF NoOp, HlOps
  <2>3. CASE op.walk.status = "found" /\ RightKind
    <3>1. PICK h : /\ h = [kind |-> op.kind, path |-> op.path, inode |-> op.walk.at]
                   /\ handles' = Append(handles, h)
      BY <1>5, <2>3 DEF HlReturn
    <3>2. heap' = heap
      BY <1>5, <2>3 DEF HlReturn
    <3>3. /\ op.kind \in {"open", "opendir"} /\ Along(op.walk, root, op.path)
          /\ op.path \in Seq(STRING) /\ op.walk \in Walks /\ root \in Ids
      BY <1>1, <2>1 DEF HandlesInv, HlOps, WalkInv
    <3>4. op.walk.at = Resolve(root, op.path) /\ op.walk.at \in Ids
      BY <2>3, <3>3, AlongFound DEF Walks
    <3>5. h \in HlHandles /\ h.kind = op.kind /\ h.path = op.path /\ h.inode = op.walk.at
      BY <3>1, <3>3, <3>4 DEF HlHandles
    <3>6. h.inode = Resolve(root', h.path) /\ (h.inode \in Dirs <=> h.kind = "opendir")
      BY <2>1, <2>3, <3>4, <3>5 DEF RightKind
    <3>7. /\ handles' \in Seq(HlHandles) /\ Len(handles') = Len(handles) + 1
          /\ \A i \in 1 .. Len(handles) : handles'[i] = handles[i]
          /\ handles'[Len(handles) + 1] = h
      BY <1>1, <3>1, <3>5, AppendProperties
    <3>8. \A i \in 1 .. Len(handles') : HandleRight(handles[i])'
      <4>1. SUFFICES ASSUME NEW i \in 1 .. Len(handles') PROVE HandleRight(handles[i])'
        OBVIOUS
      <4>2. CASE i \in 1 .. Len(handles)
        BY <2>1, <3>7, <4>2 DEF HandlesInv, HandleRight
      <4>3. CASE i = Len(handles) + 1
        BY <3>6, <3>7, <4>3 DEF HandleRight
      <4>4. QED
        BY <1>1, <3>7, <4>2, <4>3
    <3>9. QED
      BY <2>1, <2>2, <3>2, <3>7, <3>8 DEF HandlesInv
  <2>4. CASE ~ (op.walk.status = "found" /\ RightKind)
    <3>1. heap' = heap - 1 /\ handles' = handles
      BY <1>5, <2>4 DEF HlReturn, Rejected
    <3>2. heap' = Len(handles')
      BY <1>1, <2>1, <3>1
    <3>3. \A i \in 1 .. Len(handles') : HandleRight(handles[i])'
      BY <2>1, <3>1 DEF HandlesInv, HandleRight
    <3>4. QED
      BY <1>1, <2>1, <2>2, <3>1, <3>2, <3>3 DEF HandlesInv
  <2>5. QED
    BY <2>3, <2>4
<1>6. CASE HlRelease
  <2>1. /\ op = NoOp /\ UNCHANGED <<pc, root, op>> /\ pc' \notin Starting /\ heap = Len(handles)
        /\ heap' = heap - 1
        /\ \E i \in DOMAIN handles : handles' = RemoveAt(handles, i)
    BY <1>1, <1>6 DEF HlRelease, mountVars, HandlesInv, Starting
  <2>2. PICK i \in 1 .. Len(handles) : handles' = RemoveAt(handles, i)
    BY <1>1, <2>1
  <2>3. /\ handles' \in Seq(HlHandles) /\ Len(handles') = Len(handles) - 1
        /\ \A j \in 1 .. Len(handles) - 1 : handles'[j] = handles[j] \/ handles'[j] = handles[j + 1]
    BY <1>1, <2>2, RemoveAtIs
  <2>4. \A j \in 1 .. Len(handles') : HandleRight(handles[j])'
    <3>1. SUFFICES ASSUME NEW j \in 1 .. Len(handles') PROVE HandleRight(handles[j])'
      OBVIOUS
    <3>2. j \in 1 .. Len(handles) /\ j + 1 \in 1 .. Len(handles) /\ j \in 1 .. Len(handles) - 1
      BY <1>1, <2>3
    <3>3. HandleRight(handles[j]) /\ HandleRight(handles[j + 1])
      BY <3>2 DEF HandlesInv
    <3>4. handles'[j] = handles[j] \/ handles'[j] = handles[j + 1]
      BY <2>3, <3>2
    <3>5. QED
      BY <2>1, <3>3, <3>4 DEF HandleRight
  <2>5. QED
    BY <1>1, <2>1, <2>3, <2>4 DEF HandlesInv
<1>7. CASE /\ UNCHANGED <<root, op, handles, heap>>
           /\ pc' = pc \/ pc' \notin Starting
  <2>1. \A i \in 1 .. Len(handles') : HandleRight(handles[i])'
    BY <1>7 DEF HandlesInv, HandleRight
  <2>2. QED
    BY <1>7, <2>1 DEF HandlesInv
<1>8. QED
  BY <1>2, <1>3, <1>4, <1>5, <1>6, <1>7, OtherSteps

LEMMA InitRoot ==
    ASSUME FrontEndInit
    PROVE  WalkInv /\ RootInv /\ HandlesInv
<1>1. Nowhere \in Ids /\ Root \in Ids /\ <<>> \in Seq(STRING)
  BY MountAssumption DEF Ids, Inodes
<1>2. Walk(Nowhere, <<>>) \in Walks
  BY <1>1, AlongStart
<1>3. /\ opts.subdir \in Subdirs /\ root = Root /\ walk = Walk(Nowhere, <<>>) /\ pc = "args"
      /\ op = NoOp /\ handles = <<>> /\ heap = 0
  BY DEF FrontEndInit, Init
<1>4. WalkInv
  BY <1>1, <1>2, <1>3 DEF WalkInv
<1>5. RootInv
  BY <1>3 DEF RootInv, Serving
<1>6. HandlesInv
  <2>1. op \in HlOps
    BY <1>1, <1>2, <1>3 DEF NoOp, HlOps
  <2>2. handles \in Seq(HlHandles) /\ Len(handles) = 0 /\ \A i : i \notin 1 .. 0
    BY <1>3
  <2>3. QED
    BY <1>3, <2>1, <2>2 DEF HandlesInv
<1>7. QED
  BY <1>4, <1>5, <1>6

-----------------------------------------------------------------------------
(* The three are invariants together.                                      *)
THEOREM Inductive == Spec => []IInv
<1>1. FrontEndInit => IInv
  BY InitIInv
<1>2. IInv /\ [Next]_vars => IInv'
  BY StatusStep, ExitStep, LiveStep DEF IInv
<1>3. QED
  BY <1>1, <1>2, PTL DEF Spec

-----------------------------------------------------------------------------
(***************************************************************************)
(* What they show.                                                         *)
(***************************************************************************)
(* A status on the FIFO is true: 's' only after FUSE_INIT, 'f' only when   *)
(* nothing is mounted (notify_mount_ready, fuseprivate.c).                 *)
THEOREM StatusCorrect == Spec => []StatusTrue
<1>1. IInv => StatusTrue
  BY DEF IInv, StatusInv, StatusTrue, Told
<1>2. QED
  BY <1>1, Inductive, PTL

(* While requests are handled every table and cache and the map of inode   *)
(* numbers exist, though not always the buckets of that map, and a failed  *)
(* open gives back what it made, but for the xattr table and the file      *)
(* (sqfs_init_with_subdir, fs.c; sqfs_ll_open_with_subdir, ll.c).          *)
THEOREM PartsCorrect == Spec => []PartsTrue
<1>1. IInv => PartsTrue
  BY DEF IInv, LiveInv, PartsTrue, Serving, Base
<1>2. QED
  BY <1>1, Inductive, PTL

(* The session's loop does not return under its users unless it was told   *)
(* to exit at once (sigterm_handler, ll_main.c).                           *)
THEOREM PatienceCorrect == Spec => Patience
<1>1. IInv /\ [Next]_vars => (pc = "loop" /\ pc' = "remove" /\ Held > 0 => hard) \/ UNCHANGED vars
  <2> SUFFICES ASSUME IInv, [Next]_vars, pc = "loop", pc' = "remove", Held > 0, ~ hard
               PROVE  FALSE
    OBVIOUS
  <2>1. CASE Opening
    BY <2>1, OpeningStarts DEF Starting
  <2>2. CASE MountOk
    BY <2>2 DEF MountOk, Goto, vars
  <2>3. CASE MountFail
    BY <2>3 DEF MountFail, Goto, vars
  <2>4. CASE DaemonizeOk
    BY <2>4 DEF DaemonizeOk, Goto, vars
  <2>5. CASE SetupFail
    BY <2>5 DEF SetupFail, Goto, vars
  <2>6. CASE SetHandlers
    BY <2>6 DEF SetHandlers, Goto, vars
  <2>7. CASE SetTermHandler
    BY <2>7 DEF SetTermHandler, Goto, vars
  <2>8. CASE LoopEnd
    BY <2>8 DEF LoopEnd, IInv, ExitInv, Held
  <2>9. CASE RemoveHandlers
    BY <2>9 DEF RemoveHandlers, Goto, vars
  <2>10. CASE DestroyFs
    BY <2>10 DEF DestroyFs, Goto, vars
  <2>11. CASE Unmount
    BY <2>11 DEF Unmount, Goto, vars
  <2>12. CASE Out
    BY <2>12 DEF Out, Goto, vars
  <2>13. CASE NotifyDone
    BY <2>13 DEF NotifyDone, Goto, vars
  <2>14. CASE Exit
    BY <2>14 DEF Exit, Goto, vars
  <2>15. CASE InitMessage
    BY <2>15 DEF InitMessage, Goto, vars
  <2>16. CASE UserEnters
    BY <2>16 DEF UserEnters, Goto, vars
  <2>17. CASE UserLeaves
    BY <2>17 DEF UserLeaves, Goto, vars
  <2>18. CASE SomebodyUnmounts
    BY <2>18 DEF SomebodyUnmounts, Goto, vars
  <2>19. CASE ReaderComes
    BY <2>19 DEF ReaderComes, Goto, vars
  <2>20. CASE Write
    BY <2>20 DEF Write, Goto, vars
  <2>21. CASE SigInt
    BY <2>21 DEF SigInt, Interrupt, Die, ExitSession, Running, Goto, vars
  <2>22. CASE SigTerm
    BY <2>22 DEF SigTerm, Interrupt, Die, ExitSession, LazyUnmount, CanStart, Running, Goto, vars
  <2>23. CASE ChildUnmounts
    BY <2>23 DEF ChildUnmounts, Goto, vars
  <2>24. CASE ChildFails
    BY <2>24 DEF ChildFails, Interrupt, Die, ExitSession, Running, Goto, vars
  <2>25. CASE HlOpen
    BY <2>25 DEF HlOpen, Goto, vars
  <2>26. CASE HlWalk
    BY <2>26 DEF HlWalk, Goto, vars
  <2>27. CASE HlReturn
    BY <2>27 DEF HlReturn, Goto, vars
  <2>28. CASE HlRelease
    BY <2>28 DEF HlRelease, Goto, vars
  <2>29. CASE Ended
    BY <2>29 DEF Ended, vars, Goto, vars
  <2>30. CASE UNCHANGED vars
    BY <2>30 DEF vars
  <2>31. CASE LookupCrash
    BY <2>31 DEF LookupCrash, Goto, vars
  <2>32. CASE ChildRefused
    BY <2>32 DEF ChildRefused, Goto, vars
  <2>33. QED
    BY <2>1, <2>2, <2>3, <2>4, <2>5, <2>6, <2>7, <2>8, <2>9, <2>10, <2>11, <2>12, <2>13, <2>14, <2>15, <2>16, <2>17, <2>18, <2>19, <2>20, <2>21, <2>22, <2>23, <2>24, <2>25, <2>26, <2>27, <2>28, <2>29, <2>30, <2>31, <2>32 DEF Next, MainStep, ChildStep, HlStep
<1>2. QED
  BY <1>1, Inductive, PTL DEF Spec, Patience

(* Whatever is opened, walked along and released in squashfuse, and        *)
(* whichever way the walk fails, an allocated sqfs_inode belongs to each   *)
(* handle and to the request in progress, and a handle is of what its path *)
(* leads to (sqfs_hl_op_open, opendir, release, releasedir of hl.c, over   *)
(* sqfs_lookup_path of dir.c), in any image.                               *)
THEOREM HandlesCorrect == Spec => []HandlesRight
<1>1. FrontEndInit => WalkInv /\ HandlesInv
  BY InitRoot
<1>2. WalkInv /\ HandlesInv /\ [Next]_vars => (WalkInv /\ HandlesInv)'
  BY WalkInvStep, HandlesInvStep
<1>3. HandlesInv => HandlesRight
  <2>1. SUFFICES ASSUME HandlesInv PROVE HandlesRight
    OBVIOUS
  <2>2. DOMAIN handles = 1 .. Len(handles)
    BY <2>1 DEF HandlesInv
  <2>3. QED
    BY <2>1, <2>2 DEF HandlesInv, HandlesRight, HandleRight
<1>4. QED
  BY <1>1, <1>2, <1>3, PTL DEF Spec

(* sqfs_init_with_subdir: an image that was opened shows the directory     *)
(* that the option subdir leads to, whichever steps of the start failed;   *)
(* for every value of the option that has a name in it (the run            *)
(* subdir_root shows what "/" does).                                       *)
THEOREM RootCorrect ==
    ASSUME NamesGiven
    PROVE  Spec => []RootIsSubdir
<1>1. FrontEndInit => WalkInv /\ RootInv
  BY InitRoot
<1>2. WalkInv /\ RootInv /\ [Next]_vars => (WalkInv /\ RootInv)'
  BY WalkInvStep, RootInvStep
<1>3. RootInv => RootIsSubdir
  BY DEF RootInv, RootIsSubdir, Serving
<1>4. QED
  BY <1>1, <1>2, <1>3, PTL DEF Spec
=============================================================================
