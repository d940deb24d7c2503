--------------------------- MODULE HandlerProofs ---------------------------
(***************************************************************************)
(* Proofs about the FUSE handlers and what is around them.                 *)
(*                                                                         *)
(* The idle timeout: handles are counted exactly, and where time_t is      *)
(* wider than unsigned int a session is only ended after it has been idle; *)
(* for any number of workers and handles, any timeout and any bound on how *)
(* long a thread stalls.                                                   *)
(*                                                                         *)
(* Attributes: inodes are read as they were stored, the iterator over      *)
(* extended attributes knows where it is, and the answers are right; for   *)
(* any image, any sizes of buffers and any names asked for.                *)
(***************************************************************************)
EXTENDS IdleTimeout, Attributes, FiniteSetTheorems, SequenceTheorems, WellFoundedInduction, TLAPS

-----------------------------------------------------------------------------
(***************************************************************************)
(* The idle timeout of ll.c: the inductive invariant.                      *)
(***************************************************************************)
Releasing == {w \in Workers : step[w] \in {"store", "body"} /\ op[w] = "release"}

Replying  == {w \in Workers : step[w] = "reply"}

CountOK ==
    open_refcount = opened + lost + Cardinality(Replying) + Cardinality(Releasing)

\* A worker stores what it read of the clock within MaxStall seconds.
StampOK == \A w \in Workers : step[w] = "store" => stamp[w] <= MaxStall

(* While nothing is open and no release is about to stamp, the recorded    *)
(* access is at most MaxStall older than the activity it stands for.       *)
FreshOK ==
    opened = 0 /\ (\A w \in Workers : ~ (step[w] = "store" /\ op[w] = "release"))
        => last_access <= quiet + MaxStall

(* What alarm_tick sees against what was the case when it was entered.     *)
TickOK ==
    /\ tick # "none" => quiet <= prior
    /\ tick \in {"times", "decide"} => last_access <= prior + MaxStall
    /\ tick \in {"times", "decide"} /\ access # None => access <= prior + MaxStall
    /\ tick = "decide" => clock # None /\ access # None
    /\ tick \in {"none", "entered"} => access = None

IdleIInv == TypeOK /\ CountOK /\ StampOK /\ FreshOK /\ TickOK

-----------------------------------------------------------------------------
\* Ages are numbers, and growing older keeps their order.
LEMMA AgesNat == Ages \subseteq Nat /\ Horizon \in Nat /\ 0 \in Ages /\ None \notin Ages
  BY TimeAssumption, WorkersAssumption DEF Ages, Horizon

\* One second more, up to the horizon.
LEMMA OlderAge ==
    ASSUME NEW a \in Ages
    PROVE  Older(a) \in Ages /\ a <= Older(a) /\ Older(a) <= a + 1
  BY TimeAssumption DEF Ages, Horizon, Older

\* An age that is at most d above another stays so.
LEMMA OlderMonotonic ==
    ASSUME NEW a \in Ages, NEW b \in Ages, NEW d \in Nat, a <= b + d
    PROVE  Older(a) <= Older(b) + d
  BY TimeAssumption DEF Ages, Horizon, Older

\* Sets of workers are finite; one more and one less.
LEMMA WorkerSets ==
    ASSUME NEW S \in SUBSET Workers
    PROVE  /\ Cardinality(S) \in Nat
           /\ Cardinality(S) = 0 <=> S = {}
           /\ \A w : w \notin S => Cardinality(S \cup {w}) = Cardinality(S) + 1
           /\ \A w \in S : Cardinality(S \ {w}) = Cardinality(S) - 1
<1>1. IsFiniteSet(S)
  BY FS_Subset, WorkersAssumption
<1>2. QED
  BY <1>1, FS_CardinalityType, FS_EmptySet, FS_AddElement, FS_RemoveElement

\* The four parts of the count are numbers.
LEMMA CountParts ==
    ASSUME TypeOK
    PROVE  /\ opened \in Nat /\ lost \in Nat
           /\ Replying \in SUBSET Workers /\ Releasing \in SUBSET Workers
           /\ Cardinality(Replying) \in Nat /\ Cardinality(Releasing) \in Nat
<1>1. Replying \in SUBSET Workers /\ Releasing \in SUBSET Workers
  BY DEF Replying, Releasing
<1>2. QED
  BY <1>1, WorkerSets DEF TypeOK

\* The set-up of the timeout.
LEMMA IdleInitIInv == IdleInit => IdleIInv
<1> SUFFICES ASSUME IdleInit PROVE IdleIInv
  OBVIOUS
<1>1. TypeOK
  <2>1. opened \in Nat /\ lost \in Nat /\ open_refcount \in 0 .. MaxOpen
    BY WorkersAssumption DEF IdleInit
  <2>2. step \in [Workers -> {"idle", "store", "body", "reply"}] /\ op \in [Workers -> Ops]
        /\ stamp \in [Workers -> Ages]
    BY AgesNat DEF IdleInit, Ops
  <2>3. QED
    BY <2>1, <2>2, AgesNat DEF IdleInit, TypeOK
<1>2. Releasing = {} /\ Replying = {}
  BY DEF IdleInit, Releasing, Replying
<1>3. CountOK
  BY <1>2, FS_EmptySet DEF IdleInit, CountOK
<1>4. StampOK /\ FreshOK /\ TickOK
  BY TimeAssumption DEF IdleInit, StampOK, FreshOK, TickOK
<1>5. QED
  BY <1>1, <1>3, <1>4 DEF IdleIInv

-----------------------------------------------------------------------------
(***************************************************************************)
(* The handlers.                                                           *)
(***************************************************************************)
\* For a release the handle moves from opened to the workers that release.
LEMMA StartIInv == ASSUME IdleIInv, NEW w \in Workers, Start(w) PROVE IdleIInv'
<1> USE DEF IdleIInv, Start, tickVars
<1>1. PICK o \in Ops :
        /\ op' = [op EXCEPT ![w] = o]
        /\ IF o = "release" THEN opened > 0 /\ opened' = opened - 1 ELSE UNCHANGED opened
  OBVIOUS
<1>2. TypeOK'
  BY <1>1, AgesNat, WorkersAssumption DEF TypeOK
<1>3. StampOK'
  BY TimeAssumption DEF StampOK, TypeOK
<1>4. CountOK'
  <2>1. w \notin Releasing /\ Releasing \in SUBSET Workers
    BY DEF Releasing
  <2>2. Replying' = Replying
    BY DEF Replying, TypeOK
  <2>3. /\ opened \in Nat /\ lost \in Nat
        /\ Cardinality(Replying) \in Nat /\ Cardinality(Releasing) \in Nat
    BY CountParts
  <2>4. CASE o = "release"
    <3>1. Releasing' = Releasing \cup {w}
      BY <1>1, <2>4 DEF Releasing, TypeOK
    <3>2. Cardinality(Releasing') = Cardinality(Releasing) + 1
      BY <2>1, <3>1, WorkerSets
    <3>3. QED
      BY <1>1, <2>4, <2>2, <2>3, <3>2 DEF CountOK
  <2>5. CASE o # "release"
    <3>1. Releasing' = Releasing
      BY <1>1, <2>5 DEF Releasing, TypeOK
    <3>2. QED
      BY <1>1, <2>5, <2>2, <3>1 DEF CountOK
  <2>6. QED
    BY <2>4, <2>5
<1>5. FreshOK'
  <2>1. CASE o = "release"
    <3>1. step'[w] = "store" /\ op'[w] = "release"
      BY <1>1, <2>1 DEF TypeOK
    <3>2. QED
      BY <3>1 DEF FreshOK
  <2>2. CASE o # "release"
    <3>1. \A u \in Workers : step[u] = "store" /\ op[u] = "release"
                               => step'[u] = "store" /\ op'[u] = "release"
      BY <1>1, <2>2 DEF TypeOK
    <3>2. QED
      BY <1>1, <2>2, <3>1 DEF FreshOK
  <2>3. QED
    BY <2>1, <2>2
<1>6. TickOK'
  BY DEF TickOK
<1>7. QED
  BY <1>2, <1>3, <1>4, <1>5, <1>6

\* The stamp is at most MaxStall old, whatever other workers are doing.
LEMMA StoreIInv == ASSUME IdleIInv, NEW w \in Workers, Store(w) PROVE IdleIInv'
<1> USE DEF IdleIInv, Store, tickVars
<1>1. last_access' \in Ages /\ last_access' <= MaxStall /\ quiet' = 0
  BY DEF TypeOK, StampOK
<1>2. TypeOK'
  BY <1>1, AgesNat DEF TypeOK
<1>3. StampOK'
  BY TimeAssumption DEF StampOK, TypeOK
<1>4. Releasing' = Releasing /\ Replying' = Replying
  BY DEF Releasing, Replying, TypeOK
<1>5. CountOK'
  BY <1>4 DEF CountOK
<1>6. FreshOK'
  BY <1>1, TimeAssumption, AgesNat DEF FreshOK
<1>7. TickOK'
  BY <1>1, TimeAssumption, AgesNat DEF TickOK, TypeOK
<1>8. QED
  BY <1>2, <1>3, <1>5, <1>6, <1>7

\* The handle is counted before the kernel gets to know it.
LEMMA OpenCountIInv == ASSUME IdleIInv, NEW w \in Workers, OpenCount(w) PROVE IdleIInv'
<1> USE DEF IdleIInv, OpenCount, tickVars
<1>1. TypeOK'
  BY WorkersAssumption DEF TypeOK
<1>2. Releasing' = Releasing /\ Replying' = Replying \cup {w} /\ w \notin Replying
  BY DEF Releasing, Replying, TypeOK
<1>3. CountOK'
  <2>1. Cardinality(Replying') = Cardinality(Replying) + 1
    BY <1>2, CountParts, WorkerSets
  <2>2. QED
    BY <1>2, <2>1, CountParts DEF CountOK
<1>4. \A u \in Workers : step'[u] = "store" <=> step[u] = "store"
  BY DEF TypeOK
<1>5. StampOK' /\ FreshOK' /\ TickOK'
  BY <1>4 DEF StampOK, FreshOK, TickOK
<1>6. QED
  BY <1>1, <1>3, <1>5

\* The reply reaches the kernel or it does not: the count knows of it.
LEMMA OpenReplyIInv == ASSUME IdleIInv, NEW w \in Workers, OpenReply(w) PROVE IdleIInv'
<1> USE DEF IdleIInv, OpenReply, tickVars
<1>1. TypeOK'
  BY AgesNat DEF TypeOK
<1>4. Releasing' = Releasing /\ Replying' = Replying \ {w} /\ w \in Replying
  BY DEF Releasing, Replying, TypeOK
<1>5. CountOK'
  <2>1. Cardinality(Replying') = Cardinality(Replying) - 1
    BY <1>4, CountParts, WorkerSets
  <2>2. opened' + lost' = opened + lost + 1
    BY CountParts
  <2>3. opened' \in Nat /\ lost' \in Nat
    BY <1>1 DEF TypeOK
  <2>4. QED
    BY <1>4, <2>1, <2>2, <2>3, CountParts DEF CountOK
<1>6. \A u \in Workers : step'[u] = "store" <=> step[u] = "store"
  BY DEF TypeOK
<1>7. StampOK' /\ FreshOK' /\ TickOK'
  <2>1. CASE opened' = opened + 1 /\ quiet' = 0
    <3>1. opened' # 0
      BY <2>1, CountParts
    <3>2. QED
      BY <1>6, <2>1, <3>1, AgesNat DEF StampOK, FreshOK, TickOK, TypeOK
  <2>2. CASE UNCHANGED <<opened, quiet>>
    BY <1>6, <2>2 DEF StampOK, FreshOK, TickOK
  <2>3. QED
    BY <2>1, <2>2
<1>8. QED
  BY <1>1, <1>5, <1>7

\* A worker that goes idle without having released.
LEMMA ReturnIInv == ASSUME IdleIInv, NEW w \in Workers, OpenFails(w) \/ Finish(w) PROVE IdleIInv'
<1> USE DEF IdleIInv, OpenFails, Finish, tickVars
<1>1. TypeOK'
  BY DEF TypeOK
<1>2. Releasing' = Releasing /\ Replying' = Replying
  BY DEF Releasing, Replying, TypeOK
<1>3. CountOK'
  BY <1>2 DEF CountOK
<1>4. \A u \in Workers : step'[u] = "store" <=> step[u] = "store"
  BY DEF TypeOK
<1>5. StampOK' /\ FreshOK' /\ TickOK'
  BY <1>4 DEF StampOK, FreshOK, TickOK
<1>6. QED
  BY <1>1, <1>3, <1>5

\* The count goes down after the stamp, so FreshOK knows of the release.
LEMMA CountDownIInv == ASSUME IdleIInv, NEW w \in Workers, CountDown(w) PROVE IdleIInv'
<1> USE DEF IdleIInv, CountDown, tickVars
<1>1. w \in Releasing /\ Releasing \in SUBSET Workers
  BY DEF Releasing
<1>2. Releasing' = Releasing \ {w} /\ Replying' = Replying
  BY DEF Releasing, Replying, TypeOK
<1>3. CountOK' /\ open_refcount' \in 0 .. MaxOpen
  <2>1. Cardinality(Releasing') = Cardinality(Releasing) - 1 /\ Cardinality(Releasing) \in Nat
    BY <1>1, <1>2, WorkerSets
  <2>2. Cardinality(Releasing') \in Nat
    BY <1>1, <1>2, WorkerSets
  <2>3. open_refcount' = opened + lost + Cardinality(Replying) + Cardinality(Releasing')
    BY <2>1, CountParts DEF CountOK
  <2>4. open_refcount' \in Nat
    BY <2>2, <2>3, CountParts
  <2>5. CountOK'
    BY <1>2, <2>3 DEF CountOK
  <2>6. QED
    BY <2>4, <2>5, WorkersAssumption DEF TypeOK
<1>4. TypeOK'
  BY <1>3 DEF TypeOK
<1>5. \A u \in Workers : step'[u] = "store" <=> step[u] = "store"
  BY DEF TypeOK
<1>6. StampOK' /\ FreshOK' /\ TickOK'
  BY <1>5 DEF StampOK, FreshOK, TickOK
<1>7. QED
  BY <1>3, <1>4, <1>6

-----------------------------------------------------------------------------
(***************************************************************************)
(* alarm_tick.                                                             *)
(***************************************************************************)
\* The steps that leave the handlers alone keep what is said about them.
LEMMA TickFrame ==
    ASSUME IdleIInv, UNCHANGED <<last_access, open_refcount, workerVars, opened, lost, quiet>>
    PROVE  CountOK' /\ StampOK' /\ FreshOK'
<1> USE DEF workerVars
<1>1. Releasing' = Releasing /\ Replying' = Replying
  BY DEF Releasing, Replying
<1>2. QED
  BY <1>1 DEF IdleIInv, CountOK, StampOK, FreshOK

\* Entering, alarm_tick notes how long it has been quiet.
LEMMA TickEnterIInv == ASSUME IdleIInv, TickEnter PROVE IdleIInv'
<1> USE DEF IdleIInv, TickEnter, workerVars
<1>1. TypeOK'
  BY DEF TypeOK
<1>2. TickOK'
  BY AgesNat DEF TickOK, TypeOK
<1>3. QED
  BY <1>1, <1>2, TickFrame

\* alarm_tick returns: it sets the alarm again or has sent SIGINT.
LEMMA TickReturnIInv == ASSUME IdleIInv, TickBusy \/ TickDecide PROVE IdleIInv'
<1> USE DEF IdleIInv, TickBusy, TickDecide, TickReturn, workerVars
<1>1. TypeOK'
  BY AgesNat DEF TypeOK
<1>2. TickOK'
  BY DEF TickOK
<1>3. QED
  BY <1>1, <1>2, TickFrame

(* With a count of 0 nothing is open and no release is under way: what is  *)
(* recorded is fresh, and nothing that happens later makes it staler.      *)
LEMMA TickNoHandlesIInv == ASSUME IdleIInv, TickNoHandles PROVE IdleIInv'
<1> USE DEF IdleIInv, TickNoHandles, workerVars
<1>1. TypeOK'
  BY DEF TypeOK
<1>2. opened = 0 /\ Releasing = {}
  <2>1. PICK a \in Nat, b \in Nat, c \in Nat, d \in Nat :
          a = opened /\ b = lost /\ c = Cardinality(Replying) /\ d = Cardinality(Releasing)
    BY CountParts
  <2>2. 0 = a + b + c + d
    BY <2>1 DEF CountOK
  <2>3. opened = 0 /\ Cardinality(Releasing) = 0
    BY <2>1, <2>2
  <2>4. QED
    BY <2>3, CountParts, WorkerSets
<1>3. last_access <= quiet + MaxStall
  BY <1>2 DEF FreshOK, Releasing
<1>4. last_access <= prior + MaxStall
  BY <1>3, AgesNat, TimeAssumption DEF TickOK, TypeOK
<1>5. access = None
  BY DEF TickOK
<1>6. TickOK'
  BY <1>4, <1>5 DEF TickOK
<1>7. QED
  BY <1>1, <1>6, TickFrame

\* The two reads of the clock and of last_access, in either order.
LEMMA TickReadIInv == ASSUME IdleIInv, TickClock \/ TickAccess PROVE IdleIInv'
<1> USE DEF IdleIInv, TickClock, TickAccess, workerVars
<1>1. TypeOK'
  BY AgesNat DEF TypeOK
<1>2. TickOK'
  BY AgesNat DEF TickOK, TypeOK
<1>3. QED
  BY <1>1, <1>2, TickFrame

-----------------------------------------------------------------------------
\* All ages grow together.
LEMMA SecondIInv == ASSUME IdleIInv, Second PROVE IdleIInv'
<1> USE DEF IdleIInv, Second
<1>1. TypeOK'
  BY OlderAge, AgesNat DEF TypeOK, Aged
<1>2. Releasing' = Releasing /\ Replying' = Replying
  BY DEF Releasing, Replying
<1>3. CountOK'
  BY <1>2 DEF CountOK
<1>4. StampOK'
  <2> SUFFICES ASSUME NEW w \in Workers, step[w] = "store" PROVE stamp'[w] <= MaxStall
    BY DEF StampOK
  <2>1. stamp[w] \in Ages /\ stamp[w] < MaxStall /\ stamp'[w] = Older(stamp[w])
    BY DEF TypeOK
  <2>2. Older(stamp[w]) <= stamp[w] + 1 /\ Older(stamp[w]) \in Nat /\ stamp[w] \in Nat
    BY <2>1, OlderAge, AgesNat
  <2>3. QED
    BY <2>1, <2>2, TimeAssumption
<1>5. FreshOK'
  BY OlderMonotonic, TimeAssumption DEF FreshOK, TypeOK
<1>6. TickOK'
  <2>1. tick # "none" => quiet' <= prior'
    BY OlderMonotonic, OlderAge, AgesNat DEF TickOK, TypeOK
  <2>2. tick \in {"times", "decide"} => last_access' <= prior' + MaxStall
    BY OlderMonotonic, TimeAssumption DEF TickOK, TypeOK
  <2>3. tick \in {"times", "decide"} /\ access # None => access' <= prior' + MaxStall
    BY OlderMonotonic, TimeAssumption DEF TickOK, TypeOK, Aged
  <2>4. (clock # None => clock' # None) /\ (access' # None => access # None)
        /\ (access # None => access' # None)
    BY OlderAge, AgesNat DEF TypeOK, Aged
  <2>5. QED
    BY <2>1, <2>2, <2>3, <2>4 DEF TickOK
<1>7. QED
  BY <1>1, <1>3, <1>4, <1>5, <1>6

\* The teardown leaves the handlers alone.
LEMMA TeardownIInv == ASSUME IdleIInv, TeardownAlarm \/ TeardownInstance PROVE IdleIInv'
<1> USE DEF IdleIInv, TeardownAlarm, TeardownInstance, workerVars, tickVars
<1>1. TypeOK'
  BY DEF TypeOK
<1>2. TickOK'
  BY DEF TickOK
<1>3. QED
  BY <1>1, <1>2, TickFrame

-----------------------------------------------------------------------------
(* The invariant holds in every state.                                     *)
THEOREM IdleInductive == IdleSpec => []IdleIInv
<1>1. ASSUME IdleIInv, [IdleNext]_idleVars PROVE IdleIInv'
  <2>1. CASE UNCHANGED idleVars
    <3>1. TypeOK' /\ TickOK'
      BY <1>1, <2>1 DEF idleVars, workerVars, tickVars, IdleIInv, TypeOK, TickOK
    <3>2. QED
      BY <1>1, <2>1, <3>1, TickFrame DEF idleVars, IdleIInv
  <2>2. QED
    BY <1>1, <2>1, StartIInv, StoreIInv, OpenCountIInv, OpenReplyIInv, ReturnIInv, CountDownIInv,
       TickEnterIInv, TickReturnIInv, TickNoHandlesIInv, TickReadIInv, SecondIInv,
       TeardownIInv DEF IdleNext, Handler, AlarmTick
<1>2. QED
  BY <1>1, IdleInitIInv, PTL DEF IdleSpec

(* open_refcount counts the kernel's handles, the opens and releases under *)
(* way and the opens whose reply was lost, and nothing else, however       *)
(* opens, failed opens, lost replies and releases interleave (ll.c).       *)
THEOREM RefcountCorrect == IdleSpec => []RefcountTracksHandles
<1>1. IdleIInv => RefcountTracksHandles
  BY DEF IdleIInv, CountOK, Replying, Releasing, RefcountTracksHandles
<1>2. QED
  BY <1>1, IdleInductive, PTL

(* alarm_tick (ll.c) only ends a session that was idle when it looked,     *)
(* if the difference of two time_t is compared as a signed number.         *)
THEOREM KillCorrect ==
    ASSUME NarrowTime = FALSE
    PROVE  IdleSpec => []KillJustified
<1>1. IdleIInv => KillJustified
  BY AgesNat, TimeAssumption DEF IdleIInv, TickOK, TypeOK, KillJustified, Expired,
     DifferenceExceeds
<1>2. QED
  BY <1>1, IdleInductive, PTL

-----------------------------------------------------------------------------
(***************************************************************************)
(* Numbers.                                                                *)
(***************************************************************************)
\* A set of numbers has a least element.
LEMMA Least ==
    ASSUME NEW S \in SUBSET Nat, S # {}
    PROVE  \E n \in S : \A m \in S : n <= m
<1> DEFINE R == OpToRel(<, Nat)
<1>1. IsWellFoundedOn(R, Nat)
  BY NatLessThanWellFounded
<1>2. \A m, n \in Nat : <<m, n>> \in R <=> m < n
  BY DEF OpToRel
<1> HIDE DEF R
<1>3. PICK n \in S : \A m \in S : ~ (<<m, n>> \in R)
  BY <1>1, WFMin
<1>4. \A m \in S : m \in Nat /\ n \in Nat /\ ~ (m < n)
  BY <1>2, <1>3
<1>5. QED
  BY <1>4

\* Induction, for a set of numbers in the place of a predicate.
LEMMA Induct ==
    ASSUME NEW S, 0 \in S, \A n \in Nat : n \in S => n + 1 \in S
    PROVE  Nat \subseteq S
<1> DEFINE T == Nat \ S
<1>1. SUFFICES ASSUME T # {} PROVE FALSE
  OBVIOUS
<1>2. PICK n \in T : \A m \in T : n <= m
  BY <1>1, Least
<1>3. n - 1 \in Nat /\ (n - 1) + 1 = n
  BY <1>2
<1>4. n - 1 \notin T
  BY <1>2, <1>3
<1>5. QED
  BY <1>2, <1>3, <1>4

\* Min is the least element.
LEMMA MinIs ==
    ASSUME NEW S \in SUBSET Nat, S # {}
    PROVE  Min(S) \in S /\ \A m \in S : Min(S) <= m
<1>1. \E n \in S : \A m \in S : n =< m
  BY Least
<1>2. QED
  BY <1>1 DEF Min

\* What quotient and remainder are.
LEMMA DivMod ==
    ASSUME NEW a \in Nat, NEW b \in Nat \ {0}
    PROVE  /\ a \div b \in Nat /\ a % b \in 0 .. b - 1
           /\ a = b * (a \div b) + (a % b)
  OBVIOUS

\* A multiple of a greater number is greater by at least the factor.
LEMMA Grows ==
    ASSUME NEW b \in Nat \ {0}, NEW v \in Int, NEW y \in Int, v < y
    PROVE  b * v + b <= b * y /\ b * v \in Int /\ b * y \in Int
  OBVIOUS

\* Quotient and remainder are determined.
LEMMA DivOf ==
    ASSUME NEW b \in Nat \ {0}, NEW v \in Nat, NEW r \in 0 .. b - 1
    PROVE  (b * v + r) \div b = v /\ (b * v + r) % b = r
<1>1. b * v \in Nat
  OBVIOUS
<1>2. PICK a \in Nat : a = b * v + r
  BY <1>1
<1>3. PICK y \in Int, s \in 0 .. b - 1 : y = a \div b /\ s = a % b /\ b * y + s = b * v + r
  BY <1>2, DivMod
<1>4. ~ (v < y) /\ ~ (y < v)
  BY <1>1, <1>3, Grows
<1>5. QED
  BY <1>1, <1>2, <1>3, <1>4

-----------------------------------------------------------------------------
(***************************************************************************)
(* Streams: things one behind the other.                                   *)
(***************************************************************************)
AreEnds(f, lens, m) == f = [i \in 0 .. m |-> IF i = 0 THEN 0 ELSE f[i - 1] + lens[i]]

\* Ends is the function that its recursion describes.
LEMMA EndsUnfold ==
    ASSUME NEW lens, Len(lens) \in Nat
    PROVE  AreEnds(Ends(lens), lens, Len(lens))
<1> DEFINE S == {m \in Nat : \E f : AreEnds(f, lens, m)}
<1>1. 0 \in S
  <2>1. AreEnds([i \in 0 .. 0 |-> 0], lens, 0)
    BY DEF AreEnds
  <2>2. QED
    BY <2>1
<1>2. ASSUME NEW m \in Nat, m \in S PROVE m + 1 \in S
  <2>1. PICK f : AreEnds(f, lens, m)
    BY <1>2
  <2> DEFINE g == [i \in 0 .. m + 1 |-> IF i = 0 THEN 0 ELSE f[i - 1] + lens[i]]
  <2>2. \A i \in 0 .. m : g[i] = f[i]
    BY <2>1 DEF AreEnds
  <2>3. \A i \in 0 .. m + 1 : i # 0 => i - 1 \in 0 .. m
    OBVIOUS
  <2>4. \A i \in 0 .. m + 1 : i # 0 => f[i - 1] = g[i - 1]
    BY <2>2, <2>3
  <2>5. g = [i \in 0 .. m + 1 |-> IF i = 0 THEN 0 ELSE g[i - 1] + lens[i]]
    BY <2>4, Zenon
  <2>6. \E f2 : AreEnds(f2, lens, m + 1)
    BY <2>5 DEF AreEnds
  <2>7. QED
    BY <2>6
<1> HIDE DEF S
<1>3. Len(lens) \in S
  BY <1>1, <1>2, Induct
<1>4. \E f : AreEnds(f, lens, Len(lens))
  BY <1>3 DEF S
<1>5. Ends(lens) = CHOOSE f : AreEnds(f, lens, Len(lens))
  BY DEF Ends, AreEnds
<1>6. QED
  BY <1>4, <1>5

\* Each ends where the one before it does, and its length further.
LEMMA EndsStep ==
    ASSUME NEW lens \in Seq(Nat)
    PROVE  /\ Ends(lens)[0] = 0
           /\ \A i \in 1 .. Len(lens) : Ends(lens)[i] = Ends(lens)[i - 1] + lens[i]
           /\ \A i \in 0 .. Len(lens) : Ends(lens)[i] \in Nat
<1>1. PICK f : f = Ends(lens)
  OBVIOUS
<1>2. f = [i \in 0 .. Len(lens) |-> IF i = 0 THEN 0 ELSE f[i - 1] + lens[i]]
  BY <1>1, EndsUnfold DEF AreEnds
<1>3. f[0] = 0
  BY <1>2
<1>4. ASSUME NEW i \in 1 .. Len(lens) PROVE f[i] = f[i - 1] + lens[i]
  <2>1. i \in 0 .. Len(lens) /\ i # 0
    OBVIOUS
  <2>2. QED
    BY <1>2, <2>1, Zenon
<1>5. \A i \in 0 .. Len(lens) : f[i] \in Nat
  <2> DEFINE S == {i \in Nat : i <= Len(lens) => f[i] \in Nat}
  <2>1. 0 \in S
    BY <1>3
  <2>2. ASSUME NEW i \in Nat, i \in S PROVE i + 1 \in S
    <3>1. i + 1 <= Len(lens) => f[i + 1] = f[(i + 1) - 1] + lens[i + 1] /\ lens[i + 1] \in Nat
      BY <1>4
    <3>2. QED
      BY <2>2, <3>1
  <2> HIDE DEF S
  <2>3. Nat \subseteq S
    BY <2>1, <2>2, Induct
  <2>4. QED
    BY <2>3 DEF S
<1>6. QED
  BY <1>1, <1>3, <1>4, <1>5

\* The first i of a sequence of sequences, one behind the other.
Heads(ss) ==
    LET flat[i \in 0 .. Len(ss)] == IF i = 0 THEN <<>> ELSE flat[i - 1] \o ss[i]
    IN flat

AreHeads(f, ss, m) == f = [i \in 0 .. m |-> IF i = 0 THEN <<>> ELSE f[i - 1] \o ss[i]]

\* Heads is the function that its recursion describes.
LEMMA HeadsUnfold ==
    ASSUME NEW ss, Len(ss) \in Nat
    PROVE  AreHeads(Heads(ss), ss, Len(ss))
<1> DEFINE S == {m \in Nat : \E f : AreHeads(f, ss, m)}
<1>1. 0 \in S
  <2>1. AreHeads([i \in 0 .. 0 |-> <<>>], ss, 0)
    BY DEF AreHeads
  <2>2. QED
    BY <2>1
<1>2. ASSUME NEW m \in Nat, m \in S PROVE m + 1 \in S
  <2>1. PICK f : AreHeads(f, ss, m)
    BY <1>2
  <2> DEFINE g == [i \in 0 .. m + 1 |-> IF i = 0 THEN <<>> ELSE f[i - 1] \o ss[i]]
  <2>2. \A i \in 0 .. m : g[i] = f[i]
    BY <2>1 DEF AreHeads
  <2>3. \A i \in 0 .. m + 1 : i # 0 => i - 1 \in 0 .. m
    OBVIOUS
  <2>4. \A i \in 0 .. m + 1 : i # 0 => f[i - 1] = g[i - 1]
    BY <2>2, <2>3
  <2>5. g = [i \in 0 .. m + 1 |-> IF i = 0 THEN <<>> ELSE g[i - 1] \o ss[i]]
    BY <2>4, Zenon
  <2>6. \E f2 : AreHeads(f2, ss, m + 1)
    BY <2>5 DEF AreHeads
  <2>7. QED
    BY <2>6
<1> HIDE DEF S
<1>3. Len(ss) \in S
  BY <1>1, <1>2, Induct
<1>4. \E f : AreHeads(f, ss, Len(ss))
  BY <1>3 DEF S
<1>5. Heads(ss) = CHOOSE f : AreHeads(f, ss, Len(ss))
  BY DEF Heads, AreHeads
<1>6. QED
  BY <1>4, <1>5

\* A stream is things that are sequences of cells.
IsStream(ss) == ss \in Seq(Seq(Nat))

\* What a stream is made of.
LEMMA SeqSeq ==
    ASSUME NEW ss, IsStream(ss)
    PROVE  /\ Len(ss) \in Nat /\ DOMAIN ss = 1 .. Len(ss)
           /\ \A i \in 1 .. Len(ss) : ss[i] \in Seq(Nat)
<1>1. PICK T : T = Seq(Nat)
  OBVIOUS
<1>2. ss \in Seq(T)
  BY <1>1 DEF IsStream
<1>3. /\ Len(ss) \in Nat /\ DOMAIN ss = 1 .. Len(ss)
      /\ \A i \in 1 .. Len(ss) : ss[i] \in T
  BY <1>2
<1>4. QED
  BY <1>1, <1>3

\* Each head is the one before it with one more thing behind it.
LEMMA HeadsStep ==
    ASSUME NEW ss, IsStream(ss)
    PROVE  /\ Heads(ss)[0] = <<>>
           /\ \A i \in 1 .. Len(ss) : Heads(ss)[i] = Heads(ss)[i - 1] \o ss[i]
           /\ \A i \in 0 .. Len(ss) : Heads(ss)[i] \in Seq(Nat)
<1>1. PICK f : f = Heads(ss)
  OBVIOUS
<1>2. f = [i \in 0 .. Len(ss) |-> IF i = 0 THEN <<>> ELSE f[i - 1] \o ss[i]]
  <2>1. AreHeads(Heads(ss), ss, Len(ss))
    BY SeqSeq, HeadsUnfold
  <2>2. QED
    BY <1>1, <2>1, Zenon DEF AreHeads
<1>3. f[0] = <<>>
  BY <1>2
<1>4. ASSUME NEW i \in 1 .. Len(ss) PROVE f[i] = f[i - 1] \o ss[i]
  <2>1. i \in 0 .. Len(ss) /\ i # 0
    OBVIOUS
  <2>2. QED
    BY <1>2, <2>1, Zenon
<1>5. \A i \in 0 .. Len(ss) : f[i] \in Seq(Nat)
  <2> DEFINE S == {i \in Nat : i <= Len(ss) => f[i] \in Seq(Nat)}
  <2>1. 0 \in S
    <3>1. <<>> \in Seq(Nat)
      BY EmptySeq
    <3>2. QED
      BY <1>3, <3>1, Zenon
  <2>2. ASSUME NEW i \in Nat, i \in S PROVE i + 1 \in S
    <3>1. i + 1 <= Len(ss) => f[i + 1] = f[i] \o ss[i + 1] /\ ss[i + 1] \in Seq(Nat)
      <4>1. i + 1 <= Len(ss) => i + 1 \in 1 .. Len(ss) /\ (i + 1) - 1 = i
        OBVIOUS
      <4>2. QED
        BY <1>4, <4>1, SeqSeq
    <3>2. i + 1 <= Len(ss) => i <= Len(ss)
      BY SeqSeq
    <3>3. i + 1 <= Len(ss) => f[i + 1] \in Seq(Nat)
      BY <2>2, <3>1, <3>2, ConcatProperties, Zenon
    <3>4. QED
      BY <3>3
  <2> HIDE DEF S
  <2>3. Nat \subseteq S
    BY <2>1, <2>2, Induct
  <2>4. QED
    BY <2>3, SeqSeq DEF S
<1>6. QED
  BY <1>1, <1>3, <1>4, <1>5

IsFlattened(f, ss) ==
    f = [i \in 1 .. Len(ss) |-> IF i = 1 THEN ss[i] ELSE f[i - 1] \o ss[i]]

\* FlattenSeq of the library is the last head.
LEMMA FlattenIs ==
    ASSUME NEW ss, IsStream(ss)
    PROVE  FlattenSeq(ss) = Heads(ss)[Len(ss)]
<1>1. CASE Len(ss) = 0
  <2>1. ss = <<>>
    BY <1>1
  <2>2. FlattenSeq(ss) = <<>>
    BY <1>1, <2>1 DEF FlattenSeq
  <2>3. QED
    BY <1>1, <2>2, HeadsStep
<1>2. CASE Len(ss) # 0
  <2>1. PICK n \in Nat \ {0} : n = Len(ss)
    BY <1>2, SeqSeq
  <2>2. PICK p : p = Heads(ss)
    OBVIOUS
  <2>3. /\ p[0] = <<>>
        /\ \A i \in 1 .. n : p[i] = p[i - 1] \o ss[i]
    BY <2>1, <2>2, HeadsStep
  <2>4. p[1] = ss[1]
    <3>1. p[1] = p[0] \o ss[1] /\ ss[1] \in Seq(Nat)
      <4>1. 1 \in 1 .. n /\ 1 - 1 = 0
        BY <2>1
      <4>2. QED
        BY <2>1, <2>3, <4>1, SeqSeq
    <3>2. QED
      BY <2>3, <3>1, ConcatEmptySeq
  <2> DEFINE g == [i \in 1 .. n |-> p[i]]
  <2>5. IsFlattened(g, ss)
    <3>1. \A i \in 1 .. n : i # 1 => i - 1 \in 1 .. n
      OBVIOUS
    <3>2. \A i \in 1 .. n : i # 1 => g[i - 1] = p[i - 1]
      BY <3>1
    <3>3. \A i \in 1 .. n : g[i] = IF i = 1 THEN ss[i] ELSE g[i - 1] \o ss[i]
      BY <2>3, <2>4, <3>2, Zenon
    <3> DEFINE h == [i \in 1 .. n |-> IF i = 1 THEN ss[i] ELSE g[i - 1] \o ss[i]]
    <3>4. g = h
      BY <3>3, Zenon
    <3>5. QED
      BY <2>1, <3>4 DEF IsFlattened
  <2> HIDE DEF g
  <2>6. PICK f : f = CHOOSE e : IsFlattened(e, ss)
    OBVIOUS
  <2>7. f = [i \in 1 .. n |-> IF i = 1 THEN ss[i] ELSE f[i - 1] \o ss[i]]
    <3>1. IsFlattened(f, ss)
      BY <2>5, <2>6
    <3>2. QED
      BY <2>1, <3>1 DEF IsFlattened
  <2>8. FlattenSeq(ss) = f[n]
    BY <1>2, <2>1, <2>6 DEF FlattenSeq, IsFlattened
  <2>9. f[n] = p[n]
    <3> DEFINE S == {i \in Nat : i + 1 <= n => f[i + 1] = p[i + 1]}
    <3>1. 0 \in S
      BY <2>4, <2>7
    <3>2. ASSUME NEW i \in Nat, i \in S PROVE i + 1 \in S
      <4>1. SUFFICES ASSUME (i + 1) + 1 <= n PROVE f[(i + 1) + 1] = p[(i + 1) + 1]
        OBVIOUS
      <4>2. PICK j \in 2 .. n : j = (i + 1) + 1
        BY <4>1
      <4>3. f[j - 1] = p[j - 1]
        BY <3>2, <4>2
      <4>4. f[j] = f[j - 1] \o ss[j]
        <5>1. j \in 1 .. n /\ j # 1
          OBVIOUS
        <5>2. QED
          BY <2>7, <5>1, Zenon
      <4>5. p[j] = p[j - 1] \o ss[j]
        <5>1. j \in 1 .. n
          OBVIOUS
        <5>2. QED
          BY <2>3, <5>1, Zenon
      <4>6. QED
        BY <4>2, <4>3, <4>4, <4>5
    <3> HIDE DEF S
    <3>3. Nat \subseteq S
      BY <3>1, <3>2, Induct
    <3>4. n - 1 \in S
      BY <3>3
    <3>5. QED
      BY <3>4 DEF S
  <2>10. QED
    BY <2>1, <2>2, <2>8, <2>9
<1>3. QED
  BY <1>1, <1>2

-----------------------------------------------------------------------------
(***************************************************************************)
(* The structures of inodes.                                               *)
(***************************************************************************)
\* Which of the fields that sqfs_inode_get looks for a structure has.
HasFields(f, nlink, file_size, symlink_size, rdev, xattr, data) ==
    /\ Len(f) \in Nat /\ Len(f) >= 5 /\ DOMAIN f = 1 .. Len(f)
    /\ f[1] = "inode_type"
    /\ {"uid", "guid", "inode_number"} \subseteq Range(f)
    /\ "nlink" \in Range(f) <=> nlink
    /\ "file_size" \in Range(f) <=> file_size
    /\ "symlink_size" \in Range(f) <=> symlink_size
    /\ "rdev" \in Range(f) <=> rdev
    /\ "xattr" \in Range(f) <=> xattr
    /\ \A g \in DataFields : g \in Range(f) <=> g \in data

\* The fields of the nine structures, one by one.
LEMMA Fields_dir ==
    HasFields(Struct.dir, TRUE, TRUE, FALSE, FALSE, FALSE,
              {"start_block", "offset", "parent_inode"})
<1>1. PICK f : f = Struct.dir
  OBVIOUS
<1>2. f = BaseInode \o <<"start_block", "nlink", "file_size", "offset", "parent_inode">>
  BY <1>1 DEF Struct
<1>3. /\ Len(f) = 9 /\ DOMAIN f = 1 .. 9
      /\ f[1] = "inode_type" /\ f[2] = "uid" /\ f[3] = "guid" /\ f[4] = "inode_number"
      /\ f[5] = "start_block" /\ f[6] = "nlink" /\ f[7] = "file_size"
      /\ f[8] = "offset" /\ f[9] = "parent_inode"
  BY <1>2 DEF BaseInode
<1>4. QED
  BY <1>1, <1>3 DEF HasFields, Range, DataFields

LEMMA Fields_reg ==
    HasFields(Struct.reg, FALSE, TRUE, FALSE, FALSE, FALSE,
              {"start_block", "fragment", "offset"})
<1>1. PICK f : f = Struct.reg
  OBVIOUS
<1>2. f = BaseInode \o <<"start_block", "fragment", "offset", "file_size">>
  BY <1>1 DEF Struct
<1>3. /\ Len(f) = 8 /\ DOMAIN f = 1 .. 8
      /\ f[1] = "inode_type" /\ f[2] = "uid" /\ f[3] = "guid" /\ f[4] = "inode_number"
      /\ f[5] = "start_block" /\ f[6] = "fragment" /\ f[7] = "offset" /\ f[8] = "file_size"
  BY <1>2 DEF BaseInode
<1>4. QED
  BY <1>1, <1>3 DEF HasFields, Range, DataFields

LEMMA Fields_symlink ==
    HasFields(Struct.symlink, TRUE, FALSE, TRUE, FALSE, FALSE, {})
<1>1. PICK f : f = Struct.symlink
  OBVIOUS
<1>2. f = BaseInode \o <<"nlink", "symlink_size">>
  BY <1>1 DEF Struct
<1>3. /\ Len(f) = 6 /\ DOMAIN f = 1 .. 6
      /\ f[1] = "inode_type" /\ f[2] = "uid" /\ f[3] = "guid" /\ f[4] = "inode_number"
      /\ f[5] = "nlink" /\ f[6] = "symlink_size"
  BY <1>2 DEF BaseInode
<1>4. QED
  BY <1>1, <1>3 DEF HasFields, Range, DataFields

LEMMA Fields_dev ==
    HasFields(Struct.dev, TRUE, FALSE, FALSE, TRUE, FALSE, {})
<1>1. PICK f : f = Struct.dev
  OBVIOUS
<1>2. f = BaseInode \o <<"nlink", "rdev">>
  BY <1>1 DEF Struct
<1>3. /\ Len(f) = 6 /\ DOMAIN f = 1 .. 6
      /\ f[1] = "inode_type" /\ f[2] = "uid" /\ f[3] = "guid" /\ f[4] = "inode_number"
      /\ f[5] = "nlink" /\ f[6] = "rdev"
  BY <1>2 DEF BaseInode
<1>4. QED
  BY <1>1, <1>3 DEF HasFields, Range, DataFields

LEMMA Fields_ipc ==
    HasFields(Struct.ipc, TRUE, FALSE, FALSE, FALSE, FALSE, {})
<1>1. PICK f : f = Struct.ipc
  OBVIOUS
<1>2. f = BaseInode \o <<"nlink">>
  BY <1>1 DEF Struct
<1>3. /\ Len(f) = 5 /\ DOMAIN f = 1 .. 5
      /\ f[1] = "inode_type" /\ f[2] = "uid" /\ f[3] = "guid" /\ f[4] = "inode_number"
      /\ f[5] = "nlink"
  BY <1>2 DEF BaseInode
<1>4. QED
  BY <1>1, <1>3 DEF HasFields, Range, DataFields

LEMMA Fields_ldir ==
    HasFields(Struct.ldir, TRUE, TRUE, FALSE, FALSE, TRUE,
              {"start_block", "offset", "parent_inode", "i_count"})
<1>1. PICK f : f = Struct.ldir
  OBVIOUS
<1>2. f = BaseInode \o <<"nlink", "file_size", "start_block", "parent_inode", "i_count",
                         "offset", "xattr">>
  BY <1>1 DEF Struct
<1>3. /\ Len(f) = 11 /\ DOMAIN f = 1 .. 11
      /\ f[1] = "inode_type" /\ f[2] = "uid" /\ f[3] = "guid" /\ f[4] = "inode_number"
      /\ f[5] = "nlink" /\ f[6] = "file_size" /\ f[7] = "start_block" /\ f[8] = "parent_inode"
      /\ f[9] = "i_count" /\ f[10] = "offset" /\ f[11] = "xattr"
  BY <1>2 DEF BaseInode
<1>4. QED
  BY <1>1, <1>3 DEF HasFields, Range, DataFields

LEMMA Fields_lreg ==
    HasFields(Struct.lreg, TRUE, TRUE, FALSE, FALSE, TRUE,
              {"start_block", "fragment", "offset"})
<1>1. PICK f : f = Struct.lreg
  OBVIOUS
<1>2. f = BaseInode \o <<"start_block", "file_size", "sparse", "nlink", "fragment",
                         "offset", "xattr">>
  BY <1>1 DEF Struct
<1>3. /\ Len(f) = 11 /\ DOMAIN f = 1 .. 11
      /\ f[1] = "inode_type" /\ f[2] = "uid" /\ f[3] = "guid" /\ f[4] = "inode_number"
      /\ f[5] = "start_block" /\ f[6] = "file_size" /\ f[7] = "sparse" /\ f[8] = "nlink"
      /\ f[9] = "fragment" /\ f[10] = "offset" /\ f[11] = "xattr"
  BY <1>2 DEF BaseInode
<1>4. QED
  BY <1>1, <1>3 DEF HasFields, Range, DataFields

LEMMA Fields_ldev ==
    HasFields(Struct.ldev, TRUE, FALSE, FALSE, TRUE, TRUE, {})
<1>1. PICK f : f = Struct.ldev
  OBVIOUS
<1>2. f = BaseInode \o <<"nlink", "rdev", "xattr">>
  BY <1>1 DEF Struct
<1>3. /\ Len(f) = 7 /\ DOMAIN f = 1 .. 7
      /\ f[1] = "inode_type" /\ f[2] = "uid" /\ f[3] = "guid" /\ f[4] = "inode_number"
      /\ f[5] = "nlink" /\ f[6] = "rdev" /\ f[7] = "xattr"
  BY <1>2 DEF BaseInode
<1>4. QED
  BY <1>1, <1>3 DEF HasFields, Range, DataFields

LEMMA Fields_lipc ==
    HasFields(Struct.lipc, TRUE, FALSE, FALSE, FALSE, TRUE, {})
<1>1. PICK f : f = Struct.lipc
  OBVIOUS
<1>2. f = BaseInode \o <<"nlink", "xattr">>
  BY <1>1 DEF Struct
<1>3. /\ Len(f) = 6 /\ DOMAIN f = 1 .. 6
      /\ f[1] = "inode_type" /\ f[2] = "uid" /\ f[3] = "guid" /\ f[4] = "inode_number"
      /\ f[5] = "nlink" /\ f[6] = "xattr"
  BY <1>2 DEF BaseInode
<1>4. QED
  BY <1>1, <1>3 DEF HasFields, Range, DataFields

\* The fields that the structure of an inode type has.
LEMMA FieldsOf ==
    ASSUME NEW type \in DOMAIN Kind
    PROVE  HasFields(Struct[Kind[type]], type # 2, IsReg(type) \/ IsDir(type), IsLink(type),
                     IsDev(type), Long(type) /\ type # LSYMLINK, DataOf(type))
<1>1. type \in 1 .. 14
  BY DEF Kind
<1>2. CASE type = 1
  <2>1. Struct[Kind[type]] = Struct.dir
    BY <1>2 DEF Kind
  <2>2. QED
    BY <1>2, <2>1, Fields_dir DEF HasFields, IsReg, IsDir, IsLink, IsDev, Long, LSYMLINK,
       DataOf, LDIR
<1>3. CASE type = 2
  <2>1. Struct[Kind[type]] = Struct.reg
    BY <1>3 DEF Kind
  <2>2. QED
    BY <1>3, <2>1, Fields_reg DEF HasFields, IsReg, IsDir, IsLink, IsDev, Long, LSYMLINK,
       DataOf, LDIR
<1>4. CASE type \in {3, 10}
  <2>1. Struct[Kind[type]] = Struct.symlink
    BY <1>4 DEF Kind
  <2>2. QED
    BY <1>4, <2>1, Fields_symlink DEF HasFields, IsReg, IsDir, IsLink, IsDev, Long, LSYMLINK,
       DataOf, LDIR
<1>5. CASE type \in {4, 5}
  <2>1. Struct[Kind[type]] = Struct.dev
    BY <1>5 DEF Kind
  <2>2. QED
    BY <1>5, <2>1, Fields_dev DEF HasFields, IsReg, IsDir, IsLink, IsDev, Long, LSYMLINK,
       DataOf, LDIR
<1>6. CASE type \in {6, 7}
  <2>1. Struct[Kind[type]] = Struct.ipc
    BY <1>6 DEF Kind
  <2>2. QED
    BY <1>6, <2>1, Fields_ipc DEF HasFields, IsReg, IsDir, IsLink, IsDev, Long, LSYMLINK,
       DataOf, LDIR
<1>7. CASE type = 8
  <2>1. Struct[Kind[type]] = Struct.ldir
    BY <1>7 DEF Kind
  <2>2. QED
    BY <1>7, <2>1, Fields_ldir DEF HasFields, IsReg, IsDir, IsLink, IsDev, Long, LSYMLINK,
       DataOf, LDIR
<1>8. CASE type = 9
  <2>1. Struct[Kind[type]] = Struct.lreg
    BY <1>8 DEF Kind
  <2>2. QED
    BY <1>8, <2>1, Fields_lreg DEF HasFields, IsReg, IsDir, IsLink, IsDev, Long, LSYMLINK,
       DataOf, LDIR
<1>9. CASE type \in {11, 12}
  <2>1. Struct[Kind[type]] = Struct.ldev
    BY <1>9 DEF Kind
  <2>2. QED
    BY <1>9, <2>1, Fields_ldev DEF HasFields, IsReg, IsDir, IsLink, IsDev, Long, LSYMLINK,
       DataOf, LDIR
<1>10. CASE type \in {13, 14}
  <2>1. Struct[Kind[type]] = Struct.lipc
    BY <1>10 DEF Kind
  <2>2. QED
    BY <1>10, <2>1, Fields_lipc DEF HasFields, IsReg, IsDir, IsLink, IsDev, Long, LSYMLINK,
       DataOf, LDIR
<1>11. QED
  BY <1>1, <1>2, <1>3, <1>4, <1>5, <1>6, <1>7, <1>8, <1>9, <1>10

-----------------------------------------------------------------------------
(***************************************************************************)
(* The cells of a stream.                                                  *)
(***************************************************************************)
Lens(ss) == [k \in DOMAIN ss |-> Len(ss[k])]

\* The lengths of the things of a stream.
LEMMA LensType ==
    ASSUME NEW ss, IsStream(ss)
    PROVE  /\ Lens(ss) \in Seq(Nat) /\ Len(Lens(ss)) = Len(ss)
           /\ \A i \in 1 .. Len(ss) : Lens(ss)[i] = Len(ss[i]) /\ Len(ss[i]) \in Nat
<1>1. PICK n \in Nat : n = Len(ss) /\ DOMAIN ss = 1 .. n
  BY SeqSeq
<1>2. \A i \in 1 .. n : Len(ss[i]) \in Nat
  BY <1>1, SeqSeq, LenProperties
<1>3. Lens(ss) = [i \in 1 .. n |-> Len(ss[i])]
  BY <1>1 DEF Lens
<1>4. PICK t : t = Lens(ss)
  OBVIOUS
<1>5. t \in [1 .. n -> Nat] /\ \A i \in 1 .. n : t[i] = Len(ss[i])
  BY <1>2, <1>3, <1>4
<1>6. t \in Seq(Nat) /\ Len(t) = n
  BY <1>5
<1>7. QED
  BY <1>1, <1>2, <1>4, <1>5, <1>6

\* Where the things of a stream end.
LEMMA EndsOf ==
    ASSUME NEW ss, IsStream(ss)
    PROVE  /\ Ends(Lens(ss))[0] = 0
           /\ \A i \in 1 .. Len(ss) : Ends(Lens(ss))[i] = Ends(Lens(ss))[i - 1] + Len(ss[i])
           /\ \A i \in 0 .. Len(ss) : Ends(Lens(ss))[i] \in Nat
<1>1. PICK n \in Nat, l \in Seq(Nat) : n = Len(ss) /\ l = Lens(ss) /\ Len(l) = n
  BY SeqSeq, LensType
<1>2. \A i \in 1 .. n : l[i] = Len(ss[i])
  BY <1>1, LensType
<1>3. /\ Ends(l)[0] = 0
      /\ \A i \in 1 .. n : Ends(l)[i] = Ends(l)[i - 1] + l[i]
      /\ \A i \in 0 .. n : Ends(l)[i] \in Nat
  BY <1>1, EndsStep
<1>4. QED
  BY <1>1, <1>2, <1>3

\* A head is as long as the place where its last thing ends.
LEMMA HeadsLen ==
    ASSUME NEW ss, IsStream(ss)
    PROVE  \A i \in 0 .. Len(ss) : Len(Heads(ss)[i]) = Ends(Lens(ss))[i]
<1>1. PICK n \in Nat : n = Len(ss)
  BY SeqSeq
<1>2. PICK p, e : p = Heads(ss) /\ e = Ends(Lens(ss))
  OBVIOUS
<1>3. /\ p[0] = <<>>
      /\ \A i \in 1 .. n : p[i] = p[i - 1] \o ss[i]
      /\ \A i \in 0 .. n : p[i] \in Seq(Nat)
  BY <1>1, <1>2, HeadsStep
<1>4. /\ e[0] = 0
      /\ \A i \in 1 .. n : e[i] = e[i - 1] + Len(ss[i])
  BY <1>1, <1>2, EndsOf
<1> DEFINE S == {i \in Nat : i <= n => Len(p[i]) = e[i]}
<1>5. 0 \in S
  BY <1>3, <1>4
<1>6. ASSUME NEW i \in Nat, i \in S PROVE i + 1 \in S
  <2>1. SUFFICES ASSUME i + 1 <= n PROVE Len(p[i + 1]) = e[i + 1]
    OBVIOUS
  <2>2. PICK j \in 1 .. n : j = i + 1
    BY <2>1
  <2>3. i = j - 1 /\ i \in 0 .. n
    BY <2>2
  <2>4. p[j] = p[i] \o ss[j] /\ e[j] = e[i] + Len(ss[j])
    BY <1>3, <1>4, <2>3
  <2>5. p[i] \in Seq(Nat) /\ ss[j] \in Seq(Nat)
    BY <1>1, <1>3, <2>3, SeqSeq
  <2>6. Len(p[j]) = Len(p[i]) + Len(ss[j])
    BY <2>4, <2>5, ConcatProperties
  <2>7. Len(p[i]) = e[i]
    BY <1>6, <2>3
  <2>8. QED
    BY <2>2, <2>4, <2>6, <2>7
<1> HIDE DEF S
<1>7. Nat \subseteq S
  BY <1>5, <1>6, Induct
<1>8. QED
  BY <1>1, <1>2, <1>7 DEF S

\* Where the elements of two sequences are when they are put together.
LEMMA ConcatAt ==
    ASSUME NEW a \in Seq(Nat), NEW b \in Seq(Nat)
    PROVE  /\ a \o b \in Seq(Nat) /\ Len(a) \in Nat /\ Len(b) \in Nat
           /\ Len(a \o b) = Len(a) + Len(b)
           /\ \A j \in 1 .. Len(a) : (a \o b)[j] = a[j]
           /\ \A j \in 1 .. Len(b) : (a \o b)[Len(a) + j] = b[j]
<1>1. PICK m \in Nat, n \in Nat : m = Len(a) /\ n = Len(b)
  OBVIOUS
<1>2. PICK c : c = a \o b
  OBVIOUS
<1>3. /\ c \in Seq(Nat) /\ Len(c) = m + n
      /\ \A i \in 1 .. m + n : c[i] = IF i <= m THEN a[i] ELSE b[i - m]
  BY <1>1, <1>2, ConcatProperties
<1>4. \A j \in 1 .. m : c[j] = a[j]
  BY <1>3
<1>5. \A j \in 1 .. n : m + j \in 1 .. m + n /\ ~ (m + j <= m) /\ (m + j) - m = j
  OBVIOUS
<1>6. \A j \in 1 .. n : c[m + j] = b[j]
  BY <1>3, <1>5
<1>7. QED
  BY <1>1, <1>2, <1>3, <1>4, <1>6

(* Cell k of the i-th thing of a stream, from where that starts.           *)
LEMMA StreamCell ==
    ASSUME NEW ss, IsStream(ss), NEW i \in 1 .. Len(ss), NEW k \in 1 .. Len(ss[i])
    PROVE  Cell(FlattenSeq(ss), Ends(Lens(ss))[i - 1] + k - 1) = ss[i][k]
<1>1. PICK n \in Nat : n = Len(ss)
  BY SeqSeq
<1>2. PICK p : p = Heads(ss)
  OBVIOUS
<1> i \in 1 .. n /\ i - 1 \in 0 .. n
  BY <1>1
<1>3. PICK e \in Nat : e = Ends(Lens(ss))[i - 1]
  BY <1>1, EndsOf
<1>4. /\ \A j \in 1 .. n : p[j] = p[j - 1] \o ss[j]
      /\ \A j \in 0 .. n : p[j] \in Seq(Nat)
  BY <1>1, <1>2, HeadsStep
<1>5. Len(p[i - 1]) = e
  BY <1>1, <1>2, <1>3, HeadsLen
<1>6. PICK c : c = ss[i][k]
  OBVIOUS
<1> DEFINE S == {m \in Nat : i + m <= n => Len(p[i + m]) >= e + k /\ p[i + m][e + k] = c}
<1>7. 0 \in S
  <2>1. p[i] = p[i - 1] \o ss[i] /\ p[i - 1] \in Seq(Nat) /\ ss[i] \in Seq(Nat)
    BY <1>1, <1>4, SeqSeq
  <2>2. PICK a, b : a = p[i - 1] /\ b = ss[i] /\ a \in Seq(Nat) /\ b \in Seq(Nat)
    BY <2>1
  <2>3. Len(a) = e /\ k \in 1 .. Len(b)
    BY <1>5, <2>2
  <2>4. Len(p[i]) >= e + k /\ p[i][e + k] = c
    <3>1. Len(a \o b) = e + Len(b) /\ (a \o b)[e + k] = b[k] /\ Len(b) \in Nat
      BY <2>2, <2>3, ConcatAt
    <3>2. p[i] = a \o b /\ c = b[k]
      BY <1>6, <2>1, <2>2
    <3>3. QED
      BY <2>3, <3>1, <3>2
  <2>5. i + 0 = i
    BY <1>1
  <2>6. QED
    BY <2>4, <2>5
<1>8. ASSUME NEW m \in Nat, m \in S PROVE m + 1 \in S
  <2>1. SUFFICES ASSUME i + (m + 1) <= n
                 PROVE  Len(p[i + (m + 1)]) >= e + k /\ p[i + (m + 1)][e + k] = c
    OBVIOUS
  <2>2. PICK j \in 1 .. n : j = i + (m + 1)
    BY <1>1, <2>1
  <2>3. j - 1 = i + m /\ i + m <= n /\ j - 1 \in 0 .. n
    BY <1>1, <2>2
  <2>4. PICK a, b : a = p[j - 1] /\ b = ss[j] /\ a \in Seq(Nat) /\ b \in Seq(Nat)
    BY <1>1, <1>4, <2>3, SeqSeq
  <2>5. Len(a) >= e + k /\ a[e + k] = c
    BY <1>8, <2>3, <2>4
  <2>6. Len(a \o b) = Len(a) + Len(b) /\ (a \o b)[e + k] = a[e + k]
    <3>1. Len(a) \in Nat /\ k \in Nat \ {0}
      BY <1>1, <2>4, SeqSeq, ConcatAt
    <3>2. e + k \in 1 .. Len(a)
      BY <2>5, <3>1
    <3>3. QED
      BY <2>4, <3>2, ConcatAt
  <2>7. p[j] = a \o b
    BY <1>4, <2>4
  <2>8. Len(a) \in Nat /\ Len(b) \in Nat /\ k \in Nat
    BY <1>1, <2>4, SeqSeq, ConcatAt
  <2>9. Len(p[j]) >= e + k /\ p[j][e + k] = c
    BY <2>5, <2>6, <2>7, <2>8
  <2>10. QED
    BY <2>2, <2>9
<1> HIDE DEF S
<1>9. Nat \subseteq S
  BY <1>7, <1>8, Induct
<1>10. Len(p[n]) >= e + k /\ p[n][e + k] = c
  <2>1. n - i \in Nat /\ i + (n - i) = n
    BY <1>1
  <2>2. QED
    BY <1>9, <2>1 DEF S
<1>11. FlattenSeq(ss) = p[n] /\ p[n] \in Seq(Nat)
  BY <1>1, <1>2, <1>4, FlattenIs
<1>12. k \in Nat \ {0} /\ Len(p[n]) \in Nat /\ DOMAIN p[n] = 1 .. Len(p[n])
  BY <1>1, <1>11, SeqSeq, LenProperties
<1>13. (e + k - 1) + 1 = e + k /\ e + k \in DOMAIN p[n]
  BY <1>10, <1>12
<1>14. QED
  BY <1>3, <1>6, <1>10, <1>11, <1>13 DEF Cell

-----------------------------------------------------------------------------
(***************************************************************************)
(* What is stored of an inode.                                             *)
(***************************************************************************)
LEMMA DevSizes == MinorLow \in Nat \ {0} /\ MajorLimit \in Nat \ {0} /\ MinorHigh \in Nat \ {0}
  BY AttributesAssumption

\* A device number can be decoded.
LEMMA DevRoundTrip ==
    ASSUME NEW major \in 0 .. MajorLimit - 1, NEW minor \in 0 .. MinorLow * MinorHigh - 1
    PROVE  /\ EncodeDev(major, minor) \in Nat
           /\ DecodeDev(EncodeDev(major, minor)) = <<major, minor>>
<1>1. PICK L \in Nat \ {0}, M \in Nat \ {0}, H \in Nat \ {0} :
        L = MinorLow /\ M = MajorLimit /\ H = MinorHigh
  BY DevSizes
<1>2. minor \in Nat /\ major \in Nat /\ major < M /\ minor < L * H
  <2>1. L * H \in Nat
    OBVIOUS
  <2>2. QED
    BY <1>1, <2>1
<1>3. PICK q \in Nat, r \in 0 .. L - 1 : q = minor \div L /\ r = minor % L /\ minor = L * q + r
  <2>1. minor \div L \in Nat /\ minor % L \in 0 .. L - 1 /\ minor = L * (minor \div L) + (minor % L)
    BY <1>2, DivMod
  <2>2. QED
    BY <2>1, Zenon
<1>4. q < H
  <2>1. SUFFICES ASSUME H <= q PROVE FALSE
    BY <1>1
  <2>2. L * H <= L * q /\ L * q \in Nat /\ L * H \in Nat
    BY <2>1, Grows
  <2>3. QED
    BY <1>2, <1>3, <2>2
<1>5. PICK h \in Nat : h = major + M * q
  OBVIOUS
<1>6. PICK d \in Nat : d = L * h + r
  OBVIOUS
<1>7. EncodeDev(major, minor) = d
  <2>1. q * L * M = L * (M * q) /\ major * L = L * major /\ L * (major + M * q) = L * major + L * (M * q)
    OBVIOUS
  <2>2. EncodeDev(major, minor) = r + major * L + q * L * M
    BY <1>1, <1>3 DEF EncodeDev
  <2>3. L * (M * q) \in Nat /\ L * major \in Nat
    BY <1>2
  <2>4. QED
    BY <1>5, <1>6, <2>1, <2>2, <2>3
<1>8. d \div L = h /\ d % L = r
  BY <1>6, DivOf
<1>9. h % M = major
  <2>1. major \in 0 .. M - 1 /\ h = M * q + major
    BY <1>2, <1>5
  <2>2. QED
    BY <2>1, DivOf
<1>10. d \div (M * L) = q
  <2>1. PICK b \in Nat \ {0} : b = M * L
    OBVIOUS
  <2>2. L * major + r \in 0 .. b - 1
    <3>1. L * major + L <= L * M /\ L * major \in Nat
      BY <1>2, Grows
    <3>2. L * M = b
      BY <2>1
    <3>3. QED
      BY <3>1, <3>2
  <2>3. d = b * q + (L * major + r)
    <3>1. L * (major + M * q) = L * major + L * (M * q) /\ L * (M * q) = (M * L) * q
      OBVIOUS
    <3>2. (M * L) * q \in Nat /\ L * major \in Nat
      BY <1>2
    <3>3. QED
      BY <1>5, <1>6, <2>1, <3>1, <3>2
  <2>4. (b * q + (L * major + r)) \div b = q
    BY <2>2, DivOf
  <2>5. QED
    BY <2>1, <2>3, <2>4
<1>11. q % H = q
  <2>1. q \in 0 .. H - 1 /\ H * 0 + q = q
    BY <1>4
  <2>2. (H * 0 + q) % H = q
    BY <2>1, DivOf
  <2>3. QED
    BY <2>1, <2>2
<1>12. DecodeDev(d) = <<major, r + q * L>>
  BY <1>1, <1>8, <1>9, <1>10, <1>11 DEF DecodeDev
<1>13. r + q * L = minor
  <2>1. q * L = L * q /\ L * q \in Nat
    OBVIOUS
  <2>2. QED
    BY <1>3, <2>1
<1>14. QED
  BY <1>6, <1>7, <1>12, <1>13

\* The types of what an inode is made of.
LEMMA InodeType ==
    ASSUME NEW n \in Inodes
    PROVE  /\ n.type \in DOMAIN Kind /\ n.type \in Nat
           /\ n.uid \in Nat /\ n.guid \in Nat /\ n.num \in Nat /\ n.xattr \in Nat
           /\ n.nlink \in Nat /\ n.size \in Nat /\ n.data \in [DataFields -> Nat]
           /\ n.tail \in Seq(Nat) /\ Len(n.tail) \in Nat
           /\ n.major \in 0 .. MajorLimit - 1 /\ n.minor \in 0 .. MinorLow * MinorHigh - 1
<1>1. /\ n.type \in DOMAIN Kind
      /\ n.uid \in Nat /\ n.guid \in Nat /\ n.num \in Nat /\ n.xattr \in Nat
      /\ n.nlink \in Nat /\ n.size \in Nat /\ n.data \in [DataFields -> Nat]
      /\ n.tail \in Seq(Nat)
      /\ n.major \in 0 .. MajorLimit - 1 /\ n.minor \in 0 .. MinorLow * MinorHigh - 1
  BY DEF Inodes
<1>2. n.type \in Nat
  BY <1>1 DEF Kind
<1>3. Len(n.tail) \in Nat
  BY <1>1
<1>4. QED
  BY <1>1, <1>2, <1>3

\* A stored field is a number.
LEMMA FieldType ==
    ASSUME NEW n \in Inodes, NEW f
    PROVE  Field(n, f) \in Nat
<1>1. EncodeDev(n.major, n.minor) \in Nat
  BY InodeType, DevRoundTrip
<1>2. Junk \in Nat
  BY DEF Junk
<1>3. QED
  BY <1>1, <1>2, InodeType DEF Field

\* The value of each field.
LEMMA FieldIs ==
    ASSUME NEW n
    PROVE  /\ Field(n, "inode_type") = n.type /\ Field(n, "uid") = n.uid
           /\ Field(n, "guid") = n.guid /\ Field(n, "inode_number") = n.num
           /\ Field(n, "nlink") = n.nlink /\ Field(n, "symlink_size") = Len(n.tail)
           /\ Field(n, "file_size") = n.size /\ Field(n, "xattr") = n.xattr
           /\ Field(n, "rdev") = EncodeDev(n.major, n.minor)
           /\ \A g \in DataFields : Field(n, g) = n.data[g]
  BY DEF Field, DataFields

FieldsOfInode(n) == Struct[Kind[n.type]]

\* The cells of an inode: the fields, what is behind them, a link's xattr.
LEMMA StoredInodeIs ==
    ASSUME NEW n \in Inodes
    PROVE  LET s == StoredInode(n)
               m == Len(FieldsOfInode(n))
           IN /\ s \in Seq(Nat) /\ m \in Nat /\ m >= 5 /\ m <= Len(s)
              /\ \A k \in 1 .. m : s[k] = Field(n, FieldsOfInode(n)[k])
              /\ HasTail(n.type) =>
                   /\ m + Len(n.tail) <= Len(s)
                   /\ \A k \in 1 .. Len(n.tail) : s[m + k] = n.tail[k]
              /\ n.type = LSYMLINK =>
                   m + Len(n.tail) + 1 <= Len(s) /\ s[m + Len(n.tail) + 1] = n.xattr
<1>1. PICK f : f = FieldsOfInode(n)
  OBVIOUS
<1>2. PICK m \in Nat : m = Len(f) /\ m >= 5 /\ DOMAIN f = 1 .. m
  BY <1>1, InodeType, FieldsOf DEF FieldsOfInode, HasFields
<1>3. PICK a : a = [i \in 1 .. m |-> Field(n, f[i])]
  OBVIOUS
<1>4. a \in Seq(Nat) /\ Len(a) = m
  <2>1. a \in [1 .. m -> Nat]
    BY <1>3, FieldType
  <2>2. QED
    BY <2>1
<1>5. PICK b \in Seq(Nat) : b = IF HasTail(n.type) THEN n.tail ELSE <<>>
  BY InodeType, EmptySeq
<1>6. PICK c \in Seq(Nat) : c = IF n.type = LSYMLINK THEN <<n.xattr>> ELSE <<>>
  <2>1. <<n.xattr>> \in Seq(Nat) /\ <<>> \in Seq(Nat)
    BY InodeType, EmptySeq
  <2>2. QED
    BY <2>1, Zenon
<1>7. StoredInode(n) = a \o b \o c
  BY <1>1, <1>2, <1>3, <1>5, <1>6 DEF StoredInode, FieldsOfInode
<1>8. PICK d \in Seq(Nat) : /\ d = a \o b /\ Len(d) = m + Len(b) /\ Len(b) \in Nat
                             /\ \A k \in 1 .. m : d[k] = a[k]
                             /\ \A j \in 1 .. Len(b) : d[m + j] = b[j]
  <2>1. PICK d : d = a \o b
    OBVIOUS
  <2>2. /\ d \in Seq(Nat) /\ Len(d) = Len(a) + Len(b) /\ Len(b) \in Nat
        /\ \A k \in 1 .. Len(a) : d[k] = a[k]
        /\ \A k \in 1 .. Len(b) : d[Len(a) + k] = b[k]
    BY <1>4, <2>1, ConcatAt, Zenon
  <2>3. QED
    BY <1>4, <2>1, <2>2, Zenon
<1>9. PICK s \in Seq(Nat) : /\ s = d \o c /\ Len(s) = Len(d) + Len(c)
                             /\ Len(c) \in Nat /\ Len(d) \in Nat
                             /\ \A k \in 1 .. Len(d) : s[k] = d[k]
                             /\ \A j \in 1 .. Len(c) : s[Len(d) + j] = c[j]
  <2>1. PICK s : s = d \o c
    OBVIOUS
  <2>2. /\ s \in Seq(Nat) /\ Len(s) = Len(d) + Len(c) /\ Len(c) \in Nat /\ Len(d) \in Nat
        /\ \A k \in 1 .. Len(d) : s[k] = d[k]
        /\ \A k \in 1 .. Len(c) : s[Len(d) + k] = c[k]
    BY <2>1, ConcatAt, Zenon
  <2>3. QED
    BY <2>1, <2>2, Zenon
<1>10. m <= Len(s) /\ \A k \in 1 .. m : s[k] = Field(n, f[k])
  <2>1. \A k \in 1 .. m : k \in 1 .. Len(d)
    BY <1>8
  <2>2. QED
    BY <1>3, <1>8, <1>9, <2>1
<1>11. ASSUME HasTail(n.type)
       PROVE  /\ m + Len(n.tail) <= Len(s)
              /\ \A k \in 1 .. Len(n.tail) : s[m + k] = n.tail[k]
  <2>1. b = n.tail
    BY <1>5, <1>11
  <2>2. PICK j \in Nat : j = Len(b) /\ Len(d) = m + j
    BY <1>8
  <2>3. ASSUME NEW k \in 1 .. j PROVE s[m + k] = b[k]
    <3>1. m + k \in 1 .. m + j
      OBVIOUS
    <3>2. s[m + k] = d[m + k] /\ d[m + k] = b[k]
      BY <1>8, <1>9, <2>2, <3>1
    <3>3. QED
      BY <3>2
  <2>4. m + j <= Len(s)
    BY <1>9, <2>2
  <2>5. QED
    BY <2>1, <2>2, <2>3, <2>4
<1>12. ASSUME n.type = LSYMLINK
       PROVE  m + Len(n.tail) + 1 <= Len(s) /\ s[m + Len(n.tail) + 1] = n.xattr
  <2>1. b = n.tail /\ c = <<n.xattr>>
    BY <1>5, <1>6, <1>12 DEF HasTail, IsLink, LSYMLINK
  <2>2. Len(c) = 1 /\ c[1] = n.xattr
    BY <2>1
  <2>3. Len(d) = m + Len(n.tail)
    BY <1>8, <2>1
  <2>4. QED
    BY <1>9, <2>2, <2>3
<1>13. StoredInode(n) = s
  BY <1>7, <1>8, <1>9
<1>14. QED
  BY <1>1, <1>2, <1>10, <1>11, <1>12, <1>13

-----------------------------------------------------------------------------
(***************************************************************************)
(* Images.                                                                 *)
(***************************************************************************)
LEMMA SeqFacts ==
    ASSUME NEW S, NEW s \in Seq(S)
    PROVE  Len(s) \in Nat /\ DOMAIN s = 1 .. Len(s) /\ \A i \in 1 .. Len(s) : s[i] \in S
  BY LenProperties, ElementOfSeq

\* What is known of the inodes of an image.
LEMMA ImageInodes ==
    ASSUME NEW img, IsImage(img)
    PROVE  /\ Len(img.inodes) \in Nat /\ DOMAIN img.inodes = 1 .. Len(img.inodes)
           /\ \A i \in 1 .. Len(img.inodes) :
                /\ img.inodes[i] \in Inodes
                /\ img.inodes[i].uid \in 0 .. Len(img.ids) - 1
                /\ img.inodes[i].guid \in 0 .. Len(img.ids) - 1
                /\ img.inodes[i].num \in 1 .. Len(img.inodes)
                /\ Len(img.inodes[i].tail) > 0
                /\ img.inodes[i].xattr # NoXattr =>
                     Long(img.inodes[i].type) /\ img.inodes[i].xattr < Len(img.sets)
           /\ \A i, j \in 1 .. Len(img.inodes) :
                img.inodes[i].num = img.inodes[j].num => i = j
           /\ img.root \in 1 .. Len(img.inodes)
           /\ Len(img.ids) \in Nat /\ DOMAIN img.ids = 1 .. Len(img.ids)
           /\ \A i \in 1 .. Len(img.ids) : img.ids[i] \in Nat
           /\ img.asUid \in Nat /\ img.asGid \in Nat
<1>1. /\ img.inodes \in Seq(Inodes) /\ img.ids \in Seq(Nat)
      /\ \A i \in DOMAIN img.inodes :
         LET n == img.inodes[i]
         IN /\ {n.uid, n.guid} \subseteq 0 .. Len(img.ids) - 1
            /\ n.xattr # NoXattr => Long(n.type) /\ n.xattr < Len(img.sets)
            /\ n.num \in 1 .. Len(img.inodes) /\ Len(n.tail) > 0
      /\ \A i, j \in DOMAIN img.inodes : i # j => img.inodes[i].num # img.inodes[j].num
      /\ img.root \in DOMAIN img.inodes
      /\ img.asUid \in Nat /\ img.asGid \in Nat
  BY DEF IsImage
<1>2. /\ Len(img.inodes) \in Nat /\ DOMAIN img.inodes = 1 .. Len(img.inodes)
      /\ \A i \in 1 .. Len(img.inodes) : img.inodes[i] \in Inodes
  <2>1. PICK T : T = Inodes
    OBVIOUS
  <2>2. img.inodes \in Seq(T)
    BY <1>1, <2>1
  <2>3. QED
    BY <2>1, <2>2, SeqFacts
<1>3. /\ Len(img.ids) \in Nat /\ DOMAIN img.ids = 1 .. Len(img.ids)
      /\ \A i \in 1 .. Len(img.ids) : img.ids[i] \in Nat
  BY <1>1, SeqFacts
<1>4. QED
  BY <1>1, <1>2, <1>3, Zenon

\* What is known of the attributes and their sets.
LEMMA ImageAttrs ==
    ASSUME NEW img, IsImage(img)
    PROVE  /\ Len(img.attrs) \in Nat /\ DOMAIN img.attrs = 1 .. Len(img.attrs)
           /\ \A j \in 1 .. Len(img.attrs) :
                /\ img.attrs[j] \in Attrs
                /\ img.attrs[j].shared # 0 =>
                     /\ img.attrs[j].shared \in 1 .. Len(img.attrs)
                     /\ img.attrs[img.attrs[j].shared].shared = 0
           /\ Len(img.sets) \in Nat /\ DOMAIN img.sets = 1 .. Len(img.sets)
           /\ \A k \in 1 .. Len(img.sets) :
                /\ img.sets[k].first \in Nat \ {0} /\ img.sets[k].count \in Nat \ {0}
                /\ img.sets[k].first + img.sets[k].count - 1 <= Len(img.attrs)
<1> DEFINE Sets == [first : Nat \ {0}, count : Nat \ {0}]
<1>1. /\ img.attrs \in Seq(Attrs) /\ img.sets \in Seq(Sets)
      /\ \A j \in DOMAIN img.attrs :
           LET s == img.attrs[j].shared IN s # 0 => s < j /\ img.attrs[s].shared = 0
      /\ \A k \in DOMAIN img.sets : img.sets[k].first + img.sets[k].count - 1 \in DOMAIN img.attrs
  BY DEF IsImage
<1>2. PICK n \in Nat : /\ n = Len(img.attrs) /\ DOMAIN img.attrs = 1 .. n
                       /\ \A j \in 1 .. n : img.attrs[j] \in Attrs
  <2>1. /\ Len(img.attrs) \in Nat /\ DOMAIN img.attrs = 1 .. Len(img.attrs)
        /\ \A j \in 1 .. Len(img.attrs) : img.attrs[j] \in Attrs
    BY <1>1, SeqFacts
  <2>2. QED
    BY <2>1, Zenon
<1>3. PICK m \in Nat : /\ m = Len(img.sets) /\ DOMAIN img.sets = 1 .. m
                       /\ \A k \in 1 .. m : img.sets[k] \in Sets
  <2>1. /\ Len(img.sets) \in Nat /\ DOMAIN img.sets = 1 .. Len(img.sets)
        /\ \A j \in 1 .. Len(img.sets) : img.sets[j] \in Sets
    BY <1>1, SeqFacts
  <2>2. QED
    BY <2>1, Zenon
<1>4. ASSUME NEW j \in 1 .. n, img.attrs[j].shared # 0
      PROVE  img.attrs[j].shared \in 1 .. n /\ img.attrs[img.attrs[j].shared].shared = 0
  <2>1. img.attrs[j] \in Attrs
    BY <1>2
  <2>2. img.attrs[j].shared \in Nat
    BY <2>1 DEF Attrs
  <2>3. img.attrs[j].shared < j /\ img.attrs[img.attrs[j].shared].shared = 0
    BY <1>1, <1>2, <1>4
  <2>4. QED
    BY <1>4, <2>2, <2>3
<1>5. ASSUME NEW k \in 1 .. m
      PROVE  /\ img.sets[k].first \in Nat \ {0} /\ img.sets[k].count \in Nat \ {0}
             /\ img.sets[k].first + img.sets[k].count - 1 <= n
  <2>1. img.sets[k].first \in Nat \ {0} /\ img.sets[k].count \in Nat \ {0}
    BY <1>3
  <2>2. img.sets[k].first + img.sets[k].count - 1 \in 1 .. n
    BY <1>1, <1>2, <1>3
  <2>3. QED
    BY <2>1, <2>2
<1>6. QED
  BY <1>2, <1>3, <1>4, <1>5

\* The inodes are a stream of structures, with their targets and xattrs.
LEMMA InodesStream ==
    ASSUME NEW img, IsImage(img)
    PROVE  /\ IsStream(StoredInodes(img)) /\ Len(StoredInodes(img)) = Len(img.inodes)
           /\ \A i \in 1 .. Len(img.inodes) :
                /\ StoredInodes(img)[i] = StoredInode(img.inodes[i])
                /\ InodeId(img, i) = Ends(Lens(StoredInodes(img)))[i - 1]
<1>1. PICK n \in Nat : /\ n = Len(img.inodes) /\ DOMAIN img.inodes = 1 .. n
                       /\ \A i \in 1 .. n : img.inodes[i] \in Inodes
  <2>1. /\ Len(img.inodes) \in Nat /\ DOMAIN img.inodes = 1 .. Len(img.inodes)
        /\ \A i \in 1 .. Len(img.inodes) : img.inodes[i] \in Inodes
    BY ImageInodes
  <2>2. QED
    BY <2>1, Zenon
<1>2. PICK T : T = Seq(Nat)
  OBVIOUS
<1>3. \A i \in 1 .. n : StoredInode(img.inodes[i]) \in T
  BY <1>1, <1>2, StoredInodeIs
<1>4. StoredInodes(img) = [i \in 1 .. n |-> StoredInode(img.inodes[i])]
  BY <1>1 DEF StoredInodes
<1>5. PICK ss : ss = StoredInodes(img)
  OBVIOUS
<1>6. ss \in [1 .. n -> T] /\ \A i \in 1 .. n : ss[i] = StoredInode(img.inodes[i])
  BY <1>3, <1>4, <1>5
<1>7. ss \in Seq(T) /\ Len(ss) = n /\ DOMAIN ss = 1 .. n
  BY <1>6
<1>8. Lens(ss) = [k \in 1 .. n |-> Len(StoredInode(img.inodes[k]))]
  BY <1>6, <1>7 DEF Lens
<1>9. \A i \in 1 .. n : InodeId(img, i) = Ends(Lens(ss))[i - 1]
  BY <1>1, <1>8 DEF InodeId
<1>10. QED
  BY <1>1, <1>2, <1>5, <1>6, <1>7, <1>9 DEF IsStream

\* Cell k of the inode i is where InodeId says.
LEMMA InodeCell ==
    ASSUME NEW img, IsImage(img), NEW i \in 1 .. Len(img.inodes),
           NEW k \in 1 .. Len(StoredInode(img.inodes[i]))
    PROVE  /\ InodeId(img, i) \in Nat
           /\ Cell(InodeTable(img), InodeId(img, i) + k - 1) = StoredInode(img.inodes[i])[k]
<1>1. PICK ss : ss = StoredInodes(img) /\ IsStream(ss)
  BY InodesStream
<1>2. /\ Len(ss) = Len(img.inodes) /\ ss[i] = StoredInode(img.inodes[i])
      /\ InodeId(img, i) = Ends(Lens(ss))[i - 1]
  BY <1>1, InodesStream
<1>3. Ends(Lens(ss))[i - 1] \in Nat
  BY <1>1, <1>2, EndsOf, ImageInodes
<1>4. Cell(FlattenSeq(ss), Ends(Lens(ss))[i - 1] + k - 1) = ss[i][k]
  BY <1>1, <1>2, StreamCell
<1>5. QED
  BY <1>1, <1>2, <1>3, <1>4 DEF InodeTable

\* The first inode is at 0, and no inode is at 1 or 2.
LEMMA InodeIdIs ==
    ASSUME NEW img, IsImage(img), NEW i \in 1 .. Len(img.inodes)
    PROVE  InodeId(img, i) \in Nat /\ (InodeId(img, i) = 0 \/ InodeId(img, i) >= 5)
<1>1. PICK ss : ss = StoredInodes(img) /\ IsStream(ss)
  BY InodesStream
<1>2. PICK n \in Nat : n = Len(ss) /\ n = Len(img.inodes)
  BY <1>1, SeqSeq, InodesStream
<1>3. i \in 1 .. n /\ InodeId(img, i) = Ends(Lens(ss))[i - 1]
  BY <1>1, <1>2, InodesStream
<1>4. PICK e : /\ e = Ends(Lens(ss)) /\ e[0] = 0
               /\ \A j \in 1 .. n : e[j] = e[j - 1] + Len(ss[j])
               /\ \A j \in 0 .. n : e[j] \in Nat
  BY <1>1, <1>2, EndsOf
<1>5. CASE i = 1
  BY <1>3, <1>4, <1>5
<1>6. CASE i # 1
  <2>1. PICK j \in 1 .. n : j = i - 1
    BY <1>3, <1>6
  <2>2. e[j] = e[j - 1] + Len(ss[j]) /\ e[j - 1] \in Nat
    BY <1>4
  <2>3. Len(ss[j]) \in Nat /\ Len(ss[j]) >= 5
    <3>1. ss[j] = StoredInode(img.inodes[j]) /\ img.inodes[j] \in Inodes
      BY <1>1, <1>2, InodesStream, ImageInodes
    <3>2. Len(StoredInode(img.inodes[j])) \in Nat
      BY <3>1, StoredInodeIs, LenProperties
    <3>3. QED
      BY <3>1, <3>2, StoredInodeIs
  <2>4. QED
    BY <1>3, <1>4, <2>1, <2>2, <2>3
<1>7. QED
  BY <1>5, <1>6

-----------------------------------------------------------------------------
(***************************************************************************)
(* Tables and inode numbers.                                               *)
(***************************************************************************)
\* An entry of a table is never cut by the end of an MD-block.
LEMMA TableGetIs ==
    ASSUME NEW each \in Nat \ {0}, NEW K \in Nat \ {0}, MetaSize = each * K,
           NEW entries, Len(entries) \in Nat, DOMAIN entries = 1 .. Len(entries),
           NEW idx \in 0 .. Len(entries) - 1
    PROVE  TableGet(each, entries, idx) = entries[idx + 1]
<1>1. PICK M \in Nat \ {0}, N \in Nat : M = MetaSize /\ N = Len(entries)
  BY AttributesAssumption
<1>2. PICK q \in Nat, r \in 0 .. K - 1 : idx = K * q + r
  <2>1. idx \in Nat
    OBVIOUS
  <2>2. idx \div K \in Nat /\ idx % K \in 0 .. K - 1 /\ idx = K * (idx \div K) + (idx % K)
    BY <2>1, DivMod
  <2>3. QED
    BY <2>2, Zenon
<1>3. PICK o \in Nat : o = each * r
  OBVIOUS
<1>4. o \in 0 .. M - 1
  <2>1. each * r + each <= each * K /\ each * r \in Nat
    BY Grows
  <2>2. QED
    BY <1>1, <1>3, <2>1
<1>5. idx * each = M * q + o
  <2>1. (K * q + r) * each = (each * K) * q + each * r
    OBVIOUS
  <2>2. QED
    BY <1>1, <1>2, <1>3, <2>1
<1>6. (M * q + o) \div M = q /\ (M * q + o) % M = o
  BY <1>4, DivOf
<1>7. o \div each = r
  <2>1. 0 \in 0 .. each - 1 /\ o = each * r + 0
    BY <1>3
  <2>2. (each * r + 0) \div each = r
    BY <2>1, DivOf
  <2>3. QED
    BY <2>1, <2>2
<1>8. M \div each = K
  <2>1. 0 \in 0 .. each - 1 /\ M = each * K + 0
    BY <1>1
  <2>2. (each * K + 0) \div each = K
    BY <2>1, DivOf
  <2>3. QED
    BY <2>1, <2>2
<1>9. q < TableBlocks(each, entries)
  <2>1. PICK t \in Nat : t = each * N
    OBVIOUS
  <2>2. PICK a \in Nat, b \in 0 .. M - 1 : a = t \div M /\ b = t % M /\ t = M * a + b
    <3>1. t \div M \in Nat /\ t % M \in 0 .. M - 1 /\ t = M * (t \div M) + (t % M)
      BY DivMod
    <3>2. QED
      BY <3>1, Zenon
  <2>3. M * q + o < t
    <3>1. each * idx + each <= each * N /\ each * idx \in Nat
      BY <1>1, Grows
    <3>2. idx * each = each * idx
      OBVIOUS
    <3>3. QED
      BY <1>5, <2>1, <3>1, <3>2
  <2>4. TableBlocks(each, entries) = a + (IF b = 0 THEN 0 ELSE 1)
    BY <1>1, <2>1, <2>2 DEF TableBlocks, DivCeil
  <2>5. M * q \in Nat /\ M * a \in Nat
    OBVIOUS
  <2>6. CASE q > a
    <3>1. M * a + M <= M * q
      BY <2>6, Grows
    <3>2. QED
      BY <2>2, <2>3, <2>5, <3>1
  <2>7. CASE q = a
    BY <2>2, <2>3, <2>4, <2>5, <2>7
  <2>8. CASE q < a
    BY <2>4, <2>8
  <2>9. QED
    BY <2>6, <2>7, <2>8
<1>10. q * K + r = idx
  <2>1. q * K = K * q
    OBVIOUS
  <2>2. QED
    BY <1>2, <2>1
<1>11. TableGet(each, entries, idx) = Cell(entries, q * K + r)
  BY <1>1, <1>5, <1>6, <1>7, <1>8, <1>9 DEF TableGet
<1>12. idx + 1 \in DOMAIN entries
  BY <1>1
<1>13. QED
  BY <1>10, <1>11, <1>12 DEF Cell

\* A table block holds a whole number of xattr ids.
LEMMA MetaSizeIs == \E k \in Nat \ {0} : MetaSize = XattrIdSize * k
<1>1. MetaSize \in Nat \ {0} /\ MetaSize % 4 = 0
  BY AttributesAssumption DEF XattrIdSize
<1>2. PICK k \in Nat : MetaSize = 4 * k
  BY <1>1
<1>3. QED
  BY <1>1, <1>2 DEF XattrIdSize

\* sqfs_table_get returns the entry asked for, in all three tables.
LEMMA IdGet ==
    ASSUME NEW entries, Len(entries) \in Nat, DOMAIN entries = 1 .. Len(entries),
           NEW idx \in 0 .. Len(entries) - 1
    PROVE  /\ TableGet(IdSize, entries, idx) = entries[idx + 1]
           /\ TableGet(ExportSize, entries, idx) = entries[idx + 1]
           /\ TableGet(XattrIdSize, entries, idx) = entries[idx + 1]
<1>1. PICK k \in Nat \ {0} : MetaSize = XattrIdSize * k
  BY MetaSizeIs
<1> XattrIdSize \in Nat \ {0} /\ ExportSize \in Nat \ {0} /\ IdSize \in Nat \ {0}
  BY DEF XattrIdSize, ExportSize, IdSize
<1>2. TableGet(XattrIdSize, entries, idx) = entries[idx + 1]
  BY <1>1, TableGetIs
<1>3. TableGet(ExportSize, entries, idx) = entries[idx + 1]
  <2>1. PICK l \in Nat \ {0} : MetaSize = ExportSize * l
    <3>1. 2 * k \in Nat \ {0} /\ MetaSize = ExportSize * (2 * k)
      BY <1>1 DEF XattrIdSize, ExportSize
    <3>2. QED
      BY <3>1
  <2>2. QED
    BY <2>1, TableGetIs
<1>4. TableGet(IdSize, entries, idx) = entries[idx + 1]
  <2>1. PICK l \in Nat \ {0} : MetaSize = IdSize * l
    <3>1. 4 * k \in Nat \ {0} /\ MetaSize = IdSize * (4 * k)
      BY <1>1 DEF XattrIdSize, IdSize
    <3>2. QED
      BY <3>1
  <2>2. QED
    BY <2>1, TableGetIs
<1>5. QED
  BY <1>2, <1>3, <1>4

\* The inode numbers survive the trip to the kernel and back.
LEMMA NumRoundTrip ==
    ASSUME NEW root \in 1 .. Limit - 1, NEW n \in 1 .. Limit - 1, n # root
    PROVE  /\ num2fuse(root, root) = FUSE_ROOT_ID
           /\ num2fuse(root, n) # FUSE_ROOT_ID
           /\ fuse2num(root, num2fuse(root, n)) = n
  BY LimitAssumption DEF num2fuse, fuse2num, Wrap, FUSE_ROOT_ID

\* By each of the three ways the handler comes to the inode it was asked for.
LEMMA SqfsIdIs ==
    ASSUME NEW img, IsImage(img), Len(img.inodes) < Limit, NEW i \in 1 .. Len(img.inodes),
           NEW how \in {"ino64", "ino32exp", "path"}
    PROVE  SqfsId(img, how, FuseIno(img, how, i)) = InodeId(img, i)
<1>1. PICK N \in Nat : N = Len(img.inodes) /\ DOMAIN img.inodes = 1 .. N
  BY ImageInodes
<1>2. img.root \in 1 .. N
  BY <1>1, ImageInodes
<1>3. CASE how = "path"
  BY <1>3 DEF SqfsId, FuseIno
<1>4. CASE how = "ino64"
  <2>1. PICK r \in Nat, d \in Nat : r = InodeId(img, img.root) /\ d = InodeId(img, i) /\ (d = 0 \/ d >= 5)
    BY <1>1, <1>2, InodeIdIs
  <2>2. ino64_sqfs(r, ino64_fuse(r, d)) = d
    BY <2>1 DEF ino64_sqfs, ino64_fuse, FUSE_ROOT_ID
  <2>3. QED
    BY <1>4, <2>1, <2>2 DEF SqfsId, FuseIno
<1>5. CASE how = "ino32exp"
  <2>1. PICK rn, n : rn = img.inodes[img.root].num /\ n = img.inodes[i].num
    OBVIOUS
  <2>2. rn \in 1 .. N /\ n \in 1 .. N /\ rn \in 1 .. Limit - 1 /\ n \in 1 .. Limit - 1
    <3>1. rn \in 1 .. N /\ n \in 1 .. N
      BY <1>1, <1>2, <2>1, ImageInodes
    <3>2. QED
      BY <1>1, <3>1, LimitAssumption
  <2>3. SqfsId(img, how, FuseIno(img, how, i)) = ino32exp_sqfs(img, num2fuse(rn, n))
    BY <1>5, <2>1 DEF SqfsId, FuseIno
  <2>4. CASE n = rn
    <3>1. i = img.root
      BY <1>1, <1>2, <2>1, <2>4, ImageInodes
    <3>2. num2fuse(rn, n) = FUSE_ROOT_ID
      BY <2>4 DEF num2fuse
    <3>3. QED
      BY <2>3, <3>1, <3>2 DEF ino32exp_sqfs
  <2>5. CASE n # rn
    <3>1. PICK ino : ino = num2fuse(rn, n)
      OBVIOUS
    <3>2. ino # FUSE_ROOT_ID /\ fuse2num(rn, ino) = n
      BY <2>2, <2>5, <3>1, NumRoundTrip
    <3>3. n - 1 \in 0 .. N - 1
      BY <2>2
    <3>4. ino32exp_sqfs(img, ino) = TableGet(ExportSize, ExportTable(img), n - 1)
      BY <1>1, <2>1, <3>2, <3>3 DEF ino32exp_sqfs, export_inode
    <3>5. PICK t : t = ExportTable(img)
      OBVIOUS
    <3>6. t = [m \in 1 .. N |-> InodeId(img, CHOOSE j \in 1 .. N : img.inodes[j].num = m)]
      BY <1>1, <3>5 DEF ExportTable
    <3>7. DOMAIN t = 1 .. N /\ Len(t) = N
      BY <3>6
    <3>8. TableGet(ExportSize, t, n - 1) = t[(n - 1) + 1]
      BY <3>3, <3>7, IdGet
    <3>9. (n - 1) + 1 = n
      BY <2>2
    <3>10. (CHOOSE j \in 1 .. N : img.inodes[j].num = n) = i
      <4>1. i \in 1 .. N /\ img.inodes[i].num = n
        BY <1>1, <2>1
      <4>2. \A j \in 1 .. N : img.inodes[j].num = n => j = i
        BY <1>1, <2>1, <4>1, ImageInodes
      <4>3. QED
        BY <4>1, <4>2
    <3>11. t[n] = InodeId(img, i)
      BY <2>2, <3>6, <3>10
    <3>12. QED
      BY <2>3, <3>1, <3>4, <3>5, <3>8, <3>9, <3>11
  <2>6. QED
    BY <2>4, <2>5
<1>6. QED
  BY <1>3, <1>4, <1>5

-----------------------------------------------------------------------------
(***************************************************************************)
(* sqfs_inode_get.                                                         *)
(***************************************************************************)
\* r is what sqfs_inode_get should fill in for the inode n of an image.
InodeRight(img, n, r) ==
    /\ r.type = n.type /\ r.uid = n.uid /\ r.guid = n.guid /\ r.num = n.num /\ r.xattr = n.xattr
    /\ r.nlink = IF n.type = 2 THEN 1 ELSE n.nlink
    /\ IsReg(n.type) \/ IsDir(n.type) => r.size = n.size
    /\ \A g \in DataOf(n.type) : r.data[g] = n.data[g]
    /\ n.type = 1 => r.data["i_count"] = 0
    /\ IsLink(n.type) => r.size = Len(n.tail)
    /\ HasTail(n.type) => /\ r.next \in Nat
                          /\ \A k \in 1 .. Len(n.tail) :
                               Cell(InodeTable(img), r.next + k - 1) = n.tail[k]
    /\ IsDev(n.type) => r.dev = <<n.major, n.minor>>

\* The field g of the structure f at id.
FieldAt(table, id, f, g) == Cell(table, id + (CHOOSE p \in DOMAIN f : f[p] = g) - 1)

\* A field that a structure has is read from the right cell.
LEMMA FieldAtIs ==
    ASSUME NEW img, IsImage(img), NEW i \in 1 .. Len(img.inodes),
           NEW g, g \in Range(FieldsOfInode(img.inodes[i]))
    PROVE  FieldAt(InodeTable(img), InodeId(img, i), FieldsOfInode(img.inodes[i]), g)
             = Field(img.inodes[i], g)
<1>1. PICK n \in Inodes : n = img.inodes[i]
  BY ImageInodes
<1>2. PICK f : f = FieldsOfInode(n)
  OBVIOUS
<1>3. PICK m \in Nat : m = Len(f) /\ DOMAIN f = 1 .. m
  BY <1>2, InodeType, FieldsOf DEF FieldsOfInode, HasFields
<1>4. \E p \in DOMAIN f : f[p] = g
  BY <1>1, <1>2 DEF Range
<1>5. PICK p \in 1 .. m : p = (CHOOSE q \in DOMAIN f : f[q] = g) /\ f[p] = g
  BY <1>3, <1>4
<1>6. PICK s : s = StoredInode(n) /\ s \in Seq(Nat) /\ m <= Len(s) /\ s[p] = Field(n, f[p])
  BY <1>2, <1>3, StoredInodeIs
<1>7. p \in 1 .. Len(s)
  BY <1>6
<1>8. Cell(InodeTable(img), InodeId(img, i) + p - 1) = s[p]
  BY <1>1, <1>6, <1>7, InodeCell
<1>9. QED
  BY <1>1, <1>2, <1>5, <1>6, <1>8 DEF FieldAt

\* sqfs_inode_get, by the structure that the inode's type says it has.
SizeAt(table, id, type, f) ==
    IF IsLink(type) THEN FieldAt(table, id, f, "symlink_size")
    ELSE IF "file_size" \in Range(f) THEN FieldAt(table, id, f, "file_size") ELSE 0

InodeAt(table, id, type, f) ==
    [type |-> type, uid |-> FieldAt(table, id, f, "uid"), guid |-> FieldAt(table, id, f, "guid"),
     num |-> FieldAt(table, id, f, "inode_number"),
     next |-> id + Len(f), size |-> SizeAt(table, id, type, f),
     data |-> [g \in DataFields |-> IF g \in Range(f) THEN FieldAt(table, id, f, g) ELSE 0],
     nlink |-> IF "nlink" \in Range(f) THEN FieldAt(table, id, f, "nlink") ELSE 1,
     dev |-> IF "rdev" \in Range(f) THEN DecodeDev(FieldAt(table, id, f, "rdev")) ELSE <<0, 0>>,
     xattr |-> IF "xattr" \in Range(f) THEN FieldAt(table, id, f, "xattr")
               ELSE IF type = LSYMLINK
                    THEN LinkXattr(table, id + Len(f), SizeAt(table, id, type, f)) ELSE NoXattr]

(* Of whichever of the nine structures, the fields are found.              *)
LEMMA SqfsInodeIs ==
    ASSUME NEW img, IsImage(img), NEW i \in 1 .. Len(img.inodes)
    PROVE  InodeRight(img, img.inodes[i], SqfsInode(img, InodeId(img, i)))
<1>1. PICK n \in Inodes : n = img.inodes[i]
  BY ImageInodes
<1>2. PICK id \in Nat : id = InodeId(img, i)
  BY InodeIdIs
<1>3. PICK f : f = FieldsOfInode(n) /\ f = Struct[Kind[n.type]]
  BY DEF FieldsOfInode
<1>4. n.type \in DOMAIN Kind
  BY InodeType
<1>5. /\ Len(f) \in Nat /\ Len(f) >= 5 /\ DOMAIN f = 1 .. Len(f) /\ f[1] = "inode_type"
      /\ "uid" \in Range(f) /\ "guid" \in Range(f) /\ "inode_number" \in Range(f)
      /\ "nlink" \in Range(f) <=> n.type # 2
      /\ "file_size" \in Range(f) <=> IsReg(n.type) \/ IsDir(n.type)
      /\ "symlink_size" \in Range(f) <=> IsLink(n.type)
      /\ "rdev" \in Range(f) <=> IsDev(n.type)
      /\ "xattr" \in Range(f) <=> Long(n.type) /\ n.type # LSYMLINK
      /\ \A g \in DataFields : g \in Range(f) <=> g \in DataOf(n.type)
  BY <1>3, <1>4, FieldsOf DEF HasFields
<1>6. PICK m \in Nat : m = Len(f)
  BY <1>5
<1>7. PICK t : t = InodeTable(img)
  OBVIOUS
<1>8. \A g \in Range(f) : FieldAt(t, id, f, g) = Field(n, g)
  BY <1>1, <1>2, <1>3, <1>7, FieldAtIs
<1>9. PICK s : s = StoredInode(n)
  OBVIOUS
<1>10. /\ s \in Seq(Nat) /\ m <= Len(s)
       /\ \A k \in 1 .. m : s[k] = Field(n, f[k])
       /\ HasTail(n.type) => /\ m + Len(n.tail) <= Len(s)
                             /\ \A k \in 1 .. Len(n.tail) : s[m + k] = n.tail[k]
       /\ n.type = LSYMLINK => m + Len(n.tail) + 1 <= Len(s) /\ s[m + Len(n.tail) + 1] = n.xattr
  BY <1>3, <1>6, <1>9, StoredInodeIs
<1>11. PICK N \in Nat : N = Len(s)
  BY <1>10
<1>12. \A k \in 1 .. N : Cell(t, id + k - 1) = s[k]
  BY <1>1, <1>2, <1>7, <1>9, <1>11, InodeCell
<1>13. Cell(t, id) = n.type
  <2>1. 1 \in 1 .. m /\ 1 \in 1 .. N /\ id + 1 - 1 = id
    BY <1>5, <1>6, <1>10, <1>11
  <2>2. Cell(t, id) = s[1]
    BY <1>12, <2>1
  <2>3. s[1] = Field(n, "inode_type")
    BY <1>5, <1>10, <2>1
  <2>4. QED
    BY <2>2, <2>3, FieldIs
<1>14. PICK r : r = SqfsInode(img, id)
  OBVIOUS
<1>15. r = InodeAt(t, id, n.type, f)
  <2>1. r = InodeAt(t, id, Cell(t, id), Struct[Kind[Cell(t, id)]])
    BY <1>7, <1>14 DEF SqfsInode, InodeAt, SizeAt, FieldAt
  <2>2. QED
    BY <1>3, <1>13, <2>1
<1>16. PICK size : size = SizeAt(t, id, n.type, f)
  OBVIOUS
<1>17. /\ IsLink(n.type) => size = Len(n.tail)
       /\ IsReg(n.type) \/ IsDir(n.type) => size = n.size
  <2>1. ~ (IsLink(n.type) /\ (IsReg(n.type) \/ IsDir(n.type)))
    BY DEF IsLink, IsReg, IsDir
  <2>2. Field(n, "symlink_size") = Len(n.tail) /\ Field(n, "file_size") = n.size
    BY FieldIs
  <2>3. QED
    BY <1>5, <1>8, <1>16, <2>1, <2>2 DEF SizeAt
<1>18. /\ r.type = n.type /\ r.uid = n.uid /\ r.guid = n.guid /\ r.num = n.num
       /\ r.nlink = IF n.type = 2 THEN 1 ELSE n.nlink
       /\ r.size = size /\ r.next = id + m
  <2>1. /\ Field(n, "uid") = n.uid /\ Field(n, "guid") = n.guid /\ Field(n, "inode_number") = n.num
        /\ Field(n, "nlink") = n.nlink
    BY FieldIs
  <2>2. /\ r.type = n.type /\ r.uid = FieldAt(t, id, f, "uid") /\ r.guid = FieldAt(t, id, f, "guid")
        /\ r.num = FieldAt(t, id, f, "inode_number") /\ r.next = id + m /\ r.size = size
        /\ r.nlink = IF "nlink" \in Range(f) THEN FieldAt(t, id, f, "nlink") ELSE 1
    BY <1>6, <1>15, <1>16 DEF InodeAt
  <2>3. QED
    BY <1>5, <1>8, <2>1, <2>2
<1>19. r.xattr = n.xattr
  <2>1. r.xattr = IF "xattr" \in Range(f) THEN FieldAt(t, id, f, "xattr")
                  ELSE IF n.type = LSYMLINK THEN LinkXattr(t, id + m, size) ELSE NoXattr
    BY <1>6, <1>15, <1>16 DEF InodeAt
  <2>2. CASE "xattr" \in Range(f)
    <3>1. Field(n, "xattr") = n.xattr
      BY FieldIs
    <3>2. QED
      BY <1>8, <2>1, <2>2, <3>1
  <2>3. CASE n.type = LSYMLINK
    <3>1. IsLink(n.type) /\ "xattr" \notin Range(f)
      BY <1>5, <2>3 DEF IsLink, LSYMLINK
    <3>2. PICK l \in Nat : l = Len(n.tail) /\ size = l
      BY <1>17, <3>1, InodeType
    <3>3. m + l + 1 \in 1 .. N /\ s[m + l + 1] = n.xattr
      BY <1>10, <1>11, <2>3, <3>2
    <3>4. Cell(t, id + (m + l + 1) - 1) = s[m + l + 1]
      BY <1>12, <3>3
    <3>5. id + (m + l + 1) - 1 = id + m + l
      OBVIOUS
    <3>6. QED
      BY <2>1, <2>3, <3>1, <3>2, <3>3, <3>4, <3>5 DEF LinkXattr
  <2>4. CASE "xattr" \notin Range(f) /\ n.type # LSYMLINK
    <3>1. ~ Long(n.type)
      BY <1>5, <2>4
    <3>2. n.xattr = NoXattr
      BY <1>1, <3>1, ImageInodes
    <3>3. QED
      BY <2>1, <2>4, <3>2
  <2>5. QED
    BY <2>2, <2>3, <2>4
<1>20. ASSUME HasTail(n.type)
       PROVE  /\ r.next \in Nat
              /\ \A k \in 1 .. Len(n.tail) : Cell(t, r.next + k - 1) = n.tail[k]
  <2>1. PICK l \in Nat : l = Len(n.tail)
    BY InodeType
  <2>2. ASSUME NEW k \in 1 .. l PROVE Cell(t, (id + m) + k - 1) = n.tail[k]
    <3>1. m + k \in 1 .. N /\ s[m + k] = n.tail[k]
      BY <1>10, <1>11, <1>20, <2>1
    <3>2. Cell(t, id + (m + k) - 1) = s[m + k]
      BY <1>12, <3>1
    <3>3. id + (m + k) - 1 = (id + m) + k - 1
      OBVIOUS
    <3>4. QED
      BY <3>1, <3>2, <3>3
  <2>3. r.next = id + m /\ id + m \in Nat
    BY <1>18
  <2>4. QED
    BY <2>1, <2>2, <2>3
<1>21. ASSUME IsDev(n.type) PROVE r.dev = <<n.major, n.minor>>
  <2>1. r.dev = IF "rdev" \in Range(f) THEN DecodeDev(FieldAt(t, id, f, "rdev")) ELSE <<0, 0>>
    BY <1>6, <1>15, <1>16 DEF InodeAt
  <2>2. "rdev" \in Range(f)
    BY <1>5, <1>21
  <2>3. FieldAt(t, id, f, "rdev") = EncodeDev(n.major, n.minor)
    BY <1>8, <2>2, FieldIs
  <2>4. DecodeDev(EncodeDev(n.major, n.minor)) = <<n.major, n.minor>>
    BY InodeType, DevRoundTrip
  <2>5. QED
    BY <2>1, <2>2, <2>3, <2>4
<1>22. /\ \A g \in DataOf(n.type) : r.data[g] = n.data[g]
       /\ n.type = 1 => r.data["i_count"] = 0
  <2>1. DataOf(n.type) \subseteq DataFields /\ "i_count" \in DataFields
    BY DEF DataOf, DataFields
  <2>2. n.type = 1 => "i_count" \notin DataOf(n.type)
    BY DEF DataOf, IsReg, IsDir, LDIR
  <2>3. ASSUME NEW g \in DataFields
        PROVE  r.data[g] = IF g \in Range(f) THEN FieldAt(t, id, f, g) ELSE 0
    BY <1>15 DEF InodeAt
  <2>4. ASSUME NEW g \in DataFields PROVE Field(n, g) = n.data[g]
    BY FieldIs
  <2>5. QED
    BY <1>5, <1>8, <2>1, <2>2, <2>3, <2>4
<1>23. QED
  BY <1>1, <1>2, <1>7, <1>14, <1>17, <1>18, <1>19, <1>20, <1>21, <1>22 DEF InodeRight

-----------------------------------------------------------------------------
(***************************************************************************)
(* What is stored of extended attributes.                                  *)
(***************************************************************************)
LEMMA AttrType ==
    ASSUME NEW a \in Attrs
    PROVE  /\ a.prefix \in 0 .. OOL - 1 /\ a.name \in Seq(Nat) /\ a.value \in Seq(Nat)
           /\ a.shared \in Nat /\ Len(a.name) \in Nat /\ Len(a.value) \in Nat
           /\ AttrLen(a) \in Nat
<1>1. a.prefix \in 0 .. OOL - 1 /\ a.name \in Seq(Nat) /\ a.value \in Seq(Nat) /\ a.shared \in Nat
  BY DEF Attrs
<1>2. Len(a.name) \in Nat /\ Len(a.value) \in Nat
  BY <1>1, LenProperties
<1>3. PICK l \in Nat, v \in Nat : l = Len(a.name) /\ v = Len(a.value)
  BY <1>2
<1>4. CASE a.shared = 0
  <2>1. AttrLen(a) = 2 + l + 1 + v
    BY <1>3, <1>4 DEF AttrLen
  <2>2. QED
    BY <1>1, <1>2, <2>1
<1>5. CASE a.shared # 0
  <2>1. AttrLen(a) = 2 + l + 1 + 1
    BY <1>3, <1>5 DEF AttrLen
  <2>2. QED
    BY <1>1, <1>2, <2>1
<1>6. QED
  BY <1>4, <1>5

\* Where attributes start.
LEMMA AttrPosIs ==
    ASSUME NEW img, IsImage(img)
    PROVE  /\ \A j \in 1 .. Len(img.attrs) :
                /\ AttrPos(img, j) \in Nat /\ SizePos(img, j) \in Nat
                /\ SizePos(img, j) = AttrPos(img, j) + 2 + Len(img.attrs[j].name)
           /\ \A j \in 1 .. Len(img.attrs) :
                j + 1 <= Len(img.attrs) =>
                    AttrPos(img, j + 1) = AttrPos(img, j) + AttrLen(img.attrs[j])
<1>1. PICK n \in Nat : /\ n = Len(img.attrs) /\ DOMAIN img.attrs = 1 .. n
                       /\ \A j \in 1 .. n : img.attrs[j] \in Attrs
  <2>1. /\ Len(img.attrs) \in Nat /\ DOMAIN img.attrs = 1 .. Len(img.attrs)
        /\ \A j \in 1 .. Len(img.attrs) : img.attrs[j] \in Attrs
    BY ImageAttrs
  <2>2. QED
    BY <2>1, Zenon
<1>2. PICK lens : lens = [k \in 1 .. n |-> AttrLen(img.attrs[k])]
  OBVIOUS
<1>3. lens \in Seq(Nat) /\ Len(lens) = n
  <2>1. lens \in [1 .. n -> Nat]
    BY <1>1, <1>2, AttrType
  <2>2. QED
    BY <2>1
<1>4. /\ \A i \in 1 .. n : Ends(lens)[i] = Ends(lens)[i - 1] + lens[i]
      /\ \A i \in 0 .. n : Ends(lens)[i] \in Nat
  BY <1>3, EndsStep
<1>5. \A j : AttrPos(img, j) = Ends(lens)[j - 1]
  BY <1>1, <1>2 DEF AttrPos
<1>6. ASSUME NEW j \in 1 .. n
      PROVE  /\ AttrPos(img, j) \in Nat /\ SizePos(img, j) \in Nat
             /\ SizePos(img, j) = AttrPos(img, j) + 2 + Len(img.attrs[j].name)
  <2>1. AttrPos(img, j) \in Nat
    <3>1. j - 1 \in 0 .. n
      OBVIOUS
    <3>2. QED
      BY <1>4, <1>5, <3>1
  <2>2. Len(img.attrs[j].name) \in Nat
    BY <1>1, AttrType
  <2>3. QED
    BY <2>1, <2>2 DEF SizePos
<1>7. ASSUME NEW j \in 1 .. n
      PROVE  AttrPos(img, j + 1) = AttrPos(img, j) + AttrLen(img.attrs[j])
  <2>1. AttrPos(img, j + 1) = Ends(lens)[j]
    <3>1. (j + 1) - 1 = j
      OBVIOUS
    <3>2. QED
      BY <1>5, <3>1
  <2>2. Ends(lens)[j] = Ends(lens)[j - 1] + lens[j]
    BY <1>4
  <2>3. QED
    BY <1>2, <1>5, <2>1, <2>2
<1>8. QED
  BY <1>1, <1>6, <1>7

\* s is what is stored of an attribute a.
HasParts(img, a, s) ==
    /\ s[1] = a.prefix + (IF a.shared = 0 THEN 0 ELSE OOL) /\ s[2] = Len(a.name)
    /\ \A k \in 1 .. Len(a.name) : s[2 + k] = a.name[k]
    /\ a.shared = 0 =>
         /\ s[2 + Len(a.name) + 1] = Len(a.value)
         /\ \A k \in 1 .. Len(a.value) : s[2 + Len(a.name) + 1 + k] = a.value[k]
    /\ a.shared # 0 =>
         s[2 + Len(a.name) + 1] = 1 /\ s[2 + Len(a.name) + 2] = SizePos(img, a.shared)

\* The cells of an attribute: entry, name, size, value or position.
LEMMA StoredAttrIs ==
    ASSUME NEW img, IsImage(img), NEW j \in 1 .. Len(img.attrs)
    PROVE  /\ StoredAttr(img, img.attrs[j]) \in Seq(Nat)
           /\ Len(StoredAttr(img, img.attrs[j])) = AttrLen(img.attrs[j])
           /\ HasParts(img, img.attrs[j], StoredAttr(img, img.attrs[j]))
<1>1. PICK a \in Attrs : /\ a = img.attrs[j]
                         /\ a.shared # 0 => a.shared \in 1 .. Len(img.attrs)
  BY ImageAttrs
<1>2. /\ a.prefix \in 0 .. OOL - 1 /\ a.name \in Seq(Nat) /\ a.value \in Seq(Nat)
      /\ a.shared \in Nat /\ Len(a.name) \in Nat /\ Len(a.value) \in Nat
  BY AttrType
<1>3. PICK l \in Nat, v \in Nat : l = Len(a.name) /\ v = Len(a.value)
  BY <1>2
<1>4. PICK p \in Nat : p = a.prefix + (IF a.shared = 0 THEN 0 ELSE OOL)
  <2>1. OOL \in Nat /\ a.prefix \in Nat
    <3>1. a.prefix \in 0 .. 15
      BY <1>2 DEF OOL
    <3>2. QED
      BY <3>1 DEF OOL
  <2>2. a.prefix + 0 \in Nat /\ a.prefix + OOL \in Nat
    BY <2>1
  <2>3. QED
    BY <2>2
<1>5. PICK h : h = <<p, l>>
  OBVIOUS
<1>6. h \in Seq(Nat) /\ Len(h) = 2 /\ h[1] = p /\ h[2] = l
  BY <1>5
<1>7. PICK d : d = h \o a.name
  OBVIOUS
<1>8. /\ d \in Seq(Nat) /\ Len(d) = 2 + l
      /\ \A k \in 1 .. 2 : d[k] = h[k]
      /\ \A k \in 1 .. l : d[2 + k] = a.name[k]
  <2>1. /\ d \in Seq(Nat) /\ Len(d) = Len(h) + Len(a.name)
        /\ \A k \in 1 .. Len(h) : d[k] = h[k]
        /\ \A k \in 1 .. Len(a.name) : d[Len(h) + k] = a.name[k]
    BY <1>2, <1>6, <1>7, ConcatAt, Zenon
  <2>2. QED
    BY <1>3, <1>6, <2>1, Zenon
<1>9. PICK e : e = IF a.shared = 0 THEN <<v>> \o a.value ELSE <<1, SizePos(img, a.shared)>>
  OBVIOUS
<1>10. /\ e \in Seq(Nat)
       /\ a.shared = 0 => Len(e) = 1 + v /\ e[1] = v /\ \A k \in 1 .. v : e[1 + k] = a.value[k]
       /\ a.shared # 0 => Len(e) = 2 /\ e[1] = 1 /\ e[2] = SizePos(img, a.shared)
  <2>1. CASE a.shared = 0
    <3>1. PICK g : g = <<v>>
      OBVIOUS
    <3>2. g \in Seq(Nat) /\ Len(g) = 1 /\ g[1] = v
      BY <3>1
    <3>3. e = g \o a.value
      BY <1>9, <2>1, <3>1
    <3>4. /\ e \in Seq(Nat) /\ Len(e) = Len(g) + Len(a.value)
          /\ \A k \in 1 .. Len(g) : e[k] = g[k]
          /\ \A k \in 1 .. Len(a.value) : e[Len(g) + k] = a.value[k]
      BY <1>2, <3>2, <3>3, ConcatAt, Zenon
    <3>5. 1 \in 1 .. 1
      OBVIOUS
    <3>6. QED
      BY <1>3, <2>1, <3>2, <3>4, <3>5, Zenon
  <2>2. CASE a.shared # 0
    <3>1. PICK z \in Nat : z = SizePos(img, a.shared)
      BY <1>1, <2>2, AttrPosIs
    <3>2. e = <<1, z>>
      BY <1>9, <2>2, <3>1
    <3>3. e \in Seq(Nat) /\ Len(e) = 2 /\ e[1] = 1 /\ e[2] = z
      BY <3>2
    <3>4. QED
      BY <2>2, <3>1, <3>3
  <2>3. QED
    BY <2>1, <2>2
<1>11. PICK s : s = d \o e
  OBVIOUS
<1>12. s = StoredAttr(img, a)
  BY <1>3, <1>4, <1>5, <1>7, <1>9, <1>11 DEF StoredAttr
<1>13. PICK w \in Nat : w = Len(e)
  BY <1>10, LenProperties
<1>14. /\ s \in Seq(Nat) /\ Len(s) = 2 + l + w
       /\ \A k \in 1 .. 2 + l : s[k] = d[k]
       /\ \A k \in 1 .. w : s[2 + l + k] = e[k]
  <2>1. /\ s \in Seq(Nat) /\ Len(s) = Len(d) + Len(e)
        /\ \A k \in 1 .. Len(d) : s[k] = d[k]
        /\ \A k \in 1 .. Len(e) : s[Len(d) + k] = e[k]
    BY <1>8, <1>10, <1>11, ConcatAt, Zenon
  <2>2. QED
    BY <1>8, <1>13, <2>1, Zenon
<1>15. s[1] = p /\ s[2] = l
  <2>1. 1 \in 1 .. 2 /\ 2 \in 1 .. 2 /\ 1 \in 1 .. 2 + l /\ 2 \in 1 .. 2 + l
    OBVIOUS
  <2>2. s[1] = d[1] /\ s[2] = d[2]
    BY <1>14, <2>1, Zenon
  <2>3. d[1] = h[1] /\ d[2] = h[2]
    BY <1>8, <2>1, Zenon
  <2>4. QED
    BY <1>6, <2>2, <2>3, Zenon
<1>16. ASSUME NEW k \in 1 .. l PROVE s[2 + k] = a.name[k]
  <2>1. 2 + k \in 1 .. 2 + l
    OBVIOUS
  <2>2. QED
    BY <1>8, <1>14, <2>1
<1>17. ASSUME a.shared = 0
       PROVE  /\ s[2 + l + 1] = v /\ \A k \in 1 .. v : s[2 + l + 1 + k] = a.value[k]
              /\ Len(s) = AttrLen(a)
  <2>1. w = 1 + v
    BY <1>10, <1>13, <1>17
  <2>2. 1 \in 1 .. w
    BY <2>1
  <2>3. s[2 + l + 1] = v
    BY <1>10, <1>14, <1>17, <2>2
  <2>4. ASSUME NEW k \in 1 .. v PROVE s[2 + l + 1 + k] = a.value[k]
    <3>1. 1 + k \in 1 .. w /\ 2 + l + (1 + k) = 2 + l + 1 + k
      BY <2>1
    <3>2. s[2 + l + (1 + k)] = e[1 + k] /\ e[1 + k] = a.value[k]
      BY <1>10, <1>14, <1>17, <3>1
    <3>3. QED
      BY <3>1, <3>2
  <2>5. Len(s) = AttrLen(a)
    <3>1. AttrLen(a) = 2 + l + 1 + v
      BY <1>3, <1>17 DEF AttrLen
    <3>2. QED
      BY <1>14, <2>1, <3>1
  <2>6. QED
    BY <2>3, <2>4, <2>5
<1>18. ASSUME a.shared # 0
       PROVE  /\ s[2 + l + 1] = 1 /\ s[2 + l + 2] = SizePos(img, a.shared)
              /\ Len(s) = AttrLen(a)
  <2>1. w = 2 /\ 1 \in 1 .. w /\ 2 \in 1 .. w
    BY <1>10, <1>13, <1>18
  <2>2. s[2 + l + 1] = e[1] /\ s[2 + l + 2] = e[2]
    BY <1>14, <2>1
  <2>3. Len(s) = AttrLen(a)
    BY <1>3, <1>14, <1>18, <2>1 DEF AttrLen
  <2>4. QED
    BY <1>10, <1>18, <2>2, <2>3
<1>19. HasParts(img, a, s)
  BY <1>3, <1>4, <1>15, <1>16, <1>17, <1>18, Zenon DEF HasParts
<1>20. QED
  BY <1>1, <1>12, <1>14, <1>17, <1>18, <1>19

StoredAttrs(img) == [j \in DOMAIN img.attrs |-> StoredAttr(img, img.attrs[j])]

\* The attributes are a stream.
LEMMA AttrsStream ==
    ASSUME NEW img, IsImage(img)
    PROVE  /\ IsStream(StoredAttrs(img)) /\ Len(StoredAttrs(img)) = Len(img.attrs)
           /\ XattrTable(img) = FlattenSeq(StoredAttrs(img))
           /\ \A j \in 1 .. Len(img.attrs) :
                /\ StoredAttrs(img)[j] = StoredAttr(img, img.attrs[j])
                /\ AttrPos(img, j) = Ends(Lens(StoredAttrs(img)))[j - 1]
<1>1. PICK n \in Nat : n = Len(img.attrs) /\ DOMAIN img.attrs = 1 .. n
  BY ImageAttrs
<1>2. PICK T : T = Seq(Nat)
  OBVIOUS
<1>3. \A j \in 1 .. n : StoredAttr(img, img.attrs[j]) \in T
                        /\ Len(StoredAttr(img, img.attrs[j])) = AttrLen(img.attrs[j])
  BY <1>1, <1>2, StoredAttrIs
<1>4. PICK ss : ss = StoredAttrs(img)
  OBVIOUS
<1>5. ss = [j \in 1 .. n |-> StoredAttr(img, img.attrs[j])]
  BY <1>1, <1>4 DEF StoredAttrs
<1>6. ss \in [1 .. n -> T] /\ \A j \in 1 .. n : ss[j] = StoredAttr(img, img.attrs[j])
  BY <1>3, <1>5
<1>7. ss \in Seq(T) /\ Len(ss) = n /\ DOMAIN ss = 1 .. n
  BY <1>6
<1>8. Lens(ss) = [k \in 1 .. n |-> AttrLen(img.attrs[k])]
  BY <1>3, <1>6, <1>7 DEF Lens
<1>9. \A j \in 1 .. n : AttrPos(img, j) = Ends(Lens(ss))[j - 1]
  BY <1>1, <1>8 DEF AttrPos
<1>10. XattrTable(img) = FlattenSeq(ss)
  BY <1>4 DEF XattrTable, StoredAttrs
<1>11. QED
  BY <1>1, <1>2, <1>4, <1>6, <1>7, <1>9, <1>10 DEF IsStream

\* Cell k of the attribute j is where AttrPos says.
LEMMA AttrCell ==
    ASSUME NEW img, IsImage(img), NEW j \in 1 .. Len(img.attrs),
           NEW k \in 1 .. AttrLen(img.attrs[j])
    PROVE  Cell(XattrTable(img), AttrPos(img, j) + k - 1) = StoredAttr(img, img.attrs[j])[k]
<1>1. PICK ss : ss = StoredAttrs(img) /\ IsStream(ss)
  BY AttrsStream
<1>2. /\ Len(ss) = Len(img.attrs) /\ ss[j] = StoredAttr(img, img.attrs[j])
      /\ AttrPos(img, j) = Ends(Lens(ss))[j - 1] /\ XattrTable(img) = FlattenSeq(ss)
  BY <1>1, AttrsStream
<1>3. k \in 1 .. Len(ss[j])
  <2>1. Len(StoredAttr(img, img.attrs[j])) = AttrLen(img.attrs[j])
    BY StoredAttrIs
  <2>2. QED
    BY <1>2, <2>1
<1>4. Cell(FlattenSeq(ss), Ends(Lens(ss))[j - 1] + k - 1) = ss[j][k]
  BY <1>1, <1>2, <1>3, StreamCell
<1>5. QED
  BY <1>2, <1>4

\* A sequence is the function of its elements.
LEMMA SeqIs ==
    ASSUME NEW v \in Seq(Nat)
    PROVE  v = [k \in 1 .. Len(v) |-> v[k]]
  OBVIOUS

(* What is found where an attribute is stored.                             *)
LEMMA AttrAt ==
    ASSUME NEW img, IsImage(img), NEW j \in 1 .. Len(img.attrs)
    PROVE  LET a == img.attrs[j]
               t == XattrTable(img)
               P == AttrPos(img, j)
               Z == SizePos(img, j)
           IN /\ Cell(t, P) = a.prefix + (IF a.shared = 0 THEN 0 ELSE OOL)
              /\ Cell(t, P + 1) = Len(a.name)
              /\ \A k \in 1 .. Len(a.name) : Cell(t, P + 2 + k - 1) = a.name[k]
              /\ a.shared = 0 => /\ Cell(t, Z) = Len(a.value)
                                 /\ \A k \in 1 .. Len(a.value) : Cell(t, Z + 1 + k - 1) = a.value[k]
                                 /\ P + AttrLen(a) = Z + 1 + Len(a.value)
              /\ a.shared # 0 => /\ Cell(t, Z) = 1 /\ Cell(t, Z + 1) = SizePos(img, a.shared)
                                 /\ P + AttrLen(a) = Z + 2
<1>1. PICK a \in Attrs : a = img.attrs[j]
  BY ImageAttrs
<1>2. PICK s, t : s = StoredAttr(img, a) /\ t = XattrTable(img)
  OBVIOUS
<1>3. PICK l \in Nat, v \in Nat : l = Len(a.name) /\ v = Len(a.value)
  BY AttrType
<1>4. PICK P \in Nat, Z \in Nat : P = AttrPos(img, j) /\ Z = SizePos(img, j) /\ Z = P + 2 + l
  BY <1>1, <1>3, AttrPosIs
<1>5. PICK m \in Nat : m = AttrLen(a) /\ m = IF a.shared = 0 THEN 2 + l + 1 + v ELSE 2 + l + 1 + 1
  <2>1. AttrLen(a) \in Nat
    BY AttrType
  <2>2. QED
    BY <1>3, <2>1 DEF AttrLen
<1>6. /\ s[1] = a.prefix + (IF a.shared = 0 THEN 0 ELSE OOL) /\ s[2] = l
      /\ \A k \in 1 .. l : s[2 + k] = a.name[k]
      /\ a.shared = 0 => /\ s[2 + l + 1] = v
                         /\ \A k \in 1 .. v : s[2 + l + 1 + k] = a.value[k]
      /\ a.shared # 0 => s[2 + l + 1] = 1 /\ s[2 + l + 2] = SizePos(img, a.shared)
  <2>1. HasParts(img, img.attrs[j], StoredAttr(img, img.attrs[j]))
    BY StoredAttrIs
  <2>2. HasParts(img, a, s)
    BY <1>1, <1>2, <2>1
  <2>3. QED
    BY <1>3, <2>2, Zenon DEF HasParts
<1>7. \A k \in 1 .. m : Cell(t, P + k - 1) = s[k]
  BY <1>1, <1>2, <1>4, <1>5, AttrCell
<1>8. m >= 2 + l + 1
  BY <1>5
<1>9. Cell(t, P) = s[1] /\ Cell(t, P + 1) = s[2]
  <2>1. 1 \in 1 .. m /\ 2 \in 1 .. m /\ P + 1 - 1 = P /\ P + 2 - 1 = P + 1
    BY <1>8
  <2>2. QED
    BY <1>7, <2>1
<1>10. ASSUME NEW k \in 1 .. l PROVE Cell(t, P + 2 + k - 1) = a.name[k]
  <2>1. 2 + k \in 1 .. m /\ P + (2 + k) - 1 = P + 2 + k - 1
    BY <1>8
  <2>2. Cell(t, P + (2 + k) - 1) = s[2 + k]
    BY <1>7, <2>1
  <2>3. QED
    BY <1>6, <2>1, <2>2
<1>11. Cell(t, Z) = s[2 + l + 1]
  <2>1. 2 + l + 1 \in 1 .. m /\ P + (2 + l + 1) - 1 = Z
    BY <1>4, <1>8
  <2>2. QED
    BY <1>7, <2>1
<1>12. ASSUME a.shared = 0
       PROVE  /\ \A k \in 1 .. v : Cell(t, Z + 1 + k - 1) = a.value[k]
              /\ P + m = Z + 1 + v
  <2>1. m = 2 + l + 1 + v
    BY <1>5, <1>12
  <2>2. ASSUME NEW k \in 1 .. v PROVE Cell(t, Z + 1 + k - 1) = a.value[k]
    <3>1. 2 + l + 1 + k \in 1 .. m /\ P + (2 + l + 1 + k) - 1 = Z + 1 + k - 1
      BY <1>4, <2>1
    <3>2. Cell(t, P + (2 + l + 1 + k) - 1) = s[2 + l + 1 + k]
      BY <1>7, <3>1
    <3>3. QED
      BY <1>6, <1>12, <3>1, <3>2
  <2>3. P + m = Z + 1 + v
    BY <1>4, <2>1
  <2>4. QED
    BY <2>2, <2>3
<1>13. ASSUME a.shared # 0
       PROVE  Cell(t, Z + 1) = s[2 + l + 2] /\ P + m = Z + 2
  <2>1. m = 2 + l + 1 + 1
    BY <1>5, <1>13
  <2>2. 2 + l + 2 \in 1 .. m /\ P + (2 + l + 2) - 1 = Z + 1
    BY <1>4, <2>1
  <2>3. Cell(t, P + (2 + l + 2) - 1) = s[2 + l + 2]
    BY <1>7, <2>2
  <2>4. QED
    BY <1>4, <2>1, <2>2, <2>3
<1>14. QED
  BY <1>1, <1>2, <1>3, <1>4, <1>5, <1>6, <1>9, <1>10, <1>11, <1>12, <1>13

(* The value of an attribute is behind its size, its own or the shared one. *)
ValueSizePos(img, j) ==
    LET s == img.attrs[j].shared IN IF s = 0 THEN SizePos(img, j) ELSE SizePos(img, s)

\* The size of a value and the value, where they are stored.
LEMMA ValueIs ==
    ASSUME NEW img, IsImage(img), NEW j \in 1 .. Len(img.attrs)
    PROVE  LET t == XattrTable(img)
               Z == ValueSizePos(img, j)
               v == ValueOf(img, j)
           IN /\ Z \in Nat /\ v \in Seq(Nat) /\ Len(v) \in Nat
              /\ Cell(t, Z) = Len(v)
              /\ Cells(t, Z + 1, Len(v)) = v
<1>1. PICK i \in 1 .. Len(img.attrs) :
        /\ img.attrs[i].shared = 0
        /\ ValueSizePos(img, j) = SizePos(img, i) /\ ValueOf(img, j) = img.attrs[i].value
  <2>1. CASE img.attrs[j].shared = 0
    BY <2>1 DEF ValueSizePos, ValueOf
  <2>2. CASE img.attrs[j].shared # 0
    BY <2>2, ImageAttrs DEF ValueSizePos, ValueOf
  <2>3. QED
    BY <2>1, <2>2
<1>2. PICK a \in Attrs : a = img.attrs[i]
  BY ImageAttrs
<1>3. PICK v : v = a.value /\ v \in Seq(Nat) /\ Len(v) \in Nat
  BY AttrType
<1>4. PICK Z \in Nat : Z = SizePos(img, i)
  BY AttrPosIs
<1>5. PICK t : t = XattrTable(img)
  OBVIOUS
<1>6. /\ Cell(t, Z) = Len(v)
      /\ \A k \in 1 .. Len(v) : Cell(t, Z + 1 + k - 1) = v[k]
  BY <1>1, <1>2, <1>3, <1>4, <1>5, AttrAt
<1>7. Cells(t, Z + 1, Len(v)) = [k \in 1 .. Len(v) |-> v[k]]
  BY <1>6 DEF Cells
<1>8. v = [k \in 1 .. Len(v) |-> v[k]]
  BY <1>3, SeqIs
<1>9. QED
  BY <1>1, <1>2, <1>3, <1>4, <1>5, <1>6, <1>7, <1>8

\* The name of an attribute is behind its entry.
LEMMA NameIs ==
    ASSUME NEW img, IsImage(img), NEW j \in 1 .. Len(img.attrs)
    PROVE  Cells(XattrTable(img), AttrPos(img, j) + 2, Len(img.attrs[j].name)) = img.attrs[j].name
<1>1. PICK a \in Attrs : a = img.attrs[j]
  BY ImageAttrs
<1>2. PICK v : v = a.name /\ v \in Seq(Nat) /\ Len(v) \in Nat
  BY AttrType
<1>3. PICK P \in Nat : P = AttrPos(img, j)
  BY AttrPosIs
<1>4. PICK t : t = XattrTable(img)
  OBVIOUS
<1>5. \A k \in 1 .. Len(v) : Cell(t, P + 2 + k - 1) = v[k]
  BY <1>1, <1>2, <1>3, <1>4, AttrAt
<1>6. Cells(t, P + 2, Len(v)) = [k \in 1 .. Len(v) |-> v[k]]
  BY <1>5 DEF Cells
<1>7. v = [k \in 1 .. Len(v) |-> v[k]]
  BY <1>2, SeqIs
<1>8. QED
  BY <1>1, <1>2, <1>3, <1>4, <1>6, <1>7

-----------------------------------------------------------------------------
(***************************************************************************)
(* The iterator of xattr.c.                                                *)
(***************************************************************************)
Iterators == [remain : Nat, cursors : SUBSET {"VSIZE", "VAL", "NEXT"}, c_name : Nat,
              c_vsize : Nat, c_val : Nat, c_next : Nat, type : Nat, ool : BOOLEAN,
              size : Nat, vsize : Nat]

\* An iterator that was not opened.
LEMMA NoIteratorType == NoIterator \in Iterators
  BY DEF NoIterator, Iterators

\* What sqfs_xattr_name and sqfs_xattr_value_size leave alone.
SameAttr(y, z) ==
    /\ z.remain = y.remain /\ z.c_name = y.c_name /\ z.type = y.type /\ z.ool = y.ool
    /\ z.size = y.size

\* What sqfs_xattr_name changes.
LEMMA NameFields ==
    ASSUME NEW y \in Iterators
    PROVE  LET z == XattrName(y)
           IN /\ z \in Iterators /\ SameAttr(y, z)
              /\ z.cursors = y.cursors \cup {"VSIZE"} /\ z.c_vsize = y.c_name + y.size
              /\ z.c_val = y.c_val /\ z.c_next = y.c_next /\ z.vsize = y.vsize
<1>1. PICK e \in Nat : e = y.c_name + y.size
  BY DEF Iterators
<1>2. PICK z : z = [y EXCEPT !.c_vsize = e, !.cursors = @ \cup {"VSIZE"}]
  OBVIOUS
<1>3. XattrName(y) = z
  BY <1>1, <1>2 DEF XattrName
<1>4. z \in Iterators
  BY <1>2 DEF Iterators
<1>5. QED
  BY <1>1, <1>2, <1>3, <1>4 DEF Iterators, SameAttr

\* What following an out-of-line position changes.
LEMMA FollowFields ==
    ASSUME NEW y \in Iterators
    PROVE  LET z == XattrFollow(y)
           IN /\ z \in Iterators /\ SameAttr(y, z)
              /\ z.cursors = y.cursors \cup {"NEXT"} /\ z.c_next = y.c_vsize + 2
              /\ z.c_val = y.c_val /\ z.c_vsize = y.c_vsize /\ z.vsize = y.vsize
<1>1. PICK e \in Nat : e = y.c_vsize + 2
  BY DEF Iterators
<1>2. PICK z : z = [y EXCEPT !.c_next = e, !.cursors = @ \cup {"NEXT"}]
  OBVIOUS
<1>3. XattrFollow(y) = z
  BY <1>1, <1>2 DEF XattrFollow
<1>4. z \in Iterators
  BY <1>2 DEF Iterators
<1>5. QED
  BY <1>1, <1>2, <1>3, <1>4 DEF Iterators, SameAttr

\* The last assignments of sqfs_xattr_value_size, and those of sqfs_xattr_value.
WithValue(y, at, n) == [y EXCEPT !.c_val = at, !.vsize = n, !.cursors = @ \cup {"VAL"}]
WithNext(y, at)     == [y EXCEPT !.c_next = at, !.cursors = @ \cup {"NEXT"}]

ValueSet(y, at, long, z) ==
    /\ SameAttr(y, z)
    /\ z.cursors = y.cursors \cup {"VAL"} /\ z.c_val = at /\ z.vsize = long
    /\ z.c_next = y.c_next /\ z.c_vsize = y.c_vsize

\* What finding a value changes.
LEMMA ValueFields ==
    ASSUME NEW y \in Iterators, NEW at \in Nat, NEW long \in Nat
    PROVE  WithValue(y, at, long) \in Iterators /\ ValueSet(y, at, long, WithValue(y, at, long))
  BY DEF Iterators, WithValue, SameAttr, ValueSet

\* What finding the next attribute changes.
LEMMA NextFields ==
    ASSUME NEW y \in Iterators, NEW at \in Nat
    PROVE  LET z == WithNext(y, at)
           IN /\ z \in Iterators /\ SameAttr(y, z)
              /\ z.cursors = y.cursors \cup {"NEXT"} /\ z.c_next = at
              /\ z.c_val = y.c_val /\ z.vsize = y.vsize /\ z.c_vsize = y.c_vsize
  BY DEF Iterators, WithNext, SameAttr

\* The types of the fields of an iterator.
LEMMA IteratorType ==
    ASSUME NEW y \in Iterators
    PROVE  /\ y.remain \in Nat /\ y.c_name \in Nat /\ y.c_vsize \in Nat /\ y.c_val \in Nat
           /\ y.c_next \in Nat /\ y.size \in Nat /\ y.vsize \in Nat /\ y.ool \in BOOLEAN
           /\ y.type \in Nat
  BY DEF Iterators

(* The iterator is at the attribute j, with some of its positions known.   *)
At(img, j, y) ==
    LET a == img.attrs[j]
    IN /\ y.type = a.prefix /\ y.size = Len(a.name) /\ y.c_name = AttrPos(img, j) + 2
       /\ y.ool <=> a.shared # 0
       /\ "VSIZE" \in y.cursors => y.c_vsize = SizePos(img, j)
       /\ "VAL" \in y.cursors => /\ y.c_val = ValueSizePos(img, j) + 1
                                 /\ y.vsize = Len(ValueOf(img, j))
                                 /\ y.ool => "NEXT" \in y.cursors
       /\ "NEXT" \in y.cursors => y.c_next = AttrPos(img, j) + AttrLen(a)

\* sqfs_xattr_name leaves the iterator at its attribute.
LEMMA NameAt ==
    ASSUME NEW img, IsImage(img), NEW j \in 1 .. Len(img.attrs), NEW y \in Iterators, At(img, j, y)
    PROVE  /\ XattrName(y) \in Iterators /\ At(img, j, XattrName(y))
           /\ XattrName(y).remain = y.remain /\ "VSIZE" \in XattrName(y).cursors
<1>1. PICK z : z = XattrName(y)
  OBVIOUS
<1>2. /\ z \in Iterators /\ SameAttr(y, z)
      /\ z.cursors = y.cursors \cup {"VSIZE"} /\ z.c_vsize = y.c_name + y.size
      /\ z.c_val = y.c_val /\ z.c_next = y.c_next /\ z.vsize = y.vsize
  BY <1>1, NameFields
<1>3. z.c_vsize = SizePos(img, j)
  BY <1>2 DEF At, SizePos
<1>4. At(img, j, z)
  BY <1>2, <1>3 DEF At, SameAttr
<1>5. QED
  BY <1>1, <1>2, <1>4 DEF SameAttr

\* So does calling it only if it was not called yet.
LEMMA NamedAt ==
    ASSUME NEW img, IsImage(img), NEW j \in 1 .. Len(img.attrs), NEW y \in Iterators, At(img, j, y)
    PROVE  /\ Named(y) \in Iterators /\ At(img, j, Named(y))
           /\ Named(y).remain = y.remain /\ Named(y).c_vsize = SizePos(img, j)
           /\ Named(y).ool = y.ool
<1>1. CASE "VSIZE" \in y.cursors
  BY <1>1 DEF Named, At
<1>2. CASE "VSIZE" \notin y.cursors
  <2>1. Named(y) = XattrName(y)
    BY <1>2 DEF Named
  <2>2. XattrName(y).ool = y.ool
    BY NameFields DEF SameAttr
  <2>3. XattrName(y).c_vsize = SizePos(img, j)
    BY NameAt DEF At
  <2>4. QED
    BY <2>1, <2>2, <2>3, NameAt
<1>3. QED
  BY <1>1, <1>2

\* sqfs_xattr_value_size finds the value, in place or kept elsewhere.
LEMMA ValueSizeAt ==
    ASSUME NEW img, IsImage(img), NEW j \in 1 .. Len(img.attrs), NEW y \in Iterators, At(img, j, y)
    PROVE  LET z == XattrValueSize(img, y)
           IN z \in Iterators /\ At(img, j, z) /\ z.remain = y.remain /\ "VAL" \in z.cursors
<1>1. PICK n \in Iterators : /\ n = Named(y) /\ At(img, j, n) /\ n.remain = y.remain
                             /\ n.c_vsize = SizePos(img, j) /\ n.ool = y.ool
  BY NamedAt
<1>2. PICK a \in Attrs : a = img.attrs[j]
  BY ImageAttrs
<1>3. PICK t : t = XattrTable(img)
  OBVIOUS
<1>4. PICK Z \in Nat, V \in Nat, len \in Nat :
        /\ Z = SizePos(img, j) /\ V = ValueSizePos(img, j) /\ len = Len(ValueOf(img, j))
        /\ Cell(t, V) = len
  BY <1>3, AttrPosIs, ValueIs
<1> PICK c \in Nat : c = V + 1
  OBVIOUS
<1>5. CASE y.ool
  <2>1. a.shared # 0
    BY <1>2, <1>5 DEF At
  <2>2. Cell(t, Z + 1) = V
    BY <1>2, <1>3, <1>4, <2>1, AttrAt DEF ValueSizePos
  <2>3. AttrPos(img, j) + AttrLen(a) = Z + 2
    BY <1>2, <1>4, <2>1, AttrAt
  <2>4. XattrValueSize(img, y) = WithValue(XattrFollow(n), c, len)
    BY <1>1, <1>3, <1>4, <1>5, <2>2 DEF XattrValueSize, WithValue
  <2>5. PICK f \in Iterators : /\ f = XattrFollow(n) /\ SameAttr(n, f)
              /\ f.cursors = n.cursors \cup {"NEXT"} /\ f.c_next = n.c_vsize + 2
              /\ f.c_val = n.c_val /\ f.c_vsize = n.c_vsize /\ f.vsize = n.vsize
    BY FollowFields
  <2>6. PICK z \in Iterators : z = WithValue(f, c, len) /\ ValueSet(f, c, len, z)
    BY ValueFields
  <2>7. At(img, j, z)
    BY <1>1, <1>2, <1>4, <2>3, <2>5, <2>6 DEF At, SameAttr, ValueSet
  <2>8. z.remain = y.remain /\ "VAL" \in z.cursors
    BY <1>1, <2>5, <2>6 DEF SameAttr, ValueSet
  <2>9. QED
    BY <2>4, <2>5, <2>6, <2>7, <2>8
<1>6. CASE ~ y.ool
  <2>1. a.shared = 0
    BY <1>2, <1>6 DEF At
  <2>2. V = Z
    BY <1>2, <1>4, <2>1 DEF ValueSizePos
  <2>3. XattrValueSize(img, y) = WithValue(n, c, len)
    BY <1>1, <1>3, <1>4, <1>6, <2>2 DEF XattrValueSize, WithValue
  <2>4. PICK z \in Iterators : z = WithValue(n, c, len) /\ ValueSet(n, c, len, z)
    BY ValueFields
  <2>5. At(img, j, z)
    BY <1>1, <1>4, <1>6, <2>2, <2>4 DEF At, SameAttr, ValueSet
  <2>6. z.remain = y.remain /\ "VAL" \in z.cursors
    BY <1>1, <2>4 DEF SameAttr, ValueSet
  <2>7. QED
    BY <2>3, <2>4, <2>5, <2>6
<1>7. QED
  BY <1>5, <1>6

\* The same of sqfs_xattr_value_size.
LEMMA SizedAt ==
    ASSUME NEW img, IsImage(img), NEW j \in 1 .. Len(img.attrs), NEW y \in Iterators, At(img, j, y)
    PROVE  LET z == Sized(img, y)
           IN z \in Iterators /\ At(img, j, z) /\ z.remain = y.remain /\ "VAL" \in z.cursors
  BY ValueSizeAt DEF Sized

\* Behind a value stored in place is the next attribute.
LEMMA ValueDoneAt ==
    ASSUME NEW img, IsImage(img), NEW j \in 1 .. Len(img.attrs), NEW y \in Iterators, At(img, j, y)
    PROVE  LET z == XattrValue(img, y)
           IN z \in Iterators /\ At(img, j, z) /\ z.remain = y.remain /\ "NEXT" \in z.cursors
<1>1. PICK s \in Iterators : /\ s = Sized(img, y) /\ At(img, j, s) /\ s.remain = y.remain
                             /\ "VAL" \in s.cursors
  BY SizedAt
<1>2. CASE s.ool
  BY <1>1, <1>2 DEF XattrValue, At
<1>3. CASE ~ s.ool
  <2>1. img.attrs[j].shared = 0
    BY <1>1, <1>3 DEF At
  <2>2. PICK e \in Nat : e = s.c_val + s.vsize
    BY <1>1, IteratorType
  <2>3. e = AttrPos(img, j) + AttrLen(img.attrs[j])
    <3>1. /\ s.c_val = SizePos(img, j) + 1 /\ s.vsize = Len(img.attrs[j].value)
      BY <1>1, <2>1 DEF At, ValueSizePos, ValueOf
    <3>2. AttrPos(img, j) + AttrLen(img.attrs[j]) = SizePos(img, j) + 1 + Len(img.attrs[j].value)
      BY <2>1, AttrAt
    <3>3. QED
      BY <2>2, <3>1, <3>2
  <2>4. XattrValue(img, y) = WithNext(s, e)
    BY <1>1, <1>3, <2>2 DEF XattrValue, WithNext
  <2>5. PICK z \in Iterators : /\ z = WithNext(s, e) /\ SameAttr(s, z)
              /\ z.cursors = s.cursors \cup {"NEXT"} /\ z.c_next = e
              /\ z.c_val = s.c_val /\ z.vsize = s.vsize /\ z.c_vsize = s.c_vsize
    BY NextFields
  <2>6. At(img, j, z)
    BY <1>1, <2>3, <2>5 DEF At, SameAttr
  <2>7. QED
    BY <1>1, <2>4, <2>5, <2>6 DEF SameAttr, ValueSet
<1>4. QED
  BY <1>2, <1>3

\* The current attribute's position that is left out is skipped by what is
\* stored: a value kept elsewhere has a size as well, and a position behind it.
LEMMA SkippedAt ==
    ASSUME NEW img, IsImage(img), NEW j \in 1 .. Len(img.attrs), NEW y \in Iterators, At(img, j, y)
    PROVE  LET z == Skipped(img, y)
           IN /\ z \in Iterators /\ z.remain = y.remain
              /\ z.c_next = AttrPos(img, j) + AttrLen(img.attrs[j])
<1>1. CASE "NEXT" \in y.cursors
  BY <1>1 DEF Skipped, At
<1>2. CASE "NEXT" \notin y.cursors
  <2>1. PICK f : f = Forced(y)
    OBVIOUS
  <2>2. /\ f \in Iterators /\ f.remain = y.remain /\ f.ool = FALSE /\ f.cursors = y.cursors
        /\ f.c_name = y.c_name /\ f.c_vsize = y.c_vsize /\ f.c_val = y.c_val
        /\ f.c_next = y.c_next /\ f.type = y.type /\ f.size = y.size /\ f.vsize = y.vsize
    BY <2>1 DEF Forced, Iterators
  <2>3. Skipped(img, y) = XattrValue(img, f)
    BY <1>2, <2>1 DEF Skipped
  <2>4. CASE img.attrs[j].shared = 0
    <3>1. At(img, j, f)
      BY <1>2, <2>2, <2>4 DEF At
    <3>2. PICK z : z = XattrValue(img, f) /\ z \in Iterators /\ At(img, j, z)
                   /\ z.remain = f.remain /\ "NEXT" \in z.cursors
      BY <2>2, <3>1, ValueDoneAt
    <3>3. z.c_next = AttrPos(img, j) + AttrLen(img.attrs[j])
      BY <3>2 DEF At
    <3>4. QED
      BY <2>2, <2>3, <3>2, <3>3
  <2>5. CASE img.attrs[j].shared # 0
    <3>1. "VAL" \notin f.cursors
      BY <1>2, <2>2, <2>5 DEF At
    <3>2. PICK Z \in Nat : /\ Z = SizePos(img, j)
                           /\ "VSIZE" \in y.cursors => y.c_vsize = Z
                           /\ y.c_name + y.size = Z
      BY AttrPosIs DEF At
    <3>3. PICK n \in Iterators : n = Named(f) /\ n.c_vsize = Z /\ n.ool = FALSE /\ n.remain = y.remain
      <4>1. CASE "VSIZE" \in f.cursors
        BY <2>2, <3>2, <4>1 DEF Named
      <4>2. CASE "VSIZE" \notin f.cursors
        <5>1. Named(f) = XattrName(f)
          BY <4>2 DEF Named
        <5>2. /\ XattrName(f) \in Iterators /\ SameAttr(f, XattrName(f))
              /\ XattrName(f).c_vsize = f.c_name + f.size
          BY <2>2, NameFields
        <5>3. QED
          BY <2>2, <3>2, <5>1, <5>2 DEF SameAttr
      <4>3. QED
        BY <4>1, <4>2
    <3>4. PICK t : t = XattrTable(img) /\ Cell(t, Z) = 1
      BY <2>5, <3>2, AttrAt
    <3>5. PICK c \in Nat : c = Z + 1
      OBVIOUS
    <3>6. Sized(img, f) = WithValue(n, c, 1)
      BY <2>2, <3>1, <3>3, <3>4, <3>5 DEF Sized, XattrValueSize, WithValue
    <3>7. PICK s \in Iterators : s = WithValue(n, c, 1) /\ ValueSet(n, c, 1, s)
      BY ValueFields
    <3>8. PICK e \in Nat : e = s.c_val + s.vsize /\ e = Z + 2
      BY <3>5, <3>7 DEF ValueSet
    <3>9. XattrValue(img, f) = WithNext(s, e)
      BY <3>3, <3>6, <3>7, <3>8 DEF XattrValue, WithNext, ValueSet, SameAttr
    <3>10. PICK z \in Iterators : z = WithNext(s, e) /\ SameAttr(s, z) /\ z.c_next = e
      BY NextFields
    <3>11. z.remain = y.remain
      BY <3>3, <3>7, <3>10 DEF SameAttr, ValueSet
    <3>12. AttrPos(img, j) + AttrLen(img.attrs[j]) = Z + 2
      BY <2>5, <3>2, AttrAt
    <3>13. QED
      BY <2>3, <3>8, <3>9, <3>10, <3>11, <3>12
  <2>6. QED
    BY <2>4, <2>5
<1>3. QED
  BY <1>1, <1>2

\* The flag in an entry's type can be told from the prefix.
LEMMA EntryIs ==
    ASSUME NEW a \in Attrs
    PROVE  LET e == a.prefix + (IF a.shared = 0 THEN 0 ELSE OOL)
           IN e \in Nat /\ e % OOL = a.prefix /\ (e >= OOL <=> a.shared # 0)
<1>1. a.prefix \in 0 .. 15
  BY AttrType DEF OOL
<1>2. CASE a.shared = 0
  BY <1>1, <1>2 DEF OOL
<1>3. CASE a.shared # 0
  BY <1>1, <1>3 DEF OOL
<1>4. QED
  BY <1>2, <1>3

\* sqfs_xattr_read, once what is left of an attribute is skipped.
LEMMA ReadAt ==
    ASSUME NEW img, IsImage(img), NEW j \in 1 .. Len(img.attrs), NEW y \in Iterators,
           y.remain > 0, Skipped(img, y) \in Iterators, Skipped(img, y).remain = y.remain,
           Skipped(img, y).c_next = AttrPos(img, j)
    PROVE  LET z == XattrRead(img, y)
           IN /\ z \in Iterators /\ At(img, j, z) /\ z.remain = y.remain - 1 /\ z.cursors = {}
              /\ EntryType(img, y) = img.attrs[j].prefix
<1>1. PICK s \in Iterators : s = Skipped(img, y)
  OBVIOUS
<1>2. PICK a \in Attrs : a = img.attrs[j]
  BY ImageAttrs
<1>3. PICK t : t = XattrTable(img)
  OBVIOUS
<1>4. PICK P \in Nat : P = AttrPos(img, j) /\ s.c_next = P
  BY <1>1, AttrPosIs
<1>5. PICK e \in Nat, l \in Nat : /\ e = Cell(t, P) /\ l = Cell(t, P + 1) /\ l = Len(a.name)
                                  /\ e % OOL = a.prefix /\ (e >= OOL <=> a.shared # 0)
  <2>1. Cell(t, P) = a.prefix + (IF a.shared = 0 THEN 0 ELSE OOL) /\ Cell(t, P + 1) = Len(a.name)
    BY <1>2, <1>3, <1>4, AttrAt
  <2>2. Len(a.name) \in Nat
    BY AttrType
  <2>3. QED
    BY <2>1, <2>2, EntryIs
<1>6. EntryType(img, y) = a.prefix
  BY <1>1, <1>3, <1>4, <1>5 DEF EntryType
<1>7. a.prefix \in Nat /\ s.remain \in Nat /\ s.remain > 0
  <2>1. a.prefix \in 0 .. 15
    BY AttrType DEF OOL
  <2>2. QED
    BY <1>1, <2>1, IteratorType
<1>8. PICK r \in Nat, c \in Nat : r = s.remain - 1 /\ c = P + 2
  BY <1>7
<1> PICK b : b = (e >= OOL)
  OBVIOUS
<1> b \in BOOLEAN
  OBVIOUS
<1>9. PICK z : z = [s EXCEPT !.remain = r, !.cursors = {}, !.c_name = c, !.type = a.prefix,
                             !.ool = b, !.size = l]
  OBVIOUS
<1>10. XattrRead(img, y) = z
  <2>1. XattrRead(img, y) = [s EXCEPT !.remain = @ - 1, !.cursors = {}, !.c_name = s.c_next + 2,
                                      !.type = EntryType(img, y), !.ool = Cell(t, s.c_next) >= OOL,
                                      !.size = Cell(t, s.c_next + 1)]
    BY <1>1, <1>3 DEF XattrRead
  <2>2. /\ s.c_next + 2 = c /\ EntryType(img, y) = a.prefix /\ (Cell(t, s.c_next) >= OOL) = b
        /\ Cell(t, s.c_next + 1) = l
    BY <1>4, <1>5, <1>6, <1>8
  <2>3. QED
    BY <1>8, <1>9, <2>1, <2>2
<1>11. /\ z \in Iterators /\ z.remain = r /\ z.cursors = {} /\ z.c_name = c /\ z.type = a.prefix
       /\ z.ool = b /\ z.size = l
  BY <1>7, <1>9 DEF Iterators
<1>12. At(img, j, z)
  BY <1>2, <1>4, <1>5, <1>8, <1>11 DEF At
<1>13. QED
  BY <1>1, <1>2, <1>6, <1>8, <1>10, <1>11, <1>12

-----------------------------------------------------------------------------
(***************************************************************************)
(* The inductive invariant.  Its parts are about values, not about         *)
(* variables: img is the image, rq the request, y the iterator.            *)
(***************************************************************************)
Handlers == {"getattr", "readlink", "listxattr", "getxattr", "client"}

ReqOK(img, rq) ==
    /\ rq.op \in Handlers \cup {"none"} /\ rq.of \in 1 .. Len(img.inodes)
    /\ rq.how \in {"ino64", "ino32exp", "path"}
    /\ rq.size \in Nat /\ rq.name \in Seq(Nat)
    /\ rq.op = "readlink" => rq.size > 0

\* The attributes of the inode asked about.
NoAttrs(img, rq)    == img.inodes[rq.of].xattr = NoXattr \/ img.sets = <<>>
FirstOf(img, rq) == img.sets[img.inodes[rq.of].xattr + 1].first
CountOf(img, rq) == IF NoAttrs(img, rq) THEN 0 ELSE img.sets[img.inodes[rq.of].xattr + 1].count

\* The attribute that is read next.
NextOf(img, rq, y) == FirstOf(img, rq) + CountOf(img, rq) - y.remain

NameOfAttr(img, j) == PrefixOf(img.attrs[j].prefix) \o img.attrs[j].name
NamesOf(img, rq)   == [k \in 1 .. CountOf(img, rq) |->
                          NameOfAttr(img, FirstOf(img, rq) + k - 1) \o <<0>>]

(* The iterator is before the first attribute or at one of them.           *)
IterOK(img, rq, y) ==
    IF NoAttrs(img, rq) THEN y = NoIterator
    ELSE IF y.remain = CountOf(img, rq)
    THEN y.cursors = {"NEXT"} /\ y.c_next = AttrPos(img, FirstOf(img, rq))
    ELSE At(img, NextOf(img, rq, y) - 1, y)

\* What sqfs_listxattr has counted and copied.
ListOK(img, rq, y, c, o) ==
    LET names == Heads(NamesOf(img, rq))[CountOf(img, rq) - y.remain]
    IN c = Len(names) /\ (rq.size # 0 => o = names /\ c <= rq.size)

\* No attribute before j is the one that is wanted.
IsWanted(img, rq, j)  == img.attrs[j].prefix <= PREFIX_MAX /\ NameOfAttr(img, j) = rq.name
NoneBefore(img, rq, j) == \A i \in FirstOf(img, rq) .. j - 1 : ~ IsWanted(img, rq, i)

Good(img, p, rq, ino, y, c, o, rp) ==
    /\ img \in Images /\ ReqOK(img, rq) /\ y \in Iterators /\ y.remain <= CountOf(img, rq)
    /\ p \in {"idle", "inode", "done", "negated", "list", "find", "found", "use", "have"}
              \cup Handlers
    /\ p \notin {"done", "negated"} => rp = <<>>
    /\ p \in {"idle", "inode"} => ino = NoInode
    /\ (ino = NoInode /\ p \in {"idle", "inode", "done"}) \/ InodeRight(img, img.inodes[rq.of], ino)
    /\ p = "idle" => rq.op = "none"
    /\ p \in {"idle", "inode"} \cup Handlers => c = 0 /\ o = <<>> /\ y = NoIterator
    /\ p = "inode" => rq.op \in Handlers
    /\ p \in Handlers => rq.op = p
    /\ p \in {"list", "find", "found", "use", "have"} => IterOK(img, rq, y)
    /\ p = "list" => rq.op = "listxattr" /\ ListOK(img, rq, y, c, o)
    /\ p \in {"find", "found"} => rq.op = "getxattr"
    /\ p = "find" /\ ~ NoAttrs(img, rq) => NoneBefore(img, rq, NextOf(img, rq, y))
    /\ p = "found" => /\ y.remain < CountOf(img, rq)
                      /\ NoneBefore(img, rq, NextOf(img, rq, y) - 1)
                      /\ IsWanted(img, rq, NextOf(img, rq, y) - 1)
    /\ p \in {"use", "have"} => rq.op = "client"
    /\ p = "use" => y.remain = CountOf(img, rq) /\ o = <<>>
    /\ p = "have" => y.remain < CountOf(img, rq)

IInv == Good(image, pc, req, inode, x, count, out, reply) /\ ReplyCorrect

-----------------------------------------------------------------------------
\* The assumption on the images.
LEMMA ImagesAre ==
    ASSUME NEW img \in Images
    PROVE  IsImage(img) /\ Len(img.inodes) < Limit
  BY AttributesAssumption

\* The set of attributes that an inode refers to is there.
LEMMA SetIs ==
    ASSUME NEW img \in Images, NEW rq, ReqOK(img, rq)
    PROVE  /\ CountOf(img, rq) \in Nat
           /\ NoAttrs(img, rq) => CountOf(img, rq) = 0
           /\ ~ NoAttrs(img, rq) =>
                /\ FirstOf(img, rq) \in Nat \ {0} /\ CountOf(img, rq) \in Nat \ {0}
                /\ FirstOf(img, rq) + CountOf(img, rq) - 1 <= Len(img.attrs)
                /\ img.inodes[rq.of].xattr \in 0 .. Len(img.sets) - 1
                /\ CountOf(img, rq) = img.sets[img.inodes[rq.of].xattr + 1].count
<1>1. IsImage(img)
  BY ImagesAre
<1>2. PICK n \in Inodes : n = img.inodes[rq.of] /\ (n.xattr # NoXattr => n.xattr < Len(img.sets))
  BY <1>1, ImageInodes DEF ReqOK
<1>3. CASE NoAttrs(img, rq)
  BY <1>3 DEF CountOf
<1>4. CASE ~ NoAttrs(img, rq)
  <2>1. n.xattr \in Nat /\ n.xattr < Len(img.sets)
    BY <1>2, <1>4, InodeType DEF NoAttrs
  <2>2. PICK k \in 1 .. Len(img.sets) : k = n.xattr + 1
    BY <1>1, <2>1, ImageAttrs
  <2>3. /\ img.sets[k].first \in Nat \ {0} /\ img.sets[k].count \in Nat \ {0}
        /\ img.sets[k].first + img.sets[k].count - 1 <= Len(img.attrs)
    BY <1>1, ImageAttrs
  <2>4. FirstOf(img, rq) = img.sets[k].first /\ CountOf(img, rq) = img.sets[k].count
    BY <1>2, <1>4, <2>2 DEF FirstOf, CountOf
  <2>5. n.xattr \in 0 .. Len(img.sets) - 1
    BY <1>1, <2>1, ImageAttrs
  <2>6. QED
    BY <1>2, <1>4, <2>2, <2>3, <2>4, <2>5
<1>5. QED
  BY <1>3, <1>4

\* The attributes as the properties count them.
LEMMA CardinalityIs ==
    ASSUME image \in Images, ReqOK(image, req)
    PROVE  /\ Cardinality(AttrsOf) = CountOf(image, req)
           /\ FirstAttr = FirstOf(image, req)
           /\ NoAttrs(image, req) => AttrsOf = {}
           /\ ~ NoAttrs(image, req) =>
                AttrsOf = FirstOf(image, req) .. FirstOf(image, req) + CountOf(image, req) - 1
<1>1. FirstAttr = FirstOf(image, req)
  BY DEF FirstAttr, FirstOf, Asked
<1>2. CASE NoAttrs(image, req)
  <2>1. AttrsOf = {}
    BY <1>2 DEF AttrsOf, NoAttrs, Asked
  <2>2. QED
    BY <1>1, <1>2, <2>1, SetIs, FS_EmptySet
<1>3. CASE ~ NoAttrs(image, req)
  <2>1. PICK f \in Nat \ {0}, c \in Nat \ {0} : f = FirstOf(image, req) /\ c = CountOf(image, req)
    BY <1>3, SetIs
  <2>2. AttrsOf = f .. f + c - 1
    BY <1>1, <1>3, <2>1, SetIs DEF AttrsOf, NoAttrs, Asked
  <2>3. f + c - 1 \in Int /\ f \in Int /\ f <= f + c - 1 /\ f + c - 1 - f + 1 = c
    OBVIOUS
  <2>4. Cardinality(f .. f + c - 1) = c
    BY <2>3, FS_Interval
  <2>5. QED
    BY <1>1, <1>3, <2>1, <2>2, <2>4
<1>4. QED
  BY <1>2, <1>3

\* sqfs_xattr_open is at the first of them.
LEMMA OpenOK ==
    ASSUME NEW img \in Images, NEW rq, ReqOK(img, rq), ~ NoAttrs(img, rq),
           NEW ino, ino.xattr = img.inodes[rq.of].xattr
    PROVE  LET y == XattrOpen(img, ino)
           IN y \in Iterators /\ y.remain = CountOf(img, rq) /\ IterOK(img, rq, y)
<1>1. IsImage(img)
  BY ImagesAre
<1>2. TableGet(XattrIdSize, img.sets, ino.xattr) = img.sets[ino.xattr + 1]
  BY <1>1, SetIs, IdGet, ImageAttrs
<1>3. PICK f \in Nat \ {0}, c \in Nat \ {0} :
        /\ f = FirstOf(img, rq) /\ c = CountOf(img, rq) /\ f + c - 1 <= Len(img.attrs)
        /\ img.sets[ino.xattr + 1].count = c /\ img.sets[ino.xattr + 1].first = f
  BY SetIs DEF FirstOf
<1>4. PICK p \in Nat : p = AttrPos(img, f)
  <2>1. f \in 1 .. Len(img.attrs)
    BY <1>1, <1>3, ImageAttrs
  <2>2. QED
    BY <1>1, <2>1, AttrPosIs
<1>5. PICK y : y = [NoIterator EXCEPT !.remain = c, !.c_next = p, !.cursors = {"NEXT"}]
  OBVIOUS
<1>6. XattrOpen(img, ino) = y
  BY <1>2, <1>3, <1>4, <1>5 DEF XattrOpen
<1>7. y \in Iterators /\ y.remain = c /\ y.c_next = p /\ y.cursors = {"NEXT"}
  BY <1>5 DEF NoIterator, Iterators
<1>8. QED
  BY <1>3, <1>4, <1>6, <1>7 DEF IterOK

\* The attribute the iterator is at.
LEMMA IsAt ==
    ASSUME NEW img \in Images, NEW rq, ReqOK(img, rq), NEW y \in Iterators, IterOK(img, rq, y),
           y.remain < CountOf(img, rq)
    PROVE  LET j == NextOf(img, rq, y) - 1
           IN /\ ~ NoAttrs(img, rq) /\ j \in 1 .. Len(img.attrs) /\ At(img, j, y)
              /\ FirstOf(img, rq) <= j
<1>1. y.remain \in Nat
  BY IteratorType
<1>2. ~ NoAttrs(img, rq)
  BY <1>1, SetIs
<1>3. PICK f \in Nat \ {0}, c \in Nat \ {0}, m \in Nat :
        /\ f = FirstOf(img, rq) /\ c = CountOf(img, rq) /\ m = Len(img.attrs) /\ f + c - 1 <= m
  BY <1>2, SetIs, ImagesAre, ImageAttrs
<1>4. NextOf(img, rq, y) - 1 \in 1 .. m /\ f <= NextOf(img, rq, y) - 1
  BY <1>1, <1>3 DEF NextOf
<1>5. At(img, NextOf(img, rq, y) - 1, y)
  BY <1>1, <1>2, <1>3 DEF IterOK
<1>6. QED
  BY <1>2, <1>3, <1>4, <1>5

\* It is still there after a call that does not read the next entry.
LEMMA StaysAt ==
    ASSUME NEW img \in Images, NEW rq, ReqOK(img, rq), NEW y \in Iterators,
           y.remain < CountOf(img, rq), NEW z \in Iterators, z.remain = y.remain,
           At(img, NextOf(img, rq, y) - 1, z)
    PROVE  IterOK(img, rq, z) /\ NextOf(img, rq, z) = NextOf(img, rq, y)
<1>1. NextOf(img, rq, z) = NextOf(img, rq, y)
  BY DEF NextOf
<1>2. z.remain # CountOf(img, rq) /\ ~ NoAttrs(img, rq)
  BY SetIs, IteratorType
<1>3. QED
  BY <1>1, <1>2 DEF IterOK

\* sqfs_xattr_read comes to the next attribute whatever was done before.
LEMMA ReadOK ==
    ASSUME NEW img \in Images, NEW rq, ReqOK(img, rq), NEW y \in Iterators, IterOK(img, rq, y),
           y.remain > 0, y.remain <= CountOf(img, rq)
    PROVE  LET j == NextOf(img, rq, y)
               z == XattrRead(img, y)
           IN /\ ~ NoAttrs(img, rq) /\ j \in 1 .. Len(img.attrs) /\ FirstOf(img, rq) <= j
              /\ z \in Iterators /\ At(img, j, z) /\ z.remain = y.remain - 1
              /\ z.remain < CountOf(img, rq) /\ NextOf(img, rq, z) = j + 1 /\ IterOK(img, rq, z)
              /\ EntryType(img, y) = img.attrs[j].prefix
<1>1. PICK r \in Nat \ {0} : r = y.remain
  BY IteratorType
<1>2. ~ NoAttrs(img, rq) /\ IsImage(img)
  BY <1>1, SetIs, ImagesAre
<1>3. PICK f \in Nat \ {0}, c \in Nat \ {0}, m \in Nat :
        /\ f = FirstOf(img, rq) /\ c = CountOf(img, rq) /\ m = Len(img.attrs) /\ f + c - 1 <= m
  BY <1>2, SetIs, ImageAttrs
<1>4. PICK j \in 1 .. m : j = NextOf(img, rq, y) /\ f <= j /\ j = f + c - r /\ r <= c
  BY <1>1, <1>3 DEF NextOf
<1>5. Skipped(img, y) \in Iterators /\ Skipped(img, y).remain = r /\ Skipped(img, y).c_next = AttrPos(img, j)
  <2>1. CASE r = c
    <3>1. f = j
      BY <1>4, <2>1
    <3>2. "NEXT" \in y.cursors /\ y.c_next = AttrPos(img, f)
      BY <1>1, <1>2, <1>3, <2>1 DEF IterOK
    <3>3. QED
      BY <1>1, <3>1, <3>2 DEF Skipped
  <2>2. CASE r # c
    <3>1. PICK i \in 1 .. m : i = j - 1 /\ At(img, i, y) /\ i + 1 <= m /\ i + 1 = j
      <4>1. j - 1 \in 1 .. m /\ j - 1 + 1 <= m /\ j - 1 + 1 = j
        BY <1>4, <2>2
      <4>2. At(img, j - 1, y)
        BY <1>1, <1>2, <1>3, <1>4, <2>2 DEF IterOK
      <4>3. QED
        BY <4>1, <4>2
    <3>2. /\ Skipped(img, y) \in Iterators /\ Skipped(img, y).remain = y.remain
          /\ Skipped(img, y).c_next = AttrPos(img, i) + AttrLen(img.attrs[i])
      BY <1>2, <1>3, <3>1, SkippedAt
    <3>3. AttrPos(img, i + 1) = AttrPos(img, i) + AttrLen(img.attrs[i])
      BY <1>2, <1>3, <3>1, AttrPosIs
    <3>4. QED
      BY <1>1, <3>1, <3>2, <3>3
  <2>3. QED
    BY <2>1, <2>2
<1>6. PICK z : z = XattrRead(img, y)
  OBVIOUS
<1>7. /\ z \in Iterators /\ At(img, j, z) /\ z.remain = y.remain - 1
      /\ EntryType(img, y) = img.attrs[j].prefix
  BY <1>1, <1>2, <1>3, <1>5, <1>6, ReadAt
<1>8. z.remain < c /\ NextOf(img, rq, z) = j + 1 /\ z.remain # c
  <2>1. z.remain = r - 1
    BY <1>1, <1>7
  <2>2. NextOf(img, rq, z) = f + c - (r - 1)
    BY <1>3, <2>1 DEF NextOf
  <2>3. QED
    BY <1>4, <2>1, <2>2
<1>9. IterOK(img, rq, z)
  <2>1. (j + 1) - 1 = j
    OBVIOUS
  <2>2. QED
    BY <1>2, <1>3, <1>7, <1>8, <2>1 DEF IterOK
<1>10. QED
  BY <1>2, <1>3, <1>4, <1>6, <1>7, <1>8, <1>9

-----------------------------------------------------------------------------
(***************************************************************************)
(* Names and values.                                                       *)
(***************************************************************************)
LEMMA PrefixType ==
    ASSUME NEW type \in Nat
    PROVE  PrefixOf(type) \in Seq(Nat) /\ Len(PrefixOf(type)) = type + 1
<1>1. PICK p : p = PrefixOf(type)
  OBVIOUS
<1>2. PICK n \in Nat, c \in Nat : n = type + 1 /\ c = 60 + type
  OBVIOUS
<1>3. p = [i \in 1 .. n |-> c]
  BY <1>1, <1>2 DEF PrefixOf
<1>4. p \in Seq(Nat) /\ Len(p) = n
  BY <1>3
<1>5. QED
  BY <1>1, <1>2, <1>4

\* A full name is its prefix and the stored name.
LEMMA NameType ==
    ASSUME NEW img, IsImage(img), NEW j \in 1 .. Len(img.attrs)
    PROVE  /\ img.attrs[j].prefix \in Nat /\ img.attrs[j].name \in Seq(Nat)
           /\ NameOfAttr(img, j) \in Seq(Nat) /\ Len(NameOfAttr(img, j)) \in Nat
           /\ Len(NameOfAttr(img, j)) = Len(PrefixOf(img.attrs[j].prefix)) + Len(img.attrs[j].name)
<1>1. PICK a \in Attrs : a = img.attrs[j]
  BY ImageAttrs
<1>2. PICK p \in Nat, n \in Seq(Nat) : p = a.prefix /\ n = a.name
  <2>1. a.prefix \in 0 .. 15 /\ a.name \in Seq(Nat)
    BY AttrType DEF OOL
  <2>2. a.prefix \in Nat
    BY <2>1
  <2>3. QED
    BY <2>1, <2>2
<1>3. PICK q \in Seq(Nat) : q = PrefixOf(p)
  BY PrefixType
<1>4. q \o n \in Seq(Nat) /\ Len(q \o n) = Len(q) + Len(n) /\ Len(q) \in Nat /\ Len(n) \in Nat
  BY ConcatAt
<1>5. NameOfAttr(img, j) = q \o n
  BY <1>1, <1>2, <1>3 DEF NameOfAttr
<1>6. Len(NameOfAttr(img, j)) = Len(q) + Len(n) /\ Len(NameOfAttr(img, j)) \in Nat
  BY <1>4, <1>5
<1>7. NameOfAttr(img, j) \in Seq(Nat)
  BY <1>4, <1>5
<1>8. p = img.attrs[j].prefix /\ n = img.attrs[j].name /\ q = PrefixOf(img.attrs[j].prefix)
  BY <1>1, <1>2, <1>3
<1>9. QED
  BY <1>6, <1>7, <1>8, Zenon

\* The list of names is a stream.
LEMMA NamesStream ==
    ASSUME NEW img \in Images, NEW rq, ReqOK(img, rq)
    PROVE  /\ IsStream(NamesOf(img, rq)) /\ Len(NamesOf(img, rq)) = CountOf(img, rq)
           /\ \A k \in 1 .. CountOf(img, rq) :
                NamesOf(img, rq)[k] = NameOfAttr(img, FirstOf(img, rq) + k - 1) \o <<0>>
<1>1. PICK c \in Nat : c = CountOf(img, rq)
  BY SetIs
<1>2. PICK T : T = Seq(Nat)
  OBVIOUS
<1>3. ASSUME NEW k \in 1 .. c
      PROVE  NameOfAttr(img, FirstOf(img, rq) + k - 1) \o <<0>> \in T
  <2>1. PICK f \in Nat \ {0}, m \in Nat : f = FirstOf(img, rq) /\ m = Len(img.attrs) /\ f + c - 1 <= m
    BY <1>1, SetIs, ImagesAre, ImageAttrs
  <2>2. PICK j \in 1 .. m : j = f + k - 1
    BY <2>1
  <2>3. NameOfAttr(img, j) \in Seq(Nat) /\ <<0>> \in Seq(Nat)
    <3>1. <<0>> \in Seq(Nat)
      OBVIOUS
    <3>2. IsImage(img) /\ j \in 1 .. Len(img.attrs)
      BY <2>1, ImagesAre
    <3>3. NameOfAttr(img, j) \in Seq(Nat)
      BY <3>2, NameType
    <3>4. QED
      BY <3>1, <3>3
  <2>4. PICK a \in Seq(Nat), b \in Seq(Nat) : a = NameOfAttr(img, j) /\ b = <<0>>
    BY <2>3
  <2>5. a \o b \in Seq(Nat)
    BY ConcatAt
  <2>6. QED
    BY <1>2, <2>1, <2>2, <2>4, <2>5
<1>4. PICK ss : ss = NamesOf(img, rq)
  OBVIOUS
<1>5. ss = [k \in 1 .. c |-> NameOfAttr(img, FirstOf(img, rq) + k - 1) \o <<0>>]
  BY <1>1, <1>4 DEF NamesOf
<1>6. ss \in [1 .. c -> T]
      /\ \A k \in 1 .. c : ss[k] = NameOfAttr(img, FirstOf(img, rq) + k - 1) \o <<0>>
  BY <1>3, <1>5
<1>7. ss \in Seq(T) /\ Len(ss) = c
  BY <1>6
<1>8. QED
  BY <1>1, <1>2, <1>4, <1>6, <1>7 DEF IsStream

\* The longer a stretch of a stream, the more cells.
LEMMA HeadsGrow ==
    ASSUME NEW ss, IsStream(ss), NEW i \in 0 .. Len(ss)
    PROVE  /\ Len(Heads(ss)[i]) \in Nat /\ Len(Heads(ss)[Len(ss)]) \in Nat
           /\ Len(Heads(ss)[i]) <= Len(Heads(ss)[Len(ss)])
<1>1. PICK n \in Nat : n = Len(ss)
  BY SeqSeq
<1>2. PICK h : h = Heads(ss)
  OBVIOUS
<1>3. /\ \A k \in 1 .. n : h[k] = h[k - 1] \o ss[k]
      /\ \A k \in 0 .. n : h[k] \in Seq(Nat)
  BY <1>1, <1>2, HeadsStep
<1>4. \A k \in 0 .. n : Len(h[k]) \in Nat
  BY <1>3, LenProperties
<1> DEFINE S == {m \in Nat : i + m <= n => Len(h[i]) <= Len(h[i + m])}
<1>5. 0 \in S
  <2>1. i + 0 = i /\ i \in 0 .. n
    BY <1>1
  <2>2. Len(h[i]) <= Len(h[i])
    BY <1>4, <2>1
  <2>3. QED
    BY <2>1, <2>2
<1>6. ASSUME NEW m \in Nat, m \in S PROVE m + 1 \in S
  <2>1. SUFFICES ASSUME i + (m + 1) <= n PROVE Len(h[i]) <= Len(h[i + (m + 1)])
    OBVIOUS
  <2>2. PICK k \in 1 .. n : k = i + (m + 1)
    BY <1>1, <2>1
  <2>3. k - 1 = i + m /\ i + m <= n /\ k - 1 \in 0 .. n /\ k \in 0 .. n /\ i \in 0 .. n
    BY <1>1, <2>2
  <2>4. PICK a, b : a = h[k - 1] /\ b = ss[k] /\ a \in Seq(Nat) /\ b \in Seq(Nat)
    BY <1>1, <1>3, <2>3, SeqSeq
  <2>5. Len(a \o b) = Len(a) + Len(b) /\ Len(a) \in Nat /\ Len(b) \in Nat
    BY <2>4, ConcatAt
  <2>6. h[k] = a \o b
    BY <1>3, <2>4
  <2>7. Len(h[i]) <= Len(a) /\ Len(h[i]) \in Nat
    BY <1>4, <1>6, <2>3, <2>4
  <2>8. Len(h[i]) <= Len(h[k])
    BY <2>5, <2>6, <2>7
  <2>9. QED
    BY <2>2, <2>8
<1> HIDE DEF S
<1>7. Nat \subseteq S
  BY <1>5, <1>6, Induct
<1>8. n - i \in S /\ i + (n - i) = n /\ i \in 0 .. n /\ n \in 0 .. n
  BY <1>1, <1>7
<1>9. Len(h[i]) <= Len(h[n])
  BY <1>8 DEF S
<1>10. QED
  BY <1>1, <1>2, <1>4, <1>8, <1>9

\* What sqfs_xattr_name delivers.
LEMMA NameAtIs ==
    ASSUME NEW img, IsImage(img), NEW j \in 1 .. Len(img.attrs), NEW y, At(img, j, y)
    PROVE  NameOf(img, y) = NameOfAttr(img, j)
<1>1. /\ y.type = img.attrs[j].prefix /\ y.size = Len(img.attrs[j].name)
      /\ y.c_name = AttrPos(img, j) + 2
  BY DEF At
<1>2. QED
  BY <1>1, NameIs DEF NameOf, NameOfAttr

\* What sqfs_xattr_value delivers.
LEMMA ValueAtIs ==
    ASSUME NEW img, IsImage(img), NEW j \in 1 .. Len(img.attrs), NEW y, At(img, j, y),
           "VAL" \in y.cursors
    PROVE  ValueAt(img, y) = ValueOf(img, j)
<1>1. y.c_val = ValueSizePos(img, j) + 1 /\ y.vsize = Len(ValueOf(img, j))
  BY DEF At
<1>2. QED
  BY <1>1, ValueIs DEF ValueAt

\* A sequence starts with its first part.
LEMMA PrefixOfConcat ==
    ASSUME NEW a \in Seq(Nat), NEW b \in Seq(Nat)
    PROVE  IsPrefix(a, a \o b)
<1>1. PICK c : c = a \o b
  OBVIOUS
<1>2. PICK m \in Nat, n \in Nat : m = Len(a) /\ n = Len(b)
  BY LenProperties
<1>3. /\ c \in Seq(Nat) /\ Len(c) = m + n
      /\ \A j \in 1 .. m : c[j] = a[j]
  BY <1>1, <1>2, ConcatAt
<1>4. SubSeq(a, 1, m) = [i \in 1 .. m |-> a[i]]
  BY <1>2
<1>5. SubSeq(c, 1, m) = [i \in 1 .. m |-> c[i]]
  BY <1>3
<1>6. SubSeq(a, 1, m) = SubSeq(c, 1, m)
  BY <1>3, <1>4, <1>5
<1>7. m <= m + n
  OBVIOUS
<1>8. QED
  BY <1>1, <1>2, <1>3, <1>6, <1>7 DEF IsPrefix

\* A name with a known prefix starts with it.
LEMMA WantedPrefix ==
    ASSUME NEW img, IsImage(img), NEW j \in 1 .. Len(img.attrs), NEW rq, IsWanted(img, rq, j)
    PROVE  img.attrs[j].prefix \in KnownPrefixes(rq.name)
<1>1. PICK p \in Nat, n \in Seq(Nat) : p = img.attrs[j].prefix /\ n = img.attrs[j].name
  BY NameType
<1>2. PICK q \in Seq(Nat) : q = PrefixOf(p)
  BY PrefixType
<1>3. rq.name = q \o n /\ p <= PREFIX_MAX
  BY <1>1, <1>2 DEF IsWanted, NameOfAttr
<1>4. p \in 0 .. PREFIX_MAX
  BY <1>3 DEF PREFIX_MAX
<1>5. IsPrefix(PrefixOf(p), rq.name)
  BY <1>2, <1>3, PrefixOfConcat
<1>6. QED
  BY <1>1, <1>4, <1>5 DEF KnownPrefixes

\* The tests of sqfs_xattr_find tell the attribute that is wanted.
LEMMA MatchesIs ==
    ASSUME NEW img, IsImage(img), NEW j \in 1 .. Len(img.attrs), NEW y, At(img, j, y),
           NEW rq, img.attrs[j].prefix <= PREFIX_MAX
    PROVE  Matches(img, y, rq.name) <=> IsWanted(img, rq, j)
<1>1. y.type = img.attrs[j].prefix /\ y.size = Len(img.attrs[j].name)
  BY DEF At
<1>2. NameOf(img, y) = NameOfAttr(img, j)
  BY NameAtIs
<1>3. ASSUME Matches(img, y, rq.name) PROVE IsWanted(img, rq, j)
  BY <1>2, <1>3 DEF Matches, IsWanted
<1>4. ASSUME IsWanted(img, rq, j) PROVE Matches(img, y, rq.name)
  <2>1. NameOfAttr(img, j) = rq.name
    BY <1>4 DEF IsWanted
  <2>2. y.type \in KnownPrefixes(rq.name)
    BY <1>1, <1>4, WantedPrefix
  <2>3. PICK a \in Nat, b \in Nat : /\ a = Len(PrefixOf(img.attrs[j].prefix))
                                    /\ b = Len(img.attrs[j].name) /\ Len(rq.name) = a + b
    <3>1. Len(PrefixOf(img.attrs[j].prefix)) \in Nat /\ Len(img.attrs[j].name) \in Nat
      BY NameType, PrefixType, LenProperties
    <3>2. QED
      BY <2>1, <3>1, NameType
  <2>4. y.size = Len(rq.name) - Len(PrefixOf(y.type))
    BY <1>1, <2>3
  <2>5. QED
    BY <1>2, <2>1, <2>2, <2>4 DEF Matches
<1>5. QED
  BY <1>3, <1>4

-----------------------------------------------------------------------------
(***************************************************************************)
(* Every step keeps the invariant.                                         *)
(***************************************************************************)
LEMMA InitGood == Init => IInv
<1> SUFFICES ASSUME Init PROVE IInv
  OBVIOUS
<1>1. IsImage(image) /\ image \in Images
  BY ImagesAre DEF Init
<1>2. 1 \in 1 .. Len(image.inodes)
  BY <1>1, ImageInodes
<1>3. ReqOK(image, req)
  <2>1. <<>> \in Seq(Nat)
    BY EmptySeq
  <2>2. req.op = "none" /\ req.of = 1 /\ req.how = "path" /\ req.size = 0 /\ req.name = <<>>
    BY DEF Init, NoRequest
  <2>3. QED
    BY <1>2, <2>1, <2>2 DEF ReqOK
<1>4. x \in Iterators /\ x.remain = 0
  BY NoIteratorType DEF Init, NoIterator
<1>5. CountOf(image, req) \in Nat
  BY <1>1, <1>3, SetIs
<1>6. Good(image, pc, req, inode, x, count, out, reply)
  BY <1>1, <1>3, <1>4, <1>5 DEF Init, Good, NoRequest, Handlers
<1>7. ReplyCorrect
  BY DEF Init, ReplyCorrect
<1>8. QED
  BY <1>6, <1>7 DEF IInv

\* A step that ends the handler, with whatever reply.
LEMMA DoneGood ==
    ASSUME NEW img, NEW p, NEW rq, NEW ino, NEW y, NEW c, NEW o, NEW rp,
           Good(img, p, rq, ino, y, c, o, rp),
           NEW z \in Iterators, z.remain <= CountOf(img, rq), NEW c2, NEW o2, NEW rp2
    PROVE  Good(img, "done", rq, ino, z, c2, o2, rp2)
<1>1. "done" \notin Handlers
  BY DEF Handlers
<1>2. QED
  BY <1>1 DEF Good

\* A reply is given and nothing else changes.
LEMMA ReplyGood ==
    ASSUME IInv
    PROVE  \A rp : Good(image, "done", req, inode, x, count, out, rp)
<1>1. x \in Iterators /\ x.remain <= CountOf(image, req)
  BY DEF IInv, Good
<1>2. Good(image, pc, req, inode, x, count, out, reply)
  BY DEF IInv
<1>3. QED
  BY <1>1, <1>2, DoneGood

\* Before there is an answer nothing is wrong with it.
LEMMA Quiet ==
    ASSUME reply' = <<>>, req'.op # "client" \/ out' = <<>>
    PROVE  ReplyCorrect'
  BY DEF ReplyCorrect

\* An error that says nothing about the image.
LEMMA FailRight ==
    ASSUME NEW errno \in {"EIO", "-EIO", "ENOMEM", "ENOENT"}, reply' = <<"err", errno>>,
           pc' = "done", req'.op \in Handlers, req'.op = "client" => errno = "ENOENT" /\ out' = <<>>
    PROVE  ReplyCorrect'
<1>1. reply'[1] = "err" /\ reply'[2] = errno
  OBVIOUS
<1>2. AttrRight' /\ LinkRight' /\ ListRight' /\ GetRight'
  BY <1>1 DEF AttrRight, LinkRight, ListRight, GetRight, Err
<1>3. req'.op = "client" => Err("ENOENT")'
  BY <1>1 DEF Err
<1>4. QED
  BY <1>2, <1>3 DEF ReplyCorrect, Handlers

\* A request names an inode of the image.
LEMMA RequestIInv == IInv /\ Request => IInv'
<1> SUFFICES ASSUME IInv, Request PROVE IInv'
  OBVIOUS
<1>1. /\ image \in Images /\ image' = image /\ pc' = "inode" /\ inode' = inode /\ x' = x
      /\ count' = count /\ out' = out /\ reply' = reply /\ pc = "idle"
      /\ IsImage(image)
  BY ImagesAre DEF IInv, Good, Request
<1>2. DOMAIN image.inodes = 1 .. Len(image.inodes)
  BY <1>1, ImageInodes
<1>3. Sizes \subseteq Nat /\ Wanted \subseteq Seq(Nat) /\ <<>> \in Seq(Nat)
  BY AttributesAssumption, EmptySeq
<1>4. ReqOK(image, req') /\ req'.op \in Handlers
  <2>1. PICK r : r = req' /\ r \in Requests
    BY DEF Request
  <2>2. PICK N : N = 1 .. Len(image.inodes) /\ N = DOMAIN image.inodes
    BY <1>2
  <2>3. PICK T : T = Seq(Nat)
    OBVIOUS
  <2>4. PICK H : H = {"ino64", "ino32exp", "path"}
    OBVIOUS
  <2>5. \/ r \in [op : {"getattr", "client"}, of : N, how : H, size : {0}, name : {<<>>}]
        \/ r \in [op : {"readlink"}, of : N, how : H, size : Sizes \ {0}, name : {<<>>}]
        \/ r \in [op : {"listxattr"}, of : N, how : H, size : Sizes, name : {<<>>}]
        \/ r \in [op : {"getxattr"}, of : N, how : H, size : Sizes, name : Wanted]
    BY <2>1, <2>2, <2>4 DEF Requests
  <2>6. /\ r.op \in Handlers /\ r.of \in N /\ r.how \in H /\ r.size \in Nat /\ r.name \in T
        /\ r.op = "readlink" => r.size # 0
    <3>1. Sizes \subseteq Nat /\ Wanted \subseteq T /\ <<>> \in T
      BY <1>3, <2>3
    <3>2. CASE r \in [op : {"getattr", "client"}, of : N, how : H, size : {0}, name : {<<>>}]
      BY <3>1, <3>2 DEF Handlers
    <3>3. CASE r \in [op : {"readlink"}, of : N, how : H, size : Sizes \ {0}, name : {<<>>}]
      BY <3>1, <3>3 DEF Handlers
    <3>4. CASE r \in [op : {"listxattr"}, of : N, how : H, size : Sizes, name : {<<>>}]
      BY <3>1, <3>4 DEF Handlers
    <3>5. CASE r \in [op : {"getxattr"}, of : N, how : H, size : Sizes, name : Wanted]
      BY <3>1, <3>5 DEF Handlers
    <3>6. QED
      BY <2>5, <3>2, <3>3, <3>4, <3>5
  <2>7. r.size # 0 => r.size > 0
    BY <2>6
  <2>8. QED
    BY <2>1, <2>2, <2>3, <2>4, <2>6, <2>7 DEF ReqOK
<1>5. x = NoIterator /\ inode = NoInode /\ count = 0 /\ out = <<>> /\ reply = <<>>
  BY <1>1 DEF IInv, Good
<1>6. CountOf(image, req') \in Nat /\ x \in Iterators /\ x.remain = 0
  BY <1>1, <1>4, <1>5, SetIs, NoIteratorType DEF NoIterator
<1>7. Good(image, "inode", req', inode, x, count, out, reply)
  BY <1>1, <1>4, <1>5, <1>6 DEF Good, Handlers
<1>8. ReplyCorrect'
  BY <1>1, <1>5, Quiet
<1>9. QED
  BY <1>1, <1>7, <1>8 DEF IInv

\* By whichever way the inode is named, the right one is read.
LEMMA InodeGetIInv == IInv /\ InodeGet => IInv'
<1> SUFFICES ASSUME IInv, InodeGet PROVE IInv'
  OBVIOUS
<1>1. /\ image \in Images /\ image' = image /\ pc' = req.op /\ req' = req /\ x' = x
      /\ count' = count /\ out' = out /\ reply' = reply /\ pc = "inode"
      /\ inode' = SqfsInode(image, SqfsId(image, req.how, FuseIno(image, req.how, req.of)))
      /\ ReqOK(image, req) /\ req.op \in Handlers /\ reply = <<>> /\ out = <<>>
  BY DEF IInv, Good, InodeGet
<1>2. IsImage(image) /\ Len(image.inodes) < Limit
  BY <1>1, ImagesAre
<1>3. SqfsId(image, req.how, FuseIno(image, req.how, req.of)) = InodeId(image, req.of)
  BY <1>1, <1>2, SqfsIdIs DEF ReqOK
<1>4. InodeRight(image, image.inodes[req.of], inode')
  BY <1>1, <1>2, <1>3, SqfsInodeIs DEF ReqOK
<1>5. Good(image, req.op, req, inode', x, count, out, reply)
  BY <1>1, <1>4 DEF IInv, Good, Handlers
<1>6. ReplyCorrect'
  BY <1>1, Quiet
<1>7. QED
  BY <1>1, <1>5, <1>6 DEF IInv

\* The steps that only fail.
LEMMA FailsIInv ==
    IInv /\ (InodeFail \/ GetattrFail \/ ReadlinkFail \/ OpenFail \/ IterateFail \/ FoundFail)
        => IInv'
<1> SUFFICES ASSUME IInv, InodeFail \/ GetattrFail \/ ReadlinkFail \/ OpenFail \/ IterateFail
                             \/ FoundFail
             PROVE IInv'
  OBVIOUS
<1>1. /\ image' = image /\ pc' = "done" /\ req' = req /\ inode' = inode /\ x' = x
      /\ count' = count /\ out' = out
  BY DEF InodeFail, GetattrFail, ReadlinkFail, OpenFail, IterateFail, FoundFail, Fails, Answer
<1>2. PICK errno \in {"EIO", "-EIO", "ENOMEM", "ENOENT"} : reply' = <<"err", errno>>
  BY DEF InodeFail, GetattrFail, ReadlinkFail, OpenFail, IterateFail, FoundFail, Fails, Answer
<1>3. req.op \in Handlers /\ (req.op = "client" => errno = "ENOENT" /\ out = <<>>)
  <2>1. CASE InodeFail
    <3>1. pc = "inode" /\ errno = "ENOENT"
      BY <1>2, <2>1 DEF InodeFail, Fails, Answer
    <3>2. QED
      BY <3>1 DEF IInv, Good
  <2>2. CASE GetattrFail \/ ReadlinkFail \/ OpenFail \/ IterateFail \/ FoundFail
    <3>1. pc \in {"getattr", "readlink", "listxattr", "getxattr", "list", "find", "found"}
      BY <2>2 DEF GetattrFail, ReadlinkFail, OpenFail, IterateFail, FoundFail
    <3>2. req.op \in {"getattr", "readlink", "listxattr", "getxattr"}
      BY <3>1 DEF IInv, Good, Handlers
    <3>3. QED
      BY <3>2 DEF Handlers
  <2>3. QED
    BY <2>1, <2>2
<1>4. ReplyCorrect'
  BY <1>1, <1>2, <1>3, FailRight
<1>5. Good(image, "done", req, inode, x, count, out, reply')
  BY ReplyGood
<1>6. QED
  BY <1>1, <1>4, <1>5 DEF IInv

\* Whether there is something to iterate is what the image says.
LEMMA HasXattrIs ==
    ASSUME image \in Images, ReqOK(image, req), InodeRight(image, image.inodes[req.of], inode)
    PROVE  HasXattr <=> ~ NoAttrs(image, req)
<1>1. IsImage(image) /\ inode.xattr = image.inodes[req.of].xattr
  BY ImagesAre DEF InodeRight
<1>2. Len(image.sets) # 0 <=> image.sets # <<>>
  BY <1>1 DEF IsImage
<1>3. QED
  BY <1>1, <1>2 DEF HasXattr, NoAttrs

\* hl.c's list whose errno was negated is the wrong answer of ReplyCorrect.
LEMMA NegatedIInv == IInv /\ OpenFailNegated => IInv'
<1> SUFFICES ASSUME IInv, OpenFailNegated PROVE IInv'
  OBVIOUS
<1>1. /\ image' = image /\ pc' = "negated" /\ req' = req /\ inode' = inode /\ x' = x
      /\ count' = count /\ out' = out /\ pc = "listxattr" /\ HasXattr /\ req.how = "path"
      /\ reply' = IF req.size = 0 THEN <<"size", EIO>> ELSE <<"buf", [i \in 1 .. EIO |-> Junk]>>
  BY DEF OpenFailNegated
<1>2. /\ req.op = "listxattr" /\ image \in Images /\ ReqOK(image, req)
      /\ InodeRight(image, image.inodes[req.of], inode)
  BY <1>1 DEF IInv, Good, Handlers
<1>3. AttrsOf # {}
  <2>1. ~ NoAttrs(image, req)
    BY <1>1, <1>2, HasXattrIs
  <2>2. PICK f \in Nat, c \in Nat \ {0} : f = FirstOf(image, req) /\ c = CountOf(image, req)
    BY <1>2, <2>1, SetIs
  <2>3. AttrsOf = f .. f + c - 1
    BY <1>2, <2>1, <2>2, CardinalityIs
  <2>4. QED
    BY <2>2, <2>3
<1>4. ListNegated'
  <2>1. AttrsOf' = AttrsOf
    BY <1>1 DEF AttrsOf, FirstAttr, Asked
  <2>2. QED
    BY <1>1, <1>3, <2>1 DEF ListNegated
<1>5. ReplyCorrect'
  BY <1>1, <1>2, <1>4 DEF ReplyCorrect
<1>6. Good(image, "negated", req, inode, x, count, out, reply')
  <2>1. "negated" \notin Handlers /\ pc \in Handlers
    BY <1>1 DEF Handlers
  <2>2. QED
    BY <1>1, <2>1 DEF IInv, Good
<1>7. QED
  BY <1>1, <1>5, <1>6 DEF IInv

\* sqfs_stat, from an inode that is right.
LEMMA StatIs ==
    ASSUME NEW img, IsImage(img), NEW i \in 1 .. Len(img.inodes), NEW ino,
           InodeRight(img, img.inodes[i], ino)
    PROVE  LET n == img.inodes[i]
           IN Stat(img, ino) =
                [nlink |-> IF n.type = 2 THEN 1 ELSE n.nlink,
                 size  |-> IF IsReg(n.type) THEN n.size
                           ELSE IF IsLink(n.type) THEN Len(n.tail) ELSE 0,
                 rdev  |-> IF IsDev(n.type) THEN <<n.major, n.minor>> ELSE <<0, 0>>,
                 uid   |-> IF img.asUid > 0 THEN img.asUid ELSE img.ids[n.uid + 1],
                 gid   |-> IF img.asGid > 0 THEN img.asGid ELSE img.ids[n.guid + 1]]
<1>1. PICK n : n = img.inodes[i] /\ n.uid \in 0 .. Len(img.ids) - 1 /\ n.guid \in 0 .. Len(img.ids) - 1
  BY ImageInodes
<1>2. TableGet(IdSize, img.ids, n.uid) = img.ids[n.uid + 1]
  BY <1>1, IdGet, ImageInodes
<1>3. TableGet(IdSize, img.ids, n.guid) = img.ids[n.guid + 1]
  BY <1>1, IdGet, ImageInodes
<1>4. ino.type = n.type /\ ino.uid = n.uid /\ ino.guid = n.guid
  BY <1>1 DEF InodeRight
<1>5. ino.nlink = IF n.type = 2 THEN 1 ELSE n.nlink
  BY <1>1 DEF InodeRight
<1>6. (IF IsReg(ino.type) \/ IsLink(ino.type) THEN ino.size ELSE 0)
        = IF IsReg(n.type) THEN n.size ELSE IF IsLink(n.type) THEN Len(n.tail) ELSE 0
  BY <1>1, <1>4 DEF InodeRight
<1>7. (IF IsDev(ino.type) THEN ino.dev ELSE <<0, 0>>)
        = IF IsDev(n.type) THEN <<n.major, n.minor>> ELSE <<0, 0>>
  BY <1>1, <1>4 DEF InodeRight
<1>8. QED
  BY <1>1, <1>2, <1>3, <1>4, <1>5, <1>6, <1>7 DEF Stat

\* The attributes are those of the inode.
LEMMA GetattrOkIInv == IInv /\ GetattrOk => IInv'
<1> SUFFICES ASSUME IInv, GetattrOk PROVE IInv'
  OBVIOUS
<1>1. /\ image \in Images /\ image' = image /\ pc' = "done" /\ req' = req /\ inode' = inode
      /\ x' = x /\ count' = count /\ out' = out /\ pc = "getattr"
      /\ reply' = <<"attr", Stat(image, inode)>> /\ ReqOK(image, req) /\ req.op = "getattr"
      /\ InodeRight(image, image.inodes[req.of], inode)
  BY DEF IInv, Good, GetattrOk, Answer, Handlers
<1>2. IsImage(image) /\ req.of \in 1 .. Len(image.inodes)
  BY <1>1, ImagesAre DEF ReqOK
<1>3. PICK n, st : n = image.inodes[req.of] /\ st = Stat(image, inode)
  OBVIOUS
<1>4. st = [nlink |-> IF n.type = 2 THEN 1 ELSE n.nlink,
            size  |-> IF IsReg(n.type) THEN n.size
                      ELSE IF IsLink(n.type) THEN Len(n.tail) ELSE 0,
            rdev  |-> IF IsDev(n.type) THEN <<n.major, n.minor>> ELSE <<0, 0>>,
            uid   |-> IF image.asUid > 0 THEN image.asUid ELSE image.ids[n.uid + 1],
            gid   |-> IF image.asGid > 0 THEN image.asGid ELSE image.ids[n.guid + 1]]
  BY <1>1, <1>2, <1>3, StatIs
<1>5. Asked' = n
  BY <1>1, <1>3 DEF Asked
<1>6. reply'[1] = "attr" /\ reply'[2] = st
  BY <1>1, <1>3
<1>7. AttrRight'
  BY <1>1, <1>4, <1>5, <1>6 DEF AttrRight
<1>8. ReplyCorrect'
  BY <1>1, <1>7 DEF ReplyCorrect
<1>9. Good(image, "done", req, inode, x, count, out, reply')
  BY ReplyGood
<1>10. QED
  BY <1>1, <1>8, <1>9 DEF IInv

\* The target is whole, or cut to the buffer.
LEMMA ReadlinkIInv == IInv /\ Readlink => IInv'
<1> SUFFICES ASSUME IInv, Readlink PROVE IInv'
  OBVIOUS
<1>1. /\ image \in Images /\ image' = image /\ pc' = "done" /\ req' = req /\ inode' = inode
      /\ x' = x /\ count' = count /\ out' = out /\ pc = "readlink"
      /\ ReqOK(image, req) /\ req.op = "readlink" /\ req.size \in Nat /\ req.size > 0
      /\ InodeRight(image, image.inodes[req.of], inode)
  BY DEF IInv, Good, Readlink, Answer, Fails, Handlers, ReqOK
<1>2. IsImage(image) /\ req.of \in 1 .. Len(image.inodes)
  BY <1>1, ImagesAre DEF ReqOK
<1>3. PICK n \in Inodes : n = image.inodes[req.of]
  BY <1>2, ImageInodes
<1>4. Asked' = n /\ inode.type = n.type
  BY <1>1, <1>3 DEF Asked, InodeRight
<1>5. LinkRight'
  <2>1. CASE ~ IsLink(n.type)
    <3>1. reply' = <<"err", "EINVAL">>
      BY <1>4, <2>1 DEF Readlink, Fails, Answer
    <3>2. QED
      BY <1>4, <2>1, <3>1 DEF LinkRight, Err
  <2>2. CASE IsLink(n.type)
    <3>1. PICK l \in Nat : l = Len(n.tail) /\ inode.size = l
      BY <1>1, <1>3, <2>2, InodeType DEF InodeRight
    <3>2. \A k \in 1 .. l : Cell(InodeTable(image), inode.next + k - 1) = n.tail[k]
      BY <1>1, <1>3, <2>2, <3>1 DEF InodeRight, HasTail
    <3>3. PICK m \in Nat : m = ReadlinkTake(inode, IF req.how = "path" THEN req.size ELSE inode.size + 1)
                           /\ m = IF req.how = "path" /\ l >= req.size THEN req.size - 1 ELSE l
      <4>1. CASE req.how = "path"
        BY <1>1, <3>1, <4>1 DEF ReadlinkTake
      <4>2. CASE req.how # "path"
        BY <1>1, <3>1, <4>2 DEF ReadlinkTake
      <4>3. QED
        BY <4>1, <4>2
    <3>4. PICK b : b = Cells(InodeTable(image), inode.next, m) /\ reply' = <<"buf", b>>
      BY <1>4, <2>2, <3>3 DEF Readlink, Answer
    <3>5. m <= l
      BY <1>1, <3>1, <3>3
    <3>6. b = [k \in 1 .. m |-> n.tail[k]]
      <4>1. \A k \in 1 .. m : Cell(InodeTable(image), inode.next + k - 1) = n.tail[k]
        BY <3>2, <3>5
      <4>2. QED
        BY <3>4, <4>1 DEF Cells
    <3>7. b = IF req.how = "path" /\ l >= req.size THEN SubSeq(n.tail, 1, req.size - 1) ELSE n.tail
      <4>1. CASE req.how = "path" /\ l >= req.size
        <5>1. m = req.size - 1
          BY <3>3, <4>1
        <5>2. SubSeq(n.tail, 1, m) = [k \in 1 .. m |-> n.tail[k]]
          <6>1. PICK t \in Seq(Nat) : t = n.tail
            BY InodeType
          <6>2. SubSeq(t, 1, m) = [k \in 1 .. m |-> t[k]]
            OBVIOUS
          <6>3. QED
            BY <6>1, <6>2
        <5>3. QED
          BY <3>6, <4>1, <5>1, <5>2
      <4>2. CASE ~ (req.how = "path" /\ l >= req.size)
        <5>1. m = l
          BY <3>3, <4>2
        <5>2. n.tail = [k \in 1 .. Len(n.tail) |-> n.tail[k]]
          BY InodeType, SeqIs
        <5>3. QED
          BY <3>1, <3>6, <4>2, <5>1, <5>2
      <4>3. QED
        BY <4>1, <4>2
    <3>8. reply'[1] = "buf" /\ reply'[2] = b
      BY <3>4
    <3>9. QED
      BY <1>1, <1>4, <2>2, <3>1, <3>7, <3>8 DEF LinkRight, Err
  <2>3. QED
    BY <2>1, <2>2
<1>6. ReplyCorrect'
  BY <1>1, <1>5 DEF ReplyCorrect
<1>7. Good(image, "done", req, inode, x, count, out, reply')
  BY ReplyGood
<1>8. QED
  BY <1>1, <1>6, <1>7 DEF IInv

\* Opened, the iterator is before the first attribute.
LEMMA OpenIInv == IInv /\ Open => IInv'
<1> SUFFICES ASSUME IInv, Open PROVE IInv'
  OBVIOUS
<1>1. /\ image \in Images /\ image' = image /\ req' = req /\ inode' = inode
      /\ count' = count /\ out' = out /\ reply' = reply
      /\ pc \in {"listxattr", "getxattr", "client"} /\ req.op = pc
      /\ pc' = (CASE pc = "listxattr" -> "list" [] pc = "getxattr" -> "find" [] OTHER -> "use")
      /\ x' = (IF HasXattr THEN XattrOpen(image, inode) ELSE NoIterator)
      /\ ReqOK(image, req) /\ count = 0 /\ out = <<>> /\ reply = <<>>
      /\ InodeRight(image, image.inodes[req.of], inode)
  BY DEF IInv, Good, Open, Handlers
<1>2. IsImage(image) /\ inode.xattr = image.inodes[req.of].xattr /\ CountOf(image, req) \in Nat
  BY <1>1, ImagesAre, SetIs DEF InodeRight
<1>3. HasXattr <=> ~ NoAttrs(image, req)
  BY <1>1, HasXattrIs
<1>4. x' \in Iterators /\ x'.remain = CountOf(image, req) /\ IterOK(image, req, x')
  <2>1. CASE HasXattr
    BY <1>1, <1>2, <1>3, <2>1, OpenOK
  <2>2. CASE ~ HasXattr
    <3>1. CountOf(image, req) = 0 /\ x' = NoIterator
      BY <1>1, <1>3, <2>2, SetIs
    <3>2. QED
      BY <1>3, <2>2, <3>1, NoIteratorType DEF IterOK, NoIterator
  <2>3. QED
    BY <2>1, <2>2
<1>5. ListOK(image, req, x', count, out)
  <2>1. CountOf(image, req) - x'.remain = 0
    BY <1>2, <1>4
  <2>2. Heads(NamesOf(image, req))[0] = <<>>
    BY <1>1, NamesStream, HeadsStep
  <2>3. 0 <= req.size
    BY <1>1 DEF ReqOK
  <2>4. QED
    BY <1>1, <2>1, <2>2, <2>3 DEF ListOK
<1>6. ~ NoAttrs(image, req) => NoneBefore(image, req, NextOf(image, req, x'))
  <2>1. SUFFICES ASSUME ~ NoAttrs(image, req)
                 PROVE  NoneBefore(image, req, NextOf(image, req, x'))
    OBVIOUS
  <2>2. PICK f \in Nat : f = FirstOf(image, req)
    BY <1>1, <2>1, SetIs
  <2>3. NextOf(image, req, x') = f
    BY <1>2, <1>4, <2>2 DEF NextOf
  <2>4. f .. f - 1 = {}
    OBVIOUS
  <2>5. QED
    BY <2>2, <2>3, <2>4 DEF NoneBefore
<1>7. CountOf(image, req) <= CountOf(image, req)
  BY <1>2
<1>8. Good(image, pc', req, inode, x', count, out, reply)
  <2>1. CASE pc = "listxattr"
    <3>1. pc' = "list"
      BY <1>1, <2>1
    <3>2. QED
      BY <1>1, <1>4, <1>5, <1>7, <2>1, <3>1 DEF Good, Handlers
  <2>2. CASE pc = "getxattr"
    <3>1. pc' = "find"
      BY <1>1, <2>2
    <3>2. QED
      BY <1>1, <1>4, <1>6, <1>7, <2>2, <3>1 DEF Good, Handlers
  <2>3. CASE pc = "client"
    <3>1. pc' = "use"
      BY <1>1, <2>3
    <3>2. QED
      BY <1>1, <1>4, <1>7, <2>3, <3>1 DEF Good, Handlers
  <2>4. QED
    BY <1>1, <2>1, <2>2, <2>3
<1>9. ReplyCorrect'
  BY <1>1, Quiet
<1>10. QED
  BY <1>1, <1>8, <1>9 DEF IInv

\* The names of the first k attributes, and of one more.
LEMMA OneMore ==
    ASSUME NEW img \in Images, NEW rq, ReqOK(img, rq), NEW k \in 1 .. CountOf(img, rq)
    PROVE  LET h == Heads(NamesOf(img, rq))
               n == NameOfAttr(img, FirstOf(img, rq) + k - 1)
           IN /\ h[k] = h[k - 1] \o n \o <<0>> /\ h[k] \in Seq(Nat) /\ h[k - 1] \in Seq(Nat)
              /\ n \in Seq(Nat) /\ Len(n) \in Nat /\ Len(h[k - 1]) \in Nat
              /\ Len(h[k]) = Len(h[k - 1]) + Len(n) + 1
              /\ Len(h[k]) <= Len(h[CountOf(img, rq)]) /\ Len(h[CountOf(img, rq)]) \in Nat
<1>1. PICK ss, c : /\ c \in Nat /\ c = CountOf(img, rq) /\ ss = NamesOf(img, rq)
                 /\ IsStream(ss) /\ Len(ss) = c
  BY SetIs, NamesStream
<1>2. PICK h : h = Heads(ss)
  OBVIOUS
<1>3. k \in 1 .. c /\ k - 1 \in 0 .. c /\ k \in 0 .. c
  BY <1>1
<1>4. h[k] = h[k - 1] \o ss[k] /\ h[k - 1] \in Seq(Nat) /\ h[k] \in Seq(Nat)
  BY <1>1, <1>2, <1>3, HeadsStep
<1>5. Len(h[k]) <= Len(h[c]) /\ Len(h[c]) \in Nat
  BY <1>1, <1>2, <1>3, HeadsGrow
<1>6. PICK f \in Nat \ {0}, m \in Nat : f = FirstOf(img, rq) /\ m = Len(img.attrs) /\ f + c - 1 <= m
  BY <1>1, <1>3, SetIs, ImagesAre, ImageAttrs
<1>7. PICK j \in 1 .. m : j = f + k - 1
  BY <1>1, <1>3, <1>6
<1>8. PICK n \in Seq(Nat) : n = NameOfAttr(img, j)
  <2>1. IsImage(img) /\ j \in 1 .. Len(img.attrs)
    BY <1>6, ImagesAre
  <2>2. QED
    BY <2>1, NameType
<1>9. PICK z \in Seq(Nat) : z = <<0>> /\ Len(z) = 1
  <2>1. <<0>> \in Seq(Nat) /\ Len(<<0>>) = 1
    OBVIOUS
  <2>2. QED
    BY <2>1
<1>10. ss[k] = n \o z
  BY <1>1, <1>3, <1>6, <1>7, <1>8, <1>9, NamesStream
<1>11. PICK a \in Seq(Nat) : a = h[k - 1]
  BY <1>4
<1>12. h[k] = (a \o n) \o z
  <2>1. h[k] = a \o (n \o z)
    BY <1>4, <1>10, <1>11
  <2>2. (a \o n) \o z = a \o (n \o z)
    OBVIOUS
  <2>3. QED
    BY <2>1, <2>2
<1>13. Len(n \o z) = Len(n) + Len(z) /\ n \o z \in Seq(Nat) /\ Len(n) \in Nat
  BY ConcatAt
<1>14. Len(a \o (n \o z)) = Len(a) + Len(n \o z) /\ Len(a) \in Nat
  BY <1>13, ConcatAt
<1>15. Len(h[k]) = Len(a) + Len(n) + 1
  <2>1. Len(h[k]) = Len(a \o (n \o z))
    BY <1>4, <1>10, <1>11
  <2>2. PICK u \in Nat, v \in Nat : u = Len(a) /\ v = Len(n)
    BY <1>13, <1>14
  <2>3. Len(a \o (n \o z)) = u + (v + 1)
    BY <1>9, <1>13, <1>14, <2>2
  <2>4. u + (v + 1) = u + v + 1
    OBVIOUS
  <2>5. QED
    BY <2>1, <2>2, <2>3, <2>4
<1>16. NameOfAttr(img, FirstOf(img, rq) + k - 1) = n
  BY <1>6, <1>7, <1>8
<1>17. QED
  BY <1>1, <1>2, <1>4, <1>5, <1>9, <1>11, <1>12, <1>13, <1>14, <1>15, <1>16

\* The names as the property has them.
LEMMA AllNamesAre ==
    ASSUME image \in Images, ReqOK(image, req)
    PROVE  AllNames = Heads(NamesOf(image, req))[CountOf(image, req)]
<1>1. PICK c, f : c \in Nat /\ c = CountOf(image, req) /\ f = FirstOf(image, req)
  BY SetIs
<1>2. Cardinality(AttrsOf) = c /\ FirstAttr = f
  BY <1>1, CardinalityIs
<1>3. \A j : FullName(j) = NameOfAttr(image, j)
  BY DEF FullName, NameOfAttr
<1>4. [k \in 1 .. Cardinality(AttrsOf) |-> FullName(FirstAttr + k - 1) \o <<0>>] = NamesOf(image, req)
  BY <1>1, <1>2, <1>3 DEF NamesOf
<1>5. AllNames = FlattenSeq(NamesOf(image, req))
  BY <1>4 DEF AllNames
<1>6. IsStream(NamesOf(image, req)) /\ Len(NamesOf(image, req)) = c
  BY <1>1, NamesStream
<1>7. QED
  BY <1>1, <1>5, <1>6, FlattenIs

\* One more name is counted and, if it fits, copied.
LEMMA ListNextIInv == IInv /\ ListNext => IInv'
<1> SUFFICES ASSUME IInv, ListNext PROVE IInv'
  OBVIOUS
<1>1. /\ image \in Images /\ image' = image /\ req' = req /\ inode' = inode /\ pc = "list"
      /\ ReqOK(image, req) /\ reply = <<>> /\ req.op = "listxattr" /\ req.size \in Nat
      /\ InodeRight(image, image.inodes[req.of], inode)
      /\ x \in Iterators /\ x.remain <= CountOf(image, req) /\ x.remain > 0
      /\ IterOK(image, req, x) /\ ListOK(image, req, x, count, out)
  BY DEF IInv, Good, ListNext, Readable, ReqOK
<1>2. PICK r \in Nat \ {0}, c \in Nat, f \in Nat \ {0} :
        /\ r = x.remain /\ c = CountOf(image, req) /\ r <= c /\ f = FirstOf(image, req)
  BY <1>1, SetIs, IteratorType
<1>3. PICK y \in Iterators, j \in 1 .. Len(image.attrs) :
        /\ y = XattrRead(image, x) /\ j = NextOf(image, req, x) /\ At(image, j, y)
        /\ y.remain = x.remain - 1 /\ y.remain < CountOf(image, req)
        /\ NextOf(image, req, y) = j + 1 /\ IterOK(image, req, y)
  BY <1>1, ReadOK
<1>4. PICK k \in 1 .. c : k = c - r + 1 /\ j = f + k - 1 /\ k - 1 = c - x.remain /\ k = c - y.remain
  <2>1. j = f + c - r /\ y.remain = r - 1
    BY <1>2, <1>3 DEF NextOf
  <2>2. PICK k \in 1 .. c : k = c - r + 1
    BY <1>2
  <2>3. j = f + k - 1 /\ k - 1 = c - x.remain /\ k = c - y.remain
    BY <1>2, <2>1, <2>2
  <2>4. QED
    BY <2>2, <2>3
<1>5. PICK h : h = Heads(NamesOf(image, req))
  OBVIOUS
<1>6. PICK name : name = NameOf(image, y)
  OBVIOUS
<1>7. name = NameOfAttr(image, f + k - 1)
  BY <1>1, <1>3, <1>4, <1>6, NameAtIs, ImagesAre
<1>8. /\ h[k] = h[k - 1] \o name \o <<0>>
      /\ Len(name) \in Nat /\ Len(h[k - 1]) \in Nat
      /\ Len(h[k]) = Len(h[k - 1]) + Len(name) + 1
      /\ Len(h[k]) <= Len(h[c]) /\ Len(h[c]) \in Nat
  BY <1>1, <1>2, <1>5, <1>7, OneMore
<1>9. count = Len(h[k - 1]) /\ (req.size # 0 => out = h[k - 1])
  BY <1>1, <1>2, <1>4, <1>5 DEF ListOK
<1>10. PICK n \in Nat : n = count + Len(name) + 1 /\ n = Len(h[k]) /\ count' = n
  BY <1>3, <1>6, <1>8, <1>9 DEF ListNext
<1>11. CASE req.size = 0
  <2>1. x' = y /\ pc' = pc /\ out' = out /\ reply' = reply
    BY <1>3, <1>11 DEF ListNext
  <2>2. ListOK(image, req, y, n, out)
    BY <1>2, <1>4, <1>5, <1>10, <1>11 DEF ListOK
  <2>3. Good(image, "list", req, inode, y, n, out, <<>>)
    <3>1. y.remain <= CountOf(image, req)
      BY <1>2, <1>3
    <3>2. QED
      BY <1>1, <1>3, <2>2, <3>1 DEF Good, Handlers
  <2>4. ReplyCorrect'
    BY <1>1, <2>1, Quiet
  <2>5. QED
    BY <1>1, <1>10, <2>1, <2>3, <2>4 DEF IInv
<1>12. CASE req.size # 0 /\ n > req.size
  <2>1. x' = y /\ pc' = "done" /\ out' = out /\ reply' = <<"err", "ERANGE">>
    BY <1>3, <1>6, <1>10, <1>12 DEF ListNext, Fails, Answer
  <2>2. AllNames' = h[c]
    BY <1>1, <1>2, <1>5, AllNamesAre DEF AllNames, FullName, FirstAttr, AttrsOf, Asked
  <2>3. reply'[1] = "err" /\ reply'[2] = "ERANGE"
    BY <2>1
  <2>4. 0 < req.size /\ req.size < Len(h[c])
    BY <1>1, <1>8, <1>10, <1>12
  <2>5. ListRight'
    BY <1>1, <2>2, <2>3, <2>4 DEF ListRight
  <2>6. ReplyCorrect'
    BY <1>1, <2>1, <2>5 DEF ReplyCorrect
  <2>7. y.remain <= CountOf(image, req)
    BY <1>2, <1>3
  <2>8. Good(image, "done", req, inode, y, n, out, reply')
    BY <1>3, <2>7, DoneGood DEF IInv
  <2>9. QED
    BY <1>1, <1>10, <2>1, <2>6, <2>8 DEF IInv
<1>13. CASE req.size # 0 /\ ~ (n > req.size)
  <2>1. x' = XattrName(y) /\ pc' = pc /\ out' = out \o name \o <<0>> /\ reply' = reply
    BY <1>3, <1>6, <1>10, <1>13 DEF ListNext
  <2>2. PICK z \in Iterators : z = XattrName(y) /\ At(image, j, z) /\ z.remain = y.remain
    BY <1>1, <1>3, NameAt, ImagesAre
  <2>3. IterOK(image, req, z)
    <3>1. NextOf(image, req, y) - 1 = j
      BY <1>3
    <3>2. QED
      BY <1>1, <1>3, <2>2, <3>1, StaysAt
  <2>4. out' = h[k]
    BY <1>8, <1>9, <1>13, <2>1
  <2>5. ListOK(image, req, z, n, h[k])
    <3>1. n <= req.size
      BY <1>1, <1>13
    <3>2. CountOf(image, req) - z.remain = k
      BY <1>2, <1>4, <2>2
    <3>3. QED
      BY <1>5, <1>10, <3>1, <3>2 DEF ListOK
  <2>6. z.remain <= CountOf(image, req)
    BY <1>2, <1>3, <2>2
  <2>7. Good(image, "list", req, inode, z, n, h[k], <<>>)
    BY <1>1, <2>2, <2>3, <2>5, <2>6 DEF Good, Handlers
  <2>8. ReplyCorrect'
    BY <1>1, <2>1, Quiet
  <2>9. QED
    BY <1>1, <1>10, <2>1, <2>2, <2>4, <2>7, <2>8 DEF IInv
<1>14. QED
  BY <1>11, <1>12, <1>13

\* After the last attribute all names are counted and copied.
LEMMA ListEndIInv == IInv /\ ListEnd => IInv'
<1> SUFFICES ASSUME IInv, ListEnd PROVE IInv'
  OBVIOUS
<1>1. /\ image \in Images /\ image' = image /\ req' = req /\ inode' = inode /\ pc = "list"
      /\ x' = x /\ count' = count /\ out' = out /\ pc' = "done" /\ x.remain = 0
      /\ ReqOK(image, req) /\ req.op = "listxattr"
      /\ ListOK(image, req, x, count, out)
      /\ reply' = IF req.size = 0 THEN <<"size", count>> ELSE <<"buf", out>>
  BY DEF IInv, Good, ListEnd, Answer
<1>2. PICK c \in Nat : c = CountOf(image, req) /\ c - x.remain = c
  BY <1>1, SetIs
<1>3. PICK h : h = Heads(NamesOf(image, req))[c]
  OBVIOUS
<1>4. AllNames' = h
  BY <1>1, <1>2, <1>3, AllNamesAre DEF AllNames, FullName, FirstAttr, AttrsOf, Asked
<1>5. count = Len(h) /\ (req.size # 0 => out = h /\ Len(h) <= req.size)
  BY <1>1, <1>2, <1>3 DEF ListOK
<1>6. ListRight'
  <2>1. CASE req.size = 0
    <3>1. reply'[1] = "size" /\ reply'[2] = Len(h)
      BY <1>1, <1>5, <2>1
    <3>2. QED
      BY <1>1, <1>4, <2>1, <3>1 DEF ListRight, Err
  <2>2. CASE req.size # 0
    <3>1. reply'[1] = "buf" /\ reply'[2] = h
      BY <1>1, <1>5, <2>2
    <3>2. QED
      BY <1>1, <1>4, <1>5, <2>2, <3>1 DEF ListRight, Err
  <2>3. QED
    BY <2>1, <2>2
<1>7. ReplyCorrect'
  BY <1>1, <1>6 DEF ReplyCorrect
<1>8. Good(image, "done", req, inode, x, count, out, reply')
  BY ReplyGood
<1>9. QED
  BY <1>1, <1>7, <1>8 DEF IInv

\* The attribute read is the wanted one, or there is none up to it.
LEMMA FindNextIInv == IInv /\ FindNext => IInv'
<1> SUFFICES ASSUME IInv, FindNext PROVE IInv'
  OBVIOUS
<1>1. /\ image \in Images /\ image' = image /\ req' = req /\ inode' = inode /\ pc = "find"
      /\ count' = count /\ out' = out /\ reply' = reply
      /\ ReqOK(image, req) /\ reply = <<>> /\ req.op = "getxattr"
      /\ InodeRight(image, image.inodes[req.of], inode)
      /\ x \in Iterators /\ x.remain <= CountOf(image, req) /\ x.remain > 0
      /\ EntryType(image, x) <= PREFIX_MAX
      /\ IterOK(image, req, x)
      /\ ~ NoAttrs(image, req) => NoneBefore(image, req, NextOf(image, req, x))
  BY DEF IInv, Good, FindNext, Readable
<1>2. IsImage(image)
  BY <1>1, ImagesAre
<1>3. PICK y \in Iterators, j \in 1 .. Len(image.attrs) :
        /\ y = XattrRead(image, x) /\ j = NextOf(image, req, x) /\ At(image, j, y)
        /\ y.remain < CountOf(image, req) /\ FirstOf(image, req) <= j
        /\ NextOf(image, req, y) = j + 1 /\ IterOK(image, req, y)
        /\ ~ NoAttrs(image, req) /\ EntryType(image, x) = image.attrs[j].prefix
  BY <1>1, ReadOK
<1>4. j \in Int /\ (j + 1) - 1 = j
  BY <1>2, ImageAttrs
<1>5. PICK z \in Iterators : z = x' /\ At(image, j, z) /\ z.remain = y.remain
  <2>1. XattrName(y) \in Iterators /\ At(image, j, XattrName(y)) /\ XattrName(y).remain = y.remain
    BY <1>2, <1>3, NameAt
  <2>2. x' = XattrName(y) \/ x' = y
    BY <1>3 DEF FindNext
  <2>3. QED
    BY <1>3, <2>1, <2>2
<1>6. IterOK(image, req, z) /\ NextOf(image, req, z) = j + 1
  BY <1>1, <1>3, <1>4, <1>5, StaysAt
<1>7. Matches(image, y, req.name) <=> IsWanted(image, req, j)
  BY <1>1, <1>2, <1>3, MatchesIs
<1>8. NoneBefore(image, req, j)
  BY <1>1, <1>3
<1>9. pc' = IF IsWanted(image, req, j) THEN "found" ELSE "find"
  BY <1>3, <1>7 DEF FindNext
<1>10. z.remain < CountOf(image, req) /\ z.remain <= CountOf(image, req)
  BY <1>1, <1>3, <1>5, IteratorType, SetIs
<1>11. Good(image, pc', req, inode, z, count, out, <<>>)
  <2>1. CASE IsWanted(image, req, j)
    BY <1>1, <1>4, <1>6, <1>8, <1>9, <1>10, <2>1 DEF Good, Handlers
  <2>2. CASE ~ IsWanted(image, req, j)
    <3>1. NoneBefore(image, req, j + 1)
      <4>1. SUFFICES ASSUME NEW i \in FirstOf(image, req) .. (j + 1) - 1
                     PROVE  ~ IsWanted(image, req, i)
        BY DEF NoneBefore
      <4>2. FirstOf(image, req) \in Int
        BY <1>1, <1>3, SetIs
      <4>3. i = j \/ i \in FirstOf(image, req) .. j - 1
        BY <1>4, <4>2
      <4>4. QED
        BY <1>8, <2>2, <4>3 DEF NoneBefore
    <3>2. QED
      BY <1>1, <1>6, <1>9, <1>10, <2>2, <3>1 DEF Good, Handlers
  <2>3. QED
    BY <2>1, <2>2
<1>12. ReplyCorrect'
  BY <1>1, Quiet
<1>13. QED
  BY <1>1, <1>5, <1>11, <1>12 DEF IInv

\* The attributes that GetRight looks at.
Wants == {j \in AttrsOf : image.attrs[j].prefix <= PREFIX_MAX /\ FullName(j) = req.name}

\* Where the attributes that GetRight looks at are.
LEMMA WantsAre ==
    ASSUME image \in Images, ReqOK(image, req)
    PROVE  /\ Wants = {j \in AttrsOf : IsWanted(image, req, j)}
           /\ \A j \in AttrsOf : j \in 1 .. Len(image.attrs) /\ j \in Nat
                                 /\ FirstOf(image, req) <= j /\ ~ NoAttrs(image, req)
                                 /\ j <= FirstOf(image, req) + CountOf(image, req) - 1
<1>1. \A j : FullName(j) = NameOfAttr(image, j)
  BY DEF FullName, NameOfAttr
<1>2. Wants = {j \in AttrsOf : IsWanted(image, req, j)}
  BY <1>1 DEF Wants, IsWanted
<1>3. CASE NoAttrs(image, req)
  BY <1>2, <1>3, CardinalityIs
<1>4. CASE ~ NoAttrs(image, req)
  <2>1. PICK f \in Nat \ {0}, c \in Nat \ {0}, m \in Nat :
          /\ f = FirstOf(image, req) /\ c = CountOf(image, req) /\ m = Len(image.attrs)
          /\ f + c - 1 <= m
    BY <1>4, SetIs, ImagesAre, ImageAttrs
  <2>2. AttrsOf = f .. f + c - 1
    BY <1>4, <2>1, CardinalityIs
  <2>3. \A j \in f .. f + c - 1 : j \in 1 .. m /\ j \in Nat /\ f <= j /\ j <= f + c - 1
    BY <2>1
  <2>4. QED
    BY <1>2, <1>4, <2>1, <2>2, <2>3
<1>5. QED
  BY <1>3, <1>4

\* GetRight in terms of them.
LEMMA GetRightIs ==
    GetRight <=>
      LET value == IF Wants = {} THEN <<>> ELSE ValueOf(image, Min(Wants))
      IN /\ reply[1] = "size" => req.size = 0 /\ value # <<>> /\ reply[2] = Len(value)
         /\ reply[1] = "buf" => value # <<>> /\ Len(value) <= req.size /\ reply[2] = value
         /\ Err("ERANGE") => 0 < req.size /\ req.size < Len(value)
         /\ Err("ENOATTR") => value = <<>>
  BY DEF GetRight, Wants

\* When the search ends without success there is no such attribute.
LEMMA FindEndIInv == IInv /\ FindEnd => IInv'
<1> SUFFICES ASSUME IInv, FindEnd PROVE IInv'
  OBVIOUS
<1>1. /\ image \in Images /\ image' = image /\ req' = req /\ inode' = inode /\ pc = "find"
      /\ x' = x /\ count' = count /\ out' = out /\ pc' = "done"
      /\ ReqOK(image, req) /\ req.op = "getxattr" /\ x \in Iterators
      /\ x.remain = 0 \/ KnownPrefixes(req.name) = {}
      /\ ~ NoAttrs(image, req) => NoneBefore(image, req, NextOf(image, req, x))
      /\ reply' = <<"err", "ENOATTR">>
  BY DEF IInv, Good, FindEnd, GetxattrAnswer, Fails, Answer
<1>2. ASSUME NEW j \in AttrsOf PROVE ~ IsWanted(image, req, j)
  <2>1. /\ j \in 1 .. Len(image.attrs) /\ j \in Nat /\ FirstOf(image, req) <= j
        /\ ~ NoAttrs(image, req) /\ j <= FirstOf(image, req) + CountOf(image, req) - 1
    BY <1>1, WantsAre
  <2>2. CASE x.remain = 0
    <3>1. PICK f \in Nat, c \in Nat : f = FirstOf(image, req) /\ c = CountOf(image, req)
      BY <1>1, <2>1, SetIs
    <3>2. NextOf(image, req, x) = f + c
      BY <2>2, <3>1 DEF NextOf
    <3>3. j \in f .. (f + c) - 1
      BY <2>1, <3>1
    <3>4. QED
      BY <1>1, <2>1, <3>1, <3>2, <3>3 DEF NoneBefore
  <2>3. CASE KnownPrefixes(req.name) = {}
    BY <1>1, <2>1, <2>3, WantedPrefix, ImagesAre
  <2>4. QED
    BY <1>1, <2>2, <2>3
<1>3. Wants = {}
  BY <1>1, <1>2, WantsAre
<1>4. Wants' = Wants
  BY <1>1 DEF Wants, AttrsOf, FirstAttr, Asked, FullName
<1>5. reply'[1] = "err" /\ reply'[2] = "ENOATTR"
  BY <1>1
<1>6. GetRight'
  BY <1>3, <1>4, <1>5, GetRightIs DEF Err, GetRight, Wants
<1>7. ReplyCorrect'
  BY <1>1, <1>6 DEF ReplyCorrect
<1>8. Good(image, "done", req, inode, x, count, out, reply')
  BY ReplyGood
<1>9. QED
  BY <1>1, <1>7, <1>8 DEF IInv

\* The value is that of the first attribute with the name.
LEMMA FoundReplyIInv == IInv /\ FoundReply => IInv'
<1> SUFFICES ASSUME IInv, FoundReply PROVE IInv'
  OBVIOUS
<1>1. /\ image \in Images /\ image' = image /\ req' = req /\ inode' = inode /\ pc = "found"
      /\ count' = count /\ out' = out
      /\ ReqOK(image, req) /\ req.op = "getxattr" /\ req.size \in Nat
      /\ x \in Iterators /\ x.remain < CountOf(image, req) /\ IterOK(image, req, x)
      /\ NoneBefore(image, req, NextOf(image, req, x) - 1)
      /\ IsWanted(image, req, NextOf(image, req, x) - 1)
  BY DEF IInv, Good, FoundReply, ReqOK
<1>2. IsImage(image)
  BY <1>1, ImagesAre
<1>3. PICK j \in 1 .. Len(image.attrs) :
        /\ j = NextOf(image, req, x) - 1 /\ At(image, j, x) /\ FirstOf(image, req) <= j
        /\ ~ NoAttrs(image, req)
  BY <1>1, IsAt
<1>4. PICK y \in Iterators : /\ y = XattrValueSize(image, x) /\ At(image, j, y)
                             /\ y.remain = x.remain /\ "VAL" \in y.cursors
  BY <1>1, <1>2, <1>3, ValueSizeAt
<1>5. PICK v : v = ValueOf(image, j) /\ v \in Seq(Nat) /\ Len(v) \in Nat
  BY <1>2, ValueIs
<1>6. y.vsize = Len(v) /\ ValueAt(image, y) = v
  BY <1>2, <1>4, <1>5, ValueAtIs DEF At
<1>7. PICK z \in Iterators : z = x' /\ z.remain = x.remain
  <2>1. XattrValue(image, y) \in Iterators /\ XattrValue(image, y).remain = y.remain
    BY <1>2, <1>4, ValueDoneAt
  <2>2. x' = XattrValue(image, y) \/ x' = y
    BY <1>4 DEF FoundReply
  <2>3. QED
    BY <1>4, <2>1, <2>2
<1>8. Wants # {} /\ Min(Wants) = j
  <2>1. Wants = {i \in AttrsOf : IsWanted(image, req, i)}
    BY <1>1, WantsAre
  <2>2. PICK f \in Nat \ {0}, c \in Nat \ {0}, r \in Nat :
          f = FirstOf(image, req) /\ c = CountOf(image, req) /\ r = x.remain /\ r < c
    BY <1>1, <1>3, SetIs, IteratorType
  <2>3. j = f + c - r - 1
    BY <1>3, <2>2 DEF NextOf
  <2>4. j \in AttrsOf
    <3>1. AttrsOf = f .. f + c - 1
      BY <1>1, <1>3, <2>2, CardinalityIs
    <3>2. QED
      BY <2>2, <2>3, <3>1
  <2>5. j \in Wants
    BY <1>1, <1>3, <2>1, <2>4
  <2>6. \A i \in Wants : i \in Nat /\ f <= i /\ ~ (i \in f .. j - 1)
    BY <1>1, <1>3, <2>1, <2>2, WantsAre DEF NoneBefore
  <2>7. PICK k \in Wants : k = Min(Wants) /\ k <= j
    <3>1. Wants \in SUBSET Nat
      BY <2>6
    <3>2. QED
      BY <2>5, <3>1, MinIs
  <2>8. j \in Nat /\ k \in Nat /\ f <= k /\ ~ (k \in f .. j - 1)
    BY <2>5, <2>6
  <2>9. k = j
    BY <2>7, <2>8
  <2>10. QED
    BY <2>5, <2>7, <2>9
<1>9. Wants' = Wants
  BY <1>1 DEF Wants, AttrsOf, FirstAttr, Asked, FullName
<1>10. Wants' # {} /\ ValueOf(image', Min(Wants')) = v
  BY <1>1, <1>5, <1>8, <1>9
<1>11. PICK l \in Nat, s \in Nat : l = Len(v) /\ s = req.size
  BY <1>1, <1>5
<1>12. v = <<>> <=> l = 0
  BY <1>5, <1>11
<1>13. /\ pc' = "done"
       /\ reply' = IF l = 0 THEN <<"err", "ENOATTR">> ELSE IF s = 0 THEN <<"size", l>>
                   ELSE IF s < l THEN <<"err", "ERANGE">> ELSE <<"buf", v>>
  BY <1>4, <1>6, <1>11 DEF FoundReply, GetxattrAnswer, Fails, Answer
<1>14. GetRight'
  <2>1. SUFFICES LET value == v
                 IN /\ reply'[1] = "size" => s = 0 /\ value # <<>> /\ reply'[2] = l
                    /\ reply'[1] = "buf" => value # <<>> /\ l <= s /\ reply'[2] = value
                    /\ reply'[1] = "err" /\ reply'[2] = "ERANGE" => 0 < s /\ s < l
                    /\ reply'[1] = "err" /\ reply'[2] = "ENOATTR" => value = <<>>
    BY <1>1, <1>10, <1>11 DEF GetRight, Wants, Err
  <2>2. CASE l = 0
    BY <1>12, <1>13, <2>2
  <2>3. CASE l # 0 /\ s = 0
    BY <1>12, <1>13, <2>3
  <2>4. CASE l # 0 /\ s # 0 /\ s < l
    BY <1>12, <1>13, <2>4
  <2>5. CASE l # 0 /\ s # 0 /\ ~ (s < l)
    <3>1. reply' = <<"buf", v>> /\ l <= s
      BY <1>13, <2>5
    <3>2. reply'[1] = "buf" /\ reply'[2] = v
      BY <3>1
    <3>3. QED
      BY <1>12, <2>5, <3>1, <3>2
  <2>6. QED
    BY <2>2, <2>3, <2>4, <2>5
<1>15. ReplyCorrect'
  BY <1>1, <1>14 DEF ReplyCorrect
<1>16. z.remain <= CountOf(image, req)
  BY <1>1, <1>7, IteratorType, SetIs
<1>17. Good(image, "done", req, inode, z, count, out, reply')
  BY <1>16, DoneGood DEF IInv
<1>18. QED
  BY <1>1, <1>7, <1>13, <1>15, <1>17 DEF IInv

\* Back to where a request can come.
LEMMA DoneIInv == IInv /\ Done => IInv'
<1> SUFFICES ASSUME IInv, Done PROVE IInv'
  OBVIOUS
<1>1. /\ image \in Images /\ image' = image /\ pc' = "idle" /\ req' = NoRequest
      /\ inode' = NoInode /\ x' = NoIterator /\ count' = 0 /\ out' = <<>> /\ reply' = <<>>
  BY DEF IInv, Good, Done
<1>2. 1 \in 1 .. Len(image.inodes)
  BY <1>1, ImagesAre, ImageInodes
<1>3. ReqOK(image, NoRequest)
  <2>1. <<>> \in Seq(Nat)
    BY EmptySeq
  <2>2. QED
    BY <1>2, <2>1 DEF ReqOK, NoRequest
<1>4. NoIterator \in Iterators /\ NoIterator.remain = 0
  BY NoIteratorType DEF NoIterator
<1>5. CountOf(image, NoRequest) \in Nat
  BY <1>1, <1>3, SetIs
<1>6. NoIterator.remain <= CountOf(image, NoRequest) /\ NoRequest.op = "none"
  BY <1>4, <1>5 DEF NoRequest
<1>7. Good(image, "idle", NoRequest, NoInode, NoIterator, 0, <<>>, <<>>)
  BY <1>1, <1>3, <1>4, <1>6 DEF Good, Handlers
<1>8. ReplyCorrect'
  BY <1>1, Quiet
<1>9. QED
  BY <1>1, <1>7, <1>8 DEF IInv

\* A program goes on to the next attribute.
LEMMA ClientReadIInv == IInv /\ ClientRead => IInv'
<1> SUFFICES ASSUME IInv, ClientRead PROVE IInv'
  OBVIOUS
<1>1. /\ image \in Images /\ image' = image /\ req' = req /\ inode' = inode
      /\ pc \in {"use", "have"} /\ pc' = "have" /\ out' = <<>>
      /\ count' = count /\ reply' = reply /\ x' = XattrRead(image, x)
      /\ ReqOK(image, req) /\ reply = <<>> /\ req.op = "client"
      /\ InodeRight(image, image.inodes[req.of], inode)
      /\ x \in Iterators /\ x.remain <= CountOf(image, req) /\ x.remain > 0
      /\ IterOK(image, req, x)
  BY DEF IInv, Good, ClientRead, Readable
<1>2. /\ x' \in Iterators /\ x'.remain < CountOf(image, req) /\ IterOK(image, req, x')
  BY <1>1, ReadOK
<1>3. x'.remain <= CountOf(image, req)
  BY <1>1, <1>2, IteratorType, SetIs
<1>4. Good(image, "have", req, inode, x', count, <<>>, <<>>)
  BY <1>1, <1>2, <1>3 DEF Good, Handlers
<1>5. ReplyCorrect'
  BY <1>1, Quiet
<1>6. QED
  BY <1>1, <1>4, <1>5 DEF IInv

\* The attribute that the properties call the current one.
LEMMA CurrentIs ==
    ASSUME image \in Images, ReqOK(image, req), x \in Iterators, ~ NoAttrs(image, req)
    PROVE  Current = NextOf(image, req, x) - 1
<1>1. PICK f \in Nat, c \in Nat, r \in Nat :
        f = FirstOf(image, req) /\ c = CountOf(image, req) /\ r = x.remain
  BY SetIs, IteratorType
<1>2. Current = f + c - r - 1
  BY <1>1, CardinalityIs DEF Current
<1>3. NextOf(image, req, x) = f + c - r
  BY <1>1 DEF NextOf
<1>4. QED
  BY <1>2, <1>3

\* What a program is given, when the iterator is at the attribute j.
Given(img, j, o) ==
    o[2] = CASE o[1] = "name" -> NameOfAttr(img, j)
             [] o[1] = "size" -> Len(ValueOf(img, j))
             [] o[1] = "value" -> ValueOf(img, j)

\* A call that stays at the attribute.
LEMMA ClientIInv ==
    ASSUME IInv, pc = "have",
           image' = image, pc' = pc, req' = req, inode' = inode, count' = count, reply' = reply,
           NEW j \in 1 .. Len(image.attrs), j = NextOf(image, req, x) - 1,
           x' \in Iterators, At(image, j, x'), x'.remain = x.remain, Given(image, j, out')
    PROVE  IInv'
<1>1. /\ image \in Images /\ ReqOK(image, req) /\ reply = <<>> /\ req.op = "client"
      /\ InodeRight(image, image.inodes[req.of], inode)
      /\ x \in Iterators /\ x.remain < CountOf(image, req) /\ x.remain <= CountOf(image, req)
      /\ IterOK(image, req, x)
  BY DEF IInv, Good
<1>2. IterOK(image, req, x') /\ NextOf(image, req, x') = NextOf(image, req, x)
  <2>1. PICK z \in Iterators : z = x'
    OBVIOUS
  <2>2. IterOK(image, req, z) /\ NextOf(image, req, z) = NextOf(image, req, x)
    BY <1>1, <2>1, StaysAt
  <2>3. QED
    BY <2>1, <2>2
<1>3. Good(image, "have", req, inode, x', count, out', <<>>)
  BY <1>1, <1>2 DEF Good, Handlers
<1>4. ~ NoAttrs(image, req)
  BY <1>1, IsAt
<1>5. Current' = j
  <2>1. Current = j
    BY <1>1, <1>4, CurrentIs
  <2>2. Current' = Current
    BY DEF Current, FirstAttr, AttrsOf, Asked
  <2>3. QED
    BY <2>1, <2>2
<1>6. FullName(j)' = NameOfAttr(image, j)
  BY DEF FullName, NameOfAttr
<1>7. ReplyCorrect'
  <2>1. reply' = <<>>
    BY <1>1
  <2>2. FullName(Current)' = NameOfAttr(image, j)
    BY <1>5 DEF FullName, NameOfAttr
  <2>3. ValueOf(image, Current)' = ValueOf(image, j)
    BY <1>5
  <2>4. QED
    BY <2>1, <2>2, <2>3 DEF ReplyCorrect, Given
<1>8. QED
  BY <1>1, <1>3, <1>7 DEF IInv

\* What a program gets is of the attribute it is at.
LEMMA ClientsIInv == IInv /\ (ClientName \/ ClientSize \/ ClientValue) => IInv'
<1> SUFFICES ASSUME IInv, ClientName \/ ClientSize \/ ClientValue PROVE IInv'
  OBVIOUS
<1>1. /\ pc = "have" /\ image' = image /\ pc' = pc /\ req' = req /\ inode' = inode
      /\ count' = count /\ reply' = reply
  BY DEF ClientName, ClientSize, ClientValue
<1>2. /\ image \in Images /\ ReqOK(image, req) /\ x \in Iterators
      /\ x.remain < CountOf(image, req) /\ IterOK(image, req, x)
  BY <1>1 DEF IInv, Good
<1>3. IsImage(image)
  BY <1>2, ImagesAre
<1>4. PICK j \in 1 .. Len(image.attrs) : j = NextOf(image, req, x) - 1 /\ At(image, j, x)
  BY <1>2, IsAt
<1>5. CASE ClientName
  <2>1. x' \in Iterators /\ At(image, j, x') /\ x'.remain = x.remain
    BY <1>2, <1>3, <1>4, <1>5, NameAt DEF ClientName
  <2>2. out'[1] = "name" /\ out'[2] = NameOfAttr(image, j)
    BY <1>3, <1>4, <1>5, NameAtIs DEF ClientName
  <2>3. Given(image, j, out')
    BY <2>2 DEF Given
  <2>4. QED
    BY <1>1, <1>4, <2>1, <2>3, ClientIInv
<1>6. CASE ClientSize
  <2>1. x' \in Iterators /\ At(image, j, x') /\ x'.remain = x.remain /\ "VAL" \in x'.cursors
    BY <1>2, <1>3, <1>4, <1>6, ValueSizeAt DEF ClientSize
  <2>2. out'[1] = "size" /\ out'[2] = Len(ValueOf(image, j))
    BY <1>6, <2>1 DEF ClientSize, At
  <2>3. Given(image, j, out')
    BY <2>2 DEF Given
  <2>4. QED
    BY <1>1, <1>4, <2>1, <2>3, ClientIInv
<1>7. CASE ClientValue
  <2>1. x' \in Iterators /\ At(image, j, x') /\ x'.remain = x.remain
    BY <1>2, <1>3, <1>4, <1>7, ValueDoneAt DEF ClientValue
  <2>2. ValueAt(image, Sized(image, x)) = ValueOf(image, j)
    BY <1>2, <1>3, <1>4, SizedAt, ValueAtIs
  <2>3. out'[1] = "value" /\ out'[2] = ValueOf(image, j)
    BY <1>7, <2>2 DEF ClientValue
  <2>4. Given(image, j, out')
    BY <2>3 DEF Given
  <2>5. QED
    BY <1>1, <1>4, <2>1, <2>4, ClientIInv
<1>8. QED
  BY <1>5, <1>6, <1>7

(* Every step keeps the invariant.                                         *)
LEMMA Inductive == IInv /\ [Next]_vars => IInv'
<1> SUFFICES ASSUME IInv, [Next]_vars PROVE IInv'
  OBVIOUS
<1>1. CASE UNCHANGED vars
  BY <1>1 DEF vars, IInv, ReplyCorrect, AttrRight, LinkRight, ListRight, ListNegated, GetRight, Err,
              Asked, FirstAttr, AttrsOf, Current, FullName, AllNames
<1>2. CASE InodeFail \/ GetattrFail \/ ReadlinkFail \/ OpenFail \/ IterateFail \/ FoundFail
  BY <1>2, FailsIInv
<1>3. CASE Request \/ InodeGet \/ GetattrOk \/ Readlink \/ Open \/ Done
  BY <1>3, RequestIInv, InodeGetIInv, GetattrOkIInv, ReadlinkIInv, OpenIInv, DoneIInv
<1>4. CASE OpenFailNegated \/ ListNext \/ ListEnd \/ FindNext \/ FindEnd \/ FoundReply
  BY <1>4, NegatedIInv, ListNextIInv, ListEndIInv, FindNextIInv, FindEndIInv, FoundReplyIInv
<1>5. CASE ClientRead \/ ClientName \/ ClientSize \/ ClientValue
  BY <1>5, ClientReadIInv, ClientsIInv
<1>6. QED
  BY <1>1, <1>2, <1>3, <1>4, <1>5 DEF Next

\* The invariant says what InodeTrue says.
LEMMA InodeIsTrue == IInv => InodeTrue
<1> SUFFICES ASSUME IInv, inode # NoInode PROVE InodeTrue
  BY DEF InodeTrue
<1>1. image \in Images /\ req.of \in 1 .. Len(image.inodes)
  BY DEF IInv, Good, ReqOK
<1>2. PICK n \in Inodes : n = image.inodes[req.of] /\ n = Asked
  BY <1>1, ImagesAre, ImageInodes DEF Asked
<1>3. InodeRight(image, n, inode)
  BY <1>2 DEF IInv, Good
<1>4. ASSUME HasTail(n.type)
      PROVE  Cells(InodeTable(image), inode.next, Len(n.tail)) = n.tail
  <2>1. PICK t \in Seq(Nat) : t = n.tail
    BY InodeType
  <2>2. \A k \in 1 .. Len(t) : Cell(InodeTable(image), inode.next + k - 1) = t[k]
    BY <1>3, <1>4, <2>1 DEF InodeRight
  <2>3. Cells(InodeTable(image), inode.next, Len(t)) = [k \in 1 .. Len(t) |-> t[k]]
    BY <2>2 DEF Cells
  <2>4. QED
    BY <2>1, <2>3, SeqIs
<1>5. QED
  BY <1>2, <1>3, <1>4 DEF InodeRight, InodeTrue

\* It says what CursorsTrue says.
LEMMA CursorsAreTrue == IInv => CursorsTrue
<1> SUFFICES ASSUME IInv PROVE CursorsTrue
  OBVIOUS
<1>1. /\ image \in Images /\ ReqOK(image, req) /\ x \in Iterators
      /\ x.remain <= CountOf(image, req)
  BY DEF IInv, Good
<1>2. Cardinality(AttrsOf) = CountOf(image, req) /\ IsImage(image)
  BY <1>1, CardinalityIs, ImagesAre
<1>3. SUFFICES ASSUME pc \in {"list", "find", "found", "have"}, x.remain < CountOf(image, req)
               PROVE  /\ "VSIZE" \in x.cursors => x.c_vsize = SizePos(image, Current)
                      /\ "VAL" \in x.cursors => ValueAt(image, x) = ValueOf(image, Current)
                      /\ "NEXT" \in x.cursors =>
                           x.c_next = AttrPos(image, Current) + AttrLen(image.attrs[Current])
  BY <1>1, <1>2 DEF CursorsTrue
<1>4. IterOK(image, req, x)
  BY <1>3 DEF IInv, Good
<1>5. PICK j \in 1 .. Len(image.attrs) :
        j = NextOf(image, req, x) - 1 /\ At(image, j, x) /\ ~ NoAttrs(image, req)
  BY <1>1, <1>3, <1>4, IsAt
<1>6. Current = j
  BY <1>1, <1>5, CurrentIs
<1>7. "VAL" \in x.cursors => ValueAt(image, x) = ValueOf(image, j)
  BY <1>2, <1>5, ValueAtIs
<1>8. QED
  BY <1>5, <1>6, <1>7 DEF At

(* sqfs_inode_get (fs.c) fills in what the image says of the inode asked   *)
(* for: by all three ways of naming it, from all nine structures, for      *)
(* images of any size.                                                     *)
THEOREM InodeCorrect == Spec => []InodeTrue
  BY InitGood, Inductive, InodeIsTrue, PTL DEF Spec

(* Whatever calls of xattr.c a program or a handler made before, each      *)
(* position the iterator says it knows is the right one, for values stored *)
(* in place and for shared ones.                                           *)
THEOREM CursorsCorrect == Spec => []CursorsTrue
  BY InitGood, Inductive, CursorsAreTrue, PTL DEF Spec

(* getattr, readlink, listxattr and getxattr (ll.c, hl.c, fuseprivate.c)   *)
(* answer what the image says of the inode, for any image, buffer size and *)
(* name; only hl.c's listxattr gives five bytes that are no list, when the *)
(* inode has attributes and sqfs_xattr_open fails.  What a program gets    *)
(* from the iterator is of its attribute.                                  *)
THEOREM RepliesCorrect == Spec => []ReplyCorrect
<1>1. IInv => ReplyCorrect
  BY DEF IInv
<1>2. QED
  BY <1>1, InitGood, Inductive, PTL DEF Spec
=============================================================================
