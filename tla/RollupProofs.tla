---------------------------- MODULE RollupProofs ----------------------------
(***************************************************************************)
(* Theorems about TieredRollup for any producers, tiers, bucket widths,    *)
(* rings and samples, and any number of failed writes and kills.           *)
(*                                                                         *)
(* TypeInv is type correctness.  OrderInv holds through failures: what is  *)
(* kept is of buckets with samples, and a flush's parts are kept once it   *)
(* is done with them.  RingsInv and ExactInv are about a history without   *)
(* failures and in order: what a ring has been given and still has, and    *)
(* that accumulators and points are those of the samples taken in.  The    *)
(* last needs what SumFunction does when one of its terms grows; that is   *)
(* proved from its fold by induction on the number of elements.  AskedInv  *)
(* is about a query in progress: what it has read of a part is sorted, and *)
(* complete up to its last bucket for as long as the tier takes in samples *)
(* in order; lists like that agree at every place that all of them have.   *)
(***************************************************************************)
EXTENDS TieredRollup, FiniteSetTheorems, SequenceTheorems, WellFoundedInduction, TLAPS

-----------------------------------------------------------------------------
(* Numbers *)

LEMMA LeastNumber ==
    ASSUME NEW S, S \subseteq Nat, S # {}
    PROVE  \E x \in S : \A y \in S : x <= y
<1>. DEFINE R == OpToRel(<, Nat)
<1>1. PICK x \in S : \A y \in S : <<y, x>> \notin R
  <2>. HIDE DEF R
  <2>1. IsWellFoundedOn(R, Nat)
    BY NatLessThanWellFounded DEF R
  <2>. QED
    BY <2>1, WFMin
<1>2. \A y \in S : ~(y < x)
  BY <1>1 DEF OpToRel
<1>. QED
  BY <1>2

\* Finitely many numbers have a greatest one.
LEMMA GreatestNumber ==
    ASSUME NEW n \in Nat, NEW D, D \subseteq 0..(n - 1), D # {},
           NEW f, \A i \in D : f[i] \in Nat
    PROVE  \E m \in D : \A j \in D : f[j] <= f[m]
<1>. DEFINE Upper(k) == \E b \in Nat : \A i \in D : i < k => f[i] <= b
            Bad == {k \in Nat : ~Upper(k)}
<1>1. Upper(0)
  OBVIOUS
<1>2. ASSUME NEW k \in Nat, Upper(k) PROVE Upper(k + 1)
  <2>1. PICK b \in Nat : \A i \in D : i < k => f[i] <= b
    BY <1>2
  <2>2. \A i \in D : i < k + 1 => i < k \/ i = k
    OBVIOUS
  <2>3. CASE k \in D
    <3>1. PICK c \in Nat : b <= c /\ f[k] <= c
      <4>1. f[k] \in Nat /\ (b <= f[k] \/ f[k] <= b)
        BY <2>3
      <4>. QED
        BY <4>1
    <3>2. \A i \in D : i < k + 1 => f[i] <= c
      BY <2>1, <2>2, <3>1
    <3>. QED
      BY <3>2
  <2>4. CASE k \notin D
    BY <2>1, <2>2, <2>4
  <2>. QED
    BY <2>3, <2>4
<1>3. Bad = {}
  <2>. SUFFICES ASSUME Bad # {} PROVE FALSE
    OBVIOUS
  <2>1. Bad \subseteq Nat
    OBVIOUS
  <2>2. PICK k \in Bad : \A l \in Bad : k <= l
    <3>. HIDE DEF Bad
    <3>. QED
      BY <2>1, LeastNumber
  <2>3. k \in Nat /\ ~Upper(k)
    OBVIOUS
  <2>. HIDE DEF Upper
  <2>4. k # 0
    BY <1>1, <2>3
  <2>5. k - 1 \in Nat /\ k - 1 \notin Bad
    BY <2>1, <2>2, <2>3, <2>4
  <2>6. Upper(k - 1)
    BY <2>5
  <2>7. Upper((k - 1) + 1)
    BY <1>2, <2>5, <2>6
  <2>8. (k - 1) + 1 = k
    BY <2>3
  <2>. QED
    BY <2>3, <2>7, <2>8
<1>4. PICK b \in Nat : \A i \in D : f[i] <= b
  <2>1. Upper(n)
    BY <1>3
  <2>. QED
    BY <2>1
<1>. DEFINE Gaps == {b - f[i] : i \in D}
<1>5. Gaps \subseteq Nat /\ Gaps # {}
  <2>1. \A i \in D : b - f[i] \in Nat
    BY <1>4
  <2>. QED
    BY <2>1
<1>6. PICK g \in Gaps : \A h \in Gaps : g <= h
  <2>. HIDE DEF Gaps
  <2>. QED
    BY <1>5, LeastNumber
<1>7. PICK m \in D : g = b - f[m]
  OBVIOUS
<1>8. \A j \in D : b - f[m] <= b - f[j]
  BY <1>6, <1>7
<1>. QED
  BY <1>4, <1>8

\* Two numbers less than m apart leave the same remainder only when equal.
LEMMA SameRemainder ==
    ASSUME NEW m \in Nat \ {0}, NEW a \in Nat, NEW b \in Nat,
           a % m = b % m, a <= b, b < a + m
    PROVE  a = b
<1>1. a = m * (a \div m) + (a % m) /\ a \div m \in Int /\ a % m \in Int
  OBVIOUS
<1>2. b = m * (b \div m) + (b % m) /\ b \div m \in Int /\ b % m \in Int
  OBVIOUS
<1>3. PICK qa \in Int, qb \in Int, r \in Int : a = m * qa + r /\ b = m * qb + r
  BY <1>1, <1>2
<1>4. b - a = m * (qb - qa)
  BY <1>3
<1>5. ~ (qb - qa >= 1)
  <2>1. qb - qa >= 1 => m * (qb - qa) >= m
    BY <1>3
  <2>. QED
    BY <1>3, <1>4, <2>1
<1>6. ~ (qb - qa <= -1)
  <2>1. qb - qa <= -1 => m * (qb - qa) <= -m
    BY <1>3
  <2>. QED
    BY <1>3, <1>4, <2>1
<1>7. qa = qb
  BY <1>3, <1>5, <1>6
<1>. QED
  BY <1>3, <1>7

LEMMA MultipleHasNoRemainder ==
    ASSUME NEW m \in Nat \ {0}, NEW q \in Nat
    PROVE  q * m \in Nat /\ (q * m) % m = 0
<1>. DEFINE a == q * m
<1>1. a \in Nat
  OBVIOUS
<1>2. a = m * (a \div m) + (a % m) /\ a \div m \in Int /\ a % m \in 0..(m - 1)
  <2>. HIDE DEF a
  <2>. QED
    BY <1>1
<1>3. PICK d \in Int, r \in 0..(m - 1) : a = m * d + r /\ r = a % m
  BY <1>2
<1>4. m * (q - d) = r
  BY <1>3
<1>5. ~ (q - d >= 1)
  <2>1. q - d >= 1 => m * (q - d) >= m
    BY <1>3
  <2>. QED
    BY <1>3, <1>4, <2>1
<1>6. ~ (q - d <= -1)
  <2>1. q - d <= -1 => m * (q - d) <= -m
    BY <1>3
  <2>. QED
    BY <1>3, <1>4, <2>1
<1>7. q = d
  BY <1>3, <1>5, <1>6
<1>8. r = 0
  BY <1>3, <1>4, <1>7
<1>. QED
  BY <1>1, <1>3, <1>8

-----------------------------------------------------------------------------
(* Buckets and slots *)

LEMMA BucketStartFacts ==
    ASSUME NEW k \in Tiers, NEW t \in Times
    PROVE  /\ BucketStart(k, t) \in Buckets(k)
           /\ BucketStart(k, t) \in Nat /\ BucketStart(k, t) % Width[k] = 0
<1>1. t \in Nat /\ Width[k] \in Nat \ {0}
  BY RollupAssumption DEF Times
<1>2. t \div Width[k] \in Nat
  BY <1>1
<1>3. BucketStart(k, t) \in Nat /\ BucketStart(k, t) % Width[k] = 0
  BY <1>1, <1>2, MultipleHasNoRemainder DEF BucketStart
<1>. QED
  BY <1>3 DEF Buckets

LEMMA BucketFacts ==
    ASSUME NEW k \in Tiers, NEW b \in Buckets(k)
    PROVE  b \in Nat /\ b % Width[k] = 0
<1>1. PICK t \in Times : b = BucketStart(k, t)
  BY DEF Buckets
<1>. QED
  BY <1>1, BucketStartFacts

LEMMA ChunkLength ==
    ASSUME NEW k \in Tiers
    PROVE  Width[k] * ChunkBuckets \in Nat \ {0}
<1>1. Width[k] \in Nat \ {0} /\ ChunkBuckets \in Nat \ {0}
  BY RollupAssumption
<1>. QED
  BY <1>1

LEMMA ChunkOfNat ==
    ASSUME NEW k \in Tiers, NEW t \in Nat
    PROVE  ChunkOf(k, t) \in Nat
<1>1. PICK c \in Nat \ {0} : c = Width[k] * ChunkBuckets
  BY ChunkLength
<1>2. t \div c \in Nat
  BY <1>1
<1>. QED
  BY <1>1, <1>2 DEF ChunkOf

LEMMA ChunkOfMonotone ==
    ASSUME NEW k \in Tiers, NEW s \in Nat, NEW t \in Nat, s <= t
    PROVE  ChunkOf(k, s) <= ChunkOf(k, t)
<1>1. PICK c \in Nat \ {0} : c = Width[k] * ChunkBuckets
  BY ChunkLength
<1>2. s \div c <= t \div c
  BY <1>1
<1>. QED
  BY <1>1, <1>2 DEF ChunkOf

LEMMA SlotIsRemainder ==
    ASSUME NEW k \in Tiers, NEW t \in Nat
    PROVE  Slot(k, t) = ChunkOf(k, t) % Slots /\ Slot(k, t) \in 0..(Slots - 1)
BY ChunkOfNat, RollupAssumption DEF Slot, ChunkOf

-----------------------------------------------------------------------------
(* The rings of the sub-series *)

Point == [time : Nat, value : Nat \cup (Nat \X Nat)]
Rings == [open : -1..(Slots - 1), pts : Seq(Point), file : [0..(Slots - 1) -> Seq(Point)]]

LEMMA Extended ==
    ASSUME NEW S, NEW s \in Seq(S), NEW x \in S
    PROVE  /\ Append(s, x) \in Seq(S) /\ Append(s, x) # <<>>
           /\ Last(Append(s, x)) = x
           /\ ToSet(Append(s, x)) = ToSet(s) \cup {x}
           /\ <<x>> \in Seq(S) /\ <<x>> # <<>> /\ Last(<<x>>) = x /\ ToSet(<<x>>) = {x}
<1>1. /\ Append(s, x) \in Seq(S) /\ Len(Append(s, x)) = Len(s) + 1
      /\ Append(s, x)[Len(s) + 1] = x
      /\ \A i \in 1..Len(s) : Append(s, x)[i] = s[i]
  OBVIOUS
<1>2. Last(Append(s, x)) = x
  BY <1>1 DEF Last
<1>3. ToSet(Append(s, x)) = ToSet(s) \cup {x}
  <2>1. DOMAIN Append(s, x) = 1..(Len(s) + 1) /\ DOMAIN s = 1..Len(s) /\ Len(s) \in Nat
    BY <1>1
  <2>2. 1..(Len(s) + 1) = 1..Len(s) \cup {Len(s) + 1}
    BY <2>1
  <2>. QED
    BY <1>1, <2>1, <2>2 DEF ToSet
<1>4. <<x>> \in Seq(S) /\ Len(<<x>>) = 1 /\ <<x>>[1] = x /\ DOMAIN <<x>> = 1..1
  OBVIOUS
<1>5. Last(<<x>>) = x
  BY <1>4 DEF Last
<1>6. ToSet(<<x>>) = {x}
  BY <1>4 DEF ToSet
<1>7. Append(s, x) # <<>> /\ <<x>> # <<>>
  BY <1>1, <1>4
<1>. QED
  BY <1>1, <1>2, <1>3, <1>4, <1>5, <1>6, <1>7

LEMMA NoPoints == ToSet(<<>>) = {} /\ <<>> \in Seq(Point)
BY DEF ToSet

LEMMA LastIsElement ==
    ASSUME NEW s \in Seq(Point), s # <<>>
    PROVE  Last(s) \in ToSet(s) /\ Last(s) \in Point /\ Last(s).time \in Nat
<1>1. Len(s) \in 1..Len(s) /\ DOMAIN s = 1..Len(s) /\ s[Len(s)] \in Point
  OBVIOUS
<1>. QED
  BY <1>1 DEF Last, ToSet, Point

LEMMA ElementsArePoints ==
    ASSUME NEW s \in Seq(Point)
    PROVE  ToSet(s) \subseteq Point
BY DEF ToSet

\* What Put does to a ring, but for a late point.
LEMMA WhatPutDoes ==
    ASSUME NEW k \in Tiers, NEW ring \in Rings, NEW pt \in Point, NEW written \in BOOLEAN,
           ~IsLate(k, ring, pt),
           NEW new, new = Put(k, ring, pt, written), NEW slot, slot = Slot(k, pt.time)
    PROVE  /\ new \in Rings /\ new.open = slot /\ slot \in 0..(Slots - 1)
           /\ new.pts # <<>> /\ Last(new.pts) = pt
           /\ ToSet(new.pts) = (IF slot = ring.open THEN ToSet(ring.pts) ELSE {}) \cup {pt}
           /\ written => new.file[slot] = new.pts
           /\ \A i \in 0..(Slots - 1) :
                 i # slot \/ ~written => new.file[i] = ring.file[i]
<1>. DEFINE idx == Slot(k, pt.time)
            pts == IF idx = ring.open THEN Append(ring.pts, pt) ELSE <<pt>>
            file == IF written THEN [ring.file EXCEPT ![idx] = pts] ELSE ring.file
<1>1. Put(k, ring, pt, written) = [open |-> idx, pts |-> pts, file |-> file]
  BY DEF Put
<1>2. idx \in 0..(Slots - 1)
  BY SlotIsRemainder DEF Point
<1>3. ring.pts \in Seq(Point) /\ ring.file \in [0..(Slots - 1) -> Seq(Point)]
  BY DEF Rings
<1>4. /\ pts \in Seq(Point) /\ pts # <<>> /\ Last(pts) = pt
      /\ ToSet(pts) = (IF idx = ring.open THEN ToSet(ring.pts) ELSE {}) \cup {pt}
  BY <1>3, Extended
<1>. HIDE DEF idx, pts
<1>5. /\ file \in [0..(Slots - 1) -> Seq(Point)]
      /\ written => file[idx] = pts
      /\ \A i \in 0..(Slots - 1) : i # idx \/ ~written => file[i] = ring.file[i]
  BY <1>2, <1>3, <1>4
<1>. HIDE DEF file
<1>6. idx \in -1..(Slots - 1)
  BY <1>2, RollupAssumption
<1>7. Put(k, ring, pt, written) \in Rings
  BY <1>1, <1>4, <1>5, <1>6 DEF Rings
<1>. QED
  BY <1>1, <1>2, <1>4, <1>5, <1>7 DEF idx

LEMMA PutIsRing ==
    ASSUME NEW k \in Tiers, NEW ring \in Rings, NEW pt \in Point, NEW written \in BOOLEAN
    PROVE  Put(k, ring, pt, written) \in Rings
<1>1. CASE IsLate(k, ring, pt)
  BY <1>1 DEF Put
<1>2. CASE ~IsLate(k, ring, pt)
  BY <1>2, WhatPutDoes
<1>. QED
  BY <1>1, <1>2

\* A ring keeps nothing but what was put into it.
LEMMA PutKeepsNothingElse ==
    ASSUME NEW k \in Tiers, NEW ring \in Rings, NEW pt \in Point, NEW written \in BOOLEAN
    PROVE  Kept(Put(k, ring, pt, written)) \subseteq Kept(ring) \cup {pt}
<1>1. CASE IsLate(k, ring, pt)
  BY <1>1 DEF Put
<1>2. CASE ~IsLate(k, ring, pt)
  <2>1. PICK new : new = Put(k, ring, pt, written)
    OBVIOUS
  <2>2. PICK idx : idx = Slot(k, pt.time)
    OBVIOUS
  <2>3. /\ new \in Rings
        /\ ToSet(new.pts) = (IF idx = ring.open THEN ToSet(ring.pts) ELSE {}) \cup {pt}
        /\ written => new.file[idx] = new.pts
        /\ \A i \in 0..(Slots - 1) : i # idx \/ ~written => new.file[i] = ring.file[i]
    BY <1>2, <2>1, <2>2, WhatPutDoes
  <2>4. DOMAIN new.file = 0..(Slots - 1) /\ DOMAIN ring.file = 0..(Slots - 1)
    BY <2>3 DEF Rings
  <2>5. ToSet(new.pts) \subseteq Kept(ring) \cup {pt}
    BY <2>3 DEF Kept
  <2>6. ASSUME NEW i \in 0..(Slots - 1) PROVE ToSet(new.file[i]) \subseteq Kept(ring) \cup {pt}
    <3>1. CASE i = idx /\ written
      BY <2>3, <2>5, <3>1
    <3>2. CASE i # idx \/ ~written
      BY <2>3, <2>4, <3>2 DEF Kept, OnDisk
    <3>. QED
      BY <3>1, <3>2
  <2>. QED
    BY <2>1, <2>4, <2>5, <2>6 DEF Kept, OnDisk
<1>. QED
  BY <1>1, <1>2

\* It keeps the point it was last given, in memory if the write failed, unless
\* that was late.
LEMMA PutIsKept ==
    ASSUME NEW k \in Tiers, NEW ring \in Rings, NEW pt \in Point, NEW written \in BOOLEAN,
           ~IsLate(k, ring, pt)
    PROVE  pt \in Kept(Put(k, ring, pt, written))
BY WhatPutDoes DEF Kept

LEMMA WhatReloadDoes ==
    ASSUME NEW ring \in Rings
    PROVE  Reload(ring) \in Rings /\ Kept(Reload(ring)) \subseteq Kept(ring)
<1>. DEFINE full == {i \in DOMAIN ring.file : ring.file[i] # <<>>}
            latest == CHOOSE i \in full :
                         \A j \in full : Last(ring.file[j]).time <= Last(ring.file[i]).time
<1>1. /\ ring = [open |-> ring.open, pts |-> ring.pts, file |-> ring.file]
      /\ ring.pts \in Seq(Point)
      /\ ring.file \in [0..(Slots - 1) -> Seq(Point)]
  BY DEF Rings
<1>2. CASE full = {}
  <2>1. Reload(ring) = EmptyRing
    BY <1>2 DEF Reload
  <2>2. EmptyRing \in Rings
    BY NoPoints, RollupAssumption DEF EmptyRing, Rings
  <2>3. Kept(EmptyRing) = {}
    BY NoPoints DEF EmptyRing, Kept, OnDisk
  <2>. QED
    BY <2>1, <2>2, <2>3
<1>3. CASE full # {}
  <2>1. Slots \in Nat /\ full \subseteq 0..(Slots - 1)
    BY <1>1, RollupAssumption
  <2>2. PICK f : f = [i \in full |-> Last(ring.file[i]).time]
    OBVIOUS
  <2>3. \A i \in full : f[i] \in Nat
    BY <1>1, <2>2, LastIsElement
  <2>4. \E m \in full : \A j \in full : f[j] <= f[m]
    <3>. HIDE DEF full
    <3>. QED
      BY <1>3, <2>1, <2>3, GreatestNumber
  <2>5. latest \in full
    BY <2>2, <2>4
  <2>6. Reload(ring) = [ring EXCEPT !.open = latest, !.pts = ring.file[latest]]
    BY <1>3 DEF Reload
  <2>7. latest \in 0..(Slots - 1)
    BY <2>1, <2>5
  <2>. HIDE DEF latest, full
  <2>8. Reload(ring) = [open |-> latest, pts |-> ring.file[latest], file |-> ring.file]
    BY <1>1, <2>6
  <2>9. Reload(ring) \in Rings
    BY <1>1, <2>7, <2>8, RollupAssumption DEF Rings
  <2>10. Kept(Reload(ring)) \subseteq Kept(ring)
    <3>1. ToSet(ring.file[latest]) \subseteq OnDisk(ring)
      BY <1>1, <2>7 DEF OnDisk
    <3>2. Reload(ring).pts = ring.file[latest] /\ OnDisk(Reload(ring)) = OnDisk(ring)
      BY <2>8 DEF OnDisk
    <3>. QED
      BY <3>1, <3>2 DEF Kept
  <2>. QED
    BY <2>9, <2>10
<1>. QED
  BY <1>2, <1>3

\* A ring that has been given points of the times in D, in order, all with
\* success: it holds nothing else, resumes at the latest, and has those that
\* are less than its length behind it.
RingOK(k, ring, D) ==
    /\ ring \in Rings
    /\ ring.open = -1 => D = {} /\ OnDisk(ring) = {}
    /\ ring.open # -1 =>
          /\ ring.pts = ring.file[ring.open] /\ ring.pts # <<>>
          /\ ring.open = Slot(k, Last(ring.pts).time)
          /\ Last(ring.pts).time \in D /\ \A d \in D : d <= Last(ring.pts).time
          /\ \A d \in D : ChunkOf(k, d) > ChunkOf(k, Last(ring.pts).time) - Slots =>
                             \E q \in OnDisk(ring) : q.time = d
    /\ \A i \in 0..(Slots - 1) : \A q \in ToSet(ring.file[i]) :
          q.time \in D /\ Slot(k, q.time) = i

LEMMA PutInOrder ==
    ASSUME NEW k \in Tiers, NEW ring, NEW D, D \subseteq Nat, RingOK(k, ring, D),
           NEW pt \in Point, \A d \in D : d < pt.time, NEW written \in BOOLEAN
    PROVE  written => RingOK(k, Put(k, ring, pt, written), D \cup {pt.time})
<1>1. PICK t \in Nat : t = pt.time
  BY DEF Point
<1>2. PICK idx \in 0..(Slots - 1) : idx = Slot(k, t)
  BY SlotIsRemainder
<1>3. ring \in Rings /\ DOMAIN ring.file = 0..(Slots - 1)
  BY DEF RingOK, Rings
<1>4. ~IsLate(k, ring, pt)
  <2>. SUFFICES ASSUME IsLate(k, ring, pt) PROVE FALSE
    OBVIOUS
  <2>1. PICK top : top = Last(ring.pts).time
    OBVIOUS
  <2>2. ring.open = idx /\ t <= top
    BY <1>1, <1>2, <2>1 DEF IsLate
  <2>3. top \in D
    BY <1>2, <2>1, <2>2 DEF RingOK
  <2>4. top \in Nat /\ top < t
    BY <1>1, <2>3
  <2>. QED
    BY <2>2, <2>4
<1>5. PICK new : new = Put(k, ring, pt, written)
  OBVIOUS
<1>6. /\ new \in Rings /\ new.open = idx /\ new.pts # <<>> /\ Last(new.pts) = pt
      /\ ToSet(new.pts) = (IF idx = ring.open THEN ToSet(ring.pts) ELSE {}) \cup {pt}
      /\ written => new.file[idx] = new.pts
      /\ \A i \in 0..(Slots - 1) : i # idx \/ ~written => new.file[i] = ring.file[i]
  <2>1. idx = Slot(k, pt.time)
    BY <1>1, <1>2
  <2>. QED
    BY <1>3, <1>4, <1>5, <2>1, WhatPutDoes
<1>. SUFFICES ASSUME written PROVE RingOK(k, new, D \cup {t})
  BY <1>1, <1>5
<1>7. DOMAIN new.file = 0..(Slots - 1)
  BY <1>6 DEF Rings
<1>8. idx = ring.open => ring.pts = ring.file[idx]
  BY <1>2 DEF RingOK
<1>9. \A i \in 0..(Slots - 1) : \A q \in ToSet(new.file[i]) :
         (q \in ToSet(ring.file[i])) \/ (q = pt /\ i = idx)
  BY <1>6, <1>8
<1>10. pt \in OnDisk(new)
  BY <1>6, <1>7 DEF OnDisk
<1>11. \A i \in 0..(Slots - 1) : \A q \in ToSet(new.file[i]) :
          q.time \in D \cup {t} /\ Slot(k, q.time) = i
  BY <1>1, <1>2, <1>9 DEF RingOK
<1>12. ASSUME NEW d \in D, ChunkOf(k, d) > ChunkOf(k, t) - Slots
       PROVE  \E q \in OnDisk(new) : q.time = d
  <2>1. ring.open # -1
    BY DEF RingOK
  <2>2. PICK top \in D : top = Last(ring.pts).time /\ d <= top /\ ring.open = Slot(k, top)
    BY <2>1 DEF RingOK
  <2>3. d \in Nat /\ top \in Nat /\ d <= top /\ top < t
    BY <1>1, <2>2
  <2>4. /\ ChunkOf(k, d) \in Nat /\ ChunkOf(k, top) \in Nat /\ ChunkOf(k, t) \in Nat
        /\ ChunkOf(k, d) <= ChunkOf(k, top) /\ ChunkOf(k, top) <= ChunkOf(k, t)
        /\ Slots \in Nat \ {0}
    BY <2>3, ChunkOfNat, ChunkOfMonotone, RollupAssumption
  <2>5. PICK q \in OnDisk(ring) : q.time = d
    BY <1>12, <2>1, <2>2, <2>4 DEF RingOK
  <2>6. PICK i \in 0..(Slots - 1) : q \in ToSet(ring.file[i])
    BY <1>3 DEF OnDisk
  <2>7. i = Slot(k, d)
    BY <2>5, <2>6 DEF RingOK
  <2>8. CASE i # idx
    BY <1>6, <1>7, <2>5, <2>6, <2>8 DEF OnDisk
  <2>9. CASE i = idx /\ idx = ring.open
    BY <1>6, <1>7, <1>8, <2>5, <2>6, <2>9 DEF OnDisk
  <2>10. CASE i = idx /\ idx # ring.open
    <3>1. ChunkOf(k, d) % Slots = ChunkOf(k, t) % Slots
      BY <1>2, <2>3, <2>7, <2>10, SlotIsRemainder
    <3>2. ChunkOf(k, d) = ChunkOf(k, t)
      BY <1>12, <2>4, <3>1, SameRemainder
    <3>3. ChunkOf(k, top) = ChunkOf(k, t)
      BY <2>4, <3>2
    <3>4. Slot(k, top) = Slot(k, t)
      BY <2>3, <3>3, SlotIsRemainder
    <3>. QED
      BY <1>2, <2>2, <2>10, <3>4
  <2>. QED
    BY <2>8, <2>9, <2>10
<1>13. \A d \in D \cup {t} : d <= t
  BY <1>1
<1>14. \A d \in D \cup {t} : ChunkOf(k, d) > ChunkOf(k, t) - Slots =>
          \E q \in OnDisk(new) : q.time = d
  BY <1>1, <1>10, <1>12
<1>15. idx # -1
  BY <1>2, RollupAssumption
<1>. QED
  BY <1>1, <1>2, <1>6, <1>11, <1>13, <1>14, <1>15 DEF RingOK

-----------------------------------------------------------------------------
(* Types *)

Sample == [tier : Tiers, time : Times, value : Values]
OpenBucket == [start : Nat, count : Nat \ {0}, sum : Nat, min : Values, max : Values]

\* The tier whose bucket is being flushed.
Flushing == work[flush.by].tier

TypeInv ==
    /\ work \in [Producers -> Sample \cup {Idle}]
    /\ acc \in [Tiers -> OpenBucket \cup {NoBucket}]
    /\ \A k \in Tiers : acc[k] # NoBucket => acc[k].start \in Buckets(k)
    /\ flush # NoFlush =>
          /\ flush = [by |-> flush.by, part |-> flush.part]
          /\ flush.by \in Producers /\ flush.part \in Parts
          /\ work[flush.by] \in Sample /\ acc[Flushing] # NoBucket
          /\ acc[Flushing].start # BucketStart(Flushing, work[flush.by].time)
    /\ asked # NoQuery =>
          /\ asked = [tier |-> asked.tier, got |-> asked.got]
          /\ asked.tier \in Tiers /\ Len(asked.got) \in 1..3
          /\ \E X : asked.got \in Seq(X)
    /\ sub \in [Tiers -> [Parts -> Rings]]
    /\ seen = [k \in Tiers |-> seen[k]]
    /\ \A k \in Tiers : seen[k] \in [Buckets(k) -> [Values -> Nat]]
    /\ inOrder \in [Tiers -> BOOLEAN]
    /\ faults \in 0..MaxFaults

LEMMA ValuesAreNumbers == Values \subseteq Nat
BY RollupAssumption DEF Values

LEMMA SampleFacts ==
    /\ Idle \notin Sample
    /\ \A s \in Sample : /\ s.tier \in Tiers /\ s.time \in Times /\ s.value \in Values
                         /\ s.tier # "none"
<1>1. "none" \notin Tiers
  BY RollupAssumption
<1>. QED
  BY <1>1 DEF Sample, Idle

LEMMA OpenedFacts ==
    ASSUME NEW start \in Nat, NEW v \in Values
    PROVE  /\ Opened(start, v) = [start |-> start, count |-> 1, sum |-> v, min |-> v, max |-> v]
           /\ Opened(start, v) \in OpenBucket /\ Opened(start, v) # NoBucket
<1>1. v \in Nat
  BY ValuesAreNumbers
<1>2. [NoBucket EXCEPT !.start = start]
         = [start |-> start, count |-> 0, sum |-> 0, min |-> 0, max |-> 0]
  BY DEF NoBucket
<1>3. Opened(start, v) = [start |-> start, count |-> 1, sum |-> v, min |-> v, max |-> v]
  <2>1. PICK e : e = [start |-> start, count |-> 0, sum |-> 0, min |-> 0, max |-> 0]
    OBVIOUS
  <2>2. Opened(start, v) = Add(e, v)
    BY <1>2, <2>1 DEF Opened
  <2>3. e.count = 0 /\ e.count + 1 = 1 /\ e.sum + v = v
    BY <1>1, <2>1
  <2>4. Add(e, v) = [e EXCEPT !.count = 1, !.sum = v, !.min = v, !.max = v]
    BY <2>3 DEF Add
  <2>. QED
    BY <2>1, <2>2, <2>4
<1>4. Opened(start, v).start # NoBucket.start
  BY <1>3 DEF NoBucket
<1>. QED
  BY <1>1, <1>3, <1>4 DEF OpenBucket

LEMMA AddFacts ==
    ASSUME NEW b \in OpenBucket, NEW v \in Values
    PROVE  /\ Add(b, v) = [start |-> b.start, count |-> b.count + 1, sum |-> b.sum + v,
                           min |-> IF v < b.min THEN v ELSE b.min,
                           max |-> IF v > b.max THEN v ELSE b.max]
           /\ Add(b, v) \in OpenBucket /\ Add(b, v) # NoBucket
<1>1. v \in Nat /\ b.count \in Nat \ {0} /\ b.sum \in Nat /\ b.start \in Nat
  BY ValuesAreNumbers DEF OpenBucket
<1>2. Add(b, v) = [start |-> b.start, count |-> b.count + 1, sum |-> b.sum + v,
                   min |-> IF v < b.min THEN v ELSE b.min,
                   max |-> IF v > b.max THEN v ELSE b.max]
  <2>1. b = [start |-> b.start, count |-> b.count, sum |-> b.sum, min |-> b.min, max |-> b.max]
    BY DEF OpenBucket
  <2>2. PICK low : low = IF v < b.min THEN v ELSE b.min
    OBVIOUS
  <2>3. PICK high : high = IF v > b.max THEN v ELSE b.max
    OBVIOUS
  <2>4. Add(b, v) = [b EXCEPT !.count = b.count + 1, !.sum = b.sum + v, !.min = low, !.max = high]
    BY <1>1, <2>2, <2>3 DEF Add
  <2>5. Add(b, v) = [start |-> b.start, count |-> b.count + 1, sum |-> b.sum + v,
                     min |-> low, max |-> high]
    BY <2>1, <2>4
  <2>. QED
    BY <2>2, <2>3, <2>5
<1>3. Add(b, v) \in OpenBucket
  BY <1>1, <1>2 DEF OpenBucket
<1>4. Add(b, v).start # NoBucket.start
  BY <1>1, <1>2 DEF NoBucket
<1>. QED
  BY <1>2, <1>3, <1>4

LEMMA PartIsPoint ==
    ASSUME NEW b \in OpenBucket, NEW part \in Parts
    PROVE  PartOf(b, part) \in Point /\ PartOf(b, part).time = b.start
<1>1. b.start \in Nat /\ b.sum \in Nat /\ b.count \in Nat /\ b.min \in Nat /\ b.max \in Nat
  BY ValuesAreNumbers DEF OpenBucket
<1>2. part = "min" \/ part = "avg" \/ part = "max"
  BY DEF Parts
<1>3. <<b.sum, b.count>> \in Nat \X Nat
  BY <1>1
<1>. QED
  BY <1>1, <1>2, <1>3 DEF PartOf, Point

\* What a tier's histories hold when it has taken in a sample.
LEMMA WhatTakeInDoes ==
    ASSUME TypeInv, NEW k \in Tiers, NEW s \in Sample, TakeIn(k, s),
           NEW b, b = BucketStart(k, s.time)
    PROVE  /\ b \in Buckets(k)
           /\ seen' = [l \in Tiers |-> seen'[l]]
           /\ \A l \in Tiers : seen'[l] \in [Buckets(l) -> [Values -> Nat]]
           /\ inOrder' \in [Tiers -> BOOLEAN]
           /\ \A l \in Tiers \ {k} : seen'[l] = seen[l] /\ inOrder'[l] = inOrder[l]
           /\ \A c \in Buckets(k) \ {b} : seen'[k][c] = seen[k][c]
           /\ seen'[k][b] = [seen[k][b] EXCEPT ![s.value] = @ + 1]
           /\ inOrder'[k] => inOrder[k]
           /\ inOrder'[k] => \A c \in Buckets(k), v \in Values : seen[k][c][v] > 0 => c <= b
<1>1. s.time \in Times /\ s.value \in Values
  BY SampleFacts
<1>2. b \in Buckets(k)
  BY <1>1, BucketStartFacts
<1>3. seen' = [seen EXCEPT ![k][b][s.value] = @ + 1]
  BY DEF TakeIn
<1>4. PICK bag : bag = [seen[k][b] EXCEPT ![s.value] = @ + 1]
  OBVIOUS
<1>5. PICK tier : tier = [seen[k] EXCEPT ![b] = bag]
  OBVIOUS
<1>6. seen' = [seen EXCEPT ![k] = tier]
  BY <1>3, <1>4, <1>5
<1>7. seen[k] \in [Buckets(k) -> [Values -> Nat]] /\ DOMAIN seen = Tiers
  BY DEF TypeInv
<1>8. bag \in [Values -> Nat]
  BY <1>1, <1>2, <1>4, <1>7
<1>9. /\ tier \in [Buckets(k) -> [Values -> Nat]] /\ tier[b] = bag
      /\ \A c \in Buckets(k) \ {b} : tier[c] = seen[k][c]
  BY <1>2, <1>5, <1>7, <1>8
<1>10. /\ seen' = [l \in Tiers |-> seen'[l]] /\ seen'[k] = tier
       /\ \A l \in Tiers \ {k} : seen'[l] = seen[l]
  BY <1>6, <1>7
<1>11. /\ inOrder' \in [Tiers -> BOOLEAN]
       /\ \A l \in Tiers \ {k} : inOrder'[l] = inOrder[l]
       /\ inOrder'[k] = (/\ inOrder[k]
                         /\ \A c \in Buckets(k), v \in Values : seen[k][c][v] > 0 => c <= b)
  <2>. DEFINE ordered == \A c \in Buckets(k), v \in Values : seen[k][c][v] > 0 => c <= b
  <2>1. inOrder' = [inOrder EXCEPT ![k] = @ /\ ordered]
    BY DEF TakeIn
  <2>2. ordered \in BOOLEAN /\ inOrder \in [Tiers -> BOOLEAN]
    BY DEF TypeInv
  <2>. HIDE DEF ordered
  <2>3. /\ inOrder' \in [Tiers -> BOOLEAN]
        /\ \A l \in Tiers \ {k} : inOrder'[l] = inOrder[l]
        /\ inOrder'[k] = (inOrder[k] /\ ordered)
    BY <2>1, <2>2
  <2>. QED
    BY <2>3 DEF ordered
<1>12. \A l \in Tiers : seen'[l] \in [Buckets(l) -> [Values -> Nat]]
  BY <1>9, <1>10 DEF TypeInv
<1>. QED
  BY <1>2, <1>4, <1>9, <1>10, <1>11, <1>12

LEMMA DueIsWork ==
    ASSUME NEW s \in Sample, NEW k \in Tiers
    PROVE  Due(s, k) \in Sample \cup {Idle}
<1>1. CASE k = "minute" /\ "hour" \in Tiers
  <2>1. s = [tier |-> s.tier, time |-> s.time, value |-> s.value]
    BY DEF Sample
  <2>2. Due(s, k) = [tier |-> "hour", time |-> s.time, value |-> s.value]
    BY <1>1, <2>1 DEF Due
  <2>. QED
    BY <1>1, <2>2 DEF Sample
<1>2. CASE ~(k = "minute" /\ "hour" \in Tiers)
  BY <1>2 DEF Due
<1>. QED
  BY <1>1, <1>2

LEMMA InHand ==
    ASSUME TypeInv, NEW p \in Producers, work[p] # Idle
    PROVE  work[p] \in Sample /\ work[p].tier \in Tiers
           /\ work[p].time \in Times /\ work[p].value \in Values
BY SampleFacts DEF TypeInv

LEMMA WhatAccumulateDoes ==
    ASSUME TypeInv, NEW p \in Producers, Accumulate(p),
           NEW k, k = work[p].tier, NEW b, b = BucketStart(k, work[p].time),
           NEW v, v = work[p].value
    PROVE  /\ k \in Tiers /\ b \in Buckets(k) /\ b \in Nat /\ v \in Values
           /\ flush = NoFlush /\ flush' = NoFlush
           /\ work[p] \in Sample /\ TakeIn(k, work[p])
           /\ \E a \in OpenBucket :
                 /\ acc' = [acc EXCEPT ![k] = a] /\ a # NoBucket /\ a.start = b
                 /\ \/ acc[k] = NoBucket /\ a = Opened(b, v)
                    \/ acc[k] \in OpenBucket /\ acc[k] # NoBucket /\ acc[k].start = b /\ a = Add(acc[k], v)
<1>1. work[p] \in Sample /\ k \in Tiers /\ work[p].time \in Times /\ v \in Values
  BY InHand DEF Accumulate
<1>2. b \in Buckets(k) /\ b \in Nat
  BY <1>1, BucketStartFacts
<1>3. /\ flush = NoFlush /\ flush' = NoFlush /\ TakeIn(k, work[p])
      /\ acc[k] = NoBucket \/ acc[k].start = b
      /\ acc' = [acc EXCEPT ![k] = IF acc[k] = NoBucket THEN Opened(b, v) ELSE Add(acc[k], v)]
  BY DEF Accumulate
<1>4. CASE acc[k] = NoBucket
  <2>1. PICK a : a = Opened(b, v)
    OBVIOUS
  <2>2. a \in OpenBucket /\ a # NoBucket /\ a.start = b
    BY <1>1, <1>2, <2>1, OpenedFacts
  <2>3. acc' = [acc EXCEPT ![k] = a]
    BY <1>3, <1>4, <2>1
  <2>. QED
    BY <1>1, <1>2, <1>3, <1>4, <2>1, <2>2, <2>3
<1>5. CASE acc[k] # NoBucket
  <2>1. acc[k] \in OpenBucket
    BY <1>1, <1>5 DEF TypeInv
  <2>2. Add(acc[k], v) \in OpenBucket /\ Add(acc[k], v) # NoBucket /\ Add(acc[k], v).start = b
    BY <1>1, <1>3, <1>5, <2>1, AddFacts
  <2>. QED
    BY <1>1, <1>2, <1>3, <1>5, <2>1, <2>2
<1>. QED
  BY <1>4, <1>5

\* The point of the flush in progress, and the ring that it goes to.
LEMMA WhatPutPartDoes ==
    ASSUME TypeInv, flush # NoFlush, NEW written \in BOOLEAN, PutPart(written),
           NEW k, k = Flushing, NEW pt, pt = PartOf(acc[k], flush.part)
    PROVE  /\ k \in Tiers /\ acc[k] \in OpenBucket /\ acc[k] # NoBucket
           /\ acc[k].start \in Buckets(k) /\ acc[k].start \in Nat
           /\ pt \in Point /\ pt.time = acc[k].start
           /\ sub' \in [Tiers -> [Parts -> Rings]]
           /\ sub'[k][flush.part] = Put(k, sub[k][flush.part], pt, written)
           /\ \A l \in Tiers, part \in Parts :
                 l # k \/ part # flush.part => sub'[l][part] = sub[l][part]
<1>1. /\ k \in Tiers /\ flush.part \in Parts /\ acc[k] # NoBucket
  BY SampleFacts DEF TypeInv, Flushing
<1>2. acc[k] \in OpenBucket /\ acc[k].start \in Buckets(k) /\ acc[k].start \in Nat
  BY <1>1, BucketFacts DEF TypeInv
<1>3. pt \in Point /\ pt.time = acc[k].start
  BY <1>1, <1>2, PartIsPoint
<1>4. sub \in [Tiers -> [Parts -> Rings]]
  BY DEF TypeInv
<1>5. PICK ring \in Rings : ring = Put(k, sub[k][flush.part], pt, written)
  BY <1>1, <1>3, <1>4, PutIsRing
<1>6. sub' = [sub EXCEPT ![k][flush.part] = ring]
  BY <1>5 DEF PutPart, Flushing
<1>. QED
  BY <1>1, <1>2, <1>3, <1>4, <1>5, <1>6

LEMMA WhatFinishFlushDoes ==
    ASSUME TypeInv, FinishFlush, NEW k, k = Flushing,
           NEW s, s = work[flush.by], NEW b, b = BucketStart(k, s.time),
           NEW v, v = s.value, NEW a, a = Opened(b, v)
    PROVE  /\ flush # NoFlush /\ flush' = NoFlush /\ flush.part = "max"
           /\ k \in Tiers /\ s \in Sample /\ v \in Values
           /\ b \in Buckets(k) /\ b \in Nat /\ b # acc[k].start
           /\ TakeIn(k, s)
           /\ acc' = [acc EXCEPT ![k] = a]
           /\ a \in OpenBucket /\ a # NoBucket /\ a.start = b
<1>1. flush.part = "max" /\ flush # NoFlush
  BY DEF FinishFlush, NoFlush
<1>2. s \in Sample /\ k \in Tiers /\ s.time \in Times /\ v \in Values /\ b # acc[k].start
  BY <1>1, SampleFacts DEF TypeInv, Flushing
<1>3. b \in Buckets(k) /\ b \in Nat
  BY <1>2, BucketStartFacts
<1>4. /\ flush' = NoFlush /\ TakeIn(k, s)
      /\ acc' = [acc EXCEPT ![k] = a]
  BY DEF FinishFlush, Flushing
<1>5. a \in OpenBucket /\ a # NoBucket /\ a.start = b
  BY <1>2, <1>3, OpenedFacts
<1>. QED
  BY <1>1, <1>2, <1>3, <1>4, <1>5

LEMMA TypeInit == Init => TypeInv
<1>. SUFFICES ASSUME Init PROVE TypeInv
  OBVIOUS
<1>1. EmptyRing \in Rings
  BY NoPoints, RollupAssumption DEF EmptyRing, Rings
<1>2. sub \in [Tiers -> [Parts -> Rings]]
  BY <1>1 DEF Init
<1>3. \A k \in Tiers : seen[k] \in [Buckets(k) -> [Values -> Nat]]
  BY DEF Init
<1>. QED
  BY <1>2, <1>3, RollupAssumption DEF Init, TypeInv

LEMMA TypeStep == TypeInv /\ [Next]_vars => TypeInv'
<1>. SUFFICES ASSUME TypeInv, [Next]_vars PROVE TypeInv'
  OBVIOUS
<1>1. ASSUME NEW p \in Producers, NEW r \in Readings, Consume(p, r) PROVE TypeInv'
  <2>1. [tier |-> FirstTier, time |-> r.time, value |-> r.value] \in Sample
    BY RollupAssumption DEF Sample, Times, Values, FirstTier
  <2>2. work' \in [Producers -> Sample \cup {Idle}]
    BY <1>1, <2>1 DEF Consume, TypeInv
  <2>3. flush # NoFlush => work'[flush.by] = work[flush.by]
    BY <1>1, SampleFacts DEF Consume, TypeInv
  <2>. QED
    BY <1>1, <2>2, <2>3 DEF Consume, TypeInv, Flushing
<1>2. ASSUME NEW p \in Producers, Accumulate(p) PROVE TypeInv'
  <2>1. PICK k, b, v : k = work[p].tier /\ b = BucketStart(k, work[p].time) /\ v = work[p].value
    OBVIOUS
  <2>2. /\ k \in Tiers /\ b \in Buckets(k)
        /\ flush = NoFlush /\ flush' = NoFlush
        /\ work[p] \in Sample /\ TakeIn(k, work[p])
    BY <1>2, <2>1, WhatAccumulateDoes
  <2>3. PICK a \in OpenBucket : acc' = [acc EXCEPT ![k] = a] /\ a.start = b
    BY <1>2, <2>1, WhatAccumulateDoes
  <2>4. work' \in [Producers -> Sample \cup {Idle}]
    BY <1>2, <2>1, <2>2, DueIsWork DEF Accumulate, TypeInv
  <2>5. /\ seen' = [l \in Tiers |-> seen'[l]]
        /\ \A l \in Tiers : seen'[l] \in [Buckets(l) -> [Values -> Nat]]
        /\ inOrder' \in [Tiers -> BOOLEAN]
    BY <2>1, <2>2, WhatTakeInDoes
  <2>6. /\ acc' \in [Tiers -> OpenBucket \cup {NoBucket}]
        /\ \A l \in Tiers : acc'[l] # NoBucket => acc'[l].start \in Buckets(l)
    BY <2>2, <2>3 DEF TypeInv
  <2>. QED
    BY <1>2, <2>2, <2>4, <2>5, <2>6 DEF Accumulate, TypeInv
<1>3. ASSUME NEW p \in Producers, BeginFlush(p) PROVE TypeInv'
  <2>1. work[p] \in Sample
    BY <1>3, InHand DEF BeginFlush
  <2>2. flush' = [by |-> p, part |-> "min"]
    BY <1>3 DEF BeginFlush
  <2>3. work' = work /\ acc' = acc /\ flush'.by = p /\ flush'.part = "min"
    BY <1>3, <2>2 DEF BeginFlush
  <2>. QED
    BY <1>3, <2>1, <2>2, <2>3 DEF BeginFlush, TypeInv, Flushing, Parts
<1>4. CASE AppendPart
  <2>1. flush # NoFlush /\ PutPart(TRUE)
    <3>1. NoFlush.part = "none"
      BY DEF NoFlush
    <3>. QED
      BY <1>4, <3>1 DEF AppendPart
  <2>2. sub' \in [Tiers -> [Parts -> Rings]]
    BY <2>1, WhatPutPartDoes
  <2>3. /\ flush' = [by |-> flush'.by, part |-> flush'.part]
        /\ flush'.by = flush.by /\ flush'.part \in Parts
    BY <1>4, <2>1 DEF AppendPart, TypeInv, Parts
  <2>. QED
    BY <1>4, <2>1, <2>2, <2>3 DEF AppendPart, TypeInv, Flushing
<1>5. CASE FinishFlush
  <2>1. PICK k, s : k = Flushing /\ s = work[flush.by]
    OBVIOUS
  <2>2. PICK b, v : b = BucketStart(k, s.time) /\ v = s.value
    OBVIOUS
  <2>3. PICK a : a = Opened(b, v)
    OBVIOUS
  <2>4. /\ flush # NoFlush /\ flush' = NoFlush
        /\ k \in Tiers /\ s \in Sample /\ b \in Buckets(k)
        /\ TakeIn(k, s)
        /\ acc' = [acc EXCEPT ![k] = a]
        /\ a \in OpenBucket /\ a # NoBucket /\ a.start = b
    BY <1>5, <2>1, <2>2, <2>3, WhatFinishFlushDoes
  <2>5. sub' \in [Tiers -> [Parts -> Rings]]
    <3>1. PutPart(TRUE)
      BY <1>5 DEF FinishFlush
    <3>. QED
      BY <2>4, <3>1, WhatPutPartDoes
  <2>6. /\ seen' = [l \in Tiers |-> seen'[l]]
        /\ \A l \in Tiers : seen'[l] \in [Buckets(l) -> [Values -> Nat]]
        /\ inOrder' \in [Tiers -> BOOLEAN]
    BY <2>2, <2>4, WhatTakeInDoes
  <2>7. work' \in [Producers -> Sample \cup {Idle}]
    BY <1>5, <2>1, <2>4, DueIsWork DEF FinishFlush, TypeInv, Flushing
  <2>8. /\ acc' \in [Tiers -> OpenBucket \cup {NoBucket}]
        /\ \A l \in Tiers : acc'[l] # NoBucket => acc'[l].start \in Buckets(l)
    BY <2>4 DEF TypeInv
  <2>. QED
    BY <1>5, <2>4, <2>5, <2>6, <2>7, <2>8 DEF FinishFlush, TypeInv
<1>6. CASE FailPart
  <2>1. flush # NoFlush /\ PutPart(FALSE)
    BY <1>6 DEF FailPart
  <2>2. sub' \in [Tiers -> [Parts -> Rings]]
    BY <2>1, WhatPutPartDoes
  <2>3. work' \in [Producers -> Sample \cup {Idle}] /\ flush' = NoFlush
    BY <1>6 DEF FailPart, TypeInv
  <2>4. faults' \in 0..MaxFaults
    BY <1>6, RollupAssumption DEF FailPart, TypeInv
  <2>. QED
    BY <1>6, <2>2, <2>3, <2>4 DEF FailPart, TypeInv
<1>7. CASE Restart
  <2>1. sub' \in [Tiers -> [Parts -> Rings]]
    BY <1>7, WhatReloadDoes DEF Restart, TypeInv
  <2>2. faults' \in 0..MaxFaults
    BY <1>7, RollupAssumption DEF Restart, TypeInv
  <2>. QED
    BY <1>7, <2>1, <2>2 DEF Restart, TypeInv
<1>8. ASSUME NEW k \in Tiers, Ask(k) PROVE TypeInv'
  <2>1. PICK answer : answer = Read(sub[k]["min"])
    OBVIOUS
  <2>2. asked' = [tier |-> k, got |-> <<answer>>]
    BY <1>8, <2>1 DEF Ask
  <2>3. <<answer>> \in Seq({answer}) /\ Len(<<answer>>) = 1
    OBVIOUS
  <2>4. asked'.tier = k /\ asked'.got = <<answer>> /\ \E X : asked'.got \in Seq(X)
    BY <2>2, <2>3
  <2>. QED
    BY <1>8, <2>2, <2>3, <2>4 DEF Ask, TypeInv, Flushing
<1>9. CASE ReadNext
  <2>1. PICK answer : asked' = [asked EXCEPT !.got = Append(@, answer)]
    BY <1>9 DEF ReadNext
  <2>2. PICK X : asked.got \in Seq(X)
    BY <1>9 DEF ReadNext, TypeInv
  <2>3. asked.got \in Seq(X \cup {answer})
    BY <2>2
  <2>4. /\ Append(asked.got, answer) \in Seq(X \cup {answer})
        /\ Len(Append(asked.got, answer)) = Len(asked.got) + 1
    BY <2>3
  <2>5. asked' = [tier |-> asked.tier, got |-> Append(asked.got, answer)]
    BY <1>9, <2>1 DEF ReadNext, TypeInv
  <2>6. Len(asked.got) \in 1..3 /\ Len(asked.got) < 3 /\ asked.tier \in Tiers
    BY <1>9 DEF ReadNext, TypeInv
  <2>7. /\ asked'.tier = asked.tier /\ asked'.got = Append(asked.got, answer)
        /\ \E Y : asked'.got \in Seq(Y)
    BY <2>4, <2>5
  <2>8. asked' # NoQuery => /\ asked' = [tier |-> asked'.tier, got |-> asked'.got]
                           /\ asked'.tier \in Tiers /\ Len(asked'.got) \in 1..3
                           /\ \E Y : asked'.got \in Seq(Y)
    BY <2>4, <2>5, <2>6, <2>7
  <2>. HIDE <2>7
  <2>. QED
    BY <1>9, <2>8 DEF ReadNext, TypeInv, Flushing
<1>10. CASE Return
  BY <1>10 DEF Return, TypeInv, Flushing
<1>11. CASE UNCHANGED vars
  BY <1>11 DEF vars, TypeInv, Flushing
<1>. QED
  BY <1>1, <1>2, <1>3, <1>4, <1>5, <1>6, <1>7, <1>8, <1>9, <1>10, <1>11 DEF Next

LEMMA TypeAlways == Spec => []TypeInv
<1>. QED
  BY TypeInit, TypeStep, PTL DEF Spec

\* An open bucket has samples and starts at a multiple of its tier's width; a
\* flush is somebody's, with the sample that began it in hand; a query has one
\* to three answers: through failed writes and kills.
THEOREM RollupTypeOK == Spec => []TypeOK
<1>1. TypeInv => TypeOK
  <2>. SUFFICES ASSUME TypeInv PROVE TypeOK
    OBVIOUS
  <2>1. \A k \in Tiers : acc[k] # NoBucket =>
           /\ acc[k].start \in Nat /\ acc[k].start % Width[k] = 0
           /\ acc[k].count \in Nat \ {0} /\ {acc[k].min, acc[k].max} \subseteq Values
    BY BucketFacts DEF TypeInv, OpenBucket
  <2>2. \A k \in Tiers, part \in Parts :
           /\ sub[k][part].open \in -1..(Slots - 1)
           /\ DOMAIN sub[k][part].file = 0..(Slots - 1)
    BY DEF TypeInv, Rings
  <2>3. flush # NoFlush => flush.part \in Parts /\ work[flush.by] # Idle
    BY SampleFacts DEF TypeInv
  <2>4. work \in [Producers -> [tier : Tiers, time : Times, value : Values] \cup {Idle}]
    BY DEF TypeInv, Sample
  <2>. QED
    BY <2>1, <2>2, <2>3, <2>4 DEF TypeInv, TypeOK
<1>. QED
  BY <1>1, TypeAlways, PTL

-----------------------------------------------------------------------------
(* Every bucket that a tier has left is stored *)

\* The order of appendAgg.
Before(part, next) ==
    \/ part = "min" /\ next \in {"avg", "max"}
    \/ part = "avg" /\ next = "max"

\* The flush in progress has stored a tier's part.
Done(k, part) == flush # NoFlush /\ Flushing = k /\ Before(part, flush.part)

\* The open bucket is the latest with samples, as long as they come in order; a
\* part that is kept is one of a bucket with samples; and the parts that the
\* flush in progress is done with are kept.
OrderInv ==
    /\ \A k \in Tiers : acc[k] # NoBucket =>
          /\ HasSamples(k, acc[k].start)
          /\ inOrder[k] => \A c \in Buckets(k) : HasSamples(k, c) => c <= acc[k].start
    /\ \A k \in Tiers, part \in Parts : \A q \in Kept(sub[k][part]) :
          q.time \in Buckets(k) /\ HasSamples(k, q.time)
    /\ \A k \in Tiers, part \in Parts : inOrder[k] /\ Done(k, part) =>
          \E q \in Kept(sub[k][part]) : q.time = acc[k].start

LEMMA SamplesTakenIn ==
    ASSUME TypeInv, NEW k \in Tiers, NEW s \in Sample, TakeIn(k, s),
           NEW b, b = BucketStart(k, s.time)
    PROVE  /\ \A l \in Tiers : \A c \in Buckets(l) :
                 (HasSamples(l, c) \/ (l = k /\ c = b)) = HasSamples(l, c)'
           /\ inOrder'[k] => \A c \in Buckets(k) : HasSamples(k, c) => c <= b
<1>1. /\ b \in Buckets(k)
      /\ \A l \in Tiers \ {k} : seen'[l] = seen[l]
      /\ \A c \in Buckets(k) \ {b} : seen'[k][c] = seen[k][c]
      /\ seen'[k][b] = [seen[k][b] EXCEPT ![s.value] = @ + 1]
      /\ inOrder'[k] => \A c \in Buckets(k), v \in Values : seen[k][c][v] > 0 => c <= b
  BY WhatTakeInDoes
<1>2. s.value \in Values /\ seen[k][b] \in [Values -> Nat]
  BY <1>1, SampleFacts DEF TypeInv
<1>3. seen'[k][b][s.value] > 0
  BY <1>1, <1>2
<1>4. HasSamples(k, b)'
  BY <1>2, <1>3 DEF HasSamples, ValuesIn
<1>5. ASSUME NEW l \in Tiers, NEW c \in Buckets(l), ~(l = k /\ c = b)
      PROVE  HasSamples(l, c)' = HasSamples(l, c)
  <2>1. seen'[l][c] = seen[l][c]
    BY <1>1, <1>5
  <2>. QED
    BY <2>1 DEF HasSamples
<1>6. inOrder'[k] => \A c \in Buckets(k) : HasSamples(k, c) => c <= b
  BY <1>1 DEF HasSamples, ValuesIn
<1>7. ASSUME NEW l \in Tiers, NEW c \in Buckets(l)
      PROVE  (HasSamples(l, c) \/ (l = k /\ c = b)) = HasSamples(l, c)'
  <2>1. HasSamples(l, c) \in BOOLEAN /\ HasSamples(l, c)' \in BOOLEAN
    BY DEF HasSamples
  <2>2. CASE l = k /\ c = b
    BY <1>4, <2>1, <2>2
  <2>3. CASE ~(l = k /\ c = b)
    BY <1>5, <2>1, <2>3
  <2>. QED
    BY <2>2, <2>3
<1>. QED
  BY <1>6, <1>7

\* The part that a flush stores is kept, or the same bucket's is there already:
\* in order, only a point of the same bucket makes it late.
LEMMA PartIsKept ==
    ASSUME TypeInv, OrderInv, flush # NoFlush, NEW written \in BOOLEAN, PutPart(written),
           NEW k, k = Flushing
    PROVE  /\ \A q \in Kept(sub'[k][flush.part]) : q.time \in Buckets(k) /\ HasSamples(k, q.time)
           /\ inOrder[k] => \E q \in Kept(sub'[k][flush.part]) : q.time = acc[k].start
<1>1. PICK pt : pt = PartOf(acc[k], flush.part)
  OBVIOUS
<1>2. /\ k \in Tiers /\ acc[k] # NoBucket
      /\ acc[k].start \in Buckets(k) /\ acc[k].start \in Nat
      /\ pt \in Point /\ pt.time = acc[k].start
      /\ sub'[k][flush.part] = Put(k, sub[k][flush.part], pt, written)
  BY <1>1, WhatPutPartDoes
<1>3. flush.part \in Parts /\ sub[k][flush.part] \in Rings
  BY <1>2 DEF TypeInv
<1>4. HasSamples(k, acc[k].start)
  BY <1>2 DEF OrderInv
<1>5. Kept(sub'[k][flush.part]) \subseteq Kept(sub[k][flush.part]) \cup {pt}
  BY <1>2, <1>3, PutKeepsNothingElse
<1>6. \A q \in Kept(sub[k][flush.part]) : q.time \in Buckets(k) /\ HasSamples(k, q.time)
  BY <1>2, <1>3 DEF OrderInv
<1>7. \A q \in Kept(sub'[k][flush.part]) : q.time \in Buckets(k) /\ HasSamples(k, q.time)
  BY <1>2, <1>4, <1>5, <1>6
<1>8. ASSUME inOrder[k] PROVE \E q \in Kept(sub'[k][flush.part]) : q.time = acc[k].start
  <2>1. CASE ~IsLate(k, sub[k][flush.part], pt)
    <3>1. pt \in Kept(sub'[k][flush.part])
      BY <1>2, <1>3, <2>1, PutIsKept
    <3>. QED
      BY <1>2, <3>1
  <2>2. CASE IsLate(k, sub[k][flush.part], pt)
    <3>1. PICK q : q = Last(sub[k][flush.part].pts)
      OBVIOUS
    <3>2. acc[k].start <= q.time /\ sub[k][flush.part].pts # <<>>
      BY <1>2, <2>2, <3>1 DEF IsLate
    <3>3. q \in Kept(sub[k][flush.part]) /\ q.time \in Nat
      BY <1>3, <3>1, <3>2, LastIsElement DEF Kept, Rings
    <3>4. q.time <= acc[k].start
      BY <1>2, <1>6, <1>8, <3>3 DEF OrderInv
    <3>5. sub'[k][flush.part] = sub[k][flush.part]
      BY <1>2, <2>2 DEF Put
    <3>6. q.time = acc[k].start
      BY <1>2, <3>2, <3>3, <3>4
    <3>. QED
      BY <3>3, <3>5, <3>6
  <2>. QED
    BY <2>1, <2>2
<1>. QED
  BY <1>7, <1>8

\* The parts of OrderInv, each of one tier.
OpenIsLatest(k) ==
    acc[k] # NoBucket =>
       /\ HasSamples(k, acc[k].start)
       /\ inOrder[k] => \A c \in Buckets(k) : HasSamples(k, c) => c <= acc[k].start
KeptHasSamples(k, part) ==
    \A q \in Kept(sub[k][part]) : q.time \in Buckets(k) /\ HasSamples(k, q.time)
DoneIsKept(k, part) ==
    inOrder[k] /\ Done(k, part) => \E q \in Kept(sub[k][part]) : q.time = acc[k].start

LEMMA OrderByTier ==
    OrderInv <=> /\ \A k \in Tiers : OpenIsLatest(k)
                 /\ \A k \in Tiers, part \in Parts : KeptHasSamples(k, part) /\ DoneIsKept(k, part)
BY DEF OrderInv, OpenIsLatest, KeptHasSamples, DoneIsKept

LEMMA OrderInit == Init => OrderInv
<1>. SUFFICES ASSUME Init PROVE OrderInv
  OBVIOUS
<1>1. Kept(EmptyRing) = {}
  BY NoPoints DEF EmptyRing, Kept, OnDisk
<1>. QED
  BY <1>1 DEF Init, OrderInv, Done

\* A sample is taken in, with its bucket open and no flush in progress.
LEMMA OrderTakenIn ==
    ASSUME TypeInv, OrderInv, NEW k \in Tiers, NEW s \in Sample, TakeIn(k, s),
           NEW b, b = BucketStart(k, s.time), NEW a, a.start = b,
           acc' = [acc EXCEPT ![k] = a], flush' = NoFlush,
           \A l \in Tiers, part \in Parts : \A q \in Kept(sub'[l][part]) :
              q.time \in Buckets(l) /\ HasSamples(l, q.time)
    PROVE  OrderInv'
<1>1. /\ b \in Buckets(k) /\ acc \in [Tiers -> OpenBucket \cup {NoBucket}]
      /\ \A l \in Tiers \ {k} : inOrder'[l] = inOrder[l]
  BY WhatTakeInDoes DEF TypeInv
<1>2. /\ \A l \in Tiers : \A c \in Buckets(l) :
            (HasSamples(l, c) \/ (l = k /\ c = b)) = HasSamples(l, c)'
      /\ inOrder'[k] => \A c \in Buckets(k) : HasSamples(k, c) => c <= b
  BY SamplesTakenIn
<1>3. acc'[k].start = b /\ \A l \in Tiers \ {k} : acc'[l] = acc[l]
  BY <1>1
<1>4. b <= b
  BY <1>1, BucketFacts
<1>5. OpenIsLatest(k)'
  BY <1>1, <1>2, <1>3, <1>4 DEF OpenIsLatest
<1>6. ASSUME NEW l \in Tiers \ {k} PROVE OpenIsLatest(l)'
  <2>1. acc[l] # NoBucket => acc[l].start \in Buckets(l)
    BY DEF TypeInv
  <2>2. OpenIsLatest(l)
    BY OrderByTier
  <2>3. \A c \in Buckets(l) : HasSamples(l, c) = HasSamples(l, c)'
    <3>1. \A c \in Buckets(l) : (HasSamples(l, c) \/ (l = k /\ c = b)) = HasSamples(l, c)'
      BY <1>2
    <3>2. \A c \in Buckets(l) : HasSamples(l, c) \in BOOLEAN
      BY DEF HasSamples
    <3>. QED
      BY <3>1, <3>2
  <2>. QED
    BY <1>1, <1>3, <2>1, <2>2, <2>3 DEF OpenIsLatest
<1>7. ASSUME NEW l \in Tiers, NEW part \in Parts PROVE KeptHasSamples(l, part)'
  BY <1>2 DEF KeptHasSamples
<1>8. ASSUME NEW l \in Tiers, NEW part \in Parts PROVE DoneIsKept(l, part)'
  BY DEF DoneIsKept, Done
<1>. QED
  BY <1>5, <1>6, <1>7, <1>8 DEF OrderInv, OpenIsLatest, KeptHasSamples, DoneIsKept

LEMMA OrderStep == TypeInv /\ OrderInv /\ [Next]_vars => OrderInv'
<1>. SUFFICES ASSUME TypeInv, OrderInv, [Next]_vars PROVE OrderInv'
  OBVIOUS
<1>1. ASSUME NEW p \in Producers, NEW r \in Readings, Consume(p, r) PROVE OrderInv'
  <2>1. flush # NoFlush => work'[flush.by] = work[flush.by]
    BY <1>1, SampleFacts DEF Consume, TypeInv
  <2>. QED
    BY <1>1, <2>1 DEF Consume, OrderInv, HasSamples, Done, Flushing
<1>2. ASSUME NEW p \in Producers, Accumulate(p) PROVE OrderInv'
  <2>1. PICK k, b, v : k = work[p].tier /\ b = BucketStart(k, work[p].time) /\ v = work[p].value
    OBVIOUS
  <2>2. /\ k \in Tiers /\ flush' = NoFlush
        /\ work[p] \in Sample /\ TakeIn(k, work[p])
    BY <1>2, <2>1, WhatAccumulateDoes
  <2>3. PICK a \in OpenBucket : acc' = [acc EXCEPT ![k] = a] /\ a.start = b
    BY <1>2, <2>1, WhatAccumulateDoes
  <2>4. sub' = sub
    BY <1>2 DEF Accumulate
  <2>5. \A l \in Tiers, part \in Parts : \A q \in Kept(sub'[l][part]) :
           q.time \in Buckets(l) /\ HasSamples(l, q.time)
    BY <2>4 DEF OrderInv
  <2>6. PICK s \in Sample : s = work[p]
    BY <2>2
  <2>. QED
    BY <2>1, <2>2, <2>3, <2>5, <2>6, OrderTakenIn
<1>3. ASSUME NEW p \in Producers, BeginFlush(p) PROVE OrderInv'
  <2>1. flush'.part = "min" /\ UNCHANGED <<acc, sub, seen, inOrder>>
    BY <1>3 DEF BeginFlush
  <2>2. \A k \in Tiers, part \in Parts : ~Done(k, part)'
    BY <2>1 DEF Done, Before
  <2>3. \A k \in Tiers, part \in Parts : DoneIsKept(k, part)'
    BY <2>2 DEF DoneIsKept
  <2>. QED
    BY <2>1, <2>3 DEF OrderInv, OpenIsLatest, KeptHasSamples, DoneIsKept, HasSamples
<1>4. CASE AppendPart
  <2>1. flush # NoFlush /\ flush.part \in {"min", "avg"}
    <3>1. NoFlush.part = "none"
      BY DEF NoFlush
    <3>. QED
      BY <1>4, <3>1 DEF AppendPart
  <2>2. PICK written \in BOOLEAN : PutPart(written)
    BY <1>4 DEF AppendPart
  <2>3. PICK k : k = Flushing
    OBVIOUS
  <2>4. PICK pt : pt = PartOf(acc[k], flush.part)
    OBVIOUS
  <2>5. /\ k \in Tiers
        /\ \A l \in Tiers, part \in Parts :
              l # k \/ part # flush.part => sub'[l][part] = sub[l][part]
    BY <2>1, <2>2, <2>3, <2>4, WhatPutPartDoes
  <2>6. /\ \A q \in Kept(sub'[k][flush.part]) : q.time \in Buckets(k) /\ HasSamples(k, q.time)
        /\ inOrder[k] => \E q \in Kept(sub'[k][flush.part]) : q.time = acc[k].start
    BY <2>1, <2>2, <2>3, PartIsKept
  <2>7. /\ flush' = [flush EXCEPT !.part = IF flush.part = "min" THEN "avg" ELSE "max"]
        /\ UNCHANGED <<work, acc, seen, inOrder>>
    BY <1>4 DEF AppendPart
  <2>8. /\ flush'.by = flush.by
        /\ flush'.part = IF flush.part = "min" THEN "avg" ELSE "max"
    BY <2>1, <2>7 DEF TypeInv
  <2>9. \A l \in Tiers : OpenIsLatest(l)'
    BY <2>7, OrderByTier DEF OpenIsLatest, HasSamples
  <2>10. ASSUME NEW l \in Tiers, NEW part \in Parts
         PROVE  KeptHasSamples(l, part)' /\ DoneIsKept(l, part)'
    <3>1. CASE l = k /\ part = flush.part
      BY <2>6, <2>7, <3>1 DEF KeptHasSamples, DoneIsKept, HasSamples
    <3>2. CASE ~(l = k /\ part = flush.part)
      <4>1. sub'[l][part] = sub[l][part]
        BY <2>5, <3>2
      <4>2. Done(l, part)' => Done(l, part)
        BY <2>1, <2>3, <2>7, <2>8, <3>2 DEF Done, Before, Flushing
      <4>3. KeptHasSamples(l, part) /\ DoneIsKept(l, part)
        BY OrderByTier
      <4>. QED
        BY <2>7, <4>1, <4>2, <4>3 DEF KeptHasSamples, DoneIsKept, HasSamples
    <3>. QED
      BY <3>1, <3>2
  <2>. QED
    BY <2>9, <2>10 DEF OrderInv, OpenIsLatest, KeptHasSamples, DoneIsKept
<1>5. CASE FinishFlush
  <2>1. PICK k, s : k = Flushing /\ s = work[flush.by]
    OBVIOUS
  <2>2. PICK b, v : b = BucketStart(k, s.time) /\ v = s.value
    OBVIOUS
  <2>3. PICK a : a = Opened(b, v)
    OBVIOUS
  <2>4. /\ flush # NoFlush /\ flush' = NoFlush
        /\ k \in Tiers /\ s \in Sample /\ TakeIn(k, s)
        /\ acc' = [acc EXCEPT ![k] = a] /\ a.start = b
    BY <1>5, <2>1, <2>2, <2>3, WhatFinishFlushDoes
  <2>5. PICK written \in BOOLEAN : PutPart(written)
    BY <1>5 DEF FinishFlush
  <2>6. PICK pt : pt = PartOf(acc[k], flush.part)
    OBVIOUS
  <2>7. \A l \in Tiers, part \in Parts :
           l # k \/ part # flush.part => sub'[l][part] = sub[l][part]
    BY <2>1, <2>4, <2>5, <2>6, WhatPutPartDoes
  <2>8. \A q \in Kept(sub'[k][flush.part]) : q.time \in Buckets(k) /\ HasSamples(k, q.time)
    BY <2>1, <2>4, <2>5, PartIsKept
  <2>9. \A l \in Tiers, part \in Parts : \A q \in Kept(sub'[l][part]) :
           q.time \in Buckets(l) /\ HasSamples(l, q.time)
    BY <2>7, <2>8 DEF OrderInv
  <2>. QED
    BY <2>2, <2>4, <2>9, OrderTakenIn
<1>6. CASE FailPart
  <2>1. PICK written \in BOOLEAN : PutPart(written)
    BY <1>6 DEF FailPart
  <2>2. PICK k : k = Flushing
    OBVIOUS
  <2>3. PICK pt : pt = PartOf(acc[k], flush.part)
    OBVIOUS
  <2>4. flush # NoFlush /\ flush' = NoFlush /\ UNCHANGED <<acc, seen, inOrder>>
    BY <1>6 DEF FailPart
  <2>5. /\ k \in Tiers
        /\ \A l \in Tiers, part \in Parts :
              l # k \/ part # flush.part => sub'[l][part] = sub[l][part]
    BY <2>1, <2>2, <2>3, <2>4, WhatPutPartDoes
  <2>6. \A q \in Kept(sub'[k][flush.part]) : q.time \in Buckets(k) /\ HasSamples(k, q.time)
    BY <2>1, <2>2, <2>4, PartIsKept
  <2>7. \A l \in Tiers : OpenIsLatest(l)'
    BY <2>4, OrderByTier DEF OpenIsLatest, HasSamples
  <2>8. ASSUME NEW l \in Tiers, NEW part \in Parts PROVE KeptHasSamples(l, part)'
    <3>1. CASE l = k /\ part = flush.part
      BY <2>4, <2>6, <3>1 DEF KeptHasSamples, HasSamples
    <3>2. CASE ~(l = k /\ part = flush.part)
      BY <2>4, <2>5, <3>2, OrderByTier DEF KeptHasSamples, HasSamples
    <3>. QED
      BY <3>1, <3>2
  <2>9. \A l \in Tiers, part \in Parts : DoneIsKept(l, part)'
    BY <2>4 DEF DoneIsKept, Done
  <2>. QED
    BY <2>7, <2>8, <2>9 DEF OrderInv, OpenIsLatest, KeptHasSamples, DoneIsKept
<1>7. CASE Restart
  <2>1. /\ \A l \in Tiers : acc'[l] = NoBucket
        /\ flush' = NoFlush /\ seen' = seen
        /\ sub' = [k \in Tiers |-> [part \in Parts |-> Reload(sub[k][part])]]
    BY <1>7 DEF Restart
  <2>2. ASSUME NEW l \in Tiers, NEW part \in Parts PROVE KeptHasSamples(l, part)'
    <3>1. sub'[l][part] = Reload(sub[l][part]) /\ sub[l][part] \in Rings
      BY <2>1 DEF TypeInv
    <3>2. Kept(sub'[l][part]) \subseteq Kept(sub[l][part])
      BY <3>1, WhatReloadDoes
    <3>. QED
      BY <2>1, <3>2, OrderByTier DEF KeptHasSamples, HasSamples
  <2>3. \A l \in Tiers : OpenIsLatest(l)'
    BY <2>1 DEF OpenIsLatest
  <2>4. \A l \in Tiers, part \in Parts : DoneIsKept(l, part)'
    BY <2>1 DEF DoneIsKept, Done
  <2>. QED
    BY <2>2, <2>3, <2>4 DEF OrderInv, OpenIsLatest, KeptHasSamples, DoneIsKept
<1>8. ASSUME \/ \E k \in Tiers : Ask(k)
             \/ ReadNext \/ Return \/ UNCHANGED vars
      PROVE  OrderInv'
  <2>1. UNCHANGED <<work, acc, flush, sub, seen, inOrder>>
    BY <1>8 DEF Ask, ReadNext, Return, vars
  <2>. QED
    BY <2>1 DEF OrderInv, HasSamples, Done, Flushing
<1>. QED
  BY <1>1, <1>2, <1>3, <1>4, <1>5, <1>6, <1>7, <1>8 DEF Next

LEMMA OrderAlways == Spec => []OrderInv
<1>. QED
  BY OrderInit, OrderStep, TypeAlways, PTL DEF Spec

\* An open bucket gives way to another one only when its three parts are kept,
\* on disk or at least in memory, whatever failed before: a failed append keeps
\* the bucket for the next attempt (rollup returns before it replaces it).
THEOREM AlwaysFlushesBeforeMove == Spec => FlushBeforeMove
<1>1. TypeInv /\ OrderInv /\ [Next]_vars => [MovesAfterFlush]_vars
  <2>. SUFFICES ASSUME TypeInv, OrderInv, Next,
                       NEW l \in Tiers, inOrder'[l],
                       acc[l] # NoBucket, acc'[l] # NoBucket, acc'[l].start # acc[l].start,
                       NEW part \in Parts
                PROVE  \E pt \in Kept(sub'[l][part]) : pt.time = acc[l].start
    BY DEF MovesAfterFlush
  <2>1. CASE FinishFlush
    <3>1. PICK k, s : k = Flushing /\ s = work[flush.by]
      OBVIOUS
    <3>2. PICK b, v : b = BucketStart(k, s.time) /\ v = s.value
      OBVIOUS
    <3>3. PICK a : a = Opened(b, v)
      OBVIOUS
    <3>4. /\ flush # NoFlush /\ flush.part = "max"
          /\ k \in Tiers /\ s \in Sample /\ TakeIn(k, s)
          /\ acc' = [acc EXCEPT ![k] = a]
      BY <2>1, <3>1, <3>2, <3>3, WhatFinishFlushDoes
    <3>5. PICK written \in BOOLEAN : PutPart(written)
      BY <2>1 DEF FinishFlush
    <3>6. PICK pt : pt = PartOf(acc[k], flush.part)
      OBVIOUS
    <3>7. \A q \in Parts : q # flush.part => sub'[k][q] = sub[k][q]
      BY <3>1, <3>4, <3>5, <3>6, WhatPutPartDoes
    <3>8. l = k
      BY <3>4 DEF TypeInv
    <3>9. inOrder[k]
      BY <3>2, <3>4, <3>8, WhatTakeInDoes
    <3>10. CASE part = "max"
      BY <3>1, <3>4, <3>5, <3>8, <3>9, <3>10, PartIsKept
    <3>11. CASE part # "max"
      <4>1. Done(k, part)
        BY <3>1, <3>4, <3>11 DEF Done, Before, Parts
      <4>2. \E q \in Kept(sub[k][part]) : q.time = acc[k].start
        BY <3>4, <3>9, <4>1 DEF OrderInv
      <4>. QED
        BY <3>4, <3>7, <3>8, <3>11, <4>2
    <3>. QED
      BY <3>10, <3>11
  <2>2. ASSUME NEW p \in Producers, Accumulate(p) PROVE FALSE
    <3>1. PICK k, b, v : k = work[p].tier /\ b = BucketStart(k, work[p].time) /\ v = work[p].value
      OBVIOUS
    <3>2. k \in Tiers
      BY <2>2, <3>1, WhatAccumulateDoes
    <3>3. PICK a \in OpenBucket :
             /\ acc' = [acc EXCEPT ![k] = a] /\ a.start = b
             /\ acc[k] = NoBucket \/ acc[k].start = b
      BY <2>2, <3>1, WhatAccumulateDoes
    <3>. QED
      BY <3>2, <3>3 DEF TypeInv
  <2>3. CASE Restart
    BY <2>3 DEF Restart
  <2>4. ASSUME acc' = acc PROVE FALSE
    BY <2>4
  <2>. QED
    BY <2>1, <2>2, <2>3, <2>4 DEF Next, Consume, BeginFlush, AppendPart, FailPart, Ask, ReadNext, Return
<1>. QED
  BY <1>1, TypeAlways, OrderAlways, PTL DEF Spec, FlushBeforeMove

-----------------------------------------------------------------------------
(* Without failures, what is on disk *)

\* The buckets of a tier that have samples, and those of them of which a part
\* has been put into its ring.
Sampled(k) == {c \in Buckets(k) : HasSamples(k, c)}
Closed(k, part) ==
    {c \in Sampled(k) : c < acc[k].start \/ (c = acc[k].start /\ Done(k, part))}

\* The rings of tier k hold what has been put into them.
RingsOK(k) ==
    /\ acc[k] = NoBucket => Sampled(k) = {}
    /\ \A part \in Parts : RingOK(k, sub[k][part], Closed(k, part))

RingsInv == \A k \in Tiers : faults = 0 /\ inOrder[k] => RingsOK(k)

LEMMA NotDoneYet ==
    ASSUME TypeInv, NEW k, NEW part, flush # NoFlush => part = flush.part
    PROVE  ~Done(k, part)
BY DEF Done, Before

LEMMA SampledAreNumbers ==
    ASSUME NEW k \in Tiers
    PROVE  Sampled(k) \subseteq Buckets(k) /\ Sampled(k) \subseteq Nat
BY BucketFacts DEF Sampled

\* What a sample changes in the buckets that have samples.
LEMMA SampledAfter ==
    ASSUME TypeInv, NEW k \in Tiers, NEW s \in Sample, TakeIn(k, s),
           NEW b, b = BucketStart(k, s.time)
    PROVE  /\ Sampled(k)' = Sampled(k) \cup {b}
           /\ \A l \in Tiers \ {k} : Sampled(l)' = Sampled(l)
           /\ inOrder'[k] => inOrder[k]
           /\ inOrder'[k] => \A c \in Sampled(k) : c <= b
           /\ \A l \in Tiers \ {k} : seen'[l] = seen[l] /\ inOrder'[l] = inOrder[l]
<1>1. /\ b \in Buckets(k)
      /\ \A l \in Tiers \ {k} : seen'[l] = seen[l] /\ inOrder'[l] = inOrder[l]
      /\ inOrder'[k] => inOrder[k]
  BY WhatTakeInDoes
<1>2. /\ \A l \in Tiers : \A c \in Buckets(l) :
            (HasSamples(l, c) \/ (l = k /\ c = b)) = HasSamples(l, c)'
      /\ inOrder'[k] => \A c \in Buckets(k) : HasSamples(k, c) => c <= b
  BY SamplesTakenIn
<1>3. Sampled(k)' = Sampled(k) \cup {b}
  <2>1. \A c \in Buckets(k) : (HasSamples(k, c) \/ c = b) = HasSamples(k, c)'
    BY <1>2, Zenon
  <2>. QED
    BY <1>1, <2>1, Zenon DEF Sampled
<1>4. ASSUME NEW l \in Tiers \ {k} PROVE Sampled(l)' = Sampled(l)
  BY <1>1, <1>4 DEF Sampled, HasSamples
<1>5. inOrder'[k] => \A c \in Sampled(k) : c <= b
  BY <1>2 DEF Sampled
<1>. QED
  BY <1>1, <1>3, <1>4, <1>5

\* The put of a flush, and the set of buckets that it leaves its ring with.
LEMMA FlushedInOrder ==
    ASSUME TypeInv, RingsInv, flush # NoFlush,
           NEW written \in BOOLEAN, PutPart(written),
           NEW k, k = Flushing, NEW pt, pt = PartOf(acc[k], flush.part), faults = 0, inOrder[k]
    PROVE  written => RingOK(k, sub'[k][flush.part], Closed(k, flush.part) \cup {acc[k].start})
<1>1. /\ k \in Tiers /\ acc[k].start \in Nat
      /\ pt \in Point /\ pt.time = acc[k].start
      /\ sub'[k][flush.part] = Put(k, sub[k][flush.part], pt, written)
  BY WhatPutPartDoes
<1>2. flush.part \in Parts
  BY DEF TypeInv
<1>3. PICK D, ring : D = Closed(k, flush.part) /\ ring = sub[k][flush.part]
  OBVIOUS
<1>4. RingOK(k, ring, D)
  BY <1>1, <1>2, <1>3 DEF RingsInv, RingsOK
<1>5. D \subseteq Nat
  BY <1>1, <1>3, SampledAreNumbers DEF Closed
<1>6. ~Done(k, flush.part)
  BY NotDoneYet
<1>7. \A d \in D : d < pt.time
  BY <1>1, <1>3, <1>6 DEF Closed
<1>8. written => RingOK(k, Put(k, ring, pt, written), D \cup {pt.time})
  BY <1>1, <1>4, <1>5, <1>7, PutInOrder
<1>. QED
  BY <1>1, <1>3, <1>8

LEMMA RingsInit == Init => RingsInv
<1>. SUFFICES ASSUME Init, NEW k \in Tiers PROVE RingsOK(k)
  BY DEF RingsInv
<1>1. Sampled(k) = {}
  BY DEF Init, Sampled, HasSamples, ValuesIn
<1>2. EmptyRing \in Rings
  BY NoPoints, RollupAssumption DEF EmptyRing, Rings
<1>3. RingOK(k, EmptyRing, {})
  BY <1>2, NoPoints DEF RingOK, EmptyRing, OnDisk
<1>4. ASSUME NEW part \in Parts PROVE RingOK(k, sub[k][part], Closed(k, part))
  <2>1. sub[k][part] = EmptyRing
    BY DEF Init
  <2>2. Closed(k, part) = {}
    BY <1>1 DEF Closed
  <2>. QED
    BY <1>3, <2>1, <2>2
<1>. QED
  BY <1>1, <1>4 DEF RingsOK

\* A tier that a step does not change.
LEMMA RingsKept ==
    ASSUME RingsInv, faults' = 0, faults' = faults, NEW k \in Tiers, inOrder'[k],
           acc'[k] = acc[k], seen'[k] = seen[k], inOrder'[k] = inOrder[k], sub'[k] = sub[k],
           \A part \in Parts : Done(k, part)' <=> Done(k, part)
    PROVE  RingsOK(k)'
<1>1. RingsOK(k)
  BY DEF RingsInv
<1>2. Sampled(k)' = Sampled(k)
  BY DEF Sampled, HasSamples
<1>3. ASSUME NEW part \in Parts PROVE Closed(k, part)' = Closed(k, part)
  BY <1>2 DEF Closed
<1>. QED
  BY <1>1, <1>2, <1>3 DEF RingsOK

\* The first sample of a bucket, and the next ones.
LEMMA RingsAccumulate ==
    ASSUME TypeInv, RingsInv, NEW p \in Producers, Accumulate(p),
           NEW l \in Tiers, faults' = 0, inOrder'[l]
    PROVE  RingsOK(l)'
<1>1. PICK k, b, v : k = work[p].tier /\ b = BucketStart(k, work[p].time) /\ v = work[p].value
  OBVIOUS
<1>2. /\ k \in Tiers /\ b \in Buckets(k) /\ b \in Nat /\ flush = NoFlush /\ flush' = NoFlush
      /\ work[p] \in Sample /\ TakeIn(k, work[p])
  BY <1>1, WhatAccumulateDoes
<1>3. PICK a \in OpenBucket :
         /\ acc' = [acc EXCEPT ![k] = a] /\ a # NoBucket /\ a.start = b
         /\ acc[k] = NoBucket \/ (acc[k] # NoBucket /\ acc[k].start = b)
  BY <1>1, WhatAccumulateDoes
<1>4. sub' = sub /\ faults' = faults
  BY DEF Accumulate
<1>5. PICK s \in Sample : s = work[p]
  BY <1>2
<1>6. \A part : ~Done(l, part) /\ ~Done(l, part)'
  BY <1>2 DEF Done
<1>7. /\ Sampled(k)' = Sampled(k) \cup {b}
      /\ inOrder'[k] => inOrder[k]
      /\ \A m \in Tiers \ {k} : seen'[m] = seen[m] /\ inOrder'[m] = inOrder[m]
  BY <1>1, <1>2, <1>5, SampledAfter
<1>8. acc \in [Tiers -> OpenBucket \cup {NoBucket}]
  BY DEF TypeInv
<1>9. CASE l # k
  <2>1. acc'[l] = acc[l]
    BY <1>3, <1>8, <1>9
  <2>2. seen'[l] = seen[l] /\ inOrder'[l] = inOrder[l] /\ sub'[l] = sub[l]
    BY <1>4, <1>7, <1>9
  <2>3. \A part \in Parts : Done(l, part)' <=> Done(l, part)
    BY <1>6
  <2>. QED
    BY <1>4, <2>1, <2>2, <2>3, RingsKept
<1>10. CASE l = k
  <2>1. acc'[k] = a /\ acc'[k] # NoBucket
    BY <1>2, <1>3, <1>8
  <2>2. RingsOK(k)
    BY <1>4, <1>7, <1>10 DEF RingsInv
  <2>3. PICK S \in SUBSET Nat : S = Sampled(k)
    BY <1>2, SampledAreNumbers
  <2>4. \A part : Closed(k, part)' = {c \in S \cup {b} : c < b}
    BY <1>3, <1>6, <1>7, <1>10, <2>1, <2>3 DEF Closed
  <2>5. \A part : Closed(k, part) = {c \in S : c < acc[k].start}
    BY <1>6, <1>10, <2>3 DEF Closed
  <2>6. {c \in S \cup {b} : c < b} = {c \in S : c < acc[k].start}
    <3>1. CASE acc[k] = NoBucket
      <4>1. S = {}
        BY <2>2, <2>3, <3>1 DEF RingsOK
      <4>. QED
        BY <1>2, <4>1
    <3>2. CASE acc[k] # NoBucket
      <4>1. acc[k].start = b
        BY <1>3, <3>2
      <4>. QED
        BY <1>2, <2>3, <4>1
    <3>. QED
      BY <3>1, <3>2
  <2>. QED
    BY <1>4, <1>10, <2>1, <2>2, <2>4, <2>5, <2>6, SMTT(30) DEF RingsOK
<1>. QED
  BY <1>9, <1>10

\* The minimum, then the average.
LEMMA RingsAppendPart ==
    ASSUME TypeInv, OrderInv, RingsInv, AppendPart, NEW l \in Tiers, faults' = 0, inOrder'[l]
    PROVE  RingsOK(l)'
<1>1. flush # NoFlush /\ flush.part \in {"min", "avg"}
  <2>1. NoFlush.part = "none"
    BY DEF NoFlush
  <2>. QED
    BY <2>1 DEF AppendPart
<1>stored. PICK written \in BOOLEAN : written = TRUE /\ PutPart(written)
  BY DEF AppendPart
<1>2. PutPart(written)
  BY <1>stored
<1>3. PICK k : k = Flushing
  OBVIOUS
<1>. PICK pt : pt = PartOf(acc[k], flush.part)
  OBVIOUS
<1>4. /\ k \in Tiers /\ acc[k] # NoBucket /\ acc[k].start \in Buckets(k) /\ acc[k].start \in Nat
      /\ sub' \in [Tiers -> [Parts -> Rings]]
      /\ \A m \in Tiers, part \in Parts :
            m # k \/ part # flush.part => sub'[m][part] = sub[m][part]
  <2>1. k \in Tiers /\ acc[k] # NoBucket /\ acc[k].start \in Buckets(k) /\ acc[k].start \in Nat
    BY <1>1, <1>2, <1>3, WhatPutPartDoes
  <2>2. sub' \in [Tiers -> [Parts -> Rings]]
    BY <1>1, <1>2, <1>3, WhatPutPartDoes
  <2>3. ASSUME NEW m \in Tiers, NEW part \in Parts, m # k \/ part # flush.part
        PROVE  sub'[m][part] = sub[m][part]
    BY <2>3, <1>1, <1>2, <1>3, WhatPutPartDoes
  <2>. QED
    BY <2>1, <2>2, <2>3
<1>5. sub \in [Tiers -> [Parts -> Rings]]
  BY DEF TypeInv
<1>6. /\ flush' = [flush EXCEPT !.part = IF flush.part = "min" THEN "avg" ELSE "max"]
      /\ UNCHANGED <<work, acc, seen, inOrder, faults>>
  BY DEF AppendPart
<1>7. flush'.by = flush.by /\ flush'.part = IF flush.part = "min" THEN "avg" ELSE "max"
  BY <1>1, <1>6 DEF TypeInv
<1>8. flush' # NoFlush /\ Flushing' = Flushing
  <2>1. NoFlush.part = "none"
    BY DEF NoFlush
  <2>2. Flushing' = Flushing
    BY <1>6, <1>7 DEF Flushing
  <2>. QED
    BY <1>7, <2>1, <2>2
<1>9. ASSUME NEW part \in Parts
      PROVE  Done(l, part)' <=> Done(l, part) \/ (l = k /\ part = flush.part)
  <2>1. Before(part, flush'.part) <=> Before(part, flush.part) \/ part = flush.part
    BY <1>1, <1>7 DEF Before, Parts
  <2>. QED
    BY <1>1, <1>3, <1>8, <2>1 DEF Done
<1>10. Sampled(l)' = Sampled(l)
  BY <1>6 DEF Sampled, HasSamples
<1>11. CASE l # k
  <2>1. sub'[l] = sub[l]
    BY <1>4, <1>5, <1>11
  <2>2. \A part \in Parts : Done(l, part)' <=> Done(l, part)
    BY <1>9, <1>11
  <2>. QED
    BY <1>6, <2>1, <2>2, RingsKept
<1>12. CASE l = k
  <2>1. RingsOK(k) /\ faults = 0 /\ inOrder[k]
    BY <1>6, <1>12 DEF RingsInv
  <2>2. ASSUME NEW part \in Parts PROVE RingOK(k, sub'[k][part], Closed(k, part)')
    <3>1. CASE part # flush.part
      <4>1. sub'[k][part] = sub[k][part]
        BY <1>4, <3>1
      <4>2. Done(k, part)' <=> Done(k, part)
        BY <1>9, <1>12, <3>1
      <4>3. Closed(k, part)' = Closed(k, part)
        BY <1>6, <1>10, <1>12, <4>2 DEF Closed
      <4>. QED
        BY <2>1, <4>1, <4>3 DEF RingsOK
    <3>2. CASE part = flush.part
      <4>1. RingOK(k, sub'[k][flush.part], Closed(k, flush.part) \cup {acc[k].start})
        <5>1. written => RingOK(k, sub'[k][flush.part], Closed(k, flush.part) \cup {acc[k].start})
          BY <1>1, <1>2, <1>3, <2>1, FlushedInOrder
        <5>. QED
          BY <1>stored, <5>1
      <4>2. Done(k, part)' /\ ~Done(k, part)
        BY <1>9, <1>12, <3>2, NotDoneYet
      <4>3. acc[k].start \in Sampled(k)
        BY <1>4 DEF OrderInv, Sampled
      <4>4. PICK S \in SUBSET Nat : S = Sampled(k)
        BY <1>4, SampledAreNumbers
      <4>5. Closed(k, part)' = {c \in S : c < acc[k].start \/ c = acc[k].start}
        BY <1>6, <1>10, <1>12, <4>2, <4>4 DEF Closed
      <4>6. Closed(k, part) = {c \in S : c < acc[k].start}
        BY <4>2, <4>4 DEF Closed
      <4>7. Closed(k, part)' = Closed(k, part) \cup {acc[k].start}
        BY <4>3, <4>4, <4>5, <4>6
      <4>. QED
        BY <3>2, <4>1, <4>7
    <3>. QED
      BY <3>1, <3>2
  <2>. QED
    BY <1>4, <1>6, <1>12, <2>2 DEF RingsOK
<1>. QED
  BY <1>11, <1>12

\* The maximum, and the bucket of the sample in hand.
LEMMA RingsFinishFlush ==
    ASSUME TypeInv, OrderInv, RingsInv, FinishFlush, NEW l \in Tiers, faults' = 0, inOrder'[l]
    PROVE  RingsOK(l)'
<1>1. PICK k, s : k = Flushing /\ s = work[flush.by]
  OBVIOUS
<1>2. PICK b, v : b = BucketStart(k, s.time) /\ v = s.value
  OBVIOUS
<1>3. PICK a : a = Opened(b, v)
  OBVIOUS
<1>4. /\ flush # NoFlush /\ flush' = NoFlush /\ flush.part = "max"
      /\ k \in Tiers /\ s \in Sample /\ TakeIn(k, s)
      /\ b \in Buckets(k) /\ b \in Nat /\ b # acc[k].start
      /\ acc' = [acc EXCEPT ![k] = a] /\ a # NoBucket /\ a.start = b
  BY <1>1, <1>2, <1>3, WhatFinishFlushDoes
<1>stored. PICK written \in BOOLEAN : written = TRUE /\ PutPart(written)
  BY DEF FinishFlush
<1>5. PutPart(written)
  BY <1>stored
<1>6. PICK pt : pt = PartOf(acc[k], flush.part)
  OBVIOUS
<1>7. /\ acc[k] # NoBucket /\ acc[k].start \in Buckets(k) /\ acc[k].start \in Nat
      /\ sub' \in [Tiers -> [Parts -> Rings]]
      /\ \A m \in Tiers, part \in Parts :
            m # k \/ part # flush.part => sub'[m][part] = sub[m][part]
  <2>1. acc[k] # NoBucket /\ acc[k].start \in Buckets(k) /\ acc[k].start \in Nat
    BY <1>1, <1>4, <1>5, <1>6, WhatPutPartDoes
  <2>2. sub' \in [Tiers -> [Parts -> Rings]]
    BY <1>1, <1>4, <1>5, <1>6, WhatPutPartDoes
  <2>3. ASSUME NEW m \in Tiers, NEW part \in Parts, m # k \/ part # flush.part
        PROVE  sub'[m][part] = sub[m][part]
    BY <2>3, <1>1, <1>4, <1>5, <1>6, WhatPutPartDoes
  <2>. QED
    BY <2>1, <2>2, <2>3
<1>8. sub \in [Tiers -> [Parts -> Rings]] /\ acc \in [Tiers -> OpenBucket \cup {NoBucket}]
  BY DEF TypeInv
<1>9. faults' = faults
  BY DEF FinishFlush
<1>10. /\ Sampled(k)' = Sampled(k) \cup {b}
       /\ inOrder'[k] => inOrder[k]
       /\ inOrder'[k] => \A c \in Sampled(k) : c <= b
       /\ \A m \in Tiers \ {k} : seen'[m] = seen[m] /\ inOrder'[m] = inOrder[m]
  BY <1>2, <1>4, SampledAfter
<1>11. \A part : ~Done(l, part)'
  BY <1>4 DEF Done
<1>12. CASE l # k
  <2>1. sub'[l] = sub[l] /\ acc'[l] = acc[l]
    BY <1>4, <1>7, <1>8, <1>12
  <2>2. seen'[l] = seen[l] /\ inOrder'[l] = inOrder[l]
    BY <1>10, <1>12
  <2>3. \A part : ~Done(l, part)
    BY <1>1, <1>12 DEF Done
  <2>. QED
    BY <1>9, <1>11, <2>1, <2>2, <2>3, RingsKept
<1>13. CASE l = k
  <2>1. acc'[k] = a /\ acc'[k] # NoBucket
    BY <1>4, <1>8
  <2>2. RingsOK(k) /\ faults = 0 /\ inOrder[k] /\ inOrder'[k]
    BY <1>4, <1>9, <1>10, <1>13 DEF RingsInv
  <2>3. PICK S \in SUBSET Nat : S = Sampled(k)
    BY <1>4, SampledAreNumbers
  <2>. PICK o \in Nat : o = acc[k].start
    BY <1>7
  <2>4. o \in S /\ \A c \in S : c <= o /\ c <= b
    BY <1>4, <1>7, <1>10, <2>2, <2>3 DEF OrderInv, Sampled
  <2>5. o < b
    <3>1. o <= b
      BY <2>4
    <3>. QED
      BY <1>4, <3>1
  <2>6. \A part : Closed(k, part)' = {c \in S \cup {b} : c < b}
    BY <1>4, <1>10, <1>11, <1>13, <2>1, <2>3 DEF Closed
  <2>7. {c \in S \cup {b} : c < b} = S
    BY <1>4, <2>3, <2>4, <2>5
  <2>8. ASSUME NEW part \in Parts PROVE RingOK(k, sub'[k][part], Closed(k, part)')
    <3>1. CASE part # flush.part
      <4>1. Done(k, part)
        BY <1>1, <1>4, <3>1 DEF Done, Before, Parts
      <4>2. Closed(k, part) = {c \in S : c < o \/ c = o}
        BY <2>3, <4>1 DEF Closed
      <4>3. Closed(k, part) = S
        BY <2>3, <2>4, <4>2
      <4>4. sub'[k][part] = sub[k][part]
        BY <1>4, <1>7, <3>1
      <4>. QED
        BY <2>2, <2>6, <2>7, <4>3, <4>4 DEF RingsOK
    <3>2. CASE part = flush.part
      <4>1. RingOK(k, sub'[k][flush.part], Closed(k, flush.part) \cup {acc[k].start})
        <5>1. written => RingOK(k, sub'[k][flush.part], Closed(k, flush.part) \cup {acc[k].start})
          BY <1>1, <1>4, <1>5, <1>6, <2>2, FlushedInOrder
        <5>. QED
          BY <1>stored, <5>1
      <4>2. ~Done(k, part)
        BY <3>2, NotDoneYet
      <4>3. Closed(k, part) = {c \in S : c < o}
        BY <2>3, <4>2 DEF Closed
      <4>4. {c \in S : c < o} \cup {o} = S
        BY <2>3, <2>4
      <4>. QED
        BY <2>6, <2>7, <3>2, <4>1, <4>3, <4>4
    <3>. QED
      BY <3>1, <3>2
  <2>. QED
    BY <1>13, <2>1, <2>8 DEF RingsOK
<1>. QED
  BY <1>12, <1>13

LEMMA RingsStep == TypeInv /\ OrderInv /\ RingsInv /\ [Next]_vars => RingsInv'
<1>. SUFFICES ASSUME TypeInv, OrderInv, RingsInv, [Next]_vars,
                     NEW l \in Tiers, faults' = 0, inOrder'[l]
              PROVE  RingsOK(l)'
  BY DEF RingsInv
<1>1. ASSUME NEW p \in Producers, NEW r \in Readings, Consume(p, r) PROVE RingsOK(l)'
  <2>1. flush # NoFlush => work'[flush.by] = work[flush.by]
    BY <1>1, SampleFacts DEF Consume, TypeInv
  <2>2. UNCHANGED <<acc, flush, sub, seen, inOrder, faults>>
    BY <1>1 DEF Consume
  <2>3. \A part \in Parts : Done(l, part)' <=> Done(l, part)
    BY <2>1, <2>2 DEF Done, Flushing
  <2>. QED
    BY <2>2, <2>3, RingsKept
<1>2. ASSUME NEW p \in Producers, Accumulate(p) PROVE RingsOK(l)'
  BY <1>2, RingsAccumulate
<1>3. ASSUME NEW p \in Producers, BeginFlush(p) PROVE RingsOK(l)'
  <2>1. flush = NoFlush /\ flush'.part = "min" /\ UNCHANGED <<acc, sub, seen, inOrder, faults>>
    BY <1>3 DEF BeginFlush
  <2>2. \A part \in Parts : Done(l, part)' <=> Done(l, part)
    BY <2>1 DEF Done, Before
  <2>. QED
    BY <2>1, <2>2, RingsKept
<1>4. CASE AppendPart
  BY <1>4, RingsAppendPart
<1>5. CASE FinishFlush
  BY <1>5, RingsFinishFlush
<1>6. faults \in Nat
  BY RollupAssumption DEF TypeInv
<1>7. CASE FailPart
  <2>1. faults' = faults + 1
    BY <1>7 DEF FailPart
  <2>. QED
    BY <1>6, <2>1
<1>8. CASE Restart
  <2>1. faults' = faults + 1
    BY <1>8 DEF Restart
  <2>. QED
    BY <1>6, <2>1
<1>9. ASSUME \/ \E k \in Tiers : Ask(k)
             \/ ReadNext \/ Return \/ UNCHANGED vars
      PROVE  RingsOK(l)'
  <2>1. UNCHANGED <<work, acc, flush, sub, seen, inOrder, faults>>
    BY <1>9 DEF Ask, ReadNext, Return, vars
  <2>2. \A part \in Parts : Done(l, part)' <=> Done(l, part)
    BY <2>1 DEF Done, Flushing
  <2>. QED
    BY <2>1, <2>2, RingsKept
<1>. QED
  BY <1>1, <1>2, <1>3, <1>4, <1>5, <1>7, <1>8, <1>9 DEF Next

LEMMA RingsAlways == Spec => []RingsInv
<1>. QED
  BY RingsInit, RingsStep, TypeAlways, OrderAlways, PTL DEF Spec

\* Without failures and as long as the samples come in order, a bucket that has
\* samples and precedes the open one by less than the ring's length is on disk
\* in all three parts, whatever the other tier, the other producers and the
\* wrap-round of the ring do (rollup and appendAgg over series.write).
THEOREM ClosedBucketsAlwaysOnDisk == Spec => []ClosedBucketsOnDisk
<1>1. TypeInv /\ RingsInv => ClosedBucketsOnDisk
  <2>. SUFFICES ASSUME TypeInv, RingsInv, NEW k \in Tiers, faults = 0, inOrder[k],
                       NEW b \in Buckets(k), NEW part \in Parts,
                       HasSamples(k, b), b < acc[k].start,
                       ChunkOf(k, b) > ChunkOf(k, acc[k].start) - Slots
                PROVE  Stored(k, part, b)
    BY DEF ClosedBucketsOnDisk
  <2>1. PICK D : D = Closed(k, part)
    OBVIOUS
  <2>2. RingsOK(k) /\ b \in Sampled(k)
    BY DEF RingsInv, Sampled
  <2>3. b \in D /\ RingOK(k, sub[k][part], D)
    BY <2>1, <2>2 DEF Closed, RingsOK
  <2>4. PICK top \in D : /\ top = Last(sub[k][part].pts).time
                         /\ ChunkOf(k, b) > ChunkOf(k, top) - Slots =>
                               \E q \in OnDisk(sub[k][part]) : q.time = b
    BY <2>3 DEF RingOK
  <2>5. acc[k] # NoBucket /\ acc[k].start \in Nat
    <3>1. acc[k] # NoBucket
      BY <2>2 DEF RingsOK
    <3>. QED
      BY <3>1, BucketFacts DEF TypeInv
  <2>6. top \in Nat /\ top <= acc[k].start /\ b \in Nat
    BY <2>1, <2>2, <2>5, SampledAreNumbers DEF Closed
  <2>7. /\ ChunkOf(k, top) <= ChunkOf(k, acc[k].start)
        /\ ChunkOf(k, top) \in Nat /\ ChunkOf(k, acc[k].start) \in Nat /\ ChunkOf(k, b) \in Nat
        /\ Slots \in Nat
    BY <2>5, <2>6, ChunkOfMonotone, ChunkOfNat, RollupAssumption
  <2>8. ChunkOf(k, b) > ChunkOf(k, top) - Slots
    BY <2>7
  <2>. QED
    BY <2>4, <2>8 DEF Stored
<1>. QED
  BY <1>1, TypeAlways, RingsAlways, PTL

-----------------------------------------------------------------------------
(* Sums *)

\* Induction on the subsets of a finite set: what holds of a set that holds of
\* all the smaller ones holds of the whole.
LEMMA BySubsets ==
    ASSUME NEW D, IsFiniteSet(D), NEW R,
           \A s \in SUBSET D :
              (\A t \in SUBSET D : Cardinality(t) < Cardinality(s) => t \in R) => s \in R
    PROVE  D \in R
<1>. DEFINE Wrong == {Cardinality(s) : s \in (SUBSET D) \ R}
<1>1. ASSUME Wrong # {} PROVE FALSE
  <2>1. Wrong \subseteq Nat
    BY FS_Subset, FS_CardinalityType
  <2>2. PICK m \in Wrong : \A k \in Wrong : m <= k
    BY <1>1, <2>1, LeastNumber
  <2>3. PICK s \in (SUBSET D) \ R : m = Cardinality(s)
    OBVIOUS
  <2>4. ASSUME NEW t \in SUBSET D, Cardinality(t) < Cardinality(s) PROVE t \in R
    <3>. SUFFICES ASSUME t \notin R PROVE FALSE
      OBVIOUS
    <3>1. Cardinality(t) \in Wrong
      OBVIOUS
    <3>2. m <= Cardinality(t) /\ m \in Nat /\ Cardinality(t) \in Nat
      BY <2>1, <2>2, <3>1
    <3>. QED
      BY <2>3, <2>4, <3>2
  <2>. QED
    BY <2>3, <2>4
<1>. QED
  BY <1>1

\* One turn of the fold that SumFunction is.
Turn(f, g, s) == IF s = {} THEN 0 ELSE f[CHOOSE x \in s : TRUE] + g[s \ {CHOOSE x \in s : TRUE}]

SumsOf(f, g) == g = [s \in SUBSET (DOMAIN f) |-> Turn(f, g, s)]

LEMMA SumIsFold ==
    ASSUME NEW f
    PROVE  SumFunction(f) = (CHOOSE g : SumsOf(f, g))[DOMAIN f]
BY DEF SumFunction, SumFunctionOnSet, FoldFunctionOnSet, MapThenFoldSet, SumsOf, Turn

Chosen(s) == CHOOSE x \in s : TRUE

LEMMA SmallerRest ==
    ASSUME NEW D, IsFiniteSet(D), NEW s \in SUBSET D, s # {}
    PROVE  /\ Chosen(s) \in s /\ s \ {Chosen(s)} \in SUBSET D
           /\ Cardinality(s) \in Nat /\ Cardinality(s \ {Chosen(s)}) \in Nat
           /\ Cardinality(s \ {Chosen(s)}) < Cardinality(s)
<1>1. Chosen(s) \in s
  BY DEF Chosen
<1>2. IsFiniteSet(s)
  BY FS_Subset
<1>3. Cardinality(s) \in Nat /\ Cardinality(s \ {Chosen(s)}) = Cardinality(s) - 1
  BY <1>1, <1>2, FS_CardinalityType, FS_RemoveElement
<1>4. Cardinality(s \ {Chosen(s)}) \in Nat
  BY <1>2, FS_Subset, FS_CardinalityType
<1>. QED
  BY <1>1, <1>3, <1>4

\* A function that is right on the sets of less than n elements.
RightBelow(f, g, n) ==
    /\ g = [s \in SUBSET (DOMAIN f) |-> g[s]]
    /\ \A s \in SUBSET (DOMAIN f) : Cardinality(s) < n => g[s] = Turn(f, g, s)

LEMMA NextRight ==
    ASSUME NEW f, IsFiniteSet(DOMAIN f), NEW g, NEW n \in Nat, RightBelow(f, g, n)
    PROVE  \E h : RightBelow(f, h, n + 1)
<1>. DEFINE h == [s \in SUBSET (DOMAIN f) |-> IF Cardinality(s) < n THEN g[s] ELSE Turn(f, g, s)]
<1>1. ASSUME NEW s \in SUBSET (DOMAIN f), Cardinality(s) < n + 1
      PROVE  h[s] = Turn(f, h, s)
  <2>1. h[s] = Turn(f, g, s)
    BY DEF RightBelow
  <2>2. CASE s = {}
    BY <2>1, <2>2 DEF Turn
  <2>3. CASE s # {}
    <3>1. /\ s \ {Chosen(s)} \in SUBSET (DOMAIN f) /\ Cardinality(s) \in Nat
          /\ Cardinality(s \ {Chosen(s)}) \in Nat
          /\ Cardinality(s \ {Chosen(s)}) < Cardinality(s)
      BY <2>3, SmallerRest
    <3>2. h[s \ {Chosen(s)}] = g[s \ {Chosen(s)}]
      BY <1>1, <3>1
    <3>. HIDE DEF h
    <3>. QED
      BY <2>1, <2>3, <3>2 DEF Turn, Chosen
  <2>. QED
    BY <2>2, <2>3
<1>2. h = [s \in SUBSET (DOMAIN f) |-> h[s]]
  OBVIOUS
<1>. HIDE DEF h
<1>. QED
  BY <1>1, <1>2 DEF RightBelow

LEMMA SomeRight ==
    ASSUME NEW f, IsFiniteSet(DOMAIN f), NEW n \in Nat
    PROVE  \E g : RightBelow(f, g, n)
<1>. DEFINE Wrong == {m \in Nat : ~ \E g : RightBelow(f, g, m)}
<1>. SUFFICES ASSUME Wrong # {} PROVE FALSE
  OBVIOUS
<1>1. PICK m \in Wrong : \A k \in Wrong : m <= k
  BY LeastNumber
<1>2. CASE m = 0
  <2>1. \A s \in SUBSET (DOMAIN f) : Cardinality(s) \in Nat
    BY FS_Subset, FS_CardinalityType
  <2>2. RightBelow(f, [s \in SUBSET (DOMAIN f) |-> 0], 0)
    BY <2>1 DEF RightBelow
  <2>. QED
    BY <1>2, <2>2
<1>3. CASE m # 0
  <2>1. m - 1 \in Nat /\ m - 1 \notin Wrong /\ (m - 1) + 1 = m
    BY <1>1, <1>3
  <2>2. PICK g : RightBelow(f, g, m - 1)
    BY <2>1
  <2>. QED
    BY <2>1, <2>2, NextRight
<1>. QED
  BY <1>2, <1>3

LEMMA SumsExist ==
    ASSUME NEW f, IsFiniteSet(DOMAIN f)
    PROVE  \E g : SumsOf(f, g) /\ SumFunction(f) = g[DOMAIN f]
<1>1. Cardinality(DOMAIN f) \in Nat
  BY FS_CardinalityType
<1>2. PICK g : RightBelow(f, g, Cardinality(DOMAIN f) + 1)
  BY <1>1, SomeRight
<1>3. \A s \in SUBSET (DOMAIN f) : Cardinality(s) < Cardinality(DOMAIN f) + 1
  <2>. SUFFICES ASSUME NEW s \in SUBSET (DOMAIN f) PROVE Cardinality(s) < Cardinality(DOMAIN f) + 1
    OBVIOUS
  <2>1. Cardinality(s) \in Nat /\ Cardinality(s) <= Cardinality(DOMAIN f)
    BY FS_Subset, FS_CardinalityType
  <2>. QED
    BY <1>1, <2>1
<1>4. SumsOf(f, g)
  BY <1>2, <1>3 DEF RightBelow, SumsOf
<1>5. PICK h : h = CHOOSE x : SumsOf(f, x)
  OBVIOUS
<1>. QED
  BY <1>4, <1>5, SumIsFold

\* What a sum gains when one of its terms does.
LEMMA SumGains ==
    ASSUME NEW D, IsFiniteSet(D), NEW f \in [D -> Nat], NEW v \in D, NEW w \in Nat,
           NEW more, more = [f EXCEPT ![v] = @ + w]
    PROVE  SumFunction(f) \in Nat /\ SumFunction(more) = SumFunction(f) + w
<1>1. DOMAIN f = D /\ DOMAIN more = D
  OBVIOUS
<1>2. PICK g : SumsOf(f, g) /\ SumFunction(f) = g[D]
  BY <1>1, SumsExist
<1>3. PICK h : SumsOf(more, h) /\ SumFunction(more) = h[D]
  BY <1>1, SumsExist
<1>. DEFINE Gain(s) == IF v \in s THEN w ELSE 0
            Right(s) == g[s] \in Nat /\ h[s] = g[s] + Gain(s)
            R == {s \in SUBSET D : Right(s)}
<1>4. ASSUME NEW s \in SUBSET D,
             \A t \in SUBSET D : Cardinality(t) < Cardinality(s) => Right(t)
      PROVE  Right(s)
  <2>1. g[s] = Turn(f, g, s) /\ h[s] = Turn(more, h, s)
    BY <1>1, <1>2, <1>3 DEF SumsOf
  <2>2. CASE s = {}
    BY <2>1, <2>2 DEF Turn
  <2>3. CASE s # {}
    <3>. PICK x, rest : x = Chosen(s) /\ rest = s \ {x}
      OBVIOUS
    <3>1. x \in s /\ rest \in SUBSET D /\ Right(rest)
      BY <1>4, <2>3, SmallerRest
    <3>2. g[s] = f[x] + g[rest] /\ h[s] = more[x] + h[rest]
      BY <2>1, <2>3 DEF Turn, Chosen
    <3>3. f[x] \in Nat /\ more[x] = f[x] + (IF x = v THEN w ELSE 0)
      BY <3>1
    <3>4. g[rest] \in Nat /\ h[rest] = g[rest] + Gain(rest)
      BY <3>1
    <3>5. CASE x = v
      <4>1. Gain(rest) = 0 /\ Gain(s) = w
        BY <3>1, <3>5
      <4>. HIDE DEF Gain
      <4>. QED
        BY <3>2, <3>3, <3>4, <3>5, <4>1
    <3>6. CASE x # v
      <4>1. Gain(rest) = Gain(s) /\ Gain(s) \in Nat
        BY <3>1, <3>6
      <4>. HIDE DEF Gain
      <4>. QED
        BY <3>2, <3>3, <3>4, <3>6, <4>1
    <3>. QED
      BY <3>5, <3>6
  <2>. QED
    BY <2>2, <2>3
<1>. HIDE DEF Right
<1>5. D \in R
  <2>1. \A s \in SUBSET D :
           (\A t \in SUBSET D : Cardinality(t) < Cardinality(s) => t \in R) => s \in R
    BY <1>4
  <2>. HIDE DEF R
  <2>. QED
    BY <2>1, BySubsets
<1>6. Right(D)
  BY <1>5
<1>. QED
  BY <1>2, <1>3, <1>6 DEF Right

\* A sum of nothing.
LEMMA SumOfNothing ==
    ASSUME NEW D, IsFiniteSet(D), NEW f, f = [d \in D |-> 0]
    PROVE  SumFunction(f) = 0
<1>1. DOMAIN f = D
  OBVIOUS
<1>2. PICK g : SumsOf(f, g) /\ SumFunction(f) = g[D]
  BY <1>1, SumsExist
<1>. DEFINE R == {s \in SUBSET D : g[s] = 0}
<1>3. ASSUME NEW s \in SUBSET D,
             \A t \in SUBSET D : Cardinality(t) < Cardinality(s) => t \in R
      PROVE  s \in R
  <2>1. g[s] = Turn(f, g, s)
    BY <1>1, <1>2 DEF SumsOf
  <2>2. CASE s = {}
    BY <2>1, <2>2 DEF Turn
  <2>3. CASE s # {}
    <3>. PICK x, rest : x = Chosen(s) /\ rest = s \ {x}
      OBVIOUS
    <3>1. x \in s /\ rest \in SUBSET D /\ rest \in R
      BY <1>3, <2>3, SmallerRest
    <3>2. g[s] = f[x] + g[rest]
      BY <2>1, <2>3 DEF Turn, Chosen
    <3>. QED
      BY <3>1, <3>2
  <2>. QED
    BY <2>2, <2>3
<1>4. D \in R
  <2>. HIDE DEF R
  <2>. QED
    BY <1>3, BySubsets
<1>. QED
  BY <1>2, <1>4

-----------------------------------------------------------------------------
(* Without failures, what the points are *)

LEMMA FiniteValues == IsFiniteSet(Values)
<1>. PICK f : f = [r \in Readings |-> r.value]
  OBVIOUS
<1>1. f \in Surjection(Readings, Values)
  BY DEF Values, Surjection
<1>2. IsFiniteSet(Readings)
  BY RollupAssumption
<1>. QED
  BY <1>1, <1>2, FS_Surjection

Weighted(bag) == [v \in Values |-> v * bag[v]]

\* An accumulator that holds the samples of a bag of values.
Exact(b, bag) ==
    /\ b.count = SumFunction(bag)
    /\ b.sum = SumFunction(Weighted(bag))
    /\ b.min \in ValuesIn(bag) /\ \A v \in ValuesIn(bag) : b.min <= v
    /\ b.max \in ValuesIn(bag) /\ \A v \in ValuesIn(bag) : b.max >= v

\* One more sample in a bag.
LEMMA OneMore ==
    ASSUME NEW bag \in [Values -> Nat], NEW v \in Values, NEW more, more = [bag EXCEPT ![v] = @ + 1]
    PROVE  /\ SumFunction(more) = SumFunction(bag) + 1
           /\ SumFunction(Weighted(more))
                 = SumFunction(Weighted(bag)) + v
           /\ ValuesIn(more) = ValuesIn(bag) \cup {v}
<1>1. Values \subseteq Nat /\ IsFiniteSet(Values) /\ v \in Nat /\ 1 \in Nat
  BY ValuesAreNumbers, FiniteValues
<1>2. SumFunction(more) = SumFunction(bag) + 1
  <2>1. IsFiniteSet(Values) /\ 1 \in Nat
    BY <1>1
  <2>. QED
    BY <2>1, SumGains, ZenonT(40)
<1>3. PICK f : f = Weighted(bag)
  OBVIOUS
<1>4. PICK g : g = Weighted(more)
  OBVIOUS
<1>5. f \in [Values -> Nat]
  <2>1. ASSUME NEW u \in Values PROVE u * bag[u] \in Nat
    BY <1>1
  <2>. QED
    BY <1>3, <2>1 DEF Weighted
<1>6. g = [f EXCEPT ![v] = @ + v]
  <2>1. ASSUME NEW u \in Values PROVE g[u] = [f EXCEPT ![v] = @ + v][u]
    <3>1. CASE u = v
      <4>1. more[v] = bag[v] + 1
        OBVIOUS
      <4>2. PICK n \in Nat : n = bag[v]
        OBVIOUS
      <4>3. v * (n + 1) = v * n + v
        BY <1>1
      <4>. QED
        BY <1>3, <1>4, <1>5, <3>1, <4>1, <4>2, <4>3 DEF Weighted
    <3>2. CASE u # v
      <4>1. more[u] = bag[u]
        BY <3>2
      <4>. QED
        BY <1>3, <1>4, <1>5, <3>2, <4>1 DEF Weighted
    <3>. QED
      BY <3>1, <3>2
  <2>. QED
    BY <1>4, <1>5, <2>1 DEF Weighted
<1>7. SumFunction(g) = SumFunction(f) + v
  <2>1. IsFiniteSet(Values) /\ v \in Nat
    BY <1>1
  <2>. QED
    BY <2>1, <1>5, <1>6, SumGains, ZenonT(40)
<1>8. ValuesIn(more) = ValuesIn(bag) \cup {v}
  <2>1. \A u \in Values : more[u] > 0 <=> bag[u] > 0 \/ u = v
    OBVIOUS
  <2>. QED
    BY <2>1 DEF ValuesIn
<1>. QED
  BY <1>2, <1>3, <1>4, <1>7, <1>8

LEMMA OpenedIsExact ==
    ASSUME NEW start \in Nat, NEW v \in Values, NEW bag \in [Values -> Nat], ValuesIn(bag) = {},
           NEW more, more = [bag EXCEPT ![v] = @ + 1]
    PROVE  Exact(Opened(start, v), more)
<1>1. \A u \in Values : bag[u] = 0
  BY DEF ValuesIn
<1>2. Values \subseteq Nat /\ IsFiniteSet(Values)
  BY ValuesAreNumbers, FiniteValues
<1>3. bag = [u \in Values |-> 0] /\ Weighted(bag) = [u \in Values |-> 0]
  BY <1>1, <1>2 DEF Weighted
<1>4. SumFunction(bag) = 0 /\ SumFunction(Weighted(bag)) = 0
  BY <1>2, <1>3, SumOfNothing
<1>5. /\ SumFunction(more) = SumFunction(bag) + 1
      /\ SumFunction(Weighted(more)) = SumFunction(Weighted(bag)) + v
      /\ ValuesIn(more) = ValuesIn(bag) \cup {v}
  BY OneMore
<1>6. v \in Nat /\ SumFunction(more) = 1 /\ SumFunction(Weighted(more)) = v /\ ValuesIn(more) = {v}
  <2>1. v \in Nat
    BY <1>2
  <2>2. SumFunction(more) = 1
    BY <1>4, <1>5
  <2>3. SumFunction(Weighted(more)) = v
    BY <1>4, <1>5, <2>1
  <2>4. ValuesIn(more) = {v}
    BY <1>5
  <2>. QED
    BY <2>1, <2>2, <2>3, <2>4
<1>7. PICK new : new = Opened(start, v)
  OBVIOUS
<1>8. new.count = 1 /\ new.sum = v /\ new.min = v /\ new.max = v
  BY <1>7, OpenedFacts
<1>9. v \in ValuesIn(more) /\ \A u \in ValuesIn(more) : v <= u /\ v >= u
  <2>1. \A u : u \in ValuesIn(more) <=> u = v
    BY <1>6
  <2>2. v <= v /\ v >= v
    BY <1>6
  <2>. QED
    BY <2>1, <2>2
<1>10. Exact(new, more)
  BY <1>6, <1>8, <1>9 DEF Exact
<1>. QED
  BY <1>7, <1>10

LEMMA AddIsExact ==
    ASSUME NEW b \in OpenBucket, NEW v \in Values, NEW bag \in [Values -> Nat], Exact(b, bag),
           NEW more, more = [bag EXCEPT ![v] = @ + 1]
    PROVE  Exact(Add(b, v), more)
<1>1. /\ Values \subseteq Nat /\ ValuesIn(bag) \subseteq Nat /\ v \in Nat
      /\ b.min \in Nat /\ b.max \in Nat
  BY ValuesAreNumbers DEF ValuesIn, Exact
<1>2. /\ SumFunction(more) = SumFunction(bag) + 1
      /\ SumFunction(Weighted(more))
            = SumFunction(Weighted(bag)) + v
      /\ ValuesIn(more) = ValuesIn(bag) \cup {v}
  BY OneMore
<1>3. PICK new : new = Add(b, v)
  OBVIOUS
<1>4. /\ new.count = b.count + 1 /\ new.sum = b.sum + v
      /\ new.min = IF v < b.min THEN v ELSE b.min
      /\ new.max = IF v > b.max THEN v ELSE b.max
  BY <1>3, AddFacts
<1>5. new.count = SumFunction(more) /\ new.sum = SumFunction(Weighted(more))
  BY <1>2, <1>4 DEF Exact
<1>6. PICK low \in Nat, high \in Nat : low = b.min /\ high = b.max
  BY <1>1
<1>7. /\ low \in ValuesIn(bag) /\ high \in ValuesIn(bag)
      /\ \A u \in ValuesIn(bag) : u \in Nat /\ low <= u /\ high >= u
  BY <1>1, <1>6 DEF Exact
<1>8. \A u : u \in ValuesIn(more) <=> u \in ValuesIn(bag) \/ u = v
  BY <1>2
<1>9. new.min \in ValuesIn(more) /\ \A u \in ValuesIn(more) : new.min <= u
  <2>1. CASE v < low
    <3>1. new.min = v
      BY <1>4, <1>6, <2>1
    <3>2. \A u \in ValuesIn(bag) : v <= u
      BY <1>1, <1>7, <2>1
    <3>3. v <= v
      BY <1>1
    <3>. QED
      BY <1>8, <3>1, <3>2, <3>3
  <2>2. CASE ~(v < low)
    <3>1. new.min = low /\ low <= v
      BY <1>1, <1>4, <1>6, <2>2
    <3>. QED
      BY <1>7, <1>8, <3>1
  <2>. QED
    BY <2>1, <2>2
<1>10. new.max \in ValuesIn(more) /\ \A u \in ValuesIn(more) : new.max >= u
  <2>1. CASE v > high
    <3>1. new.max = v
      BY <1>4, <1>6, <2>1
    <3>2. \A u \in ValuesIn(bag) : v >= u
      BY <1>1, <1>7, <2>1
    <3>3. v >= v
      BY <1>1
    <3>. QED
      BY <1>8, <3>1, <3>2, <3>3
  <2>2. CASE ~(v > high)
    <3>1. new.max = high /\ high >= v
      BY <1>1, <1>4, <1>6, <2>2
    <3>. QED
      BY <1>7, <1>8, <3>1
  <2>. QED
    BY <2>1, <2>2
<1>. QED
  BY <1>3, <1>5, <1>9, <1>10 DEF Exact

\* The points of an exact accumulator are the rollup of its samples.
LEMMA ExactPart ==
    ASSUME NEW b, NEW bag \in [Values -> Nat], Exact(b, bag), NEW part \in Parts
    PROVE  PartOf(b, part).value = Rollup(bag)[part]
<1>1. ValuesIn(bag) \subseteq Nat
  BY ValuesAreNumbers DEF ValuesIn
<1>2. Min(ValuesIn(bag)) = b.min
  <2>1. \A x \in ValuesIn(bag) : (\A y \in ValuesIn(bag) : x <= y) => x = b.min
    BY <1>1 DEF Exact
  <2>. QED
    BY <2>1 DEF Min, Exact
<1>3. Max(ValuesIn(bag)) = b.max
  <2>1. \A x \in ValuesIn(bag) : (\A y \in ValuesIn(bag) : x >= y) => x = b.max
    BY <1>1 DEF Exact
  <2>. QED
    BY <2>1 DEF Max, Exact
<1>4. b.count = SumFunction(bag) /\ b.sum = SumFunction(Weighted(bag))
  BY DEF Exact
<1>5. part = "min" \/ part = "avg" \/ part = "max"
  BY DEF Parts
<1>. QED
  BY <1>2, <1>3, <1>4, <1>5 DEF PartOf, Rollup, Weighted

\* A put adds nothing to the disk but its point.
LEMMA PutStoresNothingElse ==
    ASSUME NEW k \in Tiers, NEW ring, NEW D, RingOK(k, ring, D), NEW pt \in Point,
           NEW written \in BOOLEAN
    PROVE  OnDisk(Put(k, ring, pt, written)) \subseteq OnDisk(ring) \cup {pt}
<1>1. ring \in Rings
  BY DEF RingOK
<1>2. CASE IsLate(k, ring, pt)
  BY <1>2 DEF Put
<1>3. CASE ~IsLate(k, ring, pt)
  <2>1. PICK new : new = Put(k, ring, pt, written)
    OBVIOUS
  <2>2. PICK idx : idx = Slot(k, pt.time)
    OBVIOUS
  <2>3. /\ new \in Rings /\ idx \in 0..(Slots - 1)
        /\ ToSet(new.pts) = (IF idx = ring.open THEN ToSet(ring.pts) ELSE {}) \cup {pt}
        /\ written => new.file[idx] = new.pts
        /\ \A i \in 0..(Slots - 1) : i # idx \/ ~written => new.file[i] = ring.file[i]
    BY <1>1, <1>3, <2>1, <2>2, WhatPutDoes
  <2>4. DOMAIN new.file = 0..(Slots - 1) /\ DOMAIN ring.file = 0..(Slots - 1)
    BY <1>1, <2>3 DEF Rings
  <2>5. idx = ring.open => ring.pts = ring.file[idx]
    <3>1. -1 \notin 0..(Slots - 1)
      BY RollupAssumption
    <3>. QED
      BY <2>3, <3>1 DEF RingOK
  <2>6. \A i \in 0..(Slots - 1) : \A q \in ToSet(new.file[i]) :
           q \in ToSet(ring.file[i]) \/ q = pt
    BY <2>3, <2>5
  <2>. QED
    BY <2>1, <2>4, <2>6 DEF OnDisk
<1>. QED
  BY <1>2, <1>3

\* The times on disk are those of the buckets that have been put there.
LEMMA DiskTimes ==
    ASSUME NEW k, NEW ring, NEW D, RingOK(k, ring, D), NEW q \in OnDisk(ring)
    PROVE  q.time \in D
<1>1. DOMAIN ring.file = 0..(Slots - 1)
  BY DEF RingOK, Rings
<1>. QED
  BY <1>1 DEF RingOK, OnDisk

\* The accumulator and the stored parts of tier k are those of its samples.
StoredExact(k, part) ==
    \A q \in OnDisk(sub[k][part]) : q.value = Rollup(seen[k][q.time])[part]
ExactOK(k) ==
    /\ acc[k] # NoBucket => Exact(acc[k], seen[k][acc[k].start])
    /\ \A part \in Parts : StoredExact(k, part)

ExactInv == \A k \in Tiers : faults = 0 /\ inOrder[k] => ExactOK(k)

LEMMA ExactInit == Init => ExactInv
<1>. SUFFICES ASSUME Init, NEW k \in Tiers PROVE ExactOK(k)
  BY DEF ExactInv
<1>1. OnDisk(EmptyRing) = {}
  BY NoPoints DEF EmptyRing, OnDisk
<1>2. acc[k] = NoBucket /\ \A part \in Parts : sub[k][part] = EmptyRing
  BY DEF Init
<1>. QED
  BY <1>1, <1>2 DEF ExactOK, StoredExact

LEMMA ExactKept ==
    ASSUME ExactInv, faults' = 0, faults' = faults, NEW k \in Tiers, inOrder'[k],
           acc'[k] = acc[k], seen'[k] = seen[k], inOrder'[k] = inOrder[k], sub'[k] = sub[k]
    PROVE  ExactOK(k)'
<1>1. ExactOK(k)
  BY DEF ExactInv
<1>. QED
  BY <1>1 DEF ExactOK, StoredExact

\* The part of a flush is the rollup of its bucket.
LEMMA FlushedIsExact ==
    ASSUME TypeInv, RingsInv, ExactInv, flush # NoFlush, NEW written \in BOOLEAN, PutPart(written),
           NEW k, k = Flushing, faults = 0, inOrder[k],
           NEW q \in OnDisk(sub'[k][flush.part])
    PROVE  q.value = Rollup(seen[k][q.time])[flush.part]
<1>1. PICK pt : pt = PartOf(acc[k], flush.part)
  OBVIOUS
<1>2. /\ k \in Tiers /\ acc[k] # NoBucket /\ acc[k].start \in Buckets(k)
      /\ pt \in Point /\ pt.time = acc[k].start
      /\ sub'[k][flush.part] = Put(k, sub[k][flush.part], pt, written)
  BY <1>1, WhatPutPartDoes
<1>3. flush.part \in Parts /\ seen[k] \in [Buckets(k) -> [Values -> Nat]]
  BY <1>2 DEF TypeInv
<1>4. RingOK(k, sub[k][flush.part], Closed(k, flush.part)) /\ ExactOK(k)
  BY <1>2, <1>3 DEF RingsInv, RingsOK, ExactInv
<1>5. q \in OnDisk(sub[k][flush.part]) \/ q = pt
  BY <1>2, <1>4, PutStoresNothingElse
<1>6. CASE q \in OnDisk(sub[k][flush.part])
  BY <1>3, <1>4, <1>6 DEF ExactOK, StoredExact
<1>7. CASE q = pt
  <2>1. PICK bag \in [Values -> Nat] : bag = seen[k][acc[k].start]
    BY <1>2, <1>3
  <2>2. Exact(acc[k], bag)
    BY <1>2, <1>4, <2>1 DEF ExactOK
  <2>3. pt.value = Rollup(bag)[flush.part]
    BY <1>1, <1>3, <2>2, ExactPart
  <2>. QED
    BY <1>2, <1>7, <2>1, <2>3
<1>. QED
  BY <1>5, <1>6, <1>7

\* A sample taken in for a bucket that no part on disk is of, into an
\* accumulator that is exact with it.
LEMMA ExactTakenIn ==
    ASSUME TypeInv, NEW k \in Tiers, NEW s \in Sample, TakeIn(k, s),
           NEW b, b = BucketStart(k, s.time), NEW a, a.start = b,
           acc' = [acc EXCEPT ![k] = a],
           Exact(a, [seen[k][b] EXCEPT ![s.value] = @ + 1]),
           \A part \in Parts : \A q \in OnDisk(sub'[k][part]) :
              /\ q.time \in Buckets(k) \ {b}
              /\ q.value = Rollup(seen[k][q.time])[part]
    PROVE  ExactOK(k)'
<1>1. /\ b \in Buckets(k)
      /\ \A c \in Buckets(k) \ {b} : seen'[k][c] = seen[k][c]
      /\ seen'[k][b] = [seen[k][b] EXCEPT ![s.value] = @ + 1]
  BY WhatTakeInDoes
<1>2. acc'[k] = a
  BY DEF TypeInv
<1>3. Exact(acc'[k], seen'[k][acc'[k].start])
  BY <1>1, <1>2
<1>4. ASSUME NEW part \in Parts PROVE StoredExact(k, part)'
  BY <1>1 DEF StoredExact
<1>. QED
  BY <1>3, <1>4 DEF ExactOK

LEMMA NoSamples ==
    ASSUME TypeInv, NEW k \in Tiers, NEW b \in Buckets(k), b \notin Sampled(k)
    PROVE  seen[k][b] \in [Values -> Nat] /\ ValuesIn(seen[k][b]) = {}
BY DEF TypeInv, Sampled, HasSamples

\* A further sample of the open bucket, or the first of all.
LEMMA ExactAccumulate ==
    ASSUME TypeInv, RingsInv, ExactInv, NEW p \in Producers, Accumulate(p),
           NEW l \in Tiers, faults' = 0, inOrder'[l]
    PROVE  ExactOK(l)'
<1>1. PICK k, b, v : k = work[p].tier /\ b = BucketStart(k, work[p].time) /\ v = work[p].value
  OBVIOUS
<1>2. /\ k \in Tiers /\ b \in Buckets(k) /\ b \in Nat /\ v \in Values
      /\ flush = NoFlush /\ work[p] \in Sample /\ TakeIn(k, work[p])
  BY <1>1, WhatAccumulateDoes
<1>3. PICK a \in OpenBucket :
         /\ acc' = [acc EXCEPT ![k] = a] /\ a.start = b
         /\ \/ acc[k] = NoBucket /\ a = Opened(b, v)
            \/ acc[k] \in OpenBucket /\ acc[k] # NoBucket /\ acc[k].start = b /\ a = Add(acc[k], v)
  BY <1>1, WhatAccumulateDoes
<1>4. sub' = sub /\ faults' = faults
  BY DEF Accumulate
<1>5. PICK s \in Sample : s = work[p] /\ s.value = v
  BY <1>1, <1>2
<1>6. /\ inOrder'[k] => inOrder[k]
      /\ \A m \in Tiers \ {k} : seen'[m] = seen[m] /\ inOrder'[m] = inOrder[m]
  BY <1>1, <1>2, <1>5, SampledAfter
<1>7. acc \in [Tiers -> OpenBucket \cup {NoBucket}]
  BY DEF TypeInv
<1>8. CASE l # k
  <2>1. acc'[l] = acc[l] /\ sub'[l] = sub[l]
    BY <1>3, <1>4, <1>7, <1>8
  <2>2. seen'[l] = seen[l] /\ inOrder'[l] = inOrder[l]
    BY <1>6, <1>8
  <2>. QED
    BY <1>4, <2>1, <2>2, ExactKept
<1>9. CASE l = k
  <2>1. RingsOK(k) /\ ExactOK(k)
    BY <1>4, <1>6, <1>9 DEF RingsInv, ExactInv
  <2>2. PICK S \in SUBSET Buckets(k) : S = Sampled(k)
    BY <1>2, SampledAreNumbers
  <2>3. \A part : ~Done(k, part)
    BY <1>2 DEF Done
  <2>4. \A part : Closed(k, part) = {c \in S : c < acc[k].start}
    BY <2>2, <2>3 DEF Closed
  <2>5. acc[k] = NoBucket => S = {}
    BY <2>1, <2>2 DEF RingsOK
  <2>6. b \notin {c \in S : c < acc[k].start}
    <3>1. CASE acc[k] = NoBucket
      BY <2>5, <3>1
    <3>2. CASE acc[k] # NoBucket
      <4>1. acc[k].start = b
        BY <1>3, <3>2
      <4>. QED
        BY <1>2, <4>1
    <3>. QED
      BY <3>1, <3>2
  <2>7. ASSUME NEW part \in Parts, NEW q \in OnDisk(sub'[k][part])
        PROVE  /\ q.time \in Buckets(k) \ {b}
               /\ q.value = Rollup(seen[k][q.time])[part]
    <3>1. RingOK(k, sub[k][part], Closed(k, part)) /\ q \in OnDisk(sub[k][part])
      BY <1>4, <2>1, <2>7 DEF RingsOK
    <3>2. q.time \in Closed(k, part)
      BY <3>1, DiskTimes
    <3>3. q.value = Rollup(seen[k][q.time])[part]
      BY <2>1, <3>1 DEF ExactOK, StoredExact
    <3>. QED
      BY <2>2, <2>4, <2>6, <3>2, <3>3
  <2>8. PICK bag, more : bag = seen[k][b] /\ more = [bag EXCEPT ![v] = @ + 1]
    OBVIOUS
  <2>9. bag \in [Values -> Nat]
    BY <1>2, <2>8 DEF TypeInv
  <2>10. Exact(a, more)
    <3>1. CASE acc[k] = NoBucket
      <4>1. ValuesIn(bag) = {}
        BY <1>2, <2>2, <2>5, <2>8, <3>1, NoSamples
      <4>2. a = Opened(b, v)
        BY <1>3, <3>1
      <4>. QED
        BY <1>2, <2>8, <2>9, <4>1, <4>2, OpenedIsExact
    <3>2. CASE acc[k] # NoBucket
      <4>1. acc[k] \in OpenBucket /\ acc[k].start = b /\ a = Add(acc[k], v)
        BY <1>3, <3>2
      <4>2. Exact(acc[k], bag)
        BY <2>1, <2>8, <3>2, <4>1 DEF ExactOK
      <4>. QED
        BY <1>2, <2>8, <2>9, <4>1, <4>2, AddIsExact
    <3>. QED
      BY <3>1, <3>2
  <2>11. Exact(a, [seen[k][b] EXCEPT ![s.value] = @ + 1])
    BY <1>5, <2>8, <2>10
  <2>12. TakeIn(k, s) /\ b = BucketStart(k, s.time)
    BY <1>1, <1>2, <1>5
  <2>. QED
    BY <1>2, <1>3, <1>9, <2>7, <2>11, <2>12, ExactTakenIn
<1>. QED
  BY <1>8, <1>9

LEMMA ExactAppendPart ==
    ASSUME TypeInv, RingsInv, ExactInv, AppendPart, NEW l \in Tiers, faults' = 0, inOrder'[l]
    PROVE  ExactOK(l)'
<1>1. flush # NoFlush
  BY DEF AppendPart, NoFlush
<1>2. PICK written \in BOOLEAN : PutPart(written)
  BY DEF AppendPart
<1>3. PICK k, pt : k = Flushing /\ pt = PartOf(acc[k], flush.part)
  OBVIOUS
<1>4. UNCHANGED <<acc, seen, inOrder, faults>>
  BY DEF AppendPart
<1>5. ExactOK(l) /\ faults = 0 /\ inOrder[l]
  BY <1>4 DEF ExactInv
<1>6. ASSUME NEW part \in Parts PROVE StoredExact(l, part)'
  <2>1. CASE l = k /\ part = flush.part
    <3>1. \A q \in OnDisk(sub'[k][flush.part]) : q.value = Rollup(seen[k][q.time])[flush.part]
      BY <1>1, <1>2, <1>3, <1>5, <2>1, FlushedIsExact
    <3>. QED
      BY <1>4, <2>1, <3>1 DEF StoredExact
  <2>2. CASE l # k \/ part # flush.part
    <3>1. sub'[l][part] = sub[l][part]
      BY <1>1, <1>2, <1>3, <2>2, WhatPutPartDoes
    <3>. QED
      BY <1>4, <1>5, <3>1 DEF StoredExact, ExactOK
  <2>. QED
    BY <2>1, <2>2
<1>. QED
  BY <1>4, <1>5, <1>6 DEF ExactOK

\* The last part, and the first sample of the next bucket.
LEMMA ExactFinishFlush ==
    ASSUME TypeInv, OrderInv, RingsInv, ExactInv, FinishFlush,
           NEW l \in Tiers, faults' = 0, inOrder'[l]
    PROVE  ExactOK(l)'
<1>1. PICK k, s : k = Flushing /\ s = work[flush.by]
  OBVIOUS
<1>2. PICK b, v : b = BucketStart(k, s.time) /\ v = s.value
  OBVIOUS
<1>3. PICK a : a = Opened(b, v)
  OBVIOUS
<1>4. /\ flush # NoFlush
      /\ k \in Tiers /\ s \in Sample /\ v \in Values /\ TakeIn(k, s)
      /\ b \in Buckets(k) /\ b \in Nat /\ b # acc[k].start
      /\ acc' = [acc EXCEPT ![k] = a] /\ a.start = b
  BY <1>1, <1>2, <1>3, WhatFinishFlushDoes
<1>5. PICK written \in BOOLEAN : PutPart(written)
  BY DEF FinishFlush
<1>6. PICK pt : pt = PartOf(acc[k], flush.part)
  OBVIOUS
<1>7. /\ acc[k] # NoBucket /\ acc[k].start \in Buckets(k) /\ acc[k].start \in Nat
      /\ pt.time = acc[k].start
      /\ sub'[k][flush.part] = Put(k, sub[k][flush.part], pt, written) /\ pt \in Point
  BY <1>1, <1>4, <1>5, <1>6, WhatPutPartDoes
<1>8. ASSUME NEW m \in Tiers, NEW part \in Parts, m # k \/ part # flush.part
      PROVE  sub'[m][part] = sub[m][part]
  BY <1>1, <1>4, <1>5, <1>6, <1>8, WhatPutPartDoes
<1>9. faults' = faults
  BY DEF FinishFlush
<1>10. /\ inOrder'[k] => inOrder[k]
       /\ inOrder'[k] => \A c \in Sampled(k) : c <= b
       /\ \A m \in Tiers \ {k} : seen'[m] = seen[m] /\ inOrder'[m] = inOrder[m]
  BY <1>2, <1>4, SampledAfter
<1>11. CASE l # k
  <2>1. acc'[l] = acc[l]
    BY <1>4, <1>11 DEF TypeInv
  <2>2. seen'[l] = seen[l] /\ inOrder'[l] = inOrder[l]
    BY <1>10, <1>11
  <2>3. ExactOK(l)
    BY <1>9, <2>2 DEF ExactInv
  <2>4. \A part \in Parts : sub'[l][part] = sub[l][part]
    BY <1>8, <1>11
  <2>. QED
    BY <2>1, <2>2, <2>3, <2>4 DEF ExactOK, StoredExact
<1>12. CASE l = k
  <2>1. RingsOK(k) /\ ExactOK(k) /\ faults = 0 /\ inOrder[k] /\ inOrder'[k]
    BY <1>4, <1>9, <1>10, <1>12 DEF RingsInv, ExactInv
  <2>2. PICK S \in SUBSET Buckets(k) : S = Sampled(k)
    BY <1>4, SampledAreNumbers
  <2>. PICK o \in Nat : o = acc[k].start
    BY <1>7
  <2>3. o \in S /\ S \subseteq Nat /\ \A c \in S : c <= o /\ c <= b
    BY <1>4, <1>7, <1>10, <2>1, <2>2, BucketFacts DEF OrderInv, Sampled
  <2>4. o < b
    <3>1. o <= b
      BY <2>3
    <3>. QED
      BY <1>4, <3>1
  <2>5. b \notin S
    BY <1>4, <2>3, <2>4
  <2>6. flush.part \in Parts
    BY <1>4 DEF TypeInv
  <2>7. ASSUME NEW part \in Parts, NEW q \in OnDisk(sub'[k][part])
        PROVE  /\ q.time \in Buckets(k) \ {b}
               /\ q.value = Rollup(seen[k][q.time])[part]
    <3>1. RingOK(k, sub[k][part], Closed(k, part)) /\ Closed(k, part) \subseteq S
      BY <2>1, <2>2 DEF RingsOK, Closed
    <3>2. \A r \in OnDisk(sub[k][part]) : r.time \in S
      BY <3>1, DiskTimes
    <3>3. CASE part # flush.part
      <4>1. q \in OnDisk(sub[k][part])
        BY <1>4, <1>8, <2>7, <3>3
      <4>2. q.value = Rollup(seen[k][q.time])[part]
        BY <2>1, <4>1 DEF ExactOK, StoredExact
      <4>. QED
        BY <2>2, <2>5, <3>2, <4>1, <4>2
    <3>4. CASE part = flush.part
      <4>1. q \in OnDisk(sub[k][part]) \/ q = pt
        BY <1>4, <1>7, <2>7, <3>1, <3>4, PutStoresNothingElse
      <4>2. q.time \in S
        BY <1>7, <2>3, <3>2, <4>1
      <4>3. q.value = Rollup(seen[k][q.time])[flush.part]
        BY <1>1, <1>4, <1>5, <2>1, <2>7, <3>4, FlushedIsExact
      <4>. QED
        BY <2>2, <2>5, <3>4, <4>2, <4>3
    <3>. QED
      BY <3>3, <3>4
  <2>8. PICK bag, more : bag = seen[k][b] /\ more = [bag EXCEPT ![v] = @ + 1]
    OBVIOUS
  <2>9. bag \in [Values -> Nat] /\ ValuesIn(bag) = {}
    BY <1>4, <2>2, <2>5, <2>8, NoSamples
  <2>10. Exact(a, more)
    BY <1>3, <1>4, <2>8, <2>9, OpenedIsExact
  <2>11. Exact(a, [seen[k][b] EXCEPT ![s.value] = @ + 1])
    BY <1>2, <2>8, <2>10
  <2>. QED
    BY <1>2, <1>4, <1>12, <2>7, <2>11, ExactTakenIn
<1>. QED
  BY <1>11, <1>12

LEMMA ExactStep == TypeInv /\ OrderInv /\ RingsInv /\ ExactInv /\ [Next]_vars => ExactInv'
<1>. SUFFICES ASSUME TypeInv, OrderInv, RingsInv, ExactInv, [Next]_vars,
                     NEW l \in Tiers, faults' = 0, inOrder'[l]
              PROVE  ExactOK(l)'
  BY DEF ExactInv
<1>1. ASSUME NEW p \in Producers, Accumulate(p) PROVE ExactOK(l)'
  BY <1>1, ExactAccumulate
<1>2. CASE AppendPart
  BY <1>2, ExactAppendPart
<1>3. CASE FinishFlush
  BY <1>3, ExactFinishFlush
<1>4. faults \in Nat
  BY RollupAssumption DEF TypeInv
<1>5. CASE FailPart
  <2>1. faults' = faults + 1
    BY <1>5 DEF FailPart
  <2>. QED
    BY <1>4, <2>1
<1>6. CASE Restart
  <2>1. faults' = faults + 1
    BY <1>6 DEF Restart
  <2>. QED
    BY <1>4, <2>1
<1>7. ASSUME \/ \E p \in Producers, r \in Readings : Consume(p, r)
             \/ \E p \in Producers : BeginFlush(p)
             \/ \E k \in Tiers : Ask(k)
             \/ ReadNext \/ Return \/ UNCHANGED vars
      PROVE  ExactOK(l)'
  <2>1. UNCHANGED <<acc, sub, seen, inOrder, faults>>
    BY <1>7 DEF Consume, BeginFlush, Ask, ReadNext, Return, vars
  <2>. QED
    BY <2>1, ExactKept
<1>. QED
  BY <1>1, <1>2, <1>3, <1>5, <1>6, <1>7 DEF Next

LEMMA ExactAlways == Spec => []ExactInv
<1>. QED
  BY ExactInit, ExactStep, TypeAlways, OrderAlways, RingsAlways, PTL DEF Spec

\* Without failures and as long as the samples come in order, every point on
\* disk is the minimum, the average or the maximum of all the samples of its
\* bucket, however many producers, tiers and samples there are and however
\* they interleave (bucketAccumulator.add, rollup and appendAgg).
THEOREM AggregatesAlwaysExact == Spec => []AggregatesExact
<1>1. OrderInv /\ ExactInv => AggregatesExact
  <2>. SUFFICES ASSUME OrderInv, ExactInv, NEW k \in Tiers, faults = 0, inOrder[k],
                       NEW part \in Parts, NEW pt \in OnDisk(sub[k][part])
                PROVE  /\ ValuesIn(seen[k][pt.time]) # {}
                       /\ pt.value = Rollup(seen[k][pt.time])[part]
    BY DEF AggregatesExact
  <2>1. HasSamples(k, pt.time)
    BY DEF OrderInv, Kept
  <2>2. pt.value = Rollup(seen[k][pt.time])[part]
    BY DEF ExactInv, ExactOK, StoredExact
  <2>. QED
    BY <2>1, <2>2 DEF HasSamples
<1>. QED
  BY <1>1, OrderAlways, ExactAlways, PTL
-----------------------------------------------------------------------------
(* Sorted points *)

\* A finite set of points can be sorted.
LEMMA SortedExists ==
    ASSUME NEW S, IsFiniteSet(S), \A x \in S : x.time \in Nat
    PROVE  \E f \in SetToSeqs(S) : InTimeOrder(f)
<1>. DEFINE Enumeration(T, f) == /\ f \in [1..Cardinality(T) -> T]
                                 /\ \A i, j \in 1..Cardinality(T) : i # j => f[i] # f[j]
                                 /\ \A i, j \in 1..Cardinality(T) : i < j => f[i].time <= f[j].time
            R == {T \in SUBSET S : \E f : Enumeration(T, f)}
<1>1. ASSUME NEW T \in SUBSET S,
             \A U \in SUBSET S : Cardinality(U) < Cardinality(T) => U \in R
      PROVE  \E f : Enumeration(T, f)
  <2>1. IsFiniteSet(T) /\ Cardinality(T) \in Nat
    BY FS_Subset, FS_CardinalityType
  <2>2. CASE T = {}
    <3>1. Cardinality(T) = 0
      BY <2>2, FS_EmptySet
    <3>2. [i \in 1..0 |-> 0] \in [1..0 -> T]
      OBVIOUS
    <3>3. Enumeration(T, [i \in 1..0 |-> 0])
      BY <3>1, <3>2
    <3>. QED
      BY <3>3
  <2>3. CASE T # {}
    <3>. DEFINE times == {y.time : y \in T}
    <3>1. PICK t \in times : \A u \in times : t <= u
      <4>1. times \subseteq Nat /\ times # {}
        BY <2>3
      <4>. HIDE DEF times
      <4>. QED
        BY <4>1, LeastNumber
    <3>2. PICK x \in T : \A y \in T : x.time <= y.time
      BY <3>1
    <3>. DEFINE U == T \ {x}
    <3>3. PICK n \in Nat : n = Cardinality(U) /\ Cardinality(T) = n + 1
      <4>1. IsFiniteSet(U) /\ Cardinality(U) = Cardinality(T) - 1
        BY <2>1, <3>2, FS_RemoveElement
      <4>2. Cardinality(U) \in Nat
        BY <4>1, FS_CardinalityType
      <4>. QED
        BY <2>1, <4>1, <4>2
    <3>4. U \in R
      <4>1. U \in SUBSET S /\ Cardinality(U) < Cardinality(T)
        BY <3>3
      <4>. QED
        BY <1>1, <4>1
    <3>5. PICK f : Enumeration(U, f)
      BY <3>4
    <3>6. /\ f \in [1..n -> U]
          /\ \A i, j \in 1..n : i # j => f[i] # f[j]
          /\ \A i, j \in 1..n : i < j => f[i].time <= f[j].time
      BY <3>3, <3>5
    <3>. HIDE DEF R
    <3>. DEFINE g == [i \in 1..(n + 1) |-> IF i = 1 THEN x ELSE f[i - 1]]
    <3>7. \A i \in 1..(n + 1) : i # 1 => i - 1 \in 1..n
      BY <3>3
    <3>8. \A i \in 1..(n + 1) : i # 1 => f[i - 1] \in U
      BY <3>6, <3>7
    <3>9. g \in [1..(n + 1) -> T]
      BY <3>8
    <3>10. ASSUME NEW i \in 1..(n + 1), NEW j \in 1..(n + 1), i < j
           PROVE  g[i] # g[j] /\ g[i].time <= g[j].time
      <4>1. j # 1 /\ g[j] = f[j - 1] /\ f[j - 1] \in U
        <5>1. j # 1
          BY <3>3, <3>10
        <5>. QED
          BY <3>8, <5>1
      <4>2. CASE i = 1
        BY <3>2, <4>1, <4>2
      <4>3. CASE i # 1
        <5>1. g[i] = f[i - 1] /\ i - 1 \in 1..n /\ j - 1 \in 1..n /\ i - 1 < j - 1
          BY <3>3, <3>7, <3>10, <4>1, <4>3
        <5>. QED
          BY <3>6, <4>1, <5>1
      <4>. QED
        BY <4>2, <4>3
    <3>. HIDE DEF g
    <3>11. \A i, j \in 1..(n + 1) : i # j => g[i] # g[j]
      <4>. SUFFICES ASSUME NEW i \in 1..(n + 1), NEW j \in 1..(n + 1), i # j
                    PROVE  g[i] # g[j]
        OBVIOUS
      <4>1. i < j \/ j < i
        BY <3>3
      <4>. QED
        BY <3>10, <4>1
    <3>12. Enumeration(T, g)
      BY <3>3, <3>9, <3>10, <3>11
    <3>. QED
      BY <3>12
  <2>. QED
    BY <2>2, <2>3
<1>. DEFINE D == S
<1>2. S \in R
  <2>1. \A T \in SUBSET S :
           (\A U \in SUBSET S : Cardinality(U) < Cardinality(T) => U \in R) => T \in R
    BY <1>1
  <2>. HIDE DEF R
  <2>. QED
    BY <2>1, BySubsets
<1>3. PICK f : Enumeration(S, f)
  BY <1>2
<1>4. f \in SetToSeqs(S)
  BY <1>3 DEF SetToSeqs
<1>5. InTimeOrder(f)
  BY <1>3 DEF InTimeOrder
<1>. QED
  BY <1>4, <1>5

\* Points of times of their own, once sorted.
Ascending(f) ==
    /\ DOMAIN f = 1..Len(f) /\ Len(f) \in Nat
    /\ \A i \in 1..Len(f) : f[i].time \in Nat
    /\ \A i, j \in 1..Len(f) : i < j => f[i].time < f[j].time
TimesOf(f) == {f[i].time : i \in 1..Len(f)}

LEMMA ReadIsSorted ==
    ASSUME NEW ring, IsFiniteSet(OnDisk(ring)), \A x \in OnDisk(ring) : x.time \in Nat,
           \A x, y \in OnDisk(ring) : x.time = y.time => x = y
    PROVE  Ascending(Read(ring)) /\ TimesOf(Read(ring)) = {x.time : x \in OnDisk(ring)}
<1>. DEFINE S == OnDisk(ring)
            f == Read(ring)
<1>1. f \in SetToSeqs(S) /\ InTimeOrder(f)
  BY SortedExists DEF Read
<1>. HIDE DEF f, S
<1>2. PICK n \in Nat : n = Cardinality(S)
  BY FS_CardinalityType DEF S
<1>3. f \in [1..n -> S] /\ \A i, j \in 1..n : i # j => f[i] # f[j]
  BY <1>1, <1>2 DEF SetToSeqs
<1>4. Len(f) = n /\ DOMAIN f = 1..n
  BY <1>2, <1>3
<1>5. ASSUME NEW i \in 1..n, NEW j \in 1..n, i < j PROVE f[i].time < f[j].time
  <2>1. f[i] \in S /\ f[j] \in S /\ f[i] # f[j]
    BY <1>2, <1>3, <1>5
  <2>2. f[i].time <= f[j].time
    BY <1>1, <1>4, <1>5 DEF InTimeOrder
  <2>3. f[i].time # f[j].time /\ f[i].time \in Nat /\ f[j].time \in Nat
    BY <2>1 DEF S
  <2>. QED
    BY <2>2, <2>3
<1>6. \A i \in 1..n : f[i].time \in Nat
  BY <1>3 DEF S
<1>7. \A x \in S : \E i \in 1..n : f[i] = x
  <2>1. f \in Injection(1..n, S)
    BY <1>3 DEF Injection, IsInjective
  <2>2. IsFiniteSet(S) /\ Cardinality(1..n) = Cardinality(S)
    BY <1>2, FS_Interval DEF S
  <2>3. f \in Surjection(1..n, S)
    BY <2>1, <2>2, FS_Injection
  <2>. QED
    BY <2>3 DEF Surjection
<1>8. TimesOf(f) = {x.time : x \in S}
  BY <1>3, <1>4, <1>7 DEF TimesOf
<1>. QED
  BY <1>4, <1>5, <1>6, <1>8 DEF Ascending, f, S

\* What one sequence has before an element of the other, the other has too:
\* such sequences agree at every place that both have.
LEMMA SamePlaces ==
    ASSUME NEW f, NEW g, Ascending(f), Ascending(g),
           \A x \in TimesOf(f), y \in TimesOf(g) :
              (y < x => y \in TimesOf(f)) /\ (x < y => x \in TimesOf(g))
    PROVE  \A i \in Nat \ {0} : i <= Len(f) /\ i <= Len(g) => f[i].time = g[i].time
<1>. DEFINE Wrong == {i \in Nat \ {0} : i <= Len(f) /\ i <= Len(g) /\ f[i].time # g[i].time}
<1>. SUFFICES ASSUME Wrong # {} PROVE FALSE
  OBVIOUS
<1>1. PICK i \in Wrong : \A j \in Wrong : i <= j
  <2>1. Wrong \subseteq Nat
    OBVIOUS
  <2>. HIDE DEF Wrong
  <2>. QED
    BY <2>1, LeastNumber
<1>2. /\ i \in 1..Len(f) /\ i \in 1..Len(g) /\ f[i].time # g[i].time
      /\ f[i].time \in Nat /\ g[i].time \in Nat
      /\ Len(f) \in Nat /\ Len(g) \in Nat
  BY DEF Ascending
<1>3. \A j \in 1..(i - 1) : j \in 1..Len(f) /\ j \in 1..Len(g) /\ j < i
  BY <1>2
<1>4. \A j \in 1..(i - 1) : f[j].time = g[j].time
  BY <1>1, <1>3
<1>. HIDE DEF Wrong
<1>5. f[i].time \in TimesOf(f) /\ g[i].time \in TimesOf(g)
  BY <1>2 DEF TimesOf
<1>6. CASE f[i].time < g[i].time
  <2>1. PICK l \in 1..Len(g) : g[l].time = f[i].time
    BY <1>5, <1>6 DEF TimesOf
  <2>2. l < i
    <3>1. l # i /\ ~(i < l)
      BY <1>2, <1>6, <2>1 DEF Ascending
    <3>. QED
      BY <1>2, <3>1
  <2>3. l \in 1..(i - 1)
    BY <1>2, <2>2
  <2>4. f[l].time = f[i].time
    BY <1>4, <2>1, <2>3
  <2>5. f[l].time < f[i].time
    BY <1>2, <1>3, <2>2, <2>3 DEF Ascending
  <2>. QED
    BY <1>2, <2>4, <2>5
<1>7. CASE g[i].time < f[i].time
  <2>1. PICK l \in 1..Len(f) : f[l].time = g[i].time
    BY <1>5, <1>7 DEF TimesOf
  <2>2. l < i
    <3>1. l # i /\ ~(i < l)
      BY <1>2, <1>7, <2>1 DEF Ascending
    <3>. QED
      BY <1>2, <3>1
  <2>3. l \in 1..(i - 1)
    BY <1>2, <2>2
  <2>4. g[l].time = g[i].time
    BY <1>4, <2>1, <2>3
  <2>5. g[l].time < g[i].time
    BY <1>2, <1>3, <2>2, <2>3 DEF Ascending
  <2>. QED
    BY <1>2, <2>4, <2>5
<1>. QED
  BY <1>2, <1>6, <1>7

-----------------------------------------------------------------------------
(* The answers of a query *)

\* The buckets with samples are less than a ring's length apart.
AllApart(k) == \A b, c \in Sampled(k) : ChunkOf(k, b) < ChunkOf(k, c) + Slots

\* What was read of a part: its buckets up to some moment.
AnswerOK(k, f) ==
    /\ Ascending(f) /\ TimesOf(f) \subseteq Sampled(k)
    /\ \A c \in Sampled(k), x \in TimesOf(f) : c < x => c \in TimesOf(f)

AskedInv ==
    asked # NoQuery /\ faults = 0 /\ inOrder[asked.tier] /\ AllApart(asked.tier) =>
        \A j \in 1..Len(asked.got) : AnswerOK(asked.tier, asked.got[j])

LEMMA DiskIsFinite ==
    ASSUME NEW ring \in Rings
    PROVE  IsFiniteSet(OnDisk(ring)) /\ OnDisk(ring) \subseteq Point
<1>1. DOMAIN ring.file = 0..(Slots - 1) /\ \A i \in 0..(Slots - 1) : ring.file[i] \in Seq(Point)
  BY DEF Rings
<1>2. ASSUME NEW i \in 0..(Slots - 1)
      PROVE  IsFiniteSet(ToSet(ring.file[i])) /\ ToSet(ring.file[i]) \subseteq Point
  <2>1. PICK f \in Seq(Point) : f = ring.file[i]
    BY <1>1
  <2>2. Len(f) \in Nat /\ DOMAIN f = 1..Len(f) /\ IsFiniteSet(1..Len(f))
    BY FS_Interval, LenProperties
  <2>3. f \in Surjection(1..Len(f), ToSet(f))
    <3>1. f \in [1..Len(f) -> ToSet(f)]
      BY <2>2 DEF ToSet
    <3>. QED
      BY <2>2, <3>1 DEF Surjection, ToSet
  <2>4. IsFiniteSet(ToSet(f))
    BY <2>2, <2>3, FS_Surjection
  <2>. QED
    BY <2>1, <2>4, ElementsArePoints
<1>. DEFINE files == [i \in 0..(Slots - 1) |-> ToSet(ring.file[i])]
            sets == {files[i] : i \in 0..(Slots - 1)}
<1>3. IsFiniteSet(0..(Slots - 1))
  <2>1. 0 \in Int /\ Slots - 1 \in Int
    BY RollupAssumption
  <2>. QED
    BY <2>1, FS_Interval
<1>4. files \in Surjection(0..(Slots - 1), sets)
  BY DEF Surjection
<1>5. IsFiniteSet(sets)
  <2>. HIDE DEF files, sets
  <2>. QED
    BY <1>3, <1>4, FS_Surjection
<1>6. \A T \in sets : IsFiniteSet(T) /\ T \subseteq Point
  BY <1>2
<1>7. OnDisk(ring) = UNION sets
  BY <1>1 DEF OnDisk
<1>. HIDE DEF sets
<1>. QED
  BY <1>5, <1>6, <1>7, FS_UNION

\* A part that is read is sorted, and complete up to its last bucket.
LEMMA WhatIsRead ==
    ASSUME TypeInv, RingsInv, ExactInv, NEW k \in Tiers, NEW part \in Parts,
           faults = 0, inOrder[k], AllApart(k)
    PROVE  AnswerOK(k, Read(sub[k][part]))
<1>1. PICK ring, D : ring = sub[k][part] /\ D = Closed(k, part)
  OBVIOUS
<1>2. RingOK(k, ring, D) /\ ring \in Rings
  BY <1>1 DEF RingsInv, RingsOK, RingOK
<1>3. IsFiniteSet(OnDisk(ring)) /\ OnDisk(ring) \subseteq Point
  BY <1>2, DiskIsFinite
<1>4. \A x \in OnDisk(ring) : x.time \in Nat
  BY <1>3 DEF Point
<1>5. ASSUME NEW x \in OnDisk(ring), NEW y \in OnDisk(ring), x.time = y.time PROVE x = y
  <2>1. x.value = y.value
    BY <1>1, <1>5 DEF ExactInv, ExactOK, StoredExact
  <2>. QED
    BY <1>3, <1>5, <2>1 DEF Point
<1>6. Ascending(Read(ring)) /\ TimesOf(Read(ring)) = {x.time : x \in OnDisk(ring)}
  BY <1>3, <1>4, <1>5, ReadIsSorted
<1>7. PICK times : times = TimesOf(Read(ring))
  OBVIOUS
<1>8. \A x \in times : x \in D
  BY <1>2, <1>6, <1>7, DiskTimes
<1>9. D \subseteq Sampled(k) /\ D \subseteq Nat /\ Sampled(k) \subseteq Nat
  BY <1>1, SampledAreNumbers DEF Closed
<1>10. ASSUME NEW c \in Sampled(k), NEW x \in times, c < x PROVE c \in times
  <2>1. c \in D
    <3>1. x \in D /\ acc[k] # NoBucket
      <4>1. acc[k] = NoBucket => Sampled(k) = {}
        BY DEF RingsInv, RingsOK
      <4>. QED
        BY <1>8, <4>1
    <3>2. acc[k].start \in Nat
      BY <3>1, BucketFacts DEF TypeInv
    <3>3. x <= acc[k].start /\ x \in Nat /\ c \in Nat
      BY <1>1, <1>9, <3>1, <3>2 DEF Closed
    <3>4. c < acc[k].start
      BY <1>10, <3>2, <3>3
    <3>. QED
      BY <1>1, <3>4 DEF Closed
  <2>2. ring.open # -1
    BY <1>2, <1>6, <1>7 DEF RingOK
  <2>3. PICK top \in D : ChunkOf(k, c) > ChunkOf(k, top) - Slots =>
                            \E q \in OnDisk(ring) : q.time = c
    BY <1>2, <2>1, <2>2 DEF RingOK
  <2>4. ChunkOf(k, top) < ChunkOf(k, c) + Slots
    BY <1>9 DEF AllApart
  <2>5. ChunkOf(k, top) \in Nat /\ ChunkOf(k, c) \in Nat /\ Slots \in Nat
    BY <1>9, ChunkOfNat, RollupAssumption
  <2>6. ChunkOf(k, c) > ChunkOf(k, top) - Slots
    BY <2>4, <2>5
  <2>. QED
    BY <1>6, <1>7, <2>3, <2>6
<1>. QED
  BY <1>1, <1>6, <1>7, <1>8, <1>9, <1>10 DEF AnswerOK

LEMMA AskedInit == Init => AskedInv
BY DEF Init, AskedInv

\* While a tier takes in samples in order, what was read of it stays complete up
\* to its last bucket.
LEMMA AskedKept ==
    ASSUME TypeInv, AskedInv, asked' = asked, faults' = 0 => faults = 0,
           \A l \in Tiers : inOrder'[l] =>
              /\ inOrder[l] /\ Sampled(l) \subseteq Sampled(l)'
              /\ \A c \in Sampled(l)', d \in Sampled(l) : c < d => c \in Sampled(l)
    PROVE  AskedInv'
<1>. SUFFICES ASSUME asked # NoQuery, faults' = 0, inOrder'[asked.tier],
                     AllApart(asked.tier)', NEW j \in 1..Len(asked.got)
              PROVE  AnswerOK(asked.tier, asked.got[j])'
  BY DEF AskedInv
<1>1. PICK l, f : l \in Tiers /\ l = asked.tier /\ f = asked.got[j]
  BY DEF TypeInv
<1>2. /\ inOrder[l] /\ Sampled(l) \subseteq Sampled(l)'
      /\ \A c \in Sampled(l)', d \in Sampled(l) : c < d => c \in Sampled(l)
  BY <1>1
<1>3. AllApart(l)
  <2>1. AllApart(l)'
    BY <1>1
  <2>2. \A b, c \in Sampled(l)' : ChunkOf(l, b) < ChunkOf(l, c) + Slots
    BY <2>1 DEF AllApart, ChunkOf
  <2>. QED
    BY <1>2, <2>2 DEF AllApart
<1>4. AnswerOK(l, f)
  BY <1>1, <1>2, <1>3 DEF AskedInv
<1>5. AnswerOK(l, f)'
  BY <1>2, <1>4 DEF AnswerOK
<1>. QED
  BY <1>1, <1>5

LEMMA AskedStep ==
    TypeInv /\ RingsInv /\ ExactInv /\ AskedInv /\ [Next]_vars => AskedInv'
<1>. SUFFICES ASSUME TypeInv, RingsInv, ExactInv, AskedInv, [Next]_vars PROVE AskedInv'
  OBVIOUS
<1>1. ASSUME NEW k \in Tiers, NEW s \in Sample, TakeIn(k, s), UNCHANGED <<asked, faults>>
      PROVE  AskedInv'
  <2>1. PICK b : b = BucketStart(k, s.time)
    OBVIOUS
  <2>2. /\ Sampled(k)' = Sampled(k) \cup {b}
        /\ \A l \in Tiers \ {k} : Sampled(l)' = Sampled(l)
        /\ inOrder'[k] => inOrder[k]
        /\ inOrder'[k] => \A c \in Sampled(k) : c <= b
        /\ \A l \in Tiers \ {k} : seen'[l] = seen[l] /\ inOrder'[l] = inOrder[l]
    BY <1>1, <2>1, SampledAfter
  <2>3. b \in Nat /\ Sampled(k) \subseteq Nat
    <3>1. s.time \in Times
      BY SampleFacts
    <3>. QED
      BY <2>1, <3>1, BucketStartFacts, SampledAreNumbers
  <2>4. ASSUME NEW l \in Tiers, inOrder'[l]
        PROVE  /\ inOrder[l] /\ Sampled(l) \subseteq Sampled(l)'
               /\ \A c \in Sampled(l)', d \in Sampled(l) : c < d => c \in Sampled(l)
    <3>1. CASE l = k
      BY <2>2, <2>3, <2>4, <3>1
    <3>2. CASE l # k
      BY <2>2, <2>4, <3>2
    <3>. QED
      BY <3>1, <3>2
  <2>. QED
    BY <1>1, <2>4, AskedKept
<1>2. ASSUME NEW p \in Producers, Accumulate(p) PROVE AskedInv'
  <2>1. work[p].tier \in Tiers /\ work[p] \in Sample /\ TakeIn(work[p].tier, work[p])
    BY <1>2, WhatAccumulateDoes
  <2>2. UNCHANGED <<asked, faults>>
    BY <1>2 DEF Accumulate
  <2>. QED
    BY <1>1, <2>1, <2>2
<1>3. CASE FinishFlush
  <2>1. Flushing \in Tiers /\ work[flush.by] \in Sample /\ TakeIn(Flushing, work[flush.by])
    BY <1>3, WhatFinishFlushDoes
  <2>2. UNCHANGED <<asked, faults>>
    BY <1>3 DEF FinishFlush
  <2>. QED
    BY <1>1, <2>1, <2>2
<1>4. ASSUME UNCHANGED <<seen, inOrder>>, asked' = asked, faults' = faults PROVE AskedInv'
  <2>1. \A l \in Tiers : Sampled(l)' = Sampled(l)
    BY <1>4 DEF Sampled, HasSamples
  <2>. QED
    BY <1>4, <2>1, AskedKept
<1>5. ASSUME \/ \E p \in Producers, r \in Readings : Consume(p, r)
             \/ \E p \in Producers : BeginFlush(p)
             \/ AppendPart \/ UNCHANGED vars
      PROVE  AskedInv'
  BY <1>4, <1>5 DEF Consume, BeginFlush, AppendPart, vars
<1>6. ASSUME FailPart \/ Restart PROVE AskedInv'
  <2>1. faults \in Nat
    BY RollupAssumption DEF TypeInv
  <2>3. faults' = faults + 1
    BY <1>6 DEF FailPart, Restart
  <2>2. faults' # 0
    BY <2>1, <2>3
  <2>. QED
    BY <2>2 DEF AskedInv
<1>7. ASSUME NEW k \in Tiers, Ask(k) PROVE AskedInv'
  <2>1. /\ asked' = [tier |-> k, got |-> <<Read(sub[k]["min"])>>]
        /\ UNCHANGED <<acc, sub, seen, inOrder, faults>>
    BY <1>7 DEF Ask
  <2>2. PICK f : f = Read(sub[k]["min"])
    OBVIOUS
  <2>3. ASSUME faults = 0, inOrder[k], AllApart(k) PROVE AnswerOK(k, f)
    BY <2>2, <2>3, WhatIsRead DEF Parts
  <2>4. AllApart(k)' <=> AllApart(k)
    BY <2>1 DEF AllApart, Sampled, HasSamples
  <2>5. AnswerOK(k, f) => AnswerOK(k, f)'
    BY <2>1 DEF AnswerOK, Sampled, HasSamples
  <2>6. asked'.tier = k /\ Len(asked'.got) = 1 /\ asked'.got[1] = f
    BY <2>1, <2>2
  <2>7. \A j \in 1..Len(asked'.got) : asked'.got[j] = f
    BY <2>6
  <2>. QED
    BY <2>1, <2>3, <2>4, <2>5, <2>6, <2>7 DEF AskedInv
<1>8. CASE ReadNext
  <2>1. PICK part \in Parts :
          /\ asked' = [asked EXCEPT !.got = Append(@, Read(sub[asked.tier][part]))]
          /\ UNCHANGED <<acc, sub, seen, inOrder, faults>>
    BY <1>8 DEF ReadNext, Parts
  <2>2. asked # NoQuery
    BY <1>8 DEF ReadNext
  <2>3. \E X : \E k \in Tiers, got \in Seq(X) :
          k = asked.tier /\ got = asked.got /\ asked = [tier |-> k, got |-> got]
    BY <2>2 DEF TypeInv
  <2>. PICK X : \E k \in Tiers, got \in Seq(X) :
          k = asked.tier /\ got = asked.got /\ asked = [tier |-> k, got |-> got]
    BY <2>3
  <2>30. PICK k \in Tiers, got \in Seq(X) :
          k = asked.tier /\ got = asked.got /\ asked = [tier |-> k, got |-> got]
    OBVIOUS
  <2>4. PICK f : f = Read(sub[k][part])
    OBVIOUS
  <2>5. asked' = [tier |-> k, got |-> Append(got, f)]
    BY <2>1, <2>30, <2>4
  <2>6. /\ Len(Append(got, f)) = Len(got) + 1 /\ Len(got) \in Nat
        /\ \A j \in 1..Len(got) : Append(got, f)[j] = got[j]
        /\ Append(got, f)[Len(got) + 1] = f
    <3>1. got \in Seq(X \cup {f})
      <4>1. \A j \in 1..Len(got) : got[j] \in X \cup {f}
        BY <2>30, ElementOfSeq
      <4>2. Len(got) \in Nat /\ got = [j \in 1..Len(got) |-> got[j]]
        BY <2>30, LenProperties
      <4>. QED
        BY <4>1, <4>2
    <3>. QED
      BY <3>1, AppendProperties, LenProperties
  <2>7. ASSUME faults = 0, inOrder[k], AllApart(k)
        PROVE  AnswerOK(k, f) /\ \A j \in 1..Len(got) : AnswerOK(k, got[j])
    <3>1. AnswerOK(k, f)
      BY <2>4, <2>7, WhatIsRead
    <3>2. \A j \in 1..Len(got) : AnswerOK(k, got[j])
      BY <2>2, <2>30, <2>7 DEF AskedInv
    <3>. QED
      BY <3>1, <3>2
  <2>8. AllApart(k)' <=> AllApart(k)
    BY <2>1 DEF AllApart, Sampled, HasSamples
  <2>9. \A g : AnswerOK(k, g) => AnswerOK(k, g)'
    BY <2>1 DEF AnswerOK, Sampled, HasSamples
  <2>10. asked'.tier = k /\ asked'.got = Append(got, f)
    BY <2>5
  <2>11. ASSUME faults = 0, inOrder[k], AllApart(k),
                NEW j \in 1..Len(Append(got, f))
         PROVE  AnswerOK(k, Append(got, f)[j])
    <3>1. j \in 1..Len(got) \/ j = Len(got) + 1
      BY <2>6
    <3>. QED
      BY <2>6, <2>7, <2>11, <3>1
  <2>. QED
    BY <2>1, <2>8, <2>9, <2>10, <2>11 DEF AskedInv
<1>9. CASE Return
  BY <1>9 DEF Return, AskedInv
<1>. QED
  BY <1>2, <1>3, <1>5, <1>6, <1>7, <1>8, <1>9 DEF Next

LEMMA AskedAlways == Spec => []AskedInv
<1>. QED
  BY AskedInit, AskedStep, TypeAlways, RingsAlways, ExactAlways, PTL DEF Spec

\* A query that overlaps a flush, and reads the three sub-series at different
\* moments, zips parts of the same bucket: without failures, in order, and
\* before the ring wraps round (queryAgg over three QueryRanges).
THEOREM RowsAlwaysAlignedDuringFlush == Spec => []RowsAlignedDuringFlush
<1>1. TypeInv /\ OrderInv /\ RingsInv /\ AskedInv => RowsAlignedDuringFlush
  <2>. SUFFICES ASSUME TypeInv, OrderInv, RingsInv, AskedInv, Answered, faults = 0,
                       inOrder[asked.tier], NothingWrapped(asked.tier)
                PROVE  RowsAligned
    BY DEF RowsAlignedDuringFlush
  <2>1. PICK k, got : k \in Tiers /\ k = asked.tier /\ got = asked.got /\ Len(got) = 3
    BY DEF TypeInv, Answered
  <2>2. AllApart(k)
    <3>1. ASSUME NEW c \in Sampled(k) PROVE c \in Buckets(k) /\ HasSamples(k, c) /\ c <= acc[k].start
      <4>1. acc[k] # NoBucket
        BY <2>1, <3>1 DEF RingsInv, RingsOK
      <4>. QED
        BY <2>1, <3>1, <4>1 DEF OrderInv, Sampled
    <3>2. NothingWrapped(k)
      BY <2>1
    <3>. QED
      BY <3>1, <3>2 DEF NothingWrapped, AllApart
  <2>3. \A j \in 1..3 : AnswerOK(k, got[j])
    BY <2>1, <2>2 DEF AskedInv, Answered
  <2>. DEFINE lengths == {Len(got[i]) : i \in 1..3}
  <2>4. \A j \in 1..3 : Len(got[j]) \in Nat
    BY <2>3 DEF AnswerOK, Ascending
  <2>5. Min(lengths) \in Nat /\ \A j \in 1..3 : Min(lengths) <= Len(got[j])
    <3>1. lengths \subseteq Nat /\ lengths # {}
      <4>1. Len(got[1]) \in lengths
        OBVIOUS
      <4>. QED
        BY <2>4, <4>1
    <3>2. \A j \in 1..3 : Len(got[j]) \in lengths
      OBVIOUS
    <3>. HIDE DEF lengths
    <3>3. PICK m \in lengths : \A n \in lengths : m <= n
      BY <3>1, LeastNumber
    <3>4. Min(lengths) \in lengths /\ \A n \in lengths : Min(lengths) <= n
      BY <3>3 DEF Min
    <3>. QED
      BY <3>1, <3>2, <3>4
  <2>6. ASSUME NEW i \in Rows, NEW j \in 1..3
        PROVE  i <= Len(got[j]) /\ got[j][i].time = got[1][i].time
    <3>1. i \in 1..Min(lengths)
      BY <2>1 DEF Rows
    <3>. HIDE DEF lengths
    <3>2. i \in Nat \ {0} /\ i <= Len(got[j]) /\ i <= Len(got[1])
      BY <2>4, <2>5, <3>1
    <3>3. PICK f, g : f = got[j] /\ g = got[1]
      OBVIOUS
    <3>4. AnswerOK(k, f) /\ AnswerOK(k, g)
      BY <2>3, <3>3
    <3>5. \A x \in TimesOf(f), y \in TimesOf(g) :
             (y < x => y \in TimesOf(f)) /\ (x < y => x \in TimesOf(g))
      BY <3>4 DEF AnswerOK
    <3>6. f[i].time = g[i].time
      BY <3>2, <3>3, <3>4, <3>5, SamePlaces DEF AnswerOK
    <3>. QED
      BY <3>2, <3>3, <3>6
  <2>. QED
    BY <2>1, <2>6 DEF RowsAligned
<1>. QED
  BY <1>1, TypeAlways, OrderAlways, RingsAlways, AskedAlways, PTL

=============================================================================
