-------------------------- MODULE SeriesRingProofs --------------------------
(***************************************************************************)
(* Theorems about SeriesRing, and about RingQuery, which adds a query to   *)
(* it, for every ring size, retention, interval and set of timestamps, and *)
(* any number of failures, kills and deletions.                            *)
(***************************************************************************)
EXTENDS RingQuery, WellFoundedInduction, TLAPS

-----------------------------------------------------------------------------
(* Arithmetic of chunk numbers and slots *)

\* Every non-empty set of naturals has a least element.
LEMMA LeastNatural ==
    ASSUME NEW S, S \subseteq Nat, S # {}
    PROVE  \E x \in S : \A y \in S : x <= y
<1>. DEFINE R == OpToRel(<, Nat)
<1>1. PICK x \in S : \A y \in S : <<y, x>> \notin R
  <2>. HIDE DEF R
  <2>1. IsWellFoundedOn(R, Nat)
    BY NatLessThanWellFounded DEF R
  <2>. QED
    BY <2>1, WFMin
<1>2. \A y \in S : ~ (y < x)
  BY <1>1 DEF OpToRel
<1>. QED
  BY <1>2

LEMMA ChunkSecondsPos == ChunkSeconds \in Nat \ {0}
<1>1. Retention \div Interval \in Int /\ Interval \div TicksPerSecond \in Int
  BY RingAssumption
<1>2. TotalPoints \in Nat \ {0}
  BY <1>1 DEF TotalPoints, AtLeastOne
<1>3. MaxPointsPerChunk \in Nat \ {0}
  <2>1. TotalPoints \div Slots \in Int
    BY <1>2, RingAssumption
  <2>. QED
    BY <2>1 DEF MaxPointsPerChunk, AtLeastOne
<1>4. AtLeastOne(Interval \div TicksPerSecond) \in Nat \ {0}
  BY <1>1 DEF AtLeastOne
<1>. QED
  BY <1>3, <1>4 DEF ChunkSeconds

LEMMA ChunkNumInt ==
    ASSUME NEW s \in Int
    PROVE  ChunkNum(s) \in Int
BY ChunkSecondsPos DEF ChunkNum

LEMMA ChunkNumNat ==
    ASSUME NEW s \in Nat
    PROVE  ChunkNum(s) \in Nat
BY ChunkSecondsPos DEF ChunkNum

LEMMA ChunkNumMonotone ==
    ASSUME NEW s \in Int, NEW t \in Int, s <= t
    PROVE  ChunkNum(s) <= ChunkNum(t)
<1>. DEFINE c == ChunkSeconds
<1>1. c \in Nat \ {0}
  BY ChunkSecondsPos
<1>. HIDE DEF c
<1>2. s \div c <= t \div c
  BY <1>1
<1>. QED
  BY <1>2 DEF ChunkNum, c

LEMMA SlotInRing ==
    ASSUME NEW s \in Int
    PROVE  SlotOf(s) \in Ring
BY ChunkNumInt, RingAssumption DEF SlotOf, Ring

\* Two chunk numbers fewer than Slots apart share a slot only when equal.
LEMMA SameSlotSameChunk ==
    ASSUME NEW s \in Int, NEW t \in Int, SlotOf(s) = SlotOf(t),
           ChunkNum(s) <= ChunkNum(t), ChunkNum(s) > ChunkNum(t) - Slots
    PROVE  ChunkNum(s) = ChunkNum(t)
<1>. DEFINE a == ChunkNum(s)
            b == ChunkNum(t)
<1>1. a \in Int /\ b \in Int /\ Slots \in Nat \ {0} /\ a % Slots = b % Slots
  BY ChunkNumInt, RingAssumption DEF SlotOf
<1>. HIDE DEF a, b
<1>2. a = Slots * (a \div Slots) + (a % Slots) /\ a \div Slots \in Int
  BY <1>1
<1>3. b = Slots * (b \div Slots) + (b % Slots) /\ b \div Slots \in Int
  BY <1>1
<1>. DEFINE qa == a \div Slots
            qb == b \div Slots
            r == a % Slots
<1>4. /\ qa \in Int /\ qb \in Int /\ r \in Int
      /\ a = Slots * qa + r /\ b = Slots * qb + r
  BY <1>1, <1>2, <1>3
<1>. HIDE DEF qa, qb, r
<1>5. a <= b /\ b - a < Slots
  BY <1>1 DEF a, b
<1>6. b - a = Slots * (qb - qa)
  BY <1>1, <1>4
<1>7. ~ (qb - qa >= 1)
  <2>1. qb - qa >= 1 => Slots * (qb - qa) >= Slots
    BY <1>1, <1>4
  <2>. QED
    BY <1>1, <1>4, <1>5, <1>6, <2>1
<1>8. ~ (qb - qa <= -1)
  <2>1. qb - qa <= -1 => Slots * (qb - qa) <= -Slots
    BY <1>1, <1>4
  <2>. QED
    BY <1>1, <1>4, <1>5, <1>6, <2>1
<1>9. qa = qb
  BY <1>4, <1>7, <1>8
<1>. QED
  BY <1>4, <1>9 DEF a, b

-----------------------------------------------------------------------------
(* Chunks *)

LEMMA ChunkElement ==
    ASSUME NEW pts \in Chunks
    PROVE  /\ Len(pts) \in Nat
           /\ \A i \in 1..Len(pts) :
                 /\ pts[i] \in Points
                 /\ pts[i].sec \in Int
                 /\ pts[i].val \in BitSets
<1>1. \A p \in Points : p.sec \in Int /\ p.val \in BitSets
  BY DEF Points
<1>2. Len(pts) \in Nat /\ \A i \in 1..Len(pts) : pts[i] \in Points
  <2>. DEFINE P == Points
  <2>1. pts \in Seq(P)
    BY DEF Chunks
  <2>. HIDE DEF P
  <2>2. Len(pts) \in Nat /\ \A i \in 1..Len(pts) : pts[i] \in P
    BY <2>1
  <2>. QED
    BY <2>2 DEF P
<1>. QED
  BY <1>1, <1>2

LEMMA LastOfChunk ==
    ASSUME NEW pts \in Chunks, pts # <<>>
    PROVE  /\ Len(pts) \in 1..Len(pts)
           /\ pts[Len(pts)] \in Points
           /\ pts[Len(pts)].sec \in Int
<1>1. Len(pts) \in 1..Len(pts)
  BY DEF Chunks
<1>. QED
  BY <1>1, ChunkElement

\* What write's in-order branch and its rotation branch leave in memory.
LEMMA AppendChunk ==
    ASSUME NEW pts \in Chunks, NEW p \in Points
    PROVE  /\ Append(pts, p) \in Chunks
           /\ Append(pts, p) # <<>>
           /\ Content(Append(pts, p)) = Content(pts) \cup {p}
<1>. DEFINE ext == Append(pts, p)
            n == Len(pts)
<1>1. /\ ext \in Chunks /\ n \in Nat /\ Len(ext) = n + 1
      /\ \A i \in 1..n : ext[i] = pts[i] /\ pts[i] \in Points
      /\ ext[n + 1] = p
  BY ChunkElement DEF Chunks
<1>2. Content(ext) = Content(pts) \cup {p}
  <2>1. \A q : q \in Content(ext) <=> \E i \in 1..(n + 1) : q = ext[i]
    BY <1>1 DEF Content
  <2>2. \A q : q \in Content(pts) <=> \E i \in 1..n : q = pts[i]
    BY DEF Content
  <2>3. \A q : (\E i \in 1..(n + 1) : q = ext[i])
                 <=> (\E i \in 1..n : q = pts[i]) \/ q = p
    BY <1>1
  <2>. HIDE DEF ext, n
  <2>. QED
    BY <2>1, <2>2, <2>3
<1>3. ext # <<>>
  BY <1>1
<1>. QED
  BY <1>1, <1>2, <1>3

LEMMA AppendWellFormed ==
    ASSUME NEW pts \in Chunks, NEW idx, WellFormed(pts, idx),
           NEW p \in Points, SlotOf(p.sec) = idx,
           pts # <<>> => pts[Len(pts)].sec < p.sec
    PROVE  WellFormed(Append(pts, p), idx)
<1>. DEFINE ext == Append(pts, p)
            n == Len(pts)
<1>1. /\ n \in Nat /\ Len(ext) = n + 1
      /\ \A i \in 1..n : ext[i] = pts[i] /\ pts[i] \in Points
      /\ ext[n + 1] = p
  BY ChunkElement DEF Chunks
<1>2. \A i \in 1..n : pts[i].sec \in Int /\ pts[i].sec < p.sec
  <2>. SUFFICES ASSUME NEW i \in 1..n
                PROVE  pts[i].sec \in Int /\ pts[i].sec < p.sec
    OBVIOUS
  <2>1. pts # <<>> /\ n \in 1..n /\ (i < n \/ i = n)
    BY <1>1
  <2>2. /\ pts[i].sec \in Int /\ pts[n].sec \in Int /\ p.sec \in Int
        /\ pts[n].sec < p.sec
    BY <2>1, ChunkElement DEF Points
  <2>3. i < n => pts[i].sec < pts[n].sec
    BY <2>1 DEF WellFormed
  <2>. QED
    BY <2>1, <2>2, <2>3
<1>3. \A i \in 1..Len(ext) : SlotOf(ext[i].sec) = idx
  BY <1>1 DEF WellFormed
<1>4. \A i, j \in 1..Len(ext) : i < j => ext[i].sec < ext[j].sec
  <2>. SUFFICES ASSUME NEW i \in 1..(n + 1), NEW j \in 1..(n + 1), i < j
                PROVE  ext[i].sec < ext[j].sec
    BY <1>1
  <2>1. CASE j = n + 1
    BY <1>1, <1>2, <2>1
  <2>2. CASE j # n + 1
    BY <1>1, <2>2 DEF WellFormed
  <2>. QED
    BY <2>1, <2>2
<1>. QED
  BY <1>3, <1>4 DEF WellFormed

LEMMA SingletonWellFormed ==
    ASSUME NEW p \in Points
    PROVE  /\ <<p>> \in Chunks
           /\ <<p>> # <<>>
           /\ WellFormed(<<p>>, SlotOf(p.sec))
           /\ Content(<<p>>) = {p}
BY DEF Chunks, WellFormed, Content

LEMMA EmptyWellFormed ==
    ASSUME NEW idx
    PROVE  <<>> \in Chunks /\ WellFormed(<<>>, idx)
BY DEF Chunks, WellFormed

-----------------------------------------------------------------------------
(* What decodeChunk makes of a chunk *)

\* Running sums, the form of both recursive functions of the decoder.
Summable(lo, n, first, inc) ==
    /\ lo \in Int /\ n \in Int
    /\ lo <= n => first \in Int
    /\ \A i \in lo..n : i # lo => inc[i] \in Int

AreSums(f, lo, n, first, inc) ==
    f = [i \in lo..n |-> IF i = lo THEN first ELSE f[i - 1] + inc[i]]

LEMMA SumsExist ==
    ASSUME NEW lo, NEW n, NEW first, NEW inc, Summable(lo, n, first, inc)
    PROVE  \E f : AreSums(f, lo, n, first, inc)
<1>0. /\ lo \in Int /\ n \in Int
      /\ lo <= n => first \in Int
      /\ \A i \in lo..n : i # lo => inc[i] \in Int
  BY DEF Summable
<1>. DEFINE Sums(m) ==
              \E f \in [lo..m -> Int] :
                 \A i \in lo..m : f[i] = IF i = lo THEN first ELSE f[i - 1] + inc[i]
            Bad == {k \in Nat : lo + k - 1 <= n /\ ~Sums(lo + k - 1)}
<1>1. Bad = {}
  <2>. SUFFICES ASSUME Bad # {}
                PROVE  FALSE
    OBVIOUS
  <2>1. PICK k \in Bad : \A l \in Bad : k <= l
    <3>. HIDE DEF Sums
    <3>1. Bad \subseteq Nat
      OBVIOUS
    <3>. HIDE DEF Bad
    <3>. QED
      BY <3>1, LeastNatural
  <2>. DEFINE m == lo + k - 1
  <2>2. k \in Nat /\ m \in Int /\ m <= n /\ ~Sums(m) /\ lo \in Int /\ n \in Int
    BY <1>0
  <2>3. Sums(lo - 1)
    <3>1. lo..(lo - 1) = {}
      BY <1>0
    <3>2. [i \in lo..(lo - 1) |-> 0] \in [lo..(lo - 1) -> Int]
      OBVIOUS
    <3>. QED
      BY <3>1, <3>2
  <2>4. k # 0
    BY <2>2, <2>3
  <2>5. k - 1 \in Nat /\ lo + (k - 1) - 1 = m - 1 /\ m - 1 <= n /\ lo <= m
    BY <2>2, <2>4
  <2>6. Sums(m - 1)
    <3>. HIDE DEF Sums
    <3>1. k - 1 \notin Bad
      BY <2>1, <2>2, <2>5
    <3>. QED
      BY <3>1, <2>5
  <2>7. PICK f \in [lo..(m - 1) -> Int] :
           \A i \in lo..(m - 1) : f[i] = IF i = lo THEN first ELSE f[i - 1] + inc[i]
    BY <2>6
  <2>. DEFINE top == IF m = lo THEN first ELSE f[m - 1] + inc[m]
              g == [i \in lo..m |-> IF i = m THEN top ELSE f[i]]
  <2>8. top \in Int
    <3>1. CASE m = lo
      BY <1>0, <3>1, <2>2
    <3>2. CASE m # lo
      <4>1. m - 1 \in lo..(m - 1) /\ m \in lo..n
        BY <3>2, <2>2, <2>5
      <4>. QED
        BY <1>0, <3>2, <4>1, <2>7
    <3>. QED
      BY <3>1, <3>2
  <2>9. \A i \in lo..m : i = m \/ i \in lo..(m - 1)
    BY <2>2
  <2>. HIDE DEF m
  <2>10. g \in [lo..m -> Int]
    <3>. HIDE DEF top
    <3>. QED
      BY <2>7, <2>8, <2>9
  <2>11. \A i \in lo..m : g[i] = IF i = lo THEN first ELSE g[i - 1] + inc[i]
    <3>. SUFFICES ASSUME NEW i \in lo..m
                  PROVE  g[i] = IF i = lo THEN first ELSE g[i - 1] + inc[i]
      OBVIOUS
    <3>1. i # lo => i - 1 \in lo..m /\ i - 1 # m
      BY <2>2
    <3>2. CASE i = m
      BY <3>1, <3>2
    <3>3. CASE i # m
      BY <3>1, <3>3, <2>7, <2>9
    <3>. QED
      BY <3>2, <3>3
  <2>. QED
    BY <2>2, <2>10, <2>11
<1>2. Sums(n)
  <2>1. CASE lo <= n
    <3>. DEFINE k == n - lo + 1
    <3>1. k \in Nat /\ lo + k - 1 = n /\ n <= n
      BY <1>0, <2>1
    <3>. HIDE DEF Sums, k
    <3>2. Sums(lo + k - 1)
      BY <1>1, <3>1
    <3>. QED
      BY <3>1, <3>2
  <2>2. CASE ~(lo <= n)
    <3>1. lo..n = {}
      BY <1>0, <2>2
    <3>2. [i \in lo..n |-> 0] \in [lo..n -> Int]
      OBVIOUS
    <3>. QED
      BY <3>1, <3>2
  <2>. QED
    BY <2>1, <2>2
<1>3. PICK f \in [lo..n -> Int] :
         \A i \in lo..n : f[i] = IF i = lo THEN first ELSE f[i - 1] + inc[i]
  BY <1>2
<1>4. f = [i \in lo..n |-> IF i = lo THEN first ELSE f[i - 1] + inc[i]]
  BY <1>3
<1>. QED
  BY <1>4 DEF AreSums

\* Whatever satisfies that equation is integers throughout.
LEMMA SumsAreInts ==
    ASSUME NEW lo, NEW n, NEW first, NEW inc, Summable(lo, n, first, inc),
           NEW g, AreSums(g, lo, n, first, inc)
    PROVE  \A i \in lo..n : g[i] \in Int
<1>0. /\ lo \in Int /\ n \in Int
      /\ lo <= n => first \in Int
      /\ \A i \in lo..n : i # lo => inc[i] \in Int
      /\ g = [i \in lo..n |-> IF i = lo THEN first ELSE g[i - 1] + inc[i]]
  BY DEF Summable, AreSums
<1>. DEFINE Bad == {k \in Nat : lo + k <= n /\ g[lo + k] \notin Int}
<1>1. Bad = {}
  <2>. SUFFICES ASSUME Bad # {}
                PROVE  FALSE
    OBVIOUS
  <2>1. PICK k \in Bad : \A l \in Bad : k <= l
    <3>1. Bad \subseteq Nat
      OBVIOUS
    <3>. HIDE DEF Bad
    <3>. QED
      BY <3>1, LeastNatural
  <2>2. k \in Nat /\ lo \in Int /\ n \in Int /\ lo + k \in lo..n /\ g[lo + k] \notin Int
    BY <1>0
  <2>3. g[lo + k] = IF lo + k = lo THEN first ELSE g[lo + k - 1] + inc[lo + k]
    BY <1>0, <2>2
  <2>4. CASE k = 0
    BY <1>0, <2>2, <2>3, <2>4
  <2>5. CASE k # 0
    <3>1. k - 1 \in Nat /\ lo + (k - 1) = lo + k - 1 /\ lo + k - 1 <= n
      BY <2>2, <2>5
    <3>2. k - 1 \notin Bad
      <4>. HIDE DEF Bad
      <4>. QED
        BY <2>1, <2>2, <3>1
    <3>3. g[lo + k - 1] \in Int
      BY <3>1, <3>2
    <3>4. inc[lo + k] \in Int /\ lo + k # lo
      BY <1>0, <2>2, <2>5
    <3>. QED
      BY <2>2, <2>3, <3>3, <3>4
  <2>. QED
    BY <2>4, <2>5
<1>2. ASSUME NEW i \in lo..n
      PROVE  g[i] \in Int
  <2>1. i - lo \in Nat /\ lo + (i - lo) = i /\ i <= n
    BY <1>0
  <2>2. i - lo \notin Bad
    BY <1>1
  <2>. QED
    BY <2>1, <2>2
<1>. QED
  BY <1>2

LEMMA SignedReadInt ==
    ASSUME NEW v \in Int, NEW h \in Nat \ {0}
    PROVE  SignedRead(SignedWritten(v, h), h) \in Int
BY DEF SignedRead, SignedWritten

LEMMA DodReadInt ==
    ASSUME NEW d \in Int
    PROVE  DodRead(DodWritten(d)) \in Int
<1>1. CASE d = 0
  BY <1>1 DEF DodRead, DodWritten, Bucket
<1>2. CASE d # 0
  <2>. DEFINE k == Bucket(d)
  <2>1. k \in 1..4
    BY <1>2 DEF Bucket
  <2>. HIDE DEF k
  <2>2. Half[k] \in Nat \ {0}
    BY <2>1, HalfAssumption
  <2>3. DodWritten(d) = [bucket |-> k, bits |-> SignedWritten(d, Half[k])]
    BY <1>2 DEF DodWritten, k
  <2>4. DodRead(DodWritten(d)) = SignedRead(SignedWritten(d, Half[k]), Half[k])
    BY <2>1, <2>3 DEF DodRead
  <2>. QED
    BY <2>2, <2>4, SignedReadInt
<1>. QED
  BY <1>1, <1>2

\* Decoding keeps the number of points and their values; only seconds differ.
LEMMA DecodedIsChunk ==
    ASSUME NEW pts \in Chunks
    PROVE  /\ Decoded(pts) \in Chunks
           /\ Decoded(pts) = <<>> <=> pts = <<>>
<1>. DEFINE n == Len(pts)
<1>1. n \in Nat /\ \A i \in 1..n : pts[i] \in Points /\ pts[i].sec \in Int
  BY ChunkElement
<1>2. \A i \in 2..n : Delta(pts, i) \in Int
  <2>. SUFFICES ASSUME NEW i \in 2..n
                PROVE  Delta(pts, i) \in Int
    OBVIOUS
  <2>1. i \in 1..n /\ i - 1 \in 1..n
    BY <1>1
  <2>. QED
    BY <1>1, <2>1 DEF Delta
<1>. DEFINE first == FirstDeltaRead(Delta(pts, 2))
            inc == [i \in 2..n |-> DodRead(DodWritten(Dod(pts, i)))]
            d == DecodedDeltas(pts)
            s == DecodedSecs(pts)
<1>3. 2 <= n => first \in Int
  <2>. SUFFICES ASSUME 2 <= n
                PROVE  first \in Int
    OBVIOUS
  <2>1. Half[4] \in Nat \ {0} /\ Delta(pts, 2) \in Int
    BY <1>1, <1>2, HalfAssumption
  <2>. QED
    BY <2>1, SignedReadInt DEF FirstDeltaRead
<1>4. \A i \in 2..n : i # 2 => inc[i] \in Int
  <2>. SUFFICES ASSUME NEW i \in 2..n, i # 2
                PROVE  inc[i] \in Int
    OBVIOUS
  <2>1. Dod(pts, i) \in Int
    <3>1. i - 1 \in 2..n
      BY <1>1
    <3>. QED
      BY <1>2, <3>1 DEF Dod
  <2>. QED
    BY <2>1, DodReadInt
<1>5. \A i \in 2..n : d[i] \in Int
  <2>1. Summable(2, n, first, inc)
    <3>. HIDE DEF first, inc
    <3>. QED
      BY <1>1, <1>3, <1>4 DEF Summable
  <2>2. \E f : AreSums(f, 2, n, first, inc)
    <3>. HIDE DEF first, inc, n
    <3>. QED
      BY <2>1, SumsExist
  <2>3. \A f : AreSums(f, 2, n, first, inc)
                <=> f = [i \in 2..n |-> IF i = 2 THEN first
                            ELSE f[i - 1] + DodRead(DodWritten(Dod(pts, i)))]
    <3>. HIDE DEF first
    <3>. QED
      BY DEF AreSums
  <2>4. d = CHOOSE f : f = [i \in 2..n |-> IF i = 2 THEN first
                               ELSE f[i - 1] + DodRead(DodWritten(Dod(pts, i)))]
    BY DEF DecodedDeltas
  <2>. HIDE DEF d, first, inc, n
  <2>5. AreSums(d, 2, n, first, inc)
    BY <2>2, <2>3, <2>4
  <2>. QED
    BY <2>1, <2>5, SumsAreInts
<1>6. \A i \in 1..n : s[i] \in Int
  <2>. DEFINE start == pts[1].sec
  <2>1. Summable(1, n, start, d)
    <3>. HIDE DEF d
    <3>. QED
      BY <1>1, <1>5 DEF Summable
  <2>2. \E f : AreSums(f, 1, n, start, d)
    <3>. HIDE DEF d, start, n
    <3>. QED
      BY <2>1, SumsExist
  <2>3. \A f : AreSums(f, 1, n, start, d)
                <=> f = [i \in 1..n |-> IF i = 1 THEN start ELSE f[i - 1] + d[i]]
    BY DEF AreSums
  <2>4. s = CHOOSE f : f = [i \in 1..n |-> IF i = 1 THEN start ELSE f[i - 1] + d[i]]
    BY DEF DecodedSecs
  <2>. HIDE DEF s, d, start, n
  <2>5. AreSums(s, 1, n, start, d)
    BY <2>2, <2>3, <2>4
  <2>. QED
    BY <2>1, <2>5, SumsAreInts
<1>7. \A i \in 1..n : [pts[i] EXCEPT !.sec = s[i]] \in Points
  <2>. HIDE DEF s
  <2>. QED
    BY <1>1, <1>6 DEF Points
<1>8. Decoded(pts) = [i \in 1..n |-> [pts[i] EXCEPT !.sec = s[i]]]
  BY DEF Decoded
<1>. HIDE DEF n, s
<1>9. Decoded(pts) \in Seq(Points) /\ Len(Decoded(pts)) = n
  BY <1>1, <1>7, <1>8
<1>. QED
  BY <1>9 DEF Chunks, n

-----------------------------------------------------------------------------
(* Types, control and the shape of chunks *)

\* Where an append in progress may stand: only in a running process, with a
\* sample in hand while it creates the series, with a registered series and
\* an open slot once it writes.
ControlOK ==
    /\ pc # "idle" => phase = "up"
    /\ pc \in {"mkdirSeries", "openMeta", "writeMeta", "append"} => job \in Samples
    /\ pc \in {"append", "mkdir", "openChunk", "writeChunk"} => known
    /\ pc \in {"mkdir", "openChunk", "writeChunk"} =>
          openChunkPoints # <<>> /\ openChunkIndex \in Ring
    /\ known => phase = "up"

\* As long as `exact` says so, every file is one that the codec brings back.
FilesExact == exact => \A i \in Ring : CodecExact(file[i].pts)

ShapeInv == TypeOK /\ ControlOK /\ ChunksWellFormed /\ FilesExact

\* A chunk file, whatever its timestamps, decodes to a chunk.
LEMMA ReadBackChunk ==
    ASSUME ShapeInv, NEW i \in Ring
    PROVE  /\ ReadBack(i) \in Chunks
           /\ ReadBack(i) = <<>> <=> file[i].pts = <<>>
<1>1. file[i].pts \in Chunks
  BY DEF ShapeInv, TypeOK
<1>. QED
  BY <1>1, DecodedIsChunk DEF ReadBack

\* Reading an exact chunk file back gives the points written to it.
LEMMA ReadBackIsFile ==
    ASSUME ShapeInv, exact, NEW i \in Ring
    PROVE  ReadBack(i) = file[i].pts
BY DEF ShapeInv, FilesExact, ReadBack

LEMMA EmptyExact == CodecExact(<<>>)
BY DEF CodecExact

LEMMA SamplesArePoints ==
    /\ Samples \subseteq Points
    /\ \A p \in Samples : p.sec \in Nat
<1>1. Seconds \subseteq Nat
  BY RingAssumption
<1>2. ASSUME NEW p \in Samples
      PROVE  p \in Points
  <2>1. PICK s \in Seconds, v \in BitSets : p = [sec |-> s, val |-> v]
    BY Zenon DEF Samples
  <2>2. s \in Int
    BY <1>1
  <2>. QED
    BY <2>1, <2>2 DEF Points
<1>3. \A p \in Samples : p.sec \in Nat
  BY <1>1, Zenon DEF Samples
<1>. QED
  BY <1>2, <1>3

LEMMA StoredInSamples ==
    ASSUME NEW s \in Seconds, NEW v \in Readings, NEW a \in Flags
    PROVE  Stored(s, v, a) \in Samples
<1>1. v \subseteq 0..(ValueBits - 1) /\ 0 \in 0..(ValueBits - 1)
  BY RingAssumption, WidthAssumption DEF BitSets
<1>2. EncodeAnomalyBit(v, a) \in BitSets
  BY <1>1 DEF EncodeAnomalyBit, BitSets
<1>. QED
  BY <1>2 DEF Stored, Samples

-----------------------------------------------------------------------------
(* loadSeries finds a chunk to resume *)

\* Finitely many chunks have a latest second.
LEMMA LastSecsBounded ==
    ASSUME ShapeInv
    PROVE  \E b \in Nat : \A i \in Resumable : LastSec(i) \in Nat /\ LastSec(i) <= b
<1>1. \A i \in Resumable : i \in Ring /\ LastSec(i) \in Nat
  <2>. SUFFICES ASSUME NEW i \in Resumable
                PROVE  i \in Ring /\ LastSec(i) \in Nat
    OBVIOUS
  <2>1. i \in Ring /\ ReadBack(i) # <<>>
    BY DEF Resumable
  <2>2. ReadBack(i) \in Chunks /\ LastSec(i) > -1
    BY <2>1, ReadBackChunk DEF Resumable
  <2>3. LastSec(i) \in Int
    BY <2>1, <2>2, LastOfChunk DEF LastSec
  <2>. QED
    BY <2>1, <2>2, <2>3
<1>. DEFINE BoundedUpTo(k) ==
              \E b \in Nat : \A i \in Resumable : i < k => LastSec(i) <= b
            Bad == {k \in Nat : ~BoundedUpTo(k)}
<1>2. \A i \in Resumable : i \in Nat /\ i < Slots
  BY <1>1, RingAssumption DEF Ring
<1>3. Bad = {}
  <2>. SUFFICES ASSUME Bad # {}
                PROVE  FALSE
    OBVIOUS
  <2>1. PICK k \in Bad : \A l \in Bad : k <= l
    <3>. HIDE DEF BoundedUpTo
    <3>1. Bad \subseteq Nat
      OBVIOUS
    <3>. HIDE DEF Bad
    <3>. QED
      BY <3>1, LeastNatural
  <2>2. k \in Nat /\ ~BoundedUpTo(k)
    OBVIOUS
  <2>3. BoundedUpTo(0)
    BY <1>2
  <2>4. k - 1 \in Nat /\ BoundedUpTo(k - 1)
    <3>1. k - 1 \in Nat
      BY <2>2, <2>3
    <3>2. k - 1 \notin Bad
      BY <2>1, <2>2, <3>1
    <3>. QED
      BY <3>1, <3>2
  <2>5. PICK b \in Nat : \A i \in Resumable : i < k - 1 => LastSec(i) <= b
    BY <2>4
  <2>6. \A i \in Resumable : i < k => i < k - 1 \/ i = k - 1
    BY <1>2, <2>2
  <2>7. CASE k - 1 \in Resumable
    <3>. DEFINE c == IF b < LastSec(k - 1) THEN LastSec(k - 1) ELSE b
    <3>1. c \in Nat /\ b <= c /\ LastSec(k - 1) <= c
      BY <1>1, <2>7
    <3>2. \A i \in Resumable : i < k => LastSec(i) <= c
      <4>. HIDE DEF c
      <4>. QED
        BY <1>1, <2>5, <2>6, <3>1
    <3>. QED
      BY <2>2, <3>1, <3>2
  <2>8. CASE k - 1 \notin Resumable
    <3>1. \A i \in Resumable : i < k => LastSec(i) <= b
      BY <2>5, <2>6, <2>8
    <3>. QED
      BY <2>2, <3>1
  <2>. QED
    BY <2>7, <2>8
<1>4. BoundedUpTo(Slots)
  BY <1>3, RingAssumption
<1>. QED
  BY <1>1, <1>2, <1>4

\* The index that loadSeries resumes, when some chunk has points: the latest
\* chunk, the lowest of them when several end at the same second.
LEMMA ResumeIndexLatest ==
    ASSUME ShapeInv, Resumable # {}
    PROVE  /\ ResumeIndex \in Resumable
           /\ \A j \in Resumable : LastSec(j) <= LastSec(ResumeIndex)
<1>1. PICK b \in Nat : \A i \in Resumable : LastSec(i) \in Nat /\ LastSec(i) <= b
  BY LastSecsBounded
<1>. DEFINE Gaps == {b - LastSec(i) : i \in Resumable}
<1>2. PICK g \in Gaps : \A h \in Gaps : g <= h
  <2>1. Gaps \subseteq Nat
    BY <1>1
  <2>2. Gaps # {}
    OBVIOUS
  <2>. HIDE DEF Gaps
  <2>. QED
    BY <2>1, <2>2, LeastNatural
<1>3. PICK m \in Resumable : g = b - LastSec(m)
  OBVIOUS
<1>4. \A j \in Resumable : LastSec(j) <= LastSec(m)
  <2>. SUFFICES ASSUME NEW j \in Resumable
                PROVE  LastSec(j) <= LastSec(m)
    OBVIOUS
  <2>1. b - LastSec(m) <= b - LastSec(j)
    BY <1>2, <1>3
  <2>. QED
    BY <1>1, <2>1
<1>. DEFINE Latest == {i \in Resumable : LastSec(i) = LastSec(m)}
<1>5. PICK i \in Latest : \A j \in Latest : i <= j
  <2>1. Latest \subseteq Nat
    BY RingAssumption DEF Resumable, Ring
  <2>2. m \in Latest
    OBVIOUS
  <2>. HIDE DEF Latest
  <2>. QED
    BY <2>1, <2>2, LeastNatural
<1>6. \A j \in Resumable :
         LastSec(j) < LastSec(i) \/ (LastSec(j) = LastSec(i) /\ i <= j)
  BY <1>1, <1>4, <1>5
<1>7. i \in Resumable
  OBVIOUS
<1>8. /\ ResumeIndex \in Resumable
      /\ \A j \in Resumable :
            \/ LastSec(j) < LastSec(ResumeIndex)
            \/ LastSec(j) = LastSec(ResumeIndex) /\ ResumeIndex <= j
  BY <1>6, <1>7 DEF ResumeIndex
<1>. QED
  BY <1>1, <1>8

\* What a restarted process holds in memory is one of the chunks on disk.
LEMMA ResumedChunk ==
    ASSUME ShapeInv
    PROVE  \/ /\ ResumeIndex = -1
              /\ Resumable = {}
           \/ /\ ResumeIndex \in Ring
              /\ ReadBack(ResumeIndex) \in Chunks
              /\ exact => ReadBack(ResumeIndex) = file[ResumeIndex].pts
              /\ ReadBack(ResumeIndex) # <<>>
              /\ \A j \in Resumable : LastSec(j) <= LastSec(ResumeIndex)
<1>1. CASE Resumable = {}
  BY <1>1 DEF ResumeIndex
<1>2. CASE Resumable # {}
  <2>1. /\ ResumeIndex \in Resumable
        /\ \A j \in Resumable : LastSec(j) <= LastSec(ResumeIndex)
    BY <1>2, ResumeIndexLatest
  <2>2. ResumeIndex \in Ring /\ ReadBack(ResumeIndex) # <<>>
    BY <2>1 DEF Resumable
  <2>. QED
    BY <2>1, <2>2, ReadBackIsFile, ReadBackChunk
<1>. QED
  BY <1>1, <1>2

-----------------------------------------------------------------------------
(* ShapeInv is inductive *)

\* The open chunk after an accepted sample.
LEMMA ExtendedChunk ==
    ASSUME ShapeInv, NEW p \in Points
    PROVE  /\ SlotOf(p.sec) \in Ring
           /\ Extended(p) \in Chunks
           /\ Extended(p) # <<>>
           /\ Content(Extended(p)) =
                 IF SlotOf(p.sec) = openChunkIndex
                 THEN Content(openChunkPoints) \cup {p} ELSE {p}
<1>1. SlotOf(p.sec) \in Ring
  BY SlotInRing DEF Points
<1>2. openChunkPoints \in Chunks
  BY DEF ShapeInv, TypeOK
<1>3. CASE SlotOf(p.sec) # openChunkIndex
  BY <1>1, <1>3, SingletonWellFormed DEF Extended
<1>4. CASE SlotOf(p.sec) = openChunkIndex
  BY <1>1, <1>2, <1>4, AppendChunk DEF Extended
<1>. QED
  BY <1>3, <1>4

LEMMA ExtendedWellFormed ==
    ASSUME ShapeInv, exact, NEW p \in Points, ~Late(p)
    PROVE  WellFormed(Extended(p), SlotOf(p.sec))
<1>1. CASE SlotOf(p.sec) # openChunkIndex
  BY <1>1, SingletonWellFormed DEF Extended
<1>2. CASE SlotOf(p.sec) = openChunkIndex
  <2>1. openChunkPoints \in Chunks
    BY DEF ShapeInv, TypeOK
  <2>2. WellFormed(openChunkPoints, openChunkIndex)
    <3>1. CASE openChunkPoints = <<>>
      BY <3>1, EmptyWellFormed
    <3>2. CASE openChunkPoints # <<>>
      BY <3>2 DEF ShapeInv, ChunksWellFormed
    <3>. QED
      BY <3>1, <3>2
  <2>3. openChunkPoints # <<>> => openChunkPoints[Len(openChunkPoints)].sec < p.sec
    <3>. SUFFICES ASSUME openChunkPoints # <<>>
                  PROVE  openChunkPoints[Len(openChunkPoints)].sec < p.sec
      OBVIOUS
    <3>1. ~ (p.sec <= openChunkPoints[Len(openChunkPoints)].sec)
      BY <1>2 DEF Late
    <3>2. openChunkPoints[Len(openChunkPoints)].sec \in Int /\ p.sec \in Int
      BY <2>1, LastOfChunk DEF Points
    <3>. QED
      BY <3>1, <3>2
  <2>. QED
    BY <1>2, <2>1, <2>2, <2>3, AppendWellFormed DEF Extended
<1>. QED
  BY <1>1, <1>2

LEMMA ShapeInit == Init => ShapeInv
<1>. SUFFICES ASSUME Init PROVE ShapeInv
  OBVIOUS
<1>1. TypeOK
  BY EmptyWellFormed, RingAssumption
     DEF Init, TypeOK, Absent, Chunks, Ring
<1>2. ControlOK
  BY DEF Init, ControlOK
<1>3. ChunksWellFormed
  BY EmptyWellFormed DEF Init, ChunksWellFormed, Absent
<1>4. FilesExact
  BY EmptyExact DEF Init, FilesExact, Absent
<1>. QED
  BY <1>1, <1>2, <1>3, <1>4 DEF ShapeInv

LEMMA WriteKeepsShape ==
    ASSUME ShapeInv, NEW p \in Samples, known, Write(p)
    PROVE  ShapeInv'
<1>. USE DEF ShapeInv
<1>1. CASE DropLate(p)
  BY <1>1 DEF DropLate, TypeOK, ControlOK, ChunksWellFormed, FilesExact,
              memory, disk, history, None
<1>2. CASE Accept(p)
  <2>1. /\ SlotOf(p.sec) \in Ring
        /\ Extended(p) \in Chunks
        /\ Extended(p) # <<>>
        /\ exact => WellFormed(Extended(p), SlotOf(p.sec))
        /\ ChunkNum(p.sec) \in Nat
    BY <1>2, ExtendedChunk, ExtendedWellFormed, ChunkNumNat, SamplesArePoints DEF Accept
  <2>2. (ChunkNum(p.sec) >= newest) \in BOOLEAN
    OBVIOUS
  <2>3. inOrder' \in BOOLEAN
    BY <1>2, <2>2 DEF Accept, TypeOK
  <2>4. TypeOK'
    BY <1>2, <2>1, <2>3 DEF Accept, TypeOK, disk
  <2>5. ControlOK'
    BY <1>2, <2>1 DEF Accept, ControlOK, disk
  <2>6. ChunksWellFormed' /\ FilesExact'
    BY <1>2, <2>1 DEF Accept, ChunksWellFormed, FilesExact, disk
  <2>. QED
    BY <2>4, <2>5, <2>6
<1>. QED
  BY <1>1, <1>2 DEF Write

LEMMA ShapeStep == ShapeInv /\ [Next]_vars => ShapeInv'
<1>. SUFFICES ASSUME ShapeInv, [Next]_vars
              PROVE  ShapeInv'
  OBVIOUS
<1>. USE DEF ShapeInv
<1>1. ASSUME NEW p \in Samples, BeginCreate(p)
      PROVE  ShapeInv'
  BY <1>1 DEF BeginCreate, TypeOK, ControlOK, ChunksWellFormed, FilesExact,
              memory, disk, history
<1>2. ASSUME NEW p \in Samples, AppendKnown(p)
      PROVE  ShapeInv'
  BY <1>2, WriteKeepsShape DEF AppendKnown
<1>3. CASE AppendCreated
  BY <1>3, WriteKeepsShape DEF AppendCreated, ControlOK
<1>4. CASE MkdirSeries
  BY <1>4 DEF MkdirSeries, TypeOK, ControlOK, ChunksWellFormed, FilesExact,
              memory, history
<1>5. CASE OpenMeta
  BY <1>5 DEF OpenMeta, TypeOK, ControlOK, ChunksWellFormed, FilesExact,
              memory, history
<1>6. CASE WriteMeta
  <2>1. TypeOK'
    BY <1>6, EmptyWellFormed DEF WriteMeta, TypeOK, history
  <2>. QED
    BY <1>6, <2>1 DEF WriteMeta, ControlOK, ChunksWellFormed, FilesExact, history
<1>7. CASE Mkdir
  BY <1>7 DEF Mkdir, TypeOK, ControlOK, ChunksWellFormed, FilesExact, memory, history
<1>8. CASE OpenChunk
  <2>1. openChunkIndex \in Ring
    BY <1>8 DEF OpenChunk, ControlOK
  <2>2. TypeOK'
    BY <1>8, <2>1, EmptyWellFormed DEF OpenChunk, TypeOK, Torn, memory, history
  <2>3. ChunksWellFormed' /\ FilesExact'
    BY <1>8, <2>1, EmptyWellFormed, EmptyExact
       DEF OpenChunk, ChunksWellFormed, FilesExact, TypeOK, Torn, memory, history
  <2>4. ControlOK'
    BY <1>8 DEF OpenChunk, ControlOK, memory
  <2>. QED
    BY <2>2, <2>3, <2>4
<1>9. CASE WriteChunk
  <2>1. /\ openChunkIndex \in Ring /\ openChunkPoints # <<>>
        /\ openChunkPoints \in Chunks
    BY <1>9 DEF WriteChunk, ControlOK, TypeOK
  <2>2. Content(openChunkPoints) \subseteq Points
    BY <2>1, ChunkElement DEF Content
  <2>3. CodecExact(openChunkPoints) \in BOOLEAN
    BY DEF CodecExact
  <2>4. exact' \in BOOLEAN
    BY <1>9, <2>3 DEF WriteChunk, TypeOK
  <2>. HIDE DEF CodecExact
  <2>5. TypeOK'
    BY <1>9, <2>1, <2>2, <2>4 DEF WriteChunk, TypeOK, Whole, memory
  <2>6. /\ UNCHANGED <<openChunkIndex, openChunkPoints>> /\ (exact' => exact)
        /\ \/ UNCHANGED <<file, exact>>
           \/ /\ file'[openChunkIndex].pts = openChunkPoints
              /\ exact' => CodecExact(openChunkPoints)
              /\ \A i \in Ring : i # openChunkIndex => file'[i] = file[i]
    <3>1. UNCHANGED <<openChunkIndex, openChunkPoints>>
      BY <1>9 DEF WriteChunk, memory
    <3>2. DOMAIN file = Ring
      BY DEF TypeOK
    <3>3. CASE file[openChunkIndex].state = "torn"
      <4>1. /\ file' = [file EXCEPT ![openChunkIndex] = Whole(openChunkPoints)]
            /\ exact' = (exact /\ CodecExact(openChunkPoints))
        BY <1>9, <3>3 DEF WriteChunk
      <4>2. /\ file'[openChunkIndex].pts = openChunkPoints
            /\ \A i \in Ring : i # openChunkIndex => file'[i] = file[i]
        BY <2>1, <3>2, <4>1 DEF Whole
      <4>. QED
        BY <3>1, <4>1, <4>2
    <3>4. CASE file[openChunkIndex].state # "torn"
      BY <1>9, <3>1, <3>4 DEF WriteChunk
    <3>. QED
      BY <3>3, <3>4
  <2>7. ChunksWellFormed'
    BY <2>1, <2>6 DEF ChunksWellFormed
  <2>8. FilesExact'
    BY <2>1, <2>6 DEF FilesExact
  <2>9. ControlOK'
    BY <1>9 DEF WriteChunk, ControlOK, memory
  <2>. QED
    BY <2>5, <2>7, <2>8, <2>9
<1>10. CASE IOFails
  <2>1. TypeOK'
    BY <1>10 DEF IOFails, TypeOK, OutsideSlot, memory, disk
  <2>. QED
    BY <1>10, <2>1 DEF IOFails, ControlOK, ChunksWellFormed, FilesExact, memory, disk
<1>11. CASE Crash
  <2>1. TypeOK'
    BY <1>11, EmptyWellFormed DEF Crash, TypeOK, OutsideSlot, disk
  <2>. QED
    BY <1>11, <2>1 DEF Crash, ControlOK, ChunksWellFormed, FilesExact, disk
<1>12. CASE Restart
  <2>1. \/ openChunkIndex' = -1 /\ openChunkPoints' = <<>>
        \/ /\ openChunkIndex' \in Ring
           /\ openChunkPoints' \in Chunks
           /\ exact => openChunkPoints' = file[openChunkIndex'].pts
    <3>1. CASE ResumeIndex = -1
      BY <1>12, <3>1 DEF Restart
    <3>2. CASE ResumeIndex # -1
      <4>1. /\ ResumeIndex \in Ring /\ ReadBack(ResumeIndex) \in Chunks
            /\ exact => ReadBack(ResumeIndex) = file[ResumeIndex].pts
        BY <3>2, ResumedChunk DEF ResumeIndex
      <4>. QED
        BY <1>12, <3>2, <4>1 DEF Restart
    <3>. QED
      BY <3>1, <3>2
  <2>2. TypeOK'
    BY <1>12, <2>1, EmptyWellFormed DEF Restart, TypeOK, disk, history
  <2>3. ChunksWellFormed' /\ FilesExact'
    BY <1>12, <2>1 DEF Restart, ChunksWellFormed, FilesExact, disk, history
  <2>4. ControlOK'
    BY <1>12 DEF Restart, ControlOK
  <2>. QED
    BY <2>2, <2>3, <2>4
<1>13. CASE RemoveDir
  <2>1. TypeOK'
    BY <1>13, EmptyWellFormed DEF RemoveDir, TypeOK, Absent, memory
  <2>2. ChunksWellFormed' /\ FilesExact'
    BY <1>13, EmptyWellFormed, EmptyExact
       DEF RemoveDir, ChunksWellFormed, FilesExact, Absent, memory
  <2>. QED
    BY <1>13, <2>1, <2>2 DEF RemoveDir, ControlOK, memory
<1>14. CASE UNCHANGED vars
  BY <1>14 DEF vars, memory, disk, history, TypeOK, ControlOK, ChunksWellFormed,
               FilesExact
<1>. QED
  BY <1>1, <1>2, <1>3, <1>4, <1>5, <1>6, <1>7, <1>8, <1>9, <1>10, <1>11,
     <1>12, <1>13, <1>14, StoredInSamples DEF Next, AppendStep

LEMMA ShapeAlways == Spec => []ShapeInv
BY ShapeInit, ShapeStep, PTL DEF Spec

\* Type correctness, for every ring and any number of failures.
THEOREM TypeCorrect == Spec => []TypeOK
<1>1. ShapeInv => TypeOK
  BY DEF ShapeInv
<1>. QED
  BY <1>1, ShapeAlways, PTL

\* For every set of timestamps and as long as no chunk was written that the
\* codec does not bring back, every chunk, in memory and on disk, holds only
\* points of its slot in strictly increasing seconds, whatever write,
\* loadSeries and the failures between their file operations did before.
THEOREM ChunksAlwaysWellFormed == Spec => []ChunksWellFormed
<1>1. ShapeInv => ChunksWellFormed
  BY DEF ShapeInv
<1>. QED
  BY <1>1, ShapeAlways, PTL

-----------------------------------------------------------------------------
(* While nothing fails, a torn file is always the one being written *)

NothingWithoutDir ==
    ~dir => meta = "absent" /\ \A i \in Ring : file[i].state = "absent"

\* The directory, its metadata and the series' registration come about in
\* that order, and a registered series has all three.
MetaFollowsCreation ==
    clean =>
        /\ known \/ pc \in {"openMeta", "writeMeta"} => dir
        /\ pc = "writeMeta" => meta = "torn"
        /\ dir /\ pc \notin {"openMeta", "writeMeta"} => meta = "whole"
        /\ phase = "up" /\ pc \in {"idle", "mkdirSeries"} /\ ~known => ~dir

TornOnlyInWrite ==
    clean => \A i \in Ring :
        file[i].state = "torn" => pc = "writeChunk" /\ i = openChunkIndex

CleanInv == ShapeInv /\ NothingWithoutDir /\ MetaFollowsCreation /\ TornOnlyInWrite

LEMMA CleanInit == Init => CleanInv
BY ShapeInit DEF Init, CleanInv, NothingWithoutDir, MetaFollowsCreation,
                 TornOnlyInWrite, Absent

LEMMA WriteKeepsClean ==
    ASSUME CleanInv, NEW p, Write(p), known, pc \in {"idle", "append"}
    PROVE  NothingWithoutDir' /\ MetaFollowsCreation' /\ TornOnlyInWrite'
<1>1. CASE DropLate(p)
  BY <1>1 DEF DropLate, CleanInv, NothingWithoutDir, MetaFollowsCreation,
              TornOnlyInWrite, memory, disk, history
<1>2. CASE Accept(p)
  BY <1>2 DEF Accept, CleanInv, NothingWithoutDir, MetaFollowsCreation,
              TornOnlyInWrite, disk
<1>. QED
  BY <1>1, <1>2 DEF Write

LEMMA CleanStep == CleanInv /\ [Next]_vars => CleanInv'
<1>. SUFFICES ASSUME CleanInv, [Next]_vars
              PROVE  CleanInv'
  OBVIOUS
<1>s. ShapeInv /\ ShapeInv'
  BY ShapeStep DEF CleanInv
<1>f. /\ DOMAIN file = Ring
      /\ \A x : \A i, j \in Ring :
            [file EXCEPT ![i] = x][j] = IF j = i THEN x ELSE file[j]
  BY <1>s DEF ShapeInv, TypeOK
<1>. DEFINE Rest == NothingWithoutDir /\ MetaFollowsCreation /\ TornOnlyInWrite
<1>. SUFFICES Rest'
  BY <1>s DEF CleanInv
<1>. USE DEF NothingWithoutDir, MetaFollowsCreation, TornOnlyInWrite
<1>0. Rest
  BY DEF CleanInv
<1>1. ASSUME NEW p \in Samples, BeginCreate(p)
      PROVE  Rest'
  BY <1>0, <1>1 DEF BeginCreate, memory, disk, history
<1>2. ASSUME NEW p \in Samples, AppendKnown(p)
      PROVE  Rest'
  BY <1>2, WriteKeepsClean DEF AppendKnown
<1>3. CASE AppendCreated
  <2>1. known /\ pc = "append"
    BY <1>3, <1>s DEF AppendCreated, ShapeInv, ControlOK
  <2>. QED
    BY <1>3, <2>1, WriteKeepsClean DEF AppendCreated
<1>4. CASE MkdirSeries
  BY <1>0, <1>4 DEF MkdirSeries, memory, history
<1>5. CASE OpenMeta
  BY <1>0, <1>5 DEF OpenMeta, memory, history
<1>6. CASE WriteMeta
  <2>1. ~dir => meta' = meta
    BY <1>0, <1>6 DEF WriteMeta
  <2>. QED
    BY <1>0, <1>6, <2>1 DEF WriteMeta, history
<1>7. CASE Mkdir
  <2>1. known
    BY <1>7, <1>s DEF Mkdir, ShapeInv, ControlOK
  <2>. QED
    BY <1>0, <1>7, <2>1 DEF Mkdir, memory, history
<1>8. CASE OpenChunk
  <2>1. openChunkIndex \in Ring
    BY <1>8, <1>s DEF OpenChunk, ShapeInv, ControlOK
  <2>. QED
    BY <1>0, <1>8, <1>f, <2>1 DEF OpenChunk, memory, history
<1>9. CASE WriteChunk
  <2>1. openChunkIndex \in Ring
    BY <1>9, <1>s DEF WriteChunk, ShapeInv, ControlOK
  <2>2. /\ pc = "writeChunk" /\ pc' = "idle" /\ phase = "up"
        /\ UNCHANGED <<phase, known, dir, meta, clean>>
    BY <1>9, <1>s DEF WriteChunk, memory, ShapeInv, ControlOK
  <2>3. known
    BY <1>9, <1>s DEF WriteChunk, ShapeInv, ControlOK
  <2>4. /\ \A i \in Ring : i # openChunkIndex => file'[i] = file[i]
        /\ file'[openChunkIndex].state # "torn"
        /\ file[openChunkIndex].state = "absent" =>
              file'[openChunkIndex] = file[openChunkIndex]
    BY <1>9, <1>f, <2>1 DEF WriteChunk, Whole
  <2>. QED
    BY <1>0, <2>1, <2>2, <2>3, <2>4
<1>10. CASE IOFails
  BY <1>0, <1>10 DEF IOFails, memory, disk
<1>11. CASE Crash
  BY <1>0, <1>11 DEF Crash, disk
<1>12. CASE Restart
  BY <1>0, <1>12 DEF Restart, CanOpen, disk, history
<1>13. CASE RemoveDir
  BY <1>0, <1>13 DEF RemoveDir, Absent
<1>14. CASE UNCHANGED vars
  BY <1>0, <1>14 DEF vars, memory, disk, history
<1>. HIDE DEF NothingWithoutDir, MetaFollowsCreation, TornOnlyInWrite
<1>. QED
  BY <1>1, <1>2, <1>3, <1>4, <1>5, <1>6, <1>7, <1>8, <1>9, <1>10, <1>11,
     <1>12, <1>13, <1>14, StoredInSamples DEF Next, AppendStep

LEMMA CleanAlways == Spec => []CleanInv
BY CleanInit, CleanStep, PTL DEF Spec

\* A process that was never interrupted in the middle of an append, and whose
\* directory nobody touched, always finds its store loadable again.
THEOREM AlwaysReopens == Spec => []ReopensAfterCleanStop
<1>1. CleanInv => ReopensAfterCleanStop
  BY DEF CleanInv, MetaFollowsCreation, TornOnlyInWrite,
         ReopensAfterCleanStop, CanOpen
<1>. QED
  BY <1>1, CleanAlways, PTL

-----------------------------------------------------------------------------
(* A durable point stays where a query finds it *)

LEMMA PointFacts ==
    ASSUME NEW p \in Points
    PROVE  /\ p.sec \in Int
           /\ ChunkNum(p.sec) \in Int
           /\ SlotOf(p.sec) \in Ring
           /\ SlotOf(p.sec) # -1
<1>1. p.sec \in Int
  BY DEF Points
<1>2. SlotOf(p.sec) \in Ring
  BY <1>1, SlotInRing
<1>3. SlotOf(p.sec) # -1
  BY <1>2, RingAssumption DEF Ring
<1>. QED
  BY <1>1, <1>2, <1>3, ChunkNumInt

LEMMA SameChunkSameSlot ==
    ASSUME NEW s, NEW t, ChunkNum(s) = ChunkNum(t)
    PROVE  SlotOf(s) = SlotOf(t)
BY DEF SlotOf

LEMMA ContentPoints ==
    ASSUME NEW pts \in Chunks
    PROVE  Content(pts) \subseteq Points
BY ChunkElement DEF Content

LEMMA WellFormedSlot ==
    ASSUME NEW pts, NEW idx, WellFormed(pts, idx), NEW p \in Content(pts)
    PROVE  SlotOf(p.sec) = idx
BY DEF WellFormed, Content

\* Held, with the points of the file in place of what a reader decodes.
HeldInFile(p) == p \in Content(file[SlotOf(p.sec)].pts) \/ BeingRewritten(p)

Recent(p) == ChunkNum(p.sec) > newest - Slots

\* Nothing in memory, on disk or durable is of a later chunk than newest, or
\* before the start of time.
NothingNewer ==
    exact =>
        /\ \A p \in durable : p.sec \in Nat /\ ChunkNum(p.sec) <= newest
        /\ \A p \in Content(openChunkPoints) : p.sec \in Nat /\ ChunkNum(p.sec) <= newest
        /\ \A i \in Ring : \A p \in Content(file[i].pts) :
              p.sec \in Nat /\ ChunkNum(p.sec) <= newest

\* A series that has durable points exists on disk and is registered, and a
\* truncated file under WriteChunk disappears only with the directory.
DurableSeries ==
    /\ durable # {} => dir
    /\ phase = "up" /\ ~known => durable = {}
    /\ pc \in {"mkdirSeries", "openMeta", "writeMeta"} => ~known
    /\ pc = "writeChunk" /\ file[openChunkIndex].state # "torn" => durable = {}

\* The newest chunk, once it has durable points, is the open one.
NewestIsOpen ==
    inOrder /\ exact /\ known =>
        \A p \in durable : ChunkNum(p.sec) = newest => openChunkIndex = SlotOf(p.sec)

\* Memory still has the recent durable points of the slot that the next
\* write replaces as a whole.
OpenHoldsRecent ==
    inOrder /\ exact /\ known =>
        \A p \in durable :
            Recent(p) /\ SlotOf(p.sec) = openChunkIndex => p \in Content(openChunkPoints)

RecentInFile ==
    inOrder /\ exact => \A p \in durable : Recent(p) => HeldInFile(p)

RetainedRest ==
    /\ NothingNewer
    /\ DurableSeries
    /\ NewestIsOpen
    /\ OpenHoldsRecent
    /\ RecentInFile

RetainedInv == CleanInv /\ RetainedRest

\* No point of a well-formed chunk is later than its last one.
LEMMA LastIsLatest ==
    ASSUME NEW pts \in Chunks, NEW idx, WellFormed(pts, idx), pts # <<>> \/ Content(pts) # {}
    PROVE  /\ pts # <<>>
           /\ pts[Len(pts)].sec \in Int
           /\ \A p \in Content(pts) : p.sec <= pts[Len(pts)].sec
           /\ pts[Len(pts)] \in Content(pts)
           /\ pts[Len(pts)] \in Points
<1>1. pts # <<>>
  BY DEF Content
<1>2. /\ Len(pts) \in Nat /\ Len(pts) \in 1..Len(pts)
      /\ pts[Len(pts)] \in Points /\ pts[Len(pts)].sec \in Int
  BY <1>1, LastOfChunk
<1>3. ASSUME NEW i \in 1..Len(pts)
      PROVE  pts[i].sec <= pts[Len(pts)].sec
  <2>1. pts[i].sec \in Int
    BY ChunkElement
  <2>2. i < Len(pts) => pts[i].sec < pts[Len(pts)].sec
    BY <1>2 DEF WellFormed
  <2>. QED
    BY <1>2, <2>1, <2>2
<1>4. pts[Len(pts)] \in Content(pts)
  BY <1>2 DEF Content
<1>5. \A p \in Content(pts) : p.sec <= pts[Len(pts)].sec
  BY <1>3 DEF Content
<1>. QED
  BY <1>1, <1>2, <1>4, <1>5

LEMMA RetainedInit == Init => RetainedInv
<1>1. Init => NothingNewer
  BY DEF Init, NothingNewer, Content, Absent
<1>. QED
  BY <1>1, CleanInit
     DEF Init, RetainedInv, RetainedRest, DurableSeries, NewestIsOpen,
         OpenHoldsRecent, RecentInFile

\* Steps that leave the durable points, the files, the open chunk and
\* newest alone, and are not the end of a chunk write.
LEMMA QuietStep ==
    ASSUME RetainedInv, pc # "writeChunk", pc' # "writeChunk",
           UNCHANGED <<openChunkIndex, openChunkPoints, file, durable, newest>>,
           inOrder' => inOrder, exact' => exact, known' => known
    PROVE  NothingNewer' /\ NewestIsOpen' /\ OpenHoldsRecent' /\ RecentInFile'
BY DEF RetainedInv, RetainedRest, NothingNewer, NewestIsOpen, OpenHoldsRecent,
       RecentInFile, Recent, HeldInFile, BeingRewritten

LEMMA WriteKeepsRetained ==
    ASSUME RetainedInv, NEW p \in Samples, Write(p), known, pc \in {"idle", "append"}
    PROVE  RetainedRest'
<1>s. ShapeInv /\ TypeOK
  BY DEF RetainedInv, CleanInv, ShapeInv
<1>t. /\ durable \subseteq Points /\ newest \in Int /\ Slots \in Nat
      /\ \A q \in durable : /\ q.sec \in Int /\ ChunkNum(q.sec) \in Int
                            /\ SlotOf(q.sec) \in Ring
      /\ p \in Points /\ p.sec \in Nat /\ ChunkNum(p.sec) \in Nat
  BY <1>s, PointFacts, SamplesArePoints, ChunkNumNat, RingAssumption DEF TypeOK
<1>r. NothingNewer /\ DurableSeries /\ NewestIsOpen /\ OpenHoldsRecent /\ RecentInFile
  BY DEF RetainedInv, RetainedRest
<1>1. CASE DropLate(p)
  <2>1. NothingNewer' /\ NewestIsOpen' /\ OpenHoldsRecent' /\ RecentInFile'
    BY <1>1, QuietStep DEF DropLate, memory, disk, history
  <2>2. DurableSeries'
    BY <1>1, <1>r DEF DropLate, DurableSeries, memory, disk, history
  <2>. QED
    BY <2>1, <2>2 DEF RetainedRest
<1>2. CASE Accept(p)
  <2>1. /\ UNCHANGED <<known, phase, dir, meta, file, durable, exact>>
        /\ openChunkIndex' = SlotOf(p.sec)
        /\ openChunkPoints' = Extended(p)
        /\ pc' \in {"idle", "mkdir"}
        /\ newest' \in Int /\ newest' >= newest /\ newest' >= ChunkNum(p.sec)
        /\ inOrder' => inOrder /\ ChunkNum(p.sec) >= newest /\ newest' = ChunkNum(p.sec)
    <3>. DEFINE c == ChunkNum(p.sec)
    <3>1. newest' = IF c > newest THEN c ELSE newest
      BY <1>2 DEF Accept
    <3>2. newest' \in Int /\ newest' >= newest /\ newest' >= c
          /\ (c >= newest => newest' = c)
      <4>1. c \in Nat /\ newest \in Int
        BY <1>t
      <4>. HIDE DEF c
      <4>. QED
        BY <3>1, <4>1
    <3>3. inOrder' => inOrder /\ c >= newest
      BY <1>2 DEF Accept
    <3>4. /\ UNCHANGED <<known, phase, dir, meta, file, durable, exact>>
          /\ openChunkIndex' = SlotOf(p.sec)
          /\ openChunkPoints' = Extended(p)
          /\ pc' \in {"idle", "mkdir"}
      BY <1>2 DEF Accept, disk
    <3>. QED
      BY <3>2, <3>3, <3>4
  <2>2. Content(Extended(p)) =
           IF SlotOf(p.sec) = openChunkIndex
           THEN Content(openChunkPoints) \cup {p} ELSE {p}
    BY <1>s, <1>t, ExtendedChunk
  <2>3. NothingNewer'
    <3>. SUFFICES ASSUME exact
                  PROVE  NothingNewer'
      BY <2>1 DEF NothingNewer
    <3>1. \A q \in durable : q.sec \in Nat /\ ChunkNum(q.sec) <= newest'
      BY <1>r, <1>t, <2>1 DEF NothingNewer
    <3>2. \A q \in Content(openChunkPoints) :
             q.sec \in Nat /\ ChunkNum(q.sec) \in Nat /\ ChunkNum(q.sec) <= newest
      BY <1>r, ChunkNumNat DEF NothingNewer
    <3>3. \A q \in Content(openChunkPoints') : q.sec \in Nat /\ ChunkNum(q.sec) <= newest'
      BY <1>t, <2>1, <2>2, <3>2
    <3>4. \A i \in Ring : \A q \in Content(file[i].pts) :
             q.sec \in Nat /\ ChunkNum(q.sec) \in Nat /\ ChunkNum(q.sec) <= newest
      BY <1>r, ChunkNumNat DEF NothingNewer
    <3>5. \A i \in Ring : \A q \in Content(file[i].pts) :
             q.sec \in Nat /\ ChunkNum(q.sec) <= newest'
      BY <1>t, <2>1, <3>4
    <3>. QED
      BY <2>1, <3>1, <3>3, <3>5 DEF NothingNewer
  <2>4. DurableSeries'
    BY <1>r, <2>1 DEF DurableSeries
  <2>5. NewestIsOpen'
    BY <2>1, SameChunkSameSlot DEF NewestIsOpen
  <2>6. OpenHoldsRecent'
    <3>. SUFFICES ASSUME inOrder', exact, NEW q \in durable,
                         ChunkNum(q.sec) > newest' - Slots,
                         SlotOf(q.sec) = SlotOf(p.sec)
                  PROVE  q \in Content(Extended(p))
      BY <2>1 DEF OpenHoldsRecent, Recent
    <3>1. ChunkNum(q.sec) <= newest
      BY <1>r DEF NothingNewer
    <3>2. ChunkNum(q.sec) = ChunkNum(p.sec)
      BY <1>t, <2>1, <3>1, SameSlotSameChunk
    <3>3. ChunkNum(q.sec) = newest
      BY <1>t, <2>1, <3>1, <3>2
    <3>4. openChunkIndex = SlotOf(q.sec)
      BY <1>r, <2>1, <3>3 DEF NewestIsOpen
    <3>5. q \in Content(openChunkPoints)
      BY <1>r, <1>t, <2>1, <3>3, <3>4, RingAssumption DEF OpenHoldsRecent, Recent
    <3>. QED
      BY <2>2, <3>4, <3>5
  <2>7. RecentInFile'
    <3>. SUFFICES ASSUME inOrder, exact, NEW q \in durable, Recent(q)'
                  PROVE  HeldInFile(q)'
      BY <2>1 DEF RecentInFile
    <3>1. Recent(q)
      BY <1>t, <2>1 DEF Recent
    <3>2. q \in Content(file[SlotOf(q.sec)].pts)
      BY <1>r, <3>1 DEF RecentInFile, HeldInFile, BeingRewritten
    <3>. QED
      BY <2>1, <3>2 DEF HeldInFile
  <2>. QED
    BY <2>3, <2>4, <2>5, <2>6, <2>7 DEF RetainedRest
<1>. QED
  BY <1>1, <1>2 DEF Write

\* Truncating the open chunk's file: what it loses, memory still has.
LEMMA OpenChunkKeepsRetained ==
    ASSUME RetainedInv, OpenChunk
    PROVE  RetainedRest'
<1>s. ShapeInv /\ TypeOK /\ ControlOK
  BY DEF RetainedInv, CleanInv, ShapeInv
<1>t. /\ durable \subseteq Points
      /\ \A q \in durable : SlotOf(q.sec) \in Ring
      /\ openChunkIndex \in Ring /\ known /\ DOMAIN file = Ring
  BY <1>s, PointFacts DEF OpenChunk, TypeOK, ControlOK
<1>r. NothingNewer /\ DurableSeries /\ NewestIsOpen /\ OpenHoldsRecent /\ RecentInFile
  BY DEF RetainedInv, RetainedRest
<1>1. /\ UNCHANGED <<phase, known, openChunkIndex, openChunkPoints, dir, durable,
                     newest, inOrder, exact>>
      /\ file'[openChunkIndex] = Torn
      /\ \A i \in Ring : i # openChunkIndex => file'[i] = file[i]
      /\ pc = "openChunk" /\ pc' = "writeChunk"
  BY <1>s, <1>t DEF OpenChunk, memory, history, TypeOK
<1>2. NothingNewer'
  BY <1>1, <1>r DEF NothingNewer, Torn, Content
<1>3. DurableSeries'
  BY <1>1, <1>r DEF DurableSeries, Torn
<1>4. NewestIsOpen' /\ OpenHoldsRecent'
  BY <1>1, <1>r DEF NewestIsOpen, OpenHoldsRecent, Recent
<1>5. RecentInFile'
  <2>. SUFFICES ASSUME inOrder, exact, NEW q \in durable, Recent(q)
                PROVE  HeldInFile(q)'
    BY <1>1 DEF RecentInFile, Recent
  <2>1. CASE SlotOf(q.sec) = openChunkIndex
    BY <1>1, <1>r, <1>t, <2>1 DEF OpenHoldsRecent, HeldInFile, BeingRewritten
  <2>2. CASE SlotOf(q.sec) # openChunkIndex
    BY <1>1, <1>r, <1>t, <2>2 DEF RecentInFile, HeldInFile, BeingRewritten
  <2>. QED
    BY <2>1, <2>2
<1>. QED
  BY <1>2, <1>3, <1>4, <1>5 DEF RetainedRest

\* Writing the open chunk's points: they become durable, and none of the
\* recent points that the file held before is missing among them.
LEMMA WriteChunkKeepsRetained ==
    ASSUME RetainedInv, WriteChunk
    PROVE  RetainedRest'
<1>s. ShapeInv /\ TypeOK /\ ControlOK /\ NothingWithoutDir
  BY DEF RetainedInv, CleanInv, ShapeInv
<1>r. NothingNewer /\ DurableSeries /\ NewestIsOpen /\ OpenHoldsRecent /\ RecentInFile
  BY DEF RetainedInv, RetainedRest
<1>t. /\ openChunkIndex \in Ring /\ known /\ DOMAIN file = Ring
      /\ openChunkPoints \in Chunks
      /\ exact => WellFormed(openChunkPoints, openChunkIndex)
  BY <1>s DEF WriteChunk, TypeOK, ControlOK, ShapeInv, ChunksWellFormed
<1>u. /\ UNCHANGED <<phase, known, openChunkIndex, openChunkPoints, dir,
                     newest, inOrder>>
      /\ pc = "writeChunk" /\ pc' = "idle" /\ (exact' => exact)
  BY DEF WriteChunk, memory
<1>1. CASE file[openChunkIndex].state = "torn"
  <2>1. /\ durable' = durable \cup Content(openChunkPoints)
        /\ file'[openChunkIndex].pts = openChunkPoints
        /\ \A i \in Ring : i # openChunkIndex => file'[i] = file[i]
    BY <1>1, <1>s, <1>t DEF WriteChunk, Whole, TypeOK
  <2>2. exact => \A q \in Content(openChunkPoints) : SlotOf(q.sec) = openChunkIndex
    BY <1>t, WellFormedSlot
  <2>3. NothingNewer'
    BY <1>r, <1>u, <2>1 DEF NothingNewer
  <2>4. DurableSeries'
    <3>1. dir
      BY <1>1, <1>s, <1>t DEF NothingWithoutDir
    <3>. QED
      BY <1>t, <1>u, <3>1 DEF DurableSeries
  <2>5. NewestIsOpen'
    BY <1>r, <1>u, <2>1, <2>2 DEF NewestIsOpen
  <2>6. OpenHoldsRecent'
    BY <1>r, <1>u, <2>1, <2>2 DEF OpenHoldsRecent, Recent
  <2>7. RecentInFile'
    <3>. SUFFICES ASSUME inOrder, exact, NEW q \in durable', Recent(q)
                  PROVE  HeldInFile(q)'
      BY <1>u DEF RecentInFile, Recent
    <3>1. q \in durable \/ q \in Content(openChunkPoints)
      BY <2>1
    <3>2. CASE q \in Content(openChunkPoints)
      BY <2>1, <2>2, <3>2 DEF HeldInFile
    <3>3. CASE q \in durable /\ SlotOf(q.sec) = openChunkIndex
      BY <1>r, <1>t, <2>1, <3>3 DEF OpenHoldsRecent, HeldInFile
    <3>4. CASE q \in durable /\ SlotOf(q.sec) # openChunkIndex
      <4>1. SlotOf(q.sec) \in Ring
        BY <1>s, <3>4, PointFacts DEF TypeOK
      <4>. QED
        BY <1>r, <2>1, <3>4, <4>1 DEF RecentInFile, HeldInFile, BeingRewritten
    <3>. QED
      BY <3>1, <3>2, <3>3, <3>4
  <2>. QED
    BY <2>3, <2>4, <2>5, <2>6, <2>7 DEF RetainedRest
<1>2. CASE file[openChunkIndex].state # "torn"
  <2>1. UNCHANGED <<file, durable>> /\ durable = {}
    BY <1>2, <1>r DEF WriteChunk, DurableSeries
  <2>. QED
    BY <1>r, <1>u, <2>1
       DEF RetainedRest, NothingNewer, DurableSeries, NewestIsOpen,
           OpenHoldsRecent, RecentInFile
<1>. QED
  BY <1>1, <1>2

\* A write cut short in the middle takes the slot's durable points with it,
\* and no other.
LEMMA CutShortKeepsRetained ==
    ASSUME RetainedInv, UNCHANGED <<dir, file, newest, inOrder, exact>>,
           durable' = IF pc = "writeChunk"
                      THEN OutsideSlot(durable, openChunkIndex) ELSE durable,
           pc' = "idle"
    PROVE  durable' \subseteq durable /\ RecentInFile'
<1>1. RecentInFile
  BY DEF RetainedInv, RetainedRest
<1>2. durable' \subseteq durable
  BY DEF OutsideSlot
<1>. SUFFICES ASSUME inOrder, exact, NEW q \in durable', Recent(q)
              PROVE  HeldInFile(q)'
  BY <1>2 DEF RecentInFile, Recent
<1>3. q \in durable /\ ~BeingRewritten(q)
  BY <1>2 DEF OutsideSlot, BeingRewritten
<1>. QED
  BY <1>1, <1>3 DEF RecentInFile, HeldInFile

\* loadSeries resumes the newest chunk.
LEMMA RestartKeepsRetained ==
    ASSUME RetainedInv, Restart
    PROVE  RetainedRest'
<1>s. ShapeInv /\ TypeOK /\ ControlOK
  BY DEF RetainedInv, CleanInv, ShapeInv
<1>r. NothingNewer /\ DurableSeries /\ NewestIsOpen /\ OpenHoldsRecent /\ RecentInFile
  BY DEF RetainedInv, RetainedRest
<1>u. /\ UNCHANGED <<dir, file, durable, newest, inOrder, exact, pc>>
      /\ pc = "idle" /\ phase' = "up" /\ known' = dir
      /\ openChunkIndex' = ResumeIndex
      /\ openChunkPoints' = IF ResumeIndex = -1 THEN <<>> ELSE ReadBack(ResumeIndex)
  BY <1>s DEF Restart, disk, history, ControlOK
<1>t. \A q \in durable : /\ q \in Points /\ q.sec \in Int
                         /\ ChunkNum(q.sec) \in Int /\ SlotOf(q.sec) \in Ring
  BY <1>s, PointFacts DEF TypeOK
<1>1. NothingNewer'
  <2>1. exact => \A q \in Content(openChunkPoints') :
                    q.sec \in Nat /\ ChunkNum(q.sec) <= newest
    <3>1. CASE ResumeIndex = -1
      BY <1>u, <3>1 DEF Content
    <3>2. CASE ResumeIndex # -1
      <4>1. exact => ResumeIndex \in Ring /\ openChunkPoints' = file[ResumeIndex].pts
        BY <1>s, <1>u, <3>2, ResumedChunk DEF ResumeIndex
      <4>. QED
        BY <1>r, <4>1 DEF NothingNewer
    <3>. QED
      BY <3>1, <3>2
  <2>. QED
    BY <1>r, <1>u, <2>1 DEF NothingNewer
<1>2. DurableSeries'
  BY <1>r, <1>u DEF DurableSeries
<1>3. \A q \in durable : inOrder /\ exact /\ Recent(q) => q \in Content(file[SlotOf(q.sec)].pts)
  BY <1>r, <1>u DEF RecentInFile, HeldInFile, BeingRewritten
<1>4. NewestIsOpen'
  <2>. SUFFICES ASSUME inOrder, exact, NEW q \in durable, ChunkNum(q.sec) = newest
                PROVE  ResumeIndex = SlotOf(q.sec)
    BY <1>u DEF NewestIsOpen
  <2>. DEFINE i == SlotOf(q.sec)
  <2>1. i \in Ring /\ q \in Content(file[i].pts)
    <3>1. Recent(q)
      BY <1>t, RingAssumption DEF Recent
    <3>. QED
      BY <1>3, <1>t, <3>1
  <2>2. file[i].pts \in Chunks /\ WellFormed(file[i].pts, i) /\ ReadBack(i) = file[i].pts
    BY <1>s, <2>1, ReadBackIsFile DEF TypeOK, ShapeInv, ChunksWellFormed
  <2>3. file[i].pts # <<>> /\ LastSec(i) \in Int /\ q.sec <= LastSec(i)
    BY <2>1, <2>2, LastIsLatest DEF LastSec
  <2>4. i \in Resumable
    <3>1. q.sec \in Nat
      BY <1>r DEF NothingNewer
    <3>. QED
      BY <2>1, <2>2, <2>3, <3>1 DEF Resumable
  <2>5. PICK r : /\ r = ResumeIndex /\ r \in Ring
                 /\ ReadBack(r) = file[r].pts /\ file[r].pts # <<>>
                 /\ LastSec(i) <= LastSec(r)
    BY <1>s, <2>4, ResumedChunk
  <2>6. /\ file[r].pts \in Chunks /\ WellFormed(file[r].pts, r)
        /\ LastSec(r) = file[r].pts[Len(file[r].pts)].sec
    BY <1>s, <2>5 DEF TypeOK, ShapeInv, ChunksWellFormed, LastSec
  <2>7. PICK l \in Content(file[r].pts) : l.sec = LastSec(r) /\ l \in Points
    BY <2>5, <2>6, LastIsLatest
  <2>8. /\ LastSec(r) \in Int /\ ChunkNum(LastSec(r)) \in Int
        /\ SlotOf(LastSec(r)) = r /\ ChunkNum(LastSec(r)) <= newest
    <3>1. l.sec \in Int /\ ChunkNum(l.sec) \in Int
      BY <2>7, PointFacts
    <3>2. SlotOf(l.sec) = r
      BY <2>6, WellFormedSlot
    <3>3. ChunkNum(l.sec) <= newest
      BY <1>r, <2>5 DEF NothingNewer
    <3>. QED
      BY <2>7, <3>1, <3>2, <3>3
  <2>9. ChunkNum(q.sec) <= ChunkNum(LastSec(r))
    <3>1. q.sec \in Int /\ q.sec <= LastSec(r)
      BY <1>t, <2>3, <2>5, <2>8
    <3>. QED
      BY <2>8, <3>1, ChunkNumMonotone
  <2>10. ChunkNum(LastSec(r)) = ChunkNum(q.sec)
    BY <1>s, <1>t, <2>8, <2>9 DEF TypeOK
  <2>. QED
    BY <2>5, <2>8, <2>10, SameChunkSameSlot
<1>5. OpenHoldsRecent'
  <2>. SUFFICES ASSUME inOrder, exact, NEW q \in durable, Recent(q),
                       SlotOf(q.sec) = ResumeIndex
                PROVE  q \in Content(openChunkPoints')
    BY <1>u DEF OpenHoldsRecent, Recent
  <2>1. ResumeIndex \in Ring /\ ResumeIndex # -1
    BY <1>t, RingAssumption DEF Ring
  <2>2. openChunkPoints' = file[ResumeIndex].pts
    BY <1>s, <1>u, <2>1, ReadBackIsFile
  <2>. QED
    BY <1>3, <2>2
<1>6. RecentInFile'
  BY <1>3, <1>u DEF RecentInFile, Recent, HeldInFile
<1>. QED
  BY <1>1, <1>2, <1>4, <1>5, <1>6 DEF RetainedRest

LEMMA RetainedStep == RetainedInv /\ [Next]_vars => RetainedInv'
<1>. SUFFICES ASSUME RetainedInv, [Next]_vars
              PROVE  RetainedInv'
  OBVIOUS
<1>s. CleanInv /\ CleanInv' /\ ShapeInv /\ TypeOK /\ ControlOK
  BY CleanStep DEF RetainedInv, CleanInv, ShapeInv
<1>r. NothingNewer /\ DurableSeries /\ NewestIsOpen /\ OpenHoldsRecent /\ RecentInFile
  BY DEF RetainedInv, RetainedRest
<1>. SUFFICES RetainedRest'
  BY <1>s DEF RetainedInv
<1>. DEFINE Kept == NothingNewer /\ NewestIsOpen /\ OpenHoldsRecent /\ RecentInFile
<1>1. ASSUME NEW p \in Samples, BeginCreate(p)
      PROVE  RetainedRest'
  <2>1. Kept'
    BY <1>1, QuietStep DEF BeginCreate, memory, disk, history
  <2>2. DurableSeries'
    BY <1>1, <1>r DEF BeginCreate, DurableSeries, memory, disk, history
  <2>. QED
    BY <2>1, <2>2 DEF RetainedRest
<1>2. ASSUME NEW p \in Samples, AppendKnown(p)
      PROVE  RetainedRest'
  BY <1>2, WriteKeepsRetained DEF AppendKnown
<1>3. CASE AppendCreated
  BY <1>3, <1>s, WriteKeepsRetained DEF AppendCreated, ControlOK
<1>4. CASE MkdirSeries
  <2>1. Kept'
    BY <1>4, QuietStep DEF MkdirSeries, memory, history
  <2>2. DurableSeries'
    BY <1>4, <1>r DEF MkdirSeries, DurableSeries, memory, history
  <2>. QED
    BY <2>1, <2>2 DEF RetainedRest
<1>5. CASE OpenMeta
  <2>1. Kept'
    BY <1>5, QuietStep DEF OpenMeta, memory, history
  <2>2. DurableSeries'
    BY <1>5, <1>r DEF OpenMeta, DurableSeries, memory, history
  <2>. QED
    BY <2>1, <2>2 DEF RetainedRest
<1>6. CASE WriteMeta
  <2>1. /\ durable = {} /\ UNCHANGED <<durable, file, newest, exact>> /\ pc' = "append"
        /\ openChunkPoints' = <<>> /\ known'
    BY <1>6, <1>r, <1>s DEF WriteMeta, DurableSeries, ControlOK, history
  <2>2. NothingNewer'
    BY <1>r, <2>1 DEF NothingNewer, Content
  <2>. QED
    BY <2>1, <2>2 DEF RetainedRest, DurableSeries, NewestIsOpen,
                      OpenHoldsRecent, RecentInFile
<1>7. CASE Mkdir
  <2>1. Kept'
    BY <1>7, QuietStep DEF Mkdir, memory, history
  <2>2. DurableSeries'
    BY <1>7, <1>r, <1>s DEF Mkdir, DurableSeries, ControlOK, memory, history
  <2>. QED
    BY <2>1, <2>2 DEF RetainedRest
<1>8. CASE OpenChunk
  BY <1>8, OpenChunkKeepsRetained
<1>9. CASE WriteChunk
  BY <1>9, WriteChunkKeepsRetained
<1>10. ASSUME UNCHANGED <<dir, file, newest, inOrder, exact>>, pc' = "idle",
              durable' = IF pc = "writeChunk"
                         THEN OutsideSlot(durable, openChunkIndex) ELSE durable,
              \/ UNCHANGED <<phase, known, openChunkIndex, openChunkPoints>>
              \/ phase' = "down" /\ ~known' /\ openChunkPoints' = <<>>
       PROVE  RetainedRest'
  <2>1. durable' \subseteq durable /\ RecentInFile'
    BY <1>10, CutShortKeepsRetained
  <2>2. NothingNewer'
    BY <1>10, <1>r, <2>1 DEF NothingNewer, Content
  <2>3. DurableSeries'
    BY <1>10, <1>r, <2>1 DEF DurableSeries
  <2>4. NewestIsOpen' /\ OpenHoldsRecent'
    BY <1>10, <1>r, <2>1 DEF NewestIsOpen, OpenHoldsRecent, Recent
  <2>. QED
    BY <2>1, <2>2, <2>3, <2>4 DEF RetainedRest
<1>11. CASE IOFails
  BY <1>10, <1>11 DEF IOFails, memory, disk
<1>12. CASE Crash
  BY <1>10, <1>12 DEF Crash, disk
<1>13. CASE Restart
  BY <1>13, RestartKeepsRetained
<1>14. CASE RemoveDir
  <2>1. /\ durable' = {} /\ UNCHANGED <<openChunkPoints, newest, known, phase, pc, exact>>
        /\ \A i \in Ring : Content(file'[i].pts) = {}
    BY <1>14 DEF RemoveDir, Absent, Content, memory
  <2>2. NothingNewer'
    BY <1>r, <2>1 DEF NothingNewer
  <2>3. DurableSeries'
    BY <1>r, <2>1 DEF DurableSeries
  <2>. QED
    BY <2>1, <2>2, <2>3 DEF RetainedRest, NewestIsOpen, OpenHoldsRecent, RecentInFile
<1>15. CASE UNCHANGED vars
  BY <1>15, <1>r
     DEF vars, memory, disk, history, RetainedRest, NothingNewer, DurableSeries,
         NewestIsOpen, OpenHoldsRecent, RecentInFile, Recent, HeldInFile,
         BeingRewritten
<1>. QED
  BY <1>1, <1>2, <1>3, <1>4, <1>5, <1>6, <1>7, <1>8, <1>9, <1>11,
     <1>12, <1>13, <1>14, <1>15, StoredInSamples DEF Next, AppendStep

LEMMA RetainedAlways == Spec => []RetainedInv
BY RetainedInit, RetainedStep, PTL DEF Spec

\* For every set of timestamps: as long as no sample of an older chunk is
\* accepted, and no chunk is written that the codec does not bring back, a
\* durable point of the last Slots chunks stays readable, or is in the rewrite
\* of its own chunk, through rotations, failed writes, kills and restarts: what
\* loadSeries resumes is never a chunk that the next write would wrongly discard.
THEOREM RecentPointsRetained == Spec => []RetainedWhenInOrder
<1>1. RetainedInv => RetainedWhenInOrder
  <2>. SUFFICES ASSUME RetainedInv, inOrder, exact, NEW p \in durable,
                       ChunkNum(p.sec) > newest - Slots
                PROVE  Held(p)
    BY DEF RetainedWhenInOrder
  <2>1. ShapeInv /\ TypeOK /\ RecentInFile
    BY DEF RetainedInv, RetainedRest, CleanInv, ShapeInv
  <2>2. HeldInFile(p)
    BY <2>1 DEF RecentInFile, Recent
  <2>3. SlotOf(p.sec) \in Ring
    BY <2>1, PointFacts DEF TypeOK
  <2>4. ReadBack(SlotOf(p.sec)) = file[SlotOf(p.sec)].pts
    BY <2>1, <2>3, ReadBackIsFile
  <2>. QED
    BY <2>2, <2>4 DEF HeldInFile, Held, OnDisk
<1>. QED
  BY <1>1, RetainedAlways, PTL

-----------------------------------------------------------------------------
(* The ring goes its way under the query *)

LEMMA QueryStepIsRingStep == QueryNext => [Next]_vars
BY DEF QueryNext, ListDir, ReadNext, Answer, Return, RingStep

\* A file that is not whole has nothing to read.
FilesWhole == \A i \in Ring : file[i].state # "whole" => file[i].pts = <<>>

LEMMA FilesWholeInit == Init => FilesWhole
BY DEF Init, FilesWhole, Absent

LEMMA FilesWholeStep == TypeOK /\ FilesWhole /\ [Next]_vars => FilesWhole'
<1>. SUFFICES ASSUME TypeOK, FilesWhole, [Next]_vars
              PROVE  FilesWhole'
  OBVIOUS
<1>1. CASE UNCHANGED file
  BY <1>1 DEF FilesWhole
<1>2. CASE OpenChunk
  BY <1>2 DEF OpenChunk, FilesWhole, Torn, TypeOK
<1>3. CASE WriteChunk
  BY <1>3 DEF WriteChunk, FilesWhole, Whole, TypeOK
<1>4. CASE RemoveDir
  BY <1>4 DEF RemoveDir, FilesWhole, Absent
<1>5. \/ OpenChunk \/ WriteChunk \/ RemoveDir \/ UNCHANGED file
  <2>1. ASSUME NEW p, BeginCreate(p) \/ AppendKnown(p)
        PROVE  UNCHANGED file
    BY <2>1 DEF BeginCreate, AppendKnown, Write, DropLate, Accept, disk
  <2>2. CASE \/ MkdirSeries \/ OpenMeta \/ WriteMeta \/ AppendCreated
             \/ Mkdir \/ IOFails \/ Crash \/ Restart \/ UNCHANGED vars
    BY <2>2 DEF MkdirSeries, OpenMeta, WriteMeta, AppendCreated, Write, DropLate,
                Accept, Mkdir, IOFails, Crash, Restart, disk, vars
  <2>. QED
    BY <2>1, <2>2 DEF Next, AppendStep
<1>. QED
  BY <1>1, <1>2, <1>3, <1>4, <1>5

-----------------------------------------------------------------------------
(* What a query has in hand *)

QueryType ==
    /\ qpc \in {"idle", "reading", "done", "failed"}
    /\ left \subseteq Ring
    /\ got \in [Ring -> Chunks]
    /\ due \subseteq durable
    /\ qpc = "done" => left = {}

GotWellFormed == exact => \A i \in Ring : WellFormed(got[i], i)

\* A point that is due is still there, and its chunk is still to be read or
\* has been read with it.
DueFound ==
    /\ \A p \in due : Held(p)
    /\ qpc \in {"reading", "done"} =>
          \A p \in due : SlotOf(p.sec) \in left \/ p \in Content(got[SlotOf(p.sec)])

QueryInv == RetainedInv /\ FilesWhole /\ QueryType /\ GotWellFormed /\ DueFound

\* The facts of the ring that a reading query meets.
LEMMA RingFacts ==
    ASSUME RetainedInv, FilesWhole
    PROVE  /\ ShapeInv /\ TypeOK /\ durable \subseteq Points
           /\ \A i \in Ring : /\ ReadBack(i) \in Chunks
                              /\ exact => WellFormed(ReadBack(i), i)
           /\ \A p \in durable : Held(p) =>
                 /\ SlotOf(p.sec) \in Ring
                 /\ file[SlotOf(p.sec)].state # "absent"
                 /\ file[SlotOf(p.sec)].state = "whole" =>
                       p \in Content(ReadBack(SlotOf(p.sec)))
<1>1. ShapeInv /\ TypeOK /\ durable \subseteq Points /\ DurableSeries /\ ControlOK
  BY DEF RetainedInv, RetainedRest, CleanInv, ShapeInv, TypeOK
<1>2. ASSUME NEW i \in Ring
      PROVE  /\ ReadBack(i) \in Chunks
             /\ ReadBack(i) = <<>> <=> file[i].pts = <<>>
             /\ exact => WellFormed(ReadBack(i), i)
  BY <1>1, <1>2, ReadBackChunk, ReadBackIsFile DEF ShapeInv, ChunksWellFormed
<1>3. ASSUME NEW p \in durable, Held(p)
      PROVE  /\ SlotOf(p.sec) \in Ring
             /\ file[SlotOf(p.sec)].state # "absent"
             /\ file[SlotOf(p.sec)].state = "whole" =>
                   p \in Content(ReadBack(SlotOf(p.sec)))
  <2>1. SlotOf(p.sec) \in Ring
    BY <1>1, <1>3, PointFacts
  <2>2. CASE OnDisk(p)
    <3>1. ReadBack(SlotOf(p.sec)) # <<>>
      BY <2>2 DEF OnDisk, Content
    <3>. QED
      BY <2>1, <2>2, <3>1, <1>2 DEF OnDisk, FilesWhole
  <2>3. CASE BeingRewritten(p)
    BY <2>1, <2>3, <1>1, <1>3 DEF BeingRewritten, DurableSeries
  <2>. QED
    BY <1>3, <2>1, <2>2, <2>3 DEF Held
<1>. QED
  BY <1>1, <1>2, <1>3

LEMMA QueryInvInit == QueryInit => QueryInv
<1>. SUFFICES ASSUME QueryInit PROVE QueryInv
  OBVIOUS
<1>1. Init
  BY DEF QueryInit
<1>2. RetainedInv /\ FilesWhole
  BY <1>1, RetainedInit, FilesWholeInit
<1>3. QueryType /\ GotWellFormed
  BY EmptyWellFormed DEF QueryInit, QueryType, GotWellFormed
<1>4. DueFound
  BY DEF QueryInit, DueFound
<1>. QED
  BY <1>2, <1>3, <1>4 DEF QueryInv

\* A step of the query leaves the ring as it is.
LEMMA HeldUnchanged ==
    ASSUME UNCHANGED vars
    PROVE  \A p : Held(p)' <=> Held(p)
BY DEF vars, memory, disk, Held, OnDisk, BeingRewritten, ReadBack

\* An inexact chunk, once written, is remembered.
LEMMA ExactOnlyFalls == [Next]_vars => (exact' => exact)
<1>1. ASSUME NEW p, BeginCreate(p) \/ AppendKnown(p)
      PROVE  UNCHANGED exact
  BY <1>1 DEF BeginCreate, AppendKnown, Write, DropLate, Accept, history
<1>2. CASE \/ MkdirSeries \/ OpenMeta \/ WriteMeta \/ AppendCreated \/ Mkdir
           \/ OpenChunk \/ IOFails \/ Crash \/ Restart \/ RemoveDir \/ UNCHANGED vars
  BY <1>2 DEF MkdirSeries, OpenMeta, WriteMeta, AppendCreated, Write, DropLate,
              Accept, Mkdir, OpenChunk, IOFails, Crash, Restart, RemoveDir,
              history, vars
<1>3. WriteChunk => (exact' => exact)
  BY DEF WriteChunk
<1>. QED
  BY <1>1, <1>2, <1>3 DEF Next, AppendStep

LEMMA QueryInvStep == QueryInv /\ [QueryNext]_allVars => QueryInv'
<1>. SUFFICES ASSUME QueryInv, [QueryNext]_allVars
              PROVE  QueryInv'
  OBVIOUS
<1>r. RetainedInv /\ FilesWhole /\ TypeOK
  BY RingFacts DEF QueryInv
<1>n. [Next]_vars
  BY QueryStepIsRingStep DEF allVars
<1>s. RetainedInv' /\ FilesWhole' /\ (exact' => exact)
  BY <1>r, <1>n, RetainedStep, FilesWholeStep, ExactOnlyFalls
<1>q. QueryType /\ GotWellFormed /\ DueFound
  BY DEF QueryInv
<1>. SUFFICES QueryType' /\ GotWellFormed' /\ DueFound'
  BY <1>s DEF QueryInv
<1>u. UNCHANGED vars => UNCHANGED <<durable, exact>> /\ \A p : Held(p)' <=> Held(p)
  BY HeldUnchanged DEF vars, history
<1>1. CASE ListDir
  <2>1. /\ qpc' = "reading" /\ left' = {i \in Ring : file[i].state # "absent"}
        /\ got' = [i \in Ring |-> <<>>] /\ due' = {p \in durable : Held(p)}
        /\ UNCHANGED durable /\ \A p : Held(p)' <=> Held(p)
    BY <1>1, <1>u DEF ListDir
  <2>2. QueryType' /\ GotWellFormed'
    BY <2>1, EmptyWellFormed DEF QueryType, GotWellFormed
  <2>3. DueFound'
    BY <2>1, <1>r, RingFacts DEF DueFound
  <2>. QED
    BY <2>2, <2>3
<1>2. CASE ReadNext
  <2>. DEFINE i == Min(left)
  <2>1. i \in left /\ i \in Ring
    <3>1. left \subseteq Nat /\ left # {}
      BY <1>2, <1>q, RingAssumption DEF ReadNext, QueryType, Ring
    <3>2. \E a \in left : \A y \in left : a <= y
      BY <3>1, LeastNatural
    <3>. QED
      BY <3>2, <1>q DEF Min, QueryType
  <2>2. /\ qpc = "reading" /\ UNCHANGED <<due, durable>>
        /\ \A p : Held(p)' <=> Held(p)
    BY <1>2, <1>u DEF ReadNext
  <2>3. CASE file[i].state = "torn"
    <3>1. qpc' = "failed" /\ UNCHANGED <<left, got>>
      BY <1>2, <2>3 DEF ReadNext
    <3>. QED
      BY <3>1, <2>2, <1>q, <1>s DEF QueryType, GotWellFormed, DueFound
  <2>4. CASE file[i].state # "torn"
    <3>1. qpc' = qpc /\ left' = left \ {i} /\ got' = [got EXCEPT ![i] = ReadBack(i)]
      BY <1>2, <2>4 DEF ReadNext
    <3>2. ReadBack(i) \in Chunks /\ (exact => WellFormed(ReadBack(i), i))
      BY <1>r, <2>1, RingFacts
    <3>. HIDE DEF i
    <3>3. /\ got' \in [Ring -> Chunks] /\ got'[i] = ReadBack(i)
          /\ \A j \in Ring : j # i => got'[j] = got[j]
      BY <3>1, <3>2, <2>1, <1>q DEF QueryType
    <3>4. QueryType'
      BY <3>1, <3>3, <2>2, <1>q DEF QueryType
    <3>5. GotWellFormed'
      BY <3>2, <3>3, <1>q, <1>s DEF GotWellFormed
    <3>6. ASSUME NEW p \in due
          PROVE  SlotOf(p.sec) \in left' \/ p \in Content(got'[SlotOf(p.sec)])
      <4>1. p \in durable /\ Held(p)
        BY <3>6, <1>q DEF QueryType, DueFound
      <4>2. CASE SlotOf(p.sec) = i
        <5>1. file[i].state = "whole"
          BY <4>1, <4>2, <2>1, <2>4, <1>r, RingFacts DEF TypeOK
        <5>2. p \in Content(ReadBack(i))
          BY <4>1, <4>2, <5>1, <1>r, RingFacts
        <5>. QED
          BY <4>2, <5>2, <3>3
      <4>3. CASE SlotOf(p.sec) # i
        BY <4>1, <4>3, <3>1, <3>3, <3>6, <2>2, <1>q, <1>r, RingFacts DEF DueFound
      <4>. QED
        BY <4>2, <4>3
    <3>7. DueFound'
      BY <3>6, <2>2, <1>q DEF DueFound
    <3>. QED
      BY <3>4, <3>5, <3>7
  <2>. QED
    BY <2>3, <2>4
<1>3. CASE Answer
  BY <1>3, <1>q, <1>u DEF Answer, QueryType, GotWellFormed, DueFound
<1>4. CASE Return
  BY <1>4, <1>q, <1>u, EmptyWellFormed DEF Return, QueryType, GotWellFormed, DueFound
<1>5. CASE RingStep
  <2>1. CASE phase' = "down"
    <3>1. qpc' = "idle" /\ left' = {} /\ got' = [j \in Ring |-> <<>>] /\ due' = {}
      BY <1>5, <2>1 DEF RingStep
    <3>. QED
      BY <3>1, EmptyWellFormed DEF QueryType, GotWellFormed, DueFound
  <2>2. CASE phase' # "down"
    <3>1. due' = {p \in due : p \in durable' /\ Held(p)'} /\ UNCHANGED <<qpc, left, got>>
      BY <1>5, <2>2 DEF RingStep
    <3>. QED
      BY <3>1, <1>q, <1>s DEF QueryType, GotWellFormed, DueFound
  <2>. QED
    BY <2>1, <2>2
<1>6. CASE UNCHANGED allVars
  BY <1>6, <1>q, <1>u DEF allVars, queryVars, QueryType, GotWellFormed, DueFound
<1>. QED
  BY <1>1, <1>2, <1>3, <1>4, <1>5, <1>6 DEF QueryNext

LEMMA QueryInvAlways == QuerySpec => []QueryInv
BY QueryInvInit, QueryInvStep, PTL DEF QuerySpec

-----------------------------------------------------------------------------
(* Theorems *)

\* A query that ends without an error misses no point that was on disk or
\* being rewritten throughout: the chunk it would miss is torn at the moment
\* it is read, and then the query fails as a whole.
THEOREM AnswersAreComplete == QuerySpec => []AnswerComplete
<1>1. QueryInv => AnswerComplete
  <2>. SUFFICES ASSUME QueryInv, qpc = "done", NEW start \in Seconds, NEW end \in Seconds,
                       NEW p \in due, start <= p.sec, p.sec <= end
                PROVE  p \in InRange(start, end)
    BY DEF AnswerComplete
  <2>1. p \in durable /\ Held(p) /\ p \in Content(got[SlotOf(p.sec)])
    BY DEF QueryInv, QueryType, DueFound
  <2>2. SlotOf(p.sec) \in Ring
    BY <2>1, RingFacts DEF QueryInv
  <2>. QED
    BY <2>1, <2>2 DEF InRange
<1>. QED
  BY <1>1, QueryInvAlways, PTL

\* For every set of timestamps and as long as no chunk was written that the
\* codec does not bring back, no answer holds a second twice, whatever
\* rotations, restarts and late points come between the reads of its chunks.
THEOREM AnswersWithoutDuplicates == QuerySpec => []AnswerWithoutDuplicates
<1>1. QueryInv => AnswerWithoutDuplicates
  <2>. SUFFICES ASSUME QueryInv, exact, NEW i \in Ring, NEW j \in Ring,
                       NEW k \in 1..Len(got[i]), NEW l \in 1..Len(got[j]),
                       got[i][k].sec = got[j][l].sec
                PROVE  i = j /\ k = l
    BY DEF AnswerWithoutDuplicates
  <2>1. WellFormed(got[i], i) /\ WellFormed(got[j], j)
        /\ got[i] \in Chunks /\ got[j] \in Chunks
    BY DEF QueryInv, QueryType, GotWellFormed
  <2>2. i = j
    BY <2>1 DEF WellFormed
  <2>3. got[i][k].sec \in Int /\ got[i][l].sec \in Int /\ Len(got[i]) \in Nat
    BY <2>1, <2>2, ChunkElement
  <2>4. ~(k < l) /\ ~(l < k)
    BY <2>1, <2>2, <2>3 DEF WellFormed
  <2>. QED
    BY <2>2, <2>3, <2>4
<1>. QED
  BY <1>1, QueryInvAlways, PTL
=============================================================================
