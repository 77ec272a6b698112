-------------------------- MODULE RemoteWriteProofs --------------------------
(***************************************************************************)
(* Theorems about RemoteWrite for any series, any clock and interval, any  *)
(* delays and any number of failures and restarts: what the sender reads,  *)
(* how often, what it never reads, and what the receiver keeps.            *)
(*                                                                         *)
(* All rest on the order of times in SenderInv: a tick is due an interval  *)
(* after the start at the earliest, and later than all cycles so far; the  *)
(* series that a cycle has still to read have earlier watermarks than the  *)
(* cycle's time.                                                           *)
(***************************************************************************)
EXTENDS RemoteWrite, FiniteSetTheorems, SequenceTheorems, WellFoundedInduction, TLAPS

-----------------------------------------------------------------------------
(* Numbers *)

LEMMA LeastOf ==
    ASSUME NEW S, S \subseteq Nat, S # {}
    PROVE  Min(S) \in S /\ \A y \in S : Min(S) <= y
<1>. DEFINE R == OpToRel(<, Nat)
<1>1. PICK x \in S : \A y \in S : <<y, x>> \notin R
  <2>. HIDE DEF R
  <2>1. IsWellFoundedOn(R, Nat)
    BY NatLessThanWellFounded DEF R
  <2>. QED
    BY <2>1, WFMin
<1>2. \A y \in S : ~(y < x)
  BY <1>1 DEF OpToRel
<1>3. \A y \in S : x <= y
  BY <1>2
<1>. QED
  BY <1>3 DEF Min

\* The newest of times that have passed.
LEMMA NewestIs ==
    ASSUME NEW t \in Nat, NEW S, S \subseteq 0..t
    PROVE  /\ Newest(S) \in Int /\ Newest(S) \in S \cup {-1}
           /\ \A y \in S : y <= Newest(S)
<1>. DEFINE U == S \cup {-1}
            D == {t - x : x \in U}
<1>1. D \subseteq Nat /\ D # {}
  <2>1. \A x \in U : t - x \in Nat
    OBVIOUS
  <2>2. -1 \in U
    OBVIOUS
  <2>. HIDE DEF U
  <2>. QED
    BY <2>1, <2>2
<1>2. Min(D) \in D /\ \A y \in D : Min(D) <= y
  BY <1>1, LeastOf
<1>3. PICK m \in U : Min(D) = t - m
  BY <1>2
<1>4. ASSUME NEW y \in U PROVE y <= m
  <2>1. t - y \in D
    OBVIOUS
  <2>2. t - m <= t - y
    BY <1>2, <1>3, <2>1
  <2>. QED
    BY <2>2
<1>5. Max(U) \in U /\ \A y \in U : y <= Max(U)
  BY <1>4 DEF Max
<1>6. S \subseteq U /\ U \subseteq Int /\ Max(U) = Newest(S)
  BY DEF Newest
<1>. QED
  BY <1>5, <1>6

\* A larger number has no smaller quotient, and one of a larger quotient but
\* the same remainder of it is a whole turn ahead.
LEMMA QuotientGrows ==
    ASSUME NEW n \in Nat \ {0}, NEW a \in Nat, NEW b \in Nat, a <= b
    PROVE  a \div n \in Nat /\ b \div n \in Nat /\ a \div n <= b \div n
<1>1. PICK p \in Nat, q \in Nat : p = a \div n /\ q = b \div n
  OBVIOUS
<1>2. n * p <= a /\ b < n * (q + 1)
  BY <1>1
<1>3. ASSUME p > q PROVE FALSE
  <2>1. PICK d \in Nat : p = (q + 1) + d
    <3>1. p - (q + 1) \in Nat /\ p = (q + 1) + (p - (q + 1))
      BY <1>1, <1>3
    <3>. QED
      BY <3>1
  <2>2. n * p = n * (q + 1) + n * d
    BY <1>1, <2>1
  <2>3. n * d \in Nat /\ n * p \in Nat /\ n * (q + 1) \in Nat
    BY <1>1, <2>1
  <2>. QED
    BY <1>2, <2>2, <2>3
<1>. QED
  BY <1>1, <1>3

LEMMA TurnAhead ==
    ASSUME NEW n \in Nat \ {0}, NEW a \in Nat, NEW b \in Nat, a < b, a % n = b % n
    PROVE  a + n <= b
<1>1. PICK p \in Nat, q \in Nat, r \in Nat : p = a \div n /\ q = b \div n /\ r = a % n
  OBVIOUS
<1>2. a = n * p + r /\ b = n * q + r
  BY <1>1
<1>3. p < q
  <2>1. CASE q <= p
    <3>1. PICK d \in Nat : p = q + d
      <4>1. p - q \in Nat /\ p = q + (p - q)
        BY <1>1, <2>1
      <4>. QED
        BY <4>1
    <3>2. n * p = n * q + n * d /\ n * d \in Nat /\ n * q \in Nat /\ n * p \in Nat
      BY <1>1, <3>1
    <3>. QED
      BY <1>1, <1>2, <3>2
  <2>. QED
    BY <1>1, <2>1
<1>4. PICK d \in Nat : q = p + 1 + d
  <2>1. q - (p + 1) \in Nat /\ q = p + 1 + (q - (p + 1))
    BY <1>1, <1>3
  <2>. QED
    BY <2>1
<1>5. n * q = n * p + n + n * d /\ n * d \in Nat /\ n * p \in Nat /\ n * q \in Nat
  BY <1>1, <1>4
<1>. QED
  BY <1>1, <1>2, <1>5

\* The first tick comes an interval after the start.
LEMMA FirstTick ==
    ASSUME NEW a \in Nat, a > 0, NEW n \in Nat \ {0}, a % n = 0
    PROVE  a >= n
<1>. SUFFICES ASSUME a < n PROVE FALSE
  OBVIOUS
<1>1. a % n = a
  OBVIOUS
<1>. QED
  BY <1>1

LEMMA StartIsNumber ==
    ASSUME NEW x \in Samples
    PROVE  Start(x.sec) \in Int
BY RemoteAssumption DEF Samples, Seconds, Start

-----------------------------------------------------------------------------
(* Seconds and rings *)

LEMMA LastSecond == SecondOf(MaxTime) \in Nat
<1>1. MaxTime \in Nat /\ PerSecond \in Nat \ {0}
  BY RemoteAssumption
<1>2. MaxTime \div PerSecond \in Nat
  BY <1>1
<1>. QED
  BY <1>2 DEF SecondOf

\* Seconds are whole numbers, and times go up with them.
LEMMA SecondsAre ==
    /\ Seconds \subseteq Nat
    /\ \A stamp \in 0..MaxTime : SecondOf(stamp) \in Seconds
<1>. DEFINE m == SecondOf(MaxTime)
<1>1. MaxTime \in Nat /\ PerSecond \in Nat \ {0}
  BY RemoteAssumption
<1>2. m \in Nat /\ m = MaxTime \div PerSecond
  BY <1>1 DEF SecondOf
<1>3. ASSUME NEW stamp \in 0..MaxTime PROVE SecondOf(stamp) \in 0..m
  <2>1. stamp \div PerSecond \in Nat /\ stamp \div PerSecond <= MaxTime \div PerSecond
    BY <1>1, QuotientGrows
  <2>. QED
    BY <1>2, <2>1 DEF SecondOf
<1>. QED
  BY <1>2, <1>3 DEF Seconds

LEMMA StartGrows ==
    ASSUME NEW a \in Seconds, NEW b \in Seconds, Start(a) <= Start(b)
    PROVE  a <= b
<1>1. a \in Nat /\ b \in Nat /\ PerSecond \in Nat \ {0}
  BY SecondsAre, RemoteAssumption
<1>2. ASSUME b < a PROVE FALSE
  <2>1. PICK d \in Nat : a = b + 1 + d
    <3>1. a - (b + 1) \in Nat /\ a = b + 1 + (a - (b + 1))
      BY <1>1, <1>2
    <3>. QED
      BY <3>1
  <2>2. a * PerSecond = b * PerSecond + PerSecond + d * PerSecond
    BY <1>1, <2>1
  <2>3. a * PerSecond \in Nat /\ d * PerSecond \in Nat /\ b * PerSecond \in Nat
    BY <1>1, <2>1
  <2>. QED
    BY <1>1, <2>2, <2>3 DEF Start
<1>. QED
  BY <1>1, <1>2

Rings == [at : Ring \cup {-1}, file : [Ring -> SUBSET Seconds]]

LEMMA EmptyIsRing == EmptyRing \in Rings /\ Held(EmptyRing) = {}
BY DEF EmptyRing, Rings, Held

LEMMA SlotIs ==
    ASSUME NEW sec \in Seconds, NEW size \in Nat \ {0}
    PROVE  SlotOf(sec, size) \in Ring /\ ChunkOf(sec, size) \in Nat
<1>1. sec \in Nat /\ Slots \in Nat \ {0}
  BY SecondsAre, RemoteAssumption
<1>2. ChunkOf(sec, size) \in Nat
  BY <1>1 DEF ChunkOf
<1>. QED
  BY <1>1, <1>2 DEF SlotOf, Ring

LEMMA NewestHeld ==
    ASSUME NEW S, S \subseteq Seconds
    PROVE  /\ Newest(S) \in Int /\ Newest(S) \in S \cup {-1}
           /\ \A y \in S : y <= Newest(S)
<1>1. SecondOf(MaxTime) \in Nat
  BY LastSecond
<1>. QED
  BY <1>1, NewestIs DEF Seconds

\* What a write does to a ring.
LEMMA WrittenIs ==
    ASSUME NEW ring \in Rings, NEW sec \in Seconds, NEW size \in Nat \ {0}
    PROVE  /\ Written(ring, sec, size) \in Rings
           /\ Held(Written(ring, sec, size)) \subseteq Held(ring) \cup {sec}
<1>. DEFINE idx == SlotOf(sec, size)
            chunk == IF idx = ring.at THEN ring.file[idx] ELSE {}
            after == [at |-> idx, file |-> [ring.file EXCEPT ![idx] = chunk \cup {sec}]]
<1>1. idx \in Ring
  BY SlotIs
<1>2. chunk \subseteq ring.file[idx] /\ ring.file \in [Ring -> SUBSET Seconds]
  BY DEF Rings
<1>3. Written(ring, sec, size) \in {ring, after}
  BY DEF Written
<1>. HIDE DEF idx, chunk
<1>4. after \in Rings
  BY <1>1, <1>2 DEF Rings
<1>5. Held(after) \subseteq Held(ring) \cup {sec}
  BY <1>1, <1>2 DEF Held
<1>. QED
  BY <1>3, <1>4, <1>5

LEMMA HeldIs ==
    ASSUME NEW ring \in Rings
    PROVE  Held(ring) \subseteq Seconds
BY DEF Held, Rings

LEMMA ReopenedIs ==
    ASSUME NEW ring \in Rings
    PROVE  Reopened(ring) \in Rings /\ Held(Reopened(ring)) = Held(ring)
<1>. DEFINE i == CHOOSE i \in Ring : Newest(Held(ring)) \in ring.file[i]
            at == IF Held(ring) = {} THEN -1 ELSE i
<1>1. Reopened(ring) = [ring EXCEPT !.at = at]
  BY Zenon DEF Reopened
<1>2. ASSUME Held(ring) # {} PROVE i \in Ring
  <2>1. PICK y \in Held(ring) : TRUE
    BY <1>2
  <2>2. Newest(Held(ring)) \in Held(ring)
    <3>1. /\ Newest(Held(ring)) \in Int /\ Newest(Held(ring)) \in Held(ring) \cup {-1}
          /\ y <= Newest(Held(ring)) /\ y \in Nat
      BY <2>1, HeldIs, NewestHeld, SecondsAre
    <3>. QED
      BY <3>1
  <2>3. \E j \in Ring : Newest(Held(ring)) \in ring.file[j]
    BY <2>2 DEF Held
  <2>. QED
    BY <2>3
<1>3. at \in Ring \cup {-1}
  BY <1>2
<1>. HIDE DEF at
<1>4. Reopened(ring) = [at |-> at, file |-> ring.file]
  BY <1>1 DEF Rings
<1>. QED
  BY <1>3, <1>4 DEF Rings, Held

-----------------------------------------------------------------------------
(* The order of times *)

\* A due tick is newer than every cycle, and no tick comes within an interval
\* of the start.
ClockInv ==
    /\ now \in Nat /\ started \in 0..now
    /\ hist.begun \subseteq 0..now
    /\ due => started + Interval <= now /\ \A b \in hist.begun : b < now

\* Watermarks are times of cycles.  A series that the cycle in progress has
\* still to read has an earlier one than that cycle.
WatermarkInv ==
    /\ DOMAIN watermark \subseteq Series
    /\ \A s \in DOMAIN watermark : watermark[s] \in hist.begun
    /\ cycle.phase \in {"listing", "reading"} =>
          cycle.at \in hist.begun /\ started + Interval <= cycle.at
    /\ cycle.phase = "listing" => \A s \in DOMAIN watermark : watermark[s] < cycle.at
    /\ cycle.phase = "reading" =>
          \A s \in cycle.todo \cap DOMAIN watermark : watermark[s] < cycle.at

ShapeInv ==
    /\ cycle = [phase |-> cycle.phase, at |-> cycle.at, todo |-> cycle.todo, batch |-> cycle.batch]
    /\ cycle.todo \subseteq Series
    /\ hist = [read |-> hist.read, taken |-> hist.taken, begun |-> hist.begun,
               overtaken |-> hist.overtaken, tooOld |-> hist.tooOld, crossed |-> hist.crossed]
    /\ hist.read \in [Samples -> Nat]
    /\ stored \in [Series -> Rings]

SenderInv == ShapeInv /\ ClockInv /\ WatermarkInv

LEMMA NextIsToDo ==
    ASSUME ShapeInv, Reading
    PROVE  NextSeries \in cycle.todo
<1>. DEFINE I == {i \in DOMAIN Keys : Keys[i] \in cycle.todo}
<1>1. Keys \in Seq(Series)
  BY RemoteAssumption
<1>2. I \subseteq Nat
  BY <1>1
<1>3. I # {}
  <2>1. PICK s \in cycle.todo : TRUE
    BY DEF Reading
  <2>2. s \in ToSet(Keys)
    BY <2>1 DEF ShapeInv, Series
  <2>. QED
    BY <2>1, <2>2 DEF ToSet
<1>4. Min(I) \in I
  BY <1>2, <1>3, LeastOf
<1>. QED
  BY <1>4 DEF NextSeries

\* The samples that the query of a series' own points returns, and those the
\* series' first query is too late for.
Own(s) == {x \in Samples : x.series = s /\ x.sec \in InRange(s, Since(s), cycle.at)}
TooLateFor(s) ==
    {x \in Samples : /\ x.series = s /\ s \notin DOMAIN watermark
                     /\ x.sec \in Held(stored[s]) /\ Start(x.sec) < cycle.at - Interval}

LEMMA WhatIsRead ==
    ASSUME ShapeInv, ReadSeries
    PROVE  /\ hist' = [read |-> hist'.read, taken |-> hist.taken, begun |-> hist.begun,
                       overtaken |-> hist.overtaken,
                       tooOld |-> hist.tooOld \cup TooLateFor(NextSeries),
                       crossed |-> hist.crossed]
           /\ hist'.read = [x \in Samples |-> IF x \in Own(NextSeries) THEN hist.read[x] + 1
                                                                     ELSE hist.read[x]]
           /\ hist'.read \in [Samples -> Nat]
<1>. DEFINE R == [x \in Samples |-> IF x \in Own(NextSeries) THEN hist.read[x] + 1
                                                            ELSE hist.read[x]]
            T == TooLateFor(NextSeries)
<1>1. hist' = [hist EXCEPT !.read = R, !.tooOld = @ \cup T]
  BY Zenon DEF ReadSeries, Own, TooLateFor
<1>2. R \in [Samples -> Nat]
  BY DEF ShapeInv
<1>. HIDE DEF R, T
<1>3. /\ hist' = [read |-> R, taken |-> hist.taken, begun |-> hist.begun,
                  overtaken |-> hist.overtaken, tooOld |-> hist.tooOld \cup T,
                  crossed |-> hist.crossed]
      /\ hist'.read = R
  BY <1>1 DEF ShapeInv
<1>4. hist'.read \in [Samples -> Nat]
  BY <1>2, <1>3
<1>. QED
  BY <1>3, <1>4 DEF R, T

LEMMA SenderInit == Init => SenderInv
<1>. SUFFICES ASSUME Init PROVE SenderInv
  OBVIOUS
<1>1. DOMAIN watermark = {}
  BY DEF Init
<1>2. ShapeInv
  BY EmptyIsRing DEF Init, ShapeInv, Idle, NoHistory
<1>3. ClockInv
  BY DEF Init, ClockInv, NoHistory
<1>4. WatermarkInv
  BY <1>1 DEF Init, WatermarkInv, Idle
<1>. QED
  BY <1>2, <1>3, <1>4 DEF SenderInv

LEMMA SenderStepInv == SenderInv /\ [Next]_vars => SenderInv'
<1>. SUFFICES ASSUME SenderInv, [Next]_vars PROVE SenderInv'
  OBVIOUS
<1>. USE DEF SenderInv
<1>1. CASE Advance
  <2>1. ShapeInv'
    BY <1>1 DEF Advance, ShapeInv
  <2>2. ClockInv'
    <3>1. now' = now + 1 /\ started' = started /\ hist' = hist
      BY <1>1 DEF Advance
    <3>2. ASSUME due', ~due PROVE started + Interval <= now'
      <4>1. (now' - started) % Interval = 0
        BY <1>1, <3>2 DEF Advance
      <4>2. now' - started \in Nat /\ now' - started > 0 /\ Interval \in Nat \ {0}
        BY <3>1, RemoteAssumption DEF ClockInv
      <4>3. now' - started >= Interval
        BY <4>1, <4>2, FirstTick
      <4>. QED
        BY <4>2, <4>3, <3>1 DEF ClockInv
    <3>3. due' => started' + Interval <= now' /\ \A b \in hist'.begun : b < now'
      BY <3>1, <3>2, RemoteAssumption DEF ClockInv
    <3>. QED
      BY <3>1, <3>3 DEF ClockInv
  <2>3. WatermarkInv'
    BY <1>1 DEF Advance, WatermarkInv
  <2>. QED
    BY <2>1, <2>2, <2>3
<1>2. ASSUME NEW s \in Series, NEW stamp \in 0..MaxTime, Ingest(s, stamp) PROVE SenderInv'
  <2>1. ShapeInv'
    <3>1. SecondOf(stamp) \in Seconds /\ stored[s] \in Rings
      BY SecondsAre DEF ShapeInv
    <3>2. Written(stored[s], SecondOf(stamp), ChunkSeconds) \in Rings
      BY <3>1, WrittenIs, RemoteAssumption
    <3>3. stored' \in [Series -> Rings]
      BY <1>2, <3>2 DEF Ingest, ShapeInv
    <3>. QED
      BY <1>2, <3>3 DEF Ingest, ShapeInv
  <2>2. hist'.begun = hist.begun
    BY <1>2 DEF Ingest, ShapeInv
  <2>3. ClockInv' /\ WatermarkInv'
    BY <1>2, <2>2 DEF Ingest, ClockInv, WatermarkInv
  <2>. QED
    BY <2>1, <2>3
<1>3. CASE BeginCycle
  <2>1. ShapeInv'
    BY <1>3 DEF BeginCycle, ShapeInv, Idle
  <2>2. /\ hist'.begun = hist.begun \cup {now}
        /\ cycle'.phase = "listing" /\ cycle'.at = now
    BY <1>3 DEF BeginCycle, ShapeInv, Idle
  <2>3. ClockInv'
    BY <1>3, <2>2 DEF BeginCycle, ClockInv
  <2>4. WatermarkInv'
    BY <1>3, <2>2 DEF BeginCycle, ClockInv, WatermarkInv
  <2>. QED
    BY <2>1, <2>3, <2>4
<1>4. CASE ListSeries
  <2>1. ShapeInv'
    BY <1>4 DEF ListSeries, ShapeInv
  <2>2. cycle'.phase = "reading" /\ cycle'.at = cycle.at /\ cycle.phase = "listing"
    BY <1>4 DEF ListSeries, ShapeInv
  <2>3. ClockInv' /\ WatermarkInv'
    BY <1>4, <2>2 DEF ListSeries, ClockInv, WatermarkInv
  <2>. QED
    BY <2>1, <2>3
<1>5. CASE ReadSeries
  <2>. DEFINE s == NextSeries
  <2>1. s \in cycle.todo
    BY <1>5, NextIsToDo DEF ReadSeries
  <2>2. /\ cycle.phase = "reading" /\ cycle'.phase = "reading"
        /\ cycle'.at = cycle.at /\ cycle'.todo = cycle.todo \ {s}
        /\ cycle' = [phase |-> cycle'.phase, at |-> cycle'.at, todo |-> cycle'.todo,
                     batch |-> cycle'.batch]
    BY <1>5 DEF ReadSeries, Reading, ShapeInv
  <2>3. /\ hist'.begun = hist.begun
        /\ hist'.read \in [Samples -> Nat]
        /\ hist' = [read |-> hist'.read, taken |-> hist'.taken, begun |-> hist'.begun,
                    overtaken |-> hist'.overtaken, tooOld |-> hist'.tooOld,
                    crossed |-> hist'.crossed]
    BY <1>5, WhatIsRead DEF ShapeInv
  <2>4. ShapeInv'
    BY <1>5, <2>2, <2>3 DEF ReadSeries, ShapeInv
  <2>5. ClockInv'
    BY <1>5, <2>3 DEF ReadSeries, ClockInv
  <2>6. watermark' = [r \in DOMAIN watermark \cup {s} |-> IF r = s THEN cycle.at ELSE watermark[r]]
    BY <1>5 DEF ReadSeries, AdvanceWatermark
  <2>. HIDE DEF s
  <2>7. WatermarkInv'
    BY <1>5, <2>1, <2>2, <2>3, <2>6 DEF ReadSeries, WatermarkInv, ShapeInv
  <2>. QED
    BY <2>4, <2>5, <2>7
<1>6. CASE NothingToSend \/ FailRead \/ Timeout
  <2>1. cycle' = Idle /\ UNCHANGED <<now, started, due, stored, watermark, hist>>
    BY <1>6 DEF NothingToSend, FailRead, Timeout
  <2>. QED
    BY <2>1 DEF ShapeInv, ClockInv, WatermarkInv, Idle
<1>7. CASE Push
  <2>1. ShapeInv'
    BY <1>7 DEF Push, ShapeInv
  <2>2. cycle'.phase = "waiting" /\ hist'.begun = hist.begun
    BY <1>7 DEF Push, ShapeInv
  <2>3. ClockInv' /\ WatermarkInv'
    BY <1>7, <2>2 DEF Push, ClockInv, WatermarkInv
  <2>. QED
    BY <2>1, <2>3
<1>8. CASE LoseRequests
  <2>1. cycle' \in {Idle, cycle} /\ UNCHANGED <<now, started, due, stored, watermark, hist>>
    BY <1>8 DEF LoseRequests
  <2>2. CASE cycle' = Idle
    BY <2>1, <2>2 DEF ShapeInv, ClockInv, WatermarkInv, Idle
  <2>3. CASE cycle' = cycle
    BY <2>1, <2>3 DEF ShapeInv, ClockInv, WatermarkInv
  <2>. QED
    BY <2>1, <2>2, <2>3
<1>9. CASE Restart
  <2>1. DOMAIN watermark' = {}
    BY <1>9 DEF Restart
  <2>2. \A s \in Series : Reopened(stored[s]) \in Rings
    BY ReopenedIs DEF ShapeInv
  <2>3. stored' \in [Series -> Rings]
    BY <1>9, <2>2 DEF Restart
  <2>. QED
    BY <1>9, <2>1, <2>3 DEF Restart, ShapeInv, ClockInv, WatermarkInv, Idle
<1>10. CASE Handle
  <2>1. PICK i \in DOMAIN requests : HandleSample(i)
    BY <1>10 DEF Handle
  <2>2. cycle' \in {Idle, cycle} /\ UNCHANGED <<now, started, due, stored, watermark>>
    BY <2>1 DEF HandleSample
  <2>3. /\ hist'.begun = hist.begun /\ hist'.read = hist.read
        /\ hist' = [read |-> hist'.read, taken |-> hist'.taken, begun |-> hist'.begun,
                    overtaken |-> hist'.overtaken, tooOld |-> hist'.tooOld,
                    crossed |-> hist'.crossed]
    BY <2>1 DEF HandleSample, ShapeInv
  <2>4. CASE cycle' = Idle
    BY <2>2, <2>3, <2>4 DEF ShapeInv, ClockInv, WatermarkInv, Idle
  <2>5. CASE cycle' = cycle
    BY <2>2, <2>3, <2>5 DEF ShapeInv, ClockInv, WatermarkInv
  <2>. QED
    BY <2>2, <2>4, <2>5
<1>11. CASE UNCHANGED vars
  BY <1>11 DEF vars, ShapeInv, ClockInv, WatermarkInv
<1>. QED
  BY <1>1, <1>2, <1>3, <1>4, <1>5, <1>6, <1>7, <1>8, <1>9, <1>10, <1>11 DEF Next, SenderStep

LEMMA SenderAlways == Spec => []SenderInv
<1>. QED
  BY SenderInit, SenderStepInv, PTL DEF Spec

-----------------------------------------------------------------------------
(* What is read, and how often *)

\* Where the next range of a series begins at the earliest.
Bound(s) == IF s \in DOMAIN watermark THEN watermark[s] ELSE started

\* What has been read is not behind the bound.  At the bound it has been read
\* once, as the last sample of a range that ended there.
ReadInv ==
    \A x \in Samples :
        LET T == Start(x.sec)
            n == hist.read[x]
        IN  /\ n > 0 => T <= Bound(x.series)
            /\ n <= IF T \in hist.begun THEN 2 ELSE 1
            /\ n > 0 /\ T = Bound(x.series) => n = 1 /\ T \in hist.begun

\* All but ReadSeries and Restart leave the bounds and the counts alone.
LEMMA ReadKept ==
    ASSUME ReadInv, UNCHANGED <<started, watermark>>, hist'.read = hist.read,
           hist.begun \subseteq hist'.begun, ShapeInv
    PROVE  ReadInv'
<1>. SUFFICES ASSUME NEW x \in Samples
              PROVE  LET T == Start(x.sec)
                         n == hist'.read[x]
                     IN  /\ n > 0 => T <= Bound(x.series)'
                         /\ n <= IF T \in hist'.begun THEN 2 ELSE 1
                         /\ n > 0 /\ T = Bound(x.series)' => n = 1 /\ T \in hist'.begun
  BY DEF ReadInv
<1>1. Bound(x.series)' = Bound(x.series)
  BY DEF Bound
<1>2. hist.read[x] \in Nat
  BY DEF ShapeInv
<1>. QED
  BY <1>1, <1>2 DEF ReadInv

LEMMA ReadStep == SenderInv /\ ReadInv /\ [Next]_vars => ReadInv'
<1>. SUFFICES ASSUME SenderInv, ReadInv, [Next]_vars PROVE ReadInv'
  OBVIOUS
<1>. USE DEF SenderInv
<1>1. CASE Advance
  BY <1>1, ReadKept DEF Advance
<1>2. ASSUME NEW s \in Series, NEW stamp \in 0..MaxTime, Ingest(s, stamp) PROVE ReadInv'
  <2>1. hist'.read = hist.read /\ hist'.begun = hist.begun
    BY <1>2 DEF Ingest, ShapeInv
  <2>. QED
    BY <1>2, <2>1, ReadKept DEF Ingest
<1>3. CASE BeginCycle
  <2>1. hist'.read = hist.read /\ hist'.begun = hist.begun \cup {now}
    BY <1>3 DEF BeginCycle, ShapeInv
  <2>. QED
    BY <1>3, <2>1, ReadKept DEF BeginCycle
<1>4. CASE ReadSeries
  <2>0. PICK s : s = NextSeries
    OBVIOUS
  <2>1. s \in cycle.todo /\ s \in Series
    BY <1>4, <2>0, NextIsToDo DEF ReadSeries, ShapeInv
  <2>2. /\ watermark' = [r \in DOMAIN watermark \cup {s} |->
                            IF r = s THEN cycle.at ELSE watermark[r]]
        /\ started' = started
        /\ cycle.phase = "reading"
    BY <1>4, <2>0 DEF ReadSeries, AdvanceWatermark, Reading
  <2>3. /\ hist'.begun = hist.begun
        /\ hist'.read = [x \in Samples |-> IF x \in Own(s) THEN hist.read[x] + 1 ELSE hist.read[x]]
    BY <1>4, <2>0, WhatIsRead
  <2>4. /\ cycle.at \in hist.begun
        /\ started + Interval <= cycle.at
        /\ s \in DOMAIN watermark => watermark[s] < cycle.at
    BY <2>1, <2>2 DEF WatermarkInv
  <2>5. started \in Nat /\ cycle.at \in Nat /\ Interval \in Nat \ {0}
        /\ (s \in DOMAIN watermark => watermark[s] \in Nat)
    BY <2>4, RemoteAssumption DEF ClockInv, WatermarkInv
  <2>6. Bound(s) \in Nat /\ Bound(s) <= Since(s) /\ Bound(s) < cycle.at /\ Since(s) \in Int
    BY <2>4, <2>5 DEF Bound, Since
  <2>7. Bound(s)' = cycle.at
    BY <2>2 DEF Bound
  <2>8. ASSUME NEW x \in Samples
        PROVE  LET T == Start(x.sec)
                   n == hist'.read[x]
               IN  /\ n > 0 => T <= Bound(x.series)'
                   /\ n <= IF T \in hist'.begun THEN 2 ELSE 1
                   /\ n > 0 /\ T = Bound(x.series)' => n = 1 /\ T \in hist'.begun
    <3>1. hist.read[x] \in Nat /\ Start(x.sec) \in Int
      BY StartIsNumber DEF ShapeInv
    <3>2. /\ hist.read[x] > 0 => Start(x.sec) <= Bound(x.series)
          /\ hist.read[x] <= IF Start(x.sec) \in hist.begun THEN 2 ELSE 1
          /\ hist.read[x] > 0 /\ Start(x.sec) = Bound(x.series)
                => hist.read[x] = 1 /\ Start(x.sec) \in hist.begun
      BY DEF ReadInv
    <3>3. CASE x \in Own(s)
      <4>1. x.series = s /\ Since(s) <= Start(x.sec) /\ Start(x.sec) <= cycle.at
        BY <3>3 DEF Own, InRange
      <4>2. hist'.read[x] = hist.read[x] + 1
        BY <2>3, <3>3
      <4>3. CASE hist.read[x] = 0
        BY <2>3, <2>4, <2>7, <4>1, <4>2, <4>3
      <4>4. CASE hist.read[x] > 0
        <5>1. Start(x.sec) = Bound(s)
          BY <2>6, <3>1, <3>2, <4>1, <4>4
        <5>2. hist.read[x] = 1 /\ Start(x.sec) \in hist.begun
          BY <3>2, <4>1, <4>4, <5>1
        <5>. QED
          BY <2>3, <2>6, <2>7, <4>1, <4>2, <5>1, <5>2
      <4>. QED
        BY <3>1, <4>3, <4>4
    <3>4. CASE x \notin Own(s) /\ x.series = s
      <4>1. hist'.read[x] = hist.read[x]
        BY <2>3, <3>4
      <4>. QED
        BY <2>3, <2>5, <2>6, <2>7, <3>1, <3>2, <3>4, <4>1
    <3>5. CASE x \notin Own(s) /\ x.series # s
      <4>1. hist'.read[x] = hist.read[x]
        BY <2>3, <3>5
      <4>2. Bound(x.series)' = Bound(x.series)
        BY <2>2, <3>5 DEF Bound
      <4>. QED
        BY <2>3, <3>2, <4>1, <4>2
    <3>6. x \in Own(s) => x.series = s
      BY DEF Own
    <3>. QED
      BY <3>3, <3>4, <3>5, <3>6
  <2>. QED
    BY <2>8 DEF ReadInv
<1>5. CASE ListSeries \/ NothingToSend \/ FailRead \/ Timeout \/ LoseRequests
  BY <1>5, ReadKept DEF ListSeries, NothingToSend, FailRead, Timeout, LoseRequests
<1>9. CASE Push
  <2>1. hist'.read = hist.read /\ hist'.begun = hist.begun
    BY <1>9 DEF Push, ShapeInv
  <2>. QED
    BY <1>9, <2>1, ReadKept DEF Push
<1>6. CASE Restart
  <2>1. /\ DOMAIN watermark' = {} /\ started' = now /\ hist' = hist
    BY <1>6 DEF Restart
  <2>2. ASSUME NEW x \in Samples
        PROVE  LET T == Start(x.sec)
                   n == hist'.read[x]
               IN  /\ n > 0 => T <= Bound(x.series)'
                   /\ n <= IF T \in hist'.begun THEN 2 ELSE 1
                   /\ n > 0 /\ T = Bound(x.series)' => n = 1 /\ T \in hist'.begun
    <3>1. hist.read[x] \in Nat /\ Start(x.sec) \in Int
      BY StartIsNumber DEF ShapeInv
    <3>2. Bound(x.series)' = now
      BY <2>1 DEF Bound
    <3>3. now \in Nat /\ Bound(x.series) \in Nat /\ Bound(x.series) <= now
      BY DEF Bound, ClockInv, WatermarkInv
    <3>. QED
      BY <2>1, <3>1, <3>2, <3>3 DEF ReadInv
  <2>. QED
    BY <2>2 DEF ReadInv
<1>7. CASE Handle
  <2>1. PICK i \in DOMAIN requests : HandleSample(i)
    BY <1>7 DEF Handle
  <2>2. hist'.read = hist.read /\ hist'.begun = hist.begun
    BY <2>1 DEF HandleSample, ShapeInv
  <2>. QED
    BY <2>1, <2>2, ReadKept DEF HandleSample
<1>8. CASE UNCHANGED vars
  BY <1>8, ReadKept DEF vars
<1>. QED
  BY <1>1, <1>2, <1>3, <1>4, <1>5, <1>6, <1>7, <1>8, <1>9 DEF Next, SenderStep

\* A series' own queries return no sample twice, unless a cycle began exactly at
\* the start of the sample's second, and never three times: through failed
\* queries and pushes, slow cycles and restarts, for any interval (sendOnce's
\* since and watermarks).
THEOREM SamplesAlwaysReadOnce == Spec => []ReadOnceUnlessSplit
<1>1. Init => ReadInv
  BY DEF Init, NoHistory, ReadInv
<1>2. ReadInv => ReadOnceUnlessSplit
  BY DEF ReadInv, ReadOnceUnlessSplit, StoredSamples
<1>. QED
  BY <1>1, <1>2, SenderAlways, ReadStep, PTL DEF Spec

-----------------------------------------------------------------------------
(* What is never read *)

LEMMA MissedKept ==
    ASSUME MissedForAReason, UNCHANGED <<stored, watermark>>, hist'.read = hist.read,
           hist'.overtaken = hist.overtaken, hist'.tooOld = hist.tooOld
    PROVE  MissedForAReason'
BY DEF MissedForAReason, Passed, StoredSamples

LEMMA MissedStep == SenderInv /\ MissedForAReason /\ [Next]_vars => MissedForAReason'
<1>. SUFFICES ASSUME SenderInv, MissedForAReason, [Next]_vars PROVE MissedForAReason'
  OBVIOUS
<1>. USE DEF SenderInv
<1>1. CASE Advance \/ ListSeries \/ NothingToSend \/ FailRead \/ Timeout \/ LoseRequests
  BY <1>1, MissedKept
     DEF Advance, ListSeries, NothingToSend, FailRead, Timeout, LoseRequests
<1>2. ASSUME NEW s \in Series, NEW stamp \in 0..MaxTime, Ingest(s, stamp)
      PROVE  MissedForAReason'
  <2>. DEFINE sec == SecondOf(stamp)
              late == Start(sec) <= Newest(hist.begun)
  <2>1. /\ hist'.read = hist.read /\ hist'.tooOld = hist.tooOld
        /\ hist'.overtaken = IF late THEN hist.overtaken \cup {[series |-> s, sec |-> sec]}
                                     ELSE hist.overtaken
        /\ watermark' = watermark
    BY <1>2 DEF Ingest, ShapeInv
  <2>2. stored' = [stored EXCEPT ![s] = Written(stored[s], sec, ChunkSeconds)]
    BY <1>2 DEF Ingest
  <2>3. SUFFICES ASSUME NEW x \in Samples, x.sec \in Held(stored'[x.series]), Passed(x)',
                        hist.read[x] = 0
                 PROVE  x \in hist'.overtaken \/ x \in hist.tooOld
    BY <2>1 DEF MissedForAReason, StoredSamples
  <2>4. Passed(x)
    BY <2>1, <2>3 DEF Passed
  <2>7. sec \in Seconds /\ stored[s] \in Rings
    BY SecondsAre DEF ShapeInv
  <2>. HIDE DEF sec, late
  <2>5. CASE x.sec \in Held(stored[x.series])
    <3>1. x \in hist.overtaken \/ x \in hist.tooOld
      BY <2>3, <2>4, <2>5 DEF MissedForAReason, StoredSamples
    <3>. QED
      BY <2>1, <3>1
  <2>6. CASE x.sec \notin Held(stored[x.series])
    <3>0. Held(Written(stored[s], sec, ChunkSeconds)) \subseteq Held(stored[s]) \cup {sec}
      BY <2>7, WrittenIs, RemoteAssumption
    <3>1. x.series = s /\ x.sec = sec
      BY <2>2, <2>3, <2>6, <3>0 DEF ShapeInv, Samples
    <3>2. x = [series |-> s, sec |-> sec]
      BY <3>1 DEF Samples
    <3>3. late
      <4>1. watermark[s] \in hist.begun /\ Start(sec) <= watermark[s]
        BY <2>4, <3>1 DEF Passed, WatermarkInv
      <4>2. watermark[s] <= Newest(hist.begun)
        BY <4>1, NewestIs DEF ClockInv
      <4>3. Start(sec) \in Int /\ watermark[s] \in Int
        BY <4>1, <3>1, StartIsNumber DEF ClockInv
      <4>4. Newest(hist.begun) \in Int
        BY NewestIs DEF ClockInv
      <4>. QED
        BY <4>1, <4>2, <4>3, <4>4 DEF late
    <3>. QED
      BY <2>1, <3>2, <3>3
  <2>. QED
    BY <2>5, <2>6
<1>3. CASE BeginCycle \/ Push
  <2>1. /\ hist'.read = hist.read /\ hist'.overtaken = hist.overtaken
        /\ hist'.tooOld = hist.tooOld
    BY <1>3 DEF BeginCycle, Push, ShapeInv
  <2>. QED
    BY <1>3, <2>1, MissedKept DEF BeginCycle, Push
<1>4. CASE ReadSeries
  <2>0. PICK s : s = NextSeries
    OBVIOUS
  <2>1. /\ watermark' = [r \in DOMAIN watermark \cup {s} |->
                            IF r = s THEN cycle.at ELSE watermark[r]]
        /\ stored' = stored
    BY <1>4, <2>0 DEF ReadSeries, AdvanceWatermark
  <2>2. /\ hist'.overtaken = hist.overtaken
        /\ hist'.tooOld = hist.tooOld \cup TooLateFor(s)
        /\ hist'.read = [x \in Samples |-> IF x \in Own(s) THEN hist.read[x] + 1 ELSE hist.read[x]]
    BY <1>4, <2>0, WhatIsRead
  <2>3. SUFFICES ASSUME NEW x \in Samples, x.sec \in Held(stored[x.series]), Passed(x)',
                        hist'.read[x] = 0
                 PROVE  x \in hist.overtaken \/ x \in hist'.tooOld
    BY <2>1, <2>2 DEF MissedForAReason, StoredSamples
  <2>4. hist.read[x] = 0 /\ x \notin Own(s)
    BY <2>2, <2>3 DEF ShapeInv
  <2>5. ASSUME Passed(x) PROVE x \in hist.overtaken \/ x \in hist'.tooOld
    BY <2>2, <2>3, <2>4, <2>5 DEF MissedForAReason, StoredSamples
  <2>6. CASE x.series # s
    <3>1. Passed(x)
      BY <2>1, <2>3, <2>6 DEF Passed
    <3>. QED
      BY <2>5, <3>1
  <2>7. CASE x.series = s
    <3>1. Start(x.sec) <= cycle.at /\ Start(x.sec) \in Int
      BY <2>1, <2>3, <2>7, StartIsNumber DEF Passed
    <3>2. ~(Since(s) <= Start(x.sec))
      BY <2>3, <2>4, <2>7, <3>1 DEF Own, InRange
    <3>3. cycle.at \in Nat /\ Interval \in Nat
      <4>1. cycle.phase = "reading"
        BY <1>4 DEF ReadSeries, Reading
      <4>. QED
        BY <4>1, RemoteAssumption DEF ClockInv, WatermarkInv
    <3>4. CASE s \in DOMAIN watermark
      <4>1. watermark[s] \in Nat
        BY <3>4 DEF ClockInv, WatermarkInv
      <4>2. Start(x.sec) <= watermark[s]
        BY <3>1, <3>2, <3>4, <4>1 DEF Since
      <4>. QED
        BY <2>5, <2>7, <3>4, <4>2 DEF Passed
    <3>5. CASE s \notin DOMAIN watermark
      <4>1. Start(x.sec) < cycle.at - Interval
        BY <3>1, <3>2, <3>3, <3>5 DEF Since
      <4>2. x \in TooLateFor(s)
        BY <2>3, <2>7, <3>5, <4>1 DEF TooLateFor
      <4>. QED
        BY <2>2, <4>2
    <3>. QED
      BY <3>4, <3>5
  <2>. QED
    BY <2>6, <2>7
<1>5. CASE Restart
  <2>1. DOMAIN watermark' = {}
    BY <1>5 DEF Restart
  <2>. QED
    BY <2>1 DEF MissedForAReason, Passed
<1>6. CASE Handle
  <2>1. PICK i \in DOMAIN requests : HandleSample(i)
    BY <1>6 DEF Handle
  <2>2. /\ hist'.read = hist.read /\ hist'.overtaken = hist.overtaken
        /\ hist'.tooOld = hist.tooOld
    BY <2>1 DEF HandleSample, ShapeInv
  <2>. QED
    BY <2>1, <2>2, MissedKept DEF HandleSample
<1>7. CASE UNCHANGED vars
  BY <1>7, MissedKept DEF vars
<1>. QED
  BY <1>1, <1>2, <1>3, <1>4, <1>5, <1>6, <1>7 DEF Next, SenderStep

\* A sample that a series' watermark has passed without its being read came
\* after a cycle of a later time had begun, or was more than an interval old
\* when a process first looked at its series: failed queries, failed pushes and
\* restarts lose no sample from the ranges themselves (sendOnce moves a
\* watermark only after the query that it is for).
THEOREM MissedAlwaysForAReason == Spec => []MissedForAReason
<1>1. Init => MissedForAReason
  <2>. SUFFICES ASSUME Init PROVE MissedForAReason
    OBVIOUS
  <2>1. DOMAIN watermark = {}
    BY DEF Init
  <2>. QED
    BY <2>1 DEF MissedForAReason, Passed
<1>. QED
  BY <1>1, SenderAlways, MissedStep, PTL DEF Spec
-----------------------------------------------------------------------------
(* The points of an answer *)

\* What all subsets of a finite set have when their smaller ones have it, the
\* set has.
LEMMA BySubsets ==
    ASSUME NEW D, IsFiniteSet(D), NEW R,
           \A s \in SUBSET D :
              (\A t \in SUBSET D : Cardinality(t) < Cardinality(s) => t \in R) => s \in R
    PROVE  D \in R
<1>. DEFINE Wrong == {Cardinality(s) : s \in (SUBSET D) \ R}
<1>1. ASSUME Wrong # {} PROVE FALSE
  <2>1. Wrong \subseteq Nat
    BY FS_Subset, FS_CardinalityType
  <2>2. PICK m \in Wrong : \A k \in Wrong : m <= k
    <3>. HIDE DEF Wrong
    <3>. QED
      BY <1>1, <2>1, LeastOf
  <2>3. PICK s \in (SUBSET D) \ R : m = Cardinality(s)
    OBVIOUS
  <2>4. ASSUME NEW t \in SUBSET D, Cardinality(t) < Cardinality(s) PROVE t \in R
    <3>. SUFFICES ASSUME t \notin R PROVE FALSE
      OBVIOUS
    <3>1. Cardinality(t) \in Wrong
      OBVIOUS
    <3>2. m <= Cardinality(t) /\ m \in Nat /\ Cardinality(t) \in Nat
      BY <2>1, <2>2, <3>1
    <3>. QED
      BY <2>3, <2>4, <3>2
  <2>. QED
    BY <2>3, <2>4
<1>. QED
  BY <1>1

LEMMA PlaceIs ==
    ASSUME NEW s \in Series
    PROVE  Place(s) \in Nat /\ Place(s) \in DOMAIN Keys /\ Keys[Place(s)] = s
<1>1. Keys \in Seq(Series)
  BY RemoteAssumption
<1>2. \E i \in DOMAIN Keys : Keys[i] = s
  BY DEF Series, ToSet
<1>3. Place(s) \in DOMAIN Keys /\ Keys[Place(s)] = s
  BY <1>2 DEF Place
<1>. QED
  BY <1>1, <1>3

LEMMA SamplesAreFinite == IsFiniteSet(Samples)
<1>1. IsFiniteSet(Series)
  <2>1. Keys \in Seq(Series) /\ Series = {Keys[i] : i \in 1..Len(Keys)}
    BY RemoteAssumption DEF Series, ToSet
  <2>2. IsFiniteSet(1..Len(Keys))
    BY <2>1, FS_Interval
  <2>3. Keys \in Surjection(1..Len(Keys), Series)
    BY <2>1 DEF Surjection
  <2>. QED
    BY <2>2, <2>3, FS_Surjection
<1>2. SecondOf(MaxTime) \in Nat
  BY LastSecond
<1>3. IsFiniteSet(Seconds)
  BY <1>2, FS_Interval DEF Seconds
<1>4. IsFiniteSet(Series \X Seconds)
  BY <1>1, <1>3, FS_Product
<1>. DEFINE f == [x \in Samples |-> <<x.series, x.sec>>]
<1>5. f \in [Samples -> Series \X Seconds]
  BY DEF Samples
<1>6. \A x, y \in Samples : f[x] = f[y] => x = y
  BY DEF Samples
<1>7. f \in Injection(Samples, Series \X Seconds)
  <2>. HIDE DEF f
  <2>. QED
    BY <1>5, <1>6 DEF Injection, IsInjective
<1>. QED
  BY <1>4, <1>7, FS_Injection

\* Of any samples one comes first.
LEMMA FirstOf ==
    ASSUME NEW T, T \subseteq Samples, T # {}
    PROVE  \E x \in T : \A y \in T \ {x} : Before(x, y)
<1>. DEFINE places == {Place(y.series) : y \in T}
<1>1. PICK p \in places : \A q \in places : p <= q
  <2>1. places \subseteq Nat /\ places # {}
    BY PlaceIs DEF Samples
  <2>. HIDE DEF places
  <2>. QED
    BY <2>1, LeastOf
<1>. DEFINE secs == {y.sec : y \in {z \in T : Place(z.series) = p}}
<1>2. PICK m \in secs : \A q \in secs : m <= q
  <2>1. SecondOf(MaxTime) \in Nat
    BY LastSecond
  <2>2. secs \subseteq Nat /\ secs # {}
    BY <1>1, <2>1 DEF Samples, Seconds
  <2>. HIDE DEF secs
  <2>. QED
    BY <2>2, LeastOf
<1>3. PICK x \in T : Place(x.series) = p /\ x.sec = m
  BY <1>2
<1>4. ASSUME NEW y \in T \ {x} PROVE Before(x, y)
  <2>1. Place(y.series) \in Nat /\ p \in Nat /\ p <= Place(y.series)
    BY <1>1, PlaceIs DEF Samples
  <2>2. CASE Place(y.series) = p
    <3>1. y.series = x.series
      BY <1>3, <2>2, PlaceIs DEF Samples
    <3>2. y.sec # x.sec
      BY <3>1 DEF Samples
    <3>3. m <= y.sec /\ m \in Int /\ y.sec \in Int
      <4>1. SecondOf(MaxTime) \in Nat
        BY LastSecond
      <4>. QED
        BY <1>2, <1>3, <2>2, <4>1 DEF Samples, Seconds
    <3>. QED
      BY <1>3, <3>1, <3>2, <3>3 DEF Before
  <2>. QED
    BY <1>3, <2>1, <2>2 DEF Before
<1>. QED
  BY <1>4

LEMMA OrderExists ==
    ASSUME NEW S, S \subseteq Samples
    PROVE  \E f \in SetToSeqs(S) : InOrder(f)
<1>. DEFINE Enumeration(T, f) == /\ f \in [1..Cardinality(T) -> T]
                                 /\ \A i, j \in 1..Cardinality(T) : i # j => f[i] # f[j]
                                 /\ \A i, j \in 1..Cardinality(T) : i < j => Before(f[i], f[j])
            R == {T \in SUBSET S : \E f : Enumeration(T, f)}
<1>0. IsFiniteSet(S)
  BY SamplesAreFinite, FS_Subset
<1>1. ASSUME NEW T \in SUBSET S,
             \A U \in SUBSET S : Cardinality(U) < Cardinality(T) => U \in R
      PROVE  \E f : Enumeration(T, f)
  <2>1. IsFiniteSet(T) /\ Cardinality(T) \in Nat
    BY <1>0, FS_Subset, FS_CardinalityType
  <2>2. CASE T = {}
    <3>1. Cardinality(T) = 0
      BY <2>2, FS_EmptySet
    <3>2. [i \in 1..0 |-> 0] \in [1..0 -> T]
      OBVIOUS
    <3>3. Enumeration(T, [i \in 1..0 |-> 0])
      BY <3>1, <3>2
    <3>. QED
      BY <3>3
  <2>3. CASE T # {}
    <3>1. PICK x \in T : \A y \in T \ {x} : Before(x, y)
      BY <2>3, FirstOf
    <3>. DEFINE U == T \ {x}
    <3>2. PICK n \in Nat : n = Cardinality(U) /\ Cardinality(T) = n + 1
      <4>1. IsFiniteSet(U) /\ Cardinality(U) = Cardinality(T) - 1
        BY <2>1, <3>1, FS_RemoveElement
      <4>2. Cardinality(U) \in Nat
        BY <4>1, FS_CardinalityType
      <4>. QED
        BY <2>1, <4>1, <4>2
    <3>3. PICK f : Enumeration(U, f)
      <4>1. U \in SUBSET S /\ Cardinality(U) < Cardinality(T)
        BY <3>2
      <4>. QED
        BY <1>1, <4>1
    <3>4. /\ f \in [1..n -> U]
          /\ \A i, j \in 1..n : i # j => f[i] # f[j]
          /\ \A i, j \in 1..n : i < j => Before(f[i], f[j])
      BY <3>2, <3>3
    <3>. HIDE DEF R
    <3>. DEFINE g == [i \in 1..(n + 1) |-> IF i = 1 THEN x ELSE f[i - 1]]
    <3>5. \A i \in 1..(n + 1) : i # 1 => i - 1 \in 1..n
      BY <3>2
    <3>6. \A i \in 1..(n + 1) : i # 1 => f[i - 1] \in U
      BY <3>4, <3>5
    <3>7. g \in [1..(n + 1) -> T]
      BY <3>6
    <3>8. ASSUME NEW i \in 1..(n + 1), NEW j \in 1..(n + 1), i < j
          PROVE  g[i] # g[j] /\ Before(g[i], g[j])
      <4>1. j # 1 /\ g[j] = f[j - 1] /\ f[j - 1] \in U
        <5>1. j # 1
          BY <3>2, <3>8
        <5>. QED
          BY <3>6, <5>1
      <4>2. CASE i = 1
        BY <3>1, <4>1, <4>2
      <4>3. CASE i # 1
        <5>1. g[i] = f[i - 1] /\ i - 1 \in 1..n /\ j - 1 \in 1..n /\ i - 1 < j - 1
          BY <3>2, <3>5, <3>8, <4>1, <4>3
        <5>. QED
          BY <3>4, <4>1, <5>1
      <4>. QED
        BY <4>2, <4>3
    <3>. HIDE DEF g
    <3>9. \A i, j \in 1..(n + 1) : i # j => g[i] # g[j]
      <4>. SUFFICES ASSUME NEW i \in 1..(n + 1), NEW j \in 1..(n + 1), i # j
                    PROVE  g[i] # g[j]
        OBVIOUS
      <4>1. i < j \/ j < i
        BY <3>2
      <4>. QED
        BY <3>8, <4>1
    <3>10. Enumeration(T, g)
      BY <3>2, <3>7, <3>8, <3>9
    <3>. QED
      BY <3>10
  <2>. QED
    BY <2>2, <2>3
<1>2. S \in R
  <2>1. \A T \in SUBSET S :
           (\A U \in SUBSET S : Cardinality(U) < Cardinality(T) => U \in R) => T \in R
    BY <1>1
  <2>. HIDE DEF R
  <2>. QED
    BY <1>0, <2>1, BySubsets
<1>3. PICK f : Enumeration(S, f)
  BY <1>2
<1>4. f \in SetToSeqs(S)
  BY <1>3 DEF SetToSeqs
<1>5. InOrder(f)
  BY <1>3 DEF InOrder
<1>. QED
  BY <1>4, <1>5

\* The points of an answer are all of them, each series' in the order of time.
LEMMA PointsAre ==
    ASSUME NEW S, S \subseteq Samples
    PROVE  /\ Points(S) \in Seq(Samples)
           /\ \A i \in 1..Len(Points(S)) : Points(S)[i] \in S
           /\ \A x \in S : \E i \in 1..Len(Points(S)) : Points(S)[i] = x
           /\ \A i, j \in 1..Len(Points(S)) : i < j => Before(Points(S)[i], Points(S)[j])
<1>. DEFINE f == Points(S)
<1>1. f \in SetToSeqs(S) /\ InOrder(f)
  BY OrderExists DEF Points
<1>. HIDE DEF f
<1>2. IsFiniteSet(S)
  BY SamplesAreFinite, FS_Subset
<1>3. PICK n \in Nat : n = Cardinality(S)
  BY <1>2, FS_CardinalityType
<1>4. f \in [1..n -> S] /\ \A i, j \in 1..n : i # j => f[i] # f[j]
  BY <1>1, <1>3 DEF SetToSeqs
<1>5. f \in Seq(Samples) /\ Len(f) = n /\ DOMAIN f = 1..n
  BY <1>3, <1>4
<1>6. \A x \in S : \E i \in 1..n : f[i] = x
  <2>1. f \in Injection(1..n, S)
    BY <1>4 DEF Injection, IsInjective
  <2>2. Cardinality(1..n) = Cardinality(S)
    BY <1>3, FS_Interval
  <2>3. f \in Surjection(1..n, S)
    BY <1>2, <2>1, <2>2, FS_Injection
  <2>. QED
    BY <2>3 DEF Surjection
<1>7. \A i, j \in 1..n : i < j => Before(f[i], f[j])
  BY <1>1, <1>5 DEF InOrder
<1>. QED
  BY <1>4, <1>5, <1>6, <1>7 DEF f

-----------------------------------------------------------------------------
(* A ring that is written in order *)

\* The ring holds every second of T, or has turned since it, and the chunk of
\* the latest one is open.
Filled(ring, T) ==
    /\ \A i \in Ring : \A z \in ring.file[i] : z \in T /\ SlotOf(z, RemoteSeconds) = i
    /\ \A z \in T : \/ z \in Held(ring)
                    \/ \E u \in T : ChunkOf(u, RemoteSeconds) >= ChunkOf(z, RemoteSeconds) + Slots
    /\ T = {} => ring.at = -1
    /\ T # {} => \E m \in T : /\ \A z \in T : z <= m
                              /\ ring.at = SlotOf(m, RemoteSeconds)
                              /\ m \in ring.file[ring.at]

LEMMA FilledEmpty == Filled(EmptyRing, {})
BY DEF Filled, EmptyRing

\* Writing a second that is not before any other keeps it so.
LEMMA FilledStep ==
    ASSUME NEW T, T \subseteq Seconds, NEW sec \in Seconds, \A z \in T : z <= sec,
           NEW ring \in Rings, Filled(ring, T)
    PROVE  Filled(Written(ring, sec, RemoteSeconds), T \cup {sec})
<1>. DEFINE size == RemoteSeconds
            idx == SlotOf(sec, size)
            chunk == IF idx = ring.at THEN ring.file[idx] ELSE {}
            files == [ring.file EXCEPT ![idx] = chunk \cup {sec}]
            after == [at |-> idx, file |-> files]
            U == T \cup {sec}
<1>1. size \in Nat \ {0} /\ Slots \in Nat \ {0}
  BY RemoteAssumption
<1>2. idx \in Ring /\ \A z \in U : ChunkOf(z, size) \in Nat /\ z \in Nat
  BY <1>1, SlotIs, SecondsAre
<1>3. ring.file \in [Ring -> SUBSET Seconds] /\ chunk \subseteq ring.file[idx] /\ chunk \subseteq Seconds
  BY <1>2 DEF Rings
<1>4. Written(ring, sec, size) = IF sec <= Newest(chunk) THEN ring ELSE after
  BY Zenon DEF Written
<1>5. CASE sec <= Newest(chunk)
  <2>1. Newest(chunk) \in chunk
    <3>1. Newest(chunk) \in chunk \cup {-1}
      BY <1>3, NewestHeld
    <3>2. Newest(chunk) # -1
      BY <1>2, <1>5
    <3>. QED
      BY <3>1, <3>2
  <2>2. Newest(chunk) \in T
    BY <1>2, <1>3, <2>1 DEF Filled
  <2>3. sec = Newest(chunk)
    <3>1. Newest(chunk) <= sec
      BY <2>2
    <3>2. Newest(chunk) \in Nat /\ sec \in Nat
      BY <1>2, <2>2
    <3>. QED
      BY <1>5, <3>1, <3>2
  <2>4. U = T
    BY <2>2, <2>3
  <2>. QED
    BY <1>4, <1>5, <2>4
<1>6. CASE ~(sec <= Newest(chunk))
  <2>. HIDE DEF chunk, idx, size
  <2>1. files \in [Ring -> SUBSET Seconds] /\ files[idx] = chunk \cup {sec}
        /\ \A i \in Ring \ {idx} : files[i] = ring.file[i]
    BY <1>2, <1>3
  <2>. HIDE DEF files
  <2>2. ASSUME NEW i \in Ring, NEW z \in files[i] PROVE z \in U /\ SlotOf(z, size) = i
    <3>1. CASE i = idx /\ z = sec
      BY <3>1 DEF idx
    <3>2. CASE z \in ring.file[i]
      BY <3>2 DEF Filled, size
    <3>. QED
      BY <1>3, <2>1, <2>2, <3>1, <3>2
  <2>3. ASSUME NEW z \in T, z \in Held(ring)
        PROVE  z \in Held(after) \/ ChunkOf(sec, size) >= ChunkOf(z, size) + Slots
    <3>1. PICK i \in Ring : z \in ring.file[i]
      BY <2>3 DEF Held
    <3>2. SlotOf(z, size) = i
      BY <3>1 DEF Filled, size
    <3>3. CASE i # idx \/ idx = ring.at
      <4>1. z \in files[i]
        BY <2>1, <3>1, <3>3 DEF chunk
      <4>. QED
        BY <4>1 DEF Held
    <3>4. CASE i = idx /\ idx # ring.at
      <4>1. PICK m \in T : /\ \A y \in T : y <= m
                           /\ ring.at = SlotOf(m, size)
        BY DEF Filled, size
      <4>2. z <= m /\ m <= sec /\ z \in Nat /\ m \in Nat /\ sec \in Nat
        BY <1>2, <4>1
      <4>3. ChunkOf(z, size) <= ChunkOf(m, size) /\ ChunkOf(m, size) <= ChunkOf(sec, size)
        BY <1>1, <4>2, QuotientGrows DEF ChunkOf
      <4>4. ChunkOf(z, size) # ChunkOf(sec, size)
        <5>1. ASSUME ChunkOf(z, size) = ChunkOf(sec, size) PROVE FALSE
          <6>1. ChunkOf(m, size) = ChunkOf(sec, size)
            BY <1>2, <4>3, <5>1
          <6>2. SlotOf(m, size) = idx
            BY <6>1 DEF SlotOf, idx
          <6>. QED
            BY <3>4, <4>1, <6>2
        <5>. QED
          BY <5>1
      <4>5. ChunkOf(z, size) % Slots = ChunkOf(sec, size) % Slots
        BY <3>2, <3>4 DEF SlotOf, idx
      <4>6. ChunkOf(z, size) < ChunkOf(sec, size)
        BY <1>2, <4>3, <4>4
      <4>7. ChunkOf(z, size) + Slots <= ChunkOf(sec, size)
        BY <1>1, <1>2, <4>5, <4>6, TurnAhead
      <4>. QED
        BY <1>1, <1>2, <4>7
    <3>. QED
      BY <3>3, <3>4
  <2>4. sec \in Held(after)
    BY <1>2, <2>1 DEF Held
  <2>5. ASSUME NEW z \in U
        PROVE  \/ z \in Held(after)
               \/ \E u \in U : ChunkOf(u, size) >= ChunkOf(z, size) + Slots
    <3>1. CASE z = sec
      BY <2>4, <3>1
    <3>2. CASE z \in T /\ z \in Held(ring)
      BY <2>3, <3>2
    <3>3. CASE z \in T /\ z \notin Held(ring)
      BY <3>3 DEF Filled, size
    <3>. QED
      BY <3>1, <3>2, <3>3
  <2>6. \A z \in U : z <= sec
    BY <1>2
  <2>7. Filled(after, U)
    BY <2>1, <2>2, <2>5, <2>6 DEF Filled, idx, size
  <2>. QED
    BY <1>4, <1>6, <2>7 DEF size
<1>. QED
  BY <1>5, <1>6

\* So does opening the store again.
LEMMA FilledReopened ==
    ASSUME NEW T, T \subseteq Seconds, NEW ring \in Rings, Filled(ring, T)
    PROVE  Reopened(ring) = ring
<1>. DEFINE H == Held(ring)
            at == IF H = {} THEN -1 ELSE CHOOSE i \in Ring : Newest(H) \in ring.file[i]
<1>1. Reopened(ring) = [ring EXCEPT !.at = at]
  BY Zenon DEF Reopened
<1>2. H \subseteq T /\ H \subseteq Seconds
  BY HeldIs DEF Filled, Held
<1>3. CASE T = {}
  <2>1. at = ring.at
    BY <1>2, <1>3 DEF Filled
  <2>. HIDE DEF at
  <2>. QED
    BY <1>1, <2>1 DEF Rings
<1>4. CASE T # {}
  <2>1. PICK m \in T : /\ \A z \in T : z <= m
                       /\ ring.at = SlotOf(m, RemoteSeconds) /\ m \in ring.file[ring.at]
    BY <1>4 DEF Filled
  <2>2. ring.at \in Ring
    BY <2>1, SlotIs, RemoteAssumption
  <2>3. m \in H
    BY <2>1, <2>2 DEF Held
  <2>4. Newest(H) = m
    <3>1. Newest(H) \in H \cup {-1} /\ m <= Newest(H) /\ Newest(H) \in Int /\ m \in Nat
      BY <1>2, <2>3, NewestHeld, SecondsAre
    <3>2. Newest(H) \in H
      BY <3>1
    <3>3. Newest(H) <= m
      BY <1>2, <2>1, <3>2
    <3>. QED
      BY <3>1, <3>3
  <2>5. \A i \in Ring : m \in ring.file[i] <=> i = ring.at
    BY <2>1, <2>2 DEF Filled
  <2>6. at = ring.at
    BY <2>2, <2>3, <2>4, <2>5
  <2>. HIDE DEF at
  <2>. QED
    BY <1>1, <2>6 DEF Rings
<1>. QED
  BY <1>3, <1>4

-----------------------------------------------------------------------------
(* What is between the stores *)

\* The samples that the sender has read and the receiver has not handled, when
\* one request is under way at most.
PendingOf(reqs, batch) == (IF reqs = <<>> THEN <<>> ELSE reqs[1]) \o batch
Pending == PendingOf(requests, cycle.batch)
OneAtMost(reqs) == reqs = <<>> \/ \E q \in Seq(Samples) \ {<<>>} : reqs = <<q>>

\* The seconds that the receiver has been given of a series.
Taken(s) == {x.sec : x \in {y \in hist.taken : y.series = s}}

\* What is pending of a series is in the order of time, behind all that was
\* taken before, and none of it is behind the bound of the next range.
Lined(q, s, T, b) ==
    /\ \A i, j \in 1..Len(q) : i < j /\ q[i].series = s /\ q[j].series = s => q[i].sec <= q[j].sec
    /\ \A i \in 1..Len(q) : q[i].series = s =>
          Start(q[i].sec) <= b /\ \A z \in T : z <= q[i].sec
    /\ \A z \in T : Start(z) <= b

BatchInv ==
    /\ cycle.batch \in Seq(Samples)
    /\ cycle.phase # "reading" => cycle.batch = <<>>

PathInv ==
    /\ OneAtMost(requests)
    /\ remote \in [Series -> Rings]
    /\ hist.taken \subseteq Samples
    /\ \A s \in Series : Alone(s) =>
          /\ Lined(Pending, s, Taken(s), Bound(s))
          /\ Filled(remote[s], Taken(s))

FlowInv == BatchInv /\ (~hist.crossed => PathInv)

LEMMA BatchStep == SenderInv /\ BatchInv /\ [Next]_vars => BatchInv'
<1>. SUFFICES ASSUME SenderInv, BatchInv, [Next]_vars PROVE BatchInv'
  OBVIOUS
<1>1. CASE ReadSeries
  <2>. DEFINE pts == Points(Found(NextSeries))
  <2>1. pts \in Seq(Samples)
    BY PointsAre DEF Found
  <2>. HIDE DEF pts
  <2>2. cycle'.phase = "reading" /\ cycle'.batch = cycle.batch \o pts
    BY <1>1 DEF ReadSeries, Reading, SenderInv, ShapeInv, pts
  <2>3. cycle.batch \o pts \in Seq(Samples)
    BY <2>1, ConcatProperties DEF BatchInv
  <2>. QED
    BY <2>2, <2>3 DEF BatchInv
<1>2. CASE Push
  <2>1. cycle'.batch = <<>> /\ <<>> \in Seq(Samples)
    BY <1>2 DEF Push, SenderInv, ShapeInv
  <2>. QED
    BY <2>1 DEF BatchInv
<1>3. CASE BeginCycle \/ NothingToSend \/ FailRead \/ Timeout \/ Restart
  <2>1. cycle'.batch = <<>>
    <3>1. Idle.batch = <<>> /\ [Idle EXCEPT !.phase = "listing", !.at = now].batch = <<>>
      BY DEF Idle
    <3>2. cycle' = Idle \/ cycle' = [Idle EXCEPT !.phase = "listing", !.at = now]
      BY <1>3 DEF BeginCycle, NothingToSend, FailRead, Timeout, Restart
    <3>. QED
      BY <3>1, <3>2
  <2>2. <<>> \in Seq(Samples)
    OBVIOUS
  <2>. QED
    BY <2>1, <2>2 DEF BatchInv
<1>4. CASE ListSeries
  <2>1. cycle'.batch = cycle.batch /\ cycle'.phase = "reading"
    BY <1>4 DEF ListSeries, SenderInv, ShapeInv
  <2>. QED
    BY <2>1 DEF BatchInv
<1>5. CASE LoseRequests \/ Handle
  <2>1. cycle' = cycle \/ (cycle'.batch = <<>> /\ <<>> \in Seq(Samples))
    BY <1>5 DEF LoseRequests, Handle, HandleSample, Idle
  <2>. QED
    BY <2>1 DEF BatchInv
<1>6. CASE Advance \/ UNCHANGED vars \/ \E s \in Series, stamp \in 0..MaxTime : Ingest(s, stamp)
  <2>1. cycle' = cycle
    BY <1>6 DEF Advance, vars, Ingest
  <2>. QED
    BY <2>1 DEF BatchInv
<1>. QED
  BY <1>1, <1>2, <1>3, <1>4, <1>5, <1>6 DEF Next, SenderStep

\* A part of what is pending, against a bound that is no earlier.
LEMMA LinedPart ==
    ASSUME NEW q \in Seq(Samples), NEW s, NEW T, T \subseteq Seconds,
           NEW b \in Int, NEW c \in Int, b <= c,
           Lined(q, s, T, b), NEW r \in Seq(Samples), NEW d \in Nat,
           \A i \in 1..Len(r) : i + d \in 1..Len(q) /\ r[i] = q[i + d]
    PROVE  Lined(r, s, T, c)
<1>1. ASSUME NEW i \in 1..Len(r), NEW j \in 1..Len(r), i < j, r[i].series = s, r[j].series = s
      PROVE  r[i].sec <= r[j].sec
  <2>1. i + d < j + d
    BY <1>1
  <2>. QED
    BY <1>1, <2>1 DEF Lined
<1>2. ASSUME NEW i \in 1..Len(r), r[i].series = s
      PROVE  Start(r[i].sec) <= c /\ \A z \in T : z <= r[i].sec
  <2>1. i + d \in 1..Len(q) /\ r[i] = q[i + d] /\ r[i] \in Samples
    OBVIOUS
  <2>2. Start(r[i].sec) <= b /\ \A z \in T : z <= r[i].sec
    BY <1>2, <2>1 DEF Lined
  <2>3. Start(r[i].sec) \in Int
    BY <2>1, StartIsNumber
  <2>. QED
    BY <2>2, <2>3
<1>3. ASSUME NEW z \in T PROVE Start(z) <= c
  <2>1. Start(z) <= b
    BY DEF Lined
  <2>2. Start(z) \in Int
    BY SecondsAre, RemoteAssumption DEF Start
  <2>. QED
    BY <2>1, <2>2
<1>. QED
  BY <1>1, <1>2, <1>3 DEF Lined

LEMMA TakenIs ==
    ASSUME hist.taken \subseteq Samples, NEW s
    PROVE  Taken(s) \subseteq Seconds
BY DEF Taken, Samples

LEMMA BoundIs ==
    ASSUME SenderInv, NEW s
    PROVE  Bound(s) \in Int /\ Bound(s) <= now
BY DEF Bound, SenderInv, ClockInv, WatermarkInv

LEMMA PendingIs ==
    ASSUME NEW reqs, OneAtMost(reqs), NEW batch \in Seq(Samples)
    PROVE  /\ PendingOf(reqs, batch) \in Seq(Samples)
           /\ reqs = <<>> => PendingOf(reqs, batch) = batch
           /\ reqs # <<>> => /\ reqs[1] \in Seq(Samples) \ {<<>>}
                             /\ reqs = <<reqs[1]>>
                             /\ PendingOf(reqs, batch) = reqs[1] \o batch
<1>1. CASE reqs = <<>>
  <2>1. PendingOf(reqs, batch) = <<>> \o batch
    BY <1>1 DEF PendingOf
  <2>2. <<>> \o batch = batch
    BY ConcatEmptySeq
  <2>. QED
    BY <1>1, <2>1, <2>2
<1>2. CASE reqs # <<>>
  <2>1. reqs[1] \in Seq(Samples) \ {<<>>} /\ reqs = <<reqs[1]>>
    BY <1>2 DEF OneAtMost
  <2>2. PendingOf(reqs, batch) = reqs[1] \o batch
    BY <1>2 DEF PendingOf
  <2>3. reqs[1] \o batch \in Seq(Samples)
    BY <2>1, ConcatProperties
  <2>. QED
    BY <1>2, <2>1, <2>2, <2>3
<1>. QED
  BY <1>1, <1>2

LEMMA BatchesConcatenate ==
    ASSUME NEW p \in Seq(Samples), NEW b \in Seq(Samples), NEW n \in Seq(Samples)
    PROVE  (p \o b) \o n = p \o (b \o n)
BY ConcatAssociative

\* Steps that hand nothing over and read nothing; a batch may be given up.
LEMMA PathKept ==
    ASSUME SenderInv, SenderInv', BatchInv, BatchInv', PathInv,
           UNCHANGED <<requests, remote>>, hist'.taken = hist.taken,
           cycle'.batch \in {cycle.batch, <<>>},
           \A s \in Series : Bound(s) <= Bound(s)'
    PROVE  PathInv'
<1>1. /\ OneAtMost(requests) /\ OneAtMost(requests') /\ hist.taken \subseteq Samples
      /\ cycle.batch \in Seq(Samples) /\ cycle'.batch \in Seq(Samples)
  BY DEF PathInv, BatchInv
<1>2. PICK q \in Seq(Samples), r \in Seq(Samples) : q = Pending /\ r = Pending'
  BY <1>1, PendingIs DEF Pending
<1>3. \A i \in 1..Len(r) : i \in 1..Len(q) /\ r[i] = q[i]
  <2>1. CASE cycle'.batch = cycle.batch
    <3>1. r = q
      BY <1>2, <2>1 DEF Pending
    <3>. QED
      BY <1>2, <3>1
  <2>2. CASE cycle'.batch = <<>> /\ requests = <<>>
    <3>1. r = <<>>
      BY <1>1, <1>2, <2>2, PendingIs DEF Pending
    <3>. QED
      BY <3>1
  <2>3. CASE cycle'.batch = <<>> /\ requests # <<>>
    <3>1. PICK p \in Seq(Samples), b \in Seq(Samples) : p = requests[1] /\ b = cycle.batch
      BY <1>1, <2>3, PendingIs
    <3>2. q = p \o b /\ r = p \o <<>>
      <4>1. \A batch \in Seq(Samples) : PendingOf(requests, batch) = p \o batch
        BY <1>1, <2>3, <3>1, PendingIs
      <4>. QED
        BY <1>1, <1>2, <2>3, <3>1, <4>1 DEF Pending
    <3>3. r = p
      BY <3>1, <3>2, ConcatEmptySeq
    <3>4. Len(q) = Len(p) + Len(b) /\ \A i \in 1..Len(p) : q[i] = p[i]
      BY <3>2, ConcatProperties
    <3>5. Len(p) \in Nat /\ Len(b) \in Nat
      OBVIOUS
    <3>6. ASSUME NEW i \in 1..Len(p) PROVE i \in 1..Len(q) /\ p[i] = q[i]
      BY <3>4, <3>5
    <3>. QED
      BY <3>3, <3>6
  <2>. QED
    BY <2>1, <2>2, <2>3
<1>4. ASSUME NEW s \in Series, Alone(s) PROVE Lined(r, s, Taken(s)', Bound(s)')
  <2>1. Taken(s)' = Taken(s) /\ Taken(s) \subseteq Seconds
    BY <1>1, TakenIs DEF Taken
  <2>2. PICK b \in Int, c \in Int : b = Bound(s) /\ c = Bound(s)'
    <3>1. Bound(s) \in Int
      BY BoundIs
    <3>2. Bound(s)' \in Int
      BY DEF Bound, SenderInv, ClockInv, WatermarkInv
    <3>. QED
      BY <3>1, <3>2
  <2>3. Lined(q, s, Taken(s), b) /\ b <= c
    BY <1>2, <1>4, <2>2 DEF PathInv
  <2>4. \A i \in 1..Len(r) : i + 0 \in 1..Len(q) /\ r[i] = q[i + 0]
    BY <1>2, <1>3
  <2>5. Lined(r, s, Taken(s), c)
    BY <1>2, <2>1, <2>2, <2>3, <2>4, LinedPart
  <2>. QED
    BY <2>1, <2>2, <2>5
<1>5. \A s \in Series : Taken(s)' = Taken(s)
  BY DEF Taken
<1>6. \A s \in Series : Alone(s)' <=> Alone(s)
  BY DEF Alone
<1>. QED
  BY <1>1, <1>2, <1>4, <1>5, <1>6 DEF PathInv

LEMMA PathPush ==
    ASSUME SenderInv, BatchInv, BatchInv', PathInv, Push, requests = <<>>
    PROVE  PathInv'
<1>1. /\ requests' = <<cycle.batch>> /\ cycle.batch \in Seq(Samples) \ {<<>>}
      /\ UNCHANGED <<remote, watermark, started>> /\ hist'.taken = hist.taken
      /\ cycle'.batch = <<>>
  BY DEF Push, BatchInv, SenderInv, ShapeInv
<1>2. Pending = cycle.batch
  BY <1>1, PendingIs DEF Pending, OneAtMost
<1>3. Pending' = cycle.batch
  <2>1. Pending' = cycle.batch \o <<>>
    BY <1>1 DEF Pending, PendingOf
  <2>. QED
    BY <1>1, <2>1, ConcatEmptySeq
<1>4. \A s \in Series : Taken(s)' = Taken(s) /\ Bound(s)' = Bound(s) /\ (Alone(s)' <=> Alone(s))
  BY <1>1 DEF Taken, Bound, Alone
<1>. QED
  BY <1>1, <1>2, <1>3, <1>4 DEF PathInv, OneAtMost

LEMMA PathLost ==
    ASSUME SenderInv, BatchInv, BatchInv', PathInv, LoseRequests
    PROVE  PathInv'
<1>1. /\ requests # <<>> /\ requests' = <<>>
      /\ UNCHANGED <<watermark, started, hist>>
      /\ cycle' \in {cycle, Idle}
  BY DEF LoseRequests
<1>2. hist.taken \subseteq Samples /\ remote \in [Series -> Rings]
      /\ OneAtMost(requests) /\ OneAtMost(requests')
      /\ cycle.batch \in Seq(Samples) /\ cycle'.batch \in Seq(Samples)
  BY <1>1 DEF PathInv, OneAtMost, BatchInv
<1>3. PICK p \in Seq(Samples), b \in Seq(Samples), r \in Seq(Samples) :
         p = requests[1] /\ b = cycle.batch /\ r = Pending'
  BY <1>1, <1>2, PendingIs DEF Pending
<1>4. Pending = p \o b
  BY <1>1, <1>2, <1>3, PendingIs DEF Pending
<1>5. r = b \/ r = <<>>
  <2>1. r = cycle'.batch
    BY <1>1, <1>2, <1>3, PendingIs DEF Pending
  <2>2. Idle.batch = <<>>
    BY DEF Idle
  <2>3. cycle' = cycle \/ cycle' = Idle
    BY <1>1
  <2>4. CASE cycle' = cycle
    BY <1>3, <2>1, <2>4
  <2>5. CASE cycle' = Idle
    BY <2>1, <2>2, <2>5
  <2>. QED
    BY <2>3, <2>4, <2>5
<1>6. ASSUME NEW i \in 1..Len(r) PROVE i + Len(p) \in 1..Len(p \o b) /\ r[i] = (p \o b)[i + Len(p)]
  <2>1. r = b
    BY <1>5, <1>6
  <2>2. PICK k \in Nat, m \in Nat : k = Len(p) /\ m = Len(b) /\ i \in 1..m
    BY <2>1
  <2>3. i + k \in 1..(k + m) /\ (i + k) - k = i /\ ~(i + k <= k)
    BY <2>2
  <2>. QED
    BY <2>1, <2>2, <2>3, ConcatProperties
<1>7. ASSUME NEW s \in Series, Alone(s)
      PROVE  Lined(r, s, Taken(s), Bound(s)) /\ remote'[s] = remote[s]
  <2>1. Taken(s) \subseteq Seconds
    BY <1>2, TakenIs
  <2>2. PICK c \in Int : c = Bound(s)
    BY BoundIs
  <2>3. p \o b \in Seq(Samples) /\ Lined(p \o b, s, Taken(s), c) /\ c <= c
        /\ Len(p) \in Nat
    BY <1>3, <1>4, <1>7, <2>2, ConcatProperties DEF PathInv
  <2>4. Lined(r, s, Taken(s), c)
    <3>1. \A i \in 1..Len(r) : i + Len(p) \in 1..Len(p \o b) /\ r[i] = (p \o b)[i + Len(p)]
      BY <1>6
    <3>. QED
      BY <2>1, <2>2, <2>3, <3>1, LinedPart
  <2>5. Reopened(remote[s]) = remote[s]
    BY <1>2, <1>7, <2>1, FilledReopened DEF PathInv
  <2>6. remote'[s] = remote[s]
    BY <1>7, <2>5 DEF LoseRequests
  <2>. QED
    BY <2>2, <2>4, <2>6
<1>8. remote' \in [Series -> Rings]
  <2>1. \A s \in Series : Reopened(remote[s]) \in Rings
    BY <1>2, ReopenedIs
  <2>. QED
    BY <1>2, <2>1 DEF LoseRequests
<1>9. \A s \in Series : Taken(s)' = Taken(s) /\ Bound(s)' = Bound(s) /\ (Alone(s)' <=> Alone(s))
  BY <1>1 DEF Taken, Bound, Alone
<1>. QED
  BY <1>1, <1>2, <1>3, <1>7, <1>8, <1>9 DEF PathInv

\* A range begins where the one before ended, or after the start.
LEMMA PathRead ==
    ASSUME SenderInv, BatchInv, BatchInv', PathInv, ReadSeries
    PROVE  PathInv'
<1>. DEFINE own == NextSeries
            found == Found(own)
            answer == Points(found)
<1>1. /\ cycle.phase = "reading" /\ own \in cycle.todo /\ own \in Series
      /\ cycle'.batch = cycle.batch \o answer
      /\ watermark' = [r \in DOMAIN watermark \cup {own} |->
                          IF r = own THEN cycle.at ELSE watermark[r]]
      /\ UNCHANGED <<requests, remote, started>> /\ hist'.taken = hist.taken
  <2>1. own \in cycle.todo /\ own \in Series
    BY NextIsToDo DEF ReadSeries, SenderInv, ShapeInv
  <2>2. hist'.taken = hist.taken
    BY WhatIsRead DEF SenderInv
  <2>. QED
    BY <2>1, <2>2 DEF ReadSeries, Reading, AdvanceWatermark, SenderInv, ShapeInv
<1>2. PICK n \in Seq(Samples) : n = answer
  BY PointsAre DEF Found
<1>3. /\ \A i \in 1..Len(n) : n[i] \in found
      /\ \A i, j \in 1..Len(n) : i < j => Before(n[i], n[j])
  BY <1>2, PointsAre DEF Found
<1>4. /\ OneAtMost(requests) /\ OneAtMost(requests') /\ hist.taken \subseteq Samples
      /\ cycle.batch \in Seq(Samples) /\ cycle'.batch \in Seq(Samples)
  BY <1>1 DEF PathInv, BatchInv
<1>5. PICK q \in Seq(Samples) : q = Pending
  BY <1>4, PendingIs DEF Pending
<1>6. Pending' = q \o n
  <2>1. cycle.batch \in Seq(Samples)
    BY DEF BatchInv
  <2>2. CASE requests = <<>>
    <3>1. Pending' = cycle'.batch /\ Pending = cycle.batch
      BY <1>1, <1>4, <2>2, PendingIs DEF Pending
    <3>. QED
      BY <1>1, <1>2, <1>5, <3>1
  <2>3. CASE requests # <<>>
    <3>1. PICK p \in Seq(Samples), b \in Seq(Samples) : p = requests[1] /\ b = cycle.batch
      BY <1>4, <2>3, PendingIs
    <3>2. Pending' = p \o (b \o n) /\ q = p \o b
      BY <1>1, <1>2, <1>5, <2>3, <3>1 DEF Pending, PendingOf
    <3>3. (p \o b) \o n = p \o (b \o n)
      BY BatchesConcatenate
    <3>. QED
      BY <3>2, <3>3
  <2>. QED
    BY <2>2, <2>3
<1>7. /\ cycle.at \in Nat /\ started \in Nat /\ started + Interval <= cycle.at
      /\ Interval \in Nat \ {0}
      /\ own \in DOMAIN watermark => watermark[own] \in Nat /\ watermark[own] < cycle.at
  <2>1. /\ hist.begun \subseteq 0..now /\ now \in Nat /\ started \in 0..now
        /\ cycle.at \in hist.begun /\ started + Interval <= cycle.at
    BY <1>1 DEF SenderInv, ClockInv, WatermarkInv
  <2>2. own \in DOMAIN watermark => watermark[own] \in hist.begun /\ watermark[own] < cycle.at
    BY <1>1 DEF SenderInv, WatermarkInv
  <2>3. Interval \in Nat \ {0}
    BY RemoteAssumption
  <2>. QED
    BY <2>1, <2>2, <2>3
<1>8. Bound(own) <= Since(own) /\ Bound(own) < cycle.at /\ Bound(own) \in Nat /\ Since(own) \in Int
  BY <1>7 DEF Bound, Since
<1>. HIDE DEF answer, found, own
<1>9. ASSUME NEW s \in Series, Alone(s) PROVE Lined(q \o n, s, Taken(s), Bound(s)')
  <2>. DEFINE T == Taken(s)
  <2>1. Lined(q, s, T, Bound(s)) /\ T \subseteq Seconds
    BY <1>4, <1>5, <1>9, TakenIs DEF PathInv
  <2>2. PICK k \in Nat, m \in Nat : k = Len(q) /\ m = Len(n)
    OBVIOUS
  <2>3. /\ Len(q \o n) = k + m
        /\ \A i \in 1..k : (q \o n)[i] = q[i]
        /\ \A i \in 1..m : (q \o n)[k + i] = n[i]
    BY <2>2
  <2>4. \A i \in 1..(k + m) : \/ i \in 1..k /\ (q \o n)[i] = q[i]
                              \/ i - k \in 1..m /\ (q \o n)[i] = n[i - k]
    <3>. SUFFICES ASSUME NEW i \in 1..(k + m), i \notin 1..k
                  PROVE  i - k \in 1..m /\ (q \o n)[i] = n[i - k]
      BY <2>3
    <3>1. i - k \in 1..m /\ i = k + (i - k)
      OBVIOUS
    <3>. QED
      BY <2>3, <3>1
  <2>. HIDE DEF T
  <2>5. CASE s # own
    <3>1. \A i \in 1..m : n[i].series # s
      <4>1. \A i \in 1..m : n[i].series \in Matches[own]
        BY <1>3, <2>2 DEF Found, found
      <4>. QED
        BY <1>1, <1>9, <2>5, <4>1 DEF Alone
    <3>2. Bound(s)' = Bound(s)
      BY <1>1, <2>5 DEF Bound
    <3>3. \A i \in 1..(k + m) : (q \o n)[i].series = s => i \in 1..k /\ (q \o n)[i] = q[i]
      BY <2>4, <3>1
    <3>. QED
      BY <2>1, <2>2, <2>3, <3>2, <3>3 DEF Lined, T
  <2>6. CASE s = own
    <3>1. Bound(s)' = cycle.at
      BY <1>1, <2>6 DEF Bound
    <3>2. \A i \in 1..m : /\ n[i] \in Samples /\ n[i].sec \in Seconds
                          /\ Since(own) <= Start(n[i].sec) /\ Start(n[i].sec) <= cycle.at
      <4>1. \A i \in 1..m : n[i] \in found
        BY <1>3, <2>2
      <4>. QED
        BY <4>1 DEF found, Found, InRange, Samples
    <3>3. ASSUME NEW z \in Seconds, Start(z) <= Bound(own), NEW i \in 1..m
          PROVE  z <= n[i].sec
      <4>1. Start(z) \in Int /\ Start(n[i].sec) \in Int /\ n[i].sec \in Seconds
        <5>1. z \in Nat /\ n[i].sec \in Nat /\ PerSecond \in Nat
          BY <3>2, SecondsAre, RemoteAssumption
        <5>. QED
          BY <3>2, <5>1 DEF Start
      <4>2. Start(z) <= Start(n[i].sec)
        BY <1>8, <3>2, <3>3, <4>1
      <4>. QED
        BY <4>1, <4>2, StartGrows
    <3>4. ASSUME NEW i \in 1..(k + m), NEW j \in 1..(k + m), i < j,
                 (q \o n)[i].series = s, (q \o n)[j].series = s
          PROVE  (q \o n)[i].sec <= (q \o n)[j].sec
      <4>1. CASE j \in 1..k
        <5>1. i \in 1..k /\ i \in 1..Len(q) /\ j \in 1..Len(q)
          BY <2>2, <3>4, <4>1
        <5>2. (q \o n)[i] = q[i] /\ (q \o n)[j] = q[j]
          BY <2>3, <4>1, <5>1
        <5>. QED
          BY <2>1, <3>4, <5>1, <5>2 DEF Lined
      <4>2. CASE i \in 1..k /\ j \notin 1..k
        <5>1. i \in 1..Len(q) /\ (q \o n)[i] = q[i]
              /\ j - k \in 1..m /\ (q \o n)[j] = n[j - k]
          BY <2>2, <2>4, <3>4, <4>2
        <5>2. q[i] \in Samples
          BY <5>1
        <5>0. q[i].sec \in Seconds
          BY <5>2 DEF Samples
        <5>3. Start(q[i].sec) <= Bound(own)
          BY <2>1, <2>6, <3>4, <5>1 DEF Lined
        <5>. QED
          BY <3>3, <5>0, <5>1, <5>3
      <4>3. CASE i \notin 1..k
        <5>1. j \notin 1..k
          BY <2>2, <3>4, <4>3
        <5>2. i - k \in 1..m /\ (q \o n)[i] = n[i - k]
              /\ j - k \in 1..m /\ (q \o n)[j] = n[j - k]
          BY <2>4, <4>3, <5>1
        <5>3. i - k < j - k
          BY <2>2, <3>4
        <5>4. Before(n[i - k], n[j - k])
          BY <1>3, <2>2, <5>2, <5>3
        <5>5. n[i - k].sec < n[j - k].sec
          <6>1. n[i - k].series = n[j - k].series /\ Place(n[i - k].series) \in Nat
            BY <1>9, <3>4, <5>2, PlaceIs
          <6>. QED
            BY <5>4, <6>1 DEF Before
        <5>6. n[i - k].sec \in Nat /\ n[j - k].sec \in Nat
          BY <3>2, <5>2, SecondsAre
        <5>7. n[i - k].sec <= n[j - k].sec
          BY <5>5, <5>6
        <5>. QED
          BY <5>2, <5>7
      <4>. QED
        BY <4>1, <4>2, <4>3
    <3>5. ASSUME NEW z \in Seconds, Start(z) <= Bound(own) PROVE Start(z) <= cycle.at
      <4>1. Start(z) \in Int
        BY SecondsAre, RemoteAssumption DEF Start
      <4>. QED
        BY <1>7, <1>8, <3>5, <4>1
    <3>6. ASSUME NEW i \in 1..(k + m), (q \o n)[i].series = s
          PROVE  Start((q \o n)[i].sec) <= cycle.at /\ \A z \in T : z <= (q \o n)[i].sec
      <4>1. CASE i \in 1..k
        <5>0. i \in 1..Len(q) /\ (q \o n)[i] = q[i] /\ q[i] \in Samples
          BY <2>2, <2>3, <4>1
        <5>1. i \in 1..Len(q) /\ (q \o n)[i] = q[i] /\ q[i].sec \in Seconds
          BY <5>0 DEF Samples
        <5>2. Start(q[i].sec) <= Bound(own) /\ \A z \in T : z <= q[i].sec
          BY <2>1, <2>6, <3>6, <5>1 DEF Lined
        <5>. QED
          BY <3>5, <5>1, <5>2
      <4>2. CASE i \notin 1..k
        <5>1. i - k \in 1..m /\ (q \o n)[i] = n[i - k]
          BY <2>4, <4>2
        <5>2. \A z \in T : z \in Seconds /\ Start(z) <= Bound(own)
          BY <2>1, <2>6 DEF Lined
        <5>. QED
          BY <3>2, <3>3, <5>1, <5>2
      <4>. QED
        BY <4>1, <4>2
    <3>7. \A z \in T : Start(z) <= cycle.at
      BY <2>1, <2>6, <3>5 DEF Lined
    <3>. QED
      BY <2>3, <3>1, <3>4, <3>6, <3>7 DEF Lined, T
  <2>. QED
    BY <2>5, <2>6
<1>10. \A s \in Series : Taken(s)' = Taken(s) /\ (Alone(s)' <=> Alone(s))
  BY <1>1 DEF Taken, Alone
<1>. QED
  BY <1>1, <1>4, <1>6, <1>9, <1>10 DEF PathInv

\* The next sample is not before any that the receiver has of its series.
LEMMA PathHandle ==
    ASSUME SenderInv, BatchInv, BatchInv', PathInv, NEW i \in DOMAIN requests, HandleSample(i)
    PROVE  PathInv'
<1>1. PICK p \in Seq(Samples) \ {<<>>} : requests = <<p>>
  BY DEF PathInv, OneAtMost
<1>2. i = 1 /\ requests[i] = p
  BY <1>1
<1>3. PICK x \in Samples, b \in Seq(Samples) : x = Head(p) /\ b = cycle.batch
  BY <1>1 DEF BatchInv
<1>0. cycle'.batch \in Seq(Samples) /\ OneAtMost(requests)
  BY DEF BatchInv, PathInv
<1>4. /\ Tail(p) \in Seq(Samples) /\ Len(p) \in Nat \ {0} /\ Len(Tail(p)) = Len(p) - 1
      /\ p[1] = x /\ \A j \in 1..Len(Tail(p)) : Tail(p)[j] = p[j + 1]
      /\ Tail(p) = <<>> <=> Len(p) = 1
  <2>1. /\ Tail(p) \in Seq(Samples) /\ Len(p) \in Nat \ {0} /\ Len(Tail(p)) = Len(p) - 1
        /\ p[1] = x /\ \A j \in 1..Len(Tail(p)) : Tail(p)[j] = p[j + 1]
    BY <1>1, <1>3
  <2>2. Len(Tail(p)) = 0 <=> Tail(p) = <<>>
    BY <2>1, EmptySeq
  <2>. QED
    BY <2>1, <2>2
<1>5. /\ remote' = [remote EXCEPT ![x.series] = Written(@, x.sec, RemoteSeconds)]
      /\ hist'.taken = hist.taken \cup {x}
      /\ UNCHANGED <<watermark, started>>
      /\ cycle' \in {cycle, Idle}
  BY <1>2, <1>3 DEF HandleSample, SenderInv, ShapeInv
<1>6. /\ x.series \in Series /\ x.sec \in Seconds
      /\ remote \in [Series -> Rings] /\ hist.taken \subseteq Samples
  BY DEF PathInv, Samples
<1>7. PICK q \in Seq(Samples) : q = Pending /\ q = p \o b
  <2>1. Pending = requests[1] \o b /\ Pending \in Seq(Samples)
    BY <1>0, <1>1, <1>3, PendingIs DEF Pending
  <2>2. requests[1] = p
    BY <1>1
  <2>. QED
    BY <2>1, <2>2
<1>8. requests' = IF Len(p) = 1 THEN <<>> ELSE <<Tail(p)>>
  <2>1. CASE Len(p) = 1
    <3>1. requests' = RemoveAt(<<p>>, 1)
      BY <1>1, <1>2, <2>1 DEF HandleSample
    <3>2. RemoveAt(<<p>>, 1) = <<>>
      BY DEF RemoveAt
    <3>. QED
      BY <2>1, <3>1, <3>2
  <2>2. CASE Len(p) # 1
    <3>1. requests' = [requests EXCEPT ![1] = Tail(@)]
      BY <1>2, <2>2 DEF HandleSample
    <3>. QED
      BY <1>1, <2>2, <3>1
  <2>. QED
    BY <2>1, <2>2
<1>9. OneAtMost(requests')
  BY <1>4, <1>8 DEF OneAtMost
<1>10. PICK r \in Seq(Samples) : r = Pending'
  BY <1>0, <1>9, PendingIs DEF Pending
<1>11. cycle'.batch = b
  <2>1. CASE cycle' = cycle
    BY <1>3, <2>1
  <2>2. CASE cycle' # cycle
    <3>1. cycle.phase = "waiting" /\ cycle' = Idle
      BY <1>2, <2>2 DEF HandleSample
    <3>2. b = <<>>
      BY <1>3, <3>1 DEF BatchInv
    <3>. QED
      BY <3>1, <3>2 DEF Idle
  <2>. QED
    BY <2>1, <2>2
<1>12. r = Tail(p) \o b
  <2>1. CASE Len(p) = 1
    <3>1. r = b
      BY <1>0, <1>8, <1>9, <1>10, <1>11, <2>1, PendingIs DEF Pending
    <3>2. Tail(p) = <<>>
      BY <1>4, <2>1
    <3>. QED
      BY <1>3, <3>1, <3>2, ConcatEmptySeq
  <2>2. CASE Len(p) # 1
    <3>1. requests' # <<>> /\ requests'[1] = Tail(p)
      BY <1>8, <2>2
    <3>. QED
      BY <1>10, <1>11, <3>1 DEF Pending, PendingOf
  <2>. QED
    BY <2>1, <2>2
<1>13. q[1] = x /\ 1 \in 1..Len(q)
  BY <1>3, <1>4, <1>7
<1>14. \A j \in 1..Len(r) : j + 1 \in 1..Len(q) /\ r[j] = q[j + 1]
  BY <1>3, <1>4, <1>7, <1>12
<1>15. ASSUME NEW s \in Series, Alone(s)
       PROVE  Lined(r, s, Taken(s)', Bound(s)') /\ Filled(remote'[s], Taken(s)')
  <2>0. PICK c \in Int : c = Bound(s) /\ c = Bound(s)'
    BY <1>5, BoundIs DEF Bound
  <2>1. Lined(q, s, Taken(s), c) /\ Filled(remote[s], Taken(s)) /\ Taken(s) \subseteq Seconds
    BY <1>6, <1>7, <1>15, <2>0, TakenIs DEF PathInv
  <2>2. Lined(r, s, Taken(s), c)
    <3>1. c <= c /\ 1 \in Nat
      OBVIOUS
    <3>. QED
      BY <1>14, <2>0, <2>1, <3>1, LinedPart
  <2>3. CASE x.series # s
    <3>1. Taken(s)' = Taken(s)
      BY <1>5, <2>3 DEF Taken
    <3>2. remote'[s] = remote[s]
      BY <1>5, <1>6, <2>3
    <3>. QED
      BY <2>0, <2>1, <2>2, <3>1, <3>2
  <2>4. CASE x.series = s
    <3>1. Taken(s)' = Taken(s) \cup {x.sec}
      BY <1>5, <2>4 DEF Taken
    <3>2. remote'[s] = Written(remote[s], x.sec, RemoteSeconds)
      BY <1>5, <1>6, <2>4
    <3>3. Start(x.sec) <= c /\ \A z \in Taken(s) : z <= x.sec
      BY <1>13, <2>1, <2>4 DEF Lined
    <3>4. Filled(remote'[s], Taken(s)')
      <4>1. remote[s] \in Rings
        BY <1>6
      <4>2. Filled(Written(remote[s], x.sec, RemoteSeconds), Taken(s) \cup {x.sec})
        BY <1>6, <2>1, <3>3, <4>1, FilledStep
      <4>. QED
        BY <3>1, <3>2, <4>2
    <3>5. \A j \in 1..Len(r) : r[j].series = s => x.sec <= r[j].sec
      <4>. SUFFICES ASSUME NEW j \in 1..Len(r), r[j].series = s PROVE x.sec <= r[j].sec
        OBVIOUS
      <4>1. j + 1 \in 1..Len(q) /\ r[j] = q[j + 1] /\ 1 < j + 1
        BY <1>14
      <4>. QED
        BY <1>13, <2>1, <2>4, <4>1 DEF Lined
    <3>6. Lined(r, s, Taken(s)', c)
      BY <2>2, <3>1, <3>3, <3>5 DEF Lined
    <3>. QED
      BY <2>0, <3>4, <3>6
  <2>. QED
    BY <2>3, <2>4
<1>16. remote' \in [Series -> Rings]
  <2>1. Written(remote[x.series], x.sec, RemoteSeconds) \in Rings
    BY <1>6, WrittenIs, RemoteAssumption
  <2>. QED
    BY <1>5, <1>6, <2>1
<1>17. hist'.taken \subseteq Samples
  BY <1>5, <1>6
<1>18. \A s \in Series : Alone(s)' <=> Alone(s)
  BY DEF Alone
<1>. QED
  BY <1>9, <1>10, <1>15, <1>16, <1>17, <1>18 DEF PathInv

LEMMA FlowInit == Init => FlowInv
<1>. SUFFICES ASSUME Init PROVE FlowInv
  OBVIOUS
<1>1. /\ cycle.batch = <<>> /\ requests = <<>> /\ hist.taken = {}
      /\ remote = [s \in Series |-> EmptyRing] /\ <<>> \in Seq(Samples)
  BY DEF Init, Idle, NoHistory
<1>2. BatchInv
  BY <1>1 DEF BatchInv
<1>3. Pending = <<>> /\ \A s : Taken(s) = {}
  <2>1. OneAtMost(requests)
    BY <1>1 DEF OneAtMost
  <2>2. Pending = <<>>
    BY <1>1, <2>1, PendingIs DEF Pending
  <2>. QED
    BY <1>1, <2>2 DEF Taken
<1>4. \A s : Lined(<<>>, s, {}, Bound(s))
  BY DEF Lined
<1>5. remote \in [Series -> Rings] /\ \A s \in Series : Filled(remote[s], {})
  BY <1>1, EmptyIsRing, FilledEmpty
<1>6. PathInv
  BY <1>1, <1>3, <1>4, <1>5 DEF PathInv, OneAtMost
<1>. QED
  BY <1>2, <1>6 DEF FlowInv

LEMMA FlowStep == SenderInv /\ SenderInv' /\ FlowInv /\ [Next]_vars => FlowInv'
<1>. SUFFICES ASSUME SenderInv, SenderInv', FlowInv, [Next]_vars PROVE FlowInv'
  OBVIOUS
<1>1. BatchInv /\ BatchInv'
  BY BatchStep DEF FlowInv
<1>. SUFFICES ASSUME ~hist'.crossed PROVE PathInv'
  BY <1>1 DEF FlowInv
<1>2. CASE ReadSeries
  <2>1. hist'.crossed = hist.crossed
    BY <1>2, WhatIsRead DEF SenderInv
  <2>. QED
    BY <1>1, <1>2, <2>1, PathRead DEF FlowInv
<1>3. CASE Push
  <2>1. hist'.crossed = (hist.crossed \/ requests # <<>>)
    BY <1>3 DEF Push, SenderInv, ShapeInv
  <2>. QED
    BY <1>1, <1>3, <2>1, PathPush DEF FlowInv
<1>4. CASE LoseRequests
  <2>1. hist' = hist
    BY <1>4 DEF LoseRequests
  <2>. QED
    BY <1>1, <1>4, <2>1, PathLost DEF FlowInv
<1>5. ASSUME NEW i \in DOMAIN requests, HandleSample(i) PROVE PathInv'
  <2>1. hist'.crossed = hist.crossed
    BY <1>5 DEF HandleSample, SenderInv, ShapeInv
  <2>. QED
    BY <1>1, <1>5, <2>1, PathHandle DEF FlowInv
<1>6. CASE Restart
  <2>1. /\ UNCHANGED <<requests, remote, hist>> /\ cycle'.batch = <<>>
        /\ DOMAIN watermark' = {} /\ started' = now
    BY <1>6 DEF Restart, Idle
  <2>2. \A s \in Series : Bound(s)' = now
    BY <2>1 DEF Bound
  <2>3. \A s \in Series : Bound(s) <= Bound(s)'
    BY <2>2, BoundIs
  <2>. QED
    BY <1>1, <2>1, <2>3, PathKept DEF FlowInv
<1>7. CASE \/ Advance \/ BeginCycle \/ ListSeries \/ NothingToSend \/ FailRead \/ Timeout
           \/ UNCHANGED vars \/ \E s \in Series, stamp \in 0..MaxTime : Ingest(s, stamp)
  <2>1. UNCHANGED <<requests, remote, started>>
    BY <1>7 DEF Advance, BeginCycle, ListSeries, NothingToSend, FailRead, Timeout, vars, Ingest
  <2>2. hist'.taken = hist.taken /\ hist'.crossed = hist.crossed
    BY <1>7 DEF Advance, BeginCycle, ListSeries, NothingToSend, FailRead, Timeout, vars, Ingest,
                SenderInv, ShapeInv
  <2>3. cycle'.batch \in {cycle.batch, <<>>}
    <3>1. CASE ListSeries
      BY <3>1 DEF ListSeries, SenderInv, ShapeInv
    <3>2. CASE BeginCycle \/ NothingToSend \/ FailRead \/ Timeout
      <4>1. Idle.batch = <<>> /\ [Idle EXCEPT !.phase = "listing", !.at = now].batch = <<>>
        BY DEF Idle
      <4>2. cycle' = Idle \/ cycle' = [Idle EXCEPT !.phase = "listing", !.at = now]
        BY <3>2 DEF BeginCycle, NothingToSend, FailRead, Timeout
      <4>. QED
        BY <4>1, <4>2
    <3>3. CASE Advance \/ UNCHANGED vars \/ \E s \in Series, stamp \in 0..MaxTime : Ingest(s, stamp)
      BY <3>3 DEF Advance, vars, Ingest
    <3>. QED
      BY <1>7, <3>1, <3>2, <3>3
  <2>4. \A s \in Series : Bound(s) <= Bound(s)'
    <3>1. CASE FailRead
      BY <2>1, <3>1, BoundIs DEF FailRead, Bound
    <3>2. CASE ~FailRead
      <4>1. watermark' = watermark
        BY <1>7, <3>2 DEF Advance, BeginCycle, ListSeries, NothingToSend, Timeout, vars, Ingest
      <4>2. \A s \in Series : Bound(s)' = Bound(s)
        BY <2>1, <4>1 DEF Bound
      <4>. QED
        BY <4>2, BoundIs
    <3>. QED
      BY <3>1, <3>2
  <2>. QED
    BY <1>1, <2>1, <2>2, <2>3, <2>4, PathKept DEF FlowInv
<1>. QED
  BY <1>2, <1>3, <1>4, <1>5, <1>6, <1>7 DEF Next, SenderStep, Handle

\* The receiver keeps all it is given of a series that only its own query finds
\* until the ring has turned, for any rings and chunks: through slow cycles, late
\* samples, failed queries and pushes and restarts of both ends, as long as no
\* request is sent while the receiver has an earlier one (sendOnce, the
\* receiver's one-by-one ingest and series.write).
THEOREM WhatIsTakenAlwaysKept == Spec => []KeptInOrder
<1>1. FlowInv => KeptInOrder
  <2>. SUFFICES ASSUME FlowInv, NEW x \in hist.taken, Alone(x.series), ~hist.crossed
                PROVE  x.sec \in Held(remote[x.series]) \/ Turned(x)
    BY DEF KeptInOrder
  <2>1. x.series \in Series /\ x.sec \in Taken(x.series)
    BY DEF FlowInv, PathInv, Samples, Taken
  <2>2. Filled(remote[x.series], Taken(x.series))
    BY <2>1 DEF FlowInv, PathInv
  <2>3. ASSUME x.sec \notin Held(remote[x.series]) PROVE Turned(x)
    <3>1. PICK u \in Taken(x.series) :
             ChunkOf(u, RemoteSeconds) >= ChunkOf(x.sec, RemoteSeconds) + Slots
      BY <2>1, <2>2, <2>3 DEF Filled
    <3>2. PICK y \in hist.taken : y.series = x.series /\ y.sec = u
      BY <3>1 DEF Taken
    <3>. QED
      BY <3>1, <3>2 DEF Turned
  <2>. QED
    BY <2>3
<1>2. Spec => [](SenderInv /\ FlowInv)
  <2>1. SenderInv /\ [Next]_vars => SenderInv'
    BY SenderStepInv
  <2>. QED
    BY SenderInit, FlowInit, <2>1, FlowStep, PTL DEF Spec
<1>. QED
  BY <1>1, <1>2, PTL
=============================================================================
