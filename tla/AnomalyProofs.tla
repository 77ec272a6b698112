---------------------------- MODULE AnomalyProofs ----------------------------
(***************************************************************************)
(* Theorems about AnomalyDetector for any series, sources, ensembles and   *)
(* fan-out, any labels and times, and any number of failures and restarts. *)
(*                                                                         *)
(* TypeInv is type correctness.  FlightInv says where a sample that was    *)
(* scored is: with a source that has still to hand it on, or heard of by   *)
(* the alert engine, and never both.  StoredInv says the same of the store *)
(* and what the buffers hold.  PastInv bounds what a model was trained on, *)
(* and RoundInv what a series can have waited for its turn.                *)
(*                                                                         *)
(* The last part is about KMeans and the vectors it is given: by running   *)
(* sums, which a moving average keeps, a vector is a function of the       *)
(* values at its end, so a longer window makes the same one (GivenInv).    *)
(***************************************************************************)
EXTENDS AnomalyDetector, KMeans, FiniteSetTheorems, SequenceTheorems, WellFoundedInduction, TLAPS

-----------------------------------------------------------------------------
(* Numbers and sequences *)

LEMMA LeastOf ==
    ASSUME NEW S, S \subseteq Nat, S # {}
    PROVE  Min(S) \in S /\ \A y \in S : Min(S) <= y
<1>. DEFINE R == OpToRel(<, Nat)
<1>1. PICK x \in S : \A y \in S : <<y, x>> \notin R
  <2>. HIDE DEF R
  <2>1. IsWellFoundedOn(R, Nat)
    BY NatLessThanWellFounded DEF R
  <2>. QED
    BY <2>1, WFMin
<1>2. \A y \in S : ~(y < x)
  BY <1>1 DEF OpToRel
<1>3. \A y \in S : x <= y
  BY <1>2
<1>. QED
  BY <1>3 DEF Min

LEMMA GreatestOf ==
    ASSUME NEW t \in Nat, NEW S, S \subseteq 0..t, S # {}
    PROVE  Max(S) \in S /\ \A y \in S : y <= Max(S)
<1>. DEFINE D == {t - x : x \in S}
<1>1. D \subseteq Nat /\ D # {}
  <2>1. \A x \in S : t - x \in Nat
    OBVIOUS
  <2>. QED
    BY <2>1
<1>2. Min(D) \in D /\ \A y \in D : Min(D) <= y
  BY <1>1, LeastOf
<1>3. PICK m \in S : Min(D) = t - m
  BY <1>2
<1>4. ASSUME NEW y \in S PROVE y <= m
  <2>1. t - y \in D
    OBVIOUS
  <2>2. t - m <= t - y
    BY <1>2, <1>3, <2>1
  <2>. QED
    BY <2>2
<1>5. \A y \in S : m >= y
  BY <1>4
<1>. QED
  BY <1>5 DEF Max

\* The elements of a sequence one longer.
LEMMA Appended ==
    ASSUME NEW S, NEW seq \in Seq(S), NEW x \in S
    PROVE  /\ Append(seq, x) \in Seq(S)
           /\ Len(seq) \in Nat /\ DOMAIN seq = 1..Len(seq)
           /\ Len(Append(seq, x)) = Len(seq) + 1
           /\ DOMAIN Append(seq, x) = 1..(Len(seq) + 1)
           /\ \A i \in 1..Len(seq) : Append(seq, x)[i] = seq[i]
           /\ Append(seq, x)[Len(seq) + 1] = x
           /\ ToSet(Append(seq, x)) = ToSet(seq) \cup {x}
<1>1. /\ Append(seq, x) \in Seq(S) /\ Len(seq) \in Nat /\ DOMAIN seq = 1..Len(seq)
      /\ Len(Append(seq, x)) = Len(seq) + 1
      /\ DOMAIN Append(seq, x) = 1..(Len(seq) + 1)
  BY AppendProperties, LenProperties
<1>2. /\ \A i \in 1..Len(seq) : Append(seq, x)[i] = seq[i]
      /\ Append(seq, x)[Len(seq) + 1] = x
  BY AppendProperties
<1>3. ToSet(Append(seq, x)) = ToSet(seq) \cup {x}
  <2>1. \A i \in 1..(Len(seq) + 1) : i \in 1..Len(seq) \/ i = Len(seq) + 1
    BY <1>1
  <2>2. 1..Len(seq) \subseteq 1..(Len(seq) + 1) /\ Len(seq) + 1 \in 1..(Len(seq) + 1)
    BY <1>1
  <2>. QED
    BY <1>1, <1>2, <2>1, <2>2 DEF ToSet
<1>. QED
  BY <1>1, <1>2, <1>3

\* The last elements of a sequence.
LEMMA LastPart ==
    ASSUME NEW S, NEW seq \in Seq(S), NEW n \in Nat \ {0}, n < Len(seq)
    PROVE  LET part == SubSeq(seq, Len(seq) - n + 1, Len(seq))
           IN  /\ part \in Seq(S) /\ Len(part) = n
               /\ \A i \in 1..n : part[i] = seq[Len(seq) - n + i]
               /\ ToSet(part) \subseteq ToSet(seq)
<1>. DEFINE m == Len(seq) - n + 1
            part == SubSeq(seq, m, Len(seq))
<1>1. Len(seq) \in Nat /\ m \in 1..Len(seq) /\ DOMAIN seq = 1..Len(seq)
  BY LenProperties
<1>2. \A i \in m..Len(seq) : seq[i] \in S
  BY <1>1, ElementOfSeq
<1>3. part \in Seq(S) /\ Len(part) = Len(seq) - m + 1
      /\ \A i \in 1..(Len(seq) - m + 1) : part[i] = seq[m + i - 1]
  BY <1>1, <1>2, SubSeqProperties
<1>4. Len(seq) - m + 1 = n /\ \A i \in 1..n : m + i - 1 = Len(seq) - n + i
  BY <1>1
<1>5. Len(part) = n /\ DOMAIN part = 1..n /\ \A i \in 1..n : part[i] = seq[Len(seq) - n + i]
  BY <1>3, <1>4, LenProperties
<1>6. \A i \in 1..n : Len(seq) - n + i \in DOMAIN seq
  BY <1>1
<1>7. ToSet(part) \subseteq ToSet(seq)
  BY <1>5, <1>6 DEF ToSet
<1>. QED
  BY <1>3, <1>5, <1>7

-----------------------------------------------------------------------------
(* Types *)

SampleOf == [at : Nat, todo : SUBSET Series, series : Series \cup {"none"}, id : Nat,
             verdict : BOOLEAN, step : 0..3]
PointType == [id : Nat, at : Nat, anomalous : BOOLEAN]
HeardType == [id : Nat, anomalous : BOOLEAN]
ModelType == [of : Series, upTo : Nat]
LoopType == [tick : 0..(Fanout - 1), at : Nat, todo : SUBSET Series, model : Seq(ModelType)]
HistType == [verdicts : Seq(BOOLEAN), base : Nat, missed : SUBSET Nat, wiped : SUBSET Nat,
             known : SUBSET Nat, gap : Nat, shifts : Nat]
RingType == [at : -1..(Slots - 1), open : SUBSET PointType, file : [Ring -> SUBSET PointType]]

\* No number in a ring is beyond some one.
Bounded(r) == \E n \in Nat : \A q \in Held(r) : q.id <= n

\* A source that is at a sample is at one of its own series.
AtSample(x, p) == x \in SampleOf /\ x.series \in Feeds[p] /\ x.todo \subseteq Feeds[p]

\* It has nothing in hand, or a sample without a number yet; or it has scored
\* its sample.
Waiting(x, p) == x = Idle \/ (AtSample(x, p) /\ x.step = 1 /\ x.id = 0)
Scored(x, p) == AtSample(x, p) /\ x.step \in {2, 3} /\ x.id > 0

TypeInv ==
    /\ now \in Nat
    /\ DOMAIN source = Sources
    /\ \A p \in Sources : Waiting(source[p], p) \/ Scored(source[p], p)
    /\ created \in Seq(Series)
    /\ ring \in [Series -> RingType] /\ \A s \in Series : Bounded(ring[s])
    /\ buffer \in [Series -> Seq(Nat)]
    /\ models \in [Series -> Seq(ModelType)]
    /\ heard \in [Series -> Seq(HeardType)]
    /\ loop \in LoopType /\ loop.todo \subseteq ToSet(created)
    /\ hist \in [Series -> HistType]

\* What the fields of a source's state can be.
LEMMA SourceFields ==
    ASSUME TypeInv, NEW p \in Sources
    PROVE  LET x == source[p]
           IN  /\ x.step \in 0..3 /\ x.id \in Nat /\ x.verdict \in BOOLEAN
               /\ x.step = 0 <=> x = Idle
               /\ x.step < 2 <=> Waiting(x, p)
               /\ x.step > 1 <=> Scored(x, p)
               /\ x.step < 2 => x.id = 0
               /\ x.step > 0 => AtSample(x, p) /\ x.series \in Series
               /\ x.step > 1 => x.id > 0
<1>. DEFINE x == source[p]
<1>0. Feeds[p] \subseteq Series
  BY DetectorAssumption
<1>1. CASE x = Idle
  BY <1>1 DEF Idle, Scored, Waiting
<1>2. CASE AtSample(x, p) /\ x.step = 1 /\ x.id = 0
  <2>1. x.series \in Series /\ x.verdict \in BOOLEAN
    BY <1>0, <1>2 DEF AtSample, SampleOf
  <2>. QED
    BY <1>2, <2>1 DEF Idle, Waiting, Scored
<1>3. CASE Scored(x, p)
  <2>1. x.series \in Series /\ x.verdict \in BOOLEAN /\ x.id \in Nat
    BY <1>0, <1>3 DEF AtSample, SampleOf, Scored
  <2>. QED
    BY <1>3, <2>1 DEF Idle, Waiting, Scored
<1>. QED
  BY <1>1, <1>2, <1>3 DEF TypeInv, Waiting

LEMMA WhatIsDone ==
    ASSUME TypeInv, NEW p \in Sources
    PROVE  /\ Len(Handling) = 3
           /\ Doing(p, "score") <=> source[p].step = 1
           /\ Doing(p, "store") <=> source[p].step = 2
           /\ Doing(p, "alerts") <=> source[p].step = 3
<1>1. Handling[1] = "score" /\ Handling[2] = "store" /\ Handling[3] = "alerts" /\ Len(Handling) = 3
  BY DEF Handling
<1>2. source[p].step = 0 \/ source[p].step = 1 \/ source[p].step = 2 \/ source[p].step = 3
  BY SourceFields
<1>. QED
  BY <1>1, <1>2 DEF Doing

\* The number under which the sample is scored, and what it is known by then.
LEMMA CurrentIs ==
    ASSUME TypeInv, NEW p \in Sources, source[p].step > 0
    PROVE  LET x == source[p]
           IN  /\ x.step > 1 => Current(p) = x
               /\ x.step = 1 =>
                     Current(p) = [x EXCEPT !.id = Len(hist[x.series].verdicts) + 1]
BY SourceFields DEF Current

\* What a source has in hand when it turns to the next sample.
LEMMA NextWaits ==
    ASSUME NEW p \in Sources, NEW at \in Nat, NEW todo, todo \subseteq Feeds[p],
           NEW x \in NextSamples(at, todo)
    PROVE  Waiting(x, p)
<1>1. CASE todo = {}
  BY <1>1 DEF NextSamples, Waiting
<1>2. CASE todo # {}
  <2>1. PICK s \in todo :
            x = [Idle EXCEPT !.at = at, !.todo = todo \ {s}, !.series = s, !.step = 1]
    BY <1>2 DEF NextSamples
  <2>2. x = [at |-> at, todo |-> todo \ {s}, series |-> s, id |-> 0, verdict |-> FALSE,
             step |-> 1]
    BY <2>1 DEF Idle
  <2>3. Feeds[p] \subseteq Series
    BY DetectorAssumption
  <2>. QED
    BY <2>2, <2>3 DEF Waiting, AtSample, SampleOf
<1>. QED
  BY <1>1, <1>2

\* The source's part of a step with a sample: on to the next step, with all it
\* knows of the sample, or to the next sample.
LEMMA WhatContinues ==
    ASSUME TypeInv, NEW p \in Sources, NEW x, Continue(p, x),
           AtSample(x, p), x.step \in 1..3, x.id > 0
    PROVE  \E y : /\ source' = [source EXCEPT ![p] = y]
                  /\ x.step = 3 => Waiting(y, p)
                  /\ x.step < 3 => /\ Scored(y, p) /\ y.step = x.step + 1
                                   /\ y.series = x.series /\ y.id = x.id
                                   /\ y.verdict = x.verdict
<1>1. PICK y \in IF x.step < Len(Handling) THEN {[x EXCEPT !.step = @ + 1]}
                 ELSE NextSamples(x.at, x.todo) :
          source' = [source EXCEPT ![p] = y]
  BY DEF Continue
<1>. SUFFICES /\ x.step = 3 => Waiting(y, p)
              /\ x.step < 3 => /\ Scored(y, p) /\ y.step = x.step + 1
                               /\ y.series = x.series /\ y.id = x.id
                               /\ y.verdict = x.verdict
  BY <1>1
<1>2. Len(Handling) = 3
  BY DEF Handling
<1>3. CASE x.step = 3
  <2>1. y \in NextSamples(x.at, x.todo) /\ x.at \in Nat /\ x.todo \subseteq Feeds[p]
    BY <1>1, <1>2, <1>3 DEF AtSample, SampleOf
  <2>2. Waiting(y, p)
    BY <2>1, NextWaits
  <2>. QED
    BY <1>3, <2>2
<1>4. CASE x.step < 3
  <2>1. y = [x EXCEPT !.step = @ + 1]
    BY <1>1, <1>2, <1>4
  <2>2. x.step + 1 \in {2, 3}
    BY <1>4
  <2>3. y \in SampleOf /\ y.step = x.step + 1 /\ y.series = x.series /\ y.id = x.id
        /\ y.verdict = x.verdict /\ y.todo = x.todo
    BY <2>1, <2>2 DEF AtSample, SampleOf
  <2>4. y.series \in Feeds[p] /\ y.todo \subseteq Feeds[p] /\ y.step \in {2, 3} /\ y.id > 0
    BY <2>2, <2>3 DEF AtSample
  <2>. QED
    BY <1>4, <2>3, <2>4 DEF Scored, AtSample
<1>. QED
  BY <1>3, <1>4

-----------------------------------------------------------------------------
(* What a write and a start do to a ring *)

LEMMA SlotIs ==
    ASSUME NEW at \in Nat
    PROVE  SlotOf(at) \in Ring
<1>1. Slots \in Nat \ {0} /\ ChunkSeconds \in Nat \ {0}
  BY DetectorAssumption
<1>2. PICK n \in Nat : n = at \div ChunkSeconds
  BY <1>1
<1>3. n % Slots \in 0..(Slots - 1)
  BY <1>1, <1>2
<1>. QED
  BY <1>2, <1>3 DEF SlotOf, Ring

\* A ring with a point more, in memory and then in a file too.
LEMMA JoinedIs ==
    ASSUME NEW r \in RingType, NEW point \in PointType
    PROVE  LET j == Joined(r, point)
               f == Flushed(j)
           IN  /\ j \in RingType /\ Held(j) \subseteq Held(r) \cup {point}
               /\ f \in RingType /\ Held(f) \subseteq Held(r) \cup {point}
               /\ point \in Held(f)
<1>. DEFINE at == point.at
            idx == SlotOf(at)
            chunk == Chunk(r, point)
            j == Joined(r, point)
            f == Flushed(j)
<1>1. at \in Nat /\ idx \in Ring
  BY SlotIs DEF PointType
<1>2. idx \in -1..(Slots - 1)
  BY <1>1, DetectorAssumption DEF Ring
<1>3. r.open \subseteq PointType /\ r.file \in [Ring -> SUBSET PointType]
      /\ r = [at |-> r.at, open |-> r.open, file |-> r.file]
  BY DEF RingType
<1>4. chunk \subseteq r.open /\ chunk \subseteq PointType
  BY <1>3 DEF Chunk
<1>13. j = [r EXCEPT !.at = idx, !.open = chunk \cup {point}]
  BY DEF Joined
<1>. HIDE DEF idx, chunk, j
<1>5. j = [at |-> idx, open |-> chunk \cup {point}, file |-> r.file]
  BY <1>3, <1>13
<1>6. j \in RingType /\ j.at = idx /\ j.open = chunk \cup {point} /\ j.file = r.file
  BY <1>2, <1>3, <1>4, <1>5 DEF RingType
<1>7. Held(j) \subseteq Held(r) \cup {point}
  BY <1>4, <1>6 DEF Held, OnDisk
<1>. DEFINE files == [r.file EXCEPT ![idx] = chunk \cup {point}]
<1>8. f = [at |-> idx, open |-> chunk \cup {point}, file |-> files]
  BY <1>5, <1>6 DEF Flushed
<1>9. files \in [Ring -> SUBSET PointType] /\ files[idx] = chunk \cup {point}
      /\ \A i \in Ring : files[i] \subseteq r.file[i] \cup chunk \cup {point}
  BY <1>1, <1>3, <1>4
<1>. HIDE DEF files, f
<1>10. f \in RingType /\ f.open = chunk \cup {point} /\ f.file = files
  BY <1>2, <1>4, <1>8, <1>9 DEF RingType
<1>11. Held(f) \subseteq Held(r) \cup {point} /\ point \in Held(f)
  BY <1>4, <1>9, <1>10 DEF Held, OnDisk
<1>. QED
  BY <1>6, <1>7, <1>10, <1>11 DEF j, f

\* A ring as it is opened again has what its files have.
LEMMA ReopenedIs ==
    ASSUME NEW r \in RingType
    PROVE  Reopened(r) \in RingType /\ Held(Reopened(r)) \subseteq Held(r)
<1>. DEFINE latest == {i \in Ring : \E p \in r.file[i] : \A q \in OnDisk(r) : q.at <= p.at}
            i == CHOOSE j \in latest : TRUE
<1>1. r.file \in [Ring -> SUBSET PointType]
      /\ r = [at |-> r.at, open |-> r.open, file |-> r.file] /\ Slots \in Nat \ {0}
  BY DetectorAssumption DEF RingType
<1>2. CASE latest = {}
  <2>1. Reopened(r) = [at |-> -1, open |-> {}, file |-> r.file]
    BY <1>1, <1>2 DEF Reopened
  <2>2. -1 \in -1..(Slots - 1)
    BY <1>1
  <2>. QED
    BY <1>1, <2>1, <2>2 DEF RingType, Held, OnDisk
<1>3. CASE latest # {}
  <2>1. i \in latest
    BY <1>3
  <2>2. i \in Ring
    BY <2>1
  <2>3. Reopened(r) = [at |-> i, open |-> r.file[i], file |-> r.file]
    BY <1>1, <1>3 DEF Reopened
  <2>. HIDE DEF i
  <2>4. i \in -1..(Slots - 1) /\ r.file[i] \subseteq PointType
    BY <1>1, <2>2 DEF Ring
  <2>. QED
    BY <1>1, <2>2, <2>3, <2>4 DEF RingType, Held, OnDisk
<1>. QED
  BY <1>2, <1>3

-----------------------------------------------------------------------------
(* What the steps with a sample do *)

LEMMA HistFields ==
    ASSUME TypeInv, NEW s \in Series
    PROVE  /\ hist[s] \in HistType /\ hist[s].verdicts \in Seq(BOOLEAN)
           /\ Len(hist[s].verdicts) \in Nat
           /\ hist[s].base \in Nat /\ hist[s].missed \in SUBSET Nat
           /\ hist[s].wiped \in SUBSET Nat
           /\ hist[s].known \in SUBSET Nat /\ hist[s].gap \in Nat /\ hist[s].shifts \in Nat
<1>1. hist[s] \in HistType
  BY DEF TypeInv
<1>2. hist[s].verdicts \in Seq(BOOLEAN)
  BY <1>1 DEF HistType
<1>3. Len(hist[s].verdicts) \in Nat
  BY <1>2, LenProperties
<1>. QED
  BY <1>1, <1>2, <1>3 DEF HistType

\* Whether one of the models that judge a sample was trained on it.
TrainedOn(s, id) == \E m \in ToSet(models[s]) : m = [of |-> s, upTo |-> id]

LEMMA ScoreDoes ==
    ASSUME TypeInv, NEW p \in Sources, Score(p)
    PROVE  LET s == source[p].series
               id == Len(hist[s].verdicts) + 1
           IN  /\ source[p].step = 1 /\ s \in Series /\ s \in Feeds[p] /\ id \in Nat
               /\ \E verdict \in BOOLEAN : \E y :
                     /\ source' = [source EXCEPT ![p] = y]
                     /\ Scored(y, p) /\ y.step = 2 /\ y.series = s /\ y.id = id
                     /\ y.verdict = verdict
                     /\ hist' = [hist EXCEPT ![s] =
                            [hist[s] EXCEPT
                                !.verdicts = Append(@, verdict),
                                !.known = IF TrainedOn(s, id) THEN @ \cup {id} ELSE @]]
               /\ buffer' = [buffer EXCEPT ![s] = Trimmed(Append(buffer[s], id))]
               /\ UNCHANGED <<now, storage, models, heard, loop, faults>>
<1>. DEFINE s == source[p].series
            id == Len(hist[s].verdicts) + 1
            x == Current(p)
<1>1. source[p].step = 1
  BY WhatIsDone DEF Score
<1>2. s \in Series /\ AtSample(source[p], p)
  BY <1>1, SourceFields
<1>3. x = [source[p] EXCEPT !.id = id]
  BY <1>1, CurrentIs
<1>4. id \in Nat /\ id > 0
  BY <1>2, HistFields
<1>. HIDE DEF x
<1>5. x.series = s /\ x.id = id
  BY <1>2, <1>3 DEF AtSample, SampleOf
<1>. HIDE DEF id
<1>6. /\ buffer' = [buffer EXCEPT ![s] = Trimmed(Append(buffer[s], id))]
      /\ UNCHANGED <<now, storage, models, heard, loop, faults>>
  BY <1>5 DEF Score, x
<1>7. PICK verdict \in BOOLEAN :
          /\ Continue(p, [x EXCEPT !.verdict = verdict])
          /\ hist' = [hist EXCEPT ![s].verdicts = Append(@, verdict),
                                  ![s].known = IF TrainedOn(s, id) THEN @ \cup {id} ELSE @]
  BY <1>5 DEF Score, x, TrainedOn
<1>. DEFINE z == [x EXCEPT !.verdict = verdict]
<1>8. /\ AtSample(z, p) /\ z.step = 1 /\ z.series = s /\ z.id = id /\ z.verdict = verdict
  BY <1>1, <1>2, <1>3, <1>4 DEF AtSample, SampleOf
<1>. HIDE DEF z
<1>9. PICK y : /\ source' = [source EXCEPT ![p] = y]
               /\ z.step = 3 => Waiting(y, p)
               /\ z.step < 3 => /\ Scored(y, p) /\ y.step = z.step + 1
                                /\ y.series = z.series /\ y.id = z.id
                                /\ y.verdict = z.verdict
  <2>1. Continue(p, z)
    BY <1>7 DEF z
  <2>. QED
    BY <1>4, <1>8, <2>1, WhatContinues
<1>12. Scored(y, p) /\ y.step = 2 /\ y.series = s /\ y.id = id /\ y.verdict = verdict
  BY <1>8, <1>9
<1>10. hist' = [hist EXCEPT ![s] =
                   [hist[s] EXCEPT !.verdicts = Append(@, verdict),
                                   !.known = IF TrainedOn(s, id) THEN @ \cup {id} ELSE @]]
  <2>1. hist[s] \in HistType /\ hist \in [Series -> HistType]
    BY <1>2, HistFields DEF TypeInv
  <2>. QED
    BY <1>2, <1>7, <2>1 DEF HistType
<1>11. s \in Feeds[p]
  BY <1>2 DEF AtSample
<1>13. \E v \in BOOLEAN : \E w :
          /\ source' = [source EXCEPT ![p] = w]
          /\ Scored(w, p) /\ w.step = 2 /\ w.series = s /\ w.id = id
          /\ w.verdict = v
          /\ hist' = [hist EXCEPT ![s] =
                 [hist[s] EXCEPT
                     !.verdicts = Append(@, v),
                     !.known = IF TrainedOn(s, id) THEN @ \cup {id} ELSE @]]
  BY <1>9, <1>10, <1>12
<1>. QED
  BY <1>1, <1>2, <1>4, <1>6, <1>11, <1>13 DEF id

\* The history of a sample with the store.
Remembers(h, s, missed, wiped) ==
    \A r \in Series :
        /\ h[r].verdicts = hist[r].verdicts /\ h[r].base = hist[r].base
        /\ h[r].known = hist[r].known /\ h[r].gap = hist[r].gap
        /\ h[r].missed = IF r = s THEN hist[r].missed \cup missed ELSE hist[r].missed
        /\ h[r].wiped = IF r = s THEN hist[r].wiped \cup wiped ELSE hist[r].wiped
        /\ h[r].shifts = IF s \notin ToSet(created) /\ r \in ToSet(created)
                            /\ Earlier(Keys, s, r)
                         THEN hist[r].shifts + 1 ELSE hist[r].shifts

LEMMA RecordedIs ==
    ASSUME TypeInv, NEW s \in Series, NEW missed \in SUBSET Nat, NEW wiped \in SUBSET Nat
    PROVE  /\ Recorded(s, missed, wiped) \in [Series -> HistType]
           /\ Remembers(Recorded(s, missed, wiped), s, missed, wiped)
<1>. DEFINE h == Recorded(s, missed, wiped)
            Lost(r) == IF r = s THEN hist[r].missed \cup missed ELSE hist[r].missed
            Gone(r) == IF r = s THEN hist[r].wiped \cup wiped ELSE hist[r].wiped
            Moved(r) == IF s \notin ToSet(created) /\ r \in ToSet(created)
                           /\ Earlier(Keys, s, r)
                        THEN hist[r].shifts + 1 ELSE hist[r].shifts
<1>1. ASSUME NEW r \in Series
      PROVE  /\ hist[r] \in HistType
             /\ Lost(r) \in SUBSET Nat /\ Gone(r) \in SUBSET Nat /\ Moved(r) \in Nat
  <2>1. hist[r] \in HistType /\ hist[r].missed \in SUBSET Nat /\ hist[r].wiped \in SUBSET Nat
        /\ hist[r].shifts \in Nat
    BY HistFields
  <2>2. Moved(r) \in Nat
    <3>1. hist[r].shifts + 1 \in Nat
      BY <2>1
    <3>. QED
      BY <2>1, <3>1
  <2>. QED
    BY <2>1, <2>2
<1>2. h = [r \in Series |-> [hist[r] EXCEPT !.missed = Lost(r), !.wiped = Gone(r),
                                            !.shifts = Moved(r)]]
  <2>1. ASSUME NEW r \in Series
        PROVE  [hist[r] EXCEPT
                   !.missed = IF r = s THEN @ \cup missed ELSE @,
                   !.wiped = IF r = s THEN @ \cup wiped ELSE @,
                   !.shifts = IF s \notin ToSet(created) /\ r \in ToSet(created)
                                 /\ Earlier(Keys, s, r)
                              THEN @ + 1 ELSE @]
               = [hist[r] EXCEPT !.missed = Lost(r), !.wiped = Gone(r), !.shifts = Moved(r)]
    <3>1. hist[r] \in HistType
      BY <1>1
    <3>. QED
      BY <3>1 DEF HistType
  <2>. HIDE DEF Lost, Gone, Moved
  <2>. QED
    BY <2>1 DEF Recorded
<1>. HIDE DEF h
<1>3. ASSUME NEW r \in Series
      PROVE  /\ h[r] \in HistType
             /\ h[r].verdicts = hist[r].verdicts /\ h[r].base = hist[r].base
             /\ h[r].known = hist[r].known /\ h[r].gap = hist[r].gap
             /\ h[r].missed = Lost(r) /\ h[r].wiped = Gone(r) /\ h[r].shifts = Moved(r)
  <2>1. hist[r] \in HistType
        /\ Lost(r) \in SUBSET Nat /\ Gone(r) \in SUBSET Nat /\ Moved(r) \in Nat
    BY <1>1
  <2>2. h[r] = [hist[r] EXCEPT !.missed = Lost(r), !.wiped = Gone(r), !.shifts = Moved(r)]
    BY <1>2
  <2>. HIDE DEF Lost, Gone, Moved
  <2>. QED
    BY <2>1, <2>2 DEF HistType
<1>4. h \in [Series -> HistType]
  BY <1>2, <1>3
<1>. QED
  BY <1>3, <1>4 DEF h, Remembers

\* A series is listed once it is written.
LEMMA ListedIs ==
    ASSUME TypeInv, NEW s \in Series, created' = Listed(s)
    PROVE  /\ \/ created' = created
              \/ s \notin ToSet(created) /\ created' = Append(created, s)
           /\ s \notin ToSet(created) <=> created' # created
<1>1. Len(Append(created, s)) # Len(created)
  BY Appended DEF TypeInv
<1>. QED
  BY <1>1 DEF Listed

\* What the store has done with a point, if it has not missed it.
TookIn(old, new, point, wiped) ==
    /\ point \in Held(new) /\ \A q \in Held(old) : q.at < point.at
    /\ IdsOf(Held(old)) \subseteq IdsOf(Held(new)) \cup wiped

\* The store takes a sample, refuses it, or fails on it.
LEMMA StoringDoes ==
    ASSUME TypeInv, NEW p \in Sources, Store(p) \/ FailStore(p)
    PROVE  LET x == source[p]
               s == x.series
           IN  /\ x.step = 2 /\ s \in Series /\ s \in Feeds[p] /\ Scored(x, p)
               /\ PointOf(x) \in PointType
               /\ \E y : /\ source' = [source EXCEPT ![p] = y]
                         /\ Scored(y, p) /\ y.step = 3 /\ y.series = s /\ y.id = x.id
                         /\ y.verdict = x.verdict
               /\ \E new \in RingType :
                     /\ ring' = [ring EXCEPT ![s] = new]
                     /\ Held(new) \subseteq Held(ring[s]) \cup {PointOf(x)}
                     /\ \/ x.id \in hist'[s].missed
                        \/ TookIn(ring[s], new, PointOf(x), hist'[s].wiped)
               /\ \/ created' = created
                  \/ s \notin ToSet(created) /\ created' = Append(created, s)
               /\ hist' \in [Series -> HistType]
               /\ \A r \in Series :
                     /\ hist'[r].verdicts = hist[r].verdicts /\ hist'[r].base = hist[r].base
                     /\ hist'[r].known = hist[r].known /\ hist'[r].gap = hist[r].gap
                     /\ hist[r].missed \subseteq hist'[r].missed
                     /\ hist[r].wiped \subseteq hist'[r].wiped
                     /\ hist'[r].shifts = IF created' # created /\ r \in ToSet(created)
                                             /\ Earlier(Keys, s, r)
                                          THEN hist[r].shifts + 1 ELSE hist[r].shifts
               /\ UNCHANGED <<now, detector, heard, loop>>
<1>. DEFINE x == source[p]
            s == x.series
            point == PointOf(x)
            old == ring[s]
            joined == Joined(old, point)
<1>1. x.step = 2
  BY WhatIsDone DEF Store, FailStore
<1>2. Scored(x, p) /\ s \in Series /\ x.id \in Nat /\ Current(p) = x
  BY <1>1, SourceFields, CurrentIs
<1>3. s \in Feeds[p] /\ point \in PointType /\ x.at \in Nat
      /\ point.id = x.id /\ point.at = x.at
  BY <1>2 DEF Scored, AtSample, SampleOf, PointType, PointOf
<1>. HIDE DEF x
<1>4. PICK y : /\ source' = [source EXCEPT ![p] = y]
               /\ x.step = 3 => Waiting(y, p)
               /\ x.step < 3 => /\ Scored(y, p) /\ y.step = x.step + 1
                                /\ y.series = x.series /\ y.id = x.id
                                /\ y.verdict = x.verdict
  <2>1. Continue(p, x)
    BY <1>2 DEF Store, FailStore
  <2>2. AtSample(x, p) /\ x.id > 0
    BY <1>2 DEF Scored
  <2>. QED
    BY <1>1, <2>1, <2>2, WhatContinues
<1>5. Scored(y, p) /\ y.step = 3 /\ y.series = s /\ y.id = x.id /\ y.verdict = x.verdict
  BY <1>1, <1>4
<1>6. UNCHANGED <<now, detector, heard, loop>>
  BY DEF Store, FailStore
<1>7. old \in RingType /\ ring \in [Series -> RingType]
  BY <1>2 DEF TypeInv
<1>. HIDE DEF s, old, point, joined
<1>8. /\ joined \in RingType /\ Held(joined) \subseteq Held(old) \cup {point}
      /\ Flushed(joined) \in RingType /\ Held(Flushed(joined)) \subseteq Held(old) \cup {point}
      /\ point \in Held(Flushed(joined))
  BY <1>3, <1>7, JoinedIs DEF joined
<1>. DEFINE Taken(new) ==
                /\ ring' = [ring EXCEPT ![s] = new]
                /\ Held(new) \subseteq Held(old) \cup {point}
                /\ \/ x.id \in hist'[s].missed
                   \/ TookIn(old, new, point, hist'[s].wiped)
            Remembered ==
                /\ hist' \in [Series -> HistType]
                /\ \A r \in Series :
                      /\ hist'[r].verdicts = hist[r].verdicts /\ hist'[r].base = hist[r].base
                      /\ hist'[r].known = hist[r].known /\ hist'[r].gap = hist[r].gap
                      /\ hist[r].missed \subseteq hist'[r].missed
                      /\ hist[r].wiped \subseteq hist'[r].wiped
                      /\ hist'[r].shifts = IF created' # created /\ r \in ToSet(created)
                                              /\ Earlier(Keys, s, r)
                                           THEN hist[r].shifts + 1 ELSE hist[r].shifts
            Grown == \/ created' = created
                     \/ s \notin ToSet(created) /\ created' = Append(created, s)
<1>9. ASSUME NEW missed \in SUBSET Nat, NEW wiped \in SUBSET Nat, created' = Listed(s),
             hist' = Recorded(s, missed, wiped)
      PROVE  /\ Grown /\ Remembered
             /\ missed \subseteq hist'[s].missed /\ wiped \subseteq hist'[s].wiped
  <2>1. Grown /\ (s \notin ToSet(created) <=> created' # created)
    BY <1>2, <1>9, ListedIs
  <2>2. hist' \in [Series -> HistType]
    BY <1>2, <1>9, RecordedIs
  <2>6. Remembers(hist', s, missed, wiped)
    BY <1>2, <1>9, RecordedIs
  <2>3. ASSUME NEW r \in Series
        PROVE  /\ hist'[r].verdicts = hist[r].verdicts /\ hist'[r].base = hist[r].base
               /\ hist'[r].known = hist[r].known /\ hist'[r].gap = hist[r].gap
               /\ hist'[r].missed = IF r = s THEN hist[r].missed \cup missed
                                    ELSE hist[r].missed
               /\ hist'[r].wiped = IF r = s THEN hist[r].wiped \cup wiped ELSE hist[r].wiped
               /\ hist'[r].shifts = IF s \notin ToSet(created) /\ r \in ToSet(created)
                                       /\ Earlier(Keys, s, r)
                                    THEN hist[r].shifts + 1 ELSE hist[r].shifts
    BY <2>6 DEF Remembers
  <2>4. missed \subseteq hist'[s].missed /\ wiped \subseteq hist'[s].wiped
    BY <1>2, <2>3
  <2>5. ASSUME NEW r \in Series
        PROVE  /\ hist'[r].verdicts = hist[r].verdicts /\ hist'[r].base = hist[r].base
               /\ hist'[r].known = hist[r].known /\ hist'[r].gap = hist[r].gap
               /\ hist[r].missed \subseteq hist'[r].missed
               /\ hist[r].wiped \subseteq hist'[r].wiped
               /\ hist'[r].shifts = IF created' # created /\ r \in ToSet(created)
                                       /\ Earlier(Keys, s, r)
                                    THEN hist[r].shifts + 1 ELSE hist[r].shifts
    BY <2>1, <2>3
  <2>. QED
    BY <2>1, <2>2, <2>4, <2>5
<1>10. Grown /\ Remembered /\ \E new \in RingType : Taken(new)
  <2>. HIDE DEF Grown, Remembered
  <2>1. CASE Store(p)
    <3>. DEFINE new == IF Drops(old, point) THEN old ELSE Flushed(joined)
                missed == IF IsLate(old, x.at) THEN {x.id} ELSE {}
                wiped == IdsOf(Held(old)) \ IdsOf(Held(new))
    <3>1. /\ created' = Listed(s) /\ ring' = [ring EXCEPT ![s] = new]
          /\ hist' = Recorded(s, missed, wiped)
      BY <1>2, <2>1 DEF Store, s, old, point, joined
    <3>2. new \in RingType /\ Held(new) \subseteq Held(old) \cup {point}
      BY <1>7, <1>8
    <3>3. Held(old) \subseteq PointType
      BY <1>7 DEF RingType, Held, OnDisk
    <3>4. missed \in SUBSET Nat /\ wiped \in SUBSET Nat
      BY <1>2, <3>3 DEF IdsOf, PointType
    <3>5. Drops(old, point) => IsLate(old, x.at)
      <4>1. Chunk(old, point) \subseteq Held(old)
        BY DEF Chunk, Held
      <4>. QED
        BY <1>3, <4>1 DEF Drops, IsLate
    <3>6. CASE IsLate(old, x.at)
      <4>1. Grown /\ Remembered /\ x.id \in hist'[s].missed
        <5>1. x.id \in missed
          BY <3>6
        <5>. HIDE DEF missed, wiped
        <5>. QED
          BY <1>9, <3>1, <3>4, <5>1
      <4>. HIDE DEF new
      <4>. QED
        BY <3>1, <3>2, <4>1
    <3>7. CASE ~IsLate(old, x.at)
      <4>1. Grown /\ Remembered /\ wiped \subseteq hist'[s].wiped
        <5>. HIDE DEF missed, wiped
        <5>. QED
          BY <1>9, <3>1, <3>4
      <4>2. new = Flushed(joined)
        BY <3>5, <3>7
      <4>3. point \in Held(new)
        BY <1>8, <4>2
      <4>4. \A q \in Held(old) : q.at < point.at
        <5>1. \A q \in Held(old) : q.at \in Nat /\ ~(x.at <= q.at)
          BY <3>3, <3>7 DEF IsLate, PointType
        <5>. QED
          BY <1>3, <5>1
      <4>5. IdsOf(Held(old)) \subseteq IdsOf(Held(new)) \cup hist'[s].wiped
        BY <4>1
      <4>. HIDE DEF new
      <4>. QED
        BY <3>1, <3>2, <4>1, <4>3, <4>4, <4>5 DEF TookIn
    <3>. QED
      BY <3>6, <3>7
  <2>2. CASE FailStore(p)
    <3>1. CASE hist' = [hist EXCEPT ![s].missed = @ \cup {x.id}] /\ UNCHANGED storage
      <4>1. Grown
        BY <3>1 DEF Grown, storage
      <4>2. [hist[s] EXCEPT !.missed = @ \cup {x.id}] \in HistType
        BY <1>2, HistFields DEF HistType
      <4>. DEFINE h == [hist[s] EXCEPT !.missed = @ \cup {x.id}]
      <4>3. /\ h \in HistType /\ h.verdicts = hist[s].verdicts /\ h.base = hist[s].base
            /\ h.known = hist[s].known /\ h.gap = hist[s].gap
            /\ h.missed = hist[s].missed \cup {x.id} /\ h.wiped = hist[s].wiped
            /\ h.shifts = hist[s].shifts
        BY <1>2, <4>2, HistFields DEF HistType
      <4>4. hist \in [Series -> HistType] /\ hist' = [hist EXCEPT ![s] = h]
        BY <3>1 DEF TypeInv
      <4>. HIDE DEF h
      <4>5. hist' \in [Series -> HistType] /\ hist'[s] = h
            /\ \A r \in Series \ {s} : hist'[r] = hist[r]
        BY <1>2, <4>3, <4>4
      <4>6. created' = created /\ ring' = ring
        BY <3>1 DEF storage
      <4>7. ASSUME NEW r \in Series
            PROVE  /\ hist'[r].verdicts = hist[r].verdicts /\ hist'[r].base = hist[r].base
                   /\ hist'[r].known = hist[r].known /\ hist'[r].gap = hist[r].gap
                   /\ hist[r].missed \subseteq hist'[r].missed
                   /\ hist[r].wiped \subseteq hist'[r].wiped
                   /\ hist'[r].shifts = hist[r].shifts
        BY <4>3, <4>5
      <4>8. Remembered
        BY <4>5, <4>6, <4>7 DEF Remembered
      <4>9. ring' = [ring EXCEPT ![s] = old] /\ x.id \in hist'[s].missed
        BY <1>7, <4>3, <4>5, <4>6 DEF old
      <4>. QED
        BY <1>7, <4>1, <4>8, <4>9
    <3>2. CASE /\ created' = Listed(s) /\ ring' = [ring EXCEPT ![s] = joined]
               /\ hist' = Recorded(s, {x.id}, {})
      <4>1. Grown /\ Remembered /\ {x.id} \subseteq hist'[s].missed
        BY <1>2, <1>9, <3>2
      <4>. QED
        BY <1>8, <3>2, <4>1
    <3>. QED
      BY <1>2, <2>2, <3>1, <3>2 DEF FailStore, s, old, point, joined
  <2>. QED
    BY <2>1, <2>2
<1>. QED
  BY <1>1, <1>2, <1>3, <1>4, <1>5, <1>6, <1>10 DEF s, old, point, x

LEMMA AlertDoes ==
    ASSUME TypeInv, NEW p \in Sources, Alert(p)
    PROVE  LET x == source[p]
               s == x.series
               sample == [id |-> x.id, anomalous |-> x.verdict]
           IN  /\ x.step = 3 /\ s \in Series /\ Scored(x, p) /\ sample \in HeardType
               /\ \E y : source' = [source EXCEPT ![p] = y] /\ Waiting(y, p)
               /\ heard' = [heard EXCEPT ![s] = Append(@, sample)]
               /\ UNCHANGED <<now, storage, detector, loop, hist, faults>>
<1>. DEFINE x == source[p]
            sample == [id |-> x.id, anomalous |-> x.verdict]
<1>1. x.step = 3
  BY WhatIsDone DEF Alert
<1>2. Scored(x, p) /\ x.series \in Series /\ x.id \in Nat /\ Current(p) = x /\ x.verdict \in BOOLEAN
  BY <1>1, SourceFields, CurrentIs
<1>3. sample \in HeardType
  BY <1>2 DEF HeardType
<1>. HIDE DEF x
<1>4. PICK y : /\ source' = [source EXCEPT ![p] = y]
               /\ x.step = 3 => Waiting(y, p)
               /\ x.step < 3 => /\ Scored(y, p) /\ y.step = x.step + 1
                                /\ y.series = x.series /\ y.id = x.id
                                /\ y.verdict = x.verdict
  <2>1. Continue(p, x)
    BY <1>2 DEF Alert
  <2>2. AtSample(x, p) /\ x.id > 0
    BY <1>2 DEF Scored
  <2>. QED
    BY <1>1, <2>1, <2>2, WhatContinues
<1>5. heard' = [heard EXCEPT ![x.series] = Append(@, sample)]
      /\ UNCHANGED <<now, storage, detector, loop, hist, faults>>
  BY <1>2 DEF Alert
<1>. QED
  BY <1>1, <1>2, <1>3, <1>4, <1>5 DEF x

LEMMA BeginRoundDoes ==
    ASSUME TypeInv, NEW p \in Sources, BeginRound(p)
    PROVE  /\ source[p] = Idle
           /\ \E y : source' = [source EXCEPT ![p] = y] /\ Waiting(y, p)
           /\ UNCHANGED <<now, storage, detector, heard, loop, hist, faults>>
<1>1. PICK age \in Ages[p] : \E x \in NextSamples(now - age, Feeds[p]) :
          age <= now /\ source' = [source EXCEPT ![p] = x]
  BY DEF BeginRound
<1>2. PICK y \in NextSamples(now - age, Feeds[p]) :
          age <= now /\ source' = [source EXCEPT ![p] = y]
  BY <1>1
<1>3. age \in Nat /\ now \in Nat
  BY DetectorAssumption DEF TypeInv
<1>4. Waiting(y, p)
  BY <1>2, <1>3, NextWaits
<1>5. source[p] = Idle /\ UNCHANGED <<now, storage, detector, heard, loop, hist, faults>>
  BY DEF BeginRound
<1>. QED
  BY <1>2, <1>4, <1>5

-----------------------------------------------------------------------------
(* What the retraining loop and a restart do *)

\* The first result of a query for a series that the store has.
LEMMA FirstIs ==
    ASSUME TypeInv, NEW s \in ToSet(created)
    PROVE  First(s) \in ToSet(created) /\ First(s) \in Series /\ First(s) \in Matches[s]
<1>. DEFINE places == {i \in DOMAIN created : created[i] \in Matches[s]}
<1>1. created \in Seq(Series) /\ DOMAIN created = 1..Len(created) /\ Len(created) \in Nat
  BY LenProperties DEF TypeInv
<1>2. PICK i \in DOMAIN created : created[i] = s
  BY DEF ToSet
<1>3. s \in Series /\ s \in Matches[s]
  BY <1>1, <1>2, ElementOfSeq, DetectorAssumption
<1>4. places \subseteq Nat /\ places # {}
  BY <1>1, <1>2, <1>3
<1>5. Min(places) \in places
  BY <1>4, LeastOf
<1>6. Min(places) \in DOMAIN created /\ created[Min(places)] \in Matches[s]
  BY <1>5
<1>7. First(s) = created[Min(places)]
  BY DEF First
<1>. HIDE DEF places
<1>8. First(s) \in Series
  BY <1>1, <1>6, <1>7, ElementOfSeq
<1>. QED
  BY <1>6, <1>7, <1>8 DEF ToSet

LEMMA VisitedIs ==
    ASSUME TypeInv, loop.todo # {}
    PROVE  Visited \in loop.todo
<1>. DEFINE places == {i \in DOMAIN Keys : Keys[i] \in loop.todo}
<1>1. loop.todo \subseteq Series
  BY DEF TypeInv, LoopType
<1>2. Keys \in Seq(Series) /\ DOMAIN Keys = 1..Len(Keys) /\ Len(Keys) \in Nat
  BY DetectorAssumption, LenProperties
<1>3. \A r \in loop.todo : \E i \in places : Keys[i] = r
  BY <1>1 DEF Series, ToSet
<1>4. places \subseteq Nat /\ places # {}
  BY <1>2, <1>3
<1>5. Min(places) \in places /\ \A i \in places : Min(places) <= i
  BY <1>4, LeastOf
<1>. DEFINE s == Keys[Min(places)]
<1>6. s \in loop.todo
  BY <1>5
<1>7. ASSUME NEW r \in loop.todo \ {s} PROVE Earlier(Keys, s, r)
  <2>1. PICK i \in places : Keys[i] = r
    BY <1>3
  <2>2. i # Min(places) /\ Min(places) <= i
    BY <1>5, <2>1
  <2>4. i \in Nat /\ Min(places) \in Nat
    BY <1>4, <1>5
  <2>3. Min(places) \in DOMAIN Keys /\ i \in DOMAIN Keys
    BY <1>5, <2>1
  <2>5. Min(places) < i
    BY <2>2, <2>4
  <2>. QED
    BY <2>1, <2>3, <2>5 DEF Earlier
<1>. HIDE DEF s
<1>. QED
  BY <1>6, <1>7 DEF Visited

LEMMA LoopFields ==
    ASSUME TypeInv
    PROVE  /\ loop.tick \in 0..(Fanout - 1) /\ loop.at \in Nat
           /\ loop.todo \subseteq Series /\ loop.todo \subseteq ToSet(created)
           /\ loop.model \in Seq(ModelType)
BY DEF TypeInv, LoopType

\* A model is trained on points that are in the store.
LEMMA TrainDoes ==
    ASSUME TypeInv, Train
    PROVE  /\ \/ \E m \in ModelType :
                     /\ loop' = [loop EXCEPT !.model = <<m>>]
                     /\ m.upTo \in IdsOf(Held(ring[m.of]))
              \/ loop' = [loop EXCEPT !.todo = @ \ {Visited}]
           /\ UNCHANGED <<now, ingest, storage, detector, hist, faults>>
<1>. DEFINE first == First(Visited)
            points == TrainingPoints(Visited, loop.at)
            ids == IdsOf(points)
<1>1. Visited \in ToSet(created)
  BY VisitedIs, LoopFields DEF Train
<1>2. first \in Series
  BY <1>1, FirstIs
<1>3. ring[first] \in RingType /\ Bounded(ring[first])
  BY <1>2 DEF TypeInv
<1>4. points \subseteq Held(ring[first]) /\ Held(ring[first]) \subseteq PointType
  BY <1>3 DEF TrainingPoints, PointsIn, Held, OnDisk, RingType
<1>5. /\ loop' = IF Enough(points)
                 THEN [loop EXCEPT !.model = <<[of |-> first, upTo |-> Max(ids)]>>]
                 ELSE [loop EXCEPT !.todo = @ \ {Visited}]
      /\ UNCHANGED <<now, ingest, storage, detector, hist, faults>>
  BY DEF Train
<1>. HIDE DEF first, points
<1>6. CASE Enough(points)
  <2>1. points # {}
    <3>1. Cardinality(points) > Need /\ Need \in Nat \ {0}
      BY <1>6, DetectorAssumption DEF Enough
    <3>2. Cardinality({}) = 0
      BY FS_EmptySet
    <3>. QED
      BY <3>1, <3>2
  <2>2. PICK n \in Nat : \A q \in Held(ring[first]) : q.id <= n
    BY <1>3 DEF Bounded
  <2>3. ids \subseteq 0..n /\ ids # {} /\ ids \subseteq IdsOf(Held(ring[first]))
    BY <1>4, <2>1, <2>2 DEF IdsOf, PointType
  <2>. DEFINE m == [of |-> first, upTo |-> Max(ids)]
  <2>. HIDE DEF ids
  <2>4. Max(ids) \in ids
    BY <2>3, GreatestOf
  <2>8. 0..n \subseteq Nat
    BY <2>2
  <2>5. Max(ids) \in Nat /\ Max(ids) \in IdsOf(Held(ring[first]))
    BY <2>3, <2>4, <2>8, Zenon
  <2>6. m \in ModelType /\ m.upTo \in IdsOf(Held(ring[m.of]))
    BY <1>2, <2>5 DEF ModelType
  <2>7. loop' = [loop EXCEPT !.model = <<m>>]
    BY <1>5, <1>6
  <2>. HIDE DEF m
  <2>. QED
    BY <1>5, <2>6, <2>7
<1>7. CASE ~Enough(points)
  BY <1>5, <1>7
<1>. QED
  BY <1>6, <1>7

\* An ensemble has one model more, and perhaps without its oldest.
LEMMA AddModelDoes ==
    ASSUME TypeInv, AddModel
    PROVE  /\ loop.model # <<>> /\ Head(loop.model) \in ModelType
           /\ Head(loop.model) \in ToSet(loop.model)
           /\ models' \in [Series -> Seq(ModelType)]
           /\ \A s \in Series : ToSet(models'[s]) \subseteq ToSet(models[s]) \cup {Head(loop.model)}
           /\ loop' = [loop EXCEPT !.todo = @ \ {Visited}, !.model = <<>>]
           /\ UNCHANGED <<now, ingest, storage, buffer, hist, faults>>
<1>. DEFINE m == Head(loop.model)
<1>1. loop.model \in Seq(ModelType) /\ loop.model # <<>>
  BY LoopFields DEF AddModel
<1>2. m \in ModelType /\ m \in ToSet(loop.model)
  <2>1. Len(loop.model) \in Nat \ {0} /\ DOMAIN loop.model = 1..Len(loop.model)
    BY <1>1, EmptySeq, LenProperties
  <2>2. m = loop.model[1] /\ 1 \in DOMAIN loop.model
    BY <1>1, <2>1
  <2>. QED
    BY <1>1, <2>1, <2>2, ElementOfSeq DEF ToSet
<1>3. models \in [Series -> Seq(ModelType)]
  BY DEF TypeInv
<1>4. /\ models' = [models EXCEPT ![Visited] = Newest(Append(@, m))]
      /\ loop' = [loop EXCEPT !.todo = @ \ {Visited}, !.model = <<>>]
      /\ UNCHANGED <<now, ingest, storage, buffer, hist, faults>>
  BY DEF AddModel
<1>. HIDE DEF m
<1>5. ASSUME NEW s \in Series
      PROVE  /\ Newest(Append(models[s], m)) \in Seq(ModelType)
             /\ ToSet(Newest(Append(models[s], m))) \subseteq ToSet(models[s]) \cup {m}
  <2>. DEFINE ms == Append(models[s], m)
  <2>1. ms \in Seq(ModelType) /\ ToSet(ms) = ToSet(models[s]) \cup {m}
    BY <1>2, <1>3, <1>5, Appended
  <2>2. ModelCount \in Nat \ {0}
    BY DetectorAssumption
  <2>. HIDE DEF ms
  <2>3. CASE Len(ms) > ModelCount
    <3>1. /\ SubSeq(ms, Len(ms) - ModelCount + 1, Len(ms)) \in Seq(ModelType)
          /\ ToSet(SubSeq(ms, Len(ms) - ModelCount + 1, Len(ms))) \subseteq ToSet(ms)
      BY <2>1, <2>2, <2>3, LastPart
    <3>. QED
      BY <2>1, <2>3, <3>1 DEF Newest, ms
  <2>4. CASE ~(Len(ms) > ModelCount)
    BY <2>1, <2>4 DEF Newest, ms
  <2>. QED
    BY <2>3, <2>4
<1>6. \A s \in Series : models'[s] = models[s]
                        \/ models'[s] = Newest(Append(models[s], m))
  BY <1>3, <1>4
<1>7. models' \in [Series -> Seq(ModelType)]
  <2>1. models' = [s \in Series |-> IF s = Visited THEN Newest(Append(models[s], m))
                                    ELSE models[s]]
    BY <1>3, <1>4
  <2>. QED
    BY <1>3, <1>5, <2>1
<1>. QED
  BY <1>1, <1>2, <1>4, <1>5, <1>6, <1>7 DEF m

LEMMA TickDoes ==
    ASSUME TypeInv, Tick
    PROVE  LET due == DueSeries(loop.tick)
           IN  /\ due \subseteq ToSet(created) /\ due \subseteq Series
               /\ loop' = [loop EXCEPT !.tick = NextTick(@), !.at = now, !.todo = due]
               /\ loop' \in LoopType
               /\ hist' = [s \in Series |->
                      IF s \in due THEN [hist[s] EXCEPT !.gap = 0, !.shifts = 0]
                      ELSE IF s \in ToSet(created) THEN [hist[s] EXCEPT !.gap = @ + 1]
                      ELSE hist[s]]
               /\ hist' \in [Series -> HistType]
               /\ UNCHANGED <<now, ingest, storage, detector, faults>>
<1>. DEFINE due == DueSeries(loop.tick)
<1>1. due \subseteq ToSet(created)
  BY DEF DueSeries
<1>2. ToSet(created) \subseteq Series
  BY ElementOfSeq, LenProperties DEF TypeInv, ToSet
<1>3. /\ loop' = [loop EXCEPT !.tick = NextTick(@), !.at = now, !.todo = due]
      /\ hist' = [s \in Series |->
                      IF s \in due THEN [hist[s] EXCEPT !.gap = 0, !.shifts = 0]
                      ELSE IF s \in ToSet(created) THEN [hist[s] EXCEPT !.gap = @ + 1]
                      ELSE hist[s]]
      /\ UNCHANGED <<now, ingest, storage, detector, faults>>
  BY DEF Tick
<1>. HIDE DEF due
<1>4. NextTick(loop.tick) \in 0..(Fanout - 1)
  <2>1. loop.tick + 1 \in Nat /\ Fanout \in Nat \ {0}
    BY LoopFields, DetectorAssumption
  <2>. QED
    BY <2>1 DEF NextTick
<1>5. loop' \in LoopType
  BY <1>1, <1>2, <1>3, <1>4 DEF TypeInv, LoopType
<1>6. hist' \in [Series -> HistType]
  <2>1. ASSUME NEW s \in Series
        PROVE  /\ [hist[s] EXCEPT !.gap = 0, !.shifts = 0] \in HistType
               /\ [hist[s] EXCEPT !.gap = @ + 1] \in HistType
               /\ hist[s] \in HistType
    <3>1. hist[s] \in HistType /\ hist[s].gap + 1 \in Nat
      BY HistFields
    <3>2. [hist[s] EXCEPT !.gap = @ + 1] \in HistType
      BY <3>1 DEF HistType
    <3>. QED
      BY <3>1, <3>2 DEF HistType
  <2>. QED
    BY <1>3, <2>1
<1>. QED
  BY <1>1, <1>2, <1>3, <1>5, <1>6 DEF due

LEMMA RestartDoes ==
    ASSUME TypeInv, Restart
    PROVE  /\ source' = [p \in Sources |-> Idle]
           /\ created' \in Seq(Series) /\ ToSet(created') = ToSet(created)
           /\ ring' \in [Series -> RingType]
           /\ \A s \in Series : Held(ring'[s]) \subseteq Held(ring[s])
           /\ buffer' = [s \in Series |-> <<>>] /\ models' = [s \in Series |-> <<>>]
           /\ heard' = [s \in Series |-> <<>>]
           /\ loop' = Asleep
           /\ hist' = [s \in Series |-> [hist[s] EXCEPT !.base = Len(hist[s].verdicts),
                                                        !.gap = 0, !.shifts = 0]]
           /\ hist' \in [Series -> HistType]
           /\ UNCHANGED now
<1>1. created' \in Seq(Series) /\ ToSet(created') = ToSet(created)
  <2>1. created' \in [DOMAIN created -> ToSet(created)] /\ ToSet(created') = ToSet(created)
    BY DEF Restart, Reordered
  <2>2. DOMAIN created = 1..Len(created) /\ Len(created) \in Nat /\ ToSet(created) \subseteq Series
    BY ElementOfSeq, LenProperties DEF TypeInv, ToSet
  <2>3. created' \in [1..Len(created) -> Series]
    BY <2>1, <2>2
  <2>. QED
    BY <2>1, <2>2, <2>3, IsASeq
<1>2. \A s \in Series : ring[s] \in RingType
  BY DEF TypeInv
<1>3. \A s \in Series : /\ Reopened(ring[s]) \in RingType
                        /\ Held(Reopened(ring[s])) \subseteq Held(ring[s])
  BY <1>2, ReopenedIs
<1>4. ring' = [s \in Series |-> Reopened(ring[s])]
  BY DEF Restart
<1>5. hist' \in [Series -> HistType]
  <2>1. ASSUME NEW s \in Series
        PROVE  [hist[s] EXCEPT !.base = Len(hist[s].verdicts), !.gap = 0, !.shifts = 0] \in HistType
    BY HistFields DEF HistType
  <2>. QED
    BY <2>1 DEF Restart
<1>6. /\ ring' \in [Series -> RingType]
      /\ \A s \in Series : Held(ring'[s]) \subseteq Held(ring[s])
  BY <1>3, <1>4
<1>. QED
  BY <1>1, <1>5, <1>6 DEF Restart

-----------------------------------------------------------------------------
(* Type correctness *)

SourcesOK ==
    /\ DOMAIN source = Sources
    /\ \A p \in Sources : Waiting(source[p], p) \/ Scored(source[p], p)

\* A step changes one source.
LEMMA OneSourceMoves ==
    ASSUME TypeInv, NEW p \in Sources, NEW y, source' = [source EXCEPT ![p] = y]
    PROVE  /\ Waiting(y, p) \/ Scored(y, p) => SourcesOK'
           /\ source'[p] = y /\ \A q \in Sources \ {p} : source'[q] = source[q]
BY DEF TypeInv, SourcesOK, Waiting, Scored, AtSample

LEMMA TypeInit == Init => TypeInv
<1>. SUFFICES ASSUME Init PROVE TypeInv
  OBVIOUS
<1>1. Fanout \in Nat \ {0}
  BY DetectorAssumption
<1>2. /\ <<>> \in Seq(Nat) /\ <<>> \in Seq(ModelType)
      /\ <<>> \in Seq(HeardType) /\ <<>> \in Seq(BOOLEAN) /\ <<>> \in Seq(Series)
      /\ Len(<<>>) = 0
  BY EmptySeq
<1>3. NoHistory \in HistType
  BY <1>2 DEF NoHistory, HistType
<1>4. Asleep \in LoopType /\ Asleep.todo = {}
  BY <1>1, <1>2 DEF Asleep, LoopType
<1>5. EmptyRing \in RingType /\ Held(EmptyRing) = {}
  BY DetectorAssumption DEF EmptyRing, RingType, Held, OnDisk
<1>6. Bounded(EmptyRing)
  BY <1>5 DEF Bounded
<1>. QED
  BY <1>2, <1>3, <1>4, <1>5, <1>6 DEF Init, TypeInv, Waiting

LEMMA ScoreTyped == ASSUME TypeInv, NEW p \in Sources, Score(p) PROVE TypeInv'
<1>. DEFINE s == source[p].series
            id == Len(hist[s].verdicts) + 1
<1>1. /\ s \in Series /\ id \in Nat
      /\ buffer' = [buffer EXCEPT ![s] = Trimmed(Append(buffer[s], id))]
      /\ UNCHANGED <<now, storage, models, heard, loop, faults>>
  BY ScoreDoes
<1>2. PICK verdict \in BOOLEAN : \E y :
        /\ source' = [source EXCEPT ![p] = y] /\ Scored(y, p)
        /\ hist' = [hist EXCEPT ![s] =
               [hist[s] EXCEPT !.verdicts = Append(@, verdict),
                               !.known = IF TrainedOn(s, id) THEN @ \cup {id} ELSE @]]
  BY ScoreDoes
<1>. HIDE DEF s, id
<1>3. SourcesOK'
  BY <1>2, OneSourceMoves
<1>4. hist' \in [Series -> HistType]
  <2>1. hist[s] \in HistType /\ Append(hist[s].verdicts, verdict) \in Seq(BOOLEAN)
    BY <1>1, HistFields, Appended
  <2>. DEFINE h == [hist[s] EXCEPT
                       !.verdicts = Append(@, verdict),
                       !.known = IF TrainedOn(s, id) THEN @ \cup {id} ELSE @]
  <2>2. h \in HistType
    BY <1>1, <2>1 DEF HistType
  <2>3. hist' = [hist EXCEPT ![s] = h] /\ hist \in [Series -> HistType]
    BY <1>2 DEF TypeInv
  <2>. HIDE DEF h
  <2>. QED
    BY <1>1, <2>2, <2>3
<1>5. buffer' \in [Series -> Seq(Nat)]
  <2>1. buffer \in [Series -> Seq(Nat)] /\ Need \in Nat \ {0}
    BY DetectorAssumption DEF TypeInv
  <2>. DEFINE b == Append(buffer[s], id)
  <2>2. b \in Seq(Nat)
    BY <1>1, <2>1, Appended
  <2>. HIDE DEF b
  <2>3. Trimmed(b) \in Seq(Nat)
    BY <2>1, <2>2, LastPart DEF Trimmed
  <2>. QED
    BY <1>1, <2>1, <2>3 DEF b
<1>. QED
  BY <1>1, <1>3, <1>4, <1>5 DEF TypeInv, SourcesOK, storage

LEMMA StoringTyped ==
    ASSUME TypeInv, NEW p \in Sources, Store(p) \/ FailStore(p)
    PROVE  TypeInv'
<1>. DEFINE x == source[p]
            s == x.series
            point == PointOf(x)
<1>1. /\ s \in Series /\ point \in PointType
      /\ \/ created' = created
         \/ s \notin ToSet(created) /\ created' = Append(created, s)
      /\ UNCHANGED <<now, detector, heard, loop>>
  BY StoringDoes
<1>2. PICK y : source' = [source EXCEPT ![p] = y] /\ Scored(y, p)
  BY StoringDoes
<1>5. hist' \in [Series -> HistType]
  BY StoringDoes
<1>. HIDE DEF s, point
<1>4. SourcesOK'
  BY <1>2, OneSourceMoves
<1>3. PICK new \in RingType :
          /\ ring' = [ring EXCEPT ![s] = new] /\ Held(new) \subseteq Held(ring[s]) \cup {point}
  BY StoringDoes DEF s, point
<1>6. ring' \in [Series -> RingType] /\ \A r \in Series : Bounded(ring'[r])
  <2>1. ring \in [Series -> RingType] /\ \A r \in Series : Bounded(ring[r])
    BY DEF TypeInv
  <2>2. PICK n \in Nat : \A q \in Held(ring[s]) : q.id <= n
    BY <1>1, <2>1 DEF Bounded
  <2>3. PICK k \in Nat : k = point.id
    BY <1>1 DEF PointType
  <2>4. Held(ring[s]) \subseteq PointType
    BY <1>1, <2>1 DEF RingType, Held, OnDisk
  <2>5. \A q \in Held(new) : q.id <= n + k
    <3>1. ASSUME NEW q \in Held(new) PROVE q.id <= n + k
      <4>1. CASE q = point
        BY <2>2, <2>3, <4>1
      <4>2. CASE q \in Held(ring[s])
        BY <2>2, <2>3, <2>4, <4>2 DEF PointType
      <4>. QED
        BY <1>3, <4>1, <4>2
    <3>. QED
      BY <3>1
  <2>6. n + k \in Nat
    BY <2>2, <2>3
  <2>7. Bounded(new)
    BY <2>5, <2>6 DEF Bounded
  <2>. QED
    BY <1>1, <1>3, <2>1, <2>7
<1>7. created' \in Seq(Series) /\ ToSet(created) \subseteq ToSet(created')
  <2>1. created \in Seq(Series)
    BY DEF TypeInv
  <2>2. Append(created, s) \in Seq(Series) /\ ToSet(Append(created, s)) = ToSet(created) \cup {s}
    BY <1>1, <2>1, Appended
  <2>. QED
    BY <1>1, <2>1, <2>2
<1>. QED
  BY <1>1, <1>4, <1>5, <1>6, <1>7 DEF TypeInv, SourcesOK, detector

LEMMA TypeStep == TypeInv /\ [Next]_vars => TypeInv'
<1>. SUFFICES ASSUME TypeInv, [Next]_vars PROVE TypeInv'
  OBVIOUS
<1>. USE DEF ingest, storage, detector
<1>0. DOMAIN source = Sources
  BY DEF TypeInv
<1>1. CASE Advance
  <2>1. now' \in Nat
    BY <1>1 DEF Advance, TypeInv
  <2>. QED
    BY <1>1, <2>1 DEF Advance, TypeInv
<1>2. ASSUME NEW p \in Sources, BeginRound(p) PROVE TypeInv'
  <2>1. PICK y : source' = [source EXCEPT ![p] = y] /\ Waiting(y, p)
    BY <1>2, BeginRoundDoes
  <2>2. SourcesOK'
    BY <2>1, OneSourceMoves
  <2>. QED
    BY <1>2, <2>2, BeginRoundDoes DEF TypeInv, SourcesOK
<1>3. ASSUME NEW p \in Sources, Score(p) PROVE TypeInv'
  BY <1>3, ScoreTyped
<1>4. ASSUME NEW p \in Sources, Store(p) \/ FailStore(p) PROVE TypeInv'
  BY <1>4, StoringTyped
<1>5. ASSUME NEW p \in Sources, Alert(p) PROVE TypeInv'
  <2>. DEFINE s == source[p].series
              sample == [id |-> source[p].id, anomalous |-> source[p].verdict]
  <2>1. s \in Series /\ sample \in HeardType
        /\ heard' = [heard EXCEPT ![s] = Append(@, sample)]
        /\ UNCHANGED <<now, storage, detector, loop, hist, faults>>
    BY <1>5, AlertDoes
  <2>2. PICK y : source' = [source EXCEPT ![p] = y] /\ Waiting(y, p)
    BY <1>5, AlertDoes
  <2>3. SourcesOK'
    BY <2>2, OneSourceMoves
  <2>. HIDE DEF s, sample
  <2>4. heard \in [Series -> Seq(HeardType)]
    BY DEF TypeInv
  <2>5. Append(heard[s], sample) \in Seq(HeardType)
    BY <2>1, <2>4, Appended
  <2>6. heard' \in [Series -> Seq(HeardType)]
    BY <2>1, <2>4, <2>5
  <2>. QED
    BY <2>1, <2>3, <2>6 DEF TypeInv, SourcesOK
<1>6. CASE Tick
  BY <1>6, TickDoes DEF TypeInv, LoopType
<1>7. CASE Train
  <2>1. loop' \in LoopType /\ loop'.todo \subseteq ToSet(created)
    <3>1. CASE \E m \in ModelType : loop' = [loop EXCEPT !.model = <<m>>]
      <4>1. PICK m \in ModelType : loop' = [loop EXCEPT !.model = <<m>>]
        BY <3>1
      <4>2. <<m>> \in Seq(ModelType)
        OBVIOUS
      <4>. QED
        BY <4>1, <4>2 DEF TypeInv, LoopType
    <3>2. CASE loop' = [loop EXCEPT !.todo = @ \ {Visited}]
      BY <3>2 DEF TypeInv, LoopType
    <3>. QED
      BY <1>7, <3>1, <3>2, TrainDoes
  <2>. QED
    BY <1>7, <2>1, TrainDoes DEF TypeInv
<1>8. CASE AddModel
  <2>1. loop' \in LoopType /\ loop'.todo \subseteq ToSet(created)
    <3>1. <<>> \in Seq(ModelType)
      BY EmptySeq
    <3>. QED
      BY <1>8, <3>1, AddModelDoes DEF TypeInv, LoopType
  <2>. QED
    BY <1>8, <2>1, AddModelDoes DEF TypeInv
<1>9. CASE FailTrain
  <2>1. loop' \in LoopType /\ loop'.todo \subseteq ToSet(created)
    BY <1>9 DEF FailTrain, TypeInv, LoopType
  <2>. QED
    BY <1>9, <2>1 DEF FailTrain, TypeInv
<1>10. CASE Restart
  <2>1. \A p \in Sources : Waiting(source'[p], p)
    BY <1>10, RestartDoes DEF Waiting
  <2>2. Asleep \in LoopType /\ Asleep.todo = {}
    BY EmptySeq, DetectorAssumption DEF Asleep, LoopType
  <2>3. /\ <<>> \in Seq(Nat) /\ <<>> \in Seq(ModelType) /\ <<>> \in Seq(HeardType)
    BY EmptySeq
  <2>4. \A s \in Series : Bounded(ring'[s])
    <3>1. \A s \in Series : Held(ring'[s]) \subseteq Held(ring[s])
      BY <1>10, RestartDoes
    <3>2. \A s \in Series : Bounded(ring[s])
      BY DEF TypeInv
    <3>. QED
      BY <3>1, <3>2 DEF Bounded
  <2>5. DOMAIN source' = Sources /\ now' = now
    BY <1>10, RestartDoes
  <2>6. created' \in Seq(Series) /\ ring' \in [Series -> RingType]
        /\ hist' \in [Series -> HistType] /\ loop' = Asleep
    BY <1>10, RestartDoes
  <2>7. buffer' \in [Series -> Seq(Nat)] /\ models' \in [Series -> Seq(ModelType)]
        /\ heard' \in [Series -> Seq(HeardType)]
    <3>1. /\ buffer' = [s \in Series |-> <<>>] /\ models' = [s \in Series |-> <<>>]
          /\ heard' = [s \in Series |-> <<>>]
      BY <1>10, RestartDoes
    <3>. QED
      BY <2>3, <3>1
  <2>. QED
    BY <2>1, <2>2, <2>4, <2>5, <2>6, <2>7 DEF TypeInv
<1>11. CASE UNCHANGED vars
  BY <1>11 DEF vars, TypeInv
<1>. QED
  BY <1>1, <1>2, <1>3, <1>4, <1>5, <1>6, <1>7, <1>8, <1>9, <1>10, <1>11
  DEF Next, Handle, Retrain

LEMMA TypeAlways == Spec => []TypeInv
BY TypeInit, TypeStep, PTL DEF Spec

-----------------------------------------------------------------------------
(* From the score to the alert engine *)

\* A source has scored a sample and has still to hand it on.
HasInHand(p, s, i) == source[p].step > 1 /\ source[p].series = s /\ source[p].id = i

\* What the alert engine was given of a series came once each, scored as it
\* was given.
HeardOK(s) ==
    /\ \A k \in DOMAIN heard[s] :
          /\ heard[s][k].id \in Ids(s) /\ heard[s][k].id > hist[s].base
          /\ heard[s][k].anomalous = hist[s].verdicts[heard[s][k].id]
    /\ \A j, k \in DOMAIN heard[s] : heard[s][j].id = heard[s][k].id => j = k

StoredOK(s) ==
    \A x \in Held(ring[s]) : x.id \in Ids(s) /\ x.anomalous = hist[s].verdicts[x.id]

HandOK(p) ==
    source[p].step > 1 =>
        LET s == source[p].series
            i == source[p].id
        IN  /\ i \in Ids(s) /\ i > hist[s].base /\ source[p].verdict = hist[s].verdicts[i]
            /\ \A k \in DOMAIN heard[s] : heard[s][k].id # i

\* No sample is in two hands, and each is in a hand or handed on.
OneHand ==
    \A p, q \in Sources, s \in Series :
        \A i \in Ids(s) : HasInHand(p, s, i) /\ HasInHand(q, s, i) => p = q
Accounted(s) ==
    \A i \in Ids(s) : i > hist[s].base =>
        \/ \E k \in DOMAIN heard[s] : heard[s][k].id = i
        \/ \E p \in Sources : HasInHand(p, s, i)

FlightInv ==
    /\ \A s \in Series : hist[s].base <= Len(hist[s].verdicts)
    /\ \A s \in Series : HeardOK(s) /\ StoredOK(s) /\ Accounted(s)
    /\ \A p \in Sources : HandOK(p)
    /\ OneHand

LEMMA FlightInit == Init => FlightInv
<1>. SUFFICES ASSUME Init PROVE FlightInv
  OBVIOUS
<1>1. \A s \in Series : hist[s] = NoHistory /\ heard[s] = <<>> /\ Held(ring[s]) = {}
  BY DEF Init, EmptyRing, Held, OnDisk
<1>2. \A p \in Sources : source[p].step = 0
  BY DEF Init, Idle
<1>3. Len(NoHistory.verdicts) = 0 /\ NoHistory.base = 0 /\ DOMAIN <<>> = {}
  BY EmptySeq DEF NoHistory
<1>4. \A s \in Series : Ids(s) = {}
  BY <1>1, <1>3 DEF Ids
<1>. QED
  BY <1>1, <1>2, <1>3, <1>4
  DEF FlightInv, HeardOK, StoredOK, Accounted, HandOK, OneHand, HasInHand

\* A sample more is scored.
LEMMA OneMoreScored ==
    ASSUME TypeInv, NEW p \in Sources, Score(p), NEW s \in Series
    PROVE  LET n == Len(hist[s].verdicts)
           IN  /\ hist'[s].base = hist[s].base /\ hist'[s].missed = hist[s].missed
               /\ hist'[s].wiped = hist[s].wiped
               /\ hist'[s].gap = hist[s].gap /\ hist'[s].shifts = hist[s].shifts
               /\ Ids(s) \subseteq Ids(s)'
               /\ \A i \in Ids(s) : hist'[s].verdicts[i] = hist[s].verdicts[i]
               /\ Ids(s)' = IF s = source[p].series THEN Ids(s) \cup {n + 1} ELSE Ids(s)
               /\ Len(hist'[s].verdicts) = IF s = source[p].series THEN n + 1 ELSE n
               /\ s = source[p].series => hist'[s].verdicts[n + 1] = source'[p].verdict
               /\ Ids(s) = 1..n /\ n \in Nat
<1>. DEFINE r == source[p].series
            n == Len(hist[r].verdicts)
<1>1. PICK verdict \in BOOLEAN : \E y :
        /\ source' = [source EXCEPT ![p] = y] /\ y.verdict = verdict
        /\ hist' = [hist EXCEPT ![r] =
               [hist[r] EXCEPT !.verdicts = Append(@, verdict),
                               !.known = IF TrainedOn(r, n + 1) THEN @ \cup {n + 1} ELSE @]]
  BY ScoreDoes, ZenonT(40)
<1>2. r \in Series /\ hist[r] \in HistType /\ hist[r].verdicts \in Seq(BOOLEAN)
  BY ScoreDoes, HistFields
<1>3. source'[p].verdict = verdict
  BY <1>1 DEF TypeInv
<1>4. hist \in [Series -> HistType]
  BY DEF TypeInv
<1>. HIDE DEF r
<1>5. CASE s = r
  <2>1. /\ hist'[s].base = hist[s].base /\ hist'[s].missed = hist[s].missed
        /\ hist'[s].wiped = hist[s].wiped
        /\ hist'[s].gap = hist[s].gap /\ hist'[s].shifts = hist[s].shifts
        /\ hist'[s].verdicts = Append(hist[s].verdicts, verdict)
    BY <1>1, <1>2, <1>4, <1>5 DEF HistType
  <2>2. /\ Len(hist'[s].verdicts) = n + 1 /\ n \in Nat
        /\ \A i \in 1..n : hist'[s].verdicts[i] = hist[s].verdicts[i]
        /\ hist'[s].verdicts[n + 1] = verdict
    BY <1>2, <1>5, <2>1, Appended
  <2>3. 1..(n + 1) = 1..n \cup {n + 1} /\ 1..n \subseteq 1..(n + 1)
    BY <2>2
  <2>4. Ids(s) = 1..n /\ Ids(s)' = 1..(n + 1)
    BY <1>5, <2>2 DEF Ids
  <2>. QED
    BY <1>3, <1>5, <2>1, <2>2, <2>3, <2>4 DEF r
<1>6. CASE s # r
  <2>1. hist'[s] = hist[s]
    BY <1>1, <1>4, <1>6
  <2>2. Len(hist[s].verdicts) \in Nat
    BY HistFields
  <2>. QED
    BY <1>6, <2>1, <2>2 DEF Ids, r
<1>. QED
  BY <1>5, <1>6

LEMMA ScoreInFlight ==
    ASSUME TypeInv, FlightInv, NEW p \in Sources, Score(p)
    PROVE  FlightInv'
<1>0. PICK r \in Series, n \in Nat : r = source[p].series /\ n = Len(hist[r].verdicts)
  BY ScoreDoes, HistFields
<1>1. source[p].step = 1 /\ heard' = heard /\ ring' = ring
  BY ScoreDoes DEF storage
<1>2. PICK y : source' = [source EXCEPT ![p] = y] /\ y.step = 2 /\ y.series = r /\ y.id = n + 1
  BY <1>0, ScoreDoes
<1>3. source'[p] = y /\ \A q \in Sources \ {p} : source'[q] = source[q]
  BY <1>2, OneSourceMoves
<1>4. \A q \in Sources, s \in Series : \A i \in Ids(s) : HasInHand(q, s, i)' <=> HasInHand(q, s, i)
  <2>. SUFFICES ASSUME NEW q \in Sources, NEW s \in Series, NEW i \in Ids(s)
                PROVE  HasInHand(q, s, i)' <=> HasInHand(q, s, i)
    OBVIOUS
  <2>1. CASE q = p
    <3>1. ~HasInHand(p, s, i)
      BY <1>1 DEF HasInHand
    <3>2. s = r => i # n + 1
      <4>1. s = r => i \in 1..n /\ n \in Nat
        BY <1>0 DEF Ids
      <4>. QED
        BY <4>1
    <3>3. ~HasInHand(p, s, i)'
      BY <1>2, <1>3, <3>2 DEF HasInHand
    <3>. QED
      BY <2>1, <3>1, <3>3
  <2>2. CASE q # p
    BY <1>3, <2>2 DEF HasInHand
  <2>. QED
    BY <2>1, <2>2
<1>5. HasInHand(p, r, n + 1)'
  BY <1>2, <1>3 DEF HasInHand
<1>6. \A q \in Sources \ {p} : ~HasInHand(q, r, n + 1)'
  <2>. SUFFICES ASSUME NEW q \in Sources, q # p, HasInHand(q, r, n + 1)' PROVE FALSE
    OBVIOUS
  <2>1. source[q].step > 1 /\ source[q].series = r /\ source[q].id = n + 1
    BY <1>3 DEF HasInHand
  <2>2. n + 1 \in Ids(r)
    BY <2>1 DEF FlightInv, HandOK
  <2>3. n \in Nat /\ Ids(r) = 1..n
    BY <1>0 DEF Ids
  <2>. QED
    BY <2>2, <2>3
<1>7. \A s \in Series : hist'[s].base <= Len(hist'[s].verdicts)
  <2>. SUFFICES ASSUME NEW s \in Series PROVE hist'[s].base <= Len(hist'[s].verdicts)
    OBVIOUS
  <2>1. hist'[s].base = hist[s].base /\ Len(hist[s].verdicts) \in Nat /\ hist[s].base \in Nat
        /\ (Len(hist'[s].verdicts) = Len(hist[s].verdicts)
            \/ Len(hist'[s].verdicts) = Len(hist[s].verdicts) + 1)
    BY OneMoreScored, HistFields
  <2>2. hist[s].base <= Len(hist[s].verdicts)
    BY DEF FlightInv
  <2>. QED
    BY <2>1, <2>2
<1>8. ASSUME NEW s \in Series
      PROVE  HeardOK(s)' /\ StoredOK(s)' /\ Accounted(s)'
  <2>1. /\ hist'[s].base = hist[s].base
        /\ Ids(s) \subseteq Ids(s)'
        /\ \A i \in Ids(s) : hist'[s].verdicts[i] = hist[s].verdicts[i]
        /\ Ids(s)' = IF s = r THEN Ids(s) \cup {n + 1} ELSE Ids(s)
    BY <1>0, OneMoreScored
  <2>2. HeardOK(s) /\ StoredOK(s) /\ Accounted(s)
    BY DEF FlightInv
  <2>3. HeardOK(s)'
    BY <1>1, <2>1, <2>2 DEF HeardOK
  <2>4. StoredOK(s)'
    BY <1>1, <2>1, <2>2 DEF StoredOK
  <2>5. Accounted(s)'
    <3>. SUFFICES ASSUME NEW i \in Ids(s)', i > hist'[s].base
                  PROVE  \/ \E k \in DOMAIN heard'[s] : heard'[s][k].id = i
                         \/ \E q \in Sources : HasInHand(q, s, i)'
      BY DEF Accounted
    <3>1. CASE i \in Ids(s)
      BY <1>1, <1>4, <2>1, <2>2, <3>1 DEF Accounted
    <3>2. CASE i \notin Ids(s)
      <4>1. s = r /\ i = n + 1
        BY <2>1, <3>2
      <4>. QED
        BY <1>5, <4>1
    <3>. QED
      BY <3>1, <3>2
  <2>. QED
    BY <2>3, <2>4, <2>5
<1>9. ASSUME NEW q \in Sources PROVE HandOK(q)'
  <2>1. CASE q = p
    <3>1. Ids(r)' = Ids(r) \cup {n + 1} /\ hist'[r].verdicts[n + 1] = y.verdict
          /\ hist'[r].base = hist[r].base /\ Ids(r) = 1..n /\ n \in Nat
      BY <1>0, <1>3, OneMoreScored
    <3>2. n + 1 > hist[r].base
      <4>1. hist[r].base <= n /\ hist[r].base \in Nat
        BY <1>0, HistFields DEF FlightInv
      <4>. QED
        BY <3>1, <4>1
    <3>3. \A k \in DOMAIN heard[r] : heard[r][k].id # n + 1
      <4>1. \A k \in DOMAIN heard[r] : heard[r][k].id \in 1..n
        BY <1>0, <3>1 DEF FlightInv, HeardOK
      <4>. QED
        BY <3>1, <4>1
    <3>. QED
      BY <1>1, <1>2, <1>3, <2>1, <3>1, <3>2, <3>3 DEF HandOK
  <2>2. CASE q # p /\ source[q].step > 1
    <3>1. PICK s \in Series, i \in Nat : s = source[q].series /\ i = source[q].id
      BY <2>2, SourceFields
    <3>2. /\ i \in Ids(s) /\ i > hist[s].base /\ source[q].verdict = hist[s].verdicts[i]
          /\ \A k \in DOMAIN heard[s] : heard[s][k].id # i
      BY <2>2, <3>1 DEF FlightInv, HandOK
    <3>3. /\ hist'[s].base = hist[s].base /\ Ids(s) \subseteq Ids(s)'
          /\ \A j \in Ids(s) : hist'[s].verdicts[j] = hist[s].verdicts[j]
      BY OneMoreScored
    <3>4. source'[q] = source[q]
      BY <1>3, <2>2
    <3>5. /\ i \in Ids(s)' /\ i > hist'[s].base /\ source'[q].verdict = hist'[s].verdicts[i]
          /\ \A k \in DOMAIN heard'[s] : heard'[s][k].id # i
      BY <1>1, <3>2, <3>3, <3>4
    <3>. QED
      BY <3>1, <3>4, <3>5 DEF HandOK
  <2>3. CASE q # p /\ ~(source[q].step > 1)
    BY <1>3, <2>3 DEF HandOK
  <2>. QED
    BY <2>1, <2>2, <2>3
<1>10. OneHand'
  <2>. SUFFICES ASSUME NEW q1 \in Sources, NEW q2 \in Sources, NEW s \in Series,
                       NEW i \in Ids(s)', HasInHand(q1, s, i)', HasInHand(q2, s, i)'
                PROVE  q1 = q2
    BY DEF OneHand
  <2>1. CASE i \in Ids(s)
    BY <1>4, <2>1 DEF FlightInv, OneHand
  <2>2. CASE i \notin Ids(s)
    <3>1. s = r /\ i = n + 1
      BY <1>0, <2>2, OneMoreScored
    <3>. QED
      BY <1>6, <3>1
  <2>. QED
    BY <2>1, <2>2
<1>. QED
  BY <1>7, <1>8, <1>9, <1>10 DEF FlightInv

LEMMA StoringInFlight ==
    ASSUME TypeInv, FlightInv, NEW p \in Sources, Store(p) \/ FailStore(p)
    PROVE  FlightInv'
<1>1. PICK s \in Series, i \in Nat : s = source[p].series /\ i = source[p].id
  BY StoringDoes, SourceFields
<1>. DEFINE point == PointOf(source[p])
<1>2. /\ source[p].step = 2 /\ point \in PointType /\ heard' = heard
      /\ \A r \in Series : hist'[r].verdicts = hist[r].verdicts /\ hist'[r].base = hist[r].base
  BY <1>1, StoringDoes
<1>3. PICK y : /\ source' = [source EXCEPT ![p] = y] /\ y.step = 3 /\ y.series = s /\ y.id = i
               /\ y.verdict = source[p].verdict
  BY <1>1, StoringDoes
<1>13. PICK new \in RingType :
          ring' = [ring EXCEPT ![s] = new] /\ Held(new) \subseteq Held(ring[s]) \cup {point}
  BY <1>1, StoringDoes
<1>4. source'[p] = y /\ \A q \in Sources \ {p} : source'[q] = source[q]
  BY <1>3, OneSourceMoves
<1>5. \A q \in Sources :
         /\ source'[q].step > 1 <=> source[q].step > 1
         /\ source[q].step > 1 =>
               /\ source'[q].series = source[q].series /\ source'[q].id = source[q].id
               /\ source'[q].verdict = source[q].verdict
  BY <1>1, <1>2, <1>3, <1>4
<1>6. \A r \in Series : Ids(r)' = Ids(r)
  BY <1>2 DEF Ids
<1>7. i \in Ids(s) /\ point.anomalous = hist[s].verdicts[i] /\ point.id = i
  <2>1. HandOK(p)
    BY DEF FlightInv
  <2>. QED
    BY <1>1, <1>2, <2>1 DEF HandOK, PointOf
<1>. HIDE DEF point
<1>8. \A r \in Series : HeardOK(r)' /\ Accounted(r)'
  BY <1>2, <1>5, <1>6 DEF FlightInv, HeardOK, Accounted, HasInHand
<1>9. ASSUME NEW r \in Series PROVE StoredOK(r)'
  <2>1. StoredOK(r) /\ StoredOK(s) /\ ring \in [Series -> RingType]
    BY DEF FlightInv, TypeInv
  <2>2. CASE r # s
    <3>1. ring'[r] = ring[r]
      BY <1>13, <2>1, <2>2
    <3>. QED
      BY <1>2, <1>6, <2>1, <3>1 DEF StoredOK
  <2>3. CASE r = s
    <3>1. Held(ring'[s]) \subseteq Held(ring[s]) \cup {point}
      BY <1>13, <2>1
    <3>2. \A x \in Held(ring[s]) \cup {point} :
             x.id \in Ids(s) /\ x.anomalous = hist[s].verdicts[x.id]
      BY <1>7, <2>1 DEF StoredOK
    <3>. QED
      BY <1>2, <1>6, <2>3, <3>1, <3>2 DEF StoredOK
  <2>. QED
    BY <2>2, <2>3
<1>10. ASSUME NEW q \in Sources PROVE HandOK(q)'
  <2>1. CASE source[q].step > 1
    <3>1. PICK r \in Series, j \in Nat : r = source[q].series /\ j = source[q].id
      BY <2>1, SourceFields
    <3>2. /\ j \in Ids(r) /\ j > hist[r].base /\ source[q].verdict = hist[r].verdicts[j]
          /\ \A k \in DOMAIN heard[r] : heard[r][k].id # j
      BY <2>1, <3>1 DEF FlightInv, HandOK
    <3>3. source'[q].series = r /\ source'[q].id = j /\ source'[q].verdict = source[q].verdict
      BY <1>5, <2>1, <3>1
    <3>. QED
      BY <1>2, <1>6, <3>2, <3>3 DEF HandOK
  <2>2. CASE ~(source[q].step > 1)
    BY <1>5, <2>2 DEF HandOK
  <2>. QED
    BY <2>1, <2>2
<1>11. OneHand'
  BY <1>5, <1>6 DEF FlightInv, OneHand, HasInHand
<1>12. \A r \in Series : hist'[r].base <= Len(hist'[r].verdicts)
  BY <1>2 DEF FlightInv
<1>. QED
  BY <1>8, <1>9, <1>10, <1>11, <1>12 DEF FlightInv

LEMMA AlertInFlight ==
    ASSUME TypeInv, FlightInv, NEW p \in Sources, Alert(p)
    PROVE  FlightInv'
<1>1. PICK s \in Series, i \in Nat : s = source[p].series /\ i = source[p].id
  BY AlertDoes, SourceFields
<1>. DEFINE sample == [id |-> i, anomalous |-> source[p].verdict]
<1>2. /\ source[p].step = 3 /\ sample \in HeardType /\ hist' = hist /\ ring' = ring
      /\ heard' = [heard EXCEPT ![s] = Append(@, sample)]
  BY <1>1, AlertDoes DEF storage
<1>3. PICK y : source' = [source EXCEPT ![p] = y] /\ Waiting(y, p)
  BY AlertDoes
<1>4. source'[p] = y /\ \A q \in Sources \ {p} : source'[q] = source[q]
  BY <1>3, OneSourceMoves
<1>5. ~(source'[p].step > 1)
  BY <1>3, <1>4 DEF Waiting, Idle
<1>6. /\ i \in Ids(s) /\ i > hist[s].base /\ sample.anomalous = hist[s].verdicts[i]
      /\ sample.id = i /\ \A k \in DOMAIN heard[s] : heard[s][k].id # i
  <2>1. HandOK(p)
    BY DEF FlightInv
  <2>. QED
    BY <1>1, <1>2, <2>1 DEF HandOK
<1>. HIDE DEF sample
<1>7. \A r \in Series : Ids(r)' = Ids(r)
  BY <1>2 DEF Ids
<1>8. heard \in [Series -> Seq(HeardType)]
  BY DEF TypeInv
<1>9. /\ \A r \in Series \ {s} : heard'[r] = heard[r]
      /\ heard'[s] = Append(heard[s], sample)
  BY <1>2, <1>8
<1>. DEFINE n == Len(heard[s])
<1>10. /\ n \in Nat /\ DOMAIN heard[s] = 1..n /\ DOMAIN heard'[s] = 1..(n + 1)
       /\ \A k \in 1..n : heard'[s][k] = heard[s][k]
       /\ heard'[s][n + 1] = sample
  BY <1>2, <1>8, <1>9, Appended
<1>. HIDE DEF n
<1>11. ASSUME NEW r \in Series PROVE HeardOK(r)'
  <2>1. HeardOK(r)
    BY DEF FlightInv
  <2>2. CASE r # s
    BY <1>2, <1>7, <1>9, <2>1, <2>2 DEF HeardOK
  <2>3. CASE r = s
    <3>1. \A k \in 1..(n + 1) : k \in 1..n \/ k = n + 1
      BY <1>10
    <3>2. \A k \in DOMAIN heard'[s] :
              /\ heard'[s][k].id \in Ids(s) /\ heard'[s][k].id > hist[s].base
              /\ heard'[s][k].anomalous = hist[s].verdicts[heard'[s][k].id]
      <4>1. \A k \in 1..n :
               /\ heard[s][k].id \in Ids(s) /\ heard[s][k].id > hist[s].base
               /\ heard[s][k].anomalous = hist[s].verdicts[heard[s][k].id]
        BY <1>10, <2>1, <2>3 DEF HeardOK
      <4>. QED
        BY <1>6, <1>10, <3>1, <4>1
    <3>3. ASSUME NEW j \in DOMAIN heard'[s], NEW k \in DOMAIN heard'[s],
                 heard'[s][j].id = heard'[s][k].id
          PROVE  j = k
      <4>1. \A l \in 1..n : heard'[s][l].id # i
        BY <1>6, <1>10
      <4>2. \A l, m \in 1..n : heard'[s][l].id = heard'[s][m].id => l = m
        BY <1>10, <2>1, <2>3 DEF HeardOK
      <4>3. heard'[s][n + 1].id = i
        BY <1>6, <1>10
      <4>. QED
        BY <1>10, <3>1, <3>3, <4>1, <4>2, <4>3
    <3>. QED
      BY <1>2, <1>7, <2>3, <3>2, <3>3 DEF HeardOK
  <2>. QED
    BY <2>2, <2>3
<1>12. ASSUME NEW r \in Series PROVE Accounted(r)'
  <2>. SUFFICES ASSUME NEW j \in Ids(r), j > hist[r].base
                PROVE  \/ \E k \in DOMAIN heard'[r] : heard'[r][k].id = j
                       \/ \E q \in Sources : HasInHand(q, r, j)'
    BY <1>2, <1>7 DEF Accounted
  <2>1. \/ \E k \in DOMAIN heard[r] : heard[r][k].id = j
        \/ \E q \in Sources : HasInHand(q, r, j)
    BY DEF FlightInv, Accounted
  <2>2. CASE \E k \in DOMAIN heard[r] : heard[r][k].id = j
    <3>1. PICK k \in DOMAIN heard[r] : heard[r][k].id = j
      BY <2>2
    <3>2. k \in DOMAIN heard'[r] /\ heard'[r][k] = heard[r][k]
      <4>1. CASE r = s
        BY <1>10, <3>1, <4>1
      <4>2. CASE r # s
        BY <1>9, <3>1, <4>2
      <4>. QED
        BY <4>1, <4>2
    <3>. QED
      BY <3>1, <3>2
  <2>3. CASE HasInHand(p, r, j)
    <3>1. r = s /\ j = i
      BY <1>1, <2>3 DEF HasInHand
    <3>2. n + 1 \in DOMAIN heard'[s] /\ heard'[s][n + 1].id = i
      BY <1>6, <1>10
    <3>. QED
      BY <3>1, <3>2
  <2>4. CASE \E q \in Sources \ {p} : HasInHand(q, r, j)
    BY <1>4, <2>4 DEF HasInHand
  <2>. QED
    BY <2>1, <2>2, <2>3, <2>4
<1>13. ASSUME NEW q \in Sources PROVE HandOK(q)'
  <2>1. CASE q = p
    BY <1>5, <2>1 DEF HandOK
  <2>2. CASE q # p /\ source[q].step > 1
    <3>1. PICK r \in Series, j \in Nat : r = source[q].series /\ j = source[q].id
      BY <2>2, SourceFields
    <3>2. /\ j \in Ids(r) /\ j > hist[r].base /\ source[q].verdict = hist[r].verdicts[j]
          /\ \A k \in DOMAIN heard[r] : heard[r][k].id # j
      BY <2>2, <3>1 DEF FlightInv, HandOK
    <3>3. r = s => j # i
      <4>1. HasInHand(p, s, i)
        BY <1>1, <1>2 DEF HasInHand
      <4>2. HasInHand(q, r, j)
        BY <2>2, <3>1 DEF HasInHand
      <4>. QED
        BY <1>6, <2>2, <4>1, <4>2 DEF FlightInv, OneHand
    <3>4. \A k \in DOMAIN heard'[r] : heard'[r][k].id # j
      <4>1. CASE r # s
        BY <1>9, <3>2, <4>1
      <4>2. CASE r = s
        <5>1. \A k \in 1..(n + 1) : k \in 1..n \/ k = n + 1
          BY <1>10
        <5>. QED
          BY <1>6, <1>10, <3>2, <3>3, <4>2, <5>1
      <4>. QED
        BY <4>1, <4>2
    <3>5. source'[q] = source[q]
      BY <1>4, <2>2
    <3>. QED
      BY <1>2, <1>7, <3>1, <3>2, <3>4, <3>5 DEF HandOK
  <2>3. CASE q # p /\ ~(source[q].step > 1)
    BY <1>4, <2>3 DEF HandOK
  <2>. QED
    BY <2>1, <2>2, <2>3
<1>14. OneHand'
  <2>. SUFFICES ASSUME NEW q1 \in Sources, NEW q2 \in Sources, NEW r \in Series,
                       NEW j \in Ids(r), HasInHand(q1, r, j)', HasInHand(q2, r, j)'
                PROVE  q1 = q2
    BY <1>7 DEF OneHand
  <2>1. q1 # p /\ q2 # p
    BY <1>5 DEF HasInHand
  <2>2. HasInHand(q1, r, j) /\ HasInHand(q2, r, j)
    BY <1>4, <2>1 DEF HasInHand
  <2>. QED
    BY <2>2 DEF FlightInv, OneHand
<1>15. \A r \in Series : StoredOK(r)' /\ hist'[r].base <= Len(hist'[r].verdicts)
  BY <1>2, <1>7 DEF FlightInv, StoredOK
<1>. QED
  BY <1>11, <1>12, <1>13, <1>14, <1>15 DEF FlightInv

LEMMA BeginRoundInFlight ==
    ASSUME TypeInv, FlightInv, NEW p \in Sources, BeginRound(p)
    PROVE  FlightInv'
<1>1. PICK y : source' = [source EXCEPT ![p] = y] /\ Waiting(y, p)
  BY BeginRoundDoes
<1>2. source'[p] = y /\ \A q \in Sources \ {p} : source'[q] = source[q]
  BY <1>1, OneSourceMoves
<1>3. heard' = heard /\ ring' = ring /\ hist' = hist /\ source[p] = Idle
  BY BeginRoundDoes DEF storage
<1>4. ~(source'[p].step > 1) /\ ~(source[p].step > 1)
  BY <1>1, <1>2, <1>3 DEF Waiting, Idle
<1>5. \A q \in Sources :
         /\ source'[q].step > 1 <=> source[q].step > 1
         /\ source[q].step > 1 => source'[q] = source[q]
  BY <1>2, <1>4
<1>6. \A r \in Series : Ids(r)' = Ids(r)
  BY <1>3 DEF Ids
<1>7. \A q \in Sources, s \in Series : \A i \in Ids(s) : HasInHand(q, s, i)' <=> HasInHand(q, s, i)
  BY <1>5 DEF HasInHand
<1>8. \A q \in Sources : HandOK(q)'
  BY <1>3, <1>5 DEF FlightInv, HandOK, Ids
<1>9. \A r \in Series : HeardOK(r)' /\ StoredOK(r)' /\ Accounted(r)'
  BY <1>3, <1>6, <1>7 DEF FlightInv, HeardOK, StoredOK, Accounted
<1>10. OneHand'
  BY <1>6, <1>7 DEF FlightInv, OneHand
<1>. QED
  BY <1>3, <1>8, <1>9, <1>10 DEF FlightInv

\* After a restart nothing is in hand and nothing has been heard.
LEMMA RestartInFlight ==
    ASSUME TypeInv, FlightInv, Restart
    PROVE  FlightInv'
<1>1. ASSUME NEW s \in Series
      PROVE  /\ hist'[s].verdicts = hist[s].verdicts
             /\ hist'[s].base = Len(hist[s].verdicts)
             /\ Ids(s)' = Ids(s) /\ Len(hist[s].verdicts) \in Nat
             /\ DOMAIN heard'[s] = {}
  <2>1. hist'[s] = [hist[s] EXCEPT !.base = Len(hist[s].verdicts), !.gap = 0, !.shifts = 0]
    BY RestartDoes
  <2>2. hist[s] \in HistType /\ Len(hist[s].verdicts) \in Nat
    BY HistFields
  <2>3. hist'[s].verdicts = hist[s].verdicts /\ hist'[s].base = Len(hist[s].verdicts)
    BY <2>1, <2>2 DEF HistType
  <2>4. heard'[s] = <<>>
    BY RestartDoes
  <2>. QED
    BY <2>2, <2>3, <2>4 DEF Ids
<1>2. \A p \in Sources : ~(source'[p].step > 1)
  <2>1. source' = [p \in Sources |-> Idle]
    BY RestartDoes
  <2>. QED
    BY <2>1 DEF Idle
<1>3. ASSUME NEW s \in Series PROVE HeardOK(s)' /\ StoredOK(s)' /\ Accounted(s)'
  <2>1. StoredOK(s)'
    <3>1. Held(ring'[s]) \subseteq Held(ring[s])
      BY RestartDoes
    <3>2. StoredOK(s)
      BY DEF FlightInv
    <3>. QED
      BY <1>1, <3>1, <3>2 DEF StoredOK
  <2>2. HeardOK(s)'
    BY <1>1 DEF HeardOK
  <2>3. \A i \in Ids(s)' : ~(i > hist'[s].base)
    BY <1>1 DEF Ids
  <2>4. Accounted(s)'
    BY <2>3 DEF Accounted
  <2>. QED
    BY <2>1, <2>2, <2>4
<1>4. \A s \in Series : hist'[s].base <= Len(hist'[s].verdicts)
  BY <1>1
<1>5. \A p \in Sources : HandOK(p)'
  BY <1>2 DEF HandOK
<1>6. OneHand'
  BY <1>2 DEF OneHand, HasInHand
<1>. QED
  BY <1>3, <1>4, <1>5, <1>6 DEF FlightInv

\* The steps of the retraining loop have nothing to do with it.
LEMMA OthersInFlight ==
    ASSUME TypeInv, FlightInv, UNCHANGED <<source, heard, ring>>,
           \A s \in Series : hist'[s].verdicts = hist[s].verdicts /\ hist'[s].base = hist[s].base
    PROVE  FlightInv'
<1>1. \A r \in Series : Ids(r)' = Ids(r)
  BY DEF Ids
<1>2. \A q \in Sources, s \in Series : \A i : HasInHand(q, s, i)' <=> HasInHand(q, s, i)
  BY DEF HasInHand
<1>3. ASSUME NEW q \in Sources PROVE HandOK(q)'
  <2>1. CASE source[q].step > 1
    <3>1. source[q].series \in Series
      BY <2>1, SourceFields
    <3>. QED
      BY <1>1, <2>1, <3>1 DEF FlightInv, HandOK, Ids
  <2>2. CASE ~(source[q].step > 1)
    BY <2>2 DEF HandOK
  <2>. QED
    BY <2>1, <2>2
<1>4. \A r \in Series : HeardOK(r)' /\ StoredOK(r)' /\ Accounted(r)'
  BY <1>1, <1>2 DEF FlightInv, HeardOK, StoredOK, Accounted
<1>5. OneHand'
  BY <1>1, <1>2 DEF FlightInv, OneHand
<1>6. \A r \in Series : hist'[r].base <= Len(hist'[r].verdicts)
  BY DEF FlightInv
<1>. QED
  BY <1>3, <1>4, <1>5, <1>6 DEF FlightInv

\* A tick of the loop changes what is remembered of the visits only.
LEMMA TickRemembers ==
    ASSUME TypeInv, Tick, NEW s \in Series
    PROVE  /\ hist'[s].verdicts = hist[s].verdicts /\ hist'[s].base = hist[s].base
           /\ hist'[s].missed = hist[s].missed /\ hist'[s].known = hist[s].known
           /\ hist'[s].wiped = hist[s].wiped
           /\ s \in DueSeries(loop.tick) => hist'[s].gap = 0 /\ hist'[s].shifts = 0
           /\ s \notin DueSeries(loop.tick) =>
                 /\ hist'[s].shifts = hist[s].shifts
                 /\ hist'[s].gap = IF s \in ToSet(created) THEN hist[s].gap + 1 ELSE hist[s].gap
<1>1. hist[s] \in HistType
  BY HistFields
<1>2. hist'[s] = IF s \in DueSeries(loop.tick) THEN [hist[s] EXCEPT !.gap = 0, !.shifts = 0]
                 ELSE IF s \in ToSet(created) THEN [hist[s] EXCEPT !.gap = @ + 1]
                 ELSE hist[s]
  BY TickDoes
<1>. QED
  BY <1>1, <1>2 DEF HistType

LEMMA FlightStep == TypeInv /\ FlightInv /\ [Next]_vars => FlightInv'
<1>. SUFFICES ASSUME TypeInv, FlightInv, [Next]_vars PROVE FlightInv'
  OBVIOUS
<1>1. CASE Advance \/ Train \/ AddModel \/ FailTrain \/ UNCHANGED vars
  <2>1. UNCHANGED <<source, heard, ring, hist>>
    BY <1>1, TrainDoes, AddModelDoes DEF Advance, FailTrain, vars, ingest, storage
  <2>. QED
    BY <2>1, OthersInFlight
<1>2. CASE Tick
  <2>1. UNCHANGED <<source, heard, ring>>
    BY <1>2, TickDoes DEF ingest, storage
  <2>. QED
    BY <1>2, <2>1, TickRemembers, OthersInFlight
<1>3. CASE Restart
  BY <1>3, RestartInFlight
<1>4. CASE \E p \in Sources : BeginRound(p) \/ Handle(p) \/ FailStore(p)
  BY <1>4, BeginRoundInFlight, ScoreInFlight, StoringInFlight, AlertInFlight DEF Handle
<1>. QED
  BY <1>1, <1>2, <1>3, <1>4 DEF Next, Retrain

LEMMA FlightAlways == Spec => [](TypeInv /\ FlightInv)
BY TypeInit, TypeStep, FlightInit, FlightStep, PTL DEF Spec

\* The alert engine is given every sample that was scored, once, with the
\* verdict it was scored and stored with, whatever becomes of it in the store:
\* for any sources, in whatever order they take turns (main's handleSample and
\* Pipeline.Ingest).
THEOREM AlertsAlwaysHearAll == Spec => []AlertsHearAll
<1>1. TypeInv /\ FlightInv => AlertsHearAll
  <2>. SUFFICES ASSUME TypeInv, FlightInv, NEW s \in Series
                PROVE  LET ids == [i \in DOMAIN heard[s] |-> heard[s][i].id]
                       IN  /\ IsInjective(ids)
                           /\ ToSet(ids) \cup InFlight(s)
                                  = {i \in Ids(s) : i > hist[s].base} \cup InFlight(s)
                           /\ \A x \in ToSet(heard[s]) \cup Held(ring[s]) :
                                 x.anomalous = hist[s].verdicts[x.id]
    BY DEF AlertsHearAll
  <2>. DEFINE ids == [i \in DOMAIN heard[s] |-> heard[s][i].id]
  <2>1. HeardOK(s) /\ StoredOK(s) /\ Accounted(s)
    BY DEF FlightInv
  <2>2. IsInjective(ids)
    BY <2>1 DEF HeardOK, IsInjective
  <2>3. ToSet(ids) \subseteq {i \in Ids(s) : i > hist[s].base}
    BY <2>1 DEF HeardOK, ToSet
  <2>4. {i \in Ids(s) : i > hist[s].base} \subseteq ToSet(ids) \cup InFlight(s)
    BY <2>1 DEF Accounted, HasInHand, InFlight, ToSet
  <2>5. \A x \in ToSet(heard[s]) \cup Held(ring[s]) : x.anomalous = hist[s].verdicts[x.id]
    BY <2>1 DEF HeardOK, StoredOK, ToSet
  <2>. QED
    BY <2>2, <2>3, <2>4, <2>5
<1>. QED
  BY <1>1, FlightAlways, PTL

-----------------------------------------------------------------------------
(* The models and the samples they judge *)

\* The newest sample that a model was trained on was scored before.
OfThePast(m) == m \in ModelType /\ m.upTo \in Ids(m.of)

PastInv ==
    /\ \A s \in Series : hist[s].known = {}
    /\ \A s \in Series : \A m \in ToSet(models[s]) : OfThePast(m)
    /\ \A m \in ToSet(loop.model) : OfThePast(m)

LEMMA PastInit == Init => PastInv
<1>. SUFFICES ASSUME Init PROVE PastInv
  OBVIOUS
<1>1. ToSet(<<>>) = {}
  BY EmptySeq DEF ToSet
<1>2. \A s \in Series : hist[s].known = {} /\ models[s] = <<>>
  BY DEF Init, NoHistory
<1>3. loop.model = <<>>
  BY DEF Init, Asleep
<1>. QED
  BY <1>1, <1>2, <1>3 DEF PastInv

\* What was of the past stays so.
LEMMA PastKept ==
    ASSUME TypeInv, \A s \in Series : Ids(s) \subseteq Ids(s)'
    PROVE  \A m : OfThePast(m) => OfThePast(m)'
<1>. SUFFICES ASSUME NEW m, OfThePast(m) PROVE OfThePast(m)'
  OBVIOUS
<1>1. m.of \in Series
  BY DEF OfThePast, ModelType
<1>. QED
  BY <1>1 DEF OfThePast

LEMMA PastStep == TypeInv /\ FlightInv /\ PastInv /\ [Next]_vars => PastInv'
<1>. SUFFICES ASSUME TypeInv, FlightInv, PastInv, [Next]_vars PROVE PastInv'
  OBVIOUS
<1>1. ASSUME NEW p \in Sources, Score(p) PROVE PastInv'
  <2>1. PICK s \in Series, n \in Nat : s = source[p].series /\ n = Len(hist[s].verdicts)
    BY <1>1, ScoreDoes, HistFields
  <2>2. PICK verdict \in BOOLEAN :
          hist' = [hist EXCEPT ![s] =
              [hist[s] EXCEPT !.verdicts = Append(@, verdict),
                              !.known = IF TrainedOn(s, n + 1) THEN @ \cup {n + 1} ELSE @]]
    BY <1>1, <2>1, ScoreDoes
  <2>3. models' = models /\ loop' = loop
    BY <1>1, ScoreDoes
  <2>4. ~TrainedOn(s, n + 1)
    <3>. SUFFICES ASSUME NEW m \in ToSet(models[s]), m = [of |-> s, upTo |-> n + 1]
                  PROVE  FALSE
      BY DEF TrainedOn
    <3>1. m.upTo \in Ids(s) /\ m.upTo = n + 1
      BY DEF PastInv, OfThePast
    <3>2. Ids(s) = 1..n
      BY <2>1 DEF Ids
    <3>. QED
      BY <3>1, <3>2
  <2>5. \A r \in Series : hist'[r].known = {}
    <3>1. hist \in [Series -> HistType] /\ hist[s] \in HistType
      BY DEF TypeInv
    <3>2. hist'[s].known = hist[s].known
      BY <2>2, <2>4, <3>1 DEF HistType
    <3>3. \A r \in Series \ {s} : hist'[r] = hist[r]
      BY <2>2, <3>1
    <3>. QED
      BY <3>2, <3>3 DEF PastInv
  <2>6. \A r \in Series : Ids(r) \subseteq Ids(r)'
    BY <1>1, OneMoreScored
  <2>. QED
    BY <2>3, <2>5, <2>6, PastKept DEF PastInv
<1>2. ASSUME NEW p \in Sources, Store(p) \/ FailStore(p) PROVE PastInv'
  <2>1. models' = models /\ loop' = loop
        /\ \A r \in Series : hist'[r].verdicts = hist[r].verdicts /\ hist'[r].known = hist[r].known
    BY <1>2, StoringDoes DEF detector
  <2>2. \A r \in Series : Ids(r) \subseteq Ids(r)'
    BY <2>1 DEF Ids
  <2>. QED
    BY <2>1, <2>2, PastKept DEF PastInv
<1>3. CASE UNCHANGED <<models, loop, hist>>
  <2>1. \A r \in Series : Ids(r) \subseteq Ids(r)'
    BY <1>3 DEF Ids
  <2>. QED
    BY <1>3, <2>1, PastKept DEF PastInv
<1>4. CASE Tick
  <2>1. models' = models /\ loop' = [loop EXCEPT !.tick = NextTick(@), !.at = now,
                                                 !.todo = DueSeries(loop.tick)]
    BY <1>4, TickDoes DEF detector
  <2>2. loop'.model = loop.model
    BY <2>1 DEF TypeInv, LoopType
  <2>3. \A r \in Series : hist'[r].verdicts = hist[r].verdicts /\ hist'[r].known = hist[r].known
    BY <1>4, TickRemembers
  <2>4. \A r \in Series : Ids(r) \subseteq Ids(r)'
    BY <2>3 DEF Ids
  <2>. QED
    BY <2>1, <2>2, <2>3, <2>4, PastKept DEF PastInv
<1>5. CASE Train
  <2>1. models' = models /\ hist' = hist
    BY <1>5, TrainDoes DEF detector
  <2>2. \A r \in Series : Ids(r)' = Ids(r)
    BY <2>1 DEF Ids
  <2>3. CASE \E m \in ModelType :
                /\ loop' = [loop EXCEPT !.model = <<m>>]
                /\ m.upTo \in IdsOf(Held(ring[m.of]))
    <3>1. PICK m \in ModelType :
                /\ loop' = [loop EXCEPT !.model = <<m>>]
                /\ m.upTo \in IdsOf(Held(ring[m.of]))
      BY <2>3
    <3>2. m.of \in Series
      BY DEF ModelType
    <3>3. StoredOK(m.of)
      BY <3>2 DEF FlightInv
    <3>4. OfThePast(m)
      BY <3>1, <3>2, <3>3 DEF StoredOK, OfThePast, IdsOf
    <3>5. ToSet(<<m>>) = {m}
      BY DEF ToSet
    <3>6. loop'.model = <<m>>
      BY <3>1 DEF TypeInv, LoopType
    <3>7. ToSet(loop.model)' = {m}
      BY <3>5, <3>6
    <3>. QED
      BY <2>1, <2>2, <3>4, <3>7, PastKept DEF PastInv
  <2>4. CASE loop' = [loop EXCEPT !.todo = @ \ {Visited}]
    <3>1. loop'.model = loop.model
      BY <2>4 DEF TypeInv, LoopType
    <3>. QED
      BY <2>1, <2>2, <3>1, PastKept DEF PastInv
  <2>. QED
    BY <1>5, <2>3, <2>4, TrainDoes
<1>6. CASE AddModel
  <2>1. /\ \A s \in Series : ToSet(models'[s]) \subseteq ToSet(models[s]) \cup {Head(loop.model)}
        /\ Head(loop.model) \in ToSet(loop.model)
        /\ loop' = [loop EXCEPT !.todo = @ \ {Visited}, !.model = <<>>]
        /\ hist' = hist
    BY <1>6, AddModelDoes
  <2>2. \A r \in Series : Ids(r)' = Ids(r)
    BY <2>1 DEF Ids
  <2>3. loop'.model = <<>>
    BY <2>1 DEF TypeInv, LoopType
  <2>4. ToSet(loop'.model) = {}
    BY <2>3, EmptySeq DEF ToSet
  <2>5. \A s \in Series : \A m \in ToSet(models'[s]) : OfThePast(m)
    BY <2>1 DEF PastInv
  <2>. QED
    BY <2>1, <2>2, <2>4, <2>5, PastKept DEF PastInv
<1>7. CASE FailTrain
  <2>1. models' = models /\ hist' = hist /\ loop' = [loop EXCEPT !.todo = @ \ {Visited}]
    BY <1>7 DEF FailTrain, detector
  <2>2. loop'.model = loop.model
    BY <2>1 DEF TypeInv, LoopType
  <2>3. \A r \in Series : Ids(r) \subseteq Ids(r)'
    BY <2>1 DEF Ids
  <2>. QED
    BY <2>1, <2>2, <2>3, PastKept DEF PastInv
<1>8. CASE Restart
  <2>1. ToSet(<<>>) = {}
    BY EmptySeq DEF ToSet
  <2>2. loop' = Asleep /\ \A s \in Series : models'[s] = <<>>
    BY <1>8, RestartDoes
  <2>3. loop'.model = <<>>
    BY <2>2 DEF Asleep
  <2>4. ASSUME NEW s \in Series PROVE hist'[s].known = {}
    <3>1. hist'[s] = [hist[s] EXCEPT !.base = Len(hist[s].verdicts), !.gap = 0, !.shifts = 0]
      BY <1>8, RestartDoes
    <3>2. hist'[s].known = hist[s].known
      BY <3>1, HistFields DEF HistType
    <3>. QED
      BY <3>2 DEF PastInv
  <2>. QED
    BY <2>1, <2>2, <2>3, <2>4 DEF PastInv
<1>9. CASE Advance \/ UNCHANGED vars
  BY <1>3, <1>9 DEF Advance, vars, detector
<1>10. ASSUME NEW p \in Sources, BeginRound(p) PROVE PastInv'
  BY <1>3, <1>10, BeginRoundDoes DEF detector
<1>11. ASSUME NEW p \in Sources, Alert(p) PROVE PastInv'
  BY <1>3, <1>11, AlertDoes DEF detector
<1>. QED
  BY <1>1, <1>2, <1>4, <1>5, <1>6, <1>7, <1>8, <1>9, <1>10, <1>11 DEF Next, Handle, Retrain

LEMMA PastAlways == Spec => [](TypeInv /\ FlightInv /\ PastInv)
BY TypeInit, TypeStep, FlightInit, FlightStep, PastInit, PastStep, PTL DEF Spec

\* No verdict is passed by a model that was trained on the sample itself,
\* although retraining reads the store while samples are scored and stored
\* (handleSample scores before it stores; Detector.Score, retrainOne).
THEOREM AlwaysJudgedByThePast == Spec => []JudgedByThePast
<1>1. PastInv => JudgedByThePast
  BY DEF PastInv, JudgedByThePast
<1>. QED
  BY <1>1, PastAlways, PTL

-----------------------------------------------------------------------------
(* The turns of the retraining loop *)

\* One more leaves the next remainder, or none.
LEMMA NextRemainder ==
    ASSUME NEW m \in Nat \ {0}, NEW a \in Nat
    PROVE  /\ a % m \in 0..(m - 1)
           /\ (a + 1) % m = IF a % m = m - 1 THEN 0 ELSE (a % m) + 1
<1>1. a = m * (a \div m) + (a % m) /\ a \div m \in Int /\ a % m \in 0..(m - 1)
  OBVIOUS
<1>. DEFINE b == a + 1
<1>2. b \in Nat /\ b = a + 1
  OBVIOUS
<1>. HIDE DEF b
<1>3. b = m * (b \div m) + (b % m) /\ b \div m \in Int /\ b % m \in 0..(m - 1)
  BY <1>2
<1>4. PICK qa \in Int, qb \in Int, ra \in 0..(m - 1), rb \in 0..(m - 1) :
          a = m * qa + ra /\ b = m * qb + rb /\ ra = a % m /\ rb = b % m
  BY <1>1, <1>3
<1>5. m * (qb - qa) = ra + 1 - rb
  BY <1>2, <1>4
<1>6. ~ (qb - qa >= 2)
  <2>1. qb - qa >= 2 => m * (qb - qa) >= m + m
    BY <1>4
  <2>. QED
    BY <1>4, <1>5, <2>1
<1>7. ~ (qb - qa <= -1)
  <2>1. qb - qa <= -1 => m * (qb - qa) <= -m
    BY <1>4
  <2>. QED
    BY <1>4, <1>5, <2>1
<1>8. qb - qa = 0 \/ qb - qa = 1
  BY <1>4, <1>6, <1>7
<1>9. CASE qb - qa = 0
  <2>1. rb = ra + 1
    BY <1>4, <1>5, <1>9
  <2>. QED
    BY <1>4, <2>1 DEF b
<1>10. CASE qb - qa = 1
  <2>1. m = ra + 1 - rb
    BY <1>4, <1>5, <1>10
  <2>2. ra <= m - 1 /\ rb >= 0 /\ ra \in Int /\ rb \in Int
    OBVIOUS
  <2>3. rb = 0 /\ ra = m - 1
    BY <2>1, <2>2
  <2>. QED
    BY <1>4, <2>3 DEF b
<1>. QED
  BY <1>8, <1>9, <1>10

\* A list has finitely many elements.
LEMMA ListIsFinite ==
    ASSUME NEW S, NEW seq \in Seq(S)
    PROVE  IsFiniteSet(ToSet(seq))
<1>1. Len(seq) \in Nat /\ DOMAIN seq = 1..Len(seq)
  BY LenProperties
<1>2. IsFiniteSet(1..Len(seq))
  BY <1>1, FS_Interval
<1>. DEFINE f == [i \in 1..Len(seq) |-> seq[i]]
<1>3. f \in Surjection(1..Len(seq), ToSet(seq))
  BY <1>1 DEF Surjection, ToSet
<1>. QED
  BY <1>2, <1>3, FS_Surjection

\* The series before one in the sorted list.
Before(s) == {r \in ToSet(created) : Earlier(Keys, r, s)}

LEMMA PlaceIs ==
    ASSUME TypeInv, NEW s
    PROVE  IsFiniteSet(Before(s)) /\ Place(s) = Cardinality(Before(s)) /\ Place(s) \in Nat
<1>1. IsFiniteSet(ToSet(created))
  BY ListIsFinite DEF TypeInv
<1>2. Before(s) \subseteq ToSet(created)
  BY DEF Before
<1>3. IsFiniteSet(Before(s))
  BY <1>1, <1>2, FS_Subset
<1>. QED
  BY <1>3, FS_CardinalityType DEF Place, Before

\* The ticks until the loop is due to visit a series.
TicksUntil(s) == LET ahead == (Place(s) % Fanout) - loop.tick
                 IN  IF ahead < 0 THEN ahead + Fanout ELSE ahead

\* A series is never further from its visit than the ticks it has left.
RoundInv ==
    \A s \in Series :
        /\ s \notin ToSet(created) => hist[s].gap = 0
        /\ hist[s].gap + TicksUntil(s) <= Fanout - 1 + hist[s].shifts

LEMMA DistanceIs ==
    ASSUME TypeInv, NEW s
    PROVE  /\ Place(s) % Fanout \in 0..(Fanout - 1)
           /\ TicksUntil(s) \in 0..(Fanout - 1)
           /\ Due(Place(s), loop.tick) <=> TicksUntil(s) = 0
<1>1. Place(s) \in Nat /\ Fanout \in Nat \ {0} /\ loop.tick \in 0..(Fanout - 1)
  BY PlaceIs, LoopFields, DetectorAssumption
<1>2. Place(s) % Fanout \in 0..(Fanout - 1)
  BY <1>1, NextRemainder
<1>3. loop.tick % Fanout = loop.tick
  BY <1>1
<1>. QED
  BY <1>1, <1>2, <1>3 DEF TicksUntil, Due

LEMMA RoundInit == Init => RoundInv
<1>. SUFFICES ASSUME Init, NEW s \in Series
              PROVE  /\ hist[s].gap = 0
                     /\ hist[s].gap + TicksUntil(s) <= Fanout - 1 + hist[s].shifts
  BY DEF RoundInv
<1>1. hist[s].gap = 0 /\ hist[s].shifts = 0
  BY DEF Init, NoHistory
<1>2. TicksUntil(s) \in 0..(Fanout - 1) /\ Fanout \in Nat \ {0}
  BY TypeInit, DistanceIs, DetectorAssumption
<1>. QED
  BY <1>1, <1>2

\* The same of the next state.
LEMMA PlacesAre ==
    TypeInv => \A s \in Series :
       /\ IsFiniteSet(Before(s)) /\ Place(s) = Cardinality(Before(s)) /\ Place(s) \in Nat
       /\ Place(s) % Fanout \in 0..(Fanout - 1) /\ TicksUntil(s) \in 0..(Fanout - 1)
<1>. SUFFICES ASSUME TypeInv, NEW s \in Series
              PROVE  /\ IsFiniteSet(Before(s)) /\ Place(s) = Cardinality(Before(s))
                     /\ Place(s) \in Nat
                     /\ Place(s) % Fanout \in 0..(Fanout - 1)
                     /\ TicksUntil(s) \in 0..(Fanout - 1)
  OBVIOUS
<1>. QED
  BY PlaceIs, DistanceIs

LEMMA PlacesNext ==
    TypeInv' => (\A s \in Series :
       /\ IsFiniteSet(Before(s)) /\ Place(s) = Cardinality(Before(s)) /\ Place(s) \in Nat
       /\ Place(s) % Fanout \in 0..(Fanout - 1) /\ TicksUntil(s) \in 0..(Fanout - 1))'
<1>. QED
  BY PlacesAre, PTL

\* Most steps leave the list, the count of ticks and what is remembered of the
\* visits alone.
LEMMA RoundKept ==
    ASSUME TypeInv, RoundInv, created' = created, loop'.tick = loop.tick,
           \A s \in Series : hist'[s].gap = hist[s].gap /\ hist'[s].shifts = hist[s].shifts
    PROVE  RoundInv'
<1>1. \A s \in Series : TicksUntil(s)' = TicksUntil(s)
  BY DEF TicksUntil, Place
<1>. QED
  BY <1>1 DEF RoundInv

\* A tick visits the series at no distance and brings the others nearer by one.
LEMMA TickInRound ==
    ASSUME TypeInv, TypeInv', RoundInv, Tick
    PROVE  RoundInv'
<1>1. created' = created /\ loop'.tick = NextTick(loop.tick)
  BY TickDoes, LoopFields DEF storage, TypeInv, LoopType
<1>2. Fanout \in Nat \ {0} /\ loop.tick \in 0..(Fanout - 1)
  BY LoopFields, DetectorAssumption
<1>3. loop'.tick = IF loop.tick = Fanout - 1 THEN 0 ELSE loop.tick + 1
  <2>1. loop.tick % Fanout = loop.tick /\ loop.tick \in Nat
    BY <1>2
  <2>2. PICK m \in Nat \ {0}, a \in Nat : m = Fanout /\ a = loop.tick /\ a % m = a
    BY <1>2, <2>1
  <2>3. (a + 1) % m = IF a = m - 1 THEN 0 ELSE a + 1
    BY <2>2, NextRemainder
  <2>. QED
    BY <1>1, <2>2, <2>3 DEF NextTick
<1>4. ASSUME NEW s \in Series
      PROVE  /\ s \notin ToSet(created') => hist'[s].gap = 0
             /\ hist'[s].gap + TicksUntil(s)' <= Fanout - 1 + hist'[s].shifts
  <2>1. /\ hist[s].gap \in Nat /\ hist[s].shifts \in Nat
        /\ TicksUntil(s) \in 0..(Fanout - 1) /\ Place(s) % Fanout \in 0..(Fanout - 1)
    BY HistFields, DistanceIs
  <2>2. TicksUntil(s)' = IF TicksUntil(s) = 0 THEN Fanout - 1 ELSE TicksUntil(s) - 1
    <3>1. Place(s)' = Place(s)
      BY <1>1 DEF Place
    <3>2. PICK a \in 0..(Fanout - 1) : a = Place(s) % Fanout
      BY <2>1
    <3>3. TicksUntil(s) = IF a - loop.tick < 0 THEN a - loop.tick + Fanout ELSE a - loop.tick
      BY <3>2 DEF TicksUntil
    <3>4. TicksUntil(s)' = IF a - loop'.tick < 0 THEN a - loop'.tick + Fanout
                         ELSE a - loop'.tick
      BY <3>1, <3>2 DEF TicksUntil
    <3>. QED
      BY <1>2, <1>3, <3>2, <3>3, <3>4
  <2>3. TicksUntil(s)' \in 0..(Fanout - 1)
    BY <1>2, <2>1, <2>2
  <2>4. CASE s \in DueSeries(loop.tick)
    <3>1. hist'[s].gap = 0 /\ hist'[s].shifts = 0
      BY <2>4, TickRemembers
    <3>. QED
      BY <1>2, <2>3, <3>1
  <2>5. CASE s \notin DueSeries(loop.tick) /\ s \in ToSet(created)
    <3>1. hist'[s].shifts = hist[s].shifts /\ hist'[s].gap = hist[s].gap + 1
      BY <2>5, TickRemembers
    <3>2. TicksUntil(s) # 0
      BY <2>5, DistanceIs DEF DueSeries
    <3>. QED
      BY <1>1, <1>2, <2>1, <2>2, <2>5, <3>1, <3>2 DEF RoundInv
  <2>6. CASE s \notin ToSet(created)
    <3>0. s \notin DueSeries(loop.tick)
      BY <2>6 DEF DueSeries
    <3>1. hist'[s].shifts = hist[s].shifts /\ hist'[s].gap = hist[s].gap
      BY <2>6, <3>0, TickRemembers
    <3>2. hist'[s].gap = 0
      BY <2>6, <3>1 DEF RoundInv
    <3>. QED
      BY <1>2, <2>1, <2>3, <3>1, <3>2
  <2>. QED
    BY <2>4, <2>5, <2>6
<1>. QED
  BY <1>4 DEF RoundInv

\* A new series pushes those listed behind it one place further.
LEMMA NewSeriesInRound ==
    ASSUME TypeInv, TypeInv', RoundInv, NEW p \in Sources, Store(p) \/ FailStore(p)
    PROVE  RoundInv'
<1>0. PICK t : t = source[p].series
  OBVIOUS
<1>1. /\ t \in Series
      /\ \/ created' = created
         \/ t \notin ToSet(created) /\ created' = Append(created, t)
      /\ \A r \in Series :
            /\ hist'[r].gap = hist[r].gap
            /\ hist'[r].shifts = IF created' # created /\ r \in ToSet(created)
                                    /\ Earlier(Keys, t, r)
                                 THEN hist[r].shifts + 1 ELSE hist[r].shifts
      /\ loop' = loop
  BY <1>0, StoringDoes
<1>2. CASE created' = created
  BY <1>1, <1>2, RoundKept
<1>3. CASE created' # created
  <2>1. t \notin ToSet(created) /\ created' = Append(created, t)
    BY <1>1, <1>3
  <2>2. ToSet(created') = ToSet(created) \cup {t}
    BY <2>1, Appended DEF TypeInv
  <2>3. Fanout \in Nat \ {0} /\ loop.tick \in 0..(Fanout - 1)
    BY LoopFields, DetectorAssumption
  <2>4. ASSUME NEW s \in Series
        PROVE  /\ s \notin ToSet(created') => hist'[s].gap = 0
               /\ hist'[s].gap + TicksUntil(s)' <= Fanout - 1 + hist'[s].shifts
    <3>1. hist[s].gap \in Nat /\ hist[s].shifts \in Nat /\ hist'[s].gap = hist[s].gap
      BY <1>1, HistFields
    <3>2. TicksUntil(s)' \in 0..(Fanout - 1) /\ TicksUntil(s) \in 0..(Fanout - 1)
      BY DistanceIs, PlacesNext
    <3>3. hist'[s].shifts = IF s \in ToSet(created) /\ Earlier(Keys, t, s)
                            THEN hist[s].shifts + 1 ELSE hist[s].shifts
      BY <1>1, <1>3
    <3>4. CASE s \notin ToSet(created)
      <4>1. hist'[s].gap = 0 /\ hist'[s].shifts = hist[s].shifts
        BY <3>1, <3>3, <3>4 DEF RoundInv
      <4>. QED
        BY <2>3, <3>1, <3>2, <4>1
    <3>5. CASE s \in ToSet(created) /\ Earlier(Keys, t, s)
      <4>1. Place(s)' = Place(s) + 1
        <5>1. Before(s)' = Before(s) \cup {t}
          BY <2>2, <3>5 DEF Before
        <5>2. t \notin Before(s)
          BY <2>1 DEF Before
        <5>3. /\ IsFiniteSet(Before(s)) /\ Place(s) = Cardinality(Before(s))
              /\ Place(s)' = Cardinality(Before(s)')
          BY PlaceIs, PlacesNext
        <5>. QED
          BY <5>1, <5>2, <5>3, FS_AddElement
      <4>2. TicksUntil(s)' <= TicksUntil(s) + 1
        <5>1. PICK a \in 0..(Fanout - 1), b \in 0..(Fanout - 1) :
                  a = Place(s) % Fanout /\ b = Place(s)' % Fanout
          BY DistanceIs, PlacesNext
        <5>2. b = IF a = Fanout - 1 THEN 0 ELSE a + 1
          BY <2>3, <4>1, <5>1, PlaceIs, NextRemainder
        <5>3. TicksUntil(s) = IF a - loop.tick < 0 THEN a - loop.tick + Fanout ELSE a - loop.tick
          BY <5>1 DEF TicksUntil
        <5>4. TicksUntil(s)' = IF b - loop.tick < 0 THEN b - loop.tick + Fanout
                             ELSE b - loop.tick
          BY <1>1, <5>1 DEF TicksUntil
        <5>. QED
          BY <2>3, <5>2, <5>3, <5>4
      <4>3. hist'[s].shifts = hist[s].shifts + 1
        BY <3>3, <3>5
      <4>4. hist[s].gap + TicksUntil(s) <= Fanout - 1 + hist[s].shifts
        BY DEF RoundInv
      <4>. QED
        BY <2>2, <2>3, <3>1, <3>2, <3>5, <4>2, <4>3, <4>4
    <3>6. CASE s \in ToSet(created) /\ ~Earlier(Keys, t, s)
      <4>1. Before(s)' = Before(s)
        BY <2>2, <3>6 DEF Before
      <4>2. Place(s)' = Place(s)
        BY <4>1, PlaceIs, PlacesNext
      <4>3. TicksUntil(s)' = TicksUntil(s)
        BY <1>1, <4>2 DEF TicksUntil
      <4>4. hist'[s].shifts = hist[s].shifts
        BY <3>3, <3>6
      <4>. QED
        BY <2>2, <3>1, <3>6, <4>3, <4>4 DEF RoundInv
    <3>. QED
      BY <3>4, <3>5, <3>6
  <2>. QED
    BY <2>4 DEF RoundInv
<1>. QED
  BY <1>2, <1>3

LEMMA RestartInRound ==
    ASSUME TypeInv, TypeInv', Restart
    PROVE  RoundInv'
<1>. SUFFICES ASSUME NEW s \in Series
              PROVE  /\ hist'[s].gap = 0
                     /\ hist'[s].gap + TicksUntil(s)' <= Fanout - 1 + hist'[s].shifts
  BY DEF RoundInv
<1>1. hist'[s] = [hist[s] EXCEPT !.base = Len(hist[s].verdicts), !.gap = 0, !.shifts = 0]
  BY RestartDoes
<1>2. hist'[s].gap = 0 /\ hist'[s].shifts = 0
  BY <1>1, HistFields DEF HistType
<1>3. TicksUntil(s)' \in 0..(Fanout - 1) /\ Fanout \in Nat \ {0}
  BY PlacesNext, DetectorAssumption
<1>. QED
  BY <1>2, <1>3

LEMMA RoundStep == TypeInv /\ RoundInv /\ [Next]_vars => RoundInv'
<1>. SUFFICES ASSUME TypeInv, TypeInv', RoundInv, [Next]_vars PROVE RoundInv'
  BY TypeStep
<1>1. CASE UNCHANGED <<created, loop, hist>>
  BY <1>1, RoundKept
<1>2. CASE Advance \/ UNCHANGED vars
  BY <1>1, <1>2 DEF Advance, vars, storage
<1>3. ASSUME NEW p \in Sources, Score(p) PROVE RoundInv'
  BY <1>3, ScoreDoes, OneMoreScored, RoundKept DEF storage
<1>4. ASSUME NEW p \in Sources, BeginRound(p) \/ Alert(p) PROVE RoundInv'
  BY <1>1, <1>4, BeginRoundDoes, AlertDoes DEF storage
<1>5. CASE Train \/ AddModel \/ FailTrain
  <2>1. created' = created /\ hist' = hist
    BY <1>5, TrainDoes, AddModelDoes DEF FailTrain, storage
  <2>2. loop'.tick = loop.tick
    <3>1. loop \in LoopType
      BY DEF TypeInv
    <3>2. CASE Train
      <4>1. \/ \E m \in ModelType : loop' = [loop EXCEPT !.model = <<m>>]
            \/ loop' = [loop EXCEPT !.todo = @ \ {Visited}]
        BY <3>2, TrainDoes
      <4>. QED
        BY <3>1, <4>1 DEF LoopType
    <3>3. CASE AddModel
      <4>1. loop' = [loop EXCEPT !.todo = @ \ {Visited}, !.model = <<>>]
        BY <3>3, AddModelDoes
      <4>. QED
        BY <3>1, <4>1 DEF LoopType
    <3>4. CASE FailTrain
      BY <3>1, <3>4 DEF FailTrain, LoopType
    <3>. QED
      BY <1>5, <3>2, <3>3, <3>4
  <2>. QED
    BY <2>1, <2>2, RoundKept
<1>6. CASE Tick
  BY <1>6, TickInRound
<1>7. ASSUME NEW p \in Sources, Store(p) \/ FailStore(p) PROVE RoundInv'
  BY <1>7, NewSeriesInRound
<1>8. CASE Restart
  BY <1>8, RestartInRound
<1>. QED
  BY <1>2, <1>3, <1>4, <1>5, <1>6, <1>7, <1>8 DEF Next, Handle, Retrain

LEMMA RoundAlways == Spec => [](TypeInv /\ RoundInv)
BY TypeInit, TypeStep, RoundInit, RoundStep, PTL DEF Spec

\* However the list grows between two ticks, a series waits no more than the
\* Fanout ticks of a round and one for every series put before it in the list
\* (retrainDueSeries goes by the place of a series in the list of the moment).
THEOREM AlwaysVisitedEachRound == Spec => []VisitedEachRound
<1>1. TypeInv /\ RoundInv => VisitedEachRound
  <2>. SUFFICES ASSUME TypeInv, RoundInv, NEW s \in Series
                PROVE  hist[s].gap <= (Fanout - 1) + hist[s].shifts
    BY DEF VisitedEachRound
  <2>1. /\ hist[s].gap \in Nat /\ hist[s].shifts \in Nat /\ Fanout \in Nat
        /\ TicksUntil(s) \in 0..(Fanout - 1)
    BY HistFields, DistanceIs, DetectorAssumption
  <2>. QED
    BY <2>1 DEF RoundInv
<1>. QED
  BY <1>1, RoundAlways, PTL

-----------------------------------------------------------------------------
(* What the buffers and the store hold *)

\* A source is about to give a sample to the store.
AtStore(p, s, i) == source[p].step = 2 /\ source[p].series = s /\ source[p].id = i

\* The buffer holds the last samples that were scored since the start.
LastOf(list, n, base) ==
    LET len == Len(list)
    IN  /\ len = IF n - base < Need THEN n - base ELSE Need
        /\ \A i \in 1..len : list[i] = n - len + i

BufferOK(s) == LastOf(buffer[s], Len(hist[s].verdicts), hist[s].base)

\* A store that missed none has every sample since the start, or has had it and
\* overwritten it, or will have it next.
Kept(s) ==
    hist[s].missed = {} => \A i \in Ids(s) : i > hist[s].base =>
        i \in hist[s].wiped \cup IdsOf(Held(ring[s])) \/ \E p \in Sources : AtStore(p, s, i)

\* The samples of one source come to the store in the order they were scored,
\* and in that of their times if none was late.
InOrder(s) ==
    OneSource(s) =>
        /\ hist[s].missed = {} => \A x, z \in Held(ring[s]) : x.at < z.at <=> x.id < z.id
        /\ \A p \in Sources, i \in Nat : AtStore(p, s, i) =>
              i = Len(hist[s].verdicts) /\ \A x \in Held(ring[s]) : x.id < i

StoredInv == \A s \in Series : BufferOK(s) /\ Kept(s) /\ InOrder(s)

LEMMA StoredInit == Init => StoredInv
<1>. SUFFICES ASSUME Init, NEW s \in Series PROVE BufferOK(s) /\ Kept(s) /\ InOrder(s)
  BY DEF StoredInv
<1>1. hist[s] = NoHistory /\ buffer[s] = <<>> /\ Held(ring[s]) = {}
  BY DEF Init, EmptyRing, Held, OnDisk
<1>2. \A p \in Sources : source[p].step = 0
  BY DEF Init, Idle
<1>3. Len(NoHistory.verdicts) = 0 /\ NoHistory.base = 0 /\ DOMAIN <<>> = {} /\ Len(<<>>) = 0
  BY EmptySeq DEF NoHistory
<1>4. Ids(s) = {}
  BY <1>1, <1>3 DEF Ids
<1>5. 0 < Need
  BY DetectorAssumption
<1>6. BufferOK(s)
  BY <1>1, <1>3, <1>5 DEF BufferOK, LastOf
<1>. QED
  BY <1>1, <1>2, <1>3, <1>4, <1>6 DEF Kept, InOrder, AtStore

\* A full buffer drops its oldest sample for the new one.
LEMMA BufferMoves ==
    ASSUME TypeInv, NEW s \in Series, BufferOK(s), hist[s].base <= Len(hist[s].verdicts)
    PROVE  LET n == Len(hist[s].verdicts)
           IN  LastOf(Trimmed(Append(buffer[s], n + 1)), n + 1, hist[s].base)
<1>1. PICK n \in Nat, b \in Nat, old \in Seq(Nat), len \in Nat :
          /\ n = Len(hist[s].verdicts) /\ b = hist[s].base
          /\ old = buffer[s] /\ len = Len(old)
  BY HistFields, LenProperties DEF TypeInv
<1>2. Need \in Nat \ {0} /\ b <= n
  BY <1>1, DetectorAssumption
<1>3. len = (IF n - b < Need THEN n - b ELSE Need) /\ \A i \in 1..len : old[i] = n - len + i
  BY <1>1 DEF BufferOK, LastOf
<1>. DEFINE new == Append(old, n + 1)
<1>4. /\ new \in Seq(Nat) /\ Len(new) = len + 1
      /\ \A i \in 1..len : new[i] = old[i]
      /\ new[len + 1] = n + 1
  <2>1. n + 1 \in Nat
    OBVIOUS
  <2>. QED
    BY <1>1, <2>1, Appended
<1>5. \A i \in 1..(len + 1) : new[i] = n - len + i
  <2>. SUFFICES ASSUME NEW i \in 1..(len + 1) PROVE new[i] = n - len + i
    OBVIOUS
  <2>1. CASE i = len + 1
    BY <1>4, <2>1
  <2>2. CASE i # len + 1
    <3>1. i \in 1..len
      BY <2>2
    <3>. QED
      BY <1>3, <1>4, <3>1
  <2>. QED
    BY <2>1, <2>2
<1>. HIDE DEF new
<1>. SUFFICES LastOf(Trimmed(new), n + 1, b)
  BY <1>1 DEF new
<1>6. CASE n - b < Need
  <2>1. len = n - b /\ ~(len + 1 > Need)
    BY <1>2, <1>3, <1>6
  <2>2. Trimmed(new) = new
    BY <1>4, <2>1 DEF Trimmed
  <2>3. len + 1 = IF n + 1 - b < Need THEN n + 1 - b ELSE Need
    BY <1>2, <1>6, <2>1
  <2>4. \A i \in 1..(len + 1) : new[i] = n + 1 - (len + 1) + i
    BY <1>5
  <2>. QED
    <3>1. LastOf(new, n + 1, b)
      <4>1. Len(new) = len + 1
        BY <1>4
      <4>2. Len(new) = IF n + 1 - b < Need THEN n + 1 - b ELSE Need
        BY <2>3, <4>1
      <4>3. \A i \in 1..Len(new) : new[i] = n + 1 - Len(new) + i
        BY <2>4, <4>1
      <4>. QED
        <5>1. n + 1 - b = (n + 1) - b /\ Need \in Nat
          BY <1>2
        <5>2. PICK size \in Nat : size = Len(new)
          BY <4>1
        <5>3. ASSUME NEW i \in 1..size PROVE new[i] = (n + 1) - size + i
          <6>1. new[i] = n + 1 - size + i
            BY <4>3, <5>2
          <6>. QED
            BY <6>1
        <5>4. size = IF (n + 1) - b < Need THEN (n + 1) - b ELSE Need
          BY <4>2, <5>1, <5>2
        <5>. QED
          BY <5>2, <5>3, <5>4 DEF LastOf
    <3>. QED
      BY <2>2, <3>1
<1>7. CASE ~(n - b < Need)
  <2>1. len = Need /\ len + 1 > Need
    BY <1>2, <1>3, <1>7
  <2>. DEFINE part == SubSeq(new, Len(new) - Need + 1, Len(new))
  <2>2. Trimmed(new) = part
    BY <1>4, <2>1 DEF Trimmed
  <2>3. Len(part) = Need /\ \A i \in 1..Need : part[i] = new[Len(new) - Need + i]
    BY <1>2, <1>4, <2>1, LastPart
  <2>. HIDE DEF part
  <2>4. ASSUME NEW i \in 1..Need PROVE part[i] = n + 1 - Need + i
    <3>1. Len(new) - Need + i = i + 1 /\ i + 1 \in 1..(len + 1)
      BY <1>2, <1>4, <2>1
    <3>2. new[i + 1] = n - len + (i + 1)
      BY <1>5, <3>1
    <3>. QED
      BY <1>2, <2>1, <2>3, <3>1, <3>2
  <2>5. ~(n + 1 - b < Need)
    BY <1>2, <1>7
  <2>. QED
    BY <1>2, <2>2, <2>3, <2>4, <2>5 DEF LastOf
<1>. QED
  BY <1>6, <1>7

\* Only one source has samples of a series that one source feeds.
LEMMA OnlyOne ==
    ASSUME TypeInv, NEW s \in Series, OneSource(s),
           NEW p \in Sources, s \in Feeds[p],
           NEW q \in Sources, source[q].step > 0, source[q].series = s
    PROVE  q = p
<1>1. s \in Feeds[q]
  BY SourceFields DEF AtSample
<1>. QED
  BY <1>1 DEF OneSource

\* Steps that leave the buffers, the store and its next samples alone.
LEMMA OthersStored ==
    ASSUME TypeInv, StoredInv, UNCHANGED <<buffer, ring>>,
           \A s \in Series : /\ hist'[s].verdicts = hist[s].verdicts
                             /\ hist'[s].base = hist[s].base
                             /\ hist'[s].missed = hist[s].missed
                             /\ hist'[s].wiped = hist[s].wiped,
           \A p \in Sources, s \in Series, i \in Nat : AtStore(p, s, i)' <=> AtStore(p, s, i)
    PROVE  StoredInv'
<1>. SUFFICES ASSUME NEW s \in Series PROVE BufferOK(s)' /\ Kept(s)' /\ InOrder(s)'
  BY DEF StoredInv
<1>1. Ids(s)' = Ids(s) /\ Ids(s) \subseteq Nat
  BY DEF Ids
<1>2. BufferOK(s)'
  BY DEF StoredInv, BufferOK
<1>3. Kept(s)'
  BY <1>1 DEF StoredInv, Kept
<1>4. InOrder(s)'
  BY DEF StoredInv, InOrder, OneSource
<1>. QED
  BY <1>2, <1>3, <1>4

LEMMA ScoreStored ==
    ASSUME TypeInv, FlightInv, StoredInv, NEW p \in Sources, Score(p)
    PROVE  StoredInv'
<1>0. PICK r \in Series, n \in Nat : r = source[p].series /\ n = Len(hist[r].verdicts)
  BY ScoreDoes, HistFields
<1>1. source[p].step = 1 /\ ring' = ring /\ r \in Feeds[p]
      /\ buffer' = [buffer EXCEPT ![r] = Trimmed(Append(buffer[r], n + 1))]
  BY <1>0, ScoreDoes DEF storage
<1>2. PICK y : source' = [source EXCEPT ![p] = y] /\ y.step = 2 /\ y.series = r /\ y.id = n + 1
  BY <1>0, ScoreDoes
<1>3. source'[p] = y /\ \A q \in Sources \ {p} : source'[q] = source[q]
  BY <1>2, OneSourceMoves
<1>4. AtStore(p, r, n + 1)'
  BY <1>2, <1>3 DEF AtStore
<1>5. \A q \in Sources, s \in Series, i \in Nat :
          AtStore(q, s, i)' <=> AtStore(q, s, i) \/ (q = p /\ s = r /\ i = n + 1)
  BY <1>1, <1>2, <1>3 DEF AtStore
<1>6. ASSUME NEW s \in Series PROVE BufferOK(s)'
  <2>1. BufferOK(s) /\ hist[s].base <= Len(hist[s].verdicts)
    BY DEF StoredInv, FlightInv
  <2>2. hist'[s].base = hist[s].base
    BY OneMoreScored
  <2>3. buffer \in [Series -> Seq(Nat)]
    BY DEF TypeInv
  <2>4. CASE s = r
    <3>1. Len(hist'[s].verdicts) = n + 1 /\ Len(hist[s].verdicts) = n
      BY <1>0, <2>4, OneMoreScored
    <3>2. buffer'[s] = Trimmed(Append(buffer[s], n + 1))
      BY <1>1, <2>3, <2>4
    <3>3. LastOf(Trimmed(Append(buffer[s], n + 1)), n + 1, hist[s].base)
      BY <2>1, <3>1, BufferMoves
    <3>. QED
      BY <2>2, <3>1, <3>2, <3>3 DEF BufferOK
  <2>5. CASE s # r
    <3>1. buffer'[s] = buffer[s] /\ Len(hist'[s].verdicts) = Len(hist[s].verdicts)
      BY <1>0, <1>1, <2>3, <2>5, OneMoreScored
    <3>. QED
      BY <2>1, <2>2, <3>1 DEF BufferOK
  <2>. QED
    BY <2>4, <2>5
<1>7. ASSUME NEW s \in Series PROVE Kept(s)'
  <2>. SUFFICES ASSUME hist'[s].missed = {}, NEW i \in Ids(s)', i > hist'[s].base
                PROVE  \/ i \in hist'[s].wiped \cup IdsOf(Held(ring'[s]))
                       \/ \E q \in Sources : AtStore(q, s, i)'
    BY DEF Kept
  <2>1. /\ hist'[s].base = hist[s].base /\ hist'[s].missed = hist[s].missed
        /\ hist'[s].wiped = hist[s].wiped
        /\ Ids(s)' = IF s = r THEN Ids(s) \cup {n + 1} ELSE Ids(s)
    BY <1>0, OneMoreScored
  <2>2. CASE i \in Ids(s)
    <3>1. i \in Nat
      BY <2>2 DEF Ids
    <3>2. \/ i \in hist[s].wiped \cup IdsOf(Held(ring[s]))
          \/ \E q \in Sources : AtStore(q, s, i)
      BY <2>1, <2>2 DEF StoredInv, Kept
    <3>. QED
      BY <1>1, <1>5, <2>1, <3>1, <3>2
  <2>3. CASE i \notin Ids(s)
    BY <1>4, <2>1, <2>3
  <2>. QED
    BY <2>2, <2>3
<1>8. ASSUME NEW s \in Series, OneSource(s)
      PROVE  /\ hist'[s].missed = {} => \A x, z \in Held(ring'[s]) : x.at < z.at <=> x.id < z.id
             /\ \A q \in Sources, i \in Nat : AtStore(q, s, i)' =>
                   i = Len(hist'[s].verdicts) /\ \A x \in Held(ring'[s]) : x.id < i
  <2>1. InOrder(s) /\ hist'[s].missed = hist[s].missed
    BY OneMoreScored DEF StoredInv
  <2>2. CASE s = r
    <3>1. Len(hist'[s].verdicts) = n + 1 /\ Ids(s) = 1..n
      BY <1>0, <2>2, OneMoreScored
    <3>2. \A x \in Held(ring[s]) : x.id \in 1..n
      BY <3>1 DEF FlightInv, StoredOK
    <3>3. \A q \in Sources, i \in Nat : ~AtStore(q, s, i)
      <4>. SUFFICES ASSUME NEW q \in Sources, NEW i \in Nat, AtStore(q, s, i) PROVE FALSE
        OBVIOUS
      <4>1. q = p
        BY <1>1, <1>8, <2>2, OnlyOne DEF AtStore
      <4>. QED
        BY <1>1, <4>1 DEF AtStore
    <3>4. \A x \in Held(ring[s]) : x.id < n + 1
      BY <3>2
    <3>. QED
      BY <1>1, <1>5, <1>8, <2>1, <3>1, <3>3, <3>4 DEF InOrder
  <2>3. CASE s # r
    <3>1. Len(hist'[s].verdicts) = Len(hist[s].verdicts)
      BY <1>0, <2>3, OneMoreScored
    <3>. QED
      BY <1>1, <1>5, <1>8, <2>1, <2>3, <3>1 DEF InOrder
  <2>. QED
    BY <2>2, <2>3
<1>9. \A s \in Series : InOrder(s)'
  BY <1>8 DEF InOrder, OneSource
<1>. QED
  BY <1>6, <1>7, <1>9 DEF StoredInv

LEMMA StoringStored ==
    ASSUME TypeInv, FlightInv, StoredInv, NEW p \in Sources, Store(p) \/ FailStore(p)
    PROVE  StoredInv'
<1>1. PICK r \in Series, id \in Nat : r = source[p].series /\ id = source[p].id
  BY StoringDoes, SourceFields
<1>. DEFINE point == PointOf(source[p])
<1>2. /\ source[p].step = 2 /\ point \in PointType /\ buffer' = buffer /\ r \in Feeds[p]
      /\ \A s \in Series : /\ hist'[s].verdicts = hist[s].verdicts /\ hist'[s].base = hist[s].base
                           /\ hist[s].missed \subseteq hist'[s].missed
                           /\ hist[s].wiped \subseteq hist'[s].wiped
  BY <1>1, StoringDoes DEF detector
<1>14. PICK new \in RingType :
          /\ ring' = [ring EXCEPT ![r] = new] /\ Held(new) \subseteq Held(ring[r]) \cup {point}
          /\ id \in hist'[r].missed \/ TookIn(ring[r], new, point, hist'[r].wiped)
  BY <1>1, StoringDoes
<1>3. PICK y : source' = [source EXCEPT ![p] = y] /\ y.step = 3
  BY StoringDoes
<1>4. source'[p] = y /\ \A q \in Sources \ {p} : source'[q] = source[q]
  BY <1>3, OneSourceMoves
<1>5. \A q \in Sources, s \in Series, i \in Nat :
          AtStore(q, s, i)' <=> AtStore(q, s, i) /\ q # p
  BY <1>3, <1>4 DEF AtStore
<1>6. \A s \in Series : Ids(s)' = Ids(s) /\ Ids(s) \subseteq Nat
  BY <1>2 DEF Ids
<1>7. point.id = id
  BY <1>1 DEF PointOf
<1>. HIDE DEF point
<1>8. ring'[r] = new /\ \A s \in Series \ {r} : ring'[s] = ring[s]
  BY <1>14 DEF TypeInv
<1>9. id \in hist'[r].missed \/ TookIn(ring[r], ring'[r], point, hist'[r].wiped)
  BY <1>8, <1>14
<1>10. ASSUME NEW s \in Series PROVE Kept(s)'
  <2>. DEFINE gone == hist[s].wiped \cup IdsOf(Held(ring[s]))
              had == hist'[s].wiped \cup IdsOf(Held(ring'[s]))
  <2>. SUFFICES ASSUME hist'[s].missed = {}, NEW i \in Ids(s)', i > hist'[s].base
                PROVE  i \in had \/ \E q \in Sources : AtStore(q, s, i)'
    BY DEF Kept
  <2>1. i \in Nat
    BY <1>6
  <2>2. hist[s].missed = {} /\ (i \in gone \/ \E q \in Sources : AtStore(q, s, i))
    <3>1. hist[s].missed \subseteq hist'[s].missed /\ hist'[s].base = hist[s].base
      BY <1>2
    <3>2. hist[s].missed = {} /\ i \in Ids(s) /\ i > hist[s].base
      BY <1>6, <3>1
    <3>. QED
      BY <3>2 DEF StoredInv, Kept
  <2>3. CASE i \in gone
    <3>1. hist[s].wiped \subseteq hist'[s].wiped
      BY <1>2
    <3>2. CASE s # r
      BY <1>8, <2>3, <3>1, <3>2
    <3>3. CASE s = r
      <4>1. IdsOf(Held(ring[s])) \subseteq IdsOf(Held(ring'[s])) \cup hist'[s].wiped
        BY <1>9, <3>3 DEF TookIn
      <4>. QED
        BY <2>3, <3>1, <4>1
    <3>. QED
      BY <3>2, <3>3
  <2>5. CASE \E q \in Sources : AtStore(q, s, i)
    <3>1. PICK q \in Sources : AtStore(q, s, i)
      BY <2>5
    <3>2. CASE q # p
      BY <1>5, <2>1, <3>1, <3>2
    <3>3. CASE q = p
      <4>1. s = r /\ i = id
        BY <1>1, <3>1, <3>3 DEF AtStore
      <4>2. point \in Held(ring'[s])
        BY <1>9, <4>1 DEF TookIn
      <4>. QED
        BY <1>7, <4>1, <4>2 DEF IdsOf
    <3>. QED
      BY <3>2, <3>3
  <2>. QED
    BY <2>2, <2>3, <2>5
<1>11. ASSUME NEW s \in Series, OneSource(s)
       PROVE  /\ hist'[s].missed = {} =>
                    \A x, z \in Held(ring'[s]) : x.at < z.at <=> x.id < z.id
              /\ \A q \in Sources, i \in Nat : AtStore(q, s, i)' =>
                    i = Len(hist'[s].verdicts) /\ \A x \in Held(ring'[s]) : x.id < i
  <2>1. InOrder(s) /\ Len(hist'[s].verdicts) = Len(hist[s].verdicts)
        /\ hist[s].missed \subseteq hist'[s].missed
    BY <1>2 DEF StoredInv
  <2>2. CASE s # r
    <3>1. ring'[s] = ring[s]
      BY <1>8, <2>2
    <3>. QED
      BY <1>5, <1>11, <2>1, <3>1 DEF InOrder
  <2>3. CASE s = r
    <3>1. \A q \in Sources, i \in Nat : ~AtStore(q, s, i)'
      <4>. SUFFICES ASSUME NEW q \in Sources, NEW i \in Nat, AtStore(q, s, i), q # p PROVE FALSE
        BY <1>5
      <4>. QED
        BY <1>2, <1>11, <2>3, OnlyOne DEF AtStore
    <3>2. \A x \in Held(ring[s]) : x.id < id
      <4>1. AtStore(p, s, id)
        BY <1>1, <1>2, <2>3 DEF AtStore
      <4>. QED
        BY <1>11, <2>1, <4>1 DEF InOrder
    <3>3. ASSUME hist'[s].missed = {}
          PROVE  \A x, z \in Held(ring'[s]) : x.at < z.at <=> x.id < z.id
      <4>1. \A x, z \in Held(ring[s]) : x.at < z.at <=> x.id < z.id
        BY <1>11, <2>1, <3>3 DEF InOrder
      <4>2. \A x \in Held(ring[s]) : x.at < point.at /\ x.id < point.id
        BY <1>7, <1>9, <2>3, <3>2, <3>3 DEF TookIn
      <4>3. Held(ring'[s]) \subseteq Held(ring[s]) \cup {point}
        BY <1>8, <1>14, <2>3
      <4>4. Held(ring[s]) \subseteq PointType
        <5>1. ring[s] \in RingType
          BY DEF TypeInv
        <5>. QED
          BY <5>1 DEF RingType, Held, OnDisk
      <4>5. \A x \in Held(ring[s]) \cup {point} : x.at \in Nat /\ x.id \in Nat
        BY <1>2, <4>4 DEF PointType
      <4>6. \A x, z \in Held(ring[s]) \cup {point} : x.at < z.at <=> x.id < z.id
        <5>1. ASSUME NEW x \in Held(ring[s]) \cup {point}, NEW z \in Held(ring[s]) \cup {point}
              PROVE  x.at < z.at <=> x.id < z.id
          BY <4>1, <4>2, <4>5
        <5>. QED
          BY <5>1
      <4>. QED
        BY <4>3, <4>6
    <3>. QED
      BY <3>1, <3>3
  <2>. QED
    BY <2>2, <2>3
<1>12. \A s \in Series : InOrder(s)'
  BY <1>11 DEF InOrder, OneSource
<1>13. \A s \in Series : BufferOK(s)'
  BY <1>2 DEF StoredInv, BufferOK
<1>. QED
  BY <1>10, <1>12, <1>13 DEF StoredInv

LEMMA RestartStored ==
    ASSUME TypeInv, StoredInv, Restart
    PROVE  StoredInv'
<1>. SUFFICES ASSUME NEW s \in Series PROVE BufferOK(s)' /\ Kept(s)' /\ InOrder(s)'
  BY DEF StoredInv
<1>1. /\ hist'[s].verdicts = hist[s].verdicts
      /\ hist'[s].base = Len(hist[s].verdicts)
      /\ Len(hist[s].verdicts) \in Nat /\ hist'[s].missed = hist[s].missed
  <2>1. hist'[s] = [hist[s] EXCEPT !.base = Len(hist[s].verdicts), !.gap = 0, !.shifts = 0]
    BY RestartDoes
  <2>. QED
    BY <2>1, HistFields DEF HistType
<1>2. BufferOK(s)'
  <2>1. buffer'[s] = <<>> /\ Len(<<>>) = 0
    BY RestartDoes
  <2>2. 0 < Need
    BY DetectorAssumption
  <2>. QED
    BY <1>1, <2>1, <2>2 DEF BufferOK, LastOf
<1>3. Kept(s)'
  <2>1. \A i \in Ids(s)' : ~(i > hist'[s].base)
    BY <1>1 DEF Ids
  <2>. QED
    BY <2>1 DEF Kept
<1>4. InOrder(s)'
  <2>1. \A p \in Sources : source'[p].step = 0
    <3>1. source' = [p \in Sources |-> Idle]
      BY RestartDoes
    <3>2. Idle.step = 0
      BY DEF Idle
    <3>. QED
      BY <3>1, <3>2
  <2>2. \A p \in Sources, i \in Nat : ~AtStore(p, s, i)'
    BY <2>1 DEF AtStore
  <2>3. Held(ring'[s]) \subseteq Held(ring[s])
    BY RestartDoes
  <2>5. InOrder(s)
    BY DEF StoredInv
  <2>. QED
    BY <1>1, <2>2, <2>3, <2>5 DEF InOrder, OneSource
<1>. QED
  BY <1>2, <1>3, <1>4

LEMMA StoredStep == TypeInv /\ FlightInv /\ StoredInv /\ [Next]_vars => StoredInv'
<1>. SUFFICES ASSUME TypeInv, FlightInv, StoredInv, [Next]_vars PROVE StoredInv'
  OBVIOUS
<1>1. CASE Advance \/ Train \/ FailTrain \/ UNCHANGED vars
  <2>1. UNCHANGED <<source, buffer, ring, hist>>
    BY <1>1, TrainDoes DEF Advance, FailTrain, vars, ingest, storage, detector
  <2>. QED
    BY <2>1, OthersStored DEF AtStore
<1>2. CASE AddModel
  <2>1. UNCHANGED <<source, buffer, ring, hist>>
    BY <1>2, AddModelDoes DEF ingest, storage
  <2>. QED
    BY <2>1, OthersStored DEF AtStore
<1>3. CASE Tick
  <2>1. UNCHANGED <<source, buffer, ring>>
    BY <1>3, TickDoes DEF ingest, storage, detector
  <2>2. \A p \in Sources, s \in Series, i \in Nat : AtStore(p, s, i)' <=> AtStore(p, s, i)
    BY <2>1 DEF AtStore
  <2>. QED
    BY <1>3, <2>1, <2>2, TickRemembers, OthersStored
<1>4. ASSUME NEW p \in Sources, BeginRound(p) \/ Alert(p) PROVE StoredInv'
  <2>1. UNCHANGED <<buffer, ring, hist>> /\ source[p].step # 2
    <3>1. CASE BeginRound(p)
      BY <3>1, BeginRoundDoes DEF storage, detector, Idle
    <3>2. CASE Alert(p)
      <4>1. source[p].step = 3 /\ UNCHANGED <<storage, detector, hist>>
        BY <3>2, AlertDoes
      <4>. QED
        BY <4>1 DEF storage, detector
    <3>. QED
      BY <1>4, <3>1, <3>2
  <2>2. PICK y : source' = [source EXCEPT ![p] = y] /\ Waiting(y, p)
    BY <1>4, BeginRoundDoes, AlertDoes
  <2>3. y.step # 2
    BY <2>2 DEF Waiting, Idle
  <2>4. source'[p] = y /\ \A q \in Sources \ {p} : source'[q] = source[q]
    BY <2>2, OneSourceMoves
  <2>5. \A q \in Sources, s \in Series, i \in Nat : AtStore(q, s, i)' <=> AtStore(q, s, i)
    BY <2>1, <2>3, <2>4 DEF AtStore
  <2>. QED
    BY <2>1, <2>5, OthersStored
<1>5. ASSUME NEW p \in Sources, Score(p) PROVE StoredInv'
  BY <1>5, ScoreStored
<1>6. ASSUME NEW p \in Sources, Store(p) \/ FailStore(p) PROVE StoredInv'
  BY <1>6, StoringStored
<1>7. CASE Restart
  BY <1>7, RestartStored
<1>. QED
  BY <1>1, <1>2, <1>3, <1>4, <1>5, <1>6, <1>7 DEF Next, Handle, Retrain

LEMMA StoredAlways == Spec => [](TypeInv /\ FlightInv /\ StoredInv)
BY TypeInit, TypeStep, FlightInit, FlightStep, StoredInit, StoredStep, PTL DEF Spec

\* What is known of a series since the start are samples of it.
LEMMA KnownIs ==
    ASSUME TypeInv, FlightInv, NEW s \in Series
    PROVE  Known(s) \subseteq {i \in Ids(s) : i > hist[s].base}
<1>1. \A i \in IdsOf(Held(ring[s])) : i \in Ids(s)
  BY DEF FlightInv, StoredOK, IdsOf
<1>2. ASSUME NEW i \in InFlight(s), i > hist[s].base PROVE i \in Ids(s)
  <2>1. PICK p \in Sources : source[p].series = s /\ source[p].id = i
    BY DEF InFlight
  <2>2. source[p].step > 1
    <3>1. i # 0
      BY <1>2, HistFields
    <3>2. source[p].step \in 0..3 /\ (source[p].step < 2 => source[p].id = 0)
      BY SourceFields
    <3>. QED
      BY <2>1, <3>1, <3>2
  <2>3. HandOK(p)
    BY DEF FlightInv
  <2>. QED
    BY <2>1, <2>2, <2>3 DEF HandOK
<1>. QED
  BY <1>1, <1>2 DEF Known

\* Of a series with one source, of which the store has missed no sample, the
\* buffer holds the last rawBufferLen values, in the order of their times in the
\* store (Detector.Score appends before Pipeline.Ingest does).
THEOREM BufferAlwaysAsStored == Spec => []BufferIsAsStored
<1>1. TypeInv /\ FlightInv /\ StoredInv => BufferIsAsStored
  <2>. SUFFICES ASSUME TypeInv, FlightInv, StoredInv, NEW s \in Series, OneSource(s),
                       hist[s].missed = {}
                PROVE  /\ ToSet(buffer[s]) \subseteq Known(s) \cup hist[s].wiped
                       /\ \A i \in Known(s) \ ToSet(buffer[s]) :
                             Len(buffer[s]) = Need /\ \A j \in ToSet(buffer[s]) : i < j
                       /\ \A i, j \in DOMAIN buffer[s] : i < j => buffer[s][i] < buffer[s][j]
                       /\ \A x, z \in Held(ring[s]) : x.at < z.at <=> x.id < z.id
    BY DEF BufferIsAsStored
  <2>1. PICK n, b, old, len :
            /\ n = Len(hist[s].verdicts) /\ b = hist[s].base
            /\ old = buffer[s] /\ len = Len(old)
    OBVIOUS
  <2>2. n \in Nat /\ b \in Nat /\ b <= n
    BY <2>1, HistFields DEF FlightInv
  <2>3. len \in Nat /\ DOMAIN old = 1..len
    BY <2>1, LenProperties DEF TypeInv
  <2>4. /\ Need \in Nat \ {0} /\ len = IF n - b < Need THEN n - b ELSE Need
        /\ \A i \in 1..len : old[i] = n - len + i
    BY <2>1, DetectorAssumption DEF StoredInv, BufferOK, LastOf
  <2>5. \A i \in 1..len : old[i] \in (b + 1)..n /\ n - len < old[i]
    <3>1. ASSUME NEW i \in 1..len PROVE old[i] \in (b + 1)..n /\ n - len < old[i]
      <4>1. PICK x \in Int : x = n - len + i
        BY <2>2, <2>3
      <4>2. x \in (b + 1)..n /\ n - len < x
        BY <2>2, <2>3, <2>4, <4>1
      <4>3. old[i] = x
        BY <2>4, <4>1
      <4>. QED
        BY <4>2, <4>3
    <3>. QED
      BY <3>1
  <2>6. ToSet(buffer[s]) = {old[i] : i \in 1..len}
    BY <2>1, <2>3 DEF ToSet
  <2>7. ToSet(buffer[s]) \subseteq Known(s) \cup hist[s].wiped
    <3>1. ASSUME NEW i \in (b + 1)..n PROVE i \in Known(s) \cup hist[s].wiped
      <4>1. i \in Ids(s) /\ i > hist[s].base
        BY <2>1, <2>2 DEF Ids
      <4>2. \/ i \in hist[s].wiped \cup IdsOf(Held(ring[s]))
            \/ \E p \in Sources : AtStore(p, s, i)
        BY <4>1 DEF StoredInv, Kept
      <4>3. (\E p \in Sources : AtStore(p, s, i)) => i \in InFlight(s)
        BY DEF AtStore, InFlight
      <4>. QED
        BY <4>1, <4>2, <4>3 DEF Known
    <3>. QED
      BY <2>5, <2>6, <3>1
  <2>8. ASSUME NEW i \in Known(s) \ ToSet(buffer[s])
        PROVE  Len(buffer[s]) = Need /\ \A j \in ToSet(buffer[s]) : i < j
    <3>1. i \in (b + 1)..n
      <4>1. i \in 1..n /\ i > b
        BY <2>1, KnownIs DEF Ids
      <4>. QED
        BY <2>2, <4>1
    <3>2. ~(i > n - len)
      <4>1. SUFFICES ASSUME i > n - len PROVE FALSE
        OBVIOUS
      <4>2. PICK k \in Int : k = i - n + len
        BY <2>2, <2>3, <3>1
      <4>3. k \in 1..len /\ n - len + k = i
        BY <2>2, <2>3, <3>1, <4>1, <4>2
      <4>4. old[k] = i
        BY <2>4, <4>3
      <4>. QED
        BY <2>6, <4>3, <4>4
    <3>3. i <= n - len /\ len = Need
      BY <2>2, <2>3, <2>4, <3>1, <3>2
    <3>4. \A k \in 1..len : i < old[k]
      <4>1. ASSUME NEW k \in 1..len PROVE i < old[k]
        <5>1. PICK x \in Int : x = old[k] /\ n - len < x
          BY <2>5
        <5>. QED
          BY <2>2, <2>3, <3>1, <3>3, <5>1
      <4>. QED
        BY <4>1
    <3>. QED
      BY <2>1, <2>6, <3>3, <3>4
  <2>9. \A i, j \in 1..len : i < j => old[i] < old[j]
    <3>1. ASSUME NEW i \in 1..len, NEW j \in 1..len, i < j PROVE old[i] < old[j]
      <4>1. old[i] = n - len + i /\ old[j] = n - len + j
        BY <2>4
      <4>2. n - len + i < n - len + j
        BY <2>2, <2>3, <3>1
      <4>. QED
        BY <4>1, <4>2
    <3>. QED
      BY <3>1
  <2>10. \A i, j \in DOMAIN buffer[s] : i < j => buffer[s][i] < buffer[s][j]
    BY <2>1, <2>3, <2>9
  <2>11. \A x, z \in Held(ring[s]) : x.at < z.at <=> x.id < z.id
    BY DEF StoredInv, InOrder
  <2>. QED
    BY <2>7, <2>8, <2>10, <2>11
<1>. QED
  BY <1>1, StoredAlways, PTL

-----------------------------------------------------------------------------
(* Feature vectors *)

\* Numbers that start alike and grow alike are the same.
LEMMA SameSums ==
    ASSUME NEW m \in Nat, NEW f \in [0..m -> Int], NEW g \in [0..m -> Int], f[0] = g[0],
           \A i \in 1..m : f[i - 1] = g[i - 1] => f[i] = g[i]
    PROVE  f = g
<1>. DEFINE Wrong == {i \in 0..m : f[i] # g[i]}
<1>0. ASSUME Wrong = {} PROVE f = g
  <2>1. \A i \in 0..m : f[i] = g[i]
    BY <1>0
  <2>. QED
    BY <2>1
<1>. SUFFICES ASSUME Wrong # {} PROVE FALSE
  BY <1>0
<1>1. Wrong \subseteq Nat
  OBVIOUS
<1>2. PICK k \in Wrong : \A i \in Wrong : k <= i
  <2>. HIDE DEF Wrong
  <2>. QED
    BY <1>1, LeastOf
<1>3. k \in 1..m /\ k - 1 \in 0..m
  <2>1. k # 0
    BY <1>2
  <2>. QED
    BY <1>2, <2>1
<1>4. f[k - 1] = g[k - 1]
  <2>1. ~(k <= k - 1)
    BY <1>3
  <2>2. k - 1 \notin Wrong
    BY <1>2, <2>1
  <2>. QED
    BY <1>3, <2>2
<1>. QED
  BY <1>2, <1>3, <1>4

\* A function with the sums of the first n terms.
SumsUpTo(s, g, n) == /\ g \in [0..Len(s) -> Int]
                     /\ g[0] = 0
                     /\ \A i \in 1..n : g[i] = g[i - 1] + s[i]

LEMMA SumsExist ==
    ASSUME NEW s \in Seq(Int)
    PROVE  \E g : SumsUpTo(s, g, Len(s))
<1>. PICK n : n = Len(s)
  OBVIOUS
<1>1. n \in Nat /\ \A i \in 1..n : s[i] \in Int
  OBVIOUS
<1>. DEFINE Wrong == {k \in 0..n : ~\E g : SumsUpTo(s, g, k)}
<1>. SUFFICES ASSUME Wrong # {} PROVE FALSE
  BY <1>1
<1>2. PICK k \in Wrong : \A i \in Wrong : k <= i
  <2>1. Wrong \subseteq Nat
    BY <1>1
  <2>. HIDE DEF Wrong
  <2>. QED
    BY <2>1, LeastOf
<1>3. CASE k = 0
  <2>1. SumsUpTo(s, [i \in 0..Len(s) |-> 0], 0)
    BY <1>1 DEF SumsUpTo
  <2>. QED
    BY <1>2, <1>3, <2>1
<1>4. CASE k # 0
  <2>1. k \in 1..n /\ k - 1 \in 0..n /\ ~(k <= k - 1)
    BY <1>1, <1>2, <1>4
  <2>2. k - 1 \notin Wrong
    BY <1>2, <2>1
  <2>3. PICK g : SumsUpTo(s, g, k - 1)
    BY <2>1, <2>2
  <2>. DEFINE h == [g EXCEPT ![k] = g[k - 1] + s[k]]
  <2>4. g \in [0..n -> Int] /\ g[0] = 0 /\ \A i \in 1..(k - 1) : g[i] = g[i - 1] + s[i]
    BY <2>3 DEF SumsUpTo
  <2>5. g[k - 1] + s[k] \in Int
    <3>1. g[k - 1] \in Int /\ s[k] \in Int
      BY <1>1, <2>1, <2>4
    <3>. QED
      BY <3>1
  <2>6. h \in [0..n -> Int] /\ h[0] = 0 /\ h[k] = g[k - 1] + s[k] /\ h[k - 1] = g[k - 1]
    BY <1>1, <2>1, <2>4, <2>5
  <2>7. ASSUME NEW i \in 1..k PROVE h[i] = h[i - 1] + s[i]
    <3>1. CASE i = k
      BY <2>6, <3>1
    <3>2. CASE i # k
      <4>1. i \in 1..(k - 1) /\ i \in 0..n /\ i - 1 \in 0..n /\ i # k /\ i - 1 # k
        BY <1>1, <2>1, <3>2
      <4>2. h[i] = g[i] /\ h[i - 1] = g[i - 1]
        BY <2>4, <4>1
      <4>. QED
        BY <2>4, <4>1, <4>2
    <3>. QED
      BY <3>1, <3>2
  <2>. HIDE DEF h
  <2>8. SumsUpTo(s, h, k)
    BY <2>6, <2>7 DEF SumsUpTo
  <2>. QED
    BY <1>2, <2>8
<1>. QED
  BY <1>3, <1>4

LEMMA RunningSumIs ==
    ASSUME NEW s \in Seq(Int)
    PROVE  /\ RunningSum(s) \in [0..Len(s) -> Int]
           /\ RunningSum(s)[0] = 0
           /\ \A i \in 1..Len(s) : RunningSum(s)[i] = RunningSum(s)[i - 1] + s[i]
<1>. DEFINE Right(f) == f = [i \in 0..Len(s) |-> IF i = 0 THEN 0 ELSE f[i - 1] + s[i]]
<1>1. Len(s) \in Nat
  OBVIOUS
<1>2. PICK g : SumsUpTo(s, g, Len(s))
  BY SumsExist
<1>3. Right(g)
  <2>1. \A i \in 0..Len(s) : g[i] = IF i = 0 THEN 0 ELSE g[i - 1] + s[i]
    BY <1>1, <1>2 DEF SumsUpTo
  <2>2. g = [i \in 0..Len(s) |-> g[i]]
    BY <1>2 DEF SumsUpTo
  <2>. QED
    BY <2>1, <2>2
<1>4. RunningSum(s) = CHOOSE f : Right(f)
  BY DEF RunningSum
<1>5. Right(RunningSum(s))
  <2>. HIDE DEF Right
  <2>. QED
    BY <1>3, <1>4
<1>. PICK f : f = RunningSum(s)
  OBVIOUS
<1>6. f = [i \in 0..Len(s) |-> f[i]] /\ f[0] = 0 /\ \A i \in 1..Len(s) : f[i] = f[i - 1] + s[i]
  BY <1>1, <1>5
<1>. HIDE DEF Right
<1>. DEFINE Wrong == {i \in 0..Len(s) : f[i] \notin Int}
<1>7. ASSUME Wrong # {} PROVE FALSE
  <2>1. PICK k \in Wrong : \A i \in Wrong : k <= i
    <3>1. Wrong \subseteq Nat
      BY <1>1
    <3>. HIDE DEF Wrong
    <3>. QED
      BY <1>7, <3>1, LeastOf
  <2>2. k \in 1..Len(s) /\ k - 1 \in 0..Len(s) /\ ~(k <= k - 1)
    BY <1>1, <1>6, <2>1
  <2>3. f[k - 1] \in Int /\ s[k] \in Int
    BY <2>1, <2>2
  <2>4. f[k] = f[k - 1] + s[k]
    BY <1>6, <2>2
  <2>. QED
    BY <2>1, <2>3, <2>4
<1>. QED
  BY <1>6, <1>7

\* Sums over a part of a sequence: the running sums of the part are those of
\* the sequence, less the one that the part begins with.
LEMMA SumsOfPart ==
    ASSUME NEW s \in Seq(Int), NEW a \in Nat, NEW m \in Nat, a + m <= Len(s)
    PROVE  /\ SubSeq(s, a + 1, a + m) \in Seq(Int) /\ Len(SubSeq(s, a + 1, a + m)) = m
           /\ RunningSum(SubSeq(s, a + 1, a + m))
                 = [i \in 0..m |-> RunningSum(s)[a + i] - RunningSum(s)[a]]
<1>. DEFINE t == SubSeq(s, a + 1, a + m)
            p == RunningSum(s)
            q == RunningSum(t)
            g == [i \in 0..m |-> p[a + i] - p[a]]
<1>1. t \in Seq(Int) /\ Len(t) = m /\ \A i \in 1..m : t[i] = s[a + i]
  BY SubSeqProperties
<1>2. p \in [0..Len(s) -> Int] /\ \A i \in 1..Len(s) : p[i] = p[i - 1] + s[i]
  BY RunningSumIs
<1>3. q \in [0..m -> Int] /\ q[0] = 0 /\ \A i \in 1..m : q[i] = q[i - 1] + t[i]
  BY <1>1, RunningSumIs
<1>. HIDE DEF t, p, q
<1>4. Len(s) \in Nat /\ \A i \in 0..m : a + i \in 0..Len(s)
  OBVIOUS
<1>5. \A i \in 0..m : p[a + i] \in Int
  BY <1>2, <1>4
<1>6. g \in [0..m -> Int] /\ g[0] = 0
  <2>1. p[a] \in Int /\ a + 0 = a /\ 0 \in 0..m /\ p[a] - p[a] = 0
    <3>1. a \in 0..Len(s)
      BY <1>4
    <3>2. p[a] \in Int
      BY <1>2, <3>1
    <3>. QED
      BY <3>2
  <2>2. \A x, y \in Int : x - y \in Int
    OBVIOUS
  <2>3. \A i \in 0..m : p[a + i] - p[a] \in Int
    BY <1>5, <2>1, <2>2
  <2>. QED
    BY <2>1, <2>3
<1>7. ASSUME NEW i \in 1..m, q[i - 1] = g[i - 1] PROVE q[i] = g[i]
  <2>1. i - 1 \in 0..m /\ i \in 0..m /\ a + i \in 1..Len(s) /\ (a + i) - 1 = a + (i - 1)
    BY <1>4
  <2>2. p[a + i] = p[a + (i - 1)] + s[a + i] /\ t[i] = s[a + i] /\ s[a + i] \in Int
    BY <1>1, <1>2, <2>1
  <2>3. p[a] \in Int /\ p[a + (i - 1)] \in Int
    <3>1. a \in 0..Len(s)
      BY <1>4
    <3>2. p[a] \in Int
      BY <1>2, <3>1
    <3>. QED
      BY <1>5, <2>1, <3>2
  <2>4. g[i] = p[a + i] - p[a] /\ g[i - 1] = p[a + (i - 1)] - p[a]
    BY <2>1
  <2>5. q[i] = q[i - 1] + s[a + i]
    BY <1>3, <2>2
  <2>. HIDE DEF g
  <2>6. /\ q[i] = (p[a + (i - 1)] - p[a]) + s[a + i]
        /\ g[i] = (p[a + (i - 1)] + s[a + i]) - p[a]
    BY <1>7, <2>2, <2>4, <2>5
  <2>7. \A x, y, z \in Int : (x - y) + z = (x + z) - y
    OBVIOUS
  <2>. QED
    BY <2>2, <2>3, <2>6, <2>7
<1>. HIDE DEF g
<1>8. q = g
  <2>1. q[0] = g[0] /\ \A i \in 1..m : q[i - 1] = g[i - 1] => q[i] = g[i]
    BY <1>3, <1>6, <1>7
  <2>. QED
    BY <1>3, <1>6, <2>1, SameSums, Zenon
<1>. QED
  BY <1>1, <1>8 DEF t, p, q, g

\* The sum of n values up to a place, from the running sums.
LEMMA WindowIs ==
    ASSUME NEW s \in Seq(Int), NEW n \in Nat, NEW last \in 0..Len(s), n <= last
    PROVE  WindowSum(s, last, n) = RunningSum(s)[last] - RunningSum(s)[last - n]
<1>. DEFINE t == SubSeq(s, last - n + 1, last)
<1>1. last - n \in Nat /\ (last - n) + n = last /\ (last - n) + n <= Len(s)
  OBVIOUS
<1>2. /\ Len(t) = n
      /\ RunningSum(t) = [i \in 0..n |-> RunningSum(s)[(last - n) + i] - RunningSum(s)[last - n]]
  BY <1>1, SumsOfPart
<1>3. RunningSum(t)[n] = RunningSum(s)[(last - n) + n] - RunningSum(s)[last - n]
  BY <1>2
<1>. HIDE DEF t
<1>4. WindowSum(s, last, n) = RunningSum(t)[n]
  BY <1>2 DEF WindowSum, Sum, t
<1>. QED
  BY <1>1, <1>3, <1>4

LEMMA Rearranged ==
    ASSUME NEW x \in Int, NEW y \in Int, NEW z \in Int, NEW u \in Int, NEW v \in Int
    PROVE  ((x - y) - z) + (u - v) = ((x + u) - y) - (z + v)
OBVIOUS

\* The changes of n places, and their running sums.
LEMMA ChangesAre ==
    ASSUME NEW s \in Seq(Int), NEW n \in Nat, n <= Len(s),
           NEW d, d = [i \in 1..(Len(s) - n) |-> s[i + n] - s[i]]
    PROVE  /\ d \in Seq(Int) /\ Len(d) = Len(s) - n
           /\ RunningSum(d) = [i \in 0..(Len(s) - n) |->
                 (RunningSum(s)[i + n] - RunningSum(s)[n]) - RunningSum(s)[i]]
<1>0. Len(s) - n \in Nat
  OBVIOUS
<1>. PICK m \in Nat : m = Len(s) - n
  BY <1>0
<1>. DEFINE p == RunningSum(s)
            q == RunningSum(d)
            g == [i \in 0..m |-> (p[i + n] - p[n]) - p[i]]
<1>1. \A i \in 1..m : s[i + n] \in Int /\ s[i] \in Int
  OBVIOUS
<1>2. d \in [1..m -> Int] /\ \A i \in 1..m : d[i] = s[i + n] - s[i]
  BY <1>1
<1>3. d \in Seq(Int) /\ Len(d) = m
  BY <1>2
<1>4. p \in [0..Len(s) -> Int] /\ p[0] = 0 /\ \A i \in 1..Len(s) : p[i] = p[i - 1] + s[i]
  BY RunningSumIs
<1>5. q \in [0..m -> Int] /\ q[0] = 0 /\ \A i \in 1..m : q[i] = q[i - 1] + d[i]
  BY <1>3, RunningSumIs
<1>. HIDE DEF p, q
<1>6. \A i \in 0..m : i + n \in 0..Len(s) /\ i \in 0..Len(s)
  OBVIOUS
<1>7. p[n] \in Int /\ \A i \in 0..m : p[i + n] \in Int /\ p[i] \in Int
  <2>1. n \in 0..Len(s)
    BY <1>0
  <2>2. p[n] \in Int
    BY <1>4, <2>1
  <2>. QED
    BY <1>4, <1>6, <2>2
<1>8. g \in [0..m -> Int] /\ g[0] = 0
  <2>1. \A i \in 0..m : (p[i + n] - p[n]) - p[i] \in Int
    BY <1>7
  <2>2. g[0] = (p[0 + n] - p[n]) - p[0]
    OBVIOUS
  <2>3. (p[0 + n] - p[n]) - p[0] = 0
    BY <1>4, <1>7
  <2>. QED
    BY <2>1, <2>2, <2>3
<1>9. ASSUME NEW i \in 1..m, q[i - 1] = g[i - 1] PROVE q[i] = g[i]
  <2>1. /\ i - 1 \in 0..m /\ i \in 0..m /\ i \in 1..Len(s) /\ i + n \in 1..Len(s)
        /\ (i + n) - 1 = (i - 1) + n
    OBVIOUS
  <2>2. p[i + n] = p[(i - 1) + n] + s[i + n] /\ p[i] = p[i - 1] + s[i]
    BY <1>4, <2>1
  <2>3. p[n] \in Int /\ p[(i - 1) + n] \in Int /\ p[i - 1] \in Int /\ s[i + n] \in Int /\ s[i] \in Int
    BY <1>1, <1>7, <2>1
  <2>4. g[i] = (p[i + n] - p[n]) - p[i] /\ g[i - 1] = (p[(i - 1) + n] - p[n]) - p[i - 1]
    BY <2>1
  <2>5. q[i] = q[i - 1] + (s[i + n] - s[i])
    BY <1>2, <1>5
  <2>. HIDE DEF g
  <2>6. /\ q[i] = ((p[(i - 1) + n] - p[n]) - p[i - 1]) + (s[i + n] - s[i])
        /\ g[i] = ((p[(i - 1) + n] + s[i + n]) - p[n]) - (p[i - 1] + s[i])
    BY <1>9, <2>2, <2>4, <2>5
  <2>. QED
    <3>0. PICK x, y, z, u, v : x = p[(i - 1) + n] /\ y = p[n] /\ z = p[i - 1] /\ u = s[i + n] /\ v = s[i]
      OBVIOUS
    <3>1. x \in Int /\ y \in Int /\ z \in Int /\ u \in Int /\ v \in Int
      BY <2>3, <3>0
    <3>2. q[i] = ((x - y) - z) + (u - v) /\ g[i] = ((x + u) - y) - (z + v)
      BY <2>6, <3>0
    <3>3. ((x - y) - z) + (u - v) = ((x + u) - y) - (z + v)
      BY <3>1, Rearranged
    <3>. QED
      BY <3>2, <3>3
<1>. HIDE DEF g
<1>10. q = g
  <2>1. q[0] = g[0] /\ \A i \in 1..m : q[i - 1] = g[i - 1] => q[i] = g[i]
    BY <1>5, <1>8, <1>9
  <2>. QED
    BY <1>5, <1>8, <2>1, SameSums, Zenon
<1>. QED
  BY <1>3, <1>10 DEF p, q, g

\* movingAverage's running sum is the sum of the window.
LEMMA AverageIs ==
    ASSUME NEW s \in Seq(Int), NEW n \in Nat, NEW k \in Nat, k <= Len(s),
           n <= 1 => k = 1, ~(n <= 1) => k = n
    PROVE  /\ MovingAverage(s, n) \in Seq(Int) /\ Len(MovingAverage(s, n)) = Len(s) - k + 1
           /\ \A i \in 1..(Len(s) - k + 1) :
                 MovingAverage(s, n)[i] = RunningSum(s)[i + k - 1] - RunningSum(s)[i - 1]
<1>. DEFINE p == RunningSum(s)
<1>1. p \in [0..Len(s) -> Int] /\ p[0] = 0 /\ \A i \in 1..Len(s) : p[i] = p[i - 1] + s[i]
  BY RunningSumIs
<1>. HIDE DEF p
<1>2. CASE n <= 1
  <2>1. MovingAverage(s, n) = s /\ k = 1 /\ Len(s) - k + 1 = Len(s)
    BY <1>2 DEF MovingAverage
  <2>2. ASSUME NEW i \in 1..Len(s) PROVE s[i] = p[i] - p[i - 1]
    <3>1. i \in 0..Len(s) /\ i - 1 \in 0..Len(s) /\ s[i] \in Int
      OBVIOUS
    <3>2. p[i - 1] \in Int /\ p[i] = p[i - 1] + s[i]
      BY <1>1, <3>1
    <3>. QED
      BY <3>1, <3>2
  <2>3. \A i \in 1..Len(s) : i + k - 1 = i
    BY <2>1
  <2>. QED
    BY <2>1, <2>2, <2>3 DEF p
<1>3. CASE ~(n <= 1)
  <2>. DEFINE d == [i \in 1..(Len(s) - n) |-> s[i + n] - s[i]]
              first == Sum(SubSeq(s, 1, n))
              r == [i \in 1..(Len(s) - n + 1) |-> first + RunningSum(d)[i - 1]]
  <2>1. k = n /\ n <= Len(s) /\ n \in 0..Len(s) /\ ~(Len(s) < n)
    BY <1>3
  <2>2. MovingAverage(s, n) = r
    BY <1>3, <2>1 DEF MovingAverage, Rolling
  <2>3. first = p[n]
    <3>1. WindowSum(s, n, n) = p[n] - p[0]
      <4>1. WindowSum(s, n, n) = p[n] - p[n - n]
        BY <2>1, WindowIs DEF p
      <4>. QED
        BY <4>1
    <3>2. n - n + 1 = 1 /\ p[n] \in Int
      BY <1>1, <2>1
    <3>3. WindowSum(s, n, n) = first
      BY <3>2 DEF WindowSum
    <3>. QED
      BY <1>1, <3>1, <3>2, <3>3
  <2>4. RunningSum(d) = [i \in 0..(Len(s) - n) |-> (p[i + n] - p[n]) - p[i]]
    BY <2>1, ChangesAre DEF p
  <2>. HIDE DEF first, d
  <2>5. ASSUME NEW i \in 1..(Len(s) - n + 1)
        PROVE  r[i] = p[i + n - 1] - p[i - 1] /\ r[i] \in Int
    <3>1. /\ i - 1 \in 0..(Len(s) - n) /\ i - 1 \in 0..Len(s) /\ i + n - 1 \in 0..Len(s)
          /\ (i - 1) + n = i + n - 1
      BY <2>1
    <3>2. r[i] = p[n] + ((p[i + n - 1] - p[n]) - p[i - 1])
      BY <2>3, <2>4, <3>1
    <3>3. p[n] \in Int /\ p[i + n - 1] \in Int /\ p[i - 1] \in Int
      BY <1>1, <2>1, <3>1
    <3>. HIDE DEF r
    <3>4. PICK x, y, z : x = p[n] /\ y = p[i + n - 1] /\ z = p[i - 1]
      OBVIOUS
    <3>5. x \in Int /\ y \in Int /\ z \in Int
      BY <3>3, <3>4
    <3>6. x + ((y - x) - z) = y - z /\ y - z \in Int
      BY <3>5
    <3>7. r[i] = x + ((y - x) - z)
      BY <3>2, <3>4
    <3>. QED
      BY <3>4, <3>6, <3>7
  <2>6. r \in [1..(Len(s) - n + 1) -> Int]
    BY <2>5
  <2>7. Len(s) - n + 1 \in Nat
    BY <2>1
  <2>. HIDE DEF r
  <2>8. r \in Seq(Int) /\ Len(r) = Len(s) - n + 1
    <3>1. PICK m \in Nat : m = Len(s) - n + 1
      BY <2>7
    <3>2. r \in [1..m -> Int]
      BY <2>6, <3>1
    <3>. QED
      BY <3>1, <3>2
  <2>. QED
    BY <2>1, <2>2, <2>5, <2>8 DEF p
<1>. QED
  BY <1>2, <1>3

Settings == [diffN : Nat, smoothN : Nat, lagN : Nat]

\* The feature of a place, from the running sums.
LEMMA FeatureIs ==
    ASSUME NEW s \in Seq(Int), NEW f \in Settings, NEW last \in 0..Len(s),
           f.diffN + Smooth(f) <= last
    PROVE  LET p == RunningSum(s)
               k == Smooth(f)
           IN  Feature(s, f, last) =
                  (p[last] - p[last - k])
                      - IF f.diffN = 0 THEN 0 ELSE p[last - f.diffN] - p[last - f.diffN - k]
<1>1. Smooth(f) \in Nat /\ Smooth(f) <= last /\ f.diffN \in Nat
  BY DEF Smooth, Settings
<1>2. last - f.diffN \in 0..Len(s) /\ Smooth(f) <= last - f.diffN
  BY <1>1
<1>. QED
  BY <1>1, <1>2, WindowIs DEF Feature

\* Differencing and smoothing make the features of the places.
LEMMA SmoothedIs ==
    ASSUME NEW s \in Seq(Int), NEW f \in Settings, f.diffN + Smooth(f) <= Len(s),
           NEW v, v = MovingAverage(Diff(s, f.diffN), f.smoothN),
           NEW m, m = Len(s) - f.diffN - Smooth(f) + 1
    PROVE  /\ v \in Seq(Int) /\ Len(v) = m /\ m \in Nat
           /\ \A i \in 1..m : v[i] = Feature(s, f, i + f.diffN + Smooth(f) - 1)
<1>0. f.diffN \in Nat /\ Smooth(f) \in Nat /\ f.smoothN \in Nat /\ Len(s) \in Nat
  BY DEF Smooth, Settings
<1>1. PICK d \in Nat, k \in Nat, n \in Nat, l \in Nat :
          d = f.diffN /\ k = Smooth(f) /\ n = f.smoothN /\ l = Len(s)
  BY <1>0
<1>2. k >= 1 /\ (n <= 1 => k = 1) /\ (~(n <= 1) => k = n)
  <2>1. k = IF n < 1 THEN 1 ELSE n
    BY <1>1 DEF Smooth
  <2>. QED
    BY <2>1
<1>10. d + k <= l /\ m = l - d - k + 1
  BY <1>1
<1>3. d + k <= Len(s) /\ m = Len(s) - d - k + 1 /\ m \in Nat
  <2>1. l - d - k + 1 \in Nat
    BY <1>10
  <2>. QED
    BY <1>1, <1>10, <2>1
<1>. DEFINE p == RunningSum(s)
            e == Diff(s, d)
            q == RunningSum(e)
<1>4. p \in [0..Len(s) -> Int]
  BY RunningSumIs
<1>7. d = 0 => e = s /\ q = p
  BY DEF Diff
<1>6. ASSUME d # 0
      PROVE  /\ e \in Seq(Int) /\ Len(e) = Len(s) - d
             /\ q = [i \in 0..(Len(s) - d) |-> (p[i + d] - p[d]) - p[i]]
  <2>1. e = [i \in 1..(Len(s) - d) |-> s[i + d] - s[i]]
    BY <1>6 DEF Diff
  <2>2. d <= Len(s)
    BY <1>2, <1>3
  <2>. HIDE DEF e
  <2>. QED
    BY <1>2, <2>1, <2>2, ChangesAre
<1>. HIDE DEF p, e, q
<1>5. e \in Seq(Int) /\ Len(e) = Len(s) - d
  BY <1>6, <1>7
<1>8. /\ v \in Seq(Int) /\ Len(v) = m
      /\ \A i \in 1..m : v[i] = q[i + k - 1] - q[i - 1]
  <2>1. v = MovingAverage(e, n) /\ k <= Len(e) /\ Len(e) - k + 1 = m
    BY <1>1, <1>2, <1>3, <1>5 DEF e
  <2>0. /\ e \in Seq(Int) /\ n \in Nat /\ k <= Len(e)
        /\ (n <= 1 => k = 1) /\ (~(n <= 1) => k = n)
    BY <1>2, <1>5, <2>1
  <2>4. /\ MovingAverage(e, n) \in Seq(Int) /\ Len(MovingAverage(e, n)) = Len(e) - k + 1
        /\ \A i \in 1..(Len(e) - k + 1) :
              MovingAverage(e, n)[i] = RunningSum(e)[i + k - 1] - RunningSum(e)[i - 1]
    <3>1. PICK c \in Seq(Int) : c = e
      BY <2>0
    <3>2. k <= Len(c)
      BY <2>0, <3>1
    <3>3. /\ MovingAverage(c, n) \in Seq(Int) /\ Len(MovingAverage(c, n)) = Len(c) - k + 1
          /\ \A i \in 1..(Len(c) - k + 1) :
                MovingAverage(c, n)[i] = RunningSum(c)[i + k - 1] - RunningSum(c)[i - 1]
      BY <2>0, <3>2, AverageIs, Zenon
    <3>. QED
      BY <3>1, <3>3
  <2>2. \A i \in 1..(Len(e) - k + 1) : v[i] = q[i + k - 1] - q[i - 1]
    BY <2>1, <2>4, Zenon DEF q
  <2>3. v \in Seq(Int) /\ Len(v) = Len(e) - k + 1
    BY <2>1, <2>4
  <2>. QED
    BY <2>1, <2>2, <2>3
<1>9. ASSUME NEW i \in 1..m PROVE v[i] = Feature(s, f, i + d + k - 1)
  <2>1. PICK last : last = i + d + k - 1
    OBVIOUS
  <2>2. /\ last \in 0..Len(s) /\ d + k <= last /\ last - k = i + d - 1
        /\ last - d = i + k - 1 /\ last - d - k = i - 1
        /\ i + k - 1 \in 0..(Len(s) - d) /\ i - 1 \in 0..(Len(s) - d)
        /\ (i + k - 1) + d = last /\ (i - 1) + d = i + d - 1
        /\ i + d - 1 \in 0..Len(s) /\ i - 1 \in 0..Len(s) /\ i + k - 1 \in 0..Len(s)
    <3>2. i \in 1..(l - d - k + 1) /\ d + k <= l
      BY <1>10
    <3>1. last \in 0..l /\ d + k <= last
      BY <1>2, <2>1, <3>2
    <3>3. i + d - 1 \in 0..l /\ i - 1 \in 0..l /\ i + k - 1 \in 0..l
      BY <1>2, <3>2
    <3>4. i + k - 1 \in 0..(l - d) /\ i - 1 \in 0..(l - d)
      BY <1>2, <3>2
    <3>5. /\ last - k = i + d - 1 /\ last - d = i + k - 1 /\ last - d - k = i - 1
          /\ (i + k - 1) + d = last /\ (i - 1) + d = i + d - 1
      BY <1>2, <2>1, <3>2
    <3>. QED
      BY <1>1, <3>1, <3>3, <3>4, <3>5
  <2>3. Feature(s, f, last) =
           (p[last] - p[last - k]) - IF d = 0 THEN 0 ELSE p[last - d] - p[last - d - k]
    BY <1>1, <2>2, FeatureIs DEF p
  <2>4. v[i] = q[i + k - 1] - q[i - 1]
    BY <1>8
  <2>5. /\ p[last] \in Int /\ p[i + d - 1] \in Int /\ p[i + k - 1] \in Int /\ p[i - 1] \in Int
        /\ p[d] \in Int
    <3>1. d \in 0..Len(s)
      BY <1>2, <1>3
    <3>. QED
      BY <1>4, <2>2, <3>1
  <2>6. CASE d = 0
    <3>1. v[i] = p[last] - p[i + d - 1]
      <4>1. i + k - 1 = last /\ i - 1 = i + d - 1
        BY <2>1, <2>6
      <4>. QED
        BY <1>7, <2>4, <2>6, <4>1
    <3>2. Feature(s, f, last) = (p[last] - p[i + d - 1]) - 0
      BY <2>2, <2>3, <2>6
    <3>3. (p[last] - p[i + d - 1]) - 0 = p[last] - p[i + d - 1]
      BY <2>5
    <3>. QED
      BY <2>1, <3>1, <3>2, <3>3
  <2>7. CASE d # 0
    <3>1. q[i + k - 1] = (p[last] - p[d]) - p[i + k - 1]
      BY <1>6, <2>2, <2>7
    <3>2. q[i - 1] = (p[i + d - 1] - p[d]) - p[i - 1]
      BY <1>6, <2>2, <2>7
    <3>3. Feature(s, f, last) = (p[last] - p[i + d - 1]) - (p[i + k - 1] - p[i - 1])
      BY <2>2, <2>3, <2>7
    <3>4. PICK x, y, z, u, w : /\ x = p[last] /\ y = p[i + k - 1] /\ z = p[i + d - 1]
                               /\ u = p[i - 1] /\ w = p[d]
      OBVIOUS
    <3>5. x \in Int /\ y \in Int /\ z \in Int /\ u \in Int /\ w \in Int
      BY <2>5, <3>4
    <3>6. ((x - w) - y) - ((z - w) - u) = (x - z) - (y - u)
      BY <3>5
    <3>7. v[i] = ((x - w) - y) - ((z - w) - u) /\ Feature(s, f, last) = (x - z) - (y - u)
      BY <2>4, <3>1, <3>2, <3>3, <3>4
    <3>. QED
      BY <2>1, <3>6, <3>7
  <2>. QED
    BY <2>6, <2>7
<1>. QED
  BY <1>1, <1>3, <1>8, <1>9

\* Preprocess in closed form: a vector is the features of lagN + 1 places.
LEMMA PreprocessIs ==
    ASSUME NEW s \in Seq(Int), NEW f \in Settings, RawBufferLen(f) <= Len(s)
    PROVE  Preprocess(s, f) =
              [i \in 1..(Len(s) - RawBufferLen(f) + 1) |->
                  [j \in 1..(f.lagN + 1) |-> Feature(s, f, i + j + f.diffN + Smooth(f) - 2)]]
<1>A. /\ f.diffN \in Nat /\ Smooth(f) \in Nat /\ f.lagN \in Nat /\ Len(s) \in Nat
      /\ Smooth(f) >= 1
  BY DEF Smooth, Settings
<1>B. PICK d \in Nat, k \in Nat, g \in Nat, l \in Nat :
          d = f.diffN /\ k = Smooth(f) /\ g = f.lagN /\ l = Len(s)
  BY <1>A
<1>C. RawBufferLen(f) = d + k + g
  BY <1>B DEF RawBufferLen
<1>1. k >= 1 /\ d + k + g <= l
  BY <1>A, <1>B, <1>C
<1>0. PICK m \in Nat : m = l - d - k + 1
  <2>1. l - d - k + 1 \in Nat
    BY <1>1
  <2>. QED
    BY <2>1
<1>D. PICK v : v = MovingAverage(Diff(s, d), f.smoothN)
  OBVIOUS
<1>2. /\ v \in Seq(Int) /\ Len(v) = m /\ m \in Nat
      /\ \A i \in 1..m : v[i] = Feature(s, f, i + d + k - 1)
  <2>1. d + k <= l
    BY <1>1
  <2>. QED
    <3>1. f.diffN + Smooth(f) <= Len(s) /\ v = MovingAverage(Diff(s, f.diffN), f.smoothN)
      BY <1>B, <1>D, <2>1
    <3>2. m = Len(s) - f.diffN - Smooth(f) + 1
      BY <1>0, <1>B
    <3>3. v \in Seq(Int) /\ Len(v) = m
      BY <3>1, <3>2, SmoothedIs
    <3>4. \A i \in 1..m : v[i] = Feature(s, f, i + f.diffN + Smooth(f) - 1)
      <4>1. \A i \in 1..(Len(s) - f.diffN - Smooth(f) + 1) :
                v[i] = Feature(s, f, i + f.diffN + Smooth(f) - 1)
        BY <3>1, SmoothedIs
      <4>. QED
        BY <3>2, <4>1, Zenon
    <3>. QED
      BY <1>B, <3>3, <3>4
<1>3. m - (g + 1) + 1 = l - (d + k + g) + 1
  BY <1>0, <1>1
<1>4. ASSUME NEW i \in 1..(m - (g + 1) + 1)
      PROVE  SubSeq(v, i, i + (g + 1) - 1)
                = [j \in 1..(g + 1) |-> Feature(s, f, i + j + d + k - 2)]
  <2>1. i \in 1..m /\ i + g \in i..m /\ i + (g + 1) - 1 = i + g /\ (i + g) - i + 1 = g + 1
    BY <1>0, <1>1
  <2>6. PICK w : w = SubSeq(v, i, i + g)
    OBVIOUS
  <2>2. w \in Seq(Int) /\ Len(w) = g + 1 /\ \A j \in 1..(g + 1) : w[j] = v[i + j - 1]
    <3>3. \A j \in i..(i + g) : v[j] \in Int
      BY <1>2, <2>1
    <3>2. w \in Seq(Int) /\ Len(w) = (i + g) - i + 1 /\ \A j \in 1..((i + g) - i + 1) : w[j] = v[i + j - 1]
      BY <2>1, <2>6, <3>3, SubSeqProperties
    <3>. QED
      BY <2>1, <3>2
  <2>3. ASSUME NEW j \in 1..(g + 1) PROVE w[j] = Feature(s, f, i + j + d + k - 2)
    <3>1. i + j - 1 \in 1..m /\ (i + j - 1) + d + k - 1 = i + j + d + k - 2
      BY <1>0, <1>1
    <3>. QED
      BY <1>2, <2>2, <3>1
  <2>4. w = [j \in 1..(g + 1) |-> w[j]]
    <3>1. PICK n \in Nat : n = g + 1
      BY <1>1
    <3>. QED
      BY <2>2, <3>1
  <2>5. w = [j \in 1..(g + 1) |-> Feature(s, f, i + j + d + k - 2)]
    BY <2>3, <2>4
  <2>. QED
    BY <2>1, <2>5, <2>6
<1>5. Preprocess(s, f) = [i \in 1..(m - (g + 1) + 1) |-> SubSeq(v, i, i + (g + 1) - 1)]
  BY <1>2, <1>B, <1>D DEF Preprocess, SlidingWindows
<1>6. Preprocess(s, f) = [i \in 1..(m - (g + 1) + 1) |->
                            [j \in 1..(g + 1) |-> Feature(s, f, i + j + d + k - 2)]]
  BY <1>4, <1>5
<1>. QED
  BY <1>3, <1>6, <1>B, <1>C

\* A feature is the same wherever a part of the sequence that holds its values begins.
LEMMA FeatureOfPart ==
    ASSUME NEW s \in Seq(Int), NEW f \in Settings, NEW a \in Nat, NEW m \in Nat, a + m <= Len(s)
    PROVE  \A last \in (f.diffN + Smooth(f))..m :
              Feature(SubSeq(s, a + 1, a + m), f, last) = Feature(s, f, a + last)
<1>C. PICK t : t = SubSeq(s, a + 1, a + m)
  OBVIOUS
<1>A. f.diffN \in Nat /\ Smooth(f) \in Nat /\ Len(s) \in Nat
  BY DEF Smooth, Settings
<1>B. PICK d \in Nat, k \in Nat, l \in Nat : d = f.diffN /\ k = Smooth(f) /\ l = Len(s)
  BY <1>A
<1>. SUFFICES ASSUME NEW last \in (d + k)..m PROVE Feature(t, f, last) = Feature(s, f, a + last)
  BY <1>B, <1>C
<1>1. d + k <= last /\ last \in Nat /\ last <= m /\ a + m <= l
  BY <1>B
<1>. DEFINE p == RunningSum(s)
            q == RunningSum(t)
<1>2. t \in Seq(Int) /\ Len(t) = m /\ q = [i \in 0..m |-> p[a + i] - p[a]]
  BY <1>C, SumsOfPart
<1>3. p \in [0..l -> Int]
  BY <1>B, RunningSumIs
<1>4. Feature(t, f, last) = (q[last] - q[last - k]) - IF d = 0 THEN 0 ELSE q[last - d] - q[last - d - k]
  <2>1. last \in 0..Len(t) /\ f.diffN + Smooth(f) <= last
    <3>1. last \in 0..m
      BY <1>1
    <3>. QED
      BY <1>1, <1>2, <1>B, <3>1
  <2>. QED
    BY <1>2, <1>B, <2>1, FeatureIs
<1>5. PICK end \in 0..l : end = a + last /\ d + k <= end
  BY <1>1
<1>6. Feature(s, f, end) = (p[end] - p[end - k]) - IF d = 0 THEN 0 ELSE p[end - d] - p[end - d - k]
  <2>1. end \in 0..Len(s) /\ f.diffN + Smooth(f) <= end
    BY <1>5, <1>B
  <2>. QED
    BY <1>B, <2>1, FeatureIs
<1>. HIDE DEF p, q
<1>7. /\ last - k \in 0..m /\ last - d \in 0..m /\ last - d - k \in 0..m
      /\ last \in 0..m /\ a + last = end /\ a + (last - k) = end - k /\ a + (last - d) = end - d
      /\ a + (last - d - k) = end - d - k
  BY <1>1, <1>5
<1>8. PICK x, y, z, u, w : /\ x = p[end] /\ y = p[end - k] /\ z = p[end - d]
                           /\ u = p[end - d - k] /\ w = p[a]
  OBVIOUS
<1>9. x \in Int /\ y \in Int /\ z \in Int /\ u \in Int /\ w \in Int
  <2>1. a \in 0..l /\ end - k \in 0..l /\ end - d \in 0..l /\ end - d - k \in 0..l
    BY <1>1, <1>5
  <2>. QED
    BY <1>3, <1>8, <2>1
<1>10. q[last] = x - w /\ q[last - k] = y - w /\ q[last - d] = z - w /\ q[last - d - k] = u - w
  BY <1>2, <1>7, <1>8
<1>11. (x - w) - (y - w) = x - y /\ (z - w) - (u - w) = z - u
  BY <1>9
<1>12. q[last] - q[last - k] = x - y /\ q[last - d] - q[last - d - k] = z - u
  BY <1>10, <1>11
<1>. QED
  BY <1>4, <1>5, <1>6, <1>8, <1>12

\* The vector that Score makes of a raw buffer is the last that Train is given
\* of the same values, whatever the settings and however long the window
\* (model.go:24-28).
THEOREM BufferAlwaysMakesLast ==
    ASSUME NEW s \in Seq(Int), NEW f \in Settings, RawBufferLen(f) <= Len(s)
    PROVE  BufferMakesLast(s, f, Preprocess(s, f))
<1>A. /\ f.diffN \in Nat /\ Smooth(f) \in Nat /\ f.lagN \in Nat /\ Len(s) \in Nat
      /\ Smooth(f) >= 1
  BY DEF Smooth, Settings
<1>B. PICK d \in Nat, k \in Nat, g \in Nat, l \in Nat :
          d = f.diffN /\ k = Smooth(f) /\ g = f.lagN /\ l = Len(s)
  BY <1>A
<1>C. RawBufferLen(f) = d + k + g
  BY <1>B DEF RawBufferLen
<1>D. PICK need \in Nat : need = RawBufferLen(f) /\ need = d + k + g
  BY <1>C
<1>1. k >= 1 /\ need = d + k + g /\ need <= l
  BY <1>A, <1>B, <1>D
<1>2. PICK a \in Nat : a + need = l /\ l - need + 1 = a + 1
  <2>1. l - need \in Nat /\ (l - need) + need = l
    BY <1>1
  <2>. QED
    BY <2>1
<1>E. PICK t, all : t = SubSeq(s, a + 1, a + need) /\ all = Preprocess(s, f)
  OBVIOUS
<1>. DEFINE final == [j \in 1..(g + 1) |-> Feature(s, f, l - (g + 1 - j))]
<1>3. t \in Seq(Int) /\ Len(t) = need
  <2>1. a + need <= Len(s)
    BY <1>2, <1>B
  <2>. QED
    BY <1>E, <2>1, SumsOfPart
<1>4. Last(all) = final
  <2>1. all = [i \in 1..(a + 1) |-> [j \in 1..(g + 1) |-> Feature(s, f, i + j + d + k - 2)]]
    <3>1. RawBufferLen(f) <= Len(s) /\ Len(s) - RawBufferLen(f) + 1 = a + 1
      BY <1>1, <1>2, <1>B, <1>D
    <3>2. Preprocess(s, f) =
              [i \in 1..(Len(s) - RawBufferLen(f) + 1) |->
                  [j \in 1..(f.lagN + 1) |-> Feature(s, f, i + j + f.diffN + Smooth(f) - 2)]]
      BY <3>1, PreprocessIs
    <3>. QED
      BY <1>B, <1>E, <3>1, <3>2
  <2>2. Len(all) = a + 1 /\ a + 1 \in 1..(a + 1)
    <3>1. PICK n \in Nat : n = a + 1 /\ n >= 1
      OBVIOUS
    <3>. QED
      BY <2>1, <3>1
  <2>3. Last(all) = [j \in 1..(g + 1) |-> Feature(s, f, (a + 1) + j + d + k - 2)]
    BY <2>1, <2>2 DEF Last
  <2>4. \A j \in 1..(g + 1) : (a + 1) + j + d + k - 2 = l - (g + 1 - j)
    BY <1>1, <1>2
  <2>. QED
    BY <2>3, <2>4
<1>6. \A last \in (d + k)..need : Feature(t, f, last) = Feature(s, f, a + last)
  <2>1. a + need <= Len(s)
    BY <1>2, <1>B
  <2>2. \A last \in (f.diffN + Smooth(f))..need :
           Feature(SubSeq(s, a + 1, a + need), f, last) = Feature(s, f, a + last)
    BY <2>1, FeatureOfPart, ZenonT(60)
  <2>. QED
    BY <1>B, <1>E, <2>2
<1>5. Preprocess(t, f) = <<final>>
  <2>1. Preprocess(t, f) = [i \in 1..(need - need + 1) |->
                              [j \in 1..(g + 1) |-> Feature(t, f, i + j + d + k - 2)]]
    <3>1. RawBufferLen(f) <= Len(t) /\ Len(t) - RawBufferLen(f) + 1 = need - need + 1
      BY <1>3, <1>D
    <3>2. Preprocess(t, f) =
              [i \in 1..(Len(t) - RawBufferLen(f) + 1) |->
                  [j \in 1..(f.lagN + 1) |-> Feature(t, f, i + j + f.diffN + Smooth(f) - 2)]]
      BY <1>3, <3>1, PreprocessIs
    <3>. QED
      BY <1>B, <3>1, <3>2
  <2>2. ASSUME NEW j \in 1..(g + 1)
        PROVE  Feature(t, f, 1 + j + d + k - 2) = Feature(s, f, l - (g + 1 - j))
    <3>1. 1 + j + d + k - 2 \in 0..need
      BY <1>1
    <3>2. PICK last \in 0..need : last = 1 + j + d + k - 2
      BY <3>1
    <3>3. d + k <= last /\ a + last = l - (g + 1 - j)
      BY <1>1, <1>2, <3>2
    <3>4. Feature(t, f, last) = Feature(s, f, a + last)
      BY <1>6, <3>3
    <3>. QED
      BY <3>2, <3>3, <3>4
  <2>3. need - need + 1 = 1 /\ 1..1 = {1}
    BY <1>1
  <2>4. Preprocess(t, f) = [i \in 1..1 |-> final]
    <3>1. \A i \in 1..1 : [j \in 1..(g + 1) |-> Feature(t, f, i + j + d + k - 2)] = final
      BY <2>2, <2>3
    <3>. HIDE DEF final
    <3>. QED
      BY <2>1, <2>3, <3>1
  <2>. HIDE DEF final
  <2>. QED
    BY <2>4
<1>. HIDE DEF final
<1>7. SubSeq(s, Len(s) - RawBufferLen(f) + 1, Len(s)) = t
  BY <1>2, <1>B, <1>D, <1>E
<1>. QED
  BY <1>4, <1>5, <1>7, <1>B, <1>E DEF BufferMakesLast, final

\* Fewer values than rawBufferLen make no vector.
LEMMA FewMakeNone ==
    ASSUME NEW s \in Seq(Int), NEW f \in Settings, Len(s) < RawBufferLen(f)
    PROVE  Preprocess(s, f) = <<>>
<1>1. /\ f.diffN \in Nat /\ Smooth(f) \in Nat /\ f.lagN \in Nat /\ Len(s) \in Nat /\ f.smoothN \in Nat
      /\ Smooth(f) >= 1
  BY DEF Smooth, Settings
<1>2. PICK d \in Nat, k \in Nat, g \in Nat, l \in Nat, n \in Nat :
          d = f.diffN /\ k = Smooth(f) /\ g = f.lagN /\ l = Len(s) /\ n = f.smoothN
  BY <1>1
<1>3. l < d + k + g /\ k >= 1 /\ (n <= 1 => k = 1) /\ (~(n <= 1) => k = n)
  <2>1. RawBufferLen(f) = d + k + g
    BY <1>2 DEF RawBufferLen
  <2>2. k = IF n < 1 THEN 1 ELSE n
    BY <1>2 DEF Smooth
  <2>. QED
    BY <1>2, <2>1, <2>2
<1>4. PICK v : v = MovingAverage(Diff(s, d), n)
  OBVIOUS
<1>5. Len(v) < g + 1 /\ Len(v) \in Nat
  <2>1. CASE d + k <= l
    <3>1. f.diffN + Smooth(f) <= Len(s) /\ v = MovingAverage(Diff(s, f.diffN), f.smoothN)
      BY <1>2, <1>4, <2>1
    <3>2. PICK m \in Nat : m = l - d - k + 1
      <4>1. l - d - k + 1 \in Nat
        BY <2>1
      <4>. QED
        BY <4>1
    <3>3. m = Len(s) - f.diffN - Smooth(f) + 1
      BY <1>2, <3>2
    <3>4. Len(v) = m
      BY <3>1, <3>3, SmoothedIs
    <3>. QED
      BY <1>3, <3>2, <3>4
  <2>2. CASE ~(d + k <= l)
    <3>1. PICK e : e = Diff(s, d)
      OBVIOUS
    <3>2. Len(e) \in Nat /\ Len(e) < k
      <4>1. CASE d = 0
        BY <1>2, <2>2, <3>1, <4>1 DEF Diff
      <4>2. CASE d # 0 /\ d <= l
        <5>1. PICK m \in Nat : m = l - d
          <6>1. l - d \in Nat
            BY <4>2
          <6>. QED
            BY <6>1
        <5>2. e = [i \in 1..m |-> s[i + d] - s[i]]
          BY <1>2, <3>1, <4>2, <5>1 DEF Diff
        <5>3. Len(e) = m
          BY <5>2
        <5>. QED
          BY <2>2, <5>1, <5>3
      <4>3. CASE ~(d <= l)
        <5>1. 1..(l - d) = {} /\ d # 0
          BY <4>3
        <5>2. e = [i \in {} |-> s[i + d] - s[i]]
          BY <1>2, <3>1, <5>1 DEF Diff
        <5>3. e = <<>>
          BY <5>2
        <5>. QED
          BY <1>3, <5>3
      <4>. QED
        BY <4>1, <4>2, <4>3
    <3>3. CASE n <= 1
      <4>1. v = e
        BY <1>4, <3>1, <3>3 DEF MovingAverage
      <4>. QED
        BY <1>3, <3>2, <3>3, <4>1
    <3>4. CASE ~(n <= 1)
      <4>1. v = <<>>
        BY <1>3, <1>4, <3>1, <3>2, <3>4 DEF MovingAverage
      <4>. QED
        BY <4>1
    <3>. QED
      BY <3>3, <3>4
  <2>. QED
    BY <2>1, <2>2
<1>6. Preprocess(s, f) = [i \in 1..(Len(v) - (g + 1) + 1) |-> SubSeq(v, i, i + (g + 1) - 1)]
  BY <1>2, <1>4 DEF Preprocess, SlidingWindows
<1>7. 1..(Len(v) - (g + 1) + 1) = {}
  BY <1>5
<1>8. Preprocess(s, f) = [i \in {} |-> SubSeq(v, i, i + (g + 1) - 1)]
  BY <1>6, <1>7
<1>. QED
  BY <1>8

-----------------------------------------------------------------------------
(* Training and scoring see the same vectors *)

\* What a round of Train's loop is given: the vectors of a series that has
\* enough values for one.
GivenInv ==
    /\ values \in Seq(Int) /\ feature \in Settings
    /\ vectors = Preprocess(values, feature)
    /\ RawBufferLen(feature) <= Len(values)

LEMMA GivenInit == TrainInit => GivenInv
<1>. SUFFICES ASSUME TrainInit PROVE GivenInv
  OBVIOUS
<1>1. feature \in Settings
  BY KMeansAssumption DEF TrainInit, Settings
<1>2. values \in Seq(Int)
  <2>1. PICK n \in Lengths : values \in [1..n -> Values]
    BY DEF TrainInit
  <2>2. n \in Nat /\ values \in [1..n -> Int]
    BY <2>1, KMeansAssumption
  <2>. QED
    BY <2>2
<1>3. vectors = Preprocess(values, feature) /\ Len(vectors) >= 2
  BY DEF TrainInit
<1>4. RawBufferLen(feature) <= Len(values)
  <2>1. vectors # <<>>
    BY <1>3
  <2>2. ~(Len(values) < RawBufferLen(feature))
    BY <1>1, <1>2, <1>3, <2>1, FewMakeNone
  <2>3. RawBufferLen(feature) \in Nat /\ Len(values) \in Nat
    BY <1>1, <1>2 DEF RawBufferLen, Smooth, Settings
  <2>. QED
    BY <2>2, <2>3
<1>. QED
  BY <1>1, <1>2, <1>3, <1>4 DEF GivenInv

\* The vector that Score makes of its raw buffer is the last that Train is
\* given of the same values, for any values, window and settings: its entries
\* are the differences of the sums of smoothN values diffN apart
\* (model.go:24-28, detector.go:107-110).
THEOREM BufferVectorAlwaysLastTrained == TrainSpec => []BufferVectorIsLastTrained
<1>1. TrainInit => GivenInv
  BY GivenInit
<1>2. GivenInv /\ [Iterate]_trainVars => GivenInv'
  BY DEF GivenInv, Iterate, trainVars
<1>3. GivenInv => BufferVectorIsLastTrained
  BY BufferAlwaysMakesLast DEF GivenInv, BufferVectorIsLastTrained
<1>. QED
  BY <1>1, <1>2, <1>3, PTL DEF TrainSpec

=============================================================================
