---------------------------- MODULE BackupProofs ----------------------------
(***************************************************************************)
(* Theorems about BackupExport for any number of series, minutes, cycles   *)
(* that overlap, failures and kills.                                       *)
(***************************************************************************)
EXTENDS BackupExport, FiniteSetTheorems, WellFoundedInduction, TLAPS

-----------------------------------------------------------------------------
(* Times *)

LEMMA EarliestTime ==
    ASSUME NEW S, S \subseteq Nat, S # {}
    PROVE  \E x \in S : \A y \in S : x <= y
<1>. DEFINE R == OpToRel(<, Nat)
<1>1. PICK x \in S : \A y \in S : <<y, x>> \notin R
  <2>. HIDE DEF R
  <2>1. IsWellFoundedOn(R, Nat)
    BY NatLessThanWellFounded DEF R
  <2>. QED
    BY <2>1, WFMin
<1>2. \A y \in S : ~ (y < x)
  BY <1>1 DEF OpToRel
<1>. QED
  BY <1>2

\* CollectDelta's running maximum is one of the times, and none is later.
LEMMA HighestTime ==
    ASSUME NEW T, T \subseteq 0..LastMinute, T # {}
    PROVE  /\ Highest(T) \in T
           /\ \A t \in T : t <= Highest(T)
<1>. DEFINE S == {LastMinute - t : t \in T}
<1>1. S \subseteq Nat /\ S # {}
  <2>1. \A t \in T : LastMinute - t \in Nat
    BY BackupAssumption
  <2>. QED
    BY <2>1
<1>2. PICK x \in S : \A y \in S : x <= y
  BY <1>1, EarliestTime
<1>3. PICK m \in T : x = LastMinute - m
  OBVIOUS
<1>4. \A t \in T : t <= m
  <2>. SUFFICES ASSUME NEW t \in T PROVE t <= m
    OBVIOUS
  <2>1. x <= LastMinute - t
    BY <1>2
  <2>. QED
    BY <1>3, <2>1, BackupAssumption
<1>. QED
  BY <1>4 DEF Highest

LEMMA PointFields ==
    ASSUME NEW p \in Points
    PROVE  /\ p.series \in Series /\ p.series \in Nat /\ p.series <= SeriesCount
           /\ p.time \in Minutes /\ p.time \in Nat
           /\ 0 < p.time /\ p.time <= LastMinute
BY BackupAssumption DEF Points, Series, Minutes

-----------------------------------------------------------------------------
(* What a cycle knows *)

\* Its rows are points of the minute tier after the loaded watermark and up to
\* the highest time, which is the time of a point once there are rows; they are
\* in the lake when the append is over.
Shape(c) ==
    /\ cycle[c].stage = "collect" => cycle[c].next <= SeriesCount
    /\ cycle[c].stage \in {"append", "save"} =>
          /\ cycle[c].next = SeriesCount + 1
          /\ \E p \in minute : p.time = cycle[c].high
    /\ cycle[c].high = cycle[c].since \/ \E p \in minute : p.time = cycle[c].high
    /\ \A p \in Points : cycle[c].rows[p] > 0 =>
          /\ p \in minute
          /\ cycle[c].since < p.time /\ p.time <= cycle[c].high
          /\ cycle[c].stage = "save" => p \in Exported

\* What it leaves behind is exported: points at or below the loaded watermark
\* are in the lake, later ones of the series it has read are among its rows.
Covers(c) ==
    orderly /\ cycle[c].stage # "idle" => \A p \in minute :
        /\ p.time <= cycle[c].since => p \in Exported
        /\ /\ p.series < cycle[c].next /\ cycle[c].since < p.time
           /\ cycle[c].next <= SeriesCount \/ p.time <= cycle[c].high
           => cycle[c].rows[p] > 0

CycleInv == \A c \in Cycles : Shape(c) /\ Covers(c)

ExportInv == TypeOK /\ Exported \subseteq minute /\ NothingSkipped /\ CycleInv

LEMMA IdleType == Idle \in CycleType
<1>1. 0 \in 0..LastMinute /\ 1 \in 1..(SeriesCount + 1)
  BY BackupAssumption
<1>2. [p \in Points |-> 0] \in [Points -> Nat]
  OBVIOUS
<1>. QED
  BY <1>1, <1>2 DEF Idle, CycleType

LEMMA CycleFields ==
    ASSUME TypeOK, NEW c \in Cycles
    PROVE  /\ cycle[c].stage \in {"idle", "collect", "append", "save"}
           /\ cycle[c].since \in 0..LastMinute /\ cycle[c].since \in Nat
           /\ cycle[c].next \in 1..(SeriesCount + 1) /\ cycle[c].next \in Nat
           /\ cycle[c].rows \in [Points -> Nat]
           /\ cycle[c].high \in 0..LastMinute /\ cycle[c].high \in Nat
           /\ cycle[c].since <= cycle[c].high
<1>1. cycle[c] \in CycleType /\ cycle[c].since <= cycle[c].high
  BY DEF TypeOK
<1>. QED
  BY <1>1, BackupAssumption DEF CycleType

LEMMA ExportInit == Init => ExportInv
<1>. SUFFICES ASSUME Init PROVE ExportInv
  OBVIOUS
<1>1. TypeOK
  <2>1. cycle \in [Cycles -> CycleType] /\ \A c \in Cycles : cycle[c] = Idle
    BY IdleType DEF Init
  <2>2. \A c \in Cycles : cycle[c].since <= cycle[c].high
    BY <2>1 DEF Idle
  <2>3. lake \in [Points -> Nat] /\ watermark \in 0..LastMinute
    BY BackupAssumption DEF Init
  <2>. QED
    BY <2>1, <2>2, <2>3 DEF Init, TypeOK
<1>2. Exported = {}
  BY DEF Init, Exported
<1>3. CycleInv
  BY DEF Init, CycleInv, Shape, Covers, Idle
<1>. QED
  BY <1>1, <1>2, <1>3 DEF Init, ExportInv, NothingSkipped

\* A cycle that a step leaves alone still knows what it knew, if no points
\* appear and none leave the lake.
LEMMA OtherCycle ==
    ASSUME NEW d \in Cycles, Shape(d), Covers(d), cycle'[d] = cycle[d],
           minute' = minute, Exported \subseteq Exported', orderly' => orderly
    PROVE  Shape(d)' /\ Covers(d)'
<1>1. Shape(d)'
  BY DEF Shape
<1>2. Covers(d)'
  BY DEF Covers
<1>. QED
  BY <1>1, <1>2

LEMMA IdleCycle ==
    ASSUME NEW d \in Cycles, cycle'[d] = Idle
    PROVE  Shape(d)' /\ Covers(d)'
BY DEF Shape, Covers, Idle

-----------------------------------------------------------------------------
(* Every step keeps the invariant *)

\* The steps that make no rollup point appear and at most lengthen the lake:
\* what is left to show for them is type, watermark and the acting cycle.
LEMMA KeepsRest ==
    ASSUME ExportInv, NEW c \in Cycles, TypeOK',
           minute' = minute, Exported \subseteq Exported', Exported' \subseteq minute,
           orderly' => orderly,
           \A d \in Cycles \ {c} : cycle'[d] = cycle[d],
           NothingSkipped', Shape(c)', Covers(c)'
    PROVE  ExportInv'
<1>1. ASSUME NEW d \in Cycles PROVE Shape(d)' /\ Covers(d)'
  BY <1>1, OtherCycle DEF ExportInv, CycleInv
<1>. QED
  BY <1>1 DEF ExportInv, CycleInv

\* With the watermark where it was, it goes on meaning what it did.
LEMMA KeepsWatermark ==
    ASSUME NothingSkipped, minute' = minute, watermark' = watermark,
           Exported \subseteq Exported', orderly' => orderly
    PROVE  NothingSkipped'
BY DEF NothingSkipped

LEMMA FlushStep ==
    ASSUME ExportInv, NEW s \in Series, NEW t \in Minutes, Flush(s, t)
    PROVE  ExportInv'
<1>. DEFINE q == [series |-> s, time |-> t]
<1>1. q \in Points /\ minute' = minute \cup {q}
  BY DEF Flush, Points
<1>2. UNCHANGED <<lake, watermark, cycle, scheduled, faults, overlapped>>
  BY DEF Flush
<1>3. orderly' \in BOOLEAN /\ (orderly' => orderly /\ t > watermark)
  BY DEF Flush, ExportInv, TypeOK
<1>4. orderly' => \A c \in Cycles : ~Disturbs(s, t, c)
  BY DEF Flush
<1>5. TypeOK'
  BY <1>1, <1>2, <1>3 DEF ExportInv, TypeOK, CycleType
<1>6. Exported' = Exported
  BY <1>2 DEF Exported
<1>7. Exported' \subseteq minute'
  BY <1>1, <1>6 DEF ExportInv
<1>8. NothingSkipped'
  <2>. SUFFICES ASSUME orderly', NEW p \in minute', p.time <= watermark'
                PROVE  p \in Exported'
    BY DEF NothingSkipped
  <2>1. p # q
    BY <1>2, <1>3, BackupAssumption DEF ExportInv, TypeOK, Minutes
  <2>. QED
    BY <2>1, <1>1, <1>2, <1>3, <1>6 DEF ExportInv, NothingSkipped
<1>9. ASSUME NEW c \in Cycles PROVE Shape(c)'
  <2>1. Shape(c)
    BY <1>9 DEF ExportInv, CycleInv
  <2>. QED
    BY <2>1, <1>1, <1>2, <1>6 DEF Shape
<1>10. ASSUME NEW c \in Cycles PROVE Covers(c)'
  <2>1. Covers(c)
    BY <1>10 DEF ExportInv, CycleInv
  <2>. SUFFICES ASSUME orderly', cycle[c].stage # "idle", NEW p \in minute'
                PROVE  /\ p.time <= cycle[c].since => p \in Exported'
                       /\ /\ p.series < cycle[c].next /\ cycle[c].since < p.time
                          /\ cycle[c].next <= SeriesCount \/ p.time <= cycle[c].high
                          => cycle[c].rows[p] > 0
    BY <1>2 DEF Covers
  <2>2. CASE p \in minute
    BY <2>1, <2>2, <1>3, <1>6 DEF Covers
  <2>3. CASE p = q
    <3>1. ~Disturbs(s, t, c)
      BY <1>4, <1>10
    <3>. QED
      BY <2>3, <3>1 DEF Disturbs
  <2>. QED
    BY <2>2, <2>3, <1>1
<1>. QED
  BY <1>5, <1>7, <1>8, <1>9, <1>10 DEF ExportInv, CycleInv

\* The watermark that a cycle loads means that the past is exported.
LEMMA LoadStep ==
    ASSUME ExportInv, NEW c \in Cycles, Load(c)
    PROVE  ExportInv'
<1>. DEFINE new == [Idle EXCEPT !.stage = "collect", !.since = watermark,
                                !.high = watermark]
<1>1. UNCHANGED <<minute, lake, watermark, scheduled, faults, orderly>>
  BY DEF Load
<1>2. new.stage = "collect" /\ new.since = watermark /\ new.high = watermark
      /\ new.next = 1 /\ new.rows = [p \in Points |-> 0]
  BY DEF Idle
<1>3. new \in CycleType
  BY IdleType DEF ExportInv, TypeOK, CycleType
<1>4. /\ cycle' \in [Cycles -> CycleType] /\ cycle'[c] = new
      /\ \A d \in Cycles \ {c} : cycle'[d] = cycle[d]
  BY <1>3 DEF Load, ExportInv, TypeOK
<1>. HIDE DEF new
<1>5. TypeOK'
  <2>1. \A d \in Cycles : cycle'[d].since <= cycle'[d].high
    BY <1>2, <1>4, BackupAssumption DEF ExportInv, TypeOK
  <2>2. overlapped' \in BOOLEAN
    BY DEF Load, ExportInv, TypeOK
  <2>. QED
    BY <2>1, <2>2, <1>1, <1>4 DEF ExportInv, TypeOK
<1>6. Exported' = Exported
  BY <1>1 DEF Exported
<1>7. NothingSkipped'
  BY <1>1, <1>6, KeepsWatermark DEF ExportInv
<1>8. Shape(c)'
  BY <1>2, <1>4, BackupAssumption DEF Shape
<1>9. Covers(c)'
  <2>1. \A p \in minute : p \in Points /\ ~(p.series < 1)
    BY PointFields, BackupAssumption DEF ExportInv, TypeOK, Series
  <2>. QED
    BY <2>1, <1>1, <1>2, <1>4, <1>6 DEF Covers, ExportInv, NothingSkipped
<1>. QED
  BY <1>1, <1>4, <1>5, <1>6, <1>7, <1>8, <1>9, KeepsRest DEF ExportInv

\* How a cycle stands after one turn of CollectDelta's loop.
Turned(c, rows, high) ==
    \/ cycle'[c] = Idle
    \/ /\ cycle'[c].stage = IF cycle[c].next < SeriesCount THEN "collect" ELSE "append"
       /\ cycle'[c].since = cycle[c].since
       /\ cycle'[c].next = cycle[c].next + 1
       /\ cycle'[c].rows = rows
       /\ cycle'[c].high = high
       /\ cycle[c].next < SeriesCount \/ \E p \in Points : rows[p] > 0

LEMMA GoOnTurns ==
    ASSUME TypeOK, NEW c \in Cycles, cycle[c].stage = "collect", Shape(c),
           NEW rows \in [Points -> Nat], NEW high \in 0..LastMinute,
           cycle[c].high <= high, GoOn(c, rows, high)
    PROVE  /\ cycle' \in [Cycles -> CycleType]
           /\ \A d \in Cycles : cycle'[d].since <= cycle'[d].high
           /\ \A d \in Cycles \ {c} : cycle'[d] = cycle[d]
           /\ scheduled' \in BOOLEAN
           /\ Turned(c, rows, high)
<1>1. /\ cycle \in [Cycles -> CycleType] /\ cycle[c] \in CycleType
      /\ \A d \in Cycles : cycle[d].since <= cycle[d].high
      /\ scheduled \in BOOLEAN /\ SeriesCount \in Nat \ {0}
  BY BackupAssumption DEF TypeOK
<1>2. /\ cycle[c].next \in 1..SeriesCount /\ cycle[c].next + 1 \in 1..(SeriesCount + 1)
      /\ cycle[c].since <= high
  BY CycleFields, BackupAssumption DEF Shape
<1>3. CASE cycle[c].next < SeriesCount
  <2>. DEFINE new == [cycle[c] EXCEPT !.next = @ + 1, !.rows = rows, !.high = high]
  <2>1. cycle' = [cycle EXCEPT ![c] = new] /\ UNCHANGED scheduled
    BY <1>1, <1>3 DEF GoOn, CycleType
  <2>2. new \in CycleType /\ new.stage = "collect" /\ new.since = cycle[c].since
        /\ new.next = cycle[c].next + 1 /\ new.rows = rows /\ new.high = high
    BY <1>1, <1>2 DEF CycleType
  <2>. HIDE DEF new
  <2>. QED
    BY <1>1, <1>2, <1>3, <2>1, <2>2 DEF Turned
<1>4. CASE ~(cycle[c].next < SeriesCount) /\ \A p \in Points : rows[p] = 0
  <2>1. cycle' = [cycle EXCEPT ![c] = Idle] /\ scheduled' = TRUE
    BY <1>4 DEF GoOn, Finish
  <2>2. Idle \in CycleType /\ Idle.since <= Idle.high
    BY IdleType DEF Idle
  <2>. QED
    BY <1>1, <2>1, <2>2 DEF Turned
<1>5. CASE ~(cycle[c].next < SeriesCount) /\ \E p \in Points : rows[p] # 0
  <2>. DEFINE new == [cycle[c] EXCEPT !.next = @ + 1, !.rows = rows, !.high = high,
                                      !.stage = "append"]
  <2>1. cycle' = [cycle EXCEPT ![c] = new] /\ UNCHANGED scheduled
    BY <1>1, <1>5 DEF GoOn, CycleType
  <2>2. new \in CycleType /\ new.stage = "append" /\ new.since = cycle[c].since
        /\ new.next = cycle[c].next + 1 /\ new.rows = rows /\ new.high = high
    BY <1>1, <1>2 DEF CycleType
  <2>3. \E p \in Points : rows[p] > 0
    BY <1>5
  <2>. HIDE DEF new
  <2>. QED
    BY <1>1, <1>2, <1>5, <2>1, <2>2, <2>3 DEF Turned
<1>. QED
  BY <1>3, <1>4, <1>5

\* The rows that a turn leaves: after any turn they are points of the minute
\* tier between the loaded watermark and the highest time.
LEMMA TurnedShape ==
    ASSUME ExportInv, NEW c \in Cycles, cycle[c].stage = "collect",
           NEW rows \in [Points -> Nat], NEW high \in Nat,
           minute' = minute, Turned(c, rows, high),
           high = cycle[c].since \/ \E p \in minute : p.time = high,
           \A p \in Points : rows[p] > 0 =>
               p \in minute /\ cycle[c].since < p.time /\ p.time <= high
    PROVE  Shape(c)'
<1>1. CASE cycle'[c] = Idle
  BY <1>1, IdleCycle
<1>2. CASE cycle'[c] # Idle
  <2>1. cycle[c].next <= SeriesCount /\ cycle[c].next \in Nat /\ cycle[c].since \in Nat
    BY CycleFields DEF ExportInv, CycleInv, Shape
  <2>2. cycle'[c].stage = "collect" => cycle'[c].next <= SeriesCount
    BY <1>2, <2>1, BackupAssumption DEF Turned
  <2>3. cycle'[c].stage = "append" =>
            /\ cycle'[c].next = SeriesCount + 1
            /\ \E p \in minute : p.time = cycle'[c].high
    <3>. SUFFICES ASSUME cycle'[c].stage = "append"
                  PROVE  /\ cycle'[c].next = SeriesCount + 1
                         /\ \E p \in minute : p.time = cycle'[c].high
      OBVIOUS
    <3>1. ~(cycle[c].next < SeriesCount)
      BY <1>2 DEF Turned
    <3>2. PICK p \in Points : rows[p] > 0
      BY <1>2, <3>1 DEF Turned
    <3>3. high # cycle[c].since
      BY <2>1, <3>2, PointFields
    <3>. QED
      BY <1>2, <2>1, <3>1, <3>3, BackupAssumption DEF Turned
  <2>. QED
    BY <1>2, <2>2, <2>3 DEF Turned, Shape
<1>. QED
  BY <1>1, <1>2

\* The turn that reads a series leaves nothing of it behind.
LEMMA ReadSeriesStep ==
    ASSUME ExportInv, NEW c \in Cycles, ReadSeries(c)
    PROVE  ExportInv'
<1>. DEFINE found == Answer(cycle[c].next, cycle[c].since)
            rows == [p \in Points |-> IF p \in found THEN cycle[c].rows[p] + 1
                                                     ELSE cycle[c].rows[p]]
            T == {cycle[c].high} \cup {p.time : p \in found}
            high == Highest(T)
<1>1. /\ cycle[c].stage = "collect" /\ GoOn(c, rows, high)
      /\ UNCHANGED <<minute, lake, watermark, faults, orderly, overlapped>>
  BY DEF ReadSeries
<1>2. TypeOK /\ Shape(c) /\ Covers(c) /\ minute \subseteq Points
  BY DEF ExportInv, CycleInv, TypeOK
<1>3. cycle[c].rows \in [Points -> Nat] /\ cycle[c].high \in 0..LastMinute
      /\ cycle[c].since \in Nat /\ cycle[c].since <= cycle[c].high
      /\ cycle[c].next \in Nat /\ 1 <= cycle[c].next /\ cycle[c].next <= SeriesCount
  BY <1>1, <1>2, CycleFields, BackupAssumption DEF Shape
<1>4. \A p \in found : p \in minute /\ p \in Points /\ cycle[c].since < p.time
  BY <1>2, <1>3, PointFields DEF Answer
<1>5. \A p \in minute : p.series = cycle[c].next /\ cycle[c].since < p.time => p \in found
  <2>1. cycle[c].next \in Series
    BY <1>3, BackupAssumption DEF Series
  <2>. QED
    BY <2>1, <1>2, <1>3, PointFields, BackupAssumption DEF Answer
<1>. HIDE DEF found
<1>6. /\ rows \in [Points -> Nat]
      /\ \A p \in Points : rows[p] > 0 <=> (p \in found \/ cycle[c].rows[p] > 0)
  BY <1>3
<1>7. T \subseteq 0..LastMinute /\ T # {}
  BY <1>3, <1>4, PointFields, BackupAssumption
<1>8. high \in T /\ \A t \in T : t <= high
  BY <1>7, HighestTime
<1>. HIDE DEF rows, T, high
<1>9. /\ high \in 0..LastMinute /\ high \in Nat /\ cycle[c].high <= high
      /\ \A p \in found : p.time <= high
      /\ high = cycle[c].high \/ \E p \in found : p.time = high
  BY <1>7, <1>8, BackupAssumption DEF T
<1>10. /\ cycle' \in [Cycles -> CycleType]
       /\ \A d \in Cycles : cycle'[d].since <= cycle'[d].high
       /\ \A d \in Cycles \ {c} : cycle'[d] = cycle[d]
       /\ scheduled' \in BOOLEAN
       /\ Turned(c, rows, high)
  BY <1>1, <1>2, <1>6, <1>9, GoOnTurns
<1>11. TypeOK'
  BY <1>1, <1>2, <1>10 DEF TypeOK
<1>12. Exported' = Exported
  BY <1>1 DEF Exported
<1>13. NothingSkipped'
  BY <1>1, <1>12, KeepsWatermark DEF ExportInv
<1>14. Shape(c)'
  <2>1. high = cycle[c].since \/ \E p \in minute : p.time = high
    BY <1>2, <1>4, <1>9 DEF Shape
  <2>2. ASSUME NEW p \in Points, rows[p] > 0
        PROVE  p \in minute /\ cycle[c].since < p.time /\ p.time <= high
    <3>1. CASE p \in found
      BY <3>1, <1>4, <1>9
    <3>2. CASE cycle[c].rows[p] > 0
      BY <3>2, <1>2, <1>3, <1>9, PointFields DEF Shape
    <3>. QED
      BY <2>2, <3>1, <3>2, <1>6
  <2>. QED
    BY <1>1, <1>6, <1>9, <1>10, <2>1, <2>2, TurnedShape
<1>15. Covers(c)'
  <2>1. CASE cycle'[c] = Idle
    BY <2>1, IdleCycle
  <2>2. CASE cycle'[c] # Idle
    <3>. SUFFICES ASSUME orderly, NEW p \in minute
                  PROVE  /\ p.time <= cycle[c].since => p \in Exported
                         /\ p.series < cycle[c].next + 1 /\ cycle[c].since < p.time
                            => rows[p] > 0
      BY <2>2, <1>1, <1>10, <1>12 DEF Turned, Covers
    <3>1. p.time <= cycle[c].since => p \in Exported
      BY <1>1, <1>2 DEF Covers
    <3>2. p \in Points /\ p.series \in Nat
      BY <1>2, PointFields
    <3>3. ASSUME p.series < cycle[c].next, cycle[c].since < p.time PROVE rows[p] > 0
      BY <3>2, <3>3, <1>1, <1>2, <1>3, <1>6 DEF Covers
    <3>4. ASSUME p.series = cycle[c].next, cycle[c].since < p.time PROVE rows[p] > 0
      BY <3>2, <3>4, <1>5, <1>6
    <3>. QED
      BY <3>1, <3>2, <3>3, <3>4, <1>3
  <2>. QED
    BY <2>1, <2>2
<1>. QED
  BY <1>1, <1>10, <1>11, <1>12, <1>13, <1>14, <1>15, KeepsRest DEF ExportInv

\* A query that fails leaves the rows as they are, and the order is lost.
LEMMA SkipSeriesStep ==
    ASSUME ExportInv, NEW c \in Cycles, SkipSeries(c)
    PROVE  ExportInv'
<1>. DEFINE rows == cycle[c].rows
            high == cycle[c].high
<1>1. /\ cycle[c].stage = "collect" /\ GoOn(c, rows, high)
      /\ faults' = faults + 1 /\ orderly' = FALSE
      /\ UNCHANGED <<minute, lake, watermark, overlapped>>
  BY DEF SkipSeries
<1>2. TypeOK /\ Shape(c)
  BY DEF ExportInv, CycleInv
<1>3. rows \in [Points -> Nat] /\ high \in 0..LastMinute /\ high \in Nat
      /\ cycle[c].since \in Nat
  BY <1>2, CycleFields
<1>4. /\ cycle' \in [Cycles -> CycleType]
      /\ \A d \in Cycles : cycle'[d].since <= cycle'[d].high
      /\ \A d \in Cycles \ {c} : cycle'[d] = cycle[d]
      /\ scheduled' \in BOOLEAN
      /\ Turned(c, rows, high)
  BY <1>1, <1>2, <1>3, GoOnTurns
<1>5. TypeOK'
  <2>1. faults' \in Nat
    BY <1>1, <1>2 DEF TypeOK
  <2>2. orderly' \in BOOLEAN
    BY <1>1
  <2>. QED
    BY <1>1, <1>2, <1>4, <2>1, <2>2 DEF TypeOK
<1>6. Exported' = Exported
  BY <1>1 DEF Exported
<1>7. NothingSkipped' /\ Covers(c)'
  BY <1>1 DEF NothingSkipped, Covers
<1>8. Shape(c)'
  BY <1>1, <1>2, <1>3, <1>4, TurnedShape DEF Shape
<1>. QED
  BY <1>1, <1>4, <1>5, <1>6, <1>7, <1>8, KeepsRest DEF ExportInv

\* What a commit adds to the lake.
LEMMA Commit ==
    ASSUME ExportInv, NEW c \in Cycles, lake' = Committed(c)
    PROVE  /\ lake' \in [Points -> Nat]
           /\ Exported \subseteq Exported'
           /\ Exported' \subseteq minute
           /\ \A p \in Points : cycle[c].rows[p] > 0 => p \in Exported'
<1>1. lake \in [Points -> Nat] /\ cycle[c].rows \in [Points -> Nat] /\ Shape(c)
  BY CycleFields DEF ExportInv, CycleInv, TypeOK
<1>2. \A p \in Points : lake'[p] = lake[p] + cycle[c].rows[p] /\ lake'[p] \in Nat
  BY <1>1 DEF Committed
<1>3. \A p \in Points : lake'[p] > 0 <=> lake[p] > 0 \/ cycle[c].rows[p] > 0
  BY <1>1, <1>2
<1>4. lake' \in [Points -> Nat]
  BY <1>1 DEF Committed
<1>. QED
  BY <1>1, <1>3, <1>4 DEF Exported, Shape, ExportInv

LEMMA CommitRowsStep ==
    ASSUME ExportInv, NEW c \in Cycles, CommitRows(c)
    PROVE  ExportInv'
<1>. DEFINE new == [cycle[c] EXCEPT !.stage = "save"]
<1>1. /\ cycle[c].stage = "append" /\ lake' = Committed(c)
      /\ UNCHANGED <<minute, watermark, scheduled, faults, orderly, overlapped>>
  BY DEF CommitRows
<1>2. TypeOK /\ Shape(c) /\ Covers(c) /\ cycle[c] \in CycleType
  BY DEF ExportInv, CycleInv, TypeOK
<1>3. new \in CycleType /\ new.stage = "save" /\ new.since = cycle[c].since
      /\ new.next = cycle[c].next /\ new.rows = cycle[c].rows /\ new.high = cycle[c].high
  BY <1>2 DEF CycleType
<1>4. cycle' = [cycle EXCEPT ![c] = new]
  BY <1>2 DEF CommitRows, TypeOK, CycleType
<1>. HIDE DEF new
<1>5. /\ cycle' \in [Cycles -> CycleType] /\ cycle'[c] = new
      /\ \A d \in Cycles \ {c} : cycle'[d] = cycle[d]
  BY <1>2, <1>3, <1>4 DEF TypeOK
<1>6. TypeOK'
  <2>1. \A d \in Cycles : cycle'[d].since <= cycle'[d].high
    BY <1>2, <1>3, <1>5 DEF TypeOK
  <2>2. lake' \in [Points -> Nat]
    BY <1>1, Commit
  <2>. QED
    BY <1>1, <1>2, <1>5, <2>1, <2>2 DEF TypeOK
<1>7. /\ Exported \subseteq Exported' /\ Exported' \subseteq minute
      /\ \A p \in Points : cycle[c].rows[p] > 0 => p \in Exported'
  BY <1>1, Commit
<1>8. NothingSkipped'
  BY <1>1, <1>7, KeepsWatermark DEF ExportInv
<1>9. Shape(c)'
  BY <1>1, <1>2, <1>3, <1>5, <1>7 DEF Shape
<1>10. Covers(c)'
  BY <1>1, <1>2, <1>3, <1>5, <1>7 DEF Covers
<1>. QED
  BY <1>1, <1>5, <1>6, <1>7, <1>8, <1>9, <1>10, KeepsRest DEF ExportInv

\* A cycle that ends, in success or not, with the watermark still meaning what
\* it says.
LEMMA EndOfCycle ==
    ASSUME ExportInv, NEW c \in Cycles, Finish(c), minute' = minute,
           orderly' = orderly, overlapped' = overlapped, faults' \in Nat,
           lake' \in [Points -> Nat], watermark' \in 0..LastMinute,
           Exported \subseteq Exported', Exported' \subseteq minute, NothingSkipped'
    PROVE  ExportInv'
<1>1. /\ cycle' \in [Cycles -> CycleType] /\ cycle'[c] = Idle
      /\ \A d \in Cycles \ {c} : cycle'[d] = cycle[d]
  BY IdleType DEF Finish, ExportInv, TypeOK
<1>2. TypeOK'
  <2>1. \A d \in Cycles : cycle'[d].since <= cycle'[d].high
    BY <1>1 DEF Idle, ExportInv, TypeOK
  <2>. QED
    BY <1>1, <2>1 DEF Finish, ExportInv, TypeOK
<1>. QED
  BY <1>1, <1>2, IdleCycle, KeepsRest DEF ExportInv

LEMMA SaveStep ==
    ASSUME ExportInv, NEW c \in Cycles, Save(c)
    PROVE  ExportInv'
<1>1. /\ cycle[c].stage = "save" /\ watermark' = cycle[c].high /\ Finish(c)
      /\ UNCHANGED <<minute, lake, faults, orderly, overlapped>>
  BY DEF Save
<1>2. TypeOK /\ Shape(c) /\ Covers(c)
  BY DEF ExportInv, CycleInv
<1>3. cycle[c].high \in 0..LastMinute /\ cycle[c].since \in Nat
  BY <1>2, CycleFields
<1>4. Exported' = Exported
  BY <1>1 DEF Exported
<1>5. NothingSkipped'
  <2>. SUFFICES ASSUME orderly, NEW p \in minute, p.time <= cycle[c].high
                PROVE  p \in Exported
    BY <1>1, <1>4 DEF NothingSkipped
  <2>1. p \in Points /\ p.time \in Nat /\ p.series < SeriesCount + 1
    BY <1>2, PointFields, BackupAssumption DEF TypeOK
  <2>2. CASE p.time <= cycle[c].since
    BY <2>2, <1>1, <1>2 DEF Covers
  <2>3. CASE cycle[c].since < p.time
    <3>1. cycle[c].rows[p] > 0
      BY <2>1, <2>3, <1>1, <1>2 DEF Covers, Shape
    <3>. QED
      BY <2>1, <3>1, <1>1, <1>2 DEF Shape
  <2>. QED
    BY <2>1, <2>2, <2>3, <1>3
<1>. QED
  BY <1>1, <1>2, <1>3, <1>4, <1>5, EndOfCycle DEF ExportInv, TypeOK

LEMMA FailStep ==
    ASSUME ExportInv, NEW c \in Cycles, Fail(c)
    PROVE  ExportInv'
<1>1. /\ Finish(c) /\ faults' = faults + 1
      /\ lake' = lake \/ lake' = Committed(c)
      /\ UNCHANGED <<minute, watermark, orderly, overlapped>>
  BY DEF Fail
<1>2. /\ lake' \in [Points -> Nat]
      /\ Exported \subseteq Exported' /\ Exported' \subseteq minute
  <2>1. CASE lake' = lake
    BY <2>1 DEF Exported, ExportInv, TypeOK
  <2>2. CASE lake' = Committed(c)
    BY <2>2, Commit
  <2>. QED
    BY <1>1, <2>1, <2>2
<1>3. NothingSkipped'
  BY <1>1, <1>2, KeepsWatermark DEF ExportInv
<1>4. faults' \in Nat /\ watermark' \in 0..LastMinute
  BY <1>1 DEF ExportInv, TypeOK
<1>. QED
  BY <1>1, <1>2, <1>3, <1>4, EndOfCycle

LEMMA RestartStep ==
    ASSUME ExportInv, Restart
    PROVE  ExportInv'
<1>1. /\ cycle' = [c \in Cycles |-> Idle] /\ scheduled' = FALSE /\ faults' = faults + 1
      /\ UNCHANGED <<minute, lake, watermark, orderly, overlapped>>
  BY DEF Restart
<1>2. TypeOK'
  <2>1. cycle' \in [Cycles -> CycleType]
    BY <1>1, IdleType
  <2>2. \A d \in Cycles : cycle'[d].since <= cycle'[d].high
    BY <1>1 DEF Idle
  <2>3. faults' \in Nat
    BY <1>1 DEF ExportInv, TypeOK
  <2>. QED
    BY <1>1, <2>1, <2>2, <2>3 DEF ExportInv, TypeOK
<1>3. Exported' = Exported
  BY <1>1 DEF Exported
<1>4. NothingSkipped'
  BY <1>1, <1>3, KeepsWatermark DEF ExportInv
<1>5. CycleInv'
  BY <1>1, IdleCycle DEF CycleInv
<1>. QED
  BY <1>1, <1>2, <1>3, <1>4, <1>5 DEF ExportInv

LEMMA StutterStep ==
    ASSUME ExportInv, UNCHANGED vars
    PROVE  ExportInv'
<1>1. Exported' = Exported
  BY DEF vars, Exported
<1>2. TypeOK' /\ NothingSkipped'
  BY <1>1 DEF vars, ExportInv, TypeOK, NothingSkipped
<1>3. CycleInv'
  BY <1>1, OtherCycle DEF vars, ExportInv, CycleInv
<1>. QED
  BY <1>1, <1>2, <1>3 DEF ExportInv, vars

LEMMA ExportStep == ExportInv /\ [Next]_vars => ExportInv'
BY FlushStep, LoadStep, ReadSeriesStep, SkipSeriesStep, CommitRowsStep, SaveStep,
   FailStep, RestartStep, StutterStep DEF Next, Step

LEMMA ExportAlways == Spec => []ExportInv
BY ExportInit, ExportStep, PTL DEF Spec

\* Type correctness of the exporter.
THEOREM ExporterTypeOK == Spec => []TypeOK
<1>1. ExportInv => TypeOK
  BY DEF ExportInv
<1>. QED
  BY <1>1, ExportAlways, PTL

\* The watermark keeps its meaning: as long as one watermark can follow the
\* data, what lies at or below it is in the lake, through failures, lost
\* answers, kills, and saves of overlapping cycles in any order.
THEOREM NothingIsSkipped == Spec => []NothingSkipped
<1>1. ExportInv => NothingSkipped
  BY DEF ExportInv
<1>. QED
  BY <1>1, ExportAlways, PTL

-----------------------------------------------------------------------------
(* Without failures and overlapping cycles *)

\* The series whose queries find a point, and those of them before the n-th.
Finders(p) == {s \in Series : p.series \in Matches[s]}
FindersBefore(n, p) == {s \in Series : s < n /\ p.series \in Matches[s]}

\* One cycle at a time; it has the file's watermark.
Alone == \A c \in Busy : cycle[c].since = watermark /\ \A d \in Busy : d = c

\* The lake holds what the watermark covers, and what a cycle that has yet to
\* save it has committed.
LakeCovered ==
    \A p \in Points : lake[p] > 0 =>
        p.time <= watermark \/ \E c \in Busy : cycle[c].stage = "save" /\ p.time <= cycle[c].high

\* No point is in the lake, or among a cycle's rows, more often than queries
\* found it.
LakeCounted == \A p \in Points : lake[p] <= Cardinality(Finders(p))
RowsCounted(c) ==
    \A p \in Points : cycle[c].rows[p] <= Cardinality(FindersBefore(cycle[c].next, p))

OnceInv ==
    faults = 0 /\ ~overlapped =>
        Alone /\ LakeCovered /\ LakeCounted /\ \A c \in Cycles : RowsCounted(c)

LEMMA FindersCount ==
    ASSUME NEW p, NEW n \in Nat
    PROVE  /\ IsFiniteSet(Finders(p)) /\ Cardinality(Finders(p)) \in Nat
           /\ Cardinality(FindersBefore(n, p)) \in Nat
           /\ Cardinality(FindersBefore(n, p)) <= Cardinality(Finders(p))
           /\ Cardinality(FindersBefore(n, p)) <= Cardinality(FindersBefore(n + 1, p))
           /\ n \in Finders(p) => Cardinality(FindersBefore(n + 1, p))
                                     = Cardinality(FindersBefore(n, p)) + 1
<1>1. IsFiniteSet(Series)
  BY FS_Interval, BackupAssumption DEF Series
<1>2. IsFiniteSet(Finders(p)) /\ Cardinality(Finders(p)) \in Nat
  BY <1>1, FS_Subset, FS_CardinalityType DEF Finders
<1>3. ASSUME NEW k \in Nat
      PROVE  /\ IsFiniteSet(FindersBefore(k, p)) /\ Cardinality(FindersBefore(k, p)) \in Nat
             /\ Cardinality(FindersBefore(k, p)) <= Cardinality(Finders(p))
  <2>1. FindersBefore(k, p) \subseteq Finders(p)
    BY DEF FindersBefore, Finders
  <2>. QED
    BY <1>2, <2>1, FS_Subset, FS_CardinalityType
<1>4. FindersBefore(n, p) \subseteq FindersBefore(n + 1, p)
  BY BackupAssumption DEF FindersBefore, Series
<1>5. Cardinality(FindersBefore(n, p)) <= Cardinality(FindersBefore(n + 1, p))
  BY <1>3, <1>4, FS_Subset
<1>6. ASSUME n \in Finders(p)
      PROVE  Cardinality(FindersBefore(n + 1, p)) = Cardinality(FindersBefore(n, p)) + 1
  <2>1. FindersBefore(n + 1, p) = FindersBefore(n, p) \cup {n}
    BY <1>6, BackupAssumption DEF FindersBefore, Finders, Series
  <2>2. n \notin FindersBefore(n, p)
    BY DEF FindersBefore
  <2>. QED
    BY <1>3, <2>1, <2>2, FS_AddElement
<1>. QED
  BY <1>2, <1>3, <1>5, <1>6

LEMMA OnceInit == Init => OnceInv
<1>. SUFFICES ASSUME Init PROVE Alone /\ LakeCovered /\ LakeCounted /\ \A c \in Cycles : RowsCounted(c)
  BY DEF OnceInv
<1>1. Alone /\ LakeCovered
  BY DEF Init, Alone, LakeCovered, Busy, Idle
<1>2. LakeCounted
  BY FindersCount DEF Init, LakeCounted
<1>3. \A c \in Cycles : RowsCounted(c)
  BY FindersCount DEF Init, RowsCounted, Idle
<1>. QED
  BY <1>1, <1>2, <1>3

\* A cycle that has nothing in its hands.
LEMMA NoRowsCounted ==
    ASSUME NEW c \in Cycles, cycle'[c] = Idle
    PROVE  RowsCounted(c)'
BY FindersCount DEF RowsCounted, Idle

\* The row counts after one more turn of CollectDelta's loop.
LEMMA TurnCounted ==
    ASSUME TypeOK, NEW c \in Cycles, RowsCounted(c),
           NEW found, found = Answer(cycle[c].next, cycle[c].since), cycle[c].next <= SeriesCount,
           NEW rows, rows = [p \in Points |-> IF p \in found THEN cycle[c].rows[p] + 1
                                                            ELSE cycle[c].rows[p]],
           NEW p \in Points
    PROVE  rows[p] <= Cardinality(FindersBefore(cycle[c].next + 1, p))
<1>1. cycle[c].next \in Nat /\ cycle[c].next \in 1..(SeriesCount + 1) /\ cycle[c].rows[p] \in Nat
  BY CycleFields
<1>2. cycle[c].rows[p] <= Cardinality(FindersBefore(cycle[c].next, p))
  BY DEF RowsCounted
<1>3. p \in found => cycle[c].next \in Finders(p)
  BY <1>1, BackupAssumption DEF Answer, Finders, Series
<1>4. PICK n \in Nat : n = cycle[c].next
  BY <1>1
<1>5. /\ Cardinality(FindersBefore(n, p)) \in Nat /\ Cardinality(FindersBefore(n + 1, p)) \in Nat
      /\ Cardinality(FindersBefore(n, p)) <= Cardinality(FindersBefore(n + 1, p))
      /\ n \in Finders(p) => Cardinality(FindersBefore(n + 1, p))
                                = Cardinality(FindersBefore(n, p)) + 1
  BY <1>4, FindersCount
<1>6. CASE p \in found
  <2>1. rows[p] = cycle[c].rows[p] + 1
    BY <1>6
  <2>. QED
    BY <1>1, <1>2, <1>3, <1>4, <1>5, <1>6, <2>1
<1>7. CASE p \notin found
  <2>1. rows[p] = cycle[c].rows[p]
    BY <1>7
  <2>. QED
    BY <1>1, <1>2, <1>4, <1>5, <2>1
<1>. QED
  BY <1>6, <1>7

LEMMA OnceStep == ExportInv /\ OnceInv /\ [Next]_vars => OnceInv'
<1>. SUFFICES ASSUME ExportInv, OnceInv, [Next]_vars, faults' = 0, ~overlapped'
              PROVE  Alone' /\ LakeCovered' /\ LakeCounted' /\ \A c \in Cycles : RowsCounted(c)'
  BY DEF OnceInv
<1>1. TypeOK /\ faults \in Nat
  BY DEF ExportInv, TypeOK
<1>2. ASSUME NEW s \in Series, NEW t \in Minutes, Flush(s, t)
      PROVE  Alone' /\ LakeCovered' /\ LakeCounted' /\ \A c \in Cycles : RowsCounted(c)'
  <2>1. UNCHANGED <<lake, watermark, cycle, faults, overlapped>>
    BY <1>2 DEF Flush
  <2>. QED
    BY <2>1 DEF OnceInv, Alone, LakeCovered, LakeCounted, RowsCounted, Busy
<1>3. ASSUME NEW c \in Cycles, Load(c)
      PROVE  Alone' /\ LakeCovered' /\ LakeCounted' /\ \A d \in Cycles : RowsCounted(d)'
  <2>. DEFINE new == [Idle EXCEPT !.stage = "collect", !.since = watermark, !.high = watermark]
  <2>1. /\ cycle' = [cycle EXCEPT ![c] = new] /\ Busy = {} /\ ~overlapped
        /\ UNCHANGED <<lake, watermark, faults>>
    BY <1>3 DEF Load
  <2>2. new.stage = "collect" /\ new.since = watermark /\ new.rows = Idle.rows /\ new.next = Idle.next
    BY DEF Idle
  <2>. HIDE DEF new
  <2>3. cycle'[c] = new /\ \A d \in Cycles \ {c} : cycle'[d] = cycle[d]
    BY <1>1, <2>1 DEF TypeOK
  <2>4. Busy' = {c}
    BY <2>1, <2>2, <2>3 DEF Busy
  <2>5. Alone'
    BY <2>1, <2>2, <2>3, <2>4 DEF Alone
  <2>6. Alone /\ LakeCovered /\ LakeCounted /\ \A d \in Cycles : RowsCounted(d)
    BY <2>1 DEF OnceInv
  <2>7. LakeCovered' /\ LakeCounted'
    BY <2>1, <2>6 DEF LakeCovered, LakeCounted
  <2>8. RowsCounted(c)'
    BY <2>2, <2>3, FindersCount DEF RowsCounted, Idle
  <2>9. \A d \in Cycles \ {c} : RowsCounted(d)'
    BY <2>3, <2>6 DEF RowsCounted
  <2>. QED
    BY <2>5, <2>7, <2>8, <2>9
<1>4. ASSUME NEW c \in Cycles, ReadSeries(c)
      PROVE  Alone' /\ LakeCovered' /\ LakeCounted' /\ \A d \in Cycles : RowsCounted(d)'
  <2>. PICK found : found = Answer(cycle[c].next, cycle[c].since)
    OBVIOUS
  <2>. PICK rows : rows = [p \in Points |-> IF p \in found THEN cycle[c].rows[p] + 1
                                                           ELSE cycle[c].rows[p]]
    OBVIOUS
  <2>. PICK high : high = Highest({cycle[c].high} \cup {p.time : p \in found})
    OBVIOUS
  <2>1. /\ cycle[c].stage = "collect" /\ GoOn(c, rows, high)
        /\ UNCHANGED <<minute, lake, watermark, faults, orderly, overlapped>>
    BY <1>4 DEF ReadSeries
  <2>2. /\ \A d \in Cycles \ {c} : cycle'[d] = cycle[d]
        /\ \/ cycle'[c] = Idle
           \/ /\ cycle'[c].since = cycle[c].since /\ cycle'[c].next = cycle[c].next + 1
              /\ cycle'[c].rows = rows
    <3>1. /\ cycle[c].rows \in [Points -> Nat] /\ Shape(c) /\ minute \subseteq Points
          /\ cycle[c].high \in 0..LastMinute
      BY <1>1, CycleFields DEF ExportInv, CycleInv, TypeOK
    <3>2. rows \in [Points -> Nat]
      BY <3>1
    <3>3. PICK T : T = {cycle[c].high} \cup {p.time : p \in found}
      OBVIOUS
    <3>4. T \subseteq 0..LastMinute /\ cycle[c].high \in T
      BY <3>1, <3>3, PointFields, BackupAssumption DEF Answer
    <3>5. high \in 0..LastMinute /\ cycle[c].high <= high
      BY <3>3, <3>4, HighestTime
    <3>. QED
      BY <1>1, <2>1, <3>1, <3>2, <3>5, GoOnTurns DEF Turned
  <2>3. Alone /\ LakeCovered /\ LakeCounted /\ \A d \in Cycles : RowsCounted(d)
    BY <2>1 DEF OnceInv
  <2>4. Busy = {c} /\ Busy' \subseteq {c} /\ cycle[c].since = watermark
    BY <2>1, <2>2, <2>3 DEF Alone, Busy, Idle
  <2>5. Alone'
    BY <2>1, <2>2, <2>4 DEF Alone, Busy, Idle
  <2>6. LakeCovered'
    BY <2>1, <2>3, <2>4 DEF LakeCovered
  <2>7. LakeCounted'
    BY <2>1, <2>3 DEF LakeCounted
  <2>8. cycle[c].next <= SeriesCount
    BY <2>1 DEF ExportInv, CycleInv, Shape
  <2>9. RowsCounted(c)'
    <3>1. CASE cycle'[c] = Idle
      BY <3>1, NoRowsCounted
    <3>2. CASE cycle'[c] # Idle
      <4>1. \A p \in Points : rows[p] <= Cardinality(FindersBefore(cycle[c].next + 1, p))
        BY <1>1, <2>3, <2>8, TurnCounted
      <4>. QED
        BY <2>2, <3>2, <4>1 DEF RowsCounted
    <3>. QED
      BY <3>1, <3>2
  <2>10. \A d \in Cycles \ {c} : RowsCounted(d)'
    BY <2>2, <2>3 DEF RowsCounted
  <2>. QED
    BY <2>5, <2>6, <2>7, <2>9, <2>10
<1>5. ASSUME NEW c \in Cycles, CommitRows(c)
      PROVE  Alone' /\ LakeCovered' /\ LakeCounted' /\ \A d \in Cycles : RowsCounted(d)'
  <2>1. /\ cycle[c].stage = "append" /\ lake' = Committed(c)
        /\ UNCHANGED <<minute, watermark, scheduled, faults, orderly, overlapped>>
    BY <1>5 DEF CommitRows
  <2>2. /\ \A d \in Cycles \ {c} : cycle'[d] = cycle[d]
        /\ cycle'[c].stage = "save" /\ cycle'[c].since = cycle[c].since
        /\ cycle'[c].next = cycle[c].next /\ cycle'[c].rows = cycle[c].rows
        /\ cycle'[c].high = cycle[c].high
    BY <1>1, <1>5 DEF CommitRows, TypeOK, CycleType
  <2>3. Alone /\ LakeCovered /\ LakeCounted /\ \A d \in Cycles : RowsCounted(d)
    BY <2>1 DEF OnceInv
  <2>4. Busy = {c} /\ Busy' = {c} /\ cycle[c].since = watermark
    BY <2>1, <2>2, <2>3 DEF Alone, Busy
  <2>5. Alone'
    BY <2>1, <2>2, <2>4 DEF Alone
  <2>6. ASSUME NEW p \in Points
        PROVE  /\ lake[p] \in Nat /\ cycle[c].rows[p] \in Nat
               /\ lake'[p] = lake[p] + cycle[c].rows[p]
               /\ lake[p] > 0 => p.time <= watermark
               /\ cycle[c].rows[p] > 0 => watermark < p.time /\ p.time <= cycle[c].high
    <3>1. lake[p] \in Nat /\ cycle[c].rows[p] \in Nat
      BY <1>1, CycleFields DEF TypeOK
    <3>2. lake'[p] = lake[p] + cycle[c].rows[p]
      BY <2>1 DEF Committed
    <3>3. lake[p] > 0 => p.time <= watermark
      BY <2>1, <2>3, <2>4 DEF LakeCovered
    <3>4. cycle[c].rows[p] > 0 => watermark < p.time /\ p.time <= cycle[c].high
      BY <2>4 DEF ExportInv, CycleInv, Shape
    <3>. QED
      BY <3>1, <3>2, <3>3, <3>4
  <2>7. LakeCovered'
    <3>. SUFFICES ASSUME NEW p \in Points, lake'[p] > 0
                  PROVE  p.time <= watermark \/ p.time <= cycle[c].high
      BY <2>1, <2>2, <2>4 DEF LakeCovered
    <3>1. lake[p] > 0 \/ cycle[c].rows[p] > 0
      BY <2>6
    <3>. QED
      BY <2>6, <3>1
  <2>8. LakeCounted'
    <3>. SUFFICES ASSUME NEW p \in Points PROVE lake'[p] <= Cardinality(Finders(p))
      BY DEF LakeCounted
    <3>1. PICK n \in Nat : n = cycle[c].next
      BY <1>1, CycleFields
    <3>2. cycle[c].rows[p] <= Cardinality(FindersBefore(n, p)) /\ lake[p] <= Cardinality(Finders(p))
      BY <2>3, <3>1 DEF RowsCounted, LakeCounted
    <3>3. /\ Cardinality(Finders(p)) \in Nat /\ Cardinality(FindersBefore(n, p)) \in Nat
          /\ Cardinality(FindersBefore(n, p)) <= Cardinality(Finders(p))
      BY FindersCount
    <3>4. lake[p] = 0 \/ cycle[c].rows[p] = 0
      <4>1. p.time \in Nat /\ watermark \in Nat
        BY <1>1, PointFields, BackupAssumption DEF TypeOK
      <4>. QED
        BY <2>6, <4>1
    <3>. QED
      BY <2>6, <3>2, <3>3, <3>4
  <2>9. \A d \in Cycles : RowsCounted(d)'
    BY <2>2, <2>3 DEF RowsCounted
  <2>. QED
    BY <2>5, <2>7, <2>8, <2>9
<1>6. ASSUME NEW c \in Cycles, Save(c)
      PROVE  Alone' /\ LakeCovered' /\ LakeCounted' /\ \A d \in Cycles : RowsCounted(d)'
  <2>1. /\ cycle[c].stage = "save" /\ watermark' = cycle[c].high
        /\ cycle' = [cycle EXCEPT ![c] = Idle]
        /\ UNCHANGED <<minute, lake, faults, orderly, overlapped>>
    BY <1>6 DEF Save, Finish
  <2>2. cycle'[c] = Idle /\ \A d \in Cycles \ {c} : cycle'[d] = cycle[d]
    BY <1>1, <2>1 DEF TypeOK
  <2>3. Alone /\ LakeCovered /\ LakeCounted /\ \A d \in Cycles : RowsCounted(d)
    BY <2>1 DEF OnceInv
  <2>4. Busy = {c} /\ Busy' = {} /\ cycle[c].since = watermark
    BY <2>1, <2>2, <2>3 DEF Alone, Busy, Idle
  <2>5. LakeCovered'
    <3>. SUFFICES ASSUME NEW p \in Points, lake[p] > 0 PROVE p.time <= cycle[c].high
      BY <2>1 DEF LakeCovered
    <3>1. p.time <= watermark \/ p.time <= cycle[c].high
      BY <2>3, <2>4 DEF LakeCovered
    <3>2. /\ p.time \in Nat /\ watermark \in Nat /\ cycle[c].high \in Nat
          /\ watermark <= cycle[c].high
      BY <1>1, <2>4, PointFields, CycleFields
    <3>. QED
      BY <3>1, <3>2
  <2>6. LakeCounted'
    BY <2>1, <2>3 DEF LakeCounted
  <2>7. RowsCounted(c)'
    BY <2>2, NoRowsCounted
  <2>8. \A d \in Cycles \ {c} : RowsCounted(d)'
    BY <2>2, <2>3 DEF RowsCounted
  <2>. QED
    BY <2>4, <2>5, <2>6, <2>7, <2>8 DEF Alone
<1>7. ASSUME \/ \E c \in Cycles : SkipSeries(c) \/ Fail(c)
             \/ Restart
      PROVE  FALSE
  <2>1. faults' = faults + 1
    BY <1>7 DEF SkipSeries, Fail, Restart
  <2>. QED
    BY <1>1, <2>1
<1>8. CASE UNCHANGED vars
  BY <1>8 DEF vars, OnceInv, Alone, LakeCovered, LakeCounted, RowsCounted, Busy
<1>. QED
  BY <1>2, <1>3, <1>4, <1>5, <1>6, <1>7, <1>8 DEF Next, Step

\* Without failures and overlapping cycles a point comes to the lake at most as
\* often as queries of CollectDelta find it: a cycle that runs alone does not
\* export again what an earlier one has (exportOnce and the watermark file).
THEOREM ExportedOnce == Spec => []ExportedOncePerQuery
<1>1. OnceInv => ExportedOncePerQuery
  BY DEF OnceInv, LakeCounted, Finders, ExportedOncePerQuery
<1>2. Spec => []OnceInv
  BY OnceInit, OnceStep, ExportAlways, PTL DEF Spec
<1>. QED
  BY <1>1, <1>2, PTL

-----------------------------------------------------------------------------
(* The refinement *)

LEMMA FlushProduces ==
    ASSUME ExportInv, NEW s \in Series, NEW t \in Minutes, Flush(s, t)
    PROVE  Feed!Produce
<1>. DEFINE q == [series |-> s, time |-> t]
<1>1. q \in Points \ minute /\ q.time = t /\ minute' = minute \cup {q}
  <2>1. q \in Points
    BY DEF Points
  <2>2. q \notin minute
    BY BackupAssumption DEF Flush, Minutes
  <2>. QED
    BY <2>1, <2>2 DEF Flush
<1>2. UNCHANGED <<Exported, watermark>>
  BY DEF Flush, Exported
<1>3. orderly' \in {orderly /\ t > watermark, FALSE}
  BY DEF Flush, ExportInv, TypeOK
<1>. QED
  BY <1>1, <1>2, <1>3 DEF Feed!Produce

LEMMA SaveMoves ==
    ASSUME ExportInv, NEW c \in Cycles, Save(c)
    PROVE  Feed!MoveMark
<1>1. /\ cycle[c].stage = "save" /\ watermark' = cycle[c].high
      /\ UNCHANGED <<minute, orderly, Exported>>
  BY DEF Save, Exported
<1>2. \E p \in minute : p.time = watermark'
  BY <1>1 DEF ExportInv, CycleInv, Shape
<1>3. NothingSkipped'
  BY SaveStep DEF ExportInv
<1>4. orderly => \A p \in minute : p.time <= watermark' => p \in Exported
  BY <1>1, <1>3 DEF NothingSkipped
<1>. QED
  BY <1>1, <1>2, <1>4 DEF Feed!MoveMark, Feed!Covered

LEMMA CommitExports ==
    ASSUME ExportInv, NEW c \in Cycles, lake' = Committed(c),
           UNCHANGED <<minute, watermark, orderly>>
    PROVE  Feed!Export
BY Commit DEF Feed!Export

LEMMA FeedInitial == Init => Feed!FeedInit
BY DEF Init, Exported, Feed!FeedInit

LEMMA FeedStep == ExportInv /\ [Next]_vars => [Feed!FeedNext]_(Feed!feed)
<1>. SUFFICES ASSUME ExportInv, [Next]_vars
              PROVE  Feed!FeedNext \/ UNCHANGED <<minute, Exported, watermark, orderly>>
  BY DEF Feed!feed
<1>1. ASSUME NEW s \in Series, NEW t \in Minutes, Flush(s, t) PROVE Feed!FeedNext
  BY <1>1, FlushProduces DEF Feed!FeedNext
<1>2. ASSUME NEW c \in Cycles, Load(c) \/ ReadSeries(c)
      PROVE  UNCHANGED <<minute, Exported, watermark, orderly>>
  BY <1>2 DEF Load, ReadSeries, Exported
<1>3. ASSUME NEW c \in Cycles, SkipSeries(c) PROVE Feed!FeedNext
  BY <1>3 DEF SkipSeries, Exported, Feed!FeedNext, Feed!Disorder
<1>4. ASSUME NEW c \in Cycles, CommitRows(c) PROVE Feed!FeedNext
  BY <1>4, CommitExports DEF CommitRows, Feed!FeedNext
<1>5. ASSUME NEW c \in Cycles, Save(c) PROVE Feed!FeedNext
  BY <1>5, SaveMoves DEF Feed!FeedNext
<1>6. ASSUME NEW c \in Cycles, Fail(c)
      PROVE  Feed!FeedNext \/ UNCHANGED <<minute, Exported, watermark, orderly>>
  <2>1. UNCHANGED <<minute, watermark, orderly>> /\ lake' \in {lake, Committed(c)}
    BY <1>6 DEF Fail
  <2>2. CASE lake' = lake
    BY <2>1, <2>2 DEF Exported
  <2>3. CASE lake' = Committed(c)
    BY <2>1, <2>3, CommitExports DEF Feed!FeedNext
  <2>. QED
    BY <2>1, <2>2, <2>3
<1>7. ASSUME Restart \/ UNCHANGED vars
      PROVE  UNCHANGED <<minute, Exported, watermark, orderly>>
  BY <1>7 DEF Restart, vars, Exported
<1>. QED
  BY <1>1, <1>2, <1>3, <1>4, <1>5, <1>6, <1>7 DEF Next, Step

\* exportOnce in cycles implements the at-least-once feed: every step is one
\* of the feed's or leaves it as it is, so that its watermark only moves to
\* where the past has been exported.
THEOREM ExporterImplementsFeed == Spec => ImplementsFeed
<1>1. Spec => Feed!FeedInit
  BY FeedInitial DEF Spec
<1>2. Spec => [][Feed!FeedNext]_(Feed!feed)
  BY ExportAlways, FeedStep, PTL DEF Spec
<1>. QED
  BY <1>1, <1>2 DEF ImplementsFeed
=============================================================================
