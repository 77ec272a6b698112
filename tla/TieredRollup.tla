---------------------------- MODULE TieredRollup ----------------------------
(***************************************************************************)
(* Rollups (internal/storage/tiered.go): every sample of a series, once    *)
(* the raw tier has it, is folded into the open bucket of the minute tier  *)
(* and then of the hour tier; a sample of another bucket first flushes the *)
(* open one as a point of each of three sub-series, #min, #avg and #max.   *)
(* Several goroutines ingest; ts.mu is held by a rollup from its bucket    *)
(* test to the end of its flush, so that only queries, failures and kills  *)
(* come between the three appends.  A query reads the three sub-series one *)
(* after the other and zips them by position.                              *)
(*                                                                         *)
(* The sub-series are the rings of SeriesRing, here with one atomic Put: a *)
(* write that fails leaves the file as it was.  An average is kept as its  *)
(* sum and count.                                                          *)
(***************************************************************************)
EXTENDS Integers, SequencesExt

CONSTANTS
    Producers,      \* goroutines that ingest samples of the series
    Tiers,          \* enabled rollup tiers, among "minute" and "hour"
    Width,          \* bucket width of each tier, in seconds
    Slots,          \* chunksPerSeries
    ChunkBuckets,   \* maxPointsPerChunk of the sub-series
    Readings,       \* what samples may carry: second and value
    MaxSamples,     \* bound on the samples ingested
    MaxFaults       \* bound on failed writes and kills together

ASSUME RollupAssumption ==
    /\ Tiers \in (SUBSET {"minute", "hour"}) \ {{}}
    /\ Width \in [Tiers -> Nat \ {0}]
    /\ Slots \in Nat \ {0} /\ ChunkBuckets \in Nat \ {0}
    /\ Readings \subseteq [time : Nat, value : Nat] /\ IsFiniteSet(Readings)
    /\ MaxSamples \in Nat /\ MaxFaults \in Nat

Times == {r.time : r \in Readings}
Values == {r.value : r \in Readings}

Parts == {"min", "avg", "max"}

VARIABLES
    work,       \* [Producers -> the sample in hand and the rollup it is due at]
    acc,        \* [Tiers -> bucketAccumulator, NoBucket before the first]
    flush,      \* the flush in progress: who holds ts.mu, and the next part
    sub,        \* [Tiers -> [Parts -> ring]]
    asked,      \* the query in progress: its tier and the parts read so far
    seen,       \* history: [Tiers -> [bucket -> [value -> count]]] of samples
    inOrder,    \* history: [Tiers -> no sample came after one of a later bucket]
    faults      \* failed writes and kills so far

vars == <<work, acc, flush, sub, asked, seen, inOrder, faults>>

-----------------------------------------------------------------------------
(* Buckets and accumulators *)

NoBucket == [start |-> -1, count |-> 0, sum |-> 0, min |-> 0, max |-> 0]
NoFlush == [by |-> "none", part |-> "none"]
Idle == [tier |-> "none", time |-> -1, value |-> 0]
NoQuery == [tier |-> "none", got |-> <<>>]

\* Mutant: the bucket's number instead of its start.
BucketNumber(k, time) == time \div Width[k]

BucketStart(k, time) == (time \div Width[k]) * Width[k]
Buckets(k) == {BucketStart(k, t) : t \in Times}

\* Mutant: the first value of a bucket is not special, so that min starts
\* from the accumulator's zero.
AddFromZero(b, v) ==
    [b EXCEPT !.count = b.count + 1, !.sum = b.sum + v,
              !.min = IF v < b.min THEN v ELSE b.min,
              !.max = IF v > b.max THEN v ELSE b.max]

\* bucketAccumulator.add
Add(b, v) ==
    [b EXCEPT !.count = b.count + 1, !.sum = b.sum + v,
              !.min = IF b.count = 0 \/ v < b.min THEN v ELSE b.min,
              !.max = IF b.count = 0 \/ v > b.max THEN v ELSE b.max]

Opened(start, v) == Add([NoBucket EXCEPT !.start = start], v)

\* The point that appendAgg stores for a part of a closed bucket.
PartOf(b, part) ==
    [time |-> b.start,
     value |-> CASE part = "min" -> b.min
                 [] part = "avg" -> <<b.sum, b.count>>
                 [] part = "max" -> b.max]

-----------------------------------------------------------------------------
(* Sub-series: series.write and loadSeries without the codec *)

EmptyRing == [open |-> -1, pts |-> <<>>, file |-> [i \in 0..(Slots - 1) |-> <<>>]]

Slot(k, time) == (time \div (Width[k] * ChunkBuckets)) % Slots

IsLate(k, ring, pt) ==
    /\ Slot(k, pt.time) = ring.open
    /\ ring.pts # <<>>
    /\ pt.time <= Last(ring.pts).time

\* series.write; "written" tells whether writeChunkFile succeeded.
Put(k, ring, pt, written) ==
    LET idx == Slot(k, pt.time)
        pts == IF idx = ring.open THEN Append(ring.pts, pt) ELSE <<pt>>
    IN  IF IsLate(k, ring, pt) THEN ring
        ELSE [open |-> idx, pts |-> pts,
              file |-> IF written THEN [ring.file EXCEPT ![idx] = pts] ELSE ring.file]

\* Open after a kill: the chunk with the latest point is resumed.
Reload(ring) ==
    LET full == {i \in DOMAIN ring.file : ring.file[i] # <<>>}
        latest == CHOOSE i \in full :
                     \A j \in full : Last(ring.file[j]).time <= Last(ring.file[i]).time
    IN  IF full = {} THEN EmptyRing
        ELSE [ring EXCEPT !.open = latest, !.pts = ring.file[latest]]

OnDisk(ring) == UNION {ToSet(ring.file[i]) : i \in DOMAIN ring.file}

\* Store.QueryRange over all time: the points on disk, sorted.
InTimeOrder(pts) == \A i, j \in DOMAIN pts : i < j => pts[i].time <= pts[j].time

Read(ring) == CHOOSE pts \in SetToSeqs(OnDisk(ring)) : InTimeOrder(pts)

-----------------------------------------------------------------------------
(* Consume *)

Init ==
    /\ work = [p \in Producers |-> Idle]
    /\ acc = [k \in Tiers |-> NoBucket]
    /\ flush = NoFlush
    /\ sub = [k \in Tiers |-> [part \in Parts |-> EmptyRing]]
    /\ asked = NoQuery
    /\ seen = [k \in Tiers |-> [b \in Buckets(k) |-> [v \in Values |-> 0]]]
    /\ inOrder = [k \in Tiers |-> TRUE]
    /\ faults = 0

\* The rollup that follows the raw append, and the one after a rollup.
FirstTier == IF "minute" \in Tiers THEN "minute" ELSE "hour"

Due(s, k) == IF k = "minute" /\ "hour" \in Tiers THEN [s EXCEPT !.tier = "hour"]
                                                ELSE Idle

Ingested == SumFunction([s \in Buckets(FirstTier) \X Values |-> seen[FirstTier][s[1]][s[2]]])

\* Consume up to the raw tier's append; when that fails Consume returns and
\* nothing here changes.
Consume(p, r) ==
    /\ work[p] = Idle
    /\ Ingested + Cardinality({q \in Producers : work[q].tier = FirstTier}) < MaxSamples
    /\ work' = [work EXCEPT ![p] = [tier |-> FirstTier, time |-> r.time, value |-> r.value]]
    /\ UNCHANGED <<acc, flush, sub, asked, seen, inOrder, faults>>

\* The histories, when tier k has taken in a sample.
TakeIn(k, s) ==
    LET b == BucketStart(k, s.time)
    IN  /\ seen' = [seen EXCEPT ![k][b][s.value] = @ + 1]
        /\ inOrder' = [inOrder EXCEPT ![k] =
               @ /\ \A c \in Buckets(k), v \in Values : seen[k][c][v] > 0 => c <= b]

\* rollup, for the first sample and for one of the open bucket.
Accumulate(p) ==
    LET k == work[p].tier
        start == BucketStart(k, work[p].time)
    IN  /\ work[p] # Idle /\ flush = NoFlush
        /\ acc[k] = NoBucket \/ acc[k].start = start
        /\ acc' = [acc EXCEPT ![k] = IF @ = NoBucket THEN Opened(start, work[p].value)
                                                     ELSE Add(@, work[p].value)]
        /\ TakeIn(k, work[p])
        /\ work' = [work EXCEPT ![p] = Due(@, k)]
        /\ UNCHANGED <<flush, sub, asked, faults>>

\* rollup, for a sample of another bucket: the flush begins.
BeginFlush(p) ==
    LET k == work[p].tier
    IN  /\ work[p] # Idle /\ flush = NoFlush
        /\ acc[k] # NoBucket /\ acc[k].start # BucketStart(k, work[p].time)
        /\ flush' = [by |-> p, part |-> "min"]
        /\ UNCHANGED <<work, acc, sub, asked, seen, inOrder, faults>>

\* appendAgg's append of one part, and how it ends.
PutPart(written) ==
    LET k == work[flush.by].tier
    IN  sub' = [sub EXCEPT ![k][flush.part] =
                   Put(k, @, PartOf(acc[k], flush.part), written)]

AppendPart ==
    /\ flush.part \in {"min", "avg"}
    /\ PutPart(TRUE)
    /\ flush' = [flush EXCEPT !.part = IF @ = "min" THEN "avg" ELSE "max"]
    /\ UNCHANGED <<work, acc, asked, seen, inOrder, faults>>

\* Mutant: appendAgg returns before its last append.
FinishFlushWithoutMax ==
    LET p == flush.by
        k == work[p].tier
    IN  /\ flush.part = "max"
        /\ acc' = [acc EXCEPT ![k] = Opened(BucketStart(k, work[p].time), work[p].value)]
        /\ TakeIn(k, work[p])
        /\ flush' = NoFlush
        /\ work' = [work EXCEPT ![p] = Due(@, k)]
        /\ UNCHANGED <<sub, asked, faults>>

\* The last part; the sample in hand opens the new bucket.
FinishFlush ==
    LET p == flush.by
        k == work[p].tier
    IN  /\ flush.part = "max"
        /\ PutPart(TRUE)
        /\ acc' = [acc EXCEPT ![k] = Opened(BucketStart(k, work[p].time), work[p].value)]
        /\ TakeIn(k, work[p])
        /\ flush' = NoFlush
        /\ work' = [work EXCEPT ![p] = Due(@, k)]
        /\ UNCHANGED <<asked, faults>>

\* Mutant: a failed flush drops the bucket and opens the new one.
FailPartDropping ==
    LET p == flush.by
        k == work[p].tier
    IN  /\ flush # NoFlush /\ faults < MaxFaults
        /\ ~IsLate(k, sub[k][flush.part], PartOf(acc[k], flush.part))
        /\ PutPart(FALSE)
        /\ acc' = [acc EXCEPT ![k] = Opened(BucketStart(k, work[p].time), work[p].value)]
        /\ flush' = NoFlush
        /\ work' = [work EXCEPT ![p] = Idle]
        /\ faults' = faults + 1
        /\ UNCHANGED <<asked, seen, inOrder>>

\* A part's write fails: rollup and Consume return the error, the bucket
\* stays open, the sample is in no bucket and the hour tier does not see it.
FailPart ==
    LET p == flush.by
        k == work[p].tier
    IN  /\ flush # NoFlush /\ faults < MaxFaults
        /\ ~IsLate(k, sub[k][flush.part], PartOf(acc[k], flush.part))
        /\ PutPart(FALSE)
        /\ flush' = NoFlush
        /\ work' = [work EXCEPT ![p] = Idle]
        /\ faults' = faults + 1
        /\ UNCHANGED <<acc, asked, seen, inOrder>>

\* A kill and the next start: accumulators and the work in hand are gone.
Restart ==
    /\ faults < MaxFaults
    /\ work' = [p \in Producers |-> Idle]
    /\ acc' = [k \in Tiers |-> NoBucket]
    /\ flush' = NoFlush
    /\ sub' = [k \in Tiers |-> [part \in Parts |-> Reload(sub[k][part])]]
    /\ asked' = NoQuery
    /\ faults' = faults + 1
    /\ UNCHANGED <<seen, inOrder>>

-----------------------------------------------------------------------------
(* queryAgg *)

Ask(k) ==
    /\ asked = NoQuery
    /\ asked' = [tier |-> k, got |-> <<Read(sub[k]["min"])>>]
    /\ UNCHANGED <<work, acc, flush, sub, seen, inOrder, faults>>

ReadNext ==
    /\ asked # NoQuery /\ Len(asked.got) < 3
    /\ LET part == IF Len(asked.got) = 1 THEN "avg" ELSE "max"
       IN  asked' = [asked EXCEPT !.got = Append(@, Read(sub[asked.tier][part]))]
    /\ UNCHANGED <<work, acc, flush, sub, seen, inOrder, faults>>

Answered == asked # NoQuery /\ Len(asked.got) = 3

Return ==
    /\ Answered
    /\ asked' = NoQuery
    /\ UNCHANGED <<work, acc, flush, sub, seen, inOrder, faults>>

\* Mutant: every minimum gets a row, whatever the other parts have.
RowsOfMin == 1..Len(asked.got[1])

\* The rows of the answer: as many as the shortest part has points.
Rows == 1..Min({Len(asked.got[i]) : i \in 1..3})

Next ==
    \/ \E p \in Producers, r \in Readings : Consume(p, r)
    \/ \E p \in Producers : Accumulate(p) \/ BeginFlush(p)
    \/ AppendPart \/ FinishFlush \/ FailPart \/ Restart
    \/ \E k \in Tiers : Ask(k)
    \/ ReadNext \/ Return

Spec == Init /\ [][Next]_vars

-----------------------------------------------------------------------------
(* Properties *)

TypeOK ==
    /\ work \in [Producers -> [tier : Tiers, time : Times, value : Values] \cup {Idle}]
    /\ \A k \in Tiers : acc[k] # NoBucket =>
          /\ acc[k].start \in Nat /\ acc[k].start % Width[k] = 0
          /\ acc[k].count \in Nat \ {0} /\ {acc[k].min, acc[k].max} \subseteq Values
    /\ flush # NoFlush => flush.part \in Parts /\ work[flush.by] # Idle
    /\ asked # NoQuery => asked.tier \in Tiers /\ Len(asked.got) \in 1..3
    /\ \A k \in Tiers, part \in Parts :
          /\ sub[k][part].open \in -1..(Slots - 1)
          /\ DOMAIN sub[k][part].file = 0..(Slots - 1)
    /\ inOrder \in [Tiers -> BOOLEAN]
    /\ faults \in 0..MaxFaults

\* The rollup of a bag of values, written down directly.
ValuesIn(bag) == {v \in Values : bag[v] > 0}
Rollup(bag) ==
    [min |-> Min(ValuesIn(bag)), max |-> Max(ValuesIn(bag)),
     avg |-> <<SumFunction([v \in Values |-> v * bag[v]]), SumFunction(bag)>>]

\* Whatever way the producers' samples interleave in the two tiers, a part on
\* disk is the minimum, average or maximum of every sample of its bucket: a
\* bucket is never stored before its last sample, nor with one of another.
\* (Without failures, and when the tier took the buckets in order: a late
\* sample closes the open bucket early.)
AggregatesExact ==
    \A k \in Tiers : faults = 0 /\ inOrder[k] =>
        \A part \in Parts : \A pt \in OnDisk(sub[k][part]) :
            /\ ValuesIn(seen[k][pt.time]) # {}
            /\ pt.value = Rollup(seen[k][pt.time])[part]

HasSamples(k, b) == ValuesIn(seen[k][b]) # {}
ChunkOf(k, b) == b \div (Width[k] * ChunkBuckets)
Stored(k, part, b) == \E pt \in OnDisk(sub[k][part]) : pt.time = b

\* Under the same conditions no closed bucket is missing: one that has samples
\* and precedes the open bucket by less than the ring's length is on disk in
\* all three parts, while later buckets wrap round and other flushes go on.
ClosedBucketsOnDisk ==
    \A k \in Tiers : faults = 0 /\ inOrder[k] =>
        \A b \in Buckets(k), part \in Parts :
            /\ HasSamples(k, b) /\ b < acc[k].start
            /\ ChunkOf(k, b) > ChunkOf(k, acc[k].start) - Slots
            => Stored(k, part, b)

\* Failures included, the open bucket only gives way to another one when all
\* three of its parts are stored, if only in memory: a failed append keeps the
\* bucket for the next attempt.
Kept(ring) == OnDisk(ring) \cup ToSet(ring.pts)
MovesAfterFlush ==
    \A k \in Tiers :
       /\ inOrder'[k]
       /\ acc[k] # NoBucket /\ acc'[k] # NoBucket /\ acc'[k].start # acc[k].start
       => \A part \in Parts :
             \E pt \in Kept(sub'[k][part]) : pt.time = acc[k].start
FlushBeforeMove == [][MovesAfterFlush]_vars

\* The zip by position: the parts of each row are those of one bucket.
RowsAligned ==
    \A i \in Rows, j \in 1..3 :
        /\ i <= Len(asked.got[j])
        /\ asked.got[j][i].time = asked.got[1][i].time

\* No two closed, or closing, buckets share a slot.
NothingWrapped(k) ==
    LET closed == {b \in Buckets(k) : HasSamples(k, b) /\ b <= acc[k].start}
    IN  \A b, c \in closed : ChunkOf(k, b) < ChunkOf(k, c) + Slots

\* A query that overlaps a flush, so that it reads the three sub-series at
\* different moments, still answers with rows of one bucket each: a bucket
\* missing from a later sub-series is always the last one.  (Without failures,
\* in order, and before the ring wraps round.)
RowsAlignedDuringFlush ==
    Answered /\ faults = 0 /\ inOrder[asked.tier] /\ NothingWrapped(asked.tier)
        => RowsAligned

\* tiered.go:36-37: an AggPoint "is one rolled-up bucket".  The code breaks
\* this for good when one of the three appends fails, or a kill comes between
\* them: one sub-series lacks a bucket that the others have, and every row
\* from there on mixes two buckets.
RowsAreBuckets ==
    Answered /\ inOrder[asked.tier] /\ NothingWrapped(asked.tier) => RowsAligned
=============================================================================
