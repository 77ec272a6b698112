---------------------------- MODULE BackupExport ----------------------------
(***************************************************************************)
(* The backup exporter (internal/backup): cycles of exportOnce, one at     *)
(* once and then one per firing of the cron schedule, which does not wait  *)
(* for the cycle before; a cycle loads the watermark, collects the minute  *)
(* rollups after it series by series, appends them to the lake and saves   *)
(* the latest time it saw as the new watermark.  Meanwhile the node goes   *)
(* on flushing buckets, each series at its own pace.                       *)
(*                                                                         *)
(* Push and pull differ in who runs the cycle: in pull mode the collecting *)
(* is the polled node's, and its answer may be lost as a whole.  Minutes   *)
(* are numbered from 1; 0 is the zero time of a missing watermark file.    *)
(* Retention outlasts the behaviour (DESIGN/07 7.6): no point disappears.  *)
(***************************************************************************)
EXTENDS Integers, SequencesExt

CONSTANTS
    SeriesCount,    \* series of the node, in the order of Engine.Series
    Matches,        \* [Series -> series whose labels are a superset of its own]
    LastMinute,     \* bound on the minutes
    Cycles,         \* bound on the cycles that overlap
    MaxFaults       \* bound on failed calls and kills together

Series == 1..SeriesCount
Minutes == 1..LastMinute
Points == [series : Series, time : Minutes]

ASSUME BackupAssumption ==
    /\ SeriesCount \in Nat \ {0} /\ LastMinute \in Nat /\ MaxFaults \in Nat
    /\ Matches \in [Series -> SUBSET Series]
    /\ \A s \in Series : s \in Matches[s]

VARIABLES
    minute,     \* points of the minute tier
    lake,       \* [Points -> rows of the Iceberg table]
    watermark,  \* the watermark file, 0 while there is none
    cycle,      \* [Cycles -> the cycle in progress]
    scheduled,  \* the first cycle is over and cron has been started
    faults,     \* failed calls and kills so far
    orderly,    \* history: no flush disturbed a watermark, no query failed
    overlapped  \* history: two cycles were under way at once

vars == <<minute, lake, watermark, cycle, scheduled, faults, orderly, overlapped>>

-----------------------------------------------------------------------------
Idle == [stage |-> "idle", since |-> 0, next |-> 1,
         rows |-> [p \in Points |-> 0], high |-> 0]

Init ==
    /\ minute = {}
    /\ lake = [p \in Points |-> 0]
    /\ watermark = 0
    /\ cycle = [c \in Cycles |-> Idle]
    /\ scheduled = FALSE
    /\ faults = 0
    /\ orderly = TRUE
    /\ overlapped = FALSE

(* The node: TieredStore flushes a bucket of a series *)

\* A bucket that appears at or below the file's or a cycle's old watermark, or
\* in a series that the cycle has read already: below what the cycle has seen,
\* or while other series may still show it later times.
Disturbs(s, t, c) ==
    /\ cycle[c].stage # "idle"
    /\ \/ t <= cycle[c].since
       \/ /\ s < cycle[c].next
          /\ t <= cycle[c].high \/ cycle[c].next <= SeriesCount

Flush(s, t) ==
    /\ \A p \in minute : p.series = s => p.time < t
    /\ minute' = minute \cup {[series |-> s, time |-> t]}
    /\ orderly' = (orderly /\ t > watermark /\ \A c \in Cycles : ~Disturbs(s, t, c))
    /\ UNCHANGED <<lake, watermark, cycle, scheduled, faults, overlapped>>

(* exportOnce *)

Busy == {c \in Cycles : cycle[c].stage # "idle"}

\* Mutant: a missing watermark file is an error, so that no cycle gets further.
LoadExisting(c) ==
    /\ cycle[c].stage = "idle" /\ (scheduled \/ Busy = {})
    /\ cycle' = IF watermark = 0 THEN cycle
                ELSE [cycle EXCEPT ![c] = [Idle EXCEPT !.stage = "collect",
                         !.since = watermark, !.high = watermark]]
    /\ overlapped' = (overlapped \/ Busy # {})
    /\ UNCHANGED <<minute, lake, watermark, scheduled, faults, orderly>>

\* Mutant: CollectDelta's new watermark starts from zero.
LoadLow(c) ==
    /\ cycle[c].stage = "idle" /\ (scheduled \/ Busy = {})
    /\ cycle' = [cycle EXCEPT ![c] = [Idle EXCEPT !.stage = "collect",
                    !.since = watermark]]
    /\ overlapped' = (overlapped \/ Busy # {})
    /\ UNCHANGED <<minute, lake, watermark, scheduled, faults, orderly>>

\* Run's first cycle, or a firing of the schedule; WatermarkStore.Load.
Load(c) ==
    /\ cycle[c].stage = "idle" /\ (scheduled \/ Busy = {})
    /\ cycle' = [cycle EXCEPT ![c] = [Idle EXCEPT !.stage = "collect",
                    !.since = watermark, !.high = watermark]]
    /\ overlapped' = (overlapped \/ Busy # {})
    /\ UNCHANGED <<minute, lake, watermark, scheduled, faults, orderly>>

Highest(times) == CHOOSE m \in times : \A t \in times : t <= m

\* Mutant: the point at "since", which QueryRange returns, is kept.
AnswerInclusive(s, since) == {p \in minute : p.series \in Matches[s] /\ p.time >= since}

\* The points that the query for one series adds.
Answer(s, since) == {p \in minute : p.series \in Matches[s] /\ p.time > since}

\* A cycle that ends, in success or not.
Finish(c) ==
    /\ cycle' = [cycle EXCEPT ![c] = Idle]
    /\ scheduled' = TRUE

\* CollectDelta's loop goes on; after its last series, exportOnce returns when
\* there are no rows and appends them when there are.
GoOn(c, rows, high) ==
    IF cycle[c].next < SeriesCount
    THEN /\ cycle' = [cycle EXCEPT ![c].next = @ + 1, ![c].rows = rows, ![c].high = high]
         /\ UNCHANGED scheduled
    ELSE IF \A p \in Points : rows[p] = 0
    THEN Finish(c)
    ELSE /\ cycle' = [cycle EXCEPT ![c].next = @ + 1, ![c].rows = rows, ![c].high = high,
                                   ![c].stage = "append"]
         /\ UNCHANGED scheduled

ReadSeries(c) ==
    /\ cycle[c].stage = "collect"
    /\ LET found == Answer(cycle[c].next, cycle[c].since)
           rows == cycle[c].rows
       IN  GoOn(c, [p \in Points |-> IF p \in found THEN rows[p] + 1 ELSE rows[p]],
                   Highest({cycle[c].high} \cup {p.time : p \in found}))
    /\ UNCHANGED <<minute, lake, watermark, faults, orderly, overlapped>>

\* A query that fails is passed over.
SkipSeries(c) ==
    /\ cycle[c].stage = "collect"
    /\ faults < MaxFaults
    /\ GoOn(c, cycle[c].rows, cycle[c].high)
    /\ faults' = faults + 1
    /\ orderly' = FALSE
    /\ UNCHANGED <<minute, lake, watermark, overlapped>>

Committed(c) == [p \in Points |-> lake[p] + cycle[c].rows[p]]

\* IcebergWriter.Append.
CommitRows(c) ==
    /\ cycle[c].stage = "append"
    /\ lake' = Committed(c)
    /\ cycle' = [cycle EXCEPT ![c].stage = "save"]
    /\ UNCHANGED <<minute, watermark, scheduled, faults, orderly, overlapped>>

\* WatermarkStore.Save: a temporary file, renamed.
Save(c) ==
    /\ cycle[c].stage = "save"
    /\ watermark' = cycle[c].high
    /\ Finish(c)
    /\ UNCHANGED <<minute, lake, faults, orderly, overlapped>>

\* Mutant: a failed append moves the watermark all the same.
FailAdvancing(c) ==
    /\ cycle[c].stage \in {"append", "save"}
    /\ faults < MaxFaults
    /\ faults' = faults + 1
    /\ lake' \in {lake, IF cycle[c].stage = "append" THEN Committed(c) ELSE lake}
    /\ watermark' = cycle[c].high
    /\ Finish(c)
    /\ UNCHANGED <<minute, orderly, overlapped>>

\* The poll, the append or the save fails and ends the cycle.  An append may
\* have been committed although its answer was lost.
Fail(c) ==
    /\ cycle[c].stage \in {"collect", "append", "save"}
    /\ faults < MaxFaults
    /\ faults' = faults + 1
    /\ lake' \in {lake, IF cycle[c].stage = "append" THEN Committed(c) ELSE lake}
    /\ Finish(c)
    /\ UNCHANGED <<minute, watermark, orderly, overlapped>>

\* A kill, or main's return, which does not wait for the exporter; the next
\* start begins with a first cycle again.
Restart ==
    /\ faults < MaxFaults
    /\ faults' = faults + 1
    /\ cycle' = [c \in Cycles |-> Idle]
    /\ scheduled' = FALSE
    /\ UNCHANGED <<minute, lake, watermark, orderly, overlapped>>

Step(c) == ReadSeries(c) \/ CommitRows(c) \/ Save(c)

Next ==
    \/ \E s \in Series, t \in Minutes : Flush(s, t)
    \/ \E c \in Cycles : Load(c) \/ SkipSeries(c) \/ Step(c) \/ Fail(c)
    \/ Restart

\* cron fires again and again, and a cycle that is under way goes on: a poll is
\* given up after 30 seconds, and a call of the catalog is assumed to return.
Fairness == \A c \in Cycles : WF_vars(Load(c)) /\ WF_vars(Step(c))

Spec == Init /\ [][Next]_vars /\ Fairness

-----------------------------------------------------------------------------
(* Properties *)

CycleType ==
    [stage : {"idle", "collect", "append", "save"}, since : 0..LastMinute,
     next : 1..(SeriesCount + 1), rows : [Points -> Nat], high : 0..LastMinute]

TypeOK ==
    /\ minute \subseteq Points
    /\ lake \in [Points -> Nat]
    /\ watermark \in 0..LastMinute
    /\ cycle \in [Cycles -> CycleType]
    /\ \A c \in Cycles : cycle[c].since <= cycle[c].high
    /\ scheduled \in BOOLEAN
    /\ faults \in Nat
    /\ orderly \in BOOLEAN
    /\ overlapped \in BOOLEAN

Exported == {p \in Points : lake[p] > 0}

\* The watermark's meaning (delta.go:17-18): what is at or below it has been
\* exported, although appends and saves fail, commits succeed unnoticed, the
\* process is killed between commit and save, and an overlapping cycle saves
\* an older watermark over a newer one.  (As long as no flush disturbs it and
\* no query fails.)
NothingSkipped == orderly => \A p \in minute : p.time <= watermark => p \in Exported

\* Rows are doubled by failures and overlapping cycles only: otherwise a point
\* is exported once for each series whose query finds it.
ExportedOncePerQuery ==
    faults = 0 /\ ~overlapped => \A p \in Points :
        lake[p] <= Cardinality({s \in Series : p.series \in Matches[s]})

Feed == INSTANCE AtLeastOnce
    WITH produced <- minute, exported <- Exported, mark <- watermark, kept <- orderly

\* The exporter implements the at-least-once feed: every step of it is a step
\* of the feed or none.
ImplementsFeed == Feed!FeedInit /\ [][Feed!FeedNext]_(Feed!feed)

\* Once the failures are over every point of the minute tier gets to the lake,
\* whatever the cycles that overlapped left behind.
EventuallyExported == Feed!FeedLive
=============================================================================
