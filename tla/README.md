# Circa: models, checks and proofs

Circa (`cmd/circa`, `internal/*`) is a single-binary metrics store: it collects
samples, keeps them in bounded rings on disk, rolls them up by minute and hour,
evaluates alert rules on them and exports them. This directory holds TLA+
modules of its core, TLC configurations that check them on small instances,
and proofs, checked by TLAPS, that hold for every value of the constants.

## 1. The system

| component | source | state | operations |
|---|---|---|---|
| chunk codec | `storage/gorilla.go`, `bitstream.go`, `anomalybit.go` | XOR window, last value, last delta of an encoder or decoder | encodeChunk, decodeChunk, EncodeAnomalyBit |
| series ring | `storage/storage.go` | `series`: open chunk index and points; on disk: meta.json and `chunksPerSeries` chunk files; `Store.byKey` | Open/loadSeries, Append (seriesFor, write, writeChunkFile), QueryRange (readAll) |
| tiered rollups | `storage/tiered.go` | one open bucket per series and tier; three sub-series (`#min`, `#avg`, `#max`) per tier | Consume, rollup, appendAgg, queryAgg |
| alert engine | `alert/*.go` | per rule and series: history, pendingSince, firing, since | Consume, evaluate, updateHistory, dispatch, Alerts |
| backup exporter | `backup/*.go`, `backup_cli.go`, `httpapi/backup.go` | the watermark file; the cycle in progress | Run, exportOnce, CollectDelta, Append, Load, Save |
| remote-write sender | `ingest/remotewrite/sender.go` | ticker; per-series watermarks, in memory; the cycle in progress | Run, sendOnce, push |
| remote-write receiver | `ingest/remotewrite/receiver.go` | requests being handled | ServeHTTP |
| anomaly detector | `anomaly/*.go` | per series: raw buffer, FIFO of models; the loop's tick count | Score, Run, retrainDueSeries, retrainOne; Preprocess, Train, Score of a model |
| ingest pipeline | `ingest/ingest.go`, `main.go` | none | handleSample: score, then Ingest, the fan-out to the consumers |
| query engine | `query/query.go` | none | QueryRange, Series, AnomalyRanking |
| sources | `ingest/scrape`, `collect` | timers, CPU counters | one goroutine per target and one for the collector, calling handleSample |
| configuration | `config/*.go`, `config_cli.go` | the file | Load (decode, applyDefaults, Validate), `config init`, `config check` |
| authentication | `auth/*.go`, `auth_cli.go` | `auth.users` in the same file | add-user, reset-password (SetUser); the check of a request's password |
| edges | `httpapi`, `alert/notify`, `web`, `helm`, `k8s`, packaging | none but counters | |

**Interactions.** Every source runs in goroutines of its own and calls
`handleSample` (main.go:139), which calls `Detector.Score` and then
`Pipeline.Ingest`; that calls `TieredStore.Consume` and `Engine.Consume` in the
same goroutine. So one series may be ingested by several goroutines, and each
consumer protects its own state. Queries, the sender, the exporter and the
detector's training read the store through `query.Engine` at any time. The
notifiers, the catalog and remote endpoints are outside calls that may fail or
succeed without the caller hearing of it. `main` waits only for the HTTP server
at shutdown, so that a normal stop looks like a kill to every other goroutine.

**What is hard to get right** is listed line by line under "hazards" in
`PROJECT.json`. The main kinds are: a chunk file rewritten in place while it is
read, or when the process dies; late samples in a ring addressed by time modulo
its length; three appends that should be one; verdicts sent to notifiers after
the lock is released; a watermark that must follow what has been committed;
export cycles that overlap; sender watermarks that move before anything has been
sent; a retraining loop that goes by a place in a list while the list grows; and
a file that is read, changed and rewritten by several processes without a lock.

**What makes each part correct.** Codec: decoding gives back what was encoded.
Ring: chunks are well formed, recent points survive kills, Open succeeds on what
appends leave behind, and a query misses nothing that was there throughout.
Rollups: a stored bucket is the exact aggregate of its samples, and the rows of
an answer do not mix buckets. Alerts: firing is exactly "has held for `for`",
and each transition reaches each notifier once and in order. Export: what is at
or below the watermark is in the lake, and everything gets there in the end.
Sender and receiver: each sample is read once, what is not read is missed for one
of a few stated reasons, the receiver keeps what it is given until its ring has
turned, and without failures and late cycles everything arrives. Detector: a
sample is judged by the values that precede it in storage and by models that have
not seen it; no series is forgotten by the loop. Pipeline: a consumer that fails
keeps nothing from the others. Configuration: what Load accepts, the subsystems
can run on; a field means what the file says; a user who was set stays set.

## 2. Modules

| module | models | kind |
|---|---|---|
| `GorillaCodec` | the codec's fields: dod buckets, signed fields, XOR windows, anomaly bit | operators |
| `GorillaStream` | encoder and decoder in step over a stream of points | state machine |
| `GorillaProofs` | theorems about the two | proofs |
| `SeriesRing` | one series of one store, from `Append` to `os.WriteFile` | state machine |
| `RingQuery` | `readAll` running beside it; extends `SeriesRing` | composition |
| `SeriesRingProofs` | theorems about `SeriesRing` and the answers of `RingQuery` | proofs |
| `TieredRollup` | `Consume`, `rollup`, `appendAgg`, `queryAgg` | state machine |
| `RollupProofs` | theorems about `TieredRollup` | proofs |
| `AlertEngine` | `Engine.Consume` by concurrent producers | state machine |
| `AlertProofs` | theorems about `AlertEngine` | proofs |
| `AtLeastOnce` | what the exporter promises | abstract specification |
| `BackupExport` | `Exporter.Run`, `exportOnce`, `CollectDelta`; implements `AtLeastOnce` | state machine |
| `BackupProofs` | theorems about `BackupExport` | proofs |
| `RemoteWrite` | the sender's ticker, `sendOnce` and `push`, and the receiver's handler | composition |
| `RemoteWriteProofs` | theorems about `RemoteWrite` | proofs |
| `AnomalyDetector` | `handleSample` from several sources, store and alert engine behind it, the retraining loop beside it | composition |
| `FeatureVectors` | `Preprocess`, its three steps, and `rawBufferLen` | operators |
| `KMeans` | `Train` and the mean distances of one model; extends `FeatureVectors` | state machine over all inputs |
| `AnomalyProofs` | theorems about `AnomalyDetector`, `FeatureVectors` and `KMeans` | proofs |
| `Configuration` | `Default`, `applyDefaults`, `Validate`, and what each subsystem needs | operators |
| `ConfigFile` | the file's life: init, hands, SetUser, kills, starts; extends `Configuration` | state machine |
| `ConfigProofs` | theorems about `Configuration` and `ConfigFile` | proofs |
| `MC*` | constants of the TLC instances | |

### Codec
A value is the set of its one bits, so that XOR is symmetric difference and a
window is an interval of bit positions; `WindowWritten`/`XorWritten` follow
`writeXOR` and `WindowRead`/`XorRead` follow `readXOR`, with the leading-zero
field clamped as in the code. Delta-of-deltas go through the buckets of
`writeDeltaOfDelta` (`Half`: 64, 256, 2048, 2^31) and come back through two's
complement of the payload's width. The packing of bits into bytes is abstracted
to reading the fields in the order in which they were written.

### Series ring
`SeriesRing` splits an append at every file operation: `BeginCreate`,
`MkdirSeries`, `OpenMeta`, `WriteMeta` for a new series, then `Accept` (the
in-memory half of `write`), `Mkdir`, `OpenChunk`, `WriteChunk`. `os.WriteFile`
is two steps because it truncates first; a file in between is "torn", and
reading it is an error. At each operation the process may be killed (`Crash`),
the operation may fail (`IOFails`), or something else may delete the directory
(`RemoveDir`). `Restart` is `Open`: it fails on a torn or missing file, and
otherwise resumes the chunk with the latest point. The points read back go
through the codec module, which brings most chunks back as they were; `exact`
remembers whether each chunk written so far was one of those. `RingQuery`
adds a query that lists the directory and then reads chunk by chunk, because
`readAll` does not hold `series.mu` while it reads. One append at a time is what
`Store.mu` and `series.mu` give.

### Tiered rollups
A producer takes a sample through the minute tier, then the hour tier. `ts.mu`
is held through a flush, so only queries, failures and kills come between its
three appends (`BeginFlush`, `AppendPart`, `FinishFlush`, `FailPart`). A
sub-series is the ring above with one atomic `Put`; `queryAgg` is `Ask`,
`ReadNext`, `Return`. What is read of a sub-series is some list of its points in
the order of time (`Read`), which is what `sort.Slice` gives. An average is kept
as its sum and count.

### Alert engine
`e.mu` is held twice in an evaluation, and that is where it is cut:
`UpdateHistory`, then `Reset` or `Hold`, then one `Notify` per call of a
notifier. All of it interleaves with other producers. A rate of change is
compared without dividing; severity, labels and metrics are left out. A restart
is a new beginning: the engine keeps nothing.

### Backup exporter
`Flush` is a bucket that reaches the minute tier. A cycle is `Load`, one
`ReadSeries` or `SkipSeries` (a failed query) per series, `CommitRows`, `Save`.
`Fail` ends it in any of its stages, and an append may have been committed all
the same. Cron starts each cycle in a goroutine of its own, so from the second
one on cycles overlap. Push and pull mode are the same cycle: in pull mode the
node collects and `Fail` is a lost poll. The watermark file is written to a
temporary name and renamed: `Save` is atomic. The history variable `orderly`
says that so far one watermark could follow the data: no bucket appeared at or
below a watermark in use or behind a series that a cycle had already read, and
no query failed.

### Remote write
`Advance` is the clock, in fractions of a second, and fills the ticker's channel,
which holds one tick. `Ingest` puts a sample into the sender's store up to
`MaxDelay` ticks after it was stamped. A cycle is cut where the code reads state:
`BeginCycle` takes the time, `ListSeries` the series as a set, `ReadSeries` queries
the next one of them in the order of the list (`NextSeries`), adds all results to the batch (the query finds the series with more labels
too) and moves the watermark of this one; `NothingToSend` or `Push` ends it.
`FailRead` is the early return of a failed query, `Timeout` the client's ten
seconds, `LoseRequests` a refused connection, a 5xx or a receiver that dies,
`Restart` a kill of the sender. `HandleSample` takes the next sample of any
request under way to the receiver's raw ring, so a request whose sender gave up
goes on beside the next one. Both stores keep a series in a ring of chunk files,
with `series.write` as one step (`Written`): a point of another slot, a later one or
one of an earlier chunk, replaces what that slot held, and within the open chunk
a point that is not later is dropped. `Reopened` is `loadSeries`, at either end. `hist`
remembers which samples were read how often, which came behind a cycle's time,
and whether a request was sent while the receiver still had an earlier one.

### Anomaly detector and ingest path
Each source is a goroutine: `BeginRound` stamps a round, and `Score`, `Store` (or
`FailStore`), `Alert` are the three calls of `handleSample` for each of its samples, in any
order of the samples. `Score` is one step because the ensemble's lock is held.
The store is a ring of chunk files per series, with the open chunk in memory too:
`Joined` and `Flushed` are the two halves of `series.write`, which drops a sample of the
open chunk that is not later and turns the ring back for one of an earlier chunk.
`FailStore` does the first half only, also of a new series, or does not create it.
Training reads the files, as a query would. The loop is `Tick` (list and
choose the series due: those whose `Place` in the sorted list has the tick's
remainder), `Train` (query and train) or `FailTrain`, `AddModel`; it works
through the set of those due in the order of the list (`Visited`). What a query
finds in a series is the set of the places of its points (`PointsIn`), and the
first result is the series that matches and comes first in its by-name list
(`First`).
`Restart` empties detector and alert engine, opens the chunk with the latest point
(`Reopened`) and reorders the store's by-name lists, which follow the directories
then (`Reordered`). The verdict of a model is left open here. Torn files, and a directory without
`meta.json`, which keep the store from opening, are `SeriesRing`'s.

### Model
`KMeans` starts from any values and settings, makes the vectors as `Preprocess`
does (`FeatureVectors`: difference, running-sum average, lag windows) and takes `Train`'s rounds one
by one (`Iterate`). A centroid is a sum and a count, a moving average its window's
sum, and a comparison of distances a comparison of squares multiplied out: so
everything is exact and floats' rounding is left out. Mean distances need square
roots, so they are taken for vectors of one dimension only.

### Configuration
A file is the function of the fields it sets. Values are abstract (a duration is
one of five kinds of text and decodes to its sign; more than an int64 of
nanoseconds wraps, to a negative or to a positive one; a float may be a `NaN`), and `Effective` is decoding over `Default()`
and then `applyDefaults`. `Validate` gives the set of fields it complains of. Beside it stands
what `NewTicker`, `NewRule`, `dispatch`, the detector, the exporter and `ServeMux` need.
`ConfigFile` then lets the file change: `HandEdit`; `InitStat`, which looks
whether the file is there and then writes a template; `BeginSetUser`, which reads and
checks, asks for the password, and reads a second time (`ReadAgain`, or `GiveUp`);
`Truncate` and `Write`, the two halves of `os.WriteFile`; `KillWriter` between
them, which leaves a text that does not parse, or one cut between two fields, or
one cut within a value that parses all the same: a number without its last digit,
fewer users, a rule without its last fields, a section with nothing behind it
(`Shortened`). `Start` is `run`: refused, running, or panicked half way.

## 3. Runs

| run | asks | instance |
|---|---|---|
| `codec_stream` | do encoder and decoder stay in step? | buckets of 2 to 5 bits, values of 4 bits, 4 points |
| `ring_query` | ring and query under failures, kills, deletion | 2 slots of 2 s, seconds 0, 1, 2, 4 |
| `ring_late` (violation) | is only stale data discarded? | same ring, seconds 0..5 |
| `tiered` | aggregates, rows and flush order with racing producers | both tiers, 2 producers, 3 samples of 4 seconds, 1 failure or kill |
| `tiered_mixed` (violation) | are rows buckets after a failed append? | 1 producer, 4 slots |
| `alert` | firing, notices, windows | 2 producers, 4 samples, 2 rules, 2 notifiers |
| `backup` | at-least-once delivery, refinement, liveness | 2 series, 2 minutes, 2 cycles, 1 fault |
| `remote_write` | read once, missed for a reason, kept, arrives | 2 series, 3 samples, half-second ticks, interval 1 s, clock to 2.5 s, rings of 2 chunks of 2 s, 1 fault |
| `remote_restart` (violation) | does a restart leave no gap? | same |
| `anomaly` | fan-out, buffers, models, round-robin, liveness | 2 sources that share a series, 3 seconds, 4 samples, rings of 2 chunks of 1 s, fanout 2, 1 fault |
| `kmeans` | features, what the clusters tell apart, convergence | all series of 6 values of {0, 1, 3, 4}, 5 settings, 3 rounds |
| `config` | does an accepted file work; do users and fields stay? | 2 processes, 2 users, 2 changes of any of the fields |

**Why the bounds are enough.** A ring of two slots needs three chunks to wrap,
and the timestamps span three: every rotation, late point, overwriting and
resumption occurs. Seconds 0, 1 and 4 in one file, after a pause of a whole turn,
are a delta-of-delta at the end of a bucket of the scaled codec: so the run also has
chunks that come back with other seconds than were written. Faults, kills and deletions of the ring are not bounded at
all; it is finite because points are. `codec_stream` reaches every bucket, both
ends of each, and a window that is opened, reused and replaced; the widths
are scaled, and the proofs cover the code's own. In `tiered` minute 2 takes the
slot of minute 0, and an hour closes. In `alert` four samples allow pending, firing, a dip and a
second pending, with `for` greater than zero, and a point exactly as old as the
window. In `backup` two series are what a watermark can confuse, and the labels
of the second are a superset of the first's; two cycles overlap; one fault is a
failed call, a lost answer or a kill, at every point. More than one fault is
covered by the proofs. In `remote_write` a cycle may begin within a second or at
its start, on time or late, and a sample may be stamped before it and
stored after; the second series' labels are a superset of the first's; seconds 0 to 2
are two chunks, so that a late sample turns the sender's ring back, and a point sent
twice the receiver's. A whole turn of the ring is left to the proof. In
`anomaly` the rings turn with every second and wrap round at the third, and a scraped
sample is late when the collector's came first; `Need` is 1, so that
the order within a longer buffer is left to the proof, and so are overwritten points
in the buffer of a series with one source. The series are created in an order that is not the list's, and restarts
put them in a third; the fanout of 2 makes a new series move another into the tick
that has just passed. In `kmeans` three rounds are shown to be enough: one
more would change nothing (part of `BlindOnTwoVectors`); empty clusters, ties and
repeated vectors all occur. In `config` two changes are what a rule and its
notifier, a section and its switch, or two overlapping commands take; what is left of
a killed rewrite may be cut at any field. The constants that only bound a run are `MaxPoints`
(GorillaStream), `MaxSamples` (TieredRollup, AlertEngine, RemoteWrite,
AnomalyDetector), `MaxFaults` (TieredRollup, BackupExport, RemoteWrite,
AnomalyDetector), `LastMinute` (BackupExport), `MaxDelay` (RemoteWrite), `MaxTime`
(RemoteWrite, AnomalyDetector), `Values`, `Lengths` and `MaxIterations` (KMeans; the code's
limit is 500), `MaxChanges` (ConfigFile), and the finite sets of seconds, readings,
gaps and file contents.

`CHECK_DEADLOCK FALSE` stands in five configurations only: an encoder ends with its
chunk, an engine that gets no samples has nothing to do, training ends after its
rounds, and in the two of `RemoteWrite` the clock is bounded. Producers are a symmetry set in `tiered`, which has no
temporal property.

**Fairness.** `BackupExport`: `WF(Load(c))`, cron fires again
and again; `WF(Step(c))`, a cycle under way goes on, since local reads end and
the HTTP client of a poll gives up after 30 s (remote.go:30); of the catalog it is
assumed that its call returns, as the code sets no limit of its own. `RemoteWrite`:
`WF(Advance)`, time passes; `WF(SenderStep)`, the sender's goroutine runs, and
waits for an answer ten seconds at most; `WF(Handle)`, a request's handler runs.
`AnomalyDetector`: `WF(Retrain)`, the detector's ticker fires and its goroutine runs;
sources need no fairness. Failures, restarts, flushes and samples are never fair.
Nothing says that failures stop but `MaxFaults`, which is what "once the outage is
over" means in `EventuallyExported`, and what lets a restart delay
`EventuallyTrained` only so often.

**Disagreements met** (the violation runs, with the quoted line under
"findings"): a late point rotates the ring backwards and the next point wipes the
newest chunk; one failed append of a flush misaligns the rows for good; a sender that
is restarted sends nothing again, and leaves a gap: its first tick comes an interval
after the start and looks back one interval, so that what the killed process had not
read yet is never sent, although sender.go:27-28 and RELEASE/v0.3.0.md:30 say that
a restart sends up to one interval's worth again.

**Observations without a run of their own**, met while modelling. The
properties are stated with the condition that leaves these out:

- *Codec.* The upper end of each dod bucket is read back negated
  (gorilla.go:135 against :65); the lemma `DodBoundary` proves it.
- *Ring.* The ring covers the retention only with the open chunk full
  (storage.go:261 against 38-41). `write` compares slots, not chunk numbers, so
  a pause of exactly one turn goes on in the stale chunk, which outgrows
  `maxPointsPerChunk`. A second sample of one second is dropped by the raw tier but
  counted in the rollups.
- *Alerts.* With two sources on one series the last notice may be a firing that
  is over already (engine.go:123). Two rules of one name share one state.
- *Export.* A series that lags another is never exported (delta.go:51 against 17-18).
- *Remote write.* A failed push is never repeated, as the watermark moved before
  it. A sample stamped in the second in which a cycle begins, and stored after it, is
  never sent; one that is more than an interval older than the first cycle of a
  process that knows its series is not either, which takes a late cycle
  (`OnTime` in `EventuallyTaken`). A request that timed out goes on at the
  receiver beside the next one. A series with more labels than another is found by
  both queries and sent twice, so that one request may hold the end of a chunk and
  then its beginning again: the receiver drops a repeated point of the open chunk,
  but one of the chunk before turns its ring back and wipes points that it had,
  where sender.go:29 says that a repetition is only overwritten. Its rollups count
  what its raw tier drops.
- *Detector.* Training takes `results[0]`, which may be another series that has
  this one's labels and more (detector.go:192). With two sources the order of
  scoring and that of storing may differ, and a sample that comes late across the
  boundary of a chunk wipes the open one, which the raw buffer does not know. A training set of two different vectors
  scores everything 0, not only a constant one (model.go:80-84).
  `Preprocess` needs `diffN` + effective `smoothN` + `lagN` values for a vector, as
  `rawBufferLen` counts, and not one more, as its comment says (model.go:164-165).
- *Configuration.* A receive path without a leading slash passes `Validate`
  (config.go:441) and panics in the router (httpapi.go:69), with scraper, detector and
  collector started, where config.go:331-332 says that a bad config fails at startup
  "rather than partway through wiring up subsystems". A `score_threshold` of `.nan` passes
  its comparisons (config.go:601), and no sample is then anomalous. "300y" overflows to a negative
  duration and "600y" to a positive one that is too short, and a retention is not validated at all. Under `auth:` or `users:` without a value, SetUser reports
  success and stores nothing. Without a file `applyDefaults` is skipped and NodeID
  stays empty. The minimal template's storage path is not the default one. An empty
  or torn file may load, as defaults. Overlapping or killed commands lose users.

## 4. Proofs

All proofs are for every value of the constants, from the named assumptions of
the modules only.

- **Codec** (`GorillaProofs`). `DodRoundTrip` and `DodBoundary`:
  a delta-of-delta survives its bucket exactly when it is not the bucket's upper
  end. `ValueRoundTrip`: reader and writer that agree on the window agree on the
  value and on the next window. `ValuesAlwaysInSync` and `TimesInSyncWhenExact`
  lift both to streams through the inductive `StreamInv`, which says that each
  of the decoder's registers equals the encoder's.
- **Ring** (`SeriesRingProofs`), with unbounded failures, kills and deletions, and
  for any timestamps. Some timestamps do not survive the codec (`DodBoundary`): the
  history variable `exact` falls when a chunk with such ones is written.
  `ChunksWellFormed` and retention, and what follows for answers without duplicates,
  are claimed until then; type correctness, `AlwaysReopens` and `AnswersAreComplete`
  throughout. Steps go by `FilesExact`: while `exact` stands, every file is one that
  comes back.
  `ShapeInv` adds to type and well-formedness where the open chunk and the sample
  in hand stand while an append is under way (`ControlOK`); it gives `TypeCorrect`
  and `ChunksAlwaysWellFormed`. `CleanInv` adds the order in which directory,
  metadata and registration come about and that, while nothing has failed, a
  torn file is the one being written; it gives `AlwaysReopens`. `RetainedInv` adds
  that nothing is of a later chunk than the newest accepted one, that the newest
  chunk with durable points is the open one, and that memory still has the recent
  durable points of the slot which the next write replaces as a whole; from it
  follows `RecentPointsRetained`. Retention alone is not inductive: it says nothing
  of memory, and `WriteChunk` replaces a file by what memory holds.
- **Queries** (`SeriesRingProofs`), under a writer that fails, dies and restarts
  at will. `QueryInv` adds to `RetainedInv` that a file which is not whole has
  nothing to read (`FilesWhole`), that what has been read lies in its chunk's
  slot in increasing seconds (`GotWellFormed`), and that a due point is still
  held while its chunk is either still to be read or was read with the point in
  it (`DueFound`). A chunk being rewritten is torn, so a query that meets it
  fails as a whole and answers nothing. From it follow `AnswersAreComplete` and
  `AnswersWithoutDuplicates`.
- **Export** (`BackupProofs`), for any number of series, minutes, overlapping
  cycles and faults. `ExporterTypeOK` is type correctness. `NothingIsSkipped` is
  the meaning of the watermark. It needs `CycleInv`, what an orderly cycle knows:
  what is at or below the watermark it loaded is exported; what lies between
  that and the highest time it has seen, in the series it has read, is among its
  rows; nothing above the loaded watermark and at or below the highest time will
  appear behind it; and after the append its rows are in the lake. So a save,
  even of an older watermark over a newer one, covers what it claims.
  `ExporterImplementsFeed` is the refinement: each step is a step of
  `AtLeastOnce` or none. `ExportedOnce` is about a history without failures and
  without overlap. `OnceInv` says that then one cycle at most is under way and
  has the file's watermark, that nothing is in the lake above what that cycle is
  about to save, and that a point is among its rows at most once per series,
  read so far, whose query finds it: so a commit never adds a point that is there.
- **Rollups** (`RollupProofs`), for any producers, tiers, widths and rings.
  `RollupTypeOK` is type correctness. `AlwaysFlushesBeforeMove` holds through
  failures and kills. Its `OrderInv` says that an open bucket is the latest one
  with samples, that what is kept is of such buckets, and that a flush's parts
  are kept once it is done with them; without the second part a late point
  could stand for a later bucket. `ClosedBucketsAlwaysOnDisk` rests on `RingsInv`:
  the ring of each part holds what was put into it (`RingOK`), and that are the
  sampled buckets below the open one, and the open one itself once a flush in
  progress is past its part (`Closed`); a slot is reused only for a chunk that is
  a whole turn later, which is arithmetic on remainders. `AggregatesAlwaysExact`
  rests on `ExactInv`: the open accumulator is the rollup of the samples that its
  bucket has taken in, and so is each point on disk. A sample never goes to a
  bucket that is on disk, as `RingsInv` knows, which is why stored points stay
  exact. The sums need `SumGains`, what `SumFunction` does when one term grows.
  `RowsAlwaysAlignedDuringFlush` is about a query whose three reads are spread over
  any number of flushes. `AskedInv` says of every part read so far that it is sorted
  and strictly increasing, holds sampled buckets only, and all of them up to its last
  one (`AnswerOK`); that stays true as the tier goes on, because new samples come in
  order. Two such lists have the same bucket at every place that both have
  (`SamePlaces`), although one part may be longer than another: so no row mixes two.
  Nothing of this holds once the ring wraps round between two reads, which is why the
  property asks that it has not.
- **Alerts** (`AlertProofs`), for any rules of different names (`DistinctNames`;
  `Validate` does not ask for that, and two rules of one name share a state), any
  goroutines and samples. `StateInv` says of each rule and series that its state
  is what its verdicts say: whether it fires, since when, and what is pending. It
  is inductive as it is, since the decision is one step under `e.mu`;
  `AlertsAlwaysLongRuns` follows. `NoticesAlwaysInOrder` needs `OrderInv`: for a series
  of one goroutine, a notifier that is still to be called is one notice behind and
  every other has heard everything. `EveryTransitionAlwaysNotified` needs `BagInv`:
  with any number of goroutines, what was sent and what is owed are together,
  as bags, what the transitions ask for. `RateAlwaysSeesWholeWindow` needs
  `RateInv`: the history kept is the tail of the points taken that lies in the
  window of the latest, and an evaluation that has read it has read just that.
- **Remote write** (`RemoteWriteProofs`), for any series, clock, delays, failures and
  restarts. `SenderInv` orders the times: a due tick is an interval after the start
  at least and newer than all cycles (`ClockInv`), a watermark is the time of a
  cycle, and a series that the cycle has still to read has an earlier one than the
  cycle (`WatermarkInv`). `ReadInv` adds that nothing beyond a series' watermark was
  read, and what is exactly at it only once. `SamplesAlwaysReadOnce` follows; the exception, a
  cycle that begins at the start of a second, is where two ranges share an end.
  `MissedAlwaysForAReason` leaves two reasons for a sample below the watermark that was
  never read: it was stored after a cycle of its own or a later time, or it was
  older than the first range of its series when that began.
  `WhatIsTakenAlwaysKept` is about the receiver's rings, for a series that only its own
  query finds (`Alone`) and as long as no request is sent while the receiver still
  has an earlier one. `KeptInOrder` is not inductive: it says nothing of the points
  that have been read and are still in a batch or a request. `PathInv` does. What is
  pending of the series is in the order of time and behind all that the receiver was
  given, and none of it is newer than the bound from which the next range begins
  (`Lined`); so no point ever comes behind a later one, and the receiver's ring never
  turns back. A ring that is written in order holds all it was given except what
  is a whole turn older than a point it was given too, and has the chunk of the latest
  one open, which is also the one that `loadSeries` opens (`Filled`, `FilledReopened`).
  Slow cycles, late samples, failures and restarts of both ends are allowed; the sender's
  own ring may turn back, since an answer is sorted all the same (`PointsAre`).
- **Detector and ingest path** (`AnomalyProofs`), for any series, labels, sources,
  sample times, ensembles and fanout, and any failures and restarts.
  `AlertsAlwaysHearAll` needs `FlightInv`: a sample scored since the start is either
  with the alert engine or in the hands of just one source (`Accounted`, `OneHand`),
  and what the store, the engine and a source hold has the verdict it was scored
  with; a failing store takes nothing out of a source's hands.
  `AlwaysJudgedByThePast` needs `PastInv`: a model, in an ensemble or on its way
  there, was trained on samples that had been scored, and a number is given out when
  a sample is scored. `AlwaysVisitedEachRound` needs `RoundInv`: the ticks a series has
  waited and those until it is due (`TicksUntil`, the remainder of its place ahead of
  the tick's) are together a round at most, and one tick more for each series that was
  created before it; a new series moves a place by one, and so the remainder by one
  or back to 0. `BufferAlwaysAsStored` needs `StoredInv`: the buffer is the last
  numbers scored since the start (`BufferOK`); a store that has refused none and
  had none come behind a later one has all of those, or had them in a chunk file that
  was replaced since (`wiped`), or gets them next (`Kept`); and those of one source
  lie in its ring in the order they were scored (`InOrder`). After a late sample,
  dropped or turning the ring back, buffer and store do part, as the property says.
- **Configuration** (`ConfigProofs`), for any file, any number of processes and
  changes. `FilesInv` says that what is in the file, or in the hands of a command, can be
  decoded; `ServerInv` that a server has what the file said when it was read.
  `AcceptedFileAlwaysWorks` and `FileAlwaysDecides` then are facts about `Effective`
  and `Violations`, field by field. `UsersAlwaysKept` needs `UsersInv`: unless the
  history is disturbed, a command about to write has every user reported so far,
  and a truncated file is in the hands of just one. `CommandsAlwaysKeepLoadable` is an action
  property: the template is valid, and a user more makes no field invalid. A file that
  was cut within a value decodes too (`ShortenedDecodes`), to other settings; what is
  proved of an accepted file makes one exception, a `score_threshold` that is `NaN`.

- **Feature vectors** (`AnomalyProofs`, last part), for any integers, window and
  settings. `RunningSumIs` says what the running sum is at each place; it and every
  later step over a sequence goes by the least place where something would be wrong
  (`SameSums`, `SumsExist`). Then `AverageIs` shows that the moving average, which
  adds what enters and drops what leaves, is the window's sum, and `PreprocessIs`
  gives a vector in closed form: each entry is the difference of two such sums, of
  the values before its place (`Feature`). Where the sequence begins does not enter
  (`FeatureOfPart`), so `BufferVectorAlwaysLastTrained`: what Score makes of its
  buffer is what training makes of a window with the same end. `FewMakeNone` is the other
  side: fewer than `rawBufferLen` values make no vector.

**Model-checked only.** `KMeans`' properties of the rounds (`CostNeverGrows`,
`BlindOnTwoVectors`): they need sums over sets of vectors, each an induction over
data, and the algebra of squares; the second also holds only where the rounds are
enough for the clusters to settle, which no assumption on `MaxIterations` says. Liveness
(`EventuallyExported`, `EventuallyTaken`, `EventuallyTrained`) is out of the prover's
reach, as is ENABLED. That a chunk without a delta-of-delta at the end of a bucket
comes back from the codec is proved step by step in `GorillaProofs`, and not by
induction over a recursive decoder; `SeriesRing` uses the result in closed form
(`ReadBack`).

## 5. Not modelled

Byte packing, metrics, logging, text and HTTP; rounding of floats; the collectors'
and the exposition format's parsers, which are string processing without state;
the notifiers' and the Iceberg client's inside beyond success and failure; the
check of a request's password, a library call; the web UI and deployment files;
the ranking of the latest scores, a sort of one answer.
`PROJECT.json` gives the reason for each. A firing alert that no later sample
resolves, and the alert engine's memory across a restart, have no property: the
code keeps and promises nothing there.

## 6. Plan

1. *Done:* codec, ring, ring with queries, rollups, alerts, export, remote write,
   ingest path with detector, model, configuration and its commands;
   proofs of codec, ring, queries, export, rollups and their queries, alerts, remote
   write, detector and ingest path, feature vectors, and configuration.
2. `CostNeverGrows` of `KMeans` for any values, and `BlindOnTwoVectors` for rounds
   that are enough, with the means as sums that are fixed by their first term and
   their increments, as `RunningSumIs` does for sequences.
