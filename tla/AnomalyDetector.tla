-------------------------- MODULE AnomalyDetector ---------------------------
(***************************************************************************)
(* The ingest path and the anomaly detector beside it.  Every source (a    *)
(* scrape target, the system collector) is a goroutine that hands the      *)
(* samples of a round, one after the other, to main's handleSample: the    *)
(* detector scores the sample, then the pipeline gives it to the store and *)
(* to the alert engine.  A retraining loop visits the series round-robin,  *)
(* trains a model on what the store holds of a series, and adds it to the  *)
(* ensemble that scores the series.                                        *)
(*                                                                         *)
(* A sample is known by its series and its number among the samples of     *)
(* that series; its value, and so the verdict of a model, is left open.    *)
(***************************************************************************)
EXTENDS Integers, SequencesExt, FiniteSetsExt

CONSTANTS
    Keys,           \* the series, in the order of Store.Series
    DirOrder,       \* the series, in the order of their directories
    Matches,        \* [series -> series whose labels include its labels]
    Sources,        \* the goroutines that call handleSample
    Feeds,          \* [source -> the series in one round of it]
    Ages,           \* [source -> how old the times it gives its samples may be]
    Need,           \* rawBufferLen: the values that make up one vector
    ModelCount,     \* the size of an ensemble
    Fanout,         \* retrainFanout
    Window,         \* the training window, in seconds
    Slots,          \* chunksPerSeries
    ChunkSeconds,   \* the seconds of one chunk
    MaxTime,        \* bound on the clock
    MaxSamples,     \* bound on the samples of all series
    MaxFaults       \* bound on failures and restarts

Series == ToSet(Keys)

\* One series stands before another in a list.
Earlier(list, r, s) == \E i, j \in DOMAIN list : i < j /\ list[i] = r /\ list[j] = s

ASSUME DetectorAssumption ==
    /\ Keys \in Seq(Series) /\ DirOrder \in Seq(Series) /\ ToSet(DirOrder) = Series
    /\ IsInjective(Keys) /\ IsInjective(DirOrder)
    /\ Matches \in [Series -> SUBSET Series]
    /\ \A s \in Series : s \in Matches[s]
    /\ Feeds \in [Sources -> SUBSET Series] /\ Ages \in [Sources -> SUBSET Nat]
    /\ {Need, ModelCount, Fanout, Window, Slots, ChunkSeconds} \subseteq Nat \ {0}
    /\ {MaxTime, MaxSamples, MaxFaults} \subseteq Nat

VARIABLES
    now,        \* the clock, in seconds
    source,     \* [Sources -> the round in progress]
    created,    \* the series of the store, in the order of its byName lists
    ring,       \* [Series -> its open chunk, in memory, and its chunk files]
    buffer,     \* [Series -> the samples in the ensemble's raw buffer]
    models,     \* [Series -> the ensemble's models, the oldest first]
    heard,      \* [Series -> what the alert engine was given, in order]
    loop,       \* the detector's Run
    hist,       \* history variables, see NoHistory
    faults      \* failures and restarts so far

ingest == <<source, heard>>
storage == <<created, ring>>
detector == <<buffer, models>>
vars == <<now, ingest, storage, detector, loop, hist, faults>>

-----------------------------------------------------------------------------
(* The store: a ring of chunk files per series, the open chunk in memory too *)

Ring == 0..(Slots - 1)
EmptyRing == [at |-> -1, open |-> {}, file |-> [i \in Ring |-> {}]]

\* The points that a query can read, and all there are.
OnDisk(r) == UNION {r.file[i] : i \in Ring}
Held(r) == r.open \cup OnDisk(r)

SlotOf(at) == (at \div ChunkSeconds) % Slots

\* series.write: the chunk that a point joins, the open one or an empty one in
\* its place (of a later point, or of one of an earlier chunk); whether it is
\* not later than that chunk and dropped; and the write of the chunk's file.
Chunk(r, point) == IF SlotOf(point.at) = r.at THEN r.open ELSE {}
Drops(r, point) == \E q \in Chunk(r, point) : point.at <= q.at
Joined(r, point) ==
    [r EXCEPT !.at = SlotOf(point.at), !.open = Chunk(r, point) \cup {point}]
Flushed(r) == [r EXCEPT !.file = [@ EXCEPT ![r.at] = r.open]]

\* loadSeries: the chunk of the latest point is open.
Reopened(r) ==
    LET latest == {i \in Ring : \E p \in r.file[i] : \A q \in OnDisk(r) : q.at <= p.at}
    IN  IF latest = {} THEN [r EXCEPT !.at = -1, !.open = {}]
        ELSE \* One slot has it: the time of a point decides its slot.
             LET i == CHOOSE j \in latest : TRUE
             IN  [r EXCEPT !.at = i, !.open = r.file[i]]

\* Store.QueryRange: the results are the series that match, in the order of
\* byName; the first of them, and the points of a result.
First(s) == created[Min({i \in DOMAIN created : created[i] \in Matches[s]})]

PointsIn(s, from, to) == {p \in OnDisk(ring[s]) : from <= p.at /\ p.at <= to}

\* Store.Series, sorted: the place of a series in it, counted from 0.
Place(s) == Cardinality({r \in ToSet(created) : Earlier(Keys, r, s)})

-----------------------------------------------------------------------------
(* Initial state *)

Idle == [at |-> 0, todo |-> {}, series |-> "none", id |-> 0, verdict |-> FALSE, step |-> 0]
Asleep == [tick |-> 0, at |-> 0, todo |-> {}, model |-> <<>>]

\* What the properties remember of a series: its verdicts by number, the
\* numbers given out when the process started, the samples the store failed on
\* or was given behind a later one, those its turning ring has overwritten, the
\* samples scored by a model that had been trained on them, the ticks since its
\* last visit and the series that were created before it in the list since then.
NoHistory == [verdicts |-> <<>>, base |-> 0, missed |-> {}, wiped |-> {}, known |-> {},
              gap |-> 0, shifts |-> 0]

Init ==
    /\ now = 0
    /\ source = [p \in Sources |-> Idle]
    /\ created = <<>>
    /\ ring = [s \in Series |-> EmptyRing]
    /\ buffer = [s \in Series |-> <<>>] /\ models = [s \in Series |-> <<>>]
    /\ heard = [s \in Series |-> <<>>]
    /\ loop = Asleep
    /\ hist = [s \in Series |-> NoHistory]
    /\ faults = 0

Advance ==
    /\ now < MaxTime
    /\ now' = now + 1
    /\ UNCHANGED <<ingest, storage, detector, loop, hist, faults>>

-----------------------------------------------------------------------------
(* A source's round: scrapeOnce, collectOnce and main's handleSample *)

\* The samples scored, and those that the rounds in progress have yet to score.
Given ==
    LET ahead(x) == Cardinality(x.todo) + (IF x.step = 1 THEN 1 ELSE 0)
    IN  FoldFunction(+, 0, [s \in Series |-> Len(hist[s].verdicts)])
            + FoldFunction(+, 0, [p \in Sources |-> ahead(source[p])])

\* Mutant: the pipeline first, the verdict after it.
HandlingStoreFirst == <<"store", "score", "alerts">>

\* What handleSample does with a sample, in this order.
Handling == <<"score", "store", "alerts">>

\* The source's state when it turns to the next sample of its round, in any
\* order (a scrape's families come out of a map), or to nothing.
NextSamples(at, todo) ==
    IF todo = {} THEN {Idle}
    ELSE {[Idle EXCEPT !.at = at, !.todo = todo \ {s}, !.series = s, !.step = 1] : s \in todo}

\* A source's tick: the samples of a round are stamped together, except that a
\* scraped target may give them a time of its own.
BeginRound(p) ==
    /\ source[p] = Idle /\ Given + Cardinality(Feeds[p]) <= MaxSamples
    /\ \E age \in Ages[p] : \E x \in NextSamples(now - age, Feeds[p]) :
          /\ age <= now
          /\ source' = [source EXCEPT ![p] = x]
    /\ UNCHANGED <<now, storage, detector, heard, loop, hist, faults>>

Doing(p, what) == source[p].step > 0 /\ Handling[source[p].step] = what

\* The sample of the step, with the number it gets when it is scored.
Current(p) ==
    LET x == source[p]
    IN  IF x.id > 0 THEN x ELSE [x EXCEPT !.id = Len(hist[x.series].verdicts) + 1]

\* The source goes on to the next step, or to the next sample.
Continue(p, x) ==
    \E y \in IF x.step < Len(Handling) THEN {[x EXCEPT !.step = @ + 1]}
             ELSE NextSamples(x.at, x.todo) :
        source' = [source EXCEPT ![p] = y]

\* Mutant: a full buffer no longer moves.
TrimmedToFirst(samples) == SubSeq(samples, 1, Min({Need, Len(samples)}))

Trimmed(samples) ==
    IF Len(samples) > Need THEN SubSeq(samples, Len(samples) - Need + 1, Len(samples))
    ELSE samples

\* Detector.Score, under the ensemble's lock: TRUE only of a full buffer and
\* when every one of the models says so.
Score(p) ==
    LET x == Current(p)
        s == x.series
        samples == Trimmed(Append(buffer[s], x.id))
        trainedOnIt == \E m \in ToSet(models[s]) : m = [of |-> s, upTo |-> x.id]
    IN  /\ Doing(p, "score")
        /\ buffer' = [buffer EXCEPT ![s] = samples]
        /\ \E verdict \in IF Len(samples) = Need /\ models[s] # <<>> THEN BOOLEAN ELSE {FALSE} :
              /\ Continue(p, [x EXCEPT !.verdict = verdict])
              /\ hist' = [hist EXCEPT ![s].verdicts = Append(@, verdict),
                                      ![s].known = IF trainedOnIt THEN @ \cup {x.id} ELSE @]
        /\ UNCHANGED <<now, storage, models, heard, loop, faults>>

PointOf(x) == [id |-> x.id, at |-> x.at, anomalous |-> x.verdict]
IdsOf(points) == {p.id : p \in points}

\* The samples behind a later one: dropped, or taken in the place of the open
\* chunk, which is gone then.
IsLate(r, at) == \E p \in Held(r) : at <= p.at

\* seriesFor: the first sample of a series creates it, and pushes those listed
\* behind it one place further.
Listed(s) == IF s \in ToSet(created) THEN created ELSE Append(created, s)
Recorded(s, missed, wiped) ==
    [r \in Series |->
        [hist[r] EXCEPT
            !.missed = IF r = s THEN @ \cup missed ELSE @,
            !.wiped = IF r = s THEN @ \cup wiped ELSE @,
            !.shifts = IF s \notin ToSet(created) /\ r \in ToSet(created)
                          /\ Earlier(Keys, s, r)
                       THEN @ + 1 ELSE @]]

\* The store's turn, Store.Consume.
Store(p) ==
    LET x == Current(p)
        s == x.series
        old == ring[s]
        new == IF Drops(old, PointOf(x)) THEN old ELSE Flushed(Joined(old, PointOf(x)))
    IN  /\ Doing(p, "store")
        /\ Continue(p, x)
        /\ created' = Listed(s)
        /\ ring' = [ring EXCEPT ![s] = new]
        /\ hist' = Recorded(s, IF IsLate(old, x.at) THEN {x.id} ELSE {},
                            IdsOf(Held(old)) \ IdsOf(Held(new)))
        /\ UNCHANGED <<now, detector, heard, loop, faults>>

\* Mutant: Ingest stops at the first consumer that fails.
FailStoreStopping(p) ==
    /\ Doing(p, "store") /\ faults < MaxFaults
    /\ Continue(p, [Current(p) EXCEPT !.step = Len(Handling)])
    /\ faults' = faults + 1
    /\ UNCHANGED <<now, storage, detector, heard, loop, hist>>

\* The store fails, and the pipeline goes on.  Either a new series is not
\* created; or the chunk's file is not written, and its point stays in memory,
\* for the next write of the chunk to bring along.  (A file left half written
\* is module SeriesRing's.)
FailStore(p) ==
    LET x == Current(p)
        s == x.series
    IN  /\ Doing(p, "store") /\ faults < MaxFaults
        /\ \/ /\ s \notin ToSet(created)
              /\ hist' = [hist EXCEPT ![s].missed = @ \cup {x.id}]
              /\ UNCHANGED storage
           \/ /\ ~Drops(ring[s], PointOf(x))
              /\ created' = Listed(s)
              /\ ring' = [ring EXCEPT ![s] = Joined(@, PointOf(x))]
              /\ hist' = Recorded(s, {x.id}, {})
        /\ Continue(p, x)
        /\ faults' = faults + 1
        /\ UNCHANGED <<now, detector, heard, loop>>

\* The alert engine's turn, with the verdict of the sample.
Alert(p) ==
    LET x == Current(p)
    IN  /\ Doing(p, "alerts")
        /\ heard' = [heard EXCEPT ![x.series] = Append(@, [id |-> x.id, anomalous |-> x.verdict])]
        /\ Continue(p, x)
        /\ UNCHANGED <<now, storage, detector, loop, hist, faults>>

Handle(p) == Score(p) \/ Store(p) \/ Alert(p)

-----------------------------------------------------------------------------
(* The retraining loop *)

\* retrainDueSeries: the i-th series of the list, counted from 0.
Due(i, tick) == i % Fanout = tick % Fanout

DueSeries(tick) == {s \in ToSet(created) : Due(Place(s), tick)}

\* Mutant: the count of ticks starts again one too early.
NextTickShort(tick) == (tick + 1) % (Fanout - 1)

\* The code counts on, and looks at the count modulo Fanout only.
NextTick(tick) == (tick + 1) % Fanout

\* A tick of the loop: it lists the series once, and then visits those due.
Tick ==
    LET due == DueSeries(loop.tick)
    IN  /\ loop.todo = {} /\ loop.model = <<>>
        /\ loop' = [loop EXCEPT !.tick = NextTick(@), !.at = now, !.todo = due]
        /\ hist' = [s \in Series |->
               IF s \in due THEN [hist[s] EXCEPT !.gap = 0, !.shifts = 0]
               ELSE IF s \in ToSet(created) THEN [hist[s] EXCEPT !.gap = @ + 1]
               ELSE hist[s]]
        /\ UNCHANGED <<now, ingest, storage, detector, faults>>

\* The series the loop is at, or comes to next.
Visited == CHOOSE s \in loop.todo : \A r \in loop.todo \ {s} : Earlier(Keys, s, r)

\* What retrainOne reads for a series: the first of the answer's results, of
\* which there is one for every series that has its labels.
TrainingPoints(s, at) == PointsIn(First(s), at - Window, at)

\* A vector takes Need values, and training takes two vectors.
Enough(points) == Cardinality(points) > Need

\* retrainOne up to Train: the model is not yet in the ensemble.
Train ==
    LET first == First(Visited)
        points == TrainingPoints(Visited, loop.at)
    IN  /\ loop.todo # {} /\ loop.model = <<>>
        /\ loop' = IF Enough(points)
                   THEN [loop EXCEPT !.model = <<[of |-> first,
                                                  upTo |-> Max(IdsOf(points))]>>]
                   ELSE [loop EXCEPT !.todo = @ \ {Visited}]
        /\ UNCHANGED <<now, ingest, storage, detector, hist, faults>>

\* The query fails; the series waits for the next round.
FailTrain ==
    /\ loop.todo # {} /\ loop.model = <<>> /\ faults < MaxFaults
    /\ loop' = [loop EXCEPT !.todo = @ \ {Visited}]
    /\ faults' = faults + 1
    /\ UNCHANGED <<now, ingest, storage, detector, hist>>

\* Mutant: a full ensemble drops ModelCount models, where it should keep them.
NewestDropping(ms) ==
    IF Len(ms) >= ModelCount THEN SubSeq(ms, ModelCount + 1, Len(ms)) ELSE ms

Newest(ms) ==
    IF Len(ms) > ModelCount THEN SubSeq(ms, Len(ms) - ModelCount + 1, Len(ms)) ELSE ms

\* retrainOne from there: the ensemble takes the model and drops its oldest.
AddModel ==
    /\ loop.model # <<>>
    /\ models' = [models EXCEPT ![Visited] = Newest(Append(@, Head(loop.model)))]
    /\ loop' = [loop EXCEPT !.todo = @ \ {Visited}, !.model = <<>>]
    /\ UNCHANGED <<now, ingest, storage, buffer, hist, faults>>

\* The lists as the store has them when it opens: the same series, in the order
\* of their directories.
Reordered ==
    {c \in [DOMAIN created -> ToSet(created)] :
        /\ ToSet(c) = ToSet(created)
        /\ \A i, j \in DOMAIN c : i < j => Earlier(DirOrder, c[i], c[j])}

\* A kill and the next start: the detector and the alert engine start from
\* nothing, the store from its files, in the order of its directories.
Restart ==
    /\ faults < MaxFaults
    /\ source' = [p \in Sources |-> Idle]
    /\ created' \in Reordered
    /\ ring' = [s \in Series |-> Reopened(ring[s])]
    /\ buffer' = [s \in Series |-> <<>>] /\ models' = [s \in Series |-> <<>>]
    /\ heard' = [s \in Series |-> <<>>]
    /\ loop' = Asleep
    /\ hist' = [s \in Series |-> [hist[s] EXCEPT !.base = Len(hist[s].verdicts),
                                                 !.gap = 0, !.shifts = 0]]
    /\ faults' = faults + 1
    /\ UNCHANGED now

Retrain == Tick \/ Train \/ AddModel

Next ==
    \/ Advance
    \/ \E p \in Sources : BeginRound(p) \/ Handle(p) \/ FailStore(p)
    \/ Retrain \/ FailTrain
    \/ Restart

\* The detector's ticker goes on firing, and its goroutine runs.
Spec == Init /\ [][Next]_vars /\ WF_vars(Retrain)

-----------------------------------------------------------------------------
(* Properties *)

Ids(s) == 1..Len(hist[s].verdicts)
InFlight(s) == {source[p].id : p \in {q \in Sources : source[q].series = s}}

\* The alert engine is given every sample that was scored, once, with the
\* verdict it was scored and stored with, whatever becomes of it in the store.
AlertsHearAll ==
    \A s \in Series :
        LET ids == [i \in DOMAIN heard[s] |-> heard[s][i].id]
        IN  /\ IsInjective(ids)
            /\ ToSet(ids) \cup InFlight(s) = {i \in Ids(s) : i > hist[s].base} \cup InFlight(s)
            /\ \A x \in ToSet(heard[s]) \cup Held(ring[s]) :
                  x.anomalous = hist[s].verdicts[x.id]

\* Of a series with one source, the values a verdict is about are the last
\* ones of the series, the one being handled and those before it in the store,
\* in the order in which a training will have them: as long as the store has
\* failed on none and none came behind a later one.  (Those that the ring's turn
\* has overwritten may still be among them.  With two sources none of this need
\* be.)
OneSource(s) == \E p \in Sources : \A q \in Sources : s \in Feeds[q] <=> q = p
Known(s) == {i \in IdsOf(Held(ring[s])) \cup InFlight(s) : i > hist[s].base}
BufferIsAsStored ==
    \A s \in Series : OneSource(s) /\ hist[s].missed = {} =>
        LET values == ToSet(buffer[s])
        IN  /\ values \subseteq Known(s) \cup hist[s].wiped
            /\ \A i \in Known(s) \ values :
                  Len(buffer[s]) = Need /\ \A j \in values : i < j
            /\ \A i, j \in DOMAIN buffer[s] : i < j => buffer[s][i] < buffer[s][j]
            /\ \A p, q \in Held(ring[s]) : p.at < q.at <=> p.id < q.id

\* No verdict is passed by a model that was trained on the sample itself.
JudgedByThePast == \A s \in Series : hist[s].known = {}

\* The loop goes through the list in Fanout ticks; a series waits one tick
\* more only for every series that was created before it in the list since
\* its last visit.
VisitedEachRound ==
    \A s \in Series : hist[s].gap <= (Fanout - 1) + hist[s].shifts

\* A series with enough points in the training window has a model some time,
\* through failed queries and restarts, or else the window moves past them.
Trainable(s) == s \in ToSet(created) /\ Enough(TrainingPoints(s, now))
EventuallyTrained ==
    \A s \in Series : Trainable(s) ~> (models[s] # <<>> \/ ~Trainable(s))
=============================================================================
