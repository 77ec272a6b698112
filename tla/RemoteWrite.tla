---------------------------- MODULE RemoteWrite -----------------------------
(***************************************************************************)
(* Remote write, both ends (internal/ingest/remotewrite).  A sender pushes, *)
(* once per interval, what its store holds since each series' watermark;   *)
(* a receiver, another circa, hands the samples of every request to its    *)
(* pipeline one by one.  Nothing is retried: the watermark moves when the  *)
(* series is read, before the push is even tried.  Both stores keep a      *)
(* series in a ring of chunks (internal/storage/storage.go).               *)
(*                                                                         *)
(* Time is in ticks, PerSecond of them in a second.  Watermarks have the   *)
(* precision of the clock, stored points only that of a second, and a      *)
(* sample may reach the store MaxDelay ticks after it was stamped.         *)
(***************************************************************************)
EXTENDS Integers, SequencesExt, FiniteSetsExt

CONSTANTS
    Keys,           \* the sender's series, each once, in the order of Store.Series
    Matches,        \* [series -> series whose labels include its labels]
    PerSecond,      \* ticks in a second
    Interval,       \* push.send.interval, in ticks
    Slots,          \* chunksPerSeries
    ChunkSeconds,   \* the seconds of a chunk of the sender's store
    RemoteSeconds,  \* the seconds of a chunk of the receiver's store
    MaxDelay,       \* bound on the ticks from a sample's stamp to its append
    MaxTime,        \* bound on the clock
    MaxSamples,     \* bound on the points in the sender's store
    MaxFaults       \* bound on failed queries and pushes and on restarts

Series == ToSet(Keys)

\* A series' own labels include themselves; Validate wants a positive
\* interval.
ASSUME RemoteAssumption ==
    /\ Keys \in Seq(Series) /\ IsInjective(Keys)
    /\ Matches \in [Series -> SUBSET Series]
    /\ \A s \in Series : s \in Matches[s]
    /\ {PerSecond, Interval, Slots, ChunkSeconds, RemoteSeconds} \subseteq Nat \ {0}
    /\ {MaxDelay, MaxTime, MaxSamples, MaxFaults} \subseteq Nat

VARIABLES
    now,        \* the clock
    started,    \* when the sender's process started
    due,        \* the ticker's channel holds a tick
    stored,     \* [Series -> its ring in the sender's store]
    watermark,  \* Sender.watermarks: a partial function on Series
    cycle,      \* the sendOnce in progress
    requests,   \* the requests the receiver is handling, the oldest first
    remote,     \* [Series -> its ring in the receiver's store]
    hist,       \* history variables, see NoHistory
    faults      \* failures and restarts so far

vars == <<now, started, due, stored, watermark, cycle, requests, remote, hist, faults>>

-----------------------------------------------------------------------------
(* Time and samples *)

SecondOf(t) == t \div PerSecond
Start(sec) == sec * PerSecond       \* time.Unix(sec, 0)
Seconds == 0..SecondOf(MaxTime)
Samples == [series : Series, sec : Seconds]

Newest(secs) == Max(secs \cup {-1})

-----------------------------------------------------------------------------
(* A series' ring: the slot of the open chunk, and the seconds in each of its *)
(* chunk files.  A write puts the whole open chunk in its file.               *)

Ring == 0..(Slots - 1)
EmptyRing == [at |-> -1, file |-> [i \in Ring |-> {}]]
Held(ring) == UNION {ring.file[i] : i \in Ring}

ChunkOf(sec, size) == sec \div size
SlotOf(sec, size) == ChunkOf(sec, size) % Slots

\* series.write: a point of another slot than the open chunk's, be it a later
\* one or an earlier one, replaces what that slot held; in the open chunk, one
\* that is not later is dropped.
Written(ring, sec, size) ==
    LET idx == SlotOf(sec, size)
        chunk == IF idx = ring.at THEN ring.file[idx] ELSE {}
    IN  IF sec <= Newest(chunk) THEN ring
        ELSE [at |-> idx, file |-> [ring.file EXCEPT ![idx] = chunk \cup {sec}]]

\* loadSeries: the chunk with the latest point is open.
Reopened(ring) ==
    [ring EXCEPT !.at = IF Held(ring) = {} THEN -1
                        ELSE CHOOSE i \in Ring : Newest(Held(ring)) \in ring.file[i]]

StoredSamples == {x \in Samples : x.sec \in Held(stored[x.series])}

\* Both ends of a query's range are inside it.
InRange(s, from, to) == {sec \in Held(stored[s]) : from <= Start(sec) /\ Start(sec) <= to}

Place(s) == CHOOSE i \in DOMAIN Keys : Keys[i] = s

\* QueryRange answers one series after the other, each in the order of time.
Before(x, y) ==
    \/ Place(x.series) < Place(y.series)
    \/ x.series = y.series /\ x.sec < y.sec
InOrder(pts) == \A i, j \in DOMAIN pts : i < j => Before(pts[i], pts[j])

\* Mutant: the points of an answer come out newest first.
PointsNewestFirst(S) == CHOOSE pts \in SetToSeqs(S) : InOrder(Reverse(pts))

Points(S) == CHOOSE pts \in SetToSeqs(S) : InOrder(pts)

-----------------------------------------------------------------------------
(* The sender *)

Idle == [phase |-> "idle", at |-> -1, todo |-> {}, batch |-> <<>>]

\* What the properties remember: how often a series' own query has returned a
\* sample, which samples the receiver's pipeline has been given, when cycles
\* began, the samples that came after a cycle of a later time had begun, the
\* samples older than the first look at a series that came too late, and
\* whether a request was sent while the receiver still had an earlier one.
NoHistory ==
    [read |-> [x \in Samples |-> 0], taken |-> {},
     begun |-> {}, overtaken |-> {}, tooOld |-> {}, crossed |-> FALSE]

Init ==
    /\ now = 0 /\ started = 0 /\ due = FALSE
    /\ stored = [s \in Series |-> EmptyRing]
    /\ watermark = <<>>
    /\ cycle = Idle
    /\ requests = <<>>
    /\ remote = [s \in Series |-> EmptyRing]
    /\ hist = NoHistory
    /\ faults = 0

\* The clock; the ticker's channel holds at most one tick.
Advance ==
    /\ now < MaxTime
    /\ now' = now + 1
    /\ due' = (due \/ (now' - started) % Interval = 0)
    /\ UNCHANGED <<started, stored, watermark, cycle, requests, remote, hist, faults>>

\* A sample reaches the sender's store some time after it was stamped; one that
\* the store drops would change nothing.
Ingest(s, stamp) ==
    LET sec == SecondOf(stamp)
        ring == Written(stored[s], sec, ChunkSeconds)
    IN  /\ now - MaxDelay <= stamp /\ stamp <= now
        /\ ring # stored[s] /\ Cardinality(StoredSamples) < MaxSamples
        /\ stored' = [stored EXCEPT ![s] = ring]
        /\ hist' = [hist EXCEPT !.overtaken =
                       IF Start(sec) <= Newest(hist.begun)
                       THEN @ \cup {[series |-> s, sec |-> sec]} ELSE @]
        /\ UNCHANGED <<now, started, due, watermark, cycle, requests, remote, faults>>

\* sendOnce takes the time first.
BeginCycle ==
    /\ due /\ cycle = Idle
    /\ due' = FALSE
    /\ cycle' = [Idle EXCEPT !.phase = "listing", !.at = now]
    /\ hist' = [hist EXCEPT !.begun = @ \cup {now}]
    /\ UNCHANGED <<now, started, stored, watermark, requests, remote, faults>>

\* Series(): a series exists from its first append on.
ListSeries ==
    /\ cycle.phase = "listing"
    /\ cycle' = [cycle EXCEPT !.phase = "reading",
                              !.todo = {s \in Series : Held(stored[s]) # {}}]
    /\ UNCHANGED <<now, started, due, stored, watermark, requests, remote, hist, faults>>

\* Mutant: the range of a series without a watermark begins now.
SinceNow(s) == IF s \in DOMAIN watermark THEN watermark[s] ELSE cycle.at

\* Mutant: every cycle looks back one interval, whatever it has sent.
SinceInterval(s) == cycle.at - Interval

Since(s) == IF s \in DOMAIN watermark THEN watermark[s] ELSE cycle.at - Interval

Reading == cycle.phase = "reading" /\ cycle.todo # {}

\* The loop goes through the list in its order.
NextSeries == Keys[Min({i \in DOMAIN Keys : Keys[i] \in cycle.todo})]

AdvanceWatermark(s) ==
    watermark' = [r \in DOMAIN watermark \cup {s} |->
                     IF r = s THEN cycle.at ELSE watermark[r]]

\* The query of one series, which answers with every series it matches.
Found(s) ==
    {x \in Samples : /\ x.series \in Matches[s]
                     /\ x.sec \in InRange(x.series, Since(s), cycle.at)}

ReadSeries ==
    LET s == NextSeries
        own == {x \in Samples : x.series = s /\ x.sec \in InRange(s, Since(s), cycle.at)}
    IN  /\ Reading
        /\ cycle' = [cycle EXCEPT !.todo = @ \ {s}, !.batch = @ \o Points(Found(s))]
        /\ AdvanceWatermark(s)
        /\ hist' = [hist EXCEPT
               !.read = [x \in Samples |-> IF x \in own THEN @[x] + 1 ELSE @[x]],
               !.tooOld = @ \cup {x \in Samples : /\ x.series = s /\ s \notin DOMAIN watermark
                                                  /\ x.sec \in Held(stored[s])
                                                  /\ Start(x.sec) < cycle.at - Interval}]
        /\ UNCHANGED <<now, started, due, stored, requests, remote, faults>>

\* Mutant: the watermark moves before the query.
FailReadAdvancing ==
    /\ Reading /\ faults < MaxFaults
    /\ AdvanceWatermark(NextSeries)
    /\ cycle' = Idle
    /\ faults' = faults + 1
    /\ UNCHANGED <<now, started, due, stored, requests, remote, hist>>

\* A query fails: sendOnce returns and the batch is gone, but the series read
\* before keep their new watermarks.
FailRead ==
    /\ Reading /\ faults < MaxFaults
    /\ cycle' = Idle
    /\ faults' = faults + 1
    /\ UNCHANGED <<now, started, due, stored, watermark, requests, remote, hist>>

BatchDone == cycle.phase = "reading" /\ cycle.todo = {}

NothingToSend ==
    /\ BatchDone /\ cycle.batch = <<>>
    /\ cycle' = Idle
    /\ UNCHANGED <<now, started, due, stored, watermark, requests, remote, hist, faults>>

\* push: the request is on its way, and the sender waits for the answer.
Push ==
    /\ BatchDone /\ cycle.batch # <<>>
    /\ requests' = Append(requests, cycle.batch)
    /\ cycle' = [cycle EXCEPT !.phase = "waiting", !.batch = <<>>]
    /\ hist' = [hist EXCEPT !.crossed = @ \/ requests # <<>>]
    /\ UNCHANGED <<now, started, due, stored, watermark, remote, faults>>

\* The client's ten seconds are over; the receiver goes on with the request.
Timeout ==
    /\ cycle.phase = "waiting" /\ faults < MaxFaults
    /\ cycle' = Idle
    /\ faults' = faults + 1
    /\ UNCHANGED <<now, started, due, stored, watermark, requests, remote, hist>>

\* The requests under way fail: refused, cut, or the receiver dies at any
\* point of them, and opens its store again.  push returns the error.
LoseRequests ==
    /\ requests # <<>> /\ faults < MaxFaults
    /\ requests' = <<>>
    /\ cycle' = IF cycle.phase = "waiting" THEN Idle ELSE cycle
    /\ remote' \in {remote, [s \in Series |-> Reopened(remote[s])]}
    /\ faults' = faults + 1
    /\ UNCHANGED <<now, started, due, stored, watermark, hist>>

\* A kill of the sender and its next start: the watermarks were in memory.
Restart ==
    /\ faults < MaxFaults
    /\ started' = now
    /\ due' = FALSE
    /\ stored' = [s \in Series |-> Reopened(stored[s])]
    /\ watermark' = <<>>
    /\ cycle' = Idle
    /\ faults' = faults + 1
    /\ UNCHANGED <<now, requests, remote, hist>>

-----------------------------------------------------------------------------
(* The receiver *)

\* The next sample of a request goes through the pipeline, whose consumers'
\* failures do not change the answer; after the last one the sender has its
\* answer, if it still waits for it.
HandleSample(i) ==
    LET x == Head(requests[i])
        done == Len(requests[i]) = 1
        answered == done /\ cycle.phase = "waiting" /\ i = Len(requests)
    IN  /\ remote' = [remote EXCEPT ![x.series] = Written(@, x.sec, RemoteSeconds)]
        /\ requests' = IF done THEN RemoveAt(requests, i)
                               ELSE [requests EXCEPT ![i] = Tail(@)]
        /\ cycle' = IF answered THEN Idle ELSE cycle
        /\ hist' = [hist EXCEPT !.taken = @ \cup {x}]
        /\ UNCHANGED <<now, started, due, stored, watermark, faults>>

SenderStep == BeginCycle \/ ListSeries \/ ReadSeries \/ NothingToSend \/ Push

Handle == \E i \in DOMAIN requests : HandleSample(i)

Next ==
    \/ Advance
    \/ \E s \in Series, stamp \in 0..MaxTime : Ingest(s, stamp)
    \/ SenderStep
    \/ FailRead \/ Timeout \/ LoseRequests \/ Restart
    \/ Handle

\* Time passes, the sender's goroutine runs, and so does a request's handler.
Spec == Init /\ [][Next]_vars /\ WF_vars(Advance) /\ WF_vars(SenderStep) /\ WF_vars(Handle)

-----------------------------------------------------------------------------
(* Properties *)

\* A series' own queries return a sample once, through failed queries and
\* pushes and slow cycles; twice only when a cycle began exactly at the start of
\* the sample's second, which both that cycle's range and the next one's
\* include.  A restart is no exception, whatever sender.go:27-30 says of it: see
\* RestartLeavesNoGap.
ReadOnceUnlessSplit ==
    \A x \in StoredSamples :
        hist.read[x] <= IF Start(x.sec) \in hist.begun THEN 2 ELSE 1

\* sender.go:27-30: "a restart re-sends up to one interval's worth of overlap".
\* So what the store holds of the last interval before a restart has been read,
\* before the restart or after it, when the new process has been through the
\* series.  The code breaks this: its first tick comes an interval after the
\* start and looks back one interval, so that nothing is read again, and what
\* the killed process had not read yet never is.
RestartLeavesNoGap ==
    \A x \in StoredSamples :
        /\ x.series \in DOMAIN watermark
        /\ started - Interval <= Start(x.sec) /\ Start(x.sec) < started
        => hist.read[x] > 0 \/ x \in hist.overtaken

\* A sample in the store that the watermark has passed was read, except for one
\* of two reasons: a cycle of a later time had begun when it reached the store,
\* or it is more than an interval older than the first cycle of a process that
\* knew its series.
Passed(x) == x.series \in DOMAIN watermark /\ Start(x.sec) <= watermark[x.series]
MissedForAReason ==
    \A x \in StoredSamples :
        Passed(x) /\ hist.read[x] = 0 => x \in hist.overtaken \/ x \in hist.tooOld

\* The receiver's store keeps all it is given of a series that only its own
\* query finds, until the ring has turned: through slow cycles, late samples,
\* failures and restarts of both ends, as long as no request is sent while the
\* receiver still has an earlier one.  No point then comes behind a later one,
\* which would put back the ring and wipe a chunk.  (A series that another one's
\* query finds too may be twice in a request, and lose points by it.)
Alone(s) == \A r \in Series \ {s} : s \notin Matches[r]
Turned(x) ==
    \E y \in hist.taken :
        /\ y.series = x.series
        /\ ChunkOf(y.sec, RemoteSeconds) >= ChunkOf(x.sec, RemoteSeconds) + Slots
KeptInOrder ==
    \A x \in hist.taken :
        Alone(x.series) /\ ~hist.crossed => x.sec \in Held(remote[x.series]) \/ Turned(x)

\* No cycle began more than an interval after the one before it.
OnTime ==
    \A t \in hist.begun :
        t - Interval <= Max({started} \cup {b \in hist.begun : b < t})

\* As long as nothing fails, a sample in the store that no cycle overtook reaches
\* the receiver; only if a cycle was late may it have been too old when its
\* series was first looked at.  Said of the time after the clock's last tick,
\* for all samples that are old enough for it.
Excused(x) == x \in hist.overtaken \/ (x \in hist.tooOld /\ ~OnTime)
Delivered ==
    \A x \in StoredSamples :
        Start(x.sec) + Interval <= MaxTime => x \in hist.taken \/ Excused(x)
EventuallyTaken == <>[](faults = 0 => Delivered)
=============================================================================
