----------------------------- MODULE SeriesRing -----------------------------
(***************************************************************************)
(* One series of one tier (internal/storage/storage.go): a directory with  *)
(* meta.json and a ring of chunk files, the open chunk kept in memory, and *)
(* the process that appends to it.  Appends are serialised by Store.mu     *)
(* while the series is created and by series.mu afterwards, so there is    *)
(* one append at a time; between its file operations the process may be    *)
(* killed and another program may delete the directory.  os.WriteFile is   *)
(* two steps, truncate and write: a file in between is "torn", and readers *)
(* report it as an error.                                                  *)
(***************************************************************************)
EXTENDS GorillaCodec

CONSTANTS
    Slots,          \* chunksPerSeries, 8 in the code
    TicksPerSecond, \* unit of the two durations below (1e9 in the code)
    Interval,       \* the series' interval, in ticks
    Retention,      \* the tier's retention, in ticks
    Seconds,        \* timestamps that samples may carry, in whole seconds
    Readings,       \* values that samples may carry, as sets of one bits
    Flags,          \* anomaly verdicts that samples may carry
    MaxChunkPoints  \* capacity of the chunk header's count, 2^16 - 1

ASSUME RingAssumption ==
    /\ Slots \in Nat \ {0}
    /\ TicksPerSecond \in Nat \ {0}
    /\ Interval \in Nat \ {0}
    /\ Retention \in Nat
    /\ Seconds \subseteq Nat
    /\ Readings \subseteq BitSets
    /\ Flags \subseteq BOOLEAN
    /\ MaxChunkPoints \in Nat

None == [sec |-> -1, val |-> {}]     \* no sample in hand

VARIABLES
    phase,            \* "up" while the process runs, else "down"
    known,            \* the series is registered in Store.byKey
    openChunkIndex,   \* series.openChunkIndex, -1 for none
    openChunkPoints,  \* series.openChunkPoints
    pc,               \* where the append in progress stands
    job,              \* the sample that a creating append will write
    dir,              \* the series directory exists
    meta,             \* meta.json: "absent", "torn" or "whole"
    file,             \* chunk files: [state, pts]
    durable,          \* history: points a completed chunk write put on disk
                      \* and no failure or deletion has since taken away
    newest,           \* history: highest chunk number accepted, -1 for none
    inOrder,          \* history: no point of an older chunk was accepted
    exact,            \* history: every chunk written so far decodes to itself
    clean             \* history: no failed I/O, deletion or kill in mid-append

memory  == <<known, openChunkIndex, openChunkPoints>>
disk    == <<dir, meta, file>>
history == <<durable, newest, inOrder, exact, clean>>
vars    == <<phase, memory, pc, job, disk, history>>

-----------------------------------------------------------------------------
(* Sizing, as in seriesFor and chunkSeconds *)

AtLeastOne(x) == IF x < 1 THEN 1 ELSE x
TotalPoints == AtLeastOne(Retention \div Interval)
MaxPointsPerChunk == AtLeastOne(TotalPoints \div Slots)
ChunkSeconds == AtLeastOne(Interval \div TicksPerSecond) * MaxPointsPerChunk

Ring == 0..(Slots - 1)
ChunkNum(sec) == sec \div ChunkSeconds

\* Mutant: the slot index does not wrap.
SlotOfUnwrapped(sec) == ChunkNum(sec)

SlotOf(sec) == ChunkNum(sec) % Slots

\* A point that was decoded may have another second than any sample.
Samples == [sec : Seconds, val : BitSets]
Points == [sec : Int, val : BitSets]
Content(pts) == {pts[i] : i \in 1..Len(pts)}

Absent == [state |-> "absent", pts |-> <<>>]
Torn == [state |-> "torn", pts |-> <<>>]
Whole(pts) == [state |-> "whole", pts |-> pts]

\* readChunkFile on a file that is not torn: what decodeChunk makes of the
\* points encoded in it.  On CodecExact points decoding is the identity
\* (TimesInSyncWhenExact and ValuesAlwaysInSync in GorillaProofs); others come
\* back at other seconds, and loadSeries goes on from those.
ReadBack(idx) ==
    IF CodecExact(file[idx].pts) THEN file[idx].pts ELSE Decoded(file[idx].pts)

-----------------------------------------------------------------------------
(* Append *)

Init ==
    /\ phase = "up"
    /\ known = FALSE
    /\ openChunkIndex = -1
    /\ openChunkPoints = <<>>
    /\ pc = "idle"
    /\ job = None
    /\ dir = FALSE
    /\ meta = "absent"
    /\ file = [i \in Ring |-> Absent]
    /\ durable = {}
    /\ newest = -1
    /\ inOrder = TRUE
    /\ exact = TRUE
    /\ clean = TRUE

\* The point that Append stores for a sample.
Stored(sec, value, anomalous) ==
    [sec |-> sec, val |-> EncodeAnomalyBit(value, anomalous)]

\* seriesFor for a series that Store.byKey does not have yet.
BeginCreate(p) ==
    /\ phase = "up" /\ pc = "idle" /\ ~known
    /\ pc' = "mkdirSeries"
    /\ job' = p
    /\ UNCHANGED <<phase, memory, disk, history>>

MkdirSeries ==
    /\ pc = "mkdirSeries"
    /\ dir' = TRUE
    /\ pc' = "openMeta"
    /\ UNCHANGED <<phase, memory, job, meta, file, history>>

OpenMeta ==
    /\ pc = "openMeta" /\ dir
    /\ meta' = "torn"
    /\ pc' = "writeMeta"
    /\ UNCHANGED <<phase, memory, job, dir, file, history>>

\* Mutant: the series is registered although its metadata was not written.
RegisterOnly ==
    /\ pc = "writeMeta"
    /\ known' = TRUE
    /\ pc' = "append"
    /\ UNCHANGED <<phase, openChunkIndex, openChunkPoints, job, disk, history>>

\* Writing through a descriptor whose file was deleted succeeds and leaves
\* nothing behind.
WriteMeta ==
    /\ pc = "writeMeta"
    /\ meta' = IF meta = "torn" THEN "whole" ELSE meta
    /\ known' = TRUE
    /\ openChunkIndex' = -1
    /\ openChunkPoints' = <<>>
    /\ pc' = "append"
    /\ UNCHANGED <<phase, job, dir, file, history>>

\* Mutant: a point of the same second as the last one is not late.
LateStrictly(p) ==
    /\ SlotOf(p.sec) = openChunkIndex
    /\ openChunkPoints # <<>>
    /\ p.sec < openChunkPoints[Len(openChunkPoints)].sec

\* write's second branch: same slot, not after the last point of the chunk.
Late(p) ==
    /\ SlotOf(p.sec) = openChunkIndex
    /\ openChunkPoints # <<>>
    /\ p.sec <= openChunkPoints[Len(openChunkPoints)].sec

Extended(p) ==
    IF SlotOf(p.sec) = openChunkIndex THEN Append(openChunkPoints, p) ELSE <<p>>

DropLate(p) ==
    /\ Late(p)
    /\ pc' = "idle"
    /\ job' = None
    /\ UNCHANGED <<phase, memory, disk, history>>

\* The in-memory half of write, up to writeChunkFile's size check; an
\* oversized chunk is an error, but memory keeps the point.
Accept(p) ==
    /\ ~Late(p)
    /\ openChunkIndex' = SlotOf(p.sec)
    /\ openChunkPoints' = Extended(p)
    /\ pc' = IF Len(Extended(p)) > MaxChunkPoints THEN "idle" ELSE "mkdir"
    /\ job' = None
    /\ newest' = IF ChunkNum(p.sec) > newest THEN ChunkNum(p.sec) ELSE newest
    /\ inOrder' = (inOrder /\ ChunkNum(p.sec) >= newest)
    /\ UNCHANGED <<phase, known, disk, durable, exact, clean>>

Write(p) == DropLate(p) \/ Accept(p)

AppendKnown(p) ==
    /\ phase = "up" /\ pc = "idle" /\ known
    /\ Write(p)

AppendCreated ==
    /\ pc = "append"
    /\ Write(job)

\* writeChunkFile: MkdirAll, then os.WriteFile of the whole open chunk.
Mkdir ==
    /\ pc = "mkdir"
    /\ dir' = TRUE
    /\ pc' = "openChunk"
    /\ UNCHANGED <<phase, memory, job, meta, file, history>>

OpenChunk ==
    /\ pc = "openChunk" /\ dir
    /\ file' = [file EXCEPT ![openChunkIndex] = Torn]
    /\ pc' = "writeChunk"
    /\ UNCHANGED <<phase, memory, job, dir, meta, history>>

WriteChunk ==
    /\ pc = "writeChunk"
    /\ IF file[openChunkIndex].state = "torn"
       THEN /\ file' = [file EXCEPT ![openChunkIndex] = Whole(openChunkPoints)]
            /\ durable' = durable \cup Content(openChunkPoints)
            /\ exact' = (exact /\ CodecExact(openChunkPoints))
       ELSE UNCHANGED <<file, durable, exact>>
    /\ pc' = "idle"
    /\ UNCHANGED <<phase, memory, job, dir, meta, newest, inOrder, clean>>

\* Append returns the error of a file operation; what it had changed in
\* memory and on disk stays.
OutsideSlot(pts, idx) == {p \in pts : SlotOf(p.sec) # idx}

IOFails ==
    /\ pc \in {"mkdirSeries", "openMeta", "writeMeta",
               "mkdir", "openChunk", "writeChunk"}
    /\ pc' = "idle"
    /\ job' = None
    /\ durable' = IF pc = "writeChunk"
                  THEN OutsideSlot(durable, openChunkIndex) ELSE durable
    /\ clean' = FALSE
    /\ UNCHANGED <<phase, memory, disk, newest, inOrder, exact>>

-----------------------------------------------------------------------------
(* The environment: kill, restart, external deletion *)

\* A kill, or the return of main on a signal: it does not wait for the
\* goroutines that append.
Crash ==
    /\ phase = "up"
    /\ phase' = "down"
    /\ known' = FALSE
    /\ openChunkIndex' = -1
    /\ openChunkPoints' = <<>>
    /\ pc' = "idle"
    /\ job' = None
    /\ durable' = IF pc = "writeChunk"
                  THEN OutsideSlot(durable, openChunkIndex) ELSE durable
    /\ clean' = (clean /\ pc = "idle")
    /\ UNCHANGED <<disk, newest, inOrder, exact>>

\* Open fails, and the process with it, when the directory has no readable
\* meta.json or any chunk of it cannot be decoded.
CanOpen ==
    dir => meta = "whole" /\ \A i \in Ring : file[i].state # "torn"

\* loadSeries resumes the chunk with the latest last point; the comparison
\* starts at -1 and is strict, in slot order.
LastSec(idx) == ReadBack(idx)[Len(ReadBack(idx))].sec
Resumable == {i \in Ring : ReadBack(i) # <<>> /\ LastSec(i) > -1}

\* Mutant: a loaded series starts with a fresh chunk.
NoResume == -1

ResumeIndex ==
    IF Resumable = {} THEN -1
    ELSE CHOOSE i \in Resumable :
            \A j \in Resumable :
                LastSec(j) < LastSec(i) \/ (LastSec(j) = LastSec(i) /\ i <= j)

Restart ==
    /\ phase = "down"
    /\ CanOpen
    /\ phase' = "up"
    /\ known' = dir
    /\ openChunkIndex' = ResumeIndex
    /\ openChunkPoints' = IF ResumeIndex = -1 THEN <<>> ELSE ReadBack(ResumeIndex)
    /\ UNCHANGED <<pc, job, disk, history>>

\* Something else removes the series directory.
RemoveDir ==
    /\ dir
    /\ dir' = FALSE
    /\ meta' = "absent"
    /\ file' = [i \in Ring |-> Absent]
    /\ durable' = {}
    /\ clean' = FALSE
    /\ UNCHANGED <<phase, memory, pc, job, newest, inOrder, exact>>

AppendStep ==
    \/ \E s \in Seconds, v \in Readings, a \in Flags :
          BeginCreate(Stored(s, v, a)) \/ AppendKnown(Stored(s, v, a))
    \/ MkdirSeries \/ OpenMeta \/ WriteMeta \/ AppendCreated
    \/ Mkdir \/ OpenChunk \/ WriteChunk \/ IOFails

Next == AppendStep \/ Crash \/ Restart \/ RemoveDir

Spec == Init /\ [][Next]_vars

-----------------------------------------------------------------------------
(* Properties *)

Chunks == Seq(Points)

TypeOK ==
    /\ phase \in {"up", "down"}
    /\ known \in BOOLEAN
    /\ openChunkIndex \in Ring \cup {-1}
    /\ openChunkPoints \in Chunks
    /\ pc \in {"idle", "mkdirSeries", "openMeta", "writeMeta", "append",
              "mkdir", "openChunk", "writeChunk"}
    /\ job \in Samples \cup {None}
    /\ dir \in BOOLEAN
    /\ meta \in {"absent", "torn", "whole"}
    /\ file \in [Ring -> [state : {"absent", "torn", "whole"}, pts : Chunks]]
    /\ durable \subseteq Points
    /\ newest \in Nat \cup {-1}
    /\ inOrder \in BOOLEAN
    /\ exact \in BOOLEAN
    /\ clean \in BOOLEAN

\* A chunk that write may extend and encodeChunk may encode: its points all
\* belong to its slot and their seconds strictly increase.
WellFormed(pts, idx) ==
    /\ \A i \in 1..Len(pts) : SlotOf(pts[i].sec) = idx
    /\ \A i, j \in 1..Len(pts) : i < j => pts[i].sec < pts[j].sec

\* As long as no chunk was written that the codec does not bring back, every
\* chunk, in memory and on disk, stays well formed through rotations, late
\* points, failed writes, kills and resumption by loadSeries: the precondition
\* that write's comment states for the codec, and the reason a query over all
\* chunks sees no second twice.
ChunksWellFormed ==
    exact =>
        /\ openChunkPoints # <<>> => WellFormed(openChunkPoints, openChunkIndex)
        /\ \A i \in Ring : WellFormed(file[i].pts, i)

OnDisk(p) == p \in Content(ReadBack(SlotOf(p.sec)))

\* The open chunk's old content while WriteChunk's file is truncated.
BeingRewritten(p) ==
    /\ pc = "writeChunk"
    /\ SlotOf(p.sec) = openChunkIndex
    /\ p \in Content(openChunkPoints)

Held(p) == OnDisk(p) \/ BeingRewritten(p)

\* The ring's promise when samples arrive in order of their chunks, and none was
\* written that the codec does not bring back: a point once durable stays on
\* disk, across kills and restarts, until its chunk is Slots chunks behind the
\* newest one.
RetainedWhenInOrder ==
    inOrder /\ exact => \A p \in durable : ChunkNum(p.sec) > newest - Slots => Held(p)

\* If every append so far ran to its end and nothing else touched the
\* directory, Open succeeds on what is there; a process that stops between
\* appends can be started again.
ReopensAfterCleanStop == clean /\ pc = "idle" => CanOpen

\* storage.go:336-339: a rotation discards the "stale data [that] occupied
\* that ring slot from chunksPerSeries cycles ago", so a durable point of the
\* last Slots chunks survives whatever the order of arrival.  The code breaks
\* this, with no failure at all, when a point of an older chunk arrives late.
DiscardsOnlyStaleChunks ==
    clean /\ exact => \A p \in durable : ChunkNum(p.sec) > newest - Slots => Held(p)
=============================================================================
