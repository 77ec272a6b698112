----------------------------- MODULE RingQuery ------------------------------
(***************************************************************************)
(* A query reading the series while it is appended to (readAll, called by  *)
(* Store.QueryRange).  readAll holds series.mu only to copy the directory  *)
(* name: it lists the directory and then reads the chunk files one by one, *)
(* with appends, failures and deletions in between.                        *)
(***************************************************************************)
EXTENDS SeriesRing

VARIABLES
    qpc,    \* "idle", "reading", "done" or "failed"
    left,   \* chunk files listed and not read yet
    got,    \* points read from each chunk file
    due     \* history: durable points held since the listing

queryVars == <<qpc, left, got, due>>
allVars == <<vars, queryVars>>

QueryInit ==
    /\ Init
    /\ qpc = "idle"
    /\ left = {}
    /\ got = [i \in Ring |-> <<>>]
    /\ due = {}

\* os.ReadDir; a missing directory is an empty answer, not an error.
ListDir ==
    /\ phase = "up" /\ known /\ qpc = "idle"
    /\ qpc' = "reading"
    /\ left' = {i \in Ring : file[i].state # "absent"}
    /\ got' = [i \in Ring |-> <<>>]
    /\ due' = {p \in durable : Held(p)}
    /\ UNCHANGED vars

\* Mutant: a chunk that cannot be decoded is skipped instead of reported.
ReadNextSkippingTorn ==
    /\ qpc = "reading" /\ left # {}
    /\ left' = left \ {Min(left)}
    /\ got' = [got EXCEPT ![Min(left)] = ReadBack(Min(left))]
    /\ UNCHANGED <<qpc, due, vars>>

\* readChunkFile on the next listed file, in name order; a file that is gone
\* by now is skipped, one that does not decode fails the whole query.
ReadNext ==
    /\ qpc = "reading" /\ left # {}
    /\ LET i == Min(left)
       IN  IF file[i].state = "torn"
           THEN /\ qpc' = "failed"
                /\ UNCHANGED <<left, got>>
           ELSE /\ left' = left \ {i}
                /\ got' = [got EXCEPT ![i] = ReadBack(i)]
                /\ UNCHANGED qpc
    /\ UNCHANGED <<due, vars>>

Answer ==
    /\ qpc = "reading" /\ left = {}
    /\ qpc' = "done"
    /\ UNCHANGED <<left, got, due, vars>>

Return ==
    /\ qpc \in {"done", "failed"}
    /\ qpc' = "idle"
    /\ left' = {}
    /\ got' = [i \in Ring |-> <<>>]
    /\ due' = {}
    /\ UNCHANGED vars

\* A step of the ring: a kill takes the query with it; a point that is no
\* longer durable or no longer held is not due any more.
RingStep ==
    /\ Next
    /\ IF phase' = "down"
       THEN /\ qpc' = "idle"
            /\ left' = {}
            /\ got' = [i \in Ring |-> <<>>]
            /\ due' = {}
       ELSE /\ due' = {p \in due : p \in durable' /\ Held(p)'}
            /\ UNCHANGED <<qpc, left, got>>

QueryNext == ListDir \/ ReadNext \/ Answer \/ Return \/ RingStep

QuerySpec == QueryInit /\ [][QueryNext]_allVars

-----------------------------------------------------------------------------
\* QueryRange's answer for [start, end], before it is sorted by time.
InRange(start, end) ==
    UNION {{p \in Content(got[i]) : start <= p.sec /\ p.sec <= end} : i \in Ring}

\* A query that ends without an error returns every point that was on disk,
\* or being rewritten, during the whole of it: the rewriting of the open
\* chunk in place never makes an older point silently disappear.  (A point that
\* its chunk does not decode to is not on disk.)
AnswerComplete ==
    qpc = "done" =>
        \A start, end \in Seconds :
            {p \in due : start <= p.sec /\ p.sec <= end} \subseteq InRange(start, end)

\* An answer holds no second twice, although its chunks are read at
\* different moments and rotations happen in between, as long as no chunk was
\* written that the codec does not bring back.
AnswerWithoutDuplicates ==
    qpc = "done" /\ exact =>
        \A i, j \in Ring : \A k \in 1..Len(got[i]), l \in 1..Len(got[j]) :
            got[i][k].sec = got[j][l].sec => i = j /\ k = l
=============================================================================
