---------------------------- MODULE GorillaStream ---------------------------
(***************************************************************************)
(* One chunk going through the codec: encodeChunk's loop over the points   *)
(* and decodeChunk's loop over the fields, in lockstep.  Each of the two   *)
(* keeps the state its loop carries from point to point (previous delta,   *)
(* previous value bits, XOR window); the two must never drift apart.       *)
(***************************************************************************)
EXTENDS GorillaCodec

CONSTANTS
    Deltas,     \* gaps in seconds between consecutive points of a chunk
    MaxPoints   \* bound on the points of a chunk

ASSUME StreamAssumption == Deltas \subseteq Nat \ {0} /\ MaxPoints \in Nat

VARIABLES
    n,      \* points encoded so far
    enc,    \* encodeChunk's loop state: [delta, bits, win]
    dec,    \* decodeChunk's loop state, same fields
    skew,   \* decoded second minus encoded second of the last point
    exact   \* history: every delta so far satisfied CodecExact's condition

vars == <<n, enc, dec, skew, exact>>

Init ==
    /\ n = 0
    /\ enc = [delta |-> 0, bits |-> {}, win |-> NoWindow]
    /\ dec = enc
    /\ skew = 0
    /\ exact = TRUE

\* The first point is written raw, 64 bits each for second and value.
FirstPoint(value) ==
    /\ n = 0
    /\ n' = 1
    /\ enc' = [enc EXCEPT !.bits = value]
    /\ dec' = [dec EXCEPT !.bits = value]
    /\ UNCHANGED <<skew, exact>>

\* What both loops do for a later point, given the delta the reader derives.
Advance(value, delta, readDelta) ==
    LET field == XorWritten(enc.bits, value, enc.win)
    IN  /\ n' = n + 1
        /\ enc' = [delta |-> delta, bits |-> value,
                   win |-> WindowWritten(enc.bits, value, enc.win)]
        /\ dec' = [delta |-> readDelta,
                   bits |-> XorRead(dec.bits, field, dec.win),
                   win |-> WindowRead(field, dec.win)]
        /\ skew' = skew + readDelta - delta

SecondPoint(value, delta) ==
    /\ n = 1
    /\ Advance(value, delta, FirstDeltaRead(delta))
    /\ exact' = (exact /\ ExactDelta(delta))

LaterPoint(value, delta) ==
    LET dod == delta - enc.delta
    IN  /\ n \in 2..(MaxPoints - 1)
        /\ Advance(value, delta, dec.delta + DodRead(DodWritten(dod)))
        /\ exact' = (exact /\ ExactDod(dod))

Next ==
    \/ \E v \in BitSets : FirstPoint(v)
    \/ \E v \in BitSets, d \in Deltas : SecondPoint(v, d)
    \/ \E v \in BitSets, d \in Deltas : LaterPoint(v, d)

Spec == Init /\ [][Next]_vars

-----------------------------------------------------------------------------
\* Values survive the codec whatever the sequence of values and however long
\* a window is reused: the reader's value and window are the writer's
\* (writeXOR and readXOR carry the window separately and must agree on when
\* it changes, including when the leading-zero count is clamped).
ValuesInSync == dec.bits = enc.bits /\ dec.win = enc.win

\* As long as no delta-of-delta hit the upper end of a bucket, every
\* timestamp so far came back exactly, and so will the next regular one: the
\* accumulated delta agrees too (the error of one field never stays hidden).
ExactTimesInSync == exact => skew = 0 /\ dec.delta = enc.delta
=============================================================================
