---------------------------- MODULE GorillaCodec ----------------------------
(***************************************************************************)
(* The chunk codec of internal/storage/gorilla.go: delta-of-delta          *)
(* timestamps and XOR'd values.  The bit stream is kept as the fields that *)
(* the writer emits and the reader asks for: the unary prefix that selects *)
(* a timestamp bucket is the field's "bucket", the control bits of a value *)
(* are the field's "kind", and the payload of a value is the set of the    *)
(* positions of its one bits, so that XOR is symmetric difference and a    *)
(* shift is a translation.  Every definition is non-recursive or a         *)
(* recursive function, so that the module can be proved about.             *)
(***************************************************************************)
EXTENDS Integers, Sequences, FiniteSetsExt

CONSTANTS
    Half,        \* Half[k] = 2^(w-1) for the w-bit payload of bucket k:
                 \* <<2^6, 2^8, 2^11, 2^31>> in the code
    ValueBits,   \* width of a value, 64 in the code
    MaxLeading   \* largest leading-zero count of the header field, 31

ASSUME HalfAssumption ==
    /\ Half \in [1..4 -> Nat \ {0}]
    /\ Half[1] < Half[2] /\ Half[2] < Half[3] /\ Half[3] < Half[4]

ASSUME WidthAssumption ==
    /\ ValueBits \in Nat \ {0}
    /\ MaxLeading \in 0..(ValueBits - 1)

-----------------------------------------------------------------------------
(* Timestamps *)

\* A two's complement payload of half-range h: writeSigned masks to the low
\* bits, readSigned subtracts the full range when the sign bit is set.
SignedWritten(v, h) == v % (2 * h)
SignedRead(b, h) == IF b >= h THEN b - 2 * h ELSE b

\* Mutant: the upper end of the bucket is off by one more.
FitsOneMore(k, dod) == 1 - Half[k] <= dod /\ dod <= Half[k] + 1

\* The range test of bucket k, exactly as in the switch of
\* writeDeltaOfDelta: its upper end is Half[k], not Half[k] - 1.
Fits(k, dod) == 1 - Half[k] <= dod /\ dod <= Half[k]

Bucket(dod) ==
    IF dod = 0 THEN 0
    ELSE IF Fits(1, dod) THEN 1
    ELSE IF Fits(2, dod) THEN 2
    ELSE IF Fits(3, dod) THEN 3
    ELSE 4

DodWritten(dod) ==
    [bucket |-> Bucket(dod),
     bits   |-> IF dod = 0 THEN 0 ELSE SignedWritten(dod, Half[Bucket(dod)])]

DodRead(field) ==
    IF field.bucket = 0 THEN 0 ELSE SignedRead(field.bits, Half[field.bucket])

\* The delta of the second point has a fixed-width field of its own.
FirstDeltaRead(delta) == SignedRead(SignedWritten(delta, Half[4]), Half[4])

\* The delta of point i and its delta-of-delta, as encodeChunk computes them.
Delta(pts, i) == pts[i].sec - pts[i-1].sec
Dod(pts, i) == Delta(pts, i) - Delta(pts, i-1)

DecodedDeltas(pts) ==
    LET d[i \in 2..Len(pts)] ==
            IF i = 2 THEN FirstDeltaRead(Delta(pts, 2))
                     ELSE d[i-1] + DodRead(DodWritten(Dod(pts, i)))
    IN  d

DecodedSecs(pts) ==
    LET s[i \in 1..Len(pts)] ==
            IF i = 1 THEN pts[1].sec ELSE s[i-1] + DecodedDeltas(pts)[i]
    IN  s

\* decodeChunk(encodeChunk(pts)) for timestamps; values come back unchanged
\* (ValueRoundTrip in GorillaProofs).
Decoded(pts) ==
    [i \in 1..Len(pts) |-> [pts[i] EXCEPT !.sec = DecodedSecs(pts)[i]]]

\* The timestamps the codec brings back exactly: Half[k] is written in bucket
\* k although its payload reads back as -Half[k].
ExactDod(dod) ==
    /\ dod \notin {Half[1], Half[2], Half[3]}
    /\ -Half[4] <= dod /\ dod < Half[4]

ExactDelta(delta) == -Half[4] <= delta /\ delta < Half[4]

CodecExact(pts) ==
    /\ Len(pts) >= 2 => ExactDelta(Delta(pts, 2))
    /\ \A i \in 3..Len(pts) : ExactDod(Dod(pts, i))

-----------------------------------------------------------------------------
(* Values *)

BitSets == SUBSET (0..(ValueBits - 1))

Xor(a, b) == (a \ b) \cup (b \ a)
LeadingZeros(x) == ValueBits - 1 - Max(x)
TrailingZeros(x) == Min(x)

\* (x >> by) & ((1 << len) - 1)
Payload(x, by, len) == {b - by : b \in x} \cap 0..(len - 1)

NoWindow == [set |-> FALSE, leading |-> 0, trailing |-> 0]

\* Mutant: the reuse test forgets the low end of the window.
ReusableIgnoringTrailing(x, win) ==
    win.set /\ LeadingZeros(x) >= win.leading

Reusable(x, win) ==
    /\ win.set
    /\ LeadingZeros(x) >= win.leading
    /\ TrailingZeros(x) >= win.trailing

Clamped(leading) == IF leading > MaxLeading THEN MaxLeading ELSE leading

\* A header names the window it opens; "meaningful" is its width in bits.
HeaderWindow(x) ==
    [set |-> TRUE, leading |-> Clamped(LeadingZeros(x)),
     trailing |-> TrailingZeros(x)]
Meaningful(win) == ValueBits - win.leading - win.trailing

\* writeXOR: the field written for cur after prev, and the writer's window
\* afterwards.
XorWritten(prev, cur, win) ==
    LET x == Xor(prev, cur)
        w == HeaderWindow(x)
    IN  IF x = {} THEN [kind |-> "same"]
        ELSE IF Reusable(x, win)
        THEN [kind |-> "window",
              bits |-> Payload(x, win.trailing, Meaningful(win))]
        ELSE [kind |-> "header", leading |-> w.leading,
              meaningful |-> Meaningful(w),
              bits |-> Payload(x, w.trailing, Meaningful(w))]

WindowWritten(prev, cur, win) ==
    LET x == Xor(prev, cur)
    IN  IF x = {} \/ Reusable(x, win) THEN win ELSE HeaderWindow(x)

\* readXOR: the window the reader uses for a field, and the value it returns.
WindowRead(field, win) ==
    IF field.kind = "header"
    THEN [set |-> TRUE, leading |-> field.leading,
          trailing |-> ValueBits - field.leading - field.meaningful]
    ELSE win

XorRead(prev, field, win) ==
    IF field.kind = "same" THEN prev
    ELSE Xor(prev, {b + WindowRead(field, win).trailing : b \in field.bits})

\* EncodeAnomalyBit and DecodeAnomalyBit: the flag is the lowest bit.
EncodeAnomalyBit(value, anomalous) ==
    IF anomalous THEN value \cup {0} ELSE value \ {0}
DecodeAnomalyBit(value) == 0 \in value
=============================================================================
