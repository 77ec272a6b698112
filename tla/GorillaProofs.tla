---------------------------- MODULE GorillaProofs ----------------------------
(***************************************************************************)
(* The codec's operators bring back what they write, and the two loops of  *)
(* GorillaStream stay in step, for every bucket width, value width,        *)
(* leading-zero clamp and sequence of points.                              *)
(***************************************************************************)
EXTENDS GorillaStream, WellFoundedInduction, TLAPS

-----------------------------------------------------------------------------
(* Timestamps *)

LEMMA ModSmall ==
    ASSUME NEW m \in Nat \ {0}, NEW a \in 0..(m-1)
    PROVE  a % m = a
OBVIOUS

LEMMA ModNegative ==
    ASSUME NEW m \in Nat \ {0}, NEW a \in Int, -m <= a, a < 0
    PROVE  a % m = a + m
OBVIOUS

\* writeSigned followed by readSigned is the identity exactly on the two's
\* complement range of the field.
LEMMA SignedRoundTrip ==
    ASSUME NEW h \in Nat \ {0}, NEW v \in Int, -h <= v, v < h
    PROVE  SignedRead(SignedWritten(v, h), h) = v
<1>. DEFINE m == 2 * h
<1>0. m \in Nat \ {0} /\ m = h + h
  OBVIOUS
<1>1. CASE v >= 0
  <2>1. v % m = v
    BY <1>0, <1>1, ModSmall
  <2>. QED
    BY <2>1, <1>1 DEF SignedRead, SignedWritten
<1>2. CASE v < 0
  <2>1. v % m = v + m
    BY <1>0, <1>2, ModNegative
  <2>. QED
    BY <2>1, <1>0, <1>2 DEF SignedRead, SignedWritten
<1>. QED
  BY <1>1, <1>2

\* The upper end of a two's complement range comes back negated.
LEMMA SignedTop ==
    ASSUME NEW h \in Nat \ {0}
    PROVE  SignedRead(SignedWritten(h, h), h) = -h
<1>. DEFINE m == 2 * h
<1>0. m \in Nat \ {0} /\ m = h + h /\ h \in 0..(m-1)
  OBVIOUS
<1>1. h % m = h
  BY <1>0, ModSmall
<1>. QED
  BY <1>0, <1>1 DEF SignedRead, SignedWritten

\* A delta-of-delta that is not the upper end of a bucket and fits the widest
\* field is read back as it was written (writeDeltaOfDelta and
\* readDeltaOfDelta), for every choice of the bucket widths.
THEOREM DodRoundTrip ==
    ASSUME NEW dod \in Int, ExactDod(dod)
    PROVE  DodRead(DodWritten(dod)) = dod
<1>. DEFINE k == Bucket(dod)
<1>1. CASE dod = 0
  BY <1>1 DEF DodRead, DodWritten, Bucket
<1>2. CASE dod # 0
  <2>1. /\ k \in 1..4
        /\ Half[k] \in Nat \ {0}
        /\ -Half[k] <= dod
        /\ dod < Half[k]
    BY <1>2, HalfAssumption DEF Bucket, Fits, ExactDod
  <2>2. DodWritten(dod) = [bucket |-> k, bits |-> SignedWritten(dod, Half[k])]
    BY <1>2 DEF DodWritten
  <2>3. SignedRead(SignedWritten(dod, Half[k]), Half[k]) = dod
    BY <2>1, SignedRoundTrip
  <2>. HIDE DEF k
  <2>. QED
    BY <2>1, <2>2, <2>3 DEF DodRead
<1>. QED
  BY <1>1, <1>2

\* The upper end of each of the three short buckets is read back negated: the
\* boundary is a property of the range tests, not of the widths chosen.
THEOREM DodBoundary ==
    ASSUME NEW k \in 1..3
    PROVE  DodRead(DodWritten(Half[k])) = -Half[k]
<1>1. /\ Half[k] \in Nat \ {0}
      /\ Bucket(Half[k]) = k
  BY HalfAssumption DEF Bucket, Fits
<1>2. DodWritten(Half[k]) =
        [bucket |-> k, bits |-> SignedWritten(Half[k], Half[k])]
  BY <1>1 DEF DodWritten
<1>. QED
  BY <1>1, <1>2, SignedTop DEF DodRead

-----------------------------------------------------------------------------
(* Values *)

\* Every non-empty set of naturals has a least element.
LEMMA LeastNatural ==
    ASSUME NEW S, S \subseteq Nat, S # {}
    PROVE  \E x \in S : \A y \in S : x <= y
<1>. DEFINE R == OpToRel(<, Nat)
<1>1. PICK x \in S : \A y \in S : <<y, x>> \notin R
  <2>. HIDE DEF R
  <2>1. IsWellFoundedOn(R, Nat)
    BY NatLessThanWellFounded DEF R
  <2>. QED
    BY <2>1, WFMin
<1>2. \A y \in S : ~ (y < x)
  BY <1>1 DEF OpToRel
<1>. QED
  BY <1>2

LEMMA BitPositions ==
    ASSUME NEW x \in BitSets
    PROVE  x \subseteq Nat /\ \A b \in x : b \in Nat /\ b <= ValueBits - 1
<1>1. x \subseteq 0..(ValueBits - 1)
  BY DEF BitSets
<1>2. ValueBits \in Nat
  BY WidthAssumption
<1>. QED
  BY <1>1, <1>2

LEMMA MinOfBits ==
    ASSUME NEW x \in BitSets, x # {}
    PROVE  /\ Min(x) \in x
           /\ \A y \in x : Min(x) <= y
<1>1. \E a \in x : \A y \in x : a <= y
  BY LeastNatural, BitPositions
<1>. QED
  BY <1>1 DEF Min

LEMMA MaxOfBits ==
    ASSUME NEW x \in BitSets, x # {}
    PROVE  /\ Max(x) \in x
           /\ \A y \in x : Max(x) >= y
<1>. DEFINE T == {ValueBits - 1 - y : y \in x}
<1>1. T \subseteq Nat /\ T # {}
  <2>1. \A y \in x : ValueBits - 1 - y \in Nat
    BY BitPositions, WidthAssumption
  <2>. QED
    BY <2>1
<1>2. PICK b \in T : \A c \in T : b <= c
  BY <1>1, LeastNatural
<1>3. PICK a \in x : b = ValueBits - 1 - a
  OBVIOUS
<1>4. \A y \in x : a >= y
  <2>. SUFFICES ASSUME NEW y \in x PROVE a >= y
    OBVIOUS
  <2>1. b <= ValueBits - 1 - y
    BY <1>2
  <2>. QED
    BY <2>1, <1>3, BitPositions, WidthAssumption
<1>. QED
  BY <1>4 DEF Max

\* A window either loop can hold.
Windows ==
    {w \in [set : BOOLEAN, leading : 0..MaxLeading, trailing : 0..(ValueBits-1)] :
        w.leading + w.trailing < ValueBits}

\* Shifting a payload back up restores the XOR as long as all its bits lie in
\* the window.
LEMMA PayloadRoundTrip ==
    ASSUME NEW x \in BitSets, NEW w \in Windows,
           \A b \in x : w.trailing <= b /\ b <= ValueBits - 1 - w.leading
    PROVE  {b + w.trailing : b \in Payload(x, w.trailing, Meaningful(w))} = x
<1>. DEFINE t == w.trailing
            p == {b - t : b \in x}
<1>1. t \in Nat /\ w.leading \in Nat /\ x \subseteq Nat
  BY BitPositions, WidthAssumption DEF Windows
<1>2. p \subseteq 0..(Meaningful(w) - 1)
  <2>1. \A b \in x : b - t \in 0..(ValueBits - w.leading - t - 1)
    BY <1>1, WidthAssumption
  <2>. QED
    BY <2>1 DEF Meaningful
<1>3. Payload(x, t, Meaningful(w)) = p
  BY <1>2 DEF Payload
<1>4. {c + t : c \in p} = x
  <2>1. \A b \in x : b - t + t = b
    BY <1>1
  <2>. QED
    BY <2>1
<1>. QED
  BY <1>3, <1>4

\* A header's own window contains every bit of the XOR it was opened for,
\* clamped or not.
LEMMA HeaderWindowCovers ==
    ASSUME NEW x \in BitSets, x # {}
    PROVE  /\ HeaderWindow(x) \in Windows
           /\ \A b \in x : /\ HeaderWindow(x).trailing <= b
                           /\ b <= ValueBits - 1 - HeaderWindow(x).leading
<1>1. /\ Min(x) \in x /\ Max(x) \in x
      /\ \A b \in x : Min(x) <= b /\ b <= Max(x)
  BY MinOfBits, MaxOfBits
<1>2. \A b \in x : b \in Nat /\ b <= ValueBits - 1
  BY BitPositions
<1>. QED
  BY <1>1, <1>2, WidthAssumption
  DEF HeaderWindow, Windows, Clamped, LeadingZeros, TrailingZeros

\* Every bit of an XOR that may reuse the window lies inside it.
LEMMA ReusableCovers ==
    ASSUME NEW x \in BitSets, x # {}, NEW w \in Windows, Reusable(x, w)
    PROVE  \A b \in x : w.trailing <= b /\ b <= ValueBits - 1 - w.leading
<1>1. /\ Min(x) \in Nat /\ Max(x) \in Nat
      /\ \A b \in x : b \in Nat /\ Min(x) <= b /\ b <= Max(x)
  BY MinOfBits, MaxOfBits, BitPositions
<1>2. w.trailing \in Int /\ w.leading \in Int
  BY DEF Windows
<1>. QED
  BY <1>1, <1>2, WidthAssumption DEF Reusable, LeadingZeros, TrailingZeros

LEMMA XorCancels ==
    ASSUME NEW a, NEW b
    PROVE  /\ Xor(a, Xor(a, b)) = b
           /\ Xor(a, b) = {} => a = b
BY DEF Xor

\* readXOR returns the value writeXOR was given and leaves the reader with
\* the writer's window, whatever the previous value and the window are.
THEOREM ValueRoundTrip ==
    ASSUME NEW prev \in BitSets, NEW cur \in BitSets, NEW win \in Windows
    PROVE  /\ XorRead(prev, XorWritten(prev, cur, win), win) = cur
           /\ WindowRead(XorWritten(prev, cur, win), win)
                = WindowWritten(prev, cur, win)
           /\ WindowWritten(prev, cur, win) \in Windows
<1>. DEFINE x == Xor(prev, cur)
            h == HeaderWindow(x)
            field == XorWritten(prev, cur, win)
<1>1. x \in BitSets
  BY DEF Xor, BitSets
<1>2. CASE x = {}
  <2>1. field = [kind |-> "same"] /\ WindowWritten(prev, cur, win) = win
    BY <1>2 DEF XorWritten, WindowWritten
  <2>2. XorRead(prev, field, win) = prev /\ WindowRead(field, win) = win
    BY <2>1 DEF XorRead, WindowRead
  <2>. QED
    BY <1>2, <2>1, <2>2, XorCancels
<1>3. CASE x # {} /\ Reusable(x, win)
  <2>1. field = [kind |-> "window",
                 bits |-> Payload(x, win.trailing, Meaningful(win))]
    BY <1>3 DEF XorWritten
  <2>2. WindowRead(field, win) = win /\ WindowWritten(prev, cur, win) = win
    BY <1>3, <2>1 DEF WindowRead, WindowWritten
  <2>3. {b + win.trailing : b \in field.bits} = x
    BY <1>1, <1>3, <2>1, ReusableCovers, PayloadRoundTrip
  <2>4. XorRead(prev, field, win)
          = Xor(prev, {b + win.trailing : b \in field.bits})
    BY <2>1, <2>2 DEF XorRead
  <2>5. XorRead(prev, field, win) = cur
    BY <2>3, <2>4, XorCancels
  <2>. QED
    BY <2>2, <2>5
<1>4. CASE x # {} /\ ~ Reusable(x, win)
  <2>1. field = [kind |-> "header", leading |-> h.leading,
                 meaningful |-> Meaningful(h),
                 bits |-> Payload(x, h.trailing, Meaningful(h))]
    BY <1>4 DEF XorWritten
  <2>2. h \in Windows /\ WindowWritten(prev, cur, win) = h
    BY <1>1, <1>4, HeaderWindowCovers DEF WindowWritten
  <2>3. WindowRead(field, win) = h
    <3>1. h = [set |-> TRUE, leading |-> h.leading, trailing |-> h.trailing]
      BY DEF HeaderWindow
    <3>2. h.leading \in Int /\ h.trailing \in Int
      BY <2>2, WidthAssumption DEF Windows
    <3>3. ValueBits - h.leading - Meaningful(h) = h.trailing
      BY <3>2, WidthAssumption DEF Meaningful
    <3>4. WindowRead(field, win)
            = [set |-> TRUE, leading |-> h.leading,
               trailing |-> ValueBits - h.leading - Meaningful(h)]
      BY <2>1 DEF WindowRead
    <3>. QED
      BY <3>1, <3>3, <3>4
  <2>4. {b + h.trailing : b \in field.bits} = x
    BY <1>1, <1>4, <2>1, <2>2, HeaderWindowCovers, PayloadRoundTrip
  <2>5. XorRead(prev, field, win)
          = Xor(prev, {b + h.trailing : b \in field.bits})
    BY <2>1, <2>3 DEF XorRead
  <2>. QED
    <3>1. XorRead(prev, field, win) = cur
      BY <2>4, <2>5, XorCancels
    <3>. QED
      BY <2>2, <2>3, <3>1
<1>. QED
  BY <1>2, <1>3, <1>4

-----------------------------------------------------------------------------
(* The two loops stay in lockstep *)

\* The state the two loops share between points: legal values and windows,
\* the reader's value and window being the writer's, and the timestamps in
\* agreement as long as every delta was one the codec brings back.
StreamInv ==
    /\ n \in Nat
    /\ enc \in [delta : Int, bits : BitSets, win : Windows]
    /\ dec \in [delta : Int, bits : BitSets, win : Windows]
    /\ skew \in Int
    /\ exact \in BOOLEAN
    /\ ValuesInSync
    /\ ExactTimesInSync

LEMMA DodReadIsInt ==
    ASSUME NEW dod \in Int
    PROVE  DodRead(DodWritten(dod)) \in Int
<1>1. CASE dod = 0
  BY <1>1 DEF DodRead, DodWritten, Bucket
<1>2. CASE dod # 0
  <2>. DEFINE k == Bucket(dod)
  <2>1. k \in 1..4 /\ Half[k] \in Nat \ {0}
    BY <1>2, HalfAssumption DEF Bucket, Fits
  <2>2. DodWritten(dod) = [bucket |-> k, bits |-> SignedWritten(dod, Half[k])]
    BY <1>2 DEF DodWritten
  <2>. HIDE DEF k
  <2>3. SignedWritten(dod, Half[k]) \in Int
    BY <2>1 DEF SignedWritten
  <2>. QED
    BY <2>1, <2>2, <2>3 DEF DodRead, SignedRead
<1>. QED
  BY <1>1, <1>2

LEMMA FirstDelta ==
    ASSUME NEW delta \in Int
    PROVE  /\ FirstDeltaRead(delta) \in Int
           /\ ExactDelta(delta) => FirstDeltaRead(delta) = delta
<1>1. Half[4] \in Nat \ {0}
  BY HalfAssumption
<1>2. FirstDeltaRead(delta) \in Int
  BY <1>1 DEF FirstDeltaRead, SignedRead, SignedWritten
<1>. QED
  BY <1>1, <1>2, SignedRoundTrip DEF FirstDeltaRead, ExactDelta

\* One iteration of both loops keeps values and windows in step, whatever
\* delta the reader derives.
LEMMA AdvanceKeepsValues ==
    ASSUME StreamInv, NEW v \in BitSets, NEW d \in Int, NEW r \in Int,
           Advance(v, d, r)
    PROVE  /\ n' \in Nat
           /\ enc' \in [delta : Int, bits : BitSets, win : Windows]
           /\ dec' \in [delta : Int, bits : BitSets, win : Windows]
           /\ skew' \in Int
           /\ ValuesInSync'
           /\ enc'.delta = d /\ dec'.delta = r /\ skew' = skew + r - d
<1>. DEFINE field == XorWritten(enc.bits, v, enc.win)
<1>1. /\ enc.bits \in BitSets /\ enc.win \in Windows
      /\ dec.bits = enc.bits /\ dec.win = enc.win
  BY DEF StreamInv, ValuesInSync
<1>2. /\ XorRead(dec.bits, field, dec.win) = v
      /\ WindowRead(field, dec.win) = WindowWritten(enc.bits, v, enc.win)
      /\ WindowWritten(enc.bits, v, enc.win) \in Windows
  BY <1>1, ValueRoundTrip
<1>3. /\ enc' = [delta |-> d, bits |-> v,
                 win |-> WindowWritten(enc.bits, v, enc.win)]
      /\ dec' = [delta |-> r, bits |-> XorRead(dec.bits, field, dec.win),
                 win |-> WindowRead(field, dec.win)]
      /\ n' = n + 1
      /\ skew' = skew + r - d
  BY DEF Advance
<1>4. n \in Nat /\ skew \in Int
  BY DEF StreamInv
<1>. HIDE DEF field
<1>. QED
  BY <1>2, <1>3, <1>4 DEF ValuesInSync

\* An iteration that only counts as exact when the reader derived the writer's
\* delta, from loops that agreed, keeps the whole invariant.
LEMMA StepFromAdvance ==
    ASSUME StreamInv, NEW v \in BitSets, NEW d \in Int, NEW r \in Int,
           Advance(v, d, r), exact' \in BOOLEAN,
           exact' => skew = 0 /\ r = d
    PROVE  StreamInv'
<1>1. /\ n' \in Nat
      /\ enc' \in [delta : Int, bits : BitSets, win : Windows]
      /\ dec' \in [delta : Int, bits : BitSets, win : Windows]
      /\ skew' \in Int
      /\ ValuesInSync'
      /\ enc'.delta = d /\ dec'.delta = r /\ skew' = skew + r - d
  BY AdvanceKeepsValues
<1>2. ExactTimesInSync'
  BY <1>1 DEF ExactTimesInSync
<1>. QED
  BY <1>1, <1>2 DEF StreamInv

LEMMA StreamInductive ==
    ASSUME StreamInv, [Next]_vars
    PROVE  StreamInv'
<1>1. ASSUME NEW v \in BitSets, FirstPoint(v)
      PROVE  StreamInv'
  BY <1>1 DEF FirstPoint, StreamInv, ValuesInSync, ExactTimesInSync
<1>2. ASSUME NEW v \in BitSets, NEW d \in Deltas, SecondPoint(v, d)
      PROVE  StreamInv'
  <2>1. d \in Int
    BY StreamAssumption
  <2>2. FirstDeltaRead(d) \in Int /\ (ExactDelta(d) => FirstDeltaRead(d) = d)
    BY <2>1, FirstDelta
  <2>. DEFINE r == FirstDeltaRead(d)
  <2>3. Advance(v, d, r) /\ exact' = (exact /\ ExactDelta(d))
    BY <1>2 DEF SecondPoint
  <2>4. exact' \in BOOLEAN
    BY <2>3 DEF StreamInv, ExactDelta
  <2>5. exact' => skew = 0 /\ r = d
    BY <2>2, <2>3 DEF StreamInv, ExactTimesInSync
  <2>. QED
    BY <2>1, <2>2, <2>3, <2>4, <2>5, StepFromAdvance
<1>3. ASSUME NEW v \in BitSets, NEW d \in Deltas, LaterPoint(v, d)
      PROVE  StreamInv'
  <2>. DEFINE dod == d - enc.delta
              r == dec.delta + DodRead(DodWritten(dod))
  <2>1. d \in Int /\ dod \in Int /\ dec.delta \in Int /\ enc.delta \in Int
    BY StreamAssumption DEF StreamInv
  <2>2. /\ DodRead(DodWritten(dod)) \in Int
        /\ ExactDod(dod) => DodRead(DodWritten(dod)) = dod
    BY <2>1, DodReadIsInt, DodRoundTrip
  <2>3. Advance(v, d, r) /\ exact' = (exact /\ ExactDod(dod))
    BY <1>3 DEF LaterPoint
  <2>4. r \in Int /\ (ExactDod(dod) /\ dec.delta = enc.delta => r = d)
    BY <2>1, <2>2
  <2>5. exact' \in BOOLEAN
    BY <2>3 DEF StreamInv, ExactDod
  <2>6. exact' => skew = 0 /\ r = d
    BY <2>3, <2>4 DEF StreamInv, ExactTimesInSync
  <2>. HIDE DEF dod, r
  <2>. QED
    BY <2>1, <2>3, <2>4, <2>5, <2>6, StepFromAdvance
<1>4. CASE UNCHANGED vars
  BY <1>4 DEF vars, StreamInv, ValuesInSync, ExactTimesInSync
<1>. QED
  BY <1>1, <1>2, <1>3, <1>4 DEF Next

THEOREM StreamCorrect == Spec => []StreamInv
<1>1. Init => StreamInv
  <2>1. NoWindow \in Windows /\ {} \in BitSets
    BY WidthAssumption DEF NoWindow, Windows, BitSets
  <2>. QED
    BY <2>1 DEF Init, StreamInv, ValuesInSync, ExactTimesInSync
<1>. QED
  BY <1>1, StreamInductive, PTL DEF Spec

\* Values come back bit for bit and the two windows never drift apart, for
\* chunks of any length and values of any width.
THEOREM ValuesAlwaysInSync == Spec => []ValuesInSync
BY StreamCorrect, PTL DEF StreamInv

\* As long as no delta-of-delta is the upper end of a bucket, every timestamp
\* of the chunk comes back exactly.
THEOREM TimesInSyncWhenExact == Spec => []ExactTimesInSync
BY StreamCorrect, PTL DEF StreamInv
=============================================================================
