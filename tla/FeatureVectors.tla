--------------------------- MODULE FeatureVectors ---------------------------
(***************************************************************************)
(* The feature vectors of the anomaly models (internal/anomaly/model.go):  *)
(* Preprocess makes them of a series' values, for training from a window   *)
(* and for scoring from the raw buffer.                                    *)
(*                                                                         *)
(* Values are integers.  A moving average is its window's sum, that is,    *)
(* scaled by smoothN throughout, which changes no comparison.  Settings f  *)
(* are records [diffN, smoothN, lagN].                                     *)
(***************************************************************************)
EXTENDS Integers, SequencesExt

\* The sums of the first 0, 1, ... terms.
RunningSum(s) ==
    LET sum[i \in 0..Len(s)] == IF i = 0 THEN 0 ELSE sum[i - 1] + s[i] IN sum

Sum(s) == RunningSum(s)[Len(s)]

Diff(s, n) == IF n = 0 THEN s ELSE [i \in 1..(Len(s) - n) |-> s[i + n] - s[i]]

\* Mutant: the running sum drops the value after the one that leaves.
RollingDroppingNext(s, n) ==
    LET changes == [i \in 1..(Len(s) - n) |-> s[i + n] - s[i + 1]]
    IN  [i \in 1..(Len(s) - n + 1) |-> Sum(SubSeq(s, 1, n)) + RunningSum(changes)[i - 1]]

\* The running sum of movingAverage: a value enters and the one n before leaves.
Rolling(s, n) ==
    LET changes == [i \in 1..(Len(s) - n) |-> s[i + n] - s[i]]
    IN  [i \in 1..(Len(s) - n + 1) |-> Sum(SubSeq(s, 1, n)) + RunningSum(changes)[i - 1]]

MovingAverage(s, n) ==
    IF n <= 1 THEN s ELSE IF Len(s) < n THEN <<>> ELSE Rolling(s, n)

SlidingWindows(s, w) == [i \in 1..(Len(s) - w + 1) |-> SubSeq(s, i, i + w - 1)]

\* Difference, then smooth, then lag.
Preprocess(s, f) ==
    SlidingWindows(MovingAverage(Diff(s, f.diffN), f.smoothN), f.lagN + 1)

Smooth(f) == IF f.smoothN < 1 THEN 1 ELSE f.smoothN

\* ensemble.rawBufferLen: what Score keeps of a series.
RawBufferLen(f) == f.diffN + Smooth(f) + f.lagN

-----------------------------------------------------------------------------

\* The sum of the n values up to a place, and the feature of that place.
WindowSum(s, last, n) == Sum(SubSeq(s, last - n + 1, last))
Feature(s, f, last) ==
    WindowSum(s, last, Smooth(f))
        - IF f.diffN = 0 THEN 0 ELSE WindowSum(s, last - f.diffN, Smooth(f))

\* A buffer of rawBufferLen values makes one vector, which is the last of those
\* that a window ending with the same values makes: the features of the last
\* lagN + 1 places.
BufferMakesLast(s, f, vectors) ==
    LET buffer == SubSeq(s, Len(s) - RawBufferLen(f) + 1, Len(s))
    IN  /\ Preprocess(buffer, f) = <<Last(vectors)>>
        /\ Last(vectors) =
               [j \in 1..(f.lagN + 1) |-> Feature(s, f, Len(s) - (f.lagN + 1 - j))]
=============================================================================
