------------------------------- MODULE KMeans -------------------------------
(***************************************************************************)
(* One anomaly model (internal/anomaly/model.go): Train's two-means loop   *)
(* over the feature vectors of a series.                                   *)
(*                                                                         *)
(* Values are integers and a centroid is a sum of vectors with their       *)
(* count, so that everything is exact: rounding is left out.  Distances    *)
(* are compared by their squares, except mean distances, which are exact   *)
(* for vectors of one dimension.                                           *)
(***************************************************************************)
EXTENDS FeatureVectors, FiniteSetsExt

CONSTANTS
    Values,         \* the values of a series
    Lengths,        \* how many values a training window may hold
    Features,       \* the settings tried: [diffN, smoothN, lagN]
    MaxIterations   \* the code's constant is 500

\* What Config.Validate lets through, and lag 0 besides, where a mean distance
\* is exact.
ASSUME KMeansAssumption ==
    /\ Values \subseteq Int /\ Lengths \subseteq Nat
    /\ Features \subseteq [diffN : {0, 1}, smoothN : Nat, lagN : Nat]
    /\ MaxIterations \in Nat \ {0}

VARIABLES
    values,     \* the series' values in the training window
    feature,    \* the settings
    vectors,    \* what Train is given
    assign,     \* [vectors -> {0, 1}], as Train's loop left it
    centroid,   \* [{0, 1} -> [sum, n]]
    iter        \* Train's loop variable

trainVars == <<values, feature, vectors, assign, centroid, iter>>

-----------------------------------------------------------------------------
(* Train *)

Square(v) == Sum([i \in DOMAIN v |-> v[i] * v[i]])
Plus(v, w) == [i \in DOMAIN v |-> v[i] + w[i]]
Minus(v, w) == [i \in DOMAIN v |-> v[i] - w[i]]
Times(k, v) == [i \in DOMAIN v |-> k * v[i]]
Distance(v, w) == Square(Minus(v, w))

\* The squared distance to a centroid, times the square of its count.
FromCentroid(v, c) == Distance(Times(c.n, v), c.sum)

\* Mutant: the counts are swapped in the cross-multiplication.
CloserToMore(v, c, d) == FromCentroid(v, c) * c.n * c.n <= FromCentroid(v, d) * d.n * d.n

\* euclidean(v, c) <= euclidean(v, d)
Closer(v, c, d) == FromCentroid(v, c) * d.n * d.n <= FromCentroid(v, d) * c.n * c.n

\* Of an empty cluster it is the previous centroid.
Mean(vs, a, cluster, previous) ==
    LET members == {i \in DOMAIN vs : a[i] = cluster}
    IN  IF members = {} THEN previous
        ELSE [n |-> Cardinality(members),
              sum |-> FoldSet(LAMBDA i, acc : Plus(acc, vs[i]), Times(0, vs[1]), members)]

Farthest(vs) ==
    CHOOSE i \in DOMAIN vs : \A j \in DOMAIN vs :
        \/ Distance(vs[j], vs[1]) < Distance(vs[i], vs[1])
        \/ Distance(vs[j], vs[1]) = Distance(vs[i], vs[1]) /\ i <= j

\* The first vector, and the first of those farthest from it.
InitCentroids(vs) ==
    [k \in {0, 1} |-> [n |-> 1, sum |-> IF k = 0 THEN vs[1] ELSE vs[Farthest(vs)]]]

\* retrainOne trains on two vectors or more.
TrainInit ==
    /\ feature \in Features
    /\ values \in UNION {[1..n -> Values] : n \in Lengths}
    /\ vectors = Preprocess(values, feature)
    /\ Len(vectors) >= 2
    /\ assign = [i \in DOMAIN vectors |-> 0]
    /\ centroid = InitCentroids(vectors)
    /\ iter = 0

Assigned(vs, c) == [i \in DOMAIN vs |-> IF Closer(vs[i], c[0], c[1]) THEN 0 ELSE 1]

\* One round of Train's loop.
Iterate ==
    /\ iter < MaxIterations
    /\ assign' = Assigned(vectors, centroid)
    /\ centroid' = [k \in {0, 1} |-> Mean(vectors, assign', k, centroid[k])]
    /\ iter' = iter + 1
    /\ UNCHANGED <<values, feature, vectors>>

TrainSpec == TrainInit /\ [][Iterate]_trainVars

-----------------------------------------------------------------------------
(* The model's MinDist and MaxDist, for vectors of one dimension *)

Trained == iter = MaxIterations
Abs(x) == IF x < 0 THEN -x ELSE x

\* Mutant: the distance to the nearer centroid.
NearestDistance(v) ==
    Min({Abs(centroid[k].n * v[1] - centroid[k].sum[1]) * centroid[1 - k].n : k \in {0, 1}})

\* meanDistance, times twice the product of the counts.
MeanDistance(v) ==
    Sum([j \in 1..2 |-> Abs(centroid[j - 1].n * v[1] - centroid[j - 1].sum[1])
                            * centroid[2 - j].n])

MinDist == Min({MeanDistance(vectors[i]) : i \in DOMAIN vectors})
MaxDist == Max({MeanDistance(vectors[i]) : i \in DOMAIN vectors})

-----------------------------------------------------------------------------
(* Properties *)

\* Score's buffer and Train's window agree: a buffer of rawBufferLen values
\* makes one vector, which is the one that the window makes for its last
\* value; so a sample is judged by a vector like those trained on.
BufferVectorIsLastTrained == BufferMakesLast(values, feature, vectors)

\* The spread of the vectors around the centroids of the clusters, times the
\* clusters' sizes.
Members(k) == {i \in DOMAIN assign : assign[i] = k}
Size(k) == Max({Cardinality(Members(k)), 1})
Spread(k) == MapThenSumSet(LAMBDA i : FromCentroid(vectors[i], centroid[k]), Members(k))
Cost == Spread(0) * Size(1) * Size(1) + Spread(1) * Size(0) * Size(0)

\* A round never makes the clusters worse, so the loop cannot go round in
\* circles.
CostNeverGrows ==
    [][iter > 0 =>
        Cost' * Size(0) * Size(0) * Size(1) * Size(1)
            <= Cost * Size(0)' * Size(0)' * Size(1)' * Size(1)']_trainVars

\* A model whose training vectors are at most two, however often each occurs,
\* scores every vector 0, as all of them are equally far from the centroids:
\* not only "a perfectly constant training set" (model.go:80-84).  Where mean
\* distances are exact, no other training set does that.  (The rounds are enough:
\* one more would change nothing.)
Distinct == ToSet(vectors)
ScaledDistances(v) ==
    {FromCentroid(v, centroid[k]) * centroid[1 - k].n * centroid[1 - k].n : k \in {0, 1}}
BlindOnTwoVectors ==
    Trained =>
        /\ assign = Assigned(vectors, centroid)
        /\ Cardinality(Distinct) <= 2 =>
              Cardinality({ScaledDistances(v) : v \in Distinct}) = 1
        /\ feature.lagN = 0 => (MaxDist = MinDist <=> Cardinality(Distinct) <= 2)
=============================================================================
