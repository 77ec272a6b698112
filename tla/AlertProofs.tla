----------------------------- MODULE AlertProofs -----------------------------
(***************************************************************************)
(* Theorems about AlertEngine for any rules, any number of goroutines that *)
(* ingest, and any samples.                                                *)
(*                                                                         *)
(* EngineInv is type correctness.  StateInv says that the state of a rule  *)
(* and series is what its verdicts say, in whatever order they came.       *)
(* OrderInv and BagInv relate what was sent, what a goroutine still has to *)
(* send and the verdicts' transitions: as sequences for a series that one  *)
(* goroutine ingests, as bags for any other.  RateInv follows the          *)
(* history of a rule with a window up to the decision that reads it.       *)
(*                                                                         *)
(* All but type correctness need DistinctNames: the engine keys its state  *)
(* by the name of a rule, so two rules of one name share it.               *)
(***************************************************************************)
EXTENDS AlertEngine, FiniteSetTheorems, SequenceTheorems, WellFoundedInduction, TLAPS

-----------------------------------------------------------------------------
(* Numbers and sequences *)

LEMMA LeastOf ==
    ASSUME NEW S, S \subseteq Nat, S # {}
    PROVE  Min(S) \in S /\ \A y \in S : Min(S) <= y
<1>. DEFINE R == OpToRel(<, Nat)
<1>1. PICK x \in S : \A y \in S : <<y, x>> \notin R
  <2>. HIDE DEF R
  <2>1. IsWellFoundedOn(R, Nat)
    BY NatLessThanWellFounded DEF R
  <2>. QED
    BY <2>1, WFMin
<1>2. \A y \in S : ~(y < x)
  BY <1>1 DEF OpToRel
<1>3. \A y \in S : x <= y
  BY <1>2
<1>. QED
  BY <1>3 DEF Min

LEMMA CountAppended ==
    ASSUME NEW S, NEW seq \in Seq(S), NEW y \in S, NEW x
    PROVE  /\ Count(seq, x) \in Nat
           /\ Count(Append(seq, y), x) = Count(seq, x) + (IF x = y THEN 1 ELSE 0)
<1>. DEFINE T == {i \in 1..Len(seq) : seq[i] = x}
            U == {i \in 1..Len(Append(seq, y)) : Append(seq, y)[i] = x}
<1>1. Len(seq) \in Nat
  BY LenProperties
<1>2. IsFiniteSet(T)
  <2>1. IsFiniteSet(1..Len(seq))
    BY <1>1, FS_Interval
  <2>. QED
    BY <2>1, FS_Subset
<1>3. Cardinality(T) \in Nat
  BY <1>2, FS_CardinalityType
<1>4. Len(Append(seq, y)) = Len(seq) + 1 /\ Append(seq, y)[Len(seq) + 1] = y
      /\ \A i \in 1..Len(seq) : Append(seq, y)[i] = seq[i]
  BY AppendProperties
<1>5. CASE x = y
  <2>1. U = T \cup {Len(seq) + 1} /\ Len(seq) + 1 \notin T
    BY <1>1, <1>4, <1>5
  <2>2. Cardinality(U) = Cardinality(T) + 1
    BY <1>2, <2>1, FS_AddElement
  <2>. QED
    BY <1>3, <1>5, <2>2 DEF Count
<1>6. CASE x # y
  <2>1. U = T
    BY <1>1, <1>4, <1>6
  <2>2. Count(Append(seq, y), x) = Count(seq, x) /\ Count(seq, x) \in Nat
    BY <1>3, <2>1 DEF Count
  <2>. QED
    BY <1>6, <2>2
<1>. QED
  BY <1>5, <1>6

-----------------------------------------------------------------------------
(* Types *)

SampleType == [series : Series, time : Nat, value : Int, anomalous : BOOLEAN]
Point == [time : Nat, value : Int]
Verdict == [time : Nat, value : Int, holds : BOOLEAN]
NoticeType == [since : Nat, firing : BOOLEAN]

Evaluations == [stage : {"history", "decide"}, sample : SampleType, rule : 1..Len(Rules),
                hist : Seq(Point)]
Dispatches == [stage : {"notify"}, sample : SampleType, rule : 1..Len(Rules),
               notice : NoticeType, left : (SUBSET Notifiers) \ {{}}]

WorkInv(w, p) ==
    \/ w = Idle
    \/ /\ w \in Evaluations \cup Dispatches
       /\ <<p, w.sample.series>> \in Feeds
       /\ w.stage = "history" => Rules[w.rule].cond.window > 0
       /\ w.stage = "notify" => w.left \subseteq Targets(Rules[w.rule])

StateType == [pendingSince : Nat \cup {-1}, firing : BOOLEAN, since : Nat \cup {-1}, value : Int]

EngineInv ==
    /\ DOMAIN work = Producers /\ \A p \in Producers : WorkInv(work[p], p)
    /\ history \in [Keys -> Seq(Point)]
    /\ taken \in [Keys -> Seq(Point)]
    /\ state \in [Keys -> StateType]
    /\ judged \in [Keys -> Seq(Verdict)]
    /\ notices \in [Keys -> [Notifiers -> Seq(NoticeType)]]
    /\ ingested \in 0..MaxSamples

LEMMA ConditionFields ==
    ASSUME NEW c \in Conditions
    PROVE  /\ c.window \in Nat /\ c.value \in Int
           /\ c.type \in {"threshold", "rate_of_change", "anomaly"}
           /\ c.window > 0 <=> c.type = "rate_of_change"
           /\ c.type # "anomaly" => c.op \in Operators
<1>1. CASE c \in [type : {"threshold"}, op : Operators, value : Int, window : {0}]
  BY <1>1
<1>2. CASE c \in [type : {"rate_of_change"}, op : Operators, value : Int, window : Nat \ {0}]
  BY <1>2
<1>3. CASE c \in [type : {"anomaly"}, op : {""}, value : {0}, window : {0}]
  <2>1. c.type = "anomaly" /\ c.window = 0 /\ c.value = 0
    BY <1>3
  <2>. QED
    BY <2>1
<1>. QED
  BY <1>1, <1>2, <1>3 DEF Conditions

LEMMA RuleFields ==
    ASSUME NEW i \in 1..Len(Rules)
    PROVE  /\ Len(Rules) \in Nat /\ DOMAIN Rules = 1..Len(Rules)
           /\ Rules[i].cond \in Conditions /\ Rules[i].for \in Nat
           /\ Rules[i].notifyTo \subseteq Notifiers
           /\ Rules[i].cond.window \in Nat
           /\ Rules[i].cond.window > 0 <=> Rules[i].cond.type = "rate_of_change"
<1>1. Rules[i] \in [name : STRING, selects : SUBSET Series, cond : Conditions,
                    for : Nat, notifyTo : SUBSET Notifiers]
      /\ Len(Rules) \in Nat /\ DOMAIN Rules = 1..Len(Rules)
  BY AlertAssumption, ElementOfSeq, LenProperties
<1>2. Rules[i].cond.window \in Nat
      /\ (Rules[i].cond.window > 0 <=> Rules[i].cond.type = "rate_of_change")
  BY <1>1, ConditionFields
<1>. QED
  BY <1>1, <1>2

LEMMA WorkFields ==
    ASSUME NEW w, NEW p, WorkInv(w, p)
    PROVE  /\ w.stage \in {"idle", "history", "decide", "notify"}
           /\ w.stage = "idle" <=> w = Idle
           /\ w.stage # "idle" =>
                 /\ w.sample \in SampleType /\ w.rule \in 1..Len(Rules)
                 /\ <<p, w.sample.series>> \in Feeds
                 /\ KeyOf(w) \in Keys /\ KeyOf(w)[2] = w.sample.series
           /\ w.stage = "history" => w \in Evaluations /\ Rules[w.rule].cond.window > 0
           /\ w.stage = "decide" => w \in Evaluations
           /\ w.stage = "notify" => w \in Dispatches /\ w.left \subseteq Targets(Rules[w.rule])
<1>1. CASE w = Idle
  BY <1>1 DEF Idle
<1>2. CASE w # Idle
  <2>1. w \in Evaluations \/ w \in Dispatches
    BY <1>2 DEF WorkInv
  <2>2. w.stage \in {"history", "decide", "notify"} /\ w.sample \in SampleType
        /\ w.rule \in 1..Len(Rules)
    BY <2>1 DEF Evaluations, Dispatches
  <2>3. w.stage \in {"history", "decide"} => w \in Evaluations
    BY <2>1 DEF Dispatches
  <2>4. w.stage = "notify" => w \in Dispatches
    BY <2>1 DEF Evaluations
  <2>5. KeyOf(w) \in Keys /\ KeyOf(w)[2] = w.sample.series
    BY <2>2 DEF KeyOf, Keys, SampleType
  <2>. QED
    BY <1>2, <2>2, <2>3, <2>4, <2>5 DEF WorkInv
<1>. QED
  BY <1>1, <1>2

LEMMA CompareBoolean ==
    ASSUME NEW a \in Int, NEW b \in Int, NEW op \in Operators
    PROVE  Compare(a, op, b) \in BOOLEAN
<1>1. op = ">" \/ op = "<" \/ op = ">=" \/ op = "<=" \/ op = "==" \/ op = "!="
  BY DEF Operators
<1>2. op = ">" => Compare(a, op, b) \in BOOLEAN
  BY DEF Compare
<1>3. op = "<" => Compare(a, op, b) \in BOOLEAN
  BY DEF Compare
<1>4. op = ">=" => Compare(a, op, b) \in BOOLEAN
  BY DEF Compare
<1>5. op = "<=" => Compare(a, op, b) \in BOOLEAN
  BY DEF Compare
<1>6. op = "==" => Compare(a, op, b) \in BOOLEAN
  BY DEF Compare
<1>7. op = "!=" => Compare(a, op, b) \in BOOLEAN
  BY DEF Compare
<1>. QED
  BY <1>1, <1>2, <1>3, <1>4, <1>5, <1>6, <1>7

\* Eval of the three kinds of condition gives a verdict.
LEMMA HoldsBoolean ==
    ASSUME NEW w \in Evaluations PROVE HoldsNow(w) \in BOOLEAN
<1>. DEFINE c == Rules[w.rule].cond
<1>1. c \in Conditions /\ w.sample \in SampleType
  BY RuleFields DEF Evaluations
<1>2. w.sample.value \in Int /\ w.sample.anomalous \in BOOLEAN
  BY <1>1 DEF SampleType
<1>3. c.value \in Int /\ c.type \in {"threshold", "rate_of_change", "anomaly"}
      /\ (c.type # "anomaly" => c.op \in Operators)
  BY <1>1, ConditionFields
<1>4. RateHolds(c, w.sample, w.hist) \in BOOLEAN
  BY DEF RateHolds
<1>5. c.type = "threshold" => Compare(w.sample.value, c.op, c.value) \in BOOLEAN
  BY <1>2, <1>3, CompareBoolean
<1>. HIDE DEF c
<1>6. Holds(c, w.sample, w.hist) \in BOOLEAN
  BY <1>2, <1>3, <1>4, <1>5 DEF Holds
<1>. QED
  BY <1>6 DEF HoldsNow, c

\* updateHistory keeps the newest point.
LEMMA PrunedType ==
    ASSUME NEW h \in Seq(Point), h # <<>>, NEW cutoff \in Int, cutoff <= h[Len(h)].time
    PROVE  /\ Min({i \in 1..Len(h) : ~(h[i].time < cutoff)}) \in 1..Len(h)
           /\ Pruned(h, cutoff) \in Seq(Point)
<1>. DEFINE young == {i \in 1..Len(h) : ~(h[i].time < cutoff)}
<1>1. Len(h) \in Nat \ {0} /\ \A i \in 1..Len(h) : h[i] \in Point
  BY EmptySeq, ElementOfSeq
<1>2. h[Len(h)].time \in Nat
  BY <1>1 DEF Point
<1>3. young # {} /\ young \subseteq Nat
  BY <1>1, <1>2
<1>4. Min(young) \in young
  BY <1>3, LeastOf
<1>. HIDE DEF young
<1>5. Min(young) \in 1..Len(h)
  BY <1>4 DEF young
<1>6. \A i \in Min(young)..Len(h) : h[i] \in Point
  BY <1>1, <1>5
<1>7. SubSeq(h, Min(young), Len(h)) \in Seq(Point)
  BY <1>1, <1>5, <1>6, SubSeqProperties
<1>. QED
  BY <1>5, <1>7 DEF Pruned, young

\* Consume's loop goes on.
LEMMA FromRuleWork ==
    ASSUME NEW sample \in SampleType, NEW i \in Nat \ {0}, NEW p,
           <<p, sample.series>> \in Feeds
    PROVE  /\ WorkInv(FromRule(sample, i), p)
           /\ FromRule(sample, i).stage # "notify"
<1>1. CASE Matching(sample, i) = {}
  BY <1>1 DEF FromRule, WorkInv, Idle
<1>2. CASE Matching(sample, i) # {}
  <2>. DEFINE j == Min(Matching(sample, i))
              w == [stage |-> IF Rules[j].cond.window > 0 THEN "history" ELSE "decide",
                    sample |-> sample, rule |-> j, hist |-> <<>>]
  <2>1. FromRule(sample, i) = w
    BY <1>2 DEF FromRule
  <2>2. j \in 1..Len(Rules)
    <3>1. Matching(sample, i) \subseteq 1..Len(Rules)
      BY RuleFields, AlertAssumption, LenProperties DEF Matching
    <3>2. Matching(sample, i) \subseteq Nat
      BY <3>1
    <3>. QED
      BY <1>2, <3>1, <3>2, LeastOf
  <2>. HIDE DEF j
  <2>3. w \in Evaluations
    BY <2>2, EmptySeq DEF Evaluations
  <2>4. w.sample = sample /\ w.rule = j
        /\ w.stage = IF Rules[j].cond.window > 0 THEN "history" ELSE "decide"
    OBVIOUS
  <2>. QED
    BY <2>1, <2>3, <2>4 DEF WorkInv
<1>. QED
  BY <1>1, <1>2

LEMMA DispatchWork ==
    ASSUME NEW w \in Evaluations, NEW p, <<p, w.sample.series>> \in Feeds,
           NEW since \in Nat, NEW firing \in BOOLEAN
    PROVE  WorkInv(Dispatch(w, since, firing), p)
<1>0. w.sample \in SampleType /\ w.rule \in 1..Len(Rules)
  BY DEF Evaluations
<1>1. CASE Targets(Rules[w.rule]) = {}
  <2>1. w.rule + 1 \in Nat \ {0}
    BY <1>0, RuleFields
  <2>. QED
    BY <1>0, <1>1, <2>1, FromRuleWork DEF Dispatch
<1>2. CASE Targets(Rules[w.rule]) # {}
  <2>. DEFINE d == [stage |-> "notify", sample |-> w.sample, rule |-> w.rule,
                    notice |-> [since |-> since, firing |-> firing],
                    left |-> Targets(Rules[w.rule])]
  <2>1. Dispatch(w, since, firing) = d
    BY <1>2 DEF Dispatch
  <2>2. Targets(Rules[w.rule]) \subseteq Notifiers
    BY <1>0, RuleFields DEF Targets
  <2>3. d \in Dispatches
    BY <1>0, <1>2, <2>2 DEF Dispatches, NoticeType
  <2>4. d.sample = w.sample /\ d.stage = "notify" /\ d.rule = w.rule
        /\ d.left = Targets(Rules[w.rule])
    OBVIOUS
  <2>. QED
    BY <2>1, <2>3, <2>4 DEF WorkInv
<1>. QED
  BY <1>1, <1>2

-----------------------------------------------------------------------------
(* Type correctness *)

\* A step changes the evaluation of one goroutine.
LEMMA OneProducer ==
    ASSUME EngineInv, NEW p \in Producers, NEW w, work' = [work EXCEPT ![p] = w], WorkInv(w, p)
    PROVE  /\ DOMAIN work' = Producers /\ \A q \in Producers : WorkInv(work'[q], q)
           /\ work'[p] = w /\ \A q \in Producers \ {p} : work'[q] = work[q]
BY DEF EngineInv

LEMMA EngineInit == Init => EngineInv
<1>. SUFFICES ASSUME Init PROVE EngineInv
  OBVIOUS
<1>1. DOMAIN work = Producers /\ \A p \in Producers : WorkInv(work[p], p)
  BY DEF Init, WorkInv
<1>2. NoState \in StateType
  BY DEF NoState, StateType
<1>3. <<>> \in Seq(Point) /\ <<>> \in Seq(Verdict) /\ <<>> \in Seq(NoticeType)
  BY EmptySeq
<1>4. [n \in Notifiers |-> <<>>] \in [Notifiers -> Seq(NoticeType)]
  BY <1>3
<1>. QED
  BY <1>1, <1>2, <1>3, <1>4, AlertAssumption DEF Init, EngineInv

LEMMA WorkAt ==
    ASSUME EngineInv, NEW p \in Producers
    PROVE  WorkInv(work[p], p)
BY DEF EngineInv

\* The verdict that evaluate comes to.
VerdictOf(w) == [time |-> w.sample.time, value |-> w.sample.value, holds |-> HoldsNow(w)]

LEMMA Deciding ==
    ASSUME EngineInv, NEW p \in Producers, work[p].stage = "decide"
    PROVE  /\ work[p] \in Evaluations /\ work[p].sample.time \in Nat
           /\ work[p].sample.value \in Int
           /\ work[p].sample \in SampleType /\ work[p].rule \in 1..Len(Rules)
           /\ <<p, work[p].sample.series>> \in Feeds /\ KeyOf(work[p]) \in Keys
           /\ work[p].rule + 1 \in Nat \ {0}
           /\ VerdictOf(work[p]) \in Verdict /\ HoldsNow(work[p]) \in BOOLEAN
<1>1. work[p] \in Evaluations /\ work[p].sample \in SampleType
      /\ work[p].rule \in 1..Len(Rules)
      /\ <<p, work[p].sample.series>> \in Feeds /\ KeyOf(work[p]) \in Keys
  BY WorkAt, WorkFields
<1>2. work[p].sample.time \in Nat /\ work[p].sample.value \in Int
  BY <1>1 DEF SampleType
<1>3. work[p].rule + 1 \in Nat \ {0}
  BY <1>1, RuleFields
<1>4. HoldsNow(work[p]) \in BOOLEAN
  BY <1>1, HoldsBoolean
<1>5. VerdictOf(work[p]) \in Verdict
  BY <1>2, <1>4 DEF VerdictOf, Verdict
<1>. QED
  BY <1>1, <1>2, <1>3, <1>4, <1>5

LEMMA ResetKeepsEngine ==
    ASSUME EngineInv, NEW p \in Producers, Reset(p)
    PROVE  EngineInv'
<1>. DEFINE w == work[p]
            key == KeyOf(work[p])
            next == IF state[key].firing THEN Dispatch(w, w.sample.time, FALSE)
                                         ELSE FromRule(w.sample, w.rule + 1)
<1>1. w.stage = "decide" /\ work' = [work EXCEPT ![p] = next]
      /\ state' = [state EXCEPT ![key] = NoState]
      /\ judged' = [judged EXCEPT ![key] = Append(@, VerdictOf(w))]
      /\ UNCHANGED <<history, ingested, taken, notices>>
  BY DEF Reset, Judge, VerdictOf
<1>2. WorkInv(next, p)
  BY <1>1, Deciding, DispatchWork, FromRuleWork
<1>3. DOMAIN work' = Producers /\ \A q \in Producers : WorkInv(work'[q], q)
  BY <1>1, <1>2, OneProducer
<1>4. state' \in [Keys -> StateType]
  <2>1. NoState \in StateType
    BY DEF NoState, StateType
  <2>. QED
    BY <1>1, <2>1 DEF EngineInv
<1>5. judged' \in [Keys -> Seq(Verdict)]
  <2>1. Append(judged[key], VerdictOf(w)) \in Seq(Verdict)
    BY <1>1, Deciding, AppendProperties DEF EngineInv
  <2>. QED
    BY <1>1, <2>1 DEF EngineInv
<1>. QED
  BY <1>1, <1>3, <1>4, <1>5 DEF EngineInv

LEMMA HoldKeepsEngine ==
    ASSUME EngineInv, NEW p \in Producers, Hold(p)
    PROVE  EngineInv'
<1>. DEFINE w == work[p]
            key == KeyOf(work[p])
            st == state[key]
            pending == IF st.pendingSince = -1 THEN w.sample.time ELSE st.pendingSince
            fires == ~st.firing /\ w.sample.time - pending >= Rules[w.rule].for
            next == IF fires THEN Dispatch(w, pending, TRUE)
                             ELSE FromRule(w.sample, w.rule + 1)
            new == [pendingSince |-> pending, firing |-> st.firing \/ fires,
                    since |-> IF fires THEN pending ELSE st.since, value |-> w.sample.value]
<1>1. w.stage = "decide" /\ work' = [work EXCEPT ![p] = next]
      /\ state' = [state EXCEPT ![key] = new]
      /\ judged' = [judged EXCEPT ![key] = Append(@, VerdictOf(w))]
      /\ UNCHANGED <<history, ingested, taken, notices>>
  BY DEF Hold, Judge, VerdictOf
<1>2. st \in StateType
  BY <1>1, Deciding DEF EngineInv
<1>3. pending \in Nat
  BY <1>1, <1>2, Deciding DEF StateType
<1>4. new \in StateType
  <2>1. st.since \in Nat \cup {-1} /\ st.firing \in BOOLEAN /\ w.sample.value \in Int
    BY <1>1, <1>2, Deciding DEF StateType
  <2>2. (st.firing \/ fires) \in BOOLEAN
    BY <2>1
  <2>. HIDE DEF pending, fires, st, w
  <2>. QED
    BY <1>3, <2>1, <2>2 DEF StateType
<1>5. WorkInv(next, p)
  <2>. HIDE DEF pending, fires
  <2>. QED
    BY <1>1, <1>3, Deciding, DispatchWork, FromRuleWork
<1>6. DOMAIN work' = Producers /\ \A q \in Producers : WorkInv(work'[q], q)
  BY <1>1, <1>5, OneProducer
<1>7. state' \in [Keys -> StateType]
  BY <1>1, <1>4 DEF EngineInv
<1>8. judged' \in [Keys -> Seq(Verdict)]
  <2>1. Append(judged[key], VerdictOf(w)) \in Seq(Verdict)
    BY <1>1, Deciding, AppendProperties DEF EngineInv
  <2>. QED
    BY <1>1, <2>1 DEF EngineInv
<1>. QED
  BY <1>1, <1>6, <1>7, <1>8 DEF EngineInv

LEMMA Remembering ==
    ASSUME EngineInv, NEW p \in Producers, work[p].stage = "history"
    PROVE  LET w == work[p]
               point == [time |-> w.sample.time, value |-> w.sample.value]
               key == KeyOf(w)
               cutoff == w.sample.time - Rules[w.rule].cond.window
           IN  /\ w \in Evaluations /\ key \in Keys /\ point \in Point
               /\ Append(history[key], point) \in Seq(Point)
               /\ Append(history[key], point) # <<>>
               /\ cutoff \in Int
               /\ cutoff <= Append(history[key], point)[Len(Append(history[key], point))].time
               /\ Pruned(Append(history[key], point), cutoff) \in Seq(Point)
<1>. DEFINE w == work[p]
            point == [time |-> w.sample.time, value |-> w.sample.value]
            key == KeyOf(w)
            cutoff == w.sample.time - Rules[w.rule].cond.window
            longer == Append(history[key], point)
<1>1. w \in Evaluations /\ w.sample \in SampleType /\ w.rule \in 1..Len(Rules) /\ key \in Keys
  BY WorkAt, WorkFields
<1>2. w.sample.time \in Nat /\ w.sample.value \in Int /\ Rules[w.rule].cond.window \in Nat
  BY <1>1, RuleFields DEF SampleType
<1>3. point \in Point
  BY <1>2 DEF Point
<1>4. history[key] \in Seq(Point)
  BY <1>1 DEF EngineInv
<1>. HIDE DEF w, key
<1>5. longer \in Seq(Point) /\ longer # <<>> /\ longer[Len(longer)] = point
  <2>1. Len(history[key]) \in Nat
    BY <1>4, LenProperties
  <2>. QED
    BY <1>3, <1>4, <2>1, AppendProperties
<1>6. cutoff \in Int /\ cutoff <= longer[Len(longer)].time
  BY <1>2, <1>5
<1>. HIDE DEF longer, point, cutoff
<1>7. Pruned(longer, cutoff) \in Seq(Point)
  BY <1>5, <1>6, PrunedType
<1>. QED
  BY <1>1, <1>3, <1>5, <1>6, <1>7 DEF w, key, longer, point, cutoff

LEMMA UpdateHistoryKeepsEngine ==
    ASSUME EngineInv, NEW p \in Producers, UpdateHistory(p)
    PROVE  EngineInv'
<1>. DEFINE w == work[p]
            point == [time |-> w.sample.time, value |-> w.sample.value]
            key == KeyOf(w)
            hist == Pruned(Append(history[key], point),
                           w.sample.time - Rules[w.rule].cond.window)
            next == [w EXCEPT !.stage = "decide", !.hist = hist]
<1>1. w.stage = "history" /\ work' = [work EXCEPT ![p] = next]
      /\ history' = [history EXCEPT ![key] = hist]
      /\ taken' = [taken EXCEPT ![key] = Append(@, point)]
      /\ UNCHANGED <<state, ingested, judged, notices>>
  BY DEF UpdateHistory
<1>2. w \in Evaluations /\ key \in Keys /\ hist \in Seq(Point) /\ point \in Point
  BY <1>1, Remembering
<1>. HIDE DEF hist, point
<1>3. WorkInv(next, p)
  <2>1. next \in Evaluations
    BY <1>2 DEF Evaluations
  <2>2. next.sample = w.sample /\ next.rule = w.rule /\ next.stage = "decide"
    BY <1>2 DEF Evaluations
  <2>3. <<p, w.sample.series>> \in Feeds
    BY <1>1, WorkAt, WorkFields
  <2>. QED
    BY <2>1, <2>2, <2>3 DEF WorkInv
<1>4. DOMAIN work' = Producers /\ \A q \in Producers : WorkInv(work'[q], q)
  BY <1>1, <1>3, OneProducer
<1>5. Append(taken[key], point) \in Seq(Point)
  BY <1>2, AppendProperties DEF EngineInv
<1>. QED
  BY <1>1, <1>2, <1>4, <1>5 DEF EngineInv

LEMMA ConsumeKeepsEngine ==
    ASSUME EngineInv, NEW p \in Producers, NEW s \in Series, NEW r \in Readings,
           Consume(p, s, r)
    PROVE  EngineInv'
<1>. DEFINE sample == [series |-> s, time |-> r.time, value |-> r.value,
                       anomalous |-> r.anomalous]
<1>1. work' = [work EXCEPT ![p] = FromRule(sample, 1)] /\ <<p, s>> \in Feeds
      /\ ingested < MaxSamples /\ ingested' = ingested + 1
      /\ UNCHANGED <<history, state, taken, judged, notices>>
  BY DEF Consume
<1>2. sample \in SampleType /\ sample.series = s
  BY AlertAssumption DEF SampleType
<1>. HIDE DEF sample
<1>3. WorkInv(FromRule(sample, 1), p)
  BY <1>1, <1>2, FromRuleWork
<1>4. DOMAIN work' = Producers /\ \A q \in Producers : WorkInv(work'[q], q)
  BY <1>1, <1>3, OneProducer
<1>5. ingested' \in 0..MaxSamples
  BY <1>1, AlertAssumption DEF EngineInv
<1>. QED
  BY <1>1, <1>4, <1>5 DEF EngineInv

LEMMA Notifying ==
    ASSUME EngineInv, NEW p \in Producers, work[p].stage = "notify"
    PROVE  /\ work[p] \in Dispatches /\ KeyOf(work[p]) \in Keys
           /\ work[p].sample \in SampleType /\ work[p].rule \in 1..Len(Rules)
           /\ work[p].notice \in NoticeType /\ work[p].left \subseteq Notifiers
           /\ work[p].rule + 1 \in Nat \ {0}
           /\ <<p, work[p].sample.series>> \in Feeds
           /\ work[p].left \subseteq Targets(Rules[work[p].rule])
<1>1. /\ work[p] \in Dispatches /\ KeyOf(work[p]) \in Keys
      /\ <<p, work[p].sample.series>> \in Feeds
      /\ work[p].left \subseteq Targets(Rules[work[p].rule])
  BY WorkAt, WorkFields
<1>2. /\ work[p].sample \in SampleType /\ work[p].rule \in 1..Len(Rules)
      /\ work[p].notice \in NoticeType /\ work[p].left \subseteq Notifiers
  BY <1>1 DEF Dispatches
<1>3. work[p].rule + 1 \in Nat \ {0}
  BY <1>2, RuleFields
<1>. QED
  BY <1>1, <1>2, <1>3

LEMMA NotifyKeepsEngine ==
    ASSUME EngineInv, NEW p \in Producers, NEW n \in Notifiers, NEW ok \in BOOLEAN,
           Notify(p, n, ok)
    PROVE  EngineInv'
<1>. DEFINE w == work[p]
            next == IF w.left = {n} THEN FromRule(w.sample, w.rule + 1)
                                    ELSE [w EXCEPT !.left = @ \ {n}]
<1>1. w.stage = "notify" /\ n \in w.left /\ work' = [work EXCEPT ![p] = next]
      /\ notices' = [notices EXCEPT ![KeyOf(w)][n] = Append(@, w.notice)]
      /\ UNCHANGED <<history, state, ingested, taken, judged>>
  BY DEF Notify
<1>2. WorkInv(next, p)
  <2>1. CASE w.left = {n}
    BY <1>1, <2>1, Notifying, FromRuleWork
  <2>2. CASE w.left # {n}
    <3>. DEFINE d == [w EXCEPT !.left = @ \ {n}]
    <3>1. w \in Dispatches /\ <<p, w.sample.series>> \in Feeds
          /\ w.left \subseteq Targets(Rules[w.rule])
      BY <1>1, Notifying
    <3>2. w.left \ {n} # {} /\ w.left \ {n} \subseteq Notifiers
      BY <1>1, <2>2, <3>1 DEF Dispatches
    <3>3. d \in Dispatches
      BY <3>1, <3>2 DEF Dispatches
    <3>4. d.sample = w.sample /\ d.rule = w.rule /\ d.stage = "notify" /\ d.left = w.left \ {n}
      BY <1>1, <3>1 DEF Dispatches
    <3>. QED
      BY <2>2, <3>1, <3>3, <3>4 DEF WorkInv
  <2>. QED
    BY <2>1, <2>2
<1>3. DOMAIN work' = Producers /\ \A q \in Producers : WorkInv(work'[q], q)
  BY <1>1, <1>2, OneProducer
<1>4. notices' \in [Keys -> [Notifiers -> Seq(NoticeType)]]
  <2>1. Append(notices[KeyOf(w)][n], w.notice) \in Seq(NoticeType)
    <3>1. KeyOf(w) \in Keys /\ w.notice \in NoticeType
      BY <1>1, Notifying
    <3>2. notices[KeyOf(w)][n] \in Seq(NoticeType)
      BY <3>1 DEF EngineInv
    <3>. QED
      BY <3>1, <3>2, AppendProperties
  <2>. QED
    BY <1>1, <2>1 DEF EngineInv
<1>. QED
  BY <1>1, <1>3, <1>4 DEF EngineInv

LEMMA EngineStep == EngineInv /\ [Next]_vars => EngineInv'
<1>. SUFFICES ASSUME EngineInv, [Next]_vars PROVE EngineInv'
  OBVIOUS
<1>1. CASE UNCHANGED vars
  BY <1>1 DEF vars, EngineInv
<1>2. ASSUME NEW p \in Producers, NEW s \in Series, NEW r \in Readings, Consume(p, s, r)
      PROVE  EngineInv'
  BY <1>2, ConsumeKeepsEngine
<1>3. ASSUME NEW p \in Producers, Evaluate(p) PROVE EngineInv'
  BY <1>3, UpdateHistoryKeepsEngine, ResetKeepsEngine, HoldKeepsEngine, NotifyKeepsEngine
     DEF Evaluate
<1>. QED
  BY <1>1, <1>2, <1>3 DEF Next

LEMMA EngineAlways == Spec => []EngineInv
BY EngineInit, EngineStep, PTL DEF Spec

\* The engine's maps keep their shape, and an evaluation that is under way
\* has a rule, and notifiers left to call while it calls them (engine.go).
THEOREM EngineTypeOK == Spec => []TypeOK
<1>1. EngineInv => TypeOK
  <2>. SUFFICES ASSUME EngineInv PROVE TypeOK
    OBVIOUS
  <2>1. ASSUME NEW p \in Producers, work[p] # Idle
        PROVE  /\ work[p].stage \in {"history", "decide", "notify"}
               /\ work[p].rule \in 1..Len(Rules)
               /\ work[p].stage = "notify" => work[p].left \in (SUBSET Notifiers) \ {{}}
    <3>1. work[p].stage \in {"history", "decide", "notify"} /\ work[p].rule \in 1..Len(Rules)
      BY <2>1, WorkAt, WorkFields
    <3>2. work[p].stage = "notify" => work[p] \in Dispatches
      BY WorkAt, WorkFields
    <3>. QED
      BY <3>1, <3>2 DEF Dispatches
  <2>2. state \in [Keys -> [pendingSince : Int, firing : BOOLEAN, since : Int, value : Int]]
    <3>1. \A x \in StateType :
             x \in [pendingSince : Int, firing : BOOLEAN, since : Int, value : Int]
      BY DEF StateType
    <3>. QED
      BY <3>1 DEF EngineInv
  <2>. QED
    BY <2>1, <2>2 DEF EngineInv, TypeOK, Point
<1>. QED
  BY <1>1, EngineAlways, PTL

-----------------------------------------------------------------------------
(* Runs of verdicts *)

LEMMA VerdictFields ==
    ASSUME NEW v \in Seq(Verdict), NEW i \in 1..Len(v)
    PROVE  /\ Len(v) \in Nat /\ v[i].time \in Nat /\ v[i].value \in Int
           /\ v[i].holds \in BOOLEAN
<1>1. v[i] \in Verdict
  BY ElementOfSeq
<1>. QED
  BY <1>1, LenProperties DEF Verdict

LEMMA FiringBoolean ==
    ASSUME NEW v, NEW d, NEW i PROVE FiringAt(v, d, i) \in BOOLEAN
BY DEF FiringAt

LEMMA StartIs ==
    ASSUME NEW v, NEW i \in Nat \ {0}, v[i].holds
    PROVE  /\ RunStart(v, i) \in 1..i /\ \A m \in RunStart(v, i)..i : v[m].holds
           /\ \A j \in 1..i : (\A m \in j..i : v[m].holds) => RunStart(v, i) <= j
<1>. DEFINE S == {j \in 1..i : \A m \in j..i : v[m].holds}
<1>1. S \subseteq Nat
  OBVIOUS
<1>2. i \in S
  OBVIOUS
<1>3. Min(S) \in S /\ \A j \in S : Min(S) <= j
  BY <1>1, <1>2, LeastOf
<1>. QED
  BY <1>3 DEF RunStart

\* What was judged later changes nothing.
LEMMA SameRun ==
    ASSUME NEW v, NEW u, NEW d, NEW i \in Nat, \A m \in 1..i : u[m] = v[m]
    PROVE  /\ RunStart(u, i) = RunStart(v, i)
           /\ FiringAt(u, d, i) = FiringAt(v, d, i)
           /\ i > 0 => NoticeAt(u, d, i) = NoticeAt(v, d, i)
<1>1. RunStart(u, i) = RunStart(v, i)
  <2>1. {j \in 1..i : \A m \in j..i : u[m].holds} = {j \in 1..i : \A m \in j..i : v[m].holds}
    <3>1. ASSUME NEW j \in 1..i, NEW m \in j..i PROVE u[m] = v[m]
      OBVIOUS
    <3>. QED
      BY <3>1
  <2>. QED
    BY <2>1 DEF RunStart
<1>2. FiringAt(u, d, i) = FiringAt(v, d, i)
  <2>1. CASE i > 0 /\ v[i].holds
    <3>1. RunStart(v, i) \in 1..i
      BY <2>1, StartIs
    <3>2. \A m \in RunStart(v, i)..i : u[m] = v[m]
      BY <3>1
    <3>3. u[i] = v[i] /\ u[RunStart(v, i)] = v[RunStart(v, i)]
      BY <2>1, <3>1
    <3>. HIDE DEF RunStart
    <3>. QED
      BY <1>1, <3>1, <3>2, <3>3 DEF FiringAt
  <2>2. CASE ~(i > 0 /\ v[i].holds)
    <3>1. ~FiringAt(v, d, i)
      BY <2>2 DEF FiringAt
    <3>2. ~FiringAt(u, d, i)
      BY <2>2 DEF FiringAt
    <3>. QED
      BY <3>1, <3>2, FiringBoolean
  <2>. QED
    BY <2>1, <2>2
<1>3. ASSUME i > 0 PROVE NoticeAt(u, d, i) = NoticeAt(v, d, i)
  <2>1. u[i] = v[i]
    BY <1>3
  <2>2. FiringAt(v, d, i) => RunStart(v, i) \in 1..i
    BY <1>3, StartIs DEF FiringAt
  <2>3. FiringAt(v, d, i) => u[RunStart(v, i)] = v[RunStart(v, i)]
    BY <2>2
  <2>. QED
    BY <1>1, <1>2, <2>1, <2>3 DEF NoticeAt
<1>. QED
  BY <1>1, <1>2, <1>3

\* One verdict more: the run goes on, or one begins, or there is none.
LEMMA RunGoesOn ==
    ASSUME NEW u, NEW d \in Nat, NEW n \in Nat, \A i \in 1..(n + 1) : u[i].time \in Nat
    PROVE  /\ ~u[n + 1].holds => ~FiringAt(u, d, n + 1)
           /\ u[n + 1].holds /\ n > 0 /\ u[n].holds => RunStart(u, n + 1) = RunStart(u, n)
           /\ u[n + 1].holds /\ ~(n > 0 /\ u[n].holds) => RunStart(u, n + 1) = n + 1
           /\ u[n + 1].holds =>
                 (FiringAt(u, d, n + 1) <=>
                     \/ FiringAt(u, d, n)
                     \/ u[n + 1].time - u[RunStart(u, n + 1)].time >= d)
<1>1. ~u[n + 1].holds => ~FiringAt(u, d, n + 1)
  BY DEF FiringAt
<1>2. ASSUME u[n + 1].holds, n > 0, u[n].holds
      PROVE  /\ RunStart(u, n + 1) = RunStart(u, n)
             /\ FiringAt(u, d, n + 1) <=>
                     \/ FiringAt(u, d, n)
                     \/ u[n + 1].time - u[RunStart(u, n + 1)].time >= d
  <2>. DEFINE a == RunStart(u, n)
              b == RunStart(u, n + 1)
  <2>1. a \in 1..n /\ (\A m \in a..n : u[m].holds)
        /\ \A j \in 1..n : (\A m \in j..n : u[m].holds) => a <= j
    BY <1>2, StartIs
  <2>2. b \in 1..(n + 1) /\ (\A m \in b..(n + 1) : u[m].holds)
        /\ \A j \in 1..(n + 1) : (\A m \in j..(n + 1) : u[m].holds) => b <= j
    <3>1. n + 1 \in Nat \ {0}
      OBVIOUS
    <3>. QED
      BY <1>2, <3>1, StartIs
  <2>. HIDE DEF a, b
  <2>3. \A m \in a..(n + 1) : u[m].holds
    BY <1>2, <2>1
  <2>4. b <= a
    BY <2>1, <2>2, <2>3
  <2>5. b \in 1..n /\ \A m \in b..n : u[m].holds
    BY <2>1, <2>2, <2>4
  <2>6. a = b
    BY <2>1, <2>2, <2>4, <2>5
  <2>7. FiringAt(u, d, n + 1) <=> \E m \in a..(n + 1) : u[m].time - u[a].time >= d
    BY <1>2, <2>6 DEF FiringAt, a, b
  <2>8. FiringAt(u, d, n) <=> \E m \in a..n : u[m].time - u[a].time >= d
    BY <1>2 DEF FiringAt, a
  <2>9. (\E m \in a..(n + 1) : u[m].time - u[a].time >= d)
           <=> (\E m \in a..n : u[m].time - u[a].time >= d) \/ u[n + 1].time - u[a].time >= d
    <3>1. a..(n + 1) = (a..n) \cup {n + 1}
      BY <2>1
    <3>. QED
      BY <3>1
  <2>. QED
    BY <2>6, <2>7, <2>8, <2>9 DEF a, b
<1>3. ASSUME u[n + 1].holds, ~(n > 0 /\ u[n].holds)
      PROVE  /\ RunStart(u, n + 1) = n + 1
             /\ FiringAt(u, d, n + 1) <=>
                     \/ FiringAt(u, d, n)
                     \/ u[n + 1].time - u[RunStart(u, n + 1)].time >= d
  <2>. DEFINE b == RunStart(u, n + 1)
  <2>1. b \in 1..(n + 1) /\ \A m \in b..(n + 1) : u[m].holds
    <3>1. n + 1 \in Nat \ {0}
      OBVIOUS
    <3>. QED
      BY <1>3, <3>1, StartIs
  <2>. HIDE DEF b
  <2>2. b = n + 1
    <3>. SUFFICES ASSUME b # n + 1 PROVE FALSE
      OBVIOUS
    <3>1. n > 0 /\ n \in b..(n + 1)
      BY <2>1
    <3>. QED
      BY <1>3, <2>1, <3>1
  <2>3. ~FiringAt(u, d, n)
    BY <1>3 DEF FiringAt
  <2>4. FiringAt(u, d, n + 1) <=> \E m \in (n + 1)..(n + 1) : u[m].time - u[n + 1].time >= d
    BY <1>3, <2>2 DEF FiringAt, b
  <2>5. (n + 1)..(n + 1) = {n + 1}
    OBVIOUS
  <2>. QED
    BY <2>2, <2>3, <2>4, <2>5 DEF b
<1>. QED
  BY <1>1, <1>2, <1>3

LEMMA OneMore ==
    ASSUME NEW v \in Seq(Verdict), NEW x \in Verdict, NEW d
    PROVE  LET u == Append(v, x)
               n == Len(v)
           IN  /\ n \in Nat /\ u \in Seq(Verdict) /\ Len(u) = n + 1 /\ u[n + 1] = x
               /\ \A i \in 1..n : u[i] = v[i]
               /\ \A i \in 1..(n + 1) : u[i].time \in Nat
               /\ RunStart(u, n) = RunStart(v, n) /\ FiringAt(u, d, n) = FiringAt(v, d, n)
               /\ n > 0 => u[n].holds = v[n].holds
               /\ n > 0 /\ v[n].holds =>
                     /\ RunStart(v, n) \in 1..n
                     /\ u[RunStart(v, n)] = v[RunStart(v, n)]
                     /\ v[RunStart(v, n)].time \in Nat
<1>. DEFINE u == Append(v, x)
            n == Len(v)
<1>1. n \in Nat /\ u \in Seq(Verdict) /\ Len(u) = n + 1 /\ u[n + 1] = x
      /\ \A i \in 1..n : u[i] = v[i]
  BY LenProperties, AppendProperties
<1>. HIDE DEF u
<1>2. \A i \in 1..(n + 1) : u[i].time \in Nat
  BY <1>1, VerdictFields
<1>3. RunStart(u, n) = RunStart(v, n) /\ FiringAt(u, d, n) = FiringAt(v, d, n)
  BY <1>1, SameRun
<1>4. n > 0 => u[n] = v[n]
  BY <1>1
<1>5. n > 0 /\ v[n].holds =>
                     /\ RunStart(v, n) \in 1..n
                     /\ u[RunStart(v, n)] = v[RunStart(v, n)]
                     /\ v[RunStart(v, n)].time \in Nat
  BY <1>1, StartIs, VerdictFields
<1>. QED
  BY <1>1, <1>2, <1>3, <1>4, <1>5 DEF u

-----------------------------------------------------------------------------
(* The state of a key is what its verdicts say *)

\* The state st after the verdicts v, of a rule with the given "for".
StateAs(st, v, for) ==
    LET n == Len(v)
    IN  /\ st.firing = FiringAt(v, for, n)
        /\ n > 0 /\ v[n].holds =>
              st.pendingSince = v[RunStart(v, n)].time /\ st.value = v[n].value
        /\ ~(n > 0 /\ v[n].holds) => st.pendingSince = -1
        /\ st.firing => st.since = v[RunStart(v, n)].time

LEMMA FirstState ==
    ASSUME NEW d \in Nat, NEW v, Len(v) = 0 PROVE StateAs(NoState, v, d)
<1>1. ~FiringAt(v, d, 0)
  BY DEF FiringAt
<1>2. NoState.firing = FALSE /\ NoState.pendingSince = -1
  BY DEF NoState
<1>3. NoState.firing = FiringAt(v, d, 0)
  BY <1>1, <1>2, FiringBoolean, Zenon
<1>4. ~(Len(v) > 0)
  OBVIOUS
<1>5. NoState.firing = FiringAt(v, d, Len(v))
  BY <1>3
<1>. QED
  BY <1>2, <1>4, <1>5, Zenon DEF StateAs

\* evaluate, when the condition does not hold.
LEMMA StateReset ==
    ASSUME NEW v \in Seq(Verdict), NEW x \in Verdict, ~x.holds, NEW d \in Nat,
           NEW st, StateAs(st, v, d)
    PROVE  /\ StateAs(NoState, Append(v, x), d)
           /\ st.firing <=> FiringAt(Append(v, x), d, Len(v) + 1)
                               # FiringAt(Append(v, x), d, Len(v))
           /\ NoticeAt(Append(v, x), d, Len(v) + 1) = [since |-> x.time, firing |-> FALSE]
<1>. DEFINE u == Append(v, x)
            n == Len(v)
<1>1. n \in Nat /\ Len(u) = n + 1 /\ u[n + 1] = x
      /\ FiringAt(u, d, n) = FiringAt(v, d, n) /\ \A i \in 1..(n + 1) : u[i].time \in Nat
  BY OneMore
<1>. HIDE DEF u
<1>2. ~FiringAt(u, d, n + 1)
  BY <1>1, RunGoesOn
<1>3. FALSE = FiringAt(u, d, n + 1)
  BY <1>2, FiringBoolean
<1>4. NoState.firing = FALSE /\ NoState.pendingSince = -1
  BY DEF NoState
<1>5. StateAs(NoState, u, d)
  BY <1>1, <1>3, <1>4 DEF StateAs
<1>6. st.firing = FiringAt(u, d, n)
  BY <1>1 DEF StateAs
<1>7. NoticeAt(u, d, n + 1) = [since |-> x.time, firing |-> FALSE]
  BY <1>1, <1>2 DEF NoticeAt
<1>8. st.firing <=> FiringAt(u, d, n + 1) # FiringAt(u, d, n)
  BY <1>2, <1>6, FiringBoolean, Zenon
<1>. QED
  BY <1>5, <1>7, <1>8 DEF u

\* evaluate, when the condition holds.
LEMMA StateHeld ==
    ASSUME NEW v \in Seq(Verdict), NEW x \in Verdict, x.holds, NEW d \in Nat,
           NEW st \in StateType, StateAs(st, v, d),
           NEW pending, pending = IF st.pendingSince = -1 THEN x.time ELSE st.pendingSince,
           NEW fires \in BOOLEAN, fires <=> ~st.firing /\ x.time - pending >= d,
           NEW new, new.pendingSince = pending, new.firing = (st.firing \/ fires),
           new.since = IF fires THEN pending ELSE st.since, new.value = x.value
    PROVE  /\ StateAs(new, Append(v, x), d)
           /\ fires <=> FiringAt(Append(v, x), d, Len(v) + 1)
                           # FiringAt(Append(v, x), d, Len(v))
           /\ fires => NoticeAt(Append(v, x), d, Len(v) + 1)
                           = [since |-> pending, firing |-> TRUE]
<1>. DEFINE u == Append(v, x)
            n == Len(v)
            start == RunStart(u, n + 1)
            old == FiringAt(v, d, n)
<1>1. /\ n \in Nat /\ Len(u) = n + 1 /\ u[n + 1] = x
      /\ FiringAt(u, d, n) = old /\ \A i \in 1..(n + 1) : u[i].time \in Nat
      /\ RunStart(u, n) = RunStart(v, n)
      /\ n > 0 => u[n].holds = v[n].holds
      /\ n > 0 /\ v[n].holds =>
            /\ u[RunStart(v, n)] = v[RunStart(v, n)]
            /\ v[RunStart(v, n)].time \in Nat
  BY OneMore
<1>2. st.firing = old /\ st.firing \in BOOLEAN /\ old \in BOOLEAN
  BY FiringBoolean DEF StateAs, StateType
<1>3. n > 0 /\ v[n].holds => st.pendingSince = v[RunStart(v, n)].time
  BY DEF StateAs
<1>4. ~(n > 0 /\ v[n].holds) => st.pendingSince = -1
  BY DEF StateAs
<1>. HIDE DEF u
<1>5. n > 0 /\ v[n].holds => start = RunStart(v, n)
  BY <1>1, RunGoesOn
<1>6. ~(n > 0 /\ v[n].holds) => start = n + 1
  <2>1. ~(n > 0 /\ v[n].holds) => ~(n > 0 /\ u[n].holds)
    BY <1>1
  <2>. QED
    BY <1>1, <2>1, RunGoesOn
<1>7. FiringAt(u, d, n + 1) <=> old \/ x.time - u[start].time >= d
  BY <1>1, RunGoesOn
<1>. HIDE DEF start, old
<1>8. pending = u[start].time
  <2>1. CASE n > 0 /\ v[n].holds
    <3>1. st.pendingSince = v[RunStart(v, n)].time /\ st.pendingSince # -1
      BY <1>1, <1>3, <2>1
    <3>. QED
      BY <1>1, <1>5, <2>1, <3>1
  <2>2. CASE ~(n > 0 /\ v[n].holds)
    BY <1>1, <1>4, <1>6, <2>2
  <2>. QED
    BY <2>1, <2>2
<1>9. FiringAt(u, d, n + 1) <=> old \/ fires
  <2>1. fires <=> ~old /\ x.time - pending >= d
    BY <1>2
  <2>. QED
    BY <1>7, <1>8, <2>1
<1>10. new.firing = FiringAt(u, d, n + 1)
  BY <1>2, <1>9, FiringBoolean, Zenon
<1>11. new.firing => new.since = u[start].time
  <2>1. CASE fires
    BY <1>8, <2>1
  <2>2. CASE ~fires
    <3>1. new.firing = st.firing
      BY <1>2, <2>2
    <3>2. st.firing => n > 0 /\ v[n].holds
      BY <1>2 DEF old, FiringAt
    <3>3. st.firing => st.since = v[RunStart(v, n)].time
      BY DEF StateAs
    <3>. QED
      BY <1>1, <1>5, <2>2, <3>1, <3>2, <3>3
  <2>. QED
    BY <2>1, <2>2
<1>12. StateAs(new, u, d)
  BY <1>1, <1>8, <1>10, <1>11 DEF StateAs, start
<1>13. fires <=> FiringAt(u, d, n + 1) # FiringAt(u, d, n)
  <2>1. fires => ~old
    BY <1>2
  <2>. QED
    BY <1>1, <1>2, <1>9, <2>1, FiringBoolean, Zenon
<1>14. fires => NoticeAt(u, d, n + 1) = [since |-> pending, firing |-> TRUE]
  BY <1>8, <1>9 DEF NoticeAt, start
<1>. QED
  BY <1>12, <1>13, <1>14 DEF u

LEMMA RuleOfKey ==
    ASSUME NEW key \in Keys
    PROVE  /\ \E i \in 1..Len(Rules) : RuleOf(key) = Rules[i] /\ Rules[i].name = key[1]
           /\ RuleOf(key).for \in Nat
<1>1. PICK j \in 1..Len(Rules), s \in Series : key = <<Rules[j].name, s>>
  BY DEF Keys
<1>2. DOMAIN Rules = 1..Len(Rules)
  BY AlertAssumption, LenProperties
<1>3. Rules[j] \in ToSet(Rules) /\ Rules[j].name = key[1]
  BY <1>1, <1>2 DEF ToSet
<1>4. RuleOf(key) \in ToSet(Rules) /\ RuleOf(key).name = key[1]
  BY <1>3 DEF RuleOf
<1>5. PICK i \in 1..Len(Rules) : RuleOf(key) = Rules[i]
  BY <1>2, <1>4 DEF ToSet
<1>6. Rules[i].for \in Nat
  BY RuleFields
<1>. QED
  BY <1>4, <1>5, <1>6

LEMMA RuleOfWork ==
    ASSUME DistinctNames, NEW w, w.rule \in 1..Len(Rules), KeyOf(w) \in Keys
    PROVE  RuleOf(KeyOf(w)) = Rules[w.rule]
<1>1. KeyOf(w)[1] = Rules[w.rule].name
  BY DEF KeyOf
<1>2. PICK i \in 1..Len(Rules) : RuleOf(KeyOf(w)) = Rules[i] /\ Rules[i].name = KeyOf(w)[1]
  BY RuleOfKey
<1>. QED
  BY <1>1, <1>2 DEF DistinctNames

StateInv == \A key \in Keys : StateAs(state[key], judged[key], RuleOf(key).for)

LEMMA StateOf ==
    ASSUME StateInv, NEW key \in Keys
    PROVE  StateAs(state[key], judged[key], RuleOf(key).for)
BY DEF StateInv

\* evaluate as a whole: the state is what the verdicts with the new one say,
\* and the notifiers are called just when this one changed what they say.
Decision(p) ==
    LET w == work[p]
        key == KeyOf(w)
        d == RuleOf(key).for
        u == Append(judged[key], VerdictOf(w))
        n == Len(judged[key])
        moved == FiringAt(u, d, n + 1) # FiringAt(u, d, n)
    IN  /\ w.stage = "decide"
        /\ judged' = [judged EXCEPT ![key] = u]
        /\ \E st : state' = [state EXCEPT ![key] = st] /\ StateAs(st, u, d)
        /\ work' = [work EXCEPT ![p] =
               IF moved /\ Targets(RuleOf(key)) # {}
               THEN [stage |-> "notify", sample |-> w.sample, rule |-> w.rule,
                     notice |-> NoticeAt(u, d, n + 1), left |-> Targets(RuleOf(key))]
               ELSE FromRule(w.sample, w.rule + 1)]
        /\ UNCHANGED <<history, ingested, taken, notices>>

LEMMA ResetDecides ==
    ASSUME EngineInv, DistinctNames, StateInv, NEW p \in Producers, Reset(p)
    PROVE  Decision(p)
<1>. DEFINE w == work[p]
            key == KeyOf(w)
            d == RuleOf(key).for
            x == VerdictOf(w)
            v == judged[key]
            n == Len(v)
            u == Append(v, x)
            st == state[key]
<1>1. w.stage = "decide" /\ ~HoldsNow(w)
      /\ work' = [work EXCEPT ![p] = IF st.firing THEN Dispatch(w, w.sample.time, FALSE)
                                                  ELSE FromRule(w.sample, w.rule + 1)]
      /\ state' = [state EXCEPT ![key] = NoState]
      /\ judged' = [judged EXCEPT ![key] = u]
      /\ UNCHANGED <<history, ingested, taken, notices>>
  BY DEF Reset, Judge, VerdictOf
<1>2. key \in Keys /\ x \in Verdict /\ RuleOf(key) = Rules[w.rule]
  BY <1>1, Deciding, RuleOfWork
<1>3. ~x.holds /\ x.time = w.sample.time
  BY <1>1 DEF VerdictOf
<1>4. d \in Nat /\ StateAs(st, v, d) /\ v \in Seq(Verdict)
  BY <1>2, RuleOfKey, StateOf DEF EngineInv
<1>5. w.stage = "decide"
  BY <1>1
<1>. HIDE DEF w, key, d, x, v, st
<1>6. /\ StateAs(NoState, u, d)
      /\ st.firing <=> FiringAt(u, d, n + 1) # FiringAt(u, d, n)
      /\ NoticeAt(u, d, n + 1) = [since |-> x.time, firing |-> FALSE]
  BY <1>2, <1>3, <1>4, StateReset
<1>. DEFINE moved == FiringAt(u, d, n + 1) # FiringAt(u, d, n)
            next == IF moved /\ Targets(RuleOf(key)) # {}
                    THEN [stage |-> "notify", sample |-> w.sample, rule |-> w.rule,
                          notice |-> NoticeAt(u, d, n + 1), left |-> Targets(RuleOf(key))]
                    ELSE FromRule(w.sample, w.rule + 1)
<1>7. Dispatch(w, w.sample.time, FALSE) =
         IF Targets(RuleOf(key)) # {}
         THEN [stage |-> "notify", sample |-> w.sample, rule |-> w.rule,
               notice |-> NoticeAt(u, d, n + 1), left |-> Targets(RuleOf(key))]
         ELSE FromRule(w.sample, w.rule + 1)
  BY <1>2, <1>3, <1>6 DEF Dispatch
<1>8. (IF st.firing THEN Dispatch(w, w.sample.time, FALSE)
                    ELSE FromRule(w.sample, w.rule + 1)) = next
  <2>1. CASE st.firing
    BY <1>6, <1>7, <2>1
  <2>2. CASE ~st.firing
    BY <1>6, <2>2
  <2>. QED
    BY <2>1, <2>2
<1>9. work' = [work EXCEPT ![p] = next]
  BY <1>1, <1>8
<1>. QED
  BY <1>1, <1>6, <1>9 DEF Decision, w, key, d, x, v, st

LEMMA HoldDecides ==
    ASSUME EngineInv, DistinctNames, StateInv, NEW p \in Producers, Hold(p)
    PROVE  Decision(p)
<1>. DEFINE w == work[p]
            key == KeyOf(w)
            d == RuleOf(key).for
            x == VerdictOf(w)
            v == judged[key]
            n == Len(v)
            u == Append(v, x)
            st == state[key]
            pending == IF st.pendingSince = -1 THEN w.sample.time ELSE st.pendingSince
            fires == ~st.firing /\ w.sample.time - pending >= Rules[w.rule].for
            new == [pendingSince |-> pending, firing |-> st.firing \/ fires,
                    since |-> IF fires THEN pending ELSE st.since, value |-> w.sample.value]
<1>1. w.stage = "decide" /\ HoldsNow(w)
      /\ work' = [work EXCEPT ![p] = IF fires THEN Dispatch(w, pending, TRUE)
                                              ELSE FromRule(w.sample, w.rule + 1)]
      /\ state' = [state EXCEPT ![key] = new]
      /\ judged' = [judged EXCEPT ![key] = u]
      /\ UNCHANGED <<history, ingested, taken, notices>>
  BY DEF Hold, Judge, VerdictOf
<1>2. key \in Keys /\ x \in Verdict /\ RuleOf(key) = Rules[w.rule]
  BY <1>1, Deciding, RuleOfWork
<1>3. x.holds /\ x.time = w.sample.time /\ x.value = w.sample.value
  BY <1>1 DEF VerdictOf
<1>4. d \in Nat /\ StateAs(st, v, d) /\ v \in Seq(Verdict) /\ st \in StateType
  BY <1>2, RuleOfKey, StateOf DEF EngineInv
<1>5. st.firing \in BOOLEAN /\ d = Rules[w.rule].for
  BY <1>2, <1>4 DEF StateType
<1>. HIDE DEF w, key, d, x, v, st
<1>6. /\ fires \in BOOLEAN
      /\ fires <=> ~st.firing /\ x.time - pending >= d
      /\ pending = IF st.pendingSince = -1 THEN x.time ELSE st.pendingSince
  BY <1>3, <1>5
<1>7. /\ new.pendingSince = pending /\ new.firing = (st.firing \/ fires)
      /\ new.since = (IF fires THEN pending ELSE st.since) /\ new.value = x.value
  <2>. HIDE DEF pending, fires
  <2>. QED
    BY <1>3
<1>. HIDE DEF pending, fires, new
<1>8. /\ StateAs(new, u, d)
      /\ fires <=> FiringAt(u, d, n + 1) # FiringAt(u, d, n)
      /\ fires => NoticeAt(u, d, n + 1) = [since |-> pending, firing |-> TRUE]
  BY <1>2, <1>3, <1>4, <1>6, <1>7, StateHeld
<1>. DEFINE moved == FiringAt(u, d, n + 1) # FiringAt(u, d, n)
            next == IF moved /\ Targets(RuleOf(key)) # {}
                    THEN [stage |-> "notify", sample |-> w.sample, rule |-> w.rule,
                          notice |-> NoticeAt(u, d, n + 1), left |-> Targets(RuleOf(key))]
                    ELSE FromRule(w.sample, w.rule + 1)
<1>9. (IF fires THEN Dispatch(w, pending, TRUE) ELSE FromRule(w.sample, w.rule + 1)) = next
  <2>1. CASE fires
    BY <1>2, <1>8, <2>1 DEF Dispatch
  <2>2. CASE ~fires
    BY <1>8, <2>2
  <2>. QED
    BY <2>1, <2>2
<1>10. work' = [work EXCEPT ![p] = next]
  BY <1>1, <1>9
<1>. QED
  BY <1>1, <1>8, <1>10 DEF Decision, w, key, d, x, v, st

LEMMA Decides ==
    ASSUME EngineInv, DistinctNames, StateInv, NEW p \in Producers, Decision(p)
    PROVE  LET w == work[p]
               key == KeyOf(w)
               v == judged[key]
               u == Append(v, VerdictOf(w))
           IN  /\ key \in Keys /\ v \in Seq(Verdict) /\ VerdictOf(w) \in Verdict
               /\ judged'[key] = u /\ \A k \in Keys \ {key} : judged'[k] = judged[k]
               /\ StateAs(state'[key], u, RuleOf(key).for)
               /\ \A k \in Keys \ {key} : state'[k] = state[k]
<1>. DEFINE w == work[p]
            key == KeyOf(w)
            v == judged[key]
            u == Append(v, VerdictOf(w))
<1>1. w.stage = "decide" /\ judged' = [judged EXCEPT ![key] = u]
  BY DEF Decision
<1>2. PICK st : state' = [state EXCEPT ![key] = st] /\ StateAs(st, u, RuleOf(key).for)
  BY DEF Decision
<1>3. key \in Keys /\ VerdictOf(w) \in Verdict
  BY <1>1, Deciding
<1>4. v \in Seq(Verdict) /\ DOMAIN judged = Keys /\ DOMAIN state = Keys
  BY <1>3 DEF EngineInv
<1>. HIDE DEF w, key, u
<1>. QED
  BY <1>1, <1>2, <1>3, <1>4 DEF w, key, u

LEMMA DecisionSteps ==
    ASSUME EngineInv, DistinctNames, StateInv, [Next]_vars
    PROVE  \/ UNCHANGED vars
           \/ \E p \in Producers, s \in Series, r \in Readings : Consume(p, s, r)
           \/ \E p \in Producers : UpdateHistory(p)
           \/ \E p \in Producers : Decision(p)
           \/ \E p \in Producers, n \in Notifiers, ok \in BOOLEAN : Notify(p, n, ok)
BY ResetDecides, HoldDecides DEF Next, Evaluate

LEMMA StateInit == Init => StateInv
<1>. SUFFICES ASSUME Init, NEW key \in Keys
     PROVE  StateAs(state[key], judged[key], RuleOf(key).for)
  BY DEF StateInv
<1>1. state[key] = NoState /\ judged[key] = <<>> /\ Len(<<>>) = 0
  BY DEF Init
<1>2. RuleOf(key).for \in Nat
  BY RuleOfKey
<1>. QED
  BY <1>1, <1>2, FirstState

LEMMA StateStep ==
    ASSUME DistinctNames, EngineInv, StateInv, [Next]_vars PROVE StateInv'
<1>1. ASSUME UNCHANGED <<state, judged>> PROVE StateInv'
  BY <1>1 DEF StateInv
<1>2. ASSUME NEW p \in Producers, Decision(p) PROVE StateInv'
  <2>. SUFFICES ASSUME NEW k \in Keys
       PROVE  StateAs(state'[k], judged'[k], RuleOf(k).for)
    BY DEF StateInv
  <2>1. CASE k = KeyOf(work[p])
    BY <1>2, <2>1, Decides
  <2>2. CASE k # KeyOf(work[p])
    BY <1>2, <2>2, Decides, StateOf
  <2>. QED
    BY <2>1, <2>2
<1>3. CASE UNCHANGED vars
  BY <1>1, <1>3 DEF vars
<1>4. CASE \E p \in Producers, s \in Series, r \in Readings : Consume(p, s, r)
  BY <1>1, <1>4 DEF Consume
<1>5. CASE \E p \in Producers : UpdateHistory(p)
  BY <1>1, <1>5 DEF UpdateHistory
<1>6. CASE \E p \in Producers, n \in Notifiers, ok \in BOOLEAN : Notify(p, n, ok)
  BY <1>1, <1>6 DEF Notify
<1>. QED
  BY <1>2, <1>3, <1>4, <1>5, <1>6, DecisionSteps

LEMMA StateAlways == ASSUME DistinctNames PROVE Spec => [](EngineInv /\ StateInv)
<1>1. Init => EngineInv /\ StateInv
  BY EngineInit, StateInit
<1>2. EngineInv /\ StateInv /\ [Next]_vars => (EngineInv /\ StateInv)'
  BY EngineStep, StateStep
<1>. QED
  BY <1>1, <1>2, PTL DEF Spec

\* The list of the API is what the verdicts say, however the evaluations of
\* several goroutines interleave between the two times each of them holds e.mu
\* and in whatever order their samples' times come (Alerts, engine.go).
THEOREM AlertsAlwaysLongRuns ==
    ASSUME DistinctNames PROVE Spec => []AlertsAreLongRuns
<1>1. EngineInv /\ StateInv => AlertsAreLongRuns
  <2>. SUFFICES ASSUME EngineInv, StateInv PROVE AlertsAreLongRuns
    OBVIOUS
  <2>. DEFINE fired(k) == FiringAt(judged[k], RuleOf(k).for, Len(judged[k]))
              listed(k) == [key |-> k, since |-> state[k].since, value |-> state[k].value]
              due(k) == [key |-> k,
                         since |-> judged[k][RunStart(judged[k], Len(judged[k]))].time,
                         value |-> Last(judged[k]).value]
  <2>1. ASSUME NEW k \in Keys PROVE state[k].firing <=> fired(k)
    BY StateOf DEF StateAs
  <2>2. ASSUME NEW k \in Keys, state[k].firing PROVE listed(k) = due(k)
    <3>1. StateAs(state[k], judged[k], RuleOf(k).for)
      BY StateOf
    <3>2. Len(judged[k]) > 0 /\ judged[k][Len(judged[k])].holds
      BY <2>1, <2>2 DEF FiringAt
    <3>3. state[k].since = judged[k][RunStart(judged[k], Len(judged[k]))].time
          /\ state[k].value = judged[k][Len(judged[k])].value
      BY <2>2, <3>1, <3>2 DEF StateAs
    <3>. QED
      BY <3>3 DEF Last
  <2>. HIDE DEF fired, listed, due
  <2>3. {listed(k) : k \in {j \in Keys : state[j].firing}}
           = {due(k) : k \in {j \in Keys : fired(j)}}
    BY <2>1, <2>2
  <2>. QED
    BY <2>3 DEF Alerts, AlertsAreLongRuns, fired, listed, due
<1>. QED
  BY <1>1, StateAlways, PTL

-----------------------------------------------------------------------------
(* One verdict more: the transitions, and what is notified of them *)

Upto(S, i) == {j \in S : j <= i}

LEMMA TransitionsFinite ==
    ASSUME NEW v \in Seq(Verdict), NEW d
    PROVE  /\ Len(v) \in Nat /\ Transitions(v, d) \subseteq 1..Len(v)
           /\ IsFiniteSet(Transitions(v, d)) /\ Cardinality(Transitions(v, d)) \in Nat
           /\ \A i : /\ IsFiniteSet(Upto(Transitions(v, d), i))
                     /\ Cardinality(Upto(Transitions(v, d), i)) \in Nat
                     /\ Cardinality(Upto(Transitions(v, d), i)) <= Cardinality(Transitions(v, d))
<1>1. Len(v) \in Nat /\ Transitions(v, d) \subseteq 1..Len(v)
  BY LenProperties DEF Transitions
<1>2. IsFiniteSet(1..Len(v))
  BY <1>1, FS_Interval
<1>3. IsFiniteSet(Transitions(v, d))
  BY <1>1, <1>2, FS_Subset
<1>4. ASSUME NEW i PROVE Upto(Transitions(v, d), i) \subseteq Transitions(v, d)
  BY DEF Upto
<1>. QED
  BY <1>1, <1>3, <1>4, FS_Subset, FS_CardinalityType

\* Each transition has a place in the order.
Ranked(v, d) ==
    \A n \in 1..Cardinality(Transitions(v, d)) :
        Nth(Transitions(v, d), n) \in Transitions(v, d)

LEMMA TransitionsGrow ==
    ASSUME NEW v \in Seq(Verdict), NEW x \in Verdict, NEW d
    PROVE  LET u == Append(v, x)
               n == Len(v)
           IN  Transitions(u, d) = IF FiringAt(u, d, n + 1) # FiringAt(u, d, n)
                                   THEN Transitions(v, d) \cup {n + 1} ELSE Transitions(v, d)
<1>. DEFINE u == Append(v, x)
            n == Len(v)
            f(i) == FiringAt(u, d, i) # FiringAt(u, d, i - 1)
            g(i) == FiringAt(v, d, i) # FiringAt(v, d, i - 1)
<1>1. n \in Nat /\ Len(u) = n + 1 /\ \A i \in 1..n : u[i] = v[i]
  BY OneMore
<1>. HIDE DEF u
<1>2. ASSUME NEW i \in 0..n PROVE FiringAt(u, d, i) = FiringAt(v, d, i)
  BY <1>1, SameRun
<1>3. ASSUME NEW i \in 1..n PROVE f(i) <=> g(i)
  <2>1. i \in 0..n /\ i - 1 \in 0..n
    OBVIOUS
  <2>. QED
    BY <1>2, <2>1
<1>4. f(n + 1) <=> FiringAt(u, d, n + 1) # FiringAt(u, d, n)
  <2>1. (n + 1) - 1 = n
    BY <1>1
  <2>. QED
    BY <2>1
<1>5. Transitions(u, d) = {i \in 1..(n + 1) : f(i)} /\ Transitions(v, d) = {i \in 1..n : g(i)}
  BY <1>1 DEF Transitions
<1>. HIDE DEF f, g, n
<1>6. Transitions(u, d) = IF f(n + 1) THEN Transitions(v, d) \cup {n + 1} ELSE Transitions(v, d)
  BY <1>1, <1>3, <1>5
<1>. QED
  BY <1>4, <1>6 DEF u, n

LEMMA NoticeFields ==
    ASSUME NEW v \in Seq(Verdict), NEW d, NEW i \in 1..Len(v)
    PROVE  NoticeAt(v, d, i) \in NoticeType
<1>1. i \in Nat \ {0} /\ i <= Len(v) /\ Len(v) \in Nat /\ v[i].time \in Nat
  BY VerdictFields
<1>2. FiringAt(v, d, i) => RunStart(v, i) \in 1..Len(v)
  BY <1>1, StartIs DEF FiringAt
<1>3. FiringAt(v, d, i) => v[RunStart(v, i)].time \in Nat
  BY <1>2, VerdictFields
<1>. QED
  BY <1>1, <1>3 DEF NoticeAt, NoticeType

LEMMA NoticesType ==
    ASSUME NEW v \in Seq(Verdict), NEW d, Ranked(v, d)
    PROVE  /\ Notices(v, d) \in Seq(NoticeType)
           /\ Len(Notices(v, d)) = Cardinality(Transitions(v, d))
<1>. DEFINE c == Cardinality(Transitions(v, d))
<1>1. c \in Nat /\ Transitions(v, d) \subseteq 1..Len(v)
  BY TransitionsFinite
<1>2. \A n \in 1..c : NoticeAt(v, d, Nth(Transitions(v, d), n)) \in NoticeType
  BY <1>1, NoticeFields DEF Ranked
<1>. HIDE DEF c
<1>3. Notices(v, d) = [n \in 1..c |-> NoticeAt(v, d, Nth(Transitions(v, d), n))]
  BY DEF Notices, c
<1>4. Notices(v, d) \in [1..c -> NoticeType]
  BY <1>2, <1>3
<1>. QED
  BY <1>1, <1>4, LenProperties, SeqDef DEF c

\* The places of the transitions there were stay as they are.
LEMMA PlacesStay ==
    ASSUME NEW v \in Seq(Verdict), NEW d,
           NEW k \in 1..Cardinality(Transitions(v, d))
    PROVE  LET T == Transitions(v, d)
               m == Len(v) + 1
           IN  Nth(T \cup {m}, k) = Nth(T, k)
<1>. DEFINE T == Transitions(v, d)
            m == Len(v) + 1
            U == T \cup {m}
<1>1. /\ Len(v) \in Nat /\ T \subseteq 1..Len(v) /\ IsFiniteSet(T) /\ Cardinality(T) \in Nat
  BY TransitionsFinite
<1>2. m \notin T /\ \A i \in T : i < m
  BY <1>1
<1>3. Cardinality(U) = Cardinality(T) + 1
  BY <1>1, <1>2, FS_AddElement
<1>4. ASSUME NEW i \in T PROVE {j \in U : j <= i} = {j \in T : j <= i}
  BY <1>1, <1>2
<1>5. {j \in U : j <= m} = U
  BY <1>1, <1>2
<1>6. Cardinality({j \in U : j <= m}) # k
  <2>1. Cardinality({j \in U : j <= m}) = Cardinality(T) + 1
    BY <1>3, <1>5, Zenon
  <2>2. Cardinality(T) + 1 # k
    BY <1>1
  <2>. QED
    BY <2>1, <2>2
<1>7. ASSUME NEW i
      PROVE  i \in U /\ Cardinality({j \in U : j <= i}) = k
                <=> i \in T /\ Cardinality({j \in T : j <= i}) = k
  BY <1>4, <1>6
<1>. HIDE DEF T, U, m
<1>8. (CHOOSE i : i \in U /\ Cardinality({j \in U : j <= i}) = k)
         = (CHOOSE i : i \in T /\ Cardinality({j \in T : j <= i}) = k)
  BY <1>7, Zenon
<1>9. Nth(U, k) = Nth(T, k)
  BY <1>8 DEF Nth
<1>. QED
  BY <1>9 DEF U, T, m

\* The new transition is the last.
LEMMA NewPlace ==
    ASSUME NEW v \in Seq(Verdict), NEW d
    PROVE  LET T == Transitions(v, d)
               m == Len(v) + 1
           IN  Nth(T \cup {m}, Cardinality(T) + 1) = m
<1>. DEFINE T == Transitions(v, d)
            m == Len(v) + 1
            U == T \cup {m}
            c == Cardinality(T)
<1>1. /\ Len(v) \in Nat /\ T \subseteq 1..Len(v) /\ IsFiniteSet(T) /\ c \in Nat
      /\ \A i : Cardinality({j \in T : j <= i}) \in Nat /\ Cardinality({j \in T : j <= i}) <= c
  BY TransitionsFinite DEF Upto
<1>2. m \notin T /\ \A i \in T : i < m
  BY <1>1
<1>3. Cardinality(U) = c + 1
  BY <1>1, <1>2, FS_AddElement
<1>4. ASSUME NEW i \in T PROVE {j \in U : j <= i} = {j \in T : j <= i}
  BY <1>1, <1>2
<1>5. {j \in U : j <= m} = U
  BY <1>1, <1>2
<1>6. ASSUME NEW i \in T PROVE Cardinality({j \in U : j <= i}) # c + 1
  <2>1. Cardinality({j \in U : j <= i}) = Cardinality({j \in T : j <= i})
    BY <1>4, Zenon
  <2>2. Cardinality({j \in T : j <= i}) # c + 1
    <3>. DEFINE a == Cardinality({j \in T : j <= i})
    <3>1. a \in Nat /\ a <= c /\ c \in Nat
      BY <1>1
    <3>. HIDE DEF a, c
    <3>2. a # c + 1
      BY <3>1
    <3>. QED
      BY <3>2 DEF a
  <2>. QED
    BY <2>1, <2>2
<1>7. m \in U /\ Cardinality({j \in U : j <= m}) = c + 1
  BY <1>3, <1>5
<1>8. \A i \in U : Cardinality({j \in U : j <= i}) = c + 1 => i = m
  BY <1>6
<1>. HIDE DEF T, U, m, c
<1>9. (CHOOSE i \in U : Cardinality({j \in U : j <= i}) = c + 1) = m
  BY <1>7, <1>8
<1>. QED
  BY <1>9 DEF Nth, U, T, m, c

LEMMA NoticesGrow ==
    ASSUME NEW v \in Seq(Verdict), NEW x \in Verdict, NEW d, Ranked(v, d)
    PROVE  LET u == Append(v, x)
               n == Len(v)
           IN  /\ Ranked(u, d)
               /\ NoticeAt(u, d, n + 1) \in NoticeType
               /\ Notices(v, d) \in Seq(NoticeType)
               /\ Notices(u, d) = IF FiringAt(u, d, n + 1) # FiringAt(u, d, n)
                                  THEN Append(Notices(v, d), NoticeAt(u, d, n + 1))
                                  ELSE Notices(v, d)
<1>. DEFINE u == Append(v, x)
            n == Len(v)
            T == Transitions(v, d)
            U == Transitions(u, d)
            c == Cardinality(T)
            moved == FiringAt(u, d, n + 1) # FiringAt(u, d, n)
<1>1. u \in Seq(Verdict) /\ n \in Nat /\ Len(u) = n + 1 /\ \A i \in 1..n : u[i] = v[i]
  BY OneMore
<1>2. U = IF moved THEN T \cup {n + 1} ELSE T
  BY TransitionsGrow
<1>3. T \subseteq 1..n /\ IsFiniteSet(T) /\ c \in Nat
  BY TransitionsFinite
<1>4. NoticeAt(u, d, n + 1) \in NoticeType
  <2>1. n + 1 \in 1..Len(u)
    BY <1>1
  <2>. HIDE DEF u, n
  <2>. QED
    BY <1>1, <2>1, NoticeFields
<1>5. Notices(v, d) \in Seq(NoticeType) /\ Len(Notices(v, d)) = c
  BY NoticesType
<1>6. ASSUME NEW i \in T PROVE NoticeAt(u, d, i) = NoticeAt(v, d, i)
  <2>1. i \in Nat /\ i > 0 /\ \A m \in 1..i : u[m] = v[m]
    BY <1>1, <1>3
  <2>. QED
    BY <2>1, SameRun
<1>7. ASSUME NEW k \in 1..c PROVE Nth(T, k) \in T /\ Nth(T \cup {n + 1}, k) = Nth(T, k)
  BY PlacesStay DEF Ranked
<1>8. Nth(T \cup {n + 1}, c + 1) = n + 1
  BY NewPlace
<1>9. Notices(v, d) = [k \in 1..c |-> NoticeAt(v, d, Nth(T, k))]
      /\ Notices(u, d) = [k \in 1..Cardinality(U) |-> NoticeAt(u, d, Nth(U, k))]
  BY DEF Notices
<1>10. CASE moved
  <2>1. U = T \cup {n + 1} /\ Cardinality(U) = c + 1
    <3>1. U = T \cup {n + 1} /\ n + 1 \notin T
      BY <1>1, <1>2, <1>3, <1>10
    <3>. HIDE DEF T, U
    <3>. QED
      BY <1>3, <3>1, FS_AddElement
  <2>2. \A k \in 1..(c + 1) : Nth(U, k) \in U
    <3>1. U = T \cup {n + 1}
      BY <2>1
    <3>. HIDE DEF T, U, c, n, moved
    <3>2. ASSUME NEW k \in 1..c PROVE Nth(U, k) \in U
      <4>1. Nth(T, k) \in T /\ Nth(T \cup {n + 1}, k) = Nth(T, k)
        BY <1>7
      <4>. QED
        BY <3>1, <4>1
    <3>3. Nth(U, c + 1) \in U
      BY <1>8, <3>1
    <3>. QED
      BY <1>3, <3>2, <3>3
  <2>3. Ranked(u, d)
    BY <2>1, <2>2 DEF Ranked
  <2>4. Notices(u, d) \in Seq(NoticeType) /\ Len(Notices(u, d)) = c + 1
    BY <1>1, <2>1, <2>3, NoticesType
  <2>. DEFINE s == Append(Notices(v, d), NoticeAt(u, d, n + 1))
  <2>5. /\ s \in Seq(NoticeType) /\ Len(s) = c + 1 /\ s[c + 1] = NoticeAt(u, d, n + 1)
        /\ \A k \in 1..c : s[k] = Notices(v, d)[k]
    BY <1>4, <1>5, AppendProperties
  <2>6. ASSUME NEW k \in 1..c PROVE Notices(u, d)[k] = Notices(v, d)[k]
    <3>1. Notices(v, d)[k] = NoticeAt(v, d, Nth(T, k))
      BY <1>9
    <3>2. k \in 1..Cardinality(U)
      BY <1>3, <2>1
    <3>3. Notices(u, d)[k] = NoticeAt(u, d, Nth(U, k))
      BY <1>9, <3>2
    <3>4. NoticeAt(u, d, Nth(U, k)) = NoticeAt(v, d, Nth(T, k))
      BY <1>6, <1>7, <2>1
    <3>. QED
      BY <3>1, <3>3, <3>4
  <2>7. Notices(u, d)[c + 1] = NoticeAt(u, d, n + 1)
    <3>1. c + 1 \in 1..Cardinality(U)
      BY <1>3, <2>1
    <3>. QED
      BY <1>8, <1>9, <2>1, <3>1
  <2>. HIDE DEF s, c, U, T, n
  <2>8. Notices(u, d) = s
    <3>1. \A k \in 1..(c + 1) : Notices(u, d)[k] = s[k]
      BY <1>3, <2>5, <2>6, <2>7
    <3>. QED
      BY <2>4, <2>5, <3>1, SeqEqual
  <2>. QED
    BY <1>4, <1>5, <1>10, <2>3, <2>8 DEF s, n
<1>11. CASE ~moved
  <2>1. U = T
    BY <1>2, <1>11
  <2>2. Ranked(u, d)
    BY <2>1 DEF Ranked
  <2>3. \A k \in 1..c : NoticeAt(u, d, Nth(T, k)) = NoticeAt(v, d, Nth(T, k))
    BY <1>6, <1>7
  <2>. HIDE DEF T, U, c
  <2>4. Notices(u, d) = Notices(v, d)
    BY <1>9, <2>1, <2>3 DEF c
  <2>. QED
    BY <1>4, <1>5, <1>11, <2>2, <2>4
<1>. QED
  BY <1>10, <1>11

-----------------------------------------------------------------------------
(* The notifications still to come *)

\* The evaluation w has the notifier n still to call for the key.
Owes(w, key, n) == w.stage = "notify" /\ KeyOf(w) = key /\ n \in w.left

SameDebts(w, u) ==
    \A key, n : /\ Owes(u, key, n) <=> Owes(w, key, n)
                /\ Owes(w, key, n) => u.notice = w.notice

\* Ingesting a sample and updating a history notify nobody.
LEMMA SilentSteps ==
    ASSUME EngineInv, NEW p \in Producers,
           \/ \E s \in Series, r \in Readings : Consume(p, s, r)
           \/ UpdateHistory(p)
    PROVE  /\ \A q \in Producers : SameDebts(work[q], work'[q])
           /\ judged' = judged /\ notices' = notices
<1>1. ASSUME NEW u, work' = [work EXCEPT ![p] = u],
             work[p].stage # "notify", u.stage # "notify"
      PROVE  \A q \in Producers : SameDebts(work[q], work'[q])
  <2>. SUFFICES ASSUME NEW q \in Producers PROVE SameDebts(work[q], work'[q])
    OBVIOUS
  <2>1. DOMAIN work = Producers
    BY DEF EngineInv
  <2>2. CASE q = p
    BY <1>1, <2>1, <2>2 DEF SameDebts, Owes
  <2>3. CASE q # p
    BY <1>1, <2>1, <2>3 DEF SameDebts
  <2>. QED
    BY <2>2, <2>3
<1>2. ASSUME NEW s \in Series, NEW r \in Readings, Consume(p, s, r)
      PROVE  /\ \A q \in Producers : SameDebts(work[q], work'[q])
             /\ judged' = judged /\ notices' = notices
  <2>. DEFINE sample == [series |-> s, time |-> r.time, value |-> r.value,
                         anomalous |-> r.anomalous]
  <2>1. /\ work[p] = Idle /\ <<p, s>> \in Feeds
        /\ work' = [work EXCEPT ![p] = FromRule(sample, 1)]
        /\ judged' = judged /\ notices' = notices
    BY <1>2 DEF Consume
  <2>2. sample \in SampleType /\ sample.series = s
    BY AlertAssumption DEF SampleType
  <2>. HIDE DEF sample
  <2>3. FromRule(sample, 1).stage # "notify"
    BY <2>1, <2>2, FromRuleWork
  <2>4. work[p].stage # "notify"
    BY <2>1 DEF Idle
  <2>. DEFINE u == FromRule(sample, 1)
  <2>5. work' = [work EXCEPT ![p] = u] /\ u.stage # "notify"
    BY <2>1, <2>3
  <2>. HIDE DEF u
  <2>. QED
    BY <1>1, <2>1, <2>4, <2>5
<1>3. ASSUME UpdateHistory(p)
      PROVE  /\ \A q \in Producers : SameDebts(work[q], work'[q])
             /\ judged' = judged /\ notices' = notices
  <2>. DEFINE w == work[p]
              hist == Pruned(Append(history[KeyOf(w)],
                                    [time |-> w.sample.time, value |-> w.sample.value]),
                             w.sample.time - Rules[w.rule].cond.window)
              u == [w EXCEPT !.stage = "decide", !.hist = hist]
  <2>1. /\ w.stage = "history" /\ work' = [work EXCEPT ![p] = u]
        /\ judged' = judged /\ notices' = notices
    BY <1>3 DEF UpdateHistory
  <2>2. w \in Evaluations
    BY <2>1, WorkAt, WorkFields
  <2>. HIDE DEF hist
  <2>3. u.stage = "decide"
    BY <2>2 DEF Evaluations
  <2>. QED
    BY <1>1, <2>1, <2>3
<1>. QED
  BY <1>2, <1>3

LEMMA DecisionDebts ==
    ASSUME EngineInv, DistinctNames, StateInv, NEW p \in Producers, Decision(p)
    PROVE  LET key == KeyOf(work[p])
               d == RuleOf(key).for
               u == judged'[key]
               n == Len(judged[key])
               moved == FiringAt(u, d, n + 1) # FiringAt(u, d, n)
           IN  /\ work[p].stage = "decide" /\ notices' = notices
               /\ <<p, key[2]>> \in Feeds
               /\ \A q \in Producers \ {p} : work'[q] = work[q]
               /\ \A k, m : /\ ~Owes(work[p], k, m)
                            /\ Owes(work'[p], k, m) <=>
                                  k = key /\ moved /\ m \in Targets(RuleOf(key))
                            /\ Owes(work'[p], k, m) =>
                                  work'[p].notice = NoticeAt(u, d, n + 1)
<1>. DEFINE w == work[p]
            key == KeyOf(w)
            d == RuleOf(key).for
            u == Append(judged[key], VerdictOf(w))
            n == Len(judged[key])
            moved == FiringAt(u, d, n + 1) # FiringAt(u, d, n)
            telling == [stage |-> "notify", sample |-> w.sample, rule |-> w.rule,
                        notice |-> NoticeAt(u, d, n + 1), left |-> Targets(RuleOf(key))]
            next == IF moved /\ Targets(RuleOf(key)) # {} THEN telling
                    ELSE FromRule(w.sample, w.rule + 1)
<1>1. /\ w.stage = "decide" /\ work' = [work EXCEPT ![p] = next] /\ notices' = notices
  BY DEF Decision
<1>2. judged'[key] = u
  BY Decides
<1>3. /\ w.sample \in SampleType /\ w.rule \in 1..Len(Rules) /\ w.rule + 1 \in Nat \ {0}
      /\ <<p, w.sample.series>> \in Feeds
  BY <1>1, Deciding
<1>4. key[2] = w.sample.series
  BY DEF KeyOf
<1>5. work'[p] = next /\ \A q \in Producers \ {p} : work'[q] = work[q]
  BY <1>1 DEF EngineInv
<1>6. FromRule(w.sample, w.rule + 1).stage # "notify"
  BY <1>3, FromRuleWork
<1>7. KeyOf(telling) = key
  BY DEF KeyOf
<1>8. /\ telling.stage = "notify" /\ telling.left = Targets(RuleOf(key))
      /\ telling.notice = NoticeAt(u, d, n + 1)
  OBVIOUS
<1>. HIDE DEF telling, u, d, key, w, moved
<1>9. ASSUME NEW k, NEW m
      PROVE  /\ ~Owes(work[p], k, m)
             /\ Owes(next, k, m) <=> k = key /\ moved /\ m \in Targets(RuleOf(key))
             /\ Owes(next, k, m) => next.notice = NoticeAt(u, d, n + 1)
  <2>1. CASE moved /\ Targets(RuleOf(key)) # {}
    BY <1>1, <1>7, <1>8, <2>1 DEF Owes, w
  <2>2. CASE ~(moved /\ Targets(RuleOf(key)) # {})
    BY <1>1, <1>6, <2>2 DEF Owes, w
  <2>. QED
    BY <2>1, <2>2
<1>10. <<p, key[2]>> \in Feeds
  BY <1>3, <1>4
<1>11. work[p].stage = "decide"
  BY <1>1 DEF w
<1>. QED
  BY <1>1, <1>2, <1>5, <1>9, <1>10, <1>11 DEF u, d, key, w, moved

\* One call of a notifier as a whole.
Notification(p, n) ==
    LET key == KeyOf(work[p])
    IN  /\ judged' = judged
        /\ key \in Keys /\ <<p, key[2]>> \in Feeds /\ Owes(work[p], key, n)
        /\ work[p].notice \in NoticeType
        /\ \A k, m : Owes(work[p], k, m) => k = key
        /\ \A q \in Producers \ {p} : work'[q] = work[q]
        /\ \A k, m : /\ Owes(work'[p], k, m) <=> Owes(work[p], k, m) /\ m # n
                     /\ Owes(work'[p], k, m) => work'[p].notice = work[p].notice
        /\ \A k \in Keys, m \in Notifiers : notices'[k][m] =
              IF k = key /\ m = n THEN Append(notices[k][m], work[p].notice)
                                  ELSE notices[k][m]

LEMMA NotifyDebts ==
    ASSUME EngineInv, NEW p \in Producers, NEW n \in Notifiers,
           NEW ok \in BOOLEAN, Notify(p, n, ok)
    PROVE  Notification(p, n)
<1>. DEFINE w == work[p]
            key == KeyOf(w)
            fewer == [w EXCEPT !.left = @ \ {n}]
            next == IF w.left = {n} THEN FromRule(w.sample, w.rule + 1) ELSE fewer
<1>1. /\ w.stage = "notify" /\ n \in w.left /\ work' = [work EXCEPT ![p] = next]
      /\ notices' = [notices EXCEPT ![key][n] = Append(@, w.notice)]
      /\ judged' = judged
  BY DEF Notify
<1>2. /\ w \in Dispatches /\ key \in Keys /\ w.notice \in NoticeType
      /\ w.sample \in SampleType /\ w.rule + 1 \in Nat \ {0} /\ <<p, w.sample.series>> \in Feeds
  BY <1>1, Notifying
<1>3. key[2] = w.sample.series
  BY DEF KeyOf
<1>4. work'[p] = next /\ \A q \in Producers \ {p} : work'[q] = work[q]
  BY <1>1 DEF EngineInv
<1>5. FromRule(w.sample, w.rule + 1).stage # "notify"
  BY <1>2, FromRuleWork
<1>6. /\ fewer.stage = "notify" /\ fewer.sample = w.sample /\ fewer.rule = w.rule
      /\ fewer.notice = w.notice /\ fewer.left = w.left \ {n}
  BY <1>1, <1>2 DEF Dispatches
<1>7. KeyOf(fewer) = key
  BY <1>6 DEF KeyOf
<1>8. ASSUME NEW k \in Keys, NEW m \in Notifiers
      PROVE  notices'[k][m] = IF k = key /\ m = n THEN Append(notices[k][m], w.notice)
                                                  ELSE notices[k][m]
  BY <1>1, <1>2 DEF EngineInv
<1>. HIDE DEF fewer, key, w
<1>9. ASSUME NEW k, NEW m
      PROVE  /\ Owes(next, k, m) <=> Owes(w, k, m) /\ m # n
             /\ Owes(next, k, m) => next.notice = w.notice
  <2>1. CASE w.left = {n}
    BY <1>5, <2>1 DEF Owes
  <2>2. CASE w.left # {n}
    BY <1>1, <1>6, <1>7, <2>2 DEF Owes, key
  <2>. QED
    BY <2>1, <2>2
<1>10. Owes(w, key, n) /\ \A k, m : Owes(w, k, m) => k = key
  BY <1>1 DEF Owes, key
<1>. HIDE DEF next
<1>. QED
  BY <1>1, <1>2, <1>3, <1>4, <1>8, <1>9, <1>10 DEF Notification, key, w

RankInv == \A key \in Keys : Ranked(judged[key], RuleOf(key).for)

\* A key that one goroutine feeds: while it is at the notifiers, those left to
\* call are one notice behind; all the others have heard everything.
OrderInv ==
    \A key \in Keys, n \in Notifiers : FedByOne(key) =>
        /\ \A p \in Producers : Owes(work[p], key, n) =>
              Expected(key) = Append(notices[key][n], work[p].notice)
        /\ (\A p \in Producers : ~Owes(work[p], key, n)) =>
              notices[key][n] = IF n \in Targets(RuleOf(key)) THEN Expected(key) ELSE <<>>

DebtInv == \A p \in Producers : \A key, n : Owes(work[p], key, n) => n \in Targets(RuleOf(key))

NoticeInv == EngineInv /\ StateInv /\ RankInv /\ DebtInv

\* What is expected after a decision.
LEMMA DecisionExpects ==
    ASSUME DistinctNames, NoticeInv, NEW p \in Producers, Decision(p),
           NEW key, key = KeyOf(work[p])
    PROVE  LET d == RuleOf(key).for
               u == judged'[key]
               n == Len(judged[key])
               moved == FiringAt(u, d, n + 1) # FiringAt(u, d, n)
           IN  /\ key \in Keys /\ RankInv'
               /\ Expected(key) \in Seq(NoticeType) /\ NoticeAt(u, d, n + 1) \in NoticeType
               /\ Expected(key)' = IF moved THEN Append(Expected(key), NoticeAt(u, d, n + 1))
                                            ELSE Expected(key)
               /\ \A k \in Keys \ {key} : Expected(k)' = Expected(k)
<1>. DEFINE d == RuleOf(key).for
            v == judged[key]
            x == VerdictOf(work[p])
            u == Append(v, x)
<1>1. /\ key \in Keys /\ v \in Seq(Verdict) /\ x \in Verdict
      /\ judged'[key] = u /\ \A k \in Keys \ {key} : judged'[k] = judged[k]
  BY Decides DEF NoticeInv
<1>2. Ranked(v, d)
  BY <1>1 DEF NoticeInv, RankInv
<1>. HIDE DEF d, v, x
<1>3. /\ Ranked(u, d)
      /\ NoticeAt(u, d, Len(v) + 1) \in NoticeType
      /\ Notices(v, d) \in Seq(NoticeType)
      /\ Notices(u, d) = IF FiringAt(u, d, Len(v) + 1) # FiringAt(u, d, Len(v))
                         THEN Append(Notices(v, d), NoticeAt(u, d, Len(v) + 1))
                         ELSE Notices(v, d)
  BY <1>1, <1>2, NoticesGrow
<1>4. Expected(key) = Notices(v, d) /\ Expected(key)' = Notices(u, d)
  BY <1>1 DEF Expected, d, v
<1>5. ASSUME NEW k \in Keys \ {key} PROVE Expected(k)' = Expected(k)
  BY <1>1, <1>5 DEF Expected
<1>6. RankInv'
  <2>. SUFFICES ASSUME NEW k \in Keys PROVE Ranked(judged'[k], RuleOf(k).for)
    BY DEF RankInv
  <2>1. CASE k = key
    BY <1>1, <1>3, <2>1 DEF d
  <2>2. CASE k # key
    BY <1>1, <2>2 DEF NoticeInv, RankInv
  <2>. QED
    BY <2>1, <2>2
<1>. QED
  BY <1>1, <1>3, <1>4, <1>5, <1>6 DEF d, v, x

LEMMA ExpectedSame ==
    ASSUME judged' = judged, NEW key PROVE Expected(key)' = Expected(key)
BY DEF Expected

LEMMA NoticeInit == ASSUME Init PROVE NoticeInv /\ OrderInv
<1>1. EngineInv /\ StateInv
  BY EngineInit, StateInit
<1>2. ASSUME NEW d PROVE Transitions(<<>>, d) = {} /\ Cardinality({}) = 0
  BY FS_EmptySet DEF Transitions
<1>3. ASSUME NEW d PROVE Ranked(<<>>, d) /\ Notices(<<>>, d) = <<>>
  <2>1. Cardinality(Transitions(<<>>, d)) = 0
    BY <1>2
  <2>2. 1..0 = {}
    OBVIOUS
  <2>. QED
    BY <2>1, <2>2 DEF Ranked, Notices
<1>4. ASSUME NEW p \in Producers, NEW key, NEW n PROVE ~Owes(work[p], key, n)
  BY DEF Init, Owes, Idle
<1>5. ASSUME NEW key \in Keys PROVE judged[key] = <<>> /\ \A n \in Notifiers : notices[key][n] = <<>>
  BY DEF Init
<1>6. RankInv /\ DebtInv
  BY <1>3, <1>4, <1>5 DEF RankInv, DebtInv
<1>7. OrderInv
  BY <1>3, <1>4, <1>5 DEF OrderInv, Expected
<1>. QED
  BY <1>1, <1>6, <1>7 DEF NoticeInv

\* A step that changes neither the verdicts nor the calls that are due.
Silent ==
    /\ \A q \in Producers : SameDebts(work[q], work'[q])
    /\ judged' = judged /\ notices' = notices

LEMMA NoticeSteps ==
    ASSUME DistinctNames, NoticeInv, [Next]_vars
    PROVE  \/ Silent
           \/ \E p \in Producers : Decision(p)
           \/ \E p \in Producers, n \in Notifiers : Notification(p, n)
<1>1. CASE UNCHANGED vars
  BY <1>1 DEF vars, Silent, SameDebts
<1>2. CASE \E p \in Producers, s \in Series, r \in Readings : Consume(p, s, r)
  BY <1>2, SilentSteps DEF Silent, NoticeInv
<1>3. CASE \E p \in Producers : UpdateHistory(p)
  BY <1>3, SilentSteps DEF Silent, NoticeInv
<1>4. CASE \E p \in Producers, n \in Notifiers, ok \in BOOLEAN : Notify(p, n, ok)
  BY <1>4, NotifyDebts DEF NoticeInv
<1>. QED
  BY <1>1, <1>2, <1>3, <1>4, DecisionSteps DEF NoticeInv

LEMMA NoticeStep ==
    ASSUME DistinctNames, NoticeInv, [Next]_vars PROVE NoticeInv'
<1>1. EngineInv' /\ StateInv'
  BY EngineStep, StateStep DEF NoticeInv
<1>2. CASE Silent
  <2>1. RankInv'
    BY <1>2 DEF NoticeInv, RankInv, Silent
  <2>2. DebtInv'
    BY <1>2 DEF NoticeInv, DebtInv, Silent, SameDebts
  <2>. QED
    BY <1>1, <2>1, <2>2 DEF NoticeInv
<1>3. ASSUME NEW p \in Producers, Decision(p) PROVE NoticeInv'
  <2>1. RankInv'
    BY <1>3, DecisionExpects
  <2>2. DebtInv'
    <3>. SUFFICES ASSUME NEW q \in Producers, NEW key, NEW n, Owes(work'[q], key, n)
         PROVE  n \in Targets(RuleOf(key))
      BY DEF DebtInv
    <3>1. CASE q = p
      BY <1>3, <3>1, DecisionDebts DEF NoticeInv
    <3>2. CASE q # p
      <4>1. work'[q] = work[q]
        BY <1>3, <3>2, DecisionDebts DEF NoticeInv
      <4>. QED
        BY <4>1 DEF NoticeInv, DebtInv
    <3>. QED
      BY <3>1, <3>2
  <2>. QED
    BY <1>1, <2>1, <2>2 DEF NoticeInv
<1>4. ASSUME NEW p \in Producers, NEW m \in Notifiers, Notification(p, m)
      PROVE  NoticeInv'
  <2>1. judged' = judged
    BY <1>4 DEF Notification
  <2>2. RankInv'
    BY <2>1 DEF NoticeInv, RankInv
  <2>3. DebtInv'
    <3>. SUFFICES ASSUME NEW q \in Producers, NEW key, NEW n, Owes(work'[q], key, n)
         PROVE  n \in Targets(RuleOf(key))
      BY DEF DebtInv
    <3>1. Owes(work[q], key, n)
      BY <1>4 DEF Notification
    <3>. QED
      BY <3>1 DEF NoticeInv, DebtInv
  <2>. QED
    BY <1>1, <2>2, <2>3 DEF NoticeInv
<1>. QED
  BY <1>2, <1>3, <1>4, NoticeSteps

LEMMA DecisionInOrder ==
    ASSUME DistinctNames, NoticeInv, OrderInv, NEW p \in Producers, Decision(p)
    PROVE  OrderInv'
<1>. SUFFICES ASSUME NEW key \in Keys, NEW n \in Notifiers, FedByOne(key)
     PROVE  /\ \A q \in Producers : Owes(work'[q], key, n) =>
                  Expected(key)' = Append(notices'[key][n], work'[q].notice)
            /\ (\A q \in Producers : ~Owes(work'[q], key, n)) =>
                  notices'[key][n] = IF n \in Targets(RuleOf(key)) THEN Expected(key)' ELSE <<>>
  BY DEF OrderInv
<1>1. /\ \A q \in Producers : Owes(work[q], key, n) =>
            Expected(key) = Append(notices[key][n], work[q].notice)
      /\ (\A q \in Producers : ~Owes(work[q], key, n)) =>
            notices[key][n] = IF n \in Targets(RuleOf(key)) THEN Expected(key) ELSE <<>>
  BY DEF OrderInv
<1>. DEFINE d == RuleOf(key).for
            u == judged'[key]
            e == NoticeAt(u, d, Len(judged[key]) + 1)
            moved == FiringAt(u, d, Len(judged[key]) + 1) # FiringAt(u, d, Len(judged[key]))
<1>2. /\ notices' = notices /\ \A q \in Producers \ {p} : work'[q] = work[q]
      /\ ~Owes(work[p], key, n)
  BY DecisionDebts DEF NoticeInv
<1>3. CASE key = KeyOf(work[p])
  <2>1. /\ Owes(work'[p], key, n) <=> moved /\ n \in Targets(RuleOf(key))
        /\ Owes(work'[p], key, n) => work'[p].notice = e
        /\ <<p, key[2]>> \in Feeds
    BY <1>3, DecisionDebts DEF NoticeInv
  <2>2. Expected(key)' = IF moved THEN Append(Expected(key), e) ELSE Expected(key)
    BY <1>3, DecisionExpects
  <2>. HIDE DEF moved, e
  <2>3. ASSUME NEW q \in Producers, q # p PROVE ~Owes(work[q], key, n) /\ ~Owes(work'[q], key, n)
    <3>1. work'[q] = work[q]
      BY <1>2, <2>3
    <3>2. Owes(work[q], key, n) => <<q, key[2]>> \in Feeds
      <4>1. Owes(work[q], key, n) => work[q].stage # "idle" /\ KeyOf(work[q]) = key
        BY DEF Owes
      <4>. QED
        BY <4>1, WorkAt, WorkFields DEF NoticeInv
    <3>3. ~Owes(work[q], key, n)
      BY <2>1, <2>3, <3>2 DEF FedByOne
    <3>. QED
      BY <3>1, <3>3
  <2>4. notices[key][n] = IF n \in Targets(RuleOf(key)) THEN Expected(key) ELSE <<>>
    BY <1>1, <1>2, <2>3
  <2>5. CASE moved /\ n \in Targets(RuleOf(key))
    <3>1. Owes(work'[p], key, n) /\ work'[p].notice = e
      BY <2>1, <2>5
    <3>2. Expected(key)' = Append(notices'[key][n], e)
      BY <1>2, <2>2, <2>4, <2>5
    <3>. QED
      BY <2>3, <3>1, <3>2
  <2>6. CASE ~(moved /\ n \in Targets(RuleOf(key)))
    <3>1. ~Owes(work'[p], key, n)
      BY <2>1, <2>6
    <3>2. notices'[key][n] = IF n \in Targets(RuleOf(key)) THEN Expected(key)' ELSE <<>>
      BY <1>2, <2>2, <2>4, <2>6
    <3>. QED
      BY <2>3, <3>1, <3>2
  <2>. QED
    BY <2>5, <2>6
<1>4. CASE key # KeyOf(work[p])
  <2>1. ~Owes(work'[p], key, n)
    BY <1>4, DecisionDebts DEF NoticeInv
  <2>2. Expected(key)' = Expected(key)
    <3>. DEFINE k == KeyOf(work[p])
    <3>1. PICK c : c = k
      OBVIOUS
    <3>2. \A j \in Keys \ {c} : Expected(j)' = Expected(j)
      BY <3>1, DecisionExpects
    <3>. QED
      BY <1>4, <3>1, <3>2
  <2>3. \A q \in Producers : Owes(work'[q], key, n) =>
            Owes(work[q], key, n) /\ work'[q] = work[q]
    BY <1>2, <2>1
  <2>4. (\A q \in Producers : ~Owes(work'[q], key, n))
           => \A q \in Producers : ~Owes(work[q], key, n)
    BY <1>2
  <2>. QED
    BY <1>1, <1>2, <2>2, <2>3, <2>4
<1>. QED
  BY <1>3, <1>4

LEMMA NotifyInOrder ==
    ASSUME DistinctNames, NoticeInv, OrderInv, NEW p \in Producers,
           NEW m \in Notifiers, Notification(p, m)
    PROVE  OrderInv'
<1>. SUFFICES ASSUME NEW key \in Keys, NEW n \in Notifiers, FedByOne(key)
     PROVE  /\ \A q \in Producers : Owes(work'[q], key, n) =>
                  Expected(key)' = Append(notices'[key][n], work'[q].notice)
            /\ (\A q \in Producers : ~Owes(work'[q], key, n)) =>
                  notices'[key][n] = IF n \in Targets(RuleOf(key)) THEN Expected(key)' ELSE <<>>
  BY DEF OrderInv
<1>1. /\ \A q \in Producers : Owes(work[q], key, n) =>
            Expected(key) = Append(notices[key][n], work[q].notice)
      /\ (\A q \in Producers : ~Owes(work[q], key, n)) =>
            notices[key][n] = IF n \in Targets(RuleOf(key)) THEN Expected(key) ELSE <<>>
  BY DEF OrderInv
<1>. DEFINE mine == KeyOf(work[p])
<1>2. /\ judged' = judged /\ <<p, mine[2]>> \in Feeds /\ Owes(work[p], mine, m)
      /\ \A k, j : Owes(work[p], k, j) => k = mine
      /\ \A q \in Producers \ {p} : work'[q] = work[q]
      /\ \A k, j : /\ Owes(work'[p], k, j) <=> Owes(work[p], k, j) /\ j # m
                   /\ Owes(work'[p], k, j) => work'[p].notice = work[p].notice
  BY DEF Notification
<1>3. notices'[key][n] = IF key = mine /\ n = m THEN Append(notices[key][n], work[p].notice)
                                                ELSE notices[key][n]
  BY DEF Notification
<1>. HIDE DEF mine
<1>4. Expected(key)' = Expected(key)
  BY <1>2, ExpectedSame
<1>5. CASE key = mine /\ n = m
  <2>1. Expected(key) = notices'[key][n]
    BY <1>1, <1>2, <1>5, <1>3
  <2>2. ASSUME NEW q \in Producers PROVE ~Owes(work'[q], key, n)
    <3>1. CASE q = p
      BY <1>2, <1>5, <3>1
    <3>2. CASE q # p
      <4>1. Owes(work[q], key, n) => work[q].stage # "idle" /\ KeyOf(work[q]) = key
        BY DEF Owes
      <4>2. Owes(work[q], key, n) => <<q, key[2]>> \in Feeds
        BY <4>1, WorkAt, WorkFields DEF NoticeInv
      <4>. QED
        BY <1>2, <1>5, <3>2, <4>2 DEF FedByOne
    <3>. QED
      BY <3>1, <3>2
  <2>3. n \in Targets(RuleOf(key))
    BY <1>2, <1>5 DEF NoticeInv, DebtInv
  <2>. QED
    BY <1>4, <2>1, <2>2, <2>3
<1>6. CASE ~(key = mine /\ n = m)
  <2>1. notices'[key][n] = notices[key][n]
    BY <1>6, <1>3
  <2>2. ASSUME NEW q \in Producers
        PROVE  /\ Owes(work'[q], key, n) <=> Owes(work[q], key, n)
               /\ Owes(work'[q], key, n) => work'[q].notice = work[q].notice
    BY <1>2, <1>6
  <2>. QED
    BY <1>1, <1>4, <2>1, <2>2
<1>. QED
  BY <1>5, <1>6

LEMMA OrderStep ==
    ASSUME DistinctNames, NoticeInv, OrderInv, [Next]_vars PROVE OrderInv'
<1>1. ASSUME Silent PROVE OrderInv'
  <2>1. \A key : Expected(key)' = Expected(key)
    BY <1>1, ExpectedSame DEF Silent
  <2>. SUFFICES ASSUME NEW key \in Keys, NEW n \in Notifiers, FedByOne(key)
       PROVE  /\ \A q \in Producers : Owes(work'[q], key, n) =>
                    Expected(key)' = Append(notices'[key][n], work'[q].notice)
              /\ (\A q \in Producers : ~Owes(work'[q], key, n)) =>
                    notices'[key][n] = IF n \in Targets(RuleOf(key)) THEN Expected(key)' ELSE <<>>
    BY DEF OrderInv
  <2>2. /\ \A q \in Producers : Owes(work[q], key, n) =>
              Expected(key) = Append(notices[key][n], work[q].notice)
        /\ (\A q \in Producers : ~Owes(work[q], key, n)) =>
              notices[key][n] = IF n \in Targets(RuleOf(key)) THEN Expected(key) ELSE <<>>
    BY DEF OrderInv
  <2>3. \A q \in Producers :
           /\ Owes(work'[q], key, n) <=> Owes(work[q], key, n)
           /\ Owes(work'[q], key, n) => work'[q].notice = work[q].notice
    BY <1>1 DEF Silent, SameDebts
  <2>. QED
    BY <1>1, <2>1, <2>2, <2>3 DEF Silent
<1>. QED
  BY <1>1, DecisionInOrder, NotifyInOrder, NoticeSteps

LEMMA NoticeAlways == ASSUME DistinctNames PROVE Spec => [](NoticeInv /\ OrderInv)
<1>1. Init => NoticeInv /\ OrderInv
  BY NoticeInit
<1>2. NoticeInv /\ OrderInv /\ [Next]_vars => (NoticeInv /\ OrderInv)'
  BY NoticeStep, OrderStep
<1>. QED
  BY <1>1, <1>2, PTL DEF Spec

LEMMA PrefixFacts ==
    ASSUME NEW S, NEW s \in Seq(S), NEW e \in S
    PROVE  IsPrefix(s, s) /\ IsPrefix(<<>>, s) /\ IsPrefix(s, Append(s, e))
<1>1. Len(s) \in Nat /\ \A i \in 1..Len(s) : s[i] \in S
  BY LenProperties, ElementOfSeq
<1>2. Append(s, e) \in Seq(S) /\ Len(Append(s, e)) = Len(s) + 1
      /\ \A i \in 1..Len(s) : Append(s, e)[i] = s[i]
  BY AppendProperties
<1>3. IsPrefix(s, s)
  BY <1>1 DEF IsPrefix
<1>4. IsPrefix(<<>>, s)
  <2>1. SubSeq(<<>>, 1, 0) = <<>> /\ SubSeq(s, 1, 0) = <<>>
    BY SubSeqEmpty
  <2>2. Len(<<>>) = 0
    OBVIOUS
  <2>. QED
    BY <1>1, <2>1, <2>2 DEF IsPrefix
<1>5. SubSeq(s, 1, Len(s)) = SubSeq(Append(s, e), 1, Len(s))
  <2>. DEFINE a == SubSeq(s, 1, Len(s))
              b == SubSeq(Append(s, e), 1, Len(s))
              k == Len(s)
              t == Append(s, e)
  <2>1. /\ a \in Seq(S) /\ Len(a) = (IF 1 <= k THEN k - 1 + 1 ELSE 0)
        /\ \A i \in 1..(k - 1 + 1) : a[i] = s[1 + i - 1]
    BY <1>1, SubSeqProperties
  <2>. HIDE DEF t
  <2>2. /\ SubSeq(t, 1, k) \in Seq(S) /\ Len(SubSeq(t, 1, k)) = (IF 1 <= k THEN k - 1 + 1 ELSE 0)
        /\ \A i \in 1..(k - 1 + 1) : SubSeq(t, 1, k)[i] = t[1 + i - 1]
    <3>1. \A i \in 1..k : t[i] \in S
      BY <1>1, <1>2 DEF t
    <3>. QED
      BY <1>1, <3>1, SubSeqProperties
  <2>3. Len(a) = k /\ Len(b) = k
    BY <1>1, <2>1, <2>2 DEF t
  <2>4. ASSUME NEW i \in 1..k PROVE a[i] = b[i]
    <3>1. 1 + i - 1 = i /\ k - 1 + 1 = k
      BY <1>1
    <3>2. a[i] = s[i]
      BY <2>1, <3>1
    <3>3. b[i] = t[i]
      BY <2>2, <3>1 DEF t
    <3>. QED
      BY <1>2, <3>2, <3>3 DEF t
  <2>5. b \in Seq(S)
    BY <2>2 DEF t
  <2>. HIDE DEF a, b, k
  <2>6. a = b
    BY <2>1, <2>3, <2>4, <2>5, SeqEqual
  <2>. QED
    BY <2>6 DEF a, b, k
<1>. QED
  BY <1>1, <1>2, <1>3, <1>4, <1>5 DEF IsPrefix

\* What a notifier has been sent of a series that one goroutine ingests is a
\* beginning of the transitions of its verdicts, in their order and with their
\* times: no transition is skipped, repeated or announced before it happens,
\* although e.mu is free while the notifiers are called (dispatch, engine.go).
THEOREM NoticesAlwaysInOrder ==
    ASSUME DistinctNames PROVE Spec => []NoticesInOrder
<1>1. NoticeInv /\ OrderInv => NoticesInOrder
  <2>. SUFFICES ASSUME NoticeInv, OrderInv, NEW key \in Keys, NEW n \in Notifiers, FedByOne(key)
       PROVE  IsPrefix(notices[key][n], Expected(key))
    BY DEF NoticesInOrder
  <2>1. notices[key][n] \in Seq(NoticeType)
    BY DEF NoticeInv, EngineInv
  <2>2. Expected(key) \in Seq(NoticeType)
    <3>1. judged[key] \in Seq(Verdict) /\ Ranked(judged[key], RuleOf(key).for)
      BY DEF NoticeInv, EngineInv, RankInv
    <3>. QED
      BY <3>1, NoticesType DEF Expected
  <2>3. ASSUME NEW q \in Producers, Owes(work[q], key, n)
        PROVE  IsPrefix(notices[key][n], Expected(key))
    <3>1. Expected(key) = Append(notices[key][n], work[q].notice)
      BY <2>3 DEF OrderInv
    <3>2. work[q].notice \in NoticeType
      BY <2>3, Notifying DEF NoticeInv, Owes
    <3>. QED
      BY <2>1, <3>1, <3>2, PrefixFacts
  <2>4. ASSUME \A q \in Producers : ~Owes(work[q], key, n)
        PROVE  IsPrefix(notices[key][n], Expected(key))
    <3>1. notices[key][n] = IF n \in Targets(RuleOf(key)) THEN Expected(key) ELSE <<>>
      BY <2>4 DEF OrderInv
    <3>2. [since |-> 0, firing |-> FALSE] \in NoticeType
      BY DEF NoticeType
    <3>. QED
      BY <2>2, <3>1, <3>2, PrefixFacts
  <2>. QED
    BY <2>3, <2>4
<1>. QED
  BY <1>1, NoticeAlways, PTL

-----------------------------------------------------------------------------
(* Every transition is notified exactly once *)

\* The goroutines that still have the notice x to give to the notifier n.
Owing(key, n, x) == {p \in Producers : Owes(work[p], key, n) /\ work[p].notice = x}

\* What was sent and what is still owed make up what is expected.
BagInv ==
    \A key \in Keys, n \in Notifiers : \A x :
        IF n \in Targets(RuleOf(key))
        THEN Count(notices[key][n], x) + Cardinality(Owing(key, n, x)) = Count(Expected(key), x)
        ELSE notices[key][n] = <<>>

LEMMA BagAt ==
    ASSUME BagInv, NEW key \in Keys, NEW n \in Notifiers, NEW x
    PROVE  /\ n \in Targets(RuleOf(key)) =>
                 Count(notices[key][n], x) + Cardinality(Owing(key, n, x))
                    = Count(Expected(key), x)
           /\ n \notin Targets(RuleOf(key)) => notices[key][n] = <<>>
BY DEF BagInv

LEMMA OwingFinite ==
    ASSUME NEW key, NEW n, NEW x
    PROVE  IsFiniteSet(Owing(key, n, x)) /\ Cardinality(Owing(key, n, x)) \in Nat
<1>1. Owing(key, n, x) \subseteq Producers
  BY DEF Owing
<1>. QED
  BY <1>1, AlertAssumption, FS_Subset, FS_CardinalityType

LEMMA CountNone == ASSUME NEW x PROVE Count(<<>>, x) = 0
<1>1. {i \in 1..Len(<<>>) : <<>>[i] = x} = {}
  OBVIOUS
<1>. QED
  BY <1>1, FS_EmptySet DEF Count

LEMMA BagInit == ASSUME Init PROVE BagInv
<1>. SUFFICES ASSUME NEW key \in Keys, NEW n \in Notifiers, NEW x
     PROVE  IF n \in Targets(RuleOf(key))
            THEN Count(notices[key][n], x) + Cardinality(Owing(key, n, x))
                    = Count(Expected(key), x)
            ELSE notices[key][n] = <<>>
  BY DEF BagInv
<1>1. notices[key][n] = <<>> /\ judged[key] = <<>>
  BY DEF Init
<1>2. Owing(key, n, x) = {} /\ Cardinality({}) = 0
  BY FS_EmptySet DEF Init, Owing, Owes, Idle
<1>3. Expected(key) = <<>>
  <2>1. Transitions(<<>>, RuleOf(key).for) = {}
    BY DEF Transitions
  <2>2. Cardinality(Transitions(<<>>, RuleOf(key).for)) = 0
    BY <2>1, FS_EmptySet
  <2>3. 1..0 = {}
    OBVIOUS
  <2>. QED
    BY <1>1, <2>2, <2>3 DEF Expected, Notices
<1>. QED
  BY <1>1, <1>2, <1>3, CountNone

LEMMA SilentKeepsBags ==
    ASSUME BagInv, Silent PROVE BagInv'
<1>. SUFFICES ASSUME NEW key \in Keys, NEW n \in Notifiers, NEW x
     PROVE  IF n \in Targets(RuleOf(key))
            THEN Count(notices'[key][n], x) + Cardinality(Owing(key, n, x)')
                    = Count(Expected(key)', x)
            ELSE notices'[key][n] = <<>>
  BY DEF BagInv
<1>1. Owing(key, n, x)' = Owing(key, n, x)
  BY DEF Owing, Silent, SameDebts
<1>2. Expected(key)' = Expected(key) /\ notices' = notices
  BY ExpectedSame DEF Silent
<1>. QED
  BY <1>1, <1>2, BagAt

LEMMA DecisionKeepsBags ==
    ASSUME DistinctNames, NoticeInv, BagInv, NEW p \in Producers, Decision(p) PROVE BagInv'
<1>. SUFFICES ASSUME NEW key \in Keys, NEW n \in Notifiers, NEW x
     PROVE  IF n \in Targets(RuleOf(key))
            THEN Count(notices'[key][n], x) + Cardinality(Owing(key, n, x)')
                    = Count(Expected(key)', x)
            ELSE notices'[key][n] = <<>>
  BY DEF BagInv
<1>. DEFINE d == RuleOf(key).for
            u == judged'[key]
            e == NoticeAt(u, d, Len(judged[key]) + 1)
            moved == FiringAt(u, d, Len(judged[key]) + 1) # FiringAt(u, d, Len(judged[key]))
<1>1. /\ notices' = notices /\ \A q \in Producers \ {p} : work'[q] = work[q]
      /\ ~Owes(work[p], key, n)
  BY DecisionDebts DEF NoticeInv
<1>2. notices[key][n] \in Seq(NoticeType)
  BY DEF NoticeInv, EngineInv
<1>3. p \notin Owing(key, n, x)
  BY <1>1 DEF Owing
<1>4. CASE key = KeyOf(work[p])
  <2>1. /\ Owes(work'[p], key, n) <=> moved /\ n \in Targets(RuleOf(key))
        /\ Owes(work'[p], key, n) => work'[p].notice = e
    BY <1>4, DecisionDebts DEF NoticeInv
  <2>2. /\ Expected(key) \in Seq(NoticeType) /\ e \in NoticeType
        /\ Expected(key)' = IF moved THEN Append(Expected(key), e) ELSE Expected(key)
    BY <1>4, DecisionExpects
  <2>. HIDE DEF moved, e
  <2>3. Owing(key, n, x)' = IF moved /\ n \in Targets(RuleOf(key)) /\ x = e
                            THEN Owing(key, n, x) \cup {p} ELSE Owing(key, n, x)
    BY <1>1, <2>1 DEF Owing
  <2>4. CASE n \notin Targets(RuleOf(key))
    BY <1>1, <2>4, BagAt
  <2>5. CASE n \in Targets(RuleOf(key))
    <3>1. Count(Expected(key), x) \in Nat /\ Count(notices[key][n], x) \in Nat
          /\ Count(Expected(key)', x) = Count(Expected(key), x)
                                          + (IF moved /\ x = e THEN 1 ELSE 0)
      <4>1. Count(Expected(key), x) \in Nat
        BY <2>2, CountAppended
      <4>2. Count(notices[key][n], x) \in Nat
        BY <1>2, <2>2, CountAppended
      <4>3. Count(Append(Expected(key), e), x) = Count(Expected(key), x)
                                                   + (IF x = e THEN 1 ELSE 0)
        BY <2>2, CountAppended
      <4>. QED
        BY <2>2, <4>1, <4>2, <4>3
    <3>2. Cardinality(Owing(key, n, x)) \in Nat
          /\ Cardinality(Owing(key, n, x)') = Cardinality(Owing(key, n, x))
                                                + (IF moved /\ x = e THEN 1 ELSE 0)
      <4>1. IsFiniteSet(Owing(key, n, x)) /\ Cardinality(Owing(key, n, x)) \in Nat
        BY OwingFinite
      <4>2. CASE moved /\ x = e
        <5>1. Owing(key, n, x)' = Owing(key, n, x) \cup {p}
          BY <2>3, <2>5, <4>2
        <5>. QED
          BY <1>3, <4>1, <4>2, <5>1, FS_AddElement
      <4>3. CASE ~(moved /\ x = e)
        <5>1. Owing(key, n, x)' = Owing(key, n, x)
          BY <2>3, <4>3
        <5>. QED
          BY <4>1, <4>3, <5>1
      <4>. QED
        BY <4>1, <4>2, <4>3
    <3>3. Count(notices[key][n], x) + Cardinality(Owing(key, n, x)) = Count(Expected(key), x)
      BY <2>5, BagAt
    <3>. QED
      BY <1>1, <2>5, <3>1, <3>2, <3>3
  <2>. QED
    BY <2>4, <2>5
<1>5. CASE key # KeyOf(work[p])
  <2>1. ~Owes(work'[p], key, n)
    BY <1>5, DecisionDebts DEF NoticeInv
  <2>2. Expected(key)' = Expected(key)
    <3>1. PICK c : c = KeyOf(work[p])
      OBVIOUS
    <3>2. \A j \in Keys \ {c} : Expected(j)' = Expected(j)
      BY <3>1, DecisionExpects
    <3>. QED
      BY <1>5, <3>1, <3>2
  <2>3. Owing(key, n, x)' = Owing(key, n, x)
    BY <1>1, <2>1 DEF Owing
  <2>. QED
    BY <1>1, <2>2, <2>3, BagAt
<1>. QED
  BY <1>4, <1>5

LEMMA NotificationKeepsBags ==
    ASSUME DistinctNames, NoticeInv, BagInv, NEW p \in Producers, NEW m \in Notifiers,
           Notification(p, m)
    PROVE  BagInv'
<1>. SUFFICES ASSUME NEW key \in Keys, NEW n \in Notifiers, NEW x
     PROVE  IF n \in Targets(RuleOf(key))
            THEN Count(notices'[key][n], x) + Cardinality(Owing(key, n, x)')
                    = Count(Expected(key)', x)
            ELSE notices'[key][n] = <<>>
  BY DEF BagInv
<1>. DEFINE mine == KeyOf(work[p])
            e == work[p].notice
<1>1. /\ judged' = judged /\ Owes(work[p], mine, m) /\ e \in NoticeType
      /\ \A k, j : Owes(work[p], k, j) => k = mine
      /\ \A q \in Producers \ {p} : work'[q] = work[q]
      /\ \A k, j : /\ Owes(work'[p], k, j) <=> Owes(work[p], k, j) /\ j # m
                   /\ Owes(work'[p], k, j) => work'[p].notice = e
  BY DEF Notification
<1>2. notices'[key][n] = IF key = mine /\ n = m THEN Append(notices[key][n], e)
                                                ELSE notices[key][n]
  BY DEF Notification
<1>. HIDE DEF mine, e
<1>3. Expected(key)' = Expected(key)
  BY <1>1, ExpectedSame
<1>4. CASE key = mine /\ n = m
  <2>1. n \in Targets(RuleOf(key))
    BY <1>1, <1>4 DEF NoticeInv, DebtInv
  <2>2. Owing(key, n, x)' = Owing(key, n, x) \ {p} /\ (p \in Owing(key, n, x) <=> x = e)
    BY <1>1, <1>4 DEF Owing, e
  <2>3. IsFiniteSet(Owing(key, n, x)) /\ Cardinality(Owing(key, n, x)) \in Nat
    BY OwingFinite
  <2>4. Cardinality(Owing(key, n, x)') = Cardinality(Owing(key, n, x))
                                           - (IF x = e THEN 1 ELSE 0)
    <3>1. CASE x = e
      BY <2>2, <2>3, <3>1, FS_RemoveElement
    <3>2. CASE x # e
      <4>1. Owing(key, n, x)' = Owing(key, n, x)
        BY <2>2, <3>2
      <4>. QED
        BY <2>3, <3>2, <4>1
    <3>. QED
      BY <3>1, <3>2
  <2>5. notices[key][n] \in Seq(NoticeType)
    BY DEF NoticeInv, EngineInv
  <2>6. Count(notices[key][n], x) \in Nat
        /\ Count(notices'[key][n], x) = Count(notices[key][n], x) + (IF x = e THEN 1 ELSE 0)
    BY <1>1, <1>2, <1>4, <2>5, CountAppended
  <2>7. Count(notices[key][n], x) + Cardinality(Owing(key, n, x)) = Count(Expected(key), x)
    BY <2>1, BagAt
  <2>. QED
    BY <1>3, <2>1, <2>3, <2>4, <2>6, <2>7
<1>5. CASE ~(key = mine /\ n = m)
  <2>1. Owing(key, n, x)' = Owing(key, n, x)
    BY <1>1, <1>5 DEF Owing, e
  <2>2. notices'[key][n] = notices[key][n]
    BY <1>2, <1>5
  <2>. QED
    BY <1>3, <2>1, <2>2, BagAt
<1>. QED
  BY <1>4, <1>5

LEMMA BagAlways == ASSUME DistinctNames PROVE Spec => [](NoticeInv /\ BagInv)
<1>1. Init => NoticeInv /\ BagInv
  BY NoticeInit, BagInit
<1>2. NoticeInv /\ BagInv /\ [Next]_vars => (NoticeInv /\ BagInv)'
  BY NoticeStep, NoticeSteps, SilentKeepsBags, DecisionKeepsBags, NotificationKeepsBags
<1>. QED
  BY <1>1, <1>2, PTL DEF Spec

\* When the calls for a key are over, each of its rule's notifiers has heard of
\* every transition exactly once, whichever calls failed and whichever
\* evaluations of other goroutines overlapped (evaluate and dispatch,
\* engine.go), and the notifiers of other rules have heard of none.
THEOREM EveryTransitionAlwaysNotified ==
    ASSUME DistinctNames PROVE Spec => []EveryTransitionNotified
<1>1. NoticeInv /\ BagInv => EveryTransitionNotified
  <2>. SUFFICES ASSUME NoticeInv, BagInv, NEW key \in Keys, NEW n \in Notifiers, Quiet(key)
       PROVE  IF n \in Targets(RuleOf(key))
              THEN \A x \in ToSet(Expected(key)) \cup ToSet(notices[key][n]) :
                      Count(notices[key][n], x) = Count(Expected(key), x)
              ELSE notices[key][n] = <<>>
    BY DEF EveryTransitionNotified
  <2>1. ASSUME NEW x, n \in Targets(RuleOf(key))
        PROVE  Count(notices[key][n], x) = Count(Expected(key), x)
    <3>1. Owing(key, n, x) = {}
      BY DEF Owing, Owes, Quiet
    <3>2. Cardinality(Owing(key, n, x)) = 0
      BY <3>1, FS_EmptySet
    <3>3. Count(notices[key][n], x) \in Nat
      <4>1. notices[key][n] \in Seq(NoticeType)
        BY DEF NoticeInv, EngineInv
      <4>2. [since |-> 0, firing |-> FALSE] \in NoticeType
        BY DEF NoticeType
      <4>. QED
        BY <4>1, <4>2, CountAppended
    <3>4. Count(notices[key][n], x) + Cardinality(Owing(key, n, x)) = Count(Expected(key), x)
      BY <2>1, BagAt
    <3>. QED
      BY <3>2, <3>3, <3>4
  <2>. QED
    BY <2>1, BagAt
<1>. QED
  BY <1>1, BagAlways, PTL

-----------------------------------------------------------------------------
(* The window of a rate of change *)

\* The index of the earliest point of the window that ends at the i-th.
Oldest(t, i, window) == Min({k \in 1..i : t[k].time >= t[i].time - window})

Ordered(t) == \A i, k \in 1..Len(t) : i < k => t[i].time <= t[k].time

\* The history h that a rule of this window keeps of the points t.
HistoryAs(h, t, window) ==
    IF Len(t) = 0 THEN Len(h) = 0
    ELSE /\ Len(h) = Len(t) - Oldest(t, Len(t), window) + 1
         /\ \A i \in 1..Len(h) : h[i] = t[Oldest(t, Len(t), window) + i - 1]

LEMMA PointFields ==
    ASSUME NEW t \in Seq(Point), NEW i \in 1..Len(t)
    PROVE  t[i].time \in Nat /\ t[i].value \in Int
<1>1. t[i] \in Point
  BY ElementOfSeq
<1>. QED
  BY <1>1 DEF Point

LEMMA OldestIs ==
    ASSUME NEW t \in Seq(Point), NEW i \in 1..Len(t), NEW window \in Nat
    PROVE  /\ Oldest(t, i, window) \in 1..i
           /\ t[Oldest(t, i, window)].time >= t[i].time - window
           /\ \A k \in 1..i : t[k].time >= t[i].time - window => Oldest(t, i, window) <= k
<1>. DEFINE S == {k \in 1..i : t[k].time >= t[i].time - window}
<1>1. t[i].time \in Nat /\ i \in 1..i
  BY PointFields
<1>2. i \in S /\ S \subseteq Nat
  BY <1>1
<1>3. Min(S) \in S /\ \A k \in S : Min(S) <= k
  BY <1>2, LeastOf
<1>. QED
  BY <1>3 DEF Oldest

\* A history leaves out the points before some index.
LEMMA HistoryBase ==
    ASSUME NEW t \in Seq(Point), NEW h \in Seq(Point), NEW window \in Nat,
           HistoryAs(h, t, window)
    PROVE  \E b \in 0..Len(t) :
              /\ Len(h) = Len(t) - b /\ \A i \in 1..Len(h) : h[i] = t[b + i]
              /\ Len(t) > 0 => b + 1 = Oldest(t, Len(t), window)
<1>1. Len(t) \in Nat /\ Len(h) \in Nat
  BY LenProperties
<1>2. CASE Len(t) = 0
  <2>1. Len(h) = 0 /\ 0 \in 0..Len(t)
    BY <1>1, <1>2 DEF HistoryAs
  <2>2. 1..0 = {}
    OBVIOUS
  <2>3. PICK b : b = 0
    OBVIOUS
  <2>4. b \in 0..Len(t) /\ Len(h) = Len(t) - b /\ ~(Len(t) > 0)
    BY <1>2, <2>1, <2>3
  <2>5. \A i \in 1..Len(h) : h[i] = t[b + i]
    BY <2>1, <2>2
  <2>. QED
    BY <2>4, <2>5
<1>3. CASE Len(t) # 0
  <2>. DEFINE o == Oldest(t, Len(t), window)
  <2>1. Len(h) = Len(t) - o + 1 /\ \A i \in 1..Len(h) : h[i] = t[o + i - 1]
    BY <1>3 DEF HistoryAs
  <2>2. o \in 1..Len(t)
    <3>1. Len(t) \in 1..Len(t)
      BY <1>1, <1>3
    <3>. QED
      BY <3>1, OldestIs
  <2>. HIDE DEF o
  <2>3. o - 1 \in 0..Len(t) /\ Len(h) = Len(t) - (o - 1) /\ (o - 1) + 1 = o
    BY <1>1, <2>1, <2>2
  <2>4. \A i \in 1..Len(h) : o + i - 1 = (o - 1) + i
    BY <1>1, <2>2
  <2>5. \A i \in 1..Len(h) : h[i] = t[(o - 1) + i]
    BY <2>1, <2>4
  <2>. QED
    BY <2>3, <2>5 DEF o
<1>. QED
  BY <1>2, <1>3

\* updateHistory keeps what the window needs, if time does not go back.
LEMMA HistoryGrows ==
    ASSUME NEW t \in Seq(Point), NEW h \in Seq(Point), NEW pt \in Point, NEW window \in Nat,
           HistoryAs(h, t, window), Ordered(Append(t, pt))
    PROVE  HistoryAs(Pruned(Append(h, pt), pt.time - window), Append(t, pt), window)
<1>. DEFINE u == Append(t, pt)
            g == Append(h, pt)
            n == Len(t)
            cutoff == pt.time - window
            o == Oldest(u, n + 1, window)
            young == {i \in 1..Len(g) : ~(g[i].time < cutoff)}
            a == Min(young)
            new == SubSeq(g, a, Len(g))
<1>1. PICK b \in 0..n :
         /\ Len(h) = n - b /\ \A i \in 1..Len(h) : h[i] = t[b + i]
         /\ n > 0 => b + 1 = Oldest(t, n, window)
  BY HistoryBase
<1>2. /\ n \in Nat /\ u \in Seq(Point) /\ Len(u) = n + 1 /\ u[n + 1] = pt
      /\ \A i \in 1..n : u[i] = t[i]
  BY LenProperties, AppendProperties
<1>3. /\ g \in Seq(Point) /\ Len(g) = n - b + 1 /\ g[n - b + 1] = pt
      /\ \A i \in 1..(n - b) : g[i] = h[i]
  BY <1>1, AppendProperties
<1>4. pt.time \in Nat /\ cutoff \in Int /\ cutoff <= pt.time
  BY DEF Point
<1>5. n + 1 \in 1..(n + 1) /\ \A i \in 1..(n + 1) : u[i].time \in Nat
  <2>. HIDE DEF u
  <2>. QED
    BY <1>2, PointFields
<1>6. \A i, k \in 1..(n + 1) : i < k => u[i].time <= u[k].time
  BY <1>2 DEF Ordered
<1>7. /\ o \in 1..(n + 1) /\ u[o].time >= cutoff
      /\ \A k \in 1..(n + 1) : u[k].time >= cutoff => o <= k
  <2>. HIDE DEF u, o
  <2>1. o \in 1..(n + 1) /\ u[o].time >= u[n + 1].time - window
        /\ \A k \in 1..(n + 1) : u[k].time >= u[n + 1].time - window => o <= k
    BY <1>2, <1>5, OldestIs DEF o
  <2>. QED
    BY <1>2, <2>1
<1>. HIDE DEF o
<1>8. \A i \in 1..(n - b + 1) : g[i] = u[b + i]
  <2>. SUFFICES ASSUME NEW i \in 1..(n - b + 1) PROVE g[i] = u[b + i]
    OBVIOUS
  <2>. HIDE DEF u, g
  <2>1. CASE i = n - b + 1
    <3>1. b + i = n + 1
      BY <1>2, <2>1
    <3>. QED
      BY <1>2, <1>3, <2>1, <3>1
  <2>2. CASE i # n - b + 1
    <3>1. i \in 1..(n - b) /\ b + i \in 1..n
      BY <1>2, <2>2
    <3>. QED
      BY <1>1, <1>2, <1>3, <3>1
  <2>. QED
    BY <2>1, <2>2
<1>9. o > b
  <2>1. CASE n = 0
    BY <1>7, <2>1
  <2>2. CASE n > 0
    <3>1. /\ b + 1 = Oldest(t, n, window) /\ n \in 1..n
      BY <1>1, <1>2, <2>2
    <3>2. \A k \in 1..n : t[k].time >= t[n].time - window => b + 1 <= k
      BY <3>1, OldestIs
    <3>. HIDE DEF u
    <3>3. ASSUME o <= n PROVE b + 1 <= o
      <4>1. o \in 1..n
        BY <1>7, <3>3
      <4>2. t[n].time <= pt.time /\ t[o].time >= cutoff /\ t[n].time \in Nat /\ t[o].time \in Nat
        <5>1. u[n] = t[n] /\ u[o] = t[o] /\ u[n].time <= u[n + 1].time
          BY <1>2, <1>6, <2>2, <4>1
        <5>2. t[n].time \in Nat /\ t[o].time \in Nat
          BY <3>1, <4>1, PointFields
        <5>. QED
          BY <1>2, <1>7, <5>1, <5>2
      <4>3. t[o].time >= t[n].time - window
        <5>1. pt.time - window >= t[n].time - window
          BY <1>4, <4>2
        <5>. QED
          BY <1>4, <4>2, <5>1
      <4>. QED
        BY <3>2, <4>1, <4>3
    <3>. QED
      BY <1>2, <1>7, <3>3
  <2>. QED
    BY <1>2, <2>1, <2>2
<1>. HIDE DEF u, g
<1>10. /\ a \in 1..(n - b + 1) /\ ~(g[a].time < cutoff)
       /\ \A i \in 1..(n - b + 1) : ~(g[i].time < cutoff) => a <= i
  <2>1. n - b + 1 \in young /\ young \subseteq Nat
    BY <1>2, <1>3, <1>4
  <2>2. a \in young /\ \A i \in young : a <= i
    <3>. HIDE DEF young
    <3>. QED
      BY <2>1, LeastOf
  <2>. QED
    BY <1>3, <2>2
<1>. HIDE DEF a
<1>11. b + a = o
  <2>1. g[a] = u[b + a] /\ b + a \in 1..(n + 1)
    BY <1>2, <1>8, <1>10
  <2>2. o <= b + a
    BY <1>4, <1>5, <1>7, <1>10, <2>1
  <2>3. o - b \in 1..(n - b + 1) /\ b + (o - b) = o
    BY <1>2, <1>7, <1>9
  <2>4. g[o - b] = u[o]
    BY <1>8, <2>3
  <2>5. a <= o - b
    BY <1>4, <1>5, <1>7, <1>10, <2>3, <2>4
  <2>. QED
    BY <1>7, <1>10, <2>2, <2>5
<1>12. /\ Len(new) = (n - b + 1) - a + 1
       /\ \A i \in 1..((n - b + 1) - a + 1) : new[i] = g[a + i - 1]
  <2>1. \A i \in a..Len(g) : g[i] \in Point
    BY <1>2, <1>3, <1>10, ElementOfSeq
  <2>2. a \in Int /\ Len(g) \in Int /\ a <= Len(g) /\ Len(g) = n - b + 1
    BY <1>2, <1>3, <1>10
  <2>. QED
    BY <2>1, <2>2, SubSeqProperties
<1>. HIDE DEF new
<1>13. Len(new) = Len(u) - o + 1
  BY <1>2, <1>10, <1>11, <1>12
<1>14. ASSUME NEW i \in 1..Len(new) PROVE new[i] = u[o + i - 1]
  <2>1. a + i - 1 \in 1..(n - b + 1) /\ b + (a + i - 1) = o + i - 1
    BY <1>2, <1>10, <1>11, <1>12
  <2>2. new[i] = g[a + i - 1]
    BY <1>12
  <2>3. g[a + i - 1] = u[b + (a + i - 1)]
    BY <1>8, <2>1
  <2>. QED
    BY <2>1, <2>2, <2>3
<1>15. new = Pruned(g, cutoff)
  BY DEF Pruned, new, a
<1>16. HistoryAs(new, u, window)
  <2>1. Len(u) # 0 /\ o = Oldest(u, Len(u), window)
    BY <1>2 DEF o
  <2>. QED
    BY <1>13, <1>14, <2>1 DEF HistoryAs
<1>. QED
  BY <1>15, <1>16 DEF u, g

\* The verdict that the points themselves call for.
RateAt(t, i, cond) ==
    LET old == t[Oldest(t, i, cond.window)]
        new == t[i]
    IN  /\ new.time > old.time
        /\ Compare(new.value - old.value, cond.op, cond.value * (new.time - old.time))

LEMMA RateSame ==
    ASSUME NEW t \in Seq(Point), NEW u \in Seq(Point), Len(t) <= Len(u),
           \A k \in 1..Len(t) : u[k] = t[k], NEW i \in 1..Len(t), NEW cond, cond.window \in Nat
    PROVE  RateAt(u, i, cond) = RateAt(t, i, cond)
<1>. DEFINE n == Len(t)
<1>1. n \in Nat /\ Len(u) \in Nat
  BY LenProperties
<1>2. {k \in 1..i : u[k].time >= u[i].time - cond.window}
         = {k \in 1..i : t[k].time >= t[i].time - cond.window}
  <2>1. ASSUME NEW k \in 1..i PROVE u[k] = t[k] /\ u[i] = t[i]
    BY <1>1
  <2>. QED
    BY <2>1
<1>3. Oldest(u, i, cond.window) = Oldest(t, i, cond.window)
  BY <1>2 DEF Oldest
<1>4. Oldest(t, i, cond.window) \in 1..n
  <2>1. Oldest(t, i, cond.window) \in 1..i
    BY OldestIs
  <2>. QED
    BY <1>1, <2>1
<1>5. u[i] = t[i] /\ u[Oldest(t, i, cond.window)] = t[Oldest(t, i, cond.window)]
  BY <1>4
<1>. QED
  BY <1>3, <1>5 DEF RateAt

\* evaluate, on a history that keeps what the window needs.
LEMMA RateOfHistory ==
    ASSUME NEW t \in Seq(Point), Len(t) > 0, NEW h \in Seq(Point), NEW cond \in Conditions,
           cond.type = "rate_of_change", HistoryAs(h, t, cond.window),
           NEW sample, sample.time = t[Len(t)].time, sample.value = t[Len(t)].value
    PROVE  Holds(cond, sample, h) = RateAt(t, Len(t), cond)
<1>. DEFINE n == Len(t)
            o == Oldest(t, n, cond.window)
<1>1. n \in Nat /\ n \in 1..n /\ cond.window \in Nat /\ cond.value \in Int
      /\ cond.op \in Operators
  BY LenProperties, ConditionFields
<1>2. o \in 1..n
  BY <1>1, OldestIs
<1>3. Len(h) = n - o + 1 /\ \A i \in 1..Len(h) : h[i] = t[o + i - 1]
  BY <1>1 DEF HistoryAs
<1>. HIDE DEF o
<1>4. h # <<>> /\ h[1] = t[o]
  <2>1. Len(h) >= 1 /\ o + 1 - 1 = o
    BY <1>1, <1>2, <1>3
  <2>2. h[1] = t[o + 1 - 1]
    BY <1>3, <2>1
  <2>3. h # <<>>
    <3>1. Len(<<>>) = 0
      OBVIOUS
    <3>. QED
      BY <2>1, <3>1
  <2>. QED
    BY <2>1, <2>2, <2>3
<1>5. /\ t[n].time \in Nat /\ t[n].value \in Int /\ t[o].time \in Nat /\ t[o].value \in Int
  BY <1>1, <1>2, PointFields
<1>6. Holds(cond, sample, h) = RateHolds(cond, sample, h)
  BY DEF Holds
<1>. DEFINE c == Compare(t[n].value - t[o].value, cond.op, cond.value * (t[n].time - t[o].time))
<1>7. RateHolds(cond, sample, h) <=> t[n].time - t[o].time > 0 /\ c
  BY <1>4 DEF RateHolds
<1>8. RateAt(t, n, cond) <=> t[n].time > t[o].time /\ c
  BY DEF RateAt, o
<1>9. t[n].time - t[o].time > 0 <=> t[n].time > t[o].time
  BY <1>5
<1>. HIDE DEF c
<1>10. RateHolds(cond, sample, h) <=> RateAt(t, n, cond)
  BY <1>7, <1>8, <1>9
<1>11. RateHolds(cond, sample, h) \in BOOLEAN /\ RateAt(t, n, cond) \in BOOLEAN
  BY DEF RateHolds, RateAt
<1>. QED
  BY <1>6, <1>10, <1>11

\* The evaluation w has read the history of the key and is about to decide.
AtVerdict(w, key) == w.stage = "decide" /\ KeyOf(w) = key

\* The goroutines that are there.
AtVerdicts(key) == {p \in Producers : AtVerdict(work[p], key)}

\* The history h, the points t and the verdicts j of a key, and the evaluations
\* of it that have read h and not yet decided.
RateAs(key, h, t, j, deciding) ==
    /\ Ordered(t) =>
          /\ HistoryAs(h, t, RuleOf(key).cond.window)
          /\ \A i \in 1..Len(j) : j[i].holds = RateAt(t, i, RuleOf(key).cond)
    /\ \A w \in deciding :
          /\ Len(t) = Len(j) + 1 /\ w.hist = h
          /\ w.sample.time = t[Len(t)].time /\ w.sample.value = t[Len(t)].value
    /\ deciding = {} => Len(t) = Len(j)

RateOf(key) == RuleOf(key).cond.type = "rate_of_change" /\ FedByOne(key)

RateInv ==
    \A key \in Keys : RateOf(key) =>
        RateAs(key, history[key], taken[key], judged[key],
               {work[p] : p \in AtVerdicts(key)})

\* A rule with a window decides only after its history was updated.
LEMMA NextRuleUnread ==
    ASSUME DistinctNames, NEW sample \in SampleType, NEW i \in Nat \ {0}, NEW key,
           AtVerdict(FromRule(sample, i), key)
    PROVE  RuleOf(key).cond.type # "rate_of_change"
<1>. DEFINE w == FromRule(sample, i)
            j == Min(Matching(sample, i))
<1>1. Matching(sample, i) # {}
  BY DEF AtVerdict, FromRule, Idle
<1>2. w = [stage |-> IF Rules[j].cond.window > 0 THEN "history" ELSE "decide",
           sample |-> sample, rule |-> j, hist |-> <<>>]
  BY <1>1 DEF FromRule
<1>3. j \in 1..Len(Rules)
  <2>1. Matching(sample, i) \subseteq 1..Len(Rules)
    BY RuleFields, AlertAssumption, LenProperties DEF Matching
  <2>2. Matching(sample, i) \subseteq Nat
    BY <2>1
  <2>. QED
    BY <1>1, <2>1, <2>2, LeastOf
<1>. HIDE DEF j
<1>4. ~(Rules[j].cond.window > 0) /\ w.rule = j /\ w.sample = sample
  BY <1>2 DEF AtVerdict
<1>. HIDE DEF w
<1>5. KeyOf(w) \in Keys
  BY <1>3, <1>4 DEF KeyOf, Keys, SampleType
<1>6. RuleOf(KeyOf(w)) = Rules[j]
  BY <1>3, <1>4, <1>5, RuleOfWork
<1>7. key = KeyOf(w)
  BY DEF AtVerdict, w
<1>8. Rules[j].cond.type # "rate_of_change"
  BY <1>3, <1>4, RuleFields
<1>. QED
  BY <1>6, <1>7, <1>8

LEMMA RateInit == ASSUME Init PROVE RateInv
<1>. SUFFICES ASSUME NEW key \in Keys
     PROVE  RateAs(key, history[key], taken[key], judged[key],
                   {work[p] : p \in AtVerdicts(key)})
  BY DEF RateInv
<1>1. history[key] = <<>> /\ taken[key] = <<>> /\ judged[key] = <<>>
  BY DEF Init
<1>2. Len(<<>>) = 0
  OBVIOUS
<1>3. 1..0 = {}
  OBVIOUS
<1>4. AtVerdicts(key) = {}
  BY DEF Init, AtVerdicts, AtVerdict, Idle
<1>5. HistoryAs(<<>>, <<>>, RuleOf(key).cond.window)
  BY <1>2 DEF HistoryAs
<1>. QED
  BY <1>1, <1>2, <1>3, <1>4, <1>5, Zenon DEF RateAs

\* A step that neither reads a history nor decides on one.
LEMMA RateUndisturbed ==
    ASSUME RateInv, NEW p \in Producers, work[p].stage # "decide",
           history' = history, taken' = taken, judged' = judged,
           \A q \in Producers \ {p} : work'[q] = work[q],
           \A key \in Keys : AtVerdict(work'[p], key) =>
              RuleOf(key).cond.type # "rate_of_change"
    PROVE  RateInv'
<1>. SUFFICES ASSUME NEW key \in Keys, RateOf(key)
     PROVE  RateAs(key, history'[key], taken'[key], judged'[key],
                   {work'[q] : q \in AtVerdicts(key)'})
  BY DEF RateInv
<1>1. RateAs(key, history[key], taken[key], judged[key], {work[q] : q \in AtVerdicts(key)})
  BY DEF RateInv
<1>2. p \notin AtVerdicts(key) /\ ~AtVerdict(work'[p], key)
  BY DEF AtVerdicts, AtVerdict, RateOf
<1>3. AtVerdicts(key)' = AtVerdicts(key) /\ \A q \in AtVerdicts(key) : work'[q] = work[q]
  BY <1>2 DEF AtVerdicts
<1>4. {work'[q] : q \in AtVerdicts(key)'} = {work[q] : q \in AtVerdicts(key)}
  BY <1>3
<1>. QED
  BY <1>1, <1>4

\* updateHistory as a whole.
Recording(p) ==
    LET w == work[p]
        key == KeyOf(w)
        pt == [time |-> w.sample.time, value |-> w.sample.value]
        hist == Pruned(Append(history[key], pt), pt.time - RuleOf(key).cond.window)
    IN  /\ w.stage = "history" /\ key \in Keys /\ <<p, key[2]>> \in Feeds /\ pt \in Point
        /\ \A q \in Producers \ {p} : work'[q] = work[q]
        /\ work'[p].stage = "decide" /\ KeyOf(work'[p]) = key /\ work'[p].hist = hist
        /\ work'[p].sample.time = pt.time /\ work'[p].sample.value = pt.value
        /\ history'[key] = hist /\ taken'[key] = Append(taken[key], pt)
        /\ \A k \in Keys \ {key} : history'[k] = history[k] /\ taken'[k] = taken[k]
        /\ judged' = judged

LEMMA UpdateRecords ==
    ASSUME EngineInv, DistinctNames, NEW p \in Producers, UpdateHistory(p)
    PROVE  Recording(p)
<1>. DEFINE w == work[p]
            key == KeyOf(w)
            pt == [time |-> w.sample.time, value |-> w.sample.value]
            hist == Pruned(Append(history[key], pt),
                           w.sample.time - Rules[w.rule].cond.window)
            next == [w EXCEPT !.stage = "decide", !.hist = hist]
<1>1. w.stage = "history" /\ work' = [work EXCEPT ![p] = next]
      /\ history' = [history EXCEPT ![key] = hist]
      /\ taken' = [taken EXCEPT ![key] = Append(@, pt)]
      /\ UNCHANGED <<state, ingested, judged, notices>>
  BY DEF UpdateHistory
<1>2. w \in Evaluations /\ key \in Keys /\ pt \in Point /\ <<p, w.sample.series>> \in Feeds
      /\ w.rule \in 1..Len(Rules)
  BY <1>1, Remembering, WorkAt, WorkFields
<1>3. key[2] = w.sample.series
  BY DEF KeyOf
<1>4. RuleOf(key) = Rules[w.rule] /\ pt.time = w.sample.time /\ pt.value = w.sample.value
  BY <1>2, RuleOfWork
<1>. HIDE DEF hist, pt
<1>5. /\ next.stage = "decide" /\ next.hist = hist /\ next.sample = w.sample
      /\ next.rule = w.rule
  BY <1>2 DEF Evaluations
<1>6. KeyOf(next) = key
  BY <1>5 DEF KeyOf
<1>7. work'[p] = next /\ \A q \in Producers \ {p} : work'[q] = work[q]
  BY <1>1 DEF EngineInv
<1>8. /\ history'[key] = hist /\ taken'[key] = Append(taken[key], pt)
      /\ \A k \in Keys \ {key} : history'[k] = history[k] /\ taken'[k] = taken[k]
  BY <1>1, <1>2 DEF EngineInv
<1>9. hist = Pruned(Append(history[key], pt), pt.time - RuleOf(key).cond.window)
  BY <1>4 DEF hist
<1>10. work'[p].sample.time = pt.time /\ work'[p].sample.value = pt.value
  BY <1>4, <1>5, <1>7
<1>. HIDE DEF next, key, w
<1>11. KeyOf(work'[p]) = key /\ work'[p].stage = "decide" /\ work'[p].hist = hist
  BY <1>5, <1>6, <1>7
<1>12. <<p, key[2]>> \in Feeds
  BY <1>2, <1>3
<1>. QED
  BY <1>1, <1>2, <1>7, <1>8, <1>9, <1>10, <1>11, <1>12 DEF Recording, w, key, pt

LEMMA OnlyFeeder ==
    ASSUME EngineInv, NEW key, FedByOne(key), NEW p \in Producers, <<p, key[2]>> \in Feeds
    PROVE  \A q \in AtVerdicts(key) : q = p
<1>. SUFFICES ASSUME NEW q \in AtVerdicts(key) PROVE q = p
  OBVIOUS
<1>1. q \in Producers /\ work[q].stage = "decide" /\ KeyOf(work[q]) = key
  BY DEF AtVerdicts, AtVerdict
<1>2. <<q, key[2]>> \in Feeds
  BY <1>1, WorkAt, WorkFields
<1>. QED
  BY <1>1, <1>2 DEF FedByOne

LEMMA RecordingKeepsRates ==
    ASSUME EngineInv, RateInv, NEW p \in Producers, Recording(p) PROVE RateInv'
<1>. SUFFICES ASSUME NEW key \in Keys, RateOf(key)
     PROVE  RateAs(key, history'[key], taken'[key], judged'[key],
                   {work'[q] : q \in AtVerdicts(key)'})
  BY DEF RateInv
<1>1. RateAs(key, history[key], taken[key], judged[key], {work[q] : q \in AtVerdicts(key)})
  BY DEF RateInv
<1>. DEFINE mine == KeyOf(work[p])
<1>2. /\ \A q \in Producers \ {p} : work'[q] = work[q]
      /\ work[p].stage = "history" /\ <<p, mine[2]>> \in Feeds
      /\ work'[p].stage = "decide" /\ KeyOf(work'[p]) = mine
      /\ judged' = judged
  BY DEF Recording
<1>3. p \notin AtVerdicts(key)
  BY <1>2 DEF AtVerdicts, AtVerdict
<1>4. CASE key = mine
  <2>. DEFINE pt == [time |-> work[p].sample.time, value |-> work[p].sample.value]
              cond == RuleOf(key).cond
              h == history[key]
              t == taken[key]
              j == judged[key]
              hist == Pruned(Append(h, pt), pt.time - cond.window)
              u == Append(t, pt)
              next == work'[p]
  <2>1. /\ pt \in Point /\ history'[key] = hist /\ taken'[key] = u
        /\ next.hist = hist /\ next.sample.time = pt.time /\ next.sample.value = pt.value
    BY <1>4 DEF Recording
  <2>2. AtVerdicts(key) = {}
    BY <1>2, <1>3, <1>4, OnlyFeeder DEF RateOf
  <2>3. AtVerdicts(key)' = {p}
    BY <1>2, <1>4, <2>2 DEF AtVerdicts, AtVerdict
  <2>4. {work'[q] : q \in AtVerdicts(key)'} = {next}
    BY <2>3
  <2>5. Len(t) = Len(j)
    BY <1>1, <2>2 DEF RateAs
  <2>6. cond \in Conditions /\ cond.window \in Nat
    BY RuleOfKey, RuleFields
  <2>7. t \in Seq(Point) /\ h \in Seq(Point) /\ j \in Seq(Verdict)
    BY DEF EngineInv
  <2>. HIDE DEF pt, cond, h, t, j, next, mine
  <2>8. /\ u \in Seq(Point) /\ Len(u) = Len(t) + 1 /\ u[Len(t) + 1] = pt
        /\ Len(t) \in Nat /\ \A i \in 1..Len(t) : u[i] = t[i]
    BY <2>1, <2>7, AppendProperties, LenProperties
  <2>9. ASSUME Ordered(u) PROVE HistoryAs(hist, u, cond.window)
                               /\ \A i \in 1..Len(j) : j[i].holds = RateAt(u, i, cond)
    <3>1. Ordered(t)
      <4>. SUFFICES ASSUME NEW i \in 1..Len(t), NEW k \in 1..Len(t), i < k
           PROVE  t[i].time <= t[k].time
        BY DEF Ordered
      <4>1. i \in 1..Len(u) /\ k \in 1..Len(u) /\ u[i] = t[i] /\ u[k] = t[k]
        BY <2>8
      <4>. QED
        BY <2>9, <4>1 DEF Ordered
    <3>2. HistoryAs(h, t, cond.window) /\ \A i \in 1..Len(j) : j[i].holds = RateAt(t, i, cond)
      BY <1>1, <3>1 DEF RateAs, cond, h, t, j
    <3>3. HistoryAs(hist, u, cond.window)
      BY <2>1, <2>6, <2>7, <2>9, <3>2, HistoryGrows
    <3>4. ASSUME NEW i \in 1..Len(j) PROVE j[i].holds = RateAt(u, i, cond)
      <4>1. i \in 1..Len(t) /\ Len(t) <= Len(u)
        BY <2>5, <2>8
      <4>. HIDE DEF u
      <4>2. RateAt(u, i, cond) = RateAt(t, i, cond)
        BY <2>6, <2>7, <2>8, <4>1, RateSame
      <4>. QED
        BY <3>2, <4>2
    <3>. QED
      BY <3>3, <3>4
  <2>10. /\ Len(u) = Len(j) + 1 /\ next.hist = hist
         /\ next.sample.time = u[Len(u)].time /\ next.sample.value = u[Len(u)].value
    BY <2>1, <2>5, <2>8
  <2>. HIDE DEF hist, u
  <2>11. RateAs(key, hist, u, j, {next})
    BY <2>9, <2>10 DEF RateAs, cond
  <2>. QED
    BY <1>2, <2>1, <2>4, <2>11 DEF j
<1>5. CASE key # mine
  <2>1. history'[key] = history[key] /\ taken'[key] = taken[key]
    BY <1>5 DEF Recording
  <2>2. AtVerdicts(key)' = AtVerdicts(key) /\ \A q \in AtVerdicts(key) : work'[q] = work[q]
    BY <1>2, <1>3, <1>5 DEF AtVerdicts, AtVerdict
  <2>3. {work'[q] : q \in AtVerdicts(key)'} = {work[q] : q \in AtVerdicts(key)}
    BY <2>2
  <2>. QED
    BY <1>1, <1>2, <2>1, <2>3
<1>. QED
  BY <1>4, <1>5

LEMMA DecisionKeepsRates ==
    ASSUME EngineInv, StateInv, DistinctNames, RateInv, NEW p \in Producers, Decision(p)
    PROVE  RateInv'
<1>. SUFFICES ASSUME NEW key \in Keys, RateOf(key)
     PROVE  RateAs(key, history'[key], taken'[key], judged'[key],
                   {work'[q] : q \in AtVerdicts(key)'})
  BY DEF RateInv
<1>1. RateAs(key, history[key], taken[key], judged[key], {work[q] : q \in AtVerdicts(key)})
  BY DEF RateInv
<1>. DEFINE w == work[p]
            mine == KeyOf(w)
            x == VerdictOf(w)
<1>2. /\ w.stage = "decide" /\ \A q \in Producers \ {p} : work'[q] = work[q]
      /\ <<p, mine[2]>> \in Feeds
  BY DecisionDebts
<1>3. history' = history /\ taken' = taken
  BY DEF Decision
<1>4. judged'[mine] = Append(judged[mine], x) /\ \A k \in Keys \ {mine} : judged'[k] = judged[k]
  BY Decides
<1>5. /\ w \in Evaluations /\ w.sample \in SampleType /\ w.rule \in 1..Len(Rules)
      /\ w.rule + 1 \in Nat \ {0} /\ x \in Verdict /\ mine \in Keys
  BY <1>2, Deciding
<1>6. ~AtVerdict(work'[p], key)
  <2>. DEFINE d == RuleOf(mine).for
              n == Len(judged[mine])
              u == Append(judged[mine], x)
              told == [stage |-> "notify", sample |-> w.sample, rule |-> w.rule,
                       notice |-> NoticeAt(u, d, n + 1), left |-> Targets(RuleOf(mine))]
  <2>1. work'[p] = told \/ work'[p] = FromRule(w.sample, w.rule + 1)
    <3>1. work' = [work EXCEPT ![p] =
             IF FiringAt(u, d, n + 1) # FiringAt(u, d, n) /\ Targets(RuleOf(mine)) # {}
             THEN told ELSE FromRule(w.sample, w.rule + 1)]
      BY DEF Decision
    <3>. HIDE DEF told
    <3>. QED
      BY <3>1 DEF EngineInv
  <2>2. told.stage = "notify"
    OBVIOUS
  <2>. HIDE DEF told
  <2>3. ~AtVerdict(told, key)
    BY <2>2 DEF AtVerdict
  <2>4. ~AtVerdict(FromRule(w.sample, w.rule + 1), key)
    BY <1>5, NextRuleUnread DEF RateOf
  <2>. QED
    BY <2>1, <2>3, <2>4
<1>7. CASE key = mine
  <2>. DEFINE cond == RuleOf(key).cond
              h == history[key]
              t == taken[key]
              j == judged[key]
              n == Len(j)
              v == Append(j, x)
  <2>1. p \in AtVerdicts(key)
    BY <1>2, <1>7 DEF AtVerdicts, AtVerdict
  <2>2. AtVerdicts(key)' = {}
    <3>1. \A q \in AtVerdicts(key) : q = p
      BY <1>2, <1>7, OnlyFeeder DEF RateOf
    <3>. QED
      BY <1>2, <1>6, <3>1 DEF AtVerdicts
  <2>3. {work'[q] : q \in AtVerdicts(key)'} = {}
    BY <2>2
  <2>4. /\ Len(t) = n + 1 /\ w.hist = h
        /\ w.sample.time = t[Len(t)].time /\ w.sample.value = t[Len(t)].value
    BY <1>1, <2>1 DEF RateAs
  <2>5. cond \in Conditions /\ cond.type = "rate_of_change" /\ cond = Rules[w.rule].cond
    BY <1>5, <1>7, RuleOfKey, RuleOfWork, RuleFields DEF RateOf
  <2>6. t \in Seq(Point) /\ h \in Seq(Point) /\ j \in Seq(Verdict)
    BY DEF EngineInv
  <2>7. x.holds = Holds(cond, w.sample, w.hist)
    BY <2>5 DEF VerdictOf, HoldsNow
  <2>8. judged'[key] = v
    BY <1>4, <1>7
  <2>. HIDE DEF cond, h, t, j, w, x, mine
  <2>9. /\ v \in Seq(Verdict) /\ Len(v) = n + 1 /\ v[n + 1] = x
        /\ n \in Nat /\ \A i \in 1..n : v[i] = j[i]
    BY <1>5, <2>6, AppendProperties, LenProperties
  <2>10. ASSUME Ordered(t)
         PROVE  HistoryAs(h, t, cond.window) /\ \A i \in 1..Len(v) : v[i].holds = RateAt(t, i, cond)
    <3>1. HistoryAs(h, t, cond.window) /\ \A i \in 1..n : j[i].holds = RateAt(t, i, cond)
      BY <1>1, <2>10 DEF RateAs, cond, h, t, j
    <3>2. x.holds = RateAt(t, n + 1, cond)
      <4>1. Len(t) > 0
        BY <2>4, <2>9
      <4>2. Holds(cond, w.sample, h) = RateAt(t, Len(t), cond)
        BY <2>4, <2>5, <2>6, <3>1, <4>1, RateOfHistory
      <4>. QED
        BY <2>4, <2>7, <4>2
    <3>3. \A i \in 1..Len(v) : i \in 1..n \/ i = n + 1
      BY <2>9
    <3>. HIDE DEF v
    <3>. QED
      BY <2>9, <3>1, <3>2, <3>3
  <2>. HIDE DEF v
  <2>11. RateAs(key, h, t, v, {})
    BY <2>4, <2>9, <2>10 DEF RateAs, cond
  <2>. QED
    BY <1>3, <2>3, <2>8, <2>11 DEF h, t
<1>8. CASE key # mine
  <2>1. p \notin AtVerdicts(key)
    BY <1>8 DEF AtVerdicts, AtVerdict
  <2>2. AtVerdicts(key)' = AtVerdicts(key) /\ \A q \in AtVerdicts(key) : work'[q] = work[q]
    BY <1>2, <1>6, <2>1 DEF AtVerdicts
  <2>3. {work'[q] : q \in AtVerdicts(key)'} = {work[q] : q \in AtVerdicts(key)}
    BY <2>2
  <2>4. judged'[key] = judged[key]
    BY <1>4, <1>8
  <2>. QED
    BY <1>1, <1>3, <2>3, <2>4
<1>. QED
  BY <1>7, <1>8

LEMMA RateStep ==
    ASSUME DistinctNames, EngineInv, StateInv, RateInv, [Next]_vars PROVE RateInv'
<1>1. ASSUME UNCHANGED vars PROVE RateInv'
  <2>. SUFFICES ASSUME NEW key \in Keys, RateOf(key)
       PROVE  RateAs(key, history'[key], taken'[key], judged'[key],
                     {work'[q] : q \in AtVerdicts(key)'})
    BY DEF RateInv
  <2>1. work' = work /\ history' = history /\ taken' = taken /\ judged' = judged
    BY <1>1 DEF vars
  <2>2. AtVerdicts(key)' = AtVerdicts(key)
    BY <2>1 DEF AtVerdicts
  <2>. QED
    BY <2>1, <2>2 DEF RateInv
<1>2. ASSUME NEW p \in Producers, NEW s \in Series, NEW r \in Readings, Consume(p, s, r)
      PROVE  RateInv'
  <2>. DEFINE sample == [series |-> s, time |-> r.time, value |-> r.value,
                         anomalous |-> r.anomalous]
  <2>1. /\ work[p] = Idle /\ work' = [work EXCEPT ![p] = FromRule(sample, 1)]
        /\ history' = history /\ taken' = taken /\ judged' = judged
    BY <1>2 DEF Consume
  <2>2. sample \in SampleType
    BY AlertAssumption DEF SampleType
  <2>. HIDE DEF sample
  <2>3. /\ work'[p] = FromRule(sample, 1) /\ work[p].stage # "decide"
        /\ \A q \in Producers \ {p} : work'[q] = work[q]
    BY <2>1 DEF EngineInv, Idle
  <2>4. \A key \in Keys : AtVerdict(work'[p], key) => RuleOf(key).cond.type # "rate_of_change"
    BY <2>2, <2>3, NextRuleUnread
  <2>. QED
    BY <2>1, <2>3, <2>4, RateUndisturbed
<1>3. ASSUME NEW p \in Producers, NEW n \in Notifiers, NEW ok \in BOOLEAN, Notify(p, n, ok)
      PROVE  RateInv'
  <2>. DEFINE w == work[p]
              fewer == [w EXCEPT !.left = @ \ {n}]
              next == IF w.left = {n} THEN FromRule(w.sample, w.rule + 1) ELSE fewer
  <2>1. /\ w.stage = "notify" /\ work' = [work EXCEPT ![p] = next]
        /\ history' = history /\ taken' = taken /\ judged' = judged
    BY <1>3 DEF Notify
  <2>2. w \in Dispatches /\ w.sample \in SampleType /\ w.rule + 1 \in Nat \ {0}
    BY <2>1, Notifying
  <2>3. fewer.stage = "notify"
    BY <2>1, <2>2 DEF Dispatches
  <2>4. /\ work'[p] = next /\ \A q \in Producers \ {p} : work'[q] = work[q]
    BY <2>1 DEF EngineInv
  <2>. HIDE DEF fewer, w
  <2>5. \A key \in Keys : AtVerdict(next, key) => RuleOf(key).cond.type # "rate_of_change"
    BY <2>2, <2>3, NextRuleUnread DEF AtVerdict
  <2>6. work[p].stage # "decide"
    BY <2>1 DEF w
  <2>. HIDE DEF next
  <2>. QED
    BY <2>1, <2>4, <2>5, <2>6, RateUndisturbed
<1>. QED
  BY <1>1, <1>2, <1>3, UpdateRecords, RecordingKeepsRates, DecisionKeepsRates, DecisionSteps

LEMMA RateAlways == ASSUME DistinctNames PROVE Spec => [](EngineInv /\ StateInv /\ RateInv)
<1>1. Init => EngineInv /\ StateInv /\ RateInv
  BY EngineInit, StateInit, RateInit
<1>2. EngineInv /\ StateInv /\ RateInv /\ [Next]_vars => (EngineInv /\ StateInv /\ RateInv)'
  BY EngineStep, StateStep, RateStep
<1>. QED
  BY <1>1, <1>2, PTL DEF Spec

\* A rate of change is taken from the earliest sample of the window that ends
\* at the one judged, although the history is read after e.mu is released: no
\* other evaluation of the series comes in between (updateHistory and
\* evaluate, engine.go; RateOfChangeCondition.Eval, condition.go).
THEOREM RateAlwaysSeesWholeWindow ==
    ASSUME DistinctNames PROVE Spec => []RateSeesWholeWindow
<1>1. EngineInv /\ RateInv => RateSeesWholeWindow
  <2>. SUFFICES ASSUME EngineInv, RateInv, NEW key \in Keys,
                RuleOf(key).cond.type = "rate_of_change", FedByOne(key),
                \A i, j \in 1..Len([k \in 1..Len(taken[key]) |-> taken[key][k].time]) :
                   i < j => [k \in 1..Len(taken[key]) |-> taken[key][k].time][i]
                              <= [k \in 1..Len(taken[key]) |-> taken[key][k].time][j],
                NEW i \in 1..Len(judged[key])
       PROVE  LET cond == RuleOf(key).cond
                  t == taken[key]
                  times == [k \in 1..Len(t) |-> t[k].time]
                  old == t[Min({j \in 1..i : times[j] >= times[i] - cond.window})]
                  new == t[i]
              IN  judged[key][i].holds =
                    (/\ new.time > old.time
                     /\ Compare(new.value - old.value, cond.op,
                                cond.value * (new.time - old.time)))
    BY DEF RateSeesWholeWindow
  <2>. DEFINE cond == RuleOf(key).cond
              t == taken[key]
              times == [k \in 1..Len(t) |-> t[k].time]
  <2>1. Ordered(t)
    <3>1. Len(t) \in Nat
      BY LenProperties DEF EngineInv
    <3>2. Len(times) = Len(t)
      BY <3>1
    <3>3. \A a, j \in 1..Len(times) : a < j => times[a] <= times[j]
      OBVIOUS
    <3>4. \A k \in 1..Len(t) : times[k] = t[k].time
      OBVIOUS
    <3>. HIDE DEF t, times
    <3>. QED
      BY <3>2, <3>3, <3>4 DEF Ordered
  <2>2. RateAs(key, history[key], t, judged[key], {work[p] : p \in AtVerdicts(key)})
    BY DEF RateInv, RateOf
  <2>3. judged[key][i].holds = RateAt(t, i, cond)
    BY <2>1, <2>2 DEF RateAs
  <2>4. Len(judged[key]) <= Len(t) /\ Len(judged[key]) \in Nat /\ Len(t) \in Nat
    <3>1. Len(judged[key]) \in Nat /\ Len(t) \in Nat
      BY LenProperties DEF EngineInv
    <3>2. Len(t) = Len(judged[key]) + 1 \/ Len(t) = Len(judged[key])
      BY <2>2 DEF RateAs
    <3>. QED
      BY <3>1, <3>2
  <2>5. \A k \in 1..i : times[k] = t[k].time
    BY <2>4
  <2>6. {j \in 1..i : times[j] >= times[i] - cond.window}
           = {k \in 1..i : t[k].time >= t[i].time - cond.window}
    <3>1. i \in 1..i
      BY <2>4
    <3>. QED
      BY <2>5, <3>1
  <2>. HIDE DEF cond, t, times
  <2>7. Min({j \in 1..i : times[j] >= times[i] - cond.window}) = Oldest(t, i, cond.window)
    BY <2>6 DEF Oldest
  <2>. QED
    BY <2>3, <2>7 DEF RateAt, cond, t, times
<1>. QED
  BY <1>1, RateAlways, PTL
====
