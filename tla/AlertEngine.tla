---------------------------- MODULE AlertEngine -----------------------------
(***************************************************************************)
(* The alert engine (internal/alert): every ingested sample is evaluated   *)
(* against each matching rule.  Several goroutines ingest.  e.mu is held   *)
(* twice per evaluation, to update the history of a windowed condition and *)
(* to decide, and is free while the condition is computed and while the    *)
(* notifiers are called, so that other evaluations come in between.        *)
(*                                                                         *)
(* All of the engine's state is in memory: a restart begins again at Init. *)
(* Times are seconds; a rate of change is compared without dividing.       *)
(***************************************************************************)
EXTENDS Integers, SequencesExt

CONSTANTS
    Producers,      \* goroutines that ingest
    Series,         \* series of the samples
    Feeds,          \* which producer ingests which series
    Rules,          \* the configured rules, in order
    Notifiers,      \* the configured notifiers
    Readings,       \* what samples may carry: time, value and anomalous
    MaxSamples      \* bound on the samples ingested

Operators == {">", "<", ">=", "<=", "==", "!="}
Conditions ==
    [type : {"threshold"}, op : Operators, value : Int, window : {0}]
    \cup [type : {"rate_of_change"}, op : Operators, value : Int, window : Nat \ {0}]
    \cup [type : {"anomaly"}, op : {""}, value : {0}, window : {0}]

\* What Config.Validate lets through; it does not check that names differ,
\* rules of one name share their state.
ASSUME AlertAssumption ==
    /\ Feeds \subseteq Producers \X Series
    /\ Rules \in Seq([name : STRING, selects : SUBSET Series, cond : Conditions,
                      for : Nat, notifyTo : SUBSET Notifiers])
    /\ IsFiniteSet(Producers)
    /\ Readings \subseteq [time : Nat, value : Int, anomalous : BOOLEAN]
    /\ MaxSamples \in Nat

VARIABLES
    work,       \* [Producers -> the evaluation in progress]
    history,    \* Engine.history
    state,      \* Engine.state
    ingested,   \* number of samples so far
    taken,      \* history variable: the points each history has been given
    judged,     \* history variable: the verdicts each state was updated with
    notices     \* history variable: what each notifier was sent, per state

vars == <<work, history, state, ingested, taken, judged, notices>>

-----------------------------------------------------------------------------
(* Rules and conditions *)

Keys == {<<Rules[i].name, s>> : i \in 1..Len(Rules), s \in Series}
KeyOf(w) == <<Rules[w.rule].name, w.sample.series>>

Idle == [stage |-> "idle"]
NoState == [pendingSince |-> -1, firing |-> FALSE, since |-> -1, value |-> 0]

Compare(a, op, b) ==
    CASE op = ">" -> a > b   [] op = "<" -> a < b
      [] op = ">=" -> a >= b [] op = "<=" -> a <= b
      [] op = "==" -> a = b  [] op = "!=" -> a # b

\* RateOfChangeCondition.Eval: (value - oldest) / elapsed against cond.value.
RateHolds(cond, sample, hist) ==
    LET oldest == hist[1]
        elapsed == sample.time - oldest.time
    IN  /\ hist # <<>> /\ elapsed > 0
        /\ Compare(sample.value - oldest.value, cond.op, cond.value * elapsed)

Holds(cond, sample, hist) ==
    CASE cond.type = "threshold" -> Compare(sample.value, cond.op, cond.value)
      [] cond.type = "rate_of_change" -> RateHolds(cond, sample, hist)
      [] cond.type = "anomaly" -> sample.anomalous

\* Mutant: a point exactly as old as the window is pruned too.
PrunedTooFar(hist, cutoff) ==
    LET kept == {i \in 1..Len(hist) : \A j \in i..Len(hist) : hist[j].time > cutoff}
    IN  SubSeq(hist, Min(kept \cup {Len(hist)}), Len(hist))

\* updateHistory drops from the front only.
Pruned(hist, cutoff) ==
    LET young == {i \in 1..Len(hist) : ~(hist[i].time < cutoff)}
    IN  SubSeq(hist, Min(young), Len(hist))

\* A rule without notifyTo notifies everyone.
Targets(rule) == IF rule.notifyTo = {} THEN Notifiers ELSE rule.notifyTo

-----------------------------------------------------------------------------
(* Consume *)

Init ==
    /\ work = [p \in Producers |-> Idle]
    /\ history = [key \in Keys |-> <<>>]
    /\ state = [key \in Keys |-> NoState]
    /\ ingested = 0
    /\ taken = [key \in Keys |-> <<>>]
    /\ judged = [key \in Keys |-> <<>>]
    /\ notices = [key \in Keys |-> [n \in Notifiers |-> <<>>]]

\* Consume's loop goes on with the first matching rule from i on.
Matching(sample, i) == {j \in i..Len(Rules) : sample.series \in Rules[j].selects}

\* Mutant: the loop neither tests the match nor ends.
NextRule(sample, i) == [stage |-> "decide", sample |-> sample, rule |-> i, hist |-> <<>>]

FromRule(sample, i) ==
    IF Matching(sample, i) = {} THEN Idle
    ELSE LET j == Min(Matching(sample, i))
         IN  [stage |-> IF Rules[j].cond.window > 0 THEN "history" ELSE "decide",
              sample |-> sample, rule |-> j, hist |-> <<>>]

Consume(p, s, r) ==
    /\ work[p] = Idle /\ <<p, s>> \in Feeds /\ ingested < MaxSamples
    /\ LET sample == [series |-> s, time |-> r.time, value |-> r.value,
                      anomalous |-> r.anomalous]
       IN  work' = [work EXCEPT ![p] = FromRule(sample, 1)]
    /\ ingested' = ingested + 1
    /\ UNCHANGED <<history, state, taken, judged, notices>>

\* updateHistory, whose result is read after e.mu is released.
UpdateHistory(p) ==
    /\ work[p].stage = "history"
    /\ LET w == work[p]
           key == KeyOf(w)
           point == [time |-> w.sample.time, value |-> w.sample.value]
           hist == Pruned(Append(history[key], point),
                          w.sample.time - Rules[w.rule].cond.window)
       IN  /\ history' = [history EXCEPT ![key] = hist]
           /\ taken' = [taken EXCEPT ![key] = Append(@, point)]
           /\ work' = [work EXCEPT ![p].stage = "decide", ![p].hist = hist]
    /\ UNCHANGED <<state, ingested, judged, notices>>

\* The notifier calls that follow a transition, or the next rule.
Dispatch(w, since, firing) ==
    IF Targets(Rules[w.rule]) = {} THEN FromRule(w.sample, w.rule + 1)
    ELSE [stage |-> "notify", sample |-> w.sample, rule |-> w.rule,
          notice |-> [since |-> since, firing |-> firing],
          left |-> Targets(Rules[w.rule])]

HoldsNow(w) == Holds(Rules[w.rule].cond, w.sample, w.hist)

Judge(w) ==
    judged' = [judged EXCEPT ![KeyOf(w)] =
        Append(@, [time |-> w.sample.time, value |-> w.sample.value,
                   holds |-> HoldsNow(w)])]

\* Mutant: a dip does not restart the pending period.
ResetFiringOnly(p) ==
    /\ work[p].stage = "decide" /\ ~HoldsNow(work[p])
    /\ LET w == work[p]
       IN  /\ state' = [state EXCEPT ![KeyOf(w)].firing = FALSE, ![KeyOf(w)].since = -1]
           /\ Judge(w)
           /\ work' = [work EXCEPT ![p] =
                  IF state[KeyOf(w)].firing THEN Dispatch(w, w.sample.time, FALSE)
                                            ELSE FromRule(w.sample, w.rule + 1)]
    /\ UNCHANGED <<history, ingested, taken, notices>>

\* evaluate, when the condition does not hold: the state is reset.
Reset(p) ==
    /\ work[p].stage = "decide" /\ ~HoldsNow(work[p])
    /\ LET w == work[p]
       IN  /\ state' = [state EXCEPT ![KeyOf(w)] = NoState]
           /\ Judge(w)
           /\ work' = [work EXCEPT ![p] =
                  IF state[KeyOf(w)].firing THEN Dispatch(w, w.sample.time, FALSE)
                                            ELSE FromRule(w.sample, w.rule + 1)]
    /\ UNCHANGED <<history, ingested, taken, notices>>

\* Mutant: it fires again on every sample.
HoldRefiring(p) ==
    /\ work[p].stage = "decide" /\ HoldsNow(work[p])
    /\ LET w == work[p]
           st == state[KeyOf(w)]
           pending == IF st.pendingSince = -1 THEN w.sample.time ELSE st.pendingSince
           fires == w.sample.time - pending >= Rules[w.rule].for
       IN  /\ state' = [state EXCEPT ![KeyOf(w)] =
                  [pendingSince |-> pending, firing |-> st.firing \/ fires,
                   since |-> IF fires THEN pending ELSE st.since,
                   value |-> w.sample.value]]
           /\ Judge(w)
           /\ work' = [work EXCEPT ![p] =
                  IF fires THEN Dispatch(w, pending, TRUE)
                           ELSE FromRule(w.sample, w.rule + 1)]
    /\ UNCHANGED <<history, ingested, taken, notices>>

\* evaluate, when it holds: pending, and firing once it has held long enough.
Hold(p) ==
    /\ work[p].stage = "decide" /\ HoldsNow(work[p])
    /\ LET w == work[p]
           st == state[KeyOf(w)]
           pending == IF st.pendingSince = -1 THEN w.sample.time ELSE st.pendingSince
           fires == ~st.firing /\ w.sample.time - pending >= Rules[w.rule].for
       IN  /\ state' = [state EXCEPT ![KeyOf(w)] =
                  [pendingSince |-> pending, firing |-> st.firing \/ fires,
                   since |-> IF fires THEN pending ELSE st.since,
                   value |-> w.sample.value]]
           /\ Judge(w)
           /\ work' = [work EXCEPT ![p] =
                  IF fires THEN Dispatch(w, pending, TRUE)
                           ELSE FromRule(w.sample, w.rule + 1)]
    /\ UNCHANGED <<history, ingested, taken, notices>>

\* Mutant: dispatch stops at the first notifier that fails.
NotifyUntilFailure(p, n, ok) ==
    /\ work[p].stage = "notify" /\ n \in work[p].left
    /\ LET w == work[p]
       IN  /\ notices' = [notices EXCEPT ![KeyOf(w)][n] = Append(@, w.notice)]
           /\ work' = [work EXCEPT ![p] =
                  IF w.left = {n} \/ ~ok THEN FromRule(w.sample, w.rule + 1)
                                         ELSE [w EXCEPT !.left = @ \ {n}]]
    /\ UNCHANGED <<history, state, ingested, taken, judged>>

\* One call of Notify: a failure is logged and the loop goes on.  (The order
\* of a rule's notifiers is left open; without notifyTo it is a map's.)
Notify(p, n, ok) ==
    /\ work[p].stage = "notify" /\ n \in work[p].left
    /\ LET w == work[p]
       IN  /\ notices' = [notices EXCEPT ![KeyOf(w)][n] = Append(@, w.notice)]
           /\ work' = [work EXCEPT ![p] =
                  IF w.left = {n} THEN FromRule(w.sample, w.rule + 1)
                                  ELSE [w EXCEPT !.left = @ \ {n}]]
    /\ UNCHANGED <<history, state, ingested, taken, judged>>

Evaluate(p) ==
    \/ UpdateHistory(p) \/ Reset(p) \/ Hold(p)
    \/ \E n \in Notifiers, ok \in BOOLEAN : Notify(p, n, ok)

Next ==
    \E p \in Producers :
        \/ \E s \in Series, r \in Readings : Consume(p, s, r)
        \/ Evaluate(p)

Spec == Init /\ [][Next]_vars

\* Engine.Alerts, for GET /api/v1/alerts.
Alerts ==
    {[key |-> key, since |-> state[key].since, value |-> state[key].value] :
        key \in {k \in Keys : state[k].firing}}

-----------------------------------------------------------------------------
(* Properties.  They are stated for rules of different names. *)

DistinctNames == \A i, j \in 1..Len(Rules) : Rules[i].name = Rules[j].name => i = j

TypeOK ==
    /\ \A p \in Producers : work[p] # Idle =>
          /\ work[p].stage \in {"history", "decide", "notify"}
          /\ work[p].rule \in 1..Len(Rules)
          /\ work[p].stage = "notify" => work[p].left \in (SUBSET Notifiers) \ {{}}
    /\ history \in [Keys -> Seq([time : Nat, value : Int])]
    /\ state \in [Keys -> [pendingSince : Int, firing : BOOLEAN, since : Int, value : Int]]
    /\ ingested \in 0..MaxSamples

RuleOf(key) == CHOOSE r \in ToSet(Rules) : r.name = key[1]
FedByOne(key) == \A p, q \in Producers :
    <<p, key[2]>> \in Feeds /\ <<q, key[2]>> \in Feeds => p = q

\* The i-th of the verdicts v begins or continues a run of verdicts that hold;
\* it is a firing one when the run has lasted for the rule's "for" by then.
RunStart(v, i) == Min({j \in 1..i : \A m \in j..i : v[m].holds})
FiringAt(v, for, i) ==
    /\ i > 0 /\ v[i].holds
    /\ \E m \in RunStart(v, i)..i : v[m].time - v[RunStart(v, i)].time >= for

Transitions(v, for) == {i \in 1..Len(v) : FiringAt(v, for, i) # FiringAt(v, for, i - 1)}

\* The n-th of a set of numbers.
Nth(S, n) == CHOOSE i \in S : Cardinality({j \in S : j <= i}) = n

NoticeAt(v, for, i) ==
    IF FiringAt(v, for, i) THEN [since |-> v[RunStart(v, i)].time, firing |-> TRUE]
                           ELSE [since |-> v[i].time, firing |-> FALSE]

Notices(v, for) ==
    [n \in 1..Cardinality(Transitions(v, for)) |-> NoticeAt(v, for, Nth(Transitions(v, for), n))]

Expected(key) == Notices(judged[key], RuleOf(key).for)

\* The API lists exactly the series whose latest verdicts hold without a break
\* and have done so for "for", since the first of them and with the latest
\* value, however the producers' evaluations interleave and whatever the order
\* of the samples' times.
AlertsAreLongRuns ==
    Alerts = {LET v == judged[key]
              IN  [key |-> key, since |-> v[RunStart(v, Len(v))].time, value |-> Last(v).value] :
                 key \in {k \in Keys : FiringAt(judged[k], RuleOf(k).for, Len(judged[k]))}}

Quiet(key) == \A p \in Producers : work[p].stage = "notify" => KeyOf(work[p]) # key
Count(seq, x) == Cardinality({i \in 1..Len(seq) : seq[i] = x})

\* v0.4.0.md:22: "a firing and a resolved notification on each state
\* transition".  When the calls for a key are over, each of its rule's
\* notifiers has been called exactly once for each transition, although other
\* notifiers failed and other evaluations of the key overlapped; the others
\* have not been called.
EveryTransitionNotified ==
    \A key \in Keys, n \in Notifiers : Quiet(key) =>
        IF n \in Targets(RuleOf(key))
        THEN \A x \in ToSet(Expected(key)) \cup ToSet(notices[key][n]) :
                Count(notices[key][n], x) = Count(Expected(key), x)
        ELSE notices[key][n] = <<>>

\* A notifier hears of a series that one goroutine ingests in the order of its
\* transitions, and of none before it happened.
NoticesInOrder ==
    \A key \in Keys, n \in Notifiers :
        FedByOne(key) => IsPrefix(notices[key][n], Expected(key))

\* The verdict of a rate-of-change rule compares a sample with the earliest
\* one of the window that ends at it, as long as one goroutine ingests the
\* series and time does not go back.
RateSeesWholeWindow ==
    \A key \in Keys :
        LET rule == RuleOf(key)
            times == [i \in 1..Len(taken[key]) |-> taken[key][i].time]
            oldest(i) == Min({j \in 1..i : times[j] >= times[i] - rule.cond.window})
        IN  /\ rule.cond.type = "rate_of_change" /\ FedByOne(key)
            /\ \A i, j \in 1..Len(times) : i < j => times[i] <= times[j]
            => \A i \in 1..Len(judged[key]) :
                  LET old == taken[key][oldest(i)]
                      new == taken[key][i]
                  IN  judged[key][i].holds =
                        (/\ new.time > old.time
                         /\ Compare(new.value - old.value, rule.cond.op,
                                    rule.cond.value * (new.time - old.time)))
=============================================================================
