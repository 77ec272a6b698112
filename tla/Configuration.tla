---------------------------- MODULE Configuration ---------------------------
(***************************************************************************)
(* What a config.yaml means (internal/config) and what the server's wiring *)
(* needs of it (cmd/circa, and the subsystems it starts).                  *)
(*                                                                         *)
(* A file is the function of the fields it sets; a field that is not in    *)
(* its domain keeps what Default() gave it before the file was decoded.    *)
(* Values are abstract: a duration is -1, 0 or 1 once decoded, and in the  *)
(* file a text of one of a few kinds; names, URLs and paths are two or     *)
(* three strings each, the empty one among them.                           *)
(***************************************************************************)
EXTENDS Integers, FiniteSets

CONSTANT NaN            \* a float that is not a number: `.nan`

ASSUME NaNAssumption == NaN \notin Int

-----------------------------------------------------------------------------
(* Durations *)

\* Duration.UnmarshalYAML, by the kind of text.  Three centuries in years or
\* days are more nanoseconds than an int64 holds: the product wraps, to a
\* negative duration, and with six of them to a positive one that is too short.
DurationOf == [positive |-> 1, zero |-> 0, negative |-> -1,
               threeCenturies |-> -1, sixCenturies |-> 1]
Texts == DOMAIN DurationOf

DurationFields == {"raw", "minute", "hour", "collectInterval", "sendInterval",
                   "trainingWindow", "retrainInterval"}

NumberFields == {"modelCount", "diffN", "smoothN", "lagN"}

\* Comparisons with a NaN are all false.
IsAbove(x, bound) == x # NaN /\ x > bound
IsAtMost(x, bound) == x # NaN /\ x <= bound

-----------------------------------------------------------------------------
(* Load *)

\* Default(); the fields it leaves out have Go's zero values.  The users are a
\* function from names to what the file says of their passwords.
Default ==
    [listen |-> ":9100", path |-> "./data", raw |-> 1, minute |-> 1, hour |-> 1,
     targets |-> {}, influxPath |-> "/write", collectInterval |-> 1,
     ml |-> FALSE, alerts |-> FALSE, backup |-> FALSE, influxReceive |-> FALSE,
     pushReceive |-> FALSE, pushSend |-> FALSE, collect |-> "true",
     notifiers |-> <<>>, rules |-> {},
     modelCount |-> 18, trainingWindow |-> 1, retrainInterval |-> 1,
     diffN |-> 1, smoothN |-> 3, lagN |-> 5, scoreThreshold |-> 99,
     mode |-> "", schedule |-> "", nodeID |-> "", uri |-> "", warehouse |-> "",
     nodes |-> {}, receivePath |-> "/api/v1/write", sendURL |-> "",
     sendInterval |-> 1, users |-> <<>>]

Fields == DOMAIN Default

\* What yaml.Unmarshal takes for a field, where the rest of this module needs
\* it; with anything else the file does not decode.
Decodes(x, value) ==
    /\ x \in DurationFields => value \in Texts
    /\ x \in NumberFields => value \in Int
    /\ x = "scoreThreshold" => value \in Int \cup {NaN}
    /\ x = "targets" =>
          \A t \in value : DOMAIN t = {"url", "interval"} /\ t.interval \in Texts

\* yaml.Unmarshal of one field.
Decoded(x, value) ==
    CASE x \in DurationFields -> DurationOf[value]
      [] x = "targets" -> {[t EXCEPT !.interval = DurationOf[@]] : t \in value}
      [] x = "rules" -> {[r EXCEPT !.window = DurationOf[@], !.for = DurationOf[@]] : r \in value}
      [] x = "users" -> value.entries
      [] OTHER -> value

Decode(file) == [x \in Fields |-> IF x \in DOMAIN file THEN Decoded(x, file[x]) ELSE Default[x]]

\* The values that applyDefaults takes for unset, and what it puts there.
Zero == [listen |-> "", path |-> "", raw |-> 0, influxPath |-> "", collect |-> "null",
         nodeID |-> "", collectInterval |-> 0, receivePath |-> "", sendInterval |-> 0,
         modelCount |-> 0, trainingWindow |-> 0, retrainInterval |-> 0, lagN |-> 0,
         scoreThreshold |-> 0]

DefaultFor(x) == IF x = "nodeID" THEN "hostname" ELSE Default[x]

Filled(cfg, zero) ==
    [x \in Fields |-> IF x \in DOMAIN zero /\ cfg[x] = zero[x] THEN DefaultFor(x) ELSE cfg[x]]

\* Mutant: a diff_n of 0 is taken for unset.
ApplyDefaultsDiffN(cfg) ==
    [Filled(cfg, Zero) EXCEPT !.diffN = IF cfg.diffN = 0 THEN 1 ELSE cfg.diffN]

ApplyDefaults(cfg) == Filled(cfg, Zero)

CollectEnabled(cfg) == cfg.collect # "false"

Effective(file) == ApplyDefaults(Decode(file))

-----------------------------------------------------------------------------
(* Validate: the errors, each under the field it is about *)

Errors(condition, field) == IF condition THEN {field} ELSE {}

Operators == {">", "<", ">=", "<=", "==", "!="}
Severities == {"", "info", "warning", "critical"}
Schedules == {"*/15 * * * *"}       \* those cron.ParseStandard accepts

NotifierNames(cfg) == {cfg.notifiers[i].name : i \in DOMAIN cfg.notifiers}

ValidCondition(r) ==
    \/ r.type = "threshold" /\ r.operator \in Operators
    \/ r.type = "rate_of_change" /\ r.operator \in Operators /\ r.window > 0
    \/ r.type = "anomaly"

\* Mutant: a rule may name a notifier that is not there.
ValidRuleAnyNotifier(cfg, r) ==
    /\ r.name # "" /\ r.metric # "" /\ r.for >= 0 /\ r.severity \in Severities
    /\ ValidCondition(r)
    /\ r.type = "anomaly" => cfg.ml

ValidRule(cfg, r) ==
    /\ r.name # "" /\ r.metric # "" /\ r.for >= 0 /\ r.severity \in Severities
    /\ ValidCondition(r)
    /\ r.type = "anomaly" => cfg.ml
    /\ r.notify \subseteq NotifierNames(cfg)

ValidateAlerting(cfg) ==
    Errors(\/ \E i, j \in DOMAIN cfg.notifiers :
                 i # j /\ cfg.notifiers[i].name = cfg.notifiers[j].name
           \/ \E i \in DOMAIN cfg.notifiers :
                 LET n == cfg.notifiers[i]
                 IN  n.name = "" \/ n.type \notin {"webhook", "slack"} \/ n.url = "",
           "notifiers")
    \cup Errors(\E r \in cfg.rules : ~ValidRule(cfg, r), "rules")

ValidateAnomaly(cfg) ==
    Errors(cfg.modelCount < 1, "modelCount")
    \cup Errors(cfg.trainingWindow <= 0, "trainingWindow")
    \cup Errors(cfg.retrainInterval <= 0, "retrainInterval")
    \cup Errors(cfg.diffN \notin 0..1, "diffN")
    \cup Errors(cfg.smoothN < 0, "smoothN")
    \cup Errors(cfg.lagN < 1, "lagN")
    \cup Errors(IsAtMost(cfg.scoreThreshold, 0) \/ IsAbove(cfg.scoreThreshold, 100),
                "scoreThreshold")

ValidateBackup(cfg) ==
    Errors(cfg.mode \notin {"push", "pull"}, "mode")
    \cup (IF cfg.mode = "push"
          THEN Errors(cfg.uri = "", "uri") \cup Errors(cfg.warehouse = "", "warehouse")
               \cup Errors(cfg.schedule \notin Schedules, "schedule")
          ELSE {})

\* looksBcrypt accepts the hashes HashPassword makes.
LooksBcrypt(hash) == hash = "bcrypt"

ValidateSources(cfg) ==
    Errors(\E t \in cfg.targets : t.url = "" \/ t.interval <= 0, "targets")
    \cup Errors(cfg.influxReceive /\ cfg.influxPath = "", "influxPath")
    \cup Errors(CollectEnabled(cfg) /\ cfg.collectInterval < 0, "collectInterval")
    \cup Errors(cfg.pushReceive /\ cfg.receivePath = "", "receivePath")
    \cup (IF cfg.pushSend THEN Errors(cfg.sendURL = "", "sendURL")
                               \cup Errors(cfg.sendInterval <= 0, "sendInterval") ELSE {})

ValidUser(cfg, user) == user # "" /\ LooksBcrypt(cfg.users[user])

Validate(cfg) ==
    ValidateSources(cfg)
    \cup Errors(\E user \in DOMAIN cfg.users : ~ValidUser(cfg, user), "users")
    \cup (IF cfg.backup THEN ValidateBackup(cfg) ELSE {})
    \cup (IF cfg.alerts THEN ValidateAlerting(cfg) ELSE {})
    \cup (IF cfg.ml THEN ValidateAnomaly(cfg) ELSE {})

-----------------------------------------------------------------------------
(* What the subsystems need of the configuration they are started with *)

\* time.NewTicker panics unless the interval is positive: those of runTarget,
\* Collector.Run and Sender.Run.
TickersRun(cfg) ==
    /\ \A t \in cfg.targets : t.interval > 0
    /\ CollectEnabled(cfg) => cfg.collectInterval > 0
    /\ cfg.pushSend => cfg.sendInterval > 0

\* NewRule knows the condition's type; compare's operator table has the
\* operator; dispatch finds every notifier a rule names; an anomaly condition
\* waits for a bit that only the detector sets.
RulesWork(cfg) ==
    cfg.alerts => \A r \in cfg.rules :
        /\ r.type \in {"threshold", "rate_of_change", "anomaly"}
        /\ r.type # "anomaly" => r.operator \in Operators
        /\ r.type = "rate_of_change" => r.window > 0
        /\ r.type = "anomaly" => cfg.ml
        /\ \A name \in r.notify :
              \E i \in DOMAIN cfg.notifiers :
                  cfg.notifiers[i].name = name /\ cfg.notifiers[i].type \in {"webhook", "slack"}

\* The detector trains at all, on a window that is not empty, its buffer holds
\* a vector, and a score can reach the threshold.
DetectorWorks(cfg) ==
    cfg.ml => /\ cfg.retrainInterval > 0 /\ cfg.trainingWindow > 0
              /\ cfg.diffN >= 0 /\ cfg.lagN >= 0 /\ cfg.smoothN >= 0
              /\ IsAtMost(cfg.scoreThreshold, 100)

\* Exporter.Run parses the schedule; the writer needs a catalog.
ExporterRuns(cfg) ==
    cfg.backup /\ cfg.mode = "push" =>
        cfg.schedule \in Schedules /\ cfg.uri # "" /\ cfg.warehouse # ""

\* ServeMux.Handle panics on "POST " and a path without a leading slash.
RouteRegisters(cfg) == cfg.pushReceive => cfg.receivePath # "write"
=============================================================================
