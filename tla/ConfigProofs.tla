---------------------------- MODULE ConfigProofs ----------------------------
(***************************************************************************)
(* Theorems about ConfigFile for any contents of the file, any number of   *)
(* processes that change it, and any number of changes.                    *)
(*                                                                         *)
(* FilesInv and ServerInv say that every file that is there or about to be *)
(* written can be decoded, and that a server has what its file said.  With *)
(* them the theorems about a started server are theorems about Effective   *)
(* and Violations, field by field.  UsersInv adds what a command that is   *)
(* about to write knows of the users reported so far.                      *)
(***************************************************************************)
EXTENDS ConfigFile, TLAPS

-----------------------------------------------------------------------------
(* Fields *)

LEMMA FieldNames ==
    Fields = {"listen", "path", "raw", "minute", "hour", "targets", "influxPath",
              "collectInterval", "ml", "alerts", "backup", "influxReceive", "pushReceive",
              "pushSend", "collect", "notifiers", "rules", "modelCount", "trainingWindow",
              "retrainInterval", "diffN", "smoothN", "lagN", "scoreThreshold", "mode",
              "schedule", "nodeID", "uri", "warehouse", "nodes", "receivePath", "sendURL",
              "sendInterval", "users"}
BY DEF Fields, Default

\* The fields that stand for unset when they are zero.
LEMMA ZeroNames ==
    DOMAIN Zero = {"listen", "path", "raw", "influxPath", "collect", "nodeID",
                   "collectInterval", "receivePath", "sendInterval", "modelCount",
                   "trainingWindow", "retrainInterval", "lagN", "scoreThreshold"}
BY DEF Zero

LEMMA DefaultNumbers ==
    /\ Default["raw"] = 1 /\ Default["minute"] = 1 /\ Default["hour"] = 1
    /\ Default["collectInterval"] = 1 /\ Default["sendInterval"] = 1
    /\ Default["trainingWindow"] = 1 /\ Default["retrainInterval"] = 1
    /\ Default["modelCount"] = 18 /\ Default["diffN"] = 1 /\ Default["smoothN"] = 3
    /\ Default["lagN"] = 5 /\ Default["scoreThreshold"] = 99
BY DEF Default

LEMMA EffectiveField ==
    ASSUME NEW set, NEW x \in Fields
    PROVE  Effective(set)[x] =
              LET v == IF x \in DOMAIN set THEN Decoded(x, set[x]) ELSE Default[x]
              IN  IF x \in DOMAIN Zero /\ v = Zero[x] THEN DefaultFor(x) ELSE v
<1>1. Decode(set)[x] = IF x \in DOMAIN set THEN Decoded(x, set[x]) ELSE Default[x]
  BY DEF Decode
<1>. QED
  BY <1>1 DEF Effective, ApplyDefaults, Filled

LEMMA DurationsDecode ==
    ASSUME NEW text \in Texts PROVE DurationOf[text] \in Int
BY DEF Texts, DurationOf

-----------------------------------------------------------------------------
(* What a file that loads gives the subsystems *)

LEMMA NoErrors ==
    ASSUME NEW condition, NEW x, Errors(condition, x) = {} PROVE ~condition
BY DEF Errors

LEMMA ValidSources ==
    ASSUME NEW cfg, Validate(cfg) = {}
    PROVE  /\ \A t \in cfg.targets : ~(t.interval <= 0)
           /\ CollectEnabled(cfg) => ~(cfg.collectInterval < 0)
           /\ cfg.pushSend => ~(cfg.sendInterval <= 0)
<1>1. ValidateSources(cfg) = {}
  BY DEF Validate
<1>. QED
  BY <1>1, NoErrors DEF ValidateSources

LEMMA ValidAlerting ==
    ASSUME NEW cfg, Validate(cfg) = {}, cfg.alerts
    PROVE  /\ \A r \in cfg.rules : ValidRule(cfg, r)
           /\ \A i \in DOMAIN cfg.notifiers : cfg.notifiers[i].type \in {"webhook", "slack"}
<1>1. ValidateAlerting(cfg) = {}
  BY DEF Validate
<1>. QED
  BY <1>1, NoErrors DEF ValidateAlerting

LEMMA ValidAnomaly ==
    ASSUME NEW cfg, Validate(cfg) = {}, cfg.ml
    PROVE  /\ ~(cfg.trainingWindow <= 0) /\ ~(cfg.retrainInterval <= 0)
           /\ cfg.diffN \in 0..1 /\ ~(cfg.smoothN < 0) /\ ~(cfg.lagN < 1)
           /\ ~IsAbove(cfg.scoreThreshold, 100)
<1>1. ValidateAnomaly(cfg) = {}
  BY DEF Validate
<1>2. cfg.diffN \in 0..1
  BY <1>1, NoErrors DEF ValidateAnomaly
<1>. QED
  BY <1>1, <1>2, NoErrors DEF ValidateAnomaly

LEMMA ValidBackup ==
    ASSUME NEW cfg, Validate(cfg) = {}, cfg.backup, cfg.mode = "push"
    PROVE  cfg.schedule \in Schedules /\ cfg.uri # "" /\ cfg.warehouse # ""
<1>1. ValidateBackup(cfg) = {}
  BY DEF Validate
<1>. QED
  BY <1>1, NoErrors DEF ValidateBackup

\* The numbers of a configuration that was decoded.
LEMMA EffectiveNumbers ==
    ASSUME NEW set, Decodable(set), NEW x \in DurationFields \cup NumberFields
    PROVE  /\ Effective(set)[x] \in Int
           /\ x \in {"collectInterval", "sendInterval"} => Effective(set)[x] # 0
<1>. DEFINE v == IF x \in DOMAIN set THEN Decoded(x, set[x]) ELSE Default[x]
<1>1. x \in Fields
  BY FieldNames DEF DurationFields, NumberFields
<1>2. Default[x] \in Int /\ DefaultFor(x) = Default[x]
        /\ (x \in {"collectInterval", "sendInterval"} => Default[x] = 1)
  <2>1. x # "nodeID"
    BY DEF DurationFields, NumberFields
  <2>. QED
    BY <2>1, DefaultNumbers DEF DefaultFor, DurationFields, NumberFields
<1>3. ASSUME x \in DOMAIN set PROVE Decoded(x, set[x]) \in Int
  <2>1. CASE x \in DurationFields
    <3>1. Decoded(x, set[x]) = DurationOf[set[x]]
      BY <2>1 DEF Decoded, DurationFields
    <3>. QED
      BY <1>3, <2>1, <3>1, DurationsDecode DEF Decodable, Decodes
  <2>2. CASE x \in NumberFields
    BY <1>3, <2>2 DEF Decodable, Decodes, Decoded, NumberFields, DurationFields
  <2>. QED
    BY <2>1, <2>2
<1>4. v \in Int
  BY <1>2, <1>3
<1>5. Effective(set)[x] = IF x \in DOMAIN Zero /\ v = Zero[x] THEN DefaultFor(x) ELSE v
  BY <1>1, EffectiveField
<1>6. x \in {"collectInterval", "sendInterval"} => x \in DOMAIN Zero /\ Zero[x] = 0
  <2>1. Zero["collectInterval"] = 0 /\ Zero["sendInterval"] = 0
    BY DEF Zero
  <2>. QED
    BY <2>1, ZeroNames
<1>. QED
  BY <1>2, <1>4, <1>5, <1>6

LEMMA EffectiveThreshold ==
    ASSUME NEW set, Decodable(set) PROVE Effective(set).scoreThreshold \in Int \cup {NaN}
<1>. DEFINE x == "scoreThreshold"
            v == IF x \in DOMAIN set THEN Decoded(x, set[x]) ELSE Default[x]
<1>1. x \in Fields /\ Default[x] = 99 /\ DefaultFor(x) = 99
  BY FieldNames, DefaultNumbers DEF DefaultFor
<1>2. ASSUME x \in DOMAIN set PROVE Decoded(x, set[x]) \in Int \cup {NaN}
  BY <1>2 DEF Decodable, Decodes, Decoded, DurationFields
<1>3. Effective(set)[x] \in {v, 99}
  BY <1>1, EffectiveField
<1>. QED
  BY <1>1, <1>2, <1>3

LEMMA EffectiveTargets ==
    ASSUME NEW set, Decodable(set), NEW t \in Effective(set).targets
    PROVE  t.interval \in Int
<1>1. Effective(set).targets = IF "targets" \in DOMAIN set THEN Decoded("targets", set.targets)
                                                           ELSE {}
  <2>1. "targets" \in Fields /\ "targets" \notin DOMAIN Zero
    BY FieldNames, ZeroNames
  <2>2. Default["targets"] = {}
    BY DEF Default
  <2>. QED
    BY <2>1, <2>2, EffectiveField
<1>2. "targets" \in DOMAIN set /\ t \in Decoded("targets", set.targets)
  BY <1>1
<1>3. PICK u \in set.targets : t = [u EXCEPT !.interval = DurationOf[@]]
  BY <1>2 DEF Decoded, DurationFields
<1>4. DOMAIN u = {"url", "interval"} /\ u.interval \in Texts
  BY <1>2, <1>3 DEF Decodable, Decodes
<1>. QED
  BY <1>3, <1>4, DurationsDecode

LEMMA DefaultWorks ==
    RulesWork(Default) /\ DetectorWorks(Default) /\ ExporterRuns(Default)
        /\ TickersRun(Default) /\ RouteRegisters(Default) /\ ~Default.alerts
BY DEF RulesWork, DetectorWorks, ExporterRuns, TickersRun, RouteRegisters, Default,
       CollectEnabled

LEMMA EffectiveWorks ==
    ASSUME NEW set, Decodable(set), Validate(Effective(set)) = {}
    PROVE  /\ RulesWork(Effective(set)) /\ ExporterRuns(Effective(set))
           /\ Effective(set).scoreThreshold # NaN => DetectorWorks(Effective(set))
           /\ TickersRun(Effective(set))
           /\ Effective(set).alerts =>
                 \A r \in Effective(set).rules :
                    r.type \in {"threshold", "rate_of_change", "anomaly"}
<1>. DEFINE cfg == Effective(set)
<1>1. TickersRun(cfg)
  <2>1. \A t \in cfg.targets : t.interval > 0
    BY ValidSources, EffectiveTargets
  <2>2. cfg.collectInterval \in Int /\ cfg.collectInterval # 0
        /\ cfg.sendInterval \in Int /\ cfg.sendInterval # 0
    BY EffectiveNumbers DEF DurationFields
  <2>3. CollectEnabled(cfg) => cfg.collectInterval > 0
    BY <2>2, ValidSources
  <2>4. cfg.pushSend => cfg.sendInterval > 0
    BY <2>2, ValidSources
  <2>. QED
    BY <2>1, <2>3, <2>4 DEF TickersRun
<1>2. ASSUME cfg.alerts, NEW r \in cfg.rules PROVE ValidRule(cfg, r)
  BY <1>2, ValidAlerting
<1>3. ASSUME cfg.alerts PROVE \A i \in DOMAIN cfg.notifiers :
                                 cfg.notifiers[i].type \in {"webhook", "slack"}
  BY <1>3, ValidAlerting
<1>4. RulesWork(cfg)
  <2>. SUFFICES ASSUME cfg.alerts, NEW r \in cfg.rules
                PROVE  /\ r.type \in {"threshold", "rate_of_change", "anomaly"}
                       /\ r.type # "anomaly" => r.operator \in Operators
                       /\ r.type = "rate_of_change" => r.window > 0
                       /\ r.type = "anomaly" => cfg.ml
                       /\ \A name \in r.notify :
                             \E i \in DOMAIN cfg.notifiers :
                                cfg.notifiers[i].name = name
                                /\ cfg.notifiers[i].type \in {"webhook", "slack"}
    BY DEF RulesWork
  <2>1. ValidRule(cfg, r)
    BY <1>2
  <2>. QED
    BY <2>1, <1>3 DEF ValidRule, ValidCondition, NotifierNames
<1>5. ASSUME cfg.scoreThreshold # NaN PROVE DetectorWorks(cfg)
  <2>1. \A x \in {"retrainInterval", "trainingWindow", "smoothN", "lagN"} :
           cfg[x] \in Int
    BY EffectiveNumbers DEF DurationFields, NumberFields
  <2>2. cfg.scoreThreshold \in Int
    BY <1>5, EffectiveThreshold
  <2>. QED
    BY <1>5, <2>1, <2>2, ValidAnomaly DEF DetectorWorks, IsAtMost, IsAbove
<1>6. ExporterRuns(cfg)
  BY ValidBackup DEF ExporterRuns
<1>7. cfg.alerts => \A r \in cfg.rules : r.type \in {"threshold", "rate_of_change", "anomaly"}
  BY <1>2 DEF ValidRule, ValidCondition
<1>. QED
  BY <1>1, <1>4, <1>5, <1>6, <1>7

LEMMA StartedWorks ==
    ASSUME NEW f, Decodable(f.set)
    PROVE  /\ Outcome(f) # "drifted"
           /\ Outcome(f) = "panicked" => ~RouteRegisters(Loaded(f))
           /\ Outcome(f) = "running" =>
                 /\ RulesWork(Loaded(f)) /\ ExporterRuns(Loaded(f))
                 /\ Loaded(f).scoreThreshold # NaN => DetectorWorks(Loaded(f))
<1>1. CASE ~Loads(f)
  BY <1>1 DEF Outcome
<1>2. CASE f.state = "absent"
  <2>1. Loaded(f) = Default
    BY <1>2 DEF Loaded
  <2>. QED
    BY <2>1, DefaultWorks DEF Outcome
<1>3. CASE Loads(f) /\ f.state # "absent"
  <2>1. Loaded(f) = Effective(f.set) /\ Validate(Effective(f.set)) = {}
    BY <1>3 DEF Loads, Loaded
  <2>. QED
    BY <2>1, EffectiveWorks DEF Outcome
<1>. QED
  BY <1>1, <1>2, <1>3

\* FileDecides, of one file and one field.
Decided(f, x) ==
    IF x \in DOMAIN f.set
    THEN \/ Loaded(f)[x] = Decoded(x, f.set[x])
         \/ x \notin {"diffN", "smoothN", "minute", "hour"} /\ Loaded(f)[x] = Default[x]
         \/ x = "nodeID"
    ELSE Loaded(f)[x] = Default[x] \/ x = "nodeID"

LEMMA FieldDecided ==
    ASSUME NEW f, f.state = "absent" => f.set = <<>>, NEW x \in Fields
    PROVE  Decided(f, x)
<1>1. CASE f.state = "absent"
  BY <1>1 DEF Decided, Loaded
<1>2. CASE f.state # "absent"
  <2>1. Loaded(f)[x] = LET v == IF x \in DOMAIN f.set THEN Decoded(x, f.set[x]) ELSE Default[x]
                       IN  IF x \in DOMAIN Zero /\ v = Zero[x] THEN DefaultFor(x) ELSE v
    BY <1>2, EffectiveField DEF Loaded
  <2>2. x \in DOMAIN Zero => x \notin {"diffN", "smoothN", "minute", "hour"}
    BY ZeroNames
  <2>. QED
    BY <2>1, <2>2 DEF Decided, DefaultFor
<1>. QED
  BY <1>1, <1>2

-----------------------------------------------------------------------------
(* Every file that is there, or that a command is going to write, can be    *)
(* decoded, and a server that was started has what its file says.           *)

EditorFields == {"phase", "user", "set"}
Phases == {"idle", "asking", "read", "truncated"}

CommandInv(e) ==
    /\ DOMAIN editor[e] = EditorFields
    /\ editor[e].phase \in Phases /\ editor[e].user \in Users \cup {""}
    /\ Decodable(editor[e].set)

FilesInv ==
    /\ Decodable(file.set)
    /\ file.state = "absent" => file.set = <<>>
    /\ DOMAIN editor = Editors /\ \A e \in Editors : CommandInv(e)

ServerInv ==
    server.state # "stopped" =>
        /\ server.state = Outcome(server.read) /\ server.cfg = Loaded(server.read)
        /\ Decodable(server.read.set)
        /\ server.read.state = "absent" => server.read.set = <<>>

LEMMA EmptyDecodable == Decodable(<<>>)
BY DEF Decodable

LEMMA TargetsDecodable ==
    ASSUME NEW targets \in {{}, {[url |-> "url", interval |-> "positive"]}}
    PROVE  \A t \in targets : DOMAIN t = {"url", "interval"} /\ t.interval \in Texts
BY DEF Texts, DurationOf

LEMMA TemplateDecodable ==
    ASSUME NEW full \in BOOLEAN,
           NEW targets \in {{}, {[url |-> "url", interval |-> "positive"]}}
    PROVE  Decodable(Template(full, targets))
<1>. DEFINE set == Template(full, targets)
<1>1. DOMAIN set = Fields
  BY FieldNames DEF Template
<1>2. "positive" \in Texts
  BY DEF Texts, DurationOf
<1>3. /\ set["raw"] = "positive" /\ set["minute"] = "positive" /\ set["hour"] = "positive"
      /\ set["collectInterval"] = "positive" /\ set["sendInterval"] = "positive"
      /\ set["trainingWindow"] = "positive" /\ set["retrainInterval"] = "positive"
      /\ set["modelCount"] = 18 /\ set["diffN"] = 1 /\ set["smoothN"] = 3 /\ set["lagN"] = 5
      /\ set["scoreThreshold"] = 99 /\ set["targets"] = targets
  BY DEF Template
<1>4. \A x \in Fields : Decodes(x, set[x])
  BY <1>2, <1>3, TargetsDecodable DEF Decodes, DurationFields, NumberFields
<1>. QED
  BY <1>1, <1>4 DEF Decodable

LEMMA WithUserDecodable ==
    ASSUME NEW f, Decodable(f.set), NEW user PROVE Decodable(WithUser(f, user))
<1>1. \A value : Decodes("users", value)
  BY DEF Decodes, DurationFields, NumberFields
<1>. QED
  BY <1>1, FieldNames DEF WithUser, Decodable

LEMMA BeginningDecodable ==
    ASSUME NEW set, Decodable(set), NEW n PROVE Decodable(Beginning(set, n))
BY DEF Decodable, Beginning, Restrict

LEMMA CutTargetsDecode ==
    ASSUME NEW targets, \A t \in targets : DOMAIN t = {"url", "interval"} /\ t.interval \in Texts,
           NEW short \in CutTargets(targets)
    PROVE  \A t \in short : DOMAIN t = {"url", "interval"} /\ t.interval \in Texts
<1>1. "zero" \in Texts
  BY DEF Texts, DurationOf
<1>2. ASSUME NEW t \in targets
      PROVE  DOMAIN CutTarget(t) = {"url", "interval"} /\ CutTarget(t).interval \in Texts
  BY <1>1 DEF CutTarget
<1>3. CASE short \in SUBSET targets
  BY <1>3
<1>4. CASE short \in UNION {EndingIn(t, targets) : t \in targets}
  <2>1. PICK t \in targets : short \in EndingIn(t, targets)
    BY <1>4
  <2>2. PICK S \in SUBSET targets : short = S \cup {CutTarget(t)}
    BY <2>1 DEF EndingIn
  <2>. QED
    BY <1>2, <2>2
<1>. QED
  BY <1>3, <1>4 DEF CutTargets

LEMMA ShortenedDecodes ==
    ASSUME NEW x, NEW value, Decodes(x, value), NEW short \in Shortened(x, value)
    PROVE  Decodes(x, short)
<1>1. CASE x \in NumberFields \cup {"scoreThreshold"}
  <2>1. value \in Int \cup {NaN}
    BY <1>1 DEF Decodes
  <2>2. Shortened(x, value) = CutNumber(value)
    BY <1>1 DEF Shortened, NumberFields
  <2>3. value \in Int /\ short = value \div 10
    BY <2>1, <2>2 DEF CutNumber, IsAbove
  <2>4. short \in Int
    BY <2>3
  <2>. QED
    BY <1>1, <2>4 DEF Decodes, NumberFields, DurationFields
<1>2. CASE x = "targets"
  <2>1. \A t \in value : DOMAIN t = {"url", "interval"} /\ t.interval \in Texts
    BY <1>2 DEF Decodes
  <2>2. Shortened(x, value) = CutTargets(value)
    BY <1>2 DEF Shortened, NumberFields
  <2>3. \A t \in short : DOMAIN t = {"url", "interval"} /\ t.interval \in Texts
    BY <2>1, <2>2, CutTargetsDecode
  <2>. QED
    BY <1>2, <2>3 DEF Decodes, NumberFields, DurationFields
<1>3. CASE x \notin NumberFields \cup {"scoreThreshold", "targets"}
  <2>1. ASSUME x \in DurationFields PROVE FALSE
    <3>1. Shortened(x, value) = {}
      BY <1>3, <2>1 DEF Shortened, DurationFields, NumberFields
    <3>. QED
      BY <3>1
  <2>. QED
    BY <1>3, <2>1 DEF Decodes
<1>. QED
  BY <1>1, <1>2, <1>3

LEMMA CutDecodable ==
    ASSUME NEW set, Decodable(set), NEW n, NEW x \in DOMAIN set,
           NEW value \in Shortened(x, set[x])
    PROVE  Decodable([Beginning(set, n) EXCEPT ![x] = value])
<1>1. Decodes(x, value)
  BY ShortenedDecodes DEF Decodable
<1>. QED
  BY <1>1, BeginningDecodable DEF Decodable, Beginning, Restrict

LEMMA FilesInit == Init => FilesInv /\ ServerInv
<1>. SUFFICES ASSUME Init PROVE FilesInv /\ ServerInv
  OBVIOUS
<1>1. Decodable(file.set) /\ (file.state = "absent" => file.set = <<>>)
  BY ConfigFileAssumption, EmptyDecodable DEF Init
<1>2. DOMAIN editor = Editors /\ \A e \in Editors : CommandInv(e)
  BY EmptyDecodable DEF Init, CommandInv, Idle, EditorFields, Phases
<1>. QED
  BY <1>1, <1>2 DEF FilesInv, ServerInv, Init, Stopped

\* A command's step changes no command but its own.
LEMMA OneCommand ==
    ASSUME FilesInv, NEW e \in Editors, NEW new, editor' = [editor EXCEPT ![e] = new],
           DOMAIN new = EditorFields, new.phase \in Phases, new.user \in Users \cup {""},
           Decodable(new.set)
    PROVE  DOMAIN editor' = Editors /\ \A d \in Editors : CommandInv(d)'
<1>1. DOMAIN editor' = Editors /\ editor'[e] = new /\ \A d \in Editors \ {e} : editor'[d] = editor[d]
  BY DEF FilesInv
<1>. QED
  BY <1>1 DEF FilesInv, CommandInv
LEMMA FilesStep == FilesInv /\ ServerInv /\ [Next]_vars => FilesInv' /\ ServerInv'
<1>. SUFFICES ASSUME FilesInv, ServerInv, [Next]_vars PROVE FilesInv' /\ ServerInv'
  OBVIOUS
<1>1. ASSUME NEW x \in DOMAIN Choices, HandEdit(x) PROVE FilesInv' /\ ServerInv'
  <2>1. Decodable(file'.set) /\ file'.state = "whole"
    <3>1. ASSUME NEW value \in Choices[x],
                 file' = Whole([y \in DOMAIN file.set \cup {x} |->
                                   IF y = x THEN value ELSE file.set[y]])
          PROVE  Decodable(file'.set) /\ file'.state = "whole"
      BY <3>1, ConfigFileAssumption DEF FilesInv, Decodable, Whole
    <3>2. ASSUME file' = Whole(Restrict(file.set, DOMAIN file.set \ {x}))
          PROVE  Decodable(file'.set) /\ file'.state = "whole"
      BY <3>2 DEF FilesInv, Decodable, Whole, Restrict
    <3>. QED
      BY <1>1, <3>1, <3>2 DEF HandEdit
  <2>. QED
    BY <1>1, <2>1 DEF HandEdit, FilesInv, CommandInv, ServerInv
<1>2. ASSUME NEW e \in Editors, Command(e) PROVE FilesInv' /\ ServerInv'
  <2>. DEFINE Typed == DOMAIN editor' = Editors /\ \A d \in Editors : CommandInv(d)'
  <2>0. DOMAIN editor[e] = EditorFields /\ editor[e].phase \in Phases
        /\ editor[e].user \in Users \cup {""} /\ Decodable(editor[e].set)
    BY DEF FilesInv, CommandInv
  <2>1. DOMAIN Idle = EditorFields /\ Idle.phase \in Phases /\ Idle.user \in Users \cup {""}
        /\ Decodable(Idle.set)
    BY EmptyDecodable DEF Idle, EditorFields, Phases
  <2>2. ASSUME InitStat(e) PROVE FilesInv' /\ ServerInv'
    <3>1. PICK full \in BOOLEAN, targets \in {{}, {[url |-> "url", interval |-> "positive"]}} :
             editor' = [editor EXCEPT ![e] = [Idle EXCEPT !.phase = "read",
                                                          !.set = Template(full, targets)]]
      BY <2>2 DEF InitStat
    <3>2. Decodable(Template(full, targets))
      BY TemplateDecodable
    <3>3. Typed
      BY <3>1, <3>2, OneCommand DEF Idle, EditorFields, Phases
    <3>. QED
      BY <2>2, <3>3 DEF InitStat, FilesInv, ServerInv
  <2>3. ASSUME NEW user \in Users, BeginSetUser(e, user) PROVE FilesInv' /\ ServerInv'
    <3>. DEFINE new == [Idle EXCEPT !.phase = "asking", !.user = user]
    <3>0. editor' = [editor EXCEPT ![e] = new] /\ DOMAIN new = EditorFields
          /\ new.phase \in Phases /\ new.user \in Users \cup {""} /\ new.set = <<>>
      BY <2>3 DEF BeginSetUser, Idle, EditorFields, Phases
    <3>1. Typed
      BY <3>0, OneCommand, EmptyDecodable
    <3>. QED
      BY <2>3, <3>1 DEF BeginSetUser, FilesInv, ServerInv
  <2>4. ASSUME GiveUp(e) PROVE FilesInv' /\ ServerInv'
    <3>1. Typed
      BY <2>1, <2>4, OneCommand DEF GiveUp
    <3>. QED
      BY <2>4, <3>1 DEF GiveUp, FilesInv, ServerInv
  <2>5. ASSUME ReadAgain(e) PROVE FilesInv' /\ ServerInv'
    <3>1. CASE file.state = "broken"
      <4>1. editor' = [editor EXCEPT ![e] = Idle]
        BY <2>5, <3>1 DEF ReadAgain, FilesInv
      <4>2. Typed
        BY <2>1, <4>1, OneCommand
      <4>. QED
        BY <2>5, <4>2 DEF ReadAgain, FilesInv, ServerInv
    <3>2. CASE file.state # "broken"
      <4>. DEFINE new == [editor[e] EXCEPT !.phase = "read",
                                           !.set = WithUser(file, editor[e].user)]
      <4>1. editor' = [editor EXCEPT ![e] = new]
        BY <2>5, <3>2 DEF ReadAgain, FilesInv
      <4>2. Decodable(WithUser(file, editor[e].user))
        BY WithUserDecodable DEF FilesInv
      <4>3. DOMAIN new = EditorFields /\ new.phase \in Phases /\ new.user \in Users \cup {""}
            /\ Decodable(new.set)
        BY <2>0, <4>2 DEF EditorFields, Phases
      <4>4. Typed
        BY <4>1, <4>3, OneCommand
      <4>. QED
        BY <2>5, <4>4 DEF ReadAgain, FilesInv, ServerInv
    <3>. QED
      BY <3>1, <3>2
  <2>6. ASSUME Truncate(e) PROVE FilesInv' /\ ServerInv'
    <3>. DEFINE new == [editor[e] EXCEPT !.phase = "truncated"]
    <3>1. editor' = [editor EXCEPT ![e] = new]
      BY <2>6 DEF Truncate, FilesInv
    <3>2. DOMAIN new = EditorFields /\ new.phase \in Phases /\ new.user \in Users \cup {""}
          /\ Decodable(new.set)
      BY <2>0 DEF EditorFields, Phases
    <3>3. Typed
      BY <3>1, <3>2, OneCommand
    <3>. QED
      BY <2>6, <3>3, EmptyDecodable DEF Truncate, FilesInv, ServerInv, Whole
  <2>7. ASSUME Write(e) PROVE FilesInv' /\ ServerInv'
    <3>1. Typed
      BY <2>1, <2>7, OneCommand DEF Write
    <3>2. file' = Whole(editor[e].set) \/ file' = Broken
      BY <2>7 DEF Write
    <3>3. file'.set \in {editor[e].set, <<>>} /\ file'.state \in {"whole", "broken"}
      BY <3>2 DEF Whole, Broken
    <3>4. Decodable(file'.set) /\ file'.state # "absent"
      BY <2>0, <3>3, EmptyDecodable
    <3>. QED
      BY <2>7, <3>1, <3>4 DEF Write, FilesInv, ServerInv
  <2>8. ASSUME KillWriter(e) PROVE FilesInv' /\ ServerInv'
    <3>1. Typed
      BY <2>1, <2>8, OneCommand DEF KillWriter
    <3>2. Decodable(file'.set) /\ file'.state # "absent"
      <4>1. CASE file' = Broken
        BY <4>1, EmptyDecodable DEF Broken
      <4>2. ASSUME NEW n \in 0..Len(Order), file' = Whole(Beginning(editor[e].set, n))
            PROVE  Decodable(file'.set) /\ file'.state # "absent"
        BY <2>0, <4>2, BeginningDecodable DEF Whole
      <4>3. ASSUME NEW n \in DOMAIN Order, Order[n] \in DOMAIN editor[e].set,
                   NEW value \in Shortened(Order[n], editor[e].set[Order[n]]),
                   file' = Whole([Beginning(editor[e].set, n) EXCEPT ![Order[n]] = value])
            PROVE  Decodable(file'.set) /\ file'.state # "absent"
        <5>1. Decodable([Beginning(editor[e].set, n) EXCEPT ![Order[n]] = value])
          BY <2>0, <4>3, CutDecodable
        <5>. QED
          BY <4>3, <5>1 DEF Whole
      <4>. QED
        BY <2>8, <4>1, <4>2, <4>3 DEF KillWriter
    <3>. QED
      BY <2>8, <3>1, <3>2 DEF KillWriter, FilesInv, ServerInv
  <2>. QED
    BY <1>2, <2>2, <2>3, <2>4, <2>5, <2>6, <2>7, <2>8 DEF Command
<1>3. ASSUME Start PROVE FilesInv' /\ ServerInv'
  BY <1>3 DEF Start, FilesInv, CommandInv, ServerInv
<1>4. ASSUME Stop PROVE FilesInv' /\ ServerInv'
  BY <1>4 DEF Stop, Stopped, FilesInv, CommandInv, ServerInv
<1>5. ASSUME UNCHANGED vars PROVE FilesInv' /\ ServerInv'
  BY <1>5 DEF vars, FilesInv, CommandInv, ServerInv
<1>. QED
  BY <1>1, <1>2, <1>3, <1>4, <1>5 DEF Next

LEMMA FilesAlways == Spec => [](FilesInv /\ ServerInv)
BY FilesInit, FilesStep, PTL DEF Spec

\* Whatever the hand has written and wherever a command was killed: with a file
\* that Load accepts (config.go), the subsystems that cmd/circa starts have what
\* they need, and the one thing that can still panic is the route of
\* push.receive.path.
THEOREM AcceptedFileAlwaysWorks == Spec => []AcceptedFileWorks
<1>1. FilesInv /\ ServerInv => AcceptedFileWorks
  <2>. SUFFICES ASSUME ServerInv PROVE AcceptedFileWorks
    OBVIOUS
  <2>1. CASE server.state = "stopped"
    BY <2>1 DEF AcceptedFileWorks
  <2>2. CASE server.state # "stopped"
    BY <2>2, StartedWorks DEF ServerInv, AcceptedFileWorks
  <2>. QED
    BY <2>1, <2>2
<1>. QED
  BY <1>1, FilesAlways, PTL

\* The server that runs has, field by field, what its file says, or the default
\* where the file says nothing or the zero value (Decode, applyDefaults).
THEOREM FileAlwaysDecides == Spec => []FileDecides
<1>1. FilesInv /\ ServerInv => FileDecides
  <2>. SUFFICES ASSUME ServerInv, server.state = "running", NEW x \in Fields
                PROVE  IF x \in DOMAIN server.read.set
                       THEN \/ server.cfg[x] = Decoded(x, server.read.set[x])
                            \/ /\ x \notin {"diffN", "smoothN", "minute", "hour"}
                               /\ server.cfg[x] = Default[x]
                            \/ x = "nodeID"
                       ELSE server.cfg[x] = Default[x] \/ x = "nodeID"
    BY DEF FileDecides
  <2>1. server.cfg = Loaded(server.read) /\ Decided(server.read, x)
    BY FieldDecided DEF ServerInv
  <2>. QED
    BY <2>1 DEF Decided
<1>. QED
  BY <1>1, FilesAlways, PTL
-----------------------------------------------------------------------------
(* Users: a command that is about to write has every user that was reported, *)
(* unless the history is disturbed.                                          *)

Covers(set) == NullSection(Whole(set)) \/ hist.reported \subseteq DOMAIN UsersIn(Whole(set))

UsersInv ==
    /\ hist \in [reported : SUBSET Users, disturbed : BOOLEAN]
    /\ \A e \in Editors : editor[e].phase = "asking" => editor[e].user \in Users
    /\ ~hist.disturbed =>
          \A e \in Editors : Writing(e) =>
             /\ Covers(editor[e].set)
             /\ \/ editor[e].user = ""
                \/ NullSection(Whole(editor[e].set))
                \/ editor[e].user \in DOMAIN UsersIn(Whole(editor[e].set))
             /\ editor[e].phase = "truncated" => file = Whole(<<>>)
    /\ UsersAreKept

LEMMA UsersOf ==
    ASSUME NEW set
    PROVE  /\ NullSection(Whole(set)) <=> "users" \in DOMAIN set /\ set.users.section = "null"
           /\ UsersIn(Whole(set)) = IF "users" \in DOMAIN set THEN set.users.entries ELSE <<>>
BY DEF NullSection, UsersIn, Whole

LEMMA TemplateUsers ==
    ASSUME NEW full, NEW targets
    PROVE  Template(full, targets).users = [section |-> "mapping", entries |-> <<>>]
BY DEF Template

LEMMA WithUserUsers ==
    ASSUME NEW f, NEW user, ~NullSection(f)
    PROVE  /\ ~NullSection(Whole(WithUser(f, user)))
           /\ UsersIn(Whole(WithUser(f, user))) = Put(UsersIn(f), user)
<1>1. "users" \in DOMAIN WithUser(f, user)
      /\ WithUser(f, user)["users"] = [section |-> "mapping", entries |-> Put(UsersIn(f), user)]
  BY DEF WithUser
<1>. QED
  BY <1>1 DEF NullSection, UsersIn, Whole

LEMMA UsersInit == Init => UsersInv
<1>. SUFFICES ASSUME Init PROVE UsersInv
  OBVIOUS
<1>1. \A e \in Editors : editor[e].phase = "idle"
  BY DEF Init, Idle
<1>2. hist = [reported |-> {}, disturbed |-> FALSE]
  BY DEF Init
<1>. QED
  BY <1>1, <1>2 DEF UsersInv, Writing, UsersAreKept

LEMMA UsersStep == FilesInv /\ UsersInv /\ [Next]_vars => UsersInv'
<1>. SUFFICES ASSUME FilesInv, UsersInv, [Next]_vars PROVE UsersInv'
  OBVIOUS
<1>0. hist = [reported |-> hist.reported, disturbed |-> hist.disturbed]
      /\ hist.reported \subseteq Users /\ hist.disturbed \in BOOLEAN
  BY DEF UsersInv
<1>1. ASSUME NEW x \in DOMAIN Choices, HandEdit(x) PROVE UsersInv'
  <2>1. hist' = [reported |-> hist.reported \cap DOMAIN UsersIn(file'),
                 disturbed |-> hist.disturbed \/ \E e \in Editors : Writing(e)]
        /\ editor' = editor
    BY <1>1 DEF HandEdit
  <2>2. hist'.reported \subseteq DOMAIN UsersIn(file') /\ UsersAreKept'
    BY <2>1 DEF UsersAreKept
  <2>3. hist' \in [reported : SUBSET Users, disturbed : BOOLEAN]
    BY <1>0, <2>1
  <2>4. ~hist'.disturbed => ~\E e \in Editors : Writing(e)'
    BY <2>1 DEF Writing
  <2>. QED
    BY <2>1, <2>2, <2>3, <2>4 DEF UsersInv
<1>2. ASSUME NEW e \in Editors, Command(e) PROVE UsersInv'
  <2>. DEFINE Kept(d) ==
          /\ Covers(editor[d].set)
          /\ \/ editor[d].user = ""
             \/ NullSection(Whole(editor[d].set))
             \/ editor[d].user \in DOMAIN UsersIn(Whole(editor[d].set))
          /\ editor[d].phase = "truncated" => file = Whole(<<>>)
  <2>0. DOMAIN editor[e] = EditorFields /\ editor[e].phase \in Phases
        /\ editor[e].user \in Users \cup {""} /\ DOMAIN editor = Editors
    BY DEF FilesInv, CommandInv
  <2>1. /\ \A d \in Editors : ~hist.disturbed /\ Writing(d) => Kept(d)
        /\ \A d \in Editors : editor[d].phase = "asking" => editor[d].user \in Users
    BY DEF UsersInv
  <2>2. ASSUME InitStat(e) PROVE UsersInv'
    <3>1. PICK full \in BOOLEAN, targets \in {{}, {[url |-> "url", interval |-> "positive"]}} :
             editor' = [editor EXCEPT ![e] = [Idle EXCEPT !.phase = "read",
                                                          !.set = Template(full, targets)]]
      BY <2>2 DEF InitStat
    <3>2. hist' = hist /\ file' = file /\ file = Absent
      BY <2>2 DEF InitStat
    <3>3. /\ editor'[e].phase = "read" /\ editor'[e].user = ""
          /\ editor'[e].set = Template(full, targets)
          /\ \A d \in Editors \ {e} : editor'[d] = editor[d]
      BY <2>0, <3>1 DEF Idle
    <3>4. ASSUME ~hist.disturbed PROVE hist.reported = {}
      <4>1. \A d \in Editors : editor[d].phase # "truncated"
        BY <2>1, <3>2, <3>4 DEF Absent, Whole, Writing
      <4>2. ~NullSection(file) /\ UsersIn(file) = <<>>
        BY <3>2 DEF NullSection, UsersIn, Absent
      <4>3. hist.reported \subseteq DOMAIN UsersIn(file)
        BY <3>4, <4>1, <4>2 DEF UsersInv, UsersAreKept
      <4>. QED
        BY <4>2, <4>3
    <3>5. ~hist.disturbed => Covers(editor[e].set)'
      BY <3>2, <3>3, <3>4 DEF Covers
    <3>6. \A d \in Editors : (~hist.disturbed /\ Writing(d) => Kept(d))'
      <4>. SUFFICES ASSUME NEW d \in Editors, ~hist.disturbed, Writing(d)' PROVE Kept(d)'
        BY <3>2
      <4>0. ~hist.disturbed
        BY <3>2
      <4>1. CASE d = e
        <5>1. editor'[d].user = "" /\ editor'[d].phase = "read"
          BY <3>3, <4>1
        <5>2. Covers(editor[d].set)'
          BY <3>2, <3>5, <4>0, <4>1 DEF Covers
        <5>. QED
          BY <5>1, <5>2
      <4>2. CASE d # e
        BY <2>1, <3>2, <3>3, <4>2 DEF Writing, Covers
      <4>. QED
        BY <4>1, <4>2
    <3>7. UsersAreKept'
      BY <3>2, <3>4 DEF UsersAreKept
    <3>8. \A d \in Editors : editor'[d].phase = "asking" => editor'[d].user \in Users
      BY <2>1, <3>3
    <3>. QED
      BY <3>2, <3>6, <3>7, <3>8 DEF UsersInv
  <2>3. ASSUME NEW user \in Users, BeginSetUser(e, user) PROVE UsersInv'
    <3>0. editor[e] = Idle /\ Idle.phase = "idle"
      BY <2>3 DEF BeginSetUser, Idle
    <3>1. editor'[e].phase = "asking" /\ editor'[e].user = user
          /\ (\A d \in Editors \ {e} : editor'[d] = editor[d])
          /\ editor[e].phase = "idle"
      BY <2>0, <2>3, <3>0 DEF BeginSetUser, Idle
    <3>2. hist' = hist /\ file' = file
      BY <2>3 DEF BeginSetUser
    <3>3. \A d \in Editors : (~hist.disturbed /\ Writing(d) => Kept(d))'
      <4>. SUFFICES ASSUME NEW d \in Editors, ~hist.disturbed, Writing(d)' PROVE Kept(d)'
        BY <3>2
      <4>1. d # e
        BY <3>1 DEF Writing
      <4>. QED
        BY <2>1, <3>1, <3>2, <4>1 DEF Writing, Covers
    <3>4. UsersAreKept'
      BY <3>1, <3>2 DEF UsersAreKept, UsersInv
    <3>5. \A d \in Editors : editor'[d].phase = "asking" => editor'[d].user \in Users
      BY <2>1, <3>1
    <3>. QED
      BY <3>2, <3>3, <3>4, <3>5 DEF UsersInv
  <2>4. ASSUME GiveUp(e) PROVE UsersInv'
    <3>1. editor'[e].phase = "idle" /\ (\A d \in Editors \ {e} : editor'[d] = editor[d])
          /\ editor[e].phase = "asking"
      BY <2>0, <2>4 DEF GiveUp, Idle
    <3>2. hist' = hist /\ file' = file
      BY <2>4 DEF GiveUp
    <3>3. \A d \in Editors : (~hist.disturbed /\ Writing(d) => Kept(d))'
      <4>. SUFFICES ASSUME NEW d \in Editors, ~hist.disturbed, Writing(d)' PROVE Kept(d)'
        BY <3>2
      <4>1. d # e
        BY <3>1 DEF Writing
      <4>. QED
        BY <2>1, <3>1, <3>2, <4>1 DEF Writing, Covers
    <3>4. UsersAreKept'
      BY <3>1, <3>2 DEF UsersAreKept, UsersInv
    <3>. QED
      BY <3>1, <3>2, <3>3, <3>4 DEF UsersInv
  <2>5. ASSUME ReadAgain(e) PROVE UsersInv'
    <3>. DEFINE others == \E o \in Editors \ {e} : Writing(o)
    <3>1. hist' = [reported |-> hist.reported, disturbed |-> hist.disturbed \/ others]
          /\ file' = file /\ editor[e].phase = "asking"
          /\ editor' = [editor EXCEPT ![e] =
                 IF file.state = "broken" THEN Idle
                 ELSE [@ EXCEPT !.phase = "read", !.set = WithUser(file, editor[e].user)]]
      BY <1>0, <2>5 DEF ReadAgain
    <3>2. \A d \in Editors \ {e} : editor'[d] = editor[d]
      BY <2>0, <3>1
    <3>3. editor'[e].phase \in {"idle", "read"}
      BY <2>0, <3>1 DEF Idle, EditorFields
    <3>4. UsersAreKept'
      <4>. SUFFICES ASSUME ~hist'.disturbed, ~NullSection(file'),
                           \A d \in Editors : editor'[d].phase # "truncated"
                    PROVE  hist'.reported \subseteq DOMAIN UsersIn(file')
        BY DEF UsersAreKept
      <4>1. \A d \in Editors : editor[d].phase # "truncated"
        BY <3>1, <3>2
      <4>. QED
        BY <3>1, <4>1 DEF UsersInv, UsersAreKept
    <3>5. \A d \in Editors : (~hist.disturbed /\ Writing(d) => Kept(d))'
      <4>. SUFFICES ASSUME NEW d \in Editors, ~hist'.disturbed, Writing(d)' PROVE Kept(d)'
        OBVIOUS
      <4>1. ~hist.disturbed /\ ~others
        BY <3>1
      <4>2. d = e
        BY <3>2, <4>1 DEF Writing
      <4>3. editor'[e].phase = "read" /\ editor'[e].user = editor[e].user
            /\ editor'[e].set = WithUser(file, editor[e].user)
        <5>1. editor'[e].phase # "idle"
          BY <4>2 DEF Writing
        <5>2. file.state # "broken"
          BY <2>0, <3>1, <5>1 DEF Idle
        <5>. QED
          BY <2>0, <3>1, <5>2 DEF EditorFields
      <4>4. CASE NullSection(file)
        <5>1. NullSection(Whole(editor'[e].set))
          BY <4>3, <4>4, UsersOf DEF WithUser, NullSection
        <5>. QED
          BY <4>2, <4>3, <5>1 DEF Covers
      <4>5. CASE ~NullSection(file)
        <5>1. hist.reported \subseteq DOMAIN UsersIn(file)
          <6>1. \A o \in Editors : editor[o].phase # "truncated"
            BY <3>1, <4>1 DEF Writing
          <6>. QED
            BY <4>1, <4>5, <6>1 DEF UsersInv, UsersAreKept
        <5>2. UsersIn(Whole(editor'[e].set)) = Put(UsersIn(file), editor[e].user)
          BY <4>3, <4>5, WithUserUsers
        <5>3. DOMAIN UsersIn(Whole(editor'[e].set)) = DOMAIN UsersIn(file) \cup {editor[e].user}
          BY <5>2 DEF Put
        <5>. QED
          BY <3>1, <4>2, <4>3, <5>1, <5>3 DEF Covers
      <4>. QED
        BY <4>4, <4>5
    <3>6. hist' \in [reported : SUBSET Users, disturbed : BOOLEAN]
      BY <1>0, <3>1
    <3>. QED
      BY <3>2, <3>3, <3>4, <3>5, <3>6 DEF UsersInv
  <2>6. ASSUME Truncate(e) PROVE UsersInv'
    <3>1. editor'[e] = [editor[e] EXCEPT !.phase = "truncated"]
          /\ (\A d \in Editors \ {e} : editor'[d] = editor[d])
          /\ editor[e].phase = "read" /\ hist' = hist /\ file' = Whole(<<>>)
      BY <2>0, <2>6 DEF Truncate
    <3>2. editor'[e].phase = "truncated" /\ editor'[e].user = editor[e].user
          /\ editor'[e].set = editor[e].set
      BY <2>0, <3>1 DEF EditorFields
    <3>3. \A d \in Editors : (~hist.disturbed /\ Writing(d) => Kept(d))'
      <4>. SUFFICES ASSUME NEW d \in Editors, ~hist.disturbed, Writing(d)' PROVE Kept(d)'
        BY <3>1
      <4>1. Writing(d)
        BY <3>1, <3>2 DEF Writing
      <4>. QED
        BY <2>1, <3>1, <3>2, <4>1 DEF Covers
    <3>4. UsersAreKept'
      BY <3>2 DEF UsersAreKept
    <3>. QED
      BY <3>1, <3>2, <3>3, <3>4 DEF UsersInv
  <2>7. ASSUME Write(e) PROVE UsersInv'
    <3>. DEFINE others == \E o \in Editors \ {e} : Writing(o)
    <3>1. hist' = [reported |-> IF editor[e].user = "" THEN hist.reported
                                ELSE hist.reported \cup {editor[e].user},
                   disturbed |-> hist.disturbed \/ others]
          /\ editor[e].phase = "truncated" /\ editor' = [editor EXCEPT ![e] = Idle]
          /\ file' \in {Whole(editor[e].set)} \cup (IF file = Whole(<<>>) THEN {} ELSE {Broken})
      BY <1>0, <2>7 DEF Write
    <3>2. editor'[e].phase = "idle" /\ \A d \in Editors \ {e} : editor'[d] = editor[d]
      BY <2>0, <3>1 DEF Idle
    <3>3. ~hist'.disturbed => ~hist.disturbed /\ \A d \in Editors : ~Writing(d)'
      BY <3>1, <3>2 DEF Writing
    <3>4. UsersAreKept'
      <4>. SUFFICES ASSUME ~hist'.disturbed, ~NullSection(file')
                    PROVE  hist'.reported \subseteq DOMAIN UsersIn(file')
        BY DEF UsersAreKept
      <4>1. Kept(e)
        BY <2>1, <3>1, <3>3 DEF Writing
      <4>2. file' = Whole(editor[e].set)
        BY <3>1, <4>1
      <4>. QED
        BY <3>1, <4>1, <4>2 DEF Covers
    <3>5. hist' \in [reported : SUBSET Users, disturbed : BOOLEAN]
      BY <1>0, <2>0, <3>1
    <3>. QED
      BY <3>2, <3>3, <3>4, <3>5 DEF UsersInv
  <2>8. ASSUME KillWriter(e) PROVE UsersInv'
    <3>1. hist' = [reported |-> hist.reported, disturbed |-> TRUE]
          /\ editor' = [editor EXCEPT ![e] = Idle]
      BY <1>0, <2>8 DEF KillWriter
    <3>2. editor'[e].phase = "idle" /\ \A d \in Editors \ {e} : editor'[d] = editor[d]
      BY <2>0, <3>1 DEF Idle
    <3>3. hist' \in [reported : SUBSET Users, disturbed : BOOLEAN] /\ hist'.disturbed
      BY <1>0, <3>1
    <3>. QED
      BY <3>2, <3>3 DEF UsersInv, UsersAreKept
  <2>. QED
    BY <1>2, <2>2, <2>3, <2>4, <2>5, <2>6, <2>7, <2>8 DEF Command
<1>3. ASSUME UNCHANGED <<file, editor, hist>> PROVE UsersInv'
  BY <1>3 DEF UsersInv, Writing, Covers, UsersAreKept
<1>. QED
  BY <1>1, <1>2, <1>3 DEF Next, Start, Stop, vars

LEMMA UsersAlways == Spec => []UsersInv
BY FilesAlways, UsersInit, UsersStep, PTL DEF Spec

\* Whatever happens between a command's reading and its writing of the file
\* (readAuthUsers and SetUser): while the history is undisturbed and the
\* section is a mapping, every user that a command reported as set is there.
THEOREM UsersAlwaysKept == Spec => []UsersAreKept
<1>1. UsersInv => UsersAreKept
  BY DEF UsersInv
<1>. QED
  BY <1>1, UsersAlways, PTL
-----------------------------------------------------------------------------
(* What a command is going to write loads                                    *)

LEMMA NoCondition ==
    ASSUME NEW condition, ~condition, NEW x PROVE Errors(condition, x) = {}
BY DEF Errors

\* Validate looks at the users by themselves.
LEMMA OtherUsers ==
    ASSUME NEW cfg, NEW new, \A x \in Fields \ {"users"} : new[x] = cfg[x],
           Validate(cfg) = {}, \A user \in DOMAIN new.users : ValidUser(new, user)
    PROVE  Validate(new) = {}
<1>1. /\ new.targets = cfg.targets /\ new.influxReceive = cfg.influxReceive
      /\ new.influxPath = cfg.influxPath /\ new.collect = cfg.collect
      /\ new.collectInterval = cfg.collectInterval /\ new.pushReceive = cfg.pushReceive
      /\ new.receivePath = cfg.receivePath /\ new.pushSend = cfg.pushSend
      /\ new.sendURL = cfg.sendURL /\ new.sendInterval = cfg.sendInterval
  BY FieldNames
<1>2. /\ new.alerts = cfg.alerts /\ new.rules = cfg.rules /\ new.notifiers = cfg.notifiers
      /\ new.ml = cfg.ml /\ new.modelCount = cfg.modelCount
      /\ new.trainingWindow = cfg.trainingWindow /\ new.retrainInterval = cfg.retrainInterval
      /\ new.diffN = cfg.diffN /\ new.smoothN = cfg.smoothN /\ new.lagN = cfg.lagN
      /\ new.scoreThreshold = cfg.scoreThreshold
  BY FieldNames
<1>3. /\ new.backup = cfg.backup /\ new.mode = cfg.mode /\ new.uri = cfg.uri
      /\ new.warehouse = cfg.warehouse /\ new.schedule = cfg.schedule
  BY FieldNames
<1>4. ValidateSources(new) = ValidateSources(cfg)
  BY <1>1 DEF ValidateSources, CollectEnabled
<1>5. ValidateAlerting(new) = ValidateAlerting(cfg)
  BY <1>2 DEF ValidateAlerting, ValidRule, NotifierNames
<1>6. ValidateAnomaly(new) = ValidateAnomaly(cfg) /\ ValidateBackup(new) = ValidateBackup(cfg)
  BY <1>2, <1>3 DEF ValidateAnomaly, ValidateBackup
<1>7. Errors(\E user \in DOMAIN new.users : ~ValidUser(new, user), "users") = {}
  BY NoCondition
<1>. QED
  BY <1>2, <1>3, <1>4, <1>5, <1>6, <1>7 DEF Validate

LEMMA DefaultLoads == Validate(Effective(<<>>)) = {}
<1>. DEFINE cfg == Effective(<<>>)
<1>1. \A x \in Fields : cfg[x] = Default[x] \/ x = "nodeID"
  <2>. SUFFICES ASSUME NEW x \in Fields PROVE cfg[x] = Default[x] \/ x = "nodeID"
    OBVIOUS
  <2>. QED
    BY EffectiveField DEF DefaultFor
<1>2. cfg.targets = {} /\ cfg.influxReceive = FALSE /\ cfg.collectInterval = 1
      /\ cfg.pushReceive = FALSE /\ cfg.pushSend = FALSE /\ cfg.users = <<>>
      /\ cfg.backup = FALSE /\ cfg.alerts = FALSE /\ cfg.ml = FALSE
  <2>1. Default.targets = {} /\ Default.influxReceive = FALSE /\ Default.collectInterval = 1
        /\ Default.pushReceive = FALSE /\ Default.pushSend = FALSE /\ Default.users = <<>>
        /\ Default.backup = FALSE /\ Default.alerts = FALSE /\ Default.ml = FALSE
    BY DEF Default
  <2>. QED
    BY <1>1, <2>1, FieldNames
<1>3. ValidateSources(cfg) = {}
  <2>1. ~\E t \in cfg.targets : t.url = "" \/ t.interval <= 0
    BY <1>2
  <2>2. ~(cfg.influxReceive /\ cfg.influxPath = "") /\ ~(cfg.pushReceive /\ cfg.receivePath = "")
    BY <1>2, Zenon
  <2>3. ~(cfg.collectInterval < 0)
    BY <1>2
  <2>4. ~(CollectEnabled(cfg) /\ cfg.collectInterval < 0)
    BY <2>3, Zenon
  <2>. QED
    BY <1>2, <2>1, <2>2, <2>4, NoCondition DEF ValidateSources
<1>4. Errors(\E user \in DOMAIN cfg.users : ~ValidUser(cfg, user), "users") = {}
  <2>1. DOMAIN cfg.users = {}
    BY <1>2
  <2>. QED
    BY <2>1, NoCondition
<1>. QED
  BY <1>2, <1>3, <1>4 DEF Validate

\* SetUser changes the users and nothing else.
LEMMA WithUserFields ==
    ASSUME NEW f, NEW user, NEW x \in Fields \ {"users"}
    PROVE  Effective(WithUser(f, user))[x] = Effective(f.set)[x]
<1>. DEFINE set == WithUser(f, user)
<1>1. (x \in DOMAIN set <=> x \in DOMAIN f.set) /\ (x \in DOMAIN f.set => set[x] = f.set[x])
  BY DEF WithUser
<1>. QED
  BY <1>1, EffectiveField

LEMMA EffectiveUsers ==
    ASSUME NEW set
    PROVE  Effective(set).users = IF "users" \in DOMAIN set THEN set.users.entries ELSE <<>>
<1>1. "users" \in Fields /\ "users" \notin DOMAIN Zero
  BY FieldNames, ZeroNames
<1>2. Default["users"] = <<>>
  BY DEF Default
<1>3. Decoded("users", set["users"]) = set.users.entries
  BY DEF Decoded, DurationFields
<1>. QED
  BY <1>1, <1>2, <1>3, EffectiveField

LEMMA WithUserLoads ==
    ASSUME NEW f, NEW user, f.state = "absent" => f.set = <<>>, Loads(f), user # ""
    PROVE  Loads(Whole(WithUser(f, user)))
<1>. DEFINE old == Effective(f.set)
            new == Effective(WithUser(f, user))
<1>1. Validate(old) = {}
  BY DefaultLoads DEF Loads
<1>2. \A u \in DOMAIN UsersIn(f) : u # "" /\ UsersIn(f)[u] = "bcrypt"
  <2>1. old.users = UsersIn(f)
    BY EffectiveUsers DEF UsersIn
  <2>2. Errors(\E u \in DOMAIN old.users : ~ValidUser(old, u), "users") = {}
    BY <1>1 DEF Validate
  <2>3. \A u \in DOMAIN old.users : ValidUser(old, u)
    BY <2>2, NoErrors
  <2>. QED
    BY <2>1, <2>3 DEF ValidUser, LooksBcrypt
<1>3. \A u \in DOMAIN new.users : ValidUser(new, u)
  <2>1. CASE NullSection(f)
    <3>1. new.users = UsersIn(f)
      BY <2>1, EffectiveUsers DEF WithUser, UsersIn
    <3>. QED
      BY <1>2, <3>1 DEF ValidUser, LooksBcrypt
  <2>2. CASE ~NullSection(f)
    <3>1. new.users = Put(UsersIn(f), user)
      <4>1. "users" \in DOMAIN WithUser(f, user)
        BY <2>2 DEF WithUser
      <4>2. WithUser(f, user)["users"].entries = Put(UsersIn(f), user)
        BY <2>2 DEF WithUser
      <4>. QED
        BY <4>1, <4>2, EffectiveUsers
    <3>. QED
      BY <1>2, <3>1 DEF ValidUser, LooksBcrypt, Put, HashPassword
  <2>. QED
    BY <2>1, <2>2
<1>4. \A x \in Fields \ {"users"} : new[x] = old[x]
  BY WithUserFields
<1>5. Validate(new) = {}
  BY <1>1, <1>3, <1>4, OtherUsers
<1>. QED
  BY <1>5 DEF Loads, Whole

\* The one rule of the template, once decoded.
DecodedRule == [HighCPU EXCEPT !.window = DurationOf[@], !.for = DurationOf[@]]

LEMMA TemplateRuleValid ==
    ASSUME NEW cfg, cfg.notifiers = <<OpsWebhook>> PROVE ValidRule(cfg, DecodedRule)
<1>1. /\ DecodedRule.name = "high_cpu" /\ DecodedRule.metric = "node_cpu_seconds_total"
      /\ DecodedRule.type = "threshold" /\ DecodedRule.operator = "<"
      /\ DecodedRule.for = 1 /\ DecodedRule.severity = "warning"
      /\ DecodedRule.notify = {"ops-webhook"}
  BY DEF DecodedRule, HighCPU, DurationOf
<1>2. "ops-webhook" \in NotifierNames(cfg)
  BY DEF NotifierNames, OpsWebhook
<1>. QED
  BY <1>1, <1>2 DEF ValidRule, ValidCondition, Operators, Severities

LEMMA TemplateLoads ==
    ASSUME NEW full \in BOOLEAN,
           NEW targets \in {{}, {[url |-> "url", interval |-> "positive"]}}
    PROVE  Loads(Whole(Template(full, targets)))
<1>. DEFINE set == Template(full, targets)
            cfg == Effective(set)
<1>1. ASSUME NEW x \in Fields
      PROVE  cfg[x] = LET v == Decoded(x, set[x])
                      IN  IF x \in DOMAIN Zero /\ v = Zero[x] THEN DefaultFor(x) ELSE v
  <2>1. DOMAIN set = Fields
    BY FieldNames DEF Template
  <2>. QED
    BY <2>1, EffectiveField
<1>2. ASSUME NEW x \in Fields \ DOMAIN Zero PROVE cfg[x] = Decoded(x, set[x])
  BY <1>1
<1>3. /\ cfg.influxReceive = full /\ cfg.pushReceive = full /\ cfg.pushSend = full
      /\ cfg.backup = full /\ cfg.alerts = full /\ cfg.ml = full
      /\ cfg.sendURL = "url" /\ cfg.mode = "pull" /\ cfg.diffN = 1 /\ cfg.smoothN = 3
      /\ cfg.notifiers = IF full THEN <<OpsWebhook>> ELSE <<>>
  <2>1. /\ set["influxReceive"] = full /\ set["pushReceive"] = full /\ set["pushSend"] = full
        /\ set["backup"] = full /\ set["alerts"] = full /\ set["ml"] = full
        /\ set["sendURL"] = "url" /\ set["mode"] = "pull" /\ set["diffN"] = 1
        /\ set["smoothN"] = 3
        /\ set["notifiers"] = IF full THEN <<OpsWebhook>> ELSE <<>>
    BY DEF Template
  <2>2. \A x \in {"influxReceive", "pushReceive", "pushSend", "backup", "alerts", "ml",
                  "sendURL", "mode", "diffN", "smoothN", "notifiers"} :
           x \in Fields \ DOMAIN Zero /\ Decoded(x, set[x]) = set[x]
    BY FieldNames, ZeroNames DEF Decoded, DurationFields
  <2>. QED
    BY <1>2, <2>1, <2>2
<1>4. /\ cfg.collectInterval = 1 /\ cfg.sendInterval = 1 /\ cfg.trainingWindow = 1
      /\ cfg.retrainInterval = 1
  <2>1. /\ set["collectInterval"] = "positive" /\ set["sendInterval"] = "positive"
        /\ set["trainingWindow"] = "positive" /\ set["retrainInterval"] = "positive"
    BY DEF Template
  <2>2. \A x \in {"collectInterval", "sendInterval", "trainingWindow", "retrainInterval"} :
           x \in Fields /\ Decoded(x, set[x]) = 1 /\ DefaultFor(x) = 1
    <3>1. DurationOf["positive"] = 1
      BY DEF DurationOf
    <3>2. \A x \in {"collectInterval", "sendInterval", "trainingWindow", "retrainInterval"} :
             x \in Fields /\ Decoded(x, set[x]) = DurationOf["positive"]
      BY <2>1, FieldNames DEF Decoded, DurationFields
    <3>3. \A x \in {"collectInterval", "sendInterval", "trainingWindow", "retrainInterval"} :
             DefaultFor(x) = 1
      BY DefaultNumbers DEF DefaultFor
    <3>. QED
      BY <3>1, <3>2, <3>3
  <2>. QED
    BY <1>1, <2>2
<1>5. cfg.modelCount = 18 /\ cfg.lagN = 5 /\ cfg.scoreThreshold = 99
  <2>1. set["modelCount"] = 18 /\ set["lagN"] = 5 /\ set["scoreThreshold"] = 99
    BY DEF Template
  <2>2. \A x \in {"modelCount", "lagN", "scoreThreshold"} :
           x \in Fields /\ Decoded(x, set[x]) = set[x] /\ DefaultFor(x) = set[x]
    BY <2>1, FieldNames, DefaultNumbers DEF Decoded, DurationFields, DefaultFor
  <2>. QED
    BY <1>1, <2>1, <2>2
<1>6. cfg.influxPath = "/write" /\ cfg.receivePath = "/api/v1/write"
  <2>1. /\ set["influxPath"] = "/write" /\ Default["influxPath"] = "/write"
        /\ set["receivePath"] = "/api/v1/write" /\ Default["receivePath"] = "/api/v1/write"
    BY DEF Template, Default
  <2>2. \A x \in {"influxPath", "receivePath"} :
           x \in Fields /\ Decoded(x, set[x]) = set[x] /\ DefaultFor(x) = set[x]
    BY <2>1, FieldNames DEF Decoded, DurationFields, DefaultFor
  <2>. QED
    BY <1>1, <2>1, <2>2
<1>7. cfg.users = <<>>
  <2>1. "users" \in DOMAIN set /\ set.users.entries = <<>>
    BY TemplateUsers DEF Template
  <2>. QED
    BY <2>1, EffectiveUsers
<1>8. ASSUME NEW t \in cfg.targets PROVE t.url = "url" /\ t.interval = 1
  <2>1. "targets" \in Fields \ DOMAIN Zero /\ set["targets"] = targets
    BY FieldNames, ZeroNames DEF Template
  <2>2. cfg["targets"] = Decoded("targets", targets)
    BY <1>2, <2>1
  <2>3. PICK u \in targets : t = [u EXCEPT !.interval = DurationOf[@]]
    BY <2>2 DEF Decoded, DurationFields
  <2>4. u = [url |-> "url", interval |-> "positive"]
    BY <2>3
  <2>. QED
    BY <2>3, <2>4 DEF DurationOf
<1>9. cfg.rules = IF full THEN {DecodedRule} ELSE {}
  <2>1. "rules" \in Fields \ DOMAIN Zero
    BY FieldNames, ZeroNames
  <2>2. set["rules"] = IF full THEN {HighCPU} ELSE {}
    BY DEF Template
  <2>3. cfg["rules"] = Decoded("rules", set["rules"])
    BY <1>2, <2>1
  <2>. QED
    BY <2>2, <2>3 DEF Decoded, DurationFields, DecodedRule
<1>10. ValidateSources(cfg) = {}
  <2>1. ~\E t \in cfg.targets : t.url = "" \/ t.interval <= 0
    <3>1. ASSUME NEW t \in cfg.targets PROVE t.url # "" /\ ~(t.interval <= 0)
      <4>1. t.url = "url" /\ t.interval = 1
        BY <1>8
      <4>. QED
        BY <4>1
    <3>. QED
      BY <3>1
  <2>2. cfg.influxPath # "" /\ cfg.receivePath # "" /\ cfg.sendURL # ""
    BY <1>3, <1>6
  <2>3. ~(cfg.influxReceive /\ cfg.influxPath = "") /\ ~(cfg.pushReceive /\ cfg.receivePath = "")
    BY <2>2, Zenon
  <2>4. ~(cfg.collectInterval < 0) /\ ~(cfg.sendInterval <= 0)
    BY <1>4
  <2>5. ~(CollectEnabled(cfg) /\ cfg.collectInterval < 0)
    BY <2>4, Zenon
  <2>. QED
    BY <2>1, <2>2, <2>3, <2>4, <2>5, NoCondition DEF ValidateSources
<1>11. cfg.ml => ValidateAnomaly(cfg) = {}
  <2>1. /\ ~(cfg.modelCount < 1) /\ ~(cfg.trainingWindow <= 0) /\ ~(cfg.retrainInterval <= 0)
        /\ ~(cfg.diffN \notin 0..1) /\ ~(cfg.smoothN < 0) /\ ~(cfg.lagN < 1)
        /\ ~(IsAtMost(cfg.scoreThreshold, 0) \/ IsAbove(cfg.scoreThreshold, 100))
    BY <1>3, <1>4, <1>5 DEF IsAtMost, IsAbove
  <2>. QED
    BY <2>1, NoCondition DEF ValidateAnomaly
<1>12. ValidateBackup(cfg) = {}
  BY <1>3, NoCondition DEF ValidateBackup
<1>13. ASSUME cfg.alerts PROVE ValidateAlerting(cfg) = {}
  <2>1. cfg.notifiers = <<OpsWebhook>> /\ cfg.rules = {DecodedRule}
    BY <1>3, <1>9, <1>13
  <2>2. DOMAIN cfg.notifiers = {1} /\ cfg.notifiers[1] = OpsWebhook
    BY <2>1
  <2>3. OpsWebhook.name = "ops-webhook" /\ OpsWebhook.type = "webhook" /\ OpsWebhook.url = "url"
    BY DEF OpsWebhook
  <2>4. \A r \in cfg.rules : ValidRule(cfg, r)
    BY <2>1, TemplateRuleValid
  <2>5. ~\/ \E i, j \in DOMAIN cfg.notifiers :
                 i # j /\ cfg.notifiers[i].name = cfg.notifiers[j].name
         \/ \E i \in DOMAIN cfg.notifiers :
                 LET n == cfg.notifiers[i]
                 IN  n.name = "" \/ n.type \notin {"webhook", "slack"} \/ n.url = ""
    BY <2>2, <2>3
  <2>. QED
    BY <2>4, <2>5, NoCondition DEF ValidateAlerting
<1>14. Errors(\E user \in DOMAIN cfg.users : ~ValidUser(cfg, user), "users") = {}
  <2>1. DOMAIN cfg.users = {}
    BY <1>7
  <2>. QED
    BY <2>1, NoCondition
<1>15. Validate(cfg) = {}
  BY <1>10, <1>11, <1>12, <1>13, <1>14 DEF Validate
<1>. QED
  BY <1>15 DEF Loads, Whole

\* `circa config init`, `auth add-user` and `auth reset-password` do not make a
\* file that the next start would refuse out of one that it would accept
\* (GenerateTemplate, SetUser, Validate).
THEOREM CommandsAlwaysKeepLoadable == Spec => CommandsKeepLoadable
<1>. DEFINE Keeps == \A e \in Editors :
                        ~Writing(e) /\ editor'[e].phase = "read" /\ Loads(file)
                            => Loads(Whole(editor'[e].set))
<1>1. FilesInv /\ UsersInv /\ [Next]_vars => [Keeps]_vars
  <2>. SUFFICES ASSUME FilesInv, UsersInv, Next, NEW e \in Editors, ~Writing(e),
                       editor'[e].phase = "read", Loads(file)
                PROVE  Loads(Whole(editor'[e].set))
    OBVIOUS
  <2>1. editor' # editor
    BY DEF Writing
  <2>2. PICK c \in Editors : Command(c)
    BY <2>1 DEF Next, HandEdit, Start, Stop
  <2>3. DOMAIN editor = Editors /\ DOMAIN editor[c] = EditorFields
    BY DEF FilesInv, CommandInv
  <2>4. ASSUME editor' = [editor EXCEPT ![c] = Idle] PROVE FALSE
    <3>1. CASE c = e
      BY <2>3, <2>4, <3>1 DEF Idle
    <3>2. CASE c # e
      BY <2>3, <2>4, <3>2 DEF Writing
    <3>. QED
      BY <3>1, <3>2
  <2>5. ~GiveUp(c) /\ ~Write(c) /\ ~KillWriter(c)
    BY <2>4 DEF GiveUp, Write, KillWriter
  <2>6. ~Truncate(c)
    <3>. SUFFICES ASSUME Truncate(c) PROVE FALSE
      OBVIOUS
    <3>1. editor' = [editor EXCEPT ![c].phase = "truncated"]
      BY DEF Truncate
    <3>2. CASE c = e
      BY <2>3, <3>1, <3>2 DEF EditorFields
    <3>3. CASE c # e
      BY <2>3, <3>1, <3>3 DEF Writing
    <3>. QED
      BY <3>2, <3>3
  <2>7. ASSUME NEW user \in Users, BeginSetUser(c, user) PROVE FALSE
    <3>1. editor' = [editor EXCEPT ![c] = [Idle EXCEPT !.phase = "asking", !.user = user]]
      BY <2>7 DEF BeginSetUser
    <3>2. CASE c = e
      BY <2>3, <3>1, <3>2 DEF Idle
    <3>3. CASE c # e
      BY <2>3, <3>1, <3>3 DEF Writing
    <3>. QED
      BY <3>2, <3>3
  <2>8. CASE InitStat(c)
    <3>1. PICK full \in BOOLEAN, targets \in {{}, {[url |-> "url", interval |-> "positive"]}} :
             editor' = [editor EXCEPT ![c] = [Idle EXCEPT !.phase = "read",
                                                          !.set = Template(full, targets)]]
      BY <2>8 DEF InitStat
    <3>2. c = e
      BY <2>3, <3>1 DEF Writing
    <3>3. editor'[e].set = Template(full, targets)
      BY <2>3, <3>1, <3>2 DEF Idle
    <3>. QED
      BY <3>3, TemplateLoads
  <2>9. CASE ReadAgain(c)
    <3>1. /\ editor[c].phase = "asking"
          /\ editor' = [editor EXCEPT ![c] =
                 IF file.state = "broken" THEN Idle
                 ELSE [@ EXCEPT !.phase = "read", !.set = WithUser(file, editor[c].user)]]
      BY <2>9 DEF ReadAgain
    <3>2. c = e
      BY <2>3, <3>1 DEF Writing
    <3>3. file.state \in {"absent", "whole"} /\ (file.state = "absent" => file.set = <<>>)
      BY DEF Loads, FilesInv
    <3>4. editor'[e].set = WithUser(file, editor[c].user)
      BY <2>3, <3>1, <3>2, <3>3 DEF EditorFields
    <3>5. editor[c].user # ""
      BY <3>1, ConfigFileAssumption DEF UsersInv
    <3>6. Loads(Whole(WithUser(file, editor[c].user)))
      BY <3>3, <3>5, WithUserLoads
    <3>. QED
      BY <3>4, <3>6
  <2>. QED
    BY <2>2, <2>5, <2>6, <2>7, <2>8, <2>9 DEF Command
<1>. QED
  BY <1>1, FilesAlways, UsersAlways, PTL DEF Spec, CommandsKeepLoadable
=============================================================================
