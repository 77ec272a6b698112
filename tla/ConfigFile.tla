----------------------------- MODULE ConfigFile -----------------------------
(***************************************************************************)
(* The life of a config.yaml: written by `circa config init`, changed by   *)
(* hand and by `circa auth add-user` and `reset-password`, each a process  *)
(* of its own, and read once by every start of the server.  The commands   *)
(* read the whole file, and rewrite it in place: truncated first, written  *)
(* after.  A kill in between leaves the beginning of the new text.         *)
(*                                                                         *)
(* The running server never looks at the file again, so the model lets the *)
(* file change only while no server runs.                                  *)
(***************************************************************************)
EXTENDS Configuration, Sequences, Functions

CONSTANTS
    Editors,        \* the processes that may run a command
    Users,          \* the user names given to the commands
    Choices,        \* [field -> what a hand may write there]
    FirstFiles,     \* the files that may be there at first
    MaxChanges      \* bound on changes by hand and on commands

\* A file that parses.
Decodable(set) == DOMAIN set \subseteq Fields /\ \A x \in DOMAIN set : Decodes(x, set[x])

ASSUME ConfigFileAssumption ==
    /\ DOMAIN Choices \subseteq Fields
    /\ \A x \in DOMAIN Choices : \A value \in Choices[x] : Decodes(x, value)
    /\ \A f \in FirstFiles :
          (f.state = "whole" /\ Decodable(f.set)) \/ (f.state = "absent" /\ f.set = <<>>)
    /\ "" \notin Users
    /\ MaxChanges \in Nat

VARIABLES
    file,       \* the file: absent, whole, or broken (it does not parse)
    editor,     \* [Editors -> the command in progress]
    server,     \* the server's state, its configuration, the file it read
    hist,       \* the users reported as set; whether writers met or died
    changes     \* changes so far

vars == <<file, editor, server, hist, changes>>

-----------------------------------------------------------------------------
(* Files *)

Absent == [state |-> "absent", set |-> <<>>]
Broken == [state |-> "broken", set |-> <<>>]
Whole(set) == [state |-> "whole", set |-> set]

\* Load: without a file, Default() as it is.
Loaded(f) == IF f.state = "absent" THEN Default ELSE Effective(f.set)
Loads(f) ==
    \/ f.state = "absent"
    \/ f.state = "whole" /\ Validate(Effective(f.set)) = {}

\* `circa config check` wants a file.
Check(f) == f.state # "absent" /\ Loads(f)

\* The order of the fields in the file.
Order == <<"listen", "collect", "ml", "alerts", "backup", "influxReceive", "pushReceive",
           "pushSend", "collectInterval", "targets", "influxPath", "path", "raw", "minute",
           "hour", "rules", "notifiers", "modelCount", "trainingWindow", "retrainInterval",
           "diffN", "smoothN", "lagN", "scoreThreshold", "mode", "nodeID", "schedule", "uri",
           "warehouse", "nodes", "receivePath", "sendURL", "sendInterval", "users">>

Beginning(set, n) ==
    Restrict(set, DOMAIN set \cap {Order[i] : i \in 1..n})

\* What the text of a value says when its end is cut off: a number lacks its
\* last digit, a list its last entries, an entry its last fields.
CutNumber(n) == IF IsAbove(n, 9) THEN {n \div 10} ELSE {}
CutTarget(t) == [t EXCEPT !.interval = "zero"]
EndingIn(t, targets) == {S \cup {CutTarget(t)} : S \in SUBSET targets}
CutTargets(targets) == (SUBSET targets) \cup UNION {EndingIn(t, targets) : t \in targets}
CutRule(r) ==
    {[r EXCEPT !.notify = {}], [r EXCEPT !.notify = {}, !.severity = ""],
     [r EXCEPT !.notify = {}, !.severity = "", !.for = "zero"],
     [r EXCEPT !.notify = {}, !.severity = "", !.for = "zero", !.type = ""]}
CutRules(rules) ==
    (SUBSET rules)
    \cup {S \cup {c} : S \in SUBSET rules, c \in UNION {CutRule(r) : r \in rules}}
CutNotifiers(list) ==
    {SubSeq(list, 1, n) : n \in 0..Len(list)}
    \cup {[SubSeq(list, 1, n) EXCEPT ![n].url = ""] : n \in DOMAIN list}
CutEntries(entries) ==
    {entries} \cup {[entries EXCEPT ![u] = "plain"] : u \in DOMAIN entries}
CutUsers(users) ==
    {[section |-> "null", entries |-> <<>>]}
    \cup {[section |-> "mapping", entries |-> c] :
              c \in UNION {CutEntries(Restrict(users.entries, U)) :
                              U \in SUBSET DOMAIN users.entries}}

\* Other texts that are cut do not parse, say nothing, or are another name, URL
\* or path.
Shortened(x, value) ==
    CASE x \in NumberFields \cup {"scoreThreshold"} -> CutNumber(value)
      [] x = "mode" -> {"copy"}
      [] x = "targets" -> CutTargets(value)
      [] x = "rules" -> CutRules(value)
      [] x = "notifiers" -> CutNotifiers(value)
      [] x = "users" -> CutUsers(value)
      [] OTHER -> {}

\* The rule and the notifier of the full template.
HighCPU == [name |-> "high_cpu", metric |-> "node_cpu_seconds_total", type |-> "threshold",
            operator |-> "<", window |-> "zero", for |-> "positive", severity |-> "warning",
            notify |-> {"ops-webhook"}]
OpsWebhook == [name |-> "ops-webhook", type |-> "webhook", url |-> "url"]

\* GenerateTemplate, without the texts that its other options replace.
Template(full, targets) ==
    [listen |-> ":9100", collect |-> "true", ml |-> full, alerts |-> full, backup |-> full,
     influxReceive |-> full, pushReceive |-> full, pushSend |-> full,
     collectInterval |-> "positive", targets |-> targets, influxPath |-> "/write",
     path |-> "/var/lib/circa/data", raw |-> "positive", minute |-> "positive",
     hour |-> "positive", rules |-> IF full THEN {HighCPU} ELSE {},
     notifiers |-> IF full THEN <<OpsWebhook>> ELSE <<>>,
     modelCount |-> 18, trainingWindow |-> "positive", retrainInterval |-> "positive",
     diffN |-> 1, smoothN |-> 3, lagN |-> 5, scoreThreshold |-> 99,
     mode |-> "pull", nodeID |-> "", schedule |-> "*/15 * * * *", uri |-> "url",
     warehouse |-> "url", nodes |-> {}, receivePath |-> "/api/v1/write", sendURL |-> "url",
     sendInterval |-> "positive", users |-> [section |-> "mapping", entries |-> <<>>]]

\* auth.users as readAuthUsers sees it.
UsersIn(f) == IF "users" \in DOMAIN f.set THEN f.set.users.entries ELSE <<>>

\* The text has `auth:` or `users:` with nothing behind it.
NullSection(f) == "users" \in DOMAIN f.set /\ f.set.users.section = "null"

\* Mutant: the password is stored as it was typed.
HashPasswordPlain(password) == password
HashPassword(password) == "bcrypt"

\* Mutant: the section is written anew.
PutAlone(entries, user) == [u \in {user} |-> HashPassword("password")]

Put(entries, user) ==
    [u \in DOMAIN entries \cup {user} |->
        IF u = user THEN HashPassword("password") ELSE entries[u]]

\* SetUser on the tree of the file.  Under a null section the new nodes hang on
\* a scalar, and are not written with it.
WithUser(f, user) ==
    IF NullSection(f) THEN f.set
    ELSE [x \in DOMAIN f.set \cup {"users"} |->
             IF x = "users" THEN [section |-> "mapping", entries |-> Put(UsersIn(f), user)]
             ELSE f.set[x]]

-----------------------------------------------------------------------------
Idle == [phase |-> "idle", user |-> "", set |-> <<>>]
Stopped == [state |-> "stopped", cfg |-> <<>>, read |-> Absent]

Init ==
    /\ file \in FirstFiles
    /\ editor = [e \in Editors |-> Idle]
    /\ server = Stopped
    /\ hist = [reported |-> {}, disturbed |-> FALSE]
    /\ changes = 0

CanChange == server.state = "stopped" /\ changes < MaxChanges
Writing(e) == editor[e].phase \in {"read", "truncated"}

\* A hand sets a field to something else, or takes it out.
HandEdit(x) ==
    /\ CanChange /\ file.state # "broken"
    /\ \/ \E value \in Choices[x] :
             file' = Whole([y \in DOMAIN file.set \cup {x} |->
                               IF y = x THEN value ELSE file.set[y]])
       \/ file' = Whole(Restrict(file.set, DOMAIN file.set \ {x}))
    /\ hist' = [reported |-> hist.reported \cap DOMAIN UsersIn(file'),
                disturbed |-> hist.disturbed \/ \E e \in Editors : Writing(e)]
    /\ changes' = changes + 1
    /\ UNCHANGED <<editor, server>>

\* `circa config init`: nothing is there, says Stat.
InitStat(e) ==
    /\ CanChange /\ editor[e] = Idle /\ file = Absent
    /\ \E full \in BOOLEAN, targets \in {{}, {[url |-> "url", interval |-> "positive"]}} :
          editor' = [editor EXCEPT ![e] = [Idle EXCEPT !.phase = "read",
                                                      !.set = Template(full, targets)]]
    /\ changes' = changes + 1
    /\ UNCHANGED <<file, server, hist>>

\* `circa auth add-user`, of a user who is not in the file, or `reset-password`,
\* of one who is; it then asks for the password.
BeginSetUser(e, user) ==
    /\ CanChange /\ editor[e] = Idle /\ file.state # "broken"
    /\ editor' = [editor EXCEPT ![e] = [Idle EXCEPT !.phase = "asking", !.user = user]]
    /\ changes' = changes + 1
    /\ UNCHANGED <<file, server, hist>>

\* The two passwords differ, or are empty, or the terminal is closed.
GiveUp(e) ==
    /\ editor[e].phase = "asking"
    /\ editor' = [editor EXCEPT ![e] = Idle]
    /\ UNCHANGED <<file, server, hist, changes>>

\* SetUser reads the file anew; the command fails if it no longer parses.
ReadAgain(e) ==
    /\ server.state = "stopped" /\ editor[e].phase = "asking"
    /\ editor' = [editor EXCEPT ![e] =
           IF file.state = "broken" THEN Idle
           ELSE [@ EXCEPT !.phase = "read", !.set = WithUser(file, editor[e].user)]]
    /\ hist' = [hist EXCEPT !.disturbed = @ \/ \E o \in Editors \ {e} : Writing(o)]
    /\ UNCHANGED <<file, server, changes>>

\* os.WriteFile: it truncates ...
Truncate(e) ==
    /\ server.state = "stopped" /\ editor[e].phase = "read"
    /\ file' = Whole(<<>>)
    /\ editor' = [editor EXCEPT ![e].phase = "truncated"]
    /\ UNCHANGED <<server, hist, changes>>

\* ... and writes from the beginning of the file; if another process has
\* written meanwhile, the end of a longer text may stay behind this one.
Write(e) ==
    /\ server.state = "stopped" /\ editor[e].phase = "truncated"
    /\ file' \in {Whole(editor[e].set)} \cup (IF file = Whole(<<>>) THEN {} ELSE {Broken})
    /\ editor' = [editor EXCEPT ![e] = Idle]
    /\ hist' = [hist EXCEPT !.reported = IF editor[e].user = "" THEN @ ELSE @ \cup {editor[e].user},
                            !.disturbed = @ \/ \E o \in Editors \ {e} : Writing(o)]
    /\ UNCHANGED <<server, changes>>

\* A kill, or a full disk, in the middle of writing: the beginning of the text,
\* cut between two fields or within one, where it may parse all the same.
KillWriter(e) ==
    /\ server.state = "stopped" /\ editor[e].phase = "truncated"
    /\ \/ file' = Broken
       \/ \E n \in 0..Len(Order) : file' = Whole(Beginning(editor[e].set, n))
       \/ \E n \in DOMAIN Order :
             /\ Order[n] \in DOMAIN editor[e].set
             /\ \E value \in Shortened(Order[n], editor[e].set[Order[n]]) :
                   file' = Whole([Beginning(editor[e].set, n) EXCEPT ![Order[n]] = value])
    /\ editor' = [editor EXCEPT ![e] = Idle]
    /\ hist' = [hist EXCEPT !.disturbed = TRUE]
    /\ UNCHANGED <<server, changes>>

-----------------------------------------------------------------------------
(* The server *)

\* run: Load, then the wiring.  The rules are built before anything is started;
\* the tickers and the router come when the scraper, the detector and the
\* collector are running already.
Outcome(f) ==
    LET cfg == Loaded(f)
    IN  IF ~Loads(f) THEN "refused"
        ELSE IF cfg.alerts /\ \E r \in cfg.rules :
                    r.type \notin {"threshold", "rate_of_change", "anomaly"} THEN "drifted"
        ELSE IF ~TickersRun(cfg) \/ ~RouteRegisters(cfg) THEN "panicked"
        ELSE "running"

Start ==
    /\ server.state = "stopped"
    /\ server' = [state |-> Outcome(file), cfg |-> Loaded(file), read |-> file]
    /\ UNCHANGED <<file, editor, hist, changes>>

Stop ==
    /\ server.state # "stopped"
    /\ server' = Stopped
    /\ UNCHANGED <<file, editor, hist, changes>>

Command(e) ==
    \/ InitStat(e)
    \/ \E user \in Users : BeginSetUser(e, user)
    \/ GiveUp(e) \/ ReadAgain(e) \/ Truncate(e) \/ Write(e) \/ KillWriter(e)

Next ==
    \/ \E x \in DOMAIN Choices : HandEdit(x)
    \/ \E e \in Editors : Command(e)
    \/ Start \/ Stop

Spec == Init /\ [][Next]_vars

-----------------------------------------------------------------------------
(* Properties *)

\* Validate and the subsystems agree on what is acceptable: with whatever file
\* Load accepts, one caught in the middle of a rewrite included, NewRule knows
\* every rule, every ticker has a period, every rule finds its notifiers, the
\* detector can train and the exporter can run.  There are two exceptions: a
\* route that cannot be registered, and a score_threshold of `.nan`, which
\* passes Validate's comparisons and which no score reaches.
AcceptedFileWorks ==
    /\ server.state # "drifted"
    /\ server.state = "panicked" => ~RouteRegisters(server.cfg)
    /\ server.state = "running" =>
          /\ RulesWork(server.cfg) /\ ExporterRuns(server.cfg)
          /\ server.cfg.scoreThreshold # NaN => DetectorWorks(server.cfg)

\* A field that the file leaves out has its default; one that it sets has what
\* it says, unless that is the zero value of a field for which zero means
\* nothing: so diff_n and smooth_n of 0 stay.
FileDecides ==
    server.state = "running" =>
        \A x \in Fields :
            IF x \in DOMAIN server.read.set
            THEN \/ server.cfg[x] = Decoded(x, server.read.set[x])
                 \/ x \notin {"diffN", "smoothN", "minute", "hour"} /\ server.cfg[x] = Default[x]
                 \/ x = "nodeID"
            ELSE server.cfg[x] = Default[x] \/ x = "nodeID"

\* A user whom a command reported as set is in the file, as long as no two
\* writers met, none was killed while writing, and the section is a mapping.
UsersAreKept ==
    /\ ~hist.disturbed /\ ~NullSection(file)
    /\ \A e \in Editors : editor[e].phase # "truncated"
    => hist.reported \subseteq DOMAIN UsersIn(file)

\* What a command is going to write loads if the file it has read does; the two
\* templates load.
CommandsKeepLoadable ==
    [][\A e \in Editors :
          ~Writing(e) /\ editor'[e].phase = "read" /\ Loads(file)
              => Loads(Whole(editor'[e].set))]_vars
=============================================================================
