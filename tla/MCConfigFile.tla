---------------------------- MODULE MCConfigFile ----------------------------
(* Every field can be edited by hand, to valid values and to invalid ones.  *)
EXTENDS ConfigFile

Target(url, interval) == {[url |-> url, interval |-> interval]}
Rule(type, notify) == [HighCPU EXCEPT !.type = type, !.notify = notify]
Mapping(entries) == [section |-> "mapping", entries |-> entries]

MCChoices ==
    [listen |-> {""}, path |-> {""}, raw |-> Texts, minute |-> Texts, hour |-> Texts,
     targets |-> {Target("url", "positive"), Target("", "positive"), Target("url", "zero"),
                  Target("url", "threeCenturies")},
     influxReceive |-> BOOLEAN, influxPath |-> {""},
     collect |-> {"true", "false", "null"}, collectInterval |-> Texts,
     pushReceive |-> BOOLEAN, receivePath |-> {"", "write"},
     pushSend |-> BOOLEAN, sendURL |-> {"", "url"}, sendInterval |-> Texts,
     backup |-> BOOLEAN, mode |-> {"", "push", "copy"}, schedule |-> {"", "often"},
     nodeID |-> {"node"}, uri |-> {"", "url"}, warehouse |-> {""}, nodes |-> {{"url"}},
     alerts |-> BOOLEAN,
     notifiers |-> {<<OpsWebhook, OpsWebhook>>, <<[OpsWebhook EXCEPT !.type = "mail"]>>,
                    <<[OpsWebhook EXCEPT !.url = ""]>>},
     rules |-> {{Rule("threshold", {})}, {Rule("threshold", {"pager"})}, {Rule("anomaly", {})},
                {Rule("rate_of_change", {})}, {Rule("absence", {})},
                {[HighCPU EXCEPT !.operator = "=>"]},
                {[HighCPU EXCEPT !.type = "rate_of_change", !.window = "positive"]},
                {[HighCPU EXCEPT !.for = "negative"]}, {[HighCPU EXCEPT !.severity = "high"]}},
     ml |-> BOOLEAN, modelCount |-> {-1, 0}, trainingWindow |-> Texts, retrainInterval |-> Texts,
     diffN |-> {-1, 0, 2}, smoothN |-> {-1, 0}, lagN |-> {-1, 0}, scoreThreshold |-> {-1, 0, 101, NaN},
     users |-> {Mapping(<<>>), [section |-> "null", entries |-> <<>>],
                Mapping([u \in {"ann"} |-> "plain"]), Mapping([u \in {""} |-> "bcrypt"])}]

MCFirstFiles == {Absent, Whole(Template(FALSE, {})), Whole(Template(TRUE, {}))}
=============================================================================
