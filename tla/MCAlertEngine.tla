--------------------------- MODULE MCAlertEngine ----------------------------
(* One series of its own for p1 and one that both producers ingest; a
   threshold rule with a pending period and a rate-of-change rule. *)
EXTENDS AlertEngine

MCSeries == {"own", "shared"}
MCFeeds == {<<"p1", "own">>, <<"p1", "shared">>, <<"p2", "shared">>}
MCRules ==
    <<[name |-> "high", selects |-> {"own", "shared"}, for |-> 1, notifyTo |-> {},
       cond |-> [type |-> "threshold", op |-> ">=", value |-> 2, window |-> 0]],
      [name |-> "rising", selects |-> {"own"}, for |-> 0, notifyTo |-> {"hook"},
       cond |-> [type |-> "rate_of_change", op |-> ">", value |-> 1, window |-> 2]]>>
MCReadings == [time : {1, 2, 4}, value : {0, 3}, anomalous : {FALSE}]
=============================================================================
