--------------------------- MODULE MCRemoteWrite ----------------------------
(* Two series of one name, the second with one label more than the first. *)
EXTENDS RemoteWrite

MCKeys == <<"plain", "labelled">>
MCMatches == [s \in Series |-> IF s = "plain" THEN Series ELSE {s}]
=============================================================================
