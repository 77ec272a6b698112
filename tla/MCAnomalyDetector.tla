------------------------- MODULE MCAnomalyDetector --------------------------
(* Two series of one name, the second with one label more than the first;  *)
(* the system collector feeds the first, a scraped target both.            *)
EXTENDS AnomalyDetector

MCKeys == <<"plain", "labelled">>
MCDirOrder == <<"labelled", "plain">>
MCMatches == [s \in Series |-> IF s = "plain" THEN Series ELSE {s}]
MCSources == {"collector", "scraper"}
MCFeeds == [p \in MCSources |-> IF p = "collector" THEN {"plain"} ELSE Series]
MCAges == [p \in MCSources |-> IF p = "collector" THEN {0} ELSE {1}]
=============================================================================
