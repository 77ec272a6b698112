--------------------------- MODULE MCTieredRollup ---------------------------
(* Two producers; minutes of one second and hours of two, over rings of two
   chunks of one bucket, so that minute 2 wraps round onto minute 0. *)
EXTENDS TieredRollup

MCWidth == [k \in Tiers |-> IF k = "minute" THEN 1 ELSE 2]
MCReadings == {[time |-> 0, value |-> 3], [time |-> 1, value |-> 1],
               [time |-> 2, value |-> 2], [time |-> 3, value |-> 1]}
MCSymmetry == Permutations(Producers)
=============================================================================
