------------------------------ MODULE MCKMeans ------------------------------
(* Every series of six values of four, under settings that use each step of
   Preprocess. *)
EXTENDS KMeans

Setting(d, s, l) == [diffN |-> d, smoothN |-> s, lagN |-> l]
MCFeatures ==
    {Setting(0, 0, 0), Setting(0, 0, 1), Setting(0, 3, 1), Setting(1, 2, 1), Setting(1, 0, 2)}
=============================================================================
