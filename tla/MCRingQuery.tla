---------------------------- MODULE MCRingQuery -----------------------------
(* A ring of two slots of two seconds each; the timestamps span three chunks,
   so that the third one wraps round to slot 0.  Seconds 0, 1 and 4 in one file,
   after a pause of a whole turn, have a delta-of-delta at the end of the first
   bucket, and come back as 0, 1 and 0. *)
EXTENDS RingQuery

MCHalf == <<2, 3, 4, 1048576>>
MCSeconds == {0, 1, 2, 4}
MCReadings == {{}}
MCFlags == {FALSE}
=============================================================================
