---------------------------- MODULE MCSeriesRing ----------------------------
(* A ring of two slots of two seconds each; the timestamps span three chunks,
   so that the third one wraps round to slot 0. *)
EXTENDS SeriesRing

MCHalf == <<64, 256, 2048, 1048576>>
MCSeconds == 0..5
MCReadings == {{}}
MCFlags == {FALSE}
=============================================================================
