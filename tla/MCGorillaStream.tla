-------------------------- MODULE MCGorillaStream --------------------------
(* GorillaStream.cfg scales the widths: buckets of 2, 3, 4 and 5 bits, values
   of 4 bits with the leading-zero field clamped at 1.  Deltas reach every
   bucket, both ends of each and the first value beyond; MaxPoints lets a
   window be opened, reused and replaced. *)
EXTENDS GorillaStream

MCHalf == <<2, 4, 8, 16>>
MCDeltas == {1, 2, 4, 5, 9, 17}
=============================================================================
