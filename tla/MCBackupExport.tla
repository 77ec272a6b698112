--------------------------- MODULE MCBackupExport ---------------------------
(* Two series, the second's labels a superset of the first's, and two cycles
   that may overlap. *)
EXTENDS BackupExport

MCMatches == [s \in Series |-> IF s = 1 THEN Series ELSE {s}]
=============================================================================
