---------------------------- MODULE AtLeastOnce -----------------------------
(***************************************************************************)
(* What the exporter of internal/backup promises (DESIGN/07 7.2): it keeps *)
(* a watermark, and what lies at or below it has been exported.  Points    *)
(* appear over time; exporting one again is allowed.  The promise holds as *)
(* long as the points appear in an order that one watermark can follow.    *)
(***************************************************************************)
EXTENDS Integers

CONSTANT Points     \* records with a field "time"

VARIABLES
    produced,   \* points that exist
    exported,   \* points in the lake
    mark,       \* the watermark
    kept        \* every point so far appeared in such an order

feed == <<produced, exported, mark, kept>>

Covered(m) == \A p \in produced : p.time <= m => p \in exported

FeedInit == produced = {} /\ exported = {} /\ mark = 0 /\ kept = TRUE

Produce ==
    /\ \E p \in Points \ produced :
          /\ produced' = produced \cup {p}
          /\ kept' \in {kept /\ p.time > mark, FALSE}
    /\ UNCHANGED <<exported, mark>>

\* A query that fails is a disorder too.
Disorder == kept' = FALSE /\ UNCHANGED <<produced, exported, mark>>

Export ==
    /\ exported' \in SUBSET produced /\ exported \subseteq exported'
    /\ UNCHANGED <<produced, mark, kept>>

MoveMark ==
    /\ mark' \in {p.time : p \in produced}
    /\ kept => Covered(mark')
    /\ UNCHANGED <<produced, exported, kept>>

FeedNext == Produce \/ Disorder \/ Export \/ MoveMark

\* Every point is exported in the end.
FeedLive == \A p \in Points : p \in produced ~> (p \in exported \/ ~kept)

FeedSpec == FeedInit /\ [][FeedNext]_feed /\ FeedLive
=============================================================================
