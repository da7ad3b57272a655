--------------------------- MODULE MCSweepAggregate ---------------------------
\* Instances of SweepAggregate for TLC: six kinds of entity that differ in every
\* respect the sweep counts, and names in an order that is not their arrival's.
EXTENDS SweepAggregate

CONSTANTS s1, s2

Table == [kind |-> "dataset", source |-> s1, high |-> TRUE, termed |-> FALSE,
          profiled |-> TRUE, lineage |-> "true", quality |-> 300, trust |-> 500]
Column == [Table EXCEPT !.kind = "column", !.termed = TRUE, !.trust = NoScore,
                        !.lineage = "absent"]
ScoredColumn == [Table EXCEPT !.kind = "column", !.source = s2, !.quality = 200]
BareTable == [Table EXCEPT !.high = FALSE, !.source = s2, !.profiled = FALSE,
                           !.quality = 100, !.trust = 505, !.lineage = "false"]
Orphan == [Table EXCEPT !.source = NoSource, !.quality = NoScore, !.trust = 760]
Schema == [Table EXCEPT !.kind = "container"]

MCEntities == {Table, Column, ScoredColumn, BareTable, Orphan, Schema}
MCNameRank == [n \in 1..MaxEntities |-> MaxEntities + 1 - n]
=============================================================================
