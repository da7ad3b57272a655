---------------------------- MODULE SweepAggregate ----------------------------
(***************************************************************************)
(* What the sweep of a live snapshot counts (app/catalog.py): one pass over *)
(* the entities of the catalogue, and the snapshot built from the counts.  *)
(*                                                                         *)
(* An entity is what the loop tells apart: container, dataset or column,   *)
(* its source (the row that root_name gives its rootId, or NoSource), its  *)
(* sensitivity, whether it has terms and a profile, what it says of its    *)
(* lineage, and its scores in tenths.  NameRank ranks the names.  Counts   *)
(* by term, tag, type and rating, the mean scores and the scan times are   *)
(* left out: they are counters like the ones kept, or their formatting.    *)
(***************************************************************************)
EXTENDS Naturals, FiniteSets, Sequences, FiniteSetsExt

CONSTANTS
    Sources, NoSource,
    Entities,     \* the kinds of entity the catalogue holds
    NoScore,
    MaxEntities,  \* bound: the entities of the catalogue
    NameRank,     \* the rank of the n-th entity's name
    SweepMax,     \* _SWEEP_MAX
    WorstLimit,   \* the running set of lowest scores is pruned beyond this,
    WorstKeep,    \* to this many,
    WorstShown,   \* of which this many are shown
    RowLimit      \* the untermed rows that are kept

\* _TRUST_BANDS, in tenths: a score between two bands is in neither.
Bands == [Untrusted |-> <<0, 500>>, Trusted |-> <<510, 750>>, Highly |-> <<760, 1000>>]
Labels == DOMAIN Bands
Scores == 0..1000
Lineages == {"absent", "true", "false"}

Entity == [kind: {"container", "dataset", "column"}, source: Sources \cup {NoSource},
           high: BOOLEAN, termed: BOOLEAN, profiled: BOOLEAN, lineage: Lineages,
           quality: Scores \cup {NoScore}, trust: Scores \cup {NoScore}]
Rows == [assets: Nat, hi: Nat, termed: Nat, prof: Nat]

ASSUME SweepAssumption ==
    /\ IsFiniteSet(Sources) /\ NoSource \notin Sources
    /\ NoScore \notin Scores
    /\ Entities \subseteq Entity
    /\ MaxEntities \in Nat
    /\ NameRank \in [1..MaxEntities -> 1..MaxEntities]
    /\ \A i, j \in 1..MaxEntities : NameRank[i] = NameRank[j] => i = j
    /\ {SweepMax, WorstLimit, WorstKeep, WorstShown, RowLimit} \subseteq Nat
    /\ WorstShown <= WorstKeep /\ WorstKeep <= WorstLimit

VARIABLES
    pc,       \* "sweep" or "built"
    read,     \* history: the entities the instance sent, in order
    total,    \* the assets met, the one beyond the cap included
    assets,   \* [termed, high, untermed, shown, profiled, pending, verified,
              \*  unverified, datasets]: one counter each
    trust,    \* the trust bands
    per,      \* the source rows
    worst,    \* the running set of lowest scores: <<position, score>>
    capped,
    snap      \* what the snapshot shows of the sources, the assets, the scores

vars == <<pc, read, total, assets, trust, per, worst, capped, snap>>

NoRow == [assets |-> 0, hi |-> 0, termed |-> 0, prof |-> 0]
NoSnap == [sources |-> {}, assets |-> 0, worst |-> {}]

Init ==
    /\ pc = "sweep"
    /\ read = <<>>
    /\ total = 0
    /\ assets = [termed |-> 0, high |-> 0, untermed |-> 0, shown |-> 0, profiled |-> 0,
                 pending |-> 0, verified |-> 0, unverified |-> 0, datasets |-> 0]
    /\ trust = [b \in Labels |-> 0]
    /\ per = [s \in Sources |-> NoRow]
    /\ worst = {}
    /\ capped = FALSE
    /\ snap = NoSnap

One(condition) == IF condition THEN 1 ELSE 0

\* Tuples of the running set sort by score, then by name.
Before(x, y) ==
    \/ x[2] < y[2]
    \/ x[2] = y[2] /\ NameRank[x[1]] < NameRank[y[1]]

Lowest(S, n) == {x \in S : Cardinality({y \in S : Before(y, x)}) < n}

\* Mutants: the running set is pruned without being sorted first, or never.
PruneFirst(S) ==
    IF Cardinality(S) > WorstLimit
    THEN {x \in S : Cardinality({y \in S : y[1] < x[1]}) < WorstKeep} ELSE S
PruneNever(S) == S

\* Pruned when it outgrows its limit, not at every entity.
Prune(S) == IF Cardinality(S) > WorstLimit THEN Lowest(S, WorstKeep) ELSE S

InBand(b, score) == Bands[b][1] <= score /\ score <= Bands[b][2]

\* Mutant: a column's trust score is no part of the spectrum's denominator.
InSpectrumByKind(e) == e.kind = "dataset"

InSpectrum(e) == e.kind = "dataset" \/ e.trust # NoScore
Untermed(e) == ~e.termed /\ e.high

\* The counts of one asset, and those of its source if it has one.
Counted(e) ==
    [termed     |-> assets.termed + One(e.termed),
     high       |-> assets.high + One(e.high),
     untermed   |-> assets.untermed + One(Untermed(e)),
     shown      |-> assets.shown + One(Untermed(e) /\ assets.shown < RowLimit),
     profiled   |-> assets.profiled + One(e.profiled),
     pending    |-> assets.pending + One(~e.profiled),
     verified   |-> assets.verified + One(e.lineage = "true"),
     unverified |-> assets.unverified + One(e.lineage = "false"),
     datasets   |-> assets.datasets + One(InSpectrum(e))]

CountedRow(row, e) ==
    [assets |-> row.assets + 1,
     hi     |-> row.hi + One(e.high),
     termed |-> row.termed + One(e.termed),
     prof   |-> row.prof + One(e.profiled)]

\* Mutant: the cap is met by the asset that fills it.
BeyondCapEarly == total + 1 >= SweepMax

BeyondCap == total + 1 > SweepMax

\* The next entity of the sweep: a container is passed over, the asset beyond
\* the cap is counted in total and ends the sweep, any other is aggregated.
Skip(e) ==
    /\ e.kind = "container"
    /\ UNCHANGED <<total, assets, trust, per, worst, capped>>

Cap(e) ==
    /\ e.kind # "container"
    /\ BeyondCap
    /\ total' = total + 1
    /\ capped' = TRUE
    /\ UNCHANGED <<assets, trust, per, worst>>

Aggregate(e) ==
    /\ e.kind # "container"
    /\ ~BeyondCap
    /\ total' = total + 1
    /\ assets' = Counted(e)
    /\ trust' = [b \in Labels |->
                   trust[b] + One(e.trust # NoScore /\ InBand(b, e.trust))]
    /\ per' = [s \in Sources |-> IF s = e.source THEN CountedRow(per[s], e) ELSE per[s]]
    /\ worst' = IF e.quality = NoScore THEN worst
                ELSE Prune(worst \cup {<<Len(read) + 1, e.quality>>})
    /\ UNCHANGED capped

ReadEntity(e) ==
    /\ pc = "sweep"
    /\ ~capped
    /\ Len(read) < MaxEntities
    /\ read' = Append(read, e)
    /\ Skip(e) \/ Cap(e) \/ Aggregate(e)
    /\ UNCHANGED <<pc, snap>>

\* Mutant: a source with one asset counts as empty.
HoldingMany == {s \in Sources : per[s].assets > 1}

\* Sources without assets are dropped, unless all are.
Holding == {s \in Sources : per[s].assets > 0}

\* The sweep is over, at the cap or at the end of the catalogue.
Build ==
    /\ pc = "sweep"
    /\ pc' = "built"
    /\ snap' = [sources |-> IF Holding # {} THEN Holding ELSE Sources,
                assets |-> total,
                worst |-> Lowest(worst, WorstShown)]
    /\ UNCHANGED <<read, total, assets, trust, per, worst, capped>>

Next == Build \/ \E e \in Entities : ReadEntity(e)

Spec == Init /\ [][Next]_vars

-----------------------------------------------------------------------------
TypeOK ==
    /\ pc \in {"sweep", "built"}
    /\ read \in Seq(Entities)
    /\ total \in Nat
    /\ \A c \in DOMAIN assets : assets[c] \in Nat
    /\ trust \in [Labels -> Nat]
    /\ per \in [Sources -> Rows]
    /\ worst \subseteq (1..Len(read)) \X Scores
    /\ Cardinality(worst) <= WorstLimit
    /\ capped \in BOOLEAN
    /\ snap.sources \subseteq Sources

\* The positions in read of the assets that were to be aggregated.
Assets == {n \in DOMAIN read : read[n].kind # "container"}
Aggregated == IF capped THEN Assets \ {Len(read)} ELSE Assets

\* What is shown as lowest is what is lowest of all the scores of the sweep,
\* however often the running set was pruned on the way.
WorstExact ==
    pc = "built" =>
      snap.worst = Lowest({<<n, read[n].quality>> : n \in Aggregated}
                            \ {<<n, NoScore>> : n \in Aggregated}, WorstShown)

\* The sources shown and the assets of unlisted roots make up the total: no
\* source that is dropped held anything.
SourcesAddUp ==
    pc = "built" =>
      MapThenSumSet(LAMBDA s : per[s].assets, snap.sources)
        + Cardinality({n \in Aggregated : read[n].source = NoSource})
      = Cardinality(Aggregated)

\* A sweep that stops at the cap has aggregated just as many assets as the cap
\* says, and each of them is either profiled or pending.
CapExact ==
    /\ assets.profiled + assets.pending = Cardinality(Aggregated)
    /\ capped => Cardinality(Aggregated) = SweepMax

\* The bands of the trust spectrum never exceed its denominator.
BandsWithinDatasets ==
    MapThenSumSet(LAMBDA b : trust[b], Labels) <= assets.datasets
=============================================================================
