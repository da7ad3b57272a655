----------------------------- MODULE PanelData -----------------------------
(***************************************************************************)
(* What a dashboard panel shows (app/panel_data.py): each query's resolver *)
(* computes values from the catalogue snapshot, which may be narrowed to   *)
(* one source first.                                                       *)
(*                                                                         *)
(* A snapshot is a record of functions and sequences; a key the code may   *)
(* find missing is one that DOMAIN does not have, and None is Python's.    *)
(* Scores are integers; percentages have one decimal and are in tenths.    *)
(* Python's round is Round, which agrees with it but for quotients that    *)
(* are not exact in floating point.  Arithmetic on None raises: the result *)
(* is Raised.  Labels, columns and units are left out; a row is its source *)
(* and its last column.                                                    *)
(***************************************************************************)
EXTENDS Integers, SequencesExt

CONSTANTS
    None, Raised,
    NameSeed    \* of each source name: the sum of its characters

------------------------------------------------------------------------------
(* Helpers. *)

Get(f, key, default) == IF key \in DOMAIN f THEN f[key] ELSE default
Or(v, default) == IF v \in {None, 0} THEN default ELSE v
AtLeastOne(n) == IF n < 1 THEN 1 ELSE n
Total(f) == FoldFunction(LAMBDA v, sum : v + sum, 0, f)

\* Round half to even.
Round(n, d) ==
    LET q == n \div d
        r == n % d
    IN  IF 2 * r < d \/ (2 * r = d /\ q % 2 = 0) THEN q ELSE q + 1

Pct(n, d) == IF d = 0 THEN 0 ELSE Round(100 * n, d)
Clamp(v) == CASE v < 5 -> 5 [] v > 99 -> 99 [] OTHER -> v

\* What is one of a field: a point of a score, ten tenths of a percentage.
Unit == [mean_quality |-> 1, term_coverage_pct |-> 10, profiled_pct |-> 10, unowned_pct |-> 10]
FieldLow == [mean_quality |-> 55, term_coverage_pct |-> 25, profiled_pct |-> 60, unowned_pct |-> 15]
FieldSpan == [mean_quality |-> 35, term_coverage_pct |-> 50, profiled_pct |-> 38, unowned_pct |-> 45]
KeySeed == [mean_quality |-> 1289, term_coverage_pct |-> 1801, profiled_pct |-> 1275, unowned_pct |-> 1190]

\* A source's field, or the stand-in its name yields.
Field(x, key) ==
    Get(x, key, Unit[key] * (FieldLow[key] + ((NameSeed[x.name] + KeySeed[key]) % FieldSpan[key])))

Mq(x) == Field(x, "mean_quality")
Assets(x) == Get(x, "assets", 0)
High(x) == Get(x, "high_sensitivity", 0)
Names(s) == {s.sources[i].name : i \in DOMAIN s.sources}
Source(s, name) == s.sources[SelectInSeq(s.sources, LAMBDA x : x.name = name)]

BySource(s, Value(_)) == [name \in Names(s) |-> Value(Source(s, name))]

\* A sequence in the order of a strict order of its indices.
Ordered(seq, Before(_, _)) ==
    [n \in DOMAIN seq |->
        seq[CHOOSE i \in DOMAIN seq : Cardinality({j \in DOMAIN seq : Before(j, i)}) = n - 1]]
\* The sources by a value, which is stable.
Ranked(s, Value(_)) ==
    LET value == [i \in DOMAIN s.sources |-> Value(s.sources[i])]
    IN  Ordered(s.sources, LAMBDA i, j : value[i] < value[j] \/ (value[i] = value[j] /\ i < j))

\* The elements that are chosen, in their order: what SelectSeq returns, without its
\* recursion.
Nth(I, n) == CHOOSE i \in I : Cardinality({j \in I : j < i}) = n - 1
Picked(xs, Chosen(_)) ==
    LET chosen == {i \in DOMAIN xs : Chosen(xs[i])}
    IN  [n \in 1..Cardinality(chosen) |-> xs[Nth(chosen, n)]]

\* Rows, one per source that is chosen.
Row(source, last) == [source |-> source, last |-> last]
Rows(xs, Chosen(_), Cell(_)) ==
    LET picked == Picked(xs, Chosen)
    IN  [n \in DOMAIN picked |-> Row(picked[n].name, Cell(picked[n]))]
First(rows, n) == SubSeq(rows, 1, IF Len(rows) < n THEN Len(rows) ELSE n)
Every(x) == TRUE

\* What a resolver returns; what it leaves out reads as zero or empty.
Data == [value |-> 0, series |-> << >>, groups |-> << >>, rows |-> << >>]
Kpi(v) == [Data EXCEPT !.value = v]
Chart(v, series) == [Data EXCEPT !.value = v, !.series = series]
Table(v, rows) == [Data EXCEPT !.value = v, !.rows = rows]
Stacked(v, groups) == [Data EXCEPT !.value = v, !.groups = groups]
Dist(s, key) == Get(s, key, << >>)

------------------------------------------------------------------------------
(* The dimensions of data quality. *)

Dimensions == [Completeness |-> 12, Accuracy |-> 3, Validity |-> 8, Uniqueness |-> 18,
               Consistency |-> -2, Timeliness |-> -10, Traceability |-> -18,
               Clarity |-> -5, Availability |-> 20]
DimSeed == [Completeness |-> 1266, Accuracy |-> 811, Validity |-> 838, Uniqueness |-> 1072,
            Consistency |-> 1170, Timeliness |-> 1053, Traceability |-> 1245,
            Clarity |-> 728, Availability |-> 1243]

\* Mutant: the base is not replaced when the snapshot has none.
BaseAsIs(s) == Get(s.totals, "mean_quality", None)
\* A mean quality of zero counts as none.
Base(s) == Or(Get(s.totals, "mean_quality", None), 76)

DimScore(s, dim) ==
    CASE dim \in DOMAIN Dist(s, "dq") -> s.dq[dim]
      [] dim \notin DOMAIN Dist(s, "dq") /\ Base(s) = None -> Raised
      [] OTHER -> Clamp(Base(s) + Dimensions[dim])

DimSourceScore(x, dim) ==
    Clamp(Mq(x) + Dimensions[dim] + ((NameSeed[x.name] + DimSeed[dim]) % 9) - 4)

DqDimensions(s) == Chart(Base(s), [dim \in DOMAIN Dimensions |-> DimScore(s, dim)])

DqDim(s, dim) ==
    LET score(x) == DimSourceScore(x, dim)
    IN  [Data EXCEPT !.value = DimScore(s, dim), !.series = BySource(s, score),
                     !.rows = Rows(First(Ranked(s, score), 6), LAMBDA x : score(x) < 85, score)]

------------------------------------------------------------------------------
(* Distributions of the whole catalogue. *)

TrustDistribution(s) ==
    LET t == Dist(s, "trust")
    IN  Chart(Pct(Get(t, "Highly Trusted", 0), AtLeastOne(Total(t))), t)

SensitivityMix(s) ==
    Chart(Get(Dist(s, "sensitivity"), "High", 0), Dist(s, "sensitivity"))

PiiDiscoveries(s) == Chart(Total(Dist(s, "pii_types")), Dist(s, "pii_types"))

ProfileStatus(s) ==
    LET p == Dist(s, "profiling")
        v == Get(s.totals, "profiled_pct", None)
    IN  Chart(IF v # None THEN v ELSE 10 * Pct(Get(p, "Completed", 0), Total(p)), p)

LineageStatus(s) ==
    LET l == Dist(s, "lineage")
    IN  Chart(Pct(Get(l, "Verified", 0), AtLeastOne(Total(l))), l)

\* The average rating, in tenths.
RatingsDistribution(s) ==
    LET r == Dist(s, "ratings")
    IN  Chart(Round(10 * Total([k \in DOMAIN r |-> k * r[k]]), AtLeastOne(Total(r))), r)

Counted(s, key) == Chart(Cardinality(DOMAIN Dist(s, key)), Dist(s, key))
EditActivity(s) == Chart(Total(Dist(s, "edits")), Dist(s, "edits"))

OwnerWorkload(s) ==
    LET owners == Get(s, "owners", << >>)
    IN  [Data EXCEPT !.value = Len(owners), !.series = owners,
                     !.rows = [n \in DOMAIN owners |-> Row(None, owners[n])]]

AssetsByType(s) ==
    LET types == {Get(x, "type", "other") : x \in Range(s.sources)}
        of(t) == [name \in {n \in Names(s) : Get(Source(s, n), "type", "other") = t} |->
                     Assets(Source(s, name))]
    IN  Chart(0, IF Dist(s, "types") # << >> THEN s.types ELSE [t \in types |-> Total(of(t))])

------------------------------------------------------------------------------
(* Series, groups and rows by source. *)

AssetsBySource(s) == Chart(0, BySource(s, Assets))

\* A total, or the mean of its sources' when the snapshot has none, rounded to whole
\* points.
TotalOrMean(s, key) ==
    LET v == Get(s.totals, key, None)
        f == BySource(s, LAMBDA x : Field(x, key))
    IN  CASE v # None -> v
          [] v = None /\ s.sources = << >> -> 0
          [] OTHER -> Unit[key] * Round(Total(f), Unit[key] * Cardinality(DOMAIN f))

QualityBySource(s) == Chart(TotalOrMean(s, "mean_quality"), BySource(s, Mq))
TermCoverage(s) == Chart(TotalOrMean(s, "term_coverage_pct"),
                         BySource(s, LAMBDA x : Field(x, "term_coverage_pct")))

AssetCounts(s) == Kpi(Or(Get(s.totals, "assets", 0), Total(BySource(s, Assets))))
SourceCounts(s) == Kpi(Or(Get(s.totals, "sources", 0), Len(s.sources)))

FailedScans(x) == Get(x, "failed_scans", 0)
StaleFailed(s) ==
    Table(Total(BySource(s, FailedScans)),
          Rows(s.sources, LAMBDA x : FailedScans(x) # 0, FailedScans))

\* Two groups that share out each source's assets; no group goes below zero.
Rest(n, part) == IF n < part THEN 0 ELSE n - part
Split(s, Part(_)) ==
    <<BySource(s, Part), BySource(s, LAMBDA x : Rest(Assets(x), Part(x)))>>

SensitiveBySource(s) == Stacked(Total(BySource(s, High)), Split(s, High))

OwnersCoverage(s) ==
    LET unowned(x) == Round(Assets(x) * Field(x, "unowned_pct"), 1000)
        g == Split(s, unowned)
    IN  Stacked(Pct(Total(g[2]), AtLeastOne(Total(g[1]) + Total(g[2]))), <<g[2], g[1]>>)

StackedBySource(s, key) ==
    Stacked(0, Split(s, LAMBDA x : Round(Assets(x) * Field(x, key), 100 * Unit[key])))

\* Mutant: the middle group is not taken off the last.
TrustBySourceNoMiddle(s) ==
    LET hi(x) == Round(Assets(x) * Mq(x), 200)
        mid(x) == Round(3 * Assets(x), 10)
    IN  Stacked(0, <<BySource(s, hi), BySource(s, mid),
                     BySource(s, LAMBDA x : Rest(Assets(x), hi(x)))>>)
TrustBySource(s) ==
    LET hi(x) == Round(Assets(x) * Mq(x), 200)
        mid(x) == Round(3 * Assets(x), 10)
    IN  Stacked(0, <<BySource(s, hi), BySource(s, mid),
                     BySource(s, LAMBDA x : Rest(Assets(x), hi(x) + mid(x)))>>)

Bins == [b \in 1..6 |-> IF b = 1 THEN 0..50 ELSE (41 + 10 * (b - 1))..(40 + 10 * b)]
QualityDistribution(s) ==
    Chart(0, [b \in DOMAIN Bins |-> Cardinality({n \in Names(s) : Mq(Source(s, n)) \in Bins[b]})])

\* The sweep's own rows where it has some, the sources' stand-ins otherwise.
RealOr(s, key, standIns) == IF Dist(s, key) # << >> THEN s[key] ELSE standIns

WorstTables(s) ==
    LET rows == RealOr(s, "worst_rows", Rows(First(Ranked(s, Mq), 6), Every, Mq))
    IN  Table(IF rows = << >> THEN 0 ELSE rows[1].last, rows)

PiiAssets(s) ==
    Table(0, IF "pii_rows" \in DOMAIN s THEN s.pii_rows
             ELSE Rows(s.sources, LAMBDA x : High(x) # 0, LAMBDA x : "no"))

UntermedCritical(s) ==
    LET rows == IF "untermed_rows" \in DOMAIN s THEN s.untermed_rows
                ELSE Rows(s.sources, LAMBDA x : Field(x, "term_coverage_pct") < 500,
                          LAMBDA x : "High")
    IN  Table(Get(s, "untermed_hi_total", Len(rows)), rows)

Unowned(x) == Field(x, "unowned_pct") > 300
SensitiveUnowned(s) ==
    Table(0, IF Dist(s, "pii_rows") # << >> THEN First(s.pii_rows, 6)
             ELSE Rows(s.sources, LAMBDA x : Unowned(x) /\ High(x) # 0, Mq))
UnownedHighValue(s) == Table(0, Rows(s.sources, Unowned, Mq))
RiskAssets(s) == Table(0, First(RealOr(s, "untermed_rows",
                     Rows(First(Ranked(s, Mq), 5), Every, LAMBDA x : "Untrusted + High")), 6))
SourceInventory(s) == Table(0, Rows(s.sources, Every, Assets))
WeakestSource(s) == Kpi(IF s.sources = << >> THEN None ELSE Ranked(s, Mq)[1].name)

------------------------------------------------------------------------------
(* Derived from totals. *)

\* Eight weeks that end in the coverage, a point and a half apart.
CoverageTrend(s) ==
    LET end == Get(s.totals, "term_coverage_pct", 610)
    IN  Chart(0, [w \in 1..8 |-> IF end = None THEN Raised ELSE end - 15 * (8 - w)])

RecentlyModified(s) ==
    LET base == AtLeastOne(Or(Get(s.totals, "assets", None), 12480) \div 400)
    IN  Chart(base * 7, [day \in 1..7 |-> base + ((day - 1) % 4) * 3])

ScanActivity(s) ==
    LET base == AtLeastOne(Len(s.sources))
        digits(i) == IF i < 10 THEN 48 + i ELSE 49 + 48 + (i - 10)
    IN  Chart(base * 30, [day \in 1..14 |-> base + (digits(day - 1) % 5)])

WorkersUp(s) == Kpi(Cardinality({i \in DOMAIN s.sources : FailedScans(s.sources[i]) = 0}))

\* Any query without a resolver.
Generic(s, kind) ==
    CASE kind = "kpi" -> Kpi(Or(Get(s.totals, "assets", None), Len(s.sources)))
      [] kind = "table" -> Table(0, Rows(s.sources, Every, Assets))
      [] OTHER -> AssetsBySource(s)
=============================================================================
