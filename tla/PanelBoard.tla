----------------------------- MODULE PanelBoard -----------------------------
(***************************************************************************)
(* A board resolved against one snapshot (app/panel_data.py, the routes    *)
(* resolve and data): the snapshot is narrowed to the chosen source, then  *)
(* the panels are resolved one after the other.  One that raises leaves an *)
(* error in its place, unless it raises outside of its own try: then the   *)
(* board is lost.  The drill-down of a panel and the suggestions are       *)
(* answered from a snapshot as well.                                       *)
(***************************************************************************)
EXTENDS Recommend

CONSTANTS
    Snapshots,  \* what catalog_snapshot may answer
    Boards,     \* specs: sequences of panels
    Malformed,  \* a query that is no string: looking it up raises
    NoPanel,    \* an entry of a spec's panels that is no object
    NoKey,      \* an id that no dict takes as a key: a list or an object
    Limit       \* of rows in a drill-down: 30

\* What catalog_snapshot guarantees of a snapshot, from a sweep or the sample: the
\* sources of a sweep are the values of a dict by name (catalog.py:216, 327-342), whose
\* fields are counts of its assets and percentages to one decimal, always all of them but
\* the mean quality, which is missing, never None, where nobody has one (330-347); all
\* distributions are counts, and an asset of high sensitivity is counted for its source if
\* it has one (257-261).
Percentages == {"mean_quality", "term_coverage_pct", "profiled_pct", "unowned_pct"}
IsTally(f) == IsFiniteSet(DOMAIN f) /\ \A k \in DOMAIN f : f[k] \in Nat
IsSource(x) ==
    /\ x.name \in DOMAIN NameSeed \ {"all"}
    /\ {"assets", "high_sensitivity", "term_coverage_pct"} \subseteq DOMAIN x
    /\ x.assets \in Nat /\ x.high_sensitivity \in Nat /\ x.high_sensitivity <= x.assets
    /\ \A key \in Percentages \cap DOMAIN x : x[key] \in Nat /\ x[key] <= 100 * Unit[key]
    /\ "failed_scans" \in DOMAIN x => x.failed_scans \in Nat
HasSources(s) ==
    /\ s.sources \in Seq(Range(s.sources))
    /\ \A i \in DOMAIN s.sources : IsSource(s.sources[i])
    /\ \A i, j \in DOMAIN s.sources : s.sources[i].name = s.sources[j].name => i = j
Tallies == {"trust", "sensitivity", "profiling", "pii_types", "lineage", "ratings", "policies",
            "terms", "edits", "coverage", "dq", "types"}
HasTallies(s) ==
    /\ {"trust", "sensitivity"} \subseteq DOMAIN s
    /\ \A key \in Tallies \cap DOMAIN s : IsTally(s[key])
    /\ "Untrusted" \in DOMAIN s.trust
    /\ "ratings" \in DOMAIN s => DOMAIN s.ratings \subseteq Nat
HasRows(s) ==
    /\ "owners" \in DOMAIN s => s.owners \in Seq(Nat)
    /\ "worst_rows" \in DOMAIN s =>
          /\ s.worst_rows \in Seq(Range(s.worst_rows))
          /\ \A i \in DOMAIN s.worst_rows : s.worst_rows[i].last \in Nat
    /\ "untermed_rows" \in DOMAIN s => "untermed_hi_total" \in DOMAIN s
    /\ \A key \in {"untermed_hi_total", "terms_total"} \cap DOMAIN s : s[key] \in Nat
\* The sources hold every asset: none hangs off a root that is no source.
NoOrphans(s) == Get(s.totals, "assets", 0) = Total(BySource(s, Assets))
HighOfSources(s) ==
    LET high == Get(s.sensitivity, "High", 0)
    IN  /\ Total(BySource(s, High)) <= high
        /\ NoOrphans(s) => Total(BySource(s, High)) = high
\* A sweep reads 20000 entities at most (catalog.py:175), and it lists the sources
\* that hold no asset only if none does (345-352).
Fits(s) ==
    /\ Total([i \in DOMAIN s.sources |-> s.sources[i].assets]) <= 20000
    /\ \/ \A i \in DOMAIN s.sources : s.sources[i].assets > 0
       \/ \A i \in DOMAIN s.sources : s.sources[i].assets = 0
IsSnapshot(s) ==
    /\ {"sources", "totals"} \subseteq DOMAIN s
    /\ HasSources(s) /\ HasTallies(s) /\ HasRows(s) /\ HighOfSources(s) /\ Fits(s)
    /\ \A key \in DOMAIN s.totals : s.totals[key] \in Nat
    \* A sweep calls no asset failed or skipped (226); the sample has 720 of them.
    /\ Failing(s) \in {0, 720}

\* Queries whose answers are compared below; the malformed one is no string.
Headlines == {"sensitivity_mix", "sensitive_by_source", "asset_counts", "assets_by_source",
              "untrusted_count", "trust_distribution", "weakest_source", "quality_by_source",
              "dq_dimensions"}

ASSUME PanelAssumption ==
    /\ Malformed \notin Headlines
    /\ Limit \in Nat /\ Limit >= 30
    /\ NoKey # None /\ None # Raised /\ {None, Raised} \cap (Int \cup DOMAIN NameSeed) = {}
    /\ NameSeed \in [DOMAIN NameSeed -> Nat]
    /\ \A s \in Snapshots : IsSnapshot(s)
    /\ \A b \in Boards : b \in Seq(Range(b))

VARIABLES
    snapshot, \* the snapshot of this request
    source,   \* the source it is narrowed to, or "all"
    view,     \* the narrowed snapshot
    board,    \* the spec
    next,     \* the panel to resolve next
    panels,   \* the panels resolved, by id
    broken    \* whether a panel raised outside of its try: the answer is an error

boardVars == <<snapshot, source, view, board, next, panels, broken>>

------------------------------------------------------------------------------
(* Narrowing. *)

Scaled == {"trust", "sensitivity", "profiling", "pii_types", "lineage",
           "ratings", "policies", "terms", "edits"}

\* Mutant: shares are cut off, not rounded.
ShareFloor(v, assets, total) == (v * assets) \div AtLeastOne(total)
Share(v, assets, total) == Round(v * assets, AtLeastOne(total))

\* Mutant: a source's own count of sensitive assets is not taken.
OwnHighNone(s, x, scaled) == scaled
OwnHigh(s, x, scaled) ==
    IF "high_sensitivity" \in DOMAIN x /\ "sensitivity" \in DOMAIN s
    THEN [k \in DOMAIN scaled \cup {"High"} |-> IF k = "High" THEN x.high_sensitivity ELSE scaled[k]]
    ELSE scaled

Scope(s, name) ==
    IF name = "all" \/ name \notin Names(s) THEN s
    ELSE LET x == Source(s, name)
             all == Total(BySource(s, Assets))
             own(key) == Get(x, key, None)
             scaled(key) == [k \in DOMAIN s[key] |-> Share(s[key][k], Assets(x), all)]
             totals == [key \in DOMAIN s.totals \cup
                            {"assets", "sources", "mean_quality", "term_coverage_pct", "profiled_pct"} |->
                          CASE key = "assets" -> Assets(x) [] key = "sources" -> 1
                            [] key \in {"mean_quality", "term_coverage_pct", "profiled_pct"} -> own(key)
                            [] OTHER -> s.totals[key]]
         IN  [key \in DOMAIN s |->
                CASE key = "sources" -> <<x>>
                  [] key = "totals" -> totals
                  [] key = "sensitivity" -> OwnHigh(s, x, scaled(key))
                  [] key \in Scaled \ {"sensitivity"} -> scaled(key)
                  [] OTHER -> s[key]]

------------------------------------------------------------------------------
(* One panel. *)

Flags(query) == [policy_coverage |-> "policy_pct", encryption_status |-> "encryption_pct",
                 masking_status |-> "masking_pct"][query]
DimQueries == [dq_completeness |-> "Completeness", dq_accuracy |-> "Accuracy",
    dq_validity |-> "Validity", dq_uniqueness |-> "Uniqueness",
    dq_consistency |-> "Consistency", dq_timeliness |-> "Timeliness",
    dq_traceability |-> "Traceability", dq_clarity |-> "Clarity",
    dq_availability |-> "Availability"]

Resolve(query, kind, s) ==
    CASE query = "trust_distribution" -> TrustDistribution(s)
      [] query = "sensitivity_mix" -> SensitivityMix(s)
      [] query = "pii_discoveries" -> PiiDiscoveries(s)
      [] query = "profile_status" -> ProfileStatus(s)
      [] query = "assets_by_source" -> AssetsBySource(s)
      [] query = "assets_by_type" -> AssetsByType(s)
      [] query = "quality_by_source" -> QualityBySource(s)
      [] query = "term_coverage" -> TermCoverage(s)
      [] query = "asset_counts" -> AssetCounts(s)
      [] query = "source_counts" -> SourceCounts(s)
      [] query = "source_inventory" -> SourceInventory(s)
      [] query = "stale_failed" -> StaleFailed(s)
      [] query = "sensitive_by_source" -> SensitiveBySource(s)
      [] query = "owners_coverage" -> OwnersCoverage(s)
      [] query = "trust_by_source" -> TrustBySource(s)
      [] query = "dq_dimensions" -> DqDimensions(s)
      [] query = "quality_distribution" -> QualityDistribution(s)
      [] query = "worst_tables" -> WorstTables(s)
      [] query = "coverage_trend" -> CoverageTrend(s)
      [] query = "recently_modified" -> RecentlyModified(s)
      [] query = "scan_activity" -> ScanActivity(s)
      [] query = "pii_assets" -> PiiAssets(s)
      [] query = "sensitive_unowned" -> SensitiveUnowned(s)
      [] query = "lineage_status" -> LineageStatus(s)
      [] query = "lineage_by_source" -> StackedBySource(s, "term_coverage_pct")
      [] query = "dq_by_source" -> StackedBySource(s, "mean_quality")
      [] query = "ratings_distribution" -> RatingsDistribution(s)
      [] query = "policy_counts" -> Counted(s, "policies")
      [] query = "top_terms" -> Counted(s, "terms")
      [] query \in {"policy_coverage", "encryption_status", "masking_status"} ->
            Kpi(Get(Dist(s, "coverage"), Flags(query), None))
      [] query = "term_status" -> Kpi(Get(s.totals, "term_coverage_pct", 0))
      [] query = "edit_activity" -> EditActivity(s)
      [] query \in {"owner_workload", "owners_coverage_table"} -> OwnerWorkload(s)
      [] query = "ownership_time" -> Kpi(4)
      [] query = "worker_status" -> WorkersUp(s)
      [] query \in DOMAIN DimQueries -> DqDim(s, DimQueries[query])
      [] query = "untermed_critical" -> UntermedCritical(s)
      [] query = "untrusted_count" -> Kpi(Get(Dist(s, "trust"), "Untrusted", 0))
      [] query = "failed_scans_total" -> Kpi(StaleFailed(s).value)
      [] query = "table_count" -> Kpi(Get(Dist(s, "types"), "Table", None))
      [] query = "file_count" -> Kpi(Get(Dist(s, "types"), "File", None))
      [] query = "unverified_lineage" -> Kpi(Get(Dist(s, "lineage"), "Unverified", 0))
      [] query = "terms_defined_total" -> Kpi(Get(s, "terms_total", None))
      [] query = "weakest_source" -> WeakestSource(s)
      [] query = "unowned_high_value" -> UnownedHighValue(s)
      [] query = "risk_assets" -> RiskAssets(s)
      [] OTHER -> Generic(s, kind)

Raises(data) == data.value = Raised \/ \E k \in DOMAIN data.series : data.series[k] = Raised

\* resolve_panel: the part of the data that its kind shows.
Shape(kind, data) ==
    CASE kind = "kpi" -> [kind |-> kind, value |-> data.value]
      [] kind = "table" -> [kind |-> kind, rows |-> data.rows]
      [] OTHER -> IF data.groups # << >> THEN [kind |-> "chart", groups |-> data.groups]
                  ELSE [kind |-> "chart", series |-> data.series]

Failure == [kind |-> "error"]
Panel(p, s) ==
    IF p.kind = "text" THEN [kind |-> "text"]
    ELSE IF p.query = Malformed THEN Failure
    ELSE LET data == Resolve(p.query, p.kind, s)
         IN  IF Raises(data) THEN Failure ELSE Shape(p.kind, data)

------------------------------------------------------------------------------
(* The board, panel by panel. *)

BoardInit ==
    /\ snapshot \in Snapshots
    /\ source \in Names(snapshot) \cup {"all"}
    /\ view = Scope(snapshot, source)
    /\ board \in Boards
    /\ next = 1
    /\ panels = << >>
    /\ broken = FALSE

\* An entry that has an id to ask for, and one that can be a key, or none.
Resolvable(p) == p # NoPanel /\ p.id # NoKey

\* A panel without an id is passed over; one of an id that was there before takes
\* its place.
ResolveNext ==
    /\ ~broken /\ next <= Len(board) /\ Resolvable(board[next])
    /\ LET p == board[next]
       IN  panels' = IF p.id = None THEN panels
                     ELSE [id \in DOMAIN panels \cup {p.id} |->
                             IF id = p.id THEN Panel(p, view) ELSE panels[id]]
    /\ next' = next + 1
    /\ UNCHANGED <<snapshot, source, view, board, broken>>

\* The id is asked for before the try, and the except stores under it again: what
\* raises there ends the request.
LoseBoard ==
    /\ ~broken /\ next <= Len(board) /\ ~Resolvable(board[next])
    /\ broken' = TRUE
    /\ UNCHANGED <<snapshot, source, view, board, next, panels>>

BoardNext == ResolveNext \/ LoseBoard
BoardSpec == BoardInit /\ [][BoardNext]_boardVars

------------------------------------------------------------------------------
(* The assets behind a panel: up to six stand-ins of each source. *)

\* Mutant: a source gives as many as it has thousands.
DrillCountAll(x) == AtLeastOne(Assets(x) \div 1000)
DrillCount(x) ==
    LET n == AtLeastOne(Assets(x) \div 1000) IN IF n > 6 THEN 6 ELSE n

Drill(s) ==
    First(FlattenSeq([i \in DOMAIN s.sources |->
              [n \in 1..DrillCount(s.sources[i]) |-> Row(s.sources[i].name, n)]]), Limit)

------------------------------------------------------------------------------
(* What one board shows. *)

\* The panels passed whose entry is still theirs.
Standing == {i \in 1..(next - 1) :
    board[i].id # None /\ \A j \in (i + 1)..(next - 1) : board[j].id # board[i].id}
Stood(kind, query) ==
    {panels[board[i].id] : i \in {j \in Standing : board[j].kind = kind /\ board[j].query = query}}

\* A board never comes back with a hole or with an error of the code's own: every
\* panel passed that has an id has an entry, and the entry is an error only where
\* its query is malformed, however little the snapshot knows (the fall backs of the
\* resolvers, panel_data.py:52-56, and the try of resolve_dashboard, 530-534).  The
\* whole board is lost with the first entry that is no object or whose id is no key,
\* and with nothing else: 533 says that one bad panel does not blank it, and 529 and
\* 534 raise outside of the try.
BoardComplete ==
    /\ broken => ~Resolvable(board[next])
    /\ next > Len(board) => \A i \in DOMAIN board : Resolvable(board[i])
    /\ DOMAIN panels = {board[i].id : i \in 1..(next - 1)} \ {None}
    /\ \A i \in Standing :
          panels[board[i].id] = Failure <=> board[i].kind # "text" /\ board[i].query = Malformed

\* The segments of a stacked bar are parts of a whole: they are never negative
\* and add up to the source's assets, whatever rounding each part took.
ColumnsAddUp ==
    \A id \in DOMAIN panels : "groups" \in DOMAIN panels[id] =>
        LET groups == panels[id].groups
        IN  \A name \in Names(view) :
              /\ \A g \in DOMAIN groups : groups[g][name] >= 0
              /\ Total([g \in DOMAIN groups |-> groups[g][name]]) = Assets(Source(view, name))

\* Tiles and charts of one board do not contradict each other, although one reads
\* a total of the snapshot and the other its sources, and scoping replaces some
\* and scales others: sensitive assets, assets, untrusted assets, the weakest
\* source and the mean quality.
HeadlinesAgree ==
    /\ NoOrphans(view) =>
          /\ \A tile \in Stood("kpi", "sensitivity_mix"), bars \in Stood("kpi", "sensitive_by_source") :
                tile.value = bars.value
          /\ \A tile \in Stood("kpi", "asset_counts"), bars \in Stood("chart", "assets_by_source") :
                tile.value = Total(bars.series)
    /\ \A tile \in Stood("kpi", "untrusted_count"), chart \in Stood("chart", "trust_distribution") :
          tile.value = chart.series["Untrusted"]
    /\ \A tile \in Stood("kpi", "weakest_source"), bars \in Stood("chart", "quality_by_source") :
          \A name \in DOMAIN bars.series : bars.series[tile.value] <= bars.series[name]
    /\ Get(view.totals, "mean_quality", None) \notin {None, 0} =>
          \A mean \in Stood("kpi", "quality_by_source"), dq \in Stood("kpi", "dq_dimensions") :
             mean.value = dq.value

\* Looked at source by source a catalogue is the catalogue: the distributions of
\* the scoped boards add up to that of the whole within half an asset per source,
\* and their high-sensitivity assets exactly to those of the sources.
ScopesAddUp ==
    LET of(key, k) == Total([n \in Names(snapshot) |-> Scope(snapshot, n)[key][k]])
        far(a, b) == IF a < b THEN b - a ELSE a - b
    IN  next = 1 /\ Total(BySource(snapshot, Assets)) > 0 =>
          \A key \in Scaled \cap DOMAIN snapshot : \A k \in DOMAIN snapshot[key] :
             IF key = "sensitivity" /\ k = "High"
             THEN /\ of(key, k) <= snapshot.sensitivity.High
                  /\ of(key, k) = Total(BySource(snapshot, High))
             ELSE 2 * far(of(key, k), snapshot[key][k]) <= Len(snapshot.sources)

\* Sources that fit a drill-down of 30 rows whatever they hold of the 20000 assets
\* that a sweep reads at most: three of 6000 and twelve small ones.
Room == 15

\* The assets behind a panel are of the sources in scope, and none of up to 15
\* sources is left out of them because others are large (drill_assets).
DrillCoversScope ==
    LET rows == Drill(view)
        listed == {rows[n].source : n \in DOMAIN rows}
    IN  next = 1 =>
          /\ Len(rows) <= Limit
          /\ listed \subseteq Names(view)
          /\ Cardinality(Names(view)) <= Room => listed = Names(view)

\* What the catalogue shows comes before what always applies: no evergreen
\* suggestion is ranked above one that a signal triggered (recommend.py:108-110).
SignalsFirst ==
    LET all == Suggestions(snapshot, "none", "none")
        evergreen(n) == all[n] \in Range(Starters)
    IN  next = 1 => \A m, n \in DOMAIN all : m < n /\ evergreen(m) => evergreen(n)

\* A board narrowed to one source lists rows of that source only (panel_data.py:
\* 488, 523: narrowed to a single data source).
RowsInScope ==
    \A id \in DOMAIN panels : panels[id].kind = "table" =>
        \A n \in DOMAIN panels[id].rows : panels[id].rows[n].source \in Names(view) \cup {None}
=============================================================================
