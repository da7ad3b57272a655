----------------------------- MODULE MCPanelBoard -----------------------------
\* Instances of PanelBoard for TLC: what a sweep of two or three sources may give,
\* the bundled sample, and one catalogue with more sources than a drill-down
\* has room for.
EXTENDS PanelBoard, TLC

\* Sums of the characters of the names.
MCNameSeed ==
    [Ops |-> 306, CRM |-> 226, Lake |-> 381, Snowflake_PROD |-> 1292, S3_raw |-> 509,
     Postgres_billing |-> 1637, Oracle_legacy |-> 1272, BigQuery_mart |-> 1289,
     SharePoint_docs |-> 1491, Kafka_streams |-> 1290, MySQL_crm |-> 805, S1 |-> 132,
     S2 |-> 133, S3 |-> 134, S4 |-> 135, S5 |-> 136, S6 |-> 137, S7 |-> 138, S8 |-> 139,
     S9 |-> 140, S10 |-> 180, S11 |-> 181, S12 |-> 182, S13 |-> 183, S14 |-> 184,
     S15 |-> 185, S16 |-> 186]
LargeNames == <<"S1", "S2", "S3", "S4", "S5", "S6", "S7", "S8", "S9", "S10", "S11", "S12",
                "S13", "S14", "S15", "S16">>

\* catalog.py's percentage, with one decimal.
Tenths(n, d) == IF d = 0 THEN 0 ELSE Round(1000 * n, d)

\* A source of a sweep: without a quality where no asset has a score.
Swept(name, assets, high, quality) ==
    [name |-> name, type |-> "database", assets |-> assets, high_sensitivity |-> high,
     term_coverage_pct |-> Tenths(assets \div 2, assets),
     profiled_pct |-> Tenths(assets - high, assets),
     failed_scans |-> 0]
    @@ (IF quality = None THEN << >> ELSE [mean_quality |-> quality])

\* A sweep: termless high-sensitivity assets of each source give rows.
Live(sources, orphans) ==
    LET n == Total([i \in DOMAIN sources |-> sources[i].assets]) + orphans
        high == Total([i \in DOMAIN sources |-> sources[i].high_sensitivity])
        scored == SelectSeq(sources, LAMBDA x : "mean_quality" \in DOMAIN x)
        rows == First([i \in DOMAIN sources |-> Row(sources[i].name, "High")], 6)
        quality == Total([i \in DOMAIN scored |-> scored[i].mean_quality])
    IN  [sources |-> sources,
         totals |-> [assets |-> n, sources |-> Len(sources),
                     profiled_pct |-> Tenths(n - high, n), term_coverage_pct |-> Tenths(n \div 2, n)]
                    @@ (IF scored = << >> THEN << >>
                        ELSE [mean_quality |-> Round(quality, Len(scored))]),
         trust |-> ("Untrusted" :> n \div 3) @@ ("Trusted" :> n \div 4) @@ ("Highly Trusted" :> n \div 5),
         sensitivity |-> IF high = 0 THEN [Low |-> n] ELSE [High |-> high, Low |-> n - high],
         profiling |-> [Completed |-> n - high, Pending |-> high],
         lineage |-> [Verified |-> n \div 2, Unverified |-> n - n \div 2],
         ratings |-> IF n < 4 THEN << >> ELSE (5 :> 1 @@ 3 :> 2),
         terms |-> IF n < 2 THEN << >> ELSE [Customer |-> n \div 2],
         pii_types |-> IF high = 0 THEN << >> ELSE [SSN |-> high],
         coverage |-> [term_pct |-> Tenths(n \div 2, n), lineage_pct |-> Tenths(n \div 2, n)],
         types |-> IF n = 0 THEN << >> ELSE [Table |-> n \div 3, Column |-> n - n \div 3],
         terms_total |-> IF n < 2 THEN 0 ELSE 1,
         untermed_rows |-> IF high = 0 THEN << >> ELSE rows, untermed_hi_total |-> high,
         pii_rows |-> IF high = 0 THEN << >> ELSE rows,
         worst_rows |-> [i \in DOMAIN scored |-> Row(scored[i].name, scored[i].mean_quality)]]

Qualities == {None, 0, 40, 100}
Highs(assets) == {0, assets}
Pairs == {<<0, 0>>, <<1, 3>>, <<2, 7>>}
MCSwept ==
    {Live(<<Swept("Ops", p[1], h1, q1), Swept("CRM", p[2], h2, q2)>>, orphans) :
        <<p, h1, h2, q1, q2, orphans>> \in
            UNION {{p} \X Highs(p[1]) \X Highs(p[2]) \X
                   (IF p[1] = 0 THEN {None} ELSE Qualities) \X
                   (IF p[1] = 0 THEN {None} ELSE Qualities) \X {0, 2} : p \in Pairs}}
MCThree ==
    {Live(<<Swept("Ops", a, 0, 77), Swept("CRM", 5, 2, None), Swept("Lake", 6, 6, 40)>>, 0) : a \in 1..4}
MCLarge(sizes) == Live([i \in DOMAIN sizes |-> Swept(LargeNames[i], sizes[i], i, 60 + i)], 0)
MCBig == {MCLarge(<<6000, 6000, 6000>> \o [i \in 1..12 |-> 20]),
          MCLarge(<<6000, 6000, 6000>> \o [i \in 1..13 |-> 20]),
          MCLarge(<<19000>> \o [i \in 1..14 |-> 20])}
MCEmpty == {Live(<< >>, 0)}

Sampled(name, type, assets, profiled, failed, high, unowned, termed, quality) ==
    [name |-> name, type |-> type, assets |-> assets, profiled_pct |-> 10 * profiled,
     failed_scans |-> failed, high_sensitivity |-> high, unowned_pct |-> 10 * unowned,
     term_coverage_pct |-> 10 * termed, mean_quality |-> quality]

\* The bundled sample.
MCSample ==
    [totals |-> [assets |-> 12480, sources |-> 18, profiled_pct |-> 942,
                 term_coverage_pct |-> 610, mean_quality |-> 76],
     trust |-> ("Untrusted" :> 2104) @@ ("Trusted" :> 3890) @@ ("Highly Trusted" :> 2220),
     sensitivity |-> [Low |-> 9180, Medium |-> 2458, High |-> 842],
     profiling |-> [Completed |-> 11760, Skipped |-> 708, Failed |-> 12],
     pii_types |-> [EMAIL |-> 1203, PHONE |-> 980, ADDRESS |-> 760, DOB |-> 540, SSN |-> 412],
     lineage |-> [Verified |-> 7320, Partial |-> 3960, Unverified |-> 1200],
     ratings |-> <<580, 1180, 2900, 3680, 2140>>,
     policies |-> [Privacy |-> 412, Retention |-> 980, Access |-> 1340, Quality |-> 760, Class |-> 1520],
     terms |-> [Customer |-> 980, Account |-> 760, Meter |-> 540, Invoice |-> 430,
                Address |-> 380, Usage |-> 320],
     edits |-> [Tagged |-> 1840, Termed |-> 1260, Owned |-> 980, Rated |-> 720, Described |-> 540],
     owners |-> <<1820, 1240, 980, 760, 540>>,
     coverage |-> [policy_pct |-> 680, encryption_pct |-> 740, masking_pct |-> 610],
     dq |-> [Completeness |-> 88, Accuracy |-> 79, Validity |-> 84, Uniqueness |-> 94,
             Consistency |-> 74, Timeliness |-> 66, Traceability |-> 58, Clarity |-> 71,
             Availability |-> 96],
     terms_total |-> 412,
     types |-> [Table |-> 9640, File |-> 2840],
     sources |-> <<Sampled("Snowflake_PROD", "warehouse", 3640, 99, 0, 240, 26, 74, 86),
        Sampled("S3_raw", "object_store", 2610, 81, 6, 280, 52, 34, 64),
        Sampled("Postgres_billing", "database", 2140, 97, 1, 80, 23, 68, 78),
        Sampled("Oracle_legacy", "database", 1450, 88, 4, 120, 41, 41, 81),
        Sampled("BigQuery_mart", "warehouse", 860, 72, 2, 0, 34, 34, 73),
        Sampled("SharePoint_docs", "document_store", 720, 64, 3, 72, 58, 22, 58),
        Sampled("Kafka_streams", "streaming", 640, 55, 0, 30, 47, 28, 69),
        Sampled("MySQL_crm", "database", 420, 92, 0, 20, 19, 66, 77)>>]

MCSnapshots == MCSwept \cup MCThree \cup MCBig \cup MCEmpty \cup {MCSample}

Show(kind, queries) ==
    [i \in DOMAIN queries |-> [id |-> <<kind, queries[i]>>, kind |-> kind, query |-> queries[i]]]
Unnamed == [id |-> None, kind |-> "kpi", query |-> "asset_counts"]
\* A second panel of an id that is taken.
Again == [id |-> <<"kpi", "asset_counts">>, kind |-> "chart", query |-> "trust_by_source"]
Wrong(kind) == [id |-> <<kind, "wrong">>, kind |-> kind, query |-> Malformed]

MCBoard ==
    Show("kpi", <<"asset_counts", "source_counts", "sensitivity_mix", "sensitive_by_source",
        "untrusted_count", "weakest_source", "quality_by_source", "dq_dimensions", "term_coverage",
        "profile_status", "trust_distribution", "lineage_status", "owners_coverage", "pii_discoveries",
        "policy_counts", "top_terms", "edit_activity", "ratings_distribution", "policy_coverage",
        "encryption_status", "masking_status", "term_status", "failed_scans_total", "table_count",
        "file_count", "unverified_lineage", "terms_defined_total", "worker_status", "ownership_time",
        "stale_failed", "recently_modified", "worst_tables", "dq_timeliness", "owner_workload",
        "no_such_query">>)
    \o <<Unnamed, Wrong("kpi")>>
    \o Show("chart", <<"trust_distribution", "assets_by_source", "assets_by_type", "quality_by_source",
        "sensitive_by_source", "owners_coverage", "trust_by_source", "lineage_by_source", "dq_by_source",
        "dq_dimensions", "dq_completeness", "dq_accuracy", "dq_validity", "dq_uniqueness",
        "dq_consistency", "dq_traceability", "dq_clarity", "dq_availability", "quality_distribution",
        "coverage_trend", "scan_activity", "term_coverage", "no_such_query">>)
    \o Show("text", <<"none">>) \o <<Again>>
MCTables ==
    Show("table", <<"source_inventory", "stale_failed", "worst_tables", "pii_assets",
        "sensitive_unowned", "untermed_critical", "unowned_high_value", "risk_assets",
        "owner_workload", "owners_coverage_table", "dq_timeliness", "no_such_query">>)
    \o <<Wrong("table")>>
\* Entries that no try catches, after one that is answered.
MCNoPanel == Show("kpi", <<"asset_counts">>) \o <<NoPanel>> \o Show("text", <<"none">>)
MCNoKey == Show("kpi", <<"asset_counts">>) \o <<[Unnamed EXCEPT !.id = NoKey]>>
MCBoards == {MCBoard, MCTables, MCNoPanel, MCNoKey}
MCTableBoards == {MCTables}
=============================================================================
