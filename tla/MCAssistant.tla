----------------------------- MODULE MCAssistant -----------------------------
\* Instances of Assistant for TLC: of the Query Library the queries that an
\* offline draft may use, the first four of each section; a library that a request
\* brings, with a query listed twice; five drafts.
EXTENDS Assistant

Access(name, group, columns) == [name |-> name, group |-> group, columns |-> columns]
MCQueryCatalog == <<
    Access("asset_counts", "overview", <<"metric", "count">>),
    Access("source_counts", "overview", <<"metric", "count">>),
    Access("trust_distribution", "governance", <<"bucket", "count">>),
    Access("trust_by_source", "governance", <<"source", "bucket", "count">>),
    Access("sensitivity_mix", "sensitivity", <<"level", "count">>),
    Access("sensitive_by_source", "sensitivity", <<"source", "level", "count">>),
    Access("pii_discoveries", "sensitivity", <<"pii_type", "count", "source">>),
    Access("quality_by_source", "quality", <<"source", "score">>),
    Access("quality_distribution", "quality", <<"bucket", "count">>),
    Access("worst_tables", "quality", <<"table", "source", "score">>),
    Access("dq_dimensions", "quality", <<"dimension", "value">>),
    Access("term_coverage", "governance", <<"source", "pct">>),
    Access("top_terms", "governance", <<"term", "count">>),
    Access("profile_status", "system", <<"status", "count">>),
    Access("assets_by_source", "system", <<"source", "count">>),
    Access("scan_activity", "system", <<"date", "count">>),
    Access("owners_coverage", "user", <<"source", "status", "count">>),
    Access("owner_workload", "user", <<"owner", "count", "edits">>),
    Access("ratings_distribution", "user", <<"rating", "count">>),
    Access("recently_modified", "user", <<"date", "count">>),
    Access("assets_by_type", "system", <<"type", "count">>),
    Access("risk_assets", "overview", <<"asset", "source", "issue">>),
    Access("sensitive_unowned", "sensitivity", <<"asset", "source", "pii", "trust">>)>>

MCSupplied == <<Access("worst_tables", "quality", <<"table", "score">>),
                Access("no_such_query", "quality", <<"count">>),
                Access("worst_tables", "quality", <<"table", "level">>)>>
MCLibraries == {MCQueryCatalog, MCSupplied}

Tile(query, bindings) == [kind |-> "kpi", query |-> query, bindings |-> bindings]
Spec1(panel) == [section |-> "quality", panels |-> <<panel>>]
MCDrafts ==
    {Spec1(Tile("worst_tables", [value |-> "score"])),
     Spec1(Tile("worst_tables", [value |-> "level"])),
     Spec1(Tile("no_such_query", None)),
     Spec1(NotAnObject),
     [section |-> "unknown", panels |-> << >>]}
MCAsks == {[mentioned |-> {}, section |-> s] : s \in Sections \cup {None}}
          \cup {[mentioned |-> {"user", "quality"}, section |-> None]}
=============================================================================
