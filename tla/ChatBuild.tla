------------------------------ MODULE ChatBuild ------------------------------
(***************************************************************************)
(* Specs that a model or the offline builder drafts, and what makes one    *)
(* valid (app/generator.py, app/chat_build.py): the schema and a library   *)
(* of queries, the app's own or one that a request brings.  A spec is its  *)
(* section and its panels; titles, chart types and prompts are left out,   *)
(* and an instruction is the set of sections whose keywords it contains.   *)
(***************************************************************************)
EXTENDS Integers, Sequences, FiniteSets

CONSTANTS
    QueryCatalog,  \* the Query Library: a sequence of [name, group, columns]
    None,          \* a missing value
    NotAnObject    \* JSON that is no object where one is expected

Sections == {"overview", "system", "user", "governance", "quality", "sensitivity"}
Kinds == {"kpi", "chart", "table", "text"}

Raises == {<<"raises">>}
Items(s) == {s[i] : i \in DOMAIN s}
Panel(kind, query, bindings) == [kind |-> kind, query |-> query, bindings |-> bindings]

ASSUME CatalogAssumption ==
    /\ QueryCatalog \in Seq(Items(QueryCatalog)) \ {<< >>}
    /\ None # NotAnObject
    /\ \A i \in DOMAIN QueryCatalog : NotAnObject # Panel("table", QueryCatalog[i].name, None)

------------------------------------------------------------------------------
(* Validation. *)

Named(library, query) == {i \in DOMAIN library : library[i].name = query}
Known(library, query) == Named(library, query) # {}

\* The columns of a query: of two of one name in a library the last counts.
Last(positions) == CHOOSE i \in positions : \A j \in positions : j <= i
Columns(library, query) == Items(library[Last(Named(library, query))].columns)

\* What the schema says of a spec: a section, a panel, and each panel's parts.
SchemaErrors(spec) ==
    {<<"section">> : x \in {spec.section} \ Sections}
    \cup {<<"panels">> : x \in {spec.panels} \cap {<< >>}}
    \cup {<<"object", i>> : i \in {j \in DOMAIN spec.panels : spec.panels[j] = NotAnObject}}
    \cup {<<"panel", i>> : i \in {j \in DOMAIN spec.panels :
            /\ spec.panels[j] # NotAnObject
            /\ \/ spec.panels[j].kind \notin Kinds
               \/ spec.panels[j].kind = "chart" /\ spec.panels[j].bindings = None
               \/ spec.panels[j].bindings = NotAnObject}}

\* A panel that is no object has no get; bindings that are none have no items, but
\* those of an unknown query are not looked at.
Unreadable(library, p) ==
    \/ p = NotAnObject
    \/ p # NotAnObject /\ Known(library, p.query) /\ p.bindings = NotAnObject

\* _validate: the problems of a spec against a library.  It raises on a panel it cannot read, though
\* the schema has found that problem.
Validate(library, spec) ==
    LET unknown == {i \in DOMAIN spec.panels : ~Known(library, spec.panels[i].query)}
        bound(p) == IF p.bindings = None THEN << >> ELSE p.bindings
        unbound(p) == {role \in DOMAIN bound(p) : bound(p)[role] \notin Columns(library, p.query)}
    IN  IF \E i \in DOMAIN spec.panels : Unreadable(library, spec.panels[i]) THEN Raises
        ELSE SchemaErrors(spec)
             \cup {<<"query", i>> : i \in unknown}
             \cup UNION {{<<"column", i, role>> : role \in unbound(spec.panels[i])} :
                         i \in DOMAIN spec.panels \ unknown}

------------------------------------------------------------------------------
(* The offline builder. *)

ValueCols == <<"count", "value", "pct", "score", "days", "edits">>
TimeCols == <<"week", "date", "month", "day">>
CatCols == <<"name", "bucket", "level", "type", "dimension", "source", "term", "status",
             "pii_type", "rating", "owner", "metric", "element", "table", "asset",
             "action", "policy", "worker">>

\* Of a set of positions the nth.
Nth(n, positions) == CHOOSE i \in positions : Cardinality({j \in positions : j <= i}) = n

\* The first of a pool that is among the columns and is not another one.
First(columns, pool, other) ==
    LET fit == {i \in DOMAIN pool : pool[i] \in Items(columns) \ {other}}
    IN  IF fit = {} THEN None ELSE pool[Nth(1, fit)]

\* Of the sections whose keywords an instruction contains, the first looked for.
KeywordSection(mentioned) ==
    LET order == <<"sensitivity", "quality", "governance", "system", "user">>
        found == {i \in DOMAIN order : order[i] \in mentioned}
    IN  IF found = {} THEN "overview" ELSE order[Nth(1, found)]

PanelFor(q, preferKpi) ==
    LET value == First(q.columns, ValueCols, None)
        time == First(q.columns, TimeCols, None)
        category == First(q.columns, CatCols \o q.columns, value)
    IN  CASE value # None /\ preferKpi -> Panel("kpi", q.name, [value |-> value])
          [] value # None /\ ~preferKpi /\ time # None ->
                Panel("chart", q.name, [x |-> time, y |-> value])
          [] value # None /\ ~preferKpi /\ time = None /\ category # None ->
                Panel("chart", q.name, [category |-> category, value |-> value])
          [] OTHER -> Panel("table", q.name, None)

\* demo_build: the first four queries of the section, the first as a tile, or one
\* table where that is not valid.
DemoBuild(mentioned, section) ==
    LET in == IF section \in Sections THEN section ELSE KeywordSection(mentioned)
        own == {i \in DOMAIN QueryCatalog : QueryCatalog[i].group = in}
        from == IF own # {} THEN own ELSE DOMAIN QueryCatalog
        more == {n \in 1..(IF own # {} THEN 3 ELSE 2) : n < Cardinality(from)}
        query(n) == QueryCatalog[Nth(n, from)]
        rich == [section |-> in, panels |->
                   <<PanelFor(query(1), TRUE)>> \o [n \in more |-> PanelFor(query(n + 1), FALSE)]]
        plain == [section |-> in, panels |-> <<Panel("table", query(1).name, None)>>]
    IN  IF Validate(QueryCatalog, rich) = {} THEN rich ELSE plain
=============================================================================
