----------------------------- MODULE Recommend -----------------------------
(***************************************************************************)
(* Suggestions of dashboards for a snapshot (app/recommend.py): rules over *)
(* the whole catalogue, starters that always apply, and rules over each    *)
(* source, then kept by section and ranked by score.  Titles, reasons and  *)
(* prompts are left out; scores are in hundredths.                         *)
(***************************************************************************)
EXTENDS PanelData

Sections == {"overview", "system", "user", "governance", "quality", "sensitivity"}

\* The thresholds T; percentages in tenths.
T == [profiled_low |-> 900, failed_scans |-> 2, unowned_high |-> 400,
      coverage_low |-> 500, quality_low |-> 75, high_sens |-> 100]

Suggestion(section, template, score, scope) ==
    [section |-> section, template |-> template, score |-> score, scope |-> scope]
Global(section, template, score) == Suggestion(section, template, score, "none")
When(condition, suggestion) == IF condition THEN <<suggestion>> ELSE << >>

\* The evergreen suggestions; some name a template that does not ship.
Starters ==
    <<Global("overview", "catalog-health", 45), Global("user", "stewardship", 50),
      Global("user", "activity-ratings", 42), Global("quality", "quality-scores", 50),
      Global("quality", "dq-dimensions", 42), Global("governance", "policy-lineage", 45),
      Global("system", "scan-freshness", 44), Global("quality", "key-coverage", 40),
      Global("system", "file-format-mix", 38), Global("governance", "tag-coverage", 38),
      Global("overview", "domain-coverage", 36)>>

\* The assets whose profiling failed or was skipped.
Failing(s) == Get(Dist(s, "profiling"), "Failed", 0) + Get(Dist(s, "profiling"), "Skipped", 0)

CatalogueSignals(s) ==
    LET failed == Failing(s)
        trust == Dist(s, "trust")
        failedScore == Round(100 * failed, 800) + 40
        n == Len(s.sources)
    IN  When(failed # 0, Global("system", "profiling-health",
                 IF failedScore > 100 THEN 100 ELSE failedScore))
        \o When(5 * Get(trust, "Untrusted", 0) > AtLeastOne(Total(trust)),
                Global("overview", "risk-hotspots", 85))
        \o When(Get(Dist(s, "sensitivity"), "High", 0) > T.high_sens,
                Global("sensitivity", "pii-discoveries", 80))
        \o When(Get(s.totals, "term_coverage_pct", 1000) < T.coverage_low + 150,
                Global("governance", "glossary-coverage", 70))
        \o When(n >= 5, Global("system", "source-inventory", 50))
        \o Starters
        \o When(n >= 2, Global("overview", "source-comparison", 58))

SourceSignals(x) ==
    LET Own(section, template, score) == Suggestion(section, template, score, x.name)
    IN  When(Get(x, "failed_scans", 0) >= T.failed_scans
                \/ Get(x, "profiled_pct", 1000) < T.profiled_low,
             Own("system", "profiling-health", 75))
        \o When(Get(x, "high_sensitivity", 0) > 50 /\ Get(x, "unowned_pct", 0) >= T.unowned_high,
                Own("sensitivity", "exposure-overview", 82))
        \o When(Get(x, "term_coverage_pct", 1000) < T.coverage_low,
                Own("governance", "glossary-coverage", 60))
        \o When(Get(x, "mean_quality", 100) < T.quality_low,
                Own("quality", "quality-scores", 65))

\* Mutant: a focused request keeps the order of the sections, not of the scores.
RankedBySection(all) == all

\* By score, the highest first; equal scores keep their order.
RankedByScore(all) ==
    Ordered(all, LAMBDA i, j :
        all[i].score > all[j].score \/ (all[i].score = all[j].score /\ i < j))

\* With a scope only that source's signals are looked at.
Suggestions(s, scope, section) ==
    LET sources == IF scope = "none" THEN s.sources
                   ELSE Picked(s.sources, LAMBDA x : x.name = scope)
        all == (IF scope = "none" THEN CatalogueSignals(s) ELSE << >>)
               \o FlattenSeq([i \in DOMAIN sources |-> SourceSignals(sources[i])])
    IN  RankedByScore(Picked(all, LAMBDA x : section = "none" \/ x.section = section))
=============================================================================
