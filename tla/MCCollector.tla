---------------------------- MODULE MCCollector ----------------------------
(* Model checking of Collector: what the sources may be configured to be.  *)
EXTENDS Collector

Recipe(mode, directory, target, query) ==
    [mode |-> mode, directory |-> directory, target |-> target, query |-> query]

MCTrusted == Recipe("saved_query", "in", "sales", "totals")
MCLegacy == Recipe("legacy_schedule", "in", "sales", "totals")
\* An edit changes the recipe and the target, or the directory and the query.
MCReplaced == Recipe("legacy_schedule", "in", "stock", "totals")
MCRequeried == Recipe("saved_query", "out", "sales", "details")

MCConfigs == {MCTrusted, MCLegacy, MCReplaced, MCRequeried}
MCRecipes == {MCTrusted, MCLegacy}
MCOneRecipe == {MCTrusted}

=============================================================================
