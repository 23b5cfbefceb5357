----------------------------- MODULE MCRuleCache -----------------------------
(* RuleCache for TLC: rules, readers and writers are interchangeable.       *)
EXTENDS RuleCache, TLC

Interchangeable == Permutations(Rules) \cup Permutations(Readers) \cup Permutations(Writers)
=============================================================================
