------------------------------ MODULE MCEgress ------------------------------
(* Egress for TLC: a host that the built-in catalog, two settings with keys  *)
(* of different lengths and a row of an operator cover, seen through a       *)
(* client whose adapter encodes the body itself.                             *)
EXTENDS Egress, TLC

MCHosts == {<<"eu", "api", "openai", "com">>}
MCTenantOverrides == <<"com">> :> Entry("internal", "trusted", {{}})
MCSettingsOverrides ==
  (<<"openai", "com">> :> Entry("analytics", "known", {{"email"}})) @@
  (<<"eu", "api", "openai", "com">> :> Entry("storage", "known", {{}}))
MCClasses ==
  {Entry("internal", "trusted", {"*"}), Entry("storage", "known", {}),
   Entry("llm", "trusted", {})}

ThreadSymmetry == Permutations(Threads)
=============================================================================
