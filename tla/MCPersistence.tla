--------------------------- MODULE MCPersistence ---------------------------
(* Persistence for TLC: two medium assets sent to a trusted service that    *)
(* accepts neither, so that first sight is suspicious and later ones are    *)
(* acceptable, and one rule that silences one of them.                      *)
EXTENDS Persistence, TLC

MCSensitivity == [a \in Assets |-> "medium"]
MCSink        == [category |-> "analytics", trust |-> "trusted", accepts |-> {}]
MCRules       == {[asset |-> "a", prefix |-> "/pay", domain |-> Blank, suffix |-> Blank]}
MCHasPrefix   == {<<"/pay", "/pay">>}
MCUnderSuffix == {}
MCBatches     == {<<"a", "a">>, <<"a", "b">>, <<"b", "a">>}

WorkerSymmetry == Permutations(Workers)
=============================================================================
