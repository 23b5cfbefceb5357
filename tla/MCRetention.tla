---------------------------- MODULE MCRetention ----------------------------
(* Retention for TLC: calls that send an address to an LLM in two fields, one *)
(* of them allowed.                                                           *)
EXTENDS Retention

Row(outcome, service, direction) ==
  [asset |-> "email", outcome |-> outcome, service |-> service, endpoint |-> "/chat",
   direction |-> direction, rid |-> 1]

MCCalls == {<<Row("expected", "llm", "egress"), Row("suspicious", "llm", "egress")>>}
MCOldRows == {<<>>}

Symmetry == Permutations(Writers) \cup Permutations(Purgers)
=============================================================================
