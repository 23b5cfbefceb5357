--------------------------- MODULE AllowlistEngine ---------------------------
(***************************************************************************)
(* The pure allowlist matcher (wiregraph_core/allowlist.py): which rule of *)
(* a rule set silences a match, and the three-way split persistence makes. *)
(*                                                                         *)
(* A rule is [asset, prefix, domain, suffix] with Blank for a blank field.   *)
(* String comparison is abstracted to two relations: HasPrefix holds the   *)
(* <<endpoint, prefix>> pairs with endpoint.startswith(prefix), UnderSuffix*)
(* the <<host, suffix>> pairs _host_matches_suffix accepts.                *)
(***************************************************************************)
EXTENDS Integers, FiniteSets

CONSTANTS HasPrefix, UnderSuffix

Blank == ""

\* A rule without any scope beside its asset name.
IsBlank(rule) == rule.domain = Blank /\ rule.suffix = Blank /\ rule.prefix = Blank

HostMatchesSuffix(host, suffix) == <<host, suffix>> \in UnderSuffix

RuleMatches(rule, asset, endpoint, host) ==
  /\ rule.asset = asset
  /\ rule.domain = Blank \/ rule.domain = host
  /\ rule.suffix = Blank \/ HostMatchesSuffix(host, rule.suffix)
  /\ rule.prefix = Blank \/ <<endpoint, rule.prefix>> \in HasPrefix

\* Mutant: the suffix score is added to the domain score (if for elif).
SpecificityAdded(rule) ==
  (IF rule.domain # Blank THEN 40 ELSE 0)
    + (IF rule.suffix # Blank THEN 20 ELSE 0)
    + (IF rule.prefix # Blank THEN 5 ELSE 0)

Specificity(rule) ==
  (IF rule.domain # Blank THEN 40 ELSE IF rule.suffix # Blank THEN 20 ELSE 0)
    + (IF rule.prefix # Blank THEN 5 ELSE 0)

\* Mutant: the candidates are sorted in ascending order.
MostSpecificReversed(candidates) ==
  {r \in candidates : \A q \in candidates : Specificity(q) >= Specificity(r)}

\* candidates.sort(key=_specificity, reverse=True)[0].  The rows come from a
\* query without an order, so any of the equally specific ones may be first.
MostSpecific(candidates) ==
  {r \in candidates : \A q \in candidates : Specificity(q) <= Specificity(r)}

\* The rule a global ALLOWLISTED_FIELDS entry stands for.
FieldRule(asset) == [asset |-> asset, prefix |-> Blank, domain |-> Blank, suffix |-> Blank]

\* The rules find_matching_rule may return; {} stands for None.
FindMatchingRule(rules, fields, asset, endpoint, host) ==
  IF asset \in fields
  THEN {FieldRule(asset)}
  ELSE MostSpecific({r \in rules : RuleMatches(r, asset, endpoint, host)})

\* Mutant: a match of any rule is dropped before it is persisted.
PartitionDropsAll(found) ==
  IF found = {} THEN {"remaining"} ELSE {"dropped"}

\* partition_matches for one match, by the rule found: the classes it may get.
Partition(found) ==
  IF found = {} THEN {"remaining"}
  ELSE {IF IsBlank(r) THEN "dropped" ELSE "allowed" : r \in found}
=============================================================================
