----------------------------- MODULE FlowPolicy -----------------------------
(***************************************************************************)
(* One flow (a data asset found on an endpoint, sent to a host) and the    *)
(* configuration its decision is computed from, as operators change it:    *)
(* the asset's sensitivity, the destination's trust tier and accept list,  *)
(* LLM_POLICY, the tenant's AllowlistRule rows, and the flow's history.    *)
(* The decision is that of classify_for_event, after the allowlist split,  *)
(* both reading the same rule set (RuleCache is about when they do not).   *)
(***************************************************************************)
EXTENDS Classifier, AllowlistEngine

CONSTANTS
  Assets,       \* asset names
  Endpoints,    \* paths the flow may be observed on
  Hosts,        \* destination hosts
  Categories,   \* sink categories a service may carry
  Rules,        \* AllowlistRule rows an operator may create
  AcceptLists   \* explicit accepts_assets lists an operator may set

\* A service resolved from no catalog has no list of its own.
ASSUME ConstantsAssumption == {} \in AcceptLists

VARIABLES
  where,        \* [asset, endpoint, host]: the flow
  sensitivity,  \* DataAsset.sensitivity_level
  sink,         \* [category, trust, accepts] of the ExternalService
  llmMode,      \* settings LLM_POLICY
  rules,        \* the tenant's AllowlistRule rows
  fields,       \* settings ALLOWLISTED_FIELDS
  isNewFlow     \* no earlier DataEvent of (tenant, asset, service)

vars == <<where, sensitivity, sink, llmMode, rules, fields, isNewFlow>>

Found == FindMatchingRule(rules, fields, where.asset, where.endpoint, where.host)

Asset == [name |-> where.asset, sensitivity |-> sensitivity]

\* classify_for_event
Outcome == Classify(Asset, sink, Found # {}, llmMode, isNewFlow)

TypeOK ==
  /\ where \in [asset : Assets, endpoint : Endpoints, host : Hosts]
  /\ sensitivity \in Sensitivities
  /\ sink \in [category : Categories, trust : TrustTiers, accepts : AcceptLists]
  /\ llmMode \in LLMModes
  /\ rules \subseteq Rules
  /\ fields \subseteq Assets
  /\ isNewFlow \in BOOLEAN

Init ==
  /\ where \in [asset : Assets, endpoint : Endpoints, host : Hosts]
  /\ sensitivity \in Sensitivities
  /\ sink \in [category : Categories, trust : TrustTiers, accepts : {{}}]
  /\ llmMode = "strict"
  /\ rules = {}
  /\ fields = {}
  /\ isNewFlow = TRUE

\* The first event of the flow is committed: later ones find it.
RecordEvent ==
  /\ isNewFlow
  /\ isNewFlow' = FALSE
  /\ UNCHANGED <<where, sensitivity, sink, llmMode, rules, fields>>

\* The admin form of DataAsset.
SetSensitivity(s) ==
  /\ s # sensitivity
  /\ sensitivity' = s
  /\ UNCHANGED <<where, sink, llmMode, rules, fields, isNewFlow>>

\* The admin form of ExternalService: its tier, or its accept list.
SetTrust(t) ==
  /\ t # sink.trust
  /\ sink' = [sink EXCEPT !.trust = t]
  /\ UNCHANGED <<where, sensitivity, llmMode, rules, fields, isNewFlow>>

SetAccepts(list) ==
  /\ list # sink.accepts
  /\ sink' = [sink EXCEPT !.accepts = list]
  /\ UNCHANGED <<where, sensitivity, llmMode, rules, fields, isNewFlow>>

SetLLMPolicy(m) ==
  /\ m # llmMode
  /\ llmMode' = m
  /\ UNCHANGED <<where, sensitivity, sink, rules, fields, isNewFlow>>

CreateRule(r) ==
  /\ r \notin rules
  /\ rules' = rules \cup {r}
  /\ UNCHANGED <<where, sensitivity, sink, llmMode, fields, isNewFlow>>

DestroyRule(r) ==
  /\ r \in rules
  /\ rules' = rules \ {r}
  /\ UNCHANGED <<where, sensitivity, sink, llmMode, fields, isNewFlow>>

\* Mutant: the wildcard of the accept lists is taken for a field name.
AllowFieldWildcard ==
  /\ "*" \notin fields
  /\ fields' = fields \cup {"*"}
  /\ UNCHANGED <<where, sensitivity, sink, llmMode, rules, isNewFlow>>

\* ALLOWLISTED_FIELDS gains the flow's asset.
AllowField ==
  /\ where.asset \notin fields
  /\ fields' = fields \cup {where.asset}
  /\ UNCHANGED <<where, sensitivity, sink, llmMode, rules, isNewFlow>>

Next ==
  \/ RecordEvent
  \/ \E s \in Sensitivities : SetSensitivity(s)
  \/ \E t \in TrustTiers : SetTrust(t)
  \/ \E list \in AcceptLists : SetAccepts(list)
  \/ \E m \in LLMModes : SetLLMPolicy(m)
  \/ \E r \in Rules : CreateRule(r) \/ DestroyRule(r)
  \/ AllowField

Spec == Init /\ [][Next]_vars

-----------------------------------------------------------------------------
\* The precedence list of the module docstring, most specific first.
Precedence(r) ==
  CASE r.domain # Blank /\ r.prefix # Blank                    -> 1
    [] r.domain # Blank /\ r.prefix = Blank                    -> 2
    [] r.domain = Blank /\ r.suffix # Blank /\ r.prefix # Blank  -> 3
    [] r.domain = Blank /\ r.suffix # Blank /\ r.prefix = Blank  -> 4
    [] r.domain = Blank /\ r.suffix = Blank /\ r.prefix # Blank  -> 5
    [] OTHER                                               -> 6

\* allowlist.py:5-12: whichever rules a tenant has, the one that silences a
\* match is never less specific than another that matches it too.
PrecedenceRespected ==
  where.asset \notin fields =>
    \A c \in Found, r \in rules :
      RuleMatches(r, where.asset, where.endpoint, where.host)
        => Precedence(c) <= Precedence(r)

\* classifier.py:81 before :84 - a flow never seen before is never filed as
\* merely acceptable, however trusted the destination or harmless the asset.
FirstSightNeverQuiet == isNewFlow => Outcome # "acceptable"

\* The operator of a tightening step: a higher sensitivity, a stricter LLM
\* policy, or a lower trust tier (trusted is the only tier the rules read).
Tightens ==
  \/ SensitivityRank[sensitivity'] > SensitivityRank[sensitivity]
  \/ LLMModeRank[llmMode'] > LLMModeRank[llmMode]
  \/ sink.trust = "trusted" /\ sink'.trust # "trusted"

\* classify is monotone: no tightening change ever makes a flow's outcome milder.
TighteningNeverMilder ==
  [][Tightens => Severity[Outcome'] >= Severity[Outcome]]_vars

\* allowlist.py:106-112: a match that a rule silences but keeps for audit does
\* not vanish from the audit trail because another rule is created.
CreatingRulesKeepsAudit ==
  [][ (rules \subseteq rules' /\ fields' = fields /\ "allowed" \in Partition(Found))
        => "dropped" \notin Partition(Found)' ]_vars

\* classifier.py:99-120: confidence gates alerting by one level at most; a
\* prohibited flow reaches a human at any confidence.
ConfidenceGatesOneLevel ==
  \A low \in BOOLEAN :
    LET level == EffectiveAlertLevel(Outcome, low)
    IN  /\ Severity[level] <= Severity[Outcome]
        /\ Severity[Outcome] - Severity[level] <= 1
        /\ Outcome = "prohibited" => level \in {"suspicious", "prohibited"}
=============================================================================
