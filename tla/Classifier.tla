----------------------------- MODULE Classifier -----------------------------
(***************************************************************************)
(* The pure decision core: what outcome a flow of one data asset into one  *)
(* sink gets, and how detector confidence turns that outcome into an alert *)
(* level.  (wiregraph_core/classifier.py and the category table of         *)
(* wiregraph_core/sinks.py.)                                               *)
(*                                                                         *)
(* An asset is [name, sensitivity], a sink is [category, trust, accepts]   *)
(* with accepts the explicit accepts_assets list as a set ({} = none       *)
(* given).  The reason string is not modelled; the rule that produced the  *)
(* outcome is its only content.                                            *)
(***************************************************************************)
EXTENDS Integers

Outcomes      == {"expected", "acceptable", "suspicious", "prohibited"}
Sensitivities == {"low", "medium", "high", "critical"}
TrustTiers    == {"trusted", "known", "unknown"}

\* The order of harm of outcomes and alert levels, and of sensitivity levels.
Severity == [o \in Outcomes |->
               CASE o = "expected"   -> 0
                 [] o = "acceptable" -> 1
                 [] o = "suspicious" -> 2
                 [] o = "prohibited" -> 3]
SensitivityRank == [s \in Sensitivities |->
               CASE s = "low" -> 0 [] s = "medium" -> 1
                 [] s = "high" -> 2 [] s = "critical" -> 3]

\* LLM_POLICY is a free string: only "strict" and "relaxed" switch a rule on.
LLMModes    == {"other", "relaxed", "strict"}
LLMModeRank == [m \in LLMModes |->
               CASE m = "other" -> 0 [] m = "relaxed" -> 1 [] m = "strict" -> 2]

CATEGORY_DEFAULTS ==
  [ payments       |-> {"email", "person_name", "address", "phone_us", "credit_card"},
    email_provider |-> {"email", "person_name"},
    crm            |-> {"email", "person_name", "phone_us", "address"},
    auth           |-> {"email", "person_name"},
    sms            |-> {"phone_us", "person_name"},
    analytics |-> {}, llm |-> {}, storage |-> {}, cdn |-> {}, logging |-> {},
    internal       |-> {"*"},
    unknown        |-> {} ]

\* CATEGORY_DEFAULTS.get(category, [])
CategoryDefault(category) ==
  IF category \in DOMAIN CATEGORY_DEFAULTS THEN CATEGORY_DEFAULTS[category] ELSE {}

\* A non-empty explicit list replaces the category default.
EffectiveAccepts(sink) ==
  IF sink.accepts # {} THEN sink.accepts ELSE CategoryDefault(sink.category)

Accepted(asset, sink) ==
  LET accepts == EffectiveAccepts(sink)
  IN  "*" \in accepts \/ asset.name \in accepts

\* Mutant: strict mode was written with the list of levels it newly covers.
ForbiddenStrictOnlyMedium(asset, sink, llmMode) ==
  \/ /\ sink.category = "llm"
     /\ \/ llmMode = "strict"  /\ asset.sensitivity = "medium"
        \/ llmMode = "relaxed" /\ asset.sensitivity \in {"high", "critical"}
  \/ /\ sink.category = "unknown"
     /\ asset.sensitivity \in {"high", "critical"}

\* The three policy rules that forbid a flow outright.
Forbidden(asset, sink, llmMode) ==
  \/ /\ sink.category = "llm"
     /\ \/ llmMode = "strict"  /\ asset.sensitivity \in {"medium", "high", "critical"}
        \/ llmMode = "relaxed" /\ asset.sensitivity \in {"high", "critical"}
  \/ /\ sink.category = "unknown"
     /\ asset.sensitivity \in {"high", "critical"}

\* Mutant: trust is consulted before the flow's history.
ClassifyTrustFirst(asset, sink, ruleHit, llmMode, isNewFlow) ==
  IF ruleHit \/ Accepted(asset, sink)          THEN "expected"
  ELSE IF Forbidden(asset, sink, llmMode)      THEN "prohibited"
  ELSE IF \/ sink.trust = "trusted"
          \/ asset.sensitivity = "low"         THEN "acceptable"
  ELSE "suspicious"

\* The rules are tried in the order of the code; the first that applies decides.
Classify(asset, sink, ruleHit, llmMode, isNewFlow) ==
  IF ruleHit \/ Accepted(asset, sink)          THEN "expected"
  ELSE IF Forbidden(asset, sink, llmMode)      THEN "prohibited"
  ELSE IF isNewFlow                            THEN "suspicious"
  ELSE IF \/ sink.trust = "trusted"
          \/ asset.sensitivity = "low"         THEN "acceptable"
  ELSE "suspicious"

\* effective_alert_level: below CONFIDENCE_LOW an outcome drops one level; the
\* high threshold is not used.  lowConfidence stands for confidence < low.
EffectiveAlertLevel(outcome, lowConfidence) ==
  CASE lowConfidence /\ outcome = "suspicious" -> "acceptable"
    [] lowConfidence /\ outcome = "prohibited" -> "suspicious"
    [] OTHER                                   -> outcome
=============================================================================
