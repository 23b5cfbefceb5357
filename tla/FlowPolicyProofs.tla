-------------------------- MODULE FlowPolicyProofs --------------------------
(***************************************************************************)
(* Proofs of the properties of FlowPolicy, for every set of assets, hosts, *)
(* rules and accept lists and every prefix and suffix relation.            *)
(***************************************************************************)
EXTENDS FlowPolicy, TLAPS

-----------------------------------------------------------------------------
(* The pure operators.                                                     *)

\* The score orders rules as the documented precedence list does.
LEMMA ScoreFollowsPrecedence ==
  ASSUME NEW c, NEW r, Specificity(r) <= Specificity(c)
  PROVE  Precedence(c) <= Precedence(r)
BY DEF Specificity, Precedence

\* Only a blank rule scores nothing.
LEMMA BlankScoresZero ==
  ASSUME NEW r
  PROVE  IsBlank(r) <=> Specificity(r) = 0
BY DEF Specificity, IsBlank

\* Whatever the configuration, classify returns one of the four outcomes.
LEMMA ClassifyOutcome ==
  ASSUME NEW asset, NEW snk, NEW ruleHit, NEW mode, NEW new
  PROVE  Classify(asset, snk, ruleHit, mode, new) \in Outcomes
BY DEF Classify, Outcomes

\* The severities are the numbers 0 to 3.
LEMMA SeverityValues ==
  /\ Severity["expected"] = 0
  /\ Severity["acceptable"] = 1
  /\ Severity["suspicious"] = 2
  /\ Severity["prohibited"] = 3
BY DEF Severity, Outcomes

-----------------------------------------------------------------------------
(* Type correctness.                                                       *)

\* Every configuration change keeps the variables in their types.
THEOREM TypeCorrect == Spec => []TypeOK
<1>1. Init => TypeOK
  BY ConstantsAssumption DEF Init, TypeOK, LLMModes
<1>2. TypeOK /\ [Next]_vars => TypeOK'
  <2> SUFFICES ASSUME TypeOK, [Next]_vars PROVE TypeOK'
    OBVIOUS
  <2> USE DEF TypeOK
  <2>1. CASE RecordEvent
    BY <2>1 DEF RecordEvent
  <2>2. ASSUME NEW s \in Sensitivities, SetSensitivity(s) PROVE TypeOK'
    BY <2>2 DEF SetSensitivity
  <2>3. ASSUME NEW t \in TrustTiers, SetTrust(t) PROVE TypeOK'
    BY <2>3 DEF SetTrust
  <2>4. ASSUME NEW list \in AcceptLists, SetAccepts(list) PROVE TypeOK'
    BY <2>4 DEF SetAccepts
  <2>5. ASSUME NEW m \in LLMModes, SetLLMPolicy(m) PROVE TypeOK'
    BY <2>5 DEF SetLLMPolicy
  <2>6. ASSUME NEW r \in Rules, CreateRule(r) PROVE TypeOK'
    BY <2>6 DEF CreateRule
  <2>7. ASSUME NEW r \in Rules, DestroyRule(r) PROVE TypeOK'
    BY <2>7 DEF DestroyRule
  <2>8. CASE AllowField
    BY <2>8 DEF AllowField
  <2>9. CASE UNCHANGED vars
    BY <2>9 DEF vars
  <2> QED
    BY <2>1, <2>2, <2>3, <2>4, <2>5, <2>6, <2>7, <2>8, <2>9 DEF Next
<1> QED
  BY <1>1, <1>2, PTL DEF Spec

-----------------------------------------------------------------------------
(* The invariants.                                                         *)

\* The rule that silences a match is never less specific than another that
\* matches it, for every rule set a tenant can have.
THEOREM PrecedenceHolds == Spec => []PrecedenceRespected
<1>1. PrecedenceRespected
  <2> SUFFICES ASSUME where.asset \notin fields, NEW c \in Found, NEW r \in rules,
                      RuleMatches(r, where.asset, where.endpoint, where.host)
               PROVE  Precedence(c) <= Precedence(r)
    BY DEF PrecedenceRespected
  <2>1. Specificity(r) <= Specificity(c)
    BY DEF Found, FindMatchingRule, MostSpecific
  <2> QED
    BY <2>1, ScoreFollowsPrecedence
<1> QED
  BY <1>1, PTL

\* A flow seen for the first time is never filed as acceptable.
THEOREM FirstSightHolds == Spec => []FirstSightNeverQuiet
<1>1. FirstSightNeverQuiet
  BY DEF FirstSightNeverQuiet, Outcome, Classify
<1> QED
  BY <1>1, PTL

\* Confidence lowers an outcome by one level at most.
THEOREM ConfidenceHolds == Spec => []ConfidenceGatesOneLevel
<1>1. ConfidenceGatesOneLevel
  <2> SUFFICES ASSUME NEW low \in BOOLEAN
               PROVE  LET level == EffectiveAlertLevel(Outcome, low)
                      IN  /\ Severity[level] <= Severity[Outcome]
                          /\ Severity[Outcome] - Severity[level] <= 1
                          /\ Outcome = "prohibited" => level \in {"suspicious", "prohibited"}
    BY DEF ConfidenceGatesOneLevel
  <2>1. Outcome \in Outcomes
    BY ClassifyOutcome DEF Outcome
  <2> QED
    BY <2>1, SeverityValues DEF Outcomes, EffectiveAlertLevel
<1> QED
  BY <1>1, PTL
-----------------------------------------------------------------------------
(* The action properties.                                                  *)

\* Policy only gets stricter: what is forbidden for a sensitivity and a mode is
\* forbidden for every higher sensitivity and every stricter mode.
LEMMA ForbiddenMonotone ==
  ASSUME NEW name, NEW snk,
         NEW s \in Sensitivities, NEW t \in Sensitivities,
         SensitivityRank[s] <= SensitivityRank[t],
         NEW m \in LLMModes, NEW n \in LLMModes,
         LLMModeRank[m] <= LLMModeRank[n],
         Forbidden([name |-> name, sensitivity |-> s], snk, m)
  PROVE  Forbidden([name |-> name, sensitivity |-> t], snk, n)
<1>1. /\ SensitivityRank["low"] = 0
      /\ SensitivityRank["medium"] = 1
      /\ SensitivityRank["high"] = 2
      /\ SensitivityRank["critical"] = 3
  BY DEF SensitivityRank, Sensitivities
<1>2. /\ LLMModeRank["other"] = 0
      /\ LLMModeRank["relaxed"] = 1
      /\ LLMModeRank["strict"] = 2
  BY DEF LLMModeRank, LLMModes
<1>3. s \in {"medium", "high", "critical"} => t \in {"medium", "high", "critical"}
  BY <1>1 DEF Sensitivities
<1>4. s \in {"high", "critical"} => t \in {"high", "critical"}
  BY <1>1 DEF Sensitivities
<1>5. m = "strict" => n = "strict"
  BY <1>2 DEF LLMModes
<1>6. m = "relaxed" => n \in {"relaxed", "strict"}
  BY <1>2 DEF LLMModes
<1> QED
  BY <1>3, <1>4, <1>5, <1>6 DEF Forbidden

\* classify on the same flow: more forbidden and less trusted is never milder.
LEMMA ClassifyMonotone ==
  ASSUME NEW a, NEW b, NEW k, NEW l, NEW hit, NEW m, NEW n, NEW new,
         Accepted(b, l) => Accepted(a, k),
         Forbidden(a, k, m) => Forbidden(b, l, n),
         (l.trust = "trusted" \/ b.sensitivity = "low")
           => (k.trust = "trusted" \/ a.sensitivity = "low")
  PROVE  Severity[Classify(a, k, hit, m, new)] <= Severity[Classify(b, l, hit, n, new)]
BY SeverityValues DEF Classify

\* The ranks are integers, so that no level outranks itself.
LEMMA RanksAreIntegers ==
  /\ SensitivityRank \in [Sensitivities -> Int]
  /\ LLMModeRank \in [LLMModes -> Int]
<1>1. \A s \in Sensitivities : SensitivityRank[s] \in Int
  BY DEF SensitivityRank, Sensitivities
<1>2. \A m \in LLMModes : LLMModeRank[m] \in Int
  BY DEF LLMModeRank, LLMModes
<1> QED
  BY <1>1, <1>2 DEF SensitivityRank, LLMModeRank

\* No tightening change makes a flow's outcome milder.
THEOREM TighteningHolds == Spec => TighteningNeverMilder
<1>1. TypeOK /\ [Next]_vars => [Tightens => Severity[Outcome'] >= Severity[Outcome]]_vars
  <2> SUFFICES ASSUME TypeOK, Next, Tightens
               PROVE  Severity[Outcome'] >= Severity[Outcome]
    OBVIOUS
  <2> DEFINE Milder == Severity[Outcome] <= Severity[Outcome']
  <2>0. /\ SensitivityRank[sensitivity] \in Int
        /\ LLMModeRank[llmMode] \in Int
    BY RanksAreIntegers DEF TypeOK
  <2>1. ASSUME NEW s \in Sensitivities, SetSensitivity(s) PROVE Milder
    <3>1. /\ Found' = Found
          /\ sensitivity' = s
          /\ UNCHANGED <<where, sink, llmMode, isNewFlow>>
      BY <2>1 DEF SetSensitivity, Found
    <3>2. SensitivityRank[sensitivity] <= SensitivityRank[s]
      BY <2>0, <3>1, RanksAreIntegers DEF Tightens
    <3>3. Forbidden(Asset, sink, llmMode) => Forbidden(Asset', sink', llmMode')
      <4>1. LLMModeRank[llmMode] <= LLMModeRank[llmMode]
        BY <2>0
      <4> QED
        BY <3>1, <3>2, <4>1, ForbiddenMonotone DEF Asset, TypeOK
    <3>4. Accepted(Asset', sink') => Accepted(Asset, sink)
      BY <3>1 DEF Accepted, Asset
    <3>5. s = "low" => sensitivity = "low"
      BY <3>2, RanksAreIntegers DEF SensitivityRank, Sensitivities, TypeOK
    <3>6. (sink'.trust = "trusted" \/ Asset'.sensitivity = "low")
            => (sink.trust = "trusted" \/ Asset.sensitivity = "low")
      BY <3>1, <3>5 DEF Asset
    <3> QED
      BY <3>1, <3>3, <3>4, <3>6, ClassifyMonotone DEF Outcome
  <2>2. ASSUME NEW t \in TrustTiers, SetTrust(t) PROVE Milder
    <3>1. /\ Found' = Found
          /\ Asset' = Asset
          /\ sink' = [sink EXCEPT !.trust = t]
          /\ UNCHANGED <<llmMode, sensitivity, isNewFlow>>
      BY <2>2 DEF SetTrust, Found, Asset
    <3>2. sink.trust = "trusted" /\ sink'.trust # "trusted"
      BY <2>0, <3>1 DEF Tightens
    <3>3. sink'.category = sink.category /\ sink'.accepts = sink.accepts
      BY <3>1 DEF TypeOK
    <3>4. Forbidden(Asset, sink, llmMode) => Forbidden(Asset', sink', llmMode')
      BY <3>1, <3>3 DEF Forbidden
    <3>5. Accepted(Asset', sink') => Accepted(Asset, sink)
      BY <3>1, <3>3 DEF Accepted, EffectiveAccepts
    <3> QED
      BY <3>1, <3>2, <3>4, <3>5, ClassifyMonotone DEF Outcome
  <2>3. ASSUME NEW m \in LLMModes, SetLLMPolicy(m) PROVE Milder
    <3>1. /\ Found' = Found
          /\ Asset' = Asset
          /\ llmMode' = m
          /\ UNCHANGED <<where, sensitivity, sink, isNewFlow>>
      BY <2>3 DEF SetLLMPolicy, Found, Asset
    <3>2. LLMModeRank[llmMode] <= LLMModeRank[m]
      BY <2>0, <3>1, RanksAreIntegers DEF Tightens
    <3>3. Forbidden(Asset, sink, llmMode) => Forbidden(Asset', sink', llmMode')
      <4>1. SensitivityRank[sensitivity] <= SensitivityRank[sensitivity]
        BY <2>0
      <4> QED
        BY <3>1, <3>2, <4>1, ForbiddenMonotone DEF Asset, TypeOK
    <3> QED
      BY <3>1, <3>3, ClassifyMonotone DEF Outcome
  <2>4. ASSUME UNCHANGED <<sensitivity, llmMode>>, sink'.trust = sink.trust PROVE FALSE
    BY <2>0, <2>4 DEF Tightens
  <2>5. ASSUME NEW list \in AcceptLists, SetAccepts(list) PROVE FALSE
    BY <2>4, <2>5 DEF SetAccepts, TypeOK
  <2>6. ASSUME \/ RecordEvent \/ AllowField
               \/ \E r \in Rules : CreateRule(r) \/ DestroyRule(r)
        PROVE  FALSE
    BY <2>4, <2>6 DEF RecordEvent, AllowField, CreateRule, DestroyRule
  <2>7. Milder
    BY <2>1, <2>2, <2>3, <2>5, <2>6 DEF Next
  <2> QED
    <3>1. Outcome \in Outcomes /\ Outcome' \in Outcomes
      BY ClassifyOutcome DEF Outcome
    <3>2. Severity[Outcome] \in Int /\ Severity[Outcome'] \in Int
      BY <3>1, SeverityValues DEF Outcomes
    <3> QED
      BY <2>7, <3>2
<1> QED
  BY <1>1, TypeCorrect, PTL DEF Spec, TighteningNeverMilder

\* A match that is kept for audit stays so when rules are added: the rule that
\* takes over is at least as specific, and a blank rule is the least specific.
THEOREM AuditHolds == Spec => CreatingRulesKeepsAudit
<1>1. [Next]_vars => [ (rules \subseteq rules' /\ fields' = fields
                        /\ "allowed" \in Partition(Found))
                      => "dropped" \notin Partition(Found)' ]_vars
  <2> SUFFICES ASSUME Next, rules \subseteq rules', fields' = fields,
                      "allowed" \in Partition(Found),
                      NEW c \in Found', IsBlank(c)
               PROVE  FALSE
    BY DEF Partition
  <2>1. where' = where
    BY DEF Next, RecordEvent, SetSensitivity, SetTrust, SetAccepts, SetLLMPolicy,
           CreateRule, DestroyRule, AllowField
  <2>2. PICK r \in Found : ~IsBlank(r)
    BY DEF Partition
  <2>3. where.asset \notin fields
    BY <2>2 DEF Found, FindMatchingRule, FieldRule, IsBlank
  <2>4. r \in rules /\ RuleMatches(r, where.asset, where.endpoint, where.host)
    BY <2>2, <2>3 DEF Found, FindMatchingRule, MostSpecific
  <2>5. Specificity(r) <= Specificity(c)
    BY <2>1, <2>3, <2>4 DEF Found, FindMatchingRule, MostSpecific
  <2>6. Specificity(r) > 0
    BY <2>2 DEF Specificity, IsBlank
  <2>7. Specificity(c) = 0
    BY BlankScoresZero
  <2>8. Specificity(r) \in Int
    BY DEF Specificity
  <2> QED
    BY <2>5, <2>6, <2>7, <2>8
<1> QED
  BY <1>1, PTL DEF Spec, CreatingRulesKeepsAudit

=============================================================================
