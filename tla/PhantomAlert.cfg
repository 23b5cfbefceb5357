SPECIFICATION Spec
CONSTANTS
  Workers = {w1, w2}
  Assets = {"a", "b"}
  Sensitivity <- MCSensitivity
  Sink <- MCSink
  Endpoint = "/pay"
  Host = "h"
  LLMMode = "strict"
  ShadowMode = TRUE
  Rules <- MCRules
  NoRule = NoRule
  Kinds = {"request", "task", "egress"}
  Batches <- MCBatches
  HasPrefix <- MCHasPrefix
  UnderSuffix <- MCUnderSuffix
  MaxCalls = 2
  MaxRuleChanges = 1
  MaxFailures = 1
INVARIANT
  SignalsCarryRows
