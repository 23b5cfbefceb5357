SPECIFICATION Spec
CONSTANTS
  Workers = {w1, w2}
  Flows = {f1}
  NoFlow = NoFlow
  ProhibitedWindow = 2
  SuspiciousWindow = 1
  Threshold = 2
  EscalationWindow = 2
  DisableBuiltinAlerts = FALSE
  HasWebhook = TRUE
  EventKinds <- MCEventKinds
  MaxEvents = 4
  MaxCrashes = 0
  MaxFailures = 0
SYMMETRY WorkerSymmetry
INVARIANT
  PromotionResetsCounter
