SPECIFICATION FairSpec
CONSTANTS
  Workers = {w1, w2}
  Flows = {f1, f2}
  NoFlow = NoFlow
  ProhibitedWindow = 2
  SuspiciousWindow = 1
  Threshold = 2
  EscalationWindow = 1
  DisableBuiltinAlerts = FALSE
  HasWebhook = TRUE
  EventKinds <- MCEventKinds
  MaxEvents = 3
  MaxCrashes = 1
  MaxFailures = 1
INVARIANTS
  TypeOK
  AdmissionsAccounted
  WindowsAreAnswered
  PromotionsNeedHits
  FullCountPerPromotion
  CounterBounded
  RollupsExact
PROPERTIES
  RoutingReturns
  AdmitsOnePerWindow
