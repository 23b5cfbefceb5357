SPECIFICATION Spec
CONSTANTS
  Assets <- MCAssets
  Endpoints <- MCEndpoints
  Hosts <- MCHosts
  Categories <- MCCategories
  Rules <- MCRules
  AcceptLists <- MCAcceptLists
  HasPrefix <- MCHasPrefix
  UnderSuffix <- MCUnderSuffix
INVARIANTS
  TypeOK
  PrecedenceRespected
  FirstSightNeverQuiet
PROPERTIES
  TighteningNeverMilder
  CreatingRulesKeepsAudit
