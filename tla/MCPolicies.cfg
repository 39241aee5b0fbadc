SPECIFICATION FairSpec
CONSTANTS
  p1 = p1
  p2 = p2
  acme = acme
  bolt = bolt
  v1 = v1
  v2 = v2
  acmeRules = acmeRules
  boltRules = boltRules
  newRules = newRules
  NoTenant = NoTenant
  NoArtifact = NoArtifact
  NoRow = NoRow
  Passes = {p1, p2}
  Tenants = {acme, bolt}
  VersionIds = {v1}
  Bodies = {acmeRules, boltRules, newRules}
  Declares <- MCDeclares
  LastRelease = 2
  Accepts <- MCAccepts
  Issued <- ReusedIds
INVARIANTS
  TypeOK
  AuditJoins
  VerdictMatchesBody
  OwnRulesOnly
PROPERTIES
  NeverMatchNone
  CurrentPolicyDecides
  ImplementsPolicyAudit
