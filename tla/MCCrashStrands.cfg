SPECIFICATION FairSpec
CONSTANTS
  Passes = {p1}
  p1 = p1
  p2 = p2
  a = a
  b = b
  c = c
  k1 = k1
  k2 = k2
  k3 = k3
  k4 = k4
  Keys = {k1, k2, k3}
  Policies = {a, b}
  NoPolicy = NoPolicy
  NoKey = NoKey
  Statuses = {201, 302, 404, 422, 503}
  LastEvent = 3
  Malformed = {}
  Foreign = {}
  Entries <- MCEntries
  KeyOf <- SharedKeyOf
  InitialModes <- AllActive
  OperatorActs = FALSE
  MaxAborts = 1
  MaxRevisions = 0
PROPERTIES
  StuckClaimSurfaces
