SPECIFICATION FairSpec
CONSTANTS
  Passes = {p1}
  p1 = p1
  p2 = p2
  a = a
  b = b
  c = c
  k1 = k1
  k2 = k2
  k3 = k3
  k4 = k4
  Keys = {k1, k2, k3, k4}
  Policies = {a, b, c}
  NoPolicy = NoPolicy
  NoKey = NoKey
  Statuses = {201, 302, 404, 422, 503}
  LastEvent = 7
  Malformed = {2}
  Foreign = {5}
  Entries <- MixedEntries
  KeyOf <- MixedKeyOf
  InitialModes <- OfEachMode
  OperatorActs = FALSE
  MaxAborts = 2
  MaxRevisions = 0
INVARIANTS
  AckedEventsAreMinted
  PreviewIsCarriedOut
  RowsAsPreviewed
PROPERTIES
  EverythingIsConsumed
  MatchedIsCarriedOut
