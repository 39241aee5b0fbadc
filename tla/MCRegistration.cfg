SPECIFICATION FairSpec
CONSTANTS
  RawCadences <- MCRawCadences
  Unset = Unset
  Malformed = Malformed
  NonFinite = NonFinite
  DefaultCadence = 3
  Floor = 2
  MaxBoots = 3
  MaxRestarts = 2
  MaxFaults = 2
INVARIANTS
  TypeOK
  HealsWithinInterval
PROPERTIES
  RegistrationHeals
  EachBootConfirms
