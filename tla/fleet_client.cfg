SPECIFICATION FairSpec
CONSTANTS
  z1 = z1
  z2 = z2
  absent = absent
  none = none
  good = good
  malformed = malformed
  Zones = {z1, z2}
  Absent = absent
  None = none
  Good = good
  Malformed = malformed
  Environment <- Env
  Profiles <- AllProfiles
  Tokens = {TRUE, FALSE}
  MaxRevision = 3
  MaxKills = 1
  MaxLost = 1
INVARIANTS
  RevisionMeansSettings
  TokensAccounted
  BuiltIsHeld
  Recoverable
  IInv
PROPERTIES
  ImplementsRollout
  RestartsForNews
  TokenSpentOnce
  Converges
