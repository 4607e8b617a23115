SPECIFICATION FairSpec
CONSTANTS
  z1 = z1
  z2 = z2
  absent = absent
  none = none
  good = good
  malformed = malformed
  Zones = {z1, z2}
  Absent = absent
  None = none
  Good = good
  Malformed = malformed
  Environment <- Env
  Profiles <- TwoProfiles
  Tokens = {FALSE}
  MaxRevision = 2
  MaxKills = 0
  MaxLost = 0
PROPERTIES
  RestartApplies
