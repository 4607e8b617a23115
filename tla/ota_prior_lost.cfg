SPECIFICATION FairSpec
CONSTANTS
  installed = installed
  good = good
  bad = bad
  stuck = stuck
  Binaries = {installed, good, bad}
  Installed = installed
  Working = {installed, good}
  Hanging = {}
  None = None
  Torn = Torn
  Supervisors = {TRUE, FALSE}
  Writable = TRUE
  Clocks = {TRUE}
  MaxRevision = 1
  MaxKills = 1
INVARIANTS
  PriorKept
