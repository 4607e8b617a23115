SPECIFICATION FairSpec
CONSTANTS
  installed = installed
  good = good
  bad = bad
  stuck = stuck
  Binaries = {installed, good, bad, stuck}
  Installed = installed
  Working = {installed, good}
  Hanging = {stuck}
  None = None
  Torn = Torn
  Supervisors = {TRUE, FALSE}
  Writable = TRUE
  Clocks = {TRUE, FALSE}
  MaxRevision = 2
  MaxKills = 2
INVARIANTS
  IInv
  TargetWhole
  RollbackReady
  HealthyIsProven
  RetryBudget
  RolledBackStays
PROPERTIES
  RecordAdvances
  ImplementsLifecycle
  UpdateSettles
