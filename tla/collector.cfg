SPECIFICATION FairCollector
CONSTANTS
  Configured = {"connectivity", "ble"}
  ConnectivityEvery = 3
  BleEvery = 4
  SleepTicks = 2
  WorkTicks = 2
INVARIANTS
  CollectorInv
  GaugeFollows
PROPERTIES
  ScansSpaced
  GaugeCatchesUp
