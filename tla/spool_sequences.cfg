SPECIFICATION Spec
CONSTANTS
  mqtt = mqtt
  otlp = otlp
  NoEntry = NoEntry
  Boots = {1, 2}
  Exporters = {mqtt}
  Configs <- OnlyMqtt
  Sizes = {1}
  MaxBytes = 2
  U64Max = 9
  PowersOfTen = {10}
  MaxEvents = 3
  MaxEpoch = 0
  MaxDamaged = 1
  SteadyClock = FALSE
  PidReuse = TRUE
INVARIANTS
  IInv
  RestartFresh
  NothingSwallowed
  AckedNeverReused
