SPECIFICATION Spec
CONSTANTS
  mqtt = mqtt
  otlp = otlp
  NoEntry = NoEntry
  Boots = {1}
  Exporters = {mqtt}
  Configs <- OnlyMqtt
  Sizes = {1}
  MaxBytes = 2
  U64Max = 99
  PowersOfTen = {10, 100}
  MaxEvents = 3
  MaxEpoch = 0
  MaxDamaged = 0
  SteadyClock = TRUE
  PidReuse = FALSE
INVARIANTS
  SequenceNamesEvent
