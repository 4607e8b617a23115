SPECIFICATION Spec
CONSTANTS
  mqtt = mqtt
  otlp = otlp
  NoEntry = NoEntry
  Boots = {1}
  Exporters = {mqtt, otlp}
  Configs <- NoneOrPair
  Sizes = {1, 2}
  MaxBytes = 3
  U64Max = 99
  PowersOfTen = {10, 100}
  MaxEvents = 3
  MaxEpoch = 1
  MaxDamaged = 1
  SteadyClock = TRUE
  PidReuse = FALSE
INVARIANTS
  UniquePending
  Accounted
  Conservation
PROPERTIES
  OldestFirst
  ImplementsQueue
  DrainIsThorough
