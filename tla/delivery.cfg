SPECIFICATION FairDelivery
CONSTANTS
  mqtt = mqtt
  otlp = otlp
  NoEntry = NoEntry
  Boots = {1}
  Exporters = {mqtt, otlp}
  Configs <- Pair
  Sizes = {1}
  MaxBytes = 2
  U64Max = 99
  PowersOfTen = {10, 100}
  MaxEvents = 2
  MaxEpoch = 0
  MaxDamaged = 0
  SteadyClock = TRUE
  PidReuse = FALSE
  MaxPacketId = 2
  Published <- AllEvents
  Posted <- AllEvents
  Lengths <- EdgeLengths
INVARIANTS
  DeliveryInv
  SeenInOrder
  PacketsFramed
PROPERTIES
  RetiredIsTaken
  MqttImplementsContract
  OtlpImplementsContract
  PendingLeaves
  AgentRecovers
