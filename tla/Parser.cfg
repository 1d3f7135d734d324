SPECIFICATION FairSpec
CONSTANTS
  Packet <- WellFormed
  Refusals = {0, 5}
  MaxTopicLength = 3
  PayloadBuffer = 4
  ReadSizes = {1, 2, 3, 100}
  MaxWire = 2
INVARIANTS TypeOK OnlyRefusalCloses
PROPERTIES IsStream AllHandedOver
