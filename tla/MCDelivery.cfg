CONSTANTS
  Relay = {r1, r2}
  BatchSize = 2
  MaxRows = 2
  MaxFaults = 1
  Consumer = {c1}
  MaxDeliveries = 1
  ReadBatch = 1
  MaxLen = 1
  Garbage = Garbage
SPECIFICATION DeliveryFairSpec
INVARIANTS
  MarkedIsPublished
  RepeatsNeedFaults
PROPERTIES
  NoticesRefined
  EventsSettle
CHECK_DEADLOCK FALSE
