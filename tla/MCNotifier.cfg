CONSTANTS
  Event = {e1, e2}
  Unknown = {e2}
  Garbage = Garbage
  Consumer = {c1, c2}
  MaxDeliveries = 1
  Batch = 2
  MaxLen = 1
  MaxEntries = 2
  MaxFaults = 1
SPECIFICATION FairSpec
INVARIANTS
  AcknowledgedIsSettled
  SentMeansTold
PROPERTIES
  EntriesSettle
