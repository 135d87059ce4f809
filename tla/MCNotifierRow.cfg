CONSTANTS
  Event = {e1}
  Unknown = {}
  Garbage = Garbage
  Consumer = {c1}
  MaxDeliveries = 1
  Batch = 2
  MaxLen = 1
  MaxEntries = 1
  MaxFaults = 1
SYMMETRY Symmetric
SPECIFICATION Spec
INVARIANTS
  DeadMeansNotTold
