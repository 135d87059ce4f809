CONSTANTS
  Worker = {w1, w2, w3}
  Slot = {s1}
  Booking = {b1, b2}
  Client = {c1}
  Master = {m1}
  NoRow = NoRow
  TTL = 1
  MaxTime = 1
SPECIFICATION FairSpec
INVARIANTS
  IInv
  OneActiveBooking
  OutboxTellsHistory
  ListedIsBookable
  NoLockDeadlock
PROPERTIES
  MovesAreAllowed
  HoldIsRespected
  Refinement
  RequestsFinish
