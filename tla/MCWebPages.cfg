CONSTANTS
  Slot = {s1}
  Booking = {b1}
  Person = {p1, p2}
  NoRow = NoRow
  TTL = 1
  MaxTime = 1
  Connection = {k1}
  SessionLifetime = 1
  NoSession = NoSession
  Idle = Idle
  NoAnswer = NoAnswer
SPECIFICATION Spec
SYMMETRY Symmetry
INVARIANTS
  BookedIsOnRecord
  OwnSlotsArePublished
  CheckoutIsOwn
CHECK_DEADLOCK FALSE
