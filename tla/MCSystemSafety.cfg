CONSTANTS
  Booking = {b1, b2}
  Amount = {a1}
  Event = {e1, e2}
  Worker = {w1}
  Relay = {r1, r2}
  BatchSize = 2
  NoRow = NoRow
  Slot = {s1}
  Client = {c1}
  Master = {m1}
  TTL = 1
  MaxTime = 1
  Thread = {t1, t2}
  NoCall = NoCall
  MaxFaults = 1
SYMMETRY Symmetric
SPECIFICATION SystemSpec
INVARIANTS
  ConfirmedMeansPaid
  KeptMoneyBoughtSlot
  RefundHasCharge
CHECK_DEADLOCK FALSE
