CONSTANTS
  Booking = {b1}
  Amount = {a1}
  Event = {e1}
  Worker = {w1}
  Relay = {r1, r2}
  BatchSize = 2
  NoRow = NoRow
  Slot = {s1}
  Client = {c1}
  Master = {m1}
  TTL = 1
  MaxTime = 1
  Thread = {t1, t2}
  NoCall = NoCall
  MaxFaults = 3
SPECIFICATION SystemFairSpec
PROPERTIES
  MoneySettles
CHECK_DEADLOCK FALSE
