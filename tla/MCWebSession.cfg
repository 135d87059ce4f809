CONSTANTS
  Booking = {b1}
  Client = {c1, c2}
  TTL = 1
  NoRow = NoRow
  MaxTime = 1
  Tab = {t1}
  Connection = {k1, k2}
  SessionLifetime = 1
  NoSession = NoSession
  Idle = Idle
  NoAnswer = NoAnswer
  MaxFaults = 1
SPECIFICATION FairSpec
INVARIANTS
  RowsWereTrue
PROPERTIES
  RowsNeverGoBack
  SessionsEndForAReason
  SettledIsShown
