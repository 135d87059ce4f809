CONSTANTS
  ghsa = ghsa
  pysec = pysec
  cve = cve
  x = x
  y = y
  p = p
  q = q
  Uses <- MCUses
  Project = {x, y}
  Package = {p, q}
  Record = {ghsa, pysec}
  Github = {ghsa}
  Cve = {cve}
  Aliases <- MCAliases
  Terms <- MCTerms
  GraceDays = 1
  MaxDays = 2
  MaxDaysWithoutFix = 1
  LastDay = 2
  MaxEntries = 2
SPECIFICATION Spec
INVARIANTS
  FailsClosed
  ShippedIsDecided
  OrderDecidesNothing
PROPERTIES
  WaitingNeverHelps
