CONSTANTS
  Booking = {b1, b2}
  Amount = {a1, a2}
  Event = {e1, e2, e3}
  Worker = {w1, w2}
  Relay = {r1, r2}
  BatchSize = 2
  NoRow = NoRow
SYMMETRY Symmetric
SPECIFICATION Spec
INVARIANTS
  PaidIffCommanded
  ChargeMatchesPayment
  RefundTracked
  RefundsAreDue
  NoSharedCommand
PROPERTIES
  OutcomeIsFinal
