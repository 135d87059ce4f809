--------------------------- MODULE BookingDomain ---------------------------
(***************************************************************************)
(* The booking rules that need neither a database nor HTTP: the statuses,  *)
(* the transitions between them, and what it means for a booking to hold   *)
(* its slot at a moment of time.  services/booking/src/booking/domain.py   *)
(* and the predicates at the top of service.py.                            *)
(*                                                                         *)
(* Time is a natural number.  Every rule takes the moment as `now`, as the *)
(* code does: a request reads the clock once and may run for long after.   *)
(***************************************************************************)
EXTENDS Naturals

CONSTANT TTL        \* how long an unpaid booking holds its slot (15 minutes)

ASSUME TTLAssumption == TTL \in Nat

BookingStatus == {"pending", "confirmed", "cancelled", "expired"}

ActiveStatuses == {"pending", "confirmed"}

AllowedTransitions ==
  [pending   |-> {"confirmed", "cancelled", "expired"},
   confirmed |-> {"cancelled"},
   cancelled |-> {},
   expired   |-> {}]

CanTransition(current, target) == target \in AllowedTransitions[current]

(* A slot that has started takes no bookings. *)
EnsureBookable(startsAt, now) == startsAt > now

(* Mutant: a booking goes stale one tick early. *)
IsStaleEarly(row, now) == row.status = "pending" /\ row.created + TTL <= now + 1

(* The WHERE clause that expires a booking, as a predicate on a row. *)
IsStale(row, now) == row.status = "pending" /\ row.created + TTL <= now

(* Mutant: a pending booking holds its slot at the last moment as well. *)
HoldsSlotInclusive(row, now) ==
  \/ row.status = "confirmed"
  \/ row.status = "pending" /\ row.created + TTL >= now

(* The WHERE clause by which a slot counts as taken in a listing. *)
HoldsSlot(row, now) ==
  \/ row.status = "confirmed"
  \/ row.status = "pending" /\ row.created + TTL > now

IsActive(row) == row.status \in ActiveStatuses

(* The event a booking announces on reaching a status; `pending` has none. *)
StatusEvents ==
  [confirmed |-> "booking.confirmed",
   cancelled |-> "booking.cancelled",
   expired   |-> "booking.expired"]
=============================================================================
