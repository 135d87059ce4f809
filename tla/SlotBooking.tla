---------------------------- MODULE SlotBooking ----------------------------
(***************************************************************************)
(* What the booking service promises, with every request taking effect at  *)
(* one instant: a slot has at most one active booking, a booking moves     *)
(* along the allowed transitions, and every move leaves exactly one event  *)
(* in the outbox.  BookingService refines this specification.              *)
(***************************************************************************)
EXTENDS BookingDomain, Sequences

CONSTANTS Slot, Booking, Client, Master,  \* identifiers
          NoRow,                          \* an identifier with no row
          MaxTime                         \* bound: the clock stops here

VARIABLES clock,      \* the time, as the service's clock tells it
          slots,      \* table slots
          bookings,   \* table bookings, committed rows
          outbox      \* table outbox_messages: the events of each booking, by id

vars == <<clock, slots, bookings, outbox>>

Time == 0 .. MaxTime
StartTime == 1 .. (MaxTime + 1)

SlotRow == [master : Master, startsAt : StartTime]
BookingRow == [slot : Slot, client : Client, status : BookingStatus, created : Time]
BookingEvent == {StatusEvents[s] : s \in DOMAIN StatusEvents}

Exists(b) == bookings[b] # NoRow

ActiveOn(s) == {b \in Booking : Exists(b) /\ bookings[b].slot = s /\ IsActive(bookings[b])}

Init ==
  /\ clock = 0
  /\ slots = [s \in Slot |-> NoRow]
  /\ bookings = [b \in Booking |-> NoRow]
  /\ outbox = [b \in Booking |-> <<>>]

Tick ==
  /\ clock < MaxTime
  /\ clock' = clock + 1
  /\ UNCHANGED <<slots, bookings, outbox>>

CreateSlot(s, m, startsAt) ==
  /\ slots[s] = NoRow
  /\ startsAt > clock
  /\ slots' = [slots EXCEPT ![s] = [master |-> m, startsAt |-> startsAt]]
  /\ UNCHANGED <<clock, bookings, outbox>>

(* The rows of X move to status `target` and announce it. *)
Moved(X, target) ==
  [b \in Booking |-> IF b \in X THEN [bookings[b] EXCEPT !.status = target] ELSE bookings[b]]

Announced(X, target) ==
  [b \in Booking |-> IF b \in X THEN Append(outbox[b], StatusEvents[target]) ELSE outbox[b]]

(* A booking of slot s, judged at a moment `now` that the request read no   *)
(* later than this: whatever still occupies the slot must be stale by then. *)
Book(s, b, c, now) ==
  /\ now <= clock
  /\ slots[s] # NoRow
  /\ EnsureBookable(slots[s].startsAt, now)
  /\ ~Exists(b)
  /\ \A a \in ActiveOn(s) : IsStale(bookings[a], now)
  /\ bookings' = [Moved(ActiveOn(s), "expired") EXCEPT
                    ![b] = [slot |-> s, client |-> c, status |-> "pending", created |-> now]]
  /\ outbox' = Announced(ActiveOn(s), "expired")
  /\ UNCHANGED <<clock, slots>>

(* Confirmation by a payment, or cancellation by a side of the booking. *)
ChangeStatus(b, target) ==
  /\ Exists(b)
  /\ CanTransition(bookings[b].status, target)
  /\ bookings' = Moved({b}, target)
  /\ outbox' = Announced({b}, target)
  /\ UNCHANGED <<clock, slots>>

Next ==
  \/ Tick
  \/ \E s \in Slot, m \in Master, t \in StartTime : CreateSlot(s, m, t)
  \/ \E s \in Slot, b \in Booking, c \in Client, now \in Time : Book(s, b, c, now)
  \/ \E b \in Booking, target \in {"confirmed", "cancelled"} : ChangeStatus(b, target)

Spec == Init /\ [][Next]_vars
=============================================================================
