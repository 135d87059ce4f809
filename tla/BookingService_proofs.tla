------------------------ MODULE BookingService_proofs ------------------------
(***************************************************************************)
(* Proofs about BookingService, for every set of workers, slots, bookings, *)
(* clients and masters, every TTL and every MaxTime.                       *)
(***************************************************************************)
EXTENDS BookingService, SequenceTheorems, TLAPS

-----------------------------------------------------------------------------
(* Type correctness. *)

LEMMA InitTypeOK == Init => TypeOK
<1> SUFFICES ASSUME Init PROVE TypeOK
  OBVIOUS
<1>1. 0 \in Time
  BY BookingServiceAssumption DEF Time, Abs!Time
<1> QED
  BY <1>1 DEF Init, Abs!Init, TypeOK, NoRequest, Replies

(* The rows of a set move to a status, and announce it, within their types. *)
LEMMA MovedType ==
  ASSUME TypeOK, NEW X \in SUBSET Booking, NEW target \in DOMAIN StatusEvents,
         \A b \in X : Exists(b)
  PROVE  /\ Abs!Moved(X, target) \in [Booking -> Abs!BookingRow \cup {NoRow}]
         /\ Abs!Announced(X, target) \in [Booking -> Seq(Abs!BookingEvent)]
<1>1. target \in BookingStatus
  BY DEF StatusEvents, BookingStatus
<1>2. ASSUME NEW b \in X PROVE [bookings[b] EXCEPT !.status = target] \in Abs!BookingRow
  <2>1. bookings[b] \in Abs!BookingRow
    BY DEF TypeOK, Exists
  <2> QED
    BY <1>1, <2>1 DEF Abs!BookingRow, Abs!BookingStatus, BookingStatus
<1>3. Abs!StatusEvents[target] \in Abs!BookingEvent
  BY DEF Abs!BookingEvent, Abs!StatusEvents, StatusEvents
<1>4. \A b \in Booking : Append(outbox[b], Abs!StatusEvents[target]) \in Seq(Abs!BookingEvent)
  BY <1>3 DEF TypeOK
<1> QED
  BY <1>2, <1>4 DEF Abs!Moved, Abs!Announced, TypeOK

-----------------------------------------------------------------------------
(* The inductive invariant. *)

Booked(w) == pc[w] # "idle" /\ req[w] \in BookRequest
Changing(w) == pc[w] # "idle" /\ req[w] \in ChangeRequest

(* Where a worker is tells which request it serves and what it has locked. *)
ControlInv ==
  \A w \in Worker :
    /\ pc[w] \in {"scan", "expire", "insert"} => req[w] \in BookRequest
    /\ pc[w] = "update" => req[w] \in ChangeRequest
    /\ pc[w] = "commit" => req[w] \in BookRequest \cup ChangeRequest
    /\ pc[w] \notin {"insert", "commit"} => dirty[w] = {}

(* A row is locked by at most one transaction. *)
LocksExclusive ==
  \A v, w \in Worker : v # w => dirty[v] \cap dirty[w] = {}

(* What book_slot has read is still true, and the rows it has expired are   *)
(* stale rows of its slot: they are locked, so nobody can change them.      *)
BookInv ==
  \A w \in Worker : Booked(w) =>
    /\ ~Exists(req[w].id)
    /\ req[w].now <= clock
    /\ slots[req[w].slot] # NoRow
    /\ EnsureBookable(slots[req[w].slot].startsAt, req[w].now)
    /\ \A b \in dirty[w] : /\ Exists(b)
                            /\ bookings[b].slot = req[w].slot
                            /\ IsStale(bookings[b], req[w].now)

(* Two requests never make the same booking, nor insert into the same slot. *)
InsertInv ==
  \A v, w \in Worker : v # w /\ Booked(v) /\ Booked(w) =>
    /\ req[v].id # req[w].id
    /\ pc[v] = "commit" /\ pc[w] = "commit" => req[v].slot # req[w].slot

(* While a booking is inserted and not committed, its slot has no active    *)
(* row but those the same transaction expires.                              *)
IndexInv ==
  \A w \in Worker : Booked(w) /\ pc[w] = "commit" => ~IndexTaken(w)

(* change_status has read a status that allows the move, and once it has    *)
(* locked the row the status is the one it read.                            *)
ChangeInv ==
  \A w \in Worker : Changing(w) =>
    /\ Exists(req[w].id)
    /\ CanTransition(req[w].seen, Target[req[w].op])
    /\ pc[w] = "commit" => /\ dirty[w] = {req[w].id}
                           /\ bookings[req[w].id].status = req[w].seen

SafeInv ==
  /\ ControlInv
  /\ LocksExclusive
  /\ BookInv
  /\ InsertInv
  /\ IndexInv
  /\ ChangeInv
  /\ OneActiveBooking

IInv == TypeOK /\ SafeInv

(* The rows a transaction has locked are rows of the table. *)
LEMMA DirtyExists ==
  ASSUME ControlInv, BookInv, ChangeInv, NEW w \in Worker, pc[w] = "commit", NEW b \in dirty[w]
  PROVE  Exists(b)
BY DEF ControlInv, BookInv, ChangeInv, Booked, Changing

LEMMA OpTarget ==
  ASSUME NEW r \in ChangeRequest
  PROVE  /\ Target[r.op] \in {"confirmed", "cancelled"}
         /\ r.op # "book"
         /\ r \notin BookRequest
BY DEF ChangeRequest, BookRequest, Target

LEMMA TypeOKStep ==
  ASSUME TypeOK, ControlInv, BookInv, ChangeInv, [Next]_vars
  PROVE  TypeOK'
<1> USE DEF TypeOK, tables
<1>1. CASE UNCHANGED vars
  BY <1>1 DEF vars
<1>2. CASE Tick
  <2>1. clock' \in Time
    BY <1>2, BookingServiceAssumption DEF Tick, Abs!Tick, Time, Abs!Time
  <2> QED
    BY <1>2, <2>1 DEF Tick, Abs!Tick
<1>3. ASSUME NEW s \in Slot, NEW m \in Master, NEW t \in Abs!StartTime, CreateSlot(s, m, t)
      PROVE  TypeOK'
  <2>1. [master |-> m, startsAt |-> t] \in Abs!SlotRow
    BY DEF Abs!SlotRow
  <2> QED
    BY <1>3, <2>1 DEF CreateSlot, Abs!CreateSlot
<1>4. ASSUME NEW w \in Worker, NEW r \in Replies, Rollback(w, r) PROVE TypeOK'
  BY <1>4 DEF Rollback, Answer, Goto
<1>5. ASSUME NEW w \in Worker, NEW request \in BookRequest \cup ChangeRequest,
             NEW label \in {"scan", "update"}, Begin(w, request, label)
      PROVE  TypeOK'
  BY <1>5 DEF Begin, Goto, Replies
<1>6. ASSUME NEW w \in Worker, Receive(w) PROVE TypeOK'
  <2>1. ASSUME NEW s \in Slot, NEW c \in Client, NEW b \in Booking, StartBook(w, s, c, b)
        PROVE  TypeOK'
    <3>1. [op |-> "book", id |-> b, slot |-> s, client |-> c, now |-> clock] \in BookRequest
      BY DEF BookRequest
    <3> QED
      BY <2>1, <3>1, <1>4, <1>5 DEF StartBook, Replies
  <2>2. ASSUME NEW b \in Booking, NEW op \in {"confirm", "cancel"}, StartChange(w, b, op)
        PROVE  TypeOK'
    <3>1. [op |-> op, id |-> b, seen |-> bookings[b].status] \in ChangeRequest
      BY <2>2 DEF StartChange, Exists, Abs!BookingRow, Abs!BookingStatus, BookingStatus,
                  ChangeRequest
    <3> QED
      BY <2>2, <3>1, <1>4, <1>5 DEF StartChange, Replies
  <2>3. ASSUME NEW b \in Booking, BookingNotFound(w, b) PROVE TypeOK'
    BY <2>3, <1>4 DEF BookingNotFound, Replies
  <2> QED
    BY <1>6, <2>1, <2>2, <2>3 DEF Receive, StartConfirm, StartCancel
<1>7. ASSUME NEW w \in Worker, Step(w) PROVE TypeOK'
  <2>1. CASE ScanStale(w)
    BY <2>1 DEF ScanStale, StaleOn, Goto
  <2>2. CASE ExpireStale(w)
    BY <2>2 DEF ExpireStale, Goto
  <2>3. CASE InsertBooking(w)
    BY <2>3 DEF InsertBooking, Goto
  <2>4. CASE InsertRefused(w)
    BY <2>4, <1>4 DEF InsertRefused, Replies
  <2>5. CASE CommitBook(w)
    <3>1. pc[w] = "commit" /\ req[w] \in BookRequest
      BY <2>5, OpTarget DEF CommitBook, Inserted, ControlInv, ChangeRequest
    <3>2. NewBooking(w) \in Abs!BookingRow
      BY <3>1 DEF NewBooking, BookRequest, Abs!BookingRow, Time, Abs!BookingStatus
    <3>3. Target["book"] \in DOMAIN StatusEvents
      BY DEF Target, StatusEvents
    <3> QED
      BY <2>5, <3>1, <3>2, <3>3, MovedType, DirtyExists DEF CommitBook, Answer, Goto, Replies
  <2>6. CASE UpdateStatus(w)
    <3>1. req[w] \in ChangeRequest
      BY <2>6 DEF UpdateStatus, ControlInv
    <3>2. req[w].id \in Booking
      BY <3>1 DEF ChangeRequest
    <3>3. CASE bookings[req[w].id].status = req[w].seen
      <4>1. /\ dirty' = [dirty EXCEPT ![w] = {req[w].id}]
            /\ pc' = [pc EXCEPT ![w] = "commit"]
            /\ UNCHANGED <<clock, tables, req, snap, reply>>
        BY <2>6, <3>3 DEF UpdateStatus, Goto, Rollback
      <4> QED
        BY <4>1, <3>2
    <3>4. CASE bookings[req[w].id].status # req[w].seen
      <4>1. Rollback(w, "invalid_transition")
        BY <2>6, <3>4 DEF UpdateStatus
      <4> QED
        BY <4>1, <1>4 DEF Replies
    <3> QED
      BY <3>3, <3>4
  <2>7. CASE CommitChange(w)
    <3>1. Target[req[w].op] \in DOMAIN StatusEvents
      BY <2>7 DEF CommitChange, Target, StatusEvents
    <3> QED
      BY <2>7, <3>1, MovedType, DirtyExists, Zenon DEF CommitChange, Answer, Goto, Replies
  <2> QED
    BY <1>7, <2>1, <2>2, <2>3, <2>4, <2>5, <2>6, <2>7 DEF Step
<1>8. ASSUME NEW w \in Worker, Abort(w) PROVE TypeOK'
  BY <1>8, <1>4 DEF Abort, Replies
<1> QED
  BY <1>1, <1>2, <1>3, <1>6, <1>7, <1>8 DEF Next

(* A transaction that ends without a commit only gives its locks back. *)
LEMMA RollbackStep ==
  ASSUME IInv, NEW w \in Worker, NEW r \in Replies, Rollback(w, r)
  PROVE  SafeInv'
<1> USE DEF IInv, SafeInv, TypeOK, Rollback, Answer, Goto, tables
<1>1. \A v \in Worker : dirty'[v] \subseteq dirty[v]
  OBVIOUS
<1>2. \A v \in Worker : pc'[v] # "idle" => v # w /\ pc'[v] = pc[v] /\ req'[v] = req[v]
                                                /\ dirty'[v] = dirty[v]
  OBVIOUS
<1>3. ControlInv'
  BY <1>1, <1>2 DEF ControlInv
<1>4. LocksExclusive'
  BY <1>1 DEF LocksExclusive
<1>5. BookInv'
  BY <1>2 DEF BookInv, Booked, Exists
<1>6. InsertInv'
  BY <1>2 DEF InsertInv, Booked
<1>7. IndexInv'
  BY <1>2 DEF IndexInv, Booked, IndexTaken, Exists
<1>8. ChangeInv'
  BY <1>2 DEF ChangeInv, Changing, Exists
<1>9. OneActiveBooking'
  BY DEF OneActiveBooking, Exists
<1> QED
  BY <1>3, <1>4, <1>5, <1>6, <1>7, <1>8, <1>9

(* The request starts with what it has just read, and locks nothing. *)
LEMMA BeginBookStep ==
  ASSUME IInv, NEW w \in Worker, NEW s \in Slot, NEW c \in Client, NEW b \in Booking,
         pc[w] = "idle", FreshId(b), slots[s] # NoRow, EnsureBookable(slots[s].startsAt, clock),
         Begin(w, [op |-> "book", id |-> b, slot |-> s, client |-> c, now |-> clock], "scan")
  PROVE  SafeInv'
<1> DEFINE r == [op |-> "book", id |-> b, slot |-> s, client |-> c, now |-> clock]
<1> USE DEF IInv, SafeInv, TypeOK, tables
<1>1. /\ r \in BookRequest
      /\ r.id = b /\ r.slot = s /\ r.now = clock
      /\ r \notin ChangeRequest
  BY DEF BookRequest, ChangeRequest
<1> HIDE DEF r
<1>2. /\ pc' = [pc EXCEPT ![w] = "scan"]
      /\ req' = [req EXCEPT ![w] = r]
      /\ UNCHANGED <<clock, slots, bookings, dirty>>
  BY DEF Begin, Goto, r
<1>3. dirty[w] = {}
  BY DEF ControlInv
<1>4. ControlInv'
  BY <1>1, <1>2, <1>3 DEF ControlInv
<1>5. LocksExclusive'
  BY <1>2 DEF LocksExclusive
<1>6. BookInv'
  BY <1>1, <1>2, <1>3 DEF BookInv, Booked, Exists, FreshId, Time, Abs!Time
<1>7. InsertInv'
  BY <1>1, <1>2 DEF InsertInv, Booked, FreshId
<1>8. IndexInv'
  BY <1>1, <1>2 DEF IndexInv, Booked, IndexTaken, Exists
<1>9. ChangeInv'
  BY <1>1, <1>2 DEF ChangeInv, Changing, Exists
<1>10. OneActiveBooking'
  BY <1>2 DEF OneActiveBooking, Exists
<1> QED
  BY <1>4, <1>5, <1>6, <1>7, <1>8, <1>9, <1>10

LEMMA BeginChangeStep ==
  ASSUME IInv, NEW w \in Worker, NEW b \in Booking, NEW op \in {"confirm", "cancel"},
         pc[w] = "idle", Exists(b), CanTransition(bookings[b].status, Target[op]),
         Begin(w, [op |-> op, id |-> b, seen |-> bookings[b].status], "update")
  PROVE  SafeInv'
<1> DEFINE r == [op |-> op, id |-> b, seen |-> bookings[b].status]
<1> USE DEF IInv, SafeInv, TypeOK, tables
<1>1. /\ r \in ChangeRequest
      /\ r.op = op /\ r.id = b /\ r.seen = bookings[b].status
      /\ r \notin BookRequest
  BY DEF BookRequest, ChangeRequest, Exists, Abs!BookingRow, Abs!BookingStatus, BookingStatus
<1> HIDE DEF r
<1>2. /\ pc' = [pc EXCEPT ![w] = "update"]
      /\ req' = [req EXCEPT ![w] = r]
      /\ UNCHANGED <<clock, slots, bookings, dirty>>
  BY DEF Begin, Goto, r
<1>3. dirty[w] = {}
  BY DEF ControlInv
<1>4. ControlInv'
  BY <1>1, <1>2, <1>3 DEF ControlInv
<1>5. LocksExclusive'
  BY <1>2 DEF LocksExclusive
<1>6. BookInv'
  BY <1>1, <1>2 DEF BookInv, Booked, Exists
<1>7. InsertInv'
  BY <1>1, <1>2 DEF InsertInv, Booked
<1>8. IndexInv'
  BY <1>1, <1>2 DEF IndexInv, Booked, IndexTaken, Exists
<1>9. ChangeInv'
  BY <1>1, <1>2 DEF ChangeInv, Changing, Exists
<1>10. OneActiveBooking'
  BY <1>2 DEF OneActiveBooking, Exists
<1> QED
  BY <1>4, <1>5, <1>6, <1>7, <1>8, <1>9, <1>10

(* The expired rows match the WHERE clause, and nobody else holds them. *)
LEMMA ExpireStep ==
  ASSUME IInv, NEW w \in Worker, ExpireStale(w)
  PROVE  SafeInv'
<1> DEFINE X == snap[w] \cap StaleOn(w)
<1> USE DEF IInv, SafeInv, TypeOK, tables
<1>1. /\ pc[w] = "expire"
      /\ pc' = [pc EXCEPT ![w] = "insert"]
      /\ dirty' = [dirty EXCEPT ![w] = X]
      /\ UNCHANGED <<clock, slots, bookings, req>>
  BY DEF ExpireStale, Goto
<1>2. /\ \A b \in X : /\ b \in Booking
                     /\ Exists(b)
                     /\ bookings[b].slot = req[w].slot
                     /\ IsStale(bookings[b], req[w].now)
      /\ \A v \in Worker \ {w} : dirty[v] \cap X = {}
  BY DEF ExpireStale, StaleOn, LockedByOther
<1> HIDE DEF X
<1>3. req[w] \in BookRequest /\ req[w] \notin ChangeRequest
  BY <1>1 DEF ControlInv, BookRequest, ChangeRequest
<1>4. ControlInv'
  BY <1>1 DEF ControlInv
<1>5. LocksExclusive'
  BY <1>1, <1>2 DEF LocksExclusive
<1>6. BookInv'
  BY <1>1, <1>2 DEF BookInv, Booked, Exists
<1>7. InsertInv'
  BY <1>1 DEF InsertInv, Booked
<1>8. IndexInv'
  BY <1>1 DEF IndexInv, Booked, IndexTaken, Exists
<1>9. ChangeInv'
  BY <1>1, <1>3 DEF ChangeInv, Changing, Exists
<1>10. OneActiveBooking'
  BY <1>1 DEF OneActiveBooking, Exists
<1> QED
  BY <1>4, <1>5, <1>6, <1>7, <1>8, <1>9, <1>10

(* The unique index lets one insertion into a slot through. *)
LEMMA InsertStep ==
  ASSUME IInv, NEW w \in Worker, InsertBooking(w)
  PROVE  SafeInv'
<1> USE DEF IInv, SafeInv, TypeOK, tables
<1>1. /\ pc[w] = "insert"
      /\ pc' = [pc EXCEPT ![w] = "commit"]
      /\ UNCHANGED <<clock, slots, bookings, req, dirty>>
      /\ ~IndexTaken(w)
  BY DEF InsertBooking, Goto
<1>2. req[w] \in BookRequest /\ req[w] \notin ChangeRequest
  BY <1>1 DEF ControlInv, BookRequest, ChangeRequest
<1>3. \A v \in Worker \ {w} : Booked(v) /\ pc[v] = "commit" => req[v].slot # req[w].slot
  BY DEF InsertBooking, IndexBusy, Inserted, Booked, BookRequest
<1>4. ControlInv'
  BY <1>1, <1>2 DEF ControlInv
<1>5. LocksExclusive'
  BY <1>1 DEF LocksExclusive
<1>6. BookInv'
  BY <1>1 DEF BookInv, Booked, Exists
<1>7. InsertInv'
  BY <1>1, <1>3 DEF InsertInv, Booked
<1>8. IndexInv'
  BY <1>1 DEF IndexInv, Booked, IndexTaken, Exists
<1>9. ChangeInv'
  BY <1>1, <1>2 DEF ChangeInv, Changing, Exists
<1>10. OneActiveBooking'
  BY <1>1 DEF OneActiveBooking, Exists
<1> QED
  BY <1>4, <1>5, <1>6, <1>7, <1>8, <1>9, <1>10

(* The conditional UPDATE that matched: the row has the status that was read. *)
LEMMA UpdateStep ==
  ASSUME IInv, NEW w \in Worker, pc[w] = "update", ~LockedByOther(w, req[w].id),
         bookings[req[w].id].status = req[w].seen,
         dirty' = [dirty EXCEPT ![w] = {req[w].id}],
         Goto(w, "commit"),
         UNCHANGED <<clock, tables, req, snap, reply>>
  PROVE  SafeInv'
<1> USE DEF IInv, SafeInv, TypeOK, tables
<1>1. /\ pc' = [pc EXCEPT ![w] = "commit"]
      /\ UNCHANGED <<clock, slots, bookings, req>>
  BY DEF Goto
<1>2. req[w] \in ChangeRequest /\ req[w] \notin BookRequest /\ req[w].id \in Booking
  BY DEF ControlInv, BookRequest, ChangeRequest
<1>3. \A v \in Worker \ {w} : req[w].id \notin dirty[v]
  BY DEF LockedByOther
<1>4. ControlInv'
  BY <1>1, <1>2 DEF ControlInv
<1>5. LocksExclusive'
  BY <1>1, <1>2, <1>3 DEF LocksExclusive
<1>6. BookInv'
  BY <1>1, <1>2 DEF BookInv, Booked, Exists
<1>7. InsertInv'
  BY <1>1, <1>2 DEF InsertInv, Booked
<1>8. IndexInv'
  BY <1>1, <1>2 DEF IndexInv, Booked, IndexTaken, Exists
<1>9. ChangeInv'
  BY <1>1, <1>2 DEF ChangeInv, Changing, Exists
<1>10. OneActiveBooking'
  BY <1>1 DEF OneActiveBooking, Exists
<1> QED
  BY <1>4, <1>5, <1>6, <1>7, <1>8, <1>9, <1>10

(* The COMMIT of a booking: what was active on its slot is expired. *)
LEMMA CommitBookStep ==
  ASSUME IInv, NEW w \in Worker, CommitBook(w)
  PROVE  SafeInv'
<1> DEFINE n == req[w].id
           s == req[w].slot
<1> USE DEF IInv, SafeInv, TypeOK
<1>1. pc[w] = "commit" /\ req[w] \in BookRequest /\ Booked(w)
  BY OpTarget DEF CommitBook, Inserted, ControlInv, ChangeRequest, Booked
<1>2. n \in Booking /\ s \in Slot
  BY <1>1 DEF BookRequest
<1>3. /\ ~Exists(n)
      /\ \A b \in dirty[w] : Exists(b) /\ bookings[b].slot = s
  BY <1>1 DEF BookInv
<1>4. ~IndexTaken(w)
  BY <1>1 DEF IndexInv
<1>5. /\ pc' = [pc EXCEPT ![w] = "idle"]
      /\ req' = [req EXCEPT ![w] = NoRequest]
      /\ dirty' = [dirty EXCEPT ![w] = {}]
      /\ UNCHANGED <<clock, slots>>
  BY DEF CommitBook, Answer, Goto
<1>6. /\ bookings'[n] # NoRow
      /\ bookings'[n].slot = s
      /\ bookings'[n].status = "pending"
      /\ \A b \in dirty[w] : /\ bookings'[b] # NoRow
                            /\ bookings'[b].slot = s
                            /\ bookings'[b].status = "expired"
      /\ \A b \in Booking \ (dirty[w] \cup {n}) : bookings'[b] = bookings[b]
  <2>1. NewBooking(w) \in Abs!BookingRow
    BY <1>1 DEF NewBooking, BookRequest, Abs!BookingRow, Time, Abs!BookingStatus
  <2>2. NewBooking(w) # NoRow /\ NewBooking(w).slot = s /\ NewBooking(w).status = "pending"
    BY <2>1, BookingServiceAssumption DEF NewBooking
  <2>3. \A b \in dirty[w] : b \in Booking /\ b # n /\ bookings[b] \in Abs!BookingRow
    BY <1>3 DEF Exists
  <2>4. \A b \in dirty[w] : [bookings[b] EXCEPT !.status = "expired"] \in Abs!BookingRow
    BY <2>3 DEF Abs!BookingRow, Abs!BookingStatus
  <2>5. bookings' = [b \in Booking |->
                       IF b = n THEN NewBooking(w)
                       ELSE IF b \in dirty[w] THEN [bookings[b] EXCEPT !.status = "expired"]
                       ELSE bookings[b]]
    BY <1>2 DEF CommitBook, Abs!Moved, Target
  <2>6. \A b \in dirty[w] : bookings'[b] = [bookings[b] EXCEPT !.status = "expired"]
    BY <2>3, <2>5
  <2>7. \A b \in dirty[w] : /\ bookings'[b] # NoRow
                            /\ bookings'[b].slot = s
                            /\ bookings'[b].status = "expired"
    <3> SUFFICES ASSUME NEW b \in dirty[w]
                 PROVE  /\ bookings'[b] # NoRow
                        /\ bookings'[b].slot = s
                        /\ bookings'[b].status = "expired"
      OBVIOUS
    <3>1. bookings[b] \in Abs!BookingRow /\ bookings[b].slot = s
      BY <1>3, <2>3
    <3>2. /\ [bookings[b] EXCEPT !.status = "expired"].slot = s
          /\ [bookings[b] EXCEPT !.status = "expired"].status = "expired"
      BY <3>1 DEF Abs!BookingRow
    <3> QED
      BY <2>4, <2>6, <3>2, BookingServiceAssumption, Zenon
  <2> QED
    BY <1>2, <2>2, <2>5, <2>7, Zenon
<1> HIDE DEF n, s
<1>7. \A b \in Booking : Exists(b)' <=> Exists(b) \/ b = n
  BY <1>2, <1>3, <1>6 DEF Exists
<1>8. ControlInv'
  BY <1>5 DEF ControlInv
<1>9. LocksExclusive'
  BY <1>5 DEF LocksExclusive
<1>10. \A v \in Worker \ {w} : \A b \in dirty[v] :
         b \notin dirty[w] /\ (Exists(b) => b # n /\ bookings'[b] = bookings[b])
  BY <1>3, <1>6 DEF LocksExclusive
<1>11. \A v \in Worker \ {w} : Booked(v) => req[v].id # n
  BY <1>1 DEF InsertInv, n
<1>12. BookInv'
  <2>1. \A v \in Worker : Booked(v)' => v # w /\ Booked(v) /\ req'[v] = req[v] /\ dirty'[v] = dirty[v]
    BY <1>5 DEF Booked
  <2>2. ASSUME NEW v \in Worker, Booked(v)'
        PROVE  /\ ~Exists(req[v].id)'
               /\ \A b \in dirty[v] : Exists(b)' /\ bookings'[b] = bookings[b]
    <3>1. req[v].id \in Booking
      BY <2>1, <2>2 DEF Booked, BookRequest
    <3> QED
      BY <2>1, <2>2, <3>1, <1>7, <1>10, <1>11 DEF BookInv
  <2> QED
    BY <2>1, <2>2, <1>5 DEF BookInv
<1>13. InsertInv'
  BY <1>5 DEF InsertInv, Booked
<1>14. IndexInv'
  <2> SUFFICES ASSUME NEW v \in Worker, Booked(v)', pc'[v] = "commit",
                      NEW b \in Booking, b \notin dirty'[v], Exists(b)',
                      bookings'[b].slot = req'[v].slot, IsActive(bookings'[b])
               PROVE  FALSE
    BY DEF IndexInv, IndexTaken
  <2>1. v # w /\ Booked(v) /\ pc[v] = "commit" /\ req'[v] = req[v] /\ dirty'[v] = dirty[v]
    BY <1>5 DEF Booked
  <2>2. b # n
    BY <2>1, <1>1, <1>6 DEF InsertInv, s
  <2>3. b \notin dirty[w]
    BY <1>6 DEF IsActive, ActiveStatuses
  <2> QED
    BY <2>1, <2>2, <2>3, <1>6, <1>7 DEF IndexInv, IndexTaken, Exists
<1>15. ChangeInv'
  <2>1. \A v \in Worker : Changing(v)' => v # w /\ Changing(v) /\ req'[v] = req[v]
                                           /\ dirty'[v] = dirty[v] /\ pc'[v] = pc[v]
    BY <1>5 DEF Changing
  <2> SUFFICES ASSUME NEW v \in Worker, Changing(v)'
               PROVE  /\ Exists(req[v].id)'
                      /\ CanTransition(req[v].seen, Target[req[v].op])
                      /\ pc[v] = "commit" => /\ dirty[v] = {req[v].id}
                                             /\ bookings'[req[v].id].status = req[v].seen
    BY <2>1 DEF ChangeInv
  <2>2. v # w /\ Changing(v) /\ req[v].id \in Booking /\ Exists(req[v].id)
    BY <2>1 DEF Changing, ChangeRequest, ChangeInv
  <2>3. pc[v] = "commit" => bookings'[req[v].id] = bookings[req[v].id]
    BY <2>2, <1>10 DEF ChangeInv
  <2>4. Exists(req[v].id)'
    BY <2>1, <2>2, <1>7 DEF Exists
  <2>5. /\ CanTransition(req[v].seen, Target[req[v].op])
        /\ pc[v] = "commit" => /\ dirty[v] = {req[v].id}
                               /\ bookings[req[v].id].status = req[v].seen
    BY <2>2 DEF ChangeInv
  <2> QED
    BY <2>3, <2>4, <2>5
<1>16. OneActiveBooking'
  <2> SUFFICES ASSUME NEW a \in Booking, NEW b \in Booking, Exists(a)', Exists(b)',
                      IsActive(bookings'[a]), IsActive(bookings'[b]),
                      bookings'[a].slot = bookings'[b].slot, a # b
               PROVE  FALSE
    BY DEF OneActiveBooking
  <2>1. a \notin dirty[w] /\ b \notin dirty[w]
    BY <1>6 DEF IsActive, ActiveStatuses
  <2>2. a # n /\ b # n
    BY <2>1, <1>4, <1>6, <1>7, Zenon DEF IndexTaken, Exists, s
  <2> QED
    BY <2>1, <2>2, <1>6, <1>7 DEF OneActiveBooking, Exists
<1> QED
  BY <1>8, <1>9, <1>12, <1>13, <1>14, <1>15, <1>16

(* The COMMIT of change_status moves one row, which was locked and active. *)
LEMMA CommitChangeStep ==
  ASSUME IInv, NEW w \in Worker, CommitChange(w)
  PROVE  SafeInv'
<1> DEFINE n == req[w].id
           target == Target[req[w].op]
<1> USE DEF IInv, SafeInv, TypeOK
<1>1. /\ pc[w] = "commit" /\ req[w] \in ChangeRequest /\ Changing(w)
      /\ n \in Booking
      /\ target \in {"confirmed", "cancelled"}
  BY OpTarget DEF CommitChange, ControlInv, BookRequest, ChangeRequest, Changing
<1>2. /\ Exists(n)
      /\ dirty[w] = {n}
      /\ CanTransition(bookings[n].status, target)
  BY <1>1 DEF ChangeInv
<1>3. IsActive(bookings[n])
  <2>1. bookings[n].status \in BookingStatus
    BY <1>1, <1>2 DEF Exists, Abs!BookingRow, Abs!BookingStatus, BookingStatus
  <2> QED
    BY <1>2, <2>1 DEF CanTransition, AllowedTransitions, BookingStatus, IsActive, ActiveStatuses
<1>4. /\ pc' = [pc EXCEPT ![w] = "idle"]
      /\ req' = [req EXCEPT ![w] = NoRequest]
      /\ dirty' = [dirty EXCEPT ![w] = {}]
      /\ UNCHANGED <<clock, slots>>
  BY DEF CommitChange, Answer, Goto
<1>5. /\ bookings'[n] # NoRow
      /\ bookings'[n].slot = bookings[n].slot
      /\ \A b \in Booking \ {n} : bookings'[b] = bookings[b]
  <2>1. bookings[n] \in Abs!BookingRow
    BY <1>1, <1>2 DEF Exists
  <2>2. [bookings[n] EXCEPT !.status = target] \in Abs!BookingRow
    BY <1>1, <2>1 DEF Abs!BookingRow, Abs!BookingStatus
  <2>3. [bookings[n] EXCEPT !.status = target].slot = bookings[n].slot
    BY <2>1 DEF Abs!BookingRow
  <2>4. bookings' = [b \in Booking |-> IF b = n THEN [bookings[b] EXCEPT !.status = target]
                                              ELSE bookings[b]]
    BY <1>2 DEF CommitChange, Abs!Moved
  <2>5. bookings'[n] = [bookings[n] EXCEPT !.status = target]
    BY <1>1, <2>4
  <2>6. \A b \in Booking \ {n} : bookings'[b] = bookings[b]
    BY <2>4
  <2> QED
    BY <2>2, <2>3, <2>5, <2>6, BookingServiceAssumption
<1> HIDE DEF n, target
<1>6. \A b \in Booking : Exists(b)' <=> Exists(b)
  BY <1>2, <1>5 DEF Exists
<1>7. \A v \in Worker \ {w} : \A b \in dirty[v] : b # n /\ bookings'[b] = bookings[b]
  BY <1>1, <1>2, <1>5 DEF LocksExclusive
<1>8. ControlInv'
  BY <1>4 DEF ControlInv
<1>9. LocksExclusive'
  BY <1>4 DEF LocksExclusive
<1>10. BookInv'
  <2>1. \A v \in Worker : Booked(v)' => v # w /\ Booked(v) /\ req'[v] = req[v] /\ dirty'[v] = dirty[v]
    BY <1>4 DEF Booked
  <2>2. ASSUME NEW v \in Worker, Booked(v)'
        PROVE  /\ ~Exists(req[v].id)'
               /\ \A b \in dirty[v] : Exists(b)' /\ bookings'[b] = bookings[b]
    <3>1. req[v].id \in Booking
      BY <2>1, <2>2 DEF Booked, BookRequest
    <3> QED
      BY <2>1, <2>2, <3>1, <1>6, <1>7 DEF BookInv, Exists
  <2> QED
    BY <2>1, <2>2, <1>4 DEF BookInv
<1>11. InsertInv'
  BY <1>4 DEF InsertInv, Booked
<1>12. IndexInv'
  <2> SUFFICES ASSUME NEW v \in Worker, Booked(v)', pc'[v] = "commit",
                      NEW b \in Booking, b \notin dirty'[v], Exists(b)',
                      bookings'[b].slot = req'[v].slot, IsActive(bookings'[b])
               PROVE  FALSE
    BY DEF IndexInv, IndexTaken
  <2>1. v # w /\ Booked(v) /\ pc[v] = "commit" /\ req'[v] = req[v] /\ dirty'[v] = dirty[v]
    BY <1>4 DEF Booked
  <2>2. CASE b = n
    <3>1. n \notin dirty[v]
      BY <2>1, <1>7
    <3> QED
      BY <2>1, <2>2, <3>1, <1>1, <1>2, <1>3, <1>5, Zenon DEF IndexInv, IndexTaken, Exists
  <2>3. CASE b # n
    BY <2>1, <2>3, <1>5, <1>6, Zenon DEF IndexInv, IndexTaken, Exists
  <2> QED
    BY <2>2, <2>3
<1>13. ChangeInv'
  <2>1. \A v \in Worker : Changing(v)' => v # w /\ Changing(v) /\ req'[v] = req[v]
                                           /\ dirty'[v] = dirty[v] /\ pc'[v] = pc[v]
    BY <1>4 DEF Changing
  <2> SUFFICES ASSUME NEW v \in Worker, Changing(v)'
               PROVE  /\ Exists(req[v].id)'
                      /\ CanTransition(req[v].seen, Target[req[v].op])
                      /\ pc[v] = "commit" => /\ dirty[v] = {req[v].id}
                                             /\ bookings'[req[v].id].status = req[v].seen
    BY <2>1 DEF ChangeInv
  <2>2. v # w /\ Changing(v) /\ req[v].id \in Booking /\ Exists(req[v].id)
    BY <2>1 DEF Changing, ChangeRequest, ChangeInv
  <2>3. ASSUME pc[v] = "commit" PROVE bookings'[req[v].id] = bookings[req[v].id]
    <3>1. PICK b \in Booking : b = req[v].id
      BY <2>2
    <3>2. b \in dirty[v]
      BY <2>2, <2>3, <3>1 DEF ChangeInv
    <3> QED
      BY <2>2, <3>1, <3>2, <1>7
  <2>4. Exists(req[v].id)'
    BY <2>1, <2>2, <1>6 DEF Exists
  <2>5. /\ CanTransition(req[v].seen, Target[req[v].op])
        /\ pc[v] = "commit" => /\ dirty[v] = {req[v].id}
                               /\ bookings[req[v].id].status = req[v].seen
    BY <2>2 DEF ChangeInv
  <2> QED
    BY <2>3, <2>4, <2>5
<1>14. OneActiveBooking'
  <2> SUFFICES ASSUME NEW a \in Booking, NEW b \in Booking, Exists(a)', Exists(b)',
                      IsActive(bookings'[a]), IsActive(bookings'[b]),
                      bookings'[a].slot = bookings'[b].slot
               PROVE  a = b
    BY DEF OneActiveBooking
  <2>1. \A x \in {a, b} : /\ Exists(x) /\ IsActive(bookings[x])
                          /\ bookings'[x].slot = bookings[x].slot
    BY <1>2, <1>3, <1>5, <1>6, Zenon DEF Exists
  <2> QED
    BY <2>1 DEF OneActiveBooking
<1> QED
  BY <1>8, <1>9, <1>10, <1>11, <1>12, <1>13, <1>14

(* The clock and new slots leave every request as it was. *)
LEMMA EnvironmentStep ==
  ASSUME IInv, Tick \/ \E s \in Slot, m \in Master, t \in Abs!StartTime : CreateSlot(s, m, t)
  PROVE  SafeInv'
<1> USE DEF IInv, SafeInv, TypeOK, tables
<1>1. /\ UNCHANGED <<bookings, pc, req, dirty>>
      /\ clock' >= clock
      /\ \A s \in Slot : slots[s] # NoRow => slots'[s] = slots[s]
  BY DEF Tick, CreateSlot, Abs!Tick, Abs!CreateSlot, Time, Abs!Time
<1>2. BookInv'
  <2> SUFFICES ASSUME NEW w \in Worker, Booked(w)
               PROVE  /\ req[w].now <= clock'
                      /\ slots'[req[w].slot] = slots[req[w].slot]
    BY <1>1 DEF BookInv, Booked, Exists
  <2>1. req[w].slot \in Slot /\ req[w].now \in Nat /\ req[w].now <= clock
    BY DEF Booked, BookRequest, BookInv, Time, Abs!Time
  <2>2. clock \in Nat /\ clock' \in Nat
    BY DEF Tick, CreateSlot, Abs!Tick, Abs!CreateSlot, Time, Abs!Time
  <2> QED
    BY <1>1, <2>1, <2>2 DEF BookInv
<1> QED
  BY <1>1, <1>2 DEF ControlInv, LocksExclusive, InsertInv, IndexInv, ChangeInv, OneActiveBooking,
                    Booked, Changing, IndexTaken, Exists

LEMMA SafeInvStep ==
  ASSUME IInv, [Next]_vars
  PROVE  SafeInv'
<1>1. CASE UNCHANGED vars
  BY <1>1 DEF IInv, SafeInv, vars, tables, ControlInv, LocksExclusive, BookInv, InsertInv, IndexInv,
              ChangeInv, OneActiveBooking, Booked, Changing, IndexTaken, Exists
<1>2. ASSUME NEW w \in Worker, Receive(w) PROVE SafeInv'
  <2>1. ASSUME NEW s \in Slot, NEW c \in Client, NEW b \in Booking, StartBook(w, s, c, b)
        PROVE  SafeInv'
    BY <2>1, RollbackStep, BeginBookStep DEF StartBook, Replies
  <2>2. ASSUME NEW b \in Booking, NEW op \in {"confirm", "cancel"}, StartChange(w, b, op)
        PROVE  SafeInv'
    BY <2>2, RollbackStep, BeginChangeStep DEF StartChange, Replies
  <2>3. ASSUME NEW b \in Booking, BookingNotFound(w, b) PROVE SafeInv'
    BY <2>3, RollbackStep DEF BookingNotFound, Replies
  <2> QED
    BY <1>2, <2>1, <2>2, <2>3 DEF Receive, StartConfirm, StartCancel
<1>3. ASSUME NEW w \in Worker, Step(w) PROVE SafeInv'
  <2>1. CASE ScanStale(w)
    <3>1. req[w] \in BookRequest /\ req[w] \notin ChangeRequest
      BY <2>1 DEF ScanStale, IInv, SafeInv, ControlInv, BookRequest, ChangeRequest
    <3>2. /\ pc[w] = "scan" /\ pc' = [pc EXCEPT ![w] = "expire"]
          /\ UNCHANGED <<clock, slots, bookings, req, dirty>>
      BY <2>1 DEF ScanStale, Goto, tables
    <3> USE <3>1, <3>2 DEF IInv, SafeInv, TypeOK
    <3>3. ControlInv' /\ LocksExclusive' /\ OneActiveBooking'
      BY DEF ControlInv, LocksExclusive, OneActiveBooking, Exists
    <3>4. BookInv' /\ InsertInv'
      BY DEF BookInv, InsertInv, Booked, Exists
    <3>5. IndexInv' /\ ChangeInv'
      BY DEF IndexInv, ChangeInv, Booked, Changing, IndexTaken, Exists
    <3> QED
      BY <3>3, <3>4, <3>5
  <2>2. CASE InsertRefused(w)
    BY <2>2, RollbackStep DEF InsertRefused, Replies
  <2>3. CASE UpdateStatus(w)
    BY <2>3, UpdateStep, RollbackStep DEF UpdateStatus, Replies
  <2> QED
    BY <1>3, <2>1, <2>2, <2>3, ExpireStep, InsertStep, CommitBookStep, CommitChangeStep DEF Step
<1>4. ASSUME NEW w \in Worker, Abort(w) PROVE SafeInv'
  BY <1>4, RollbackStep DEF Abort, Replies
<1> QED
  BY <1>1, <1>2, <1>3, <1>4, EnvironmentStep DEF Next

-----------------------------------------------------------------------------
(* Theorems. *)

(* The tables, the requests and the locks stay within their types, and the  *)
(* invariant that explains the interleavings holds of every reachable state. *)
THEOREM Invariance == Spec => []IInv
<1>1. Init => IInv
  BY InitTypeOK DEF Init, Abs!Init, IInv, SafeInv, ControlInv, LocksExclusive, BookInv, InsertInv,
     IndexInv, ChangeInv, OneActiveBooking, Booked, Changing, Exists
<1>2. IInv /\ [Next]_vars => IInv'
  BY TypeOKStep, SafeInvStep DEF IInv, SafeInv
<1> QED
  BY <1>1, <1>2, PTL DEF Spec

(* Every variable keeps its type, for any number of workers and bookings. *)
THEOREM TypeCorrect == Spec => []TypeOK
BY Invariance, PTL DEF IInv

(* ADR-0005, for any number of concurrent requests: a slot never has two    *)
(* active bookings.                                                         *)
THEOREM NoDoubleBooking == Spec => []OneActiveBooking
BY Invariance, PTL DEF IInv, SafeInv

(* No circle of lock waits, however many transactions are open: a booking   *)
(* that is inserted waits for nobody; failing that, one that has expired    *)
(* rows of its slot is alone with them; failing that, nothing is locked.    *)
THEOREM LocksNeverDeadlock == Spec => []NoLockDeadlock
<1>1. IInv => NoLockDeadlock
  <2> SUFFICES ASSUME IInv, NEW w \in Worker, pc[w] # "idle"
               PROVE  \E u \in Worker : pc[u] # "idle" /\ ~Waits(u)
    BY DEF NoLockDeadlock
  <2> USE DEF IInv, SafeInv, TypeOK
  <2>1. CASE \E u \in Worker : pc[u] = "commit"
    BY <2>1 DEF Waits
  <2>2. CASE /\ \A u \in Worker : pc[u] # "commit"
             /\ \E u \in Worker : dirty[u] # {}
    <3>1. PICK u \in Worker : dirty[u] # {}
      BY <2>2
    <3>2. \A v \in Worker : dirty[v] # {} => pc[v] = "insert" /\ Booked(v)
      BY <2>2 DEF ControlInv, Booked
    <3>3. PICK a \in dirty[u] : /\ Exists(a) /\ bookings[a].slot = req[u].slot
                               /\ IsActive(bookings[a])
      BY <3>1, <3>2 DEF BookInv, IsStale, IsActive, ActiveStatuses
    <3>4. ASSUME NEW v \in Worker \ {u}, NEW b \in dirty[v], bookings[b].slot = req[u].slot
          PROVE  FALSE
      <4>1. Exists(b) /\ IsActive(bookings[b])
        BY <3>2, <3>4, Zenon DEF BookInv, IsStale, IsActive, ActiveStatuses
      <4>2. a = b
        BY <3>3, <3>4, <4>1 DEF OneActiveBooking
      <4> QED
        BY <3>4, <4>2 DEF LocksExclusive
    <3>5. ~IndexBusy(u)
      BY <2>2, <3>4 DEF IndexBusy, Inserted
    <3> QED
      BY <3>1, <3>2, <3>5 DEF Waits
  <2>3. CASE /\ \A u \in Worker : pc[u] # "commit"
             /\ \A u \in Worker : dirty[u] = {}
    BY <2>3 DEF Waits, LockedByOther, IndexBusy, Inserted
  <2> QED
    BY <2>1, <2>2, <2>3
<1> QED
  BY <1>1, Invariance, PTL

(* Every step of the detailed service is a step of SlotBooking or leaves its *)
(* tables alone: a request takes effect at its COMMIT or not at all.         *)
LEMMA StepRefines ==
  ASSUME IInv, [Next]_vars
  PROVE  [Abs!Next]_(Abs!vars)
<1> USE DEF IInv, SafeInv, TypeOK, tables
<1>1. ASSUME UNCHANGED <<clock, tables>> PROVE UNCHANGED Abs!vars
  BY <1>1 DEF Abs!vars
<1>2. ASSUME NEW w \in Worker, CommitBook(w) PROVE Abs!Next
  <2>1. pc[w] = "commit" /\ req[w] \in BookRequest /\ Booked(w)
    BY <1>2, OpTarget DEF CommitBook, Inserted, ControlInv, ChangeRequest, Booked
  <2>2. /\ req[w].slot \in Slot /\ req[w].id \in Booking
        /\ req[w].client \in Client /\ req[w].now \in Abs!Time
    BY <2>1 DEF BookRequest, Time
  <2>3. Abs!ActiveOn(req[w].slot) = dirty[w]
    <3>1. Abs!ActiveOn(req[w].slot) \subseteq dirty[w]
      BY <2>1 DEF IndexInv, IndexTaken, Abs!ActiveOn, Abs!Exists, Exists, Abs!IsActive, IsActive,
                  Abs!ActiveStatuses, ActiveStatuses
    <3>2. dirty[w] \subseteq Abs!ActiveOn(req[w].slot)
      BY <2>1 DEF BookInv, Abs!ActiveOn, Abs!Exists, Exists, Abs!IsActive, Abs!ActiveStatuses, IsStale
    <3> QED
      BY <3>1, <3>2
  <2>4. \A a \in dirty[w] : Abs!IsStale(bookings[a], req[w].now)
    BY <2>1 DEF BookInv, IsStale, Abs!IsStale
  <2>5. Abs!Book(req[w].slot, req[w].id, req[w].client, req[w].now)
    BY <1>2, <2>1, <2>2, <2>3, <2>4 DEF CommitBook, BookInv, Abs!Book, Abs!Exists, Exists, NewBooking, Target,
                       Abs!EnsureBookable, EnsureBookable
  <2> QED
    BY <2>2, <2>5 DEF Abs!Next
<1>3. ASSUME NEW w \in Worker, CommitChange(w) PROVE Abs!Next
  <2>1. pc[w] = "commit" /\ req[w] \in ChangeRequest /\ Changing(w) /\ req[w].id \in Booking
    BY <1>3, OpTarget DEF CommitChange, ControlInv, BookRequest, ChangeRequest, Changing
  <2>2. /\ Exists(req[w].id)
        /\ dirty[w] = {req[w].id}
        /\ CanTransition(bookings[req[w].id].status, Target[req[w].op])
    BY <2>1 DEF ChangeInv
  <2>3. Target[req[w].op] \in {"confirmed", "cancelled"}
    BY <2>1, OpTarget
  <2>4. Abs!ChangeStatus(req[w].id, Target[req[w].op])
    BY <1>3, <2>2 DEF CommitChange, Abs!ChangeStatus, Abs!Exists, Exists, CanTransition,
                      Abs!CanTransition, AllowedTransitions, Abs!AllowedTransitions
  <2> QED
    BY <2>1, <2>3, <2>4 DEF Abs!Next
<1>4. ASSUME NEW w \in Worker, Receive(w) \/ Abort(w) PROVE UNCHANGED <<clock, tables>>
  BY <1>4 DEF Receive, Abort, StartBook, StartConfirm, StartCancel, StartChange, BookingNotFound,
              Begin, Rollback
<1>5. ASSUME NEW w \in Worker, Step(w) PROVE [Abs!Next]_(Abs!vars)
  BY <1>5, <1>1, <1>2, <1>3 DEF Step, ScanStale, ExpireStale, InsertBooking, InsertRefused,
                                UpdateStatus, Rollback
<1> QED
  BY <1>1, <1>4, <1>5 DEF Next, vars, Tick, CreateSlot, Abs!Next

(* The service as its threads run it implements the service that answers    *)
(* one request at a time: what TLC checks of the small instances.           *)
THEOREM ServiceRefines == Spec => Refinement
<1>1. Init => Abs!Init
  BY DEF Init
<1> QED
  BY <1>1, StepRefines, Invariance, PTL DEF Spec, Refinement, Abs!Spec

(* What one step of SlotBooking may do to a row and to its events. *)
LEMMA RowStep ==
  ASSUME TypeOK, [Abs!Next]_(Abs!vars), NEW b \in Booking
  PROVE  \/ bookings'[b] = bookings[b] /\ outbox'[b] = outbox[b]
         \/ /\ ~Exists(b)
            /\ bookings'[b] # NoRow /\ bookings'[b].status = "pending"
            /\ outbox'[b] = outbox[b]
         \/ /\ Exists(b)
            /\ \E target \in BookingStatus :
                 /\ CanTransition(bookings[b].status, target)
                 /\ bookings'[b] = [bookings[b] EXCEPT !.status = target]
                 /\ outbox'[b] = Append(outbox[b], StatusEvents[target])
                 /\ target = "expired" => bookings[b].created + TTL <= clock
<1> USE DEF TypeOK
<1>1. CASE UNCHANGED <<bookings, outbox>>
  BY <1>1
<1>2. ASSUME NEW s \in Slot, NEW n \in Booking, NEW c \in Client, NEW now \in Abs!Time,
             Abs!Book(s, n, c, now)
      PROVE  \/ bookings'[b] = bookings[b] /\ outbox'[b] = outbox[b]
             \/ /\ ~Exists(b)
                /\ bookings'[b] # NoRow /\ bookings'[b].status = "pending"
                /\ outbox'[b] = outbox[b]
             \/ /\ Exists(b)
                /\ CanTransition(bookings[b].status, "expired")
                /\ bookings'[b] = [bookings[b] EXCEPT !.status = "expired"]
                /\ outbox'[b] = Append(outbox[b], StatusEvents["expired"])
                /\ bookings[b].created + TTL <= clock
  <2> DEFINE row == [slot |-> s, client |-> c, status |-> "pending", created |-> now]
  <2>1. row \in Abs!BookingRow /\ row # NoRow /\ row.status = "pending"
    BY BookingServiceAssumption DEF Abs!BookingRow, Abs!BookingStatus
  <2> HIDE DEF row
  <2>2. /\ n \notin Abs!ActiveOn(s)
        /\ ~Exists(n)
    BY <1>2 DEF Abs!Book, Abs!ActiveOn, Abs!Exists, Exists
  <2>3. CASE b = n
    BY <1>2, <2>1, <2>2, <2>3 DEF Abs!Book, Abs!Moved, Abs!Announced, row
  <2>4. CASE b # n /\ b \in Abs!ActiveOn(s)
    <3>1. Exists(b) /\ bookings[b].status = "pending" /\ bookings[b].created + TTL <= now
      BY <1>2, <2>4 DEF Abs!Book, Abs!ActiveOn, Abs!Exists, Exists, Abs!IsStale
    <3>2. bookings[b].created + TTL <= clock
      <4>1. bookings[b].created \in Nat /\ now \in Nat /\ clock \in Nat
        BY <3>1 DEF Exists, Abs!BookingRow, Time, Abs!Time
      <4> QED
        BY <1>2, <3>1, <4>1, TTLAssumption DEF Abs!Book
    <3>3. CanTransition("pending", "expired")
      BY DEF CanTransition, AllowedTransitions
    <3> QED
      BY <1>2, <2>4, <3>1, <3>2, <3>3
      DEF Abs!Book, Abs!Moved, Abs!Announced, StatusEvents, Abs!StatusEvents
  <2>5. CASE b # n /\ b \notin Abs!ActiveOn(s)
    BY <1>2, <2>5 DEF Abs!Book, Abs!Moved, Abs!Announced
  <2> QED
    BY <2>3, <2>4, <2>5
<1>3. ASSUME NEW n \in Booking, NEW target \in {"confirmed", "cancelled"},
             Abs!ChangeStatus(n, target)
      PROVE  \/ bookings'[b] = bookings[b] /\ outbox'[b] = outbox[b]
             \/ /\ Exists(b)
                /\ CanTransition(bookings[b].status, target)
                /\ bookings'[b] = [bookings[b] EXCEPT !.status = target]
                /\ outbox'[b] = Append(outbox[b], StatusEvents[target])
  BY <1>3 DEF Abs!ChangeStatus, Abs!Exists, Exists, Abs!Moved, Abs!Announced, StatusEvents,
              Abs!StatusEvents, CanTransition, Abs!CanTransition, AllowedTransitions,
              Abs!AllowedTransitions
<1> QED
  BY <1>1, <1>2, <1>3, Zenon DEF Abs!Next, Abs!vars, Abs!Tick, Abs!CreateSlot, BookingStatus

(* Final statuses are final and no move is skipped, in every interleaving. *)
THEOREM OnlyAllowedMoves == Spec => MovesAreAllowed
<1>1. ASSUME IInv, [Next]_vars, NEW b \in Booking, Exists(b), bookings'[b] # bookings[b]
      PROVE  /\ CanTransition(bookings[b].status, bookings'[b].status)
             /\ bookings'[b] = [bookings[b] EXCEPT !.status = bookings'[b].status]
  <2>1. PICK target \in BookingStatus :
          /\ CanTransition(bookings[b].status, target)
          /\ bookings'[b] = [bookings[b] EXCEPT !.status = target]
    BY <1>1, StepRefines, RowStep DEF IInv
  <2>2. bookings[b] \in Abs!BookingRow
    BY <1>1 DEF IInv, TypeOK, Exists
  <2>3. [bookings[b] EXCEPT !.status = target].status = target
    BY <2>2 DEF Abs!BookingRow
  <2> QED
    BY <2>1, <2>3
<1>2. IInv /\ [Next]_vars
      => [\A b \in Booking : Exists(b) /\ bookings'[b] # bookings[b] =>
            /\ CanTransition(bookings[b].status, bookings'[b].status)
            /\ bookings'[b] = [bookings[b] EXCEPT !.status = bookings'[b].status]]_vars
  BY <1>1
<1> QED
  BY <1>2, Invariance, PTL DEF Spec, MovesAreAllowed

(* An unpaid booking keeps its slot for TTL, whatever the other requests do. *)
THEOREM HoldKept == Spec => HoldIsRespected
<1>1. ASSUME IInv, [Next]_vars, NEW b \in Booking, Exists(b),
             bookings[b].status = "pending", bookings'[b].status = "expired"
      PROVE  bookings[b].created + TTL <= clock
  <2>1. PICK target \in BookingStatus :
          /\ bookings'[b] = [bookings[b] EXCEPT !.status = target]
          /\ target = "expired" => bookings[b].created + TTL <= clock
    BY <1>1, StepRefines, RowStep DEF IInv
  <2>2. [bookings[b] EXCEPT !.status = target].status = target
    BY <1>1 DEF IInv, TypeOK, Exists, Abs!BookingRow
  <2> QED
    BY <1>1, <2>1, <2>2
<1>2. IInv /\ [Next]_vars
      => [\A b \in Booking :
            Exists(b) /\ bookings[b].status = "pending" /\ bookings'[b].status = "expired"
            => bookings[b].created + TTL <= clock]_vars
  BY <1>1
<1> QED
  BY <1>2, Invariance, PTL DEF Spec, HoldIsRespected

(* A second event behind a first one. *)
LEMMA AppendPair ==
  ASSUME NEW S, NEW x \in S, NEW y \in S
  PROVE  Append(<<x>>, y) = <<x, y>>
<1>1. /\ <<x>> \in Seq(S) /\ Len(<<x>>) = 1
      /\ <<x, y>> \in Seq(S) /\ Len(<<x, y>>) = 2
  OBVIOUS
<1>2. Append(<<x>>, y) \in Seq(S) /\ Len(Append(<<x>>, y)) = 2
  BY <1>1
<1>3. Append(<<x>>, y)[1] = x /\ Append(<<x>>, y)[2] = y
  BY <1>1
<1>4. \A i \in 1 .. Len(Append(<<x>>, y)) : Append(<<x>>, y)[i] = <<x, y>>[i]
  BY <1>1, <1>2, <1>3
<1> QED
  BY <1>1, <1>2, <1>4, SeqEqual

(* The outbox tells every move of every booking once and in order. *)
THEOREM OutboxComplete == Spec => []OutboxTellsHistory
<1>1. Init => OutboxTellsHistory
  BY DEF Init, Abs!Init, OutboxTellsHistory, Exists
<1>2. IInv /\ OutboxTellsHistory /\ [Next]_vars => OutboxTellsHistory'
  <2> SUFFICES ASSUME IInv, OutboxTellsHistory, [Next]_vars, NEW b \in Booking
               PROVE  LET status == bookings'[b].status
                      IN IF ~Exists(b)' \/ status = "pending" THEN outbox'[b] = <<>>
                         ELSE \/ outbox'[b] = <<StatusEvents[status]>>
                              \/ /\ status = "cancelled"
                                 /\ outbox'[b] = <<"booking.confirmed", "booking.cancelled">>
    BY DEF OutboxTellsHistory
  <2>1. CASE bookings'[b] = bookings[b] /\ outbox'[b] = outbox[b]
    BY <2>1 DEF OutboxTellsHistory, Exists
  <2>2. CASE /\ ~Exists(b)
             /\ bookings'[b] # NoRow /\ bookings'[b].status = "pending"
             /\ outbox'[b] = outbox[b]
    BY <2>2 DEF OutboxTellsHistory, Exists
  <2>3. ASSUME Exists(b), NEW target \in BookingStatus,
               CanTransition(bookings[b].status, target),
               bookings'[b] = [bookings[b] EXCEPT !.status = target],
               outbox'[b] = Append(outbox[b], StatusEvents[target])
        PROVE  LET status == bookings'[b].status
               IN IF ~Exists(b)' \/ status = "pending" THEN outbox'[b] = <<>>
                  ELSE \/ outbox'[b] = <<StatusEvents[status]>>
                       \/ /\ status = "cancelled"
                          /\ outbox'[b] = <<"booking.confirmed", "booking.cancelled">>
    <3>1. bookings[b] \in Abs!BookingRow
      BY <2>3 DEF IInv, TypeOK, Exists
    <3>2. bookings'[b] \in Abs!BookingRow /\ bookings'[b].status = target
      BY <2>3, <3>1 DEF Abs!BookingRow, Abs!BookingStatus, BookingStatus
    <3>3. /\ bookings[b].status \in BookingStatus
          /\ target \in AllowedTransitions[bookings[b].status]
      BY <2>3, <3>1 DEF Abs!BookingRow, Abs!BookingStatus, BookingStatus, CanTransition
    <3>4. CASE bookings[b].status = "pending"
      <4>1. outbox[b] = <<>>
        BY <3>4 DEF OutboxTellsHistory
      <4>2. target \in {"confirmed", "cancelled", "expired"}
        BY <3>3, <3>4 DEF AllowedTransitions
      <4>3. outbox'[b] = <<StatusEvents[target]>>
        BY <2>3, <4>1
      <4> QED
        BY <3>2, <4>2, <4>3, BookingServiceAssumption DEF Exists
    <3>5. CASE bookings[b].status # "pending"
      <4>1. bookings[b].status = "confirmed" /\ target = "cancelled"
        BY <3>3, <3>5 DEF AllowedTransitions, BookingStatus
      <4>2. outbox[b] = <<"booking.confirmed">>
        BY <2>3, <4>1 DEF OutboxTellsHistory, StatusEvents
      <4>3. outbox'[b] = <<"booking.confirmed", "booking.cancelled">>
        <5>1. Append(<<"booking.confirmed">>, "booking.cancelled")
              = <<"booking.confirmed", "booking.cancelled">>
          <6> DEFINE S == {"booking.confirmed", "booking.cancelled"}
          <6>1. "booking.confirmed" \in S /\ "booking.cancelled" \in S
            OBVIOUS
          <6> QED
            BY <6>1, AppendPair
        <5> QED
          BY <2>3, <4>1, <4>2, <5>1 DEF StatusEvents
      <4> QED
        BY <3>2, <4>1, <4>3, BookingServiceAssumption DEF Exists
    <3> QED
      BY <3>4, <3>5
  <2> QED
    BY <2>1, <2>2, <2>3, StepRefines, RowStep DEF IInv
<1> QED
  BY <1>1, <1>2, Invariance, PTL DEF Spec

(* At one and the same moment the reader and the writer judge a row alike:  *)
(* an active booking holds its slot exactly until it may be expired.        *)
LEMMA HoldsUnlessStale ==
  ASSUME NEW row \in Abs!BookingRow, NEW now \in Nat
  PROVE  HoldsSlot(row, now) <=> IsActive(row) /\ ~IsStale(row, now)
<1>1. row.created \in Nat /\ row.status \in BookingStatus
  BY BookingServiceAssumption DEF Abs!BookingRow, Abs!Time, Abs!BookingStatus, BookingStatus
<1>2. row.created + TTL \in Nat
  BY <1>1, TTLAssumption
<1>3. row.created + TTL > now <=> ~(row.created + TTL <= now)
  BY <1>2
<1> QED
  BY <1>1, <1>3 DEF HoldsSlot, IsActive, IsStale, BookingStatus, ActiveStatuses

(* What list_slots shows as available is what book_slot would accept.       *)
THEOREM ListedCanBeBooked == Spec => []ListedIsBookable
<1>1. ASSUME TypeOK PROVE ListedIsBookable
  <2> SUFFICES ASSUME NEW s \in Slot, slots[s] # NoRow
               PROVE  (~\E b \in Booking : /\ Exists(b) /\ bookings[b].slot = s
                                           /\ HoldsSlot(bookings[b], clock))
                      <=> (\A b \in Abs!ActiveOn(s) : IsStale(bookings[b], clock))
    BY DEF ListedIsBookable, Available
  <2>1. clock \in Nat
    BY <1>1, BookingServiceAssumption DEF TypeOK, Time, Abs!Time
  <2>2. \A b \in Booking : Exists(b) =>
          (HoldsSlot(bookings[b], clock) <=> IsActive(bookings[b]) /\ ~IsStale(bookings[b], clock))
    BY <1>1, <2>1, HoldsUnlessStale DEF TypeOK, Exists
  <2>3. Abs!ActiveOn(s) =
          {b \in Booking : Exists(b) /\ bookings[b].slot = s /\ IsActive(bookings[b])}
    BY DEF Abs!ActiveOn, Abs!Exists, Exists, Abs!IsActive, IsActive, Abs!ActiveStatuses,
           ActiveStatuses
  <2> QED
    BY <2>2, <2>3
<1> QED
  BY <1>1, TypeCorrect, PTL
=============================================================================
