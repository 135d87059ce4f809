--------------------------- MODULE BookingService ---------------------------
(***************************************************************************)
(* The booking service as its threads run it against PostgreSQL            *)
(* (services/booking/src/booking/service.py, app.py, models.py).  A worker *)
(* is one request in a transaction of its own; each SQL statement is a     *)
(* step, and steps of different workers interleave.                        *)
(*                                                                         *)
(* READ COMMITTED, as the default engine gives it: a SELECT sees committed *)
(* rows; an UPDATE finds its rows in a snapshot taken when it starts, waits *)
(* for the transaction that has locked one, and then judges the WHERE       *)
(* clause again on the committed row; an INSERT waits for a transaction     *)
(* that may yet free or take its place in the unique index                  *)
(* uq_bookings_active_slot, and fails if the place is taken.                *)
(***************************************************************************)
EXTENDS BookingDomain, Sequences

CONSTANTS Worker,                         \* threads that serve requests
          Slot, Booking, Client, Master,  \* identifiers
          NoRow,                          \* an identifier with no row
          MaxTime                         \* bound: the clock stops here

VARIABLES clock, slots, bookings, outbox, \* see SlotBooking: the clock and the tables
          pc,      \* the statement each worker runs next
          req,     \* the request it serves
          snap,    \* the rows its UPDATE found in its snapshot
          dirty,   \* the rows it has changed and keeps locked
          reply    \* the answer to its last request

tables == <<slots, bookings, outbox>>
vars == <<clock, slots, bookings, outbox, pc, req, snap, dirty, reply>>

Abs == INSTANCE SlotBooking

(* A null is told apart from every row, as SQL tells it. *)
ASSUME BookingServiceAssumption ==
  /\ MaxTime \in Nat
  /\ NoRow \notin Abs!SlotRow
  /\ NoRow \notin Abs!BookingRow

Time == Abs!Time

Exists(b) == bookings[b] # NoRow

(* The status an operation writes into the rows it changes. *)
Target == [book |-> "expired", confirm |-> "confirmed", cancel |-> "cancelled"]

BookRequest == [op : {"book"}, id : Booking, slot : Slot, client : Client, now : Time]
ChangeRequest == [op : {"confirm", "cancel"}, id : Booking, seen : BookingStatus]

NoRequest == [op |-> "none"]

Replies == {"none", "ok", "not_found", "slot_in_past", "slot_already_booked",
            "invalid_transition"}

TypeOK ==
  /\ clock \in Time
  /\ slots \in [Slot -> Abs!SlotRow \cup {NoRow}]
  /\ bookings \in [Booking -> Abs!BookingRow \cup {NoRow}]
  /\ outbox \in [Booking -> Seq(Abs!BookingEvent)]
  /\ pc \in [Worker -> {"idle", "scan", "expire", "insert", "update", "commit"}]
  /\ req \in [Worker -> BookRequest \cup ChangeRequest \cup {NoRequest}]
  /\ snap \in [Worker -> SUBSET Booking]
  /\ dirty \in [Worker -> SUBSET Booking]
  /\ reply \in [Worker -> Replies]

Init ==
  /\ Abs!Init
  /\ pc = [w \in Worker |-> "idle"]
  /\ req = [w \in Worker |-> NoRequest]
  /\ snap = [w \in Worker |-> {}]
  /\ dirty = [w \in Worker |-> {}]
  /\ reply = [w \in Worker |-> "none"]

-----------------------------------------------------------------------------
(* Transactions. *)

Goto(w, label) == pc' = [pc EXCEPT ![w] = label]

(* The end of a request, by commit or rollback: locks are released. *)
Answer(w, r) ==
  /\ Goto(w, "idle")
  /\ req' = [req EXCEPT ![w] = NoRequest]
  /\ snap' = [snap EXCEPT ![w] = {}]
  /\ dirty' = [dirty EXCEPT ![w] = {}]
  /\ reply' = [reply EXCEPT ![w] = r]

(* Mutant: the request is answered and its transaction is left open. *)
RollbackForgotten(w, r) ==
  /\ Goto(w, "idle")
  /\ req' = [req EXCEPT ![w] = NoRequest]
  /\ snap' = [snap EXCEPT ![w] = {}]
  /\ reply' = [reply EXCEPT ![w] = r]
  /\ UNCHANGED <<clock, tables, dirty>>

Rollback(w, r) == Answer(w, r) /\ UNCHANGED <<clock, tables>>

(* A request that goes on to write, starting with the statement `label`. *)
Begin(w, request, label) ==
  /\ Goto(w, label)
  /\ req' = [req EXCEPT ![w] = request]
  /\ reply' = [reply EXCEPT ![w] = "none"]
  /\ UNCHANGED <<clock, tables, snap, dirty>>

LockedByOther(w, b) == \E v \in Worker \ {w} : b \in dirty[v]

(* A row this worker has inserted and not committed. *)
Inserted(w) == pc[w] = "commit" /\ req[w].op = "book"

-----------------------------------------------------------------------------
(* The clock and create_slot (one INSERT, whose checks need no row). *)

Tick ==
  /\ Abs!Tick
  /\ UNCHANGED <<pc, req, snap, dirty, reply>>

CreateSlot(s, m, startsAt) ==
  /\ Abs!CreateSlot(s, m, startsAt)
  /\ UNCHANGED <<pc, req, snap, dirty, reply>>

-----------------------------------------------------------------------------
(* POST /bookings: book_slot. *)

(* uuid7 never repeats: neither a committed id nor one in use. *)
FreshId(b) ==
  /\ ~Exists(b)
  /\ \A w \in Worker : pc[w] # "idle" => req[w].id # b

(* The request reads the clock, then the slot, whose row never changes. *)
StartBook(w, s, c, b) ==
  /\ pc[w] = "idle"
  /\ FreshId(b)
  /\ LET request == [op |-> "book", id |-> b, slot |-> s, client |-> c, now |-> clock]
     IN \/ /\ slots[s] = NoRow
           /\ Rollback(w, "not_found")
        \/ /\ slots[s] # NoRow
           /\ ~EnsureBookable(slots[s].startsAt, clock)
           /\ Rollback(w, "slot_in_past")
        \/ /\ slots[s] # NoRow
           /\ EnsureBookable(slots[s].startsAt, clock)
           /\ Begin(w, request, "scan")

(* UPDATE bookings SET status = 'expired': the rows its snapshot shows ... *)
StaleOn(w) ==
  {b \in Booking : /\ Exists(b)
                   /\ bookings[b].slot = req[w].slot
                   /\ IsStale(bookings[b], req[w].now)}

ScanStale(w) ==
  /\ pc[w] = "scan"
  /\ snap' = [snap EXCEPT ![w] = StaleOn(w)]
  /\ Goto(w, "expire")
  /\ UNCHANGED <<clock, tables, req, dirty, reply>>

(* Mutant: the rows of the snapshot are expired without another look. *)
ExpireSnapshot(w) ==
  /\ pc[w] = "expire"
  /\ \A b \in snap[w] : ~LockedByOther(w, b)
  /\ dirty' = [dirty EXCEPT ![w] = snap[w]]
  /\ Goto(w, "insert")
  /\ UNCHANGED <<clock, tables, req, snap, reply>>

(* ... and, once no other transaction holds them, those that still match. *)
ExpireStale(w) ==
  /\ pc[w] = "expire"
  /\ \A b \in snap[w] : ~LockedByOther(w, b)
  /\ dirty' = [dirty EXCEPT ![w] = snap[w] \cap StaleOn(w)]
  /\ Goto(w, "insert")
  /\ UNCHANGED <<clock, tables, req, snap, reply>>

(* Mutant: "is it free?" looks at committed rows only. *)
IndexNeverBusy(w) == FALSE

(* Another transaction is about to take the slot, or may be freeing it. *)
IndexBusy(w) ==
  \E v \in Worker \ {w} :
    \/ Inserted(v) /\ req[v].slot = req[w].slot
    \/ \E b \in dirty[v] : bookings[b].slot = req[w].slot

(* An active row of the slot that this transaction does not expire itself. *)
IndexTaken(w) ==
  \E b \in Booking \ dirty[w] :
    Exists(b) /\ bookings[b].slot = req[w].slot /\ IsActive(bookings[b])

InsertBooking(w) ==
  /\ pc[w] = "insert"
  /\ ~IndexBusy(w)
  /\ ~IndexTaken(w)
  /\ Goto(w, "commit")
  /\ UNCHANGED <<clock, tables, req, snap, dirty, reply>>

(* IntegrityError: the expirations of this request are rolled back as well. *)
InsertRefused(w) ==
  /\ pc[w] = "insert"
  /\ ~IndexBusy(w)
  /\ IndexTaken(w)
  /\ Rollback(w, "slot_already_booked")

NewBooking(w) ==
  [slot |-> req[w].slot, client |-> req[w].client, status |-> "pending",
   created |-> req[w].now]

(* COMMIT: the new row, the expired rows and their events, together. *)
CommitBook(w) ==
  /\ Inserted(w)
  /\ bookings' = [Abs!Moved(dirty[w], Target["book"]) EXCEPT ![req[w].id] = NewBooking(w)]
  /\ outbox' = Abs!Announced(dirty[w], Target["book"])
  /\ Answer(w, "ok")
  /\ UNCHANGED <<clock, slots>>

-----------------------------------------------------------------------------
(* DELETE /bookings/{id} and POST /internal/bookings/{id}/confirm. *)

Identity == [role : {"client"}, subject : Client] \cup [role : {"master"}, subject : Master]

EnsureOwner(who, row) ==
  who.subject = IF who.role = "client" THEN row.client ELSE slots[row.slot].master

(* change_status reads the row once, and goes on to write only if that read *)
(* allows it.  Repeating what is already done is a success.                 *)
StartChange(w, b, op) ==
  LET current == bookings[b].status
  IN /\ pc[w] = "idle"
     /\ Exists(b)
     /\ \/ /\ current = Target[op]
           /\ Rollback(w, "ok")
        \/ /\ current # Target[op]
           /\ ~CanTransition(current, Target[op])
           /\ Rollback(w, "invalid_transition")
        \/ /\ CanTransition(current, Target[op])
           /\ Begin(w, [op |-> op, id |-> b, seen |-> current], "update")

StartConfirm(w, b) == StartChange(w, b, "confirm")

StartCancel(w, b, who) ==
  /\ Exists(b) => EnsureOwner(who, bookings[b])
  /\ StartChange(w, b, "cancel")

(* No such booking, or one that belongs to somebody else. *)
BookingNotFound(w, b) ==
  /\ pc[w] = "idle"
  /\ \/ ~Exists(b)
     \/ Exists(b) /\ \E who \in Identity : ~EnsureOwner(who, bookings[b])
  /\ Rollback(w, "not_found")

(* Mutant: UPDATE ... WHERE id = :id. *)
UpdateAnyStatus(w) ==
  /\ pc[w] = "update"
  /\ ~LockedByOther(w, req[w].id)
  /\ dirty' = [dirty EXCEPT ![w] = {req[w].id}]
  /\ Goto(w, "commit")
  /\ UNCHANGED <<clock, tables, req, snap, reply>>

(* UPDATE ... WHERE id = :id AND status = :current, after any lock on the row. *)
UpdateStatus(w) ==
  LET b == req[w].id
  IN /\ pc[w] = "update"
     /\ ~LockedByOther(w, b)
     /\ \/ /\ bookings[b].status = req[w].seen
           /\ dirty' = [dirty EXCEPT ![w] = {b}]
           /\ Goto(w, "commit")
           /\ UNCHANGED <<clock, tables, req, snap, reply>>
        \/ /\ bookings[b].status # req[w].seen
           /\ Rollback(w, "invalid_transition")

(* Mutant: the row is committed without its event. *)
CommitChangeSilently(w) ==
  /\ pc[w] = "commit"
  /\ req[w].op \in {"confirm", "cancel"}
  /\ bookings' = Abs!Moved(dirty[w], Target[req[w].op])
  /\ Answer(w, "ok")
  /\ UNCHANGED <<clock, slots, outbox>>

CommitChange(w) ==
  /\ pc[w] = "commit"
  /\ req[w].op \in {"confirm", "cancel"}
  /\ bookings' = Abs!Moved(dirty[w], Target[req[w].op])
  /\ outbox' = Abs!Announced(dirty[w], Target[req[w].op])
  /\ Answer(w, "ok")
  /\ UNCHANGED <<clock, slots>>

-----------------------------------------------------------------------------
(* The thread dies, or its connection does: the server rolls back. *)
Abort(w) ==
  /\ pc[w] # "idle"
  /\ Rollback(w, "none")

Step(w) ==
  \/ ScanStale(w)
  \/ ExpireStale(w)
  \/ InsertBooking(w)
  \/ InsertRefused(w)
  \/ CommitBook(w)
  \/ UpdateStatus(w)
  \/ CommitChange(w)

Receive(w) ==
  \/ \E s \in Slot, c \in Client, b \in Booking : StartBook(w, s, c, b)
  \/ \E b \in Booking : StartConfirm(w, b)
  \/ \E b \in Booking, who \in Identity : StartCancel(w, b, who)
  \/ \E b \in Booking : BookingNotFound(w, b)

Next ==
  \/ Tick
  \/ \E s \in Slot, m \in Master, t \in Abs!StartTime : CreateSlot(s, m, t)
  \/ \E w \in Worker : Receive(w) \/ Step(w) \/ Abort(w)

Spec == Init /\ [][Next]_vars

(* A statement that waits for a lock is woken when the holder ends, and the *)
(* server queues waiters: a worker that can step again and again does.      *)
FairSpec == Spec /\ \A w \in Worker : SF_vars(Step(w))

-----------------------------------------------------------------------------
(* Properties. *)

(* ADR-0005: whatever requests interleave, and whichever of them die, a     *)
(* slot has at most one booking that is pending or confirmed.               *)
OneActiveBooking ==
  \A a, b \in Booking :
    /\ Exists(a) /\ Exists(b)
    /\ IsActive(bookings[a]) /\ IsActive(bookings[b])
    /\ bookings[a].slot = bookings[b].slot
    => a = b

(* ADR-0010: the events of a booking are the moves it has made, in order,   *)
(* each once; none is lost, doubled or left by a transaction that rolled    *)
(* back.                                                                    *)
OutboxTellsHistory ==
  \A b \in Booking :
    LET status == bookings[b].status
    IN IF ~Exists(b) \/ status = "pending" THEN outbox[b] = <<>>
       ELSE \/ outbox[b] = <<StatusEvents[status]>>
            \/ /\ status = "cancelled"
               /\ outbox[b] = <<"booking.confirmed", "booking.cancelled">>

(* Neither concurrent requests nor retries take a booking out of a final    *)
(* status, skip a transition or rewrite another column: the conditional     *)
(* UPDATE of change_status and the WHERE of book_slot see to it.            *)
MovesAreAllowed ==
  [][\A b \in Booking : Exists(b) /\ bookings'[b] # bookings[b] =>
       /\ CanTransition(bookings[b].status, bookings'[b].status)
       /\ bookings'[b] = [bookings[b] EXCEPT !.status = bookings'[b].status]]_vars

(* ADR-0008: an unpaid booking keeps its slot for TTL whatever moment other *)
(* requests took for `now` and however long they ran.                       *)
HoldIsRespected ==
  [][\A b \in Booking :
       Exists(b) /\ bookings[b].status = "pending" /\ bookings'[b].status = "expired"
       => bookings[b].created + TTL <= clock]_vars

(* list_slots: "can be booked right now". *)
Available(s, now) ==
  /\ slots[s] # NoRow
  /\ ~\E b \in Booking : Exists(b) /\ bookings[b].slot = s /\ HoldsSlot(bookings[b], now)
  /\ EnsureBookable(slots[s].startsAt, now)

(* A slot is listed as available exactly when a booking made alone at that  *)
(* moment would be accepted: the reader judges by HoldsSlot, the writer by  *)
(* IsStale and the index, and at the boundary of TTL they must agree.       *)
ListedIsBookable ==
  \A s \in Slot :
    Available(s, clock) <=>
      /\ slots[s] # NoRow
      /\ EnsureBookable(slots[s].startsAt, clock)
      /\ \A b \in Abs!ActiveOn(s) : IsStale(bookings[b], clock)

(* The statement this worker runs next waits for another transaction. *)
Waits(w) ==
  \/ pc[w] = "expire" /\ \E b \in snap[w] : LockedByOther(w, b)
  \/ pc[w] = "update" /\ LockedByOther(w, req[w].id)
  \/ pc[w] = "insert" /\ IndexBusy(w)

(* The row locks of the UPDATEs and the waits of the unique index never     *)
(* close a circle: among the transactions that are open, one can go on.     *)
NoLockDeadlock ==
  (\E w \in Worker : pc[w] # "idle") => \E w \in Worker : pc[w] # "idle" /\ ~Waits(w)

(* Every request is answered, however the others interleave or die. *)
RequestsFinish == \A w \in Worker : pc[w] # "idle" ~> pc[w] = "idle"

(* Each request takes effect at one instant, its COMMIT, as in SlotBooking. *)
Refinement == Abs!Spec
=============================================================================
