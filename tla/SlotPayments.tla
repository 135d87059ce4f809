---------------------------- MODULE SlotPayments ----------------------------
(***************************************************************************)
(* Bookings and money together: the booking service (as SlotBooking, which *)
(* BookingService implements), the payments service and PayStub, and the   *)
(* two calls between the services.                                         *)
(*                                                                         *)
(*   - booking asks payments to create a payment: pay_for_booking judges   *)
(*     the booking, ends its transaction, and calls; the call may arrive   *)
(*     when the booking has long changed;                                  *)
(*   - the relay of payments asks booking to confirm: change_status reads  *)
(*     the row, later writes it if it has not changed, and answers; the    *)
(*     relay may have given up waiting, and the request still runs.        *)
(***************************************************************************)
EXTENDS PaymentsService

CONSTANTS Slot, Client, Master, TTL, MaxTime,   \* see SlotBooking
          Thread,         \* threads of the booking API that serve confirmations
          NoCall,         \* an idle thread; a relay that waits for no answer
          MaxFaults       \* bound: deaths, timeouts and lost answers in a behaviour

VARIABLES clock, slots, bookings, outbox,       \* the booking service
          payCalls,       \* bookings that passed the check, call not yet arrived
          confirming,     \* the confirmation each thread serves
          waiting,        \* the thread whose answer each relay waits for
          faults          \* faults so far

B == INSTANCE SlotBooking

bookingTables == <<slots, bookings, outbox>>
bookingVars == <<clock, bookingTables>>
calls == <<payCalls, confirming, waiting>>
allVars == <<vars, bookingVars, calls, faults>>

Confirmation == [booking : Booking, seen : B!BookingStatus, answer : {"none", "ok", "rejected"}]

ASSUME SlotPaymentsAssumption ==
  /\ MaxFaults \in Nat
  /\ NoRow \notin B!BookingRow
  /\ NoCall \notin Confirmation \cup Thread

SystemTypeOK ==
  /\ TypeOK
  /\ payCalls \subseteq Booking
  /\ confirming \in [Thread -> Confirmation \cup {NoCall}]
  /\ waiting \in [Relay -> Thread \cup {NoCall}]
  /\ faults \in 0 .. MaxFaults

SystemInit ==
  /\ Init
  /\ B!Init
  /\ payCalls = {}
  /\ confirming = [t \in Thread |-> NoCall]
  /\ waiting = [r \in Relay |-> NoCall]
  /\ faults = 0

Fault == faults < MaxFaults /\ faults' = faults + 1

(* A thread of booking has a confirmation to work on. *)
Serving(t) == confirming[t] # NoCall /\ confirming[t].answer = "none"

-----------------------------------------------------------------------------
(* Booking by itself: time, slots, bookings, cancellations. *)

BookingStep ==
  /\ \/ B!Tick
     \/ \E s \in Slot, m \in Master, t \in B!StartTime : B!CreateSlot(s, m, t)
     \/ \E s \in Slot, b \in Booking, c \in Client, now \in B!Time : B!Book(s, b, c, now)
     \/ \E b \in Booking : B!ChangeStatus(b, "cancelled")
  /\ UNCHANGED <<vars, calls, faults>>

-----------------------------------------------------------------------------
(* POST /bookings/{id}/payment. *)

Payable(b, now) ==
  B!Exists(b) /\ bookings[b].status = "pending" /\ ~B!IsStale(bookings[b], now)

(* get_payable_booking; the transaction ends before the call is made. *)
CheckPayable(b) ==
  /\ Payable(b, clock)
  /\ payCalls' = payCalls \cup {b}
  /\ UNCHANGED <<vars, bookingVars, confirming, waiting, faults>>

PayCallArrives(w, b) ==
  /\ b \in payCalls
  /\ payCalls' = payCalls \ {b}
  /\ \E amount \in Amount : StartPayment(w, b, amount)
  /\ UNCHANGED <<bookingVars, confirming, waiting, faults>>

-----------------------------------------------------------------------------
(* Payments and PayStub by themselves. *)

(* A charge ends once, as its status in the contract does, and is "paid by  *)
(* the customer on the checkout page", whose address the customer has only  *)
(* from a payment that has been saved with its charge.                      *)
PayStubStep ==
  /\ \E b \in Booking, e \in Event, type \in EventType :
       /\ charges[b] # NoRow
       /\ \A x \in events : x.booking # b
       /\ type = "charge.succeeded" => payments[b].charged
       /\ SettleCharge(b, e, type)
  /\ UNCHANGED <<bookingVars, calls, faults>>

WebhookArrives(w, id) ==
  /\ \E e \in events : e.id = id /\ StartWebhook(w, e)
  /\ UNCHANGED <<bookingVars, calls, faults>>

Work(w) ==
  /\ \/ AskCharge(w, TRUE)
     \/ SaveCharge(w)
     \/ RecordEvent(w)
     \/ LockPayment(w)
     \/ CommitWebhook(w)
  /\ UNCHANGED <<bookingVars, calls, faults>>

WorkerFault(w) ==
  /\ Fault
  /\ AskCharge(w, FALSE) \/ Abort(w)
  /\ UNCHANGED <<bookingVars, calls>>

Relaying(r) ==
  /\ waiting[r] = NoCall
  /\ TakeBatch(r) \/ Refund(r) \/ CommitBatch(r)
  /\ UNCHANGED <<bookingVars, calls, faults>>

(* The relay dies, a neighbour is down, or the relay stops waiting; an      *)
(* answer on its way is lost, and a thread at work goes on.                 *)
RelayFault(r) ==
  /\ Fault
  /\ RollbackBatch(r) \/ RefundUnanswered(r)
  /\ confirming' = [t \in Thread |->
       IF waiting[r] = t /\ ~Serving(t) THEN NoCall ELSE confirming[t]]
  /\ waiting' = [waiting EXCEPT ![r] = NoCall]
  /\ UNCHANGED <<bookingVars, payCalls>>

-----------------------------------------------------------------------------
(* POST /internal/bookings/{id}/confirm. *)

(* The request arrives, and its thread reads the row. *)
SendConfirm(r, t) ==
  LET b == commands[Current(r)].booking
  IN /\ Delivering(r, "booking.confirm")
     /\ waiting[r] = NoCall
     /\ confirming[t] = NoCall
     /\ confirming' = [confirming EXCEPT ![t] =
          [booking |-> b, seen |-> bookings[b].status, answer |-> "none"]]
     /\ waiting' = [waiting EXCEPT ![r] = t]
     /\ UNCHANGED <<vars, bookingVars, payCalls, faults>>

(* The thread ends its request; its answer is kept if somebody waits for it. *)
Answer(t, answer) ==
  confirming' = [confirming EXCEPT ![t] =
    IF \E r \in Relay : waiting[r] = t THEN [@ EXCEPT !.answer = answer] ELSE NoCall]

(* What was read already answers the request: a repeat, or no way there. *)
AnswerFromRead(t) ==
  /\ Serving(t)
  /\ \/ confirming[t].seen = "confirmed" /\ Answer(t, "ok")
     \/ /\ confirming[t].seen # "confirmed"
        /\ ~B!CanTransition(confirming[t].seen, "confirmed")
        /\ Answer(t, "rejected")
  /\ UNCHANGED <<vars, bookingVars, payCalls, waiting, faults>>

(* The conditional UPDATE, and COMMIT if the row is as it was read. *)
UpdateBooking(t) ==
  LET b == confirming[t].booking
  IN /\ Serving(t)
     /\ B!CanTransition(confirming[t].seen, "confirmed")
     /\ \/ /\ bookings[b].status = confirming[t].seen
           /\ B!ChangeStatus(b, "confirmed")
           /\ Answer(t, "ok")
        \/ /\ bookings[b].status # confirming[t].seen
           /\ Answer(t, "rejected")
           /\ UNCHANGED bookingVars
     /\ UNCHANGED <<vars, payCalls, waiting, faults>>

(* The thread dies: whoever waits for it can only time out. *)
ThreadFault(t) ==
  /\ Fault
  /\ Serving(t)
  /\ \A r \in Relay : waiting[r] # t
  /\ confirming' = [confirming EXCEPT ![t] = NoCall]
  /\ UNCHANGED <<vars, bookingVars, payCalls, waiting>>

ReceiveAnswer(r) ==
  LET t == waiting[r]
  IN /\ t # NoCall
     /\ \/ confirming[t].answer = "ok" /\ ConfirmAccepted(r)
        \/ confirming[t].answer = "rejected" /\ ConfirmRejected(r)
     /\ confirming' = [confirming EXCEPT ![t] = NoCall]
     /\ waiting' = [waiting EXCEPT ![r] = NoCall]
     /\ UNCHANGED <<bookingVars, payCalls, faults>>

-----------------------------------------------------------------------------
SystemNext ==
  \/ BookingStep
  \/ PayStubStep
  \/ \E b \in Booking : CheckPayable(b)
  \/ \E w \in Worker : \/ \E b \in Booking : PayCallArrives(w, b)
                       \/ \E id \in Event : WebhookArrives(w, id)
                       \/ Work(w)
                       \/ WorkerFault(w)
  \/ \E r \in Relay : \/ Relaying(r)
                      \/ RelayFault(r)
                      \/ ReceiveAnswer(r)
                      \/ \E t \in Thread : SendConfirm(r, t)
  \/ \E t \in Thread : AnswerFromRead(t) \/ UpdateBooking(t) \/ ThreadFault(t)

SystemSpec == SystemInit /\ [][SystemNext]_allVars

(* PayStub retries a webhook until it is answered, and the pool serves every *)
(* request in the end; the relay's loop and the threads of booking never     *)
(* stop for good, and a statement that waits for a lock is woken.  Clients   *)
(* and masters owe nothing: they may never pay, cancel or come back.         *)
SystemFairSpec ==
  /\ SystemSpec
  /\ \A w \in Worker : WF_allVars(Work(w))
  /\ \A id \in Event : SF_allVars(\E w \in Worker : WebhookArrives(w, id))
  /\ \A r \in Relay : /\ WF_allVars(Relaying(r))
                      /\ WF_allVars(ReceiveAnswer(r))
                      /\ SF_allVars(\E t \in Thread : SendConfirm(r, t))
  /\ \A t \in Thread : WF_allVars(AnswerFromRead(t) \/ UpdateBooking(t))

-----------------------------------------------------------------------------
(* Properties. *)

WasConfirmed(b) == \E i \in DOMAIN outbox[b] : outbox[b][i] = "booking.confirmed"

(* Nobody gets a slot for nothing: a booking that was ever confirmed has a   *)
(* payment that succeeded and a charge that PayStub was paid.                *)
ConfirmedMeansPaid ==
  \A b \in Booking : WasConfirmed(b) =>
    /\ payments[b] # NoRow /\ payments[b].status = "succeeded"
    /\ charges[b].paid

(* Nobody pays for nothing: when the confirmation of a booking is delivered, *)
(* either the booking was confirmed or a refund has been asked for, whatever *)
(* answers were lost and whoever took the slot meanwhile.                    *)
KeptMoneyBoughtSlot ==
  \A i \in DOMAIN commands :
    commands[i].topic = "booking.confirm" /\ commands[i].published =>
      WasConfirmed(commands[i].booking)
        \/ CommandsOf("payment.refund", commands[i].booking) # {}

(* relay.py:114 raises for a refund without a charge, and the command would  *)
(* stay at the head of the outbox for ever: it is never reached, because the *)
(* customer can pay only what the payment has on record.                     *)
RefundHasCharge ==
  \A b \in Booking : CommandsOf("payment.refund", b) # {} => payments[b].charged

(* "The client is not getting the slot, so they are getting the money back": *)
(* nobody has both the money and a booking that is confirmed.                *)
RefundMeansNoSlot ==
  \A b \in refunds : bookings[b].status # "confirmed"

(* Money that PayStub has taken buys the slot or goes back, in the end: no   *)
(* death, timeout, lost answer or duplicate leaves it hanging.               *)
MoneySettles ==
  \A b \in Booking :
    charges[b] # NoRow /\ charges[b].paid ~> WasConfirmed(b) \/ b \in refunds
=============================================================================
