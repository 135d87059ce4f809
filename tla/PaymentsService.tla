--------------------------- MODULE PaymentsService ---------------------------
(***************************************************************************)
(* The payments service: the requests booking sends it, the webhooks of    *)
(* the provider PayStub, and the relay that delivers the commands of its   *)
(* outbox (services/payments/src/payments/service.py and relay.py), with   *)
(* PayStub as its contract describes it.                                   *)
(*                                                                         *)
(* A payment is named by its booking: payments.booking_id is unique, and   *)
(* PayStub's idempotency key, the payment id, stands for it one to one.    *)
(* Each statement that another transaction can come between is a step.     *)
(***************************************************************************)
EXTENDS Naturals, Sequences, FiniteSets

CONSTANTS Booking,      \* bookings a payment may be asked for
          Amount,       \* sums of money
          Event,        \* ids of PayStub's events
          Worker,       \* threads that serve requests
          Relay,        \* relay processes
          BatchSize,    \* commands a relay takes at once
          NoRow         \* a booking without a payment, a charge that was not made

VARIABLES payments,     \* table payments
          recorded,     \* table provider_events: the ids
          commands,     \* table outbox_messages, in the order of its ids
          pc, req,      \* the request each worker serves, and where it is
          batch,        \* the open transaction of each relay
          charges,      \* PayStub: the charge of each idempotency key
          refunds,      \* PayStub: the keys it has refunded
          events        \* PayStub: the events it delivers, again and again

tables == <<payments, recorded, commands>>
paystub == <<charges, refunds, events>>
vars == <<tables, pc, req, batch, paystub>>

PaymentStatus == {"pending", "succeeded", "failed"}

AllowedTransitions ==
  [pending |-> {"succeeded", "failed"}, succeeded |-> {}, failed |-> {}]

(* Mutant: reaching the same status again counts as a change. *)
CanTransitionOrRepeat(current, target) ==
  target \in AllowedTransitions[current] \cup {current}

CanTransition(current, target) == target \in AllowedTransitions[current]

EventType == {"charge.succeeded", "charge.failed"}

TargetStatus == [type \in EventType |->
                   IF type = "charge.succeeded" THEN "succeeded" ELSE "failed"]

Payment == [amount : Amount, status : PaymentStatus, charged : BOOLEAN,
            needsRefund : BOOLEAN, refunded : BOOLEAN]
Charge == [amount : Amount, paid : BOOLEAN]
Command == [topic : {"booking.confirm", "payment.refund"}, booking : Booking,
            published : BOOLEAN]
ProviderEvent == [id : Event, type : EventType, booking : Booking]

ASSUME PaymentsServiceAssumption == NoRow \notin Payment \cup Charge

NoRequest == [op |-> "none"]
PayRequest == [op : {"pay"}, booking : Booking, amount : Amount]
Webhook == [op : {"webhook"}, event : ProviderEvent, apply : BOOLEAN]

(* An open batch: commands still to deliver and delivered, refunds asked    *)
(* for, in order, and refunds given; nothing of it is committed.            *)
NoBatch == [todo |-> {}, done |-> {}, rejected |-> <<>>, refunded |-> {}]

TypeOK ==
  /\ payments \in [Booking -> Payment \cup {NoRow}]
  /\ recorded \subseteq Event
  /\ commands \in Seq(Command)
  /\ pc \in [Worker -> {"idle", "charge", "save", "record", "lock", "commit"}]
  /\ req \in [Worker -> PayRequest \cup Webhook \cup {NoRequest}]
  /\ \A r \in Relay : /\ batch[r].todo \cup batch[r].done \subseteq 1 .. Len(commands)
                      /\ batch[r].rejected \in Seq(Booking)
                      /\ batch[r].refunded \subseteq Booking
  /\ charges \in [Booking -> Charge \cup {NoRow}]
  /\ refunds \subseteq Booking
  /\ events \subseteq ProviderEvent

Init ==
  /\ payments = [b \in Booking |-> NoRow]
  /\ recorded = {}
  /\ commands = <<>>
  /\ pc = [w \in Worker |-> "idle"]
  /\ req = [w \in Worker |-> NoRequest]
  /\ batch = [r \in Relay |-> NoBatch]
  /\ charges = [b \in Booking |-> NoRow]
  /\ refunds = {}
  /\ events = {}

-----------------------------------------------------------------------------
(* Requests and row locks. *)

Become(w, label, request) ==
  /\ pc' = [pc EXCEPT ![w] = label]
  /\ req' = [req EXCEPT ![w] = request]

Finish(w) == Become(w, "idle", NoRequest)

(* A webhook locks its payment from the SELECT ... FOR UPDATE to its COMMIT, *)
(* a relay locks the payments its batch has updated.                         *)
LockedByWebhook(b) ==
  \E w \in Worker : pc[w] = "commit" /\ req[w].event.booking = b

LockedByRelay(b) ==
  \E r \in Relay : \/ b \in batch[r].refunded
                   \/ \E i \in DOMAIN batch[r].rejected : batch[r].rejected[i] = b

Locked(b) == LockedByWebhook(b) \/ LockedByRelay(b)

-----------------------------------------------------------------------------
(* POST /payments: create_payment. *)

(* Mutant: a second request may ask for another sum. *)
StartPaymentAnySum(w, b, amount) ==
  /\ pc[w] = "idle"
  /\ payments' = IF payments[b] # NoRow THEN payments
                 ELSE [payments EXCEPT ![b] =
                         [amount |-> amount, status |-> "pending", charged |-> FALSE,
                          needsRefund |-> FALSE, refunded |-> FALSE]]
  /\ Become(w, "charge", [op |-> "pay", booking |-> b, amount |-> amount])
  /\ UNCHANGED <<recorded, commands, batch, paystub>>

(* Mutant: INSERT ... ON CONFLICT DO UPDATE. *)
StartPaymentUpsert(w, b, amount) ==
  /\ pc[w] = "idle"
  /\ payments' = [payments EXCEPT ![b] =
       [amount |-> amount, status |-> "pending", charged |-> FALSE,
        needsRefund |-> FALSE, refunded |-> FALSE]]
  /\ Become(w, "charge", [op |-> "pay", booking |-> b, amount |-> amount])
  /\ UNCHANGED <<recorded, commands, batch, paystub>>

(* INSERT and COMMIT; the unique booking_id lets one insertion through, and *)
(* the others continue with the row they find.                              *)
StartPayment(w, b, amount) ==
  /\ pc[w] = "idle"
  /\ \/ /\ payments[b] = NoRow
        /\ payments' = [payments EXCEPT ![b] =
             [amount |-> amount, status |-> "pending", charged |-> FALSE,
              needsRefund |-> FALSE, refunded |-> FALSE]]
        /\ Become(w, "charge", [op |-> "pay", booking |-> b, amount |-> amount])
     \/ /\ payments[b] # NoRow
        /\ payments[b].amount = amount
        /\ ~payments[b].charged
        /\ Become(w, "charge", [op |-> "pay", booking |-> b, amount |-> amount])
        /\ UNCHANGED payments
     \/ /\ payments[b] # NoRow   \* a conflict, or the payment as it is
        /\ payments[b].amount # amount \/ payments[b].charged
        /\ UNCHANGED <<payments, pc, req>>
  /\ UNCHANGED <<recorded, commands, batch, paystub>>

(* The call of PayStub, outside any transaction.  A key it knows returns    *)
(* the first charge.  The answer comes back, or is lost: 503 to the caller. *)
AskCharge(w, answered) ==
  LET b == req[w].booking
  IN /\ pc[w] = "charge"
     /\ charges' = [charges EXCEPT ![b] =
          IF @ = NoRow THEN [amount |-> req[w].amount, paid |-> FALSE] ELSE @]
     /\ IF answered THEN Become(w, "save", req[w]) ELSE Finish(w)
     /\ UNCHANGED <<tables, batch, refunds, events>>

(* UPDATE ... WHERE provider_charge_id IS NULL, and COMMIT. *)
SaveCharge(w) ==
  LET b == req[w].booking
  IN /\ pc[w] = "save"
     /\ ~Locked(b)
     /\ payments' = [payments EXCEPT ![b].charged = TRUE]
     /\ Finish(w)
     /\ UNCHANGED <<recorded, commands, batch, paystub>>

-----------------------------------------------------------------------------
(* PayStub.  An event says how an attempt to pay a charge ended, under an   *)
(* id of its own, and is delivered at least once, at any later time.  Here  *)
(* a charge may have several, in any order, as the service's tests send     *)
(* them; SlotPayments keeps to one outcome for each charge.                 *)

SettleCharge(b, e, type) ==
  /\ charges[b] # NoRow
  /\ \A x \in events : x.id # e
  /\ charges' = [charges EXCEPT ![b].paid = @ \/ type = "charge.succeeded"]
  /\ events' = events \cup {[id |-> e, type |-> type, booking |-> b]}
  /\ UNCHANGED <<tables, pc, req, batch, refunds>>

-----------------------------------------------------------------------------
(* POST /webhooks/paystub: handle_webhook.  Events of other types are       *)
(* acknowledged before anything is read.                                    *)

StartWebhook(w, e) ==
  /\ pc[w] = "idle"
  /\ Become(w, "record", [op |-> "webhook", event |-> e, apply |-> FALSE])
  /\ UNCHANGED <<tables, batch, paystub>>

(* An uncommitted row with the same event id. *)
BeingRecorded(w) ==
  \E v \in Worker \ {w} : pc[v] \in {"lock", "commit"} /\ req[v].event.id = req[w].event.id

(* Mutant: the event id is committed before the event is applied. *)
RecordEventFirst(w) ==
  /\ pc[w] = "record"
  /\ IF req[w].event.id \in recorded THEN Finish(w) ELSE Become(w, "lock", req[w])
  /\ recorded' = recorded \cup {req[w].event.id}
  /\ UNCHANGED <<payments, commands, batch, paystub>>

(* INSERT ... ON CONFLICT DO NOTHING: waits for a concurrent duplicate. *)
RecordEvent(w) ==
  /\ pc[w] = "record"
  /\ ~BeingRecorded(w)
  /\ IF req[w].event.id \in recorded THEN Finish(w) ELSE Become(w, "lock", req[w])
  /\ UNCHANGED <<tables, batch, paystub>>

(* Mutant: SELECT without FOR UPDATE. *)
ReadPayment(w) ==
  LET e == req[w].event
  IN /\ pc[w] = "lock"
     /\ Become(w, "commit",
          [req[w] EXCEPT !.apply = /\ payments[e.booking] # NoRow
                                   /\ CanTransition(payments[e.booking].status,
                                                    TargetStatus[e.type])])
     /\ UNCHANGED <<tables, batch, paystub>>

(* SELECT ... FOR UPDATE: the status read here stays until the COMMIT. *)
LockPayment(w) ==
  LET e == req[w].event
  IN /\ pc[w] = "lock"
     /\ ~Locked(e.booking)
     /\ Become(w, "commit",
          [req[w] EXCEPT !.apply = /\ payments[e.booking] # NoRow
                                   /\ CanTransition(payments[e.booking].status,
                                                    TargetStatus[e.type])])
     /\ UNCHANGED <<tables, batch, paystub>>

NewCommand(topic, b) == [topic |-> topic, booking |-> b, published |-> FALSE]

(* Mutant: any outcome of a charge confirms the booking. *)
CommitWebhookConfirming(w) ==
  LET e == req[w].event
  IN /\ pc[w] = "commit"
     /\ recorded' = recorded \cup {e.id}
     /\ IF req[w].apply
        THEN /\ payments' = [payments EXCEPT ![e.booking].status = TargetStatus[e.type]]
             /\ commands' = Append(commands, NewCommand("booking.confirm", e.booking))
        ELSE UNCHANGED <<payments, commands>>
     /\ Finish(w)
     /\ UNCHANGED <<batch, paystub>>

(* COMMIT: the event, the status and the command, or the event alone. *)
CommitWebhook(w) ==
  LET e == req[w].event
      target == TargetStatus[e.type]
  IN /\ pc[w] = "commit"
     /\ recorded' = recorded \cup {e.id}
     /\ payments' = IF req[w].apply THEN [payments EXCEPT ![e.booking].status = target]
                    ELSE payments
     /\ commands' = IF req[w].apply /\ target = "succeeded"
                    THEN Append(commands, NewCommand("booking.confirm", e.booking))
                    ELSE commands
     /\ Finish(w)
     /\ UNCHANGED <<batch, paystub>>

(* The thread dies or a call fails before PayStub acts: a rollback. *)
Abort(w) ==
  /\ pc[w] # "idle"
  /\ Finish(w)
  /\ UNCHANGED <<tables, batch, paystub>>

-----------------------------------------------------------------------------
(* The relay: process_pending. *)

(* Mutant: SELECT without FOR UPDATE SKIP LOCKED. *)
NeverLocked(r, i) == FALSE

LockedByOther(r, i) == \E q \in Relay \ {r} : i \in batch[q].todo \cup batch[q].done

Idle(r) == batch[r] = NoBatch

(* SELECT ... ORDER BY id LIMIT FOR UPDATE SKIP LOCKED. *)
Unpublished(r) ==
  {i \in DOMAIN commands : ~commands[i].published /\ ~LockedByOther(r, i)}

TakeBatch(r) ==
  /\ Idle(r)
  /\ Unpublished(r) # {}
  /\ batch' = [batch EXCEPT ![r].todo =
       {i \in Unpublished(r) : Cardinality({j \in Unpublished(r) : j < i}) < BatchSize}]
  /\ UNCHANGED <<tables, pc, req, paystub>>

(* The command the relay delivers now. *)
Current(r) == CHOOSE i \in batch[r].todo : \A j \in batch[r].todo : i <= j

Delivering(r, topic) == batch[r].todo # {} /\ commands[Current(r)].topic = topic

(* `published_at = now`, in the open transaction. *)
Done(r, changed) ==
  batch' = [batch EXCEPT ![r] = [changed EXCEPT !.todo = @ \ {Current(r)},
                                                !.done = @ \cup {Current(r)}]]

(* Booking has confirmed, now or before. *)
ConfirmAccepted(r) ==
  /\ Delivering(r, "booking.confirm")
  /\ Done(r, batch[r])
  /\ UNCHANGED <<tables, pc, req, paystub>>

(* Mutant: a refusal counts as delivered. *)
ConfirmRejectedIgnored(r) ==
  /\ Delivering(r, "booking.confirm")
  /\ Done(r, batch[r])
  /\ UNCHANGED <<tables, pc, req, paystub>>

(* Mutant: the refund is made on the spot. *)
ConfirmRejectedAtOnce(r) ==
  LET b == commands[Current(r)].booking
  IN /\ Delivering(r, "booking.confirm")
     /\ ~LockedByWebhook(b)
     /\ refunds' = refunds \cup {b}
     /\ Done(r, [batch[r] EXCEPT !.rejected = Append(@, b)])
     /\ UNCHANGED <<tables, pc, req, charges, events>>

(* Booking answers 409: the payment needs a refund, and a command for it. *)
ConfirmRejected(r) ==
  LET b == commands[Current(r)].booking
  IN /\ Delivering(r, "booking.confirm")
     /\ ~LockedByWebhook(b)
     /\ Done(r, [batch[r] EXCEPT !.rejected = Append(@, b)])
     /\ UNCHANGED <<tables, pc, req, paystub>>

(* PayStub gives the money back, once for a key however often it is asked;  *)
(* a payment that is refunded already needs no call.                        *)
Refund(r) ==
  LET b == commands[Current(r)].booking
      returned == IF payments[b].refunded THEN {} ELSE {b}
  IN /\ Delivering(r, "payment.refund")
     /\ payments[b].charged
     /\ ~LockedByWebhook(b)
     /\ refunds' = refunds \cup returned
     /\ Done(r, [batch[r] EXCEPT !.refunded = @ \cup returned])
     /\ UNCHANGED <<tables, pc, req, charges, events>>

(* The relay dies, or a delivery raises: a neighbour is unavailable, or a   *)
(* refund has no charge to give back.  The whole batch is rolled back, what *)
(* was delivered included (the attempts counter is left out).               *)
RollbackBatch(r) ==
  /\ ~Idle(r)
  /\ batch' = [batch EXCEPT ![r] = NoBatch]
  /\ UNCHANGED <<tables, pc, req, paystub>>

(* PayStub has given the money back, and the answer is lost. *)
RefundUnanswered(r) ==
  LET b == commands[Current(r)].booking
  IN /\ Delivering(r, "payment.refund")
     /\ payments[b].charged
     /\ ~payments[b].refunded
     /\ refunds' = refunds \cup {b}
     /\ batch' = [batch EXCEPT ![r] = NoBatch]
     /\ UNCHANGED <<tables, pc, req, charges, events>>

RefundCommands(r) ==
  [i \in DOMAIN batch[r].rejected |-> NewCommand("payment.refund", batch[r].rejected[i])]

Rejected(r) == {batch[r].rejected[i] : i \in DOMAIN batch[r].rejected}

(* Mutant: a refunded payment still says that it needs a refund. *)
CommitBatchStillNeeded(r) ==
  /\ batch[r].todo = {}
  /\ batch[r].done # {}
  /\ commands' = [i \in DOMAIN commands |->
                    [commands[i] EXCEPT !.published = @ \/ i \in batch[r].done]]
                 \o RefundCommands(r)
  /\ payments' = [b \in Booking |->
       IF b \in batch[r].refunded THEN [payments[b] EXCEPT !.refunded = TRUE]
       ELSE IF b \in Rejected(r) THEN [payments[b] EXCEPT !.needsRefund = TRUE]
       ELSE payments[b]]
  /\ batch' = [batch EXCEPT ![r] = NoBatch]
  /\ UNCHANGED <<recorded, pc, req, paystub>>

CommitBatch(r) ==
  /\ batch[r].todo = {}
  /\ batch[r].done # {}
  /\ commands' = [i \in DOMAIN commands |->
                    [commands[i] EXCEPT !.published = @ \/ i \in batch[r].done]]
                 \o RefundCommands(r)
  /\ payments' = [b \in Booking |->
       IF b \in batch[r].refunded
       THEN [payments[b] EXCEPT !.needsRefund = FALSE, !.refunded = TRUE]
       ELSE IF b \in Rejected(r) THEN [payments[b] EXCEPT !.needsRefund = TRUE]
       ELSE payments[b]]
  /\ batch' = [batch EXCEPT ![r] = NoBatch]
  /\ UNCHANGED <<recorded, pc, req, paystub>>

-----------------------------------------------------------------------------
WorkerStep(w) ==
  \/ \E answered \in BOOLEAN : AskCharge(w, answered)
  \/ SaveCharge(w)
  \/ RecordEvent(w)
  \/ LockPayment(w)
  \/ CommitWebhook(w)
  \/ Abort(w)

RelayStep(r) ==
  \/ TakeBatch(r)
  \/ Refund(r)
  \/ RefundUnanswered(r)
  \/ RollbackBatch(r)
  \/ CommitBatch(r)

(* Booking is free to accept or refuse a confirmation: SlotPayments says    *)
(* when it does.                                                            *)
Next ==
  \/ \E w \in Worker, b \in Booking, a \in Amount : StartPayment(w, b, a)
  \/ \E w \in Worker, e \in events : StartWebhook(w, e)
  \/ \E w \in Worker : WorkerStep(w)
  \/ \E r \in Relay : RelayStep(r) \/ ConfirmAccepted(r) \/ ConfirmRejected(r)
  \/ \E b \in Booking, e \in Event, type \in EventType : SettleCharge(b, e, type)

Spec == Init /\ [][Next]_vars

-----------------------------------------------------------------------------
(* Properties. *)

CommandsOf(topic, b) ==
  {i \in DOMAIN commands : commands[i].topic = topic /\ commands[i].booking = b}

(* handle_webhook: "the payment is succeeded and the command exists, or     *)
(* neither"; and duplicates, second events, deaths between the statements   *)
(* and two relays never make a second command.                              *)
PaidIffCommanded ==
  \A b \in Booking :
    Cardinality(CommandsOf("booking.confirm", b)) =
      IF payments[b] # NoRow /\ payments[b].status = "succeeded" THEN 1 ELSE 0

(* A payment is marked for a refund exactly while the command to refund it  *)
(* waits, and marked as refunded exactly when it is done: no rollback of a  *)
(* batch, and no redelivery, leaves one without the other.                  *)
RefundTracked ==
  \A b \in Booking : payments[b] # NoRow =>
    LET asked == CommandsOf("payment.refund", b)
    IN /\ Cardinality(asked) <= 1
       /\ payments[b].needsRefund <=> \E i \in asked : ~commands[i].published
       /\ payments[b].refunded <=> \E i \in asked : commands[i].published

(* Money goes back only for a payment that succeeded and whose confirmation *)
(* is over, and what the database calls refunded has gone back at PayStub.  *)
RefundsAreDue ==
  /\ \A b \in refunds :
       /\ payments[b].status = "succeeded"
       /\ \A i \in CommandsOf("booking.confirm", b) : commands[i].published
       /\ CommandsOf("payment.refund", b) # {}
  /\ \A b \in Booking : payments[b] # NoRow /\ payments[b].refunded => b \in refunds

(* ADR-0008: one charge for a booking, of the sum its payment records: a    *)
(* concurrent request with another sum gets 409 before it reaches PayStub.  *)
ChargeMatchesPayment ==
  \A b \in Booking : charges[b] # NoRow =>
    payments[b] # NoRow /\ charges[b].amount = payments[b].amount

(* "Two different events for one payment must not interleave": the first    *)
(* outcome recorded is final, and no other writer undoes it.                *)
OutcomeIsFinal ==
  [][\A b \in Booking : payments[b] # NoRow /\ payments'[b].status # payments[b].status
       => payments[b].status = "pending"]_vars

(* "The row is locked while its command is being delivered, which is what   *)
(* keeps two relays from doing the same thing twice."                       *)
NoSharedCommand ==
  \A q, r \in Relay : q # r =>
    (batch[q].todo \cup batch[q].done) \cap (batch[r].todo \cup batch[r].done) = {}
=============================================================================
