------------------------ MODULE SlotPayments_proofs ------------------------
(***************************************************************************)
(* Proofs about PaymentsService, the service on its own, and then about    *)
(* SlotPayments: the whole system is a behaviour of each of its two        *)
(* services, so what is proved of the payments service holds in it.        *)
(***************************************************************************)
EXTENDS SlotPayments, SequenceTheorems, FiniteSetTheorems, TLAPS

-----------------------------------------------------------------------------
(* PaymentsService: the inductive invariant. *)

HasPayment(b) == payments[b] # NoRow

Open == [todo : SUBSET Nat, done : SUBSET Nat, rejected : Seq(Booking),
         refunded : SUBSET Booking]

(* TypeOK, and every open batch is a record. *)
TypeInv == TypeOK /\ batch \in [Relay -> Open]

(* Where a worker is tells which request it serves; one that goes to        *)
(* PayStub asks for the sum on record.                                      *)
ControlInv ==
  \A w \in Worker :
    /\ pc[w] \in {"charge", "save"} =>
         /\ req[w] \in PayRequest
         /\ HasPayment(req[w].booking)
         /\ payments[req[w].booking].amount = req[w].amount
    /\ pc[w] \in {"record", "lock", "commit"} => req[w] \in Webhook

(* The row lock of a webhook: one transaction for a payment, and the status *)
(* it has read is still there.                                              *)
RowLock ==
  \A w \in Worker : pc[w] = "commit" =>
    /\ req[w].apply => /\ HasPayment(req[w].event.booking)
                       /\ payments[req[w].event.booking].status = "pending"
    /\ \A v \in Worker :
         pc[v] = "commit" /\ req[v].event.booking = req[w].event.booking => v = w

(* A booking has at most one command of each topic. *)
OneCommand ==
  \A topic \in {"booking.confirm", "payment.refund"}, b \in Booking :
    \A i, j \in CommandsOf(topic, b) : i = j

(* A payment has a confirmation exactly if it has succeeded. *)
ConfirmInv ==
  \A b \in Booking :
    CommandsOf("booking.confirm", b) # {}
      <=> HasPayment(b) /\ payments[b].status = "succeeded"

(* A refund is asked for only after the confirmation is over, and the       *)
(* marks of the payment tell where the command stands.                      *)
RefundInv ==
  \A b \in Booking :
    LET asked == CommandsOf("payment.refund", b)
    IN /\ asked # {} => \E i \in CommandsOf("booking.confirm", b) : commands[i].published
       /\ HasPayment(b) =>
            /\ payments[b].needsRefund <=> \E i \in asked : ~commands[i].published
            /\ payments[b].refunded <=> \E i \in asked : commands[i].published
            /\ payments[b].refunded => b \in refunds
       /\ b \in refunds => asked # {}

(* What a relay has in hand is not published, each command once; what it    *)
(* has refused and refunded comes from commands it has delivered.           *)
GoodBatch(bt) ==
  /\ bt.todo \cap bt.done = {}
  /\ \A i \in bt.todo \cup bt.done : i \in DOMAIN commands /\ ~commands[i].published
  /\ \A k \in DOMAIN bt.rejected :
       CommandsOf("booking.confirm", bt.rejected[k]) \cap bt.done # {}
  /\ \A k, m \in DOMAIN bt.rejected : bt.rejected[k] = bt.rejected[m] => k = m
  /\ \A b \in bt.refunded :
       b \in refunds /\ CommandsOf("payment.refund", b) \cap bt.done # {}
  /\ \A b \in Booking :
       CommandsOf("payment.refund", b) \cap bt.done # {} => b \in bt.refunded

BatchInv == \A r \in Relay : GoodBatch(batch[r])

SafeInv ==
  /\ ControlInv
  /\ RowLock
  /\ OneCommand
  /\ ConfirmInv
  /\ RefundInv
  /\ BatchInv
  /\ NoSharedCommand
  /\ ChargeMatchesPayment

IInv == TypeInv /\ SafeInv
-----------------------------------------------------------------------------
(* Operators. *)

(* A set of numbers has a least element: the command a relay delivers next. *)
LEMMA LeastElement ==
  ASSUME NEW S \in SUBSET Nat, S # {}
  PROVE  \E i \in S : \A j \in S : i <= j
<1> DEFINE UpTo(i) == {j \in S : j <= i}
           T == {UpTo(i) : i \in S}
<1>1. \A i \in S : UpTo(i) \in FiniteSubsetsOf(Nat)
  <2> TAKE i \in S
  <2>1. IsFiniteSet(UpTo(i))
    <3> HIDE DEF UpTo
    <3>1. UpTo(i) \in SUBSET Nat /\ \A j \in UpTo(i) : j <= i
      BY Zenon DEF UpTo
    <3> QED
      BY <3>1, FS_BoundedSetOfNaturals
  <2> QED
    BY <2>1, Zenon DEF FiniteSubsetsOf
<1>2. T \subseteq FiniteSubsetsOf(Nat) /\ T # {}
  BY <1>1, Zenon
<1>3. PICK U \in T : \A V \in T : <<V, U>> \notin StrictSubsetOrdering(Nat)
  <2> HIDE DEF T
  <2> QED
    BY <1>2, WFMin, FS_StrictSubsetOrderingWellFounded
<1>4. PICK i \in S : U = UpTo(i)
  OBVIOUS
<1>5. ASSUME NEW j \in S, ~(i <= j) PROVE FALSE
  <2>1. /\ i \in Nat /\ j \in Nat /\ j < i
        /\ \A k \in S : k \in Nat
    BY <1>5
  <2>2. /\ UpTo(j) \subseteq UpTo(i)
        /\ i \in UpTo(i) /\ i \notin UpTo(j)
    <3>1. i \in UpTo(i) /\ i \notin UpTo(j)
      BY <2>1
    <3>2. \A k \in S : k <= j => k <= i
      BY <2>1
    <3> QED
      BY <3>1, <3>2, Zenon
  <2>3. <<UpTo(j), UpTo(i)>> \in StrictSubsetOrdering(Nat)
    BY <2>2, Zenon DEF StrictSubsetOrdering
  <2> QED
    BY <2>3, <1>3, <1>4, Zenon
<1> QED
  BY <1>5

(* What a relay delivers is in its batch, and is a command of its topic. *)
LEMMA CurrentCommand ==
  ASSUME TypeInv, NEW r \in Relay, NEW topic, Delivering(r, topic)
  PROVE  /\ Current(r) \in batch[r].todo
         /\ Current(r) \in DOMAIN commands
         /\ commands[Current(r)] \in Command
         /\ commands[Current(r)].booking \in Booking
         /\ Current(r) \in CommandsOf(topic, commands[Current(r)].booking)
<1>1. batch[r].todo \in SUBSET Nat /\ batch[r].todo # {}
  BY DEF TypeInv, Open, Delivering
<1>2. Current(r) \in batch[r].todo
  BY <1>1, LeastElement DEF Current
<1>3. Current(r) \in DOMAIN commands
  BY <1>2 DEF TypeInv, TypeOK
<1>4. commands[Current(r)] \in Command
  BY <1>3, ElementOfSeq DEF TypeInv, TypeOK
<1> QED
  BY <1>2, <1>3, <1>4 DEF Command, CommandsOf, Delivering

(* One command of a batch becomes a delivered one, and the rest stays. *)
LEMMA DoneBatch ==
  ASSUME TypeInv, NEW r \in Relay, NEW c \in batch[r].todo, c = Current(r),
         NEW changed \in Open, Done(r, changed)
  PROVE  /\ batch' \in [Relay -> Open]
         /\ batch'[r].todo = changed.todo \ {c}
         /\ batch'[r].done = changed.done \cup {c}
         /\ batch'[r].rejected = changed.rejected
         /\ batch'[r].refunded = changed.refunded
         /\ \A q \in Relay \ {r} : batch'[q] = batch[q]
<1> DEFINE after == [changed EXCEPT !.todo = @ \ {c}, !.done = @ \cup {c}]
<1>1. c \in Nat
  BY DEF TypeInv, Open
<1>2. /\ after \in Open
      /\ after.todo = changed.todo \ {c}
      /\ after.done = changed.done \cup {c}
      /\ after.rejected = changed.rejected
      /\ after.refunded = changed.refunded
  BY <1>1, Zenon DEF Open
<1>3. batch' = [batch EXCEPT ![r] = after]
  BY DEF Done
<1> HIDE DEF after
<1>4. /\ batch' \in [Relay -> Open]
      /\ batch'[r] = after
      /\ \A q \in Relay \ {r} : batch'[q] = batch[q]
  BY <1>2, <1>3 DEF TypeInv
<1> QED
  BY <1>2, <1>4

(* The commit of a batch publishes what it has delivered, and adds a        *)
(* command to refund for every confirmation that was refused.               *)
LEMMA CommittedCommands ==
  ASSUME TypeInv, NEW r \in Relay, CommitBatch(r)
  PROVE  /\ commands' \in Seq(Command)
         /\ Len(commands') = Len(commands) + Len(batch[r].rejected)
         /\ \A i \in 1 .. Len(commands) :
              commands'[i] = [commands[i] EXCEPT !.published = @ \/ i \in batch[r].done]
         /\ \A k \in 1 .. Len(batch[r].rejected) :
              commands'[Len(commands) + k]
                = NewCommand("payment.refund", batch[r].rejected[k])
<1> DEFINE rejected == batch[r].rejected
           kept == [i \in DOMAIN commands |->
                      [commands[i] EXCEPT !.published = @ \/ i \in batch[r].done]]
<1>1. commands \in Seq(Command) /\ rejected \in Seq(Booking)
  BY DEF TypeInv, TypeOK, Open
<1>2. /\ Len(commands) \in Nat /\ DOMAIN commands = 1 .. Len(commands)
      /\ Len(rejected) \in Nat /\ DOMAIN rejected = 1 .. Len(rejected)
      /\ \A i \in DOMAIN commands : commands[i] \in Command
      /\ \A k \in DOMAIN rejected : rejected[k] \in Booking
  BY <1>1, LenProperties
<1>3. kept \in Seq(Command) /\ Len(kept) = Len(commands)
  <2>1. kept \in [1 .. Len(commands) -> Command]
    BY <1>2, Zenon DEF Command
  <2> QED
    BY <2>1, <1>2
<1>4. RefundCommands(r) \in Seq(Command) /\ Len(RefundCommands(r)) = Len(rejected)
  <2>1. RefundCommands(r) \in [1 .. Len(rejected) -> Command]
    BY <1>2 DEF RefundCommands, NewCommand, Command
  <2> QED
    BY <2>1, <1>2
<1>5. commands' = kept \o RefundCommands(r)
  BY DEF CommitBatch
<1>6. \A i \in 1 .. Len(commands) :
        kept[i] = [commands[i] EXCEPT !.published = @ \/ i \in batch[r].done]
  BY <1>2
<1>7. \A k \in 1 .. Len(rejected) :
        RefundCommands(r)[k] = NewCommand("payment.refund", rejected[k])
  BY <1>2 DEF RefundCommands
<1> HIDE DEF kept, rejected
<1>8. /\ commands' \in Seq(Command)
      /\ Len(commands') = Len(commands) + Len(rejected)
      /\ \A i \in 1 .. Len(commands) + Len(rejected) : commands'[i] =
            IF i <= Len(commands) THEN kept[i] ELSE RefundCommands(r)[i - Len(commands)]
  <2> DEFINE both == kept \o RefundCommands(r)
  <2>1. /\ both \in Seq(Command)
        /\ Len(both) = Len(kept) + Len(RefundCommands(r))
        /\ \A i \in 1 .. Len(kept) + Len(RefundCommands(r)) : both[i] =
              IF i <= Len(kept) THEN kept[i] ELSE RefundCommands(r)[i - Len(kept)]
    BY <1>3, <1>4, ConcatProperties, Zenon
  <2> QED
    BY <2>1, <1>3, <1>4, <1>5
<1>9. \A i \in 1 .. Len(commands) : commands'[i] = kept[i]
  BY <1>2, <1>8
<1>10. ASSUME NEW k \in 1 .. Len(rejected)
       PROVE  commands'[Len(commands) + k] = RefundCommands(r)[k]
  <2>1. /\ Len(commands) + k \in 1 .. Len(commands) + Len(rejected)
        /\ ~(Len(commands) + k <= Len(commands))
        /\ Len(commands) + k - Len(commands) = k
    BY <1>2
  <2> QED
    BY <2>1, <1>8
<1> QED
  BY <1>6, <1>7, <1>8, <1>9, <1>10, Zenon DEF rejected

-----------------------------------------------------------------------------
(* Which steps of the service write its tables.                             *)

LEMMA Writers ==
  ASSUME [Next]_vars
  PROVE  /\ \/ UNCHANGED payments
            \/ \E w \in Worker, a \in Booking, amount \in Amount : StartPayment(w, a, amount)
            \/ \E w \in Worker : SaveCharge(w) \/ CommitWebhook(w)
            \/ \E r \in Relay : CommitBatch(r)
         /\ \/ UNCHANGED commands
            \/ \E w \in Worker : CommitWebhook(w)
            \/ \E r \in Relay : CommitBatch(r)
         /\ \/ UNCHANGED charges
            \/ \E w \in Worker, answered \in BOOLEAN : AskCharge(w, answered)
            \/ \E a \in Booking, e \in Event, type \in EventType : SettleCharge(a, e, type)
<1>1. CASE UNCHANGED vars
  BY <1>1 DEF vars, tables, paystub
<1>2. ASSUME NEW w \in Worker, NEW b \in Booking, NEW a \in Amount, StartPayment(w, b, a)
      PROVE  UNCHANGED <<commands, charges>>
  BY <1>2 DEF StartPayment, paystub
<1>3. ASSUME NEW w \in Worker, NEW e \in events, StartWebhook(w, e)
      PROVE  UNCHANGED <<payments, commands, charges>>
  BY <1>3 DEF StartWebhook, tables, paystub
<1>4. ASSUME NEW w \in Worker, NEW answered \in BOOLEAN, AskCharge(w, answered)
      PROVE  UNCHANGED <<payments, commands>>
  BY <1>4 DEF AskCharge, tables
<1>5. ASSUME NEW w \in Worker, SaveCharge(w)
      PROVE  UNCHANGED <<commands, charges>>
  BY <1>5 DEF SaveCharge, paystub
<1>6. ASSUME NEW w \in Worker, CommitWebhook(w)
      PROVE  UNCHANGED charges
  BY <1>6 DEF CommitWebhook, paystub
<1>7. ASSUME NEW w \in Worker, RecordEvent(w) \/ LockPayment(w) \/ Abort(w)
      PROVE  UNCHANGED <<payments, commands, charges>>
  BY <1>7 DEF RecordEvent, LockPayment, Abort, tables, paystub
<1>8. ASSUME NEW r \in Relay, CommitBatch(r)
      PROVE  UNCHANGED charges
  BY <1>8 DEF CommitBatch, paystub
<1>9. ASSUME NEW r \in Relay,
             \/ TakeBatch(r) \/ Refund(r) \/ RefundUnanswered(r) \/ RollbackBatch(r)
             \/ ConfirmAccepted(r) \/ ConfirmRejected(r)
      PROVE  UNCHANGED <<payments, commands, charges>>
  BY <1>9 DEF TakeBatch, Refund, RefundUnanswered, RollbackBatch, ConfirmAccepted,
              ConfirmRejected, tables, paystub
<1>10. ASSUME NEW b \in Booking, NEW e \in Event, NEW type \in EventType, SettleCharge(b, e, type)
       PROVE  UNCHANGED <<payments, commands>>
  BY <1>10 DEF SettleCharge, tables
<1>11. ASSUME NEW w \in Worker, WorkerStep(w)
       PROVE  \/ \E answered \in BOOLEAN : AskCharge(w, answered)
              \/ SaveCharge(w) \/ CommitWebhook(w)
              \/ UNCHANGED <<payments, commands, charges>>
  BY <1>7, <1>11 DEF WorkerStep
<1>12. ASSUME NEW r \in Relay, RelayStep(r)
       PROVE  CommitBatch(r) \/ UNCHANGED <<payments, commands, charges>>
  BY <1>9, <1>12 DEF RelayStep
<1> QED
  BY <1>1, <1>2, <1>3, <1>4, <1>5, <1>6, <1>8, <1>9, <1>10, <1>11, <1>12 DEF Next

-----------------------------------------------------------------------------
(* Type correctness. *)

LEMMA InitIInv == Init => IInv
<1> SUFFICES ASSUME Init PROVE IInv
  OBVIOUS
<1>1. /\ <<>> \in Seq(Command) /\ <<>> \in Seq(Booking)
      /\ DOMAIN <<>> = {} /\ Len(<<>>) = 0
  OBVIOUS
<1>2. NoBatch \in Open
  BY <1>1 DEF NoBatch, Open
<1>3. TypeInv
  BY <1>1, <1>2, Zenon DEF Init, TypeInv, TypeOK, NoBatch
<1>4. \A topic, b : CommandsOf(topic, b) = {}
  BY <1>1 DEF Init, CommandsOf
<1>5. ControlInv /\ RowLock /\ ChargeMatchesPayment
  BY DEF Init, ControlInv, RowLock, ChargeMatchesPayment
<1>6. OneCommand /\ ConfirmInv /\ RefundInv
  BY <1>4 DEF Init, OneCommand, ConfirmInv, RefundInv, HasPayment
<1>7. BatchInv /\ NoSharedCommand
  BY <1>1 DEF Init, BatchInv, GoodBatch, NoSharedCommand, NoBatch
<1> QED
  BY <1>3, <1>5, <1>6, <1>7 DEF IInv, SafeInv

(* The payments a batch has changed exist and have succeeded, and no batch  *)
(* both refunds and marks one.                                              *)
LEMMA BatchRows ==
  ASSUME IInv, NEW r \in Relay
  PROVE  /\ Rejected(r) \cup batch[r].refunded \subseteq Booking
         /\ \A b \in Rejected(r) \cup batch[r].refunded :
              HasPayment(b) /\ payments[b] \in Payment /\ payments[b].status = "succeeded"
         /\ \A b \in Rejected(r) : CommandsOf("payment.refund", b) = {}
         /\ \A b \in batch[r].refunded : CommandsOf("payment.refund", b) # {}
<1> USE DEF IInv, SafeInv
<1>1. batch[r] \in Open
  BY DEF TypeInv
<1>2. \A k \in DOMAIN batch[r].rejected : batch[r].rejected[k] \in Booking
  BY <1>1, LenProperties DEF Open
<1>3. \A b \in Booking : HasPayment(b) => payments[b] \in Payment
  BY DEF TypeInv, TypeOK, HasPayment
<1>4. ASSUME NEW b \in Rejected(r)
      PROVE  /\ b \in Booking
             /\ HasPayment(b) /\ payments[b].status = "succeeded"
             /\ CommandsOf("payment.refund", b) = {}
  <2>1. PICK k \in DOMAIN batch[r].rejected : b = batch[r].rejected[k]
    BY DEF Rejected
  <2>2. b \in Booking
    BY <1>2, <2>1
  <2>3. PICK i \in CommandsOf("booking.confirm", b) : i \in batch[r].done
    BY <2>1 DEF BatchInv, GoodBatch
  <2>4. ~commands[i].published
    BY <2>3 DEF BatchInv, GoodBatch
  <2>5. CommandsOf("payment.refund", b) = {}
    BY <2>2, <2>3, <2>4 DEF RefundInv, OneCommand
  <2> QED
    BY <2>2, <2>3, <2>5 DEF ConfirmInv
<1>5. ASSUME NEW b \in batch[r].refunded
      PROVE  /\ b \in Booking
             /\ HasPayment(b) /\ payments[b].status = "succeeded"
             /\ CommandsOf("payment.refund", b) # {}
  <2>1. b \in Booking
    BY <1>1 DEF Open
  <2>2. CommandsOf("payment.refund", b) # {}
    BY DEF BatchInv, GoodBatch
  <2>3. CommandsOf("booking.confirm", b) # {}
    BY <2>1, <2>2 DEF RefundInv
  <2> QED
    BY <2>1, <2>2, <2>3 DEF ConfirmInv
<1> QED
  BY <1>3, <1>4, <1>5

LEMMA NewPaymentType ==
  ASSUME NEW amount \in Amount
  PROVE  [amount |-> amount, status |-> "pending", charged |-> FALSE,
          needsRefund |-> FALSE, refunded |-> FALSE] \in Payment
BY DEF Payment, PaymentStatus

LEMMA WorkerTypeStep ==
  ASSUME IInv, NEW w \in Worker,
         \/ \E b \in Booking, amount \in Amount : StartPayment(w, b, amount)
         \/ \E e \in events : StartWebhook(w, e)
         \/ WorkerStep(w)
  PROVE  TypeInv'
<1> USE DEF IInv, SafeInv, TypeInv, TypeOK, tables, paystub
<1>1. ASSUME NEW b \in Booking, NEW amount \in Amount, StartPayment(w, b, amount)
      PROVE  TypeInv'
  <2>1. [op |-> "pay", booking |-> b, amount |-> amount] \in PayRequest
    BY DEF PayRequest
  <2>2. payments' \in [Booking -> Payment \cup {NoRow}]
    BY <1>1, NewPaymentType, Zenon DEF StartPayment
  <2>3. /\ pc' \in [Worker -> {"idle", "charge", "save", "record", "lock", "commit"}]
        /\ req' \in [Worker -> PayRequest \cup Webhook \cup {NoRequest}]
    BY <1>1, <2>1 DEF StartPayment, Become
  <2>4. UNCHANGED <<recorded, commands, batch, paystub>>
    BY <1>1 DEF StartPayment
  <2> QED
    BY <2>2, <2>3, <2>4
<1>2. ASSUME NEW e \in events, StartWebhook(w, e) PROVE TypeInv'
  <2>1. [op |-> "webhook", event |-> e, apply |-> FALSE] \in Webhook
    BY DEF Webhook
  <2> QED
    BY <1>2, <2>1 DEF StartWebhook, Become
<1>4. ASSUME NEW answered \in BOOLEAN, AskCharge(w, answered) PROVE TypeInv'
  <2>1. req[w] \in PayRequest
    BY <1>4 DEF AskCharge, ControlInv
  <2>2. req[w].booking \in Booking /\ [amount |-> req[w].amount, paid |-> FALSE] \in Charge
    BY <2>1 DEF PayRequest, Charge
  <2>3. charges' \in [Booking -> Charge \cup {NoRow}]
    BY <1>4, <2>2 DEF AskCharge
  <2> QED
    BY <1>4, <2>3 DEF AskCharge, Become, Finish
<1>5. CASE SaveCharge(w)
  <2>1. req[w].booking \in Booking /\ payments[req[w].booking] \in Payment
    BY <1>5 DEF SaveCharge, ControlInv, PayRequest, HasPayment
  <2>2. [payments[req[w].booking] EXCEPT !.charged = TRUE] \in Payment
    BY <2>1, Zenon DEF Payment
  <2> QED
    BY <1>5, <2>1, <2>2 DEF SaveCharge, Become, Finish
<1>6. CASE RecordEvent(w)
  BY <1>6, Zenon DEF RecordEvent, Become, Finish
<1>7. CASE LockPayment(w)
  <2>1. req[w] \in Webhook
    BY <1>7 DEF LockPayment, ControlInv
  <2>2. \A a \in BOOLEAN : [req[w] EXCEPT !.apply = a] \in Webhook
    BY <2>1 DEF Webhook
  <2> QED
    BY <1>7, <2>2, Zenon DEF LockPayment, Become, CanTransition
<1>8. CASE CommitWebhook(w)
  <2> DEFINE e == req[w].event
  <2>1. e \in ProviderEvent /\ e.id \in Event /\ e.booking \in Booking
    BY <1>8 DEF CommitWebhook, ControlInv, Webhook, ProviderEvent
  <2>2. TargetStatus[e.type] \in PaymentStatus
    BY <2>1 DEF ProviderEvent, TargetStatus, EventType, PaymentStatus
  <2>3. req[w].apply => [payments[e.booking] EXCEPT !.status = TargetStatus[e.type]] \in Payment
    <3>1. req[w].apply => payments[e.booking] \in Payment
      BY <1>8, <2>1 DEF CommitWebhook, RowLock, HasPayment
    <3> QED
      BY <2>2, <3>1 DEF Payment
  <2>4. NewCommand("booking.confirm", e.booking) \in Command
    BY <2>1 DEF NewCommand, Command
  <2>5. payments' \in [Booking -> Payment \cup {NoRow}]
    BY <1>8, <2>1, <2>3 DEF CommitWebhook
  <2>6. commands' \in Seq(Command) /\ Len(commands') >= Len(commands)
    BY <1>8, <2>4 DEF CommitWebhook
  <2> QED
    BY <1>8, <2>1, <2>5, <2>6 DEF CommitWebhook, Become, Finish
<1>9. CASE Abort(w)
  BY <1>9 DEF Abort, Become, Finish
<1> QED
  BY <1>1, <1>2, <1>4, <1>5, <1>6, <1>7, <1>8, <1>9 DEF WorkerStep

(* What each delivery does to the batch it belongs to. *)
LEMMA Delivery ==
  ASSUME IInv, NEW r \in Relay,
         ConfirmAccepted(r) \/ ConfirmRejected(r) \/ Refund(r)
  PROVE  LET c == Current(r)
             b == commands[c].booking
         IN /\ batch' \in [Relay -> Open]
            /\ \A q \in Relay \ {r} : batch'[q] = batch[q]
            /\ c \in batch[r].todo /\ c \in DOMAIN commands /\ b \in Booking
            /\ batch'[r].todo = batch[r].todo \ {c}
            /\ batch'[r].done = batch[r].done \cup {c}
            /\ \/ /\ ConfirmAccepted(r)
                  /\ c \in CommandsOf("booking.confirm", b)
                  /\ batch'[r].rejected = batch[r].rejected
                  /\ batch'[r].refunded = batch[r].refunded
               \/ /\ ConfirmRejected(r)
                  /\ c \in CommandsOf("booking.confirm", b)
                  /\ batch'[r].rejected = Append(batch[r].rejected, b)
                  /\ batch'[r].refunded = batch[r].refunded
               \/ /\ Refund(r)
                  /\ c \in CommandsOf("payment.refund", b)
                  /\ batch'[r].rejected = batch[r].rejected
                  /\ batch'[r].refunded = batch[r].refunded \cup {b}
<1> DEFINE c == Current(r)
           b == commands[c].booking
<1>1. batch[r] \in Open /\ TypeInv
  BY DEF IInv, TypeInv
<1>2. CASE ConfirmAccepted(r)
  <2>1. Delivering(r, "booking.confirm") /\ Done(r, batch[r])
    BY <1>2 DEF ConfirmAccepted
  <2> QED
    BY <1>1, <1>2, <2>1, CurrentCommand, DoneBatch
<1>3. CASE ConfirmRejected(r)
  <2> DEFINE changed == [batch[r] EXCEPT !.rejected = Append(@, b)]
  <2>1. Delivering(r, "booking.confirm") /\ Done(r, changed)
    BY <1>3 DEF ConfirmRejected
  <2>2. b \in Booking
    BY <1>1, <2>1, CurrentCommand
  <2>3. /\ changed \in Open
        /\ changed.todo = batch[r].todo /\ changed.done = batch[r].done
        /\ changed.rejected = Append(batch[r].rejected, b)
        /\ changed.refunded = batch[r].refunded
    <3>1. Append(batch[r].rejected, b) \in Seq(Booking)
      BY <1>1, <2>2 DEF Open
    <3> QED
      BY <1>1, <3>1, Zenon DEF Open
  <2> HIDE DEF changed
  <2> QED
    BY <1>1, <1>3, <2>1, <2>3, CurrentCommand, DoneBatch
<1>4. CASE Refund(r)
  <2> DEFINE returned == IF payments[b].refunded THEN {} ELSE {b}
             changed == [batch[r] EXCEPT !.refunded = @ \cup returned]
  <2>1. Delivering(r, "payment.refund") /\ Done(r, changed)
    BY <1>4 DEF Refund
  <2>2. b \in Booking /\ c \in CommandsOf("payment.refund", b) /\ c \in batch[r].todo
    BY <1>1, <2>1, CurrentCommand
  <2>3. ~commands[c].published
    BY <2>2 DEF IInv, SafeInv, BatchInv, GoodBatch
  <2>4. HasPayment(b) /\ ~payments[b].refunded
    <3>1. HasPayment(b)
      BY <2>2 DEF IInv, SafeInv, RefundInv, ConfirmInv
    <3>2. \A i \in CommandsOf("payment.refund", b) : i = c
      BY <2>2 DEF IInv, SafeInv, OneCommand
    <3> QED
      BY <2>2, <2>3, <3>1, <3>2 DEF IInv, SafeInv, RefundInv
  <2>5. returned = {b}
    BY <2>4
  <2>6. /\ changed \in Open
        /\ changed.todo = batch[r].todo /\ changed.done = batch[r].done
        /\ changed.rejected = batch[r].rejected
        /\ changed.refunded = batch[r].refunded \cup {b}
    BY <1>1, <2>2, <2>5, Zenon DEF Open
  <2> HIDE DEF changed
  <2> QED
    BY <1>1, <1>4, <2>1, <2>6, CurrentCommand, DoneBatch
<1> QED
  BY <1>2, <1>3, <1>4

LEMMA RelayTypeStep ==
  ASSUME IInv, NEW r \in Relay,
         RelayStep(r) \/ ConfirmAccepted(r) \/ ConfirmRejected(r)
  PROVE  TypeInv'
<1>0. ASSUME ConfirmAccepted(r) \/ ConfirmRejected(r) \/ Refund(r)
      PROVE  /\ commands[Current(r)].booking \in Booking
             /\ batch' \in [Relay -> Open]
             /\ batch'[r].todo \cup batch'[r].done = batch[r].todo \cup batch[r].done
             /\ \A q \in Relay \ {r} : batch'[q] = batch[q]
  BY <1>0, Delivery
<1> USE DEF IInv, TypeInv, TypeOK, tables, paystub
<1>1. NoBatch \in Open
  BY EmptySeq DEF NoBatch, Open
<1>2. CASE TakeBatch(r)
  <2> DEFINE taken == {i \in Unpublished(r) :
                         Cardinality({j \in Unpublished(r) : j < i}) < BatchSize}
  <2>1. taken \subseteq 1 .. Len(commands) /\ taken \subseteq Nat
    BY DEF Unpublished
  <2>2. [batch[r] EXCEPT !.todo = taken] \in Open
    BY <2>1, Zenon DEF Open
  <2>3. batch' \in [Relay -> Open]
    BY <1>2, <2>2 DEF TakeBatch
  <2>4. /\ batch'[r].todo = taken /\ batch'[r].done = batch[r].done
        /\ batch'[r].rejected = batch[r].rejected
        /\ batch'[r].refunded = batch[r].refunded
    BY <1>2 DEF TakeBatch, Open
  <2>5. \A q \in Relay \ {r} : batch'[q] = batch[q]
    BY <1>2 DEF TakeBatch
  <2> HIDE DEF taken
  <2> QED
    BY <1>2, <2>1, <2>3, <2>4, <2>5 DEF TakeBatch
<1>3. CASE ConfirmAccepted(r) \/ ConfirmRejected(r) \/ Refund(r)
  <2>1. refunds' \subseteq Booking /\ UNCHANGED <<tables, pc, req, charges, events>>
    BY <1>3, <1>0 DEF ConfirmAccepted, ConfirmRejected, Refund
  <2>2. /\ batch' \in [Relay -> Open]
        /\ \A q \in Relay : batch'[q].todo \cup batch'[q].done \subseteq 1 .. Len(commands)
    BY <1>3, <1>0
  <2>3. \A q \in Relay : batch'[q].rejected \in Seq(Booking) /\ batch'[q].refunded \subseteq Booking
    BY <2>2 DEF Open
  <2> QED
    BY <2>1, <2>2, <2>3
<1>4. CASE RollbackBatch(r)
  <2>1. /\ batch' \in [Relay -> Open]
        /\ \A q \in Relay : batch'[q] = batch[q] \/ batch'[q] = NoBatch
    BY <1>1, <1>4 DEF RollbackBatch
  <2> QED
    BY <1>4, <2>1 DEF RollbackBatch, NoBatch, Open
<1>5. CASE RefundUnanswered(r)
  <2>1. commands[Current(r)].booking \in Booking
    BY <1>5, CurrentCommand DEF RefundUnanswered
  <2>2. /\ batch' \in [Relay -> Open]
        /\ \A q \in Relay : batch'[q] = batch[q] \/ batch'[q] = NoBatch
    BY <1>1, <1>5 DEF RefundUnanswered
  <2> QED
    BY <1>5, <2>1, <2>2 DEF RefundUnanswered, NoBatch, Open
<1>6. CASE CommitBatch(r)
  <2>1. commands' \in Seq(Command) /\ Len(commands') >= Len(commands)
    <3>1. Len(batch[r].rejected) \in Nat /\ Len(commands) \in Nat
      BY DEF Open
    <3> QED
      BY <3>1, <1>6, CommittedCommands
  <2>2. payments' \in [Booking -> Payment \cup {NoRow}]
    <3>1. \A b \in Rejected(r) \cup batch[r].refunded : payments[b] \in Payment
      BY BatchRows
    <3>2. \A b \in batch[r].refunded :
            [payments[b] EXCEPT !.needsRefund = FALSE, !.refunded = TRUE] \in Payment
      BY <3>1, Zenon DEF Payment
    <3>3. \A b \in Rejected(r) : [payments[b] EXCEPT !.needsRefund = TRUE] \in Payment
      BY <3>1, Zenon DEF Payment
    <3> QED
      BY <1>6, <3>2, <3>3, Zenon DEF CommitBatch
  <2>3. /\ batch' \in [Relay -> Open]
        /\ \A q \in Relay : batch'[q] = batch[q] \/ batch'[q] = NoBatch
    BY <1>1, <1>6, Zenon DEF CommitBatch
  <2>4. \A q \in Relay : batch'[q].todo \cup batch'[q].done \subseteq 1 .. Len(commands')
    <3>1. Len(commands) \in Nat /\ Len(commands') \in Nat
      BY <2>1
    <3> QED
      BY <2>1, <2>3, <3>1 DEF NoBatch
  <2> QED
    BY <1>6, <2>1, <2>2, <2>3, <2>4, Zenon DEF CommitBatch, Open
<1> QED
  BY <1>2, <1>3, <1>4, <1>5, <1>6 DEF RelayStep

LEMMA TypeStep == IInv /\ [Next]_vars => TypeInv'
<1> SUFFICES ASSUME IInv, [Next]_vars PROVE TypeInv'
  OBVIOUS
<1>1. ASSUME NEW b \in Booking, NEW e \in Event, NEW type \in EventType, SettleCharge(b, e, type)
      PROVE  TypeInv'
  <2>1. charges[b] \in Charge
    BY <1>1 DEF SettleCharge, IInv, TypeInv, TypeOK
  <2>2. /\ [charges[b] EXCEPT !.paid = @ \/ type = "charge.succeeded"] \in Charge
        /\ [id |-> e, type |-> type, booking |-> b] \in ProviderEvent
    BY <2>1, Zenon DEF Charge, ProviderEvent
  <2> QED
    BY <1>1, <2>2 DEF SettleCharge, IInv, TypeInv, TypeOK, tables
<1>2. CASE UNCHANGED vars
  BY <1>2 DEF vars, tables, paystub, IInv, TypeInv, TypeOK
<1> QED
  BY <1>1, <1>2, WorkerTypeStep, RelayTypeStep DEF Next

-----------------------------------------------------------------------------
(* Workers. *)

(* What a step can do to a payment: its sum never changes, and its status   *)
(* only at the commit of a webhook that has locked it.                      *)
LEMMA RowStep ==
  ASSUME IInv, [Next]_vars, NEW b \in Booking, HasPayment(b)
  PROVE  /\ payments'[b] # NoRow
         /\ payments'[b].amount = payments[b].amount
         /\ \/ payments'[b].status = payments[b].status
            \/ /\ payments[b].status = "pending"
               /\ \E w \in Worker : /\ pc[w] = "commit" /\ req[w].event.booking = b
                                    /\ pc' = [pc EXCEPT ![w] = "idle"]
<1> DEFINE Kept == /\ payments'[b] # NoRow
                   /\ payments'[b].amount = payments[b].amount
                   /\ payments'[b].status = payments[b].status
<1>1. payments[b] \in Payment /\ payments \in [Booking -> Payment \cup {NoRow}]
  BY DEF HasPayment, IInv, TypeInv, TypeOK
<1>2. \A row \in Payment : row # NoRow
  BY PaymentsServiceAssumption
<1>3. CASE UNCHANGED payments
  BY <1>3 DEF HasPayment
<1>4. ASSUME NEW w \in Worker, NEW a \in Booking, NEW amount \in Amount,
             StartPayment(w, a, amount)
      PROVE  Kept
  BY <1>1, <1>4 DEF StartPayment, HasPayment
<1>5. ASSUME NEW w \in Worker, SaveCharge(w) PROVE Kept
  <2>1. CASE b = req[w].booking
    <3>1. payments'[b] = [payments[b] EXCEPT !.charged = TRUE]
      BY <1>1, <1>5, <2>1, Zenon DEF SaveCharge
    <3>2. payments'[b] \in Payment
      BY <1>1, <3>1, Zenon DEF Payment
    <3> QED
      BY <1>1, <1>2, <3>1, <3>2, Zenon DEF Payment
  <2>2. CASE b # req[w].booking
    BY <1>1, <1>2, <1>5, <2>2 DEF SaveCharge
  <2> QED
    BY <2>1, <2>2
<1>6. ASSUME NEW w \in Worker, CommitWebhook(w), payments' # payments
      PROVE  \/ Kept
             \/ /\ payments'[b] # NoRow
                /\ payments'[b].amount = payments[b].amount
                /\ payments[b].status = "pending"
                /\ pc[w] = "commit" /\ req[w].event.booking = b
                /\ pc' = [pc EXCEPT ![w] = "idle"]
  <2> DEFINE target == TargetStatus[req[w].event.type]
  <2>1. /\ req[w].apply /\ pc[w] = "commit" /\ pc' = [pc EXCEPT ![w] = "idle"]
        /\ payments' = [payments EXCEPT ![req[w].event.booking].status = target]
    BY <1>6 DEF CommitWebhook, Finish, Become
  <2>2. CASE b = req[w].event.booking
    <3>1. payments'[b] = [payments[b] EXCEPT !.status = target]
      BY <1>1, <2>1, <2>2
    <3>2. target \in PaymentStatus
      <4>1. req[w].event.type \in EventType
        BY <2>1 DEF IInv, SafeInv, ControlInv, Webhook, ProviderEvent
      <4> QED
        BY <4>1 DEF TargetStatus, EventType, PaymentStatus
    <3>3. payments'[b] \in Payment /\ payments'[b].amount = payments[b].amount
      BY <1>1, <3>1, <3>2 DEF Payment
    <3>4. payments[b].status = "pending"
      BY <2>1, <2>2 DEF IInv, SafeInv, RowLock
    <3> QED
      BY <1>2, <2>1, <2>2, <3>3, <3>4
  <2>3. CASE b # req[w].event.booking
    BY <1>1, <1>2, <2>1, <2>3
  <2> QED
    BY <2>2, <2>3
<1>7. ASSUME NEW r \in Relay, CommitBatch(r) PROVE Kept
  <2>1. \/ payments'[b] = [payments[b] EXCEPT !.needsRefund = FALSE, !.refunded = TRUE]
        \/ payments'[b] = [payments[b] EXCEPT !.needsRefund = TRUE]
        \/ payments'[b] = payments[b]
    BY <1>7, Zenon DEF CommitBatch
  <2>2. payments'[b] \in Payment
    BY <1>1, <2>1, Zenon DEF Payment
  <2> QED
    BY <1>1, <1>2, <2>1, <2>2, Zenon DEF Payment
<1>8. \/ UNCHANGED payments
      \/ \E w \in Worker, a \in Booking, amount \in Amount : StartPayment(w, a, amount)
      \/ \E w \in Worker : SaveCharge(w) \/ (CommitWebhook(w) /\ payments' # payments)
      \/ \E r \in Relay : CommitBatch(r)
  <2>1. ASSUME NEW w \in Worker, WorkerStep(w), payments' # payments
        PROVE  SaveCharge(w) \/ CommitWebhook(w)
    BY <2>1 DEF WorkerStep, AskCharge, RecordEvent, LockPayment, Abort, tables
  <2>2. ASSUME NEW r \in Relay, RelayStep(r) \/ ConfirmAccepted(r) \/ ConfirmRejected(r),
               payments' # payments
        PROVE  CommitBatch(r)
    BY <2>2 DEF RelayStep, TakeBatch, Refund, RefundUnanswered, RollbackBatch,
                ConfirmAccepted, ConfirmRejected, tables
  <2> QED
    BY <2>1, <2>2, Zenon DEF Next, StartWebhook, SettleCharge, vars, tables
<1> QED
  BY <1>3, <1>4, <1>5, <1>6, <1>7, <1>8

(* Where a step can take a worker. *)
LEMMA WorkerMoves ==
  ASSUME IInv, [Next]_vars, NEW v \in Worker
  PROVE  \/ pc'[v] = pc[v] /\ req'[v] = req[v]
         \/ pc'[v] = "idle"
         \/ /\ pc'[v] = "charge"
            /\ req'[v] \in PayRequest
            /\ payments'[req'[v].booking] # NoRow
            /\ payments'[req'[v].booking].amount = req'[v].amount
         \/ pc[v] = "charge" /\ pc'[v] = "save" /\ req'[v] = req[v]
         \/ pc'[v] = "record" /\ req'[v] \in Webhook
         \/ pc[v] = "record" /\ pc'[v] = "lock" /\ req'[v] = req[v]
         \/ LockPayment(v) /\ pc[v] = "lock" /\ pc'[v] = "commit" /\ req'[v] \in Webhook
<1>1. pc \in [Worker -> {"idle", "charge", "save", "record", "lock", "commit"}]
      /\ req \in [Worker -> PayRequest \cup Webhook \cup {NoRequest}]
      /\ payments \in [Booking -> Payment \cup {NoRow}]
      /\ events \subseteq ProviderEvent
  BY DEF IInv, TypeInv, TypeOK
<1>2. ASSUME NEW w \in Worker, NEW b \in Booking, NEW amount \in Amount,
             StartPayment(w, b, amount), v = w, ~UNCHANGED <<pc, req>>
      PROVE  /\ pc'[v] = "charge"
             /\ req'[v] \in PayRequest
             /\ payments'[req'[v].booking] # NoRow
             /\ payments'[req'[v].booking].amount = req'[v].amount
  <2> DEFINE asked == [op |-> "pay", booking |-> b, amount |-> amount]
             row == [amount |-> amount, status |-> "pending", charged |-> FALSE,
                     needsRefund |-> FALSE, refunded |-> FALSE]
  <2>1. asked \in PayRequest /\ asked.booking = b /\ asked.amount = amount
    BY DEF PayRequest
  <2>2. row # NoRow /\ row.amount = amount
    BY NewPaymentType, PaymentsServiceAssumption
  <2>3. /\ Become(w, "charge", asked)
        /\ \/ payments' = [payments EXCEPT ![b] = row]
           \/ payments' = payments /\ payments[b] # NoRow /\ payments[b].amount = amount
    BY <1>2 DEF StartPayment
  <2>4. pc'[v] = "charge" /\ req'[v] = asked
    BY <1>1, <1>2, <2>3 DEF Become
  <2>5. payments'[b] # NoRow /\ payments'[b].amount = amount
    BY <1>1, <2>2, <2>3
  <2> HIDE DEF asked
  <2> QED
    BY <2>1, <2>4, <2>5 DEF HasPayment
<1>3. ASSUME NEW w \in Worker, NEW b \in Booking, NEW amount \in Amount,
             StartPayment(w, b, amount), v # w
      PROVE  pc'[v] = pc[v] /\ req'[v] = req[v]
  BY <1>1, <1>3 DEF StartPayment, Become
<1>4. ASSUME NEW w \in Worker, NEW e \in events, StartWebhook(w, e)
      PROVE  \/ pc'[v] = pc[v] /\ req'[v] = req[v]
             \/ pc'[v] = "record" /\ req'[v] \in Webhook
  <2>1. [op |-> "webhook", event |-> e, apply |-> FALSE] \in Webhook
    BY <1>1 DEF Webhook
  <2> QED
    BY <1>1, <1>4, <2>1 DEF StartWebhook, Become
<1>5. ASSUME NEW w \in Worker, WorkerStep(w)
      PROVE  \/ pc'[v] = pc[v] /\ req'[v] = req[v]
             \/ pc'[v] = "idle"
             \/ pc[v] = "charge" /\ pc'[v] = "save" /\ req'[v] = req[v]
             \/ pc[v] = "record" /\ pc'[v] = "lock" /\ req'[v] = req[v]
             \/ LockPayment(v) /\ pc[v] = "lock" /\ pc'[v] = "commit" /\ req'[v] \in Webhook
  <2> USE <1>1 DEF Become, Finish
  <2>1. ASSUME NEW answered \in BOOLEAN, AskCharge(w, answered)
        PROVE  \/ pc'[v] = pc[v] /\ req'[v] = req[v]
               \/ pc'[v] = "idle"
               \/ pc[v] = "charge" /\ pc'[v] = "save" /\ req'[v] = req[v]
    BY <2>1 DEF AskCharge
  <2>2. CASE SaveCharge(w) \/ CommitWebhook(w) \/ Abort(w)
    BY <2>2 DEF SaveCharge, CommitWebhook, Abort
  <2>3. CASE RecordEvent(w)
    BY <2>3 DEF RecordEvent
  <2>4. CASE LockPayment(w)
    <3>1. req[w] \in Webhook
      BY <2>4 DEF LockPayment, IInv, SafeInv, ControlInv
    <3>2. \A a \in BOOLEAN : [req[w] EXCEPT !.apply = a] \in Webhook
      BY <3>1 DEF Webhook
    <3> QED
      BY <2>4, <3>2, Zenon DEF LockPayment, CanTransition
  <2> QED
    BY <1>5, <2>1, <2>2, <2>3, <2>4 DEF WorkerStep
<1>6. ASSUME NEW r \in Relay, RelayStep(r) \/ ConfirmAccepted(r) \/ ConfirmRejected(r)
      PROVE  pc'[v] = pc[v] /\ req'[v] = req[v]
  BY <1>6, Zenon DEF RelayStep, TakeBatch, Refund, RefundUnanswered, RollbackBatch, CommitBatch,
              ConfirmAccepted, ConfirmRejected
<1>7. ASSUME NEW b \in Booking, NEW e \in Event, NEW type \in EventType, SettleCharge(b, e, type)
      PROVE  pc'[v] = pc[v] /\ req'[v] = req[v]
  BY <1>7 DEF SettleCharge
<1>8. CASE UNCHANGED vars
  BY <1>8 DEF vars
<1> QED
  BY <1>2, <1>3, <1>4, <1>5, <1>6, <1>7, <1>8 DEF Next

LEMMA WorkerInvStep == IInv /\ [Next]_vars => ControlInv' /\ RowLock'
<1> SUFFICES ASSUME IInv, [Next]_vars PROVE ControlInv' /\ RowLock'
  OBVIOUS
<1>1. ControlInv'
  <2> SUFFICES ASSUME NEW v \in Worker
               PROVE  /\ pc'[v] \in {"charge", "save"} =>
                           /\ req'[v] \in PayRequest
                           /\ payments'[req'[v].booking] # NoRow
                           /\ payments'[req'[v].booking].amount = req'[v].amount
                      /\ pc'[v] \in {"record", "lock", "commit"} => req'[v] \in Webhook
    BY DEF ControlInv, HasPayment
  <2>1. ASSUME pc[v] \in {"charge", "save"}, req'[v] = req[v]
        PROVE  /\ req'[v] \in PayRequest
               /\ payments'[req'[v].booking] # NoRow
               /\ payments'[req'[v].booking].amount = req'[v].amount
    <3>1. /\ req[v] \in PayRequest /\ req[v].booking \in Booking
          /\ HasPayment(req[v].booking)
          /\ payments[req[v].booking].amount = req[v].amount
      BY <2>1 DEF IInv, SafeInv, ControlInv, PayRequest
    <3> QED
      BY <2>1, <3>1, RowStep DEF HasPayment
  <2>2. pc[v] \in {"record", "lock", "commit"} => req[v] \in Webhook
    BY DEF IInv, SafeInv, ControlInv
  <2> QED
    BY <2>1, <2>2, WorkerMoves
<1>2. RowLock'
  <2> SUFFICES ASSUME NEW w \in Worker, pc'[w] = "commit"
               PROVE  /\ req'[w].apply => /\ payments'[req'[w].event.booking] # NoRow
                                          /\ payments'[req'[w].event.booking].status = "pending"
                      /\ \A v \in Worker :
                           /\ pc'[v] = "commit"
                           /\ req'[v].event.booking = req'[w].event.booking
                           => v = w
    BY DEF RowLock, HasPayment
  <2> DEFINE b == req'[w].event.booking
  <2>1. req'[w] \in Webhook /\ b \in Booking
    BY <1>1 DEF ControlInv, Webhook, ProviderEvent
  <2>2. ASSUME NEW v \in Worker, pc'[v] = "commit"
        PROVE  \/ pc[v] = "commit" /\ req'[v] = req[v]
               \/ LockPayment(v) /\ req'[v].event = req[v].event
    <3>1. \/ pc'[v] = pc[v] /\ req'[v] = req[v]
          \/ LockPayment(v)
      BY <2>2, WorkerMoves
    <3>2. ASSUME LockPayment(v) PROVE req'[v].event = req[v].event
      <4>1. req \in [Worker -> PayRequest \cup Webhook \cup {NoRequest}] /\ req[v] \in Webhook
        BY <3>2 DEF IInv, TypeInv, TypeOK, SafeInv, ControlInv, LockPayment
      <4>2. PICK a : req' = [req EXCEPT ![v] = [req[v] EXCEPT !.apply = a]]
        BY <3>2, Zenon DEF LockPayment, Become
      <4> QED
        BY <4>1, <4>2 DEF Webhook
    <3> QED
      BY <2>2, <3>1, <3>2
  <2>3. ASSUME NEW v \in Worker, LockPayment(v)
        PROVE  /\ \A u \in Worker : pc[u] = "commit" => req[u].event.booking # req[v].event.booking
               /\ \A u \in Worker \ {v} : pc'[u] = pc[u] /\ req'[u] = req[u]
               /\ UNCHANGED payments
    <3>1. pc \in [Worker -> {"idle", "charge", "save", "record", "lock", "commit"}]
          /\ req \in [Worker -> PayRequest \cup Webhook \cup {NoRequest}]
      BY DEF IInv, TypeInv, TypeOK
    <3> QED
      BY <2>3, <3>1 DEF LockPayment, Become, Locked, LockedByWebhook, tables
  <2>4. ASSUME req'[w].apply
        PROVE  payments'[b] # NoRow /\ payments'[b].status = "pending"
    <3>1. CASE pc[w] = "commit" /\ req'[w] = req[w]
      <4>1. HasPayment(b) /\ payments[b].status = "pending"
        BY <2>4, <3>1 DEF IInv, SafeInv, RowLock
      <4>2. ASSUME NEW u \in Worker, pc[u] = "commit", req[u].event.booking = b,
                   pc' = [pc EXCEPT ![u] = "idle"]
            PROVE  FALSE
        <5>1. u = w
          BY <3>1, <4>2 DEF IInv, SafeInv, RowLock
        <5> QED
          BY <4>2, <5>1 DEF IInv, TypeInv, TypeOK
      <4> QED
        BY <2>1, <4>1, <4>2, RowStep DEF HasPayment
    <3>2. CASE LockPayment(w)
      <4>1. req'[w].apply = (/\ payments[req[w].event.booking] # NoRow
                             /\ CanTransition(payments[req[w].event.booking].status,
                                              TargetStatus[req[w].event.type]))
        <5>1. req \in [Worker -> PayRequest \cup Webhook \cup {NoRequest}] /\ req[w] \in Webhook
          BY <3>2 DEF IInv, TypeInv, TypeOK, SafeInv, ControlInv, LockPayment
        <5> QED
          BY <3>2, <5>1 DEF LockPayment, Become, Webhook
      <4>2. req[w].event = req'[w].event /\ UNCHANGED payments
        BY <2>2, <2>3, <3>2
      <4>3. payments[b] # NoRow /\ TargetStatus[req[w].event.type]
                                     \in AllowedTransitions[payments[b].status]
        BY <2>4, <4>1, <4>2, Zenon DEF CanTransition
      <4>4. payments[b] \in Payment
        BY <2>1, <4>3 DEF IInv, TypeInv, TypeOK
      <4> QED
        BY <4>2, <4>3, <4>4 DEF Payment, PaymentStatus, AllowedTransitions, HasPayment
    <3> QED
      BY <2>2, <3>1, <3>2
  <2>5. ASSUME NEW v \in Worker, pc'[v] = "commit", req'[v].event.booking = b
        PROVE  v = w
    <3>1. CASE pc[v] = "commit" /\ req'[v] = req[v] /\ pc[w] = "commit" /\ req'[w] = req[w]
      BY <2>5, <3>1 DEF IInv, SafeInv, RowLock
    <3>2. ASSUME LockPayment(v), v # w PROVE FALSE
      <4>1. pc[w] = "commit" /\ req'[w] = req[w]
        BY <2>3, <3>2
      <4> QED
        BY <2>2, <2>3, <2>5, <3>2, <4>1
    <3>3. ASSUME LockPayment(w), v # w PROVE FALSE
      <4>1. pc[v] = "commit" /\ req'[v] = req[v]
        BY <2>3, <2>5, <3>3
      <4> QED
        BY <2>2, <2>3, <2>5, <3>3, <4>1
    <3> QED
      BY <2>2, <2>5, <3>1, <3>2, <3>3
  <2> QED
    BY <2>4, <2>5
<1> QED
  BY <1>1, <1>2

LEMMA ChargeStep == IInv /\ [Next]_vars => ChargeMatchesPayment'
<1> SUFFICES ASSUME IInv, [Next]_vars, NEW b \in Booking, charges'[b] # NoRow
             PROVE  payments'[b] # NoRow /\ charges'[b].amount = payments'[b].amount
  BY DEF ChargeMatchesPayment
<1>1. charges \in [Booking -> Charge \cup {NoRow}]
  BY DEF IInv, TypeInv, TypeOK
<1>2. ASSUME charges'[b] = charges[b]
      PROVE  payments'[b] # NoRow /\ charges'[b].amount = payments'[b].amount
  <2>1. HasPayment(b) /\ charges[b].amount = payments[b].amount
    BY <1>2 DEF IInv, SafeInv, ChargeMatchesPayment, HasPayment
  <2> QED
    BY <1>2, <2>1, RowStep
<1>3. ASSUME NEW w \in Worker, NEW answered \in BOOLEAN, AskCharge(w, answered),
             charges'[b] # charges[b]
      PROVE  payments'[b] # NoRow /\ charges'[b].amount = payments'[b].amount
  <2>1. /\ HasPayment(req[w].booking)
        /\ payments[req[w].booking].amount = req[w].amount
        /\ UNCHANGED payments
    BY <1>3 DEF AskCharge, tables, IInv, SafeInv, ControlInv
  <2>2. b = req[w].booking /\ charges'[b] = [amount |-> req[w].amount, paid |-> FALSE]
    BY <1>1, <1>3 DEF AskCharge
  <2> QED
    BY <2>1, <2>2 DEF HasPayment
<1>4. ASSUME NEW a \in Booking, NEW e \in Event, NEW type \in EventType, SettleCharge(a, e, type),
             charges'[b] # charges[b]
      PROVE  payments'[b] # NoRow /\ charges'[b].amount = payments'[b].amount
  <2>1. /\ b = a /\ charges[b] # NoRow /\ UNCHANGED payments
        /\ charges'[b] = [charges[b] EXCEPT !.paid = @ \/ type = "charge.succeeded"]
    BY <1>1, <1>4 DEF SettleCharge, tables
  <2>2. charges[b] \in Charge
    BY <1>1, <2>1
  <2>3. PICK p \in BOOLEAN : p <=> charges[b].paid \/ type = "charge.succeeded"
    BY Zenon
  <2>4. charges'[b] = [charges[b] EXCEPT !.paid = p]
    BY <2>1, <2>2, <2>3 DEF Charge
  <2>5. charges'[b].amount = charges[b].amount
    BY <2>2, <2>4 DEF Charge
  <2> QED
    BY <2>1, <2>5 DEF IInv, SafeInv, ChargeMatchesPayment
<1>5. \/ UNCHANGED charges
      \/ \E w \in Worker, answered \in BOOLEAN : AskCharge(w, answered)
      \/ \E a \in Booking, e \in Event, type \in EventType : SettleCharge(a, e, type)
  BY Writers
<1> QED
  BY <1>2, <1>3, <1>4, <1>5

-----------------------------------------------------------------------------
(* Commands. *)

CommandInv == OneCommand /\ ConfirmInv /\ RefundInv

(* A step that makes no command, refunds only what a command asks for, and  *)
(* neither takes a payment to success nor moves its marks.                  *)
LEMMA CommandFrame ==
  ASSUME IInv, UNCHANGED commands,
         refunds \subseteq refunds',
         \A b \in refunds' \ refunds : CommandsOf("payment.refund", b) # {},
         \A b \in Booking :
           \/ payments'[b] = payments[b]
           \/ /\ HasPayment(b) /\ payments'[b] # NoRow
              /\ payments[b].status = "succeeded" <=> payments'[b].status = "succeeded"
              /\ payments'[b].needsRefund = payments[b].needsRefund
              /\ payments'[b].refunded = payments[b].refunded
           \/ /\ ~HasPayment(b) /\ payments'[b] # NoRow
              /\ payments'[b].status = "pending"
              /\ payments'[b].needsRefund = FALSE /\ payments'[b].refunded = FALSE
  PROVE  CommandInv'
<1>1. OneCommand /\ ConfirmInv /\ RefundInv
  BY DEF IInv, SafeInv
<1>2. \A topic, b : CommandsOf(topic, b)' = CommandsOf(topic, b)
  BY DEF CommandsOf
<1>3. OneCommand'
  BY <1>1, <1>2 DEF OneCommand
<1>4. ConfirmInv'
  BY <1>1, <1>2 DEF ConfirmInv, HasPayment
<1>5. RefundInv'
  <2> SUFFICES ASSUME NEW b \in Booking
               PROVE  LET asked == CommandsOf("payment.refund", b)
                      IN /\ asked # {} =>
                              \E i \in CommandsOf("booking.confirm", b) : commands[i].published
                         /\ payments'[b] # NoRow =>
                              /\ payments'[b].needsRefund <=> \E i \in asked : ~commands[i].published
                              /\ payments'[b].refunded <=> \E i \in asked : commands[i].published
                              /\ payments'[b].refunded => b \in refunds'
                         /\ b \in refunds' => asked # {}
    BY <1>2 DEF RefundInv, HasPayment
  <2>1. CommandsOf("payment.refund", b) # {} => HasPayment(b)
    BY <1>1 DEF RefundInv, ConfirmInv
  <2> QED
    BY <1>1, <2>1 DEF RefundInv, HasPayment
<1> QED
  BY <1>3, <1>4, <1>5 DEF CommandInv

(* A webhook that takes a payment to success makes its first confirmation.  *)
LEMMA CommandWebhook ==
  ASSUME IInv, NEW w \in Worker, CommitWebhook(w)
  PROVE  CommandInv'
<1> DEFINE target == TargetStatus[req[w].event.type]
<1>a. req[w].event \in ProviderEvent
  BY DEF CommitWebhook, IInv, SafeInv, ControlInv, Webhook
<1>b. PICK a \in Booking : a = req[w].event.booking
  BY <1>a DEF ProviderEvent
<1>1. /\ target \in {"succeeded", "failed"}
      /\ req[w].apply => HasPayment(a) /\ payments[a].status = "pending"
  BY <1>a, <1>b DEF CommitWebhook, IInv, SafeInv, RowLock, ProviderEvent, TargetStatus, EventType
<1>2. payments \in [Booking -> Payment \cup {NoRow}] /\ commands \in Seq(Command)
  BY DEF IInv, TypeInv, TypeOK
<1>3. UNCHANGED refunds
  BY DEF CommitWebhook, paystub
<1>4. CASE ~req[w].apply
  BY <1>3, <1>4, CommandFrame DEF CommitWebhook
<1>5. ASSUME req[w].apply
      PROVE  /\ \A b \in Booking \ {a} : payments'[b] = payments[b]
             /\ payments'[a] # NoRow /\ payments'[a].status = target
             /\ payments'[a].needsRefund = payments[a].needsRefund
             /\ payments'[a].refunded = payments[a].refunded
  <2>1. payments[a] \in Payment /\ payments' = [payments EXCEPT ![a].status = target]
    <3>1. payments' = [payments EXCEPT ![req[w].event.booking].status = target]
      BY <1>5 DEF CommitWebhook
    <3> QED
      BY <3>1, <1>b, <1>1, <1>2, <1>5 DEF HasPayment
  <2>2. payments'[a] = [payments[a] EXCEPT !.status = target]
    BY <1>1, <1>2, <2>1
  <2> HIDE DEF target
  <2>3. PICK st \in PaymentStatus : st = target
    BY <1>1 DEF PaymentStatus
  <2>4. [payments[a] EXCEPT !.status = st] \in Payment
    BY <2>1, <2>3 DEF Payment
  <2>5. PICK n \in Payment : n = [payments[a] EXCEPT !.status = st]
    BY <2>4
  <2>6. /\ n.status = st /\ n.needsRefund = payments[a].needsRefund
        /\ n.refunded = payments[a].refunded
    BY <2>1, <2>5 DEF Payment
  <2>7. payments'[a] = n /\ n # NoRow
    BY <2>2, <2>3, <2>5, PaymentsServiceAssumption
  <2>8. ASSUME NEW b \in Booking \ {a} PROVE payments'[b] = payments[b]
    BY <1>2, <2>1, Zenon
  <2> QED
    BY <2>3, <2>6, <2>7, <2>8
<1>6. CASE req[w].apply /\ target = "failed"
  BY <1>1, <1>3, <1>5, <1>6, CommandFrame, Zenon DEF CommitWebhook
<1>7. CASE req[w].apply /\ target = "succeeded"
  <2> DEFINE n == Len(commands) + 1
             new == NewCommand("booking.confirm", a)
  <2>1. /\ DOMAIN commands = 1 .. Len(commands) /\ Len(commands) \in Nat
        /\ DOMAIN commands' = 1 .. n
        /\ \A i \in DOMAIN commands : commands'[i] = commands[i]
        /\ commands'[n] = new /\ n \notin DOMAIN commands
    <3>1. new \in Command /\ commands' = Append(commands, new)
      BY <1>b, <1>7 DEF CommitWebhook, NewCommand, Command
    <3>2. /\ commands' \in Seq(Command) /\ Len(commands') = n
          /\ \A i \in 1 .. Len(commands) : commands'[i] = commands[i]
          /\ commands'[n] = new
      BY <1>2, <3>1, AppendProperties
    <3> QED
      BY <1>2, <3>2, LenProperties
  <2>2. /\ \A b : CommandsOf("payment.refund", b)' = CommandsOf("payment.refund", b)
        /\ \A b : b # a => CommandsOf("booking.confirm", b)' = CommandsOf("booking.confirm", b)
        /\ CommandsOf("booking.confirm", a)' = CommandsOf("booking.confirm", a) \cup {n}
        /\ \A topic, b : \A i \in CommandsOf(topic, b) : commands'[i] = commands[i]
    <3>1. DOMAIN commands' = DOMAIN commands \cup {n}
      BY <2>1
    <3>2. new.topic = "booking.confirm" /\ new.booking = a
      BY DEF NewCommand
    <3> HIDE DEF n, new
    <3>3. \A topic, b : \A i \in CommandsOf(topic, b) : i \in DOMAIN commands
      BY DEF CommandsOf
    <3>4. ASSUME NEW topic, NEW b, NEW i
          PROVE  i \in CommandsOf(topic, b)' <=>
                   \/ i \in CommandsOf(topic, b)
                   \/ i = n /\ topic = "booking.confirm" /\ b = a
      BY <2>1, <3>1, <3>2, Zenon DEF CommandsOf
    <3>5. ASSUME NEW b
          PROVE  CommandsOf("payment.refund", b)' = CommandsOf("payment.refund", b)
      BY <3>4
    <3>6. ASSUME NEW b, b # a
          PROVE  CommandsOf("booking.confirm", b)' = CommandsOf("booking.confirm", b)
      BY <3>4, <3>6
    <3>7. CommandsOf("booking.confirm", a)' = CommandsOf("booking.confirm", a) \cup {n}
      BY <3>4
    <3> QED
      BY <2>1, <3>3, <3>5, <3>6, <3>7
  <2>3. /\ CommandsOf("booking.confirm", a) = {}
        /\ CommandsOf("payment.refund", a) = {}
    BY <1>1, <1>7 DEF IInv, SafeInv, ConfirmInv, RefundInv
  <2> HIDE DEF n, new
  <2>4. OneCommand'
    <3>1. ASSUME NEW b \in Booking, NEW i \in CommandsOf("booking.confirm", b)',
                 NEW j \in CommandsOf("booking.confirm", b)'
          PROVE  i = j
      BY <2>2, <2>3 DEF OneCommand, IInv, SafeInv
    <3>2. ASSUME NEW b \in Booking, NEW i \in CommandsOf("payment.refund", b)',
                 NEW j \in CommandsOf("payment.refund", b)'
          PROVE  i = j
      BY <2>2 DEF OneCommand, IInv, SafeInv
    <3> QED
      BY <3>1, <3>2 DEF OneCommand
  <2>5. ConfirmInv'
    <3> SUFFICES ASSUME NEW b \in Booking
                 PROVE  CommandsOf("booking.confirm", b)' # {}
                          <=> payments'[b] # NoRow /\ payments'[b].status = "succeeded"
      BY DEF ConfirmInv, HasPayment
    <3>1. CASE b = a
      BY <1>5, <1>7, <2>2, <3>1
    <3>2. CASE b # a
      <4>1. payments'[b] = payments[b]
        BY <1>5, <1>7, <3>2
      <4> QED
        BY <2>2, <3>2, <4>1 DEF ConfirmInv, HasPayment, IInv, SafeInv
    <3> QED
      BY <3>1, <3>2
  <2>6. RefundInv'
    BY <1>1, <1>3, <1>5, <1>7, <2>2, <2>3 DEF RefundInv, HasPayment, IInv, SafeInv
  <2> QED
    BY <2>4, <2>5, <2>6 DEF CommandInv
<1> QED
  BY <1>1, <1>4, <1>6, <1>7

(* The commands of a booking after the commit of a batch: the same          *)
(* confirmations, and one refund more for each confirmation refused.        *)
LEMMA CommittedCommandsOf ==
  ASSUME IInv, NEW r \in Relay, CommitBatch(r)
  PROVE  /\ \A i \in DOMAIN commands :
              /\ i \in DOMAIN commands'
              /\ commands'[i].published <=> commands[i].published \/ i \in batch[r].done
         /\ \A b : CommandsOf("booking.confirm", b)' = CommandsOf("booking.confirm", b)
         /\ \A b : \A i \in CommandsOf("payment.refund", b) :
              i \in CommandsOf("payment.refund", b)'
         /\ \A b : \A i \in CommandsOf("payment.refund", b)' :
              \/ i \in CommandsOf("payment.refund", b)
              \/ /\ i \notin DOMAIN commands
                 /\ ~commands'[i].published
                 /\ \E k \in DOMAIN batch[r].rejected :
                      i = Len(commands) + k /\ batch[r].rejected[k] = b
         /\ \A b : \A k \in DOMAIN batch[r].rejected :
              batch[r].rejected[k] = b =>
                Len(commands) + k \in CommandsOf("payment.refund", b)'
<1> DEFINE rejected == batch[r].rejected
<1>1. commands \in Seq(Command) /\ rejected \in Seq(Booking) /\ TypeInv
  BY DEF IInv, TypeInv, TypeOK, Open
<1>2. /\ Len(commands) \in Nat /\ DOMAIN commands = 1 .. Len(commands)
      /\ Len(rejected) \in Nat /\ DOMAIN rejected = 1 .. Len(rejected)
      /\ \A i \in DOMAIN commands : commands[i] \in Command
  BY <1>1, LenProperties
<1>3. /\ DOMAIN commands' = 1 .. Len(commands) + Len(rejected)
      /\ \A i \in DOMAIN commands :
           commands'[i] = [commands[i] EXCEPT !.published = @ \/ i \in batch[r].done]
      /\ \A k \in DOMAIN rejected :
           commands'[Len(commands) + k] = NewCommand("payment.refund", rejected[k])
  <2>1. commands' \in Seq(Command) /\ Len(commands') = Len(commands) + Len(rejected)
    BY <1>1, CommittedCommands
  <2>2. DOMAIN commands' = 1 .. Len(commands')
    BY <2>1, LenProperties
  <2>3. /\ \A i \in 1 .. Len(commands) :
             commands'[i] = [commands[i] EXCEPT !.published = @ \/ i \in batch[r].done]
        /\ \A k \in 1 .. Len(rejected) :
             commands'[Len(commands) + k] = NewCommand("payment.refund", rejected[k])
    BY <1>1, CommittedCommands, Zenon
  <2> QED
    BY <1>2, <2>1, <2>2, <2>3
<1>4. ASSUME NEW i \in DOMAIN commands
      PROVE  /\ i \in DOMAIN commands'
             /\ commands'[i].topic = commands[i].topic
             /\ commands'[i].booking = commands[i].booking
             /\ commands'[i].published <=> commands[i].published \/ i \in batch[r].done
  <2>1. commands[i] \in Command /\ i \in DOMAIN commands'
    BY <1>2, <1>3
  <2>2. PICK p \in BOOLEAN : p <=> commands[i].published \/ i \in batch[r].done
    BY Zenon
  <2>3. commands'[i] = [commands[i] EXCEPT !.published = p]
    BY <1>3, <2>2
  <2>4. /\ commands'[i].topic = commands[i].topic
        /\ commands'[i].booking = commands[i].booking
        /\ commands'[i].published = p
    BY <2>1, <2>3 DEF Command
  <2> QED
    BY <2>1, <2>2, <2>4
<1>5. ASSUME NEW k \in DOMAIN rejected
      PROVE  /\ Len(commands) + k \in DOMAIN commands' \ DOMAIN commands
             /\ commands'[Len(commands) + k].topic = "payment.refund"
             /\ commands'[Len(commands) + k].booking = rejected[k]
             /\ commands'[Len(commands) + k].published = FALSE
  <2>1. Len(commands) + k \in DOMAIN commands' \ DOMAIN commands
    BY <1>2, <1>3
  <2>2. commands'[Len(commands) + k] = NewCommand("payment.refund", rejected[k])
    BY <1>3
  <2> QED
    BY <2>1, <2>2 DEF NewCommand
<1>6. ASSUME NEW i \in DOMAIN commands'
      PROVE  i \in DOMAIN commands \/ \E k \in DOMAIN rejected : i = Len(commands) + k
  <2>1. i \in Nat /\ ~(i <= Len(commands)) => i - Len(commands) \in 1 .. Len(rejected)
    BY <1>2, <1>3
  <2>2. i \in Nat /\ i >= 1 /\ i = Len(commands) + (i - Len(commands))
    BY <1>2, <1>3
  <2> QED
    BY <1>2, <2>1, <2>2
<1>7. ASSUME NEW b
      PROVE  /\ CommandsOf("booking.confirm", b)' = CommandsOf("booking.confirm", b)
             /\ \A i \in CommandsOf("payment.refund", b) : i \in CommandsOf("payment.refund", b)'
             /\ \A i \in CommandsOf("payment.refund", b)' :
                  \/ i \in CommandsOf("payment.refund", b)
                  \/ /\ i \notin DOMAIN commands
                     /\ ~commands'[i].published
                     /\ \E k \in DOMAIN rejected : i = Len(commands) + k /\ rejected[k] = b
  <2> DEFINE n(k) == Len(commands) + k
  <2>1. \A i \in DOMAIN commands' : i \in DOMAIN commands \/ \E k \in DOMAIN rejected : i = n(k)
    BY <1>6
  <2>2. \A k \in DOMAIN rejected : /\ n(k) \notin DOMAIN commands
                                   /\ commands'[n(k)].topic = "payment.refund"
                                   /\ commands'[n(k)].booking = rejected[k]
                                   /\ ~commands'[n(k)].published
    BY <1>5, Zenon
  <2> HIDE DEF n, rejected
  <2>3. CommandsOf("booking.confirm", b)' = CommandsOf("booking.confirm", b)
    BY <1>4, <2>1, <2>2 DEF CommandsOf
  <2>4. \A i \in CommandsOf("payment.refund", b) : i \in CommandsOf("payment.refund", b)'
    BY <1>4 DEF CommandsOf
  <2>5. ASSUME NEW i \in CommandsOf("payment.refund", b)'
        PROVE  \/ i \in CommandsOf("payment.refund", b)
               \/ /\ i \notin DOMAIN commands
                  /\ ~commands'[i].published
                  /\ \E k \in DOMAIN rejected : i = n(k) /\ rejected[k] = b
    BY <1>4, <2>1, <2>2 DEF CommandsOf
  <2> QED
    BY <2>3, <2>4, <2>5 DEF n
<1>8. ASSUME NEW b, NEW k \in DOMAIN rejected, rejected[k] = b
      PROVE  Len(commands) + k \in CommandsOf("payment.refund", b)'
  BY <1>5, <1>8, Zenon DEF CommandsOf
<1> QED
  BY <1>4, <1>7, <1>8

(* The commit of a batch leaves every mark where its command stands.        *)
LEMMA CommandCommitBatch ==
  ASSUME IInv, NEW r \in Relay, CommitBatch(r)
  PROVE  CommandInv'
<1> DEFINE rejected == batch[r].rejected
<1>1. OneCommand /\ ConfirmInv /\ RefundInv /\ BatchInv
  BY DEF IInv, SafeInv
<1>2. UNCHANGED refunds
  BY Zenon DEF CommitBatch, paystub
<1>3. ASSUME NEW b \in Booking
      PROVE  /\ b \in batch[r].refunded =>
                  /\ payments'[b] # NoRow
                  /\ payments'[b].status = payments[b].status
                  /\ payments'[b].needsRefund = FALSE
                  /\ payments'[b].refunded = TRUE
             /\ b \in Rejected(r) =>
                  /\ payments'[b] # NoRow
                  /\ payments'[b].status = payments[b].status
                  /\ payments'[b].needsRefund = TRUE
                  /\ payments'[b].refunded = payments[b].refunded
             /\ b \notin Rejected(r) \cup batch[r].refunded => payments'[b] = payments[b]
  <2>1. CASE b \in batch[r].refunded
    <3>1. payments[b] \in Payment /\ b \notin Rejected(r)
      BY <2>1, BatchRows
    <3>2. payments'[b] = [payments[b] EXCEPT !.needsRefund = FALSE, !.refunded = TRUE]
      BY <2>1, Zenon DEF CommitBatch
    <3>3. payments'[b] \in Payment
      BY <3>1, <3>2, Zenon DEF Payment
    <3> QED
      BY <2>1, <3>1, <3>2, <3>3, PaymentsServiceAssumption, Zenon DEF Payment
  <2>2. CASE b \in Rejected(r)
    <3>1. payments[b] \in Payment /\ b \notin batch[r].refunded
      BY <2>2, BatchRows
    <3>2. payments'[b] = [payments[b] EXCEPT !.needsRefund = TRUE]
      BY <2>2, <3>1, Zenon DEF CommitBatch
    <3>3. payments'[b] \in Payment
      BY <3>1, <3>2, Zenon DEF Payment
    <3> QED
      BY <2>2, <3>1, <3>2, <3>3, PaymentsServiceAssumption, Zenon DEF Payment
  <2>3. CASE b \notin Rejected(r) \cup batch[r].refunded
    BY <2>3, Zenon DEF CommitBatch
  <2> QED
    BY <2>1, <2>2, <2>3, Zenon
<1>4. \A b : b \in Rejected(r) <=> \E k \in DOMAIN rejected : rejected[k] = b
  BY DEF Rejected
<1>5. OneCommand'
  <2>1. ASSUME NEW b \in Booking, NEW i \in CommandsOf("booking.confirm", b)',
               NEW j \in CommandsOf("booking.confirm", b)'
        PROVE  i = j
    BY <1>1, CommittedCommandsOf DEF OneCommand
  <2>2. ASSUME NEW b \in Booking, NEW i \in CommandsOf("payment.refund", b)',
               NEW j \in CommandsOf("payment.refund", b)'
        PROVE  i = j
    <3>1. CASE b \notin Rejected(r)
      <4>1. i \in CommandsOf("payment.refund", b) /\ j \in CommandsOf("payment.refund", b)
        BY <1>4, <2>2, <3>1, CommittedCommandsOf
      <4> QED
        BY <1>1, <4>1 DEF OneCommand
    <3>2. CASE b \in Rejected(r)
      <4>1. CommandsOf("payment.refund", b) = {}
        BY <3>2, BatchRows
      <4>2. \A n \in CommandsOf("payment.refund", b)' :
              \E k \in DOMAIN rejected : n = Len(commands) + k /\ rejected[k] = b
        BY <4>1, CommittedCommandsOf
      <4>3. \A k, m \in DOMAIN rejected : rejected[k] = rejected[m] => k = m
        BY <1>1 DEF BatchInv, GoodBatch
      <4> QED
        BY <2>2, <4>2, <4>3
    <3> QED
      BY <3>1, <3>2
  <2> QED
    BY <2>1, <2>2 DEF OneCommand
<1>6. ConfirmInv'
  <2> SUFFICES ASSUME NEW b \in Booking
               PROVE  CommandsOf("booking.confirm", b)' # {}
                        <=> payments'[b] # NoRow /\ payments'[b].status = "succeeded"
    BY DEF ConfirmInv, HasPayment
  <2>1. payments'[b] # NoRow /\ payments'[b].status = "succeeded"
          <=> HasPayment(b) /\ payments[b].status = "succeeded"
    BY <1>3, BatchRows, Zenon DEF HasPayment
  <2> QED
    BY <1>1, <2>1, CommittedCommandsOf DEF ConfirmInv
<1>7. RefundInv'
  <2> SUFFICES ASSUME NEW b \in Booking
               PROVE  /\ CommandsOf("payment.refund", b)' # {} =>
                           \E i \in CommandsOf("booking.confirm", b)' : commands'[i].published
                      /\ payments'[b] # NoRow =>
                           /\ payments'[b].needsRefund
                                <=> \E i \in CommandsOf("payment.refund", b)' : ~commands'[i].published
                           /\ payments'[b].refunded
                                <=> \E i \in CommandsOf("payment.refund", b)' : commands'[i].published
                           /\ payments'[b].refunded => b \in refunds'
                      /\ b \in refunds' => CommandsOf("payment.refund", b)' # {}
    BY DEF RefundInv, HasPayment
  <2> DEFINE asked == CommandsOf("payment.refund", b)
             asked2 == CommandsOf("payment.refund", b)'
             confirm == CommandsOf("booking.confirm", b)
  <2>1. /\ CommandsOf("booking.confirm", b)' = confirm
        /\ \A i \in asked \cup confirm :
             commands'[i].published <=> commands[i].published \/ i \in batch[r].done
    <3>1. asked \cup confirm \subseteq DOMAIN commands
      BY DEF CommandsOf
    <3> QED
      BY <3>1, CommittedCommandsOf
  <2>2. /\ asked # {} => \E i \in confirm : commands[i].published
        /\ HasPayment(b) =>
             /\ payments[b].needsRefund <=> \E i \in asked : ~commands[i].published
             /\ payments[b].refunded <=> \E i \in asked : commands[i].published
             /\ payments[b].refunded => b \in refunds
        /\ b \in refunds => asked # {}
    BY <1>1 DEF RefundInv
  <2>3. CASE b \in Rejected(r)
    <3>1. PICK k \in DOMAIN rejected : rejected[k] = b
      BY <1>4, <2>3
    <3>2. asked = {} /\ HasPayment(b)
      BY <2>3, BatchRows
    <3>3. asked2 # {} /\ \A i \in asked2 : ~commands'[i].published
      BY <3>1, <3>2, CommittedCommandsOf
    <3>4. \E i \in confirm : commands'[i].published
      <4>1. PICK i \in confirm : i \in batch[r].done
        BY <1>1, <3>1 DEF BatchInv, GoodBatch
      <4> QED
        BY <2>1, <4>1
    <3> HIDE DEF asked, asked2, confirm
    <3>5. payments'[b].refunded = payments[b].refunded /\ ~payments[b].refunded
      BY <1>3, <2>2, <2>3, <3>2, Zenon
    <3> QED
      BY <1>2, <1>3, <2>1, <2>2, <2>3, <3>2, <3>3, <3>4, <3>5, Zenon DEF asked2
  <2>4. CASE b \in batch[r].refunded
    <3>1. PICK i \in asked : i \in batch[r].done
      BY <1>1, <2>4 DEF BatchInv, GoodBatch
    <3>2. \A j \in asked : j = i
      BY <1>1, <3>1 DEF OneCommand
    <3>3. b \notin Rejected(r)
      BY <2>4, BatchRows
    <3>4. asked2 = asked
      <4>1. \A j \in asked2 : j \in asked
        BY <1>4, <3>3, CommittedCommandsOf
      <4>2. \A j \in asked : j \in asked2
        BY CommittedCommandsOf
      <4> QED
        BY <4>1, <4>2
    <3>5. \A j \in asked2 : commands'[j].published
      BY <2>1, <3>1, <3>2, <3>4
    <3>6. b \in refunds
      BY <1>1, <2>4 DEF BatchInv, GoodBatch
    <3>7. \E j \in confirm : commands'[j].published
      BY <2>1, <2>2, <3>1
    <3> QED
      BY <1>2, <1>3, <2>1, <2>4, <3>1, <3>4, <3>5, <3>6, <3>7, Zenon
  <2>5. CASE b \notin Rejected(r) \cup batch[r].refunded
    <3>1. asked2 = asked
      <4>1. \A i \in asked2 : i \in asked
        BY <1>4, <2>5, CommittedCommandsOf
      <4>2. \A i \in asked : i \in asked2
        BY CommittedCommandsOf
      <4> QED
        BY <4>1, <4>2, Zenon
    <3>2. payments'[b] = payments[b]
      BY <1>3, <2>5, Zenon
    <3>3. \A i \in asked : i \notin batch[r].done
      BY <1>1, <2>5 DEF BatchInv, GoodBatch
    <3>4. \A i \in asked : commands'[i].published <=> commands[i].published
      BY <2>1, <3>3
    <3>5. asked # {} => \E i \in confirm : commands'[i].published
      BY <2>1, <2>2
    <3> QED
      BY <1>2, <2>1, <2>2, <3>1, <3>2, <3>4, <3>5 DEF HasPayment
  <2> QED
    BY <2>3, <2>4, <2>5
<1> QED
  BY <1>5, <1>6, <1>7 DEF CommandInv

LEMMA CommandStep == IInv /\ [Next]_vars => CommandInv'
<1> SUFFICES ASSUME IInv, [Next]_vars PROVE CommandInv'
  OBVIOUS
<1>1. payments \in [Booking -> Payment \cup {NoRow}] /\ \A row \in Payment : row # NoRow
  BY PaymentsServiceAssumption DEF IInv, TypeInv, TypeOK
<1>2. CASE UNCHANGED <<payments, commands, refunds>>
  BY <1>2, CommandFrame
<1>3. ASSUME NEW w \in Worker, NEW a \in Booking, NEW amount \in Amount, StartPayment(w, a, amount)
      PROVE  CommandInv'
  <2> DEFINE row == [amount |-> amount, status |-> "pending", charged |-> FALSE,
                     needsRefund |-> FALSE, refunded |-> FALSE]
  <2>1. UNCHANGED <<commands, refunds>>
    BY <1>3 DEF StartPayment, paystub
  <2>2. UNCHANGED payments \/ (payments[a] = NoRow /\ payments' = [payments EXCEPT ![a] = row])
    BY <1>3 DEF StartPayment
  <2>3. row \in Payment /\ row.status = "pending" /\ row.needsRefund = FALSE /\ row.refunded = FALSE
    BY NewPaymentType
  <2> HIDE DEF row
  <2>4. \A b \in Booking :
          \/ payments'[b] = payments[b]
          \/ ~HasPayment(b) /\ payments'[b] = row
    BY <1>1, <2>2 DEF HasPayment
  <2> QED
    BY <1>1, <2>1, <2>3, <2>4, CommandFrame, Zenon
<1>4. ASSUME NEW w \in Worker, SaveCharge(w) PROVE CommandInv'
  <2>1. UNCHANGED <<commands, refunds>>
    BY <1>4 DEF SaveCharge, paystub
  <2>2. ASSUME NEW b \in Booking
        PROVE  \/ payments'[b] = payments[b]
               \/ /\ HasPayment(b) /\ payments'[b] # NoRow
                  /\ payments'[b].status = payments[b].status
                  /\ payments'[b].needsRefund = payments[b].needsRefund
                  /\ payments'[b].refunded = payments[b].refunded
    <3>1. CASE b = req[w].booking
      <4>1. payments[b] \in Payment
        BY <1>1, <1>4, <3>1 DEF SaveCharge, IInv, SafeInv, ControlInv, HasPayment
      <4>2. payments'[b] = [payments[b] EXCEPT !.charged = TRUE]
        BY <1>1, <1>4, <3>1, Zenon DEF SaveCharge
      <4>3. payments'[b] \in Payment
        BY <4>1, <4>2, Zenon DEF Payment
      <4> QED
        BY <1>1, <4>1, <4>2, <4>3, Zenon DEF Payment, HasPayment
    <3>2. CASE b # req[w].booking
      BY <1>1, <1>4, <3>2 DEF SaveCharge
    <3> QED
      BY <3>1, <3>2
  <2> QED
    BY <2>1, <2>2, CommandFrame, Zenon
<1>5. ASSUME NEW r \in Relay, Refund(r) \/ RefundUnanswered(r) PROVE CommandInv'
  <2>1. UNCHANGED <<payments, commands>>
    BY <1>5 DEF Refund, RefundUnanswered, tables
  <2>2. /\ refunds \subseteq refunds'
        /\ \A b \in refunds' \ refunds : b = commands[Current(r)].booking
    BY <1>5 DEF Refund, RefundUnanswered
  <2>3. Current(r) \in CommandsOf("payment.refund", commands[Current(r)].booking)
    BY <1>5, CurrentCommand DEF Refund, RefundUnanswered, IInv
  <2> QED
    BY <2>1, <2>2, <2>3, CommandFrame
<1>6. \/ UNCHANGED <<payments, commands, refunds>>
      \/ \E w \in Worker, a \in Booking, amount \in Amount : StartPayment(w, a, amount)
      \/ \E w \in Worker : SaveCharge(w) \/ CommitWebhook(w)
      \/ \E r \in Relay : Refund(r) \/ RefundUnanswered(r) \/ CommitBatch(r)
  BY Zenon DEF Next, WorkerStep, RelayStep, StartWebhook, SettleCharge, AskCharge, RecordEvent,
         LockPayment, Abort, TakeBatch, RollbackBatch, ConfirmAccepted, ConfirmRejected,
         vars, tables, paystub
<1> QED
  BY <1>2, <1>3, <1>4, <1>5, <1>6, CommandWebhook, CommandCommitBatch

-----------------------------------------------------------------------------
(* Relays. *)

RelayInv == BatchInv /\ NoSharedCommand

(* A batch stays good while the commands it holds stay as they are.         *)
LEMMA BatchFrame ==
  ASSUME NEW bt \in Open, GoodBatch(bt),
         \A i \in bt.todo \cup bt.done :
           /\ i \in DOMAIN commands'
           /\ commands'[i].topic = commands[i].topic
           /\ commands'[i].booking = commands[i].booking
           /\ ~commands'[i].published,
         refunds \subseteq refunds'
  PROVE  GoodBatch(bt)'
<1>1. ASSUME NEW topic, NEW b
      PROVE  CommandsOf(topic, b)' \cap bt.done = CommandsOf(topic, b) \cap bt.done
  BY DEF CommandsOf, GoodBatch
<1> QED
  BY <1>1 DEF GoodBatch

(* A step that no relay takes adds commands and lets every batch be.        *)
LEMMA RelayFrame ==
  ASSUME IInv, UNCHANGED <<batch, refunds>>,
         \/ UNCHANGED commands
         \/ \E c \in Command : commands' = Append(commands, c)
  PROVE  RelayInv'
<1>1. ASSUME NEW r \in Relay PROVE GoodBatch(batch[r])'
  <2>1. PICK bt \in Open : bt = batch[r]
    BY DEF IInv, TypeInv
  <2>2. GoodBatch(bt)
    BY <2>1 DEF IInv, SafeInv, BatchInv
  <2>3. \A i \in DOMAIN commands : i \in DOMAIN commands' /\ commands'[i] = commands[i]
    <3>1. CASE UNCHANGED commands
      BY <3>1
    <3>2. ASSUME NEW c \in Command, commands' = Append(commands, c)
          PROVE  \A i \in DOMAIN commands : i \in DOMAIN commands' /\ commands'[i] = commands[i]
      <4>1. commands \in Seq(Command)
        BY DEF IInv, TypeInv, TypeOK
      <4>2. /\ commands' \in Seq(Command) /\ Len(commands') = Len(commands) + 1
            /\ \A i \in 1 .. Len(commands) : commands'[i] = commands[i]
        BY <3>2, <4>1, AppendProperties
      <4>3. /\ DOMAIN commands = 1 .. Len(commands) /\ DOMAIN commands' = 1 .. Len(commands')
            /\ Len(commands) \in Nat
        BY <4>1, <4>2, LenProperties
      <4> QED
        BY <4>2, <4>3
    <3> QED
      BY <3>1, <3>2
  <2>4. GoodBatch(bt)'
    BY <2>1, <2>2, <2>3, BatchFrame DEF GoodBatch
  <2> QED
    BY <2>1, <2>4 DEF GoodBatch
<1>2. NoSharedCommand'
  BY DEF IInv, SafeInv, NoSharedCommand
<1> QED
  BY <1>1, <1>2 DEF RelayInv, BatchInv

(* A delivery keeps its batch good.                                         *)
LEMMA DeliveryKept ==
  ASSUME IInv, NEW r \in Relay, ConfirmAccepted(r) \/ ConfirmRejected(r) \/ Refund(r)
  PROVE  RelayInv'
<1>1. PICK c, b :
        /\ c = Current(r) /\ b = commands[c].booking /\ b \in Booking
        /\ batch' \in [Relay -> Open]
        /\ \A q \in Relay \ {r} : batch'[q] = batch[q]
        /\ c \in batch[r].todo /\ c \in DOMAIN commands
        /\ batch'[r].todo = batch[r].todo \ {c}
        /\ batch'[r].done = batch[r].done \cup {c}
        /\ \/ /\ ConfirmAccepted(r)
              /\ c \in CommandsOf("booking.confirm", b)
              /\ batch'[r].rejected = batch[r].rejected
              /\ batch'[r].refunded = batch[r].refunded
           \/ /\ ConfirmRejected(r)
              /\ c \in CommandsOf("booking.confirm", b)
              /\ batch'[r].rejected = Append(batch[r].rejected, b)
              /\ batch'[r].refunded = batch[r].refunded
           \/ /\ Refund(r)
              /\ c \in CommandsOf("payment.refund", b)
              /\ batch'[r].rejected = batch[r].rejected
              /\ batch'[r].refunded = batch[r].refunded \cup {b}
  BY Delivery
<1>2. /\ UNCHANGED commands
      /\ refunds \subseteq refunds'
      /\ Refund(r) => b \in refunds'
  <2>1. ASSUME Refund(r) PROVE b \in refunds'
    <3>1. c \in CommandsOf("payment.refund", b) /\ ~commands[c].published
      BY <1>1, <2>1, CurrentCommand DEF Refund, IInv, SafeInv, BatchInv, GoodBatch
    <3>2. HasPayment(b) => (payments[b].refunded => b \in refunds)
      BY <1>1 DEF IInv, SafeInv, RefundInv
    <3>3. HasPayment(b)
      BY <1>1, <3>1 DEF IInv, SafeInv, RefundInv, ConfirmInv
    <3> QED
      BY <1>1, <2>1, <3>2, <3>3 DEF Refund
  <2>2. UNCHANGED commands
    BY DEF ConfirmAccepted, ConfirmRejected, Refund, tables
  <2>3. refunds \subseteq refunds'
    BY DEF ConfirmAccepted, ConfirmRejected, Refund, paystub
  <2> QED
    BY <2>1, <2>2, <2>3
<1>3. GoodBatch(batch[r]) /\ batch[r] \in Open
  BY DEF IInv, TypeInv, SafeInv, BatchInv
<1>4. \A topic, a : CommandsOf(topic, a)' = CommandsOf(topic, a)
  BY <1>2 DEF CommandsOf
<1>5. \A q \in Relay : batch'[q].todo \cup batch'[q].done = batch[q].todo \cup batch[q].done
  BY <1>1
<1>6. NoSharedCommand'
  BY <1>5 DEF IInv, SafeInv, NoSharedCommand
<1>7. ASSUME NEW q \in Relay \ {r} PROVE GoodBatch(batch[q])'
  <2>1. GoodBatch(batch[q])
    BY DEF IInv, SafeInv, BatchInv
  <2> QED
    BY <1>1, <1>2, <1>4, <2>1 DEF GoodBatch
<1>8. GoodBatch(batch[r])'
  <2>1. PICK old \in Open, new \in Open : old = batch[r] /\ new = batch'[r]
    BY <1>1, <1>3
  <2>2. /\ c \in old.todo /\ c \in DOMAIN commands
        /\ new.todo = old.todo \ {c} /\ new.done = old.done \cup {c}
        /\ \/ /\ c \in CommandsOf("booking.confirm", b)
              /\ new.rejected = old.rejected \/ new.rejected = Append(old.rejected, b)
              /\ new.refunded = old.refunded
           \/ /\ c \in CommandsOf("payment.refund", b) /\ b \in refunds'
              /\ new.rejected = old.rejected
              /\ new.refunded = old.refunded \cup {b}
    BY <1>1, <1>2, <2>1
  <2>3. GoodBatch(old)
    BY <1>3, <2>1
  <2>4. /\ new.todo \cap new.done = {}
        /\ \A i \in new.todo \cup new.done : i \in DOMAIN commands /\ ~commands[i].published
    BY <2>2, <2>3 DEF GoodBatch
  <2>5. /\ \A k \in DOMAIN new.rejected :
             CommandsOf("booking.confirm", new.rejected[k]) \cap new.done # {}
        /\ \A k, m \in DOMAIN new.rejected : new.rejected[k] = new.rejected[m] => k = m
    <3>1. CASE new.rejected = old.rejected
      BY <2>2, <2>3, <3>1 DEF GoodBatch
    <3>2. CASE c \in CommandsOf("booking.confirm", b) /\ new.rejected = Append(old.rejected, b)
      <4> DEFINE n == Len(old.rejected)
      <4>1. /\ old.rejected \in Seq(Booking) /\ n \in Nat
            /\ DOMAIN old.rejected = 1 .. n /\ DOMAIN new.rejected = 1 .. n + 1
            /\ \A k \in 1 .. n : new.rejected[k] = old.rejected[k]
            /\ new.rejected[n + 1] = b
        <5>1. old.rejected \in Seq(Booking) /\ new.rejected \in Seq(Booking)
          BY DEF Open
        <5>2. /\ Len(new.rejected) = n + 1
              /\ \A k \in 1 .. n : new.rejected[k] = old.rejected[k]
              /\ new.rejected[n + 1] = b
          BY <1>1, <3>2, <5>1, AppendProperties
        <5> QED
          BY <5>1, <5>2, LenProperties
      <4>2. ASSUME NEW k \in DOMAIN old.rejected PROVE old.rejected[k] # b
        <5>1. CommandsOf("booking.confirm", old.rejected[k]) \cap old.done # {}
          BY <2>3 DEF GoodBatch
        <5>2. c \notin old.done
          BY <2>2, <2>3 DEF GoodBatch
        <5>3. \A i \in CommandsOf("booking.confirm", b) : i = c
          BY <1>1, <3>2 DEF IInv, SafeInv, OneCommand
        <5> QED
          BY <5>1, <5>2, <5>3
      <4>3. \A k \in DOMAIN new.rejected :
              \/ k \in DOMAIN old.rejected /\ new.rejected[k] = old.rejected[k]
              \/ k = n + 1 /\ new.rejected[k] = b
        BY <4>1
      <4> HIDE DEF n
      <4>4. \A k \in DOMAIN new.rejected :
              CommandsOf("booking.confirm", new.rejected[k]) \cap new.done # {}
        BY <2>2, <2>3, <3>2, <4>3 DEF GoodBatch
      <4>5. \A k, m \in DOMAIN new.rejected : new.rejected[k] = new.rejected[m] => k = m
        BY <2>3, <4>2, <4>3 DEF GoodBatch
      <4> QED
        BY <4>4, <4>5
    <3> QED
      BY <2>2, <3>1, <3>2
  <2>6. /\ \A a \in new.refunded :
             a \in refunds' /\ CommandsOf("payment.refund", a) \cap new.done # {}
        /\ \A a \in Booking :
             CommandsOf("payment.refund", a) \cap new.done # {} => a \in new.refunded
    <3>1. CASE c \in CommandsOf("booking.confirm", b) /\ new.refunded = old.refunded
      <4>1. \A a : c \notin CommandsOf("payment.refund", a)
        BY <3>1 DEF CommandsOf
      <4> QED
        BY <1>2, <2>2, <2>3, <3>1, <4>1 DEF GoodBatch
    <3>2. CASE /\ c \in CommandsOf("payment.refund", b) /\ b \in refunds'
               /\ new.refunded = old.refunded \cup {b}
      <4>1. \A a : c \in CommandsOf("payment.refund", a) => a = b
        BY <3>2 DEF CommandsOf
      <4> QED
        BY <1>2, <2>2, <2>3, <3>2, <4>1 DEF GoodBatch
    <3> QED
      BY <2>2, <3>1, <3>2
  <2>7. GoodBatch(new)'
    BY <1>2, <1>4, <2>4, <2>5, <2>6 DEF GoodBatch
  <2> QED
    BY <2>1, <2>7 DEF GoodBatch
<1> QED
  BY <1>6, <1>7, <1>8 DEF RelayInv, BatchInv

(* A relay that drops its batch leaves those of the others as they are.     *)
LEMMA BatchDropped ==
  ASSUME IInv, NEW r \in Relay, batch' = [batch EXCEPT ![r] = NoBatch],
         \A q \in Relay \ {r} : GoodBatch(batch[q])'
  PROVE  RelayInv'
<1>1. /\ batch'[r] = NoBatch
      /\ \A q \in Relay \ {r} : batch'[q] = batch[q]
  BY DEF IInv, TypeInv
<1>2. GoodBatch(NoBatch)'
  BY EmptySeq DEF GoodBatch, NoBatch
<1>3. BatchInv'
  BY <1>1, <1>2 DEF BatchInv, GoodBatch
<1>4. NoSharedCommand'
  BY <1>1 DEF IInv, SafeInv, NoSharedCommand, NoBatch
<1> QED
  BY <1>3, <1>4 DEF RelayInv

LEMMA RelayInvStep == IInv /\ [Next]_vars => RelayInv'
<1> SUFFICES ASSUME IInv, [Next]_vars PROVE RelayInv'
  OBVIOUS
<1>1. ASSUME NEW w \in Worker, CommitWebhook(w) PROVE RelayInv'
  <2>1. req[w].event.booking \in Booking
    BY <1>1 DEF CommitWebhook, IInv, SafeInv, ControlInv, Webhook, ProviderEvent
  <2>2. NewCommand("booking.confirm", req[w].event.booking) \in Command
    BY <2>1 DEF NewCommand, Command
  <2>3. UNCHANGED <<batch, refunds>>
    BY <1>1 DEF CommitWebhook, paystub
  <2>4. \/ UNCHANGED commands
        \/ commands' = Append(commands, NewCommand("booking.confirm", req[w].event.booking))
    BY <1>1 DEF CommitWebhook
  <2> QED
    BY <2>2, <2>3, <2>4, RelayFrame
<1>2. CASE UNCHANGED <<batch, refunds, commands>>
  BY <1>2, RelayFrame
<1>3. ASSUME NEW r \in Relay, TakeBatch(r) PROVE RelayInv'
  <2> DEFINE taken == {i \in Unpublished(r) :
                         Cardinality({j \in Unpublished(r) : j < i}) < BatchSize}
  <2>1. batch[r] = NoBatch /\ UNCHANGED <<commands, refunds>>
    BY <1>3 DEF TakeBatch, Idle, tables, paystub
  <2>2. batch' = [batch EXCEPT ![r] = [NoBatch EXCEPT !.todo = taken]]
    BY <1>3, <2>1 DEF TakeBatch
  <2>3. \A i \in taken : /\ i \in DOMAIN commands /\ ~commands[i].published
                         /\ \A q \in Relay \ {r} : i \notin batch[q].todo \cup batch[q].done
    BY DEF Unpublished, LockedByOther
  <2> HIDE DEF taken
  <2>4. /\ batch'[r] = [NoBatch EXCEPT !.todo = taken]
        /\ \A q \in Relay \ {r} : batch'[q] = batch[q]
    BY <2>2 DEF IInv, TypeInv
  <2>5. /\ batch'[r].todo = taken /\ batch'[r].done = {}
        /\ batch'[r].rejected = <<>> /\ batch'[r].refunded = {}
    BY <2>4 DEF NoBatch
  <2>6. \A topic, b : CommandsOf(topic, b)' = CommandsOf(topic, b)
    BY <2>1 DEF CommandsOf
  <2>7. GoodBatch(batch[r])'
    BY <2>1, <2>3, <2>5, <2>6 DEF GoodBatch
  <2>8. ASSUME NEW q \in Relay \ {r} PROVE GoodBatch(batch[q])'
    BY <2>1, <2>4, <2>6 DEF GoodBatch, IInv, SafeInv, BatchInv
  <2>9. NoSharedCommand'
    <3> SUFFICES ASSUME NEW p \in Relay, NEW q \in Relay, p # q
                 PROVE  (batch'[p].todo \cup batch'[p].done)
                          \cap (batch'[q].todo \cup batch'[q].done) = {}
      BY DEF NoSharedCommand
    <3>1. ASSUME NEW o \in Relay \ {r}
          PROVE  (batch'[r].todo \cup batch'[r].done)
                   \cap (batch'[o].todo \cup batch'[o].done) = {}
      <4>1. batch'[r].todo \cup batch'[r].done = taken
        BY <2>5
      <4>2. taken \cap (batch[o].todo \cup batch[o].done) = {}
        BY <2>3
      <4> QED
        BY <2>4, <4>1, <4>2
    <3>2. CASE p = r
      BY <3>1, <3>2
    <3>3. CASE q = r
      BY <3>1, <3>3
    <3>4. CASE p # r /\ q # r
      BY <2>4, <3>4 DEF IInv, SafeInv, NoSharedCommand
    <3> QED
      BY <3>2, <3>3, <3>4
  <2> QED
    BY <2>7, <2>8, <2>9 DEF RelayInv, BatchInv
<1>4. ASSUME NEW r \in Relay, RollbackBatch(r) \/ RefundUnanswered(r) PROVE RelayInv'
  <2>1. /\ UNCHANGED commands
        /\ refunds \subseteq refunds'
        /\ batch' = [batch EXCEPT ![r] = NoBatch]
    BY <1>4 DEF RollbackBatch, RefundUnanswered, tables, paystub
  <2>2. ASSUME NEW q \in Relay \ {r} PROVE GoodBatch(batch[q])'
    <3>1. GoodBatch(batch[q]) /\ batch'[q] = batch[q]
      BY <2>1 DEF IInv, SafeInv, BatchInv, TypeInv
    <3>2. \A topic, b : CommandsOf(topic, b)' = CommandsOf(topic, b)
      BY <2>1 DEF CommandsOf
    <3> QED
      BY <2>1, <3>1, <3>2 DEF GoodBatch
  <2> QED
    BY <2>1, <2>2, BatchDropped, Zenon
<1>5. ASSUME NEW r \in Relay, CommitBatch(r) PROVE RelayInv'
  <2>1. /\ UNCHANGED refunds
        /\ batch' = [batch EXCEPT ![r] = NoBatch]
    BY <1>5, Zenon DEF CommitBatch, paystub
  <2>2. ASSUME NEW q \in Relay \ {r} PROVE GoodBatch(batch[q])'
    <3>1. PICK bt \in Open : bt = batch[q] /\ batch'[q] = bt
      BY <2>1 DEF IInv, TypeInv
    <3>2. GoodBatch(bt)
      BY <3>1 DEF IInv, SafeInv, BatchInv
    <3>3. ASSUME NEW i \in bt.todo \cup bt.done
          PROVE  /\ i \in DOMAIN commands'
                 /\ commands'[i].topic = commands[i].topic
                 /\ commands'[i].booking = commands[i].booking
                 /\ ~commands'[i].published
      <4>1. i \in 1 .. Len(commands) /\ ~commands[i].published /\ commands[i] \in Command
        BY <3>1, <3>2, LenProperties DEF GoodBatch, IInv, TypeInv, TypeOK
      <4>2. i \notin batch[r].done
        BY <3>1 DEF IInv, SafeInv, NoSharedCommand
      <4>3. /\ i \in DOMAIN commands'
            /\ commands'[i].published <=> commands[i].published \/ i \in batch[r].done
        <5>1. i \in DOMAIN commands
          BY <3>2 DEF GoodBatch
        <5>2. \A j \in DOMAIN commands :
                /\ j \in DOMAIN commands'
                /\ commands'[j].published <=> commands[j].published \/ j \in batch[r].done
          BY <1>5, CommittedCommandsOf
        <5> QED
          BY <5>1, <5>2
      <4>4. commands'[i] = [commands[i] EXCEPT !.published = @ \/ i \in batch[r].done]
        <5>1. TypeInv
          BY DEF IInv
        <5>2. \A j \in 1 .. Len(commands) :
                commands'[j] = [commands[j] EXCEPT !.published = @ \/ j \in batch[r].done]
          BY <1>5, <5>1, CommittedCommands
        <5> QED
          BY <4>1, <5>2, Zenon
      <4> QED
        BY <4>1, <4>2, <4>3, <4>4 DEF Command
    <3>4. GoodBatch(bt)'
      BY <2>1, <3>2, <3>3, BatchFrame
    <3> QED
      BY <3>1, <3>4 DEF GoodBatch
  <2> QED
    BY <2>1, <2>2, BatchDropped, Zenon
<1>6. \/ UNCHANGED <<batch, refunds, commands>>
      \/ \E w \in Worker : CommitWebhook(w)
      \/ \E r \in Relay : \/ TakeBatch(r) \/ CommitBatch(r)
                          \/ RollbackBatch(r) \/ RefundUnanswered(r)
                          \/ ConfirmAccepted(r) \/ ConfirmRejected(r) \/ Refund(r)
  BY Zenon DEF Next, WorkerStep, RelayStep, StartPayment, StartWebhook, SettleCharge, AskCharge,
         SaveCharge, RecordEvent, LockPayment, Abort, vars, tables, paystub
<1> QED
  BY <1>1, <1>2, <1>3, <1>4, <1>5, <1>6, DeliveryKept

-----------------------------------------------------------------------------
(* Theorems. *)

LEMMA IInvStep == IInv /\ [Next]_vars => IInv'
BY TypeStep, WorkerInvStep, ChargeStep, CommandStep, RelayInvStep
   DEF IInv, SafeInv, CommandInv, RelayInv

(* The inductive invariant holds in every state.                            *)
THEOREM Invariance == Spec => []IInv
<1> QED
  BY InitIInv, IInvStep, PTL DEF Spec

(* Every variable keeps its type: no step writes a row, a command or a      *)
(* request that the code could not have written.                            *)
THEOREM TypeCorrect == Spec => []TypeOK
<1>1. IInv => TypeOK
  BY DEF IInv, TypeInv
<1> QED
  BY <1>1, Invariance, PTL

(* "The row is locked while its command is being delivered": no two relays  *)
(* have a command in hand.                                                  *)
THEOREM NoTwoRelays == Spec => []NoSharedCommand
<1>1. IInv => NoSharedCommand
  BY DEF IInv, SafeInv
<1> QED
  BY <1>1, Invariance, PTL

(* One charge for a booking, of the sum its payment records (ADR-0008).     *)
THEOREM ChargesMatch == Spec => []ChargeMatchesPayment
<1>1. IInv => ChargeMatchesPayment
  BY DEF IInv, SafeInv
<1> QED
  BY <1>1, Invariance, PTL

(* A set that has at most one element has that many.                        *)
LEMMA AtMostOne ==
  ASSUME NEW S, \A i, j \in S : i = j
  PROVE  /\ S = {} => Cardinality(S) = 0
         /\ S # {} => Cardinality(S) = 1
<1>1. CASE S = {}
  BY <1>1, FS_EmptySet
<1>2. CASE S # {}
  <2>1. PICK i : S = {i}
    BY <1>2
  <2> QED
    BY <2>1, FS_Singleton, Zenon
<1> QED
  BY <1>1, <1>2

(* handle_webhook: "the payment is succeeded and the command exists, or     *)
(* neither", and it exists once.                                            *)
THEOREM PaidOnce == Spec => []PaidIffCommanded
<1>1. IInv => PaidIffCommanded
  <2> SUFFICES ASSUME IInv, NEW b \in Booking
               PROVE  Cardinality(CommandsOf("booking.confirm", b)) =
                        IF payments[b] # NoRow /\ payments[b].status = "succeeded" THEN 1 ELSE 0
    BY DEF PaidIffCommanded
  <2>1. \A i, j \in CommandsOf("booking.confirm", b) : i = j
    BY DEF IInv, SafeInv, OneCommand
  <2>2. CommandsOf("booking.confirm", b) # {}
          <=> payments[b] # NoRow /\ payments[b].status = "succeeded"
    BY DEF IInv, SafeInv, ConfirmInv, HasPayment
  <2> QED
    BY <2>1, <2>2, AtMostOne
<1> QED
  BY <1>1, Invariance, PTL

(* The marks of a payment tell where the command to refund it stands.       *)
THEOREM RefundsTracked == Spec => []RefundTracked
<1>1. IInv => RefundTracked
  <2> SUFFICES ASSUME IInv, NEW b \in Booking, HasPayment(b)
               PROVE  LET asked == CommandsOf("payment.refund", b)
                      IN /\ Cardinality(asked) <= 1
                         /\ payments[b].needsRefund <=> \E i \in asked : ~commands[i].published
                         /\ payments[b].refunded <=> \E i \in asked : commands[i].published
    BY DEF RefundTracked, HasPayment
  <2>1. \A i, j \in CommandsOf("payment.refund", b) : i = j
    BY DEF IInv, SafeInv, OneCommand
  <2>2. Cardinality(CommandsOf("payment.refund", b)) <= 1
    BY <2>1, AtMostOne
  <2> QED
    BY <2>2 DEF IInv, SafeInv, RefundInv
<1> QED
  BY <1>1, Invariance, PTL

(* Money goes back only for a payment that succeeded and whose confirmation *)
(* is over, and what is recorded as refunded has gone back.                 *)
THEOREM RefundsDue == Spec => []RefundsAreDue
<1>1. IInv => RefundsAreDue
  <2> SUFFICES ASSUME IInv PROVE RefundsAreDue
    OBVIOUS
  <2>1. ASSUME NEW b \in refunds
        PROVE  /\ payments[b].status = "succeeded"
               /\ \A i \in CommandsOf("booking.confirm", b) : commands[i].published
               /\ CommandsOf("payment.refund", b) # {}
    <3>1. b \in Booking
      BY DEF IInv, TypeInv, TypeOK
    <3>2. /\ CommandsOf("payment.refund", b) # {}
          /\ \E i \in CommandsOf("booking.confirm", b) : commands[i].published
      BY <3>1 DEF IInv, SafeInv, RefundInv
    <3> QED
      BY <3>1, <3>2 DEF IInv, SafeInv, OneCommand, ConfirmInv
  <2>2. \A b \in Booking : payments[b] # NoRow /\ payments[b].refunded => b \in refunds
    BY DEF IInv, SafeInv, RefundInv, HasPayment
  <2> QED
    BY <2>1, <2>2 DEF RefundsAreDue
<1> QED
  BY <1>1, Invariance, PTL

(* The first outcome recorded for a payment is final.                       *)
THEOREM OutcomesFinal == Spec => OutcomeIsFinal
<1>1. IInv /\ [Next]_vars =>
        [\A b \in Booking : payments[b] # NoRow /\ payments'[b].status # payments[b].status
           => payments[b].status = "pending"]_vars
  BY RowStep DEF HasPayment
<1> QED
  BY <1>1, Invariance, PTL DEF Spec, OutcomeIsFinal

-----------------------------------------------------------------------------
(* SlotPayments: the inductive invariant. *)

BookingTypes ==
  /\ bookings \in [Booking -> B!BookingRow \cup {NoRow}]
  /\ outbox \in [Booking -> Seq(B!BookingEvent)]

CallTypes ==
  /\ payCalls \subseteq Booking
  /\ confirming \in [Thread -> Confirmation \cup {NoCall}]
  /\ waiting \in [Relay -> Thread \cup {NoCall}]
  /\ faults \in 0 .. MaxFaults

(* Only a booking that exists is ever paid for.                             *)
PaymentsBooked ==
  \A b \in Booking : b \in payCalls \/ HasPayment(b) => B!Exists(b)

(* A booking announces its confirmation when it is confirmed.               *)
ConfirmedAnnounced ==
  \A b \in Booking : B!Exists(b) /\ bookings[b].status = "confirmed" => WasConfirmed(b)

(* A success that PayStub has announced is of a charge that was paid, and   *)
(* that its payment has on record; a webhook brings an announced event.     *)
EventsTrue ==
  /\ \A x \in events : x.type = "charge.succeeded" =>
       /\ charges[x.booking] # NoRow /\ charges[x.booking].paid
       /\ HasPayment(x.booking) /\ payments[x.booking].charged
  /\ \A w \in Worker : pc[w] \in {"record", "lock", "commit"} => req[w].event \in events

SucceededMeansPaid ==
  \A b \in Booking : HasPayment(b) /\ payments[b].status = "succeeded" =>
    /\ charges[b] # NoRow /\ charges[b].paid
    /\ payments[b].charged

(* A confirmation under way has a command behind it, and tells no lie: a    *)
(* booking it has read as confirmed, or has confirmed, announced it.        *)
ConfirmingInv ==
  \A t \in Thread : confirming[t] # NoCall =>
    /\ CommandsOf("booking.confirm", confirming[t].booking) # {}
    /\ confirming[t].seen = "confirmed" \/ confirming[t].answer = "ok"
         => WasConfirmed(confirming[t].booking)

(* A relay waits for the thread that serves the command it delivers, and    *)
(* nobody else waits for that thread.                                       *)
WaitingInv ==
  \A r \in Relay : waiting[r] # NoCall =>
    /\ confirming[waiting[r]] # NoCall
    /\ Delivering(r, "booking.confirm")
    /\ confirming[waiting[r]].booking = commands[Current(r)].booking
    /\ \A q \in Relay : waiting[q] = waiting[r] => q = r

(* A confirmation that a batch has delivered was accepted or refused.       *)
DeliveredInv ==
  \A r \in Relay : \A i \in batch[r].done :
    commands[i].topic = "booking.confirm" =>
      WasConfirmed(commands[i].booking) \/ commands[i].booking \in Rejected(r)

SystemIInv ==
  /\ BookingTypes
  /\ CallTypes
  /\ PaymentsBooked
  /\ ConfirmedAnnounced
  /\ EventsTrue
  /\ SucceededMeansPaid
  /\ ConfirmingInv
  /\ WaitingInv
  /\ DeliveredInv
  /\ ConfirmedMeansPaid
  /\ KeptMoneyBoughtSlot

-----------------------------------------------------------------------------
(* The system takes only steps of its services. *)

(* Every step of the system is a step of the payments service, or leaves it *)
(* alone.                                                                   *)
LEMMA PaymentsStep ==
  ASSUME [SystemNext]_allVars
  PROVE  [Next]_vars
<1>1. CASE UNCHANGED allVars
  BY <1>1 DEF allVars
<1>2. CASE BookingStep \/ \E b \in Booking : CheckPayable(b)
  BY <1>2 DEF BookingStep, CheckPayable
<1>3. CASE PayStubStep
  BY <1>3 DEF PayStubStep, Next
<1>4. ASSUME NEW w \in Worker,
             \/ \E b \in Booking : PayCallArrives(w, b)
             \/ \E id \in Event : WebhookArrives(w, id)
             \/ Work(w)
             \/ WorkerFault(w)
      PROVE  [Next]_vars
  BY <1>4, Zenon DEF PayCallArrives, WebhookArrives, Work, WorkerFault, WorkerStep, Next
<1>5. ASSUME NEW r \in Relay, Relaying(r) \/ RelayFault(r) \/ ReceiveAnswer(r)
      PROVE  [Next]_vars
  BY <1>5 DEF Relaying, RelayFault, ReceiveAnswer, RelayStep, Next
<1>6. ASSUME NEW r \in Relay, NEW t \in Thread, SendConfirm(r, t) PROVE [Next]_vars
  BY <1>6 DEF SendConfirm
<1>7. ASSUME NEW t \in Thread, AnswerFromRead(t) \/ UpdateBooking(t) \/ ThreadFault(t)
      PROVE  [Next]_vars
  BY <1>7 DEF AnswerFromRead, UpdateBooking, ThreadFault
<1> QED
  BY <1>1, <1>2, <1>3, <1>4, <1>5, <1>6, <1>7 DEF SystemNext

(* The same of the booking service.                                         *)
LEMMA BookingServiceStep ==
  ASSUME CallTypes, [SystemNext]_allVars
  PROVE  [B!Next]_(B!vars)
<1>1. CASE UNCHANGED bookingVars
  BY <1>1 DEF bookingVars, bookingTables, B!vars
<1>2. CASE BookingStep
  BY <1>2 DEF BookingStep, B!Next
<1>3. ASSUME NEW t \in Thread, UpdateBooking(t) PROVE [B!Next]_(B!vars)
  <2>1. confirming[t].booking \in Booking
    BY <1>3 DEF UpdateBooking, Serving, CallTypes, Confirmation
  <2> QED
    BY <1>1, <1>3, <2>1 DEF UpdateBooking, B!Next
<1>4. \/ UNCHANGED bookingVars
      \/ BookingStep
      \/ \E t \in Thread : UpdateBooking(t)
  BY Zenon DEF SystemNext, CheckPayable, PayStubStep, PayCallArrives, WebhookArrives, Work,
         WorkerFault, Relaying, RelayFault, ReceiveAnswer, SendConfirm, AnswerFromRead,
         ThreadFault, allVars
<1> QED
  BY <1>1, <1>2, <1>3, <1>4

(* What is proved of the payments service holds in the whole system.        *)
THEOREM SystemImplementsPayments == SystemSpec => Spec
<1>1. SystemInit => Init
  BY DEF SystemInit
<1>2. [SystemNext]_allVars => [Next]_vars
  BY PaymentsStep
<1> QED
  BY <1>1, <1>2, PTL DEF SystemSpec, Spec

-----------------------------------------------------------------------------
(* Bookings. *)

(* The rows of a set move to a status, and announce it, within their types. *)
LEMMA MovedRows ==
  ASSUME BookingTypes, NEW X \in SUBSET Booking, NEW target \in DOMAIN B!StatusEvents,
         \A b \in X : B!Exists(b)
  PROVE  /\ B!Moved(X, target) \in [Booking -> B!BookingRow \cup {NoRow}]
         /\ B!Announced(X, target) \in [Booking -> Seq(B!BookingEvent)]
<1>1. target \in B!BookingStatus
  BY DEF B!StatusEvents, B!BookingStatus
<1>2. ASSUME NEW b \in X PROVE [bookings[b] EXCEPT !.status = target] \in B!BookingRow
  <2>1. bookings[b] \in B!BookingRow
    BY DEF BookingTypes, B!Exists
  <2> QED
    BY <1>1, <2>1 DEF B!BookingRow
<1>3. B!StatusEvents[target] \in B!BookingEvent
  BY DEF B!BookingEvent
<1>4. \A b \in Booking : Append(outbox[b], B!StatusEvents[target]) \in Seq(B!BookingEvent)
  BY <1>3 DEF BookingTypes
<1> QED
  BY <1>2, <1>4 DEF B!Moved, B!Announced, BookingTypes

(* A booking reaches a status and announces it.                             *)
Reaches(b, target) ==
  /\ B!Exists(b)
  /\ bookings'[b] # NoRow /\ bookings'[b].status = target
  /\ outbox'[b] = Append(outbox[b], B!StatusEvents[target])

Stays(b) == bookings'[b] = bookings[b] /\ outbox'[b] = outbox[b]

Appears(b) ==
  /\ ~B!Exists(b)
  /\ bookings'[b] # NoRow /\ bookings'[b].status = "pending"
  /\ outbox'[b] = outbox[b]

LEMMA RowReaches ==
  ASSUME BookingTypes, NEW target \in B!BookingStatus, NEW b \in Booking, B!Exists(b)
  PROVE  LET row == [bookings[b] EXCEPT !.status = target]
         IN row # NoRow /\ row.status = target
<1>1. bookings[b] \in B!BookingRow
  BY DEF BookingTypes, B!Exists
<1>2. [bookings[b] EXCEPT !.status = target] \in B!BookingRow
  BY <1>1 DEF B!BookingRow
<1> QED
  BY <1>1, <1>2, SlotPaymentsAssumption DEF B!BookingRow

(* What a new booking does to the bookings.                                 *)
LEMMA BookMoves ==
  ASSUME BookingTypes, NEW s \in Slot, NEW a \in Booking, NEW c \in Client, NEW now \in B!Time,
         B!Book(s, a, c, now), NEW b \in Booking
  PROVE  Stays(b) \/ Appears(b) \/ Reaches(b, "expired")
<1> DEFINE new == [slot |-> s, client |-> c, status |-> "pending", created |-> now]
<1>1. new # NoRow /\ new.status = "pending"
  <2>1. new \in B!BookingRow
    BY DEF B!BookingRow, B!BookingStatus
  <2> QED
    BY <2>1, SlotPaymentsAssumption
<1>2. /\ ~B!Exists(a)
      /\ bookings' = [B!Moved(B!ActiveOn(s), "expired") EXCEPT ![a] = new]
      /\ outbox' = B!Announced(B!ActiveOn(s), "expired")
  BY DEF B!Book
<1> HIDE DEF new
<1>3. CASE b = a
  <2>1. b \notin B!ActiveOn(s)
    BY <1>2, <1>3 DEF B!ActiveOn
  <2> QED
    BY <1>1, <1>2, <1>3, <2>1 DEF B!Moved, B!Announced, Appears
<1>4. CASE b # a /\ b \in B!ActiveOn(s)
  <2>1. B!Exists(b) /\ "expired" \in B!BookingStatus
    BY <1>4 DEF B!ActiveOn, B!BookingStatus
  <2>2. /\ bookings'[b] = [bookings[b] EXCEPT !.status = "expired"]
        /\ outbox'[b] = Append(outbox[b], B!StatusEvents["expired"])
    BY <1>2, <1>4, Zenon DEF B!Moved, B!Announced
  <2> QED
    BY <2>1, <2>2, RowReaches DEF Reaches
<1>5. CASE b # a /\ b \notin B!ActiveOn(s)
  BY <1>2, <1>5 DEF B!Moved, B!Announced, Stays
<1> QED
  BY <1>3, <1>4, <1>5

(* What a confirmation or a cancellation does to the bookings.              *)
LEMMA ChangeMoves ==
  ASSUME BookingTypes, NEW a \in Booking, NEW target \in {"confirmed", "cancelled"},
         B!ChangeStatus(a, target), NEW b \in Booking
  PROVE  Stays(b) \/ (b = a /\ Reaches(b, target))
<1>1. CASE b = a
  <2>1. B!Exists(b) /\ target \in B!BookingStatus
    BY <1>1 DEF B!ChangeStatus, B!BookingStatus
  <2>2. /\ bookings'[b] = [bookings[b] EXCEPT !.status = target]
        /\ outbox'[b] = Append(outbox[b], B!StatusEvents[target])
    BY <1>1 DEF B!ChangeStatus, B!Moved, B!Announced
  <2> QED
    BY <1>1, <2>1, <2>2, RowReaches DEF Reaches
<1>2. CASE b # a
  BY <1>2 DEF B!ChangeStatus, B!Moved, B!Announced, Stays
<1> QED
  BY <1>1, <1>2

LEMMA BookingMoves ==
  ASSUME BookingTypes, [B!Next]_(B!vars), NEW b \in Booking
  PROVE  \/ Stays(b) \/ Appears(b)
         \/ \E target \in {"confirmed", "cancelled", "expired"} : Reaches(b, target)
<1>1. \/ UNCHANGED <<bookings, outbox>>
      \/ \E s \in Slot, a \in Booking, c \in Client, now \in B!Time : B!Book(s, a, c, now)
      \/ \E a \in Booking, target \in {"confirmed", "cancelled"} : B!ChangeStatus(a, target)
  BY DEF B!Next, B!Tick, B!CreateSlot, B!vars
<1> QED
  BY <1>1, BookMoves, ChangeMoves DEF Stays

(* A confirmation once announced stays announced, and is announced only by  *)
(* a thread that confirms the booking.                                      *)
LEMMA ConfirmedKept ==
  ASSUME BookingTypes, [B!Next]_(B!vars), NEW b \in Booking, WasConfirmed(b)
  PROVE  WasConfirmed(b)'
<1>1. PICK i \in DOMAIN outbox[b] : outbox[b][i] = "booking.confirmed"
  BY DEF WasConfirmed
<1>2. outbox[b] \in Seq(B!BookingEvent)
  BY DEF BookingTypes
<1>3. CASE outbox'[b] = outbox[b]
  BY <1>1, <1>3 DEF WasConfirmed
<1>4. ASSUME NEW target \in {"confirmed", "cancelled", "expired"}, Reaches(b, target)
      PROVE  WasConfirmed(b)'
  <2>1. B!StatusEvents[target] \in B!BookingEvent
    BY DEF B!BookingEvent, B!StatusEvents
  <2>2. /\ Append(outbox[b], B!StatusEvents[target]) \in Seq(B!BookingEvent)
        /\ Len(Append(outbox[b], B!StatusEvents[target])) = Len(outbox[b]) + 1
        /\ \A k \in 1 .. Len(outbox[b]) :
             Append(outbox[b], B!StatusEvents[target])[k] = outbox[b][k]
    BY <1>2, <2>1, AppendProperties
  <2>3. /\ i \in 1 .. Len(outbox[b]) /\ Len(outbox[b]) \in Nat
        /\ outbox'[b] = Append(outbox[b], B!StatusEvents[target])
    BY <1>1, <1>2, <1>4, LenProperties DEF Reaches
  <2>4. i \in DOMAIN outbox'[b]
    BY <2>2, <2>3, LenProperties
  <2> QED
    BY <1>1, <2>2, <2>3, <2>4 DEF WasConfirmed
<1> QED
  BY <1>3, <1>4, BookingMoves DEF Stays, Appears

LEMMA NewlyConfirmed ==
  ASSUME BookingTypes, NEW b \in Booking, NEW target \in {"confirmed", "cancelled", "expired"},
         Reaches(b, target)
  PROVE  /\ target = "confirmed" => WasConfirmed(b)'
         /\ target # "confirmed" /\ WasConfirmed(b)' => WasConfirmed(b)
<1> DEFINE e == B!StatusEvents[target]
<1>1. e \in B!BookingEvent
  BY DEF B!BookingEvent, B!StatusEvents
<1>2. e = "booking.confirmed" <=> target = "confirmed"
  BY DEF B!StatusEvents
<1>3. outbox[b] \in Seq(B!BookingEvent) /\ outbox'[b] = Append(outbox[b], e)
  BY DEF BookingTypes, Reaches
<1> HIDE DEF e
<1>4. /\ outbox'[b] \in Seq(B!BookingEvent)
      /\ Len(outbox'[b]) = Len(outbox[b]) + 1
      /\ \A k \in 1 .. Len(outbox[b]) : outbox'[b][k] = outbox[b][k]
      /\ outbox'[b][Len(outbox[b]) + 1] = e
  BY <1>1, <1>3, AppendProperties
<1>5. /\ Len(outbox[b]) \in Nat
      /\ DOMAIN outbox[b] = 1 .. Len(outbox[b])
      /\ DOMAIN outbox'[b] = 1 .. Len(outbox[b]) + 1
  BY <1>3, <1>4, LenProperties
<1>6. Len(outbox[b]) + 1 \in DOMAIN outbox'[b]
  BY <1>5
<1>7. \A k \in DOMAIN outbox'[b] : k \in DOMAIN outbox[b] \/ k = Len(outbox[b]) + 1
  BY <1>5
<1>8. ASSUME target = "confirmed" PROVE WasConfirmed(b)'
  BY <1>2, <1>4, <1>6, <1>8 DEF WasConfirmed
<1>9. ASSUME target # "confirmed", NEW k \in DOMAIN outbox'[b], outbox'[b][k] = "booking.confirmed"
      PROVE  WasConfirmed(b)
  BY <1>2, <1>4, <1>5, <1>7, <1>9 DEF WasConfirmed
<1> QED
  BY <1>8, <1>9 DEF WasConfirmed

(* Bookings by themselves confirm nothing.                                  *)
LEMMA BookingStepConfirmsNone ==
  ASSUME BookingTypes, BookingStep, NEW b \in Booking, WasConfirmed(b)'
  PROVE  WasConfirmed(b)
<1>1. \/ Stays(b) \/ Appears(b)
      \/ \E target \in {"cancelled", "expired"} : Reaches(b, target)
  <2>1. \/ UNCHANGED <<bookings, outbox>>
        \/ \E s \in Slot, a \in Booking, c \in Client, now \in B!Time : B!Book(s, a, c, now)
        \/ \E a \in Booking : B!ChangeStatus(a, "cancelled")
    BY DEF BookingStep, B!Tick, B!CreateSlot
  <2> QED
    BY <2>1, BookMoves, ChangeMoves DEF Stays
<1>2. CASE outbox'[b] = outbox[b]
  BY <1>2 DEF WasConfirmed
<1>3. CASE \E target \in {"cancelled", "expired"} : Reaches(b, target)
  BY <1>3, NewlyConfirmed
<1> QED
  BY <1>1, <1>2, <1>3 DEF Stays, Appears

LEMMA BookingTypesStep ==
  ASSUME BookingTypes, [B!Next]_(B!vars)
  PROVE  BookingTypes'
<1>1. ASSUME NEW s \in Slot, NEW a \in Booking, NEW c \in Client, NEW now \in B!Time,
             B!Book(s, a, c, now)
      PROVE  BookingTypes'
  <2>1. /\ B!Moved(B!ActiveOn(s), "expired") \in [Booking -> B!BookingRow \cup {NoRow}]
        /\ B!Announced(B!ActiveOn(s), "expired") \in [Booking -> Seq(B!BookingEvent)]
    <3>1. "expired" \in DOMAIN B!StatusEvents
      BY DEF B!StatusEvents
    <3>2. B!ActiveOn(s) \in SUBSET Booking /\ \A b \in B!ActiveOn(s) : B!Exists(b)
      BY DEF B!ActiveOn
    <3> QED
      BY <3>1, <3>2, MovedRows, Zenon
  <2>2. [slot |-> s, client |-> c, status |-> "pending", created |-> now] \in B!BookingRow
    BY DEF B!BookingRow, B!BookingStatus
  <2> QED
    BY <1>1, <2>1, <2>2 DEF B!Book, BookingTypes
<1>2. ASSUME NEW a \in Booking, NEW target \in {"confirmed", "cancelled"},
             B!ChangeStatus(a, target)
      PROVE  BookingTypes'
  <2>1. target \in DOMAIN B!StatusEvents
    BY DEF B!StatusEvents
  <2>2. B!Exists(a)
    BY <1>2 DEF B!ChangeStatus
  <2> QED
    BY <1>2, <2>1, <2>2, MovedRows, Zenon DEF B!ChangeStatus, BookingTypes
<1>3. \/ UNCHANGED <<bookings, outbox>>
      \/ \E s \in Slot, a \in Booking, c \in Client, now \in B!Time : B!Book(s, a, c, now)
      \/ \E a \in Booking, target \in {"confirmed", "cancelled"} : B!ChangeStatus(a, target)
  BY DEF B!Next, B!Tick, B!CreateSlot, B!vars
<1> QED
  BY <1>1, <1>2, <1>3 DEF BookingTypes

-----------------------------------------------------------------------------
(* What a step of the payments service keeps. *)

(* A command stays, of its topic and for its booking.                       *)
LEMMA CommandsKept ==
  ASSUME IInv, [Next]_vars, NEW i \in DOMAIN commands
  PROVE  /\ i \in DOMAIN commands'
         /\ commands'[i].topic = commands[i].topic
         /\ commands'[i].booking = commands[i].booking
<1>1. commands \in Seq(Command) /\ i \in 1 .. Len(commands) /\ commands[i] \in Command
  BY LenProperties DEF IInv, TypeInv, TypeOK
<1>2. ASSUME NEW w \in Worker, CommitWebhook(w)
      PROVE  i \in DOMAIN commands' /\ commands'[i] = commands[i]
  <2>1. req[w].event.booking \in Booking
    BY <1>2 DEF CommitWebhook, IInv, SafeInv, ControlInv, Webhook, ProviderEvent
  <2> DEFINE new == NewCommand("booking.confirm", req[w].event.booking)
  <2>2. new \in Command
    BY <2>1 DEF NewCommand, Command
  <2>3. UNCHANGED commands \/ commands' = Append(commands, new)
    BY <1>2 DEF CommitWebhook
  <2> HIDE DEF new
  <2>4. PICK c \in Command : UNCHANGED commands \/ commands' = Append(commands, c)
    BY <2>2, <2>3
  <2>5. /\ Append(commands, c) \in Seq(Command)
        /\ Len(Append(commands, c)) = Len(commands) + 1
        /\ \A k \in 1 .. Len(commands) : Append(commands, c)[k] = commands[k]
    BY <1>1, AppendProperties
  <2>6. i \in DOMAIN Append(commands, c) /\ Append(commands, c)[i] = commands[i]
    BY <1>1, <2>5, LenProperties
  <2> QED
    BY <2>4, <2>6
<1>3. ASSUME NEW r \in Relay, CommitBatch(r)
      PROVE  /\ i \in DOMAIN commands'
             /\ commands'[i].topic = commands[i].topic
             /\ commands'[i].booking = commands[i].booking
  <2>1. i \in DOMAIN commands'
    BY <1>3, CommittedCommandsOf
  <2>2. commands'[i] = [commands[i] EXCEPT !.published = @ \/ i \in batch[r].done]
    BY <1>1, <1>3, CommittedCommands DEF IInv
  <2> QED
    BY <1>1, <2>1, <2>2 DEF Command
<1>4. \/ UNCHANGED commands
      \/ \E w \in Worker : CommitWebhook(w)
      \/ \E r \in Relay : CommitBatch(r)
  BY Writers
<1> QED
  BY <1>2, <1>3, <1>4

LEMMA CommandsOfKept ==
  ASSUME IInv, [Next]_vars, NEW topic, NEW b, CommandsOf(topic, b) # {}
  PROVE  CommandsOf(topic, b)' # {}
BY CommandsKept DEF CommandsOf

(* A charge that was made stays, and one that was paid stays paid.          *)
LEMMA ChargeKept ==
  ASSUME IInv, [Next]_vars, NEW b \in Booking, charges[b] # NoRow
  PROVE  charges'[b] # NoRow /\ (charges[b].paid => charges'[b].paid)
<1>1. charges \in [Booking -> Charge \cup {NoRow}] /\ charges[b] \in Charge
  BY DEF IInv, TypeInv, TypeOK
<1>2. ASSUME NEW w \in Worker, NEW answered \in BOOLEAN, AskCharge(w, answered)
      PROVE  charges'[b] = charges[b]
  BY <1>1, <1>2 DEF AskCharge
<1>3. ASSUME NEW a \in Booking, NEW e \in Event, NEW type \in EventType, SettleCharge(a, e, type)
      PROVE  charges'[b] # NoRow /\ (charges[b].paid => charges'[b].paid)
  <2>1. CASE a = b
    <3>1. PICK p \in BOOLEAN : p <=> charges[b].paid \/ type = "charge.succeeded"
      BY Zenon
    <3>2. charges'[b] = [charges[b] EXCEPT !.paid = p]
      BY <1>1, <1>3, <2>1, <3>1 DEF SettleCharge
    <3>3. charges'[b] \in Charge /\ charges'[b].paid = p
      BY <1>1, <3>2 DEF Charge
    <3> QED
      BY <3>1, <3>3, PaymentsServiceAssumption
  <2>2. CASE a # b
    BY <1>1, <1>3, <2>2 DEF SettleCharge
  <2> QED
    BY <2>1, <2>2
<1>4. \/ UNCHANGED charges
      \/ \E w \in Worker, answered \in BOOLEAN : AskCharge(w, answered)
      \/ \E a \in Booking, e \in Event, type \in EventType : SettleCharge(a, e, type)
  BY Writers
<1> QED
  BY <1>2, <1>3, <1>4

(* A payment that has its charge on record keeps it.                        *)
LEMMA RecordKept ==
  ASSUME IInv, [Next]_vars, NEW b \in Booking, HasPayment(b), payments[b].charged
  PROVE  payments'[b].charged
<1>1. payments[b] \in Payment /\ payments \in [Booking -> Payment \cup {NoRow}]
  BY DEF HasPayment, IInv, TypeInv, TypeOK
<1>2. CASE UNCHANGED payments
  BY <1>2
<1>3. ASSUME NEW w \in Worker, NEW a \in Booking, NEW amount \in Amount,
             StartPayment(w, a, amount)
      PROVE  payments'[b] = payments[b]
  BY <1>1, <1>3 DEF StartPayment, HasPayment
<1>4. ASSUME NEW w \in Worker, SaveCharge(w) PROVE payments'[b].charged
  <2>1. CASE b = req[w].booking
    <3>1. payments'[b] = [payments[b] EXCEPT !.charged = TRUE]
      BY <1>1, <1>4, <2>1, Zenon DEF SaveCharge
    <3> QED
      BY <1>1, <3>1 DEF Payment
  <2>2. CASE b # req[w].booking
    BY <1>1, <1>4, <2>2 DEF SaveCharge
  <2> QED
    BY <2>1, <2>2
<1>5. ASSUME NEW w \in Worker, CommitWebhook(w) PROVE payments'[b].charged
  <2> DEFINE target == TargetStatus[req[w].event.type]
  <2>1. \/ payments'[b] = payments[b]
        \/ payments'[b] = [payments[b] EXCEPT !.status = target]
    BY <1>1, <1>5 DEF CommitWebhook
  <2> QED
    BY <1>1, <2>1 DEF Payment
<1>6. ASSUME NEW r \in Relay, CommitBatch(r) PROVE payments'[b].charged
  <2>1. \/ payments'[b] = [payments[b] EXCEPT !.needsRefund = FALSE, !.refunded = TRUE]
        \/ payments'[b] = [payments[b] EXCEPT !.needsRefund = TRUE]
        \/ payments'[b] = payments[b]
    BY <1>6, Zenon DEF CommitBatch
  <2> QED
    BY <1>1, <2>1, Zenon DEF Payment
<1>7. \/ UNCHANGED payments
      \/ \E w \in Worker, a \in Booking, amount \in Amount : StartPayment(w, a, amount)
      \/ \E w \in Worker : SaveCharge(w) \/ CommitWebhook(w)
      \/ \E r \in Relay : CommitBatch(r)
  BY Writers
<1> QED
  BY <1>2, <1>3, <1>4, <1>5, <1>6, <1>7

(* A payment succeeds only by a webhook that brings the success.            *)
LEMMA SuccessIsBrought ==
  ASSUME IInv, [Next]_vars, NEW b \in Booking,
         payments'[b] # NoRow, payments'[b].status = "succeeded",
         ~(HasPayment(b) /\ payments[b].status = "succeeded")
  PROVE  \E w \in Worker : /\ pc[w] = "commit" /\ req[w].event.booking = b
                           /\ req[w].event.type = "charge.succeeded"
<1>1. payments \in [Booking -> Payment \cup {NoRow}]
  BY DEF IInv, TypeInv, TypeOK
<1>2. CASE UNCHANGED payments
  BY <1>2 DEF HasPayment
<1>3. ASSUME NEW w \in Worker, NEW a \in Booking, NEW amount \in Amount,
             StartPayment(w, a, amount)
      PROVE  FALSE
  BY <1>1, <1>3 DEF StartPayment, HasPayment
<1>4. ASSUME NEW w \in Worker, SaveCharge(w) PROVE FALSE
  <2>1. /\ req[w].booking \in Booking /\ HasPayment(req[w].booking)
        /\ payments' = [payments EXCEPT ![req[w].booking].charged = TRUE]
    BY <1>4 DEF SaveCharge, IInv, SafeInv, ControlInv, PayRequest
  <2>2. HasPayment(b)
    BY <1>1, <2>1 DEF HasPayment
  <2>3. payments[b] \in Payment
    BY <1>1, <2>2 DEF HasPayment
  <2>4. payments'[b].status = payments[b].status
    BY <1>1, <2>1, <2>3 DEF Payment
  <2> QED
    BY <2>2, <2>4
<1>5. ASSUME NEW w \in Worker, CommitWebhook(w)
      PROVE  /\ pc[w] = "commit" /\ req[w].event.booking = b
             /\ req[w].event.type = "charge.succeeded"
  <2>1. req[w].event \in ProviderEvent
    BY <1>5 DEF CommitWebhook, IInv, SafeInv, ControlInv, Webhook
  <2>2. /\ req[w].apply
        /\ payments' = [payments EXCEPT ![req[w].event.booking].status
                                           = TargetStatus[req[w].event.type]]
    BY <1>5 DEF CommitWebhook, HasPayment
  <2>3. b = req[w].event.booking
    BY <1>1, <2>1, <2>2 DEF HasPayment, ProviderEvent
  <2>4. HasPayment(b)
    <3>1. pc[w] = "commit"
      BY <1>5 DEF CommitWebhook
    <3>2. RowLock
      BY DEF IInv, SafeInv
    <3> QED
      BY <2>2, <2>3, <3>1, <3>2 DEF RowLock
  <2>5. payments[b] \in Payment
    BY <1>1, <2>4 DEF HasPayment
  <2>6. payments'[b].status = TargetStatus[req[w].event.type]
    BY <1>1, <2>2, <2>3, <2>5 DEF Payment
  <2> QED
    BY <1>5, <2>1, <2>3, <2>6 DEF CommitWebhook, ProviderEvent, TargetStatus, EventType
<1>6. ASSUME NEW r \in Relay, CommitBatch(r) PROVE FALSE
  <2>1. b \notin Rejected(r) \cup batch[r].refunded
    <3>1. \A a \in Rejected(r) \cup batch[r].refunded :
            HasPayment(a) /\ payments[a].status = "succeeded"
      BY BatchRows
    <3> QED
      BY <3>1
  <2> QED
    BY <1>6, <2>1, Zenon DEF CommitBatch, HasPayment
<1>7. \/ UNCHANGED payments
      \/ \E w \in Worker, a \in Booking, amount \in Amount : StartPayment(w, a, amount)
      \/ \E w \in Worker : SaveCharge(w) \/ CommitWebhook(w)
      \/ \E r \in Relay : CommitBatch(r)
  BY Writers
<1> QED
  BY <1>2, <1>3, <1>4, <1>5, <1>6, <1>7

-----------------------------------------------------------------------------
(* What a step of the system keeps of its bookings and payments. *)

(* Which steps of the system write the events of PayStub, and what a relay  *)
(* holds and waits for.                                                     *)
LEMMA SystemWriters ==
  ASSUME [SystemNext]_allVars
  PROVE  /\ UNCHANGED events \/ PayStubStep
         /\ \/ UNCHANGED <<batch, waiting>>
            \/ \E r \in Relay : \/ Relaying(r) \/ RelayFault(r) \/ ReceiveAnswer(r)
                                \/ \E t \in Thread : SendConfirm(r, t)
<1>1. CASE UNCHANGED allVars
  BY <1>1 DEF allVars, vars, paystub, calls
<1>2. CASE BookingStep
  BY <1>2 DEF BookingStep, vars, paystub, calls
<1>3. CASE PayStubStep
  BY <1>3, Zenon DEF PayStubStep, SettleCharge, calls
<1>4. ASSUME NEW b \in Booking, CheckPayable(b) PROVE UNCHANGED <<events, batch, waiting>>
  BY <1>4 DEF CheckPayable, vars, paystub
<1>5. ASSUME NEW w \in Worker, NEW b \in Booking, PayCallArrives(w, b)
      PROVE  UNCHANGED <<events, batch, waiting>>
  BY <1>5 DEF PayCallArrives, StartPayment, paystub
<1>6. ASSUME NEW w \in Worker, NEW id \in Event, WebhookArrives(w, id)
      PROVE  UNCHANGED <<events, batch, waiting>>
  BY <1>6 DEF WebhookArrives, StartWebhook, paystub, calls
<1>7. ASSUME NEW w \in Worker, Work(w) \/ WorkerFault(w)
      PROVE  UNCHANGED <<events, batch, waiting>>
  <2>1. UNCHANGED waiting
    BY <1>7, Zenon DEF Work, WorkerFault, calls
  <2>2. \A answered \in BOOLEAN : AskCharge(w, answered) => UNCHANGED <<events, batch>>
    BY DEF AskCharge
  <2>3. ASSUME \/ SaveCharge(w) \/ RecordEvent(w) \/ LockPayment(w)
               \/ CommitWebhook(w) \/ Abort(w)
        PROVE  UNCHANGED <<events, batch>>
    BY <2>3 DEF SaveCharge, RecordEvent, LockPayment, CommitWebhook, Abort, paystub
  <2> QED
    BY <1>7, <2>1, <2>2, <2>3, Zenon DEF Work, WorkerFault
<1>8. ASSUME NEW r \in Relay, Relaying(r) \/ RelayFault(r)
      PROVE  UNCHANGED events
  BY <1>8, Zenon DEF Relaying, RelayFault, TakeBatch, Refund, CommitBatch, RollbackBatch,
              RefundUnanswered, paystub
<1>9. ASSUME NEW r \in Relay, ReceiveAnswer(r)
      PROVE  UNCHANGED events
  BY <1>9 DEF ReceiveAnswer, ConfirmAccepted, ConfirmRejected, paystub
<1>10. ASSUME NEW r \in Relay, NEW t \in Thread, SendConfirm(r, t)
       PROVE  UNCHANGED events
  BY <1>10 DEF SendConfirm, vars, paystub
<1>11. ASSUME NEW t \in Thread, AnswerFromRead(t) \/ UpdateBooking(t) \/ ThreadFault(t)
       PROVE  UNCHANGED <<events, batch, waiting>>
  BY <1>11 DEF AnswerFromRead, UpdateBooking, ThreadFault, vars, paystub
<1> QED
  BY <1>1, <1>2, <1>3, <1>4, <1>5, <1>6, <1>7, <1>8, <1>9, <1>10, <1>11 DEF SystemNext

(* A booking that exists goes on existing.                                  *)
LEMMA ExistsKept ==
  ASSUME BookingTypes, [B!Next]_(B!vars), NEW b \in Booking, B!Exists(b)
  PROVE  bookings'[b] # NoRow
BY BookingMoves DEF Stays, Appears, Reaches, B!Exists

(* A payment belongs to a booking that was payable when it was judged.      *)
LEMMA PaymentsBookedStep ==
  ASSUME IInv, SystemIInv, [SystemNext]_allVars
  PROVE  PaymentsBooked'
<1>1. [Next]_vars /\ [B!Next]_(B!vars)
  BY PaymentsStep, BookingServiceStep DEF SystemIInv
<1>2. SUFFICES ASSUME NEW b \in Booking, b \in payCalls' \/ payments'[b] # NoRow
               PROVE  bookings'[b] # NoRow
  BY DEF PaymentsBooked, HasPayment, B!Exists
<1>3. ASSUME B!Exists(b) PROVE bookings'[b] # NoRow
  BY <1>1, <1>3, ExistsKept DEF SystemIInv
<1>4. CASE \E a \in Booking : CheckPayable(a)
  <2>1. b \in payCalls \/ payments[b] # NoRow \/ B!Exists(b)
    BY <1>2, <1>4 DEF CheckPayable, Payable, vars, tables
  <2> QED
    BY <1>3, <2>1 DEF SystemIInv, PaymentsBooked, HasPayment
<1>5. ASSUME NEW w \in Worker, NEW a \in Booking, PayCallArrives(w, a)
      PROVE  bookings'[b] # NoRow
  <2>1. PICK amount \in Amount : StartPayment(w, a, amount)
    BY <1>5 DEF PayCallArrives
  <2>2. a \in payCalls /\ payCalls' \subseteq payCalls
    BY <1>5 DEF PayCallArrives
  <2>3. b = a \/ payments'[b] = payments[b]
    BY <2>1 DEF StartPayment, IInv, TypeInv, TypeOK
  <2> QED
    BY <1>2, <1>3, <2>2, <2>3 DEF SystemIInv, PaymentsBooked, HasPayment
<1>6. ASSUME UNCHANGED payCalls, payments'[b] # NoRow => HasPayment(b)
      PROVE  bookings'[b] # NoRow
  BY <1>2, <1>3, <1>6 DEF SystemIInv, PaymentsBooked
<1>7. ASSUME ~\E a \in Booking : CheckPayable(a),
             ~\E w \in Worker, a \in Booking : PayCallArrives(w, a)
      PROVE  UNCHANGED payCalls /\ (payments'[b] # NoRow => HasPayment(b))
  <2>1. UNCHANGED payCalls
    BY <1>7, Zenon DEF SystemNext, BookingStep, PayStubStep, WebhookArrives, Work, WorkerFault,
                Relaying, RelayFault, ReceiveAnswer, SendConfirm, AnswerFromRead,
                UpdateBooking, ThreadFault, allVars, calls
  <2>2. payments \in [Booking -> Payment \cup {NoRow}]
    BY DEF IInv, TypeInv, TypeOK
  <2>3. ASSUME NEW w \in Worker, SaveCharge(w), payments'[b] # NoRow PROVE HasPayment(b)
    <3>1. HasPayment(req[w].booking)
      BY <2>3 DEF SaveCharge, IInv, SafeInv, ControlInv
    <3> QED
      BY <2>2, <2>3, <3>1 DEF SaveCharge, HasPayment
  <2>4. ASSUME NEW w \in Worker, CommitWebhook(w), payments'[b] # NoRow PROVE HasPayment(b)
    <3>1. req[w].apply => HasPayment(req[w].event.booking)
      BY <2>4 DEF CommitWebhook, IInv, SafeInv, RowLock
    <3> QED
      BY <2>2, <2>4, <3>1 DEF CommitWebhook, HasPayment
  <2>5. ASSUME NEW r \in Relay, CommitBatch(r), payments'[b] # NoRow PROVE HasPayment(b)
    <3>1. b \in Rejected(r) \cup batch[r].refunded => HasPayment(b)
      BY BatchRows
    <3>2. CASE b \in Rejected(r) \cup batch[r].refunded
      BY <3>1, <3>2
    <3>3. CASE b \notin Rejected(r) \cup batch[r].refunded
      <4>1. payments'[b] = IF b \in batch[r].refunded
                           THEN [payments[b] EXCEPT !.needsRefund = FALSE, !.refunded = TRUE]
                           ELSE IF b \in Rejected(r)
                                THEN [payments[b] EXCEPT !.needsRefund = TRUE]
                                ELSE payments[b]
        BY <2>5, Zenon DEF CommitBatch
      <4>2. b \notin batch[r].refunded /\ b \notin Rejected(r)
        BY <3>3
      <4>3. payments'[b] = payments[b]
        BY <4>1, <4>2, Zenon
      <4> QED
        BY <2>5, <4>3 DEF HasPayment
    <3> QED
      BY <3>2, <3>3
  <2>6. \/ UNCHANGED payments
        \/ \E w \in Worker : SaveCharge(w) \/ CommitWebhook(w)
        \/ \E r \in Relay : CommitBatch(r)
    BY <1>7, Zenon DEF SystemNext, BookingStep, PayStubStep, SettleCharge, WebhookArrives,
                StartWebhook, Work, WorkerFault, AskCharge, RecordEvent, LockPayment, Abort,
                Relaying, TakeBatch, Refund, RelayFault, RollbackBatch, RefundUnanswered,
                ReceiveAnswer, ConfirmAccepted, ConfirmRejected, SendConfirm,
                AnswerFromRead, UpdateBooking, ThreadFault, allVars, vars, tables
  <2> QED
    BY <2>1, <2>3, <2>4, <2>5, <2>6 DEF HasPayment
<1> QED
  BY <1>4, <1>5, <1>6, <1>7

LEMMA ConfirmedAnnouncedStep ==
  ASSUME BookingTypes, ConfirmedAnnounced, [B!Next]_(B!vars)
  PROVE  ConfirmedAnnounced'
<1>1. SUFFICES ASSUME NEW b \in Booking, bookings'[b] # NoRow, bookings'[b].status = "confirmed"
               PROVE  WasConfirmed(b)'
  BY DEF ConfirmedAnnounced, B!Exists
<1>2. CASE Stays(b)
  <2>1. WasConfirmed(b)
    BY <1>1, <1>2 DEF Stays, ConfirmedAnnounced, B!Exists
  <2> QED
    BY <2>1, ConfirmedKept
<1>3. CASE \E target \in {"confirmed", "cancelled", "expired"} : Reaches(b, target)
  <2>1. PICK target \in {"confirmed", "cancelled", "expired"} : Reaches(b, target)
    BY <1>3
  <2>2. target = "confirmed"
    BY <1>1, <2>1 DEF Reaches
  <2> QED
    BY <2>1, <2>2, NewlyConfirmed
<1>4. ~Appears(b)
  BY <1>1 DEF Appears
<1> QED
  BY <1>2, <1>3, <1>4, BookingMoves

(* PayStub announces only what the customer did, and the customer pays only *)
(* a charge on record; what a webhook brings stays announced.               *)
LEMMA EventsTrueStep ==
  ASSUME IInv, SystemIInv, [SystemNext]_allVars
  PROVE  EventsTrue'
<1>1. [Next]_vars
  BY PaymentsStep
<1>2. ASSUME NEW x \in events, x.type = "charge.succeeded"
      PROVE  /\ charges'[x.booking] # NoRow /\ charges'[x.booking].paid
             /\ payments'[x.booking] # NoRow /\ payments'[x.booking].charged
  <2>1. x.booking \in Booking
    BY DEF IInv, TypeInv, TypeOK, ProviderEvent
  <2>2. /\ charges[x.booking] # NoRow /\ charges[x.booking].paid
        /\ HasPayment(x.booking) /\ payments[x.booking].charged
    BY <1>2 DEF SystemIInv, EventsTrue
  <2> QED
    BY <1>1, <2>1, <2>2, ChargeKept, RecordKept, RowStep
<1>3. /\ events \subseteq events'
      /\ \A x \in events' \ events : x.type = "charge.succeeded" =>
           /\ charges'[x.booking] # NoRow /\ charges'[x.booking].paid
           /\ payments'[x.booking] # NoRow /\ payments'[x.booking].charged
  <2>1. CASE UNCHANGED events
    BY <2>1
  <2>2. ASSUME PayStubStep
        PROVE  /\ events \subseteq events'
               /\ \A x \in events' \ events : x.type = "charge.succeeded" =>
                    /\ charges'[x.booking] # NoRow /\ charges'[x.booking].paid
                    /\ payments'[x.booking] # NoRow /\ payments'[x.booking].charged
    <3>1. PICK b \in Booking, e \in Event, type \in EventType :
            /\ charges[b] # NoRow
            /\ type = "charge.succeeded" => payments[b].charged
            /\ SettleCharge(b, e, type)
      BY <2>2 DEF PayStubStep
    <3>2. HasPayment(b)
      BY <3>1 DEF IInv, SafeInv, ChargeMatchesPayment, HasPayment
    <3>3. /\ events' = events \cup {[id |-> e, type |-> type, booking |-> b]}
          /\ UNCHANGED payments
          /\ charges' = [charges EXCEPT ![b].paid = @ \/ type = "charge.succeeded"]
      BY <3>1 DEF SettleCharge, tables
    <3>4. ASSUME type = "charge.succeeded" PROVE charges'[b] # NoRow /\ charges'[b].paid
      <4>1. charges[b] \in Charge /\ charges \in [Booking -> Charge \cup {NoRow}]
        BY <3>1 DEF IInv, TypeInv, TypeOK
      <4>2. charges'[b] = [charges[b] EXCEPT !.paid = TRUE]
        BY <3>3, <3>4, <4>1, Zenon
      <4>3. charges'[b] \in Charge /\ charges'[b].paid = TRUE
        BY <4>1, <4>2, Zenon DEF Charge
      <4> QED
        BY <4>3, PaymentsServiceAssumption
    <3>5. \A x \in events' \ events : x.booking = b /\ x.type = type
      BY <3>3
    <3> QED
      BY <3>1, <3>2, <3>3, <3>4, <3>5 DEF HasPayment
  <2>3. UNCHANGED events \/ PayStubStep
    BY SystemWriters
  <2> QED
    BY <2>1, <2>2, <2>3
<1>4. ASSUME NEW w \in Worker, pc'[w] \in {"record", "lock", "commit"}
      PROVE  req'[w].event \in events
  <2>1. CASE pc[w] \in {"record", "lock", "commit"} /\ req'[w].event = req[w].event
    BY <2>1 DEF SystemIInv, EventsTrue
  <2>2. ASSUME NEW e \in events, StartWebhook(w, e) PROVE req'[w].event \in events
    <3>1. req'[w] = [op |-> "webhook", event |-> e, apply |-> FALSE]
      BY <2>2 DEF StartWebhook, Become, IInv, TypeInv, TypeOK
    <3> QED
      BY <3>1
  <2>3. \/ pc[w] \in {"record", "lock", "commit"} /\ req'[w].event = req[w].event
        \/ \E e \in events : StartWebhook(w, e)
    <3> DEFINE WorkerRequest(v) ==
                 \/ \E b \in Booking, amount \in Amount : StartPayment(v, b, amount)
                 \/ \E answered \in BOOLEAN : AskCharge(v, answered)
                 \/ SaveCharge(v) \/ CommitWebhook(v) \/ Abort(v)
    <3>1. /\ pc \in [Worker -> {"idle", "charge", "save", "record", "lock", "commit"}]
          /\ req \in [Worker -> PayRequest \cup Webhook \cup {NoRequest}]
      BY DEF IInv, TypeInv, TypeOK
    <3>2. CASE pc'[w] = pc[w] /\ req'[w] = req[w]
      BY <1>4, <3>2
    <3>3. ASSUME NEW v \in Worker, NEW l, NEW q, Become(v, l, q), v # w
          PROVE  pc'[w] = pc[w] /\ req'[w] = req[w]
      BY <3>1, <3>3 DEF Become
    <3>4. ASSUME NEW l, NEW q, Become(w, l, q), l \in {"idle", "charge", "save"}
          PROVE  FALSE
      BY <1>4, <3>1, <3>4 DEF Become
    <3>5. ASSUME RecordEvent(w) PROVE pc[w] = "record" /\ req'[w].event = req[w].event
      BY <1>4, <3>1, <3>5 DEF RecordEvent, Become, Finish
    <3>6. ASSUME LockPayment(w) PROVE pc[w] = "lock" /\ req'[w].event = req[w].event
      <4>1. req[w] \in Webhook
        BY <3>6 DEF LockPayment, IInv, SafeInv, ControlInv
      <4>2. PICK a \in BOOLEAN : req' = [req EXCEPT ![w] = [req[w] EXCEPT !.apply = a]]
        BY <3>6, Zenon DEF LockPayment, Become
      <4> QED
        BY <3>1, <3>6, <4>1, <4>2 DEF LockPayment, Webhook
    <3>7. ASSUME NEW v \in Worker, WorkerRequest(v), v # w
          PROVE  pc'[w] = pc[w] /\ req'[w] = req[w]
      BY <3>3, <3>7, Zenon DEF WorkerRequest, StartPayment, AskCharge, SaveCharge,
                               CommitWebhook, Abort, Finish
    <3>8. ASSUME NEW v \in Worker, RecordEvent(v) \/ LockPayment(v), v # w
          PROVE  pc'[w] = pc[w] /\ req'[w] = req[w]
      BY <3>3, <3>8 DEF RecordEvent, LockPayment, Finish
    <3>9. ASSUME NEW v \in Worker, NEW e \in events, StartWebhook(v, e), v # w
          PROVE  pc'[w] = pc[w] /\ req'[w] = req[w]
      BY <3>3, <3>9 DEF StartWebhook
    <3>10. \/ UNCHANGED <<pc, req>>
           \/ \E v \in Worker :
                \/ \E b \in Booking, amount \in Amount : StartPayment(v, b, amount)
                \/ \E e \in events : StartWebhook(v, e)
                \/ WorkerStep(v)
      BY <1>1, Zenon DEF Next, RelayStep, TakeBatch, Refund, RefundUnanswered, RollbackBatch,
                  CommitBatch, ConfirmAccepted, ConfirmRejected, SettleCharge, vars
    <3>11. ~WorkerRequest(w)
      <4>1. ASSUME NEW b \in Booking, NEW amount \in Amount, StartPayment(w, b, amount)
            PROVE  FALSE
        BY <1>4, <3>4, <4>1 DEF StartPayment
      <4>2. ~\E answered \in BOOLEAN : AskCharge(w, answered)
        BY <3>4 DEF AskCharge, Finish
      <4> QED
        BY <3>4, <4>1, <4>2 DEF WorkerRequest, SaveCharge, CommitWebhook, Abort, Finish
    <3> QED
      BY <3>2, <3>5, <3>6, <3>7, <3>8, <3>9, <3>10, <3>11 DEF WorkerStep, WorkerRequest
  <2> QED
    BY <2>1, <2>2, <2>3
<1>5. ASSUME NEW x \in events', x.type = "charge.succeeded"
      PROVE  /\ charges'[x.booking] # NoRow /\ charges'[x.booking].paid
             /\ payments'[x.booking] # NoRow /\ payments'[x.booking].charged
  BY <1>2, <1>3, <1>5
<1> QED
  BY <1>3, <1>4, <1>5 DEF EventsTrue, HasPayment

LEMMA SucceededMeansPaidStep ==
  ASSUME IInv, SystemIInv, [Next]_vars
  PROVE  SucceededMeansPaid'
<1>1. SUFFICES ASSUME NEW b \in Booking, payments'[b] # NoRow, payments'[b].status = "succeeded"
               PROVE  /\ charges'[b] # NoRow /\ charges'[b].paid
                      /\ payments'[b].charged
  BY DEF SucceededMeansPaid, HasPayment
<1>2. HasPayment(b) /\ charges[b] # NoRow /\ charges[b].paid /\ payments[b].charged
  <2>1. CASE HasPayment(b) /\ payments[b].status = "succeeded"
    BY <2>1 DEF SystemIInv, SucceededMeansPaid
  <2>2. CASE ~(HasPayment(b) /\ payments[b].status = "succeeded")
    <3>1. PICK w \in Worker : /\ pc[w] = "commit" /\ req[w].event.booking = b
                              /\ req[w].event.type = "charge.succeeded"
      BY <1>1, <2>2, SuccessIsBrought
    <3> QED
      BY <3>1 DEF SystemIInv, EventsTrue
  <2> QED
    BY <2>1, <2>2
<1> QED
  BY <1>2, ChargeKept, RecordKept

-----------------------------------------------------------------------------
(* The calls between the services. *)

(* What a relay knows of the confirmation it delivers.                      *)
LEMMA ConfirmedRow ==
  ASSUME IInv, SystemIInv, NEW r \in Relay, Delivering(r, "booking.confirm"),
         NEW b, b = commands[Current(r)].booking
  PROVE  /\ b \in Booking /\ B!Exists(b) /\ bookings[b].status \in B!BookingStatus
         /\ CommandsOf("booking.confirm", b) # {}
<1>1. b \in Booking /\ CommandsOf("booking.confirm", b) # {}
  BY CurrentCommand DEF IInv
<1>2. HasPayment(b)
  BY <1>1 DEF IInv, SafeInv, ConfirmInv
<1>3. B!Exists(b) /\ bookings[b] \in B!BookingRow
  BY <1>1, <1>2 DEF SystemIInv, PaymentsBooked, BookingTypes, B!Exists
<1> QED
  BY <1>1, <1>3 DEF B!BookingRow

(* A thread that answers keeps what it serves, or drops it.                 *)
LEMMA AnswerMoves ==
  ASSUME CallTypes, NEW t \in Thread, Serving(t), NEW answer \in {"ok", "rejected"},
         Answer(t, answer)
  PROVE  /\ confirming' \in [Thread -> Confirmation \cup {NoCall}]
         /\ \A u \in Thread \ {t} : confirming'[u] = confirming[u]
         /\ confirming'[t] # NoCall =>
              /\ confirming'[t].booking = confirming[t].booking
              /\ confirming'[t].seen = confirming[t].seen
              /\ confirming'[t].answer = answer
         /\ (\E r \in Relay : waiting[r] = t) => confirming'[t] # NoCall
<1> DEFINE after == [confirming[t] EXCEPT !.answer = answer]
<1>1. confirming[t] \in Confirmation /\ confirming \in [Thread -> Confirmation \cup {NoCall}]
  BY DEF CallTypes, Serving
<1>2. /\ after \in Confirmation /\ after # NoCall
      /\ after.booking = confirming[t].booking
      /\ after.seen = confirming[t].seen
      /\ after.answer = answer
  BY <1>1, SlotPaymentsAssumption DEF Confirmation
<1>3. CASE \E r \in Relay : waiting[r] = t
  <2>1. confirming' = [confirming EXCEPT ![t] = after]
    BY <1>3, Zenon DEF Answer
  <2> HIDE DEF after
  <2> QED
    BY <1>1, <1>2, <1>3, <2>1
<1>4. CASE ~\E r \in Relay : waiting[r] = t
  <2>1. confirming' = [confirming EXCEPT ![t] = NoCall]
    BY <1>4 DEF Answer
  <2> QED
    BY <1>1, <1>4, <2>1
<1> QED
  BY <1>3, <1>4

(* A thread that ends answers what it read or wrote.                        *)
LEMMA ThreadEnds ==
  ASSUME CallTypes, NEW t \in Thread, AnswerFromRead(t) \/ UpdateBooking(t)
  PROVE  /\ Serving(t)
         /\ UNCHANGED <<vars, payCalls, waiting, faults>>
         /\ \E answer \in {"ok", "rejected"} :
              /\ Answer(t, answer)
              /\ answer = "ok" => \/ confirming[t].seen = "confirmed"
                                  \/ B!ChangeStatus(confirming[t].booking, "confirmed")
BY DEF AnswerFromRead, UpdateBooking

(* A step of the system leaves the calls alone, or is one of these.         *)
LEMMA CallMoves ==
  ASSUME [SystemNext]_allVars
  PROVE  \/ UNCHANGED <<confirming, waiting>>
         \/ \E r \in Relay, t \in Thread : SendConfirm(r, t)
         \/ \E r \in Relay : RelayFault(r) \/ ReceiveAnswer(r)
         \/ \E t \in Thread : AnswerFromRead(t) \/ UpdateBooking(t) \/ ThreadFault(t)
BY Zenon DEF SystemNext, BookingStep, PayStubStep, CheckPayable, PayCallArrives, WebhookArrives,
       Work, WorkerFault, Relaying, allVars, calls

LEMMA CallTypesStep ==
  ASSUME IInv, SystemIInv, [SystemNext]_allVars
  PROVE  CallTypes'
<1> CallTypes
  BY DEF SystemIInv
<1>1. payCalls' \subseteq Booking
  BY Zenon DEF CallTypes, SystemNext, BookingStep, PayStubStep, CheckPayable, PayCallArrives,
         WebhookArrives, Work, WorkerFault, Relaying, RelayFault, ReceiveAnswer,
         SendConfirm, AnswerFromRead, UpdateBooking, ThreadFault, allVars, calls
<1>2. faults' \in 0 .. MaxFaults
  <2>1. faults' = faults \/ Fault
    BY Zenon DEF SystemNext, BookingStep, PayStubStep, CheckPayable, PayCallArrives,
           WebhookArrives, Work, WorkerFault, Relaying, RelayFault, ReceiveAnswer,
           SendConfirm, AnswerFromRead, UpdateBooking, ThreadFault, allVars
  <2> QED
    BY <2>1, SlotPaymentsAssumption DEF Fault, CallTypes
<1>3. ASSUME NEW r \in Relay, NEW t \in Thread, SendConfirm(r, t)
      PROVE  /\ confirming' \in [Thread -> Confirmation \cup {NoCall}]
             /\ waiting' \in [Relay -> Thread \cup {NoCall}]
  <2>1. PICK b \in Booking : /\ b = commands[Current(r)].booking
                             /\ bookings[b].status \in B!BookingStatus
    BY <1>3, ConfirmedRow DEF SendConfirm
  <2>2. [booking |-> b, seen |-> bookings[b].status, answer |-> "none"] \in Confirmation
    BY <2>1 DEF Confirmation
  <2> QED
    BY <1>3, <2>1, <2>2 DEF SendConfirm, CallTypes
<1>4. ASSUME NEW r \in Relay, RelayFault(r) \/ ReceiveAnswer(r)
      PROVE  /\ confirming' \in [Thread -> Confirmation \cup {NoCall}]
             /\ waiting' \in [Relay -> Thread \cup {NoCall}]
  BY <1>4 DEF RelayFault, ReceiveAnswer, CallTypes
<1>5. ASSUME NEW t \in Thread, AnswerFromRead(t) \/ UpdateBooking(t) \/ ThreadFault(t)
      PROVE  /\ confirming' \in [Thread -> Confirmation \cup {NoCall}]
             /\ waiting' \in [Relay -> Thread \cup {NoCall}]
  <2>1. CASE ThreadFault(t)
    BY <2>1 DEF ThreadFault, CallTypes
  <2>2. CASE AnswerFromRead(t) \/ UpdateBooking(t)
    BY <2>2, ThreadEnds, AnswerMoves DEF CallTypes
  <2> QED
    BY <1>5, <2>1, <2>2
<1>6. CASE UNCHANGED <<confirming, waiting>>
  BY <1>1, <1>2, <1>6 DEF CallTypes
<1> QED
  BY <1>1, <1>2, <1>3, <1>4, <1>5, <1>6, CallMoves DEF CallTypes

LEMMA ConfirmingInvStep ==
  ASSUME IInv, SystemIInv, [SystemNext]_allVars
  PROVE  ConfirmingInv'
<1> CallTypes
  BY DEF SystemIInv
<1>1. [Next]_vars /\ [B!Next]_(B!vars)
  BY PaymentsStep, BookingServiceStep
<1>2. SUFFICES ASSUME NEW t \in Thread, confirming'[t] # NoCall,
                      NEW b, b = confirming'[t].booking
               PROVE  /\ CommandsOf("booking.confirm", b)' # {}
                      /\ confirming'[t].seen = "confirmed" \/ confirming'[t].answer = "ok"
                           => WasConfirmed(b)'
  <2>1. ASSUME NEW t \in Thread, confirming'[t] # NoCall
        PROVE  /\ CommandsOf("booking.confirm", confirming[t].booking)' # {}
               /\ confirming'[t].seen = "confirmed" \/ confirming'[t].answer = "ok"
                    => WasConfirmed(confirming[t].booking)'
    <3>1. PICK b : b = confirming'[t].booking
      OBVIOUS
    <3> QED
      BY <1>2, <2>1, <3>1 DEF CommandsOf, WasConfirmed
  <2> QED
    BY <2>1 DEF ConfirmingInv
<1>3. ASSUME confirming[t] # NoCall, b = confirming[t].booking,
             confirming'[t].seen = confirming[t].seen,
             confirming'[t].answer = "ok" =>
               \/ confirming[t].answer = "ok" \/ confirming[t].seen = "confirmed"
               \/ B!ChangeStatus(b, "confirmed")
      PROVE  /\ CommandsOf("booking.confirm", b)' # {}
             /\ confirming'[t].seen = "confirmed" \/ confirming'[t].answer = "ok"
                  => WasConfirmed(b)'
  <2>1. b \in Booking
    BY <1>3 DEF CallTypes, Confirmation
  <2>2. CommandsOf("booking.confirm", b)' # {}
    BY <1>1, <1>3, CommandsOfKept DEF SystemIInv, ConfirmingInv
  <2>3. ASSUME confirming[t].seen = "confirmed" \/ confirming[t].answer = "ok"
        PROVE  WasConfirmed(b)'
    <3>1. WasConfirmed(b)
      BY <1>3, <2>3 DEF SystemIInv, ConfirmingInv
    <3> QED
      BY <1>1, <2>1, <3>1, ConfirmedKept DEF SystemIInv
  <2>4. ASSUME B!ChangeStatus(b, "confirmed") PROVE WasConfirmed(b)'
    <3>1. Reaches(b, "confirmed")
      <4>1. B!Exists(b) /\ "confirmed" \in B!BookingStatus
        BY <2>4 DEF B!ChangeStatus, B!BookingStatus
      <4>2. /\ bookings'[b] = [bookings[b] EXCEPT !.status = "confirmed"]
            /\ outbox'[b] = Append(outbox[b], B!StatusEvents["confirmed"])
        BY <2>1, <2>4 DEF B!ChangeStatus, B!Moved, B!Announced
      <4> QED
        BY <2>1, <4>1, <4>2, RowReaches DEF Reaches, SystemIInv
    <3> QED
      BY <2>1, <3>1, NewlyConfirmed DEF SystemIInv
  <2> QED
    BY <1>3, <2>2, <2>3, <2>4
<1>4. CASE confirming'[t] = confirming[t]
  BY <1>2, <1>3, <1>4
<1>5. ASSUME NEW r \in Relay, NEW u \in Thread, SendConfirm(r, u)
      PROVE  /\ CommandsOf("booking.confirm", b)' # {}
             /\ confirming'[t].seen = "confirmed" \/ confirming'[t].answer = "ok"
                  => WasConfirmed(b)'
  <2>1. PICK a \in Booking : a = commands[Current(r)].booking
    BY <1>5, ConfirmedRow DEF SendConfirm
  <2>2. B!Exists(a) /\ CommandsOf("booking.confirm", a) # {}
    BY <1>5, <2>1, ConfirmedRow DEF SendConfirm
  <2>3. CASE t = u
    <3>1. confirming'[t] = [booking |-> a, seen |-> bookings[a].status, answer |-> "none"]
      BY <1>5, <2>1, <2>3 DEF SendConfirm, CallTypes
    <3>2. b = a /\ CommandsOf("booking.confirm", b)' # {}
      BY <1>1, <1>2, <2>2, <3>1, CommandsOfKept
    <3>3. bookings[a].status = "confirmed" => WasConfirmed(b)'
      BY <1>1, <2>2, <3>2, ConfirmedKept DEF SystemIInv, ConfirmedAnnounced
    <3> QED
      BY <3>1, <3>2, <3>3
  <2>4. CASE t # u
    BY <1>4, <1>5, <2>4 DEF SendConfirm, CallTypes
  <2> QED
    BY <2>3, <2>4
<1>6. ASSUME NEW r \in Relay, RelayFault(r) \/ ReceiveAnswer(r)
      PROVE  confirming'[t] = confirming[t]
  BY <1>2, <1>6 DEF RelayFault, ReceiveAnswer, CallTypes
<1>7. ASSUME NEW u \in Thread, ThreadFault(u) PROVE confirming'[t] = confirming[t]
  BY <1>2, <1>7 DEF ThreadFault, CallTypes
<1>8. ASSUME NEW u \in Thread, AnswerFromRead(u) \/ UpdateBooking(u)
      PROVE  /\ CommandsOf("booking.confirm", b)' # {}
             /\ confirming'[t].seen = "confirmed" \/ confirming'[t].answer = "ok"
                  => WasConfirmed(b)'
  <2>1. PICK answer \in {"ok", "rejected"} :
          /\ Serving(u)
          /\ Answer(u, answer)
          /\ answer = "ok" => \/ confirming[u].seen = "confirmed"
                              \/ B!ChangeStatus(confirming[u].booking, "confirmed")
    BY <1>8, ThreadEnds
  <2>2. CASE t = u
    <3>1. /\ confirming'[t].booking = confirming[t].booking
          /\ confirming'[t].seen = confirming[t].seen
          /\ confirming'[t].answer = answer
      BY <1>2, <2>1, <2>2, AnswerMoves
    <3> QED
      BY <1>2, <1>3, <2>1, <2>2, <3>1 DEF Serving
  <2>3. CASE t # u
    BY <1>4, <2>1, <2>3, AnswerMoves
  <2> QED
    BY <2>2, <2>3
<1> QED
  BY <1>4, <1>5, <1>6, <1>7, <1>8, CallMoves

(* A relay that waits after a step began to with it, or waited before and   *)
(* has kept its batch.                                                      *)
LEMMA RelayWaits ==
  ASSUME IInv, CallTypes, [SystemNext]_allVars, NEW r \in Relay, waiting'[r] # NoCall
  PROVE  \/ waiting'[r] = waiting[r] /\ batch'[r] = batch[r]
         \/ \E t \in Thread : SendConfirm(r, t) /\ waiting'[r] = t
<1>1. waiting \in [Relay -> Thread \cup {NoCall}] /\ batch \in [Relay -> Open]
  BY DEF CallTypes, IInv, TypeInv
<1>2. ASSUME NEW q \in Relay, NEW t \in Thread, SendConfirm(q, t)
      PROVE  \/ waiting'[r] = waiting[r] /\ batch'[r] = batch[r]
             \/ SendConfirm(r, t) /\ waiting'[r] = t
  BY <1>1, <1>2, Zenon DEF SendConfirm, vars
<1>3. ASSUME NEW q \in Relay, RelayFault(q)
      PROVE  waiting'[r] = waiting[r] /\ batch'[r] = batch[r]
  <2>1. q # r
    BY <1>1, <1>3 DEF RelayFault
  <2>2. batch' = [batch EXCEPT ![q] = NoBatch]
    BY <1>3 DEF RelayFault, RollbackBatch, RefundUnanswered
  <2> QED
    BY <1>1, <1>3, <2>1, <2>2 DEF RelayFault
<1>4. ASSUME NEW q \in Relay, ReceiveAnswer(q)
      PROVE  waiting'[r] = waiting[r] /\ batch'[r] = batch[r]
  <2>1. q # r
    BY <1>1, <1>4 DEF ReceiveAnswer
  <2>2. \A p \in Relay \ {q} : batch'[p] = batch[p]
    BY <1>4, Delivery DEF ReceiveAnswer
  <2> QED
    BY <1>1, <1>4, <2>1, <2>2 DEF ReceiveAnswer
<1>5. ASSUME NEW q \in Relay, Relaying(q)
      PROVE  waiting'[r] = waiting[r] /\ batch'[r] = batch[r]
  <2>1. waiting[q] = NoCall /\ UNCHANGED waiting
    BY <1>5 DEF Relaying, calls
  <2>2. q # r
    BY <2>1
  <2>3. CASE Refund(q)
    BY <2>1, <2>2, <2>3, Delivery
  <2>4. CASE TakeBatch(q) \/ CommitBatch(q)
    BY <1>1, <2>1, <2>2, <2>4, Zenon DEF TakeBatch, CommitBatch
  <2> QED
    BY <1>5, <2>3, <2>4 DEF Relaying
<1>6. \/ UNCHANGED <<waiting, batch>>
      \/ \E q \in Relay : \/ Relaying(q) \/ RelayFault(q) \/ ReceiveAnswer(q)
                          \/ \E t \in Thread : SendConfirm(q, t)
  BY SystemWriters
<1> QED
  BY <1>2, <1>3, <1>4, <1>5, <1>6

(* A thread goes on serving, or answers, as long as somebody waits for it.  *)
LEMMA AwaitedThread ==
  ASSUME IInv, SystemIInv, [SystemNext]_allVars, NEW r \in Relay,
         waiting[r] # NoCall, waiting'[r] = waiting[r], NEW t, t = waiting[r]
  PROVE  confirming'[t] # NoCall /\ confirming'[t].booking = confirming[t].booking
<1>1. /\ CallTypes
      /\ t \in Thread /\ confirming[t] # NoCall
      /\ \A q \in Relay : waiting[q] = t => q = r
  BY DEF SystemIInv, CallTypes, WaitingInv
<1>2. /\ waiting \in [Relay -> Thread \cup {NoCall}]
      /\ confirming \in [Thread -> Confirmation \cup {NoCall}]
  BY <1>1 DEF CallTypes
<1>3. CASE UNCHANGED <<confirming, waiting>>
  BY <1>1, <1>3
<1>4. ASSUME NEW q \in Relay, NEW u \in Thread, SendConfirm(q, u)
      PROVE  confirming'[t] = confirming[t]
  BY <1>1, <1>2, <1>4 DEF SendConfirm
<1>5. ASSUME NEW q \in Relay, RelayFault(q) \/ ReceiveAnswer(q)
      PROVE  confirming'[t] = confirming[t]
  <2>1. waiting'[q] = NoCall
    BY <1>2, <1>5 DEF RelayFault, ReceiveAnswer
  <2>2. q # r
    BY <2>1
  <2>3. waiting[q] # t
    BY <1>1, <2>2
  <2> QED
    BY <1>1, <1>2, <1>5, <2>3 DEF RelayFault, ReceiveAnswer
<1>6. ASSUME NEW u \in Thread, ThreadFault(u) PROVE confirming'[t] = confirming[t]
  BY <1>1, <1>2, <1>6 DEF ThreadFault
<1>7. ASSUME NEW u \in Thread, AnswerFromRead(u) \/ UpdateBooking(u)
      PROVE  confirming'[t] # NoCall /\ confirming'[t].booking = confirming[t].booking
  <2>1. PICK answer \in {"ok", "rejected"} : Serving(u) /\ Answer(u, answer)
    BY <1>1, <1>7, ThreadEnds
  <2>2. CASE u = t
    BY <1>1, <2>1, <2>2, AnswerMoves
  <2>3. CASE u # t
    BY <1>1, <2>1, <2>3, AnswerMoves
  <2> QED
    BY <2>2, <2>3
<1> QED
  BY <1>1, <1>3, <1>4, <1>5, <1>6, <1>7, CallMoves

LEMMA WaitingInvStep ==
  ASSUME IInv, SystemIInv, [SystemNext]_allVars
  PROVE  WaitingInv'
<1>1. /\ CallTypes /\ [Next]_vars
      /\ waiting \in [Relay -> Thread \cup {NoCall}]
      /\ confirming \in [Thread -> Confirmation \cup {NoCall}]
  BY PaymentsStep DEF SystemIInv, CallTypes
<1>2. ASSUME NEW r \in Relay, waiting'[r] # NoCall
      PROVE  /\ confirming'[waiting'[r]] # NoCall
             /\ Delivering(r, "booking.confirm")'
             /\ confirming'[waiting'[r]].booking = commands'[Current(r)'].booking
  <2>1. PICK t : t = waiting'[r]
    OBVIOUS
  <2>2. CASE waiting'[r] = waiting[r] /\ batch'[r] = batch[r]
    <3>1. /\ confirming'[t] # NoCall
          /\ confirming'[t].booking = confirming[t].booking
          /\ confirming[t].booking = commands[Current(r)].booking
          /\ Delivering(r, "booking.confirm")
      BY <1>2, <2>1, <2>2, AwaitedThread DEF SystemIInv, WaitingInv
    <3>2. PICK c : c = Current(r)
      OBVIOUS
    <3>3. c = Current(r)'
      BY <2>2, <3>2 DEF Current
    <3>4. c \in DOMAIN commands
      BY <3>1, <3>2, CurrentCommand DEF IInv
    <3>5. /\ commands'[c].topic = commands[c].topic
          /\ commands'[c].booking = commands[c].booking
      BY <1>1, <3>4, CommandsKept
    <3> QED
      BY <2>1, <2>2, <3>1, <3>2, <3>3, <3>5 DEF Delivering
  <2>3. ASSUME SendConfirm(r, t), t \in Thread
        PROVE  /\ confirming'[t] # NoCall
               /\ Delivering(r, "booking.confirm")'
               /\ confirming'[t].booking = commands'[Current(r)'].booking
    <3>1. PICK b \in Booking : /\ b = commands[Current(r)].booking
                               /\ bookings[b].status \in B!BookingStatus
      BY <2>3, ConfirmedRow DEF SendConfirm
    <3>2. [booking |-> b, seen |-> bookings[b].status, answer |-> "none"] \in Confirmation
      BY <3>1 DEF Confirmation
    <3>3. confirming'[t] = [booking |-> b, seen |-> bookings[b].status, answer |-> "none"]
      BY <1>1, <2>3, <3>1 DEF SendConfirm
    <3>4. UNCHANGED <<batch, commands>> /\ Delivering(r, "booking.confirm")
      BY <2>3 DEF SendConfirm, vars, tables
    <3>5. Delivering(r, "booking.confirm")' /\ Current(r)' = Current(r)
      BY <3>4 DEF Delivering, Current
    <3>6. confirming'[t] # NoCall /\ confirming'[t].booking = b
      BY <3>2, <3>3, SlotPaymentsAssumption
    <3> QED
      BY <3>1, <3>4, <3>5, <3>6
  <2> QED
    BY <1>1, <1>2, <2>1, <2>2, <2>3, RelayWaits
<1>3. ASSUME NEW r \in Relay, NEW q \in Relay, waiting'[r] # NoCall, waiting'[q] = waiting'[r]
      PROVE  q = r
  <2>1. CASE waiting'[r] = waiting[r] /\ waiting'[q] = waiting[q]
    BY <1>3, <2>1 DEF SystemIInv, WaitingInv
  <2>2. ASSUME NEW p \in Relay, NEW t \in Thread, SendConfirm(p, t), waiting'[p] = t
        PROVE  \A o \in Relay : waiting'[o] = t => o = p
    <3>1. \A o \in Relay : waiting[o] # t
      BY <2>2, SlotPaymentsAssumption DEF SendConfirm, SystemIInv, WaitingInv
    <3> QED
      BY <1>1, <2>2, <3>1 DEF SendConfirm
  <2> QED
    BY <1>1, <1>3, <2>1, <2>2, RelayWaits
<1> QED
  BY <1>2, <1>3 DEF WaitingInv

-----------------------------------------------------------------------------
(* The outcome of a confirmation. *)

(* What a batch has delivered, it had delivered before, or has just now; a  *)
(* confirmation that is delivered was answered.                             *)
LEMMA DeliveredMoves ==
  ASSUME IInv, CallTypes, [SystemNext]_allVars, NEW r \in Relay, NEW i \in batch'[r].done
  PROVE  \/ /\ i \in batch[r].done
            /\ \A b \in Rejected(r) : b \in Rejected(r)'
         \/ /\ i = Current(r) /\ i \in CommandsOf("payment.refund", commands[i].booking)
         \/ /\ i = Current(r) /\ ReceiveAnswer(r)
            /\ \/ confirming[waiting[r]].answer = "ok"
               \/ commands[i].booking \in Rejected(r)'
<1>1. batch \in [Relay -> Open]
  BY DEF IInv, TypeInv
<1>2. CASE batch'[r] = batch[r]
  BY <1>2 DEF Rejected
<1>3. ASSUME NEW q \in Relay, RelayFault(q)
      PROVE  batch'[r] = batch[r]
  <2>1. batch' = [batch EXCEPT ![q] = NoBatch]
    BY <1>3 DEF RelayFault, RollbackBatch, RefundUnanswered
  <2> QED
    BY <1>1, <2>1 DEF NoBatch
<1>4. ASSUME NEW q \in Relay, TakeBatch(q)
      PROVE  batch'[r].done = batch[r].done /\ batch'[r].rejected = batch[r].rejected
  BY <1>1, <1>4 DEF TakeBatch, Open
<1>5. ASSUME NEW q \in Relay, CommitBatch(q)
      PROVE  batch'[r] = batch[r]
  BY <1>1, <1>5 DEF CommitBatch, NoBatch
<1>6. ASSUME NEW q \in Relay, Refund(q), q # r
      PROVE  batch'[r] = batch[r]
  BY <1>6, Delivery
<1>7. ASSUME NEW q \in Relay, ReceiveAnswer(q), q # r
      PROVE  batch'[r] = batch[r]
  BY <1>7, Delivery DEF ReceiveAnswer
<1>8. ASSUME Refund(r)
      PROVE  \/ i \in batch[r].done /\ batch'[r].rejected = batch[r].rejected
             \/ i = Current(r) /\ i \in CommandsOf("payment.refund", commands[i].booking)
  <2>1. PICK c : c = Current(r)
    OBVIOUS
  <2>2. /\ Delivering(r, "payment.refund")
        /\ batch'[r].done = batch[r].done \cup {c}
        /\ batch'[r].rejected = batch[r].rejected
    <3>1. ~ConfirmAccepted(r) /\ ~ConfirmRejected(r)
      BY <1>8 DEF Refund, ConfirmAccepted, ConfirmRejected, Delivering
    <3> QED
      BY <1>8, <2>1, <3>1, Delivery DEF Refund
  <2> QED
    BY <2>1, <2>2, CurrentCommand DEF IInv
<1>9. ASSUME ReceiveAnswer(r)
      PROVE  \/ i \in batch[r].done /\ \A b \in Rejected(r) : b \in Rejected(r)'
             \/ /\ i = Current(r)
                /\ \/ confirming[waiting[r]].answer = "ok"
                   \/ commands[i].booking \in Rejected(r)'
  <2>1. PICK c : c = Current(r)
    OBVIOUS
  <2>2. batch'[r].done = batch[r].done \cup {c}
    BY <1>9, <2>1, Delivery DEF ReceiveAnswer
  <2>3. CASE confirming[waiting[r]].answer = "ok" /\ ConfirmAccepted(r)
    <3>1. batch'[r].rejected = batch[r].rejected
      <4>1. Delivering(r, "booking.confirm") /\ Done(r, batch[r])
        BY <2>3 DEF ConfirmAccepted
      <4> QED
        BY <1>1, <4>1, CurrentCommand, DoneBatch DEF IInv
    <3> QED
      BY <2>1, <2>2, <2>3, <3>1 DEF Rejected
  <2>4. CASE ConfirmRejected(r)
    <3> DEFINE b == commands[c].booking
               old == batch[r].rejected
    <3>1. old \in Seq(Booking) /\ b \in Booking
      <4>1. commands[Current(r)].booking \in Booking
        BY <2>4, CurrentCommand DEF ConfirmRejected, IInv
      <4> QED
        BY <1>1, <2>1, <4>1 DEF Open
    <3>2. batch'[r].rejected = Append(old, b)
      <4> DEFINE changed == [batch[r] EXCEPT !.rejected = Append(@, b)]
      <4>1. Delivering(r, "booking.confirm") /\ Done(r, changed)
        BY <2>1, <2>4 DEF ConfirmRejected
      <4>2. Append(old, b) \in Seq(Booking)
        BY <3>1
      <4>3. changed \in Open /\ changed.rejected = Append(old, b)
        BY <1>1, <4>2, Zenon DEF Open
      <4> HIDE DEF changed
      <4> QED
        BY <4>1, <4>3, CurrentCommand, DoneBatch DEF IInv
    <3> HIDE DEF b, old
    <3>3. /\ Len(Append(old, b)) = Len(old) + 1
          /\ \A k \in 1 .. Len(old) : Append(old, b)[k] = old[k]
          /\ Append(old, b)[Len(old) + 1] = b
          /\ Append(old, b) \in Seq(Booking)
      BY <3>1, AppendProperties
    <3>4. /\ Len(old) \in Nat /\ DOMAIN old = 1 .. Len(old)
          /\ DOMAIN Append(old, b) = 1 .. Len(old) + 1
      BY <3>1, <3>3, LenProperties
    <3>5. \A a \in Rejected(r) : a \in Rejected(r)'
      BY <3>2, <3>3, <3>4 DEF Rejected, old
    <3>6. b \in Rejected(r)'
      <4>1. Len(old) + 1 \in DOMAIN Append(old, b)
        BY <3>4
      <4> QED
        BY <3>2, <3>3, <4>1 DEF Rejected
    <3> QED
      BY <2>1, <2>2, <3>5, <3>6 DEF b
  <2> QED
    BY <1>9, <2>3, <2>4 DEF ReceiveAnswer
<1>10. \/ UNCHANGED batch
       \/ \E q \in Relay : \/ TakeBatch(q) \/ CommitBatch(q) \/ Refund(q)
                           \/ RelayFault(q) \/ ReceiveAnswer(q)
  BY SystemWriters DEF Relaying, SendConfirm, vars
<1> QED
  BY <1>2, <1>3, <1>4, <1>5, <1>6, <1>7, <1>8, <1>9, <1>10 DEF Rejected

LEMMA DeliveredInvStep ==
  ASSUME IInv, SystemIInv, [SystemNext]_allVars
  PROVE  DeliveredInv'
<1>1. /\ CallTypes /\ BookingTypes
      /\ [Next]_vars /\ [B!Next]_(B!vars)
  BY PaymentsStep, BookingServiceStep DEF SystemIInv
<1>2. ASSUME NEW r \in Relay, NEW i \in batch'[r].done, commands'[i].topic = "booking.confirm",
             NEW b, b = commands'[i].booking
      PROVE  WasConfirmed(b)' \/ b \in Rejected(r)'
  <2>1. i \in DOMAIN commands => /\ commands[i].topic = "booking.confirm"
                                 /\ commands[i].booking = b
    BY <1>1, <1>2, CommandsKept
  <2>2. i \in DOMAIN commands => b \in Booking
    <3>1. i \in DOMAIN commands => commands[i] \in Command
      BY ElementOfSeq DEF IInv, TypeInv, TypeOK
    <3> QED
      BY <2>1, <3>1 DEF Command
  <2>3. CASE i \in batch[r].done /\ \A a \in Rejected(r) : a \in Rejected(r)'
    <3>1. i \in DOMAIN commands
      BY <2>3 DEF IInv, SafeInv, BatchInv, GoodBatch
    <3>2. WasConfirmed(b) \/ b \in Rejected(r)
      BY <2>1, <2>3, <3>1 DEF SystemIInv, DeliveredInv
    <3> QED
      BY <1>1, <2>2, <2>3, <3>1, <3>2, ConfirmedKept
  <2>4. i \notin CommandsOf("payment.refund", commands[i].booking)
    BY <2>1 DEF CommandsOf
  <2>5. ASSUME i = Current(r), ReceiveAnswer(r),
               \/ confirming[waiting[r]].answer = "ok"
               \/ commands[i].booking \in Rejected(r)'
        PROVE  WasConfirmed(b)' \/ b \in Rejected(r)'
    <3>1. waiting[r] # NoCall /\ Delivering(r, "booking.confirm")
      BY <2>5 DEF ReceiveAnswer, SystemIInv, WaitingInv
    <3>2. i \in DOMAIN commands
      BY <2>5, <3>1, CurrentCommand DEF IInv
    <3>3. ASSUME confirming[waiting[r]].answer = "ok" PROVE WasConfirmed(b)
      <4>1. /\ waiting[r] \in Thread /\ confirming[waiting[r]] # NoCall
            /\ confirming[waiting[r]].booking = b
        BY <1>1, <2>1, <2>5, <3>1, <3>2 DEF SystemIInv, WaitingInv, CallTypes
      <4> QED
        BY <3>3, <4>1 DEF SystemIInv, ConfirmingInv
    <3> QED
      BY <1>1, <2>1, <2>2, <2>5, <3>2, <3>3, ConfirmedKept
  <2> QED
    BY <1>1, <2>3, <2>4, <2>5, DeliveredMoves
<1>3. ASSUME NEW r \in Relay, NEW i \in batch'[r].done, commands'[i].topic = "booking.confirm"
      PROVE  WasConfirmed(commands[i].booking)' \/ commands'[i].booking \in Rejected(r)'
  <2>1. PICK b : b = commands'[i].booking
    OBVIOUS
  <2> QED
    BY <1>2, <1>3, <2>1 DEF WasConfirmed
<1> QED
  BY <1>3 DEF DeliveredInv

(* Only a thread that serves a confirmation confirms, and the command it    *)
(* serves is there only for a payment that succeeded.                       *)
LEMMA ConfirmedMeansPaidStep ==
  ASSUME IInv, SystemIInv, [SystemNext]_allVars
  PROVE  ConfirmedMeansPaid'
<1>1. /\ CallTypes /\ BookingTypes
      /\ [Next]_vars
  BY PaymentsStep DEF SystemIInv
<1>2. ASSUME NEW b \in Booking, WasConfirmed(b)'
      PROVE  /\ payments'[b] # NoRow /\ payments'[b].status = "succeeded"
             /\ charges'[b].paid
  <2>1. HasPayment(b) /\ payments[b].status = "succeeded"
    <3>1. CASE WasConfirmed(b)
      BY <3>1 DEF SystemIInv, ConfirmedMeansPaid, HasPayment
    <3>2. ASSUME NEW t \in Thread, UpdateBooking(t), ~WasConfirmed(b)
          PROVE  CommandsOf("booking.confirm", b) # {}
      <4>1. PICK a \in Booking : /\ a = confirming[t].booking
                                 /\ CommandsOf("booking.confirm", a) # {}
        BY <1>1, <3>2 DEF UpdateBooking, Serving, SystemIInv, ConfirmingInv, CallTypes,
                          Confirmation
      <4>2. UNCHANGED outbox \/ B!ChangeStatus(a, "confirmed")
        BY <3>2, <4>1 DEF UpdateBooking, bookingVars, bookingTables
      <4>3. UNCHANGED outbox => ~WasConfirmed(b)'
        BY <3>2 DEF WasConfirmed
      <4>4. outbox'[b] = outbox[b] => ~WasConfirmed(b)'
        BY <3>2 DEF WasConfirmed
      <4> QED
        BY <1>1, <1>2, <4>1, <4>2, <4>3, <4>4, ChangeMoves DEF Stays
    <3>3. CASE BookingStep
      BY <1>1, <1>2, <3>1, <3>3, BookingStepConfirmsNone
    <3>4. CASE UNCHANGED outbox
      <4>1. WasConfirmed(b)
        BY <1>2, <3>4 DEF WasConfirmed
      <4> QED
        BY <3>1, <4>1
    <3>5. \/ UNCHANGED outbox
          \/ BookingStep
          \/ \E t \in Thread : UpdateBooking(t)
      BY Zenon DEF SystemNext, CheckPayable, PayStubStep, PayCallArrives, WebhookArrives, Work,
             WorkerFault, Relaying, RelayFault, ReceiveAnswer, SendConfirm, AnswerFromRead,
             ThreadFault, allVars, bookingVars, bookingTables
    <3> QED
      BY <3>1, <3>2, <3>3, <3>4, <3>5 DEF IInv, SafeInv, ConfirmInv
  <2>2. charges[b] # NoRow /\ charges[b].paid
    BY <2>1 DEF SystemIInv, SucceededMeansPaid
  <2> QED
    BY <1>1, <2>1, <2>2, RowStep, ChargeKept
<1> QED
  BY <1>2 DEF ConfirmedMeansPaid

(* Only the commit of a batch publishes a command, one it has delivered.    *)
LEMMA Published ==
  ASSUME IInv, [Next]_vars, NEW i \in DOMAIN commands',
         commands'[i].topic = "booking.confirm", commands'[i].published
  PROVE  /\ i \in DOMAIN commands
         /\ commands[i].topic = "booking.confirm"
         /\ commands'[i].booking = commands[i].booking
         /\ \/ commands[i].published
            \/ \E r \in Relay : CommitBatch(r) /\ i \in batch[r].done
<1>1. ASSUME i \in DOMAIN commands, commands'[i].published
      PROVE  \/ commands[i].published
             \/ \E r \in Relay : CommitBatch(r) /\ i \in batch[r].done
  <2>1. CASE UNCHANGED commands
    BY <1>1, <2>1
  <2>2. ASSUME NEW w \in Worker, CommitWebhook(w) PROVE commands'[i] = commands[i]
    <3> DEFINE new == NewCommand("booking.confirm", req[w].event.booking)
    <3>1. req[w].event.booking \in Booking
      BY <2>2 DEF CommitWebhook, IInv, SafeInv, ControlInv, Webhook, ProviderEvent
    <3>2. new \in Command /\ (UNCHANGED commands \/ commands' = Append(commands, new))
      BY <2>2, <3>1 DEF CommitWebhook, NewCommand, Command
    <3> HIDE DEF new
    <3>3. commands \in Seq(Command) /\ i \in 1 .. Len(commands)
      BY <1>1, LenProperties DEF IInv, TypeInv, TypeOK
    <3> QED
      BY <3>2, <3>3, AppendProperties
  <2>3. ASSUME NEW r \in Relay, CommitBatch(r)
        PROVE  commands[i].published \/ i \in batch[r].done
    BY <1>1, <2>3, CommittedCommandsOf
  <2>4. \/ UNCHANGED commands
        \/ \E w \in Worker : CommitWebhook(w)
        \/ \E r \in Relay : CommitBatch(r)
    BY Writers
  <2> QED
    BY <1>1, <2>1, <2>2, <2>3, <2>4
<1>2. i \in DOMAIN commands
  <2>1. CASE UNCHANGED commands
    BY <2>1
  <2>2. ASSUME NEW w \in Worker, CommitWebhook(w) PROVE i \in DOMAIN commands
    <3> DEFINE new == NewCommand("booking.confirm", req[w].event.booking)
    <3>1. req[w].event.booking \in Booking
      BY <2>2 DEF CommitWebhook, IInv, SafeInv, ControlInv, Webhook, ProviderEvent
    <3>2. /\ new \in Command /\ ~new.published
          /\ UNCHANGED commands \/ commands' = Append(commands, new)
      BY <2>2, <3>1 DEF CommitWebhook, NewCommand, Command
    <3> HIDE DEF new
    <3>3. commands \in Seq(Command) /\ Len(commands) \in Nat /\ DOMAIN commands = 1 .. Len(commands)
      BY LenProperties DEF IInv, TypeInv, TypeOK
    <3>4. /\ Append(commands, new) \in Seq(Command)
          /\ Len(Append(commands, new)) = Len(commands) + 1
          /\ Append(commands, new)[Len(commands) + 1] = new
      BY <3>2, <3>3, AppendProperties
    <3>5. DOMAIN Append(commands, new) = 1 .. Len(commands) + 1
      BY <3>4, LenProperties
    <3>6. \A k \in 1 .. Len(commands) + 1 : k \in 1 .. Len(commands) \/ k = Len(commands) + 1
      BY <3>3
    <3> QED
      BY <3>2, <3>3, <3>4, <3>5, <3>6
  <2>3. ASSUME NEW r \in Relay, CommitBatch(r) PROVE i \in DOMAIN commands
    <3>1. PICK b : b = commands'[i].booking
      OBVIOUS
    <3>2. i \in CommandsOf("booking.confirm", b)'
      BY <3>1 DEF CommandsOf
    <3>3. i \in CommandsOf("booking.confirm", b)
      BY <2>3, <3>2, CommittedCommandsOf
    <3> QED
      BY <3>3 DEF CommandsOf
  <2>4. \/ UNCHANGED commands
        \/ \E w \in Worker : CommitWebhook(w)
        \/ \E r \in Relay : CommitBatch(r)
    BY Writers
  <2> QED
    BY <2>1, <2>2, <2>3, <2>4
<1> QED
  BY <1>1, <1>2, CommandsKept

LEMMA KeptMoneyStep ==
  ASSUME IInv, SystemIInv, [SystemNext]_allVars
  PROVE  KeptMoneyBoughtSlot'
<1>1. /\ CallTypes /\ BookingTypes
      /\ [Next]_vars /\ [B!Next]_(B!vars)
  BY PaymentsStep, BookingServiceStep DEF SystemIInv
<1>2. ASSUME NEW i \in DOMAIN commands',
             commands'[i].topic = "booking.confirm", commands'[i].published,
             NEW b, b = commands'[i].booking
      PROVE  WasConfirmed(b)' \/ CommandsOf("payment.refund", b)' # {}
  <2>1. /\ i \in DOMAIN commands /\ commands[i].topic = "booking.confirm"
        /\ commands[i].booking = b
        /\ \/ commands[i].published
           \/ \E r \in Relay : CommitBatch(r) /\ i \in batch[r].done
    BY <1>1, <1>2, Published
  <2>2. b \in Booking
    <3>1. commands[i] \in Command
      BY <2>1, ElementOfSeq DEF IInv, TypeInv, TypeOK
    <3> QED
      BY <2>1, <3>1 DEF Command
  <2>3. CASE WasConfirmed(b)
    BY <1>1, <2>2, <2>3, ConfirmedKept
  <2>4. CASE CommandsOf("payment.refund", b) # {}
    BY <1>1, <2>4, CommandsOfKept
  <2>5. ASSUME NEW r \in Relay, CommitBatch(r), b \in Rejected(r)
        PROVE  CommandsOf("payment.refund", b)' # {}
    <3>1. PICK k \in DOMAIN batch[r].rejected : batch[r].rejected[k] = b
      BY <2>5 DEF Rejected
    <3>2. Len(commands) + k \in CommandsOf("payment.refund", b)'
      BY <2>5, <3>1, CommittedCommandsOf
    <3> QED
      BY <3>2
  <2> QED
    BY <2>1, <2>3, <2>4, <2>5 DEF SystemIInv, KeptMoneyBoughtSlot, DeliveredInv
<1>3. ASSUME NEW i \in DOMAIN commands',
             commands'[i].topic = "booking.confirm", commands'[i].published
      PROVE  \/ WasConfirmed(commands[i].booking)'
             \/ CommandsOf("payment.refund", commands[i].booking)' # {}
  <2>1. PICK b : b = commands'[i].booking
    OBVIOUS
  <2> QED
    BY <1>2, <1>3, <2>1 DEF WasConfirmed, CommandsOf
<1> QED
  BY <1>3 DEF KeptMoneyBoughtSlot

-----------------------------------------------------------------------------
(* Theorems. *)

LEMMA SystemInitInv == SystemInit => SystemIInv
<1> SUFFICES ASSUME SystemInit PROVE SystemIInv
  OBVIOUS
<1> USE DEF SystemInit, Init, B!Init
<1>1. BookingTypes
  BY EmptySeq DEF BookingTypes
<1>2. CallTypes
  BY SlotPaymentsAssumption DEF CallTypes
<1>3. \A b \in Booking : ~B!Exists(b) /\ ~HasPayment(b) /\ ~WasConfirmed(b)
  BY DEF B!Exists, HasPayment, WasConfirmed
<1>4. PaymentsBooked /\ ConfirmedAnnounced /\ SucceededMeansPaid /\ ConfirmedMeansPaid
  BY <1>3 DEF PaymentsBooked, ConfirmedAnnounced, SucceededMeansPaid, ConfirmedMeansPaid
<1>5. EventsTrue /\ ConfirmingInv /\ WaitingInv
  BY DEF EventsTrue, ConfirmingInv, WaitingInv
<1>6. DeliveredInv /\ KeptMoneyBoughtSlot
  BY DEF DeliveredInv, KeptMoneyBoughtSlot, NoBatch
<1> QED
  BY <1>1, <1>2, <1>4, <1>5, <1>6 DEF SystemIInv

(* The inductive invariant of the whole system holds in every state.        *)
THEOREM SystemInvariance == SystemSpec => [](IInv /\ SystemIInv)
<1>1. SystemInit => SystemIInv
  BY SystemInitInv
<1>2. IInv /\ SystemIInv /\ [SystemNext]_allVars => SystemIInv'
  <2> SUFFICES ASSUME IInv, SystemIInv, [SystemNext]_allVars PROVE SystemIInv'
    OBVIOUS
  <2>1. /\ CallTypes /\ BookingTypes /\ ConfirmedAnnounced
        /\ [Next]_vars /\ [B!Next]_(B!vars)
    BY PaymentsStep, BookingServiceStep DEF SystemIInv
  <2>2. BookingTypes' /\ ConfirmedAnnounced'
    BY <2>1, BookingTypesStep, ConfirmedAnnouncedStep
  <2>3. CallTypes' /\ PaymentsBooked' /\ ConfirmingInv' /\ WaitingInv'
    BY CallTypesStep, PaymentsBookedStep, ConfirmingInvStep, WaitingInvStep
  <2>4. EventsTrue' /\ SucceededMeansPaid'
    BY <2>1, EventsTrueStep, SucceededMeansPaidStep
  <2>5. DeliveredInv' /\ ConfirmedMeansPaid' /\ KeptMoneyBoughtSlot'
    BY DeliveredInvStep, ConfirmedMeansPaidStep, KeptMoneyStep
  <2> QED
    BY <2>2, <2>3, <2>4, <2>5 DEF SystemIInv
<1>3. SystemSpec => []IInv
  BY SystemImplementsPayments, Invariance
<1> QED
  BY <1>1, <1>2, <1>3, PTL DEF SystemSpec

(* Type correctness of the services' calls, and of payments under them.     *)
THEOREM SystemTypeCorrect == SystemSpec => []SystemTypeOK
<1>1. IInv /\ SystemIInv => SystemTypeOK
  BY DEF IInv, TypeInv, SystemIInv, CallTypes, SystemTypeOK
<1> QED
  BY <1>1, SystemInvariance, PTL

(* Whatever messages are lost or late, and whoever dies: a booking that was *)
(* ever confirmed was paid for.                                             *)
THEOREM NoFreeSlots == SystemSpec => []ConfirmedMeansPaid
<1>1. SystemIInv => ConfirmedMeansPaid
  BY DEF SystemIInv
<1> QED
  BY <1>1, SystemInvariance, PTL

(* A confirmation that the outbox calls delivered has confirmed the booking *)
(* or asked for the money back.                                             *)
THEOREM NoMoneyForNothing == SystemSpec => []KeptMoneyBoughtSlot
<1>1. SystemIInv => KeptMoneyBoughtSlot
  BY DEF SystemIInv
<1> QED
  BY <1>1, SystemInvariance, PTL

(* A refund always finds the charge it gives back, so the error that        *)
(* relay.py raises without one, and a command stuck for ever, never come.   *)
THEOREM RefundsFindTheirCharge == SystemSpec => []RefundHasCharge
<1>1. IInv /\ SystemIInv => RefundHasCharge
  <2> SUFFICES ASSUME IInv, SystemIInv, NEW b \in Booking,
                      CommandsOf("payment.refund", b) # {}
               PROVE  payments[b].charged
    BY DEF RefundHasCharge
  <2>1. CommandsOf("booking.confirm", b) # {}
    BY DEF IInv, SafeInv, RefundInv
  <2> QED
    BY <2>1 DEF IInv, SafeInv, ConfirmInv, SystemIInv, SucceededMeansPaid
<1> QED
  BY <1>1, SystemInvariance, PTL

(* In the whole system the booking service keeps to what it promises alone. *)
THEOREM SystemImplementsBooking == SystemSpec => B!Spec
<1>1. SystemInit => B!Init
  BY DEF SystemInit
<1>2. SystemIInv /\ [SystemNext]_allVars => [B!Next]_(B!vars)
  BY BookingServiceStep DEF SystemIInv
<1> QED
  BY <1>1, <1>2, SystemInvariance, PTL DEF SystemSpec, B!Spec

-----------------------------------------------------------------------------
(* One booking for a slot, seen from the whole system. *)

Holds(b, s) == B!Exists(b) /\ bookings[b].slot = s /\ bookings[b].status \in {"pending", "confirmed"}

OneHolder == \A s \in Slot : \A a, b \in Booking : Holds(a, s) /\ Holds(b, s) => a = b

(* A booking that holds a slot after a confirmation or a cancellation held  *)
(* it before.                                                               *)
LEMMA ChangeHolds ==
  ASSUME BookingTypes, NEW a \in Booking, NEW target \in {"confirmed", "cancelled"},
         B!ChangeStatus(a, target), NEW b \in Booking, NEW s \in Slot, Holds(b, s)'
  PROVE  Holds(b, s)
<1>1. CASE b # a
  <2>1. bookings'[b] = bookings[b]
    BY <1>1, ChangeMoves DEF Stays
  <2> QED
    BY <2>1 DEF Holds, B!Exists
<1>2. CASE b = a
  <2>1. /\ B!Exists(b) /\ bookings[b] \in B!BookingRow
        /\ B!CanTransition(bookings[b].status, target)
        /\ bookings'[b] = [bookings[b] EXCEPT !.status = target]
    BY <1>2, Zenon DEF B!ChangeStatus, B!Moved, B!Exists, BookingTypes
  <2>2. bookings[b].status \in {"pending", "confirmed"}
    BY <2>1 DEF B!CanTransition, B!AllowedTransitions, B!BookingRow, B!BookingStatus
  <2>3. bookings'[b].slot = bookings[b].slot
    BY <2>1 DEF B!BookingRow
  <2> QED
    BY <2>1, <2>2, <2>3 DEF Holds
<1> QED
  BY <1>1, <1>2

(* After a new booking, it is the one holder of its slot, and the holders   *)
(* of the others are what they were.                                        *)
LEMMA BookHolds ==
  ASSUME BookingTypes, NEW s \in Slot, NEW a \in Booking, NEW c \in Client, NEW now \in B!Time,
         B!Book(s, a, c, now), NEW b \in Booking, NEW z \in Slot, Holds(b, z)'
  PROVE  IF b = a THEN z = s ELSE Holds(b, z) /\ z # s
<1> DEFINE new == [slot |-> s, client |-> c, status |-> "pending", created |-> now]
<1>1. bookings' = [B!Moved(B!ActiveOn(s), "expired") EXCEPT ![a] = new]
  BY DEF B!Book
<1>2. new.slot = s
  OBVIOUS
<1> HIDE DEF new
<1>3. bookings'[b] # NoRow /\ bookings'[b].slot = z /\ bookings'[b].status \in {"pending", "confirmed"}
  BY DEF Holds, B!Exists
<1>4. CASE b = a
  BY <1>1, <1>2, <1>3, <1>4 DEF B!Moved
<1>5. CASE b # a /\ b \in B!ActiveOn(s)
  <2>1. bookings'[b] = [bookings[b] EXCEPT !.status = "expired"]
    BY <1>1, <1>5, Zenon DEF B!Moved
  <2>2. B!Exists(b) /\ "expired" \in B!BookingStatus
    BY <1>5 DEF B!ActiveOn, B!BookingStatus
  <2> QED
    BY <1>3, <2>1, <2>2, RowReaches
<1>6. CASE b # a /\ b \notin B!ActiveOn(s)
  <2>1. bookings'[b] = bookings[b]
    BY <1>1, <1>6 DEF B!Moved
  <2> QED
    BY <1>3, <1>6, <2>1 DEF Holds, B!ActiveOn, B!Exists, B!IsActive, B!ActiveStatuses
<1> QED
  BY <1>4, <1>5, <1>6

LEMMA OneHolderStep ==
  ASSUME BookingTypes, OneHolder, [B!Next]_(B!vars)
  PROVE  OneHolder'
<1>1. SUFFICES ASSUME NEW z \in Slot, NEW x \in Booking, NEW y \in Booking,
                      Holds(x, z)', Holds(y, z)'
               PROVE  x = y
  BY DEF OneHolder
<1>2. CASE UNCHANGED bookings
  <2>1. Holds(x, z) /\ Holds(y, z)
    BY <1>1, <1>2 DEF Holds, B!Exists
  <2> QED
    BY <2>1 DEF OneHolder
<1>3. ASSUME NEW s \in Slot, NEW a \in Booking, NEW c \in Client, NEW now \in B!Time,
             B!Book(s, a, c, now)
      PROVE  x = y
  BY <1>1, <1>3, BookHolds DEF OneHolder
<1>4. ASSUME NEW a \in Booking, NEW target \in {"confirmed", "cancelled"},
             B!ChangeStatus(a, target)
      PROVE  x = y
  BY <1>1, <1>4, ChangeHolds DEF OneHolder
<1>5. \/ UNCHANGED bookings
      \/ \E s \in Slot, a \in Booking, c \in Client, now \in B!Time : B!Book(s, a, c, now)
      \/ \E a \in Booking, target \in {"confirmed", "cancelled"} : B!ChangeStatus(a, target)
  BY DEF B!Next, B!Tick, B!CreateSlot, B!vars
<1> QED
  BY <1>2, <1>3, <1>4, <1>5

(* Two clients never hold one slot: confirmations that arrive late, twice   *)
(* or after an expiry leave a slot with at most one active booking.         *)
THEOREM NoSlotSoldTwice == SystemSpec => [](\A s \in Slot : \A a, b \in B!ActiveOn(s) : a = b)
<1>1. SystemInit => OneHolder
  BY DEF SystemInit, B!Init, OneHolder, Holds, B!Exists
<1>2. SystemIInv /\ OneHolder /\ [SystemNext]_allVars => OneHolder'
  BY BookingServiceStep, OneHolderStep DEF SystemIInv
<1>3. OneHolder => \A s \in Slot : \A a, b \in B!ActiveOn(s) : a = b
  BY DEF OneHolder, Holds, B!ActiveOn, B!IsActive, B!ActiveStatuses
<1> QED
  BY <1>1, <1>2, <1>3, SystemInvariance, PTL DEF SystemSpec

-----------------------------------------------------------------------------
(* As long as nothing fails: a refund and a confirmed booking exclude each  *)
(* other.  They need an answer that is lost.                                *)

(* The booking is over; it never comes back.                                *)
Gone(b) == B!Exists(b) /\ bookings[b].status \in {"cancelled", "expired"}

(* Somebody waits for every confirmation under way.                         *)
Attended == \A t \in Thread : confirming[t] # NoCall => \E r \in Relay : waiting[r] = t

(* What a thread has read of a booking is still there, or the booking is    *)
(* over; it is over if the thread has refused.                              *)
ReadsHold ==
  \A t \in Thread : confirming[t] # NoCall =>
    LET b == confirming[t].booking
    IN /\ confirming[t].answer = "rejected" => Gone(b)
       /\ confirming[t].answer = "none" => Gone(b) \/ bookings[b].status = confirming[t].seen

RefusalsHold == \A r \in Relay : \A b \in Rejected(r) : Gone(b)

RefundsHold == \A b \in Booking : CommandsOf("payment.refund", b) # {} => Gone(b)

FaultlessInv == faults = 0 => Attended /\ ReadsHold /\ RefusalsHold /\ RefundsHold

(* A booking that is over stays over.                                       *)
LEMMA GoneStays ==
  ASSUME BookingTypes, [B!Next]_(B!vars), NEW b \in Booking, Gone(b)
  PROVE  Gone(b)'
<1>1. CASE Stays(b)
  BY <1>1 DEF Stays, Gone, B!Exists
<1>2. ASSUME NEW target \in {"cancelled", "expired"}, Reaches(b, target)
      PROVE  Gone(b)'
  BY <1>2 DEF Reaches, Gone, B!Exists
<1>3. ~Appears(b)
  BY DEF Appears, Gone
<1>4. ASSUME B!ChangeStatus(b, "confirmed") PROVE FALSE
  BY <1>4 DEF B!ChangeStatus, B!CanTransition, B!AllowedTransitions, Gone
<1>5. \/ UNCHANGED <<bookings, outbox>>
      \/ \E s \in Slot, a \in Booking, c \in Client, now \in B!Time : B!Book(s, a, c, now)
      \/ \E a \in Booking, target \in {"confirmed", "cancelled"} : B!ChangeStatus(a, target)
  BY DEF B!Next, B!Tick, B!CreateSlot, B!vars
<1>6. ASSUME NEW a \in Booking, NEW target \in {"confirmed", "cancelled"},
             B!ChangeStatus(a, target)
      PROVE  Gone(b)'
  <2>1. Stays(b) \/ (b = a /\ Reaches(b, target))
    BY <1>6, ChangeMoves
  <2>2. b = a => target # "confirmed"
    BY <1>4, <1>6, Zenon
  <2> QED
    BY <1>1, <1>2, <2>1, <2>2
<1> QED
  BY <1>1, <1>2, <1>3, <1>5, <1>6, BookMoves DEF Stays

(* A booking is confirmed only by a thread that serves its confirmation.    *)
LEMMA ConfirmsBooking ==
  ASSUME BookingTypes, CallTypes, [SystemNext]_allVars, NEW b \in Booking
  PROVE  \/ Stays(b) \/ Appears(b)
         \/ \E target \in {"cancelled", "expired"} : Reaches(b, target)
         \/ \E u \in Thread : /\ UpdateBooking(u) /\ Serving(u)
                              /\ confirming[u].booking = b
<1>1. \/ UNCHANGED bookingVars
      \/ BookingStep
      \/ \E t \in Thread : UpdateBooking(t)
  BY Zenon DEF SystemNext, CheckPayable, PayStubStep, PayCallArrives, WebhookArrives, Work,
         WorkerFault, Relaying, RelayFault, ReceiveAnswer, SendConfirm, AnswerFromRead,
         ThreadFault, allVars
<1>2. CASE UNCHANGED bookingVars
  BY <1>2 DEF bookingVars, bookingTables, Stays
<1>3. CASE BookingStep
  <2>1. \/ UNCHANGED <<bookings, outbox>>
        \/ \E s \in Slot, a \in Booking, c \in Client, now \in B!Time : B!Book(s, a, c, now)
        \/ \E a \in Booking : B!ChangeStatus(a, "cancelled")
    BY <1>3 DEF BookingStep, B!Tick, B!CreateSlot
  <2> QED
    BY <2>1, BookMoves, ChangeMoves DEF Stays
<1>4. ASSUME NEW u \in Thread, UpdateBooking(u)
      PROVE  Stays(b) \/ (Serving(u) /\ confirming[u].booking = b)
  <2>1. PICK a \in Booking : a = confirming[u].booking /\ Serving(u)
    BY <1>4 DEF UpdateBooking, Serving, CallTypes, Confirmation
  <2>2. UNCHANGED bookingVars \/ B!ChangeStatus(a, "confirmed")
    BY <1>4, <2>1 DEF UpdateBooking
  <2> QED
    BY <2>1, <2>2, ChangeMoves DEF Stays, bookingVars, bookingTables
<1> QED
  BY <1>1, <1>2, <1>3, <1>4

(* Without a fault so far, the step was none.                               *)
LEMMA NoFaultYet ==
  ASSUME CallTypes, [SystemNext]_allVars, faults' = 0
  PROVE  /\ faults = 0
         /\ \A r \in Relay : ~RelayFault(r)
         /\ \A t \in Thread : ~ThreadFault(t)
<1>1. faults \in Nat
  BY SlotPaymentsAssumption DEF CallTypes
<1>2. faults' # faults + 1
  BY <1>1
<1>3. ~Fault
  BY <1>2 DEF Fault
<1>4. UNCHANGED faults \/ Fault
  BY Zenon DEF SystemNext, BookingStep, PayStubStep, CheckPayable, PayCallArrives,
         WebhookArrives, Work, WorkerFault, Relaying, RelayFault, ReceiveAnswer,
         SendConfirm, AnswerFromRead, UpdateBooking, ThreadFault, allVars
<1> QED
  BY <1>3, <1>4 DEF RelayFault, ThreadFault

LEMMA AttendedStep ==
  ASSUME CallTypes, Attended, [SystemNext]_allVars,
         \A r \in Relay : ~RelayFault(r), \A t \in Thread : ~ThreadFault(t)
  PROVE  Attended'
<1>1. SUFFICES ASSUME NEW t \in Thread, confirming'[t] # NoCall
               PROVE  \E r \in Relay : waiting'[r] = t
  BY DEF Attended
<1>2. /\ waiting \in [Relay -> Thread \cup {NoCall}]
      /\ confirming \in [Thread -> Confirmation \cup {NoCall}]
      /\ t # NoCall
  BY SlotPaymentsAssumption DEF CallTypes
<1>3. CASE UNCHANGED <<confirming, waiting>>
  BY <1>1, <1>3 DEF Attended
<1>4. ASSUME NEW q \in Relay, NEW u \in Thread, SendConfirm(q, u)
      PROVE  \E r \in Relay : waiting'[r] = t
  <2>1. waiting[q] = NoCall /\ waiting' = [waiting EXCEPT ![q] = u]
    BY <1>4 DEF SendConfirm
  <2>2. t # u => confirming'[t] = confirming[t]
    BY <1>2, <1>4 DEF SendConfirm
  <2> QED
    BY <1>1, <1>2, <2>1, <2>2 DEF Attended
<1>5. ASSUME NEW q \in Relay, ReceiveAnswer(q)
      PROVE  \E r \in Relay : waiting'[r] = t
  <2>1. waiting[q] # t /\ confirming'[t] = confirming[t]
    BY <1>1, <1>2, <1>5 DEF ReceiveAnswer
  <2>2. PICK r \in Relay : waiting[r] = t
    BY <1>1, <2>1 DEF Attended
  <2>3. waiting'[r] = t
    BY <1>2, <1>5, <2>1, <2>2 DEF ReceiveAnswer
  <2> QED
    BY <2>3
<1>6. ASSUME NEW u \in Thread, AnswerFromRead(u) \/ UpdateBooking(u)
      PROVE  \E r \in Relay : waiting'[r] = t
  <2>1. PICK answer \in {"ok", "rejected"} : Serving(u) /\ Answer(u, answer) /\ UNCHANGED waiting
    BY <1>6, ThreadEnds
  <2>2. confirming[t] # NoCall
    BY <1>1, <2>1, AnswerMoves DEF Serving
  <2> QED
    BY <2>1, <2>2 DEF Attended
<1> QED
  BY <1>3, <1>4, <1>5, <1>6, CallMoves

(* While somebody waits for each of them, two confirmations of a booking    *)
(* are one: there is one command, and one relay has it in hand.             *)
LEMMA OneConfirmation ==
  ASSUME IInv, SystemIInv, Attended, NEW t \in Thread, NEW u \in Thread,
         confirming[t] # NoCall, confirming[u] # NoCall,
         confirming[t].booking = confirming[u].booking
  PROVE  t = u
<1>1. PICK r \in Relay : waiting[r] = t
  BY DEF Attended
<1>2. PICK q \in Relay : waiting[q] = u
  BY DEF Attended
<1>3. /\ Delivering(r, "booking.confirm") /\ commands[Current(r)].booking = confirming[t].booking
      /\ Delivering(q, "booking.confirm") /\ commands[Current(q)].booking = confirming[t].booking
  BY <1>1, <1>2, SlotPaymentsAssumption DEF SystemIInv, WaitingInv
<1>4. PICK b : b = confirming[t].booking
  OBVIOUS
<1>5. /\ Current(r) \in batch[r].todo /\ Current(r) \in CommandsOf("booking.confirm", b)
      /\ Current(q) \in batch[q].todo /\ Current(q) \in CommandsOf("booking.confirm", b)
      /\ b \in Booking
  BY <1>3, <1>4, CurrentCommand DEF IInv
<1>6. Current(r) = Current(q)
  BY <1>5 DEF IInv, SafeInv, OneCommand
<1>7. r = q
  BY <1>5, <1>6 DEF IInv, SafeInv, NoSharedCommand
<1> QED
  BY <1>1, <1>2, <1>7

LEMMA ReadsHoldStep ==
  ASSUME IInv, SystemIInv, Attended, ReadsHold, [SystemNext]_allVars,
         \A r \in Relay : ~RelayFault(r), \A t \in Thread : ~ThreadFault(t)
  PROVE  ReadsHold'
<1>1. /\ CallTypes /\ BookingTypes /\ [B!Next]_(B!vars)
      /\ confirming \in [Thread -> Confirmation \cup {NoCall}]
  BY BookingServiceStep DEF SystemIInv, CallTypes
<1>2. SUFFICES ASSUME NEW t \in Thread, confirming'[t] # NoCall,
                      NEW b, b = confirming'[t].booking
               PROVE  /\ confirming'[t].answer = "rejected" => Gone(b)'
                      /\ confirming'[t].answer = "none" =>
                           Gone(b)' \/ bookings'[b].status = confirming'[t].seen
  <2>1. ASSUME NEW t \in Thread, confirming'[t] # NoCall
        PROVE  /\ confirming'[t].answer = "rejected" => Gone(confirming[t].booking)'
               /\ confirming'[t].answer = "none" =>
                    \/ Gone(confirming[t].booking)'
                    \/ bookings'[confirming'[t].booking].status = confirming'[t].seen
    <3>1. PICK b : b = confirming'[t].booking
      OBVIOUS
    <3> QED
      BY <1>2, <2>1, <3>1 DEF Gone, B!Exists
  <2> QED
    BY <2>1 DEF ReadsHold
<1>3. confirming[t] # NoCall /\ confirming[t].booking = b =>
        /\ b \in Booking /\ B!Exists(b)
        /\ confirming[t].seen \in B!BookingStatus
        /\ confirming[t].answer = "rejected" => Gone(b)
        /\ confirming[t].answer = "none" => Gone(b) \/ bookings[b].status = confirming[t].seen
  <2> SUFFICES ASSUME confirming[t] # NoCall, confirming[t].booking = b
               PROVE  /\ b \in Booking /\ B!Exists(b)
                      /\ confirming[t].seen \in B!BookingStatus
                      /\ confirming[t].answer = "rejected" => Gone(b)
                      /\ confirming[t].answer = "none" =>
                           Gone(b) \/ bookings[b].status = confirming[t].seen
    OBVIOUS
  <2>1. confirming[t] \in Confirmation
    BY <1>1
  <2>2. b \in Booking /\ confirming[t].seen \in B!BookingStatus
    BY <2>1 DEF Confirmation
  <2>3. CommandsOf("booking.confirm", b) # {}
    BY DEF SystemIInv, ConfirmingInv
  <2>4. HasPayment(b)
    BY <2>2, <2>3 DEF IInv, SafeInv, ConfirmInv
  <2>5. B!Exists(b)
    BY <2>2, <2>4 DEF SystemIInv, PaymentsBooked
  <2> QED
    BY <2>2, <2>5 DEF ReadsHold
<1>4. Gone(b) /\ b \in Booking => Gone(b)'
  BY <1>1, GoneStays
<1>5. ASSUME confirming'[t] = confirming[t]
      PROVE  /\ confirming'[t].answer = "rejected" => Gone(b)'
             /\ confirming'[t].answer = "none" =>
                  Gone(b)' \/ bookings'[b].status = confirming'[t].seen
  <2>1. CASE Stays(b)
    BY <1>2, <1>3, <1>4, <1>5, <2>1 DEF Stays
  <2>2. ASSUME NEW target \in {"cancelled", "expired"}, Reaches(b, target) PROVE Gone(b)'
    BY <2>2 DEF Reaches, Gone, B!Exists
  <2>3. ASSUME NEW u \in Thread, UpdateBooking(u), Serving(u), confirming[u].booking = b
        PROVE  confirming'[t].answer # "none"
    <3>1. t = u
      BY <1>2, <1>5, <2>3, OneConfirmation DEF Serving
    <3>2. PICK answer \in {"ok", "rejected"} : Answer(t, answer)
      BY <1>1, <2>3, <3>1, ThreadEnds
    <3> QED
      BY <1>1, <1>2, <2>3, <3>1, <3>2, AnswerMoves
  <2>4. ~Appears(b)
    BY <1>2, <1>3, <1>5 DEF Appears
  <2> QED
    BY <1>1, <1>2, <1>3, <1>4, <1>5, <2>1, <2>2, <2>3, <2>4, ConfirmsBooking
<1>6. ASSUME NEW r \in Relay, NEW u \in Thread, SendConfirm(r, u), t = u
      PROVE  /\ confirming'[t].answer = "none"
             /\ bookings'[b].status = confirming'[t].seen
  <2>1. PICK a \in Booking : /\ a = commands[Current(r)].booking
                             /\ bookings[a].status \in B!BookingStatus
    BY <1>6, ConfirmedRow DEF SendConfirm
  <2>2. confirming'[t] = [booking |-> a, seen |-> bookings[a].status, answer |-> "none"]
    BY <1>1, <1>6, <2>1 DEF SendConfirm
  <2>3. b = a /\ confirming'[t].seen = bookings[a].status /\ confirming'[t].answer = "none"
    BY <1>2, <2>2
  <2>4. UNCHANGED bookings
    BY <1>6 DEF SendConfirm, bookingVars, bookingTables
  <2> QED
    BY <2>3, <2>4
<1>7. ASSUME NEW r \in Relay, NEW u \in Thread, SendConfirm(r, u), t # u
      PROVE  confirming'[t] = confirming[t]
  BY <1>1, <1>7 DEF SendConfirm
<1>8. ASSUME NEW r \in Relay, ReceiveAnswer(r) PROVE confirming'[t] = confirming[t]
  BY <1>1, <1>2, <1>8 DEF ReceiveAnswer
<1>9. ASSUME NEW u \in Thread, AnswerFromRead(u) \/ UpdateBooking(u), t # u
      PROVE  confirming'[t] = confirming[t]
  <2>1. PICK answer \in {"ok", "rejected"} : Serving(u) /\ Answer(u, answer)
    BY <1>1, <1>9, ThreadEnds
  <2> QED
    BY <1>1, <1>9, <2>1, AnswerMoves
<1>10. ASSUME Serving(t), NEW answer \in {"ok", "rejected"}, Answer(t, answer)
       PROVE  /\ confirming[t] # NoCall /\ confirming[t].booking = b
              /\ confirming[t].answer = "none"
              /\ confirming'[t].answer = answer
  BY <1>1, <1>2, <1>10, AnswerMoves DEF Serving
<1>11. ASSUME AnswerFromRead(t)
       PROVE  /\ confirming'[t].answer = "rejected" => Gone(b)'
              /\ confirming'[t].answer # "none"
  <2>1. CASE Answer(t, "ok")
    <3>1. confirming'[t].answer = "ok"
      BY <1>10, <1>11, <2>1 DEF AnswerFromRead
    <3> QED
      BY <3>1
  <2>2. CASE /\ Answer(t, "rejected") /\ confirming[t].seen # "confirmed"
             /\ ~B!CanTransition(confirming[t].seen, "confirmed")
    <3>1. /\ confirming[t] # NoCall /\ confirming[t].booking = b
          /\ confirming[t].answer = "none" /\ confirming'[t].answer = "rejected"
      BY <1>10, <1>11, <2>2 DEF AnswerFromRead
    <3>2. confirming[t].seen \in {"cancelled", "expired"}
      BY <1>3, <2>2, <3>1 DEF B!CanTransition, B!AllowedTransitions, B!BookingStatus
    <3>3. Gone(b) /\ b \in Booking
      BY <1>3, <3>1, <3>2 DEF Gone
    <3> QED
      BY <1>4, <3>1, <3>3
  <2> QED
    BY <1>11, <2>1, <2>2 DEF AnswerFromRead
<1>12. ASSUME UpdateBooking(t)
       PROVE  /\ confirming'[t].answer = "rejected" => Gone(b)'
              /\ confirming'[t].answer # "none"
  <2>1. CASE Answer(t, "ok")
    <3>1. confirming'[t].answer = "ok"
      BY <1>10, <1>12, <2>1 DEF UpdateBooking
    <3> QED
      BY <3>1
  <2>2. CASE /\ Answer(t, "rejected")
             /\ bookings[confirming[t].booking].status # confirming[t].seen
    <3>1. /\ confirming[t] # NoCall /\ confirming[t].booking = b
          /\ confirming[t].answer = "none" /\ confirming'[t].answer = "rejected"
      BY <1>10, <1>12, <2>2 DEF UpdateBooking
    <3>2. Gone(b) /\ b \in Booking
      BY <1>3, <2>2, <3>1
    <3> QED
      BY <1>4, <3>1, <3>2
  <2> QED
    BY <1>12, <2>1, <2>2 DEF UpdateBooking
<1>13. CASE UNCHANGED <<confirming, waiting>>
  BY <1>5, <1>13
<1>14. ASSUME NEW u \in Thread, AnswerFromRead(u) \/ UpdateBooking(u)
       PROVE  /\ confirming'[t].answer = "rejected" => Gone(b)'
              /\ confirming'[t].answer = "none" =>
                   Gone(b)' \/ bookings'[b].status = confirming'[t].seen
  <2>1. CASE t = u
    BY <1>11, <1>12, <1>14, <2>1, Zenon
  <2>2. CASE t # u
    BY <1>5, <1>9, <1>14, <2>2, Zenon
  <2> QED
    BY <2>1, <2>2
<1>15. ASSUME NEW r \in Relay, NEW u \in Thread, SendConfirm(r, u)
       PROVE  /\ confirming'[t].answer = "rejected" => Gone(b)'
              /\ confirming'[t].answer = "none" =>
                   Gone(b)' \/ bookings'[b].status = confirming'[t].seen
  <2>1. CASE t = u
    BY <1>6, <1>15, <2>1
  <2>2. CASE t # u
    BY <1>5, <1>7, <1>15, <2>2, Zenon
  <2> QED
    BY <2>1, <2>2
<1> QED
  BY <1>5, <1>8, <1>13, <1>14, <1>15, CallMoves, Zenon

(* A refusal in a batch was there before, or has just been received.        *)
LEMMA RefusalReceived ==
  ASSUME IInv, CallTypes, [SystemNext]_allVars, NEW r \in Relay, NEW b \in Rejected(r)'
  PROVE  \/ b \in Rejected(r)
         \/ /\ waiting[r] # NoCall /\ confirming[waiting[r]].answer = "rejected"
            /\ b = commands[Current(r)].booking
<1>1. batch \in [Relay -> Open]
  BY DEF IInv, TypeInv
<1>2. PICK k \in DOMAIN batch'[r].rejected : b = batch'[r].rejected[k]
  BY DEF Rejected
<1>3. CASE batch'[r].rejected = batch[r].rejected
  BY <1>2, <1>3 DEF Rejected
<1>4. ASSUME NEW q \in Relay, RelayFault(q)
      PROVE  batch'[r] = batch[r]
  <2>1. batch' = [batch EXCEPT ![q] = NoBatch]
    BY <1>4 DEF RelayFault, RollbackBatch, RefundUnanswered
  <2>2. q # r
    BY <1>1, <1>2, <2>1 DEF NoBatch
  <2> QED
    BY <1>1, <2>1, <2>2
<1>5. ASSUME NEW q \in Relay, TakeBatch(q)
      PROVE  batch'[r].rejected = batch[r].rejected
  BY <1>1, <1>5 DEF TakeBatch, Open
<1>6. ASSUME NEW q \in Relay, CommitBatch(q)
      PROVE  batch'[r] = batch[r]
  <2>1. batch' = [batch EXCEPT ![q] = NoBatch]
    BY <1>6 DEF CommitBatch
  <2>2. q # r
    BY <1>1, <1>2, <2>1 DEF NoBatch
  <2> QED
    BY <1>1, <2>1, <2>2
<1>7. ASSUME NEW q \in Relay, Refund(q)
      PROVE  batch'[r].rejected = batch[r].rejected
  <2>1. CASE q # r
    BY <1>7, <2>1, Delivery
  <2>2. CASE q = r
    <3>1. ~ConfirmAccepted(r) /\ ~ConfirmRejected(r)
      BY <1>7, <2>2 DEF Refund, ConfirmAccepted, ConfirmRejected, Delivering
    <3> QED
      BY <1>7, <2>2, <3>1, Delivery
  <2> QED
    BY <2>1, <2>2
<1>8. ASSUME NEW q \in Relay, ReceiveAnswer(q), q # r
      PROVE  batch'[r] = batch[r]
  BY <1>8, Delivery DEF ReceiveAnswer
<1>9. ASSUME ConfirmAccepted(r)
      PROVE  batch'[r].rejected = batch[r].rejected
  <2>1. Delivering(r, "booking.confirm") /\ Done(r, batch[r])
    BY <1>9 DEF ConfirmAccepted
  <2> QED
    BY <1>1, <2>1, CurrentCommand, DoneBatch DEF IInv
<1>10. ASSUME ConfirmRejected(r), NEW c, c = commands[Current(r)].booking
       PROVE  b \in Rejected(r) \/ b = c
  <2> DEFINE old == batch[r].rejected
  <2>1. old \in Seq(Booking) /\ c \in Booking
    BY <1>1, <1>10, CurrentCommand DEF Open, ConfirmRejected, IInv
  <2>2. batch'[r].rejected = old \/ batch'[r].rejected = Append(old, c)
    BY <1>10, Delivery
  <2> HIDE DEF old
  <2>3. /\ Len(Append(old, c)) = Len(old) + 1
        /\ \A i \in 1 .. Len(old) : Append(old, c)[i] = old[i]
        /\ Append(old, c)[Len(old) + 1] = c
        /\ Append(old, c) \in Seq(Booking)
    BY <2>1, AppendProperties
  <2>4. /\ Len(old) \in Nat /\ DOMAIN old = 1 .. Len(old)
        /\ DOMAIN Append(old, c) = 1 .. Len(old) + 1
    BY <2>1, <2>3, LenProperties
  <2>5. \A i \in DOMAIN Append(old, c) : i \in DOMAIN old \/ i = Len(old) + 1
    BY <2>4
  <2>6. (\E i \in DOMAIN old : b = old[i]) \/ b = c
    BY <1>2, <2>2, <2>3, <2>4, <2>5
  <2> QED
    BY <2>6 DEF Rejected, old
<1>11. ASSUME ReceiveAnswer(r)
       PROVE  \/ b \in Rejected(r)
              \/ /\ waiting[r] # NoCall /\ confirming[waiting[r]].answer = "rejected"
                 /\ b = commands[Current(r)].booking
  <2>1. waiting[r] # NoCall
    BY <1>11 DEF ReceiveAnswer
  <2>2. PICK c : c = commands[Current(r)].booking
    OBVIOUS
  <2> QED
    BY <1>3, <1>9, <1>10, <1>11, <2>1, <2>2 DEF ReceiveAnswer
<1>12. \/ UNCHANGED batch
       \/ \E q \in Relay : \/ TakeBatch(q) \/ CommitBatch(q) \/ Refund(q)
                           \/ RelayFault(q) \/ ReceiveAnswer(q)
  BY SystemWriters DEF Relaying, SendConfirm, vars
<1> QED
  BY <1>3, <1>4, <1>5, <1>6, <1>7, <1>8, <1>11, <1>12

(* A command to refund was there before, or a batch that is committed has   *)
(* a refusal for its booking.                                               *)
LEMMA RefundAsked ==
  ASSUME IInv, [Next]_vars, NEW b, CommandsOf("payment.refund", b)' # {}
  PROVE  \/ CommandsOf("payment.refund", b) # {}
         \/ \E r \in Relay : b \in Rejected(r)
<1>1. PICK i : i \in CommandsOf("payment.refund", b)'
  OBVIOUS
<1>2. i \in DOMAIN commands' /\ commands'[i].topic = "payment.refund" /\ commands'[i].booking = b
  BY <1>1 DEF CommandsOf
<1>3. CASE UNCHANGED commands
  BY <1>2, <1>3 DEF CommandsOf
<1>4. ASSUME NEW w \in Worker, CommitWebhook(w)
      PROVE  CommandsOf("payment.refund", b) # {}
  <2>1. PICK a \in Booking : a = req[w].event.booking
    BY <1>4 DEF CommitWebhook, IInv, SafeInv, ControlInv, Webhook, ProviderEvent
  <2> DEFINE new == NewCommand("booking.confirm", a)
  <2>2. new \in Command /\ new.topic = "booking.confirm"
    BY DEF NewCommand, Command
  <2>3. UNCHANGED commands \/ commands' = Append(commands, new)
    BY <1>4, <2>1 DEF CommitWebhook
  <2>4. commands \in Seq(Command)
    BY DEF IInv, TypeInv, TypeOK
  <2> HIDE DEF new
  <2>5. /\ Append(commands, new) \in Seq(Command)
        /\ Len(Append(commands, new)) = Len(commands) + 1
        /\ \A k \in 1 .. Len(commands) : Append(commands, new)[k] = commands[k]
        /\ Append(commands, new)[Len(commands) + 1] = new
    BY <2>2, <2>4, AppendProperties
  <2>6. /\ Len(commands) \in Nat /\ DOMAIN commands = 1 .. Len(commands)
        /\ DOMAIN Append(commands, new) = 1 .. Len(commands) + 1
    BY <2>4, <2>5, LenProperties
  <2>7. i \in DOMAIN Append(commands, new) =>
          i \in DOMAIN commands \/ i = Len(commands) + 1
    BY <2>6
  <2>8. CASE commands' = Append(commands, new)
    <3>1. i # Len(commands) + 1
      BY <1>2, <2>2, <2>5, <2>8
    <3>2. i \in DOMAIN commands /\ commands'[i] = commands[i]
      BY <1>2, <2>5, <2>6, <2>7, <2>8, <3>1
    <3> QED
      BY <1>2, <3>2 DEF CommandsOf
  <2> QED
    BY <1>3, <2>3, <2>8, <1>2 DEF CommandsOf
<1>5. ASSUME NEW r \in Relay, CommitBatch(r)
      PROVE  CommandsOf("payment.refund", b) # {} \/ b \in Rejected(r)
  BY <1>1, <1>5, CommittedCommandsOf DEF Rejected
<1>6. \/ UNCHANGED commands
      \/ \E w \in Worker : CommitWebhook(w)
      \/ \E r \in Relay : CommitBatch(r)
  BY Writers
<1> QED
  BY <1>3, <1>4, <1>5, <1>6

LEMMA FaultlessStep ==
  ASSUME IInv, SystemIInv, FaultlessInv, [SystemNext]_allVars
  PROVE  FaultlessInv'
<1>1. /\ CallTypes /\ BookingTypes
      /\ [Next]_vars /\ [B!Next]_(B!vars)
  BY PaymentsStep, BookingServiceStep DEF SystemIInv
<1>2. SUFFICES ASSUME faults' = 0
               PROVE  Attended' /\ ReadsHold' /\ RefusalsHold' /\ RefundsHold'
  BY DEF FaultlessInv
<1>3. /\ Attended /\ ReadsHold /\ RefusalsHold /\ RefundsHold
      /\ \A r \in Relay : ~RelayFault(r)
      /\ \A t \in Thread : ~ThreadFault(t)
  BY <1>1, <1>2, NoFaultYet DEF FaultlessInv
<1>4. Attended'
  BY <1>1, <1>3, AttendedStep
<1>5. ReadsHold'
  BY <1>3, ReadsHoldStep
<1>6. ASSUME NEW r \in Relay, NEW b \in Rejected(r)' PROVE Gone(b)'
  <2>1. CASE b \in Rejected(r)
    <3>1. b \in Booking
      <4>1. batch[r].rejected \in Seq(Booking)
        BY DEF IInv, TypeInv, Open
      <4> QED
        BY <2>1, <4>1, ElementOfSeq DEF Rejected
    <3> QED
      BY <1>1, <1>3, <2>1, <3>1, GoneStays DEF RefusalsHold
  <2>2. CASE /\ waiting[r] # NoCall /\ confirming[waiting[r]].answer = "rejected"
             /\ b = commands[Current(r)].booking
    <3>1. /\ waiting[r] \in Thread /\ confirming[waiting[r]] # NoCall
          /\ confirming[waiting[r]].booking = b
      BY <1>1, <2>2 DEF SystemIInv, WaitingInv, CallTypes
    <3>2. Gone(b)
      BY <1>3, <2>2, <3>1 DEF ReadsHold
    <3>3. b \in Booking
      BY <1>1, <3>1 DEF CallTypes, Confirmation
    <3> QED
      BY <1>1, <3>2, <3>3, GoneStays
  <2> QED
    BY <1>1, <2>1, <2>2, RefusalReceived
<1>7. ASSUME NEW b \in Booking, CommandsOf("payment.refund", b)' # {} PROVE Gone(b)'
  <2>1. Gone(b)
    BY <1>1, <1>3, <1>7, RefundAsked DEF RefundsHold, RefusalsHold
  <2> QED
    BY <1>1, <2>1, GoneStays
<1> QED
  BY <1>4, <1>5, <1>6, <1>7 DEF RefusalsHold, RefundsHold

(* A client never has both the money back and a confirmed booking, as long  *)
(* as no process dies, nobody times out and no answer is lost: what the     *)
(* comment of relay.py promises takes a fault to break.                     *)
THEOREM FaultlessRefund == SystemSpec => [](faults = 0 => RefundMeansNoSlot)
<1>1. SystemInit => FaultlessInv
  <2> SUFFICES ASSUME SystemInit PROVE FaultlessInv
    OBVIOUS
  <2>1. Attended /\ ReadsHold
    BY DEF SystemInit, Attended, ReadsHold
  <2>2. RefusalsHold /\ RefundsHold
    BY DEF SystemInit, Init, RefusalsHold, RefundsHold, Rejected, NoBatch, CommandsOf
  <2> QED
    BY <2>1, <2>2 DEF FaultlessInv
<1>2. IInv /\ SystemIInv /\ FaultlessInv /\ [SystemNext]_allVars => FaultlessInv'
  BY FaultlessStep
<1>3. IInv /\ FaultlessInv => (faults = 0 => RefundMeansNoSlot)
  <2> SUFFICES ASSUME IInv, FaultlessInv, faults = 0, NEW b \in refunds
               PROVE  bookings[b].status # "confirmed"
    BY DEF RefundMeansNoSlot
  <2>1. b \in Booking /\ CommandsOf("payment.refund", b) # {}
    BY DEF IInv, TypeInv, TypeOK, SafeInv, RefundInv
  <2> QED
    BY <2>1 DEF FaultlessInv, RefundsHold, Gone
<1> QED
  BY <1>1, <1>2, <1>3, SystemInvariance, PTL DEF SystemSpec
=============================================================================
