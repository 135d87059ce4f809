# Slot: a verification development

Slot lets a client book a slot of a master's time, pay for it, and be told what
became of it. It is a handful of Python services, each with its own PostgreSQL
database, joined by HTTP calls, a Redis stream and two outside companies: PayStub
(payments) and NotifyGate (messages). This directory models, in TLA+, the parts
whose correctness depends on what happens *between* steps: transactions that
overlap, calls whose answers are lost, processes that die, messages that come
twice. TLC checks the models on small instances; TLAPS proves all
the safety properties that TLC finds to hold, and that three detailed models implement the abstract
ones, for instances of any size.

Paths below are relative to `src/`. Each definition that models code is tied to
its lines in `PROJECT.json` under `map`.

## 1. The system

| Component | State it keeps | Operations | Interacts with |
|---|---|---|---|
| booking API (`services/booking`) | tables `slots`, `bookings`, `outbox_messages` | `create_slot`, `list_slots`, `book_slot`, `cancel_booking`, `confirm_booking`, `pay_for_booking` | payments (HTTP), its relay (outbox) |
| booking relay (`booking/outbox.py`) | `published_at` of the outbox rows | `publish_pending` in a loop | Redis stream `slot.bookings.v1` |
| payments API (`services/payments`) | tables `payments`, `provider_events`, `outbox_messages` | `create_payment`, `handle_webhook` | PayStub (HTTP and webhooks), its relay |
| payments relay (`payments/relay.py`) | `published_at`, `needs_refund`, `refunded_at` | `process_pending`: `booking.confirm`, `payment.refund` | booking (HTTP), PayStub (HTTP) |
| notifier (`services/notifier`) | table `notifications`; the group's pending list in Redis | `run_once`: reclaim, read, handle, dead-letter | Redis, NotifyGate |
| web (`services/web`) | none; the session lives in the browser's cookies | pages that call booking | booking |
| dependency gate (`tools/dependency_audit.py`, `accepted_risks.py`) | the file of accepted risks | `run`: audit, rate, judge | `uv audit`, the OSV API |
| quality hub (`services/quality-hub`) | none: pure functions of a history of test runs | verdict on a test, state of a quarantine entry, parsing of reports | CI |
| other tools, e2e, smoke, compose | - | build, deployment, tests | - |

How a booking lives: `pending` (holds the slot for a TTL of 15 minutes) ->
`confirmed` when the money has arrived -> `cancelled` by either side; or
`expired`. Nothing expires a booking by itself: the next request for the slot
does. Confirmation travels PayStub -> webhook -> payments outbox -> payments
relay -> booking; a refused confirmation turns into a refund command in the same
outbox. Every move of a booking leaves an event in booking's outbox, which goes
relay -> stream -> notifier -> NotifyGate.

What makes it correct:

- **booking**: one active booking for a slot; moves along the allowed
  transitions only; each move announced exactly once; a hold lasts its TTL; no
  two transactions wait for each other.
- **payments**: one payment and one charge for a booking, of one sum; the first
  outcome of a charge is final; paid exactly if a confirmation is commanded;
  refunds tracked, due and given once.
- **both**: nobody has a slot without having paid, nobody pays for nothing, and
  nobody has both the money and the slot.
- **web**: a row shows a status its booking has had, does not go back while the
  page stays, and does not wait for ever for a settled payment; who reads that a
  slot was booked has booked it; nobody is sent to pay for somebody else; a session
  ends for a reason.
- **quality hub**: a verdict rests on conclusive runs only; a test that earned its
  release is not called flaky again on the runs that released it.
- **events**: a committed event reaches the stream, and is repeated only when
  something failed; an entry leaves the pending list only when the client was
  told or it lies in the dead-letter stream; the table tells the truth; in the end
  every event is told or buried, and lost only by falling off the stream unread.
- **dependency gate**: it is never green because of what it did not see; whatever
  is shipped behind it is rated low and young, or somebody decided to live with it,
  recently; the order of records decides nothing; waiting helps nobody.

What is hard: statements of concurrent transactions under READ COMMITTED (each
statement has a snapshot of its own, an UPDATE judges its rows again after it
has waited), the partial unique index as the arbiter, network calls outside
transactions, at-least-once delivery in three places, relays and consumers of
which two may run at a time, and a "now" that is read once and used late. The
list with lines is `hazards` in `PROJECT.json`.

## 2. The modules

| Module | What it is | Models |
|---|---|---|
| `BookingDomain` | rules without state | `booking/domain.py`, `events.py`, the predicates of `service.py` |
| `SlotBooking` | abstract: each request takes effect at one instant | what booking promises |
| `BookingService` | detailed: each SQL statement is a step | `booking/service.py`, `app.py`, `models.py` |
| `PaymentsService` | payments API, relay, PayStub | `payments/service.py`, `relay.py`, `paystub.py` |
| `SlotPayments` | composes `SlotBooking`, `PaymentsService` and the calls between them | `pay_for_booking`, `BookingClient.confirm`, `confirm_booking` |
| `OutboxRelay` | booking's relay and the log it writes | `booking/outbox.py` |
| `NotifierConsumer` | the stream with its trimming, the group, its consumers, table, gateway | `notifier/consumer.py` |
| `EventNotices` | abstract: what becomes of an event | what outbox and notifier promise together |
| `EventDelivery` | composes `OutboxRelay` and `NotifierConsumer`, implements `EventNotices` | the stream between them |
| `WebSession` | tabs of one browser, the session, the page of one's bookings | `web/app.py`, `booking_client.py`, templates, booking's readers |
| `WebPages` | the pages that lead to a booking and its checkout, over `SlotBooking` | `web/app.py`, `booking_client.py`, templates, the API of booking |
| `RiskGate` | the gate on vulnerabilities and what moves around it | `tools/dependency_audit.py`, `tools/accepted_risks.py` |
| `Flakiness` | the rules on flaky tests, on the life of one test | `quality_hub/flakiness.py`, statuses of `junit.py` |
| `*_proofs` | the theorems about a module, and what they rest on (section 4) | - |
| `MC*` | instances for TLC: symmetry only, constants are in the `.cfg` | - |

A definition whose comment begins with "Mutant:" is a deliberately wrong form of
the definition it stands near. No specification uses it. It is there to show
that a property notices such a mistake (`mutants` in `PROJECT.json`).

Two refinements are stated with `INSTANCE ... WITH`, checked by TLC and proved:
`BookingService` implements `SlotBooking` (`Refinement`) and `EventDelivery`
implements `EventNotices` (`NoticesRefined`). `SlotPayments` is also proved to be a
behaviour of each service it composes, `PaymentsService` and `SlotBooking`. What the
abstract `SlotBooking` promises is used in place of booking by `SlotPayments` and
`WebPages`.

### BookingService

A worker is a request with a transaction of its own. `pc[w]` names the statement
it runs next; `req[w]` is what it knows (its `now` included); `snap[w]` the rows
that its UPDATE found in its snapshot; `dirty[w]` the rows it has changed and
keeps locked. The tables hold committed rows only: COMMIT moves the changes of
`dirty` and `req` into them in one step.

| Code | Actions |
|---|---|
| `book_slot` | `StartBook` (clock, slot, `ensure_bookable`), `ScanStale` (snapshot of the expiring UPDATE), `ExpireStale` (locks, WHERE judged again), `InsertBooking` / `InsertRefused` (unique index), `CommitBook` |
| `change_status` | `StartConfirm` / `StartCancel` (the read, its early returns, `ensure_owner`), `UpdateStatus` (conditional UPDATE), `CommitChange` |
| not found | `BookingNotFound` |
| `create_slot` | `CreateSlot` |
| any failure, a lost connection | `Abort`: the server rolls back |

`IndexBusy` is the wait of an INSERT in `uq_bookings_active_slot`: another
transaction has inserted an active row for the slot, or has changed a row of the
slot and may yet commit or roll back. `list_slots` is the state function
`Available`.

Abstractions: ids and times are atoms and small numbers; `ends_at`, prices and
`updated_at` are left out, since no guard reads them; payloads of events are the event types.
`create_slot` has no statement that another transaction can disturb and is one
step.

### PaymentsService

A payment is named by its booking (`payments.booking_id` is unique), and so is
its charge (the idempotency key is the payment id). `pc`/`req` are the requests,
`batch[r]` is the open transaction of a relay: commands still to deliver,
delivered, refunds asked for and given. PayStub acts at once and for good;
everything else waits for a COMMIT. `AskCharge(w, FALSE)` and `RefundUnanswered`
are calls that PayStub has carried out and whose answer is lost. A webhook is
`StartWebhook`, `RecordEvent` (waits for a concurrent duplicate), `LockPayment`
(FOR UPDATE), `CommitWebhook`. `CommitBatch` and `RollbackBatch` end a batch.
PayStub may send several events for one charge, in any order, as the tests of
the service do. Left out: signatures, currency (part of the sum), `attempts` and
`last_error`, the heartbeat. The order of the commands' ids is the order of
their COMMITs here; `OutboxRelay` treats the difference for the relay with the
same query.

### SlotPayments

Uses the atomic `SlotBooking` for booking, which is justified by the theorem
`ServiceRefines` below; only the confirmation is taken apart again, into the
read (`SendConfirm`), the answer or the conditional UPDATE (`AnswerFromRead`,
`UpdateBooking`) and the receipt of the answer (`ReceiveAnswer`), because a relay
that stops waiting does not stop the request. `CheckPayable` and `PayCallArrives`
are the two halves of `pay_for_booking`, whose transaction ends before the call.
Here PayStub keeps to its contract: one outcome for each charge, and a charge is
paid on the checkout page, whose address the customer has from the saved payment.

### OutboxRelay, NotifierConsumer, EventDelivery

`OutboxRelay` has rows that commit out of the order of their ids, and relays that
publish within an open transaction. Its `log` is every entry ever added.

`NotifierConsumer` has the stream's entries (with repeated events and entries
that cannot be read), the pending list as a counter of deliveries for each
entry, and consumers that create the group (`EnsureGroup`, at 0), list, claim,
read and handle. An entry that arrives may push older ones off the stream
(`trimmed`), read or not, as long as `MaxLen` are left: XADD's MAXLEN is
approximate, so how many go is open. XCLAIM strikes what is gone off the pending
list; `ReadNew` goes on after it. There is no clock: `idle_ms` may pass between
any two steps, since a process may be arbitrarily slow without being dead. One
consequence is made explicit: an entry that another consumer has claimed or
acknowledged after it was listed is not idle any more when XCLAIM comes.

`EventDelivery` makes the log of the one the stream of the other (`Arriving`): an
entry carries the row it was made from. Faults of both sides share one bound.
`Fate(e)` reads off the whole state what has become of an event (none, owed, told,
buried, lost), and that is the refinement mapping to `EventNotices`.

### WebSession

`calls[k]` is a request of the browser: sent with the cookies of that moment
(`Send`), answered by web (`AnswerStranger` ... `AnswerUnavailable`, one for each
way a handler can end), received (`Receive`). `rows[t][b]` is what a tab shows. A
row is replaced as a whole, so an answer whose row has been replaced meanwhile
(`live` is false) finds nothing to change; this is how htmx treats a target that
is not in the document, and what `RowsNeverGoBack` rests on. Bookings are moved
by anybody along the allowed transitions: what `MovesAreAllowed` proves of
`BookingService`. A request may also be lost, or booking be unavailable to web,
with the cancellation carried out or not. The forms of login and logout are
requests too (`PostForm`), posted from whichever tab and however old its page is.
Their answers change the cookies only: `Login` sets them, `Logout` deletes them, and
so does `LoginRefused`, the login page that `POST /login` answers to a name
`clean_name` refuses or an unknown role. One form is under way at a time, and takes
one of the connections; web keeps nothing of it, so a second would add no step to
those of the first. Names are data: which name web accepts is chosen when it
answers. The signature of a token is left out, its owner and end are not. A name is
a person, so two people share a browser but not a name. The swap of htmx is
translated from the copy in `static/htmx.min.js` (one line): an `outerHTML` swap
whose target has no parent returns at once, and cleaning up a removed element does
not abort its request.

### WebPages

The other handlers. Everybody acts on the bookings as `SlotBooking` lets them
(`Others`), and the tab does so through web: `Visit`, `PressBook` and
`PressPublish` send a request with the cookies of the moment, whoever the page was
drawn for; `Serve` is booking doing it and web rendering the result (`MasterSlots`,
`MySlots`, `Book`, `PublishSlot`, `Pay`), `TurnAway` the login page, `TimeOut` the
sentence that booking is unavailable or unreadable, after which `DoLate` may still
do what was asked. `ReceivePage` replaces the page and `ReceivePiece` one place of
it; `Lose` is an answer that never arrives, or comes for a page that has gone. The
model forgets for whom a page was drawn when somebody else logs in (`DrawnFor`):
`BookedIsOnRecord` and `OwnSlotsArePublished` say nothing of a page whose visitor
another login has replaced; `CheckoutIsOwn` speaks of where its buttons lead. Login, its refusal and logout happen in other tabs and take effect at once:
all that this tab sees of them is the cookies. To book is the
step `Book` of `SlotBooking`, which expires what is stale on its way. Left out: times, prices and time zones, and their conversions.

### RiskGate

State is what moves around the gate: the calendar, the records of the OSV
database and their ratings, the lock files, the file of acceptances. `Run` is one
run of the gate; each of its audits and calls may fail. The findings are the
possible results of folding `preferred` over the records in any order
(`Collected`), since the audit promises none. `Broken` is any entry that
`field_problems` refuses. One assumption is about people: nobody dates `added`
in the future (the code does not check it). Which records name which is a
constant and need not be symmetric. Left out: the report, the versions of a package (a locked package
is vulnerable or not), `fix_versions`, the length of a reason, its link.

### Flakiness

The rules are functions of a history, translated one by one; `flip_rate` is
compared without dividing. `Report` adds the run of one report, whose status
follows from the elements of its testcase. The hub itself, which stores runs and
entries, is not in the repository: `OpenEntry` and `CloseEntry` do what the
docstrings and ADR-0015 say of it. `FlakinessPolicyAssumption` says what holds
of the default policy and its test; no code checks it.

## 3. What is checked

"Bounds" name the instance; every bound is a CONSTANT in the `.cfg`.

| Run | Shows | Bounds |
|---|---|---|
| `booking` | the invariant of the proofs (types included), one active booking, events complete, listing and booking agree, no lock deadlock, moves allowed, holds respected, refinement of `SlotBooking`, every request answered | 3 requests, 1 slot, 2 bookings, clock 0..1, TTL 1 |
| `payments` | paid iff commanded, one sum, outcome final, refunds tracked and due, commands not shared | 2 requests, 2 relays, 3 events, 2 sums, 2 bookings |
| `system_safety` | confirmed means paid, kept money bought the slot, a refund always has a charge | 2 bookings of 1 slot, 2 relays, 2 threads, 1 fault |
| `system_liveness` | money settles | 1 booking, 2 relays, 2 threads, 3 faults |
| `delivery` | marked means published, repeats need faults, the promise `EventNotices` is kept, no event stays owed | 2 relays, 1 consumer, 2 events, a stream of 1, 1 fault |
| `notifier` | acknowledged means settled, `sent` means told, every entry is acknowledged in the end | 2 consumers, 2 entries, a stream of 1, 1 fault |
| `web_session` | rows were true, rows do not go back, sessions end for a reason, a settled payment is shown | 1 tab, 2 requests at a time of which one may be a form, 2 people, 1 booking, 1 fault, clock 0..1, sessions of 1 |
| `pages` | `booked` is on record, own slots are published, the checkout is one's own | 1 tab and one request at a time besides a late one, 2 people in both roles, 1 slot, 1 booking, clock 0..1, sessions of 1 |
| `flakiness` | released is not flaky, flaky has both outcomes lately, skipped runs say nothing | every history of 6 runs on 2 commits, window 3, minimum 2, release after 3 |
| `risk` | the gate fails closed, what ships is decided, order decides nothing, waiting never helps | 2 projects, a package each, a GitHub and a Python record of one CVE, 3 days, 2 entries |

Types: `TypeOK` of `BookingService` is a part of `IInv` in the run `booking`. The
type invariants of the other modules are theorems (section 4); the runs spend
their time on the other properties.

Why the bounds are enough to be of interest: a race needs two requests, a race
with an observer three; an expiry needs a booking that is stale and one that
wants its slot. The clock has room for a booking to be made and to lapse, or for
the slot to start. Two outcomes of one charge and an event of another need three
event ids. Each lost answer, timeout or death is one fault; two make a retry that
itself fails. A poll and a cancellation of one row need two requests, with a reload as either; rows
of different tabs and bookings meet only in the session, which ends, or becomes
another's, at any time. What ends it is one form or one request, beside another
that was sent before. On the pages a late request meets a second one, of the
same person or another. A stream of one entry is full at the second, which comes
before or after the first is read. Three days are room for an acceptance to expire
and for a finding to outgrow its grace. Six runs are two windows. In the
notifier MAX_DELIVERIES is 1, so that the limit is met by the second delivery.
Deadlock checking is on except where the system may really come to rest (all
ids used, nothing left to deliver).

### Disagreements found

Each is a run that expects a violation and an entry of `findings`.

| Run | The code | The text |
|---|---|---|
| `system_refund` | a confirmation that overlaps another one of the same booking is refused with 409 although the booking is confirmed; the relay, which had stopped waiting and asked again, refunds a booking that keeps its slot (it takes a fault: theorem `FaultlessRefund`) | `relay.py:97` the client is not getting the slot; `booking/service.py:185` a repeat is a success |
| `notifier_row` | `sent` may be overwritten with `dead` | `notifier/models.py:20` the row answers "was the client told?" |

Behaviours met while modelling that no run checks:

- A test that was flaky when its entry was opened, and fails ever since, is
  `broken` and still excused until the entry expires (`flakiness.py:233`); ADR-0015:133
  says that quarantine structurally cannot hide a defect.
- `_already_done` says that two consumers holding an event cannot both send
  (`consumer.py:201`); both do when the row says `sending` (`consumer.py:226`), and the
  gateway's idempotency key makes it one message.
- JSON that is not an object makes `parse_event` raise an error that `_handle` does
  not catch (`consumer.py:165`): the consumer dies at every delivery of the entry.
  The model's `Garbage` is what `_handle` does catch.
- The double press of the form that publishes a slot, or its retry after a lost
  answer, publishes two slots (`my_slots.html:4` has no `hx-disabled-elt`).
- A login that is refused ends a session it has nothing to do with: a login form left
  open in another tab, or swapped into a row, still posts after somebody has logged
  in, and a name that `clean_name` refuses is answered by `login_page` (`web/app.py:172`),
  which deletes the cookies. The comment there (`web/app.py:126`) says that whatever was
  in them is not worth anything any more; here it was. `SessionsEndForAReason` names
  it (`LoginRefused`) as one of the ways a session ends.
- A severity word the gate does not know does not block at once, whatever it says
  (`dependency_audit.py:42`); in the model "LOW" stands for all of them.
- A 401 while booking, publishing, paying, cancelling or polling shows a sentence and
  no login page; `forbidden` and `token_expired` have none of their own.
- `base.html:46` sends the offset of today with a time of another day: beyond a change
  of the clocks a slot is published an hour off.
- A call to the OSV API that raises, rather than answering other than 200, ends the
  gate even for a finding that is accepted (`dependency_audit.py:174`; its docstring
  says that anything unreadable is UNKNOWN). It fails closed all the same.
- `added` may lie in the future and `no_fix` is never compared with the versions that
  fix a finding; of two GitHub records of one CVE the last decides severity and age.
- An event whose deliveries were all cut short by deaths is buried without a row
  in `notifications`: the UPDATE of `_dead_letter` (`consumer.py:266`) finds none.
  ADR-0010:26 says that it is marked in the database as `dead`.
- A poll that reads `confirmed` before a cancellation takes effect replaces the
  row, which stops asking, and the answer to the cancellation finds its row gone:
  the page shows a paid booking until it is reloaded. So does a page of a
  confirmed booking that the master cancels (`web/app.py:51` calls every status
  but `pending` final). One failed poll replaces the row by its reason, which
  does not ask again either.
- A booking whose answer is lost cannot be repeated: the second attempt is told
  that somebody took the slot (`slot_already_booked`), which was the client.
- With a window of 0 the slice `[-0:]` of `window_of` takes the whole history, and
  with `min_runs` above the window no statistical verdict is ever given;
  `FlakinessPolicy` checks neither.
- Whether cancelling a confirmed booking is refunded depends on whether the
  answer to its confirmation was lost: the relay repeats the confirmation, is
  refused, and takes the slot for lost (`relay.py:96`).
- With two relays of booking the events of one booking may swap places in the
  stream: SKIP LOCKED passes over a locked row. `outbox.py:60` speaks of creation
  order; ADR-0010, point 6, asks for none.

### Fairness

- `BookingService!FairSpec`: strong fairness of the steps of each worker. A
  statement that waits for a lock is enabled again and again, not continuously;
  PostgreSQL queues the waiters, so each gets its turn. Receiving requests and
  dying are not fair.
- `SlotPayments!SystemFairSpec`: weak fairness of the requests and relays at
  work, strong fairness of PayStub's deliveries (it retries until it gets a 2xx)
  and of the relay's calls (threads of booking may be busy again and again).
  Faults are bounded, so calls are answered in the end. Nothing is assumed of
  clients.
- `EventDelivery!DeliveryFairSpec`: the loops of each relay and consumer go on, and an
  entry that stays pending is listed in the end (`idle_ms` passes). Commits are not
  fair, and the gateway may refuse for ever.
- `NotifierConsumer!FairSpec`: the loop of each consumer goes on, and an entry
  that stays pending is listed in the end. The gateway may refuse for ever.
- `WebSession!FairSpec`: pending rows ask as soon as a connection is free (strong
  fairness: other requests come between), and what was asked is answered and
  received. Nothing is assumed of people. Faults are bounded.

## 4. What is proved

The theorems hold for any sets of people, bookings, workers, relays, consumers,
records and so on, and for any bounds. They rest on the assumptions named in the
modules: `...Assumption` says of each module that a null is not one of the values
it stands for, that bounds and limits are numbers, and what the code or its
configuration guarantees (a batch takes at least one row, a session lasts, a
stream keeps at least one entry). No bound has to be large or small.

| Module | Theorems | Inductive invariant |
|---|---|---|
| `BookingService_proofs` | `NoDoubleBooking`, `LocksNeverDeadlock`, `OnlyAllowedMoves`, `HoldKept`, `OutboxComplete`, `ListedCanBeBooked`, `ServiceRefines` (`Spec => Abs!Spec`) | `IInv` |
| `SlotPayments_proofs`, on `PaymentsService` | `NoTwoRelays`, `ChargesMatch`, `PaidOnce`, `RefundsTracked`, `RefundsDue`, `OutcomesFinal` | `IInv` |
| `SlotPayments_proofs`, on `SlotPayments` | `SystemImplementsPayments`, `SystemImplementsBooking`, `NoFreeSlots`, `NoMoneyForNothing`, `RefundsFindTheirCharge`, `NoSlotSoldTwice`, `FaultlessRefund` | `IInv` of payments and `SystemIInv`, with `OneHolder` and `FaultlessInv` |
| `EventDelivery_proofs` | `NothingLost`, `RepeatsAreFaults`, `RepeatsInAll`, `StreamHasRoom`, `SentIsTold`, `OwedIsUnderWay`, `DeliveryRefines` (`DeliverySpec => NoticesRefined`) | `RelayInv` with `TotalInv`; with the notifier also `NotifierInv`, `SentInv`, `AckInv` |
| `NotifierConsumer_proofs` | `NothingSilentlyLost`, `SentIsTrue` | `IInv` |
| `RiskGate_proofs` | `GateFailsClosed`, `NothingShipsUndecided`, `NoWaitingItOut`, `OrderIsFree` | `IInv` |
| `WebPages_proofs` | `BookedIsTrue`, `OwnSlotsAreTrue`, `CheckoutIsOnesOwn` | `IInv` |
| `WebSession_proofs` | `RowsAreTrue`, `RowsGoForward`, `NobodyIsThrownOut` | `IInv` |
| `Flakiness_proofs` | `FlakyIsBoth`, `ReleaseHolds`, `SkippedIsSilent` | `TypeOK` |

Each module also has its invariance theorem (`Invariance`, `SystemInvariance`,
`RelayInvariance`, `DeliveryInvariance`; `Flakiness` needs no more than its types)
and, but for `EventDelivery_proofs`,
where `TypeOK` is a part of `RelayInv`, a theorem of its types (`TypeCorrect`,
`SystemTypeCorrect`). `theorems` in `PROJECT.json` names the property of a run
that each one states. `NoSlotSoldTwice`, `RepeatsInAll`, `StreamHasRoom`, `SentIsTold` and
`OwedIsUnderWay` are about the compositions and state what no run checks;
`FaultlessRefund` is about the property that the run `system_refund` refutes, and
says what it takes.

### Booking

`OneActiveBooking` is not inductive: it says nothing of rows that are inserted
and not committed. `IInv` adds what the locks guarantee:

- `ControlInv`: a worker's request and its sets fit its `pc`;
- `LocksExclusive`: no row is locked by two workers;
- `BookInv`: the rows a booking request has expired are still stale, by its own
  `now`, and on its slot;
- `InsertInv`: once its INSERT has passed the index, every active row of the slot
  is one it expires itself;
- `IndexInv`: nobody else has inserted into, or holds a changed row of, that slot;
- `ChangeInv`: a change that has passed its conditional UPDATE still sees the
  status it read.

`InsertInv` and `IndexInv` together make `CommitBook` keep `OneActiveBooking`, and
make it the step `Book` of `SlotBooking`; `ChangeInv` does the same for
`CommitChange` and `ChangeStatus`. All other steps leave the tables alone and are
stutters. The absence of deadlock needs no order on locks: a worker that has
passed the index waits for nothing, and among the others only a worker in
`insert` holds locks.

### Payments

What the properties say of committed rows holds because of what open
transactions have in hand:

- `ControlInv`: a request that goes to PayStub asks for the sum on record, so
  charge and payment agree whichever of two requests comes first;
- `RowLock`: between `LockPayment` and `CommitWebhook` the payment stays as it was
  read, and no other webhook is there; hence one outcome, and with it
  `OneCommand` and `ConfirmInv` (a confirmation exactly for a success);
- `RefundInv`: a refund is commanded after the confirmation is over, and the marks
  of the payment say where the command stands;
- `BatchInv`: commands in hand are unpublished, those refused are confirmations that
  this batch has delivered, those refunded are its refunds. `NoSharedCommand`
  keeps two batches from writing the same marks.

### Booking and payments together

Every step of `SlotPayments` is a step of `PaymentsService` or leaves it alone, and
the same for `SlotBooking`. So what is proved of each alone holds in the system,
and `SystemIInv` has only to speak of what crosses the gap: `EventsTrue` (PayStub
announces the success of a paid charge only), `ConfirmingInv` (a confirmation
under way has a command behind it, and an `ok` was true when it was said),
`WaitingInv` (a relay waits for the thread that serves its own command, which a
thread left behind is not), and `DeliveredInv` (a delivered confirmation was
accepted or is among the refused).

`NoSlotSoldTwice` uses the same steps: a confirmation only changes a booking that is
pending, so it never makes a second holder (`OneHolder`). `FaultlessRefund` shows that
the refund of a booking that keeps its slot takes a fault. As long as there was
none, a thread of booking that carries out a confirmation has a relay waiting for
it (`Attended`), so two confirmations of one booking cannot overlap
(`OneConfirmation`); what a thread has read still holds or the booking is gone
(`ReadsHold`); hence a refusal is of a booking that is gone (`RefusalsHold`), and so is
every refund that follows (`RefundsHold`).

### Events

`RelayInv` holds for `OutboxRelay` alone and in `EventDelivery`, where the notifier
takes no step of a relay and only spends faults of the common budget. A row in
hand is unpublished and in one hand only (`HeldInv`, `NoSharedRow`), and a copy in
the stream that is neither marked nor about to be was paid for by a fault
(`RepeatsInv`); counting copies is what `RepeatsNeedFaults` needs and cannot do by
itself. `TotalInv` counts all entries at once: publishing spends one row for one entry,
a fault gives back the rows of at most one batch (`TotalFail`), and a batch is no
larger than `BatchSize` because it is the first so many of an order (`FirstOnes`). With
it `StreamHasRoom` shows that the length that bounds the stream of `EventDelivery`,
`MaxRows + MaxFaults * BatchSize`, is never in a relay's way.

`NothingSilentlyLost` needs what a consumer has in its hands between two calls:
`HandleOf` says what has happened to the entry by the step it is at (told before
`mark`, buried before `mark_dead`, settled before `ack`), `PendingInv` that nothing is
pending that was not given, `DeadRowInv` that a row says `dead` only beside a
buried copy, without which the early acknowledgement of a repeated event
would be wrong.

`DeliveryRefines` maps each step. A commit, an XADD, a message told and an entry
buried are the steps `Commit`, `Publish`, `Tell` and `Bury`; every other step changes
nothing that is shown, or lets events fall behind. The case that matters: an event
becomes lost by the commit that marks its row, by the XADD that trims its last
copy, or by a consumer that lets go of a copy the stream has dropped, and each
time its last copy has `MaxLen` entries after it (`Behind`, from `NotifierInv`); and
a lost event never returns, because a consumer takes up nothing that was dropped
(`ConsumerMove`).

`SentIsTold` and `OwedIsUnderWay` carry the two theorems about the notifier over to the
composition, in terms of what has become of an event. `SentInv` and `AckInv` are the
parts of the notifier's invariant they need. An event is owed if it is committed and
neither told, buried nor lost; were all its copies acknowledged and out of every hand,
each would be dropped, or told, or buried (`SettledEntry`), and the event with it. So
what `EventsSettle` says must come to an end always has something left to do.

### Dependency gate

The file is finite and only GitHub's records are rated (`RatingInv`), which follows
from how `osv_severity` reads a rating. `ShippedIsDecided` then follows from the
verdict and from how long an acceptance may run, and `WaitingNeverHelps` from what
the gate reads of the calendar. `OrderIsFree` has two hypotheses besides: GitHub
has one record of a vulnerability (`OneGithubRecord`), and its other records have
the same names (`SameAliases`). They are needed: with two GitHub records of one CVE
the property fails (section 3, "Behaviours met"), and on the instance of `risk`
they hold.

### Web

Both invariants speak of answers on the way, not only of pages. In `WebPages` a
request whose place is still on the page was sent by whom the page was drawn for
(`AskedAs`), so its answer may be read by that person (`AnswerInv`); `LateInv` covers
what booking does after web has given up. In `WebSession` an answer tells what was
true (`AnswerTrue`), and is not behind the row it will replace (`AnswerNotBehind`):
whatever replaced that row in the meantime has taken the request off the page.
`NobodyIsThrownOut` needs the other half of `AnswerTrue`: an answer is a login page only
if its request had no live session when web answered, and time does not revive it.
The steps that are left are those of the forms, of which `Login` gives a session and
`Logout` and `LoginRefused` take one away.
That the bookings themselves only go forward is the theorem `OnlyAllowedMoves` of
`BookingService_proofs`.

### Flaky tests

The three properties follow from the rules, for any window, minimum and threshold
and any history. `Conclusive` is defined by the places of the runs that said
something (`Said`, `Nth`) rather than by a filter, which the provers could only
reason about by an induction. The lemmas count: a run has `Rank` others below it
and the rest `Above` it (`RankCounts`, `NthInOrder`), and the runs since an entry
have as much above a run as the whole history has (`SaidSince`). `ReleaseHolds` then
compares two counts (`ReleaseRefutes`). The failure that a flaky verdict needs has
fewer than `window` conclusive runs after it. The clean runs that earned the
release are at least `window`, because `FlakinessPolicyAssumption` says that
`stable_runs_to_release` is no smaller: a failure before the entry would have all
of them after it, and one since the entry would be among them. Without that
assumption the property is false; the default policy satisfies it and no code
checks it.

### Only model-checked

- Liveness: `RequestsFinish`, `MoneySettles`, `EventsSettle`, `EntriesSettle`,
  `SettledIsShown`. Fairness, and the ENABLED in it, are out of the prover's reach.
- The two disagreements, which are counterexamples.

## 5. What is not modelled

- Token signing and checking, webhook signatures, parsing and validation of
  requests: cryptography and data, no state. `ensure_owner` and `ensure_role` are
  modelled.
- `ensure_valid_slot`'s limits on the length of a slot: no later rule reads them.
- Migrations, heartbeats, health endpoints, JSON schemas, texts of messages, the
  counters of attempts and `last_error`: nothing reads them.
- The retries of XADD inside the Redis client: an answer lost there adds a copy, as a
  death between XADD and COMMIT does, and the faults of `RepeatsNeedFaults` are deaths.
- Conversions of times, prices and names in web; parsing of JUnit files.
- The report of the gate. Other tools (`changed_services`, `event_schema_diff`,
  `import_boundaries`), e2e, smoke and load tests: no state that outlives a call.

## 6. Plan

Done: the modules of section 2, with the theorems of section 4. What is left:

1. In `PaymentsService` and the composition: the provider's side of a refund (given
   at most once for a charge) as a property of its own.
2. The start-up order and the loop of the notifier's process (`notifier/app.py`),
   and the heartbeats.
