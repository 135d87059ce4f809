--------------------------- MODULE EventDelivery ---------------------------
(***************************************************************************)
(* The way of an event from the booking service to the client: the relays  *)
(* of booking and the consumers of the notifier on one stream.  An entry   *)
(* of the stream carries a row of outbox_messages, so the rows are the     *)
(* events of NotifierConsumer; the notifier has a text for each of the     *)
(* three types that booking announces.  Deaths and lost answers of both    *)
(* sides are counted together.                                             *)
(***************************************************************************)
EXTENDS OutboxRelay

CONSTANTS Consumer, MaxDeliveries, ReadBatch, MaxLen, Garbage

ASSUME EventDeliveryAssumption ==
  /\ Garbage \notin 1 .. MaxRows
  /\ MaxDeliveries \in Nat /\ ReadBatch \in Nat \ {0} /\ MaxLen \in Nat \ {0}

VARIABLES trimmed, lastId, pel, dead, notices, told, pc, work

notifierVars == <<trimmed, lastId, pel, dead, notices, told, pc, work>>
allVars == <<vars, notifierVars>>

Event == 1 .. MaxRows

(* Every fault may waste a batch of entries. *)
N == INSTANCE NotifierConsumer WITH
       Unknown <- {},
       Batch <- ReadBatch,
       MaxEntries <- MaxRows + MaxFaults * BatchSize,
       stream <- log

DeliveryInit == Init /\ N!Init

Producing ==
  /\ \/ Enqueue
     \/ \E i \in DOMAIN rows : Commit(i)
  /\ UNCHANGED notifierVars

(* An entry that a relay adds arrives at the stream. *)
Arriving == IF log' = log THEN UNCHANGED notifierVars ELSE N!Arrives(log'[Len(log')])

RelayStep(r) == Relaying(r) /\ Arriving

RelayFault(r) == Fail(r) /\ Arriving

ConsumerStep(c) == N!Consuming(c) /\ UNCHANGED <<rows, batch>>

ConsumerFault(c) == N!Crash(c) /\ UNCHANGED <<rows, batch>>

DeliveryNext ==
  \/ Producing
  \/ \E r \in Relay : RelayStep(r) \/ RelayFault(r)
  \/ \E c \in Consumer : ConsumerStep(c) \/ ConsumerFault(c)

DeliverySpec == DeliveryInit /\ [][DeliveryNext]_allVars

(* Both loops never stop for good, and an entry that stays pending is idle  *)
(* for long enough in the end; the booking service owes nothing and the     *)
(* gateway may refuse for ever.                                             *)
DeliveryFairSpec ==
  /\ DeliverySpec
  /\ \A r \in Relay : WF_allVars(RelayStep(r))
  /\ \A c \in Consumer :
       /\ WF_allVars(ConsumerStep(c))
       /\ \A i \in N!Entry :
            SF_allVars(ConsumerStep(c) /\ pc[c] = "start"
                         /\ \E k \in DOMAIN work'[c] : work'[c][k].entry = i)

-----------------------------------------------------------------------------
(* What has become of an event. *)

CopiesOf(e) == {k \in DOMAIN log : log[k] = e}

(* A consumer has the message in its hands, whatever the stream still holds. *)
InHand(k) ==
  \E c \in Consumer : pc[c] # "claim" /\ \E d \in DOMAIN work[c] : work[c][d].entry = k

Fate(e) ==
  IF e \notin DOMAIN rows \/ rows[e] = "open" THEN "none"
  ELSE IF e \in told THEN "told"
  ELSE IF CopiesOf(e) \cap dead # {} THEN "buried"
  ELSE IF rows[e] = "published" /\ \A k \in CopiesOf(e) : k <= trimmed /\ ~InHand(k) THEN "lost"
  ELSE "owed"

LastCopy(e) == IF CopiesOf(e) = {} THEN 0 ELSE CHOOSE k \in CopiesOf(e) : \A j \in CopiesOf(e) : j <= k

Notices == INSTANCE EventNotices WITH
             fate <- [e \in Event |-> Fate(e)],
             entries <- Len(log),
             last <- [e \in Event |-> LastCopy(e)]

-----------------------------------------------------------------------------
(* Properties. *)

(* The outbox, the stream and the notifier together keep the promise: the   *)
(* client hears of committed changes only, what he was told stays told, and *)
(* only an event MaxLen entries behind is lost, whoever dies where.         *)
NoticesRefined == Notices!Spec

(* Every event that was committed is told, buried or lost that way.         *)
EventsSettle == Notices!Settles
=============================================================================
