-------------------------- MODULE NotifierConsumer --------------------------
(***************************************************************************)
(* The consumers of the notifier (services/notifier/src/notifier/          *)
(* consumer.py) on one Redis stream and one consumer group, with the       *)
(* notifications table and the gateway NotifyGate.                         *)
(*                                                                         *)
(* An entry may carry an event that another entry carries too (the relay   *)
(* of booking repeats itself), or something that cannot be read.  The      *)
(* stream is a log of limited length: the broker may drop entries that     *)
(* have enough others after them, read or not.  There is no clock:         *)
(* `idle_ms` may pass between any two steps of a consumer, which may be    *)
(* slow without being dead.                                                *)
(***************************************************************************)
EXTENDS Naturals, Sequences, FiniteSets

CONSTANTS Event,          \* events of booking, by event_id
          Unknown,        \* those of a type the notifier has no text for
          Garbage,        \* what an entry carries that cannot be read
          Consumer,       \* consumer processes
          MaxDeliveries,  \* deliveries before an entry is declared poisonous
          Batch,          \* entries asked for at once
          MaxLen,         \* entries that the stream keeps at least
          MaxEntries,     \* bound: entries of the stream
          MaxFaults       \* bound: deaths of consumers

ASSUME NotifierConsumerAssumption ==
  /\ Unknown \subseteq Event /\ Garbage \notin Event
  /\ MaxDeliveries \in Nat /\ Batch \in Nat \ {0} /\ MaxLen \in Nat \ {0}
  /\ MaxEntries \in Nat /\ MaxFaults \in Nat

VARIABLES stream,     \* the entries ever added
          trimmed,    \* how many of them, the oldest, the broker has dropped
          lastId,     \* the last entry the group has been given
          pel,        \* the pending entries: how often delivered, and when last
          dead,       \* entries copied to the dead-letter stream
          notices,    \* table notifications: the status of each event
          told,       \* events whose message the gateway has accepted
          pc,         \* where each consumer is
          work,       \* the deliveries it still has to handle, the first one now
          faults      \* faults so far

vars == <<stream, trimmed, lastId, pel, dead, notices, told, pc, work, faults>>
broker == <<stream, trimmed, lastId, pel, dead>>

Entry == 1 .. MaxEntries

NotPending == 0

NoGroup == MaxEntries + 1

Notice == {"none", "sending", "sent", "dead"}

Delivery == [entry : Entry, deliveries : Nat]

TypeOK ==
  /\ stream \in Seq(Event \cup {Garbage}) /\ Len(stream) <= MaxEntries
  /\ trimmed \in 0 .. Len(stream)
  /\ lastId \in (0 .. Len(stream)) \cup {NoGroup}
  /\ pel \in [Entry -> Nat]
  /\ \A i \in Entry : pel[i] # NotPending => i <= lastId
  /\ dead \subseteq DOMAIN stream
  /\ notices \in [Event -> Notice]
  /\ told \subseteq Event
  /\ pc \in [Consumer -> {"start", "claim", "read", "handle", "send", "mark",
                          "mark_dead", "ack"}]
  /\ work \in [Consumer -> Seq(Delivery)]
  /\ faults \in 0 .. MaxFaults

Init ==
  /\ stream = <<>>
  /\ trimmed = 0
  /\ lastId = NoGroup
  /\ pel = [i \in Entry |-> NotPending]
  /\ dead = {}
  /\ notices = [e \in Event |-> "none"]
  /\ told = {}
  /\ pc = [c \in Consumer |-> "start"]
  /\ work = [c \in Consumer |-> <<>>]
  /\ faults = 0

-----------------------------------------------------------------------------
(* Mutant: one entry too many is dropped. *)
ArrivesTrimmingMore(x) ==
  /\ Len(stream) < MaxEntries
  /\ stream' = Append(stream, x)
  /\ trimmed' \in {trimmed} \cup trimmed .. (Len(stream) + 2 - MaxLen)
  /\ UNCHANGED <<lastId, pel, dead, notices, told, pc, work>>

(* XADD by the relay of booking, with an approximate MAXLEN: no fewer than  *)
(* the last MaxLen entries are kept.                                        *)
Arrives(x) ==
  /\ Len(stream) < MaxEntries
  /\ stream' = Append(stream, x)
  /\ trimmed' \in {trimmed} \cup trimmed .. (Len(stream) + 1 - MaxLen)
  /\ UNCHANGED <<lastId, pel, dead, notices, told, pc, work>>

Published(x) == Arrives(x) /\ UNCHANGED faults

-----------------------------------------------------------------------------
(* ensure_group: whichever consumer starts first creates the group, at 0. *)
EnsureGroup(c) ==
  /\ lastId = NoGroup
  /\ lastId' = 0
  /\ UNCHANGED <<stream, trimmed, pel, dead, notices, told, pc, work, faults>>

-----------------------------------------------------------------------------
(* run_once: abandoned entries first, then new ones. *)

Goto(c, label) == pc' = [pc EXCEPT ![c] = label]

Pending == {i \in Entry : pel[i] # NotPending}

(* A set of entries in the order of their ids, as deliveries. *)
InOrder(X, deliveries) ==
  [k \in 1 .. Cardinality(X) |->
     LET i == CHOOSE j \in X : Cardinality({h \in X : h < j}) = k - 1
     IN [entry |-> i, deliveries |-> deliveries[i]]]

(* Mutant: what has been delivered too often is passed over. *)
ListPendingInLimit(c) ==
  /\ lastId # NoGroup
  /\ pc[c] = "start"
  /\ \E X \in SUBSET {i \in Pending : pel[i] <= MaxDeliveries} :
       /\ Cardinality(X) <= Batch
       /\ work' = [work EXCEPT ![c] = InOrder(X, pel)]
       /\ Goto(c, IF X = {} THEN "read" ELSE "claim")
  /\ UNCHANGED <<broker, notices, told, faults>>

(* XPENDING ... IDLE: whichever pending entries have been idle for long. *)
ListPending(c) ==
  /\ lastId # NoGroup
  /\ pc[c] = "start"
  /\ \E X \in SUBSET Pending :
       /\ Cardinality(X) <= Batch
       /\ work' = [work EXCEPT ![c] = InOrder(X, pel)]
       /\ Goto(c, IF X = {} THEN "read" ELSE "claim")
  /\ UNCHANGED <<broker, notices, told, faults>>

(* XCLAIM: those that nobody has acknowledged or claimed in the meantime, a  *)
(* claim being a delivery that starts the idle time anew.  What the stream   *)
(* no longer holds is struck off the pending list.                           *)
Claim(c) ==
  LET listed == {work[c][k] : k \in DOMAIN work[c]}
      gone == {d.entry : d \in listed} \cap 1 .. trimmed
      X == {d.entry : d \in {d \in listed : pel[d.entry] = d.deliveries}} \ gone
      claimed == [i \in Entry |-> IF i \in gone THEN NotPending
                                  ELSE IF i \in X THEN pel[i] + 1 ELSE pel[i]]
  IN /\ pc[c] = "claim"
     /\ pel' = claimed
     /\ work' = [work EXCEPT ![c] = InOrder(X, claimed)]
     /\ Goto(c, "read")
     /\ UNCHANGED <<stream, trimmed, lastId, dead, notices, told, faults>>

(* XREADGROUP: the next entries, if there are any before the wait is over.   *)
ReadNew(c) ==
  LET from == IF trimmed > lastId THEN trimmed ELSE lastId
      X == {i \in DOMAIN stream : from < i /\ i <= from + Batch}
      given == [i \in Entry |-> IF i \in X THEN 1 ELSE pel[i]]
      all == work[c] \o InOrder(X, given)
  IN /\ pc[c] = "read"
     /\ lastId' = IF X = {} THEN lastId ELSE from + Cardinality(X)
     /\ pel' = given
     /\ work' = [work EXCEPT ![c] = all]
     /\ Goto(c, IF all = <<>> THEN "start" ELSE "handle")
     /\ UNCHANGED <<stream, trimmed, dead, notices, told, faults>>

-----------------------------------------------------------------------------
(* _handle: one delivery. *)

EntryOf(c) == Head(work[c]).entry

EventOf(c) == stream[EntryOf(c)]

(* On to the next delivery, or to the next run_once. *)
NextDelivery(c) ==
  /\ work' = [work EXCEPT ![c] = Tail(@)]
  /\ Goto(c, IF Len(work[c]) = 1 THEN "start" ELSE "handle")

Poisonous(c) ==
  EventOf(c) \in Event /\ Head(work[c]).deliveries > MaxDeliveries

(* XADD to the dead-letter stream; what cannot be read has no row to mark. *)
DeadLetter(c) ==
  /\ pc[c] = "handle"
  /\ EventOf(c) = Garbage \/ Poisonous(c)
  /\ dead' = dead \cup {EntryOf(c)}
  /\ Goto(c, IF EventOf(c) = Garbage THEN "ack" ELSE "mark_dead")
  /\ UNCHANGED <<stream, trimmed, lastId, pel, notices, told, work, faults>>

(* UPDATE notifications SET status = 'dead', which finds the row or none. *)
MarkDead(c) ==
  /\ pc[c] = "mark_dead"
  /\ notices' = [notices EXCEPT ![EventOf(c)] = IF @ = "none" THEN @ ELSE "dead"]
  /\ Goto(c, "ack")
  /\ UNCHANGED <<broker, told, work, faults>>

Readable(c) == pc[c] = "handle" /\ EventOf(c) \in Event /\ ~Poisonous(c)

Ignore(c) ==
  /\ Readable(c)
  /\ EventOf(c) \in Unknown
  /\ Goto(c, "ack")
  /\ UNCHANGED <<broker, notices, told, work, faults>>

(* Mutant: an event that somebody has claimed counts as done. *)
TakeUpOnce(c) ==
  /\ Readable(c)
  /\ EventOf(c) \notin Unknown
  /\ notices' = [notices EXCEPT ![EventOf(c)] = IF @ = "none" THEN "sending" ELSE @]
  /\ Goto(c, IF notices[EventOf(c)] = "none" THEN "send" ELSE "ack")
  /\ UNCHANGED <<broker, told, work, faults>>

(* Mutant: the row says `sent` from the start. *)
TakeUpAsSent(c) ==
  /\ Readable(c)
  /\ EventOf(c) \notin Unknown
  /\ notices' = [notices EXCEPT ![EventOf(c)] = IF @ = "none" THEN "sent" ELSE @]
  /\ Goto(c, IF notices[EventOf(c)] = "none" THEN "send" ELSE "ack")
  /\ UNCHANGED <<broker, told, work, faults>>

(* _already_done: INSERT ... ON CONFLICT DO NOTHING; a row that says        *)
(* `sending` is an attempt that may have died, and the event is sent again. *)
TakeUp(c) ==
  /\ Readable(c)
  /\ EventOf(c) \notin Unknown
  /\ notices' = [notices EXCEPT ![EventOf(c)] = IF @ = "none" THEN "sending" ELSE @]
  /\ Goto(c, IF notices[EventOf(c)] \in {"none", "sending"} THEN "send" ELSE "ack")
  /\ UNCHANGED <<broker, told, work, faults>>

(* The gateway takes one message for a key, however often it is asked. *)
Send(c) ==
  /\ pc[c] = "send"
  /\ told' = told \cup {EventOf(c)}
  /\ Goto(c, "mark")
  /\ UNCHANGED <<broker, notices, work, faults>>

(* The gateway refuses, or its answer is lost: no acknowledgement (the      *)
(* attempts that the row counts are left out).                              *)
SendFails(c) ==
  /\ pc[c] = "send"
  /\ told' \in {told, told \cup {EventOf(c)}}
  /\ NextDelivery(c)
  /\ UNCHANGED <<broker, notices, faults>>

MarkSent(c) ==
  /\ pc[c] = "mark"
  /\ notices' = [notices EXCEPT ![EventOf(c)] = "sent"]
  /\ Goto(c, "ack")
  /\ UNCHANGED <<broker, told, work, faults>>

(* XACK, whoever the entry belongs to by now. *)
Acknowledge(c) ==
  /\ pc[c] = "ack"
  /\ pel' = [pel EXCEPT ![EntryOf(c)] = NotPending]
  /\ NextDelivery(c)
  /\ UNCHANGED <<stream, trimmed, lastId, dead, notices, told, faults>>

(* The process dies, or a call of the broker or the database raises; it is  *)
(* started again and remembers nothing.                                     *)
Crash(c) ==
  /\ faults < MaxFaults
  /\ faults' = faults + 1
  /\ pc[c] # "start"
  /\ Goto(c, "start")
  /\ work' = [work EXCEPT ![c] = <<>>]
  /\ UNCHANGED <<broker, notices, told>>

-----------------------------------------------------------------------------
Handle(c) ==
  \/ DeadLetter(c)
  \/ MarkDead(c)
  \/ Ignore(c)
  \/ TakeUp(c)
  \/ Send(c)
  \/ SendFails(c)
  \/ MarkSent(c)
  \/ Acknowledge(c)

Consuming(c) ==
  EnsureGroup(c) \/ ListPending(c) \/ Claim(c) \/ ReadNew(c) \/ Handle(c)

Next ==
  \/ \E x \in Event \cup {Garbage} : Published(x)
  \/ \E c \in Consumer : Consuming(c) \/ Crash(c)

Spec == Init /\ [][Next]_vars

(* run_forever never stops for good, every call returns or times out, and   *)
(* an entry that stays pending is idle for long enough in the end.  Nothing *)
(* is asked of the gateway: it may refuse for ever.                         *)
FairSpec ==
  /\ Spec
  /\ \A c \in Consumer :
       /\ WF_vars(Consuming(c))
       /\ \A i \in Entry :
            SF_vars(ListPending(c) /\ \E k \in DOMAIN work'[c] : work'[c][k].entry = i)

-----------------------------------------------------------------------------
(* Properties. *)

Acknowledged(i) == lastId # NoGroup /\ i <= lastId /\ pel[i] = NotPending

(* "A crash means a repeat, never a silent loss": an entry that has left    *)
(* the pending list has been told to the client or lies in the dead-letter  *)
(* stream, itself or as another copy of its event, unless the broker has    *)
(* dropped it.                                                              *)
AcknowledgedIsSettled ==
  \A i \in DOMAIN stream : Acknowledged(i) =>
    \/ i \in dead \cup 1 .. trimmed
    \/ stream[i] \in Unknown \cup told
    \/ \E j \in dead : stream[j] = stream[i]

(* "Was the client told?": a row that says `sent` is right, whatever        *)
(* consumers claimed from each other and wherever they died.                *)
SentMeansTold == \A e \in Event : notices[e] = "sent" => e \in told

(* One poisonous message does not stop the rest, and is not retried for     *)
(* ever: every entry is acknowledged in the end.                            *)
EntriesSettle == \A i \in Entry : i <= Len(stream) ~> Acknowledged(i)

(* models.py: "The row is also the answer to 'was the client told?'": a row *)
(* that says `dead` is of a client who was not.                             *)
DeadMeansNotTold == \A e \in Event : notices[e] = "dead" => e \notin told
=============================================================================
