---------------------------- MODULE OutboxRelay ----------------------------
(***************************************************************************)
(* The relay of booking (services/booking/src/booking/outbox.py): rows of  *)
(* outbox_messages become entries of a Redis stream.  Each relay process   *)
(* publishes a batch in one transaction; XADD takes effect at once, and    *)
(* `published_at` at the COMMIT.                                           *)
(*                                                                         *)
(* The id of a row is its place in `rows`: uuid7 gives ids in the order in *)
(* which the events were made, which is not the order of their COMMITs:    *)
(* the transactions of different bookings end in any order, and bookings   *)
(* are not told apart here.                                                *)
(***************************************************************************)
EXTENDS Naturals, Sequences, FiniteSets

CONSTANTS Relay,          \* relay processes
          BatchSize,      \* rows a relay takes at once
          MaxRows,        \* bound: events
          MaxFaults       \* bound: deaths, broker failures and lost answers

ASSUME OutboxRelayAssumption ==
  /\ BatchSize \in Nat \ {0}
  /\ MaxRows \in Nat /\ MaxFaults \in Nat

VARIABLES rows,     \* table outbox_messages: the state of each row, by id
          batch,    \* the open transaction of each relay
          log,      \* every entry ever added to the stream: the row it carries
          faults    \* faults so far

vars == <<rows, batch, log, faults>>

RowState == {"open", "unpublished", "published"}

NoBatch == [todo |-> {}, done |-> {}]

TypeOK ==
  /\ rows \in Seq(RowState) /\ Len(rows) <= MaxRows
  /\ batch \in [Relay -> [todo : SUBSET (1 .. Len(rows)), done : SUBSET (1 .. Len(rows))]]
  /\ log \in Seq(1 .. Len(rows))
  /\ faults \in 0 .. MaxFaults

Init ==
  /\ rows = <<>>
  /\ batch = [r \in Relay |-> NoBatch]
  /\ log = <<>>
  /\ faults = 0

-----------------------------------------------------------------------------
(* The booking service. *)

Enqueue ==
  /\ Len(rows) < MaxRows
  /\ rows' = Append(rows, "open")
  /\ UNCHANGED <<batch, log, faults>>

Commit(i) ==
  /\ rows[i] = "open"
  /\ rows' = [rows EXCEPT ![i] = "unpublished"]
  /\ UNCHANGED <<batch, log, faults>>

-----------------------------------------------------------------------------
(* The relay: publish_pending. *)

Held(r) == batch[r].todo \cup batch[r].done

(* Mutant: SELECT without FOR UPDATE SKIP LOCKED. *)
UnpublishedOrLocked(r) == {i \in DOMAIN rows : rows[i] = "unpublished"}

(* Mutant: the relay remembers how far it has come. *)
UnpublishedAhead(r) ==
  {i \in DOMAIN rows : /\ rows[i] = "unpublished"
                       /\ \A q \in Relay \ {r} : i \notin Held(q)
                       /\ \A k \in DOMAIN log : log[k] < i}

(* WHERE published_at IS NULL FOR UPDATE SKIP LOCKED. *)
Unpublished(r) ==
  {i \in DOMAIN rows : /\ rows[i] = "unpublished"
                       /\ \A q \in Relay \ {r} : i \notin Held(q)}

(* ORDER BY id LIMIT batch_size. *)
TakeBatch(r) ==
  /\ batch[r] = NoBatch
  /\ Unpublished(r) # {}
  /\ batch' = [batch EXCEPT ![r].todo =
       {i \in Unpublished(r) : Cardinality({j \in Unpublished(r) : j < i}) < BatchSize}]
  /\ UNCHANGED <<rows, log, faults>>

Current(r) == CHOOSE i \in batch[r].todo : \A j \in batch[r].todo : i <= j

(* XADD. *)
Add(i) == log' = Append(log, i)

Publish(r) ==
  /\ batch[r].todo # {}
  /\ Add(Current(r))
  /\ batch' = [batch EXCEPT ![r] = [todo |-> @.todo \ {Current(r)},
                                    done |-> @.done \cup {Current(r)}]]
  /\ UNCHANGED <<rows, faults>>

(* Mutant: the batch is marked when it is taken up, not when it is done. *)
CommitBatchEarly(r) ==
  /\ Held(r) # {}
  /\ rows' = [i \in DOMAIN rows |->
       IF i \in Held(r) THEN "published" ELSE rows[i]]
  /\ batch' = [batch EXCEPT ![r] = NoBatch]
  /\ UNCHANGED <<log, faults>>

CommitBatch(r) ==
  /\ batch[r].todo = {}
  /\ batch[r].done # {}
  /\ rows' = [i \in DOMAIN rows |->
       IF i \in batch[r].done THEN "published" ELSE rows[i]]
  /\ batch' = [batch EXCEPT ![r] = NoBatch]
  /\ UNCHANGED <<log, faults>>

(* The relay dies, or XADD raises, with the entry added or not: nothing of  *)
(* the batch is marked, what was published included (`attempts` left out).  *)
Fail(r) ==
  /\ faults < MaxFaults
  /\ faults' = faults + 1
  /\ batch[r] # NoBatch
  /\ batch' = [batch EXCEPT ![r] = NoBatch]
  /\ \/ UNCHANGED log
     \/ batch[r].todo # {} /\ Add(Current(r))
  /\ UNCHANGED rows

Relaying(r) == TakeBatch(r) \/ Publish(r) \/ CommitBatch(r)

Next ==
  \/ Enqueue
  \/ \E i \in DOMAIN rows : Commit(i)
  \/ \E r \in Relay : Relaying(r) \/ Fail(r)

Spec == Init /\ [][Next]_vars

-----------------------------------------------------------------------------
(* Properties. *)

Added(i) == \E k \in DOMAIN log : log[k] = i

Copies(i) == Cardinality({k \in DOMAIN log : log[k] = i})

(* outbox.py: "a crash in between means a repeat, never a loss": a row that *)
(* is marked has been accepted by the broker, an open one has not, ...      *)
MarkedIsPublished ==
  \A i \in DOMAIN rows :
    /\ rows[i] = "published" => Added(i)
    /\ Added(i) => rows[i] # "open"

(* ... and every repeat has a fault of its own: two relays at work do not   *)
(* publish the same message twice.                                          *)
RepeatsNeedFaults == \A i \in DOMAIN rows : Copies(i) <= 1 + faults
=============================================================================
