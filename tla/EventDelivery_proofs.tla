------------------------ MODULE EventDelivery_proofs ------------------------
(***************************************************************************)
(* Proofs about the relays of booking, alone (OutboxRelay) and with the    *)
(* consumers of the notifier on the same stream (EventDelivery), for any   *)
(* number of relays, rows and faults and every size of a batch.            *)
(***************************************************************************)
EXTENDS EventDelivery, SequenceTheorems, FiniteSetTheorems, TLAPS

-----------------------------------------------------------------------------
(* The inductive invariant. *)

(* What a relay has in hand is not published yet, and what it has handed    *)
(* over is in the stream.                                                   *)
HeldInv ==
  \A r \in Relay :
    /\ batch[r].todo \cap batch[r].done = {}
    /\ \A i \in Held(r) : rows[i] = "unpublished"
    /\ \A i \in batch[r].done : Added(i)

(* FOR UPDATE SKIP LOCKED: a row is in the hands of one relay.              *)
NoSharedRow ==
  \A q, r \in Relay : q # r => Held(q) \cap Held(r) = {}

InFlight(i) == \E r \in Relay : i \in batch[r].done

(* A copy that is neither marked nor about to be was paid for by a fault.   *)
RepeatsInv ==
  \A i \in DOMAIN rows :
    Copies(i) <= IF rows[i] = "published" \/ InFlight(i) THEN faults + 1 ELSE faults

RelayInv ==
  /\ TypeOK
  /\ HeldInv
  /\ NoSharedRow
  /\ MarkedIsPublished
  /\ RepeatsInv

(* Somebody else's fault: the budget is shared with the notifier's side.    *)
OtherFault ==
  /\ faults < MaxFaults
  /\ faults' = faults + 1
  /\ UNCHANGED <<rows, batch, log>>

-----------------------------------------------------------------------------
(* Operators. *)

(* A set of ids has a least element: the row a relay publishes next.        *)
LEMMA LeastId ==
  ASSUME NEW n \in Nat, NEW S \in SUBSET (1 .. n), S # {}
  PROVE  \E i \in S : \A j \in S : i <= j
<1> DEFINE Below(i) == {j \in S : j < i}
           T == {Below(i) : i \in S}
<1>1. ASSUME NEW i \in S PROVE Below(i) \in FiniteSubsetsOf(1 .. n)
  <2>1. IsFiniteSet(1 .. n)
    BY FS_Interval
  <2>2. Below(i) \in SUBSET (1 .. n)
    OBVIOUS
  <2> HIDE DEF Below
  <2>3. IsFiniteSet(Below(i))
    BY <2>1, <2>2, FS_Subset
  <2> QED
    BY <2>2, <2>3 DEF FiniteSubsetsOf
<1>2. T \subseteq FiniteSubsetsOf(1 .. n) /\ T # {}
  <2> HIDE DEF Below
  <2> QED
    BY <1>1, Zenon
<1>3. PICK U \in T : \A V \in T : <<V, U>> \notin StrictSubsetOrdering(1 .. n)
  <2> HIDE DEF T
  <2> QED
    BY <1>2, WFMin, FS_StrictSubsetOrderingWellFounded
<1>4. PICK i \in S : U = Below(i)
  OBVIOUS
<1>5. ASSUME NEW j \in S, ~(i <= j) PROVE FALSE
  <2>1. /\ i \in Nat /\ j \in Nat /\ j < i
        /\ \A k \in S : k \in Nat
    BY <1>5
  <2>2. j \in Below(i) /\ j \notin Below(j) /\ \A k \in S : k < j => k < i
    BY <2>1
  <2>3. <<Below(j), Below(i)>> \in StrictSubsetOrdering(1 .. n)
    BY <2>2, Zenon DEF StrictSubsetOrdering
  <2> QED
    BY <1>3, <1>4, <2>3
<1> QED
  BY <1>5

(* What XADD does to the stream.                                            *)
LEMMA AddedEntry ==
  ASSUME TypeOK, NEW i \in DOMAIN rows, Add(i)
  PROVE  /\ log' \in Seq(1 .. Len(rows))
         /\ Added(i)'
         /\ \A j : Added(j) => Added(j)'
         /\ \A j : Added(j)' => Added(j) \/ j = i
         /\ \A j : Copies(j)' = IF j = i THEN Copies(j) + 1 ELSE Copies(j)
         /\ \A j : Copies(j) \in Nat
<1>1. /\ log \in Seq(1 .. Len(rows)) /\ log' = Append(log, i)
      /\ i \in 1 .. Len(rows)
  BY LenProperties DEF TypeOK, Add
<1>2. /\ log' \in Seq(1 .. Len(rows))
      /\ Len(log') = Len(log) + 1
      /\ \A k \in 1 .. Len(log) : log'[k] = log[k]
      /\ log'[Len(log) + 1] = i
  BY <1>1, AppendProperties
<1>3. /\ Len(log) \in Nat
      /\ DOMAIN log = 1 .. Len(log)
      /\ DOMAIN log' = 1 .. Len(log) + 1
  BY <1>1, <1>2, LenProperties
<1>4. /\ Len(log) + 1 \in DOMAIN log' /\ Len(log) + 1 \notin DOMAIN log
      /\ \A k \in DOMAIN log' : k \in DOMAIN log \/ k = Len(log) + 1
      /\ \A k \in DOMAIN log : k \in DOMAIN log' /\ log'[k] = log[k]
  BY <1>2, <1>3
<1>5. /\ Added(i)'
      /\ \A j : Added(j) => Added(j)'
      /\ \A j : Added(j)' => Added(j) \/ j = i
  BY <1>2, <1>4, Zenon DEF Added
<1>6. ASSUME NEW j
      PROVE  /\ Copies(j) \in Nat
             /\ Copies(j)' = IF j = i THEN Copies(j) + 1 ELSE Copies(j)
  <2> DEFINE S == {k \in DOMAIN log : log[k] = j}
  <2>1. IsFiniteSet(DOMAIN log)
    BY <1>3, FS_Interval
  <2>2. IsFiniteSet(S) /\ Cardinality(S) \in Nat
    BY <2>1, FS_Subset, FS_CardinalityType
  <2>3. {k \in DOMAIN log' : log'[k] = j} = IF j = i THEN S \cup {Len(log) + 1} ELSE S
    BY <1>2, <1>4
  <2>4. Len(log) + 1 \notin S
    BY <1>4
  <2> HIDE DEF S
  <2>5. Cardinality(S \cup {Len(log) + 1}) = Cardinality(S) + 1
    BY <2>2, <2>4, FS_AddElement
  <2> QED
    BY <2>2, <2>3, <2>5, Zenon DEF Copies, S
<1> QED
  BY <1>2, <1>5, <1>6

(* The rows a relay takes up are unpublished, and nobody else's.            *)
LEMMA CurrentRow ==
  ASSUME RelayInv, NEW r \in Relay, batch[r].todo # {}, NEW c, c = Current(r)
  PROVE  c \in batch[r].todo /\ c \in DOMAIN rows
<1>1. Len(rows) \in Nat /\ DOMAIN rows = 1 .. Len(rows) /\ batch[r].todo \in SUBSET (1 .. Len(rows))
  BY LenProperties DEF RelayInv, TypeOK
<1>2. \E i \in batch[r].todo : \A j \in batch[r].todo : i <= j
  BY <1>1, LeastId, Zenon
<1> QED
  BY <1>1, <1>2 DEF Current

-----------------------------------------------------------------------------
(* One lemma for each operation. *)

LEMMA EnqueueStep == RelayInv /\ Enqueue => RelayInv'
<1> SUFFICES ASSUME RelayInv, Enqueue PROVE RelayInv'
  OBVIOUS
<1>1. /\ rows \in Seq(RowState) /\ rows' = Append(rows, "open")
      /\ UNCHANGED <<batch, log, faults>> /\ "open" \in RowState
      /\ Len(rows) < MaxRows
  BY DEF RelayInv, TypeOK, Enqueue, RowState
<1>2. /\ rows' \in Seq(RowState)
      /\ Len(rows') = Len(rows) + 1
      /\ \A i \in 1 .. Len(rows) : rows'[i] = rows[i]
      /\ rows'[Len(rows) + 1] = "open"
  BY <1>1, AppendProperties
<1>3. /\ Len(rows) \in Nat
      /\ DOMAIN rows = 1 .. Len(rows)
      /\ DOMAIN rows' = 1 .. Len(rows) + 1
  BY <1>1, <1>2, LenProperties
<1>4. /\ \A i \in DOMAIN rows' : i \in DOMAIN rows \/ i = Len(rows) + 1
      /\ 1 .. Len(rows) \subseteq 1 .. Len(rows')
  BY <1>2, <1>3
<1>5. TypeOK'
  <2>1. log' \in Seq(1 .. Len(rows'))
    <3>1. log \in Seq(1 .. Len(rows))
      BY DEF RelayInv, TypeOK
    <3>2. \A k \in 1 .. Len(log) : log[k] \in 1 .. Len(rows')
      BY <1>4, <3>1, ElementOfSeq
    <3>3. Len(log) \in Nat /\ log \in [1 .. Len(log) -> 1 .. Len(rows')]
      BY <3>1, <3>2, LenProperties
    <3> QED
      BY <1>1, <3>3
  <2>2. batch' \in [Relay -> [todo : SUBSET (1 .. Len(rows')), done : SUBSET (1 .. Len(rows'))]]
    BY <1>1, <1>4 DEF RelayInv, TypeOK
  <2>3. Len(rows') <= MaxRows
    BY <1>1, <1>2, <1>3, OutboxRelayAssumption
  <2> QED
    BY <1>1, <1>2, <2>1, <2>2, <2>3 DEF RelayInv, TypeOK
<1>6. ~Added(Len(rows) + 1)
  <2>1. \A k \in DOMAIN log : log[k] \in 1 .. Len(rows)
    BY ElementOfSeq, LenProperties DEF RelayInv, TypeOK
  <2> QED
    BY <1>3, <2>1 DEF Added
<1>7. \A i \in DOMAIN rows : rows'[i] = rows[i]
  BY <1>2, <1>3
<1>8. HeldInv' /\ NoSharedRow'
  <2>1. \A r \in Relay : Held(r) \subseteq DOMAIN rows
    BY <1>3 DEF Held, RelayInv, TypeOK
  <2> QED
    BY <1>1, <1>7, <2>1 DEF RelayInv, HeldInv, NoSharedRow, Held, Added
<1>9. MarkedIsPublished'
  BY <1>1, <1>2, <1>4, <1>6, <1>7 DEF RelayInv, MarkedIsPublished, Added
<1>10. RepeatsInv'
  <2>1. Copies(Len(rows) + 1) = 0
    BY <1>6, FS_EmptySet DEF Copies, Added
  <2>2. faults \in Nat
    BY OutboxRelayAssumption DEF RelayInv, TypeOK
  <2>3. \A i : Copies(i)' = Copies(i) /\ InFlight(i)' = InFlight(i)
    BY <1>1 DEF Copies, InFlight
  <2> QED
    BY <1>1, <1>4, <1>7, <2>1, <2>2, <2>3 DEF RelayInv, RepeatsInv
<1> QED
  BY <1>5, <1>8, <1>9, <1>10 DEF RelayInv

LEMMA CommitStep ==
  ASSUME RelayInv, NEW i \in DOMAIN rows, Commit(i)
  PROVE  RelayInv'
<1>1. /\ rows \in Seq(RowState) /\ rows' = [rows EXCEPT ![i] = "unpublished"]
      /\ UNCHANGED <<batch, log, faults>> /\ rows[i] = "open"
  BY DEF RelayInv, TypeOK, Commit
<1>2. rows' \in Seq(RowState) /\ Len(rows') = Len(rows) /\ DOMAIN rows' = DOMAIN rows
  BY <1>1, ExceptSeq, LenProperties DEF RowState
<1>3. \A j \in DOMAIN rows : rows'[j] = IF j = i THEN "unpublished" ELSE rows[j]
  BY <1>1
<1>4. \A r \in Relay : i \notin Held(r) /\ Held(r) \subseteq DOMAIN rows
  BY <1>1, LenProperties DEF RelayInv, HeldInv, TypeOK, Held
<1>5. TypeOK'
  BY <1>1, <1>2 DEF RelayInv, TypeOK
<1>6. HeldInv' /\ NoSharedRow' /\ MarkedIsPublished'
  BY <1>1, <1>2, <1>3, <1>4 DEF RelayInv, HeldInv, NoSharedRow, MarkedIsPublished, Held, Added
<1>7. RepeatsInv'
  <2>1. \A j : Copies(j)' = Copies(j) /\ InFlight(j)' = InFlight(j)
    BY <1>1 DEF Copies, InFlight
  <2> QED
    BY <1>1, <1>2, <1>3, <2>1 DEF RelayInv, RepeatsInv
<1> QED
  BY <1>5, <1>6, <1>7 DEF RelayInv

LEMMA TakeBatchStep ==
  ASSUME RelayInv, NEW r \in Relay, TakeBatch(r)
  PROVE  RelayInv'
<1> DEFINE X == {i \in Unpublished(r) : Cardinality({j \in Unpublished(r) : j < i}) < BatchSize}
<1>1. /\ X \subseteq Unpublished(r)
      /\ batch[r] = NoBatch /\ batch' = [batch EXCEPT ![r].todo = X]
      /\ UNCHANGED <<rows, log, faults>>
  BY DEF TakeBatch
<1> HIDE DEF X
<1>2. batch \in [Relay -> [todo : SUBSET (1 .. Len(rows)), done : SUBSET (1 .. Len(rows))]]
  BY DEF RelayInv, TypeOK
<1>3. X \subseteq 1 .. Len(rows) /\ \A i \in X : rows[i] = "unpublished"
  BY <1>1, LenProperties DEF Unpublished, RelayInv, TypeOK
<1>4. /\ batch' \in [Relay -> [todo : SUBSET (1 .. Len(rows)), done : SUBSET (1 .. Len(rows))]]
      /\ batch'[r].todo = X /\ batch'[r].done = {}
      /\ \A q \in Relay \ {r} : batch'[q] = batch[q]
  BY <1>1, <1>2, <1>3 DEF NoBatch
<1>5. TypeOK'
  BY <1>1, <1>4 DEF RelayInv, TypeOK
<1>6. HeldInv'
  BY <1>1, <1>3, <1>4 DEF RelayInv, HeldInv, Held, Added
<1>7. NoSharedRow'
  <2>1. \A q \in Relay \ {r} : X \cap Held(q) = {}
    BY <1>1 DEF Unpublished
  <2> QED
    BY <1>4, <2>1 DEF RelayInv, NoSharedRow, Held
<1>8. MarkedIsPublished' /\ RepeatsInv'
  <2>1. \A j : Copies(j)' = Copies(j) /\ Added(j)' = Added(j)
    BY <1>1 DEF Copies, Added
  <2>2. \A j : InFlight(j) => InFlight(j)'
    BY <1>1, <1>4 DEF InFlight, NoBatch
  <2>3. \A j : InFlight(j)' => InFlight(j)
    BY <1>1, <1>4 DEF InFlight, NoBatch
  <2> QED
    BY <1>1, <2>1, <2>2, <2>3 DEF RelayInv, MarkedIsPublished, RepeatsInv
<1> QED
  BY <1>5, <1>6, <1>7, <1>8 DEF RelayInv

LEMMA PublishStep ==
  ASSUME RelayInv, NEW r \in Relay, Publish(r)
  PROVE  RelayInv'
<1>1. PICK c : c = Current(r)
  OBVIOUS
<1>2. /\ c \in batch[r].todo /\ c \in DOMAIN rows
      /\ Add(c) /\ UNCHANGED <<rows, faults>>
      /\ batch' = [batch EXCEPT ![r] = [todo |-> batch[r].todo \ {c},
                                        done |-> batch[r].done \cup {c}]]
  BY <1>1, CurrentRow DEF Publish
<1>3. batch \in [Relay -> [todo : SUBSET (1 .. Len(rows)), done : SUBSET (1 .. Len(rows))]]
  BY DEF RelayInv, TypeOK
<1>4. c \in 1 .. Len(rows)
  BY <1>2, <1>3
<1>5. /\ batch' \in [Relay -> [todo : SUBSET (1 .. Len(rows)), done : SUBSET (1 .. Len(rows))]]
      /\ batch'[r].todo = batch[r].todo \ {c}
      /\ batch'[r].done = batch[r].done \cup {c}
      /\ \A q \in Relay \ {r} : batch'[q] = batch[q]
  BY <1>2, <1>3, <1>4
<1>6. /\ log' \in Seq(1 .. Len(rows))
      /\ Added(c)'
      /\ \A j : Added(j) => Added(j)'
      /\ \A j : Added(j)' => Added(j) \/ j = c
      /\ \A j : Copies(j)' = IF j = c THEN Copies(j) + 1 ELSE Copies(j)
      /\ \A j : Copies(j) \in Nat
  BY <1>2, AddedEntry DEF RelayInv
<1>7. /\ rows[c] = "unpublished"
      /\ \A q \in Relay : c \notin batch[q].done
      /\ \A q \in Relay : Held(q)' = Held(q)
  <2>1. rows[c] = "unpublished" /\ c \in Held(r) /\ c \notin batch[r].done
    BY <1>2 DEF RelayInv, HeldInv, Held
  <2>2. \A q \in Relay \ {r} : c \notin Held(q)
    BY <2>1 DEF RelayInv, NoSharedRow
  <2>3. Held(r)' = Held(r)
    BY <1>2, <1>5 DEF Held
  <2>4. \A q \in Relay \ {r} : Held(q)' = Held(q)
    BY <1>5 DEF Held
  <2> QED
    BY <2>1, <2>2, <2>3, <2>4 DEF Held
<1>8. TypeOK'
  BY <1>2, <1>5, <1>6 DEF RelayInv, TypeOK
<1>9. HeldInv' /\ NoSharedRow'
  <2>1. NoSharedRow'
    BY <1>7 DEF RelayInv, NoSharedRow
  <2>2. ASSUME NEW q \in Relay
        PROVE  /\ batch'[q].todo \cap batch'[q].done = {}
               /\ \A i \in Held(q)' : rows'[i] = "unpublished"
               /\ \A i \in batch'[q].done : Added(i)'
    BY <1>2, <1>5, <1>6, <1>7 DEF RelayInv, HeldInv
  <2> QED
    BY <2>1, <2>2 DEF HeldInv
<1>10. MarkedIsPublished'
  BY <1>2, <1>6, <1>7 DEF RelayInv, MarkedIsPublished
<1>11. RepeatsInv'
  <2>1. faults \in Nat
    BY OutboxRelayAssumption DEF RelayInv, TypeOK
  <2>2. ~InFlight(c) /\ InFlight(c)'
    BY <1>5, <1>7 DEF InFlight
  <2>3. \A j : InFlight(j) => InFlight(j)'
    BY <1>5 DEF InFlight
  <2>4. Copies(c) <= faults
    BY <1>2, <1>7, <2>2 DEF RelayInv, RepeatsInv
  <2>5. ASSUME NEW j \in DOMAIN rows
        PROVE  Copies(j)' <= IF rows[j] = "published" \/ InFlight(j)' THEN faults + 1 ELSE faults
    <3>1. CASE j = c
      BY <1>6, <2>1, <2>2, <2>4, <3>1
    <3>2. CASE j # c
      <4>1. Copies(j) <= IF rows[j] = "published" \/ InFlight(j) THEN faults + 1 ELSE faults
        BY DEF RelayInv, RepeatsInv
      <4>2. Copies(j)' = Copies(j) /\ Copies(j) \in Nat
        BY <1>6, <3>2
      <4> QED
        BY <2>1, <2>3, <4>1, <4>2
    <3> QED
      BY <3>1, <3>2
  <2> QED
    BY <1>2, <2>5 DEF RepeatsInv
<1> QED
  BY <1>8, <1>9, <1>10, <1>11 DEF RelayInv

LEMMA CommitBatchStep ==
  ASSUME RelayInv, NEW r \in Relay, CommitBatch(r)
  PROVE  RelayInv'
<1> DEFINE D == batch[r].done
<1>1. /\ rows' = [i \in DOMAIN rows |-> IF i \in D THEN "published" ELSE rows[i]]
      /\ batch' = [batch EXCEPT ![r] = NoBatch]
      /\ UNCHANGED <<log, faults>>
  BY DEF CommitBatch
<1>2. /\ batch \in [Relay -> [todo : SUBSET (1 .. Len(rows)), done : SUBSET (1 .. Len(rows))]]
      /\ rows \in Seq(RowState)
  BY DEF RelayInv, TypeOK
<1>3. /\ \A i \in D : rows[i] = "unpublished" /\ Added(i)
      /\ \A q \in Relay \ {r} : D \cap Held(q) = {}
  BY DEF RelayInv, HeldInv, NoSharedRow, Held
<1> HIDE DEF D
<1>4. /\ Len(rows) \in Nat /\ DOMAIN rows = 1 .. Len(rows)
      /\ rows' \in [1 .. Len(rows) -> RowState]
  <2>1. Len(rows) \in Nat /\ DOMAIN rows = 1 .. Len(rows) /\ \A i \in DOMAIN rows : rows[i] \in RowState
    BY <1>2, LenProperties, ElementOfSeq
  <2> QED
    BY <1>1, <2>1 DEF RowState
<1>5. rows' \in Seq(RowState) /\ Len(rows') = Len(rows) /\ DOMAIN rows' = DOMAIN rows
  BY <1>4
<1>6. /\ batch' \in [Relay -> [todo : SUBSET (1 .. Len(rows)), done : SUBSET (1 .. Len(rows))]]
      /\ batch'[r].todo = {} /\ batch'[r].done = {}
      /\ \A q \in Relay \ {r} : batch'[q] = batch[q]
  BY <1>1, <1>2 DEF NoBatch
<1>7. TypeOK'
  BY <1>1, <1>5, <1>6 DEF RelayInv, TypeOK
<1>8. /\ Held(r)' = {}
      /\ \A q \in Relay \ {r} : Held(q)' = Held(q) /\ Held(q) \subseteq DOMAIN rows
  BY <1>2, <1>4, <1>6 DEF Held
<1>9. \A j : Copies(j)' = Copies(j) /\ (Added(j)' <=> Added(j))
  BY <1>1 DEF Copies, Added
<1>10. HeldInv'
  <2>1. \A q \in Relay \ {r} : \A i \in Held(q) : rows'[i] = rows[i]
    BY <1>1, <1>3, <1>8
  <2>2. ASSUME NEW q \in Relay
        PROVE  /\ batch'[q].todo \cap batch'[q].done = {}
               /\ \A i \in Held(q)' : rows'[i] = "unpublished"
               /\ \A i \in batch'[q].done : Added(i)'
    BY <1>6, <1>8, <1>9, <2>1 DEF RelayInv, HeldInv
  <2> QED
    BY <2>2 DEF HeldInv
<1>11. NoSharedRow'
  BY <1>8 DEF RelayInv, NoSharedRow
<1>12. MarkedIsPublished'
  <2>1. \A i \in DOMAIN rows : rows'[i] = IF i \in D THEN "published" ELSE rows[i]
    BY <1>1
  <2> QED
    BY <1>3, <1>5, <1>9, <2>1 DEF RelayInv, MarkedIsPublished
<1>13. RepeatsInv'
  <2>1. \A i \in DOMAIN rows : InFlight(i) => InFlight(i)' \/ rows'[i] = "published"
    BY <1>1, <1>6 DEF InFlight, D
  <2>2. \A i \in DOMAIN rows : rows[i] = "published" => rows'[i] = "published"
    BY <1>1
  <2>3. faults \in Nat
    BY OutboxRelayAssumption DEF RelayInv, TypeOK
  <2>4. ASSUME NEW i \in DOMAIN rows, NEW k, k = Copies(i),
               k <= IF rows[i] = "published" \/ InFlight(i) THEN faults + 1 ELSE faults, k \in Nat
        PROVE  k <= IF rows'[i] = "published" \/ InFlight(i)' THEN faults + 1 ELSE faults
    BY <2>1, <2>2, <2>3, <2>4
  <2>5. \A i : Copies(i) \in Nat
    <3>1. IsFiniteSet(DOMAIN log)
      BY FS_Interval, LenProperties DEF RelayInv, TypeOK
    <3> QED
      BY <3>1, FS_Subset, FS_CardinalityType DEF Copies
  <2> QED
    BY <1>1, <1>5, <1>9, <2>4, <2>5 DEF RelayInv, RepeatsInv
<1> QED
  BY <1>7, <1>10, <1>11, <1>12, <1>13 DEF RelayInv

LEMMA FailStep ==
  ASSUME RelayInv, NEW r \in Relay, Fail(r)
  PROVE  RelayInv'
<1>1. /\ batch' = [batch EXCEPT ![r] = NoBatch]
      /\ UNCHANGED rows
      /\ faults < MaxFaults /\ faults' = faults + 1
      /\ \/ UNCHANGED log
         \/ batch[r].todo # {} /\ Add(Current(r))
  BY DEF Fail
<1>2. /\ batch \in [Relay -> [todo : SUBSET (1 .. Len(rows)), done : SUBSET (1 .. Len(rows))]]
      /\ faults \in Nat /\ faults' \in 0 .. MaxFaults
  BY <1>1, OutboxRelayAssumption DEF RelayInv, TypeOK
<1>3. /\ batch' \in [Relay -> [todo : SUBSET (1 .. Len(rows)), done : SUBSET (1 .. Len(rows))]]
      /\ batch'[r].todo = {} /\ batch'[r].done = {}
      /\ \A q \in Relay \ {r} : batch'[q] = batch[q]
  BY <1>1, <1>2 DEF NoBatch
<1>4. PICK c : c = Current(r)
  OBVIOUS
<1>5. CASE UNCHANGED log
  <2>1. \A j : Copies(j)' = Copies(j) /\ (Added(j)' <=> Added(j))
    BY <1>5 DEF Copies, Added
  <2>2. \A j : Copies(j) \in Nat
    <3>1. IsFiniteSet(DOMAIN log)
      BY FS_Interval, LenProperties DEF RelayInv, TypeOK
    <3> QED
      BY <3>1, FS_Subset, FS_CardinalityType DEF Copies
  <2>3. TypeOK' /\ MarkedIsPublished'
    BY <1>1, <1>2, <1>3, <1>5, <2>1 DEF RelayInv, TypeOK, MarkedIsPublished
  <2>4. HeldInv' /\ NoSharedRow'
    BY <1>1, <1>3, <2>1 DEF RelayInv, HeldInv, NoSharedRow, Held
  <2>5. RepeatsInv'
    BY <1>1, <1>2, <2>1, <2>2 DEF RelayInv, RepeatsInv
  <2> QED
    BY <2>3, <2>4, <2>5 DEF RelayInv
<1>6. CASE batch[r].todo # {} /\ Add(c)
  <2>1. c \in batch[r].todo /\ c \in DOMAIN rows /\ rows[c] = "unpublished"
    BY <1>4, <1>6, CurrentRow DEF RelayInv, HeldInv, Held
  <2>2. /\ log' \in Seq(1 .. Len(rows))
        /\ \A j : Added(j) => Added(j)'
        /\ \A j : Added(j)' => Added(j) \/ j = c
        /\ \A j : Copies(j)' = IF j = c THEN Copies(j) + 1 ELSE Copies(j)
        /\ \A j : Copies(j) \in Nat
    BY <1>6, <2>1, AddedEntry DEF RelayInv
  <2>3. TypeOK' /\ MarkedIsPublished'
    BY <1>1, <1>2, <1>3, <2>1, <2>2 DEF RelayInv, TypeOK, MarkedIsPublished
  <2>4. HeldInv' /\ NoSharedRow'
    BY <1>1, <1>3, <2>2 DEF RelayInv, HeldInv, NoSharedRow, Held
  <2>5. RepeatsInv'
    <3>1. ~InFlight(c)
      <4>1. c \in Held(r) /\ c \notin batch[r].done
        BY <2>1 DEF RelayInv, HeldInv, Held
      <4>2. \A q \in Relay \ {r} : c \notin Held(q)
        BY <4>1 DEF RelayInv, NoSharedRow
      <4> QED
        BY <4>1, <4>2 DEF InFlight, Held
    <3>2. Copies(c) <= faults
      BY <2>1, <3>1 DEF RelayInv, RepeatsInv
    <3>3. \A j \in DOMAIN rows : Copies(j) <= faults + 1
      BY <1>2, <2>2 DEF RelayInv, RepeatsInv
    <3>4. ASSUME NEW j \in DOMAIN rows PROVE Copies(j)' <= faults + 1
      <4>1. CASE j = c
        BY <1>2, <2>2, <3>2, <4>1
      <4>2. CASE j # c
        BY <2>2, <3>3, <4>2
      <4> QED
        BY <4>1, <4>2
    <3> QED
      BY <1>1, <1>2, <2>2, <3>4 DEF RepeatsInv
  <2> QED
    BY <2>3, <2>4, <2>5 DEF RelayInv
<1> QED
  BY <1>1, <1>4, <1>5, <1>6

LEMMA RelayInvStep == RelayInv /\ ([Next]_vars \/ OtherFault) => RelayInv'
<1> SUFFICES ASSUME RelayInv, [Next]_vars \/ OtherFault PROVE RelayInv'
  OBVIOUS
<1>1. CASE UNCHANGED vars
  BY <1>1 DEF vars, RelayInv, TypeOK, HeldInv, NoSharedRow, MarkedIsPublished, RepeatsInv,
              Held, Added, Copies, InFlight
<1>2. CASE OtherFault
  <2>1. /\ UNCHANGED <<rows, batch, log>> /\ faults \in Nat
        /\ faults' = faults + 1 /\ faults' \in 0 .. MaxFaults
    BY <1>2, OutboxRelayAssumption DEF OtherFault, RelayInv, TypeOK
  <2>2. \A j : Copies(j)' = Copies(j) /\ Copies(j) \in Nat /\ InFlight(j)' = InFlight(j)
    <3>1. IsFiniteSet(DOMAIN log)
      BY FS_Interval, LenProperties DEF RelayInv, TypeOK
    <3> QED
      BY <2>1, <3>1, FS_Subset, FS_CardinalityType DEF Copies, InFlight
  <2>3. RepeatsInv'
    BY <2>1, <2>2 DEF RelayInv, RepeatsInv
  <2> QED
    BY <2>1, <2>3 DEF RelayInv, TypeOK, HeldInv, NoSharedRow, MarkedIsPublished, Held, Added
<1> QED
  BY <1>1, <1>2, EnqueueStep, CommitStep, TakeBatchStep, PublishStep, CommitBatchStep, FailStep
  DEF Next, Relaying

LEMMA InitRelayInv == Init => RelayInv
<1> SUFFICES ASSUME Init PROVE RelayInv
  OBVIOUS
<1> USE DEF Init
<1>1. TypeOK
  BY EmptySeq, OutboxRelayAssumption DEF TypeOK, NoBatch
<1> QED
  BY <1>1 DEF RelayInv, HeldInv, NoSharedRow, MarkedIsPublished, RepeatsInv, Held, NoBatch

-----------------------------------------------------------------------------
(* The notifier on the stream of the relays. *)

(* With the notifier on the stream, the relays take the steps of OutboxRelay *)
(* and nothing else touches what they keep.                                 *)
LEMMA DeliveryStep ==
  ASSUME [DeliveryNext]_allVars
  PROVE  [Next]_vars \/ OtherFault
<1>1. CASE UNCHANGED allVars
  BY <1>1 DEF allVars
<1>2. CASE Producing
  BY <1>2 DEF Producing, Next
<1>3. ASSUME NEW r \in Relay, RelayStep(r) \/ RelayFault(r) PROVE [Next]_vars
  BY <1>3 DEF RelayStep, RelayFault, Next
<1>4. ASSUME NEW c \in Consumer, ConsumerStep(c) PROVE UNCHANGED vars
  BY <1>4 DEF ConsumerStep, N!Consuming, N!EnsureGroup, N!ListPending, N!Claim, N!ReadNew,
              N!Handle, N!DeadLetter, N!MarkDead, N!Ignore, N!TakeUp, N!Send, N!SendFails,
              N!MarkSent, N!Acknowledge, N!broker, vars
<1>5. ASSUME NEW c \in Consumer, ConsumerFault(c) PROVE OtherFault
  BY <1>5 DEF ConsumerFault, N!Crash, N!broker, OtherFault
<1> QED
  BY <1>1, <1>2, <1>3, <1>4, <1>5 DEF DeliveryNext

Limit == MaxRows + MaxFaults * BatchSize

Given == [entry : Nat, deliveries : Nat]

PcType == {"start", "claim", "read", "handle", "send", "mark", "mark_dead", "ack"}

(* What a consumer has listed or been given is in the stream.               *)
WorkOf(c) ==
  /\ \A k \in DOMAIN work[c] : work[c][k].entry \in DOMAIN log
  /\ pc[c] \in {"handle", "send", "mark", "mark_dead", "ack"} => work[c] # <<>>

(* Only what the stream holds, or held, can be pending, buried or told, and *)
(* what it has dropped has MaxLen entries after it.                         *)
NotifierInv ==
  /\ Len(log) <= Limit
  /\ trimmed \in Nat /\ (trimmed = 0 \/ trimmed + MaxLen <= Len(log))
  /\ lastId \in Nat
  /\ pel \in [N!Entry -> Nat]
  /\ \A i \in N!Entry : pel[i] # N!NotPending => i \in DOMAIN log
  /\ dead \subseteq DOMAIN log
  /\ \A e \in told : Added(e)
  /\ pc \in [Consumer -> PcType]
  /\ work \in [Consumer -> Seq(Given)]
  /\ \A c \in Consumer : WorkOf(c)

(* A place in two parts put together that is not in the first one.          *)
LEMMA PastTheEnd ==
  ASSUME NEW n \in Nat, NEW l \in Nat, NEW k \in 1 .. n + l, k \notin 1 .. n
  PROVE  \E j \in 1 .. l : k = n + j
<1>1. k - n \in 1 .. l /\ k = n + (k - n)
  OBVIOUS
<1> QED
  BY <1>1

(* Every item of two sequences put together is one of theirs.               *)
LEMMA Joined ==
  ASSUME NEW S, NEW s \in Seq(S), NEW t \in Seq(S), NEW k \in DOMAIN (s \o t)
  PROVE  \/ k \in DOMAIN s /\ (s \o t)[k] = s[k]
         \/ \E j \in DOMAIN t : (s \o t)[k] = t[j]
<1>1. PICK n \in Nat, l \in Nat : n = Len(s) /\ l = Len(t)
  BY LenProperties
<1>2. DOMAIN s = 1 .. n /\ DOMAIN t = 1 .. l
  BY <1>1, LenProperties
<1>3. /\ s \o t \in Seq(S) /\ Len(s \o t) = n + l
      /\ \A j \in 1 .. n : (s \o t)[j] = s[j]
      /\ \A j \in 1 .. l : (s \o t)[n + j] = t[j]
  BY <1>1, ConcatProperties
<1>4. DOMAIN (s \o t) = 1 .. n + l
  BY <1>3, LenProperties
<1>5. CASE k \in 1 .. n
  BY <1>2, <1>3, <1>5
<1>6. CASE k \notin 1 .. n
  <2>1. k \in 1 .. n + l
    BY <1>4
  <2>2. PICK j \in 1 .. l : k = n + j
    BY <1>6, <2>1, PastTheEnd
  <2>3. (s \o t)[n + j] = t[j]
    BY <1>3
  <2> QED
    BY <1>2, <2>2, <2>3
<1> QED
  BY <1>5, <1>6

(* Every place in the order of a finite set of numbers is taken: one        *)
(* element has exactly k - 1 others below it.                               *)
LEMMA RankTaken ==
  ASSUME NEW X \in SUBSET Nat, IsFiniteSet(X), NEW k \in 1 .. Cardinality(X)
  PROVE  \E j \in X : Cardinality({h \in X : h < j}) = k - 1
<1> DEFINE n == Cardinality(X)
           Below(j) == {h \in X : h < j}
           rank == [j \in X |-> Cardinality(Below(j))]
<1>1. n \in Nat /\ IsFiniteSet(0 .. n - 1) /\ Cardinality(0 .. n - 1) = n
  <2>1. n \in Nat
    BY FS_CardinalityType
  <2> HIDE DEF n
  <2>2. 0 \in Int /\ n - 1 \in Int
    BY <2>1
  <2>3. /\ IsFiniteSet(0 .. n - 1)
        /\ Cardinality(0 .. n - 1) = IF 0 > n - 1 THEN 0 ELSE (n - 1) - 0 + 1
    BY <2>2, FS_Interval
  <2> QED
    BY <2>1, <2>3
<1>2. \A j \in X : j \notin Below(j) /\ Below(j) \subseteq X
  OBVIOUS
<1>3. \A j, l \in X : j < l => /\ Below(j) \subseteq Below(l)
                               /\ j \in Below(l)
  <2> TAKE j, l \in X
  <2> HAVE j < l
  <2>1. \A h \in X : h \in Nat
    OBVIOUS
  <2>2. \A h \in X : h < j => h < l
    BY <2>1
  <2> QED
    BY <2>2
<1>4. \A j, l \in X : j # l => j < l \/ l < j
  OBVIOUS
<1> HIDE DEF Below
<1>5. \A j \in X : IsFiniteSet(Below(j)) /\ Cardinality(Below(j)) \in Nat
  BY <1>2, FS_Subset, FS_CardinalityType
<1>6. ASSUME NEW j \in X PROVE Cardinality(Below(j)) < n
  <2>1. Below(j) # X
    BY <1>2
  <2>2. Cardinality(Below(j)) <= n /\ Cardinality(Below(j)) # n
    BY <1>2, <2>1, FS_Subset
  <2> QED
    BY <1>1, <1>5, <2>2
<1>7. ASSUME NEW j \in X, NEW l \in X, j < l PROVE Cardinality(Below(j)) # Cardinality(Below(l))
  <2>1. Below(j) # Below(l)
    BY <1>2, <1>3, <1>7
  <2> QED
    BY <1>3, <1>5, <1>7, <2>1, FS_Subset
<1>8. rank \in [X -> 0 .. n - 1]
  BY <1>1, <1>5, <1>6
<1>9. rank \in Injection(X, 0 .. n - 1)
  BY <1>4, <1>7, <1>8 DEF Injection, IsInjective
<1> HIDE DEF n
<1>10. rank \in Surjection(X, 0 .. n - 1)
  <2> HIDE DEF rank
  <2> QED
    BY <1>1, <1>9, FS_Injection DEF n
<1>11. k - 1 \in 0 .. n - 1
  BY <1>1 DEF n
<1>12. PICK j \in X : rank[j] = k - 1
  BY <1>10, <1>11 DEF Surjection
<1> QED
  BY <1>12 DEF Below

(* A set of entries in order is a sequence of deliveries of these entries.  *)
LEMMA InOrderType ==
  ASSUME NEW n \in Nat, NEW X \in SUBSET (1 .. n), NEW d, \A i \in X : d[i] \in Nat
  PROVE  /\ N!InOrder(X, d) \in Seq(Given)
         /\ \A k \in DOMAIN N!InOrder(X, d) : N!InOrder(X, d)[k].entry \in X
<1>1. IsFiniteSet(X) /\ Cardinality(X) \in Nat /\ X \in SUBSET Nat
  <2>1. IsFiniteSet(1 .. n) /\ 1 .. n \in SUBSET Nat
    BY FS_Interval
  <2> QED
    BY <2>1, FS_Subset, FS_CardinalityType, Zenon
<1> DEFINE At(k) == CHOOSE j \in X : Cardinality({h \in X : h < j}) = k - 1
<1>2. \A k \in 1 .. Cardinality(X) : At(k) \in X
  BY <1>1, RankTaken, Zenon
<1> HIDE DEF At
<1>3. N!InOrder(X, d) = [k \in 1 .. Cardinality(X) |-> [entry |-> At(k), deliveries |-> d[At(k)]]]
  BY DEF N!InOrder, At, N!Cardinality, Cardinality
<1>4. \A k \in 1 .. Cardinality(X) : [entry |-> At(k), deliveries |-> d[At(k)]] \in Given
  BY <1>1, <1>2, Zenon DEF Given
<1>5. N!InOrder(X, d) \in [1 .. Cardinality(X) -> Given]
  BY <1>3, <1>4
<1> QED
  BY <1>1, <1>2, <1>3, <1>5

(* The entry in the hands of a consumer, and what is left without it.       *)
LEMMA HeadEntry ==
  ASSUME work \in [Consumer -> Seq(Given)], NEW c \in Consumer, WorkOf(c), work[c] # <<>>
  PROVE  /\ N!EntryOf(c) \in DOMAIN log
         /\ \E k \in DOMAIN work[c] : work[c][k].entry = N!EntryOf(c)
         /\ Tail(work[c]) \in Seq(Given)
         /\ Len(Tail(work[c])) = Len(work[c]) - 1
         /\ Len(work[c]) \in Nat \ {0}
         /\ \A k \in DOMAIN Tail(work[c]) : \E j \in DOMAIN work[c] : Tail(work[c])[k] = work[c][j]
<1>1. work[c] \in Seq(Given) /\ DOMAIN work[c] = 1 .. Len(work[c]) /\ Len(work[c]) \in Nat \ {0}
  BY LenProperties, EmptySeq
<1>2. /\ Head(work[c]) = work[c][1]
      /\ Tail(work[c]) \in Seq(Given)
      /\ Len(Tail(work[c])) = Len(work[c]) - 1
      /\ \A k \in 1 .. Len(work[c]) - 1 : Tail(work[c])[k] = work[c][k + 1]
  BY <1>1, HeadTailProperties
<1>3. DOMAIN Tail(work[c]) = 1 .. Len(work[c]) - 1
  BY <1>2, LenProperties
<1>4. 1 \in DOMAIN work[c] /\ work[c][1].entry = N!EntryOf(c)
  BY <1>1, <1>2 DEF N!EntryOf
<1>5. \A k \in DOMAIN Tail(work[c]) : \E j \in DOMAIN work[c] : Tail(work[c])[k] = work[c][j]
  <2> TAKE k \in DOMAIN Tail(work[c])
  <2>1. k + 1 \in DOMAIN work[c]
    BY <1>1, <1>3
  <2> QED
    BY <1>2, <1>3, <2>1
<1> QED
  BY <1>1, <1>2, <1>4, <1>5 DEF WorkOf

(* A consumer has the message in its hands.                                 *)
Hand(c, k) == pc[c] # "claim" /\ \E d \in DOMAIN work[c] : work[c][d].entry = k

(* What a step of a consumer may do to the pending list and to itself: it   *)
(* takes up nothing that the stream has dropped.                            *)
ConsumerMove(c) ==
  /\ lastId' \in Nat
  /\ pel' \in [N!Entry -> Nat]
  /\ \A i \in N!Entry : pel'[i] # N!NotPending => i \in DOMAIN log
  /\ pc' \in [Consumer -> PcType]
  /\ work' \in [Consumer -> Seq(Given)]
  /\ WorkOf(c)'
  /\ \A d \in Consumer \ {c} : pc'[d] = pc[d] /\ work'[d] = work[d]
  /\ \A k \in 1 .. trimmed : Hand(c, k)' => Hand(c, k)

LEMMA StreamType ==
  ASSUME RelayInv, NotifierInv
  PROVE  /\ Len(log) \in Nat /\ DOMAIN log = 1 .. Len(log)
         /\ DOMAIN log \subseteq N!Entry
         /\ \A k \in DOMAIN log : log[k] \in DOMAIN rows /\ log[k] \in Event
         /\ trimmed <= Len(log)
<1>1. /\ Len(log) \in Nat /\ DOMAIN log = 1 .. Len(log)
      /\ \A k \in DOMAIN log : log[k] \in 1 .. Len(rows)
      /\ Len(rows) \in Nat /\ DOMAIN rows = 1 .. Len(rows) /\ Len(rows) <= MaxRows
  BY LenProperties DEF RelayInv, TypeOK
<1>2. DOMAIN log \subseteq N!Entry
  <2>1. Limit \in Nat
    BY OutboxRelayAssumption DEF Limit
  <2>2. DOMAIN log \subseteq 1 .. Limit
    BY <1>1, <2>1 DEF NotifierInv
  <2> QED
    BY <2>2 DEF N!Entry, Limit
<1>3. trimmed <= Len(log)
  BY <1>1, EventDeliveryAssumption DEF NotifierInv
<1>4. \A k \in DOMAIN log : log[k] \in Event
  BY <1>1, OutboxRelayAssumption DEF Event
<1> QED
  BY <1>1, <1>2, <1>3, <1>4

LEMMA EnsureGroupMove ==
  ASSUME RelayInv, NotifierInv, NEW c \in Consumer, N!EnsureGroup(c)
  PROVE  ConsumerMove(c)
BY DEF NotifierInv, N!EnsureGroup, ConsumerMove, WorkOf, Hand

LEMMA CrashMove ==
  ASSUME RelayInv, NotifierInv, NEW c \in Consumer, N!Crash(c)
  PROVE  ConsumerMove(c)
<1>1. /\ pc' = [pc EXCEPT ![c] = "start"] /\ work' = [work EXCEPT ![c] = <<>>]
      /\ UNCHANGED <<log, trimmed, lastId, pel, dead, notices, told>>
  BY DEF N!Crash, N!Goto, N!broker
<1>2. <<>> \in Seq(Given) /\ DOMAIN <<>> = {}
  OBVIOUS
<1>3. /\ pc' \in [Consumer -> PcType] /\ pc'[c] = "start"
      /\ work' \in [Consumer -> Seq(Given)] /\ work'[c] = <<>>
      /\ \A d \in Consumer \ {c} : pc'[d] = pc[d] /\ work'[d] = work[d]
  BY <1>1, <1>2 DEF NotifierInv, PcType
<1>4. WorkOf(c)' /\ \A k \in 1 .. trimmed : ~Hand(c, k)'
  BY <1>2, <1>3 DEF WorkOf, Hand
<1> QED
  BY <1>1, <1>3, <1>4 DEF NotifierInv, ConsumerMove

LEMMA ListPendingMove ==
  ASSUME RelayInv, NotifierInv, NEW c \in Consumer, N!ListPending(c)
  PROVE  ConsumerMove(c)
<1>1. PICK X \in SUBSET N!Pending :
        /\ work' = [work EXCEPT ![c] = N!InOrder(X, pel)]
        /\ pc' = [pc EXCEPT ![c] = IF X = {} THEN "read" ELSE "claim"]
  BY DEF N!ListPending, N!Goto
<1>2. UNCHANGED <<log, trimmed, lastId, pel>>
  BY DEF N!ListPending, N!broker
<1>3. X \in SUBSET (1 .. Len(log)) /\ Len(log) \in Nat /\ \A i \in X : pel[i] \in Nat
  BY StreamType DEF N!Pending, NotifierInv
<1>4. PICK s \in Seq(Given) :
        s = N!InOrder(X, pel) /\ \A k \in DOMAIN s : s[k].entry \in X
  BY <1>3, InOrderType
<1>5. /\ pc' \in [Consumer -> PcType] /\ pc'[c] = IF X = {} THEN "read" ELSE "claim"
      /\ work' \in [Consumer -> Seq(Given)] /\ work'[c] = s
      /\ \A d \in Consumer \ {c} : pc'[d] = pc[d] /\ work'[d] = work[d]
  BY <1>1, <1>4 DEF NotifierInv, PcType
<1>6. WorkOf(c)'
  BY <1>2, <1>3, <1>4, <1>5, StreamType DEF WorkOf
<1>7. \A k \in 1 .. trimmed : ~Hand(c, k)'
  BY <1>4, <1>5 DEF Hand
<1> QED
  BY <1>2, <1>5, <1>6, <1>7 DEF NotifierInv, ConsumerMove

LEMMA ClaimMove ==
  ASSUME RelayInv, NotifierInv, NEW c \in Consumer, N!Claim(c)
  PROVE  ConsumerMove(c)
<1> DEFINE listed == {work[c][k] : k \in DOMAIN work[c]}
           gone == {d.entry : d \in listed} \cap 1 .. trimmed
           X == {d.entry : d \in {d \in listed : pel[d.entry] = d.deliveries}} \ gone
<1>1. /\ pel' = [i \in N!Entry |-> IF i \in gone THEN N!NotPending
                                   ELSE IF i \in X THEN pel[i] + 1 ELSE pel[i]]
      /\ work' = [work EXCEPT ![c] = N!InOrder(X, pel')]
      /\ pc' = [pc EXCEPT ![c] = "read"]
      /\ UNCHANGED <<log, trimmed, lastId>>
  BY DEF N!Claim, N!Goto
<1>2. \A i \in X : i \in DOMAIN log
  BY DEF NotifierInv, WorkOf
<1>3. X \cap 1 .. trimmed = {}
  OBVIOUS
<1> HIDE DEF gone, X
<1>4. /\ pel' \in [N!Entry -> Nat]
      /\ \A i \in N!Entry : pel'[i] # N!NotPending => i \in DOMAIN log
  BY <1>1, <1>2 DEF NotifierInv, N!NotPending
<1>5. X \in SUBSET (1 .. Len(log)) /\ Len(log) \in Nat /\ \A i \in X : pel'[i] \in Nat
  BY <1>2, <1>4, StreamType
<1>6. PICK s \in Seq(Given) :
        s = N!InOrder(X, pel') /\ \A k \in DOMAIN s : s[k].entry \in X
  BY <1>5, InOrderType
<1>7. /\ pc' \in [Consumer -> PcType] /\ pc'[c] = "read"
      /\ work' \in [Consumer -> Seq(Given)] /\ work'[c] = s
      /\ \A d \in Consumer \ {c} : pc'[d] = pc[d] /\ work'[d] = work[d]
  BY <1>1, <1>6 DEF NotifierInv, PcType
<1>8. WorkOf(c)'
  BY <1>1, <1>2, <1>6, <1>7 DEF WorkOf
<1>9. \A k \in 1 .. trimmed : ~Hand(c, k)'
  BY <1>3, <1>6, <1>7 DEF Hand
<1> QED
  BY <1>1, <1>4, <1>7, <1>8, <1>9 DEF NotifierInv, ConsumerMove

LEMMA ReadNewMove ==
  ASSUME RelayInv, NotifierInv, NEW c \in Consumer, N!ReadNew(c)
  PROVE  ConsumerMove(c)
<1> DEFINE from == IF trimmed > lastId THEN trimmed ELSE lastId
           X == {i \in DOMAIN log : from < i /\ i <= from + ReadBatch}
<1>1. /\ lastId' = IF X = {} THEN lastId ELSE from + N!Cardinality(X)
      /\ pel' = [i \in N!Entry |-> IF i \in X THEN 1 ELSE pel[i]]
      /\ work' = [work EXCEPT ![c] = work[c] \o N!InOrder(X, pel')]
      /\ pc' = [pc EXCEPT ![c] = IF work[c] \o N!InOrder(X, pel') = <<>>
                                   THEN "start" ELSE "handle"]
      /\ pc[c] = "read"
      /\ UNCHANGED <<log, trimmed>>
  BY DEF N!ReadNew, N!Goto
<1>2. from \in Nat /\ trimmed <= from
  BY DEF NotifierInv
<1>3. X \subseteq DOMAIN log /\ \A i \in X : ~(i \in 1 .. trimmed)
  <2>1. X \subseteq 1 .. Len(log) /\ X \subseteq DOMAIN log /\ trimmed \in Nat /\ Len(log) \in Nat
    BY StreamType DEF NotifierInv
  <2>2. \A i \in X : from < i
    OBVIOUS
  <2> HIDE DEF from, X
  <2> QED
    BY <1>2, <2>1, <2>2
<1> HIDE DEF from, X
<1>4. /\ pel' \in [N!Entry -> Nat]
      /\ \A i \in N!Entry : pel'[i] # N!NotPending => i \in DOMAIN log
  BY <1>1, <1>3 DEF NotifierInv
<1>5. /\ X \in SUBSET (1 .. Len(log)) /\ Len(log) \in Nat
      /\ \A i \in X : pel'[i] \in Nat
  BY <1>3, <1>4, StreamType
<1>6. lastId' \in Nat
  <2>1. N!Cardinality(X) = Cardinality(X)
    BY DEF N!Cardinality, Cardinality
  <2>2. IsFiniteSet(1 .. Len(log))
    BY <1>5, FS_Interval
  <2>3. Cardinality(X) \in Nat
    BY <1>5, <2>2, FS_Subset, FS_CardinalityType
  <2> QED
    BY <1>1, <1>2, <2>1, <2>3 DEF NotifierInv
<1>7. PICK s \in Seq(Given) :
        s = N!InOrder(X, pel') /\ \A k \in DOMAIN s : s[k].entry \in X
  BY <1>5, InOrderType
<1>8. PICK w \in Seq(Given) : w = work[c] /\ \A k \in DOMAIN w : w[k].entry \in DOMAIN log
  BY DEF NotifierInv, WorkOf
<1>9. PICK all \in Seq(Given) : all = w \o s
  BY ConcatProperties
<1>10. ASSUME NEW k \in DOMAIN all
       PROVE  (\E j \in DOMAIN w : all[k] = w[j]) \/ (\E j \in DOMAIN s : all[k] = s[j])
  BY <1>9, Joined
<1>11. /\ pc' \in [Consumer -> PcType] /\ pc'[c] = IF all = <<>> THEN "start" ELSE "handle"
       /\ work' \in [Consumer -> Seq(Given)] /\ work'[c] = all
       /\ \A d \in Consumer \ {c} : pc'[d] = pc[d] /\ work'[d] = work[d]
  BY <1>1, <1>7, <1>8, <1>9 DEF NotifierInv, PcType
<1>12. WorkOf(c)'
  <2>1. \A k \in DOMAIN all : all[k].entry \in DOMAIN log
    BY <1>3, <1>7, <1>8, <1>10
  <2> QED
    BY <1>1, <1>11, <2>1, Zenon DEF WorkOf
<1>13. ASSUME NEW k \in 1 .. trimmed, Hand(c, k)' PROVE Hand(c, k)
  <2>1. PICK d \in DOMAIN all : all[d].entry = k
    BY <1>11, <1>13 DEF Hand
  <2>2. PICK j \in DOMAIN w : all[d] = w[j]
    BY <1>3, <1>7, <1>10, <2>1
  <2> QED
    BY <1>1, <1>8, <2>1, <2>2 DEF Hand
<1> QED
  BY <1>4, <1>6, <1>11, <1>12, <1>13 DEF ConsumerMove

(* The entry is done with, or refused: only it leaves the hands.            *)
LEMMA NextDeliveryMove ==
  ASSUME RelayInv, NotifierInv, NEW c \in Consumer,
         pc[c] \in {"send", "ack"}, N!NextDelivery(c), UNCHANGED <<log, trimmed, lastId>>,
         pel' = pel \/ pel' = [pel EXCEPT ![N!EntryOf(c)] = N!NotPending]
  PROVE  ConsumerMove(c)
<1>1. WorkOf(c) /\ work[c] # <<>> /\ work \in [Consumer -> Seq(Given)]
  BY DEF NotifierInv, WorkOf
<1>2. /\ Tail(work[c]) \in Seq(Given)
      /\ Len(Tail(work[c])) = Len(work[c]) - 1
      /\ Len(work[c]) \in Nat \ {0}
      /\ \A k \in DOMAIN Tail(work[c]) : \E j \in DOMAIN work[c] : Tail(work[c])[k] = work[c][j]
  BY <1>1, HeadEntry
<1>3. PICK t \in Seq(Given) : t = Tail(work[c])
  BY <1>2
<1>4. /\ pc' \in [Consumer -> PcType]
      /\ pc'[c] = IF Len(work[c]) = 1 THEN "start" ELSE "handle"
      /\ work' \in [Consumer -> Seq(Given)] /\ work'[c] = t
      /\ \A d \in Consumer \ {c} : pc'[d] = pc[d] /\ work'[d] = work[d]
  BY <1>3 DEF N!NextDelivery, N!Goto, NotifierInv, PcType
<1>5. pc'[c] = "handle" => t # <<>>
  <2>1. ASSUME t = <<>> PROVE Len(work[c]) = 1
    <3>1. Len(t) = 0
      BY <2>1
    <3> QED
      BY <1>2, <1>3, <3>1
  <2> QED
    BY <1>4, <2>1
<1>6. WorkOf(c)'
  BY <1>1, <1>2, <1>3, <1>4, <1>5 DEF WorkOf
<1>7. \A k \in 1 .. trimmed : Hand(c, k)' => Hand(c, k)
  BY <1>2, <1>3, <1>4 DEF Hand
<1>8. /\ pel' \in [N!Entry -> Nat]
      /\ \A i \in N!Entry : pel'[i] # N!NotPending => i \in DOMAIN log
  BY DEF NotifierInv, N!NotPending
<1> QED
  BY <1>4, <1>6, <1>7, <1>8 DEF NotifierInv, ConsumerMove

LEMMA HandleMove ==
  ASSUME RelayInv, NotifierInv, NEW c \in Consumer, N!Handle(c)
  PROVE  ConsumerMove(c)
<1>1. CASE N!SendFails(c)
  BY <1>1, NextDeliveryMove DEF N!SendFails, N!broker
<1>2. CASE N!Acknowledge(c)
  BY <1>2, NextDeliveryMove DEF N!Acknowledge
<1>3. ASSUME ~N!SendFails(c), ~N!Acknowledge(c) PROVE ConsumerMove(c)
  <2>1. /\ pc[c] \in {"handle", "send", "mark", "mark_dead"}
        /\ \E label \in {"send", "mark", "mark_dead", "ack"} : pc' = [pc EXCEPT ![c] = label]
        /\ UNCHANGED <<log, trimmed, lastId, pel, work>>
    BY <1>3 DEF N!Handle, N!DeadLetter, N!MarkDead, N!Ignore, N!TakeUp, N!Send, N!MarkSent,
                N!Readable, N!Goto, N!broker
  <2>2. /\ pc' \in [Consumer -> PcType] /\ pc'[c] \in {"send", "mark", "mark_dead", "ack"}
        /\ \A d \in Consumer \ {c} : pc'[d] = pc[d]
    BY <2>1 DEF NotifierInv, PcType
  <2>3. WorkOf(c)' /\ \A k \in 1 .. trimmed : Hand(c, k)' => Hand(c, k)
    BY <2>1, <2>2 DEF NotifierInv, WorkOf, Hand
  <2> QED
    BY <2>1, <2>2, <2>3 DEF NotifierInv, ConsumerMove
<1> QED
  BY <1>1, <1>2, <1>3

LEMMA ConsumerMoves ==
  ASSUME RelayInv, NotifierInv, NEW c \in Consumer, ConsumerStep(c) \/ ConsumerFault(c)
  PROVE  ConsumerMove(c) /\ UNCHANGED <<rows, batch, log, trimmed>>
<1>1. ConsumerMove(c)
  BY EnsureGroupMove, CrashMove, ListPendingMove, ClaimMove, ReadNewMove, HandleMove
     DEF ConsumerStep, ConsumerFault, N!Consuming
<1>2. UNCHANGED <<rows, batch, log, trimmed>>
  BY DEF ConsumerStep, ConsumerFault, N!Consuming, N!EnsureGroup, N!ListPending, N!Claim,
         N!ReadNew, N!Handle, N!DeadLetter, N!MarkDead, N!Ignore, N!TakeUp, N!Send,
         N!SendFails, N!MarkSent, N!Acknowledge, N!Crash, N!broker
<1> QED
  BY <1>1, <1>2

(* A consumer tells, or buries, what it has in its hands, and nothing else  *)
(* leaves them in that step.                                                *)
LEMMA ConsumerTells ==
  ASSUME RelayInv, NotifierInv, NEW c \in Consumer, ConsumerStep(c) \/ ConsumerFault(c)
  PROVE  \/ told' = told /\ dead' = dead
         \/ \E k \in DOMAIN log :
              /\ Hand(c, k)
              /\ \/ told' = told \cup {log[k]} /\ dead' = dead
                 \/ told' = told /\ dead' = dead \cup {k}
              /\ \A j : j # k /\ Hand(c, j) => Hand(c, j)'
<1>1. CASE N!DeadLetter(c) \/ N!Send(c) \/ N!SendFails(c)
  <2>1. pc[c] \in {"handle", "send"}
    BY <1>1 DEF N!DeadLetter, N!Send, N!SendFails
  <2>2. WorkOf(c) /\ work[c] # <<>> /\ work \in [Consumer -> Seq(Given)] /\ pc \in [Consumer -> PcType]
    BY <2>1 DEF NotifierInv, WorkOf
  <2>3. /\ N!EntryOf(c) \in DOMAIN log
        /\ \E k \in DOMAIN work[c] : work[c][k].entry = N!EntryOf(c)
    BY <2>2, HeadEntry
  <2>4. Hand(c, N!EntryOf(c))
    BY <2>1, <2>3 DEF Hand
  <2>5. ASSUME NEW j, j # N!EntryOf(c), Hand(c, j) PROVE Hand(c, j)'
    <3>1. CASE N!DeadLetter(c) \/ N!Send(c)
      BY <2>2, <2>5, <3>1 DEF N!DeadLetter, N!Send, N!Goto, N!broker, Hand
    <3>2. CASE N!SendFails(c)
      <4>1. PICK i \in DOMAIN work[c] : work[c][i].entry = j
        BY <2>5 DEF Hand
      <4>2. /\ Head(work[c]) = work[c][1]
            /\ Tail(work[c]) \in Seq(Given)
            /\ Len(Tail(work[c])) = Len(work[c]) - 1
            /\ \A m \in 1 .. Len(work[c]) - 1 : Tail(work[c])[m] = work[c][m + 1]
            /\ DOMAIN work[c] = 1 .. Len(work[c]) /\ Len(work[c]) \in Nat
        BY <2>2, HeadTailProperties, LenProperties
      <4>3. i # 1
        BY <2>5, <4>1, <4>2 DEF N!EntryOf
      <4>4. i - 1 \in 1 .. Len(work[c]) - 1 /\ Tail(work[c])[i - 1] = work[c][i]
        <5>1. i - 1 \in 1 .. Len(work[c]) - 1 /\ (i - 1) + 1 = i
          BY <4>2, <4>3
        <5> QED
          BY <4>2, <5>1
      <4>5. i - 1 \in DOMAIN Tail(work[c]) /\ Tail(work[c])[i - 1].entry = j
        BY <4>1, <4>2, <4>4, LenProperties
      <4>6. work'[c] = Tail(work[c]) /\ pc'[c] # "claim"
        BY <2>2, <3>2 DEF N!SendFails, N!NextDelivery, N!Goto
      <4> QED
        BY <4>5, <4>6 DEF Hand
    <3> QED
      BY <1>1, <3>1, <3>2
  <2> QED
    BY <1>1, <2>3, <2>4, <2>5 DEF N!DeadLetter, N!Send, N!SendFails, N!EventOf, N!broker
<1>2. ASSUME ~(N!DeadLetter(c) \/ N!Send(c) \/ N!SendFails(c))
      PROVE  told' = told /\ dead' = dead
  BY <1>2 DEF ConsumerStep, ConsumerFault, N!Consuming, N!EnsureGroup, N!ListPending, N!Claim,
         N!ReadNew, N!Handle, N!MarkDead, N!Ignore, N!TakeUp, N!MarkSent, N!Acknowledge,
         N!Crash, N!broker
<1> QED
  BY <1>1, <1>2

Otherwise ==
  Producing \/ (\E r \in Relay : RelayStep(r) \/ RelayFault(r)) \/ UNCHANGED allVars

(* Whatever else happens, at most one row is added to the stream.           *)
LEMMA StreamMove ==
  ASSUME RelayInv, Otherwise
  PROVE  \/ UNCHANGED <<log, notifierVars>>
         \/ \E i \in DOMAIN rows :
              /\ rows[i] = "unpublished" /\ rows' = rows
              /\ log' = Append(log, i) /\ N!Arrives(i)
<1>1. CASE Producing \/ UNCHANGED allVars
  BY <1>1 DEF Producing, Enqueue, Commit, allVars, vars
<1>2. ASSUME NEW r \in Relay, RelayStep(r) \/ RelayFault(r)
      PROVE  \/ UNCHANGED <<log, notifierVars>>
             \/ \E i \in DOMAIN rows :
                  /\ rows[i] = "unpublished" /\ rows' = rows
                  /\ log' = Append(log, i) /\ N!Arrives(i)
  <2>1. CASE log' = log
    BY <1>2, <2>1 DEF RelayStep, RelayFault, Arriving
  <2>2. CASE log' # log
    <3>1. /\ batch[r].todo # {} /\ Add(Current(r)) /\ rows' = rows
          /\ N!Arrives(log'[Len(log')])
      BY <1>2, <2>2 DEF RelayStep, RelayFault, Arriving, Relaying, TakeBatch, Publish,
                        CommitBatch, Fail
    <3>2. PICK i : i = Current(r)
      OBVIOUS
    <3>3. i \in batch[r].todo /\ i \in DOMAIN rows
      BY <3>1, <3>2, CurrentRow
    <3>4. rows[i] = "unpublished"
      BY <3>3 DEF RelayInv, HeldInv, Held
    <3>5. log' = Append(log, i)
      BY <3>1, <3>2 DEF Add
    <3>6. log'[Len(log')] = i
      <4>1. log \in Seq(1 .. Len(rows)) /\ i \in 1 .. Len(rows)
        BY <3>3, LenProperties DEF RelayInv, TypeOK
      <4>2. Len(log') = Len(log) + 1 /\ log'[Len(log) + 1] = i
        BY <3>5, <4>1, AppendProperties
      <4> QED
        BY <4>2
    <3> QED
      BY <3>1, <3>3, <3>4, <3>5, <3>6
  <2> QED
    BY <2>1, <2>2
<1> QED
  BY <1>1, <1>2 DEF Otherwise

(* The stream with one entry more.                                          *)
LEMMA Appended ==
  ASSUME RelayInv, NotifierInv, NEW i \in DOMAIN rows, log' = Append(log, i), N!Arrives(i)
  PROVE  /\ Len(log) \in Nat /\ Len(log') = Len(log) + 1
         /\ DOMAIN log = 1 .. Len(log) /\ DOMAIN log' = DOMAIN log \cup {Len(log) + 1}
         /\ log'[Len(log) + 1] = i
         /\ \A k \in DOMAIN log : log'[k] = log[k]
         /\ Len(log') <= Limit
         /\ trimmed' \in Nat /\ trimmed <= trimmed' /\ trimmed' <= Len(log)
         /\ trimmed' = 0 \/ trimmed' + MaxLen <= Len(log')
         /\ UNCHANGED <<lastId, pel, dead, notices, told, pc, work>>
<1>1. /\ Len(log) < Limit
      /\ trimmed' \in {trimmed} \cup trimmed .. (Len(log) + 1 - MaxLen)
      /\ UNCHANGED <<lastId, pel, dead, notices, told, pc, work>>
  BY DEF N!Arrives, Limit
<1>2. log \in Seq(1 .. Len(rows)) /\ i \in 1 .. Len(rows)
  BY LenProperties DEF RelayInv, TypeOK
<1>3. /\ Len(log) \in Nat /\ Len(log') = Len(log) + 1
      /\ log'[Len(log) + 1] = i
      /\ \A k \in 1 .. Len(log) : log'[k] = log[k]
      /\ DOMAIN log = 1 .. Len(log)
  BY <1>2, AppendProperties, LenProperties
<1>4. DOMAIN log' = 1 .. Len(log) + 1
  BY <1>2, <1>3, AppendProperties, LenProperties
<1>5. Limit \in Nat
  BY OutboxRelayAssumption DEF Limit
<1>6. /\ trimmed' \in Nat /\ trimmed <= trimmed' /\ trimmed' <= Len(log)
      /\ trimmed' = 0 \/ trimmed' + MaxLen <= Len(log')
  <2>1. PICK n \in Nat, t \in Nat : n = Len(log) /\ t = trimmed
    BY <1>3, Zenon DEF NotifierInv
  <2>2. t = 0 \/ t + MaxLen <= n
    BY <2>1 DEF NotifierInv
  <2>3. \/ trimmed' = t
        \/ trimmed' \in t .. (n + 1 - MaxLen)
    BY <1>1, <2>1
  <2>4. Len(log') = n + 1
    BY <1>3, <2>1
  <2>5. PICK u \in Int, a \in Nat : u = trimmed' /\ a = MaxLen
    BY <2>3, EventDeliveryAssumption
  <2>6. a > 0 /\ t <= n
    BY <2>1, <2>5, EventDeliveryAssumption DEF NotifierInv
  <2>7. u = t \/ u \in t .. (n + 1 - a)
    BY <2>3, <2>5
  <2>8. u \in Nat /\ t <= u /\ u <= n /\ (u = 0 \/ u + a <= n + 1)
    <3>1. t = 0 \/ t + a <= n
      BY <2>2, <2>5
    <3> QED
      BY <2>6, <2>7, <3>1
  <2>9. trimmed' = 0 \/ trimmed' + MaxLen <= Len(log')
    BY <2>4, <2>5, <2>8, Zenon
  <2>10. trimmed' \in Nat /\ trimmed <= trimmed' /\ trimmed' <= Len(log)
    BY <2>1, <2>5, <2>8, Zenon
  <2> QED
    BY <2>9, <2>10
<1> QED
  BY <1>1, <1>3, <1>4, <1>5, <1>6

LEMMA NotifierStep ==
  ASSUME RelayInv, NotifierInv, [DeliveryNext]_allVars
  PROVE  NotifierInv'
<1>1. ASSUME NEW c \in Consumer, ConsumerStep(c) \/ ConsumerFault(c) PROVE NotifierInv'
  <2>1. ConsumerMove(c) /\ UNCHANGED <<rows, batch, log, trimmed>>
    BY <1>1, ConsumerMoves
  <2>2. dead' \subseteq DOMAIN log /\ \A e \in told' : Added(e)
    BY <1>1, ConsumerTells DEF NotifierInv, Added
  <2>3. \A d \in Consumer : WorkOf(d)'
    BY <2>1, Zenon DEF ConsumerMove, NotifierInv, WorkOf
  <2> QED
    BY <2>1, <2>2, <2>3 DEF ConsumerMove, NotifierInv, Added
<1>2. CASE UNCHANGED <<log, notifierVars>>
  BY <1>2 DEF notifierVars, NotifierInv, WorkOf, Added
<1>3. ASSUME NEW i \in DOMAIN rows, log' = Append(log, i), N!Arrives(i) PROVE NotifierInv'
  <2>1. /\ DOMAIN log \subseteq DOMAIN log'
        /\ \A k \in DOMAIN log : log'[k] = log[k]
        /\ Len(log') <= Limit
        /\ trimmed' \in Nat /\ (trimmed' = 0 \/ trimmed' + MaxLen <= Len(log'))
        /\ UNCHANGED <<lastId, pel, dead, notices, told, pc, work>>
    BY <1>3, Appended
  <2>2. \A e \in told : Added(e)'
    BY <2>1 DEF NotifierInv, Added
  <2> QED
    BY <2>1, <2>2 DEF NotifierInv, WorkOf
<1> QED
  BY <1>1, <1>2, <1>3, StreamMove DEF DeliveryNext, Otherwise

LEMMA InitNotifierInv == DeliveryInit => NotifierInv
<1> SUFFICES ASSUME DeliveryInit PROVE NotifierInv
  OBVIOUS
<1>1. /\ log = <<>> /\ trimmed = 0 /\ lastId = N!NoGroup /\ dead = {} /\ told = {}
      /\ pel = [i \in N!Entry |-> N!NotPending]
      /\ pc = [c \in Consumer |-> "start"] /\ work = [c \in Consumer |-> <<>>]
  BY DEF DeliveryInit, N!Init
<1>2. Len(log) = 0 /\ <<>> \in Seq(Given) /\ DOMAIN <<>> = {}
  BY <1>1
<1>3. Limit \in Nat /\ lastId \in Nat /\ N!NotPending \in Nat
  <2>1. Limit \in Nat
    BY OutboxRelayAssumption DEF Limit
  <2>2. lastId = Limit + 1
    BY <1>1 DEF N!NoGroup, Limit
  <2> QED
    BY <2>1, <2>2 DEF N!NotPending
<1> QED
  BY <1>1, <1>2, <1>3 DEF NotifierInv, WorkOf, PcType

-----------------------------------------------------------------------------
(* What has become of an event. *)

(* A set of places in the stream has a last one.                            *)
LEMMA LastOf ==
  ASSUME NEW n \in Nat, NEW S \in SUBSET (1 .. n), S # {}
  PROVE  \E k \in S : \A j \in S : j <= k
<1> DEFINE T == {n + 1 - k : k \in S}
<1>1. T \in SUBSET (1 .. n) /\ T # {}
  <2>1. \A k \in 1 .. n : n + 1 - k \in 1 .. n
    OBVIOUS
  <2>2. T \in SUBSET (1 .. n)
    BY <2>1
  <2> QED
    BY <2>2
<1>2. PICK i \in T : \A j \in T : i <= j
  <2> HIDE DEF T
  <2> QED
    BY <1>1, LeastId
<1>3. PICK k \in S : i = n + 1 - k
  BY <1>2
<1>4. ASSUME NEW j \in S PROVE j <= k
  <2>1. i <= n + 1 - j
    BY <1>2
  <2>2. j \in Nat /\ k \in Nat
    OBVIOUS
  <2> QED
    BY <1>3, <2>1, <2>2
<1> QED
  BY <1>4

Unseen(e) == e \notin DOMAIN rows \/ rows[e] = "open"

Buried(e) == CopiesOf(e) \cap dead # {}

Gone(e) == rows[e] = "published" /\ \A k \in CopiesOf(e) : k <= trimmed /\ ~InHand(k)

LEMMA FateIs ==
  ASSUME NEW e
  PROVE  Fate(e) = IF Unseen(e) THEN "none"
                   ELSE IF e \in told THEN "told"
                   ELSE IF Buried(e) THEN "buried"
                   ELSE IF Gone(e) THEN "lost" ELSE "owed"
BY DEF Fate, Unseen, Buried, Gone

LEMMA FateBecomes ==
  ASSUME NEW e
  PROVE  Fate(e)' = IF Unseen(e)' THEN "none"
                    ELSE IF e \in told' THEN "told"
                    ELSE IF Buried(e)' THEN "buried"
                    ELSE IF Gone(e)' THEN "lost" ELSE "owed"
BY DEF Fate, Unseen, Buried, Gone

(* An event that nobody tells or buries stays what it is, or is lost.       *)
LEMMA FateMoves ==
  ASSUME NEW e, Unseen(e)' = Unseen(e), e \in told' <=> e \in told,
         Buried(e)' = Buried(e), ~Unseen(e) /\ Gone(e) => Gone(e)'
  PROVE  Fate(e)' = Fate(e) \/ (Fate(e) = "owed" /\ Fate(e)' = "lost")
BY FateIs, FateBecomes

InHandIs(k) == \E c \in Consumer : Hand(c, k)

LEMMA InHandOf ==
  ASSUME NEW k PROVE (InHand(k) <=> InHandIs(k)) /\ (InHand(k)' <=> InHandIs(k)')
BY DEF InHand, InHandIs, Hand

(* The last copy of an event that is lost has fallen behind.                *)
LEMMA Behind ==
  ASSUME RelayInv', NotifierInv', NEW e, Fate(e)' = "lost"
  PROVE  LastCopy(e)' # 0 /\ LastCopy(e)' + MaxLen <= Len(log')
<1>1. ~Unseen(e)' /\ Gone(e)'
  BY FateBecomes
<1>2. e \in DOMAIN rows' /\ rows'[e] = "published"
  BY <1>1 DEF Unseen, Gone
<1>3. Added(e)'
  BY <1>2 DEF RelayInv, MarkedIsPublished
<1>4. Len(log') \in Nat /\ DOMAIN log' = 1 .. Len(log')
  BY LenProperties DEF RelayInv, TypeOK
<1>5. CopiesOf(e)' # {} /\ CopiesOf(e)' \in SUBSET (1 .. Len(log'))
  BY <1>3, <1>4 DEF Added, CopiesOf
<1>6. \E k \in CopiesOf(e)' : \A j \in CopiesOf(e)' : j <= k
  BY <1>4, <1>5, LastOf
<1>7. PICK l : l = LastCopy(e)'
  OBVIOUS
<1>8. l \in CopiesOf(e)'
  BY <1>5, <1>6, <1>7 DEF LastCopy
<1>9. l <= trimmed' /\ l \in 1 .. Len(log')
  BY <1>1, <1>5, <1>8 DEF Gone
<1>10. trimmed' \in Nat /\ (trimmed' = 0 \/ trimmed' + MaxLen <= Len(log'))
  BY DEF NotifierInv
<1>11. l # 0 /\ l + MaxLen <= Len(log')
  BY <1>4, <1>9, <1>10, EventDeliveryAssumption
<1> QED
  BY <1>7, <1>11

-----------------------------------------------------------------------------
(* Each step is a step of EventNotices, or changes nothing that it shows.   *)

LEMMA FallsBehind ==
  ASSUME Len(log') = Len(log),
         \A e \in Event : LastCopy(e)' = LastCopy(e),
         \A e \in Event : Fate(e)' = Fate(e) \/ (Fate(e) = "owed" /\ Fate(e)' = "lost"),
         \A e \in Event : Fate(e)' = "lost" =>
                            LastCopy(e)' # 0 /\ LastCopy(e)' + MaxLen <= Len(log')
  PROVE  Notices!FallBehind
<1>1. PICK X \in SUBSET Event : X = {e \in Event : Fate(e)' # Fate(e)}
  OBVIOUS
<1>2. [e \in Event |-> Fate(e)]' = [e \in Event |-> IF e \in X THEN "lost" ELSE Fate(e)]
  BY <1>1
<1>3. [e \in Event |-> LastCopy(e)]' = [e \in Event |-> LastCopy(e)]
  OBVIOUS
<1>4. X \subseteq {e \in Event : Fate(e) = "owed" /\ LastCopy(e)' # 0 /\ LastCopy(e)' + MaxLen <= Len(log')}
  BY <1>1
<1>5. Notices!Lose(X)
  BY <1>2, <1>4 DEF Notices!Lose, Notices!Becomes, Notices!In
<1> QED
  BY <1>3, <1>5 DEF Notices!FallBehind

LEMMA ConsumerRefines ==
  ASSUME RelayInv, NotifierInv, RelayInv', NotifierInv',
         NEW c \in Consumer, ConsumerStep(c) \/ ConsumerFault(c)
  PROVE  [Notices!Next]_(Notices!vars)
<1>1. ConsumerMove(c) /\ UNCHANGED <<rows, log, trimmed>>
  BY ConsumerMoves
<1>2. /\ Len(log') = Len(log)
      /\ \A e : /\ CopiesOf(e)' = CopiesOf(e)
                /\ LastCopy(e)' = LastCopy(e)
                /\ Unseen(e)' = Unseen(e)
  BY <1>1 DEF CopiesOf, LastCopy, Unseen
<1>3. \A e \in Event : Fate(e)' = "lost" =>
                         LastCopy(e)' # 0 /\ LastCopy(e)' + MaxLen <= Len(log')
  BY Behind
<1>4. /\ Len(log) \in Nat /\ DOMAIN log = 1 .. Len(log) /\ trimmed \in Nat
      /\ \A k \in DOMAIN log : log[k] \in Event
  BY StreamType DEF NotifierInv
<1>5. \A k \in DOMAIN log : k <= trimmed /\ InHand(k)' => InHand(k)
  <2> SUFFICES ASSUME NEW k \in DOMAIN log, k <= trimmed, NEW d \in Consumer, Hand(d, k)'
               PROVE  Hand(d, k)
    BY InHandOf DEF InHandIs
  <2>1. k \in 1 .. trimmed
    BY <1>4
  <2> QED
    BY <1>1, <2>1, Zenon DEF ConsumerMove, Hand
<1>6. \A e : Gone(e) => Gone(e)'
  BY <1>1, <1>2, <1>5 DEF Gone, CopiesOf
<1>7. CASE told' = told /\ dead' = dead
  <2>1. \A e : Buried(e)' = Buried(e)
    BY <1>2, <1>7 DEF Buried
  <2>2. \A e \in Event : Fate(e)' = Fate(e) \/ (Fate(e) = "owed" /\ Fate(e)' = "lost")
    BY <1>2, <1>6, <1>7, <2>1, FateMoves
  <2> QED
    BY <1>2, <1>3, <2>2, FallsBehind DEF Notices!Next
<1>8. ASSUME NEW k \in DOMAIN log, Hand(c, k),
             \/ told' = told \cup {log[k]} /\ dead' = dead
             \/ told' = told /\ dead' = dead \cup {k},
             \A j : j # k /\ Hand(c, j) => Hand(c, j)'
      PROVE  [Notices!Next]_(Notices!vars)
  <2>1. PICK o \in Event : o = log[k]
    BY <1>4
  <2>2. k \in CopiesOf(o) /\ \A e : e # o => k \notin CopiesOf(e)
    BY <2>1 DEF CopiesOf
  <2>3. InHand(k)
    BY <1>8, InHandOf DEF InHandIs
  <2>4. ~Gone(o)
    BY <2>2, <2>3 DEF Gone
  <2>5. ~Unseen(o)
    <3>1. o \in DOMAIN rows /\ Added(o)
      BY <2>1, StreamType DEF Added
    <3> QED
      BY <3>1 DEF RelayInv, MarkedIsPublished, Unseen
  <2>6. \A j : j # k /\ InHand(j) => InHand(j)'
    <3> SUFFICES ASSUME NEW j, j # k, NEW d \in Consumer, Hand(d, j) PROVE Hand(d, j)'
      BY InHandOf DEF InHandIs
    <3>1. CASE d = c
      BY <1>8, <3>1
    <3>2. CASE d # c
      BY <1>1, <3>2 DEF ConsumerMove, Hand
    <3> QED
      BY <3>1, <3>2
  <2>7. ASSUME NEW e \in Event, e # o PROVE Fate(e)' = Fate(e)
    <3>1. k \notin CopiesOf(e) /\ CopiesOf(e) \subseteq DOMAIN log
      BY <2>2, <2>7 DEF CopiesOf
    <3>2. Gone(e)' = Gone(e)
      BY <1>1, <1>2, <1>6, <2>6, <3>1 DEF Gone
    <3>3. Buried(e)' = Buried(e)
      BY <1>2, <1>8, <3>1 DEF Buried
    <3>4. e \in told' <=> e \in told
      BY <1>8, <2>1, <2>7
    <3> QED
      BY <1>2, <3>2, <3>3, <3>4, FateIs, FateBecomes
  <2>8. [e \in Event |-> LastCopy(e)]' = [e \in Event |-> LastCopy(e)] /\ Len(log)' = Len(log)
    BY <1>2
  <2>9. CASE told' = told \cup {log[k]} /\ dead' = dead
    <3>1. Fate(o)' = "told" /\ Fate(o) \in {"told", "owed", "buried"}
      BY <1>2, <2>1, <2>4, <2>5, <2>9, FateIs, FateBecomes
    <3>2. [e \in Event |-> Fate(e)]' = [e \in Event |-> IF e \in {o} THEN "told" ELSE Fate(e)]
      BY <2>7, <3>1
    <3>3. CASE Fate(o) = "told"
      <4>1. [e \in Event |-> Fate(e)]' = [e \in Event |-> Fate(e)]
        BY <3>2, <3>3
      <4> QED
        BY <2>8, <4>1 DEF Notices!vars
    <3>4. CASE Fate(o) # "told"
      <4>1. Notices!Tell(o)
        BY <2>8, <3>1, <3>2, <3>4 DEF Notices!Tell, Notices!In, Notices!Becomes
      <4> QED
        BY <4>1 DEF Notices!Next
    <3> QED
      BY <3>3, <3>4
  <2>10. CASE told' = told /\ dead' = dead \cup {k}
    <3>1. Buried(o)'
      BY <1>2, <2>2, <2>10 DEF Buried
    <3>2. \/ Fate(o)' = "buried" /\ Fate(o) \in {"owed", "buried"}
          \/ Fate(o)' = "told" /\ Fate(o) = "told"
      BY <1>2, <2>4, <2>5, <2>10, <3>1, FateIs, FateBecomes
    <3>3. CASE Fate(o)' = Fate(o)
      <4>1. [e \in Event |-> Fate(e)]' = [e \in Event |-> Fate(e)]
        BY <2>7, <3>3
      <4> QED
        BY <2>8, <4>1 DEF Notices!vars
    <3>4. CASE Fate(o)' # Fate(o)
      <4>1. [e \in Event |-> Fate(e)]' = [e \in Event |-> IF e \in {o} THEN "buried" ELSE Fate(e)]
        BY <2>7, <3>2, <3>4
      <4>2. Notices!Bury(o)
        BY <2>8, <3>2, <3>4, <4>1 DEF Notices!Bury, Notices!In, Notices!Becomes
      <4> QED
        BY <4>2 DEF Notices!Next
    <3> QED
      BY <3>3, <3>4
  <2> QED
    BY <1>8, <2>9, <2>10
<1> QED
  BY <1>7, <1>8, ConsumerTells

LEMMA CommitRefines ==
  ASSUME RelayInv, NotifierInv, NEW i \in DOMAIN rows, Commit(i), UNCHANGED notifierVars
  PROVE  Notices!Commit(i)
<1>1. /\ rows[i] = "open" /\ rows' = [rows EXCEPT ![i] = "unpublished"]
      /\ UNCHANGED <<log, trimmed, dead, told, pc, work>>
  BY DEF Commit, notifierVars
<1>2. DOMAIN rows' = DOMAIN rows /\ \A e \in DOMAIN rows : rows'[e] = IF e = i THEN "unpublished" ELSE rows[e]
  BY <1>1
<1>3. /\ Len(log') = Len(log)
      /\ \A e : /\ CopiesOf(e)' = CopiesOf(e)
                /\ LastCopy(e)' = LastCopy(e)
                /\ InHand(e)' = InHand(e)
                /\ Buried(e)' = Buried(e)
  BY <1>1 DEF CopiesOf, LastCopy, InHand, Buried
<1>4. i \in Event
  <2>1. DOMAIN rows = 1 .. Len(rows) /\ Len(rows) \in Nat /\ Len(rows) <= MaxRows
    BY LenProperties DEF RelayInv, TypeOK
  <2> QED
    BY <2>1, OutboxRelayAssumption DEF Event
<1>5. ~Added(i)
  BY <1>1 DEF RelayInv, MarkedIsPublished
<1>6. i \notin told /\ ~Buried(i)
  BY <1>5 DEF NotifierInv, Buried, CopiesOf, Added
<1>7. Fate(i) = "none" /\ Fate(i)' = "owed"
  <2>1. Unseen(i) /\ ~Unseen(i)' /\ ~Gone(i)'
    BY <1>1, <1>2 DEF Unseen, Gone
  <2> QED
    BY <1>1, <1>3, <1>6, <2>1, FateIs, FateBecomes
<1>8. ASSUME NEW e \in Event, e # i PROVE Fate(e)' = Fate(e)
  <2>1. Unseen(e)' = Unseen(e)
    BY <1>2, <1>8 DEF Unseen
  <2>2. ~Unseen(e) => Gone(e)' = Gone(e)
    BY <1>1, <1>2, <1>3, <1>8 DEF Unseen, Gone
  <2> QED
    BY <1>1, <1>3, <2>1, <2>2, FateIs, FateBecomes
<1>9. [e \in Event |-> Fate(e)]' = [e \in Event |-> IF e \in {i} THEN "owed" ELSE Fate(e)]
  BY <1>7, <1>8
<1>10. [e \in Event |-> LastCopy(e)]' = [e \in Event |-> LastCopy(e)] /\ Len(log)' = Len(log)
  BY <1>3
<1> QED
  BY <1>4, <1>7, <1>9, <1>10 DEF Notices!Commit, Notices!In, Notices!Becomes

(* Rows are made and marked: an event may be lost once its row is marked.   *)
LEMMA RowsRefine ==
  ASSUME RelayInv, NotifierInv, RelayInv', NotifierInv', UNCHANGED <<log, notifierVars>>,
         \/ Enqueue
         \/ \E r \in Relay : CommitBatch(r)
         \/ UNCHANGED rows
  PROVE  Notices!FallBehind
<1>1. UNCHANGED <<log, trimmed, dead, told, pc, work>>
  BY DEF notifierVars
<1>2. \A e : Unseen(e)' = Unseen(e) /\ (~Unseen(e) /\ rows[e] = "published" => rows'[e] = "published")
  <2>1. CASE Enqueue
    <3>1. rows \in Seq(RowState) /\ rows' = Append(rows, "open") /\ "open" \in RowState
      BY <2>1 DEF RelayInv, TypeOK, Enqueue, RowState
    <3>2. /\ rows' \in Seq(RowState)
          /\ Len(rows') = Len(rows) + 1
          /\ \A i \in 1 .. Len(rows) : rows'[i] = rows[i]
          /\ rows'[Len(rows) + 1] = "open"
      BY <3>1, AppendProperties
    <3>3. /\ Len(rows) \in Nat /\ DOMAIN rows = 1 .. Len(rows)
          /\ DOMAIN rows' = 1 .. Len(rows) + 1
      BY <3>1, <3>2, LenProperties
    <3>4. /\ \A e \in DOMAIN rows' : e \in DOMAIN rows \/ e = Len(rows) + 1
          /\ \A e \in DOMAIN rows : e \in DOMAIN rows' /\ rows'[e] = rows[e]
      BY <3>2, <3>3
    <3> QED
      BY <3>2, <3>4 DEF Unseen
  <2>2. ASSUME NEW r \in Relay, CommitBatch(r)
        PROVE  \A e : Unseen(e)' = Unseen(e) /\ (~Unseen(e) /\ rows[e] = "published" => rows'[e] = "published")
    <3>1. rows' = [i \in DOMAIN rows |-> IF i \in batch[r].done THEN "published" ELSE rows[i]]
      BY <2>2 DEF CommitBatch
    <3>2. \A i \in batch[r].done : rows[i] = "unpublished"
      BY DEF RelayInv, HeldInv, Held
    <3> QED
      BY <3>1, <3>2 DEF Unseen
  <2>3. CASE UNCHANGED rows
    BY <2>3 DEF Unseen
  <2> QED
    BY <2>1, <2>2, <2>3
<1>3. /\ Len(log') = Len(log)
      /\ \A e : /\ CopiesOf(e)' = CopiesOf(e)
                /\ LastCopy(e)' = LastCopy(e)
                /\ InHand(e)' = InHand(e)
                /\ Buried(e)' = Buried(e)
  BY <1>1 DEF CopiesOf, LastCopy, InHand, Buried
<1>4. \A e : ~Unseen(e) /\ Gone(e) => Gone(e)'
  BY <1>1, <1>2, <1>3 DEF Gone
<1>5. \A e \in Event : Fate(e)' = Fate(e) \/ (Fate(e) = "owed" /\ Fate(e)' = "lost")
  BY <1>1, <1>2, <1>3, <1>4, FateMoves
<1> QED
  BY <1>3, <1>5, Behind, FallsBehind

LEMMA PublishRefines ==
  ASSUME RelayInv, NotifierInv, RelayInv', NotifierInv',
         NEW i \in DOMAIN rows, rows[i] = "unpublished", rows' = rows,
         log' = Append(log, i), N!Arrives(i)
  PROVE  i \in Event /\ Notices!Publish(i)
<1>1. PICK n \in Nat : n = Len(log)
  BY Appended
<1>2. /\ Len(log') = n + 1
      /\ DOMAIN log = 1 .. n /\ DOMAIN log' = DOMAIN log \cup {n + 1}
      /\ log'[n + 1] = i
      /\ \A k \in DOMAIN log : log'[k] = log[k]
      /\ trimmed' \in Nat /\ trimmed \in Nat /\ trimmed <= trimmed'
      /\ UNCHANGED <<dead, told, pc, work>>
  BY <1>1, Appended DEF NotifierInv
<1>3. n + 1 \notin DOMAIN log /\ \A k \in DOMAIN log : k <= n + 1 /\ k \in Nat
  BY <1>2
<1>4. CopiesOf(i)' = CopiesOf(i) \cup {n + 1} /\ \A e : e # i => CopiesOf(e)' = CopiesOf(e)
  BY <1>2, <1>3 DEF CopiesOf
<1>5. \A e : CopiesOf(e) \subseteq DOMAIN log /\ n + 1 \notin dead
  BY <1>3 DEF CopiesOf, NotifierInv
<1>6. LastCopy(i)' = n + 1
  <2>1. \A k \in CopiesOf(i)' : k <= n + 1 /\ k \in Nat
    BY <1>3, <1>4, <1>5
  <2>2. \A k \in CopiesOf(i)' : n + 1 <= k => k = n + 1
    BY <2>1
  <2> QED
    BY <1>4, <2>1, <2>2 DEF LastCopy
<1>7. \A e : e # i => LastCopy(e)' = LastCopy(e)
  <2> DEFINE LastIn(S) == IF S = {} THEN 0 ELSE CHOOSE k \in S : \A j \in S : j <= k
  <2>1. \A e : LastCopy(e) = LastIn(CopiesOf(e)) /\ LastCopy(e)' = LastIn(CopiesOf(e)')
    BY DEF LastCopy
  <2> HIDE DEF LastIn
  <2> QED
    BY <1>4, <2>1
<1>8. \A e : /\ Unseen(e)' = Unseen(e)
             /\ Buried(e)' = Buried(e)
             /\ InHand(e)' = InHand(e)
             /\ Gone(e) => Gone(e)'
  <2>1. \A e : /\ Unseen(e)' = Unseen(e)
               /\ InHand(e)' = InHand(e)
    BY <1>2 DEF Unseen, InHand
  <2>2. \A e : Buried(e)' = Buried(e)
    BY <1>2, <1>4, <1>5 DEF Buried
  <2>3. ~Gone(i)
    BY DEF Gone
  <2>4. ASSUME NEW e, e # i, Gone(e) PROVE Gone(e)'
    <3>1. \A k \in CopiesOf(e) : k <= trimmed'
      BY <1>2, <1>3, <1>5, <2>4 DEF Gone
    <3> QED
      BY <1>4, <2>1, <2>4, <3>1 DEF Gone
  <2> QED
    BY <2>1, <2>2, <2>3, <2>4
<1>9. \A e \in Event : Fate(e)' = Fate(e) \/ (Fate(e) = "owed" /\ Fate(e)' = "lost")
  BY <1>2, <1>8, FateMoves
<1>10. i \in Event /\ Fate(i) \notin {"none", "lost"}
  <2>1. DOMAIN rows = 1 .. Len(rows) /\ Len(rows) \in Nat /\ Len(rows) <= MaxRows
    BY LenProperties DEF RelayInv, TypeOK
  <2>2. i \in Event
    BY <2>1, OutboxRelayAssumption DEF Event
  <2>3. ~Unseen(i) /\ ~Gone(i)
    BY DEF Unseen, Gone
  <2> QED
    BY <2>2, <2>3, FateIs
<1>11. PICK X \in SUBSET Event : X = {e \in Event : Fate(e)' # Fate(e)}
  OBVIOUS
<1>12. [e \in Event |-> Fate(e)]' = [e \in Event |-> IF e \in X THEN "lost" ELSE Fate(e)]
  BY <1>9, <1>11
<1>13. X \subseteq {e \in Event : /\ Fate(e) = "owed"
                                  /\ LastCopy(e)' # 0 /\ LastCopy(e)' + MaxLen <= Len(log')}
  BY <1>9, <1>11, Behind
<1>14. Notices!Lose(X)
  BY <1>12, <1>13 DEF Notices!Lose, Notices!Becomes, Notices!In
<1>15. [e \in Event |-> LastCopy(e)]' = [[e \in Event |-> LastCopy(e)] EXCEPT ![i] = n + 1]
  BY <1>6, <1>7, <1>10, Zenon
<1> QED
  BY <1>1, <1>2, <1>10, <1>14, <1>15 DEF Notices!Publish, Notices!In

LEMMA DeliveryRefinesStep ==
  ASSUME RelayInv, NotifierInv, RelayInv', NotifierInv', [DeliveryNext]_allVars
  PROVE  [Notices!Next]_(Notices!vars)
<1>1. ASSUME NEW c \in Consumer, ConsumerStep(c) \/ ConsumerFault(c)
      PROVE  [Notices!Next]_(Notices!vars)
  BY <1>1, ConsumerRefines
<1>2. ASSUME NEW i \in DOMAIN rows, rows[i] = "unpublished", rows' = rows,
             log' = Append(log, i), N!Arrives(i)
      PROVE  [Notices!Next]_(Notices!vars)
  BY <1>2, PublishRefines DEF Notices!Next
<1>3. ASSUME Otherwise, UNCHANGED <<log, notifierVars>> PROVE [Notices!Next]_(Notices!vars)
  <2>1. CASE \E i \in DOMAIN rows : Commit(i)
    <3>1. PICK i \in DOMAIN rows : Commit(i)
      BY <2>1
    <3>2. Notices!Commit(i)
      BY <1>3, <3>1, CommitRefines
    <3>3. i \in Event
      BY <3>2 DEF Notices!Commit, Notices!In
    <3> QED
      BY <3>2, <3>3 DEF Notices!Next
  <2>2. CASE ~\E i \in DOMAIN rows : Commit(i)
    <3>1. \/ Enqueue
          \/ \E r \in Relay : CommitBatch(r)
          \/ UNCHANGED rows
      BY <1>3, <2>2 DEF Otherwise, Producing, RelayStep, RelayFault, Relaying, TakeBatch, Publish,
                        Fail, allVars, vars
    <3> QED
      BY <1>3, <3>1, RowsRefine DEF Notices!Next
  <2> QED
    BY <2>1, <2>2
<1> QED
  BY <1>1, <1>2, <1>3, StreamMove DEF DeliveryNext, Otherwise

LEMMA DeliveryRefinesInit == DeliveryInit => Notices!Init
<1> SUFFICES ASSUME DeliveryInit PROVE Notices!Init
  OBVIOUS
<1>1. rows = <<>> /\ log = <<>>
  BY DEF DeliveryInit, Init
<1>2. Len(log) = 0 /\ DOMAIN log = {} /\ DOMAIN rows = {}
  BY <1>1
<1>3. \A e : Fate(e) = "none" /\ LastCopy(e) = 0
  BY <1>2 DEF Fate, LastCopy, CopiesOf
<1> QED
  BY <1>2, <1>3 DEF Notices!Init

-----------------------------------------------------------------------------
(* Theorems. *)

(* The inductive invariant of the relays, alone and with the notifier.      *)
THEOREM RelayInvariance == (Spec => []RelayInv) /\ (DeliverySpec => []RelayInv)
<1>1. Init => RelayInv
  BY InitRelayInv
<1>2. RelayInv /\ [Next]_vars => RelayInv'
  BY RelayInvStep
<1>3. RelayInv /\ [DeliveryNext]_allVars => RelayInv'
  BY RelayInvStep, DeliveryStep
<1>4. DeliveryInit => Init
  BY DEF DeliveryInit
<1> QED
  BY <1>1, <1>2, <1>3, <1>4, PTL DEF Spec, DeliverySpec

(* outbox.py: a crash of a relay means a repeat, never a loss: what is      *)
(* marked as published is in the stream, and no event is in the stream      *)
(* before its change is committed.                                          *)
THEOREM NothingLost == DeliverySpec => []MarkedIsPublished
<1>1. RelayInv => MarkedIsPublished
  BY DEF RelayInv
<1> QED
  BY <1>1, RelayInvariance, PTL

(* Every repeat in the stream has a fault of its own: relays at work side   *)
(* by side never publish a row twice.                                       *)
THEOREM RepeatsAreFaults == DeliverySpec => []RepeatsNeedFaults
<1>1. RelayInv => RepeatsNeedFaults
  <2> SUFFICES ASSUME RelayInv, NEW i \in DOMAIN rows PROVE Copies(i) <= 1 + faults
    BY DEF RepeatsNeedFaults
  <2>1. Copies(i) \in Nat
    <3>1. IsFiniteSet(DOMAIN log)
      BY FS_Interval, LenProperties DEF RelayInv, TypeOK
    <3> QED
      BY <3>1, FS_Subset, FS_CardinalityType DEF Copies
  <2>2. faults \in Nat
    BY OutboxRelayAssumption DEF RelayInv, TypeOK
  <2>3. Copies(i) <= IF rows[i] = "published" \/ InFlight(i) THEN faults + 1 ELSE faults
    BY DEF RelayInv, RepeatsInv
  <2> QED
    BY <2>1, <2>2, <2>3
<1> QED
  BY <1>1, RelayInvariance, PTL

(* The relays and the consumers on one stream: only what is, or was, in the *)
(* stream is pending, buried or told, and what the stream has dropped has   *)
(* MaxLen entries after it.                                                 *)
THEOREM DeliveryInvariance == DeliverySpec => [](RelayInv /\ NotifierInv)
<1>1. DeliveryInit => NotifierInv
  BY InitNotifierInv
<1>2. RelayInv /\ NotifierInv /\ [DeliveryNext]_allVars => NotifierInv'
  BY NotifierStep
<1> QED
  BY <1>1, <1>2, RelayInvariance, PTL DEF DeliverySpec

(* The outbox, the stream and the notifier together keep the promise of     *)
(* EventNotices: a client hears of committed changes only, what he was told *)
(* stays told, and an event is lost only with MaxLen entries published      *)
(* after its last copy, whichever relays and consumers die.                 *)
THEOREM DeliveryRefines == DeliverySpec => NoticesRefined
<1>1. DeliveryInit => Notices!Init
  BY DeliveryRefinesInit
<1>2. /\ RelayInv /\ NotifierInv /\ RelayInv' /\ NotifierInv' /\ [DeliveryNext]_allVars
      => [Notices!Next]_(Notices!vars)
  BY DeliveryRefinesStep
<1> QED
  BY <1>1, <1>2, DeliveryInvariance, PTL DEF DeliverySpec, NoticesRefined, Notices!Spec

-----------------------------------------------------------------------------
(* How much is repeated in all: a fault costs no more than a batch.         *)

(* Rows that have their one entry: marked, or about to be.                  *)
Spent == {i \in DOMAIN rows : rows[i] = "published" \/ InFlight(i)}

TotalInv ==
  /\ \A r \in Relay : Cardinality(Held(r)) <= BatchSize
  /\ Len(log) <= Cardinality(Spent) + faults * BatchSize

(* The first m elements of a set are at most m.                             *)
LEMMA FirstOnes ==
  ASSUME NEW X \in SUBSET Nat, IsFiniteSet(X), NEW m \in Nat
  PROVE  Cardinality({i \in X : Cardinality({j \in X : j < i}) < m}) <= m
<1> DEFINE Below(i) == {j \in X : j < i}
           F == {i \in X : Cardinality(Below(i)) < m}
           rank == [i \in F |-> Cardinality(Below(i))]
<1>1. /\ IsFiniteSet(0 .. m - 1) /\ Cardinality(0 .. m - 1) = m
      /\ IsFiniteSet(F)
  <2>1. 0 \in Int /\ m - 1 \in Int
    OBVIOUS
  <2>2. /\ IsFiniteSet(0 .. m - 1)
        /\ Cardinality(0 .. m - 1) = IF 0 > m - 1 THEN 0 ELSE (m - 1) - 0 + 1
    BY <2>1, FS_Interval
  <2>3. Cardinality(0 .. m - 1) = m
    BY <2>2
  <2>4. F \subseteq X
    OBVIOUS
  <2> HIDE DEF F
  <2>5. IsFiniteSet(F)
    BY <2>4, FS_Subset
  <2> QED
    BY <2>2, <2>3, <2>5, Zenon
<1>2. \A i \in X : i \notin Below(i) /\ Below(i) \subseteq X
  OBVIOUS
<1>3. \A i, l \in X : i < l => Below(i) \subseteq Below(l) /\ i \in Below(l)
  <2> TAKE i, l \in X
  <2> HAVE i < l
  <2>1. \A h \in X : h \in Nat
    OBVIOUS
  <2>2. \A h \in X : h < i => h < l
    BY <2>1
  <2> QED
    BY <2>2
<1>4. \A i, l \in X : i # l => i < l \/ l < i
  OBVIOUS
<1> HIDE DEF Below
<1>5. \A i \in X : IsFiniteSet(Below(i)) /\ Cardinality(Below(i)) \in Nat
  BY <1>2, FS_Subset, FS_CardinalityType
<1>6. ASSUME NEW i \in X, NEW l \in X, i < l PROVE Cardinality(Below(i)) # Cardinality(Below(l))
  <2>1. Below(i) # Below(l)
    BY <1>2, <1>3, <1>6
  <2> QED
    BY <1>3, <1>5, <1>6, <2>1, FS_Subset
<1>7. rank \in [F -> 0 .. m - 1]
  <2>1. ASSUME NEW i \in F PROVE Cardinality(Below(i)) \in 0 .. m - 1
    <3>1. i \in X /\ Cardinality(Below(i)) < m
      OBVIOUS
    <3>2. Cardinality(Below(i)) \in Nat
      BY <1>5, <3>1
    <3> QED
      BY <3>1, <3>2
  <2> HIDE DEF F
  <2> QED
    BY <2>1
<1>8. rank \in Injection(F, 0 .. m - 1)
  BY <1>4, <1>6, <1>7 DEF Injection, IsInjective
<1>9. Cardinality(F) <= Cardinality(0 .. m - 1)
  <2> HIDE DEF F, rank
  <2> QED
    BY <1>1, <1>8, FS_Injection
<1> QED
  BY <1>1, <1>9 DEF Below

(* What a relay holds, and what is spent, are rows.                         *)
LEMMA RowSets ==
  ASSUME RelayInv
  PROVE  /\ IsFiniteSet(DOMAIN rows) /\ Cardinality(DOMAIN rows) = Len(rows)
         /\ Len(rows) \in Nat /\ Len(rows) <= MaxRows /\ Len(log) \in Nat
         /\ IsFiniteSet(Spent) /\ Cardinality(Spent) \in Nat /\ Spent \subseteq DOMAIN rows
         /\ \A r \in Relay :
              /\ Held(r) \subseteq DOMAIN rows
              /\ IsFiniteSet(Held(r)) /\ Cardinality(Held(r)) \in Nat
<1>1. /\ Len(rows) \in Nat /\ DOMAIN rows = 1 .. Len(rows) /\ Len(rows) <= MaxRows
      /\ Len(log) \in Nat
      /\ batch \in [Relay -> [todo : SUBSET (1 .. Len(rows)), done : SUBSET (1 .. Len(rows))]]
  BY LenProperties DEF RelayInv, TypeOK
<1>2. IsFiniteSet(DOMAIN rows) /\ Cardinality(DOMAIN rows) = Len(rows)
  <2>1. PICK n \in Nat : n = Len(rows)
    BY <1>1, Zenon
  <2>2. IsFiniteSet(1 .. n) /\ Cardinality(1 .. n) = IF 1 > n THEN 0 ELSE n - 1 + 1
    BY FS_Interval
  <2> QED
    BY <1>1, <2>1, <2>2
<1>3. Spent \subseteq DOMAIN rows
  BY DEF Spent
<1>4. \A r \in Relay : Held(r) \subseteq DOMAIN rows
  BY <1>1 DEF Held
<1> QED
  BY <1>1, <1>2, <1>3, <1>4, FS_Subset, FS_CardinalityType, Zenon

(* One row more is spent for one entry more.                                *)
LEMMA TotalPublish ==
  ASSUME RelayInv, TotalInv, NEW r \in Relay, Publish(r)
  PROVE  TotalInv'
<1>1. PICK c : c = Current(r)
  OBVIOUS
<1>2. /\ c \in batch[r].todo /\ c \in DOMAIN rows
      /\ Add(c) /\ UNCHANGED <<rows, faults>>
      /\ batch' = [batch EXCEPT ![r] = [todo |-> batch[r].todo \ {c},
                                        done |-> batch[r].done \cup {c}]]
  BY <1>1, CurrentRow DEF Publish
<1>3. batch \in [Relay -> [todo : SUBSET (1 .. Len(rows)), done : SUBSET (1 .. Len(rows))]]
  BY DEF RelayInv, TypeOK
<1>4. /\ batch'[r].todo = batch[r].todo \ {c}
      /\ batch'[r].done = batch[r].done \cup {c}
      /\ \A q \in Relay \ {r} : batch'[q] = batch[q]
  BY <1>2, <1>3
<1>5. rows[c] = "unpublished" /\ \A q \in Relay : c \notin batch[q].done
  <2>1. rows[c] = "unpublished" /\ c \in Held(r) /\ c \notin batch[r].done
    BY <1>2 DEF RelayInv, HeldInv, Held
  <2>2. \A q \in Relay \ {r} : c \notin Held(q)
    BY <2>1 DEF RelayInv, NoSharedRow
  <2> QED
    BY <2>1, <2>2 DEF Held
<1>6. \A q \in Relay : Held(q)' = Held(q)
  <2>1. Held(r)' = Held(r)
    BY <1>2, <1>4 DEF Held
  <2> QED
    BY <1>4, <2>1 DEF Held
<1>7. c \notin Spent /\ Spent' = Spent \cup {c}
  <2>1. \A i : InFlight(i)' <=> InFlight(i) \/ i = c
    BY <1>4 DEF InFlight
  <2> QED
    BY <1>2, <1>5, <2>1 DEF Spent, InFlight
<1>8. Len(log') = Len(log) + 1
  <2>1. log \in Seq(1 .. Len(rows)) /\ c \in 1 .. Len(rows) /\ log' = Append(log, c)
    BY <1>2, LenProperties DEF RelayInv, TypeOK, Add
  <2> QED
    BY <2>1, AppendProperties
<1>9. Cardinality(Spent') = Cardinality(Spent) + 1
  BY <1>7, RowSets, FS_AddElement
<1>10. Len(log') <= Cardinality(Spent') + faults' * BatchSize
  <2>1. PICK n \in Nat, k \in Nat : n = Len(log) /\ k = Cardinality(Spent)
    BY RowSets
  <2>2. PICK f \in Nat : f = faults * BatchSize
    BY OutboxRelayAssumption DEF RelayInv, TypeOK
  <2>3. n <= k + f
    BY <2>1, <2>2, Zenon DEF TotalInv
  <2>4. n + 1 <= k + 1 + f
    BY <2>3
  <2> QED
    BY <1>2, <1>8, <1>9, <2>1, <2>2, <2>4, Zenon
<1> QED
  BY <1>6, <1>10 DEF TotalInv

(* A fault leaves the rows of a batch unmarked, and may add an entry for    *)
(* one that was still to be published.                                      *)
LEMMA TotalFail ==
  ASSUME RelayInv, TotalInv, NEW r \in Relay, Fail(r)
  PROVE  TotalInv'
<1> DEFINE D == batch[r].done
<1>1. /\ batch' = [batch EXCEPT ![r] = NoBatch]
      /\ UNCHANGED rows
      /\ faults' = faults + 1
      /\ \/ UNCHANGED log
         \/ batch[r].todo # {} /\ Add(Current(r))
  BY DEF Fail
<1>2. /\ batch \in [Relay -> [todo : SUBSET (1 .. Len(rows)), done : SUBSET (1 .. Len(rows))]]
      /\ faults \in Nat /\ BatchSize \in Nat
  BY OutboxRelayAssumption DEF RelayInv, TypeOK
<1>3. /\ batch'[r] = NoBatch
      /\ \A q \in Relay \ {r} : batch'[q] = batch[q]
  BY <1>1, <1>2
<1>4. /\ Held(r)' = {}
      /\ \A q \in Relay \ {r} : Held(q)' = Held(q)
  BY <1>3 DEF Held, NoBatch
<1>5. Spent \subseteq Spent' \cup D /\ Spent' \subseteq Spent /\ D \subseteq Held(r)
  <2>1. \A i : InFlight(i) => InFlight(i)' \/ i \in D
    BY <1>3 DEF InFlight
  <2>2. \A i : InFlight(i)' => InFlight(i)
    BY <1>3 DEF InFlight, NoBatch
  <2> QED
    BY <1>1, <2>1, <2>2 DEF Spent, Held
<1> HIDE DEF D
<1>6. PICK n \in Nat, k \in Nat, l \in Nat, d \in Nat, h \in Nat :
        /\ n = Len(log) /\ k = Cardinality(Spent) /\ l = Cardinality(Spent')
        /\ d = Cardinality(D) /\ h = Cardinality(Held(r))
        /\ k <= l + d
  <2>1. /\ IsFiniteSet(Spent) /\ IsFiniteSet(Held(r))
        /\ Cardinality(Spent) \in Nat /\ Cardinality(Held(r)) \in Nat /\ Len(log) \in Nat
    BY RowSets
  <2>2. IsFiniteSet(D) /\ IsFiniteSet(Spent')
    BY <1>5, <2>1, FS_Subset
  <2>3. /\ Cardinality(D) \in Nat /\ Cardinality(Spent') \in Nat
        /\ IsFiniteSet(Spent' \cup D)
        /\ Cardinality(Spent' \cup D)
             = Cardinality(Spent') + Cardinality(D) - Cardinality(Spent' \cap D)
    BY <2>2, FS_Union, FS_CardinalityType
  <2>4. Cardinality(Spent' \cap D) \in Nat
    <3>1. Spent' \cap D \subseteq D
      OBVIOUS
    <3> QED
      BY <2>2, <3>1, FS_Subset, FS_CardinalityType
  <2>5. Cardinality(Spent) <= Cardinality(Spent' \cup D)
    BY <1>5, <2>3, FS_Subset
  <2>6. Cardinality(Spent) <= Cardinality(Spent') + Cardinality(D)
    BY <2>1, <2>3, <2>4, <2>5
  <2> QED
    BY <2>1, <2>3, <2>6
<1>7. \/ Len(log') = n /\ d <= h
      \/ Len(log') = n + 1 /\ d + 1 <= h
  <2>1. IsFiniteSet(Held(r)) /\ D \in SUBSET Held(r)
    BY <1>5, RowSets
  <2>2. d <= h
    BY <1>6, <2>1, FS_Subset
  <2>3. CASE UNCHANGED log
    BY <1>6, <2>2, <2>3
  <2>4. ASSUME batch[r].todo # {}, NEW c, c = Current(r), Add(c)
        PROVE  Len(log') = n + 1 /\ d + 1 <= h
    <3>1. c \in batch[r].todo /\ c \in DOMAIN rows
      BY <2>4, CurrentRow
    <3>2. c \in Held(r) /\ c \notin D
      BY <3>1 DEF RelayInv, HeldInv, Held, D
    <3>3. d # h
      BY <1>6, <2>1, <3>2, FS_Subset
    <3>4. log \in Seq(1 .. Len(rows)) /\ c \in 1 .. Len(rows) /\ log' = Append(log, c)
      BY <2>4, <3>1, LenProperties DEF RelayInv, TypeOK, Add
    <3>5. Len(log') = n + 1
      BY <1>6, <3>4, AppendProperties
    <3> QED
      BY <2>2, <3>3, <3>5
  <2> QED
    BY <1>1, <2>3, <2>4
<1>8. PICK f \in Nat, g \in Nat, b \in Nat :
        f = faults * BatchSize /\ g = faults' * BatchSize /\ b = BatchSize /\ g = f + b
  <2>1. PICK u \in Nat, b \in Nat : u = faults /\ b = BatchSize
    BY <1>2
  <2>2. (u + 1) * b = u * b + b /\ u * b \in Nat /\ (u + 1) * b \in Nat
    OBVIOUS
  <2> QED
    BY <1>1, <2>1, <2>2
<1>9. n <= k + f /\ h <= b
  BY <1>6, <1>8, Zenon DEF TotalInv
<1>10. n <= l + g /\ (d + 1 <= h => n + 1 <= l + g)
  <2>1. k <= l + d /\ g = f + b
    BY <1>6, <1>8, Zenon
  <2>2. d <= h
    BY <1>7
  <2>3. n <= l + d + f /\ d <= b
    BY <1>9, <2>1, <2>2
  <2> QED
    BY <1>9, <2>1, <2>2, <2>3
<1>11. Len(log') <= l + g
  BY <1>7, <1>10
<1>12. Len(log') <= Cardinality(Spent') + faults' * BatchSize
  BY <1>6, <1>8, <1>11, Zenon
<1>13. \A q \in Relay : Cardinality(Held(q))' <= BatchSize
  <2>1. Cardinality({}) <= BatchSize
    BY <1>2, FS_EmptySet
  <2>2. ASSUME NEW q \in Relay PROVE Cardinality(Held(q)') <= BatchSize
    <3>1. CASE q = r
      BY <1>4, <2>1, <3>1, Zenon
    <3>2. CASE q # r
      BY <1>4, <3>2, Zenon DEF TotalInv
    <3> QED
      BY <3>1, <3>2
  <2> QED
    BY <2>2
<1> QED
  BY <1>12, <1>13 DEF TotalInv

(* The other steps add no entry and spend no row.                           *)
LEMMA TotalSame ==
  ASSUME RelayInv, TotalInv, UNCHANGED <<log, faults>>, Spent' = Spent,
         \A r \in Relay : Cardinality(Held(r))' <= BatchSize
  PROVE  TotalInv'
BY Zenon DEF TotalInv

LEMMA TotalRows ==
  ASSUME RelayInv, TotalInv, Enqueue \/ \E i \in DOMAIN rows : Commit(i)
  PROVE  TotalInv'
<1>1. /\ rows \in Seq(RowState) /\ Len(rows) \in Nat /\ DOMAIN rows = 1 .. Len(rows)
      /\ batch \in [Relay -> [todo : SUBSET (1 .. Len(rows)), done : SUBSET (1 .. Len(rows))]]
  BY LenProperties DEF RelayInv, TypeOK
<1>2. UNCHANGED <<batch, log, faults>>
  BY DEF Enqueue, Commit
<1>3. /\ \A i : InFlight(i)' <=> InFlight(i)
      /\ \A r \in Relay : Held(r)' = Held(r)
  BY <1>2 DEF InFlight, Held
<1>4. \A i : InFlight(i) => i \in DOMAIN rows
  BY <1>1 DEF InFlight
<1>5. CASE Enqueue
  <2>1. rows' = Append(rows, "open") /\ "open" \in RowState
    BY <1>5 DEF Enqueue, RowState
  <2>2. /\ DOMAIN rows' = 1 .. (Len(rows) + 1)
        /\ \A i \in 1 .. Len(rows) : rows'[i] = rows[i]
        /\ rows'[Len(rows) + 1] = "open"
    BY <1>1, <2>1, AppendProperties, LenProperties
  <2>3. DOMAIN rows' = DOMAIN rows \cup {Len(rows) + 1}
    BY <1>1, <2>2
  <2>4. Spent' = Spent
    BY <1>1, <1>3, <1>4, <2>2, <2>3 DEF Spent
  <2> QED
    BY <1>2, <1>3, <2>4, TotalSame, Zenon DEF TotalInv
<1>6. ASSUME NEW i \in DOMAIN rows, Commit(i) PROVE TotalInv'
  <2>1. rows[i] = "open" /\ rows' = [rows EXCEPT ![i] = "unpublished"]
    BY <1>6 DEF Commit
  <2>2. DOMAIN rows' = DOMAIN rows /\ \A j \in DOMAIN rows :
          rows'[j] = "published" <=> rows[j] = "published"
    BY <1>1, <2>1
  <2>3. Spent' = Spent
    BY <1>3, <2>2, Zenon DEF Spent
  <2> QED
    BY <1>2, <1>3, <2>3, TotalSame, Zenon DEF TotalInv
<1> QED
  BY <1>5, <1>6

LEMMA TotalTake ==
  ASSUME RelayInv, TotalInv, NEW r \in Relay, TakeBatch(r)
  PROVE  TotalInv'
<1> DEFINE F == {i \in Unpublished(r) : Cardinality({j \in Unpublished(r) : j < i}) < BatchSize}
<1>1. /\ UNCHANGED <<rows, log, faults>>
      /\ batch[r] = NoBatch
      /\ batch' = [batch EXCEPT ![r].todo = F]
  BY DEF TakeBatch
<1>2. Cardinality(F) <= BatchSize
  <2>1. BatchSize \in Nat
    BY OutboxRelayAssumption
  <2>2. Unpublished(r) \subseteq DOMAIN rows
    BY DEF Unpublished
  <2>3. IsFiniteSet(Unpublished(r))
    BY <2>2, RowSets, FS_Subset
  <2>4. Unpublished(r) \in SUBSET Nat
    BY <2>2, LenProperties DEF RelayInv, TypeOK
  <2> QED
    BY <2>1, <2>3, <2>4, FirstOnes
<1> HIDE DEF F
<1>3. batch \in [Relay -> [todo : SUBSET (1 .. Len(rows)), done : SUBSET (1 .. Len(rows))]]
  BY DEF RelayInv, TypeOK
<1>4. /\ batch'[r].todo = F /\ batch'[r].done = {}
      /\ \A q \in Relay \ {r} : batch'[q] = batch[q]
  BY <1>1, <1>3 DEF NoBatch
<1>5. Spent' = Spent
  <2>1. batch[r].done = {}
    BY <1>1 DEF NoBatch
  <2>2. \A i : InFlight(i)' <=> InFlight(i)
    BY <1>4, <2>1 DEF InFlight
  <2> QED
    BY <1>1, <2>2, Zenon DEF Spent
<1>6. ASSUME NEW q \in Relay PROVE Cardinality(Held(q)') <= BatchSize
  <2>1. CASE q = r
    <3>1. Held(r)' = F
      BY <1>4 DEF Held
    <3> QED
      BY <1>2, <2>1, <3>1, Zenon
  <2>2. CASE q # r
    <3>1. Held(q)' = Held(q)
      BY <1>4, <2>2 DEF Held
    <3> QED
      BY <3>1, Zenon DEF TotalInv
  <2> QED
    BY <2>1, <2>2
<1> QED
  BY <1>1, <1>5, <1>6, TotalSame

LEMMA TotalCommit ==
  ASSUME RelayInv, TotalInv, NEW r \in Relay, CommitBatch(r)
  PROVE  TotalInv'
<1>1. /\ UNCHANGED <<log, faults>>
      /\ rows' = [i \in DOMAIN rows |-> IF i \in batch[r].done THEN "published" ELSE rows[i]]
      /\ batch' = [batch EXCEPT ![r] = NoBatch]
  BY DEF CommitBatch
<1>2. batch \in [Relay -> [todo : SUBSET (1 .. Len(rows)), done : SUBSET (1 .. Len(rows))]]
  BY DEF RelayInv, TypeOK
<1>3. batch'[r] = NoBatch /\ \A q \in Relay \ {r} : batch'[q] = batch[q]
  BY <1>1, <1>2
<1>4. Spent' = Spent
  <2>1. \A i : InFlight(i) <=> InFlight(i)' \/ i \in batch[r].done
    BY <1>3 DEF InFlight, NoBatch
  <2>2. DOMAIN rows' = DOMAIN rows /\ \A i \in DOMAIN rows :
          rows'[i] = "published" <=> rows[i] = "published" \/ i \in batch[r].done
    BY <1>1
  <2> QED
    BY <2>1, <2>2 DEF Spent
<1>5. ASSUME NEW q \in Relay PROVE Cardinality(Held(q)') <= BatchSize
  <2>1. CASE q = r
    <3>1. Held(r)' = {}
      BY <1>3 DEF Held, NoBatch
    <3>2. Cardinality({}) <= BatchSize
      BY OutboxRelayAssumption, FS_EmptySet
    <3> QED
      BY <2>1, <3>1, <3>2, Zenon
  <2>2. CASE q # r
    <3>1. Held(q)' = Held(q)
      BY <1>3, <2>2 DEF Held
    <3> QED
      BY <3>1, Zenon DEF TotalInv
  <2> QED
    BY <2>1, <2>2
<1> QED
  BY <1>1, <1>4, <1>5, TotalSame

LEMMA TotalOther == RelayInv /\ TotalInv /\ OtherFault => TotalInv'
<1> SUFFICES ASSUME RelayInv, TotalInv, OtherFault PROVE TotalInv'
  OBVIOUS
<1>1. UNCHANGED <<rows, batch, log>> /\ faults' = faults + 1
  BY DEF OtherFault
<1>2. Spent' = Spent /\ \A r \in Relay : Held(r)' = Held(r)
  BY <1>1 DEF Spent, InFlight, Held
<1>3. PICK n \in Nat, k \in Nat : n = Len(log) /\ k = Cardinality(Spent)
  BY RowSets
<1>4. PICK f \in Nat, g \in Nat : f = faults * BatchSize /\ g = faults' * BatchSize /\ f <= g
  <2>1. PICK u \in Nat, b \in Nat : u = faults /\ b = BatchSize
    BY OutboxRelayAssumption DEF RelayInv, TypeOK
  <2>2. (u + 1) * b = u * b + b /\ u * b \in Nat /\ (u + 1) * b \in Nat
    OBVIOUS
  <2> QED
    BY <1>1, <2>1, <2>2
<1>5. n <= k + f /\ f <= g
  BY <1>3, <1>4, Zenon DEF TotalInv
<1>6. n <= k + g
  BY <1>5
<1> QED
  BY <1>1, <1>2, <1>3, <1>4, <1>6, Zenon DEF TotalInv

LEMMA TotalInvStep == RelayInv /\ TotalInv /\ ([Next]_vars \/ OtherFault) => TotalInv'
<1> SUFFICES ASSUME RelayInv, TotalInv, [Next]_vars \/ OtherFault PROVE TotalInv'
  OBVIOUS
<1>1. CASE UNCHANGED vars
  <2>1. UNCHANGED <<rows, batch, log, faults>>
    BY <1>1 DEF vars
  <2>2. Spent' = Spent /\ \A r \in Relay : Held(r)' = Held(r)
    BY <2>1 DEF Spent, InFlight, Held
  <2> QED
    BY <2>1, <2>2, TotalSame, Zenon DEF TotalInv
<1>2. CASE \E r \in Relay : Relaying(r) \/ Fail(r)
  BY <1>2, TotalTake, TotalPublish, TotalCommit, TotalFail DEF Relaying
<1> QED
  BY <1>1, <1>2, TotalRows, TotalOther DEF Next

LEMMA InitTotalInv == Init => TotalInv
<1> SUFFICES ASSUME Init PROVE TotalInv
  OBVIOUS
<1>1. RelayInv
  BY InitRelayInv
<1>2. rows = <<>> /\ log = <<>> /\ faults = 0
  BY DEF Init
<1>3. Len(log) = 0 /\ 0 * BatchSize = 0 /\ Cardinality({}) <= BatchSize
  BY <1>2, OutboxRelayAssumption, FS_EmptySet
<1>4. \A r \in Relay : Held(r) = {}
  BY DEF Init, NoBatch, Held
<1>5. Cardinality(Spent) \in Nat
  BY <1>1, RowSets
<1>6. 0 <= Cardinality(Spent) + 0
  BY <1>5
<1> QED
  BY <1>2, <1>3, <1>4, <1>6, Zenon DEF TotalInv

LEMMA TotalInvariance == (Spec => []TotalInv) /\ (DeliverySpec => []TotalInv)
<1>1. RelayInv /\ TotalInv /\ [Next]_vars => TotalInv'
  BY TotalInvStep
<1>2. RelayInv /\ TotalInv /\ [DeliveryNext]_allVars => TotalInv'
  BY TotalInvStep, DeliveryStep
<1>3. DeliveryInit => Init
  BY DEF DeliveryInit
<1> QED
  BY <1>1, <1>2, <1>3, InitTotalInv, RelayInvariance, PTL DEF Spec, DeliverySpec

(* A fault repeats no more than a batch: all the entries there are, whoever *)
(* died and however often, are one for each row that is marked or about to  *)
(* be and at most BatchSize for each fault.                                 *)
THEOREM RepeatsInAll == DeliverySpec => [](Len(log) <= Cardinality(Spent) + faults * BatchSize)
<1>1. TotalInv => Len(log) <= Cardinality(Spent) + faults * BatchSize
  BY Zenon DEF TotalInv
<1> QED
  BY <1>1, TotalInvariance, PTL

(* A relay that has something to publish always finds room in the stream as *)
(* the notifier's model bounds it: MaxRows + MaxFaults * BatchSize entries  *)
(* cut no behaviour of the relays off.                                      *)
THEOREM StreamHasRoom ==
  DeliverySpec => [](\A r \in Relay : batch[r].todo # {} =>
                       Len(log) < MaxRows + MaxFaults * BatchSize)
<1>1. ASSUME RelayInv, TotalInv, NEW r \in Relay, batch[r].todo # {}
      PROVE  Len(log) < MaxRows + MaxFaults * BatchSize
  <2>1. PICK c : c = Current(r)
    OBVIOUS
  <2>2. c \in batch[r].todo /\ c \in DOMAIN rows
    BY <1>1, <2>1, CurrentRow
  <2>3. c \notin Spent
    <3>1. rows[c] = "unpublished" /\ c \in Held(r) /\ c \notin batch[r].done
      BY <1>1, <2>2 DEF RelayInv, HeldInv, Held
    <3>2. \A q \in Relay \ {r} : c \notin Held(q)
      BY <1>1, <3>1 DEF RelayInv, NoSharedRow
    <3> QED
      BY <3>1, <3>2 DEF Held, Spent, InFlight
  <2>4. PICK n \in Nat, k \in Nat, m \in Nat :
          /\ n = Len(log) /\ k = Cardinality(Spent) /\ m = Len(rows)
          /\ k < m /\ m <= MaxRows
    <3>1. Spent \subseteq DOMAIN rows /\ Spent # DOMAIN rows
      BY <1>1, <2>2, <2>3, RowSets
    <3>2. IsFiniteSet(DOMAIN rows) /\ Cardinality(DOMAIN rows) = Len(rows)
      BY <1>1, RowSets
    <3>3. Cardinality(Spent) <= Cardinality(DOMAIN rows)
          /\ Cardinality(Spent) # Cardinality(DOMAIN rows)
      BY <3>1, <3>2, FS_Subset
    <3> QED
      BY <1>1, <3>2, <3>3, RowSets
  <2>5. PICK f \in Nat, g \in Nat :
          f = faults * BatchSize /\ g = MaxFaults * BatchSize /\ f <= g
    <3>1. PICK u \in Nat, v \in Nat, b \in Nat :
            u = faults /\ v = MaxFaults /\ b = BatchSize /\ u <= v
      BY <1>1, OutboxRelayAssumption DEF RelayInv, TypeOK
    <3>2. u * b \in Nat /\ v * b \in Nat /\ u * b <= v * b
      <4>1. PICK w \in Nat : v = u + w
        BY <3>1
      <4>2. u * b \in Nat /\ w * b \in Nat /\ (u + w) * b = u * b + w * b
        OBVIOUS
      <4> QED
        BY <4>1, <4>2
    <3> QED
      BY <3>1, <3>2
  <2>6. n <= k + f /\ f <= g /\ k < m /\ m <= MaxRows
    BY <1>1, <2>4, <2>5, Zenon DEF TotalInv
  <2>7. n < MaxRows + g
    BY <2>6, OutboxRelayAssumption
  <2> QED
    BY <2>4, <2>5, <2>7, Zenon
<1>2. RelayInv /\ TotalInv => \A r \in Relay : batch[r].todo # {} =>
                                  Len(log) < MaxRows + MaxFaults * BatchSize
  BY <1>1
<1> QED
  BY <1>2, RelayInvariance, TotalInvariance, PTL

-----------------------------------------------------------------------------
(* What the notifier's table says of an event of booking. *)

(* A row that says `sent`, and a consumer about to write it, have told the  *)
(* client.                                                                  *)
SentInv ==
  /\ notices \in [Event -> N!Notice]
  /\ N!SentMeansTold
  /\ \A c \in Consumer : pc[c] = "mark" => N!EventOf(c) \in told

LEMMA InHands ==
  ASSUME RelayInv, NotifierInv, NEW c \in Consumer,
         pc[c] \in {"handle", "send", "mark", "mark_dead", "ack"}
  PROVE  N!EntryOf(c) \in DOMAIN log /\ N!EventOf(c) \in Event
<1>1. work \in [Consumer -> Seq(Given)] /\ WorkOf(c) /\ work[c] # <<>>
  BY Zenon DEF NotifierInv, WorkOf
<1>2. N!EntryOf(c) \in DOMAIN log
  BY <1>1, HeadEntry
<1> QED
  BY <1>2, StreamType DEF N!EventOf

(* The steps that leave the table alone or change no `sent`.                *)
LEMMA SentStays ==
  ASSUME RelayInv, NotifierInv, SentInv, NEW c \in Consumer,
         ConsumerMove(c), UNCHANGED <<log, notices>>, told \subseteq told', pc'[c] # "mark"
  PROVE  SentInv'
<1>1. \A d \in Consumer \ {c} : pc'[d] = pc[d] /\ work'[d] = work[d]
  BY DEF ConsumerMove
<1>2. ASSUME NEW d \in Consumer, pc'[d] = "mark" PROVE N!EventOf(d)' \in told'
  <2>1. pc[d] = "mark" /\ work'[d] = work[d]
    BY <1>1, <1>2
  <2>2. N!EventOf(d)' = N!EventOf(d)
    BY <2>1 DEF N!EventOf, N!EntryOf
  <2> QED
    BY <2>1, <2>2, Zenon DEF SentInv
<1> QED
  BY <1>2 DEF SentInv, N!SentMeansTold

LEMMA SentConsumer ==
  ASSUME RelayInv, NotifierInv, SentInv, NEW c \in Consumer, ConsumerStep(c) \/ ConsumerFault(c)
  PROVE  SentInv'
<1>1. ConsumerMove(c) /\ UNCHANGED <<rows, batch, log, trimmed>>
  BY ConsumerMoves
<1>2. pc \in [Consumer -> PcType] /\ work \in [Consumer -> Seq(Given)]
  BY DEF NotifierInv
<1>3. notices \in [Event -> N!Notice] /\ N!SentMeansTold
  BY Zenon DEF SentInv
<1>4. ASSUME UNCHANGED work, told \subseteq told', notices' \in [Event -> N!Notice],
             N!SentMeansTold',
             pc'[c] = "mark" => N!EventOf(c) \in told'
      PROVE  SentInv'
  <2>1. ASSUME NEW d \in Consumer PROVE N!EventOf(d)' = N!EventOf(d)
    BY <1>1, <1>4 DEF N!EventOf, N!EntryOf
  <2>2. ASSUME NEW d \in Consumer, pc'[d] = "mark" PROVE N!EventOf(d)' \in told'
    <3>1. CASE d = c
      BY <1>4, <2>1, <2>2, <3>1, Zenon
    <3>2. CASE d # c
      <4>1. pc[d] = "mark"
        BY <1>1, <2>2, <3>2 DEF ConsumerMove
      <4>2. N!EventOf(d) \in told
        BY <4>1, Zenon DEF SentInv
      <4> QED
        BY <1>4, <2>1, <4>2, Zenon
    <3> QED
      BY <3>1, <3>2
  <2> QED
    BY <1>4, <2>2, Zenon DEF SentInv
<1>5. CASE N!Send(c)
  <2>1. told' = told \cup {N!EventOf(c)} /\ UNCHANGED <<notices, work>>
    BY <1>5 DEF N!Send
  <2>2. N!SentMeansTold'
    BY <1>3, <2>1 DEF N!SentMeansTold
  <2> QED
    BY <1>3, <1>4, <2>1, <2>2
<1>6. CASE N!MarkSent(c)
  <2>1. /\ notices' = [notices EXCEPT ![N!EventOf(c)] = "sent"]
        /\ pc' = [pc EXCEPT ![c] = "ack"] /\ UNCHANGED <<told, work>> /\ pc[c] = "mark"
    BY <1>6 DEF N!MarkSent, N!Goto
  <2>2. PICK e \in Event : e = N!EventOf(c)
    BY <2>1, InHands
  <2>3. e \in told
    BY <2>1, <2>2, Zenon DEF SentInv
  <2>4. notices' \in [Event -> N!Notice] /\ N!SentMeansTold'
    BY <1>3, <2>1, <2>2, <2>3 DEF N!SentMeansTold, N!Notice
  <2>5. pc'[c] = "ack"
    BY <1>2, <2>1
  <2> QED
    BY <1>4, <2>1, <2>4, <2>5
<1>7. CASE N!MarkDead(c)
  <2>1. /\ notices' = [notices EXCEPT ![N!EventOf(c)] = IF @ = "none" THEN @ ELSE "dead"]
        /\ pc' = [pc EXCEPT ![c] = "ack"] /\ UNCHANGED <<told, work>> /\ pc[c] = "mark_dead"
    BY <1>7 DEF N!MarkDead, N!Goto, N!broker
  <2>2. PICK e \in Event : e = N!EventOf(c)
    BY <2>1, InHands
  <2>3. notices' = [notices EXCEPT ![e] = IF notices[e] = "none" THEN "none" ELSE "dead"]
    BY <1>3, <2>1, <2>2
  <2>4. notices' \in [Event -> N!Notice]
    BY <1>3, <2>3 DEF N!Notice
  <2>5. \A x \in Event : notices'[x] = "sent" => notices[x] = "sent"
    BY <1>3, <2>3
  <2>6. N!SentMeansTold'
    BY <1>3, <2>1, <2>5, Zenon DEF N!SentMeansTold
  <2>7. pc'[c] = "ack"
    BY <1>2, <2>1
  <2> QED
    BY <1>4, <2>1, <2>4, <2>6, <2>7
<1>8. CASE N!TakeUp(c)
  <2>1. /\ notices' = [notices EXCEPT ![N!EventOf(c)] = IF @ = "none" THEN "sending" ELSE @]
        /\ \E label \in {"send", "ack"} : pc' = [pc EXCEPT ![c] = label]
        /\ UNCHANGED <<told, work>> /\ pc[c] = "handle"
    BY <1>8 DEF N!TakeUp, N!Readable, N!Goto, N!broker
  <2>2. PICK e \in Event : e = N!EventOf(c)
    BY <2>1, InHands
  <2>3. notices' = [notices EXCEPT ![e] = IF notices[e] = "none" THEN "sending" ELSE notices[e]]
    BY <1>3, <2>1, <2>2
  <2>4. notices' \in [Event -> N!Notice]
    BY <1>3, <2>3 DEF N!Notice
  <2>5. \A x \in Event : notices'[x] = "sent" => notices[x] = "sent"
    BY <1>3, <2>3
  <2>6. N!SentMeansTold'
    BY <1>3, <2>1, <2>5, Zenon DEF N!SentMeansTold
  <2>7. pc'[c] # "mark"
    BY <1>2, <2>1
  <2> QED
    BY <1>4, <2>1, <2>4, <2>6, <2>7
<1>9. ASSUME ~N!Send(c), ~N!MarkSent(c), ~N!MarkDead(c), ~N!TakeUp(c) PROVE SentInv'
  <2>1. /\ UNCHANGED notices /\ told \subseteq told'
        /\ \/ UNCHANGED <<pc, work>>
           \/ \E label \in PcType \ {"mark"} : pc' = [pc EXCEPT ![c] = label]
    <3>1. \/ N!EnsureGroup(c) \/ N!ListPending(c) \/ N!Claim(c) \/ N!ReadNew(c) \/ N!Crash(c)
          \/ N!DeadLetter(c) \/ N!Ignore(c) \/ N!SendFails(c) \/ N!Acknowledge(c)
      BY <1>9 DEF ConsumerStep, ConsumerFault, N!Consuming, N!Handle
    <3> QED
      BY <3>1 DEF N!EnsureGroup, N!ListPending, N!Claim, N!ReadNew, N!Crash, N!DeadLetter, N!Ignore,
         N!SendFails, N!Acknowledge, N!NextDelivery, N!Goto, N!broker, PcType
  <2>2. CASE UNCHANGED <<pc, work>>
    <3>1. pc'[c] = "mark" => N!EventOf(c) \in told'
      BY <2>1, <2>2 DEF SentInv
    <3>2. N!SentMeansTold'
      BY <1>3, <2>1 DEF N!SentMeansTold
    <3> QED
      BY <1>3, <1>4, <2>1, <2>2, <3>1, <3>2
  <2>3. CASE pc'[c] # "mark"
    BY <1>1, <2>1, <2>3, SentStays
  <2> QED
    BY <1>2, <2>1, <2>2, <2>3
<1> QED
  BY <1>5, <1>6, <1>7, <1>8, <1>9

LEMMA SentStep ==
  ASSUME RelayInv, NotifierInv, SentInv, [DeliveryNext]_allVars
  PROVE  SentInv'
<1>1. CASE UNCHANGED <<log, notifierVars>>
  BY <1>1 DEF notifierVars, SentInv, N!SentMeansTold, N!EventOf, N!EntryOf
<1>2. ASSUME NEW i \in DOMAIN rows, log' = Append(log, i), N!Arrives(i) PROVE SentInv'
  <2>1. /\ \A k \in DOMAIN log : log'[k] = log[k]
        /\ UNCHANGED <<notices, told, pc, work>>
    BY <1>2, Appended
  <2>2. ASSUME NEW c \in Consumer, pc'[c] = "mark" PROVE N!EventOf(c)' \in told'
    <3>1. pc[c] = "mark" /\ N!EventOf(c) \in told
      BY <2>1, <2>2, Zenon DEF SentInv
    <3>2. N!EntryOf(c) \in DOMAIN log
      BY <3>1, InHands
    <3>3. N!EventOf(c)' = N!EventOf(c)
      BY <2>1, <3>2 DEF N!EventOf, N!EntryOf
    <3> QED
      BY <2>1, <3>1, <3>3, Zenon
  <2> QED
    BY <2>1, <2>2 DEF SentInv, N!SentMeansTold
<1> QED
  BY <1>1, <1>2, SentConsumer, StreamMove DEF DeliveryNext, Otherwise

LEMMA InitSentInv == DeliveryInit => SentInv
BY DEF DeliveryInit, N!Init, SentInv, N!SentMeansTold, N!Notice

(* models.py: the row is the answer to "was the client told?", all the way  *)
(* from booking: an event whose row says `sent` is of a change that was     *)
(* committed and has been told, whichever relays and consumers died.        *)
THEOREM SentIsTold ==
  DeliverySpec => [](\A e \in Event : notices[e] = "sent" => Fate(e) = "told")
<1>1. ASSUME RelayInv, NotifierInv, SentInv, NEW e \in Event, notices[e] = "sent"
      PROVE  Fate(e) = "told"
  <2>1. e \in told /\ Added(e)
    BY <1>1 DEF SentInv, N!SentMeansTold, NotifierInv
  <2>2. e \in DOMAIN rows /\ rows[e] # "open"
    <3>1. e \in DOMAIN rows
      BY <1>1, <2>1, StreamType DEF Added
    <3> QED
      BY <1>1, <2>1, <3>1 DEF RelayInv, MarkedIsPublished
  <2> QED
    BY <2>1, <2>2 DEF Fate
<1>2. RelayInv /\ NotifierInv /\ SentInv
        => \A e \in Event : notices[e] = "sent" => Fate(e) = "told"
  BY <1>1
<1>3. RelayInv /\ NotifierInv /\ SentInv /\ [DeliveryNext]_allVars => SentInv'
  BY SentStep
<1> QED
  BY <1>2, <1>3, InitSentInv, DeliveryInvariance, PTL DEF DeliverySpec

-----------------------------------------------------------------------------
(* Nothing that is owed is forgotten. *)

(* An entry that needs nothing more: dropped, buried or told; a copy that is *)
(* buried speaks for the others.                                            *)
SettledEntry(i) ==
  \/ i \in dead \cup 1 .. trimmed
  \/ log[i] \in told
  \/ \E j \in dead : log[j] = log[i]

(* Where a consumer is tells what has happened to the entry in its hands.   *)
HandleOf(c) ==
  /\ pc[c] = "ack" => SettledEntry(N!EntryOf(c))
  /\ pc[c] = "mark_dead" => N!EntryOf(c) \in dead

DeadRowInv ==
  \A e \in Event : notices[e] = "dead" => \E j \in dead : log[j] = e

GivenInv == lastId = N!NoGroup \/ lastId <= Len(log)

AckInv ==
  /\ \A c \in Consumer : HandleOf(c)
  /\ DeadRowInv
  /\ GivenInv
  /\ \A i \in DOMAIN log : N!Acknowledged(i) => SettledEntry(i)

(* What is settled stays so, and the stream only grows.                     *)
LEMMA SettledStays ==
  ASSUME RelayInv, NotifierInv, NEW i \in DOMAIN log, SettledEntry(i),
         \A k \in DOMAIN log : log'[k] = log[k],
         dead \subseteq dead', told \subseteq told', trimmed' \in Nat, trimmed <= trimmed'
  PROVE  SettledEntry(i)'
<1>1. dead \subseteq DOMAIN log
  BY DEF NotifierInv
<1>2. CASE i \in 1 .. trimmed
  <2>1. i \in 1 .. trimmed'
    BY <1>2 DEF NotifierInv
  <2> QED
    BY <2>1, Zenon DEF SettledEntry
<1>3. CASE i \notin 1 .. trimmed
  BY <1>1, <1>3, Zenon DEF SettledEntry
<1> QED
  BY <1>2, <1>3

(* The step of a consumer, as to what it has in its hands.                  *)
LEMMA HandsStep ==
  ASSUME RelayInv, NotifierInv, SentInv, AckInv, NEW c \in Consumer,
         ConsumerStep(c) \/ ConsumerFault(c)
  PROVE  HandleOf(c)' /\ DeadRowInv'
<1>1. /\ pc \in [Consumer -> PcType] /\ notices \in [Event -> N!Notice]
      /\ dead \subseteq DOMAIN log /\ HandleOf(c) /\ DeadRowInv
  BY Zenon DEF NotifierInv, SentInv, AckInv
<1>2. UNCHANGED <<log, trimmed>> /\ dead \subseteq dead' /\ told \subseteq told'
  BY ConsumerMoves, ConsumerTells
<1>3. UNCHANGED notices => DeadRowInv'
  BY <1>1, <1>2, Zenon DEF DeadRowInv
<1>4. UNCHANGED work => N!EntryOf(c)' = N!EntryOf(c)
  BY DEF N!EntryOf
<1>5. ASSUME NEW label, pc' = [pc EXCEPT ![c] = label] PROVE pc'[c] = label
  BY <1>1, <1>5
<1>6. CASE N!DeadLetter(c)
  <2>1. /\ pc[c] = "handle" /\ dead' = dead \cup {N!EntryOf(c)} /\ UNCHANGED <<notices, work>>
        /\ pc' = [pc EXCEPT ![c] = IF N!EventOf(c) = Garbage THEN "ack" ELSE "mark_dead"]
    BY <1>6 DEF N!DeadLetter, N!Goto
  <2>2. N!EventOf(c) # Garbage
    BY <2>1, InHands, EventDeliveryAssumption DEF Event
  <2>3. pc'[c] = "mark_dead"
    BY <1>5, <2>1, <2>2
  <2> QED
    BY <1>3, <1>4, <2>1, <2>3 DEF HandleOf
<1>7. CASE N!MarkDead(c)
  <2>1. /\ notices' = [notices EXCEPT ![N!EventOf(c)] = IF @ = "none" THEN @ ELSE "dead"]
        /\ pc' = [pc EXCEPT ![c] = "ack"] /\ UNCHANGED <<work, dead>> /\ pc[c] = "mark_dead"
    BY <1>7 DEF N!MarkDead, N!Goto, N!broker
  <2>2. PICK e \in Event : e = N!EventOf(c)
    BY <2>1, InHands
  <2>3. N!EntryOf(c) \in dead /\ log[N!EntryOf(c)] = e
    BY <1>1, <2>1, <2>2 DEF HandleOf, N!EventOf
  <2>4. \A x \in Event : notices'[x] = "dead" => notices[x] = "dead" \/ x = e
    BY <1>1, <2>1, <2>2
  <2>5. DeadRowInv'
    BY <1>1, <1>2, <2>1, <2>3, <2>4, Zenon DEF DeadRowInv
  <2>6. pc'[c] = "ack" /\ SettledEntry(N!EntryOf(c))'
    BY <1>4, <1>5, <2>1, <2>3 DEF SettledEntry
  <2> QED
    BY <2>5, <2>6 DEF HandleOf
<1>8. CASE N!TakeUp(c)
  <2>1. /\ notices' = [notices EXCEPT ![N!EventOf(c)] = IF @ = "none" THEN "sending" ELSE @]
        /\ pc' = [pc EXCEPT ![c] = IF notices[N!EventOf(c)] \in {"none", "sending"}
                                     THEN "send" ELSE "ack"]
        /\ UNCHANGED <<work, dead, told>> /\ pc[c] = "handle"
    BY <1>8 DEF N!TakeUp, N!Readable, N!Goto, N!broker
  <2>2. PICK e \in Event : e = N!EventOf(c)
    BY <2>1, InHands
  <2>3. \A x \in Event : notices'[x] = "dead" => notices[x] = "dead"
    <3>1. notices' = [notices EXCEPT ![e] = IF notices[e] = "none" THEN "sending" ELSE notices[e]]
      BY <1>1, <2>1, <2>2
    <3> QED
      BY <1>1, <3>1
  <2>4. DeadRowInv'
    BY <1>1, <1>2, <2>3, Zenon DEF DeadRowInv
  <2>5. pc'[c] = IF notices[e] \in {"none", "sending"} THEN "send" ELSE "ack"
    BY <1>1, <2>1, <2>2
  <2>6. ASSUME pc'[c] = "ack" PROVE SettledEntry(N!EntryOf(c))'
    <3>1. notices[e] = "sent" \/ notices[e] = "dead"
      BY <1>1, <2>5, <2>6 DEF N!Notice
    <3>2. log[N!EntryOf(c)] = e
      BY <2>2 DEF N!EventOf
    <3>3. e \in told \/ \E j \in dead : log[j] = e
      BY <1>1, <3>1, Zenon DEF SentInv, N!SentMeansTold, DeadRowInv
    <3> QED
      BY <1>2, <1>4, <2>1, <3>2, <3>3 DEF SettledEntry
  <2> QED
    BY <2>4, <2>5, <2>6 DEF HandleOf
<1>9. CASE N!MarkSent(c)
  <2>1. /\ notices' = [notices EXCEPT ![N!EventOf(c)] = "sent"]
        /\ pc' = [pc EXCEPT ![c] = "ack"] /\ UNCHANGED <<work, dead, told>> /\ pc[c] = "mark"
    BY <1>9 DEF N!MarkSent, N!Goto, N!broker
  <2>2. \A x \in Event : notices'[x] = "dead" => notices[x] = "dead"
    BY <1>1, <2>1
  <2>3. DeadRowInv'
    BY <1>1, <1>2, <2>2, Zenon DEF DeadRowInv
  <2>4. log[N!EntryOf(c)] \in told
    BY <2>1 DEF SentInv, N!EventOf
  <2>5. pc'[c] = "ack" /\ SettledEntry(N!EntryOf(c))'
    BY <1>2, <1>4, <1>5, <2>1, <2>4 DEF SettledEntry
  <2> QED
    BY <2>3, <2>5 DEF HandleOf
<1>10. CASE N!EnsureGroup(c)
  <2>1. UNCHANGED <<notices, work, pc, dead, told>>
    BY <1>10 DEF N!EnsureGroup
  <2> QED
    BY <1>1, <1>2, <1>3, <1>4, <2>1 DEF HandleOf, SettledEntry
<1>11. ASSUME ~N!DeadLetter(c), ~N!MarkDead(c), ~N!TakeUp(c), ~N!MarkSent(c), ~N!EnsureGroup(c)
       PROVE  HandleOf(c)' /\ DeadRowInv'
  <2>1. \/ N!ListPending(c) \/ N!Claim(c) \/ N!ReadNew(c) \/ N!Crash(c)
        \/ N!Send(c) \/ N!SendFails(c) \/ N!Acknowledge(c)
    BY <1>11 DEF ConsumerStep, ConsumerFault, N!Consuming, N!Handle, N!Ignore
  <2>2. /\ UNCHANGED notices
        /\ \E label \in {"start", "claim", "read", "handle", "mark"} :
             pc' = [pc EXCEPT ![c] = label]
    BY <2>1 DEF N!ListPending, N!Claim, N!ReadNew, N!Crash, N!Send, N!SendFails, N!Acknowledge,
                N!NextDelivery, N!Goto, N!broker
  <2> QED
    BY <1>3, <1>5, <2>2 DEF HandleOf
<1> QED
  BY <1>6, <1>7, <1>8, <1>9, <1>10, <1>11

(* The entries that XREADGROUP gives follow each other.                     *)
LEMMA NewEntries ==
  ASSUME NEW L \in Nat, NEW from \in 0 .. L
  PROVE  \E m \in Nat :
           /\ from + m \in from .. L
           /\ {i \in 1 .. L : from < i /\ i <= from + ReadBatch} = from + 1 .. from + m
           /\ Cardinality(from + 1 .. from + m) = m
<1> DEFINE X == {i \in 1 .. L : from < i /\ i <= from + ReadBatch}
           top == IF from + ReadBatch <= L THEN from + ReadBatch ELSE L
<1>1. top \in Nat /\ from <= top /\ top <= L /\ X = from + 1 .. top
  BY EventDeliveryAssumption
<1> HIDE DEF top
<1>2. PICK m \in Nat : top = from + m
  <2>1. top - from \in Nat /\ top = from + (top - from)
    BY <1>1
  <2> QED
    BY <2>1
<1>3. from + m \in from .. L
  BY <1>1, <1>2
<1>4. Cardinality(from + 1 .. from + m) = m
  <2>1. from + 1 \in Int /\ from + m \in Int
    OBVIOUS
  <2>2. Cardinality(from + 1 .. from + m)
          = IF from + 1 > from + m THEN 0 ELSE (from + m) - (from + 1) + 1
    BY <2>1, FS_Interval
  <2> QED
    BY <2>2
<1> QED
  BY <1>1, <1>2, <1>3, <1>4, Zenon

LEMMA NoGroupBeyond ==
  ASSUME RelayInv, NotifierInv
  PROVE  N!NoGroup \in Nat /\ Len(log) < N!NoGroup /\ trimmed < N!NoGroup
<1>1. Limit \in Nat /\ N!NoGroup = Limit + 1
  BY OutboxRelayAssumption DEF Limit, N!NoGroup
<1>2. Len(log) \in Nat /\ Len(log) <= Limit /\ trimmed \in Nat /\ trimmed <= Len(log)
  BY StreamType DEF NotifierInv
<1> QED
  BY <1>1, <1>2

(* A read goes on from where the group is, or from what the stream still    *)
(* holds, and gives what it passes.                                         *)
LEMMA ReadGives ==
  ASSUME RelayInv, NotifierInv, AckInv, NEW c \in Consumer, N!ReadNew(c)
  PROVE  /\ GivenInv'
         /\ \A a \in DOMAIN log : N!Acknowledged(a)' => N!Acknowledged(a) \/ a \in 1 .. trimmed
<1> DEFINE from == IF trimmed > lastId THEN trimmed ELSE lastId
           X == {i \in DOMAIN log : from < i /\ i <= from + ReadBatch}
<1>1. /\ lastId' = IF X = {} THEN lastId ELSE from + N!Cardinality(X)
      /\ pel' = [i \in N!Entry |-> IF i \in X THEN 1 ELSE pel[i]]
      /\ UNCHANGED log
  BY DEF N!ReadNew
<1>2. /\ Len(log) \in Nat /\ DOMAIN log = 1 .. Len(log) /\ DOMAIN log \subseteq N!Entry
      /\ trimmed \in Nat /\ trimmed <= Len(log) /\ lastId \in Nat
  BY StreamType DEF NotifierInv
<1>3. \A a \in DOMAIN log : pel'[a] = IF a \in X THEN 1 ELSE pel[a]
  BY <1>1, <1>2
<1>4. \A a \in X : pel'[a] # N!NotPending
  BY <1>3 DEF N!NotPending
<1>5. CASE X = {}
  <2>1. lastId' = lastId /\ \A a \in DOMAIN log : pel'[a] = pel[a]
    BY <1>1, <1>3, <1>5
  <2> QED
    BY <1>1, <2>1 DEF AckInv, GivenInv, N!Acknowledged
<1>6. CASE X # {}
  <2>1. from \in 0 .. Len(log) /\ lastId <= from /\ trimmed <= from
        /\ (from = lastId \/ from = trimmed)
    <3>1. PICK a \in 1 .. Len(log) : from < a
      BY <1>2, <1>6
    <3>2. from \in Nat /\ lastId <= from /\ trimmed <= from /\ (from = lastId \/ from = trimmed)
      BY <1>2
    <3> HIDE DEF from
    <3> QED
      BY <1>2, <3>1, <3>2
  <2>2. X = {i \in 1 .. Len(log) : from < i /\ i <= from + ReadBatch}
    BY <1>2
  <2> HIDE DEF from, X
  <2>3. PICK m \in Nat : /\ m = Cardinality(X) /\ from + m \in from .. Len(log)
                         /\ X = from + 1 .. from + m
    <3>1. PICK L \in Nat : L = Len(log)
      BY <1>2, Zenon
    <3>2. PICK f \in 0 .. L : f = from
      BY <2>1, <3>1, Zenon
    <3>3. PICK m \in Nat :
            /\ f + m \in f .. L
            /\ {i \in 1 .. L : f < i /\ i <= f + ReadBatch} = f + 1 .. f + m
            /\ Cardinality(f + 1 .. f + m) = m
      BY NewEntries, Zenon
    <3>4. X = f + 1 .. f + m
      BY <2>2, <3>1, <3>2, <3>3, Zenon
    <3> QED
      BY <3>1, <3>2, <3>3, <3>4, Zenon
  <2>4. lastId' = from + m
    <3>1. N!Cardinality(X) = Cardinality(X)
      BY DEF N!Cardinality, Cardinality
    <3> QED
      BY <1>1, <1>6, <2>3, <3>1
  <2>5. GivenInv'
    BY <1>1, <1>2, <2>1, <2>3, <2>4 DEF GivenInv
  <2>6. lastId # N!NoGroup
    BY <1>2, <2>1, NoGroupBeyond
  <2>7. ASSUME NEW a \in DOMAIN log, N!Acknowledged(a)'
        PROVE  N!Acknowledged(a) \/ a \in 1 .. trimmed
    <3>1. a \in Nat /\ a >= 1 /\ a <= from + m /\ a \notin X /\ pel[a] = N!NotPending
      BY <1>2, <1>3, <1>4, <2>4, <2>7 DEF N!Acknowledged
    <3>2. a <= from
      <4>1. a \notin from + 1 .. from + m
        BY <2>3, <3>1, Zenon
      <4> QED
        BY <2>1, <3>1, <4>1
    <3>3. CASE from = lastId
      BY <2>6, <3>1, <3>2, <3>3 DEF N!Acknowledged
    <3>4. CASE from = trimmed
      BY <1>2, <3>1, <3>2, <3>4
    <3> QED
      BY <2>1, <3>3, <3>4
  <2> QED
    BY <2>5, <2>7
<1> QED
  BY <1>5, <1>6

(* The step of a consumer, as to the pending list of the group.             *)
LEMMA PendingStep ==
  ASSUME RelayInv, NotifierInv, AckInv, NEW c \in Consumer, ConsumerStep(c) \/ ConsumerFault(c)
  PROVE  /\ GivenInv'
         /\ \A a \in DOMAIN log : N!Acknowledged(a)' => SettledEntry(a)
<1>1. /\ \A a \in DOMAIN log : N!Acknowledged(a) => SettledEntry(a)
      /\ GivenInv /\ UNCHANGED log
  BY ConsumerMoves, Zenon DEF AckInv
<1>2. /\ DOMAIN log = 1 .. Len(log) /\ Len(log) \in Nat /\ DOMAIN log \subseteq N!Entry
      /\ pel \in [N!Entry -> Nat]
  BY StreamType DEF NotifierInv
<1>3. CASE UNCHANGED <<lastId, pel>>
  BY <1>1, <1>3 DEF GivenInv, N!Acknowledged
<1>4. CASE N!EnsureGroup(c)
  <2>1. lastId' = 0
    BY <1>4 DEF N!EnsureGroup
  <2> QED
    BY <1>1, <1>2, <2>1 DEF GivenInv, N!Acknowledged
<1>5. CASE N!Claim(c)
  <2>1. PICK gone, X :
          /\ pel' = [i \in N!Entry |-> IF i \in gone THEN N!NotPending
                                       ELSE IF i \in X THEN pel[i] + 1 ELSE pel[i]]
          /\ gone \subseteq 1 .. trimmed
          /\ UNCHANGED lastId
    BY <1>5 DEF N!Claim
  <2>2. ASSUME NEW a \in DOMAIN log, N!Acknowledged(a)' PROVE SettledEntry(a)
    <3>1. CASE a \in gone
      BY <2>1, <3>1, Zenon DEF SettledEntry
    <3>2. CASE a \notin gone
      <4>1. pel[a] = N!NotPending
        BY <1>2, <2>1, <2>2, <3>2 DEF N!Acknowledged, N!NotPending
      <4> QED
        BY <1>1, <2>1, <2>2, <4>1 DEF N!Acknowledged
    <3> QED
      BY <3>1, <3>2
  <2> QED
    BY <1>1, <2>1, <2>2 DEF GivenInv
<1>6. CASE N!ReadNew(c)
  <2>1. \A a \in 1 .. trimmed : SettledEntry(a)
    BY DEF SettledEntry
  <2> QED
    BY <1>1, <1>6, <2>1, ReadGives, Zenon
<1>7. CASE N!Acknowledge(c)
  <2>1. /\ pel' = [pel EXCEPT ![N!EntryOf(c)] = N!NotPending] /\ UNCHANGED lastId
        /\ SettledEntry(N!EntryOf(c))
    BY <1>7 DEF N!Acknowledge, AckInv, HandleOf
  <2>2. ASSUME NEW a \in DOMAIN log, N!Acknowledged(a)' PROVE SettledEntry(a)
    <3>1. CASE a = N!EntryOf(c)
      BY <2>1, <3>1
    <3>2. CASE a # N!EntryOf(c)
      BY <1>1, <1>2, <2>1, <2>2, <3>2 DEF N!Acknowledged
    <3> QED
      BY <3>1, <3>2
  <2> QED
    BY <1>1, <2>1, <2>2 DEF GivenInv
<1>8. \/ UNCHANGED <<lastId, pel>>
      \/ N!EnsureGroup(c) \/ N!Claim(c) \/ N!ReadNew(c) \/ N!Acknowledge(c)
  BY DEF ConsumerStep, ConsumerFault, N!Consuming, N!ListPending, N!Handle, N!DeadLetter,
         N!MarkDead, N!Ignore, N!TakeUp, N!Send, N!SendFails, N!MarkSent, N!Crash, N!broker
<1> QED
  BY <1>3, <1>4, <1>5, <1>6, <1>7, <1>8

LEMMA AckStep ==
  ASSUME RelayInv, NotifierInv, SentInv, AckInv, [DeliveryNext]_allVars
  PROVE  AckInv'
<1>1. ASSUME NEW c \in Consumer, ConsumerStep(c) \/ ConsumerFault(c) PROVE AckInv'
  <2>1. HandleOf(c)' /\ DeadRowInv'
    BY <1>1, HandsStep
  <2>2. GivenInv' /\ \A a \in DOMAIN log : N!Acknowledged(a)' => SettledEntry(a)
    BY <1>1, PendingStep
  <2>3. /\ UNCHANGED <<log, trimmed>> /\ dead \subseteq dead' /\ told \subseteq told'
        /\ \A d \in Consumer \ {c} : pc'[d] = pc[d] /\ work'[d] = work[d]
    BY <1>1, ConsumerMoves, ConsumerTells DEF ConsumerMove
  <2>4. ASSUME NEW a \in DOMAIN log, SettledEntry(a) PROVE SettledEntry(a)'
    BY <2>3, <2>4, SettledStays DEF NotifierInv
  <2>5. ASSUME NEW d \in Consumer, d # c PROVE HandleOf(d)'
    <3>1. pc'[d] = pc[d] /\ N!EntryOf(d)' = N!EntryOf(d) /\ HandleOf(d)
      BY <2>3, <2>5 DEF N!EntryOf, AckInv
    <3>2. pc[d] \in {"ack", "mark_dead"} => N!EntryOf(d) \in DOMAIN log
      BY InHands
    <3>3. PICK k : k = N!EntryOf(d)
      OBVIOUS
    <3>4. pc[d] = "ack" => SettledEntry(k)'
      BY <2>4, <3>1, <3>2, <3>3 DEF HandleOf
    <3> QED
      BY <2>3, <3>1, <3>3, <3>4 DEF HandleOf, SettledEntry
  <2>6. \A a \in DOMAIN log' : N!Acknowledged(a)' => SettledEntry(a)'
    BY <2>2, <2>3, <2>4
  <2> QED
    BY <2>1, <2>2, <2>5, <2>6 DEF AckInv
<1>2. CASE UNCHANGED <<log, notifierVars>>
  BY <1>2 DEF notifierVars, AckInv, HandleOf, DeadRowInv, GivenInv, SettledEntry, N!Acknowledged,
              N!EntryOf
<1>3. ASSUME NEW i \in DOMAIN rows, log' = Append(log, i), N!Arrives(i) PROVE AckInv'
  <2>1. /\ Len(log) \in Nat /\ Len(log') = Len(log) + 1
        /\ DOMAIN log' = DOMAIN log \cup {Len(log) + 1}
        /\ \A k \in DOMAIN log : log'[k] = log[k]
        /\ trimmed' \in Nat /\ trimmed <= trimmed'
        /\ UNCHANGED <<lastId, pel, dead, notices, told, pc, work>>
    BY <1>3, Appended
  <2>2. ASSUME NEW a \in DOMAIN log, SettledEntry(a) PROVE SettledEntry(a)'
    BY <2>1, <2>2, SettledStays
  <2>3. dead \subseteq DOMAIN log /\ lastId \in Nat
    BY DEF NotifierInv
  <2>4. ASSUME NEW d \in Consumer PROVE HandleOf(d)'
    <3>1. pc'[d] = pc[d] /\ N!EntryOf(d)' = N!EntryOf(d) /\ HandleOf(d)
      BY <2>1 DEF N!EntryOf, AckInv
    <3>2. pc[d] \in {"ack", "mark_dead"} => N!EntryOf(d) \in DOMAIN log
      BY InHands
    <3>3. PICK k : k = N!EntryOf(d)
      OBVIOUS
    <3>4. pc[d] = "ack" => SettledEntry(k)'
      BY <2>2, <3>1, <3>2, <3>3 DEF HandleOf
    <3> QED
      BY <2>1, <3>1, <3>3, <3>4 DEF HandleOf, SettledEntry
  <2>5. DeadRowInv'
    BY <2>1, <2>3 DEF AckInv, DeadRowInv
  <2>6. GivenInv'
    BY <2>1, <2>3 DEF AckInv, GivenInv
  <2>7. ~N!Acknowledged(Len(log) + 1)
    BY <2>1, <2>3 DEF AckInv, GivenInv, N!Acknowledged
  <2>8. \A a : N!Acknowledged(a)' <=> N!Acknowledged(a)
    BY <2>1 DEF N!Acknowledged
  <2>9. \A a \in DOMAIN log' : N!Acknowledged(a)' => SettledEntry(a)'
    BY <2>1, <2>2, <2>7, <2>8, Zenon DEF AckInv
  <2> QED
    BY <2>4, <2>5, <2>6, <2>9 DEF AckInv
<1> QED
  BY <1>1, <1>2, <1>3, StreamMove DEF DeliveryNext, Otherwise

LEMMA InitAckInv == DeliveryInit => AckInv
<1> SUFFICES ASSUME DeliveryInit PROVE AckInv
  OBVIOUS
<1>1. /\ log = <<>> /\ lastId = N!NoGroup
      /\ pc = [c \in Consumer |-> "start"] /\ notices = [e \in Event |-> "none"]
  BY DEF DeliveryInit, N!Init
<1>2. DOMAIN log = {}
  BY <1>1
<1> QED
  BY <1>1, <1>2 DEF AckInv, HandleOf, DeadRowInv, GivenInv

(* consumer.py: "A crash means a repeat, never a silent loss", from booking *)
(* to the client: an event that he is still owed is not marked as published *)
(* yet, or has a copy in the hands of a consumer, or one that the group has *)
(* still to be given or has pending.                                        *)
THEOREM OwedIsUnderWay ==
  DeliverySpec =>
    [](\A e \in Event : Fate(e) = "owed" =>
         \/ rows[e] = "unpublished"
         \/ \E k \in CopiesOf(e) : InHand(k) \/ ~N!Acknowledged(k))
<1>1. ASSUME RelayInv, NotifierInv, AckInv,
             NEW e \in Event, Fate(e) = "owed", rows[e] # "unpublished"
      PROVE  \E k \in CopiesOf(e) : InHand(k) \/ ~N!Acknowledged(k)
  <2>1. ~Unseen(e) /\ e \notin told /\ ~Buried(e) /\ ~Gone(e)
    BY <1>1, FateIs
  <2>2. rows[e] = "published"
    BY <1>1, <2>1, ElementOfSeq DEF Unseen, RelayInv, TypeOK, RowState
  <2>3. PICK k \in CopiesOf(e) : ~(k <= trimmed /\ ~InHand(k))
    BY <2>1, <2>2 DEF Gone
  <2>4. k \in DOMAIN log /\ log[k] = e
    BY <2>3 DEF CopiesOf
  <2>5. \A j \in dead : log[j] # e
    BY <1>1, <2>1 DEF NotifierInv, CopiesOf, Buried
  <2>6. CASE N!Acknowledged(k)
    <3>1. SettledEntry(k)
      BY <1>1, <2>4, <2>6 DEF AckInv
    <3>2. k \in 1 .. trimmed
      BY <2>1, <2>4, <2>5, <3>1, Zenon DEF SettledEntry
    <3>3. InHand(k)
      BY <2>3, <3>2
    <3> QED
      BY <2>3, <3>3
  <2>7. CASE ~N!Acknowledged(k)
    BY <2>3, <2>7
  <2> QED
    BY <2>6, <2>7
<1>2. RelayInv /\ NotifierInv /\ AckInv
        => \A e \in Event : Fate(e) = "owed" =>
             \/ rows[e] = "unpublished"
             \/ \E k \in CopiesOf(e) : InHand(k) \/ ~N!Acknowledged(k)
  BY <1>1
<1>3. RelayInv /\ NotifierInv /\ SentInv /\ [DeliveryNext]_allVars => SentInv'
  BY SentStep
<1>4. RelayInv /\ NotifierInv /\ SentInv /\ AckInv /\ [DeliveryNext]_allVars => AckInv'
  BY AckStep
<1> QED
  BY <1>2, <1>3, <1>4, InitSentInv, InitAckInv, DeliveryInvariance, PTL DEF DeliverySpec
=============================================================================
