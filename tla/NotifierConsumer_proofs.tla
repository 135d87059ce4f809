---------------------- MODULE NotifierConsumer_proofs ----------------------
(***************************************************************************)
(* Proofs about NotifierConsumer, for any number of consumers, events,     *)
(* entries and deaths, and every limit of deliveries, batch and stream.    *)
(***************************************************************************)
EXTENDS NotifierConsumer, SequenceTheorems, FiniteSetTheorems, TLAPS

-----------------------------------------------------------------------------
(* The inductive invariant. *)

(* An entry that needs nothing more: dropped, buried, without a text, or    *)
(* told; a copy that is buried speaks for the others.                       *)
Settled(i) ==
  \/ i \in dead \cup 1 .. trimmed
  \/ stream[i] \in Unknown \cup told
  \/ \E j \in dead : stream[j] = stream[i]

(* A consumer handles entries of the stream that have been delivered, and   *)
(* never before the group.                                                  *)
WorkOf(c) ==
  /\ \A k \in DOMAIN work[c] : work[c][k].entry \in DOMAIN stream /\ work[c][k].deliveries # 0
  /\ pc[c] # "start" => lastId # NoGroup
  /\ pc[c] \in {"handle", "send", "mark", "mark_dead", "ack"} => work[c] # <<>>

(* Where a consumer is tells what has happened to the entry in its hands.   *)
HandleOf(c) ==
  /\ pc[c] \in {"send", "mark", "mark_dead"} => EventOf(c) \in Event
  /\ pc[c] = "mark" => EventOf(c) \in told
  /\ pc[c] = "mark_dead" => EntryOf(c) \in dead
  /\ pc[c] = "ack" => Settled(EntryOf(c))

ConsumerInv == \A c \in Consumer : WorkOf(c) /\ HandleOf(c)

(* Only what the group has been given is pending.                           *)
PendingInv ==
  \A i \in Entry : pel[i] # NotPending =>
    i \in DOMAIN stream /\ i <= lastId /\ lastId # NoGroup

(* A row says `dead` only if an entry of its event lies in the dead-letter  *)
(* stream.                                                                  *)
DeadRowInv ==
  \A e \in Event : notices[e] = "dead" => \E j \in dead : stream[j] = e

IInv ==
  /\ TypeOK
  /\ ConsumerInv
  /\ PendingInv
  /\ DeadRowInv
  /\ SentMeansTold
  /\ AcknowledgedIsSettled

-----------------------------------------------------------------------------
(* Operators. *)

(* A place in two parts put together that is not in the first one.          *)
LEMMA PastTheEnd ==
  ASSUME NEW n \in Nat, NEW l \in Nat, NEW k \in 1 .. n + l, k \notin 1 .. n
  PROVE  \E j \in 1 .. l : k = n + j
<1>1. k - n \in 1 .. l /\ k = n + (k - n)
  OBVIOUS
<1> QED
  BY <1>1

(* Every item of two sequences put together is one of theirs.               *)
LEMMA Joined ==
  ASSUME NEW S, NEW s \in Seq(S), NEW t \in Seq(S), NEW k \in DOMAIN (s \o t)
  PROVE  \/ k \in DOMAIN s /\ (s \o t)[k] = s[k]
         \/ \E j \in DOMAIN t : (s \o t)[k] = t[j]
<1>1. PICK n \in Nat, l \in Nat : n = Len(s) /\ l = Len(t)
  BY LenProperties
<1>2. DOMAIN s = 1 .. n /\ DOMAIN t = 1 .. l
  BY <1>1, LenProperties
<1>3. /\ s \o t \in Seq(S) /\ Len(s \o t) = n + l
      /\ \A j \in 1 .. n : (s \o t)[j] = s[j]
      /\ \A j \in 1 .. l : (s \o t)[n + j] = t[j]
  BY <1>1, ConcatProperties
<1>4. DOMAIN (s \o t) = 1 .. n + l
  BY <1>3, LenProperties
<1>5. CASE k \in 1 .. n
  BY <1>2, <1>3, <1>5
<1>6. CASE k \notin 1 .. n
  <2>1. k \in 1 .. n + l
    BY <1>4
  <2>2. PICK j \in 1 .. l : k = n + j
    BY <1>6, <2>1, PastTheEnd
  <2>3. (s \o t)[n + j] = t[j]
    BY <1>3
  <2> QED
    BY <1>2, <2>2, <2>3
<1> QED
  BY <1>5, <1>6

(* Every place in the order of a finite set of numbers is taken: one        *)
(* element has exactly k - 1 others below it.                               *)
LEMMA RankTaken ==
  ASSUME NEW X \in SUBSET Nat, IsFiniteSet(X), NEW k \in 1 .. Cardinality(X)
  PROVE  \E j \in X : Cardinality({h \in X : h < j}) = k - 1
<1> DEFINE n == Cardinality(X)
           Below(j) == {h \in X : h < j}
           rank == [j \in X |-> Cardinality(Below(j))]
<1>1. n \in Nat /\ IsFiniteSet(0 .. n - 1) /\ Cardinality(0 .. n - 1) = n
  <2>1. n \in Nat
    BY FS_CardinalityType
  <2> HIDE DEF n
  <2>2. 0 \in Int /\ n - 1 \in Int
    BY <2>1
  <2>3. /\ IsFiniteSet(0 .. n - 1)
        /\ Cardinality(0 .. n - 1) = IF 0 > n - 1 THEN 0 ELSE (n - 1) - 0 + 1
    BY <2>2, FS_Interval
  <2> QED
    BY <2>1, <2>3
<1>2. \A j \in X : j \notin Below(j) /\ Below(j) \subseteq X
  OBVIOUS
<1>3. \A j, l \in X : j < l => /\ Below(j) \subseteq Below(l)
                               /\ j \in Below(l)
  <2> TAKE j, l \in X
  <2> HAVE j < l
  <2>1. \A h \in X : h \in Nat
    OBVIOUS
  <2>2. \A h \in X : h < j => h < l
    BY <2>1
  <2> QED
    BY <2>2
<1>4. \A j, l \in X : j # l => j < l \/ l < j
  OBVIOUS
<1> HIDE DEF Below
<1>5. \A j \in X : IsFiniteSet(Below(j)) /\ Cardinality(Below(j)) \in Nat
  BY <1>2, FS_Subset, FS_CardinalityType
<1>6. ASSUME NEW j \in X PROVE Cardinality(Below(j)) < n
  <2>1. Below(j) # X
    BY <1>2
  <2>2. Cardinality(Below(j)) <= n /\ Cardinality(Below(j)) # n
    BY <1>2, <2>1, FS_Subset
  <2> QED
    BY <1>1, <1>5, <2>2
<1>7. ASSUME NEW j \in X, NEW l \in X, j < l PROVE Cardinality(Below(j)) # Cardinality(Below(l))
  <2>1. Below(j) # Below(l)
    BY <1>2, <1>3, <1>7
  <2> QED
    BY <1>3, <1>5, <1>7, <2>1, FS_Subset
<1>8. rank \in [X -> 0 .. n - 1]
  BY <1>1, <1>5, <1>6
<1>9. rank \in Injection(X, 0 .. n - 1)
  BY <1>4, <1>7, <1>8 DEF Injection, IsInjective
<1> HIDE DEF n
<1>10. rank \in Surjection(X, 0 .. n - 1)
  <2> HIDE DEF rank
  <2> QED
    BY <1>1, <1>9, FS_Injection DEF n
<1>11. k - 1 \in 0 .. n - 1
  BY <1>1 DEF n
<1>12. PICK j \in X : rank[j] = k - 1
  BY <1>10, <1>11 DEF Surjection
<1> QED
  BY <1>12 DEF Below

(* A set of entries in order is a sequence of deliveries of these entries.  *)
LEMMA InOrderType ==
  ASSUME NEW X \in SUBSET Entry, NEW d \in [Entry -> Nat]
  PROVE  /\ InOrder(X, d) \in Seq(Delivery)
         /\ Len(InOrder(X, d)) = Cardinality(X)
         /\ \A k \in DOMAIN InOrder(X, d) :
              \E i \in X : InOrder(X, d)[k].entry = i /\ InOrder(X, d)[k].deliveries = d[i]
<1>1. IsFiniteSet(Entry) /\ Entry \in SUBSET Nat
  BY NotifierConsumerAssumption, FS_Interval DEF Entry
<1>2. IsFiniteSet(X) /\ Cardinality(X) \in Nat /\ X \in SUBSET Nat
  BY <1>1, FS_Subset, FS_CardinalityType
<1> DEFINE At(k) == CHOOSE j \in X : Cardinality({h \in X : h < j}) = k - 1
<1>3. \A k \in 1 .. Cardinality(X) : At(k) \in X
  BY <1>2, RankTaken
<1> HIDE DEF At
<1>4. InOrder(X, d) = [k \in 1 .. Cardinality(X) |-> [entry |-> At(k), deliveries |-> d[At(k)]]]
  BY DEF InOrder, At
<1>5. \A k \in 1 .. Cardinality(X) : [entry |-> At(k), deliveries |-> d[At(k)]] \in Delivery
  BY <1>3 DEF Delivery
<1>6. InOrder(X, d) \in [1 .. Cardinality(X) -> Delivery]
  BY <1>4, <1>5
<1>7. InOrder(X, d) \in Seq(Delivery) /\ Len(InOrder(X, d)) = Cardinality(X)
  BY <1>2, <1>6
<1>8. \A k \in DOMAIN InOrder(X, d) :
        \E i \in X : InOrder(X, d)[k].entry = i /\ InOrder(X, d)[k].deliveries = d[i]
  BY <1>3, <1>4
<1> QED
  BY <1>7, <1>8

-----------------------------------------------------------------------------
(* Steps. *)

Acts(c) == Consuming(c) \/ Crash(c)

(* A consumer that acts leaves the others where they are.                   *)
LEMMA OthersStay ==
  ASSUME TypeOK, NEW c \in Consumer, Acts(c), NEW d \in Consumer \ {c}
  PROVE  pc'[d] = pc[d] /\ work'[d] = work[d]
<1> USE DEF TypeOK, Goto
<1>1. CASE EnsureGroup(c) \/ ListPending(c) \/ Claim(c) \/ ReadNew(c)
  BY <1>1 DEF EnsureGroup, ListPending, Claim, ReadNew
<1>2. CASE Handle(c) \/ Crash(c)
  BY <1>2 DEF Handle, DeadLetter, MarkDead, Ignore, TakeUp, Send, SendFails, MarkSent,
              Acknowledge, NextDelivery, Crash
<1> QED
  BY <1>1, <1>2 DEF Acts, Consuming

(* The stream is a log, and nothing that is dead, told or dropped comes     *)
(* back.                                                                    *)
LEMMA Grows ==
  ASSUME TypeOK, [Next]_vars
  PROVE  /\ \A i \in DOMAIN stream : i \in DOMAIN stream' /\ stream'[i] = stream[i]
         /\ dead \subseteq dead'
         /\ told \subseteq told'
         /\ 1 .. trimmed \subseteq 1 .. trimmed'
<1>1. ASSUME NEW x \in Event \cup {Garbage}, Published(x)
      PROVE  /\ \A i \in DOMAIN stream : i \in DOMAIN stream' /\ stream'[i] = stream[i]
             /\ UNCHANGED <<dead, told>>
             /\ 1 .. trimmed \subseteq 1 .. trimmed'
  <2>1. /\ stream \in Seq(Event \cup {Garbage}) /\ stream' = Append(stream, x)
        /\ trimmed' \in {trimmed} \cup trimmed .. (Len(stream) + 1 - MaxLen)
        /\ UNCHANGED <<dead, told>>
    BY <1>1 DEF Published, Arrives, TypeOK
  <2>2. /\ stream' \in Seq(Event \cup {Garbage})
        /\ Len(stream') = Len(stream) + 1
        /\ \A i \in 1 .. Len(stream) : stream'[i] = stream[i]
    BY <2>1, AppendProperties
  <2>3. /\ Len(stream) \in Nat
        /\ DOMAIN stream = 1 .. Len(stream)
        /\ DOMAIN stream' = 1 .. Len(stream) + 1
    BY <2>1, <2>2, LenProperties
  <2>4. trimmed \in Nat /\ trimmed' \in Int /\ trimmed <= trimmed'
    BY <2>1, <2>3, NotifierConsumerAssumption DEF TypeOK
  <2>5. 1 .. trimmed \subseteq 1 .. trimmed'
    BY <2>4
  <2> QED
    BY <2>1, <2>2, <2>3, <2>5
<1>2. ASSUME NEW c \in Consumer, Consuming(c) \/ Crash(c)
      PROVE  UNCHANGED <<stream, trimmed>> /\ dead \subseteq dead' /\ told \subseteq told'
  BY <1>2 DEF Consuming, EnsureGroup, ListPending, Claim, ReadNew, Handle, DeadLetter, MarkDead,
              Ignore, TakeUp, Send, SendFails, MarkSent, Acknowledge, Crash, broker
<1>3. CASE UNCHANGED vars
  BY <1>3 DEF vars
<1> QED
  BY <1>1, <1>2, <1>3 DEF Next

LEMMA SettledKept ==
  ASSUME TypeOK, [Next]_vars, NEW i \in DOMAIN stream, Settled(i)
  PROVE  Settled(i)'
<1>1. dead \subseteq DOMAIN stream
  BY DEF TypeOK
<1>2. /\ \A j \in DOMAIN stream : j \in DOMAIN stream' /\ stream'[j] = stream[j]
      /\ dead \subseteq dead' /\ told \subseteq told'
      /\ 1 .. trimmed \subseteq 1 .. trimmed'
  BY Grows
<1> QED
  BY <1>1, <1>2 DEF Settled

PcType == [Consumer -> {"start", "claim", "read", "handle", "send", "mark", "mark_dead", "ack"}]

(* What the types say of the stream.                                        *)
LEMMA StreamType ==
  ASSUME TypeOK
  PROVE  /\ Len(stream) \in Nat /\ DOMAIN stream = 1 .. Len(stream)
         /\ DOMAIN stream \subseteq Entry
         /\ Entry \subseteq Nat
         /\ \A i \in DOMAIN stream : stream[i] \in Event \cup {Garbage}
         /\ NoGroup \notin 0 .. Len(stream)
<1>1. /\ Len(stream) \in Nat /\ DOMAIN stream = 1 .. Len(stream)
      /\ \A i \in DOMAIN stream : stream[i] \in Event \cup {Garbage}
  BY LenProperties, ElementOfSeq DEF TypeOK
<1> QED
  BY <1>1, NotifierConsumerAssumption DEF TypeOK, Entry, NoGroup

(* The entries that XREADGROUP gives follow each other.                     *)
LEMMA NewEntries ==
  ASSUME NEW L \in Nat, NEW from \in 0 .. L,
         NEW X, X = {i \in 1 .. L : from < i /\ i <= from + Batch}
  PROVE  /\ Cardinality(X) \in Nat
         /\ from + Cardinality(X) \in from .. L
         /\ X = from + 1 .. from + Cardinality(X)
<1> DEFINE top == IF from + Batch <= L THEN from + Batch ELSE L
<1>1. top \in Nat /\ from <= top /\ top <= L /\ X = from + 1 .. top
  BY NotifierConsumerAssumption
<1> HIDE DEF top
<1>2. from + 1 \in Int /\ top \in Int
  BY <1>1
<1>3. Cardinality(X) = IF from + 1 > top THEN 0 ELSE top - (from + 1) + 1
  BY <1>1, <1>2, FS_Interval
<1>4. from + Cardinality(X) = top /\ Cardinality(X) \in Nat
  BY <1>1, <1>3
<1>5. top \in from .. L
  BY <1>1
<1> QED
  BY <1>1, <1>4, <1>5

(* The delivery a consumer handles.                                         *)
LEMMA HeadEntry ==
  ASSUME TypeOK, NEW c \in Consumer, WorkOf(c), work[c] # <<>>
  PROVE  /\ EntryOf(c) \in DOMAIN stream
         /\ EventOf(c) \in Event \cup {Garbage}
         /\ Tail(work[c]) \in Seq(Delivery)
         /\ Len(Tail(work[c])) = Len(work[c]) - 1
         /\ Len(work[c]) \in Nat \ {0}
         /\ \A k \in DOMAIN Tail(work[c]) :
              Tail(work[c])[k].entry \in DOMAIN stream /\ Tail(work[c])[k].deliveries # 0
<1>1. work[c] \in Seq(Delivery) /\ DOMAIN work[c] = 1 .. Len(work[c]) /\ Len(work[c]) \in Nat \ {0}
  BY LenProperties, EmptySeq DEF TypeOK
<1>2. /\ Head(work[c]) = work[c][1]
      /\ Tail(work[c]) \in Seq(Delivery)
      /\ Len(Tail(work[c])) = Len(work[c]) - 1
      /\ \A k \in 1 .. Len(work[c]) - 1 : Tail(work[c])[k] = work[c][k + 1]
  BY <1>1, HeadTailProperties
<1>3. DOMAIN Tail(work[c]) = 1 .. Len(work[c]) - 1
  BY <1>2, LenProperties
<1>4. EntryOf(c) \in DOMAIN stream
  BY <1>1, <1>2 DEF EntryOf, WorkOf
<1>5. \A k \in DOMAIN Tail(work[c]) :
        Tail(work[c])[k].entry \in DOMAIN stream /\ Tail(work[c])[k].deliveries # 0
  BY <1>1, <1>2, <1>3 DEF WorkOf
<1> QED
  BY <1>1, <1>2, <1>4, <1>5, StreamType DEF EventOf

(* On to the next delivery.                                                 *)
LEMMA NextDeliveryStep ==
  ASSUME TypeOK, NEW c \in Consumer, WorkOf(c), work[c] # <<>>, lastId # NoGroup,
         NextDelivery(c), UNCHANGED <<stream, lastId>>
  PROVE  pc' \in PcType /\ work' \in [Consumer -> Seq(Delivery)] /\ WorkOf(c)' /\ HandleOf(c)'
<1>1. /\ Tail(work[c]) \in Seq(Delivery)
      /\ Len(Tail(work[c])) = Len(work[c]) - 1
      /\ Len(work[c]) \in Nat \ {0}
      /\ \A k \in DOMAIN Tail(work[c]) :
           Tail(work[c])[k].entry \in DOMAIN stream /\ Tail(work[c])[k].deliveries # 0
  BY HeadEntry
<1>2. /\ work' = [work EXCEPT ![c] = Tail(work[c])]
      /\ pc' = [pc EXCEPT ![c] = IF Len(work[c]) = 1 THEN "start" ELSE "handle"]
  BY DEF NextDelivery, Goto
<1>3. pc' \in PcType /\ pc'[c] = IF Len(work[c]) = 1 THEN "start" ELSE "handle"
  BY <1>2 DEF TypeOK, PcType
<1>4. work' \in [Consumer -> Seq(Delivery)] /\ work'[c] = Tail(work[c])
  BY <1>1, <1>2 DEF TypeOK
<1>5. pc'[c] = "handle" => work'[c] # <<>>
  <2>1. Len(work[c]) # 1 => Len(work'[c]) # 0
    BY <1>1, <1>4
  <2> QED
    BY <1>3, <2>1, EmptySeq
<1> QED
  BY <1>1, <1>3, <1>4, <1>5 DEF WorkOf, HandleOf

(* What a consumer does with the entry in its hands.                        *)
LEMMA HandleStep ==
  ASSUME IInv, NEW c \in Consumer, Handle(c)
  PROVE  pc' \in PcType /\ work' \in [Consumer -> Seq(Delivery)] /\ WorkOf(c)' /\ HandleOf(c)'
<1>1. TypeOK /\ WorkOf(c) /\ HandleOf(c) /\ work[c] # <<>> /\ lastId # NoGroup
  BY DEF IInv, ConsumerInv, WorkOf, Handle, DeadLetter, MarkDead, Ignore, TakeUp, Readable,
         Send, SendFails, MarkSent, Acknowledge
<1>2. EntryOf(c) \in DOMAIN stream /\ EventOf(c) \in Event \cup {Garbage}
  BY <1>1, HeadEntry
<1>3. CASE SendFails(c) \/ Acknowledge(c)
  BY <1>1, <1>3, NextDeliveryStep DEF SendFails, Acknowledge, broker
<1>4. ASSUME NEW l \in {"send", "mark", "mark_dead", "ack"}, Goto(c, l),
             UNCHANGED <<stream, trimmed, lastId, work>>,
             l \in {"send", "mark", "mark_dead"} => EventOf(c) \in Event,
             l = "mark" => EventOf(c) \in told',
             l = "mark_dead" => EntryOf(c) \in dead',
             l = "ack" => \/ EntryOf(c) \in dead'
                          \/ EventOf(c) \in Unknown \cup told'
                          \/ \E j \in dead' : stream[j] = EventOf(c)
      PROVE  pc' \in PcType /\ work' \in [Consumer -> Seq(Delivery)] /\ WorkOf(c)' /\ HandleOf(c)'
  <2>1. pc' \in PcType /\ pc'[c] = l /\ work' \in [Consumer -> Seq(Delivery)]
    BY <1>1, <1>4 DEF TypeOK, PcType, Goto
  <2>2. WorkOf(c)'
    BY <1>1, <1>4 DEF WorkOf
  <2>3. EntryOf(c)' = EntryOf(c) /\ EventOf(c)' = EventOf(c)
    BY <1>4 DEF EntryOf, EventOf
  <2>4. l = "ack" => Settled(EntryOf(c))'
    BY <1>4 DEF EventOf, EntryOf, Settled
  <2> QED
    BY <1>4, <2>1, <2>2, <2>3, <2>4 DEF HandleOf
<1>5. CASE DeadLetter(c)
  <2>1. CASE EventOf(c) = Garbage
    BY <1>4, <1>5, <2>1 DEF DeadLetter
  <2>2. CASE EventOf(c) # Garbage
    BY <1>2, <1>4, <1>5, <2>2 DEF DeadLetter
  <2> QED
    BY <2>1, <2>2
<1>6. CASE MarkDead(c)
  BY <1>1, <1>4, <1>6 DEF MarkDead, broker, HandleOf
<1>7. CASE Ignore(c)
  BY <1>4, <1>7 DEF Ignore, broker
<1>8. CASE TakeUp(c)
  <2>1. EventOf(c) \in Event /\ UNCHANGED <<stream, trimmed, lastId, dead, told, work>>
    BY <1>8 DEF TakeUp, Readable, broker
  <2>2. CASE notices[EventOf(c)] \in {"none", "sending"}
    BY <1>4, <1>8, <2>1, <2>2 DEF TakeUp
  <2>3. CASE notices[EventOf(c)] \notin {"none", "sending"}
    <3>1. notices[EventOf(c)] \in {"sent", "dead"}
      BY <1>1, <2>1, <2>3 DEF TypeOK, Notice
    <3>2. EventOf(c) \in told \/ \E j \in dead : stream[j] = EventOf(c)
      BY <2>1, <3>1 DEF IInv, SentMeansTold, DeadRowInv
    <3> QED
      BY <1>4, <1>8, <2>1, <2>3, <3>2 DEF TakeUp
  <2> QED
    BY <2>2, <2>3
<1>9. CASE Send(c)
  BY <1>1, <1>4, <1>9 DEF Send, broker, HandleOf
<1>10. CASE MarkSent(c)
  BY <1>1, <1>4, <1>10 DEF MarkSent, broker, HandleOf
<1> QED
  BY <1>3, <1>5, <1>6, <1>7, <1>8, <1>9, <1>10 DEF Handle

(* What the broker gives a consumer that reads.                             *)
LEMMA ReadNewFacts ==
  ASSUME IInv, NEW c \in Consumer, ReadNew(c)
  PROVE  \E from \in 0 .. Len(stream), m \in Nat :
           /\ lastId \in 0 .. from /\ trimmed \in 0 .. from
           /\ from = lastId \/ from = trimmed
           /\ from + m \in from .. Len(stream)
           /\ lastId' = IF m = 0 THEN lastId ELSE from + m
           /\ pel' = [i \in Entry |-> IF i \in from + 1 .. from + m THEN 1 ELSE pel[i]]
           /\ work' = [work EXCEPT ![c] = work[c] \o InOrder(from + 1 .. from + m, pel')]
           /\ pc' = [pc EXCEPT ![c] = IF work'[c] = <<>> THEN "start" ELSE "handle"]
           /\ from + 1 .. from + m \subseteq DOMAIN stream
<1>1. TypeOK /\ lastId # NoGroup
  BY DEF IInv, ConsumerInv, WorkOf, ReadNew
<1>2. Len(stream) \in Nat /\ DOMAIN stream = 1 .. Len(stream)
  BY <1>1, StreamType
<1>3. lastId \in 0 .. Len(stream) /\ trimmed \in 0 .. Len(stream)
  BY <1>1 DEF TypeOK
<1> DEFINE from == IF trimmed > lastId THEN trimmed ELSE lastId
           X == {i \in DOMAIN stream : from < i /\ i <= from + Batch}
           m == Cardinality(X)
<1>4. /\ from \in 0 .. Len(stream) /\ lastId \in 0 .. from /\ trimmed \in 0 .. from
      /\ from = lastId \/ from = trimmed
  BY <1>2, <1>3
<1>5. /\ lastId' = IF X = {} THEN lastId ELSE from + m
      /\ pel' = [i \in Entry |-> IF i \in X THEN 1 ELSE pel[i]]
      /\ work' = [work EXCEPT ![c] = work[c] \o InOrder(X, pel')]
  BY DEF ReadNew
<1>6. pc' = [pc EXCEPT ![c] = IF work[c] \o InOrder(X, pel') = <<>> THEN "start" ELSE "handle"]
  BY DEF ReadNew, Goto
<1>7. work'[c] = work[c] \o InOrder(X, pel')
  BY <1>1, <1>5 DEF TypeOK
<1>8. X = {i \in 1 .. Len(stream) : from < i /\ i <= from + Batch}
  BY <1>2
<1> HIDE DEF from, X
<1>9. m \in Nat /\ from + m \in from .. Len(stream) /\ X = from + 1 .. from + m
  BY <1>2, <1>4, <1>8, NewEntries
<1>10. X = {} <=> m = 0
  <2>1. IsFiniteSet(X)
    BY <1>4, <1>9, FS_Interval
  <2> QED
    BY <2>1, FS_EmptySet
<1>11. X \subseteq DOMAIN stream
  BY DEF X
<1> HIDE DEF m
<1> QED
  BY <1>4, <1>5, <1>6, <1>7, <1>9, <1>10, <1>11, Zenon

(* What a claim strikes off the pending list, and what it delivers anew.    *)
LEMMA ClaimFacts ==
  ASSUME IInv, NEW c \in Consumer, Claim(c)
  PROVE  \E gone \in SUBSET (1 .. trimmed), X \in SUBSET DOMAIN stream :
           /\ pel' = [i \in Entry |-> IF i \in gone THEN NotPending
                                      ELSE IF i \in X THEN pel[i] + 1 ELSE pel[i]]
           /\ pel' \in [Entry -> Nat]
           /\ work' = [work EXCEPT ![c] = InOrder(X, pel')]
           /\ \A i \in X : i \notin gone /\ pel[i] # NotPending
<1> DEFINE listed == {work[c][k] : k \in DOMAIN work[c]}
           gone == {d.entry : d \in listed} \cap 1 .. trimmed
           X == {d.entry : d \in {d \in listed : pel[d.entry] = d.deliveries}} \ gone
<1>1. /\ pel' = [i \in Entry |-> IF i \in gone THEN NotPending
                                 ELSE IF i \in X THEN pel[i] + 1 ELSE pel[i]]
      /\ work' = [work EXCEPT ![c] = InOrder(X, pel')]
  BY DEF Claim
<1>2. \A i \in X : \E k \in DOMAIN work[c] : /\ work[c][k].entry = i
                                            /\ work[c][k].deliveries = pel[i]
  OBVIOUS
<1>3. X \in SUBSET DOMAIN stream /\ \A i \in X : i \notin gone /\ pel[i] # NotPending
  BY <1>2 DEF IInv, ConsumerInv, WorkOf, NotPending
<1>4. gone \in SUBSET (1 .. trimmed)
  OBVIOUS
<1> HIDE DEF gone, X
<1>5. pel' \in [Entry -> Nat]
  BY <1>1 DEF IInv, TypeOK, NotPending
<1> QED
  BY <1>1, <1>2, <1>3, <1>4, <1>5

(* The steps of run_once around the entries.                                *)
LEMMA RunOnceStep ==
  ASSUME IInv, NEW c \in Consumer,
         EnsureGroup(c) \/ ListPending(c) \/ Claim(c) \/ ReadNew(c) \/ Crash(c)
  PROVE  pc' \in PcType /\ work' \in [Consumer -> Seq(Delivery)] /\ WorkOf(c)' /\ HandleOf(c)'
<1> TypeOK
  BY DEF IInv
<1>1. CASE EnsureGroup(c)
  <2>1. pc[c] = "start"
    BY <1>1 DEF EnsureGroup, IInv, ConsumerInv, WorkOf, TypeOK
  <2> QED
    BY <1>1, <2>1 DEF EnsureGroup, IInv, ConsumerInv, WorkOf, HandleOf, TypeOK, PcType
<1>2. CASE ListPending(c)
  <2>1. PICK X \in SUBSET Pending :
          /\ work' = [work EXCEPT ![c] = InOrder(X, pel)]
          /\ Goto(c, IF X = {} THEN "read" ELSE "claim")
    BY <1>2 DEF ListPending
  <2>2. X \in SUBSET Entry /\ \A i \in X : i \in DOMAIN stream /\ pel[i] # 0
    BY DEF Pending, IInv, PendingInv, NotPending
  <2>3. /\ InOrder(X, pel) \in Seq(Delivery)
        /\ \A k \in DOMAIN InOrder(X, pel) :
             \E i \in X : InOrder(X, pel)[k].entry = i /\ InOrder(X, pel)[k].deliveries = pel[i]
    BY <2>2, InOrderType, Zenon DEF TypeOK
  <2>4. /\ work' \in [Consumer -> Seq(Delivery)] /\ work'[c] = InOrder(X, pel)
        /\ pc' \in PcType /\ pc'[c] \in {"read", "claim"}
    BY <2>1, <2>3 DEF TypeOK, PcType, Goto
  <2>5. UNCHANGED <<stream, lastId>> /\ lastId # NoGroup
    BY <1>2 DEF ListPending, broker
  <2> QED
    BY <2>2, <2>3, <2>4, <2>5 DEF WorkOf, HandleOf
<1>3. CASE Claim(c)
  <2>1. PICK gone \in SUBSET (1 .. trimmed), X \in SUBSET DOMAIN stream :
          /\ pel' = [i \in Entry |-> IF i \in gone THEN NotPending
                                     ELSE IF i \in X THEN pel[i] + 1 ELSE pel[i]]
          /\ pel' \in [Entry -> Nat]
          /\ work' = [work EXCEPT ![c] = InOrder(X, pel')]
          /\ \A i \in X : i \notin gone /\ pel[i] # NotPending
    BY <1>3, ClaimFacts
  <2>2. /\ InOrder(X, pel') \in Seq(Delivery)
        /\ \A k \in DOMAIN InOrder(X, pel') :
             \E i \in X : InOrder(X, pel')[k].entry = i /\ InOrder(X, pel')[k].deliveries = pel'[i]
    BY <2>1, InOrderType, StreamType, Zenon
  <2>5. \A i \in X : i \in DOMAIN stream /\ pel'[i] # 0
    BY <2>1, StreamType DEF TypeOK
  <2>3. work' \in [Consumer -> Seq(Delivery)] /\ work'[c] = InOrder(X, pel')
    BY <2>1, <2>2 DEF TypeOK
  <2>4. /\ pc' \in PcType /\ pc'[c] = "read"
        /\ UNCHANGED <<stream, lastId>> /\ lastId # NoGroup
    BY <1>3 DEF Claim, Goto, TypeOK, PcType, IInv, ConsumerInv, WorkOf
  <2> QED
    BY <2>2, <2>3, <2>4, <2>5 DEF WorkOf, HandleOf
<1>4. CASE ReadNew(c)
  <2>1. PICK from \in 0 .. Len(stream), m \in Nat :
          /\ from + m \in from .. Len(stream)
          /\ lastId' = IF m = 0 THEN lastId ELSE from + m
          /\ pel' = [i \in Entry |-> IF i \in from + 1 .. from + m THEN 1 ELSE pel[i]]
          /\ work' = [work EXCEPT ![c] = work[c] \o InOrder(from + 1 .. from + m, pel')]
          /\ pc' = [pc EXCEPT ![c] = IF work'[c] = <<>> THEN "start" ELSE "handle"]
          /\ from + 1 .. from + m \subseteq DOMAIN stream
    BY <1>4, ReadNewFacts, Zenon
  <2> DEFINE X == from + 1 .. from + m
             new == InOrder(X, pel')
  <2>2. pel' \in [Entry -> Nat]
    BY <2>1 DEF TypeOK
  <2>3. X \in SUBSET Entry /\ \A i \in X : pel'[i] = 1
    BY <2>1, StreamType
  <2> HIDE DEF X
  <2>4. /\ new \in Seq(Delivery)
        /\ \A k \in DOMAIN new : \E i \in X : new[k].entry = i /\ new[k].deliveries = pel'[i]
    BY <2>2, <2>3, InOrderType
  <2>5. work' = [work EXCEPT ![c] = work[c] \o new]
    BY <2>1 DEF X
  <2> HIDE DEF new
  <2>6. /\ work[c] \o new \in Seq(Delivery)
        /\ Len(work[c] \o new) = Len(work[c]) + Len(new)
        /\ \A k \in 1 .. Len(work[c]) : (work[c] \o new)[k] = work[c][k]
        /\ \A k \in 1 .. Len(new) : (work[c] \o new)[Len(work[c]) + k] = new[k]
    BY <2>4, ConcatProperties DEF TypeOK
  <2>7. /\ Len(work[c]) \in Nat /\ DOMAIN work[c] = 1 .. Len(work[c])
        /\ Len(new) \in Nat /\ DOMAIN new = 1 .. Len(new)
        /\ DOMAIN (work[c] \o new) = 1 .. Len(work[c]) + Len(new)
    BY <2>4, <2>6, LenProperties DEF TypeOK
  <2>8. \A k \in DOMAIN (work[c] \o new) : /\ (work[c] \o new)[k].entry \in DOMAIN stream
                                          /\ (work[c] \o new)[k].deliveries # 0
    <3> TAKE k \in DOMAIN (work[c] \o new)
    <3>1. work[c] \in Seq(Delivery)
      BY DEF IInv, TypeOK
    <3>2. CASE k \in DOMAIN work[c] /\ (work[c] \o new)[k] = work[c][k]
      BY <3>2 DEF IInv, ConsumerInv, WorkOf
    <3>3. CASE \E j \in DOMAIN new : (work[c] \o new)[k] = new[j]
      <4>1. PICK j \in DOMAIN new : (work[c] \o new)[k] = new[j]
        BY <3>3
      <4>2. PICK i \in X : new[j].entry = i /\ new[j].deliveries = pel'[i]
        BY <2>4
      <4>3. i \in DOMAIN stream /\ pel'[i] = 1
        BY <2>1, <2>3 DEF X
      <4> QED
        BY <4>1, <4>2, <4>3
    <3> QED
      BY <2>4, <3>1, <3>2, <3>3, Joined
  <2>9. /\ work' \in [Consumer -> Seq(Delivery)] /\ work'[c] = work[c] \o new
        /\ pc' \in PcType /\ pc'[c] \in {"start", "handle"}
        /\ pc'[c] = "handle" => work'[c] # <<>>
    <3>1. work' \in [Consumer -> Seq(Delivery)] /\ work'[c] = work[c] \o new
      BY <2>5, <2>6 DEF TypeOK
    <3> QED
      BY <2>1, <3>1, Zenon DEF TypeOK, PcType
  <2>10. UNCHANGED stream /\ lastId' # NoGroup
    <3>1. lastId # NoGroup
      BY <1>4 DEF ReadNew, IInv, ConsumerInv, WorkOf
    <3>2. from + m # NoGroup
      <4>1. from + m \in 0 .. Len(stream)
        BY <2>1, StreamType
      <4> QED
        BY <4>1, StreamType
    <3> QED
      BY <1>4, <2>1, <3>1, <3>2 DEF ReadNew
  <2> QED
    BY <2>8, <2>9, <2>10 DEF WorkOf, HandleOf
<1>5. CASE Crash(c)
  <2>1. /\ pc' \in PcType /\ pc'[c] = "start" /\ UNCHANGED <<stream, lastId>>
        /\ work' \in [Consumer -> Seq(Delivery)] /\ work'[c] = <<>>
    BY <1>5, EmptySeq DEF Crash, Goto, TypeOK, PcType, broker
  <2> QED
    BY <2>1 DEF WorkOf, HandleOf
<1> QED
  BY <1>1, <1>2, <1>3, <1>4, <1>5

(* Somebody else's step leaves what a consumer has in its hands valid.      *)
LEMMA ConsumerKept ==
  ASSUME IInv, [Next]_vars, NEW c \in Consumer, pc'[c] = pc[c], work'[c] = work[c],
         lastId # NoGroup => lastId' # NoGroup
  PROVE  WorkOf(c)' /\ HandleOf(c)'
<1>1. TypeOK /\ WorkOf(c) /\ HandleOf(c)
  BY DEF IInv, ConsumerInv
<1>2. /\ \A i \in DOMAIN stream : i \in DOMAIN stream' /\ stream'[i] = stream[i]
      /\ dead \subseteq dead' /\ told \subseteq told'
  BY <1>1, Grows
<1>3. WorkOf(c)'
  BY <1>1, <1>2 DEF WorkOf
<1>4. CASE work[c] = <<>>
  BY <1>1, <1>4 DEF WorkOf, HandleOf
<1>5. CASE work[c] # <<>>
  <2>1. EntryOf(c) \in DOMAIN stream
    BY <1>1, <1>5, HeadEntry
  <2>2. EntryOf(c)' = EntryOf(c)
    BY DEF EntryOf
  <2>3. EventOf(c)' = EventOf(c)
    BY <1>2, <2>1, <2>2 DEF EventOf
  <2>4. pc[c] = "ack" => Settled(EntryOf(c))'
    <3>1. PICK i : i = EntryOf(c)
      OBVIOUS
    <3>2. pc[c] = "ack" => Settled(i)'
      BY <1>1, <2>1, <3>1, SettledKept DEF HandleOf
    <3> QED
      BY <2>2, <3>1, <3>2 DEF Settled
  <2> QED
    BY <1>1, <1>2, <1>3, <2>2, <2>3, <2>4 DEF HandleOf
<1> QED
  BY <1>3, <1>4, <1>5

LEMMA GroupStays ==
  ASSUME IInv, [Next]_vars, lastId # NoGroup
  PROVE  lastId' # NoGroup
<1> TypeOK
  BY DEF IInv
<1>1. ASSUME NEW c \in Consumer, ReadNew(c) PROVE lastId' # NoGroup
  <2>1. PICK from \in 0 .. Len(stream), m \in Nat :
          /\ from + m \in from .. Len(stream)
          /\ lastId' = IF m = 0 THEN lastId ELSE from + m
    BY <1>1, ReadNewFacts
  <2>2. from + m \in 0 .. Len(stream)
    BY <2>1, StreamType
  <2> QED
    BY <2>1, <2>2, StreamType
<1>2. UNCHANGED lastId \/ \E c \in Consumer : ReadNew(c)
  BY Zenon DEF Next, Published, Arrives, Consuming, EnsureGroup, ListPending, Claim, Handle,
         DeadLetter, MarkDead, Ignore, TakeUp, Send, SendFails, MarkSent, Acknowledge, Crash,
         broker, vars
<1> QED
  BY <1>1, <1>2

LEMMA ConsumerStep ==
  ASSUME IInv, [Next]_vars
  PROVE  ConsumerInv' /\ pc' \in PcType /\ work' \in [Consumer -> Seq(Delivery)]
<1> TypeOK
  BY DEF IInv
<1>1. CASE UNCHANGED <<pc, work>>
  <2>1. pc' \in PcType /\ work' \in [Consumer -> Seq(Delivery)]
    BY <1>1 DEF TypeOK, PcType
  <2> QED
    BY <1>1, <2>1, ConsumerKept, GroupStays DEF ConsumerInv
<1>2. ASSUME NEW c \in Consumer, Acts(c)
      PROVE  ConsumerInv' /\ pc' \in PcType /\ work' \in [Consumer -> Seq(Delivery)]
  <2>1. pc' \in PcType /\ work' \in [Consumer -> Seq(Delivery)] /\ WorkOf(c)' /\ HandleOf(c)'
    BY <1>2, RunOnceStep, HandleStep DEF Acts, Consuming
  <2>2. ASSUME NEW d \in Consumer \ {c} PROVE WorkOf(d)' /\ HandleOf(d)'
    BY <1>2, <2>2, OthersStay, ConsumerKept, GroupStays
  <2> QED
    BY <2>1, <2>2 DEF ConsumerInv
<1>3. UNCHANGED <<pc, work>> \/ \E c \in Consumer : Acts(c)
  BY DEF Next, Published, Arrives, Acts, vars
<1> QED
  BY <1>1, <1>2, <1>3

(* What Published does to the stream.                                       *)
LEMMA PublishedFacts ==
  ASSUME TypeOK, NEW x \in Event \cup {Garbage}, Published(x)
  PROVE  /\ stream' \in Seq(Event \cup {Garbage})
         /\ Len(stream') = Len(stream) + 1 /\ Len(stream') <= MaxEntries
         /\ DOMAIN stream' = DOMAIN stream \cup {Len(stream) + 1}
         /\ trimmed' \in 0 .. Len(stream')
         /\ UNCHANGED <<lastId, pel, dead, notices, told, pc, work, faults>>
<1>1. /\ Len(stream) < MaxEntries /\ stream' = Append(stream, x)
      /\ trimmed' \in {trimmed} \cup trimmed .. (Len(stream) + 1 - MaxLen)
      /\ UNCHANGED <<lastId, pel, dead, notices, told, pc, work, faults>>
  BY DEF Published, Arrives
<1>2. Len(stream) \in Nat /\ DOMAIN stream = 1 .. Len(stream)
  BY StreamType
<1>3. stream' \in Seq(Event \cup {Garbage}) /\ Len(stream') = Len(stream) + 1
  BY <1>1, AppendProperties DEF TypeOK
<1>4. DOMAIN stream' = 1 .. Len(stream) + 1
  BY <1>3, LenProperties
<1>5. Len(stream') <= MaxEntries
  BY <1>1, <1>2, <1>3, NotifierConsumerAssumption
<1>6. trimmed' \in 0 .. Len(stream')
  <2>1. trimmed \in 0 .. Len(stream) /\ MaxLen \in Nat \ {0}
    BY NotifierConsumerAssumption DEF TypeOK
  <2>2. \/ trimmed' = trimmed
        \/ trimmed' \in trimmed .. (Len(stream) + 1 - MaxLen)
    BY <1>1
  <2> HIDE <1>1
  <2> QED
    BY <1>2, <1>3, <2>1, <2>2
<1> QED
  BY <1>1, <1>2, <1>3, <1>4, <1>5, <1>6

BrokerOK ==
  /\ stream \in Seq(Event \cup {Garbage}) /\ Len(stream) <= MaxEntries
  /\ trimmed \in 0 .. Len(stream)
  /\ lastId \in (0 .. Len(stream)) \cup {NoGroup}
  /\ pel \in [Entry -> Nat]
  /\ PendingInv

LEMMA BrokerStep ==
  ASSUME IInv, [Next]_vars
  PROVE  BrokerOK'
<1> TypeOK /\ PendingInv
  BY DEF IInv
<1>1. ASSUME NEW x \in Event \cup {Garbage}, Published(x) PROVE BrokerOK'
  <2>1. /\ stream' \in Seq(Event \cup {Garbage})
        /\ Len(stream') = Len(stream) + 1 /\ Len(stream') <= MaxEntries
        /\ DOMAIN stream \subseteq DOMAIN stream'
        /\ trimmed' \in 0 .. Len(stream')
        /\ UNCHANGED <<lastId, pel>>
    BY <1>1, PublishedFacts
  <2>2. lastId' \in (0 .. Len(stream')) \cup {NoGroup}
    BY <2>1, StreamType DEF TypeOK
  <2> QED
    BY <2>1, <2>2 DEF BrokerOK, PendingInv, TypeOK
<1>2. CASE UNCHANGED <<stream, trimmed, lastId, pel>>
  BY <1>2 DEF BrokerOK, PendingInv, TypeOK
<1>3. ASSUME NEW c \in Consumer, EnsureGroup(c) PROVE BrokerOK'
  <2>1. lastId' = 0 /\ lastId = NoGroup /\ UNCHANGED <<stream, trimmed, pel>>
    BY <1>3 DEF EnsureGroup
  <2>2. \A i \in Entry : pel'[i] = NotPending
    BY <2>1 DEF PendingInv
  <2> QED
    BY <2>1, <2>2, StreamType DEF BrokerOK, PendingInv, TypeOK
<1>4. ASSUME NEW c \in Consumer, Claim(c) PROVE BrokerOK'
  <2>1. PICK gone \in SUBSET (1 .. trimmed), X \in SUBSET DOMAIN stream :
          /\ pel' = [i \in Entry |-> IF i \in gone THEN NotPending
                                     ELSE IF i \in X THEN pel[i] + 1 ELSE pel[i]]
          /\ pel' \in [Entry -> Nat]
          /\ \A i \in X : i \notin gone /\ pel[i] # NotPending
    BY <1>4, ClaimFacts
  <2>2. UNCHANGED <<stream, trimmed, lastId>>
    BY <1>4 DEF Claim
  <2>3. \A i \in Entry : pel'[i] # NotPending => pel[i] # NotPending
    BY <2>1
  <2> QED
    BY <2>1, <2>2, <2>3 DEF BrokerOK, PendingInv, TypeOK
<1>5. ASSUME NEW c \in Consumer, ReadNew(c) PROVE BrokerOK'
  <2>1. PICK from \in 0 .. Len(stream), m \in Nat :
           /\ lastId \in 0 .. from
           /\ from + m \in from .. Len(stream)
           /\ lastId' = IF m = 0 THEN lastId ELSE from + m
           /\ pel' = [i \in Entry |-> IF i \in from + 1 .. from + m THEN 1 ELSE pel[i]]
           /\ from + 1 .. from + m \subseteq DOMAIN stream
    BY <1>5, ReadNewFacts, Zenon
  <2>2. UNCHANGED <<stream, trimmed>>
    BY <1>5 DEF ReadNew
  <2>3. Len(stream) \in Nat
    BY StreamType
  <2>4. lastId' \in 0 .. Len(stream) /\ lastId <= lastId'
    BY <2>1, <2>3
  <2>5. pel' \in [Entry -> Nat]
    BY <2>1 DEF TypeOK
  <2>6. ASSUME NEW i \in Entry, pel'[i] # NotPending
        PROVE  i \in DOMAIN stream /\ i <= lastId'
    <3>1. i \in Nat
      BY StreamType
    <3>2. CASE i \in from + 1 .. from + m
      BY <2>1, <2>3, <3>1, <3>2
    <3>3. CASE i \notin from + 1 .. from + m
      <4>1. i \in DOMAIN stream /\ i <= lastId
        BY <2>1, <2>6, <3>3 DEF PendingInv
      <4> QED
        BY <2>1, <2>4, <3>1, <4>1
    <3> QED
      BY <3>2, <3>3
  <2>7. lastId' # NoGroup
    BY <2>4, StreamType
  <2> QED
    BY <2>2, <2>4, <2>5, <2>6, <2>7 DEF BrokerOK, PendingInv, TypeOK
<1>6. ASSUME NEW c \in Consumer, Acknowledge(c) PROVE BrokerOK'
  <2>1. pel' = [pel EXCEPT ![EntryOf(c)] = NotPending] /\ UNCHANGED <<stream, trimmed, lastId>>
    BY <1>6 DEF Acknowledge
  <2>2. pel' \in [Entry -> Nat] /\ \A i \in Entry : pel'[i] # NotPending => pel[i] # NotPending
    BY <2>1 DEF TypeOK, NotPending
  <2> QED
    BY <2>1, <2>2 DEF BrokerOK, PendingInv, TypeOK
<1>7. \/ \E x \in Event \cup {Garbage} : Published(x)
      \/ UNCHANGED <<stream, trimmed, lastId, pel>>
      \/ \E c \in Consumer : EnsureGroup(c) \/ Claim(c) \/ ReadNew(c) \/ Acknowledge(c)
  BY DEF Next, Consuming, ListPending, Handle, DeadLetter, MarkDead, Ignore, TakeUp, Send,
         SendFails, MarkSent, Crash, broker, vars
<1> QED
  BY <1>1, <1>2, <1>3, <1>4, <1>5, <1>6, <1>7

(* The rest of the types.                                                   *)
LEMMA TypeStep ==
  ASSUME IInv, [Next]_vars
  PROVE  TypeOK'
<1> TypeOK /\ ConsumerInv
  BY DEF IInv
<1>1. BrokerOK'
  BY BrokerStep
<1>2. pc' \in PcType /\ work' \in [Consumer -> Seq(Delivery)]
  BY ConsumerStep
<1>3. dead' \subseteq DOMAIN stream'
  <2>1. \A i \in DOMAIN stream : i \in DOMAIN stream'
    BY Grows
  <2>2. ASSUME NEW c \in Consumer, DeadLetter(c) PROVE dead' \subseteq DOMAIN stream
    <3>1. WorkOf(c) /\ work[c] # <<>> /\ dead' = dead \cup {EntryOf(c)}
      BY <2>2 DEF DeadLetter, ConsumerInv, WorkOf
    <3> QED
      BY <3>1, HeadEntry DEF TypeOK
  <2>3. dead' = dead \/ \E c \in Consumer : DeadLetter(c)
    BY Zenon DEF Next, Published, Arrives, Consuming, EnsureGroup, ListPending, Claim, ReadNew, Handle,
           MarkDead, Ignore, TakeUp, Send, SendFails, MarkSent, Acknowledge, Crash, broker, vars
  <2> QED
    BY <2>1, <2>2, <2>3 DEF TypeOK
<1>4. notices' \in [Event -> Notice]
  <2>1. \/ UNCHANGED notices
        \/ \E c \in Consumer : MarkDead(c) \/ TakeUp(c) \/ MarkSent(c)
    BY Zenon DEF Next, Published, Arrives, Consuming, EnsureGroup, ListPending, Claim, ReadNew, Handle,
           DeadLetter, Ignore, Send, SendFails, Acknowledge, Crash, vars
  <2>2. ASSUME NEW c \in Consumer, MarkDead(c) \/ TakeUp(c) \/ MarkSent(c)
        PROVE  notices' \in [Event -> Notice]
    BY <2>2, Zenon DEF MarkDead, TakeUp, MarkSent, TypeOK, Notice
  <2> QED
    BY <2>1, <2>2 DEF TypeOK
<1>5. told' \subseteq Event
  <2>1. ASSUME NEW c \in Consumer, Send(c) \/ SendFails(c) PROVE told' \subseteq Event
    <3>1. EventOf(c) \in Event
      BY <2>1 DEF Send, SendFails, ConsumerInv, HandleOf
    <3> QED
      BY <2>1, <3>1 DEF Send, SendFails, TypeOK
  <2>2. UNCHANGED told \/ \E c \in Consumer : Send(c) \/ SendFails(c)
    BY Zenon DEF Next, Published, Arrives, Consuming, EnsureGroup, ListPending, Claim, ReadNew, Handle,
           DeadLetter, MarkDead, Ignore, TakeUp, MarkSent, Acknowledge, Crash, vars
  <2> QED
    BY <2>1, <2>2 DEF TypeOK
<1>6. faults' \in 0 .. MaxFaults
  <2>1. ASSUME NEW c \in Consumer, Crash(c) PROVE faults' \in 0 .. MaxFaults
    BY <2>1, NotifierConsumerAssumption DEF Crash, TypeOK
  <2>2. UNCHANGED faults \/ \E c \in Consumer : Crash(c)
    BY Zenon DEF Next, Published, Arrives, Consuming, EnsureGroup, ListPending, Claim, ReadNew, Handle,
           DeadLetter, MarkDead, Ignore, TakeUp, Send, SendFails, MarkSent, Acknowledge, vars
  <2> QED
    BY <2>1, <2>2 DEF TypeOK
<1> QED
  BY <1>1, <1>2, <1>3, <1>4, <1>5, <1>6 DEF TypeOK, BrokerOK, PendingInv, PcType

(* A row that says `dead` has a buried entry.                               *)
LEMMA DeadRowStep ==
  ASSUME IInv, [Next]_vars
  PROVE  DeadRowInv'
<1> TypeOK /\ ConsumerInv /\ DeadRowInv
  BY DEF IInv
<1>1. ASSUME NEW e \in Event, \E j \in dead : stream[j] = e
      PROVE  \E j \in dead' : stream'[j] = e
  <2>1. PICK j \in dead : stream[j] = e
    BY <1>1
  <2> QED
    BY <2>1, Grows DEF TypeOK
<1>2. ASSUME NEW e \in Event, notices'[e] = "dead"
      PROVE  \E j \in dead : stream[j] = e
  <2>1. CASE UNCHANGED notices
    BY <1>2, <2>1 DEF DeadRowInv
  <2>2. ASSUME NEW c \in Consumer, MarkDead(c) PROVE \E j \in dead : stream[j] = e
    <3>1. /\ notices' = [notices EXCEPT ![EventOf(c)] = IF @ = "none" THEN @ ELSE "dead"]
          /\ EntryOf(c) \in dead
      BY <2>2 DEF MarkDead, ConsumerInv, HandleOf
    <3>2. CASE e = EventOf(c)
      BY <3>1, <3>2 DEF EventOf
    <3>3. CASE e # EventOf(c)
      BY <1>2, <3>1, <3>3 DEF DeadRowInv, TypeOK
    <3> QED
      BY <3>2, <3>3
  <2>3. ASSUME NEW c \in Consumer, TakeUp(c) \/ MarkSent(c) PROVE notices[e] = "dead"
    BY <1>2, <2>3 DEF TakeUp, MarkSent, TypeOK
  <2>4. \/ UNCHANGED notices
        \/ \E c \in Consumer : MarkDead(c) \/ TakeUp(c) \/ MarkSent(c)
    BY Zenon DEF Next, Published, Arrives, Consuming, EnsureGroup, ListPending, Claim, ReadNew, Handle,
           DeadLetter, Ignore, Send, SendFails, Acknowledge, Crash, vars
  <2> QED
    BY <2>1, <2>2, <2>3, <2>4 DEF DeadRowInv
<1> QED
  BY <1>1, <1>2 DEF DeadRowInv

(* A row says `sent` only after the gateway has accepted.                   *)
LEMMA SentStep ==
  ASSUME IInv, [Next]_vars
  PROVE  SentMeansTold'
<1> TypeOK /\ ConsumerInv /\ SentMeansTold
  BY DEF IInv
<1>1. told \subseteq told'
  BY Grows
<1>2. ASSUME NEW e \in Event, notices'[e] = "sent" PROVE e \in told
  <2>1. ASSUME NEW c \in Consumer, MarkDead(c) \/ TakeUp(c) PROVE notices[e] = "sent"
    BY <1>2, <2>1 DEF MarkDead, TakeUp, TypeOK
  <2>2. ASSUME NEW c \in Consumer, MarkSent(c) PROVE e \in told
    <3>1. notices' = [notices EXCEPT ![EventOf(c)] = "sent"] /\ EventOf(c) \in told
      BY <2>2 DEF MarkSent, ConsumerInv, HandleOf
    <3> QED
      BY <1>2, <3>1 DEF SentMeansTold, TypeOK
  <2>3. \/ UNCHANGED notices
        \/ \E c \in Consumer : MarkDead(c) \/ TakeUp(c) \/ MarkSent(c)
    BY Zenon DEF Next, Published, Arrives, Consuming, EnsureGroup, ListPending, Claim, ReadNew, Handle,
           DeadLetter, Ignore, Send, SendFails, Acknowledge, Crash, vars
  <2> QED
    BY <1>2, <2>1, <2>2, <2>3 DEF SentMeansTold
<1> QED
  BY <1>1, <1>2 DEF SentMeansTold

(* An entry that leaves the pending list, or that the group passes over, is *)
(* settled or has been dropped.                                             *)
LEMMA AcknowledgedStep ==
  ASSUME IInv, [Next]_vars
  PROVE  AcknowledgedIsSettled'
<1> TypeOK /\ ConsumerInv /\ PendingInv
  BY DEF IInv
<1>1. \A i \in DOMAIN stream : Acknowledged(i) => Settled(i)
  BY DEF IInv, AcknowledgedIsSettled, Settled
<1>2. ASSUME NEW a \in DOMAIN stream, Acknowledged(a)' PROVE Settled(a)
  <2>1. a \in Entry /\ a \in Nat \ {0}
    BY StreamType
  <2>2. CASE UNCHANGED <<lastId, pel>>
    BY <1>1, <1>2, <2>2 DEF Acknowledged
  <2>3. ASSUME NEW c \in Consumer, EnsureGroup(c) PROVE FALSE
    BY <1>2, <2>1, <2>3 DEF EnsureGroup, Acknowledged
  <2>4. ASSUME NEW c \in Consumer, Claim(c) PROVE Settled(a)
    <3>1. PICK gone \in SUBSET (1 .. trimmed), X \in SUBSET DOMAIN stream :
            /\ pel' = [i \in Entry |-> IF i \in gone THEN NotPending
                                       ELSE IF i \in X THEN pel[i] + 1 ELSE pel[i]]
            /\ \A i \in X : i \notin gone /\ pel[i] # NotPending
      BY <2>4, ClaimFacts
    <3>2. UNCHANGED lastId /\ pel[a] \in Nat
      BY <2>1, <2>4 DEF Claim, TypeOK
    <3>3. CASE a \in gone
      BY <3>3, Zenon DEF Settled
    <3>4. CASE a \notin gone
      BY <1>1, <1>2, <2>1, <3>1, <3>2, <3>4 DEF Acknowledged, NotPending
    <3> QED
      BY <3>3, <3>4
  <2>5. ASSUME NEW c \in Consumer, ReadNew(c) PROVE Settled(a)
    <3>1. PICK from \in 0 .. Len(stream), m \in Nat :
             /\ lastId \in 0 .. from /\ trimmed \in 0 .. from
             /\ from = lastId \/ from = trimmed
             /\ from + m \in from .. Len(stream)
             /\ lastId' = IF m = 0 THEN lastId ELSE from + m
             /\ pel' = [i \in Entry |-> IF i \in from + 1 .. from + m THEN 1 ELSE pel[i]]
             /\ from + 1 .. from + m \subseteq DOMAIN stream
      BY <2>5, ReadNewFacts, Zenon
    <3>2. a \notin from + 1 .. from + m /\ pel[a] = NotPending
      BY <1>2, <2>1, <3>1 DEF Acknowledged, NotPending
    <3>3. lastId # NoGroup
      BY <2>5 DEF ReadNew, ConsumerInv, WorkOf
    <3>4. CASE a <= lastId
      BY <1>1, <3>2, <3>3, <3>4 DEF Acknowledged
    <3>5. CASE ~(a <= lastId)
      <4>1. a <= lastId'
        BY <1>2 DEF Acknowledged
      <4>2. a <= from
        BY <2>1, <3>1, <3>2, <3>5, <4>1
      <4>3. from = trimmed
        BY <3>1, <3>5, <4>2
      <4>4. a \in 1 .. trimmed
        BY <2>1, <3>1, <4>2, <4>3
      <4> QED
        BY <4>4 DEF Settled
    <3> QED
      BY <3>4, <3>5
  <2>6. ASSUME NEW c \in Consumer, Acknowledge(c) PROVE Settled(a)
    <3>1. /\ pel' = [pel EXCEPT ![EntryOf(c)] = NotPending]
          /\ UNCHANGED lastId
          /\ Settled(EntryOf(c))
      BY <2>6 DEF Acknowledge, ConsumerInv, HandleOf
    <3>2. CASE a = EntryOf(c)
      BY <3>1, <3>2
    <3>3. CASE a # EntryOf(c)
      BY <1>1, <1>2, <2>1, <3>1, <3>3 DEF Acknowledged, TypeOK
    <3> QED
      BY <3>2, <3>3
  <2>7. \/ UNCHANGED <<lastId, pel>>
        \/ \E c \in Consumer : EnsureGroup(c) \/ Claim(c) \/ ReadNew(c) \/ Acknowledge(c)
    BY DEF Next, Published, Arrives, Consuming, ListPending, Handle, DeadLetter, MarkDead,
           Ignore, TakeUp, Send, SendFails, MarkSent, Crash, broker, vars
  <2> QED
    BY <2>2, <2>3, <2>4, <2>5, <2>6, <2>7
<1>3. ASSUME NEW i \in DOMAIN stream', i \notin DOMAIN stream PROVE ~Acknowledged(i)'
  <2>1. CASE UNCHANGED stream
    BY <1>3, <2>1
  <2>2. ASSUME NEW x \in Event \cup {Garbage}, Published(x) PROVE ~Acknowledged(i)'
    <3>1. i = Len(stream) + 1 /\ UNCHANGED lastId
      BY <1>3, <2>2, PublishedFacts
    <3>2. lastId # NoGroup => lastId \in 0 .. Len(stream)
      BY DEF TypeOK
    <3>3. Len(stream) \in Nat
      BY StreamType
    <3> QED
      BY <3>1, <3>2, <3>3 DEF Acknowledged
  <2>3. UNCHANGED stream \/ \E x \in Event \cup {Garbage} : Published(x)
    BY Zenon DEF Next, Consuming, EnsureGroup, ListPending, Claim, ReadNew, Handle, DeadLetter, MarkDead,
           Ignore, TakeUp, Send, SendFails, MarkSent, Acknowledge, Crash, broker, vars
  <2> QED
    BY <2>1, <2>2, <2>3
<1>4. ASSUME NEW i \in DOMAIN stream', Acknowledged(i)' PROVE Settled(i)'
  BY <1>2, <1>3, <1>4, SettledKept
<1> QED
  BY <1>4 DEF AcknowledgedIsSettled, Settled

LEMMA InitIInv == Init => IInv
<1> SUFFICES ASSUME Init PROVE IInv
  OBVIOUS
<1>1. /\ stream = <<>> /\ trimmed = 0 /\ lastId = NoGroup /\ dead = {} /\ told = {} /\ faults = 0
      /\ pel = [i \in Entry |-> NotPending] /\ notices = [e \in Event |-> "none"]
      /\ pc = [c \in Consumer |-> "start"] /\ work = [c \in Consumer |-> <<>>]
  BY DEF Init
<1>2. Len(stream) = 0 /\ DOMAIN stream = {}
  BY <1>1
<1>3. TypeOK
  BY <1>1, <1>2, NotifierConsumerAssumption DEF TypeOK, Notice, NotPending
<1>4. ConsumerInv /\ PendingInv
  BY <1>1 DEF ConsumerInv, WorkOf, HandleOf, PendingInv
<1>5. DeadRowInv /\ SentMeansTold /\ AcknowledgedIsSettled
  BY <1>1, <1>2 DEF DeadRowInv, SentMeansTold, AcknowledgedIsSettled
<1> QED
  BY <1>3, <1>4, <1>5 DEF IInv

LEMMA NextIInv == IInv /\ [Next]_vars => IInv'
  BY BrokerStep, TypeStep, ConsumerStep, DeadRowStep, SentStep, AcknowledgedStep
     DEF IInv, BrokerOK

-----------------------------------------------------------------------------
(* The theorems. *)

(* The invariant of the consumers, with any number of them, in any order of *)
(* their steps and with any number of deaths.                               *)
THEOREM Invariance == Spec => []IInv
  BY InitIInv, NextIInv, PTL DEF Spec

(* Every variable keeps its type.                                           *)
THEOREM TypeCorrect == Spec => []TypeOK
<1>1. IInv => TypeOK
  BY DEF IInv
<1> QED
  BY <1>1, Invariance, PTL

(* "A crash means a repeat, never a silent loss": XACK comes last in        *)
(* _handle, so that whatever has left the pending list was told to the      *)
(* client, was buried, needed no text, or had been dropped by the broker.   *)
THEOREM NothingSilentlyLost == Spec => []AcknowledgedIsSettled
<1>1. IInv => AcknowledgedIsSettled
  BY DEF IInv
<1> QED
  BY <1>1, Invariance, PTL

(* "Was the client told?": the UPDATE that writes `sent` runs after the     *)
(* gateway's answer and on the row of the event that was sent, also when    *)
(* another consumer has claimed the entry meanwhile.                        *)
THEOREM SentIsTrue == Spec => []SentMeansTold
<1>1. IInv => SentMeansTold
  BY DEF IInv
<1> QED
  BY <1>1, Invariance, PTL
=============================================================================
