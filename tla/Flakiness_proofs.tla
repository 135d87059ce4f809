-------------------------- MODULE Flakiness_proofs --------------------------
(***************************************************************************)
(* Proofs about Flakiness.  What a verdict looks at is a suffix of the     *)
(* runs that said something, taken in order; the proofs count how many of  *)
(* these lie before and after a given run.                                 *)
(***************************************************************************)
EXTENDS Flakiness, SequenceTheorems, FiniteSetTheorems, TLAPS

-----------------------------------------------------------------------------
(* Places in a finite set of numbers. *)

Rank(X, i) == Cardinality({j \in X : j < i})

Above(X, i) == {j \in X : j > i}

(* An element is as far up as it has others below it, and the rest of the   *)
(* set lies above it.                                                       *)
LEMMA RankCounts ==
  ASSUME NEW X \in SUBSET Nat, IsFiniteSet(X), NEW i \in X
  PROVE  /\ Cardinality(X) \in Nat
         /\ Rank(X, i) \in 0 .. Cardinality(X) - 1
         /\ IsFiniteSet(Above(X, i))
         /\ Cardinality(Above(X, i)) = Cardinality(X) - Rank(X, i) - 1
<1> DEFINE B == {j \in X : j < i}
           A == {j \in X : j > i}
<1>1. B \subseteq X /\ A \subseteq X /\ i \notin B /\ i \notin A
  OBVIOUS
<1>2. B \cap A = {}
  <2>1. \A j \in X : ~(j < i /\ j > i)
    OBVIOUS
  <2> QED
    BY <2>1
<1>3. X = (B \cup {i}) \cup A
  <2>1. \A j \in X : j < i \/ j = i \/ j > i
    OBVIOUS
  <2> QED
    BY <2>1
<1> HIDE DEF A, B
<1>4. /\ IsFiniteSet(A) /\ Cardinality(A) \in Nat
      /\ IsFiniteSet(B) /\ Cardinality(B) \in Nat
      /\ Cardinality(X) \in Nat
  BY <1>1, FS_Subset, FS_CardinalityType
<1>5. IsFiniteSet(B \cup {i}) /\ Cardinality(B \cup {i}) = Cardinality(B) + 1
  BY <1>1, <1>4, FS_AddElement
<1>6. (B \cup {i}) \cap A = {}
  BY <1>1, <1>2
<1>7. Cardinality((B \cup {i}) \cap A) = 0
  BY <1>6, FS_EmptySet
<1>8. Cardinality((B \cup {i}) \cup A)
        = Cardinality(B \cup {i}) + Cardinality(A) - Cardinality((B \cup {i}) \cap A)
  BY <1>4, <1>5, FS_Union
<1>9. Cardinality(X) = Cardinality(B) + 1 + Cardinality(A)
  BY <1>3, <1>4, <1>5, <1>7, <1>8
<1> QED
  BY <1>4, <1>9 DEF Rank, Above, A, B

(* Two elements are never at the same place.                                *)
LEMMA RankGrows ==
  ASSUME NEW X \in SUBSET Nat, IsFiniteSet(X), NEW i \in X, NEW j \in X, i < j
  PROVE  Rank(X, i) < Rank(X, j)
<1> DEFINE B(l) == {h \in X : h < l}
<1>1. B(i) \subseteq B(j)
  <2>1. \A h \in X : h < i => h < j
    OBVIOUS
  <2> QED
    BY <2>1
<1>2. i \in B(j) /\ i \notin B(i) /\ B(i) \subseteq X /\ B(j) \subseteq X
  OBVIOUS
<1> HIDE DEF B
<1>3. IsFiniteSet(B(j)) /\ IsFiniteSet(B(i))
  BY <1>2, FS_Subset
<1>4. Cardinality(B(i)) \in Nat /\ Cardinality(B(j)) \in Nat
  BY <1>3, FS_CardinalityType
<1>5. B(i) # B(j)
  BY <1>2
<1>6. Cardinality(B(i)) <= Cardinality(B(j)) /\ Cardinality(B(i)) # Cardinality(B(j))
  BY <1>1, <1>3, <1>5, FS_Subset
<1> QED
  BY <1>4, <1>6 DEF Rank, B

(* Every place is taken.                                                    *)
LEMMA PlaceTaken ==
  ASSUME NEW X \in SUBSET Nat, IsFiniteSet(X), NEW k \in 1 .. Cardinality(X)
  PROVE  \E i \in X : Rank(X, i) = k - 1
<1> DEFINE n == Cardinality(X)
           rank == [i \in X |-> Rank(X, i)]
<1>1. n \in Nat
  BY FS_CardinalityType
<1>2. IsFiniteSet(0 .. n - 1) /\ Cardinality(0 .. n - 1) = n
  <2> HIDE DEF n
  <2>1. 0 \in Int /\ n - 1 \in Int
    BY <1>1
  <2>2. /\ IsFiniteSet(0 .. n - 1)
        /\ Cardinality(0 .. n - 1) = IF 0 > n - 1 THEN 0 ELSE (n - 1) - 0 + 1
    BY <2>1, FS_Interval
  <2> QED
    BY <1>1, <2>2
<1>3. rank \in [X -> 0 .. n - 1]
  BY RankCounts
<1>4. \A i, j \in X : i # j => rank[i] # rank[j]
  <2> SUFFICES ASSUME NEW i \in X, NEW j \in X, i # j
               PROVE  Rank(X, i) # Rank(X, j)
    OBVIOUS
  <2>1. Rank(X, i) \in Nat /\ Rank(X, j) \in Nat
    BY RankCounts
  <2>2. i < j \/ j < i
    OBVIOUS
  <2> QED
    BY <2>1, <2>2, RankGrows
<1>5. rank \in Injection(X, 0 .. n - 1)
  BY <1>3, <1>4 DEF Injection, IsInjective
<1> HIDE DEF n
<1>6. rank \in Surjection(X, 0 .. n - 1)
  <2> HIDE DEF rank
  <2> QED
    BY <1>2, <1>5, FS_Injection DEF n
<1>7. k - 1 \in 0 .. n - 1
  BY <1>1 DEF n
<1>8. PICK i \in X : rank[i] = k - 1
  BY <1>6, <1>7 DEF Surjection
<1> QED
  BY <1>8

(* Nth counts up the set, and reaches all of it.                            *)
LEMMA NthInOrder ==
  ASSUME NEW X \in SUBSET Nat, IsFiniteSet(X)
  PROVE  /\ \A k \in 1 .. Cardinality(X) : Nth(X, k) \in X /\ Rank(X, Nth(X, k)) = k - 1
         /\ \A i \in X : /\ Rank(X, i) + 1 \in 1 .. Cardinality(X)
                         /\ Nth(X, Rank(X, i) + 1) = i
<1>1. ASSUME NEW k \in 1 .. Cardinality(X)
      PROVE  Nth(X, k) \in X /\ Rank(X, Nth(X, k)) = k - 1
  <2>1. \E i \in X : Cardinality({j \in X : j < i}) = k - 1
    BY PlaceTaken DEF Rank
  <2> QED
    BY <2>1 DEF Nth, Rank
<1>2. ASSUME NEW i \in X
      PROVE  Rank(X, i) + 1 \in 1 .. Cardinality(X) /\ Nth(X, Rank(X, i) + 1) = i
  <2>1. Cardinality(X) \in Nat /\ Rank(X, i) \in 0 .. Cardinality(X) - 1
    BY RankCounts
  <2>2. PICK k \in 1 .. Cardinality(X) : k = Rank(X, i) + 1
    BY <2>1
  <2>3. Nth(X, k) \in X /\ Rank(X, Nth(X, k)) = k - 1
    BY <1>1
  <2>4. Rank(X, Nth(X, k)) = Rank(X, i)
    BY <2>1, <2>2, <2>3
  <2>5. PICK j \in X : j = Nth(X, k)
    BY <2>3
  <2>6. i = j \/ i < j \/ j < i
    OBVIOUS
  <2>7. ~(i < j) /\ ~(j < i)
    BY <2>1, <2>4, <2>5, RankGrows
  <2> QED
    BY <2>2, <2>5, <2>6, <2>7
<1> QED
  BY <1>1, <1>2

-----------------------------------------------------------------------------
(* The runs a verdict looks at. *)

LEMMA SaidType ==
  ASSUME NEW h \in Seq(CaseRun)
  PROVE  /\ Said(h) \in SUBSET Nat /\ Said(h) \subseteq 1 .. Len(h)
         /\ IsFiniteSet(Said(h)) /\ Cardinality(Said(h)) \in Nat
         /\ Len(h) \in Nat /\ DOMAIN h = 1 .. Len(h)
<1>1. Len(h) \in Nat /\ DOMAIN h = 1 .. Len(h)
  BY LenProperties
<1>2. Said(h) \subseteq 1 .. Len(h)
  BY <1>1 DEF Said
<1>3. IsFiniteSet(1 .. Len(h))
  BY <1>1, FS_Interval
<1> QED
  BY <1>1, <1>2, <1>3, FS_Subset, FS_CardinalityType

(* Conclusive keeps the runs that said something, all of them, in order.    *)
LEMMA ConclusiveRuns ==
  ASSUME NEW h \in Seq(CaseRun)
  PROVE  /\ Conclusive(h) \in Seq(CaseRun)
         /\ Len(Conclusive(h)) = Cardinality(Said(h))
         /\ DOMAIN Conclusive(h) = 1 .. Cardinality(Said(h))
         /\ \A k \in 1 .. Cardinality(Said(h)) :
              /\ Nth(Said(h), k) \in Said(h)
              /\ Rank(Said(h), Nth(Said(h), k)) = k - 1
              /\ Conclusive(h)[k] = h[Nth(Said(h), k)]
         /\ \A i \in Said(h) : /\ Rank(Said(h), i) + 1 \in 1 .. Cardinality(Said(h))
                               /\ Conclusive(h)[Rank(Said(h), i) + 1] = h[i]
<1> DEFINE X == Said(h)
           n == Cardinality(X)
<1>1. /\ X \in SUBSET Nat /\ IsFiniteSet(X) /\ n \in Nat
      /\ \A i \in X : h[i] \in CaseRun
  <2>1. \A i \in 1 .. Len(h) : h[i] \in CaseRun
    BY ElementOfSeq
  <2> QED
    BY <2>1, SaidType
<1>2. /\ \A k \in 1 .. n : Nth(X, k) \in X /\ Rank(X, Nth(X, k)) = k - 1
      /\ \A i \in X : Rank(X, i) + 1 \in 1 .. n /\ Nth(X, Rank(X, i) + 1) = i
  BY <1>1, NthInOrder
<1>3. Conclusive(h) = [k \in 1 .. n |-> h[Nth(X, k)]]
  BY DEF Conclusive
<1> HIDE DEF n, X
<1>4. Conclusive(h) \in [1 .. n -> CaseRun]
  BY <1>1, <1>2, <1>3
<1>5. Conclusive(h) \in Seq(CaseRun) /\ Len(Conclusive(h)) = n
  BY <1>1, <1>4
<1>6. \A k \in 1 .. n : Conclusive(h)[k] = h[Nth(X, k)]
  BY <1>3
<1>7. \A i \in X : Conclusive(h)[Rank(X, i) + 1] = h[i]
  BY <1>2, <1>6
<1> QED
  BY <1>2, <1>4, <1>5, <1>6, <1>7 DEF n, X

(* LastOf takes a suffix, the whole of a short history.                     *)
LEMMA Suffix ==
  ASSUME NEW h \in Seq(CaseRun), NEW n \in Nat
  PROVE  /\ LastOf(n, h) \in Seq(CaseRun)
         /\ Len(LastOf(n, h)) = IF Len(h) > n THEN n ELSE Len(h)
         /\ DOMAIN LastOf(n, h) = 1 .. Len(LastOf(n, h))
         /\ \A j \in 1 .. Len(LastOf(n, h)) :
              /\ Len(h) - Len(LastOf(n, h)) + j \in 1 .. Len(h)
              /\ LastOf(n, h)[j] = h[Len(h) - Len(LastOf(n, h)) + j]
<1> DEFINE m == IF Len(h) > n THEN Len(h) - n + 1 ELSE 1
<1>1. Len(h) \in Nat /\ \A i \in 1 .. Len(h) : h[i] \in CaseRun
  BY LenProperties, ElementOfSeq
<1>2. m \in Int /\ m >= 1 /\ Len(h) \in Int
      /\ Len(h) - m + 1 = IF Len(h) > n THEN n ELSE Len(h)
  BY <1>1
<1>3. LastOf(n, h) = SubSeq(h, m, Len(h))
  BY DEF LastOf
<1> HIDE DEF m
<1>4. \A i \in m .. Len(h) : h[i] \in CaseRun
  BY <1>1, <1>2
<1>5. /\ LastOf(n, h) \in Seq(CaseRun)
      /\ Len(LastOf(n, h)) = IF m <= Len(h) THEN Len(h) - m + 1 ELSE 0
      /\ \A i \in 1 .. Len(h) - m + 1 : LastOf(n, h)[i] = h[m + i - 1]
  BY <1>2, <1>3, <1>4, SubSeqProperties
<1>6. Len(LastOf(n, h)) = Len(h) - m + 1
  BY <1>1, <1>2, <1>5
<1>7. \A j \in 1 .. Len(h) - m + 1 :
        /\ Len(h) - Len(LastOf(n, h)) + j \in 1 .. Len(h)
        /\ m + j - 1 = Len(h) - Len(LastOf(n, h)) + j
  BY <1>1, <1>2, <1>6
<1>8. DOMAIN LastOf(n, h) = 1 .. Len(LastOf(n, h))
  BY <1>5, LenProperties
<1> QED
  BY <1>2, <1>5, <1>6, <1>7, <1>8

(* What is left of a history after `s` runs.                                *)
LEMMA RestOf ==
  ASSUME NEW h \in Seq(CaseRun), NEW s \in 0 .. Len(h)
  PROVE  /\ SubSeq(h, s + 1, Len(h)) \in Seq(CaseRun)
         /\ Len(SubSeq(h, s + 1, Len(h))) = Len(h) - s
         /\ \A i \in 1 .. Len(h) - s : SubSeq(h, s + 1, Len(h))[i] = h[i + s]
<1>1. Len(h) \in Nat /\ \A i \in 1 .. Len(h) : h[i] \in CaseRun
  BY LenProperties, ElementOfSeq
<1>2. s + 1 \in Int /\ Len(h) \in Int /\ s \in Nat /\ s <= Len(h)
  BY <1>1
<1>3. \A i \in s + 1 .. Len(h) : h[i] \in CaseRun
  BY <1>1, <1>2
<1>4. /\ SubSeq(h, s + 1, Len(h)) \in Seq(CaseRun)
      /\ Len(SubSeq(h, s + 1, Len(h))) = IF s + 1 <= Len(h) THEN Len(h) - (s + 1) + 1 ELSE 0
      /\ \A i \in 1 .. Len(h) - (s + 1) + 1 : SubSeq(h, s + 1, Len(h))[i] = h[s + 1 + i - 1]
  BY <1>2, <1>3, SubSeqProperties
<1>5. Len(h) - (s + 1) + 1 = Len(h) - s /\ \A i \in Nat : s + 1 + i - 1 = i + s
  BY <1>1, <1>2
<1>6. 1 .. Len(h) - s \subseteq Nat
  BY <1>1, <1>2
<1>7. Len(SubSeq(h, s + 1, Len(h))) = Len(h) - s
  BY <1>1, <1>2, <1>4
<1>8. \A i \in 1 .. Len(h) - s : SubSeq(h, s + 1, Len(h))[i] = h[i + s]
  BY <1>4, <1>5, <1>6
<1> QED
  BY <1>4, <1>7, <1>8

-----------------------------------------------------------------------------
(* A flaky verdict needs both outcomes. *)

Healthy(run) == run.status = "passed"

Broke(run) == run.status \in {"failed", "error"}

(* What is conclusive either passed or failed.                              *)
LEMMA EitherOutcome ==
  ASSUME NEW h \in Seq(CaseRun), NEW k \in DOMAIN Conclusive(h)
  PROVE  /\ Failed(Conclusive(h)[k]) <=> Broke(Conclusive(h)[k])
         /\ ~Failed(Conclusive(h)[k]) <=> Healthy(Conclusive(h)[k])
         /\ \E i \in DOMAIN h : Conclusive(h)[k] = h[i]
<1>1. PICK i \in Said(h) : Conclusive(h)[k] = h[i]
  BY ConclusiveRuns
<1>2. i \in DOMAIN h /\ h[i].status \in ConclusiveStatuses
  BY DEF Said
<1> QED
  BY <1>1, <1>2 DEF ConclusiveStatuses, CaseStatus, Failed, Broke, Healthy

(* Whatever rule calls a history flaky has seen a run that failed and one   *)
(* that did not.                                                            *)
LEMMA FlakySawBoth ==
  ASSUME FlakinessPolicyAssumption, NEW h \in Seq(CaseRun), Classify(h) = "flaky"
  PROVE  \E i, j \in DOMAIN WindowOf(h) : Failed(WindowOf(h)[i]) /\ ~Failed(WindowOf(h)[j])
<1> DEFINE recent == WindowOf(h)
<1>1. Window \in Nat /\ Flips \in Nat \ {0} /\ Pairs \in Nat
  BY DEF FlakinessPolicyAssumption
<1>2. recent \in Seq(CaseRun)
  BY <1>1, ConclusiveRuns, Suffix DEF WindowOf
<1>3. FlippedOnSameCommit(recent) \/ FlipsTooOften(recent)
  BY DEF Classify
<1> HIDE DEF recent
<1>4. SUFFICES \E i, j \in DOMAIN recent : Failed(recent[i]) # Failed(recent[j])
  <2>1. PICK i, j \in DOMAIN recent : Failed(recent[i]) # Failed(recent[j])
    BY <1>4
  <2>2. Failed(recent[i]) \in BOOLEAN /\ Failed(recent[j]) \in BOOLEAN
    BY DEF Failed
  <2> QED
    BY <2>1, <2>2 DEF recent
<1>5. CASE FlippedOnSameCommit(recent)
  <2>1. PICK k, l \in DOMAIN Conclusive(recent) :
          Failed(Conclusive(recent)[k]) # Failed(Conclusive(recent)[l])
    BY <1>5 DEF FlippedOnSameCommit
  <2>2. PICK i \in DOMAIN recent : Conclusive(recent)[k] = recent[i]
    BY <1>2, EitherOutcome
  <2>3. PICK j \in DOMAIN recent : Conclusive(recent)[l] = recent[j]
    BY <1>2, EitherOutcome
  <2> QED
    BY <2>1, <2>2, <2>3
<1>6. CASE FlipsTooOften(recent)
  <2> DEFINE w == WindowOf(recent)
             c == Conclusive(recent)
             flips == {i \in 1 .. Len(w) - 1 : Failed(w[i]) # Failed(w[i + 1])}
  <2>1. c \in Seq(CaseRun) /\ DOMAIN c = 1 .. Len(c)
    BY <1>2, ConclusiveRuns
  <2>2. /\ w \in Seq(CaseRun) /\ Len(w) \in Nat
        /\ \A j \in 1 .. Len(w) : \E k \in DOMAIN c : w[j] = c[k]
    <3> HIDE DEF c
    <3>1. w = LastOf(Window, c)
      BY DEF WindowOf, c
    <3> HIDE DEF w
    <3>2. w \in Seq(CaseRun)
      BY <1>1, <2>1, <3>1, Suffix
    <3>3. Len(w) \in Nat
      BY <3>2, LenProperties
    <3>4. \A j \in 1 .. Len(w) : \E k \in DOMAIN c : w[j] = c[k]
      <4> TAKE j \in 1 .. Len(w)
      <4>1. /\ Len(c) - Len(w) + j \in 1 .. Len(c)
            /\ w[j] = c[Len(c) - Len(w) + j]
        BY <1>1, <2>1, <3>1, Suffix
      <4> QED
        BY <2>1, <4>1
    <3> QED
      BY <3>2, <3>3, <3>4
  <2>3. \A j \in 1 .. Len(w) : \E i \in DOMAIN recent : w[j] = recent[i]
    <3> TAKE j \in 1 .. Len(w)
    <3>1. PICK k \in DOMAIN c : w[j] = c[k]
      BY <2>2
    <3>2. PICK i \in DOMAIN recent : c[k] = recent[i]
      BY <1>2, EitherOutcome
    <3> QED
      BY <3>1, <3>2
  <2>4. Len(w) >= 2 /\ Cardinality(flips) * Pairs >= Flips * (Len(w) - 1)
    BY <1>6 DEF FlipsTooOften
  <2>5. flips # {}
    <3> HIDE DEF w
    <3>1. ASSUME flips = {} PROVE FALSE
      <4>1. Cardinality(flips) = 0
        BY <3>1, FS_EmptySet
      <4>a. Len(w) \in Nat /\ Len(w) >= 2
        BY <2>2, <2>4, Zenon
      <4>2. PICK m \in Nat \ {0} : m = Len(w) - 1
        BY <4>a
      <4> HIDE DEF flips
      <4>3. 0 * Pairs >= Flips * m
        BY <2>4, <4>1, <4>2
      <4>4. Flips * m > 0
        BY <1>1
      <4>5. 0 * Pairs = 0
        BY <1>1
      <4> QED
        BY <1>1, <4>3, <4>4, <4>5
    <3> QED
      BY <3>1
  <2>6. PICK p \in 1 .. Len(w) - 1 : Failed(w[p]) # Failed(w[p + 1])
    BY <2>5
  <2>7. p \in 1 .. Len(w) /\ p + 1 \in 1 .. Len(w)
    BY <2>2
  <2> QED
    <3> HIDE DEF w, flips
    <3>1. PICK i \in DOMAIN recent : w[p] = recent[i]
      BY <2>3, <2>7
    <3>2. PICK j \in DOMAIN recent : w[p + 1] = recent[j]
      BY <2>3, <2>7
    <3> QED
      BY <2>6, <3>1, <3>2
<1> QED
  BY <1>3, <1>5, <1>6

(* The two lie among the last conclusive runs of the history.               *)
LEMMA FlakyLately ==
  ASSUME FlakinessPolicyAssumption, NEW h \in Seq(CaseRun), Classify(h) = "flaky"
  PROVE  \E k, l \in DOMAIN Conclusive(h) :
           /\ k + Window > Len(Conclusive(h)) /\ Broke(Conclusive(h)[k])
           /\ l + Window > Len(Conclusive(h)) /\ Healthy(Conclusive(h)[l])
<1> DEFINE c == Conclusive(h)
           w == LastOf(Window, c)
<1>1. Window \in Nat
  BY DEF FlakinessPolicyAssumption
<1>2. c \in Seq(CaseRun) /\ Len(c) \in Nat /\ DOMAIN c = 1 .. Len(c)
  BY ConclusiveRuns, LenProperties
<1>3. PICK i, j \in DOMAIN w : Failed(w[i]) /\ ~Failed(w[j])
  BY FlakySawBoth DEF WindowOf
<1>4. \A k \in DOMAIN c : /\ Failed(c[k]) => Broke(c[k])
                          /\ ~Failed(c[k]) => Healthy(c[k])
  BY EitherOutcome
<1> HIDE DEF c
<1>5. /\ Len(w) = IF Len(c) > Window THEN Window ELSE Len(c)
      /\ DOMAIN w = 1 .. Len(w)
      /\ \A k \in 1 .. Len(w) : /\ Len(c) - Len(w) + k \in 1 .. Len(c)
                                /\ w[k] = c[Len(c) - Len(w) + k]
  BY <1>1, <1>2, Suffix
<1>6. \A k \in DOMAIN w : \E m \in DOMAIN c : m + Window > Len(c) /\ w[k] = c[m]
  <2> TAKE k \in DOMAIN w
  <2>1. PICK m \in DOMAIN c : m = Len(c) - Len(w) + k
    BY <1>2, <1>5
  <2> HIDE DEF w
  <2>2. m + Window > Len(c)
    BY <1>1, <1>2, <1>5, <2>1
  <2> QED
    BY <1>5, <2>1, <2>2
<1>7. PICK k \in DOMAIN c : k + Window > Len(c) /\ w[i] = c[k]
  BY <1>6
<1>8. PICK l \in DOMAIN c : l + Window > Len(c) /\ w[j] = c[l]
  BY <1>6
<1> QED
  BY <1>3, <1>4, <1>7, <1>8 DEF c

-----------------------------------------------------------------------------
(* A skipped run changes no verdict. *)

(* It is not among the conclusive runs.                                     *)
LEMMA SkippedIsDropped ==
  ASSUME NEW h \in Seq(CaseRun), NEW run \in CaseRun, run.status = "skipped"
  PROVE  /\ Append(h, run) \in Seq(CaseRun)
         /\ Conclusive(Append(h, run)) = Conclusive(h)
<1> DEFINE g == Append(h, run)
<1>1. /\ g \in Seq(CaseRun)
      /\ Len(g) = Len(h) + 1
      /\ \A i \in 1 .. Len(h) : g[i] = h[i]
      /\ g[Len(h) + 1] = run
  BY AppendProperties
<1>2. Len(h) \in Nat /\ DOMAIN h = 1 .. Len(h)
  BY LenProperties
<1>3. DOMAIN g = 1 .. Len(h) + 1
  <2> HIDE DEF g
  <2> QED
    BY <1>1, LenProperties
<1> HIDE DEF g
<1>4. run.status \notin ConclusiveStatuses
  BY DEF ConclusiveStatuses
<1>5. 1 .. Len(h) + 1 = (1 .. Len(h)) \cup {Len(h) + 1}
  BY <1>2
<1>6. Said(g) = Said(h)
  BY <1>1, <1>2, <1>3, <1>4, <1>5 DEF Said
<1>7. \A k \in 1 .. Cardinality(Said(h)) : Nth(Said(h), k) \in 1 .. Len(h)
  BY ConclusiveRuns, SaidType
<1>8. \A k \in 1 .. Cardinality(Said(h)) : g[Nth(Said(h), k)] = h[Nth(Said(h), k)]
  BY <1>1, <1>7
<1>9. Conclusive(g) = Conclusive(h)
  BY <1>6, <1>8 DEF Conclusive
<1> QED
  BY <1>1, <1>9 DEF g

(* The same holds of the runs since an entry was opened.                    *)
LEMMA SkippedSince ==
  ASSUME NEW h \in Seq(CaseRun), NEW run \in CaseRun, run.status = "skipped",
         NEW s \in 0 .. Len(h), NEW g, g = Append(h, run)
  PROVE  Conclusive(SubSeq(g, s + 1, Len(g))) = Conclusive(SubSeq(h, s + 1, Len(h)))
<1> DEFINE rest == SubSeq(h, s + 1, Len(h))
           longer == SubSeq(g, s + 1, Len(g))
<1>1. /\ Len(h) \in Nat /\ g \in Seq(CaseRun) /\ Len(g) = Len(h) + 1
      /\ \A i \in 1 .. Len(h) : g[i] = h[i]
      /\ g[Len(h) + 1] = run
  BY AppendProperties, LenProperties
<1>2. s \in 0 .. Len(g) /\ s \in Nat /\ Len(h) - s \in Nat
  BY <1>1
<1>3. /\ rest \in Seq(CaseRun) /\ Len(rest) = Len(h) - s
      /\ \A i \in 1 .. Len(h) - s : rest[i] = h[i + s]
  BY RestOf
<1>4. /\ longer \in Seq(CaseRun) /\ Len(longer) = Len(g) - s
      /\ \A i \in 1 .. Len(g) - s : longer[i] = g[i + s]
  BY <1>1, <1>2, RestOf
<1> HIDE DEF rest, longer
<1>5. /\ Append(rest, run) \in Seq(CaseRun)
      /\ Len(Append(rest, run)) = Len(rest) + 1
      /\ \A i \in 1 .. Len(rest) : Append(rest, run)[i] = rest[i]
      /\ Append(rest, run)[Len(rest) + 1] = run
  BY <1>3, AppendProperties
<1>6. Len(longer) = Len(Append(rest, run)) /\ Len(longer) = Len(rest) + 1
  BY <1>1, <1>2, <1>3, <1>4, <1>5
<1>7. \A i \in 1 .. Len(longer) : longer[i] = Append(rest, run)[i]
  <2> TAKE i \in 1 .. Len(longer)
  <2>1. CASE i \in 1 .. Len(rest)
    <3>1. i + s \in 1 .. Len(h) /\ i \in 1 .. Len(g) - s
      BY <1>1, <1>2, <1>3, <2>1
    <3> QED
      BY <1>1, <1>3, <1>4, <1>5, <2>1, <3>1
  <2>2. CASE i = Len(rest) + 1
    <3>1. i + s = Len(h) + 1 /\ i \in 1 .. Len(g) - s
      BY <1>1, <1>2, <1>3, <2>2
    <3> QED
      BY <1>1, <1>4, <1>5, <2>2, <3>1
  <2>3. i \in 1 .. Len(rest) \/ i = Len(rest) + 1
    <3>1. PICK n \in Nat : n = Len(rest)
      BY <1>3, LenProperties
    <3>2. i \in 1 .. n + 1
      BY <1>6, <3>1
    <3>3. i \in 1 .. n \/ i = n + 1
      BY <3>1, <3>2
    <3> QED
      BY <3>1, <3>3
  <2> QED
    BY <2>1, <2>2, <2>3
<1>8. longer = Append(rest, run)
  BY <1>4, <1>5, <1>6, <1>7, SeqEqual
<1>9. Conclusive(Append(rest, run)) = Conclusive(rest)
  BY <1>3, SkippedIsDropped
<1> QED
  BY <1>8, <1>9 DEF rest, longer

-----------------------------------------------------------------------------
(* A test that is released is not flaky. *)

(* The runs after `s` said what the whole history said after `s`, `s` runs  *)
(* earlier.                                                                 *)
LEMMA SaidSince ==
  ASSUME NEW h \in Seq(CaseRun), NEW s \in 0 .. Len(h), NEW i \in Nat
  PROVE  LET rest == SubSeq(h, s + 1, Len(h))
         IN  /\ \A j \in Said(h) : j > s => j - s \in Said(rest) /\ rest[j - s] = h[j]
             /\ IsFiniteSet(Above(Said(rest), i)) /\ IsFiniteSet(Above(Said(h), i + s))
             /\ Cardinality(Above(Said(rest), i)) = Cardinality(Above(Said(h), i + s))
<1> DEFINE rest == SubSeq(h, s + 1, Len(h))
           X == Said(h)
           Y == Said(rest)
           f == [j \in Above(Y, i) |-> j + s]
<1>1. /\ rest \in Seq(CaseRun) /\ Len(rest) = Len(h) - s
      /\ \A j \in 1 .. Len(h) - s : rest[j] = h[j + s]
  BY RestOf
<1> HIDE DEF rest
<1>2. /\ X \in SUBSET Nat /\ X \subseteq 1 .. Len(h) /\ IsFiniteSet(X)
      /\ Len(h) \in Nat /\ DOMAIN h = 1 .. Len(h)
  BY SaidType
<1>3. /\ Y \in SUBSET Nat /\ Y \subseteq 1 .. Len(rest) /\ IsFiniteSet(Y)
      /\ DOMAIN rest = 1 .. Len(rest)
  BY <1>1, SaidType
<1>4. s \in Nat /\ s <= Len(h)
  BY <1>2
<1>5. ASSUME NEW j \in X, j > s
      PROVE  j - s \in Y /\ rest[j - s] = h[j]
  <2>1. j \in 1 .. Len(h) /\ h[j].status \in ConclusiveStatuses
    BY <1>2 DEF Said
  <2>2. j - s \in 1 .. Len(h) - s /\ (j - s) + s = j
    BY <1>2, <1>4, <1>5, <2>1
  <2>3. rest[j - s] = h[j]
    BY <1>1, <2>2
  <2> QED
    BY <1>1, <1>3, <2>1, <2>2, <2>3 DEF Said
<1>6. ASSUME NEW j \in Y
      PROVE  j + s \in X
  <2>1. j \in 1 .. Len(h) - s /\ rest[j].status \in ConclusiveStatuses
    BY <1>1, <1>3 DEF Said
  <2>2. j + s \in 1 .. Len(h)
    BY <1>2, <1>4, <2>1
  <2> QED
    BY <1>1, <1>2, <2>1, <2>2 DEF Said
<1>7. Above(Y, i) \subseteq Y /\ Above(X, i + s) \subseteq X
  BY DEF Above
<1>8. IsFiniteSet(Above(Y, i)) /\ IsFiniteSet(Above(X, i + s))
  BY <1>2, <1>3, <1>7, FS_Subset
<1> HIDE DEF X, Y
<1>9. \A j \in Above(Y, i) : j + s \in Above(X, i + s)
  BY <1>3, <1>4, <1>6 DEF Above
<1>10. \A l \in Above(X, i + s) : \E j \in Above(Y, i) : j + s = l
  <2> TAKE l \in Above(X, i + s)
  <2>1. l \in X /\ l \in Nat /\ l > i + s
    BY <1>2 DEF Above
  <2>2. l > s /\ l - s > i /\ (l - s) + s = l
    BY <1>4, <2>1
  <2>3. l - s \in Y
    BY <1>5, <2>1, <2>2
  <2>4. l - s \in Above(Y, i)
    BY <2>2, <2>3 DEF Above
  <2> QED
    BY <2>2, <2>4
<1>11. \A j, l \in Above(Y, i) : j + s = l + s => j = l
  <2>1. \A j \in Above(Y, i) : j \in Nat
    BY <1>3, <1>7
  <2> QED
    BY <1>4, <2>1
<1>12. f \in Injection(Above(Y, i), Above(X, i + s)) /\ f \in Surjection(Above(Y, i), Above(X, i + s))
  BY <1>9, <1>10, <1>11 DEF Injection, Surjection, IsInjective
<1>13. ExistsBijection(Above(Y, i), Above(X, i + s))
  BY <1>12 DEF ExistsBijection, Bijection
<1>14. Cardinality(Above(X, i + s)) = Cardinality(Above(Y, i))
  BY <1>8, <1>13, FS_Bijection
<1> QED
  BY <1>5, <1>8, <1>14 DEF rest, X, Y

(* The failure that a flaky verdict needs has fewer than `window`           *)
(* conclusive runs after it.  The runs that earned the release are at least *)
(* as many: a failure before the entry would have them all after it, and    *)
(* one since would be among them.                                           *)
LEMMA ReleaseRefutes ==
  ASSUME FlakinessPolicyAssumption, NEW h \in Seq(CaseRun), NEW s \in 0 .. Len(h),
         EarnedRelease(SubSeq(h, s + 1, Len(h)))
  PROVE  Classify(h) # "flaky"
<1> DEFINE rest == SubSeq(h, s + 1, Len(h))
           X == Said(h)
           Y == Said(rest)
           c == Conclusive(h)
           d == Conclusive(rest)
           r == LastOf(StableRunsToRelease, d)
           n == Cardinality(X)
           m == Cardinality(Y)
<1> SUFFICES ASSUME Classify(h) = "flaky" PROVE FALSE
  OBVIOUS
<1>1. /\ Window \in Nat \ {0} /\ StableRunsToRelease \in Nat
      /\ StableRunsToRelease >= Window
  BY DEF FlakinessPolicyAssumption
<1>2. /\ X \in SUBSET Nat /\ IsFiniteSet(X) /\ n \in Nat /\ Len(h) \in Nat /\ s \in Nat
  BY SaidType
<1>3. rest \in Seq(CaseRun)
  BY RestOf
<1>4. /\ Len(c) = n /\ DOMAIN c = 1 .. n
      /\ \A k \in 1 .. n : Nth(X, k) \in X /\ Rank(X, Nth(X, k)) = k - 1 /\ c[k] = h[Nth(X, k)]
  BY ConclusiveRuns
<1>5. PICK k \in DOMAIN c : k + Window > Len(c) /\ Broke(c[k])
  BY FlakyLately
<1>6. PICK i \in X : Rank(X, i) = k - 1 /\ Broke(h[i])
  BY <1>4, <1>5
<1>7. k \in Nat /\ i \in Nat
  BY <1>2, <1>4
<1>8. IsFiniteSet(Above(X, i)) /\ Cardinality(Above(X, i)) = n - k
  <2>1. /\ IsFiniteSet(Above(X, i)) /\ Rank(X, i) \in 0 .. n - 1
        /\ Cardinality(Above(X, i)) = n - Rank(X, i) - 1
    BY <1>2, RankCounts
  <2> HIDE DEF n, X
  <2>2. n - (k - 1) - 1 = n - k
    BY <1>2, <1>7
  <2> QED
    BY <1>6, <2>1, <2>2
<1>9. n - k < Window
  <2> HIDE DEF n, X, c
  <2> QED
    BY <1>1, <1>2, <1>4, <1>5, <1>7
<1>10. /\ \A j \in X : j > s => j - s \in Y /\ rest[j - s] = h[j]
       /\ \A l \in Nat : Cardinality(Above(Y, l)) = Cardinality(Above(X, l + s))
       /\ IsFiniteSet(Above(X, 0 + s))
  BY SaidSince, Zenon
<1>11. /\ EarnedRelease(rest)
       /\ Len(r) = StableRunsToRelease
       /\ \A j \in DOMAIN r : ~Failed(r[j])
  BY DEF EarnedRelease
<1> HIDE DEF rest
<1>12. /\ Y \in SUBSET Nat /\ IsFiniteSet(Y) /\ m \in Nat
       /\ \A y \in Y : y > 0
  <2>1. Y \subseteq 1 .. Len(rest) /\ Len(rest) \in Nat
    BY <1>3, SaidType
  <2> QED
    BY <1>3, <2>1, SaidType
<1>13. /\ d \in Seq(CaseRun) /\ Len(d) = m
       /\ \A y \in Y : Rank(Y, y) + 1 \in 1 .. m /\ d[Rank(Y, y) + 1] = rest[y]
  BY <1>3, ConclusiveRuns
<1> HIDE DEF c, d, X, Y, n, m
<1>14. /\ Len(r) = IF m > StableRunsToRelease THEN StableRunsToRelease ELSE m
       /\ DOMAIN r = 1 .. Len(r)
       /\ \A j \in 1 .. Len(r) : r[j] = d[m - Len(r) + j]
  BY <1>1, <1>13, Suffix, Zenon
<1> HIDE DEF r
<1>15. m >= StableRunsToRelease
  BY <1>1, <1>11, <1>12, <1>14
<1>16. CASE i <= s
  <2>1. Above(Y, 0) = Y
    BY <1>12 DEF Above
  <2>2. Cardinality(Above(X, 0 + s)) = m
    BY <1>10, <2>1 DEF m
  <2>3. Above(X, 0 + s) \subseteq Above(X, i)
    <3>1. \A j \in X : j > 0 + s => j > i
      BY <1>2, <1>7, <1>16
    <3> QED
      BY <3>1 DEF Above
  <2>4. m <= n - k
    BY <1>8, <2>2, <2>3, FS_Subset
  <2> QED
    BY <1>1, <1>2, <1>7, <1>9, <1>12, <1>15, <2>4
<1>17. CASE i > s
  <2>1. i - s \in Y /\ rest[i - s] = h[i] /\ i - s \in Nat /\ (i - s) + s = i
    <3>1. i - s \in Nat /\ (i - s) + s = i
      BY <1>2, <1>7, <1>17
    <3>2. i - s \in Y /\ rest[i - s] = h[i]
      BY <1>10, <1>17
    <3> QED
      BY <3>1, <3>2
  <2>2. PICK y \in Y : y = i - s
    BY <2>1
  <2>3. Cardinality(Above(Y, y)) = n - k
    <3>1. y \in Nat /\ y + s = i
      BY <2>1, <2>2
    <3> QED
      BY <1>8, <1>10, <3>1
  <2>4. Rank(Y, y) \in Nat /\ Cardinality(Above(Y, y)) = m - Rank(Y, y) - 1
    BY <1>12, RankCounts DEF m
  <2>5. PICK q \in 1 .. m : q = Rank(Y, y) + 1 /\ d[q] = rest[y]
    BY <1>13
  <2>6. m - q = n - k
    BY <1>12, <2>3, <2>4, <2>5
  <2>7. PICK j \in 1 .. StableRunsToRelease : m - StableRunsToRelease + j = q
    <3>1. q - (m - StableRunsToRelease) \in 1 .. StableRunsToRelease
      BY <1>1, <1>2, <1>7, <1>9, <1>12, <1>15, <2>6
    <3>2. m - StableRunsToRelease + (q - (m - StableRunsToRelease)) = q
      BY <1>1, <1>12
    <3> QED
      BY <3>1, <3>2
  <2>8. r[j] = d[q] /\ j \in DOMAIN r
    BY <1>11, <1>14, <2>7
  <2>9. ~Failed(h[i])
    BY <1>11, <2>1, <2>2, <2>5, <2>8
  <2> QED
    BY <1>6, <2>9 DEF Failed, Broke
<1> QED
  BY <1>2, <1>7, <1>16, <1>17

-----------------------------------------------------------------------------
(* The theorems. *)

(* Every run on record and the entry are of their types: what the entry     *)
(* counts as reported before it stays in the history.                       *)
THEOREM TypeCorrect == Spec => []TypeOK
<1>1. ASSUME FlakinessPolicyAssumption, Init
      PROVE  TypeOK
  BY <1>1 DEF Init, TypeOK, FlakinessPolicyAssumption
<1>2. ASSUME FlakinessPolicyAssumption, TypeOK, [Next]_vars
      PROVE  TypeOK'
  <2> USE <1>2
  <2>1. Len(runs) \in Nat /\ MaxRuns \in Nat /\ MaxTime \in Nat
    BY LenProperties DEF TypeOK, FlakinessPolicyAssumption
  <2>2. ASSUME NEW c \in Commit, NEW tags \in SUBSET Tag, Report(c, tags)
        PROVE  TypeOK'
    <3>1. PICK run \in CaseRun : runs' = Append(runs, run)
      <4>1. [commit |-> c, status |-> StatusOf(tags)] \in CaseRun
        BY DEF StatusOf, CaseRun, CaseStatus
      <4> QED
        BY <2>2, <4>1 DEF Report
    <3>2. runs' \in Seq(CaseRun) /\ Len(runs') = Len(runs) + 1
      BY <3>1, AppendProperties DEF TypeOK
    <3>3. Len(runs') <= MaxRuns
      BY <2>1, <2>2, <3>2 DEF Report
    <3>4. QuarantineEntry \subseteq QuarantineEntry'
      BY <2>1, <3>2 DEF QuarantineEntry
    <3> QED
      BY <2>2, <3>2, <3>3, <3>4 DEF TypeOK, Report
  <2>3. ASSUME OpenEntry
        PROVE  TypeOK'
    BY <2>1, <2>3 DEF OpenEntry, TypeOK, QuarantineEntry
  <2>4. ASSUME CloseEntry
        PROVE  TypeOK'
    BY <2>4 DEF CloseEntry, TypeOK, QuarantineEntry
  <2>5. ASSUME Tick
        PROVE  TypeOK'
    BY <2>1, <2>5 DEF Tick, TypeOK, QuarantineEntry
  <2>6. ASSUME UNCHANGED vars
        PROVE  TypeOK'
    BY <2>6 DEF vars, TypeOK, QuarantineEntry
  <2> QED
    BY <2>2, <2>3, <2>4, <2>5, <2>6 DEF Next
<1> QED
  BY <1>1, <1>2, FlakinessPolicyAssumption, PTL DEF Spec

(* A test is called flaky only if it passed and failed within the last      *)
(* `window` conclusive runs, for any window, minimum and threshold.         *)
THEOREM FlakyIsBoth == Spec => []FlakyHasBothOutcomes
<1>1. ASSUME FlakinessPolicyAssumption, TypeOK
      PROVE  FlakyHasBothOutcomes
  <2> SUFFICES ASSUME Classify(runs) = "flaky"
               PROVE  LET said == Conclusive(runs)
                          recent == {i \in DOMAIN said : i + Window > Len(said)}
                      IN  /\ \E i \in recent : said[i].status = "passed"
                          /\ \E i \in recent : said[i].status \in {"failed", "error"}
    BY DEF FlakyHasBothOutcomes, ShouldQuarantine
  <2>1. PICK k, l \in DOMAIN Conclusive(runs) :
           /\ k + Window > Len(Conclusive(runs)) /\ Broke(Conclusive(runs)[k])
           /\ l + Window > Len(Conclusive(runs)) /\ Healthy(Conclusive(runs)[l])
    BY <1>1, FlakyLately DEF TypeOK
  <2> QED
    BY <2>1 DEF Broke, Healthy
<1> QED
  BY <1>1, TypeCorrect, FlakinessPolicyAssumption, PTL

(* A test that has earned its release is not called flaky on the history    *)
(* that released it, whenever the release asks for as many clean runs as    *)
(* the verdict looks at.                                                    *)
THEOREM ReleaseHolds == Spec => []ReleasedIsNotFlaky
<1>1. ASSUME FlakinessPolicyAssumption, TypeOK
      PROVE  ReleasedIsNotFlaky
  <2> SUFFICES ASSUME entry # NoEntry, QuarantineState(entry) = "released"
               PROVE  Classify(runs) # "flaky"
    BY DEF ReleasedIsNotFlaky, ShouldQuarantine
  <2>1. entry.since \in 0 .. Len(runs) /\ runs \in Seq(CaseRun)
    BY <1>1 DEF TypeOK, QuarantineEntry
  <2>2. EarnedRelease(SubSeq(runs, entry.since + 1, Len(runs)))
    BY DEF QuarantineState, RunsSince
  <2> QED
    BY <1>1, <2>1, <2>2, ReleaseRefutes
<1> QED
  BY <1>1, TypeCorrect, FlakinessPolicyAssumption, PTL

(* A report of a skipped run changes no verdict and no state of an entry.   *)
THEOREM SkippedIsSilent == Spec => SkippedSaysNothing
<1>1. ASSUME TypeOK, NEW c \in Commit, Report(c, {"skipped"})
      PROVE  /\ Classify(runs') = Classify(runs)
             /\ entry # NoEntry => QuarantineState(entry)' = QuarantineState(entry)
  <2>1. PICK run \in CaseRun : run.status = "skipped" /\ runs' = Append(runs, run)
    <3>1. StatusOf({"skipped"}) = "skipped"
      BY DEF StatusOf
    <3>2. [commit |-> c, status |-> "skipped"] \in CaseRun
      BY DEF CaseRun, CaseStatus
    <3> QED
      BY <1>1, <3>1, <3>2 DEF Report
  <2>2. runs \in Seq(CaseRun)
    BY <1>1 DEF TypeOK
  <2>3. PICK g : g = Append(runs, run)
    OBVIOUS
  <2>4. Conclusive(g) = Conclusive(runs)
    BY <2>1, <2>2, <2>3, SkippedIsDropped
  <2>5. Classify(g) = Classify(runs)
    BY <2>4 DEF Classify, WindowOf
  <2>6. ASSUME entry # NoEntry
        PROVE  EarnedRelease(SubSeq(g, entry.since + 1, Len(g)))
                 = EarnedRelease(SubSeq(runs, entry.since + 1, Len(runs)))
    <3>1. entry.since \in 0 .. Len(runs)
      BY <1>1, <2>6 DEF TypeOK, QuarantineEntry
    <3>2. Conclusive(SubSeq(g, entry.since + 1, Len(g)))
            = Conclusive(SubSeq(runs, entry.since + 1, Len(runs)))
      BY <2>1, <2>2, <2>3, <3>1, SkippedSince
    <3> QED
      BY <3>2 DEF EarnedRelease
  <2>7. runs' = g /\ entry' = entry /\ now' = now
    BY <1>1, <2>1, <2>3 DEF Report
  <2>8. Classify(runs') = Classify(runs)
    BY <2>5, <2>7
  <2>9. ASSUME entry # NoEntry
        PROVE  QuarantineState(entry)' = QuarantineState(entry)
    BY <2>6, <2>7, <2>9 DEF QuarantineState, RunsSince, IsExpired
  <2> QED
    BY <2>8, <2>9
<1>2. ASSUME TypeOK, [Next]_vars
      PROVE  [\A c \in Commit : Report(c, {"skipped"}) =>
                /\ Classify(runs') = Classify(runs)
                /\ entry # NoEntry => QuarantineState(entry)' = QuarantineState(entry)]_vars
  BY <1>1, <1>2
<1> QED
  BY <1>2, TypeCorrect, PTL DEF Spec, SkippedSaysNothing
=============================================================================
