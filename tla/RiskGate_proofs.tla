--------------------------- MODULE RiskGate_proofs ---------------------------
(***************************************************************************)
(* Proofs about RiskGate, for any projects, packages and records, any      *)
(* aliases among these, and every policy.                                  *)
(***************************************************************************)
EXTENDS RiskGate, FiniteSetTheorems, TLAPS

-----------------------------------------------------------------------------
(* The inductive invariant.  Only GitHub's records are ever rated.          *)
RatingInv == \A r \in Record : rating[r] # "UNKNOWN" => r \in Github

IInv == TypeOK /\ IsFiniteSet(file) /\ RatingInv /\ FailsClosed

world == <<today, published, rating, lock, file>>

-----------------------------------------------------------------------------
(* The findings. *)

LEMMA CollectedFacts ==
  ASSUME NEW F \in Collected
  PROVE  /\ \A f \in F : f \in MayFind
         /\ \A g \in MayFind : \E f \in F : Same(f, g)
<1>1. F \subseteq MayFind /\ \A g \in MayFind : Cardinality({f \in F : Same(f, g)}) = 1
  BY DEF Collected
<1>2. ASSUME NEW g \in MayFind PROVE {f \in F : Same(f, g)} # {}
  <2>1. Cardinality({}) = 0
    BY FS_EmptySet
  <2> QED
    BY <1>1, <2>1
<1> QED
  BY <1>1, <1>2

(* Of every vulnerability that is reported one of the records is kept, and  *)
(* that one is judged.                                                      *)
LEMMA KeptIsFound ==
  ASSUME NEW F \in Collected, NEW x \in Project, NEW p \in Package, NEW r \in Reported(x, p)
  PROVE  \E f \in F : f \in Finding /\ f.project = x /\ f.package = p /\ f.advisory \in Kept(x, p, r)
<1> DEFINE same == {s \in Reported(x, p) : CanonicalKey(s) = CanonicalKey(r)}
<1>1. r \in same /\ same \subseteq Record
  BY DEF Reported
<1>2. PICK k \in same : k \in Preferred(same)
  BY <1>1 DEF Preferred
<1>3. k \in Kept(x, p, r) /\ k \in Record /\ CanonicalKey(k) = CanonicalKey(r)
  BY <1>1, <1>2 DEF Kept
<1> DEFINE g == [project |-> x, package |-> p, advisory |-> k]
<1>4. g \in Finding /\ g.project = x /\ g.package = p /\ g.advisory = k
  BY <1>3 DEF Finding
<1> HIDE DEF g
<1>5. g \in MayFind
  BY <1>3, <1>4 DEF MayFind
<1>6. PICK f \in F : Same(f, g)
  BY <1>5, CollectedFacts
<1>7. f \in Finding /\ f.project = x /\ f.package = p /\ CanonicalKey(f.advisory) = CanonicalKey(r)
  BY <1>3, <1>4, <1>6, CollectedFacts DEF Same, MayFind
<1>8. PICK s \in Reported(x, p) : f.advisory \in Kept(x, p, s)
  BY <1>6, <1>7, CollectedFacts DEF MayFind
<1>9. CanonicalKey(s) = CanonicalKey(f.advisory)
  BY <1>8 DEF Kept, Preferred
<1>10. Kept(x, p, s) = Kept(x, p, r)
  BY <1>7, <1>9 DEF Kept
<1> QED
  BY <1>6, <1>7, <1>8, <1>10

(* What passes without an answer of the API about some records passes with  *)
(* every answer in hand: an answer that is missing counts as the worst.     *)
LEMMA MissingIsWorst ==
  ASSUME NEW F, NEW U \in SUBSET Record, Passes(F, U)
  PROVE  Passes(F, {})
<1>1. ASSUME NEW f \in F, Blocks(f, {}) PROVE Blocks(f, U)
  BY <1>1 DEF Blocks, Severity, BlockingSeverities
<1> QED
  BY <1>1 DEF Passes

LEMMA SameFindings ==
  ASSUME UNCHANGED <<published, lock>>
  PROVE  Collected' = Collected
  BY DEF Collected, MayFind, Kept, Reported

LEMMA GreenKept ==
  ASSUME UNCHANGED world, Green
  PROVE  Green'
<1>1. Collected' = Collected
  BY SameFindings DEF world
<1>2. PICK F \in Collected : Passes(F, {})
  BY DEF Green
<1>3. Passes(F, {})'
  BY <1>2 DEF world, Passes, FileOK, ContentOK, Blocks, Severity, Accepted, UnusedAcceptances, Risks
<1> QED
  BY <1>1, <1>2, <1>3 DEF Green

-----------------------------------------------------------------------------
(* Steps. *)

LEMMA InitIInv == Init => IInv
<1> SUFFICES ASSUME Init PROVE IInv
  OBVIOUS
<1>1. IsFiniteSet(file) /\ Cardinality(file) = 0
  BY FS_EmptySet DEF Init
<1>2. TypeOK
  BY <1>1, RiskGateAssumption DEF Init, TypeOK, Day, NotYet, Rating
<1> QED
  BY <1>1, <1>2 DEF Init, IInv, RatingInv, FailsClosed

LEMMA FileStep ==
  ASSUME IsFiniteSet(file), Cardinality(file) <= MaxEntries, [Next]_vars
  PROVE  IsFiniteSet(file') /\ Cardinality(file') <= MaxEntries
<1>1. ASSUME NEW e, Accept(e) PROVE IsFiniteSet(file') /\ Cardinality(file') <= MaxEntries
  BY <1>1, FS_AddElement DEF Accept
<1>2. ASSUME NEW e \in file, Delete(e) PROVE IsFiniteSet(file') /\ Cardinality(file') <= MaxEntries
  <2>1. file' = file \ {e}
    BY <1>2 DEF Delete
  <2>2. IsFiniteSet(file') /\ Cardinality(file') = Cardinality(file) - 1 /\ Cardinality(file) \in Nat
    BY <2>1, FS_RemoveElement, FS_CardinalityType
  <2> QED
    BY <2>2, RiskGateAssumption
<1>3. UNCHANGED file \/ (\E e : Accept(e)) \/ \E e \in file : Delete(e)
  BY DEF Next, Tick, Publish, Rate, Relock, Run, vars
<1> QED
  BY <1>1, <1>2, <1>3

LEMMA TypeStep ==
  ASSUME TypeOK, IsFiniteSet(file), [Next]_vars
  PROVE  TypeOK'
<1> USE DEF TypeOK
<1>1. IsFiniteSet(file') /\ Cardinality(file') <= MaxEntries
  BY FileStep
<1>2. CASE Tick
  BY <1>1, <1>2, RiskGateAssumption DEF Tick, Day
<1>3. ASSUME NEW r \in Record, Publish(r) PROVE TypeOK'
  BY <1>1, <1>3 DEF Publish
<1>4. ASSUME NEW r \in Record, NEW s \in Rating, Rate(r, s) PROVE TypeOK'
  BY <1>1, <1>4 DEF Rate
<1>5. ASSUME NEW x \in Project, NEW P \in SUBSET Uses[x], Relock(x, P) PROVE TypeOK'
  <2>1. Uses[x] \subseteq Package
    BY RiskGateAssumption
  <2> QED
    BY <1>1, <1>5, <2>1 DEF Relock
<1>6. CASE Accept(Broken)
  BY <1>1, <1>6 DEF Accept
<1>7. ASSUME NEW n \in Name, NEW p \in Package, NEW d \in 0 .. today, NEW t \in Terms,
             Accept([id |-> n, package |-> p, added |-> d, until |-> d + t.days, noFix |-> t.noFix])
      PROVE  TypeOK'
  <2>1. d \in Day /\ d + t.days \in Int /\ t.noFix \in BOOLEAN
    BY RiskGateAssumption DEF Day
  <2>2. [id |-> n, package |-> p, added |-> d, until |-> d + t.days, noFix |-> t.noFix] \in Entry
    BY <2>1 DEF Entry
  <2> QED
    BY <1>1, <1>7, <2>2 DEF Accept
<1>8. ASSUME NEW e \in file, Delete(e) PROVE TypeOK'
  BY <1>1, <1>8 DEF Delete
<1>9. CASE Run
  <2>1. verdict' \in {"green", "red"} /\ UNCHANGED world
    BY <1>9 DEF Run, world
  <2> QED
    BY <2>1 DEF world
<1>10. CASE UNCHANGED vars
  BY <1>10 DEF vars
<1> QED
  BY <1>2, <1>3, <1>4, <1>5, <1>6, <1>7, <1>8, <1>9, <1>10 DEF Next

(* The verdict is dropped when anything it depends on changes.              *)
LEMMA ClosedStep ==
  ASSUME FailsClosed, [Next]_vars
  PROVE  FailsClosed'
<1>1. CASE Run
  <2>1. PICK audited \in BOOLEAN, answered \in BOOLEAN, U \in SUBSET Record, F \in Collected :
          verdict' = IF audited /\ answered /\ Passes(F, U) THEN "green" ELSE "red"
    BY <1>1 DEF Run
  <2>2. ASSUME verdict' = "green" PROVE Green'
    <3>1. Passes(F, U)
      BY <2>1, <2>2
    <3>2. Green
      BY <3>1, MissingIsWorst DEF Green
    <3>3. UNCHANGED world
      BY <1>1 DEF Run, world
    <3> QED
      BY <3>2, <3>3, GreenKept
  <2> QED
    BY <2>2 DEF FailsClosed
<1>2. CASE UNCHANGED vars
  <2>1. UNCHANGED world /\ UNCHANGED verdict
    BY <1>2 DEF vars, world
  <2> QED
    BY <2>1, GreenKept DEF FailsClosed
<1>3. CASE verdict' = "none"
  BY <1>3 DEF FailsClosed
<1> QED
  BY <1>1, <1>2, <1>3 DEF Next, Tick, Publish, Rate, Relock, Accept, Delete

LEMMA NextIInv == IInv /\ [Next]_vars => IInv'
<1> SUFFICES ASSUME IInv, [Next]_vars PROVE IInv'
  OBVIOUS
<1>1. TypeOK' /\ IsFiniteSet(file')
  BY TypeStep, FileStep DEF IInv, TypeOK
<1>2. RatingInv'
  <2>1. ASSUME NEW r \in Record, NEW s \in Rating, Rate(r, s) PROVE RatingInv'
    BY <2>1 DEF Rate, IInv, RatingInv, TypeOK
  <2>2. UNCHANGED rating \/ \E r \in Record, s \in Rating : Rate(r, s)
    BY DEF Next, Tick, Publish, Relock, Accept, Delete, Run, vars
  <2> QED
    BY <2>1, <2>2 DEF IInv, RatingInv
<1>3. FailsClosed'
  BY ClosedStep DEF IInv
<1> QED
  BY <1>1, <1>2, <1>3 DEF IInv

-----------------------------------------------------------------------------
(* The theorems. *)

(* The invariant of the gate, whatever appears, is rated, expires or is     *)
(* accepted between its runs.                                               *)
THEOREM Invariance == Spec => []IInv
  BY InitIInv, NextIInv, PTL DEF Spec

(* Every variable keeps its type.                                           *)
THEOREM TypeCorrect == Spec => []TypeOK
<1>1. IInv => TypeOK
  BY DEF IInv
<1> QED
  BY <1>1, Invariance, PTL

(* "A gate that guesses is worse than no gate": osv_severity answers        *)
(* UNKNOWN for what it could not ask, which blocks, and run ends in red     *)
(* when it raises.                                                          *)
THEOREM GateFailsClosed == Spec => []FailsClosed
<1>1. IInv => FailsClosed
  BY DEF IInv
<1> QED
  BY <1>1, Invariance, PTL

(* Behind a green gate each vulnerability was judged by one of its records, *)
(* which is rated low and young, or accepted within the limits of policy    *)
(* counted from the day of the decision.                                    *)
THEOREM NothingShipsUndecided == Spec => []ShippedIsDecided
<1>1. ASSUME IInv PROVE ShippedIsDecided
  <2> SUFFICES ASSUME verdict = "green", NEW x \in Project, NEW p \in Package,
                      NEW r \in Reported(x, p)
               PROVE  \E k \in Kept(x, p, r) :
                        \/ rating[k] = "LOW" /\ today - published[k] <= GraceDays
                        \/ \E e \in Risks : /\ e.package = p /\ e.id \in Names(k)
                                            /\ today - e.added <= Limit(e)
    BY DEF ShippedIsDecided
  <2>1. PICK F \in Collected : Passes(F, {})
    BY <1>1 DEF IInv, FailsClosed, Green
  <2>2. PICK f \in F : /\ f \in Finding /\ f.project = x /\ f.package = p
                       /\ f.advisory \in Kept(x, p, r)
    BY KeptIsFound
  <2>3. ~Blocks(f, {})
    BY <2>1 DEF Passes
  <2>4. CASE Accepted(f)
    <3>1. PICK e \in Risks : Covers(e, f.package, Identifiers(f))
      BY <2>4 DEF Accepted
    <3>2. e.package = p /\ e.id \in Names(f.advisory)
      BY <2>2, <3>1 DEF Covers, Identifiers
    <3>3. /\ e.until - e.added <= Limit(e) /\ e.until >= today
      BY <2>1 DEF Passes, FileOK, ContentOK
    <3>4. e \in Entry
      BY <1>1 DEF IInv, TypeOK, Risks
    <3>5. e.until \in Int /\ e.added \in Int /\ Limit(e) \in Int /\ today \in Int
      BY <1>1, <3>4, RiskGateAssumption DEF Entry, Day, Limit, IInv, TypeOK
    <3>6. today - e.added <= Limit(e)
      BY <3>3, <3>5
    <3> QED
      BY <2>2, <3>2, <3>6
  <2>5. CASE ~Accepted(f)
    <3>1. /\ rating[f.advisory] \notin BlockingSeverities
          /\ ~(today - published[f.advisory] > GraceDays)
      BY <2>3, <2>5 DEF Blocks, Severity
    <3>2. rating[f.advisory] \in Rating /\ published[f.advisory] \in Int /\ today \in Int
      BY <1>1, <2>2, RiskGateAssumption DEF IInv, TypeOK, Finding, Day, NotYet
    <3>3. rating[f.advisory] = "LOW"
      BY <3>1, <3>2 DEF Rating, BlockingSeverities
    <3>4. today - published[f.advisory] <= GraceDays
      BY <3>1, <3>2, RiskGateAssumption
    <3> QED
      BY <2>2, <3>3, <3>4
  <2> QED
    BY <2>4, <2>5
<1> QED
  BY <1>1, Invariance, PTL

(* Waiting for tomorrow never turns a red gate green: an acceptance only    *)
(* ends and a finding only ages, and what is written stays as it is.        *)
THEOREM NoWaitingItOut == Spec => WaitingNeverHelps
<1>1. ASSUME IInv, [Next]_vars, today' # today, Green' PROVE Green
  <2>1. Tick
    BY <1>1 DEF Next, Publish, Rate, Relock, Accept, Delete, Run, vars
  <2>2. today' = today + 1 /\ UNCHANGED <<published, rating, lock, file>> /\ today \in Int
    BY <1>1, <2>1, RiskGateAssumption DEF Tick, IInv, TypeOK, Day
  <2>3. Collected' = Collected
    BY <2>2, SameFindings
  <2>4. PICK F \in Collected : Passes(F, {})'
    BY <1>1, <2>3 DEF Green
  <2>5. Risks' = Risks
    BY <2>2 DEF Risks
  <2>6. ASSUME NEW e \in Risks, ContentOK(e)' PROVE ContentOK(e)
    <3>1. e.until \in Int
      BY <1>1 DEF IInv, TypeOK, Risks, Entry
    <3>2. e.until > e.added /\ e.until - e.added <= Limit(e) /\ e.until >= today + 1
      BY <2>2, <2>6 DEF ContentOK, Limit
    <3> QED
      BY <2>2, <3>1, <3>2 DEF ContentOK
  <2>7. FileOK
    BY <2>2, <2>4, <2>5, <2>6 DEF Passes, FileOK
  <2>8. ASSUME NEW f \in F, Blocks(f, {}) PROVE FALSE
    <3>1. f \in Finding
      BY CollectedFacts DEF MayFind
    <3>2. published[f.advisory] \in Int
      BY <1>1, <3>1, RiskGateAssumption DEF IInv, TypeOK, Finding, Day, NotYet
    <3>3. today - published[f.advisory] > GraceDays => today + 1 - published[f.advisory] > GraceDays
      BY <2>2, <3>2, RiskGateAssumption
    <3>4. Accepted(f)' <=> Accepted(f)
      BY <2>5 DEF Accepted
    <3>5. rating' = rating /\ published' = published /\ today' = today + 1
      BY <2>2
    <3>6. today' - published'[f.advisory] > GraceDays <=> today + 1 - published[f.advisory] > GraceDays
      <4>1. PICK n \in Int : n = published[f.advisory]
        BY <3>2
      <4>2. PICK m \in Int : m = today
        BY <2>2
      <4> QED
        BY <3>5, <4>1, <4>2
    <3>7. Blocks(f, {})'
      BY <2>8, <3>3, <3>4, <3>5, <3>6 DEF Blocks, Severity
    <3> QED
      BY <2>4, <3>7 DEF Passes
  <2>9. UnusedAcceptances(F) = {}
    BY <2>4, <2>5 DEF Passes, UnusedAcceptances
  <2> QED
    BY <2>7, <2>8, <2>9 DEF Green, Passes
<1> QED
  BY <1>1, Invariance, PTL DEF Spec, WaitingNeverHelps

-----------------------------------------------------------------------------
(* The order of the records. *)

(* A vulnerability has one record of GitHub, and its other records agree on *)
(* its names.  Where either fails, preferred keeps the last or the first of *)
(* two records that may be judged differently, and the order does decide.   *)
OneGithubRecord == \A r, s \in Github : CanonicalKey(r) = CanonicalKey(s) => r = s
SameAliases ==
  \A r, s \in Record \ Github : CanonicalKey(r) = CanonicalKey(s) => Names(r) = Names(s)

(* Two ways to collect keep the same record, or two that nobody rates.      *)
LEMMA Counterpart ==
  ASSUME OneGithubRecord, SameAliases, NEW F \in Collected, NEW G \in Collected, NEW f \in F
  PROVE  \E g \in G : /\ g.package = f.package /\ Names(g.advisory) = Names(f.advisory)
                      /\ \/ g = f
                         \/ {f.advisory, g.advisory} \subseteq Record \ Github
<1>1. f \in MayFind
  BY CollectedFacts
<1>2. PICK g \in G : Same(g, f)
  BY <1>1, CollectedFacts
<1>3. g \in MayFind
  BY CollectedFacts
<1> DEFINE x == f.project
           p == f.package
<1>4. /\ f \in Finding /\ g \in Finding /\ g.project = x /\ g.package = p
      /\ CanonicalKey(g.advisory) = CanonicalKey(f.advisory)
  BY <1>1, <1>2, <1>3 DEF MayFind, Same
<1>5. /\ \E r \in Reported(x, p) : f.advisory \in Kept(x, p, r)
      /\ \E r \in Reported(x, p) : g.advisory \in Kept(x, p, r)
  BY <1>1, <1>3, <1>4 DEF MayFind
<1> HIDE DEF x, p
<1>6. PICK r \in Reported(x, p) : f.advisory \in Kept(x, p, r)
  BY <1>5
<1>7. PICK s \in Reported(x, p) : g.advisory \in Kept(x, p, s)
  BY <1>5
<1>8. CanonicalKey(r) = CanonicalKey(f.advisory) /\ CanonicalKey(s) = CanonicalKey(g.advisory)
  BY <1>6, <1>7 DEF Kept, Preferred
<1>9. Kept(x, p, r) = Kept(x, p, s)
  BY <1>4, <1>8 DEF Kept
<1>10. {f.advisory, g.advisory} \subseteq Record
  BY <1>4 DEF Finding
<1>11. CASE Kept(x, p, r) \cap Github = {}
  BY <1>2, <1>4, <1>6, <1>7, <1>9, <1>10, <1>11 DEF SameAliases, p
<1>12. CASE Kept(x, p, r) \cap Github # {}
  <2>1. Kept(x, p, r) \subseteq Github
    BY <1>12 DEF Kept, Preferred
  <2>2. f.advisory = g.advisory
    BY <1>4, <1>6, <1>7, <1>9, <2>1 DEF OneGithubRecord
  <2>3. f = g
    BY <1>4, <2>2 DEF Finding, x, p
  <2> QED
    BY <2>3
<1> QED
  BY <1>11, <1>12

(* The order in which the database lists the records of a vulnerability     *)
(* does not decide whether the gate is green, as long as GitHub has one     *)
(* record of it and the other records agree on its names.                   *)
THEOREM OrderIsFree ==
  ASSUME OneGithubRecord, SameAliases
  PROVE  Spec => []OrderDecidesNothing
<1>1. ASSUME IInv, NEW F \in Collected, NEW G \in Collected, Passes(F, {})
      PROVE  Passes(G, {})
  <2>1. ASSUME NEW g \in G, Blocks(g, {}) PROVE FALSE
    <3>1. PICK f \in F : /\ f.package = g.package /\ Names(f.advisory) = Names(g.advisory)
                         /\ \/ f = g
                            \/ {g.advisory, f.advisory} \subseteq Record \ Github
      BY Counterpart
    <3>2. ~Blocks(f, {})
      BY <1>1 DEF Passes
    <3>3. CASE f = g
      BY <2>1, <3>2, <3>3
    <3>4. CASE {g.advisory, f.advisory} \subseteq Record \ Github
      <4>1. rating[f.advisory] = "UNKNOWN"
        BY <1>1, <3>4 DEF IInv, RatingInv
      <4>2. Accepted(f)
        BY <3>2, <4>1 DEF Blocks, Severity, BlockingSeverities
      <4>3. Accepted(g)
        BY <3>1, <4>2 DEF Accepted, Covers, Identifiers
      <4> QED
        BY <2>1, <4>3 DEF Blocks
    <3> QED
      BY <3>1, <3>3, <3>4
  <2>2. ASSUME NEW e \in Risks PROVE \E g \in G : Covers(e, g.package, Identifiers(g))
    <3>1. PICK f \in F : Covers(e, f.package, Identifiers(f))
      BY <1>1 DEF Passes, UnusedAcceptances
    <3>2. PICK g \in G : g.package = f.package /\ Names(g.advisory) = Names(f.advisory)
      BY Counterpart
    <3> QED
      BY <3>1, <3>2 DEF Covers, Identifiers
  <2> QED
    BY <1>1, <2>1, <2>2 DEF Passes, UnusedAcceptances
<1>2. IInv => OrderDecidesNothing
  BY <1>1 DEF OrderDecidesNothing
<1> QED
  BY <1>2, Invariance, PTL
=============================================================================
