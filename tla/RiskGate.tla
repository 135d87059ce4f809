------------------------------ MODULE RiskGate ------------------------------
(***************************************************************************)
(* The gate on known vulnerabilities: tools/dependency_audit.py with the   *)
(* list of accepted risks of tools/accepted_risks.py.  A change may be     *)
(* merged when the gate is green.  Around it move the calendar, the public *)
(* database (records appear and get rated), the lock files and the file of *)
(* acceptances; `uv audit` and the OSV API may fail whenever they are      *)
(* asked.                                                                  *)
(*                                                                         *)
(* One vulnerability has several names: a GitHub record, a Python record   *)
(* and a CVE number, of which each record names all or some of the others. *)
(***************************************************************************)
EXTENDS Integers, FiniteSets

CONSTANTS Project, Package,
          Uses,                \* the packages that each project depends on
          Record,              \* records of the OSV database, by their names
          Github,              \* the records whose name starts with GHSA-
          Cve,                 \* the names that start with CVE-
          Aliases,             \* the other names of each record
          Terms,               \* the terms of acceptance people write down
          GraceDays,           \* days that a finding of no blocking level may stay
          MaxDays,             \* the longest acceptance, ...
          MaxDaysWithoutFix,   \* ... and the longest when no fix exists
          LastDay,             \* bound: the calendar ends
          MaxEntries           \* bound: entries of the file

Names(r) == {r} \cup Aliases[r]
Name == UNION {Names(r) : r \in Record}
Day == 0 .. LastDay
NotYet == LastDay + 1

ASSUME RiskGateAssumption ==
  /\ Uses \in [Project -> SUBSET Package] /\ Github \subseteq Record
  /\ Terms \subseteq [days : Int, noFix : BOOLEAN]
  /\ GraceDays \in Nat /\ MaxDays \in Nat /\ MaxDaysWithoutFix \in Nat
  /\ LastDay \in Nat /\ MaxEntries \in Nat

VARIABLES today,
          published,  \* the day each record appeared
          rating,     \* the severity word each record carries
          lock,       \* packages in a vulnerable version, in each project's lock file
          file,       \* security/accepted-risks.toml
          verdict     \* what the gate says of all this, once it has been asked

vars == <<today, published, rating, lock, file, verdict>>

Rating == {"HIGH", "LOW", "UNKNOWN"}

(* An entry whose fields are not all there or not of their types, and one   *)
(* whose fields are; its reason is long enough and its link an address.     *)
Broken == [id |-> "broken"]
Entry == [id : Name, package : Package, added : Day, until : Int, noFix : BOOLEAN]

TypeOK ==
  /\ today \in Day
  /\ published \in [Record -> Day \cup {NotYet}]
  /\ rating \in [Record -> Rating]
  /\ lock \in [Project -> SUBSET Package]
  /\ file \subseteq Entry \cup {Broken} /\ Cardinality(file) <= MaxEntries
  /\ verdict \in {"none", "green", "red"}

-----------------------------------------------------------------------------
(* accepted_risks.py *)

Risks == file \ {Broken}

Covers(e, package, identifiers) == e.package = package /\ e.id \in identifiers

Limit(e) == IF e.noFix THEN MaxDaysWithoutFix ELSE MaxDays

(* Mutant: the limit is counted from today. *)
ContentOKFromToday(e) ==
  /\ e.until > e.added
  /\ e.until - today <= Limit(e)
  /\ e.until >= today

(* Mutant: an acceptance never expires. *)
ContentOKForever(e) == e.until > e.added /\ e.until - e.added <= Limit(e)

ContentOK(e) ==
  /\ e.until > e.added
  /\ e.until - e.added <= Limit(e)
  /\ e.until >= today

(* parse: no broken entry, no advisory accepted twice, every content allowed. *)
FileOK ==
  /\ Broken \notin file
  /\ \A d, e \in Risks : d.id = e.id /\ d.package = e.package => d = e
  /\ \A e \in Risks : ContentOK(e)

-----------------------------------------------------------------------------
(* dependency_audit.py: the findings. *)

(* What the audit of project x reports about one package. *)
Reported(x, p) == IF p \in lock[x] THEN {r \in Record : published[r] # NotYet} ELSE {}

(* The CVE number that the names of a vulnerability share, if they have one. *)
CanonicalKey(r) == IF Names(r) \cap Cve = {} THEN r ELSE CHOOSE c \in Names(r) \cap Cve : TRUE

(* Mutant: the record that was reported first is kept. *)
PreferredFirst(R) == R

(* Of the records of one vulnerability, reported in an order nobody fixes,  *)
(* the last GitHub one is kept, or else the first.                          *)
Preferred(R) == IF R \cap Github = {} THEN R ELSE R \cap Github

Kept(x, p, r) == Preferred({s \in Reported(x, p) : CanonicalKey(s) = CanonicalKey(r)})

(* findings_of, collect: one finding per project, package and vulnerability. *)
Finding == [project : Project, package : Package, advisory : Record]

MayFind ==
  {f \in Finding : \E r \in Reported(f.project, f.package) :
                     f.advisory \in Kept(f.project, f.package, r)}

Same(f, g) ==
  /\ f.project = g.project /\ f.package = g.package
  /\ CanonicalKey(f.advisory) = CanonicalKey(g.advisory)

Collected ==
  LET M == MayFind
  IN {F \in SUBSET M : \A g \in M : Cardinality({f \in F : Same(f, g)}) = 1}

-----------------------------------------------------------------------------
(* dependency_audit.py: the judgement. *)

Identifiers(f) == Names(f.advisory)

BlockingSeverities == {"HIGH", "UNKNOWN"}

(* osv_severity: an answer other than 200 is no rating. *)
Severity(r, unanswered) == IF r \in unanswered THEN "UNKNOWN" ELSE rating[r]

Accepted(f) == \E e \in Risks : Covers(e, f.package, Identifiers(f))

Blocks(f, unanswered) ==
  /\ ~Accepted(f)
  /\ \/ Severity(f.advisory, unanswered) \in BlockingSeverities
     \/ today - published[f.advisory] > GraceDays

UnusedAcceptances(F) ==
  {e \in Risks : \A f \in F : ~Covers(e, f.package, Identifiers(f))}

(* run, when every project could be audited. *)
Passes(F, unanswered) ==
  /\ FileOK
  /\ \A f \in F : ~Blocks(f, unanswered)
  /\ UnusedAcceptances(F) = {}

-----------------------------------------------------------------------------
Init ==
  /\ today = 0
  /\ published = [r \in Record |-> NotYet]
  /\ rating = [r \in Record |-> "UNKNOWN"]
  /\ lock = Uses
  /\ file = {}
  /\ verdict = "none"

Tick ==
  /\ today < LastDay
  /\ today' = today + 1
  /\ verdict' = "none"
  /\ UNCHANGED <<published, rating, lock, file>>

Publish(r) ==
  /\ published[r] = NotYet
  /\ published' = [published EXCEPT ![r] = today]
  /\ verdict' = "none"
  /\ UNCHANGED <<today, rating, lock, file>>

(* Only GitHub rates; "LOW" stands for any word that does not block at once. *)
Rate(r, severity) ==
  /\ r \in Github /\ published[r] # NotYet
  /\ rating' = [rating EXCEPT ![r] = severity]
  /\ verdict' = "none"
  /\ UNCHANGED <<today, published, lock, file>>

Relock(x, P) ==
  /\ lock' = [lock EXCEPT ![x] = P]
  /\ verdict' = "none"
  /\ UNCHANGED <<today, published, rating, file>>

Accept(e) ==
  /\ Cardinality(file \cup {e}) <= MaxEntries
  /\ file' = file \cup {e}
  /\ verdict' = "none"
  /\ UNCHANGED <<today, published, rating, lock>>

Delete(e) ==
  /\ file' = file \ {e}
  /\ verdict' = "none"
  /\ UNCHANGED <<today, published, rating, lock>>

(* Mutant: a project whose audit failed has no findings. *)
RunSkippingFailures ==
  \E failed \in SUBSET Project, unanswered \in SUBSET Record :
    \E F \in Collected :
      LET G == {f \in F : f.project \notin failed}
      IN /\ verdict' = IF Passes(G, unanswered) THEN "green" ELSE "red"
         /\ UNCHANGED <<today, published, rating, lock, file>>

(* The gate runs: a list that cannot be used, an audit that fails and a     *)
(* call of the API that raises end it at once.                              *)
Run ==
  /\ \E audited, answered \in BOOLEAN, unanswered \in SUBSET Record, F \in Collected :
       verdict' = IF audited /\ answered /\ Passes(F, unanswered) THEN "green" ELSE "red"
  /\ UNCHANGED <<today, published, rating, lock, file>>

(* Nobody dates a decision later than the day it is made, though `added`    *)
(* may be left as it was when an entry is renewed.                          *)
Next ==
  \/ Tick
  \/ \E r \in Record : Publish(r) \/ \E s \in Rating : Rate(r, s)
  \/ \E x \in Project : \E P \in SUBSET Uses[x] : Relock(x, P)
  \/ Accept(Broken)
  \/ \E n \in Name, p \in Package, d \in 0 .. today, t \in Terms :
       Accept([id |-> n, package |-> p, added |-> d, until |-> d + t.days, noFix |-> t.noFix])
  \/ \E e \in file : Delete(e)
  \/ Run

Spec == Init /\ [][Next]_vars

-----------------------------------------------------------------------------
(* Properties. *)

Green == \E F \in Collected : Passes(F, {})

(* "A gate that guesses is worse than no gate": whatever could not be       *)
(* audited or asked, a green gate would be green with every answer in hand. *)
FailsClosed == verdict = "green" => Green

(* A gate that is red about the code as it stands is not turned green by    *)
(* waiting: no deadline comes into force late, nothing ages out.            *)
WaitingNeverHelps == [][today' # today /\ ~Green => ~Green']_vars

(* Behind a green gate every vulnerability that is public and installed has *)
(* a record that is rated low and young, or one that names what somebody    *)
(* decided to live with in this package, no longer ago than the policy lets. *)
ShippedIsDecided ==
  verdict = "green" =>
    \A x \in Project, p \in Package : \A r \in Reported(x, p) : \E k \in Kept(x, p, r) :
      \/ rating[k] = "LOW" /\ today - published[k] <= GraceDays
      \/ \E e \in Risks : /\ e.package = p /\ e.id \in Names(k)
                          /\ today - e.added <= Limit(e)

(* The order in which the database lists the records of a vulnerability     *)
(* does not decide whether a change may be merged.                          *)
OrderDecidesNothing ==
  \A F, G \in Collected : Passes(F, {}) <=> Passes(G, {})
=============================================================================
