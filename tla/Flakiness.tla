----------------------------- MODULE Flakiness -----------------------------
(***************************************************************************)
(* The rules of the quality hub on flaky tests                             *)
(* (services/quality-hub/src/quality_hub/flakiness.py), applied to the     *)
(* life of one test: its runs are reported one by one, it is put into      *)
(* quarantine when it is called flaky, and leaves when it has earned it.   *)
(*                                                                         *)
(* The rules are pure functions.  The hub that stores the runs and the     *)
(* entry is not in the repository; Report, OpenEntry and CloseEntry follow *)
(* what the docstrings and ADR-0015 say of it.                             *)
(***************************************************************************)
EXTENDS Naturals, Sequences, FiniteSets

CONSTANTS Commit,                   \* commits the test is run on
          Window,                   \* FlakinessPolicy: conclusive runs looked at,
          MinRuns,                  \*   needed for a statistical verdict,
          Flips, Pairs,             \*   flip_rate_threshold, as Flips / Pairs,
          QuarantineTTL,            \*   life of an entry,
          StableRunsToRelease,      \*   clean runs that release a test
          NoEntry,                  \* not in quarantine
          MaxRuns, MaxTime          \* bounds: length of the history, the clock

(* The defaults satisfy this (test_flakiness.py:73-81); the class checks nothing. *)
ASSUME FlakinessPolicyAssumption ==
  /\ Window \in Nat \ {0} /\ MinRuns \in 1 .. Window
  /\ Flips \in Nat \ {0} /\ Pairs \in Nat \ {0} /\ Flips <= Pairs
  /\ QuarantineTTL \in Nat
  /\ StableRunsToRelease \in Nat /\ StableRunsToRelease >= Window
  /\ MaxRuns \in Nat /\ MaxTime \in Nat

VARIABLES runs,    \* the history of the test, oldest first
          entry,   \* its quarantine entry
          now

vars == <<runs, entry, now>>

CaseStatus == {"passed", "failed", "error", "skipped"}

ConclusiveStatuses == CaseStatus \ {"skipped"}

(* The elements a testcase may contain; one that passed contains none. *)
Tag == {"failure", "error", "skipped"}

CaseRun == [commit : Commit, status : CaseStatus]

QuarantineEntry == [openedAt : 0 .. MaxTime, since : 0 .. Len(runs)]

-----------------------------------------------------------------------------
(* The rules. *)

(* A teardown can break after the body did: the first of the tags counts. *)
StatusOf(tags) ==
  CASE "failure" \in tags -> "failed"
    [] "error" \in tags /\ "failure" \notin tags -> "error"
    [] tags = {"skipped"} -> "skipped"
    [] OTHER -> "passed"

Said(history) == {i \in DOMAIN history : history[i].status \in ConclusiveStatuses}

Nth(X, k) == CHOOSE i \in X : Cardinality({j \in X : j < i}) = k - 1

(* The conclusive runs, in the order of the history. *)
Conclusive(history) ==
  [k \in 1 .. Cardinality(Said(history)) |-> history[Nth(Said(history), k)]]

(* Mutant: what broke outside the body of the test counts as a pass. *)
FailedInBody(run) == run.status = "failed"

Failed(run) == run.status # "passed"

FlippedOnSameCommit(history) ==
  LET recent == Conclusive(history)
  IN \E i, j \in DOMAIN recent :
       recent[i].commit = recent[j].commit /\ Failed(recent[i]) # Failed(recent[j])

LastOf(n, history) ==
  SubSeq(history, IF Len(history) > n THEN Len(history) - n + 1 ELSE 1, Len(history))

(* Mutant: skipped runs use up the window. *)
WindowWithSkipped(history) == Conclusive(LastOf(Window, history))

WindowOf(history) == LastOf(Window, Conclusive(history))

(* flip_rate(history) >= flip_rate_threshold, without the division. *)
FlipsTooOften(history) ==
  LET recent == WindowOf(history)
      flips == {i \in 1 .. Len(recent) - 1 : Failed(recent[i]) # Failed(recent[i + 1])}
  IN Len(recent) >= 2 /\ Cardinality(flips) * Pairs >= Flips * (Len(recent) - 1)

(* A proof comes before the minimum of runs, a defect before the statistics. *)
Classify(history) ==
  LET recent == WindowOf(history)
  IN IF FlippedOnSameCommit(recent) THEN "flaky"
     ELSE IF Len(recent) < MinRuns THEN "not_enough_data"
     ELSE IF \A i \in DOMAIN recent : Failed(recent[i]) THEN "broken"
     ELSE IF FlipsTooOften(recent) THEN "flaky"
     ELSE "stable"

ShouldQuarantine(history) == Classify(history) = "flaky"

IsExpired(e) == now >= e.openedAt + QuarantineTTL

(* Mutant: a clean history that is too short is clean enough. *)
EarnedReleaseEarly(history) ==
  LET recent == LastOf(StableRunsToRelease, Conclusive(history))
  IN recent # <<>> /\ \A i \in DOMAIN recent : ~Failed(recent[i])

EarnedRelease(history) ==
  LET recent == LastOf(StableRunsToRelease, Conclusive(history))
  IN /\ Len(recent) = StableRunsToRelease
     /\ \A i \in DOMAIN recent : ~Failed(recent[i])

RunsSince(e) == SubSeq(runs, e.since + 1, Len(runs))

QuarantineState(e) ==
  IF EarnedRelease(RunsSince(e)) THEN "released"
  ELSE IF IsExpired(e) THEN "expired"
  ELSE "active"

(* quarantined_ids: failures of this test do not block the build. *)
Excused == entry # NoEntry /\ QuarantineState(entry) = "active"

-----------------------------------------------------------------------------
(* The life of a test. *)

TypeOK ==
  /\ runs \in Seq(CaseRun) /\ Len(runs) <= MaxRuns
  /\ entry \in QuarantineEntry \cup {NoEntry}
  /\ now \in 0 .. MaxTime

Init == runs = <<>> /\ entry = NoEntry /\ now = 0

Report(c, tags) ==
  /\ Len(runs) < MaxRuns
  /\ runs' = Append(runs, [commit |-> c, status |-> StatusOf(tags)])
  /\ UNCHANGED <<entry, now>>

OpenEntry ==
  /\ entry = NoEntry
  /\ ShouldQuarantine(runs)
  /\ entry' = [openedAt |-> now, since |-> Len(runs)]
  /\ UNCHANGED <<runs, now>>

CloseEntry ==
  /\ entry # NoEntry
  /\ QuarantineState(entry) = "released"
  /\ entry' = NoEntry
  /\ UNCHANGED <<runs, now>>

Tick ==
  /\ now < MaxTime
  /\ now' = now + 1
  /\ UNCHANGED <<runs, entry>>

Next ==
  \/ \E c \in Commit, tags \in SUBSET Tag : Report(c, tags)
  \/ OpenEntry
  \/ CloseEntry
  \/ Tick

Spec == Init /\ [][Next]_vars

-----------------------------------------------------------------------------
(* Properties. *)

(* A test that has earned its release is not called flaky again on the runs *)
(* that released it, although the verdict looks at the whole history and    *)
(* the release only at the runs since the entry was opened.                 *)
ReleasedIsNotFlaky ==
  entry # NoEntry /\ QuarantineState(entry) = "released" => ~ShouldQuarantine(runs)

(* A test is called flaky only if it passed and failed within the last      *)
(* `window` conclusive runs: neither a test that only breaks, in its body   *)
(* or outside of it, nor one that healed long ago.                          *)
FlakyHasBothOutcomes ==
  ShouldQuarantine(runs) =>
    LET said == Conclusive(runs)
        recent == {i \in DOMAIN said : i + Window > Len(said)}
    IN /\ \E i \in recent : said[i].status = "passed"
       /\ \E i \in recent : said[i].status \in {"failed", "error"}

(* "A skipped test is neither evidence of health nor of flakiness": however *)
(* many are reported, no verdict changes and no entry changes its state.    *)
SkippedSaysNothing ==
  [][\A c \in Commit : Report(c, {"skipped"}) =>
       /\ Classify(runs') = Classify(runs)
       /\ entry # NoEntry => QuarantineState(entry)' = QuarantineState(entry)]_vars
=============================================================================
