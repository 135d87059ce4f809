----------------------------- MODULE MCRiskGate -----------------------------
(***************************************************************************)
(* A small instance of RiskGate for TLC: one vulnerability with a GitHub   *)
(* record, a Python record and a CVE number, in two packages, each of      *)
(* them used by one of two projects.                                       *)
(***************************************************************************)
EXTENDS RiskGate, TLC

CONSTANTS ghsa, pysec, cve, x, y, p, q

MCAliases == ghsa :> {pysec, cve} @@ pysec :> {cve}

MCUses == x :> {p} @@ y :> {q}

(* In time, in time without a fix, and over either limit. *)
MCTerms == {[days |-> 2, noFix |-> FALSE], [days |-> 1, noFix |-> TRUE],
            [days |-> 3, noFix |-> FALSE], [days |-> 2, noFix |-> TRUE]}

=============================================================================
