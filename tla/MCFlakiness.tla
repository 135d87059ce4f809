---------------------------- MODULE MCFlakiness ----------------------------
(***************************************************************************)
(* Small instances of Flakiness for TLC.                                   *)
(***************************************************************************)
EXTENDS Flakiness, TLC

Symmetric == Permutations(Commit)
=============================================================================
