----------------------------- MODULE MCWebPages -----------------------------
(***************************************************************************)
(* Small instances of WebPages for TLC.                                    *)
(***************************************************************************)
EXTENDS WebPages, TLC

Symmetry == Permutations(Booking) \cup Permutations(Person)
=============================================================================
