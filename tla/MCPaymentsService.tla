-------------------------- MODULE MCPaymentsService --------------------------
(***************************************************************************)
(* Small instances of PaymentsService for TLC.                             *)
(***************************************************************************)
EXTENDS PaymentsService, TLC

Symmetric ==
  Permutations(Worker) \cup Permutations(Relay) \cup Permutations(Booking)
    \cup Permutations(Event) \cup Permutations(Amount)
=============================================================================
