--------------------------- MODULE MCSlotPayments ---------------------------
(***************************************************************************)
(* Small instances of SlotPayments for TLC.                                *)
(***************************************************************************)
EXTENDS SlotPayments, TLC

Symmetric ==
  Permutations(Worker) \cup Permutations(Relay) \cup Permutations(Thread)
    \cup Permutations(Booking) \cup Permutations(Event)
=============================================================================
