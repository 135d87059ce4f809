--------------------------- MODULE MCBookingService ---------------------------
(***************************************************************************)
(* Small instances of BookingService for TLC, which also checks the        *)
(* inductive invariant that the proofs use.                                *)
(***************************************************************************)
EXTENDS BookingService_proofs

==============================================================================
