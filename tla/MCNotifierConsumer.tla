------------------------- MODULE MCNotifierConsumer -------------------------
(***************************************************************************)
(* Small instances of NotifierConsumer for TLC.                            *)
(***************************************************************************)
EXTENDS NotifierConsumer, TLC

Symmetric == Permutations(Consumer)
=============================================================================
