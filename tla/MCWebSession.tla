---------------------------- MODULE MCWebSession ----------------------------
(***************************************************************************)
(* Small instances of WebSession for TLC.                                  *)
(***************************************************************************)
EXTENDS WebSession
=============================================================================
