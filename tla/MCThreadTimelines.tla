-------------------------- MODULE MCThreadTimelines --------------------------
(***************************************************************************)
(* Instances of ThreadTimelines for TLC.                                   *)
(***************************************************************************)
EXTENDS ThreadTimelines
=============================================================================
