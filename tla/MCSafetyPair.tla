----------------------------- MODULE MCSafetyPair -----------------------------
(***************************************************************************)
(* SafetyPair for TLC.                                                     *)
(***************************************************************************)
EXTENDS SafetyPair
==============================================================================
