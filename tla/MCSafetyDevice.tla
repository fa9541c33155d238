--------------------------- MODULE MCSafetyDevice ---------------------------
(***************************************************************************)
(* SafetyDevice for TLC.                                                   *)
(***************************************************************************)
EXTENDS SafetyDevice, TLC

\* The profile of a connection plays no role for its safety configuration.
OneProfile == {[consumes |-> TRUE, produces |-> TRUE, explicit |-> FALSE]}

Symmetry == Permutations(Clients) \cup Permutations(Triads) \cup Permutations(Configurations)
==============================================================================
