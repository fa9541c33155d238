--------------------------- MODULE MCSafetyStream ---------------------------
(***************************************************************************)
(* SafetyStream for TLC: 4-bit words.                                      *)
(***************************************************************************)
EXTENDS SafetyStream

\* The defaults of SafetyForwardOpenConfig.
FromAllOnes == {[ts |-> Word - 1, roll |-> Word - 1]}
\* With two that are FromZero, the second as late as can be.
SomeInitials == FromAllOnes \cup {[ts |-> 0, roll |-> 0], [ts |-> 5, roll |-> 0]}
==============================================================================
