----------------------------- MODULE MCScanner -----------------------------
EXTENDS Scanner, TLC

CONSTANTS plain, class3, safe

\* An I/O connection, an explicit one, and a safety pair, on one scanner.
Kinds == plain :> "io" @@ class3 :> "explicit" @@ safe :> "safety"
=============================================================================
