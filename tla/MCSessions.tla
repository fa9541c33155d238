----------------------------- MODULE MCSessions -----------------------------
EXTENDS Sessions, TLC

CONSTANTS a, a1, a2

\* Client a has two threads that share its connection.
Threads == a1 :> a @@ a2 :> a
=============================================================================
