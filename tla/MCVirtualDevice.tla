--------------------------- MODULE MCVirtualDevice ---------------------------
(***************************************************************************)
(* VirtualDevice for TLC: the kinds of connection the runs open.           *)
(***************************************************************************)
EXTENDS VirtualDevice, TLC

\* An ordinary I/O connection, in both directions.
IoProfile == [consumes |-> TRUE, produces |-> TRUE, explicit |-> FALSE]
\* A connection that only produces: oto_t_rpi is 0.
ListenProfile == [consumes |-> FALSE, produces |-> TRUE, explicit |-> FALSE]
\* A class 3 connection: no assemblies, so nothing is produced.
ExplicitProfile == [consumes |-> TRUE, produces |-> FALSE, explicit |-> TRUE]

OneIo == {IoProfile}
ListenOrExplicit == {ListenProfile, ExplicitProfile}
IoOrExplicit == {IoProfile, ExplicitProfile}

OnePort == {"2222"}
TwoPorts == {"2222", "other"}

Symmetry == Permutations(Clients) \cup Permutations(Triads)
==============================================================================
