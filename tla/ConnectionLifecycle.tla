------------------------- MODULE ConnectionLifecycle -------------------------
(***************************************************************************)
(* What a target device promises about one I/O connection, whatever the    *)
(* threads inside it do: a connection is opened once, may produce while it *)
(* is open or being torn down, and is closed for good only after its       *)
(* producer has stopped.  A closed connection never comes back.            *)
(* VirtualDevice implements this specification.                            *)
(***************************************************************************)
CONSTANT Conns

VARIABLES phase,       \* where each connection is in its life
          producing    \* the connections that own a running producer

lifecycleVars == <<phase, producing>>

Phases == {"new", "open", "closing", "closed"}

LifecycleTypeOK ==
  /\ phase \in [Conns -> Phases]
  /\ producing \subseteq Conns

LifecycleInit ==
  /\ phase = [c \in Conns |-> "new"]
  /\ producing = {}

Advance(c, from, to) ==
  /\ phase[c] = from
  /\ phase' = [phase EXCEPT ![c] = to]
  /\ UNCHANGED producing

Open(c) == Advance(c, "new", "open")

BeginClose(c) == Advance(c, "open", "closing")

\* The join comes before the end of the close.  A close() that joins many
\* producers may end the closes of many connections at once.
EndClose(ended) ==
  /\ ended # {} /\ ended \cap producing = {}
  /\ \A c \in ended : phase[c] = "closing"
  /\ phase' = [c \in Conns |-> IF c \in ended THEN "closed" ELSE phase[c]]
  /\ UNCHANGED producing

CloseEnds(c) == \E ended \in SUBSET Conns : c \in ended /\ EndClose(ended)

StartProducing(c) ==
  /\ phase[c] \in {"open", "closing"}
  /\ c \notin producing
  /\ producing' = producing \cup {c}
  /\ UNCHANGED phase

StopProducing(c) ==
  /\ c \in producing
  /\ producing' = producing \ {c}
  /\ UNCHANGED phase

StopWhenClosing(c) == phase[c] = "closing" /\ StopProducing(c)

LifecycleNext ==
  \E c \in Conns :
    Open(c) \/ BeginClose(c) \/ CloseEnds(c) \/ StartProducing(c) \/ StopProducing(c)

LifecycleSpec ==
  /\ LifecycleInit /\ [][LifecycleNext]_lifecycleVars
  /\ \A c \in Conns : /\ WF_lifecycleVars(StopWhenClosing(c))
                      /\ WF_lifecycleVars(CloseEnds(c))
==============================================================================
