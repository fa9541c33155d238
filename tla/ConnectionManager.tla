-------------------------- MODULE ConnectionManager --------------------------
(***************************************************************************)
(* ConnectionManagerObject (CIP class 0x06): the table of I/O connections  *)
(* of a target and the handlers that change it.  Each handler is split     *)
(* where it releases mu_ or touches an atomic, so that the handlers of     *)
(* different threads interleave as they do in the program.  What the       *)
(* device does in the on_connection_established and on_connection_removed  *)
(* callbacks is in VirtualDevice, which extends this module: a thread that *)
(* reaches "established" or "callbacks" is inside them.                    *)
(*                                                                         *)
(* Requests that fail to parse, name an assembly that does not exist or    *)
(* use one assembly for both directions are refused before any state is    *)
(* touched, so they are not steps of the model.                            *)
(***************************************************************************)
EXTENDS Integers, FiniteSets

CONSTANTS Clients,     \* TCP clients; one reader thread each runs their requests
          Watchdog,    \* the device's watchdog thread
          UdpThread,   \* the UDP dispatch thread
          App,         \* the application thread that closes the device
          Triads,      \* (serial number, vendor, originator serial) triples
          Profiles,    \* the kinds of connection a Forward Open asks for
          MaxOpens     \* bound on successful Forward Opens (the ids are 32 bit)

Threads == Clients \cup {Watchdog, UdpThread, App}

\* consumes: oto_t_rpi # 0.  produces: a produced assembly and tto_o_rpi > 0.
\* explicit: transport class 3.
Profile == [consumes : BOOLEAN, produces : BOOLEAN, explicit : BOOLEAN]

ASSUME ManagerAssumption ==
  /\ MaxOpens \in Nat \ {0}
  /\ Clients # {} /\ Triads # {} /\ Profiles # {}
  /\ Profiles \subseteq Profile
  /\ Watchdog \notin Clients /\ UdpThread \notin Clients /\ App \notin Clients
  /\ Watchdog # UdpThread /\ Watchdog # App /\ UdpThread # App

ConnIds == 1..MaxOpens
NoConn == 0

\* What a Forward Open fixes in its IoConnection; "owner" records the client
\* that sent it, which the code does not store.
ConnInfo == [triad : Triads, profile : Profiles, owner : Clients]

ConnectionState == {"NonExistent", "Established", "TimedOut"}

VARIABLES
  connections,          \* connections_: the ids in the table
  next_connection_id,   \* next_connection_id_
  info,                 \* the IoConnection allocated under each id
  state,                \* IoConnection::state
  at,                   \* where each thread is
  cur                   \* the IoConnection a thread holds a reference to

managerVars == <<connections, next_connection_id, info, state, at, cur>>

Goto(a, label) == at' = [at EXCEPT ![a] = label]

ManagerInit ==
  /\ connections = {}
  /\ next_connection_id = 0
  /\ info = [c \in ConnIds |-> CHOOSE i \in ConnInfo : TRUE]
  /\ state = [c \in ConnIds |-> "NonExistent"]
  /\ at = [a \in Threads |-> "idle"]
  /\ cur = [a \in Threads |-> NoConn]

-----------------------------------------------------------------------------
(* process_forward_open                                                    *)

NewIdOffByOne == next_connection_id    \* mutant: fetch_add(1) without the + 1
NewId == next_connection_id + 1

\* The duplicate-triad check holds mu_ and releases it before the connection
\* is allocated and filled in; nothing can see the new IoConnection yet, so
\* the check and the allocation are one step and the insertion is another.
ForwardOpenCheck(a, t, p) ==
  /\ at[a] = "idle"
  /\ NewId <= MaxOpens
  /\ \A c \in connections : info[c].triad # t
  /\ next_connection_id' = next_connection_id + 1
  /\ info' = [info EXCEPT ![NewId] = [triad |-> t, profile |-> p, owner |-> a]]
  /\ state' = [state EXCEPT ![NewId] = "Established"]
  /\ cur' = [cur EXCEPT ![a] = NewId]
  /\ Goto(a, "insert")
  /\ UNCHANGED connections

ForwardOpenInsert(a) ==
  /\ at[a] = "insert"
  /\ connections' = connections \cup {cur[a]}
  /\ Goto(a, "established")
  /\ UNCHANGED <<next_connection_id, info, state, cur>>

-----------------------------------------------------------------------------
(* handle_forward_close, remove_connection, timeout_connection             *)

\* mutant: the connection is found but stays in the table
ForwardCloseFind(a, c) ==
  /\ at[a] = "idle"
  /\ c \in connections
  /\ cur' = [cur EXCEPT ![a] = c]
  /\ Goto(a, "closing")
  /\ UNCHANGED <<connections, next_connection_id, info, state>>

\* Find and pop under one lock.  c is any connection with the triad of the
\* request; with no match the request is answered 0x0107 and nothing changes.
ForwardClosePop(a, c) ==
  /\ at[a] = "idle"
  /\ c \in connections
  /\ connections' = connections \ {c}
  /\ cur' = [cur EXCEPT ![a] = c]
  /\ Goto(a, "closing")
  /\ UNCHANGED <<next_connection_id, info, state>>

TimeoutMark(a) ==
  /\ at[a] = "expire"
  /\ state' = [state EXCEPT ![cur[a]] = "TimedOut"]
  /\ Goto(a, "pop")
  /\ UNCHANGED <<connections, next_connection_id, info, cur>>

\* remove_connection goes on to the callbacks whether or not it found the id.
RemovePop(a) ==
  /\ at[a] = "pop"
  /\ connections' = connections \ {cur[a]}
  /\ Goto(a, "closing")
  /\ UNCHANGED <<next_connection_id, info, state, cur>>

\* IoConnection::close
RemoveClose(a) ==
  /\ at[a] = "closing"
  /\ state' = [state EXCEPT ![cur[a]] = "NonExistent"]
  /\ Goto(a, "callbacks")
  /\ UNCHANGED <<connections, next_connection_id, info, cur>>

ManagerStep(a) ==
  \/ ForwardOpenInsert(a) \/ TimeoutMark(a) \/ RemovePop(a) \/ RemoveClose(a)

-----------------------------------------------------------------------------
\* Thread a is taking c out: it has decided to, and has not yet returned from
\* the on_connection_removed callbacks.
Removing(a, c) ==
  cur[a] = c /\ at[a] \in {"expire", "pop", "closing", "callbacks", "join"}

\* a will still run stop_production_thread for cur[a].
StopPending(a) == at[a] \in {"closing", "callbacks"}
==============================================================================
