------------------------------ MODULE Scanner ------------------------------
(***************************************************************************)
(* The originator: an EipScanner with its TCP session and its UDP          *)
(* transport, and the connections it opens - I/O (scanner_connection.cpp), *)
(* explicit (connected_explicit.cpp) and safety pairs                      *)
(* (safety_scanner_connection.cpp).  A connection has a production thread; *)
(* the transport has one dispatch thread, on which the frames of every     *)
(* connection are handled.                                                 *)
(*                                                                         *)
(* An exchange on TCP is one step here: Sessions models the mutex and the  *)
(* stream below it.  Frames on UDP are lost, duplicated and reordered.     *)
(* Connections are opened and closed by threads of their own, each         *)
(* destroyed when its close() has returned; the scanner is connected and   *)
(* disconnected while none lives, as its users must do.  A callback does   *)
(* not close the connection it is called for.  The target, not modelled    *)
(* here, keeps a connection until it is closed.                            *)
(***************************************************************************)
EXTENDS Naturals, FiniteSets

CONSTANTS
  Conn,           \* connections that are opened, each once
  Kind,           \* what each is: "io", "explicit" or "safety"
  MaxTransports,  \* bound on successful TCP connects
  None

ASSUME ScannerAssumption ==
  /\ Kind \in [Conn -> {"io", "explicit", "safety"}] /\ MaxTransports \in Nat
  /\ None \notin Conn /\ "routes" \notin Conn

VARIABLES
  socket, session,  \* socket_ and session_handle_ are set
  link,             \* the TCP connection works
  transport,        \* udp_transport_: 0, or the number of its port
  running,          \* its socket is open
  made,             \* transports made so far
  onMessage,        \* on_message_: None, "routes" or a safety connection
  routes,           \* the connections whose T->O id is in routes_
  stage,            \* where each connection is in its life
  producer,         \* and its production thread
  handling,         \* the connection whose frame is handled, or "routes" before it is found
  air,              \* frames on their way: <<connection, port>>
  target            \* connections that the target holds: <<connection, part>>

sessionVars == <<socket, session, link>>
udp == <<transport, running, made, onMessage>>
vars == <<sessionVars, udp, routes, stage, producer, handling, air, target>>

Parts(k) == IF Kind[k] = "safety" THEN {<<k, "server">>, <<k, "client">>} ELSE {<<k, "only">>}
Over == {"closed", "left", "refused", "failed"}
Living(k) == stage[k] \notin Over \cup {"none"}

Init ==
  /\ socket = FALSE /\ session = FALSE /\ link = FALSE
  /\ transport = 0 /\ running = FALSE /\ made = 0 /\ onMessage = None /\ routes = {}
  /\ stage = [k \in Conn |-> "none"] /\ producer = [k \in Conn |-> "none"]
  /\ handling = None /\ air = {} /\ target = {}

---------------------------------------------------------------------------
\* The session.

\* connect: the transport is started before the session is registered, and is left running
\* with the socket when that throws.
Connect ==
  /\ ~socket /\ made < MaxTransports
  /\ socket' = TRUE
  /\ \E ok \in BOOLEAN : session' = ok /\ \E up \in {ok, TRUE} : link' = up
  /\ made' = made + 1 /\ transport' = made' /\ running' = TRUE /\ onMessage' = "routes"
  /\ UNCHANGED <<routes, stage, producer, handling, air, target>>

\* disconnect: stop() of the UDP socket ...
Disconnect ==
  /\ socket /\ \A k \in Conn : ~Living(k)
  /\ socket' = FALSE /\ session' = FALSE /\ link' = FALSE
  /\ running' = FALSE
  /\ UNCHANGED <<transport, made, onMessage, routes, stage, producer, handling, air, target>>

\* ... joins the dispatch thread, and the transport is destroyed.
Disconnected ==
  /\ transport # 0 /\ ~running /\ handling = None
  /\ transport' = 0 /\ onMessage' = None
  /\ UNCHANGED <<sessionVars, running, made, routes, stage, producer, handling, air, target>>

\* How send_explicit_raw ends: a reply, an error status, a reply without the data that it
\* should have, or an exception when the request or the reply is lost with the connection.
Replies == {"ok", "refused", "short", "unsent", "unanswered"}
Exchange(r) ==
  /\ session /\ (~link => r = "unsent")
  /\ link' = (link /\ r \notin {"unsent", "unanswered"})
  /\ UNCHANGED <<socket, session>>
Reached(r) == r \in {"ok", "short", "unanswered"}

---------------------------------------------------------------------------
\* Opening.

Stage(k, s) == stage' = [stage EXCEPT ![k] = s]
Ended(r) == IF r = "refused" THEN "refused" ELSE "failed"

\* forward_open and open_explicit: after a success that cannot be read the target's
\* connection is left.
Open(k) ==
  /\ stage[k] = "none" /\ Kind[k] # "safety"
  /\ \E r \in Replies :
       /\ Exchange(r)
       /\ target' = IF Reached(r) THEN target \cup Parts(k) ELSE target
       /\ Stage(k, IF r # "ok" THEN Ended(r) ELSE IF Kind[k] = "io" THEN "opened" ELSE "open")
  /\ UNCHANGED <<udp, routes, producer, handling, air>>

\* routes_mu_ is held, shared, while a handler of a route runs.
RoutesFree == handling # None => Kind[handling] = "safety"

\* start: the route, under the exclusive lock, then the thread.
Start(k) ==
  /\ stage[k] = "opened" /\ Kind[k] = "io" /\ RoutesFree
  /\ routes' = routes \cup {k}
  /\ producer' = [producer EXCEPT ![k] = "loop"]
  /\ Stage(k, "open")
  /\ UNCHANGED <<sessionVars, udp, handling, air, target>>

\* SafetyScannerConnection::open: the server connection ...
OpenServer(k) ==
  /\ stage[k] = "none" /\ Kind[k] = "safety"
  /\ \E r \in Replies :
       /\ Exchange(r)
       /\ target' = IF Reached(r) THEN target \cup {<<k, "server">>} ELSE target
       /\ Stage(k, IF r # "ok" THEN Ended(r) ELSE "server")
  /\ UNCHANGED <<udp, routes, producer, handling, air>>

\* Mutant: the server connection is left when the client connection is refused.
OpenClientOnly(k) ==
  /\ stage[k] = "server"
  /\ \E r \in Replies :
       /\ Exchange(r)
       /\ target' = IF Reached(r) THEN target \cup {<<k, "client">>} ELSE target
       /\ Stage(k, IF r # "ok" THEN Ended(r) ELSE "opened")
  /\ UNCHANGED <<udp, routes, producer, handling, air>>

\* ... and the client connection; when the target refuses it the server connection is closed.
OpenClient(k) ==
  /\ stage[k] = "server"
  /\ \E r \in Replies :
       /\ Exchange(r)
       /\ target' = IF Reached(r) THEN target \cup {<<k, "client">>} ELSE target
       /\ Stage(k, IF r = "ok" THEN "opened" ELSE IF r = "refused" THEN "undo" ELSE "failed")
  /\ UNCHANGED <<udp, routes, producer, handling, air>>

\* Its handler replaces the transport's, under the transport's exclusive lock.
Install(k) ==
  /\ stage[k] = "opened" /\ Kind[k] = "safety" /\ handling = None
  /\ onMessage' = k
  /\ producer' = [producer EXCEPT ![k] = "loop"]
  /\ Stage(k, "open")
  /\ UNCHANGED <<sessionVars, transport, running, made, routes, handling, air, target>>

\* send_connected_mr, or any explicit request besides the connections.
Request ==
  /\ \E r \in Replies : Exchange(r)
  /\ UNCHANGED <<udp, routes, stage, producer, handling, air, target>>

---------------------------------------------------------------------------
\* Closing.

\* open_ is exchanged: what follows is done once.
Close(k) ==
  /\ stage[k] = "open"
  /\ Stage(k, IF Kind[k] = "explicit" THEN "last" ELSE "closing")
  /\ UNCHANGED <<sessionVars, udp, routes, producer, handling, air, target>>

\* Mutant: the route is taken out without the exclusive lock.
UnrouteUnlocked(k) ==
  /\ stage[k] = "closing" /\ Kind[k] = "io"
  /\ routes' = routes \ {k}
  /\ Stage(k, "stopping")
  /\ UNCHANGED <<sessionVars, udp, producer, handling, air, target>>

\* unregister_udp_route waits for the frame that a route handles, whoever's it is.
Unroute(k) ==
  /\ stage[k] = "closing" /\ Kind[k] = "io" /\ RoutesFree
  /\ routes' = routes \ {k}
  /\ Stage(k, "stopping")
  /\ UNCHANGED <<sessionVars, udp, producer, handling, air, target>>

\* set_on_message(nullptr) does, for the safety connection.
Drain(k) ==
  /\ stage[k] = "closing" /\ Kind[k] = "safety" /\ handling = None
  /\ onMessage' = None
  /\ Stage(k, "stopping")
  /\ UNCHANGED <<sessionVars, transport, running, made, routes, producer, handling, air, target>>

\* Mutant: the production thread is detached.
JoinNot(k) ==
  /\ stage[k] = "stopping"
  /\ Stage(k, IF Kind[k] = "safety" THEN "first" ELSE "last")
  /\ UNCHANGED <<sessionVars, udp, routes, producer, handling, air, target>>

Join(k) ==
  /\ stage[k] = "stopping" /\ producer[k] = "done"
  /\ Stage(k, IF Kind[k] = "safety" THEN "first" ELSE "last")
  /\ UNCHANGED <<sessionVars, udp, routes, producer, handling, air, target>>

\* forward_close of each connection, the server's first: an exception is swallowed and an
\* error status is not looked at, so the rest is closed either way.  A pair whose open() is
\* undone has only the server's.
ForwardClose(k) ==
  /\ stage[k] \in {"first", "rest", "last", "undo"}
  /\ \E r \in Replies :
       /\ Exchange(r)
       /\ target' = IF ~Reached(r) THEN target
                    ELSE IF stage[k] \in {"rest", "last"} /\ Kind[k] = "safety"
                         THEN target \ {<<k, "client">>}
                    ELSE target \ {<<k, "only">>, <<k, "server">>}
       /\ Stage(k, CASE stage[k] = "first" -> IF Reached(r) THEN "last" ELSE "rest"
                     [] stage[k] = "rest" -> "left"
                     [] stage[k] = "last" -> IF Reached(r) THEN "closed" ELSE "left"
                     [] stage[k] = "undo" -> IF Reached(r) THEN "refused" ELSE "failed")
  /\ UNCHANGED <<udp, routes, producer, handling, air>>

---------------------------------------------------------------------------
\* The production threads.

\* Mutant: the flag is set once the thread is joined.
StoppingLate(k) == stage[k] \in {"first", "rest", "last"} \cup Over

\* stop_thread_: a ScannerConnection sets it before it takes the route out, a safety
\* connection when it has drained its handler.
Stopping(k) == stage[k] = "stopping" \/ (stage[k] = "closing" /\ Kind[k] = "io")

\* production_loop: a frame is built; a safety connection that is not open sends none.
Produce(k) ==
  /\ producer[k] = "loop"
  /\ \/ Stopping(k) /\ producer' = [producer EXCEPT ![k] = "done"]
     \/ /\ ~Stopping(k) /\ (Kind[k] = "safety" => stage[k] = "open")
        /\ producer' = [producer EXCEPT ![k] = "send"]
  /\ UNCHANGED <<sessionVars, udp, routes, stage, handling, air, target>>

SendIoData(k) ==
  /\ producer[k] = "send" /\ producer' = [producer EXCEPT ![k] = "loop"]
  /\ UNCHANGED <<sessionVars, udp, routes, stage, handling, air, target>>

---------------------------------------------------------------------------
\* The dispatch thread.

\* A frame of a connection that the target holds, to the port that was open at the time.
TargetProduces ==
  /\ \E p \in target : transport # 0 /\ Kind[p[1]] # "explicit"
                       /\ air' = air \cup {<<p[1], transport>>}
  /\ UNCHANGED <<sessionVars, udp, routes, stage, producer, handling, target>>

\* rx_loop and dispatch_loop pass a frame to the handler that is installed, which finds the
\* connection and is run under the lock.
Dispatch ==
  /\ running /\ handling = None
  /\ \E f \in air :
       /\ f[2] = transport
       /\ air' \in {air, air \ {f}}
       /\ handling' = IF onMessage = "routes" THEN IF f[1] \in routes THEN f[1] ELSE None
                      ELSE IF onMessage # None THEN onMessage ELSE None
  /\ UNCHANGED <<sessionVars, udp, routes, stage, producer, target>>

\* on_udp_message has stored the frame, unless the connection is closing, and has called back.
Handled ==
  /\ handling # None /\ handling' = None
  /\ UNCHANGED <<sessionVars, udp, routes, stage, producer, air, target>>

Lose ==
  /\ \E f \in air : air' = air \ {f}
  /\ UNCHANGED <<sessionVars, udp, routes, stage, producer, handling, target>>

Opening(k) == Start(k) \/ OpenClient(k) \/ Install(k)
Closing(k) == Unroute(k) \/ Drain(k) \/ Join(k) \/ ForwardClose(k)

Next ==
  \/ Connect \/ Disconnect \/ Disconnected \/ Request
  \/ \E k \in Conn : \/ Open(k) \/ OpenServer(k) \/ Opening(k) \/ Close(k) \/ Closing(k)
                     \/ Produce(k) \/ SendIoData(k)
  \/ TargetProduces \/ Dispatch \/ Handled \/ Lose

\* The threads run; a lock that is free again and again is granted.
Spec == /\ Init /\ [][Next]_vars
        /\ \A k \in Conn : SF_vars(Closing(k)) /\ WF_vars(Produce(k)) /\ WF_vars(SendIoData(k))
        /\ WF_vars(Handled)

---------------------------------------------------------------------------
\* Properties.

TypeOK ==
  /\ session => socket
  /\ transport \in 0..made /\ made <= MaxTransports /\ (running => transport # 0)
  /\ onMessage \in Conn \cup {None, "routes"} /\ routes \subseteq Conn
  /\ stage \in [Conn -> {"none", "opened", "server", "undo", "open", "closing", "stopping",
                         "first", "rest", "last"} \cup Over]
  /\ producer \in [Conn -> {"none", "loop", "send", "done"}]
  /\ handling \in Conn \cup {None} /\ target \subseteq UNION {Parts(k) : k \in Conn}

\* Nothing is touched that may be destroyed: a frame is handled only for a connection whose
\* close() has not returned, and by a transport that exists (README.md, the drain barrier).
HandledAlive == handling # None => transport # 0 /\ Living(handling)

\* When close() has returned nothing more is produced, and none of its frames is routed.
SilentWhenOver ==
  \A k \in Conn : stage[k] \in Over =>
    producer[k] \in {"none", "done"} /\ k \notin routes /\ onMessage # k

\* What the target holds belongs to a connection that lives, or to one that a broken TCP
\* connection, an unreadable reply or a refused Forward Close kept from closing it; never to
\* one that the target refused, or whose every Forward Close it carried out.
NothingLeft ==
  \A p \in target : Living(p[1]) \/ stage[p[1]] \in {"failed", "left"}

\* close() returns, however the frames and the production interleave with it.
CloseEnds ==
  \A k \in Conn : stage[k] = "closing" ~> stage[k] \in {"closed", "left"}

\* What safety_scanner_connection.hpp:40 says, "shared with other connections via the
\* scanner's UDP route registry": the transport of an open I/O connection passes its frames to
\* the routes.
SharedTransport ==
  \A k \in Conn : stage[k] = "open" /\ Kind[k] = "io" => onMessage = "routes"
=============================================================================
