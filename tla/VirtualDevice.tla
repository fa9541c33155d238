---------------------------- MODULE VirtualDevice ----------------------------
(***************************************************************************)
(* VirtualDevice: the composition root of a target.  Around the connection *)
(* manager it runs one reader thread per TCP client, the UDP dispatch      *)
(* thread, a watchdog, one production thread per producing connection, and *)
(* the application thread that calls close().                              *)
(*                                                                         *)
(* production_mu_ is a variable because start_production_thread holds it   *)
(* across its lookup in the manager; mu_ and endpoint_mu_ are never held   *)
(* across another step, so a step that takes them is simply atomic.        *)
(* Assembly contents, sequence numbers and wire formats are left out, and  *)
(* time is abstracted to whether last_received is older than the timeout.  *)
(***************************************************************************)
EXTENDS ConnectionManager

CONSTANTS NoThread,    \* the holder of a free mutex; the host of no endpoint
          Ports        \* source ports of the originators' datagrams

\* 2222 is the port the adapter assumes; originators often send from another.
ASSUME DeviceAssumption == NoThread \notin Threads /\ "2222" \in Ports

VARIABLES
  production_threads,  \* keys of production_threads_ and production_cancel_
  production_mu,       \* the holder of production_mu_
  cancel,              \* the cancel flag shared with each production thread
  producer,            \* where the production thread of each connection is
  held,                \* std::thread objects moved out of the map to be joined
  endpoint,            \* remote_host, remote_port, remote_endpoint_set
  last_received,       \* what stored it last, and is it older than the timeout
  first_received,
  answered,            \* connections whose originator has the Forward Open reply
  rx_port,             \* source port of the datagram being handled
  snapshot,            \* active_connections() copy a thread iterates over
  watchdog_running

tableVars == <<connections, next_connection_id, info>>
productionVars == <<production_threads, production_mu, cancel, producer, held>>
timerVars == <<last_received, first_received>>
ioVars == <<endpoint, timerVars, answered, rx_port>>
vars == <<managerVars, productionVars, ioVars, snapshot, watchdog_running>>

NoEndpoint == [host |-> NoThread, port |-> "2222"]
Endpoint == [host : Clients, port : Ports] \cup {NoEndpoint}

Producing == {"sleep", "send"}

Init ==
  /\ ManagerInit
  /\ production_threads = {}
  /\ production_mu = NoThread
  /\ cancel = [c \in ConnIds |-> FALSE]
  /\ producer = [c \in ConnIds |-> "none"]
  /\ held = [a \in Threads |-> {}]
  /\ endpoint = [c \in ConnIds |-> NoEndpoint]
  /\ last_received = [c \in ConnIds |-> [from |-> "open", old |-> FALSE]]
  /\ first_received = [c \in ConnIds |-> FALSE]
  /\ answered = {}
  /\ rx_port = "2222"
  /\ snapshot = [a \in Threads |-> {}]
  /\ watchdog_running = TRUE

-----------------------------------------------------------------------------
(* The handlers of the connection manager: outside its callbacks they do   *)
(* not touch the device.                                                   *)

DeviceUnchanged ==
  UNCHANGED <<productionVars, ioVars, snapshot, watchdog_running>>

\* TcpSocket::stop closes the sockets before it joins the reader threads.
Listening == at[App] \notin {"join clients", "closed"}

ForwardOpen(a) ==
  /\ Listening
  /\ \E t \in Triads, p \in Profiles : ForwardOpenCheck(a, t, p)
  /\ DeviceUnchanged

ForwardClose(a) ==
  /\ Listening
  /\ \E c \in connections : ForwardClosePop(a, c)
  /\ DeviceUnchanged

Manager(a) == ManagerStep(a) /\ DeviceUnchanged

-----------------------------------------------------------------------------
(* on_connection_established, on_connection_ready, start_production_thread *)

OnEstablished(a) ==
  /\ at[a] = "established"
  /\ last_received' = [last_received EXCEPT ![cur[a]] = [from |-> "open", old |-> FALSE]]
  /\ Goto(a, IF info[cur[a]].profile.produces THEN "start" ELSE "opened")
  /\ UNCHANGED <<tableVars, state, cur, productionVars, endpoint, first_received,
                 answered, rx_port, snapshot, watchdog_running>>

\* mutant: the lookup does not keep production_mu_ until the thread exists
StartLookupUnlocked(a) ==
  /\ at[a] = "start"
  /\ production_mu = NoThread
  /\ Goto(a, IF cur[a] \in connections \ production_threads THEN "create" ELSE "opened")
  /\ UNCHANGED <<tableVars, state, cur, productionVars, ioVars, snapshot, watchdog_running>>

\* Under production_mu_, which stays held until the thread exists: a
\* connection that was closed meanwhile gets no thread.
StartLookup(a) ==
  /\ at[a] = "start"
  /\ production_mu = NoThread
  /\ IF cur[a] \in connections \ production_threads
     THEN production_mu' = a /\ Goto(a, "create")
     ELSE UNCHANGED production_mu /\ Goto(a, "opened")
  /\ UNCHANGED <<tableVars, state, cur, production_threads, cancel, producer, held,
                 ioVars, snapshot, watchdog_running>>

StartThread(a) ==
  /\ at[a] = "create"
  /\ production_threads' = production_threads \cup {cur[a]}
  /\ cancel' = [cancel EXCEPT ![cur[a]] = FALSE]
  /\ producer' = [producer EXCEPT ![cur[a]] = "sleep"]
  /\ production_mu' = NoThread
  /\ Goto(a, "opened")
  /\ UNCHANGED <<tableVars, state, cur, held, ioVars, snapshot, watchdog_running>>

-----------------------------------------------------------------------------
(* on_forward_open_reply and on_connection_opened_from_adapter             *)

Unbound == {c \in connections : endpoint[c] = NoEndpoint}

\* The reply leaves: the originator knows the connection and may send.
Reply(a) ==
  /\ answered' = answered \cup {cur[a]}
  /\ cur' = [cur EXCEPT ![a] = NoConn]
  /\ Goto(a, "idle")

\* Class 3 replies skip the callback.  The others take the first connection
\* of an unordered map that has no endpoint yet, which can be any of them.
OpenedLookup(a) ==
  /\ at[a] = "opened"
  /\ IF info[cur[a]].profile.explicit \/ Unbound = {}
     THEN Reply(a) /\ UNCHANGED snapshot
     ELSE /\ \E c \in Unbound : snapshot' = [snapshot EXCEPT ![a] = {c}]
          /\ Goto(a, "bind")
          /\ UNCHANGED <<cur, answered>>
  /\ UNCHANGED <<tableVars, state, productionVars, endpoint, timerVars, rx_port,
                 watchdog_running>>

OpenedBind(a) ==
  /\ at[a] = "bind"
  /\ \E c \in snapshot[a] : endpoint' = [endpoint EXCEPT ![c] = [host |-> a, port |-> "2222"]]
  /\ snapshot' = [snapshot EXCEPT ![a] = {}]
  /\ Reply(a)
  /\ UNCHANGED <<tableVars, state, productionVars, timerVars, rx_port, watchdog_running>>

-----------------------------------------------------------------------------
(* on_connection_removed is stop_production_thread                         *)

StopProductionThread(a) ==
  /\ at[a] = "callbacks"
  /\ production_mu = NoThread
  /\ LET found == {cur[a]} \cap production_threads IN
       /\ cancel' = [c \in ConnIds |-> cancel[c] \/ c \in found]
       /\ held' = [held EXCEPT ![a] = found]
       /\ production_threads' = production_threads \ found
  /\ Goto(a, "join")
  /\ UNCHANGED <<tableVars, state, cur, production_mu, producer, ioVars, snapshot,
                 watchdog_running>>

Joined(a) == \A c \in held[a] : producer[c] = "exited"

\* The removal is over: a Forward Close is answered, the watchdog and close()
\* go on with their loops.
JoinProductionThread(a) ==
  /\ at[a] = "join"
  /\ Joined(a)
  /\ held' = [held EXCEPT ![a] = {}]
  /\ cur' = [cur EXCEPT ![a] = NoConn]
  /\ Goto(a, CASE a = Watchdog -> "scan" [] a = App -> "remove" [] OTHER -> "idle")
  /\ UNCHANGED <<tableVars, state, production_threads, production_mu, cancel, producer,
                 ioVars, snapshot, watchdog_running>>

-----------------------------------------------------------------------------
(* The production thread                                                   *)

\* weak_ptr::lock fails: neither the table nor any thread refers to it.
Expired(c) ==
  /\ c \notin connections
  /\ \A a \in Threads : cur[a] # c /\ c \notin snapshot[a]

MustExitExpired(c) == Expired(c)      \* mutant: only the weak_ptr ends the loop
MustExit(c) == cancel[c] \/ Expired(c) \/ state[c] # "Established"

ProducerWake(c) ==
  /\ producer[c] = "sleep"
  /\ producer' = [producer EXCEPT ![c] = IF MustExit(c) THEN "exited" ELSE "send"]
  /\ UNCHANGED <<managerVars, production_threads, production_mu, cancel, held, ioVars,
                 snapshot, watchdog_running>>

\* produce_io_data: one frame to the endpoint, if there is one.
ProduceIoData(c) ==
  /\ producer[c] = "send"
  /\ producer' = [producer EXCEPT ![c] = "sleep"]
  /\ UNCHANGED <<managerVars, production_threads, production_mu, cancel, held, ioVars,
                 snapshot, watchdog_running>>

Produce(c) == ProducerWake(c) \/ ProduceIoData(c)

-----------------------------------------------------------------------------
(* on_udp_message, on the UDP dispatch thread                              *)

\* Datagrams for an unknown or closed connection are dropped.  The endpoint
\* is replaced when none is set or the port differs; the host is not compared.
UdpReceive(c, port) ==
  /\ at[UdpThread] = "idle"
  /\ at[App] \notin {"stop udp", "stop adapter", "join clients", "closed"}
  /\ c \in connections \cap answered
  /\ info[c].profile.consumes /\ ~info[c].profile.explicit
  /\ state[c] = "Established"
  /\ cur' = [cur EXCEPT ![UdpThread] = c]
  /\ rx_port' = port
  /\ Goto(UdpThread, IF endpoint[c] = NoEndpoint \/ endpoint[c].port # port
                     THEN "learn" ELSE "stamp")
  /\ UNCHANGED <<tableVars, state, productionVars, endpoint, timerVars, answered,
                 snapshot, watchdog_running>>

UdpLearn ==
  /\ at[UdpThread] = "learn"
  /\ LET c == cur[UdpThread] IN
       endpoint' = [endpoint EXCEPT ![c] = [host |-> info[c].owner, port |-> rx_port]]
  /\ Goto(UdpThread, "stamp")
  /\ UNCHANGED <<tableVars, state, cur, productionVars, timerVars, answered, rx_port,
                 snapshot, watchdog_running>>

\* mutant: the frame arms the timer without restarting it
UdpStampSkipped ==
  /\ at[UdpThread] = "stamp"
  /\ Goto(UdpThread, "consume")
  /\ UNCHANGED <<tableVars, state, cur, productionVars, ioVars, snapshot, watchdog_running>>

UdpStamp ==
  /\ at[UdpThread] = "stamp"
  /\ last_received' = [last_received EXCEPT ![cur[UdpThread]] =
                         [from |-> "frame", old |-> FALSE]]
  /\ Goto(UdpThread, "consume")
  /\ UNCHANGED <<tableVars, state, cur, productionVars, endpoint, first_received,
                 answered, rx_port, snapshot, watchdog_running>>

UdpConsume ==
  /\ at[UdpThread] = "consume"
  /\ first_received' = [first_received EXCEPT ![cur[UdpThread]] = TRUE]
  /\ cur' = [cur EXCEPT ![UdpThread] = NoConn]
  /\ Goto(UdpThread, "idle")
  /\ UNCHANGED <<tableVars, state, productionVars, endpoint, last_received, answered,
                 rx_port, snapshot, watchdog_running>>

\* No frame for longer than the connection timeout.
Elapse(c) ==
  /\ c \in connections
  /\ ~last_received[c].old
  /\ last_received' = [last_received EXCEPT ![c].old = TRUE]
  /\ UNCHANGED <<managerVars, productionVars, endpoint, first_received, answered,
                 rx_port, snapshot, watchdog_running>>

-----------------------------------------------------------------------------
(* watchdog_loop                                                           *)

\* mutant: the age is compared the wrong way round
TimeoutDueWhenFresh(c) ==
  /\ state[c] = "Established"
  /\ info[c].profile.consumes
  /\ first_received[c]
  /\ ~last_received[c].old

TimeoutDue(c) ==
  /\ state[c] = "Established"
  /\ info[c].profile.consumes
  /\ first_received[c]
  /\ last_received[c].old

WatchdogUnchanged ==
  UNCHANGED <<tableVars, state, productionVars, ioVars, watchdog_running>>

WatchdogScan ==
  /\ at[Watchdog] = "idle"
  /\ watchdog_running
  /\ snapshot' = [snapshot EXCEPT ![Watchdog] = connections]
  /\ Goto(Watchdog, "scan")
  /\ UNCHANGED cur /\ WatchdogUnchanged

WatchdogExpire(c) ==
  /\ at[Watchdog] = "scan"
  /\ c \in snapshot[Watchdog]
  /\ snapshot' = [snapshot EXCEPT ![Watchdog] = @ \ {c}]
  /\ IF TimeoutDue(c)
     THEN cur' = [cur EXCEPT ![Watchdog] = c] /\ Goto(Watchdog, "expire")
     ELSE UNCHANGED <<cur, at>>
  /\ WatchdogUnchanged

WatchdogSleep ==
  /\ at[Watchdog] = "scan"
  /\ snapshot[Watchdog] = {}
  /\ Goto(Watchdog, "idle")
  /\ UNCHANGED <<cur, snapshot>> /\ WatchdogUnchanged

WatchdogStop ==
  /\ at[Watchdog] = "idle"
  /\ ~watchdog_running
  /\ Goto(Watchdog, "stopped")
  /\ UNCHANGED <<cur, snapshot>> /\ WatchdogUnchanged

-----------------------------------------------------------------------------
(* close()                                                                 *)

\* mutant: close() joins the watchdog without stopping it
CloseForgetsFlag ==
  /\ at[App] = "idle"
  /\ Goto(App, "stop watchdog")
  /\ UNCHANGED <<tableVars, state, cur, productionVars, ioVars, snapshot, watchdog_running>>

CloseBegin ==
  /\ at[App] = "idle"
  /\ watchdog_running' = FALSE
  /\ Goto(App, "stop watchdog")
  /\ UNCHANGED <<tableVars, state, cur, productionVars, ioVars, snapshot>>

\* The watchdog is joined, then stop_production_threads takes every thread.
StopProductionThreads ==
  /\ at[App] = "stop watchdog"
  /\ at[Watchdog] = "stopped"
  /\ production_mu = NoThread
  /\ cancel' = [c \in ConnIds |-> cancel[c] \/ c \in production_threads]
  /\ held' = [held EXCEPT ![App] = production_threads]
  /\ production_threads' = {}
  /\ Goto(App, "join producers")
  /\ UNCHANGED <<tableVars, state, cur, production_mu, producer, ioVars, snapshot,
                 watchdog_running>>

CloseSnapshot ==
  /\ at[App] = "join producers"
  /\ Joined(App)
  /\ held' = [held EXCEPT ![App] = {}]
  /\ snapshot' = [snapshot EXCEPT ![App] = connections]
  /\ Goto(App, "remove")
  /\ UNCHANGED <<tableVars, state, cur, production_threads, production_mu, cancel,
                 producer, ioVars, watchdog_running>>

CloseRemove(c) ==
  /\ at[App] = "remove"
  /\ c \in snapshot[App]
  /\ snapshot' = [snapshot EXCEPT ![App] = @ \ {c}]
  /\ cur' = [cur EXCEPT ![App] = c]
  /\ Goto(App, "pop")
  /\ UNCHANGED <<tableVars, state, productionVars, ioVars, watchdog_running>>

\* The transports are stopped last, and each stop joins its threads.
CloseAdvance(from, to) ==
  /\ at[App] = from
  /\ Goto(App, to)
  /\ UNCHANGED <<tableVars, state, cur, productionVars, ioVars, snapshot, watchdog_running>>

CloseTransports ==
  \/ snapshot[App] = {} /\ CloseAdvance("remove", "stop udp")
  \/ at[UdpThread] = "idle" /\ CloseAdvance("stop udp", "stop adapter")
  \/ CloseAdvance("stop adapter", "join clients")
  \/ (\A a \in Clients : at[a] = "idle") /\ CloseAdvance("join clients", "closed")

-----------------------------------------------------------------------------
Removal(a) == Manager(a) \/ StopProductionThread(a) \/ JoinProductionThread(a)

Request(a) == ForwardOpen(a) \/ ForwardClose(a)

Handler(a) ==
  \/ Removal(a) \/ OnEstablished(a) \/ StartLookup(a) \/ StartThread(a)
  \/ OpenedLookup(a) \/ OpenedBind(a)

UdpHandler == UdpLearn \/ UdpStamp \/ UdpConsume

WatchdogLoop ==
  \/ WatchdogScan \/ WatchdogSleep \/ WatchdogStop
  \/ \E c \in ConnIds : WatchdogExpire(c)
  \/ Removal(Watchdog)

Close ==
  \/ StopProductionThreads \/ CloseSnapshot \/ CloseTransports
  \/ \E c \in ConnIds : CloseRemove(c)
  \/ Removal(App)

Quiescent ==
  /\ at[App] = "closed"
  /\ \A c \in ConnIds : producer[c] \notin Producing
  /\ UNCHANGED vars

Next ==
  \/ \E a \in Clients : Request(a) \/ Handler(a)
  \/ \E c \in ConnIds : Produce(c) \/ Elapse(c) \/ \E p \in Ports : UdpReceive(c, p)
  \/ UdpHandler \/ WatchdogLoop \/ CloseBegin \/ Close \/ Quiescent

\* Every thread that can run is eventually scheduled.  Nothing makes a client
\* send a request, a frame arrive, time pass or the application close.
Fairness ==
  /\ \A a \in Clients : WF_vars(Handler(a))
  /\ \A c \in ConnIds : WF_vars(Produce(c))
  /\ WF_vars(UdpHandler) /\ WF_vars(WatchdogLoop) /\ WF_vars(Close)

Spec == Init /\ [][Next]_vars
FairSpec == Spec /\ Fairness

-----------------------------------------------------------------------------
(* Properties                                                              *)

AppLabels == {"stop watchdog", "join producers", "remove", "stop udp",
              "stop adapter", "join clients", "closed"}
RemovalLabels == {"pop", "closing", "callbacks", "join"}
OpenLabels == {"insert", "established", "start", "create", "opened", "bind"}
UdpLabels == {"learn", "stamp", "consume"}
WatchdogLabels == {"scan", "expire", "stopped"}
Labels == {"idle"} \cup AppLabels \cup RemovalLabels \cup OpenLabels
          \cup UdpLabels \cup WatchdogLabels

TableTypeOK ==
  /\ next_connection_id \in 0..MaxOpens
  /\ connections \subseteq 1..next_connection_id
  /\ info \in [ConnIds -> ConnInfo]
  /\ state \in [ConnIds -> ConnectionState]

LabelTypeOK ==
  /\ at \in [Threads -> Labels]
  /\ at[Watchdog] \in {"idle"} \cup WatchdogLabels \cup RemovalLabels
  /\ at[App] \in {"idle"} \cup AppLabels \cup RemovalLabels
  /\ at[UdpThread] \in {"idle"} \cup UdpLabels
  /\ \A a \in Clients : at[a] \in {"idle"} \cup OpenLabels \cup RemovalLabels

RefTypeOK ==
  /\ cur \in [Threads -> ConnIds \cup {NoConn}]
  /\ snapshot \in [Threads -> SUBSET ConnIds]

ProductionTypeOK ==
  /\ production_threads \subseteq ConnIds
  /\ production_mu \in Clients \cup {NoThread}
  /\ cancel \in [ConnIds -> BOOLEAN]
  /\ producer \in [ConnIds -> Producing \cup {"none", "exited"}]
  /\ held \in [Threads -> SUBSET ConnIds]

IoTypeOK ==
  /\ endpoint \in [ConnIds -> Endpoint]
  /\ last_received \in [ConnIds -> [from : {"open", "frame"}, old : BOOLEAN]]
  /\ first_received \in [ConnIds -> BOOLEAN]
  /\ answered \subseteq ConnIds
  /\ rx_port \in Ports
  /\ watchdog_running \in BOOLEAN

\* Types; moreover an id is in the table only after it was allocated, and
\* thread labels are those of the code each thread runs.
TypeOK == TableTypeOK /\ LabelTypeOK /\ RefTypeOK /\ ProductionTypeOK /\ IoTypeOK

\* A production thread is always accounted for: it is in production_threads_,
\* or a thread holds the std::thread and will join it.
ThreadOwned ==
  \A c \in ConnIds : producer[c] \in Producing =>
    c \in production_threads \/ \E a \in Threads : c \in held[a]

\* The connections in the table, and those a removal has popped and for which
\* it will still call stop_production_thread.
Covered == connections \cup {cur[a] : a \in {b \in Threads : StopPending(b)}}

\* No thread in the map is forgotten by the removal of its connection.
RegisteredIsStopped == production_threads \subseteq Covered

\* No production thread outlives the removal of its connection, even when a
\* Forward Close overtakes the Forward Open that is starting the thread: the
\* promise of the comments in the constructor and in start_production_thread.
ProducerAccounted == ThreadOwned /\ RegisteredIsStopped

\* Two Forward Closes never both take the same connection out.
SingleForwardClose ==
  \A a, b \in Clients : a # b /\ at[a] \in RemovalLabels /\ at[b] \in RemovalLabels
                        => cur[a] # cur[b]

\* The inactivity timer counts from a frame, never from the Forward Open: a
\* connection is timed out only if its last_received was stored by
\* on_udp_message.
TimeoutCountsFromFirstFrame ==
  at[Watchdog] = "expire" => last_received[cur[Watchdog]].from = "frame"

\* A consuming connection whose originator has gone silent leaves the table,
\* unless a frame arrives after all or close() has stopped the watchdog.
SilentConnectionRemoved ==
  \A c \in ConnIds :
    (c \in connections /\ info[c].profile.consumes /\ first_received[c])
      ~> (c \notin connections \/ ~last_received[c].old \/ ~watchdog_running)

\* close() returns, whatever the clients were doing when it was called.
CloseReturns == at[App] = "stop watchdog" ~> at[App] = "closed"

-----------------------------------------------------------------------------
(* The lifecycle each connection goes through, as seen from outside        *)

RemovalPending(a, c) ==
  Removing(a, c) \/ c \in held[a] \/ (a = App /\ c \in snapshot[a])

Phase(c) ==
  CASE c \in connections -> "open"
    [] \/ c > next_connection_id
       \/ \E a \in Clients : at[a] = "insert" /\ cur[a] = c -> "new"
    [] c \notin connections /\ \E a \in Threads : RemovalPending(a, c) -> "closing"
    [] OTHER -> "closed"

Lifecycle == INSTANCE ConnectionLifecycle WITH
  Conns <- ConnIds,
  phase <- [c \in ConnIds |-> Phase(c)],
  producing <- {c \in ConnIds : producer[c] \in Producing}

\* A connection is closed for good only after its producer was joined, stays
\* closed, and every close that begins comes to its end.
ImplementsLifecycle == Lifecycle!LifecycleSpec

-----------------------------------------------------------------------------
(* What the sources say and the code does not do                           *)

\* close() tears down all active production threads (virtual_device.hpp).
ClosedMeansStopped ==
  at[App] = "closed" => \A c \in ConnIds : producer[c] \notin Producing

\* The removed callbacks fire once: whoever reaches them is the one that took
\* the connection out of the table (ConcurrentFwdCloseIsSingleShot).
RemovedCallbacksOnce ==
  [][\A a \in {Watchdog, App} :
       at[a] = "pop" /\ at'[a] = "closing" => cur[a] \in connections]_vars

\* A triad names one connection (DuplicateTriadRejected).
TriadUnique ==
  \A c, d \in connections : c # d => info[c].triad # info[d].triad

\* The endpoint stored for a connection is that of its originator.
EndpointOfOriginator ==
  \A c \in ConnIds : endpoint[c] # NoEndpoint => endpoint[c].host = info[c].owner
==============================================================================
