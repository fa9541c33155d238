------------------------------ MODULE Sessions ------------------------------
(***************************************************************************)
(* Encapsulation sessions over TCP: TagClients whose threads share one     *)
(* socket (tag_client.cpp), and the adapter that serves every connection   *)
(* on a read thread of its own (eip_adapter.cpp, session_manager.cpp,      *)
(* tcp_socket.cpp) and is stopped at any time.                             *)
(*                                                                         *)
(* A connection carries messages in order until it breaks or an end closes *)
(* it; recv returns one or all of those that have arrived.  The handlers   *)
(* behind the adapter return without throwing.  A client is connected and  *)
(* disconnected while none of its other threads is in a call, and uses     *)
(* only its own session.  Closing a socket wakes the thread that is        *)
(* blocked on it, as Windows does (on POSIX it need not).                  *)
(***************************************************************************)
EXTENDS Integers, Sequences, FiniteSets, SequencesExt

CONSTANTS
  Client, Thread,
  Owner,          \* thread -> its client
  Main,           \* the threads that connect and disconnect their client
  Connected,      \* clients made with use_connected: they open a class 3 connection
  MaxConns,       \* bound on TCP connections ever made
  MaxEvents,      \* bound on connections made, requests and failures together
  MaxBreaks,      \* bound on connections that break
  Nobody

Conn == 1..MaxConns

ASSUME SessionsAssumption ==
  /\ Owner \in [Thread -> Client] /\ Main \subseteq Thread /\ Nobody \notin Thread
  /\ Connected \subseteq Client
  /\ MaxConns \in Nat /\ MaxEvents \in Nat /\ MaxBreaks \in Nat

VARIABLES
  adapter, closing, joining,  \* the adapter; connections stop() has to close, and joins
  sessions, nextHandle,       \* SessionManager
  target,                     \* class 3 connections open at the target, by their serials
  thread,                     \* where each connection's read thread is
  accum, reply,               \* the messages it has received, the reply it is sending
  session,                    \* PerClient::session_handle
  closed,                     \* closed_
  toServer, toClient,         \* what is on its way
  hungUp, broken,             \* the client has closed its end; the network has failed
  socket, handle, class3,     \* of each client: its connection, session and class3_open_
  io,                         \* the thread that holds io_mu_
  pc, job,                    \* where each thread is, and the commands it has to send
  conns, events, breaks       \* counters

adapterVars == <<adapter, closing, joining>>
tables == <<sessions, nextHandle, target>>
server == <<thread, accum, reply, session, closed>>
links == <<toServer, toClient, hungUp, broken>>
client == <<socket, handle, class3, io, pc, job>>
bounds == <<conns, events, breaks>>
vars == <<adapterVars, tables, server, links, client, bounds>>

NoReply == [id |-> 0, ok |-> FALSE, handle |-> 0]

Init ==
  /\ adapter = "running" /\ closing = {} /\ joining = 0
  /\ sessions = {} /\ nextHandle = 0 /\ target = {}
  /\ thread = [k \in Conn |-> "none"] /\ accum = [k \in Conn |-> <<>>]
  /\ reply = [k \in Conn |-> NoReply] /\ session = [k \in Conn |-> 0]
  /\ closed = [k \in Conn |-> FALSE]
  /\ toServer = [k \in Conn |-> <<>>] /\ toClient = [k \in Conn |-> <<>>]
  /\ hungUp = [k \in Conn |-> FALSE] /\ broken = [k \in Conn |-> FALSE]
  /\ socket = [c \in Client |-> 0] /\ handle = [c \in Client |-> 0]
  /\ class3 = [c \in Client |-> FALSE] /\ io = [c \in Client |-> Nobody]
  /\ pc = [t \in Thread |-> "idle"] /\ job = [t \in Thread |-> <<>>]
  /\ conns = 0 /\ events = 0 /\ breaks = 0

\* Each end sees the connection fail when the other end or the network has closed it.
Dead(k) == broken[k] \/ hungUp[k] \/ closed[k]

---------------------------------------------------------------------------
\* The client.

Calls(t) == {u \in Thread : u # t /\ Owner[u] = Owner[t] /\ pc[u] # "idle"}
Start(t, commands) == job' = [job EXCEPT ![t] = commands]
Event == events < MaxEvents /\ events' = events + 1
Go(t, l) == pc' = [pc EXCEPT ![t] = l]

\* connect: a TCP connection, which the adapter accepts, then RegisterSession, and
\* open_class3.  A socket left by a call that failed must be disconnected first.
Connect(t) ==
  LET c == Owner[t] IN
  /\ t \in Main /\ pc[t] = "idle" /\ Calls(t) = {} /\ socket[c] = 0
  /\ adapter = "running" /\ conns < MaxConns /\ Event
  /\ conns' = conns + 1
  /\ socket' = [socket EXCEPT ![c] = conns']
  /\ thread' = [thread EXCEPT ![conns'] = "recv"]
  /\ Start(t, IF c \in Connected THEN <<"register", "open">> ELSE <<"register">>)
  /\ Go(t, "send")
  /\ UNCHANGED <<adapterVars, tables, accum, reply, session, closed, links, handle, class3,
                 io, breaks>>

\* Any tag service, by send_cip_with_status.
Request(t) ==
  /\ pc[t] = "idle" /\ socket[Owner[t]] # 0
  /\ \A u \in Calls(t) : pc[u] # "leave" /\ job[u] = <<"read">>
  /\ Event
  /\ Start(t, <<"read">>) /\ Go(t, "send")
  /\ UNCHANGED <<adapterVars, tables, server, links, socket, handle, class3, io, conns, breaks>>

Message(t, command) ==
  [command |-> command, handle |-> handle[Owner[t]], id |-> t, serial |-> socket[Owner[t]]]

\* A call that throws ends; a class 3 close that fails is swallowed.
Fail(t) == IF Head(job[t]) = "close" THEN Go(t, "leave") ELSE Go(t, "idle")

\* Mutant: the mutex covers the sending only.
SendUnlocked(t) ==
  LET c == Owner[t]  k == socket[c] IN
  /\ pc[t] = "send" /\ io[c] = Nobody /\ ~Dead(k)
  /\ toServer' = [toServer EXCEPT ![k] = Append(@, Message(t, Head(job[t])))]
  /\ class3' = [class3 EXCEPT ![c] = @ /\ Head(job[t]) # "close"]
  /\ Go(t, "wait")
  /\ UNCHANGED <<adapterVars, tables, server, toClient, hungUp, broken, socket, handle, job,
                 io, bounds>>

\* send_encapsulated takes the mutex and sends; close_class3 has cleared its flag.
Send(t) ==
  LET c == Owner[t]  k == socket[c] IN
  /\ pc[t] = "send" /\ io[c] = Nobody /\ ~Dead(k)
  /\ io' = [io EXCEPT ![c] = t]
  /\ toServer' = [toServer EXCEPT ![k] = Append(@, Message(t, Head(job[t])))]
  /\ class3' = [class3 EXCEPT ![c] = @ /\ Head(job[t]) # "close"]
  /\ Go(t, "wait")
  /\ UNCHANGED <<adapterVars, tables, server, toClient, hungUp, broken, socket, handle, job,
                 bounds>>

SendFails(t) ==
  LET c == Owner[t] IN
  /\ pc[t] = "send" /\ io[c] = Nobody /\ Dead(socket[c])
  /\ class3' = [class3 EXCEPT ![c] = @ /\ Head(job[t]) # "close"]
  /\ Fail(t)
  /\ UNCHANGED <<adapterVars, tables, server, links, socket, handle, job, io, bounds>>

\* The header and the body of a reply, whoever's it is; an error status throws, and so does
\* a session handle of 0 (connect).  The first handle that comes is the session's.
Receive(t) ==
  LET c == Owner[t]  k == socket[c]  r == Head(toClient[k])
      good == r.ok /\ (Head(job[t]) = "register" => handle'[c] # 0)
  IN /\ pc[t] = "wait" /\ toClient[k] # <<>>
     /\ toClient' = [toClient EXCEPT ![k] = Tail(@)]
     /\ io' = [io EXCEPT ![c] = Nobody]
     /\ handle' = [handle EXCEPT ![c] = IF @ = 0 THEN r.handle ELSE @]
     /\ class3' = [class3 EXCEPT ![c] = @ \/ (good /\ Head(job[t]) = "open")]
     /\ Start(t, Tail(job[t]))
     /\ IF good
        THEN Go(t, IF Len(job[t]) > 1 THEN "send"
                   ELSE IF Head(job[t]) = "close" THEN "leave" ELSE "idle")
        ELSE Fail(t)
     /\ UNCHANGED <<adapterVars, tables, server, toServer, hungUp, broken, socket, bounds>>

\* Mutant: the mutex stays locked when the call throws.
ReceiveFailsLocked(t) ==
  /\ pc[t] = "wait" /\ toClient[socket[Owner[t]]] = <<>> /\ Dead(socket[Owner[t]])
  /\ Fail(t)
  /\ UNCHANGED <<adapterVars, tables, server, links, socket, handle, class3, io, job, bounds>>

\* recv returns nothing more: the call throws.
ReceiveFails(t) ==
  LET c == Owner[t] IN
  /\ pc[t] = "wait" /\ toClient[socket[c]] = <<>> /\ Dead(socket[c])
  /\ io' = [io EXCEPT ![c] = Nobody]
  /\ Fail(t)
  /\ UNCHANGED <<adapterVars, tables, server, links, socket, handle, class3, job, bounds>>

\* disconnect: the class 3 connection is closed first.
Disconnect(t) ==
  LET c == Owner[t] IN
  /\ t \in Main /\ pc[t] = "idle" /\ Calls(t) = {} /\ socket[c] # 0
  /\ IF class3[c] THEN Start(t, <<"close">>) /\ Go(t, "send")
                  ELSE UNCHANGED job /\ Go(t, "leave")
  /\ UNCHANGED <<adapterVars, tables, server, links, socket, handle, class3, io, bounds>>

\* Mutant: the session is not forgotten.
LeaveKeeping(t) ==
  LET c == Owner[t]  k == socket[c] IN
  /\ pc[t] = "leave"
  /\ toServer' = IF handle[c] # 0 /\ ~Dead(k)
                 THEN [toServer EXCEPT ![k] = Append(@, Message(t, "unregister"))]
                 ELSE toServer
  /\ hungUp' = [hungUp EXCEPT ![k] = TRUE]
  /\ socket' = [socket EXCEPT ![c] = 0]
  /\ Go(t, "idle")
  /\ UNCHANGED <<adapterVars, tables, server, toClient, broken, handle, class3, io, job, bounds>>

\* UnregisterSession, to which there is no reply, and the socket is closed.
Leave(t) ==
  LET c == Owner[t]  k == socket[c] IN
  /\ pc[t] = "leave"
  /\ toServer' = IF handle[c] # 0 /\ ~Dead(k)
                 THEN [toServer EXCEPT ![k] = Append(@, Message(t, "unregister"))]
                 ELSE toServer
  /\ hungUp' = [hungUp EXCEPT ![k] = TRUE]
  /\ socket' = [socket EXCEPT ![c] = 0] /\ handle' = [handle EXCEPT ![c] = 0]
  /\ Go(t, "idle")
  /\ UNCHANGED <<adapterVars, tables, server, toClient, broken, class3, io, job, bounds>>

---------------------------------------------------------------------------
\* The read thread of a connection.

At(k, l) == thread' = [thread EXCEPT ![k] = l]

Recv(k) ==
  /\ thread[k] = "recv" /\ ~closed[k] /\ toServer[k] # <<>>
  /\ \E n \in {1, Len(toServer[k])} :
       /\ accum' = [accum EXCEPT ![k] = @ \o SubSeq(toServer[k], 1, n)]
       /\ toServer' = [toServer EXCEPT ![k] = SubSeq(@, n + 1, Len(@))]
  /\ At(k, "parse")
  /\ UNCHANGED <<adapterVars, tables, reply, session, closed, toClient, hungUp, broken, client,
                 bounds>>

\* recv fails, or the loop ends because closed_ is set.
RecvEnds(k) ==
  /\ thread[k] = "recv"
  /\ closed[k] \/ (toServer[k] = <<>> /\ (hungUp[k] \/ broken[k]))
  /\ At(k, "onclosed")
  /\ UNCHANGED <<adapterVars, tables, accum, reply, session, closed, links, client, bounds>>

Parsed(k) ==
  /\ thread[k] = "parse" /\ accum[k] = <<>>
  /\ At(k, "recv")
  /\ UNCHANGED <<adapterVars, tables, accum, reply, session, closed, links, client, bounds>>

Answer(k, m, ok, h) ==
  reply' = [reply EXCEPT ![k] = [id |-> m.id, ok |-> ok, handle |-> h]] /\ At(k, "reply")

\* dispatch_message takes the next message off accum.
Take(k, command) ==
  /\ thread[k] = "parse" /\ accum[k] # <<>> /\ Head(accum[k]).command = command
  /\ accum' = [accum EXCEPT ![k] = Tail(@)]
  /\ UNCHANGED <<adapterVars, closed, links, client, bounds>>

\* handle_register_session: a connection that has a session gets no second one.
HandleRegister(k) ==
  LET m == Head(accum[k]) IN
  /\ Take(k, "register")
  /\ IF session[k] # 0
     THEN Answer(k, m, FALSE, m.handle) /\ UNCHANGED <<sessions, nextHandle, session>>
     ELSE /\ nextHandle' = nextHandle + 1
          /\ sessions' = sessions \cup {nextHandle'}
          /\ session' = [session EXCEPT ![k] = nextHandle']
          /\ Answer(k, m, TRUE, nextHandle')
  /\ UNCHANGED target

\* handle_unregister_session: the handle of the message; no reply.
HandleUnregister(k) ==
  /\ Take(k, "unregister")
  /\ sessions' = sessions \ {Head(accum[k]).handle}
  /\ session' = [session EXCEPT ![k] = 0]
  /\ At(k, "parse")
  /\ UNCHANGED <<nextHandle, target, reply>>

Valid(k, m) == session[k] # 0 /\ m.handle \in sessions

\* handle_send_rr_data and handle_send_unit_data: an invalid session is an error.
HandleData(k, command) ==
  LET m == Head(accum[k]) IN
  /\ Take(k, command)
  /\ Answer(k, m, Valid(k, m), IF Valid(k, m) THEN session[k] ELSE m.handle)
  /\ target' = IF ~Valid(k, m) THEN target
               ELSE IF command = "open" THEN target \cup {m.serial}
               ELSE IF command = "close" THEN target \ {m.serial} ELSE target
  /\ UNCHANGED <<sessions, nextHandle, session>>

\* send: nothing once closed_ is set; the peer may be gone without the first send noticing.
SendReply(k) ==
  /\ thread[k] = "reply"
  /\ \/ closed[k] /\ UNCHANGED toClient
     \/ ~closed[k] /\ ~broken[k] /\ ~hungUp[k]
        /\ toClient' = [toClient EXCEPT ![k] = Append(@, reply[k])]
     \/ ~closed[k] /\ (broken[k] \/ hungUp[k]) /\ UNCHANGED toClient
  /\ reply' = [reply EXCEPT ![k] = NoReply]
  /\ At(k, "parse")
  /\ UNCHANGED <<adapterVars, tables, accum, session, closed, toServer, hungUp, broken, client,
                 bounds>>

\* A send that fails closes the connection; the thread is its own, so it detaches and
\* goes on with what it has received.
SendReplyFails(k) ==
  /\ thread[k] = "reply" /\ ~closed[k] /\ (broken[k] \/ hungUp[k])
  /\ closed' = [closed EXCEPT ![k] = TRUE]
  /\ reply' = [reply EXCEPT ![k] = NoReply]
  /\ At(k, "parse")
  /\ UNCHANGED <<adapterVars, tables, accum, session, links, client, bounds>>

\* Mutant: the session of a connection that is lost is not taken out of the table.
OnClosedKeeping(k) ==
  /\ thread[k] = "onclosed" /\ At(k, "close")
  /\ UNCHANGED <<adapterVars, tables, accum, reply, session, closed, links, client, bounds>>

\* The closed callback unregisters the connection's session, if it has one ...
OnClosed(k) ==
  /\ thread[k] = "onclosed" /\ At(k, "close")
  /\ sessions' = sessions \ {session[k]}
  /\ UNCHANGED <<adapterVars, nextHandle, target, accum, reply, session, closed, links, client,
                 bounds>>

\* ... and the thread closes the connection and ends.
CloseSelf(k) ==
  /\ thread[k] = "close" /\ At(k, "done")
  /\ closed' = [closed EXCEPT ![k] = TRUE]
  /\ UNCHANGED <<adapterVars, tables, accum, reply, session, links, client, bounds>>

---------------------------------------------------------------------------
\* Stopping the adapter, and the network.

\* stop: no more connections are accepted; those that live are listed.
Stop ==
  /\ adapter = "running" /\ adapter' = "stopping"
  /\ closing' = {k \in Conn : thread[k] \notin {"none", "done"}}
  /\ UNCHANGED <<joining, tables, server, links, client, bounds>>

\* Mutant: the thread is joined before the socket is closed.
StopJoinsFirst ==
  /\ adapter = "stopping" /\ joining = 0
  /\ \E k \in closing : ~closed[k] /\ joining' = k
  /\ UNCHANGED <<adapter, closing, tables, server, links, client, bounds>>

\* close of each: the first to set closed_ closes the socket ...
StopCloses ==
  /\ adapter = "stopping" /\ joining = 0
  /\ \E k \in closing : ~closed[k] /\ closed' = [closed EXCEPT ![k] = TRUE] /\ joining' = k
  /\ UNCHANGED <<adapter, closing, tables, thread, accum, reply, session, links, client, bounds>>

\* ... and joins the read thread; a connection that is closed already is left.
StopJoins ==
  /\ joining # 0 /\ thread[joining] = "done"
  /\ closing' = closing \ {joining} /\ joining' = 0
  /\ UNCHANGED <<adapter, tables, server, links, client, bounds>>

StopSkips ==
  /\ adapter = "stopping" /\ joining = 0
  /\ \E k \in closing : closed[k] /\ closing' = closing \ {k}
  /\ UNCHANGED <<adapter, joining, tables, server, links, client, bounds>>

Stopped ==
  /\ adapter = "stopping" /\ closing = {} /\ adapter' = "stopped"
  /\ UNCHANGED <<closing, joining, tables, server, links, client, bounds>>

\* The network fails a connection that both ends hold open, and may lose what was under way.
Break ==
  /\ breaks < MaxBreaks /\ Event /\ breaks' = breaks + 1
  /\ \E k \in 1..conns :
       /\ ~Dead(k) /\ broken' = [broken EXCEPT ![k] = TRUE]
       /\ \/ UNCHANGED <<toServer, toClient>>
          \/ /\ toServer' = [toServer EXCEPT ![k] = <<>>]
             /\ toClient' = [toClient EXCEPT ![k] = <<>>]
  /\ UNCHANGED <<adapterVars, tables, server, hungUp, client, conns>>

ClientStep(t) == Send(t) \/ SendFails(t) \/ Receive(t) \/ ReceiveFails(t) \/ Leave(t)
ServerStep(k) ==
  \/ Recv(k) \/ RecvEnds(k) \/ Parsed(k)
  \/ HandleRegister(k) \/ HandleUnregister(k)
  \/ \E command \in {"read", "open", "close"} : HandleData(k, command)
  \/ SendReply(k) \/ SendReplyFails(k) \/ OnClosed(k) \/ CloseSelf(k)
StopStep == StopCloses \/ StopJoins \/ StopSkips \/ Stopped

Next ==
  \/ \E t \in Thread : Connect(t) \/ Request(t) \/ Disconnect(t) \/ ClientStep(t)
  \/ \E k \in Conn : ServerStep(k)
  \/ Stop \/ StopStep \/ Break

\* The threads run; whether anything is asked of them is up to the application.
Spec == /\ Init /\ [][Next]_vars
        /\ \A t \in Thread : WF_vars(ClientStep(t))
        /\ \A k \in Conn : WF_vars(ServerStep(k))
        /\ WF_vars(StopStep)

---------------------------------------------------------------------------
\* Properties.

Ids(messages) == [i \in DOMAIN messages |-> messages[i].id]

\* The requests and the reply of a connection that are under way.
Outstanding(k) ==
  Ids(toClient[k]) \o (IF thread[k] = "reply" THEN <<reply[k].id>> ELSE <<>>)
  \o Ids(accum[k]) \o Ids(toServer[k])

TypeOK ==
  /\ adapter \in {"running", "stopping", "stopped"} /\ joining \in closing \cup {0}
  /\ sessions \subseteq 1..nextHandle /\ nextHandle <= conns /\ target \subseteq Conn
  /\ thread \in [Conn -> {"none", "recv", "parse", "reply", "onclosed", "close", "done"}]
  /\ \A c \in Client : socket[c] \in 0..conns /\ handle[c] \in 0..nextHandle
  /\ \A t \in Thread : pc[t] \in {"idle", "send", "wait", "leave"}
  /\ \A c \in Client : io[c] \in Thread \cup {Nobody}

\* Every session in the table belongs to one connection whose thread still runs, and goes
\* away with it, however the connection ends: nothing is left when the clients are gone.
SessionsAccounted ==
  \A h \in sessions :
    Cardinality({k \in Conn : session[k] = h /\ thread[k] \notin {"close", "done"}}) = 1

\* A client's session is the one that its present connection was given: a handle of a
\* connection that was lost is never used on the next.
HandleOfConnection ==
  \A c \in Client : handle[c] # 0 =>
    socket[c] # 0 /\ session[socket[c]] \in {handle[c], 0}

\* Replies carry nothing that a client compares: the reply that a thread takes answers its
\* own request, because at any time only the holder of the mutex has one on its way.
ReplyIsOwn ==
  \A t \in Thread : pc[t] = "wait" =>
    \E out \in {Outstanding(socket[Owner[t]])} : out = <<>> \/ out = <<t>>

\* Every call that waits for its reply returns or throws, if the adapter is stopped, or a
\* connection breaks, or another thread is using the socket.
CallsEnd == \A t \in Thread : pc[t] \in {"send", "wait"} ~> pc[t] \notin {"send", "wait"}

\* stop() returns.
StopEnds == adapter = "stopping" ~> adapter = "stopped"

\* What tcp_socket.hpp says of close, "Close the socket and join the read thread", through
\* stop: when it has returned no read thread runs on.
StopWaits == adapter = "stopped" => \A k \in Conn : thread[k] \in {"none", "done"}
=============================================================================
