--------------------------- MODULE Sessions_proofs ---------------------------
(***************************************************************************)
(* Proofs about Sessions, for any number of clients, threads, connections, *)
(* requests and failures.                                                  *)
(***************************************************************************)
EXTENDS Sessions, FiniteSetTheorems, SequenceTheorems, TLAPS

Commands == {"register", "open", "read", "close", "unregister"}
Msg == [command : Commands, handle : Nat, id : Thread, serial : Nat]
Rep == [id : Thread, ok : BOOLEAN, handle : Nat]
Jobs == {<<>>, <<"read">>, <<"open">>, <<"close">>, <<"register">>, <<"register", "open">>}
Registers == {<<"register">>, <<"register", "open">>}

\* A queue that holds one message at the most.
Holds(q, S) == q = <<>> \/ (q = <<q[1]>> /\ q[1] \in S)

TypeInv ==
  /\ conns \in Nat /\ conns <= MaxConns /\ nextHandle \in Nat /\ sessions \subseteq 1..nextHandle
  /\ DOMAIN thread = Conn /\ DOMAIN accum = Conn /\ DOMAIN reply = Conn /\ DOMAIN closed = Conn
  /\ DOMAIN toServer = Conn /\ DOMAIN toClient = Conn
  /\ DOMAIN hungUp = Conn /\ DOMAIN broken = Conn
  /\ session \in [Conn -> Nat] /\ \A k \in Conn : session[k] <= nextHandle
  /\ socket \in [Client -> Nat] /\ \A c \in Client : socket[c] <= conns
  /\ handle \in [Client -> Nat] /\ io \in [Client -> Thread \cup {Nobody}]
  /\ pc \in [Thread -> {"idle", "send", "wait", "leave"}] /\ job \in [Thread -> Jobs]

\* The threads of a client take turns, and connect and disconnect alone.
TurnInv ==
  /\ \A c \in Client : io[c] # Nobody => Owner[io[c]] = c /\ pc[io[c]] = "wait"
  /\ \A t \in Thread :
       /\ pc[t] = "wait" => io[Owner[t]] = t
       /\ pc[t] # "idle" => socket[Owner[t]] # 0
       /\ pc[t] \in {"send", "wait"} => job[t] # <<>>
       /\ pc[t] \in {"send", "wait"} /\ job[t] \in Registers => handle[Owner[t]] = 0
       /\ \A u \in Thread :
            t # u /\ Owner[t] = Owner[u] /\ pc[t] # "idle" /\ pc[u] # "idle"
              => pc[t] # "leave" /\ job[t] = <<"read">>
  /\ \A c, d \in Client : socket[c] = socket[d] /\ socket[c] # 0 => c = d

\* There is one message at the most on a connection, wherever it is.
Idle(k) ==
  toServer[k] = <<>> /\ accum[k] = <<>> /\ thread[k] # "reply" /\ toClient[k] = <<>>
QueueOf(k) ==
  /\ Holds(toServer[k], Msg) /\ Holds(accum[k], Msg) /\ Holds(toClient[k], Rep)
  /\ thread[k] = "reply" => reply[k] \in Rep
  /\ toServer[k] # <<>> => accum[k] = <<>> /\ thread[k] # "reply" /\ toClient[k] = <<>>
  /\ accum[k] # <<>> => thread[k] # "reply" /\ toClient[k] = <<>>
  /\ thread[k] = "reply" => toClient[k] = <<>>

\* It belongs to the thread that waits on the connection; with nobody waiting there is one
\* only on a connection that is dead.
Waits(t, k) == pc[t] = "wait" /\ socket[Owner[t]] = k
WaitOf(k) ==
  /\ \A t \in Thread : Waits(t, k) =>
       /\ toServer[k] # <<>> => toServer[k][1].id = t
       /\ accum[k] # <<>> => accum[k][1].id = t
       /\ thread[k] = "reply" => reply[k].id = t
       /\ toClient[k] # <<>> => toClient[k][1].id = t
  /\ Dead(k) \/ Idle(k) \/ \E t \in Thread : Waits(t, k)

\* The message and the client know the connection's session, or none; and none as long as
\* the connection is not registered.
Agrees(k, h) == h = 0 \/ session[k] \in {h, 0}
HandleOf(k) ==
  /\ toServer[k] # <<>> => Agrees(k, toServer[k][1].handle)
  /\ accum[k] # <<>> => Agrees(k, accum[k][1].handle)
  /\ thread[k] = "reply" => Agrees(k, reply[k].handle)
  /\ toClient[k] # <<>> => Agrees(k, toClient[k][1].handle)
  /\ \A q \in {toServer[k], accum[k]} : q # <<>> =>
       /\ q[1].command = "unregister" => q[1].handle # 0
       /\ q[1].command = "register" => \A c \in Client : socket[c] = k => handle[c] = 0
ConnInv ==
  /\ HandleOfConnection
  /\ \A k \in Conn : QueueOf(k) /\ WaitOf(k) /\ HandleOf(k)

\* No two connections have one session, and each that is in the table has its connection.
SessionInv ==
  /\ \A k, l \in Conn : session[k] = session[l] /\ session[k] # 0 => k = l
  /\ \A h \in sessions : \E k \in Conn : session[k] = h /\ thread[k] \notin {"close", "done"}

Inv == TypeInv /\ TurnInv /\ ConnInv /\ SessionInv

-----------------------------------------------------------------------------
\* A queue of one message is taken and sent whole.
LEMMA OneMessage ==
  ASSUME NEW S, NEW q, Holds(q, S), q # <<>>
  PROVE  /\ Head(q) = q[1] /\ q[1] \in S /\ Tail(q) = <<>> /\ Len(q) = 1
         /\ SubSeq(q, 1, 1) = q /\ SubSeq(q, 2, 1) = <<>> /\ <<>> \o q = q
  <1>1. PICK x \in S : q = <<x>>
    BY DEF Holds
  <1>2. /\ Head(<<x>>) = x /\ Tail(<<x>>) = <<>> /\ Len(<<x>>) = 1 /\ <<x>>[1] = x
        /\ <<x>> \in Seq(S) /\ <<>> \in Seq(S)
    OBVIOUS
  <1>3. SubSeq(<<x>>, 1, 1) = <<x>>
    <2>1. SubSeq(<<x>>, 1, 1) \in Seq(S) /\ Len(SubSeq(<<x>>, 1, 1)) = 1
      BY <1>2, SubSeqProperties
    <2>2. SubSeq(<<x>>, 1, 1)[1] = x
      BY <1>2, SubSeqProperties
    <2> DEFINE s == SubSeq(<<x>>, 1, 1)   u == <<x>>
    <2>3. s \in Seq(S) /\ u \in Seq(S) /\ Len(s) = Len(u) /\ \A i \in 1..Len(s) : s[i] = u[i]
      BY <1>2, <2>1, <2>2
    <2> HIDE DEF s, u
    <2>4. s = u
      BY <2>3, SeqEqual
    <2> QED
      BY <2>4 DEF s, u
  <1>4. SubSeq(<<x>>, 2, 1) = <<>>
    BY SubSeqEmpty
  <1>5. <<>> \o <<x>> = <<x>>
    BY <1>2
  <1> HIDE DEF Holds
  <1> QED
    BY <1>1, <1>2, <1>3, <1>4, <1>5

\* A message is sent on a connection that carries none.
LEMMA FirstMessage ==
  ASSUME NEW S, NEW x \in S
  PROVE  Append(<<>>, x) = <<x>> /\ Holds(<<x>>, S) /\ <<x>>[1] = x /\ <<x>> # <<>>
  BY DEF Holds

\* The commands that a call has left to send.
LEMMA JobParts ==
  ASSUME NEW j \in Jobs, j # <<>>
  PROVE  /\ Head(j) \in Commands \ {"unregister"} /\ (Head(j) = "register" <=> j \in Registers)
         /\ Tail(j) \in Jobs \ Registers /\ (Len(j) > 1 => Tail(j) # <<>>)
         /\ (j = <<"read">> => Len(j) = 1 /\ Head(j) # "close")
  <1>1. CASE j = <<"read">>
    BY <1>1 DEF Jobs, Commands, Registers
  <1>2. CASE j = <<"open">>
    BY <1>2 DEF Jobs, Commands, Registers
  <1>3. CASE j = <<"close">>
    BY <1>3 DEF Jobs, Commands, Registers
  <1>4. CASE j = <<"register">>
    BY <1>4 DEF Jobs, Commands, Registers
  <1>5. CASE j = <<"register", "open">>
    BY <1>5 DEF Jobs, Commands, Registers
  <1> QED
    BY <1>1, <1>2, <1>3, <1>4, <1>5 DEF Jobs

\* What a step leaves of a connection that it is not about.
Same(j) ==
  /\ toServer'[j] = toServer[j] /\ accum'[j] = accum[j] /\ toClient'[j] = toClient[j]
  /\ thread'[j] = thread[j] /\ reply'[j] = reply[j] /\ session'[j] = session[j]
  /\ Dead(j) => Dead(j)'

\* Whatever happens on one connection keeps what holds of the others.
LEMMA Elsewhere ==
  ASSUME NEW j \in Conn, Same(j), QueueOf(j), WaitOf(j), HandleOf(j),
         \A t \in Thread : Waits(t, j) <=> Waits(t, j)',
         \A c \in Client : socket'[c] = j => socket[c] = j /\ handle'[c] \in {handle[c], 0}
  PROVE  QueueOf(j)' /\ WaitOf(j)' /\ HandleOf(j)'
  <1>1. QueueOf(j)'
    BY DEF Same, QueueOf
  <1>2. WaitOf(j)'
    BY DEF Same, WaitOf, Idle
  <1>3. HandleOf(j)'
    BY DEF Same, HandleOf, Agrees
  <1> QED
    BY <1>1, <1>2, <1>3

\* A step of the adapter is about one connection.
LEMMA AtOneConnection ==
  ASSUME Inv, NEW k \in Conn, UNCHANGED <<socket, handle, pc>>, \A j \in Conn \ {k} : Same(j),
         QueueOf(k)', WaitOf(k)', HandleOf(k)',
         session'[k] \in {session[k], 0} \/ \A c \in Client : socket[c] = k => handle[c] = 0
  PROVE  ConnInv'
  <1>1. HandleOfConnection'
    <2> SUFFICES ASSUME NEW c \in Client, handle[c] # 0
                 PROVE  socket[c] # 0 /\ session'[socket[c]] \in {handle[c], 0}
      BY DEF HandleOfConnection
    <2>1. socket[c] # 0 /\ session[socket[c]] \in {handle[c], 0}
      BY DEF Inv, ConnInv, HandleOfConnection
    <2>2. socket[c] \in Conn
      BY <2>1, SessionsAssumption DEF Inv, TypeInv, Conn
    <2> QED
      BY <2>1, <2>2 DEF Same
  <1>2. ASSUME NEW j \in Conn, j # k PROVE QueueOf(j)' /\ WaitOf(j)' /\ HandleOf(j)'
    BY <1>2, Elsewhere DEF Inv, ConnInv, Waits
  <1> QED
    BY <1>1, <1>2 DEF ConnInv

\* The adapter starts with no connection.
LEMMA InvInit == Init => Inv
  <1> SUFFICES ASSUME Init PROVE Inv
    OBVIOUS
  <1>1. TypeInv
    BY SessionsAssumption DEF Init, TypeInv, Jobs
  <1>2. TurnInv
    BY DEF Init, TurnInv
  <1>3. ASSUME NEW k \in Conn PROVE QueueOf(k) /\ WaitOf(k) /\ HandleOf(k)
    BY DEF Init, QueueOf, WaitOf, HandleOf, Holds, Idle
  <1>4. HandleOfConnection /\ SessionInv
    BY DEF Init, HandleOfConnection, SessionInv
  <1> QED
    BY <1>1, <1>2, <1>3, <1>4 DEF Inv, ConnInv

\* Every step of a thread keeps the invariant.
LEMMA InvStep == Inv /\ [Next]_vars => Inv'
  <1> SUFFICES ASSUME Inv, [Next]_vars PROVE Inv'
    OBVIOUS
  <1> USE SessionsAssumption DEF Inv
  <1>1. ASSUME NEW t \in Thread, Connect(t) PROVE Inv'
    <2>1. /\ job' \in [Thread -> Jobs] /\ job'[t] # <<>>
          /\ \A u \in Thread : u # t => job'[u] = job[u]
      BY <1>1 DEF Connect, Start, Jobs, TypeInv
    <2>2. /\ conns + 1 \in Conn /\ \A c \in Client : socket[c] # conns + 1
          /\ handle[Owner[t]] = 0 /\ pc[t] = "idle"
      BY <1>1 DEF Connect, TypeInv, Conn, ConnInv, HandleOfConnection
    <2>3. TypeInv'
      <3>1. /\ conns' = conns + 1 /\ conns' \in Nat /\ conns' <= MaxConns
            /\ socket' = [socket EXCEPT ![Owner[t]] = conns'] /\ pc' = [pc EXCEPT ![t] = "send"]
            /\ UNCHANGED <<tables, accum, reply, session, closed, links, handle, io>>
        BY <1>1 DEF Connect, Go, TypeInv
      <3>2. DOMAIN thread' = Conn
        BY <1>1 DEF Connect, TypeInv
      <3>3. socket' \in [Client -> Nat] /\ \A c \in Client : socket'[c] <= conns'
        BY <3>1 DEF TypeInv
      <3> QED
        BY <2>1, <3>1, <3>2, <3>3 DEF TypeInv, tables, links
    <2>4. TurnInv'
      <3>1. \A u \in Thread : u # t /\ Owner[u] = Owner[t] => pc[u] = "idle"
        BY <1>1 DEF Connect, Calls
      <3> QED
        BY <1>1, <2>1, <2>2, <3>1 DEF Connect, Go, TypeInv, TurnInv
    <2>5. ConnInv'
      <3>1. ASSUME NEW j \in Conn, j # conns + 1
            PROVE  QueueOf(j)' /\ WaitOf(j)' /\ HandleOf(j)'
        <4>1. Same(j) /\ \A u \in Thread : Waits(u, j) <=> Waits(u, j)'
          BY <1>1, <2>2, <3>1 DEF Connect, Go, Waits, Same, Dead, TurnInv, links
        <4>2. \A c \in Client : socket'[c] = j => socket[c] = j /\ handle'[c] = handle[c]
          BY <1>1, <3>1 DEF Connect
        <4> QED
          BY <4>1, <4>2, Elsewhere DEF ConnInv
      <3>2. PICK k \in Conn : k = conns + 1
        BY <2>2
      <3>3. /\ toServer'[k] = toServer[k] /\ accum'[k] = accum[k] /\ toClient'[k] = toClient[k]
            /\ session'[k] = session[k] /\ thread'[k] = "recv" /\ Dead(k)' = Dead(k)
            /\ handle' = handle
        BY <1>1, <3>2 DEF Connect, Dead, TypeInv, links
      <3>4. \A u \in Thread : ~Waits(u, k) /\ ~Waits(u, k)'
        BY <1>1, <2>2, <3>2 DEF Connect, Go, Calls, Waits
      <3>5. QueueOf(k)' /\ WaitOf(k)'
        BY <3>3, <3>4 DEF ConnInv, QueueOf, WaitOf, Idle
      <3>6. HandleOf(k)'
        BY <1>1, <2>2, <3>2, <3>3 DEF Connect, ConnInv, HandleOf, Agrees
      <3>7. HandleOfConnection'
        BY <1>1, <2>2 DEF Connect, ConnInv, HandleOfConnection
      <3> QED
        BY <3>1, <3>2, <3>5, <3>6, <3>7 DEF ConnInv
    <2>6. SessionInv'
      BY <1>1, <2>1, <2>2 DEF Connect, SessionInv, tables
    <2> QED
      BY <1>1, <2>3, <2>4, <2>5, <2>6 DEF server, client
  <1>2. ASSUME NEW t \in Thread, Request(t) PROVE Inv'
    <2>1. <<"read">> \in Jobs \ Registers /\ <<"read">> # <<>>
      BY DEF Jobs, Registers
    <2>2. TypeInv'
      BY <1>2, <2>1 DEF Request, Start, Go, TypeInv, tables, server, links, client, bounds
    <2>3. TurnInv'
      BY <1>2, <2>1 DEF Request, Start, Go, Calls, TypeInv, TurnInv
    <2>4. ConnInv'
      <3>1. ASSUME NEW j \in Conn PROVE Same(j) /\ \A u \in Thread : Waits(u, j) <=> Waits(u, j)'
        BY <1>2 DEF Request, Go, Waits, Same, Dead, server, links
      <3>2. ASSUME NEW j \in Conn PROVE QueueOf(j)' /\ WaitOf(j)' /\ HandleOf(j)'
        BY <1>2, <3>1, Elsewhere DEF Request, ConnInv, client
      <3> QED
        BY <1>2, <3>2 DEF Request, ConnInv, HandleOfConnection, server, client
    <2> QED
      BY <1>2, <2>2, <2>3, <2>4 DEF Request, SessionInv, tables, server, client
  <1>3. ASSUME NEW t \in Thread, Send(t) PROVE Inv'
    <2>1. PICK k \in Conn : k = socket[Owner[t]]
      BY <1>3 DEF Send, TypeInv, TurnInv, Conn
    <2>2. /\ ~Dead(k) /\ Idle(k) /\ pc[t] = "send" /\ io[Owner[t]] = Nobody
          /\ \A u \in Thread : Owner[u] = Owner[t] => ~Waits(u, k)
      BY <1>3, <2>1 DEF Send, TurnInv, ConnInv, WaitOf, Waits
    <2>3. PICK m \in Msg : /\ toServer' = [toServer EXCEPT ![k] = <<m>>] /\ m.id = t
                           /\ m.handle = handle[Owner[t]] /\ m.command = Head(job[t])
                           /\ <<m>>[1] = m /\ <<m>> # <<>> /\ Holds(<<m>>, Msg)
      <3>1. Message(t, Head(job[t])) \in Msg
        BY <1>3, JobParts DEF Send, Message, Msg, TypeInv, TurnInv
      <3> QED
        BY <1>3, <2>1, <2>2, <3>1, FirstMessage DEF Send, Message, Idle
    <2>4. TypeInv'
      BY <1>3, <2>1, <2>2, <2>3 DEF Send, Go, TypeInv, tables, server, links, client, bounds
    <2>5. TurnInv'
      BY <1>3, <2>1, <2>2, <2>3 DEF Send, Go, TypeInv, TurnInv
    <2>6. ConnInv'
      <3>1. ASSUME NEW j \in Conn, j # k PROVE QueueOf(j)' /\ WaitOf(j)' /\ HandleOf(j)'
        <4>1. Same(j)
          BY <1>3, <2>3, <3>1 DEF Send, Same, Dead, server, links
        <4>2. \A u \in Thread : Waits(u, j) <=> Waits(u, j)'
          BY <1>3, <2>1, <3>1 DEF Send, Go, Waits
        <4> QED
          BY <1>3, <4>1, <4>2, Elsewhere DEF Send, ConnInv
      <3>2. /\ toServer'[k] = <<m>> /\ accum'[k] = <<>> /\ thread'[k] # "reply"
            /\ toClient'[k] = <<>>
            /\ session'[k] = session[k] /\ UNCHANGED <<socket, handle>>
        BY <1>3, <2>2, <2>3 DEF Send, Idle, TypeInv, server
      <3>3. QueueOf(k)'
        BY <2>3, <3>2 DEF QueueOf, Holds
      <3>4. WaitOf(k)'
        <4>1. \A u \in Thread : Waits(u, k)' <=> u = t
          <5>1. \A u \in Thread : Waits(u, k) => Owner[u] = Owner[t]
            BY <2>1 DEF Waits, TurnInv
          <5>2. \A u \in Thread : ~Waits(u, k)
            BY <2>2, <5>1
          <5> QED
            BY <1>3, <2>1, <5>2 DEF Send, Go, Waits, TypeInv
        <4> QED
          BY <2>3, <3>2, <4>1 DEF WaitOf
      <3>5. HandleOf(k)'
        <4>1. Agrees(k, m.handle)
          BY <2>1, <2>3 DEF Agrees, ConnInv, HandleOfConnection
        <4>2. m.command # "unregister" /\ (m.command = "register" => job[t] \in Registers)
          BY <2>2, <2>3, JobParts DEF TypeInv, TurnInv
        <4>3. job[t] \in Registers => \A c \in Client : socket[c] = k => handle[c] = 0
          BY <2>1, <2>2 DEF TurnInv
        <4> QED
          BY <2>3, <3>2, <4>1, <4>2, <4>3 DEF HandleOf, Agrees
      <3>6. HandleOfConnection'
        BY <1>3 DEF Send, server, ConnInv, HandleOfConnection
      <3> QED
        BY <3>1, <3>3, <3>4, <3>5, <3>6 DEF ConnInv
    <2> QED
      BY <1>3, <2>4, <2>5, <2>6 DEF Send, SessionInv, tables, server, links, client
  <1>4. ASSUME NEW t \in Thread, SendFails(t) PROVE Inv'
    <2>1. TypeInv'
      BY <1>4 DEF SendFails, Fail, Go, TypeInv, tables, server, links, client, bounds
    <2>2. TurnInv'
      BY <1>4 DEF SendFails, Fail, Go, TypeInv, TurnInv, adapterVars, bounds
    <2>3. ConnInv'
      <3>1. ASSUME NEW j \in Conn PROVE Same(j) /\ \A u \in Thread : Waits(u, j) <=> Waits(u, j)'
        BY <1>4 DEF SendFails, Fail, Go, Waits, Same, Dead, TypeInv, server, links, client
      <3>2. ASSUME NEW j \in Conn PROVE QueueOf(j)' /\ WaitOf(j)' /\ HandleOf(j)'
        BY <1>4, <3>1, Elsewhere DEF SendFails, ConnInv, client
      <3> QED
        BY <1>4, <3>2 DEF SendFails, ConnInv, HandleOfConnection, server, client
    <2> QED
      BY <1>4, <2>1, <2>2, <2>3 DEF SendFails, SessionInv, tables, server, client
  <1>5. ASSUME NEW t \in Thread, Receive(t) PROVE Inv'
    <2>1. PICK k \in Conn : k = socket[Owner[t]]
      BY <1>5 DEF Receive, TypeInv, TurnInv, Conn
    <2>2. PICK r \in Rep : /\ toClient[k] = <<r>> /\ toClient' = [toClient EXCEPT ![k] = <<>>]
                           /\ Agrees(k, r.handle)
                           /\ handle' = [handle EXCEPT ![Owner[t]] = IF @ = 0 THEN r.handle ELSE @]
      <3>1. Holds(toClient[k], Rep) /\ toClient[k] # <<>> /\ Agrees(k, toClient[k][1].handle)
        BY <1>5, <2>1 DEF Receive, ConnInv, QueueOf, HandleOf
      <3>2. /\ Head(toClient[k]) = toClient[k][1] /\ toClient[k][1] \in Rep
            /\ Tail(toClient[k]) = <<>>
        BY <3>1, OneMessage
      <3>3. /\ toClient' = [toClient EXCEPT ![k] = <<>>]
            /\ handle' = [handle EXCEPT ![Owner[t]] = IF @ = 0 THEN toClient[k][1].handle ELSE @]
        BY <1>5, <2>1, <3>2 DEF Receive
      <3> QED
        BY <3>1, <3>2, <3>3 DEF Holds
    <2>3. toServer[k] = <<>> /\ accum[k] = <<>> /\ thread[k] # "reply"
      BY <2>2 DEF ConnInv, QueueOf
    <2>4. /\ pc[t] = "wait" /\ \E l \in {"idle", "send", "leave"} : pc' = [pc EXCEPT ![t] = l]
          /\ pc'[t] = "leave" => job[t] # <<"read">>
          /\ job' \in [Thread -> Jobs] /\ job'[t] \notin Registers
          /\ (pc'[t] = "send" => job'[t] # <<>>)
          /\ \A u \in Thread : u # t => job'[u] = job[u]
          /\ pc'[t] = "send" => job[t] # <<"read">>
      <3>1. job[t] \in Jobs /\ job[t] # <<>> /\ pc[t] = "wait"
        BY <1>5 DEF Receive, TypeInv, TurnInv
      <3>2. job' = [job EXCEPT ![t] = Tail(@)]
        BY <1>5 DEF Receive, Start
      <3>3. \/ pc' = [pc EXCEPT ![t] = "idle"]
            \/ pc' = [pc EXCEPT ![t] = "send"] /\ Len(job[t]) > 1
            \/ pc' = [pc EXCEPT ![t] = "leave"] /\ Head(job[t]) = "close"
        BY <1>5 DEF Receive, Fail, Go
      <3>4. /\ Head(job[t]) = "close" => job[t] # <<"read">>
            /\ Len(job[t]) > 1 => Tail(job[t]) # <<>> /\ job[t] # <<"read">>
            /\ Tail(job[t]) \in Jobs \ Registers
        <4> DEFINE j == job[t]
        <4>1. j \in Jobs /\ j # <<>>
          BY <3>1
        <4> HIDE DEF j
        <4>2. /\ Tail(j) \in Jobs \ Registers /\ (Len(j) > 1 => Tail(j) # <<>>)
              /\ j = <<"read">> => Len(j) = 1 /\ Head(j) # "close"
          BY <4>1, JobParts
        <4>3. /\ Head(j) = "close" => j # <<"read">>
              /\ Len(j) > 1 => j # <<"read">>
          <5>1. CASE j = <<"read">>
            BY <4>2, <5>1
          <5>2. CASE j # <<"read">>
            BY <5>2
          <5> QED
            BY <5>1, <5>2
        <4> QED
          BY <4>2, <4>3 DEF j
      <3>5. /\ \E l \in {"idle", "send", "leave"} : pc' = [pc EXCEPT ![t] = l]
            /\ pc'[t] = "send" => Len(job[t]) > 1
            /\ pc'[t] = "leave" => Head(job[t]) = "close"
        BY <3>3 DEF TypeInv
      <3>6. /\ job'[t] = Tail(job[t]) /\ \A u \in Thread : u # t => job'[u] = job[u]
            /\ job' \in [Thread -> Jobs]
        BY <3>2, <3>4 DEF TypeInv
      <3> QED
        BY <3>1, <3>4, <3>5, <3>6
    <2>5. TypeInv'
      <3>1. handle' \in [Client -> Nat] /\ io' \in [Client -> Thread \cup {Nobody}]
        BY <1>5, <2>2 DEF Receive, Rep, TypeInv
      <3>2. pc' \in [Thread -> {"idle", "send", "wait", "leave"}]
        BY <2>4 DEF TypeInv
      <3>3. /\ DOMAIN toClient' = Conn
            /\ UNCHANGED <<tables, server, toServer, hungUp, broken, socket, bounds>>
        BY <1>5, <2>2 DEF Receive, TypeInv
      <3> QED
        BY <2>4, <3>1, <3>2, <3>3 DEF TypeInv, tables, server, bounds
    <2>6. TurnInv'
      <3>1. /\ UNCHANGED socket /\ io' = [io EXCEPT ![Owner[t]] = Nobody]
            /\ \A c \in Client : c # Owner[t] => handle'[c] = handle[c]
            /\ \A u \in Thread : u # t => pc'[u] = pc[u] /\ job'[u] = job[u]
        BY <1>5, <2>4 DEF Receive
      <3>2. \A c \in Client : io'[c] # Nobody => Owner[io'[c]] = c /\ pc'[io'[c]] = "wait"
        BY <2>4, <3>1 DEF TypeInv, TurnInv
      <3>3. ASSUME NEW u \in Thread, u # t
            PROVE  /\ pc'[u] = "wait" => io'[Owner[u]] = u
                   /\ pc'[u] \in {"send", "wait"} /\ job'[u] \in Registers
                        => handle'[Owner[u]] = 0
        <4>1. CASE Owner[u] = Owner[t]
          <5>1. pc[u] # "idle" => job[u] = <<"read">> /\ pc[u] # "wait"
            BY <2>4, <3>3, <4>1 DEF TurnInv
          <5>2. <<"read">> \notin Registers
            BY DEF Registers
          <5> QED
            BY <3>1, <3>3, <5>1, <5>2
        <4>2. CASE Owner[u] # Owner[t]
          BY <3>1, <3>3, <4>2 DEF TurnInv
        <4> QED
          BY <4>1, <4>2
      <3> QED
        BY <2>4, <3>1, <3>2, <3>3 DEF TypeInv, TurnInv
    <2>7. ConnInv'
      <3>1. ASSUME NEW j \in Conn, j # k PROVE QueueOf(j)' /\ WaitOf(j)' /\ HandleOf(j)'
        <4>1. Same(j)
          BY <1>5, <2>2, <3>1 DEF Receive, Same, Dead, server
        <4>2. \A u \in Thread : Waits(u, j) <=> Waits(u, j)'
          BY <1>5, <2>1, <2>4, <3>1 DEF Receive, Waits
        <4>3. \A c \in Client : socket'[c] = j => socket[c] = j /\ handle'[c] = handle[c]
          BY <1>5, <2>1, <2>2, <3>1 DEF Receive
        <4> QED
          BY <4>1, <4>2, <4>3, Elsewhere DEF ConnInv
      <3>2. Idle(k)' /\ toClient'[k] = <<>>
        BY <1>5, <2>2, <2>3 DEF Receive, Idle, TypeInv, server
      <3>3. QueueOf(k)' /\ WaitOf(k)' /\ HandleOf(k)'
        BY <3>2 DEF QueueOf, WaitOf, HandleOf, Idle, Holds
      <3>4. HandleOfConnection'
        BY <1>5, <2>1, <2>2 DEF Receive, Agrees, TurnInv, server, ConnInv,
             HandleOfConnection
      <3> QED
        BY <3>1, <3>3, <3>4 DEF ConnInv
    <2> QED
      BY <1>5, <2>5, <2>6, <2>7 DEF Receive, SessionInv, tables, server, links, client
  <1>6. ASSUME NEW t \in Thread, ReceiveFails(t) PROVE Inv'
    <2>1. /\ pc[t] = "wait" /\ pc'[t] \in {"idle", "leave"}
          /\ \A u \in Thread : u # t => pc'[u] = pc[u]
      BY <1>6 DEF ReceiveFails, Fail, Go, TypeInv
    <2>2. TypeInv'
      BY <1>6, <2>1 DEF ReceiveFails, Fail, Go, TypeInv, tables, server, links, client,
           bounds
    <2>3. TurnInv'
      <3>1. /\ io' = [io EXCEPT ![Owner[t]] = Nobody]
            /\ UNCHANGED <<socket, handle, job>>
        BY <1>6 DEF ReceiveFails, Fail
      <3>2. t \in Thread /\ Owner[t] \in Client /\ io \in [Client -> Thread \cup {Nobody}]
        BY DEF TypeInv
      <3>3. \A c \in Client : io'[c] # Nobody =>
              c # Owner[t] /\ io'[c] = io[c] /\ io[c] \in Thread
        BY <3>1, <3>2
      <3>4. \A c \in Client : io'[c] # Nobody => Owner[io'[c]] = c /\ pc'[io'[c]] = "wait"
        BY <2>1, <3>3 DEF TurnInv
      <3>5. \A u \in Thread : pc'[u] = "wait" => u # t /\ Owner[u] # Owner[t] /\ io'[Owner[u]] = u
        BY <2>1, <3>1, <3>2 DEF TurnInv
      <3>6. pc'[t] = "leave" => job[t] # <<"read">>
        BY <1>6 DEF ReceiveFails, Fail, Go, TypeInv
      <3>7. \A u \in Thread : pc'[u] # "idle" => pc[u] # "idle"
        BY <2>1
      <3>8. \A u, v \in Thread : u # v /\ Owner[u] = Owner[v] /\ pc'[u] # "idle" /\ pc'[v] # "idle"
              => pc'[u] # "leave" /\ job[u] = <<"read">>
        BY <2>1, <3>6, <3>7 DEF TurnInv
      <3> QED
        BY <2>1, <3>1, <3>4, <3>5, <3>7, <3>8 DEF TurnInv
    <2>4. ConnInv'
      <3> DEFINE k == socket[Owner[t]]
      <3>1. \A j \in Conn : Same(j) /\ (Dead(j) <=> Dead(j)')
        BY <1>6 DEF ReceiveFails, Same, Dead, server, links
      <3>2. ASSUME NEW j \in Conn, j # k PROVE QueueOf(j)' /\ WaitOf(j)' /\ HandleOf(j)'
        <4>1. \A u \in Thread : Waits(u, j) <=> Waits(u, j)'
          BY <1>6, <2>1, <3>2 DEF ReceiveFails, Waits
        <4> QED
          BY <1>6, <3>1, <4>1, Elsewhere DEF ReceiveFails, ConnInv
      <3>3. ASSUME NEW j \in Conn, j = k PROVE QueueOf(j)' /\ WaitOf(j)' /\ HandleOf(j)'
        <4>1. Dead(j)' /\ \A u \in Thread : Waits(u, j)' => Waits(u, j)
          BY <1>6, <2>1, <3>1, <3>3 DEF ReceiveFails, Waits
        <4>2. QueueOf(j)' /\ WaitOf(j)'
          BY <3>1, <4>1 DEF Same, ConnInv, QueueOf, WaitOf
        <4>3. HandleOf(j)'
          BY <1>6, <3>1 DEF ReceiveFails, Same, ConnInv, HandleOf, Agrees
        <4> QED
          BY <4>2, <4>3
      <3> QED
        BY <1>6, <3>2, <3>3 DEF ReceiveFails, server, ConnInv, HandleOfConnection
    <2> QED
      BY <1>6, <2>2, <2>3, <2>4 DEF ReceiveFails, SessionInv, tables, server, client
  <1>7. ASSUME NEW t \in Thread, Disconnect(t) PROVE Inv'
    <2>1. /\ job' \in [Thread -> Jobs] /\ \A u \in Thread : u # t => job'[u] = job[u]
          /\ job'[t] # <<>> \/ pc'[t] = "leave"
          /\ job'[t] \notin Registers \/ pc'[t] = "leave"
      <3>1. <<"close">> \in Jobs \ Registers /\ <<"close">> # <<>>
        BY DEF Jobs, Registers
      <3> QED
        <4>1. \/ job' = [job EXCEPT ![t] = <<"close">>]
              \/ job' = job /\ pc' = [pc EXCEPT ![t] = "leave"]
          BY <1>7 DEF Disconnect, Start, Go
        <4>2. CASE job' = [job EXCEPT ![t] = <<"close">>]
          BY <3>1, <4>2 DEF TypeInv
        <4>3. CASE job' = job /\ pc' = [pc EXCEPT ![t] = "leave"]
          BY <4>3 DEF TypeInv
        <4> QED
          BY <4>1, <4>2, <4>3
    <2>2. \A u \in Thread : u # t /\ Owner[u] = Owner[t] => pc[u] = "idle"
      BY <1>7 DEF Disconnect, Calls
    <2>3. TypeInv'
      <3>1. pc' \in [Thread -> {"idle", "send", "wait", "leave"}]
        BY <1>7 DEF Disconnect, Go, TypeInv
      <3> QED
        BY <1>7, <2>1, <3>1 DEF Disconnect, TypeInv, tables, server, links, bounds
    <2>4. TurnInv'
      BY <1>7, <2>1, <2>2 DEF Disconnect, Go, TypeInv, TurnInv
    <2>5. ConnInv'
      <3>1. ASSUME NEW j \in Conn PROVE Same(j) /\ \A u \in Thread : Waits(u, j) <=> Waits(u, j)'
        BY <1>7 DEF Disconnect, Go, Waits, Same, Dead, TypeInv, server, links, client
      <3>2. ASSUME NEW j \in Conn PROVE QueueOf(j)' /\ WaitOf(j)' /\ HandleOf(j)'
        BY <1>7, <3>1, Elsewhere DEF Disconnect, ConnInv, client
      <3> QED
        BY <1>7, <3>2 DEF Disconnect, ConnInv, HandleOfConnection, server, client
    <2> QED
      BY <1>7, <2>3, <2>4, <2>5 DEF Disconnect, SessionInv, tables, server, client
  <1>8. ASSUME NEW t \in Thread, Leave(t) PROVE Inv'
    <2>1. PICK k \in Conn : k = socket[Owner[t]]
      BY <1>8 DEF Leave, TypeInv, TurnInv, Conn
    <2>2. /\ pc[t] = "leave" /\ \A u \in Thread : u # t /\ Owner[u] = Owner[t] => pc[u] = "idle"
          /\ \A u \in Thread : ~Waits(u, k) /\ ~Waits(u, k)'
          /\ pc'[t] = "idle" /\ \A u \in Thread : u # t => pc'[u] = pc[u]
          /\ socket'[Owner[t]] = 0 /\ \A c \in Client : c # Owner[t] => socket'[c] = socket[c]
      <3>1. /\ pc[t] = "leave" /\ pc'[t] = "idle" /\ \A u \in Thread : u # t => pc'[u] = pc[u]
            /\ socket'[Owner[t]] = 0 /\ \A c \in Client : c # Owner[t] => socket'[c] = socket[c]
        BY <1>8 DEF Leave, Go, TypeInv
      <3>2. \A u \in Thread : u # t /\ Owner[u] = Owner[t] => pc[u] = "idle"
        BY <3>1 DEF TurnInv
      <3>3. \A u \in Thread : Waits(u, k) => Owner[u] = Owner[t]
        BY <2>1 DEF Waits, TurnInv
      <3>4. \A u \in Thread : ~Waits(u, k) /\ ~Waits(u, k)'
        BY <3>1, <3>2, <3>3 DEF Waits
      <3> QED
        BY <3>1, <3>2, <3>4
    <2>3. \/ toServer' = toServer
          \/ Idle(k) /\ \E m \in Msg : /\ toServer' = [toServer EXCEPT ![k] = <<m>>]
                                       /\ m.command = "unregister" /\ m.handle # 0
                                       /\ Agrees(k, m.handle)
      <3> DEFINE m == Message(t, "unregister")
      <3>1. m \in Msg
        BY DEF Message, Msg, Commands, TypeInv
      <3>2. CASE handle[Owner[t]] # 0 /\ ~Dead(k)
        <4>1. Idle(k)
          BY <2>2, <3>2 DEF ConnInv, WaitOf
        <4>2. toServer' = [toServer EXCEPT ![k] = <<m>>]
          BY <1>8, <2>1, <3>1, <3>2, <4>1, FirstMessage DEF Leave, Idle
        <4>3. m.command = "unregister" /\ m.handle # 0 /\ Agrees(k, m.handle)
          BY <2>1, <3>2 DEF Message, Agrees, ConnInv, HandleOfConnection
        <4> QED
          BY <3>1, <4>1, <4>2, <4>3
      <3> QED
        BY <1>8, <2>1, <3>2 DEF Leave
    <2>4. TypeInv'
      BY <1>8, <2>1, <2>2, <2>3 DEF Leave, Go, TypeInv, adapterVars, tables, server, links,
           client, bounds
    <2>5. TurnInv'
      BY <1>8, <2>1, <2>2, <2>3 DEF Leave, Go, TurnInv, bounds
    <2>6. ConnInv'
      <3>1. ASSUME NEW j \in Conn, j # k PROVE QueueOf(j)' /\ WaitOf(j)' /\ HandleOf(j)'
        <4>1. Same(j)
          BY <1>8, <2>1, <2>3, <3>1 DEF Leave, Same, Dead, server
        <4>2. \A u \in Thread : Waits(u, j) <=> Waits(u, j)'
          BY <2>1, <2>2, <3>1 DEF Waits
        <4>3. \A c \in Client : socket'[c] = j => socket[c] = j /\ handle'[c] \in {handle[c], 0}
          BY <1>8, <2>2, <3>1 DEF Leave, Conn
        <4> QED
          BY <4>1, <4>2, <4>3, Elsewhere DEF ConnInv
      <3>2. /\ accum'[k] = accum[k] /\ thread'[k] = thread[k] /\ reply'[k] = reply[k]
            /\ toClient'[k] = toClient[k] /\ session'[k] = session[k] /\ Dead(k)'
        BY <1>8, <2>1 DEF Leave, Dead, TypeInv, server
      <3>3. \A c \in Client : socket'[c] # k
        BY <1>8, <2>1, <2>2 DEF TurnInv
      <3>4. ASSUME toServer' = toServer PROVE QueueOf(k)' /\ WaitOf(k)' /\ HandleOf(k)'
        <4>1. QueueOf(k)' /\ WaitOf(k)'
          BY <2>2, <3>2, <3>4 DEF ConnInv, QueueOf, WaitOf
        <4>2. HandleOf(k)'
          BY <3>2, <3>3, <3>4 DEF ConnInv, HandleOf, Agrees
        <4> QED
          BY <4>1, <4>2
      <3>5. ASSUME Idle(k), NEW m \in Msg, toServer' = [toServer EXCEPT ![k] = <<m>>],
                   m.command = "unregister", m.handle # 0, Agrees(k, m.handle)
            PROVE  QueueOf(k)' /\ WaitOf(k)' /\ HandleOf(k)'
        <4>1. toServer'[k] = <<m>> /\ <<m>>[1] = m /\ <<m>> # <<>> /\ Holds(<<m>>, Msg)
          BY <3>5, FirstMessage DEF TypeInv
        <4> QED
          BY <2>2, <3>2, <3>3, <3>5, <4>1 DEF Idle, QueueOf, WaitOf, HandleOf, Agrees, Holds
      <3>6. HandleOfConnection'
        BY <1>8, <2>2 DEF Leave, server, TypeInv, ConnInv, HandleOfConnection
      <3> QED
        BY <2>3, <3>1, <3>4, <3>5, <3>6 DEF ConnInv
    <2> QED
      BY <1>8, <2>4, <2>5, <2>6 DEF Leave, SessionInv, tables, server, links, client
  <1>9. ASSUME NEW k \in Conn, Recv(k) PROVE Inv'
    <2>1. /\ thread[k] = "recv" /\ thread'[k] = "parse" /\ toServer[k] # <<>> /\ accum[k] = <<>>
          /\ accum'[k] = toServer[k] /\ toServer'[k] = <<>>
      BY <1>9, OneMessage DEF Recv, At, ConnInv, QueueOf, TypeInv
    <2>2. \A j \in Conn \ {k} : Same(j)
      BY <1>9 DEF Recv, At, Same, Dead
    <2>3. QueueOf(k)'
      BY <1>9, <2>1 DEF Recv, ConnInv, QueueOf
    <2>4. WaitOf(k)'
      BY <1>9, <2>1 DEF Recv, ConnInv, WaitOf, Waits, Idle, Dead, client
    <2>5. HandleOf(k)'
      BY <1>9, <2>1 DEF Recv, ConnInv, HandleOf, Agrees, client
    <2>6. ConnInv'
      BY <1>9, <2>1, <2>2, <2>3, <2>4, <2>5, AtOneConnection DEF Recv, client
    <2>7. TypeInv'
      BY <1>9, <2>1 DEF Recv, At, TypeInv, tables, server, links, client, bounds
    <2>8. SessionInv'
      <3>1. /\ UNCHANGED <<session, sessions>>
            /\ \A j \in Conn : j = k \/ thread'[j] = thread[j]
        BY <1>9 DEF Recv, At, tables
      <3> QED
        BY <2>1, <3>1 DEF SessionInv
    <2> QED
      BY <1>9, <2>6, <2>7, <2>8 DEF Recv, TurnInv, server, links, client
  <1>10. ASSUME NEW k \in Conn, RecvEnds(k) PROVE Inv'
    <2>1. thread[k] # "reply" /\ thread'[k] # "reply"
      BY <1>10 DEF RecvEnds, At
    <2>2. \A j \in Conn \ {k} : Same(j)
      BY <1>10 DEF RecvEnds, At, Same, Dead, links
    <2>3. QueueOf(k)'
      BY <1>10, <2>1 DEF RecvEnds, ConnInv, QueueOf, links
    <2>4. WaitOf(k)'
      BY <1>10, <2>1 DEF RecvEnds, ConnInv, WaitOf, Waits, Dead, links, client
    <2>5. HandleOf(k)'
      BY <1>10, <2>1 DEF RecvEnds, ConnInv, HandleOf, Agrees, links, client
    <2>6. ConnInv'
      BY <1>10, <2>1, <2>2, <2>3, <2>4, <2>5, AtOneConnection DEF RecvEnds, client
    <2>7. TypeInv'
      BY <1>10, <2>1 DEF RecvEnds, At, TypeInv, tables, server, links, client, bounds
    <2>8. SessionInv'
      BY <1>10, <2>1 DEF RecvEnds, At, SessionInv, tables
    <2> QED
      BY <1>10, <2>6, <2>7, <2>8 DEF RecvEnds, TurnInv, server, client
  <1>11. ASSUME NEW k \in Conn, Parsed(k) PROVE Inv'
    <2>1. thread[k] # "reply" /\ thread'[k] # "reply"
      BY <1>11 DEF Parsed, At
    <2>2. \A j \in Conn \ {k} : Same(j)
      BY <1>11 DEF Parsed, At, Same, Dead, links
    <2>3. QueueOf(k)'
      BY <1>11, <2>1 DEF Parsed, ConnInv, QueueOf, links
    <2>4. WaitOf(k)'
      BY <1>11, <2>1 DEF Parsed, ConnInv, WaitOf, Waits, Idle, Dead, links, client
    <2>5. HandleOf(k)'
      BY <1>11, <2>1 DEF Parsed, ConnInv, HandleOf, Agrees, links, client
    <2>6. ConnInv'
      BY <1>11, <2>1, <2>2, <2>3, <2>4, <2>5, AtOneConnection DEF Parsed, client
    <2>7. TypeInv'
      BY <1>11, <2>1 DEF Parsed, At, TypeInv, tables, server, links, client, bounds
    <2>8. SessionInv'
      BY <1>11, <2>1 DEF Parsed, At, SessionInv, tables
    <2> QED
      BY <1>11, <2>6, <2>7, <2>8 DEF Parsed, TurnInv, server, client
  <1>12. ASSUME NEW k \in Conn, HandleRegister(k) PROVE Inv'
    <2>1. /\ thread[k] = "parse" /\ accum[k] # <<>> /\ Head(accum[k]) = accum[k][1]
          /\ accum[k][1] \in Msg /\ accum' = [accum EXCEPT ![k] = <<>>]
          /\ toServer[k] = <<>> /\ toClient[k] = <<>>
      BY <1>12, OneMessage DEF HandleRegister, Take, ConnInv, QueueOf
    <2>2. session'[k] = session[k] \/ \A c \in Client : socket[c] = k => handle[c] = 0
      BY <1>12, <2>1 DEF HandleRegister, Take, ConnInv, HandleOf
    <2>3. /\ thread'[k] = "reply" /\ reply'[k] \in Rep /\ reply'[k].id = accum[k][1].id
      <3> DEFINE m == accum[k][1]
      <3>1. \/ Answer(k, m, FALSE, m.handle)
            \/ nextHandle' = nextHandle + 1 /\ Answer(k, m, TRUE, nextHandle')
        BY <1>12, <2>1 DEF HandleRegister
      <3>2. m \in Msg /\ nextHandle \in Nat
        BY <2>1 DEF TypeInv
      <3> HIDE DEF m
      <3>3. thread'[k] = "reply" /\ reply'[k] \in Rep /\ reply'[k].id = m.id
        <4>1. CASE Answer(k, m, FALSE, m.handle)
          BY <3>2, <4>1 DEF Answer, At, Msg, Rep, TypeInv
        <4>2. CASE nextHandle' = nextHandle + 1 /\ Answer(k, m, TRUE, nextHandle')
          <5>1. nextHandle' \in Nat
            BY <3>2, <4>2
          <5> QED
            BY <3>2, <4>2, <5>1 DEF Answer, At, Msg, Rep, TypeInv
        <4> QED
          BY <3>1, <4>1, <4>2
      <3> QED
        BY <3>3 DEF m
    <2>4. \A j \in Conn \ {k} : Same(j)
      BY <1>12 DEF HandleRegister, Take, Answer, At, Same, Dead, TypeInv, server, links
    <2>5. QueueOf(k)'
      BY <1>12, <2>1, <2>2, <2>3 DEF HandleRegister, Take, QueueOf, Holds, TypeInv, server,
           links
    <2>6. WaitOf(k)'
      BY <1>12, <2>1, <2>2, <2>3 DEF HandleRegister, Take, ConnInv, WaitOf, Waits, Idle,
           Dead, links, client
    <2>7. HandleOf(k)'
      BY <1>12, <2>1, <2>2, <2>3 DEF HandleRegister, Take, Answer, ConnInv, HandleOf,
           Agrees, TypeInv, server, links
    <2>8. ConnInv'
      BY <1>12, <2>1, <2>2, <2>3, <2>4, <2>5, <2>6, <2>7, AtOneConnection DEF
           HandleRegister, Take, client
    <2>9. TypeInv'
      <3>1. /\ DOMAIN thread' = Conn /\ DOMAIN accum' = Conn /\ DOMAIN reply' = Conn
            /\ UNCHANGED <<closed, links, client, bounds>>
        BY <1>12, <2>1 DEF HandleRegister, Take, Answer, At, TypeInv
      <3>2. nextHandle' \in Nat /\ sessions' \subseteq 1..nextHandle'
        <4>1. CASE UNCHANGED <<sessions, nextHandle>>
          BY <4>1 DEF TypeInv
        <4>2. CASE nextHandle' = nextHandle + 1 /\ sessions' = sessions \cup {nextHandle'}
          BY <4>2 DEF TypeInv
        <4> QED
          BY <1>12, <4>1, <4>2 DEF HandleRegister
      <3>3. session' \in [Conn -> Nat] /\ \A j \in Conn : session'[j] <= nextHandle'
        <4>1. CASE session' = session /\ nextHandle' = nextHandle
          BY <4>1 DEF TypeInv
        <4>2. CASE nextHandle' = nextHandle + 1 /\ session' = [session EXCEPT ![k] = nextHandle']
          BY <4>2 DEF TypeInv
        <4> QED
          BY <1>12, <4>1, <4>2 DEF HandleRegister
      <3> QED
        BY <3>1, <3>2, <3>3 DEF TypeInv, links, client, bounds
    <2>10. SessionInv'
      <3>1. CASE UNCHANGED <<sessions, session>>
        BY <1>12, <3>1 DEF HandleRegister, Answer, At, TypeInv, SessionInv
      <3>2. CASE /\ session[k] = 0 /\ nextHandle' = nextHandle + 1
                 /\ sessions' = sessions \cup {nextHandle'}
                 /\ session' = [session EXCEPT ![k] = nextHandle']
                 /\ thread' = [thread EXCEPT ![k] = "reply"]
        <4>1. /\ \A j \in Conn : session[j] # nextHandle' /\ nextHandle' # 0
              /\ \A j \in Conn \ {k} : session'[j] = session[j] /\ thread'[j] = thread[j]
              /\ session'[k] = nextHandle' /\ thread'[k] = "reply"
          BY <3>2 DEF TypeInv
        <4>2. ASSUME NEW h \in sessions
              PROVE  \E j \in Conn : session'[j] = h /\ thread'[j] \notin {"close", "done"}
          <5>1. PICK j \in Conn : session[j] = h /\ thread[j] \notin {"close", "done"}
            BY DEF SessionInv
          <5>2. j # k
            BY <3>2, <5>1 DEF TypeInv
          <5> QED
            BY <4>1, <5>1, <5>2
        <4>3. \A h \in sessions' :
                \E j \in Conn : session'[j] = h /\ thread'[j] \notin {"close", "done"}
          BY <3>2, <4>1, <4>2
        <4>4. \A i, j \in Conn : session'[i] = session'[j] /\ session'[i] # 0 => i = j
          BY <4>1 DEF SessionInv
        <4> QED
          BY <4>3, <4>4 DEF SessionInv
      <3> QED
        BY <1>12, <3>1, <3>2 DEF HandleRegister, Answer, At
    <2> QED
      BY <1>12, <2>8, <2>9, <2>10 DEF HandleRegister, Take, TurnInv, server, client
  <1>13. ASSUME NEW k \in Conn, HandleUnregister(k) PROVE Inv'
    <2>1. /\ thread[k] = "parse" /\ accum[k] # <<>> /\ Head(accum[k]) = accum[k][1]
          /\ accum[k][1] \in Msg /\ accum' = [accum EXCEPT ![k] = <<>>]
          /\ toServer[k] = <<>> /\ toClient[k] = <<>>
      BY <1>13, OneMessage DEF HandleUnregister, Take, ConnInv, QueueOf
    <2>2. \A j \in Conn \ {k} : Same(j)
      BY <1>13 DEF HandleUnregister, Take, At, Same, Dead, links
    <2>3. QueueOf(k)'
      BY <1>13, <2>1 DEF HandleUnregister, Take, At, ConnInv, QueueOf, Holds, links
    <2>4. WaitOf(k)'
      BY <1>13, <2>1 DEF HandleUnregister, Take, At, ConnInv, WaitOf, Waits, Idle, Dead,
           links, client
    <2>5. HandleOf(k)'
      BY <1>13, <2>1 DEF HandleUnregister, Take, At, ConnInv, HandleOf, Agrees, links
    <2>6. ConnInv'
      BY <1>13, <2>1, <2>2, <2>3, <2>4, <2>5, AtOneConnection DEF HandleUnregister, Take,
           client
    <2>7. TypeInv'
      <3>1. /\ sessions' \subseteq sessions /\ nextHandle' = nextHandle
            /\ session' = [session EXCEPT ![k] = 0]
            /\ DOMAIN thread' = Conn /\ DOMAIN accum' = Conn
            /\ UNCHANGED <<reply, closed, links, client, bounds>>
        BY <1>13, <2>1 DEF HandleUnregister, Take, At, TypeInv
      <3> QED
        BY <3>1 DEF TypeInv, links, client, bounds
    <2>8. SessionInv'
      <3>1. accum[k][1].handle # 0 /\ session[k] \in {accum[k][1].handle, 0}
        BY <1>13, <2>1 DEF HandleUnregister, Take, ConnInv, HandleOf, Agrees
      <3>2. /\ sessions' = sessions \ {accum[k][1].handle} /\ session' = [session EXCEPT ![k] = 0]
            /\ \A j \in Conn : thread'[j] \in {"close", "done"} => thread[j] \in {"close", "done"}
        BY <1>13, <2>1 DEF HandleUnregister, At
      <3>3. ASSUME NEW h \in sessions'
            PROVE  \E j \in Conn : session'[j] = h /\ thread'[j] \notin {"close", "done"}
        <4>1. PICK j \in Conn : session[j] = h /\ thread[j] \notin {"close", "done"}
          BY <3>2 DEF SessionInv
        <4>2. j # k
          BY <3>1, <3>2, <3>3, <4>1 DEF TypeInv
        <4> QED
          BY <3>2, <4>1, <4>2
      <3>4. \A i, j \in Conn : session'[i] = session'[j] /\ session'[i] # 0 => i = j
        BY <3>2 DEF SessionInv
      <3> QED
        BY <3>3, <3>4 DEF SessionInv
    <2> QED
      BY <1>13, <2>6, <2>7, <2>8 DEF HandleUnregister, Take, TurnInv, server, client
  <1>14. ASSUME NEW k \in Conn, NEW command \in {"read", "open", "close"}, HandleData(k, command)
         PROVE  Inv'
    <2>1. /\ thread[k] = "parse" /\ accum[k] # <<>> /\ Head(accum[k]) = accum[k][1]
          /\ accum[k][1] \in Msg /\ accum' = [accum EXCEPT ![k] = <<>>]
          /\ toServer[k] = <<>> /\ toClient[k] = <<>>
      BY <1>14, OneMessage DEF HandleData, Take, ConnInv, QueueOf
    <2>2. /\ thread'[k] = "reply" /\ reply'[k] \in Rep /\ reply'[k].id = accum[k][1].id
      <3> DEFINE m == accum[k][1]
      <3>1. Answer(k, m, Valid(k, m), IF Valid(k, m) THEN session[k] ELSE m.handle)
        BY <1>14, <2>1 DEF HandleData
      <3>2. m \in Msg /\ session[k] \in Nat /\ Valid(k, m) \in BOOLEAN
        BY <2>1 DEF TypeInv, Valid
      <3> HIDE DEF m
      <3>3. thread'[k] = "reply" /\ reply'[k] \in Rep /\ reply'[k].id = m.id
        BY <3>1, <3>2 DEF Answer, At, Msg, Rep, TypeInv
      <3> QED
        BY <3>3 DEF m
    <2>3. \A j \in Conn \ {k} : Same(j)
      BY <1>14 DEF HandleData, Take, Answer, At, Same, Dead, links
    <2>4. QueueOf(k)'
      BY <1>14, <2>1, <2>2 DEF HandleData, Take, QueueOf, Holds, TypeInv, server, links
    <2>5. WaitOf(k)'
      BY <1>14, <2>1, <2>2 DEF HandleData, Take, ConnInv, WaitOf, Waits, Idle, Dead, links,
           client
    <2>6. HandleOf(k)'
      BY <1>14, <2>1, <2>2 DEF HandleData, Take, Answer, ConnInv, HandleOf, Agrees, TypeInv,
           server, links
    <2>7. ConnInv'
      BY <1>14, <2>1, <2>2, <2>3, <2>4, <2>5, <2>6, AtOneConnection DEF HandleData, Take,
           client
    <2>8. TypeInv'
      BY <1>14, <2>1, <2>2 DEF HandleData, Take, Answer, At, TypeInv, tables, server, links,
           client, bounds
    <2>9. SessionInv'
      BY <1>14, <2>1, <2>2 DEF HandleData, Answer, At, SessionInv
    <2> QED
      BY <1>14, <2>7, <2>8, <2>9 DEF HandleData, Take, TurnInv, server, client
  <1>15. ASSUME NEW k \in Conn, SendReply(k) PROVE Inv'
    <2>1. /\ thread[k] = "reply" /\ thread'[k] = "parse" /\ toClient[k] = <<>>
          /\ toClient'[k] = <<>> \/ toClient'[k] = <<reply[k]>>
      BY <1>15, FirstMessage DEF SendReply, At, ConnInv, QueueOf, TypeInv
    <2>2. \A j \in Conn \ {k} : Same(j)
      BY <1>15 DEF SendReply, At, Same, Dead, TypeInv, server
    <2>3. QueueOf(k)'
      BY <1>15, <2>1 DEF SendReply, ConnInv, QueueOf, Holds
    <2>4. WaitOf(k)'
      BY <1>15, <2>1 DEF SendReply, ConnInv, WaitOf, Waits, Idle, Dead, client
    <2>5. HandleOf(k)'
      BY <1>15, <2>1 DEF SendReply, ConnInv, HandleOf, Agrees, client
    <2>6. ConnInv'
      BY <1>15, <2>1, <2>2, <2>3, <2>4, <2>5, AtOneConnection DEF SendReply, client
    <2>7. TypeInv'
      BY <1>15, <2>1 DEF SendReply, At, TypeInv, tables, server, links, client, bounds
    <2>8. SessionInv'
      BY <1>15, <2>1 DEF SendReply, At, SessionInv, tables
    <2> QED
      BY <1>15, <2>6, <2>7, <2>8 DEF SendReply, TurnInv, server, links, client
  <1>16. ASSUME NEW k \in Conn, SendReplyFails(k) PROVE Inv'
    <2>1. thread[k] = "reply" /\ thread'[k] = "parse"
      BY <1>16 DEF SendReplyFails, At, TypeInv
    <2>2. \A j \in Conn \ {k} : Same(j)
      BY <1>16 DEF SendReplyFails, At, Same, Dead, links
    <2>3. QueueOf(k)'
      BY <1>16, <2>1 DEF SendReplyFails, ConnInv, QueueOf, links
    <2>4. WaitOf(k)'
      BY <1>16, <2>1 DEF SendReplyFails, ConnInv, WaitOf, Waits, Dead, links, client
    <2>5. HandleOf(k)'
      BY <1>16, <2>1 DEF SendReplyFails, ConnInv, HandleOf, Agrees, links, client
    <2>6. ConnInv'
      BY <1>16, <2>1, <2>2, <2>3, <2>4, <2>5, AtOneConnection DEF SendReplyFails, client
    <2>7. TypeInv'
      BY <1>16, <2>1 DEF SendReplyFails, At, TypeInv, tables, server, links, client, bounds
    <2>8. SessionInv'
      BY <1>16, <2>1 DEF SendReplyFails, At, SessionInv, tables
    <2> QED
      BY <1>16, <2>6, <2>7, <2>8 DEF SendReplyFails, TurnInv, server, client
  <1>17. ASSUME NEW k \in Conn, OnClosed(k) PROVE Inv'
    <2>1. thread[k] # "reply" /\ thread'[k] # "reply"
      BY <1>17 DEF OnClosed, At
    <2>2. \A j \in Conn \ {k} : Same(j)
      BY <1>17 DEF OnClosed, At, Same, Dead, links
    <2>3. QueueOf(k)'
      BY <1>17, <2>1 DEF OnClosed, ConnInv, QueueOf, links
    <2>4. WaitOf(k)'
      BY <1>17, <2>1 DEF OnClosed, ConnInv, WaitOf, Waits, Idle, Dead, links, client
    <2>5. HandleOf(k)'
      BY <1>17, <2>1 DEF OnClosed, ConnInv, HandleOf, Agrees, links, client
    <2>6. ConnInv'
      BY <1>17, <2>1, <2>2, <2>3, <2>4, <2>5, AtOneConnection DEF OnClosed, client
    <2>7. TypeInv'
      BY <1>17, <2>1 DEF OnClosed, At, TypeInv, tables, server, links, client, bounds
    <2>8. SessionInv'
      BY <1>17, <2>1 DEF OnClosed, At, SessionInv
    <2> QED
      BY <1>17, <2>6, <2>7, <2>8 DEF OnClosed, TurnInv, server, client
  <1>18. ASSUME NEW k \in Conn, CloseSelf(k) PROVE Inv'
    <2>1. thread[k] # "reply" /\ thread'[k] # "reply"
      BY <1>18 DEF CloseSelf, At
    <2>2. \A j \in Conn \ {k} : Same(j)
      BY <1>18 DEF CloseSelf, At, Same, Dead, links
    <2>3. QueueOf(k)'
      BY <1>18, <2>1 DEF CloseSelf, ConnInv, QueueOf, links
    <2>4. WaitOf(k)'
      BY <1>18, <2>1 DEF CloseSelf, ConnInv, WaitOf, Waits, Idle, Dead, links, client
    <2>5. HandleOf(k)'
      BY <1>18, <2>1 DEF CloseSelf, ConnInv, HandleOf, Agrees, links, client
    <2>6. ConnInv'
      BY <1>18, <2>1, <2>2, <2>3, <2>4, <2>5, AtOneConnection DEF CloseSelf, client
    <2>7. TypeInv'
      BY <1>18, <2>1 DEF CloseSelf, At, TypeInv, tables, server, links, client, bounds
    <2>8. SessionInv'
      BY <1>18, <2>1 DEF CloseSelf, At, SessionInv, tables
    <2> QED
      BY <1>18, <2>6, <2>7, <2>8 DEF CloseSelf, TurnInv, server, client
  <1>19. ASSUME Stop PROVE Inv'
    <2> QED
      BY <1>19 DEF Stop, TypeInv, TurnInv, ConnInv, HandleOfConnection, QueueOf, WaitOf,
           HandleOf, Agrees, Waits, Idle, Dead, SessionInv, adapterVars, tables, server,
           links, client, bounds
  <1>20. ASSUME StopJoins PROVE Inv'
    <2> QED
      BY <1>20 DEF StopJoins, TypeInv, TurnInv, ConnInv, HandleOfConnection, QueueOf,
           WaitOf, HandleOf, Agrees, Waits, Idle, Dead, SessionInv, adapterVars, tables,
           server, links, client, bounds
  <1>21. ASSUME StopSkips PROVE Inv'
    <2> QED
      BY <1>21 DEF StopSkips, TypeInv, TurnInv, ConnInv, HandleOfConnection, QueueOf,
           WaitOf, HandleOf, Agrees, Waits, Idle, Dead, SessionInv, adapterVars, tables,
           server, links, client, bounds
  <1>22. ASSUME Stopped PROVE Inv'
    <2> QED
      BY <1>22 DEF Stopped, TypeInv, TurnInv, ConnInv, HandleOfConnection, QueueOf, WaitOf,
           HandleOf, Agrees, Waits, Idle, Dead, SessionInv, adapterVars, tables, server,
           links, client, bounds
  <1>23. ASSUME StopCloses PROVE Inv'
    <2>1. TypeInv'
      BY <1>23 DEF StopCloses, TypeInv, adapterVars, tables, server, links, client, bounds
    <2>2. ConnInv'
      <3>1. ASSUME NEW j \in Conn PROVE Same(j) /\ \A u \in Thread : Waits(u, j) <=> Waits(u, j)'
        BY <1>23 DEF StopCloses, Waits, Same, Dead, links, client
      <3>2. ASSUME NEW j \in Conn PROVE QueueOf(j)' /\ WaitOf(j)' /\ HandleOf(j)'
        BY <1>23, <3>1, Elsewhere DEF StopCloses, ConnInv, client
      <3> QED
        BY <1>23, <3>2 DEF StopCloses, ConnInv, HandleOfConnection, server, client
    <2> QED
      BY <1>23, <2>1, <2>2 DEF StopCloses, TurnInv, SessionInv, tables, server, client
  <1>24. ASSUME Break PROVE Inv'
    <2>1. PICK k \in 1..conns : /\ broken' = [broken EXCEPT ![k] = TRUE]
                                /\ \/ UNCHANGED <<toServer, toClient>>
                                   \/ /\ toServer' = [toServer EXCEPT ![k] = <<>>]
                                      /\ toClient' = [toClient EXCEPT ![k] = <<>>]
      BY <1>24 DEF Break
    <2>2. k \in Conn
      BY DEF TypeInv, Conn
    <2>3. TypeInv'
      BY <1>24, <2>1, <2>2 DEF Break, TypeInv, tables, server, links, client, bounds
    <2>4. ConnInv'
      <3>1. ASSUME NEW j \in Conn, j # k PROVE QueueOf(j)' /\ WaitOf(j)' /\ HandleOf(j)'
        <4>1. Same(j)
          BY <1>24, <2>1, <2>2, <3>1 DEF Break, Same, Dead, server, TypeInv
        <4> QED
          BY <1>24, <4>1, Elsewhere DEF Break, client, ConnInv, Waits
      <3>2. /\ toServer'[k] \in {toServer[k], <<>>} /\ toClient'[k] \in {toClient[k], <<>>}
            /\ Dead(k)'
            /\ UNCHANGED <<accum, thread, reply, session, socket, handle, pc>>
        <4>1. UNCHANGED <<accum, thread, reply, session, socket, handle, pc>>
          BY <1>24 DEF Break, server, client
        <4>2. toServer'[k] \in {toServer[k], <<>>} /\ toClient'[k] \in {toClient[k], <<>>}
          BY <2>1, <2>2 DEF TypeInv
        <4>3. Dead(k)'
          BY <2>1, <2>2 DEF Dead, TypeInv
        <4> QED
          BY <4>1, <4>2, <4>3
      <3>3. QueueOf(k)' /\ WaitOf(k)'
        BY <2>2, <3>2 DEF ConnInv, QueueOf, WaitOf, Waits, Holds
      <3>4. HandleOf(k)'
        BY <2>2, <3>2 DEF ConnInv, HandleOf, Agrees
      <3> QED
        BY <3>1, <3>2, <3>3, <3>4 DEF ConnInv, HandleOfConnection
    <2> QED
      BY <1>24, <2>3, <2>4 DEF Break, Event, TurnInv, SessionInv, tables, server, links,
           client, bounds
  <1>25. CASE UNCHANGED vars
    BY <1>25 DEF vars, tables, server, links, client, bounds, TypeInv, TurnInv, ConnInv,
         HandleOfConnection, QueueOf, WaitOf, HandleOf, Agrees, Waits, Idle, Dead,
         SessionInv
  <1> QED
    BY <1>1, <1>2, <1>3, <1>4, <1>5, <1>6, <1>7, <1>8, <1>9, <1>10, <1>11, <1>12, <1>13,
        <1>14, <1>15, <1>16, <1>17, <1>18, <1>19, <1>20, <1>21, <1>22, <1>23, <1>24, <1>25
        DEF Next, ClientStep, ServerStep, StopStep
-----------------------------------------------------------------------------
\* A session in the table is that of one connection, whose thread still runs.
THEOREM SessionsAreAccountedFor == Spec => []SessionsAccounted
  <1>1. Inv => SessionsAccounted
    <2> SUFFICES ASSUME Inv, NEW h \in sessions
                 PROVE  Cardinality({k \in Conn :
                          session[k] = h /\ thread[k] \notin {"close", "done"}}) = 1
      BY DEF SessionsAccounted
    <2>1. PICK k \in Conn : session[k] = h /\ thread[k] \notin {"close", "done"}
      BY DEF Inv, SessionInv
    <2>2. h # 0
      BY DEF Inv, TypeInv
    <2>3. {l \in Conn : session[l] = h /\ thread[l] \notin {"close", "done"}} = {k}
      BY <2>1, <2>2 DEF Inv, SessionInv
    <2> QED
      BY <2>3, FS_Singleton
  <1> QED
    BY InvInit, InvStep, <1>1, PTL DEF Spec

\* A client uses the session of the connection it holds, never one of a connection it lost.
THEOREM HandlesAreOfTheirConnections == Spec => []HandleOfConnection
  <1>1. Inv => HandleOfConnection
    BY DEF Inv, ConnInv
  <1> QED
    BY InvInit, InvStep, <1>1, PTL DEF Spec

\* The reply that a thread takes off the socket it shares is the reply to its own request.
THEOREM RepliesReachTheirRequests == Spec => []ReplyIsOwn
  <1>1. Inv => ReplyIsOwn
    <2> SUFFICES ASSUME Inv, NEW t \in Thread, pc[t] = "wait"
                 PROVE  Outstanding(socket[Owner[t]]) \in {<<>>, <<t>>}
      BY DEF ReplyIsOwn
    <2>1. PICK k \in Conn : k = socket[Owner[t]]
      BY SessionsAssumption DEF Inv, TypeInv, TurnInv, Conn
    <2>2. QueueOf(k) /\ WaitOf(k) /\ Waits(t, k)
      BY <2>1 DEF Inv, ConnInv, Waits
    <2>3. ASSUME NEW S, NEW q, Holds(q, S), q # <<>> => q[1].id = t
          PROVE  Ids(q) = IF q = <<>> THEN <<>> ELSE <<t>>
      <3>1. CASE q = <<>>
        BY <3>1 DEF Ids
      <3>2. ASSUME NEW x \in S, q = <<x>> PROVE Ids(q) = <<x.id>>
        BY <3>2 DEF Ids
      <3> QED
        BY <2>3, <3>1, <3>2 DEF Holds
    <2>4. /\ Ids(toServer[k]) = IF toServer[k] = <<>> THEN <<>> ELSE <<t>>
          /\ Ids(accum[k]) = IF accum[k] = <<>> THEN <<>> ELSE <<t>>
          /\ Ids(toClient[k]) = IF toClient[k] = <<>> THEN <<>> ELSE <<t>>
          /\ thread[k] = "reply" => reply[k].id = t
      BY <2>2, <2>3 DEF QueueOf, WaitOf
    <2>5. Outstanding(k) \in {<<>>, <<t>>}
      <3>1. \A q \in {<<>>, <<t>>} : q \o <<>> = q /\ <<>> \o q = q
        BY ConcatEmptySeq
      <3> QED
        BY <2>2, <2>4, <3>1 DEF Outstanding, QueueOf
    <2> QED
      BY <2>1, <2>5
  <1> QED
    BY InvInit, InvStep, <1>1, PTL DEF Spec
=============================================================================
