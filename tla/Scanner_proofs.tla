---------------------------- MODULE Scanner_proofs ----------------------------
(***************************************************************************)
(* Proofs about Scanner, for any number of connections of each kind and    *)
(* any number of reconnections.                                            *)
(***************************************************************************)
EXTENDS Scanner, TLAPS

\* A connection lives only on a scanner that is connected; the transports made are counted.
LivingOK ==
  /\ made \in Nat
  /\ \A k \in Conn : Living(k) => socket

\* A stage belongs to the kinds of connection that pass through it.
StageOK ==
  \A k \in Conn :
    /\ stage[k] \in {"server", "undo", "first", "rest"} => Kind[k] = "safety"
    /\ stage[k] \in {"opened", "closing", "stopping"} => Kind[k] # "explicit"

\* What leads a frame to a connection is there from its start to its drain only: a route
\* to an I/O connection, the transport's handler to a safety connection.
RouteOK ==
  /\ \A k \in routes : Kind[k] = "io" /\ stage[k] \in {"open", "closing"}
  /\ onMessage \in Conn =>
       Kind[onMessage] = "safety" /\ stage[onMessage] \in {"open", "closing"}

\* The dispatch thread is in a handler only under the lock that the drain needs.
HandlingOK ==
  handling # None =>
    /\ transport # 0
    /\ IF Kind[handling] = "safety" THEN stage[handling] \in {"open", "closing"}
                                    ELSE handling \in routes

\* A production thread runs from the start of a connection to its join.
ProducerOK ==
  \A k \in Conn : producer[k] \in {"loop", "send"} =>
    Kind[k] # "explicit" /\ stage[k] \in {"open", "closing", "stopping"}

\* What the target can hold of a connection in each stage.  A pair is in "last", and not in
\* "rest", only when the target has closed the server's part.
TargetOf(k) ==
  /\ stage[k] \in {"none", "refused", "closed"} => Parts(k) \cap target = {}
  /\ stage[k] \in {"server", "undo"} => <<k, "client">> \notin target
  /\ stage[k] = "last" /\ Kind[k] = "safety" => <<k, "server">> \notin target

TargetOK == \A k \in Conn : TargetOf(k)

Inv == TypeOK /\ LivingOK /\ StageOK /\ RouteOK /\ HandlingOK /\ ProducerOK /\ TargetOK

-----------------------------------------------------------------------------
AnyPart(k) == {<<k, "only">>, <<k, "server">>, <<k, "client">>}

\* What the target holds of one connection is nothing of another.
LEMMA PartsApart ==
  ASSUME NEW j \in Conn, NEW k \in Conn, j # k
  PROVE  Parts(j) \cap AnyPart(k) = {}
  BY DEF Parts, AnyPart

\* A step that is not about a connection leaves what the target may hold of it.
LEMMA TargetFrame ==
  ASSUME TypeOK, StageOK, NEW j \in Conn, TargetOf(j),
         Parts(j) \cap target' = Parts(j) \cap target,
         stage'[j] = stage[j]
  PROVE  TargetOf(j)'
  BY DEF TargetOf, StageOK, Parts

\* The scanner starts with nothing.
LEMMA InvInit == Init => Inv
  BY ScannerAssumption DEF Init, Inv, TypeOK, LivingOK, StageOK, RouteOK, HandlingOK,
       ProducerOK, TargetOK, TargetOf, Living

\* Every step of a thread keeps the invariant.
LEMMA InvStep == Inv /\ [Next]_vars => Inv'
  <1> SUFFICES ASSUME Inv, [Next]_vars PROVE Inv'
    OBVIOUS
  <1> USE ScannerAssumption DEF Inv
  <1>1. ASSUME Connect PROVE Inv'
    <2>1. TypeOK'
      BY <1>1 DEF Connect, TypeOK, LivingOK
    <2>2. LivingOK'
      BY <1>1 DEF Connect, LivingOK
    <2>3. RouteOK'
      BY <1>1 DEF Connect, RouteOK
    <2>4. HandlingOK'
      BY <1>1 DEF Connect, LivingOK, HandlingOK
    <2>5. TargetOK'
      BY <1>1 DEF Connect, TargetOK, TargetOf, LivingOK, Living, Over
    <2> QED
      BY <1>1, <2>1, <2>2, <2>3, <2>4, <2>5 DEF Connect, StageOK, ProducerOK, Living,
           TargetOf, udp, sessionVars
  <1>2. ASSUME Disconnect PROVE Inv'
    <2>1. TypeOK'
      BY <1>2 DEF Disconnect, sessionVars, TypeOK
    <2>2. LivingOK'
      BY <1>2 DEF Disconnect, LivingOK, Living
    <2>3. TargetOK'
      BY <1>2 DEF Disconnect, TargetOK, TargetOf
    <2> QED
      BY <1>2, <2>1, <2>2, <2>3 DEF Disconnect, sessionVars, StageOK, RouteOK, HandlingOK,
           ProducerOK, udp
  <1>3. ASSUME Disconnected PROVE Inv'
    <2>1. TypeOK'
      BY <1>3 DEF Disconnected, sessionVars, TypeOK, LivingOK
    <2>2. RouteOK'
      BY <1>3 DEF Disconnected, RouteOK
    <2>3. HandlingOK'
      BY <1>3 DEF Disconnected, HandlingOK
    <2> QED
      BY <1>3, <2>1, <2>2, <2>3 DEF Disconnected, sessionVars, LivingOK, StageOK,
           ProducerOK, TargetOK, Living, TargetOf, udp
  <1>4. ASSUME Request PROVE Inv'
    <2>1. TypeOK'
      BY <1>4 DEF Request, udp, Exchange, TypeOK
    <2>2. LivingOK'
      BY <1>4 DEF Request, udp, Exchange, LivingOK, Living
    <2>3. TargetOK'
      BY <1>4 DEF Request, Exchange, TargetOK, TargetOf
    <2> QED
      BY <1>4, <2>1, <2>2, <2>3 DEF Request, udp, StageOK, RouteOK, HandlingOK, ProducerOK,
           Living, sessionVars
  <1>5. ASSUME NEW k \in Conn, Open(k) PROVE Inv'
    <2>1. TypeOK'
      BY <1>5 DEF Open, Exchange, udp, Stage, Ended, TypeOK, LivingOK, Over
    <2>2. LivingOK'
      BY <1>5 DEF Open, Exchange, udp, TypeOK, LivingOK
    <2>3. StageOK'
      BY <1>5 DEF Open, Stage, Ended, StageOK
    <2>4. RouteOK'
      BY <1>5 DEF Open, udp, Stage, RouteOK
    <2>5. HandlingOK'
      BY <1>5 DEF Open, udp, Stage, HandlingOK
    <2>6. ProducerOK'
      BY <1>5 DEF Open, Stage, ProducerOK
    <2>7. TargetOK'
      <3> SUFFICES ASSUME NEW j \in Conn PROVE TargetOf(j)'
        BY DEF TargetOK
      <3>1. CASE j # k
        <4>1. target' \subseteq target \cup AnyPart(k) /\ target \subseteq target' \cup AnyPart(k)
          BY <1>5 DEF Open, AnyPart, Parts
        <4>2. Parts(j) \cap target' = Parts(j) \cap target
          BY <3>1, <4>1, PartsApart
        <4>3. stage'[j] = stage[j]
          BY <1>5, <3>1 DEF Open, Stage, TypeOK
        <4> QED
          BY <4>2, <4>3, TargetFrame DEF TargetOK
      <3>2. CASE j = k
        BY <1>5, <3>2 DEF Open, Stage, Ended, Reached, TypeOK, TargetOK, TargetOf
      <3> QED
        BY <3>1, <3>2
    <2> QED
      BY <1>5, <2>1, <2>2, <2>3, <2>4, <2>5, <2>6, <2>7
  <1>6. ASSUME NEW k \in Conn, OpenServer(k) PROVE Inv'
    <2>1. TypeOK'
      BY <1>6 DEF OpenServer, Exchange, udp, Stage, Ended, TypeOK, LivingOK, Over, Parts
    <2>2. LivingOK'
      BY <1>6 DEF OpenServer, Exchange, udp, TypeOK, LivingOK
    <2>3. StageOK'
      BY <1>6 DEF OpenServer, Stage, StageOK
    <2>4. RouteOK'
      BY <1>6 DEF OpenServer, udp, Stage, RouteOK
    <2>5. HandlingOK'
      BY <1>6 DEF OpenServer, udp, Stage, HandlingOK
    <2>6. ProducerOK'
      BY <1>6 DEF OpenServer, Stage, ProducerOK
    <2>7. TargetOK'
      <3> SUFFICES ASSUME NEW j \in Conn PROVE TargetOf(j)'
        BY DEF TargetOK
      <3>1. CASE j # k
        <4>1. target' \subseteq target \cup AnyPart(k) /\ target \subseteq target' \cup AnyPart(k)
          BY <1>6 DEF OpenServer, AnyPart
        <4>2. Parts(j) \cap target' = Parts(j) \cap target
          BY <3>1, <4>1, PartsApart
        <4>3. stage'[j] = stage[j]
          BY <1>6, <3>1 DEF OpenServer, Stage, TypeOK
        <4> QED
          BY <4>2, <4>3, TargetFrame DEF TargetOK
      <3>2. CASE j = k
        BY <1>6, <3>2 DEF OpenServer, Stage, Ended, Reached, TypeOK, TargetOK, TargetOf,
             Parts
      <3> QED
        BY <3>1, <3>2
    <2> QED
      BY <1>6, <2>1, <2>2, <2>3, <2>4, <2>5, <2>6, <2>7
  <1>7. ASSUME NEW k \in Conn, Start(k) PROVE Inv'
    <2>1. TypeOK'
      BY <1>7 DEF Start, Stage, sessionVars, udp, TypeOK
    <2>2. LivingOK'
      BY <1>7 DEF Start, sessionVars, udp, LivingOK, Living, Over
    <2>3. StageOK'
      BY <1>7 DEF Start, Stage, StageOK
    <2>4. RouteOK'
      BY <1>7 DEF Start, Stage, udp, TypeOK, RouteOK
    <2>5. HandlingOK'
      BY <1>7 DEF Start, Stage, udp, HandlingOK
    <2>6. ProducerOK'
      BY <1>7 DEF Start, Stage, TypeOK, ProducerOK
    <2>7. TargetOK'
      BY <1>7 DEF Start, Stage, sessionVars, TypeOK, TargetOK, TargetOf
    <2> QED
      BY <1>7, <2>1, <2>2, <2>3, <2>4, <2>5, <2>6, <2>7
  <1>8. ASSUME NEW k \in Conn, OpenClient(k) PROVE Inv'
    <2>1. TypeOK'
      <3>1. <<k, "client">> \in Parts(k)
        BY <1>8 DEF OpenClient, StageOK, Parts
      <3>2. target' \subseteq UNION {Parts(j) : j \in Conn}
        BY <1>8, <3>1 DEF OpenClient, TypeOK
      <3> QED
        BY <1>8, <3>2 DEF OpenClient, Exchange, udp, Stage, TypeOK, Over
    <2>2. LivingOK'
      BY <1>8 DEF OpenClient, Exchange, udp, LivingOK, Living, Over
    <2>3. StageOK'
      BY <1>8 DEF OpenClient, Stage, StageOK
    <2>4. RouteOK'
      BY <1>8 DEF OpenClient, udp, Stage, RouteOK
    <2>5. HandlingOK'
      BY <1>8 DEF OpenClient, udp, Stage, HandlingOK
    <2>6. ProducerOK'
      BY <1>8 DEF OpenClient, Stage, ProducerOK
    <2>7. TargetOK'
      <3> SUFFICES ASSUME NEW j \in Conn PROVE TargetOf(j)'
        BY DEF TargetOK
      <3>1. CASE j # k
        <4>1. target' \subseteq target \cup AnyPart(k) /\ target \subseteq target' \cup AnyPart(k)
          BY <1>8 DEF OpenClient, AnyPart
        <4>2. Parts(j) \cap target' = Parts(j) \cap target
          BY <3>1, <4>1, PartsApart
        <4>3. stage'[j] = stage[j]
          BY <1>8, <3>1 DEF OpenClient, Stage, TypeOK
        <4> QED
          BY <4>2, <4>3, TargetFrame DEF TargetOK
      <3>2. CASE j = k
        BY <1>8, <3>2 DEF OpenClient, Stage, Reached, TypeOK, TargetOK, TargetOf
      <3> QED
        BY <3>1, <3>2
    <2> QED
      BY <1>8, <2>1, <2>2, <2>3, <2>4, <2>5, <2>6, <2>7
  <1>9. ASSUME NEW k \in Conn, Install(k) PROVE Inv'
    <2>1. TypeOK'
      BY <1>9 DEF Install, Stage, sessionVars, TypeOK
    <2>2. LivingOK'
      BY <1>9 DEF Install, sessionVars, LivingOK, Living, Over
    <2>3. StageOK'
      BY <1>9 DEF Install, Stage, StageOK
    <2>4. RouteOK'
      BY <1>9 DEF Install, Stage, TypeOK, RouteOK
    <2>5. HandlingOK'
      BY <1>9 DEF Install, HandlingOK
    <2>6. ProducerOK'
      BY <1>9 DEF Install, Stage, TypeOK, ProducerOK
    <2>7. TargetOK'
      BY <1>9 DEF Install, Stage, sessionVars, TypeOK, TargetOK, TargetOf
    <2> QED
      BY <1>9, <2>1, <2>2, <2>3, <2>4, <2>5, <2>6, <2>7 DEF udp
  <1>10. ASSUME NEW k \in Conn, Close(k) PROVE Inv'
    <2>1. TypeOK'
      BY <1>10 DEF Close, Stage, sessionVars, udp, TypeOK
    <2>2. LivingOK'
      BY <1>10 DEF Close, sessionVars, udp, LivingOK, Living, Over
    <2>3. StageOK'
      BY <1>10 DEF Close, Stage, StageOK
    <2>4. RouteOK'
      BY <1>10 DEF Close, Stage, udp, RouteOK
    <2>5. HandlingOK'
      BY <1>10 DEF Close, Stage, udp, HandlingOK
    <2>6. ProducerOK'
      BY <1>10 DEF Close, Stage, ProducerOK
    <2>7. TargetOK'
      BY <1>10 DEF Close, Stage, sessionVars, TypeOK, TargetOK, TargetOf
    <2> QED
      BY <1>10, <2>1, <2>2, <2>3, <2>4, <2>5, <2>6, <2>7
  <1>11. ASSUME NEW k \in Conn, Unroute(k) PROVE Inv'
    <2>1. TypeOK'
      BY <1>11 DEF Unroute, Stage, sessionVars, udp, TypeOK
    <2>2. LivingOK'
      BY <1>11 DEF Unroute, sessionVars, udp, LivingOK, Living, Over
    <2>3. StageOK'
      BY <1>11 DEF Unroute, Stage, StageOK
    <2>4. RouteOK'
      BY <1>11 DEF Unroute, Stage, udp, RouteOK
    <2>5. HandlingOK'
      BY <1>11 DEF Unroute, RoutesFree, Stage, udp, HandlingOK
    <2>6. ProducerOK'
      BY <1>11 DEF Unroute, Stage, ProducerOK
    <2>7. TargetOK'
      BY <1>11 DEF Unroute, Stage, sessionVars, TypeOK, TargetOK, TargetOf
    <2> QED
      BY <1>11, <2>1, <2>2, <2>3, <2>4, <2>5, <2>6, <2>7
  <1>12. ASSUME NEW k \in Conn, Drain(k) PROVE Inv'
    <2>1. TypeOK'
      BY <1>12 DEF Drain, Stage, sessionVars, TypeOK
    <2>2. LivingOK'
      BY <1>12 DEF Drain, sessionVars, LivingOK, Living, Over
    <2>3. StageOK'
      BY <1>12 DEF Drain, Stage, StageOK
    <2>4. RouteOK'
      BY <1>12 DEF Drain, Stage, RouteOK
    <2>5. HandlingOK'
      BY <1>12 DEF Drain, HandlingOK
    <2>6. ProducerOK'
      BY <1>12 DEF Drain, Stage, ProducerOK
    <2>7. TargetOK'
      BY <1>12 DEF Drain, Stage, sessionVars, TypeOK, TargetOK, TargetOf
    <2> QED
      BY <1>12, <2>1, <2>2, <2>3, <2>4, <2>5, <2>6, <2>7 DEF udp
  <1>13. ASSUME NEW k \in Conn, Join(k) PROVE Inv'
    <2>1. TypeOK'
      BY <1>13 DEF Join, Stage, sessionVars, udp, TypeOK
    <2>2. LivingOK'
      BY <1>13 DEF Join, sessionVars, udp, LivingOK, Living, Over
    <2>3. StageOK'
      BY <1>13 DEF Join, Stage, StageOK
    <2>4. RouteOK'
      BY <1>13 DEF Join, Stage, udp, RouteOK
    <2>5. HandlingOK'
      BY <1>13 DEF Join, Stage, udp, HandlingOK
    <2>6. ProducerOK'
      BY <1>13 DEF Join, Stage, ProducerOK
    <2>7. TargetOK'
      BY <1>13 DEF Join, Stage, sessionVars, TypeOK, TargetOK, TargetOf
    <2> QED
      BY <1>13, <2>1, <2>2, <2>3, <2>4, <2>5, <2>6, <2>7
  <1>14. ASSUME NEW k \in Conn, ForwardClose(k) PROVE Inv'
    <2>1. TypeOK'
      BY <1>14 DEF ForwardClose, Exchange, udp, Stage, TypeOK, LivingOK, Over
    <2>2. LivingOK'
      BY <1>14 DEF ForwardClose, Exchange, udp, LivingOK, Living, Over
    <2>3. StageOK'
      BY <1>14 DEF ForwardClose, Stage, StageOK
    <2>4. RouteOK'
      BY <1>14 DEF ForwardClose, udp, Stage, RouteOK
    <2>5. HandlingOK'
      BY <1>14 DEF ForwardClose, udp, Stage, HandlingOK
    <2>6. ProducerOK'
      BY <1>14 DEF ForwardClose, Stage, ProducerOK
    <2>7. TargetOK'
      <3> SUFFICES ASSUME NEW j \in Conn PROVE TargetOf(j)'
        BY DEF TargetOK
      <3>1. CASE j # k
        <4>1. target' \subseteq target \cup AnyPart(k) /\ target \subseteq target' \cup AnyPart(k)
          BY <1>14 DEF ForwardClose, AnyPart
        <4>2. Parts(j) \cap target' = Parts(j) \cap target
          BY <3>1, <4>1, PartsApart
        <4>3. stage'[j] = stage[j]
          BY <1>14, <3>1 DEF ForwardClose, Stage, TypeOK
        <4> QED
          BY <4>2, <4>3, TargetFrame DEF TargetOK
      <3>2. CASE j = k
        <4>1. PICK r \in Replies : ForwardClose(k)!2!(r)
          BY <1>14 DEF ForwardClose
        <4>2. CASE stage[k] = "first"
          BY <3>2, <4>1, <4>2 DEF Stage, TypeOK, TargetOf
        <4>3. CASE stage[k] = "undo"
          <5>1. CASE ~Reached(r)
            BY <3>2, <4>1, <4>3, <5>1 DEF TypeOK, TargetOf, Stage
          <5>2. CASE Reached(r)
            <6>1. stage'[k] = "refused"
              BY <4>1, <4>3, <5>2 DEF TypeOK, Stage
            <6>2. Parts(k) \cap target' = {}
              BY <4>1, <4>3, <5>2 DEF TargetOK, TargetOf, Parts
            <6> QED
              BY <3>2, <6>1, <6>2 DEF TargetOf
          <5> QED
            BY <5>1, <5>2
        <4>4. CASE stage[k] = "last"
          <5>1. CASE ~Reached(r)
            BY <3>2, <4>1, <4>4, <5>1 DEF TypeOK, TargetOf, Stage
          <5>2. CASE Reached(r)
            <6>1. stage'[k] = "closed"
              BY <4>1, <4>4, <5>2 DEF TypeOK, Stage
            <6>2. Parts(k) \cap target' = {}
              BY <4>1, <4>4, <5>2 DEF TargetOK, TargetOf, Parts
            <6> QED
              BY <3>2, <6>1, <6>2 DEF TargetOf
          <5> QED
            BY <5>1, <5>2
        <4>5. CASE stage[k] = "rest"
          BY <3>2, <4>1, <4>5 DEF Stage, TypeOK, TargetOf
        <4> QED
          BY <1>14, <4>2, <4>3, <4>4, <4>5 DEF ForwardClose
      <3> QED
        BY <3>1, <3>2
    <2> QED
      BY <1>14, <2>1, <2>2, <2>3, <2>4, <2>5, <2>6, <2>7
  <1>15. ASSUME NEW k \in Conn, Produce(k) PROVE Inv'
    <2>1. TypeOK'
      BY <1>15 DEF Produce, sessionVars, udp, TypeOK
    <2>2. ProducerOK'
      BY <1>15 DEF Produce, TypeOK, ProducerOK
    <2> QED
      BY <1>15, <2>1, <2>2 DEF Produce, sessionVars, udp, LivingOK, StageOK, RouteOK,
           HandlingOK, TargetOK, Living, TargetOf
  <1>16. ASSUME NEW k \in Conn, SendIoData(k) PROVE Inv'
    <2>1. TypeOK'
      BY <1>16 DEF SendIoData, sessionVars, udp, TypeOK
    <2>2. ProducerOK'
      BY <1>16 DEF SendIoData, ProducerOK
    <2> QED
      BY <1>16, <2>1, <2>2 DEF SendIoData, sessionVars, udp, LivingOK, StageOK, RouteOK,
           HandlingOK, TargetOK, Living, TargetOf
  <1>17. ASSUME TargetProduces PROVE Inv'
    <2> QED
      BY <1>17 DEF TargetProduces, sessionVars, udp, TypeOK, LivingOK, StageOK, RouteOK,
           HandlingOK, ProducerOK, TargetOK, Living, TargetOf
  <1>18. ASSUME Dispatch PROVE Inv'
    <2>1. TypeOK'
      BY <1>18 DEF Dispatch, sessionVars, udp, TypeOK
    <2>2. HandlingOK'
      BY <1>18 DEF Dispatch, udp, TypeOK, RouteOK, HandlingOK
    <2> QED
      BY <1>18, <2>1, <2>2 DEF Dispatch, sessionVars, udp, LivingOK, StageOK, RouteOK,
           ProducerOK, TargetOK, Living, TargetOf
  <1>19. ASSUME Handled PROVE Inv'
    <2>1. TypeOK'
      BY <1>19 DEF Handled, sessionVars, udp, TypeOK
    <2>2. HandlingOK'
      BY <1>19 DEF Handled, HandlingOK
    <2> QED
      BY <1>19, <2>1, <2>2 DEF Handled, sessionVars, udp, LivingOK, StageOK, RouteOK,
           ProducerOK, TargetOK, Living, TargetOf
  <1>20. ASSUME Lose PROVE Inv'
    <2> QED
      BY <1>20 DEF Lose, sessionVars, udp, TypeOK, LivingOK, StageOK, RouteOK, HandlingOK,
           ProducerOK, TargetOK, Living, TargetOf
  <1>21. CASE UNCHANGED vars
    BY <1>21 DEF vars, TypeOK, LivingOK, StageOK, RouteOK, HandlingOK, ProducerOK, TargetOK,
         TargetOf, sessionVars, udp, Living
  <1> QED
    BY <1>1, <1>2, <1>3, <1>4, <1>5, <1>6, <1>7, <1>8, <1>9, <1>10, <1>11, <1>12, <1>13,
        <1>14, <1>15, <1>16, <1>17, <1>18, <1>19, <1>20, <1>21 DEF Next, Opening, Closing

-----------------------------------------------------------------------------
\* Types, for every instance.
THEOREM ScannerTypeCorrect == Spec => []TypeOK
  <1>1. Inv => TypeOK
    BY DEF Inv
  <1> QED
    BY InvInit, InvStep, <1>1, PTL DEF Spec

\* No frame is handled for a connection whose close() has returned, nor by a transport that
\* is gone: each close waits, under the lock that its own frames are handled under, before
\* it goes on.
THEOREM HandlersNeverOutliveTheirConnection == Spec => []HandledAlive
  <1>1. Inv => HandledAlive
    BY DEF Inv, RouteOK, HandlingOK, HandledAlive, Living, Over
  <1> QED
    BY InvInit, InvStep, <1>1, PTL DEF Spec

\* A connection whose close() has returned has no production thread that still produces, no
\* route and no handler.
THEOREM ClosedConnectionsAreSilent == Spec => []SilentWhenOver
  <1>1. Inv => SilentWhenOver
    BY DEF Inv, TypeOK, RouteOK, ProducerOK, SilentWhenOver, Over
  <1> QED
    BY InvInit, InvStep, <1>1, PTL DEF Spec

\* The target holds nothing of a connection that it refused, in whole or in part, or whose
\* every Forward Close it carried out.
THEOREM ClosedConnectionsAreReleased == Spec => []NothingLeft
  <1>1. Inv => NothingLeft
    <2> SUFFICES ASSUME Inv, NEW p \in target
                 PROVE  Living(p[1]) \/ stage[p[1]] \in {"failed", "left"}
      BY DEF NothingLeft
    <2>1. PICK k \in Conn : p \in Parts(k)
      BY DEF Inv, TypeOK
    <2>2. p[1] = k
      BY <2>1 DEF Parts
    <2>3. stage[k] \notin {"none", "refused", "closed"}
      BY <2>1 DEF Inv, TargetOK, TargetOf
    <2> QED
      BY <2>2, <2>3 DEF Living, Over
  <1> QED
    BY InvInit, InvStep, <1>1, PTL DEF Spec
=============================================================================
