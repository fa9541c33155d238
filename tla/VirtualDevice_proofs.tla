------------------------ MODULE VirtualDevice_proofs ------------------------
(***************************************************************************)
(* Invariants of VirtualDevice for any number of clients, connections and  *)
(* kinds of connection, proved with TLAPS.                                 *)
(***************************************************************************)
EXTENDS VirtualDevice, TLAPS

USE ManagerAssumption, DeviceAssumption DEF ManagerAssumption, DeviceAssumption

-----------------------------------------------------------------------------
(* Type correctness.  TypeOK is not inductive: a handler uses cur[a] to     *)
(* update the table, so a thread inside one must refer to a connection.     *)

LooseLabels == {"idle", "scan", "stopped"} \cup AppLabels

\* A thread inside a handler refers to a connection, and one about to insert
\* its connection to one whose id was handed out.
CurOK ==
  \A a \in Threads :
    /\ at[a] \notin LooseLabels => cur[a] \in ConnIds
    /\ at[a] = "insert" => cur[a] \in 1..next_connection_id

TypeInv == TypeOK /\ CurOK

LEMMA TypeInit == Init => TypeInv
<1> SUFFICES ASSUME Init PROVE TypeInv
  OBVIOUS
<1> USE DEF Init, ManagerInit
<1>1. info \in [ConnIds -> ConnInfo]
  <2>1. \E i \in ConnInfo : TRUE
    <3>1. PICK t \in Triads, p \in Profiles, a \in Clients : TRUE
      OBVIOUS
    <3>2. [triad |-> t, profile |-> p, owner |-> a] \in ConnInfo
      BY <3>1 DEF ConnInfo
    <3>3. QED
      BY <3>2
  <2>2. (CHOOSE i \in ConnInfo : TRUE) \in ConnInfo
    BY <2>1
  <2>3. QED
    BY <2>2
<1>2. \A a \in Threads : at[a] = "idle"
  OBVIOUS
<1>3. endpoint \in [ConnIds -> Endpoint]
  BY DEF Endpoint
<1>4. last_received \in [ConnIds -> [from : {"open", "frame"}, old : BOOLEAN]]
  OBVIOUS
<1>5. next_connection_id \in 0..MaxOpens /\ connections \subseteq 1..next_connection_id
  OBVIOUS
<1>6. TypeOK
  <2>1. TableTypeOK
    BY <1>1, <1>5 DEF TableTypeOK, ConnectionState
  <2>2. LabelTypeOK
    BY <1>2 DEF LabelTypeOK, Labels, Threads
  <2>3. RefTypeOK
    BY DEF RefTypeOK
  <2>4. ProductionTypeOK
    BY DEF ProductionTypeOK
  <2>5. IoTypeOK
    BY <1>3, <1>4 DEF IoTypeOK
  <2>6. QED
    BY <2>1, <2>2, <2>3, <2>4, <2>5 DEF TypeOK
<1>7. CurOK
  BY DEF CurOK, LooseLabels
<1>8. QED
  BY <1>6, <1>7 DEF TypeInv
LEMMA TypeStep == TypeInv /\ [Next]_vars => TypeInv'
<1> SUFFICES ASSUME TypeInv, [Next]_vars PROVE TypeInv'
  OBVIOUS
<1> USE DEF TypeInv, TypeOK, tableVars, productionVars, timerVars, ioVars
<1>a. connections \subseteq ConnIds
  BY DEF TableTypeOK, ConnIds
<1>b. \A a \in Threads : at[a] \notin LooseLabels => cur[a] \in ConnIds
  BY DEF CurOK
<1>1. ASSUME NEW a \in Clients, ForwardOpen(a) PROVE TypeInv'
  <2>1. PICK t \in Triads, p \in Profiles : ForwardOpenCheck(a, t, p)
    BY <1>1 DEF ForwardOpen
  <2>2. DeviceUnchanged
    BY <1>1 DEF ForwardOpen
  <2>3. NewId \in ConnIds /\ NewId = next_connection_id + 1
    BY <2>1 DEF ForwardOpenCheck, NewId, ConnIds, TableTypeOK
  <2>4. [triad |-> t, profile |-> p, owner |-> a] \in ConnInfo
    BY DEF ConnInfo
  <2>5. TableTypeOK'
    BY <2>1, <2>3, <2>4 DEF ForwardOpenCheck, TableTypeOK, ConnectionState
  <2>6. LabelTypeOK'
    BY <2>1 DEF ForwardOpenCheck, Goto, LabelTypeOK, Threads, Labels, OpenLabels
  <2>7. RefTypeOK'
    BY <2>1, <2>2, <2>3 DEF ForwardOpenCheck, DeviceUnchanged, RefTypeOK
  <2>8. CurOK'
    <3>1. cur' = [cur EXCEPT ![a] = NewId] /\ at' = [at EXCEPT ![a] = "insert"]
      BY <2>1 DEF ForwardOpenCheck, Goto
    <3>2. NewId \in 1..next_connection_id'
      BY <2>1, <2>3 DEF ForwardOpenCheck, TableTypeOK
    <3>3. 1..next_connection_id \subseteq 1..next_connection_id'
      BY <2>1 DEF ForwardOpenCheck, TableTypeOK
    <3>4. QED
      BY <2>3, <3>1, <3>2, <3>3 DEF CurOK, RefTypeOK
  <2>9. QED
    BY <2>1, <2>2, <2>5, <2>6, <2>7, <2>8 DEF DeviceUnchanged, ProductionTypeOK, IoTypeOK
<1>2. ASSUME NEW a \in Clients, ForwardClose(a) PROVE TypeInv'
  <2>1. PICK c \in connections : ForwardClosePop(a, c)
    BY <1>2 DEF ForwardClose
  <2>2. DeviceUnchanged
    BY <1>2 DEF ForwardClose
  <2>3. TableTypeOK'
    BY <2>1 DEF ForwardClosePop, TableTypeOK
  <2>4. LabelTypeOK'
    BY <2>1 DEF ForwardClosePop, Goto, LabelTypeOK, Threads, Labels, RemovalLabels
  <2>5. RefTypeOK'
    BY <1>a, <2>1, <2>2 DEF ForwardClosePop, DeviceUnchanged, RefTypeOK
  <2>6. CurOK'
    BY <1>a, <2>1 DEF ForwardClosePop, Goto, CurOK, RefTypeOK
  <2>7. QED
    BY <2>1, <2>2, <2>3, <2>4, <2>5, <2>6 DEF DeviceUnchanged, ProductionTypeOK, IoTypeOK
<1>3. ASSUME NEW a \in Threads, ForwardOpenInsert(a), DeviceUnchanged PROVE TypeInv'
  <2>1. TableTypeOK'
    <3>1. cur[a] \in 1..next_connection_id
      BY <1>3 DEF ForwardOpenInsert, CurOK
    <3>2. QED
      BY <1>3, <3>1 DEF ForwardOpenInsert, TableTypeOK
  <2>2. LabelTypeOK'
    BY <1>a, <1>b, <1>3 DEF ForwardOpenInsert, Goto, LabelTypeOK, AppLabels, Threads,
         Labels, RemovalLabels, OpenLabels, UdpLabels, WatchdogLabels
  <2>3. RefTypeOK'
    BY <1>a, <1>b, <1>3 DEF ForwardOpenInsert, DeviceUnchanged, RefTypeOK
  <2>4. CurOK'
    BY <1>3 DEF ForwardOpenInsert, Goto, TableTypeOK, LabelTypeOK, CurOK, ConnIds
  <2>5. QED
    BY <1>3, <2>1, <2>2, <2>3, <2>4 DEF DeviceUnchanged, ProductionTypeOK, IoTypeOK
<1>4. ASSUME NEW a \in Threads, TimeoutMark(a), DeviceUnchanged PROVE TypeInv'
  <2>1. TableTypeOK'
    BY <1>a, <1>b, <1>4 DEF TimeoutMark, TableTypeOK, ConnectionState
  <2>2. LabelTypeOK'
    BY <1>a, <1>b, <1>4 DEF TimeoutMark, Goto, LabelTypeOK, Threads, Labels, RemovalLabels,
         UdpLabels
  <2>3. RefTypeOK'
    BY <1>a, <1>b, <1>4 DEF TimeoutMark, DeviceUnchanged, RefTypeOK
  <2>4. CurOK'
    BY <1>4 DEF TimeoutMark, Goto, LabelTypeOK, CurOK, LooseLabels, AppLabels
  <2>5. QED
    BY <1>4, <2>1, <2>2, <2>3, <2>4 DEF DeviceUnchanged, ProductionTypeOK, IoTypeOK
<1>5. ASSUME NEW a \in Threads, RemovePop(a), DeviceUnchanged PROVE TypeInv'
  <2>1. TableTypeOK'
    BY <1>a, <1>b, <1>5 DEF RemovePop, TableTypeOK
  <2>2. LabelTypeOK'
    BY <1>a, <1>b, <1>5 DEF RemovePop, Goto, LabelTypeOK, Threads, Labels, RemovalLabels,
         UdpLabels
  <2>3. RefTypeOK'
    BY <1>a, <1>b, <1>5 DEF RemovePop, DeviceUnchanged, RefTypeOK
  <2>4. CurOK'
    BY <1>5 DEF RemovePop, Goto, LabelTypeOK, CurOK, LooseLabels, AppLabels
  <2>5. QED
    BY <1>5, <2>1, <2>2, <2>3, <2>4 DEF DeviceUnchanged, ProductionTypeOK, IoTypeOK
<1>6. ASSUME NEW a \in Threads, RemoveClose(a), DeviceUnchanged PROVE TypeInv'
  <2>1. TableTypeOK'
    BY <1>a, <1>b, <1>6 DEF RemoveClose, TableTypeOK, ConnectionState
  <2>2. LabelTypeOK'
    BY <1>a, <1>b, <1>6 DEF RemoveClose, Goto, LabelTypeOK, Threads, Labels, RemovalLabels,
         UdpLabels
  <2>3. RefTypeOK'
    BY <1>a, <1>b, <1>6 DEF RemoveClose, DeviceUnchanged, RefTypeOK
  <2>4. CurOK'
    BY <1>6 DEF RemoveClose, Goto, LabelTypeOK, CurOK, LooseLabels, AppLabels
  <2>5. QED
    BY <1>6, <2>1, <2>2, <2>3, <2>4 DEF DeviceUnchanged, ProductionTypeOK, IoTypeOK
<1>7. ASSUME NEW a \in Threads, StopProductionThread(a) PROVE TypeInv'
  <2>1. LabelTypeOK'
    BY <1>a, <1>b, <1>7 DEF StopProductionThread, Goto, LabelTypeOK, Threads, Labels,
         RemovalLabels, UdpLabels
  <2>2. RefTypeOK'
    BY <1>a, <1>b, <1>7 DEF StopProductionThread, RefTypeOK
  <2>3. ProductionTypeOK'
    BY <1>a, <1>b, <1>7 DEF StopProductionThread, ProductionTypeOK
  <2>4. CurOK'
    BY <1>7 DEF StopProductionThread, Goto, LabelTypeOK, CurOK, LooseLabels, AppLabels
  <2>5. QED
    BY <1>7, <2>1, <2>2, <2>3, <2>4 DEF StopProductionThread, TableTypeOK, IoTypeOK
<1>8. ASSUME NEW a \in Threads, JoinProductionThread(a) PROVE TypeInv'
  <2>1. LabelTypeOK'
    BY <1>a, <1>b, <1>8 DEF JoinProductionThread, Goto, LabelTypeOK, AppLabels, Threads,
         Labels, WatchdogLabels
  <2>2. RefTypeOK'
    BY <1>a, <1>b, <1>8 DEF JoinProductionThread, RefTypeOK
  <2>3. ProductionTypeOK'
    BY <1>a, <1>b, <1>8 DEF JoinProductionThread, ProductionTypeOK
  <2>4. CurOK'
    BY <1>8 DEF JoinProductionThread, Goto, LabelTypeOK, RefTypeOK, CurOK, LooseLabels,
         AppLabels
  <2>5. QED
    BY <1>8, <2>1, <2>2, <2>3, <2>4 DEF JoinProductionThread, TableTypeOK, IoTypeOK
<1>9. ASSUME NEW a \in Clients, OnEstablished(a) PROVE TypeInv'
  <2>1. LabelTypeOK'
    BY <1>a, <1>b, <1>9 DEF OnEstablished, Goto, LabelTypeOK, Threads, Labels, OpenLabels
  <2>2. RefTypeOK'
    BY <1>a, <1>b, <1>9 DEF OnEstablished, RefTypeOK
  <2>3. IoTypeOK'
    BY <1>a, <1>b, <1>9 DEF OnEstablished, IoTypeOK
  <2>4. CurOK'
    BY <1>9 DEF OnEstablished, Goto, LabelTypeOK, CurOK, LooseLabels, AppLabels
  <2>5. QED
    BY <1>9, <2>1, <2>2, <2>3, <2>4 DEF OnEstablished, TableTypeOK, ProductionTypeOK
<1>10. ASSUME NEW a \in Clients, StartLookup(a) PROVE TypeInv'
  <2>1. LabelTypeOK'
    <3>1. \/ Goto(a, "create")
          \/ Goto(a, "opened")
      BY <1>10 DEF StartLookup
    <3>2. QED
      BY <3>1 DEF Goto, LabelTypeOK, Threads, Labels, OpenLabels
  <2>2. RefTypeOK'
    BY <1>a, <1>b, <1>10 DEF StartLookup, RefTypeOK
  <2>3. ProductionTypeOK'
    BY <1>a, <1>b, <1>10 DEF StartLookup, ProductionTypeOK
  <2>4. CurOK'
    BY <1>10 DEF StartLookup, Goto, LabelTypeOK, CurOK, LooseLabels, AppLabels
  <2>5. QED
    BY <1>10, <2>1, <2>2, <2>3, <2>4 DEF StartLookup, TableTypeOK, IoTypeOK
<1>11. ASSUME NEW a \in Clients, StartThread(a) PROVE TypeInv'
  <2>1. LabelTypeOK'
    BY <1>a, <1>b, <1>11 DEF StartThread, Goto, LabelTypeOK, Threads, Labels, OpenLabels
  <2>2. RefTypeOK'
    BY <1>a, <1>b, <1>11 DEF StartThread, RefTypeOK
  <2>3. ProductionTypeOK'
    BY <1>a, <1>b, <1>11 DEF StartThread, ProductionTypeOK, LooseLabels, AppLabels,
         Producing, Threads
  <2>4. CurOK'
    BY <1>11 DEF StartThread, Goto, LabelTypeOK, CurOK, LooseLabels, AppLabels
  <2>5. QED
    BY <1>11, <2>1, <2>2, <2>3, <2>4 DEF StartThread, TableTypeOK, IoTypeOK
<1>12. ASSUME NEW a \in Clients, OpenedLookup(a) PROVE TypeInv'
  <2>1. cur[a] \in ConnIds
    BY <1>b, <1>12 DEF OpenedLookup, LooseLabels, AppLabels, Threads
  <2>2. CASE Reply(a) /\ UNCHANGED snapshot
    <3>1. LabelTypeOK'
      BY <2>2 DEF Reply, Goto, LabelTypeOK, Threads, Labels
    <3>2. RefTypeOK' /\ CurOK'
      BY <1>12, <2>2 DEF OpenedLookup, Reply, Goto, RefTypeOK, CurOK, LabelTypeOK,
           LooseLabels
    <3>3. IoTypeOK'
      BY <1>12, <2>1, <2>2 DEF OpenedLookup, Reply, IoTypeOK
    <3>4. QED
      BY <1>12, <3>1, <3>2, <3>3 DEF OpenedLookup, TableTypeOK, ProductionTypeOK
  <2>3. CASE /\ \E c \in Unbound : snapshot' = [snapshot EXCEPT ![a] = {c}]
             /\ Goto(a, "bind")
             /\ UNCHANGED <<cur, answered>>
    <3>1. LabelTypeOK'
      BY <2>3 DEF Goto, LabelTypeOK, Threads, Labels, OpenLabels
    <3>2. RefTypeOK'
      <4>1. PICK c \in Unbound : snapshot' = [snapshot EXCEPT ![a] = {c}]
        BY <2>3
      <4>2. c \in ConnIds
        BY <1>a DEF Unbound
      <4>3. QED
        BY <2>3, <4>1, <4>2 DEF RefTypeOK
    <3>3. CurOK'
      BY <1>12, <2>1, <2>3 DEF OpenedLookup, Goto, CurOK
    <3>4. IoTypeOK'
      BY <1>12, <2>3 DEF OpenedLookup, IoTypeOK
    <3>5. QED
      BY <1>12, <3>1, <3>2, <3>3, <3>4 DEF OpenedLookup, TableTypeOK, ProductionTypeOK
  <2>4. QED
    BY <1>12, <2>2, <2>3 DEF OpenedLookup
<1>13. ASSUME NEW a \in Clients, OpenedBind(a) PROVE TypeInv'
  <2>1. LabelTypeOK'
    BY <1>a, <1>b, <1>13 DEF OpenedBind, Reply, Goto, LabelTypeOK, Threads, Labels
  <2>2. RefTypeOK'
    BY <1>a, <1>b, <1>13 DEF OpenedBind, Reply, RefTypeOK
  <2>3. IoTypeOK'
    <3>1. cur[a] \in ConnIds
      BY <1>b, <1>13 DEF OpenedBind, LooseLabels, AppLabels, Threads
    <3>2. [host |-> a, port |-> "2222"] \in Endpoint
      BY DEF Endpoint
    <3>3. endpoint' \in [ConnIds -> Endpoint]
      BY <1>13, <3>2 DEF OpenedBind, IoTypeOK
    <3>4. QED
      BY <1>13, <3>1, <3>3 DEF OpenedBind, Reply, IoTypeOK
  <2>4. CurOK'
    BY <1>13 DEF OpenedBind, Reply, Goto, LabelTypeOK, RefTypeOK, CurOK, LooseLabels
  <2>5. QED
    BY <1>13, <2>1, <2>2, <2>3, <2>4 DEF OpenedBind, TableTypeOK, ProductionTypeOK
<1>14. ASSUME NEW c \in ConnIds, Produce(c) PROVE TypeInv'
  <2>1. ProductionTypeOK'
    BY <1>a, <1>b, <1>14 DEF Produce, ProducerWake, ProduceIoData, ProductionTypeOK,
         Producing
  <2>2. CurOK'
    BY <1>14 DEF managerVars, Produce, ProducerWake, ProduceIoData, CurOK
  <2>3. QED
    BY <1>14, <2>1, <2>2 DEF managerVars, Produce, ProducerWake, ProduceIoData, TableTypeOK,
         LabelTypeOK, RefTypeOK, IoTypeOK
<1>15. ASSUME NEW c \in ConnIds, NEW p \in Ports, UdpReceive(c, p) PROVE TypeInv'
  <2>1. LabelTypeOK'
    BY <1>a, <1>b, <1>15 DEF UdpReceive, Goto, LabelTypeOK, Threads, Labels, UdpLabels
  <2>2. RefTypeOK'
    BY <1>a, <1>b, <1>15 DEF UdpReceive, RefTypeOK
  <2>3. IoTypeOK'
    BY <1>a, <1>b, <1>15 DEF UdpReceive, IoTypeOK
  <2>4. CurOK'
    BY <1>15 DEF UdpReceive, Goto, LabelTypeOK, RefTypeOK, CurOK
  <2>5. QED
    BY <1>15, <2>1, <2>2, <2>3, <2>4 DEF UdpReceive, TableTypeOK, ProductionTypeOK
<1>16. ASSUME UdpLearn PROVE TypeInv'
  <2>1. LabelTypeOK'
    BY <1>a, <1>b, <1>16 DEF UdpLearn, Goto, LabelTypeOK, Threads, Labels, UdpLabels
  <2>2. RefTypeOK'
    BY <1>a, <1>b, <1>16 DEF UdpLearn, RefTypeOK
  <2>3. IoTypeOK'
    <3>1. cur[UdpThread] \in ConnIds
      BY <1>b, <1>16 DEF UdpLearn, LooseLabels, AppLabels, Threads
    <3>2. [host |-> info[cur[UdpThread]].owner, port |-> rx_port] \in Endpoint
      BY <3>1 DEF Endpoint, TableTypeOK, ConnInfo, IoTypeOK
    <3>3. QED
      BY <1>16, <3>2 DEF UdpLearn, IoTypeOK
  <2>4. CurOK'
    BY <1>16 DEF UdpLearn, Goto, LabelTypeOK, CurOK, LooseLabels, AppLabels
  <2>5. QED
    BY <1>16, <2>1, <2>2, <2>3, <2>4 DEF UdpLearn, TableTypeOK, ProductionTypeOK
<1>17. ASSUME UdpStamp PROVE TypeInv'
  <2>1. LabelTypeOK'
    BY <1>a, <1>b, <1>17 DEF UdpStamp, Goto, LabelTypeOK, Threads, Labels, UdpLabels
  <2>2. RefTypeOK'
    BY <1>a, <1>b, <1>17 DEF UdpStamp, RefTypeOK
  <2>3. IoTypeOK'
    BY <1>a, <1>b, <1>17 DEF UdpStamp, IoTypeOK
  <2>4. CurOK'
    BY <1>17 DEF UdpStamp, Goto, LabelTypeOK, CurOK, LooseLabels, AppLabels
  <2>5. QED
    BY <1>17, <2>1, <2>2, <2>3, <2>4 DEF UdpStamp, TableTypeOK, ProductionTypeOK
<1>18. ASSUME UdpConsume PROVE TypeInv'
  <2>1. LabelTypeOK'
    BY <1>a, <1>b, <1>18 DEF UdpConsume, Goto, LabelTypeOK, Threads, Labels
  <2>2. RefTypeOK'
    BY <1>a, <1>b, <1>18 DEF UdpConsume, RefTypeOK
  <2>3. IoTypeOK'
    BY <1>a, <1>b, <1>18 DEF UdpConsume, IoTypeOK
  <2>4. CurOK'
    BY <1>18 DEF UdpConsume, Goto, LabelTypeOK, RefTypeOK, CurOK, LooseLabels
  <2>5. QED
    BY <1>18, <2>1, <2>2, <2>3, <2>4 DEF UdpConsume, TableTypeOK, ProductionTypeOK
<1>19. ASSUME NEW c \in ConnIds, Elapse(c) PROVE TypeInv'
  <2>1. IoTypeOK'
    BY <1>a, <1>b, <1>19 DEF Elapse, IoTypeOK
  <2>2. CurOK'
    BY <1>19 DEF managerVars, Elapse, CurOK
  <2>3. QED
    BY <1>19, <2>1, <2>2 DEF managerVars, Elapse, TableTypeOK, LabelTypeOK, RefTypeOK,
         ProductionTypeOK
<1>20. ASSUME WatchdogScan PROVE TypeInv'
  <2>1. LabelTypeOK'
    BY <1>a, <1>b, <1>20 DEF WatchdogScan, Goto, LabelTypeOK, Threads, Labels,
         WatchdogLabels
  <2>2. RefTypeOK'
    BY <1>a, <1>b, <1>20 DEF WatchdogScan, RefTypeOK
  <2>3. CurOK'
    BY <1>20 DEF WatchdogScan, WatchdogUnchanged, Goto, LabelTypeOK, CurOK, LooseLabels
  <2>4. QED
    BY <1>20, <2>1, <2>2, <2>3 DEF WatchdogScan, WatchdogUnchanged, TableTypeOK,
         ProductionTypeOK, IoTypeOK
<1>21. ASSUME NEW c \in ConnIds, WatchdogExpire(c) PROVE TypeInv'
  <2>1. LabelTypeOK'
    BY <1>a, <1>b, <1>21 DEF WatchdogExpire, Goto, LabelTypeOK, Threads, Labels,
         WatchdogLabels
  <2>2. RefTypeOK'
    BY <1>a, <1>b, <1>21 DEF WatchdogExpire, RefTypeOK
  <2>3. CurOK'
    BY <1>21 DEF WatchdogExpire, WatchdogUnchanged, Goto, LabelTypeOK, RefTypeOK, CurOK
  <2>4. QED
    BY <1>21, <2>1, <2>2, <2>3 DEF WatchdogExpire, WatchdogUnchanged, TableTypeOK,
         ProductionTypeOK, IoTypeOK
<1>22. ASSUME WatchdogSleep PROVE TypeInv'
  <2>1. LabelTypeOK'
    BY <1>a, <1>b, <1>22 DEF WatchdogSleep, Goto, LabelTypeOK, Threads, Labels
  <2>2. RefTypeOK'
    BY <1>a, <1>b, <1>22 DEF WatchdogSleep, RefTypeOK
  <2>3. CurOK'
    BY <1>22 DEF WatchdogSleep, WatchdogUnchanged, Goto, LabelTypeOK, CurOK, LooseLabels
  <2>4. QED
    BY <1>22, <2>1, <2>2, <2>3 DEF WatchdogSleep, WatchdogUnchanged, TableTypeOK,
         ProductionTypeOK, IoTypeOK
<1>23. ASSUME WatchdogStop PROVE TypeInv'
  <2>1. LabelTypeOK'
    BY <1>a, <1>b, <1>23 DEF WatchdogStop, Goto, LabelTypeOK, Threads, Labels,
         WatchdogLabels
  <2>2. RefTypeOK'
    BY <1>a, <1>b, <1>23 DEF WatchdogStop, RefTypeOK
  <2>3. CurOK'
    BY <1>23 DEF WatchdogStop, WatchdogUnchanged, Goto, LabelTypeOK, CurOK, LooseLabels
  <2>4. QED
    BY <1>23, <2>1, <2>2, <2>3 DEF WatchdogStop, WatchdogUnchanged, TableTypeOK,
         ProductionTypeOK, IoTypeOK
<1>24. ASSUME CloseBegin PROVE TypeInv'
  <2>1. LabelTypeOK'
    BY <1>a, <1>b, <1>24 DEF CloseBegin, Goto, LabelTypeOK, AppLabels, Threads, Labels
  <2>2. RefTypeOK'
    BY <1>a, <1>b, <1>24 DEF CloseBegin, RefTypeOK
  <2>3. IoTypeOK'
    BY <1>a, <1>b, <1>24 DEF CloseBegin, IoTypeOK
  <2>4. CurOK'
    BY <1>24 DEF CloseBegin, Goto, LabelTypeOK, CurOK, LooseLabels, AppLabels
  <2>5. QED
    BY <1>24, <2>1, <2>2, <2>3, <2>4 DEF CloseBegin, TableTypeOK, ProductionTypeOK
<1>25. ASSUME StopProductionThreads PROVE TypeInv'
  <2>1. LabelTypeOK'
    BY <1>a, <1>b, <1>25 DEF StopProductionThreads, Goto, LabelTypeOK, AppLabels, Threads,
         Labels
  <2>2. RefTypeOK'
    BY <1>a, <1>b, <1>25 DEF StopProductionThreads, RefTypeOK
  <2>3. ProductionTypeOK'
    BY <1>a, <1>b, <1>25 DEF StopProductionThreads, ProductionTypeOK
  <2>4. CurOK'
    BY <1>25 DEF StopProductionThreads, Goto, LabelTypeOK, CurOK, LooseLabels, AppLabels
  <2>5. QED
    BY <1>25, <2>1, <2>2, <2>3, <2>4 DEF StopProductionThreads, TableTypeOK, IoTypeOK
<1>26. ASSUME CloseSnapshot PROVE TypeInv'
  <2>1. LabelTypeOK'
    BY <1>a, <1>b, <1>26 DEF CloseSnapshot, Goto, LabelTypeOK, AppLabels, Threads, Labels
  <2>2. RefTypeOK'
    BY <1>a, <1>b, <1>26 DEF CloseSnapshot, RefTypeOK
  <2>3. ProductionTypeOK'
    BY <1>a, <1>b, <1>26 DEF CloseSnapshot, ProductionTypeOK
  <2>4. CurOK'
    BY <1>26 DEF CloseSnapshot, Goto, LabelTypeOK, CurOK, LooseLabels, AppLabels
  <2>5. QED
    BY <1>26, <2>1, <2>2, <2>3, <2>4 DEF CloseSnapshot, TableTypeOK, IoTypeOK
<1>27. ASSUME NEW c \in ConnIds, CloseRemove(c) PROVE TypeInv'
  <2>1. LabelTypeOK'
    BY <1>a, <1>b, <1>27 DEF CloseRemove, Goto, LabelTypeOK, Threads, Labels, RemovalLabels
  <2>2. RefTypeOK'
    BY <1>a, <1>b, <1>27 DEF CloseRemove, RefTypeOK
  <2>3. CurOK'
    BY <1>27 DEF CloseRemove, Goto, LabelTypeOK, RefTypeOK, CurOK
  <2>4. QED
    BY <1>27, <2>1, <2>2, <2>3 DEF CloseRemove, TableTypeOK, ProductionTypeOK, IoTypeOK
<1>28. ASSUME CloseTransports PROVE TypeInv'
  <2>1. LabelTypeOK'
    <3>1. \E l \in AppLabels : Goto(App, l)
      BY <1>28 DEF CloseTransports, CloseAdvance, AppLabels
    <3>2. QED
      BY <3>1 DEF Goto, LabelTypeOK, Threads, Labels
  <2>2. RefTypeOK'
    BY <1>a, <1>b, <1>28 DEF CloseTransports, CloseAdvance, RefTypeOK
  <2>3. CurOK'
    BY <1>28 DEF CloseTransports, CloseAdvance, Goto, LabelTypeOK, CurOK, LooseLabels,
         AppLabels
  <2>4. QED
    BY <1>28, <2>1, <2>2, <2>3 DEF CloseTransports, CloseAdvance, TableTypeOK,
         ProductionTypeOK, IoTypeOK
<1>29. CASE UNCHANGED vars
  BY <1>29 DEF vars, managerVars, TableTypeOK, LabelTypeOK, RefTypeOK, ProductionTypeOK,
       IoTypeOK, CurOK
<1>30. QED
  <2>1. ASSUME NEW a \in Threads, Removal(a) PROVE TypeInv'
    BY <1>3, <1>4, <1>5, <1>6, <1>7, <1>8, <2>1 DEF Removal, Manager, ManagerStep
  <2>2. ASSUME NEW a \in Clients, Request(a) \/ Handler(a) PROVE TypeInv'
    <3>1. a \in Threads
      BY DEF Threads
    <3>2. QED
      BY <1>1, <1>2, <1>9, <1>10, <1>11, <1>12, <1>13, <2>1, <2>2, <3>1 DEF Request, Handler
  <2>3. CASE WatchdogLoop \/ Close
    <3>1. Watchdog \in Threads /\ App \in Threads
      BY DEF Threads
    <3>2. QED
      BY <1>20, <1>21, <1>22, <1>23, <1>25, <1>26, <1>27, <1>28, <2>1, <2>3, <3>1 DEF
           WatchdogLoop, Close
  <2>4. CASE UdpHandler \/ CloseBegin \/ Quiescent
    BY <1>16, <1>17, <1>18, <1>24, <1>29, <2>4 DEF UdpHandler, Quiescent
  <2>5. QED
    BY <1>14, <1>15, <1>19, <1>29, <2>2, <2>3, <2>4 DEF Next

\* Every reachable state is well typed: the table holds only ids that were
\* handed out, and each thread is inside code of its own.
THEOREM TypeCorrect == Spec => []TypeOK
<1>1. Init => TypeInv
  BY TypeInit
<1>2. TypeInv /\ [Next]_vars => TypeInv'
  BY TypeStep
<1>3. TypeInv => TypeOK
  BY DEF TypeInv
<1>4. QED
  BY <1>1, <1>2, <1>3, PTL DEF Spec
-----------------------------------------------------------------------------
(* Production threads.  ProducerAccounted alone is not inductive: that a   *)
(* thread about to be created will be stopped depends on the starter still *)
(* holding production_mu_ since it found the connection in the table.      *)

MutexHeld == \A a \in Threads : at[a] = "create" => production_mu = a

CreateCovered == \A a \in Threads : at[a] = "create" => cur[a] \in Covered

HeldWhileJoining == \A a \in Threads : held[a] # {} => at[a] \in {"join", "join producers"}

ProducerInv ==
  TypeInv /\ ProducerAccounted /\ MutexHeld /\ CreateCovered /\ HeldWhileJoining

\* A connection stays covered until stop_production_thread has run for it.
LEMMA CoveredStep ==
  ASSUME TypeInv, [Next]_vars, NEW d \in Covered
  PROVE  d \in Covered' \/ (d \notin production_threads' /\ production_mu' = NoThread)
<1> DEFINE Goal == d \in Covered' \/ (d \notin production_threads' /\ production_mu' =
     NoThread)
<1> SUFFICES Goal
  OBVIOUS
<1> USE DEF TypeInv, TypeOK
<1>a. \/ d \in connections
      \/ \E b \in Threads : cur[b] = d /\ at[b] \in {"closing", "callbacks"}
  BY DEF Covered, StopPending
<1>1. ASSUME NEW a \in Clients, ForwardOpen(a) PROVE Goal
  BY <1>a, <1>1 DEF ForwardOpen, ForwardOpenCheck, Goto, Covered, StopPending
<1>2. ASSUME NEW a \in Clients, ForwardClose(a) PROVE Goal
  BY <1>a, <1>2 DEF ForwardClose, ForwardClosePop, Goto, tableVars, LabelTypeOK, RefTypeOK,
       Threads, Covered, StopPending
<1>3. ASSUME NEW a \in Threads, ForwardOpenInsert(a), DeviceUnchanged PROVE Goal
  BY <1>a, <1>3 DEF ForwardOpenInsert, Goto, Covered, StopPending
<1>4. ASSUME NEW a \in Threads, TimeoutMark(a), DeviceUnchanged PROVE Goal
  BY <1>a, <1>4 DEF TimeoutMark, Goto, Covered, StopPending
<1>5. ASSUME NEW a \in Threads, RemovePop(a), DeviceUnchanged PROVE Goal
  BY <1>a, <1>5 DEF RemovePop, Goto, LabelTypeOK, Covered, StopPending
<1>6. ASSUME NEW a \in Threads, RemoveClose(a), DeviceUnchanged PROVE Goal
  BY <1>a, <1>6 DEF RemoveClose, Goto, Covered, StopPending
<1>7. ASSUME NEW a \in Threads, StopProductionThread(a) PROVE Goal
  BY <1>a, <1>7 DEF StopProductionThread, Goto, tableVars, Covered, StopPending
<1>8. ASSUME NEW a \in Threads, JoinProductionThread(a) PROVE Goal
  BY <1>a, <1>8 DEF JoinProductionThread, Goto, tableVars, Covered, StopPending
<1>9. ASSUME NEW a \in Clients, OnEstablished(a) PROVE Goal
  BY <1>a, <1>9 DEF OnEstablished, Goto, tableVars, Covered, StopPending
<1>10. ASSUME NEW a \in Clients, StartLookup(a) PROVE Goal
  BY <1>a, <1>10 DEF StartLookup, Goto, tableVars, LabelTypeOK, Covered, StopPending
<1>11. ASSUME NEW a \in Clients, StartThread(a) PROVE Goal
  BY <1>a, <1>11 DEF StartThread, Goto, tableVars, Covered, StopPending
<1>12. ASSUME NEW a \in Clients, OpenedLookup(a) PROVE Goal
  BY <1>a, <1>12 DEF OpenedLookup, Reply, Goto, tableVars, LabelTypeOK, RefTypeOK, Covered,
       StopPending
<1>13. ASSUME NEW a \in Clients, OpenedBind(a) PROVE Goal
  BY <1>a, <1>13 DEF OpenedBind, Reply, Goto, tableVars, Covered, StopPending
<1>14. ASSUME NEW c \in ConnIds, Produce(c) PROVE Goal
  BY <1>a, <1>14 DEF managerVars, Produce, ProducerWake, ProduceIoData, Covered, StopPending
<1>15. ASSUME NEW c \in ConnIds, NEW p \in Ports, UdpReceive(c, p) PROVE Goal
  BY <1>a, <1>15 DEF UdpReceive, Goto, tableVars, LabelTypeOK, RefTypeOK, Covered,
       StopPending
<1>16. ASSUME UdpLearn PROVE Goal
  BY <1>a, <1>16 DEF UdpLearn, Goto, tableVars, Covered, StopPending
<1>17. ASSUME UdpStamp PROVE Goal
  BY <1>a, <1>17 DEF UdpStamp, Goto, tableVars, Covered, StopPending
<1>18. ASSUME UdpConsume PROVE Goal
  BY <1>a, <1>18 DEF UdpConsume, Goto, tableVars, Covered, StopPending
<1>19. ASSUME NEW c \in ConnIds, Elapse(c) PROVE Goal
  BY <1>a, <1>19 DEF managerVars, Elapse, Covered, StopPending
<1>20. ASSUME WatchdogScan PROVE Goal
  BY <1>a, <1>20 DEF WatchdogScan, WatchdogUnchanged, Goto, tableVars, Covered, StopPending
<1>21. ASSUME NEW c \in ConnIds, WatchdogExpire(c) PROVE Goal
  BY <1>a, <1>21 DEF WatchdogExpire, WatchdogUnchanged, Goto, tableVars, LabelTypeOK,
       RefTypeOK, Covered, StopPending
<1>22. ASSUME WatchdogSleep PROVE Goal
  BY <1>a, <1>22 DEF WatchdogSleep, WatchdogUnchanged, Goto, tableVars, Covered, StopPending
<1>23. ASSUME WatchdogStop PROVE Goal
  BY <1>a, <1>23 DEF WatchdogStop, WatchdogUnchanged, Goto, tableVars, Covered, StopPending
<1>24. ASSUME CloseBegin PROVE Goal
  BY <1>a, <1>24 DEF CloseBegin, Goto, tableVars, LabelTypeOK, Covered, StopPending
<1>25. ASSUME StopProductionThreads PROVE Goal
  BY <1>a, <1>25 DEF StopProductionThreads
<1>26. ASSUME CloseSnapshot PROVE Goal
  BY <1>a, <1>26 DEF CloseSnapshot, Goto, tableVars, LabelTypeOK, Covered, StopPending
<1>27. ASSUME NEW c \in ConnIds, CloseRemove(c) PROVE Goal
  BY <1>a, <1>27 DEF CloseRemove, Goto, tableVars, Covered, StopPending
<1>28. ASSUME CloseTransports PROVE Goal
  BY <1>a, <1>28 DEF CloseTransports, CloseAdvance, Goto, tableVars, LabelTypeOK, Covered,
       StopPending
<1>29. CASE UNCHANGED vars
  BY <1>a, <1>29 DEF vars, managerVars, Covered, StopPending
<1>30. QED
  <2>1. ASSUME NEW a \in Threads, Removal(a) PROVE Goal
    BY <1>3, <1>4, <1>5, <1>6, <1>7, <1>8, <2>1 DEF Removal, Manager, ManagerStep
  <2>2. ASSUME NEW a \in Clients, Request(a) \/ Handler(a) PROVE Goal
    <3>1. a \in Threads
      BY DEF Threads
    <3>2. QED
      BY <1>1, <1>2, <1>9, <1>10, <1>11, <1>12, <1>13, <2>1, <2>2, <3>1 DEF Request, Handler
  <2>3. CASE WatchdogLoop \/ Close
    <3>1. Watchdog \in Threads /\ App \in Threads
      BY DEF Threads
    <3>2. QED
      BY <1>20, <1>21, <1>22, <1>23, <1>25, <1>26, <1>27, <1>28, <2>1, <2>3, <3>1 DEF
           WatchdogLoop, Close
  <2>4. CASE UdpHandler \/ CloseBegin \/ Quiescent
    BY <1>16, <1>17, <1>18, <1>24, <1>29, <2>4 DEF UdpHandler, Quiescent
  <2>5. QED
    BY <1>14, <1>15, <1>19, <1>29, <2>2, <2>3, <2>4 DEF Next

LEMMA ProducerStep == ProducerInv /\ [Next]_vars => ProducerInv'
<1> SUFFICES ASSUME ProducerInv, [Next]_vars PROVE ProducerInv'
  OBVIOUS
<1> USE DEF ProducerInv, TypeInv, TypeOK
<1> DEFINE Goal == ProducerInv'
<1>b. TypeInv'
  BY TypeStep
<1>c. \A d \in Covered : \/ d \in Covered'
                         \/ d \notin production_threads' /\ production_mu' = NoThread
  BY CoveredStep
<1>1. ASSUME NEW a \in Clients, ForwardOpen(a) PROVE Goal
  <2>1. ThreadOwned'
    BY <1>1 DEF ForwardOpen, DeviceUnchanged, productionVars, ProducerAccounted, ThreadOwned
  <2>2. RegisteredIsStopped'
    BY <1>c, <1>1 DEF ForwardOpen, DeviceUnchanged, productionVars, ProducerAccounted,
         RegisteredIsStopped
  <2>3. CreateCovered'
    BY <1>c, <1>1 DEF ForwardOpen, ForwardOpenCheck, DeviceUnchanged, Goto, productionVars,
         CreateCovered, MutexHeld
  <2>4. MutexHeld' /\ HeldWhileJoining'
    <3>1. at[a] = "idle" /\ at' = [at EXCEPT ![a] = "insert"]
      BY <1>1 DEF ForwardOpen, ForwardOpenCheck, Goto
    <3>2. QED
      BY <1>1, <3>1 DEF ForwardOpen, DeviceUnchanged, productionVars, LabelTypeOK,
           HeldWhileJoining, MutexHeld
  <2>5. QED
    BY <1>b, <2>1, <2>2, <2>3, <2>4 DEF ProducerAccounted
<1>2. ASSUME NEW a \in Clients, ForwardClose(a) PROVE Goal
  <2>1. ThreadOwned'
    BY <1>2 DEF ForwardClose, DeviceUnchanged, productionVars, ProducerAccounted,
         ThreadOwned
  <2>2. RegisteredIsStopped'
    BY <1>c, <1>2 DEF ForwardClose, DeviceUnchanged, productionVars, ProducerAccounted,
         RegisteredIsStopped
  <2>3. CreateCovered'
    BY <1>c, <1>2 DEF ForwardClose, ForwardClosePop, DeviceUnchanged, Goto, productionVars,
         CreateCovered, MutexHeld
  <2>4. MutexHeld' /\ HeldWhileJoining'
    <3>1. at[a] = "idle" /\ at' = [at EXCEPT ![a] = "closing"]
      BY <1>2 DEF ForwardClose, ForwardClosePop, Goto
    <3>2. QED
      BY <1>2, <3>1 DEF ForwardClose, DeviceUnchanged, productionVars, LabelTypeOK,
           HeldWhileJoining, MutexHeld
  <2>5. QED
    BY <1>b, <2>1, <2>2, <2>3, <2>4 DEF ProducerAccounted
<1>3. ASSUME NEW a \in Threads, ForwardOpenInsert(a), DeviceUnchanged PROVE Goal
  <2>1. ThreadOwned'
    BY <1>3 DEF DeviceUnchanged, productionVars, ProducerAccounted, ThreadOwned
  <2>2. RegisteredIsStopped'
    BY <1>c, <1>3 DEF DeviceUnchanged, productionVars, ProducerAccounted,
         RegisteredIsStopped
  <2>3. CreateCovered'
    BY <1>c, <1>3 DEF ForwardOpenInsert, DeviceUnchanged, Goto, productionVars,
         CreateCovered, MutexHeld
  <2>4. MutexHeld' /\ HeldWhileJoining'
    BY <1>3 DEF ForwardOpenInsert, DeviceUnchanged, Goto, productionVars, LabelTypeOK,
         HeldWhileJoining, MutexHeld
  <2>5. QED
    BY <1>b, <2>1, <2>2, <2>3, <2>4 DEF ProducerAccounted
<1>4. ASSUME NEW a \in Threads, TimeoutMark(a), DeviceUnchanged PROVE Goal
  <2>1. ThreadOwned'
    BY <1>4 DEF DeviceUnchanged, productionVars, ProducerAccounted, ThreadOwned
  <2>2. RegisteredIsStopped'
    BY <1>c, <1>4 DEF DeviceUnchanged, productionVars, ProducerAccounted,
         RegisteredIsStopped
  <2>3. CreateCovered'
    BY <1>c, <1>4 DEF TimeoutMark, DeviceUnchanged, Goto, productionVars, CreateCovered,
         MutexHeld
  <2>4. MutexHeld' /\ HeldWhileJoining'
    BY <1>4 DEF TimeoutMark, DeviceUnchanged, Goto, productionVars, LabelTypeOK,
         HeldWhileJoining, MutexHeld
  <2>5. QED
    BY <1>b, <2>1, <2>2, <2>3, <2>4 DEF ProducerAccounted
<1>5. ASSUME NEW a \in Threads, RemovePop(a), DeviceUnchanged PROVE Goal
  <2>1. ThreadOwned'
    BY <1>5 DEF DeviceUnchanged, productionVars, ProducerAccounted, ThreadOwned
  <2>2. RegisteredIsStopped'
    BY <1>c, <1>5 DEF DeviceUnchanged, productionVars, ProducerAccounted,
         RegisteredIsStopped
  <2>3. CreateCovered'
    BY <1>c, <1>5 DEF RemovePop, DeviceUnchanged, Goto, productionVars, CreateCovered,
         MutexHeld
  <2>4. MutexHeld' /\ HeldWhileJoining'
    BY <1>5 DEF RemovePop, DeviceUnchanged, Goto, productionVars, LabelTypeOK,
         HeldWhileJoining, MutexHeld
  <2>5. QED
    BY <1>b, <2>1, <2>2, <2>3, <2>4 DEF ProducerAccounted
<1>6. ASSUME NEW a \in Threads, RemoveClose(a), DeviceUnchanged PROVE Goal
  <2>1. ThreadOwned'
    BY <1>6 DEF DeviceUnchanged, productionVars, ProducerAccounted, ThreadOwned
  <2>2. RegisteredIsStopped'
    BY <1>c, <1>6 DEF DeviceUnchanged, productionVars, ProducerAccounted,
         RegisteredIsStopped
  <2>3. CreateCovered'
    BY <1>c, <1>6 DEF RemoveClose, DeviceUnchanged, Goto, productionVars, CreateCovered,
         MutexHeld
  <2>4. MutexHeld' /\ HeldWhileJoining'
    BY <1>6 DEF RemoveClose, DeviceUnchanged, Goto, productionVars, LabelTypeOK,
         HeldWhileJoining, MutexHeld
  <2>5. QED
    BY <1>b, <2>1, <2>2, <2>3, <2>4 DEF ProducerAccounted
<1>7. ASSUME NEW a \in Threads, StopProductionThread(a) PROVE Goal
  <2>1. ThreadOwned'
    BY <1>7 DEF StopProductionThread, ProductionTypeOK, ProducerAccounted, ThreadOwned,
         HeldWhileJoining
  <2>2. RegisteredIsStopped'
    BY <1>c, <1>7 DEF StopProductionThread, ProducerAccounted, RegisteredIsStopped
  <2>3. CreateCovered'
    BY <1>c, <1>7 DEF StopProductionThread, Goto, CreateCovered, MutexHeld
  <2>4. MutexHeld' /\ HeldWhileJoining'
    BY <1>7 DEF StopProductionThread, Goto, LabelTypeOK, ProductionTypeOK, HeldWhileJoining,
         MutexHeld
  <2>5. QED
    BY <1>b, <2>1, <2>2, <2>3, <2>4 DEF ProducerAccounted
<1>8. ASSUME NEW a \in Threads, JoinProductionThread(a) PROVE Goal
  <2>1. ThreadOwned'
    BY <1>8 DEF JoinProductionThread, ProductionTypeOK, ProducerAccounted, ThreadOwned,
         Producing, Joined
  <2>2. RegisteredIsStopped'
    BY <1>c, <1>8 DEF JoinProductionThread, ProducerAccounted, RegisteredIsStopped
  <2>3. CreateCovered'
    BY <1>c, <1>8 DEF JoinProductionThread, Goto, CreateCovered, MutexHeld
  <2>4. MutexHeld' /\ HeldWhileJoining'
    BY <1>8 DEF JoinProductionThread, Goto, LabelTypeOK, ProductionTypeOK, HeldWhileJoining,
         MutexHeld
  <2>5. QED
    BY <1>b, <2>1, <2>2, <2>3, <2>4 DEF ProducerAccounted
<1>9. ASSUME NEW a \in Clients, OnEstablished(a) PROVE Goal
  <2>1. ThreadOwned'
    BY <1>9 DEF OnEstablished, productionVars, ProducerAccounted, ThreadOwned
  <2>2. RegisteredIsStopped'
    BY <1>c, <1>9 DEF OnEstablished, productionVars, ProducerAccounted, RegisteredIsStopped
  <2>3. CreateCovered'
    BY <1>c, <1>9 DEF OnEstablished, Goto, productionVars, CreateCovered, MutexHeld
  <2>4. MutexHeld' /\ HeldWhileJoining'
    BY <1>9 DEF OnEstablished, Goto, productionVars, LabelTypeOK, HeldWhileJoining,
         MutexHeld
  <2>5. QED
    BY <1>b, <2>1, <2>2, <2>3, <2>4 DEF ProducerAccounted
<1>10. ASSUME NEW a \in Clients, StartLookup(a) PROVE Goal
  <2>1. ThreadOwned'
    BY <1>10 DEF StartLookup, ProducerAccounted, ThreadOwned
  <2>2. RegisteredIsStopped'
    BY <1>c, <1>10 DEF StartLookup, ProducerAccounted, RegisteredIsStopped
  <2>3. CreateCovered'
    <3>1. Covered' = Covered
      <4>1. Goto(a, "create") \/ Goto(a, "opened")
        BY <1>10 DEF StartLookup
      <4>2. \A b \in Threads : StopPending(b)' <=> StopPending(b)
        BY <1>10, <4>1 DEF StartLookup, Goto, StopPending, LabelTypeOK
      <4>3. cur' = cur /\ connections' = connections
        BY <1>10 DEF StartLookup, tableVars
      <4>4. QED
        BY <4>2, <4>3 DEF Covered
    <3>2. CASE cur[a] \in connections
      BY <1>10, <3>1, <3>2 DEF StartLookup, Goto, LabelTypeOK, CreateCovered, Covered
    <3>3. CASE cur[a] \notin connections
      <4>1. Goto(a, "opened") /\ UNCHANGED cur
        BY <1>10, <3>3 DEF StartLookup
      <4>2. QED
        BY <3>1, <4>1 DEF Goto, CreateCovered
    <3>4. QED
      BY <3>2, <3>3
  <2>4. MutexHeld' /\ HeldWhileJoining'
    BY <1>10 DEF StartLookup, Goto, LabelTypeOK, HeldWhileJoining, MutexHeld
  <2>5. QED
    BY <1>b, <2>1, <2>2, <2>3, <2>4 DEF ProducerAccounted
<1>11. ASSUME NEW a \in Clients, StartThread(a) PROVE Goal
  <2>1. ThreadOwned'
    BY <1>11 DEF StartThread, ProductionTypeOK, ProducerAccounted, ThreadOwned
  <2>2. RegisteredIsStopped'
    <3>1. production_threads' = production_threads \cup {cur[a]}
      BY <1>11 DEF StartThread
    <3>2. cur[a] \in Covered
      BY <1>11 DEF StartThread, CreateCovered, Threads
    <3>3. QED
      BY <1>c, <3>1, <3>2 DEF ProducerAccounted, RegisteredIsStopped
  <2>3. CreateCovered'
    BY <1>c, <1>11 DEF StartThread, Goto, Threads, CreateCovered, MutexHeld
  <2>4. MutexHeld' /\ HeldWhileJoining'
    BY <1>11 DEF StartThread, Goto, LabelTypeOK, Threads, HeldWhileJoining, MutexHeld
  <2>5. QED
    BY <1>b, <2>1, <2>2, <2>3, <2>4 DEF ProducerAccounted
<1>12. ASSUME NEW a \in Clients, OpenedLookup(a) PROVE Goal
  <2>1. ThreadOwned'
    BY <1>12 DEF OpenedLookup, productionVars, ProducerAccounted, ThreadOwned
  <2>2. RegisteredIsStopped'
    BY <1>c, <1>12 DEF OpenedLookup, productionVars, ProducerAccounted, RegisteredIsStopped
  <2>3. CreateCovered'
    BY <1>c, <1>12 DEF OpenedLookup, Reply, Goto, productionVars, LabelTypeOK, RefTypeOK,
         CreateCovered, MutexHeld
  <2>4. MutexHeld' /\ HeldWhileJoining'
    BY <1>12 DEF OpenedLookup, Reply, Goto, productionVars, LabelTypeOK, HeldWhileJoining,
         MutexHeld
  <2>5. QED
    BY <1>b, <2>1, <2>2, <2>3, <2>4 DEF ProducerAccounted
<1>13. ASSUME NEW a \in Clients, OpenedBind(a) PROVE Goal
  <2>1. ThreadOwned'
    BY <1>13 DEF OpenedBind, productionVars, ProducerAccounted, ThreadOwned
  <2>2. RegisteredIsStopped'
    BY <1>c, <1>13 DEF OpenedBind, productionVars, ProducerAccounted, RegisteredIsStopped
  <2>3. CreateCovered'
    BY <1>c, <1>13 DEF OpenedBind, Reply, Goto, productionVars, CreateCovered, MutexHeld
  <2>4. MutexHeld' /\ HeldWhileJoining'
    BY <1>13 DEF OpenedBind, Reply, Goto, productionVars, LabelTypeOK, HeldWhileJoining,
         MutexHeld
  <2>5. QED
    BY <1>b, <2>1, <2>2, <2>3, <2>4 DEF ProducerAccounted
<1>14. ASSUME NEW c \in ConnIds, Produce(c) PROVE Goal
  <2>1. ThreadOwned'
    BY <1>14 DEF Produce, ProducerWake, ProduceIoData, ProductionTypeOK, ProducerAccounted,
         ThreadOwned
  <2>2. RegisteredIsStopped'
    BY <1>c, <1>14 DEF Produce, ProducerWake, ProduceIoData, ProducerAccounted,
         RegisteredIsStopped
  <2>3. CreateCovered'
    BY <1>c, <1>14 DEF managerVars, Produce, ProducerWake, ProduceIoData, CreateCovered,
         MutexHeld
  <2>4. MutexHeld' /\ HeldWhileJoining'
    BY <1>14 DEF managerVars, Produce, ProducerWake, ProduceIoData, HeldWhileJoining,
         MutexHeld
  <2>5. QED
    BY <1>b, <2>1, <2>2, <2>3, <2>4 DEF ProducerAccounted
<1>15. ASSUME NEW c \in ConnIds, NEW p \in Ports, UdpReceive(c, p) PROVE Goal
  <2>1. ThreadOwned'
    BY <1>15 DEF UdpReceive, productionVars, ProducerAccounted, ThreadOwned
  <2>2. RegisteredIsStopped'
    BY <1>c, <1>15 DEF UdpReceive, productionVars, ProducerAccounted, RegisteredIsStopped
  <2>3. CreateCovered'
    BY <1>c, <1>15 DEF UdpReceive, Goto, productionVars, LabelTypeOK, RefTypeOK,
         CreateCovered, MutexHeld
  <2>4. MutexHeld' /\ HeldWhileJoining'
    BY <1>15 DEF UdpReceive, Goto, productionVars, LabelTypeOK, HeldWhileJoining, MutexHeld
  <2>5. QED
    BY <1>b, <2>1, <2>2, <2>3, <2>4 DEF ProducerAccounted
<1>16. ASSUME UdpLearn PROVE Goal
  <2>1. ThreadOwned'
    BY <1>16 DEF UdpLearn, productionVars, ProducerAccounted, ThreadOwned
  <2>2. RegisteredIsStopped'
    BY <1>c, <1>16 DEF UdpLearn, productionVars, ProducerAccounted, RegisteredIsStopped
  <2>3. CreateCovered'
    BY <1>c, <1>16 DEF UdpLearn, Goto, productionVars, CreateCovered, MutexHeld
  <2>4. MutexHeld' /\ HeldWhileJoining'
    BY <1>16 DEF UdpLearn, Goto, productionVars, LabelTypeOK, HeldWhileJoining, MutexHeld
  <2>5. QED
    BY <1>b, <2>1, <2>2, <2>3, <2>4 DEF ProducerAccounted
<1>17. ASSUME UdpStamp PROVE Goal
  <2>1. ThreadOwned'
    BY <1>17 DEF UdpStamp, productionVars, ProducerAccounted, ThreadOwned
  <2>2. RegisteredIsStopped'
    BY <1>c, <1>17 DEF UdpStamp, productionVars, ProducerAccounted, RegisteredIsStopped
  <2>3. CreateCovered'
    BY <1>c, <1>17 DEF UdpStamp, Goto, productionVars, CreateCovered, MutexHeld
  <2>4. MutexHeld' /\ HeldWhileJoining'
    BY <1>17 DEF UdpStamp, Goto, productionVars, LabelTypeOK, HeldWhileJoining, MutexHeld
  <2>5. QED
    BY <1>b, <2>1, <2>2, <2>3, <2>4 DEF ProducerAccounted
<1>18. ASSUME UdpConsume PROVE Goal
  <2>1. ThreadOwned'
    BY <1>18 DEF UdpConsume, productionVars, ProducerAccounted, ThreadOwned
  <2>2. RegisteredIsStopped'
    BY <1>c, <1>18 DEF UdpConsume, productionVars, ProducerAccounted, RegisteredIsStopped
  <2>3. CreateCovered'
    BY <1>c, <1>18 DEF UdpConsume, Goto, productionVars, CreateCovered, MutexHeld
  <2>4. MutexHeld' /\ HeldWhileJoining'
    BY <1>18 DEF UdpConsume, Goto, productionVars, LabelTypeOK, HeldWhileJoining, MutexHeld
  <2>5. QED
    BY <1>b, <2>1, <2>2, <2>3, <2>4 DEF ProducerAccounted
<1>19. ASSUME NEW c \in ConnIds, Elapse(c) PROVE Goal
  <2>1. ThreadOwned'
    BY <1>19 DEF Elapse, productionVars, ProducerAccounted, ThreadOwned
  <2>2. RegisteredIsStopped'
    BY <1>c, <1>19 DEF Elapse, productionVars, ProducerAccounted, RegisteredIsStopped
  <2>3. CreateCovered'
    BY <1>c, <1>19 DEF managerVars, Elapse, productionVars, CreateCovered, MutexHeld
  <2>4. MutexHeld' /\ HeldWhileJoining'
    BY <1>19 DEF managerVars, Elapse, productionVars, HeldWhileJoining, MutexHeld
  <2>5. QED
    BY <1>b, <2>1, <2>2, <2>3, <2>4 DEF ProducerAccounted
<1>20. ASSUME WatchdogScan PROVE Goal
  <2>1. ThreadOwned'
    BY <1>20 DEF WatchdogScan, WatchdogUnchanged, productionVars, ProducerAccounted,
         ThreadOwned
  <2>2. RegisteredIsStopped'
    BY <1>c, <1>20 DEF WatchdogScan, WatchdogUnchanged, productionVars, ProducerAccounted,
         RegisteredIsStopped
  <2>3. CreateCovered'
    BY <1>c, <1>20 DEF WatchdogScan, WatchdogUnchanged, Goto, productionVars, CreateCovered,
         MutexHeld
  <2>4. MutexHeld' /\ HeldWhileJoining'
    BY <1>20 DEF WatchdogScan, WatchdogUnchanged, Goto, productionVars, LabelTypeOK,
         HeldWhileJoining, MutexHeld
  <2>5. QED
    BY <1>b, <2>1, <2>2, <2>3, <2>4 DEF ProducerAccounted
<1>21. ASSUME NEW c \in ConnIds, WatchdogExpire(c) PROVE Goal
  <2>1. ThreadOwned'
    BY <1>21 DEF WatchdogExpire, WatchdogUnchanged, productionVars, ProducerAccounted,
         ThreadOwned
  <2>2. RegisteredIsStopped'
    BY <1>c, <1>21 DEF WatchdogExpire, WatchdogUnchanged, productionVars, ProducerAccounted,
         RegisteredIsStopped
  <2>3. CreateCovered'
    BY <1>c, <1>21 DEF WatchdogExpire, WatchdogUnchanged, Goto, productionVars, LabelTypeOK,
         RefTypeOK, CreateCovered, MutexHeld
  <2>4. MutexHeld' /\ HeldWhileJoining'
    BY <1>21 DEF WatchdogExpire, WatchdogUnchanged, Goto, productionVars, LabelTypeOK,
         HeldWhileJoining, MutexHeld
  <2>5. QED
    BY <1>b, <2>1, <2>2, <2>3, <2>4 DEF ProducerAccounted
<1>22. ASSUME WatchdogSleep PROVE Goal
  <2>1. ThreadOwned'
    BY <1>22 DEF WatchdogSleep, WatchdogUnchanged, productionVars, ProducerAccounted,
         ThreadOwned
  <2>2. RegisteredIsStopped'
    BY <1>c, <1>22 DEF WatchdogSleep, WatchdogUnchanged, productionVars, ProducerAccounted,
         RegisteredIsStopped
  <2>3. CreateCovered'
    BY <1>c, <1>22 DEF WatchdogSleep, WatchdogUnchanged, Goto, productionVars,
         CreateCovered, MutexHeld
  <2>4. MutexHeld' /\ HeldWhileJoining'
    BY <1>22 DEF WatchdogSleep, WatchdogUnchanged, Goto, productionVars, LabelTypeOK,
         HeldWhileJoining, MutexHeld
  <2>5. QED
    BY <1>b, <2>1, <2>2, <2>3, <2>4 DEF ProducerAccounted
<1>23. ASSUME WatchdogStop PROVE Goal
  <2>1. ThreadOwned'
    BY <1>23 DEF WatchdogStop, WatchdogUnchanged, productionVars, ProducerAccounted,
         ThreadOwned
  <2>2. RegisteredIsStopped'
    BY <1>c, <1>23 DEF WatchdogStop, WatchdogUnchanged, productionVars, ProducerAccounted,
         RegisteredIsStopped
  <2>3. CreateCovered'
    BY <1>c, <1>23 DEF WatchdogStop, WatchdogUnchanged, Goto, productionVars, CreateCovered,
         MutexHeld
  <2>4. MutexHeld' /\ HeldWhileJoining'
    BY <1>23 DEF WatchdogStop, WatchdogUnchanged, Goto, productionVars, LabelTypeOK,
         HeldWhileJoining, MutexHeld
  <2>5. QED
    BY <1>b, <2>1, <2>2, <2>3, <2>4 DEF ProducerAccounted
<1>24. ASSUME CloseBegin PROVE Goal
  <2>1. ThreadOwned'
    BY <1>24 DEF CloseBegin, productionVars, ProducerAccounted, ThreadOwned
  <2>2. RegisteredIsStopped'
    BY <1>c, <1>24 DEF CloseBegin, productionVars, ProducerAccounted, RegisteredIsStopped
  <2>3. CreateCovered'
    BY <1>c, <1>24 DEF CloseBegin, Goto, productionVars, LabelTypeOK, CreateCovered,
         MutexHeld
  <2>4. MutexHeld' /\ HeldWhileJoining'
    BY <1>24 DEF CloseBegin, Goto, productionVars, LabelTypeOK, HeldWhileJoining, MutexHeld
  <2>5. QED
    BY <1>b, <2>1, <2>2, <2>3, <2>4 DEF ProducerAccounted
<1>25. ASSUME StopProductionThreads PROVE Goal
  <2>1. ThreadOwned'
    BY <1>25 DEF StopProductionThreads, ProductionTypeOK, Threads, ProducerAccounted,
         ThreadOwned, HeldWhileJoining
  <2>2. RegisteredIsStopped'
    BY <1>c, <1>25 DEF StopProductionThreads, RegisteredIsStopped
  <2>3. CreateCovered'
    BY <1>c, <1>25 DEF StopProductionThreads, Goto, LabelTypeOK, CreateCovered, MutexHeld
  <2>4. MutexHeld' /\ HeldWhileJoining'
    BY <1>25 DEF StopProductionThreads, Goto, LabelTypeOK, ProductionTypeOK,
         HeldWhileJoining, MutexHeld
  <2>5. QED
    BY <1>b, <2>1, <2>2, <2>3, <2>4 DEF ProducerAccounted
<1>26. ASSUME CloseSnapshot PROVE Goal
  <2>1. ThreadOwned'
    BY <1>26 DEF CloseSnapshot, ProductionTypeOK, ProducerAccounted, ThreadOwned, Producing,
         Joined
  <2>2. RegisteredIsStopped'
    BY <1>c, <1>26 DEF CloseSnapshot, ProducerAccounted, RegisteredIsStopped
  <2>3. CreateCovered'
    BY <1>c, <1>26 DEF CloseSnapshot, Goto, LabelTypeOK, CreateCovered, MutexHeld
  <2>4. MutexHeld' /\ HeldWhileJoining'
    BY <1>26 DEF CloseSnapshot, Goto, LabelTypeOK, ProductionTypeOK, HeldWhileJoining,
         MutexHeld
  <2>5. QED
    BY <1>b, <2>1, <2>2, <2>3, <2>4 DEF ProducerAccounted
<1>27. ASSUME NEW c \in ConnIds, CloseRemove(c) PROVE Goal
  <2>1. ThreadOwned'
    BY <1>27 DEF CloseRemove, productionVars, ProducerAccounted, ThreadOwned
  <2>2. RegisteredIsStopped'
    BY <1>c, <1>27 DEF CloseRemove, productionVars, ProducerAccounted, RegisteredIsStopped
  <2>3. CreateCovered'
    BY <1>c, <1>27 DEF CloseRemove, Goto, productionVars, CreateCovered, MutexHeld
  <2>4. MutexHeld' /\ HeldWhileJoining'
    BY <1>27 DEF CloseRemove, Goto, productionVars, LabelTypeOK, HeldWhileJoining, MutexHeld
  <2>5. QED
    BY <1>b, <2>1, <2>2, <2>3, <2>4 DEF ProducerAccounted
<1>28. ASSUME CloseTransports PROVE Goal
  <2>1. ThreadOwned'
    BY <1>28 DEF CloseTransports, CloseAdvance, productionVars, ProducerAccounted,
         ThreadOwned
  <2>2. RegisteredIsStopped'
    BY <1>c, <1>28 DEF CloseTransports, CloseAdvance, productionVars, ProducerAccounted,
         RegisteredIsStopped
  <2>3. CreateCovered'
    BY <1>c, <1>28 DEF CloseTransports, CloseAdvance, Goto, productionVars, LabelTypeOK,
         Threads, CreateCovered, MutexHeld
  <2>4. MutexHeld' /\ HeldWhileJoining'
    BY <1>28 DEF CloseTransports, CloseAdvance, Goto, productionVars, LabelTypeOK,
         HeldWhileJoining, MutexHeld
  <2>5. QED
    BY <1>b, <2>1, <2>2, <2>3, <2>4 DEF ProducerAccounted
<1>29. CASE UNCHANGED vars
  BY <1>b, <1>29 DEF vars, managerVars, productionVars, ProducerAccounted, ThreadOwned,
       RegisteredIsStopped, Covered, StopPending, CreateCovered, MutexHeld, HeldWhileJoining
<1>30. QED
  <2>1. ASSUME NEW a \in Threads, Removal(a) PROVE Goal
    BY <1>3, <1>4, <1>5, <1>6, <1>7, <1>8, <2>1 DEF Removal, Manager, ManagerStep
  <2>2. ASSUME NEW a \in Clients, Request(a) \/ Handler(a) PROVE Goal
    <3>1. a \in Threads
      BY DEF Threads
    <3>2. QED
      BY <1>1, <1>2, <1>9, <1>10, <1>11, <1>12, <1>13, <2>1, <2>2, <3>1 DEF Request, Handler
  <2>3. CASE WatchdogLoop \/ Close
    <3>1. Watchdog \in Threads /\ App \in Threads
      BY DEF Threads
    <3>2. QED
      BY <1>20, <1>21, <1>22, <1>23, <1>25, <1>26, <1>27, <1>28, <2>1, <2>3, <3>1 DEF
           WatchdogLoop, Close
  <2>4. CASE UdpHandler \/ CloseBegin \/ Quiescent
    BY <1>16, <1>17, <1>18, <1>24, <1>29, <2>4 DEF UdpHandler, Quiescent
  <2>5. QED
    BY <1>14, <1>15, <1>19, <1>29, <2>2, <2>3, <2>4 DEF Next

LEMMA ProducerInit == Init => ProducerInv
<1> SUFFICES ASSUME Init PROVE ProducerInv
  OBVIOUS
<1>1. TypeInv
  BY TypeInit
<1>2. \A a \in Threads : at[a] = "idle" /\ held[a] = {}
  BY DEF Init, ManagerInit
<1>3. ProducerAccounted
  BY DEF Init, ProducerAccounted, ThreadOwned, RegisteredIsStopped, Producing
<1>4. QED
  BY <1>1, <1>2, <1>3 DEF ProducerInv, MutexHeld, CreateCovered, HeldWhileJoining

\* No production thread outlives the removal of its connection, whichever of
\* Forward Open, Forward Close, watchdog and close() overtakes which.
THEOREM ProducersAccounted == Spec => []ProducerAccounted
<1>1. ProducerInv => ProducerAccounted
  BY DEF ProducerInv
<1>2. QED
  BY ProducerInit, ProducerStep, <1>1, PTL DEF Spec
-----------------------------------------------------------------------------
(* Forward Close and the table.  A connection that is about to be inserted *)
(* or was popped by a client is in the hands of that client alone.         *)

InHand(a) == at[a] \in {"insert"} \cup RemovalLabels

CloseInv ==
  /\ \A a \in Clients : InHand(a) => cur[a] \in (1..next_connection_id) \ connections
  /\ \A a, b \in Clients : a # b /\ InHand(a) /\ InHand(b) => cur[a] # cur[b]

LEMMA CloseStep == TypeInv /\ CloseInv /\ [Next]_vars => CloseInv'
<1> SUFFICES ASSUME TypeInv, CloseInv, [Next]_vars PROVE CloseInv'
  OBVIOUS
<1> DEFINE Goal == CloseInv'
<1> USE DEF TypeInv, TypeOK, CloseInv, InHand
<1>1. ASSUME NEW a \in Clients, ForwardOpen(a) PROVE Goal
  <2>1. PICK t \in Triads, p \in Profiles : ForwardOpenCheck(a, t, p)
    BY <1>1 DEF ForwardOpen
  <2>2. /\ cur' = [cur EXCEPT ![a] = next_connection_id + 1]
        /\ at' = [at EXCEPT ![a] = "insert"]
        /\ next_connection_id' = next_connection_id + 1
        /\ connections' = connections
    BY <2>1 DEF ForwardOpenCheck, NewId, Goto
  <2>3. \A b \in Clients : InHand(b) => cur[b] \in 1..next_connection_id /\ cur[b] # cur'[a]
    BY <2>2 DEF TableTypeOK, RefTypeOK, Threads
  <2>4. cur'[a] \in (1..next_connection_id') \ connections'
    BY <2>2 DEF TableTypeOK, RefTypeOK, Threads
  <2>5. 1..next_connection_id \subseteq 1..next_connection_id'
    BY <2>2 DEF TableTypeOK
  <2>6. \A b \in Clients : b # a => at'[b] = at[b] /\ cur'[b] = cur[b]
    BY <2>2
  <2>7. QED
    BY <2>2, <2>3, <2>4, <2>5, <2>6
<1>2. ASSUME NEW a \in Clients, ForwardClose(a) PROVE Goal
  <2>1. PICK c \in connections : ForwardClosePop(a, c)
    BY <1>2 DEF ForwardClose
  <2>2. c \in 1..next_connection_id
    BY DEF TableTypeOK
  <2>3. QED
    BY <2>1, <2>2 DEF ForwardClosePop, Goto, LabelTypeOK, RefTypeOK
<1>3. ASSUME NEW a \in Threads, ForwardOpenInsert(a), DeviceUnchanged PROVE Goal
  BY <1>3 DEF ForwardOpenInsert, Goto, LabelTypeOK, Threads, RemovalLabels, WatchdogLabels,
       AppLabels, UdpLabels
<1>4. ASSUME NEW a \in Threads, TimeoutMark(a), DeviceUnchanged PROVE Goal
  BY <1>4 DEF TimeoutMark, Goto, LabelTypeOK, Threads, OpenLabels
<1>5. ASSUME NEW a \in Threads, RemovePop(a), DeviceUnchanged PROVE Goal
  BY <1>5 DEF RemovePop, Goto, Threads, RemovalLabels
<1>6. ASSUME NEW a \in Threads, RemoveClose(a), DeviceUnchanged PROVE Goal
  BY <1>6 DEF RemoveClose, Goto, Threads, RemovalLabels
<1>7. ASSUME NEW a \in Threads, StopProductionThread(a) PROVE Goal
  BY <1>7 DEF StopProductionThread, Goto, tableVars, Threads, RemovalLabels
<1>8. ASSUME NEW a \in Threads, JoinProductionThread(a) PROVE Goal
  BY <1>8 DEF JoinProductionThread, Goto, tableVars, LabelTypeOK, RefTypeOK, Threads,
       RemovalLabels
<1>9. ASSUME NEW a \in Clients, OnEstablished(a) PROVE Goal
  BY <1>9 DEF OnEstablished, Goto, tableVars, Threads, RemovalLabels
<1>10. ASSUME NEW a \in Clients, StartLookup(a) PROVE Goal
  BY <1>10 DEF StartLookup, Goto, tableVars, LabelTypeOK, RefTypeOK, Threads, RemovalLabels
<1>11. ASSUME NEW a \in Clients, StartThread(a) PROVE Goal
  BY <1>11 DEF StartThread, Goto, tableVars, Threads, RemovalLabels
<1>12. ASSUME NEW a \in Clients, OpenedLookup(a) PROVE Goal
  <2>1. /\ connections' = connections /\ next_connection_id' = next_connection_id
        /\ \A b \in Clients : b # a => cur'[b] = cur[b] /\ at'[b] = at[b]
        /\ at'[a] \in {"idle", "bind"}
    BY <1>12 DEF OpenedLookup, Reply, Goto, tableVars, LabelTypeOK, RefTypeOK, Threads
  <2>2. QED
    BY <2>1 DEF RemovalLabels
<1>13. ASSUME NEW a \in Clients, OpenedBind(a) PROVE Goal
  BY <1>13 DEF OpenedBind, Reply, Goto, tableVars, Threads, RemovalLabels
<1>14. ASSUME NEW c \in ConnIds, Produce(c) PROVE Goal
  BY <1>14 DEF managerVars, Produce, ProducerWake, ProduceIoData
<1>15. ASSUME NEW c \in ConnIds, NEW p \in Ports, UdpReceive(c, p) PROVE Goal
  BY <1>15 DEF UdpReceive, Goto, tableVars, LabelTypeOK, RefTypeOK, Threads
<1>16. ASSUME UdpLearn PROVE Goal
  BY <1>16 DEF UdpLearn, Goto, tableVars, Threads
<1>17. ASSUME UdpStamp PROVE Goal
  BY <1>17 DEF UdpStamp, Goto, tableVars, Threads
<1>18. ASSUME UdpConsume PROVE Goal
  BY <1>18 DEF UdpConsume, Goto, tableVars, Threads
<1>19. ASSUME NEW c \in ConnIds, Elapse(c) PROVE Goal
  BY <1>19 DEF managerVars, Elapse
<1>20. ASSUME WatchdogScan PROVE Goal
  BY <1>20 DEF WatchdogScan, WatchdogUnchanged, Goto, tableVars, Threads
<1>21. ASSUME NEW c \in ConnIds, WatchdogExpire(c) PROVE Goal
  BY <1>21 DEF WatchdogExpire, WatchdogUnchanged, Goto, tableVars, LabelTypeOK, RefTypeOK,
       Threads
<1>22. ASSUME WatchdogSleep PROVE Goal
  BY <1>22 DEF WatchdogSleep, WatchdogUnchanged, Goto, tableVars, Threads
<1>23. ASSUME WatchdogStop PROVE Goal
  BY <1>23 DEF WatchdogStop, WatchdogUnchanged, Goto, tableVars, Threads
<1>24. ASSUME CloseBegin PROVE Goal
  BY <1>24 DEF CloseBegin, Goto, tableVars, LabelTypeOK, Threads
<1>25. ASSUME StopProductionThreads PROVE Goal
  BY <1>25 DEF StopProductionThreads, Goto, tableVars, LabelTypeOK, Threads
<1>26. ASSUME CloseSnapshot PROVE Goal
  BY <1>26 DEF CloseSnapshot, Goto, tableVars, LabelTypeOK, Threads
<1>27. ASSUME NEW c \in ConnIds, CloseRemove(c) PROVE Goal
  BY <1>27 DEF CloseRemove, Goto, tableVars
<1>28. ASSUME CloseTransports PROVE Goal
  BY <1>28 DEF CloseTransports, CloseAdvance, Goto, tableVars, LabelTypeOK, RefTypeOK,
       Threads, OpenLabels, AppLabels
<1>29. CASE UNCHANGED vars
  BY <1>29 DEF vars, managerVars
<1>30. QED
  <2>1. ASSUME NEW a \in Threads, Removal(a) PROVE Goal
    BY <1>3, <1>4, <1>5, <1>6, <1>7, <1>8, <2>1 DEF Removal, Manager, ManagerStep
  <2>2. ASSUME NEW a \in Clients, Request(a) \/ Handler(a) PROVE Goal
    <3>1. a \in Threads
      BY DEF Threads
    <3>2. QED
      BY <1>1, <1>2, <1>9, <1>10, <1>11, <1>12, <1>13, <2>1, <2>2, <3>1 DEF Request, Handler
  <2>3. CASE WatchdogLoop \/ Close
    <3>1. Watchdog \in Threads /\ App \in Threads
      BY DEF Threads
    <3>2. QED
      BY <1>20, <1>21, <1>22, <1>23, <1>25, <1>26, <1>27, <1>28, <2>1, <2>3, <3>1 DEF
           WatchdogLoop, Close
  <2>4. CASE UdpHandler \/ CloseBegin \/ Quiescent
    BY <1>16, <1>17, <1>18, <1>24, <1>29, <2>4 DEF UdpHandler, Quiescent
  <2>5. QED
    BY <1>14, <1>15, <1>19, <1>29, <2>2, <2>3, <2>4 DEF Next

\* Two Forward Closes never take the same connection out, however many clients
\* send one for the same triad.
THEOREM ForwardCloseOnce == Spec => []SingleForwardClose
<1>1. Init => CloseInv
  <2> SUFFICES ASSUME Init PROVE \A a \in Clients : ~InHand(a)
    BY DEF CloseInv
  <2>1. QED
    BY DEF Init, ManagerInit, InHand, RemovalLabels, Threads
<1>2. CloseInv => SingleForwardClose
  BY DEF CloseInv, InHand, SingleForwardClose
<1>3. QED
  BY TypeInit, TypeStep, CloseStep, <1>1, <1>2, PTL DEF Spec
-----------------------------------------------------------------------------
(* The inactivity timer.  The stamps of on_connection_established and of   *)
(* on_udp_message never meet: no frame is accepted for a connection before *)
(* its Forward Open was answered, and one client answers it once.          *)

Opening(a) == at[a] \in OpenLabels

OpeningInv ==
  /\ \A a \in Clients : Opening(a) => cur[a] \in (1..next_connection_id) \ answered
  /\ \A a, b \in Clients : a # b /\ Opening(a) /\ Opening(b) => cur[a] # cur[b]
  /\ answered \subseteq 1..next_connection_id

TimerInv ==
  /\ \A c \in ConnIds : first_received[c] => c \in answered /\ last_received[c].from =
       "frame"
  /\ at[UdpThread] \in UdpLabels => cur[UdpThread] \in answered
  /\ at[UdpThread] = "consume" => last_received[cur[UdpThread]].from = "frame"
  /\ at[Watchdog] = "expire" => first_received[cur[Watchdog]]

LEMMA OpeningStep == TypeInv /\ OpeningInv /\ [Next]_vars => OpeningInv'
<1> SUFFICES ASSUME TypeInv, OpeningInv, [Next]_vars PROVE OpeningInv'
  OBVIOUS
<1> DEFINE Goal == OpeningInv'
<1> USE DEF TypeInv, TypeOK, OpeningInv, Opening
<1>1. ASSUME NEW a \in Clients, ForwardOpen(a) PROVE Goal
  <2>1. PICK t \in Triads, p \in Profiles : ForwardOpenCheck(a, t, p)
    BY <1>1 DEF ForwardOpen
  <2>2. /\ cur' = [cur EXCEPT ![a] = next_connection_id + 1]
        /\ at' = [at EXCEPT ![a] = "insert"]
        /\ next_connection_id' = next_connection_id + 1
        /\ answered' = answered
    BY <1>1, <2>1 DEF ForwardOpen, ForwardOpenCheck, NewId, Goto, DeviceUnchanged, ioVars
  <2>3. \A b \in Clients : Opening(b) => cur[b] \in 1..next_connection_id /\ cur[b] #
       cur'[a]
    BY <2>2 DEF TableTypeOK, RefTypeOK, Threads
  <2>4. cur'[a] \in (1..next_connection_id') \ answered'
    BY <2>2 DEF TableTypeOK, RefTypeOK, Threads
  <2>5. 1..next_connection_id \subseteq 1..next_connection_id'
    BY <2>2 DEF TableTypeOK
  <2>6. \A b \in Clients : b # a => at'[b] = at[b] /\ cur'[b] = cur[b]
    BY <2>2
  <2>7. QED
    BY <2>2, <2>3, <2>4, <2>5, <2>6
<1>2. ASSUME NEW a \in Clients, ForwardClose(a) PROVE Goal
  <2>1. /\ \E c \in connections : cur' = [cur EXCEPT ![a] = c]
        /\ at' = [at EXCEPT ![a] = "closing"]
        /\ answered' = answered /\ next_connection_id' = next_connection_id
    BY <1>2 DEF ForwardClose, ForwardClosePop, Goto, DeviceUnchanged, ioVars
  <2>2. QED
    BY <2>1 DEF LabelTypeOK, RefTypeOK, OpenLabels
<1>3. ASSUME NEW a \in Threads, ForwardOpenInsert(a), DeviceUnchanged PROVE Goal
  BY <1>3 DEF ForwardOpenInsert, DeviceUnchanged, Goto, Threads, OpenLabels, ioVars
<1>4. ASSUME NEW a \in Threads, TimeoutMark(a), DeviceUnchanged PROVE Goal
  BY <1>4 DEF TimeoutMark, DeviceUnchanged, Goto, Threads, OpenLabels, ioVars
<1>5. ASSUME NEW a \in Threads, RemovePop(a), DeviceUnchanged PROVE Goal
  BY <1>5 DEF RemovePop, DeviceUnchanged, Goto, Threads, OpenLabels, ioVars
<1>6. ASSUME NEW a \in Threads, RemoveClose(a), DeviceUnchanged PROVE Goal
  BY <1>6 DEF RemoveClose, DeviceUnchanged, Goto, Threads, OpenLabels, ioVars
<1>7. ASSUME NEW a \in Threads, StopProductionThread(a) PROVE Goal
  BY <1>7 DEF StopProductionThread, Goto, tableVars, Threads, OpenLabels, ioVars
<1>8. ASSUME NEW a \in Threads, JoinProductionThread(a) PROVE Goal
  BY <1>8 DEF JoinProductionThread, Goto, tableVars, Threads, OpenLabels, ioVars
<1>9. ASSUME NEW a \in Clients, OnEstablished(a) PROVE Goal
  BY <1>9 DEF OnEstablished, Goto, tableVars, Threads, OpenLabels
<1>10. ASSUME NEW a \in Clients, StartLookup(a) PROVE Goal
  BY <1>10 DEF StartLookup, Goto, tableVars, LabelTypeOK, RefTypeOK, Threads, RemovalLabels,
       ioVars
<1>11. ASSUME NEW a \in Clients, StartThread(a) PROVE Goal
  BY <1>11 DEF StartThread, Goto, tableVars, Threads, OpenLabels, ioVars
<1>12. ASSUME NEW a \in Clients, OpenedLookup(a) PROVE Goal
  <2>1. CASE Reply(a)
    BY <1>12, <2>1 DEF OpenedLookup, Reply, Goto, tableVars, LabelTypeOK, RefTypeOK,
         Threads, OpenLabels
  <2>2. CASE Goto(a, "bind") /\ UNCHANGED <<cur, answered>>
    BY <1>12, <2>2 DEF OpenedLookup, Goto, tableVars, OpenLabels
  <2>3. QED
    BY <1>12, <2>1, <2>2 DEF OpenedLookup
<1>13. ASSUME NEW a \in Clients, OpenedBind(a) PROVE Goal
  BY <1>13 DEF OpenedBind, Reply, Goto, tableVars, LabelTypeOK, RefTypeOK, Threads,
       OpenLabels
<1>14. ASSUME NEW c \in ConnIds, Produce(c) PROVE Goal
  BY <1>14 DEF managerVars, Produce, ProducerWake, ProduceIoData, ioVars
<1>15. ASSUME NEW c \in ConnIds, NEW p \in Ports, UdpReceive(c, p) PROVE Goal
  BY <1>15 DEF UdpReceive, Goto, tableVars, LabelTypeOK, RefTypeOK, Threads
<1>16. ASSUME UdpLearn PROVE Goal
  BY <1>16 DEF UdpLearn, Goto, tableVars, Threads
<1>17. ASSUME UdpStamp PROVE Goal
  BY <1>17 DEF UdpStamp, Goto, tableVars, Threads
<1>18. ASSUME UdpConsume PROVE Goal
  BY <1>18 DEF UdpConsume, Goto, tableVars, Threads
<1>19. ASSUME NEW c \in ConnIds, Elapse(c) PROVE Goal
  BY <1>19 DEF managerVars, Elapse
<1>20. ASSUME WatchdogScan PROVE Goal
  BY <1>20 DEF WatchdogScan, WatchdogUnchanged, Goto, tableVars, Threads, ioVars
<1>21. ASSUME NEW c \in ConnIds, WatchdogExpire(c) PROVE Goal
  BY <1>21 DEF WatchdogExpire, WatchdogUnchanged, Goto, tableVars, LabelTypeOK, RefTypeOK,
       Threads, ioVars
<1>22. ASSUME WatchdogSleep PROVE Goal
  BY <1>22 DEF WatchdogSleep, WatchdogUnchanged, Goto, tableVars, Threads, ioVars
<1>23. ASSUME WatchdogStop PROVE Goal
  BY <1>23 DEF WatchdogStop, WatchdogUnchanged, Goto, tableVars, Threads, ioVars
<1>24. ASSUME CloseBegin PROVE Goal
  BY <1>24 DEF CloseBegin, Goto, tableVars, LabelTypeOK, Threads, ioVars
<1>25. ASSUME StopProductionThreads PROVE Goal
  BY <1>25 DEF StopProductionThreads, Goto, tableVars, LabelTypeOK, Threads, ioVars
<1>26. ASSUME CloseSnapshot PROVE Goal
  BY <1>26 DEF CloseSnapshot, Goto, tableVars, LabelTypeOK, Threads, ioVars
<1>27. ASSUME NEW c \in ConnIds, CloseRemove(c) PROVE Goal
  BY <1>27 DEF CloseRemove, Goto, tableVars, ioVars
<1>28. ASSUME CloseTransports PROVE Goal
  BY <1>28 DEF CloseTransports, CloseAdvance, Goto, tableVars, LabelTypeOK, RefTypeOK,
       Threads, AppLabels, ioVars
<1>29. CASE UNCHANGED vars
  BY <1>29 DEF vars, managerVars, ioVars
<1>30. QED
  <2>1. ASSUME NEW a \in Threads, Removal(a) PROVE Goal
    BY <1>3, <1>4, <1>5, <1>6, <1>7, <1>8, <2>1 DEF Removal, Manager, ManagerStep
  <2>2. ASSUME NEW a \in Clients, Request(a) \/ Handler(a) PROVE Goal
    <3>1. a \in Threads
      BY DEF Threads
    <3>2. QED
      BY <1>1, <1>2, <1>9, <1>10, <1>11, <1>12, <1>13, <2>1, <2>2, <3>1 DEF Request, Handler
  <2>3. CASE WatchdogLoop \/ Close
    <3>1. Watchdog \in Threads /\ App \in Threads
      BY DEF Threads
    <3>2. QED
      BY <1>20, <1>21, <1>22, <1>23, <1>25, <1>26, <1>27, <1>28, <2>1, <2>3, <3>1 DEF
           WatchdogLoop, Close
  <2>4. CASE UdpHandler \/ CloseBegin \/ Quiescent
    BY <1>16, <1>17, <1>18, <1>24, <1>29, <2>4 DEF UdpHandler, Quiescent
  <2>5. QED
    BY <1>14, <1>15, <1>19, <1>29, <2>2, <2>3, <2>4 DEF Next

LEMMA TimerStep == TypeInv /\ OpeningInv /\ TimerInv /\ [Next]_vars => TimerInv'
<1> SUFFICES ASSUME TypeInv, OpeningInv, TimerInv, [Next]_vars PROVE TimerInv'
  OBVIOUS
<1> DEFINE Goal == TimerInv'
<1> USE DEF TypeInv, TypeOK, TimerInv
<1>1. ASSUME NEW a \in Clients, ForwardOpen(a) PROVE Goal
  BY <1>1 DEF ForwardOpen, ForwardOpenCheck, DeviceUnchanged, Goto, timerVars, Threads,
       ioVars
<1>2. ASSUME NEW a \in Clients, ForwardClose(a) PROVE Goal
  BY <1>2 DEF ForwardClose, ForwardClosePop, DeviceUnchanged, Goto, timerVars, Threads,
       ioVars
<1>3. ASSUME NEW a \in Threads, ForwardOpenInsert(a), DeviceUnchanged PROVE Goal
  BY <1>3 DEF ForwardOpenInsert, DeviceUnchanged, Goto, timerVars, Threads, UdpLabels,
       ioVars
<1>4. ASSUME NEW a \in Threads, TimeoutMark(a), DeviceUnchanged PROVE Goal
  BY <1>4 DEF TimeoutMark, DeviceUnchanged, Goto, timerVars, Threads, UdpLabels, ioVars
<1>5. ASSUME NEW a \in Threads, RemovePop(a), DeviceUnchanged PROVE Goal
  BY <1>5 DEF RemovePop, DeviceUnchanged, Goto, timerVars, Threads, UdpLabels, ioVars
<1>6. ASSUME NEW a \in Threads, RemoveClose(a), DeviceUnchanged PROVE Goal
  BY <1>6 DEF RemoveClose, DeviceUnchanged, Goto, timerVars, Threads, UdpLabels, ioVars
<1>7. ASSUME NEW a \in Threads, StopProductionThread(a) PROVE Goal
  BY <1>7 DEF StopProductionThread, Goto, timerVars, Threads, UdpLabels, ioVars
<1>8. ASSUME NEW a \in Threads, JoinProductionThread(a) PROVE Goal
  BY <1>8 DEF JoinProductionThread, Goto, timerVars, Threads, UdpLabels, ioVars
<1>9. ASSUME NEW a \in Clients, OnEstablished(a) PROVE Goal
  BY <1>9 DEF OnEstablished, Goto, OpeningInv, Opening, Threads, OpenLabels, UdpLabels
<1>10. ASSUME NEW a \in Clients, StartLookup(a) PROVE Goal
  BY <1>10 DEF StartLookup, Goto, timerVars, LabelTypeOK, Threads, ioVars
<1>11. ASSUME NEW a \in Clients, StartThread(a) PROVE Goal
  BY <1>11 DEF StartThread, Goto, timerVars, Threads, ioVars
<1>12. ASSUME NEW a \in Clients, OpenedLookup(a) PROVE Goal
  <2>1. /\ UNCHANGED <<first_received, last_received>>
        /\ answered \subseteq answered'
        /\ \A b \in Threads : b # a => cur'[b] = cur[b] /\ at'[b] = at[b]
    BY <1>12 DEF OpenedLookup, Reply, Goto, timerVars, LabelTypeOK, RefTypeOK
  <2>2. QED
    BY <2>1 DEF Threads
<1>13. ASSUME NEW a \in Clients, OpenedBind(a) PROVE Goal
  BY <1>13 DEF OpenedBind, Reply, Goto, timerVars, Threads
<1>14. ASSUME NEW c \in ConnIds, Produce(c) PROVE Goal
  BY <1>14 DEF Produce, ProducerWake, ProduceIoData, managerVars, ioVars, timerVars
<1>15. ASSUME NEW c \in ConnIds, NEW p \in Ports, UdpReceive(c, p) PROVE Goal
  BY <1>15 DEF UdpReceive, Goto, timerVars, LabelTypeOK, RefTypeOK, Threads
<1>16. ASSUME UdpLearn PROVE Goal
  BY <1>16 DEF UdpLearn, Goto, timerVars, Threads, UdpLabels
<1>17. ASSUME UdpStamp PROVE Goal
  BY <1>17 DEF UdpStamp, Goto, IoTypeOK, LabelTypeOK, Threads
<1>18. ASSUME UdpConsume PROVE Goal
  <2>1. cur[UdpThread] \in ConnIds
    BY <1>18 DEF UdpConsume, CurOK, LooseLabels, AppLabels, Threads
  <2>2. /\ first_received' = [first_received EXCEPT ![cur[UdpThread]] = TRUE]
        /\ UNCHANGED <<last_received, answered>>
        /\ at'[UdpThread] = "idle"
        /\ at'[Watchdog] = at[Watchdog] /\ cur'[Watchdog] = cur[Watchdog]
    BY <1>18 DEF UdpConsume, Goto, LabelTypeOK, Threads
  <2>3. cur[UdpThread] \in answered /\ last_received[cur[UdpThread]].from = "frame"
    BY <1>18 DEF UdpConsume, UdpLabels
  <2>4. at'[Watchdog] = "expire" => cur[Watchdog] \in ConnIds
    BY <2>2 DEF CurOK, LooseLabels, AppLabels, Threads
  <2>5. QED
    BY <2>1, <2>2, <2>3, <2>4 DEF UdpLabels
<1>19. ASSUME NEW c \in ConnIds, Elapse(c) PROVE Goal
  <2>1. \A d \in ConnIds : last_received'[d].from = last_received[d].from
    BY <1>19 DEF Elapse
  <2>2. at[UdpThread] = "consume" => cur[UdpThread] \in ConnIds
    BY DEF CurOK, LooseLabels, AppLabels, Threads
  <2>3. QED
    BY <1>19, <2>1, <2>2 DEF Elapse, managerVars
<1>20. ASSUME WatchdogScan PROVE Goal
  BY <1>20 DEF WatchdogScan, WatchdogUnchanged, Goto, timerVars, Threads, ioVars
<1>21. ASSUME NEW c \in ConnIds, WatchdogExpire(c) PROVE Goal
  <2>1. CASE TimeoutDue(c)
    BY <1>21, <2>1 DEF WatchdogExpire, WatchdogUnchanged, TimeoutDue, Goto, ioVars,
         timerVars, LabelTypeOK, RefTypeOK, Threads
  <2>2. CASE ~TimeoutDue(c)
    BY <1>21, <2>2 DEF WatchdogExpire, WatchdogUnchanged, ioVars, timerVars
  <2>3. QED
    BY <2>1, <2>2
<1>22. ASSUME WatchdogSleep PROVE Goal
  BY <1>22 DEF WatchdogSleep, WatchdogUnchanged, Goto, timerVars, Threads, ioVars
<1>23. ASSUME WatchdogStop PROVE Goal
  BY <1>23 DEF WatchdogStop, WatchdogUnchanged, Goto, timerVars, Threads, ioVars
<1>24. ASSUME CloseBegin PROVE Goal
  BY <1>24 DEF CloseBegin, Goto, timerVars, LabelTypeOK, Threads, ioVars
<1>25. ASSUME StopProductionThreads PROVE Goal
  BY <1>25 DEF StopProductionThreads, Goto, timerVars, LabelTypeOK, Threads, ioVars
<1>26. ASSUME CloseSnapshot PROVE Goal
  BY <1>26 DEF CloseSnapshot, Goto, timerVars, LabelTypeOK, Threads, ioVars
<1>27. ASSUME NEW c \in ConnIds, CloseRemove(c) PROVE Goal
  BY <1>27 DEF CloseRemove, Goto, timerVars, ioVars
<1>28. ASSUME CloseTransports PROVE Goal
  <2>1. \E l \in AppLabels : Goto(App, l)
    BY <1>28 DEF CloseTransports, CloseAdvance, AppLabels
  <2>2. UNCHANGED <<cur, ioVars>>
    BY <1>28 DEF CloseTransports, CloseAdvance
  <2>3. QED
    BY <2>1, <2>2 DEF Goto, ioVars, timerVars
<1>29. CASE UNCHANGED vars
  BY <1>29 DEF vars, managerVars, ioVars, timerVars
<1>30. QED
  <2>1. ASSUME NEW a \in Threads, Removal(a) PROVE Goal
    BY <1>3, <1>4, <1>5, <1>6, <1>7, <1>8, <2>1 DEF Removal, Manager, ManagerStep
  <2>2. ASSUME NEW a \in Clients, Request(a) \/ Handler(a) PROVE Goal
    <3>1. a \in Threads
      BY DEF Threads
    <3>2. QED
      BY <1>1, <1>2, <1>9, <1>10, <1>11, <1>12, <1>13, <2>1, <2>2, <3>1 DEF Request, Handler
  <2>3. CASE WatchdogLoop \/ Close
    <3>1. Watchdog \in Threads /\ App \in Threads
      BY DEF Threads
    <3>2. QED
      BY <1>20, <1>21, <1>22, <1>23, <1>25, <1>26, <1>27, <1>28, <2>1, <2>3, <3>1 DEF
           WatchdogLoop, Close
  <2>4. CASE UdpHandler \/ CloseBegin \/ Quiescent
    BY <1>16, <1>17, <1>18, <1>24, <1>29, <2>4 DEF UdpHandler, Quiescent
  <2>5. QED
    BY <1>14, <1>15, <1>19, <1>29, <2>2, <2>3, <2>4 DEF Next

\* The inactivity timer of a connection never counts from its Forward Open: the
\* watchdog expires it only on the age of a frame that on_udp_message stamped.
THEOREM TimerCountsFromFrame == Spec => []TimeoutCountsFromFirstFrame
<1>1. Init => OpeningInv /\ TimerInv
  BY DEF Init, ManagerInit, OpeningInv, Opening, TimerInv, OpenLabels, UdpLabels, Threads
<1>2. TypeInv /\ TimerInv => TimeoutCountsFromFirstFrame
  <2> SUFFICES ASSUME TypeInv, TimerInv, at[Watchdog] = "expire"
               PROVE  last_received[cur[Watchdog]].from = "frame"
    BY DEF TimeoutCountsFromFirstFrame
  <2>1. cur[Watchdog] \in ConnIds
    BY DEF TypeInv, CurOK, LooseLabels, AppLabels, Threads
  <2>2. QED
    BY <2>1 DEF TimerInv
<1>3. QED
  BY TypeInit, TypeStep, OpeningStep, TimerStep, <1>1, <1>2, PTL DEF Spec
-----------------------------------------------------------------------------
(* The lifecycle of a connection.  Phase tells where a connection is from  *)
(* the references the threads hold, so the refinement needs to know that   *)
(* nothing refers to a connection before it is in the table, that whoever  *)
(* finds one Established outside it finds it still being removed, and that *)
(* a producer is started only once.                                        *)

\* Threads refer to connections whose ids were handed out.
RefInv ==
  \A b \in Threads :
    /\ cur[b] \in 0..next_connection_id
    /\ snapshot[b] \cup held[b] \subseteq 1..next_connection_id

\* A connection about to be inserted is known to the inserting thread alone.
FreshInv ==
  \A a \in Clients : at[a] = "insert" =>
    /\ cur[a] \notin connections
    /\ \A b \in Threads :
         cur[a] \notin snapshot[b] \cup held[b] /\ (b # a => cur[b] # cur[a])

\* A connection leaves the table before it leaves the state Established.
EstablishedInv ==
  \A c \in 1..next_connection_id : state[c] = "Established" =>
    \/ c \in connections
    \/ \E b \in Threads : cur[b] = c /\ at[b] \in {"insert", "closing"}

\* Until its Forward Open has started its producer, a connection has none.
StartInv ==
  \A c \in ConnIds : producer[c] # "none" =>
    /\ c \in 1..next_connection_id
    /\ \A a \in Clients :
         at[a] \in {"insert", "established", "start", "create"} => cur[a] # c

\* A thread takes its references from the table and from other references.
LEMMA ReferenceStep ==
  ProducerInv /\ RefInv /\ FreshInv /\ [Next]_vars => RefInv' /\ FreshInv'
<1> SUFFICES ASSUME ProducerInv, RefInv, FreshInv, [Next]_vars PROVE RefInv' /\ FreshInv'
  OBVIOUS
<1> DEFINE Goal == RefInv' /\ FreshInv'
<1> USE DEF RefInv, FreshInv
<1>a. TypeInv /\ connections \subseteq 1..next_connection_id /\ next_connection_id \in Nat
  BY DEF ProducerInv, TypeInv, TypeOK, TableTypeOK
<1>b. /\ at \in [Threads -> Labels] /\ cur \in [Threads -> ConnIds \cup {NoConn}]
      /\ snapshot \in [Threads -> SUBSET ConnIds] /\ held \in [Threads -> SUBSET ConnIds]
  BY <1>a DEF TypeInv, TypeOK, LabelTypeOK, RefTypeOK, ProductionTypeOK
<1>c. \A a \in Clients : a \in Threads /\ a # Watchdog /\ a # App /\ a # UdpThread
  BY DEF Threads
<1>d. Watchdog \in Threads /\ App \in Threads /\ UdpThread \in Threads
  BY DEF Threads
<1>e. \A a \in Clients : at[a] = "insert" => cur[a] # NoConn
  BY <1>a, <1>c DEF TypeInv, CurOK, NoConn
<1>1. ASSUME NEW a \in Clients, ForwardOpen(a) PROVE Goal
  BY <1>a, <1>b, <1>c, <1>d, <1>1 DEF ForwardOpen, ForwardOpenCheck, NewId,
       DeviceUnchanged, Goto, tableVars, productionVars, ioVars
<1>2. ASSUME NEW a \in Clients, ForwardClose(a) PROVE Goal
  BY <1>a, <1>b, <1>c, <1>d, <1>2 DEF ForwardClose, ForwardClosePop, DeviceUnchanged,
       Goto, tableVars, productionVars, ioVars
<1>3. ASSUME NEW a \in Threads, ForwardOpenInsert(a), DeviceUnchanged PROVE Goal
  BY <1>a, <1>b, <1>c, <1>d, <1>3 DEF ForwardOpenInsert, DeviceUnchanged, Goto, tableVars,
       productionVars, ioVars
<1>4. ASSUME NEW a \in Threads, TimeoutMark(a), DeviceUnchanged PROVE Goal
  BY <1>a, <1>b, <1>c, <1>d, <1>4 DEF TimeoutMark, DeviceUnchanged, Goto, tableVars,
       productionVars, ioVars
<1>5. ASSUME NEW a \in Threads, RemovePop(a), DeviceUnchanged PROVE Goal
  BY <1>a, <1>b, <1>c, <1>d, <1>5 DEF RemovePop, DeviceUnchanged, Goto, tableVars,
       productionVars, ioVars
<1>6. ASSUME NEW a \in Threads, RemoveClose(a), DeviceUnchanged PROVE Goal
  BY <1>a, <1>b, <1>c, <1>d, <1>6 DEF RemoveClose, DeviceUnchanged, Goto, tableVars,
       productionVars, ioVars
<1>7. ASSUME NEW a \in Threads, StopProductionThread(a) PROVE Goal
  <2>1. /\ UNCHANGED <<connections, next_connection_id, cur, snapshot>>
        /\ at' = [at EXCEPT ![a] = "join"]
        /\ held' = [held EXCEPT ![a] = {cur[a]} \cap production_threads]
    BY <1>7 DEF StopProductionThread, Goto, tableVars
  <2>2. production_threads \subseteq ConnIds
    BY <1>a DEF TypeInv, TypeOK, ProductionTypeOK
  <2>3. RefInv'
    BY <1>a, <1>b, <2>1, <2>2 DEF ConnIds
  <2>4. FreshInv'
    BY <1>b, <1>c, <1>7, <2>1 DEF StopProductionThread
  <2>5. QED
    BY <2>3, <2>4
<1>8. ASSUME NEW a \in Threads, JoinProductionThread(a) PROVE Goal
  <2>1. /\ UNCHANGED <<connections, next_connection_id, snapshot>>
        /\ cur' = [cur EXCEPT ![a] = NoConn] /\ held' = [held EXCEPT ![a] = {}]
        /\ at'[a] # "insert" /\ \A b \in Threads : b # a => at'[b] = at[b]
    BY <1>b, <1>8 DEF JoinProductionThread, Goto, tableVars
  <2>2. QED
    BY <1>a, <1>b, <1>c, <1>e, <2>1 DEF NoConn
<1>9. ASSUME NEW a \in Clients, OnEstablished(a) PROVE Goal
  BY <1>a, <1>b, <1>c, <1>d, <1>9 DEF OnEstablished, Goto, tableVars, productionVars,
       ioVars
<1>10. ASSUME NEW a \in Clients, StartLookup(a) PROVE Goal
  BY <1>a, <1>b, <1>c, <1>d, <1>10 DEF StartLookup, Goto, tableVars, productionVars,
       ioVars
<1>11. ASSUME NEW a \in Clients, StartThread(a) PROVE Goal
  BY <1>a, <1>b, <1>c, <1>d, <1>11 DEF StartThread, Goto, tableVars, productionVars,
       ioVars
<1>12. ASSUME NEW a \in Clients, OpenedLookup(a) PROVE Goal
  <2>1. UNCHANGED <<connections, next_connection_id, held>>
    BY <1>12 DEF OpenedLookup, tableVars, productionVars
  <2>2. CASE Reply(a) /\ UNCHANGED snapshot
    BY <1>a, <1>b, <1>c, <1>e, <2>1, <2>2 DEF Reply, Goto, NoConn
  <2>3. CASE /\ \E c \in Unbound : snapshot' = [snapshot EXCEPT ![a] = {c}]
             /\ Goto(a, "bind")
             /\ UNCHANGED <<cur, answered>>
    <3>1. PICK c \in connections : snapshot' = [snapshot EXCEPT ![a] = {c}]
      BY <2>3 DEF Unbound
    <3>2. at' = [at EXCEPT ![a] = "bind"] /\ cur' = cur
      BY <2>3 DEF Goto
    <3>3. QED
      BY <1>a, <1>b, <1>c, <2>1, <3>1, <3>2
  <2>4. QED
    BY <1>12, <2>2, <2>3 DEF OpenedLookup
<1>13. ASSUME NEW a \in Clients, OpenedBind(a) PROVE Goal
  <2>1. /\ UNCHANGED <<connections, next_connection_id, held>>
        /\ cur' = [cur EXCEPT ![a] = NoConn] /\ snapshot' = [snapshot EXCEPT ![a] = {}]
        /\ at' = [at EXCEPT ![a] = "idle"]
    BY <1>13 DEF OpenedBind, Reply, Goto, tableVars, productionVars
  <2>2. QED
    BY <1>a, <1>b, <1>c, <1>e, <2>1 DEF NoConn
<1>14. ASSUME NEW c \in ConnIds, Produce(c) PROVE Goal
  BY <1>a, <1>b, <1>c, <1>d, <1>14 DEF Produce, ProducerWake, ProduceIoData, managerVars,
       Goto, tableVars, productionVars, ioVars
<1>15. ASSUME NEW c \in ConnIds, NEW p \in Ports, UdpReceive(c, p) PROVE Goal
  <2>1. /\ UNCHANGED <<connections, next_connection_id, held, snapshot>>
        /\ c \in connections /\ cur' = [cur EXCEPT ![UdpThread] = c]
        /\ \A b \in Threads : b # UdpThread => at'[b] = at[b]
    BY <1>b, <1>15 DEF UdpReceive, Goto, tableVars, productionVars
  <2>2. QED
    BY <1>a, <1>b, <1>c, <1>d, <2>1
<1>16. ASSUME UdpLearn PROVE Goal
  BY <1>a, <1>b, <1>c, <1>d, <1>16 DEF UdpLearn, Goto, tableVars, productionVars, ioVars
<1>17. ASSUME UdpStamp PROVE Goal
  BY <1>a, <1>b, <1>c, <1>d, <1>17 DEF UdpStamp, Goto, tableVars, productionVars, ioVars
<1>18. ASSUME UdpConsume PROVE Goal
  <2>1. /\ UNCHANGED <<connections, next_connection_id, held, snapshot>>
        /\ cur' = [cur EXCEPT ![UdpThread] = NoConn]
        /\ \A b \in Threads : b # UdpThread => at'[b] = at[b]
    BY <1>b, <1>18 DEF UdpConsume, Goto, tableVars, productionVars
  <2>2. QED
    BY <1>a, <1>b, <1>c, <1>d, <1>e, <2>1 DEF NoConn
<1>19. ASSUME NEW c \in ConnIds, Elapse(c) PROVE Goal
  BY <1>a, <1>b, <1>c, <1>d, <1>19 DEF Elapse, managerVars, Goto, tableVars,
       productionVars, ioVars
<1>20. ASSUME WatchdogScan PROVE Goal
  BY <1>a, <1>b, <1>c, <1>d, <1>20 DEF WatchdogScan, WatchdogUnchanged, Goto, tableVars,
       productionVars, ioVars
<1>21. ASSUME NEW c \in ConnIds, WatchdogExpire(c) PROVE Goal
  BY <1>a, <1>b, <1>c, <1>d, <1>21 DEF WatchdogExpire, WatchdogUnchanged, Goto, tableVars,
       productionVars, ioVars
<1>22. ASSUME WatchdogSleep PROVE Goal
  BY <1>a, <1>b, <1>c, <1>d, <1>22 DEF WatchdogSleep, WatchdogUnchanged, Goto, tableVars,
       productionVars, ioVars
<1>23. ASSUME WatchdogStop PROVE Goal
  BY <1>a, <1>b, <1>c, <1>d, <1>23 DEF WatchdogStop, WatchdogUnchanged, Goto, tableVars,
       productionVars, ioVars
<1>24. ASSUME CloseBegin PROVE Goal
  BY <1>a, <1>b, <1>c, <1>d, <1>24 DEF CloseBegin, Goto, tableVars, productionVars, ioVars
<1>25. ASSUME StopProductionThreads PROVE Goal
  <2>1. /\ UNCHANGED <<connections, next_connection_id, cur, snapshot>>
        /\ held' = [held EXCEPT ![App] = production_threads]
        /\ \A b \in Threads : b # App => at'[b] = at[b]
    BY <1>b, <1>25 DEF StopProductionThreads, Goto, tableVars
  <2>2. production_threads \subseteq connections \cup {cur[b] : b \in {b \in Threads : StopPending(b)}}
    BY DEF ProducerInv, ProducerAccounted, RegisteredIsStopped, Covered
  <2>3. production_threads \subseteq 1..next_connection_id
    <3>1. production_threads \subseteq ConnIds
      BY <1>a DEF TypeInv, TypeOK, ProductionTypeOK
    <3>2. QED
      BY <1>a, <2>2, <3>1 DEF ConnIds
  <2>4. \A a \in Clients : at[a] = "insert" => cur[a] \notin production_threads
    BY <1>c, <2>2 DEF StopPending
  <2>5. QED
    BY <1>b, <1>c, <1>d, <2>1, <2>3, <2>4
<1>26. ASSUME CloseSnapshot PROVE Goal
  BY <1>a, <1>b, <1>c, <1>d, <1>26 DEF CloseSnapshot, Goto, tableVars, productionVars,
       ioVars
<1>27. ASSUME NEW c \in ConnIds, CloseRemove(c) PROVE Goal
  BY <1>a, <1>b, <1>c, <1>d, <1>27 DEF CloseRemove, Goto, tableVars, productionVars,
       ioVars
<1>28. ASSUME CloseTransports PROVE Goal
  BY <1>a, <1>b, <1>c, <1>d, <1>28 DEF CloseTransports, CloseAdvance, Goto, tableVars,
       productionVars, ioVars
<1>29. CASE UNCHANGED vars
  BY <1>29 DEF vars, managerVars, productionVars
<1>30. QED
  <2>1. ASSUME NEW a \in Threads, Removal(a) PROVE Goal
    BY <1>3, <1>4, <1>5, <1>6, <1>7, <1>8, <2>1 DEF Removal, Manager, ManagerStep
  <2>2. ASSUME NEW a \in Clients, Request(a) \/ Handler(a) PROVE Goal
    <3>1. a \in Threads
      BY DEF Threads
    <3>2. QED
      BY <1>1, <1>2, <1>9, <1>10, <1>11, <1>12, <1>13, <2>1, <2>2, <3>1 DEF Request, Handler
  <2>3. CASE WatchdogLoop \/ Close
    <3>1. Watchdog \in Threads /\ App \in Threads
      BY DEF Threads
    <3>2. QED
      BY <1>20, <1>21, <1>22, <1>23, <1>25, <1>26, <1>27, <1>28, <2>1, <2>3, <3>1 DEF
           WatchdogLoop, Close
  <2>4. CASE UdpHandler \/ CloseBegin \/ Quiescent
    BY <1>16, <1>17, <1>18, <1>24, <1>29, <2>4 DEF UdpHandler, Quiescent
  <2>5. QED
    BY <1>14, <1>15, <1>19, <1>29, <2>2, <2>3, <2>4 DEF Next

\* Whoever takes a connection out marks it NonExistent next.
LEMMA EstablishedStep ==
  TypeInv /\ RefInv /\ EstablishedInv /\ [Next]_vars => EstablishedInv'
<1> SUFFICES ASSUME TypeInv, RefInv, EstablishedInv, [Next]_vars PROVE EstablishedInv'
  OBVIOUS
<1> DEFINE Goal == EstablishedInv'
<1> USE DEF EstablishedInv
<1>a. /\ next_connection_id \in Nat /\ connections \subseteq 1..next_connection_id
      /\ state \in [ConnIds -> ConnectionState] /\ next_connection_id <= MaxOpens
  BY DEF TypeInv, TypeOK, TableTypeOK
<1>b. at \in [Threads -> Labels] /\ cur \in [Threads -> ConnIds \cup {NoConn}]
  BY DEF TypeInv, TypeOK, LabelTypeOK, RefTypeOK
<1>c. \A a \in Clients : a \in Threads /\ a # Watchdog /\ a # App /\ a # UdpThread
  BY DEF Threads
<1>d. Watchdog \in Threads /\ App \in Threads /\ UdpThread \in Threads
  BY DEF Threads
<1>1. ASSUME NEW a \in Clients, ForwardOpen(a) PROVE Goal
  BY <1>a, <1>b, <1>c, <1>d, <1>1 DEF ForwardOpen, ForwardOpenCheck, NewId,
       DeviceUnchanged, Goto, tableVars
<1>2. ASSUME NEW a \in Clients, ForwardClose(a) PROVE Goal
  BY <1>a, <1>b, <1>c, <1>d, <1>2 DEF ForwardClose, ForwardClosePop, DeviceUnchanged,
       Goto, tableVars
<1>3. ASSUME NEW a \in Threads, ForwardOpenInsert(a), DeviceUnchanged PROVE Goal
  BY <1>a, <1>b, <1>c, <1>d, <1>3 DEF ForwardOpenInsert, DeviceUnchanged, Goto, tableVars
<1>4. ASSUME NEW a \in Threads, TimeoutMark(a), DeviceUnchanged PROVE Goal
  BY <1>a, <1>b, <1>c, <1>d, <1>4 DEF TimeoutMark, DeviceUnchanged, Goto, tableVars
<1>5. ASSUME NEW a \in Threads, RemovePop(a), DeviceUnchanged PROVE Goal
  BY <1>a, <1>b, <1>c, <1>d, <1>5 DEF RemovePop, DeviceUnchanged, Goto, tableVars
<1>6. ASSUME NEW a \in Threads, RemoveClose(a), DeviceUnchanged PROVE Goal
  <2>1. cur[a] \in ConnIds
    BY <1>6 DEF RemoveClose, TypeInv, CurOK, LooseLabels, AppLabels
  <2>2. /\ UNCHANGED <<connections, next_connection_id, cur>>
        /\ state' = [state EXCEPT ![cur[a]] = "NonExistent"]
        /\ \A b \in Threads : b # a => at'[b] = at[b]
    BY <1>b, <1>6 DEF RemoveClose, Goto
  <2>3. SUFFICES ASSUME NEW c \in 1..next_connection_id, state'[c] = "Established"
                 PROVE  \/ c \in connections
                        \/ \E b \in Threads : cur[b] = c /\ at'[b] \in {"insert", "closing"}
    BY <2>2
  <2>4. c # cur[a] /\ state[c] = "Established"
    BY <1>a, <2>1, <2>2, <2>3 DEF ConnIds
  <2>5. QED
    BY <2>2, <2>4
<1>7. ASSUME NEW a \in Threads, StopProductionThread(a) PROVE Goal
  BY <1>a, <1>b, <1>c, <1>d, <1>7 DEF StopProductionThread, Goto, tableVars
<1>8. ASSUME NEW a \in Threads, JoinProductionThread(a) PROVE Goal
  BY <1>a, <1>b, <1>c, <1>d, <1>8 DEF JoinProductionThread, Goto, tableVars
<1>9. ASSUME NEW a \in Clients, OnEstablished(a) PROVE Goal
  BY <1>a, <1>b, <1>c, <1>d, <1>9 DEF OnEstablished, Goto, tableVars
<1>10. ASSUME NEW a \in Clients, StartLookup(a) PROVE Goal
  BY <1>a, <1>b, <1>c, <1>d, <1>10 DEF StartLookup, Goto, tableVars
<1>11. ASSUME NEW a \in Clients, StartThread(a) PROVE Goal
  BY <1>a, <1>b, <1>c, <1>d, <1>11 DEF StartThread, Goto, tableVars
<1>12. ASSUME NEW a \in Clients, OpenedLookup(a) PROVE Goal
  BY <1>a, <1>b, <1>c, <1>d, <1>12 DEF OpenedLookup, Reply, Unbound, Goto, tableVars
<1>13. ASSUME NEW a \in Clients, OpenedBind(a) PROVE Goal
  BY <1>a, <1>b, <1>c, <1>d, <1>13 DEF OpenedBind, Reply, Goto, tableVars
<1>14. ASSUME NEW c \in ConnIds, Produce(c) PROVE Goal
  BY <1>a, <1>b, <1>c, <1>d, <1>14 DEF Produce, ProducerWake, ProduceIoData, managerVars,
       Goto, tableVars
<1>15. ASSUME NEW c \in ConnIds, NEW p \in Ports, UdpReceive(c, p) PROVE Goal
  BY <1>a, <1>b, <1>c, <1>d, <1>15 DEF UdpReceive, Goto, tableVars
<1>16. ASSUME UdpLearn PROVE Goal
  BY <1>a, <1>b, <1>c, <1>d, <1>16 DEF UdpLearn, Goto, tableVars
<1>17. ASSUME UdpStamp PROVE Goal
  BY <1>a, <1>b, <1>c, <1>d, <1>17 DEF UdpStamp, Goto, tableVars
<1>18. ASSUME UdpConsume PROVE Goal
  BY <1>a, <1>b, <1>c, <1>d, <1>18 DEF UdpConsume, Goto, tableVars
<1>19. ASSUME NEW c \in ConnIds, Elapse(c) PROVE Goal
  BY <1>a, <1>b, <1>c, <1>d, <1>19 DEF Elapse, managerVars, Goto, tableVars
<1>20. ASSUME WatchdogScan PROVE Goal
  BY <1>a, <1>b, <1>c, <1>d, <1>20 DEF WatchdogScan, WatchdogUnchanged, Goto, tableVars
<1>21. ASSUME NEW c \in ConnIds, WatchdogExpire(c) PROVE Goal
  BY <1>a, <1>b, <1>c, <1>d, <1>21 DEF WatchdogExpire, WatchdogUnchanged, Goto, tableVars
<1>22. ASSUME WatchdogSleep PROVE Goal
  BY <1>a, <1>b, <1>c, <1>d, <1>22 DEF WatchdogSleep, WatchdogUnchanged, Goto, tableVars
<1>23. ASSUME WatchdogStop PROVE Goal
  BY <1>a, <1>b, <1>c, <1>d, <1>23 DEF WatchdogStop, WatchdogUnchanged, Goto, tableVars
<1>24. ASSUME CloseBegin PROVE Goal
  BY <1>a, <1>b, <1>c, <1>d, <1>24 DEF CloseBegin, Goto, tableVars
<1>25. ASSUME StopProductionThreads PROVE Goal
  BY <1>a, <1>b, <1>c, <1>d, <1>25 DEF StopProductionThreads, Goto, tableVars
<1>26. ASSUME CloseSnapshot PROVE Goal
  BY <1>a, <1>b, <1>c, <1>d, <1>26 DEF CloseSnapshot, Goto, tableVars
<1>27. ASSUME NEW c \in ConnIds, CloseRemove(c) PROVE Goal
  BY <1>a, <1>b, <1>c, <1>d, <1>27 DEF CloseRemove, Goto, tableVars
<1>28. ASSUME CloseTransports PROVE Goal
  <2>1. \E l \in AppLabels : Goto(App, l)
    BY <1>28 DEF CloseTransports, CloseAdvance, AppLabels
  <2>2. UNCHANGED <<connections, next_connection_id, state, cur>>
    BY <1>28 DEF CloseTransports, CloseAdvance, tableVars
  <2>3. at[App] \in AppLabels
    BY <1>28 DEF CloseTransports, CloseAdvance, AppLabels
  <2>4. \A b \in Threads : at[b] \in {"insert", "closing"} => at'[b] = at[b]
    BY <1>b, <2>1, <2>3 DEF Goto, AppLabels
  <2>5. QED
    BY <2>2, <2>4
<1>29. CASE UNCHANGED vars
  BY <1>29 DEF vars, managerVars
<1>30. QED
  <2>1. ASSUME NEW a \in Threads, Removal(a) PROVE Goal
    BY <1>3, <1>4, <1>5, <1>6, <1>7, <1>8, <2>1 DEF Removal, Manager, ManagerStep
  <2>2. ASSUME NEW a \in Clients, Request(a) \/ Handler(a) PROVE Goal
    <3>1. a \in Threads
      BY DEF Threads
    <3>2. QED
      BY <1>1, <1>2, <1>9, <1>10, <1>11, <1>12, <1>13, <2>1, <2>2, <3>1 DEF Request, Handler
  <2>3. CASE WatchdogLoop \/ Close
    <3>1. Watchdog \in Threads /\ App \in Threads
      BY DEF Threads
    <3>2. QED
      BY <1>20, <1>21, <1>22, <1>23, <1>25, <1>26, <1>27, <1>28, <2>1, <2>3, <3>1 DEF
           WatchdogLoop, Close
  <2>4. CASE UdpHandler \/ CloseBegin \/ Quiescent
    BY <1>16, <1>17, <1>18, <1>24, <1>29, <2>4 DEF UdpHandler, Quiescent
  <2>5. QED
    BY <1>14, <1>15, <1>19, <1>29, <2>2, <2>3, <2>4 DEF Next

\* Each connection is opened, and so started, by one client.
LEMMA StartStep ==
  ProducerInv /\ OpeningInv /\ RefInv /\ StartInv /\ [Next]_vars => StartInv'
<1> SUFFICES ASSUME ProducerInv, OpeningInv, RefInv, StartInv, [Next]_vars PROVE StartInv'
  OBVIOUS
<1> DEFINE Goal == StartInv'
<1> USE DEF StartInv
<1>a. TypeInv /\ next_connection_id \in Nat /\ producer \in [ConnIds -> Producing \cup {"none", "exited"}]
  BY DEF ProducerInv, TypeInv, TypeOK, TableTypeOK, ProductionTypeOK
<1>b. at \in [Threads -> Labels] /\ cur \in [Threads -> ConnIds \cup {NoConn}]
  BY <1>a DEF TypeInv, TypeOK, LabelTypeOK, RefTypeOK
<1>c. \A a \in Clients : a \in Threads /\ a # Watchdog /\ a # App /\ a # UdpThread
  BY DEF Threads
<1>d. Watchdog \in Threads /\ App \in Threads /\ UdpThread \in Threads
  BY DEF Threads
<1>1. ASSUME NEW a \in Clients, ForwardOpen(a) PROVE Goal
  BY <1>a, <1>b, <1>c, <1>d, <1>1 DEF ForwardOpen, ForwardOpenCheck, NewId,
       DeviceUnchanged, Goto, tableVars, productionVars
<1>2. ASSUME NEW a \in Clients, ForwardClose(a) PROVE Goal
  BY <1>a, <1>b, <1>c, <1>d, <1>2 DEF ForwardClose, ForwardClosePop, DeviceUnchanged,
       Goto, tableVars, productionVars
<1>3. ASSUME NEW a \in Threads, ForwardOpenInsert(a), DeviceUnchanged PROVE Goal
  BY <1>a, <1>b, <1>c, <1>d, <1>3 DEF ForwardOpenInsert, DeviceUnchanged, Goto, tableVars,
       productionVars
<1>4. ASSUME NEW a \in Threads, TimeoutMark(a), DeviceUnchanged PROVE Goal
  BY <1>a, <1>b, <1>c, <1>d, <1>4 DEF TimeoutMark, DeviceUnchanged, Goto, tableVars,
       productionVars
<1>5. ASSUME NEW a \in Threads, RemovePop(a), DeviceUnchanged PROVE Goal
  BY <1>a, <1>b, <1>c, <1>d, <1>5 DEF RemovePop, DeviceUnchanged, Goto, tableVars,
       productionVars
<1>6. ASSUME NEW a \in Threads, RemoveClose(a), DeviceUnchanged PROVE Goal
  BY <1>a, <1>b, <1>c, <1>d, <1>6 DEF RemoveClose, DeviceUnchanged, Goto, tableVars,
       productionVars
<1>7. ASSUME NEW a \in Threads, StopProductionThread(a) PROVE Goal
  BY <1>a, <1>b, <1>c, <1>d, <1>7 DEF StopProductionThread, Goto, tableVars,
       productionVars
<1>8. ASSUME NEW a \in Threads, JoinProductionThread(a) PROVE Goal
  BY <1>a, <1>b, <1>c, <1>d, <1>8 DEF JoinProductionThread, Goto, tableVars,
       productionVars
<1>9. ASSUME NEW a \in Clients, OnEstablished(a) PROVE Goal
  BY <1>a, <1>b, <1>c, <1>d, <1>9 DEF OnEstablished, Goto, tableVars, productionVars
<1>10. ASSUME NEW a \in Clients, StartLookup(a) PROVE Goal
  BY <1>a, <1>b, <1>c, <1>d, <1>10 DEF StartLookup, Goto, tableVars, productionVars
<1>11. ASSUME NEW a \in Clients, StartThread(a) PROVE Goal
  <2>1. /\ cur[a] \in 1..next_connection_id
        /\ \A b \in Clients : b # a /\ at[b] \in {"insert", "established", "start", "create"}
              => cur[b] # cur[a]
    BY <1>11 DEF StartThread, OpeningInv, Opening, OpenLabels
  <2>2. /\ UNCHANGED <<next_connection_id, cur>>
        /\ at' = [at EXCEPT ![a] = "opened"]
        /\ \A c \in ConnIds : c # cur[a] => producer'[c] = producer[c]
    BY <1>a, <1>11 DEF StartThread, Goto, tableVars
  <2>3. QED
    BY <1>b, <1>c, <2>1, <2>2
<1>12. ASSUME NEW a \in Clients, OpenedLookup(a) PROVE Goal
  BY <1>a, <1>b, <1>c, <1>d, <1>12 DEF OpenedLookup, Reply, Unbound, Goto, tableVars,
       productionVars
<1>13. ASSUME NEW a \in Clients, OpenedBind(a) PROVE Goal
  BY <1>a, <1>b, <1>c, <1>d, <1>13 DEF OpenedBind, Reply, Goto, tableVars, productionVars
<1>14. ASSUME NEW c \in ConnIds, Produce(c) PROVE Goal
  BY <1>a, <1>b, <1>c, <1>d, <1>14 DEF Produce, ProducerWake, ProduceIoData, managerVars,
       Goto, tableVars, productionVars
<1>15. ASSUME NEW c \in ConnIds, NEW p \in Ports, UdpReceive(c, p) PROVE Goal
  BY <1>a, <1>b, <1>c, <1>d, <1>15 DEF UdpReceive, Goto, tableVars, productionVars
<1>16. ASSUME UdpLearn PROVE Goal
  BY <1>a, <1>b, <1>c, <1>d, <1>16 DEF UdpLearn, Goto, tableVars, productionVars
<1>17. ASSUME UdpStamp PROVE Goal
  BY <1>a, <1>b, <1>c, <1>d, <1>17 DEF UdpStamp, Goto, tableVars, productionVars
<1>18. ASSUME UdpConsume PROVE Goal
  BY <1>a, <1>b, <1>c, <1>d, <1>18 DEF UdpConsume, Goto, tableVars, productionVars
<1>19. ASSUME NEW c \in ConnIds, Elapse(c) PROVE Goal
  BY <1>a, <1>b, <1>c, <1>d, <1>19 DEF Elapse, managerVars, Goto, tableVars,
       productionVars
<1>20. ASSUME WatchdogScan PROVE Goal
  BY <1>a, <1>b, <1>c, <1>d, <1>20 DEF WatchdogScan, WatchdogUnchanged, Goto, tableVars,
       productionVars
<1>21. ASSUME NEW c \in ConnIds, WatchdogExpire(c) PROVE Goal
  BY <1>a, <1>b, <1>c, <1>d, <1>21 DEF WatchdogExpire, WatchdogUnchanged, Goto, tableVars,
       productionVars
<1>22. ASSUME WatchdogSleep PROVE Goal
  BY <1>a, <1>b, <1>c, <1>d, <1>22 DEF WatchdogSleep, WatchdogUnchanged, Goto, tableVars,
       productionVars
<1>23. ASSUME WatchdogStop PROVE Goal
  BY <1>a, <1>b, <1>c, <1>d, <1>23 DEF WatchdogStop, WatchdogUnchanged, Goto, tableVars,
       productionVars
<1>24. ASSUME CloseBegin PROVE Goal
  BY <1>a, <1>b, <1>c, <1>d, <1>24 DEF CloseBegin, Goto, tableVars, productionVars
<1>25. ASSUME StopProductionThreads PROVE Goal
  BY <1>a, <1>b, <1>c, <1>d, <1>25 DEF StopProductionThreads, Goto, tableVars,
       productionVars
<1>26. ASSUME CloseSnapshot PROVE Goal
  BY <1>a, <1>b, <1>c, <1>d, <1>26 DEF CloseSnapshot, Goto, tableVars, productionVars
<1>27. ASSUME NEW c \in ConnIds, CloseRemove(c) PROVE Goal
  BY <1>a, <1>b, <1>c, <1>d, <1>27 DEF CloseRemove, Goto, tableVars, productionVars
<1>28. ASSUME CloseTransports PROVE Goal
  BY <1>a, <1>b, <1>c, <1>d, <1>28 DEF CloseTransports, CloseAdvance, Goto, tableVars,
       productionVars
<1>29. CASE UNCHANGED vars
  BY <1>29 DEF vars, managerVars, productionVars
<1>30. QED
  <2>1. ASSUME NEW a \in Threads, Removal(a) PROVE Goal
    BY <1>3, <1>4, <1>5, <1>6, <1>7, <1>8, <2>1 DEF Removal, Manager, ManagerStep
  <2>2. ASSUME NEW a \in Clients, Request(a) \/ Handler(a) PROVE Goal
    <3>1. a \in Threads
      BY DEF Threads
    <3>2. QED
      BY <1>1, <1>2, <1>9, <1>10, <1>11, <1>12, <1>13, <2>1, <2>2, <3>1 DEF Request, Handler
  <2>3. CASE WatchdogLoop \/ Close
    <3>1. Watchdog \in Threads /\ App \in Threads
      BY DEF Threads
    <3>2. QED
      BY <1>20, <1>21, <1>22, <1>23, <1>25, <1>26, <1>27, <1>28, <2>1, <2>3, <3>1 DEF
           WatchdogLoop, Close
  <2>4. CASE UdpHandler \/ CloseBegin \/ Quiescent
    BY <1>16, <1>17, <1>18, <1>24, <1>29, <2>4 DEF UdpHandler, Quiescent
  <2>5. QED
    BY <1>14, <1>15, <1>19, <1>29, <2>2, <2>3, <2>4 DEF Next

LifeInv ==
  ProducerInv /\ OpeningInv /\ RefInv /\ FreshInv /\ EstablishedInv /\ StartInv

Fresh(c) == c > next_connection_id \/ \E a \in Clients : at[a] = "insert" /\ cur[a] = c
Pending(c) == \E a \in Threads : RemovalPending(a, c)

\* What Phase comes to: its cases exclude each other.
Stage(c) == IF c \in connections THEN "open"
            ELSE IF Fresh(c) THEN "new"
            ELSE IF Pending(c) THEN "closing" ELSE "closed"

\* The first three cases of Phase exclude each other.
LEMMA FreshIsUnknown ==
  ASSUME LifeInv, NEW c \in ConnIds, Fresh(c)
  PROVE  c \notin connections /\ ~Pending(c)
<1> USE DEF LifeInv
<1>a. TypeInv /\ connections \subseteq 1..next_connection_id /\ next_connection_id \in Nat
  BY DEF ProducerInv, TypeInv, TypeOK, TableTypeOK
<1>b. Clients \subseteq Threads
  BY DEF Threads
<1>c. App \in Threads
  BY DEF Threads
<1>1. CASE c > next_connection_id
  BY <1>a, <1>c, <1>1 DEF RefInv, Pending, RemovalPending, Removing, ConnIds
<1>2. ASSUME NEW a \in Clients, at[a] = "insert", cur[a] = c
      PROVE  c \notin connections /\ ~Pending(c)
  BY <1>b, <1>c, <1>2 DEF FreshInv, Pending, RemovalPending, Removing
<1>3. QED
  BY <1>1, <1>2 DEF Fresh

PhasesAreStages == \A c \in ConnIds : Phase(c) = Stage(c)
ClosedAreSilent ==
  \A c \in ConnIds : producer[c] \in Producing => c \in connections \/ Pending(c)

\* So Phase may be read from the top.
LEMMA PhaseIsStage == LifeInv => PhasesAreStages
BY FreshIsUnknown DEF Phase, Stage, Fresh, Pending, PhasesAreStages

\* A connection is not closed while it produces.
LEMMA ClosedIsSilent == LifeInv => ClosedAreSilent
<1> SUFFICES ASSUME LifeInv, NEW c \in ConnIds, producer[c] \in Producing
             PROVE  c \in connections \/ Pending(c)
  BY DEF ClosedAreSilent
<1>1. c \in production_threads \/ \E a \in Threads : c \in held[a]
  BY DEF LifeInv, ProducerInv, ProducerAccounted, ThreadOwned
<1>2. production_threads \subseteq connections \cup {cur[a] : a \in {b \in Threads : StopPending(b)}}
  BY DEF LifeInv, ProducerInv, ProducerAccounted, RegisteredIsStopped, Covered
<1>3. QED
  BY <1>1, <1>2 DEF Pending, RemovalPending, Removing, StopPending

\* Both facts, of the next state.
LEMMA NextStages == LifeInv' => PhasesAreStages' /\ ClosedAreSilent'
BY PhaseIsStage, ClosedIsSilent, PTL

\* The steps of the lifecycle, told from the stages of all connections.
LifecycleStep == [Lifecycle!LifecycleNext]_(Lifecycle!lifecycleVars)

\* A step after which some closes have ended, and nothing else changed.
LEMMA ClosesEnd ==
  ASSUME LifeInv, LifeInv',
         \A c \in ConnIds : producer'[c] \in Producing <=> producer[c] \in Producing,
         \A c \in ConnIds : Stage(c)' # Stage(c) => Stage(c) = "closing" /\ Stage(c)' = "closed"
  PROVE  LifecycleStep
<1> DEFINE ended == {c \in ConnIds : Stage(c)' # Stage(c)}
<1>1. \A c \in ConnIds : Phase(c) = Stage(c) /\ Phase(c)' = Stage(c)'
  BY PhaseIsStage, NextStages DEF PhasesAreStages
<1>2. {c \in ConnIds : producer[c] \in Producing}' = {c \in ConnIds : producer[c] \in Producing}
  OBVIOUS
<1>3. CASE ended = {}
  BY <1>1, <1>2, <1>3 DEF LifecycleStep, Lifecycle!lifecycleVars
<1>4. CASE ended # {}
  <2>1. \A c \in ended : producer[c] \notin Producing
    BY NextStages DEF ClosedAreSilent, Stage
  <2>2. Lifecycle!EndClose(ended)
    BY <1>1, <1>2, <1>4, <2>1 DEF Lifecycle!EndClose
  <2>3. PICK c \in ended : TRUE
    BY <1>4
  <2>4. Lifecycle!CloseEnds(c)
    BY <2>2, <2>3 DEF Lifecycle!CloseEnds
  <2>5. QED
    BY <2>3, <2>4 DEF LifecycleStep, Lifecycle!LifecycleNext
<1>5. QED
  BY <1>3, <1>4

\* A step that opens one connection or begins to close it.
LEMMA PhaseAdvances ==
  ASSUME LifeInv, LifeInv', NEW c \in ConnIds,
         \A d \in ConnIds : producer'[d] \in Producing <=> producer[d] \in Producing,
         \A d \in ConnIds : d # c => Stage(d)' = Stage(d),
         \/ Stage(c) = "new" /\ Stage(c)' = "open"
         \/ Stage(c) = "open" /\ Stage(c)' = "closing"
  PROVE  LifecycleStep
<1>1. \A d \in ConnIds : Phase(d) = Stage(d) /\ Phase(d)' = Stage(d)'
  BY PhaseIsStage, NextStages DEF PhasesAreStages
<1>2. {d \in ConnIds : producer[d] \in Producing}' = {d \in ConnIds : producer[d] \in Producing}
  OBVIOUS
<1>3. Lifecycle!Open(c) \/ Lifecycle!BeginClose(c)
  BY <1>1, <1>2 DEF Lifecycle!Open, Lifecycle!BeginClose, Lifecycle!Advance
<1>4. QED
  BY <1>3 DEF LifecycleStep, Lifecycle!LifecycleNext

\* A step that starts or stops one producer.
LEMMA ProducerChanges ==
  ASSUME LifeInv, LifeInv', NEW c \in ConnIds,
         \A d \in ConnIds : Stage(d)' = Stage(d),
         \A d \in ConnIds : d # c => (producer'[d] \in Producing <=> producer[d] \in Producing),
         \/ producer[c] \in Producing /\ producer'[c] \notin Producing
         \/ /\ producer[c] \notin Producing /\ producer'[c] \in Producing
            /\ Stage(c) \in {"open", "closing"}
  PROVE  LifecycleStep
<1>1. \A d \in ConnIds : Phase(d) = Stage(d) /\ Phase(d)' = Stage(d)'
  BY PhaseIsStage, NextStages DEF PhasesAreStages
<1>2. Lifecycle!StartProducing(c) \/ Lifecycle!StopProducing(c)
  BY <1>1 DEF Lifecycle!StartProducing, Lifecycle!StopProducing
<1>3. QED
  BY <1>2 DEF LifecycleStep, Lifecycle!LifecycleNext

\* Steps that neither insert a connection nor take one out, nor hold on to one
\* that is closed: at most some closes end.
Quiet ==
  /\ UNCHANGED <<connections, next_connection_id>>
  /\ \A a \in Clients :
       /\ at'[a] = "insert" <=> at[a] = "insert"
       /\ at[a] = "insert" => cur'[a] = cur[a]
  /\ \A b \in Threads, c \in ConnIds :
       RemovalPending(b, c)' => RemovalPending(b, c) \/ Pending(c) \/ c \in connections

\* A quiet step moves a connection from closing to closed, or not at all.
LEMMA QuietStages ==
  ASSUME Quiet, NEW c \in ConnIds, Stage(c)' # Stage(c)
  PROVE  Stage(c) = "closing" /\ Stage(c)' = "closed"
<1>1. connections' = connections /\ (Fresh(c)' <=> Fresh(c))
  <2>1. ASSUME NEW a \in Clients
        PROVE  (at'[a] = "insert" /\ cur'[a] = c) <=> (at[a] = "insert" /\ cur[a] = c)
    <3>1. /\ at'[a] = "insert" <=> at[a] = "insert"
          /\ at[a] = "insert" => cur'[a] = cur[a]
      BY DEF Quiet
    <3>2. QED
      BY <3>1
  <2>2. UNCHANGED <<connections, next_connection_id>>
    BY DEF Quiet
  <2>3. QED
    BY <2>1, <2>2 DEF Fresh
<1>2. c \notin connections => (Pending(c)' => Pending(c))
  BY DEF Quiet, Pending
<1>3. QED
  BY <1>1, <1>2 DEF Stage

\* Quiet steps that leave the producers alone are lifecycle steps.
LEMMA QuietStep ==
  ASSUME LifeInv, LifeInv', Quiet,
         \A c \in ConnIds : producer'[c] \in Producing <=> producer[c] \in Producing
  PROVE  LifecycleStep
BY QuietStages, ClosesEnd

\* One case per action; most are quiet.
LEMMA StepsAreLifecycleSteps == LifeInv /\ LifeInv' /\ [Next]_vars => LifecycleStep
<1> SUFFICES ASSUME LifeInv, LifeInv', [Next]_vars PROVE LifecycleStep
  OBVIOUS
<1> DEFINE Goal == LifecycleStep
<1>a. /\ TypeInv /\ connections \subseteq 1..next_connection_id /\ next_connection_id \in Nat
      /\ connections \subseteq ConnIds
  BY DEF LifeInv, ProducerInv, TypeInv, TypeOK, TableTypeOK, ConnIds
<1>b. /\ at \in [Threads -> Labels] /\ cur \in [Threads -> ConnIds \cup {NoConn}]
      /\ snapshot \in [Threads -> SUBSET ConnIds] /\ held \in [Threads -> SUBSET ConnIds]
  BY <1>a DEF TypeInv, TypeOK, LabelTypeOK, RefTypeOK, ProductionTypeOK
<1>c. \A a \in Clients : a \in Threads /\ a # Watchdog /\ a # App /\ a # UdpThread
  BY DEF Threads
<1>d. /\ Watchdog \in Threads /\ App \in Threads /\ UdpThread \in Threads
      /\ Watchdog # UdpThread /\ Watchdog # App /\ UdpThread # App
  BY DEF Threads
<1>1. ASSUME NEW a \in Clients, ForwardOpen(a) PROVE Goal
  <2>1. PICK t \in Triads, p \in Profiles : ForwardOpenCheck(a, t, p)
    BY <1>1 DEF ForwardOpen
  <2>2. /\ at[a] = "idle" /\ at' = [at EXCEPT ![a] = "insert"]
        /\ cur' = [cur EXCEPT ![a] = next_connection_id + 1]
        /\ next_connection_id' = next_connection_id + 1
        /\ UNCHANGED <<connections, snapshot, held, producer>>
    BY <1>1, <2>1 DEF ForwardOpen, ForwardOpenCheck, NewId, Goto, DeviceUnchanged, productionVars
  <2>3. ASSUME NEW d \in ConnIds PROVE Fresh(d)' <=> Fresh(d)
    <3>1. CASE d = next_connection_id + 1
      BY <1>a, <1>b, <1>c, <2>2, <3>1 DEF Fresh
    <3>2. CASE d # next_connection_id + 1
      <4>1. \A b \in Clients : (at'[b] = "insert" /\ cur'[b] = d) <=> (at[b] = "insert" /\ cur[b] = d)
        BY <1>b, <1>c, <2>2, <3>2
      <4>2. d > next_connection_id' <=> d > next_connection_id
        BY <1>a, <2>2, <3>2 DEF ConnIds
      <4>3. QED
        BY <4>1, <4>2 DEF Fresh
    <3>3. QED
      BY <3>1, <3>2
  <2>4. \A d \in ConnIds, b \in Threads : RemovalPending(b, d)' <=> RemovalPending(b, d)
    BY <1>b, <1>c, <2>2 DEF RemovalPending, Removing
  <2>5. \A d \in ConnIds : Stage(d)' = Stage(d)
    BY <2>2, <2>3, <2>4 DEF Stage, Pending
  <2>6. QED
    BY <2>2, <2>5, ClosesEnd
<1>2. ASSUME NEW a \in Clients, ForwardClose(a) PROVE Goal
  <2>1. PICK c \in connections : ForwardClosePop(a, c)
    BY <1>2 DEF ForwardClose
  <2>2. /\ at[a] = "idle" /\ at' = [at EXCEPT ![a] = "closing"]
        /\ cur' = [cur EXCEPT ![a] = c]
        /\ connections' = connections \ {c}
        /\ UNCHANGED <<next_connection_id, snapshot, held, producer>>
    BY <1>2, <2>1 DEF ForwardClose, ForwardClosePop, Goto, DeviceUnchanged, productionVars
  <2>3. c \in ConnIds /\ ~Fresh(c)
    BY <1>a, FreshIsUnknown
  <2>4. \A d \in ConnIds : Fresh(d)' <=> Fresh(d)
    <3>1. \A b \in Clients, d \in ConnIds :
            (at'[b] = "insert" /\ cur'[b] = d) <=> (at[b] = "insert" /\ cur[b] = d)
      BY <1>b, <1>c, <2>2
    <3>2. QED
      BY <2>2, <3>1 DEF Fresh
  <2>5. \A d \in ConnIds, b \in Threads :
          d # c => (RemovalPending(b, d)' <=> RemovalPending(b, d))
    BY <1>b, <1>c, <2>2 DEF RemovalPending, Removing
  <2>6. Pending(c)'
    BY <1>b, <1>c, <2>2 DEF Pending, RemovalPending, Removing
  <2>7. Stage(c) = "open" /\ Stage(c)' = "closing"
    BY <2>1, <2>2, <2>3, <2>4, <2>6 DEF Stage
  <2>8. \A d \in ConnIds : d # c => Stage(d)' = Stage(d)
    BY <2>2, <2>4, <2>5 DEF Stage, Pending
  <2>9. QED
    BY <2>2, <2>3, <2>7, <2>8, PhaseAdvances
<1>3. ASSUME NEW a \in Threads, ForwardOpenInsert(a), DeviceUnchanged PROVE Goal
  <2>1. a \in Clients /\ cur[a] \in ConnIds
    BY <1>a, <1>3 DEF ForwardOpenInsert, TypeInv, TypeOK, LabelTypeOK, CurOK, Threads, LooseLabels,
         AppLabels, UdpLabels, WatchdogLabels, RemovalLabels
  <2>2. /\ at[a] = "insert" /\ at' = [at EXCEPT ![a] = "established"]
        /\ connections' = connections \cup {cur[a]}
        /\ UNCHANGED <<cur, next_connection_id, snapshot, held, producer>>
    BY <1>3 DEF ForwardOpenInsert, Goto, DeviceUnchanged, productionVars
  <2>3. Fresh(cur[a]) /\ Stage(cur[a]) = "new" /\ Stage(cur[a])' = "open"
    <3>1. Fresh(cur[a])
      BY <2>1, <2>2 DEF Fresh
    <3>2. QED
      BY <2>1, <2>2, <3>1, FreshIsUnknown DEF Stage
  <2>4. \A d \in ConnIds : d # cur[a] => (Fresh(d)' <=> Fresh(d))
    <3>1. \A b \in Clients, d \in ConnIds : d # cur[a] =>
            ((at'[b] = "insert" /\ cur'[b] = d) <=> (at[b] = "insert" /\ cur[b] = d))
      BY <1>b, <1>c, <2>2
    <3>2. QED
      BY <2>2, <3>1 DEF Fresh
  <2>5. \A d \in ConnIds, b \in Threads : RemovalPending(b, d)' <=> RemovalPending(b, d)
    BY <1>b, <1>c, <2>2 DEF RemovalPending, Removing
  <2>6. \A d \in ConnIds : d # cur[a] => Stage(d)' = Stage(d)
    BY <2>2, <2>4, <2>5 DEF Stage, Pending
  <2>7. QED
    BY <2>1, <2>2, <2>3, <2>6, PhaseAdvances
<1>4. ASSUME NEW a \in Threads, TimeoutMark(a), DeviceUnchanged PROVE Goal
  <2>1. Quiet
    BY <1>a, <1>b, <1>c, <1>d, <1>4 DEF TimeoutMark, DeviceUnchanged, Goto, tableVars,
         productionVars, ioVars, Pending, RemovalPending, Removing, Quiet
  <2>2. producer' = producer
    BY <1>4 DEF TimeoutMark, DeviceUnchanged, productionVars
  <2>3. QED
    BY <2>1, <2>2, QuietStep
<1>5. ASSUME NEW a \in Threads, RemovePop(a), DeviceUnchanged PROVE Goal
  <2>1. cur[a] \in ConnIds
    BY <1>a, <1>5 DEF RemovePop, TypeInv, CurOK, LooseLabels, AppLabels
  <2>2. /\ at[a] = "pop" /\ at' = [at EXCEPT ![a] = "closing"]
        /\ connections' = connections \ {cur[a]}
        /\ UNCHANGED <<cur, next_connection_id, snapshot, held, producer>>
    BY <1>5 DEF RemovePop, Goto, DeviceUnchanged, productionVars
  <2>3. \A d \in ConnIds, b \in Threads : RemovalPending(b, d)' <=> RemovalPending(b, d)
    BY <1>b, <2>2 DEF RemovalPending, Removing
  <2>4. Pending(cur[a]) /\ ~Fresh(cur[a])
    <3>1. Pending(cur[a])
      BY <2>2 DEF Pending, RemovalPending, Removing
    <3>2. QED
      BY <2>1, <3>1, FreshIsUnknown
  <2>5. \A d \in ConnIds : Fresh(d)' <=> Fresh(d)
    <3>1. \A b \in Clients, d \in ConnIds :
            (at'[b] = "insert" /\ cur'[b] = d) <=> (at[b] = "insert" /\ cur[b] = d)
      BY <1>b, <1>c, <2>2
    <3>2. QED
      BY <2>2, <3>1 DEF Fresh
  <2>6. \A d \in ConnIds : d # cur[a] => Stage(d)' = Stage(d)
    BY <2>2, <2>3, <2>5 DEF Stage, Pending
  <2>7. Stage(cur[a])' = "closing"
    BY <2>1, <2>2, <2>3, <2>4, <2>5 DEF Stage, Pending
  <2>8. CASE cur[a] \in connections
    BY <2>1, <2>2, <2>6, <2>7, <2>8, PhaseAdvances DEF Stage
  <2>9. CASE cur[a] \notin connections
    <3>1. Stage(cur[a]) = "closing"
      BY <2>4, <2>9 DEF Stage
    <3>2. QED
      BY <2>2, <2>6, <2>7, <3>1, ClosesEnd
  <2>10. QED
    BY <2>8, <2>9
<1>6. ASSUME NEW a \in Threads, RemoveClose(a), DeviceUnchanged PROVE Goal
  <2>1. Quiet
    BY <1>a, <1>b, <1>c, <1>d, <1>6 DEF RemoveClose, DeviceUnchanged, Goto, tableVars,
         productionVars, ioVars, Pending, RemovalPending, Removing, Quiet
  <2>2. producer' = producer
    BY <1>6 DEF RemoveClose, DeviceUnchanged, productionVars
  <2>3. QED
    BY <2>1, <2>2, QuietStep
<1>7. ASSUME NEW a \in Threads, StopProductionThread(a) PROVE Goal
  <2>1. Quiet
    BY <1>a, <1>b, <1>c, <1>d, <1>7 DEF StopProductionThread, Goto, tableVars,
         productionVars, ioVars, Pending, RemovalPending, Removing, Quiet
  <2>2. producer' = producer
    BY <1>7 DEF StopProductionThread, productionVars
  <2>3. QED
    BY <2>1, <2>2, QuietStep
<1>8. ASSUME NEW a \in Threads, JoinProductionThread(a) PROVE Goal
  <2>1. Quiet
    BY <1>a, <1>b, <1>c, <1>d, <1>8 DEF JoinProductionThread, Goto, tableVars,
         productionVars, ioVars, Pending, RemovalPending, Removing, Quiet
  <2>2. producer' = producer
    BY <1>8 DEF JoinProductionThread, productionVars
  <2>3. QED
    BY <2>1, <2>2, QuietStep
<1>9. ASSUME NEW a \in Clients, OnEstablished(a) PROVE Goal
  <2>1. Quiet
    BY <1>a, <1>b, <1>c, <1>d, <1>9 DEF OnEstablished, Goto, tableVars, productionVars,
         ioVars, Pending, RemovalPending, Removing, Quiet
  <2>2. producer' = producer
    BY <1>9 DEF OnEstablished, productionVars
  <2>3. QED
    BY <2>1, <2>2, QuietStep
<1>10. ASSUME NEW a \in Clients, StartLookup(a) PROVE Goal
  <2>1. Quiet
    BY <1>a, <1>b, <1>c, <1>d, <1>10 DEF StartLookup, Goto, tableVars, productionVars,
         ioVars, Pending, RemovalPending, Removing, Quiet
  <2>2. producer' = producer
    BY <1>10 DEF StartLookup, productionVars
  <2>3. QED
    BY <2>1, <2>2, QuietStep
<1>11. ASSUME NEW a \in Clients, StartThread(a) PROVE Goal
  <2>1. cur[a] \in ConnIds
    BY <1>a, <1>c, <1>11 DEF StartThread, TypeInv, CurOK, LooseLabels, AppLabels
  <2>2. /\ at[a] = "create" /\ at' = [at EXCEPT ![a] = "opened"]
        /\ producer' = [producer EXCEPT ![cur[a]] = "sleep"]
        /\ UNCHANGED <<cur, connections, next_connection_id, snapshot, held>>
    BY <1>11 DEF StartThread, Goto, tableVars
  <2>3. \A d \in ConnIds, b \in Threads : RemovalPending(b, d)' <=> RemovalPending(b, d)
    BY <1>b, <1>c, <2>2 DEF RemovalPending, Removing
  <2>4. \A d \in ConnIds : Fresh(d)' <=> Fresh(d)
    <3>1. \A b \in Clients, d \in ConnIds :
            (at'[b] = "insert" /\ cur'[b] = d) <=> (at[b] = "insert" /\ cur[b] = d)
      BY <1>b, <1>c, <2>2
    <3>2. QED
      BY <2>2, <3>1 DEF Fresh
  <2>5. \A d \in ConnIds : Stage(d)' = Stage(d)
    BY <2>2, <2>3, <2>4 DEF Stage, Pending
  <2>6. cur[a] \in connections \/ Pending(cur[a])
    BY <1>c, <2>2 DEF LifeInv, ProducerInv, CreateCovered, Covered, StopPending, Pending,
         RemovalPending, Removing
  <2>7. Stage(cur[a]) \in {"open", "closing"}
    BY <2>1, <2>6, FreshIsUnknown DEF Stage
  <2>8. producer[cur[a]] = "none" /\ producer \in [ConnIds -> Producing \cup {"none", "exited"}]
    BY <1>a, <2>1, <2>2 DEF LifeInv, StartInv, TypeInv, TypeOK, ProductionTypeOK
  <2>9. QED
    BY <2>1, <2>2, <2>5, <2>7, <2>8, ProducerChanges DEF Producing
<1>12. ASSUME NEW a \in Clients, OpenedLookup(a) PROVE Goal
  <2>1. Quiet
    BY <1>a, <1>b, <1>c, <1>d, <1>12 DEF OpenedLookup, Reply, Unbound, Goto, tableVars,
         productionVars, ioVars, Pending, RemovalPending, Removing, Quiet
  <2>2. producer' = producer
    BY <1>12 DEF OpenedLookup, Reply, Unbound, productionVars
  <2>3. QED
    BY <2>1, <2>2, QuietStep
<1>13. ASSUME NEW a \in Clients, OpenedBind(a) PROVE Goal
  <2>1. Quiet
    BY <1>a, <1>b, <1>c, <1>d, <1>13 DEF OpenedBind, Reply, Goto, tableVars,
         productionVars, ioVars, Pending, RemovalPending, Removing, Quiet
  <2>2. producer' = producer
    BY <1>13 DEF OpenedBind, Reply, productionVars
  <2>3. QED
    BY <2>1, <2>2, QuietStep
<1>14. ASSUME NEW c \in ConnIds, Produce(c) PROVE Goal
  <2>1. /\ UNCHANGED <<cur, at, connections, next_connection_id, snapshot, held>>
        /\ \/ producer[c] = "sleep" /\ producer'= [producer EXCEPT ![c] = "exited"]
           \/ producer[c] = "sleep" /\ producer'= [producer EXCEPT ![c] = "send"]
           \/ producer[c] = "send" /\ producer'= [producer EXCEPT ![c] = "sleep"]
    BY <1>14 DEF Produce, ProducerWake, ProduceIoData, managerVars
  <2>2. \A d \in ConnIds : Stage(d)' = Stage(d)
    BY <2>1 DEF Stage, Fresh, Pending, RemovalPending, Removing
  <2>3. producer \in [ConnIds -> Producing \cup {"none", "exited"}]
    BY <1>a DEF TypeInv, TypeOK, ProductionTypeOK
  <2>4. CASE producer'[c] = "exited"
    BY <2>1, <2>2, <2>3, <2>4, ProducerChanges DEF Producing
  <2>5. CASE producer'[c] # "exited"
    BY <2>1, <2>2, <2>3, <2>5, ClosesEnd DEF Producing
  <2>6. QED
    BY <2>4, <2>5
<1>15. ASSUME NEW c \in ConnIds, NEW p \in Ports, UdpReceive(c, p) PROVE Goal
  <2>1. Quiet
    BY <1>a, <1>b, <1>c, <1>d, <1>15 DEF UdpReceive, Goto, tableVars, productionVars,
         ioVars, Pending, RemovalPending, Removing, Quiet
  <2>2. producer' = producer
    BY <1>15 DEF UdpReceive, productionVars
  <2>3. QED
    BY <2>1, <2>2, QuietStep
<1>16. ASSUME UdpLearn PROVE Goal
  <2>1. Quiet
    BY <1>a, <1>b, <1>c, <1>d, <1>16 DEF UdpLearn, Goto, tableVars, productionVars,
         ioVars, Pending, RemovalPending, Removing, Quiet
  <2>2. producer' = producer
    BY <1>16 DEF UdpLearn, productionVars
  <2>3. QED
    BY <2>1, <2>2, QuietStep
<1>17. ASSUME UdpStamp PROVE Goal
  <2>1. Quiet
    BY <1>a, <1>b, <1>c, <1>d, <1>17 DEF UdpStamp, Goto, tableVars, productionVars,
         ioVars, Pending, RemovalPending, Removing, Quiet
  <2>2. producer' = producer
    BY <1>17 DEF UdpStamp, productionVars
  <2>3. QED
    BY <2>1, <2>2, QuietStep
<1>18. ASSUME UdpConsume PROVE Goal
  <2>1. Quiet
    BY <1>a, <1>b, <1>c, <1>d, <1>18 DEF UdpConsume, Goto, tableVars, productionVars,
         ioVars, Pending, RemovalPending, Removing, Quiet
  <2>2. producer' = producer
    BY <1>18 DEF UdpConsume, productionVars
  <2>3. QED
    BY <2>1, <2>2, QuietStep
<1>19. ASSUME NEW c \in ConnIds, Elapse(c) PROVE Goal
  <2>1. Quiet
    BY <1>a, <1>b, <1>c, <1>d, <1>19 DEF Elapse, managerVars, Goto, tableVars,
         productionVars, ioVars, Pending, RemovalPending, Removing, Quiet
  <2>2. producer' = producer
    BY <1>19 DEF Elapse, managerVars, productionVars
  <2>3. QED
    BY <2>1, <2>2, QuietStep
<1>20. ASSUME WatchdogScan PROVE Goal
  <2>1. Quiet
    BY <1>a, <1>b, <1>c, <1>d, <1>20 DEF WatchdogScan, WatchdogUnchanged, Goto, tableVars,
         productionVars, ioVars, Pending, RemovalPending, Removing, Quiet
  <2>2. producer' = producer
    BY <1>20 DEF WatchdogScan, WatchdogUnchanged, productionVars
  <2>3. QED
    BY <2>1, <2>2, QuietStep
<1>21. ASSUME NEW c \in ConnIds, WatchdogExpire(c) PROVE Goal
  <2>1. /\ at[Watchdog] = "scan" /\ c \in snapshot[Watchdog]
        /\ snapshot' = [snapshot EXCEPT ![Watchdog] = @ \ {c}]
        /\ UNCHANGED <<connections, next_connection_id, held, producer>>
    BY <1>21 DEF WatchdogExpire, WatchdogUnchanged, tableVars, productionVars
  <2>2. CASE ~TimeoutDue(c)
    <3>1. UNCHANGED <<cur, at>>
      BY <1>21, <2>2 DEF WatchdogExpire
    <3>2. Quiet
      BY <1>b, <1>d, <2>1, <3>1 DEF Quiet, RemovalPending, Removing
    <3>3. QED
      BY <2>1, <3>2, QuietStep
  <2>3. CASE TimeoutDue(c)
    <3>1. at' = [at EXCEPT ![Watchdog] = "expire"] /\ cur' = [cur EXCEPT ![Watchdog] = c]
      BY <1>21, <2>3 DEF WatchdogExpire, Goto
    <3>2. c \in connections \/ \E b \in Threads : cur[b] = c /\ at[b] \in {"insert", "closing"}
      BY <1>b, <1>d, <2>1, <2>3 DEF TimeoutDue, LifeInv, EstablishedInv, RefInv
    <3>3. ASSUME NEW b \in Threads, cur[b] = c, at[b] = "insert" PROVE FALSE
      <4>1. b \in Clients
        BY <1>a, <3>3 DEF TypeInv, TypeOK, LabelTypeOK, Threads, AppLabels, UdpLabels,
             WatchdogLabels, RemovalLabels
      <4>2. QED
        BY <1>d, <2>1, <3>3, <4>1 DEF LifeInv, FreshInv
    <3>4. c \in connections \/ Pending(c)
      BY <3>2, <3>3 DEF Pending, RemovalPending, Removing
    <3>5. \A b \in Threads, d \in ConnIds :
            RemovalPending(b, d)' => RemovalPending(b, d) \/ d = c
      BY <1>b, <1>d, <2>1, <3>1 DEF RemovalPending, Removing
    <3>6. Quiet
      BY <1>b, <1>c, <2>1, <3>1, <3>4, <3>5 DEF Quiet
    <3>7. QED
      BY <2>1, <3>6, QuietStep
  <2>4. QED
    BY <2>2, <2>3
<1>22. ASSUME WatchdogSleep PROVE Goal
  <2>1. Quiet
    BY <1>a, <1>b, <1>c, <1>d, <1>22 DEF WatchdogSleep, WatchdogUnchanged, Goto,
         tableVars, productionVars, ioVars, Pending, RemovalPending, Removing, Quiet
  <2>2. producer' = producer
    BY <1>22 DEF WatchdogSleep, WatchdogUnchanged, productionVars
  <2>3. QED
    BY <2>1, <2>2, QuietStep
<1>23. ASSUME WatchdogStop PROVE Goal
  <2>1. Quiet
    BY <1>a, <1>b, <1>c, <1>d, <1>23 DEF WatchdogStop, WatchdogUnchanged, Goto, tableVars,
         productionVars, ioVars, Pending, RemovalPending, Removing, Quiet
  <2>2. producer' = producer
    BY <1>23 DEF WatchdogStop, WatchdogUnchanged, productionVars
  <2>3. QED
    BY <2>1, <2>2, QuietStep
<1>24. ASSUME CloseBegin PROVE Goal
  <2>1. Quiet
    BY <1>a, <1>b, <1>c, <1>d, <1>24 DEF CloseBegin, Goto, tableVars, productionVars,
         ioVars, Pending, RemovalPending, Removing, Quiet
  <2>2. producer' = producer
    BY <1>24 DEF CloseBegin, productionVars
  <2>3. QED
    BY <2>1, <2>2, QuietStep
<1>25. ASSUME StopProductionThreads PROVE Goal
  <2>1. /\ UNCHANGED <<connections, next_connection_id, cur, snapshot, producer>>
        /\ held' = [held EXCEPT ![App] = production_threads]
        /\ at[App] = "stop watchdog" /\ at' = [at EXCEPT ![App] = "join producers"]
    BY <1>25 DEF StopProductionThreads, Goto, tableVars
  <2>2. \A d \in production_threads : d \in connections \/ Pending(d)
    BY DEF LifeInv, ProducerInv, ProducerAccounted, RegisteredIsStopped, Covered, StopPending,
         Pending, RemovalPending, Removing
  <2>3. \A b \in Threads, d \in ConnIds :
          RemovalPending(b, d)' => RemovalPending(b, d) \/ d \in production_threads
    BY <1>b, <1>d, <2>1 DEF RemovalPending, Removing
  <2>4. Quiet
    BY <1>b, <1>c, <2>1, <2>2, <2>3 DEF Quiet
  <2>5. QED
    BY <2>1, <2>4, QuietStep
<1>26. ASSUME CloseSnapshot PROVE Goal
  <2>1. Quiet
    BY <1>a, <1>b, <1>c, <1>d, <1>26 DEF CloseSnapshot, Goto, tableVars, productionVars,
         ioVars, Pending, RemovalPending, Removing, Quiet
  <2>2. producer' = producer
    BY <1>26 DEF CloseSnapshot, productionVars
  <2>3. QED
    BY <2>1, <2>2, QuietStep
<1>27. ASSUME NEW c \in ConnIds, CloseRemove(c) PROVE Goal
  <2>1. Quiet
    BY <1>a, <1>b, <1>c, <1>d, <1>27 DEF CloseRemove, Goto, tableVars, productionVars,
         ioVars, Pending, RemovalPending, Removing, Quiet
  <2>2. producer' = producer
    BY <1>27 DEF CloseRemove, productionVars
  <2>3. QED
    BY <2>1, <2>2, QuietStep
<1>28. ASSUME CloseTransports PROVE Goal
  <2>1. Quiet
    BY <1>a, <1>b, <1>c, <1>d, <1>28 DEF CloseTransports, CloseAdvance, Goto, tableVars,
         productionVars, ioVars, Pending, RemovalPending, Removing, Quiet
  <2>2. producer' = producer
    BY <1>28 DEF CloseTransports, CloseAdvance, productionVars
  <2>3. QED
    BY <2>1, <2>2, QuietStep
<1>29. CASE UNCHANGED vars
  <2>1. Quiet
    BY <1>29 DEF vars, managerVars, productionVars, Quiet, RemovalPending, Removing
  <2>2. producer' = producer
    BY <1>29 DEF vars, productionVars
  <2>3. QED
    BY <2>1, <2>2, QuietStep
<1>30. QED
  <2>1. ASSUME NEW a \in Threads, Removal(a) PROVE Goal
    BY <1>3, <1>4, <1>5, <1>6, <1>7, <1>8, <2>1 DEF Removal, Manager, ManagerStep
  <2>2. ASSUME NEW a \in Clients, Request(a) \/ Handler(a) PROVE Goal
    <3>1. a \in Threads
      BY DEF Threads
    <3>2. QED
      BY <1>1, <1>2, <1>9, <1>10, <1>11, <1>12, <1>13, <2>1, <2>2, <3>1 DEF Request, Handler
  <2>3. CASE WatchdogLoop \/ Close
    <3>1. Watchdog \in Threads /\ App \in Threads
      BY DEF Threads
    <3>2. QED
      BY <1>20, <1>21, <1>22, <1>23, <1>25, <1>26, <1>27, <1>28, <2>1, <2>3, <3>1 DEF
           WatchdogLoop, Close
  <2>4. CASE UdpHandler \/ CloseBegin \/ Quiescent
    BY <1>16, <1>17, <1>18, <1>24, <1>29, <2>4 DEF UdpHandler, Quiescent
  <2>5. QED
    BY <1>14, <1>15, <1>19, <1>29, <2>2, <2>3, <2>4 DEF Next

\* Seen from outside, every connection is opened once, produces only until it
\* is closed for good, and never comes back: the steps of the device, whoever
\* takes them, are steps of ConnectionLifecycle or leave it as it is.
THEOREM DeviceKeepsLifecycle ==
  Spec => Lifecycle!LifecycleInit /\ [][Lifecycle!LifecycleNext]_(Lifecycle!lifecycleVars)
<1>1. Init => LifeInv
  <2> SUFFICES ASSUME Init PROVE LifeInv
    OBVIOUS
  <2>1. ProducerInv
    BY ProducerInit
  <2>2. OpeningInv
    BY DEF Init, ManagerInit, OpeningInv, Opening, OpenLabels, Threads
  <2>3. RefInv /\ FreshInv /\ EstablishedInv /\ StartInv
    BY DEF Init, ManagerInit, RefInv, FreshInv, EstablishedInv, StartInv, Threads, NoConn
  <2>4. QED
    BY <2>1, <2>2, <2>3 DEF LifeInv
<1>2. LifeInv /\ [Next]_vars => LifeInv'
  <2>1. ProducerInv => TypeInv
    BY DEF ProducerInv
  <2>2. QED
    BY <2>1, ProducerStep, OpeningStep, ReferenceStep, EstablishedStep, StartStep DEF LifeInv
<1>3. Init => Lifecycle!LifecycleInit
  <2> SUFFICES ASSUME Init PROVE Lifecycle!LifecycleInit
    OBVIOUS
  <2>1. \A c \in ConnIds : Stage(c) = "new" /\ producer[c] \notin Producing
    BY DEF Init, ManagerInit, Stage, Fresh, ConnIds, Producing
  <2>2. \A c \in ConnIds : Phase(c) = "new"
    BY <1>1, <2>1, PhaseIsStage DEF PhasesAreStages
  <2>3. QED
    BY <2>1, <2>2 DEF Lifecycle!LifecycleInit
<1>4. LifeInv /\ LifeInv' /\ [Next]_vars => [Lifecycle!LifecycleNext]_(Lifecycle!lifecycleVars)
  BY StepsAreLifecycleSteps DEF LifecycleStep
<1>5. QED
  BY <1>1, <1>2, <1>3, <1>4, PTL DEF Spec
=============================================================================
