---------------------------- MODULE Safety_proofs ----------------------------
(***************************************************************************)
(* Proofs about a safety target.                                           *)
(*                                                                         *)
(* SafetyDevice, for any number of clients, connections, triads and        *)
(* configurations; from "The frames" on SafetyPair, what a safety          *)
(* connection promises of its frames, for any data lengths, time stamps    *)
(* and roll-over values, any number of frames in flight, and any number of *)
(* frames that are damaged or misrouted, each any number of times: nothing *)
(* is accepted that was not sent, and what arrives as it was sent is       *)
(* refused only in the Extended Format, for a roll-over count other than 0.*)
(***************************************************************************)
EXTENDS SafetyDevice, SafetyPair, TLAPS

\* A thread inside a handler refers to a connection that was allocated.
CurOK ==
  \A a \in Threads :
    /\ cur[a] \in 0..next_connection_id
    /\ at[a] # "idle" => cur[a] # NoConn

\* A connection that is not yet configured is a safety connection, and its
\* client is about to insert it.
StepOK ==
  \A a \in Clients : step[a] # "done" => at[a] = "insert" /\ IsSafety(cur[a])

RefOK == TypeOK /\ CurOK /\ StepOK

\* Threads that justify the stored SCID, and the stored owner: they open a safety
\* connection, or have yet to clear what they found.
Refers(a) == cur[a] # NoConn /\ IsSafety(cur[a])
KeepsScid(a) ==
  Refers(a) /\ at[a] \in {"insert", "closing", "callbacks", "forget", "detach", "erase",
                         "survey", "drop scid"}
KeepsOwner(a) == KeepsScid(a) \/ (Refers(a) /\ at[a] = "drop owner")

ScidSet == scid # NoConfiguration \/ scid_attribute # NoConfiguration

ScidAccounted ==
  ScidSet => SafetyOpen # {} \/ \E a \in Threads : KeepsScid(a)

OwnerAccounted ==
  cfunid # Nobody => SafetyOpen # {} \/ \E a \in Threads : KeepsOwner(a)

\* An instance points at a safety connection that was allocated, and no two at one.
InstancesOK ==
  /\ \A i \in ConnIds : instances[i] # NoConn =>
       instances[i] <= next_connection_id /\ IsSafety(instances[i])
  /\ \A i, j \in ConnIds : instances[i] = instances[j] /\ instances[i] # NoConn => i = j

\* A connection that is being opened is with one thread only, and has no instance
\* before its client stores one.
Unmade == {"owner", "scid", "id", "count", "instance"}
FreshOK ==
  /\ \A a, b \in Threads : a # b /\ at[a] = "insert" => cur[b] # cur[a]
  /\ \A a \in Threads : at[a] = "insert" => cur[a] \notin connections
  /\ \A a \in Clients : step[a] \in Unmade => \A i \in ConnIds : instances[i] # cur[a]

\* The reverse index leads to the instance, or its entry is still to be stored,
\* or a removal has read it and will clear the instance.
Linked(i) ==
  \/ conn_to_instance[instances[i]] = i
  \/ \E a \in Clients : step[a] = "index" /\ cur[a] = instances[i] /\ next_instance_id = i
  \/ \E a \in Threads : /\ cur[a] = instances[i] /\ instance_id[a] = i
                        /\ at[a] \in {"forget", "detach"}

\* An instance created alone is linked.
LinkOK ==
  /\ \A a \in Threads : at[a] = "forget" => conn_to_instance[cur[a]] \in {0, instance_id[a]}
  /\ \A a, b \in Clients : Creating(a) /\ Creating(b) /\ cur[a] \notin overlapped => a = b
  /\ \A a \in Clients : step[a] = "index" /\ cur[a] \notin overlapped =>
       \A i \in ConnIds : instances[i] = cur[a] => i = next_instance_id
  /\ \A i \in ConnIds : Apart(i) => Linked(i)

HeldOK == \A i \in ConnIds : Apart(i) => Attended(i)

ValidatorOK == InstancesOK /\ FreshOK /\ LinkOK /\ HeldOK

-----------------------------------------------------------------------------
\* The initial states satisfy the type invariant and the reference invariants.
LEMMA RefInit == Init => RefOK
  <1> SUFFICES ASSUME Init PROVE RefOK
    OBVIOUS
  <1>1. (CHOOSE i \in ConnInfo : TRUE) \in ConnInfo
    <2>1. PICK t \in Triads, p \in Profiles, a \in Clients : TRUE
      BY ManagerAssumption
    <2>2. [triad |-> t, profile |-> p, owner |-> a] \in ConnInfo
      BY <2>1 DEF ConnInfo
    <2> QED
      BY <2>2
  <1>2. TableTypeOK
    BY <1>1, ManagerAssumption DEF Init, ManagerInit, TableTypeOK, ConnectionState
  <1>3. LabelTypeOK
    BY DEF Init, ManagerInit, LabelTypeOK, Labels
  <1>4. OpeningTypeOK
    BY DEF Init, OpeningTypeOK, ConfigureSteps
  <1>5. SupervisorTypeOK /\ ValidatorTypeOK
    BY DEF Init, SupervisorTypeOK, ValidatorTypeOK, Segments
  <1>6. CurOK /\ StepOK
    BY DEF Init, ManagerInit, CurOK, StepOK, NoConn
  <1> QED
    BY <1>2, <1>3, <1>4, <1>5, <1>6 DEF RefOK, TypeOK

\* Every step preserves them.
LEMMA RefStep == RefOK /\ [Next]_vars => RefOK'
  <1> SUFFICES ASSUME RefOK, [Next]_vars PROVE RefOK'
    OBVIOUS
  <1>1. ASSUME NEW a \in Clients, NEW t \in Triads, NEW s \in Segments \cup {NotSafety},
                Validate(a, t, s),
                UNCHANGED watchdog_running
        PROVE  RefOK'
    <2> USE <1>1 DEF RefOK, TypeOK
    <2>1. OpeningTypeOK'
      BY DEF OpeningTypeOK, Requests, Validate
    <2>2. TableTypeOK' /\ LabelTypeOK' /\ SupervisorTypeOK' /\ ValidatorTypeOK'
      BY DEF TableTypeOK, LabelTypeOK, SupervisorTypeOK, ValidatorTypeOK, Validate,
          managerVars, supervisorVars, validatorVars, mapVars
    <2>3. CurOK'
      BY DEF CurOK, Validate, managerVars
    <2>4. StepOK'
      BY DEF StepOK, IsSafety, Validate, managerVars
    <2> QED
      BY <2>1, <2>2, <2>3, <2>4
  <1>2. ASSUME NEW a \in Clients, TriadInUse(a),
                UNCHANGED watchdog_running
        PROVE  RefOK'
    <2> USE <1>2 DEF RefOK, TypeOK
    <2>1. OpeningTypeOK'
      BY DEF OpeningTypeOK, TriadInUse
    <2>2. TableTypeOK' /\ LabelTypeOK' /\ SupervisorTypeOK' /\ ValidatorTypeOK'
      BY DEF TableTypeOK, LabelTypeOK, SupervisorTypeOK, ValidatorTypeOK, TriadInUse,
          managerVars, supervisorVars, validatorVars, mapVars
    <2>3. CurOK'
      BY DEF CurOK, TriadInUse, managerVars
    <2>4. StepOK'
      BY DEF StepOK, IsSafety, TriadInUse, managerVars
    <2> QED
      BY <2>1, <2>2, <2>3, <2>4
  <1>3. ASSUME NEW a \in Clients, Allocate(a),
                UNCHANGED watchdog_running
        PROVE  RefOK'
    <2> USE <1>3 DEF RefOK, TypeOK
    <2>1. TableTypeOK'
      <3>1. PICK p \in Profiles : ForwardOpenCheck(a, request[a].triad, p)
        BY DEF Allocate
      <3>2. request[a].triad \in Triads
        BY DEF Allocate, OpeningTypeOK, Requests
      <3>3. NewId \in ConnIds /\ next_connection_id' = NewId /\ connections' = connections
        BY <3>1 DEF TableTypeOK, ForwardOpenCheck, NewId, ConnIds
      <3>4. info' \in [ConnIds -> ConnInfo]
        BY <3>1, <3>2, <3>3 DEF TableTypeOK, ForwardOpenCheck, ConnInfo
      <3>5. state' \in [ConnIds -> ConnectionState]
        BY <3>1, <3>3 DEF TableTypeOK, ForwardOpenCheck, ConnectionState
      <3> QED
        BY <3>3, <3>4, <3>5 DEF TableTypeOK, ConnIds, NewId
    <2>2. LabelTypeOK'
      <3>1. PICK p \in Profiles : ForwardOpenCheck(a, request[a].triad, p)
        BY DEF Allocate
      <3>2. NewId \in ConnIds
        BY <3>1 DEF TableTypeOK, ForwardOpenCheck, NewId, ConnIds
      <3>3. a \in Threads
        BY DEF Threads
      <3> QED
        BY <3>1, <3>2, <3>3 DEF LabelTypeOK, Labels, ForwardOpenCheck, Goto
    <2>3. OpeningTypeOK'
      BY DEF OpeningTypeOK, Requests, ConfigureSteps, Allocate
    <2>4. SupervisorTypeOK' /\ ValidatorTypeOK'
      BY DEF SupervisorTypeOK, ValidatorTypeOK, Allocate, supervisorVars,
          validatorVars, mapVars
    <2>5. CurOK'
      BY DEF TableTypeOK, LabelTypeOK, CurOK, NoConn, Allocate, ForwardOpenCheck,
          NewId, Goto
    <2>6. StepOK'
      BY DEF TableTypeOK, LabelTypeOK, OpeningTypeOK, CurOK, StepOK, IsSafety,
          ConnIds, Threads, Allocate, ForwardOpenCheck, NewId, Goto
    <2> QED
      BY <2>1, <2>2, <2>3, <2>4, <2>5, <2>6
  <1>4. ASSUME NEW a \in Clients, ConfigureOwner(a),
                UNCHANGED watchdog_running
        PROVE  RefOK'
    <2> USE <1>4 DEF RefOK, TypeOK
    <2>1. OpeningTypeOK'
      BY DEF OpeningTypeOK, ConfigureSteps, ConfigureOwner, Configure
    <2>2. SupervisorTypeOK'
      BY DEF SupervisorTypeOK, ConfigureOwner
    <2>3. TableTypeOK' /\ LabelTypeOK' /\ ValidatorTypeOK'
      BY DEF TableTypeOK, LabelTypeOK, ValidatorTypeOK, ConfigureOwner, Configure,
          managerVars, validatorVars, mapVars
    <2>4. CurOK'
      BY DEF CurOK, ConfigureOwner, Configure, managerVars
    <2>5. StepOK'
      BY DEF StepOK, IsSafety, ConfigureOwner, Configure, managerVars
    <2> QED
      BY <2>1, <2>2, <2>3, <2>4, <2>5
  <1>5. ASSUME NEW a \in Clients, ConfigureScid(a),
                UNCHANGED watchdog_running
        PROVE  RefOK'
    <2> USE <1>5 DEF RefOK, TypeOK
    <2>1. OpeningTypeOK'
      BY DEF OpeningTypeOK, ConfigureSteps, ConfigureScid, Configure
    <2>2. SupervisorTypeOK'
      <3>1. a \in Threads /\ cur[a] \in ConnIds
        BY DEF ConfigureScid, Configure, LabelTypeOK, CurOK, Threads
      <3>2. step[a] # "done"
        BY DEF ConfigureScid, Configure
      <3>3. segment[cur[a]] \in Segments
        BY <3>1, <3>2 DEF StepOK, IsSafety, OpeningTypeOK
      <3> QED
        BY <3>3 DEF SupervisorTypeOK, ConfigureScid
    <2>3. TableTypeOK' /\ LabelTypeOK' /\ ValidatorTypeOK'
      BY DEF TableTypeOK, LabelTypeOK, ValidatorTypeOK, ConfigureScid, Configure,
          managerVars, validatorVars, mapVars
    <2>4. CurOK'
      BY DEF CurOK, ConfigureScid, Configure, managerVars
    <2>5. StepOK'
      BY DEF StepOK, IsSafety, ConfigureScid, Configure, managerVars
    <2> QED
      BY <2>1, <2>2, <2>3, <2>4, <2>5
  <1>6. ASSUME NEW a \in Clients, ReadInstanceId(a),
                UNCHANGED watchdog_running
        PROVE  RefOK'
    <2> USE <1>6 DEF RefOK, TypeOK
    <2>1. OpeningTypeOK'
      BY DEF OpeningTypeOK, ConfigureSteps, ReadInstanceId, Configure
    <2>2. ValidatorTypeOK'
      <3>1. \A b \in Midway(a) \cup {a} : cur[b] \in ConnIds
        BY DEF ReadInstanceId, Configure, Midway, Creating, StepOK, CurOK, LabelTypeOK, Threads
      <3>2. overlapped' \subseteq ConnIds
        BY <3>1 DEF ValidatorTypeOK, ReadInstanceId
      <3> QED
        BY <3>2 DEF ValidatorTypeOK, ReadInstanceId, mapVars, Threads, LabelTypeOK
    <2>3. TableTypeOK' /\ LabelTypeOK' /\ SupervisorTypeOK'
      BY DEF TableTypeOK, LabelTypeOK, SupervisorTypeOK, ReadInstanceId, Configure,
          managerVars, supervisorVars
    <2>4. CurOK'
      BY DEF CurOK, ReadInstanceId, Configure, managerVars
    <2>5. StepOK'
      BY DEF StepOK, IsSafety, ReadInstanceId, Configure, managerVars
    <2> QED
      BY <2>1, <2>2, <2>3, <2>4, <2>5
  <1>7. ASSUME NEW a \in Clients, NextInstanceId(a),
                UNCHANGED watchdog_running
        PROVE  RefOK'
    <2> USE <1>7 DEF RefOK, TypeOK
    <2>1. OpeningTypeOK'
      BY DEF OpeningTypeOK, ConfigureSteps, NextInstanceId, Configure
    <2>2. ValidatorTypeOK'
      BY DEF ValidatorTypeOK, NextInstanceId, mapVars, Threads
    <2>3. TableTypeOK' /\ LabelTypeOK' /\ SupervisorTypeOK'
      BY DEF TableTypeOK, LabelTypeOK, SupervisorTypeOK, NextInstanceId, Configure,
          managerVars, supervisorVars
    <2>4. CurOK'
      BY DEF CurOK, NextInstanceId, Configure, managerVars
    <2>5. StepOK'
      BY DEF StepOK, IsSafety, NextInstanceId, Configure, managerVars
    <2> QED
      BY <2>1, <2>2, <2>3, <2>4, <2>5
  <1>8. ASSUME NEW a \in Clients, CreateInstance(a),
                UNCHANGED watchdog_running
        PROVE  RefOK'
    <2> USE <1>8 DEF RefOK, TypeOK
    <2>1. OpeningTypeOK'
      BY DEF OpeningTypeOK, ConfigureSteps, CreateInstance, Configure
    <2>2. ValidatorTypeOK'
      BY DEF ValidatorTypeOK, CreateInstance, mapVars, Threads, LabelTypeOK
    <2>3. TableTypeOK' /\ LabelTypeOK' /\ SupervisorTypeOK'
      BY DEF TableTypeOK, LabelTypeOK, SupervisorTypeOK, CreateInstance, Configure,
          managerVars, supervisorVars
    <2>4. CurOK'
      BY DEF CurOK, CreateInstance, Configure, managerVars
    <2>5. StepOK'
      BY DEF StepOK, IsSafety, CreateInstance, Configure, managerVars
    <2> QED
      BY <2>1, <2>2, <2>3, <2>4, <2>5
  <1>9. ASSUME NEW a \in Clients, IndexInstance(a),
                UNCHANGED watchdog_running
        PROVE  RefOK'
    <2> USE <1>9 DEF RefOK, TypeOK
    <2>1. OpeningTypeOK'
      BY DEF OpeningTypeOK, ConfigureSteps, IndexInstance, Configure
    <2>2. ValidatorTypeOK'
      BY DEF ValidatorTypeOK, IndexInstance, mapVars, Threads, LabelTypeOK
    <2>3. TableTypeOK' /\ LabelTypeOK' /\ SupervisorTypeOK'
      BY DEF TableTypeOK, LabelTypeOK, SupervisorTypeOK, IndexInstance, Configure,
          managerVars, supervisorVars
    <2>4. CurOK'
      BY DEF CurOK, IndexInstance, Configure, managerVars
    <2>5. StepOK'
      BY DEF StepOK, IsSafety, IndexInstance, Configure, managerVars
    <2> QED
      BY <2>1, <2>2, <2>3, <2>4, <2>5
  <1>10. ASSUME NEW a \in Clients, Insert(a),
                UNCHANGED watchdog_running
        PROVE  RefOK'
    <2> USE <1>10 DEF RefOK, TypeOK
    <2>1. TableTypeOK'
      <3>1. cur[a] \in 1..next_connection_id
        BY DEF Insert, ForwardOpenInsert, CurOK, NoConn, Threads
      <3> QED
        BY <3>1 DEF TableTypeOK, Insert, ForwardOpenInsert
    <2>2. LabelTypeOK'
      BY DEF LabelTypeOK, Labels, Insert, ForwardOpenInsert, Goto
    <2>3. OpeningTypeOK' /\ SupervisorTypeOK' /\ ValidatorTypeOK'
      BY DEF OpeningTypeOK, SupervisorTypeOK, ValidatorTypeOK, Insert,
          SafetyUnchanged, openingVars, supervisorVars, validatorVars, mapVars
    <2>4. CurOK'
      BY DEF CurOK, Insert, ForwardOpenInsert, Goto
    <2>5. StepOK'
      BY DEF StepOK, IsSafety, Insert, ForwardOpenInsert, Goto, SafetyUnchanged,
          openingVars
    <2> QED
      BY <2>1, <2>2, <2>3, <2>4, <2>5
  <1>11. ASSUME NEW a \in Clients, Reply(a),
                UNCHANGED watchdog_running
        PROVE  RefOK'
    <2> USE <1>11 DEF RefOK, TypeOK
    <2>1. LabelTypeOK'
      BY DEF LabelTypeOK, Labels, Reply, Finish, Goto
    <2>2. TableTypeOK' /\ OpeningTypeOK' /\ SupervisorTypeOK' /\ ValidatorTypeOK'
      BY DEF TableTypeOK, OpeningTypeOK, SupervisorTypeOK, ValidatorTypeOK, Reply,
          Finish, SafetyUnchanged, tableVars, openingVars, supervisorVars,
          validatorVars, mapVars
    <2>3. CurOK'
      BY DEF TableTypeOK, LabelTypeOK, CurOK, NoConn, Reply, Finish, Goto, tableVars
    <2>4. StepOK'
      BY DEF StepOK, IsSafety, Reply, Finish, Goto, SafetyUnchanged, openingVars
    <2> QED
      BY <2>1, <2>2, <2>3, <2>4
  <1>12. ASSUME NEW a \in Clients, SafetyReset(a),
                UNCHANGED watchdog_running
        PROVE  RefOK'
    <2> USE <1>12 DEF RefOK, TypeOK
    <2>1. SupervisorTypeOK'
      BY DEF SupervisorTypeOK, Segments, SafetyReset
    <2>2. TableTypeOK' /\ LabelTypeOK' /\ OpeningTypeOK' /\ ValidatorTypeOK'
      BY DEF TableTypeOK, LabelTypeOK, OpeningTypeOK, ValidatorTypeOK, SafetyReset,
          managerVars, openingVars, validatorVars, mapVars
    <2>3. CurOK'
      BY DEF CurOK, SafetyReset, managerVars
    <2>4. StepOK'
      BY DEF StepOK, IsSafety, SafetyReset, managerVars, openingVars
    <2> QED
      BY <2>1, <2>2, <2>3, <2>4
  <1>13. ASSUME NEW a \in Clients, NEW c \in ConnIds, ForwardClose(a, c),
                UNCHANGED watchdog_running
        PROVE  RefOK'
    <2> USE <1>13 DEF RefOK, TypeOK
    <2>1. TableTypeOK'
      BY DEF TableTypeOK, ForwardClose, ForwardClosePop
    <2>2. LabelTypeOK'
      BY DEF LabelTypeOK, Labels, RemovalLabels, CallbackLabels, ForwardClose, ForwardClosePop, Goto
    <2>3. OpeningTypeOK' /\ SupervisorTypeOK' /\ ValidatorTypeOK'
      BY DEF OpeningTypeOK, SupervisorTypeOK, ValidatorTypeOK, ForwardClose,
          SafetyUnchanged, openingVars, supervisorVars, validatorVars, mapVars
    <2>4. CurOK'
      BY DEF TableTypeOK, LabelTypeOK, CurOK, NoConn, ForwardClose, ForwardClosePop,
          Goto
    <2>5. StepOK'
      BY DEF StepOK, IsSafety, ForwardClose, ForwardClosePop, Goto, SafetyUnchanged,
          openingVars
    <2> QED
      BY <2>1, <2>2, <2>3, <2>4, <2>5
  <1>14. ASSUME NEW c \in ConnIds, Decide(Watchdog, c, "expire"),
                UNCHANGED watchdog_running
        PROVE  RefOK'
    <2> USE <1>14 DEF RefOK, TypeOK
    <2>1. LabelTypeOK'
      BY DEF LabelTypeOK, Labels, RemovalLabels, CallbackLabels, Decide, Goto
    <2>2. TableTypeOK' /\ OpeningTypeOK' /\ SupervisorTypeOK' /\ ValidatorTypeOK'
      BY DEF TableTypeOK, OpeningTypeOK, SupervisorTypeOK, ValidatorTypeOK, Decide,
          SafetyUnchanged, tableVars, openingVars, supervisorVars, validatorVars, mapVars
    <2>3. CurOK'
      BY DEF TableTypeOK, LabelTypeOK, CurOK, NoConn, Decide, Goto, tableVars
    <2>4. StepOK'
      BY DEF StepOK, IsSafety, Decide, Goto, SafetyUnchanged, openingVars
    <2> QED
      BY <2>1, <2>2, <2>3, <2>4
  <1>15. ASSUME NEW c \in ConnIds, Decide(App, c, "pop"),
                UNCHANGED watchdog_running
        PROVE  RefOK'
    <2> USE <1>15 DEF RefOK, TypeOK
    <2>1. LabelTypeOK'
      BY DEF LabelTypeOK, Labels, RemovalLabels, CallbackLabels, Decide, Goto
    <2>2. TableTypeOK' /\ OpeningTypeOK' /\ SupervisorTypeOK' /\ ValidatorTypeOK'
      BY DEF TableTypeOK, OpeningTypeOK, SupervisorTypeOK, ValidatorTypeOK, Decide,
          SafetyUnchanged, tableVars, openingVars, supervisorVars, validatorVars, mapVars
    <2>3. CurOK'
      BY DEF TableTypeOK, LabelTypeOK, CurOK, NoConn, Decide, Goto, tableVars
    <2>4. StepOK'
      BY DEF StepOK, IsSafety, Decide, Goto, SafetyUnchanged, openingVars
    <2> QED
      BY <2>1, <2>2, <2>3, <2>4
  <1>16. ASSUME NEW a \in Threads, TimeoutMark(a), SafetyUnchanged,
                UNCHANGED watchdog_running
        PROVE  RefOK'
    <2> USE <1>16 DEF RefOK, TypeOK
    <2>1. TableTypeOK'
      BY DEF TableTypeOK, ConnectionState, TimeoutMark
    <2>2. LabelTypeOK'
      BY DEF LabelTypeOK, Labels, RemovalLabels, CallbackLabels, TimeoutMark, Goto
    <2>3. OpeningTypeOK' /\ SupervisorTypeOK' /\ ValidatorTypeOK'
      BY DEF OpeningTypeOK, SupervisorTypeOK, ValidatorTypeOK, SafetyUnchanged,
          openingVars, supervisorVars, validatorVars, mapVars
    <2>4. CurOK'
      BY DEF CurOK, TimeoutMark, Goto
    <2>5. StepOK'
      BY DEF StepOK, IsSafety, TimeoutMark, Goto, SafetyUnchanged, openingVars
    <2> QED
      BY <2>1, <2>2, <2>3, <2>4, <2>5
  <1>17. ASSUME NEW a \in Threads, RemovePop(a), SafetyUnchanged,
                UNCHANGED watchdog_running
        PROVE  RefOK'
    <2> USE <1>17 DEF RefOK, TypeOK
    <2>1. TableTypeOK'
      BY DEF TableTypeOK, RemovePop
    <2>2. LabelTypeOK'
      BY DEF LabelTypeOK, Labels, RemovalLabels, CallbackLabels, RemovePop, Goto
    <2>3. OpeningTypeOK' /\ SupervisorTypeOK' /\ ValidatorTypeOK'
      BY DEF OpeningTypeOK, SupervisorTypeOK, ValidatorTypeOK, SafetyUnchanged,
          openingVars, supervisorVars, validatorVars, mapVars
    <2>4. CurOK'
      BY DEF CurOK, RemovePop, Goto
    <2>5. StepOK'
      BY DEF StepOK, IsSafety, RemovePop, Goto, SafetyUnchanged, openingVars
    <2> QED
      BY <2>1, <2>2, <2>3, <2>4, <2>5
  <1>18. ASSUME NEW a \in Threads, RemoveClose(a), SafetyUnchanged,
                UNCHANGED watchdog_running
        PROVE  RefOK'
    <2> USE <1>18 DEF RefOK, TypeOK
    <2>1. TableTypeOK'
      BY DEF TableTypeOK, ConnectionState, RemoveClose
    <2>2. LabelTypeOK'
      BY DEF LabelTypeOK, Labels, RemovalLabels, CallbackLabels, RemoveClose, Goto
    <2>3. OpeningTypeOK' /\ SupervisorTypeOK' /\ ValidatorTypeOK'
      BY DEF OpeningTypeOK, SupervisorTypeOK, ValidatorTypeOK, SafetyUnchanged,
          openingVars, supervisorVars, validatorVars, mapVars
    <2>4. CurOK'
      BY DEF CurOK, RemoveClose, Goto
    <2>5. StepOK'
      BY DEF StepOK, IsSafety, RemoveClose, Goto, SafetyUnchanged, openingVars
    <2> QED
      BY <2>1, <2>2, <2>3, <2>4, <2>5
  <1>19. ASSUME NEW a \in Threads, FindInstance(a),
                UNCHANGED watchdog_running
        PROVE  RefOK'
    <2> USE <1>19 DEF RefOK, TypeOK
    <2>1. LabelTypeOK'
      BY DEF LabelTypeOK, Labels, RemovalLabels, CallbackLabels, FindInstance, Finish, Goto
    <2>2. ValidatorTypeOK'
      <3>1. cur[a] \in ConnIds
        BY DEF FindInstance, CurOK, LabelTypeOK
      <3> QED
        BY <3>1 DEF ValidatorTypeOK, FindInstance, mapVars
    <2>3. TableTypeOK' /\ OpeningTypeOK' /\ SupervisorTypeOK'
      BY DEF TableTypeOK, OpeningTypeOK, SupervisorTypeOK, FindInstance, Finish,
          tableVars, openingVars, supervisorVars
    <2>4. CurOK'
      BY DEF TableTypeOK, LabelTypeOK, CurOK, NoConn, FindInstance, Finish, Goto,
          tableVars
    <2>5. StepOK'
      BY DEF LabelTypeOK, StepOK, IsSafety, Threads, FindInstance, Finish, Goto,
          openingVars
    <2> QED
      BY <2>1, <2>2, <2>3, <2>4, <2>5
  <1>20. ASSUME NEW a \in Threads, ForgetInstance(a),
                UNCHANGED watchdog_running
        PROVE  RefOK'
    <2> USE <1>20 DEF RefOK, TypeOK
    <2>1. LabelTypeOK'
      BY DEF LabelTypeOK, Labels, RemovalLabels, CallbackLabels, ForgetInstance, Goto
    <2>2. ValidatorTypeOK'
      BY DEF ValidatorTypeOK, ForgetInstance
    <2>3. TableTypeOK' /\ OpeningTypeOK' /\ SupervisorTypeOK'
      BY DEF TableTypeOK, OpeningTypeOK, SupervisorTypeOK, ForgetInstance,
          tableVars, openingVars, supervisorVars
    <2>4. CurOK'
      BY DEF LabelTypeOK, CurOK, ForgetInstance, Goto, tableVars
    <2>5. StepOK'
      BY DEF LabelTypeOK, StepOK, IsSafety, Threads, ForgetInstance, Goto, openingVars
    <2> QED
      BY <2>1, <2>2, <2>3, <2>4, <2>5
  <1>21. ASSUME NEW a \in Threads, DetachInstance(a),
                UNCHANGED watchdog_running
        PROVE  RefOK'
    <2> USE <1>21 DEF RefOK, TypeOK, ClearInstance
    <2>1. LabelTypeOK'
      BY DEF LabelTypeOK, Labels, RemovalLabels, CallbackLabels, DetachInstance, Goto
    <2>2. ValidatorTypeOK'
      BY DEF ValidatorTypeOK, DetachInstance
    <2>3. TableTypeOK' /\ OpeningTypeOK' /\ SupervisorTypeOK'
      BY DEF TableTypeOK, OpeningTypeOK, SupervisorTypeOK, DetachInstance,
          tableVars, openingVars, supervisorVars
    <2>4. CurOK'
      BY DEF LabelTypeOK, CurOK, DetachInstance, Goto, tableVars
    <2>5. StepOK'
      BY DEF LabelTypeOK, StepOK, IsSafety, Threads, DetachInstance, Goto, openingVars
    <2> QED
      BY <2>1, <2>2, <2>3, <2>4, <2>5
  <1>22. ASSUME NEW a \in Threads, EraseInstance(a),
                UNCHANGED watchdog_running
        PROVE  RefOK'
    <2> USE <1>22 DEF RefOK, TypeOK, ClearInstance
    <2>1. LabelTypeOK'
      BY DEF LabelTypeOK, Labels, RemovalLabels, CallbackLabels, EraseInstance, Goto
    <2>2. ValidatorTypeOK'
      BY DEF ValidatorTypeOK, EraseInstance
    <2>3. TableTypeOK' /\ OpeningTypeOK' /\ SupervisorTypeOK'
      BY DEF TableTypeOK, OpeningTypeOK, SupervisorTypeOK, EraseInstance,
          tableVars, openingVars, supervisorVars
    <2>4. CurOK'
      BY DEF LabelTypeOK, CurOK, EraseInstance, Goto, tableVars
    <2>5. StepOK'
      BY DEF LabelTypeOK, StepOK, IsSafety, Threads, EraseInstance, Goto, openingVars
    <2> QED
      BY <2>1, <2>2, <2>3, <2>4, <2>5
  <1>23. ASSUME NEW a \in Threads, Survey(a),
                UNCHANGED watchdog_running
        PROVE  RefOK'
    <2> USE <1>23 DEF RefOK, TypeOK
    <2>1. LabelTypeOK'
      BY DEF LabelTypeOK, Labels, RemovalLabels, CallbackLabels, Survey, Finish, Goto
    <2>2. TableTypeOK' /\ OpeningTypeOK' /\ SupervisorTypeOK' /\ ValidatorTypeOK'
      BY DEF TableTypeOK, OpeningTypeOK, SupervisorTypeOK, ValidatorTypeOK, Survey,
          Finish, SafetyUnchanged, tableVars, openingVars, supervisorVars,
          validatorVars, mapVars
    <2>3. CurOK'
      <3>1. CASE AnySafetyLeft
        BY <3>1 DEF TableTypeOK, LabelTypeOK, CurOK, NoConn, Survey, Finish, Goto,
            tableVars
      <3>2. CASE ~AnySafetyLeft
        BY <3>2 DEF LabelTypeOK, CurOK, Survey, Goto, tableVars
      <3> QED
        BY <3>1, <3>2
    <2>4. StepOK'
      BY DEF LabelTypeOK, StepOK, IsSafety, Threads, Survey, Finish, Goto,
          SafetyUnchanged, openingVars
    <2> QED
      BY <2>1, <2>2, <2>3, <2>4
  <1>24. ASSUME NEW a \in Threads, DropScid(a),
                UNCHANGED watchdog_running
        PROVE  RefOK'
    <2> USE <1>24 DEF RefOK, TypeOK
    <2>1. LabelTypeOK'
      BY DEF LabelTypeOK, Labels, RemovalLabels, CallbackLabels, DropScid, Goto
    <2>2. SupervisorTypeOK'
      BY DEF SupervisorTypeOK, Segments, DropScid
    <2>3. TableTypeOK' /\ OpeningTypeOK' /\ ValidatorTypeOK'
      BY DEF TableTypeOK, OpeningTypeOK, ValidatorTypeOK, DropScid, tableVars,
          openingVars, validatorVars, mapVars
    <2>4. CurOK'
      BY DEF LabelTypeOK, CurOK, DropScid, Goto, tableVars
    <2>5. StepOK'
      BY DEF LabelTypeOK, StepOK, IsSafety, Threads, DropScid, Goto, openingVars
    <2> QED
      BY <2>1, <2>2, <2>3, <2>4, <2>5
  <1>25. ASSUME NEW a \in Threads, DropOwner(a),
                UNCHANGED watchdog_running
        PROVE  RefOK'
    <2> USE <1>25 DEF RefOK, TypeOK
    <2>1. LabelTypeOK'
      BY DEF LabelTypeOK, Labels, DropOwner, Finish, Goto
    <2>2. SupervisorTypeOK'
      BY DEF SupervisorTypeOK, DropOwner
    <2>3. TableTypeOK' /\ OpeningTypeOK' /\ ValidatorTypeOK'
      BY DEF TableTypeOK, OpeningTypeOK, ValidatorTypeOK, DropOwner, Finish,
          tableVars, openingVars, validatorVars, mapVars
    <2>4. CurOK'
      <3>1. cur' = [cur EXCEPT ![a] = NoConn] /\ at' = [at EXCEPT ![a] = "idle"]
        BY DEF DropOwner, Finish, Goto
      <3>2. next_connection_id' = next_connection_id
        BY DEF DropOwner, Finish, tableVars
      <3>3. next_connection_id \in Nat
        BY DEF TableTypeOK
      <3> QED
        BY <3>1, <3>2, <3>3 DEF LabelTypeOK, CurOK, NoConn
    <2>5. StepOK'
      BY DEF LabelTypeOK, StepOK, IsSafety, Threads, DropOwner, Finish, Goto,
          openingVars
    <2> QED
      BY <2>1, <2>2, <2>3, <2>4, <2>5
  <1>26. ASSUME CloseBegin
        PROVE  RefOK'
    <2> USE <1>26 DEF RefOK, TypeOK
    <2>1. OpeningTypeOK'
      BY DEF OpeningTypeOK, CloseBegin, SafetyUnchanged, openingVars
    <2>2. TableTypeOK' /\ LabelTypeOK' /\ SupervisorTypeOK' /\ ValidatorTypeOK'
      BY DEF TableTypeOK, LabelTypeOK, SupervisorTypeOK, ValidatorTypeOK, CloseBegin,
          SafetyUnchanged, managerVars, supervisorVars, validatorVars, mapVars
    <2>3. CurOK'
      BY DEF CurOK, CloseBegin, managerVars
    <2>4. StepOK'
      BY DEF StepOK, IsSafety, CloseBegin, SafetyUnchanged, managerVars, openingVars
    <2> QED
      BY <2>1, <2>2, <2>3, <2>4
  <1>27. ASSUME UNCHANGED vars
        PROVE  RefOK'
    <2> USE <1>27 DEF RefOK, TypeOK
    <2>1. TableTypeOK' /\ LabelTypeOK' /\ OpeningTypeOK' /\ SupervisorTypeOK' /\ ValidatorTypeOK'
      BY DEF TableTypeOK, LabelTypeOK, OpeningTypeOK, SupervisorTypeOK,
          ValidatorTypeOK, vars, managerVars, openingVars, supervisorVars,
          validatorVars, mapVars
    <2>2. CurOK'
      BY DEF CurOK, vars, managerVars
    <2>3. StepOK'
      BY DEF StepOK, IsSafety, vars, managerVars, openingVars
    <2> QED
      BY <2>1, <2>2, <2>3
  <1> QED
    BY <1>1, <1>2, <1>3, <1>4, <1>5, <1>6, <1>7, <1>8, <1>9, <1>10, <1>11, <1>12, <1>13, <1>14,
        <1>15, <1>16, <1>17, <1>18, <1>19, <1>20, <1>21, <1>22, <1>23, <1>24, <1>25, <1>26, <1>27
    DEF Next, Handlers, Open, Removed, Remove, RemoveInstance, Threads

\* The stored SCID stays accounted for.
LEMMA ScidStep == RefOK /\ ScidAccounted /\ [Next]_vars => ScidAccounted'
  <1> SUFFICES ASSUME RefOK, ScidAccounted, [Next]_vars PROVE ScidAccounted'
    OBVIOUS
  <1>1. ASSUME NEW a \in Clients, NEW t \in Triads, NEW s \in Segments \cup {NotSafety},
                Validate(a, t, s),
                UNCHANGED watchdog_running
        PROVE  ScidAccounted'
    <2>1. (ScidSet)' => ScidSet
      BY <1>1 DEF ScidSet, Validate, supervisorVars
    <2>2. ASSUME NEW d \in SafetyOpen PROVE d \in SafetyOpen' \/ KeepsScid(a)'
      BY <1>1, <2>2 DEF SafetyOpen, IsSafety, Validate, managerVars
    <2>3. ASSUME NEW b \in Threads, KeepsScid(b) PROVE KeepsScid(b)' \/ SafetyOpen' # {}
      BY <1>1, <2>3 DEF KeepsScid, Refers, IsSafety, Validate, managerVars
    <2> QED
      BY <2>1, <2>2, <2>3 DEF ScidAccounted, Threads
  <1>2. ASSUME NEW a \in Clients, TriadInUse(a),
                UNCHANGED watchdog_running
        PROVE  ScidAccounted'
    <2>1. (ScidSet)' => ScidSet
      BY <1>2 DEF ScidSet, TriadInUse, supervisorVars
    <2>2. ASSUME NEW d \in SafetyOpen PROVE d \in SafetyOpen' \/ KeepsScid(a)'
      BY <1>2, <2>2 DEF SafetyOpen, IsSafety, TriadInUse, managerVars
    <2>3. ASSUME NEW b \in Threads, KeepsScid(b) PROVE KeepsScid(b)' \/ SafetyOpen' # {}
      BY <1>2, <2>3 DEF KeepsScid, Refers, IsSafety, TriadInUse, managerVars
    <2> QED
      BY <2>1, <2>2, <2>3 DEF ScidAccounted, Threads
  <1>3. ASSUME NEW a \in Clients, Allocate(a),
                UNCHANGED watchdog_running
        PROVE  ScidAccounted'
    <2>1. (ScidSet)' => ScidSet
      BY <1>3 DEF ScidSet, Allocate, supervisorVars
    <2>2. ASSUME NEW d \in SafetyOpen PROVE d \in SafetyOpen' \/ KeepsScid(a)'
      BY <1>3, <2>2 DEF RefOK, TypeOK, TableTypeOK, LabelTypeOK, SafetyOpen, IsSafety,
          Threads, Allocate, ForwardOpenCheck, NewId, Goto
    <2>3. ASSUME NEW b \in Threads, KeepsScid(b) PROVE KeepsScid(b)' \/ SafetyOpen' # {}
      <3>1. b # a
        BY <1>3, <2>3 DEF Allocate, ForwardOpenCheck, KeepsScid
      <3>2. at'[b] = at[b] /\ cur'[b] = cur[b]
        BY <1>3, <3>1 DEF Allocate, ForwardOpenCheck, Goto
      <3>3. cur[b] # NewId
        BY DEF RefOK, TypeOK, TableTypeOK, CurOK, NewId
      <3>4. segment'[cur[b]] = segment[cur[b]]
        BY <1>3, <2>3, <3>3 DEF Allocate, RefOK, TypeOK, LabelTypeOK, OpeningTypeOK
      <3> QED
        BY <2>3, <3>2, <3>4 DEF KeepsScid, Refers, IsSafety
    <2> QED
      BY <2>1, <2>2, <2>3 DEF ScidAccounted, Threads
  <1>4. ASSUME NEW a \in Clients, ConfigureOwner(a),
                UNCHANGED watchdog_running
        PROVE  ScidAccounted'
    <2>1. (ScidSet)' => ScidSet
      BY <1>4 DEF ScidSet, ConfigureOwner
    <2>2. ASSUME NEW d \in SafetyOpen PROVE d \in SafetyOpen' \/ KeepsScid(a)'
      BY <1>4, <2>2 DEF SafetyOpen, IsSafety, ConfigureOwner, Configure, managerVars
    <2>3. ASSUME NEW b \in Threads, KeepsScid(b) PROVE KeepsScid(b)' \/ SafetyOpen' # {}
      BY <1>4, <2>3 DEF KeepsScid, Refers, IsSafety, ConfigureOwner, Configure,
          managerVars
    <2> QED
      BY <2>1, <2>2, <2>3 DEF ScidAccounted, Threads
  <1>5. ASSUME NEW a \in Clients, ConfigureScid(a),
                UNCHANGED watchdog_running
        PROVE  ScidAccounted'
    <2>1. KeepsScid(a)'
      BY <1>5 DEF RefOK, KeepsScid, Refers, CurOK, StepOK, IsSafety, Threads,
          ConfigureScid, Configure, managerVars
    <2> QED
      BY <2>1 DEF ScidAccounted, Threads
  <1>6. ASSUME NEW a \in Clients, ReadInstanceId(a),
                UNCHANGED watchdog_running
        PROVE  ScidAccounted'
    <2>1. (ScidSet)' => ScidSet
      BY <1>6 DEF ScidSet, ReadInstanceId, supervisorVars
    <2>2. ASSUME NEW d \in SafetyOpen PROVE d \in SafetyOpen' \/ KeepsScid(a)'
      BY <1>6, <2>2 DEF SafetyOpen, IsSafety, ReadInstanceId, Configure, managerVars
    <2>3. ASSUME NEW b \in Threads, KeepsScid(b) PROVE KeepsScid(b)' \/ SafetyOpen' # {}
      BY <1>6, <2>3 DEF KeepsScid, Refers, IsSafety, ReadInstanceId, Configure,
          managerVars
    <2> QED
      BY <2>1, <2>2, <2>3 DEF ScidAccounted, Threads
  <1>7. ASSUME NEW a \in Clients, NextInstanceId(a),
                UNCHANGED watchdog_running
        PROVE  ScidAccounted'
    <2>1. (ScidSet)' => ScidSet
      BY <1>7 DEF ScidSet, NextInstanceId, supervisorVars
    <2>2. ASSUME NEW d \in SafetyOpen PROVE d \in SafetyOpen' \/ KeepsScid(a)'
      BY <1>7, <2>2 DEF SafetyOpen, IsSafety, NextInstanceId, Configure, managerVars
    <2>3. ASSUME NEW b \in Threads, KeepsScid(b) PROVE KeepsScid(b)' \/ SafetyOpen' # {}
      BY <1>7, <2>3 DEF KeepsScid, Refers, IsSafety, NextInstanceId, Configure,
          managerVars
    <2> QED
      BY <2>1, <2>2, <2>3 DEF ScidAccounted, Threads
  <1>8. ASSUME NEW a \in Clients, CreateInstance(a),
                UNCHANGED watchdog_running
        PROVE  ScidAccounted'
    <2>1. (ScidSet)' => ScidSet
      BY <1>8 DEF ScidSet, CreateInstance, supervisorVars
    <2>2. ASSUME NEW d \in SafetyOpen PROVE d \in SafetyOpen' \/ KeepsScid(a)'
      BY <1>8, <2>2 DEF SafetyOpen, IsSafety, CreateInstance, Configure, managerVars
    <2>3. ASSUME NEW b \in Threads, KeepsScid(b) PROVE KeepsScid(b)' \/ SafetyOpen' # {}
      BY <1>8, <2>3 DEF KeepsScid, Refers, IsSafety, CreateInstance, Configure,
          managerVars
    <2> QED
      BY <2>1, <2>2, <2>3 DEF ScidAccounted, Threads
  <1>9. ASSUME NEW a \in Clients, IndexInstance(a),
                UNCHANGED watchdog_running
        PROVE  ScidAccounted'
    <2>1. (ScidSet)' => ScidSet
      BY <1>9 DEF ScidSet, IndexInstance, supervisorVars
    <2>2. ASSUME NEW d \in SafetyOpen PROVE d \in SafetyOpen' \/ KeepsScid(a)'
      BY <1>9, <2>2 DEF SafetyOpen, IsSafety, IndexInstance, Configure, managerVars
    <2>3. ASSUME NEW b \in Threads, KeepsScid(b) PROVE KeepsScid(b)' \/ SafetyOpen' # {}
      BY <1>9, <2>3 DEF KeepsScid, Refers, IsSafety, IndexInstance, Configure,
          managerVars
    <2> QED
      BY <2>1, <2>2, <2>3 DEF ScidAccounted, Threads
  <1>10. ASSUME NEW a \in Clients, Insert(a),
                UNCHANGED watchdog_running
        PROVE  ScidAccounted'
    <2>1. (ScidSet)' => ScidSet
      BY <1>10 DEF ScidSet, Insert, SafetyUnchanged, supervisorVars
    <2>2. ASSUME NEW d \in SafetyOpen PROVE d \in SafetyOpen' \/ KeepsScid(a)'
      BY <1>10, <2>2 DEF SafetyOpen, IsSafety, Insert, ForwardOpenInsert,
          SafetyUnchanged, openingVars
    <2>3. ASSUME NEW b \in Threads, KeepsScid(b) PROVE KeepsScid(b)' \/ SafetyOpen' # {}
      BY <1>10, <2>3 DEF RefOK, TypeOK, KeepsScid, Refers, LabelTypeOK, SafetyOpen,
          IsSafety, Insert, ForwardOpenInsert, Goto, SafetyUnchanged, openingVars
    <2> QED
      BY <2>1, <2>2, <2>3 DEF ScidAccounted, Threads
  <1>11. ASSUME NEW a \in Clients, Reply(a),
                UNCHANGED watchdog_running
        PROVE  ScidAccounted'
    <2>1. (ScidSet)' => ScidSet
      BY <1>11 DEF ScidSet, Reply, SafetyUnchanged, supervisorVars
    <2>2. ASSUME NEW d \in SafetyOpen PROVE d \in SafetyOpen' \/ KeepsScid(a)'
      BY <1>11, <2>2 DEF SafetyOpen, IsSafety, Reply, Finish, SafetyUnchanged,
          tableVars, openingVars
    <2>3. ASSUME NEW b \in Threads, KeepsScid(b) PROVE KeepsScid(b)' \/ SafetyOpen' # {}
      BY <1>11, <2>3 DEF RefOK, TypeOK, KeepsScid, Refers, LabelTypeOK, IsSafety,
          Reply, Finish, Goto, SafetyUnchanged, openingVars
    <2> QED
      BY <2>1, <2>2, <2>3 DEF ScidAccounted, Threads
  <1>12. ASSUME NEW a \in Clients, SafetyReset(a),
                UNCHANGED watchdog_running
        PROVE  ScidAccounted'
    <2>1. (ScidSet)' => ScidSet
      BY <1>12 DEF ScidSet, SafetyReset
    <2>2. ASSUME NEW d \in SafetyOpen PROVE d \in SafetyOpen' \/ KeepsScid(a)'
      BY <1>12, <2>2 DEF SafetyOpen, IsSafety, SafetyReset, managerVars, openingVars
    <2>3. ASSUME NEW b \in Threads, KeepsScid(b) PROVE KeepsScid(b)' \/ SafetyOpen' # {}
      BY <1>12, <2>3 DEF KeepsScid, Refers, IsSafety, SafetyReset, managerVars,
          openingVars
    <2> QED
      BY <2>1, <2>2, <2>3 DEF ScidAccounted, Threads
  <1>13. ASSUME NEW a \in Clients, NEW c \in ConnIds, ForwardClose(a, c),
                UNCHANGED watchdog_running
        PROVE  ScidAccounted'
    <2>1. (ScidSet)' => ScidSet
      BY <1>13 DEF ScidSet, ForwardClose, SafetyUnchanged, supervisorVars
    <2>2. ASSUME NEW d \in SafetyOpen PROVE d \in SafetyOpen' \/ KeepsScid(a)'
      BY <1>13, <2>2 DEF RefOK, TypeOK, KeepsScid, Refers, LabelTypeOK, SafetyOpen,
          IsSafety, ConnIds, NoConn, Threads, ForwardClose, ForwardClosePop, Goto,
          SafetyUnchanged, openingVars
    <2>3. ASSUME NEW b \in Threads, KeepsScid(b) PROVE KeepsScid(b)' \/ SafetyOpen' # {}
      BY <1>13, <2>3 DEF RefOK, TypeOK, KeepsScid, Refers, LabelTypeOK, IsSafety,
          ForwardClose, ForwardClosePop, Goto, SafetyUnchanged, openingVars
    <2> QED
      BY <2>1, <2>2, <2>3 DEF ScidAccounted, Threads
  <1>14. ASSUME NEW c \in ConnIds, Decide(Watchdog, c, "expire"),
                UNCHANGED watchdog_running
        PROVE  ScidAccounted'
    <2>1. (ScidSet)' => ScidSet
      BY <1>14 DEF ScidSet, Decide, SafetyUnchanged, supervisorVars
    <2>2. ASSUME NEW d \in SafetyOpen PROVE d \in SafetyOpen'
      BY <1>14, <2>2 DEF SafetyOpen, IsSafety, Decide, SafetyUnchanged, tableVars,
          openingVars
    <2>3. ASSUME NEW b \in Threads, KeepsScid(b) PROVE KeepsScid(b)' \/ SafetyOpen' # {}
      BY <1>14, <2>3 DEF RefOK, TypeOK, KeepsScid, Refers, LabelTypeOK, IsSafety,
          Decide, Goto, SafetyUnchanged, openingVars
    <2> QED
      BY <2>1, <2>2, <2>3 DEF ScidAccounted
  <1>15. ASSUME NEW c \in ConnIds, Decide(App, c, "pop"),
                UNCHANGED watchdog_running
        PROVE  ScidAccounted'
    <2>1. (ScidSet)' => ScidSet
      BY <1>15 DEF ScidSet, Decide, SafetyUnchanged, supervisorVars
    <2>2. ASSUME NEW d \in SafetyOpen PROVE d \in SafetyOpen'
      BY <1>15, <2>2 DEF SafetyOpen, IsSafety, Decide, SafetyUnchanged, tableVars,
          openingVars
    <2>3. ASSUME NEW b \in Threads, KeepsScid(b) PROVE KeepsScid(b)' \/ SafetyOpen' # {}
      BY <1>15, <2>3 DEF RefOK, TypeOK, KeepsScid, Refers, LabelTypeOK, IsSafety,
          Decide, Goto, SafetyUnchanged, openingVars
    <2> QED
      BY <2>1, <2>2, <2>3 DEF ScidAccounted
  <1>16. ASSUME NEW a \in Threads, TimeoutMark(a), SafetyUnchanged,
                UNCHANGED watchdog_running
        PROVE  ScidAccounted'
    <2>1. (ScidSet)' => ScidSet
      BY <1>16 DEF ScidSet, SafetyUnchanged, supervisorVars
    <2>2. ASSUME NEW d \in SafetyOpen PROVE d \in SafetyOpen' \/ KeepsScid(a)'
      BY <1>16, <2>2 DEF SafetyOpen, IsSafety, TimeoutMark, SafetyUnchanged,
          openingVars
    <2>3. ASSUME NEW b \in Threads, KeepsScid(b) PROVE KeepsScid(b)' \/ SafetyOpen' # {}
      BY <1>16, <2>3 DEF RefOK, TypeOK, KeepsScid, Refers, LabelTypeOK, IsSafety,
          TimeoutMark, Goto, SafetyUnchanged, openingVars
    <2> QED
      BY <2>1, <2>2, <2>3 DEF ScidAccounted
  <1>17. ASSUME NEW a \in Threads, RemovePop(a), SafetyUnchanged,
                UNCHANGED watchdog_running
        PROVE  ScidAccounted'
    <2>1. (ScidSet)' => ScidSet
      BY <1>17 DEF ScidSet, SafetyUnchanged, supervisorVars
    <2>2. ASSUME NEW d \in SafetyOpen PROVE d \in SafetyOpen' \/ KeepsScid(a)'
      BY <1>17, <2>2 DEF RefOK, TypeOK, KeepsScid, Refers, LabelTypeOK, CurOK,
          SafetyOpen, IsSafety, RemovePop, Goto, SafetyUnchanged, openingVars
    <2>3. ASSUME NEW b \in Threads, KeepsScid(b) PROVE KeepsScid(b)' \/ SafetyOpen' # {}
      BY <1>17, <2>3 DEF RefOK, TypeOK, KeepsScid, Refers, LabelTypeOK, IsSafety,
          RemovePop, Goto, SafetyUnchanged, openingVars
    <2> QED
      BY <2>1, <2>2, <2>3 DEF ScidAccounted
  <1>18. ASSUME NEW a \in Threads, RemoveClose(a), SafetyUnchanged,
                UNCHANGED watchdog_running
        PROVE  ScidAccounted'
    <2>1. (ScidSet)' => ScidSet
      BY <1>18 DEF ScidSet, SafetyUnchanged, supervisorVars
    <2>2. ASSUME NEW d \in SafetyOpen PROVE d \in SafetyOpen' \/ KeepsScid(a)'
      BY <1>18, <2>2 DEF SafetyOpen, IsSafety, RemoveClose, SafetyUnchanged,
          openingVars
    <2>3. ASSUME NEW b \in Threads, KeepsScid(b) PROVE KeepsScid(b)' \/ SafetyOpen' # {}
      BY <1>18, <2>3 DEF RefOK, TypeOK, KeepsScid, Refers, LabelTypeOK, IsSafety,
          RemoveClose, Goto, SafetyUnchanged, openingVars
    <2> QED
      BY <2>1, <2>2, <2>3 DEF ScidAccounted
  <1>19. ASSUME NEW a \in Threads, FindInstance(a),
                UNCHANGED watchdog_running
        PROVE  ScidAccounted'
    <2>1. (ScidSet)' => ScidSet
      BY <1>19 DEF ScidSet, FindInstance, supervisorVars
    <2>2. ASSUME NEW d \in SafetyOpen PROVE d \in SafetyOpen' \/ KeepsScid(a)'
      BY <1>19, <2>2 DEF SafetyOpen, IsSafety, FindInstance, Finish, tableVars,
          openingVars
    <2>3. ASSUME NEW b \in Threads, KeepsScid(b) PROVE KeepsScid(b)' \/ SafetyOpen' # {}
      BY <1>19, <2>3 DEF RefOK, TypeOK, KeepsScid, Refers, TableTypeOK, LabelTypeOK,
          OpeningTypeOK, CurOK, StepOK, SafetyOpen, IsSafety, ConnIds, NoConn,
          Segments, NoRequest, Threads, FindInstance, Finish, Goto, tableVars,
          openingVars, supervisorVars
    <2> QED
      BY <2>1, <2>2, <2>3 DEF ScidAccounted
  <1>20. ASSUME NEW a \in Threads, ForgetInstance(a),
                UNCHANGED watchdog_running
        PROVE  ScidAccounted'
    <2>1. (ScidSet)' => ScidSet
      BY <1>20 DEF ScidSet, ForgetInstance, supervisorVars
    <2>2. ASSUME NEW d \in SafetyOpen PROVE d \in SafetyOpen' \/ KeepsScid(a)'
      BY <1>20, <2>2 DEF SafetyOpen, IsSafety, ForgetInstance, Finish, tableVars,
          openingVars
    <2>3. ASSUME NEW b \in Threads, KeepsScid(b) PROVE KeepsScid(b)' \/ SafetyOpen' # {}
      BY <1>20, <2>3 DEF RefOK, TypeOK, KeepsScid, Refers, TableTypeOK, LabelTypeOK,
          OpeningTypeOK, CurOK, StepOK, SafetyOpen, IsSafety, ConnIds, NoConn,
          Segments, NoRequest, Threads, ForgetInstance, Finish, Goto, tableVars,
          openingVars, supervisorVars
    <2> QED
      BY <2>1, <2>2, <2>3 DEF ScidAccounted
  <1>21. ASSUME NEW a \in Threads, DetachInstance(a),
                UNCHANGED watchdog_running
        PROVE  ScidAccounted'
    <2>1. (ScidSet)' => ScidSet
      BY <1>21 DEF ScidSet, DetachInstance, ClearInstance, supervisorVars
    <2>2. ASSUME NEW d \in SafetyOpen PROVE d \in SafetyOpen' \/ KeepsScid(a)'
      BY <1>21, <2>2 DEF SafetyOpen, IsSafety, DetachInstance, ClearInstance, Finish, tableVars,
          openingVars
    <2>3. ASSUME NEW b \in Threads, KeepsScid(b) PROVE KeepsScid(b)' \/ SafetyOpen' # {}
      BY <1>21, <2>3 DEF RefOK, TypeOK, KeepsScid, Refers, TableTypeOK, LabelTypeOK,
          OpeningTypeOK, CurOK, StepOK, SafetyOpen, IsSafety, ConnIds, NoConn,
          Segments, NoRequest, Threads, DetachInstance, ClearInstance, Finish, Goto, tableVars,
          openingVars, supervisorVars
    <2> QED
      BY <2>1, <2>2, <2>3 DEF ScidAccounted
  <1>22. ASSUME NEW a \in Threads, EraseInstance(a),
                UNCHANGED watchdog_running
        PROVE  ScidAccounted'
    <2>1. (ScidSet)' => ScidSet
      BY <1>22 DEF ScidSet, EraseInstance, ClearInstance, supervisorVars
    <2>2. ASSUME NEW d \in SafetyOpen PROVE d \in SafetyOpen' \/ KeepsScid(a)'
      BY <1>22, <2>2 DEF SafetyOpen, IsSafety, EraseInstance, ClearInstance, Finish, tableVars,
          openingVars
    <2>3. ASSUME NEW b \in Threads, KeepsScid(b) PROVE KeepsScid(b)' \/ SafetyOpen' # {}
      BY <1>22, <2>3 DEF RefOK, TypeOK, KeepsScid, Refers, TableTypeOK, LabelTypeOK,
          OpeningTypeOK, CurOK, StepOK, SafetyOpen, IsSafety, ConnIds, NoConn,
          Segments, NoRequest, Threads, EraseInstance, ClearInstance, Finish, Goto, tableVars,
          openingVars, supervisorVars
    <2> QED
      BY <2>1, <2>2, <2>3 DEF ScidAccounted
  <1>23. ASSUME NEW a \in Threads, Survey(a),
                UNCHANGED watchdog_running
        PROVE  ScidAccounted'
    <2>1. (ScidSet)' => ScidSet
      BY <1>23 DEF ScidSet, Survey, SafetyUnchanged, supervisorVars
    <2>2. ASSUME NEW d \in SafetyOpen PROVE d \in SafetyOpen' \/ KeepsScid(a)'
      BY <1>23, <2>2 DEF SafetyOpen, IsSafety, Survey, Finish, SafetyUnchanged,
          tableVars, openingVars
    <2>3. ASSUME NEW b \in Threads, KeepsScid(b) PROVE KeepsScid(b)' \/ SafetyOpen' # {}
      <3>1. CASE AnySafetyLeft
        BY <1>23, <3>1 DEF Survey, AnySafetyLeft, Finish, SafetyUnchanged, tableVars,
            openingVars, SafetyOpen, IsSafety
      <3>2. CASE ~AnySafetyLeft
        BY <1>23, <2>3, <3>2 DEF Survey, Goto, SafetyUnchanged, openingVars, RefOK,
            TypeOK, LabelTypeOK, KeepsScid, Refers, IsSafety
      <3> QED
        BY <3>1, <3>2
    <2> QED
      BY <2>1, <2>2, <2>3 DEF ScidAccounted
  <1>24. ASSUME NEW a \in Threads, DropScid(a),
                UNCHANGED watchdog_running
        PROVE  ScidAccounted'
    BY <1>24 DEF ScidAccounted, ScidSet, DropScid
  <1>25. ASSUME NEW a \in Threads, DropOwner(a),
                UNCHANGED watchdog_running
        PROVE  ScidAccounted'
    <2>1. (ScidSet)' => ScidSet
      BY <1>25 DEF ScidSet, DropOwner
    <2>2. ASSUME NEW d \in SafetyOpen PROVE d \in SafetyOpen' \/ KeepsScid(a)'
      BY <1>25, <2>2 DEF SafetyOpen, IsSafety, DropOwner, Finish, tableVars,
          openingVars
    <2>3. ASSUME NEW b \in Threads, KeepsScid(b) PROVE KeepsScid(b)' \/ SafetyOpen' # {}
      BY <1>25, <2>3 DEF RefOK, TypeOK, KeepsScid, Refers, LabelTypeOK, IsSafety,
          DropOwner, Finish, Goto, openingVars
    <2> QED
      BY <2>1, <2>2, <2>3 DEF ScidAccounted
  <1>26. ASSUME CloseBegin
        PROVE  ScidAccounted'
    <2>1. (ScidSet)' => ScidSet
      BY <1>26 DEF ScidSet, CloseBegin, SafetyUnchanged, supervisorVars
    <2>2. ASSUME NEW d \in SafetyOpen PROVE d \in SafetyOpen'
      BY <1>26, <2>2 DEF SafetyOpen, IsSafety, CloseBegin, SafetyUnchanged,
          managerVars, openingVars
    <2>3. ASSUME NEW b \in Threads, KeepsScid(b) PROVE KeepsScid(b)' \/ SafetyOpen' # {}
      BY <1>26, <2>3 DEF KeepsScid, Refers, IsSafety, CloseBegin, SafetyUnchanged,
          managerVars, openingVars
    <2> QED
      BY <2>1, <2>2, <2>3 DEF ScidAccounted
  <1>27. ASSUME UNCHANGED vars
        PROVE  ScidAccounted'
    <2>1. (ScidSet)' => ScidSet
      BY <1>27 DEF ScidSet, vars, supervisorVars
    <2>2. ASSUME NEW d \in SafetyOpen PROVE d \in SafetyOpen'
      BY <1>27, <2>2 DEF SafetyOpen, IsSafety, vars, managerVars, openingVars
    <2>3. ASSUME NEW b \in Threads, KeepsScid(b) PROVE KeepsScid(b)' \/ SafetyOpen' # {}
      BY <1>27, <2>3 DEF KeepsScid, Refers, IsSafety, vars, managerVars, openingVars
    <2> QED
      BY <2>1, <2>2, <2>3 DEF ScidAccounted
  <1> QED
    BY <1>1, <1>2, <1>3, <1>4, <1>5, <1>6, <1>7, <1>8, <1>9, <1>10, <1>11, <1>12, <1>13, <1>14,
        <1>15, <1>16, <1>17, <1>18, <1>19, <1>20, <1>21, <1>22, <1>23, <1>24, <1>25, <1>26, <1>27
    DEF Next, Handlers, Open, Removed, Remove, RemoveInstance, Threads

\* The stored owner stays accounted for.
LEMMA OwnerStep == RefOK /\ OwnerAccounted /\ [Next]_vars => OwnerAccounted'
  <1> SUFFICES ASSUME RefOK, OwnerAccounted, [Next]_vars PROVE OwnerAccounted'
    OBVIOUS
  <1>1. ASSUME NEW a \in Clients, NEW t \in Triads, NEW s \in Segments \cup {NotSafety},
                Validate(a, t, s),
                UNCHANGED watchdog_running
        PROVE  OwnerAccounted'
    <2>1. (cfunid # Nobody)' => cfunid # Nobody
      BY <1>1 DEF Validate, supervisorVars
    <2>2. ASSUME NEW d \in SafetyOpen PROVE d \in SafetyOpen' \/ KeepsOwner(a)'
      BY <1>1, <2>2 DEF SafetyOpen, IsSafety, Validate, managerVars
    <2>3. ASSUME NEW b \in Threads, KeepsOwner(b) PROVE KeepsOwner(b)' \/ SafetyOpen' # {}
      BY <1>1, <2>3 DEF KeepsOwner, KeepsScid, Refers, IsSafety, Validate, managerVars
    <2> QED
      BY <2>1, <2>2, <2>3 DEF OwnerAccounted, Threads
  <1>2. ASSUME NEW a \in Clients, TriadInUse(a),
                UNCHANGED watchdog_running
        PROVE  OwnerAccounted'
    <2>1. (cfunid # Nobody)' => cfunid # Nobody
      BY <1>2 DEF TriadInUse, supervisorVars
    <2>2. ASSUME NEW d \in SafetyOpen PROVE d \in SafetyOpen' \/ KeepsOwner(a)'
      BY <1>2, <2>2 DEF SafetyOpen, IsSafety, TriadInUse, managerVars
    <2>3. ASSUME NEW b \in Threads, KeepsOwner(b) PROVE KeepsOwner(b)' \/ SafetyOpen' # {}
      BY <1>2, <2>3 DEF KeepsOwner, KeepsScid, Refers, IsSafety, TriadInUse,
          managerVars
    <2> QED
      BY <2>1, <2>2, <2>3 DEF OwnerAccounted, Threads
  <1>3. ASSUME NEW a \in Clients, Allocate(a),
                UNCHANGED watchdog_running
        PROVE  OwnerAccounted'
    <2>1. (cfunid # Nobody)' => cfunid # Nobody
      BY <1>3 DEF Allocate, supervisorVars
    <2>2. ASSUME NEW d \in SafetyOpen PROVE d \in SafetyOpen' \/ KeepsOwner(a)'
      BY <1>3, <2>2 DEF RefOK, TypeOK, TableTypeOK, LabelTypeOK, SafetyOpen, IsSafety,
          Threads, Allocate, ForwardOpenCheck, NewId, Goto
    <2>3. ASSUME NEW b \in Threads, KeepsOwner(b) PROVE KeepsOwner(b)' \/ SafetyOpen' # {}
      <3>1. b # a
        BY <1>3, <2>3 DEF Allocate, ForwardOpenCheck, KeepsOwner, KeepsScid
      <3>2. at'[b] = at[b] /\ cur'[b] = cur[b]
        BY <1>3, <3>1 DEF Allocate, ForwardOpenCheck, Goto
      <3>3. cur[b] # NewId
        BY DEF RefOK, TypeOK, TableTypeOK, CurOK, NewId
      <3>4. segment'[cur[b]] = segment[cur[b]]
        BY <1>3, <2>3, <3>3 DEF Allocate, RefOK, TypeOK, LabelTypeOK, OpeningTypeOK,
            KeepsScid, Refers
      <3> QED
        BY <2>3, <3>2, <3>4 DEF KeepsOwner, KeepsScid, Refers, IsSafety
    <2> QED
      BY <2>1, <2>2, <2>3 DEF OwnerAccounted, Threads
  <1>4. ASSUME NEW a \in Clients, ConfigureOwner(a),
                UNCHANGED watchdog_running
        PROVE  OwnerAccounted'
    <2>1. KeepsOwner(a)'
      BY <1>4 DEF RefOK, KeepsOwner, KeepsScid, Refers, CurOK, StepOK, IsSafety,
          Threads, ConfigureOwner, Configure, managerVars
    <2> QED
      BY <2>1 DEF OwnerAccounted, Threads
  <1>5. ASSUME NEW a \in Clients, ConfigureScid(a),
                UNCHANGED watchdog_running
        PROVE  OwnerAccounted'
    <2>1. (cfunid # Nobody)' => cfunid # Nobody
      BY <1>5 DEF ConfigureScid
    <2>2. ASSUME NEW d \in SafetyOpen PROVE d \in SafetyOpen' \/ KeepsOwner(a)'
      BY <1>5, <2>2 DEF SafetyOpen, IsSafety, ConfigureScid, Configure, managerVars
    <2>3. ASSUME NEW b \in Threads, KeepsOwner(b) PROVE KeepsOwner(b)' \/ SafetyOpen' # {}
      BY <1>5, <2>3 DEF KeepsOwner, KeepsScid, Refers, IsSafety, ConfigureScid,
          Configure, managerVars
    <2> QED
      BY <2>1, <2>2, <2>3 DEF OwnerAccounted, Threads
  <1>6. ASSUME NEW a \in Clients, ReadInstanceId(a),
                UNCHANGED watchdog_running
        PROVE  OwnerAccounted'
    <2>1. (cfunid # Nobody)' => cfunid # Nobody
      BY <1>6 DEF ReadInstanceId, supervisorVars
    <2>2. ASSUME NEW d \in SafetyOpen PROVE d \in SafetyOpen' \/ KeepsOwner(a)'
      BY <1>6, <2>2 DEF SafetyOpen, IsSafety, ReadInstanceId, Configure, managerVars
    <2>3. ASSUME NEW b \in Threads, KeepsOwner(b) PROVE KeepsOwner(b)' \/ SafetyOpen' # {}
      BY <1>6, <2>3 DEF KeepsOwner, KeepsScid, Refers, IsSafety, ReadInstanceId,
          Configure, managerVars
    <2> QED
      BY <2>1, <2>2, <2>3 DEF OwnerAccounted, Threads
  <1>7. ASSUME NEW a \in Clients, NextInstanceId(a),
                UNCHANGED watchdog_running
        PROVE  OwnerAccounted'
    <2>1. (cfunid # Nobody)' => cfunid # Nobody
      BY <1>7 DEF NextInstanceId, supervisorVars
    <2>2. ASSUME NEW d \in SafetyOpen PROVE d \in SafetyOpen' \/ KeepsOwner(a)'
      BY <1>7, <2>2 DEF SafetyOpen, IsSafety, NextInstanceId, Configure, managerVars
    <2>3. ASSUME NEW b \in Threads, KeepsOwner(b) PROVE KeepsOwner(b)' \/ SafetyOpen' # {}
      BY <1>7, <2>3 DEF KeepsOwner, KeepsScid, Refers, IsSafety, NextInstanceId,
          Configure, managerVars
    <2> QED
      BY <2>1, <2>2, <2>3 DEF OwnerAccounted, Threads
  <1>8. ASSUME NEW a \in Clients, CreateInstance(a),
                UNCHANGED watchdog_running
        PROVE  OwnerAccounted'
    <2>1. (cfunid # Nobody)' => cfunid # Nobody
      BY <1>8 DEF CreateInstance, supervisorVars
    <2>2. ASSUME NEW d \in SafetyOpen PROVE d \in SafetyOpen' \/ KeepsOwner(a)'
      BY <1>8, <2>2 DEF SafetyOpen, IsSafety, CreateInstance, Configure, managerVars
    <2>3. ASSUME NEW b \in Threads, KeepsOwner(b) PROVE KeepsOwner(b)' \/ SafetyOpen' # {}
      BY <1>8, <2>3 DEF KeepsOwner, KeepsScid, Refers, IsSafety, CreateInstance,
          Configure, managerVars
    <2> QED
      BY <2>1, <2>2, <2>3 DEF OwnerAccounted, Threads
  <1>9. ASSUME NEW a \in Clients, IndexInstance(a),
                UNCHANGED watchdog_running
        PROVE  OwnerAccounted'
    <2>1. (cfunid # Nobody)' => cfunid # Nobody
      BY <1>9 DEF IndexInstance, supervisorVars
    <2>2. ASSUME NEW d \in SafetyOpen PROVE d \in SafetyOpen' \/ KeepsOwner(a)'
      BY <1>9, <2>2 DEF SafetyOpen, IsSafety, IndexInstance, Configure, managerVars
    <2>3. ASSUME NEW b \in Threads, KeepsOwner(b) PROVE KeepsOwner(b)' \/ SafetyOpen' # {}
      BY <1>9, <2>3 DEF KeepsOwner, KeepsScid, Refers, IsSafety, IndexInstance,
          Configure, managerVars
    <2> QED
      BY <2>1, <2>2, <2>3 DEF OwnerAccounted, Threads
  <1>10. ASSUME NEW a \in Clients, Insert(a),
                UNCHANGED watchdog_running
        PROVE  OwnerAccounted'
    <2>1. (cfunid # Nobody)' => cfunid # Nobody
      BY <1>10 DEF Insert, SafetyUnchanged, supervisorVars
    <2>2. ASSUME NEW d \in SafetyOpen PROVE d \in SafetyOpen' \/ KeepsOwner(a)'
      BY <1>10, <2>2 DEF SafetyOpen, IsSafety, Insert, ForwardOpenInsert,
          SafetyUnchanged, openingVars
    <2>3. ASSUME NEW b \in Threads, KeepsOwner(b) PROVE KeepsOwner(b)' \/ SafetyOpen' # {}
      BY <1>10, <2>3 DEF RefOK, TypeOK, KeepsOwner, KeepsScid, Refers, LabelTypeOK,
          SafetyOpen, IsSafety, Insert, ForwardOpenInsert, Goto, SafetyUnchanged,
          openingVars
    <2> QED
      BY <2>1, <2>2, <2>3 DEF OwnerAccounted, Threads
  <1>11. ASSUME NEW a \in Clients, Reply(a),
                UNCHANGED watchdog_running
        PROVE  OwnerAccounted'
    <2>1. (cfunid # Nobody)' => cfunid # Nobody
      BY <1>11 DEF Reply, SafetyUnchanged, supervisorVars
    <2>2. ASSUME NEW d \in SafetyOpen PROVE d \in SafetyOpen' \/ KeepsOwner(a)'
      BY <1>11, <2>2 DEF SafetyOpen, IsSafety, Reply, Finish, SafetyUnchanged,
          tableVars, openingVars
    <2>3. ASSUME NEW b \in Threads, KeepsOwner(b) PROVE KeepsOwner(b)' \/ SafetyOpen' # {}
      BY <1>11, <2>3 DEF RefOK, TypeOK, KeepsOwner, KeepsScid, Refers, LabelTypeOK,
          IsSafety, Reply, Finish, Goto, SafetyUnchanged, openingVars
    <2> QED
      BY <2>1, <2>2, <2>3 DEF OwnerAccounted, Threads
  <1>12. ASSUME NEW a \in Clients, SafetyReset(a),
                UNCHANGED watchdog_running
        PROVE  OwnerAccounted'
    <2>1. (cfunid # Nobody)' => cfunid # Nobody
      BY <1>12 DEF SafetyReset
    <2>2. ASSUME NEW d \in SafetyOpen PROVE d \in SafetyOpen' \/ KeepsOwner(a)'
      BY <1>12, <2>2 DEF SafetyOpen, IsSafety, SafetyReset, managerVars, openingVars
    <2>3. ASSUME NEW b \in Threads, KeepsOwner(b) PROVE KeepsOwner(b)' \/ SafetyOpen' # {}
      BY <1>12, <2>3 DEF KeepsOwner, KeepsScid, Refers, IsSafety, SafetyReset,
          managerVars, openingVars
    <2> QED
      BY <2>1, <2>2, <2>3 DEF OwnerAccounted, Threads
  <1>13. ASSUME NEW a \in Clients, NEW c \in ConnIds, ForwardClose(a, c),
                UNCHANGED watchdog_running
        PROVE  OwnerAccounted'
    <2>1. (cfunid # Nobody)' => cfunid # Nobody
      BY <1>13 DEF ForwardClose, SafetyUnchanged, supervisorVars
    <2>2. ASSUME NEW d \in SafetyOpen PROVE d \in SafetyOpen' \/ KeepsOwner(a)'
      BY <1>13, <2>2 DEF RefOK, TypeOK, KeepsOwner, KeepsScid, Refers, LabelTypeOK,
          SafetyOpen, IsSafety, ConnIds, NoConn, Threads, ForwardClose,
          ForwardClosePop, Goto, SafetyUnchanged, openingVars
    <2>3. ASSUME NEW b \in Threads, KeepsOwner(b) PROVE KeepsOwner(b)' \/ SafetyOpen' # {}
      BY <1>13, <2>3 DEF RefOK, TypeOK, KeepsOwner, KeepsScid, Refers, LabelTypeOK,
          IsSafety, ForwardClose, ForwardClosePop, Goto, SafetyUnchanged, openingVars
    <2> QED
      BY <2>1, <2>2, <2>3 DEF OwnerAccounted, Threads
  <1>14. ASSUME NEW c \in ConnIds, Decide(Watchdog, c, "expire"),
                UNCHANGED watchdog_running
        PROVE  OwnerAccounted'
    <2>1. (cfunid # Nobody)' => cfunid # Nobody
      BY <1>14 DEF Decide, SafetyUnchanged, supervisorVars
    <2>2. ASSUME NEW d \in SafetyOpen PROVE d \in SafetyOpen'
      BY <1>14, <2>2 DEF SafetyOpen, IsSafety, Decide, SafetyUnchanged, tableVars,
          openingVars
    <2>3. ASSUME NEW b \in Threads, KeepsOwner(b) PROVE KeepsOwner(b)' \/ SafetyOpen' # {}
      BY <1>14, <2>3 DEF RefOK, TypeOK, KeepsOwner, KeepsScid, Refers, LabelTypeOK,
          IsSafety, Decide, Goto, SafetyUnchanged, openingVars
    <2> QED
      BY <2>1, <2>2, <2>3 DEF OwnerAccounted
  <1>15. ASSUME NEW c \in ConnIds, Decide(App, c, "pop"),
                UNCHANGED watchdog_running
        PROVE  OwnerAccounted'
    <2>1. (cfunid # Nobody)' => cfunid # Nobody
      BY <1>15 DEF Decide, SafetyUnchanged, supervisorVars
    <2>2. ASSUME NEW d \in SafetyOpen PROVE d \in SafetyOpen'
      BY <1>15, <2>2 DEF SafetyOpen, IsSafety, Decide, SafetyUnchanged, tableVars,
          openingVars
    <2>3. ASSUME NEW b \in Threads, KeepsOwner(b) PROVE KeepsOwner(b)' \/ SafetyOpen' # {}
      BY <1>15, <2>3 DEF RefOK, TypeOK, KeepsOwner, KeepsScid, Refers, LabelTypeOK,
          IsSafety, Decide, Goto, SafetyUnchanged, openingVars
    <2> QED
      BY <2>1, <2>2, <2>3 DEF OwnerAccounted
  <1>16. ASSUME NEW a \in Threads, TimeoutMark(a), SafetyUnchanged,
                UNCHANGED watchdog_running
        PROVE  OwnerAccounted'
    <2>1. (cfunid # Nobody)' => cfunid # Nobody
      BY <1>16 DEF SafetyUnchanged, supervisorVars
    <2>2. ASSUME NEW d \in SafetyOpen PROVE d \in SafetyOpen' \/ KeepsOwner(a)'
      BY <1>16, <2>2 DEF SafetyOpen, IsSafety, TimeoutMark, SafetyUnchanged,
          openingVars
    <2>3. ASSUME NEW b \in Threads, KeepsOwner(b) PROVE KeepsOwner(b)' \/ SafetyOpen' # {}
      BY <1>16, <2>3 DEF RefOK, TypeOK, KeepsOwner, KeepsScid, Refers, LabelTypeOK,
          IsSafety, TimeoutMark, Goto, SafetyUnchanged, openingVars
    <2> QED
      BY <2>1, <2>2, <2>3 DEF OwnerAccounted
  <1>17. ASSUME NEW a \in Threads, RemovePop(a), SafetyUnchanged,
                UNCHANGED watchdog_running
        PROVE  OwnerAccounted'
    <2>1. (cfunid # Nobody)' => cfunid # Nobody
      BY <1>17 DEF SafetyUnchanged, supervisorVars
    <2>2. ASSUME NEW d \in SafetyOpen PROVE d \in SafetyOpen' \/ KeepsOwner(a)'
      BY <1>17, <2>2 DEF RefOK, TypeOK, KeepsOwner, KeepsScid, Refers, LabelTypeOK,
          CurOK, SafetyOpen, IsSafety, RemovePop, Goto, SafetyUnchanged, openingVars
    <2>3. ASSUME NEW b \in Threads, KeepsOwner(b) PROVE KeepsOwner(b)' \/ SafetyOpen' # {}
      BY <1>17, <2>3 DEF RefOK, TypeOK, KeepsOwner, KeepsScid, Refers, LabelTypeOK,
          IsSafety, RemovePop, Goto, SafetyUnchanged, openingVars
    <2> QED
      BY <2>1, <2>2, <2>3 DEF OwnerAccounted
  <1>18. ASSUME NEW a \in Threads, RemoveClose(a), SafetyUnchanged,
                UNCHANGED watchdog_running
        PROVE  OwnerAccounted'
    <2>1. (cfunid # Nobody)' => cfunid # Nobody
      BY <1>18 DEF SafetyUnchanged, supervisorVars
    <2>2. ASSUME NEW d \in SafetyOpen PROVE d \in SafetyOpen' \/ KeepsOwner(a)'
      BY <1>18, <2>2 DEF SafetyOpen, IsSafety, RemoveClose, SafetyUnchanged,
          openingVars
    <2>3. ASSUME NEW b \in Threads, KeepsOwner(b) PROVE KeepsOwner(b)' \/ SafetyOpen' # {}
      BY <1>18, <2>3 DEF RefOK, TypeOK, KeepsOwner, KeepsScid, Refers, LabelTypeOK,
          IsSafety, RemoveClose, Goto, SafetyUnchanged, openingVars
    <2> QED
      BY <2>1, <2>2, <2>3 DEF OwnerAccounted
  <1>19. ASSUME NEW a \in Threads, FindInstance(a),
                UNCHANGED watchdog_running
        PROVE  OwnerAccounted'
    <2>1. (cfunid # Nobody)' => cfunid # Nobody
      BY <1>19 DEF FindInstance, supervisorVars
    <2>2. ASSUME NEW d \in SafetyOpen PROVE d \in SafetyOpen' \/ KeepsOwner(a)'
      BY <1>19, <2>2 DEF SafetyOpen, IsSafety, FindInstance, Finish, tableVars,
          openingVars
    <2>3. ASSUME NEW b \in Threads, KeepsOwner(b) PROVE KeepsOwner(b)' \/ SafetyOpen' # {}
      BY <1>19, <2>3 DEF RefOK, TypeOK, KeepsOwner, KeepsScid, Refers, TableTypeOK,
          LabelTypeOK, OpeningTypeOK, CurOK, StepOK, SafetyOpen, IsSafety, ConnIds,
          NoConn, Segments, NoRequest, Threads, FindInstance, Finish, Goto,
          tableVars, openingVars, supervisorVars
    <2> QED
      BY <2>1, <2>2, <2>3 DEF OwnerAccounted
  <1>20. ASSUME NEW a \in Threads, ForgetInstance(a),
                UNCHANGED watchdog_running
        PROVE  OwnerAccounted'
    <2>1. (cfunid # Nobody)' => cfunid # Nobody
      BY <1>20 DEF ForgetInstance, supervisorVars
    <2>2. ASSUME NEW d \in SafetyOpen PROVE d \in SafetyOpen' \/ KeepsOwner(a)'
      BY <1>20, <2>2 DEF SafetyOpen, IsSafety, ForgetInstance, Finish, tableVars,
          openingVars
    <2>3. ASSUME NEW b \in Threads, KeepsOwner(b) PROVE KeepsOwner(b)' \/ SafetyOpen' # {}
      BY <1>20, <2>3 DEF RefOK, TypeOK, KeepsOwner, KeepsScid, Refers, TableTypeOK,
          LabelTypeOK, OpeningTypeOK, CurOK, StepOK, SafetyOpen, IsSafety, ConnIds,
          NoConn, Segments, NoRequest, Threads, ForgetInstance, Finish, Goto,
          tableVars, openingVars, supervisorVars
    <2> QED
      BY <2>1, <2>2, <2>3 DEF OwnerAccounted
  <1>21. ASSUME NEW a \in Threads, DetachInstance(a),
                UNCHANGED watchdog_running
        PROVE  OwnerAccounted'
    <2>1. (cfunid # Nobody)' => cfunid # Nobody
      BY <1>21 DEF DetachInstance, ClearInstance, supervisorVars
    <2>2. ASSUME NEW d \in SafetyOpen PROVE d \in SafetyOpen' \/ KeepsOwner(a)'
      BY <1>21, <2>2 DEF SafetyOpen, IsSafety, DetachInstance, ClearInstance, Finish, tableVars,
          openingVars
    <2>3. ASSUME NEW b \in Threads, KeepsOwner(b) PROVE KeepsOwner(b)' \/ SafetyOpen' # {}
      BY <1>21, <2>3 DEF RefOK, TypeOK, KeepsOwner, KeepsScid, Refers, TableTypeOK,
          LabelTypeOK, OpeningTypeOK, CurOK, StepOK, SafetyOpen, IsSafety, ConnIds,
          NoConn, Segments, NoRequest, Threads, DetachInstance, ClearInstance, Finish, Goto,
          tableVars, openingVars, supervisorVars
    <2> QED
      BY <2>1, <2>2, <2>3 DEF OwnerAccounted
  <1>22. ASSUME NEW a \in Threads, EraseInstance(a),
                UNCHANGED watchdog_running
        PROVE  OwnerAccounted'
    <2>1. (cfunid # Nobody)' => cfunid # Nobody
      BY <1>22 DEF EraseInstance, ClearInstance, supervisorVars
    <2>2. ASSUME NEW d \in SafetyOpen PROVE d \in SafetyOpen' \/ KeepsOwner(a)'
      BY <1>22, <2>2 DEF SafetyOpen, IsSafety, EraseInstance, ClearInstance, Finish, tableVars,
          openingVars
    <2>3. ASSUME NEW b \in Threads, KeepsOwner(b) PROVE KeepsOwner(b)' \/ SafetyOpen' # {}
      BY <1>22, <2>3 DEF RefOK, TypeOK, KeepsOwner, KeepsScid, Refers, TableTypeOK,
          LabelTypeOK, OpeningTypeOK, CurOK, StepOK, SafetyOpen, IsSafety, ConnIds,
          NoConn, Segments, NoRequest, Threads, EraseInstance, ClearInstance, Finish, Goto,
          tableVars, openingVars, supervisorVars
    <2> QED
      BY <2>1, <2>2, <2>3 DEF OwnerAccounted
  <1>23. ASSUME NEW a \in Threads, Survey(a),
                UNCHANGED watchdog_running
        PROVE  OwnerAccounted'
    <2>1. (cfunid # Nobody)' => cfunid # Nobody
      BY <1>23 DEF Survey, SafetyUnchanged, supervisorVars
    <2>2. ASSUME NEW d \in SafetyOpen PROVE d \in SafetyOpen' \/ KeepsOwner(a)'
      BY <1>23, <2>2 DEF SafetyOpen, IsSafety, Survey, Finish, SafetyUnchanged,
          tableVars, openingVars
    <2>3. ASSUME NEW b \in Threads, KeepsOwner(b) PROVE KeepsOwner(b)' \/ SafetyOpen' # {}
      <3>1. CASE AnySafetyLeft
        BY <1>23, <3>1 DEF Survey, AnySafetyLeft, Finish, SafetyUnchanged, tableVars,
            openingVars, SafetyOpen, IsSafety
      <3>2. CASE ~AnySafetyLeft
        BY <1>23, <2>3, <3>2 DEF Survey, Goto, SafetyUnchanged, openingVars, RefOK,
            TypeOK, LabelTypeOK, KeepsOwner, KeepsScid, Refers, IsSafety
      <3> QED
        BY <3>1, <3>2
    <2> QED
      BY <2>1, <2>2, <2>3 DEF OwnerAccounted
  <1>24. ASSUME NEW a \in Threads, DropScid(a),
                UNCHANGED watchdog_running
        PROVE  OwnerAccounted'
    <2>1. (cfunid # Nobody)' => cfunid # Nobody
      BY <1>24 DEF DropScid
    <2>2. ASSUME NEW d \in SafetyOpen PROVE d \in SafetyOpen' \/ KeepsOwner(a)'
      BY <1>24, <2>2 DEF SafetyOpen, IsSafety, DropScid, tableVars, openingVars
    <2>3. ASSUME NEW b \in Threads, KeepsOwner(b) PROVE KeepsOwner(b)' \/ SafetyOpen' # {}
      BY <1>24, <2>3 DEF RefOK, TypeOK, KeepsOwner, KeepsScid, Refers, LabelTypeOK,
          IsSafety, DropScid, Goto, openingVars
    <2> QED
      BY <2>1, <2>2, <2>3 DEF OwnerAccounted
  <1>25. ASSUME NEW a \in Threads, DropOwner(a),
                UNCHANGED watchdog_running
        PROVE  OwnerAccounted'
    BY <1>25 DEF OwnerAccounted, DropOwner
  <1>26. ASSUME CloseBegin
        PROVE  OwnerAccounted'
    <2>1. (cfunid # Nobody)' => cfunid # Nobody
      BY <1>26 DEF CloseBegin, SafetyUnchanged, supervisorVars
    <2>2. ASSUME NEW d \in SafetyOpen PROVE d \in SafetyOpen'
      BY <1>26, <2>2 DEF SafetyOpen, IsSafety, CloseBegin, SafetyUnchanged,
          managerVars, openingVars
    <2>3. ASSUME NEW b \in Threads, KeepsOwner(b) PROVE KeepsOwner(b)' \/ SafetyOpen' # {}
      BY <1>26, <2>3 DEF KeepsOwner, KeepsScid, Refers, IsSafety, CloseBegin,
          SafetyUnchanged, managerVars, openingVars
    <2> QED
      BY <2>1, <2>2, <2>3 DEF OwnerAccounted
  <1>27. ASSUME UNCHANGED vars
        PROVE  OwnerAccounted'
    <2>1. (cfunid # Nobody)' => cfunid # Nobody
      BY <1>27 DEF vars, supervisorVars
    <2>2. ASSUME NEW d \in SafetyOpen PROVE d \in SafetyOpen'
      BY <1>27, <2>2 DEF SafetyOpen, IsSafety, vars, managerVars, openingVars
    <2>3. ASSUME NEW b \in Threads, KeepsOwner(b) PROVE KeepsOwner(b)' \/ SafetyOpen' # {}
      BY <1>27, <2>3 DEF KeepsOwner, KeepsScid, Refers, IsSafety, vars, managerVars,
          openingVars
    <2> QED
      BY <2>1, <2>2, <2>3 DEF OwnerAccounted
  <1> QED
    BY <1>1, <1>2, <1>3, <1>4, <1>5, <1>6, <1>7, <1>8, <1>9, <1>10, <1>11, <1>12, <1>13, <1>14,
        <1>15, <1>16, <1>17, <1>18, <1>19, <1>20, <1>21, <1>22, <1>23, <1>24, <1>25, <1>26, <1>27
    DEF Next, Handlers, Open, Removed, Remove, RemoveInstance, Threads

-----------------------------------------------------------------------------
(* The validator                                                           *)

\* A step that moves no thread, and takes no creation further.
LEMMA StillStep ==
  ASSUME RefOK, ValidatorOK,
         UNCHANGED validatorVars, UNCHANGED <<segment, next_connection_id>>,
         UNCHANGED <<connections, at, cur>>,
         \A b \in Clients : /\ step'[b] \in Unmade => step[b] \in Unmade
                            /\ step'[b] = "index" <=> step[b] = "index"
                            /\ Creating(b)' => Creating(b)
  PROVE  ValidatorOK'
  <1> USE DEF ValidatorOK, validatorVars, mapVars
  <1>1. InstancesOK'
    BY DEF InstancesOK, IsSafety
  <1>2. FreshOK'
    BY DEF FreshOK
  <1>3. \A i \in ConnIds : Linked(i) => Linked(i)'
    BY DEF Linked
  <1>4. LinkOK'
    BY <1>3 DEF LinkOK, Apart
  <1>5. HeldOK'
    BY DEF HeldOK, Apart, Attended
  <1> QED
    BY <1>1, <1>2, <1>4, <1>5

\* Where a thread has yet to insert a connection, or to look up its instance.
AtHold == {"insert", "closing", "callbacks"}

\* A step of one thread that opens, or is not yet at the instance of what it
\* removes, or is done with it.
LEMMA MoveStep ==
  ASSUME RefOK, ValidatorOK, NEW a \in Threads,
         UNCHANGED validatorVars, UNCHANGED <<segment, next_connection_id, step>>,
         \A b \in Threads : b # a => at'[b] = at[b] /\ cur'[b] = cur[b],
         at[a] \notin {"forget", "detach"}, at'[a] \notin {"insert", "forget", "detach"},
         a \in Clients => step[a] = "done",
         cur'[a] \in connections \cup {NoConn, cur[a]},
         connections' \subseteq connections \cup {cur[a]},
         \A c \in ConnIds : c \in connections \/ (cur[a] = c /\ at[a] \in AtHold) =>
            c \in connections' \/ (cur'[a] = c /\ at'[a] \in AtHold)
  PROVE  ValidatorOK'
  <1> USE DEF ValidatorOK, validatorVars, mapVars
  <1>1. InstancesOK'
    BY DEF InstancesOK, IsSafety
  <1>2. \A b \in Threads : at'[b] = "insert" =>
          b # a /\ at[b] = "insert" /\ cur'[b] = cur[b] /\ cur[b] # NoConn
    BY DEF RefOK, CurOK
  <1>3. FreshOK'
    <2>1. \A b, d \in Threads : b # d /\ at'[b] = "insert" => cur'[d] # cur'[b]
      BY <1>2 DEF FreshOK
    <2>2. \A b \in Threads : at'[b] = "insert" => cur'[b] \notin connections'
      BY <1>2 DEF FreshOK
    <2>3. \A b \in Clients : step'[b] \in Unmade => b # a /\ b \in Threads /\ step[b] \in Unmade
      BY DEF Unmade, Threads
    <2>4. \A b \in Clients : step'[b] \in Unmade => \A i \in ConnIds : instances'[i] # cur'[b]
      BY <2>3 DEF FreshOK
    <2> QED
      BY <2>1, <2>2, <2>4 DEF FreshOK
  <1>4. \A b \in Clients : step[b] # "done" => b # a /\ b \in Threads
    BY DEF Threads
  <1>5. \A i \in ConnIds : Linked(i) => Linked(i)'
    BY <1>4 DEF Linked
  <1>6. \A b \in Clients : /\ Creating(b)' <=> Creating(b)
                           /\ Creating(b) => cur'[b] = cur[b]
    BY <1>4 DEF Creating
  <1>7. LinkOK'
    BY <1>4, <1>5, <1>6 DEF LinkOK, Apart
  <1>8. HeldOK'
    <2>1. ASSUME NEW i \in ConnIds, instances[i] # NoConn, Attended(i) PROVE Attended(i)'
      <3>1. instances[i] \in ConnIds
        BY <2>1 DEF RefOK, TypeOK, ValidatorTypeOK
      <3> QED
        BY <2>1, <3>1 DEF Attended, AtHold
    <2> QED
      BY <2>1 DEF HeldOK, Apart
  <1> QED
    BY <1>1, <1>3, <1>7, <1>8

\* The validator's invariants are preserved.
LEMMA ValidatorStep == RefOK /\ ValidatorOK /\ [Next]_vars => ValidatorOK'
  <1> SUFFICES ASSUME RefOK, ValidatorOK, [Next]_vars PROVE ValidatorOK'
    OBVIOUS
  <1>1. ASSUME NEW a \in Clients, NEW t \in Triads, NEW s \in Segments \cup {NotSafety},
                Validate(a, t, s),
                UNCHANGED watchdog_running
        PROVE  ValidatorOK'
    <2>1. UNCHANGED validatorVars /\ UNCHANGED <<segment, next_connection_id>>
      BY <1>1 DEF Validate, managerVars
    <2>2. UNCHANGED <<connections, at, cur>>
      BY <1>1 DEF Validate, managerVars
    <2>3. \A b \in Clients : /\ step'[b] \in Unmade => step[b] \in Unmade
                             /\ step'[b] = "index" <=> step[b] = "index"
                             /\ Creating(b)' => Creating(b)
      BY <1>1 DEF Validate, Unmade, Creating
    <2> QED
      BY <2>1, <2>2, <2>3, StillStep
  <1>2. ASSUME NEW a \in Clients, TriadInUse(a),
                UNCHANGED watchdog_running
        PROVE  ValidatorOK'
    <2>1. UNCHANGED validatorVars /\ UNCHANGED <<segment, next_connection_id>>
      BY <1>2 DEF TriadInUse, managerVars
    <2>2. UNCHANGED <<connections, at, cur>>
      BY <1>2 DEF TriadInUse, managerVars
    <2>3. \A b \in Clients : /\ step'[b] \in Unmade => step[b] \in Unmade
                             /\ step'[b] = "index" <=> step[b] = "index"
                             /\ Creating(b)' => Creating(b)
      BY <1>2 DEF TriadInUse, Unmade, Creating
    <2> QED
      BY <2>1, <2>2, <2>3, StillStep
  <1>3. ASSUME NEW a \in Clients, Allocate(a),
                UNCHANGED watchdog_running
        PROVE  ValidatorOK'
    <2> USE <1>3 DEF RefOK, TypeOK, ValidatorOK
    <2>1. PICK p \in Profiles : ForwardOpenCheck(a, request[a].triad, p)
      BY DEF Allocate
    <2>2. NewId = next_connection_id + 1 /\ next_connection_id \in Nat /\ NewId \in ConnIds
      BY <2>1 DEF NewId, TableTypeOK, ForwardOpenCheck, ConnIds
    <2>3. NewId \notin connections /\ \A b \in Threads : cur[b] # NewId
      BY <2>2 DEF CurOK, TableTypeOK
    <2>4. \A j \in ConnIds : instances[j] # NewId
      BY <2>2 DEF InstancesOK, NoConn
    <2>5. \A b \in Threads : b # a => at'[b] = at[b] /\ cur'[b] = cur[b]
      BY <2>1 DEF ForwardOpenCheck, Goto
    <2>6. /\ cur'[a] = NewId /\ at'[a] = "insert" /\ at[a] = "idle"
          /\ connections' = connections /\ a \in Threads
      BY <2>1 DEF ForwardOpenCheck, LabelTypeOK, Threads, Goto
    <2>7. UNCHANGED <<next_instance_id, instances, conn_to_instance, instance_id, overlapped>>
      BY DEF Allocate, validatorVars, mapVars
    <2>8. next_connection_id' = NewId
      BY <2>1 DEF ForwardOpenCheck, NewId
    <2>9. /\ \A b \in Clients : b # a => step'[b] = step[b]
          /\ step'[a] \in {"owner", "done"}
      BY DEF Allocate, OpeningTypeOK
    <2>10. InstancesOK'
      <3>1. \A c \in ConnIds : c # NewId => segment'[c] = segment[c]
        BY DEF Allocate
      <3> QED
        BY <2>2, <2>4, <2>7, <2>8, <3>1 DEF InstancesOK, IsSafety, ValidatorTypeOK, ConnIds
    <2>11. FreshOK'
      <3>1. \A b, d \in Threads : b # d /\ at'[b] = "insert" => cur'[d] # cur'[b]
        BY <2>3, <2>5, <2>6 DEF FreshOK
      <3>2. \A b \in Threads : at'[b] = "insert" => cur'[b] \notin connections'
        BY <2>3, <2>5, <2>6 DEF FreshOK
      <3>3. \A b \in Clients : step'[b] \in Unmade => \A i \in ConnIds : instances'[i] # cur'[b]
        BY <2>4, <2>5, <2>6, <2>7, <2>9 DEF FreshOK, Threads
      <3> QED
        BY <3>1, <3>2, <3>3 DEF FreshOK
    <2>12. LinkOK'
      <3>1. \A b \in Clients : step[b] # "done" => b # a /\ b \in Threads
        BY <2>6 DEF StepOK, Threads
      <3>2. \A b \in Clients : Creating(b)' => Creating(b) /\ b # a
        BY <2>9 DEF Creating
      <3>3. \A i \in ConnIds : Linked(i) => Linked(i)'
        BY <2>5, <2>6, <2>7, <2>9, <3>1 DEF Linked
      <3> QED
        BY <2>5, <2>6, <2>7, <2>9, <3>1, <3>2, <3>3 DEF LinkOK, Apart, Threads
    <2>13. HeldOK'
      BY <2>5, <2>6, <2>7 DEF HeldOK, Apart, Attended
    <2> QED
      BY <2>10, <2>11, <2>12, <2>13
  <1>4. ASSUME NEW a \in Clients, ConfigureOwner(a),
                UNCHANGED watchdog_running
        PROVE  ValidatorOK'
    <2>1. UNCHANGED validatorVars /\ UNCHANGED <<segment, next_connection_id>>
      BY <1>4 DEF ConfigureOwner, Configure, managerVars
    <2>2. UNCHANGED <<connections, at, cur>>
      BY <1>4 DEF ConfigureOwner, Configure, managerVars
    <2>3. \A b \in Clients : /\ step'[b] \in Unmade => step[b] \in Unmade
                             /\ step'[b] = "index" <=> step[b] = "index"
                             /\ Creating(b)' => Creating(b)
      BY <1>4 DEF ConfigureOwner, Configure, RefOK, TypeOK, OpeningTypeOK, Unmade, Creating
    <2> QED
      BY <2>1, <2>2, <2>3, StillStep
  <1>5. ASSUME NEW a \in Clients, ConfigureScid(a),
                UNCHANGED watchdog_running
        PROVE  ValidatorOK'
    <2>1. UNCHANGED validatorVars /\ UNCHANGED <<segment, next_connection_id>>
      BY <1>5 DEF ConfigureScid, Configure, managerVars
    <2>2. UNCHANGED <<connections, at, cur>>
      BY <1>5 DEF ConfigureScid, Configure, managerVars
    <2>3. \A b \in Clients : /\ step'[b] \in Unmade => step[b] \in Unmade
                             /\ step'[b] = "index" <=> step[b] = "index"
                             /\ Creating(b)' => Creating(b)
      BY <1>5 DEF ConfigureScid, Configure, RefOK, TypeOK, OpeningTypeOK, Unmade, Creating
    <2> QED
      BY <2>1, <2>2, <2>3, StillStep
  <1>6. ASSUME NEW a \in Clients, ReadInstanceId(a),
                UNCHANGED watchdog_running
        PROVE  ValidatorOK'
    <2> USE <1>6 DEF RefOK, TypeOK, ValidatorOK
    <2>1. at[a] = "insert" /\ a \in Threads /\ step[a] = "id" /\ step'[a] = "count"
      BY DEF ReadInstanceId, Configure, OpeningTypeOK, Threads
    <2>2. \A b \in Clients : b # a => step'[b] = step[b]
      BY DEF ReadInstanceId, Configure
    <2>3. UNCHANGED <<connections, next_connection_id, at, cur, segment>>
      BY DEF ReadInstanceId, Configure, managerVars
    <2>4. UNCHANGED <<next_instance_id, instances, conn_to_instance>>
      BY DEF ReadInstanceId, mapVars
    <2>5. \A b \in Threads : b # a => instance_id'[b] = instance_id[b]
      BY DEF ReadInstanceId
    <2>6. /\ overlapped \subseteq overlapped'
          /\ \A b \in Clients : b # a /\ Creating(b) => {cur[a], cur[b]} \subseteq overlapped'
      BY DEF ReadInstanceId, Midway
    <2>7. InstancesOK'
      BY <2>3, <2>4 DEF InstancesOK, IsSafety
    <2>8. FreshOK'
      BY <2>1, <2>2, <2>3, <2>4 DEF FreshOK, Unmade
    <2>9. LinkOK'
      <3>1. \A b \in Clients : b # a => (Creating(b)' <=> Creating(b))
        BY <2>2 DEF Creating
      <3>2. \A i \in ConnIds : Linked(i) => Linked(i)'
        BY <2>1, <2>2, <2>3, <2>4, <2>5 DEF Linked
      <3> QED
        BY <2>1, <2>2, <2>3, <2>4, <2>5, <2>6, <3>1, <3>2 DEF LinkOK, Apart
    <2>10. HeldOK'
      BY <2>1, <2>3, <2>4, <2>5, <2>6 DEF HeldOK, Apart, Attended
    <2> QED
      BY <2>7, <2>8, <2>9, <2>10
  <1>7. ASSUME NEW a \in Clients, NextInstanceId(a),
                UNCHANGED watchdog_running
        PROVE  ValidatorOK'
    <2> USE <1>7 DEF RefOK, TypeOK, ValidatorOK
    <2>1. at[a] = "insert" /\ a \in Threads /\ step[a] = "count" /\ step'[a] = "instance"
      BY DEF NextInstanceId, Configure, OpeningTypeOK, Threads
    <2>2. \A b \in Clients : b # a => step'[b] = step[b]
      BY DEF NextInstanceId, Configure
    <2>3. UNCHANGED <<connections, next_connection_id, at, cur, segment>>
      BY DEF NextInstanceId, Configure, managerVars
    <2>4. UNCHANGED <<instances, conn_to_instance, overlapped>>
      BY DEF NextInstanceId, mapVars
    <2>5. \A b \in Threads : b # a => instance_id'[b] = instance_id[b]
      BY DEF NextInstanceId
    <2>6. InstancesOK'
      BY <2>3, <2>4 DEF InstancesOK, IsSafety
    <2>7. FreshOK'
      BY <2>1, <2>2, <2>3, <2>4 DEF FreshOK, Unmade
    <2>8. \A b \in Clients : cur[b] \notin overlapped => step[b] # "index" /\ step'[b] # "index"
      BY <2>1, <2>2 DEF LinkOK, Creating
    <2>9. LinkOK'
      <3>1. \A b \in Clients : Creating(b)' <=> Creating(b)
        BY <2>1, <2>2 DEF Creating
      <3>2. ASSUME NEW i \in ConnIds, Apart(i), Linked(i) PROVE Linked(i)'
        BY <2>1, <2>3, <2>4, <2>5, <2>8, <3>2 DEF Linked, Apart
      <3> QED
        BY <2>1, <2>3, <2>4, <2>5, <2>8, <3>1, <3>2 DEF LinkOK, Apart
    <2>10. HeldOK'
      BY <2>1, <2>3, <2>4, <2>5 DEF HeldOK, Apart, Attended
    <2> QED
      BY <2>6, <2>7, <2>9, <2>10
  <1>8. ASSUME NEW a \in Clients, CreateInstance(a),
                UNCHANGED watchdog_running
        PROVE  ValidatorOK'
    <2> USE <1>8 DEF RefOK, TypeOK, ValidatorOK
    <2>1. at[a] = "insert" /\ a \in Threads /\ step[a] = "instance" /\ step'[a] = "index"
      BY DEF CreateInstance, Configure, OpeningTypeOK, Threads
    <2>2. \A b \in Clients : b # a => step'[b] = step[b]
      BY DEF CreateInstance, Configure
    <2>3. UNCHANGED <<connections, next_connection_id, at, cur, segment>>
      BY DEF CreateInstance, Configure, managerVars
    <2>4. UNCHANGED <<next_instance_id, conn_to_instance, instance_id, overlapped>>
      BY DEF CreateInstance
    <2>5. cur[a] \in 1..next_connection_id /\ cur[a] \in ConnIds /\ IsSafety(cur[a])
      BY <2>1 DEF CurOK, LabelTypeOK, NoConn, StepOK
    <2>6. \A i \in ConnIds : instances[i] # cur[a]
      BY <2>1 DEF FreshOK, Unmade
    <2>7. /\ \A i \in ConnIds : i # next_instance_id => instances'[i] = instances[i]
          /\ \A i \in ConnIds : i = next_instance_id => instances'[i] = cur[a]
      BY DEF CreateInstance, ValidatorTypeOK
    <2>8. InstancesOK'
      <3>1. \A i \in ConnIds : instances'[i] # NoConn =>
              instances'[i] <= next_connection_id' /\ segment'[instances'[i]] # NotSafety
        BY <2>3, <2>5, <2>7 DEF InstancesOK, IsSafety
      <3>2. \A i, j \in ConnIds : instances'[i] = instances'[j] /\ instances'[i] # NoConn => i = j
        BY <2>6, <2>7 DEF InstancesOK
      <3> QED
        BY <3>1, <3>2 DEF InstancesOK, IsSafety
    <2>9. FreshOK'
      <3>1. \A b \in Clients : step'[b] \in Unmade => b # a /\ step[b] \in Unmade /\ cur[b] # cur[a]
        BY <2>1, <2>2 DEF FreshOK, Unmade, Threads
      <3> QED
        BY <2>3, <2>7, <3>1 DEF FreshOK
    <2>10. LinkOK'
      <3>1. \A b \in Clients : Creating(b)' <=> Creating(b)
        BY <2>1, <2>2 DEF Creating
      <3>2. \A b \in Clients : step'[b] = "index" /\ cur[b] \notin overlapped => b = a
        BY <2>1, <2>2 DEF LinkOK, Creating
      <3>3. \A i \in ConnIds : instances'[i] = cur[a] => i = next_instance_id
        BY <2>6, <2>7
      <3>4. ASSUME NEW i \in ConnIds, Apart(i) => Linked(i), Apart(i)'
            PROVE  Linked(i)'
        <4>1. CASE i = next_instance_id
          BY <2>1, <2>3, <2>4, <2>7, <4>1 DEF Linked
        <4>2. CASE i # next_instance_id
          BY <2>1, <2>2, <2>3, <2>4, <2>7, <3>4, <4>2 DEF Linked, Apart
        <4> QED
          BY <4>1, <4>2
      <3> QED
        BY <2>3, <2>4, <3>1, <3>2, <3>3, <3>4 DEF LinkOK, Apart
    <2>11. HeldOK'
      <3>1. ASSUME NEW i \in ConnIds, Apart(i) => Attended(i), Apart(i)'
            PROVE  Attended(i)'
        <4>1. CASE i = next_instance_id
          BY <2>1, <2>3, <2>7, <4>1 DEF Attended
        <4>2. CASE i # next_instance_id
          BY <2>3, <2>4, <2>7, <3>1, <4>2 DEF Attended, Apart
        <4> QED
          BY <4>1, <4>2
      <3> QED
        BY <2>4, <3>1 DEF HeldOK, Apart
    <2> QED
      BY <2>8, <2>9, <2>10, <2>11
  <1>9. ASSUME NEW a \in Clients, IndexInstance(a),
                UNCHANGED watchdog_running
        PROVE  ValidatorOK'
    <2> USE <1>9 DEF RefOK, TypeOK, ValidatorOK
    <2>1. at[a] = "insert" /\ a \in Threads /\ step[a] = "index" /\ step'[a] = "done"
      BY DEF IndexInstance, Configure, OpeningTypeOK, Threads
    <2>2. \A b \in Clients : b # a => step'[b] = step[b]
      BY DEF IndexInstance, Configure
    <2>3. UNCHANGED <<connections, next_connection_id, at, cur, segment>>
      BY DEF IndexInstance, Configure, managerVars
    <2>4. UNCHANGED <<next_instance_id, instances, instance_id, overlapped>>
      BY DEF IndexInstance
    <2>5. cur[a] \in ConnIds
      BY <2>1 DEF CurOK, LabelTypeOK, NoConn
    <2>6. /\ conn_to_instance'[cur[a]] = next_instance_id
          /\ \A c \in ConnIds : c # cur[a] => conn_to_instance'[c] = conn_to_instance[c]
      BY <2>5 DEF IndexInstance, ValidatorTypeOK
    <2>7. InstancesOK'
      BY <2>3, <2>4 DEF InstancesOK, IsSafety
    <2>8. FreshOK'
      <3>1. \A b \in Clients : step'[b] \in Unmade => step[b] \in Unmade
        BY <2>1, <2>2 DEF Unmade
      <3> QED
        BY <2>3, <2>4, <3>1 DEF FreshOK
    <2>9. LinkOK'
      <3>1. \A b \in Clients : Creating(b)' => Creating(b)
        BY <2>1, <2>2 DEF Creating
      <3>2. \A b \in Threads : at[b] = "forget" => cur[b] # cur[a] /\ cur[b] \in ConnIds
        BY <2>1 DEF FreshOK, CurOK, LabelTypeOK
      <3>3. ASSUME NEW i \in ConnIds, Apart(i), Linked(i)
            PROVE  Linked(i)'
        <4>1. CASE instances[i] = cur[a]
          <5>1. i = next_instance_id
            BY <2>1, <3>3, <4>1 DEF LinkOK, Apart
          <5> QED
            BY <2>4, <2>6, <4>1, <5>1 DEF Linked
        <4>2. CASE instances[i] # cur[a]
          <5>1. instances[i] \in ConnIds
            BY <3>3 DEF ValidatorTypeOK, Apart
          <5> QED
            BY <2>2, <2>3, <2>4, <2>6, <3>3, <4>2, <5>1 DEF Linked
        <4> QED
          BY <4>1, <4>2
      <3>4. \A b \in Threads : at'[b] = "forget" => conn_to_instance'[cur'[b]] \in {0, instance_id'[b]}
        BY <2>3, <2>4, <2>6, <3>2 DEF LinkOK, Apart
      <3>5. \A b \in Clients : step'[b] = "index" => step[b] = "index"
        BY <2>1, <2>2
      <3> QED
        BY <2>3, <2>4, <3>1, <3>3, <3>4, <3>5 DEF LinkOK, Apart
    <2>10. HeldOK'
      BY <2>3, <2>4 DEF HeldOK, Apart, Attended
    <2> QED
      BY <2>7, <2>8, <2>9, <2>10
  <1>10. ASSUME NEW a \in Clients, Insert(a),
                UNCHANGED watchdog_running
        PROVE  ValidatorOK'
    <2> USE <1>10
    <2>1. UNCHANGED validatorVars /\ UNCHANGED <<segment, next_connection_id, step>>
      BY DEF Insert, ForwardOpenInsert, SafetyUnchanged, openingVars
    <2>2. a \in Threads /\ \A b \in Threads : b # a => at'[b] = at[b] /\ cur'[b] = cur[b]
      BY DEF Insert, ForwardOpenInsert, SafetyUnchanged, Goto, Threads
    <2>3. at[a] \notin {"forget", "detach"} /\ at'[a] \notin {"insert", "forget", "detach"}
      BY <2>2 DEF Insert, ForwardOpenInsert, SafetyUnchanged, Goto, RefOK, TypeOK, LabelTypeOK
    <2>4. a \in Clients => step[a] = "done"
      BY DEF Insert, ForwardOpenInsert, SafetyUnchanged, RefOK, StepOK
    <2>5. cur'[a] \in connections \cup {NoConn, cur[a]} /\ connections' \subseteq connections \cup {cur[a]}
      BY <2>2 DEF Insert, ForwardOpenInsert, SafetyUnchanged, RefOK, TypeOK, LabelTypeOK
    <2>6. \A d \in ConnIds : d \in connections \/ (cur[a] = d /\ at[a] \in AtHold) =>
            d \in connections' \/ (cur'[a] = d /\ at'[a] \in AtHold)
      BY <2>2 DEF Insert, ForwardOpenInsert, SafetyUnchanged, Goto, AtHold, RefOK, TypeOK, LabelTypeOK
    <2> QED
      BY <2>1, <2>2, <2>3, <2>4, <2>5, <2>6, MoveStep
  <1>11. ASSUME NEW a \in Clients, Reply(a),
                UNCHANGED watchdog_running
        PROVE  ValidatorOK'
    <2> USE <1>11
    <2>1. UNCHANGED validatorVars /\ UNCHANGED <<segment, next_connection_id, step>>
      BY DEF Reply, Finish, tableVars, SafetyUnchanged, openingVars
    <2>2. a \in Threads /\ \A b \in Threads : b # a => at'[b] = at[b] /\ cur'[b] = cur[b]
      BY DEF Reply, Finish, tableVars, SafetyUnchanged, Goto, Threads
    <2>3. at[a] \notin {"forget", "detach"} /\ at'[a] \notin {"insert", "forget", "detach"}
      BY <2>2 DEF Reply, Finish, tableVars, SafetyUnchanged, Goto, RefOK, TypeOK, LabelTypeOK
    <2>4. a \in Clients => step[a] = "done"
      BY DEF Reply, Finish, tableVars, SafetyUnchanged, RefOK, StepOK
    <2>5. cur'[a] \in connections \cup {NoConn, cur[a]} /\ connections' \subseteq connections \cup {cur[a]}
      BY <2>2 DEF Reply, Finish, tableVars, SafetyUnchanged, RefOK, TypeOK, LabelTypeOK
    <2>6. \A d \in ConnIds : d \in connections \/ (cur[a] = d /\ at[a] \in AtHold) =>
            d \in connections' \/ (cur'[a] = d /\ at'[a] \in AtHold)
      BY <2>2 DEF Reply, Finish, tableVars, SafetyUnchanged, Goto, AtHold, RefOK, TypeOK, LabelTypeOK
    <2> QED
      BY <2>1, <2>2, <2>3, <2>4, <2>5, <2>6, MoveStep
  <1>12. ASSUME NEW a \in Clients, SafetyReset(a),
                UNCHANGED watchdog_running
        PROVE  ValidatorOK'
    <2>1. UNCHANGED validatorVars /\ UNCHANGED <<segment, next_connection_id>>
      BY <1>12 DEF SafetyReset, managerVars, openingVars
    <2>2. UNCHANGED <<connections, at, cur>>
      BY <1>12 DEF SafetyReset, managerVars, openingVars
    <2>3. \A b \in Clients : /\ step'[b] \in Unmade => step[b] \in Unmade
                             /\ step'[b] = "index" <=> step[b] = "index"
                             /\ Creating(b)' => Creating(b)
      BY <1>12 DEF SafetyReset, openingVars, Unmade, Creating
    <2> QED
      BY <2>1, <2>2, <2>3, StillStep
  <1>13. ASSUME NEW a \in Clients, NEW c \in ConnIds, ForwardClose(a, c),
                UNCHANGED watchdog_running
        PROVE  ValidatorOK'
    <2> USE <1>13
    <2>1. UNCHANGED validatorVars /\ UNCHANGED <<segment, next_connection_id, step>>
      BY DEF ForwardClose, ForwardClosePop, SafetyUnchanged, openingVars
    <2>2. a \in Threads /\ \A b \in Threads : b # a => at'[b] = at[b] /\ cur'[b] = cur[b]
      BY DEF ForwardClose, ForwardClosePop, SafetyUnchanged, Goto, Threads
    <2>3. at[a] \notin {"forget", "detach"} /\ at'[a] \notin {"insert", "forget", "detach"}
      BY <2>2 DEF ForwardClose, ForwardClosePop, SafetyUnchanged, Goto, RefOK, TypeOK, LabelTypeOK
    <2>4. a \in Clients => step[a] = "done"
      BY DEF ForwardClose, ForwardClosePop, SafetyUnchanged, RefOK, StepOK
    <2>5. cur'[a] \in connections \cup {NoConn, cur[a]} /\ connections' \subseteq connections \cup {cur[a]}
      BY <2>2 DEF ForwardClose, ForwardClosePop, SafetyUnchanged, RefOK, TypeOK, LabelTypeOK
    <2>6. \A d \in ConnIds : d \in connections \/ (cur[a] = d /\ at[a] \in AtHold) =>
            d \in connections' \/ (cur'[a] = d /\ at'[a] \in AtHold)
      BY <2>2 DEF ForwardClose, ForwardClosePop, SafetyUnchanged, Goto, AtHold, RefOK, TypeOK, LabelTypeOK
    <2> QED
      BY <2>1, <2>2, <2>3, <2>4, <2>5, <2>6, MoveStep
  <1>14. ASSUME NEW c \in ConnIds, Decide(Watchdog, c, "expire"),
                UNCHANGED watchdog_running
        PROVE  ValidatorOK'
    <2> USE <1>14
    <2>1. UNCHANGED validatorVars /\ UNCHANGED <<segment, next_connection_id, step>>
      BY DEF Decide, tableVars, SafetyUnchanged, openingVars
    <2>2. Watchdog \in Threads /\ \A b \in Threads : b # Watchdog => at'[b] = at[b] /\ cur'[b] = cur[b]
      BY DEF Decide, tableVars, SafetyUnchanged, Goto, Threads
    <2>3. at[Watchdog] \notin {"forget", "detach"} /\ at'[Watchdog] \notin {"insert", "forget", "detach"}
      BY <2>2 DEF Decide, tableVars, SafetyUnchanged, Goto, RefOK, TypeOK, LabelTypeOK
    <2>4. Watchdog \in Clients => step[Watchdog] = "done"
      BY DEF Decide, tableVars, SafetyUnchanged, RefOK, StepOK
    <2>5. cur'[Watchdog] \in connections \cup {NoConn, cur[Watchdog]} /\ connections' \subseteq connections \cup {cur[Watchdog]}
      BY <2>2 DEF Decide, tableVars, SafetyUnchanged, RefOK, TypeOK, LabelTypeOK
    <2>6. \A d \in ConnIds : d \in connections \/ (cur[Watchdog] = d /\ at[Watchdog] \in AtHold) =>
            d \in connections' \/ (cur'[Watchdog] = d /\ at'[Watchdog] \in AtHold)
      BY <2>2 DEF Decide, tableVars, SafetyUnchanged, Goto, AtHold, RefOK, TypeOK, LabelTypeOK
    <2> QED
      BY <2>1, <2>2, <2>3, <2>4, <2>5, <2>6, MoveStep
  <1>15. ASSUME NEW c \in ConnIds, Decide(App, c, "pop"),
                UNCHANGED watchdog_running
        PROVE  ValidatorOK'
    <2> USE <1>15
    <2>1. UNCHANGED validatorVars /\ UNCHANGED <<segment, next_connection_id, step>>
      BY DEF Decide, tableVars, SafetyUnchanged, openingVars
    <2>2. App \in Threads /\ \A b \in Threads : b # App => at'[b] = at[b] /\ cur'[b] = cur[b]
      BY DEF Decide, tableVars, SafetyUnchanged, Goto, Threads
    <2>3. at[App] \notin {"forget", "detach"} /\ at'[App] \notin {"insert", "forget", "detach"}
      BY <2>2 DEF Decide, tableVars, SafetyUnchanged, Goto, RefOK, TypeOK, LabelTypeOK
    <2>4. App \in Clients => step[App] = "done"
      BY DEF Decide, tableVars, SafetyUnchanged, RefOK, StepOK
    <2>5. cur'[App] \in connections \cup {NoConn, cur[App]} /\ connections' \subseteq connections \cup {cur[App]}
      BY <2>2 DEF Decide, tableVars, SafetyUnchanged, RefOK, TypeOK, LabelTypeOK
    <2>6. \A d \in ConnIds : d \in connections \/ (cur[App] = d /\ at[App] \in AtHold) =>
            d \in connections' \/ (cur'[App] = d /\ at'[App] \in AtHold)
      BY <2>2 DEF Decide, tableVars, SafetyUnchanged, Goto, AtHold, RefOK, TypeOK, LabelTypeOK
    <2> QED
      BY <2>1, <2>2, <2>3, <2>4, <2>5, <2>6, MoveStep
  <1>16. ASSUME NEW a \in Threads, TimeoutMark(a), SafetyUnchanged,
                UNCHANGED watchdog_running
        PROVE  ValidatorOK'
    <2> USE <1>16
    <2>1. UNCHANGED validatorVars /\ UNCHANGED <<segment, next_connection_id, step>>
      BY DEF TimeoutMark, SafetyUnchanged, openingVars
    <2>2. a \in Threads /\ \A b \in Threads : b # a => at'[b] = at[b] /\ cur'[b] = cur[b]
      BY DEF TimeoutMark, SafetyUnchanged, Goto, RefOK, TypeOK, LabelTypeOK
    <2>3. at[a] \notin {"forget", "detach"} /\ at'[a] \notin {"insert", "forget", "detach"}
      BY <2>2 DEF TimeoutMark, SafetyUnchanged, Goto, RefOK, TypeOK, LabelTypeOK
    <2>4. a \in Clients => step[a] = "done"
      BY DEF TimeoutMark, SafetyUnchanged, RefOK, StepOK
    <2>5. cur'[a] \in connections \cup {NoConn, cur[a]} /\ connections' \subseteq connections \cup {cur[a]}
      BY <2>2 DEF TimeoutMark, SafetyUnchanged, RefOK, TypeOK, LabelTypeOK
    <2>6. \A d \in ConnIds : d \in connections \/ (cur[a] = d /\ at[a] \in AtHold) =>
            d \in connections' \/ (cur'[a] = d /\ at'[a] \in AtHold)
      BY <2>2 DEF TimeoutMark, SafetyUnchanged, Goto, AtHold, RefOK, TypeOK, LabelTypeOK
    <2> QED
      BY <2>1, <2>2, <2>3, <2>4, <2>5, <2>6, MoveStep
  <1>17. ASSUME NEW a \in Threads, RemovePop(a), SafetyUnchanged,
                UNCHANGED watchdog_running
        PROVE  ValidatorOK'
    <2> USE <1>17
    <2>1. UNCHANGED validatorVars /\ UNCHANGED <<segment, next_connection_id, step>>
      BY DEF RemovePop, SafetyUnchanged, openingVars
    <2>2. a \in Threads /\ \A b \in Threads : b # a => at'[b] = at[b] /\ cur'[b] = cur[b]
      BY DEF RemovePop, SafetyUnchanged, Goto, RefOK, TypeOK, LabelTypeOK
    <2>3. at[a] \notin {"forget", "detach"} /\ at'[a] \notin {"insert", "forget", "detach"}
      BY <2>2 DEF RemovePop, SafetyUnchanged, Goto, RefOK, TypeOK, LabelTypeOK
    <2>4. a \in Clients => step[a] = "done"
      BY DEF RemovePop, SafetyUnchanged, RefOK, StepOK
    <2>5. cur'[a] \in connections \cup {NoConn, cur[a]} /\ connections' \subseteq connections \cup {cur[a]}
      BY <2>2 DEF RemovePop, SafetyUnchanged, RefOK, TypeOK, LabelTypeOK
    <2>6. \A d \in ConnIds : d \in connections \/ (cur[a] = d /\ at[a] \in AtHold) =>
            d \in connections' \/ (cur'[a] = d /\ at'[a] \in AtHold)
      BY <2>2 DEF RemovePop, SafetyUnchanged, Goto, AtHold, RefOK, TypeOK, LabelTypeOK
    <2> QED
      BY <2>1, <2>2, <2>3, <2>4, <2>5, <2>6, MoveStep
  <1>18. ASSUME NEW a \in Threads, RemoveClose(a), SafetyUnchanged,
                UNCHANGED watchdog_running
        PROVE  ValidatorOK'
    <2> USE <1>18
    <2>1. UNCHANGED validatorVars /\ UNCHANGED <<segment, next_connection_id, step>>
      BY DEF RemoveClose, SafetyUnchanged, openingVars
    <2>2. a \in Threads /\ \A b \in Threads : b # a => at'[b] = at[b] /\ cur'[b] = cur[b]
      BY DEF RemoveClose, SafetyUnchanged, Goto, RefOK, TypeOK, LabelTypeOK
    <2>3. at[a] \notin {"forget", "detach"} /\ at'[a] \notin {"insert", "forget", "detach"}
      BY <2>2 DEF RemoveClose, SafetyUnchanged, Goto, RefOK, TypeOK, LabelTypeOK
    <2>4. a \in Clients => step[a] = "done"
      BY DEF RemoveClose, SafetyUnchanged, RefOK, StepOK
    <2>5. cur'[a] \in connections \cup {NoConn, cur[a]} /\ connections' \subseteq connections \cup {cur[a]}
      BY <2>2 DEF RemoveClose, SafetyUnchanged, RefOK, TypeOK, LabelTypeOK
    <2>6. \A d \in ConnIds : d \in connections \/ (cur[a] = d /\ at[a] \in AtHold) =>
            d \in connections' \/ (cur'[a] = d /\ at'[a] \in AtHold)
      BY <2>2 DEF RemoveClose, SafetyUnchanged, Goto, AtHold, RefOK, TypeOK, LabelTypeOK
    <2> QED
      BY <2>1, <2>2, <2>3, <2>4, <2>5, <2>6, MoveStep
  <1>19. ASSUME NEW a \in Threads, FindInstance(a),
                UNCHANGED watchdog_running
        PROVE  ValidatorOK'
    <2> USE <1>19 DEF RefOK, TypeOK, ValidatorOK
    <2>1. at[a] = "callbacks" /\ cur[a] \in ConnIds
      BY DEF FindInstance, CurOK, LabelTypeOK
    <2>2. UNCHANGED <<connections, next_connection_id, segment, step>>
      BY DEF FindInstance, Finish, tableVars, openingVars
    <2>3. UNCHANGED <<next_instance_id, instances, conn_to_instance, overlapped>>
      BY DEF FindInstance, mapVars
    <2>4. \A b \in Threads : b # a => /\ at'[b] = at[b] /\ cur'[b] = cur[b]
                                      /\ instance_id'[b] = instance_id[b]
      BY DEF FindInstance, Finish, Goto, LabelTypeOK, ValidatorTypeOK
    <2>5. at'[a] \in {"idle", "survey", "forget"} /\ cur'[a] \in {NoConn, cur[a]}
      BY DEF FindInstance, Finish, Goto, LabelTypeOK
    <2>6. at'[a] = "forget" => cur'[a] = cur[a] /\ instance_id'[a] = conn_to_instance[cur[a]]
      BY DEF FindInstance, Finish, Goto, LabelTypeOK, ValidatorTypeOK
    <2>7. IsSafety(cur[a]) /\ conn_to_instance[cur[a]] # 0 => at'[a] = "forget"
      BY DEF FindInstance, Goto, LabelTypeOK
    <2>8. \A b \in Clients : step[b] # "done" => b # a /\ b \in Threads
      BY <2>1 DEF StepOK, Threads
    <2>9. InstancesOK'
      BY <2>2, <2>3 DEF InstancesOK, IsSafety
    <2>10. FreshOK'
      <3>1. \A b \in Threads : at'[b] = "insert" => b # a /\ at[b] = "insert" /\ cur[b] # NoConn
        BY <2>4, <2>5 DEF CurOK
      <3>2. \A b \in Clients : step'[b] \in Unmade => \A i \in ConnIds : instances'[i] # cur'[b]
        BY <2>2, <2>3, <2>4, <2>8 DEF FreshOK, Unmade
      <3> QED
        BY <2>2, <2>4, <2>5, <3>1, <3>2 DEF FreshOK
    <2>11. LinkOK'
      <3>1. \A i \in ConnIds : Linked(i) => Linked(i)'
        BY <2>1, <2>2, <2>3, <2>4, <2>8 DEF Linked
      <3>2. \A b \in Clients : Creating(b)' <=> Creating(b)
        BY <2>2 DEF Creating
      <3>3. \A b \in Threads : at'[b] = "forget" => conn_to_instance'[cur'[b]] \in {0, instance_id'[b]}
        BY <2>3, <2>4, <2>6 DEF LinkOK, Apart
      <3>4. \A b \in Clients : step'[b] = "index" => step[b] = "index" /\ cur'[b] = cur[b]
        BY <2>2, <2>4, <2>8
      <3>5. \A b \in Clients : Creating(b) => cur'[b] = cur[b]
        BY <2>4, <2>8 DEF Creating
      <3> QED
        BY <2>3, <3>1, <3>2, <3>3, <3>4, <3>5 DEF LinkOK, Apart
    <2>12. HeldOK'
      <3>1. ASSUME NEW i \in ConnIds, Apart(i) PROVE Attended(i)'
        <4>1. Attended(i) /\ Linked(i) /\ IsSafety(instances[i])
          BY <3>1 DEF HeldOK, Apart, LinkOK, InstancesOK
        <4>2. CASE instances[i] # cur[a]
          BY <2>2, <2>3, <2>4, <4>1, <4>2 DEF Attended
        <4>3. CASE instances[i] = cur[a]
          <5>1. \A b \in Clients : step[b] = "index" => cur[b] # cur[a]
            BY <2>8 DEF StepOK, FreshOK
          <5>2. \/ conn_to_instance[cur[a]] = i
                \/ \E b \in Threads : /\ cur[b] = instances[i] /\ instance_id[b] = i
                                      /\ at[b] \in {"forget", "detach"}
            BY <4>1, <4>3, <5>1 DEF Linked
          <5>3. CASE conn_to_instance[cur[a]] = i
            <6>1. at'[a] = "forget" /\ cur'[a] = instances[i] /\ instance_id'[a] = i
              BY <2>6, <2>7, <4>1, <4>3, <5>3 DEF ConnIds
            <6> QED
              BY <2>3, <6>1 DEF Attended
          <5>4. ASSUME NEW b \in Threads, cur[b] = instances[i], instance_id[b] = i,
                       at[b] \in {"forget", "detach"}
                PROVE  Attended(i)'
            <6>1. at'[b] = at[b] /\ cur'[b] = cur[b] /\ instance_id'[b] = i
              BY <2>1, <2>4, <5>4
            <6> QED
              BY <2>3, <5>4, <6>1 DEF Attended
          <5> QED
            BY <5>2, <5>3, <5>4
        <4> QED
          BY <4>2, <4>3
      <3> QED
        BY <2>3, <3>1 DEF HeldOK, Apart
    <2> QED
      BY <2>9, <2>10, <2>11, <2>12
  <1>20. ASSUME NEW a \in Threads, ForgetInstance(a),
                UNCHANGED watchdog_running
        PROVE  ValidatorOK'
    <2> USE <1>20 DEF RefOK, TypeOK, ValidatorOK
    <2>1. at[a] = "forget" /\ at'[a] = "detach" /\ cur[a] \in ConnIds
      BY DEF ForgetInstance, CurOK, LabelTypeOK, Goto
    <2>2. UNCHANGED <<connections, next_connection_id, segment, step, cur>>
      BY DEF ForgetInstance, tableVars, openingVars
    <2>3. UNCHANGED <<next_instance_id, instances, instance_id, overlapped>>
      BY DEF ForgetInstance
    <2>4. \A b \in Threads : b # a => at'[b] = at[b]
      BY DEF ForgetInstance, Goto
    <2>5. /\ conn_to_instance'[cur[a]] = 0
          /\ \A c \in ConnIds : c # cur[a] => conn_to_instance'[c] = conn_to_instance[c]
      BY <2>1 DEF ForgetInstance, ValidatorTypeOK
    <2>6. InstancesOK'
      BY <2>2, <2>3 DEF InstancesOK, IsSafety
    <2>7. FreshOK'
      <3>1. \A b \in Threads : at'[b] = "insert" => at[b] = "insert"
        BY <2>1, <2>4
      <3> QED
        BY <2>2, <2>3, <3>1 DEF FreshOK
    <2>8. LinkOK'
      <3>1. \A b \in Threads : at'[b] = "forget" => conn_to_instance'[cur'[b]] \in {0, instance_id'[b]}
        <4>1. \A b \in Threads : at'[b] = "forget" => at[b] = "forget" /\ cur[b] \in ConnIds
          BY <2>1, <2>4 DEF CurOK, LabelTypeOK
        <4> QED
          BY <2>2, <2>3, <2>5, <4>1 DEF LinkOK, Apart
      <3>2. ASSUME NEW i \in ConnIds, instances[i] # NoConn, Linked(i) PROVE Linked(i)'
        <4>1. instances[i] \in ConnIds
          BY <3>2 DEF ValidatorTypeOK
        <4>2. CASE conn_to_instance[instances[i]] = i /\ instances[i] = cur[a]
          <5>1. instance_id[a] = i
            BY <2>1, <4>2 DEF LinkOK, ConnIds
          <5> QED
            BY <2>1, <2>2, <2>3, <4>2, <5>1 DEF Linked
        <4>3. CASE conn_to_instance[instances[i]] = i /\ instances[i] # cur[a]
          BY <2>3, <2>5, <4>1, <4>3 DEF Linked
        <4>4. CASE conn_to_instance[instances[i]] # i
          BY <2>1, <2>2, <2>3, <2>4, <3>2, <4>4 DEF Linked
        <4> QED
          BY <4>2, <4>3, <4>4
      <3>3. \A b \in Clients : Creating(b)' <=> Creating(b)
        BY <2>2 DEF Creating
      <3> QED
        BY <2>2, <2>3, <3>1, <3>2, <3>3 DEF LinkOK, Apart
    <2>9. HeldOK'
      BY <2>1, <2>2, <2>3, <2>4 DEF HeldOK, Apart, Attended
    <2> QED
      BY <2>6, <2>7, <2>8, <2>9
  <1>21. ASSUME NEW a \in Threads, DetachInstance(a),
                UNCHANGED watchdog_running
        PROVE  ValidatorOK'
    <2> USE <1>21 DEF RefOK, TypeOK, ValidatorOK
    <2>1. at[a] = "detach" /\ at'[a] = "erase"
      BY DEF DetachInstance, ClearInstance, LabelTypeOK, Goto
    <2>2. UNCHANGED <<connections, next_connection_id, segment, step, cur>>
      BY DEF DetachInstance, ClearInstance, tableVars, openingVars
    <2>3. UNCHANGED <<next_instance_id, conn_to_instance, overlapped>>
      BY DEF DetachInstance, ClearInstance
    <2>4. \A b \in Threads : b # a => at'[b] = at[b] /\ instance_id'[b] = instance_id[b]
      BY DEF DetachInstance, ClearInstance, Goto, ValidatorTypeOK
    <2>5. \A i \in ConnIds : instances'[i] # NoConn => instances'[i] = instances[i] /\ i # instance_id[a]
      BY DEF DetachInstance, ClearInstance, ValidatorTypeOK
    <2>6. InstancesOK'
      BY <2>2, <2>5 DEF InstancesOK, IsSafety
    <2>7. FreshOK'
      <3>1. \A b \in Threads : at'[b] = "insert" => at[b] = "insert"
        BY <2>1, <2>4
      <3>2. \A b \in Clients : step'[b] \in Unmade => cur[b] # NoConn
        BY <2>2 DEF StepOK, CurOK, Unmade, Threads
      <3> QED
        BY <2>2, <2>5, <3>1, <3>2 DEF FreshOK
    <2>8. LinkOK'
      <3>1. \A b \in Threads : at'[b] = "forget" => conn_to_instance'[cur'[b]] \in {0, instance_id'[b]}
        BY <2>1, <2>2, <2>3, <2>4 DEF LinkOK, Apart
      <3>2. ASSUME NEW i \in ConnIds, instances'[i] # NoConn, Linked(i) PROVE Linked(i)'
        BY <2>1, <2>2, <2>3, <2>4, <2>5, <3>2 DEF Linked
      <3>3. \A b \in Clients : Creating(b)' <=> Creating(b)
        BY <2>2 DEF Creating
      <3>4. \A b \in Clients : step'[b] = "index" => cur[b] # NoConn
        BY <2>2 DEF StepOK, CurOK, Threads
      <3> QED
        BY <2>2, <2>3, <2>5, <3>1, <3>2, <3>3, <3>4 DEF LinkOK, Apart
    <2>9. HeldOK'
      <3>1. ASSUME NEW i \in ConnIds, instances'[i] # NoConn, Attended(i) PROVE Attended(i)'
        BY <2>1, <2>2, <2>4, <2>5, <3>1 DEF Attended
      <3> QED
        BY <2>3, <2>5, <3>1 DEF HeldOK, Apart
    <2> QED
      BY <2>6, <2>7, <2>8, <2>9
  <1>22. ASSUME NEW a \in Threads, EraseInstance(a),
                UNCHANGED watchdog_running
        PROVE  ValidatorOK'
    <2> USE <1>22 DEF RefOK, TypeOK, ValidatorOK
    <2>1. at[a] = "erase" /\ at'[a] = "survey"
      BY DEF EraseInstance, ClearInstance, LabelTypeOK, Goto
    <2>2. UNCHANGED <<connections, next_connection_id, segment, step, cur>>
      BY DEF EraseInstance, ClearInstance, tableVars, openingVars
    <2>3. UNCHANGED <<next_instance_id, conn_to_instance, overlapped>>
      BY DEF EraseInstance, ClearInstance
    <2>4. \A b \in Threads : b # a => at'[b] = at[b] /\ instance_id'[b] = instance_id[b]
      BY DEF EraseInstance, ClearInstance, Goto, ValidatorTypeOK
    <2>5. \A i \in ConnIds : instances'[i] # NoConn => instances'[i] = instances[i] /\ i # instance_id[a]
      BY DEF EraseInstance, ClearInstance, ValidatorTypeOK
    <2>6. InstancesOK'
      BY <2>2, <2>5 DEF InstancesOK, IsSafety
    <2>7. FreshOK'
      <3>1. \A b \in Threads : at'[b] = "insert" => at[b] = "insert"
        BY <2>1, <2>4
      <3>2. \A b \in Clients : step'[b] \in Unmade => cur[b] # NoConn
        BY <2>2 DEF StepOK, CurOK, Unmade, Threads
      <3> QED
        BY <2>2, <2>5, <3>1, <3>2 DEF FreshOK
    <2>8. LinkOK'
      <3>1. \A b \in Threads : at'[b] = "forget" => conn_to_instance'[cur'[b]] \in {0, instance_id'[b]}
        BY <2>1, <2>2, <2>3, <2>4 DEF LinkOK, Apart
      <3>2. ASSUME NEW i \in ConnIds, instances'[i] # NoConn, Linked(i) PROVE Linked(i)'
        BY <2>1, <2>2, <2>3, <2>4, <2>5, <3>2 DEF Linked
      <3>3. \A b \in Clients : Creating(b)' <=> Creating(b)
        BY <2>2 DEF Creating
      <3>4. \A b \in Clients : step'[b] = "index" => cur[b] # NoConn
        BY <2>2 DEF StepOK, CurOK, Threads
      <3> QED
        BY <2>2, <2>3, <2>5, <3>1, <3>2, <3>3, <3>4 DEF LinkOK, Apart
    <2>9. HeldOK'
      <3>1. ASSUME NEW i \in ConnIds, instances'[i] # NoConn, Attended(i) PROVE Attended(i)'
        BY <2>1, <2>2, <2>4, <2>5, <3>1 DEF Attended
      <3> QED
        BY <2>3, <2>5, <3>1 DEF HeldOK, Apart
    <2> QED
      BY <2>6, <2>7, <2>8, <2>9
  <1>23. ASSUME NEW a \in Threads, Survey(a),
                UNCHANGED watchdog_running
        PROVE  ValidatorOK'
    <2> USE <1>23
    <2>1. UNCHANGED validatorVars /\ UNCHANGED <<segment, next_connection_id, step>>
      BY DEF Survey, Finish, tableVars, SafetyUnchanged, openingVars
    <2>2. a \in Threads /\ \A b \in Threads : b # a => at'[b] = at[b] /\ cur'[b] = cur[b]
      BY DEF Survey, Finish, tableVars, SafetyUnchanged, Goto, RefOK, TypeOK, LabelTypeOK
    <2>3. at[a] \notin {"forget", "detach"} /\ at'[a] \notin {"insert", "forget", "detach"}
      BY <2>2 DEF Survey, Finish, tableVars, SafetyUnchanged, Goto, RefOK, TypeOK, LabelTypeOK
    <2>4. a \in Clients => step[a] = "done"
      BY DEF Survey, Finish, tableVars, SafetyUnchanged, RefOK, StepOK
    <2>5. cur'[a] \in connections \cup {NoConn, cur[a]} /\ connections' \subseteq connections \cup {cur[a]}
      BY <2>2 DEF Survey, Finish, tableVars, SafetyUnchanged, RefOK, TypeOK, LabelTypeOK
    <2>6. \A d \in ConnIds : d \in connections \/ (cur[a] = d /\ at[a] \in AtHold) =>
            d \in connections' \/ (cur'[a] = d /\ at'[a] \in AtHold)
      BY <2>2 DEF Survey, Finish, tableVars, SafetyUnchanged, Goto, AtHold, RefOK, TypeOK, LabelTypeOK
    <2> QED
      BY <2>1, <2>2, <2>3, <2>4, <2>5, <2>6, MoveStep
  <1>24. ASSUME NEW a \in Threads, DropScid(a),
                UNCHANGED watchdog_running
        PROVE  ValidatorOK'
    <2> USE <1>24
    <2>1. UNCHANGED validatorVars /\ UNCHANGED <<segment, next_connection_id, step>>
      BY DEF DropScid, tableVars, openingVars
    <2>2. a \in Threads /\ \A b \in Threads : b # a => at'[b] = at[b] /\ cur'[b] = cur[b]
      BY DEF DropScid, tableVars, Goto, RefOK, TypeOK, LabelTypeOK
    <2>3. at[a] \notin {"forget", "detach"} /\ at'[a] \notin {"insert", "forget", "detach"}
      BY <2>2 DEF DropScid, tableVars, Goto, RefOK, TypeOK, LabelTypeOK
    <2>4. a \in Clients => step[a] = "done"
      BY DEF DropScid, tableVars, RefOK, StepOK
    <2>5. cur'[a] \in connections \cup {NoConn, cur[a]} /\ connections' \subseteq connections \cup {cur[a]}
      BY <2>2 DEF DropScid, tableVars, RefOK, TypeOK, LabelTypeOK
    <2>6. \A d \in ConnIds : d \in connections \/ (cur[a] = d /\ at[a] \in AtHold) =>
            d \in connections' \/ (cur'[a] = d /\ at'[a] \in AtHold)
      BY <2>2 DEF DropScid, tableVars, Goto, AtHold, RefOK, TypeOK, LabelTypeOK
    <2> QED
      BY <2>1, <2>2, <2>3, <2>4, <2>5, <2>6, MoveStep
  <1>25. ASSUME NEW a \in Threads, DropOwner(a),
                UNCHANGED watchdog_running
        PROVE  ValidatorOK'
    <2> USE <1>25
    <2>1. UNCHANGED validatorVars /\ UNCHANGED <<segment, next_connection_id, step>>
      BY DEF DropOwner, Finish, tableVars, openingVars
    <2>2. a \in Threads /\ \A b \in Threads : b # a => at'[b] = at[b] /\ cur'[b] = cur[b]
      BY DEF DropOwner, Finish, tableVars, Goto, RefOK, TypeOK, LabelTypeOK
    <2>3. at[a] \notin {"forget", "detach"} /\ at'[a] \notin {"insert", "forget", "detach"}
      BY <2>2 DEF DropOwner, Finish, tableVars, Goto, RefOK, TypeOK, LabelTypeOK
    <2>4. a \in Clients => step[a] = "done"
      BY DEF DropOwner, Finish, tableVars, RefOK, StepOK
    <2>5. cur'[a] \in connections \cup {NoConn, cur[a]} /\ connections' \subseteq connections \cup {cur[a]}
      BY <2>2 DEF DropOwner, Finish, tableVars, RefOK, TypeOK, LabelTypeOK
    <2>6. \A d \in ConnIds : d \in connections \/ (cur[a] = d /\ at[a] \in AtHold) =>
            d \in connections' \/ (cur'[a] = d /\ at'[a] \in AtHold)
      BY <2>2 DEF DropOwner, Finish, tableVars, Goto, AtHold, RefOK, TypeOK, LabelTypeOK
    <2> QED
      BY <2>1, <2>2, <2>3, <2>4, <2>5, <2>6, MoveStep
  <1>26. ASSUME CloseBegin
        PROVE  ValidatorOK'
    <2>1. UNCHANGED validatorVars /\ UNCHANGED <<segment, next_connection_id>>
      BY <1>26 DEF CloseBegin, SafetyUnchanged, managerVars, openingVars
    <2>2. UNCHANGED <<connections, at, cur>>
      BY <1>26 DEF CloseBegin, SafetyUnchanged, managerVars, openingVars
    <2>3. \A b \in Clients : /\ step'[b] \in Unmade => step[b] \in Unmade
                             /\ step'[b] = "index" <=> step[b] = "index"
                             /\ Creating(b)' => Creating(b)
      BY <1>26 DEF CloseBegin, SafetyUnchanged, openingVars, Unmade, Creating
    <2> QED
      BY <2>1, <2>2, <2>3, StillStep
  <1>27. ASSUME UNCHANGED vars
        PROVE  ValidatorOK'
    <2>1. UNCHANGED validatorVars /\ UNCHANGED <<segment, next_connection_id>>
      BY <1>27 DEF vars, managerVars, openingVars
    <2>2. UNCHANGED <<connections, at, cur>>
      BY <1>27 DEF vars, managerVars, openingVars
    <2>3. \A b \in Clients : /\ step'[b] \in Unmade => step[b] \in Unmade
                             /\ step'[b] = "index" <=> step[b] = "index"
                             /\ Creating(b)' => Creating(b)
      BY <1>27 DEF vars, openingVars, Unmade, Creating
    <2> QED
      BY <2>1, <2>2, <2>3, StillStep
  <1> QED
    BY <1>1, <1>2, <1>3, <1>4, <1>5, <1>6, <1>7, <1>8, <1>9, <1>10, <1>11, <1>12, <1>13, <1>14,
        <1>15, <1>16, <1>17, <1>18, <1>19, <1>20, <1>21, <1>22, <1>23, <1>24, <1>25, <1>26, <1>27
    DEF Next, Handlers, Open, Removed, Remove, RemoveInstance, Threads

-----------------------------------------------------------------------------
\* Types, for every instance.
THEOREM SafetyTypeCorrect == Spec => []TypeOK
  <1>1. RefOK => TypeOK
    BY DEF RefOK
  <1> QED
    BY RefInit, RefStep, <1>1, PTL DEF Spec

\* What the supervisor stores is always justified by a safety connection in the
\* table or in the hands of a thread: the last removal leaves the device fresh.
THEOREM ConfigurationIsAccounted == Spec => []ConfigurationAccounted
  <1> DEFINE Inv == RefOK /\ ScidAccounted /\ OwnerAccounted
  <1>1. Init => Inv
    BY RefInit DEF Init, ScidAccounted, ScidSet, OwnerAccounted
  <1>2. Inv /\ [Next]_vars => Inv'
    BY RefStep, ScidStep, OwnerStep
  <1>3. Inv => ConfigurationAccounted
    <2> SUFFICES ASSUME RefOK, NEW a \in Threads, KeepsOwner(a)
                 PROVE  (a \in Clients /\ at[a] = "insert" /\ IsSafety(cur[a])) \/ Clearing(a)
      BY DEF ConfigurationAccounted, ScidAccounted, ScidSet, OwnerAccounted,
          KeepsOwner
    <2> QED
      BY DEF RefOK, TypeOK, LabelTypeOK, KeepsOwner, KeepsScid, Refers, Clearing, CallbackLabels
  <1> QED
    BY <1>1, <1>2, <1>3, PTL DEF Spec

\* Unless its creation overlapped another one, no instance outlives its connection,
\* whatever the order and the threads of the opens and the removals and whatever
\* overlaps elsewhere; and no connection ever has two.
THEOREM ValidatorNeverDangles == Spec => []NoDanglingValidator
  <1> DEFINE Inv == RefOK /\ ValidatorOK
  <1>1. Init => Inv
    BY RefInit DEF Init, ManagerInit, ValidatorOK, InstancesOK, FreshOK, LinkOK, HeldOK,
        Apart, Creating, Unmade
  <1>2. Inv /\ [Next]_vars => Inv'
    BY RefStep, ValidatorStep
  <1>3. Inv => NoDanglingValidator
    BY DEF ValidatorOK, InstancesOK, HeldOK, NoDanglingValidator
  <1> QED
    BY <1>1, <1>2, <1>3, PTL DEF Spec

-----------------------------------------------------------------------------
(* The frames                                                              *)

\* A frame on the wire, whatever is in it.
IsWire(w) ==
  /\ w = [data |-> w.data, mode |-> w.mode, actual |-> w.actual, complement |-> w.complement,
          check |-> w.check, ts |-> w.ts, ts_check |-> w.ts_check]
  /\ w.data \in Seq(Int)

\* What damage leaves of the frame o that was sent: its size, and of each of its CRCs that
\* it is the one that was sent or none at all.
Left(w, o) ==
  /\ IsWire(w) /\ Len(w.data) = Len(o.data)
  /\ w.actual \in {o.actual, Garbled} /\ w.check \in {o.check, Garbled}
  /\ w.ts_check \in {o.ts_check, Garbled}

Nothing == [data |-> <<>>, mode |-> {}, ts |-> NoTs, rollover |-> 0]

\* m was sent by pid on this connection, or strayed in from another one.
Traced(m, pid) ==
  /\ m = [wire |-> m.wire, sent |-> m.sent]
  /\ \E data \in Data, mode \in SUBSET (0..7), ts \in Stamps \cup {0},
        rollover \in Initials \cup {0} :
       \/ /\ m.sent = [data |-> data, mode |-> mode, ts |-> ts, rollover |-> rollover]
          /\ Left(m.wire, Encode(format, data, mode, ts, pid, rollover))
       \/ /\ m.sent = Nothing
          /\ Left(m.wire, Encode(format, data, mode, ts, "other", rollover))

TracedInv ==
  /\ \A m \in server_frames : Traced(m, "originator")
  /\ \A m \in client_frames : Traced(m, "target")

AgreedInv == format \in Formats /\ length \in Lengths /\ initial \in Initials

FramesInv == AgreedInv /\ TracedInv /\ ~corrupted /\ GenuineAccepted

---------------------------------------------------------------------------
\* Two CRCs are equal only if they are of the same polynomial, seed and cover.
LEMMA CrcInjective ==
  ASSUME NEW p, NEW s, NEW m, NEW d, NEW t, NEW p2, NEW s2, NEW m2, NEW d2, NEW t2,
         Crc(p, s, m, d, t) = Crc(p2, s2, m2, d2, t2)
  PROVE  p = p2 /\ s = s2 /\ m = m2 /\ d = d2 /\ t = t2
  <1>1. /\ Crc(p, s, m, d, t).poly = Crc(p2, s2, m2, d2, t2).poly
        /\ Crc(p, s, m, d, t).seed = Crc(p2, s2, m2, d2, t2).seed
    OBVIOUS
  <1>2. /\ Crc(p, s, m, d, t).mask = Crc(p2, s2, m2, d2, t2).mask
        /\ Crc(p, s, m, d, t).data = Crc(p2, s2, m2, d2, t2).data
        /\ Crc(p, s, m, d, t).ts = Crc(p2, s2, m2, d2, t2).ts
    OBVIOUS
  <1> QED
    BY <1>1, <1>2 DEF Crc

\* A garbled CRC is none that a receiver computes.
LEMMA GarbledIsNone ==
  ASSUME NEW p \in {"S1", "S2", "S3", "S5"}, NEW s, NEW m, NEW d, NEW t
  PROVE  Crc(p, s, m, d, t) # Garbled
  BY CrcInjective DEF Garbled

\* The run bit is under the mask of the data.
LEMMA RunIsMasked ==
  ASSUME NEW m, NEW m2, DataMask(m) = DataMask(m2)
  PROVE  RunOf(m) = RunOf(m2)
  BY DEF DataMask, RunOf

\* The seeds name the producer.
LEMMA SeedsNameTheProducer ==
  ASSUME NEW pid, NEW pid2, NEW r, NEW r2
  PROVE  /\ PidSeed(pid) = PidSeed(pid2) => pid = pid2
         /\ PidRolloverSeed(r, pid) = PidRolloverSeed(r2, pid2) => pid = pid2
  BY DEF PidSeed, PidRolloverSeed

\* What is left of a frame is valid only for its own producer, and only if data, run state
\* and time stamp are those that were sent.
LEMMA ValidIsGenuine ==
  ASSUME NEW w, NEW data, NEW mode, NEW ts, NEW id, NEW r, NEW pid, NEW r2, format \in Formats,
         Left(w, Encode(format, data, mode, ts, id, r)), Valid(format, w, pid, r2)
  PROVE  pid = id /\ w.data = data /\ RunOf(w.mode) = RunOf(mode) /\ w.ts = ts
  <1> DEFINE o == Encode(format, data, mode, ts, id, r)
  <1>1. Len(o.data) = Len(data)
    BY DEF Encode, EncodeBaseShort, EncodeBaseLong, EncodeExtendedShort, EncodeExtendedLong
  <1>2. Len(w.data) = Len(data)
    BY <1>1 DEF Left
  <1>3. CASE format = "Base" /\ IsShort(Len(data))
    <2>1. o = EncodeBaseShort(data, mode, ts, id)
      BY <1>3 DEF Encode
    <2>2. ValidBaseShort(w, pid)
      BY <1>2, <1>3 DEF Valid
    <2>3. /\ w.actual = Crc("S1", PidSeed(pid), DataMask(w.mode), w.data, NoTs)
          /\ w.ts_check = Crc("S1", PidSeed(pid), TimestampMask(w.mode), <<>>, w.ts)
      BY <2>2 DEF ValidBaseShort
    <2>4. /\ w.actual = Crc("S1", PidSeed(id), DataMask(mode), data, NoTs)
          /\ w.ts_check = Crc("S1", PidSeed(id), TimestampMask(mode), <<>>, ts)
      BY <2>1, <2>3, GarbledIsNone DEF Left, EncodeBaseShort
    <2> QED
      BY <2>3, <2>4, CrcInjective, RunIsMasked, SeedsNameTheProducer
  <1>4. CASE format = "Base" /\ ~IsShort(Len(data))
    <2>1. o = EncodeBaseLong(data, mode, ts, id)
      BY <1>4 DEF Encode
    <2>2. ValidBaseLong(w, pid)
      BY <1>2, <1>4 DEF Valid
    <2>3. /\ w.actual = Crc("S3", PidSeed(pid), DataMask(w.mode), w.data, NoTs)
          /\ w.ts_check = Crc("S1", PidSeed(pid), TimestampMask(w.mode), <<>>, w.ts)
      BY <2>2 DEF ValidBaseLong
    <2>4. /\ w.actual = Crc("S3", PidSeed(id), DataMask(mode), data, NoTs)
          /\ w.ts_check = Crc("S1", PidSeed(id), TimestampMask(mode), <<>>, ts)
      BY <2>1, <2>3, GarbledIsNone DEF Left, EncodeBaseLong
    <2> QED
      BY <2>3, <2>4, CrcInjective, RunIsMasked, SeedsNameTheProducer
  <1>5. CASE format = "Extended" /\ IsShort(Len(data))
    <2>1. o = EncodeExtendedShort(data, mode, ts, id, r)
      BY <1>5 DEF Encode
    <2>2. ValidExtendedShort(w, pid, r2)
      BY <1>2, <1>5 DEF Valid
    <2>3. w.check = Crc("S5", PidRolloverSeed(r2, pid), DataMask(w.mode), w.data, w.ts)
      BY <2>2 DEF ValidExtendedShort
    <2>4. w.check = Crc("S5", PidRolloverSeed(r, id), DataMask(mode), data, ts)
      BY <2>1, <2>3, GarbledIsNone DEF Left, EncodeExtendedShort
    <2> QED
      BY <2>3, <2>4, CrcInjective, RunIsMasked, SeedsNameTheProducer
  <1>6. CASE format = "Extended" /\ ~IsShort(Len(data))
    <2>1. o = EncodeExtendedLong(data, mode, ts, id, r)
      BY <1>6 DEF Encode
    <2>2. ValidExtendedLong(w, pid, r2)
      BY <1>2, <1>6 DEF Valid
    <2>3. /\ w.actual = Crc("S3", PidRolloverSeed(r2, pid), DataMask(w.mode), w.data, NoTs)
          /\ w.check = Crc("S5", PidRolloverSeed(r2, pid), TimestampMask(w.mode),
                           w.complement, w.ts)
      BY <2>2 DEF ValidExtendedLong
    <2>4. /\ w.actual = Crc("S3", PidRolloverSeed(r, id), DataMask(mode), data, NoTs)
          /\ w.check = Crc("S5", PidRolloverSeed(r, id), TimestampMask(mode),
                           Complement(data), ts)
      BY <2>1, <2>3, GarbledIsNone DEF Left, EncodeExtendedLong
    <2> QED
      BY <2>3, <2>4, CrcInjective, RunIsMasked, SeedsNameTheProducer
  <1> QED
    BY <1>3, <1>4, <1>5, <1>6 DEF Formats

\* A frame that arrives as it was encoded is valid, in the Base Format for whatever
\* roll-over count.
LEMMA EncodedIsValid ==
  ASSUME NEW data, NEW mode, NEW ts, NEW pid, NEW r, NEW r2, format \in Formats,
         format = "Base" \/ r2 = r
  PROVE  /\ Valid(format, Encode(format, data, mode, ts, pid, r), pid, r2)
         /\ Encode(format, data, mode, ts, pid, r).data = data
  <1>1. CASE format = "Base" /\ IsShort(Len(data))
    BY <1>1 DEF Encode, EncodeBaseShort, Valid, ValidBaseShort
  <1>2. CASE format = "Base" /\ ~IsShort(Len(data))
    BY <1>2 DEF Encode, EncodeBaseLong, Valid, ValidBaseLong
  <1>3. CASE format = "Extended" /\ IsShort(Len(data))
    BY <1>3 DEF Encode, EncodeExtendedShort, Valid, ValidExtendedShort
  <1>4. CASE format = "Extended" /\ ~IsShort(Len(data))
    BY <1>4 DEF Encode, EncodeExtendedLong, Valid, ValidExtendedLong
  <1> QED
    BY <1>1, <1>2, <1>3, <1>4 DEF Formats

\* The length of the data is derived rightly from the size of what arrives.
LEMMA LengthIsDerived ==
  ASSUME NEW n \in 1..250 PROVE EstimateDataLength(WireSize(n)) = n
  <1>1. CASE n <= 2
    BY <1>1 DEF EstimateDataLength, WireSize, IsShort
  <1>2. CASE n > 2
    <2>1. WireSize(n) = 2 * n + 8 /\ n \in 3..250
      BY <1>2 DEF WireSize, IsShort
    <2>2. WireSize(n) \in {WireSize(k) : k \in 3..250} /\ WireSize(n) \notin 7..8
      BY <2>1
    <2>3. EstimateDataLength(WireSize(n)) = (WireSize(n) - 8) \div 2
      BY <2>2 DEF EstimateDataLength
    <2> QED
      BY <2>1, <2>3
  <1> QED
    BY <1>1, <1>2
\* The data that are sent are as long as the connection's.
LEMMA DataAreOfTheLength ==
  ASSUME NEW data \in Data, length \in Lengths
  PROVE  data \in Seq(Int) /\ Len(data) = length /\ length \in 1..250
  <1>1. length \in 1..250
    BY PairAssumption
  <1>2. data = [i \in 1..length |-> i % 2]
    BY DEF Data
  <1>3. data \in [1..length -> Int]
    BY <1>1, <1>2
  <1> QED
    BY <1>1, <1>3

\* Of a frame as it is sent everything is left.
LEMMA NothingIsDamagedYet ==
  ASSUME NEW data \in Data, NEW mode, NEW ts, NEW pid, NEW r, format \in Formats,
         length \in Lengths
  PROVE  Left(Encode(format, data, mode, ts, pid, r), Encode(format, data, mode, ts, pid, r))
  <1> DEFINE o == Encode(format, data, mode, ts, pid, r)
  <1>1. data \in Seq(Int)
    BY DataAreOfTheLength
  <1>2. IsWire(o)
    BY <1>1 DEF IsWire, Encode, EncodeBaseShort, EncodeBaseLong, EncodeExtendedShort,
                EncodeExtendedLong
  <1> QED
    BY <1>2 DEF Left

\* Damage leaves what Left allows, however often it strikes.
LEMMA DamageLeaves ==
  ASSUME NEW w, NEW o, Left(w, o), NEW w2 \in Damages(w)
  PROVE  Left(w2, o)
  <1>1. IsWire(w) /\ Len(w.data) = Len(o.data)
    BY DEF Left
  <1>2. CASE w2 = [w EXCEPT !.data[1] = 1 - @]
    <2>1. w2 = [data |-> [w.data EXCEPT ![1] = 1 - @], mode |-> w.mode, actual |-> w.actual,
                complement |-> w.complement, check |-> w.check, ts |-> w.ts,
                ts_check |-> w.ts_check]
      BY <1>1, <1>2 DEF IsWire
    <2>2. w.data \in [1..Len(w.data) -> Int] /\ Len(w.data) \in Nat
      BY <1>1 DEF IsWire
    <2>3. w2.data = [w.data EXCEPT ![1] = 1 - @]
      BY <2>1
    <2>4. w2.data \in [1..Len(w.data) -> Int]
      <3> DEFINE d == w.data
                 n == Len(w.data)
      <3>1. d \in [1..n -> Int] /\ n \in Nat
        BY <2>2
      <3> HIDE DEF d, n
      <3>2. [d EXCEPT ![1] = 1 - @] = [i \in 1..n |-> IF i = 1 THEN 1 - d[1] ELSE d[i]]
        BY <3>1
      <3>3. \A i \in 1..n : (IF i = 1 THEN 1 - d[1] ELSE d[i]) \in Int
        BY <3>1
      <3>4. [d EXCEPT ![1] = 1 - @] \in [1..n -> Int]
        BY <3>2, <3>3
      <3> QED
        BY <2>3, <3>4 DEF d, n
    <2>5. w2.data \in Seq(Int) /\ Len(w2.data) = Len(w.data)
      BY <2>2, <2>4
    <2>6. IsWire(w2)
      BY <2>1, <2>5 DEF IsWire
    <2> QED
      BY <1>1, <2>1, <2>5, <2>6 DEF Left
  <1>3. CASE \E bit \in DamagedBits : w2 = [w EXCEPT !.mode = Toggle(@, bit)]
    BY <1>1, <1>3 DEF Left, IsWire
  <1>4. CASE \E i \in DOMAIN w.complement \cap {1} : w2 = [w EXCEPT !.complement[i] = 1 - @]
    BY <1>1, <1>4 DEF Left, IsWire
  <1>5. CASE \E ts \in (Stamps \cup {0}) \ {w.ts} : w2 = [w EXCEPT !.ts = ts]
    BY <1>1, <1>5 DEF Left, IsWire
  <1>6. CASE w2 \in {[w EXCEPT !.actual = Garbled], [w EXCEPT !.check = Garbled],
                     [w EXCEPT !.ts_check = Garbled]}
    BY <1>1, <1>6 DEF Left, IsWire
  <1> QED
    BY <1>2, <1>3, <1>4, <1>5, <1>6 DEF Damages

\* A frame that an end sends can be traced to it.
LEMMA SentIsTraced ==
  ASSUME AgreedInv, NEW data \in Data, NEW run, NEW ping, NEW ts \in Stamps \cup {0}, NEW pid,
         NEW r \in Initials \cup {0}
  PROVE  Traced(Frame(data, run, ping, ts, pid, r), pid)
  <1> DEFINE mode == ModeByte(run, ping)
  <1>1. mode \in SUBSET (0..7)
    BY DEF ModeByte, PingBits
  <1> HIDE DEF mode
  <1>2. /\ Frame(data, run, ping, ts, pid, r).sent =
             [data |-> data, mode |-> mode, ts |-> ts, rollover |-> r]
        /\ Frame(data, run, ping, ts, pid, r).wire = Encode(format, data, mode, ts, pid, r)
    BY DEF Frame, mode
  <1>3. Frame(data, run, ping, ts, pid, r) =
          [wire |-> Frame(data, run, ping, ts, pid, r).wire,
           sent |-> Frame(data, run, ping, ts, pid, r).sent]
    BY DEF Frame
  <1>4. Left(Encode(format, data, mode, ts, pid, r), Encode(format, data, mode, ts, pid, r))
    BY NothingIsDamagedYet DEF AgreedInv
  <1> QED
    BY <1>1, <1>2, <1>3, <1>4 DEF Traced

\* So can a frame that strays in.
LEMMA ForeignIsTraced ==
  ASSUME AgreedInv, NEW m \in Foreign, NEW pid PROVE Traced(m, pid)
  <1>1. PICK data \in Data, run \in BOOLEAN, ts \in Stamps :
          m = [Frame(data, run, 0, ts, "other", initial) EXCEPT !.sent = Nothing]
    BY DEF Foreign, Nothing
  <1> DEFINE mode == ModeByte(run, 0)
  <1>2. mode \in SUBSET (0..7)
    BY DEF ModeByte, PingBits
  <1> HIDE DEF mode
  <1>3. /\ m.sent = Nothing /\ m.wire = Encode(format, data, mode, ts, "other", initial)
        /\ m = [wire |-> m.wire, sent |-> m.sent]
    BY <1>1 DEF Frame, mode
  <1>4. Left(m.wire, Encode(format, data, mode, ts, "other", initial))
    BY <1>3, NothingIsDamagedYet DEF AgreedInv
  <1> QED
    BY <1>2, <1>3, <1>4 DEF Traced, AgreedInv

\* A frame can still be traced when it has been damaged.
LEMMA DamagedIsTraced ==
  ASSUME NEW pid, NEW m, Traced(m, pid), NEW w \in Damages(m.wire)
  PROVE  Traced([m EXCEPT !.wire = w], pid)
  <1>1. [m EXCEPT !.wire = w].sent = m.sent /\ [m EXCEPT !.wire = w].wire = w
    OBVIOUS
  <1>2. PICK data \in Data, mode \in SUBSET (0..7), ts \in Stamps \cup {0},
             rollover \in Initials \cup {0} :
          \/ /\ m.sent = [data |-> data, mode |-> mode, ts |-> ts, rollover |-> rollover]
             /\ Left(m.wire, Encode(format, data, mode, ts, pid, rollover))
          \/ /\ m.sent = Nothing
             /\ Left(m.wire, Encode(format, data, mode, ts, "other", rollover))
    BY DEF Traced
  <1> QED
    BY <1>1, <1>2, DamageLeaves DEF Traced

\* Of a frame that can be traced, the receiver makes no wrong judgement.
LEMMA JudgedRightly ==
  ASSUME FramesInv, UNCHANGED agreed, NEW pid \in {"originator", "target"}, NEW m,
         Traced(m, pid), Judge(m, pid)
  PROVE  ~corrupted' /\ GenuineAccepted'
  <1>1. format \in Formats /\ length \in Lengths
    BY DEF FramesInv, AgreedInv
  <1>2. PICK data \in Data, mode \in SUBSET (0..7), ts \in Stamps \cup {0},
             r \in Initials \cup {0} :
          \/ /\ m.sent = [data |-> data, mode |-> mode, ts |-> ts, rollover |-> r]
             /\ Left(m.wire, Encode(format, data, mode, ts, pid, r))
          \/ /\ m.sent = Nothing
             /\ Left(m.wire, Encode(format, data, mode, ts, "other", r))
    BY DEF Traced
  <1>3. Accepts(m, pid) => SaysWhatWasSent(m)
    <2> SUFFICES ASSUME Accepts(m, pid) PROVE SaysWhatWasSent(m)
      OBVIOUS
    <2>1. Valid(format, m.wire, pid, ConsumerRollover)
      BY DEF Accepts
    <2>2. CASE m.sent = Nothing /\ Left(m.wire, Encode(format, data, mode, ts, "other", r))
      BY <1>1, <2>1, <2>2, ValidIsGenuine
    <2>3. CASE /\ m.sent = [data |-> data, mode |-> mode, ts |-> ts, rollover |-> r]
               /\ Left(m.wire, Encode(format, data, mode, ts, pid, r))
      <3>1. m.wire.data = data /\ RunOf(m.wire.mode) = RunOf(mode) /\ m.wire.ts = ts
        BY <1>1, <2>1, <2>3, ValidIsGenuine
      <3> QED
        BY <2>3, <3>1 DEF SaysWhatWasSent
    <2> QED
      BY <1>2, <2>2, <2>3
  <1>4. Intact(m, pid) /\ (format = "Base" \/ m.sent.rollover = 0) => Accepts(m, pid)
    <2> SUFFICES ASSUME Intact(m, pid), format = "Base" \/ m.sent.rollover = 0
                 PROVE  Accepts(m, pid)
      OBVIOUS
    <2>1. /\ Valid(format, m.wire, pid, ConsumerRollover)
          /\ m.wire.data = m.sent.data
      BY <1>1, EncodedIsValid DEF Intact, ConsumerRollover
    <2>2. Len(m.wire.data) = Len(data)
      BY <1>2, EncodedIsValid, <1>1 DEF Left
    <2>3. EstimateDataLength(WireSize(Len(m.wire.data))) = Len(m.wire.data)
      BY <1>1, <2>2, DataAreOfTheLength, LengthIsDerived
    <2> QED
      BY <2>1, <2>3 DEF Accepts
  <1>5. UNCHANGED format
    BY DEF agreed
  <1> QED
    BY <1>3, <1>4, <1>5 DEF Judge, FramesInv, GenuineAccepted

---------------------------------------------------------------------------
\* Frames that were in flight can still be traced when more are sent or some are lost.
LEMMA TracedStays ==
  ASSUME FramesInv, UNCHANGED agreed,
         \A m \in server_frames' \ server_frames : Traced(m, "originator"),
         \A m \in client_frames' \ client_frames : Traced(m, "target")
  PROVE  TracedInv' /\ AgreedInv' /\ (UNCHANGED verdicts => FramesInv')
  <1>1. \A m, pid : Traced(m, pid)' <=> Traced(m, pid)
    BY DEF Traced, Data, agreed
  <1>2. AgreedInv'
    BY DEF FramesInv, AgreedInv, agreed
  <1>3. TracedInv'
    BY <1>1 DEF FramesInv, TracedInv
  <1>4. UNCHANGED verdicts => GenuineAccepted' /\ ~corrupted'
    BY DEF FramesInv, GenuineAccepted, verdicts, agreed
  <1> QED
    BY <1>2, <1>3, <1>4 DEF FramesInv

\* The idle frames of the target can be traced.
LEMMA IdleIsTraced ==
  ASSUME FramesInv, NEW f \in IdleFrames(TargetRollover) PROVE Traced(f, "target")
  <1>1. PICK data \in Data : f = Frame(data, FALSE, ping_count, 0, "target", TargetRollover)
    BY DEF IdleFrames
  <1>2. TargetRollover \in Initials \cup {0} /\ AgreedInv
    BY DEF TargetRollover, FramesInv, AgreedInv
  <1> QED
    BY <1>1, <1>2, SentIsTraced

\* The invariant holds when the connection opens.
LEMMA FramesInit == PairInit => FramesInv
  BY DEF PairInit, FramesInv, AgreedInv, TracedInv, GenuineAccepted

\* Every step keeps the invariant.
LEMMA FramesStep == FramesInv /\ [PairNext]_pairVars => FramesInv'
  <1> SUFFICES ASSUME FramesInv, [PairNext]_pairVars PROVE FramesInv'
    OBVIOUS
  <1>0. AgreedInv /\ initial \in Initials \cup {0}
    BY DEF FramesInv, AgreedInv
  <1>1. ASSUME NEW data \in Data, NEW ts \in Stamps, ProduceServerData(data, ts) PROVE FramesInv'
    <2> DEFINE stamp == IF consumer_active THEN ts ELSE 0
               f == Frame(data, consumer_active /\ run_idle, 0, stamp, "originator", initial)
    <2>1. /\ server_frames' = server_frames \cup {f}
          /\ UNCHANGED <<agreed, client_frames, verdicts>>
      BY <1>1 DEF ProduceServerData
    <2>2. stamp \in Stamps \cup {0}
      OBVIOUS
    <2> HIDE DEF stamp
    <2>3. Traced(f, "originator")
      BY <1>0, <2>2, SentIsTraced
    <2> HIDE DEF f
    <2> QED
      BY <2>1, <2>3, TracedStays DEF FramesInv, verdicts
  <1>2. ASSUME NEW m \in server_frames, ReceiveServerData(m) PROVE FramesInv'
    <2>1. ~corrupted' /\ GenuineAccepted'
      <3>1. Traced(m, "originator") /\ Judge(m, "originator") /\ UNCHANGED agreed
        BY <1>2 DEF ReceiveServerData, FramesInv, TracedInv
      <3> QED
        BY <3>1, JudgedRightly
    <2>2. UNCHANGED agreed /\ server_frames' \subseteq server_frames
      BY <1>2 DEF ReceiveServerData
    <2>3. \A f \in client_frames' \ client_frames : f \in IdleFrames(TargetRollover)
      BY <1>2 DEF ReceiveServerData
    <2> QED
      BY <2>1, <2>2, <2>3, IdleIsTraced, TracedStays DEF FramesInv
  <1>3. ASSUME NEW m \in client_frames, ReceiveClientData(m) PROVE FramesInv'
    <2>1. ~corrupted' /\ GenuineAccepted'
      <3>1. Traced(m, "target") /\ Judge(m, "target") /\ UNCHANGED agreed
        BY <1>3 DEF ReceiveClientData, FramesInv, TracedInv
      <3> QED
        BY <3>1, JudgedRightly
    <2>2. UNCHANGED <<agreed, server_frames>> /\ client_frames' \subseteq client_frames
      BY <1>3 DEF ReceiveClientData
    <2> QED
      BY <2>1, <2>2, TracedStays DEF FramesInv
  <1>4. ASSUME NEW data \in Data, NEW ts \in Stamps, NEW over \in BOOLEAN,
               ProduceClientData(data, ts, over)
        PROVE  FramesInv'
    <2> DEFINE f == Frame(data, TRUE, ping_count', ts, "target", initial)
    <2>1. /\ client_frames' = client_frames \cup {f}
          /\ UNCHANGED <<agreed, server_frames, verdicts>>
      BY <1>4 DEF ProduceClientData
    <2>2. Traced(f, "target")
      BY <1>0, SentIsTraced
    <2> HIDE DEF f
    <2> QED
      BY <2>1, <2>2, TracedStays DEF FramesInv, verdicts
  <1>5. CASE ProduceClientIdle
    <2>1. PICK f \in IdleFrames(TargetRollover) : client_frames' = client_frames \cup {f}
      BY <1>5 DEF ProduceClientIdle
    <2>2. UNCHANGED <<agreed, server_frames, verdicts>>
      BY <1>5 DEF ProduceClientIdle
    <2> QED
      BY <2>1, <2>2, IdleIsTraced, TracedStays DEF FramesInv, verdicts
  <1>6. CASE Lose
    <2>1. server_frames' \subseteq server_frames /\ client_frames' \subseteq client_frames
      BY <1>6 DEF Lose
    <2>2. UNCHANGED <<agreed, verdicts>>
      BY <1>6 DEF Lose, InNetwork
    <2> QED
      BY <2>1, <2>2, TracedStays DEF FramesInv, verdicts
  <1>7. CASE Interfere
    <2>1. ASSUME NEW frames, NEW pid, \A m \in frames : Traced(m, pid),
                 NEW after \in DamagedFrames(frames) \cup MisroutedFrames(frames)
          PROVE  \A f \in after \ frames : Traced(f, pid)
      <3>1. CASE after \in DamagedFrames(frames)
        <4>1. PICK m \in frames :
                after \in {(frames \ {m}) \cup {[m EXCEPT !.wire = w]} : w \in Damages(m.wire)}
          BY <3>1 DEF DamagedFrames
        <4>2. PICK w \in Damages(m.wire) :
                after = (frames \ {m}) \cup {[m EXCEPT !.wire = w]}
          BY <4>1
        <4>3. Traced([m EXCEPT !.wire = w], pid)
          BY <2>1, DamagedIsTraced
        <4> QED
          BY <4>2, <4>3
      <3>2. CASE after \in MisroutedFrames(frames)
        <4>1. PICK f \in Foreign : after = frames \cup {f}
          BY <3>2 DEF MisroutedFrames
        <4>2. Traced(f, pid)
          BY <1>0, ForeignIsTraced
        <4> QED
          BY <4>1, <4>2
      <3> QED
        BY <2>1, <3>1, <3>2
    <2>2. UNCHANGED <<agreed, verdicts>>
      BY <1>7 DEF Interfere, InNetwork
    <2>3. CASE /\ server_frames' \in
                    DamagedFrames(server_frames) \cup MisroutedFrames(server_frames)
               /\ UNCHANGED client_frames
      BY <2>1, <2>2, <2>3, TracedStays DEF FramesInv, TracedInv, verdicts
    <2>4. CASE /\ client_frames' \in
                    DamagedFrames(client_frames) \cup MisroutedFrames(client_frames)
               /\ UNCHANGED server_frames
      BY <2>1, <2>2, <2>4, TracedStays DEF FramesInv, TracedInv, verdicts
    <2> QED
      BY <1>7, <2>3, <2>4 DEF Interfere
  <1>8. ASSUME NEW ping, ReceiveServerCoordination(ping) PROVE FramesInv'
    BY <1>8, TracedStays DEF ReceiveServerCoordination, FramesInv, verdicts
  <1>9. ASSUME NEW ping, NEW c, NEW late, ReceiveClientCoordination(ping, c, late) PROVE FramesInv'
    BY <1>9, TracedStays DEF ReceiveClientCoordination, FramesInv, verdicts
  <1>10. CASE \/ TransitionToRun \/ ProducerWake \/ WriteCorrection \/ WriteGoal
              \/ UNCHANGED pairVars
    BY <1>10, TracedStays DEF TransitionToRun, ProducerWake, WriteCorrection, WriteGoal,
                              FramesInv, verdicts, networkVars, pairVars
  <1> QED
    BY <1>1, <1>2, <1>3, <1>4, <1>5, <1>6, <1>7, <1>8, <1>9, <1>10 
    DEF PairNext, OriginatorProducer, OriginatorAnswers, TargetProducer, TargetAnswers

---------------------------------------------------------------------------
\* Whatever is damaged on the way, however often, and whatever strays in, neither end takes
\* data, a run state or a time stamp that its peer did not send on this connection: each is
\* under a CRC that knows the connection, in every format.
THEOREM OnlyGenuineFrames == PairSpec => []OnlyGenuine
  <1>1. FramesInv => OnlyGenuine
    BY DEF FramesInv, OnlyGenuine
  <1>2. PairInit /\ [][PairNext]_pairVars => []OnlyGenuine
    BY FramesInit, FramesStep, <1>1, PTL
  <1> QED
    BY <1>2, PTL DEF PairSpec

\* A frame that arrives as it was sent, whatever has been sent, lost or damaged before it,
\* is accepted in the Base Format, and in the Extended Format if its producer put the count
\* 0 into it, with which both consumers start: its length is derived from its size, and
\* every CRC that is compared is one that was computed.
THEOREM GenuineFramesAreAccepted == PairSpec => []GenuineAccepted
  <1>1. FramesInv => GenuineAccepted
    BY DEF FramesInv, GenuineAccepted
  <1>2. PairInit /\ [][PairNext]_pairVars => []GenuineAccepted
    BY FramesInit, FramesStep, <1>1, PTL
  <1> QED
    BY <1>2, PTL DEF PairSpec
=============================================================================
