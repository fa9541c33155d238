----------------------------- MODULE SafetyDevice -----------------------------
(***************************************************************************)
(* SafetyDevice: what a CIP Safety target adds to the connection manager.  *)
(* It validates and configures a safety connection before the manager puts *)
(* it into its table, and undoes the configuration when the connection is  *)
(* removed.  The device-wide safety configuration (SCID and CFUNID of the  *)
(* Safety Supervisor) and the table of the Safety Validator have no lock,  *)
(* so every access to one of them is a step; attribute 6, which no handler *)
(* reads, changes with the SCID it mirrors.                                *)
(*                                                                         *)
(* Production, which the first of the two removed callbacks stops, is in   *)
(* VirtualDevice and touches nothing here.  A request with a wrong TUNID   *)
(* or CPCRC is refused before anything changes and is not a step.          *)
(***************************************************************************)
EXTENDS ConnectionManager

CONSTANTS Configurations,   \* the non-zero SCCRCs of safety segments
          NoConfiguration,  \* SCCRC 0: unconfigured, or a type 2b open
          NotSafety,        \* the Forward Open has no safety segment
          Nobody            \* no client

Segments == Configurations \cup {NoConfiguration}

ASSUME SafetyAssumption ==
  /\ Configurations # {}
  /\ NoConfiguration \notin Configurations
  /\ NotSafety \notin Segments
  /\ Nobody \notin Threads

NoRequest == [triad |-> Nobody, segment |-> NotSafety]
Requests == [triad : Triads, segment : Segments \cup {NotSafety}]

\* The progress of configure_safety_connection.
ConfigureSteps == {"owner", "scid", "id", "count", "instance", "index", "done"}

VARIABLES
  segment,           \* safety_segment_data of each IoConnection, is_safety
  request,           \* the Forward Open a client is validating
  step,              \* how far the connection a client opens is configured
  watchdog_running,  \* cleared by close(), which then joins the watchdog
  scid,              \* SafetySupervisorObject::scid_
  scid_attribute,    \* its attribute 6
  cfunid,            \* its attribute 25: the originator that configured us
  next_instance_id,  \* SafetyValidatorObject::next_instance_id_
  instances,         \* instances_: the connection each instance points at
  conn_to_instance,  \* the reverse index; 0 is no entry
  instance_id,       \* the id a thread in create_ or remove_instance has read
  overlapped         \* ghost: connections created while another was

tableVars == <<connections, next_connection_id, info, state>>
supervisorVars == <<scid, scid_attribute, cfunid>>
mapVars == <<instances, conn_to_instance>>
validatorVars == <<next_instance_id, mapVars, instance_id, overlapped>>
openingVars == <<segment, request, step>>
vars == <<managerVars, openingVars, supervisorVars, validatorVars, watchdog_running>>

Init ==
  /\ ManagerInit
  /\ segment = [c \in ConnIds |-> NotSafety]
  /\ request = [a \in Clients |-> NoRequest]
  /\ step = [a \in Clients |-> "done"]
  /\ watchdog_running = TRUE
  /\ scid = NoConfiguration
  /\ scid_attribute = NoConfiguration
  /\ cfunid = Nobody
  /\ next_instance_id = 0
  /\ instances = [i \in ConnIds |-> NoConn]
  /\ conn_to_instance = [c \in ConnIds |-> 0]
  /\ instance_id = [a \in Threads |-> 0]
  /\ overlapped = {}

IsSafety(c) == segment[c] # NotSafety
SafetyOpen == {c \in connections : IsSafety(c)}

-----------------------------------------------------------------------------
(* Forward Open: validate_safety_open, the triad check, configuration      *)

Free(a) == at[a] = "idle" /\ request[a] = NoRequest

\* Ids are handed out after validation, so requests in hand count as well.
Room == next_connection_id + Cardinality({a \in Clients : request[a] # NoRequest}) < MaxOpens

\* Type 2a: a non-zero SCCRC must be the stored one, if one is stored.
ScidAccepted(s) == scid = NoConfiguration \/ s \in {NoConfiguration, NotSafety, scid}

Validate(a, t, s) ==
  /\ Free(a) /\ Room
  /\ ScidAccepted(s)
  /\ request' = [request EXCEPT ![a] = [triad |-> t, segment |-> s]]
  /\ UNCHANGED <<managerVars, segment, step, supervisorVars, validatorVars>>

TriadInUse(a) ==
  /\ request[a] # NoRequest
  /\ \E c \in connections : info[c].triad = request[a].triad
  /\ request' = [request EXCEPT ![a] = NoRequest]
  /\ UNCHANGED <<managerVars, segment, step, supervisorVars, validatorVars>>

Allocate(a) ==
  /\ request[a] # NoRequest
  /\ \E p \in Profiles : ForwardOpenCheck(a, request[a].triad, p)
  /\ segment' = [segment EXCEPT ![NewId] = request[a].segment]
  /\ step' = [step EXCEPT ![a] = IF request[a].segment = NotSafety THEN "done" ELSE "owner"]
  /\ request' = [request EXCEPT ![a] = NoRequest]
  /\ UNCHANGED <<supervisorVars, validatorVars>>

Configure(a, from, to) ==
  /\ at[a] = "insert" /\ step[a] = from
  /\ step' = [step EXCEPT ![a] = to]
  /\ UNCHANGED <<managerVars, segment, request>>

ConfigureOwner(a) ==
  /\ Configure(a, "owner", "scid")
  /\ cfunid' = a
  /\ UNCHANGED <<scid, scid_attribute, validatorVars>>

\* Whatever the segment carries is stored, also when it is zero.
ConfigureScid(a) ==
  /\ Configure(a, "scid", "id")
  /\ scid' = segment[cur[a]]
  /\ scid_attribute' = segment[cur[a]]
  /\ UNCHANGED <<cfunid, validatorVars>>

\* create_instance.  The counter is a plain member: it is read and written, and
\* read again for each map, so that another creation in between makes two
\* connections share an id or the maps name different ones.  The CIP instance
\* made under the id and the PID of the validator are left out.
Creating(a) == step[a] \in {"count", "instance", "index"}
Midway(a) == {b \in Clients \ {a} : Creating(b)}

ReadInstanceId(a) ==
  /\ Configure(a, "id", "count")
  /\ instance_id' = [instance_id EXCEPT ![a] = next_instance_id]
  /\ overlapped' = IF Midway(a) = {} THEN overlapped
                   ELSE overlapped \cup {cur[b] : b \in Midway(a) \cup {a}}
  /\ UNCHANGED <<supervisorVars, next_instance_id, mapVars>>

NextInstanceId(a) ==
  /\ Configure(a, "count", "instance")
  /\ next_instance_id' = instance_id[a] + 1
  /\ instance_id' = [instance_id EXCEPT ![a] = 0]
  /\ UNCHANGED <<supervisorVars, mapVars, overlapped>>

CreateInstance(a) ==
  /\ Configure(a, "instance", "index")
  /\ instances' = [instances EXCEPT ![next_instance_id] = cur[a]]
  /\ UNCHANGED <<supervisorVars, next_instance_id, conn_to_instance, instance_id, overlapped>>

\* mutant: the entry of the reverse index is not stored
IndexNothing(a) ==
  /\ Configure(a, "index", "done")
  /\ UNCHANGED <<supervisorVars, validatorVars>>

IndexInstance(a) ==
  /\ Configure(a, "index", "done")
  /\ conn_to_instance' = [conn_to_instance EXCEPT ![cur[a]] = next_instance_id]
  /\ UNCHANGED <<supervisorVars, next_instance_id, instances, instance_id, overlapped>>

SafetyUnchanged == UNCHANGED <<openingVars, supervisorVars, validatorVars>>

Insert(a) == step[a] = "done" /\ ForwardOpenInsert(a) /\ SafetyUnchanged

Finish(a) ==
  /\ cur' = [cur EXCEPT ![a] = NoConn]
  /\ Goto(a, "idle")
  /\ UNCHANGED tableVars

Reply(a) == at[a] = "established" /\ Finish(a) /\ SafetyUnchanged

-----------------------------------------------------------------------------
(* Removal: a Forward Close, the watchdog, or close() of the application   *)

ForwardClose(a, c) == Free(a) /\ ForwardClosePop(a, c) /\ SafetyUnchanged

\* The watchdog and close() work from a copy of the table: the connection may
\* be gone when they come to it.
Decide(a, c, label) ==
  /\ at[a] = "idle"
  /\ c \in connections
  /\ cur' = [cur EXCEPT ![a] = c]
  /\ Goto(a, label)
  /\ UNCHANGED tableVars /\ SafetyUnchanged

Remove(a) ==
  /\ TimeoutMark(a) \/ RemovePop(a) \/ RemoveClose(a)
  /\ SafetyUnchanged

\* remove_instance_by_connection: each access to one of the two maps is a step,
\* and of two removals of one connection both may have found its entry.  The
\* second then erases a map iterator that is gone, which is taken for no change.
FindInstance(a) ==
  /\ at[a] = "callbacks"
  /\ IF IsSafety(cur[a])
     THEN /\ instance_id' = [instance_id EXCEPT ![a] = conn_to_instance[cur[a]]]
          /\ Goto(a, IF conn_to_instance[cur[a]] = 0 THEN "survey" ELSE "forget")
          /\ UNCHANGED <<tableVars, cur>>
     ELSE Finish(a) /\ UNCHANGED instance_id
  /\ UNCHANGED <<openingVars, supervisorVars, next_instance_id, mapVars, overlapped>>

ForgetInstance(a) ==
  /\ at[a] = "forget"
  /\ conn_to_instance' = [conn_to_instance EXCEPT ![cur[a]] = 0]
  /\ Goto(a, "detach")
  /\ UNCHANGED <<tableVars, cur, openingVars, supervisorVars>>
  /\ UNCHANGED <<next_instance_id, instances, instance_id, overlapped>>

\* instances_ is accessed twice: the pointer is nulled, then the instance erased.
ClearInstance(a, to) ==
  /\ instances' = [instances EXCEPT ![instance_id[a]] = NoConn]
  /\ Goto(a, to)
  /\ UNCHANGED <<tableVars, cur, openingVars, supervisorVars>>
  /\ UNCHANGED <<next_instance_id, conn_to_instance, overlapped>>

DetachInstance(a) ==
  /\ at[a] = "detach"
  /\ ClearInstance(a, "erase")
  /\ UNCHANGED instance_id

EraseInstance(a) ==
  /\ at[a] = "erase"
  /\ ClearInstance(a, "survey")
  /\ instance_id' = [instance_id EXCEPT ![a] = 0]

RemoveInstance(a) ==
  FindInstance(a) \/ ForgetInstance(a) \/ DetachInstance(a) \/ EraseInstance(a)

AnyLeft == connections # {}          \* mutant: any connection counts
AnySafetyLeft == SafetyOpen # {}

Survey(a) ==
  /\ at[a] = "survey"
  /\ IF AnySafetyLeft
     THEN Finish(a)
     ELSE Goto(a, "drop scid") /\ UNCHANGED <<tableVars, cur>>
  /\ SafetyUnchanged

DropScid(a) ==
  /\ at[a] = "drop scid"
  /\ scid' = NoConfiguration
  /\ scid_attribute' = NoConfiguration
  /\ Goto(a, "drop owner")
  /\ UNCHANGED <<tableVars, cur, openingVars, cfunid, validatorVars>>

DropOwner(a) ==
  /\ at[a] = "drop owner"
  /\ cfunid' = Nobody
  /\ Finish(a)
  /\ UNCHANGED <<openingVars, scid, scid_attribute, validatorVars>>

Removed(a) == Remove(a) \/ RemoveInstance(a) \/ Survey(a) \/ DropScid(a) \/ DropOwner(a)

\* Safety_Reset type 2.  Attribute 6 keeps its value.
SafetyReset(a) ==
  /\ Free(a)
  /\ scid' = NoConfiguration
  /\ cfunid' = Nobody
  /\ UNCHANGED <<managerVars, openingVars, scid_attribute, validatorVars>>

-----------------------------------------------------------------------------
Open(a) ==
  \/ \E t \in Triads, s \in Segments \cup {NotSafety} : Validate(a, t, s)
  \/ TriadInUse(a) \/ Allocate(a)
  \/ ConfigureOwner(a) \/ ConfigureScid(a)
  \/ ReadInstanceId(a) \/ NextInstanceId(a) \/ CreateInstance(a) \/ IndexInstance(a)
  \/ Insert(a) \/ Reply(a)

\* close() stops and joins the watchdog before it removes what is left.
CloseBegin ==
  /\ watchdog_running /\ at[Watchdog] = "idle"
  /\ watchdog_running' = FALSE
  /\ UNCHANGED managerVars /\ SafetyUnchanged

Handlers ==
  \/ \E a \in Clients : Open(a) \/ SafetyReset(a) \/ \E c \in ConnIds : ForwardClose(a, c)
  \/ \E c \in ConnIds : \/ watchdog_running /\ Decide(Watchdog, c, "expire")
                        \/ ~watchdog_running /\ Decide(App, c, "pop")
  \/ \E a \in Clients \cup {Watchdog, App} : Removed(a)

Next == (Handlers /\ UNCHANGED watchdog_running) \/ CloseBegin

Spec == Init /\ [][Next]_vars

-----------------------------------------------------------------------------
(* Properties                                                              *)

\* What a removal does in the callbacks of a safety connection.
CallbackLabels == {"callbacks", "forget", "detach", "erase", "survey", "drop scid", "drop owner"}
RemovalLabels == {"expire", "pop", "closing"} \cup CallbackLabels
Labels == {"idle", "insert", "established"} \cup RemovalLabels

\* The thread is on its way to the survey, or has found that it must clear.
Clearing(a) ==
  cur[a] # NoConn /\ IsSafety(cur[a]) /\ at[a] \in CallbackLabels \cup {"closing"}

TableTypeOK ==
  /\ next_connection_id \in 0..MaxOpens
  /\ connections \subseteq 1..next_connection_id
  /\ info \in [ConnIds -> ConnInfo]
  /\ state \in [ConnIds -> ConnectionState]

LabelTypeOK ==
  /\ at \in [Threads -> Labels]
  /\ \A a \in Threads \ Clients : at[a] \notin {"insert", "established"}
  /\ cur \in [Threads -> ConnIds \cup {NoConn}]

OpeningTypeOK ==
  /\ segment \in [ConnIds -> Segments \cup {NotSafety}]
  /\ request \in [Clients -> Requests \cup {NoRequest}]
  /\ step \in [Clients -> ConfigureSteps]
  /\ watchdog_running \in BOOLEAN

SupervisorTypeOK ==
  scid \in Segments /\ scid_attribute \in Segments /\ cfunid \in Clients \cup {Nobody}

ValidatorTypeOK ==
  /\ next_instance_id \in Nat
  /\ instances \in [ConnIds -> ConnIds \cup {NoConn}]
  /\ conn_to_instance \in [ConnIds -> Nat]
  /\ instance_id \in [Threads -> Nat]
  /\ overlapped \subseteq ConnIds

\* Types; moreover an id is in the table only after it was allocated, and only
\* clients open connections.
TypeOK ==
  TableTypeOK /\ LabelTypeOK /\ OpeningTypeOK /\ SupervisorTypeOK /\ ValidatorTypeOK

\* The device does not stay configured or owned by a connection that is gone:
\* what a safety connection left in the supervisor is still justified by one
\* in the table or one being opened, or a removal is about to clear it.  This is
\* what makes the next Forward Open after the last close "fresh".
ConfigurationAccounted ==
  (scid # NoConfiguration \/ scid_attribute # NoConfiguration \/ cfunid # Nobody) =>
    \/ SafetyOpen # {}
    \/ \E a \in Clients : at[a] = "insert" /\ IsSafety(cur[a])
    \/ \E a \in Threads : Clearing(a)

\* The connection of an instance is in the table, or a thread that opens or
\* removes it still has it, and a removal that has looked it up found this one.
Attended(i) ==
  \/ instances[i] \in connections
  \/ \E a \in Threads : /\ cur[a] = instances[i]
                        /\ \/ at[a] \in {"insert", "closing", "callbacks"}
                           \/ at[a] \in {"forget", "detach"} /\ instance_id[a] = i

\* The reverse index is kept in lockstep with instances_, so that a Forward Close
\* finds and clears the entry before the connection it points at is destroyed: no
\* instance is ever left behind.  The header says so without a condition.
NoneDangles == \A i \in ConnIds : instances[i] # NoConn => Attended(i)

\* The instance of a connection that was created alone.
Apart(i) == instances[i] # NoConn /\ instances[i] \notin overlapped

\* Unless the creation of an instance overlapped another one, it never keeps a
\* pointer to a connection that nobody will take out of it: opens and removals in
\* any order, by any threads, leave no such instance behind, whatever overlaps
\* elsewhere and whichever ids are used twice.  And no connection has two.
NoDanglingValidator ==
  /\ \A i \in ConnIds : Apart(i) => Attended(i)
  /\ \A i, j \in ConnIds : instances[i] = instances[j] /\ instances[i] # NoConn => i = j

-----------------------------------------------------------------------------
(* What the sources say and the code does not do: NoneDangles, and this    *)

\* The connections of a device run one safety configuration: a non-zero SCID
\* must match the stored one.
OneConfiguration ==
  \A c, d \in SafetyOpen : segment[c] # NoConfiguration /\ segment[d] # NoConfiguration
                           => segment[c] = segment[d]
==============================================================================
