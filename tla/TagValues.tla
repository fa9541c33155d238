------------------------------ MODULE TagValues ------------------------------
(***************************************************************************)
(* The values of the tags of a TagDatabase over time: writes and the       *)
(* events they fire (tag.hpp, tag_database.cpp), the list of dirty tags    *)
(* that an application drains, and the snapshots it saves to a stream and  *)
(* loads after a restart (persistence.cpp).                                *)
(*                                                                         *)
(* Sessions write while the application saves, loads or drains: every tag  *)
(* is read and written on its own.  The process may stop while a snapshot  *)
(* is written, between two records or inside one; the stream keeps what    *)
(* was written.  A tag's data is one value; its type stands for its type   *)
(* code and its size; a torn record's data reads as the value Torn.        *)
(***************************************************************************)
EXTENDS Integers, Sequences, FiniteSets, SequencesExt

CONSTANTS
  Layout,      \* the scopes in the order they are saved, each the sequence of its tags by
               \* id: the controller's, then the programs' by name
  Type, Value,
  Zero, Torn,  \* the value of a tag never written; what a torn record's data reads as
  Session,     \* threads that write tags
  MaxWrites, MaxSaves, MaxRestarts  \* bounds

Tag == UNION {ToSet(Layout[s]) : s \in DOMAIN Layout}
ControllerTag == ToSet(Layout[1])

ASSUME ValuesAssumption ==
  /\ Layout \in Seq(Seq(Tag)) /\ Layout # <<>> /\ Zero \in Value /\ Torn \notin Value
  /\ \A s \in DOMAIN Layout : IsInjective(Layout[s])
  /\ \A s, r \in DOMAIN Layout : s # r => ToSet(Layout[s]) \cap ToSet(Layout[r]) = {}
  /\ MaxWrites \in Nat /\ MaxSaves \in Nat /\ MaxRestarts \in Nat

VARIABLES
  type,        \* registered tag -> type
  value,       \* registered tag -> value
  firing,      \* session -> the tags it has written and not yet told of
  dirty,       \* dirty_
  drained,     \* ids drained whose values the application has still to read
  copy,        \* tag -> the value the application last read
  silent,      \* tags written silently since the application last read them
  app,         \* what the application is doing: "idle", "save", "load"
  scope,       \* the scope being saved
  listed,      \* the places in it of the tags listed and not yet written
  stream,      \* the last snapshot: [records, end], and the tags due when it was begun
  read,        \* how many of its records the load has read
  result,      \* of its load: [restored, skipped, thrown]
  since,       \* tag -> the values it has had since the save or load began
  writes, saves, restarts

tags == <<type, value>>
events == <<firing, dirty>>
reader == <<drained, copy, silent>>
saving == <<app, scope, listed, stream>>
loading == <<read, result>>
bounds == <<writes, saves, restarts>>
vars == <<tags, events, reader, saving, loading, since, bounds>>

NoStream == [records |-> <<>>, end |-> "none", due |-> {}]
NoResult == [restored |-> 0, skipped |-> 0, thrown |-> FALSE]

\* A database is set up with some of the tags, of some types.
SetUp(ts) ==
  [value |-> [t \in DOMAIN ts |-> Zero], copy |-> [t \in DOMAIN ts |-> Zero],
   since |-> [t \in DOMAIN ts |-> {Zero}]]
Setups == UNION {[ts -> Type] : ts \in SUBSET Tag}

Init ==
  /\ type \in Setups
  /\ value = SetUp(type).value /\ copy = SetUp(type).copy /\ since = SetUp(type).since
  /\ firing = [s \in Session |-> {}] /\ dirty = <<>> /\ drained = {} /\ silent = {}
  /\ app = "idle" /\ scope = 1 /\ listed = {} /\ stream = NoStream
  /\ read = 0 /\ result = NoResult
  /\ writes = 0 /\ saves = 0 /\ restarts = 0

Put(t, v) == value' = [value EXCEPT ![t] = v] /\ since' = [since EXCEPT ![t] = @ \cup {v}]

---------------------------------------------------------------------------
\* Writes and events.

\* set_data, write and atomic_set_bit: the data first, then the handlers.  Only the
\* controller's tags have the database's handler.
Write(s) ==
  /\ firing[s] = {} /\ writes < MaxWrites /\ writes' = writes + 1
  /\ \E t \in DOMAIN type, v \in Value :
       /\ Put(t, v)
       /\ firing' = [firing EXCEPT ![s] = {t} \cap ControllerTag]
  /\ UNCHANGED <<type, dirty, reader, saving, loading, saves, restarts>>

\* fire_any_tag_changed, with events on and dirty tracking enabled.
FireAnyTagChanged(s) ==
  /\ \E t \in firing[s] : dirty' = Append(dirty, t)
  /\ firing' = [firing EXCEPT ![s] = {}]
  /\ UNCHANGED <<tags, reader, saving, loading, since, bounds>>

\* write_silent and set_data_silent, by the application's scan.
WriteSilent ==
  /\ app = "idle" /\ writes < MaxWrites /\ writes' = writes + 1
  /\ \E t \in DOMAIN type, v \in Value : Put(t, v) /\ silent' = silent \cup {t}
  /\ UNCHANGED <<type, events, drained, copy, saving, loading, saves, restarts>>

\* Mutant: the list is cleared before it is taken.
DrainDirtyCleared ==
  /\ drained = {} /\ dirty # <<>>
  /\ dirty' = <<>>
  /\ UNCHANGED <<tags, firing, reader, saving, loading, since, bounds>>

\* drain_dirty takes the list; the application then reads the tags, one at a time.
DrainDirty ==
  /\ drained = {} /\ dirty # <<>>
  /\ drained' = ToSet(dirty) /\ dirty' = <<>>
  /\ UNCHANGED <<tags, firing, copy, silent, saving, loading, since, bounds>>

ReadDrained ==
  /\ \E t \in drained :
       /\ copy' = [copy EXCEPT ![t] = value[t]]
       /\ drained' = drained \ {t} /\ silent' = silent \ {t}
  /\ UNCHANGED <<tags, events, saving, loading, since, bounds>>

---------------------------------------------------------------------------
\* Saving.

\* The places in scope s of the tags that are registered.
Listed(s) == {i \in DOMAIN Layout[s] : Layout[s][i] \in DOMAIN type}
Now == [t \in DOMAIN type |-> {value[t]}]

\* save: the controller's tags are listed and counted.
Save ==
  /\ app = "idle" /\ saves < MaxSaves /\ saves' = saves + 1
  /\ app' = "save" /\ scope' = 1 /\ listed' = Listed(1)
  /\ stream' = [records |-> <<>>, end |-> "cut", due |-> DOMAIN type]
  /\ read' = 0 /\ result' = NoResult /\ since' = Now
  /\ UNCHANGED <<tags, events, reader, writes, restarts>>

\* write_tag.  The record that nothing follows is the last tag of the last program: the
\* number of programs follows the controller's tags.
Record(i) ==
  LET t == Layout[scope][i]
  IN [tag |-> t, type |-> type[t], value |-> value[t], saved |-> value[t],
      last |-> listed = {i} /\ scope = Len(Layout) /\ scope > 1]

\* By instance id.
WriteTag ==
  /\ app = "save"
  /\ \E i \in listed :
       /\ \A j \in listed : i <= j
       /\ stream' = [stream EXCEPT !.records = Append(@, Record(i))]
       /\ listed' = listed \ {i}
  /\ UNCHANGED <<tags, events, reader, app, scope, loading, since, bounds>>

\* Mutant: the last program is left out.
NextProgramButLast ==
  /\ app = "save" /\ listed = {}
  /\ app' = "idle" /\ stream' = [stream EXCEPT !.end = "whole"]
  /\ UNCHANGED <<tags, events, reader, scope, listed, loading, since, bounds>>

\* The next program's tags are listed; after the last one the snapshot is whole.
NextProgram ==
  /\ app = "save" /\ listed = {}
  /\ IF scope < Len(Layout)
     THEN /\ scope' = scope + 1 /\ listed' = Listed(scope + 1)
          /\ UNCHANGED <<app, stream>>
     ELSE /\ app' = "idle" /\ stream' = [stream EXCEPT !.end = "whole"]
          /\ UNCHANGED <<scope, listed>>
  /\ UNCHANGED <<tags, events, reader, loading, since, bounds>>

\* The process stops and starts again with a database set up anew.  A snapshot that was
\* being written stays as it is, or its last record lacks the end of its data.
TornEnd ==
  [stream EXCEPT !.records[Len(stream.records)].value = Torn, !.end = "torn"]

Restart ==
  /\ restarts < MaxRestarts /\ restarts' = restarts + 1
  /\ \E ts \in Setups :
       /\ type' = ts
       /\ value' = SetUp(ts).value /\ copy' = SetUp(ts).copy /\ since' = SetUp(ts).since
  /\ firing' = [s \in Session |-> {}] /\ dirty' = <<>> /\ drained' = {} /\ silent' = {}
  /\ app' = "idle" /\ scope' = 1 /\ listed' = {} /\ read' = 0 /\ result' = NoResult
  /\ \/ UNCHANGED stream
     \/ app = "save" /\ stream.records # <<>> /\ stream' = TornEnd
  /\ UNCHANGED <<writes, saves>>

---------------------------------------------------------------------------
\* Loading.

\* Each snapshot is loaded once by a process.
Load ==
  /\ app = "idle" /\ result = NoResult /\ stream.end # "none"
  /\ app' = "load" /\ read' = 0 /\ since' = Now
  /\ UNCHANGED <<tags, events, reader, scope, listed, stream, result, bounds>>

Matches(r) == r.tag \in DOMAIN type /\ type[r.tag] = r.type

\* The record that is read next.
Coming == stream.records[read + 1]

\* restore_one: the tag gets its value back without an event.  Whether all of the data
\* was there to read is not looked at.
RestoreOne ==
  /\ app = "load" /\ read < Len(stream.records) /\ Matches(Coming)
  /\ Put(Coming.tag, Coming.value) /\ silent' = silent \cup {Coming.tag}
  /\ result' = [result EXCEPT !.restored = @ + 1]
  /\ read' = read + 1
  /\ UNCHANGED <<type, events, drained, copy, saving, bounds>>

\* Mutant: a mismatch ends the load.
SkipRest ==
  /\ app = "load" /\ read < Len(stream.records) /\ ~Matches(Coming)
  /\ result' = [result EXCEPT !.skipped = @ + 1]
  /\ read' = Len(stream.records)
  /\ UNCHANGED <<tags, events, reader, saving, since, bounds>>

\* A tag that is not there, or not of the record's type, is skipped.
SkipOne ==
  /\ app = "load" /\ read < Len(stream.records) /\ ~Matches(Coming)
  /\ result' = [result EXCEPT !.skipped = @ + 1]
  /\ read' = read + 1
  /\ UNCHANGED <<tags, events, reader, saving, since, bounds>>

\* Mutant: reads past the end of the stream go unnoticed.
LoadNeverThrows ==
  /\ app = "load" /\ read = Len(stream.records)
  /\ app' = "idle"
  /\ UNCHANGED <<tags, events, reader, scope, listed, stream, loading, since, bounds>>

\* The load has nothing to read past the records: of the last one's data it does not look
\* whether all of it was there.
Ended ==
  \/ stream.end = "whole"
  \/ stream.records # <<>> /\ Last(stream.records).last

\* load returns, or throws where it has to read past the end of the stream.
LoadReturns ==
  /\ app = "load" /\ read = Len(stream.records)
  /\ app' = "idle"
  /\ result' = [result EXCEPT !.thrown = ~Ended]
  /\ UNCHANGED <<tags, events, reader, scope, listed, stream, read, since, bounds>>

Next ==
  \/ \E s \in Session : Write(s) \/ FireAnyTagChanged(s)
  \/ WriteSilent \/ DrainDirty \/ ReadDrained
  \/ Save \/ WriteTag \/ NextProgram \/ Restart
  \/ Load \/ RestoreOne \/ SkipOne \/ LoadReturns

Spec == Init /\ [][Next]_vars

---------------------------------------------------------------------------
\* Properties.

\* Values, copies and records stay among the registered tags and their values.
TypeOK ==
  /\ type \in Setups /\ DOMAIN value = DOMAIN type
  /\ \A t \in DOMAIN value : value[t] \in Value \cup {Torn}
  /\ app \in {"idle", "save", "load"} /\ ToSet(dirty) \subseteq DOMAIN type
  /\ stream.end \in {"none", "cut", "torn", "whole"}
  /\ result.restored + result.skipped <= Len(stream.records)

\* The application's copy of a controller tag is up to date, or the tag is in the list,
\* being read, or about to be listed by the session that wrote it: an event that races a
\* drain is not lost.  Silent writes are exempt, and programs' tags fire no event.
NoEventLost ==
  \A t \in (DOMAIN type \cap ControllerTag) \ silent :
    \/ copy[t] = value[t]
    \/ t \in ToSet(dirty) \cup drained
    \/ \E s \in Session : t \in firing[s]

\* A snapshot that is whole has one record for each tag, with a value that the tag had
\* while it was saved, whatever was written meanwhile.
SnapshotHonest ==
  app = "idle" /\ stream.end = "whole" /\ restarts = 0 /\ result = NoResult =>
    /\ Len(stream.records) = Cardinality(DOMAIN type)
    /\ \A t \in DOMAIN type :
         \E i \in DOMAIN stream.records :
           stream.records[i].tag = t /\ stream.records[i].value \in since[t]

\* A load that returned has accounted for every record, and has given each tag that
\* fits its record the record's value; what differs was written since it began.
LoadRestores ==
  app = "idle" /\ result # NoResult =>
    /\ result.restored + result.skipped = Len(stream.records)
    /\ \A i \in DOMAIN stream.records :
         Matches(stream.records[i]) => stream.records[i].value \in since[stream.records[i].tag]

\* A load that returns has read a record of every tag there was when the snapshot was
\* begun, each as it was saved but for the data of the very last: wherever else a
\* snapshot was cut the load throws, though it keeps what it had restored.
CutsAreNoticed ==
  app = "idle" /\ result # NoResult /\ ~result.thrown =>
    /\ {r.tag : r \in ToSet(stream.records)} = stream.due
    /\ \A r \in ToSet(stream.records) : r.value = r.saved \/ r.last
=============================================================================
