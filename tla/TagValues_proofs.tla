--------------------------- MODULE TagValues_proofs ---------------------------
(***************************************************************************)
(* What TagValues promises, for any layout of tags, any types and values,  *)
(* any sessions and any bounds: no event is lost between a write and a     *)
(* drain, a whole snapshot is honest, a load accounts for every record,    *)
(* and a snapshot that was cut is noticed.                                 *)
(***************************************************************************)
EXTENDS TagValues, FiniteSetTheorems, TLAPS

Data == Value \cup {Torn}
Records == [tag : Tag, type : Type, value : Data, saved : Data, last : BOOLEAN]

\* The tags that the snapshot has a record of.
Written == {stream.records[i].tag : i \in DOMAIN stream.records}

\* The tags of the scopes that a save has still to come to.
Later == {t \in Tag : \E s \in DOMAIN Layout : s > scope /\ t \in ToSet(Layout[s])}

TagsInv ==
  /\ DOMAIN type \subseteq Tag /\ type \in [DOMAIN type -> Type]
  /\ value \in [DOMAIN type -> Data] /\ copy \in [DOMAIN type -> Data]
  /\ since \in [DOMAIN type -> SUBSET Data]
  /\ firing \in [Session -> SUBSET DOMAIN type]
  /\ \A s \in Session : \A t, u \in firing[s] : t = u
  /\ dirty \in Seq(DOMAIN type)
  /\ drained \subseteq DOMAIN type /\ silent \subseteq DOMAIN type

StreamTypeInv ==
  /\ app \in {"idle", "save", "load"}
  /\ scope \in DOMAIN Layout /\ listed \subseteq DOMAIN Layout[scope]
  /\ stream \in [records : Seq(Records), end : {"none", "cut", "torn", "whole"},
                 due : SUBSET Tag]
  /\ read \in 0..Len(stream.records)
  /\ result \in [restored : Nat, skipped : Nat, thrown : BOOLEAN]
  /\ restarts \in Nat

\* A save has written, has listed, or has still to come to every tag, and each once.
SaveInv ==
  app = "save" =>
    /\ stream.end = "cut" /\ result = NoResult /\ stream.due = DOMAIN type
    /\ \A i \in listed : Layout[scope][i] \in DOMAIN type \ Written
    /\ Written \subseteq DOMAIN type /\ Written \cap Later = {}
    /\ \A t \in DOMAIN type : \/ t \in Written \cup Later
                              \/ \E i \in listed : Layout[scope][i] = t
    /\ \A i \in DOMAIN stream.records :
         stream.records[i].last => scope = Len(Layout) /\ listed = {}

\* A snapshot that is whole, or that ends with a last record, has a record of every tag
\* that was due; only the data of a torn end are not as they were saved.
StreamInv ==
  /\ stream.end = "none" => stream.records = <<>>
  /\ IsFiniteSet(Written) /\ Len(stream.records) = Cardinality(Written)
  /\ stream.end = "whole" => Written = stream.due
  /\ \A i \in DOMAIN stream.records : stream.records[i].last => Written = stream.due
  /\ \A i \in DOMAIN stream.records :
       \/ stream.records[i].value = stream.records[i].saved
       \/ i = Len(stream.records) /\ stream.end = "torn"

\* What a record says of its tag is among the values since the save or load began.
Seen(r) == r.tag \in DOMAIN type /\ r.value \in since[r.tag]

HonestInv ==
  /\ restarts = 0 /\ stream.end # "none" => stream.due = DOMAIN type
  /\ \/ app = "save"
     \/ app = "idle" /\ stream.end = "whole" /\ restarts = 0 /\ result = NoResult
    => \A i \in DOMAIN stream.records : Seen(stream.records[i])

\* A load has accounted for the records it has read.
LoadInv ==
  /\ app = "load" \/ result # NoResult =>
       /\ result.restored + result.skipped = read
       /\ \A i \in 1..read : Matches(stream.records[i]) => Seen(stream.records[i])
  /\ app = "load" => ~result.thrown
  /\ app = "idle" /\ result # NoResult =>
       read = Len(stream.records) /\ (result.thrown <=> ~Ended)

\* A tag's value is among the values it has had since the save or load began.
NowInv == \A t \in DOMAIN type : value[t] \in since[t]

Inv == TagsInv /\ NowInv /\ StreamTypeInv /\ SaveInv /\ StreamInv /\ HonestInv /\ LoadInv

---------------------------------------------------------------------------
\* The layout: each tag has one place.
LEMMA Places ==
  /\ Len(Layout) \in Nat \ {0} /\ DOMAIN Layout = 1..Len(Layout)
  /\ \A s \in DOMAIN Layout : \A i \in DOMAIN Layout[s] : Layout[s][i] \in Tag
  /\ \A s \in DOMAIN Layout : \A i, j \in DOMAIN Layout[s] :
       Layout[s][i] = Layout[s][j] => i = j
  /\ \A s, r \in DOMAIN Layout : s # r =>
       \A i \in DOMAIN Layout[s] : Layout[s][i] \notin ToSet(Layout[r])
  /\ \A t \in Tag : \E s \in DOMAIN Layout : \E i \in DOMAIN Layout[s] : Layout[s][i] = t
  <1>1. Len(Layout) \in Nat \ {0} /\ DOMAIN Layout = 1..Len(Layout)
    BY ValuesAssumption
  <1>2. \A s \in DOMAIN Layout : Layout[s] \in Seq(Tag)
    BY ValuesAssumption
  <1>3. \A s \in DOMAIN Layout : \A i \in DOMAIN Layout[s] : Layout[s][i] \in Tag
    BY <1>2
  <1>4. \A s \in DOMAIN Layout : \A i \in DOMAIN Layout[s] : Layout[s][i] \in ToSet(Layout[s])
    BY DEF ToSet
  <1>5. \A s, r \in DOMAIN Layout : s # r =>
          \A i \in DOMAIN Layout[s] : Layout[s][i] \notin ToSet(Layout[r])
    BY <1>4, ValuesAssumption
  <1>6. \A t \in Tag : \E s \in DOMAIN Layout : \E i \in DOMAIN Layout[s] : Layout[s][i] = t
    BY DEF Tag, ToSet
  <1> QED
    BY <1>1, <1>3, <1>5, <1>6, ValuesAssumption DEF IsInjective

\* A part of the invariant stays where nothing it speaks of changes.
LEMMA Unmoved ==
  ASSUME Inv
  PROVE  /\ UNCHANGED <<type, value, copy, since, firing, dirty, drained, silent>> => TagsInv'
         /\ UNCHANGED <<type, value, since>> => NowInv'
         /\ UNCHANGED <<app, scope, listed, stream, read, result, restarts>> => StreamTypeInv'
         /\ UNCHANGED <<app, scope, listed, stream, result, type>> => SaveInv'
         /\ UNCHANGED stream => StreamInv'
         /\ UNCHANGED <<app, stream, result, restarts, type, since>> => HonestInv'
         /\ UNCHANGED <<app, stream, read, result, type, since>> => LoadInv'
  <1>1. ASSUME UNCHANGED <<type, value, copy, since, firing, dirty, drained, silent>>
        PROVE  TagsInv'
    BY <1>1 DEF Inv, TagsInv
  <1>2. ASSUME UNCHANGED <<app, scope, listed, stream, read, result, restarts>>
        PROVE  StreamTypeInv'
    BY <1>2 DEF Inv, StreamTypeInv
  <1>3. ASSUME UNCHANGED <<app, scope, listed, stream, result, type>> PROVE SaveInv'
    BY <1>3 DEF Inv, SaveInv, Written, Later
  <1>4. ASSUME UNCHANGED stream PROVE StreamInv'
    BY <1>4 DEF Inv, StreamInv, Written
  <1>5. ASSUME UNCHANGED <<app, stream, result, restarts, type, since>> PROVE HonestInv'
    BY <1>5 DEF Inv, HonestInv, Seen
  <1>6. ASSUME UNCHANGED <<app, stream, read, result, type, since>> PROVE LoadInv'
    BY <1>6 DEF Inv, LoadInv, Seen, Matches, Ended
  <1>7. ASSUME UNCHANGED <<type, value, since>> PROVE NowInv'
    BY <1>7 DEF Inv, NowInv
  <1> QED
    BY <1>1, <1>2, <1>3, <1>4, <1>5, <1>6, <1>7

\* The invariant holds when the process starts with any of its tags.
LEMMA InvInit == Init => Inv
  <1> SUFFICES ASSUME Init PROVE Inv
    OBVIOUS
  <1> USE ValuesAssumption DEF Init, NoStream, NoResult
  <1>1. TagsInv
    BY DEF TagsInv, SetUp, Setups, Data
  <1>2. StreamTypeInv
    BY Places DEF StreamTypeInv
  <1>3. SaveInv
    BY DEF SaveInv
  <1>4. StreamInv
    <2>1. Written = {}
      BY DEF Written
    <2> QED
      BY <2>1, FS_EmptySet DEF StreamInv
  <1>5. HonestInv /\ LoadInv
    BY DEF HonestInv, LoadInv
  <1>6. NowInv
    BY DEF NowInv, SetUp
  <1> QED
    BY <1>1, <1>2, <1>3, <1>4, <1>5, <1>6 DEF Inv

\* A tag that is given a value keeps the values it had, and nothing is seen less.
LEMMA PutKeeps ==
  ASSUME Inv, UNCHANGED type, NEW t \in DOMAIN type, NEW v \in Data, Put(t, v)
  PROVE  /\ value' \in [DOMAIN type' -> Data]
         /\ since' \in [DOMAIN type' -> SUBSET Data]
         /\ value'[t] = v /\ v \in since'[t]
         /\ \A u \in DOMAIN type \ {t} : value'[u] = value[u]
         /\ \A u \in DOMAIN type : since[u] \subseteq since'[u]
  BY DEF Inv, TagsInv, Put

\* What was seen stays seen when no tag loses a value it had.
LEMMA SeenStays ==
  ASSUME Inv, UNCHANGED <<type, stream, app, restarts>>,
         \A u \in DOMAIN type : since[u] \subseteq since'[u]
  PROVE  /\ UNCHANGED result => HonestInv'
         /\ UNCHANGED <<read, result>> => LoadInv'
  <1>1. \A r : Seen(r) => Seen(r)'
    BY DEF Seen
  <1>2. UNCHANGED result => HonestInv'
    BY <1>1 DEF Inv, HonestInv
  <1>3. UNCHANGED <<read, result>> => LoadInv'
    <2> SUFFICES ASSUME UNCHANGED <<read, result>> PROVE LoadInv'
      OBVIOUS
    <2>1. \A r : Matches(r)' <=> Matches(r)
      BY DEF Matches
    <2>2. Ended' <=> Ended
      BY DEF Ended
    <2>3. LoadInv
      BY DEF Inv
    <2> HIDE DEF Matches, Seen, Ended
    <2> QED
      BY <1>1, <2>1, <2>2, <2>3 DEF LoadInv
  <1> QED
    BY <1>2, <1>3

---------------------------------------------------------------------------
\* The application's load and save move nothing of the rest while sessions write and events
\* fire.

\* A session's write keeps the invariant.
LEMMA WriteStep == ASSUME Inv, NEW s \in Session, Write(s) PROVE Inv'
  <1>1. PICK t \in DOMAIN type, v \in Value :
          Put(t, v) /\ firing' = [firing EXCEPT ![s] = {t} \cap ControllerTag]
    BY DEF Write
  <1> USE DEF tags, events, reader, saving, loading
  <1>2. v \in Data
    BY DEF Data
  <1>3. UNCHANGED <<type, dirty, reader, saving, loading, restarts>>
    BY DEF Write
  <1>4. TagsInv'
    <2>1. firing' \in [Session -> SUBSET DOMAIN type']
      BY <1>1, <1>3 DEF Inv, TagsInv
    <2>2. \A r \in Session : \A x, y \in firing'[r] : x = y
      BY <1>1 DEF Inv, TagsInv
    <2> QED
      BY <1>1, <1>2, <1>3, <2>1, <2>2, PutKeeps DEF Inv, TagsInv
  <1>5. HonestInv' /\ LoadInv'
    BY <1>1, <1>2, <1>3, PutKeeps, SeenStays
  <1>6. NowInv'
    BY <1>1, <1>2, <1>3, PutKeeps DEF Inv, NowInv
  <1> QED
    BY <1>3, <1>4, <1>5, <1>6, Unmoved DEF Inv

\* A silent write keeps the invariant.
LEMMA WriteSilentStep == ASSUME Inv, WriteSilent PROVE Inv'
  <1>1. PICK t \in DOMAIN type, v \in Value : Put(t, v) /\ silent' = silent \cup {t}
    BY DEF WriteSilent
  <1> USE DEF tags, events, reader, saving, loading
  <1>2. v \in Data
    BY DEF Data
  <1>3. UNCHANGED <<type, events, drained, copy, saving, loading, restarts>>
    BY DEF WriteSilent
  <1>4. TagsInv'
    BY <1>1, <1>2, <1>3, PutKeeps DEF Inv, TagsInv
  <1>5. HonestInv' /\ LoadInv'
    BY <1>1, <1>2, <1>3, PutKeeps, SeenStays
  <1>6. NowInv'
    BY <1>1, <1>2, <1>3, PutKeeps DEF Inv, NowInv
  <1> QED
    BY <1>3, <1>4, <1>5, <1>6, Unmoved DEF Inv

\* Telling of a write, draining the list and reading what was drained keep the invariant.
LEMMA EventStep ==
  ASSUME Inv, (\E s \in Session : FireAnyTagChanged(s)) \/ DrainDirty \/ ReadDrained
  PROVE  Inv'
  <1> USE DEF tags, events, reader, saving, loading, bounds
  <1>1. UNCHANGED <<type, value, since, saving, loading, restarts>>
    BY DEF FireAnyTagChanged, DrainDirty, ReadDrained
  <1>2. TagsInv'
    <2>1. ASSUME NEW s \in Session, FireAnyTagChanged(s) PROVE TagsInv'
      <3>1. PICK t \in firing[s] : dirty' = Append(dirty, t)
        BY <2>1 DEF FireAnyTagChanged
      <3>2. dirty' \in Seq(DOMAIN type)
        BY <3>1 DEF Inv, TagsInv
      <3>3. firing' = [firing EXCEPT ![s] = {}]
        BY <2>1 DEF FireAnyTagChanged
      <3>4. firing' \in [Session -> SUBSET DOMAIN type]
        BY <3>3 DEF Inv, TagsInv
      <3>5. \A r \in Session : \A x, y \in firing'[r] : x = y
        BY <3>3 DEF Inv, TagsInv
      <3> QED
        BY <1>1, <2>1, <3>2, <3>4, <3>5 DEF Inv, TagsInv, FireAnyTagChanged
    <2>2. CASE DrainDirty
      <3>1. dirty' \in Seq(DOMAIN type)
        BY <2>2 DEF DrainDirty
      <3>2. drained' \subseteq DOMAIN type
        BY <2>2 DEF DrainDirty, Inv, TagsInv, ToSet
      <3> QED
        BY <1>1, <2>2, <3>1, <3>2 DEF Inv, TagsInv, DrainDirty
    <2>3. CASE ReadDrained
      <3>1. PICK t \in drained : /\ copy' = [copy EXCEPT ![t] = value[t]]
                                 /\ drained' = drained \ {t} /\ silent' = silent \ {t}
        BY <2>3 DEF ReadDrained
      <3>2. copy' \in [DOMAIN type -> Data]
        BY <3>1 DEF Inv, TagsInv
      <3> QED
        BY <1>1, <2>3, <3>1, <3>2 DEF Inv, TagsInv, ReadDrained
    <2> QED
      BY <2>1, <2>2, <2>3
  <1> QED
    BY <1>1, <1>2, Unmoved DEF Inv

---------------------------------------------------------------------------
\* Listing the controller's tags for a new snapshot keeps the invariant.
LEMMA SaveStep == ASSUME Inv, Save PROVE Inv'
  <1> USE DEF tags, events, reader, saving, loading, bounds
  <1>1. UNCHANGED <<type, value, copy, firing, dirty, drained, silent, restarts>>
    BY DEF Save
  <1>2. /\ app' = "save" /\ scope' = 1 /\ listed' = Listed(1) /\ read' = 0
        /\ stream' = [records |-> <<>>, end |-> "cut", due |-> DOMAIN type]
        /\ result' = NoResult /\ since' = [t \in DOMAIN type |-> {value[t]}]
    BY DEF Save, Now
  <1>3. TagsInv'
    <2>1. since' \in [DOMAIN type -> SUBSET Data]
      BY <1>2 DEF Inv, TagsInv
    <2> QED
      BY <1>1, <2>1 DEF Inv, TagsInv
  <1>4. DOMAIN type \subseteq Tag
    BY DEF Inv, TagsInv
  <1>5. StreamTypeInv'
    BY <1>1, <1>2, <1>4, Places DEF Inv, StreamTypeInv, Listed, NoResult
  <1>6. Written' = {}
    BY <1>2 DEF Written
  <1>7. SaveInv'
    <2>1. \A i \in listed' : Layout[1][i] \in DOMAIN type
      BY <1>2 DEF Listed
    <2>2. ASSUME NEW t \in DOMAIN type
          PROVE  t \in Later' \/ \E i \in listed' : Layout[1][i] = t
      <3>1. PICK s \in DOMAIN Layout : \E i \in DOMAIN Layout[s] : Layout[s][i] = t
        BY <1>4, Places
      <3>2. PICK i \in DOMAIN Layout[s] : Layout[s][i] = t
        BY <3>1
      <3>3. CASE s = 1
        BY <1>2, <3>2, <3>3 DEF Listed
      <3>4. CASE s # 1
        <4>1. s > 1
          BY <3>4, Places
        <4>2. t \in ToSet(Layout[s])
          BY <3>2 DEF ToSet
        <4> QED
          BY <1>2, <1>4, <4>1, <4>2 DEF Later
      <3> QED
        BY <3>3, <3>4
    <2> QED
      BY <1>1, <1>2, <1>6, <2>1, <2>2 DEF SaveInv
  <1>8. StreamInv'
    <2>1. stream'.records = <<>> /\ stream'.end = "cut"
      BY <1>2
    <2> QED
      BY <1>6, <2>1, FS_EmptySet DEF StreamInv
  <1>9. HonestInv' /\ LoadInv'
    BY <1>1, <1>2 DEF HonestInv, LoadInv
  <1>10. NowInv'
    BY <1>1, <1>2 DEF NowInv
  <1> QED
    BY <1>3, <1>5, <1>7, <1>8, <1>9, <1>10 DEF Inv

\* A record of the first tag listed is appended: the tag is written once, and what is
\* written is a value it has.
LEMMA WriteTagStep == ASSUME Inv, WriteTag PROVE Inv'
  <1> USE DEF tags, events, reader, saving, loading, bounds
  <1>1. PICK i \in listed : /\ stream' = [stream EXCEPT !.records = Append(@, Record(i))]
                            /\ listed' = listed \ {i}
    BY DEF WriteTag
  <1>2. /\ app = "save"
        /\ UNCHANGED <<type, value, since, copy, firing, dirty, drained, silent, app, scope,
                       read, result, restarts>>
    BY DEF WriteTag
  <1> DEFINE n == Len(stream.records)
             t == Layout[scope][i]
  <1>3. /\ stream.records \in Seq(Records) /\ n \in Nat /\ DOMAIN stream.records = 1..n
        /\ i \in DOMAIN Layout[scope] /\ scope \in DOMAIN Layout
        /\ t \in DOMAIN type /\ t \notin Written /\ t \in Tag
    BY <1>2, Places DEF Inv, StreamTypeInv, SaveInv
  <1>4. /\ Record(i).tag = t /\ Record(i).value = value[t] /\ Record(i).saved = value[t]
        /\ Record(i).last => listed = {i} /\ scope = Len(Layout)
    BY DEF Record
  <1>5. Record(i) \in Records
    <2>1. type[t] \in Type /\ value[t] \in Data
      BY <1>3 DEF Inv, TagsInv
    <2> QED
      BY <1>3, <2>1 DEF Record, Records
  <1> HIDE DEF t
  <1>6. /\ stream'.records = Append(stream.records, Record(i))
        /\ stream'.end = stream.end /\ stream'.due = stream.due
        /\ stream' \in [records : Seq(Records), end : {"none", "cut", "torn", "whole"},
                        due : SUBSET Tag]
    <2>1. stream' = [records |-> Append(stream.records, Record(i)), end |-> stream.end,
                     due |-> stream.due]
      BY <1>1 DEF Inv, StreamTypeInv
    <2>2. Append(stream.records, Record(i)) \in Seq(Records)
      BY <1>3, <1>5
    <2>3. stream.end \in {"none", "cut", "torn", "whole"} /\ stream.due \subseteq Tag
      BY DEF Inv, StreamTypeInv
    <2> QED
      BY <2>1, <2>2, <2>3
  <1>7. /\ Len(stream'.records) = n + 1 /\ DOMAIN stream'.records = 1..(n + 1)
        /\ \A j \in 1..n : stream'.records[j] = stream.records[j]
        /\ stream'.records[n + 1] = Record(i)
    BY <1>3, <1>5, <1>6
  <1>8. Written' = Written \cup {t}
    <2>1. Written' = {stream'.records[j].tag : j \in 1..(n + 1)}
      BY <1>7 DEF Written
    <2>2. Written = {stream.records[j].tag : j \in 1..n}
      BY <1>3 DEF Written
    <2>3. stream'.records[n + 1].tag = t
      BY <1>4, <1>7
    <2>4. ASSUME NEW j \in 1..(n + 1) PROVE stream'.records[j].tag \in Written \cup {t}
      <3>1. CASE j = n + 1
        BY <2>3, <3>1
      <3>2. CASE j \in 1..n
        BY <1>7, <2>2, <3>2
      <3> QED
        BY <1>3, <3>1, <3>2
    <2>5. ASSUME NEW j \in 1..n PROVE stream.records[j].tag \in Written'
      BY <1>3, <1>7, <2>1
    <2>6. t \in Written'
      BY <1>3, <2>1, <2>3
    <2> QED
      BY <2>1, <2>2, <2>4, <2>5, <2>6
  <1>9. stream.end = "cut" /\ result = NoResult /\ stream.due = DOMAIN type
    BY <1>2 DEF Inv, SaveInv
  <1>10. StreamTypeInv'
    <2>1. read \in 0..n
      BY DEF Inv, StreamTypeInv
    <2>2. read' \in 0..Len(stream'.records)
      BY <1>2, <1>3, <1>7, <2>1
    <2>3. listed' \subseteq DOMAIN Layout[scope]
      BY <1>1 DEF Inv, StreamTypeInv
    <2> QED
      BY <1>2, <1>6, <2>2, <2>3 DEF Inv, StreamTypeInv
  <1>11. SaveInv'
    <2>1. \A j \in listed' : Layout[scope][j] \in DOMAIN type \ Written'
      <3> SUFFICES ASSUME NEW j \in listed' PROVE Layout[scope][j] \in DOMAIN type \ Written'
        OBVIOUS
      <3>1. j \in listed /\ j # i
        BY <1>1
      <3>2. Layout[scope][j] \in DOMAIN type \ Written /\ j \in DOMAIN Layout[scope]
        BY <1>2, <3>1 DEF Inv, SaveInv, StreamTypeInv
      <3>3. Layout[scope][j] # t
        BY <1>3, <3>1, <3>2, Places DEF t
      <3> QED
        BY <1>8, <3>2, <3>3
    <2>2. Later' = Later
      BY <1>2 DEF Later
    <2>3. t \notin Later
      <3> SUFFICES ASSUME NEW s \in DOMAIN Layout, s > scope, t \in ToSet(Layout[s])
                   PROVE  FALSE
        BY DEF Later
      <3>1. s # scope
        BY <1>3, Places
      <3> QED
        BY <1>3, <3>1, Places DEF t
    <2>4. Written' \subseteq DOMAIN type /\ Written' \cap Later' = {}
      BY <1>2, <1>3, <1>8, <2>2, <2>3 DEF Inv, SaveInv
    <2>5. ASSUME NEW u \in DOMAIN type
          PROVE  u \in Written' \cup Later' \/ \E j \in listed' : Layout[scope][j] = u
      BY <1>1, <1>2, <1>8, <2>2 DEF Inv, SaveInv, t
    <2>6. ASSUME NEW j \in 1..(n + 1), stream'.records[j].last
          PROVE  scope = Len(Layout) /\ listed' = {}
      <3>1. CASE j = n + 1
        BY <1>1, <1>4, <1>7, <2>6, <3>1
      <3>2. CASE j \in 1..n
        BY <1>1, <1>2, <1>3, <1>7, <2>6, <3>2 DEF Inv, SaveInv
      <3> QED
        BY <1>3, <3>1, <3>2
    <2> QED
      BY <1>2, <1>6, <1>7, <1>9, <2>1, <2>4, <2>5, <2>6 DEF SaveInv
  <1>12. StreamInv'
    <2>1. IsFiniteSet(Written') /\ Cardinality(Written') = Cardinality(Written) + 1
      BY <1>3, <1>8, FS_AddElement DEF Inv, StreamInv
    <2>2. Cardinality(Written) = n
      BY DEF Inv, StreamInv
    <2>3. ASSUME NEW j \in 1..(n + 1), stream'.records[j].last PROVE Written' = stream'.due
      <3>1. scope = Len(Layout) /\ listed' = {}
        BY <1>2, <1>7, <1>11, <2>3 DEF SaveInv
      <3>2. Later' = {}
        BY <1>2, <3>1, Places DEF Later
      <3>3. Written' = DOMAIN type
        BY <1>2, <1>11, <3>1, <3>2 DEF SaveInv
      <3> QED
        BY <1>6, <1>9, <3>3
    <2>4. ASSUME NEW j \in 1..(n + 1)
          PROVE  stream'.records[j].value = stream'.records[j].saved
      <3>1. CASE j = n + 1
        BY <1>4, <1>7, <3>1
      <3>2. CASE j \in 1..n
        <4>1. stream.records[j].value = stream.records[j].saved
          BY <1>3, <1>9, <3>2 DEF Inv, StreamInv
        <4> QED
          BY <1>7, <3>2, <4>1
      <3> QED
        BY <1>3, <3>1, <3>2
    <2> QED
      BY <1>6, <1>7, <1>9, <2>1, <2>2, <2>3, <2>4 DEF StreamInv
  <1>13. HonestInv'
    <2>1. value[t] \in since[t]
      BY <1>3 DEF Inv, NowInv
    <2>2. Seen(Record(i))
      BY <1>3, <1>4, <2>1 DEF Seen
    <2>3. ASSUME NEW j \in 1..(n + 1) PROVE Seen(stream'.records[j])
      <3>1. CASE j = n + 1
        BY <1>7, <2>2, <3>1
      <3>2. CASE j \in 1..n
        BY <1>2, <1>3, <1>7, <3>2 DEF Inv, HonestInv
      <3> QED
        BY <1>3, <3>1, <3>2
    <2>4. \A r : Seen(r)' <=> Seen(r)
      BY <1>2 DEF Seen
    <2> HIDE DEF Seen
    <2> QED
      BY <1>2, <1>6, <1>7, <1>9, <2>3, <2>4 DEF HonestInv, Inv
  <1>14. LoadInv'
    BY <1>2, <1>9 DEF LoadInv
  <1> QED
    BY <1>2, <1>10, <1>11, <1>12, <1>13, <1>14, Unmoved DEF Inv

\* Going on to the next program, or ending the snapshot, keeps the invariant.
LEMMA NextProgramStep == ASSUME Inv, NextProgram PROVE Inv'
  <1> USE DEF tags, events, reader, saving, loading, bounds
  <1>1. /\ app = "save" /\ listed = {}
        /\ UNCHANGED <<type, value, since, copy, firing, dirty, drained, silent, read, result,
                       restarts>>
    BY DEF NextProgram
  <1>2. stream.end = "cut" /\ result = NoResult /\ stream.due = DOMAIN type
    BY <1>1 DEF Inv, SaveInv
  <1>3. scope \in DOMAIN Layout /\ scope \in Nat
    BY Places DEF Inv, StreamTypeInv
  <1>4. LoadInv'
    BY <1>1, <1>2 DEF LoadInv, NextProgram
  <1>5. CASE scope < Len(Layout)
    <2>1. scope' = scope + 1 /\ listed' = Listed(scope + 1) /\ UNCHANGED <<app, stream>>
      BY <1>5 DEF NextProgram
    <2>2. scope + 1 \in DOMAIN Layout
      BY <1>3, <1>5, Places
    <2>3. StreamTypeInv'
      BY <1>1, <2>1, <2>2 DEF Inv, StreamTypeInv, Listed
    <2>4. Later = Later' \cup ToSet(Layout[scope + 1])
      BY <1>3, <2>1, <2>2, Places DEF Later, ToSet
    <2>5. Written' = Written
      BY <2>1 DEF Written
    <2>6. SaveInv'
      <3>1. \A j \in listed' : Layout[scope + 1][j] \in DOMAIN type \ Written
        <4> SUFFICES ASSUME NEW j \in listed'
                     PROVE  Layout[scope + 1][j] \in DOMAIN type \ Written
          OBVIOUS
        <4>1. j \in DOMAIN Layout[scope + 1] /\ Layout[scope + 1][j] \in DOMAIN type
          BY <2>1 DEF Listed
        <4>2. Layout[scope + 1][j] \in Later
          BY <2>4, <4>1 DEF ToSet
        <4> QED
          BY <1>1, <4>1, <4>2 DEF Inv, SaveInv
      <3>2. ASSUME NEW u \in DOMAIN type
            PROVE  u \in Written \cup Later' \/ \E j \in listed' : Layout[scope + 1][j] = u
        <4>1. u \in Written \cup Later
          BY <1>1 DEF Inv, SaveInv
        <4>2. CASE u \in ToSet(Layout[scope + 1])
          BY <2>1, <4>2 DEF ToSet, Listed
        <4> QED
          BY <2>4, <4>1, <4>2
      <3>3. \A j \in DOMAIN stream.records : ~stream.records[j].last
        BY <1>1, <1>5, <1>3, Places DEF Inv, SaveInv
      <3>4. Written \subseteq DOMAIN type /\ Written \cap Later' = {}
        BY <1>1, <2>4 DEF Inv, SaveInv
      <3> QED
        BY <1>1, <1>2, <2>1, <2>5, <3>1, <3>2, <3>3, <3>4 DEF SaveInv
    <2> QED
      BY <1>1, <1>4, <2>1, <2>3, <2>6, Unmoved DEF Inv
  <1>6. CASE ~(scope < Len(Layout))
    <2>1. app' = "idle" /\ UNCHANGED <<scope, listed>>
      BY <1>6 DEF NextProgram
    <2>2. stream' = [stream EXCEPT !.end = "whole"]
      BY <1>6 DEF NextProgram
    <2>3. /\ stream'.records = stream.records /\ stream'.end = "whole"
          /\ stream'.due = stream.due
          /\ stream' \in [records : Seq(Records), end : {"none", "cut", "torn", "whole"},
                          due : SUBSET Tag]
      BY <2>2 DEF Inv, StreamTypeInv
    <2>4. StreamTypeInv'
      BY <1>1, <2>1, <2>3 DEF Inv, StreamTypeInv
    <2>5. Written' = Written
      BY <2>3 DEF Written
    <2>6. Later = {}
      BY <1>3, <1>6, Places DEF Later
    <2>7. Written = DOMAIN type
      BY <1>1, <2>6 DEF Inv, SaveInv
    <2>8. StreamInv'
      BY <1>2, <2>3, <2>5, <2>7 DEF Inv, StreamInv
    <2>9. HonestInv'
      BY <1>1, <1>2, <2>1, <2>3 DEF Inv, HonestInv, Seen
    <2>10. SaveInv'
      BY <2>1 DEF SaveInv
    <2> QED
      BY <1>1, <1>4, <2>4, <2>8, <2>9, <2>10, Unmoved DEF Inv
  <1> QED
    BY <1>5, <1>6

---------------------------------------------------------------------------
\* A stop and a new start keep the invariant: the stream stays, or loses the end of the data
\* of the record that was written last.
LEMMA RestartStep == ASSUME Inv, Restart PROVE Inv'
  <1>1. PICK ts \in Setups :
          /\ type' = ts
          /\ value' = SetUp(ts).value /\ copy' = SetUp(ts).copy /\ since' = SetUp(ts).since
    BY DEF Restart
  <1>2. /\ firing' = [s \in Session |-> {}] /\ dirty' = <<>> /\ drained' = {} /\ silent' = {}
        /\ app' = "idle" /\ scope' = 1 /\ listed' = {} /\ read' = 0 /\ result' = NoResult
        /\ restarts' = restarts + 1
    BY DEF Restart
  <1>3. TagsInv' /\ NowInv'
    <2>1. ts \in [DOMAIN ts -> Type] /\ DOMAIN ts \subseteq Tag
      BY DEF Setups
    <2>2. Zero \in Data
      BY ValuesAssumption DEF Data
    <2>3. /\ value' = [t \in DOMAIN ts |-> Zero] /\ copy' = [t \in DOMAIN ts |-> Zero]
          /\ since' = [t \in DOMAIN ts |-> {Zero}]
      BY <1>1 DEF SetUp
    <2> QED
      BY <1>1, <1>2, <2>1, <2>2, <2>3 DEF TagsInv, NowInv
  <1>4. restarts' \in Nat \ {0}
    BY <1>2 DEF Inv, StreamTypeInv
  <1>5. SaveInv' /\ HonestInv' /\ LoadInv'
    BY <1>2, <1>4 DEF SaveInv, HonestInv, LoadInv
  <1>6. StreamTypeInv' /\ StreamInv'
    <2>1. CASE UNCHANGED stream
      <3>1. StreamTypeInv'
        BY <1>2, <1>4, <2>1, Places DEF Inv, StreamTypeInv, NoResult
      <3> QED
        BY <2>1, <3>1, Unmoved
    <2>2. CASE app = "save" /\ stream.records # <<>> /\ stream' = TornEnd
      <3> DEFINE n == Len(stream.records)
                 r == stream.records[n]
      <3>1. /\ stream.records \in Seq(Records) /\ n \in Nat \ {0}
            /\ DOMAIN stream.records = 1..n /\ stream.due \subseteq Tag
        BY <2>2 DEF Inv, StreamTypeInv
      <3>2. r \in Records
        BY <3>1
      <3>3. [r EXCEPT !.value = Torn] \in Records
        BY <3>2 DEF Records, Data
      <3>4. stream' = [records |-> [stream.records EXCEPT ![n] = [r EXCEPT !.value = Torn]],
                       end |-> "torn", due |-> stream.due]
        BY <2>2 DEF TornEnd, Inv, StreamTypeInv
      <3>5. /\ stream'.records \in Seq(Records) /\ Len(stream'.records) = n
            /\ DOMAIN stream'.records = 1..n
            /\ \A i \in 1..n : i # n => stream'.records[i] = stream.records[i]
            /\ stream'.records[n] = [r EXCEPT !.value = Torn]
        BY <3>1, <3>3, <3>4
      <3>6. stream'.records[n].tag = r.tag /\ stream'.records[n].last = r.last
        BY <3>2, <3>5 DEF Records
      <3>7. \A i \in 1..n : /\ stream'.records[i].tag = stream.records[i].tag
                            /\ stream'.records[i].last = stream.records[i].last
        BY <3>5, <3>6
      <3>8. Written' = Written
        BY <3>1, <3>5, <3>7 DEF Written
      <3>9. StreamTypeInv'
        BY <1>2, <1>4, <3>1, <3>4, <3>5, Places DEF StreamTypeInv, NoResult
      <3>10. stream.end = "cut"
        BY <2>2 DEF Inv, SaveInv
      <3>11. \A i \in 1..n :
               i # n => stream'.records[i].value = stream'.records[i].saved
        <4>1. \A i \in 1..n : stream.records[i].value = stream.records[i].saved
          BY <3>1, <3>10 DEF Inv, StreamInv
        <4> QED
          BY <3>5, <4>1
      <3>12. stream'.end = "torn" /\ stream'.due = stream.due
        BY <3>4
      <3>13. /\ IsFiniteSet(Written) /\ n = Cardinality(Written)
             /\ \A i \in 1..n : stream.records[i].last => Written = stream.due
        BY <3>1 DEF Inv, StreamInv
      <3>14. StreamInv'
        BY <3>1, <3>5, <3>7, <3>8, <3>11, <3>12, <3>13 DEF StreamInv
      <3> QED
        BY <3>9, <3>14
    <2> QED
      BY <2>1, <2>2 DEF Restart
  <1> QED
    BY <1>3, <1>5, <1>6 DEF Inv

---------------------------------------------------------------------------
\* The start of a load keeps the invariant.
LEMMA LoadStep == ASSUME Inv, Load PROVE Inv'
  <1> USE DEF tags, events, reader, saving, loading, bounds
  <1>1. /\ app = "idle" /\ result = NoResult /\ stream.end # "none"
        /\ app' = "load" /\ read' = 0 /\ since' = [t \in DOMAIN type |-> {value[t]}]
        /\ UNCHANGED <<type, value, copy, firing, dirty, drained, silent, scope, listed,
                       stream, result, restarts>>
    BY DEF Load, Now
  <1>2. TagsInv' /\ NowInv'
    <2>1. since' \in [DOMAIN type -> SUBSET Data]
      BY <1>1 DEF Inv, TagsInv
    <2> QED
      BY <1>1, <2>1 DEF Inv, TagsInv, NowInv
  <1>3. StreamTypeInv'
    BY <1>1 DEF Inv, StreamTypeInv
  <1>4. SaveInv'
    BY <1>1 DEF SaveInv
  <1>5. HonestInv' /\ LoadInv'
    BY <1>1 DEF Inv, HonestInv, LoadInv, NoResult
  <1> QED
    BY <1>1, <1>2, <1>3, <1>4, <1>5, Unmoved DEF Inv

\* Reading a record and restoring its tag or skipping it keeps the invariant.
LEMMA RestoreStep == ASSUME Inv, RestoreOne \/ SkipOne PROVE Inv'
  <1> USE DEF tags, events, reader, saving, loading, bounds
  <1>1. /\ app = "load" /\ read < Len(stream.records) /\ read' = read + 1
        /\ UNCHANGED <<type, copy, firing, dirty, drained, app, scope, listed, stream,
                       restarts>>
    BY DEF RestoreOne, SkipOne
  <1>2. /\ read \in Nat /\ stream.records \in Seq(Records) /\ Len(stream.records) \in Nat
        /\ Coming \in Records
        /\ result \in [restored : Nat, skipped : Nat, thrown : BOOLEAN]
        /\ result.restored + result.skipped = read /\ ~result.thrown
        /\ \A i \in 1..read : Matches(stream.records[i]) => Seen(stream.records[i])
    <2>1. read \in Nat /\ stream.records \in Seq(Records)
      BY DEF Inv, StreamTypeInv
    <2>2. Coming \in Records
      BY <1>1, <2>1 DEF Coming
    <2> QED
      BY <1>1, <2>1, <2>2 DEF Inv, StreamTypeInv, LoadInv
  <1>3. /\ TagsInv' /\ NowInv'
        /\ Matches(Coming) =>
             Coming.tag \in DOMAIN type /\ Coming.value \in since'[Coming.tag]
        /\ \A u \in DOMAIN type : since[u] \subseteq since'[u]
    <2>1. CASE RestoreOne
      <3>1. Coming.tag \in DOMAIN type /\ Coming.value \in Data
        BY <1>2, <2>1 DEF RestoreOne, Matches, Records
      <3>2. Put(Coming.tag, Coming.value) /\ silent' = silent \cup {Coming.tag}
        BY <2>1 DEF RestoreOne
      <3>3. TagsInv'
        BY <1>1, <3>1, <3>2, PutKeeps DEF Inv, TagsInv
      <3>4. NowInv'
        BY <1>1, <3>1, <3>2, PutKeeps DEF Inv, NowInv
      <3>5. Coming.value \in since'[Coming.tag]
        BY <1>1, <3>1, <3>2, PutKeeps
      <3> QED
        BY <1>1, <3>1, <3>2, <3>3, <3>4, <3>5, PutKeeps
    <2>2. CASE SkipOne
      <3>1. UNCHANGED <<value, since, silent>> /\ ~Matches(Coming)
        BY <2>2 DEF SkipOne
      <3> QED
        BY <1>1, <3>1, Unmoved DEF Inv
    <2> QED
      BY <2>1, <2>2
  <1>4. /\ result' \in [restored : Nat, skipped : Nat, thrown : BOOLEAN]
        /\ result'.restored + result'.skipped = read + 1
        /\ result'.thrown = FALSE
    <2>1. \/ result' = [restored |-> result.restored + 1, skipped |-> result.skipped,
                        thrown |-> result.thrown]
          \/ result' = [restored |-> result.restored, skipped |-> result.skipped + 1,
                        thrown |-> result.thrown]
      BY <1>2 DEF RestoreOne, SkipOne
    <2> QED
      BY <1>2, <2>1
  <1>5. StreamTypeInv'
    BY <1>1, <1>2, <1>4 DEF Inv, StreamTypeInv
  <1>6. SaveInv' /\ HonestInv'
    BY <1>1 DEF Inv, SaveInv, HonestInv
  <1>7. LoadInv'
    <2>1. \A r : Matches(r)' <=> Matches(r)
      BY <1>1 DEF Matches
    <2>2. \A r : Seen(r) => Seen(r)'
      BY <1>1, <1>3 DEF Seen
    <2>3. ASSUME NEW i \in 1..(read + 1), Matches(stream.records[i])
          PROVE  Seen(stream.records[i])'
      <3>1. CASE i = read + 1
        <4>1. stream.records[i] = Coming
          BY <3>1 DEF Coming
        <4> QED
          BY <1>1, <1>3, <2>3, <4>1 DEF Seen
      <3>2. CASE i \in 1..read
        BY <1>1, <1>2, <2>2, <2>3, <3>2
      <3> QED
        BY <1>2, <3>1, <3>2
    <2> QED
      BY <1>1, <1>4, <2>1, <2>3 DEF LoadInv
  <1> QED
    BY <1>1, <1>3, <1>5, <1>6, <1>7, Unmoved DEF Inv

\* The return of a load keeps the invariant.
LEMMA LoadReturnsStep == ASSUME Inv, LoadReturns PROVE Inv'
  <1> USE DEF tags, events, reader, saving, loading, bounds
  <1>1. /\ app = "load" /\ read = Len(stream.records) /\ app' = "idle"
        /\ UNCHANGED <<type, value, since, copy, firing, dirty, drained, silent, scope, listed,
                       stream, read, restarts>>
    BY DEF LoadReturns
  <1>2. /\ result' = [restored |-> result.restored, skipped |-> result.skipped,
                      thrown |-> ~Ended]
        /\ result \in [restored : Nat, skipped : Nat, thrown : BOOLEAN]
    BY DEF LoadReturns, Inv, StreamTypeInv
  <1>3. StreamTypeInv'
    BY <1>1, <1>2 DEF Inv, StreamTypeInv
  <1>4. SaveInv'
    BY <1>1 DEF SaveInv
  <1>5. /\ result.restored + result.skipped = read
        /\ \A i \in 1..read : Matches(stream.records[i]) => Seen(stream.records[i])
    BY <1>1 DEF Inv, LoadInv
  <1>6. LoadInv'
    <2>1. \A r : (Matches(r)' <=> Matches(r)) /\ (Seen(r)' <=> Seen(r))
      BY <1>1 DEF Matches, Seen
    <2>2. Ended' <=> Ended
      BY <1>1 DEF Ended
    <2> HIDE DEF Matches, Seen, Ended
    <2> QED
      BY <1>1, <1>2, <1>5, <2>1, <2>2 DEF LoadInv
  <1>7. HonestInv'
    <2>1. result' = NoResult => stream.records = <<>>
      <3>1. ASSUME result' = NoResult PROVE stream.records = <<>>
        <4>1. result.restored = 0 /\ result.skipped = 0
          BY <1>2, <3>1 DEF NoResult
        <4>2. Len(stream.records) = 0 /\ stream.records \in Seq(Records)
          BY <1>1, <1>5, <4>1 DEF Inv, StreamTypeInv
        <4> QED
          BY <4>2
      <3> QED
        BY <3>1
    <2> QED
      BY <1>1, <2>1 DEF Inv, HonestInv
  <1> QED
    BY <1>1, <1>3, <1>4, <1>6, <1>7, Unmoved DEF Inv

\* Every step keeps the invariant.
LEMMA InvStep == Inv /\ [Next]_vars => Inv'
  <1> SUFFICES ASSUME Inv, [Next]_vars PROVE Inv'
    OBVIOUS
  <1>1. CASE UNCHANGED vars
    BY <1>1, Unmoved DEF vars, tags, events, reader, saving, loading, bounds, Inv
  <1> QED
    BY <1>1, WriteStep, WriteSilentStep, EventStep, SaveStep, WriteTagStep, NextProgramStep,
       RestartStep, LoadStep, RestoreStep, LoadReturnsStep DEF Next

---------------------------------------------------------------------------
\* Values, copies and records stay among the registered tags and their values.
THEOREM ValuesTypeCorrect == Spec => []TypeOK
  <1>1. Inv => TypeOK
    <2> SUFFICES ASSUME Inv PROVE TypeOK
      OBVIOUS
    <2>1. type \in Setups
      BY DEF Inv, TagsInv, Setups
    <2>2. ToSet(dirty) \subseteq DOMAIN type
      BY DEF Inv, TagsInv, ToSet
    <2>3. result.restored + result.skipped <= Len(stream.records)
      <3>1. read <= Len(stream.records) /\ Len(stream.records) \in Nat
        BY DEF Inv, StreamTypeInv
      <3>2. CASE result = NoResult
        BY <3>1, <3>2 DEF NoResult
      <3>3. CASE result # NoResult
        BY <3>1, <3>3 DEF Inv, LoadInv
      <3> QED
        BY <3>2, <3>3
    <2> QED
      BY <2>1, <2>2, <2>3 DEF Inv, TagsInv, StreamTypeInv, TypeOK, Data
  <1> QED
    BY InvInit, InvStep, <1>1, PTL DEF Spec

\* Whatever interleaves with writes and drains, a tag the application has an old copy of is
\* in the list, drained and not yet read, or about to be listed by the session that wrote
\* it: an event that races drain_dirty is not lost.
THEOREM NoEventIsLost == Spec => []NoEventLost
  <1>1. Init => NoEventLost
    BY DEF Init, NoEventLost, SetUp, Setups
  <1>2. Inv /\ NoEventLost /\ [Next]_vars => NoEventLost'
    <2> SUFFICES ASSUME Inv, NoEventLost, [Next]_vars PROVE NoEventLost'
      OBVIOUS
    <2> USE DEF tags, events, reader, saving, loading, bounds, NoEventLost
    <2>1. ASSUME NEW s \in Session, Write(s) PROVE NoEventLost'
      <3>1. PICK t \in DOMAIN type, v \in Value :
              Put(t, v) /\ firing' = [firing EXCEPT ![s] = {t} \cap ControllerTag]
        BY <2>1 DEF Write
      <3>2. firing[s] = {} /\ UNCHANGED <<type, dirty, drained, copy, silent>>
        BY <2>1 DEF Write
      <3>3. v \in Data
        BY DEF Data
      <3>4. \A u \in DOMAIN type \ {t} : value'[u] = value[u]
        BY <3>1, <3>2, <3>3, PutKeeps
      <3>5. \A r \in Session \ {s} : firing'[r] = firing[r]
        BY <3>1 DEF Inv, TagsInv
      <3>6. t \in ControllerTag => t \in firing'[s]
        BY <3>1 DEF Inv, TagsInv
      <3> QED
        BY <3>2, <3>4, <3>5, <3>6
    <2>2. ASSUME NEW s \in Session, FireAnyTagChanged(s) PROVE NoEventLost'
      <3>1. PICK t \in firing[s] : dirty' = Append(dirty, t)
        BY <2>2 DEF FireAnyTagChanged
      <3>2. UNCHANGED <<type, value, drained, copy, silent>>
        BY <2>2 DEF FireAnyTagChanged
      <3>3. ToSet(dirty') = ToSet(dirty) \cup {t}
        <4>1. dirty \in Seq(DOMAIN type) /\ t \in DOMAIN type
          BY DEF Inv, TagsInv
        <4>2. /\ DOMAIN dirty' = 1..(Len(dirty) + 1) /\ dirty'[Len(dirty) + 1] = t
              /\ \A i \in 1..Len(dirty) : dirty'[i] = dirty[i]
              /\ Len(dirty) \in Nat /\ DOMAIN dirty = 1..Len(dirty)
          BY <3>1, <4>1
        <4>3. ASSUME NEW i \in 1..(Len(dirty) + 1) PROVE dirty'[i] \in ToSet(dirty) \cup {t}
          <5>1. CASE i = Len(dirty) + 1
            BY <4>2, <5>1
          <5>2. CASE i \in 1..Len(dirty)
            BY <4>2, <5>2 DEF ToSet
          <5> QED
            BY <4>2, <5>1, <5>2
        <4>4. ASSUME NEW i \in 1..Len(dirty) PROVE dirty[i] \in ToSet(dirty')
          BY <4>2 DEF ToSet
        <4>5. t \in ToSet(dirty')
          BY <4>2 DEF ToSet
        <4> QED
          BY <4>2, <4>3, <4>4, <4>5 DEF ToSet
      <3>4. firing' = [firing EXCEPT ![s] = {}]
        BY <2>2 DEF FireAnyTagChanged
      <3>5. \A r \in Session \ {s} : firing'[r] = firing[r]
        BY <3>4 DEF Inv, TagsInv
      <3>6. \A u \in firing[s] : u = t
        BY DEF Inv, TagsInv
      <3> QED
        BY <3>2, <3>3, <3>5, <3>6
    <2>3. CASE DrainDirty
      <3>1. /\ drained' = ToSet(dirty) /\ drained = {}
            /\ UNCHANGED <<type, value, firing, copy, silent>>
        BY <2>3 DEF DrainDirty
      <3> QED
        BY <3>1
    <2>4. CASE ReadDrained
      <3>1. PICK t \in drained : /\ copy' = [copy EXCEPT ![t] = value[t]]
                                 /\ drained' = drained \ {t} /\ silent' = silent \ {t}
        BY <2>4 DEF ReadDrained
      <3>2. UNCHANGED <<type, value, firing, dirty>>
        BY <2>4 DEF ReadDrained
      <3>3. copy'[t] = value'[t] /\ \A u \in DOMAIN type \ {t} : copy'[u] = copy[u]
        BY <3>1, <3>2 DEF Inv, TagsInv
      <3> QED
        BY <3>1, <3>2, <3>3
    <2>5. CASE WriteSilent
      <3>1. PICK t \in DOMAIN type, v \in Value : Put(t, v) /\ silent' = silent \cup {t}
        BY <2>5 DEF WriteSilent
      <3>2. UNCHANGED <<type, firing, dirty, drained, copy>>
        BY <2>5 DEF WriteSilent
      <3>3. \A u \in DOMAIN type \ {t} : value'[u] = value[u]
        BY <3>1, <3>2, PutKeeps DEF Data
      <3> QED
        BY <3>1, <3>2, <3>3
    <2>6. CASE RestoreOne
      <3>1. /\ Put(Coming.tag, Coming.value) /\ silent' = silent \cup {Coming.tag}
            /\ UNCHANGED <<type, firing, dirty, drained, copy>>
        BY <2>6 DEF RestoreOne
      <3>2. \A u \in DOMAIN type \ {Coming.tag} : value'[u] = value[u]
        BY <3>1 DEF Put, Inv, TagsInv
      <3> QED
        BY <3>1, <3>2
    <2>7. CASE Restart
      <3>1. PICK ts \in Setups :
              type' = ts /\ value' = SetUp(ts).value /\ copy' = SetUp(ts).copy
        BY <2>7 DEF Restart
      <3> QED
        BY <3>1 DEF SetUp
    <2>8. CASE Save \/ WriteTag \/ NextProgram \/ Load \/ SkipOne \/ LoadReturns
                \/ UNCHANGED vars
      <3>1. UNCHANGED <<type, value, firing, dirty, drained, copy, silent>>
        BY <2>8 DEF Save, WriteTag, NextProgram, Load, SkipOne, LoadReturns, vars
      <3> QED
        BY <3>1
    <2> QED
      BY <2>1, <2>2, <2>3, <2>4, <2>5, <2>6, <2>7, <2>8 DEF Next
  <1> QED
    BY InvInit, InvStep, <1>1, <1>2, PTL DEF Spec

\* A snapshot that is whole has one record for each tag, with a value that the tag had while
\* save() was listing and writing, although sessions write all the while.
THEOREM SnapshotsAreHonest == Spec => []SnapshotHonest
  <1>1. Inv => SnapshotHonest
    <2> SUFFICES ASSUME Inv, app = "idle", stream.end = "whole", restarts = 0,
                        result = NoResult
                 PROVE  /\ Len(stream.records) = Cardinality(DOMAIN type)
                        /\ \A t \in DOMAIN type :
                             \E i \in DOMAIN stream.records :
                               /\ stream.records[i].tag = t
                               /\ stream.records[i].value \in since[t]
      BY DEF SnapshotHonest
    <2>1. Written = DOMAIN type
      BY DEF Inv, StreamInv, HonestInv
    <2>2. \A i \in DOMAIN stream.records : Seen(stream.records[i])
      BY DEF Inv, HonestInv
    <2> QED
      BY <2>1, <2>2 DEF Inv, StreamInv, Written, Seen
  <1> QED
    BY InvInit, InvStep, <1>1, PTL DEF Spec

\* A load that returned or threw at its end has accounted for every record, and each tag
\* that fits its record has had the record's value since the load began.
THEOREM LoadsAccountForEveryRecord == Spec => []LoadRestores
  <1>1. Inv => LoadRestores
    <2> SUFFICES ASSUME Inv, app = "idle", result # NoResult
                 PROVE  /\ result.restored + result.skipped = Len(stream.records)
                        /\ \A i \in DOMAIN stream.records : Matches(stream.records[i]) =>
                             stream.records[i].value \in since[stream.records[i].tag]
      BY DEF LoadRestores
    <2>1. read = Len(stream.records) /\ stream.records \in Seq(Records)
      BY DEF Inv, LoadInv, StreamTypeInv
    <2>2. \A i \in 1..read : Matches(stream.records[i]) => Seen(stream.records[i])
      BY DEF Inv, LoadInv
    <2>3. result.restored + result.skipped = read
      BY DEF Inv, LoadInv
    <2> QED
      BY <2>1, <2>2, <2>3 DEF Seen
  <1> QED
    BY InvInit, InvStep, <1>1, PTL DEF Spec

\* Wherever the process stopped inside save(), a load that returns without throwing has read
\* a record of every tag that was due, each as it was saved but for the data of the last.
THEOREM EveryOtherCutIsNoticed == Spec => []CutsAreNoticed
  <1>1. Inv => CutsAreNoticed
    <2> SUFFICES ASSUME Inv, app = "idle", result # NoResult, ~result.thrown
                 PROVE  /\ {r.tag : r \in ToSet(stream.records)} = stream.due
                        /\ \A r \in ToSet(stream.records) : r.value = r.saved \/ r.last
      BY DEF CutsAreNoticed
    <2> DEFINE n == Len(stream.records)
    <2>1. n \in Nat /\ DOMAIN stream.records = 1..n
      BY DEF Inv, StreamTypeInv
    <2>2. Ended
      BY DEF Inv, LoadInv
    <2>3. stream.records # <<>> => n \in 1..n
      BY <2>1 DEF Inv, StreamTypeInv
    <2>4. Written = stream.due
      BY <2>1, <2>2, <2>3 DEF Ended, Last, Inv, StreamInv
    <2>5. {r.tag : r \in ToSet(stream.records)} = Written
      BY DEF ToSet, Written
    <2>6. ASSUME NEW i \in 1..n
          PROVE  stream.records[i].value = stream.records[i].saved \/ stream.records[i].last
      <3>1. CASE stream.end = "torn" /\ i = n
        <4>1. stream.records # <<>> /\ Last(stream.records).last
          BY <2>2, <3>1 DEF Ended
        <4> QED
          BY <3>1, <4>1 DEF Last
      <3>2. CASE ~(stream.end = "torn" /\ i = n)
        BY <2>1, <3>2 DEF Inv, StreamInv
      <3> QED
        BY <3>1, <3>2
    <2> QED
      BY <2>1, <2>4, <2>5, <2>6 DEF ToSet
  <1> QED
    BY InvInit, InvStep, <1>1, PTL DEF Spec
=============================================================================
