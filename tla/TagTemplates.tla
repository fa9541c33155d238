----------------------------- MODULE TagTemplates -----------------------------
(***************************************************************************)
(* The layout of structures: logix/tag_database.cpp, add_template, and the *)
(* size of the definition a client reads from template_object.cpp.         *)
(*                                                                         *)
(* A declared member is [name, type, arraySize]; its type is atomic or the *)
(* name of a template declared before.  A resolved member has an offset in *)
(* bytes; for a BOOL of its own, arraySize is its bit.  All names have the *)
(* same length; types are known (the code throws on one that is not).      *)
(***************************************************************************)
EXTENDS Integers, Sequences, SequencesExt

CONSTANTS
  Templates,         \* the templates in the order they were added: [name, members]
  AtomicSize,        \* atomic type -> bytes of one element
  NaturalAlignment,  \* of the types that have one
  ByteBits,          \* bits in a byte: 8
  NameLength,        \* characters in a name
  MaxTemplateChunk   \* bytes of a definition in one reply: 480

\* Sizes are not zero; a template's members have atomic types or those of templates that
\* were added before it.
ASSUME TemplatesAssumption ==
  /\ ByteBits \in Nat \ {0} /\ NameLength \in Nat /\ MaxTemplateChunk \in Nat
  /\ {"SINT", "BOOL"} \subseteq DOMAIN AtomicSize /\ AtomicSize["SINT"] = 1
  /\ \A t \in DOMAIN AtomicSize : AtomicSize[t] \in Nat \ {0}
  /\ \A t \in DOMAIN NaturalAlignment : NaturalAlignment[t] \in Nat \ {0}
  /\ Templates \in Seq([name : STRING,
                        members : Seq([name : STRING, type : STRING, arraySize : Nat])])
  /\ \A i \in DOMAIN Templates :
       /\ Templates[i].name \notin DOMAIN AtomicSize
       /\ \A j \in 1..(i - 1) : Templates[j].name # Templates[i].name
       /\ \A k \in DOMAIN Templates[i].members :
            \/ Templates[i].members[k].type \in DOMAIN AtomicSize
            \/ \E j \in 1..(i - 1) : Templates[i].members[k].type = Templates[j].name

AlignUp(offset, alignment) == ((offset + alignment - 1) \div alignment) * alignment

TypeAlignment(type) ==
  IF type \in DOMAIN NaturalAlignment THEN NaturalAlignment[type]
  ELSE IF AtomicSize[type] < 4 THEN AtomicSize[type] ELSE 4

Resolved(name, offset, type, arraySize, elementSize) ==
  [name |-> name, offset |-> offset, type |-> type,
   elementSize |-> elementSize, arraySize |-> arraySize]

\* A BOOL that is not an array takes the next bit of the host byte, a hidden member
\* that is added when there is none or it is full.
PlaceBool(at, m) ==
  LET full == at.bit = 0 \/ at.bit >= ByteBits
      host == IF full THEN at.offset ELSE at.host
      bit  == IF full THEN 0 ELSE at.bit
      hidden == IF full THEN <<Resolved("host" \o ToString(at.hosts), host, "SINT", 0, 1)>>
                ELSE <<>>
  IN [offset  |-> IF full THEN at.offset + 1 ELSE at.offset,
      bit     |-> bit + 1,
      host    |-> host,
      hosts   |-> at.hosts + Len(hidden),
      members |-> at.members \o hidden \o <<Resolved(m.name, host, "BOOL", bit, 0)>>]

\* Any other member starts at its alignment; a nested structure at four bytes.
PlaceOther(known, at, m) ==
  LET nested == m.type \in DOMAIN known
      size   == IF nested THEN known[m.type].size ELSE AtomicSize[m.type]
      offset == AlignUp(at.offset, IF nested THEN 4 ELSE TypeAlignment(m.type))
  IN [at EXCEPT !.offset  = offset + (IF m.arraySize > 0 THEN m.arraySize * size ELSE size),
                !.bit     = 0,
                !.members = Append(@, Resolved(m.name, offset, m.type, m.arraySize, size))]

Place(known, at, m) ==
  IF m.type = "BOOL" /\ m.arraySize = 0 THEN PlaceBool(at, m) ELSE PlaceOther(known, at, m)

\* build_template_definition: eight bytes for each member, the template's name with
\* its suffix ";0", the members' names, each with a zero, padded to whole words.
DefinitionBytes(members) ==
  AlignUp(8 * Len(members) + (NameLength + 3) + Len(members) * (NameLength + 1), 4)

\* Attribute 4, in words: the constructor of TemplateDefinition.
DefinitionWords(members) == (21 + DefinitionBytes(members) + 3) \div 4

\* TagClient asks for the definition's size less what it takes for a header.
ReadSize(words) == words * 4 - 23

Start == [offset |-> 0, bit |-> 0, host |-> 0, hosts |-> 0, members |-> <<>>]

PlaceAll(known, members) == FoldLeft(LAMBDA at, m : Place(known, at, m), Start, members)

AddTemplate(known, t) ==
  LET end   == PlaceAll(known, t.members)
      names == {end.members[i].name : i \in DOMAIN end.members}
      new   == [size       |-> AlignUp(end.offset, 4),
                definition |-> DefinitionBytes(end.members),
                words      |-> DefinitionWords(end.members),
                member     |-> [n \in names |->
                    end.members[SelectInSeq(end.members, LAMBDA m : m.name = n)]]]
  IN [n \in DOMAIN known \cup {t.name} |-> IF n = t.name THEN new ELSE known[n]]

\* template -> [size, definition, words, member : name -> resolved member]
Layout == FoldLeft(AddTemplate, <<>>, Templates)
==============================================================================
