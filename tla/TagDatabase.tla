----------------------------- MODULE TagDatabase -----------------------------
(***************************************************************************)
(* The tag database of a Logix controller (tag_database.cpp), the Symbol   *)
(* Object and the name cache that mirror it (symbol_object.cpp,            *)
(* logix_dispatcher.cpp), and a TagClient that browses it and then         *)
(* addresses tags by instance (tag_client.cpp).                            *)
(*                                                                         *)
(* Application threads register tags, programs and templates while the     *)
(* client browses.  The database's mutex is released between the           *)
(* allocation of an id and its registration, and the handlers that fill    *)
(* the mirrors run after it is released.  A browse is one page per step:   *)
(* each page is built from one locked snapshot.                            *)
(*                                                                         *)
(* Names are folded to lower case; instance ids stay below the ids of the  *)
(* programs' pseudo-tags and template ids below 2^16; the entries of a     *)
(* page are equally long.  CipClass keeps its instances in an unlocked     *)
(* map: concurrent calls of ensure_instance are taken not to corrupt it.   *)
(***************************************************************************)
EXTENDS Integers, Sequences, FiniteSets, SequencesExt, FiniteSetsExt, Functions

CONSTANTS
  Thread,       \* application threads
  Name,         \* names of tags, and of members
  Program,      \* names of programs
  PageEntries,  \* entries that fit in one page of a browse
  PseudoBase,   \* 0xF000: the first instance id of a program's pseudo-tag
  Prebuilt,     \* ids of templates added with add_template_prebuilt
  MaxOps,       \* bound on the operations of the application and the client
  None

ASSUME DatabaseAssumption ==
  /\ PageEntries \in Nat \ {0} /\ PseudoBase \in Nat /\ MaxOps \in Nat
  /\ Prebuilt \subseteq Nat \ {0} /\ MaxOps < PseudoBase
  /\ None \notin Name \cup Program

VARIABLES
  byName,            \* by_name_lower_: name -> instance id
  byId,              \* by_instance_id_: instance id -> name of the tag
  nextId,            \* next_instance_id_
  program,           \* programs_lower_: program -> [tags : name -> id, next, pseudo]
  instances,         \* the Symbol Object's instances: id -> name of their tag
  cache,             \* symbol_cache_: name -> id
  templates,         \* templates_: id -> template object
  nextTemplate,      \* next_template_id_
  held,              \* template objects handed out to callers and CIP instances
  overtaken,         \* a prebuilt template took the id of one being built
  pc, work,          \* where each thread is, and what it registers
  ops,               \* operations so far
  browse,            \* the client's browse: [scope, start, status, seen, due]
  atoms,             \* its caches: scope -> (name -> id)
  replaced           \* the server was set up anew since the client connected

tags       == <<byName, byId, nextId, program>>
mirrors    == <<instances, cache>>
templating == <<templates, nextTemplate, held, overtaken>>
client     == <<browse, atoms, replaced>>
vars == <<tags, mirrors, templating, client, pc, work, ops>>

Scope == Program \cup {None}     \* None: the controller
Empty == [x \in {} |-> 0]
NoWork == [name |-> None, id |-> 0]
NoBrowse == [scope |-> None, start |-> 0, status |-> "none", seen |-> <<>>, due |-> {}]

Fresh ==
  /\ byName = Empty /\ byId = Empty /\ nextId = 1 /\ program = Empty
  /\ instances = Empty /\ cache = Empty
  /\ templates = Empty /\ nextTemplate = 1 /\ held = {} /\ overtaken = FALSE

Init ==
  /\ Fresh
  /\ pc = [t \in Thread |-> "idle"] /\ work = [t \in Thread |-> NoWork] /\ ops = 0
  /\ browse = NoBrowse /\ atoms = [s \in Scope |-> Empty] /\ replaced = FALSE

Extend(f, x, y) == [z \in DOMAIN f \cup {x} |-> IF z = x THEN y ELSE f[z]]

Operation == ops < MaxOps /\ ops' = ops + 1
Begin(t) == pc[t] = "idle" /\ Operation
Go(t, l) == pc' = [pc EXCEPT ![t] = l]

---------------------------------------------------------------------------
\* Tags and programs.

\* Mutant: the counter is read and not moved.
TakeIdRead(t) ==
  /\ Begin(t) /\ Go(t, "register")
  /\ \E n \in Name : work' = [work EXCEPT ![t] = [name |-> n, id |-> nextId]]
  /\ UNCHANGED <<tags, mirrors, templating, client>>

\* add_tag and add_tag_dims, first lock: the id is taken, and is never given back.
TakeId(t) ==
  /\ Begin(t) /\ Go(t, "register")
  /\ \E n \in Name : work' = [work EXCEPT ![t] = [name |-> n, id |-> nextId]]
  /\ nextId' = nextId + 1
  /\ UNCHANGED <<byName, byId, program, mirrors, templating, client>>

\* Mutant: the name is not looked up under the lock that inserts it.
RegisterUnchecked(t) ==
  LET w == work[t] IN
  /\ pc[t] = "register" /\ Go(t, "ensure")
  /\ byName' = Extend(byName, w.name, w.id)
  /\ byId' = Extend(byId, w.id, w.name)
  /\ UNCHANGED <<nextId, program, mirrors, templating, client, work, ops>>

\* register_tag, second lock: both tables at once, or a name that exists throws.
Register(t) ==
  LET w == work[t] IN
  /\ pc[t] = "register"
  /\ IF w.name \in DOMAIN byName
     THEN Go(t, "idle") /\ UNCHANGED <<byName, byId>>
     ELSE /\ byName' = Extend(byName, w.name, w.id)
          /\ byId' = Extend(byId, w.id, w.name)
          /\ Go(t, "ensure")
  /\ UNCHANGED <<nextId, program, mirrors, templating, client, work, ops>>

Ensured(ids) == [i \in DOMAIN instances \cup ids |->
                   IF i \in DOMAIN instances THEN instances[i] ELSE byId[i]]

\* Mutant: the handler leaves the name cache to the first request.
EnsureInstanceOnly(t) ==
  /\ pc[t] = "ensure" /\ Go(t, "idle")
  /\ instances' = Ensured({work[t].id})
  /\ UNCHANGED <<tags, cache, templating, client, work, ops>>

\* The dispatcher's handler, outside the lock: the tag's CIP instance ...
EnsureInstance(t) ==
  /\ pc[t] = "ensure" /\ Go(t, "cache")
  /\ instances' = Ensured({work[t].id})
  /\ UNCHANGED <<tags, cache, templating, client, work, ops>>

\* ... then the name cache; add_tag returns.
FillCache(t) ==
  /\ pc[t] = "cache" /\ Go(t, "idle")
  /\ cache' = Extend(cache, work[t].name, work[t].id)
  /\ UNCHANGED <<tags, instances, templating, client, work, ops>>

\* register_program: a program that exists is returned as it is.
RegisterProgram(t) ==
  /\ Begin(t)
  /\ \E p \in Program \ DOMAIN program :
       program' = Extend(program, p, [tags |-> Empty, next |-> 1,
                                      pseudo |-> PseudoBase + Cardinality(DOMAIN program)])
  /\ UNCHANGED <<byName, byId, nextId, mirrors, templating, client, pc, work>>

\* add_program_tag and add_program_struct_tag: one lock; ids count per program, and a
\* name that exists throws before it takes one.
AddProgramTag(t) ==
  /\ Begin(t)
  /\ \E p \in DOMAIN program : \E n \in Name \ DOMAIN program[p].tags :
       program' = [program EXCEPT ![p].tags = Extend(@, n, program[p].next), ![p].next = @ + 1]
  /\ UNCHANGED <<byName, byId, nextId, mirrors, templating, client, pc, work>>

---------------------------------------------------------------------------
\* Templates.

\* add_template, first lock.
TakeTemplateId(t) ==
  /\ Begin(t) /\ Go(t, "template")
  /\ work' = [work EXCEPT ![t].id = nextTemplate]
  /\ nextTemplate' = nextTemplate + 1
  /\ UNCHANGED <<tags, mirrors, templates, held, overtaken, client>>

\* A new object goes into the table; the one it replaces there is destroyed.
Insert(id) ==
  \E object \in {Max(held \cup {0}) + 1} :
    templates' = Extend(templates, id, object) /\ held' = held \cup {object}

\* add_template, second lock, unchecked.
InsertTemplate(t) ==
  /\ pc[t] = "template" /\ Go(t, "idle")
  /\ Insert(work[t].id)
  /\ UNCHANGED <<tags, mirrors, nextTemplate, overtaken, client, work, ops>>

\* Mutant: the counter stays where it is.
NextStays(id) == nextTemplate

\* add_template_prebuilt: an id in use throws; the counter moves past the id.
NextAfter(id) == IF id >= nextTemplate THEN id + 1 ELSE nextTemplate
AddPrebuilt(t) ==
  /\ Begin(t)
  /\ \E id \in Prebuilt \ DOMAIN templates :
       /\ Insert(id)
       /\ nextTemplate' = NextAfter(id)
       /\ overtaken' = (overtaken \/ \E u \in Thread : pc[u] = "template" /\ work[u].id = id)
  /\ UNCHANGED <<tags, mirrors, client, pc, work>>

---------------------------------------------------------------------------
\* The server stops, and starts again with an empty database to be set up in any order;
\* the client reconnects and keeps its caches.
Restart ==
  /\ Operation
  /\ \A t \in Thread : pc[t] = "idle"
  /\ byName' = Empty /\ byId' = Empty /\ nextId' = 1 /\ program' = Empty
  /\ instances' = Empty /\ cache' = Empty
  /\ templates' = Empty /\ nextTemplate' = 1 /\ held' = {} /\ overtaken' = FALSE
  /\ browse' = NoBrowse /\ replaced' = TRUE
  /\ UNCHANGED <<atoms, pc, work>>

---------------------------------------------------------------------------
\* Browsing.

TagsOf(s) == IF s = None THEN byName
             ELSE IF s \in DOMAIN program THEN program[s].tags ELSE Empty

Listed(s) == {[name |-> n, id |-> TagsOf(s)[n]] : n \in DOMAIN TagsOf(s)}
Pseudo    == {[name |-> None, id |-> program[p].pseudo] : p \in DOMAIN program}

\* Mutant: the entry that the next page starts at is left out.
AfterStart(id, start) == id > start

\* handle_get_instance_attribute_list: the scope's tags with an id from start on, by id;
\* the controller's list ends with the programs.
FromStart(id, start) == id >= start
Entries(s, start) ==
  {e \in Listed(s) \cup (IF s = None THEN Pseudo ELSE {}) : FromStart(e.id, start)}

\* Sorted by id, as many as fit.
Fits(page, all) ==
  IF Cardinality(all) <= PageEntries THEN page = all
  ELSE Cardinality(page) = PageEntries /\ \A e \in page, f \in all \ page : e.id < f.id

StartBrowse ==
  /\ browse.status # "more" /\ Operation
  /\ \E s \in Scope :
       browse' = [scope |-> s, start |-> 0, status |-> "more", seen |-> <<>>,
                  due |-> Listed(s)]
  /\ UNCHANGED <<tags, mirrors, templating, atoms, replaced, pc, work>>

\* A page after the first is routed to the instance it starts at, which must exist; a
\* program's page too, though the instances are the controller's.  A program must exist.
PageServed ==
  /\ browse.start = 0 \/ browse.start \in DOMAIN instances
  /\ browse.scope \in DOMAIN program \cup {None}

Named(entries) == {e \in entries : e.name # None}
IdsOf(entries) == {e.id : e \in entries}

\* What a cache f of names has learnt from the tags of a page.
Learnt(f, entries) ==
  [n \in DOMAIN f \cup {e.name : e \in entries} |->
     IF \E e \in entries : e.name = n THEN (CHOOSE e \in entries : e.name = n).id ELSE f[n]]

\* browse takes a page, caches the ids of its tags, and goes on after its last entry.
TakePage ==
  \E all \in {Entries(browse.scope, browse.start)} :
  \E page \in SUBSET all :
  \E next \in IF page = {} THEN {browse.start} ELSE {e.id + 1 : e \in page} :
    /\ Fits(page, all) /\ \A e \in page : e.id < next
    /\ browse' = [browse EXCEPT
         !.seen = Append(@, page), !.start = next,
         !.status = IF page = all THEN "done" ELSE "more"]
    /\ instances' = IF browse.scope = None THEN Ensured(IdsOf(Named(all))) ELSE instances
    /\ atoms' = [atoms EXCEPT ![browse.scope] = Learnt(@, Named(page))]

Page ==
  /\ browse.status = "more"
  /\ \/ PageServed /\ TakePage
     \/ ~PageServed /\ browse' = [browse EXCEPT !.status = "failed"]
                    /\ UNCHANGED <<instances, atoms>>
  /\ UNCHANGED <<tags, cache, templating, replaced, pc, work, ops>>

---------------------------------------------------------------------------
\* What a tag name reaches.  A client's name is a tag of a scope, an index list and a
\* member; a path is what follows the class segment, in order.

ClientName == [scope : Scope, root : Name, indices : 0..2, member : Name \cup {None}]
Suffix(n) == IF n.member = None THEN <<>> ELSE <<n.member>>

BuildSymbolicPath(n) ==
  [program |-> n.scope, instance |-> 0, names |-> <<n.root>> \o Suffix(n),
   indices |-> n.indices]

\* Mutant: the indices of a cached root are dropped.
BuildTagPathBare(n) ==
  IF n.root \in DOMAIN atoms[n.scope]
  THEN [program |-> n.scope, instance |-> atoms[n.scope][n.root], names |-> Suffix(n),
        indices |-> 0]
  ELSE BuildSymbolicPath(n)

\* build_tag_path: a root that browse has seen is addressed by its instance.
BuildTagPath(n) ==
  IF n.root \in DOMAIN atoms[n.scope]
  THEN [program |-> n.scope, instance |-> atoms[n.scope][n.root], names |-> Suffix(n),
        indices |-> n.indices]
  ELSE BuildSymbolicPath(n)

Unknown == [scope |-> None, id |-> 0, indices |-> 0, members |-> <<>>]

\* The name cache, else the database.
Found(n) == IF n \in DOMAIN cache THEN cache[n]
            ELSE IF n \in DOMAIN byName THEN byName[n] ELSE 0

\* on_unhandled: the first symbolic segment, after a program's name, is the root; the
\* walker takes what follows it.
OnUnhandled(p) ==
  LET id == IF p.names = <<>> THEN 0
            ELSE IF p.program = None THEN Found(p.names[1])
            ELSE IF p.names[1] \in DOMAIN TagsOf(p.program)
                 THEN TagsOf(p.program)[p.names[1]] ELSE 0
  IN IF id = 0 THEN Unknown
     ELSE [scope |-> p.program, id |-> id,
           indices |-> IF p.instance = 0 THEN p.indices ELSE 0, members |-> Tail(p.names)]

\* A name that only the database knows is cached by the request that asked for it.
LookUp ==
  /\ \E n \in DOMAIN byName \ DOMAIN cache : cache' = Extend(cache, n, byName[n])
  /\ UNCHANGED <<tags, instances, templating, client, pc, work, ops>>

\* dispatch: an instance of the Symbol Object takes the request with the last index and
\* no members; anything else is unhandled.
Target(p) ==
  IF p.instance \in DOMAIN instances
  THEN [scope |-> None, id |-> p.instance,
        indices |-> IF p.indices = 0 THEN 0 ELSE 1, members |-> <<>>]
  ELSE OnUnhandled(p)

---------------------------------------------------------------------------
Next ==
  \/ \E t \in Thread :
       \/ TakeId(t) \/ Register(t) \/ EnsureInstance(t) \/ FillCache(t)
       \/ RegisterProgram(t) \/ AddProgramTag(t)
       \/ TakeTemplateId(t) \/ InsertTemplate(t) \/ AddPrebuilt(t)
  \/ Restart \/ StartBrowse \/ Page \/ LookUp

Spec == Init /\ [][Next]_vars

---------------------------------------------------------------------------
\* Properties.

\* Every table keeps its shape.
TypeOK ==
  /\ DOMAIN byName \subseteq Name /\ \A n \in DOMAIN byName : byName[n] \in 1..nextId - 1
  /\ DOMAIN byId \subseteq 1..nextId - 1 /\ \A i \in DOMAIN byId : byId[i] \in Name
  /\ DOMAIN program \subseteq Program
  /\ DOMAIN instances \subseteq DOMAIN byId /\ DOMAIN cache \subseteq DOMAIN byName
  /\ nextTemplate \in Nat \ {0} /\ DOMAIN templates \subseteq Nat \ {0}
  /\ pc \in [Thread -> {"idle", "register", "ensure", "cache", "template"}]
  /\ ops \in 0..MaxOps /\ replaced \in BOOLEAN /\ overtaken \in BOOLEAN
  /\ browse.status \in {"none", "more", "done", "failed"}
  /\ \A s \in Scope : DOMAIN atoms[s] \subseteq Name

\* The two tables of tags are inverse to each other, whatever threads race to register
\* one name (the race that register_tag's comment tells of), and the mirrors that are
\* filled after the lock is released never lead to another tag than the tables do.
TablesAgree ==
  /\ \A n \in DOMAIN byName : byName[n] \in DOMAIN byId /\ byId[byName[n]] = n
  /\ \A i \in DOMAIN byId : byId[i] \in DOMAIN byName /\ byName[byId[i]] = i
  /\ \A n \in DOMAIN cache : cache[n] = byName[n]
  /\ \A i \in DOMAIN instances : instances[i] = byId[i]

\* A tag whose add_tag has returned is reached the same way by name, through the name
\* cache, and by its CIP instance: no handler of a race between two threads is lost.
AddedIsReachable ==
  \A n \in DOMAIN byName :
    (\A t \in Thread : pc[t] \in {"ensure", "cache"} => work[t].name # n)
      => n \in DOMAIN cache /\ byName[n] \in DOMAIN instances

\* A browse that ends well has seen every tag that was there when it began, the pages in
\* the order of their ids and no id twice, whatever was added between the pages.
BrowseComplete ==
  browse.status = "done" =>
    /\ browse.due \subseteq UNION ToSet(browse.seen)
    /\ \A i, j \in DOMAIN browse.seen : \A e \in browse.seen[i], f \in browse.seen[j] :
         (i < j => e.id < f.id) /\ (e.id = f.id => e = f)

\* A plain controller tag, with at most one index, is the same tag by the instance that
\* browse cached as by its name, as long as the server has not been set up anew.
CachedRootSame ==
  ~replaced =>
    \A n \in ClientName :
      n.scope = None /\ n.member = None /\ n.indices <= 1 /\ n.root \in DOMAIN atoms[None]
        => Target(BuildTagPath(n)) = Target(BuildSymbolicPath(n))

\* Template objects handed to callers, tags and CIP instances stay alive, unless a
\* prebuilt template took the id of one that was being built.
TemplatesAlive == ~overtaken => held \subseteq Range(templates)

\* Nothing takes the id of a tag away or gives it to another tag, short of a restart.
IdsStable ==
  [][Restart \/ \A i \in DOMAIN byId : i \in DOMAIN byId' /\ byId'[i] = byId[i]]_vars

\* What README.md:114 promises of browse's cache, for every name: a cached path reaches
\* what the symbolic path of the same name reaches.
BrowseIsTransparent ==
  ~replaced => \A n \in ClientName : Target(BuildTagPath(n)) = Target(BuildSymbolicPath(n))

\* What symbol_object.cpp:44 says of a browse that goes on at last_seen + 1, that the
\* handler is as correct for an instance as for the class: no page after the first fails.
BrowseGoesOn == browse.status = "failed" => browse.start = 0
=============================================================================
