-------------------------- MODULE TagDatabase_proofs --------------------------
(***************************************************************************)
(* Proofs about TagDatabase, for any number of application threads, names, *)
(* programs and operations.                                                *)
(***************************************************************************)
EXTENDS TagDatabase, FiniteSetTheorems, TLAPS

TagMaps == UNION {[names -> Nat] : names \in SUBSET Name}

\* The counters, and what each thread works on.
TypeInv ==
  /\ nextId \in Nat \ {0} /\ ops \in Nat /\ nextId <= ops + 1 /\ ops <= MaxOps
  /\ DOMAIN byName \subseteq Name /\ \A n \in DOMAIN byName : byName[n] \in 1..nextId - 1
  /\ DOMAIN byId \subseteq 1..nextId - 1 /\ \A i \in DOMAIN byId : byId[i] \in Name
  /\ pc \in [Thread -> {"idle", "register", "ensure", "cache", "template"}]
  /\ work \in [Thread -> [name : Name \cup {None}, id : Nat]]

\* The mirrors lag behind the tables and never run ahead of them.
MirrorInv ==
  /\ TablesAgree
  /\ DOMAIN instances \subseteq DOMAIN byId /\ DOMAIN cache \subseteq DOMAIN byName

\* An id that is taken and not yet registered belongs to one thread; a thread that has
\* registered its tag finds it in the table.
WorkInv ==
  \A t \in Thread :
    /\ pc[t] \in {"register", "ensure", "cache"} => work[t].name \in Name
    /\ pc[t] = "register" => work[t].id \in 1..nextId - 1 /\ work[t].id \notin DOMAIN byId
    /\ pc[t] \in {"ensure", "cache"} =>
         work[t].id \in DOMAIN byId /\ byId[work[t].id] = work[t].name
    /\ \A u \in Thread :
         t # u /\ pc[t] = "register" /\ pc[u] = "register" => work[t].id # work[u].id

\* A thread is on its way to every mirror that lacks a tag.
FillInv ==
  \A n \in DOMAIN byName :
    /\ n \notin DOMAIN cache =>
         \E t \in Thread : pc[t] \in {"ensure", "cache"} /\ work[t].name = n
    /\ byName[n] \notin DOMAIN instances =>
         \E t \in Thread : pc[t] = "ensure" /\ work[t].name = n

\* The id of a template that is being built is free, unless a prebuilt one overtook it, and
\* no two are built with one id.
TemplateInv ==
  /\ nextTemplate \in Nat \ {0} /\ \A id \in DOMAIN templates : id \in Nat /\ id < nextTemplate
  /\ \A t \in Thread : pc[t] = "template" =>
       /\ work[t].id < nextTemplate /\ (~overtaken => work[t].id \notin DOMAIN templates)
       /\ \A u \in Thread : t # u /\ pc[u] = "template" => work[t].id # work[u].id
  /\ TemplatesAlive

Inv == TypeInv /\ MirrorInv /\ WorkInv /\ FillInv /\ TemplateInv

-----------------------------------------------------------------------------
\* A table that is given an entry keeps the others.
LEMMA ExtendValues ==
  ASSUME NEW f, NEW x, NEW y
  PROVE  /\ DOMAIN Extend(f, x, y) = DOMAIN f \cup {x}
         /\ Extend(f, x, y)[x] = y
         /\ \A z \in DOMAIN f : z # x => Extend(f, x, y)[z] = f[z]
  BY DEF Extend

\* An entry under a new key adds its value and loses none.
LEMMA ExtendRange ==
  ASSUME NEW f, NEW x, NEW y, x \notin DOMAIN f
  PROVE  Range(Extend(f, x, y)) = Range(f) \cup {y}
  <1>1. DOMAIN Extend(f, x, y) = DOMAIN f \cup {x}
    BY DEF Extend
  <1>2. Extend(f, x, y)[x] = y
    BY DEF Extend
  <1>3. \A z \in DOMAIN f : Extend(f, x, y)[z] = f[z]
    BY DEF Extend
  <1>4. ASSUME NEW g, DOMAIN g = DOMAIN f \cup {x}, g[x] = y, \A z \in DOMAIN f : g[z] = f[z]
        PROVE  Range(g) = Range(f) \cup {y}
    BY <1>4 DEF Range
  <1> QED
    BY <1>1, <1>2, <1>3, <1>4

\* A browse gives CIP instances to tags of the table only.
LEMMA PageEnsures ==
  ASSUME MirrorInv, Page
  PROVE  \E ids \in SUBSET DOMAIN byId : instances' = instances \/ instances' = Ensured(ids)
  <1>1. CASE instances' = instances
    BY <1>1
  <1>2. CASE PageServed /\ TakePage /\ browse.scope = None
    <2>1. PICK all \in {Entries(None, browse.start)} : instances' = Ensured(IdsOf(Named(all)))
      BY <1>2 DEF TakePage
    <2>2. IdsOf(Named(all)) \subseteq DOMAIN byId
      BY <2>1 DEF IdsOf, Named, Entries, Listed, Pseudo, TagsOf, MirrorInv, TablesAgree
    <2> QED
      BY <2>1, <2>2
  <1> QED
    BY <1>1, <1>2 DEF Page, TakePage

\* The database starts empty.
LEMMA InvInit == Init => Inv
  BY DatabaseAssumption DEF Init, Fresh, Empty, NoWork, Inv, TypeInv, MirrorInv,
       TablesAgree, WorkInv, FillInv, TemplateInv, TemplatesAlive

\* Every step keeps the invariant.
LEMMA InvStep == Inv /\ [Next]_vars => Inv'
  <1> SUFFICES ASSUME Inv, [Next]_vars PROVE Inv'
    OBVIOUS
  <1> USE DatabaseAssumption DEF Inv
  <1>1. ASSUME NEW t \in Thread, TakeId(t) PROVE Inv'
    <2>1. TypeInv'
      BY <1>1 DEF TakeId, Begin, Operation, Go, TypeInv
    <2>2. MirrorInv'
      BY <1>1 DEF TakeId, mirrors, MirrorInv, TablesAgree
    <2>3. WorkInv'
      BY <1>1 DEF TakeId, Go, WorkInv, TypeInv, Extend
    <2>4. FillInv'
      BY <1>1 DEF TakeId, Begin, Go, mirrors, FillInv
    <2>5. TemplateInv'
      BY <1>1 DEF TakeId, Begin, Go, templating, TemplateInv, TemplatesAlive
    <2> QED
      BY <1>1, <2>1, <2>2, <2>3, <2>4, <2>5
  <1>2. ASSUME NEW t \in Thread, Register(t) PROVE Inv'
    <2>1. TypeInv'
      BY <1>2 DEF Register, Go, TypeInv, WorkInv, Extend
    <2>2. MirrorInv'
      BY <1>2 DEF Register, mirrors, MirrorInv, TablesAgree, WorkInv, Extend
    <2>3. WorkInv'
      BY <1>2 DEF Register, Go, WorkInv, TypeInv, Extend
    <2>4. FillInv'
      BY <1>2 DEF Register, Go, mirrors, FillInv, TypeInv, Extend
    <2>5. TemplateInv'
      BY <1>2 DEF Register, Go, templating, TemplateInv, TemplatesAlive, TypeInv
    <2> QED
      BY <1>2, <2>1, <2>2, <2>3, <2>4, <2>5
  <1>3. ASSUME NEW t \in Thread, EnsureInstance(t) PROVE Inv'
    <2>1. TypeInv'
      BY <1>3 DEF EnsureInstance, Go, tags, TypeInv
    <2>2. MirrorInv'
      BY <1>3 DEF EnsureInstance, Ensured, tags, MirrorInv, TablesAgree, WorkInv
    <2>3. WorkInv'
      BY <1>3 DEF EnsureInstance, Go, tags, WorkInv
    <2>4. FillInv'
      BY <1>3 DEF EnsureInstance, Ensured, Go, tags, FillInv, WorkInv, MirrorInv,
           TablesAgree
    <2>5. TemplateInv'
      BY <1>3 DEF EnsureInstance, Go, templating, TemplateInv, TemplatesAlive
    <2> QED
      BY <1>3, <2>1, <2>2, <2>3, <2>4, <2>5
  <1>4. ASSUME NEW t \in Thread, FillCache(t) PROVE Inv'
    <2>1. TypeInv'
      BY <1>4 DEF FillCache, Go, tags, TypeInv
    <2>2. MirrorInv'
      BY <1>4 DEF FillCache, tags, MirrorInv, TablesAgree, WorkInv, Extend
    <2>3. WorkInv'
      BY <1>4 DEF FillCache, Go, tags, WorkInv
    <2>4. FillInv'
      BY <1>4 DEF FillCache, Go, tags, FillInv, Extend
    <2>5. TemplateInv'
      BY <1>4 DEF FillCache, Go, templating, TemplateInv, TemplatesAlive
    <2> QED
      BY <1>4, <2>1, <2>2, <2>3, <2>4, <2>5
  <1>5. ASSUME NEW t \in Thread, RegisterProgram(t) PROVE Inv'
    <2>1. TypeInv'
      BY <1>5 DEF RegisterProgram, Begin, Operation, TypeInv
    <2> QED
      BY <1>5, <2>1 DEF RegisterProgram, mirrors, templating, MirrorInv, WorkInv, FillInv,
           TemplateInv, TablesAgree, TemplatesAlive
  <1>6. ASSUME NEW t \in Thread, AddProgramTag(t) PROVE Inv'
    <2>1. TypeInv'
      BY <1>6 DEF AddProgramTag, Begin, Operation, TypeInv
    <2> QED
      BY <1>6, <2>1 DEF AddProgramTag, mirrors, templating, MirrorInv, WorkInv, FillInv,
           TemplateInv, TablesAgree, TemplatesAlive
  <1>7. ASSUME NEW t \in Thread, TakeTemplateId(t) PROVE Inv'
    <2>1. TypeInv'
      BY <1>7 DEF TakeTemplateId, Begin, Operation, Go, tags, TypeInv, TemplateInv
    <2>2. MirrorInv'
      BY <1>7 DEF TakeTemplateId, tags, mirrors, MirrorInv, TablesAgree
    <2>3. WorkInv'
      BY <1>7 DEF TakeTemplateId, Begin, Go, tags, WorkInv
    <2>4. FillInv'
      BY <1>7 DEF TakeTemplateId, Begin, Go, tags, mirrors, FillInv
    <2>5. TemplateInv'
      BY <1>7 DEF TakeTemplateId, Go, tags, TemplateInv, TemplatesAlive, TypeInv, Extend
    <2> QED
      BY <1>7, <2>1, <2>2, <2>3, <2>4, <2>5
  <1>8. ASSUME NEW t \in Thread, InsertTemplate(t) PROVE Inv'
    <2>1. TypeInv'
      BY <1>8 DEF InsertTemplate, Go, tags, TypeInv
    <2>2. MirrorInv'
      BY <1>8 DEF InsertTemplate, tags, mirrors, MirrorInv, TablesAgree
    <2>3. WorkInv'
      BY <1>8 DEF InsertTemplate, Go, tags, WorkInv
    <2>4. FillInv'
      BY <1>8 DEF InsertTemplate, Go, tags, mirrors, FillInv
    <2>5. TemplateInv'
      <3> DEFINE id == work[t].id
      <3>1. PICK object : templates' = Extend(templates, id, object) /\ held' = held \cup {object}
        BY <1>8 DEF InsertTemplate, Insert
      <3>2. DOMAIN templates' = DOMAIN templates \cup {id}
        BY <3>1 DEF Extend
      <3>3. ~overtaken => Range(templates') = Range(templates) \cup {object}
        BY <1>8, <3>1, ExtendRange DEF InsertTemplate, TemplateInv
      <3>4. TemplatesAlive'
        BY <1>8, <3>1, <3>3 DEF InsertTemplate, TemplateInv, TemplatesAlive
      <3>5. \A i \in DOMAIN templates' : i \in Nat /\ i < nextTemplate
        BY <1>8, <3>2 DEF InsertTemplate, TemplateInv, TypeInv
      <3> QED
        BY <1>8, <3>2, <3>4, <3>5 DEF InsertTemplate, Go, TemplateInv, TypeInv
    <2> QED
      BY <1>8, <2>1, <2>2, <2>3, <2>4, <2>5
  <1>9. ASSUME NEW t \in Thread, AddPrebuilt(t) PROVE Inv'
    <2>1. TypeInv'
      BY <1>9 DEF AddPrebuilt, Begin, Operation, tags, TypeInv
    <2>2. TemplateInv'
      <3>1. PICK id \in Prebuilt \ DOMAIN templates :
                 /\ Insert(id) /\ nextTemplate' = NextAfter(id)
                 /\ overtaken' =
                      (overtaken \/ \E u \in Thread : pc[u] = "template" /\ work[u].id = id)
        BY <1>9 DEF AddPrebuilt
      <3>2. PICK object : templates' = Extend(templates, id, object) /\ held' = held \cup {object}
        BY <3>1 DEF Insert
      <3>3. DOMAIN templates' = DOMAIN templates \cup {id}
        BY <3>2, ExtendValues
      <3>4. Range(templates') = Range(templates) \cup {object}
        BY <3>1, <3>2, ExtendRange
      <3>5. TemplatesAlive'
        BY <3>1, <3>2, <3>4 DEF TemplateInv, TemplatesAlive
      <3>6. id \in Nat /\ nextTemplate \in Nat
        BY DatabaseAssumption DEF TemplateInv
      <3>7. nextTemplate' \in Nat \ {0} /\ nextTemplate <= nextTemplate' /\ id < nextTemplate'
        BY <3>1, <3>6 DEF NextAfter
      <3>8. \A i \in DOMAIN templates' : i \in Nat /\ i < nextTemplate'
        BY <3>1, <3>3, <3>7, DatabaseAssumption DEF TemplateInv
      <3> QED
        <4> SUFFICES ASSUME NEW v \in Thread, pc[v] = "template"
                     PROVE  /\ work[v].id < nextTemplate'
                            /\ (~overtaken' => work[v].id \notin DOMAIN templates')
                            /\ \A u \in Thread :
                                 v # u /\ pc[u] = "template" => work[v].id # work[u].id
          BY <1>9, <3>5, <3>7, <3>8 DEF AddPrebuilt, TemplateInv
        <4>1. work[v].id < nextTemplate'
          BY <3>7, <3>6 DEF TemplateInv, TypeInv
        <4>2. ~overtaken' => work[v].id \notin DOMAIN templates'
          BY <3>1, <3>3 DEF TemplateInv
        <4> QED
          BY <4>1, <4>2 DEF TemplateInv
    <2> QED
      BY <1>9, <2>1, <2>2 DEF AddPrebuilt, tags, mirrors, MirrorInv, WorkInv, FillInv,
           TablesAgree
  <1>10. ASSUME Restart PROVE Inv'
    <2>1. TypeInv'
      BY <1>10 DEF Restart, Operation, Empty, TypeInv
    <2>2. MirrorInv'
      BY <1>10 DEF Restart, Empty, MirrorInv, TablesAgree
    <2>3. WorkInv'
      BY <1>10 DEF Restart, WorkInv
    <2>4. FillInv'
      BY <1>10 DEF Restart, Empty, FillInv
    <2>5. TemplateInv'
      BY <1>10 DEF Restart, Empty, TemplateInv, TemplatesAlive
    <2> QED
      BY <1>10, <2>1, <2>2, <2>3, <2>4, <2>5 DEF TablesAgree
  <1>11. ASSUME StartBrowse PROVE Inv'
    <2>1. TypeInv'
      BY <1>11 DEF StartBrowse, Operation, tags, TypeInv
    <2> QED
      BY <1>11, <2>1 DEF StartBrowse, tags, mirrors, templating, MirrorInv, WorkInv,
           FillInv, TemplateInv, TablesAgree, TemplatesAlive
  <1>12. ASSUME Page PROVE Inv'
    <2>1. MirrorInv'
      <3>1. PICK ids \in SUBSET DOMAIN byId : instances' = instances \/ instances' = Ensured(ids)
        BY <1>12, PageEnsures
      <3> QED
        BY <1>12, <3>1 DEF Page, tags, MirrorInv, TablesAgree, Ensured
    <2>2. FillInv'
      <3>1. PICK ids \in SUBSET DOMAIN byId : instances' = instances \/ instances' = Ensured(ids)
        BY <1>12, PageEnsures
      <3>2. DOMAIN instances \subseteq DOMAIN instances'
        BY <3>1 DEF Ensured
      <3> QED
        BY <1>12, <3>2 DEF Page, tags, FillInv
    <2> QED
      BY <1>12, <2>1, <2>2 DEF Page, tags, templating, TypeInv, WorkInv, TemplateInv,
           TablesAgree, TemplatesAlive
  <1>13. ASSUME LookUp PROVE Inv'
    <2>1. MirrorInv'
      BY <1>13 DEF LookUp, tags, MirrorInv, TablesAgree, Extend
    <2>2. FillInv'
      BY <1>13 DEF LookUp, tags, FillInv, Extend
    <2> QED
      BY <1>13, <2>1, <2>2 DEF LookUp, tags, templating, TypeInv, WorkInv, TemplateInv,
           TablesAgree, TemplatesAlive
  <1>14. CASE UNCHANGED vars
    BY <1>14 DEF vars, TypeInv, MirrorInv, WorkInv, FillInv, TemplateInv, tags, mirrors,
         templating, TablesAgree, TemplatesAlive
  <1> QED
    BY <1>1, <1>2, <1>3, <1>4, <1>5, <1>6, <1>7, <1>8, <1>9, <1>10, <1>11, <1>12, <1>13,
        <1>14 DEF Next

-----------------------------------------------------------------------------
(* What a browse sees                                                      *)

\* A program gives each of its ids once.
ScopeOK(r) ==
  /\ r \in [tags : TagMaps, next : Nat \ {0}, pseudo : Nat]
  /\ \A n \in DOMAIN r.tags : r.tags[n] < r.next
  /\ \A n, m \in DOMAIN r.tags : r.tags[n] = r.tags[m] => n = m

\* The pseudo-tags of the programs are numbered from PseudoBase on, in the order the programs
\* were registered.
ProgramInv ==
  /\ DOMAIN program \subseteq Program /\ IsFiniteSet(DOMAIN program)
  /\ \A p \in DOMAIN program :
       /\ ScopeOK(program[p])
       /\ PseudoBase <= program[p].pseudo
       /\ program[p].pseudo < PseudoBase + Cardinality(DOMAIN program)
       /\ \A q \in DOMAIN program : program[p].pseudo = program[q].pseudo => p = q

Entry == [name : Name \cup {None}, id : Nat]
All(s) == Listed(s) \cup (IF s = None THEN Pseudo ELSE {})

\* What a browse has seen lies below where it goes on; what was due is seen, or above.
BrowseInv ==
  /\ browse \in [scope : Scope, start : Nat, status : {"none", "more", "done", "failed"},
                 seen : Seq(SUBSET Entry), due : SUBSET Entry]
  /\ browse.due \subseteq Listed(browse.scope)
  /\ \A e \in browse.due :
       \/ e \in UNION ToSet(browse.seen)
       \/ browse.status \in {"more", "failed"} /\ e.id >= browse.start
  /\ \A i \in DOMAIN browse.seen :
       /\ browse.seen[i] \subseteq All(browse.scope)
       /\ \A e \in browse.seen[i] : e.id < browse.start
       /\ \A j \in DOMAIN browse.seen : i < j =>
            \A e \in browse.seen[i], f \in browse.seen[j] : e.id < f.id

\* What the client caches of the controller's tags stays true until the server is set up anew.
AtomInv ==
  /\ atoms \in [Scope -> TagMaps]
  /\ ~replaced => \A n \in DOMAIN atoms[None] :
       n \in DOMAIN byName /\ atoms[None][n] = byName[n] /\ byName[n] \in DOMAIN instances

FullInv == Inv /\ ProgramInv /\ BrowseInv /\ AtomInv

\* The ids of a program stay apart when it gets a tag.
LEMMA ScopeGrows ==
  ASSUME NEW r, ScopeOK(r), NEW n \in Name \ DOMAIN r.tags
  PROVE  LET q == [r EXCEPT !.tags = Extend(@, n, r.next), !.next = @ + 1]
         IN ScopeOK(q) /\ q.pseudo = r.pseudo /\ q.tags = Extend(r.tags, n, r.next)
  <1> DEFINE q == [r EXCEPT !.tags = Extend(@, n, r.next), !.next = @ + 1]
  <1>1. /\ r.tags \in TagMaps /\ r.next \in Nat \ {0} /\ r.pseudo \in Nat
        /\ r \in [tags : TagMaps, next : Nat \ {0}, pseudo : Nat]
    BY DEF ScopeOK
  <1>2. q.tags = Extend(r.tags, n, r.next) /\ q.next = r.next + 1 /\ q.pseudo = r.pseudo
    BY <1>1
  <1>3. Extend(r.tags, n, r.next) \in [DOMAIN r.tags \cup {n} -> Nat]
    BY <1>1 DEF TagMaps, Extend
  <1>4. DOMAIN r.tags \cup {n} \in SUBSET Name
    BY <1>1 DEF TagMaps
  <1>5. Extend(r.tags, n, r.next) \in TagMaps
    BY <1>3, <1>4 DEF TagMaps
  <1>6. \A m \in DOMAIN r.tags : r.tags[m] \in Nat
    BY <1>1 DEF TagMaps
  <1>7. q \in [tags : TagMaps, next : Nat \ {0}, pseudo : Nat]
    <2>1. ASSUME NEW x \in TagMaps
          PROVE  [r EXCEPT !.tags = x, !.next = @ + 1]
                   \in [tags : TagMaps, next : Nat \ {0}, pseudo : Nat]
      <3>1. r.next + 1 \in Nat \ {0}
        BY <1>1
      <3> HIDE DEF q
      <3> QED
        BY <1>1, <3>1
    <2> QED
      BY <1>5, <2>1
  <1> HIDE DEF q
  <1>8. ScopeOK(q)
    BY <1>1, <1>2, <1>6, <1>7 DEF ScopeOK, Extend
  <1> QED
    BY <1>2, <1>8 DEF q

\* The steps that register programs and their tags keep the programs apart.
LEMMA ProgramStep == ProgramInv /\ [Next]_vars => ProgramInv'
  <1> SUFFICES ASSUME ProgramInv, [Next]_vars PROVE ProgramInv'
    OBVIOUS
  <1>1. ASSUME NEW t \in Thread, RegisterProgram(t) PROVE ProgramInv'
    <2> DEFINE fresh == [tags |-> Empty, next |-> 1,
                         pseudo |-> PseudoBase + Cardinality(DOMAIN program)]
    <2>1. PICK p \in Program \ DOMAIN program : program' = Extend(program, p, fresh)
      BY <1>1 DEF RegisterProgram
    <2>2. DOMAIN program' = DOMAIN program \cup {p} /\ program'[p] = fresh
      BY <2>1 DEF Extend
    <2>3. \A q \in DOMAIN program : program'[q] = program[q]
      BY <2>1 DEF Extend
    <2>4. /\ IsFiniteSet(DOMAIN program') /\ Cardinality(DOMAIN program) \in Nat
          /\ Cardinality(DOMAIN program') = Cardinality(DOMAIN program) + 1
      BY <2>1, <2>2, FS_AddElement, FS_CardinalityType DEF ProgramInv
    <2>5. Empty \in TagMaps
      <3>1. Empty \in [{} -> Nat]
        BY DEF Empty
      <3> QED
        BY <3>1 DEF TagMaps
    <2>6. ScopeOK(fresh)
      BY <2>4, <2>5, DatabaseAssumption DEF ScopeOK, Empty
    <2> HIDE DEF fresh
    <2>7. fresh.pseudo = PseudoBase + Cardinality(DOMAIN program)
      BY DEF fresh
    <2>8. \A q \in DOMAIN program : program[q].pseudo \in Nat
      BY DEF ProgramInv, ScopeOK
    <2> QED
      BY <2>1, <2>2, <2>3, <2>4, <2>6, <2>7, <2>8, DatabaseAssumption DEF ProgramInv
  <1>2. ASSUME NEW t \in Thread, AddProgramTag(t) PROVE ProgramInv'
    <2>1. PICK p \in DOMAIN program : \E n \in Name \ DOMAIN program[p].tags :
            program' = [program EXCEPT ![p].tags = Extend(@, n, program[p].next),
                                       ![p].next = @ + 1]
      BY <1>2 DEF AddProgramTag
    <2>2. PICK n \in Name \ DOMAIN program[p].tags :
            program' = [program EXCEPT ![p].tags = Extend(@, n, program[p].next),
                                       ![p].next = @ + 1]
      BY <2>1
    <2> DEFINE grown == [program[p] EXCEPT !.tags = Extend(@, n, program[p].next), !.next = @ + 1]
    <2>3. DOMAIN program' = DOMAIN program /\ program'[p] = grown
      BY <2>2
    <2>4. \A q \in DOMAIN program : q # p => program'[q] = program[q]
      BY <2>2
    <2>5. ScopeOK(grown) /\ grown.pseudo = program[p].pseudo
      BY ScopeGrows DEF ProgramInv
    <2> HIDE DEF grown
    <2> QED
      BY <2>3, <2>4, <2>5 DEF ProgramInv
  <1>3. CASE Restart
    <2>1. program' = Empty /\ DOMAIN program' = {}
      BY <1>3 DEF Restart, Empty
    <2> QED
      BY <2>1, FS_EmptySet DEF ProgramInv
  <1>4. CASE UNCHANGED program
    BY <1>4 DEF ProgramInv
  <1> QED
    BY <1>1, <1>2, <1>3, <1>4 DEF Next, vars, tags, TakeId, Register, EnsureInstance,
         FillCache, TakeTemplateId, InsertTemplate, AddPrebuilt, StartBrowse, Page, LookUp

\* Whatever a scope lists is listed on, short of a restart.
LEMMA ListedGrows ==
  ASSUME Inv, ProgramInv, Next, ~Restart, NEW s \in Scope
  PROVE  Listed(s) \subseteq Listed(s)' /\ All(s) \subseteq All(s)'
  <1>1. ASSUME NEW n \in DOMAIN byName
        PROVE  n \in DOMAIN byName' /\ byName'[n] = byName[n]
    <2>1. CASE UNCHANGED byName
      BY <2>1
    <2>2. ASSUME NEW t \in Thread, Register(t)
          PROVE  n \in DOMAIN byName' /\ byName'[n] = byName[n]
      BY <2>2 DEF Register, Extend
    <2> QED
      BY <2>1, <2>2 DEF Next, tags, TakeId, EnsureInstance, FillCache, RegisterProgram,
           AddProgramTag, TakeTemplateId, InsertTemplate, AddPrebuilt, StartBrowse, Page,
           LookUp
  <1>2. ASSUME NEW p \in DOMAIN program
        PROVE  /\ p \in DOMAIN program' /\ program'[p].pseudo = program[p].pseudo
               /\ \A n \in DOMAIN program[p].tags :
                    n \in DOMAIN program'[p].tags /\ program'[p].tags[n] = program[p].tags[n]
    <2>1. CASE UNCHANGED program
      BY <2>1
    <2>2. ASSUME NEW t \in Thread, RegisterProgram(t)
          PROVE  p \in DOMAIN program' /\ program'[p] = program[p]
      BY <2>2 DEF RegisterProgram, Extend
    <2>3. ASSUME NEW t \in Thread, AddProgramTag(t)
          PROVE  /\ p \in DOMAIN program' /\ program'[p].pseudo = program[p].pseudo
                 /\ \A n \in DOMAIN program[p].tags :
                      n \in DOMAIN program'[p].tags /\ program'[p].tags[n] = program[p].tags[n]
      <3>1. PICK q \in DOMAIN program : \E n \in Name \ DOMAIN program[q].tags :
              program' = [program EXCEPT ![q].tags = Extend(@, n, program[q].next),
                                         ![q].next = @ + 1]
        BY <2>3 DEF AddProgramTag
      <3>2. PICK m \in Name \ DOMAIN program[q].tags :
              program' = [program EXCEPT ![q].tags = Extend(@, m, program[q].next),
                                         ![q].next = @ + 1]
        BY <3>1
      <3>3. CASE p # q
        BY <3>2, <3>3
      <3>4. CASE p = q
        <4> DEFINE grown == [program[p] EXCEPT !.tags = Extend(@, m, program[p].next),
                                               !.next = @ + 1]
        <4>1. p \in DOMAIN program' /\ program'[p] = grown
          BY <3>2, <3>4
        <4>2. /\ grown.pseudo = program[p].pseudo
              /\ grown.tags = Extend(program[p].tags, m, program[p].next)
          BY <3>4, ScopeGrows DEF ProgramInv
        <4> HIDE DEF grown
        <4>3. \A n \in DOMAIN program[p].tags : n # m
          BY <3>4
        <4> QED
          BY <4>1, <4>2, <4>3 DEF Extend
      <3> QED
        BY <3>3, <3>4
    <2> QED
      BY <2>1, <2>2, <2>3 DEF Next, tags, TakeId, Register, EnsureInstance, FillCache,
           TakeTemplateId, InsertTemplate, AddPrebuilt, StartBrowse, Page, LookUp
  <1>3. ASSUME NEW n \in DOMAIN TagsOf(s)
        PROVE  n \in DOMAIN TagsOf(s)' /\ TagsOf(s)'[n] = TagsOf(s)[n]
    BY <1>1, <1>2 DEF TagsOf, Empty
  <1>4. Listed(s) \subseteq Listed(s)'
    BY <1>3 DEF Listed
  <1>5. Pseudo \subseteq Pseudo'
    BY <1>2 DEF Pseudo
  <1> QED
    BY <1>4, <1>5 DEF All

\* In one scope an id stands for one tag, or one program.
LEMMA IdsDiffer ==
  ASSUME Inv, ProgramInv, NEW s \in Scope, NEW e \in All(s), NEW f \in All(s), e.id = f.id
  PROVE  e = f
  <1>1. ASSUME NEW x \in Listed(s)
        PROVE  /\ x = [name |-> x.name, id |-> x.id] /\ x.name \in DOMAIN TagsOf(s)
               /\ x.id = TagsOf(s)[x.name]
    BY DEF Listed
  <1>2. ASSUME NEW x \in Listed(s), NEW y \in Listed(s), x.id = y.id PROVE x = y
    <2>1. x.name = y.name
      BY <1>1, <1>2 DEF TagsOf, Empty, Inv, MirrorInv, TablesAgree, ProgramInv, ScopeOK
    <2> QED
      BY <1>1, <1>2, <2>1
  <1>3. ASSUME NEW x \in Pseudo
        PROVE  \E p \in DOMAIN program : x = [name |-> None, id |-> program[p].pseudo]
    BY DEF Pseudo
  <1>4. ASSUME NEW x \in Pseudo, NEW y \in Pseudo, x.id = y.id PROVE x = y
    BY <1>3, <1>4
  <1>5. ASSUME s = None, NEW x \in Listed(s), NEW y \in Pseudo PROVE x.id < y.id
    <2>1. x.id \in 1..nextId - 1
      BY <1>1, <1>5 DEF TagsOf, Inv, TypeInv
    <2>2. PICK p \in DOMAIN program : y.id = program[p].pseudo
      BY <1>3
    <2>3. program[p].pseudo \in Nat /\ PseudoBase <= program[p].pseudo
      BY DEF ProgramInv, ScopeOK
    <2> QED
      BY <2>1, <2>2, <2>3, DatabaseAssumption DEF Inv, TypeInv
  <1>6. ASSUME s = None, NEW x \in Listed(s) PROVE x.id \in Nat
    BY <1>1, <1>6 DEF TagsOf, Inv, TypeInv
  <1>7. ASSUME NEW y \in Pseudo PROVE y.id \in Nat
    BY <1>3 DEF ProgramInv, ScopeOK
  <1> QED
    BY <1>2, <1>4, <1>5, <1>6, <1>7 DEF All

\* The entries of a scope are a name, or None for a program, and an id.
LEMMA AllEntries ==
  ASSUME Inv, ProgramInv, NEW s \in Scope
  PROVE  Listed(s) \subseteq Entry /\ All(s) \subseteq Entry
  <1>1. ASSUME NEW n \in DOMAIN TagsOf(s) PROVE n \in Name /\ TagsOf(s)[n] \in Nat
    BY DEF TagsOf, Empty, Inv, TypeInv, ProgramInv, ScopeOK, TagMaps
  <1>2. \A p \in DOMAIN program : program[p].pseudo \in Nat
    BY DEF ProgramInv, ScopeOK
  <1>3. Listed(s) \subseteq Entry
    BY <1>1 DEF Listed, Entry
  <1>4. Pseudo \subseteq Entry
    BY <1>2 DEF Pseudo, Entry
  <1> QED
    BY <1>3, <1>4 DEF All

\* Every step of the application and every page keep what was seen and what is due.
LEMMA BrowseStep == Inv /\ ProgramInv /\ BrowseInv /\ [Next]_vars => BrowseInv'
  <1> SUFFICES ASSUME Inv, ProgramInv, BrowseInv, [Next]_vars PROVE BrowseInv'
    OBVIOUS
  <1>1. CASE Restart
    <2>1. browse' = NoBrowse
      BY <1>1 DEF Restart
    <2>2. NoBrowse.seen = <<>> /\ DOMAIN <<>> = {} /\ NoBrowse.due = {}
      BY DEF NoBrowse
    <2>3. NoBrowse \in [scope : Scope, start : Nat, status : {"none", "more", "done", "failed"},
                        seen : Seq(SUBSET Entry), due : SUBSET Entry]
      BY DEF NoBrowse, Scope
    <2> QED
      BY <2>1, <2>2, <2>3 DEF BrowseInv
  <1>2. CASE StartBrowse
    <2>1. PICK s \in Scope :
            browse' = [scope |-> s, start |-> 0, status |-> "more",
                       seen |-> <<>>, due |-> Listed(s)]
      BY <1>2 DEF StartBrowse
    <2>2. Listed(s) \subseteq Entry /\ Listed(s)' = Listed(s)
      BY <1>2, AllEntries DEF StartBrowse, Listed, TagsOf, tags
    <2>3. browse' \in [scope : Scope, start : Nat, status : {"none", "more", "done", "failed"},
                       seen : Seq(SUBSET Entry), due : SUBSET Entry]
      BY <2>1, <2>2
    <2>4. \A e \in browse'.due : e.id >= browse'.start
      BY <2>1, <2>2 DEF Entry
    <2>5. /\ DOMAIN browse'.seen = {} /\ browse'.status = "more" /\ browse'.scope = s
          /\ browse'.due = Listed(s)'
      BY <2>1, <2>2
    <2> QED
      BY <2>3, <2>4, <2>5 DEF BrowseInv
  <1>3. CASE UNCHANGED browse /\ Next /\ ~Restart
    <2>1. browse.scope \in Scope
      BY DEF BrowseInv
    <2>2. /\ Listed(browse.scope) \subseteq Listed(browse.scope)'
          /\ All(browse.scope) \subseteq All(browse.scope)'
      BY <1>3, <2>1, ListedGrows
    <2> QED
      BY <1>3, <2>2 DEF BrowseInv
  <1>4. CASE Page
    <2>1. UNCHANGED tags
      BY <1>4 DEF Page
    <2>2. \A s : Listed(s)' = Listed(s) /\ All(s)' = All(s)
      BY <2>1 DEF tags, Listed, All, Pseudo, TagsOf
    <2>3. CASE browse' = [browse EXCEPT !.status = "failed"] /\ browse.status = "more"
      BY <2>2, <2>3 DEF BrowseInv
    <2>4. CASE TakePage /\ browse.status = "more"
      <3>1. PICK all \in {Entries(browse.scope, browse.start)} : \E page \in SUBSET all :
              \E next \in IF page = {} THEN {browse.start} ELSE {e.id + 1 : e \in page} :
                /\ Fits(page, all) /\ \A e \in page : e.id < next
                /\ browse' = [browse EXCEPT
                     !.seen = Append(@, page), !.start = next,
                     !.status = IF page = all THEN "done" ELSE "more"]
        BY <2>4 DEF TakePage
      <3>2. PICK page \in SUBSET all :
              \E next \in IF page = {} THEN {browse.start} ELSE {e.id + 1 : e \in page} :
                /\ Fits(page, all) /\ \A e \in page : e.id < next
                /\ browse' = [browse EXCEPT
                     !.seen = Append(@, page), !.start = next,
                     !.status = IF page = all THEN "done" ELSE "more"]
        BY <3>1
      <3>3. PICK next \in IF page = {} THEN {browse.start} ELSE {e.id + 1 : e \in page} :
              /\ Fits(page, all) /\ \A e \in page : e.id < next
              /\ browse' = [browse EXCEPT
                   !.seen = Append(@, page), !.start = next,
                   !.status = IF page = all THEN "done" ELSE "more"]
        BY <3>2
      <3> DEFINE old == browse.seen   new == Append(browse.seen, page)
      <3>4. /\ browse.scope \in Scope /\ browse.start \in Nat /\ old \in Seq(SUBSET Entry)
            /\ browse.due \in SUBSET Entry
        BY DEF BrowseInv
      <3>5. all = {e \in All(browse.scope) : e.id >= browse.start} /\ all \subseteq Entry
        BY <3>1, <3>4, AllEntries DEF Entries, All, FromStart
      <3>6. page \subseteq all /\ page \in SUBSET Entry
        BY <3>2, <3>5
      <3>7. new = Append(old, page)
        OBVIOUS
      <3> HIDE DEF new
      <3>8. /\ new \in Seq(SUBSET Entry) /\ DOMAIN new = DOMAIN old \cup {Len(old) + 1}
            /\ \A i \in DOMAIN old : i \in 1..Len(old) /\ new[i] = old[i]
            /\ new[Len(old) + 1] = page
            /\ UNION ToSet(new) = (UNION ToSet(old)) \cup page
        <4>1. new \in Seq(SUBSET Entry) /\ Len(new) = Len(old) + 1 /\ Len(old) \in Nat
          BY <3>4, <3>6, <3>7
        <4>2. DOMAIN new = DOMAIN old \cup {Len(old) + 1}
          <5> HIDE DEF old
          <5>1. DOMAIN new = 1..Len(new) /\ DOMAIN old = 1..Len(old)
            BY <3>4, <4>1
          <5> QED
            BY <4>1, <5>1
        <4>3. /\ \A i \in DOMAIN old : i \in 1..Len(old) /\ new[i] = old[i]
              /\ new[Len(old) + 1] = page
          BY <3>4, <3>6, <3>7
        <4>4. UNION ToSet(new) = (UNION ToSet(old)) \cup page
          <5> HIDE DEF old
          <5>1. \A x : x \in UNION ToSet(new) <=> \E i \in DOMAIN new : x \in new[i]
            BY DEF ToSet
          <5>2. \A x : x \in UNION ToSet(old) <=> \E i \in DOMAIN old : x \in old[i]
            BY DEF ToSet
          <5>3. \A x : (\E i \in DOMAIN new : x \in new[i])
                         <=> (x \in page \/ \E i \in DOMAIN old : x \in old[i])
            BY <4>2, <4>3
          <5> QED
            BY <5>1, <5>2, <5>3
        <4> QED
          BY <4>1, <4>2, <4>3, <4>4
      <3>9. next \in Nat /\ browse.start <= next
        BY <3>3, <3>4, <3>5, <3>6 DEF Entry
      <3>10. /\ browse'.scope = browse.scope /\ browse'.start = next /\ browse'.due = browse.due
             /\ browse'.seen = new /\ browse'.status = IF page = all THEN "done" ELSE "more"
             /\ browse' \in [scope : Scope, start : Nat,
                            status : {"none", "more", "done", "failed"},
                             seen : Seq(SUBSET Entry), due : SUBSET Entry]
        BY <3>3, <3>7, <3>8, <3>9 DEF BrowseInv
      <3> HIDE DEF old
      <3>11. ASSUME NEW e \in browse.due
             PROVE  e \in UNION ToSet(new) \/ (page # all /\ e.id >= next)
        <4>1. CASE e \in UNION ToSet(old)
          BY <3>8, <4>1
        <4>2. CASE e.id >= browse.start
          <5>1. e \in all
            BY <3>5, <4>2 DEF BrowseInv, All
          <5>2. CASE e \in page
            <6>1. UNION ToSet(new) = (UNION ToSet(old)) \cup page
              BY <3>8
            <6> QED
              BY <5>2, <6>1
          <5>3. CASE e \notin page /\ page = {}
            BY <3>3, <4>2, <5>1, <5>3
          <5>4. CASE e \notin page /\ page # {}
            <6>1. \A f \in page : f.id < e.id
              BY <3>3, <5>1, <5>4 DEF Fits
            <6> QED
              BY <3>3, <3>4, <3>5, <3>6, <5>1, <5>4, <6>1 DEF Entry
          <5> QED
            BY <5>2, <5>3, <5>4
        <4> QED
          BY <4>1, <4>2 DEF BrowseInv, old
      <3>12. ASSUME NEW i \in DOMAIN new
             PROVE  new[i] \subseteq All(browse.scope) /\ \A e \in new[i] : e.id < next
        <4>1. CASE i \in DOMAIN old
          <5>1. /\ new[i] = old[i] /\ old[i] \subseteq All(browse.scope)
                /\ \A e \in old[i] : e.id < browse.start
            BY <3>8, <4>1 DEF BrowseInv, old
          <5>2. \A e \in old[i] : e.id \in Nat
            BY <3>4, <4>1, <5>1, AllEntries DEF Entry
          <5> QED
            BY <3>4, <3>9, <5>1, <5>2
        <4>2. CASE i = Len(old) + 1
          BY <3>3, <3>5, <3>6, <3>8, <4>2
        <4> QED
          BY <3>8, <4>1, <4>2
      <3>13. ASSUME NEW i \in DOMAIN new, NEW j \in DOMAIN new, i < j,
                    NEW e \in new[i], NEW f \in new[j]
             PROVE  e.id < f.id
        <4>1. i \in DOMAIN old /\ e \in old[i]
          BY <3>8, <3>13, <3>4
        <4>2. CASE j \in DOMAIN old
          BY <3>8, <3>13, <4>1, <4>2 DEF BrowseInv, old
        <4>3. CASE j = Len(old) + 1
          <5>1. f.id >= browse.start /\ f.id \in Nat
            BY <3>5, <3>6, <3>8, <4>3 DEF Entry
          <5>2. e.id < browse.start /\ e.id \in Nat
            BY <3>4, <4>1, AllEntries DEF BrowseInv, old, Entry
          <5> QED
            BY <3>4, <5>1, <5>2
        <4> QED
          BY <3>8, <4>2, <4>3
      <3> QED
        BY <2>2, <3>10, <3>11, <3>12, <3>13 DEF BrowseInv
    <2> QED
      BY <1>4, <2>3, <2>4 DEF Page
  <1>5. CASE UNCHANGED vars
    BY <1>5 DEF vars, tags, client, BrowseInv, Listed, All, Pseudo, TagsOf
  <1> QED
    BY <1>1, <1>2, <1>3, <1>4, <1>5 DEF Next, client, TakeId, Register, EnsureInstance,
         FillCache, RegisterProgram, AddProgramTag, TakeTemplateId, InsertTemplate,
         AddPrebuilt, LookUp

\* A page teaches the client what the database says; nothing else but a restart touches that.
LEMMA AtomStep == Inv /\ ProgramInv /\ BrowseInv /\ AtomInv /\ [Next]_vars => AtomInv'
  <1> SUFFICES ASSUME Inv, ProgramInv, BrowseInv, AtomInv, [Next]_vars PROVE AtomInv'
    OBVIOUS
  <1>1. CASE Restart
    BY <1>1 DEF Restart, AtomInv
  <1>2. CASE TakePage /\ Page
    <2>1. PICK all \in {Entries(browse.scope, browse.start)} : \E page \in SUBSET all :
            /\ instances' = IF browse.scope = None THEN Ensured(IdsOf(Named(all))) ELSE instances
            /\ atoms' = [atoms EXCEPT ![browse.scope] = Learnt(@, Named(page))]
      BY <1>2 DEF TakePage
    <2>2. PICK page \in SUBSET all :
            /\ instances' = IF browse.scope = None THEN Ensured(IdsOf(Named(all))) ELSE instances
            /\ atoms' = [atoms EXCEPT ![browse.scope] = Learnt(@, Named(page))]
      BY <2>1
    <2> DEFINE s == browse.scope   named == Named(page)   learnt == Learnt(atoms[s], named)
    <2>3. s \in Scope /\ atoms[s] \in TagMaps
      BY DEF BrowseInv, AtomInv
    <2>4. \A e \in named : e.name \in DOMAIN TagsOf(s) /\ e.id = TagsOf(s)[e.name]
      BY <2>1, <2>2 DEF Named, Entries, Listed, Pseudo
    <2>5. \A n \in DOMAIN TagsOf(s) : n \in Name /\ TagsOf(s)[n] \in Nat
      BY DEF TagsOf, Empty, Inv, TypeInv, ProgramInv, ScopeOK, TagMaps
    <2>6. DOMAIN learnt = DOMAIN atoms[s] \cup {e.name : e \in named}
      BY DEF Learnt
    <2>7. ASSUME NEW n \in DOMAIN learnt, \E e \in named : e.name = n
          PROVE  n \in DOMAIN TagsOf(s) /\ learnt[n] = TagsOf(s)[n]
      <3>1. /\ (CHOOSE e \in named : e.name = n) \in named
            /\ (CHOOSE e \in named : e.name = n).name = n
        BY <2>7
      <3>2. learnt[n] = (CHOOSE e \in named : e.name = n).id
        BY <2>6, <2>7 DEF Learnt
      <3> QED
        BY <2>4, <3>1, <3>2
    <2>8. ASSUME NEW n \in DOMAIN learnt, ~\E e \in named : e.name = n
          PROVE  n \in DOMAIN atoms[s] /\ learnt[n] = atoms[s][n]
      BY <2>6, <2>8 DEF Learnt
    <2>9. learnt \in TagMaps
      <3>1. \A n \in DOMAIN learnt : n \in Name /\ learnt[n] \in Nat
        BY <2>3, <2>5, <2>7, <2>8 DEF TagMaps
      <3>2. learnt \in [DOMAIN learnt -> Nat]
        BY <3>1 DEF Learnt
      <3> QED
        BY <3>1, <3>2 DEF TagMaps
    <2> HIDE DEF learnt
    <2>10. atoms' = [atoms EXCEPT ![s] = learnt]
      BY <2>2 DEF learnt
    <2>11. atoms' \in [Scope -> TagMaps]
      BY <2>9, <2>10 DEF AtomInv
    <2>12. ASSUME ~replaced, NEW n \in DOMAIN atoms'[None]
           PROVE  /\ n \in DOMAIN byName /\ atoms'[None][n] = byName[n]
                  /\ byName[n] \in DOMAIN instances'
      <3>1. CASE s # None
        BY <2>2, <2>10, <2>12, <3>1 DEF AtomInv
      <3>2. CASE s = None
        <4>1. atoms'[None] = learnt /\ n \in DOMAIN learnt
          BY <2>10, <2>12, <3>2 DEF AtomInv, Scope
        <4>2. instances' = Ensured(IdsOf(Named(all)))
          BY <2>2, <3>2
        <4>3. CASE \E e \in named : e.name = n
          <5>1. n \in DOMAIN byName /\ learnt[n] = byName[n]
            BY <2>7, <3>2, <4>1, <4>3 DEF TagsOf
          <5>2. byName[n] \in IdsOf(Named(all))
            BY <2>2, <2>4, <3>2, <4>3 DEF IdsOf, Named, TagsOf
          <5> QED
            BY <4>1, <4>2, <5>1, <5>2 DEF Ensured
        <4>4. CASE ~\E e \in named : e.name = n
          BY <2>8, <2>12, <3>2, <4>1, <4>2, <4>4 DEF AtomInv, Ensured
        <4> QED
          BY <4>3, <4>4
      <3> QED
        BY <3>1, <3>2
    <2> QED
      BY <1>2, <2>11, <2>12 DEF Page, tags, AtomInv
  <1>3. CASE UNCHANGED <<atoms, replaced>> /\ Next /\ ~Restart
    <2>1. DOMAIN instances \subseteq DOMAIN instances'
      <3>1. CASE UNCHANGED instances
        BY <3>1
      <3>2. ASSUME NEW t \in Thread, EnsureInstance(t)
            PROVE  DOMAIN instances \subseteq DOMAIN instances'
        BY <3>2 DEF EnsureInstance, Ensured
      <3>3. CASE Page
        <4>1. PICK ids \in SUBSET DOMAIN byId :
                instances' = instances \/ instances' = Ensured(ids)
          BY <3>3, PageEnsures DEF Inv
        <4> QED
          BY <4>1 DEF Ensured
      <3> QED
        BY <1>3, <3>1, <3>2, <3>3 DEF Next, mirrors, TakeId, Register, FillCache,
             RegisterProgram, AddProgramTag, TakeTemplateId, InsertTemplate, AddPrebuilt,
             StartBrowse, LookUp
    <2>2. \A n \in DOMAIN byName : n \in DOMAIN byName' /\ byName'[n] = byName[n]
      <3>1. CASE UNCHANGED byName
        BY <3>1
      <3>2. ASSUME NEW t \in Thread, Register(t)
            PROVE  \A n \in DOMAIN byName : n \in DOMAIN byName' /\ byName'[n] = byName[n]
        BY <3>2 DEF Register, Extend
      <3> QED
        BY <1>3, <3>1, <3>2 DEF Next, tags, TakeId, EnsureInstance, FillCache,
             RegisterProgram, AddProgramTag, TakeTemplateId, InsertTemplate, AddPrebuilt,
             StartBrowse, Page, LookUp
    <2> QED
      BY <1>3, <2>1, <2>2 DEF AtomInv
  <1>4. CASE UNCHANGED vars
    BY <1>4 DEF vars, tags, mirrors, client, AtomInv
  <1> QED
    BY <1>1, <1>2, <1>3, <1>4 DEF Next, client, TakeId, Register, EnsureInstance, FillCache,
         RegisterProgram, AddProgramTag, TakeTemplateId, InsertTemplate, AddPrebuilt,
         StartBrowse, Page, LookUp

\* Nothing is browsed, cached or registered at the start.
LEMMA FullInit == Init => FullInv
  <1> SUFFICES ASSUME Init PROVE FullInv
    OBVIOUS
  <1>1. ProgramInv
    BY FS_EmptySet DEF Init, Fresh, Empty, ProgramInv
  <1>2. BrowseInv
    <2>1. NoBrowse.seen = <<>> /\ DOMAIN <<>> = {} /\ NoBrowse.due = {}
      BY DEF NoBrowse
    <2>2. NoBrowse \in [scope : Scope, start : Nat, status : {"none", "more", "done", "failed"},
                        seen : Seq(SUBSET Entry), due : SUBSET Entry]
      BY DEF NoBrowse, Scope
    <2> QED
      BY <2>1, <2>2 DEF Init, BrowseInv
  <1>3. AtomInv
    <2>1. Empty \in [{} -> Nat]
      BY DEF Empty
    <2>2. Empty \in TagMaps /\ DOMAIN Empty = {}
      BY <2>1 DEF TagMaps
    <2> QED
      BY <2>2 DEF Init, AtomInv, Scope
  <1> QED
    BY <1>1, <1>2, <1>3, InvInit DEF FullInv

\* The invariant of the tables carries those of the programs, the browse and the cache.
LEMMA FullStep == FullInv /\ [Next]_vars => FullInv'
  BY InvStep, ProgramStep, BrowseStep, AtomStep DEF FullInv

-----------------------------------------------------------------------------
\* The two tables are inverse to each other and the mirrors never contradict them, for any
\* number of threads that race to register any names.
THEOREM TablesAlwaysAgree == Spec => []TablesAgree
  <1>1. Inv => TablesAgree
    BY DEF Inv, MirrorInv
  <1> QED
    BY InvInit, InvStep, <1>1, PTL DEF Spec

\* Every tag that is in the table is in both mirrors, or a thread is still on its way there.
THEOREM AddedTagsAreReachable == Spec => []AddedIsReachable
  <1>1. Inv => AddedIsReachable
    BY DEF Inv, FillInv, AddedIsReachable
  <1> QED
    BY InvInit, InvStep, <1>1, PTL DEF Spec

\* No template object that was handed out is destroyed by a later registration, unless a
\* prebuilt template took the id of one that was being built.
THEOREM TemplatesStayAlive == Spec => []TemplatesAlive
  <1>1. Inv => TemplatesAlive
    BY DEF Inv, TemplateInv
  <1> QED
    BY InvInit, InvStep, <1>1, PTL DEF Spec

\* Only a restart takes the id of a tag away or gives it to another.
THEOREM InstanceIdsAreStable == Spec => IdsStable
  <1>1. Inv /\ [Next]_vars
          => [Restart \/ \A i \in DOMAIN byId : i \in DOMAIN byId' /\ byId'[i] = byId[i]]_vars
    <2> SUFFICES ASSUME Inv, Next, ~Restart, NEW i \in DOMAIN byId
                 PROVE  i \in DOMAIN byId' /\ byId'[i] = byId[i]
      OBVIOUS
    <2>1. CASE UNCHANGED byId
      BY <2>1
    <2>2. ASSUME NEW t \in Thread, Register(t) PROVE i \in DOMAIN byId' /\ byId'[i] = byId[i]
      BY <2>2 DEF Register, Extend, Inv, WorkInv
    <2> QED
      BY <2>1, <2>2 DEF Next, tags, TakeId, EnsureInstance, FillCache, RegisterProgram,
           AddProgramTag, TakeTemplateId, InsertTemplate, AddPrebuilt, StartBrowse, Page,
           LookUp
  <1> QED
    BY InvInit, InvStep, <1>1, PTL DEF Spec, IdsStable

\* A browse that ends well has seen what was there when it began, in order and once, whatever
\* is registered between its pages and however the pages are cut.
THEOREM BrowseSeesAll == Spec => []BrowseComplete
  <1>1. FullInv => BrowseComplete
    <2> SUFFICES ASSUME FullInv, browse.status = "done" PROVE BrowseComplete
      BY DEF BrowseComplete
    <2>1. browse.due \subseteq UNION ToSet(browse.seen)
      BY DEF FullInv, BrowseInv
    <2>2. ASSUME NEW i \in DOMAIN browse.seen, NEW j \in DOMAIN browse.seen,
                 NEW e \in browse.seen[i], NEW f \in browse.seen[j]
          PROVE  (i < j => e.id < f.id) /\ (e.id = f.id => e = f)
      <3>1. browse.scope \in Scope /\ e \in All(browse.scope) /\ f \in All(browse.scope)
        BY DEF FullInv, BrowseInv
      <3>2. e.id = f.id => e = f
        BY <3>1, IdsDiffer DEF FullInv
      <3> QED
        BY <3>2 DEF FullInv, BrowseInv
    <2> QED
      BY <2>1, <2>2 DEF BrowseComplete
  <1> QED
    BY FullInit, FullStep, <1>1, PTL DEF Spec

\* A plain controller tag is the same tag by the instance that browse cached as by its name,
\* until the server is set up anew.
THEOREM CachedRootsAreTheSame == Spec => []CachedRootSame
  <1>1. FullInv => CachedRootSame
    <2> SUFFICES ASSUME FullInv, ~replaced, NEW n \in ClientName, n.scope = None, n.member = None,
                        n.indices <= 1, n.root \in DOMAIN atoms[None]
                 PROVE  Target(BuildTagPath(n)) = Target(BuildSymbolicPath(n))
      BY DEF CachedRootSame
    <2> DEFINE id == byName[n.root]
    <2>1. n.indices \in 0..1 /\ n.root \in Name
      BY DEF ClientName
    <2>2. n.root \in DOMAIN byName /\ atoms[None][n.root] = id /\ id \in DOMAIN instances
      BY DEF FullInv, AtomInv
    <2>3. id \in Nat \ {0} /\ 0 \notin DOMAIN instances
      BY <2>2 DEF FullInv, Inv, TypeInv, MirrorInv
    <2>4. Target(BuildTagPath(n)) =
            [scope |-> None, id |-> id, indices |-> IF n.indices = 0 THEN 0 ELSE 1, members |-> <<>>]
      BY <2>2 DEF Target, BuildTagPath
    <2>5. <<n.root>> \o Suffix(n) = <<n.root>>
      BY <2>1 DEF Suffix
    <2>6. BuildSymbolicPath(n) = [program |-> None, instance |-> 0, names |-> <<n.root>>,
                                  indices |-> n.indices]
      BY <2>5 DEF BuildSymbolicPath
    <2>7. Found(n.root) = id
      BY <2>2 DEF Found, FullInv, Inv, MirrorInv, TablesAgree
    <2>8. <<n.root>>[1] = n.root /\ <<n.root>> # <<>> /\ Tail(<<n.root>>) = <<>>
      BY <2>1
    <2>9. Target(BuildSymbolicPath(n)) =
            [scope |-> None, id |-> id, indices |-> n.indices, members |-> <<>>]
      BY <2>3, <2>6, <2>7, <2>8 DEF Target, OnUnhandled
    <2> QED
      BY <2>1, <2>4, <2>9
  <1> QED
    BY FullInit, FullStep, <1>1, PTL DEF Spec
=============================================================================
