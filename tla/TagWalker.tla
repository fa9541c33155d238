------------------------------ MODULE TagWalker ------------------------------
(***************************************************************************)
(* logix/walker.cpp: from the path segments that follow the root tag to a  *)
(* place in the tag's buffer.  A segment is a member name, already folded  *)
(* to lower case, or an element index.                                     *)
(***************************************************************************)
EXTENDS TagTemplates

CONSTANTS
  Shape,       \* tag -> [type, elementSize, dims, tpl, size], tag.hpp
  NoTemplate, NoBit

\* The constructors of Tag: a buffer has room for every element, or for their bits when the
\* elements are BOOL; span[k] elements differ in the dimensions after the k-th only.
HasRoom(s) ==
  \E span \in [0..Len(s.dims) -> 0..(s.size * ByteBits)] :
    /\ span[Len(s.dims)] = 1
    /\ \A k \in DOMAIN s.dims : span[k - 1] = s.dims[k] * span[k]
    /\ (s.type = "BOOL" /\ s.dims # <<>>) \/ span[0] * s.elementSize <= s.size

ASSUME ShapeAssumption ==
  /\ NoBit \notin Nat
  /\ \A t \in DOMAIN Shape :
       /\ Shape[t].size \in Nat /\ Shape[t].elementSize \in Nat \ {0}
       /\ Shape[t].dims \in Seq(Nat \ {0}) /\ HasRoom(Shape[t])
       /\ \/ Shape[t].tpl = NoTemplate
          \/ /\ Shape[t].tpl \in DOMAIN Layout /\ Shape[t].type # "BOOL"
             /\ Layout[Shape[t].tpl].size <= Shape[t].elementSize

Name(n)  == [kind |-> "symbolic", name |-> n, index |-> 0]
Index(i) == [kind |-> "element", name |-> "", index |-> i]

Failed == [ok |-> FALSE, offset |-> 0, type |-> "", elementSize |-> 0,
           bit |-> NoBit, tpl |-> NoTemplate, pending |-> <<>>, running |-> 0,
           bools |-> FALSE]

Root(t) ==
  [Failed EXCEPT !.ok = TRUE, !.type = Shape[t].type,
     !.elementSize = Shape[t].elementSize, !.tpl = Shape[t].tpl,
     !.pending = Shape[t].dims,
     !.bools = Shape[t].type = "BOOL" /\ Shape[t].dims # <<>>]

\* find_member: the member named, whatever the case; NoTemplate has none.
HasMember(tpl, n) == tpl # NoTemplate /\ n \in DOMAIN Layout[tpl].member

\* A member may be indexed when it is an array; one without dimensions may not.
ArrayOf(m) == IF m.arraySize > 0 THEN <<m.arraySize>> ELSE <<>>

\* Into a member: a scalar BOOL, a nested structure or an atomic.
Drill(at, n) ==
  LET m     == Layout[at.tpl].member[n]
      here  == [at EXCEPT !.offset = @ + m.offset, !.type = m.type, !.tpl = NoTemplate]
      array == [here EXCEPT !.pending = ArrayOf(m), !.running = 0]
  IN IF m.type = "BOOL" /\ m.elementSize = 0
     THEN [here EXCEPT !.bit = m.arraySize, !.elementSize = 1]
     ELSE IF m.type \in DOMAIN Layout
     THEN [array EXCEPT !.elementSize = Layout[m.type].size, !.tpl = m.type]
     ELSE [array EXCEPT !.elementSize = IF m.elementSize > 0 THEN m.elementSize
                                        ELSE AtomicSize[m.type]]

\* One dimension of an array; at the last the offset moves, row by row, and an
\* element of a tag that is an array of BOOL is a bit.
Element(at, i) ==
  LET running == at.running * Head(at.pending) + i
      rest    == [at EXCEPT !.pending = Tail(@), !.running = running]
      done    == [rest EXCEPT !.running = 0]
  IN IF rest.pending # <<>> THEN rest
     ELSE IF at.bools THEN [done EXCEPT !.offset = @ + running \div ByteBits,
                                        !.bit = running % ByteBits]
     ELSE [done EXCEPT !.offset = @ + running * at.elementSize]

Step(at, seg) ==
  LET legal == /\ at.ok
               /\ at.bit = NoBit
               /\ IF seg.kind = "symbolic"
                  THEN at.pending = <<>> /\ HasMember(at.tpl, seg.name)
                  ELSE at.pending # <<>> /\ seg.index < Head(at.pending)
  IN IF ~legal THEN Failed
     ELSE IF seg.kind = "symbolic" THEN Drill(at, seg.name) ELSE Element(at, seg.index)

\* walk: every array on the way must have been indexed to its last dimension.
Walk(t, segments) ==
  LET at == FoldLeft(Step, Root(t), segments)
  IN IF at.pending = <<>> THEN at ELSE Failed
==============================================================================
